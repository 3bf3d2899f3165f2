--------------------------- MODULE JobPoolProofs ----------------------------
(***************************************************************************)
(* Proofs about the worker pool of the HW4 client, for every number of     *)
(* parts, workers and servers, whichever servers time out and whatever the *)
(* uninitialised `ret' holds.                                              *)
(***************************************************************************)
EXTENDS JobPool, ListLemmas, FiniteSetTheorems, FunctionTheorems

-----------------------------------------------------------------------------
(* Types, and what a worker holds at each point of thread_download.        *)

\* A worker holds a server from the critical section in which it takes it to
\* the one in which it gives it back, and a job from popJobItem to addJobItem.
Points ==
  \A w \in Workers :
    /\ job[w] # NoJob <=> pc[w] \in {"open", "recv", "record", "requeue"}
    /\ held[w] # NoServer <=> pc[w] \in {"socket", "test", "pop", "open", "recv",
                                        "record", "requeue", "release"}

\* The initial lists hold what their types say.
LEMMA InitTypes == Init => TypeOK /\ Points
  <1> SUFFICES ASSUME Init PROVE TypeOK /\ Points
    OBVIOUS
  <1>1. server_info_list \in Seq(Servers)
    BY ServerInfoAssumption DEF Init
  <1>2. chunk_jobs \in Seq(Jobs)
    <2>1. \A i \in 1 .. JobNum : i - 1 \in Jobs
      BY JobNumAssumption DEF Jobs
    <2>2. chunk_jobs \in [1 .. JobNum -> Jobs]
      BY <2>1 DEF Init
    <2> QED BY <2>2, JobNumAssumption, IsASeq
  <1>3. done_jobs \in Seq(Jobs)
    BY DEF Init
  <1>4. ret \in [Workers -> {0, 1}]
    BY GarbageAssumption DEF Init
  <1>5. /\ pc \in [Workers -> PC]
        /\ held \in [Workers -> Servers \cup {NoServer}]
        /\ job \in [Workers -> Jobs \cup {NoJob}]
    BY DEF Init, PC
  <1>6. /\ temp \in [Jobs -> {"absent", "stale", "partial", "ended"}]
        /\ main \in {"joining", "combining", "finished", "failed"}
    BY DEF Init
  <1>7. Points
    BY DEF Init, Points
  <1> QED BY <1>1, <1>2, <1>3, <1>4, <1>5, <1>6, <1>7 DEF TypeOK

\* Every step of a worker keeps the types and what it holds where.
LEMMA StepTypes ==
  ASSUME TypeOK, Points, NEW w \in Workers, Step(w)
  PROVE  TypeOK' /\ Points'
  <1> USE DEF TypeOK, Points, PC, At, pool
  <1>0. NoJob \notin Jobs /\ NoServer \notin Servers
    BY NoJobAssumption, NoServerAssumption
  <1>1. CASE Wait(w)
    BY <1>0, <1>1 DEF Wait
  <1>2. CASE Acquire(w)
    BY <1>0, <1>2, TakeLast DEF Acquire
  <1>3. CASE Socket(w)
    BY <1>0, <1>3 DEF Socket
  <1>4. CASE EnterLoop(w)
    BY <1>0, <1>4 DEF EnterLoop
  <1>5. CASE LeaveLoop(w)
    BY <1>0, <1>5 DEF LeaveLoop
  <1>6. CASE DropIdle(w)
    BY <1>0, <1>6 DEF DropIdle
  <1>7. CASE FindNoJob(w)
    BY <1>0, <1>7 DEF FindNoJob
  <1>8. CASE Pop(w)
    BY <1>0, <1>8, TakeLast DEF Pop
  <1>9. CASE Open(w)
    BY <1>0, <1>9 DEF Open
  <1>10. CASE Succeed(w)
    BY <1>0, <1>10 DEF Succeed
  <1>11. CASE Fail(w)
    BY <1>0, <1>11 DEF Fail
  <1>12. CASE Record(w)
    BY <1>0, <1>12, PutLast DEF Record
  <1>13. CASE Requeue(w)
    BY <1>0, <1>13, PutLast DEF Requeue
  <1>14. CASE Release(w)
    BY <1>0, <1>14, PutLast DEF Release
  <1>15. CASE Broadcast(w)
    BY <1>0, <1>15 DEF Broadcast
  <1> QED BY <1>1, <1>2, <1>3, <1>4, <1>5, <1>6, <1>7, <1>8,
             <1>9, <1>10, <1>11, <1>12, <1>13, <1>14, <1>15 DEF Step

-----------------------------------------------------------------------------
(* The inductive invariant.                                                *)

\* The file of a job on the list of done jobs, or about to get there, is
\* complete.
FilesEnded ==
  /\ \A j \in Range(done_jobs) : temp[j] = "ended"
  /\ \A w \in Workers : pc[w] = "record" => temp[job[w]] = "ended"

IInv == /\ TypeOK /\ Points
        /\ JobsConserved /\ ServersConserved
        /\ NoLostWakeup /\ FilesEnded

\* The lists main builds satisfy the invariant: all jobs open, all servers idle.
LEMMA InitInv == Init => IInv
  <1> SUFFICES ASSUME Init PROVE IInv
    OBVIOUS
  <1>1. TypeOK /\ Points
    BY InitTypes
  <1>2. Range(chunk_jobs) = Jobs /\ IsInjective(chunk_jobs)
    <2>1. DOMAIN chunk_jobs = 1 .. JobNum
      BY DEF Init
    <2>2. \A i \in 1 .. JobNum : chunk_jobs[i] = i - 1
      BY DEF Init
    <2>3. \A j \in Jobs : j + 1 \in 1 .. JobNum /\ chunk_jobs[j + 1] = j
      BY <2>2, JobNumAssumption DEF Jobs
    <2>4. \A i \in 1 .. JobNum : chunk_jobs[i] \in Jobs
      BY <2>2, JobNumAssumption DEF Jobs
    <2>5. Range(chunk_jobs) = Jobs
      BY <2>1, <2>3, <2>4 DEF Range
    <2> QED BY <2>1, <2>2, <2>5, JobNumAssumption DEF IsInjective
  <1>3. Range(done_jobs) = {} /\ IsInjective(done_jobs)
    BY EmptySeq DEF Init, Range, IsInjective
  <1>4. JobsConserved
    BY <1>2, <1>3 DEF Init, JobsConserved
  <1>5. ServersConserved
    BY ServerInfoAssumption DEF Init, ServersConserved
  <1>6. NoLostWakeup
    BY DEF Init, NoLostWakeup
  <1>7. FilesEnded
    BY <1>3 DEF Init, FilesEnded
  <1> QED BY <1>1, <1>4, <1>5, <1>6, <1>7 DEF IInv

\* No step of a worker loses or doubles a job.
LEMMA StepJobs ==
  ASSUME IInv, NEW w \in Workers, Step(w)
  PROVE  JobsConserved'
  <1> USE DEF IInv, TypeOK, At, pool, Points
  <1>0. NoJob \notin Jobs
    BY NoJobAssumption
  <1>1. CASE Pop(w)
    <2> DEFINE j == Last(chunk_jobs)
    <2>1. /\ j \in Jobs /\ j \in Range(chunk_jobs)
          /\ Range(chunk_jobs') = Range(chunk_jobs) \ {j}
          /\ IsInjective(chunk_jobs')
      BY <1>1, TakeLast, TakeLastOnce DEF Pop, JobsConserved
    <2>2. done_jobs' = done_jobs /\ job' = [job EXCEPT ![w] = j] /\ job[w] = NoJob
      BY <1>1 DEF Pop
    <2>3. j # NoJob /\ j \notin Range(done_jobs) /\ \A v \in Workers : job[v] # j
      BY <1>0, <2>1 DEF JobsConserved
    <2> HIDE DEF j
    <2>4. \A v \in Workers : job'[v] # NoJob =>
            /\ job'[v] \notin Range(chunk_jobs') \cup Range(done_jobs')
            /\ \A u \in Workers : job'[u] = job'[v] => u = v
      BY <2>1, <2>2, <2>3 DEF JobsConserved
    <2>5. \A k \in Jobs : \/ k \in Range(chunk_jobs') \cup Range(done_jobs')
                          \/ \E v \in Workers : job'[v] = k
      BY <1>0, <2>1, <2>2 DEF JobsConserved
    <2> QED BY <2>1, <2>2, <2>4, <2>5 DEF JobsConserved
  <1>2. CASE Record(w)
    BY <1>0, <1>2, PutLast DEF Record, JobsConserved
  <1>3. CASE Requeue(w)
    BY <1>0, <1>3, PutLast DEF Requeue, JobsConserved
  <1>4. CASE UNCHANGED <<chunk_jobs, done_jobs, job>>
    BY <1>4 DEF JobsConserved
  <1> QED
    BY <1>1, <1>2, <1>3, <1>4
    DEF Step, Wait, Acquire, Socket, EnterLoop, LeaveLoop, DropIdle, FindNoJob,
        Open, Succeed, Fail, Release, Broadcast

\* No step of a worker doubles a server, nor leaves it in two hands.
LEMMA StepServers ==
  ASSUME IInv, NEW w \in Workers, Step(w)
  PROVE  ServersConserved'
  <1> USE DEF IInv, TypeOK, At, pool, Points, ServersConserved
  <1>0. NoServer \notin Servers
    BY NoServerAssumption
  <1>1. CASE Acquire(w)
    BY <1>0, <1>1, TakeLast, TakeLastOnce DEF Acquire
  <1>2. CASE Release(w)
    BY <1>0, <1>2, PutLast DEF Release
  <1>3. CASE DropIdle(w) \/ Requeue(w)
    BY <1>0, <1>3 DEF DropIdle, Requeue
  <1>4. CASE UNCHANGED <<server_info_list, held>>
    BY <1>4
  <1> QED
    BY <1>1, <1>2, <1>3, <1>4
    DEF Step, Wait, Socket, EnterLoop, LeaveLoop, FindNoJob, Pop, Open,
        Succeed, Fail, Record, Broadcast

\* Whoever puts a server on an empty list is on its way to the broadcast, and
\* whoever goes to sleep has found the list empty.
LEMMA StepWakeup ==
  ASSUME IInv, NEW w \in Workers, Step(w)
  PROVE  NoLostWakeup'
  <1> USE DEF IInv, TypeOK, At, pool, NoLostWakeup
  <1>1. CASE Wait(w)
    BY <1>1 DEF Wait
  <1>2. CASE Acquire(w)
    BY <1>2 DEF Acquire
  <1>3. CASE Release(w)
    BY <1>3 DEF Release
  <1>4. CASE Broadcast(w)
    BY <1>4 DEF Broadcast
  <1>5. CASE /\ server_info_list' = server_info_list
             /\ \E p \in PC \ {"waiting"} : pc' = [pc EXCEPT ![w] = p]
             /\ pc[w] # "broadcast"
    BY <1>5
  <1> QED
    BY <1>1, <1>2, <1>3, <1>4, <1>5
    DEF Step, Socket, EnterLoop, LeaveLoop, DropIdle, FindNoJob, Pop, Open,
        Succeed, Fail, Record, Requeue, PC

\* No step of a worker opens the file of a done job: the file a worker writes
\* is that of the job in its hands.
LEMMA StepFiles ==
  ASSUME IInv, NEW w \in Workers, Step(w)
  PROVE  FilesEnded'
  <1> USE DEF IInv, TypeOK, At, pool, Points, JobsConserved, FilesEnded
  <1>1. CASE Open(w)
    BY <1>1 DEF Open
  <1>2. CASE Succeed(w)
    BY <1>2 DEF Succeed
  <1>3. CASE Record(w)
    BY <1>3, PutLast DEF Record
  <1>4. CASE Broadcast(w)
    BY <1>4 DEF Broadcast
  <1>5. CASE /\ UNCHANGED <<done_jobs, temp>>
             /\ \E p \in PC \ {"record"} : pc' = [pc EXCEPT ![w] = p]
             /\ \A v \in Workers : v # w => job'[v] = job[v]
    BY <1>5
  <1> QED
    BY <1>1, <1>2, <1>3, <1>4, <1>5
    DEF Step, Wait, Acquire, Socket, EnterLoop, LeaveLoop, DropIdle, FindNoJob,
        Pop, Fail, Requeue, Release, PC

-----------------------------------------------------------------------------
(* The theorems.                                                           *)

\* IInv is inductive: the steps of the workers are covered by the lemmas, the
\* others leave the lists alone.
LEMMA NextInv == IInv /\ [Next]_vars => IInv'
  <1> SUFFICES ASSUME IInv, [Next]_vars PROVE IInv'
    OBVIOUS
  <1>1. ASSUME NEW w \in Workers, Step(w) PROVE IInv'
    BY <1>1, StepTypes, StepJobs, StepServers, StepWakeup, StepFiles DEF IInv
  <1>2. ASSUME NEW w \in Workers, SpuriousWake(w) PROVE IInv'
    <2>1. /\ pc[w] = "waiting" /\ pc' = [pc EXCEPT ![w] = "acquire"]
          /\ UNCHANGED <<server_info_list, chunk_jobs, done_jobs, held, job, ret, temp, main>>
      BY <1>2 DEF SpuriousWake, At, pool
    <2>2. TypeOK'
      BY <2>1 DEF IInv, TypeOK, PC
    <2>3. \A v \in Workers : pc'[v] = IF v = w THEN "acquire" ELSE pc[v]
      BY <2>1 DEF IInv, TypeOK
    <2>4. Points'
      BY <2>1, <2>3 DEF IInv, Points
    <2>5. JobsConserved'
      BY <2>1, <2>3 DEF IInv, JobsConserved
    <2>6. ServersConserved'
      BY <2>1, <2>3 DEF IInv, ServersConserved
    <2>7. NoLostWakeup'
      BY <2>1, <2>3 DEF IInv, NoLostWakeup
    <2>8. FilesEnded'
      BY <2>1, <2>3 DEF IInv, FilesEnded
    <2> QED BY <2>2, <2>4, <2>5, <2>6, <2>7, <2>8 DEF IInv
  <1>3. CASE /\ UNCHANGED <<pool, pc, held, job, ret, temp>>
             /\ main' \in {"joining", "combining", "finished", "failed"}
    BY <1>3
    DEF pool, IInv, TypeOK, Points, JobsConserved, ServersConserved,
        NoLostWakeup, FilesEnded
  <1>4. CASE MainStep
    BY <1>3, <1>4 DEF MainStep, Join, JoinPastEnd, Combine
  <1>5. CASE \E w \in Workers : FailHandler(w)
    BY <1>3, <1>5 DEF FailHandler
  <1>6. CASE UNCHANGED vars
    BY <1>3, <1>6 DEF vars, pool, IInv, TypeOK
  <1> QED BY <1>1, <1>2, <1>4, <1>5, <1>6 DEF Next, Terminated

\* IInv holds in every state of the pool.
THEOREM Invariance == Spec => []IInv
  BY InitInv, NextInv, PTL DEF Spec

\* The shared lists, the workers and the files always hold values of their
\* types, for any number of parts, workers and servers.
THEOREM TypeCorrect == Spec => []TypeOK
  <1>1. IInv => TypeOK
    BY DEF IInv
  <1> QED BY <1>1, Invariance, PTL

\* No schedule loses a job or gives it to two workers at once.
THEOREM JobsAreConserved == Spec => []JobsConserved
  <1>1. IInv => JobsConserved
    BY DEF IInv
  <1> QED BY <1>1, Invariance, PTL

\* No schedule gives one address to two workers or lists it while it is used.
THEOREM ServersAreConserved == Spec => []ServersConserved
  <1>1. IInv => ServersConserved
    BY DEF IInv
  <1> QED BY <1>1, Invariance, PTL

\* Broadcasting after the unlock never leaves a worker asleep with a server on
\* the list and no broadcast to come.
THEOREM WakeupsAreNotLost == Spec => []NoLostWakeup
  <1>1. IInv => NoLostWakeup
    BY DEF IInv
  <1> QED BY <1>1, Invariance, PTL

\* A list of jobs without repetition is no longer than the number of jobs.
LEMMA FewJobs ==
  ASSUME NEW s \in Seq(Jobs), IsInjective(s)
  PROVE  Len(s) <= JobNum
  <1>1. Len(s) \in Nat /\ DOMAIN s = 1 .. Len(s) /\ s \in [1 .. Len(s) -> Jobs]
    BY LenProperties
  <1>2. IsFiniteSet(Jobs) /\ Cardinality(Jobs) = JobNum
    BY FS_Interval, JobNumAssumption DEF Jobs
  <1>3. IsFiniteSet(1 .. Len(s)) /\ Cardinality(1 .. Len(s)) = Len(s)
    BY <1>1, FS_Interval
  <1>4. ~(Cardinality(1 .. Len(s)) > Cardinality(Jobs))
    BY <1>1, <1>2, <1>3, FS_PigeonHole DEF IsInjective
  <1> QED BY <1>1, <1>2, <1>3, <1>4, JobNumAssumption

\* No schedule overruns the two job arrays, which addJobItem never checks.
THEOREM ListsAlwaysFit == Spec => []ListsFit
  <1>1. IInv => ListsFit
    BY FewJobs DEF IInv, TypeOK, JobsConserved, ListsFit
  <1> QED BY <1>1, Invariance, PTL

\* A done job stays done and its file is not touched again.
THEOREM DoneStays == Spec => DoneIsFinal
  <1> DEFINE Kept == \A j \in Range(done_jobs) :
                       j \in Range(done_jobs') /\ temp'[j] = temp[j]
  <1>1. IInv /\ [Next]_vars => [Kept]_vars
    <2> SUFFICES ASSUME IInv, [Next]_vars PROVE Kept
      OBVIOUS
    <2> USE DEF IInv, TypeOK, Points, JobsConserved, At, pool
    <2>1. ASSUME NEW w \in Workers, Open(w) \/ Succeed(w) PROVE Kept
      <3>1. job[w] \in Jobs /\ job[w] \notin Range(done_jobs)
        BY <2>1, NoJobAssumption DEF Open, Succeed
      <3>2. Range(done_jobs) \subseteq Jobs
        BY RangeInSet
      <3>3. /\ done_jobs' = done_jobs
            /\ \A j \in Jobs : j # job[w] => temp'[j] = temp[j]
        BY <2>1 DEF Open, Succeed
      <3> QED BY <3>1, <3>2, <3>3
    <2>2. ASSUME NEW w \in Workers, Record(w) PROVE Kept
      BY <2>2, NoJobAssumption, PutLast DEF Record
    <2>3. CASE UNCHANGED <<done_jobs, temp>>
      BY <2>3
    <2>4. ASSUME NEW w \in Workers, Step(w) PROVE Kept
      BY <2>1, <2>2, <2>3, <2>4
      DEF Step, Wait, Acquire, Socket, EnterLoop, LeaveLoop, DropIdle,
          FindNoJob, Pop, Fail, Requeue, Release, Broadcast
    <2>5. CASE \E w \in Workers : SpuriousWake(w) \/ FailHandler(w)
      BY <2>3, <2>5 DEF SpuriousWake, FailHandler
    <2>6. CASE MainStep
      BY <2>3, <2>6 DEF MainStep, Join, JoinPastEnd, Combine
    <2>7. CASE UNCHANGED vars
      BY <2>3, <2>7 DEF vars
    <2> QED BY <2>4, <2>5, <2>6, <2>7 DEF Next, Terminated
  <1> QED BY <1>1, Invariance, PTL DEF Spec, DoneIsFinal
-----------------------------------------------------------------------------
(* How much is missing when servers were dropped.                          *)

Exited  == {w \in Workers : pc[w] = "exited"}
Leavers == {w \in Workers : pc[w] \in {"release", "broadcast"}}

\* From the first time a worker finds the stack of open jobs empty there is a
\* dropped server for every job on the stack: a requeued job costs the server
\* that failed.  Before that nobody left but with a dropped server.
Accounted ==
  \/ Len(chunk_jobs) <= Cardinality(Dropped)
  \/ Leavers = {} /\ Cardinality(Exited) <= Cardinality(Dropped)

\* main combines after it has joined every worker.
JoinedAll == main \in {"combining", "finished"} => AllExited

LossInv == IInv /\ Accounted /\ JoinedAll
\* The sets that are counted are finite, and there are no more servers than
\* entries in the list main hands over.
LEMMA FiniteCounts ==
  /\ IsFiniteSet(Servers) /\ Cardinality(Servers) <= Len(ServerInfo)
  /\ IsFiniteSet(Jobs) /\ Cardinality(Jobs) = JobNum
  /\ IsFiniteSet(Workers) /\ Cardinality(Workers) = WorkerNum
  /\ IsFiniteSet(Dropped) /\ IsFiniteSet(Exited)
  /\ Cardinality(Dropped) \in Nat /\ Cardinality(Dropped) <= Len(ServerInfo)
  /\ Cardinality(Exited) \in Nat
  <1>1. /\ Len(ServerInfo) \in Nat /\ DOMAIN ServerInfo = 1 .. Len(ServerInfo)
        /\ ServerInfo \in [1 .. Len(ServerInfo) -> Servers]
    BY ServerInfoAssumption, LenProperties
  <1>2. ServerInfo \in Surjection(1 .. Len(ServerInfo), Servers)
    BY <1>1, Fun_RangeProperties DEF Servers
  <1>3. /\ IsFiniteSet(1 .. Len(ServerInfo))
        /\ Cardinality(1 .. Len(ServerInfo)) = Len(ServerInfo)
    BY <1>1, FS_Interval
  <1>4. IsFiniteSet(Servers) /\ Cardinality(Servers) <= Len(ServerInfo)
    BY <1>2, <1>3, FS_Surjection
  <1>5. IsFiniteSet(Jobs) /\ Cardinality(Jobs) = JobNum
    BY FS_Interval, JobNumAssumption DEF Jobs
  <1>6. IsFiniteSet(Workers) /\ Cardinality(Workers) = WorkerNum
    BY FS_Interval, JobNumAssumption, MaxWorkerAssumption DEF Workers, WorkerNum
  <1>7. IsFiniteSet(Dropped) /\ Cardinality(Dropped) <= Cardinality(Servers)
    BY <1>4, FS_Subset DEF Dropped
  <1>8. IsFiniteSet(Exited)
    BY <1>6, FS_Subset DEF Exited
  <1>9. /\ Cardinality(Dropped) \in Nat /\ Cardinality(Servers) \in Nat
        /\ Cardinality(Exited) \in Nat
    BY <1>4, <1>7, <1>8, FS_CardinalityType
  <1> QED BY <1>1, <1>4, <1>5, <1>6, <1>7, <1>8, <1>9

\* Once as many jobs are done as were asked for none is open.
LEMMA NoneOpen ==
  ASSUME IInv, AllDone
  PROVE  chunk_jobs = << >>
  <1>1. done_jobs \in Seq(Jobs) /\ IsInjective(done_jobs) /\ Len(done_jobs) = JobNum
    BY DEF IInv, TypeOK, JobsConserved, AllDone
  <1>2. /\ DOMAIN done_jobs = 1 .. JobNum
        /\ done_jobs \in Injection(1 .. JobNum, Jobs)
    BY <1>1, LenProperties DEF Injection
  <1>3. IsFiniteSet(1 .. JobNum) /\ Cardinality(1 .. JobNum) = JobNum
    BY FS_Interval, JobNumAssumption
  <1>4. done_jobs \in Surjection(1 .. JobNum, Jobs)
    BY <1>2, <1>3, FiniteCounts, FS_Injection
  <1>5. Jobs \subseteq Range(done_jobs)
    BY <1>4, Fun_SurjectionProperties
  <1>6. SUFFICES ASSUME chunk_jobs # << >> PROVE FALSE
    OBVIOUS
  <1>7. Last(chunk_jobs) \in Jobs /\ Last(chunk_jobs) \in Range(chunk_jobs)
    BY <1>6, TakeLast, TakeLastOnce DEF IInv, TypeOK, JobsConserved
  <1> QED BY <1>5, <1>7 DEF IInv, JobsConserved

\* A server that leaves a worker's hands other than through the list is one
\* more dropped server.
LEMMA DropCounts ==
  ASSUME IInv, NEW w \in Workers, held[w] # NoServer,
         held' = [held EXCEPT ![w] = NoServer],
         server_info_list' = server_info_list
  PROVE  Cardinality(Dropped') = Cardinality(Dropped) + 1
  <1>1. held[w] \in Servers /\ held[w] \notin Range(server_info_list)
    BY DEF IInv, TypeOK, ServersConserved
  <1>2. \A v \in Workers : v # w => held[v] # held[w]
    BY DEF IInv, ServersConserved
  <1>3. \A v \in Workers : held'[v] = IF v = w THEN NoServer ELSE held[v]
    BY DEF IInv, TypeOK
  <1>4. held[w] \notin {held'[v] : v \in Workers}
    BY <1>2, <1>3
  <1>5. Dropped' = Dropped \cup {held[w]}
    BY <1>1, <1>3, <1>4, NoServerAssumption DEF Dropped
  <1>6. held[w] \notin Dropped
    BY DEF Dropped
  <1> QED BY <1>5, <1>6, FiniteCounts, FS_AddElement

\* Taking a server from the list and giving it back drops none.
LEMMA HandOverDropsNone ==
  ASSUME IInv, NEW w \in Workers, Acquire(w) \/ Release(w)
  PROVE  Dropped' = Dropped
  <1>0. /\ server_info_list \in Seq(Servers) /\ IsInjective(server_info_list)
        /\ held \in [Workers -> Servers \cup {NoServer}]
        /\ NoServer \notin Servers
    BY NoServerAssumption DEF IInv, TypeOK, ServersConserved
  <1>1. CASE Acquire(w)
    <2>1. /\ Last(server_info_list) \in Range(server_info_list)
          /\ Range(server_info_list') = Range(server_info_list) \ {Last(server_info_list)}
      BY <1>0, <1>1, TakeLastOnce DEF Acquire
    <2>2. \A v \in Workers :
            held'[v] = IF v = w THEN Last(server_info_list) ELSE held[v]
      BY <1>0, <1>1 DEF Acquire
    <2>3. held[w] = NoServer
      BY <1>1 DEF Acquire, At, IInv, Points
    <2>4. ASSUME NEW s \in Servers
          PROVE  /\ s \in Range(server_info_list') <=>
                      s \in Range(server_info_list) /\ s # Last(server_info_list)
                 /\ (\E v \in Workers : held'[v] = s) <=>
                      s = Last(server_info_list) \/ \E v \in Workers : held[v] = s
      BY <1>0, <2>1, <2>2, <2>3
    <2> QED BY <2>1, <2>4 DEF Dropped
  <1>2. CASE Release(w)
    <2>1. held[w] \in Servers
      BY <1>0, <1>2 DEF Release, At, IInv, Points
    <2>2. Range(server_info_list') = Range(server_info_list) \cup {held[w]}
      BY <1>0, <1>2, <2>1, PutLast DEF Release
    <2>3. \A v \in Workers : held'[v] = IF v = w THEN NoServer ELSE held[v]
      BY <1>0, <1>2 DEF Release
    <2>4. ASSUME NEW s \in Servers
          PROVE  s = held[w] \/ (\E v \in Workers : held'[v] = s)
                   <=> \E v \in Workers : held[v] = s
      BY <1>0, <2>1, <2>3
    <2> QED BY <2>2, <2>4 DEF Dropped
  <1> QED BY <1>1, <1>2

\* Every step of a worker keeps the account.
LEMMA StepAccounted ==
  ASSUME IInv, Accounted, NEW w \in Workers, Step(w)
  PROVE  Accounted'
  <1> USE DEF At, pool
  <1>0. /\ Cardinality(Dropped) \in Nat /\ Cardinality(Exited) \in Nat
        /\ Len(chunk_jobs) \in Nat /\ chunk_jobs \in Seq(Jobs)
        /\ pc \in [Workers -> PC]
    BY FiniteCounts, LenProperties DEF IInv, TypeOK
  <1>1. CASE Acquire(w)
    <2>1. Dropped' = Dropped /\ UNCHANGED chunk_jobs
      BY <1>1, HandOverDropsNone DEF Acquire
    <2>2. Leavers' = Leavers /\ Exited' = Exited
      BY <1>0, <1>1 DEF Acquire, Leavers, Exited
    <2> QED BY <2>1, <2>2 DEF Accounted
  <1>2. CASE Release(w)
    <2>1. Dropped' = Dropped /\ UNCHANGED chunk_jobs
      BY <1>2, HandOverDropsNone DEF Release
    <2>2. w \in Leavers
      BY <1>2 DEF Release, Leavers
    <2> QED BY <2>1, <2>2 DEF Accounted
  <1>3. CASE LeaveLoop(w) \/ FindNoJob(w) \/ DropIdle(w)
    <2>1. chunk_jobs = << >> /\ chunk_jobs' = chunk_jobs
      BY <1>3, NoneOpen DEF LeaveLoop, FindNoJob, DropIdle
    <2>2. Len(chunk_jobs') = 0
      BY <2>1, EmptySeq
    <2>3. CASE LeaveLoop(w) \/ FindNoJob(w)
      <3>1. Dropped' = Dropped
        BY <2>3 DEF LeaveLoop, FindNoJob, Dropped
      <3> QED BY <1>0, <2>2, <3>1 DEF Accounted
    <2>4. CASE DropIdle(w)
      <3>1. Cardinality(Dropped') = Cardinality(Dropped) + 1
        BY <2>4, DropCounts DEF DropIdle, IInv, Points
      <3> QED BY <1>0, <2>2, <3>1 DEF Accounted
    <2> QED BY <1>3, <2>3, <2>4
  <1>4. CASE Pop(w)
    <2>1. Len(chunk_jobs') = Len(chunk_jobs) - 1 /\ Dropped' = Dropped
      BY <1>0, <1>4, TakeLast DEF Pop, Dropped
    <2>2. Leavers' = Leavers /\ Exited' = Exited
      BY <1>0, <1>4 DEF Pop, Leavers, Exited
    <2> QED BY <1>0, <2>1, <2>2 DEF Accounted
  <1>5. CASE Requeue(w)
    <2>1. Cardinality(Dropped') = Cardinality(Dropped) + 1
      BY <1>5, DropCounts DEF Requeue, IInv, Points
    <2>2. Len(chunk_jobs') = Len(chunk_jobs) + 1
      <3>1. job[w] \in Jobs
        BY <1>5 DEF Requeue, IInv, TypeOK, Points
      <3> QED BY <1>0, <1>5, <3>1, PutLast DEF Requeue
    <2>3. Leavers' = Leavers
      BY <1>0, <1>5 DEF Requeue, Leavers
    <2>4. Cardinality(Exited') = Cardinality(Exited) + 1
      <3>1. Exited' = Exited \cup {w} /\ w \notin Exited
        BY <1>0, <1>5 DEF Requeue, Exited
      <3> QED BY <3>1, FiniteCounts, FS_AddElement
    <2> QED BY <1>0, <2>1, <2>2, <2>3, <2>4 DEF Accounted
  <1>6. CASE Broadcast(w)
    <2>1. w \in Leavers /\ UNCHANGED chunk_jobs /\ Dropped' = Dropped
      BY <1>6 DEF Broadcast, Leavers, Dropped
    <2> QED BY <2>1 DEF Accounted
  <1>7. CASE /\ UNCHANGED <<server_info_list, held, chunk_jobs>>
             /\ \E p \in PC \ {"release", "broadcast", "exited"} :
                  pc' = [pc EXCEPT ![w] = p]
             /\ pc[w] \notin {"release", "broadcast", "exited"}
    <2>1. Dropped' = Dropped
      BY <1>7 DEF Dropped
    <2>2. Leavers' = Leavers /\ Exited' = Exited
      BY <1>0, <1>7 DEF Leavers, Exited
    <2> QED BY <1>7, <2>1, <2>2 DEF Accounted
  <1> QED
    BY <1>1, <1>2, <1>3, <1>4, <1>5, <1>6, <1>7
    DEF Step, Wait, Socket, EnterLoop, Open, Succeed, Fail, Record, PC

\* The account is kept by every step of the pool.
LEMMA NextLoss == LossInv /\ [Next]_vars => LossInv'
  <1> SUFFICES ASSUME LossInv, [Next]_vars PROVE LossInv'
    OBVIOUS
  <1>0. IInv'
    BY NextInv DEF LossInv
  <1>1. ASSUME NEW w \in Workers, Step(w) PROVE LossInv'
    <2>1. main = "joining" /\ main' = main
      BY <1>1
      DEF Step, Wait, Acquire, Socket, EnterLoop, LeaveLoop, DropIdle, FindNoJob,
          Pop, Open, Succeed, Fail, Record, Requeue, Release, Broadcast, At
    <2>2. JoinedAll'
      BY <2>1 DEF JoinedAll
    <2> QED BY <1>0, <1>1, <2>2, StepAccounted DEF LossInv
  <1>2. ASSUME NEW w \in Workers, SpuriousWake(w) PROVE LossInv'
    <2>1. Leavers' = Leavers /\ Exited' = Exited /\ Dropped' = Dropped
      BY <1>2
      DEF SpuriousWake, At, pool, Leavers, Exited, Dropped, LossInv, IInv, TypeOK
    <2>2. Accounted' /\ JoinedAll'
      BY <1>2, <2>1 DEF SpuriousWake, At, pool, Accounted, JoinedAll, LossInv
    <2> QED BY <1>0, <2>2 DEF LossInv
  <1>3. ASSUME /\ UNCHANGED <<pool, pc, held, job, ret, temp>>
               /\ main' \in {"combining", "finished"} => AllExited
        PROVE  LossInv'
    <2>1. Leavers' = Leavers /\ Exited' = Exited /\ Dropped' = Dropped
      BY <1>3 DEF pool, Leavers, Exited, Dropped
    <2>2. Accounted' /\ JoinedAll'
      BY <1>3, <2>1 DEF pool, Accounted, JoinedAll, LossInv, AllExited
    <2> QED BY <1>0, <2>2 DEF LossInv
  <1>4. CASE MainStep
    BY <1>3, <1>4 DEF MainStep, Join, JoinPastEnd, Combine, LossInv, JoinedAll
  <1>5. CASE \E w \in Workers : FailHandler(w)
    BY <1>3, <1>5 DEF FailHandler
  <1>6. CASE UNCHANGED vars
    BY <1>3, <1>6 DEF vars, pool, LossInv, JoinedAll
  <1> QED BY <1>1, <1>2, <1>4, <1>5, <1>6 DEF Next, Terminated

\* What is missing when the workers are gone is what is left on the stack.
LEMMA MissingOnStack ==
  ASSUME IInv, AllExited
  PROVE  Missing \subseteq Range(chunk_jobs)
  <1>1. \A w \in Workers : job[w] = NoJob
    BY DEF IInv, Points, AllExited
  <1>2. \A j \in Jobs : j \in Range(chunk_jobs) \cup Range(done_jobs)
    BY <1>1, NoJobAssumption DEF IInv, JobsConserved
  <1> QED BY <1>2 DEF IInv, FilesEnded, Missing

\* The account, settled: with every worker gone, either there is a dropped
\* server for every job on the stack, or every worker lost its server.
LEMMA LossSettled == LossInv => LossBounded
  <1> SUFFICES ASSUME LossInv PROVE LossBounded
    OBVIOUS
  <1>0. /\ chunk_jobs \in Seq(Jobs) /\ IsInjective(chunk_jobs)
        /\ Len(chunk_jobs) \in Nat /\ DOMAIN chunk_jobs = 1 .. Len(chunk_jobs)
    BY LenProperties DEF LossInv, IInv, TypeOK, JobsConserved
  <1>1. AllExited => Missing \subseteq Range(chunk_jobs)
    BY MissingOnStack DEF LossInv
  <1>2. AllExited => Exited = Workers
    BY DEF AllExited, Exited
  <1>3. /\ JobNum \in Nat \ {0} /\ MaxWorker \in Nat \ {0} /\ Len(ServerInfo) \in Nat
        /\ WorkerNum \in Nat /\ Cardinality(Workers) = WorkerNum
        /\ Cardinality(Dropped) \in Nat /\ Cardinality(Dropped) <= Len(ServerInfo)
    BY FiniteCounts, JobNumAssumption, MaxWorkerAssumption, ServerInfoAssumption, LenProperties
    DEF WorkerNum
  <1>4. AllExited => \/ Len(chunk_jobs) <= Cardinality(Dropped)
                     \/ WorkerNum <= Cardinality(Dropped)
    BY <1>2, <1>3 DEF LossInv, Accounted
  <1>5. ASSUME main \in {"combining", "finished"}, Dropped = {} PROVE Missing = {}
    <2>1. AllExited /\ Cardinality(Dropped) = 0
      BY <1>5, FS_EmptySet DEF LossInv, JoinedAll
    <2>2. WorkerNum # 0
      BY <1>3 DEF WorkerNum
    <2>3. Len(chunk_jobs) = 0
      BY <1>0, <1>3, <1>4, <2>1, <2>2
    <2>4. Range(chunk_jobs) = {}
      BY <1>0, <2>3 DEF Range
    <2> QED BY <1>1, <2>1, <2>4
  <1>6. ASSUME AllExited, JobNum <= MaxWorker \/ Len(ServerInfo) < MaxWorker
        PROVE  Cardinality(Missing) <= Cardinality(Dropped)
    <2>1. Len(chunk_jobs) <= JobNum
      BY <1>0, FewJobs
    <2>2. Len(chunk_jobs) <= Cardinality(Dropped)
      BY <1>0, <1>3, <1>4, <1>6, <2>1 DEF WorkerNum
    <2>3. /\ IsFiniteSet(1 .. Len(chunk_jobs))
          /\ Cardinality(1 .. Len(chunk_jobs)) = Len(chunk_jobs)
      BY <1>0, FS_Interval
    <2>4. chunk_jobs \in Surjection(1 .. Len(chunk_jobs), Range(chunk_jobs))
      <3>1. chunk_jobs \in [1 .. Len(chunk_jobs) -> Jobs]
        BY <1>0
      <3> QED BY <3>1, Fun_RangeProperties, Zenon
    <2>5. /\ IsFiniteSet(Range(chunk_jobs))
          /\ Cardinality(Range(chunk_jobs)) <= Len(chunk_jobs)
      BY <2>3, <2>4, FS_Surjection
    <2>6. /\ IsFiniteSet(Missing)
          /\ Cardinality(Missing) <= Cardinality(Range(chunk_jobs))
      BY <1>1, <1>6, <2>5, FS_Subset
    <2>7. Cardinality(Missing) \in Nat /\ Cardinality(Range(chunk_jobs)) \in Nat
      BY <2>5, <2>6, FS_CardinalityType
    <2> QED BY <1>0, <1>3, <2>2, <2>5, <2>6, <2>7
  <1> QED BY <1>5, <1>6 DEF LossBounded

\* Before anybody started no worker has left.
LEMMA InitLoss == Init => LossInv
  <1> SUFFICES ASSUME Init PROVE LossInv
    OBVIOUS
  <1>1. IInv
    BY InitInv
  <1>2. Leavers = {} /\ Exited = {}
    BY DEF Init, Leavers, Exited
  <1>3. Cardinality(Exited) = 0 /\ Cardinality(Dropped) \in Nat
    BY <1>2, FiniteCounts, FS_EmptySet
  <1> QED BY <1>1, <1>2, <1>3 DEF LossInv, Accounted, JoinedAll, Init

\* However the workers and the timeouts interleave, what main combines is
\* complete unless a server was dropped, and at most one part is missing for
\* each dropped server (but see LossBounded for the one case left out).
THEOREM LossIsBounded == Spec => []LossBounded
  BY InitLoss, NextLoss, LossSettled, PTL DEF Spec


-----------------------------------------------------------------------------
(* PartDownload: the lease of a part, for any assignment of jobs and       *)
(* servers to workers.                                                     *)

\* The part in the hands of exactly one worker is leased to its server.
LEMMA LeaseInHand ==
  ASSUME NEW jobs, NEW servers, NEW w \in Workers, jobs[w] \in Jobs,
         \A v \in Workers : jobs[v] = jobs[w] => v = w
  PROVE  LeaseOf(jobs, servers)[jobs[w]] = servers[w]
  <1>1. (CHOOSE v \in Workers : jobs[v] = jobs[w]) = w
    OBVIOUS
  <1> QED BY <1>1 DEF LeaseOf

\* A part in nobody's hands is not leased.
LEMMA LeaseOfNobody ==
  ASSUME NEW jobs, NEW servers, NEW j \in Jobs, \A w \in Workers : jobs[w] # j
  PROVE  LeaseOf(jobs, servers)[j] = NoServer
  BY DEF LeaseOf

\* The lease is a function on the parts, whoever holds what.
LEMMA LeaseDomain ==
  ASSUME NEW jobs, NEW servers
  PROVE  LeaseOf(jobs, servers) = [j \in Jobs |-> LeaseOf(jobs, servers)[j]]
  BY DEF LeaseOf

\* Two assignments of servers that agree on the workers with a job lease alike.
LEMMA SameLease ==
  ASSUME NEW jobs, NEW servers, NEW others,
         \A w \in Workers : jobs[w] \in Jobs => servers[w] = others[w]
  PROVE  LeaseOf(jobs, servers) = LeaseOf(jobs, others)
  <1>1. ASSUME NEW j \in Jobs
        PROVE  LeaseOf(jobs, servers)[j] = LeaseOf(jobs, others)[j]
    <2>1. CASE \E w \in Workers : jobs[w] = j
      <3> DEFINE v == CHOOSE w \in Workers : jobs[w] = j
      <3>1. v \in Workers /\ jobs[v] = j
        BY <2>1
      <3>2. servers[v] = others[v]
        BY <3>1
      <3> QED BY <2>1, <3>2 DEF LeaseOf
    <2>2. CASE \A w \in Workers : jobs[w] # j
      BY <2>2 DEF LeaseOf
    <2> QED BY <2>1, <2>2
  <1> QED BY <1>1, LeaseDomain

\* Changing what one worker has in hand changes the lease of that part only.
LEMMA LeaseOfOthers ==
  ASSUME NEW jobs, NEW others, NEW servers, NEW j \in Jobs,
         \A w \in Workers : jobs[w] = j <=> others[w] = j
  PROVE  LeaseOf(jobs, servers)[j] = LeaseOf(others, servers)[j]
  BY DEF LeaseOf

-----------------------------------------------------------------------------
(* Initial states, steps.                                                  *)

Lease == LeaseOf(job, held)
Live  == LiveIn(server_info_list, held)

\* The pool starts as the abstract download: nothing leased, every server live.
LEMMA InitRefines == Init => Abstract!Init
  <1> SUFFICES ASSUME Init PROVE Abstract!Init
    OBVIOUS
  <1>1. \A w \in Workers : job[w] = NoJob /\ held[w] = NoServer
    BY DEF Init
  <1>2. \A j \in Jobs : Lease[j] = NoServer
    BY <1>1, NoJobAssumption, LeaseOfNobody DEF Lease
  <1>3. Lease = [j \in Jobs |-> NoServer]
    BY <1>2, LeaseDomain DEF Lease
  <1>4. Range(done_jobs) = {}
    BY EmptySeq DEF Init, Range
  <1>5. Live = Servers
    BY <1>1 DEF Init, Live, LiveIn, Servers
  <1>6. OutcomeAt(main) = "running"
    BY DEF Init, OutcomeAt
  <1> QED BY <1>3, <1>4, <1>5, <1>6 DEF Abstract!Init, Lease, Live

\* Taking a server from the list, or giving it back, changes no lease and
\* leaves the same servers live.
LEMMA IdleSteps ==
  ASSUME IInv, NEW w \in Workers, Acquire(w) \/ Release(w)
  PROVE  Lease' = Lease /\ Live' = Live
  <1> USE DEF IInv, TypeOK, Points, At
  <1>1. job' = job /\ job[w] \notin Jobs /\ \A v \in Workers : v # w => held'[v] = held[v]
    BY NoJobAssumption DEF Acquire, Release
  <1>2. LeaseOf(job, held') = LeaseOf(job, held)
    BY <1>1, SameLease
  <1>3. ASSUME Acquire(w) PROVE Live' = Live
    <2> DEFINE s == Last(server_info_list)
    <2>1. /\ s \in Servers /\ s \in Range(server_info_list)
          /\ Range(server_info_list') = Range(server_info_list) \ {s}
      BY <1>3, TakeLast, TakeLastOnce DEF Acquire, ServersConserved
    <2>2. held' = [held EXCEPT ![w] = s] /\ held[w] = NoServer
      BY <1>3 DEF Acquire
    <2> HIDE DEF s
    <2> QED BY <2>1, <2>2, NoServerAssumption DEF Live, LiveIn
  <1>4. ASSUME Release(w) PROVE Live' = Live
    <2>1. /\ held[w] \in Servers /\ held' = [held EXCEPT ![w] = NoServer]
          /\ Range(server_info_list') = Range(server_info_list) \cup {held[w]}
      BY <1>4, PutLast DEF Release
    <2> QED BY <2>1, NoServerAssumption DEF Live, LiveIn
  <1> QED BY <1>1, <1>2, <1>3, <1>4 DEF Lease

\* Every part that is leased is in the hands of a worker.
LEMMA LeaseHolder ==
  ASSUME IInv, NEW j \in Jobs, Lease[j] # NoServer
  PROVE  \E w \in Workers : job[w] = j /\ Lease[j] = held[w]
  <1>1. PICK w \in Workers : job[w] = j
    BY LeaseOfNobody DEF Lease
  <1>2. \A v \in Workers : job[v] = job[w] => v = w
    BY <1>1, NoJobAssumption DEF IInv, JobsConserved
  <1>3. Lease[j] = held[w]
    BY <1>1, <1>2, LeaseInHand DEF Lease
  <1> QED BY <1>1, <1>3

\* popJobItem leases the part it takes to the server its worker holds.
LEMMA PopClaims ==
  ASSUME IInv, NEW w \in Workers, Pop(w)
  PROVE  \E p \in Jobs, s \in Servers : Abstract!Claim(p, s)
  <1> DEFINE p == Last(chunk_jobs)
             s == held[w]
  <1>1. p \in Jobs /\ p \in Range(chunk_jobs)
    BY TakeLast, TakeLastOnce DEF Pop, IInv, TypeOK, JobsConserved
  <1>2. s \in Servers /\ s # NoServer /\ job[w] = NoJob
    BY DEF Pop, At, IInv, TypeOK, Points
  <1>3. p # NoJob /\ p \notin Range(done_jobs) /\ \A v \in Workers : job[v] # p
    BY <1>1, NoJobAssumption DEF IInv, JobsConserved
  <1>4. Lease[p] = NoServer
    BY <1>1, <1>3, LeaseOfNobody DEF Lease
  <1>5. \A q \in Jobs : Lease[q] # s
    <2>1. SUFFICES ASSUME NEW q \in Jobs, Lease[q] = s PROVE FALSE
      OBVIOUS
    <2>2. PICK v \in Workers : job[v] = q /\ held[v] = s
      BY <1>2, <2>1, LeaseHolder
    <2>3. v = w
      BY <1>2, <2>2 DEF IInv, ServersConserved
    <2> QED BY <1>2, <2>2, <2>3, NoJobAssumption
  <1>6. s \in Live
    BY <1>2 DEF Live, LiveIn
  <1> HIDE DEF p
  <1>7. /\ job \in [Workers -> Jobs \cup {NoJob}]
        /\ job' = [job EXCEPT ![w] = p]
        /\ UNCHANGED <<server_info_list, done_jobs, held, main>>
    BY DEF Pop, p, IInv, TypeOK
  <1>8. Lease' = [Lease EXCEPT ![p] = s]
    <2>1. job'[w] = p /\ \A v \in Workers : v # w => job'[v] = job[v] /\ job'[v] # p
      BY <1>3, <1>7
    <2>2. LeaseOf(job', held)[job'[w]] = s
      BY <1>1, <2>1, LeaseInHand
    <2>3. ASSUME NEW q \in Jobs, q # p
          PROVE  LeaseOf(job', held)[q] = LeaseOf(job, held)[q]
      <3>1. \A v \in Workers : job'[v] = q <=> job[v] = q
        BY <1>2, <1>7, <2>1, <2>3, NoJobAssumption
      <3> QED BY <3>1, LeaseOfOthers
    <2>4. LeaseOf(job', held) = [LeaseOf(job, held) EXCEPT ![p] = s]
      BY <2>1, <2>2, <2>3, LeaseDomain
    <2> QED BY <1>7, <2>4 DEF Lease
  <1>9. Abstract!Claim(p, s)
    <2>1. OutcomeAt(main) = "running"
      BY DEF Pop, At, OutcomeAt
    <2>2. UNCHANGED <<Range(done_jobs), Live, OutcomeAt(main)>>
      BY <1>7 DEF Live
    <2> QED
      BY <1>3, <1>4, <1>5, <1>6, <1>8, <2>1, <2>2 DEF Abstract!Claim, Lease, Live
  <1> QED BY <1>1, <1>2, <1>9

\* A worker that lets go of its part ends the lease of that part.
LEMMA LetGo ==
  ASSUME IInv, NEW w \in Workers, job[w] \in Jobs, job'[w] = NoJob,
         \A v \in Workers : v # w => job'[v] = job[v] /\ held'[v] = held[v]
  PROVE  /\ Lease' = [Lease EXCEPT ![job[w]] = NoServer]
         /\ Lease[job[w]] = held[w]
  <1>1. \A v \in Workers : job[v] = job[w] => v = w
    BY NoJobAssumption DEF IInv, JobsConserved
  <1>2. Lease[job[w]] = held[w]
    BY <1>1, LeaseInHand DEF Lease
  <1>3. job'[w] \notin Jobs
    BY NoJobAssumption
  <1>4. LeaseOf(job', held') = [LeaseOf(job, held) EXCEPT ![job[w]] = NoServer]
    <2>1. LeaseOf(job', held')[job[w]] = NoServer
      BY <1>1, <1>3, LeaseOfNobody
    <2>2. LeaseOf(job', held') = LeaseOf(job', held)
      BY <1>3, SameLease
    <2>3. ASSUME NEW q \in Jobs, q # job[w]
          PROVE  LeaseOf(job', held)[q] = LeaseOf(job, held)[q]
      BY <1>3, <2>3, LeaseOfOthers
    <2> QED BY <2>1, <2>2, <2>3, LeaseDomain
  <1> QED BY <1>2, <1>4 DEF Lease

\* addJobItem(done_jobs, job) finishes the part and ends its lease.
LEMMA RecordFinishes ==
  ASSUME IInv, NEW w \in Workers, Record(w)
  PROVE  \E p \in Jobs : Abstract!Finish(p)
  <1>1. /\ job[w] \in Jobs /\ held[w] # NoServer
        /\ job'[w] = NoJob /\ \A v \in Workers : v # w => job'[v] = job[v]
        /\ main = "joining"
        /\ UNCHANGED <<server_info_list, held, main>>
    BY DEF Record, At, IInv, TypeOK, Points
  <1>2. Range(done_jobs') = Range(done_jobs) \cup {job[w]}
    BY <1>1, PutLast DEF Record, IInv, TypeOK
  <1>3. Lease' = [Lease EXCEPT ![job[w]] = NoServer] /\ Lease[job[w]] # NoServer
    BY <1>1, LetGo
  <1>4. Abstract!Finish(job[w])
    BY <1>1, <1>2, <1>3 DEF Abstract!Finish, Lease, LiveIn, OutcomeAt
  <1> QED BY <1>1, <1>4

\* Putting the job back and freeing the address abandons the part: its server
\* is live no more.
LEMMA RequeueAbandons ==
  ASSUME IInv, NEW w \in Workers, Requeue(w)
  PROVE  \E p \in Jobs : Abstract!Abandon(p)
  <1>1. /\ job[w] \in Jobs /\ held[w] \in Servers /\ held[w] # NoServer
        /\ job'[w] = NoJob
        /\ \A v \in Workers : v # w => job'[v] = job[v] /\ held'[v] = held[v]
        /\ main = "joining"
        /\ UNCHANGED <<server_info_list, done_jobs, main>>
    BY DEF Requeue, At, IInv, TypeOK, Points
  <1>2. Lease' = [Lease EXCEPT ![job[w]] = NoServer] /\ Lease[job[w]] = held[w]
    BY <1>1, LetGo
  <1>3. Live' = Live \ {held[w]}
    BY <1>1, NoServerAssumption
    DEF Requeue, IInv, TypeOK, ServersConserved, Live, LiveIn
  <1>4. Abstract!Abandon(job[w])
    BY <1>1, <1>2, <1>3 DEF Abstract!Abandon, Lease, Live, OutcomeAt
  <1> QED BY <1>1, <1>4

\* When the list of done jobs is full, every part is finished.
LEMMA AllDoneIsAll ==
  ASSUME IInv, AllDone
  PROVE  Range(done_jobs) = Jobs
  <1>1. /\ done_jobs \in [1 .. JobNum -> Jobs]
        /\ done_jobs \in Injection(1 .. JobNum, Jobs)
    BY LenProperties DEF IInv, TypeOK, JobsConserved, AllDone, Injection
  <1>2. IsFiniteSet(Jobs) /\ Cardinality(Jobs) = JobNum
    BY FS_Interval, JobNumAssumption DEF Jobs
  <1>3. Cardinality(1 .. JobNum) = JobNum
    BY FS_Interval, JobNumAssumption
  <1>4. done_jobs \in Surjection(1 .. JobNum, Jobs)
    BY <1>1, <1>2, <1>3, FS_Injection
  <1> QED BY <1>1, <1>4 DEF Range, Surjection

\* A worker whose `ret' was never assigned may free a server that did not fail,
\* but only when nothing is left to download.
LEMMA DropDiscards ==
  ASSUME IInv, NEW w \in Workers, DropIdle(w)
  PROVE  \E s \in Servers : Abstract!Discard(s)
  <1>1. /\ held[w] \in Servers /\ held[w] # NoServer /\ job[w] = NoJob
        /\ held' = [held EXCEPT ![w] = NoServer]
        /\ main = "joining"
        /\ UNCHANGED <<server_info_list, done_jobs, job, main>>
    BY DEF DropIdle, At, pool, IInv, TypeOK, Points
  <1>2. LeaseOf(job, held') = LeaseOf(job, held)
    BY <1>1, SameLease, NoJobAssumption DEF IInv, TypeOK
  <1>3. Live' = Live \ {held[w]} /\ held[w] \in Live
    BY <1>1, NoServerAssumption DEF IInv, TypeOK, ServersConserved, Live, LiveIn
  <1>4. Range(done_jobs) = Jobs
    BY AllDoneIsAll DEF DropIdle
  <1>5. Abstract!Discard(held[w])
    BY <1>1, <1>2, <1>3, <1>4 DEF Abstract!Discard, Live, OutcomeAt
  <1> QED BY <1>1, <1>5

\* Main gets past its joins only when no part is leased.
LEMMA JoinConcludes ==
  ASSUME IInv, Join
  PROVE  Abstract!Conclude
  <1>1. \A w \in Workers : job[w] = NoJob
    BY DEF Join, AllExited, IInv, Points
  <1>2. \A j \in Jobs : Lease[j] = NoServer
    BY <1>1, NoJobAssumption, LeaseOfNobody DEF Lease
  <1>3. Abstract!OnLease = {}
    BY <1>2 DEF Abstract!OnLease, Lease
  <1> QED BY <1>3 DEF Join, pool, Abstract!Conclude, OutcomeAt

-----------------------------------------------------------------------------
(* The theorem.                                                            *)

\* The worker pool implements the abstract download, whatever the schedule and
\* whichever transfers fail.
THEOREM PoolRefines == Spec => Refines
  <1>1. IInv /\ [Next]_vars => [Abstract!Next]_(Abstract!vars)
    <2> SUFFICES ASSUME IInv, [Next]_vars
                 PROVE  Abstract!Next \/ UNCHANGED Abstract!vars
      OBVIOUS
    <2>1. CASE UNCHANGED <<job, held, server_info_list, done_jobs, main>>
      BY <2>1 DEF Abstract!vars
    <2>2. ASSUME NEW w \in Workers, Acquire(w) \/ Release(w)
          PROVE  UNCHANGED Abstract!vars
      <3>1. LeaseOf(job', held') = LeaseOf(job, held)
            /\ LiveIn(server_info_list', held') = LiveIn(server_info_list, held)
        BY <2>2, IdleSteps DEF Lease, Live
      <3>2. done_jobs' = done_jobs /\ main' = main
        BY <2>2 DEF Acquire, Release
      <3> QED BY <3>1, <3>2 DEF Abstract!vars
    <2>3. ASSUME NEW w \in Workers, Pop(w) PROVE Abstract!Next
      BY <2>3, PopClaims DEF Abstract!Next
    <2>4. ASSUME NEW w \in Workers, Record(w) PROVE Abstract!Next
      BY <2>4, RecordFinishes DEF Abstract!Next
    <2>5. ASSUME NEW w \in Workers, Requeue(w) PROVE Abstract!Next
      BY <2>5, RequeueAbandons DEF Abstract!Next
    <2>6. ASSUME NEW w \in Workers, DropIdle(w) PROVE Abstract!Next
      BY <2>6, DropDiscards DEF Abstract!Next
    <2>7. CASE Join
      BY <2>7, JoinConcludes DEF Abstract!Next
    <2>8. CASE /\ main # "failed" /\ main' = "failed"
               /\ UNCHANGED <<pool, job, held>>
      BY <2>8 DEF pool, OutcomeAt, Abstract!Fail, Abstract!Next
    <2>9. CASE main = "combining" /\ main' = "finished" /\ UNCHANGED <<pool, job, held>>
      BY <2>9 DEF pool, OutcomeAt, Abstract!vars
    <2>10. ASSUME NEW w \in Workers, Step(w)
           PROVE  Abstract!Next \/ UNCHANGED Abstract!vars
      BY <2>1, <2>2, <2>3, <2>4, <2>5, <2>6, <2>10
      DEF Step, Wait, Socket, EnterLoop, LeaveLoop, FindNoJob, Open, Succeed,
          Fail, Broadcast, pool
    <2>11. ASSUME NEW w \in Workers, SpuriousWake(w) \/ FailHandler(w)
           PROVE  Abstract!Next \/ UNCHANGED Abstract!vars
      BY <2>1, <2>8, <2>11 DEF SpuriousWake, FailHandler, At, pool
    <2>12. CASE MainStep
      BY <2>7, <2>8, <2>9, <2>12 DEF MainStep, JoinPastEnd, Combine
    <2>13. CASE UNCHANGED vars
      BY <2>1, <2>13 DEF vars
    <2> QED BY <2>10, <2>11, <2>12, <2>13 DEF Next, Terminated
  <1> QED BY <1>1, InitRefines, Invariance, PTL DEF Spec, Refines, Abstract!Spec
=============================================================================
