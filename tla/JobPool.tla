------------------------------ MODULE JobPool -------------------------------
(***************************************************************************)
(* The worker pool of the HW4 client (HW4/client.c): thread_download, run  *)
(* by every worker thread, and the part of main that starts and joins the  *)
(* workers and combines their files.  The three shared lists are those of  *)
(* HW4/mydatastructure.c.  The critical section of each lock is one step;  *)
(* pc[w] is the point of thread_download that worker w has reached.        *)
(*                                                                         *)
(* A transfer (udp_download_file) either ends (Succeed) or runs into the   *)
(* 5 second receive timeout (Fail); the datagrams are not modelled here.   *)
(***************************************************************************)
EXTENDS Naturals, Sequences, FiniteSets, SequencesExt

CONSTANTS
  JobNum,       \* chunk_num, the number of parts asked for
  MaxWorker,    \* MAX_WORKER
  ServerInfo,   \* the list that passed the handshake, as main hands it over
  Mortal,       \* the servers whose transfers may time out
  StackGarbage, \* what the uninitialised `ret' of a worker may hold
  NoServer,     \* no address is held
  NoJob         \* no job is held

Servers == Range(ServerInfo)
Jobs    == 0 .. JobNum - 1
WorkerNum == IF JobNum > MaxWorker THEN MaxWorker ELSE JobNum
Workers == 0 .. WorkerNum - 1

ASSUME JobNumAssumption     == JobNum \in Nat \ {0}
ASSUME MaxWorkerAssumption  == MaxWorker \in Nat \ {0}
ASSUME ServerInfoAssumption == /\ ServerInfo \in Seq(Servers)
                               /\ ServerInfo # << >>
                               /\ IsInjective(ServerInfo)
ASSUME MortalAssumption     == Mortal \subseteq Servers
ASSUME GarbageAssumption    == StackGarbage \subseteq {0, 1} /\ StackGarbage # {}
ASSUME NoServerAssumption   == NoServer \notin Servers
ASSUME NoJobAssumption      == NoJob \notin Jobs

VARIABLES
  server_info_list, \* idle servers, a stack
  chunk_jobs,       \* jobs nobody works on, a stack
  done_jobs,        \* jobs downloaded, in order of completion
  pc,               \* where each worker is
  held,             \* addr: the server each worker holds
  job,              \* the job each worker holds
  ret,              \* each worker's result of its last transfer
  temp,             \* what the file temp.<job_id> holds
  main              \* where the main thread is

vars == <<server_info_list, chunk_jobs, done_jobs, pc, held, job, ret, temp, main>>
pool == <<server_info_list, chunk_jobs, done_jobs>>

PC == {"acquire", "waiting", "socket", "test", "pop", "open", "recv",
       "record", "requeue", "release", "broadcast", "exited"}

-----------------------------------------------------------------------------
\* The files of a previous run are still there: combinefile never removes them.
Init ==
  /\ server_info_list = ServerInfo
  /\ chunk_jobs = [i \in 1 .. JobNum |-> i - 1]
  /\ done_jobs = << >>
  /\ pc = [w \in Workers |-> "acquire"]
  /\ held = [w \in Workers |-> NoServer]
  /\ job = [w \in Workers |-> NoJob]
  /\ ret \in [Workers -> StackGarbage]
  /\ \/ temp = [j \in Jobs |-> "absent"]
     \/ temp = [j \in Jobs |-> "stale"]
  /\ main = "joining"

At(w, point) == main = "joining" /\ pc[w] = point

Wait(w) ==
  /\ At(w, "acquire") /\ server_info_list = << >>
  /\ pc' = [pc EXCEPT ![w] = "waiting"]
  /\ UNCHANGED <<pool, held, job, ret, temp, main>>

\* Mutant: getServerItem without removeServerItem.
AcquireKeeps(w) ==
  /\ At(w, "acquire") /\ server_info_list # << >>
  /\ held' = [held EXCEPT ![w] = Last(server_info_list)]
  /\ pc' = [pc EXCEPT ![w] = "socket"]
  /\ UNCHANGED <<pool, job, ret, temp, main>>

Acquire(w) ==
  /\ At(w, "acquire") /\ server_info_list # << >>
  /\ held' = [held EXCEPT ![w] = Last(server_info_list)]
  /\ server_info_list' = Front(server_info_list)
  /\ pc' = [pc EXCEPT ![w] = "socket"]
  /\ UNCHANGED <<chunk_jobs, done_jobs, job, ret, temp, main>>

\* pthread_cond_wait may return without a broadcast.
SpuriousWake(w) ==
  /\ At(w, "waiting")
  /\ pc' = [pc EXCEPT ![w] = "acquire"]
  /\ UNCHANGED <<pool, held, job, ret, temp, main>>

Socket(w) ==
  /\ At(w, "socket")
  /\ pc' = [pc EXCEPT ![w] = "test"]
  /\ UNCHANGED <<pool, held, job, ret, temp, main>>

\* Mutant: the loop ends one job early.
AllDoneEarly == Len(done_jobs) + 1 = JobNum

\* The loop condition, read without a lock.
AllDone == Len(done_jobs) = JobNum

EnterLoop(w) ==
  /\ At(w, "test") /\ ~AllDone
  /\ pc' = [pc EXCEPT ![w] = "pop"]
  /\ UNCHANGED <<pool, held, job, ret, temp, main>>

LeaveLoop(w) ==
  /\ At(w, "test") /\ AllDone /\ ret[w] # 1
  /\ pc' = [pc EXCEPT ![w] = "release"]
  /\ UNCHANGED <<pool, held, job, ret, temp, main>>

\* `ret' was never assigned and happens to hold 1: the address is freed.
DropIdle(w) ==
  /\ At(w, "test") /\ AllDone /\ ret[w] = 1
  /\ held' = [held EXCEPT ![w] = NoServer]
  /\ pc' = [pc EXCEPT ![w] = "exited"]
  /\ UNCHANGED <<pool, job, ret, temp, main>>

FindNoJob(w) ==
  /\ At(w, "pop") /\ chunk_jobs = << >>
  /\ pc' = [pc EXCEPT ![w] = "release"]
  /\ UNCHANGED <<pool, held, job, ret, temp, main>>

\* Mutant: removeJobItem at index 0 in place of occupied - 1.
PopWrongIndex(w) ==
  /\ At(w, "pop") /\ chunk_jobs # << >>
  /\ job' = [job EXCEPT ![w] = Last(chunk_jobs)]
  /\ chunk_jobs' = Tail(chunk_jobs)
  /\ pc' = [pc EXCEPT ![w] = "open"]
  /\ UNCHANGED <<server_info_list, done_jobs, held, ret, temp, main>>

Pop(w) ==
  /\ At(w, "pop") /\ chunk_jobs # << >>
  /\ job' = [job EXCEPT ![w] = Last(chunk_jobs)]
  /\ chunk_jobs' = Front(chunk_jobs)
  /\ pc' = [pc EXCEPT ![w] = "open"]
  /\ UNCHANGED <<server_info_list, done_jobs, held, ret, temp, main>>

\* fopen(name, "w+") truncates, then the download command is sent.
Open(w) ==
  /\ At(w, "open")
  /\ temp' = [temp EXCEPT ![job[w]] = "partial"]
  /\ pc' = [pc EXCEPT ![w] = "recv"]
  /\ UNCHANGED <<pool, held, job, ret, main>>

Succeed(w) ==
  /\ At(w, "recv")
  /\ ret' = [ret EXCEPT ![w] = 0]
  /\ temp' = [temp EXCEPT ![job[w]] = "ended"]
  /\ pc' = [pc EXCEPT ![w] = "record"]
  /\ UNCHANGED <<pool, held, job, main>>

Fail(w) ==
  /\ At(w, "recv") /\ held[w] \in Mortal
  /\ ret' = [ret EXCEPT ![w] = 1]
  /\ pc' = [pc EXCEPT ![w] = "requeue"]
  /\ UNCHANGED <<pool, held, job, temp, main>>

Record(w) ==
  /\ At(w, "record")
  /\ done_jobs' = Append(done_jobs, job[w])
  /\ job' = [job EXCEPT ![w] = NoJob]
  /\ pc' = [pc EXCEPT ![w] = "test"]
  /\ UNCHANGED <<server_info_list, chunk_jobs, held, ret, temp, main>>

\* Mutant: the failed server is given back to the list.
RequeueKeepsServer(w) ==
  /\ At(w, "requeue")
  /\ chunk_jobs' = Append(chunk_jobs, job[w])
  /\ server_info_list' = Append(server_info_list, held[w])
  /\ job' = [job EXCEPT ![w] = NoJob]
  /\ held' = [held EXCEPT ![w] = NoServer]
  /\ pc' = [pc EXCEPT ![w] = "broadcast"]
  /\ UNCHANGED <<done_jobs, ret, temp, main>>

\* The job goes back, the address is freed, the thread exits: nobody is woken.
Requeue(w) ==
  /\ At(w, "requeue")
  /\ chunk_jobs' = Append(chunk_jobs, job[w])
  /\ job' = [job EXCEPT ![w] = NoJob]
  /\ held' = [held EXCEPT ![w] = NoServer]
  /\ pc' = [pc EXCEPT ![w] = "exited"]
  /\ UNCHANGED <<server_info_list, done_jobs, ret, temp, main>>

\* Mutant: no broadcast after the server is given back.
ReleaseSilently(w) ==
  /\ At(w, "release")
  /\ server_info_list' = Append(server_info_list, held[w])
  /\ held' = [held EXCEPT ![w] = NoServer]
  /\ pc' = [pc EXCEPT ![w] = "exited"]
  /\ UNCHANGED <<chunk_jobs, done_jobs, job, ret, temp, main>>

\* Mutant: the address is reset before it is added.
ReleaseNulled(w) ==
  /\ At(w, "release")
  /\ held' = [held EXCEPT ![w] = NoServer]
  /\ server_info_list' = Append(server_info_list, held'[w])
  /\ pc' = [pc EXCEPT ![w] = "broadcast"]
  /\ UNCHANGED <<chunk_jobs, done_jobs, job, ret, temp, main>>

Release(w) ==
  /\ At(w, "release")
  /\ server_info_list' = Append(server_info_list, held[w])
  /\ held' = [held EXCEPT ![w] = NoServer]
  /\ pc' = [pc EXCEPT ![w] = "broadcast"]
  /\ UNCHANGED <<chunk_jobs, done_jobs, job, ret, temp, main>>

\* pthread_cond_broadcast, after the lock was given back.
Broadcast(w) ==
  /\ At(w, "broadcast")
  /\ pc' = [v \in Workers |-> IF v = w THEN "exited"
                              ELSE IF pc[v] = "waiting" THEN "acquire" ELSE pc[v]]
  /\ UNCHANGED <<pool, held, job, ret, temp, main>>

\* failHandler exits the whole process when socket or fopen fails.
FailHandler(w) ==
  /\ At(w, "socket") \/ At(w, "open")
  /\ main' = "failed"
  /\ UNCHANGED <<pool, pc, held, job, ret, temp>>

-----------------------------------------------------------------------------
AllExited == \A w \in Workers : pc[w] = "exited"

Join ==
  /\ main = "joining" /\ AllExited
  /\ main' = "combining"
  /\ UNCHANGED <<pool, pc, held, job, ret, temp>>

\* More joins than threads: the ids past the array are read, which may crash.
JoinPastEnd ==
  /\ main = "joining" /\ AllExited /\ JobNum > MaxWorker
  /\ main' = "failed"
  /\ UNCHANGED <<pool, pc, held, job, ret, temp>>

\* combinefile, which fails when one of the files cannot be opened.
Combine ==
  /\ main = "combining"
  /\ main' = IF \E j \in Jobs : temp[j] = "absent" THEN "failed" ELSE "finished"
  /\ UNCHANGED <<pool, pc, held, job, ret, temp>>

\* The process is gone.
Terminated == main \in {"finished", "failed"} /\ UNCHANGED vars

Step(w) ==
  \/ Wait(w) \/ Acquire(w) \/ Socket(w)
  \/ EnterLoop(w) \/ LeaveLoop(w) \/ DropIdle(w)
  \/ FindNoJob(w) \/ Pop(w) \/ Open(w)
  \/ Succeed(w) \/ Fail(w) \/ Record(w) \/ Requeue(w)
  \/ Release(w) \/ Broadcast(w)

MainStep == Join \/ JoinPastEnd \/ Combine

Next ==
  \/ \E w \in Workers : Step(w) \/ SpuriousWake(w) \/ FailHandler(w)
  \/ MainStep
  \/ Terminated

Spec == Init /\ [][Next]_vars

\* The scheduler runs every thread that can run, and a receive returns with
\* data or with its timeout; nothing makes a spurious wake-up or a failing
\* socket call happen.
Fairness == WF_vars(MainStep) /\ \A w \in Workers : WF_vars(Step(w))

FairSpec == Spec /\ Fairness

-----------------------------------------------------------------------------
TypeOK ==
  /\ server_info_list \in Seq(Servers)
  /\ chunk_jobs \in Seq(Jobs)
  /\ done_jobs \in Seq(Jobs)
  /\ pc \in [Workers -> PC]
  /\ held \in [Workers -> Servers \cup {NoServer}]
  /\ job \in [Workers -> Jobs \cup {NoJob}]
  /\ ret \in [Workers -> {0, 1}]
  /\ temp \in [Jobs -> {"absent", "stale", "partial", "ended"}]
  /\ main \in {"joining", "combining", "finished", "failed"}

\* A job is in exactly one place: on the stack of open jobs, on the list of
\* done jobs or in the hands of one worker.  It is never downloaded by two
\* workers into the same file and never vanishes when a transfer fails
\* (thread_download, popJobItem, addJobItem).
JobsConserved ==
  /\ IsInjective(chunk_jobs) /\ IsInjective(done_jobs)
  /\ Range(chunk_jobs) \cap Range(done_jobs) = {}
  /\ \A w \in Workers : job[w] # NoJob =>
       /\ job[w] \notin Range(chunk_jobs) \cup Range(done_jobs)
       /\ \A v \in Workers : job[v] = job[w] => v = w
  /\ \A j \in Jobs : \/ j \in Range(chunk_jobs) \cup Range(done_jobs)
                     \/ \E w \in Workers : job[w] = j

\* An address is idle or in use by one worker, never both and never twice: no
\* two workers send to, or free, the same malloc'd address.
ServersConserved ==
  /\ IsInjective(server_info_list)
  /\ \A w \in Workers : held[w] # NoServer =>
       /\ held[w] \notin Range(server_info_list)
       /\ \A v \in Workers : held[v] = held[w] => v = w

\* The job arrays hold JobNum pointers and addJobItem never checks: no
\* sequence of pops and requeues may overrun them.
ListsFit == Len(chunk_jobs) <= JobNum /\ Len(done_jobs) <= JobNum

\* A worker may sleep on server_available while a server is idle only if some
\* worker is still to broadcast: unlocking before the broadcast loses no
\* wake-up.
NoLostWakeup ==
  (server_info_list # << >> /\ \E w \in Workers : pc[w] = "waiting")
    => \E v \in Workers : pc[v] = "broadcast"

Dropped == Servers \ (Range(server_info_list) \cup {held[w] : w \in Workers})
Missing == {j \in Jobs : temp[j] # "ended"}

\* Workers leave as soon as the stack of open jobs is empty, so a job that a
\* slower worker puts back afterwards is lost.  But what main combines is complete
\* while no server was dropped, and at most one part is missing for each that
\* was, except where there is a server for every worker and not a worker for
\* every part: then all workers may lose their servers before anybody took the
\* other parts.
LossBounded ==
  /\ main \in {"combining", "finished"} /\ Dropped = {} => Missing = {}
  /\ AllExited /\ (JobNum <= MaxWorker \/ Len(ServerInfo) < MaxWorker)
       => Cardinality(Missing) <= Cardinality(Dropped)

\* A done job stays done, and its file is never opened for writing again.
DoneIsFinal ==
  [][\A j \in Range(done_jobs) : j \in Range(done_jobs') /\ temp'[j] = temp[j]]_vars

\* The workers hand the servers to one another: as long as one server is left
\* no worker sleeps for ever on server_available, and main gets past its joins,
\* combines and exits.
Terminates == <>(main \in {"finished", "failed"} \/ Dropped = Servers)

\* "Each thread will make sure all subtaskes will be done" (readme, client
\* workflow): what main combines is the complete file of every part.  It is
\* kept while no server fails and not otherwise.
CombineComplete ==
  main \in {"combining", "finished"} => \A j \in Jobs : temp[j] = "ended"

-----------------------------------------------------------------------------
\* The pool implements the abstract download: the part a worker has in hand is
\* leased to the server the worker holds.
LeaseOf(jobs, servers) ==
  [j \in Jobs |-> IF \E w \in Workers : jobs[w] = j
                  THEN servers[CHOOSE w \in Workers : jobs[w] = j]
                  ELSE NoServer]
LiveIn(list, servers) == Range(list) \cup ({servers[w] : w \in Workers} \ {NoServer})
OutcomeAt(point) == CASE point = "joining" -> "running"
                      [] point = "failed"  -> "failed"
                      [] OTHER             -> "concluded"

Abstract == INSTANCE PartDownload
              WITH Parts    <- Jobs,
                   lease    <- LeaseOf(job, held),
                   finished <- Range(done_jobs),
                   live     <- LiveIn(server_info_list, held),
                   outcome  <- OutcomeAt(main)

\* Every step of the pool is a step of the abstract download or leaves it as
\* it is.
Refines == Abstract!Spec
=============================================================================
