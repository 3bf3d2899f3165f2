------------------------------ MODULE Transfer ------------------------------
(***************************************************************************)
(* How a part of the file crosses the network in HW4: udp_download_file of *)
(* one worker of the client (HW4/client.c), the main loop and the upload   *)
(* threads of one server (HW4/server.c), and the datagrams between them.   *)
(* The jobs are made by Chunking before the worker starts, who does job    *)
(* after job over one socket, as thread_download does,                     *)
(* until a receive times out or no job is left.  A file, or the content of *)
(* a packet, is the sequence of the positions its bytes have in the target *)
(* file; the target is a text file: strcpy stops at a NUL byte.  The byte  *)
(* behind the array `data', where strcpy stops in a full packet, is taken  *)
(* to be NUL, as it is on the stack of a thread of the makefile's build.   *)
(*                                                                         *)
(* `faults' says what the network and the server may do.  If it is empty   *)
(* datagrams arrive once, in order and before the timeout.  The code has   *)
(* nothing to tell a copy of a datagram, or a late one, from what it waits *)
(* for.                                                                    *)
(***************************************************************************)
EXTENDS Chunking, SequencesExt

CONSTANTS BufferSize, \* BUFFER_SIZE, scaled down
          FaultSets,  \* the sets of faults to look at
          MaxCopies   \* bound on the datagrams that the network duplicates

\* A datagram may be lost, be duplicated, overtake another or come after the
\* receive timed out; the server may die.
Fault == {"lose", "duplicate", "reorder", "late", "die"}

ASSUME BufferSizeAssumption == BufferSize \in Nat \ {0, 1}
ASSUME FaultSetsAssumption == FaultSets \subseteq SUBSET Fault
ASSUME MaxCopiesAssumption == MaxCopies \in Nat

VARIABLES
  faults,  \* what may go wrong in this behaviour
  copies,  \* datagrams duplicated so far
  todo,    \* jobs on the stack of open jobs
  state,   \* the worker: "idle", "recv" or "closed"
  job,     \* job_id in hand, or NoJob
  temp,    \* temp[j]: the bytes written to the file temp.<j> so far
  result,  \* result[j]: "none", "ended" or "timeout"
  asked,   \* jobs whose DWN request is on its way
  start,   \* start[j]: where the upload thread of j is, or NoThread
  net,     \* responses on their way to the worker's socket
  alive    \* the server process runs

transfer == <<todo, state, job, temp, result, asked, start, net, alive>>
vars == <<split_vars, faults, copies, transfer>>
file == <<split_vars, faults>>

NoJob    == -1
NoThread == -1

Jobs == 0 .. job_num - 1
First(j) == jobs[j + 1].file_start
End(j)   == jobs[j + 1].file_end
Length(j) == End(j) - First(j) + 1

Init ==
  /\ SplitInit /\ total_size > 0
  /\ faults \in FaultSets
  /\ copies = 0
  /\ todo = Jobs
  /\ state = "idle"
  /\ job = NoJob
  /\ temp = [j \in Jobs |-> << >>]
  /\ result = [j \in Jobs |-> "none"]
  /\ asked = {}
  /\ start = [j \in Jobs |-> NoThread]
  /\ net = << >>
  /\ alive = TRUE

-----------------------------------------------------------------------------
(* The client.                                                             *)

Split == AddJob /\ UNCHANGED <<faults, copies, transfer>>

\* Other workers take jobs too, so any open job may be the next one here.
Begin(j) ==
  /\ Len(jobs) = job_num
  /\ state = "idle" /\ j \in todo
  /\ todo' = todo \ {j}
  /\ job' = j
  /\ temp' = [temp EXCEPT ![j] = << >>]
  /\ asked' = asked \cup {j}
  /\ state' = "recv"
  /\ UNCHANGED <<file, copies, result, start, net, alive>>

\* No job is left: the socket is closed.
Leave ==
  /\ state = "idle" /\ todo = {}
  /\ state' = "closed"
  /\ UNCHANGED <<file, copies, todo, job, temp, result, asked, start, net, alive>>

\* recvfrom returns a packet; nothing in it says which job it belongs to.
Receive(i) ==
  /\ state = "recv" /\ i \in DOMAIN net
  /\ "reorder" \in faults \/ i = 1
  /\ temp' = [temp EXCEPT ![job] = @ \o net[i].content]
  /\ net' = RemoveAt(net, i)
  /\ IF net[i].content_is_end
     THEN /\ result' = [result EXCEPT ![job] = "ended"]
          /\ state' = "idle"
          /\ job' = NoJob
     ELSE UNCHANGED <<result, state, job>>
  /\ UNCHANGED <<file, copies, todo, asked, start, alive>>

\* Nothing will arrive any more.
Uploading == \E j \in Jobs : start[j] # NoThread
Silent == net = << >> /\ (~alive \/ (asked = {} /\ ~Uploading))

\* Mutant: the worker goes on with the next job after a timeout.
TimeoutGoesOn ==
  /\ state = "recv" /\ ("late" \in faults \/ Silent)
  /\ result' = [result EXCEPT ![job] = "timeout"]
  /\ state' = "idle"
  /\ job' = NoJob
  /\ UNCHANGED <<file, copies, todo, temp, asked, start, net, alive>>

\* Mutant: the worker goes back to its receive after a timeout.
TimeoutRetries ==
  /\ state = "recv" /\ ("late" \in faults \/ Silent)
  /\ UNCHANGED vars

\* recvfrom fails after 5 seconds: the job is given up, the worker exits.
Timeout ==
  /\ state = "recv" /\ ("late" \in faults \/ Silent)
  /\ result' = [result EXCEPT ![job] = "timeout"]
  /\ state' = "closed"
  /\ job' = NoJob
  /\ UNCHANGED <<file, copies, todo, temp, asked, start, net, alive>>

-----------------------------------------------------------------------------
(* The server.                                                             *)

\* The main loop reads a DWN request and starts an upload thread.
StartUpload(j) ==
  /\ alive /\ j \in asked
  /\ asked' = asked \ {j}
  /\ start' = [start EXCEPT ![j] = First(j)]
  /\ UNCHANGED <<file, copies, todo, state, job, temp, result, net, alive>>

\* Mutant: <= in place of <.
MoreEager(j) == start[j] + BufferSize - 1 <= End(j)

\* More than one packet's worth is left.
More(j) == start[j] + BufferSize - 1 < End(j)

\* Mutant: the last packet is not cut at the end of the part.
PacketEndUncut(j) == start[j] + BufferSize - 1

PacketEnd(j) == IF More(j) THEN start[j] + BufferSize - 1 ELSE End(j)

Packet(j) == [content |-> [k \in 1 .. PacketEnd(j) - start[j] + 1 |-> start[j] + k - 1],
              content_is_end |-> ~More(j)]

\* Mutant: start = end_temp.
SendPacketOverlapping(j) ==
  /\ alive /\ start[j] # NoThread /\ start[j] < End(j)
  /\ net' = Append(net, Packet(j))
  /\ start' = [start EXCEPT ![j] = PacketEnd(j) + (IF More(j) THEN 0 ELSE 1)]
  /\ UNCHANGED <<file, copies, todo, state, job, temp, result, asked, alive>>

SendPacket(j) ==
  /\ alive /\ start[j] # NoThread /\ start[j] < End(j)
  /\ net' = Append(net, Packet(j))
  /\ start' = [start EXCEPT ![j] = PacketEnd(j) + 1]
  /\ UNCHANGED <<file, copies, todo, state, job, temp, result, asked, alive>>

\* The loop condition is false: the thread ends.
EndUpload(j) ==
  /\ alive /\ start[j] # NoThread /\ start[j] >= End(j)
  /\ start' = [start EXCEPT ![j] = NoThread]
  /\ UNCHANGED <<file, copies, todo, state, job, temp, result, asked, net, alive>>

-----------------------------------------------------------------------------
(* What may go wrong.                                                      *)

LoseRequest(j) ==
  /\ "lose" \in faults /\ j \in asked
  /\ asked' = asked \ {j}
  /\ UNCHANGED <<file, copies, todo, state, job, temp, result, start, net, alive>>

LosePacket(i) ==
  /\ "lose" \in faults /\ i \in DOMAIN net
  /\ net' = RemoveAt(net, i)
  /\ UNCHANGED <<file, copies, todo, state, job, temp, result, asked, start, alive>>

\* A packet arrives twice.  Packets that keep their order have the copy next
\* to the original.
DuplicatePacket(i) ==
  /\ "duplicate" \in faults /\ copies < MaxCopies
  /\ i \in DOMAIN net
  /\ net' = InsertAt(net, i, net[i])
  /\ copies' = copies + 1
  /\ UNCHANGED <<file, todo, state, job, temp, result, asked, start, alive>>

\* A request arrives a second time, after the upload for the first.
DuplicateRequest(j) ==
  /\ "duplicate" \in faults /\ copies < MaxCopies
  /\ j \notin todo /\ start[j] = NoThread
  /\ asked' = asked \cup {j}
  /\ copies' = copies + 1
  /\ UNCHANGED <<file, todo, state, job, temp, result, start, net, alive>>

Die ==
  /\ "die" \in faults /\ alive
  /\ alive' = FALSE
  /\ UNCHANGED <<file, copies, todo, state, job, temp, result, asked, start, net>>

\* The worker is gone and the server waits for the next client.
Terminated ==
  /\ state = "closed" /\ (~alive \/ (asked = {} /\ ~Uploading))
  /\ UNCHANGED vars

Worker == Split \/ (\E j \in Jobs : Begin(j)) \/ Leave \/ Timeout
            \/ \E i \in DOMAIN net : Receive(i)
Server == \E j \in Jobs : StartUpload(j) \/ SendPacket(j) \/ EndUpload(j)
Loses == (\E j \in Jobs : LoseRequest(j)) \/ (\E i \in DOMAIN net : LosePacket(i))
Duplicates == \/ \E j \in Jobs : DuplicateRequest(j)
              \/ \E i \in DOMAIN net : DuplicatePacket(i)
Faults == Loses \/ Duplicates \/ Die

Next == Worker \/ Server \/ Faults \/ Terminated

Spec == Init /\ [][Next]_vars

\* Both processes are scheduled and the receive timeout fires.
FairSpec == Spec /\ WF_vars(Worker) /\ WF_vars(Server)

-----------------------------------------------------------------------------
Positions == 0 .. total_size - 1

TypeOK ==
  /\ SplitTypeOK
  /\ faults \subseteq Fault
  /\ copies \in 0 .. MaxCopies
  /\ todo \subseteq Jobs
  /\ state \in {"idle", "recv", "closed"}
  /\ job \in Jobs \cup {NoJob}
  /\ temp \in [Jobs -> Seq(Positions)]
  /\ result \in [Jobs -> {"none", "ended", "timeout"}]
  /\ asked \subseteq Jobs
  /\ start \in [Jobs -> 0 .. total_size \cup {NoThread}]
  /\ net \in Seq([content : Seq(Positions), content_is_end : BOOLEAN])
  /\ alive \in BOOLEAN

Wanted(j) == [k \in 1 .. Length(j) |-> First(j) + k - 1]

\* Unless datagrams are lost, duplicated or reordered, a part that is reported
\* as done is, byte for byte and in order, the range that was asked for, however
\* the range falls against the packet size, and whenever the server dies.
Intact ==
  faults \cap {"lose", "duplicate", "reorder"} = {} =>
    \A j \in Jobs : result[j] = "ended" => temp[j] = Wanted(j)

\* A part whose upload does not end in a packet marked as the last one: empty,
\* or with one byte left over for its last packet.
Unservable(j) == Length(j) <= 0 \/ Length(j) % BufferSize = 1

\* Without faults a receive times out for these parts and no others: all other
\* boundaries of part and packet are handled.
TimeoutsExplained ==
  faults = {} =>
    \A j \in Jobs : /\ result[j] = "timeout" => Unservable(j)
                    /\ result[j] = "ended"   => ~Unservable(j)

\* Whatever is lost or comes twice and whoever dies, the worker gets past its
\* last receive.
Settles == <>(state = "closed")

\* If datagrams keep their order and come at most once, however many are lost or
\* come after the timeout, no byte gets into the file of another part, the bytes
\* of a part are in order even if some are missing, and it is done only after
\* its last byte: the worker drops the socket after a timeout, and takes no new
\* job before the last packet.  (A copy of the last packet of a part would end
\* the next part.)
NoForeignBytes ==
  faults \cap {"duplicate", "reorder"} = {} =>
    \A j \in Jobs \ todo :
      /\ ToSet(temp[j]) \subseteq First(j) .. End(j)
      /\ \A k \in 1 .. Len(temp[j]) - 1 : temp[j][k] < temp[j][k + 1]
      /\ result[j] = "ended" => temp[j] # << >> /\ Last(temp[j]) = End(j)

\* Unless the network duplicates datagrams, what is combined never holds a byte
\* of the file twice: if they are reordered a byte may end up in the file of
\* another part, but in one place only.  (The client writes whatever packet it
\* receives, client.c:352-358, so it would write a copy as well.)
BytesOnce ==
  "duplicate" \notin faults =>
    \A i, j \in Jobs : \A k \in DOMAIN temp[i], m \in DOMAIN temp[j] :
      temp[i][k] = temp[j][m] => i = j /\ k = m
=============================================================================
