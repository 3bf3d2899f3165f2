----------------------------- MODULE Discovery ------------------------------
(***************************************************************************)
(* The main thread of the HW4 client before it starts the workers: it      *)
(* drops the servers that do not answer a handshake                        *)
(* (verify_address_available), asks the first server left for the file     *)
(* (query_file_exist) and decides whether to download.  The main loop of   *)
(* each server answers (HW4/server.c).                                     *)
(*                                                                         *)
(* All of this goes over one UDP socket.  Neither function looks at who    *)
(* sent the datagram it reads, so an answer that comes after the 2 second  *)
(* timeout is taken for the answer to the next question.                   *)
(***************************************************************************)
EXTENDS Naturals, Sequences, FiniteSets, SequencesExt

CONSTANTS ServerInfo, \* the addresses of server-info.txt
          HasFile,    \* the servers that have the target file
          FaultSets   \* the sets of faults to look at

Servers == Range(ServerInfo)

\* A datagram may be lost or come after the timeout; a server may die.  No datagram
\* is duplicated: to main the copy of an answer is an answer that comes late.
Fault == {"lose", "late", "die"}

ASSUME ServerInfoAssumption == ServerInfo \in Seq(Servers)
ASSUME HasFileAssumption == HasFile \subseteq Servers
ASSUME FaultSetsAssumption == FaultSets \subseteq SUBSET Fault

VARIABLES
  faults,           \* what may go wrong in this behaviour
  server_info_list, \* the servers still listed
  t,                \* index in the list, from 1
  pc,               \* where main is
  read_buf,         \* the last response read, with its sender
  requests,         \* requests[s]: on their way to s
  responses,        \* responses[s]: on their way from s
  alive,            \* the servers that run
  answered          \* history: the servers whose handshake main has read

vars == <<faults, server_info_list, t, pc, read_buf, requests, responses, alive,
          answered>>
net  == <<faults, requests, responses, alive>>

Response == [cmd : {"HSK", "CHK"}, have_file_flag : {"one", "minus one", "zero"},
             from : Servers]
Empty == [cmd |-> "", have_file_flag |-> "zero", from |-> ""]

Init ==
  /\ faults \in FaultSets
  /\ server_info_list = ServerInfo
  /\ t = 1
  /\ pc = "handshake"
  /\ read_buf = Empty
  /\ requests = [s \in Servers |-> << >>]
  /\ responses = [s \in Servers |-> << >>]
  /\ alive \in SUBSET Servers
  /\ answered = {}

-----------------------------------------------------------------------------
(* The main thread.                                                        *)

Listed == t <= Len(server_info_list)

Send(cmd) ==
  requests' = [requests EXCEPT ![server_info_list[t]] = Append(@, cmd)]

SendHandshake ==
  /\ pc = "handshake" /\ Listed
  /\ Send("HSK")
  /\ read_buf' = Empty
  /\ pc' = "await handshake"
  /\ UNCHANGED <<faults, server_info_list, t, responses, alive, answered>>

\* Whatever server the datagram comes from, it counts for the t-th.
ReadHandshake(s) ==
  /\ pc = "await handshake" /\ responses[s] # << >>
  /\ read_buf' = Head(responses[s])
  /\ responses' = [responses EXCEPT ![s] = Tail(@)]
  /\ t' = IF read_buf'.cmd = "HSK" THEN t + 1 ELSE t
  /\ answered' = IF read_buf'.cmd = "HSK" THEN answered \cup {s} ELSE answered
  /\ pc' = "handshake"
  /\ UNCHANGED <<faults, server_info_list, requests, alive>>

\* No answer can come any more.
Silent == \A s \in Servers : /\ responses[s] = << >>
                             /\ s \notin alive \/ requests[s] = << >>

\* Mutant: the silent server stays on the list.
MissHandshakeKeeps ==
  /\ pc = "await handshake" /\ ("late" \in faults \/ Silent)
  /\ t' = t + 1
  /\ pc' = "handshake"
  /\ UNCHANGED <<server_info_list, read_buf, net, answered>>

\* Mutant: the first server is removed in place of the t-th.
MissHandshakeFirst ==
  /\ pc = "await handshake" /\ ("late" \in faults \/ Silent)
  /\ server_info_list' = RemoveAt(server_info_list, 1)
  /\ pc' = "handshake"
  /\ UNCHANGED <<t, read_buf, net, answered>>

MissHandshake ==
  /\ pc = "await handshake" /\ ("late" \in faults \/ Silent)
  /\ server_info_list' = RemoveAt(server_info_list, t)
  /\ pc' = "handshake"
  /\ UNCHANGED <<t, read_buf, net, answered>>

\* The handshakes are over.  failHandler ends the client if no server is left.
EndHandshakes ==
  /\ pc = "handshake" /\ ~Listed
  /\ t' = 1
  /\ pc' = IF server_info_list = << >> THEN "failed" ELSE "query"
  /\ UNCHANGED <<server_info_list, read_buf, net, answered>>

SendQuery ==
  /\ pc = "query" /\ Listed
  /\ Send("CHK")
  /\ read_buf' = Empty
  /\ pc' = "await query"
  /\ UNCHANGED <<faults, server_info_list, t, responses, alive, answered>>

\* Any other response makes main ask the same server again.
ReadQuery(s) ==
  /\ pc = "await query" /\ responses[s] # << >>
  /\ read_buf' = Head(responses[s])
  /\ responses' = [responses EXCEPT ![s] = Tail(@)]
  /\ pc' = IF read_buf'.cmd = "CHK" THEN "decide" ELSE "query"
  /\ UNCHANGED <<faults, server_info_list, t, requests, alive, answered>>

\* Mutant: the server that does not answer is asked again.
MissQueryRetries ==
  /\ pc = "await query" /\ ("late" \in faults \/ Silent)
  /\ pc' = "query"
  /\ UNCHANGED <<server_info_list, t, read_buf, net, answered>>

MissQuery ==
  /\ pc = "await query" /\ ("late" \in faults \/ Silent)
  /\ server_info_list' = RemoveAt(server_info_list, t)
  /\ pc' = "query"
  /\ UNCHANGED <<t, read_buf, net, answered>>

\* query_file_exist returns 1: all servers are dead.
GiveUp ==
  /\ pc = "query" /\ ~Listed
  /\ pc' = "failed"
  /\ UNCHANGED <<server_info_list, t, read_buf, net, answered>>

\* if (read_buf->have_file_flag): minus one counts as true.
Truthy(flag) == flag # "zero"

Decide ==
  /\ pc = "decide"
  /\ pc' = IF Truthy(read_buf.have_file_flag) THEN "downloading" ELSE "no such file"
  /\ UNCHANGED <<server_info_list, t, read_buf, net, answered>>

-----------------------------------------------------------------------------
(* The servers and the network.                                            *)

\* One round of the main loop of server s.
Answer(s) ==
  /\ s \in alive /\ requests[s] # << >>
  /\ LET cmd == Head(requests[s])
         flag == IF cmd = "HSK" THEN "zero"
                 ELSE IF s \in HasFile THEN "one" ELSE "minus one"
     IN  responses' = [responses EXCEPT ![s] =
                         Append(@, [cmd |-> cmd, have_file_flag |-> flag, from |-> s])]
  /\ requests' = [requests EXCEPT ![s] = Tail(@)]
  /\ UNCHANGED <<faults, server_info_list, t, pc, read_buf, alive, answered>>

LoseRequest(s) ==
  /\ "lose" \in faults /\ requests[s] # << >>
  /\ requests' = [requests EXCEPT ![s] = Tail(@)]
  /\ UNCHANGED <<faults, server_info_list, t, pc, read_buf, responses, alive, answered>>

LoseResponse(s) ==
  /\ "lose" \in faults /\ responses[s] # << >>
  /\ responses' = [responses EXCEPT ![s] = Tail(@)]
  /\ UNCHANGED <<faults, server_info_list, t, pc, read_buf, requests, alive, answered>>

Die(s) ==
  /\ "die" \in faults /\ s \in alive
  /\ alive' = alive \ {s}
  /\ UNCHANGED <<faults, server_info_list, t, pc, read_buf, requests, responses, answered>>

Over == {"failed", "downloading", "no such file"}
Terminated == pc \in Over /\ UNCHANGED vars

Main == \/ SendHandshake \/ MissHandshake \/ EndHandshakes
        \/ SendQuery \/ MissQuery \/ GiveUp \/ Decide
        \/ \E s \in Servers : ReadHandshake(s) \/ ReadQuery(s)

Next == \/ Main \/ Terminated
        \/ \E s \in Servers : Answer(s) \/ LoseRequest(s) \/ LoseResponse(s) \/ Die(s)

Spec == Init /\ [][Next]_vars

\* Main is scheduled, its receives time out, and a living server answers.
FairSpec == Spec /\ WF_vars(Main) /\ \A s \in Servers : WF_vars(Answer(s))

-----------------------------------------------------------------------------
TypeOK ==
  /\ faults \subseteq Fault
  /\ server_info_list \in Seq(Servers)
  /\ t \in 1 .. Len(server_info_list) + 1
  /\ pc \in {"handshake", "await handshake", "query", "await query", "decide"} \cup Over
  /\ read_buf \in Response \cup {Empty}
  /\ requests \in [Servers -> Seq({"HSK", "CHK"})]
  /\ responses \in [Servers -> Seq(Response)]
  /\ alive \subseteq Servers
  /\ answered \subseteq Servers

\* If answers come before the timeout or not at all, every server that is left
\* on the list after the handshakes has answered its own, and what main learns
\* about the file comes from the head of the list the workers will use.
AnswersOwn ==
  "late" \notin faults =>
    /\ pc \in {"query", "await query", "decide", "downloading"} =>
         ToSet(server_info_list) \subseteq answered
    /\ pc \in {"decide", "downloading"} => read_buf.from = Head(server_info_list)

\* Over a network that loses and delays nothing only dead servers are dropped.
OnlyDeadDropped == faults \subseteq {"die"} => alive \subseteq ToSet(server_info_list)

\* However late the answers are, main gets through its two loops: each stray
\* answer makes it ask again at most once.
Ends == <>(pc \in Over)
=============================================================================
