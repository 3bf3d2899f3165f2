---------------------------- MODULE TcpDownload ----------------------------
(***************************************************************************)
(* The parallel download of HW3 (client.c, server.c, mysocket.c): clients  *)
(* that open one connection per part, check the file at the first of them  *)
(* and start a thread on each, and servers that talk to one connection at  *)
(* a time, until its client says BYE or is gone.  Servers may die, and     *)
(* clients may be killed, between any two steps.                           *)
(*                                                                         *)
(* A connection <<c, i>> is the one to entry i of the list of client c,    *)
(* and so is the thread that uses it.  A file is the sequence of the       *)
(* positions of its bytes, none of which is NUL.  Clients and servers run  *)
(* in directories of their own, with no output of an earlier run.          *)
(***************************************************************************)
EXTENDS Integers, Sequences, FiniteSets, SequencesExt

CONSTANTS
  Clients, Servers,
  MaxSock,    \* MAX_SOCK_SIZE, the length of the array of sockets, scaled down
  BufferSize, \* BUFFER_SIZE, scaled down
  Pending,    \* connections a listening socket keeps: listen(.., 1) and one more
  None,       \* no connection, no file
  Scenarios   \* what to look at

ASSUME BufferSizeAssumption == BufferSize \in Nat \ {0, 1}
ASSUME MaxSockAssumption    == MaxSock \in Nat \ {0}
ASSUME PendingAssumption    == Pending \in Nat \ {0}
ASSUME NoneAssumption       == None \notin (Clients \X Nat) \cup (Nat \X (Nat \cup {-1}))

\* What server-info.txt and num-connections say, the length of the file, the
\* servers that do not run, do not have the file or may die, the clients that may
\* be killed, whether a read may return part of a package, and whether the `name'
\* of download_single_part, which is never set, points to the name of the target
\* as in the makefile's build.
Scenario == [list : [Clients -> Seq(Servers)], num : [Clients -> Nat], filesize : Nat,
             down : SUBSET Servers, without : SUBSET Servers, mortal : SUBSET Servers,
             leaving : SUBSET Clients, short : BOOLEAN, aliased : BOOLEAN]
ASSUME ScenariosAssumption == \A s \in Scenarios : s \in Scenario

VARIABLES
  scene,     \* the scenario of this behaviour
  pc,        \* main of each client
  sockets,   \* sockets[c]: which entries of the list were connected, so far
  target,    \* target_file: the file itself, or the number n of "output.n"
  thread,    \* thread_download on each connection
  dir,       \* dir[c][n]: the thread whose file is called output.n, or None
  content,   \* what each thread has written to its file
  skew,      \* the next read of the thread begins inside a package
  result,    \* result[c]: what result.txt holds, or None
  combined,  \* combined[c]: how many of the files output.n it holds
  requests,  \* packages on their way to the server of each connection
  responses, \* packages on their way to the client
  up,        \* the server runs
  backlog,   \* connections a server has not accepted yet
  serving,   \* the connection a server talks to, or None
  upload     \* the range a server is still to send, or None

client == <<pc, sockets, target, thread, dir, content, skew, result, combined>>
server == <<up, backlog, serving, upload>>
vars == <<scene, client, requests, responses, server>>

Conns == {k \in Clients \X (1 .. MaxSock) : k[2] <= Len(scene.list[k[1]])}
Nums  == 0 .. MaxSock - 1
Server(k) == scene.list[k[1]][k[2]]
TheFile == -2
Garbage == -1

Init ==
  /\ scene \in Scenarios
  /\ pc = [c \in Clients |-> "connect"]
  /\ sockets = [c \in Clients |-> << >>]
  /\ target = [c \in Clients |-> TheFile]
  /\ thread = [k \in Conns |-> "none"]
  /\ dir = [c \in Clients |-> [n \in Nums |-> None]]
  /\ content = [k \in Conns |-> << >>]
  /\ skew = [k \in Conns |-> FALSE]
  /\ result = [c \in Clients |-> None]
  /\ combined = [c \in Clients |-> 0]
  /\ requests = [k \in Conns |-> << >>]
  /\ responses = [k \in Conns |-> << >>]
  /\ up = [s \in Servers |-> s \notin scene.down]
  /\ backlog = [s \in Servers |-> << >>]
  /\ serving = [s \in Servers |-> None]
  /\ upload = [s \in Servers |-> None]

-----------------------------------------------------------------------------
(* Main of a client.                                                       *)

Valid(c)    == {i \in DOMAIN sockets[c] : sockets[c][i]}
ValidConns(c) == {<<c, i>> : i \in Valid(c)}
Ended(c)    == pc[c] \in {"finished", "failed", "killed"}
\* connection_num: the connections still wanted.
Wanting(c)  == /\ Cardinality(Valid(c)) < scene.num[c]
               /\ Len(sockets[c]) < Len(scene.list[c]) /\ Len(sockets[c]) < MaxSock
Ask(k, r)   == requests' = [requests EXCEPT ![k] = Append(@, r)]
\* The connections are closed when the process ends.
AskAll(c, r) == requests' = [k \in Conns |-> IF k \in ValidConns(c) THEN Append(requests[k], r)
                                                                    ELSE requests[k]]
Package(cmd) == [cmd |-> cmd]

Connect(c) ==
  /\ pc[c] = "connect" /\ Wanting(c)
  /\ LET k == <<c, Len(sockets[c]) + 1>>
         s == Server(k)
     IN  \/ /\ up[s] /\ Len(backlog[s]) < Pending
            /\ backlog' = [backlog EXCEPT ![s] = Append(@, k)]
            /\ sockets' = [sockets EXCEPT ![c] = Append(@, TRUE)]
         \/ /\ ~up[s] \/ Len(backlog[s]) = Pending
            /\ sockets' = [sockets EXCEPT ![c] = Append(@, FALSE)]
            /\ UNCHANGED backlog
  /\ UNCHANGED <<scene, pc, target, thread, dir, content, skew, result, combined, requests,
                 responses, up, serving, upload>>

First(c) == <<c, CHOOSE i \in Valid(c) : \A j \in Valid(c) : i <= j>>

CheckFile(c) ==
  /\ pc[c] = "connect" /\ ~Wanting(c)
  /\ IF Valid(c) = {}
     THEN pc' = [pc EXCEPT ![c] = "failed"] /\ UNCHANGED requests
     ELSE pc' = [pc EXCEPT ![c] = "answer"] /\ Ask(First(c), Package("CHK"))
  /\ UNCHANGED <<scene, sockets, target, thread, dir, content, skew, result, combined,
                 responses, server>>

\* Only the first server is asked.  A read that fails ends the client, too; one
\* that returns part of the package leaves the rest to the thread.
ReadAnswer(c) ==
  /\ pc[c] = "answer"
  /\ LET k == First(c)
     IN  \/ /\ responses[k] # << >> /\ Head(responses[k]).have
            /\ \/ responses' = [responses EXCEPT ![k] = Tail(@)] /\ UNCHANGED skew
               \/ scene.short /\ skew' = [skew EXCEPT ![k] = TRUE] /\ UNCHANGED responses
            /\ pc' = [pc EXCEPT ![c] = "download"]
            /\ thread' = [t \in Conns |-> IF t \in ValidConns(c) THEN "request" ELSE thread[t]]
            /\ UNCHANGED requests
         \/ /\ responses[k] # << >> /\ ~Head(responses[k]).have
            /\ responses' = [responses EXCEPT ![k] = Tail(@)]
            /\ pc' = [pc EXCEPT ![c] = "finished"]
            /\ AskAll(c, Package("BYE"))
            /\ UNCHANGED <<thread, skew>>
         \/ /\ responses[k] = << >> /\ ~up[Server(k)]
            /\ pc' = [pc EXCEPT ![c] = "finished"]
            /\ AskAll(c, Package("EOF"))
            /\ UNCHANGED <<responses, thread, skew>>
  /\ UNCHANGED <<scene, sockets, target, dir, content, result, combined, server>>

PartNum(c) == Cardinality(Valid(c))

\* combine_file, once the threads have been joined, opens result.txt,
OpenResult(c) ==
  /\ pc[c] = "download" /\ \A k \in ValidConns(c) : thread[k] = "done"
  /\ pc' = [pc EXCEPT ![c] = "combine"]
  /\ result' = [result EXCEPT ![c] = << >>]
  /\ UNCHANGED <<scene, sockets, target, thread, dir, content, skew, combined, requests,
                 responses, server>>

\* copies output.0, output.1, ... to it,
CombinePart(c) ==
  /\ pc[c] = "combine" /\ combined[c] < PartNum(c) /\ dir[c][combined[c]] # None
  /\ result' = [result EXCEPT ![c] = @ \o content[dir[c][combined[c]]]]
  /\ combined' = [combined EXCEPT ![c] = @ + 1]
  /\ UNCHANGED <<scene, pc, sockets, target, thread, dir, content, skew, requests,
                 responses, server>>

\* and is done, or calls failHandler because a file is missing.
CombineEnd(c) ==
  /\ pc[c] = "combine"
  /\ \/ combined[c] = PartNum(c) /\ pc' = [pc EXCEPT ![c] = "finished"]
     \/ /\ combined[c] < PartNum(c) /\ dir[c][combined[c]] = None
        /\ pc' = [pc EXCEPT ![c] = "failed"]
  /\ AskAll(c, Package("EOF"))
  /\ UNCHANGED <<scene, sockets, target, thread, dir, content, skew, result, combined,
                 responses, server>>

\* The process is killed, by ^C for one, and its threads with it.
Kill(c) ==
  /\ c \in scene.leaving /\ ~Ended(c)
  /\ pc' = [pc EXCEPT ![c] = "killed"]
  /\ thread' = [k \in Conns |-> IF k[1] = c /\ thread[k] # "none" THEN "gone" ELSE thread[k]]
  /\ AskAll(c, Package("EOF"))
  /\ UNCHANGED <<scene, sockets, target, dir, content, skew, result, combined, responses,
                 server>>

-----------------------------------------------------------------------------
(* The threads of a client.                                                *)

Goto(k, t) == thread' = [thread EXCEPT ![k] = t]

\* valid_part, file_start and file_end of a thread, for n parts.
Part(k) == Cardinality({i \in Valid(k[1]) : i < k[2]})
single_part_length(c) == scene.filesize \div PartNum(c)

FileStart(k) == Part(k) * single_part_length(k[1])

\* Mutant: the last part is not stretched to the end of the file.
FileEndUneven(k) == (Part(k) + 1) * single_part_length(k[1]) - 1

FileEnd(k) == IF Part(k) = PartNum(k[1]) - 1 THEN scene.filesize - 1
              ELSE (Part(k) + 1) * single_part_length(k[1]) - 1

Request(k) ==
  /\ thread[k] = "request"
  /\ Ask(k, [cmd |-> "DWN", file |-> target[k[1]], start |-> FileStart(k), end |-> FileEnd(k)])
  /\ Goto(k, "name")
  /\ UNCHANGED <<scene, pc, sockets, target, dir, content, skew, result, combined, responses,
                 server>>

\* Mutant: the name is always written over the target's.
NameOverTarget(k) ==
  /\ thread[k] = "name"
  /\ Goto(k, "open")
  /\ target' = [target EXCEPT ![k[1]] = Part(k)]
  /\ UNCHANGED <<scene, pc, sockets, dir, content, skew, result, combined, requests,
                 responses, server>>

\* sprintf(name, "output.%d", part).
Name(k) ==
  /\ thread[k] = "name"
  /\ Goto(k, "open")
  /\ target' = [target EXCEPT ![k[1]] = IF scene.aliased THEN Part(k) ELSE @]
  /\ UNCHANGED <<scene, pc, sockets, dir, content, skew, result, combined, requests,
                 responses, server>>

\* remove and fopen of what `name' holds now: a new file.
OpenPart(k) ==
  /\ thread[k] = "open"
  /\ LET c == k[1]
         n == IF scene.aliased THEN target[c] ELSE Part(k)
     IN  dir' = [dir EXCEPT ![c][n] = k]
  /\ Goto(k, "receive")
  /\ UNCHANGED <<scene, pc, sockets, target, content, skew, result, combined, requests,
                 responses, server>>

\* A content that fills the array is printed on into the memory behind it.
Printed(p) == IF Len(p.content) = BufferSize THEN Append(p.content, Garbage) ELSE p.content

Receive(k) ==
  /\ thread[k] = "receive" /\ ~skew[k] /\ responses[k] # << >>
  /\ LET p == Head(responses[k])
     IN  /\ content' = [content EXCEPT ![k] = @ \o Printed(p)]
         /\ IF p.is_end THEN Goto(k, "done") ELSE UNCHANGED thread
  /\ responses' = [responses EXCEPT ![k] = Tail(@)]
  /\ UNCHANGED <<scene, pc, sockets, target, dir, skew, result, combined, requests, server>>

\* The read returns the head of a package, perhaps without content_is_end: what
\* is printed ends in bytes of the one before.
ReceiveHead(k) ==
  /\ scene.short /\ thread[k] = "receive" /\ ~skew[k] /\ responses[k] # << >>
  /\ content' = [content EXCEPT ![k] = Append(@, Garbage)]
  /\ \/ Head(responses[k]).is_end /\ Goto(k, "done")
     \/ UNCHANGED thread
  /\ skew' = [skew EXCEPT ![k] = TRUE]
  /\ UNCHANGED <<scene, pc, sockets, target, dir, result, combined, requests, responses, server>>

\* It returns the tail of a package, alone or with the head of the next: cmd is
\* not DWN.
ReceiveTail(k) ==
  /\ thread[k] = "receive" /\ skew[k] /\ responses[k] # << >>
  /\ responses' = [responses EXCEPT ![k] = Tail(@)]
  /\ \/ skew' = [skew EXCEPT ![k] = FALSE]
     \/ Len(responses[k]) > 1 /\ UNCHANGED skew
  /\ UNCHANGED <<scene, pc, sockets, target, thread, dir, content, result, combined,
                 requests, server>>

\* The server is gone.
EndOfStream(k) ==
  /\ thread[k] = "receive" /\ responses[k] = << >> /\ ~up[Server(k)]
  /\ Goto(k, "done")
  /\ UNCHANGED <<scene, pc, sockets, target, dir, content, skew, result, combined>>
  /\ UNCHANGED <<requests, responses, server>>

-----------------------------------------------------------------------------
(* The servers.                                                            *)

Accept(s) ==
  /\ up[s] /\ serving[s] = None /\ backlog[s] # << >>
  /\ serving' = [serving EXCEPT ![s] = Head(backlog[s])]
  /\ backlog' = [backlog EXCEPT ![s] = Tail(@)]
  /\ UNCHANGED <<scene, client, requests, responses, up, upload>>

Reads(s, cmds) ==
  /\ up[s] /\ serving[s] # None /\ upload[s] = None
  /\ requests[serving[s]] # << >> /\ Head(requests[serving[s]]).cmd \in cmds
  /\ requests' = [requests EXCEPT ![serving[s]] = Tail(@)]

\* Mutant: a connection whose client is gone without BYE is kept.
HangUpOnBye(s) ==
  /\ Reads(s, {"BYE"})
  /\ serving' = [serving EXCEPT ![s] = None]
  /\ UNCHANGED <<scene, client, responses, up, backlog, upload>>

HangUp(s) ==
  /\ Reads(s, {"BYE", "EOF"})
  /\ serving' = [serving EXCEPT ![s] = None]
  /\ UNCHANGED <<scene, client, responses, up, backlog, upload>>

Respond(k, p) == responses' = [responses EXCEPT ![k] = Append(@, p)]

CheckResponse(s) ==
  /\ Reads(s, {"CHK"})
  /\ Respond(serving[s], [have |-> s \notin scene.without])
  /\ UNCHANGED <<scene, client, server>>

\* server_upload_file: the server exits if it cannot open the file.
StartUpload(s) ==
  /\ Reads(s, {"DWN"})
  /\ LET r == Head(requests[serving[s]])
     IN  IF r.file = TheFile /\ s \notin scene.without
         THEN upload' = [upload EXCEPT ![s] = <<r.start, r.end>>] /\ UNCHANGED up
         ELSE up' = [up EXCEPT ![s] = FALSE] /\ UNCHANGED upload
  /\ UNCHANGED <<scene, client, responses, backlog, serving>>

Positions(i, j) == [n \in 1 .. j - i + 1 |-> i + n - 1]

\* Mutant: the packages overlap.
PackageLengthFull == BufferSize

PackageLength == BufferSize - 1

SendPackage(s) ==
  /\ up[s] /\ upload[s] # None
  /\ LET cur == upload[s][1]
         end == upload[s][2]
     IN  IF end - cur > BufferSize - 1
         THEN /\ Respond(serving[s], [content |-> Positions(cur, cur + PackageLength - 1),
                                      is_end |-> FALSE])
              /\ upload' = [upload EXCEPT ![s] = <<cur + BufferSize - 1, end>>]
         ELSE /\ Respond(serving[s], [content |-> Positions(cur, end), is_end |-> TRUE])
              /\ upload' = [upload EXCEPT ![s] = None]
  /\ UNCHANGED <<scene, client, requests, up, backlog, serving>>

\* What a client had not read when it ended, and what is sent to it afterwards,
\* is answered with a reset, and a write after that is a SIGPIPE.  (The answer to
\* CHK is the first write on its connection.)
BrokenPipe(s) ==
  /\ up[s] /\ upload[s] # None
  /\ Ended(serving[s][1]) /\ responses[serving[s]] # << >>
  /\ up' = [up EXCEPT ![s] = FALSE]
  /\ UNCHANGED <<scene, client, requests, responses, backlog, serving, upload>>

Die(s) ==
  /\ s \in scene.mortal /\ up[s]
  /\ up' = [up EXCEPT ![s] = FALSE]
  /\ UNCHANGED <<scene, client, requests, responses, backlog, serving, upload>>

-----------------------------------------------------------------------------
Main(c) == \/ Connect(c) \/ CheckFile(c) \/ ReadAnswer(c)
           \/ OpenResult(c) \/ CombinePart(c) \/ CombineEnd(c)
Thread(k) == \/ Request(k) \/ Name(k) \/ OpenPart(k)
             \/ Receive(k) \/ ReceiveHead(k) \/ ReceiveTail(k) \/ EndOfStream(k)
Serve(s) == \/ Accept(s) \/ HangUp(s) \/ CheckResponse(s) \/ StartUpload(s)
            \/ SendPackage(s) \/ BrokenPipe(s)

\* The connections a client cannot end without.
Needs(c) == CASE pc[c] = "answer"   -> {First(c)}
              [] pc[c] = "download" -> {k \in ValidConns(c) : thread[k] = "receive"}
              [] OTHER              -> {}

\* Clients that wait for one another, or for themselves: each needs a connection
\* that is not accepted while the server talks to one of them.
HoldAndWait ==
  \E D \in SUBSET Clients \ {{}} : \A c \in D : \E k \in Needs(c) :
    LET s == Server(k)
    IN  up[s] /\ k \in Range(backlog[s]) /\ serving[s] # None /\ serving[s][1] \in D

\* The end of a part was in the tail of a package whose head was read before.
LostEnd ==
  scene.short /\ \E k \in Conns :
    /\ thread[k] = "receive" /\ responses[k] = << >> /\ requests[k] = << >>
    /\ serving[Server(k)] = k /\ upload[Server(k)] = None

AllEnded == \A c \in Clients : Ended(c)

\* The servers wait in accept or read, for ever.
Idle == (AllEnded \/ HoldAndWait \/ LostEnd) /\ UNCHANGED vars

Next == \/ \E c \in Clients : Main(c) \/ Kill(c)
        \/ \E k \in Conns : Thread(k)
        \/ \E s \in Servers : Serve(s) \/ Die(s)
        \/ Idle

Spec == Init /\ [][Next]_vars

\* Processes and threads are scheduled; a connection that is refused by a full
\* queue times out.
FairSpec ==
  Spec /\ WF_vars(\E c \in Clients : Main(c)) /\ WF_vars(\E k \in Conns : Thread(k))
       /\ WF_vars(\E s \in Servers : Serve(s))

-----------------------------------------------------------------------------
Bytes == Seq(Nat \cup {Garbage})
ToServer == {Package(cmd) : cmd \in {"CHK", "BYE", "EOF"}}
              \cup [cmd : {"DWN"}, file : Nums \cup {TheFile}, start : Nat, end : Nat \cup {-1}]
ToClient == [have : BOOLEAN] \cup [content : Seq(Nat), is_end : BOOLEAN]

TypeOK ==
  /\ scene \in Scenarios
  /\ pc \in [Clients -> {"connect", "answer", "download", "combine",
                         "finished", "failed", "killed"}]
  /\ sockets \in [Clients -> Seq(BOOLEAN)]
  /\ target \in [Clients -> Nums \cup {TheFile}]
  /\ thread \in [Conns -> {"none", "request", "name", "open", "receive", "done", "gone"}]
  /\ dir \in [Clients -> [Nums -> Conns \cup {None}]]
  /\ content \in [Conns -> Bytes] /\ skew \in [Conns -> BOOLEAN]
  /\ result \in [Clients -> Bytes \cup {None}] /\ combined \in [Clients -> 0 .. MaxSock]
  /\ requests \in [Conns -> Seq(ToServer)] /\ responses \in [Conns -> Seq(ToClient)]
  /\ up \in [Servers -> BOOLEAN]
  /\ backlog \in [Servers -> Seq(Conns)]
  /\ \A s \in Servers : /\ Len(backlog[s]) <= Pending
                        /\ \A i \in DOMAIN backlog[s] : Server(backlog[s][i]) = s
  /\ serving \in [Servers -> Conns \cup {None}]
  /\ upload \in [Servers -> (Nat \X (Nat \cup {-1})) \cup {None}]

\* The last package of a part may fill the whole array: something from behind it
\* is printed, too.
LengthOf(k) == FileEnd(k) - FileStart(k) + 1
Overruns(k) == LengthOf(k) >= BufferSize /\ (LengthOf(k) - BufferSize) % (BufferSize - 1) = 0

\* What the file of a part holds in the end.
Wanted(k) == LET range == Positions(FileStart(k), FileEnd(k))
             IN  IF Overruns(k) THEN Append(range, Garbage) ELSE range

\* Whoever dies, and whatever the threads do to one another's names, what a
\* thread writes is the beginning of its range, followed by bytes from behind
\* the array at the end only: no byte of another part, none twice, none left out.
OwnBytes ==
  ~scene.short => \A k \in Conns : content[k] # << >> => IsPrefix(content[k], Wanted(k))

\* If the servers of a client live, packages are read whole and the threads do
\* not share a name, result.txt is the file, byte for byte, for every length and
\* number of parts, unless some part ends in a package that fills the array:
\* then, and only then, it is not.
Intact ==
  ~scene.short => \A c \in Clients :
    (/\ pc[c] = "finished" /\ result[c] # None
     /\ ~scene.aliased \/ PartNum(c) = 1
     /\ \A k \in ValidConns(c) : up[Server(k)])
    => (result[c] = Positions(0, scene.filesize - 1) <=> \A k \in ValidConns(c) : ~Overruns(k))

\* A server goes down only by itself; because it is asked for a file that it does
\* not have: main asked the first server only, or a thread asked for the name of
\* an output file; or in the middle of a part, because the client was killed that
\* it is for.  To a client that ends in any other way nothing is left to be
\* written, and one that is killed at any other moment costs no server.
DownExplained ==
  \A s \in Servers : ~up[s] =>
    \/ s \in scene.down \cup scene.mortal \cup scene.without
    \/ scene.aliased /\ \E c \in Clients : PartNum(c) > 1
    \/ upload[s] # None /\ pc[serving[s][1]] = "killed"

\* Lists that name no server twice and, of two clients, share at most one.
Apart == /\ \A c \in Clients : IsInjective(scene.list[c])
         /\ \A c, d \in Clients : c # d =>
              Cardinality(Range(scene.list[c]) \cap Range(scene.list[d])) <= 1

\* Every client ends, whichever servers die or lack the file and whichever
\* clients are killed, unless an end of part was cut in two or clients wait in a
\* circle.  They may do so if a list names a server twice or two clients share two
\* servers, be it in the same order, and never otherwise.
Finishes == <>(AllEnded \/ (HoldAndWait /\ ~Apart) \/ LostEnd)
=============================================================================
