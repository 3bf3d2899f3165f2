---------------------------- MODULE RemoteShell ----------------------------
(***************************************************************************)
(* The remote shell of hw2: client.c, server.c and executer.c.  A client   *)
(* sends the line its user typed and shows the packages that come back     *)
(* until one is marked as the last; the server serves one client after the *)
(* other.                                                                  *)
(*                                                                         *)
(* A package is 1032 bytes and a TCP read may return less.  It is modelled *)
(* as two pieces: the first has the flag is_end and the beginning of the   *)
(* text, the second the rest of the text, or zeros.  A line the user typed *)
(* is only its number.  What a command prints is chosen while it runs.     *)
(***************************************************************************)
EXTENDS Integers, Sequences, SequencesExt

CONSTANTS
  Clients,
  None,        \* no client
  MaxCmds,     \* MaxCmds[c]: bound on the lines the user of c types
  MaxLines,    \* bound on the lines a command prints
  FaultSets    \* the sets of faults to look at

\* Short reads; ^C; a user who hits return at once; a server that is killed.
Fault == {"short", "interrupt", "empty", "die"}

ASSUME NoneAssumption      == None \notin Clients
ASSUME BoundsAssumption    == MaxCmds \in [Clients -> Nat] /\ MaxLines \in Nat
ASSUME FaultSetsAssumption == FaultSets \subseteq SUBSET Fault

VARIABLES
  faults,   \* what may go wrong in this behaviour
  queue,    \* connections that wait for accept
  client,   \* the client processes
  server,   \* the server process
  up,       \* up[c]: lines of c the server has not read
  down,     \* down[c]: pieces c has not read
  printed   \* printed[c]: the text of the last command of c, as the server sent it

vars == <<faults, queue, client, server, up, down, printed>>

\* "exit", among the numbers that stand for lines.
Exit == 0

\* What a process knows of its peer.  "ended": it closed, and answers a write
\* with a reset; "reset": the next call reports it; "dead": a write is SIGPIPE.
Sock == {"open", "ended", "reset", "dead"}

Init ==
  /\ faults \in FaultSets
  /\ queue = << >>
  /\ client = [c \in Clients |->
                 [pc |-> "start", sock |-> "open", asked |-> 0, shown |-> << >>,
                  empty |-> FALSE, whole |-> TRUE, answered |-> FALSE, cut |-> FALSE]]
  /\ server = [pc |-> "accept", serving |-> None, sock |-> "open",
               cmd |-> << >>, lines |-> 0, rest |-> FALSE]
  /\ up = [c \in Clients |-> << >>]
  /\ down = [c \in Clients |-> << >>]
  /\ printed = [c \in Clients |-> << >>]

Running == server.pc \notin {"killed", "stopped"}

-----------------------------------------------------------------------------
(* The client.                                                             *)

Backlog == 1

\* Linux lets one more connection wait than listen was told.
Connect(c) ==
  /\ client[c].pc = "start"
  /\ IF Running
       THEN /\ Len(queue) <= Backlog
            /\ queue' = Append(queue, c)
            /\ client' = [client EXCEPT ![c].pc = "prompt"]
       ELSE /\ client' = [client EXCEPT ![c].pc = "over"]
            /\ UNCHANGED queue
  /\ UNCHANGED <<faults, server, up, down, printed>>

\* The line is written without its length or its end, and the client reads.
Type(c) ==
  /\ client[c].pc = "prompt"
  /\ client[c].asked < MaxCmds[c]
  /\ client[c].sock \in {"open", "ended"}
  /\ \E st \in IF client[c].sock = "open" THEN {"open"} ELSE {"ended", "dead"} :
       client' = [client EXCEPT ![c] = [@ EXCEPT
                    !.pc = "read", !.sock = st, !.asked = client[c].asked + 1,
                    !.shown = << >>, !.empty = FALSE, !.answered = FALSE]]
  /\ up' = IF client[c].sock = "open" THEN [up EXCEPT ![c] = Append(@, client[c].asked + 1)]
                                      ELSE up
  /\ printed' = [printed EXCEPT ![c] = << >>]
  /\ UNCHANGED <<faults, queue, server, down>>

\* An empty line: nothing is written, and the client reads all the same.
TypeNothing(c) ==
  /\ "empty" \in faults
  /\ client[c].pc = "prompt"
  /\ client[c].sock \in {"open", "ended"}
  /\ client' = [client EXCEPT ![c] = [@ EXCEPT
                  !.pc = "read", !.shown = << >>, !.empty = TRUE, !.answered = FALSE]]
  /\ printed' = [printed EXCEPT ![c] = << >>]
  /\ UNCHANGED <<faults, queue, server, up, down>>

\* The text up to the first NUL, where the bytes that begin with piece ps[1] are
\* taken for a package: the second piece is reached only if the first is full of text.
Text(ps) ==
  IF ~ps[1].text THEN << >>
  ELSE IF ps[1].head /\ Len(ps) = 2 /\ ps[2].text THEN ps ELSE <<ps[1]>>

\* Mutant: the client asks again after any package.
IsEndAlways(ps) == TRUE

\* Bytes 4 to 7: the flag, or text of a long line.
IsEnd(ps) == IF ps[1].head THEN ps[1].end ELSE ps[1].text

\* A read of at most one package.
ReadPackage(c) ==
  /\ client[c].pc = "read"
  /\ \E n \in 1 .. 2 :
       /\ n <= Len(down[c])
       /\ n = 2 \/ "short" \in faults
       /\ LET ps == SubSeq(down[c], 1, n) IN
            /\ client' = [client EXCEPT ![c] = [@ EXCEPT
                            !.pc = IF IsEnd(ps) THEN "prompt" ELSE "read",
                            !.shown = client[c].shown \o Text(ps),
                            !.whole = client[c].whole /\ ps[1].head,
                            !.answered = IsEnd(ps)]]
            /\ down' = [down EXCEPT ![c] = SubSeq(@, n + 1, Len(@))]
  /\ UNCHANGED <<faults, queue, server, up, printed>>

\* The read returned 0 or failed, and the client asks for the next command.
ReadFails(c) ==
  /\ client[c].pc = "read"
  /\ down[c] = << >>
  /\ client[c].sock # "open"
  /\ client' = [client EXCEPT ![c].pc = "prompt",
                              ![c].sock = IF @ = "reset" THEN "dead" ELSE @]
  /\ UNCHANGED <<faults, queue, server, up, down, printed>>

\* c closes its socket after the lines ls.  A close with unread pieces is a reset;
\* with pieces on their way it is a FIN and a reset.
Close(c, ls) ==
  /\ client' = [client EXCEPT ![c] = [@ EXCEPT
                  !.pc = "over", !.cut = client[c].cut \/ client[c].pc = "read",
                  !.shown = << >>, !.empty = FALSE, !.answered = FALSE]]
  /\ printed' = [printed EXCEPT ![c] = << >>]
  /\ up' = IF client[c].sock = "open" THEN [up EXCEPT ![c] = @ \o ls] ELSE up
  /\ down' = [down EXCEPT ![c] = << >>]
  /\ IF server.serving = c /\ Running
       THEN \E st \in IF down[c] = << >> THEN {"ended"} ELSE {"ended", "reset", "dead"} :
              server' = [server EXCEPT !.sock = st]
       ELSE UNCHANGED server
  /\ UNCHANGED <<faults, queue>>

\* The user typed exit; or the write of a line failed, or raised SIGPIPE.
TypeExit(c)  == client[c].pc = "prompt" /\ Close(c, <<Exit>>)
TypeFails(c) == client[c].pc = "prompt" /\ client[c].sock \in {"reset", "dead"} /\ Close(c, << >>)

\* ^D: readline returns NULL and strlen crashes.
TypeEOF(c) == client[c].pc = "prompt" /\ Close(c, << >>)

crashHandler(c) ==
  /\ "interrupt" \in faults
  /\ client[c].pc \in {"prompt", "read"}
  /\ Close(c, <<Exit>>)

-----------------------------------------------------------------------------
(* The server.                                                             *)

Accept ==
  /\ server.pc = "accept"
  /\ queue # << >>
  /\ queue' = Tail(queue)
  /\ server' = [server EXCEPT !.pc = "read", !.serving = Head(queue),
                  !.sock = IF client[Head(queue)].pc = "over" THEN "ended" ELSE "open"]
  /\ UNCHANGED <<faults, client, up, down, printed>>

Hangup == [server EXCEPT !.pc = "accept", !.serving = None, !.sock = "open"]

\* Mutant: "exit" is run like any other command.
ReadCommandExit ==
  LET c == server.serving IN
  /\ server.pc = "read"
  /\ up[c] # << >>
  /\ up' = [up EXCEPT ![c] = << >>]
  /\ server' = [server EXCEPT !.pc = "run", !.cmd = up[c]]
  /\ UNCHANGED <<faults, queue, client, down, printed>>

\* What is in the stream is read as one line, or a part of it if the rest comes later.
ReadCommand ==
  LET c == server.serving IN
  /\ server.pc = "read"
  /\ \E n \in 1 .. Len(up[c]) :
       LET cmd == SubSeq(up[c], 1, n) IN
       /\ up' = [up EXCEPT ![c] = SubSeq(@, n + 1, Len(@))]
       /\ server' = IF cmd = <<Exit>>
                      THEN Hangup
                      ELSE [server EXCEPT !.pc = "run", !.cmd = cmd]
  /\ UNCHANGED <<faults, queue, client, down, printed>>

ReadEnd ==
  /\ server.pc = "read"
  /\ up[server.serving] = << >>
  /\ server.sock # "open"
  /\ server' = Hangup
  /\ UNCHANGED <<faults, queue, client, up, down, printed>>

\* The process is gone: its client gets what was sent, then the end or, if the
\* server left lines unread, a reset; those who wait are reset.
Down(pc) ==
  /\ server' = [server EXCEPT !.pc = pc, !.serving = None, !.cmd = << >>,
                               !.lines = 0, !.rest = FALSE]
  /\ queue' = << >>
  /\ client' = [c \in Clients |->
       IF c = server.serving
         THEN [client[c] EXCEPT !.sock = IF up[c] = << >> THEN "ended" ELSE "reset"]
         ELSE [client[c] EXCEPT !.sock = IF Contains(queue, c) THEN "reset" ELSE @]]

\* The server writes package ps; s is the server if it goes on.
Write(ps, s) ==
  LET c == server.serving IN
  IF server.sock = "dead"
    THEN Down("killed") /\ UNCHANGED <<down, printed>>
    ELSE /\ \E st \in CASE server.sock = "open"  -> {"open"}
                        [] server.sock = "ended" -> {"ended", "dead"}
                        [] server.sock = "reset" -> {"dead"} :
              server' = [s EXCEPT !.sock = st]
         /\ IF server.sock = "open"
              THEN /\ down' = [down EXCEPT ![c] = @ \o ps]
                   /\ printed' = [printed EXCEPT ![c] = @ \o Text(ps)]
              ELSE UNCHANGED <<down, printed>>
         /\ UNCHANGED <<queue, client>>

Piece(head, end, text) ==
  [of |-> Last(server.cmd), line |-> server.lines, head |-> head, end |-> end, text |-> text]

\* Mutant: a short package is the last one.
WriteLineEnds ==
  /\ server.pc = "run"
  /\ server.lines < MaxLines
  /\ \E long \in BOOLEAN :
       Write(<<Piece(TRUE, ~long, TRUE), Piece(FALSE, FALSE, long)>>,
             [server EXCEPT !.lines = @ + 1, !.rest = long])
  /\ UNCHANGED <<faults, up>>

\* A line of the command's output, short or so long that its rest is a piece.
WriteLine ==
  /\ server.pc = "run"
  /\ server.lines < MaxLines
  /\ \E long \in BOOLEAN :
       Write(<<Piece(TRUE, FALSE, TRUE), Piece(FALSE, FALSE, long)>>,
             [server EXCEPT !.lines = @ + 1, !.rest = long])
  /\ UNCHANGED <<faults, up>>

\* Mutant: a command that prints nothing gets no package.
WriteEndSilent ==
  /\ server.pc = "run"
  /\ IF server.lines = 0
       THEN /\ server' = [server EXCEPT !.pc = "read", !.cmd = << >>]
            /\ UNCHANGED <<queue, client, down, printed>>
       ELSE Write(<<Piece(TRUE, TRUE, FALSE), Piece(FALSE, FALSE, server.rest)>>,
                  [server EXCEPT !.pc = "read", !.cmd = << >>, !.lines = 0, !.rest = FALSE])
  /\ UNCHANGED <<faults, up>>

\* The last package: only its first character is cleared, the rest of the buffer
\* is that of the last line, or what malloc found there.
WriteEnd ==
  /\ server.pc = "run"
  /\ \E old \in IF server.lines = 0 THEN BOOLEAN ELSE {server.rest} :
       Write(<<Piece(TRUE, TRUE, FALSE), Piece(FALSE, FALSE, old)>>,
             [server EXCEPT !.pc = "read", !.cmd = << >>, !.lines = 0, !.rest = FALSE])
  /\ UNCHANGED <<faults, up>>

Die ==
  /\ "die" \in faults
  /\ Running
  /\ Down("stopped")
  /\ UNCHANGED <<faults, up, down, printed>>

-----------------------------------------------------------------------------
ClientStep(c) ==
  \/ Connect(c) \/ Type(c) \/ TypeNothing(c) \/ ReadPackage(c) \/ ReadFails(c)
  \/ TypeExit(c) \/ TypeFails(c) \/ TypeEOF(c) \/ crashHandler(c)

ServerStep == Accept \/ ReadCommand \/ ReadEnd \/ WriteLine \/ WriteEnd

Next == ServerStep \/ Die \/ \E c \in Clients : ClientStep(c)

Spec == Init /\ [][Next]_vars

\* The server runs and so does a client that reads; nothing makes a user type.
FairSpec ==
  /\ Spec
  /\ WF_vars(ServerStep)
  /\ \A c \in Clients : WF_vars(ReadPackage(c) \/ ReadFails(c))

-----------------------------------------------------------------------------
(* Properties.                                                             *)

Line == UNION {0 .. MaxCmds[c] : c \in Clients}
PieceType == [of : Line, line : 0 .. MaxLines, head : BOOLEAN, end : BOOLEAN, text : BOOLEAN]

\* The variables keep their types, and the server has a client exactly while it
\* reads or runs a command of one.
TypeOK ==
  /\ faults \in FaultSets
  /\ queue \in Seq(Clients)
  /\ \A c \in Clients :
       /\ client[c].pc \in {"start", "prompt", "read", "over"} /\ client[c].sock \in Sock
       /\ client[c].asked \in 0 .. MaxCmds[c]
       /\ up[c] \in Seq(Line)
       /\ \A q \in {client[c].shown, printed[c], down[c]} : q \in Seq(PieceType)
  /\ server.pc \in {"accept", "read", "run", "killed", "stopped"} /\ server.sock \in Sock
  /\ server.serving \in Clients \cup {None} /\ server.cmd \in Seq(Line)
  /\ (server.serving # None) <=> (server.pc \in {"read", "run"})
  /\ (server.cmd # << >>) <=> (server.pc = "run")

\* c left without waiting for its answer, or took part of a package for a whole.
OutOfStep(c) == client[c].cut \/ ~client[c].whole

\* What a client shows is the beginning of what its command printed, and all of it
\* if a last package brought it back to the prompt - unless a read ended inside a
\* package (client.c 65 takes what it gets for a package).
InStep ==
  \A c \in Clients :
    /\ ~client[c].whole => "short" \in faults
    /\ client[c].whole /\ client[c].pc \in {"prompt", "read"} =>
         /\ IsPrefix(client[c].shown, printed[c])
         /\ client[c].answered => client[c].shown = printed[c]

\* The server runs the lines that were typed: two of them, or one and an "exit", are
\* run as one only for a client that went on without its answer (server.c 36-43:
\* a read is a command).
RunsTyped == Len(server.cmd) > 1 \/ server.cmd = <<Exit>> => OutOfStep(server.serving)

\* A client costs the others the server only if it leaves before the end of its answer,
\* with ^C or because it took that for an earlier end (executer.c 40, 52: SIGPIPE).
ServerDownExplained == server.pc = "killed" => \E c \in Clients : OutOfStep(c)

\* Why the answer to c may never come: c asked nothing, is out of step, or waits for
\* another client to leave.
Excused(c) == client[c].empty \/ OutOfStep(c) \/ server.serving \notin {c, None}

\* Whoever asks gets an answer, or the end of the server, unless it is excused from
\* some time on (client.c 65, server.c 36: both read without a timeout).
Prompted ==
  \A c \in Clients : []<>(client[c].pc # "read") \/ <>[]Excused(c)
=============================================================================
