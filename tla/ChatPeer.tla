----------------------------- MODULE ChatPeer ------------------------------
(***************************************************************************)
(* The threads of one chat client (pro/src/client.c): main in              *)
(* process_input, the handler of ^C that interrupts it, a listen thread    *)
(* for each /wait and a receive thread for each talk.  They share my_state,*)
(* l_fd and talk_fd without a lock, so every access that another thread    *)
(* can come between is a step.  The server answers requests in order; the  *)
(* peers call, write and leave.                                            *)
(*                                                                         *)
(* A descriptor is a number, and the lowest free one is taken; a socket    *)
(* lives on while a thread is blocked on it.                               *)
(***************************************************************************)
EXTENDS Integers, Sequences, FiniteSets, SequencesExt

CONSTANTS MaxInputs, \* bound on the commands and ^C of the user
          MaxComing, \* bound on the calls and messages of peers
          TroubleSets \* the sets of troubles to look at

\* The user types before the threads are done with the last input; a call comes
\* while ^C is handled; an answer comes after the 180 s for which main reads.
Trouble == {"hasty", "crossing", "late"}

ASSUME BoundsAssumption      == MaxInputs \in Nat /\ MaxComing \in Nat
ASSUME TroubleSetsAssumption == TroubleSets \subseteq SUBSET Trouble

VARIABLES
  troubles, \* what may go wrong in this behaviour
  my_state, \* the mode
  l_fd, talk_fd, listen_fd,
  fds,      \* fds[n]: the socket that descriptor n is for, 0 if it is free
  sock,     \* the state of each socket, in order of creation
  calls,    \* calls[s]: connections nobody has accepted yet at socket s
  main,     \* where process_input is
  int,      \* where INThandler is
  listener, \* the listen threads, each with the socket it is blocked on
  receiver, \* the receive threads
  asked,    \* requests the server has not answered yet
  answers,  \* answers main has not read yet
  inputs,   \* commands the user may still type
  coming    \* calls and messages of peers that may still come

state == <<my_state, l_fd, talk_fd, listen_fd>>
files == <<fds, sock, calls>>
threads == <<listener, receiver>>
bounds == <<troubles, inputs, coming>>
peerVars == <<state, files, main, int, threads, asked, answers, bounds>>

PeerInit ==
  /\ troubles \in TroubleSets
  /\ my_state = "NORMAL" /\ l_fd = 0 /\ talk_fd = 0 /\ listen_fd = 0
  /\ fds = << >> /\ sock = << >> /\ calls = << >>
  /\ main = "prompt" /\ int = "none"
  /\ listener = << >> /\ receiver = << >>
  /\ asked = << >> /\ answers = << >>
  /\ inputs = MaxInputs /\ coming = MaxComing

-----------------------------------------------------------------------------
(* Sockets.                                                                *)

\* The socket a descriptor stands for; 0 for one that is closed, or no socket.
Socket(fd) == IF fd \in DOMAIN fds THEN fds[fd] ELSE 0
StateOf(s) == IF s = 0 THEN "none" ELSE sock[s]

FreeFd == CHOOSE n \in 1 .. Len(fds) + 1 :
            /\ \A m \in 1 .. n - 1 : fds[m] # 0
            /\ n \in DOMAIN fds => fds[n] = 0

\* A new socket in state st, with the descriptor FreeFd; what it says of the
\* sockets there are is cs.
Create(st, cs) ==
  /\ sock' = Append(sock, st)
  /\ calls' = Append(cs, 0)
  /\ fds' = IF FreeFd \in DOMAIN fds THEN [fds EXCEPT ![FreeFd] = Len(sock) + 1]
                                     ELSE Append(fds, Len(sock) + 1)

\* shutdown: pending connections are reset, reads and accepts return.
Shut(s) == /\ sock'  = IF s = 0 THEN sock  ELSE [sock EXCEPT ![s] = "shut"]
           /\ calls' = IF s = 0 THEN calls ELSE [calls EXCEPT ![s] = 0]

-----------------------------------------------------------------------------
(* The listen threads.                                                     *)

Running == main \notin {"quit", "failed", "killed"}
Thread(ls, i, pc) == Running /\ i \in DOMAIN ls /\ ls[i].pc = pc
ListenAt(i, pc, s) == listener' = [listener EXCEPT ![i] = [pc |-> pc, on |-> s]]

\* select fails on a descriptor that is closed: failHandler.
ListenTest(i) ==
  /\ Thread(listener, i, "test")
  /\ IF my_state = "NORMAL" THEN ListenAt(i, "done", 0) /\ UNCHANGED main
     ELSE /\ ListenAt(i, "select", Socket(l_fd))
          /\ main' = IF Socket(l_fd) = 0 THEN "failed" ELSE main
  /\ UNCHANGED <<state, files, int, receiver, asked, answers, bounds>>

Readable(s) == calls[s] > 0 \/ sock[s] # "listen"
ListenSelect(i) ==
  /\ Thread(listener, i, "select") /\ Readable(listener[i].on)
  /\ ListenAt(i, "accept", 0)
  /\ UNCHANGED <<state, files, main, int, receiver, asked, answers, bounds>>

\* accept takes l_fd as it is now, which may be another socket than select
\* looked at, and blocks if nobody calls there.
Take(s) == /\ Create("talk", [calls EXCEPT ![s] = @ - 1])
           /\ talk_fd' = FreeFd
ListenAccept(i) ==
  /\ Thread(listener, i, "accept")
  /\ LET s == Socket(l_fd)
     IN  \/ /\ StateOf(s) = "listen" /\ calls[s] = 0
            /\ ListenAt(i, "blocked", s) /\ UNCHANGED <<talk_fd, files>>
         \/ /\ StateOf(s) = "listen" /\ calls[s] > 0
            /\ Take(s) /\ ListenAt(i, "talk", 0)
         \/ /\ StateOf(s) # "listen"
            /\ talk_fd' = -1 /\ ListenAt(i, "talk", 0) /\ UNCHANGED files
  /\ UNCHANGED <<my_state, l_fd, listen_fd, main, int, receiver, asked, answers, bounds>>

ListenBlocked(i) ==
  /\ Thread(listener, i, "blocked") /\ Readable(listener[i].on)
  /\ IF sock[listener[i].on] = "listen"
     THEN Take(listener[i].on)
     ELSE talk_fd' = -1 /\ UNCHANGED files
  /\ ListenAt(i, "talk", 0)
  /\ UNCHANGED <<my_state, l_fd, listen_fd, main, int, receiver, asked, answers, bounds>>

create_receive_thread ==
  /\ my_state' = "TALKING"
  /\ receiver' = Append(receiver, [pc |-> "load", on |-> 0])

\* The talk begins, even if accept failed.
ListenTalk(i) ==
  /\ Thread(listener, i, "talk")
  /\ create_receive_thread
  /\ ListenAt(i, "close", 0)
  /\ UNCHANGED <<l_fd, talk_fd, listen_fd, files, main, int, asked, answers, bounds>>

\* Mutant: the listening socket is left open.
ListenCloseNot(i) ==
  /\ Thread(listener, i, "close")
  /\ ListenAt(i, "done", 0)
  /\ UNCHANGED <<state, files, main, int, receiver, asked, answers, bounds>>

\* close of l_fd as it is now.
ListenClose(i) ==
  /\ Thread(listener, i, "close")
  /\ LET s == Socket(l_fd)
         kept == \E k \in DOMAIN listener :
                   listener[k].pc \in {"select", "blocked"} /\ listener[k].on = s
     IN  IF s = 0 THEN UNCHANGED files
         ELSE /\ fds' = [fds EXCEPT ![l_fd] = 0]
              /\ IF kept THEN UNCHANGED <<sock, calls>> ELSE Shut(s)
  /\ ListenAt(i, "done", 0)
  /\ UNCHANGED <<state, main, int, receiver, asked, answers, bounds>>

-----------------------------------------------------------------------------
(* The receive threads.                                                    *)

ReceiveAt(i, pc, s) == receiver' = [receiver EXCEPT ![i] = [pc |-> pc, on |-> s]]

\* read is called with talk_fd as it is now.
ReceiveLoad(i) ==
  /\ Thread(receiver, i, "load")
  /\ ReceiveAt(i, "read", Socket(talk_fd))
  /\ UNCHANGED <<state, files, main, int, listener, asked, answers, bounds>>

\* A message of the peer is printed, and read is called again.
ReceiveMessage(i) ==
  /\ Thread(receiver, i, "read") /\ StateOf(receiver[i].on) = "talk"
  /\ coming > 0 /\ coming' = coming - 1
  /\ ReceiveAt(i, "load", 0)
  /\ UNCHANGED <<state, files, main, int, listener, asked, answers, troubles, inputs>>

\* Mutant: only 0 ends the thread, -1 does not.
ReceiveEndZero(i) ==
  /\ Thread(receiver, i, "read") /\ StateOf(receiver[i].on) # "talk"
  /\ ReceiveAt(i, IF receiver[i].on = 0 THEN "load" ELSE "end", 0)
  /\ UNCHANGED <<state, files, main, int, listener, asked, answers, bounds>>

\* read returns 0 or -1: the peer left, ^C, or no connection.
ReceiveEnd(i) ==
  /\ Thread(receiver, i, "read") /\ StateOf(receiver[i].on) # "talk"
  /\ ReceiveAt(i, "end", 0)
  /\ UNCHANGED <<state, files, main, int, listener, asked, answers, bounds>>

\* Mutant: the mode is left as it is.
ReceiveNormalNot(i) ==
  /\ Thread(receiver, i, "end")
  /\ ReceiveAt(i, "done", 0)
  /\ UNCHANGED <<state, files, main, int, listener, asked, answers, bounds>>

ReceiveNormal(i) ==
  /\ Thread(receiver, i, "end")
  /\ my_state' = "NORMAL"
  /\ ReceiveAt(i, "done", 0)
  /\ UNCHANGED <<l_fd, talk_fd, listen_fd, files, main, int, listener, asked, answers, bounds>>

-----------------------------------------------------------------------------
(* Main and the handler of ^C.                                             *)

\* No thread can go on by itself.
Resting(l) == l.pc = "done" \/ (l.pc \in {"select", "blocked"} /\ ~Readable(l.on))
Settled == /\ main = "prompt" /\ int = "none"
           /\ \A i \in DOMAIN listener : Resting(listener[i])
           /\ \A i \in DOMAIN receiver :
                \/ receiver[i].pc = "done"
                \/ receiver[i].pc = "read" /\ StateOf(receiver[i].on) = "talk"

Inputs == /\ inputs > 0 /\ inputs' = inputs - 1 /\ UNCHANGED <<troubles, coming>>
          /\ "hasty" \in troubles \/ Settled
At(m) == Running /\ int = "none" /\ main = m

\* A command that should_command_work_with_state lets through, or a text.
Enter(m, modes) == /\ At("prompt") /\ Inputs
                  /\ my_state \in modes /\ main' = m

TypeWait == Enter("wait", {"NORMAL"}) /\ UNCHANGED <<state, files, int, threads, asked, answers>>
TypeText == Enter("say", {"TALKING"}) /\ UNCHANGED <<state, files, int, threads, asked, answers>>
TypeQuit == /\ Enter("quit", {"NORMAL", "WAITING", "TALKING"})
            /\ UNCHANGED <<state, files, int, threads, asked, answers>>

\* Mutant: a request is written again.
TypeRequestTwice(r) == /\ Enter(r, {"NORMAL"})
                       /\ asked' = asked \o <<r, r>>
                       /\ UNCHANGED <<state, files, int, threads, answers>>

TypeRequest(r) == /\ Enter(r, {"NORMAL"})
                  /\ asked' = Append(asked, r)
                  /\ UNCHANGED <<state, files, int, threads, answers>>

\* wait_pre_process.
WaitMode ==
  /\ At("wait")
  /\ my_state' = "WAITING" /\ main' = "socket"
  /\ UNCHANGED <<l_fd, talk_fd, listen_fd, files, int, threads, asked, answers, bounds>>

WaitSocket ==
  /\ At("socket")
  /\ Create("listen", calls) /\ listen_fd' = FreeFd
  /\ main' = "thread"
  /\ UNCHANGED <<my_state, l_fd, talk_fd, int, threads, asked, answers, bounds>>

WaitThread ==
  /\ At("thread")
  /\ l_fd' = listen_fd
  /\ listener' = Append(listener, [pc |-> "test", on |-> 0])
  /\ main' = "prompt"
  /\ UNCHANGED <<my_state, talk_fd, listen_fd, files, int, receiver, asked, answers, bounds>>

\* An answer that a list is not read on for: "c::" ends a list, and what is no
\* answer to connect has no port to convert, which kills the process.
ReadAnswer ==
  /\ (At("connect") \/ At("list")) /\ answers # << >>
  /\ answers' = Tail(answers)
  /\ main' = CASE Head(answers) = "nobody" -> "prompt"
               [] Head(answers) = "peer"   -> IF main = "connect" THEN "dial" ELSE "list"
               [] Head(answers) = "list"   -> IF main = "connect" THEN "killed" ELSE "prompt"
  /\ UNCHANGED <<state, files, int, threads, asked, bounds>>

\* The receive timeout: main goes on as if there was nothing to read.
GiveUp ==
  /\ "late" \in troubles /\ (At("connect") \/ At("list")) /\ answers = << >>
  /\ main' = "prompt"
  /\ UNCHANGED <<state, files, int, threads, asked, answers, bounds>>

\* __connect_peer__; failHandler if the peer does not listen any more.
ConnectPeer ==
  /\ At("dial")
  /\ Create("dialing", calls) /\ talk_fd' = FreeFd
  /\ main' = "dialing"
  /\ UNCHANGED <<my_state, l_fd, listen_fd, int, threads, asked, answers, bounds>>

\* A talk_fd that a listen thread has set since makes connect fail, or comes too
\* late for it.
Dialed ==
  /\ At("dialing")
  /\ \/ /\ Contains(sock, "dialing")
        /\ sock' = [s \in DOMAIN sock |-> IF sock[s] = "dialing" THEN "talk" ELSE sock[s]]
        /\ create_receive_thread
        /\ main' = "prompt"
     \/ main' = "failed" /\ UNCHANGED <<sock, my_state, receiver>>
  /\ UNCHANGED <<l_fd, talk_fd, listen_fd, fds, calls, int, listener, asked, answers, bounds>>

\* write: a peer that left answers the first with a reset; after that, or after
\* shutdown, the next raises SIGPIPE.
Say ==
  /\ At("say")
  /\ LET s == Socket(talk_fd)
     IN  /\ main' = IF StateOf(s) \in {"reset", "shut"} THEN "killed" ELSE "prompt"
         /\ sock' = IF StateOf(s) = "left" THEN [sock EXCEPT ![s] = "reset"] ELSE sock
  /\ UNCHANGED <<state, fds, calls, int, threads, asked, answers, bounds>>

\* ^C: main stands still until the handler is through, and a read that blocks
\* returns with EINTR, as the socket has a receive timeout.
Interrupt ==
  /\ Running /\ int = "none" /\ Inputs
  /\ int' = "talking"
  /\ main' = IF main \in {"connect", "list"} /\ answers = << >> THEN "prompt" ELSE main
  /\ UNCHANGED <<state, files, threads, asked, answers>>

IntTalking ==
  /\ Running /\ int = "talking"
  /\ IF my_state = "TALKING" THEN Shut(Socket(talk_fd)) ELSE UNCHANGED <<sock, calls>>
  /\ int' = "waiting"
  /\ UNCHANGED <<state, fds, main, threads, asked, answers, bounds>>

IntWaiting ==
  /\ Running /\ int = "waiting"
  /\ IF my_state = "WAITING" THEN Shut(Socket(l_fd)) ELSE UNCHANGED <<sock, calls>>
  /\ int' = "normal"
  /\ UNCHANGED <<state, fds, main, threads, asked, answers, bounds>>

IntNormal ==
  /\ Running /\ int = "normal"
  /\ my_state' = "NORMAL" /\ int' = "none"
  /\ UNCHANGED <<l_fd, talk_fd, listen_fd, files, main, threads, asked, answers, bounds>>

-----------------------------------------------------------------------------
(* The server and the peers.                                               *)

ServerAnswers ==
  /\ Running /\ asked # << >>
  /\ asked' = Tail(asked)
  /\ \E a \in IF Head(asked) = "list" THEN {"list"} ELSE {"nobody", "peer"} :
       answers' = Append(answers, a)
  /\ UNCHANGED <<state, files, main, int, threads, bounds>>

\* listen(.., 1): the queue holds two.
Call(s) ==
  /\ Running /\ coming > 0 /\ sock[s] = "listen" /\ calls[s] < 2
  /\ int = "none" \/ "crossing" \in troubles
  /\ calls' = [calls EXCEPT ![s] = @ + 1] /\ coming' = coming - 1
  /\ UNCHANGED <<state, fds, sock, main, int, threads, asked, answers, troubles, inputs>>

PeerLeaves(s) ==
  /\ Running /\ sock[s] = "talk"
  /\ sock' = [sock EXCEPT ![s] = "left"]
  /\ UNCHANGED <<state, fds, calls, main, int, threads, asked, answers, bounds>>

\* What is left to do is up to the user and the peers.
Pause == (Settled \/ ~Running) /\ UNCHANGED peerVars

Listen(i) == \/ ListenTest(i) \/ ListenSelect(i) \/ ListenAccept(i) \/ ListenBlocked(i)
             \/ ListenTalk(i) \/ ListenClose(i)
Receive(i) == ReceiveLoad(i) \/ ReceiveEnd(i) \/ ReceiveNormal(i)
Main == \/ WaitMode \/ WaitSocket \/ WaitThread \/ ReadAnswer \/ GiveUp
        \/ ConnectPeer \/ Dialed \/ Say \/ IntTalking \/ IntWaiting \/ IntNormal
User == \/ TypeWait \/ TypeText \/ TypeQuit \/ Interrupt
        \/ \E r \in {"connect", "list"} : TypeRequest(r)
Peers == \/ \E s \in DOMAIN sock : Call(s) \/ PeerLeaves(s)
         \/ \E i \in DOMAIN receiver : ReceiveMessage(i)

PeerNext == \/ User \/ Main \/ ServerAnswers \/ Peers \/ Pause
            \/ \E i \in DOMAIN listener : Listen(i)
            \/ \E i \in DOMAIN receiver : Receive(i)

PeerSpec == PeerInit /\ [][PeerNext]_peerVars

\* Threads are scheduled and the server answers.
PeerFairSpec ==
  /\ PeerSpec /\ WF_peerVars(Main) /\ WF_peerVars(ServerAnswers)
  /\ \A i \in 1 .. MaxInputs : WF_peerVars(Listen(i))
  /\ \A i \in 1 .. MaxInputs : WF_peerVars(Receive(i))

-----------------------------------------------------------------------------
PeerTypes ==
  /\ troubles \subseteq Trouble
  /\ my_state \in {"NORMAL", "WAITING", "TALKING"}
  /\ l_fd \in 0 .. Len(fds) /\ listen_fd \in 0 .. Len(fds) /\ talk_fd \in -1 .. Len(fds)
  /\ fds \in Seq(0 .. Len(sock))
  /\ sock \in Seq({"listen", "talk", "dialing", "left", "reset", "shut"})
  /\ calls \in Seq(0 .. 2) /\ Len(calls) = Len(sock)
  /\ main \in {"prompt", "wait", "socket", "thread", "connect", "list", "dial", "dialing",
               "say", "quit", "failed", "killed"}
  /\ int \in {"none", "talking", "waiting", "normal"}
  /\ listener \in Seq([pc : {"test", "select", "accept", "blocked", "talk", "close", "done"},
                        on : 0 .. Len(sock)])
  /\ receiver \in Seq([pc : {"load", "read", "end", "done"}, on : 0 .. Len(sock)])
  /\ asked \in Seq({"connect", "list"}) /\ answers \in Seq({"nobody", "peer", "list"})
  /\ inputs \in 0 .. MaxInputs /\ coming \in 0 .. MaxComing

Live(l) == {i \in DOMAIN l : l[i].pc # "done"}

\* When nothing is left to do the mode is what the threads are at: WAITING with
\* one thread at the socket where the peers call, TALKING with one thread at the
\* socket the user writes to, NORMAL with neither; and no socket is open where
\* nobody would answer.  It takes a user who waits for the prompt and no call
\* while ^C is handled, but neither peers that leave at any time nor late answers
\* matter.
Agrees ==
  /\ my_state = "WAITING" =>
       /\ Live(receiver) = {}
       /\ \E i \in DOMAIN listener : Live(listener) = {i} /\ listener[i].on = Socket(l_fd)
  /\ my_state = "TALKING" =>
       /\ Live(listener) = {}
       /\ \E i \in DOMAIN receiver : Live(receiver) = {i} /\ receiver[i].on = Socket(talk_fd)
  /\ my_state = "NORMAL" => Live(listener) = {} /\ Live(receiver) = {}
  /\ \A s \in DOMAIN sock : sock[s] = "listen" => \E i \in Live(listener) : listener[i].on = s
ModeAgrees == (troubles \subseteq {"late"} /\ Running /\ Settled) => Agrees

\* Main acts on the answer to its own request, unless it has given up on one or
\* ^C has torn it from its read.
AnswersOwn ==
  (troubles \subseteq {"crossing"} /\ main \in {"connect", "list"} /\ answers # << >>) =>
    /\ asked = << >> /\ Len(answers) = 1
    /\ main = "list" <=> Head(answers) = "list"

\* The process is not killed by a signal: no write to a socket it has shut down,
\* or twice to a peer that left, and no answer without a port, while the user
\* waits for the prompt and answers come in time.
Survives == troubles \subseteq {"crossing"} => main # "killed"

\* Whatever the user and the peers do, the client comes to rest again: no thread
\* of an old talk or wait runs on, or blocks main.
Settles == []<>(Settled \/ ~Running)
=============================================================================
