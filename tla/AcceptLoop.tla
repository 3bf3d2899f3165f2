----------------------------- MODULE AcceptLoop -----------------------------
(***************************************************************************)
(* The main loop of the chat server (pro/src/server.c) and of the proxy    *)
(* (hw5/proxy.c): accept into a local variable of main, and a thread that  *)
(* is given the address of that variable.  The thread may read it after    *)
(* the next accept has set it again.                                       *)
(*                                                                         *)
(* A thread is named after the connection it is created for, whichever     *)
(* descriptor it goes on to serve.  What requests do is in ChatRoom and in *)
(* ProxyConnection, as are writes that fail; here they take descriptors.   *)
(***************************************************************************)
EXTENDS Integers, FiniteSets

CONSTANTS Clients,  \* those who may connect, once each
          Askers,   \* those of them who send requests
          NoClient, \* of descriptors that are no client's
          Limit,    \* bound on the descriptors beside those open from the start
          Processes \* the programs to look at, and how many of them each may have

Program == {"chat", "proxy"}

ASSUME NoClientAssumption == NoClient \notin Clients
ASSUME AskersAssumption   == Askers \subseteq Clients
ASSUME LimitAssumption    == Limit \in Nat \ {0}
ASSUME ProcessesAssumption == Processes \subseteq [program : Program, limit : Nat]

VARIABLES
  program,   \* which of the two runs
  client,    \* client[c]: what the client is at; "quit": it has sent /quit and left,
             \* "gone": and that has been read
  asking,    \* clients with a request that nobody has read
  main,      \* where main is, "failed" when failHandler has ended the process
  server_fd, \* the variable the threads are given the address of
  fds,       \* what each descriptor stands for
  at,        \* at[c]: where the thread created for c is
  fd,        \* its copy of server_fd, 0 for -1
  host,      \* its host_sock, 0 if there is none
  on,        \* the connection it reads from, or handles a request of
  overtaken, \* history: clients whose thread had not read server_fd when it was set again
  crossed    \* history: a request was answered to somebody else

clients == <<client, asking>>
thread  == <<at, fd, host, on>>
loopVars == <<program, clients, main, server_fd, fds, thread, overtaken, crossed>>

Fds      == 1 .. Limit
Free     == <<NoClient, "free">>
Reserved == <<NoClient, "reserved">> \* by an accept that has not returned
Beyond   == <<NoClient, "beyond">>   \* the limit of the process
Of(c)    == <<c, "client">>
HostOf(c) == <<c, "host">>
Connections == Clients \X {"client", "host"}

LoopInit ==
  /\ \E p \in Processes : /\ program = p.program
                         /\ fds = [n \in Fds |-> IF n <= p.limit THEN Free ELSE Beyond]
  /\ client = [c \in Clients |-> "away"] /\ asking = {}
  /\ main = "call"
  /\ server_fd = 0
  /\ at = [c \in Clients |-> "none"]
  /\ fd = [c \in Clients |-> 0] /\ host = [c \in Clients |-> 0]
  /\ on = [c \in Clients |-> Free]
  /\ overtaken = {} /\ crossed = FALSE

-----------------------------------------------------------------------------
Running == main # "failed"
Full == \A n \in Fds : fds[n] # Free
Lowest(n) == fds[n] = Free /\ \A m \in 1 .. n - 1 : fds[m] # Free
StandsFor(n) == IF n \in Fds THEN fds[n] ELSE Free

(* Main.                                                                   *)

\* server_fd is set again, whoever has not read it.
Overtake == overtaken' = overtaken \cup {c \in Clients : at[c] = "created"}

\* Mutant: main handles a connection itself, as the line commented out does.
CallAcceptSerial ==
  /\ main = "call" /\ \A c \in Clients : at[c] \in {"none", "ended"}
  /\ \E n \in Fds : Lowest(n) /\ fds' = [fds EXCEPT ![n] = Reserved]
  /\ main' = "accept"
  /\ UNCHANGED <<program, clients, server_fd, thread, overtaken, crossed>>

\* accept takes a descriptor before it waits.  Without one the chat server fails
\* and the proxy tries again.
CallAccept ==
  /\ main = "call"
  /\ \/ \E n \in Fds : /\ Lowest(n) /\ fds' = [fds EXCEPT ![n] = Reserved]
                       /\ main' = "accept"
                       /\ UNCHANGED <<server_fd, overtaken>>
     \/ /\ Full /\ program = "chat" /\ main' = "failed"
        /\ UNCHANGED <<fds, server_fd, overtaken>>
     \/ /\ Full /\ program = "proxy" /\ server_fd' = 0 /\ Overtake
        /\ UNCHANGED <<main, fds>>
  /\ UNCHANGED <<program, clients, thread, crossed>>

\* Clients in the queue are taken in any order.
Waiting(c) == client[c] # "away" /\ at[c] = "none"
Accept(c) ==
  /\ main = "accept" /\ Waiting(c)
  /\ \E n \in Fds : /\ fds[n] = Reserved
                    /\ fds' = [fds EXCEPT ![n] = Of(c)]
                    /\ server_fd' = n
  /\ Overtake
  /\ at' = [at EXCEPT ![c] = "created"]
  /\ main' = "call"
  /\ UNCHANGED <<program, clients, fd, host, on, crossed>>

-----------------------------------------------------------------------------
(* The thread created for c.                                               *)

At(c, point) == Running /\ at[c] = point
Go(c, point) == at' = [at EXCEPT ![c] = point]
Keep == UNCHANGED <<program, server_fd, overtaken>>

\* The proxy asks for the peer's address, and fails if there is no connection.
Load(c) ==
  /\ At(c, "created")
  /\ fd' = [fd EXCEPT ![c] = server_fd]
  /\ main' = IF program = "proxy" /\ StandsFor(server_fd) \notin Connections THEN "failed" ELSE main
  /\ Go(c, "read")
  /\ Keep /\ UNCHANGED <<clients, fds, host, on, crossed>>

\* The thread is gone, and its variables with it.
End(c) == /\ Go(c, "ended")
          /\ fd' = [fd EXCEPT ![c] = 0] /\ host' = [host EXCEPT ![c] = 0]
          /\ on' = [on EXCEPT ![c] = Free]

\* Mutant: the proxy, like the chat server, goes without close.
LeaveOpen(c) == End(c)

\* The loop is over.  Only the proxy closes.
Leave(c) == IF program = "chat" THEN End(c)
            ELSE /\ Go(c, "close") /\ on' = [on EXCEPT ![c] = Free]
                 /\ UNCHANGED <<fd, host>>

\* read is called, on whatever the descriptor now stands for.
CallRead(c) ==
  /\ At(c, "read")
  /\ IF StandsFor(fd[c]) \in Connections
     THEN on' = [on EXCEPT ![c] = fds[fd[c]]] /\ Go(c, "blocked") /\ UNCHANGED <<fd, host>>
     ELSE Leave(c)
  /\ Keep /\ UNCHANGED <<clients, main, fds, crossed>>

ReadRequest(c) ==
  /\ At(c, "blocked")
  /\ on[c][2] = "client" => on[c][1] \in asking
  /\ asking' = IF on[c][2] = "client" THEN asking \ {on[c][1]} ELSE asking
  /\ Go(c, "handle")
  /\ Keep /\ UNCHANGED <<client, main, fds, fd, host, on, crossed>>

ReadQuit(c) ==
  /\ At(c, "blocked")
  /\ on[c][2] = "client" /\ on[c][1] \notin asking /\ client[on[c][1]] = "quit"
  /\ client' = [client EXCEPT ![on[c][1]] = "gone"]
  /\ Go(c, "close") /\ on' = [on EXCEPT ![c] = Free]
  /\ Keep /\ UNCHANGED <<asking, main, fds, fd, host, crossed>>

\* The proxy does not wait for ever; a host may end at any time.
Ended(c) == /\ on[c][1] \notin asking
            /\ program = "chat" => client[on[c][1]] \in {"left", "gone"}
ReadEnd(c) ==
  /\ At(c, "blocked")
  /\ on[c][2] = "client" => Ended(c)
  /\ Leave(c)
  /\ Keep /\ UNCHANGED <<clients, main, fds, crossed>>

\* The proxy connects to the host of the first request it forwards.
OpenHost(c) ==
  /\ At(c, "handle") /\ program = "proxy" /\ host[c] = 0
  /\ \/ \E n \in Fds : /\ Lowest(n)
                       /\ fds' = [fds EXCEPT ![n] = HostOf(c)]
                       /\ host' = [host EXCEPT ![c] = n]
                       /\ UNCHANGED main
     \/ Full /\ main' = "failed" /\ UNCHANGED <<fds, host>>
  /\ Keep /\ UNCHANGED <<clients, at, fd, on, crossed>>

\* The log of the proxy takes a descriptor for a moment.  The loop goes on, or
\* is left: a name in use, a request to close.
Handle(c) ==
  /\ At(c, "handle")
  /\ IF program = "proxy" /\ Full
     THEN main' = "failed" /\ UNCHANGED <<at, on, crossed>>
     ELSE /\ crossed' = (crossed \/ on[c][2] # "client" \/ StandsFor(fd[c]) # on[c])
          /\ Go(c, "read") \/ Go(c, "close")
          /\ on' = [on EXCEPT ![c] = Free]
          /\ UNCHANGED main
  /\ Keep /\ UNCHANGED <<clients, fds, fd, host>>

\* Mutant: closed where the loop is left and once more at its end.
CloseAgain(c) ==
  /\ At(c, "close")
  /\ fds' = [n \in Fds |-> IF n \in {fd[c], host[c]} /\ fds[n] \in Connections
                           THEN Free ELSE fds[n]]
  /\ End(c) \/ UNCHANGED thread
  /\ Keep /\ UNCHANGED <<clients, main, crossed>>

\* Both descriptors, if there is something they stand for.
Close(c) ==
  /\ At(c, "close")
  /\ fds' = [n \in Fds |-> IF n \in {fd[c], host[c]} /\ fds[n] \in Connections
                           THEN Free ELSE fds[n]]
  /\ End(c)
  /\ Keep /\ UNCHANGED <<clients, main, crossed>>

-----------------------------------------------------------------------------
(* The clients.                                                            *)

Moves(c, before, after) ==
  /\ Running
  /\ client[c] = before /\ client' = [client EXCEPT ![c] = after]
  /\ UNCHANGED <<program, asking, main, server_fd, fds, thread, overtaken, crossed>>

Dial(c) == Moves(c, "away", "here")
Quit(c) == program = "chat" /\ Moves(c, "here", "quit")
Left(c) == Moves(c, "here", "left")
Ask(c)  == /\ Running /\ c \in Askers
           /\ client[c] = "here" /\ asking' = asking \cup {c}
           /\ UNCHANGED <<program, client, main, server_fd, fds, thread, overtaken, crossed>>

Step(c) == \/ Load(c) \/ CallRead(c) \/ ReadRequest(c) \/ ReadQuit(c) \/ ReadEnd(c)
           \/ OpenHost(c) \/ Handle(c) \/ Close(c)
Behave(c) == Dial(c) \/ Quit(c) \/ Left(c) \/ Ask(c)

LoopNext == \/ CallAccept
            \/ \E c \in Clients : Accept(c) \/ Step(c) \/ Behave(c)

LoopSpec == LoopInit /\ [][LoopNext]_loopVars

\* Threads are scheduled and accept returns.
LoopFairSpec == /\ LoopSpec
                /\ WF_loopVars(CallAccept)
                /\ \A c \in Clients : WF_loopVars(Accept(c)) /\ WF_loopVars(Step(c))

-----------------------------------------------------------------------------
Loaded == {"read", "blocked", "handle", "close"}

LoopTypes ==
  /\ program \in Program
  /\ client \in [Clients -> {"away", "here", "quit", "gone", "left"}]
  /\ asking \subseteq Clients
  /\ main \in {"call", "accept", "failed"}
  /\ server_fd \in 0 .. Limit
  /\ fds \in [Fds -> {Free, Reserved, Beyond} \cup Connections]
  /\ at \in [Clients -> {"none", "created", "ended"} \cup Loaded]
  /\ fd \in [Clients -> 0 .. Limit] /\ host \in [Clients -> 0 .. Limit]
  /\ on \in [Clients -> {Free} \cup Connections]
  /\ overtaken \subseteq Clients
  /\ crossed \in BOOLEAN

\* As long as no thread is overtaken each has the connection it was created for,
\* from its first read to its close: nobody else closes it, or the one socket it
\* has to a host, and no descriptor comes to stand for another client meanwhile.
\* And no client is told what another asked.
OwnConnection ==
  overtaken = {} =>
    /\ \A c \in Clients : at[c] \in Loaded =>
         /\ StandsFor(fd[c]) = Of(c)
         /\ host[c] # 0 => StandsFor(host[c]) = HostOf(c)
    /\ ~crossed

\* What keeps a descriptor in use, overtaken threads or not: a thread that has
\* it, or, in the chat server, a client that went without /quit, whose descriptor
\* is never closed; or the client is one whose thread was overtaken.
Held(n) ==
  \/ fds[n] \in {Free, Reserved, Beyond}
  \/ \E c \in Clients : at[c] \in Loaded /\ n \in {fd[c], host[c]}
  \/ \E c \in Clients : fds[n] = Of(c) /\ at[c] = "created" /\ server_fd = n
  \/ \E c \in Clients : fds[n] = Of(c) /\ program = "chat" /\ client[c] = "left"
  \/ \E c \in overtaken : fds[n] = Of(c)
LeaksExplained == \A n \in Fds : Held(n)

\* What a client asks is read in the end, however long it waited for a descriptor
\* to be free, unless its connection is over, a thread was overtaken, or all
\* descriptors were in use when the process needed one, and that ended it.
Heard ==
  \A c \in Askers :
    c \in asking ~> \/ c \notin asking \/ at[c] = "ended"
                    \/ (~Running /\ Full) \/ overtaken # {}
=============================================================================
