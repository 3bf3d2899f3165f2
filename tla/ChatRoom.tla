------------------------------ MODULE ChatRoom ------------------------------
(***************************************************************************)
(* The chat server of pro/ (server.c, dynamicarray.c): one handler thread  *)
(* per connection, the list of user names and the list of waiting users    *)
(* they share.  Each critical section of command_response is one step, and *)
(* so is what a handler does without a lock.  The users drive it with the  *)
(* commands that client.c lets them send in each mode; of the talk between *)
(* two users only its beginning and its end are here, and what the threads *)
(* of one client may do to each other is not: a ^C or an accept is one     *)
(* step, and a request waits for its answer however long it takes.         *)
(***************************************************************************)
EXTENDS Naturals, Sequences, FiniteSets, SequencesExt

CONSTANTS Users,    \* connections, one per client process
          Names,    \* user names
          MaxCmds,  \* bound on the commands of a user after it joined
          Scenarios \* what to look at: names, faults and commands per user

\* One read of the server may return several commands, and ^C may strike between
\* /wait and its command.
Fault == {"coalesce", "early break"}

ASSUME UsersAssumption     == IsFiniteSet(Users)
ASSUME MaxCmdsAssumption   == MaxCmds \in Nat
ASSUME ScenariosAssumption ==
  Scenarios \subseteq [names : [Users -> Names], faults : SUBSET Fault,
                       cmds : [Users -> 0 .. MaxCmds], mortal : SUBSET Users]

VARIABLES
  faults,       \* what may go wrong in this behaviour
  mortal,       \* the users whose process may be killed
  my_name,      \* the name each user asks for
  left,         \* number of commands u may still type
  client_names, \* the names in use
  clients,      \* the waiting users, each with the port it listens on
  handler,      \* the handler thread: "read", "add", "remove name", "done"
  inbox,        \* bytes of u on their way to its handler, as commands
  outbox,       \* responses on their way to u
  mode,         \* what the client process of u is at
  port,         \* port[u]: the number of u's last listening socket
  open,         \* the ports of u at which a connection succeeds
  backlog       \* the ports of u with a connection nobody accepted yet

vars == <<faults, mortal, my_name, client_names, clients, handler, inbox, outbox, mode,
          port, open, backlog, left>>
server == <<faults, mortal, my_name, client_names, clients, handler>>

Mode == {"out", "joining", "normal", "preparing", "disturbed", "waiting",
         "listing", "asking", "talking", "quit", "dead"}

Entry == [client : Names, owner : Users, port : 1 .. MaxCmds]

Plain(c)    == [cmd |-> c]
Connect(n)  == [cmd |-> "c", peer |-> n]
WaitOn(p)   == [cmd |-> "w", port |-> p]
Commands == {Plain("a"), Plain("q"), Plain("l"), Plain("r"), Plain("eof")}
              \cup {Connect(n) : n \in Names} \cup {WaitOn(p) : p \in 1 .. MaxCmds}

Answer(a) == [ans |-> a]
Peer(e)   == [ans |-> "peer", entry |-> e]
Answers == {Answer("confirm"), Answer("reject"), Answer("nobody"), Answer("list")}
             \cup {Peer(e) : e \in Entry}

Init ==
  /\ \E s \in Scenarios : /\ faults = s.faults /\ mortal = s.mortal
                         /\ my_name = s.names /\ left = s.cmds
  /\ client_names = << >>
  /\ clients = << >>
  /\ handler = [u \in Users |-> "read"]
  /\ inbox = [u \in Users |-> << >>]
  /\ outbox = [u \in Users |-> << >>]
  /\ mode = [u \in Users |-> "out"]
  /\ port = [u \in Users |-> 0]
  /\ open = [u \in Users |-> {}]
  /\ backlog = [u \in Users |-> {}]

-----------------------------------------------------------------------------
(* The server.                                                             *)

\* dynamicarray.c: the index of the first entry of name n, 0 if there is none.
findItem(n) == LET At == {i \in DOMAIN clients : clients[i].client = n}
               IN  IF At = {} THEN 0 ELSE CHOOSE i \in At : \A k \in At : i <= k

Without(s, i) == IF i = 0 THEN s ELSE RemoveAt(s, i)

\* The last occurrence of name n is the one removed.
removeNameItem(n) ==
  LET At == {i \in DOMAIN client_names : client_names[i] = n}
  IN  Without(client_names,
              IF At = {} THEN 0 ELSE CHOOSE i \in At : \A k \in At : k <= i)

\* Only the first command of what a read returns is looked at: strtok cuts it
\* off and the buffer is cleared.
Read(u, c) ==
  /\ handler[u] = "read" /\ inbox[u] # << >> /\ Head(inbox[u]).cmd = c
  /\ \E n \in 1 .. Len(inbox[u]) :
       /\ n > 1 => /\ "coalesce" \in faults
                   /\ \A i \in 1 .. n : inbox[u][i].cmd # "eof"
       /\ inbox' = [inbox EXCEPT ![u] = SubSeq(@, n + 1, Len(@))]

Respond(u, a) == outbox' = [outbox EXCEPT ![u] = Append(@, a)]
Become(u, h)  == handler' = [handler EXCEPT ![u] = h]
users == <<faults, mortal, my_name, mode, port, open, backlog, left>>

\* hasNameItem is called without the lock.
CheckName(u) ==
  /\ Read(u, "a")
  /\ IF my_name[u] \in Range(client_names)
     THEN Respond(u, Answer("reject")) /\ Become(u, "done")
     ELSE Become(u, "add") /\ UNCHANGED outbox
  /\ UNCHANGED <<client_names, clients, users>>

AddName(u) ==
  /\ handler[u] = "add"
  /\ client_names' = Append(client_names, my_name[u])
  /\ Respond(u, Answer("confirm"))
  /\ Become(u, "read")
  /\ UNCHANGED <<clients, inbox, users>>

\* Quit takes the two locks one after the other.
QuitWaiting(u) ==
  /\ Read(u, "q")
  /\ clients' = Without(clients, findItem(my_name[u]))
  /\ Become(u, "remove name")
  /\ UNCHANGED <<client_names, outbox, users>>

\* Mutant: quit leaves the name list alone.
QuitNameKeeps(u) ==
  /\ handler[u] = "remove name"
  /\ Become(u, "done")
  /\ UNCHANGED <<client_names, clients, inbox, outbox, users>>

QuitName(u) ==
  /\ handler[u] = "remove name"
  /\ client_names' = removeNameItem(my_name[u])
  /\ Become(u, "done")
  /\ UNCHANGED <<clients, inbox, outbox, users>>

\* Mutant: getItem in place of popItem.
ServeConnectKeeps(u) ==
  /\ Read(u, "c")
  /\ LET i == findItem(Head(inbox[u]).peer)
     IN  Respond(u, IF i = 0 THEN Answer("nobody") ELSE Peer(clients[i]))
  /\ UNCHANGED <<server, users>>

\* Mutant: no response if the peer is not there.
ServeConnectSilent(u) ==
  /\ Read(u, "c")
  /\ LET i == findItem(Head(inbox[u]).peer)
     IN  /\ IF i = 0 THEN UNCHANGED outbox ELSE Respond(u, Peer(clients[i]))
         /\ clients' = Without(clients, i)
  /\ UNCHANGED <<client_names, handler, users>>

ServeConnect(u) ==
  /\ Read(u, "c")
  /\ LET i == findItem(Head(inbox[u]).peer)
     IN  /\ Respond(u, IF i = 0 THEN Answer("nobody") ELSE Peer(clients[i]))
         /\ clients' = Without(clients, i)
  /\ UNCHANGED <<client_names, handler, users>>

ServeWait(u) ==
  /\ Read(u, "w")
  /\ clients' = Append(clients, [client |-> my_name[u], owner |-> u,
                                 port |-> Head(inbox[u]).port])
  /\ UNCHANGED <<client_names, handler, outbox, users>>

ServeList(u) ==
  /\ Read(u, "l")
  /\ Respond(u, Answer("list"))
  /\ UNCHANGED <<server, users>>

ServeLeaveWait(u) ==
  /\ Read(u, "r")
  /\ clients' = Without(clients, findItem(my_name[u]))
  /\ UNCHANGED <<client_names, handler, outbox, users>>

\* read returns 0: the thread ends and cleans nothing up.
EndOfStream(u) ==
  /\ Read(u, "eof")
  /\ Become(u, "done")
  /\ UNCHANGED <<client_names, clients, outbox, users>>

Serve(u) ==
  \/ CheckName(u) \/ AddName(u) \/ QuitWaiting(u) \/ QuitName(u)
  \/ ServeConnect(u) \/ ServeWait(u) \/ ServeList(u) \/ ServeLeaveWait(u)
  \/ EndOfStream(u)

-----------------------------------------------------------------------------
(* The clients.                                                            *)

Send(u, c) == inbox' = [inbox EXCEPT ![u] = Append(@, c)]
Goto(u, m) == mode' = [mode EXCEPT ![u] = m]
May(u)     == left[u] > 0 /\ left' = [left EXCEPT ![u] = @ - 1]
Hears(u, a) == /\ outbox[u] # << >> /\ Head(outbox[u]).ans = a
               /\ outbox' = [outbox EXCEPT ![u] = Tail(@)]

\* A user with no commands stays away.
Join(u) ==
  /\ mode[u] = "out" /\ left[u] > 0
  /\ Send(u, Plain("a")) /\ Goto(u, "joining")
  /\ UNCHANGED <<server, outbox, port, open, backlog, left>>

Joined(u) ==
  /\ mode[u] = "joining" /\ Hears(u, "confirm")
  /\ Goto(u, "normal")
  /\ UNCHANGED <<server, inbox, port, open, backlog, left>>

\* The name is taken: failHandler.
Rejected(u) ==
  /\ mode[u] = "joining" /\ Hears(u, "reject")
  /\ Goto(u, "dead") /\ Send(u, Plain("eof"))
  /\ UNCHANGED <<server, port, open, backlog, left>>

\* wait_pre_process: the mode changes and the socket listens.
Prepare(u) ==
  /\ mode[u] = "normal" /\ May(u)
  /\ Goto(u, "preparing")
  /\ port' = [port EXCEPT ![u] = @ + 1]
  /\ open' = [open EXCEPT ![u] = @ \cup {port'[u]}]
  /\ UNCHANGED <<server, inbox, outbox, backlog>>

\* The command of /wait goes out, even if ^C changed the mode meanwhile.
SendWait(u) ==
  /\ mode[u] \in {"preparing", "disturbed"}
  /\ Send(u, WaitOn(port[u]))
  /\ Goto(u, IF mode[u] = "preparing" THEN "waiting" ELSE "normal")
  /\ UNCHANGED <<server, outbox, port, open, backlog, left>>

\* ^C interrupts the main thread anywhere.  While the socket is being set up
\* l_fd may still be an older socket, so that the new one stays open.
Interrupted(u) ==
  \/ /\ mode[u] = "waiting" /\ Goto(u, "normal")
     /\ open' = [open EXCEPT ![u] = @ \ {port[u]}]
  \/ /\ "early break" \in faults /\ mode[u] = "preparing" /\ Goto(u, "disturbed")
     /\ open' \in {open, [open EXCEPT ![u] = @ \ {port[u]}]}

\* Mutant: ^C closes the socket without a command to the server.
BreakWaitSilently(u) ==
  /\ Interrupted(u)
  /\ backlog' = [backlog EXCEPT ![u] = @ \ {port[u]}]
  /\ UNCHANGED <<server, inbox, outbox, port, left>>

BreakWait(u) ==
  /\ Interrupted(u)
  /\ Send(u, Plain("r"))
  /\ backlog' = [backlog EXCEPT ![u] = @ \ {port[u]}]
  /\ UNCHANGED <<server, outbox, port, left>>

List(u) ==
  /\ mode[u] = "normal" /\ May(u)
  /\ Send(u, Plain("l")) /\ Goto(u, "listing")
  /\ UNCHANGED <<server, outbox, port, open, backlog>>

Listed(u) ==
  /\ mode[u] = "listing" /\ Hears(u, "list")
  /\ Goto(u, "normal")
  /\ UNCHANGED <<server, inbox, port, open, backlog, left>>

\* The client refuses to connect to its own name.
Ask(u, n) ==
  /\ mode[u] = "normal" /\ n # my_name[u] /\ May(u)
  /\ Send(u, Connect(n)) /\ Goto(u, "asking")
  /\ UNCHANGED <<server, outbox, port, open, backlog>>

Nobody(u) ==
  /\ mode[u] = "asking" /\ Hears(u, "nobody")
  /\ Goto(u, "normal")
  /\ UNCHANGED <<server, inbox, port, open, backlog, left>>

\* The address is dialled: the caller talks as soon as the connection is in the
\* backlog of the socket, and failHandler ends it if nothing listens there.
Dial(u) ==
  /\ mode[u] = "asking" /\ Hears(u, "peer")
  /\ LET e == Head(outbox[u]).entry
     IN  IF e.port \in open[e.owner]
         THEN /\ Goto(u, "talking")
              /\ backlog' = [backlog EXCEPT ![e.owner] = @ \cup {e.port}]
              /\ UNCHANGED inbox
         ELSE /\ Goto(u, "dead") /\ Send(u, Plain("eof"))
              /\ UNCHANGED backlog
  /\ UNCHANGED <<server, port, open, left>>

\* __listen_receive__: the first connection is taken and the socket closed.
Accept(u) ==
  /\ mode[u] = "waiting" /\ port[u] \in backlog[u]
  /\ Goto(u, "talking")
  /\ open' = [open EXCEPT ![u] = @ \ {port[u]}]
  /\ backlog' = [backlog EXCEPT ![u] = @ \ {port[u]}]
  /\ UNCHANGED <<server, inbox, outbox, port, left>>

\* ^C, or the other end is gone.
HangUp(u) ==
  /\ mode[u] = "talking"
  /\ Goto(u, "normal")
  /\ UNCHANGED <<server, inbox, outbox, port, open, backlog, left>>

Quit(u) ==
  /\ mode[u] \in {"normal", "waiting", "talking"}
  /\ inbox' = [inbox EXCEPT ![u] = @ \o <<Plain("q"), Plain("eof")>>]
  /\ Goto(u, "quit")
  /\ open' = [open EXCEPT ![u] = {}]
  /\ backlog' = [backlog EXCEPT ![u] = {}]
  /\ UNCHANGED <<server, outbox, port, left>>

Crash(u) ==
  /\ u \in mortal /\ mode[u] \notin {"out", "quit", "dead"}
  /\ Goto(u, "dead") /\ Send(u, Plain("eof"))
  /\ open' = [open EXCEPT ![u] = {}]
  /\ backlog' = [backlog EXCEPT ![u] = {}]
  /\ UNCHANGED <<server, outbox, port, left>>

\* What the program does by itself, and what the user types.
Proceed(u) == \/ Joined(u) \/ Rejected(u) \/ SendWait(u) \/ Listed(u) \/ Nobody(u)
              \/ Dial(u) \/ Accept(u)
Type(u) == \/ Join(u) \/ Prepare(u) \/ BreakWait(u) \/ List(u) \/ HangUp(u)
           \/ Quit(u) \/ Crash(u) \/ \E n \in Names : Ask(u, n)

Served(u) == handler[u] = "done" \/ (handler[u] = "read" /\ inbox[u] = << >>)

\* Every handler waits in read: what is left to do is what a user may type.
Idle == (\A u \in Users : Served(u)) /\ UNCHANGED vars

Next == (\E u \in Users : Serve(u) \/ Proceed(u) \/ Type(u)) \/ Idle

Spec == Init /\ [][Next]_vars

\* Handlers and clients run; nothing makes a user type.
FairSpec == Spec /\ \A u \in Users : WF_vars(Serve(u)) /\ WF_vars(Proceed(u))

-----------------------------------------------------------------------------
TypeOK ==
  /\ faults \subseteq Fault /\ mortal \subseteq Users
  /\ my_name \in [Users -> Names]
  /\ client_names \in Seq(Names)
  /\ clients \in Seq(Entry)
  /\ handler \in [Users -> {"read", "add", "remove name", "done"}]
  /\ inbox \in [Users -> Seq(Commands)]
  /\ outbox \in [Users -> Seq(Answers)]
  /\ mode \in [Users -> Mode]
  /\ port \in [Users -> 0 .. MaxCmds]
  /\ open \in [Users -> SUBSET (1 .. MaxCmds)]
  /\ backlog \in [Users -> SUBSET (1 .. MaxCmds)]
  /\ left \in [Users -> 0 .. MaxCmds]

Entries(u) == {i \in DOMAIN clients : clients[i].owner = u}
OnTheWay(e) == {u \in Users : \E i \in DOMAIN outbox[u] : outbox[u][i] = Peer(e)}

\* "if a client is waiting and decide to quit the waiting mode to INFO mode, the
\* client should send the request" r, and the server "handle it silently"
\* (doc/readme.md): once the server has read all that a user sent, a user that
\* does not wait is not in the list of waiting users, and a user that waits can
\* be found: its entry, with the port of its socket, is in the list, or on its
\* way to the one user that took it, or that user has already called.  w, c, r
\* and q neither lose an entry nor leave one behind in any order, while each
\* command is read by itself, no ^C comes before the command of /wait, no client
\* dies and all names differ.
Regular == faults = {} /\ mortal = {} /\ IsInjective(my_name)
WaitersListed ==
  Regular =>
    \A u \in Users : Served(u) =>
      IF mode[u] = "waiting"
      THEN LET e == [client |-> my_name[u], owner |-> u, port |-> port[u]]
           IN  e \in Range(clients) \/ OnTheWay(e) # {} \/ port[u] \in backlog[u]
      ELSE Entries(u) = {}

\* Whatever goes wrong, no entry, a user with the port it listens on, is listed
\* twice or handed to two callers, and none stays listed once it is handed to one.
\* (It is not so of users: one whose ^C comes before its command of /wait, or whose
\* r is lost behind another command, stays listed; if it waits again it has two
\* entries, and each may go to a caller of its own.)
HandedOnce ==
  /\ IsInjective(clients)
  /\ \A i \in DOMAIN clients : OnTheWay(clients[i]) = {}
  /\ \A u, v \in Users : \A i \in DOMAIN outbox[u], k \in DOMAIN outbox[v] :
       outbox[u][i] = outbox[v][k] /\ outbox[u][i].ans = "peer" => u = v /\ i = k

\* A user that has quit has given its name back, also when two users got hold
\* of one name: a name is in the list at most once per user still there.
Gone(u) == mode[u] = "quit" /\ handler[u] = "done"
NamesFreed ==
  "coalesce" \notin faults =>
    \A n \in Names :
      Cardinality({i \in DOMAIN client_names : client_names[i] = n})
        <= Cardinality({u \in Users : my_name[u] = n /\ ~ Gone(u)})

\* "to make sure each user has a unique name, a new client with a duplicate name
\* would be rejected" (doc/readme.md).
NamesUnique == IsInjective(client_names)

\* Each add, list and connect gets its answer, whatever the other users do,
\* unless two commands arrive in one read: users type a bounded number of
\* commands, and in the end nobody is left waiting for an answer.
AsksAnswered ==
  "coalesce" \notin faults =>
    <>[](\A u \in Users : mode[u] \notin {"joining", "listing", "asking"})
=============================================================================
