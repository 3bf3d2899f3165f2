------------------------------ MODULE ChatProofs ------------------------------
(***************************************************************************)
(* Proofs about the chat of pro/: the room, for any users, names, faults   *)
(* and numbers of commands, and the threads of one client, for any number  *)
(* of inputs of its user and of calls and messages of its peers.           *)
(***************************************************************************)
EXTENDS ChatRoom, ChatPeer, ListLemmas

-----------------------------------------------------------------------------
(* The inductive invariant.                                                *)

Active == {"normal", "preparing", "disturbed", "waiting", "listing", "asking", "talking"}

Length(u) == Len(inbox[u])
Cmd(u, i) == inbox[u][i].cmd

\* A user has a port for each /wait, and the bound leaves room for the rest.
Counted ==
  \A u \in Users : /\ port[u] + left[u] <= MaxCmds
                   /\ mode[u] \in {"preparing", "disturbed", "waiting"} => port[u] >= 1

EntryOf(u, p) == [client |-> my_name[u], owner |-> u, port |-> p]

\* The last port of u that it told the server.
Told(u) == IF mode[u] \in {"preparing", "disturbed"} THEN port[u] - 1 ELSE port[u]

\* Nothing but the entry itself stands for port p of u: it is in no list, in no
\* answer.
Unlisted(u, p) ==
  /\ \A m \in 1 .. Len(clients) : clients[m] # EntryOf(u, p)
  /\ \A v \in Users : \A k \in 1 .. Len(outbox[v]) : outbox[v][k] # Peer(EntryOf(u, p))

\* A command of /wait that is still to be read is the only trace of its port.
Asked ==
  \A u \in Users : \A i \in 1 .. Length(u) : \A p \in 1 .. MaxCmds :
    inbox[u][i] = WaitOn(p) =>
      /\ p <= Told(u) /\ Unlisted(u, p)
      /\ \A k \in 1 .. Length(u) : inbox[u][k] = WaitOn(p) => k = i

\* An entry of the list, or in an answer, has the name and a port of its owner.
Proper(e) == e = EntryOf(e.owner, e.port) /\ e.port <= Told(e.owner)
ProperEntries ==
  \A e \in Entry :
    /\ \A m \in 1 .. Len(clients) : clients[m] = e => Proper(e)
    /\ \A v \in Users : \A k \in 1 .. Len(outbox[v]) : outbox[v][k] = Peer(e) => Proper(e)

\* Who called a port took its entry: that leaves no other trace.
Called ==
  \A u \in Users : \A p \in backlog[u] :
    /\ p <= Told(u) /\ Unlisted(u, p)
    /\ \A i \in 1 .. Length(u) : inbox[u][i] # WaitOn(p)

\* HandedOnce, with the lists as functions on their lengths.
Handed ==
  /\ \A m, k \in 1 .. Len(clients) : clients[m] = clients[k] => m = k
  /\ \A e \in Entry : \A v \in Users : \A k \in 1 .. Len(outbox[v]) : outbox[v][k] = Peer(e) =>
       /\ \A m \in 1 .. Len(clients) : clients[m] # e
       /\ \A u \in Users : \A i \in 1 .. Len(outbox[u]) :
            outbox[u][i] = Peer(e) => u = v /\ i = k

\* The four of them follow an entry from the command of /wait to the call.
Tokens == Asked /\ ProperEntries /\ Called /\ Handed

\* Where a user, its commands and its handler are in the life of a connection,
\* if each read returns one command.
Life(u) ==
  /\ mode[u] = "out" => inbox[u] = << >> /\ outbox[u] = << >> /\ handler[u] = "read"
  /\ handler[u] = "add" => mode[u] \in {"joining", "dead"} /\ outbox[u] = << >>
  /\ handler[u] = "remove name" => mode[u] = "quit"
  /\ handler[u] = "done" => /\ mode[u] \in {"joining", "quit", "dead"}
                            /\ \A k \in 1 .. Len(outbox[u]) : mode[u] = "joining" =>
                                 outbox[u][k].ans # "confirm"
  /\ handler[u] # "read" => \A i \in 1 .. Length(u) : Cmd(u, i) = "eof"
  /\ mode[u] = "quit" /\ handler[u] = "read" => \E i \in 1 .. Length(u) : Cmd(u, i) = "q"
  /\ \A i \in 1 .. Length(u) :
       /\ Cmd(u, i) = "a"   => /\ i = 1 /\ mode[u] \in {"joining", "dead"} /\ outbox[u] = << >>
                               /\ \A k \in 1 .. Length(u) : k # 1 => Cmd(u, k) = "eof"
       /\ Cmd(u, i) = "q"   => i = Length(u) - 1 /\ mode[u] = "quit" /\ Cmd(u, i + 1) = "eof"
       /\ Cmd(u, i) = "eof" => i = Length(u) /\ mode[u] \in {"quit", "dead"}

\* u did not add its name to the list yet.
NotYet(u) == handler[u] = "add" \/ mode[u] = "out" \/ \E i \in 1 .. Length(u) : Cmd(u, i) = "a"

\* u answers for a place of its name in the list.
Held(u) == ~ NotYet(u) /\ ~ Gone(u)

PlacesOf(n) == {i \in 1 .. Len(client_names) : client_names[i] = n}
Holders(n) == {u \in Users : my_name[u] = n /\ Held(u)}

Lives == "coalesce" \notin faults =>
           /\ \A u \in Users : Life(u)
           /\ \A n \in Names : Cardinality(PlacesOf(n)) <= Cardinality(Holders(n))

\* What holds in every state, whatever goes wrong.
IInv == TypeOK /\ Counted /\ Tokens /\ Lives

\* Where u asked for port p: its i-th command to come, or, for 0, an entry of the
\* list.
WaitAt(u, i, p) == IF i = 0 THEN \E m \in 1 .. Len(clients) : clients[m] = EntryOf(u, p)
                            ELSE inbox[u][i] = WaitOn(p)

\* An answer hands port p of u on.
OnWay(u, p) == \E v \in Users : \E k \in 1 .. Len(outbox[v]) : outbox[v][k] = Peer(EntryOf(u, p))

\* The j-th command of u takes it off the list.
Leaves(u, j) == Cmd(u, j) \in {"r", "q"}

\* After its i-th command u still says that it leaves the list.
Ended(u, i) == \E j \in 1 .. Length(u) : i < j /\ Leaves(u, j)

\* The wait at port p goes on.
Waits(u, p) == mode[u] = "waiting" /\ p = port[u]

\* Each place where u asked is followed by a command that ends it, and before the
\* next one.
Alternate(u) ==
  \A i \in 0 .. Length(u), p \in 1 .. MaxCmds : WaitAt(u, i, p) =>
    /\ Ended(u, i) \/ Waits(u, p)
    /\ \A k \in 0 .. Length(u), q \in 1 .. MaxCmds : WaitAt(u, k, q) =>
         /\ i < k => \E j \in 1 .. Length(u) : i < j /\ j < k /\ Leaves(u, j)
         /\ i = k => p = q

\* A user that waits listens, and its port is where a caller finds it, or has been
\* called.
Found(u) ==
  /\ mode[u] # "disturbed"
  /\ mode[u] \in {"preparing", "waiting"} => port[u] \in open[u]
  /\ mode[u] = "waiting" =>
       \/ \E i \in 0 .. Length(u) : WaitAt(u, i, port[u]) /\ ~ Ended(u, i)
       \/ OnWay(u, port[u])
       \/ port[u] \in backlog[u]

\* What holds while nothing goes wrong.
Waiters == Regular => \A u \in Users : Alternate(u) /\ Found(u)

-----------------------------------------------------------------------------
(* The types.                                                              *)

\* A command is known by its letter, and only /wait has a port.
LEMMA CommandKinds ==
  /\ \A c \in Commands : c.cmd = "w" => c.port \in 1 .. MaxCmds /\ c = WaitOn(c.port)
  /\ \A c \in Commands : c.cmd = "c" => c.peer \in Names
  /\ \A x \in {"a", "q", "l", "r", "eof"} : Plain(x) \in Commands /\ Plain(x).cmd = x
  /\ \A n \in Names : Connect(n) \in Commands /\ Connect(n).cmd = "c"
  /\ \A p \in 1 .. MaxCmds :
       WaitOn(p) \in Commands /\ WaitOn(p).cmd = "w" /\ WaitOn(p).port = p
  <1>1. ASSUME NEW c \in Commands
        PROVE  /\ c.cmd = "w" => c.port \in 1 .. MaxCmds /\ c = WaitOn(c.port)
               /\ c.cmd = "c" => c.peer \in Names
    <2>1. CASE c \in {Plain("a"), Plain("q"), Plain("l"), Plain("r"), Plain("eof")}
      BY <2>1 DEF Plain
    <2>2. CASE c \in {Connect(n) : n \in Names}
      BY <2>2 DEF Connect
    <2>3. CASE c \in {WaitOn(p) : p \in 1 .. MaxCmds}
      BY <2>3 DEF WaitOn
    <2> QED BY <2>1, <2>2, <2>3 DEF Commands
  <1>2. \A x \in {"a", "q", "l", "r", "eof"} : Plain(x) \in Commands /\ Plain(x).cmd = x
    BY DEF Commands, Plain
  <1>3. ASSUME NEW n \in Names PROVE Connect(n) \in Commands /\ Connect(n).cmd = "c"
    BY DEF Commands, Connect
  <1>4. ASSUME NEW p \in 1 .. MaxCmds
        PROVE  WaitOn(p) \in Commands /\ WaitOn(p).cmd = "w" /\ WaitOn(p).port = p
    BY DEF Commands, WaitOn
  <1> QED BY <1>1, <1>2, <1>3, <1>4

\* An answer is known by its kind, and only the one to a connect has an entry.
LEMMA AnswerKinds ==
  /\ \A a \in Answers : a.ans = "peer" => a.entry \in Entry /\ a = Peer(a.entry)
  /\ \A x \in {"confirm", "reject", "nobody", "list"} :
       Answer(x) \in Answers /\ Answer(x).ans = x /\ x # "peer"
  /\ \A e \in Entry : Peer(e) \in Answers /\ Peer(e).ans = "peer" /\ Peer(e).entry = e
  <1>1. ASSUME NEW a \in Answers, a.ans = "peer" PROVE a.entry \in Entry /\ a = Peer(a.entry)
    <2>1. a \notin {Answer("confirm"), Answer("reject"), Answer("nobody"), Answer("list")}
      BY <1>1 DEF Answer
    <2>2. PICK e \in Entry : a = Peer(e)
      BY <2>1 DEF Answers
    <2> QED BY <2>2 DEF Peer
  <1>2. \A x \in {"confirm", "reject", "nobody", "list"} :
          Answer(x) \in Answers /\ Answer(x).ans = x /\ x # "peer"
    BY DEF Answers, Answer
  <1>3. ASSUME NEW e \in Entry
        PROVE  Peer(e) \in Answers /\ Peer(e).ans = "peer" /\ Peer(e).entry = e
    BY DEF Answers, Peer
  <1> QED BY <1>1, <1>2, <1>3

\* The types of the variables, one by one.
LEMMA TypesOf ==
  ASSUME TypeOK
  PROVE  /\ clients \in Seq(Entry) /\ Len(clients) \in Nat /\ DOMAIN clients = 1 .. Len(clients)
         /\ \A m \in 1 .. Len(clients) : clients[m] \in Entry
         /\ client_names \in Seq(Names) /\ Len(client_names) \in Nat
         /\ DOMAIN client_names = 1 .. Len(client_names)
         /\ inbox \in [Users -> Seq(Commands)] /\ outbox \in [Users -> Seq(Answers)]
         /\ \A u \in Users :
              /\ inbox[u] \in Seq(Commands) /\ Len(inbox[u]) \in Nat
              /\ DOMAIN inbox[u] = 1 .. Len(inbox[u])
              /\ \A i \in 1 .. Len(inbox[u]) : inbox[u][i] \in Commands
              /\ outbox[u] \in Seq(Answers) /\ Len(outbox[u]) \in Nat
              /\ DOMAIN outbox[u] = 1 .. Len(outbox[u])
              /\ \A k \in 1 .. Len(outbox[u]) : outbox[u][k] \in Answers
              /\ my_name[u] \in Names /\ mode[u] \in Mode
              /\ port[u] \in 0 .. MaxCmds /\ left[u] \in 0 .. MaxCmds
              /\ backlog[u] \subseteq 1 .. MaxCmds
         /\ my_name \in [Users -> Names]
         /\ handler \in [Users -> {"read", "add", "remove name", "done"}]
         /\ mode \in [Users -> Mode] /\ port \in [Users -> 0 .. MaxCmds]
         /\ left \in [Users -> 0 .. MaxCmds]
         /\ open \in [Users -> SUBSET (1 .. MaxCmds)] /\ backlog \in [Users -> SUBSET (1 .. MaxCmds)]
         /\ MaxCmds \in Nat
  <1>1. /\ clients \in Seq(Entry) /\ client_names \in Seq(Names)
        /\ inbox \in [Users -> Seq(Commands)] /\ outbox \in [Users -> Seq(Answers)]
        /\ my_name \in [Users -> Names]
        /\ handler \in [Users -> {"read", "add", "remove name", "done"}]
        /\ mode \in [Users -> Mode] /\ port \in [Users -> 0 .. MaxCmds]
        /\ left \in [Users -> 0 .. MaxCmds] /\ open \in [Users -> SUBSET (1 .. MaxCmds)]
        /\ backlog \in [Users -> SUBSET (1 .. MaxCmds)]
    BY DEF TypeOK
  <1>2. /\ Len(clients) \in Nat /\ DOMAIN clients = 1 .. Len(clients)
        /\ \A m \in 1 .. Len(clients) : clients[m] \in Entry
    BY <1>1, LenProperties, ElementOfSeq
  <1>3. Len(client_names) \in Nat /\ DOMAIN client_names = 1 .. Len(client_names)
    BY <1>1, LenProperties
  <1>4. ASSUME NEW u \in Users
        PROVE  /\ inbox[u] \in Seq(Commands) /\ Len(inbox[u]) \in Nat
               /\ DOMAIN inbox[u] = 1 .. Len(inbox[u])
               /\ \A i \in 1 .. Len(inbox[u]) : inbox[u][i] \in Commands
    BY <1>1, LenProperties, ElementOfSeq
  <1>5. ASSUME NEW u \in Users
        PROVE  /\ outbox[u] \in Seq(Answers) /\ Len(outbox[u]) \in Nat
               /\ DOMAIN outbox[u] = 1 .. Len(outbox[u])
               /\ \A k \in 1 .. Len(outbox[u]) : outbox[u][k] \in Answers
    BY <1>1, LenProperties, ElementOfSeq
  <1>6. \A u \in Users : /\ my_name[u] \in Names /\ mode[u] \in Mode
                         /\ port[u] \in 0 .. MaxCmds /\ left[u] \in 0 .. MaxCmds
                         /\ backlog[u] \subseteq 1 .. MaxCmds
    BY <1>1
  <1> QED BY <1>1, <1>2, <1>3, <1>4, <1>5, <1>6, MaxCmdsAssumption

\* A handler that reads takes at least its first command, and the rest moves up.
LEMMA Reading ==
  ASSUME TypeOK, NEW u \in Users, NEW c, Read(u, c)
  PROVE  /\ handler[u] = "read" /\ inbox[u] # << >> /\ Len(inbox[u]) \in Nat \ {0}
         /\ Cmd(u, 1) = c /\ Head(inbox[u]) = inbox[u][1] /\ inbox[u][1] \in Commands
         /\ inbox' \in [Users -> Seq(Commands)]
         /\ \A v \in Users : v # u => inbox'[v] = inbox[v]
         /\ \E n \in 1 .. Len(inbox[u]) :
              /\ n > 1 => "coalesce" \in faults
              /\ Len(inbox'[u]) = Len(inbox[u]) - n
              /\ \A i \in 1 .. Len(inbox'[u]) : n + i \in 1 .. Len(inbox[u])
                                                /\ inbox'[u][i] = inbox[u][n + i]
  <1>1. /\ handler[u] = "read" /\ inbox[u] # << >> /\ inbox[u] \in Seq(Commands)
        /\ Head(inbox[u]).cmd = c
    BY TypesOf DEF Read
  <1>2. PICK n \in 1 .. Len(inbox[u]) :
          /\ n > 1 => "coalesce" \in faults
          /\ inbox' = [inbox EXCEPT ![u] = SubSeq(@, n + 1, Len(@))]
    BY DEF Read
  <1>3. Len(inbox[u]) \in Nat \ {0} /\ Head(inbox[u]) = inbox[u][1] /\ inbox[u][1] \in Commands
    BY <1>1, DropFirst
  <1>4. n \in 0 .. Len(inbox[u])
    BY <1>3
  <1>5. /\ SubSeq(inbox[u], n + 1, Len(inbox[u])) \in Seq(Commands)
        /\ Len(SubSeq(inbox[u], n + 1, Len(inbox[u]))) = Len(inbox[u]) - n
        /\ \A k \in 1 .. Len(inbox[u]) - n : SubSeq(inbox[u], n + 1, Len(inbox[u]))[k] = inbox[u][n + k]
    BY <1>1, <1>4, DropItems
  <1>6. /\ inbox'[u] = SubSeq(inbox[u], n + 1, Len(inbox[u]))
        /\ \A v \in Users : v # u => inbox'[v] = inbox[v]
        /\ inbox' \in [Users -> Seq(Commands)]
    BY <1>2, <1>5, TypesOf
  <1>7. \A i \in 1 .. Len(inbox[u]) - n : n + i \in 1 .. Len(inbox[u])
    BY <1>3
  <1>8. /\ Len(inbox'[u]) = Len(inbox[u]) - n
        /\ \A i \in 1 .. Len(inbox'[u]) : n + i \in 1 .. Len(inbox[u])
                                          /\ inbox'[u][i] = inbox[u][n + i]
    BY <1>5, <1>6, <1>7
  <1> QED BY <1>1, <1>2, <1>3, <1>6, <1>8 DEF Cmd

\* A user that sends a command adds it to what is on its way.
LEMMA Sending ==
  ASSUME TypeOK, NEW u \in Users, NEW c \in Commands, Send(u, c)
  PROVE  /\ inbox' \in [Users -> Seq(Commands)]
         /\ \A v \in Users : v # u => inbox'[v] = inbox[v]
         /\ Len(inbox[u]) \in Nat /\ Len(inbox'[u]) = Len(inbox[u]) + 1
         /\ \A i \in 1 .. Len(inbox[u]) : inbox'[u][i] = inbox[u][i]
         /\ inbox'[u][Len(inbox[u]) + 1] = c
         /\ \A i \in 1 .. Len(inbox'[u]) : i \in 1 .. Len(inbox[u]) \/ i = Len(inbox[u]) + 1
  <1>1. inbox[u] \in Seq(Commands) /\ Len(inbox[u]) \in Nat
    BY TypesOf
  <1>2. /\ inbox'[u] = Append(inbox[u], c) /\ \A v \in Users : v # u => inbox'[v] = inbox[v]
    BY TypesOf DEF Send
  <1>3. /\ Append(inbox[u], c) \in Seq(Commands)
        /\ Len(Append(inbox[u], c)) = Len(inbox[u]) + 1
        /\ \A i \in 1 .. Len(inbox[u]) : Append(inbox[u], c)[i] = inbox[u][i]
        /\ Append(inbox[u], c)[Len(inbox[u]) + 1] = c
    BY <1>1, AppendProperties
  <1>4. inbox' \in [Users -> Seq(Commands)]
    BY <1>3, TypesOf DEF Send
  <1>5. \A i \in 1 .. Len(inbox[u]) + 1 : i \in 1 .. Len(inbox[u]) \/ i = Len(inbox[u]) + 1
    BY <1>1
  <1> QED BY <1>1, <1>2, <1>3, <1>4, <1>5

\* So does a handler that answers.
LEMMA Responding ==
  ASSUME TypeOK, NEW u \in Users, NEW a \in Answers, Respond(u, a)
  PROVE  /\ outbox' \in [Users -> Seq(Answers)]
         /\ \A v \in Users : v # u => outbox'[v] = outbox[v]
         /\ Len(outbox[u]) \in Nat /\ Len(outbox'[u]) = Len(outbox[u]) + 1
         /\ \A i \in 1 .. Len(outbox[u]) : outbox'[u][i] = outbox[u][i]
         /\ outbox'[u][Len(outbox[u]) + 1] = a
         /\ \A i \in 1 .. Len(outbox'[u]) : i \in 1 .. Len(outbox[u]) \/ i = Len(outbox[u]) + 1
  <1>1. outbox[u] \in Seq(Answers) /\ Len(outbox[u]) \in Nat
    BY TypesOf
  <1>2. /\ outbox'[u] = Append(outbox[u], a) /\ \A v \in Users : v # u => outbox'[v] = outbox[v]
    BY TypesOf DEF Respond
  <1>3. /\ Append(outbox[u], a) \in Seq(Answers)
        /\ Len(Append(outbox[u], a)) = Len(outbox[u]) + 1
        /\ \A i \in 1 .. Len(outbox[u]) : Append(outbox[u], a)[i] = outbox[u][i]
        /\ Append(outbox[u], a)[Len(outbox[u]) + 1] = a
    BY <1>1, AppendProperties
  <1>4. outbox' \in [Users -> Seq(Answers)]
    BY <1>3, TypesOf DEF Respond
  <1>5. \A i \in 1 .. Len(outbox[u]) + 1 : i \in 1 .. Len(outbox[u]) \/ i = Len(outbox[u]) + 1
    BY <1>1
  <1> QED BY <1>1, <1>2, <1>3, <1>4, <1>5

\* A user that reads an answer takes it away.
LEMMA Hearing ==
  ASSUME TypeOK, NEW u \in Users, NEW a, Hears(u, a)
  PROVE  /\ outbox' \in [Users -> Seq(Answers)]
         /\ \A v \in Users : v # u => outbox'[v] = outbox[v]
         /\ Len(outbox[u]) \in Nat \ {0} /\ Len(outbox'[u]) = Len(outbox[u]) - 1
         /\ outbox[u][1] \in Answers /\ Head(outbox[u]) = outbox[u][1] /\ outbox[u][1].ans = a
         /\ \A i \in 1 .. Len(outbox'[u]) : i + 1 \in 1 .. Len(outbox[u])
                                            /\ outbox'[u][i] = outbox[u][i + 1]
  <1>1. outbox[u] \in Seq(Answers) /\ outbox[u] # << >> /\ Head(outbox[u]).ans = a
    BY TypesOf DEF Hears
  <1>2. /\ outbox'[u] = Tail(outbox[u]) /\ \A v \in Users : v # u => outbox'[v] = outbox[v]
    BY TypesOf DEF Hears
  <1>3. /\ Tail(outbox[u]) \in Seq(Answers) /\ Len(outbox[u]) \in Nat \ {0}
        /\ Head(outbox[u]) = outbox[u][1] /\ Head(outbox[u]) \in Answers
        /\ Len(Tail(outbox[u])) = Len(outbox[u]) - 1
        /\ \A k \in 1 .. Len(outbox[u]) - 1 : Tail(outbox[u])[k] = outbox[u][k + 1]
    BY <1>1, DropFirst
  <1>4. outbox' \in [Users -> Seq(Answers)]
    BY <1>3, TypesOf DEF Hears
  <1>5. \A i \in 1 .. Len(outbox[u]) - 1 : i + 1 \in 1 .. Len(outbox[u])
    BY <1>3
  <1> QED BY <1>1, <1>2, <1>3, <1>4, <1>5

\* popItem and deleteItem look for the first entry of a name.
LEMMA Searching ==
  ASSUME TypeOK, NEW n
  PROVE  /\ findItem(n) \in 0 .. Len(clients)
         /\ findItem(n) = 0 => \A m \in 1 .. Len(clients) : clients[m].client # n
         /\ findItem(n) # 0 => clients[findItem(n)].client = n
  <1> DEFINE T == {i \in DOMAIN clients : clients[i].client = n}
  <1>1. Len(clients) \in Nat /\ DOMAIN clients = 1 .. Len(clients)
    BY TypesOf
  <1>2. CASE T = {}
    BY <1>1, <1>2 DEF findItem
  <1>3. CASE T # {}
    <2>1. T \in SUBSET Nat
      BY <1>1
    <2>2. \E i \in T : \A k \in T : i <= k
      <3> HIDE DEF T
      <3> QED BY <1>3, <2>1, SmallestIndex
    <2>3. findItem(n) = CHOOSE i \in T : \A k \in T : i <= k
      BY <1>3 DEF findItem
    <2>4. findItem(n) \in T
      <3> HIDE DEF T
      <3> QED BY <2>2, <2>3
    <2> QED BY <1>1, <2>4
  <1> QED BY <1>2, <1>3

\* The place an entry had before the i-th was taken away; 0 stands for none.
Before(i, n) == IF i = 0 \/ n < i THEN n ELSE n + 1

\* What is left when the i-th entry is taken.
LEMMA Taking ==
  ASSUME NEW S, NEW s \in Seq(S), NEW i \in 0 .. Len(s)
  PROVE  /\ Without(s, i) \in Seq(S) /\ Len(s) \in Nat
         /\ Len(Without(s, i)) = IF i = 0 THEN Len(s) ELSE Len(s) - 1
         /\ \A k \in 1 .. Len(Without(s, i)) :
              /\ Without(s, i)[k] = s[Before(i, k)]
              /\ Before(i, k) \in 1 .. Len(s) /\ Before(i, k) # i
              /\ \A j \in 1 .. Len(Without(s, i)) : j # k => Before(i, j) # Before(i, k)
         /\ \A k \in 1 .. Len(s) : k # i =>
              \E j \in 1 .. Len(Without(s, i)) : Before(i, j) = k
  <1>1. CASE i = 0
    BY <1>1, LenProperties DEF Without, Before
  <1>2. CASE i # 0
    <2>1. /\ i \in 1 .. Len(s) /\ Len(s) \in Nat /\ Without(s, i) = RemoveAt(s, i)
      BY <1>2, LenProperties DEF Without
    <2>2. /\ RemoveAt(s, i) \in Seq(S) /\ Len(RemoveAt(s, i)) = Len(s) - 1
          /\ \A k \in 1 .. Len(s) - 1 : RemoveAt(s, i)[k] = IF k < i THEN s[k] ELSE s[k + 1]
      BY <2>1, RemoveItem
    <2> DEFINE t == Without(s, i)
    <2>3. t \in Seq(S) /\ Len(t) = Len(s) - 1 /\ \A k \in 1 .. Len(t) : t[k] = s[Before(i, k)]
      BY <1>2, <2>1, <2>2 DEF Before
    <2> HIDE DEF t
    <2>4. \A k \in 1 .. Len(t) : Before(i, k) \in 1 .. Len(s) /\ Before(i, k) # i
      BY <1>2, <2>1, <2>3 DEF Before
    <2>5. \A k, j \in 1 .. Len(t) : j # k => Before(i, j) # Before(i, k)
      BY <1>2, <2>1, <2>3 DEF Before
    <2>6. ASSUME NEW k \in 1 .. Len(s), k # i PROVE \E j \in 1 .. Len(t) : Before(i, j) = k
      <3>1. CASE k < i
        BY <1>2, <2>1, <2>3, <3>1 DEF Before
      <3>2. CASE k > i
        <4>1. k - 1 \in 1 .. Len(t) /\ Before(i, k - 1) = k
          BY <1>2, <2>1, <2>3, <3>2 DEF Before
        <4> QED BY <4>1
      <3> QED BY <2>1, <2>6, <3>1, <3>2
    <2> QED BY <1>2, <2>1, <2>3, <2>4, <2>5, <2>6 DEF t
  <1> QED BY <1>1, <1>2

-----------------------------------------------------------------------------
(* Each step keeps the types.                                              *)

\* The numbers of a user, and the lengths of the lists.
LEMMA Numbers ==
  ASSUME TypeOK
  PROVE  /\ MaxCmds \in Nat
         /\ \A u \in Users : /\ port[u] \in Nat /\ left[u] \in Nat
                             /\ port[u] <= MaxCmds /\ left[u] <= MaxCmds
  <1>1. \A u \in Users : port[u] \in 0 .. MaxCmds /\ left[u] \in 0 .. MaxCmds
    BY TypesOf
  <1> QED BY <1>1, MaxCmdsAssumption

LEMMA Lengths ==
  ASSUME TypeOK
  PROVE  /\ Len(clients) \in Nat /\ Len(client_names) \in Nat
         /\ \A u \in Users : Len(inbox[u]) \in Nat /\ Len(outbox[u]) \in Nat
  BY TypesOf

\* Quit sends two commands at once.
LEMMA Quitting ==
  ASSUME TypeOK, NEW u \in Users, Quit(u)
  PROVE  /\ inbox' \in [Users -> Seq(Commands)]
         /\ \A v \in Users : v # u => inbox'[v] = inbox[v]
         /\ Len(inbox[u]) \in Nat /\ Len(inbox'[u]) = Len(inbox[u]) + 2
         /\ \A i \in 1 .. Len(inbox[u]) : inbox'[u][i] = inbox[u][i]
         /\ inbox'[u][Len(inbox[u]) + 1] = Plain("q")
         /\ inbox'[u][Len(inbox[u]) + 2] = Plain("eof")
         /\ \A i \in 1 .. Len(inbox'[u]) :
              i \in 1 .. Len(inbox[u]) \/ i = Len(inbox[u]) + 1 \/ i = Len(inbox[u]) + 2
  <1> DEFINE t == <<Plain("q"), Plain("eof")>>
             j == inbox[u] \o t
  <1>1. inbox[u] \in Seq(Commands) /\ Len(inbox[u]) \in Nat
    BY TypesOf
  <1>2. Plain("q") \in Commands /\ Plain("eof") \in Commands
    BY CommandKinds
  <1>3. t \in Seq(Commands) /\ Len(t) = 2 /\ t[1] = Plain("q") /\ t[2] = Plain("eof")
    BY <1>2
  <1> HIDE DEF t
  <1>4. /\ j \in Seq(Commands) /\ Len(j) = Len(inbox[u]) + 2
        /\ \A k \in 1 .. Len(inbox[u]) : j[k] = inbox[u][k]
        /\ \A k \in 1 .. 2 : j[Len(inbox[u]) + k] = t[k]
    <2> DEFINE r == inbox[u]
    <2>1. r \in Seq(Commands) /\ t \in Seq(Commands) /\ Len(t) = 2
      BY <1>1, <1>3
    <2> HIDE DEF r
    <2>2. /\ r \o t \in Seq(Commands) /\ Len(r \o t) = Len(r) + Len(t)
          /\ \A k \in 1 .. Len(r) : (r \o t)[k] = r[k]
          /\ \A k \in 1 .. Len(t) : (r \o t)[Len(r) + k] = t[k]
      BY <2>1, JoinLists, SMTT(60)
    <2> QED BY <2>1, <2>2 DEF r
  <1>5. /\ inbox' = [inbox EXCEPT ![u] = inbox[u] \o t]
    BY DEF Quit, t
  <1> HIDE DEF j
  <1>6. inbox' = [inbox EXCEPT ![u] = j]
    BY <1>5 DEF j
  <1>7. inbox'[u] = j /\ inbox' \in [Users -> Seq(Commands)]
        /\ \A v \in Users : v # u => inbox'[v] = inbox[v]
    BY <1>4, <1>6, TypesOf
  <1>8. \A i \in 1 .. Len(inbox[u]) + 2 :
          i \in 1 .. Len(inbox[u]) \/ i = Len(inbox[u]) + 1 \/ i = Len(inbox[u]) + 2
    BY <1>1
  <1> QED BY <1>1, <1>3, <1>4, <1>7, <1>8

\* removeNameItem looks for the last one of a name.
LEMMA Forgetting ==
  ASSUME TypeOK, NEW n
  PROVE  \E i \in 0 .. Len(client_names) :
           /\ removeNameItem(n) = Without(client_names, i)
           /\ i = 0 => \A m \in 1 .. Len(client_names) : client_names[m] # n
           /\ i # 0 => client_names[i] = n
           /\ removeNameItem(n) \in Seq(Names)
  <1> DEFINE T == {i \in DOMAIN client_names : client_names[i] = n}
             l == IF T = {} THEN 0 ELSE CHOOSE i \in T : \A k \in T : k <= i
  <1>1. /\ Len(client_names) \in Nat /\ DOMAIN client_names = 1 .. Len(client_names)
        /\ client_names \in Seq(Names)
    BY TypesOf
  <1>2. removeNameItem(n) = Without(client_names, l)
    BY DEF removeNameItem
  <1>3. CASE T = {}
    <2>1. l = 0 /\ \A m \in 1 .. Len(client_names) : client_names[m] # n
      BY <1>1, <1>3
    <2>2. removeNameItem(n) = Without(client_names, 0) /\ Without(client_names, 0) = client_names
      BY <1>2, <2>1 DEF Without
    <2> HIDE DEF l, T
    <2> QED BY <1>1, <2>1, <2>2
  <1>4. CASE T # {}
    <2>1. T \in SUBSET Nat /\ \A k \in T : k <= Len(client_names)
      BY <1>1
    <2>2. \E i \in T : \A k \in T : k <= i
      <3> HIDE DEF T
      <3> QED BY <1>1, <1>4, <2>1, LargestIndex
    <2>3. l \in T
      <3> HIDE DEF T
      <3> QED BY <1>4, <2>2
    <2>4. l \in 1 .. Len(client_names) /\ client_names[l] = n
      BY <1>1, <2>3
    <2> HIDE DEF l
    <2>5. l \in 0 .. Len(client_names) /\ l # 0 /\ Without(client_names, l) \in Seq(Names)
      BY <1>1, <2>4, Taking
    <2> QED BY <1>2, <2>4, <2>5
  <1> QED BY <1>3, <1>4

LEMMA ServerTypes ==
  ASSUME TypeOK, NEW u \in Users, Serve(u)
  PROVE  TypeOK'
  <1>1. CASE CheckName(u)
    <2>1. inbox' \in [Users -> Seq(Commands)]
      BY <1>1, Reading DEF CheckName
    <2>2. outbox' \in [Users -> Seq(Answers)]
      <3>1. CASE Respond(u, Answer("reject"))
        BY <3>1, AnswerKinds, Responding
      <3>2. CASE UNCHANGED outbox
        BY <3>2, TypesOf
      <3> QED BY <1>1, <3>1, <3>2 DEF CheckName
    <2> QED BY <1>1, <2>1, <2>2 DEF CheckName, Become, users, TypeOK
  <1>2. CASE AddName(u)
    <2>1. outbox' \in [Users -> Seq(Answers)]
      BY <1>2, AnswerKinds, Responding DEF AddName
    <2>2. client_names' \in Seq(Names)
      BY <1>2, TypesOf, PutLast DEF AddName
    <2> QED BY <1>2, <2>1, <2>2 DEF AddName, Become, users, TypeOK
  <1>3. CASE QuitWaiting(u)
    <2>1. inbox' \in [Users -> Seq(Commands)]
      BY <1>3, Reading DEF QuitWaiting
    <2>2. clients' \in Seq(Entry)
      BY <1>3, TypesOf, Searching, Taking DEF QuitWaiting
    <2> QED BY <1>3, <2>1, <2>2 DEF QuitWaiting, Become, users, TypeOK
  <1>4. CASE QuitName(u)
    <2>1. client_names' \in Seq(Names)
      BY <1>4, Forgetting DEF QuitName
    <2> QED BY <1>4, <2>1 DEF QuitName, Become, users, TypeOK
  <1>5. CASE ServeConnect(u)
    <2>1. inbox' \in [Users -> Seq(Commands)]
      BY <1>5, Reading DEF ServeConnect
    <2>2. PICK i \in 0 .. Len(clients) :
            /\ clients' = Without(clients, i)
            /\ Respond(u, IF i = 0 THEN Answer("nobody") ELSE Peer(clients[i]))
      BY <1>5, Searching DEF ServeConnect
    <2>3. (IF i = 0 THEN Answer("nobody") ELSE Peer(clients[i])) \in Answers
      <3>1. CASE i = 0
        BY <3>1, AnswerKinds
      <3>2. CASE i # 0
        <4>1. i \in 1 .. Len(clients)
          BY <3>2, Lengths
        <4>2. clients[i] \in Entry
          BY <4>1, TypesOf
        <4> QED BY <3>2, <4>2, AnswerKinds
      <3> QED BY <3>1, <3>2
    <2>4. outbox' \in [Users -> Seq(Answers)]
      BY <2>2, <2>3, Responding
    <2>5. clients' \in Seq(Entry)
      BY <2>2, TypesOf, Taking
    <2> QED BY <1>5, <2>1, <2>4, <2>5 DEF ServeConnect, users, TypeOK
  <1>6. CASE ServeWait(u)
    <2>1. inbox' \in [Users -> Seq(Commands)]
      BY <1>6, Reading DEF ServeWait
    <2>2. Head(inbox[u]) \in Commands /\ Head(inbox[u]).cmd = "w"
      BY <1>6, Reading DEF ServeWait, Cmd
    <2>3. Head(inbox[u]).port \in 1 .. MaxCmds
      BY <2>2, CommandKinds
    <2>4. [client |-> my_name[u], owner |-> u, port |-> Head(inbox[u]).port] \in Entry
      BY <2>3, TypesOf DEF Entry
    <2>5. clients' \in Seq(Entry)
      BY <1>6, <2>4, TypesOf, PutLast DEF ServeWait
    <2> QED BY <1>6, <2>1, <2>5 DEF ServeWait, users, TypeOK
  <1>7. CASE ServeList(u)
    <2>1. inbox' \in [Users -> Seq(Commands)]
      BY <1>7, Reading DEF ServeList
    <2>2. outbox' \in [Users -> Seq(Answers)]
      BY <1>7, AnswerKinds, Responding DEF ServeList
    <2> QED BY <1>7, <2>1, <2>2 DEF ServeList, users, server, TypeOK
  <1>8. CASE ServeLeaveWait(u)
    <2>1. inbox' \in [Users -> Seq(Commands)]
      BY <1>8, Reading DEF ServeLeaveWait
    <2>2. clients' \in Seq(Entry)
      BY <1>8, TypesOf, Searching, Taking DEF ServeLeaveWait
    <2> QED BY <1>8, <2>1, <2>2 DEF ServeLeaveWait, users, TypeOK
  <1>9. CASE EndOfStream(u)
    <2>1. inbox' \in [Users -> Seq(Commands)]
      BY <1>9, Reading DEF EndOfStream
    <2> QED BY <1>9, <2>1 DEF EndOfStream, Become, users, TypeOK
  <1> QED BY <1>1, <1>2, <1>3, <1>4, <1>5, <1>6, <1>7, <1>8, <1>9 DEF Serve

LEMMA ClientTypes ==
  ASSUME TypeOK, Counted, NEW u \in Users, Proceed(u) \/ Type(u)
  PROVE  TypeOK'
  <1>1. CASE Joined(u)
    <2>1. outbox' \in [Users -> Seq(Answers)]
      BY <1>1, Hearing DEF Joined
    <2>2. mode' \in [Users -> Mode]
      BY <1>1, TypesOf DEF Joined, Goto, Mode
    <2> QED BY <1>1, <2>1, <2>2 DEF Joined, server, TypeOK
  <1>2. CASE Rejected(u)
    <2>1. outbox' \in [Users -> Seq(Answers)]
      BY <1>2, Hearing DEF Rejected
    <2>2. inbox' \in [Users -> Seq(Commands)]
      BY <1>2, CommandKinds, Sending DEF Rejected
    <2>3. mode' \in [Users -> Mode]
      BY <1>2, TypesOf DEF Rejected, Goto, Mode
    <2> QED BY <1>2, <2>1, <2>2, <2>3 DEF Rejected, server, TypeOK
  <1>3. CASE SendWait(u)
    <2>1. port[u] \in 1 .. MaxCmds
      <3>1. port[u] >= 1
        BY <1>3 DEF SendWait, Counted
      <3> QED BY <3>1, Numbers
    <2>2. inbox' \in [Users -> Seq(Commands)]
      BY <1>3, <2>1, CommandKinds, Sending DEF SendWait
    <2>3. mode' \in [Users -> Mode]
      BY <1>3, TypesOf DEF SendWait, Goto, Mode
    <2> QED BY <1>3, <2>2, <2>3 DEF SendWait, server, TypeOK
  <1>4. CASE Listed(u)
    <2>1. outbox' \in [Users -> Seq(Answers)]
      BY <1>4, Hearing DEF Listed
    <2>2. mode' \in [Users -> Mode]
      BY <1>4, TypesOf DEF Listed, Goto, Mode
    <2> QED BY <1>4, <2>1, <2>2 DEF Listed, server, TypeOK
  <1>5. CASE Nobody(u)
    <2>1. outbox' \in [Users -> Seq(Answers)]
      BY <1>5, Hearing DEF Nobody
    <2>2. mode' \in [Users -> Mode]
      BY <1>5, TypesOf DEF Nobody, Goto, Mode
    <2> QED BY <1>5, <2>1, <2>2 DEF Nobody, server, TypeOK
  <1>6. CASE Dial(u)
    <2>1. /\ outbox' \in [Users -> Seq(Answers)]
          /\ Head(outbox[u]) \in Answers /\ Head(outbox[u]).ans = "peer"
      BY <1>6, Hearing DEF Dial
    <2>2. inbox' \in [Users -> Seq(Commands)]
      <3>1. CASE UNCHANGED inbox
        BY <3>1, TypesOf
      <3>2. CASE Send(u, Plain("eof"))
        BY <3>2, CommandKinds, Sending
      <3> QED BY <1>6, <3>1, <3>2 DEF Dial
    <2>3. Head(outbox[u]).entry \in Entry
      BY <2>1, AnswerKinds
    <2>4. Head(outbox[u]).entry.port \in 1 .. MaxCmds
      BY <2>3 DEF Entry
    <2>5. backlog' \in [Users -> SUBSET (1 .. MaxCmds)]
      <3>1. CASE UNCHANGED backlog
        BY <3>1, TypesOf
      <3>2. CASE backlog' = [backlog EXCEPT ![Head(outbox[u]).entry.owner]
                               = @ \cup {Head(outbox[u]).entry.port}]
        BY <3>2, <2>4, TypesOf
      <3> QED BY <1>6, <3>1, <3>2 DEF Dial
    <2>6. mode' \in [Users -> Mode]
      BY <1>6, TypesOf DEF Dial, Goto, Mode
    <2> QED BY <1>6, <2>1, <2>2, <2>5, <2>6 DEF Dial, server, TypeOK
  <1>7. CASE Accept(u)
    <2>1. mode' \in [Users -> Mode]
      BY <1>7, TypesOf DEF Accept, Goto, Mode
    <2>2. open' \in [Users -> SUBSET (1 .. MaxCmds)] /\ backlog' \in [Users -> SUBSET (1 .. MaxCmds)]
      BY <1>7, TypesOf DEF Accept
    <2> QED BY <1>7, <2>1, <2>2 DEF Accept, server, TypeOK
  <1>8. CASE Join(u)
    <2>1. inbox' \in [Users -> Seq(Commands)]
      BY <1>8, CommandKinds, Sending DEF Join
    <2>2. mode' \in [Users -> Mode]
      BY <1>8, TypesOf DEF Join, Goto, Mode
    <2> QED BY <1>8, <2>1, <2>2 DEF Join, server, TypeOK
  <1>9. CASE Prepare(u)
    <2>1. left[u] > 0 /\ left[u] - 1 \in 0 .. MaxCmds /\ port[u] + 1 \in 1 .. MaxCmds
      <3>1. port[u] + left[u] <= MaxCmds /\ left[u] > 0
        BY <1>9 DEF Prepare, May, Counted
      <3> QED BY <3>1, Numbers
    <2>2. left' \in [Users -> 0 .. MaxCmds]
      BY <1>9, <2>1, TypesOf DEF Prepare, May
    <2>3. port' \in [Users -> 0 .. MaxCmds] /\ port'[u] \in 1 .. MaxCmds
      <3>1. port' = [port EXCEPT ![u] = port[u] + 1] /\ port[u] + 1 \in 0 .. MaxCmds
        BY <1>9, <2>1 DEF Prepare
      <3> QED BY <2>1, <3>1, TypesOf
    <2>4. open' \in [Users -> SUBSET (1 .. MaxCmds)]
      BY <1>9, <2>3, TypesOf DEF Prepare
    <2>5. mode' \in [Users -> Mode]
      BY <1>9, TypesOf DEF Prepare, Goto, Mode
    <2> QED BY <1>9, <2>2, <2>3, <2>4, <2>5 DEF Prepare, server, TypeOK
  <1>10. CASE BreakWait(u)
    <2>1. inbox' \in [Users -> Seq(Commands)]
      BY <1>10, CommandKinds, Sending DEF BreakWait
    <2>2. mode' \in [Users -> Mode]
      BY <1>10, TypesOf DEF BreakWait, Interrupted, Goto, Mode
    <2>3. open' \in [Users -> SUBSET (1 .. MaxCmds)]
      BY <1>10, TypesOf DEF BreakWait, Interrupted
    <2>4. backlog' \in [Users -> SUBSET (1 .. MaxCmds)]
      BY <1>10, TypesOf DEF BreakWait
    <2> QED BY <1>10, <2>1, <2>2, <2>3, <2>4 DEF BreakWait, server, TypeOK
  <1>11. CASE List(u)
    <2>1. inbox' \in [Users -> Seq(Commands)]
      BY <1>11, CommandKinds, Sending DEF List
    <2>2. mode' \in [Users -> Mode]
      BY <1>11, TypesOf DEF List, Goto, Mode
    <2>3. left' \in [Users -> 0 .. MaxCmds]
      <3>1. left[u] > 0 /\ left[u] - 1 \in 0 .. MaxCmds
        BY <1>11, Numbers DEF List, May
      <3> QED BY <1>11, <3>1, TypesOf DEF List, May
    <2> QED BY <1>11, <2>1, <2>2, <2>3 DEF List, server, TypeOK
  <1>12. CASE HangUp(u)
    <2>1. mode' \in [Users -> Mode]
      BY <1>12, TypesOf DEF HangUp, Goto, Mode
    <2> QED BY <1>12, <2>1 DEF HangUp, server, TypeOK
  <1>13. CASE Quit(u)
    <2>1. mode' \in [Users -> Mode]
      BY <1>13, TypesOf DEF Quit, Goto, Mode
    <2>2. inbox' \in [Users -> Seq(Commands)]
      BY <1>13, Quitting
    <2>3. open' \in [Users -> SUBSET (1 .. MaxCmds)] /\ backlog' \in [Users -> SUBSET (1 .. MaxCmds)]
      BY <1>13, TypesOf DEF Quit
    <2> QED BY <1>13, <2>1, <2>2, <2>3 DEF Quit, server, TypeOK
  <1>14. CASE Crash(u)
    <2>1. inbox' \in [Users -> Seq(Commands)]
      BY <1>14, CommandKinds, Sending DEF Crash
    <2>2. mode' \in [Users -> Mode]
      BY <1>14, TypesOf DEF Crash, Goto, Mode
    <2>3. open' \in [Users -> SUBSET (1 .. MaxCmds)] /\ backlog' \in [Users -> SUBSET (1 .. MaxCmds)]
      BY <1>14, TypesOf DEF Crash
    <2> QED BY <1>14, <2>1, <2>2, <2>3 DEF Crash, server, TypeOK
  <1>15. ASSUME NEW n \in Names, Ask(u, n) PROVE TypeOK'
    <2>1. inbox' \in [Users -> Seq(Commands)]
      BY <1>15, CommandKinds, Sending DEF Ask
    <2>2. mode' \in [Users -> Mode]
      BY <1>15, TypesOf DEF Ask, Goto, Mode
    <2>3. left' \in [Users -> 0 .. MaxCmds]
      <3>1. left[u] > 0 /\ left[u] - 1 \in 0 .. MaxCmds
        BY <1>15, Numbers DEF Ask, May
      <3> QED BY <1>15, <3>1, TypesOf DEF Ask, May
    <2> QED BY <1>15, <2>1, <2>2, <2>3 DEF Ask, server, TypeOK
  <1> QED BY <1>1, <1>2, <1>3, <1>4, <1>5, <1>6, <1>7, <1>8, <1>9, <1>10, <1>11, <1>12,
             <1>13, <1>14, <1>15 DEF Proceed, Type

-----------------------------------------------------------------------------
(* The numbers of the users.                                               *)

LEMMA CountedStep ==
  ASSUME TypeOK, Counted, NEW u \in Users, Serve(u) \/ Proceed(u) \/ Type(u)
  PROVE  Counted'
  <1> DEFINE Setup == {"preparing", "disturbed", "waiting"}
  <1>1. CASE Serve(u)
    <2>1. UNCHANGED <<port, left, mode>>
      BY <1>1 DEF Serve, CheckName, AddName, QuitWaiting, QuitName, ServeConnect, ServeWait,
                  ServeList, ServeLeaveWait, EndOfStream, users
    <2> QED BY <2>1 DEF Counted
  <1>2. ASSUME UNCHANGED <<port, left>>,
               \/ mode'[u] \notin Setup
               \/ mode[u] \in Setup,
               \A v \in Users : v # u => mode'[v] = mode[v]
        PROVE  Counted'
    BY <1>2 DEF Counted
  <1>3. CASE Joined(u) \/ Rejected(u) \/ Listed(u) \/ Nobody(u) \/ Dial(u) \/ Accept(u)
             \/ Join(u) \/ HangUp(u) \/ Quit(u) \/ Crash(u)
    <2>1. mode'[u] \in {"normal", "dead", "talking", "joining", "quit"}
          /\ \A v \in Users : v # u => mode'[v] = mode[v]
      BY <1>3, TypesOf DEF Joined, Rejected, Listed, Nobody, Dial, Accept, Join, HangUp, Quit,
                           Crash, Goto
    <2>2. UNCHANGED <<port, left>>
      BY <1>3 DEF Joined, Rejected, Listed, Nobody, Dial, Accept, Join, HangUp, Quit, Crash
    <2> QED BY <1>2, <2>1, <2>2
  <1>4. CASE SendWait(u)
    BY <1>2, <1>4, TypesOf DEF SendWait, Goto
  <1>5. CASE BreakWait(u)
    BY <1>2, <1>5, TypesOf DEF BreakWait, Interrupted, Goto
  <1>6. CASE Prepare(u)
    <2>1. /\ left[u] > 0 /\ left' = [left EXCEPT ![u] = left[u] - 1]
          /\ port' = [port EXCEPT ![u] = port[u] + 1]
          /\ \A v \in Users : v # u => mode'[v] = mode[v]
      BY <1>6, TypesOf DEF Prepare, May, Goto
    <2>2. /\ left'[u] = left[u] - 1 /\ port'[u] = port[u] + 1
          /\ \A v \in Users : v # u => left'[v] = left[v] /\ port'[v] = port[v]
      BY <2>1, TypesOf
    <2>3. port'[u] >= 1 /\ port'[u] + left'[u] <= MaxCmds
      BY <2>2, Numbers DEF Counted
    <2> QED BY <2>1, <2>2, <2>3 DEF Counted
  <1>7. ASSUME May(u), UNCHANGED port, mode'[u] \notin Setup,
               \A v \in Users : v # u => mode'[v] = mode[v]
        PROVE  Counted'
    <2>1. /\ left[u] > 0 /\ left'[u] = left[u] - 1
          /\ \A v \in Users : v # u => left'[v] = left[v]
      BY <1>7, TypesOf DEF May
    <2>2. port'[u] + left'[u] <= MaxCmds
      BY <1>7, <2>1, Numbers DEF Counted
    <2> QED BY <1>7, <2>1, <2>2 DEF Counted
  <1>8. CASE List(u)
    BY <1>7, <1>8, TypesOf DEF List, Goto
  <1>9. ASSUME NEW n \in Names, Ask(u, n) PROVE Counted'
    BY <1>7, <1>9, TypesOf DEF Ask, Goto
  <1> QED BY <1>1, <1>3, <1>4, <1>5, <1>6, <1>8, <1>9 DEF Proceed, Type

-----------------------------------------------------------------------------
(* An entry, the command it comes from, the answer that hands it on and the *)
(* call that follows: at each moment there is one of them.                 *)

\* What is left of the commands of /wait, of the entries in answers, of the list
\* and of the calls was there before.
KeepsAsked ==
  \A v \in Users : \E n \in Nat : \A i \in 1 .. Len(inbox'[v]) :
    inbox'[v][i].cmd = "w" => n + i \in 1 .. Len(inbox[v]) /\ inbox'[v][i] = inbox[v][n + i]

KeepsPeers ==
  \A v \in Users : \E n \in Nat : \A i \in 1 .. Len(outbox'[v]) :
    outbox'[v][i].ans = "peer" => n + i \in 1 .. Len(outbox[v]) /\ outbox'[v][i] = outbox[v][n + i]

KeepsEntries == \E j \in 0 .. Len(clients) : clients' = Without(clients, j)

KeepsNames == my_name' = my_name /\ \A v \in Users : Told(v) <= Told(v)'

Thins == /\ KeepsAsked /\ KeepsPeers /\ KeepsEntries /\ KeepsNames
         /\ \A v \in Users : backlog'[v] \subseteq backlog[v]

\* Where the entries of a list were that lost one at most.
LEMMA FewerEntries ==
  ASSUME TypeOK, KeepsEntries
  PROVE  \E j \in 0 .. Len(clients) :
           \A m \in 1 .. Len(clients') :
             /\ clients'[m] = clients[Before(j, m)] /\ Before(j, m) \in 1 .. Len(clients)
             /\ \A k \in 1 .. Len(clients') : k # m => Before(j, k) # Before(j, m)
  <1>1. PICK j \in 0 .. Len(clients) : clients' = Without(clients, j)
    BY DEF KeepsEntries
  <1>2. clients \in Seq(Entry)
    BY TypesOf
  <1>3. \A m \in 1 .. Len(Without(clients, j)) :
          /\ Without(clients, j)[m] = clients[Before(j, m)]
          /\ Before(j, m) \in 1 .. Len(clients) /\ Before(j, m) # j
          /\ \A k \in 1 .. Len(Without(clients, j)) : k # m => Before(j, k) # Before(j, m)
    BY <1>2, Taking
  <1> QED BY <1>1, <1>3

LEMMA StaysUnlisted ==
  ASSUME TypeOK, KeepsPeers, KeepsEntries, my_name' = my_name,
         NEW u \in Users, NEW p, Unlisted(u, p)
  PROVE  Unlisted(u, p)'
  <1> DEFINE e == EntryOf(u, p)
  <1>1. EntryOf(u, p)' = e
    BY DEF EntryOf
  <1>2. Peer(e).ans = "peer"
    BY DEF Peer
  <1>3. /\ \A m \in 1 .. Len(clients) : clients[m] # e
        /\ \A v \in Users : \A k \in 1 .. Len(outbox[v]) : outbox[v][k] # Peer(e)
    BY DEF Unlisted
  <1> HIDE DEF e
  <1>4. \A m \in 1 .. Len(clients') : clients'[m] # e
    BY <1>3, FewerEntries
  <1>5. ASSUME NEW v \in Users, NEW k \in 1 .. Len(outbox'[v])
        PROVE  outbox'[v][k] # Peer(e)
    BY <1>2, <1>3 DEF KeepsPeers
  <1> QED BY <1>1, <1>4, <1>5 DEF Unlisted

LEMMA ToldNumbers ==
  ASSUME TypeOK, TypeOK'
  PROVE  \A v \in Users : Told(v) \in Int /\ Told(v)' \in Int
  <1>1. \A v \in Users : port[v] \in 0 .. MaxCmds /\ port'[v] \in 0 .. MaxCmds
    BY DEF TypeOK
  <1> QED BY <1>1, MaxCmdsAssumption DEF Told

\* What was the only trace of its port still is, if no list gains one.
LEMMA StillOne ==
  ASSUME TypeOK, TypeOK', Tokens, KeepsAsked, KeepsNames,
         \A u \in Users, p \in 1 .. MaxCmds : Unlisted(u, p) => Unlisted(u, p)'
  PROVE  /\ Asked'
         /\ \A u \in Users : \A p \in backlog[u] :
              /\ p <= Told(u)' /\ Unlisted(u, p)'
              /\ \A i \in 1 .. Len(inbox'[u]) : inbox'[u][i] # WaitOn(p)
  <1>2. \A v \in Users : Told(v) \in Int /\ Told(v)' \in Int
    BY ToldNumbers
  <1>3. ASSUME NEW u \in Users, NEW i \in 1 .. Len(inbox'[u]), NEW p \in 1 .. MaxCmds,
               inbox'[u][i] = WaitOn(p)
        PROVE  /\ p <= Told(u)' /\ Unlisted(u, p)'
               /\ \A k \in 1 .. Len(inbox'[u]) : inbox'[u][k] = WaitOn(p) => k = i
    <2>1. PICK n \in Nat : \A k \in 1 .. Len(inbox'[u]) : inbox'[u][k].cmd = "w" =>
              n + k \in 1 .. Len(inbox[u]) /\ inbox'[u][k] = inbox[u][n + k]
      BY DEF KeepsAsked
    <2>2. \A k \in 1 .. Len(inbox'[u]) : inbox'[u][k] = WaitOn(p) =>
            n + k \in 1 .. Len(inbox[u]) /\ inbox[u][n + k] = WaitOn(p)
      BY <2>1 DEF WaitOn
    <2>3. /\ p <= Told(u) /\ Unlisted(u, p)
          /\ \A k \in 1 .. Len(inbox[u]) : inbox[u][k] = WaitOn(p) => k = n + i
      BY <1>3, <2>2 DEF Tokens, Asked, Length
    <2>4. p <= Told(u)'
      BY <1>2, <2>3 DEF KeepsNames
    <2>5. ASSUME NEW k \in 1 .. Len(inbox'[u]), inbox'[u][k] = WaitOn(p) PROVE k = i
      <3>1. n + k = n + i /\ k \in Nat /\ i \in Nat
        BY <2>2, <2>3, <2>5
      <3> QED BY <3>1
    <2> QED BY <2>3, <2>4, <2>5
  <1>4. Asked'
    BY <1>3 DEF Asked, Length
  <1>5. ASSUME NEW u \in Users, NEW p \in backlog[u]
        PROVE  /\ p <= Told(u)' /\ Unlisted(u, p)'
               /\ \A i \in 1 .. Len(inbox'[u]) : inbox'[u][i] # WaitOn(p)
    <2>2. /\ p <= Told(u) /\ Unlisted(u, p)
          /\ \A i \in 1 .. Len(inbox[u]) : inbox[u][i] # WaitOn(p)
      BY DEF Tokens, Called, Length
    <2>3. p \in 1 .. MaxCmds /\ p \in Int
      <3>1. p \in 1 .. MaxCmds
        BY TypesOf
      <3> QED BY <3>1
    <2>4. p <= Told(u)'
      BY <1>2, <2>2, <2>3 DEF KeepsNames
    <2>5. \A i \in 1 .. Len(inbox'[u]) : inbox'[u][i] # WaitOn(p)
      BY <2>2 DEF KeepsAsked, WaitOn
    <2> QED BY <2>2, <2>3, <2>4, <2>5
  <1> QED BY <1>4, <1>5

\* What is true of an entry stays true.
LEMMA StaysProper ==
  ASSUME TypeOK, TypeOK', KeepsNames, NEW e \in Entry, Proper(e)
  PROVE  Proper(e)'
  <1>1. e.owner \in Users /\ e.port \in Int
    BY MaxCmdsAssumption DEF Entry
  <1>2. e = EntryOf(e.owner, e.port) /\ e.port <= Told(e.owner)
    BY DEF Proper
  <1>3. e = EntryOf(e.owner, e.port)'
    BY <1>2 DEF EntryOf, KeepsNames
  <1>4. e.port <= Told(e.owner)'
    BY <1>1, <1>2, ToldNumbers DEF KeepsNames
  <1> QED BY <1>3, <1>4 DEF Proper

LEMMA Thinning ==
  ASSUME TypeOK, TypeOK', Tokens, Thins
  PROVE  Tokens'
  <1> USE DEF Thins
  <1>1. \A u \in Users, p \in 1 .. MaxCmds : Unlisted(u, p) => Unlisted(u, p)'
    BY StaysUnlisted DEF KeepsNames
  <1>2. Asked'
    BY <1>1, StillOne
  <1>3. \A u \in Users : \A p \in backlog'[u] :
          /\ p <= Told(u)' /\ Unlisted(u, p)'
          /\ \A i \in 1 .. Len(inbox'[u]) : inbox'[u][i] # WaitOn(p)
    BY <1>1, StillOne
  <1>4. Called'
    BY <1>3 DEF Called, Length
  <1>5. ASSUME NEW e \in Entry, Proper(e) PROVE Proper(e)'
    BY <1>5, StaysProper
  <1>6. ASSUME NEW e \in Entry, NEW m \in 1 .. Len(clients'), clients'[m] = e
        PROVE  Proper(e)'
    BY <1>5, <1>6, FewerEntries DEF Tokens, ProperEntries
  <1>7. ASSUME NEW e \in Entry, NEW v \in Users, NEW k \in 1 .. Len(outbox'[v]),
               outbox'[v][k] = Peer(e)
        PROVE  Proper(e)'
    <2>1. PICK l \in 1 .. Len(outbox[v]) : outbox[v][l] = Peer(e)
      <3>1. outbox'[v][k].ans = "peer"
        BY <1>7 DEF Peer
      <3> QED BY <1>7, <3>1 DEF KeepsPeers
    <2> QED BY <1>5, <2>1 DEF Tokens, ProperEntries
  <1>8. ProperEntries'
    BY <1>6, <1>7 DEF ProperEntries
  <1>11. \A m, k \in 1 .. Len(clients') : clients'[m] = clients'[k] => m = k
    <2>1. PICK j \in 0 .. Len(clients) : \A m \in 1 .. Len(clients') :
             /\ clients'[m] = clients[Before(j, m)] /\ Before(j, m) \in 1 .. Len(clients)
             /\ \A k \in 1 .. Len(clients') : k # m => Before(j, k) # Before(j, m)
      BY FewerEntries
    <2> QED BY <2>1 DEF Tokens, Handed
  <1>12. ASSUME NEW e \in Entry, NEW v \in Users, NEW k \in 1 .. Len(outbox'[v]),
                outbox'[v][k] = Peer(e)
         PROVE  /\ \A m \in 1 .. Len(clients') : clients'[m] # e
                /\ \A u \in Users : \A i \in 1 .. Len(outbox'[u]) :
                     outbox'[u][i] = Peer(e) => u = v /\ i = k
    <2>1. PICK n \in Nat : \A x \in 1 .. Len(outbox'[v]) : outbox'[v][x].ans = "peer" =>
              n + x \in 1 .. Len(outbox[v]) /\ outbox'[v][x] = outbox[v][n + x]
      BY DEF KeepsPeers
    <2>2. \A x \in 1 .. Len(outbox'[v]) : outbox'[v][x] = Peer(e) =>
            n + x \in 1 .. Len(outbox[v]) /\ outbox[v][n + x] = Peer(e)
      BY <2>1 DEF Peer
    <2>3. /\ \A m \in 1 .. Len(clients) : clients[m] # e
          /\ \A u \in Users : \A i \in 1 .. Len(outbox[u]) :
               outbox[u][i] = Peer(e) => u = v /\ i = n + k
      <3>1. n + k \in 1 .. Len(outbox[v]) /\ outbox[v][n + k] = Peer(e)
        BY <1>12, <2>2
      <3>2. Handed
        BY DEF Tokens
      <3> QED BY <3>1, <3>2 DEF Handed
    <2>4. \A m \in 1 .. Len(clients') : clients'[m] # e
      BY <2>3, FewerEntries
    <2>5. ASSUME NEW u \in Users, NEW i \in 1 .. Len(outbox'[u]), outbox'[u][i] = Peer(e)
          PROVE  u = v /\ i = k
      <3>1. PICK l \in 1 .. Len(outbox[u]) : outbox[u][l] = Peer(e)
        <4>1. outbox'[u][i].ans = "peer"
          BY <2>5 DEF Peer
        <4> QED BY <2>5, <4>1 DEF KeepsPeers
      <3>2. u = v
        BY <2>3, <3>1
      <3>3. n + i = n + k /\ i \in Nat /\ k \in Nat
        BY <2>2, <2>3, <2>5, <3>2
      <3> QED BY <3>2, <3>3
    <2> QED BY <2>4, <2>5
  <1>13. Handed'
    BY <1>11, <1>12 DEF Handed
  <1> QED BY <1>2, <1>4, <1>8, <1>13 DEF Tokens

\* Reading, and any command but the one of /wait, adds no trace.
LEMMA AsksNothing ==
  ASSUME TypeOK, NEW u \in Users,
         \/ \E c : Read(u, c)
         \/ \E c \in Commands : c.cmd # "w" /\ Send(u, c)
         \/ Quit(u)
         \/ UNCHANGED inbox
  PROVE  KeepsAsked
  <1>1. ASSUME NEW c, Read(u, c) PROVE KeepsAsked
    <2>1. PICK n \in 1 .. Len(inbox[u]) :
            \A i \in 1 .. Len(inbox'[u]) : n + i \in 1 .. Len(inbox[u])
                                           /\ inbox'[u][i] = inbox[u][n + i]
      BY <1>1, Reading
    <2>2. \A v \in Users : v # u => inbox'[v] = inbox[v]
      BY <1>1, Reading
    <2>3. \A v \in Users : v # u => \A i \in 1 .. Len(inbox'[v]) :
            0 + i \in 1 .. Len(inbox[v]) /\ inbox'[v][i] = inbox[v][0 + i]
      BY <2>2
    <2>4. n \in Nat /\ 0 \in Nat
      BY Lengths
    <2>5. ASSUME NEW v \in Users
          PROVE  \E m \in Nat : \A i \in 1 .. Len(inbox'[v]) :
                   m + i \in 1 .. Len(inbox[v]) /\ inbox'[v][i] = inbox[v][m + i]
      <3>1. CASE v = u
        BY <2>1, <2>4, <3>1, Zenon
      <3>2. CASE v # u
        BY <2>3, <2>4, <3>2, Zenon
      <3> QED BY <3>1, <3>2
    <2> QED BY <2>5, Zenon DEF KeepsAsked
  <1>2. ASSUME NEW c \in Commands, c.cmd # "w", Send(u, c) PROVE KeepsAsked
    <2>1. /\ \A v \in Users : v # u => inbox'[v] = inbox[v]
          /\ \A i \in 1 .. Len(inbox[u]) : inbox'[u][i] = inbox[u][i]
          /\ inbox'[u][Len(inbox[u]) + 1] = c
          /\ \A i \in 1 .. Len(inbox'[u]) : i \in 1 .. Len(inbox[u]) \/ i = Len(inbox[u]) + 1
      BY <1>2, Sending
    <2>2. \A i \in 1 .. Len(inbox'[u]) : inbox'[u][i].cmd = "w" =>
            0 + i \in 1 .. Len(inbox[u]) /\ inbox'[u][i] = inbox[u][0 + i]
      BY <1>2, <2>1
    <2>3. \A v \in Users : v # u => \A i \in 1 .. Len(inbox'[v]) :
            0 + i \in 1 .. Len(inbox[v]) /\ inbox'[v][i] = inbox[v][0 + i]
      BY <2>1
    <2>4. \A v \in Users : \A i \in 1 .. Len(inbox'[v]) : inbox'[v][i].cmd = "w" =>
            0 + i \in 1 .. Len(inbox[v]) /\ inbox'[v][i] = inbox[v][0 + i]
      BY <2>2, <2>3
    <2>5. 0 \in Nat
      OBVIOUS
    <2> QED BY <2>4, <2>5 DEF KeepsAsked
  <1>3. CASE Quit(u)
    <2>1. /\ \A v \in Users : v # u => inbox'[v] = inbox[v]
          /\ \A i \in 1 .. Len(inbox[u]) : inbox'[u][i] = inbox[u][i]
          /\ inbox'[u][Len(inbox[u]) + 1] = Plain("q") /\ inbox'[u][Len(inbox[u]) + 2] = Plain("eof")
          /\ \A i \in 1 .. Len(inbox'[u]) :
               i \in 1 .. Len(inbox[u]) \/ i = Len(inbox[u]) + 1 \/ i = Len(inbox[u]) + 2
      BY <1>3, Quitting
    <2>2. \A i \in 1 .. Len(inbox'[u]) : inbox'[u][i].cmd = "w" =>
            0 + i \in 1 .. Len(inbox[u]) /\ inbox'[u][i] = inbox[u][0 + i]
      BY <2>1 DEF Plain
    <2>3. \A v \in Users : v # u => \A i \in 1 .. Len(inbox'[v]) :
            0 + i \in 1 .. Len(inbox[v]) /\ inbox'[v][i] = inbox[v][0 + i]
      BY <2>1
    <2>4. \A v \in Users : \A i \in 1 .. Len(inbox'[v]) : inbox'[v][i].cmd = "w" =>
            0 + i \in 1 .. Len(inbox[v]) /\ inbox'[v][i] = inbox[v][0 + i]
      BY <2>2, <2>3
    <2>5. 0 \in Nat
      OBVIOUS
    <2> QED BY <2>4, <2>5 DEF KeepsAsked
  <1>4. CASE UNCHANGED inbox
    <2>1. \A v \in Users : \A i \in 1 .. Len(inbox'[v]) :
            0 + i \in 1 .. Len(inbox[v]) /\ inbox'[v][i] = inbox[v][0 + i]
      BY <1>4
    <2>2. 0 \in Nat
      OBVIOUS
    <2> QED BY <2>1, <2>2 DEF KeepsAsked
  <1> QED BY <1>1, <1>2, <1>3, <1>4

\* So does hearing an answer, and giving any but the one with an entry.
LEMMA AnswersNothing ==
  ASSUME TypeOK, NEW u \in Users,
         \/ \E a : Hears(u, a)
         \/ \E a \in Answers : a.ans # "peer" /\ Respond(u, a)
         \/ UNCHANGED outbox
  PROVE  KeepsPeers
  <1>1. ASSUME NEW a, Hears(u, a) PROVE KeepsPeers
    <2>1. \A v \in Users : v # u => outbox'[v] = outbox[v]
      BY <1>1, Hearing
    <2>2. \A i \in 1 .. Len(outbox'[u]) : i + 1 \in 1 .. Len(outbox[u])
                                          /\ outbox'[u][i] = outbox[u][i + 1]
      BY <1>1, Hearing
    <2>3. \A i \in 1 .. Len(outbox'[u]) : 1 + i = i + 1
      OBVIOUS
    <2>4. \A i \in 1 .. Len(outbox'[u]) : 1 + i \in 1 .. Len(outbox[u])
                                          /\ outbox'[u][i] = outbox[u][1 + i]
      BY <2>2, <2>3
    <2>5. \A v \in Users : v # u => \A i \in 1 .. Len(outbox'[v]) :
            0 + i \in 1 .. Len(outbox[v]) /\ outbox'[v][i] = outbox[v][0 + i]
      BY <2>1
    <2>6. 0 \in Nat /\ 1 \in Nat
      OBVIOUS
    <2>7. ASSUME NEW v \in Users
          PROVE  \E m \in Nat : \A i \in 1 .. Len(outbox'[v]) :
                   m + i \in 1 .. Len(outbox[v]) /\ outbox'[v][i] = outbox[v][m + i]
      <3>1. CASE v = u
        BY <2>4, <2>6, <3>1, Zenon
      <3>2. CASE v # u
        BY <2>5, <2>6, <3>2, Zenon
      <3> QED BY <3>1, <3>2
    <2> QED BY <2>7, Zenon DEF KeepsPeers
  <1>2. ASSUME NEW a \in Answers, a.ans # "peer", Respond(u, a) PROVE KeepsPeers
    <2>1. /\ \A v \in Users : v # u => outbox'[v] = outbox[v]
          /\ \A i \in 1 .. Len(outbox[u]) : outbox'[u][i] = outbox[u][i]
          /\ outbox'[u][Len(outbox[u]) + 1] = a
          /\ \A i \in 1 .. Len(outbox'[u]) : i \in 1 .. Len(outbox[u]) \/ i = Len(outbox[u]) + 1
      BY <1>2, Responding
    <2>2. \A i \in 1 .. Len(outbox'[u]) : outbox'[u][i].ans = "peer" =>
            0 + i \in 1 .. Len(outbox[u]) /\ outbox'[u][i] = outbox[u][0 + i]
      BY <1>2, <2>1
    <2>3. \A v \in Users : v # u => \A i \in 1 .. Len(outbox'[v]) :
            0 + i \in 1 .. Len(outbox[v]) /\ outbox'[v][i] = outbox[v][0 + i]
      BY <2>1
    <2>4. \A v \in Users : \A i \in 1 .. Len(outbox'[v]) : outbox'[v][i].ans = "peer" =>
            0 + i \in 1 .. Len(outbox[v]) /\ outbox'[v][i] = outbox[v][0 + i]
      BY <2>2, <2>3
    <2>5. 0 \in Nat
      OBVIOUS
    <2> QED BY <2>4, <2>5 DEF KeepsPeers
  <1>3. CASE UNCHANGED outbox
    <2>1. \A v \in Users : \A i \in 1 .. Len(outbox'[v]) :
            0 + i \in 1 .. Len(outbox[v]) /\ outbox'[v][i] = outbox[v][0 + i]
      BY <1>3
    <2>2. 0 \in Nat
      OBVIOUS
    <2> QED BY <2>1, <2>2 DEF KeepsPeers
  <1> QED BY <1>1, <1>2, <1>3

LEMMA SameEntries ==
  ASSUME TypeOK, UNCHANGED clients
  PROVE  KeepsEntries
  <1>1. 0 \in 0 .. Len(clients)
    BY Lengths
  <1> QED BY <1>1 DEF KeepsEntries, Without

\* Only the step that opens a socket changes a port.
LEMMA SameNames ==
  ASSUME TypeOK, UNCHANGED <<my_name, port>>,
         \A v \in Users : \/ mode'[v] = mode[v]
                          \/ mode'[v] \notin {"preparing", "disturbed"}
                          \/ mode[v] \in {"preparing", "disturbed"}
  PROVE  KeepsNames
  BY Numbers DEF KeepsNames, Told

LEMMA ThinSteps ==
  ASSUME TypeOK, Counted, NEW u \in Users, Serve(u) \/ Proceed(u) \/ Type(u),
         ~ ServeWait(u), ~ ServeConnect(u), ~ SendWait(u), ~ Dial(u)
  PROVE  Thins
  <1> USE DEF Thins
  <1>1. CASE Serve(u)
    <2>1. UNCHANGED <<my_name, port, mode, backlog>>
      BY <1>1 DEF Serve, CheckName, AddName, QuitWaiting, QuitName,
                  ServeList, ServeLeaveWait, EndOfStream, users, server
    <2>2. KeepsAsked
      <3>1. (\E c : Read(u, c)) \/ UNCHANGED inbox
        BY <1>1 DEF Serve, CheckName, AddName, QuitWaiting, QuitName,
                    ServeList, ServeLeaveWait, EndOfStream
      <3> QED BY <3>1, AsksNothing
    <2>3. KeepsPeers
      <3>1. \/ Respond(u, Answer("reject")) \/ Respond(u, Answer("confirm"))
            \/ Respond(u, Answer("list")) \/ UNCHANGED outbox
        BY <1>1 DEF Serve, CheckName, AddName, QuitWaiting, QuitName,
                    ServeList, ServeLeaveWait, EndOfStream
      <3> QED BY <3>1, AnswerKinds, AnswersNothing
    <2>4. KeepsEntries
      <3>1. UNCHANGED clients \/ clients' = Without(clients, findItem(my_name[u]))
        BY <1>1 DEF Serve, CheckName, AddName, QuitWaiting, QuitName,
                    ServeList, ServeLeaveWait, EndOfStream, server
      <3> QED BY <3>1, SameEntries, Searching DEF KeepsEntries
    <2>5. KeepsNames
      BY <2>1, SameNames
    <2> QED BY <2>1, <2>2, <2>3, <2>4, <2>5
  <1>2. ASSUME Proceed(u) \/ Type(u), ~ Prepare(u), \A n \in Names : ~ Ask(u, n) PROVE Thins
    <2>1. UNCHANGED <<my_name, port, clients>>
      BY <1>2 DEF Proceed, Type, Joined, Rejected, Listed, Nobody, Accept, Join, BreakWait,
                  List, HangUp, Quit, Crash, server
    <2>2. KeepsAsked
      <3>1. \/ Send(u, Plain("a")) \/ Send(u, Plain("eof")) \/ Send(u, Plain("r"))
            \/ Send(u, Plain("l")) \/ Quit(u) \/ UNCHANGED inbox
        BY <1>2 DEF Proceed, Type, Joined, Rejected, Listed, Nobody, Accept, Join, BreakWait,
                    List, HangUp, Crash
      <3> QED BY <3>1, CommandKinds, AsksNothing
    <2>3. KeepsPeers
      <3>1. (\E a : Hears(u, a)) \/ UNCHANGED outbox
        BY <1>2 DEF Proceed, Type, Joined, Rejected, Listed, Nobody, Accept, Join, BreakWait,
                    List, HangUp, Quit, Crash
      <3> QED BY <3>1, AnswersNothing
    <2>4. KeepsNames
      <3>1. /\ \A v \in Users : v # u => mode'[v] = mode[v]
            /\ \/ mode'[u] \notin {"preparing", "disturbed"}
               \/ mode[u] \in {"preparing", "disturbed"}
        BY <1>2, TypesOf DEF Proceed, Type, Joined, Rejected, Listed, Nobody, Accept, Join,
                    BreakWait, Interrupted, List, HangUp, Quit, Crash, Goto
      <3> QED BY <2>1, <3>1, SameNames
    <2>5. \A v \in Users : backlog'[v] \subseteq backlog[v]
      BY <1>2, TypesOf DEF Proceed, Type, Joined, Rejected, Listed, Nobody, Accept, Join,
                  BreakWait, List, HangUp, Quit, Crash
    <2> QED BY <2>1, <2>2, <2>3, <2>4, <2>5, SameEntries
  <1>3. CASE Prepare(u)
    <2>1. UNCHANGED <<my_name, clients, inbox, outbox, backlog>>
      BY <1>3 DEF Prepare, server
    <2>2. /\ mode[u] = "normal" /\ mode'[u] = "preparing" /\ port'[u] = port[u] + 1
          /\ \A v \in Users : v # u => mode'[v] = mode[v] /\ port'[v] = port[v]
      BY <1>3, TypesOf DEF Prepare, Goto
    <2>3. \A v \in Users : Told(v)' = Told(v) /\ Told(v) \in Int
      BY <2>2, Numbers DEF Told
    <2>4. \A v \in Users : Told(v) <= Told(v)'
      BY <2>3
    <2> QED BY <2>1, <2>4, AsksNothing, AnswersNothing, SameEntries DEF KeepsNames
  <1>4. ASSUME NEW n \in Names, Ask(u, n) PROVE Thins
    <2>1. UNCHANGED <<my_name, port, clients, outbox, backlog>>
      BY <1>4 DEF Ask, server
    <2>2. KeepsAsked
      <3>1. Connect(n) \in Commands /\ Connect(n).cmd # "w" /\ Send(u, Connect(n))
        BY <1>4, CommandKinds DEF Ask
      <3> QED BY <3>1, AsksNothing
    <2>3. KeepsNames
      <3>1. /\ \A v \in Users : v # u => mode'[v] = mode[v]
            /\ mode'[u] = "asking"
        BY <1>4, TypesOf DEF Ask, Goto
      <3> QED BY <2>1, <3>1, SameNames
    <2> QED BY <2>1, <2>2, <2>3, AnswersNothing, SameEntries
  <1> QED BY <1>1, <1>2, <1>3, <1>4

\* The command of /wait goes out: its port is a new one.
LEMMA TokensSendWait ==
  ASSUME TypeOK, TypeOK', Counted, Tokens, NEW u \in Users, SendWait(u)
  PROVE  Tokens'
  <1> DEFINE q == port[u]
  <1>1. /\ UNCHANGED <<my_name, clients, outbox, backlog, port>>
        /\ \A v \in Users : v # u => mode'[v] = mode[v]
        /\ mode[u] \in {"preparing", "disturbed"} /\ mode'[u] \in {"waiting", "normal"}
    BY TypesOf DEF SendWait, server, Goto
  <1>2. q \in 1 .. MaxCmds /\ WaitOn(q) \in Commands /\ Send(u, WaitOn(q))
    <2>1. port[u] >= 1
      BY <1>1 DEF Counted
    <2>2. q \in 1 .. MaxCmds
      BY <2>1, Numbers
    <2> QED BY <2>2, CommandKinds DEF SendWait
  <1>3. /\ Told(u) = q - 1 /\ Told(u)' = q
        /\ \A v \in Users : v # u => Told(v)' = Told(v)
    BY <1>1 DEF Told
  <1>4. KeepsNames
    <2>1. \A v \in Users : Told(v) <= Told(v)'
      BY <1>2, <1>3, ToldNumbers
    <2> QED BY <1>1, <2>1 DEF KeepsNames
  <1>5. \A v \in Users : \A p : Unlisted(v, p)' <=> Unlisted(v, p)
    BY <1>1 DEF Unlisted, EntryOf
  <1>6. \A p : p <= Told(u) /\ p \in Int => p # q
    BY <1>2, <1>3
  <1>7. Unlisted(u, q)
    <2>1. EntryOf(u, q) \in Entry /\ EntryOf(u, q).owner = u /\ EntryOf(u, q).port = q /\ q \in Int
      <3>1. EntryOf(u, q) \in Entry
        BY <1>2, TypesOf DEF EntryOf, Entry
      <3>2. EntryOf(u, q).owner = u /\ EntryOf(u, q).port = q
        BY DEF EntryOf
      <3>3. q \in Int
        BY <1>2
      <3> QED BY <3>1, <3>2, <3>3
    <2>2. ~ Proper(EntryOf(u, q))
      BY <1>6, <2>1 DEF Proper
    <2> QED BY <2>1, <2>2 DEF Unlisted, Tokens, ProperEntries
  <1>8. /\ \A v \in Users : v # u => inbox'[v] = inbox[v]
        /\ \A i \in 1 .. Len(inbox[u]) : inbox'[u][i] = inbox[u][i]
        /\ inbox'[u][Len(inbox[u]) + 1] = WaitOn(q)
        /\ \A i \in 1 .. Len(inbox'[u]) : i \in 1 .. Len(inbox[u]) \/ i = Len(inbox[u]) + 1
    BY <1>2, Sending
  <1>9. \A p \in 1 .. MaxCmds : WaitOn(p) = WaitOn(q) => p = q
    BY DEF WaitOn
  <1> HIDE DEF q
  <1>10. ASSUME NEW v \in Users, NEW i \in 1 .. Len(inbox'[v]), NEW p \in 1 .. MaxCmds,
                inbox'[v][i] = WaitOn(p)
         PROVE  /\ p <= Told(v)' /\ Unlisted(v, p)'
                /\ \A k \in 1 .. Len(inbox'[v]) : inbox'[v][k] = WaitOn(p) => k = i
    <2>1. ASSUME i \in 1 .. Len(inbox[v]), inbox[v][i] = WaitOn(p)
          PROVE  /\ p <= Told(v)' /\ Unlisted(v, p)' /\ (v = u => p # q)
                 /\ \A k \in 1 .. Len(inbox[v]) : inbox[v][k] = WaitOn(p) => k = i
      <3>1. /\ p <= Told(v) /\ Unlisted(v, p)
            /\ \A k \in 1 .. Len(inbox[v]) : inbox[v][k] = WaitOn(p) => k = i
        BY <2>1 DEF Tokens, Asked, Length
      <3>2. p <= Told(v)'
        BY <1>4, <3>1, ToldNumbers DEF KeepsNames
      <3>3. v = u => p # q
        BY <1>6, <3>1
      <3> QED BY <1>5, <3>1, <3>2, <3>3
    <2>2. CASE v # u
      BY <1>8, <1>10, <2>1, <2>2
    <2>3. CASE v = u /\ p # q
      <3>1. i \in 1 .. Len(inbox[v]) /\ inbox[v][i] = WaitOn(p)
        BY <1>8, <1>9, <1>10, <2>3
      <3> QED BY <1>8, <1>9, <2>1, <2>3, <3>1
    <2>4. CASE v = u /\ p = q
      <3>1. p <= Told(v)' /\ Unlisted(v, p)'
        BY <1>2, <1>3, <1>5, <1>7, <2>4
      <3>2. ASSUME NEW k \in 1 .. Len(inbox'[v]), inbox'[v][k] = WaitOn(p)
            PROVE  k = Len(inbox[u]) + 1
        BY <1>6, <1>8, <2>4, <3>2 DEF Tokens, Asked, Length
      <3> QED BY <1>10, <3>1, <3>2
    <2> QED BY <2>2, <2>3, <2>4
  <1>11. Asked'
    BY <1>10 DEF Asked, Length
  <1>12. ASSUME NEW v \in Users, NEW p \in backlog'[v]
         PROVE  /\ p <= Told(v)' /\ Unlisted(v, p)'
                /\ \A i \in 1 .. Len(inbox'[v]) : inbox'[v][i] # WaitOn(p)
    <2>1. p \in backlog[v] /\ p \in 1 .. MaxCmds
      BY <1>1, TypesOf
    <2>2. /\ p <= Told(v) /\ Unlisted(v, p)
          /\ \A i \in 1 .. Len(inbox[v]) : inbox[v][i] # WaitOn(p)
      BY <2>1 DEF Tokens, Called, Length
    <2>3. p <= Told(v)'
      BY <1>4, <2>1, <2>2, ToldNumbers DEF KeepsNames
    <2>4. v = u => WaitOn(p) # WaitOn(q)
      BY <1>6, <1>9, <2>1, <2>2
    <2>5. \A i \in 1 .. Len(inbox'[v]) : inbox'[v][i] # WaitOn(p)
      BY <1>8, <2>2, <2>4
    <2> QED BY <1>5, <2>2, <2>3, <2>5
  <1>13. Called'
    BY <1>12 DEF Called, Length
  <1>14. ProperEntries'
    <2>1. \A e \in Entry : Proper(e) => Proper(e)'
      BY <1>4, StaysProper
    <2> QED BY <1>1, <2>1 DEF Tokens, ProperEntries
  <1>15. Handed'
    BY <1>1 DEF Tokens, Handed
  <1> QED BY <1>11, <1>13, <1>14, <1>15 DEF Tokens

\* The command of /wait is served: its entry takes its place.
LEMMA TokensServeWait ==
  ASSUME TypeOK, TypeOK', Tokens, NEW u \in Users, ServeWait(u)
  PROVE  Tokens'
  <1>1. UNCHANGED <<my_name, port, mode, backlog, outbox>>
    BY DEF ServeWait, users
  <1>2. KeepsNames
    BY <1>1, SameNames
  <1>3. PICK n \in 1 .. Len(inbox[u]) :
          \A i \in 1 .. Len(inbox'[u]) : n + i \in 1 .. Len(inbox[u])
                                         /\ inbox'[u][i] = inbox[u][n + i]
    BY Reading DEF ServeWait
  <1>4. /\ \A v \in Users : v # u => inbox'[v] = inbox[v]
        /\ Head(inbox[u]) = inbox[u][1] /\ inbox[u][1] \in Commands /\ inbox[u][1].cmd = "w"
        /\ Len(inbox[u]) \in Nat \ {0}
    BY Reading DEF ServeWait, Cmd
  <1>5. PICK q \in 1 .. MaxCmds : inbox[u][1] = WaitOn(q) /\ inbox[u][1].port = q
    BY <1>4, CommandKinds
  <1>6. /\ q <= Told(u) /\ Unlisted(u, q)
        /\ \A k \in 1 .. Len(inbox[u]) : inbox[u][k] = WaitOn(q) => k = 1
    <2>1. 1 \in 1 .. Len(inbox[u])
      BY <1>4
    <2> QED BY <1>5, <2>1 DEF Tokens, Asked, Length
  <1>7. clients' = Append(clients, EntryOf(u, q)) /\ EntryOf(u, q) \in Entry
    BY <1>4, <1>5, TypesOf DEF ServeWait, EntryOf, Entry
  <1> DEFINE e == EntryOf(u, q)
  <1>8. /\ Len(clients') = Len(clients) + 1 /\ clients'[Len(clients) + 1] = e
        /\ \A m \in 1 .. Len(clients) : clients'[m] = clients[m]
        /\ \A m \in 1 .. Len(clients') : m \in 1 .. Len(clients) \/ m = Len(clients) + 1
    <2>1. clients \in Seq(Entry) /\ Len(clients) \in Nat
      BY TypesOf
    <2>2. /\ Len(Append(clients, e)) = Len(clients) + 1
          /\ Append(clients, e)[Len(clients) + 1] = e
          /\ \A m \in 1 .. Len(clients) : Append(clients, e)[m] = clients[m]
      BY <1>7, <2>1, AppendProperties
    <2>3. \A m \in 1 .. Len(clients) + 1 : m \in 1 .. Len(clients) \/ m = Len(clients) + 1
      BY <2>1
    <2> QED BY <1>7, <2>2, <2>3
  <1>9. ASSUME NEW v \in Users, NEW p, Unlisted(v, p), v # u \/ p # q
        PROVE  Unlisted(v, p)'
    <2>1. EntryOf(v, p)' = EntryOf(v, p) /\ EntryOf(v, p) # e
      BY <1>1, <1>9 DEF EntryOf
    <2>2. \A m \in 1 .. Len(clients') : clients'[m] # EntryOf(v, p)
      BY <1>8, <1>9, <2>1 DEF Unlisted
    <2>3. \A w \in Users : \A k \in 1 .. Len(outbox'[w]) : outbox'[w][k] # Peer(EntryOf(v, p))
      BY <1>1, <1>9 DEF Unlisted
    <2> QED BY <2>1, <2>2, <2>3 DEF Unlisted
  <1>10. \A i \in 1 .. Len(inbox'[u]) : inbox'[u][i] # WaitOn(q)
    <2>1. \A i \in 1 .. Len(inbox'[u]) : n + i # 1
      BY <1>4
    <2> QED BY <1>3, <1>6, <2>1
  <1>11. ASSUME NEW v \in Users, NEW i \in 1 .. Len(inbox'[v]), NEW p \in 1 .. MaxCmds,
                inbox'[v][i] = WaitOn(p)
         PROVE  /\ p <= Told(v)' /\ Unlisted(v, p)'
                /\ \A k \in 1 .. Len(inbox'[v]) : inbox'[v][k] = WaitOn(p) => k = i
    <2>1. Told(v)' = Told(v)
      BY <1>1 DEF Told
    <2>2. CASE v # u
      <3>1. inbox'[v] = inbox[v]
        BY <1>4, <2>2
      <3>2. /\ p <= Told(v) /\ Unlisted(v, p)
            /\ \A k \in 1 .. Len(inbox'[v]) : inbox'[v][k] = WaitOn(p) => k = i
        BY <1>11, <3>1 DEF Tokens, Asked, Length
      <3> QED BY <1>9, <2>1, <2>2, <3>2
    <2>3. CASE v = u
      <3>1. n + i \in 1 .. Len(inbox[v]) /\ inbox[v][n + i] = WaitOn(p)
        BY <1>3, <1>11, <2>3
      <3>2. /\ p <= Told(v) /\ Unlisted(v, p)
            /\ \A k \in 1 .. Len(inbox[v]) : inbox[v][k] = WaitOn(p) => k = n + i
        BY <3>1 DEF Tokens, Asked, Length
      <3>3. p # q
        BY <1>10, <1>11, <2>3
      <3>4. ASSUME NEW k \in 1 .. Len(inbox'[v]), inbox'[v][k] = WaitOn(p) PROVE k = i
        <4>1. n + k = n + i
          BY <1>3, <2>3, <3>2, <3>4
        <4> QED BY <1>4, <4>1
      <3> QED BY <1>9, <2>1, <3>2, <3>3, <3>4
    <2> QED BY <2>2, <2>3
  <1>12. Asked'
    BY <1>11 DEF Asked, Length
  <1>13. ASSUME NEW v \in Users, NEW p \in backlog'[v]
         PROVE  /\ p <= Told(v)' /\ Unlisted(v, p)'
                /\ \A i \in 1 .. Len(inbox'[v]) : inbox'[v][i] # WaitOn(p)
    <2>1. /\ p <= Told(v) /\ Unlisted(v, p)
          /\ \A i \in 1 .. Len(inbox[v]) : inbox[v][i] # WaitOn(p)
      BY <1>1 DEF Tokens, Called, Length
    <2>2. v # u \/ p # q
      <3>1. 1 \in 1 .. Len(inbox[u])
        BY <1>4
      <3> QED BY <1>5, <2>1, <3>1
    <2>3. \A i \in 1 .. Len(inbox'[v]) : inbox'[v][i] # WaitOn(p)
      <3>1. CASE v # u
        BY <1>4, <2>1, <3>1
      <3>2. CASE v = u
        BY <1>3, <2>1, <3>2
      <3> QED BY <3>1, <3>2
    <2>4. Told(v)' = Told(v)
      BY <1>1 DEF Told
    <2> QED BY <1>9, <2>1, <2>2, <2>3, <2>4
  <1>14. Called'
    BY <1>13 DEF Called, Length
  <1>15. Proper(e)
    <2>1. e.owner = u /\ e.port = q
      BY DEF EntryOf
    <2> QED BY <1>6, <2>1 DEF Proper
  <1>16. \A f \in Entry : Proper(f) => Proper(f)'
    BY <1>2, StaysProper
  <1>17. Unlisted(u, q)
    BY <1>6
  <1>18. /\ \A m \in 1 .. Len(clients) : clients[m] # e
         /\ \A v \in Users : \A k \in 1 .. Len(outbox[v]) : outbox[v][k] # Peer(e)
    BY <1>17 DEF Unlisted
  <1> HIDE DEF e
  <1>19. ProperEntries'
    <2>1. \A f \in Entry : \A m \in 1 .. Len(clients') : clients'[m] = f => Proper(f)
      BY <1>8, <1>15 DEF Tokens, ProperEntries
    <2>2. \A f \in Entry : \A v \in Users : \A k \in 1 .. Len(outbox'[v]) :
            outbox'[v][k] = Peer(f) => Proper(f)
      BY <1>1 DEF Tokens, ProperEntries
    <2> QED BY <1>16, <2>1, <2>2 DEF ProperEntries
  <1>20. \A m, k \in 1 .. Len(clients') : clients'[m] = clients'[k] => m = k
    BY <1>8, <1>18 DEF Tokens, Handed
  <1>21. ASSUME NEW f \in Entry, NEW v \in Users, NEW k \in 1 .. Len(outbox'[v]),
                outbox'[v][k] = Peer(f)
         PROVE  /\ \A m \in 1 .. Len(clients') : clients'[m] # f
                /\ \A w \in Users : \A i \in 1 .. Len(outbox'[w]) :
                     outbox'[w][i] = Peer(f) => w = v /\ i = k
    <2>1. f # e
      BY <1>1, <1>18, <1>21
    <2>2. /\ \A m \in 1 .. Len(clients) : clients[m] # f
          /\ \A w \in Users : \A i \in 1 .. Len(outbox[w]) :
               outbox[w][i] = Peer(f) => w = v /\ i = k
      BY <1>1, <1>21 DEF Tokens, Handed
    <2> QED BY <1>1, <1>8, <2>1, <2>2
  <1>22. Handed'
    BY <1>20, <1>21 DEF Handed
  <1> QED BY <1>12, <1>14, <1>19, <1>22 DEF Tokens

\* A connect is served: an entry leaves the list with the answer.
LEMMA TokensServeConnect ==
  ASSUME TypeOK, TypeOK', Tokens, NEW u \in Users, ServeConnect(u)
  PROVE  Tokens'
  <1>1. /\ UNCHANGED <<my_name, port, mode, backlog>>
        /\ Read(u, "c")
    BY DEF ServeConnect, users
  <1>2. KeepsNames /\ KeepsAsked
    BY <1>1, SameNames, AsksNothing
  <1>3. PICK j \in 0 .. Len(clients) :
          /\ clients' = Without(clients, j)
          /\ Respond(u, IF j = 0 THEN Answer("nobody") ELSE Peer(clients[j]))
    BY Searching DEF ServeConnect
  <1>4. KeepsEntries
    BY <1>3 DEF KeepsEntries
  <1>5. CASE j = 0
    <2>1. KeepsPeers
      BY <1>3, <1>5, AnswerKinds, AnswersNothing
    <2> QED BY <1>1, <1>2, <1>4, <2>1, Thinning DEF Thins
  <1>6. CASE j # 0
    <2>1. j \in 1 .. Len(clients)
      BY <1>6, Lengths
    <2>2. PICK e \in Entry : e = clients[j]
      BY <2>1, TypesOf
    <2>3. /\ \A v \in Users : v # u => outbox'[v] = outbox[v]
          /\ \A i \in 1 .. Len(outbox[u]) : outbox'[u][i] = outbox[u][i]
          /\ outbox'[u][Len(outbox[u]) + 1] = Peer(e)
          /\ \A i \in 1 .. Len(outbox'[u]) : i \in 1 .. Len(outbox[u]) \/ i = Len(outbox[u]) + 1
      <3>1. Respond(u, Peer(e)) /\ Peer(e) \in Answers
        BY <1>3, <1>6, <2>2, AnswerKinds
      <3> QED BY <3>1, Responding
    <2>4. \A f \in Entry : Peer(f) = Peer(e) => f = e
      BY DEF Peer
    <2>5. \A m \in 1 .. Len(clients') : \E k \in 1 .. Len(clients) : k # j /\ clients'[m] = clients[k]
      <3>1. clients \in Seq(Entry)
        BY TypesOf
      <3>2. \A m \in 1 .. Len(Without(clients, j)) :
              /\ Without(clients, j)[m] = clients[Before(j, m)]
              /\ Before(j, m) \in 1 .. Len(clients) /\ Before(j, m) # j
        BY <3>1, Taking
      <3> QED BY <1>3, <3>2
    <2>6. /\ \A m \in 1 .. Len(clients') : clients'[m] # e
          /\ \A v \in Users : \A k \in 1 .. Len(outbox[v]) : outbox[v][k] # Peer(e)
      BY <2>1, <2>2, <2>5 DEF Tokens, Handed
    <2>7. ASSUME NEW v \in Users, NEW p \in 1 .. MaxCmds, Unlisted(v, p)
          PROVE  Unlisted(v, p)'
      <3>1. PICK f \in Entry : f = EntryOf(v, p)
        BY TypesOf DEF Entry, EntryOf
      <3>2. EntryOf(v, p)' = f
        BY <1>1, <3>1 DEF EntryOf
      <3>3. /\ \A m \in 1 .. Len(clients) : clients[m] # f
            /\ \A w \in Users : \A k \in 1 .. Len(outbox[w]) : outbox[w][k] # Peer(f)
        BY <2>7, <3>1 DEF Unlisted
      <3>4. \A m \in 1 .. Len(clients') : clients'[m] # f
        BY <2>5, <3>3
      <3>5. f # e
        BY <2>1, <2>2, <3>3
      <3>6. ASSUME NEW w \in Users, NEW k \in 1 .. Len(outbox'[w]) PROVE outbox'[w][k] # Peer(f)
        <4>1. CASE w # u
          BY <2>3, <3>3, <4>1
        <4>2. CASE w = u
          BY <2>3, <2>4, <3>3, <3>5, <4>2
        <4> QED BY <4>1, <4>2
      <3> QED BY <3>2, <3>4, <3>6 DEF Unlisted
    <2>8. /\ Asked'
          /\ \A v \in Users : \A p \in backlog[v] :
              /\ p <= Told(v)' /\ Unlisted(v, p)'
              /\ \A i \in 1 .. Len(inbox'[v]) : inbox'[v][i] # WaitOn(p)
      BY <1>2, <2>7, StillOne
    <2>9. Called'
      BY <1>1, <2>8 DEF Called, Length
    <2>10. \A f \in Entry : Proper(f) => Proper(f)'
      BY <1>2, StaysProper
    <2>11. ASSUME NEW f \in Entry, NEW m \in 1 .. Len(clients'), clients'[m] = f
           PROVE  Proper(f)'
      BY <2>5, <2>10, <2>11 DEF Tokens, ProperEntries
    <2>12. ASSUME NEW f \in Entry, NEW v \in Users, NEW k \in 1 .. Len(outbox'[v]),
                  outbox'[v][k] = Peer(f)
           PROVE  f = e \/ \E i \in 1 .. Len(outbox[v]) : i = k /\ outbox[v][i] = Peer(f)
      <3>1. CASE v # u
        BY <2>3, <2>12, <3>1
      <3>2. CASE v = u
        BY <2>3, <2>4, <2>12, <3>2
      <3> QED BY <3>1, <3>2
    <2>13. Proper(e)
      BY <2>1, <2>2 DEF Tokens, ProperEntries
    <2>14. ASSUME NEW f \in Entry, NEW v \in Users, NEW k \in 1 .. Len(outbox'[v]),
                  outbox'[v][k] = Peer(f)
           PROVE  Proper(f)'
      <3>1. CASE f = e
        BY <2>10, <2>13, <3>1
      <3>2. CASE f # e
        BY <2>10, <2>12, <2>14, <3>2 DEF Tokens, ProperEntries
      <3> QED BY <3>1, <3>2
    <2>15. ProperEntries'
      BY <2>11, <2>14 DEF ProperEntries
    <2>16. \A m, k \in 1 .. Len(clients') : clients'[m] = clients'[k] => m = k
      <3>1. PICK i \in 0 .. Len(clients) : \A m \in 1 .. Len(clients') :
               /\ clients'[m] = clients[Before(i, m)] /\ Before(i, m) \in 1 .. Len(clients)
               /\ \A k \in 1 .. Len(clients') : k # m => Before(i, k) # Before(i, m)
        BY <1>4, FewerEntries
      <3> QED BY <3>1 DEF Tokens, Handed
    <2>17. ASSUME NEW v \in Users, NEW k \in 1 .. Len(outbox'[v]), outbox'[v][k] = Peer(e)
           PROVE  v = u /\ k = Len(outbox[u]) + 1
      <3>1. CASE v # u
        BY <2>3, <2>6, <2>17, <3>1
      <3>2. CASE v = u
        BY <2>3, <2>6, <2>17, <3>2
      <3> QED BY <3>1, <3>2
    <2>18. ASSUME NEW f \in Entry, NEW v \in Users, NEW k \in 1 .. Len(outbox'[v]),
                  outbox'[v][k] = Peer(f)
           PROVE  /\ \A m \in 1 .. Len(clients') : clients'[m] # f
                  /\ \A w \in Users : \A i \in 1 .. Len(outbox'[w]) :
                       outbox'[w][i] = Peer(f) => w = v /\ i = k
      <3>1. CASE f = e
        BY <2>6, <2>17, <2>18, <3>1
      <3>2. CASE f # e
        <4>1. k \in 1 .. Len(outbox[v]) /\ outbox[v][k] = Peer(f)
          BY <2>12, <2>18, <3>2
        <4>2. /\ \A m \in 1 .. Len(clients) : clients[m] # f
              /\ \A w \in Users : \A i \in 1 .. Len(outbox[w]) :
                   outbox[w][i] = Peer(f) => w = v /\ i = k
          BY <4>1 DEF Tokens, Handed
        <4>3. \A m \in 1 .. Len(clients') : clients'[m] # f
          BY <2>5, <4>2
        <4>4. ASSUME NEW w \in Users, NEW i \in 1 .. Len(outbox'[w]), outbox'[w][i] = Peer(f)
              PROVE  w = v /\ i = k
          <5>1. i \in 1 .. Len(outbox[w]) /\ outbox[w][i] = Peer(f)
            BY <2>12, <3>2, <4>4
          <5> QED BY <4>2, <5>1
        <4> QED BY <4>3, <4>4
      <3> QED BY <3>1, <3>2
    <2>19. Handed'
      BY <2>16, <2>18 DEF Handed
    <2> QED BY <2>8, <2>9, <2>15, <2>19 DEF Tokens
  <1> QED BY <1>5, <1>6

\* The answer is dialled: a call takes its place, if the port is open.
LEMMA TokensDial ==
  ASSUME TypeOK, TypeOK', Tokens, NEW u \in Users, Dial(u)
  PROVE  Tokens'
  <1>1. /\ UNCHANGED <<my_name, port, clients>> /\ Hears(u, "peer")
        /\ \A v \in Users : v # u => mode'[v] = mode[v]
        /\ mode'[u] \in {"talking", "dead"}
    BY TypesOf DEF Dial, server, Goto
  <1>2. KeepsNames /\ KeepsPeers /\ KeepsEntries
    BY <1>1, SameNames, AnswersNothing, SameEntries
  <1>3. KeepsAsked
    <2>1. Send(u, Plain("eof")) \/ UNCHANGED inbox
      BY DEF Dial
    <2> QED BY <2>1, CommandKinds, AsksNothing
  <1>4. /\ 1 \in 1 .. Len(outbox[u])
        /\ outbox[u][1] \in Answers /\ Head(outbox[u]) = outbox[u][1] /\ outbox[u][1].ans = "peer"
        /\ \A v \in Users : v # u => outbox'[v] = outbox[v]
        /\ \A i \in 1 .. Len(outbox'[u]) : /\ i + 1 \in 1 .. Len(outbox[u]) /\ i + 1 # 1
                                           /\ outbox'[u][i] = outbox[u][i + 1]
    <2>1. \A i \in 1 .. Len(outbox'[u]) : i + 1 # 1
      OBVIOUS
    <2>2. Len(outbox[u]) \in Nat \ {0} => 1 \in 1 .. Len(outbox[u])
      OBVIOUS
    <2>3. Len(outbox[u]) \in Nat \ {0}
      BY <1>1, Hearing
    <2>4. outbox[u][1] \in Answers /\ Head(outbox[u]) = outbox[u][1] /\ outbox[u][1].ans = "peer"
      BY <1>1, Hearing
    <2>5. /\ \A v \in Users : v # u => outbox'[v] = outbox[v]
          /\ \A i \in 1 .. Len(outbox'[u]) : i + 1 \in 1 .. Len(outbox[u])
                                             /\ outbox'[u][i] = outbox[u][i + 1]
      BY <1>1, Hearing
    <2> QED BY <2>1, <2>2, <2>3, <2>4, <2>5
  <1>5. PICK e \in Entry : Head(outbox[u]).entry = e /\ outbox[u][1] = Peer(e)
    BY <1>4, AnswerKinds
  <1>6. CASE e.port \notin open[e.owner]
    <2>1. UNCHANGED backlog
      BY <1>5, <1>6 DEF Dial
    <2> QED BY <1>2, <1>3, <2>1, Thinning DEF Thins
  <1>7. CASE e.port \in open[e.owner]
    <2>1. PICK w \in Users, q \in 1 .. MaxCmds : w = e.owner /\ q = e.port
      BY DEF Entry
    <2>2. backlog' = [backlog EXCEPT ![w] = @ \cup {q}]
      BY <1>5, <1>7, <2>1 DEF Dial
    <2>3. Proper(e)
      BY <1>4, <1>5 DEF Tokens, ProperEntries
    <2>4. e = EntryOf(w, q) /\ q <= Told(w)
      BY <2>1, <2>3 DEF Proper
    <2>5. /\ \A m \in 1 .. Len(clients) : clients[m] # e
          /\ \A v \in Users : \A i \in 1 .. Len(outbox[v]) :
               outbox[v][i] = Peer(e) => v = u /\ i = 1
      BY <1>4, <1>5 DEF Tokens, Handed
    <2>6. \A v \in Users, p \in 1 .. MaxCmds : Unlisted(v, p) => Unlisted(v, p)'
      BY <1>1, <1>2, StaysUnlisted
    <2>7. /\ Asked'
          /\ \A v \in Users : \A p \in backlog[v] :
              /\ p <= Told(v)' /\ Unlisted(v, p)'
              /\ \A i \in 1 .. Len(inbox'[v]) : inbox'[v][i] # WaitOn(p)
      BY <1>2, <1>3, <2>6, StillOne
    <2>8. q <= Told(w)'
      <3>1. q \in Int
        OBVIOUS
      <3> QED BY <1>2, <2>4, <3>1, ToldNumbers DEF KeepsNames
    <2>9. Unlisted(w, q)'
      <3>1. EntryOf(w, q)' = e
        BY <1>1, <2>4 DEF EntryOf
      <3>2. \A m \in 1 .. Len(clients') : clients'[m] # e
        BY <1>1, <2>5
      <3>3. ASSUME NEW v \in Users, NEW k \in 1 .. Len(outbox'[v]) PROVE outbox'[v][k] # Peer(e)
        <4>1. CASE v # u
          <5>1. outbox'[v] = outbox[v] /\ k \in 1 .. Len(outbox[v])
            BY <1>4, <4>1
          <5> QED BY <2>5, <4>1, <5>1
        <4>2. CASE v = u
          <5>1. k + 1 \in 1 .. Len(outbox[v]) /\ k + 1 # 1 /\ outbox'[v][k] = outbox[v][k + 1]
            BY <1>4, <4>2
          <5> QED BY <2>5, <5>1, Zenon
        <4> QED BY <4>1, <4>2
      <3> QED BY <3>1, <3>2, <3>3 DEF Unlisted
    <2>10. \A i \in 1 .. Len(inbox'[w]) : inbox'[w][i] # WaitOn(q)
      <3>1. ~ Unlisted(w, q)
        BY <1>4, <1>5, <2>4 DEF Unlisted
      <3>2. \A i \in 1 .. Len(inbox[w]) : inbox[w][i] # WaitOn(q)
        BY <3>1 DEF Tokens, Asked, Length
      <3>3. PICK n \in Nat : \A i \in 1 .. Len(inbox'[w]) : inbox'[w][i].cmd = "w" =>
              n + i \in 1 .. Len(inbox[w]) /\ inbox'[w][i] = inbox[w][n + i]
        BY <1>3 DEF KeepsAsked
      <3>4. WaitOn(q).cmd = "w"
        BY DEF WaitOn
      <3> QED BY <3>2, <3>3, <3>4
    <2>11. \A v \in Users : \A p \in backlog'[v] : p \in backlog[v] \/ (v = w /\ p = q)
      BY <2>2, TypesOf
    <2>12. ASSUME NEW v \in Users, NEW p \in backlog'[v]
           PROVE  /\ p <= Told(v)' /\ Unlisted(v, p)'
                  /\ \A i \in 1 .. Len(inbox'[v]) : inbox'[v][i] # WaitOn(p)
      <3>1. CASE p \in backlog[v]
        BY <2>7, <3>1
      <3>2. CASE v = w /\ p = q
        BY <2>8, <2>9, <2>10, <3>2
      <3> QED BY <2>11, <3>1, <3>2
    <2>13. Called'
      BY <2>12 DEF Called, Length
    <2>14. \A f \in Entry : Proper(f) => Proper(f)'
      BY <1>2, StaysProper
    <2>15. ASSUME NEW f \in Entry, NEW v \in Users, NEW k \in 1 .. Len(outbox'[v]),
                  outbox'[v][k] = Peer(f)
           PROVE  Proper(f)'
      <3>1. PICK l \in 1 .. Len(outbox[v]) : outbox[v][l] = Peer(f)
        <4>1. outbox'[v][k].ans = "peer"
          BY <2>15 DEF Peer
        <4> QED BY <1>2, <2>15, <4>1 DEF KeepsPeers
      <3> QED BY <2>14, <3>1 DEF Tokens, ProperEntries
    <2>16. \A f \in Entry : \A m \in 1 .. Len(clients') : clients'[m] = f => Proper(f)'
      BY <1>1, <2>14 DEF Tokens, ProperEntries
    <2>17. ProperEntries'
      BY <2>15, <2>16 DEF ProperEntries
    <2>18. Handed'
      <3>1. \A m, k \in 1 .. Len(clients') : clients'[m] = clients'[k] => m = k
        BY <1>1 DEF Tokens, Handed
      <3>2. ASSUME NEW f \in Entry, NEW v \in Users, NEW k \in 1 .. Len(outbox'[v]),
                   outbox'[v][k] = Peer(f)
            PROVE  \E i \in 1 .. Len(outbox[v]) :
                     /\ outbox[v][i] = Peer(f) /\ i = IF v = u THEN k + 1 ELSE k
        BY <1>4, <3>2
      <3>3. ASSUME NEW f \in Entry, NEW v \in Users, NEW k \in 1 .. Len(outbox'[v]),
                   outbox'[v][k] = Peer(f)
            PROVE  /\ \A m \in 1 .. Len(clients') : clients'[m] # f
                   /\ \A x \in Users : \A i \in 1 .. Len(outbox'[x]) :
                        outbox'[x][i] = Peer(f) => x = v /\ i = k
        <4>1. PICK l \in 1 .. Len(outbox[v]) :
                outbox[v][l] = Peer(f) /\ l = IF v = u THEN k + 1 ELSE k
          BY <3>2, <3>3
        <4>2. /\ \A m \in 1 .. Len(clients) : clients[m] # f
              /\ \A x \in Users : \A i \in 1 .. Len(outbox[x]) :
                   outbox[x][i] = Peer(f) => x = v /\ i = l
          BY <4>1 DEF Tokens, Handed
        <4>3. ASSUME NEW x \in Users, NEW i \in 1 .. Len(outbox'[x]), outbox'[x][i] = Peer(f)
              PROVE  x = v /\ i = k
          <5>1. PICK j \in 1 .. Len(outbox[x]) :
                  outbox[x][j] = Peer(f) /\ j = IF x = u THEN i + 1 ELSE i
            BY <3>2, <4>3
          <5>2. x = v /\ j = l
            BY <4>2, <5>1
          <5>3. i \in Nat /\ k \in Nat
            OBVIOUS
          <5> QED BY <4>1, <5>1, <5>2, <5>3
        <4> QED BY <1>1, <4>2, <4>3
      <3> QED BY <3>1, <3>3 DEF Handed
    <2> QED BY <2>7, <2>13, <2>17, <2>18 DEF Tokens
  <1> QED BY <1>6, <1>7

LEMMA TokensStep ==
  ASSUME TypeOK, TypeOK', Counted, Tokens, NEW u \in Users, Serve(u) \/ Proceed(u) \/ Type(u)
  PROVE  Tokens'
  <1>1. CASE SendWait(u)
    BY <1>1, TokensSendWait
  <1>2. CASE ServeWait(u)
    BY <1>2, TokensServeWait
  <1>3. CASE ServeConnect(u)
    BY <1>3, TokensServeConnect
  <1>4. CASE Dial(u)
    BY <1>4, TokensDial
  <1>5. CASE ~ ServeWait(u) /\ ~ ServeConnect(u) /\ ~ SendWait(u) /\ ~ Dial(u)
    BY <1>5, ThinSteps, Thinning
  <1> QED BY <1>1, <1>2, <1>3, <1>4, <1>5

-----------------------------------------------------------------------------
(* The life of a connection.                                               *)

\* If a read returns one command, the others move up by one.
LEMMA ReadingOne ==
  ASSUME TypeOK, "coalesce" \notin faults, NEW u \in Users, NEW c, Read(u, c)
  PROVE  /\ handler[u] = "read" /\ inbox[u] # << >> /\ Length(u) \in Nat \ {0} /\ Cmd(u, 1) = c
         /\ 1 \in 1 .. Length(u)
         /\ Len(inbox'[u]) = Length(u) - 1
         /\ \A i \in 1 .. Len(inbox'[u]) : /\ i + 1 \in 1 .. Length(u) /\ i + 1 # 1
                                           /\ inbox'[u][i] = inbox[u][i + 1]
         /\ \A v \in Users : v # u => inbox'[v] = inbox[v]
  <1>1. PICK n \in 1 .. Len(inbox[u]) :
          /\ n > 1 => "coalesce" \in faults
          /\ Len(inbox'[u]) = Len(inbox[u]) - n
          /\ \A i \in 1 .. Len(inbox'[u]) : n + i \in 1 .. Len(inbox[u])
                                            /\ inbox'[u][i] = inbox[u][n + i]
    BY Reading
  <1>2. n = 1
    BY <1>1, Lengths
  <1>3. \A i \in 1 .. Len(inbox'[u]) : 1 + i = i + 1 /\ i + 1 # 1
    OBVIOUS
  <1>4. /\ Len(inbox'[u]) = Len(inbox[u]) - 1
        /\ \A i \in 1 .. Len(inbox'[u]) : /\ i + 1 \in 1 .. Len(inbox[u]) /\ i + 1 # 1
                                          /\ inbox'[u][i] = inbox[u][i + 1]
    BY <1>1, <1>2, <1>3
  <1>5. 1 \in 1 .. Len(inbox[u])
    BY <1>2
  <1> QED BY <1>4, <1>5, Reading DEF Length

\* Nothing changes for a user that takes no part in a step.
LEMMA OthersLive ==
  ASSUME NEW v \in Users, mode'[v] = mode[v], handler'[v] = handler[v],
         inbox'[v] = inbox[v], outbox'[v] = outbox[v], Life(v)
  PROVE  Life(v)' /\ (Held(v) <=> Held(v)')
  <1>1. Length(v)' = Length(v) /\ \A i : Cmd(v, i)' = Cmd(v, i)
    BY DEF Length, Cmd
  <1>2. NotYet(v)' <=> NotYet(v)
    BY DEF NotYet, Length, Cmd
  <1>3. Gone(v)' <=> Gone(v)
    BY DEF Gone
  <1>4. Life(v)'
    <2>1. \A i : Cmd(v, i)' = Cmd(v, i)
      BY <1>1
    <2>3. /\ mode'[v] = "out" => inbox'[v] = << >> /\ outbox'[v] = << >> /\ handler'[v] = "read"
          /\ handler'[v] = "add" => mode'[v] \in {"joining", "dead"} /\ outbox'[v] = << >>
          /\ handler'[v] = "remove name" => mode'[v] = "quit"
      BY DEF Life
    <2>4. handler'[v] = "done" => /\ mode'[v] \in {"joining", "quit", "dead"}
                                  /\ \A k \in 1 .. Len(outbox'[v]) : mode'[v] = "joining" =>
                                       outbox'[v][k].ans # "confirm"
      BY DEF Life
    <2>5. /\ handler'[v] # "read" => \A i \in 1 .. Length(v)' : Cmd(v, i)' = "eof"
          /\ mode'[v] = "quit" /\ handler'[v] = "read" =>
               \E i \in 1 .. Length(v)' : Cmd(v, i)' = "q"
      BY <1>1, <2>1 DEF Life
    <2>6. \A i \in 1 .. Length(v)' :
            /\ Cmd(v, i)' = "a"   => /\ i = 1 /\ mode'[v] \in {"joining", "dead"} /\ outbox'[v] = << >>
                                     /\ \A k \in 1 .. Length(v)' : k # 1 => Cmd(v, k)' = "eof"
            /\ Cmd(v, i)' = "q"   => i = Length(v)' - 1 /\ mode'[v] = "quit" /\ Cmd(v, i + 1)' = "eof"
            /\ Cmd(v, i)' = "eof" => i = Length(v)' /\ mode'[v] \in {"quit", "dead"}
      <3>1. \A i \in 1 .. Length(v) :
              /\ Cmd(v, i) = "a"   => /\ i = 1 /\ mode[v] \in {"joining", "dead"} /\ outbox[v] = << >>
                                      /\ \A k \in 1 .. Length(v) : k # 1 => Cmd(v, k) = "eof"
              /\ Cmd(v, i) = "q"   => i = Length(v) - 1 /\ mode[v] = "quit" /\ Cmd(v, i + 1) = "eof"
              /\ Cmd(v, i) = "eof" => i = Length(v) /\ mode[v] \in {"quit", "dead"}
        BY Zenon DEF Life
      <3> QED BY <1>1, <2>1, <3>1
    <2> QED BY <2>3, <2>4, <2>5, <2>6 DEF Life
  <1> QED BY <1>2, <1>3, <1>4 DEF Held

\* While a user is there its handler reads, and it sent neither a nor q.
LEMMA ActiveLife ==
  ASSUME TypeOK, NEW u \in Users, Life(u), mode[u] \in Active
  PROVE  /\ handler[u] = "read"
         /\ \A i \in 1 .. Length(u) : Cmd(u, i) \notin {"a", "q", "eof"}
         /\ Held(u)
  <1>1. handler[u] \in {"read", "add", "remove name", "done"}
    BY TypesOf
  <1>2. mode[u] \notin {"out", "joining", "quit", "dead"}
    BY DEF Active
  <1>3. handler[u] = "read"
    BY <1>1, <1>2 DEF Life
  <1>4. \A i \in 1 .. Length(u) : Cmd(u, i) \notin {"a", "q", "eof"}
    BY <1>2 DEF Life
  <1> QED BY <1>2, <1>3, <1>4 DEF Held, NotYet, Gone

LEMMA LifeServe ==
  ASSUME TypeOK, "coalesce" \notin faults, NEW u \in Users, Life(u), Serve(u)
  PROVE  Life(u)' /\ (~ QuitName(u) => (Held(u) => Held(u)'))
  <1> USE DEF Length, Cmd
  <1>1. mode'[u] = mode[u]
    BY DEF Serve, CheckName, AddName, QuitWaiting, QuitName, ServeConnect, ServeWait,
           ServeList, ServeLeaveWait, EndOfStream, users
  <1>2. CASE CheckName(u)
    <2>1. Read(u, "a")
      BY <1>2 DEF CheckName
    <2>2. /\ mode[u] \in {"joining", "dead"} /\ outbox[u] = << >> /\ handler[u] = "read"
          /\ \A i \in 1 .. Len(inbox'[u]) : /\ inbox'[u][i].cmd = "eof" /\ i = Len(inbox'[u])
                                             /\ mode[u] \in {"quit", "dead"}
      <3>1. 1 \in 1 .. Len(inbox[u]) /\ inbox[u][1].cmd = "a"
        BY <2>1, ReadingOne
      <3>2. /\ mode[u] \in {"joining", "dead"} /\ outbox[u] = << >>
            /\ \A k \in 1 .. Len(inbox[u]) : k # 1 => /\ inbox[u][k].cmd = "eof" /\ k = Len(inbox[u])
                                                      /\ mode[u] \in {"quit", "dead"}
        BY <3>1 DEF Life
      <3>3. /\ handler[u] = "read" /\ Len(inbox'[u]) = Len(inbox[u]) - 1
            /\ \A i \in 1 .. Len(inbox'[u]) : /\ i + 1 \in 1 .. Len(inbox[u]) /\ i + 1 # 1
                                              /\ inbox'[u][i] = inbox[u][i + 1]
        BY <2>1, ReadingOne
      <3>4. \A i \in 1 .. Len(inbox'[u]) : /\ inbox'[u][i].cmd = "eof" /\ i + 1 = Len(inbox[u])
                                                 /\ mode[u] \in {"quit", "dead"}
        BY <3>2, <3>3
      <3>5. \A i \in 1 .. Len(inbox'[u]) : i + 1 = Len(inbox[u]) => i = Len(inbox'[u])
        BY <3>3, Lengths
      <3> QED BY <3>2, <3>3, <3>4, <3>5
    <2>3. /\ handler'[u] \in {"add", "done"}
          /\ handler'[u] = "add" => outbox'[u] = outbox[u]
          /\ handler'[u] = "done" => \A k \in 1 .. Len(outbox'[u]) : outbox'[u][k].ans # "confirm"
      <3>1. CASE Respond(u, Answer("reject")) /\ Become(u, "done")
        <4>1. Len(outbox[u]) = 0
          BY <2>2
        <4>2. /\ \A k \in 1 .. Len(outbox'[u]) : k \in 1 .. Len(outbox[u]) \/ k = Len(outbox[u]) + 1
              /\ outbox'[u][Len(outbox[u]) + 1] = Answer("reject")
          BY <3>1, AnswerKinds, Responding
        <4>3. \A k \in 1 .. Len(outbox'[u]) : outbox'[u][k] = Answer("reject")
          BY <4>1, <4>2
        <4>4. Answer("reject").ans # "confirm"
          BY DEF Answer
        <4>5. handler'[u] = "done"
          BY <3>1, TypesOf DEF Become
        <4> QED BY <4>3, <4>4, <4>5
      <3>2. CASE Become(u, "add") /\ UNCHANGED outbox
        BY <3>2, TypesOf DEF Become
      <3> QED BY <1>2, <3>1, <3>2 DEF CheckName
    <2>4. Life(u)'
      <3>1. \A i \in 1 .. Len(inbox'[u]) :
              /\ inbox'[u][i].cmd # "a" /\ inbox'[u][i].cmd # "q"
              /\ i = Len(inbox'[u]) /\ mode'[u] \in {"quit", "dead"}
        BY <1>1, <2>2
      <3> QED BY <1>1, <2>2, <2>3, <3>1 DEF Life
    <2>5. ~ Held(u)
      BY <2>1, ReadingOne DEF Held, NotYet
    <2> QED BY <2>4, <2>5
  <1>3. CASE AddName(u)
    <2>1. /\ handler[u] = "add" /\ handler'[u] = "read" /\ UNCHANGED inbox
      BY <1>3, TypesOf DEF AddName, Become
    <2>2. /\ mode[u] \in {"joining", "dead"}
          /\ \A i \in 1 .. Len(inbox[u]) : inbox[u][i].cmd = "eof"
      BY <2>1 DEF Life
    <2> QED BY <1>1, <2>1, <2>2 DEF Life, Held, NotYet, Gone
  <1>4. CASE QuitWaiting(u)
    <2>1. /\ Read(u, "q") /\ handler'[u] = "remove name" /\ outbox'[u] = outbox[u]
      BY <1>4, TypesOf DEF QuitWaiting, Become
    <2>2. 1 \in 1 .. Len(inbox[u]) /\ inbox[u][1].cmd = "q"
      BY <2>1, ReadingOne
    <2>3. mode[u] = "quit" /\ 1 = Len(inbox[u]) - 1 /\ inbox[u][1 + 1].cmd = "eof"
      BY <2>2 DEF Life
    <2>4. \A i \in 1 .. Len(inbox'[u]) : inbox'[u][i].cmd = "eof" /\ i = Len(inbox'[u])
      <3>1. /\ Len(inbox'[u]) = Len(inbox[u]) - 1
            /\ \A i \in 1 .. Len(inbox'[u]) : inbox'[u][i] = inbox[u][i + 1]
        BY <2>1, ReadingOne
      <3>2. Len(inbox'[u]) = 1
        BY <2>3, <3>1, Lengths
      <3>3. \A i \in 1 .. Len(inbox'[u]) : i = 1
        BY <3>2
      <3> QED BY <2>3, <3>1, <3>2, <3>3
    <2> QED BY <1>1, <2>1, <2>3, <2>4 DEF Life, Held, NotYet, Gone
  <1>5. CASE QuitName(u)
    <2>1. /\ handler[u] = "remove name" /\ handler'[u] = "done" /\ UNCHANGED <<inbox, outbox>>
      BY <1>5, TypesOf DEF QuitName, Become
    <2> QED BY <1>1, <1>5, <2>1 DEF Life
  <1>6. CASE EndOfStream(u)
    <2>1. /\ Read(u, "eof") /\ handler'[u] = "done" /\ outbox'[u] = outbox[u]
      BY <1>6, TypesOf DEF EndOfStream, Become
    <2>2. 1 \in 1 .. Len(inbox[u]) /\ inbox[u][1].cmd = "eof" /\ handler[u] = "read"
      BY <2>1, ReadingOne
    <2>3. 1 = Len(inbox[u]) /\ mode[u] \in {"quit", "dead"}
      BY <2>2 DEF Life
    <2>4. Len(inbox'[u]) = 0
      <3>1. Len(inbox'[u]) = Len(inbox[u]) - 1
        BY <2>1, ReadingOne
      <3> QED BY <2>3, <3>1
    <2>5. ASSUME mode[u] = "quit" PROVE FALSE
      <3>1. PICK i \in 1 .. Len(inbox[u]) : inbox[u][i].cmd = "q"
        BY <2>2, <2>5 DEF Life
      <3>2. i = Len(inbox[u]) - 1
        BY <3>1 DEF Life
      <3>3. Len(inbox[u]) = 1
        BY <2>3
      <3>4. i = 0 /\ i \in 1 .. 1
        BY <3>1, <3>2, <3>3
      <3> QED BY <3>4
    <2>6. \A i : i \notin 1 .. Len(inbox'[u])
      BY <2>4
    <2>7. Life(u)'
      BY <1>1, <2>1, <2>3, <2>5, <2>6 DEF Life
    <2>8. Held(u)'
      BY <1>1, <2>1, <2>3, <2>5, <2>6 DEF Held, NotYet, Gone
    <2> QED BY <2>7, <2>8
  <1>7. ASSUME NEW c \in {"c", "w", "l", "r"}, Read(u, c), handler'[u] = handler[u]
        PROVE  Life(u)' /\ (Held(u) => Held(u)')
    <2>1. /\ handler[u] = "read" /\ inbox[u] # << >> /\ Len(inbox[u]) \in Nat \ {0}
          /\ inbox[u][1].cmd = c /\ Len(inbox'[u]) = Len(inbox[u]) - 1
          /\ \A i \in 1 .. Len(inbox'[u]) : /\ i + 1 \in 1 .. Len(inbox[u]) /\ i + 1 # 1
                                            /\ inbox'[u][i] = inbox[u][i + 1]
      BY <1>7, ReadingOne
    <2>2. \A i \in 1 .. Len(inbox'[u]) : inbox'[u][i].cmd # "a"
      BY <2>1 DEF Life
    <2>3. mode[u] # "out"
      BY <2>1 DEF Life
    <2>4. mode[u] = "quit" => \E i \in 1 .. Len(inbox'[u]) : inbox'[u][i].cmd = "q"
      <3>1. SUFFICES ASSUME mode[u] = "quit"
                     PROVE  \E i \in 1 .. Len(inbox'[u]) : inbox'[u][i].cmd = "q"
        OBVIOUS
      <3>2. PICK i \in 1 .. Len(inbox[u]) : inbox[u][i].cmd = "q"
        BY <2>1, <3>1 DEF Life
      <3>3. i # 1
        BY <2>1, <3>2
      <3>4. i - 1 \in 1 .. Len(inbox'[u]) /\ (i - 1) + 1 = i
        BY <2>1, <3>3
      <3> QED BY <2>1, <3>2, <3>4
    <2>5. \A i \in 1 .. Len(inbox'[u]) :
            /\ inbox'[u][i].cmd = "q" => /\ i = Len(inbox'[u]) - 1 /\ mode[u] = "quit"
                                         /\ inbox'[u][i + 1].cmd = "eof"
            /\ inbox'[u][i].cmd = "eof" => i = Len(inbox'[u]) /\ mode[u] \in {"quit", "dead"}
      <3> TAKE i \in 1 .. Len(inbox'[u])
      <3>1. i + 1 \in 1 .. Len(inbox[u]) /\ inbox'[u][i] = inbox[u][i + 1] /\ i \in Nat
        BY <2>1
      <3>2. /\ inbox'[u][i].cmd = "q" => /\ i + 1 = Len(inbox[u]) - 1 /\ mode[u] = "quit"
                                         /\ inbox[u][(i + 1) + 1].cmd = "eof"
            /\ inbox'[u][i].cmd = "eof" => i + 1 = Len(inbox[u]) /\ mode[u] \in {"quit", "dead"}
        BY <3>1 DEF Life
      <3>3. i + 1 = Len(inbox[u]) - 1 => /\ i = Len(inbox'[u]) - 1
                                         /\ i + 1 \in 1 .. Len(inbox'[u])
        BY <2>1, <3>1
      <3>4. i + 1 = Len(inbox[u]) => i = Len(inbox'[u])
        BY <2>1, <3>1
      <3> QED BY <2>1, <3>2, <3>3, <3>4
    <2> QED BY <1>1, <1>7, <2>1, <2>2, <2>3, <2>4, <2>5 DEF Life, Held, NotYet, Gone
  <1>8. CASE ServeConnect(u) \/ ServeWait(u) \/ ServeList(u) \/ ServeLeaveWait(u)
    BY <1>7, <1>8 DEF ServeConnect, ServeWait, ServeList, ServeLeaveWait, server
  <1> QED BY <1>2, <1>3, <1>4, <1>5, <1>6, <1>8 DEF Serve

\* The steps of a user that stays, or ends with a quit or the end of its stream.
LEMMA LifeSend ==
  ASSUME TypeOK, NEW u \in Users, Life(u), handler'[u] = handler[u],
         outbox'[u] = outbox[u] \/ (outbox[u] # << >> /\ mode'[u] # "joining"),
         mode'[u] # "out",
         \/ /\ mode[u] \in Active /\ mode'[u] \in Active
            /\ \/ UNCHANGED inbox
               \/ \E c \in Commands : c.cmd \notin {"a", "q", "eof"} /\ Send(u, c)
         \/ /\ mode[u] \in Active \cup {"joining"} /\ mode'[u] = "dead"
            /\ Send(u, Plain("eof"))
  PROVE  Life(u)' /\ (Held(u) => Held(u)')
  <1> USE DEF Length, Cmd
  <1>1. CASE mode[u] \in Active /\ mode'[u] \in Active
    <2>1. handler[u] = "read" /\ \A i \in 1 .. Len(inbox[u]) : inbox[u][i].cmd \notin {"a", "q", "eof"}
      BY <1>1, ActiveLife
    <2>2. mode[u] # "dead" /\ mode'[u] \notin {"out", "joining", "quit", "dead"}
      BY <1>1 DEF Active
    <2>3. \A i \in 1 .. Len(inbox'[u]) : inbox'[u][i].cmd \notin {"a", "q", "eof"}
      <3>1. CASE UNCHANGED inbox
        BY <2>1, <3>1
      <3>2. ASSUME NEW c \in Commands, c.cmd \notin {"a", "q", "eof"}, Send(u, c)
            PROVE  \A i \in 1 .. Len(inbox'[u]) : inbox'[u][i].cmd \notin {"a", "q", "eof"}
        <4>1. /\ \A i \in 1 .. Len(inbox[u]) : inbox'[u][i] = inbox[u][i]
              /\ inbox'[u][Len(inbox[u]) + 1] = c
              /\ \A i \in 1 .. Len(inbox'[u]) : i \in 1 .. Len(inbox[u]) \/ i = Len(inbox[u]) + 1
          BY <3>2, Sending
        <4> QED BY <2>1, <3>2, <4>1
      <3> QED BY <2>2, <3>1, <3>2
    <2>4. Life(u)'
      BY <2>1, <2>2, <2>3 DEF Life
    <2>5. Held(u)'
      BY <2>1, <2>2, <2>3 DEF Held, NotYet, Gone
    <2> QED BY <2>4, <2>5
  <1>2. CASE mode[u] \in Active \cup {"joining"} /\ mode'[u] = "dead" /\ Send(u, Plain("eof"))
    <2>1. mode[u] \notin {"out", "quit", "dead"}
      BY <1>2 DEF Active
    <2>2. /\ \A i \in 1 .. Len(inbox[u]) : inbox'[u][i] = inbox[u][i]
          /\ inbox'[u][Len(inbox[u]) + 1] = Plain("eof")
          /\ Len(inbox'[u]) = Len(inbox[u]) + 1 /\ Len(inbox[u]) \in Nat
          /\ \A i \in 1 .. Len(inbox'[u]) : i \in 1 .. Len(inbox[u]) \/ i = Len(inbox[u]) + 1
      BY <1>2, CommandKinds, Sending
    <2>3. \A i \in 1 .. Len(inbox[u]) : inbox[u][i].cmd \notin {"q", "eof"}
      BY <2>1 DEF Life
    <2>4. Plain("eof").cmd = "eof"
      BY DEF Plain
    <2>5. \A i \in 1 .. Len(inbox'[u]) :
            /\ inbox'[u][i].cmd # "q"
            /\ inbox'[u][i].cmd = "eof" => i = Len(inbox'[u])
      BY <2>2, <2>3, <2>4
    <2>6. ASSUME NEW i \in 1 .. Len(inbox'[u]), inbox'[u][i].cmd = "a"
          PROVE  /\ i \in 1 .. Len(inbox[u]) /\ inbox[u][i].cmd = "a" /\ i = 1
                 /\ outbox'[u] = << >>
                 /\ \A k \in 1 .. Len(inbox'[u]) : k # 1 => inbox'[u][k].cmd = "eof"
      <3>1. i \in 1 .. Len(inbox[u]) /\ inbox[u][i].cmd = "a"
        BY <2>2, <2>4, <2>6
      <3>2. /\ i = 1 /\ outbox[u] = << >>
            /\ \A k \in 1 .. Len(inbox[u]) : k # 1 => inbox[u][k].cmd = "eof"
        BY <3>1 DEF Life
      <3>3. \A k \in 1 .. Len(inbox'[u]) : k # 1 => inbox'[u][k].cmd = "eof"
        BY <2>2, <2>4, <3>2
      <3> QED BY <3>1, <3>2, <3>3
    <2>7. handler[u] # "read" => \A i \in 1 .. Len(inbox'[u]) : inbox'[u][i].cmd = "eof"
      <3>1. handler[u] # "read" => \A i \in 1 .. Len(inbox[u]) : inbox[u][i].cmd = "eof"
        BY DEF Life
      <3> QED BY <2>2, <2>4, <3>1
    <2>8. /\ handler[u] = "add" => outbox[u] = << >>
          /\ handler[u] # "remove name"
      BY <2>1 DEF Life
    <2>9. Life(u)'
      BY <1>2, <2>5, <2>6, <2>7, <2>8 DEF Life
    <2>10. Held(u) => Held(u)'
      BY <1>2, <2>1, <2>6 DEF Held, NotYet, Gone
    <2> QED BY <2>9, <2>10
  <1> QED BY <1>1, <1>2

LEMMA LifeClient ==
  ASSUME TypeOK, Counted, NEW u \in Users, Life(u), Proceed(u) \/ Type(u)
  PROVE  Life(u)' /\ (Held(u) => Held(u)')
  <1>1. handler' = handler
    BY DEF Proceed, Type, Joined, Rejected, SendWait, Listed, Nobody, Dial, Accept, Join, Prepare,
           BreakWait, List, HangUp, Quit, Crash, Ask, server
  <1>2. CASE Join(u)
    <2>1. inbox[u] = << >> /\ outbox[u] = << >> /\ handler[u] = "read" /\ mode[u] = "out"
      BY <1>2 DEF Join, Life
    <2>2. mode'[u] = "joining" /\ outbox' = outbox
      BY <1>2, TypesOf DEF Join, Goto
    <2>3. Len(inbox[u]) = 0
      BY <2>1
    <2>4. /\ inbox'[u][Len(inbox[u]) + 1] = Plain("a")
          /\ Len(inbox'[u]) = Len(inbox[u]) + 1
      BY <1>2, CommandKinds, Sending DEF Join
    <2>5. Len(inbox'[u]) = 1 /\ \A i \in 1 .. Len(inbox'[u]) : i = 1 /\ inbox'[u][i].cmd = "a"
      BY <2>3, <2>4 DEF Plain
    <2>6. Life(u)'
      BY <1>1, <2>1, <2>2, <2>5 DEF Life, Length, Cmd
    <2>7. ~ Held(u)
      BY <2>1 DEF Held, NotYet
    <2> QED BY <2>6, <2>7
  <1>3. CASE Joined(u)
    <2>1. /\ mode[u] = "joining" /\ mode'[u] = "normal" /\ inbox' = inbox
          /\ Hears(u, "confirm")
      BY <1>3, TypesOf DEF Joined, Goto
    <2>2. 1 \in 1 .. Len(outbox[u]) /\ outbox[u][1].ans = "confirm" /\ outbox[u] # << >>
      <3>1. Len(outbox[u]) \in Nat \ {0} /\ outbox[u][1].ans = "confirm" /\ outbox[u] # << >>
        BY <2>1, Hearing DEF Hears
      <3> QED BY <3>1
    <2>3. handler[u] = "read"
      <3>1. handler[u] \in {"read", "add", "remove name", "done"}
        BY TypesOf
      <3> QED BY <2>1, <2>2, <3>1 DEF Life
    <2>4. \A i \in 1 .. Len(inbox[u]) : inbox[u][i].cmd \notin {"a", "q", "eof"}
      BY <2>1, <2>2 DEF Life, Length, Cmd
    <2>5. Life(u)'
      BY <1>1, <2>1, <2>3, <2>4 DEF Life, Length, Cmd
    <2>6. Held(u)'
      BY <1>1, <2>1, <2>3, <2>4 DEF Held, NotYet, Gone, Length, Cmd
    <2> QED BY <2>5, <2>6
  <1>4. CASE Quit(u)
    <2>1. /\ mode[u] \in Active /\ mode'[u] = "quit" /\ outbox' = outbox
      BY <1>4, TypesOf DEF Quit, Goto, Active
    <2>2. /\ handler[u] = "read" /\ Held(u)
          /\ \A i \in 1 .. Len(inbox[u]) : inbox[u][i].cmd \notin {"a", "q", "eof"}
      BY <2>1, ActiveLife DEF Length, Cmd
    <2>3. /\ \A i \in 1 .. Len(inbox[u]) : inbox'[u][i] = inbox[u][i]
          /\ inbox'[u][Len(inbox[u]) + 1] = Plain("q")
          /\ inbox'[u][Len(inbox[u]) + 2] = Plain("eof")
          /\ Len(inbox'[u]) = Len(inbox[u]) + 2 /\ Len(inbox[u]) \in Nat
          /\ \A i \in 1 .. Len(inbox'[u]) :
               i \in 1 .. Len(inbox[u]) \/ i = Len(inbox[u]) + 1 \/ i = Len(inbox[u]) + 2
      BY <1>4, Quitting
    <2>4. Plain("q").cmd = "q" /\ Plain("eof").cmd = "eof"
      BY DEF Plain
    <2>5. Len(inbox[u]) + 1 = Len(inbox'[u]) - 1 /\ (Len(inbox[u]) + 1) + 1 = Len(inbox[u]) + 2
          /\ Len(inbox[u]) + 1 \in 1 .. Len(inbox'[u])
      BY <2>3
    <2>6. \A i \in 1 .. Len(inbox'[u]) :
            /\ inbox'[u][i].cmd # "a"
            /\ inbox'[u][i].cmd = "q" => i = Len(inbox[u]) + 1
            /\ inbox'[u][i].cmd = "eof" => i = Len(inbox[u]) + 2
      BY <2>2, <2>3, <2>4
    <2>7. \E i \in 1 .. Len(inbox'[u]) : inbox'[u][i].cmd = "q"
      BY <2>3, <2>4, <2>5
    <2>8. \A i \in 1 .. Len(inbox'[u]) : inbox'[u][i].cmd = "q" =>
            i = Len(inbox'[u]) - 1 /\ inbox'[u][i + 1].cmd = "eof"
      BY <2>3, <2>4, <2>5, <2>6
    <2>9. Life(u)'
      BY <1>1, <2>1, <2>2, <2>3, <2>6, <2>7, <2>8 DEF Life, Length, Cmd
    <2>10. Held(u)'
      BY <1>1, <2>1, <2>2, <2>6 DEF Held, NotYet, Gone, Length, Cmd
    <2> QED BY <2>9, <2>10
  <1>5. CASE Rejected(u)
    <2>1. /\ mode[u] = "joining" /\ mode'[u] = "dead" /\ outbox[u] # << >>
          /\ Send(u, Plain("eof"))
      BY <1>5, TypesOf DEF Rejected, Goto, Hears
    <2> QED BY <1>1, <2>1, LifeSend
  <1>6. CASE Crash(u)
    <2>1. /\ mode[u] \in Active \cup {"joining"} /\ mode'[u] = "dead" /\ outbox' = outbox
          /\ Send(u, Plain("eof"))
      BY <1>6, TypesOf DEF Crash, Goto, Mode, Active
    <2> QED BY <1>1, <2>1, LifeSend
  <1>7. CASE Listed(u) \/ Nobody(u) \/ Accept(u) \/ Prepare(u) \/ HangUp(u)
    <2>1. mode[u] \in Active /\ mode'[u] \in Active /\ UNCHANGED inbox
      BY <1>7, TypesOf DEF Listed, Nobody, Accept, Prepare, HangUp, Goto, Active
    <2>2. outbox' = outbox \/ outbox[u] # << >>
      BY <1>7 DEF Listed, Nobody, Accept, Prepare, HangUp, Hears
    <2>3. mode'[u] \notin {"out", "joining"}
      BY <2>1 DEF Active
    <2> QED BY <1>1, <2>1, <2>2, <2>3, LifeSend
  <1>8. CASE Dial(u)
    <2>1. /\ mode[u] \in Active /\ outbox[u] # << >>
          /\ \/ mode'[u] \in Active /\ UNCHANGED inbox
             \/ mode'[u] = "dead" /\ Send(u, Plain("eof"))
      BY <1>8, TypesOf DEF Dial, Goto, Active, Hears
    <2>2. mode'[u] \notin {"out", "joining"}
      BY <2>1 DEF Active
    <2> QED BY <1>1, <2>1, <2>2, LifeSend
  <1>9. CASE List(u) \/ BreakWait(u)
    <2>1. mode[u] \in Active /\ mode'[u] \in Active /\ UNCHANGED outbox
      BY <1>9, TypesOf DEF List, BreakWait, Interrupted, Goto, Active
    <2>2. Send(u, Plain("l")) \/ Send(u, Plain("r"))
      BY <1>9 DEF List, BreakWait
    <2>3. \E c \in Commands : c.cmd \notin {"a", "q", "eof"} /\ Send(u, c)
      BY <2>2, CommandKinds
    <2>4. mode'[u] \notin {"out", "joining"}
      BY <2>1 DEF Active
    <2> QED BY <1>1, <2>1, <2>3, <2>4, LifeSend
  <1>10. ASSUME NEW n \in Names, Ask(u, n) PROVE Life(u)' /\ (Held(u) => Held(u)')
    <2>1. mode[u] \in Active /\ mode'[u] \in Active /\ UNCHANGED outbox
      BY <1>10, TypesOf DEF Ask, Goto, Active
    <2>2. Connect(n) \in Commands /\ Connect(n).cmd \notin {"a", "q", "eof"} /\ Send(u, Connect(n))
      BY <1>10, CommandKinds DEF Ask
    <2>3. mode'[u] \notin {"out", "joining"}
      BY <2>1 DEF Active
    <2> QED BY <1>1, <2>1, <2>2, <2>3, LifeSend
  <1>11. ASSUME SendWait(u) PROVE Life(u)' /\ (Held(u) => Held(u)')
    <2>1. mode[u] \in Active /\ mode'[u] \in Active /\ UNCHANGED outbox
      BY <1>11, TypesOf DEF SendWait, Goto, Active
    <2>2. port[u] \in 1 .. MaxCmds
      <3>1. port[u] >= 1
        BY <1>11 DEF SendWait, Counted
      <3> QED BY <3>1, Numbers
    <2>3. WaitOn(port[u]) \in Commands /\ WaitOn(port[u]).cmd \notin {"a", "q", "eof"}
          /\ Send(u, WaitOn(port[u]))
      BY <1>11, <2>2, CommandKinds DEF SendWait
    <2>4. mode'[u] \notin {"out", "joining"}
      BY <2>1 DEF Active
    <2> QED BY <1>1, <2>1, <2>3, <2>4, LifeSend
  <1> QED BY <1>2, <1>3, <1>4, <1>5, <1>6, <1>7, <1>8, <1>9, <1>10, <1>11 DEF Proceed, Type

-----------------------------------------------------------------------------
(* Each place of a name in the list belongs to a user that is still there. *)

LEMMA Places ==
  ASSUME TypeOK, NEW n
  PROVE  /\ IsFiniteSet(PlacesOf(n)) /\ Cardinality(PlacesOf(n)) \in Nat
         /\ IsFiniteSet(Holders(n)) /\ Cardinality(Holders(n)) \in Nat
  <1>1. IsFiniteSet(1 .. Len(client_names))
    BY Lengths, FS_Interval
  <1>2. IsFiniteSet(PlacesOf(n))
    BY <1>1, FS_Subset DEF PlacesOf
  <1>3. IsFiniteSet(Holders(n))
    BY UsersAssumption, FS_Subset DEF Holders
  <1> QED BY <1>2, <1>3, FS_CardinalityType

\* One place less for the name that is removed, and no more for any other.
LEMMA FewerPlaces ==
  ASSUME TypeOK, NEW i \in 0 .. Len(client_names), client_names' = Without(client_names, i), NEW x
  PROVE  /\ Cardinality(PlacesOf(x)') <= Cardinality(PlacesOf(x))
         /\ i # 0 /\ client_names[i] = x => Cardinality(PlacesOf(x)') + 1 <= Cardinality(PlacesOf(x))
  <1> DEFINE S == PlacesOf(x)
             f == [k \in PlacesOf(x)' |-> Before(i, k)]
  <1>1. /\ client_names \in Seq(Names) /\ IsFiniteSet(S)
    BY TypesOf, Places
  <1>2. \A k \in 1 .. Len(client_names') :
          /\ client_names'[k] = client_names[Before(i, k)]
          /\ Before(i, k) \in 1 .. Len(client_names) /\ Before(i, k) # i
          /\ \A j \in 1 .. Len(client_names') : j # k => Before(i, j) # Before(i, k)
    BY <1>1, Taking
  <1>3. \A k \in PlacesOf(x)' : Before(i, k) \in S \ {i}
    BY <1>2 DEF PlacesOf
  <1>4. \A k, j \in PlacesOf(x)' : j # k => Before(i, j) # Before(i, k)
    BY <1>2 DEF PlacesOf
  <1>5. PICK T : T = PlacesOf(x)'
    OBVIOUS
  <1>6. [k \in T |-> Before(i, k)] \in Injection(T, S \ {i})
    <2> DEFINE g == [k \in T |-> Before(i, k)]
    <2>1. g \in [T -> S \ {i}]
      BY <1>3, <1>5
    <2>2. \A k, j \in T : g[k] = g[j] => k = j
      BY <1>4, <1>5
    <2> QED BY <2>1, <2>2 DEF Injection, IsInjective
  <1> HIDE DEF S
  <1>7. /\ IsFiniteSet(S \ {i})
        /\ Cardinality(S \ {i}) = IF i \in S THEN Cardinality(S) - 1 ELSE Cardinality(S)
    BY <1>1, FS_RemoveElement
  <1>8. Cardinality(T) <= Cardinality(S \ {i}) /\ IsFiniteSet(T)
    BY <1>6, <1>7, FS_Injection
  <1>9. Cardinality(S) \in Nat /\ Cardinality(T) \in Nat
    BY <1>1, <1>8, FS_CardinalityType
  <1>10. i # 0 /\ client_names[i] = x => i \in S
    <2>1. i # 0 => i \in 1 .. Len(client_names)
      BY Lengths
    <2> QED BY <2>1 DEF PlacesOf, S
  <1>11. /\ Cardinality(T) <= Cardinality(S)
         /\ i \in S => Cardinality(T) + 1 <= Cardinality(S)
    BY <1>7, <1>8, <1>9
  <1> QED BY <1>5, <1>10, <1>11 DEF S

LEMMA LivesStep ==
  ASSUME TypeOK, TypeOK', Counted, Lives, NEW u \in Users, Serve(u) \/ Proceed(u) \/ Type(u)
  PROVE  Lives'
  <1>1. /\ UNCHANGED <<faults, my_name>>
        /\ \A v \in Users : v # u => /\ mode'[v] = mode[v] /\ handler'[v] = handler[v]
                                     /\ inbox'[v] = inbox[v] /\ outbox'[v] = outbox[v]
    <2>1. UNCHANGED <<faults, my_name>>
      BY DEF Serve, CheckName, AddName, QuitWaiting, QuitName, ServeConnect, ServeWait, ServeList,
             ServeLeaveWait, EndOfStream, users, Proceed, Type, Joined, Rejected, SendWait, Listed,
             Nobody, Dial, Accept, Join, Prepare, BreakWait, List, HangUp, Quit, Crash, Ask, server
    <2>2. ASSUME NEW v \in Users, v # u PROVE mode'[v] = mode[v]
      BY <2>2, TypesOf DEF Serve, CheckName, AddName, QuitWaiting, QuitName, ServeConnect,
             ServeWait, ServeList,
             ServeLeaveWait, EndOfStream, users, Proceed, Type, Joined, Rejected, SendWait, Listed,
             Nobody, Dial, Accept, Join, Prepare, BreakWait, Interrupted, List, HangUp, Quit, Crash,
             Ask, Goto
    <2>3. ASSUME NEW v \in Users, v # u PROVE handler'[v] = handler[v]
      BY <2>3, TypesOf DEF Serve, CheckName, AddName, QuitWaiting, QuitName, ServeConnect,
             ServeWait, ServeList, Become,
             ServeLeaveWait, EndOfStream, Proceed, Type, Joined, Rejected, SendWait, Listed,
             Nobody, Dial, Accept, Join, Prepare, BreakWait, List, HangUp, Quit, Crash, Ask, server
    <2>4. ASSUME NEW v \in Users, v # u PROVE inbox'[v] = inbox[v]
      BY <2>4, TypesOf DEF Serve, CheckName, AddName, QuitWaiting, QuitName, ServeConnect,
             ServeWait, ServeList, Read, Send,
             ServeLeaveWait, EndOfStream, Proceed, Type, Joined, Rejected, SendWait, Listed,
             Nobody, Dial, Accept, Join, Prepare, BreakWait, List, HangUp, Quit, Crash, Ask
    <2>5. ASSUME NEW v \in Users, v # u PROVE outbox'[v] = outbox[v]
      BY <2>5, TypesOf DEF Serve, CheckName, AddName, QuitWaiting, QuitName, ServeConnect,
             ServeWait, ServeList, Respond, Hears,
             ServeLeaveWait, EndOfStream, Proceed, Type, Joined, Rejected, SendWait, Listed,
             Nobody, Dial, Accept, Join, Prepare, BreakWait, List, HangUp, Quit, Crash, Ask
    <2> QED BY <2>1, <2>2, <2>3, <2>4, <2>5
  <1>2. SUFFICES ASSUME "coalesce" \notin faults
                 PROVE  /\ \A v \in Users : Life(v)'
                        /\ \A n \in Names : Cardinality(PlacesOf(n)') <= Cardinality(Holders(n)')
    BY <1>1 DEF Lives
  <1>3. /\ \A v \in Users : Life(v)
        /\ \A n \in Names : Cardinality(PlacesOf(n)) <= Cardinality(Holders(n))
    BY <1>2 DEF Lives
  <1>4. Life(u)' /\ (~ QuitName(u) => (Held(u) => Held(u)'))
    BY <1>2, <1>3, LifeServe, LifeClient
  <1>5. \A v \in Users : v # u => Life(v)' /\ (Held(v) <=> Held(v)')
    BY <1>1, <1>3, OthersLive
  <1>6. \A v \in Users : Life(v)'
    BY <1>4, <1>5
  <1>7. ASSUME NEW n \in Names PROVE Cardinality(PlacesOf(n)') <= Cardinality(Holders(n)')
    <2>1. PICK H : H = Holders(n)'
      OBVIOUS
    <2>2. PICK A : A = PlacesOf(n)'
      OBVIOUS
    <2>3. H \subseteq Users
      BY <2>1 DEF Holders
    <2>4. IsFiniteSet(H) /\ Cardinality(H) \in Nat
      <3>1. IsFiniteSet(H)
        BY <2>3, UsersAssumption, FS_Subset
      <3> QED BY <3>1, FS_CardinalityType
    <2>5. Cardinality(PlacesOf(n)) <= Cardinality(Holders(n))
      BY <1>3
    <2>6. /\ Cardinality(PlacesOf(n)) \in Nat /\ Cardinality(Holders(n)) \in Nat
          /\ IsFiniteSet(PlacesOf(n)) /\ IsFiniteSet(Holders(n))
      BY Places
    <2>7. ~ QuitName(u) => Holders(n) \subseteq H /\ Cardinality(Holders(n)) <= Cardinality(H)
      <3>1. ~ QuitName(u) => Holders(n) \subseteq H
        BY <1>1, <1>4, <1>5, <2>1 DEF Holders
      <3> QED BY <2>4, <3>1, FS_Subset
    <2>8. CASE AddName(u) /\ my_name[u] = n
      <3>1. u \notin Holders(n)
        BY <2>8 DEF AddName, Holders, Held, NotYet
      <3>2. u \in H
        <4>1. handler[u] = "add" /\ handler'[u] = "read" /\ inbox' = inbox /\ mode' = mode
          BY <2>8, TypesOf DEF AddName, Become, users
        <4>2. /\ mode[u] \in {"joining", "dead"}
              /\ \A i \in 1 .. Len(inbox[u]) : inbox[u][i].cmd = "eof"
          BY <1>3, <4>1 DEF Life, Length, Cmd
        <4>3. Held(u)'
          BY <4>1, <4>2 DEF Held, NotYet, Gone, Length, Cmd
        <4> QED BY <1>1, <2>1, <2>8, <4>3 DEF Holders
      <3>3. Cardinality(Holders(n) \cup {u}) = Cardinality(Holders(n)) + 1
        BY <2>6, <3>1, FS_AddElement
      <3>4. ~ QuitName(u)
        BY <2>8 DEF AddName, QuitName
      <3>5. Holders(n) \cup {u} \subseteq H
        BY <2>7, <3>2, <3>4
      <3>6. Cardinality(Holders(n) \cup {u}) <= Cardinality(H)
        BY <2>4, <3>5, FS_Subset
      <3>7. A = PlacesOf(n) \cup {Len(client_names) + 1}
        <4>1. client_names \in Seq(Names) /\ n \in Names /\ client_names' = Append(client_names, n)
          BY <2>8, TypesOf DEF AddName
        <4>2. /\ Len(client_names') = Len(client_names) + 1
              /\ \A k \in 1 .. Len(client_names) : client_names'[k] = client_names[k]
              /\ client_names'[Len(client_names) + 1] = n
          BY <4>1, AppendProperties
        <4>3. 1 .. Len(client_names) + 1 = (1 .. Len(client_names)) \cup {Len(client_names) + 1}
          BY Lengths
        <4> QED BY <2>2, <4>2, <4>3 DEF PlacesOf
      <3>8. Cardinality(A) <= Cardinality(PlacesOf(n)) + 1
        <4>1. Cardinality(A) = IF Len(client_names) + 1 \in PlacesOf(n) THEN Cardinality(PlacesOf(n))
                                                                  ELSE Cardinality(PlacesOf(n)) + 1
          BY <2>6, <3>7, FS_AddElement
        <4> QED BY <2>6, <4>1
      <3>9. Cardinality(A) \in Int
        <4>1. IsFiniteSet(A)
          BY <2>6, <3>7, FS_AddElement
        <4> QED BY <4>1, FS_CardinalityType
      <3>10. Cardinality(A) <= Cardinality(H)
        BY <2>4, <2>5, <2>6, <3>3, <3>6, <3>8, <3>9
      <3> QED BY <2>1, <2>2, <3>10
    <2>9. CASE AddName(u) /\ my_name[u] # n
      <3>1. /\ client_names \in Seq(Names) /\ my_name[u] \in Names
            /\ client_names' = Append(client_names, my_name[u])
        BY <2>9, TypesOf DEF AddName
      <3>2. /\ Len(client_names') = Len(client_names) + 1
            /\ \A k \in 1 .. Len(client_names) : client_names'[k] = client_names[k]
            /\ client_names'[Len(client_names) + 1] # n
        BY <2>9, <3>1, AppendProperties
      <3>3. 1 .. Len(client_names) + 1 = (1 .. Len(client_names)) \cup {Len(client_names) + 1}
        BY Lengths
      <3>4. A = PlacesOf(n)
        BY <2>2, <3>2, <3>3 DEF PlacesOf
      <3>5. ~ QuitName(u)
        BY <2>9 DEF AddName, QuitName
      <3>6. Cardinality(A) <= Cardinality(H)
        BY <2>4, <2>5, <2>6, <2>7, <3>4, <3>5
      <3> QED BY <2>1, <2>2, <3>6
    <2>10. CASE QuitName(u)
      <3>1. PICK i \in 0 .. Len(client_names) :
              /\ client_names' = Without(client_names, i)
              /\ i = 0 => \A m \in 1 .. Len(client_names) : client_names[m] # my_name[u]
              /\ i # 0 => client_names[i] = my_name[u]
        BY <2>10, Forgetting DEF QuitName
      <3>2. /\ Cardinality(A) <= Cardinality(PlacesOf(n))
            /\ i # 0 /\ my_name[u] = n => Cardinality(A) + 1 <= Cardinality(PlacesOf(n))
        BY <2>2, <3>1, FewerPlaces
      <3>3. Holders(n) \ {u} \subseteq H
        BY <1>1, <1>5, <2>1 DEF Holders
      <3>4. /\ Cardinality(Holders(n) \ {u}) <= Cardinality(H)
            /\ Cardinality(Holders(n) \ {u}) = IF u \in Holders(n) THEN Cardinality(Holders(n)) - 1
                                                                   ELSE Cardinality(Holders(n))
        BY <2>4, <2>6, <3>3, FS_Subset, FS_RemoveElement
      <3>5. IsFiniteSet(A) /\ Cardinality(A) \in Nat
        <4>1. A \subseteq 1 .. Len(client_names')
          BY <2>2 DEF PlacesOf
        <4>2. Len(client_names') \in Nat
          BY LenProperties DEF TypeOK
        <4>3. PICK l \in Nat : l = Len(client_names')
          BY <4>2
        <4>4. IsFiniteSet(1 .. l)
          BY FS_Interval
        <4>5. IsFiniteSet(A)
          BY <4>1, <4>3, <4>4, FS_Subset
        <4> QED BY <4>5, FS_CardinalityType
      <3>6. CASE my_name[u] # n
        <4>1. u \notin Holders(n)
          BY <3>6 DEF Holders
        <4>2. Cardinality(A) <= Cardinality(H)
          BY <2>4, <2>5, <2>6, <3>2, <3>4, <3>5, <4>1
        <4> QED BY <2>1, <2>2, <4>2
      <3>7. CASE my_name[u] = n /\ i # 0
        <4>1. Cardinality(A) <= Cardinality(H)
          BY <2>4, <2>5, <2>6, <3>2, <3>4, <3>5, <3>7
        <4> QED BY <2>1, <2>2, <4>1
      <3>8. CASE my_name[u] = n /\ i = 0
        <4>1. PlacesOf(n) = {}
          BY <3>1, <3>8 DEF PlacesOf
        <4>2. Cardinality(PlacesOf(n)) = 0
          BY <4>1, FS_EmptySet
        <4>3. Cardinality(A) <= Cardinality(H)
          BY <2>4, <3>2, <3>5, <4>2
        <4> QED BY <2>1, <2>2, <4>3
      <3> QED BY <3>6, <3>7, <3>8
    <2>11. CASE ~ QuitName(u) /\ ~ AddName(u)
      <3>1. UNCHANGED client_names
        BY <2>11 DEF Serve, CheckName, QuitWaiting, ServeConnect, ServeWait,
             ServeList, ServeLeaveWait, EndOfStream, Proceed, Type, Joined, Rejected, SendWait,
             Listed, Nobody, Dial, Accept, Join, Prepare, BreakWait, List, HangUp, Quit, Crash,
             Ask, server
      <3>2. A = PlacesOf(n)
        BY <2>2, <3>1 DEF PlacesOf
      <3>3. Cardinality(A) <= Cardinality(H)
        BY <2>4, <2>5, <2>6, <2>7, <2>11, <3>2
      <3> QED BY <2>1, <2>2, <3>3
    <2> QED BY <2>8, <2>9, <2>10, <2>11
  <1> QED BY <1>6, <1>7

-----------------------------------------------------------------------------
(* What holds whatever goes wrong.                                         *)

LEMMA InitInv == Init => IInv
  <1> SUFFICES ASSUME Init PROVE IInv
    OBVIOUS
  <1>1. PICK s \in Scenarios : /\ faults = s.faults /\ mortal = s.mortal
                               /\ my_name = s.names /\ left = s.cmds
    BY DEF Init
  <1>2. /\ faults \subseteq Fault /\ mortal \subseteq Users /\ my_name \in [Users -> Names]
        /\ left \in [Users -> 0 .. MaxCmds]
    BY <1>1, ScenariosAssumption
  <1>3. /\ client_names = << >> /\ clients = << >> /\ Len(client_names) = 0 /\ Len(clients) = 0
        /\ handler = [u \in Users |-> "read"] /\ mode = [u \in Users |-> "out"]
        /\ inbox = [u \in Users |-> << >>] /\ outbox = [u \in Users |-> << >>]
        /\ port = [u \in Users |-> 0] /\ open = [u \in Users |-> {}]
        /\ backlog = [u \in Users |-> {}]
    BY DEF Init
  <1>4. TypeOK
    <2>1. /\ client_names \in Seq(Names) /\ clients \in Seq(Entry)
      BY <1>3
    <2>2. inbox \in [Users -> Seq(Commands)] /\ outbox \in [Users -> Seq(Answers)]
      BY <1>3
    <2>3. mode \in [Users -> Mode]
      BY <1>3 DEF Mode
    <2>4. port \in [Users -> 0 .. MaxCmds]
      BY <1>3, MaxCmdsAssumption
    <2> QED BY <1>2, <1>3, <2>1, <2>2, <2>3, <2>4 DEF TypeOK
  <1>5. Counted
    BY <1>2, <1>3, MaxCmdsAssumption DEF Counted
  <1>6. /\ \A u \in Users : Len(inbox[u]) = 0 /\ Len(outbox[u]) = 0 /\ backlog[u] = {}
        /\ 1 .. 0 = {}
    BY <1>3
  <1>7. Tokens
    BY <1>3, <1>6 DEF Tokens, Asked, ProperEntries, Called, Handed, Length
  <1>8. \A u \in Users : Life(u)
    BY <1>3, <1>6 DEF Life, Length, Cmd
  <1>9. ASSUME NEW n \in Names PROVE Cardinality(PlacesOf(n)) <= Cardinality(Holders(n))
    <2>1. PlacesOf(n) = {} /\ Holders(n) = {}
      BY <1>3 DEF PlacesOf, Holders, Held, NotYet
    <2> QED BY <2>1, FS_EmptySet
  <1> QED BY <1>4, <1>5, <1>7, <1>8, <1>9 DEF IInv, Lives

LEMMA NextInv == IInv /\ [Next]_vars => IInv'
  <1> SUFFICES ASSUME IInv, [Next]_vars PROVE IInv'
    OBVIOUS
  <1>1. ASSUME NEW u \in Users, Serve(u) \/ Proceed(u) \/ Type(u) PROVE IInv'
    <2>1. TypeOK'
      BY <1>1, ServerTypes, ClientTypes DEF IInv
    <2>2. Counted'
      BY <1>1, CountedStep DEF IInv
    <2>3. Tokens' /\ Lives'
      BY <1>1, <2>1, TokensStep, LivesStep DEF IInv
    <2> QED BY <2>1, <2>2, <2>3 DEF IInv
  <1>2. CASE UNCHANGED vars
    <2>1. UNCHANGED <<faults, mortal, my_name, client_names, clients, handler, inbox, outbox, mode,
                      port, open, backlog, left>>
      BY <1>2 DEF vars
    <2>2. TypeOK' /\ Counted'
      BY <2>1 DEF IInv, TypeOK, Counted
    <2>3. Tokens'
      BY <2>1 DEF IInv, Tokens, Asked, ProperEntries, Called, Handed, Length, Told, Unlisted,
                  EntryOf, Proper
    <2>4. Lives'
      <3>1. \A v \in Users : (Life(v)' <=> Life(v)) /\ (Held(v)' <=> Held(v))
        BY <2>1 DEF Life, Held, NotYet, Gone, Length, Cmd
      <3>2. \A n \in Names : PlacesOf(n)' = PlacesOf(n) /\ Holders(n)' = Holders(n)
        BY <2>1, <3>1 DEF PlacesOf, Holders
      <3> QED BY <2>1, <3>1, <3>2 DEF IInv, Lives
    <2> QED BY <2>2, <2>3, <2>4 DEF IInv
  <1> QED BY <1>1, <1>2 DEF Next, Idle

\* IInv holds in every state of the chat room.
THEOREM Invariance == Spec => []IInv
  BY InitInv, NextInv, PTL DEF Spec

\* Whatever the users type, and whoever is killed, the lists, the commands and the
\* responses stay well formed and the ports within their bound.
THEOREM TypeCorrect == Spec => []TypeOK
  <1>1. IInv => TypeOK
    BY DEF IInv
  <1> QED BY <1>1, Invariance, PTL

\* Whatever goes wrong, a connect hands an entry, a waiting user with its port, to
\* one caller: popItem takes it, and no command of /wait is listed twice.  A user
\* may have two entries, if ^C came before the command of the first /wait, or the
\* r that should have ended it was lost.
THEOREM HandedToOne == Spec => []HandedOnce
  <1>1. IInv => HandedOnce
    <2> SUFFICES ASSUME IInv PROVE HandedOnce
      OBVIOUS
    <2>1. TypeOK /\ Handed
      BY DEF IInv, Tokens
    <2>2. IsInjective(clients)
      BY <2>1, TypesOf DEF Handed, IsInjective
    <2>3. ASSUME NEW i \in DOMAIN clients PROVE OnTheWay(clients[i]) = {}
      <3>1. PICK e \in Entry : e = clients[i] /\ i \in 1 .. Len(clients)
        BY <2>1, TypesOf
      <3>2. ASSUME NEW v \in Users, NEW k \in DOMAIN outbox[v], outbox[v][k] = Peer(e) PROVE FALSE
        <4>1. k \in 1 .. Len(outbox[v])
          BY <2>1, TypesOf
        <4> QED BY <2>1, <3>1, <3>2, <4>1 DEF Handed
      <3> QED BY <3>1, <3>2 DEF OnTheWay
    <2>4. ASSUME NEW u \in Users, NEW v \in Users, NEW i \in DOMAIN outbox[u],
                 NEW k \in DOMAIN outbox[v], outbox[u][i] = outbox[v][k], outbox[u][i].ans = "peer"
          PROVE  u = v /\ i = k
      <3>1. i \in 1 .. Len(outbox[u]) /\ k \in 1 .. Len(outbox[v]) /\ outbox[u][i] \in Answers
        BY <2>1, TypesOf
      <3>2. PICK a \in Answers : a = outbox[u][i] /\ a.ans = "peer"
        BY <2>4, <3>1
      <3>3. PICK e \in Entry : a = Peer(e)
        BY <3>2, AnswerKinds
      <3>4. outbox[u][i] = Peer(e) /\ outbox[v][k] = Peer(e)
        BY <2>4, <3>2, <3>3
      <3>5. \A m \in 1 .. Len(outbox[u]) : outbox[u][m] = Peer(e) => u = v /\ m = k
        BY <2>1, <3>1, <3>4 DEF Handed
      <3> QED BY <3>1, <3>4, <3>5
    <2> QED BY <2>2, <2>3, <2>4 DEF HandedOnce
  <1> QED BY <1>1, Invariance, PTL

\* As long as each read returns one command, the list of names has no place that
\* belongs to nobody: a user that quits gives its place back, also if it shares
\* its name with others.
THEOREM NamesAreFreed == Spec => []NamesFreed
  <1>1. IInv => NamesFreed
    <2> SUFFICES ASSUME IInv, "coalesce" \notin faults, NEW n \in Names
                 PROVE  Cardinality({i \in DOMAIN client_names : client_names[i] = n})
                          <= Cardinality({u \in Users : my_name[u] = n /\ ~ Gone(u)})
      BY DEF NamesFreed
    <2> DEFINE H == {u \in Users : my_name[u] = n /\ ~ Gone(u)}
    <2>1. {i \in DOMAIN client_names : client_names[i] = n} = PlacesOf(n)
      BY TypesOf DEF IInv, PlacesOf
    <2>2. IsFiniteSet(H) /\ Cardinality(H) \in Nat
      <3>1. IsFiniteSet(H)
        BY UsersAssumption, FS_Subset
      <3> QED BY <3>1, FS_CardinalityType
    <2>3. Holders(n) \subseteq H
      BY DEF Holders, Held
    <2> HIDE DEF H
    <2>4. Cardinality(Holders(n)) <= Cardinality(H)
      BY <2>2, <2>3, FS_Subset
    <2>5. Cardinality(PlacesOf(n)) <= Cardinality(Holders(n))
      BY DEF IInv, Lives
    <2>6. Cardinality(PlacesOf(n)) \in Nat /\ Cardinality(Holders(n)) \in Nat
      BY Places DEF IInv
    <2>7. Cardinality(PlacesOf(n)) <= Cardinality(H)
      BY <2>2, <2>4, <2>5, <2>6
    <2> QED BY <2>1, <2>7 DEF H
  <1> QED BY <1>1, Invariance, PTL

-----------------------------------------------------------------------------
(* While nothing goes wrong, each waiting user can be found.               *)

\* Where the command that is now the i-th was, when the handler read d commands;
\* what is now in the list was there, or the command that was read, at z.
Was(d, z, i) == IF i = 0 THEN z ELSE i + d

\* Reading commands, adding ones that do not ask and dropping entries leaves the
\* places where a user asked apart.
LEMMA Moves ==
  ASSUME TypeOK, TypeOK', NEW w \in Users, NEW d \in {0, 1}, NEW z \in 0 .. d, Alternate(w),
         \A i \in 0 .. Length(w)', p \in 1 .. MaxCmds : WaitAt(w, i, p)' =>
           /\ Was(d, z, i) \in 0 .. Length(w) /\ WaitAt(w, Was(d, z, i), p)
           /\ \A j \in 1 .. Length(w) : Was(d, z, i) < j /\ Leaves(w, j) =>
                \E k \in 1 .. Length(w)' : k + d = j /\ i < k /\ Leaves(w, k)'
           /\ Waits(w, p) => Waits(w, p)' \/ Ended(w, i)'
  PROVE  Alternate(w)'
  <1> SUFFICES ASSUME NEW i \in 0 .. Length(w)', NEW p \in 1 .. MaxCmds, WaitAt(w, i, p)'
               PROVE  /\ Ended(w, i)' \/ Waits(w, p)'
                      /\ \A k \in 0 .. Length(w)', q \in 1 .. MaxCmds : WaitAt(w, k, q)' =>
                           /\ i < k => \E j \in 1 .. Length(w)' : i < j /\ j < k /\ Leaves(w, j)'
                           /\ i = k => p = q
    BY DEF Alternate
  <1> DEFINE a == Was(d, z, i)
  <1>1. /\ a \in 0 .. Length(w) /\ WaitAt(w, a, p)
        /\ \A j \in 1 .. Length(w) : a < j /\ Leaves(w, j) =>
             \E k \in 1 .. Length(w)' : k + d = j /\ i < k /\ Leaves(w, k)'
        /\ Waits(w, p) => Waits(w, p)' \/ Ended(w, i)'
    OBVIOUS
  <1>2. Ended(w, a) \/ Waits(w, p)
    BY <1>1 DEF Alternate
  <1>3. Ended(w, i)' \/ Waits(w, p)'
    <2>1. ASSUME Ended(w, a) PROVE Ended(w, i)'
      <3>1. PICK j \in 1 .. Length(w) : a < j /\ Leaves(w, j)
        BY <2>1 DEF Ended
      <3>2. PICK k \in 1 .. Length(w)' : k + d = j /\ i < k /\ Leaves(w, k)'
        BY <1>1, <3>1
      <3> QED BY <3>2 DEF Ended
    <2> QED BY <1>1, <1>2, <2>1
  <1>4. ASSUME NEW k \in 0 .. Length(w)', NEW q \in 1 .. MaxCmds, WaitAt(w, k, q)'
        PROVE  /\ i < k => \E j \in 1 .. Length(w)' : i < j /\ j < k /\ Leaves(w, j)'
               /\ i = k => p = q
    <2>1. Was(d, z, k) \in 0 .. Length(w) /\ WaitAt(w, Was(d, z, k), q)
      BY <1>4
    <2>2. /\ a < Was(d, z, k) => \E j \in 1 .. Length(w) : a < j /\ j < Was(d, z, k) /\ Leaves(w, j)
          /\ a = Was(d, z, k) => p = q
      BY <1>1, <2>1 DEF Alternate
    <2>3. i < k => a < Was(d, z, k) /\ Was(d, z, k) = k + d
      <3>1. i \in Nat /\ k \in Nat /\ d \in Nat /\ z \in Nat /\ z <= d
        BY Lengths DEF Length
      <3> QED BY <3>1 DEF Was
    <2>4. ASSUME i < k PROVE \E j \in 1 .. Length(w)' : i < j /\ j < k /\ Leaves(w, j)'
      <3>1. PICK j \in 1 .. Length(w) : a < j /\ j < k + d /\ Leaves(w, j)
        BY <2>2, <2>3, <2>4
      <3>2. PICK l \in 1 .. Length(w)' : l + d = j /\ i < l /\ Leaves(w, l)'
        BY <1>1, <3>1
      <3>3. l < k
        BY <3>1, <3>2, Lengths DEF Length
      <3> QED BY <3>2, <3>3
    <2> QED BY <2>2, <2>4
  <1> QED BY <1>3, <1>4

\* A user that takes no part in a step asks and waits as before.
LEMMA OthersWait ==
  ASSUME TypeOK, TypeOK', NEW w \in Users, Alternate(w), Found(w),
         inbox'[w] = inbox[w], mode'[w] = mode[w], port'[w] = port[w], open'[w] = open[w],
         \A p \in 1 .. MaxCmds :
           /\ WaitAt(w, 0, p)' => WaitAt(w, 0, p)
           /\ WaitAt(w, 0, p) => WaitAt(w, 0, p)' \/ OnWay(w, p)'
           /\ OnWay(w, p) /\ p \in open[w] => OnWay(w, p)' \/ p \in backlog'[w]
           /\ p \in backlog[w] => p \in backlog'[w]
  PROVE  Alternate(w)' /\ Found(w)'
  <1>1. /\ Length(w)' = Length(w) /\ Length(w) \in Nat
        /\ \A j \in 1 .. Length(w) : Leaves(w, j)' <=> Leaves(w, j)
        /\ \A i : Ended(w, i)' <=> Ended(w, i)
        /\ \A p : Waits(w, p)' <=> Waits(w, p)
    BY Lengths DEF Length, Leaves, Cmd, Ended, Waits
  <1>2. \A p : \A i \in 1 .. Length(w) : WaitAt(w, i, p)' <=> WaitAt(w, i, p)
    BY <1>1 DEF WaitAt
  <1>3. Alternate(w)'
    <2>1. ASSUME NEW i \in 0 .. Length(w)', NEW p \in 1 .. MaxCmds, WaitAt(w, i, p)'
          PROVE  /\ Was(0, 0, i) \in 0 .. Length(w) /\ WaitAt(w, Was(0, 0, i), p)
                 /\ \A j \in 1 .. Length(w) : Was(0, 0, i) < j /\ Leaves(w, j) =>
                      \E k \in 1 .. Length(w)' : k + 0 = j /\ i < k /\ Leaves(w, k)'
                 /\ Waits(w, p) => Waits(w, p)' \/ Ended(w, i)'
      <3>1. Was(0, 0, i) = i /\ i \in 0 .. Length(w) /\ (i = 0 \/ i \in 1 .. Length(w))
        BY <1>1 DEF Was
      <3>2. WaitAt(w, i, p)
        <4>1. CASE i = 0
          BY <2>1, <4>1
        <4>2. CASE i \in 1 .. Length(w)
          BY <1>2, <2>1, <4>2
        <4> QED BY <3>1, <4>1, <4>2
      <3>3. \A j \in 1 .. Length(w) : i < j /\ Leaves(w, j) =>
                      \E k \in 1 .. Length(w)' : k + 0 = j /\ i < k /\ Leaves(w, k)'
        BY <1>1
      <3> QED BY <1>1, <3>1, <3>2, <3>3
    <2>2. 0 \in {0, 1} /\ 0 \in 0 .. 0
      OBVIOUS
    <2> QED BY <2>1, <2>2, Moves
  <1>4. ASSUME mode[w] = "waiting"
        PROVE  \/ \E i \in 0 .. Length(w)' : WaitAt(w, i, port[w])' /\ ~ Ended(w, i)'
               \/ OnWay(w, port[w])'
               \/ port[w] \in backlog'[w]
    <2>1. port[w] \in open[w]
      BY <1>4 DEF Found
    <2>2. port[w] \in 1 .. MaxCmds
      BY <2>1, TypesOf
    <2>3. PICK p \in 1 .. MaxCmds : p = port[w]
      BY <2>2
    <2>4. \/ \E i \in 0 .. Length(w) : WaitAt(w, i, p) /\ ~ Ended(w, i)
          \/ OnWay(w, p)
          \/ p \in backlog[w]
      BY <1>4, <2>3 DEF Found
    <2>5. ASSUME NEW i \in 0 .. Length(w), WaitAt(w, i, p), ~ Ended(w, i)
          PROVE  (\E k \in 0 .. Length(w)' : WaitAt(w, k, p)' /\ ~ Ended(w, k)') \/ OnWay(w, p)'
      <3>1. CASE i = 0
        BY <1>1, <2>5, <3>1
      <3>2. CASE i \in 1 .. Length(w)
        BY <1>1, <1>2, <2>5, <3>2
      <3> QED BY <1>1, <3>1, <3>2
    <2>6. \/ \E i \in 0 .. Length(w)' : WaitAt(w, i, p)' /\ ~ Ended(w, i)'
          \/ OnWay(w, p)'
          \/ p \in backlog'[w]
      BY <2>1, <2>3, <2>4, <2>5
    <2> QED BY <2>3, <2>6
  <1>5. Found(w)'
    <2>1. mode'[w] # "disturbed" /\ (mode'[w] \in {"preparing", "waiting"} => port'[w] \in open'[w])
      BY DEF Found
    <2>2. PICK p : p = port[w] /\ p = port'[w]
      OBVIOUS
    <2>3. mode'[w] = "waiting" =>
            \/ \E i \in 0 .. Length(w)' : WaitAt(w, i, p)' /\ ~ Ended(w, i)'
            \/ OnWay(w, p)'
            \/ p \in backlog'[w]
      BY <1>4, <2>2
    <2> QED BY <2>1, <2>2, <2>3 DEF Found
  <1> QED BY <1>3, <1>5

\* What is in the list when r or q took the entry of u.
LEMMA OwnTaken ==
  ASSUME TypeOK, Tokens, IsInjective(my_name), NEW u \in Users, Alternate(u), my_name' = my_name,
         clients' = Without(clients, findItem(my_name[u])),
         NEW w \in Users, NEW p \in 1 .. MaxCmds
  PROVE  WaitAt(w, 0, p)' <=> WaitAt(w, 0, p) /\ w # u
  <1>1. PICK i \in 0 .. Len(clients) :
          /\ i = 0 => \A m \in 1 .. Len(clients) : clients[m].client # my_name[u]
          /\ i # 0 => clients[i].client = my_name[u]
          /\ clients' = Without(clients, i)
    BY Searching
  <1>2. /\ clients \in Seq(Entry)
        /\ i = 0 => \A m \in 1 .. Len(clients) : clients[m].client # my_name[u]
        /\ i # 0 => clients[i].client = my_name[u] /\ i \in 1 .. Len(clients)
    <2>1. i # 0 => i \in 1 .. Len(clients)
      BY Lengths
    <2> QED BY <1>1, <2>1, TypesOf
  <1>3. clients' = Without(clients, i)
    BY <1>1
  <1>4. /\ \A k \in 1 .. Len(clients') :
             clients'[k] = clients[Before(i, k)] /\ Before(i, k) \in 1 .. Len(clients)
             /\ Before(i, k) # i
        /\ \A k \in 1 .. Len(clients) : k # i => \E j \in 1 .. Len(clients') : Before(i, j) = k
    BY <1>2, <1>3, Taking
  <1>5. \A v \in Users : my_name[v] = my_name[u] => v = u
    BY TypesOf DEF IsInjective
  <1>6. ASSUME i # 0 PROVE \E q \in 1 .. MaxCmds : clients[i] = EntryOf(u, q)
    <2>1. PICK e \in Entry : e = clients[i] /\ i \in 1 .. Len(clients)
      BY <1>2, <1>6, TypesOf
    <2>2. e = EntryOf(e.owner, e.port) /\ e.owner \in Users /\ e.port \in 1 .. MaxCmds
      BY <2>1 DEF Tokens, ProperEntries, Proper, Entry
    <2>3. e.client = my_name[e.owner]
      BY <2>2 DEF EntryOf
    <2>4. e.owner = u
      BY <1>2, <1>5, <1>6, <2>1, <2>2, <2>3
    <2> QED BY <2>1, <2>2, <2>4
  <1>7. ASSUME WaitAt(w, 0, p)' PROVE WaitAt(w, 0, p) /\ w # u
    <2>1. PICK m \in 1 .. Len(clients') : clients'[m] = EntryOf(w, p)
      BY <1>7 DEF WaitAt, EntryOf
    <2>2. PICK k \in 1 .. Len(clients) : clients[k] = EntryOf(w, p) /\ k # i
      BY <1>4, <2>1
    <2>3. WaitAt(w, 0, p)
      BY <2>2 DEF WaitAt
    <2>4. ASSUME w = u PROVE FALSE
      <3>1. i # 0
        BY <1>2, <2>2, <2>4 DEF EntryOf
      <3>2. PICK q \in 1 .. MaxCmds : clients[i] = EntryOf(u, q)
        BY <1>6, <3>1
      <3>3. WaitAt(u, 0, q) /\ WaitAt(u, 0, p) /\ 0 \in 0 .. Length(u)
        BY <1>2, <2>3, <2>4, <3>1, <3>2, Lengths DEF WaitAt, Length
      <3>4. p = q
        BY <3>3 DEF Alternate
      <3>5. clients[i] = clients[k]
        BY <2>2, <2>4, <3>2, <3>4
      <3> QED BY <1>2, <2>2, <3>1, <3>5 DEF Tokens, Handed
    <2> QED BY <2>3, <2>4
  <1>8. ASSUME WaitAt(w, 0, p), w # u PROVE WaitAt(w, 0, p)'
    <2>1. PICK k \in 1 .. Len(clients) : clients[k] = EntryOf(w, p)
      BY <1>8 DEF WaitAt
    <2>2. k # i
      <3>1. clients[k].client = my_name[w]
        BY <2>1 DEF EntryOf
      <3>2. k # 0
        BY <2>1
      <3> QED BY <1>2, <1>5, <1>8, <3>1, <3>2
    <2>3. PICK j \in 1 .. Len(clients') : clients'[j] = EntryOf(w, p)
      BY <1>4, <2>1, <2>2
    <2> QED BY <2>3 DEF WaitAt, EntryOf
  <1> QED BY <1>7, <1>8

\* A connect moves an entry from the list to an answer.
LEMMA OneTaken ==
  ASSUME TypeOK, NEW u \in Users, ServeConnect(u), NEW w \in Users, NEW p \in 1 .. MaxCmds
  PROVE  /\ WaitAt(w, 0, p)' => WaitAt(w, 0, p)
         /\ WaitAt(w, 0, p) => WaitAt(w, 0, p)' \/ OnWay(w, p)'
  <1>1. PICK i \in 0 .. Len(clients) :
          /\ Respond(u, IF i = 0 THEN Answer("nobody") ELSE Peer(clients[i]))
          /\ clients' = Without(clients, i) /\ my_name' = my_name
    BY Searching DEF ServeConnect, users
  <1>2. clients \in Seq(Entry)
    BY TypesOf
  <1>3. /\ \A k \in 1 .. Len(clients') :
             clients'[k] = clients[Before(i, k)] /\ Before(i, k) \in 1 .. Len(clients)
        /\ \A k \in 1 .. Len(clients) : k # i => \E j \in 1 .. Len(clients') : Before(i, j) = k
    BY <1>1, <1>2, Taking
  <1>4. ASSUME WaitAt(w, 0, p)' PROVE WaitAt(w, 0, p)
    <2>1. PICK m \in 1 .. Len(clients') : clients'[m] = EntryOf(w, p)
      BY <1>1, <1>4 DEF WaitAt, EntryOf
    <2> QED BY <1>3, <2>1 DEF WaitAt
  <1>5. ASSUME WaitAt(w, 0, p) PROVE WaitAt(w, 0, p)' \/ OnWay(w, p)'
    <2>1. PICK k \in 1 .. Len(clients) : clients[k] = EntryOf(w, p)
      BY <1>5 DEF WaitAt
    <2>2. CASE k # i
      <3>1. PICK j \in 1 .. Len(clients') : clients'[j] = EntryOf(w, p)
        BY <1>3, <2>1, <2>2
      <3> QED BY <1>1, <3>1 DEF WaitAt, EntryOf
    <2>3. CASE k = i
      <3>1. clients[i] \in Entry /\ i # 0
        <4>1. i \in 1 .. Len(clients) /\ i # 0
          BY <2>1, <2>3
        <4>2. clients[i] \in Entry
          BY <4>1, TypesOf
        <4> QED BY <4>1, <4>2
      <3>2. Respond(u, Peer(clients[i])) /\ Peer(clients[i]) \in Answers
        BY <1>1, <3>1, AnswerKinds
      <3>3. /\ Len(outbox[u]) \in Nat /\ Len(outbox'[u]) = Len(outbox[u]) + 1
            /\ outbox'[u][Len(outbox[u]) + 1] = Peer(clients[i])
        BY <3>2, Responding
      <3>4. PICK l \in 1 .. Len(outbox'[u]) : outbox'[u][l] = Peer(EntryOf(w, p))
        <4>1. Len(outbox[u]) + 1 \in 1 .. Len(outbox'[u])
          BY <3>3
        <4> QED BY <2>1, <2>3, <3>3, <4>1
      <3> QED BY <1>1, <3>4 DEF OnWay, EntryOf
    <2> QED BY <2>2, <2>3
  <1> QED BY <1>4, <1>5

\* A wait that is read becomes an entry of its user.
LEMMA OneListed ==
  ASSUME TypeOK, NEW u \in Users, ServeWait(u), NEW w \in Users, NEW p \in 1 .. MaxCmds
  PROVE  WaitAt(w, 0, p)' <=> WaitAt(w, 0, p) \/ (w = u /\ inbox[u][1] = WaitOn(p))
  <1>1. Read(u, "w") /\ my_name' = my_name
    BY DEF ServeWait, users
  <1>2. PICK c \in Commands : c = inbox[u][1] /\ c.cmd = "w" /\ Head(inbox[u]) = c
    BY <1>1, Reading DEF Cmd
  <1>3. PICK q \in 1 .. MaxCmds : c = WaitOn(q) /\ c.port = q
    BY <1>2, CommandKinds
  <1>4. clients' = Append(clients, EntryOf(u, q))
    BY <1>2, <1>3 DEF ServeWait, EntryOf
  <1>5. EntryOf(u, q) \in Entry /\ clients \in Seq(Entry) /\ Len(clients) \in Nat
    BY TypesOf DEF EntryOf, Entry
  <1>6. /\ Len(clients') = Len(clients) + 1
        /\ \A k \in 1 .. Len(clients) : clients'[k] = clients[k]
        /\ clients'[Len(clients) + 1] = EntryOf(u, q)
    BY <1>4, <1>5, AppendProperties
  <1>7. /\ \A k \in 1 .. Len(clients') : k \in 1 .. Len(clients) \/ k = Len(clients) + 1
        /\ \A k \in 1 .. Len(clients) : k \in 1 .. Len(clients')
        /\ Len(clients) + 1 \in 1 .. Len(clients')
    BY <1>5, <1>6
  <1>8. WaitAt(w, 0, p)' <=> \E k \in 1 .. Len(clients') : clients'[k] = EntryOf(w, p)
    BY <1>1 DEF WaitAt, EntryOf
  <1>9. WaitAt(w, 0, p)' <=> WaitAt(w, 0, p) \/ EntryOf(u, q) = EntryOf(w, p)
    BY <1>6, <1>7, <1>8 DEF WaitAt
  <1>10. EntryOf(u, q) = EntryOf(w, p) <=> w = u /\ p = q
    BY DEF EntryOf
  <1>11. WaitOn(q) = WaitOn(p) <=> p = q
    BY DEF WaitOn
  <1> QED BY <1>2, <1>3, <1>9, <1>10, <1>11

\* An answer stays where it is until it is read.
LEMMA StaysOnWay ==
  ASSUME TypeOK, NEW u \in Users, my_name' = my_name,
         UNCHANGED outbox \/ \E a \in Answers : Respond(u, a),
         NEW w \in Users, NEW p, OnWay(w, p)
  PROVE  OnWay(w, p)'
  <1>1. PICK v \in Users : \E k \in 1 .. Len(outbox[v]) : outbox[v][k] = Peer(EntryOf(w, p))
    BY DEF OnWay
  <1>2. PICK k \in 1 .. Len(outbox[v]) : outbox[v][k] = Peer(EntryOf(w, p))
    BY <1>1
  <1>3. k \in 1 .. Len(outbox'[v]) /\ outbox'[v][k] = outbox[v][k]
    <2>1. CASE UNCHANGED outbox
      BY <2>1
    <2>2. ASSUME NEW a \in Answers, Respond(u, a)
          PROVE  k \in 1 .. Len(outbox'[v]) /\ outbox'[v][k] = outbox[v][k]
      <3>1. CASE v = u
        <4>1. /\ Len(outbox[u]) \in Nat /\ Len(outbox'[u]) = Len(outbox[u]) + 1
              /\ \A i \in 1 .. Len(outbox[u]) : outbox'[u][i] = outbox[u][i]
          BY <2>2, Responding
        <4> QED BY <3>1, <4>1
      <3>2. CASE v # u
        BY <2>2, <3>2, Responding
      <3> QED BY <3>1, <3>2
    <2> QED BY <2>1, <2>2
  <1> QED BY <1>2, <1>3 DEF OnWay, EntryOf

\* A command of u is read: z is where what is now in the list was.
LEMMA ReadWaits ==
  ASSUME TypeOK, TypeOK', "coalesce" \notin faults, NEW u \in Users, Alternate(u), Found(u),
         NEW c, Read(u, c), NEW z \in 0 .. 1,
         mode' = mode, port' = port, open' = open, backlog' = backlog,
         \A p \in 1 .. MaxCmds :
           /\ WaitAt(u, 0, p)' => WaitAt(u, z, p) /\ (z = 1 \/ c \notin {"r", "q"})
           /\ WaitAt(u, 0, p) /\ c \notin {"r", "q"} => WaitAt(u, 0, p)' \/ OnWay(u, p)'
           /\ WaitAt(u, 1, p) => WaitAt(u, 0, p)'
           /\ OnWay(u, p) => OnWay(u, p)'
  PROVE  Alternate(u)' /\ Found(u)'
  <1>1. /\ Length(u) \in Nat \ {0} /\ Length(u)' = Length(u) - 1 /\ Cmd(u, 1) = c
        /\ \A i \in 1 .. Length(u)' : i + 1 \in 1 .. Length(u) /\ inbox'[u][i] = inbox[u][i + 1]
    BY ReadingOne DEF Length
  <1>2. /\ \A i \in 1 .. Length(u)' : i + 1 \in 1 .. Length(u) /\ (Leaves(u, i)' <=> Leaves(u, i + 1))
        /\ \A i \in 1 .. Length(u)', p \in 1 .. MaxCmds : WaitAt(u, i, p)' <=> WaitAt(u, i + 1, p)
        /\ Leaves(u, 1) <=> c \in {"r", "q"}
    <2>1. \A i \in 1 .. Length(u)' : i + 1 \in 1 .. Length(u) /\ (Leaves(u, i)' <=> Leaves(u, i + 1))
      BY <1>1 DEF Leaves, Cmd
    <2>2. ASSUME NEW i \in 1 .. Length(u)', NEW p \in 1 .. MaxCmds
          PROVE  WaitAt(u, i, p)' <=> WaitAt(u, i + 1, p)
      <3>1. i # 0 /\ i + 1 # 0
        BY <1>1
      <3> QED BY <1>1, <3>1 DEF WaitAt
    <2> QED BY <1>1, <2>1, <2>2 DEF Leaves
  <1>3. \A i \in 0 .. Length(u)' : /\ i + 1 \in 0 .. Length(u)
                                   /\ i = 0 \/ i \in 1 .. Length(u)'
    BY <1>1
  <1>4. Alternate(u)'
    <2>1. ASSUME NEW i \in 0 .. Length(u)', NEW p \in 1 .. MaxCmds, WaitAt(u, i, p)'
          PROVE  /\ Was(1, z, i) \in 0 .. Length(u) /\ WaitAt(u, Was(1, z, i), p)
                 /\ \A j \in 1 .. Length(u) : Was(1, z, i) < j /\ Leaves(u, j) =>
                      \E k \in 1 .. Length(u)' : k + 1 = j /\ i < k /\ Leaves(u, k)'
                 /\ Waits(u, p) => Waits(u, p)' \/ Ended(u, i)'
      <3>1. Was(1, z, i) \in 0 .. Length(u)
        BY <1>1 DEF Was
      <3>2. WaitAt(u, Was(1, z, i), p)
        <4>1. CASE i = 0
          BY <2>1, <4>1 DEF Was
        <4>2. CASE i \in 1 .. Length(u)'
          <5>1. WaitAt(u, i + 1, p) /\ Was(1, z, i) = i + 1
            BY <1>2, <2>1, <4>2 DEF Was
          <5> QED BY <5>1
        <4> QED BY <1>3, <4>1, <4>2
      <3>3. ASSUME NEW j \in 1 .. Length(u), Was(1, z, i) < j, Leaves(u, j)
            PROVE  \E k \in 1 .. Length(u)' : k + 1 = j /\ i < k /\ Leaves(u, k)'
        <4>1. j # 1
          <5>1. CASE i = 0
            <6>1. z = 1 \/ c \notin {"r", "q"}
              BY <2>1, <5>1
            <6>2. Was(1, z, i) = z
              BY <5>1 DEF Was
            <6> QED BY <1>2, <3>3, <6>1, <6>2
          <5>2. CASE i \in 1 .. Length(u)'
            BY <1>1, <3>3, <5>2 DEF Was
          <5> QED BY <1>3, <5>1, <5>2
        <4>2. j - 1 \in 1 .. Length(u)' /\ (j - 1) + 1 = j /\ i < j - 1
          <5>1. j - 1 \in 1 .. Length(u)' /\ (j - 1) + 1 = j
            BY <1>1, <4>1
          <5>2. i < j - 1
            BY <1>1, <3>3, <4>1 DEF Was
          <5> QED BY <5>1, <5>2
        <4>3. PICK k \in 1 .. Length(u)' : k + 1 = j /\ i < k
          BY <4>2
        <4> QED BY <1>2, <3>3, <4>3
      <3>4. Waits(u, p) => Waits(u, p)'
        BY DEF Waits
      <3> QED BY <3>1, <3>2, <3>3, <3>4
    <2>2. 1 \in {0, 1} /\ z \in 0 .. 1
      OBVIOUS
    <2> QED BY <2>1, <2>2, Moves
  <1>5. ASSUME NEW i \in 0 .. Length(u)', NEW k \in 0 .. Length(u), k <= i + 1, ~ Ended(u, k)
        PROVE  ~ Ended(u, i)'
    <2> SUFFICES ASSUME NEW j \in 1 .. Length(u)', i < j, Leaves(u, j)' PROVE FALSE
      BY DEF Ended
    <2>1. j + 1 \in 1 .. Length(u) /\ Leaves(u, j + 1)
      BY <1>2
    <2>2. k < j + 1
      BY <1>1, <1>5
    <2> QED BY <1>5, <2>1, <2>2 DEF Ended
  <1>6. ASSUME mode[u] = "waiting", NEW p \in 1 .. MaxCmds, p = port[u]
        PROVE  \/ \E i \in 0 .. Length(u)' : WaitAt(u, i, p)' /\ ~ Ended(u, i)'
               \/ OnWay(u, p)'
               \/ p \in backlog[u]
    <2>1. \/ \E i \in 0 .. Length(u) : WaitAt(u, i, p) /\ ~ Ended(u, i)
          \/ OnWay(u, p)
          \/ p \in backlog[u]
      BY <1>6 DEF Found
    <2>2. ASSUME NEW k \in 0 .. Length(u), WaitAt(u, k, p), ~ Ended(u, k)
          PROVE  (\E i \in 0 .. Length(u)' : WaitAt(u, i, p)' /\ ~ Ended(u, i)') \/ OnWay(u, p)'
      <3>1. CASE k = 0
        <4>1. ~ Leaves(u, 1)
          <5>1. 1 \in 1 .. Length(u) /\ 0 < 1
            BY <1>1
          <5> QED BY <2>2, <3>1, <5>1 DEF Ended
        <4>2. WaitAt(u, 0, p)' \/ OnWay(u, p)'
          BY <1>2, <2>2, <3>1, <4>1
        <4>3. 0 \in 0 .. Length(u)' /\ k <= 0 + 1
          BY <1>1, <3>1
        <4>4. ~ Ended(u, 0)'
          BY <1>5, <2>2, <4>3
        <4> QED BY <4>2, <4>3, <4>4
      <3>2. CASE k = 1
        <4>1. 0 \in 0 .. Length(u)' /\ k <= 0 + 1
          BY <1>1, <3>2
        <4>2. ~ Ended(u, 0)'
          BY <1>5, <2>2, <4>1
        <4>3. WaitAt(u, 0, p)'
          BY <2>2, <3>2
        <4> QED BY <4>1, <4>2, <4>3
      <3>3. CASE k > 1
        <4>1. k - 1 \in 1 .. Length(u)' /\ k - 1 \in 0 .. Length(u)' /\ (k - 1) + 1 = k
          BY <1>1, <3>3
        <4>2. PICK i \in 1 .. Length(u)' : i + 1 = k /\ i \in 0 .. Length(u)'
          BY <4>1
        <4>3. WaitAt(u, i, p)'
          BY <1>2, <2>2, <4>2
        <4>4. ~ Ended(u, i)'
          <5>1. k <= i + 1
            BY <4>2
          <5> QED BY <1>5, <2>2, <4>2, <5>1
        <4> QED BY <4>2, <4>3, <4>4
      <3>4. k \in Nat
        BY <1>1
      <3> QED BY <3>1, <3>2, <3>3, <3>4
    <2> QED BY <1>6, <2>1, <2>2
  <1>7. Found(u)'
    <2>1. /\ mode'[u] # "disturbed"
          /\ mode'[u] \in {"preparing", "waiting"} => port'[u] \in open'[u]
      BY DEF Found
    <2>2. ASSUME mode'[u] = "waiting"
          PROVE  \/ \E i \in 0 .. Length(u)' : WaitAt(u, i, port[u])' /\ ~ Ended(u, i)'
                 \/ OnWay(u, port[u])'
                 \/ port'[u] \in backlog'[u]
      <3>1. port[u] \in 1 .. MaxCmds
        <4>1. port[u] \in open[u]
          BY <2>2 DEF Found
        <4> QED BY <4>1, TypesOf
      <3>2. PICK p \in 1 .. MaxCmds : p = port[u] /\ p = port'[u]
        BY <3>1
      <3>3. \/ \E i \in 0 .. Length(u)' : WaitAt(u, i, p)' /\ ~ Ended(u, i)'
            \/ OnWay(u, p)'
            \/ p \in backlog'[u]
        BY <1>6, <2>2, <3>2
      <3> QED BY <3>2, <3>3
    <2> QED BY <2>1, <2>2 DEF Found
  <1> QED BY <1>4, <1>7

\* A step of a handler.
LEMMA ServeWaits ==
  ASSUME TypeOK, TypeOK', Tokens, "coalesce" \notin faults, IsInjective(my_name),
         \A w \in Users : Alternate(w) /\ Found(w), NEW u \in Users, Serve(u)
  PROVE  \A w \in Users : Alternate(w)' /\ Found(w)'
  <1>1. /\ my_name' = my_name /\ mode' = mode /\ port' = port /\ open' = open
        /\ backlog' = backlog
    BY DEF Serve, CheckName, AddName, QuitWaiting, QuitName, ServeConnect, ServeWait,
           ServeList, ServeLeaveWait, EndOfStream, users
  <1>2. UNCHANGED outbox \/ \E a \in Answers : Respond(u, a)
    <2>1. CASE ServeConnect(u)
      <3>1. PICK i \in 0 .. Len(clients) :
              Respond(u, IF i = 0 THEN Answer("nobody") ELSE Peer(clients[i]))
        BY <2>1, Searching DEF ServeConnect
      <3>2. CASE i = 0
        BY <3>1, <3>2, AnswerKinds
      <3>3. CASE i # 0
        <4>1. i \in 1 .. Len(clients)
          BY <3>3, Lengths
        <4>2. clients[i] \in Entry
          BY <4>1, TypesOf
        <4> QED BY <3>1, <3>3, <4>2, AnswerKinds
      <3> QED BY <3>2, <3>3
    <2>2. CASE CheckName(u) \/ AddName(u) \/ ServeList(u)
      BY <2>2, AnswerKinds DEF CheckName, AddName, ServeList
    <2>3. CASE QuitWaiting(u) \/ QuitName(u) \/ ServeWait(u) \/ ServeLeaveWait(u) \/ EndOfStream(u)
      BY <2>3 DEF QuitWaiting, QuitName, ServeWait, ServeLeaveWait, EndOfStream
    <2> QED BY <2>1, <2>2, <2>3 DEF Serve
  <1>3. ASSUME NEW w \in Users, NEW p \in 1 .. MaxCmds, OnWay(w, p) PROVE OnWay(w, p)'
    BY <1>1, <1>2, <1>3, StaysOnWay
  <1>4. CASE CheckName(u) \/ AddName(u) \/ QuitName(u) \/ ServeList(u) \/ EndOfStream(u)
    <2>1. clients' = clients
      BY <1>4 DEF CheckName, AddName, QuitName, ServeList, EndOfStream, server
    <2>2. \A w \in Users, p \in 1 .. MaxCmds : WaitAt(w, 0, p)' <=> WaitAt(w, 0, p)
      BY <1>1, <2>1 DEF WaitAt, EntryOf
    <2>3. ASSUME NEW w \in Users, inbox'[w] = inbox[w] PROVE Alternate(w)' /\ Found(w)'
      BY <1>1, <1>3, <2>2, <2>3, OthersWait
    <2>4. CASE AddName(u) \/ QuitName(u)
      BY <2>3, <2>4 DEF AddName, QuitName
    <2>5. ASSUME NEW c \in {"a", "l", "eof"}, Read(u, c)
          PROVE  \A w \in Users : Alternate(w)' /\ Found(w)'
      <3>1. \A w \in Users : w # u => inbox'[w] = inbox[w]
        BY <2>5, ReadingOne
      <3>2. \A p \in 1 .. MaxCmds : ~ WaitAt(u, 1, p)
        <4>1. Cmd(u, 1) = c
          BY <2>5, ReadingOne
        <4> QED BY <2>5, <4>1, CommandKinds DEF WaitAt, Cmd
      <3>3. Alternate(u)' /\ Found(u)'
        BY <1>1, <1>3, <2>2, <2>5, <3>2, ReadWaits
      <3> QED BY <2>3, <3>1, <3>3
    <2>6. CASE CheckName(u) \/ ServeList(u) \/ EndOfStream(u)
      BY <2>5, <2>6 DEF CheckName, ServeList, EndOfStream
    <2> QED BY <1>4, <2>4, <2>6
  <1>5. CASE ServeConnect(u)
    <2>1. Read(u, "c")
      BY <1>5 DEF ServeConnect
    <2>2. \A w \in Users, p \in 1 .. MaxCmds :
            /\ WaitAt(w, 0, p)' => WaitAt(w, 0, p)
            /\ WaitAt(w, 0, p) => WaitAt(w, 0, p)' \/ OnWay(w, p)'
      BY <1>5, OneTaken
    <2>3. ASSUME NEW w \in Users, w # u PROVE Alternate(w)' /\ Found(w)'
      <3>1. inbox'[w] = inbox[w]
        BY <2>1, <2>3, ReadingOne
      <3> QED BY <1>1, <1>3, <2>2, <3>1, OthersWait
    <2>4. \A p \in 1 .. MaxCmds : ~ WaitAt(u, 1, p)
      <3>1. Cmd(u, 1) = "c"
        BY <2>1, ReadingOne
      <3> QED BY <3>1, CommandKinds DEF WaitAt, Cmd
    <2>5. Alternate(u)' /\ Found(u)'
      BY <1>1, <1>3, <2>1, <2>2, <2>4, ReadWaits
    <2> QED BY <2>3, <2>5
  <1>6. CASE ServeWait(u)
    <2>1. Read(u, "w")
      BY <1>6 DEF ServeWait
    <2>2. \A w \in Users, p \in 1 .. MaxCmds :
            WaitAt(w, 0, p)' <=> WaitAt(w, 0, p) \/ (w = u /\ inbox[u][1] = WaitOn(p))
      BY <1>6, OneListed
    <2>3. ASSUME NEW w \in Users, w # u PROVE Alternate(w)' /\ Found(w)'
      <3>1. inbox'[w] = inbox[w]
        BY <2>1, <2>3, ReadingOne
      <3> QED BY <1>1, <1>3, <2>2, <2>3, <3>1, OthersWait
    <2>4. PICK q \in 1 .. MaxCmds : WaitAt(u, 1, q)
      <3>1. Cmd(u, 1) = "w" /\ inbox[u][1] \in Commands
        BY <2>1, Reading
      <3> QED BY <3>1, CommandKinds DEF WaitAt, Cmd
    <2>5. ASSUME NEW p \in 1 .. MaxCmds PROVE ~ WaitAt(u, 0, p)
      <3> SUFFICES ASSUME WaitAt(u, 0, p) PROVE FALSE
        OBVIOUS
      <3>1. 0 \in 0 .. Length(u) /\ 1 \in 0 .. Length(u) /\ 0 < 1
        BY <2>1, ReadingOne
      <3>2. PICK j \in 1 .. Length(u) : 0 < j /\ j < 1
        BY <2>4, <3>1 DEF Alternate
      <3> QED BY <3>2
    <2>6. \A p \in 1 .. MaxCmds : WaitAt(u, 0, p)' <=> WaitAt(u, 1, p)
      BY <2>2, <2>5 DEF WaitAt
    <2>7. 1 \in 0 .. 1
      OBVIOUS
    <2>8. Alternate(u)' /\ Found(u)'
      BY <1>1, <1>3, <2>1, <2>5, <2>6, <2>7, ReadWaits
    <2> QED BY <2>3, <2>8
  <1>7. CASE QuitWaiting(u) \/ ServeLeaveWait(u)
    <2>1. PICK c \in {"r", "q"} : Read(u, c)
      BY <1>7 DEF QuitWaiting, ServeLeaveWait
    <2>2. ASSUME NEW w \in Users, NEW p \in 1 .. MaxCmds
          PROVE  WaitAt(w, 0, p)' <=> WaitAt(w, 0, p) /\ w # u
      <3>1. clients' = Without(clients, findItem(my_name[u]))
        BY <1>7 DEF QuitWaiting, ServeLeaveWait
      <3> QED BY <1>1, <3>1, OwnTaken
    <2>3. ASSUME NEW w \in Users, w # u PROVE Alternate(w)' /\ Found(w)'
      <3>1. inbox'[w] = inbox[w]
        BY <2>1, <2>3, ReadingOne
      <3> QED BY <1>1, <1>3, <2>2, <2>3, <3>1, OthersWait
    <2>4. \A p \in 1 .. MaxCmds : ~ WaitAt(u, 1, p)
      <3>1. Cmd(u, 1) = c
        BY <2>1, ReadingOne
      <3> QED BY <3>1, CommandKinds DEF WaitAt, Cmd
    <2>5. Alternate(u)' /\ Found(u)'
      BY <1>1, <1>3, <2>1, <2>2, <2>4, ReadWaits
    <2> QED BY <2>3, <2>5
  <1> QED BY <1>4, <1>5, <1>6, <1>7 DEF Serve

\* An answer that a user reads is gone, the others stay.
LEMMA HeardOnWay ==
  ASSUME TypeOK, NEW u \in Users, NEW a, Hears(u, a), my_name' = my_name,
         NEW w \in Users, NEW p, OnWay(w, p), outbox[u][1] # Peer(EntryOf(w, p))
  PROVE  OnWay(w, p)'
  <1>1. PICK v \in Users : \E k \in 1 .. Len(outbox[v]) : outbox[v][k] = Peer(EntryOf(w, p))
    BY DEF OnWay
  <1>2. PICK k \in 1 .. Len(outbox[v]) : outbox[v][k] = Peer(EntryOf(w, p))
    BY <1>1
  <1>3. \E i \in 1 .. Len(outbox'[v]) : outbox'[v][i] = Peer(EntryOf(w, p))
    <2>1. CASE v # u
      <3>1. outbox'[v] = outbox[v]
        BY <2>1, Hearing
      <3> QED BY <1>2, <3>1
    <2>2. CASE v = u
      <3>1. /\ Len(outbox[u]) \in Nat \ {0} /\ Len(outbox'[u]) = Len(outbox[u]) - 1
            /\ \A i \in 1 .. Len(outbox'[u]) : outbox'[u][i] = outbox[u][i + 1]
        BY Hearing
      <3>2. k # 1 /\ k \in 1 .. Len(outbox[u])
        BY <1>2, <2>2
      <3>3. k - 1 \in 1 .. Len(outbox'[u]) /\ (k - 1) + 1 = k
        BY <3>1, <3>2
      <3>4. PICK i \in 1 .. Len(outbox'[u]) : i + 1 = k
        BY <3>3
      <3> QED BY <1>2, <2>2, <3>1, <3>4
    <2> QED BY <2>1, <2>2
  <1> QED BY <1>3 DEF OnWay, EntryOf

\* A user that sends nothing but commands that do not ask.
LEMMA SendsOn ==
  ASSUME TypeOK, TypeOK', NEW u \in Users, Alternate(u), my_name' = my_name, clients' = clients,
         Length(u) <= Length(u)', \A i \in 1 .. Length(u) : inbox'[u][i] = inbox[u][i],
         \A i \in 1 .. Length(u)' : i \in 1 .. Length(u) \/ Cmd(u, i)' # "w",
         \A i \in 0 .. Length(u), p \in 1 .. MaxCmds : WaitAt(u, i, p) /\ Waits(u, p) =>
           Waits(u, p)' \/ Ended(u, i)'
  PROVE  Alternate(u)'
  <1>1. Length(u) \in Nat /\ Length(u)' \in Nat
    BY Lengths DEF Length
  <1>2. \A i \in 1 .. Length(u) : i \in 1 .. Length(u)' /\ (Leaves(u, i)' <=> Leaves(u, i))
    BY <1>1 DEF Leaves, Cmd
  <1>3. ASSUME NEW i \in 0 .. Length(u)', NEW p \in 1 .. MaxCmds, WaitAt(u, i, p)'
        PROVE  i \in 0 .. Length(u) /\ WaitAt(u, i, p)
    <2>1. CASE i = 0
      BY <1>1, <1>3, <2>1 DEF WaitAt, EntryOf
    <2>2. CASE i \in 1 .. Length(u)'
      <3>1. i # 0
        BY <2>2
      <3>2. inbox'[u][i] = WaitOn(p)
        BY <1>3, <3>1 DEF WaitAt
      <3>3. Cmd(u, i)' = "w"
        BY <3>2, CommandKinds DEF Cmd
      <3>4. i \in 1 .. Length(u)
        BY <2>2, <3>3
      <3>5. inbox[u][i] = WaitOn(p)
        BY <3>2, <3>4
      <3>6. i \in 0 .. Length(u)
        BY <3>4
      <3> QED BY <3>1, <3>5, <3>6 DEF WaitAt
    <2>3. i = 0 \/ i \in 1 .. Length(u)'
      BY <1>1
    <2> QED BY <2>1, <2>2, <2>3
  <1>4. ASSUME NEW i \in 0 .. Length(u)', NEW p \in 1 .. MaxCmds, WaitAt(u, i, p)'
        PROVE  /\ Was(0, 0, i) \in 0 .. Length(u) /\ WaitAt(u, Was(0, 0, i), p)
               /\ \A j \in 1 .. Length(u) : Was(0, 0, i) < j /\ Leaves(u, j) =>
                    \E k \in 1 .. Length(u)' : k + 0 = j /\ i < k /\ Leaves(u, k)'
               /\ Waits(u, p) => Waits(u, p)' \/ Ended(u, i)'
    <2>1. Was(0, 0, i) = i
      BY <1>1 DEF Was
    <2>2. i \in 0 .. Length(u) /\ WaitAt(u, i, p)
      BY <1>3, <1>4
    <2>3. \A j \in 1 .. Length(u) : i < j /\ Leaves(u, j) =>
            \E k \in 1 .. Length(u)' : k + 0 = j /\ i < k /\ Leaves(u, k)'
      <3> SUFFICES ASSUME NEW j \in 1 .. Length(u), i < j, Leaves(u, j)
                   PROVE  \E k \in 1 .. Length(u)' : k + 0 = j /\ i < k /\ Leaves(u, k)'
        OBVIOUS
      <3>1. j + 0 = j
        BY <1>1
      <3> QED BY <1>2, <3>1
    <2> QED BY <2>1, <2>2, <2>3
  <1>5. 0 \in {0, 1} /\ 0 \in 0 .. 0
    OBVIOUS
  <1> QED BY <1>4, <1>5, Moves

\* A user that asks.
LEMMA SendWaitWaits ==
  ASSUME TypeOK, TypeOK', Counted, NEW u \in Users, Alternate(u), Found(u), SendWait(u)
  PROVE  Alternate(u)' /\ Found(u)'
  <1>1. /\ mode[u] = "preparing" /\ mode'[u] = "waiting" /\ port' = port /\ open' = open
        /\ port[u] \in open[u] /\ clients' = clients /\ my_name' = my_name
        /\ Send(u, WaitOn(port[u]))
    BY TypesOf DEF SendWait, Found, Goto, server
  <1>2. PICK q \in 1 .. MaxCmds : q = port[u] /\ q = port'[u]
    <2>1. port[u] \in 1 .. MaxCmds
      BY <1>1, TypesOf
    <2> QED BY <1>1, <2>1
  <1>3. PICK l \in Nat \ {0} :
          /\ Length(u) \in Nat /\ l = Length(u) + 1 /\ Length(u)' = l
          /\ \A i \in 1 .. Length(u) : inbox'[u][i] = inbox[u][i]
          /\ inbox'[u][l] = WaitOn(q)
    <2>1. /\ Length(u) \in Nat /\ Length(u)' = Length(u) + 1
          /\ \A i \in 1 .. Length(u) : inbox'[u][i] = inbox[u][i]
          /\ inbox'[u][Length(u) + 1] = WaitOn(q)
      BY <1>1, <1>2, Sending, CommandKinds DEF Length
    <2>2. Length(u) + 1 \in Nat \ {0}
      BY <2>1
    <2> QED BY <2>1, <2>2
  <1>4. /\ \A i \in 1 .. Length(u) : i \in 1 .. Length(u)' /\ (Leaves(u, i)' <=> Leaves(u, i))
        /\ ~ Leaves(u, l)'
    BY <1>3, CommandKinds DEF Leaves, Cmd
  <1>5. \A p : \A i \in 0 .. Length(u) : WaitAt(u, i, p)' <=> WaitAt(u, i, p)
    <2> SUFFICES ASSUME NEW i \in 0 .. Length(u), NEW p PROVE WaitAt(u, i, p)' <=> WaitAt(u, i, p)
      OBVIOUS
    <2>1. CASE i = 0
      BY <1>1, <2>1 DEF WaitAt, EntryOf
    <2>2. CASE i # 0
      <3>1. i \in 1 .. Length(u)
        BY <1>3, <2>2
      <3> QED BY <1>3, <2>2, <3>1 DEF WaitAt
    <2> QED BY <2>1, <2>2
  <1>6. \A p \in 1 .. MaxCmds : WaitAt(u, l, p)' <=> p = q
    BY <1>3 DEF WaitAt, WaitOn
  <1>7. \A i \in 0 .. Length(u)' : i \in 0 .. Length(u) \/ i = l
    BY <1>3
  <1>8. Waits(u, q)'
    BY <1>1, <1>2 DEF Waits
  <1>9. ASSUME NEW i \in 0 .. Length(u), NEW p \in 1 .. MaxCmds, WaitAt(u, i, p)
        PROVE  \E j \in 1 .. Length(u) : i < j /\ Leaves(u, j)
    BY <1>1, <1>9 DEF Alternate, Waits, Ended
  <1>10. Alternate(u)'
    <2> SUFFICES ASSUME NEW i \in 0 .. Length(u)', NEW p \in 1 .. MaxCmds, WaitAt(u, i, p)'
                 PROVE  /\ Ended(u, i)' \/ Waits(u, p)'
                        /\ \A k \in 0 .. Length(u)', r \in 1 .. MaxCmds : WaitAt(u, k, r)' =>
                             /\ i < k => \E j \in 1 .. Length(u)' : i < j /\ j < k /\ Leaves(u, j)'
                             /\ i = k => p = r
      BY DEF Alternate
    <2>1. CASE i = l
      <3>1. p = q
        BY <1>6, <2>1
      <3>2. \A k \in 0 .. Length(u)' : ~ (i < k)
        BY <1>3, <2>1
      <3> QED BY <1>6, <1>8, <2>1, <3>1, <3>2
    <2>2. CASE i \in 0 .. Length(u)
      <3>1. WaitAt(u, i, p)
        BY <1>5, <2>2
      <3>2. PICK j \in 1 .. Length(u) : i < j /\ Leaves(u, j)
        BY <1>9, <2>2, <3>1
      <3>3. Ended(u, i)'
        BY <1>4, <3>2 DEF Ended
      <3>4. ASSUME NEW k \in 0 .. Length(u)', NEW r \in 1 .. MaxCmds, WaitAt(u, k, r)'
            PROVE  /\ i < k => \E m \in 1 .. Length(u)' : i < m /\ m < k /\ Leaves(u, m)'
                   /\ i = k => p = r
        <4>1. CASE k = l
          <5>1. j < k /\ i # k
            BY <1>3, <2>2, <4>1
          <5> QED BY <1>4, <3>2, <5>1
        <4>2. CASE k \in 0 .. Length(u)
          <5>1. WaitAt(u, k, r)
            BY <1>5, <3>4, <4>2
          <5>2. /\ i < k => \E m \in 1 .. Length(u) : i < m /\ m < k /\ Leaves(u, m)
                /\ i = k => p = r
            BY <2>2, <3>1, <4>2, <5>1 DEF Alternate
          <5> QED BY <1>4, <5>2
        <4> QED BY <1>7, <4>1, <4>2
      <3> QED BY <3>3, <3>4
    <2> QED BY <1>7, <2>1, <2>2
  <1>11. Found(u)'
    <2>1. l \in 0 .. Length(u)' /\ WaitAt(u, l, q)'
      BY <1>3, <1>6
    <2>2. ~ Ended(u, l)'
      <3>1. \A j \in 1 .. Length(u)' : ~ (l < j)
        BY <1>3
      <3> QED BY <3>1 DEF Ended
    <2> QED BY <1>1, <1>2, <2>1, <2>2 DEF Found
  <1> QED BY <1>10, <1>11

\* A user that sends r or q leaves the list.
LEMMA LastLeaves ==
  ASSUME TypeOK, TypeOK', NEW u \in Users, NEW j \in 1 .. Length(u)', j > Length(u), Leaves(u, j)',
         NEW i \in 0 .. Length(u)
  PROVE  Ended(u, i)'
  <1>1. i < j
    BY Lengths DEF Length
  <1> QED BY <1>1 DEF Ended

\* The user that takes the step, unless it asks.
LEMMA OwnWaits ==
  ASSUME TypeOK, TypeOK', Called, Regular, NEW u \in Users, Alternate(u), Found(u),
         Proceed(u) \/ Type(u), ~ SendWait(u)
  PROVE  Alternate(u)' /\ Found(u)'
  <1>1. /\ clients' = clients /\ my_name' = my_name /\ ~ Crash(u) /\ mode[u] # "disturbed"
    BY DEF Proceed, Type, Joined, Rejected, Listed, Nobody, Dial, Accept, Join, Prepare, BreakWait,
           List, HangUp, Quit, Crash, Ask, server, SendWait, Regular, Found
  <1>2. /\ Length(u) \in Nat /\ Length(u)' \in Nat
        /\ \A i \in 1 .. Length(u) + 1 : i \in 1 .. Length(u) \/ i = Length(u) + 1
    BY Lengths DEF Length
  <1>3. CASE inbox'[u] = inbox[u] /\ mode[u] # "waiting"
    <2>1. /\ Length(u) <= Length(u)'
          /\ \A i \in 1 .. Length(u)' : i \in 1 .. Length(u)
      BY <1>2, <1>3 DEF Length
    <2>2. \A p : ~ Waits(u, p)
      BY <1>3 DEF Waits
    <2>3. Alternate(u)'
      BY <1>1, <1>3, <2>1, <2>2, SendsOn
    <2>4. Found(u)'
      <3>1. CASE Prepare(u)
        <4>1. mode'[u] = "preparing" /\ port'[u] \in open'[u]
          BY <3>1, TypesOf DEF Prepare, Goto
        <4> QED BY <4>1 DEF Found
      <3>2. CASE ~ Prepare(u)
        <4>1. mode'[u] \notin {"disturbed", "preparing", "waiting"}
          <5>1. \A c \in Commands : ~ Send(u, c)
            BY <1>2, <1>3, Sending DEF Length
          <5>2. mode'[u] \in {"normal", "talking", "quit"}
            <6>1. \A x \in {"a", "q", "l", "r", "eof"} : ~ Send(u, Plain(x))
              BY <5>1, CommandKinds
            <6>2. \A n \in Names : ~ Send(u, Connect(n))
              BY <5>1, CommandKinds
            <6> QED BY <1>1, <3>2, <6>1, <6>2, TypesOf
                    DEF Proceed, Type, Joined, Rejected, Listed, Nobody, Dial, Accept, Join,
                        BreakWait, List, HangUp, Quit, Ask, SendWait, Goto
          <5> QED BY <5>2
        <4> QED BY <4>1 DEF Found
      <3> QED BY <3>1, <3>2
    <2> QED BY <2>3, <2>4
  <1>4. ASSUME NEW c \in Commands, c.cmd # "w", Send(u, c),
               mode[u] # "waiting" \/ c.cmd = "r",
               mode'[u] \notin {"disturbed", "preparing", "waiting"}
        PROVE  Alternate(u)' /\ Found(u)'
    <2>1. PICK j \in Nat \ {0} : j = Length(u) + 1
      BY <1>2
    <2>2. /\ Length(u)' = j /\ inbox'[u][j] = c
          /\ \A i \in 1 .. Length(u) : inbox'[u][i] = inbox[u][i]
          /\ \A i \in 1 .. Length(u)' : i \in 1 .. Length(u) \/ i = j
      BY <1>4, <2>1, Sending DEF Length
    <2>3. \A i \in 1 .. Length(u)' : i \in 1 .. Length(u) \/ Cmd(u, i)' # "w"
      BY <1>4, <2>2 DEF Cmd
    <2>4. ASSUME NEW i \in 0 .. Length(u), NEW p \in 1 .. MaxCmds, Waits(u, p) PROVE Ended(u, i)'
      <3>1. Leaves(u, j)'
        BY <1>4, <2>2, <2>4 DEF Waits, Leaves, Cmd
      <3>2. j \in 1 .. Length(u)' /\ j > Length(u)
        BY <1>2, <2>1, <2>2
      <3> QED BY <3>1, <3>2, LastLeaves
    <2>5. Length(u) <= Length(u)'
      BY <1>2, <2>1, <2>2
    <2>6. Alternate(u)'
      BY <1>1, <2>2, <2>3, <2>4, <2>5, SendsOn
    <2> QED BY <1>4, <2>6 DEF Found
  <1>5. CASE Join(u) \/ Rejected(u) \/ List(u) \/ BreakWait(u) \/ \E n \in Names : Ask(u, n)
    <2>1. \/ mode[u] # "waiting" /\ \E c \in Commands : c.cmd # "w" /\ Send(u, c)
          \/ \E c \in Commands : c.cmd = "r" /\ c.cmd # "w" /\ Send(u, c)
      <3>1. \A x \in {"a", "l", "r", "eof"} : Plain(x) \in Commands /\ Plain(x).cmd # "w"
        BY CommandKinds
      <3>2. \A n \in Names : Connect(n) \in Commands /\ Connect(n).cmd # "w"
        BY CommandKinds
      <3>3. CASE Join(u) \/ Rejected(u) \/ List(u)
        BY <3>1, <3>3 DEF Join, Rejected, List
      <3>4. CASE \E n \in Names : Ask(u, n)
        BY <3>2, <3>4 DEF Ask
      <3>5. CASE BreakWait(u)
        BY <3>5, CommandKinds DEF BreakWait
      <3> QED BY <1>5, <3>3, <3>4, <3>5
    <2>2. mode'[u] \notin {"disturbed", "preparing", "waiting"}
      BY <1>5, TypesOf DEF Join, Rejected, List, BreakWait, Interrupted, Ask, Goto, Regular
    <2> QED BY <1>4, <2>1, <2>2
  <1>6. CASE Joined(u) \/ Listed(u) \/ Nobody(u) \/ HangUp(u) \/ Prepare(u)
    <2>1. inbox'[u] = inbox[u] /\ mode[u] # "waiting"
      BY <1>6 DEF Joined, Listed, Nobody, HangUp, Prepare
    <2> QED BY <1>3, <2>1
  <1>7. CASE Dial(u)
    <2>1. mode[u] = "asking" /\ (UNCHANGED inbox \/ (Send(u, Plain("eof")) /\ Goto(u, "dead")))
      BY <1>7 DEF Dial
    <2>2. Goto(u, "dead") => mode'[u] = "dead"
      BY TypesOf DEF Goto
    <2> QED BY <1>3, <1>4, <2>1, <2>2, CommandKinds
  <1>8. CASE Accept(u)
    <2>1. /\ inbox' = inbox /\ mode'[u] = "talking" /\ port[u] \in backlog[u]
      BY <1>8, TypesOf DEF Accept, Goto
    <2>2. /\ Length(u) <= Length(u)'
          /\ \A i \in 1 .. Length(u)' : i \in 1 .. Length(u)
      BY <1>2, <2>1 DEF Length
    <2>3. ASSUME NEW i \in 0 .. Length(u), NEW p \in 1 .. MaxCmds, WaitAt(u, i, p), Waits(u, p)
          PROVE  FALSE
      <3>1. p \in backlog[u]
        BY <2>1, <2>3 DEF Waits
      <3>2. /\ Unlisted(u, p)
            /\ \A k \in 1 .. Length(u) : inbox[u][k] # WaitOn(p)
        BY <3>1 DEF Called
      <3>3. i = 0 \/ i \in 1 .. Length(u)
        BY <1>2
      <3> QED BY <2>3, <3>2, <3>3 DEF WaitAt, Unlisted
    <2>4. Alternate(u)'
      BY <1>1, <2>1, <2>2, <2>3, SendsOn
    <2> QED BY <2>1, <2>4 DEF Found
  <1>9. CASE Quit(u)
    <2>1. PICK j \in Nat \ {0} : j = Length(u) + 1
      BY <1>2
    <2>2. /\ Length(u)' = j + 1 /\ inbox'[u][j] = Plain("q") /\ inbox'[u][j + 1] = Plain("eof")
          /\ \A i \in 1 .. Length(u) : inbox'[u][i] = inbox[u][i]
          /\ \A i \in 1 .. Length(u)' : i \in 1 .. Length(u) \/ i = j \/ i = j + 1
      <3>1. Length(u) + 2 = j + 1
        BY <1>2, <2>1
      <3> QED BY <1>9, <2>1, <3>1, Quitting DEF Length
    <2>3. /\ \A i \in 1 .. Length(u)' : i \in 1 .. Length(u) \/ Cmd(u, i)' # "w"
          /\ Leaves(u, j)'
      BY <2>2, CommandKinds DEF Cmd, Leaves
    <2>4. Length(u) <= Length(u)' /\ j \in 1 .. Length(u)' /\ j > Length(u)
      BY <1>2, <2>1, <2>2
    <2>5. \A i \in 0 .. Length(u) : Ended(u, i)'
      BY <2>3, <2>4, LastLeaves
    <2>6. Alternate(u)'
      BY <1>1, <2>2, <2>3, <2>4, <2>5, SendsOn
    <2>7. mode'[u] = "quit"
      BY <1>9, TypesOf DEF Quit, Goto
    <2> QED BY <2>6, <2>7 DEF Found
  <1> QED BY <1>1, <1>5, <1>6, <1>7, <1>8, <1>9 DEF Proceed, Type

\* The users that take no part in a step of a client.
LEMMA OthersOfClient ==
  ASSUME TypeOK, TypeOK', Regular, NEW u \in Users, Proceed(u) \/ Type(u),
         NEW w \in Users, w # u, Alternate(w), Found(w)
  PROVE  Alternate(w)' /\ Found(w)'
  <1>1. /\ clients' = clients /\ my_name' = my_name /\ ~ Crash(u)
        /\ inbox'[w] = inbox[w] /\ mode'[w] = mode[w] /\ port'[w] = port[w] /\ open'[w] = open[w]
    <2>1. clients' = clients /\ my_name' = my_name /\ ~ Crash(u)
      BY DEF Proceed, Type, Joined, Rejected, Listed, Nobody, Dial, Accept, Join, Prepare,
             BreakWait, List, HangUp, Quit, Crash, Ask, server, SendWait, Regular
    <2>2. inbox'[w] = inbox[w]
      BY TypesOf DEF Proceed, Type, Joined, Rejected, SendWait, Listed, Nobody, Dial, Accept, Join,
         Prepare, BreakWait, List, HangUp, Quit, Crash, Ask, Send
    <2>3. mode'[w] = mode[w]
      BY TypesOf DEF Proceed, Type, Joined, Rejected, SendWait, Listed, Nobody, Dial, Accept, Join,
         Prepare, BreakWait, Interrupted, List, HangUp, Quit, Crash, Ask, Goto
    <2>4. port'[w] = port[w]
      BY TypesOf DEF Proceed, Type, Joined, Rejected, SendWait, Listed, Nobody, Dial, Accept, Join,
         Prepare, BreakWait, List, HangUp, Quit, Crash, Ask
    <2>5. open'[w] = open[w]
      BY TypesOf DEF Proceed, Type, Joined, Rejected, SendWait, Listed, Nobody, Dial, Accept, Join,
         Prepare, BreakWait, Interrupted, List, HangUp, Quit, Crash, Ask, Regular
    <2> QED BY <2>1, <2>2, <2>3, <2>4, <2>5
  <1>2. \A p \in 1 .. MaxCmds : WaitAt(w, 0, p)' <=> WaitAt(w, 0, p)
    BY <1>1 DEF WaitAt, EntryOf
  <1>3. CASE Dial(u)
    <2>1. /\ Hears(u, "peer")
          /\ LET e == Head(outbox[u]).entry
             IN  IF e.port \in open[e.owner]
                 THEN backlog' = [backlog EXCEPT ![e.owner] = @ \cup {e.port}]
                 ELSE UNCHANGED backlog
      BY <1>3 DEF Dial
    <2>2. \A p : p \in backlog[w] => p \in backlog'[w]
      <3>1. \/ \E o, q : backlog' = [backlog EXCEPT ![o] = @ \cup {q}]
            \/ UNCHANGED backlog
        BY <2>1
      <3>2. ASSUME NEW o, NEW q, backlog' = [backlog EXCEPT ![o] = @ \cup {q}]
            PROVE  backlog[w] \subseteq backlog'[w]
        <4>1. CASE o = w
          BY <3>2, <4>1, TypesOf
        <4>2. CASE o # w
          BY <3>2, <4>2, TypesOf
        <4> QED BY <4>1, <4>2
      <3> QED BY <3>1, <3>2
    <2>3. ASSUME NEW p \in 1 .. MaxCmds, OnWay(w, p), p \in open[w]
          PROVE  OnWay(w, p)' \/ p \in backlog'[w]
      <3>1. CASE outbox[u][1] = Peer(EntryOf(w, p))
        <4>1. Head(outbox[u]).entry = EntryOf(w, p)
          BY <2>1, <3>1, Hearing DEF Peer
        <4>2. EntryOf(w, p).owner = w /\ EntryOf(w, p).port = p
          BY DEF EntryOf
        <4>3. backlog' = [backlog EXCEPT ![w] = @ \cup {p}]
          BY <2>1, <2>3, <4>1, <4>2
        <4> QED BY <4>3, TypesOf
      <3>2. CASE outbox[u][1] # Peer(EntryOf(w, p))
        BY <1>1, <2>1, <2>3, <3>2, HeardOnWay
      <3> QED BY <3>1, <3>2
    <2> QED BY <1>1, <1>2, <2>2, <2>3, OthersWait
  <1>4. CASE ~ Dial(u)
    <2>1. \A p : p \in backlog[w] => p \in backlog'[w]
      BY <1>1, <1>4, TypesOf
         DEF Proceed, Type, Joined, Rejected, SendWait, Listed, Nobody, Accept, Join,
             Prepare, BreakWait, List, HangUp, Quit, Ask
    <2>2. ASSUME NEW p \in 1 .. MaxCmds, OnWay(w, p) PROVE OnWay(w, p)'
      <3>1. ASSUME NEW a \in {"confirm", "reject", "nobody", "list"}, Hears(u, a) PROVE OnWay(w, p)'
        <4>1. outbox[u][1].ans = a
          BY <3>1, Hearing
        <4>2. Peer(EntryOf(w, p)).ans = "peer"
          BY DEF Peer
        <4>3. outbox[u][1] # Peer(EntryOf(w, p))
          BY <3>1, <4>1, <4>2
        <4> QED BY <1>1, <2>2, <3>1, <4>3, HeardOnWay
      <3>2. ASSUME UNCHANGED outbox PROVE OnWay(w, p)'
        BY <1>1, <2>2, <3>2 DEF OnWay, EntryOf
      <3>3. \/ UNCHANGED outbox
            \/ \E a \in {"confirm", "reject", "nobody", "list"} : Hears(u, a)
        BY <1>1, <1>4
           DEF Proceed, Type, Joined, Rejected, SendWait, Listed, Nobody, Accept, Join,
               Prepare, BreakWait, List, HangUp, Quit, Ask
      <3> QED BY <3>1, <3>2, <3>3
    <2> QED BY <1>1, <1>2, <2>1, <2>2, OthersWait
  <1> QED BY <1>3, <1>4

LEMMA WaitersStep ==
  ASSUME IInv, IInv', Waiters, NEW u \in Users, Serve(u) \/ Proceed(u) \/ Type(u)
  PROVE  Waiters'
  <1>1. Regular' => Regular
    BY DEF Regular, Serve, CheckName, AddName, QuitWaiting, QuitName, ServeConnect, ServeWait,
           ServeList, ServeLeaveWait, EndOfStream, users, Proceed, Type, Joined, Rejected,
           SendWait, Listed, Nobody, Dial, Accept, Join, Prepare, BreakWait, List, HangUp, Quit,
           Crash, Ask, server
  <1> SUFFICES ASSUME Regular PROVE \A w \in Users : Alternate(w)' /\ Found(w)'
    BY <1>1 DEF Waiters
  <1>2. /\ TypeOK /\ TypeOK' /\ Counted /\ Tokens
        /\ \A w \in Users : Alternate(w) /\ Found(w)
        /\ "coalesce" \notin faults /\ IsInjective(my_name)
    BY DEF IInv, Waiters, Regular
  <1>3. CASE Serve(u)
    BY <1>2, <1>3, ServeWaits
  <1>4. CASE Proceed(u) \/ Type(u)
    <2>1. \A w \in Users : w # u => Alternate(w)' /\ Found(w)'
      BY <1>2, <1>4, OthersOfClient
    <2>2. Alternate(u)' /\ Found(u)'
      BY <1>2, <1>4, SendWaitWaits, OwnWaits DEF Tokens
    <2> QED BY <2>1, <2>2
  <1> QED BY <1>3, <1>4

LEMMA InitWaiters == Init => Waiters
  <1> SUFFICES ASSUME Init, NEW u \in Users PROVE Alternate(u) /\ Found(u)
    BY DEF Waiters
  <1>1. Len(inbox[u]) = 0 /\ Len(clients) = 0 /\ mode[u] = "out"
    BY DEF Init
  <1>2. \A i \in 0 .. Length(u), p \in 1 .. MaxCmds : ~ WaitAt(u, i, p)
    BY <1>1 DEF Length, WaitAt
  <1> QED BY <1>1, <1>2 DEF Alternate, Found

LEMMA NextWaiters == IInv /\ IInv' /\ Waiters /\ [Next]_vars => Waiters'
  <1> SUFFICES ASSUME IInv, IInv', Waiters, [Next]_vars PROVE Waiters'
    OBVIOUS
  <1>1. CASE UNCHANGED vars
    <2>1. UNCHANGED <<faults, mortal, my_name, clients, inbox, outbox, mode, port, open, backlog>>
      BY <1>1 DEF vars
    <2>2. \A u \in Users : (Alternate(u)' <=> Alternate(u)) /\ (Found(u)' <=> Found(u))
      <3>1. \A u \in Users : \A i, p : WaitAt(u, i, p)' <=> WaitAt(u, i, p)
        BY <2>1 DEF WaitAt, EntryOf
      <3>2. \A u \in Users : /\ Length(u)' = Length(u)
                             /\ \A j : Leaves(u, j)' <=> Leaves(u, j)
                             /\ \A j : Ended(u, j)' <=> Ended(u, j)
                             /\ \A p : Waits(u, p)' <=> Waits(u, p)
                             /\ \A p : OnWay(u, p)' <=> OnWay(u, p)
        BY <2>1 DEF Length, Leaves, Cmd, Ended, Waits, OnWay, EntryOf
      <3>3. ASSUME NEW u \in Users PROVE Alternate(u)' <=> Alternate(u)
        BY <3>1, <3>2 DEF Alternate
      <3>4. ASSUME NEW u \in Users PROVE Found(u)' <=> Found(u)
        BY <2>1 DEF Found, WaitAt, EntryOf, Ended, Length, Leaves, Cmd, OnWay
      <3> QED BY <3>3, <3>4
    <2> QED BY <2>1, <2>2 DEF Waiters, Regular
  <1> QED BY <1>1, WaitersStep DEF Next, Idle

\* While each read returns one command, no ^C strikes before the command of /wait,
\* no client dies and all names differ, w, c, r and q neither lose a waiting user
\* nor leave one behind, in whatever order they reach the server.
THEOREM WaitersAreListed == Spec => []WaitersListed
  <1>1. IInv /\ Waiters => WaitersListed
    <2> SUFFICES ASSUME IInv, Waiters, Regular, NEW u \in Users, Served(u)
                 PROVE  IF mode[u] = "waiting"
                        THEN LET e == [client |-> my_name[u], owner |-> u, port |-> port[u]]
                             IN  e \in Range(clients) \/ OnTheWay(e) # {} \/ port[u] \in backlog[u]
                        ELSE Entries(u) = {}
      BY DEF WaitersListed
    <2>1. /\ TypeOK /\ Tokens /\ Life(u) /\ Alternate(u) /\ Found(u)
      BY DEF IInv, Waiters, Lives, Regular
    <2>2. \A i \in 1 .. Length(u) : Cmd(u, i) = "eof"
      <3>1. CASE handler[u] = "done"
        BY <2>1, <3>1 DEF Life
      <3>2. CASE inbox[u] = << >>
        <4>1. Length(u) = 0
          BY <3>2 DEF Length
        <4> QED BY <4>1
      <3> QED BY <3>1, <3>2 DEF Served
    <2>3. \A i \in 0 .. Length(u) : ~ Ended(u, i)
      BY <2>2 DEF Ended, Leaves
    <2>4. CASE mode[u] = "waiting"
      <3>1. PICK e : e = EntryOf(u, port[u])
        OBVIOUS
      <3>2. \/ \E i \in 0 .. Length(u) : WaitAt(u, i, port[u])
            \/ OnWay(u, port[u])
            \/ port[u] \in backlog[u]
        BY <2>1, <2>4 DEF Found
      <3>3. ASSUME NEW i \in 0 .. Length(u), WaitAt(u, i, port[u]) PROVE e \in Range(clients)
        <4>1. i = 0
          <5>1. i = 0 \/ i \in 1 .. Length(u)
            BY <2>1, Lengths DEF Length
          <5>2. ASSUME i \in 1 .. Length(u), i # 0 PROVE FALSE
            <6>1. inbox[u][i].cmd = "w"
              BY <3>3, <5>2 DEF WaitAt, WaitOn
            <6> QED BY <2>2, <5>2, <6>1 DEF Cmd
          <5> QED BY <5>1, <5>2
        <4>2. PICK m \in 1 .. Len(clients) : clients[m] = e
          BY <3>1, <3>3, <4>1 DEF WaitAt
        <4>3. m \in DOMAIN clients
          BY <2>1, TypesOf
        <4> QED BY <4>2, <4>3 DEF Range
      <3>4. ASSUME OnWay(u, port[u]) PROVE OnTheWay(e) # {}
        <4>1. PICK v \in Users : \E k \in 1 .. Len(outbox[v]) : outbox[v][k] = Peer(e)
          BY <3>1, <3>4 DEF OnWay
        <4>2. DOMAIN outbox[v] = 1 .. Len(outbox[v])
          BY <2>1, TypesOf
        <4> QED BY <4>1, <4>2 DEF OnTheWay
      <3>5. e \in Range(clients) \/ OnTheWay(e) # {} \/ port[u] \in backlog[u]
        BY <3>2, <3>3, <3>4
      <3> QED BY <2>4, <3>1, <3>5 DEF EntryOf
    <2>5. CASE mode[u] # "waiting"
      <3> SUFFICES ASSUME NEW m \in DOMAIN clients, clients[m].owner = u PROVE FALSE
        BY <2>5 DEF Entries
      <3>1. m \in 1 .. Len(clients) /\ clients[m] \in Entry
        BY <2>1, TypesOf
      <3>2. PICK p \in 1 .. MaxCmds : clients[m] = EntryOf(u, p)
        <4>1. PICK e \in Entry : e = clients[m] /\ e.owner = u
          BY <3>1
        <4>2. e = EntryOf(u, e.port) /\ e.port \in 1 .. MaxCmds
          BY <2>1, <3>1, <4>1 DEF Tokens, ProperEntries, Proper, Entry
        <4> QED BY <4>1, <4>2
      <3>3. WaitAt(u, 0, p) /\ 0 \in 0 .. Length(u)
        <4>1. Length(u) \in Nat
          BY <2>1, Lengths DEF Length
        <4> QED BY <3>1, <3>2, <4>1 DEF WaitAt
      <3> QED BY <2>1, <2>3, <2>5, <3>3 DEF Alternate, Waits
    <2> QED BY <2>4, <2>5
  <1>2. Spec => []Waiters
    BY InitWaiters, NextWaiters, Invariance, PTL DEF Spec
  <1> QED BY <1>1, <1>2, Invariance, PTL

-----------------------------------------------------------------------------
(* One client: its threads.                                                *)

\* An answer under way is the one to what main has asked for.
OneAsked ==
  troubles \subseteq {"crossing"} /\ Running =>
    IF main \in {"connect", "list"}
    THEN \/ asked = <<main>> /\ answers = << >>
         \/ asked = << >> /\ \E a \in {"nobody", "peer", "list"} :
                                answers = <<a>> /\ (a = "list" <=> main = "list")
    ELSE asked = << >> /\ answers = << >>

\* No two descriptors are for one socket.
Distinct == \A m, n \in DOMAIN fds : fds[m] = fds[n] /\ fds[m] # 0 => m = n

\* Where the peers call, and what the user writes to.
Ear == Socket(l_fd)
Mouth == Socket(talk_fd)
\* Where they will call.
Door == Socket(listen_fd)

\* Some thread is about to set the mode, or main to talk.
Stirring == \/ main = "dialing"
            \/ \E i \in DOMAIN listener : listener[i].pc = "talk"
            \/ \E i \in DOMAIN receiver : receiver[i].pc \in {"load", "end"}

\* Who talks has a thread that reads what the user writes to.
Attended ==
  \/ StateOf(Mouth) \in {"none", "listen"}
  \/ \E i \in DOMAIN receiver : receiver[i].pc = "read" /\ receiver[i].on = Mouth
Tended == Running /\ my_state = "TALKING" /\ int = "none" => Stirring \/ Attended

\* What the user types goes to a socket that can take it.
Writable ==
  troubles \subseteq {"crossing"} /\ main = "say" =>
    int = "none" /\ StateOf(Mouth) \notin {"reset", "shut"}

-----------------------------------------------------------------------------
(* What ModeAgrees rests on.                                               *)

\* The user waits for the prompt, and nobody calls while ^C is handled.
Calm == troubles \subseteq {"late"} /\ Running

\* While main has something to do no thread runs, but the one that reads while
\* the user writes.
AtWork ==
  /\ main \in {"wait", "socket", "thread", "connect", "list", "dial", "dialing"} =>
       /\ int = "none" /\ Live(listener) = {} /\ Live(receiver) = {}
       /\ my_state = IF main \in {"socket", "thread"} THEN "WAITING" ELSE "NORMAL"
  /\ main = "say" => int = "none" /\ Live(listener) = {}
  /\ main = "thread" => StateOf(Door) = "listen"

\* A listen thread waits at the socket while nobody called or broke off.
Lurking(i) ==
  /\ StateOf(Ear) = "listen" /\ my_state = "WAITING"
  /\ \/ int = "none"
     \/ int \in {"talking", "waiting"} /\ listener[i].pc = "select" /\ calls[Ear] = 0
  /\ listener[i].pc = "test" => int = "none"
  /\ listener[i].pc = "accept" => calls[Ear] > 0
\* ^C has shut the socket down.
Broken == StateOf(Ear) = "shut" /\ (my_state = "WAITING" => int = "normal")
\* A call was taken, and the peer may have left since.
InCall == StateOf(Mouth) \in {"talk", "left"} /\ my_state = "WAITING" /\ int = "none"

\* Where a listen thread is before the talk.
Early == {"test", "select", "accept", "talk"}
\* What a listen thread that is not done can rely on.
AtListen(i) ==
  /\ main = "prompt" /\ Ear # 0
  /\ listener[i].pc \in Early \cup {"close"}
  /\ listener[i].pc \in Early => Live(receiver) = {}
  /\ listener[i].pc = "test" => Lurking(i)
  /\ listener[i].pc \in {"select", "accept"} => Lurking(i) \/ Broken
  /\ listener[i].pc = "select" => listener[i].on = Ear
  /\ listener[i].pc = "talk" => InCall \/ (talk_fd = -1 /\ Broken)
  /\ listener[i].pc \in {"talk", "close"} => talk_fd # l_fd

\* A receive thread reads what the user writes to, while they talk.
AtReceive(i) ==
  /\ main \in {"prompt", "say"}
  /\ receiver[i].pc = "read" => receiver[i].on = Mouth
  /\ receiver[i].pc \in {"load", "read"} /\ StateOf(Mouth) = "talk" =>
       my_state = "TALKING" /\ int \in {"none", "talking"}

Alone(S) == \A i, j \in S : i = j

\* Each mode has the thread that will end it.
Modes ==
  /\ my_state = "TALKING" => Live(receiver) # {}
  /\ my_state = "WAITING" => \/ main \in {"socket", "thread"}
                             \/ \E i \in Live(listener) : listener[i].pc \in Early

\* Only there can a peer call.
Callable ==
  \A s \in DOMAIN sock : sock[s] = "listen" =>
    \/ main = "thread" /\ s = Door
    \/ Live(listener) # {} /\ s = Ear

\* At most one thread of each kind is not done, and everything is where the mode
\* says.
Orderly ==
  /\ AtWork /\ Modes /\ Callable
  /\ Alone(Live(listener)) /\ Alone(Live(receiver))
  /\ \A i \in Live(listener) : AtListen(i)
  /\ \A i \in Live(receiver) : AtReceive(i)
CalmInv == Calm => Orderly

-----------------------------------------------------------------------------
(* Types.                                                                  *)

SockState == {"listen", "talk", "dialing", "left", "reset", "shut"}
ListenPc == {"test", "select", "accept", "blocked", "talk", "close", "done"}
ReceivePc == {"load", "read", "end", "done"}
ListenRec(n) == [pc : ListenPc, on : 0 .. n]
ReceiveRec(n) == [pc : ReceivePc, on : 0 .. n]

\* The lists as functions on their indices.
LEMMA Shapes ==
  ASSUME PeerTypes
  PROVE  /\ Len(fds) \in Nat /\ DOMAIN fds = 1 .. Len(fds)
         /\ \A n \in DOMAIN fds : fds[n] \in 0 .. Len(sock)
         /\ Len(sock) \in Nat /\ DOMAIN sock = 1 .. Len(sock)
         /\ \A s \in DOMAIN sock : sock[s] \in SockState
         /\ DOMAIN calls = DOMAIN sock /\ \A s \in DOMAIN sock : calls[s] \in 0 .. 2
         /\ DOMAIN listener = 1 .. Len(listener) /\ Len(listener) \in Nat
         /\ \A i \in DOMAIN listener : listener[i] \in ListenRec(Len(sock))
         /\ DOMAIN receiver = 1 .. Len(receiver) /\ Len(receiver) \in Nat
         /\ \A i \in DOMAIN receiver : receiver[i] \in ReceiveRec(Len(sock))
  <1>1. /\ fds \in Seq(0 .. Len(sock)) /\ sock \in Seq(SockState)
        /\ calls \in Seq(0 .. 2) /\ Len(calls) = Len(sock)
        /\ listener \in Seq(ListenRec(Len(sock))) /\ receiver \in Seq(ReceiveRec(Len(sock)))
    BY DEF PeerTypes, SockState, ListenRec, ReceiveRec, ListenPc, ReceivePc
  <1>2. Len(fds) \in Nat /\ DOMAIN fds = 1 .. Len(fds)
    BY <1>1, LenProperties
  <1>3. Len(sock) \in Nat /\ DOMAIN sock = 1 .. Len(sock)
    BY <1>1, LenProperties
  <1>4. DOMAIN calls = 1 .. Len(sock)
    BY <1>1, LenProperties
  <1>5. DOMAIN listener = 1 .. Len(listener) /\ Len(listener) \in Nat
    BY <1>1, LenProperties
  <1>6. DOMAIN receiver = 1 .. Len(receiver) /\ Len(receiver) \in Nat
    BY <1>1, LenProperties
  <1>7. \A n \in DOMAIN fds : fds[n] \in 0 .. Len(sock)
    BY <1>1, <1>2, ElementOfSeq
  <1>8. \A s \in DOMAIN sock : sock[s] \in SockState /\ calls[s] \in 0 .. 2
    BY <1>1, <1>3, <1>4, ElementOfSeq
  <1>9. \A i \in DOMAIN listener : listener[i] \in ListenRec(Len(sock))
    BY <1>1, <1>5, ElementOfSeq
  <1>10. \A i \in DOMAIN receiver : receiver[i] \in ReceiveRec(Len(sock))
    BY <1>1, <1>6, ElementOfSeq
  <1> QED BY <1>2, <1>3, <1>4, <1>5, <1>6, <1>7, <1>8, <1>9, <1>10

\* A longer list is one of a larger set.
LEMMA Wider ==
  ASSUME NEW S, NEW T, S \subseteq T, NEW s \in Seq(S)
  PROVE  s \in Seq(T)
  OBVIOUS

\* open, socket and accept: the lowest free descriptor.
LEMMA LowestFree ==
  ASSUME PeerTypes
  PROVE  /\ FreeFd \in 1 .. Len(fds) + 1
         /\ FreeFd \in DOMAIN fds => fds[FreeFd] = 0
  <1> DEFINE T == {n \in 1 .. Len(fds) + 1 : n \in DOMAIN fds => fds[n] = 0}
             P(n) == /\ \A m \in 1 .. n - 1 : fds[m] # 0
                     /\ n \in DOMAIN fds => fds[n] = 0
  <1>1. Len(fds) \in Nat /\ DOMAIN fds = 1 .. Len(fds)
    BY Shapes
  <1>2. T \in SUBSET Nat /\ Len(fds) + 1 \in T
    BY <1>1
  <1>3. PICK n \in T : \A k \in T : n <= k
    BY <1>2, SmallestIndex
  <1>4. n \in 1 .. Len(fds) + 1 /\ P(n)
    <2>1. ASSUME NEW m \in 1 .. n - 1 PROVE fds[m] # 0
      <3>1. m \in 1 .. Len(fds) + 1 /\ ~(n <= m)
        BY <1>1, <1>3
      <3> QED BY <1>3, <3>1
    <2> QED BY <1>3, <2>1
  <1>5. FreeFd = CHOOSE k \in 1 .. Len(fds) + 1 : P(k)
    BY DEF FreeFd
  <1>6. FreeFd \in 1 .. Len(fds) + 1 /\ P(FreeFd)
    <2> HIDE DEF P
    <2> QED BY <1>4, <1>5
  <1> QED BY <1>6

\* A new socket and its descriptor; the others stay what they are.
LEMMA Created ==
  ASSUME PeerTypes, NEW st \in SockState, NEW cs \in Seq(0 .. 2), Len(cs) = Len(sock),
         Create(st, cs)
  PROVE  /\ FreeFd \in 1 .. Len(fds) + 1 /\ (FreeFd \in DOMAIN fds => fds[FreeFd] = 0)
         /\ Len(sock') = Len(sock) + 1 /\ sock' \in Seq(SockState)
         /\ calls' \in Seq(0 .. 2) /\ Len(calls') = Len(sock')
         /\ fds' \in Seq(0 .. Len(sock')) /\ Len(fds) <= Len(fds')
         /\ DOMAIN fds' = DOMAIN fds \cup {FreeFd}
         /\ DOMAIN sock' = DOMAIN sock \cup {Len(sock) + 1}
         /\ fds'[FreeFd] = Len(sock) + 1
         /\ \A n \in DOMAIN fds \ {FreeFd} : fds'[n] = fds[n]
         /\ \A s \in DOMAIN sock : sock'[s] = sock[s] /\ calls'[s] = cs[s]
         /\ sock'[Len(sock) + 1] = st
  <1> DEFINE new == Len(sock) + 1
             m == FreeFd
  <1>1. /\ Len(fds) \in Nat /\ DOMAIN fds = 1 .. Len(fds)
        /\ Len(sock) \in Nat /\ DOMAIN sock = 1 .. Len(sock)
    BY Shapes
  <1>2. m \in 1 .. Len(fds) + 1 /\ (m \in DOMAIN fds => fds[m] = 0)
    BY LowestFree
  <1>3. sock \in Seq(SockState) /\ fds \in Seq(0 .. Len(sock))
    BY DEF PeerTypes, SockState
  <1>4. /\ sock' \in Seq(SockState) /\ Len(sock') = Len(sock) + 1
        /\ \A s \in 1 .. Len(sock) : sock'[s] = sock[s]
        /\ sock'[new] = st
    BY <1>3, AppendProperties DEF Create
  <1>5. DOMAIN sock' = DOMAIN sock \cup {new}
    <2>1. DOMAIN sock' = 1 .. Len(sock')
      BY <1>4, LenProperties
    <2> QED BY <1>1, <1>4, <2>1
  <1>6. /\ calls' \in Seq(0 .. 2) /\ Len(calls') = Len(sock')
        /\ \A s \in 1 .. Len(sock) : calls'[s] = cs[s]
    <2>1. 0 \in 0 .. 2 /\ calls' = Append(cs, 0)
      BY DEF Create
    <2> QED BY <1>4, <2>1, AppendProperties
  <1>7. fds \in Seq(0 .. Len(sock')) /\ new \in 0 .. Len(sock')
    <2>1. 0 .. Len(sock) \subseteq 0 .. Len(sock')
      BY <1>1, <1>4
    <2> QED BY <1>1, <1>3, <1>4, <2>1, Wider
  <1>8. /\ fds' \in Seq(0 .. Len(sock')) /\ Len(fds) <= Len(fds')
        /\ DOMAIN fds' = DOMAIN fds \cup {m} /\ fds'[m] = new
        /\ \A n \in DOMAIN fds \ {m} : fds'[n] = fds[n]
    <2> HIDE DEF m, new
    <2>1. CASE m \in DOMAIN fds
      <3>1. fds' = [fds EXCEPT ![m] = new]
        BY <2>1 DEF Create, m, new
      <3>2. fds' \in Seq(0 .. Len(sock')) /\ Len(fds') = Len(fds)
        BY <1>1, <1>7, <2>1, <3>1, ExceptSeq
      <3> QED BY <1>1, <2>1, <3>1, <3>2
    <2>2. CASE m \notin DOMAIN fds
      <3>1. fds' = Append(fds, new) /\ m = Len(fds) + 1
        BY <1>1, <1>2, <2>2 DEF Create, m, new
      <3>2. /\ fds' \in Seq(0 .. Len(sock')) /\ Len(fds') = Len(fds) + 1
            /\ \A n \in 1 .. Len(fds) : fds'[n] = fds[n]
            /\ fds'[Len(fds) + 1] = new
        BY <1>7, <3>1, AppendProperties
      <3>3. DOMAIN fds' = 1 .. Len(fds')
        BY <3>2, LenProperties
      <3> QED BY <1>1, <3>1, <3>2, <3>3
    <2> QED BY <2>1, <2>2
  <1> QED BY <1>1, <1>2, <1>4, <1>5, <1>6, <1>8

\* shutdown, and the close of the last descriptor of a socket.
LEMMA ShutTypes ==
  ASSUME PeerTypes, NEW s \in 0 .. Len(sock), Shut(s)
  PROVE  /\ sock' \in Seq(SockState) /\ Len(sock') = Len(sock)
         /\ calls' \in Seq(0 .. 2) /\ Len(calls') = Len(sock')
         /\ DOMAIN sock' = DOMAIN sock
         /\ \A r \in DOMAIN sock : /\ r # s => sock'[r] = sock[r] /\ calls'[r] = calls[r]
                                   /\ r = s => sock'[r] = "shut"
  <1>1. sock \in Seq(SockState) /\ calls \in Seq(0 .. 2) /\ Len(calls) = Len(sock)
    BY DEF PeerTypes, SockState
  <1>2. Len(sock) \in Nat /\ DOMAIN sock = 1 .. Len(sock) /\ DOMAIN calls = 1 .. Len(sock)
    BY Shapes
  <1>3. CASE s = 0
    BY <1>1, <1>2, <1>3 DEF Shut
  <1>4. CASE s # 0
    <2>1. sock' = [sock EXCEPT ![s] = "shut"] /\ calls' = [calls EXCEPT ![s] = 0]
      BY <1>4 DEF Shut
    <2>2. s \in 1 .. Len(sock) /\ "shut" \in SockState /\ 0 \in 0 .. 2
      BY <1>2, <1>4 DEF SockState
    <2>3. sock' \in Seq(SockState) /\ Len(sock') = Len(sock)
      BY <1>1, <2>1, <2>2, ExceptSeq
    <2>4. calls' \in Seq(0 .. 2) /\ Len(calls') = Len(calls)
      BY <1>1, <2>1, <2>2, ExceptSeq
    <2> QED BY <1>1, <1>2, <2>1, <2>2, <2>3, <2>4
  <1> QED BY <1>3, <1>4

\* A descriptor stands for a socket that there is, or for none.
LEMMA SocketTypes ==
  ASSUME PeerTypes, NEW fd
  PROVE  Socket(fd) \in 0 .. Len(sock) /\ (Socket(fd) # 0 => Socket(fd) \in DOMAIN sock)
  BY Shapes DEF Socket

\* A step of one listen thread.
LEMMA ListenerMoves ==
  ASSUME PeerTypes, NEW i \in DOMAIN listener, NEW p \in ListenPc, NEW n \in Nat,
         Len(sock) <= n, NEW s \in 0 .. n, ListenAt(i, p, s)
  PROVE  /\ listener' \in Seq(ListenRec(n)) /\ DOMAIN listener' = DOMAIN listener
         /\ listener'[i].pc = p /\ listener'[i].on = s
         /\ \A j \in DOMAIN listener \ {i} : listener'[j] = listener[j]
  <1>1. ListenRec(Len(sock)) \subseteq ListenRec(n) /\ [pc |-> p, on |-> s] \in ListenRec(n)
    BY Shapes DEF ListenRec
  <1>2. listener \in Seq(ListenRec(Len(sock)))
    BY DEF PeerTypes, ListenRec, ListenPc
  <1>3. listener \in Seq(ListenRec(n))
    BY <1>1, <1>2, Wider
  <1>4. listener' = [listener EXCEPT ![i] = [pc |-> p, on |-> s]]
    BY DEF ListenAt
  <1>5. DOMAIN listener = 1 .. Len(listener) /\ Len(listener) \in Nat
    BY Shapes
  <1>6. listener' \in Seq(ListenRec(n))
    BY <1>1, <1>3, <1>4, <1>5, ExceptSeq
  <1> QED BY <1>4, <1>6

\* A step of one receive thread.
LEMMA ReceiverMoves ==
  ASSUME PeerTypes, NEW i \in DOMAIN receiver, NEW p \in ReceivePc, NEW s \in 0 .. Len(sock),
         ReceiveAt(i, p, s)
  PROVE  /\ receiver' \in Seq(ReceiveRec(Len(sock))) /\ DOMAIN receiver' = DOMAIN receiver
         /\ receiver'[i].pc = p /\ receiver'[i].on = s
         /\ \A j \in DOMAIN receiver \ {i} : receiver'[j] = receiver[j]
  <1>1. [pc |-> p, on |-> s] \in ReceiveRec(Len(sock))
    BY Shapes DEF ReceiveRec
  <1>2. receiver \in Seq(ReceiveRec(Len(sock)))
    BY DEF PeerTypes, ReceiveRec, ReceivePc
  <1>4. receiver' = [receiver EXCEPT ![i] = [pc |-> p, on |-> s]]
    BY DEF ReceiveAt
  <1>5. DOMAIN receiver = 1 .. Len(receiver) /\ Len(receiver) \in Nat
    BY Shapes
  <1>6. receiver' \in Seq(ReceiveRec(Len(sock)))
    BY <1>1, <1>2, <1>4, <1>5, ExceptSeq
  <1> QED BY <1>4, <1>6

\* A new receive thread.
LEMMA ReceiverStarts ==
  ASSUME PeerTypes, create_receive_thread
  PROVE  /\ receiver' \in Seq(ReceiveRec(Len(sock))) /\ my_state' = "TALKING"
         /\ DOMAIN receiver' = DOMAIN receiver \cup {Len(receiver) + 1}
         /\ Len(receiver) + 1 \notin DOMAIN receiver
         /\ receiver'[Len(receiver) + 1].pc = "load"
         /\ \A j \in DOMAIN receiver : receiver'[j] = receiver[j]
  <1>1. [pc |-> "load", on |-> 0] \in ReceiveRec(Len(sock))
    BY Shapes DEF ReceiveRec, ReceivePc
  <1>2. receiver \in Seq(ReceiveRec(Len(sock)))
    BY DEF PeerTypes, ReceiveRec, ReceivePc
  <1>3. receiver' = Append(receiver, [pc |-> "load", on |-> 0]) /\ my_state' = "TALKING"
    BY DEF create_receive_thread
  <1>4. DOMAIN receiver = 1 .. Len(receiver) /\ Len(receiver) \in Nat
    BY Shapes
  <1>5. /\ receiver' \in Seq(ReceiveRec(Len(sock))) /\ Len(receiver') = Len(receiver) + 1
        /\ \A j \in 1 .. Len(receiver) : receiver'[j] = receiver[j]
        /\ receiver'[Len(receiver) + 1] = [pc |-> "load", on |-> 0]
    BY <1>1, <1>2, <1>3, AppendProperties
  <1>6. DOMAIN receiver' = 1 .. Len(receiver')
    BY <1>5, LenProperties
  <1> QED BY <1>3, <1>4, <1>5, <1>6

\* What the types say of the lists, and of the rest.
ListTypes ==
  /\ l_fd \in 0 .. Len(fds) /\ listen_fd \in 0 .. Len(fds) /\ talk_fd \in -1 .. Len(fds)
  /\ fds \in Seq(0 .. Len(sock)) /\ sock \in Seq(SockState)
  /\ calls \in Seq(0 .. 2) /\ Len(calls) = Len(sock)
  /\ listener \in Seq(ListenRec(Len(sock))) /\ receiver \in Seq(ReceiveRec(Len(sock)))
PlainTypes ==
  /\ troubles \subseteq Trouble
  /\ my_state \in {"NORMAL", "WAITING", "TALKING"}
  /\ main \in {"prompt", "wait", "socket", "thread", "connect", "list", "dial", "dialing",
               "say", "quit", "failed", "killed"}
  /\ int \in {"none", "talking", "waiting", "normal"}
  /\ asked \in Seq({"connect", "list"}) /\ answers \in Seq({"nobody", "peer", "list"})
  /\ inputs \in 0 .. MaxInputs /\ coming \in 0 .. MaxComing

\* PeerTypes in two halves.
LEMMA Parts == PeerTypes <=> ListTypes /\ PlainTypes
  BY DEF PeerTypes, ListTypes, PlainTypes, SockState, ListenRec, ReceiveRec, ListenPc, ReceivePc

\* The same of the next state.
LEMMA PartsNext == ListTypes' /\ PlainTypes' => PeerTypes'
  BY DEF PeerTypes, ListTypes, PlainTypes, SockState, ListenRec, ReceiveRec, ListenPc, ReceivePc

\* The threads stay what they are when sockets are added.
LEMMA ThreadsStay ==
  ASSUME PeerTypes, NEW n \in Nat, Len(sock) <= n
  PROVE  listener \in Seq(ListenRec(n)) /\ receiver \in Seq(ReceiveRec(n))
  <1>1. ListenRec(Len(sock)) \subseteq ListenRec(n) /\ ReceiveRec(Len(sock)) \subseteq ReceiveRec(n)
    BY Shapes DEF ListenRec, ReceiveRec
  <1>2. ListTypes
    BY Parts
  <1> QED BY <1>1, <1>2, Wider DEF ListTypes

\* Taking a call.
LEMMA TakeTypes ==
  ASSUME PeerTypes, NEW s \in DOMAIN sock, calls[s] > 0, Take(s)
  PROVE  /\ [calls EXCEPT ![s] = @ - 1] \in Seq(0 .. 2)
         /\ Len([calls EXCEPT ![s] = @ - 1]) = Len(sock)
         /\ Create("talk", [calls EXCEPT ![s] = @ - 1])
  <1>1. calls \in Seq(0 .. 2) /\ Len(calls) = Len(sock)
    BY DEF PeerTypes
  <1>2. s \in 1 .. Len(calls) /\ calls[s] - 1 \in 0 .. 2
    BY <1>1, Shapes
  <1>3. /\ [calls EXCEPT ![s] = calls[s] - 1] \in Seq(0 .. 2)
        /\ Len([calls EXCEPT ![s] = calls[s] - 1]) = Len(calls)
    BY <1>1, <1>2, ExceptSeq
  <1> QED BY <1>1, <1>3 DEF Take

\* The lists after a new socket, for a variable that takes its descriptor.
LEMMA CreatedTypes ==
  ASSUME PeerTypes, NEW st \in SockState, NEW cs \in Seq(0 .. 2), Len(cs) = Len(sock),
         Create(st, cs)
  PROVE  /\ \A fd \in {l_fd, listen_fd, FreeFd} : fd \in 0 .. Len(fds')
         /\ \A fd \in {talk_fd, FreeFd} : fd \in -1 .. Len(fds')
         /\ fds' \in Seq(0 .. Len(sock')) /\ sock' \in Seq(SockState)
         /\ calls' \in Seq(0 .. 2) /\ Len(calls') = Len(sock')
         /\ Len(sock') \in Nat /\ Len(sock) <= Len(sock')
         /\ listener \in Seq(ListenRec(Len(sock'))) /\ receiver \in Seq(ReceiveRec(Len(sock')))
  <1>1. Len(fds) \in Nat /\ Len(sock) \in Nat /\ DOMAIN fds = 1 .. Len(fds) /\ ListTypes
    BY Shapes, Parts
  <1>2. /\ fds' \in Seq(0 .. Len(sock')) /\ sock' \in Seq(SockState)
        /\ calls' \in Seq(0 .. 2) /\ Len(calls') = Len(sock')
        /\ Len(sock') = Len(sock) + 1 /\ Len(fds) <= Len(fds')
        /\ DOMAIN fds' = DOMAIN fds \cup {FreeFd}
    BY Created
  <1>3. Len(fds') \in Nat /\ FreeFd \in 1 .. Len(fds')
    BY <1>2, LenProperties
  <1>4. Len(sock') \in Nat /\ Len(sock) <= Len(sock')
    BY <1>1, <1>2
  <1>5. listener \in Seq(ListenRec(Len(sock'))) /\ receiver \in Seq(ReceiveRec(Len(sock')))
    BY <1>4, ThreadsStay
  <1>6. /\ \A fd \in {l_fd, listen_fd, FreeFd} : fd \in 0 .. Len(fds')
        /\ \A fd \in {talk_fd, FreeFd} : fd \in -1 .. Len(fds')
    BY <1>1, <1>2, <1>3 DEF ListTypes
  <1> QED BY <1>2, <1>4, <1>5, <1>6

\* Who is blocked is so at a socket.
Placed ==
  Running => \A i \in DOMAIN listener :
               listener[i].pc \in {"select", "blocked"} => listener[i].on # 0

\* The listen threads.
LEMMA ListenTypes ==
  ASSUME PeerTypes, Placed, NEW i \in DOMAIN listener, Listen(i)
  PROVE  ListTypes'
  <1>1. ListTypes /\ Len(sock) \in Nat /\ 0 \in 0 .. Len(sock) /\ Len(fds) \in Nat
    BY Parts, Shapes
  <1>2. listener[i].on \in 0 .. Len(sock)
    BY Shapes DEF ListenRec
  <1>3. CASE ListenTest(i)
    <2>1. UNCHANGED <<state, files, receiver>>
      BY <1>3 DEF ListenTest
    <2>2. ListenAt(i, "done", 0) \/ ListenAt(i, "select", Socket(l_fd))
      BY <1>3 DEF ListenTest
    <2>3. listener' \in Seq(ListenRec(Len(sock)))
      BY <1>1, <2>2, ListenerMoves, SocketTypes DEF ListenPc
    <2> QED BY <1>1, <2>1, <2>3 DEF ListTypes, state, files
  <1>4. CASE ListenSelect(i)
    <2>1. UNCHANGED <<state, files, receiver>> /\ ListenAt(i, "accept", 0)
      BY <1>4 DEF ListenSelect
    <2>2. listener' \in Seq(ListenRec(Len(sock)))
      BY <1>1, <2>1, ListenerMoves DEF ListenPc
    <2> QED BY <1>1, <2>1, <2>2 DEF ListTypes, state, files
  <1>5. ASSUME NEW s \in DOMAIN sock, calls[s] > 0, Take(s), ListenAt(i, "talk", 0),
               UNCHANGED <<l_fd, listen_fd, receiver>>
        PROVE  ListTypes'
    <2>1. talk_fd' = FreeFd /\ "talk" \in SockState
      BY <1>5 DEF Take, SockState
    <2>2. /\ [calls EXCEPT ![s] = @ - 1] \in Seq(0 .. 2)
          /\ Len([calls EXCEPT ![s] = @ - 1]) = Len(sock)
          /\ Create("talk", [calls EXCEPT ![s] = @ - 1])
      BY <1>5, TakeTypes
    <2>3. /\ \A fd \in {l_fd, listen_fd, FreeFd} : fd \in 0 .. Len(fds')
          /\ \A fd \in {talk_fd, FreeFd} : fd \in -1 .. Len(fds')
          /\ fds' \in Seq(0 .. Len(sock')) /\ sock' \in Seq(SockState)
          /\ calls' \in Seq(0 .. 2) /\ Len(calls') = Len(sock')
          /\ Len(sock') \in Nat /\ Len(sock) <= Len(sock')
          /\ receiver \in Seq(ReceiveRec(Len(sock')))
      BY <2>1, <2>2, CreatedTypes
    <2>4. listener' \in Seq(ListenRec(Len(sock')))
      BY <1>5, <2>3, ListenerMoves DEF ListenPc
    <2> QED BY <1>5, <2>1, <2>3, <2>4 DEF ListTypes
  <1>6. ASSUME talk_fd' = -1, UNCHANGED files, ListenAt(i, "talk", 0),
               UNCHANGED <<l_fd, listen_fd, receiver>>
        PROVE  ListTypes'
    <2>1. listener' \in Seq(ListenRec(Len(sock)))
      BY <1>1, <1>6, ListenerMoves DEF ListenPc
    <2> QED BY <1>1, <1>6, <2>1 DEF ListTypes, files
  <1>7. CASE ListenAccept(i)
    <2>1. CASE ListenAt(i, "blocked", Socket(l_fd)) /\ UNCHANGED <<talk_fd, files>>
      <3>1. listener' \in Seq(ListenRec(Len(sock)))
        BY <1>1, <2>1, ListenerMoves, SocketTypes DEF ListenPc
      <3>2. UNCHANGED <<l_fd, listen_fd, receiver>>
        BY <1>7 DEF ListenAccept
      <3> QED BY <1>1, <2>1, <3>1, <3>2 DEF ListTypes, files
    <2>2. UNCHANGED <<l_fd, listen_fd, receiver>>
      BY <1>7 DEF ListenAccept
    <2>3. CASE StateOf(Socket(l_fd)) = "listen" /\ calls[Socket(l_fd)] > 0
               /\ Take(Socket(l_fd)) /\ ListenAt(i, "talk", 0)
      <3>1. Socket(l_fd) \in DOMAIN sock
        BY <2>3, SocketTypes DEF StateOf
      <3> QED BY <1>5, <2>2, <2>3, <3>1
    <2>4. CASE talk_fd' = -1 /\ ListenAt(i, "talk", 0) /\ UNCHANGED files
      BY <1>6, <2>2, <2>4
    <2> QED BY <1>7, <2>1, <2>3, <2>4 DEF ListenAccept
  <1>8. CASE ListenBlocked(i)
    <2>1. UNCHANGED <<l_fd, listen_fd, receiver>> /\ ListenAt(i, "talk", 0)
      BY <1>8 DEF ListenBlocked
    <2>2. CASE sock[listener[i].on] = "listen"
      <3>1. Take(listener[i].on) /\ calls[listener[i].on] > 0
        BY <1>8, <2>2 DEF ListenBlocked, Readable
      <3>2. listener[i].on \in DOMAIN sock
        BY <1>2, <1>8, Shapes DEF ListenBlocked, Thread, Placed
      <3> QED BY <1>5, <2>1, <3>1, <3>2
    <2>3. CASE sock[listener[i].on] # "listen"
      BY <1>6, <1>8, <2>1, <2>3 DEF ListenBlocked
    <2> QED BY <2>2, <2>3
  <1>9. CASE ListenTalk(i)
    <2>1. UNCHANGED <<l_fd, talk_fd, listen_fd, files>> /\ ListenAt(i, "close", 0)
      BY <1>9 DEF ListenTalk
    <2>2. listener' \in Seq(ListenRec(Len(sock)))
      BY <1>1, <2>1, ListenerMoves DEF ListenPc
    <2>3. receiver' \in Seq(ReceiveRec(Len(sock)))
      BY <1>9, ReceiverStarts DEF ListenTalk
    <2> QED BY <1>1, <2>1, <2>2, <2>3 DEF ListTypes, files
  <1>10. CASE ListenClose(i)
    <2>1. UNCHANGED <<l_fd, talk_fd, listen_fd, receiver>> /\ ListenAt(i, "done", 0)
      BY <1>10 DEF ListenClose, state
    <2>2. listener' \in Seq(ListenRec(Len(sock)))
      BY <1>1, <2>1, ListenerMoves DEF ListenPc
    <2>3. \/ UNCHANGED fds
          \/ fds' = [fds EXCEPT ![l_fd] = 0] /\ l_fd \in DOMAIN fds
      BY <1>10 DEF ListenClose, files, Socket
    <2>4. fds' \in Seq(0 .. Len(sock)) /\ Len(fds') = Len(fds)
      <3>1. DOMAIN fds = 1 .. Len(fds) /\ fds \in Seq(0 .. Len(sock))
        BY <1>1, Shapes DEF ListTypes
      <3>2. CASE UNCHANGED fds
        BY <3>1, <3>2
      <3>3. CASE fds' = [fds EXCEPT ![l_fd] = 0] /\ l_fd \in DOMAIN fds
        BY <1>1, <3>1, <3>3, ExceptSeq
      <3> QED BY <2>3, <3>2, <3>3
    <2>5. UNCHANGED <<sock, calls>> \/ Shut(Socket(l_fd))
      BY <1>10 DEF ListenClose, files
    <2>6. sock' \in Seq(SockState) /\ Len(sock') = Len(sock)
          /\ calls' \in Seq(0 .. 2) /\ Len(calls') = Len(sock')
      BY <1>1, <2>5, ShutTypes, SocketTypes DEF ListTypes
    <2> QED BY <1>1, <2>1, <2>2, <2>4, <2>6 DEF ListTypes
  <1> QED BY <1>3, <1>4, <1>7, <1>8, <1>9, <1>10 DEF Listen

\* The receive threads.
LEMMA ReceiveTypes ==
  ASSUME PeerTypes, NEW i \in DOMAIN receiver, Receive(i) \/ ReceiveMessage(i)
  PROVE  ListTypes'
  <1>1. ListTypes /\ 0 \in 0 .. Len(sock)
    BY Parts, Shapes
  <1>2. UNCHANGED <<l_fd, talk_fd, listen_fd, files, listener>>
    BY DEF Receive, ReceiveLoad, ReceiveMessage, ReceiveEnd, ReceiveNormal, state
  <1>3. \E p \in ReceivePc, s \in 0 .. Len(sock) : ReceiveAt(i, p, s)
    <2>1. CASE ReceiveLoad(i)
      BY <2>1, SocketTypes DEF ReceiveLoad, ReceivePc
    <2>2. CASE ReceiveEnd(i) \/ ReceiveNormal(i) \/ ReceiveMessage(i)
      BY <1>1, <2>2 DEF ReceiveMessage, ReceiveEnd, ReceiveNormal, ReceivePc
    <2> QED BY <2>1, <2>2 DEF Receive
  <1>4. receiver' \in Seq(ReceiveRec(Len(sock)))
    BY <1>3, ReceiverMoves
  <1> QED BY <1>1, <1>2, <1>4 DEF ListTypes, files

\* Main and ^C.
LEMMA MainTypes ==
  ASSUME PeerTypes, Main
  PROVE  ListTypes'
  <1>1. ListTypes /\ Len(sock) \in Nat /\ DOMAIN sock = 1 .. Len(sock)
    BY Parts, Shapes
  <1>2. CASE WaitMode \/ ReadAnswer \/ GiveUp \/ IntNormal
    <2>1. UNCHANGED <<l_fd, talk_fd, listen_fd, files, threads>>
      BY <1>2 DEF WaitMode, ReadAnswer, GiveUp, IntNormal, state
    <2> QED BY <1>1, <2>1 DEF ListTypes, files, threads
  <1>3. CASE WaitSocket
    <2>1. /\ Create("listen", calls) /\ listen_fd' = FreeFd
          /\ UNCHANGED <<l_fd, talk_fd, listener, receiver>>
      BY <1>3 DEF WaitSocket, threads
    <2>2. calls \in Seq(0 .. 2) /\ Len(calls) = Len(sock) /\ "listen" \in SockState
      BY <1>1 DEF ListTypes, SockState
    <2>3. /\ \A fd \in {l_fd, listen_fd, FreeFd} : fd \in 0 .. Len(fds')
          /\ \A fd \in {talk_fd, FreeFd} : fd \in -1 .. Len(fds')
          /\ fds' \in Seq(0 .. Len(sock')) /\ sock' \in Seq(SockState)
          /\ calls' \in Seq(0 .. 2) /\ Len(calls') = Len(sock')
          /\ listener \in Seq(ListenRec(Len(sock'))) /\ receiver \in Seq(ReceiveRec(Len(sock')))
      BY <2>1, <2>2, CreatedTypes
    <2> QED BY <2>1, <2>3 DEF ListTypes
  <1>4. CASE WaitThread
    <2>1. /\ l_fd' = listen_fd /\ listener' = Append(listener, [pc |-> "test", on |-> 0])
          /\ UNCHANGED <<talk_fd, listen_fd, files, receiver>>
      BY <1>4 DEF WaitThread
    <2>2. [pc |-> "test", on |-> 0] \in ListenRec(Len(sock))
      BY <1>1 DEF ListenRec, ListenPc
    <2>3. listener' \in Seq(ListenRec(Len(sock)))
      BY <1>1, <2>1, <2>2, AppendProperties DEF ListTypes
    <2> QED BY <1>1, <2>1, <2>3 DEF ListTypes, files
  <1>5. CASE ConnectPeer
    <2>1. /\ Create("dialing", calls) /\ talk_fd' = FreeFd
          /\ UNCHANGED <<l_fd, listen_fd, listener, receiver>>
      BY <1>5 DEF ConnectPeer, threads
    <2>2. calls \in Seq(0 .. 2) /\ Len(calls) = Len(sock) /\ "dialing" \in SockState
      BY <1>1 DEF ListTypes, SockState
    <2>3. /\ \A fd \in {l_fd, listen_fd, FreeFd} : fd \in 0 .. Len(fds')
          /\ \A fd \in {talk_fd, FreeFd} : fd \in -1 .. Len(fds')
          /\ fds' \in Seq(0 .. Len(sock')) /\ sock' \in Seq(SockState)
          /\ calls' \in Seq(0 .. 2) /\ Len(calls') = Len(sock')
          /\ listener \in Seq(ListenRec(Len(sock'))) /\ receiver \in Seq(ReceiveRec(Len(sock')))
      BY <2>1, <2>2, CreatedTypes
    <2> QED BY <2>1, <2>3 DEF ListTypes
  <1>6. CASE Dialed
    <2>1. UNCHANGED <<l_fd, talk_fd, listen_fd, fds, calls, listener>>
      BY <1>6 DEF Dialed
    <2>2. CASE UNCHANGED <<sock, my_state, receiver>>
      BY <1>1, <2>1, <2>2 DEF ListTypes
    <2>3. CASE /\ sock' = [s \in DOMAIN sock |-> IF sock[s] = "dialing" THEN "talk" ELSE sock[s]]
               /\ create_receive_thread
      <3>1. \A s \in DOMAIN sock : sock[s] \in SockState /\ "talk" \in SockState
        BY Shapes DEF SockState
      <3>2. sock' \in [1 .. Len(sock) -> SockState]
        BY <1>1, <2>3, <3>1
      <3>3. sock' \in Seq(SockState) /\ Len(sock') = Len(sock)
        BY <1>1, <3>2, FunctionIsList
      <3>4. receiver' \in Seq(ReceiveRec(Len(sock)))
        BY <2>3, ReceiverStarts
      <3> QED BY <1>1, <2>1, <3>3, <3>4 DEF ListTypes
    <2> QED BY <1>6, <2>2, <2>3 DEF Dialed
  <1>7. CASE Say
    <2>1. UNCHANGED <<state, fds, calls, listener, receiver>>
      BY <1>7 DEF Say, threads
    <2>2. \/ UNCHANGED sock
          \/ /\ StateOf(Socket(talk_fd)) = "left"
             /\ sock' = [sock EXCEPT ![Socket(talk_fd)] = "reset"]
      BY <1>7 DEF Say
    <2>3. sock' \in Seq(SockState) /\ Len(sock') = Len(sock)
      <3>1. "reset" \in SockState
        BY DEF SockState
      <3>2. StateOf(Socket(talk_fd)) = "left" => Socket(talk_fd) \in 1 .. Len(sock)
        BY <1>1, SocketTypes DEF StateOf
      <3>3. sock \in Seq(SockState)
        BY <1>1 DEF ListTypes
      <3>4. CASE UNCHANGED sock
        BY <3>3, <3>4
      <3>5. CASE /\ StateOf(Socket(talk_fd)) = "left"
                 /\ sock' = [sock EXCEPT ![Socket(talk_fd)] = "reset"]
        BY <3>1, <3>2, <3>3, <3>5, ExceptSeq
      <3> QED BY <2>2, <3>4, <3>5
    <2> QED BY <1>1, <2>1, <2>3 DEF ListTypes, state
  <1>8. CASE IntTalking \/ IntWaiting
    <2>1. UNCHANGED <<state, fds, listener, receiver>>
      BY <1>8 DEF IntTalking, IntWaiting, threads
    <2>2. \/ UNCHANGED <<sock, calls>>
          \/ \E fd \in {talk_fd, l_fd} : Shut(Socket(fd))
      BY <1>8 DEF IntTalking, IntWaiting
    <2>3. sock' \in Seq(SockState) /\ Len(sock') = Len(sock)
          /\ calls' \in Seq(0 .. 2) /\ Len(calls') = Len(sock')
      BY <1>1, <2>2, ShutTypes, SocketTypes DEF ListTypes
    <2> QED BY <1>1, <2>1, <2>3 DEF ListTypes, state
  <1> QED BY <1>2, <1>3, <1>4, <1>5, <1>6, <1>7, <1>8 DEF Main

\* The peers.
LEMMA PeersTypes ==
  ASSUME PeerTypes, Peers
  PROVE  ListTypes'
  <1>1. ListTypes /\ Len(sock) \in Nat /\ DOMAIN sock = 1 .. Len(sock)
    BY Parts, Shapes
  <1>2. ASSUME NEW s \in DOMAIN sock, Call(s) PROVE ListTypes'
    <2>1. /\ calls' = [calls EXCEPT ![s] = calls[s] + 1] /\ calls[s] < 2
          /\ UNCHANGED <<state, fds, sock, listener, receiver>>
      BY <1>2 DEF Call, threads
    <2>2. calls[s] + 1 \in 0 .. 2 /\ s \in 1 .. Len(calls) /\ calls \in Seq(0 .. 2)
      <3>1. calls[s] \in 0 .. 2 /\ calls[s] < 2
        BY <2>1, Shapes
      <3>2. Len(calls) = Len(sock) /\ calls \in Seq(0 .. 2)
        BY <1>1 DEF ListTypes
      <3> QED BY <1>1, <3>1, <3>2
    <2>3. calls' \in Seq(0 .. 2) /\ Len(calls') = Len(calls)
      BY <2>1, <2>2, ExceptSeq
    <2> QED BY <1>1, <2>1, <2>3 DEF ListTypes, state
  <1>3. ASSUME NEW s \in DOMAIN sock, PeerLeaves(s) PROVE ListTypes'
    <2>1. /\ sock' = [sock EXCEPT ![s] = "left"]
          /\ UNCHANGED <<state, fds, calls, listener, receiver>>
      BY <1>3 DEF PeerLeaves, threads
    <2>2. sock' \in Seq(SockState) /\ Len(sock') = Len(sock)
      <3>1. "left" \in SockState
        BY DEF SockState
      <3> QED BY <1>1, <2>1, <3>1, ExceptSeq DEF ListTypes
    <2> QED BY <1>1, <2>1, <2>2 DEF ListTypes, state
  <1> QED BY <1>2, <1>3, ReceiveTypes DEF Peers

\* Modes, places and bounds.
LEMMA StepPlain ==
  ASSUME PeerTypes, PeerNext
  PROVE  PlainTypes'
  <1> USE DEF PlainTypes
  <1>1. PlainTypes
    BY Parts
  <1>2. ASSUME NEW i \in DOMAIN listener, Listen(i) PROVE PlainTypes'
    BY <1>1, <1>2 DEF Listen, ListenTest, ListenSelect, ListenAccept, ListenBlocked, ListenTalk,
                      ListenClose, create_receive_thread, state, bounds
  <1>3. ASSUME NEW i \in DOMAIN receiver, Receive(i) PROVE PlainTypes'
    BY <1>1, <1>3 DEF Receive, ReceiveLoad, ReceiveEnd, ReceiveNormal, state, bounds
  <1>4. CASE Main
    <2>1. CASE ReadAnswer
      <3>1. answers' \in Seq({"nobody", "peer", "list"}) /\ Head(answers) \in {"nobody", "peer", "list"}
        BY <1>1, <2>1, DropFirst DEF ReadAnswer
      <3>2. UNCHANGED <<troubles, my_state, int, asked, inputs, coming>>
        BY <2>1 DEF ReadAnswer, state, bounds
      <3>3. main' \in {"prompt", "dial", "list", "killed"}
        BY <2>1, <3>1 DEF ReadAnswer
      <3> QED BY <1>1, <3>1, <3>2, <3>3
    <2>2. CASE WaitMode \/ WaitSocket \/ WaitThread \/ GiveUp \/ ConnectPeer
      BY <1>1, <2>2 DEF WaitMode, WaitSocket, WaitThread, GiveUp, ConnectPeer, state, bounds
    <2>3. CASE Dialed \/ Say \/ IntTalking \/ IntWaiting \/ IntNormal
      BY <1>1, <2>3 DEF Dialed, create_receive_thread, Say, IntTalking, IntWaiting, IntNormal,
                        state, bounds
    <2> QED BY <1>4, <2>1, <2>2, <2>3 DEF Main
  <1>5. CASE User
    <2>1. inputs \in Nat /\ inputs <= MaxInputs /\ MaxInputs \in Nat
      BY <1>1, BoundsAssumption
    <2>2. Inputs => inputs' \in 0 .. MaxInputs /\ UNCHANGED <<troubles, coming>>
      BY <2>1 DEF Inputs
    <2>3. ASSUME NEW r \in {"connect", "list"}, TypeRequest(r) PROVE PlainTypes'
      <3>1. asked' \in Seq({"connect", "list"})
        BY <1>1, <2>3, AppendProperties DEF TypeRequest
      <3> QED BY <1>1, <2>2, <2>3, <3>1 DEF TypeRequest, Enter, state
    <2>4. CASE TypeWait \/ TypeText \/ TypeQuit \/ Interrupt
      BY <1>1, <2>2, <2>4 DEF TypeWait, TypeText, TypeQuit, Interrupt, Enter, state
    <2> QED BY <1>5, <2>3, <2>4 DEF User
  <1>6. CASE ServerAnswers
    <2>1. PICK a \in {"nobody", "peer", "list"} : answers' = Append(answers, a)
      BY <1>6 DEF ServerAnswers
    <2>2. answers' \in Seq({"nobody", "peer", "list"})
      BY <1>1, <2>1, AppendProperties
    <2>3. asked' \in Seq({"connect", "list"})
      BY <1>1, <1>6, DropFirst DEF ServerAnswers
    <2>4. UNCHANGED <<troubles, my_state, main, int, inputs, coming>>
      BY <1>6 DEF ServerAnswers, state, bounds
    <2> QED BY <1>1, <2>2, <2>3, <2>4
  <1>7. CASE Peers
    <2>1. coming \in Nat /\ coming <= MaxComing /\ MaxComing \in Nat
      BY <1>1, BoundsAssumption
    <2> QED BY <1>1, <1>7, <2>1 DEF Peers, Call, PeerLeaves, ReceiveMessage, state, bounds
  <1>8. CASE Pause
    BY <1>1, <1>8 DEF Pause, peerVars, state, bounds
  <1> QED BY <1>2, <1>3, <1>4, <1>5, <1>6, <1>7, <1>8 DEF PeerNext

\* Every step keeps the types.
LEMMA StepTypes ==
  ASSUME PeerTypes, Placed, [PeerNext]_peerVars
  PROVE  PeerTypes'
  <1>1. ListTypes /\ PlainTypes
    BY Parts
  <1>2. CASE UNCHANGED peerVars
    BY <1>2 DEF PeerTypes, peerVars, state, files, threads, bounds
  <1>3. CASE PeerNext
    <2>1. ListTypes'
      <3>1. CASE User \/ ServerAnswers \/ Pause
        <4>1. UNCHANGED <<state, files, threads>>
          BY <3>1 DEF User, TypeWait, TypeText, TypeQuit, Interrupt, TypeRequest, ServerAnswers,
                      Pause, peerVars
        <4> QED BY <1>1, <4>1 DEF ListTypes, state, files, threads
      <3> QED BY <1>3, <3>1, ListenTypes, ReceiveTypes, MainTypes, PeersTypes DEF PeerNext
    <2> QED BY <1>3, <2>1, StepPlain, PartsNext
  <1> QED BY <1>2, <1>3

-----------------------------------------------------------------------------
(* Placed and OneAsked.                                                    *)

\* What may go wrong is fixed, and a client that has ended does no more.
LEMMA RunsOn ==
  ASSUME PeerNext
  PROVE  troubles' = troubles /\ (Running \/ Pause)
  <1>1. ASSUME NEW i \in DOMAIN listener, Listen(i) PROVE troubles' = troubles /\ Running
    BY <1>1 DEF Listen, ListenTest, ListenSelect, ListenAccept, ListenBlocked, ListenTalk,
                ListenClose, bounds, Thread
  <1>2. ASSUME NEW i \in DOMAIN receiver, Receive(i) PROVE troubles' = troubles /\ Running
    BY <1>2 DEF Receive, ReceiveLoad, ReceiveEnd, ReceiveNormal, bounds, Thread
  <1>3. CASE Main
    BY <1>3 DEF Main, WaitMode, WaitSocket, WaitThread, ReadAnswer, GiveUp, ConnectPeer, Dialed,
                Say, IntTalking, IntWaiting, IntNormal, At, bounds
  <1>4. CASE User
    BY <1>4 DEF User, TypeWait, TypeText, TypeQuit, TypeRequest, Interrupt, Enter, At, Inputs
  <1>5. CASE ServerAnswers
    BY <1>5 DEF ServerAnswers, bounds
  <1>6. CASE Peers
    BY <1>6 DEF Peers, Call, PeerLeaves, ReceiveMessage, Thread, bounds
  <1>7. CASE Pause
    BY <1>7 DEF Pause, peerVars, bounds
  <1> QED BY <1>1, <1>2, <1>3, <1>4, <1>5, <1>6, <1>7 DEF PeerNext

\* A new listen thread.
LEMMA ListenerStarts ==
  ASSUME PeerTypes, WaitThread
  PROVE  /\ DOMAIN listener' = DOMAIN listener \cup {Len(listener) + 1}
         /\ Len(listener) + 1 \notin DOMAIN listener
         /\ listener'[Len(listener) + 1].pc = "test"
         /\ \A j \in DOMAIN listener : listener'[j] = listener[j]
  <1>1. [pc |-> "test", on |-> 0] \in ListenRec(Len(sock))
    BY Shapes DEF ListenRec, ListenPc
  <1>2. listener \in Seq(ListenRec(Len(sock)))
    BY DEF PeerTypes, ListenRec, ListenPc
  <1>3. listener' = Append(listener, [pc |-> "test", on |-> 0])
    BY DEF WaitThread
  <1>4. DOMAIN listener = 1 .. Len(listener) /\ Len(listener) \in Nat
    BY Shapes
  <1>5. /\ listener' \in Seq(ListenRec(Len(sock))) /\ Len(listener') = Len(listener) + 1
        /\ \A j \in 1 .. Len(listener) : listener'[j] = listener[j]
        /\ listener'[Len(listener) + 1] = [pc |-> "test", on |-> 0]
    BY <1>1, <1>2, <1>3, AppendProperties
  <1>6. DOMAIN listener' = 1 .. Len(listener')
    BY <1>5, LenProperties
  <1> QED BY <1>4, <1>5, <1>6

\* Where a thread goes to, whatever else happens.
LEMMA ListenerGoes ==
  ASSUME PeerTypes, NEW i \in DOMAIN listener, NEW p, NEW s, ListenAt(i, p, s)
  PROVE  /\ DOMAIN listener' = DOMAIN listener
         /\ listener'[i].pc = p /\ listener'[i].on = s
         /\ \A j \in DOMAIN listener \ {i} : listener'[j] = listener[j]
  BY Shapes DEF ListenAt

\* The same for a receive thread.
LEMMA ReceiverGoes ==
  ASSUME PeerTypes, NEW i \in DOMAIN receiver, NEW p, NEW s, ReceiveAt(i, p, s)
  PROVE  /\ DOMAIN receiver' = DOMAIN receiver
         /\ receiver'[i].pc = p /\ receiver'[i].on = s
         /\ \A j \in DOMAIN receiver \ {i} : receiver'[j] = receiver[j]
  BY Shapes DEF ReceiveAt

\* Every step keeps Placed.
LEMMA StepPlaced ==
  ASSUME PeerTypes, Placed, PeerNext
  PROVE  Placed'
  <1> SUFFICES ASSUME Running', NEW j \in DOMAIN listener',
                      listener'[j].pc \in {"select", "blocked"}
               PROVE  listener'[j].on # 0
    BY DEF Placed
  <1>0. Running
    BY RunsOn DEF Pause, peerVars, Running
  <1>1. CASE UNCHANGED listener
    BY <1>0, <1>1 DEF Placed
  <1>2. ASSUME NEW i \in DOMAIN listener, Listen(i) PROVE listener'[j].on # 0
    <2>1. CASE ListenTest(i)
      <3>1. CASE ListenAt(i, "done", 0)
        BY <1>0, <3>1, ListenerGoes DEF Placed
      <3>2. CASE ListenAt(i, "select", Socket(l_fd)) /\ Socket(l_fd) # 0
        BY <1>0, <3>2, ListenerGoes DEF Placed
      <3> QED BY <2>1, <3>1, <3>2 DEF ListenTest, Running
    <2>2. CASE ListenAccept(i)
      <3>1. CASE ListenAt(i, "blocked", Socket(l_fd)) /\ StateOf(Socket(l_fd)) = "listen"
        <4>1. Socket(l_fd) # 0
          BY <3>1 DEF StateOf
        <4> QED BY <1>0, <3>1, <4>1, ListenerGoes DEF Placed
      <3>2. CASE ListenAt(i, "talk", 0)
        BY <1>0, <3>2, ListenerGoes DEF Placed
      <3> QED BY <2>2, <3>1, <3>2 DEF ListenAccept
    <2>3. CASE ListenSelect(i) \/ ListenBlocked(i) \/ ListenTalk(i) \/ ListenClose(i)
      <3>1. \E p \in {"accept", "talk", "close", "done"} : ListenAt(i, p, 0)
        BY <2>3 DEF ListenSelect, ListenBlocked, ListenTalk, ListenClose
      <3> QED BY <1>0, <3>1, ListenerGoes DEF Placed
    <2> QED BY <1>2, <2>1, <2>2, <2>3 DEF Listen
  <1>3. CASE WaitThread
    BY <1>0, <1>3, ListenerStarts DEF Placed
  <1>4. CASE Main /\ ~WaitThread
    BY <1>1, <1>4 DEF Main, WaitMode, WaitSocket, ReadAnswer, GiveUp, ConnectPeer, Dialed,
                      Say, IntTalking, IntWaiting, IntNormal, threads
  <1>5. CASE User \/ ServerAnswers \/ Peers \/ Pause
    BY <1>1, <1>5 DEF User, TypeWait, TypeText, TypeQuit, TypeRequest, Interrupt, ServerAnswers,
                      Peers, Call, PeerLeaves, ReceiveMessage, Pause, peerVars, threads
  <1>6. ASSUME NEW i \in DOMAIN receiver, Receive(i) PROVE UNCHANGED listener
    BY <1>6 DEF Receive, ReceiveLoad, ReceiveEnd, ReceiveNormal
  <1> QED BY <1>1, <1>2, <1>3, <1>4, <1>5, <1>6 DEF PeerNext

\* The commands of a user who waits for the prompt.
LEMMA Patient ==
  ASSUME troubles \subseteq {"crossing", "late"}, Inputs
  PROVE  Settled
  BY DEF Inputs

\* Every step keeps OneAsked.
LEMMA StepAsked ==
  ASSUME PeerTypes, OneAsked, PeerNext
  PROVE  OneAsked'
  <1> SUFFICES ASSUME troubles' \subseteq {"crossing"}, Running'
               PROVE  OneAsked'
    BY DEF OneAsked
  <1>0. Running /\ troubles' = troubles /\ troubles \subseteq {"crossing"}
    BY RunsOn DEF Pause, peerVars, Running, bounds
  <1> DEFINE Clear == asked = << >> /\ answers = << >>
             Waiting == \/ asked = <<main>> /\ answers = << >>
                        \/ asked = << >> /\ \E a \in {"nobody", "peer", "list"} :
                                               answers = <<a>> /\ (a = "list" <=> main = "list")
  <1>1. IF main \in {"connect", "list"} THEN Waiting ELSE Clear
    BY <1>0 DEF OneAsked
  <1>2. ASSUME UNCHANGED <<asked, answers>>,
               main' = main \/ (main \notin {"connect", "list"} /\ main' \notin {"connect", "list"})
        PROVE  OneAsked'
    BY <1>1, <1>2 DEF OneAsked
  <1>3. ASSUME NEW i \in DOMAIN listener, Listen(i) PROVE OneAsked'
    <2>1. UNCHANGED <<asked, answers>> /\ main' \in {main, "failed"}
      BY <1>3 DEF Listen, ListenTest, ListenSelect, ListenAccept, ListenBlocked, ListenTalk,
                  ListenClose
    <2> QED BY <1>2, <2>1 DEF Running
  <1>4. ASSUME NEW i \in DOMAIN receiver, Receive(i) PROVE OneAsked'
    BY <1>2, <1>4 DEF Receive, ReceiveLoad, ReceiveEnd, ReceiveNormal
  <1>5. CASE Main
    <2>1. CASE ReadAnswer
      <3>1. main \in {"connect", "list"} /\ answers # << >>
        BY <2>1 DEF ReadAnswer, At
      <3>2. PICK a \in {"nobody", "peer", "list"} :
              answers = <<a>> /\ (a = "list" <=> main = "list")
        BY <1>1, <3>1
      <3>3. asked' = << >> /\ answers' = << >> /\ Head(answers) = a
        BY <1>1, <2>1, <3>1, <3>2 DEF ReadAnswer
      <3>4. main' \in {"prompt", "dial"}
        BY <2>1, <3>1, <3>2, <3>3 DEF ReadAnswer, At
      <3> QED BY <3>3, <3>4 DEF OneAsked
    <2>2. CASE GiveUp
      BY <1>0, <2>2 DEF GiveUp
    <2>3. CASE WaitMode \/ WaitSocket \/ WaitThread \/ ConnectPeer \/ Dialed \/ Say
      <3>1. UNCHANGED <<asked, answers>>
        BY <2>3 DEF WaitMode, WaitSocket, WaitThread, ConnectPeer, Dialed, Say
      <3>2. main \notin {"connect", "list"} /\ main' \notin {"connect", "list"}
        BY <2>3 DEF WaitMode, WaitSocket, WaitThread, ConnectPeer, Dialed, Say, At
      <3> QED BY <1>2, <3>1, <3>2
    <2>4. CASE IntTalking \/ IntWaiting \/ IntNormal
      BY <1>2, <2>4 DEF IntTalking, IntWaiting, IntNormal
    <2> QED BY <1>5, <2>1, <2>2, <2>3, <2>4 DEF Main
  <1>6. CASE User
    <2>1. CASE TypeWait \/ TypeText \/ TypeQuit
      <3>1. main = "prompt" /\ main' \in {"wait", "say", "quit"} /\ UNCHANGED <<asked, answers>>
        BY <2>1 DEF TypeWait, TypeText, TypeQuit, Enter, At
      <3> QED BY <1>2, <3>1
    <2>2. ASSUME NEW r \in {"connect", "list"}, TypeRequest(r) PROVE OneAsked'
      <3>1. main = "prompt" /\ main' = r /\ asked' = Append(asked, r) /\ answers' = answers
        BY <2>2 DEF TypeRequest, Enter, At
      <3>2. asked' = <<r>> /\ answers' = << >>
        BY <1>1, <3>1
      <3> QED BY <3>1, <3>2 DEF OneAsked
    <2>3. CASE Interrupt
      <3>1. main = "prompt"
        BY <1>0, <2>3, Patient DEF Interrupt, Settled
      <3> QED BY <1>2, <2>3, <3>1 DEF Interrupt
    <2> QED BY <1>6, <2>1, <2>2, <2>3 DEF User
  <1>7. CASE ServerAnswers
    <2>1. main \in {"connect", "list"} /\ asked = <<main>> /\ answers = << >> /\ main' = main
      BY <1>1, <1>7 DEF ServerAnswers
    <2>2. asked' = << >> /\ Head(asked) = main
      BY <1>7, <2>1 DEF ServerAnswers
    <2>3. \E a \in {"nobody", "peer", "list"} :
            answers' = Append(answers, a) /\ (a = "list" <=> main = "list")
      BY <1>7, <2>1, <2>2 DEF ServerAnswers
    <2>4. \E a \in {"nobody", "peer", "list"} : answers' = <<a>> /\ (a = "list" <=> main' = "list")
      BY <2>1, <2>3
    <2> QED BY <2>1, <2>2, <2>4 DEF OneAsked
  <1>8. CASE Peers \/ Pause
    BY <1>2, <1>8 DEF Peers, Call, PeerLeaves, ReceiveMessage, Pause, peerVars
  <1> QED BY <1>3, <1>4, <1>5, <1>6, <1>7, <1>8 DEF PeerNext

-----------------------------------------------------------------------------
(* Descriptors and the sockets they stand for.                             *)

\* A new socket: only the descriptor that is taken changes.
LEMMA AfterCreate ==
  ASSUME PeerTypes, NEW st \in SockState, NEW cs \in Seq(0 .. 2), Len(cs) = Len(sock),
         Create(st, cs)
  PROVE  /\ \A n : (IF n \in DOMAIN fds' THEN fds'[n] ELSE 0)
                     = IF n = FreeFd THEN Len(sock) + 1 ELSE Socket(n)
         /\ sock'[Len(sock) + 1] = st /\ calls'[Len(sock) + 1] = 0
         /\ DOMAIN sock' = DOMAIN sock \cup {Len(sock) + 1}
         /\ Len(sock) + 1 \notin DOMAIN sock /\ Len(sock) + 1 # 0
         /\ \A s \in DOMAIN sock : sock'[s] = sock[s] /\ calls'[s] = cs[s]
  <1>1. /\ DOMAIN fds' = DOMAIN fds \cup {FreeFd}
        /\ DOMAIN sock' = DOMAIN sock \cup {Len(sock) + 1}
        /\ fds'[FreeFd] = Len(sock) + 1
        /\ \A n \in DOMAIN fds \ {FreeFd} : fds'[n] = fds[n]
        /\ \A s \in DOMAIN sock : sock'[s] = sock[s] /\ calls'[s] = cs[s]
        /\ sock'[Len(sock) + 1] = st
    BY Created
  <1>2. Len(sock) \in Nat /\ DOMAIN sock = 1 .. Len(sock)
    BY Shapes
  <1>3. calls' = Append(cs, 0)
    BY DEF Create
  <1>4. calls'[Len(cs) + 1] = 0
    BY <1>3, AppendProperties
  <1> QED BY <1>1, <1>2, <1>4 DEF Socket

\* A new socket has a descriptor of its own.
LEMMA CreateDistinct ==
  ASSUME PeerTypes, Distinct, NEW st \in SockState, NEW cs \in Seq(0 .. 2), Len(cs) = Len(sock),
         Create(st, cs)
  PROVE  Distinct'
  <1>1. /\ DOMAIN fds' = DOMAIN fds \cup {FreeFd}
        /\ fds'[FreeFd] = Len(sock) + 1
        /\ \A n \in DOMAIN fds \ {FreeFd} : fds'[n] = fds[n]
    BY Created
  <1>2. \A n \in DOMAIN fds : fds[n] # Len(sock) + 1
    BY Shapes
  <1> QED BY <1>1, <1>2 DEF Distinct

\* close: the descriptor stands for nothing, and its socket is shut down unless
\* somebody is blocked at it.
LEMMA AfterClose ==
  ASSUME PeerTypes, NEW i \in DOMAIN listener, ListenClose(i)
  PROVE  /\ \A n : (IF n \in DOMAIN fds' THEN fds'[n] ELSE 0)
                     = IF n = l_fd THEN 0 ELSE Socket(n)
         /\ DOMAIN fds' = DOMAIN fds /\ DOMAIN sock' = DOMAIN sock
         /\ \A s \in DOMAIN sock : s # Socket(l_fd) => sock'[s] = sock[s] /\ calls'[s] = calls[s]
         /\ Socket(l_fd) # 0 => sock'[Socket(l_fd)] \in {"shut", sock[Socket(l_fd)]}
  <1>1. CASE Socket(l_fd) = 0
    BY <1>1 DEF ListenClose, files, Socket
  <1>2. CASE Socket(l_fd) # 0
    <2>1. l_fd \in DOMAIN fds /\ Socket(l_fd) \in 0 .. Len(sock)
      BY <1>2, SocketTypes DEF Socket
    <2>2. fds' = [fds EXCEPT ![l_fd] = 0]
      BY <1>2 DEF ListenClose
    <2>3. UNCHANGED <<sock, calls>> \/ Shut(Socket(l_fd))
      BY <1>2 DEF ListenClose
    <2>4. /\ DOMAIN sock' = DOMAIN sock
          /\ \A s \in DOMAIN sock : /\ s # Socket(l_fd) => sock'[s] = sock[s] /\ calls'[s] = calls[s]
                                    /\ s = Socket(l_fd) => sock'[s] \in {"shut", sock[s]}
      BY <2>1, <2>3, ShutTypes
    <2>5. /\ \A n : (IF n \in DOMAIN fds' THEN fds'[n] ELSE 0) = IF n = l_fd THEN 0 ELSE Socket(n)
          /\ DOMAIN fds' = DOMAIN fds
      <3>1. DOMAIN fds' = DOMAIN fds /\ fds'[l_fd] = 0
            /\ \A n \in DOMAIN fds \ {l_fd} : fds'[n] = fds[n]
        BY Shapes, <2>1, <2>2
      <3> QED BY <2>1, <3>1 DEF Socket
    <2> QED BY <1>2, <2>1, <2>4, <2>5, SocketTypes
  <1> QED BY <1>1, <1>2

\* accept: the call is taken by a new socket, or there is none.
Accepted(i) ==
  /\ ListenAt(i, "talk", 0) /\ UNCHANGED <<my_state, l_fd, listen_fd, main, int, receiver>>
  /\ \/ \E s \in DOMAIN sock : sock[s] = "listen" /\ calls[s] > 0 /\ Take(s)
     \/ talk_fd' = -1 /\ UNCHANGED files

\* accept returns, or blocks at a socket where nobody called.
LEMMA Accepting ==
  ASSUME PeerTypes, Placed, NEW i \in DOMAIN listener, ListenAccept(i) \/ ListenBlocked(i)
  PROVE  \/ Accepted(i)
         \/ /\ ListenAt(i, "blocked", Socket(l_fd)) /\ StateOf(Socket(l_fd)) = "listen"
            /\ calls[Socket(l_fd)] = 0 /\ UNCHANGED <<state, main, int, receiver, files>>
  <1>1. CASE ListenAccept(i)
    <2>1. CASE StateOf(Socket(l_fd)) = "listen" /\ calls[Socket(l_fd)] = 0
      BY <1>1, <2>1 DEF ListenAccept, state
    <2>2. CASE StateOf(Socket(l_fd)) = "listen" /\ calls[Socket(l_fd)] > 0
      <3>1. Socket(l_fd) \in DOMAIN sock
        BY <2>2, SocketTypes DEF StateOf
      <3>2. sock[Socket(l_fd)] = "listen"
        BY <2>2 DEF StateOf
      <3>3. Take(Socket(l_fd)) /\ ListenAt(i, "talk", 0)
        BY <1>1, <2>2 DEF ListenAccept
      <3>4. UNCHANGED <<my_state, l_fd, listen_fd, main, int, receiver>>
        BY <1>1 DEF ListenAccept
      <3> QED BY <2>2, <3>1, <3>2, <3>3, <3>4 DEF Accepted
    <2>3. CASE StateOf(Socket(l_fd)) # "listen"
      BY <1>1, <2>3 DEF ListenAccept, Accepted
    <2> QED BY <1>1, <2>1, <2>2, <2>3 DEF ListenAccept
  <1>2. CASE ListenBlocked(i)
    <2>1. listener[i].on \in DOMAIN sock
      <3>1. listener[i].on \in 0 .. Len(sock) /\ listener[i].on # 0
        BY <1>2, Shapes DEF ListenBlocked, Thread, Placed, ListenRec
      <3> QED BY <3>1, Shapes
    <2>2. ListenAt(i, "talk", 0) /\ UNCHANGED <<my_state, l_fd, listen_fd, main, int, receiver>>
      BY <1>2 DEF ListenBlocked
    <2>3. CASE sock[listener[i].on] = "listen"
      BY <1>2, <2>1, <2>2, <2>3 DEF ListenBlocked, Readable, Accepted
    <2>4. CASE sock[listener[i].on] # "listen"
      BY <1>2, <2>2, <2>4 DEF ListenBlocked, Accepted
    <2> QED BY <2>3, <2>4
  <1> QED BY <1>1, <1>2

\* Every step keeps Distinct.
LEMMA StepDistinct ==
  ASSUME PeerTypes, Placed, Distinct, PeerNext
  PROVE  Distinct'
  <1>0. calls \in Seq(0 .. 2) /\ Len(calls) = Len(sock) /\ {"listen", "dialing", "talk"} \subseteq SockState
    BY DEF PeerTypes, SockState
  <1>1. CASE UNCHANGED fds
    BY <1>1 DEF Distinct
  <1>2. ASSUME NEW i \in DOMAIN listener, Listen(i) PROVE Distinct'
    <2>1. CASE ListenAccept(i) \/ ListenBlocked(i)
      <3>1. ASSUME NEW s \in DOMAIN sock, calls[s] > 0, Take(s) PROVE Distinct'
        BY <1>0, <3>1, TakeTypes, CreateDistinct
      <3> QED BY <1>1, <2>1, <3>1, Accepting DEF Accepted, files
    <2>2. CASE ListenClose(i)
      <3>1. DOMAIN fds' = DOMAIN fds /\ \A n \in DOMAIN fds : fds'[n] = 0 \/ fds'[n] = fds[n]
        BY <2>2, AfterClose DEF Socket
      <3> QED BY <3>1 DEF Distinct
    <2>3. CASE ListenTest(i) \/ ListenSelect(i) \/ ListenTalk(i)
      BY <1>1, <2>3 DEF ListenTest, ListenSelect, ListenTalk, files
    <2> QED BY <1>2, <2>1, <2>2, <2>3 DEF Listen
  <1>3. CASE WaitSocket
    BY <1>0, <1>3, CreateDistinct DEF WaitSocket
  <1>4. CASE ConnectPeer
    BY <1>0, <1>4, CreateDistinct DEF ConnectPeer
  <1>5. CASE Main /\ ~WaitSocket /\ ~ConnectPeer
    BY <1>1, <1>5 DEF Main, WaitMode, WaitThread, ReadAnswer, GiveUp, Dialed,
                      Say, IntTalking, IntWaiting, IntNormal, files
  <1>6. CASE User \/ ServerAnswers \/ Peers \/ Pause
    BY <1>1, <1>6 DEF User, TypeWait, TypeText, TypeQuit, TypeRequest, Interrupt, ServerAnswers,
                      Peers, Call, PeerLeaves, ReceiveMessage, Pause, peerVars, files
  <1>7. ASSUME NEW i \in DOMAIN receiver, Receive(i) PROVE UNCHANGED fds
    BY <1>7 DEF Receive, ReceiveLoad, ReceiveEnd, ReceiveNormal, files
  <1> QED BY <1>1, <1>2, <1>3, <1>4, <1>5, <1>6, <1>7 DEF PeerNext

-----------------------------------------------------------------------------
(* Tended, Writable and Survives.                                          *)

\* The user writes to a socket that there is, or to none.
LEMMA MouthTypes ==
  ASSUME PeerTypes
  PROVE  Mouth \in 0 .. Len(sock) /\ (Mouth # 0 => Mouth \in DOMAIN sock)
  BY SocketTypes DEF Mouth

\* The user writes to the same socket while no descriptor changes.
LEMMA MouthStays ==
  ASSUME UNCHANGED <<talk_fd, fds>>
  PROVE  Mouth' = Mouth
  BY DEF Mouth, Socket

\* The user writes to a new socket or to the same as before.
LEMMA MouthCreate ==
  ASSUME PeerTypes, NEW st \in SockState, NEW cs \in Seq(0 .. 2), Len(cs) = Len(sock),
         Create(st, cs), talk_fd' \in {talk_fd, FreeFd}
  PROVE  /\ talk_fd' = FreeFd => Mouth' # 0 /\ sock'[Mouth'] = st
         /\ talk_fd' # FreeFd => Mouth' = Mouth /\ (Mouth # 0 => sock'[Mouth] = sock[Mouth])
  BY AfterCreate, MouthTypes DEF Mouth, Socket

\* close of the listening socket leaves the one the user writes to, or takes it away.
LEMMA MouthClose ==
  ASSUME PeerTypes, Distinct, NEW i \in DOMAIN listener, ListenClose(i)
  PROVE  \/ Mouth' = 0
         \/ Mouth' = Mouth /\ (Mouth # 0 => sock'[Mouth] = sock[Mouth])
  <1>1. talk_fd' = talk_fd
    BY DEF ListenClose, state
  <1>2. CASE talk_fd = l_fd
    BY <1>1, <1>2, AfterClose DEF Mouth, Socket
  <1>3. CASE talk_fd # l_fd
    <2>1. Mouth' = Mouth
      BY <1>1, <1>3, AfterClose DEF Mouth, Socket
    <2>2. Mouth # 0 => Mouth # Socket(l_fd)
      BY <1>3 DEF Mouth, Socket, Distinct
    <2> QED BY <2>1, <2>2, AfterClose, MouthTypes
  <1> QED BY <1>2, <1>3

\* A call is accepted: the user writes to the new socket, or to none.
LEMMA MouthAccepted ==
  ASSUME PeerTypes, NEW i \in DOMAIN listener, Accepted(i)
  PROVE  Mouth' = 0 \/ (Mouth' # 0 /\ sock'[Mouth'] = "talk")
  <1>1. ASSUME NEW s \in DOMAIN sock, calls[s] > 0, Take(s)
        PROVE  Mouth' # 0 /\ sock'[Mouth'] = "talk"
    <2>1. talk_fd' = FreeFd /\ "talk" \in SockState
      BY <1>1 DEF Take, SockState
    <2> QED BY <1>1, <2>1, TakeTypes, MouthCreate
  <1>2. ASSUME talk_fd' = -1, UNCHANGED files PROVE Mouth' = 0
    <2>1. talk_fd' \notin DOMAIN fds'
      BY <1>2, Shapes DEF files
    <2> QED BY <2>1 DEF Mouth, Socket
  <1> QED BY <1>1, <1>2 DEF Accepted

\* Every step keeps Tended.
LEMMA StepTended ==
  ASSUME PeerTypes, Placed, Distinct, Tended, PeerNext
  PROVE  Tended'
  <1> SUFFICES ASSUME Running', my_state' = "TALKING", int' = "none"
               PROVE  Stirring' \/ Attended'
    BY DEF Tended
  <1>0. Running /\ DOMAIN listener = 1 .. Len(listener) /\ DOMAIN receiver = 1 .. Len(receiver)
    BY RunsOn, Shapes DEF Pause, peerVars, Running
  <1> DEFINE Keeps == \A j \in DOMAIN listener : listener[j].pc = "talk" =>
                        j \in DOMAIN listener' /\ listener'[j].pc = "talk"
  <1>1. ASSUME UNCHANGED <<my_state, int, receiver>>, Keeps,
               main = "dialing" => main' = "dialing",
               \/ Mouth' = 0 \/ (Mouth' # 0 /\ sock'[Mouth'] = "listen")
               \/ Mouth' = Mouth /\ (Mouth # 0 /\ sock[Mouth] = "listen" => sock'[Mouth] = "listen")
        PROVE  Stirring' \/ Attended'
    <2>1. Stirring \/ Attended
      BY <1>0, <1>1 DEF Tended
    <2>2. CASE Stirring
      BY <1>1, <2>2 DEF Stirring
    <2>3. CASE Attended
      <3>1. StateOf(Mouth)' = IF Mouth' = 0 THEN "none" ELSE sock'[Mouth']
        BY DEF StateOf
      <3>2. CASE Mouth' = 0 \/ (Mouth' # 0 /\ sock'[Mouth'] = "listen")
        BY <3>1, <3>2 DEF Attended
      <3>3. CASE /\ Mouth' = Mouth
                 /\ Mouth # 0 /\ sock[Mouth] = "listen" => sock'[Mouth] = "listen"
        <4>1. CASE StateOf(Mouth) \in {"none", "listen"}
          <5>1. Mouth = 0 \/ sock[Mouth] = "listen"
            BY <4>1, MouthTypes, Shapes DEF StateOf, SockState
          <5> QED BY <3>1, <3>3, <5>1 DEF Attended
        <4>2. CASE \E k \in DOMAIN receiver : receiver[k].pc = "read" /\ receiver[k].on = Mouth
          BY <1>1, <3>3, <4>2 DEF Attended
        <4> QED BY <2>3, <4>1, <4>2 DEF Attended
      <3> QED BY <1>1, <3>2, <3>3
    <2> QED BY <2>1, <2>2, <2>3
  <1>2. ASSUME UNCHANGED <<my_state, int, receiver, listener, talk_fd, fds, sock>>,
               main = "dialing" => main' = "dialing"
        PROVE  Stirring' \/ Attended'
    BY <1>1, <1>2, MouthStays
  <1>3. ASSUME NEW i \in DOMAIN listener, Listen(i) PROVE Stirring' \/ Attended'
    <2>1. CASE ListenTest(i) \/ ListenSelect(i)
      <3>1. UNCHANGED <<my_state, int, receiver, talk_fd, fds, sock>> /\ main' \in {main, "failed"}
        BY <2>1 DEF ListenTest, ListenSelect, state, files
      <3>2. \E p, s : ListenAt(i, p, s) /\ listener[i].pc \in {"test", "select"}
        BY <2>1 DEF ListenTest, ListenSelect, Thread
      <3>3. Keeps
        BY <3>2, ListenerGoes
      <3> QED BY <1>1, <3>1, <3>3, MouthStays DEF Running
    <2>2. CASE ListenAccept(i) \/ ListenBlocked(i)
      <3>1. CASE Accepted(i)
        BY <3>1, ListenerGoes DEF Accepted, Stirring
      <3>2. CASE /\ ListenAt(i, "blocked", Socket(l_fd))
                 /\ UNCHANGED <<state, main, int, receiver, files>>
        <4>1. listener[i].pc \in {"accept", "blocked"}
          BY <2>2 DEF ListenAccept, ListenBlocked, Thread
        <4>2. Keeps
          BY <3>2, <4>1, ListenerGoes
        <4> QED BY <1>1, <3>2, <4>2, MouthStays DEF state, files
      <3> QED BY <2>2, <3>1, <3>2, Accepting
    <2>3. CASE ListenTalk(i)
      BY <2>3, ReceiverStarts DEF ListenTalk, Stirring
    <2>4. CASE ListenClose(i)
      <3>1. ListenAt(i, "done", 0) /\ listener[i].pc = "close"
            /\ UNCHANGED <<my_state, int, receiver, main>>
        BY <2>4 DEF ListenClose, Thread, state
      <3>2. Keeps
        BY <3>1, ListenerGoes
      <3> QED BY <1>1, <2>4, <3>1, <3>2, MouthClose
    <2> QED BY <1>3, <2>1, <2>2, <2>3, <2>4 DEF Listen
  <1>4. ASSUME NEW i \in DOMAIN receiver, Receive(i) \/ ReceiveMessage(i)
        PROVE Stirring' \/ Attended'
    <2>1. CASE ReceiveLoad(i)
      <3>1. ReceiveAt(i, "read", Mouth) /\ Mouth' = Mouth
        BY <2>1, MouthStays DEF ReceiveLoad, Mouth, state, files
      <3> QED BY <3>1, ReceiverGoes DEF Attended
    <2>2. CASE ReceiveMessage(i) \/ ReceiveEnd(i)
      BY <2>2, ReceiverGoes DEF ReceiveMessage, ReceiveEnd, Stirring
    <2>3. CASE ReceiveNormal(i)
      BY <2>3 DEF ReceiveNormal
    <2> QED BY <1>4, <2>1, <2>2, <2>3 DEF Receive
  <1>5. CASE Main
    <2>1. CASE WaitMode \/ IntTalking \/ IntWaiting \/ IntNormal
      BY <2>1 DEF WaitMode, IntTalking, IntWaiting, IntNormal
    <2>2. CASE WaitSocket
      <3>1. calls \in Seq(0 .. 2) /\ Len(calls) = Len(sock) /\ "listen" \in SockState
        BY DEF PeerTypes, SockState
      <3>2. /\ UNCHANGED <<my_state, int, receiver, listener, talk_fd>> /\ main = "socket"
            /\ Create("listen", calls)
        BY <2>2 DEF WaitSocket, threads, At
      <3>3. (Mouth' # 0 /\ sock'[Mouth'] = "listen")
            \/ (Mouth' = Mouth /\ (Mouth # 0 => sock'[Mouth] = sock[Mouth]))
        BY <3>1, <3>2, MouthCreate
      <3> QED BY <1>1, <3>2, <3>3
    <2>3. CASE WaitThread
      <3>1. UNCHANGED <<my_state, int, receiver, talk_fd, fds, sock>> /\ main = "thread"
        BY <2>3 DEF WaitThread, At, files
      <3>2. Keeps
        BY <2>3, ListenerStarts
      <3> QED BY <1>1, <3>1, <3>2, MouthStays
    <2>4. CASE ReadAnswer \/ GiveUp
      BY <1>2, <2>4 DEF ReadAnswer, GiveUp, At, state, files, threads
    <2>5. CASE ConnectPeer
      BY <2>5 DEF ConnectPeer, Stirring
    <2>6. CASE Dialed
      <3>1. create_receive_thread
        BY <2>6 DEF Dialed, Running
      <3> QED BY <3>1, ReceiverStarts DEF Stirring
    <2>7. CASE Say
      <3>1. UNCHANGED <<my_state, int, receiver, listener, talk_fd, fds>> /\ main = "say"
        BY <2>7 DEF Say, state, threads, At
      <3>2. sock' = IF StateOf(Mouth) = "left" THEN [sock EXCEPT ![Mouth] = "reset"] ELSE sock
        BY <2>7 DEF Say, Mouth
      <3>3. Mouth # 0 /\ sock[Mouth] = "listen" => sock'[Mouth] = "listen"
        BY <3>2 DEF StateOf
      <3> QED BY <1>1, <3>1, <3>3, MouthStays
    <2> QED BY <1>5, <2>1, <2>2, <2>3, <2>4, <2>5, <2>6, <2>7 DEF Main
  <1>6. CASE User
    <2>1. CASE TypeWait \/ TypeText \/ TypeQuit \/ \E r \in {"connect", "list"} : TypeRequest(r)
      <3>1. UNCHANGED <<my_state, int, receiver, listener, talk_fd, fds, sock>> /\ main = "prompt"
        BY <2>1 DEF TypeWait, TypeText, TypeQuit, TypeRequest, Enter, At, state, files, threads
      <3> QED BY <1>2, <3>1
    <2>2. CASE Interrupt
      BY <2>2 DEF Interrupt
    <2> QED BY <1>6, <2>1, <2>2 DEF User
  <1>7. CASE ServerAnswers \/ Pause
    BY <1>2, <1>7 DEF ServerAnswers, Pause, peerVars, state, files, threads
  <1>8. CASE Peers
    <2>1. ASSUME NEW s \in DOMAIN sock, Call(s) PROVE Stirring' \/ Attended'
      BY <1>2, <2>1 DEF Call, state, threads
    <2>2. ASSUME NEW s \in DOMAIN sock, PeerLeaves(s) PROVE Stirring' \/ Attended'
      <3>1. /\ UNCHANGED <<my_state, int, receiver, listener, talk_fd, fds, main>>
            /\ sock' = [sock EXCEPT ![s] = "left"] /\ sock[s] = "talk"
        BY <2>2 DEF PeerLeaves, state, threads
      <3>2. sock[Mouth] = "listen" => sock'[Mouth] = "listen"
        BY <3>1
      <3> QED BY <1>1, <3>1, <3>2, MouthStays
    <2> QED BY <1>4, <1>8, <2>1, <2>2 DEF Peers
  <1> QED BY <1>3, <1>4, <1>5, <1>6, <1>7, <1>8 DEF PeerNext

\* Nobody is about to set the mode when all is settled.
LEMMA SettledCalm ==
  ASSUME Settled
  PROVE  main = "prompt" /\ int = "none" /\ Running /\ ~Stirring
  BY DEF Settled, Stirring, Resting, Running

\* Every step keeps Writable: a text is typed only while all is settled, when
\* somebody reads what the user writes to.
LEMMA StepWritable ==
  ASSUME PeerTypes, Placed, Distinct, Tended, Writable, PeerNext
  PROVE  Writable'
  <1> SUFFICES ASSUME troubles' \subseteq {"crossing"}, main' = "say"
               PROVE  int' = "none" /\ StateOf(Mouth)' \notin {"reset", "shut"}
    BY DEF Writable
  <1>0. troubles \subseteq {"crossing"} /\ StateOf(Mouth)' = IF Mouth' = 0 THEN "none" ELSE sock'[Mouth']
    BY RunsOn DEF StateOf
  <1>1. ASSUME main = "say", int' = int,
               \/ Mouth' = 0 \/ (Mouth' # 0 /\ sock'[Mouth'] \in {"listen", "talk", "left"})
               \/ Mouth' = Mouth /\ (Mouth # 0 => sock'[Mouth] = sock[Mouth])
        PROVE  int' = "none" /\ StateOf(Mouth)' \notin {"reset", "shut"}
    <2>1. int = "none" /\ StateOf(Mouth) \notin {"reset", "shut"}
      BY <1>0, <1>1 DEF Writable
    <2> QED BY <1>0, <1>1, <2>1 DEF StateOf
  <1>2. ASSUME main = "say", UNCHANGED <<int, talk_fd, fds, sock>>
        PROVE  int' = "none" /\ StateOf(Mouth)' \notin {"reset", "shut"}
    BY <1>1, <1>2, MouthStays
  <1>3. ASSUME NEW i \in DOMAIN listener, Listen(i)
        PROVE  int' = "none" /\ StateOf(Mouth)' \notin {"reset", "shut"}
    <2>1. CASE ListenTest(i) \/ ListenSelect(i) \/ ListenTalk(i)
      BY <1>2, <2>1 DEF ListenTest, ListenSelect, ListenTalk, state, files
    <2>2. CASE ListenAccept(i) \/ ListenBlocked(i)
      <3>1. CASE Accepted(i)
        BY <1>1, <3>1, MouthAccepted DEF Accepted
      <3>2. CASE UNCHANGED <<state, main, int, receiver, files>>
        BY <1>2, <3>2 DEF state, files
      <3> QED BY <2>2, <3>1, <3>2, Accepting
    <2>3. CASE ListenClose(i)
      BY <1>1, <2>3, MouthClose DEF ListenClose
    <2> QED BY <1>3, <2>1, <2>2, <2>3 DEF Listen
  <1>4. ASSUME NEW i \in DOMAIN receiver, Receive(i) \/ ReceiveMessage(i)
        PROVE  int' = "none" /\ StateOf(Mouth)' \notin {"reset", "shut"}
    BY <1>2, <1>4 DEF Receive, ReceiveLoad, ReceiveMessage, ReceiveEnd, ReceiveNormal, state, files
  <1>5. CASE Main
    <2>1. CASE IntTalking \/ IntWaiting \/ IntNormal
      BY <1>0, <2>1 DEF IntTalking, IntWaiting, IntNormal, Writable
    <2>2. CASE WaitMode \/ WaitSocket \/ WaitThread \/ GiveUp \/ ConnectPeer \/ Dialed \/ Say
      BY <2>2 DEF WaitMode, WaitSocket, WaitThread, GiveUp, ConnectPeer, Dialed, Say, At
    <2>3. CASE ReadAnswer
      <3>1. Head(answers) \in {"nobody", "peer", "list"}
        BY <2>3, DropFirst DEF ReadAnswer, PeerTypes
      <3> QED BY <2>3, <3>1 DEF ReadAnswer
    <2> QED BY <1>5, <2>1, <2>2, <2>3 DEF Main
  <1>6. CASE User
    <2>1. CASE TypeText
      <3>1. Settled /\ my_state = "TALKING" /\ UNCHANGED <<state, files, int>>
        BY <1>0, <2>1, Patient DEF TypeText, Enter
      <3>2. Attended /\ int = "none"
        BY <3>1, SettledCalm DEF Tended
      <3>3. StateOf(Mouth) \notin {"reset", "shut"}
        <4>1. CASE StateOf(Mouth) \in {"none", "listen"}
          BY <4>1
        <4>2. CASE \E k \in DOMAIN receiver : receiver[k].pc = "read" /\ receiver[k].on = Mouth
          BY <3>1, <4>2 DEF Settled
        <4> QED BY <3>2, <4>1, <4>2 DEF Attended
      <3>4. Mouth' = Mouth
        BY <3>1, MouthStays DEF state, files
      <3> QED BY <1>0, <3>1, <3>2, <3>3, <3>4 DEF StateOf, files
    <2>2. CASE TypeWait \/ TypeQuit \/ \E r \in {"connect", "list"} : TypeRequest(r)
      BY <2>2 DEF TypeWait, TypeQuit, TypeRequest, Enter
    <2>3. CASE Interrupt
      <3>1. main = "prompt" /\ main' \in {main, "prompt"}
        BY <1>0, <2>3, Patient, SettledCalm DEF Interrupt
      <3> QED BY <3>1
    <2> QED BY <1>6, <2>1, <2>2, <2>3 DEF User
  <1>7. CASE ServerAnswers \/ Pause
    BY <1>2, <1>7 DEF ServerAnswers, Pause, peerVars, state, files
  <1>8. CASE Peers
    <2>1. ASSUME NEW s \in DOMAIN sock, Call(s)
          PROVE  int' = "none" /\ StateOf(Mouth)' \notin {"reset", "shut"}
      BY <1>2, <2>1 DEF Call, state
    <2>2. ASSUME NEW s \in DOMAIN sock, PeerLeaves(s)
          PROVE  int' = "none" /\ StateOf(Mouth)' \notin {"reset", "shut"}
      <3>1. UNCHANGED <<int, talk_fd, fds, main>> /\ sock' = [sock EXCEPT ![s] = "left"]
        BY <2>2 DEF PeerLeaves, state
      <3>2. Mouth' = Mouth
        BY <3>1, MouthStays
      <3>3. Mouth' # 0 /\ Mouth = s => sock'[Mouth'] = "left"
        BY <3>1, <3>2, MouthTypes
      <3>4. Mouth # s => (Mouth # 0 => sock'[Mouth] = sock[Mouth])
        BY <3>1, MouthTypes
      <3> QED BY <1>1, <3>1, <3>2, <3>3, <3>4
    <2> QED BY <1>4, <1>8, <2>1, <2>2 DEF Peers
  <1> QED BY <1>3, <1>4, <1>5, <1>6, <1>7, <1>8 DEF PeerNext

\* Every step keeps Survives.
LEMMA StepSurvives ==
  ASSUME PeerTypes, OneAsked, Writable, Survives, PeerNext
  PROVE  Survives'
  <1> SUFFICES ASSUME troubles' \subseteq {"crossing"}, main' = "killed" PROVE FALSE
    BY DEF Survives
  <1>0. troubles \subseteq {"crossing"} /\ main # "killed"
    BY RunsOn DEF Survives
  <1>1. ASSUME NEW i \in DOMAIN listener, Listen(i) PROVE main' \in {main, "failed"}
    BY <1>1 DEF Listen, ListenTest, ListenSelect, ListenAccept, ListenBlocked, ListenTalk, ListenClose
  <1>2. ASSUME NEW i \in DOMAIN receiver, Receive(i) PROVE main' = main
    BY <1>2 DEF Receive, ReceiveLoad, ReceiveEnd, ReceiveNormal
  <1>3. CASE ReadAnswer
    <2>1. main \in {"connect", "list"} /\ answers # << >> /\ Running
      BY <1>3 DEF ReadAnswer, At
    <2>2. \E a \in {"nobody", "peer", "list"} : answers = <<a>> /\ (a = "list" <=> main = "list")
      BY <1>0, <2>1 DEF OneAsked
    <2>3. Head(answers) \in {"nobody", "peer", "list"} /\ (Head(answers) = "list" <=> main = "list")
      BY <2>2
    <2> QED BY <1>3, <2>1, <2>3 DEF ReadAnswer
  <1>4. CASE Say
    <2>1. StateOf(Mouth) \notin {"reset", "shut"}
      BY <1>0, <1>4 DEF Say, At, Writable
    <2> QED BY <1>4, <2>1 DEF Say, Mouth
  <1>5. CASE Main /\ ~ReadAnswer /\ ~Say
    BY <1>0, <1>5 DEF Main, WaitMode, WaitSocket, WaitThread, GiveUp, ConnectPeer, Dialed,
                      IntTalking, IntWaiting, IntNormal
  <1>6. CASE User
    BY <1>0, <1>6 DEF User, TypeWait, TypeText, TypeQuit, TypeRequest, Interrupt, Enter
  <1>7. CASE ServerAnswers \/ Peers \/ Pause
    BY <1>0, <1>7 DEF ServerAnswers, Peers, Call, PeerLeaves, ReceiveMessage, Pause, peerVars
  <1> QED BY <1>0, <1>1, <1>2, <1>3, <1>4, <1>5, <1>6, <1>7 DEF PeerNext

-----------------------------------------------------------------------------
(* CalmInv.                                                                *)

\* The sockets stay what they are while nothing is opened or shut.
LEMMA SocketsStay ==
  ASSUME UNCHANGED <<l_fd, talk_fd, listen_fd, fds, sock>>
  PROVE  /\ Ear' = Ear /\ Mouth' = Mouth /\ Door' = Door
         /\ StateOf(Ear)' = StateOf(Ear) /\ StateOf(Mouth)' = StateOf(Mouth)
         /\ StateOf(Door)' = StateOf(Door)
  BY DEF Ear, Mouth, Door, Socket, StateOf

\* A socket somebody waits at or talks over is there.
LEMMA Open ==
  ASSUME PeerTypes, NEW fd
  PROVE  /\ StateOf(Socket(fd)) # "none" <=> Socket(fd) # 0
         /\ Socket(fd) # 0 => /\ Socket(fd) \in DOMAIN sock /\ fd \in DOMAIN fds
                              /\ fds[fd] = Socket(fd)
                              /\ StateOf(Socket(fd)) = sock[Socket(fd)]
  <1>1. Socket(fd) # 0 => Socket(fd) \in DOMAIN sock
    BY SocketTypes
  <1>2. \A s \in DOMAIN sock : sock[s] # "none"
    BY Shapes DEF SockState
  <1> QED BY <1>1, <1>2 DEF StateOf, Socket

\* The listen threads that are not done, after a step of one.
LEMMA LiveListener ==
  ASSUME PeerTypes, NEW i \in DOMAIN listener, listener[i].pc # "done", NEW p, NEW s,
         ListenAt(i, p, s)
  PROVE  /\ i \in Live(listener)
         /\ Live(listener)' = IF p = "done" THEN Live(listener) \ {i} ELSE Live(listener)
  BY ListenerGoes DEF Live

\* The receive threads that are not done, after a step of one.
LEMMA LiveReceiver ==
  ASSUME PeerTypes, NEW i \in DOMAIN receiver, receiver[i].pc # "done", NEW p, NEW s,
         ReceiveAt(i, p, s)
  PROVE  /\ i \in Live(receiver)
         /\ Live(receiver)' = IF p = "done" THEN Live(receiver) \ {i} ELSE Live(receiver)
  BY ReceiverGoes DEF Live

\* The listen thread comes to select while main is back at the prompt.
LEMMA CalmTest ==
  ASSUME PeerTypes, Orderly, NEW i \in DOMAIN listener, ListenTest(i)
  PROVE  Orderly'
  <1>1. i \in Live(listener) /\ listener[i].pc = "test"
    BY DEF ListenTest, Thread, Live
  <1>2. main = "prompt" /\ Ear # 0 /\ my_state = "WAITING" /\ int = "none" /\ Live(receiver) = {}
        /\ Lurking(i) /\ Live(listener) = {i}
    BY <1>1 DEF Orderly, AtListen, Lurking, Early, Alone
  <1>3. ListenAt(i, "select", Ear) /\ main' = main
    BY <1>2 DEF ListenTest, Ear
  <1>4. UNCHANGED <<state, files, int, receiver>>
    BY DEF ListenTest
  <1>5. /\ Ear' = Ear /\ Mouth' = Mouth /\ Door' = Door
        /\ StateOf(Ear)' = StateOf(Ear) /\ StateOf(Mouth)' = StateOf(Mouth)
    BY <1>4, SocketsStay DEF state, files
  <1>6. /\ Live(listener)' = {i} /\ Live(receiver)' = {}
        /\ listener'[i].pc = "select" /\ listener'[i].on = Ear
    BY <1>1, <1>2, <1>3, <1>4, LiveListener, ListenerGoes DEF Live
  <1>7. AtWork' /\ Modes'
    BY <1>2, <1>3, <1>4, <1>6 DEF AtWork, Modes, Early, state
  <1>8. Callable'
    BY <1>2, <1>3, <1>4, <1>5, <1>6 DEF Callable, Orderly, files
  <1>9. AtListen(i)'
    BY <1>2, <1>3, <1>4, <1>5, <1>6 DEF AtListen, Lurking, Early, state, files
  <1> QED BY <1>6, <1>7, <1>8, <1>9 DEF Orderly, Alone

\* select returns for a call, or because ^C has shut the socket down.
LEMMA CalmSelect ==
  ASSUME PeerTypes, Orderly, NEW i \in DOMAIN listener, ListenSelect(i)
  PROVE  Orderly'
  <1>1. i \in Live(listener) /\ listener[i].pc = "select" /\ Readable(listener[i].on)
    BY DEF ListenSelect, Thread, Live
  <1>2. /\ main = "prompt" /\ Ear # 0 /\ Live(receiver) = {} /\ (Lurking(i) \/ Broken)
        /\ listener[i].on = Ear /\ Live(listener) = {i}
    BY <1>1 DEF Orderly, AtListen, Early, Alone
  <1>3. ListenAt(i, "accept", 0) /\ UNCHANGED <<state, files, main, int, receiver>>
    BY DEF ListenSelect
  <1>4. /\ Ear' = Ear /\ Mouth' = Mouth /\ Door' = Door
        /\ StateOf(Ear)' = StateOf(Ear) /\ StateOf(Mouth)' = StateOf(Mouth)
    BY <1>3, SocketsStay DEF state, files
  <1>5. Live(listener)' = {i} /\ Live(receiver)' = {} /\ listener'[i].pc = "accept"
    BY <1>1, <1>2, <1>3, LiveListener, ListenerGoes DEF Live
  <1>6. Lurking(i)' \/ Broken'
    <2>1. CASE Lurking(i)
      <3>1. calls[Ear] > 0
        <4>1. sock[Ear] = "listen"
          BY <1>2, <2>1, Open DEF Lurking, Ear
        <4> QED BY <1>1, <1>2, <4>1 DEF Readable
      <3> QED BY <1>3, <1>4, <1>5, <2>1, <3>1 DEF Lurking, state, files
    <2>2. CASE Broken
      BY <1>3, <1>4, <2>2 DEF Broken, state
    <2> QED BY <1>2, <2>1, <2>2
  <1>7. AtWork' /\ Modes'
    BY <1>2, <1>3, <1>5 DEF AtWork, Modes, Early, Orderly, state
  <1>8. Callable'
    BY <1>2, <1>3, <1>4, <1>5 DEF Callable, Orderly, files
  <1>9. AtListen(i)'
    BY <1>2, <1>3, <1>4, <1>5, <1>6 DEF AtListen, Early, state, files
  <1> QED BY <1>5, <1>7, <1>8, <1>9 DEF Orderly, Alone

\* accept takes the call, or fails on the socket that ^C has shut down.
LEMMA CalmAccept ==
  ASSUME PeerTypes, Orderly, NEW i \in DOMAIN listener, ListenAccept(i)
  PROVE  Orderly'
  <1>1. i \in Live(listener) /\ listener[i].pc = "accept"
    BY DEF ListenAccept, Thread, Live
  <1>2. /\ main = "prompt" /\ Ear # 0 /\ Live(receiver) = {} /\ (Lurking(i) \/ Broken)
        /\ Live(listener) = {i}
    BY <1>1 DEF Orderly, AtListen, Early, Alone
  <1>3. UNCHANGED <<my_state, l_fd, listen_fd, main, int, receiver>>
    BY DEF ListenAccept
  <1>4. /\ l_fd \in DOMAIN fds /\ fds[l_fd] # 0 /\ Ear \in DOMAIN sock /\ sock[Ear] = StateOf(Ear)
        /\ l_fd \in Nat
    BY <1>2, Open, Shapes DEF Ear
  <1>5. /\ InCall' \/ (talk_fd' = -1 /\ Broken')
        /\ Ear' = Ear /\ talk_fd' # l_fd /\ ListenAt(i, "talk", 0)
        /\ \A s \in DOMAIN sock' : sock'[s] = "listen" => s \in DOMAIN sock /\ sock[s] = "listen"
    <2>1. CASE Lurking(i)
      <3>1. sock[Ear] = "listen" /\ calls[Ear] > 0 /\ my_state = "WAITING" /\ int = "none"
        BY <1>1, <1>4, <2>1 DEF Lurking
      <3>2. Take(Ear) /\ ListenAt(i, "talk", 0)
        BY <1>4, <3>1, Shapes DEF ListenAccept, Ear
      <3>3. talk_fd' = FreeFd /\ "talk" \in SockState
        BY <3>2 DEF Take, SockState
      <3>4. /\ [calls EXCEPT ![Ear] = @ - 1] \in Seq(0 .. 2)
            /\ Len([calls EXCEPT ![Ear] = @ - 1]) = Len(sock)
            /\ Create("talk", [calls EXCEPT ![Ear] = @ - 1])
        BY <1>4, <3>1, <3>2, TakeTypes
      <3>5. FreeFd # l_fd
        BY <1>4, LowestFree
      <3>6. Mouth' # 0 /\ sock'[Mouth'] = "talk"
        BY <3>3, <3>4, MouthCreate
      <3>7. Ear' = Ear
        BY <1>3, <3>3, <3>4, <3>5, AfterCreate DEF Ear, Socket
      <3>8. StateOf(Mouth)' = "talk"
        BY <3>6 DEF StateOf
      <3>9. \A s \in DOMAIN sock' : sock'[s] = "listen" => s \in DOMAIN sock /\ sock[s] = "listen"
        BY <3>3, <3>4, AfterCreate
      <3> QED BY <1>3, <3>1, <3>2, <3>3, <3>5, <3>7, <3>8, <3>9 DEF InCall
    <2>2. CASE Broken
      <3>1. StateOf(Ear) # "listen"
        BY <2>2 DEF Broken
      <3>2. talk_fd' = -1 /\ ListenAt(i, "talk", 0) /\ UNCHANGED files
        BY <3>1 DEF ListenAccept, Ear
      <3>3. Ear' = Ear /\ StateOf(Ear)' = StateOf(Ear)
        BY <1>3, <3>2 DEF Ear, Socket, StateOf, files
      <3> QED BY <1>3, <1>4, <2>2, <3>2, <3>3 DEF Broken, files
    <2> QED BY <1>2, <2>1, <2>2
  <1>6. Live(listener)' = {i} /\ Live(receiver)' = {} /\ listener'[i].pc = "talk"
    BY <1>1, <1>2, <1>3, <1>5, LiveListener, ListenerGoes DEF Live
  <1>7. AtWork' /\ Modes'
    BY <1>2, <1>3, <1>6 DEF AtWork, Modes, Early, Orderly
  <1>8. Callable'
    BY <1>2, <1>3, <1>5, <1>6 DEF Callable, Orderly
  <1>9. AtListen(i)'
    BY <1>2, <1>3, <1>5, <1>6 DEF AtListen, Early
  <1> QED BY <1>6, <1>7, <1>8, <1>9 DEF Orderly, Alone

\* The talk begins: the receive thread is the first one.
LEMMA CalmTalk ==
  ASSUME PeerTypes, Orderly, NEW i \in DOMAIN listener, ListenTalk(i)
  PROVE  Orderly'
  <1>1. i \in Live(listener) /\ listener[i].pc = "talk"
    BY DEF ListenTalk, Thread, Live
  <1>2. /\ main = "prompt" /\ Ear # 0 /\ Live(receiver) = {}
        /\ InCall \/ (talk_fd = -1 /\ Broken)
        /\ talk_fd # l_fd /\ Live(listener) = {i}
    BY <1>1 DEF Orderly, AtListen, Early, Alone
  <1>3. /\ ListenAt(i, "close", 0) /\ create_receive_thread
        /\ UNCHANGED <<l_fd, talk_fd, listen_fd, files, main, int>>
    BY DEF ListenTalk
  <1>4. Ear' = Ear /\ Mouth' = Mouth /\ StateOf(Mouth)' = StateOf(Mouth)
    BY <1>3, SocketsStay DEF files
  <1>0. PICK k : k = Len(receiver) + 1
    OBVIOUS
  <1>5. Live(listener)' = {i} /\ listener'[i].pc = "close"
    BY <1>1, <1>2, <1>3, LiveListener, ListenerGoes
  <1>6. Live(receiver)' = {k} /\ receiver'[k].pc = "load" /\ my_state' = "TALKING"
    <2>1. DOMAIN receiver' = DOMAIN receiver \cup {k} /\ receiver'[k].pc = "load"
          /\ my_state' = "TALKING" /\ \A j \in DOMAIN receiver : receiver'[j] = receiver[j]
      BY <1>0, <1>3, ReceiverStarts
    <2> QED BY <1>2, <2>1 DEF Live
  <1>7. StateOf(Mouth) = "talk" => int = "none"
    <2>1. CASE talk_fd = -1
      <3>1. talk_fd \notin DOMAIN fds
        BY <2>1, Shapes
      <3> QED BY <3>1 DEF Mouth, Socket, StateOf
    <2>2. CASE InCall
      BY <2>2 DEF InCall
    <2> QED BY <1>2, <2>1, <2>2
  <1>8. AtWork' /\ Modes'
    BY <1>2, <1>3, <1>5, <1>6 DEF AtWork, Modes, Orderly
  <1>9. Callable'
    BY <1>2, <1>3, <1>4, <1>5 DEF Callable, Orderly, files
  <1>10. AtListen(i)'
    BY <1>2, <1>3, <1>4, <1>5 DEF AtListen, Early
  <1>11. AtReceive(k)'
    BY <1>2, <1>3, <1>4, <1>6, <1>7 DEF AtReceive
  <1> QED BY <1>5, <1>6, <1>8, <1>9, <1>10, <1>11 DEF Orderly, Alone

\* The listening socket is closed, which is not the one the user writes to.
LEMMA CalmClose ==
  ASSUME PeerTypes, Distinct, Orderly, NEW i \in DOMAIN listener, ListenClose(i)
  PROVE  Orderly'
  <1>1. i \in Live(listener) /\ listener[i].pc = "close"
    BY DEF ListenClose, Thread, Live
  <1>2. main = "prompt" /\ Ear # 0 /\ talk_fd # l_fd /\ Live(listener) = {i} /\ my_state # "WAITING"
    BY <1>1 DEF Orderly, AtListen, Early, Alone, Modes
  <1>3. ListenAt(i, "done", 0) /\ UNCHANGED <<state, main, int, receiver>>
    BY DEF ListenClose
  <1>4. fds' = [fds EXCEPT ![l_fd] = 0] /\ Shut(Ear)
    <2>1. ~\E k \in DOMAIN listener : listener[k].pc \in {"select", "blocked"}
      BY <1>1, <1>2 DEF Live
    <2> QED BY <1>2, <2>1 DEF ListenClose, Ear
  <1>5. Ear \in DOMAIN sock
    BY <1>2, Open DEF Ear
  <1>6. /\ DOMAIN sock' = DOMAIN sock /\ sock'[Ear] = "shut"
        /\ \A s \in DOMAIN sock \ {Ear} : sock'[s] = sock[s]
    BY <1>4, <1>5, ShutTypes, Shapes
  <1>7. Mouth' = Mouth /\ StateOf(Mouth)' = StateOf(Mouth)
    <2>1. Mouth' = Mouth
      BY <1>2, <1>3, AfterClose DEF Mouth, Socket, state
    <2>2. Mouth # 0 => Mouth # Ear /\ Mouth \in DOMAIN sock
      BY <1>2, MouthTypes DEF Mouth, Ear, Socket, Distinct
    <2> QED BY <1>6, <2>1, <2>2 DEF StateOf
  <1>8. Live(listener)' = {} /\ Live(receiver)' = Live(receiver)
    BY <1>1, <1>2, <1>3, LiveListener DEF Live
  <1>9. AtWork' /\ Modes'
    BY <1>2, <1>3, <1>8 DEF AtWork, Modes, Orderly, state
  <1>10. Callable'
    BY <1>2, <1>6 DEF Callable, Orderly
  <1>11. ASSUME NEW j \in Live(receiver) PROVE AtReceive(j)'
    BY <1>2, <1>3, <1>7, <1>11 DEF AtReceive, Orderly, state
  <1> QED BY <1>8, <1>9, <1>10, <1>11 DEF Orderly, Alone

\* A receive thread ends a talk only, as every listen thread is past it.
LEMMA CalmReceive ==
  ASSUME PeerTypes, Orderly, NEW i \in DOMAIN receiver, Receive(i) \/ ReceiveMessage(i)
  PROVE  Orderly'
  <1>1. /\ i \in Live(receiver)
        /\ UNCHANGED <<l_fd, talk_fd, listen_fd, files, main, int, listener>>
    BY DEF Receive, ReceiveLoad, ReceiveMessage, ReceiveEnd, ReceiveNormal, Thread, Live, state
  <1>2. /\ Ear' = Ear /\ Mouth' = Mouth /\ Door' = Door
        /\ StateOf(Ear)' = StateOf(Ear) /\ StateOf(Mouth)' = StateOf(Mouth)
        /\ StateOf(Door)' = StateOf(Door)
    BY <1>1, SocketsStay DEF files
  <1>3. /\ Live(receiver) = {i} /\ main \in {"prompt", "say"} /\ AtReceive(i)
        /\ Live(listener)' = Live(listener) /\ i \in DOMAIN receiver
    BY <1>1 DEF Orderly, AtReceive, Alone, Live
  <1>4. \A j \in Live(listener) : listener[j].pc = "close"
    BY <1>3 DEF Orderly, AtListen
  <1>5. Callable'
    BY <1>1, <1>2, <1>3 DEF Callable, Orderly, files
  <1>6. \A j \in Live(listener) : AtListen(j)'
    <2> SUFFICES ASSUME NEW j \in Live(listener) PROVE AtListen(j)'
      OBVIOUS
    <2> QED BY <1>1, <1>2, <1>3, <1>4 DEF AtListen, Early, Orderly
  <1>7. AtWork'
    BY <1>1, <1>3 DEF AtWork, Orderly
  <1>8. CASE ReceiveNormal(i)
    <2>1. ReceiveAt(i, "done", 0) /\ my_state' = "NORMAL" /\ receiver[i].pc = "end"
      BY <1>8 DEF ReceiveNormal, Thread
    <2>2. Live(receiver)' = {}
      BY <1>3, <2>1, LiveReceiver
    <2> QED BY <1>3, <1>5, <1>6, <1>7, <2>1, <2>2 DEF Orderly, Modes, Alone
  <1>9. CASE ReceiveLoad(i) \/ ReceiveEnd(i) \/ ReceiveMessage(i)
    <2>1. my_state' = my_state
      BY <1>9 DEF ReceiveLoad, ReceiveEnd, ReceiveMessage, state
    <2>2. \/ ReceiveAt(i, "read", Mouth) /\ receiver[i].pc = "load"
          \/ ReceiveAt(i, "load", 0) /\ receiver[i].pc = "read"
          \/ ReceiveAt(i, "end", 0) /\ receiver[i].pc = "read"
      BY <1>9 DEF ReceiveLoad, ReceiveEnd, ReceiveMessage, Thread, Mouth
    <2>3. Live(receiver)' = {i}
      BY <1>3, <2>2, LiveReceiver
    <2>4. AtReceive(i)'
      BY <1>1, <1>2, <1>3, <2>1, <2>2, ReceiverGoes DEF AtReceive
    <2>5. Modes'
      BY <1>1, <1>3, <1>4, <2>1, <2>3 DEF Modes, Orderly, Early
    <2> QED BY <1>3, <1>5, <1>6, <1>7, <2>3, <2>4, <2>5 DEF Orderly, Alone
  <1> QED BY <1>8, <1>9 DEF Receive

\* What is at rest in a calm client is where the mode says.
LEMMA RestAgrees ==
  ASSUME PeerTypes, Orderly, Settled
  PROVE  /\ Agrees
         /\ \A i \in Live(listener) : /\ my_state = "WAITING" /\ listener[i].pc = "select"
                                      /\ StateOf(Ear) = "listen" /\ calls[Ear] = 0
         /\ \A i \in Live(receiver) : my_state = "TALKING"
  <1>1. main = "prompt" /\ int = "none"
    BY DEF Settled
  <1>2. ASSUME NEW i \in Live(listener)
        PROVE  /\ my_state = "WAITING" /\ listener[i].pc = "select" /\ listener[i].on = Ear
               /\ StateOf(Ear) = "listen" /\ calls[Ear] = 0 /\ Live(receiver) = {}
    <2>1. AtListen(i) /\ Resting(listener[i]) /\ listener[i].pc # "done"
      BY DEF Orderly, Settled, Live
    <2>2. listener[i].pc = "select" /\ ~Readable(listener[i].on)
      BY <2>1 DEF Resting, AtListen, Early
    <2>3. listener[i].on = Ear /\ Ear # 0 /\ Live(receiver) = {} /\ (Lurking(i) \/ Broken)
      BY <2>1, <2>2 DEF AtListen, Early
    <2>4. Ear \in DOMAIN sock /\ StateOf(Ear) = sock[Ear] /\ calls[Ear] \in 0 .. 2
      BY <2>3, Open, Shapes DEF Ear
    <2>5. sock[Ear] = "listen" /\ calls[Ear] = 0
      BY <2>2, <2>3, <2>4 DEF Readable
    <2>6. my_state = "WAITING"
      BY <2>3, <2>4, <2>5 DEF Lurking, Broken
    <2> QED BY <2>2, <2>3, <2>4, <2>5, <2>6
  <1>3. ASSUME NEW i \in Live(receiver)
        PROVE  my_state = "TALKING" /\ receiver[i].on = Mouth
    <2>1. AtReceive(i) /\ receiver[i].pc = "read" /\ StateOf(receiver[i].on) = "talk"
      BY DEF Orderly, Settled, Live
    <2> QED BY <2>1 DEF AtReceive
  <1>4. CASE my_state = "WAITING"
    <2>1. PICK i \in Live(listener) : TRUE
      BY <1>1, <1>4 DEF Orderly, Modes
    <2>2. Live(listener) = {i} /\ i \in DOMAIN listener /\ listener[i].on = Ear
          /\ Live(receiver) = {}
      BY <1>2, <2>1 DEF Orderly, Alone, Live
    <2>3. \A s \in DOMAIN sock : sock[s] = "listen" => s = Ear
      BY <1>1 DEF Orderly, Callable
    <2> QED BY <1>2, <1>3, <1>4, <2>2, <2>3 DEF Agrees, Ear
  <1>5. CASE my_state = "TALKING"
    <2>1. PICK i \in Live(receiver) : TRUE
      BY <1>5 DEF Orderly, Modes
    <2>2. Live(receiver) = {i} /\ i \in DOMAIN receiver /\ receiver[i].on = Mouth
          /\ Live(listener) = {}
      BY <1>2, <1>3, <1>5, <2>1 DEF Orderly, Alone, Live
    <2>3. \A s \in DOMAIN sock : sock[s] # "listen"
      BY <1>1, <2>2 DEF Orderly, Callable
    <2> QED BY <1>2, <1>3, <1>5, <2>2, <2>3 DEF Agrees, Mouth
  <1>6. CASE my_state = "NORMAL"
    <2>1. Live(listener) = {} /\ Live(receiver) = {}
      BY <1>2, <1>3, <1>6
    <2>2. \A s \in DOMAIN sock : sock[s] # "listen"
      BY <1>1, <2>1 DEF Orderly, Callable
    <2> QED BY <1>6, <2>1, <2>2 DEF Agrees
  <1>7. my_state \in {"NORMAL", "WAITING", "TALKING"}
    BY DEF PeerTypes
  <1>8. Agrees
    BY <1>4, <1>5, <1>6, <1>7
  <1> QED BY <1>2, <1>3, <1>8

\* A step of main alone, from a place with no thread to one.
LEMMA CalmPlain ==
  ASSUME Orderly, UNCHANGED <<state, files, threads>>, int' = "none",
         Live(listener) = {}, main \notin {"socket", "thread"},
         \/ Live(receiver) = {} /\ my_state = "NORMAL" /\ main' \notin {"socket", "thread"}
         \/ main' \in {"prompt", "say"}
  PROVE  Orderly'
  <1>1. /\ Ear' = Ear /\ Mouth' = Mouth /\ Door' = Door
        /\ StateOf(Ear)' = StateOf(Ear) /\ StateOf(Mouth)' = StateOf(Mouth)
    BY SocketsStay DEF state, files
  <1>2. Live(listener)' = {} /\ Live(receiver)' = Live(receiver)
    BY DEF Live, threads
  <1>3. AtWork'
    BY <1>2 DEF AtWork, state
  <1>4. Callable'
    BY DEF Callable, Orderly, files
  <1>5. \A j \in Live(receiver) : AtReceive(j)'
    <2> SUFFICES ASSUME NEW j \in Live(receiver) PROVE AtReceive(j)'
      OBVIOUS
    <2> QED BY <1>1 DEF AtReceive, Orderly, state, threads
  <1> QED BY <1>2, <1>3, <1>4, <1>5 DEF Orderly, Modes, Alone, state

\* An input finds all at rest.
LEMMA CalmUser ==
  ASSUME PeerTypes, Orderly, Calm, User, Running'
  PROVE  Orderly'
  <1>1. Settled
    BY Patient DEF Calm, User, TypeWait, TypeText, TypeQuit, TypeRequest, Interrupt, Enter
  <1>2. main = "prompt" /\ int = "none" /\ UNCHANGED <<state, files, threads>>
    BY <1>1 DEF User, TypeWait, TypeText, TypeQuit, TypeRequest, Interrupt, Settled
  <1>3. /\ my_state = "TALKING" => Live(listener) = {}
        /\ my_state = "NORMAL" => Live(listener) = {} /\ Live(receiver) = {}
    BY <1>1, RestAgrees DEF Agrees
  <1>4. CASE TypeWait \/ \E r \in {"connect", "list"} : TypeRequest(r)
    <2>1. my_state = "NORMAL" /\ main' \in {"wait", "connect", "list"} /\ int' = int
      BY <1>4 DEF TypeWait, TypeRequest, Enter
    <2> QED BY <1>2, <1>3, <2>1, CalmPlain
  <1>5. CASE TypeText
    <2>1. my_state = "TALKING" /\ main' = "say" /\ int' = int
      BY <1>5 DEF TypeText, Enter
    <2> QED BY <1>2, <1>3, <2>1, CalmPlain
  <1>6. CASE TypeQuit
    BY <1>6 DEF TypeQuit, Enter, Running
  <1>7. CASE Interrupt
    <2>1. int' = "talking" /\ main' = "prompt"
      BY <1>2, <1>7 DEF Interrupt
    <2>2. /\ Ear' = Ear /\ Mouth' = Mouth /\ Door' = Door
          /\ StateOf(Ear)' = StateOf(Ear) /\ StateOf(Mouth)' = StateOf(Mouth)
      BY <1>2, SocketsStay DEF state, files
    <2>3. Live(listener)' = Live(listener) /\ Live(receiver)' = Live(receiver)
      BY <1>2 DEF Live, threads
    <2>4. AtWork' /\ Modes' /\ Callable'
      BY <1>2, <2>1, <2>2, <2>3 DEF AtWork, Modes, Callable, Orderly, state, files, threads
    <2>5. ASSUME NEW i \in Live(listener) PROVE AtListen(i)'
      <3>1. /\ my_state = "WAITING" /\ listener[i].pc = "select"
            /\ StateOf(Ear) = "listen" /\ calls[Ear] = 0 /\ AtListen(i)
        BY <1>1, RestAgrees DEF Orderly
      <3> QED BY <1>2, <2>1, <2>2, <2>3, <3>1 DEF AtListen, Lurking, Early, state, files, threads
    <2>6. ASSUME NEW i \in Live(receiver) PROVE AtReceive(i)'
      <3>1. my_state = "TALKING" /\ AtReceive(i)
        BY <1>1, RestAgrees DEF Orderly
      <3> QED BY <1>2, <2>1, <2>2, <3>1 DEF AtReceive, state, threads
    <2> QED BY <2>3, <2>4, <2>5, <2>6 DEF Orderly, Alone
  <1> QED BY <1>4, <1>5, <1>6, <1>7 DEF User

\* The sockets while no thread waits at one.
LEMMA NoneListening ==
  ASSUME Orderly, Live(listener) = {}, main # "thread"
  PROVE  \A s \in DOMAIN sock : sock[s] # "listen"
  BY DEF Orderly, Callable

\* /wait, from NORMAL with no thread to WAITING with one.
LEMMA CalmWait ==
  ASSUME PeerTypes, Orderly, WaitMode \/ WaitSocket \/ WaitThread
  PROVE  Orderly'
  <1>1. /\ main \in {"wait", "socket", "thread"} /\ int = "none" /\ int' = int
        /\ receiver' = receiver
    BY DEF WaitMode, WaitSocket, WaitThread, At, threads
  <1>2. /\ Live(listener) = {} /\ Live(receiver) = {} /\ Live(receiver)' = {}
        /\ main \in {"socket", "thread"} => my_state = "WAITING"
    BY <1>1 DEF Orderly, AtWork, Live
  <1>3. CASE WaitMode
    <2>1. /\ my_state' = "WAITING" /\ main' = "socket" /\ main = "wait"
          /\ UNCHANGED <<l_fd, talk_fd, listen_fd, files, threads>>
      BY <1>3 DEF WaitMode, At
    <2>2. Live(listener)' = {}
      BY <1>2, <2>1 DEF Live, threads
    <2>3. Callable'
      BY <1>2, <2>1, NoneListening DEF Callable, files
    <2> QED BY <1>1, <1>2, <2>1, <2>2, <2>3 DEF Orderly, AtWork, Modes, Alone
  <1>4. CASE WaitSocket
    <2>1. /\ Create("listen", calls) /\ listen_fd' = FreeFd /\ main = "socket" /\ main' = "thread"
          /\ UNCHANGED <<my_state, l_fd, talk_fd, threads>>
      BY <1>4 DEF WaitSocket, At
    <2>2. "listen" \in SockState /\ calls \in Seq(0 .. 2) /\ Len(calls) = Len(sock)
      BY DEF PeerTypes, SockState
    <2>3. Door' = Len(sock) + 1 /\ Len(sock) + 1 # 0
      BY <2>1, <2>2, AfterCreate DEF Door, Socket
    <2>4. /\ DOMAIN sock' = DOMAIN sock \cup {Len(sock) + 1} /\ sock'[Len(sock) + 1] = "listen"
          /\ \A s \in DOMAIN sock : sock'[s] = sock[s]
      BY <2>1, <2>2, AfterCreate
    <2>5. Callable'
      BY <1>2, <2>1, <2>3, <2>4, NoneListening DEF Callable
    <2>6. StateOf(Door)' = "listen"
      BY <2>3, <2>4 DEF StateOf
    <2>7. Live(listener)' = {}
      BY <1>2, <2>1 DEF Live, threads
    <2> QED BY <1>1, <1>2, <2>1, <2>5, <2>6, <2>7 DEF Orderly, AtWork, Modes, Alone
  <1>5. CASE WaitThread
    <2>1. /\ l_fd' = listen_fd /\ main = "thread" /\ main' = "prompt"
          /\ UNCHANGED <<my_state, talk_fd, listen_fd, files>>
      BY <1>5 DEF WaitThread, At
    <2>2. PICK k : k = Len(listener) + 1
      OBVIOUS
    <2>3. Live(listener)' = {k} /\ listener'[k].pc = "test"
      <3>1. /\ DOMAIN listener' = DOMAIN listener \cup {k} /\ listener'[k].pc = "test"
            /\ \A j \in DOMAIN listener : listener'[j] = listener[j]
        BY <1>5, <2>2, ListenerStarts
      <3> QED BY <1>2, <3>1 DEF Live
    <2>4. StateOf(Door) = "listen"
      BY <2>1 DEF Orderly, AtWork
    <2>5. Ear' = Door /\ StateOf(Ear)' = "listen" /\ Door # 0
      BY <2>1, <2>4 DEF Ear, Door, Socket, StateOf, files
    <2>6. Callable'
      BY <1>2, <2>1, <2>3, <2>5 DEF Callable, Orderly, files
    <2>7. AtListen(k)'
      BY <1>1, <1>2, <2>1, <2>3, <2>5 DEF AtListen, Lurking, Early
    <2> QED BY <1>2, <2>1, <2>3, <2>6, <2>7 DEF Orderly, AtWork, Modes, Alone, Early
  <1> QED BY <1>3, <1>4, <1>5

\* /connect and /list, with no thread before the talk.
LEMMA CalmConnect ==
  ASSUME PeerTypes, Orderly, Running', ReadAnswer \/ GiveUp \/ ConnectPeer \/ Dialed
  PROVE  Orderly'
  <1>1. /\ main \in {"connect", "list", "dial", "dialing"} /\ int = "none" /\ int' = int
        /\ listener' = listener
    BY DEF ReadAnswer, GiveUp, ConnectPeer, Dialed, At, threads
  <1>2. Live(listener) = {} /\ Live(receiver) = {} /\ my_state = "NORMAL" /\ Live(listener)' = {}
    BY <1>1 DEF Orderly, AtWork, Live
  <1>3. \A s \in DOMAIN sock : sock[s] # "listen"
    BY <1>1, <1>2, NoneListening
  <1>4. CASE ReadAnswer \/ GiveUp
    <2>1. UNCHANGED <<state, files, threads>>
      BY <1>4 DEF ReadAnswer, GiveUp
    <2>2. main' \notin {"socket", "thread"}
      <3>1. CASE GiveUp
        BY <3>1 DEF GiveUp
      <3>2. CASE ReadAnswer
        <4>1. Head(answers) \in {"nobody", "peer", "list"}
          BY <3>2, DropFirst DEF ReadAnswer, PeerTypes
        <4> QED BY <3>2, <4>1 DEF ReadAnswer
      <3> QED BY <1>4, <3>1, <3>2
    <2> QED BY <1>1, <1>2, <2>1, <2>2, CalmPlain
  <1>5. CASE ConnectPeer
    <2>1. /\ Create("dialing", calls) /\ main' = "dialing"
          /\ UNCHANGED <<my_state, l_fd, listen_fd, threads>>
      BY <1>5 DEF ConnectPeer
    <2>2. "dialing" \in SockState /\ calls \in Seq(0 .. 2) /\ Len(calls) = Len(sock)
      BY DEF PeerTypes, SockState
    <2>3. Callable'
      BY <1>3, <2>1, <2>2, AfterCreate DEF Callable
    <2>4. Live(receiver)' = {}
      BY <1>2, <2>1 DEF Live, threads
    <2> QED BY <1>1, <1>2, <2>1, <2>3, <2>4 DEF Orderly, AtWork, Modes, Alone
  <1>6. CASE Dialed
    <2>1. /\ create_receive_thread /\ main' = "prompt"
          /\ sock' = [s \in DOMAIN sock |-> IF sock[s] = "dialing" THEN "talk" ELSE sock[s]]
      BY <1>6 DEF Dialed, Running
    <2>2. PICK k : k = Len(receiver) + 1
      OBVIOUS
    <2>3. Live(receiver)' = {k} /\ receiver'[k].pc = "load" /\ my_state' = "TALKING"
      <3>1. /\ DOMAIN receiver' = DOMAIN receiver \cup {k} /\ receiver'[k].pc = "load"
            /\ my_state' = "TALKING" /\ \A j \in DOMAIN receiver : receiver'[j] = receiver[j]
        BY <2>1, <2>2, ReceiverStarts
      <3> QED BY <1>2, <3>1 DEF Live
    <2>4. Callable'
      BY <1>3, <2>1 DEF Callable
    <2>5. AtReceive(k)'
      BY <1>1, <2>1, <2>3 DEF AtReceive
    <2> QED BY <1>2, <2>1, <2>3, <2>4, <2>5 DEF Orderly, AtWork, Modes, Alone
  <1> QED BY <1>4, <1>5, <1>6

\* A text to a peer that is there or has left.
LEMMA CalmSay ==
  ASSUME PeerTypes, Orderly, Running', Say
  PROVE  Orderly'
  <1>1. /\ main = "say" /\ main' = "prompt" /\ int' = int /\ int = "none" /\ Live(listener) = {}
        /\ UNCHANGED <<state, fds, calls, threads>>
        /\ sock' = IF StateOf(Mouth) = "left" THEN [sock EXCEPT ![Mouth] = "reset"] ELSE sock
    BY DEF Say, At, Orderly, AtWork, Running, Mouth
  <1>2. Mouth' = Mouth
    BY <1>1, MouthStays DEF state
  <1>3. StateOf(Mouth)' = "talk" => StateOf(Mouth) = "talk"
    <2>1. CASE StateOf(Mouth) = "left"
      <3>1. Mouth \in DOMAIN sock /\ Mouth # 0
        BY <2>1, Open DEF Mouth, StateOf
      <3>2. sock'[Mouth] = "reset"
        BY <1>1, <2>1, <3>1
      <3> QED BY <1>2, <3>1, <3>2 DEF StateOf
    <2>2. CASE StateOf(Mouth) # "left"
      BY <1>1, <1>2, <2>2 DEF StateOf
    <2> QED BY <2>1, <2>2
  <1>4. Live(listener)' = {} /\ Live(receiver)' = Live(receiver)
    BY <1>1 DEF Live, threads
  <1>5. Callable'
    <2>1. \A s \in DOMAIN sock' : s \in DOMAIN sock /\ (sock'[s] = "listen" => sock[s] = "listen")
      BY <1>1
    <2> QED BY <1>1, <2>1, NoneListening DEF Callable
  <1>6. ASSUME NEW j \in Live(receiver) PROVE AtReceive(j)'
    BY <1>1, <1>2, <1>3, <1>6 DEF AtReceive, Orderly, state, threads
  <1> QED BY <1>1, <1>4, <1>5, <1>6 DEF Orderly, AtWork, Modes, Alone, state

\* What shutdown does to the sockets of a client.
LEMMA AfterShut ==
  ASSUME PeerTypes, NEW fd, Shut(Socket(fd)), UNCHANGED <<l_fd, talk_fd, listen_fd, fds>>
  PROVE  /\ Ear' = Ear /\ Mouth' = Mouth /\ Door' = Door
         /\ \A s \in DOMAIN sock' : s \in DOMAIN sock /\ (sock'[s] = "listen" => sock[s] = "listen")
         /\ StateOf(Ear)' \in {"shut", StateOf(Ear)} /\ StateOf(Mouth)' \in {"shut", StateOf(Mouth)}
         /\ fd = l_fd /\ Ear # 0 => StateOf(Ear)' = "shut"
         /\ fd = talk_fd /\ Mouth # 0 => StateOf(Mouth)' = "shut"
  <1>1. /\ DOMAIN sock' = DOMAIN sock
        /\ \A r \in DOMAIN sock : /\ r # Socket(fd) => sock'[r] = sock[r]
                                  /\ r = Socket(fd) => sock'[r] = "shut"
    BY ShutTypes, SocketTypes
  <1>2. Ear' = Ear /\ Mouth' = Mouth /\ Door' = Door
    BY DEF Ear, Mouth, Door, Socket
  <1>3. \A s \in {Ear, Mouth} : s = 0 \/ s \in DOMAIN sock
    BY SocketTypes DEF Ear, Mouth
  <1>4. StateOf(Ear)' \in {"shut", StateOf(Ear)} /\ StateOf(Mouth)' \in {"shut", StateOf(Mouth)}
    BY <1>1, <1>2, <1>3 DEF StateOf
  <1>5. fd = l_fd /\ Ear # 0 => StateOf(Ear)' = "shut"
    BY <1>1, <1>2, <1>3 DEF StateOf, Ear
  <1>6. fd = talk_fd /\ Mouth # 0 => StateOf(Mouth)' = "shut"
    BY <1>1, <1>2, <1>3 DEF StateOf, Mouth
  <1> QED BY <1>1, <1>2, <1>4, <1>5, <1>6

\* The handler of ^C.
LEMMA CalmInterrupt ==
  ASSUME PeerTypes, Orderly, Running, IntTalking \/ IntWaiting \/ IntNormal
  PROVE  Orderly'
  <1>1. /\ int \in {"talking", "waiting", "normal"} /\ main' = main
        /\ UNCHANGED <<l_fd, talk_fd, listen_fd, fds, threads>>
    BY DEF IntTalking, IntWaiting, IntNormal, state, files
  <1>2. main = "prompt"
    BY <1>1 DEF Orderly, AtWork, Running, PeerTypes
  <1>3. Live(listener)' = Live(listener) /\ Live(receiver)' = Live(receiver)
    BY <1>1 DEF Live, threads
  <1>4. /\ Ear' = Ear /\ Mouth' = Mouth /\ Door' = Door
        /\ \A s \in DOMAIN sock' : s \in DOMAIN sock /\ (sock'[s] = "listen" => sock[s] = "listen")
        /\ StateOf(Ear)' \in {"shut", StateOf(Ear)} /\ StateOf(Mouth)' \in {"shut", StateOf(Mouth)}
    <2>1. (\E fd \in {talk_fd, l_fd} : Shut(Socket(fd))) \/ UNCHANGED <<sock, calls>>
      BY DEF IntTalking, IntWaiting, IntNormal, files
    <2>2. CASE UNCHANGED sock
      BY <1>1, <2>2, SocketsStay
    <2> QED BY <1>1, <2>1, <2>2, AfterShut
  <1>5. Callable' /\ AtWork'
    <2>1. Callable'
      BY <1>1, <1>2, <1>3, <1>4 DEF Callable, Orderly
    <2> QED BY <1>1, <1>2, <2>1 DEF AtWork
  <1>6. Modes'
    <2>1. my_state' \in {my_state, "NORMAL"}
      BY DEF IntTalking, IntWaiting, IntNormal, state
    <2> QED BY <1>1, <1>3, <2>1 DEF Modes, Orderly, threads
  <1>7. ASSUME NEW i \in Live(listener) PROVE AtListen(i)'
    <2>1. AtListen(i) /\ UNCHANGED <<listener, talk_fd, l_fd>>
      BY <1>1 DEF Orderly, threads
    <2>2. Broken => Broken'
      <3>1. CASE IntTalking
        BY <1>4, <3>1 DEF Broken, IntTalking, state
      <3>2. CASE IntWaiting
        BY <1>4, <3>2 DEF Broken, IntWaiting, state
      <3>3. CASE IntNormal
        BY <1>4, <3>3 DEF Broken, IntNormal
      <3> QED BY <3>1, <3>2, <3>3
    <2>3. listener[i].pc # "test" /\ ~InCall
      BY <1>1, <2>1 DEF AtListen, InCall, Lurking
    <2>4. Lurking(i) => (Lurking(i)' /\ listener[i].pc = "select") \/ Broken'
      <3>1. SUFFICES ASSUME Lurking(i) PROVE (Lurking(i)' /\ listener[i].pc = "select") \/ Broken'
        OBVIOUS
      <3>2. /\ int \in {"talking", "waiting"} /\ listener[i].pc = "select" /\ calls[Ear] = 0
            /\ my_state = "WAITING" /\ StateOf(Ear) = "listen"
        BY <1>1, <3>1 DEF Lurking
      <3>3. CASE IntTalking
        <4>1. int' = "waiting" /\ UNCHANGED <<my_state, sock, calls>>
          BY <3>2, <3>3 DEF IntTalking, state
        <4>2. StateOf(Ear)' = StateOf(Ear)
          BY <1>1, <4>1, SocketsStay
        <4> QED BY <1>4, <2>1, <3>2, <4>1, <4>2 DEF Lurking
      <3>4. CASE IntWaiting
        <4>1. int' = "normal" /\ my_state' = my_state /\ Shut(Socket(l_fd))
          BY <3>2, <3>4 DEF IntWaiting, state
        <4>2. StateOf(Ear)' = "shut"
          BY <1>1, <2>1, <4>1, AfterShut DEF AtListen
        <4> QED BY <4>1, <4>2 DEF Broken
      <3>5. CASE IntNormal
        BY <3>2, <3>5 DEF IntNormal
      <3> QED BY <3>3, <3>4, <3>5
    <2> QED BY <1>1, <1>3, <1>4, <2>1, <2>2, <2>3, <2>4 DEF AtListen, Early
  <1>8. ASSUME NEW i \in Live(receiver) PROVE AtReceive(i)'
    <2>1. AtReceive(i) /\ UNCHANGED receiver
      BY <1>1 DEF Orderly, threads
    <2>2. receiver[i].pc \in {"load", "read"} => StateOf(Mouth)' # "talk"
      <3>1. SUFFICES ASSUME receiver[i].pc \in {"load", "read"}, StateOf(Mouth)' = "talk"
                     PROVE  FALSE
        OBVIOUS
      <3>2. StateOf(Mouth) = "talk"
        BY <1>4, <3>1
      <3>3. my_state = "TALKING" /\ int = "talking"
        BY <1>1, <2>1, <3>1, <3>2 DEF AtReceive
      <3>4. Shut(Socket(talk_fd))
        BY <3>3 DEF IntTalking, IntWaiting, IntNormal
      <3>5. Mouth # 0
        BY <3>2 DEF StateOf
      <3> QED BY <1>1, <3>1, <3>4, <3>5, AfterShut
    <2> QED BY <1>1, <1>2, <1>4, <2>1, <2>2 DEF AtReceive
  <1> QED BY <1>3, <1>5, <1>6, <1>7, <1>8 DEF Orderly, Alone

\* Calls, peers that leave and answers.
LEMMA CalmPeers ==
  ASSUME PeerTypes, Orderly, Calm, ServerAnswers \/ Peers
  PROVE  Orderly'
  <1>1. ASSUME UNCHANGED <<state, main, int, fds, threads>>,
               \/ UNCHANGED <<sock, calls>>
               \/ \E s \in DOMAIN sock : Call(s) \/ PeerLeaves(s)
        PROVE  Orderly'
    <2>1. Live(listener)' = Live(listener) /\ Live(receiver)' = Live(receiver)
      BY <1>1 DEF Live, threads
    <2>2. /\ Ear' = Ear /\ Mouth' = Mouth /\ Door' = Door
      BY <1>1 DEF Ear, Mouth, Door, Socket, state
    <2>3. /\ DOMAIN sock' = DOMAIN sock
          /\ \A s \in DOMAIN sock : sock'[s] = sock[s] \/ (sock[s] = "talk" /\ sock'[s] = "left")
      BY <1>1 DEF Call, PeerLeaves
    <2>4. \A s \in {Ear, Mouth, Door} : s = 0 \/ s \in DOMAIN sock
      BY SocketTypes DEF Ear, Mouth, Door
    <2>5. /\ StateOf(Ear) # "talk" => StateOf(Ear)' = StateOf(Ear)
          /\ StateOf(Door) # "talk" => StateOf(Door)' = StateOf(Door)
          /\ \/ StateOf(Mouth)' = StateOf(Mouth)
             \/ StateOf(Mouth) = "talk" /\ StateOf(Mouth)' = "left"
      BY <2>2, <2>3, <2>4 DEF StateOf
    <2>6. \A s \in DOMAIN sock : calls[s] > 0 => calls'[s] > 0
      <3>1. DOMAIN calls = DOMAIN sock /\ \A s \in DOMAIN sock : calls[s] \in 0 .. 2
        BY Shapes
      <3>2. ASSUME NEW s \in DOMAIN sock, Call(s) PROVE \A r \in DOMAIN sock : calls[r] > 0 => calls'[r] > 0
        BY <3>1, <3>2 DEF Call
      <3> QED BY <1>1, <3>2 DEF PeerLeaves
    <2>7. int = "none" \/ UNCHANGED calls
      BY <1>1 DEF Call, PeerLeaves, Calm
    <2>8. AtWork' /\ Modes' /\ Callable'
      <3>1. AtWork'
        BY <1>1, <2>1, <2>2, <2>5 DEF AtWork, Orderly, state
      <3>2. Modes'
        BY <1>1, <2>1 DEF Modes, Orderly, state, threads
      <3>3. Callable'
        BY <1>1, <2>1, <2>2, <2>3 DEF Callable, Orderly, state
      <3> QED BY <3>1, <3>2, <3>3
    <2>9. ASSUME NEW i \in Live(listener) PROVE AtListen(i)'
      <3>1. AtListen(i) /\ UNCHANGED <<my_state, l_fd, talk_fd, listener, int, main>>
        BY <1>1 DEF Orderly, state, threads
      <3>2. Broken => Broken'
        BY <2>5, <3>1 DEF Broken
      <3>3. InCall => InCall'
        BY <2>5, <3>1 DEF InCall
      <3>4. Lurking(i) => Lurking(i)'
        <4>1. Ear \in DOMAIN sock
          BY <2>4, <3>1 DEF AtListen
        <4> QED BY <2>2, <2>5, <2>6, <2>7, <3>1, <4>1 DEF Lurking
      <3> QED BY <2>1, <2>2, <3>1, <3>2, <3>3, <3>4 DEF AtListen
    <2>10. ASSUME NEW i \in Live(receiver) PROVE AtReceive(i)'
      BY <1>1, <2>2, <2>5, <2>10 DEF AtReceive, Orderly, state, threads
    <2> QED BY <2>1, <2>8, <2>9, <2>10 DEF Orderly, Alone
  <1>2. CASE ServerAnswers
    BY <1>1, <1>2 DEF ServerAnswers, files
  <1>3. CASE \E s \in DOMAIN sock : Call(s) \/ PeerLeaves(s)
    BY <1>1, <1>3 DEF Call, PeerLeaves
  <1> QED BY <1>2, <1>3, CalmReceive DEF Peers

\* Every step keeps CalmInv.
LEMMA StepCalm ==
  ASSUME PeerTypes, Placed, Distinct, CalmInv, PeerNext
  PROVE  CalmInv'
  <1> SUFFICES ASSUME Calm' PROVE Orderly'
    BY DEF CalmInv
  <1>1. Running' /\ Running /\ Calm /\ Orderly
    <2>1. Running' /\ Running /\ troubles' = troubles
      BY RunsOn DEF Calm, Pause, peerVars, Running
    <2> QED BY <2>1 DEF Calm, CalmInv
  <1>2. ASSUME NEW i \in DOMAIN listener, Listen(i) PROVE Orderly'
    <2>1. ~ListenBlocked(i)
      BY <1>1 DEF ListenBlocked, Thread, Orderly, AtListen, Live, Early
    <2> QED BY <1>1, <1>2, <2>1, CalmTest, CalmSelect, CalmAccept, CalmTalk, CalmClose DEF Listen
  <1>3. CASE Main
    BY <1>1, <1>3, CalmWait, CalmConnect, CalmSay, CalmInterrupt DEF Main
  <1>4. CASE Pause
    <2>1. /\ Ear' = Ear /\ Mouth' = Mouth /\ Door' = Door
          /\ UNCHANGED <<state, files, threads, main, int>>
          /\ StateOf(Ear)' = StateOf(Ear) /\ StateOf(Mouth)' = StateOf(Mouth)
          /\ StateOf(Door)' = StateOf(Door)
      BY <1>4, SocketsStay DEF Pause, peerVars, state, files
    <2>2. Live(listener)' = Live(listener) /\ Live(receiver)' = Live(receiver)
      BY <2>1 DEF Live, threads
    <2>3. AtWork' /\ Modes' /\ Callable'
      BY <1>1, <2>1, <2>2 DEF AtWork, Modes, Callable, Orderly, state, threads, files
    <2>4. ASSUME NEW i \in Live(listener) PROVE AtListen(i)'
      BY <1>1, <2>1, <2>2, <2>4 DEF AtListen, Orderly, Lurking, Broken, InCall, state, threads, files
    <2>5. ASSUME NEW i \in Live(receiver) PROVE AtReceive(i)'
      BY <1>1, <2>1, <2>5 DEF AtReceive, Orderly, state, threads
    <2> QED BY <1>1, <2>2, <2>3, <2>4, <2>5 DEF Orderly, Alone
  <1> QED BY <1>1, <1>2, <1>3, <1>4, CalmUser, CalmPeers, CalmReceive DEF PeerNext

-----------------------------------------------------------------------------
\* Everything together, over the steps that change nothing too.
PeerInv == PeerTypes /\ Placed /\ OneAsked /\ Distinct /\ Tended /\ Writable /\ Survives /\ CalmInv

\* It holds of a client that has just started.
LEMMA PeerStarts ==
  ASSUME PeerInit
  PROVE  PeerInv
  <1>1. /\ fds = << >> /\ sock = << >> /\ calls = << >> /\ listener = << >> /\ receiver = << >>
        /\ main = "prompt" /\ int = "none" /\ my_state = "NORMAL" /\ asked = << >>
        /\ answers = << >> /\ l_fd = 0 /\ talk_fd = 0 /\ listen_fd = 0
        /\ inputs = MaxInputs /\ coming = MaxComing
        /\ troubles \subseteq Trouble
    BY TroubleSetsAssumption DEF PeerInit
  <1>2. PeerTypes
    BY <1>1, BoundsAssumption DEF PeerTypes
  <1>3. Placed /\ OneAsked /\ Distinct /\ Tended /\ Writable /\ Survives
    BY <1>1 DEF Placed, OneAsked, Distinct, Tended, Writable, Survives
  <1>4. Live(listener) = {} /\ Live(receiver) = {}
    BY <1>1 DEF Live
  <1>5. AtWork /\ Modes /\ Callable
    BY <1>1, <1>4 DEF AtWork, Modes, Callable
  <1> QED BY <1>2, <1>3, <1>4, <1>5 DEF PeerInv, CalmInv, Orderly, Alone

\* Every step keeps it.
LEMMA PeerSteps ==
  ASSUME PeerInv, [PeerNext]_peerVars
  PROVE  PeerInv'
  <1>1. CASE UNCHANGED peerVars
    <2>1. UNCHANGED <<troubles, my_state, l_fd, talk_fd, listen_fd, fds, sock, calls, main, int,
                      listener, receiver, asked, answers, inputs, coming>>
      BY <1>1 DEF peerVars, state, files, threads, bounds
    <2>2. PeerTypes' /\ Placed' /\ OneAsked' /\ Distinct' /\ Writable' /\ Survives'
      BY <2>1 DEF PeerInv, PeerTypes, Placed, Running, OneAsked, Distinct, Writable, Survives,
                  Mouth, Socket, StateOf
    <2>3. Tended'
      BY <2>1 DEF PeerInv, Tended, Running, Stirring, Attended, Mouth, Socket, StateOf
    <2>4. CalmInv'
      BY <2>1 DEF PeerInv, CalmInv, Calm, Running, Orderly, AtWork, Modes, Callable, Alone, Live,
                  AtListen, AtReceive, Lurking, Broken, InCall, Early, Ear, Mouth, Door, Socket,
                  StateOf
    <2> QED BY <2>2, <2>3, <2>4 DEF PeerInv
  <1>2. CASE PeerNext
    BY <1>2, StepTypes, StepPlaced, StepAsked, StepDistinct, StepTended, StepWritable,
       StepSurvives, StepCalm DEF PeerInv
  <1> QED BY <1>1, <1>2

\* It holds in every reachable state.
LEMMA PeerHolds == PeerSpec => []PeerInv
  BY PeerStarts, PeerSteps, PTL DEF PeerSpec

\* The variables of a client keep their types.
THEOREM ClientTyped == PeerSpec => []PeerTypes
  <1>1. PeerInv => PeerTypes
    BY DEF PeerInv
  <1> QED BY <1>1, PeerHolds, PTL

\* Main reads the answer to what it has asked for.
THEOREM AnswersAreMains == PeerSpec => []AnswersOwn
  <1>1. PeerInv => AnswersOwn
    BY DEF PeerInv, OneAsked, AnswersOwn, Running
  <1> QED BY <1>1, PeerHolds, PTL

\* No signal kills a client whose user waits for the prompt, with answers in time.
THEOREM ClientSurvives == PeerSpec => []Survives
  <1>1. PeerInv => Survives
    BY DEF PeerInv
  <1> QED BY <1>1, PeerHolds, PTL

\* The mode is what the threads are at whenever a calm client comes to rest.
THEOREM ModesAgree == PeerSpec => []ModeAgrees
  <1>1. PeerInv => ModeAgrees
    BY RestAgrees DEF PeerInv, ModeAgrees, CalmInv, Calm
  <1> QED BY <1>1, PeerHolds, PTL
=============================================================================
