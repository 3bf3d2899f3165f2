------------------------- MODULE RemoteShellProofs -------------------------
(***************************************************************************)
(* Proofs about the remote shell of hw2, for any number of clients,        *)
(* commands and lines and any set of faults.                               *)
(***************************************************************************)
EXTENDS RemoteShell, ListLemmas

-----------------------------------------------------------------------------
(* The inductive invariant.                                                *)

ClientType ==
  [pc : {"start", "prompt", "read", "over"}, sock : Sock, asked : Nat,
   shown : Seq(PieceType), empty : BOOLEAN, whole : BOOLEAN, answered : BOOLEAN,
   cut : BOOLEAN]

ServerType ==
  [pc : {"accept", "read", "run", "killed", "stopped"}, serving : Clients \cup {None},
   sock : Sock, cmd : Seq(Line), lines : 0 .. MaxLines, rest : BOOLEAN]

Types ==
  /\ faults \in FaultSets /\ queue \in Seq(Clients)
  /\ client \in [Clients -> ClientType] /\ server \in ServerType
  /\ up \in [Clients -> Seq(Line)]
  /\ down \in [Clients -> Seq(PieceType)] /\ printed \in [Clients -> Seq(PieceType)]
  /\ \A c \in Clients : client[c].asked \in 0 .. MaxCmds[c]
  /\ (server.serving # None) <=> (server.pc \in {"read", "run"})
  /\ (server.cmd # << >>) <=> (server.pc = "run")

\* Who has closed: a client knows of it only when the server is down, the server
\* only when its client is gone, and only clients that are gone were cut short.
Peers ==
  /\ \A c \in Clients : client[c].sock # "open" => ~Running
  /\ server.serving # None /\ server.sock # "open" => client[server.serving].pc = "over"
  /\ \A c \in Clients : client[c].cut => client[c].pc = "over"

Runs(c) == server.pc = "run" /\ server.serving = c

\* The server and a client that is in step take turns: a line is sent, run and
\* answered before the next one is.
Turn(c) ==
  Running /\ ~OutOfStep(c) =>
    /\ Len(up[c]) <= 1
    /\ client[c].pc # "read" => ~Runs(c)
    /\ client[c].pc \in {"start", "prompt"} => up[c] = << >>
    /\ client[c].pc = "over" => up[c] = << >> \/ up[c] = <<Exit>>
    /\ up[c] # << >> => ~Runs(c)

\* A read that ended inside a package left the rest of it.
Split(c) == down[c] # << >> /\ ~down[c][1].head

\* down[c] is made of n packages, and the text of package k is that from f[k - 1]
\* to f[k] in what the command printed.  The last package of an answer is the last
\* there is.
Packages(c, n, f) ==
  /\ Len(down[c]) = 2 * n
  /\ f[0] = Len(client[c].shown) /\ f[n] = Len(printed[c])
  /\ \A k \in 1 .. n :
       LET h == down[c][2 * k - 1]
           t == down[c][2 * k]
       IN  /\ h.head /\ ~t.head /\ (h.end <=> ~h.text)
           /\ h.end => k = n /\ f[k] = f[k - 1] /\ ~Runs(c) /\ (Running => up[c] = << >>)
           /\ h.text => printed[c][f[k - 1] + 1] = h
           /\ h.text /\ ~t.text => f[k] = f[k - 1] + 1
           /\ h.text /\ t.text => f[k] = f[k - 1] + 2 /\ printed[c][f[k - 1] + 2] = t

\* What is on its way to a client that is in step.
Flow(c) ==
  client[c].pc # "over" /\ client[c].whole =>
    /\ IsPrefix(client[c].shown, printed[c])
    /\ client[c].answered => client[c].pc = "prompt" /\ client[c].shown = printed[c]
    /\ Split(c) => "short" \in faults
    /\ ~Split(c) => \E n \in 0 .. Len(down[c]) :
                      \E f \in [0 .. n -> 0 .. Len(printed[c])] : Packages(c, n, f)
    /\ ~Split(c) /\ client[c].pc # "read" => down[c] = << >>

Told == \A c \in Clients : ~client[c].whole => "short" \in faults

Turns == \A c \in Clients : Turn(c)
Flows == \A c \in Clients : Flow(c)

IInv == /\ Types /\ Peers /\ Turns /\ RunsTyped /\ ServerDownExplained
        /\ Told /\ Flows

-----------------------------------------------------------------------------
(* What the types give.                                                    *)

\* Lines that may be typed, and the bounds.
LEMMA LineTypes ==
  /\ Exit \in Line \/ Clients = {}
  /\ \A c \in Clients : \A n \in 0 .. MaxCmds[c] : n \in Line
  /\ \A c \in Clients : MaxCmds[c] \in Nat
  /\ MaxLines \in Nat
  <1>1. /\ \A c \in Clients : MaxCmds[c] \in Nat
        /\ MaxLines \in Nat
    BY BoundsAssumption
  <1>2. \A c \in Clients : \A n \in 0 .. MaxCmds[c] : n \in Line
    BY DEF Line
  <1>3. \A c \in Clients : 0 \in 0 .. MaxCmds[c]
    BY <1>1
  <1> QED BY <1>1, <1>2, <1>3 DEF Exit

\* A client, its two streams and what was printed for it.
LEMMA ClientIs ==
  ASSUME Types, NEW c \in Clients
  PROVE  /\ client[c] \in ClientType
         /\ client[c].pc \in {"start", "prompt", "read", "over"} /\ client[c].sock \in Sock
         /\ client[c].shown \in Seq(PieceType) /\ Len(client[c].shown) \in Nat
         /\ client[c].whole \in BOOLEAN /\ client[c].cut \in BOOLEAN
         /\ client[c].answered \in BOOLEAN /\ client[c].empty \in BOOLEAN
         /\ client[c].asked \in 0 .. MaxCmds[c]
         /\ up[c] \in Seq(Line) /\ Len(up[c]) \in Nat
         /\ down[c] \in Seq(PieceType) /\ Len(down[c]) \in Nat
         /\ printed[c] \in Seq(PieceType) /\ Len(printed[c]) \in Nat
  <1>1. client[c] \in ClientType
    BY DEF Types
  <1>2. /\ up[c] \in Seq(Line) /\ down[c] \in Seq(PieceType) /\ printed[c] \in Seq(PieceType)
        /\ client[c].asked \in 0 .. MaxCmds[c]
    BY DEF Types
  <1>3. client[c].shown \in Seq(PieceType)
    BY <1>1 DEF ClientType
  <1>4. /\ client[c].pc \in {"start", "prompt", "read", "over"} /\ client[c].sock \in Sock
        /\ client[c].whole \in BOOLEAN /\ client[c].cut \in BOOLEAN
        /\ client[c].answered \in BOOLEAN /\ client[c].empty \in BOOLEAN
    BY <1>1 DEF ClientType
  <1> QED BY <1>1, <1>2, <1>3, <1>4, LenProperties

\* The server.
LEMMA ServerIs ==
  ASSUME Types
  PROVE  /\ server.pc \in {"accept", "read", "run", "killed", "stopped"}
         /\ server.serving \in Clients \cup {None} /\ server.sock \in Sock
         /\ server.cmd \in Seq(Line) /\ server.lines \in 0 .. MaxLines
         /\ server.rest \in BOOLEAN
         /\ server.pc \in {"read", "run"} <=> server.serving # None
         /\ server.pc \in {"read", "run"} <=> server.serving \in Clients
         /\ server.pc = "run" <=> server.cmd # << >>
         /\ Running <=> server.pc \in {"accept", "read", "run"}
  <1>1. server \in ServerType
    BY DEF Types
  <1>2. /\ server.pc \in {"accept", "read", "run", "killed", "stopped"}
        /\ server.serving \in Clients \cup {None} /\ server.sock \in Sock
        /\ server.cmd \in Seq(Line) /\ server.lines \in 0 .. MaxLines
        /\ server.rest \in BOOLEAN
    BY <1>1 DEF ServerType
  <1>3. /\ server.pc \in {"read", "run"} <=> server.serving # None
        /\ server.pc = "run" <=> server.cmd # << >>
    BY DEF Types
  <1> QED BY <1>2, <1>3, NoneAssumption DEF Running

\* IsPrefix, item by item.
LEMMA PrefixIs ==
  ASSUME NEW S, NEW s \in Seq(S), NEW t \in Seq(S)
  PROVE  IsPrefix(s, t) <=> Len(s) <= Len(t) /\ \A i \in 1 .. Len(s) : s[i] = t[i]
  <1>1. Len(s) \in Nat /\ Len(t) \in Nat
    BY LenProperties
  <1>2. SubSeq(s, 1, Len(s)) = s
    BY <1>1
  <1>3. ASSUME Len(s) <= Len(t)
        PROVE  /\ SubSeq(t, 1, Len(s)) \in Seq(S)
               /\ Len(SubSeq(t, 1, Len(s))) = Len(s)
               /\ \A i \in 1 .. Len(s) : SubSeq(t, 1, Len(s))[i] = t[i]
    BY <1>1, <1>3
  <1>4. ASSUME Len(s) <= Len(t), \A i \in 1 .. Len(s) : s[i] = t[i]
        PROVE  SubSeq(t, 1, Len(s)) = s
    BY <1>1, <1>3, <1>4, SeqEqual
  <1> QED BY <1>2, <1>3, <1>4 DEF IsPrefix

-----------------------------------------------------------------------------
(* A client that a step leaves alone.                                      *)

Quiet(d) ==
  /\ client'[d].pc = client[d].pc /\ client'[d].whole = client[d].whole
  /\ client'[d].cut = client[d].cut /\ client'[d].shown = client[d].shown
  /\ client'[d].answered = client[d].answered
  /\ up'[d] = up[d] /\ down'[d] = down[d] /\ printed'[d] = printed[d]
  /\ Running' => Running
  /\ Runs(d)' => Runs(d)

\* Nothing is to show for a client that a step leaves alone.
LEMMA QuietKeeps ==
  ASSUME NEW d \in Clients, Quiet(d), faults' = faults, Turn(d), Flow(d)
  PROVE  Turn(d)' /\ Flow(d)'
  <1>1. Turn(d)'
    BY DEF Turn, Quiet, OutOfStep
  <1>2. ASSUME NEW n, NEW f, Packages(d, n, f)
        PROVE  Packages(d, n, f)'
    BY <1>2 DEF Packages, Quiet
  <1>3. Flow(d)'
    BY <1>2 DEF Flow, Quiet, Split
  <1> QED BY <1>1, <1>3

-----------------------------------------------------------------------------
(* What the steps of a client do to it, field by field.                    *)

\* The record of one client is replaced.
LEMMA Update ==
  ASSUME Types, NEW c \in Clients, NEW r \in ClientType, r.asked \in 0 .. MaxCmds[c],
         client' = [client EXCEPT ![c] = r]
  PROVE  /\ client' \in [Clients -> ClientType]
         /\ \A d \in Clients : client'[d].asked \in 0 .. MaxCmds[d]
         /\ client'[c] = r
         /\ \A d \in Clients : d # c => client'[d] = client[d]
  BY DEF Types

\* A step that changes only a client and its streams.
LEMMA ServerStays ==
  ASSUME Types, UNCHANGED <<faults, queue, server>>, client' \in [Clients -> ClientType],
         \A d \in Clients : client'[d].asked \in 0 .. MaxCmds[d],
         up' \in [Clients -> Seq(Line)], down' \in [Clients -> Seq(PieceType)],
         printed' \in [Clients -> Seq(PieceType)]
  PROVE  Types'
  BY DEF Types

\* Connect, field by field.
LEMMA ConnectDoes ==
  ASSUME Types, NEW c \in Clients, Connect(c)
  PROVE  /\ Types'
         /\ \A d \in Clients : d # c => client'[d] = client[d]
         /\ client[c].pc = "start"
         /\ client'[c].pc = "prompt" \/ (client'[c].pc = "over" /\ ~Running)
         /\ client'[c].sock = client[c].sock /\ client'[c].cut = client[c].cut
         /\ client'[c].whole = client[c].whole /\ client'[c].shown = client[c].shown
         /\ client'[c].answered = client[c].answered
  <1>1. PICK where \in {"prompt", "over"} :
          /\ client' = [client EXCEPT ![c].pc = where]
          /\ where = "over" => ~Running
          /\ queue' = queue \/ queue' = Append(queue, c)
    BY DEF Connect
  <1> DEFINE r == [client[c] EXCEPT !.pc = where]
  <1>2. r \in ClientType /\ r.asked = client[c].asked /\ r.pc = where
        /\ r.sock = client[c].sock /\ r.cut = client[c].cut /\ r.whole = client[c].whole
        /\ r.shown = client[c].shown /\ r.answered = client[c].answered
    BY <1>1, ClientIs DEF ClientType
  <1>3. client' = [client EXCEPT ![c] = r]
    BY <1>1
  <1> HIDE DEF r
  <1>4. /\ client' \in [Clients -> ClientType] /\ client'[c] = r
        /\ \A d \in Clients : client'[d].asked \in 0 .. MaxCmds[d]
        /\ \A d \in Clients : d # c => client'[d] = client[d]
    BY <1>2, <1>3, ClientIs, Update
  <1>5. queue' \in Seq(Clients)
    <2>1. queue \in Seq(Clients)
      BY DEF Types
    <2>2. Append(queue, c) \in Seq(Clients)
      BY <2>1, AppendProperties
    <2> QED BY <1>1, <2>1, <2>2
  <1>6. Types'
    BY <1>4, <1>5 DEF Types, Connect
  <1>7. client[c].pc = "start"
    BY DEF Connect
  <1> QED BY <1>1, <1>2, <1>4, <1>6, <1>7

\* A line, or nothing, is typed: what was shown and printed is forgotten.
LEMMA TypeDoes ==
  ASSUME Types, NEW c \in Clients, Type(c) \/ TypeNothing(c)
  PROVE  /\ Types'
         /\ \A d \in Clients : d # c =>
              client'[d] = client[d] /\ up'[d] = up[d] /\ printed'[d] = printed[d]
         /\ client[c].pc = "prompt" /\ client'[c].pc = "read"
         /\ client[c].sock = "open" => client'[c].sock = "open"
         /\ client'[c].cut = client[c].cut /\ client'[c].whole = client[c].whole
         /\ client'[c].shown = << >> /\ printed'[c] = << >> /\ client'[c].answered = FALSE
         /\ up'[c] = up[c] \/ \E n \in Line : up'[c] = Append(up[c], n)
         /\ UNCHANGED <<faults, queue, server, down>>
  <1>1. CASE Type(c)
    <2>1. PICK st \in Sock :
            /\ client' = [client EXCEPT ![c] = [@ EXCEPT
                            !.pc = "read", !.sock = st, !.asked = client[c].asked + 1,
                            !.shown = << >>, !.empty = FALSE, !.answered = FALSE]]
            /\ client[c].sock = "open" => st = "open"
      <3>1. PICK st \in IF client[c].sock = "open" THEN {"open"} ELSE {"ended", "dead"} :
              client' = [client EXCEPT ![c] = [@ EXCEPT
                          !.pc = "read", !.sock = st, !.asked = client[c].asked + 1,
                          !.shown = << >>, !.empty = FALSE, !.answered = FALSE]]
        BY <1>1, Zenon DEF Type
      <3>2. st \in Sock /\ (client[c].sock = "open" => st = "open")
        BY <3>1 DEF Sock
      <3> QED BY <3>1, <3>2, Zenon
    <2> DEFINE r == [client[c] EXCEPT
                      !.pc = "read", !.sock = st, !.asked = client[c].asked + 1,
                      !.shown = << >>, !.empty = FALSE, !.answered = FALSE]
               n == client[c].asked + 1
    <2>2. client[c].asked \in 0 .. MaxCmds[c] /\ MaxCmds[c] \in Nat
          /\ client[c].asked < MaxCmds[c]
      BY <1>1, ClientIs, LineTypes DEF Type
    <2>3. n \in 0 .. MaxCmds[c] /\ n \in Nat
      BY <2>2
    <2>4. n \in Line
      BY <2>3, LineTypes
    <2>5. << >> \in Seq(PieceType)
      OBVIOUS
    <2>6. r \in ClientType
      BY <2>3, <2>5, ClientIs DEF ClientType
    <2>7. r.asked = n /\ r.pc = "read" /\ r.sock = st /\ r.cut = client[c].cut
          /\ r.whole = client[c].whole /\ r.shown = << >> /\ r.answered = FALSE
      BY ClientIs DEF ClientType
    <2>12. client' = [client EXCEPT ![c] = r]
      BY <2>1
    <2> HIDE DEF r
    <2>8. /\ client' \in [Clients -> ClientType] /\ client'[c] = r
          /\ \A d \in Clients : client'[d].asked \in 0 .. MaxCmds[d]
          /\ \A d \in Clients : d # c => client'[d] = client[d]
      BY <2>3, <2>6, <2>7, <2>12, Update
    <2>9. /\ up' \in [Clients -> Seq(Line)]
          /\ \A d \in Clients : d # c => up'[d] = up[d]
          /\ up'[c] = up[c] \/ up'[c] = Append(up[c], n)
      <3>1. up' = up \/ up' = [up EXCEPT ![c] = Append(up[c], n)]
        BY <1>1 DEF Type
      <3>2. Append(up[c], n) \in Seq(Line)
        BY <2>4, ClientIs, AppendProperties
      <3>3. up \in [Clients -> Seq(Line)]
        BY DEF Types
      <3> HIDE DEF n
      <3> QED BY <3>1, <3>2, <3>3
    <2>10. /\ printed' \in [Clients -> Seq(PieceType)] /\ printed'[c] = << >>
           /\ \A d \in Clients : d # c => printed'[d] = printed[d]
      BY <1>1, <2>5 DEF Type, Types
    <2>11. Types'
      BY <1>1, <2>8, <2>9, <2>10, ServerStays DEF Type, Types
    <2> QED BY <1>1, <2>1, <2>4, <2>7, <2>8, <2>9, <2>10, <2>11 DEF Type
  <1>2. CASE TypeNothing(c)
    <2> DEFINE r == [client[c] EXCEPT
                      !.pc = "read", !.shown = << >>, !.empty = TRUE, !.answered = FALSE]
    <2>1. client' = [client EXCEPT ![c] = r]
      BY <1>2 DEF TypeNothing
    <2>2. << >> \in Seq(PieceType)
      OBVIOUS
    <2>3. r \in ClientType
      BY <2>2, ClientIs DEF ClientType
    <2>4. r.asked = client[c].asked /\ r.pc = "read" /\ r.sock = client[c].sock
          /\ r.cut = client[c].cut
          /\ r.whole = client[c].whole /\ r.shown = << >> /\ r.answered = FALSE
      BY ClientIs DEF ClientType
    <2> HIDE DEF r
    <2>5. /\ client' \in [Clients -> ClientType] /\ client'[c] = r
          /\ \A d \in Clients : client'[d].asked \in 0 .. MaxCmds[d]
          /\ \A d \in Clients : d # c => client'[d] = client[d]
      BY <2>1, <2>3, <2>4, ClientIs, Update
    <2>6. /\ printed' \in [Clients -> Seq(PieceType)] /\ printed'[c] = << >>
          /\ \A d \in Clients : d # c => printed'[d] = printed[d]
      BY <1>2, <2>2 DEF TypeNothing, Types
    <2>7. Types'
      BY <1>2, <2>5, <2>6, ServerStays DEF TypeNothing, Types
    <2> QED BY <1>2, <2>4, <2>5, <2>6, <2>7 DEF TypeNothing
  <1> QED BY <1>1, <1>2

\* The connection is closed and nothing is left to read.
LEMMA ReadFailsDoes ==
  ASSUME Types, NEW c \in Clients, ReadFails(c)
  PROVE  /\ Types'
         /\ \A d \in Clients : d # c => client'[d] = client[d]
         /\ client[c].pc = "read" /\ client'[c].pc = "prompt" /\ down[c] = << >>
         /\ client[c].sock # "open"
         /\ client'[c].cut = client[c].cut /\ client'[c].whole = client[c].whole
         /\ client'[c].shown = client[c].shown
         /\ client'[c].answered = client[c].answered
         /\ UNCHANGED <<faults, queue, server, up, down, printed>>
  <1> DEFINE st == IF client[c].sock = "reset" THEN "dead" ELSE client[c].sock
             r == [client[c] EXCEPT !.pc = "prompt", !.sock = st]
  <1>1. client' = [client EXCEPT ![c] = r]
    BY ClientIs DEF ReadFails, Types, ClientType
  <1>2. st \in Sock
    BY ClientIs DEF Sock
  <1> HIDE DEF st
  <1>3. r \in ClientType
    BY <1>2, ClientIs DEF ClientType
  <1>4. r.asked = client[c].asked /\ r.pc = "prompt" /\ r.cut = client[c].cut
        /\ r.whole = client[c].whole /\ r.shown = client[c].shown
        /\ r.answered = client[c].answered
    BY ClientIs DEF ClientType
  <1> HIDE DEF r
  <1>5. /\ client' \in [Clients -> ClientType] /\ client'[c] = r
        /\ \A d \in Clients : client'[d].asked \in 0 .. MaxCmds[d]
        /\ \A d \in Clients : d # c => client'[d] = client[d]
    BY <1>1, <1>3, <1>4, ClientIs, Update
  <1>6. Types'
    BY <1>5, ServerStays DEF ReadFails, Types
  <1> QED BY <1>4, <1>5, <1>6 DEF ReadFails

\* A read of the first piece, or of the first two.
LEMMA FirstItems ==
  ASSUME NEW S, NEW s \in Seq(S)
  PROVE  /\ 1 <= Len(s) => SubSeq(s, 1, 1) = <<s[1]>> /\ s[1] \in S
         /\ 2 <= Len(s) => SubSeq(s, 1, 2) = <<s[1], s[2]>> /\ s[2] \in S
  <1>1. Len(s) \in Nat /\ \A i \in 1 .. Len(s) : s[i] \in S
    BY LenProperties, ElementOfSeq
  <1>2. ASSUME 1 <= Len(s) PROVE SubSeq(s, 1, 1) = <<s[1]>> /\ s[1] \in S
    <2>1. s[1] \in S
      BY <1>1, <1>2
    <2> DEFINE t == SubSeq(s, 1, 1)
    <2>3. /\ t \in Seq(S) /\ Len(t) = IF 1 <= 1 THEN 1 - 1 + 1 ELSE 0
          /\ \A k \in 1 .. 1 - 1 + 1 : t[k] = s[1 + k - 1]
      BY <1>1, <1>2, SubSeqProperties
    <2> HIDE DEF t
    <2>4. Len(t) = 1 /\ t[1] = s[1]
      BY <2>3
    <2>2. t = <<s[1]>>
      BY <2>1, <2>3, <2>4
    <2> QED BY <2>1, <2>2 DEF t
  <1>3. ASSUME 2 <= Len(s) PROVE SubSeq(s, 1, 2) = <<s[1], s[2]>> /\ s[2] \in S
    <2>1. s[1] \in S /\ s[2] \in S
      BY <1>1, <1>3
    <2> DEFINE t == SubSeq(s, 1, 2)
    <2>3. /\ t \in Seq(S) /\ Len(t) = IF 1 <= 2 THEN 2 - 1 + 1 ELSE 0
          /\ \A k \in 1 .. 2 - 1 + 1 : t[k] = s[1 + k - 1]
      BY <1>1, <1>3, SubSeqProperties
    <2> HIDE DEF t
    <2>4. Len(t) = 2 /\ t[1] = s[1] /\ t[2] = s[2]
      BY <2>3
    <2>2. t = <<s[1], s[2]>>
      BY <2>1, <2>3, <2>4
    <2> QED BY <2>1, <2>2 DEF t
  <1> QED BY <1>2, <1>3

\* The text of a package.
LEMMA TextIs ==
  ASSUME NEW h \in PieceType, NEW t \in PieceType
  PROVE  /\ Text(<<h>>) = IF h.text THEN <<h>> ELSE << >>
         /\ Text(<<h, t>>) = IF ~h.text THEN << >>
                             ELSE IF h.head /\ t.text THEN <<h, t>> ELSE <<h>>
         /\ Text(<<h>>) \in Seq(PieceType) /\ Text(<<h, t>>) \in Seq(PieceType)
  <1>1. <<h>> \in Seq(PieceType) /\ <<h, t>> \in Seq(PieceType) /\ << >> \in Seq(PieceType)
    OBVIOUS
  <1>2. <<h>>[1] = h /\ <<h, t>>[1] = h /\ <<h, t>>[2] = t
        /\ Len(<<h>>) = 1 /\ Len(<<h, t>>) = 2
    OBVIOUS
  <1>3. Text(<<h>>) = IF h.text THEN <<h>> ELSE << >>
    BY <1>2 DEF Text
  <1>4. Text(<<h, t>>) = IF ~h.text THEN << >>
                         ELSE IF h.head /\ t.text THEN <<h, t>> ELSE <<h>>
    BY <1>2 DEF Text
  <1> QED BY <1>1, <1>3, <1>4

\* What client c makes of the n pieces it reads.
Reads(c, n) ==
  /\ n <= Len(down[c])
  /\ down'[c] = SubSeq(down[c], n + 1, Len(down[c]))
  /\ client'[c].shown = client[c].shown \o Text(SubSeq(down[c], 1, n))

\* ReadPackage, field by field.
LEMMA ReadPackageDoes ==
  ASSUME Types, NEW c \in Clients, ReadPackage(c)
  PROVE  /\ Types'
         /\ \A d \in Clients : d # c => client'[d] = client[d] /\ down'[d] = down[d]
         /\ client[c].pc = "read" /\ client'[c].sock = client[c].sock
         /\ client'[c].cut = client[c].cut /\ 1 <= Len(down[c])
         /\ client'[c].whole <=> client[c].whole /\ down[c][1].head
         /\ client'[c].pc \in {"prompt", "read"}
         /\ down[c][1].head => /\ client'[c].answered <=> down[c][1].end
                               /\ client'[c].pc = "prompt" <=> down[c][1].end
         /\ ("short" \in faults /\ Reads(c, 1)) \/ Reads(c, 2)
         /\ UNCHANGED <<faults, queue, server, up, printed>>
  <1>1. PICK n \in 1 .. 2 :
          /\ n <= Len(down[c])
          /\ n = 2 \/ "short" \in faults
          /\ client' = [client EXCEPT ![c] = [@ EXCEPT
                          !.pc = IF IsEnd(SubSeq(down[c], 1, n)) THEN "prompt" ELSE "read",
                          !.shown = client[c].shown \o Text(SubSeq(down[c], 1, n)),
                          !.whole = client[c].whole /\ SubSeq(down[c], 1, n)[1].head,
                          !.answered = IsEnd(SubSeq(down[c], 1, n))]]
          /\ down' = [down EXCEPT ![c] = SubSeq(down[c], n + 1, Len(down[c]))]
    BY DEF ReadPackage
  <1> DEFINE h == down[c][1]
             ps == SubSeq(down[c], 1, n)
             text == Text(ps)
             shown == client[c].shown \o text
             last == IsEnd(ps)
             rest == SubSeq(down[c], n + 1, Len(down[c]))
             whole == client[c].whole /\ ps[1].head
             r == [client[c] EXCEPT !.pc = IF last THEN "prompt" ELSE "read",
                     !.shown = shown, !.whole = whole, !.answered = last]
  <1>2. down[c] \in Seq(PieceType) /\ Len(down[c]) \in Nat /\ 1 <= Len(down[c])
    BY <1>1, ClientIs
  <1>3. h \in PieceType /\ ps[1] = h /\ text \in Seq(PieceType)
    <2>1. CASE n = 1
      <3>1. ps = <<h>> /\ h \in PieceType
        BY <1>2, <2>1, FirstItems
      <3> HIDE DEF h
      <3>2. Text(<<h>>) \in Seq(PieceType)
        BY <3>1, TextIs
      <3>3. <<h>>[1] = h
        OBVIOUS
      <3> QED BY <3>1, <3>2, <3>3 DEF text
    <2>2. CASE n = 2
      <3>1. ps = <<h, down[c][2]>> /\ h \in PieceType /\ down[c][2] \in PieceType
        BY <1>1, <1>2, <2>2, FirstItems
      <3> HIDE DEF h
      <3>2. PICK t : t = down[c][2]
        OBVIOUS
      <3>3. Text(<<h, t>>) \in Seq(PieceType) /\ <<h, t>>[1] = h
        BY <3>1, <3>2, TextIs
      <3> QED BY <3>1, <3>2, <3>3 DEF text
    <2> QED BY <2>1, <2>2
  <1>4. h.head \in BOOLEAN /\ h.end \in BOOLEAN /\ h.text \in BOOLEAN
    BY <1>3 DEF PieceType
  <1>5. last \in BOOLEAN /\ (h.head => (last <=> h.end)) /\ (whole <=> client[c].whole /\ h.head)
        /\ whole \in BOOLEAN
    BY <1>3, <1>4, ClientIs DEF IsEnd
  <1>6. shown \in Seq(PieceType)
    BY <1>3, ClientIs, ConcatProperties
  <1>7. rest \in Seq(PieceType)
    <2>1. n \in 0 .. Len(down[c])
      BY <1>1, <1>2
    <2> QED BY <1>2, <2>1, DropItems
  <1>8. client' = [client EXCEPT ![c] = r]
    BY <1>1
  <1> HIDE DEF h, ps, text, shown, last, whole
  <1>9. r \in ClientType
    BY <1>5, <1>6, ClientIs DEF ClientType
  <1>10. r.asked = client[c].asked /\ r.sock = client[c].sock /\ r.cut = client[c].cut
         /\ r.shown = shown /\ (r.whole <=> whole) /\ (r.answered <=> last)
         /\ r.pc \in {"prompt", "read"} /\ (r.pc = "prompt" <=> last)
    BY <1>5, ClientIs DEF ClientType
  <1> HIDE DEF r
  <1>11. /\ client' \in [Clients -> ClientType] /\ client'[c] = r
         /\ \A d \in Clients : client'[d].asked \in 0 .. MaxCmds[d]
         /\ \A d \in Clients : d # c => client'[d] = client[d]
    BY <1>8, <1>9, <1>10, ClientIs, Update
  <1>12. /\ down' \in [Clients -> Seq(PieceType)] /\ down'[c] = rest
         /\ \A d \in Clients : d # c => down'[d] = down[d]
    <2> HIDE DEF rest
    <2>1. down' = [down EXCEPT ![c] = rest] /\ down \in [Clients -> Seq(PieceType)]
      BY <1>1 DEF rest, Types
    <2> QED BY <1>7, <2>1
  <1>13. Types'
    BY <1>11, <1>12, ServerStays DEF ReadPackage, Types
  <1>14. Reads(c, n) /\ (n = 2 \/ "short" \in faults)
    BY <1>1, <1>10, <1>11, <1>12 DEF Reads, shown, text, ps
  <1>15. ("short" \in faults /\ Reads(c, 1)) \/ Reads(c, 2)
    <2>1. n = 1 \/ n = 2
      BY <1>1
    <2> QED BY <1>14, <2>1
  <1> QED BY <1>2, <1>5, <1>10, <1>11, <1>12, <1>13, <1>15 DEF ReadPackage, h

\* Close, field by field.
LEMMA CloseDoes ==
  ASSUME Types, NEW c \in Clients, NEW ls \in {<< >>, <<Exit>>}, Close(c, ls)
  PROVE  /\ Types'
         /\ \A d \in Clients : d # c =>
              /\ client'[d] = client[d] /\ up'[d] = up[d]
              /\ down'[d] = down[d] /\ printed'[d] = printed[d]
         /\ client'[c].pc = "over" /\ client'[c].sock = client[c].sock
         /\ client'[c].whole = client[c].whole
         /\ client'[c].cut <=> client[c].cut \/ client[c].pc = "read"
         /\ up[c] = << >> => up'[c] = << >> \/ up'[c] = <<Exit>>
         /\ server'.pc = server.pc /\ server'.serving = server.serving
         /\ server'.cmd = server.cmd
         /\ server.serving # c => server' = server
         /\ faults' = faults
  <1> DEFINE cut == client[c].cut \/ client[c].pc = "read"
             r == [client[c] EXCEPT !.pc = "over", !.cut = cut, !.shown = << >>,
                                    !.empty = FALSE, !.answered = FALSE]
  <1>1. client' = [client EXCEPT ![c] = r]
    BY DEF Close
  <1>2. cut \in BOOLEAN /\ << >> \in Seq(PieceType)
    BY ClientIs
  <1> HIDE DEF cut
  <1>3. r \in ClientType
    BY <1>2, ClientIs DEF ClientType
  <1>4. r.asked = client[c].asked /\ r.pc = "over" /\ r.sock = client[c].sock
        /\ r.whole = client[c].whole /\ r.cut = cut
    BY ClientIs DEF ClientType
  <1> HIDE DEF r
  <1>5. /\ client' \in [Clients -> ClientType] /\ client'[c] = r
        /\ \A d \in Clients : client'[d].asked \in 0 .. MaxCmds[d]
        /\ \A d \in Clients : d # c => client'[d] = client[d]
    BY <1>1, <1>3, <1>4, ClientIs, Update
  <1>6. /\ up' \in [Clients -> Seq(Line)]
        /\ \A d \in Clients : d # c => up'[d] = up[d]
        /\ up[c] = << >> => up'[c] = << >> \/ up'[c] = <<Exit>>
    <2>1. up' = up \/ up' = [up EXCEPT ![c] = up[c] \o ls]
      BY DEF Close
    <2>2. Exit \in Line
      BY LineTypes
    <2>3. ls \in Seq(Line)
      <3>1. << >> \in Seq(Line) /\ <<Exit>> \in Seq(Line)
        BY <2>2
      <3> QED BY <3>1
    <2>4. up[c] \o ls \in Seq(Line)
      BY <2>3, ClientIs, ConcatProperties
    <2>5. up[c] = << >> => up[c] \o ls = ls
      BY <2>3, ConcatEmptySeq
    <2>6. up \in [Clients -> Seq(Line)]
      BY DEF Types
    <2> QED BY <2>1, <2>4, <2>5, <2>6
  <1>7. /\ down' \in [Clients -> Seq(PieceType)] /\ printed' \in [Clients -> Seq(PieceType)]
        /\ \A d \in Clients : d # c => down'[d] = down[d] /\ printed'[d] = printed[d]
    BY <1>2 DEF Close, Types
  <1>8. /\ server' \in ServerType /\ server'.pc = server.pc
        /\ server'.serving = server.serving /\ server'.cmd = server.cmd
        /\ server.serving # c => server' = server
    <2>1. server \in ServerType
      BY DEF Types
    <2>2. \/ server' = server
          \/ server.serving = c /\ \E st \in Sock : server' = [server EXCEPT !.sock = st]
      BY DEF Close, Sock
    <2> QED BY <2>1, <2>2 DEF ServerType
  <1>9. faults' = faults /\ queue' = queue
    BY DEF Close
  <1>10. Types'
    BY <1>5, <1>6, <1>7, <1>8, <1>9 DEF Types
  <1>11. client'[c].cut <=> client[c].cut \/ client[c].pc = "read"
    BY <1>4, <1>5 DEF cut
  <1> QED BY <1>4, <1>5, <1>6, <1>7, <1>8, <1>9, <1>10, <1>11

-----------------------------------------------------------------------------
(* What the steps of the server do.                                        *)

\* The server's record is replaced, the client of it stays typed.
LEMMA ServerMoves ==
  ASSUME Types, server' \in ServerType, UNCHANGED <<faults, client>>,
         queue' \in Seq(Clients), up' \in [Clients -> Seq(Line)],
         down' \in [Clients -> Seq(PieceType)], printed' \in [Clients -> Seq(PieceType)],
         (server'.serving # None) <=> (server'.pc \in {"read", "run"}),
         (server'.cmd # << >>) <=> (server'.pc = "run")
  PROVE  Types'
  BY DEF Types

\* Accept, field by field.
LEMMA AcceptDoes ==
  ASSUME Types, Accept
  PROVE  /\ Types'
         /\ server.pc = "accept" /\ server'.pc = "read" /\ server'.serving \in Clients
         /\ server'.sock # "open" => client[server'.serving].pc = "over"
         /\ UNCHANGED <<faults, client, up, down, printed>>
  <1> DEFINE c == Head(queue)
             st == IF client[c].pc = "over" THEN "ended" ELSE "open"
             r == [server EXCEPT !.pc = "read", !.serving = c, !.sock = st]
  <1>1. queue \in Seq(Clients) /\ queue # << >>
    BY DEF Types, Accept
  <1>2. c \in Clients /\ Tail(queue) \in Seq(Clients)
    BY <1>1, DropFirst
  <1>3. server' = r /\ queue' = Tail(queue)
    BY DEF Accept
  <1>4. server \in ServerType /\ st \in Sock
    BY DEF Types, Sock
  <1> HIDE DEF c
  <1>5. st # "open" => client[c].pc = "over"
    OBVIOUS
  <1> HIDE DEF st
  <1>6. r \in ServerType /\ r.pc = "read" /\ r.serving = c /\ r.sock = st /\ r.cmd = server.cmd
    BY <1>2, <1>4 DEF ServerType
  <1> HIDE DEF r
  <1>7. server.cmd = << >> /\ c # None
    BY <1>2, ServerIs, NoneAssumption DEF Accept
  <1>8. UNCHANGED <<faults, client, up, down, printed>> /\ server.pc = "accept"
    BY DEF Accept
  <1>9. /\ up \in [Clients -> Seq(Line)]
        /\ down \in [Clients -> Seq(PieceType)] /\ printed \in [Clients -> Seq(PieceType)]
    BY DEF Types
  <1>10. Types'
    BY <1>2, <1>3, <1>6, <1>7, <1>8, <1>9, ServerMoves
  <1> QED BY <1>2, <1>3, <1>5, <1>6, <1>8, <1>10

\* The server after it closed a connection.
LEMMA HangupIs ==
  ASSUME Types, server.pc = "read", server' = Hangup
  PROVE  /\ server' \in ServerType /\ server'.pc = "accept" /\ server'.serving = None
         /\ server'.sock = "open" /\ server'.cmd = << >>
  <1>1. server \in ServerType
    BY DEF Types
  <1>2. server.cmd = << >>
    BY ServerIs
  <1> QED BY <1>1, <1>2 DEF Hangup, ServerType, Sock

\* What the server reads is run, or is "exit".
LEMMA ReadCommandDoes ==
  ASSUME Types, ReadCommand
  PROVE  /\ Types'
         /\ server.pc = "read" /\ server.serving \in Clients
         /\ up[server.serving] # << >>
         /\ \/ server'.pc = "accept" /\ server'.serving = None /\ server'.sock = "open"
               /\ server'.cmd = << >>
            \/ /\ server'.pc = "run" /\ server'.serving = server.serving
               /\ server'.sock = server.sock /\ server'.cmd # <<Exit>>
               /\ \E n \in 1 .. Len(up[server.serving]) :
                    server'.cmd = SubSeq(up[server.serving], 1, n)
         /\ \E n \in 1 .. Len(up[server.serving]) :
              up'[server.serving] =
                SubSeq(up[server.serving], n + 1, Len(up[server.serving]))
         /\ \A d \in Clients : d # server.serving => up'[d] = up[d]
         /\ UNCHANGED <<faults, queue, client, down, printed>>
  <1> DEFINE c == server.serving
  <1>0. server.pc = "read" /\ c \in Clients /\ UNCHANGED <<faults, queue, client, down, printed>>
    BY ServerIs DEF ReadCommand
  <1>1. PICK n \in 1 .. Len(up[c]) :
          /\ up' = [up EXCEPT ![c] = SubSeq(up[c], n + 1, Len(up[c]))]
          /\ server' = IF SubSeq(up[c], 1, n) = <<Exit>> THEN Hangup
                       ELSE [server EXCEPT !.pc = "run", !.cmd = SubSeq(up[c], 1, n)]
    BY DEF ReadCommand
  <1> DEFINE cmd == SubSeq(up[c], 1, n)
             rest == SubSeq(up[c], n + 1, Len(up[c]))
  <1>2. up[c] \in Seq(Line) /\ Len(up[c]) \in Nat /\ n \in 0 .. Len(up[c]) /\ up[c] # << >>
    BY <1>0, <1>1, ClientIs, EmptySeq
  <1>3. rest \in Seq(Line)
    BY <1>2, DropItems
  <1>4. cmd \in Seq(Line) /\ cmd # << >>
    <2>1. 1 \in 1 .. Len(up[c]) + 1 /\ n \in 1 - 1 .. Len(up[c])
          /\ \A i \in 1 .. n : up[c][i] \in Line
      BY <1>1, <1>2, ElementOfSeq
    <2>2. cmd \in Seq(Line) /\ Len(cmd) = IF 1 <= n THEN n - 1 + 1 ELSE 0
      BY <1>2, <2>1, SubSeqProperties
    <2>3. Len(cmd) = n /\ n # 0
      BY <1>1, <2>2
    <2> QED BY <2>2, <2>3, EmptySeq
  <1> HIDE DEF cmd, rest
  <1>5. /\ up' \in [Clients -> Seq(Line)] /\ up'[c] = rest
        /\ \A d \in Clients : d # c => up'[d] = up[d]
    <2>1. up' = [up EXCEPT ![c] = rest] /\ up \in [Clients -> Seq(Line)]
      BY <1>1 DEF rest, Types
    <2> QED BY <1>0, <1>3, <2>1
  <1>6. /\ queue \in Seq(Clients) /\ server \in ServerType
        /\ down \in [Clients -> Seq(PieceType)] /\ printed \in [Clients -> Seq(PieceType)]
    BY DEF Types
  <1>7. CASE cmd = <<Exit>>
    <2>1. /\ server' \in ServerType /\ server'.pc = "accept" /\ server'.serving = None
          /\ server'.sock = "open" /\ server'.cmd = << >>
      BY <1>0, <1>1, <1>7, HangupIs DEF cmd
    <2>2. Types'
      BY <1>0, <1>5, <1>6, <2>1, ServerMoves
    <2> QED BY <1>0, <1>1, <1>2, <1>5, <2>1, <2>2 DEF rest
  <1>8. CASE cmd # <<Exit>>
    <2> DEFINE r == [server EXCEPT !.pc = "run", !.cmd = cmd]
    <2>1. server' = r
      BY <1>1, <1>8 DEF cmd
    <2>2. r \in ServerType /\ r.pc = "run" /\ r.cmd = cmd /\ r.serving = c
          /\ r.sock = server.sock
      BY <1>4, <1>6 DEF ServerType
    <2> HIDE DEF r
    <2>3. c # None
      BY <1>0, NoneAssumption
    <2>4. Types'
      BY <1>0, <1>4, <1>5, <1>6, <2>1, <2>2, <2>3, ServerMoves
    <2> QED BY <1>0, <1>1, <1>2, <1>5, <1>8, <2>1, <2>2, <2>4 DEF rest, cmd
  <1> QED BY <1>7, <1>8

\* The server finds its client gone.
LEMMA ReadEndDoes ==
  ASSUME Types, ReadEnd
  PROVE  /\ Types'
         /\ server.pc = "read" /\ server'.pc = "accept" /\ server'.serving = None
         /\ server'.cmd = << >>
         /\ UNCHANGED <<faults, queue, client, up, down, printed>>
  <1>1. server.pc = "read" /\ server' = Hangup
        /\ UNCHANGED <<faults, queue, client, up, down, printed>>
    BY DEF ReadEnd
  <1>2. /\ server' \in ServerType /\ server'.pc = "accept" /\ server'.serving = None
        /\ server'.cmd = << >>
    BY <1>1, HangupIs
  <1>3. /\ queue \in Seq(Clients) /\ up \in [Clients -> Seq(Line)]
        /\ down \in [Clients -> Seq(PieceType)] /\ printed \in [Clients -> Seq(PieceType)]
    BY DEF Types
  <1>4. Types'
    BY <1>1, <1>2, <1>3, ServerMoves
  <1> QED BY <1>1, <1>2, <1>4

\* The server is down: its clients lose their connections and nothing else.
Fallen ==
  /\ Types' /\ ~Running' /\ server'.serving = None /\ server'.cmd = << >>
  /\ server'.pc \in {"killed", "stopped"}
  /\ \A d \in Clients :
       /\ client'[d].pc = client[d].pc /\ client'[d].whole = client[d].whole
       /\ client'[d].cut = client[d].cut /\ client'[d].shown = client[d].shown
       /\ client'[d].answered = client[d].answered
  /\ UNCHANGED <<faults, up, down, printed>>

\* The end of the server's process.
LEMMA DownDoes ==
  ASSUME Types, NEW pc \in {"killed", "stopped"}, Down(pc),
         UNCHANGED <<faults, up, down, printed>>
  PROVE  Fallen /\ server'.pc = pc
  <1> DEFINE r == [server EXCEPT !.pc = pc, !.serving = None, !.cmd = << >>,
                                 !.lines = 0, !.rest = FALSE]
  <1>1. server' = r /\ queue' = << >>
    BY DEF Down
  <1>2. server \in ServerType /\ << >> \in Seq(Line) /\ 0 \in 0 .. MaxLines
    BY LineTypes DEF Types
  <1>3. r \in ServerType /\ r.pc = pc /\ r.serving = None /\ r.cmd = << >>
    BY <1>2 DEF ServerType
  <1> HIDE DEF r
  <1>4. ASSUME NEW d \in Clients
        PROVE  /\ client'[d] \in ClientType
               /\ client'[d].asked \in 0 .. MaxCmds[d]
               /\ client'[d].pc = client[d].pc /\ client'[d].whole = client[d].whole
               /\ client'[d].cut = client[d].cut /\ client'[d].shown = client[d].shown
               /\ client'[d].answered = client[d].answered
    <2>1. PICK st \in Sock : client'[d] = [client[d] EXCEPT !.sock = st]
      <3>1. CASE d = server.serving
        BY <3>1 DEF Down, Sock
      <3>2. CASE d # server.serving
        <4>1. client'[d] = [client[d] EXCEPT !.sock =
                             IF Contains(queue, d) THEN "reset" ELSE client[d].sock]
          BY <3>2 DEF Down
        <4>2. (IF Contains(queue, d) THEN "reset" ELSE client[d].sock) \in Sock
          BY ClientIs DEF Sock
        <4> QED BY <4>1, <4>2
      <3> QED BY <3>1, <3>2
    <2> DEFINE q == [client[d] EXCEPT !.sock = st]
    <2>2. /\ q \in ClientType /\ q.asked = client[d].asked
          /\ q.pc = client[d].pc /\ q.whole = client[d].whole
          /\ q.cut = client[d].cut /\ q.shown = client[d].shown
          /\ q.answered = client[d].answered
      BY ClientIs DEF ClientType
    <2> HIDE DEF q
    <2>3. client'[d] = q
      BY <2>1 DEF q
    <2> QED BY <2>2, <2>3, ClientIs
  <1>5. client' \in [Clients -> ClientType]
    <2>1. DOMAIN client' = Clients /\ client' = [d \in Clients |-> client'[d]]
      BY DEF Down
    <2> QED BY <1>4, <2>1
  <1>6. Types'
    <2>1. << >> \in Seq(Clients)
      OBVIOUS
    <2> QED BY <1>1, <1>3, <1>4, <1>5, <2>1 DEF Types
  <1>7. ~Running'
    BY <1>1, <1>3 DEF Running
  <1> QED BY <1>1, <1>3, <1>4, <1>6, <1>7 DEF Fallen

\* The server writes package <<h, t>> to its client: it is killed, or the package
\* is sent, or is lost with the connection.
Wrote(c, h, t) ==
  /\ server'.serving = c /\ client' = client
  /\ server'.sock # "open" => server.sock # "open"
  /\ IF server.sock = "open"
       THEN /\ down'[c] = down[c] \o <<h, t>>
            /\ printed'[c] = printed[c] \o Text(<<h, t>>)
            /\ \A d \in Clients : d # c => down'[d] = down[d] /\ printed'[d] = printed[d]
       ELSE UNCHANGED <<down, printed>>

\* A write ends the server, or sends the package, or loses it.
LEMMA WriteDoes ==
  ASSUME Types, server.pc = "run", NEW h \in PieceType, NEW t \in PieceType,
         NEW s \in ServerType, s.serving = server.serving, s.pc \in {"read", "run"},
         (s.cmd # << >>) <=> (s.pc = "run"),
         Write(<<h, t>>, s), UNCHANGED <<faults, up>>
  PROVE  \/ Fallen /\ server'.pc = "killed" /\ server.sock = "dead"
         \/ /\ Types' /\ Wrote(server.serving, h, t)
            /\ server'.pc = s.pc /\ server'.cmd = s.cmd
  <1> DEFINE c == server.serving
  <1>1. CASE server.sock = "dead"
    BY <1>1, DownDoes DEF Write
  <1>2. CASE server.sock # "dead"
    <2>1. c \in Clients /\ c # None
      BY ServerIs, NoneAssumption
    <2>2. PICK st \in Sock : server' = [s EXCEPT !.sock = st]
                            /\ (server.sock = "open" => st = "open")
      <3>1. server.sock = "open" \/ server.sock = "ended" \/ server.sock = "reset"
        BY <1>2, ServerIs DEF Sock
      <3>2. CASE server.sock = "open"
        BY <1>2, <3>2 DEF Write, Sock
      <3>3. CASE server.sock = "ended"
        BY <1>2, <3>3 DEF Write, Sock
      <3>4. CASE server.sock = "reset"
        BY <1>2, <3>4 DEF Write, Sock
      <3> QED BY <3>1, <3>2, <3>3, <3>4
    <2> DEFINE r == [s EXCEPT !.sock = st]
    <2>3. r \in ServerType /\ r.pc = s.pc /\ r.cmd = s.cmd /\ r.serving = c /\ r.sock = st
      BY DEF ServerType
    <2> HIDE DEF r
    <2>4. server' = r /\ UNCHANGED <<queue, client>>
      BY <1>2, <2>2 DEF Write, r
    <2> DEFINE ps == <<h, t>>
               dn == down[c] \o ps
               pr == printed[c] \o Text(ps)
    <2>5. dn \in Seq(PieceType) /\ pr \in Seq(PieceType)
      <3>1. Text(<<h, t>>) \in Seq(PieceType)
        BY TextIs
      <3>2. <<h, t>> \in Seq(PieceType)
        OBVIOUS
      <3> QED BY <2>1, <3>1, <3>2, ClientIs, ConcatProperties
    <2>6. /\ queue \in Seq(Clients) /\ up \in [Clients -> Seq(Line)]
          /\ down \in [Clients -> Seq(PieceType)] /\ printed \in [Clients -> Seq(PieceType)]
      BY DEF Types
    <2>7. IF server.sock = "open" THEN /\ down' = [down EXCEPT ![c] = dn]
                                       /\ printed' = [printed EXCEPT ![c] = pr]
                                  ELSE UNCHANGED <<down, printed>>
      BY <1>2 DEF Write
    <2> HIDE DEF dn, pr
    <2>8. /\ down' \in [Clients -> Seq(PieceType)] /\ printed' \in [Clients -> Seq(PieceType)]
          /\ IF server.sock = "open"
               THEN /\ down'[c] = dn /\ printed'[c] = pr
                    /\ \A d \in Clients : d # c => down'[d] = down[d] /\ printed'[d] = printed[d]
               ELSE UNCHANGED <<down, printed>>
      BY <2>1, <2>5, <2>6, <2>7
    <2>9. Types'
      BY <2>1, <2>3, <2>4, <2>6, <2>8, ServerMoves
    <2>10. Wrote(c, h, t)
      BY <2>2, <2>3, <2>4, <2>8 DEF Wrote, dn, pr, ps
    <2> QED BY <2>3, <2>4, <2>9, <2>10
  <1> QED BY <1>1, <1>2

\* A package with a line of text.
LEMMA WriteLineDoes ==
  ASSUME Types, WriteLine
  PROVE  /\ server.pc = "run"
         /\ \/ Fallen /\ server'.pc = "killed" /\ server.sock = "dead"
            \/ \E h \in PieceType : \E t \in PieceType :
                 /\ h.head /\ h.text /\ ~h.end /\ ~t.head
                 /\ Types' /\ Wrote(server.serving, h, t)
                 /\ server'.pc = "run" /\ server'.cmd = server.cmd
         /\ UNCHANGED <<faults, up>>
  <1>1. PICK long \in BOOLEAN :
          Write(<<Piece(TRUE, FALSE, TRUE), Piece(FALSE, FALSE, long)>>,
                [server EXCEPT !.lines = server.lines + 1, !.rest = long])
    BY DEF WriteLine
  <1>2. /\ server.pc = "run" /\ server.lines < MaxLines /\ UNCHANGED <<faults, up>>
    BY DEF WriteLine
  <1>3. Last(server.cmd) \in Line
    BY <1>2, ServerIs, TakeLast
  <1>4. \A a, b, d \in BOOLEAN :
          /\ Piece(a, b, d) \in PieceType
          /\ Piece(a, b, d).head = a /\ Piece(a, b, d).end = b /\ Piece(a, b, d).text = d
    BY <1>3, ServerIs DEF Piece, PieceType
  <1> DEFINE s == [server EXCEPT !.lines = server.lines + 1, !.rest = long]
  <1>5. server.lines + 1 \in 0 .. MaxLines
    BY <1>2, ServerIs, LineTypes
  <1>6. s \in ServerType /\ s.serving = server.serving /\ s.pc = "run" /\ s.cmd = server.cmd
        /\ s.cmd # << >>
    BY <1>2, <1>5, ServerIs DEF ServerType, Types
  <1>7. PICK h \in PieceType : h = Piece(TRUE, FALSE, TRUE) /\ h.head /\ h.text /\ ~h.end
    BY <1>4
  <1>8. PICK t \in PieceType : t = Piece(FALSE, FALSE, long) /\ ~t.head
    BY <1>4
  <1>9. Write(<<h, t>>, s)
    BY <1>1, <1>7, <1>8
  <1> HIDE DEF s
  <1>10. \/ Fallen /\ server'.pc = "killed" /\ server.sock = "dead"
         \/ /\ Types' /\ Wrote(server.serving, h, t)
            /\ server'.pc = s.pc /\ server'.cmd = s.cmd
    BY <1>2, <1>6, <1>9, WriteDoes
  <1> QED BY <1>2, <1>6, <1>7, <1>8, <1>10

\* The last package, which has no text.
LEMMA WriteEndDoes ==
  ASSUME Types, WriteEnd
  PROVE  /\ server.pc = "run"
         /\ \/ Fallen /\ server'.pc = "killed" /\ server.sock = "dead"
            \/ \E h \in PieceType : \E t \in PieceType :
                 /\ h.head /\ ~h.text /\ h.end /\ ~t.head
                 /\ Types' /\ Wrote(server.serving, h, t)
                 /\ server'.pc = "read" /\ server'.cmd = << >>
         /\ UNCHANGED <<faults, up>>
  <1> DEFINE s == [server EXCEPT !.pc = "read", !.cmd = << >>, !.lines = 0, !.rest = FALSE]
  <1>1. PICK old \in IF server.lines = 0 THEN BOOLEAN ELSE {server.rest} :
          Write(<<Piece(TRUE, TRUE, FALSE), Piece(FALSE, FALSE, old)>>, s)
    BY DEF WriteEnd
  <1>2. /\ server.pc = "run" /\ UNCHANGED <<faults, up>>
    BY DEF WriteEnd
  <1>3. Last(server.cmd) \in Line
    BY <1>2, ServerIs, TakeLast
  <1>4. \A a, b, d \in BOOLEAN :
          /\ Piece(a, b, d) \in PieceType
          /\ Piece(a, b, d).head = a /\ Piece(a, b, d).end = b /\ Piece(a, b, d).text = d
    BY <1>3, ServerIs DEF Piece, PieceType
  <1>5. old \in BOOLEAN
    BY <1>1, ServerIs
  <1>6. s \in ServerType /\ s.serving = server.serving /\ s.pc = "read" /\ s.cmd = << >>
    <2>1. server \in ServerType /\ << >> \in Seq(Line) /\ 0 \in 0 .. MaxLines
      BY LineTypes DEF Types
    <2> QED BY <2>1 DEF ServerType
  <1>7. PICK h \in PieceType : h = Piece(TRUE, TRUE, FALSE) /\ h.head /\ ~h.text /\ h.end
    BY <1>4
  <1>8. PICK t \in PieceType : t = Piece(FALSE, FALSE, old) /\ ~t.head
    BY <1>4, <1>5
  <1> HIDE DEF s
  <1>9. Write(<<h, t>>, s)
    BY <1>1, <1>7, <1>8
  <1>10. \/ Fallen /\ server'.pc = "killed" /\ server.sock = "dead"
         \/ /\ Types' /\ Wrote(server.serving, h, t)
            /\ server'.pc = s.pc /\ server'.cmd = s.cmd
    BY <1>2, <1>6, <1>9, WriteDoes
  <1> QED BY <1>2, <1>6, <1>7, <1>8, <1>10

\* The server is stopped.
LEMMA DieDoes ==
  ASSUME Types, Die
  PROVE  Fallen /\ server'.pc = "stopped"
  BY DownDoes DEF Die

\* The user closes, or is made to.
LEMMA Closes ==
  ASSUME Types, NEW c \in Clients,
         TypeExit(c) \/ TypeFails(c) \/ TypeEOF(c) \/ crashHandler(c)
  PROVE  /\ client[c].pc \in {"prompt", "read"}
         /\ \E ls \in {<< >>, <<Exit>>} : Close(c, ls)
  BY DEF TypeExit, TypeFails, TypeEOF, crashHandler

\* Every step keeps the types.
LEMMA StepTypes ==
  ASSUME Types, Next
  PROVE  Types' /\ faults' = faults
  <1>1. ASSUME NEW c \in Clients, ClientStep(c) PROVE Types' /\ faults' = faults
    <2>1. CASE Connect(c)
      BY <2>1, ConnectDoes DEF Connect
    <2>2. CASE Type(c) \/ TypeNothing(c)
      BY <2>2, TypeDoes
    <2>3. CASE ReadPackage(c)
      BY <2>3, ReadPackageDoes
    <2>4. CASE ReadFails(c)
      BY <2>4, ReadFailsDoes
    <2>5. CASE TypeExit(c) \/ TypeFails(c) \/ TypeEOF(c) \/ crashHandler(c)
      BY <2>5, Closes, CloseDoes
    <2> QED BY <1>1, <2>1, <2>2, <2>3, <2>4, <2>5 DEF ClientStep
  <1>2. CASE Accept
    BY <1>2, AcceptDoes
  <1>3. CASE ReadCommand
    BY <1>3, ReadCommandDoes
  <1>4. CASE ReadEnd
    BY <1>4, ReadEndDoes
  <1>5. CASE WriteLine
    BY <1>5, WriteLineDoes DEF Fallen
  <1>6. CASE WriteEnd
    BY <1>6, WriteEndDoes DEF Fallen
  <1>7. CASE Die
    BY <1>7, DieDoes DEF Fallen
  <1> QED BY <1>1, <1>2, <1>3, <1>4, <1>5, <1>6, <1>7 DEF Next, ServerStep

-----------------------------------------------------------------------------
(* Who has closed.                                                         *)

\* A server that is down knows of no client.
LEMMA FallenPeers ==
  ASSUME Types, Peers, Fallen
  PROVE  Peers'
  BY DEF Fallen, Peers

\* A write finds out about a client that is gone, and about no other.
LEMMA WrotePeers ==
  ASSUME Types, Peers, server.pc = "run", server'.pc \in {"run", "read"},
         NEW h, NEW t, Wrote(server.serving, h, t)
  PROVE  Peers'
  <1>1. Running' <=> Running
    BY DEF Running
  <1> QED BY <1>1 DEF Wrote, Peers

\* Every step keeps Peers.
LEMMA StepPeers ==
  ASSUME Types, Peers, Next
  PROVE  Peers'
  <1>1. ASSUME NEW c \in Clients, ClientStep(c) PROVE Peers'
    <2>0. ASSUME server' = server, \A d \in Clients : d # c => client'[d] = client[d],
                 client'[c].sock # "open" => client[c].sock # "open",
                 client[c].pc # "over", client'[c].cut = client[c].cut
          PROVE  Peers'
      <3>1. ~client'[c].cut
        BY <2>0 DEF Peers
      <3>2. server.serving = None \/ server.serving \in Clients
        BY ServerIs
      <3> QED BY <2>0, <3>1, <3>2 DEF Peers, Running
    <2>1. CASE Connect(c)
      <3>1. /\ \A d \in Clients : d # c => client'[d] = client[d]
            /\ client[c].pc = "start" /\ client'[c].sock = client[c].sock
            /\ client'[c].cut = client[c].cut
        BY <2>1, ConnectDoes
      <3>2. server' = server
        BY <2>1 DEF Connect
      <3> QED BY <2>0, <3>1, <3>2
    <2>2. CASE Type(c) \/ TypeNothing(c)
      <3>1. /\ \A d \in Clients : d # c => client'[d] = client[d]
            /\ client[c].pc = "prompt" /\ client'[c].cut = client[c].cut
            /\ client[c].sock = "open" => client'[c].sock = "open"
            /\ server' = server
        BY <2>2, TypeDoes
      <3> QED BY <2>0, <3>1
    <2>3. CASE ReadPackage(c)
      <3>1. /\ \A d \in Clients : d # c => client'[d] = client[d]
            /\ client[c].pc = "read" /\ client'[c].cut = client[c].cut
            /\ client'[c].sock = client[c].sock /\ server' = server
        BY <2>3, ReadPackageDoes
      <3> QED BY <2>0, <3>1
    <2>4. CASE ReadFails(c)
      <3>1. /\ \A d \in Clients : d # c => client'[d] = client[d]
            /\ client[c].pc = "read" /\ client'[c].cut = client[c].cut
            /\ client[c].sock # "open" /\ server' = server
        BY <2>4, ReadFailsDoes
      <3> QED BY <2>0, <3>1
    <2>5. CASE TypeExit(c) \/ TypeFails(c) \/ TypeEOF(c) \/ crashHandler(c)
      <3>1. PICK ls \in {<< >>, <<Exit>>} : Close(c, ls)
        BY <2>5, Closes
      <3>2. /\ \A d \in Clients : d # c => client'[d] = client[d]
            /\ client'[c].pc = "over" /\ client'[c].sock = client[c].sock
            /\ server'.pc = server.pc /\ server'.serving = server.serving
            /\ server.serving # c => server' = server
        BY <3>1, CloseDoes
      <3>3. server.serving = None \/ server.serving \in Clients
        BY ServerIs
      <3> QED BY <3>2, <3>3 DEF Peers, Running
    <2> QED BY <1>1, <2>1, <2>2, <2>3, <2>4, <2>5 DEF ClientStep
  <1>2. CASE Accept
    BY <1>2, AcceptDoes DEF Peers, Running
  <1>3. CASE ReadCommand
    <2>1. server.pc = "read" /\ client' = client
          /\ \/ server'.pc = "accept" /\ server'.serving = None
             \/ server'.pc = "run" /\ server'.serving = server.serving
                /\ server'.sock = server.sock
      BY <1>3, ReadCommandDoes
    <2> QED BY <2>1 DEF Peers, Running
  <1>4. CASE ReadEnd
    BY <1>4, ReadEndDoes DEF Peers, Running
  <1>5. CASE WriteLine
    BY <1>5, WriteLineDoes, FallenPeers, WrotePeers
  <1>6. CASE WriteEnd
    BY <1>6, WriteEndDoes, FallenPeers, WrotePeers
  <1>7. CASE Die
    BY <1>7, DieDoes, FallenPeers
  <1> QED BY <1>1, <1>2, <1>3, <1>4, <1>5, <1>6, <1>7 DEF Next, ServerStep

-----------------------------------------------------------------------------
(* Who is left alone by a step.                                            *)

\* The end of the server leaves the clients as they are.
LEMMA FallenIsQuiet ==
  ASSUME Types, Fallen, NEW d \in Clients
  PROVE  Quiet(d)
  BY DEF Fallen, Quiet, Runs

\* A client leaves the others alone.
LEMMA ClientQuiet ==
  ASSUME Types, NEW c \in Clients, ClientStep(c), NEW d \in Clients, d # c
  PROVE  Quiet(d)
  <1>0. ASSUME client'[d] = client[d], up'[d] = up[d], down'[d] = down[d],
               printed'[d] = printed[d], server'.pc = server.pc,
               server'.serving = server.serving
        PROVE  Quiet(d)
    BY <1>0 DEF Quiet, Runs, Running
  <1>1. CASE Connect(c)
    <2>1. client'[d] = client[d]
      BY <1>1, ConnectDoes
    <2> QED BY <1>0, <1>1, <2>1 DEF Connect
  <1>2. CASE Type(c) \/ TypeNothing(c)
    <2>1. client'[d] = client[d] /\ up'[d] = up[d] /\ printed'[d] = printed[d]
          /\ server' = server /\ down' = down
      BY <1>2, TypeDoes
    <2> QED BY <1>0, <2>1
  <1>3. CASE ReadPackage(c)
    <2>1. client'[d] = client[d] /\ down'[d] = down[d]
          /\ server' = server /\ up' = up /\ printed' = printed
      BY <1>3, ReadPackageDoes
    <2> QED BY <1>0, <2>1
  <1>4. CASE ReadFails(c)
    <2>1. client'[d] = client[d] /\ down' = down
          /\ server' = server /\ up' = up /\ printed' = printed
      BY <1>4, ReadFailsDoes
    <2> QED BY <1>0, <2>1
  <1>5. CASE TypeExit(c) \/ TypeFails(c) \/ TypeEOF(c) \/ crashHandler(c)
    <2>1. PICK ls \in {<< >>, <<Exit>>} : Close(c, ls)
      BY <1>5, Closes
    <2>2. /\ client'[d] = client[d] /\ up'[d] = up[d]
          /\ down'[d] = down[d] /\ printed'[d] = printed[d]
          /\ server'.pc = server.pc /\ server'.serving = server.serving
      BY <2>1, CloseDoes
    <2> QED BY <1>0, <2>2
  <1> QED BY <1>1, <1>2, <1>3, <1>4, <1>5 DEF ClientStep

\* The server leaves those alone that it does not serve, and, in Accept and ReadEnd,
\* the one it does.
LEMMA ServerQuiet ==
  ASSUME Types, ServerStep \/ Die, NEW d \in Clients,
         d # server.serving \/ Accept \/ ReadEnd
  PROVE  Quiet(d)
  <1>1. CASE Accept
    <2>1. /\ server.pc = "accept" /\ server'.pc = "read"
          /\ client' = client /\ up' = up /\ down' = down /\ printed' = printed
      BY <1>1, AcceptDoes
    <2> QED BY <2>1 DEF Quiet, Runs, Running
  <1>2. CASE ReadEnd
    <2>1. /\ server.pc = "read" /\ server'.pc = "accept"
          /\ client' = client /\ up' = up /\ down' = down /\ printed' = printed
      BY <1>2, ReadEndDoes
    <2> QED BY <2>1 DEF Quiet, Runs, Running
  <1>3. CASE ReadCommand /\ d # server.serving
    <2>1. /\ server.pc = "read"
          /\ client' = client /\ up'[d] = up[d] /\ down' = down /\ printed' = printed
      BY <1>3, ReadCommandDoes
    <2>2. server'.pc = "accept" \/ server'.serving = server.serving
      BY <1>3, ReadCommandDoes
    <2>3. ~(server'.pc = "run" /\ server'.serving = d)
      BY <1>3, <2>2
    <2> QED BY <2>1, <2>3 DEF Quiet, Runs, Running
  <1>4. ASSUME server.pc = "run", d # server.serving,
               NEW h \in PieceType, NEW t \in PieceType, Wrote(server.serving, h, t), up' = up
        PROVE  Quiet(d)
    <2>1. /\ client' = client /\ up' = up /\ down'[d] = down[d] /\ printed'[d] = printed[d]
          /\ server'.serving # d
      BY <1>4 DEF Wrote
    <2> QED BY <1>4, <2>1 DEF Quiet, Runs, Running
  <1>5. CASE WriteLine /\ d # server.serving
    BY <1>4, <1>5, WriteLineDoes, FallenIsQuiet
  <1>6. CASE WriteEnd /\ d # server.serving
    BY <1>4, <1>6, WriteEndDoes, FallenIsQuiet
  <1>7. CASE Die
    BY <1>7, DieDoes, FallenIsQuiet
  <1> QED BY <1>1, <1>2, <1>3, <1>5, <1>6, <1>7 DEF ServerStep

-----------------------------------------------------------------------------
(* Turns.                                                                  *)

\* A client that is in step sends only when nothing of it waits or runs.
LEMMA ClientTurn ==
  ASSUME Types, Peers, NEW c \in Clients, Turn(c), Flow(c), ClientStep(c)
  PROVE  Turn(c)'
  <1> USE DEF Turn, OutOfStep
  <1>1. CASE Connect(c)
    <2>1. /\ client[c].pc = "start"
          /\ client'[c].pc = "prompt" \/ (client'[c].pc = "over" /\ ~Running)
          /\ client'[c].cut = client[c].cut /\ client'[c].whole = client[c].whole
      BY <1>1, ConnectDoes
    <2>2. server' = server /\ up' = up
      BY <1>1 DEF Connect
    <2> QED BY <2>1, <2>2 DEF Runs, Running
  <1>2. CASE Type(c) \/ TypeNothing(c)
    <2>1. /\ client[c].pc = "prompt" /\ client'[c].pc = "read" /\ server' = server
          /\ client'[c].cut = client[c].cut /\ client'[c].whole = client[c].whole
          /\ up'[c] = up[c] \/ \E n \in Line : up'[c] = Append(up[c], n)
      BY <1>2, TypeDoes
    <2>2. ASSUME up[c] = << >> PROVE Len(up'[c]) <= 1
      <3>1. CASE up'[c] = up[c]
        BY <2>2, <3>1, EmptySeq
      <3>2. ASSUME NEW n \in Line, up'[c] = Append(up[c], n) PROVE Len(up'[c]) <= 1
        <4>1. << >> \in Seq(Line) /\ Len(<< >>) = 0
          OBVIOUS
        <4>2. Len(Append(<< >>, n)) = 0 + 1
          BY <4>1, AppendProperties
        <4> QED BY <2>2, <3>2, <4>2
      <3> QED BY <2>1, <3>1, <3>2
    <2> QED BY <2>1, <2>2 DEF Runs, Running
  <1>3. CASE ReadPackage(c)
    <2>1. /\ client[c].pc = "read" /\ server' = server /\ up' = up /\ 1 <= Len(down[c])
          /\ client'[c].cut = client[c].cut
          /\ client'[c].whole <=> client[c].whole /\ down[c][1].head
          /\ client'[c].pc \in {"prompt", "read"}
          /\ down[c][1].head => (client'[c].pc = "prompt" <=> down[c][1].end)
      BY <1>3, ReadPackageDoes
    <2> SUFFICES ASSUME Running, client[c].whole, ~client[c].cut, down[c][1].head
                 PROVE  Turn(c)'
      BY <2>1 DEF Running
    <2>2. ASSUME client'[c].pc = "prompt"
          PROVE  ~Runs(c) /\ up[c] = << >>
      <3>1. down[c][1].end
        BY <2>1, <2>2
      <3>2. PICK n \in 0 .. Len(down[c]) :
              \E f \in [0 .. n -> 0 .. Len(printed[c])] : Packages(c, n, f)
        BY <2>1 DEF Flow, Split
      <3>3. PICK f : Packages(c, n, f)
        BY <3>2
      <3>4. n \in Nat /\ Len(down[c]) = 2 * n
        BY <3>2, <3>3 DEF Packages
      <3>5. 1 \in 1 .. n /\ 2 * 1 - 1 = 1
        BY <2>1, <3>4
      <3> QED BY <3>1, <3>3, <3>5 DEF Packages
    <2> QED BY <2>1, <2>2 DEF Runs, Running
  <1>4. CASE ReadFails(c)
    <2>1. client[c].sock # "open" /\ server' = server
      BY <1>4, ReadFailsDoes
    <2> QED BY <2>1 DEF Peers, Running
  <1>5. CASE TypeExit(c) \/ TypeFails(c) \/ TypeEOF(c) \/ crashHandler(c)
    <2>1. PICK ls \in {<< >>, <<Exit>>} : Close(c, ls)
      BY <1>5, Closes
    <2>2. /\ client'[c].pc = "over" /\ client'[c].whole = client[c].whole
          /\ client'[c].cut <=> client[c].cut \/ client[c].pc = "read"
          /\ up[c] = << >> => up'[c] = << >> \/ up'[c] = <<Exit>>
          /\ server'.pc = server.pc /\ server'.serving = server.serving
      BY <2>1, CloseDoes
    <2>3. client[c].pc \in {"prompt", "read"}
      BY <1>5, Closes
    <2>4. Len(<< >>) <= 1 /\ Len(<<Exit>>) <= 1
      OBVIOUS
    <2>5. ASSUME Running', ~OutOfStep(c)'
          PROVE  /\ up'[c] = << >> \/ up'[c] = <<Exit>>
                 /\ ~Runs(c)
      <3>1. Running /\ client[c].pc = "prompt" /\ ~client[c].cut /\ client[c].whole
        BY <2>2, <2>3, <2>5 DEF Running
      <3> QED BY <2>2, <3>1
    <2>6. ASSUME Running', ~OutOfStep(c)' PROVE Len(up'[c]) <= 1
      BY <2>4, <2>5, <2>6
    <2>7. Runs(c)' <=> Runs(c)
      BY <2>2 DEF Runs
    <2> QED BY <2>2, <2>5, <2>6, <2>7
  <1> QED BY <1>1, <1>2, <1>3, <1>4, <1>5 DEF ClientStep

\* The one command of a client that is in step.
LEMMA OneCommand ==
  ASSUME Types, NEW c \in Clients, Len(up[c]) <= 1, NEW n \in 1 .. Len(up[c])
  PROVE  /\ SubSeq(up[c], n + 1, Len(up[c])) = << >>
         /\ SubSeq(up[c], 1, n) = up[c] /\ Len(up[c]) = 1
  <1>0. up[c] \in Seq(Line) /\ Len(up[c]) \in Nat
    BY ClientIs
  <1>1. up[c] \in Seq(Line) /\ Len(up[c]) = 1 /\ n = 1
    <2>1. PICK k \in Nat : k = Len(up[c])
      BY <1>0
    <2>2. k <= 1 /\ n \in 1 .. k
      BY <2>1
    <2>3. k = 1 /\ n = 1
      BY <2>2
    <2> QED BY <1>0, <2>1, <2>3
  <1>2. SubSeq(up[c], 2, 1) = << >>
    OBVIOUS
  <1>3. SubSeq(up[c], 1, 1) = <<up[c][1]>>
    BY <1>1, FirstItems
  <1>4. up[c] = <<up[c][1]>>
    BY <1>1
  <1> QED BY <1>1, <1>2, <1>3, <1>4

\* The server takes the one line there is, or none.
LEMMA ServerTurn ==
  ASSUME Types, Peers, ServerStep \/ Die, NEW c \in Clients, c = server.serving, Turn(c), Flow(c)
  PROVE  Turn(c)'
  <1> USE DEF Turn, OutOfStep
  <1>0. ASSUME Quiet(c) PROVE Turn(c)'
    BY <1>0, QuietKeeps, StepTypes DEF Next
  <1>1. CASE Accept \/ ReadEnd
    BY <1>0, <1>1, ServerQuiet
  <1>2. CASE ReadCommand
    <2>1. /\ server.pc = "read" /\ up[c] # << >> /\ client' = client
          /\ \/ server'.pc = "accept"
             \/ /\ server'.pc = "run" /\ server'.cmd # <<Exit>>
                /\ \E n \in 1 .. Len(up[c]) : server'.cmd = SubSeq(up[c], 1, n)
          /\ \E n \in 1 .. Len(up[c]) : up'[c] = SubSeq(up[c], n + 1, Len(up[c]))
      BY <1>2, ReadCommandDoes
    <2> SUFFICES ASSUME ~OutOfStep(c) PROVE Turn(c)'
      BY <2>1
    <2>2. Running
      BY <2>1 DEF Running
    <2>3. up'[c] = << >> /\ (server'.pc = "run" => server'.cmd = up[c])
      BY <2>1, <2>2, OneCommand
    <2>4. Runs(c)' => client[c].pc = "read"
      <3>1. Runs(c)' => up[c] # <<Exit>>
        BY <2>1, <2>3 DEF Runs
      <3> QED BY <2>1, <2>2, <3>1, ClientIs
    <2>5. Len(<< >>) = 0
      OBVIOUS
    <2> QED BY <2>1, <2>3, <2>4, <2>5
  <1>3. ASSUME server.pc = "run", NEW h, NEW t, Wrote(c, h, t), up' = up
        PROVE  Turn(c)'
    <2>1. client' = client /\ Runs(c) /\ Running
      BY <1>3 DEF Wrote, Runs, Running
    <2> QED BY <1>3, <2>1
  <1>4. CASE WriteLine
    BY <1>0, <1>3, <1>4, WriteLineDoes, FallenIsQuiet
  <1>5. CASE WriteEnd
    BY <1>0, <1>3, <1>5, WriteEndDoes, FallenIsQuiet
  <1>6. CASE Die
    BY <1>0, <1>6, DieDoes, FallenIsQuiet
  <1> QED BY <1>1, <1>2, <1>4, <1>5, <1>6 DEF ServerStep

-----------------------------------------------------------------------------
(* The three parts that say why a client is out of step.                   *)

\* A client may at most change what the server knows of its socket.
LEMMA ClientKeepsServer ==
  ASSUME Types, NEW c \in Clients, ClientStep(c)
  PROVE  /\ server'.pc = server.pc /\ server'.serving = server.serving
         /\ server'.cmd = server.cmd
  <1>1. CASE Connect(c)
    BY <1>1 DEF Connect
  <1>2. CASE Type(c) \/ TypeNothing(c)
    BY <1>2, TypeDoes
  <1>3. CASE ReadPackage(c)
    BY <1>3, ReadPackageDoes
  <1>4. CASE ReadFails(c)
    BY <1>4, ReadFailsDoes
  <1>5. CASE TypeExit(c) \/ TypeFails(c) \/ TypeEOF(c) \/ crashHandler(c)
    BY <1>5, Closes, CloseDoes
  <1> QED BY <1>1, <1>2, <1>3, <1>4, <1>5 DEF ClientStep

\* What a step does to the marks of the client that takes it.
LEMMA ClientMarks ==
  ASSUME Types, NEW c \in Clients, ClientStep(c)
  PROVE  /\ client[c].cut => client'[c].cut
         /\ client'[c].whole => client[c].whole
         /\ client[c].whole /\ ~client'[c].whole =>
              client[c].pc = "read" /\ Split(c)
  <1>1. CASE Connect(c)
    BY <1>1, ConnectDoes
  <1>2. CASE Type(c) \/ TypeNothing(c)
    BY <1>2, TypeDoes
  <1>3. CASE ReadPackage(c)
    <2>1. /\ client[c].pc = "read" /\ client'[c].cut = client[c].cut
          /\ client'[c].whole <=> client[c].whole /\ down[c][1].head
          /\ 1 <= Len(down[c])
      BY <1>3, ReadPackageDoes
    <2>2. down[c] # << >>
      BY <2>1, EmptySeq
    <2> QED BY <2>1, <2>2 DEF Split
  <1>4. CASE ReadFails(c)
    BY <1>4, ReadFailsDoes
  <1>5. CASE TypeExit(c) \/ TypeFails(c) \/ TypeEOF(c) \/ crashHandler(c)
    BY <1>5, Closes, CloseDoes
  <1> QED BY <1>1, <1>2, <1>3, <1>4, <1>5 DEF ClientStep

\* Only its own steps mark a client.
LEMMA Marks ==
  ASSUME Types, Next, NEW d \in Clients
  PROVE  /\ client[d].cut => client'[d].cut
         /\ client'[d].whole => client[d].whole
         /\ client[d].whole /\ ~client'[d].whole => client[d].pc = "read" /\ Split(d)
  <1>1. CASE Quiet(d)
    BY <1>1 DEF Quiet
  <1>2. ASSUME NEW c \in Clients, ClientStep(c)
        PROVE  c = d \/ Quiet(d)
    BY <1>2, ClientQuiet
  <1>3. ASSUME ServerStep \/ Die
        PROVE  client' = client \/ Quiet(d)
    <2>1. CASE WriteLine
      BY <2>1, WriteLineDoes, FallenIsQuiet DEF Wrote
    <2>2. CASE WriteEnd
      BY <2>2, WriteEndDoes, FallenIsQuiet DEF Wrote
    <2>3. CASE Die
      BY <2>3, DieDoes, FallenIsQuiet
    <2> QED BY <1>3, <2>1, <2>2, <2>3 DEF ServerStep, Accept, ReadCommand, ReadEnd
  <1> QED BY <1>1, <1>2, <1>3, ClientMarks DEF Next

\* A client takes part of a package for a whole only after a short read.
LEMMA StepTold ==
  ASSUME Types, Told, Flows, Next
  PROVE  Told'
  <1> SUFFICES ASSUME NEW d \in Clients, ~client'[d].whole
               PROVE  "short" \in faults'
    BY DEF Told
  <1>1. client[d].whole => client[d].pc = "read" /\ Split(d)
    BY Marks
  <1>2. "short" \in faults
    BY <1>1 DEF Told, Flows, Flow
  <1> QED BY <1>2, StepTypes

\* A client in step has one line on its way, and it is not an "exit" that is run.
LEMMA StepRunsTyped ==
  ASSUME Types, Turns, RunsTyped, Next
  PROVE  RunsTyped'
  <1>1. ASSUME server'.cmd = server.cmd, server'.serving = server.serving,
               server'.pc = server.pc
        PROVE  RunsTyped'
    <2>1. Len(<< >>) = 0 /\ << >> # <<Exit>>
      OBVIOUS
    <2>2. CASE server.cmd = << >>
      BY <1>1, <2>1, <2>2 DEF RunsTyped
    <2>3. CASE server.cmd # << >>
      <3>1. server.serving \in Clients
        BY <2>3, ServerIs
      <3>2. OutOfStep(server.serving) => OutOfStep(server.serving)'
        BY <1>1, <3>1, Marks DEF OutOfStep
      <3> QED BY <1>1, <3>2 DEF RunsTyped
    <2> QED BY <2>2, <2>3
  <1>2. ASSUME server'.cmd = << >> PROVE RunsTyped'
    <2>1. Len(<< >>) = 0 /\ << >> # <<Exit>>
      OBVIOUS
    <2> QED BY <1>2, <2>1 DEF RunsTyped
  <1>3. ASSUME NEW c \in Clients, ClientStep(c) PROVE RunsTyped'
    BY <1>1, <1>3, ClientKeepsServer
  <1>4. CASE Accept
    <2>1. server.cmd = << >> /\ server'.cmd = server.cmd
      <3>1. server.pc = "accept" /\ server'.pc = "read" /\ Types'
        BY <1>4, AcceptDoes
      <3> QED BY <3>1 DEF Types
    <2> QED BY <1>2, <2>1
  <1>5. CASE ReadCommand
    <2> DEFINE c == server.serving
    <2>1. c \in Clients /\ server.pc = "read" /\ client' = client
      BY <1>5, ReadCommandDoes
    <2>2. CASE server'.cmd = << >>
      BY <1>2, <2>2
    <2>3. CASE server'.cmd # << >>
      <3>1. /\ server'.serving = c /\ server'.cmd # <<Exit>>
            /\ \E n \in 1 .. Len(up[c]) : server'.cmd = SubSeq(up[c], 1, n)
        BY <1>5, <2>3, ReadCommandDoes
      <3>2. ASSUME ~OutOfStep(c) PROVE Len(server'.cmd) = 1
        <4>1. Len(up[c]) <= 1
          BY <2>1, <3>2 DEF Turns, Turn, Running
        <4> QED BY <2>1, <3>1, <4>1, OneCommand
      <3> HIDE DEF c
      <3>3. OutOfStep(server.serving)' <=> OutOfStep(c)
        BY <2>1, <3>1 DEF OutOfStep
      <3> QED BY <3>1, <3>2, <3>3 DEF RunsTyped
    <2> QED BY <2>2, <2>3
  <1>6. CASE ReadEnd
    BY <1>2, <1>6, ReadEndDoes
  <1>7. CASE WriteLine
    <2>1. Fallen \/ (server'.cmd = server.cmd /\ server'.serving = server.serving
                     /\ server'.pc = server.pc)
      BY <1>7, WriteLineDoes DEF Wrote
    <2> QED BY <1>1, <1>2, <2>1 DEF Fallen
  <1>8. CASE WriteEnd
    BY <1>2, <1>8, WriteEndDoes DEF Fallen
  <1>9. CASE Die
    BY <1>2, <1>9, DieDoes DEF Fallen
  <1> QED BY <1>3, <1>4, <1>5, <1>6, <1>7, <1>8, <1>9 DEF Next, ServerStep

\* A client that is gone and whose command runs left before the end of its answer.
LEMMA StepDown ==
  ASSUME Types, Peers, Turns, ServerDownExplained, Next
  PROVE  ServerDownExplained'
  <1> SUFFICES ASSUME server'.pc = "killed"
               PROVE  \E c \in Clients : OutOfStep(c)'
    BY DEF ServerDownExplained
  <1>1. ASSUME NEW c \in Clients, OutOfStep(c) PROVE OutOfStep(c)'
    BY <1>1, Marks DEF OutOfStep
  <1>2. CASE server.pc = "killed"
    BY <1>1, <1>2 DEF ServerDownExplained
  <1>3. CASE server.pc = "run" /\ server.sock = "dead"
    <2>1. server.serving \in Clients /\ server.serving # None
      BY <1>3, ServerIs
    <2>2. client[server.serving].pc = "over"
      BY <1>3, <2>1 DEF Peers
    <2>3. OutOfStep(server.serving)
      BY <1>3, <2>1, <2>2 DEF Turns, Turn, Runs, Running
    <2> QED BY <1>1, <2>1, <2>3
  <1>4. \/ server.pc = "killed" \/ (server.pc = "run" /\ server.sock = "dead")
    <2>1. ASSUME NEW c \in Clients, ClientStep(c) PROVE server.pc = "killed"
      BY <2>1, ClientKeepsServer
    <2>2. CASE WriteLine
      BY <2>2, WriteLineDoes
    <2>3. CASE WriteEnd
      BY <2>3, WriteEndDoes
    <2>4. ~Accept /\ ~ReadCommand /\ ~ReadEnd /\ ~Die
      BY AcceptDoes, ReadCommandDoes, ReadEndDoes, DieDoes
    <2> QED BY <2>1, <2>2, <2>3, <2>4 DEF Next, ServerStep
  <1> QED BY <1>2, <1>3, <1>4

-----------------------------------------------------------------------------
(* What is on its way to a client.                                         *)

\* A text that begins like another and goes on like it.
LEMMA PrefixMore ==
  ASSUME NEW S, NEW s \in Seq(S), NEW t \in Seq(S), NEW w \in Seq(S), IsPrefix(s, t),
         Len(s) + Len(w) <= Len(t), \A i \in 1 .. Len(w) : w[i] = t[Len(s) + i]
  PROVE  s \o w \in Seq(S) /\ Len(s \o w) = Len(s) + Len(w) /\ IsPrefix(s \o w, t)
  <1>1. /\ s \o w \in Seq(S) /\ Len(s \o w) = Len(s) + Len(w)
        /\ \A k \in 1 .. Len(s) : (s \o w)[k] = s[k]
        /\ \A k \in 1 .. Len(w) : (s \o w)[Len(s) + k] = w[k]
    BY JoinLists
  <1>2. Len(s) \in Nat /\ Len(w) \in Nat
    BY LenProperties
  <1>3. \A k \in 1 .. Len(s) : s[k] = t[k]
    BY PrefixIs
  <1> DEFINE u == s \o w
  <1>4. ASSUME NEW k \in 1 .. Len(s) + Len(w) PROVE u[k] = t[k]
    <2>1. CASE k \in 1 .. Len(s)
      BY <1>1, <1>3, <2>1
    <2>2. CASE k \notin 1 .. Len(s)
      <3>1. PICK j \in 1 .. Len(w) : k = Len(s) + j
        <4>1. k - Len(s) \in 1 .. Len(w) /\ k = Len(s) + (k - Len(s))
          BY <1>2, <2>2
        <4> QED BY <4>1
      <3> QED BY <1>1, <3>1
    <2> QED BY <2>1, <2>2
  <1> HIDE DEF u
  <1>5. IsPrefix(u, t)
    BY <1>1, <1>4, PrefixIs DEF u
  <1> QED BY <1>1, <1>5 DEF u

\* A text that begins like another and is as long.
LEMMA PrefixWhole ==
  ASSUME NEW S, NEW s \in Seq(S), NEW t \in Seq(S), IsPrefix(s, t), Len(s) = Len(t)
  PROVE  s = t
  <1>1. \A k \in 1 .. Len(s) : s[k] = t[k]
    BY PrefixIs
  <1> QED BY <1>1, SeqEqual

\* What the other prints more.
LEMMA PrefixGrows ==
  ASSUME NEW S, NEW s \in Seq(S), NEW t \in Seq(S), NEW w \in Seq(S), IsPrefix(s, t)
  PROVE  IsPrefix(s, t \o w)
  <1>1. Len(s) <= Len(t) /\ \A k \in 1 .. Len(s) : s[k] = t[k]
    BY PrefixIs
  <1>2. /\ t \o w \in Seq(S) /\ Len(t \o w) = Len(t) + Len(w)
        /\ \A k \in 1 .. Len(t) : (t \o w)[k] = t[k]
    BY JoinLists
  <1>3. Len(s) \in Nat /\ Len(t) \in Nat /\ Len(w) \in Nat
    BY LenProperties
  <1> DEFINE u == t \o w
  <1>4. Len(s) <= Len(u) /\ \A k \in 1 .. Len(s) : s[k] = u[k]
    BY <1>1, <1>2, <1>3
  <1> HIDE DEF u
  <1>5. IsPrefix(s, u)
    BY <1>2, <1>4, PrefixIs DEF u
  <1> QED BY <1>5 DEF u

\* The two pieces of a package, and the package before it.
LEMMA PairIn ==
  ASSUME NEW n \in Nat, NEW k \in 1 .. n
  PROVE  2 * k - 1 \in 1 .. 2 * n /\ 2 * k \in 1 .. 2 * n /\ k \in 0 .. n /\ k - 1 \in 0 .. n
  OBVIOUS

\* The first package on its way to c, and what c shows once it has read it.
LEMMA FirstPackage ==
  ASSUME Types, NEW c \in Clients, NEW n \in Nat,
         NEW f \in [0 .. n -> 0 .. Len(printed[c])], Packages(c, n, f),
         1 <= Len(down[c]), IsPrefix(client[c].shown, printed[c])
  PROVE  LET h == down[c][1]
             t == down[c][2]
             one == client[c].shown \o Text(<<h>>)
             two == client[c].shown \o Text(<<h, t>>)
         IN  /\ 1 <= n /\ 2 <= Len(down[c]) /\ h \in PieceType /\ t \in PieceType
             /\ h.head /\ ~t.head
             /\ IsPrefix(one, printed[c]) /\ IsPrefix(two, printed[c])
             /\ Len(two) = f[1]
             /\ h.end => n = 1 /\ one = printed[c] /\ two = printed[c]
  <1>1. Len(down[c]) = 2 * n /\ f[0] = Len(client[c].shown) /\ f[n] = Len(printed[c])
    BY DEF Packages
  <1>2. 1 <= n /\ 2 <= Len(down[c]) /\ 1 \in 1 .. n /\ 1 - 1 = 0
        /\ 2 * 1 - 1 = 1 /\ 2 * 1 = 2
    BY <1>1, ClientIs
  <1>3. PICK h \in PieceType : h = down[c][1]
    BY <1>2, ClientIs, FirstItems
  <1>4. PICK t \in PieceType : t = down[c][2]
    BY <1>2, ClientIs, FirstItems
  <1>5. /\ h.head /\ ~t.head /\ (h.end <=> ~h.text)
        /\ h.end => 1 = n /\ f[1] = f[0]
        /\ h.text => printed[c][f[0] + 1] = h
        /\ h.text /\ ~t.text => f[1] = f[0] + 1
        /\ h.text /\ t.text => f[1] = f[0] + 2 /\ printed[c][f[0] + 2] = t
    <2>1. LET a == down[c][2 * 1 - 1]
              b == down[c][2 * 1]
          IN  /\ a.head /\ ~b.head /\ (a.end <=> ~a.text)
              /\ a.end => 1 = n /\ f[1] = f[1 - 1]
              /\ a.text => printed[c][f[1 - 1] + 1] = a
              /\ a.text /\ ~b.text => f[1] = f[1 - 1] + 1
              /\ a.text /\ b.text => f[1] = f[1 - 1] + 2 /\ printed[c][f[1 - 1] + 2] = b
      BY <1>2, Zenon DEF Packages
    <2> QED BY <1>2, <1>3, <1>4, <2>1, Zenon
  <1>6. f[1] \in 0 .. Len(printed[c]) /\ f[1] \in Nat /\ f[0] \in Nat
        /\ Len(printed[c]) \in Nat /\ f[1] <= Len(printed[c])
    BY <1>1, <1>2, ClientIs
  <1> DEFINE s == client[c].shown
             one == s \o Text(<<h>>)
             two == s \o Text(<<h, t>>)
  <1>7. s \in Seq(PieceType) /\ printed[c] \in Seq(PieceType) /\ IsPrefix(s, printed[c])
        /\ Len(s) = f[0]
    BY <1>1, ClientIs
  <1>8. /\ Text(<<h>>) = IF h.text THEN <<h>> ELSE << >>
        /\ Text(<<h, t>>) = IF ~h.text THEN << >> ELSE IF t.text THEN <<h, t>> ELSE <<h>>
    BY <1>5, TextIs
  <1>9. CASE ~h.text
    <2>1. one = s /\ two = s
      BY <1>7, <1>8, <1>9, ConcatEmptySeq
    <2>2. n = 1 /\ f[1] = f[0] /\ f[0] = Len(printed[c])
      BY <1>1, <1>5, <1>9
    <2>3. s = printed[c]
      BY <1>7, <2>2, PrefixWhole
    <2> QED BY <1>2, <1>3, <1>4, <1>5, <1>7, <2>1, <2>2, <2>3
  <1>10. ASSUME h.text
         PROVE  IsPrefix(s \o <<h>>, printed[c]) /\ Len(s \o <<h>>) = f[0] + 1
    <2>1. <<h>> \in Seq(PieceType) /\ Len(<<h>>) = 1 /\ <<h>>[1] = h
      OBVIOUS
    <2>2. PICK w \in Seq(PieceType) : w = <<h>>
      BY <2>1
    <2>3. Len(w) = 1 /\ w[1] = printed[c][f[0] + 1]
      BY <1>5, <1>10, <2>1, <2>2
    <2>4. f[1] = f[0] + 1 \/ f[1] = f[0] + 2
      BY <1>5, <1>10
    <2>5. Len(s) + Len(w) <= Len(printed[c])
      BY <1>6, <1>7, <2>3, <2>4
    <2>6. \A i \in 1 .. Len(w) : w[i] = printed[c][Len(s) + i]
      <3>1. \A i \in 1 .. Len(w) : i = 1
        BY <2>3
      <3> QED BY <1>7, <2>3, <3>1
    <2> HIDE DEF s
    <2>7. Len(s \o w) = Len(s) + Len(w) /\ IsPrefix(s \o w, printed[c])
      BY <1>7, <2>5, <2>6, PrefixMore
    <2> QED BY <1>7, <2>2, <2>3, <2>7
  <1>11. CASE h.text /\ ~t.text
    <2>1. one = s \o <<h>> /\ two = s \o <<h>>
      BY <1>8, <1>11
    <2> QED BY <1>2, <1>3, <1>4, <1>5, <1>10, <1>11, <2>1
  <1>12. CASE h.text /\ t.text
    <2>1. <<h, t>> \in Seq(PieceType) /\ Len(<<h, t>>) = 2
          /\ <<h, t>>[1] = h /\ <<h, t>>[2] = t
      OBVIOUS
    <2>2. PICK w \in Seq(PieceType) : w = <<h, t>>
      BY <2>1
    <2>3. Len(w) = 2 /\ w[1] = printed[c][f[0] + 1] /\ w[2] = printed[c][f[0] + 2]
      BY <1>5, <1>12, <2>1, <2>2
    <2>4. Len(s) + Len(w) <= Len(printed[c])
      BY <1>5, <1>6, <1>7, <1>12, <2>3
    <2>5. \A i \in 1 .. Len(w) : w[i] = printed[c][Len(s) + i]
      <3>1. \A i \in 1 .. Len(w) : i = 1 \/ i = 2
        BY <2>3
      <3> QED BY <1>7, <2>3, <3>1
    <2>6. IsPrefix(s \o w, printed[c]) /\ Len(s \o w) = f[0] + 2
      <3> HIDE DEF s
      <3>1. Len(s \o w) = Len(s) + Len(w) /\ IsPrefix(s \o w, printed[c])
        BY <1>7, <2>4, <2>5, PrefixMore
      <3> QED BY <1>7, <2>3, <3>1
    <2>7. one = s \o <<h>> /\ two = s \o w
      BY <1>8, <1>12, <2>2
    <2> QED BY <1>2, <1>3, <1>4, <1>5, <1>10, <1>12, <2>6, <2>7
  <1> QED BY <1>9, <1>11, <1>12

\* c has read the first package whole: those behind it are one further in front.
LEMMA NextPackages ==
  ASSUME Types, NEW c \in Clients, NEW n \in Nat,
         NEW f \in [0 .. n -> 0 .. Len(printed[c])], Packages(c, n, f),
         1 <= n, Reads(c, 2), Len(client'[c].shown) = f[1],
         printed' = printed, server' = server, up' = up
  PROVE  /\ Len(down'[c]) = 2 * (n - 1)
         /\ ~Split(c)'
         /\ n - 1 \in 0 .. Len(down'[c])
         /\ \E g \in [0 .. n - 1 -> 0 .. Len(printed'[c])] : Packages(c, n - 1, g)'
  <1>1. Len(down[c]) = 2 * n /\ f[n] = Len(printed[c])
    BY DEF Packages
  <1>2. down[c] \in Seq(PieceType) /\ 2 \in 0 .. Len(down[c])
    BY <1>1, ClientIs
  <1>3. /\ down'[c] \in Seq(PieceType)
        /\ Len(down'[c]) = 2 * n - 2
        /\ \A k \in 1 .. 2 * n - 2 : down'[c][k] = down[c][2 + k]
    <2>1. down'[c] = SubSeq(down[c], 2 + 1, Len(down[c]))
      BY DEF Reads
    <2>2. /\ SubSeq(down[c], 2 + 1, Len(down[c])) \in Seq(PieceType)
          /\ Len(SubSeq(down[c], 2 + 1, Len(down[c]))) = Len(down[c]) - 2
          /\ \A k \in 1 .. Len(down[c]) - 2 :
               SubSeq(down[c], 2 + 1, Len(down[c]))[k] = down[c][2 + k]
      BY <1>2, DropItems
    <2> QED BY <1>1, <2>1, <2>2
  <1> DEFINE g == [k \in 0 .. n - 1 |-> f[k + 1]]
  <1>4. \A k \in 0 .. n - 1 : k + 1 \in 0 .. n
    OBVIOUS
  <1>5. g \in [0 .. n - 1 -> 0 .. Len(printed[c])]
    BY <1>4
  <1>6. g[0] = f[1] /\ g[n - 1] = f[n]
    <2>1. 0 \in 0 .. n - 1 /\ 0 + 1 = 1 /\ n - 1 \in 0 .. n - 1 /\ n - 1 + 1 = n
      OBVIOUS
    <2> QED BY <2>1
  <1>7. ASSUME NEW k \in 1 .. n - 1
        PROVE  /\ down'[c][2 * k - 1] = down[c][2 * (k + 1) - 1]
               /\ down'[c][2 * k] = down[c][2 * (k + 1)]
               /\ g[k - 1] = f[(k + 1) - 1] /\ g[k] = f[k + 1] /\ k + 1 \in 1 .. n
    <2>1. /\ 2 * k - 1 \in 1 .. 2 * n - 2 /\ 2 + (2 * k - 1) = 2 * (k + 1) - 1
          /\ 2 * k \in 1 .. 2 * n - 2 /\ 2 + 2 * k = 2 * (k + 1)
          /\ k - 1 \in 0 .. n - 1 /\ k \in 0 .. n - 1 /\ k + 1 \in 1 .. n
          /\ (k - 1) + 1 = (k + 1) - 1
      OBVIOUS
    <2> QED BY <1>3, <2>1
  <1> HIDE DEF g
  <1>8. Len(down'[c]) = 2 * (n - 1)
    BY <1>3
  <1>9. Packages(c, n - 1, g)'
    <2>1. /\ g[0] = Len(client'[c].shown) /\ g[n - 1] = Len(printed'[c])
      BY <1>1, <1>6
    <2>2. ASSUME NEW k \in 1 .. n - 1
          PROVE  LET h == down'[c][2 * k - 1]
                     t == down'[c][2 * k]
                 IN  /\ h.head /\ ~t.head /\ (h.end <=> ~h.text)
                     /\ h.end => k = n - 1 /\ g[k] = g[k - 1] /\ ~Runs(c)' /\ (Running' => up'[c] = << >>)
                     /\ h.text => printed'[c][g[k - 1] + 1] = h
                     /\ h.text /\ ~t.text => g[k] = g[k - 1] + 1
                     /\ h.text /\ t.text => g[k] = g[k - 1] + 2 /\ printed'[c][g[k - 1] + 2] = t
      <3>1. PICK j \in 1 .. n : j = k + 1
        BY <1>7
      <3>2. PICK h : h = down[c][2 * j - 1]
        OBVIOUS
      <3>3. PICK t : t = down[c][2 * j]
        OBVIOUS
      <3>4. /\ h.head /\ ~t.head /\ (h.end <=> ~h.text)
            /\ h.end => j = n /\ f[j] = f[j - 1] /\ ~Runs(c) /\ (Running => up[c] = << >>)
            /\ h.text => printed[c][f[j - 1] + 1] = h
            /\ h.text /\ ~t.text => f[j] = f[j - 1] + 1
            /\ h.text /\ t.text => f[j] = f[j - 1] + 2 /\ printed[c][f[j - 1] + 2] = t
        BY <3>2, <3>3 DEF Packages
      <3>5. down'[c][2 * k - 1] = h /\ down'[c][2 * k] = t /\ g[k - 1] = f[j - 1] /\ g[k] = f[j]
        BY <1>7, <3>1, <3>2, <3>3
      <3>6. j = n => k = n - 1
        BY <3>1
      <3>7. (Runs(c)' <=> Runs(c)) /\ (Running' <=> Running) /\ up'[c] = up[c] /\ printed'[c] = printed[c]
        BY DEF Runs, Running
      <3> QED BY <3>4, <3>5, <3>6, <3>7
    <2> QED BY <1>8, <2>1, <2>2 DEF Packages
  <1>10. ~Split(c)'
    <2>1. ASSUME down'[c] # << >> PROVE down'[c][1].head
      <3>1. Len(down'[c]) # 0
        BY <1>3, <2>1, EmptySeq
      <3>2. 1 \in 1 .. n - 1 /\ 2 * 1 - 1 = 1
        BY <1>8, <3>1
      <3>3. down'[c][2 * 1 - 1].head
        BY <1>9, <3>2 DEF Packages
      <3> QED BY <3>2, <3>3
    <2> QED BY <2>1 DEF Split
  <1>11. n - 1 \in 0 .. Len(down'[c])
    BY <1>8
  <1>12. g \in [0 .. n - 1 -> 0 .. Len(printed'[c])]
    BY <1>5
  <1> QED BY <1>8, <1>9, <1>10, <1>11, <1>12

\* Nothing is on its way to a client that shows all there is.
LEMMA NoPackages ==
  ASSUME NEW c \in Clients, down'[c] = << >>, client'[c].shown = << >>, printed'[c] = << >>
  PROVE  \E n \in 0 .. Len(down'[c]) : \E f \in [0 .. n -> 0 .. Len(printed'[c])] : Packages(c, n, f)'
  <1> DEFINE f == [k \in 0 .. 0 |-> 0]
  <1>1. Len(<< >>) = 0 /\ 0 \in 0 .. Len(<< >>) /\ f \in [0 .. 0 -> 0 .. Len(<< >>)]
    OBVIOUS
  <1>2. f[0] = 0
    OBVIOUS
  <1> HIDE DEF f
  <1>3. Packages(c, 0, f)'
    BY <1>1, <1>2 DEF Packages
  <1> QED BY <1>1, <1>3

\* c reads a part of the next package, or all of it.
LEMMA ReadFlow ==
  ASSUME Types, NEW c \in Clients, Flow(c), ReadPackage(c)
  PROVE  Flow(c)'
  <1>1. /\ client[c].pc = "read" /\ 1 <= Len(down[c])
        /\ client'[c].whole <=> client[c].whole /\ down[c][1].head
        /\ client'[c].pc \in {"prompt", "read"}
        /\ down[c][1].head => /\ client'[c].answered <=> down[c][1].end
                              /\ client'[c].pc = "prompt" <=> down[c][1].end
        /\ ("short" \in faults /\ Reads(c, 1)) \/ Reads(c, 2)
        /\ UNCHANGED <<faults, queue, server, up, printed>>
    BY ReadPackageDoes
  <1> SUFFICES ASSUME client[c].whole, down[c][1].head
               PROVE  Flow(c)'
    BY <1>1 DEF Flow
  <1>2. ~Split(c) /\ IsPrefix(client[c].shown, printed[c])
    BY <1>1 DEF Flow, Split
  <1>3. PICK n \in 0 .. Len(down[c]) :
          \E f \in [0 .. n -> 0 .. Len(printed[c])] : Packages(c, n, f)
    BY <1>1, <1>2 DEF Flow
  <1>4. PICK f \in [0 .. n -> 0 .. Len(printed[c])] : Packages(c, n, f)
    BY <1>3
  <1>5. n \in Nat /\ Len(down[c]) \in Nat /\ Len(down[c]) = 2 * n
    BY <1>3, <1>4, ClientIs DEF Packages
  <1>6. PICK h : h = down[c][1]
    OBVIOUS
  <1>7. PICK t : t = down[c][2]
    OBVIOUS
  <1>8. /\ 1 <= n /\ 2 <= Len(down[c]) /\ h \in PieceType /\ t \in PieceType
        /\ h.head /\ ~t.head
        /\ IsPrefix(client[c].shown \o Text(<<h>>), printed[c])
        /\ IsPrefix(client[c].shown \o Text(<<h, t>>), printed[c])
        /\ Len(client[c].shown \o Text(<<h, t>>)) = f[1]
        /\ h.end => /\ n = 1
                    /\ client[c].shown \o Text(<<h>>) = printed[c]
                    /\ client[c].shown \o Text(<<h, t>>) = printed[c]
    <2>1. LET a == down[c][1]
              b == down[c][2]
              one == client[c].shown \o Text(<<a>>)
              two == client[c].shown \o Text(<<a, b>>)
          IN  /\ 1 <= n /\ 2 <= Len(down[c]) /\ a \in PieceType /\ b \in PieceType
              /\ a.head /\ ~b.head
              /\ IsPrefix(one, printed[c]) /\ IsPrefix(two, printed[c])
              /\ Len(two) = f[1]
              /\ a.end => n = 1 /\ one = printed[c] /\ two = printed[c]
      BY <1>1, <1>2, <1>4, <1>5, FirstPackage
    <2> QED BY <1>6, <1>7, <2>1
  <1>9. SubSeq(down[c], 1, 1) = <<h>> /\ SubSeq(down[c], 1, 2) = <<h, t>>
    BY <1>6, <1>7, <1>8, <1>1, ClientIs, FirstItems
  <1>10. CASE "short" \in faults /\ Reads(c, 1)
    <2>1. client'[c].shown = client[c].shown \o Text(<<h>>)
      BY <1>9, <1>10 DEF Reads
    <2>2. Split(c)'
      <3>1. down[c] \in Seq(PieceType) /\ 1 \in 0 .. Len(down[c])
        BY <1>1, ClientIs
      <3>2. down'[c] = SubSeq(down[c], 1 + 1, Len(down[c]))
        BY <1>10 DEF Reads
      <3>3. /\ Len(SubSeq(down[c], 1 + 1, Len(down[c]))) = Len(down[c]) - 1
            /\ \A k \in 1 .. Len(down[c]) - 1 :
                 SubSeq(down[c], 1 + 1, Len(down[c]))[k] = down[c][1 + k]
        BY <3>1, DropItems
      <3>4. Len(down'[c]) = Len(down[c]) - 1 /\ down'[c][1] = down[c][1 + 1]
        <4>1. 1 \in 1 .. Len(down[c]) - 1
          BY <1>5, <1>8
        <4> QED BY <3>2, <3>3, <4>1
      <3>5. Len(down'[c]) # 0 /\ down'[c][1] = t
        BY <1>5, <1>7, <1>8, <3>4
      <3>6. down'[c] # << >>
        BY <3>5, EmptySeq
      <3> QED BY <1>8, <3>5, <3>6 DEF Split
    <2>3. client'[c].answered => client'[c].pc = "prompt" /\ client'[c].shown = printed'[c]
      BY <1>1, <1>6, <1>8, <2>1
    <2>4. IsPrefix(client'[c].shown, printed'[c])
      BY <1>1, <1>8, <2>1
    <2>5. "short" \in faults'
      BY <1>1, <1>10
    <2> QED BY <2>2, <2>3, <2>4, <2>5 DEF Flow
  <1>11. CASE Reads(c, 2)
    <2>1. client'[c].shown = client[c].shown \o Text(<<h, t>>)
      BY <1>9, <1>11 DEF Reads
    <2>2. client'[c].answered => client'[c].pc = "prompt" /\ client'[c].shown = printed'[c]
      BY <1>1, <1>6, <1>8, <2>1
    <2>3. IsPrefix(client'[c].shown, printed'[c])
      BY <1>1, <1>8, <2>1
    <2>4. /\ Len(down'[c]) = 2 * (n - 1) /\ ~Split(c)' /\ n - 1 \in 0 .. Len(down'[c])
          /\ \E g \in [0 .. n - 1 -> 0 .. Len(printed'[c])] : Packages(c, n - 1, g)'
      BY <1>1, <1>4, <1>5, <1>8, <1>11, <2>1, NextPackages
    <2>5. client'[c].pc # "read" => down'[c] = << >>
      <3>1. Types'
        BY ReadPackageDoes
      <3>2. down'[c] \in Seq(PieceType)
        BY <3>1 DEF Types
      <3>3. client'[c].pc # "read" => n = 1
        BY <1>1, <1>6, <1>8
      <3>4. n = 1 => Len(down'[c]) = 0
        BY <2>4
      <3> QED BY <3>2, <3>3, <3>4, EmptySeq
    <2> QED BY <2>2, <2>3, <2>4, <2>5 DEF Flow
  <1> QED BY <1>1, <1>10, <1>11

\* Every step of a client keeps its own Flow.
LEMMA ClientFlow ==
  ASSUME Types, NEW c \in Clients, Flow(c), ClientStep(c)
  PROVE  Flow(c)'
  <1>0. ASSUME client[c].pc # "over", UNCHANGED <<faults, server, up, down, printed>>,
               client'[c].shown = client[c].shown, client'[c].whole = client[c].whole,
               client'[c].answered = client[c].answered,
               client[c].pc # "prompt", client'[c].pc = "prompt",
               client[c].pc = "start" \/ down[c] = << >>
        PROVE  Flow(c)'
    <2> SUFFICES ASSUME client[c].whole PROVE Flow(c)'
      BY <1>0 DEF Flow
    <2>1. (Runs(c)' <=> Runs(c)) /\ (Running' <=> Running) /\ (Split(c)' <=> Split(c))
      BY <1>0 DEF Runs, Running, Split
    <2>2. ASSUME NEW n, NEW f, Packages(c, n, f) PROVE Packages(c, n, f)'
      BY <1>0, <2>1, <2>2 DEF Packages
    <2>3. ~client[c].answered /\ (~Split(c) => down[c] = << >>)
      BY <1>0 DEF Flow
    <2>4. ~Split(c) => \E n \in 0 .. Len(down'[c]) :
                         \E f \in [0 .. n -> 0 .. Len(printed'[c])] : Packages(c, n, f)'
      <3>1. ~Split(c) => \E n \in 0 .. Len(down[c]) :
                           \E f \in [0 .. n -> 0 .. Len(printed[c])] : Packages(c, n, f)
        BY <1>0 DEF Flow
      <3> QED BY <1>0, <2>2, <3>1
    <2>5. IsPrefix(client'[c].shown, printed'[c]) /\ (Split(c) => "short" \in faults')
      BY <1>0 DEF Flow
    <2> QED BY <1>0, <2>1, <2>3, <2>4, <2>5 DEF Flow
  <1>1. CASE Connect(c)
    <2>1. /\ client[c].pc = "start"
          /\ client'[c].pc = "prompt" \/ client'[c].pc = "over"
          /\ client'[c].whole = client[c].whole /\ client'[c].shown = client[c].shown
          /\ client'[c].answered = client[c].answered
      BY <1>1, ConnectDoes
    <2>2. CASE client'[c].pc = "over"
      BY <2>2 DEF Flow
    <2>3. UNCHANGED <<faults, server, up, down, printed>>
      BY <1>1 DEF Connect
    <2> QED BY <1>0, <2>1, <2>2, <2>3
  <1>2. CASE Type(c) \/ TypeNothing(c)
    <2>1. /\ client[c].pc = "prompt" /\ client'[c].pc = "read"
          /\ client'[c].whole = client[c].whole
          /\ client'[c].shown = << >> /\ printed'[c] = << >> /\ client'[c].answered = FALSE
          /\ faults' = faults /\ down' = down
      BY <1>2, TypeDoes
    <2> SUFFICES ASSUME client[c].whole PROVE Flow(c)'
      BY <2>1 DEF Flow
    <2>2. Split(c)' <=> Split(c)
      BY <2>1 DEF Split
    <2>3. (Split(c) => "short" \in faults) /\ (~Split(c) => down[c] = << >>)
      BY <2>1 DEF Flow
    <2>4. IsPrefix(client'[c].shown, printed'[c])
      <3>1. << >> \in Seq(PieceType) /\ Len(<< >>) = 0
        OBVIOUS
      <3>2. PICK e \in Seq(PieceType) : e = << >>
        BY <3>1
      <3>3. IsPrefix(e, e)
        <4>1. Len(e) <= Len(e) /\ \A i \in 1 .. Len(e) : e[i] = e[i]
          BY LenProperties
        <4> QED BY <4>1, PrefixIs
      <3> QED BY <2>1, <3>2, <3>3
    <2>5. ~Split(c)' => \E n \in 0 .. Len(down'[c]) :
                          \E f \in [0 .. n -> 0 .. Len(printed'[c])] : Packages(c, n, f)'
      BY <2>1, <2>2, <2>3, NoPackages
    <2> QED BY <2>1, <2>2, <2>3, <2>4, <2>5 DEF Flow
  <1>3. CASE ReadPackage(c)
    BY <1>3, ReadFlow
  <1>4. CASE ReadFails(c)
    BY <1>0, <1>4, ReadFailsDoes
  <1>5. CASE TypeExit(c) \/ TypeFails(c) \/ TypeEOF(c) \/ crashHandler(c)
    <2>1. client'[c].pc = "over"
      BY <1>5, Closes, CloseDoes
    <2> QED BY <2>1 DEF Flow
  <1> QED BY <1>1, <1>2, <1>3, <1>4, <1>5 DEF ClientStep

\* One more package is on its way, and its text is what was printed last.
LEMMA MorePackages ==
  ASSUME Types, NEW c \in Clients, NEW n \in Nat,
         NEW f \in [0 .. n -> 0 .. Len(printed[c])], Packages(c, n, f), Runs(c),
         NEW h \in PieceType, NEW t \in PieceType,
         h.head, ~t.head, h.end <=> ~h.text, h.end => ~Runs(c)' /\ up'[c] = << >>,
         down'[c] = down[c] \o <<h, t>>, printed'[c] = printed[c] \o Text(<<h, t>>),
         client'[c].shown = client[c].shown
  PROVE  \E m \in 0 .. Len(down'[c]) :
           \E g \in [0 .. m -> 0 .. Len(printed'[c])] : Packages(c, m, g)'
  <1>1. Len(down[c]) = 2 * n /\ f[0] = Len(client[c].shown) /\ f[n] = Len(printed[c])
    BY DEF Packages
  <1>2. PICK ps \in Seq(PieceType) : ps = <<h, t>> /\ Len(ps) = 2 /\ ps[1] = h /\ ps[2] = t
    <2>1. <<h, t>> \in Seq(PieceType) /\ Len(<<h, t>>) = 2
          /\ <<h, t>>[1] = h /\ <<h, t>>[2] = t
      OBVIOUS
    <2> QED BY <2>1
  <1>3. PICK w \in Seq(PieceType) : w = Text(<<h, t>>)
    BY TextIs
  <1>4. /\ ~h.text => Len(w) = 0
        /\ h.text /\ ~t.text => Len(w) = 1 /\ w[1] = h
        /\ h.text /\ t.text => Len(w) = 2 /\ w[1] = h /\ w[2] = t
    <2>1. w = IF ~h.text THEN << >> ELSE IF t.text THEN <<h, t>> ELSE <<h>>
      BY <1>3, TextIs
    <2>2. Len(<< >>) = 0 /\ Len(<<h>>) = 1 /\ <<h>>[1] = h
          /\ Len(<<h, t>>) = 2 /\ <<h, t>>[1] = h /\ <<h, t>>[2] = t
      OBVIOUS
    <2> QED BY <2>1, <2>2
  <1>5. /\ down[c] \in Seq(PieceType) /\ printed[c] \in Seq(PieceType)
        /\ Len(down[c]) \in Nat /\ Len(printed[c]) \in Nat
    BY ClientIs
  <1>6. /\ down'[c] \in Seq(PieceType) /\ Len(down'[c]) = 2 * n + 2
        /\ \A k \in 1 .. 2 * n : down'[c][k] = down[c][k]
        /\ down'[c][2 * n + 1] = h /\ down'[c][2 * n + 2] = t
    <2>1. /\ down[c] \o ps \in Seq(PieceType) /\ Len(down[c] \o ps) = Len(down[c]) + Len(ps)
          /\ \A k \in 1 .. Len(down[c]) : (down[c] \o ps)[k] = down[c][k]
          /\ \A k \in 1 .. Len(ps) : (down[c] \o ps)[Len(down[c]) + k] = ps[k]
      BY <1>5, JoinLists
    <2>2. 1 \in 1 .. Len(ps) /\ 2 \in 1 .. Len(ps)
      BY <1>2
    <2>3. down'[c] = down[c] \o ps
      BY <1>2
    <2>4. /\ down'[c] \in Seq(PieceType) /\ Len(down'[c]) = 2 * n + Len(ps)
          /\ \A k \in 1 .. 2 * n : down'[c][k] = down[c][k]
          /\ down'[c][2 * n + 1] = ps[1] /\ down'[c][2 * n + 2] = ps[2]
      BY <1>1, <2>1, <2>2, <2>3
    <2> QED BY <1>2, <2>4
  <1>7. /\ printed'[c] \in Seq(PieceType) /\ Len(printed'[c]) = Len(printed[c]) + Len(w)
        /\ \A k \in 1 .. Len(printed[c]) : printed'[c][k] = printed[c][k]
        /\ \A k \in 1 .. Len(w) : printed'[c][Len(printed[c]) + k] = w[k]
    <2>1. /\ printed[c] \o w \in Seq(PieceType)
          /\ Len(printed[c] \o w) = Len(printed[c]) + Len(w)
          /\ \A k \in 1 .. Len(printed[c]) : (printed[c] \o w)[k] = printed[c][k]
          /\ \A k \in 1 .. Len(w) : (printed[c] \o w)[Len(printed[c]) + k] = w[k]
      BY <1>5, JoinLists
    <2> QED BY <1>3, <2>1
  <1>8. PICK p \in Nat : p = Len(printed[c])
    BY <1>5
  <1>9. PICK q \in Nat : q = Len(printed'[c])
    BY <1>7, LenProperties
  <1>10. q = p + Len(w) /\ Len(w) \in Nat /\ p <= q
    BY <1>3, <1>7, <1>8, <1>9, LenProperties
  <1>17. /\ ~h.text => q = p
         /\ h.text => /\ 1 \in 1 .. Len(w) /\ w[1] = h
                      /\ ~t.text => q = p + 1
                      /\ t.text => q = p + 2 /\ 2 \in 1 .. Len(w) /\ w[2] = t
    <2>1. CASE ~h.text
      BY <1>4, <1>10, <2>1
    <2>2. CASE h.text /\ ~t.text
      <3>1. Len(w) = 1 /\ w[1] = h
        BY <1>4, <2>2
      <3> QED BY <1>10, <2>2, <3>1
    <2>3. CASE h.text /\ t.text
      <3>1. Len(w) = 2 /\ w[1] = h /\ w[2] = t
        BY <1>4, <2>3
      <3> QED BY <1>10, <2>3, <3>1
    <2> QED BY <2>1, <2>2, <2>3
  <1> DEFINE m == n + 1
             g == [k \in 0 .. m |-> IF k <= n THEN f[k] ELSE q]
  <1>11. g \in [0 .. m -> 0 .. q]
    <2>1. ASSUME NEW k \in 0 .. m, k <= n PROVE f[k] \in 0 .. q
      <3>1. k \in 0 .. n
        BY <2>1
      <3>2. f[k] \in 0 .. p
        BY <1>8, <3>1
      <3> QED BY <1>10, <3>2
    <2> QED BY <2>1
  <1>12. /\ g[m] = q /\ \A k \in 0 .. n : g[k] = f[k]
    <2>1. m \in 0 .. m /\ ~(m <= n) /\ \A k \in 0 .. n : k \in 0 .. m /\ k <= n
      OBVIOUS
    <2> QED BY <2>1
  <1>13. g[0] = f[0] /\ g[n] = p
    <2>1. 0 \in 0 .. n /\ n \in 0 .. n
      OBVIOUS
    <2> QED BY <1>1, <1>8, <1>12, <2>1
  <1>14. Len(down'[c]) = 2 * m /\ m \in 0 .. Len(down'[c]) /\ m \in Nat
    <2>1. Len(down'[c]) = 2 * m /\ m \in Nat
      BY <1>6
    <2> HIDE DEF m
    <2>2. m \in 0 .. 2 * m
      BY <2>1
    <2> QED BY <2>1, <2>2
  <1> HIDE DEF g
  <1>15. ASSUME NEW k \in 1 .. m
         PROVE  LET a == down'[c][2 * k - 1]
                    b == down'[c][2 * k]
                IN  /\ a.head /\ ~b.head /\ (a.end <=> ~a.text)
                    /\ a.end => k = m /\ g[k] = g[k - 1] /\ ~Runs(c)' /\ (Running' => up'[c] = << >>)
                    /\ a.text => printed'[c][g[k - 1] + 1] = a
                    /\ a.text /\ ~b.text => g[k] = g[k - 1] + 1
                    /\ a.text /\ b.text => g[k] = g[k - 1] + 2 /\ printed'[c][g[k - 1] + 2] = b
    <2>1. CASE k \in 1 .. n
      <3>1. PICK a : a = down[c][2 * k - 1]
        OBVIOUS
      <3>2. PICK b : b = down[c][2 * k]
        OBVIOUS
      <3>3. /\ a.head /\ ~b.head /\ (a.end <=> ~a.text) /\ ~a.end
            /\ a.text => printed[c][f[k - 1] + 1] = a
            /\ a.text /\ ~b.text => f[k] = f[k - 1] + 1
            /\ a.text /\ b.text => f[k] = f[k - 1] + 2 /\ printed[c][f[k - 1] + 2] = b
        BY <2>1, <3>1, <3>2 DEF Packages
      <3>4. 2 * k - 1 \in 1 .. 2 * n /\ 2 * k \in 1 .. 2 * n /\ k \in 0 .. n /\ k - 1 \in 0 .. n
        BY <2>1, PairIn, Zenon
      <3>5. down'[c][2 * k - 1] = a /\ down'[c][2 * k] = b /\ g[k] = f[k] /\ g[k - 1] = f[k - 1]
        BY <1>6, <1>12, <3>1, <3>2, <3>4
      <3>6. f[k] \in 0 .. p /\ f[k - 1] \in 0 .. p
        BY <1>8, <3>4
      <3> DEFINE x == f[k - 1]
                 y == f[k]
      <3> HIDE DEF x, y
      <3>7. a.text => x + 1 \in 1 .. p /\ (b.text => x + 2 \in 1 .. p)
        <4>1. y \in 0 .. p /\ x \in 0 .. p
          BY <3>6 DEF x, y
        <4>2. a.text => y = x + 1 \/ (b.text /\ y = x + 2)
          BY <3>3, Zenon DEF x, y
        <4>3. a.text /\ b.text => y = x + 2
          BY <3>3, Zenon DEF x, y
        <4> QED BY <4>1, <4>2, <4>3
      <3>8. a.text => f[k - 1] + 1 \in 1 .. p /\ (b.text => f[k - 1] + 2 \in 1 .. p)
        BY <3>7, Zenon DEF x
      <3>9. /\ a.text => printed'[c][f[k - 1] + 1] = a
            /\ a.text /\ b.text => printed'[c][f[k - 1] + 2] = b
        BY <1>7, <1>8, <3>3, <3>8
      <3> QED BY <3>3, <3>5, <3>9
    <2>2. CASE k = m
      <3>1. 2 * k - 1 = 2 * n + 1 /\ 2 * k = 2 * n + 2 /\ k - 1 = n
        BY <2>2
      <3>2. down'[c][2 * k - 1] = h /\ down'[c][2 * k] = t /\ g[k - 1] = p /\ g[k] = q
        BY <1>6, <1>12, <1>13, <2>2, <3>1
      <3>3. /\ ~h.text => q = p
            /\ h.text /\ ~t.text => q = p + 1
            /\ h.text /\ t.text => q = p + 2
        BY <1>17
      <3>4. h.text => printed'[c][p + 1] = h
        BY <1>7, <1>8, <1>17
      <3>5. h.text /\ t.text => printed'[c][p + 2] = t
        BY <1>7, <1>8, <1>17
      <3> QED BY <2>2, <3>2, <3>3, <3>4, <3>5
    <2>3. k \in 1 .. n \/ k = m
      OBVIOUS
    <2> QED BY <2>1, <2>2, <2>3
  <1>16. Packages(c, m, g)'
    <2> HIDE DEF m
    <2>1. g[0] = Len(client'[c].shown) /\ g[m] = Len(printed'[c])
      BY <1>1, <1>9, <1>12, <1>13
    <2> QED BY <1>14, <1>15, <2>1 DEF Packages
  <1> QED BY <1>9, <1>11, <1>14, <1>16

\* What the server reads or writes for the client it serves.
LEMMA ServerFlow ==
  ASSUME Types, Peers, NEW c \in Clients, c = server.serving, Turn(c), Flow(c),
         ServerStep \/ Die
  PROVE  Flow(c)'
  <1>0. ASSUME Quiet(c) PROVE Flow(c)'
    BY <1>0, QuietKeeps, StepTypes DEF Next
  <1>1. CASE Accept \/ ReadEnd
    BY <1>0, <1>1, ServerQuiet
  <1>2. CASE ReadCommand
    <2>1. /\ server.pc = "read" /\ up[c] # << >>
          /\ UNCHANGED <<faults, client, down, printed>>
      BY <1>2, ReadCommandDoes
    <2>2. ASSUME NEW n, NEW f, Packages(c, n, f) PROVE Packages(c, n, f)'
      <3>1. \A k \in 1 .. n : ~down[c][2 * k - 1].end
        BY <2>1, <2>2 DEF Packages, Running
      <3> QED BY <2>1, <2>2, <3>1 DEF Packages
    <2> QED BY <2>1, <2>2 DEF Flow, Split
  <1>3. ASSUME server.pc = "run", NEW h \in PieceType, NEW t \in PieceType, Types',
               h.head, ~t.head, h.end <=> ~h.text, h.end => server'.pc = "read",
               Wrote(c, h, t), faults' = faults, up' = up
        PROVE  Flow(c)'
    <2>1. client' = client /\ Runs(c)
      BY <1>3 DEF Wrote, Runs
    <2> SUFFICES ASSUME client[c].pc # "over", client[c].whole PROVE Flow(c)'
      BY <2>1 DEF Flow
    <2>2. server.sock = "open" /\ ~client[c].cut
      BY NoneAssumption DEF Peers
    <2>3. /\ down'[c] = down[c] \o <<h, t>>
          /\ printed'[c] = printed[c] \o Text(<<h, t>>)
      BY <1>3, <2>2 DEF Wrote
    <2>4. client[c].pc = "read" /\ up[c] = << >>
      BY <1>3, <2>1, <2>2 DEF Turn, OutOfStep, Running
    <2>5. IsPrefix(client'[c].shown, printed'[c])
      <3>1. IsPrefix(client[c].shown, printed[c])
        BY DEF Flow
      <3>2. Text(<<h, t>>) \in Seq(PieceType)
        BY TextIs
      <3>3. IsPrefix(client[c].shown, printed[c] \o Text(<<h, t>>))
        BY <3>1, <3>2, ClientIs, PrefixGrows
      <3> QED BY <2>1, <2>3, <3>3
    <2>6. ~client'[c].answered
      BY <2>1, <2>4 DEF Flow
    <2>7. Split(c)' => Split(c)
      <3>1. <<h, t>> \in Seq(PieceType) /\ Len(<<h, t>>) = 2 /\ <<h, t>>[1] = h
        OBVIOUS
      <3>2. CASE down[c] = << >>
        <4>1. down'[c] = <<h, t>>
          BY <2>3, <3>1, <3>2, ConcatEmptySeq
        <4> QED BY <1>3, <3>1, <4>1 DEF Split
      <3>3. CASE down[c] # << >>
        <4>1. 1 \in 1 .. Len(down[c])
          BY <3>3, ClientIs, EmptySeq
        <4>2. (down[c] \o <<h, t>>)[1] = down[c][1]
          BY <3>1, <4>1, ClientIs, JoinLists
        <4> QED BY <2>3, <3>3, <4>2 DEF Split
      <3> QED BY <3>2, <3>3
    <2>8. ~Split(c) => \E m \in 0 .. Len(down'[c]) :
                         \E g \in [0 .. m -> 0 .. Len(printed'[c])] : Packages(c, m, g)'
      <3> SUFFICES ASSUME ~Split(c)
                   PROVE  \E m \in 0 .. Len(down'[c]) :
                            \E g \in [0 .. m -> 0 .. Len(printed'[c])] : Packages(c, m, g)'
        OBVIOUS
      <3>1. PICK n \in 0 .. Len(down[c]) :
              \E f \in [0 .. n -> 0 .. Len(printed[c])] : Packages(c, n, f)
        BY DEF Flow
      <3>2. PICK f \in [0 .. n -> 0 .. Len(printed[c])] : Packages(c, n, f)
        BY <3>1
      <3>3. n \in Nat
        BY <3>1, ClientIs
      <3>4. h.end => ~Runs(c)' /\ up'[c] = << >>
        BY <1>3, <2>4 DEF Runs
      <3> QED BY <1>3, <2>1, <2>3, <3>2, <3>3, <3>4, MorePackages
    <2>9. Split(c)' => "short" \in faults'
      BY <1>3, <2>7 DEF Flow
    <2>10. ~Split(c)' => ~Split(c)
      <3>1. CASE down[c] = << >>
        BY <3>1 DEF Split
      <3>2. CASE down[c] # << >>
        <4>1. 1 \in 1 .. Len(down[c])
          BY <3>2, ClientIs, EmptySeq
        <4>2. <<h, t>> \in Seq(PieceType)
          OBVIOUS
        <4>3. (down[c] \o <<h, t>>)[1] = down[c][1]
              /\ Len(down[c] \o <<h, t>>) = Len(down[c]) + Len(<<h, t>>)
          BY <4>1, <4>2, ClientIs, JoinLists
        <4>4. Len(<<h, t>>) = 2
          OBVIOUS
        <4>5. Len(down'[c]) # 0 /\ down'[c][1] = down[c][1]
          BY <2>3, <4>1, <4>3, <4>4
        <4>6. down'[c] # << >>
          BY <4>5, EmptySeq
        <4> QED BY <3>2, <4>5, <4>6 DEF Split
      <3> QED BY <3>1, <3>2
    <2> QED BY <2>1, <2>4, <2>5, <2>6, <2>8, <2>9, <2>10 DEF Flow
  <1>4. CASE WriteLine
    <2>1. CASE Fallen
      BY <1>0, <2>1, FallenIsQuiet
    <2>2. CASE ~Fallen
      BY <1>3, <1>4, <2>2, WriteLineDoes
    <2> QED BY <2>1, <2>2
  <1>5. CASE WriteEnd
    <2>1. CASE Fallen
      BY <1>0, <2>1, FallenIsQuiet
    <2>2. CASE ~Fallen
      BY <1>3, <1>5, <2>2, WriteEndDoes
    <2> QED BY <2>1, <2>2
  <1>6. CASE Die
    BY <1>0, <1>6, DieDoes, FallenIsQuiet
  <1> QED BY <1>1, <1>2, <1>4, <1>5, <1>6 DEF ServerStep

\* A step takes one client and leaves the others alone.
LEMMA StepFlows ==
  ASSUME Types, Peers, Turns, Flows, Next
  PROVE  Turns' /\ Flows'
  <1> SUFFICES ASSUME NEW d \in Clients PROVE Turn(d)' /\ Flow(d)'
    BY DEF Turns, Flows
  <1>1. Turn(d) /\ Flow(d)
    BY DEF Turns, Flows
  <1>2. CASE Quiet(d)
    BY <1>1, <1>2, QuietKeeps, StepTypes
  <1>3. CASE ClientStep(d)
    BY <1>1, <1>3, ClientTurn, ClientFlow
  <1>4. ASSUME NEW c \in Clients, ClientStep(c), c # d PROVE Quiet(d)
    BY <1>4, ClientQuiet
  <1>5. CASE (ServerStep \/ Die) /\ d = server.serving
    BY <1>1, <1>5, ServerTurn, ServerFlow
  <1>6. CASE (ServerStep \/ Die) /\ d # server.serving
    BY <1>2, <1>6, ServerQuiet
  <1> QED BY <1>2, <1>3, <1>4, <1>5, <1>6 DEF Next

-----------------------------------------------------------------------------
(* The theorems.                                                           *)

\* The invariant holds initially.
LEMMA InitInv == Init => IInv
  <1> SUFFICES ASSUME Init PROVE IInv
    OBVIOUS
  <1>1. << >> \in Seq(PieceType) /\ << >> \in Seq(Line) /\ << >> \in Seq(Clients)
        /\ Len(<< >>) = 0 /\ << >> # <<Exit>>
    OBVIOUS
  <1>2. \A c \in Clients : 0 \in 0 .. MaxCmds[c] /\ 0 \in Nat
    BY LineTypes
  <1>3. 0 \in 0 .. MaxLines
    BY LineTypes
  <1>4. Types
    <2>1. client \in [Clients -> ClientType]
      BY <1>1 DEF Init, ClientType, Sock
    <2>2. server \in ServerType
      BY <1>1, <1>3 DEF Init, ServerType, Sock
    <2> QED BY <1>1, <1>2, <2>1, <2>2 DEF Init, Types
  <1>5. ASSUME NEW c \in Clients
        PROVE  /\ client[c].pc = "start" /\ client[c].sock = "open"
               /\ client[c].shown = << >> /\ client[c].whole = TRUE
               /\ client[c].answered = FALSE /\ client[c].cut = FALSE
               /\ up[c] = << >> /\ down[c] = << >> /\ printed[c] = << >>
    BY DEF Init
  <1>6. server.pc = "accept" /\ server.serving = None /\ server.cmd = << >>
    BY DEF Init
  <1>7. Peers
    BY <1>5, <1>6 DEF Peers
  <1>8. Turns
    <2> SUFFICES ASSUME NEW c \in Clients PROVE Turn(c)
      BY DEF Turns
    <2>1. Len(up[c]) <= 1
      <3>1. up[c] = << >>
        BY <1>5
      <3> QED BY <3>1
    <2> QED BY <1>5, <1>6, <2>1 DEF Turn, Runs
  <1>9. RunsTyped
    BY <1>1, <1>6 DEF RunsTyped
  <1>10. ServerDownExplained
    BY <1>6 DEF ServerDownExplained
  <1>11. Told
    BY <1>5 DEF Told
  <1>12. Flows
    <2> SUFFICES ASSUME NEW c \in Clients PROVE Flow(c)
      BY DEF Flows
    <2> DEFINE f == [k \in 0 .. 0 |-> 0]
    <2>1. 0 \in 0 .. Len(<< >>) /\ f \in [0 .. 0 -> 0 .. Len(<< >>)] /\ f[0] = 0
      OBVIOUS
    <2> HIDE DEF f
    <2>2. Packages(c, 0, f)
      <3>1. down[c] = << >> /\ client[c].shown = << >> /\ printed[c] = << >>
        BY <1>5
      <3>2. Len(down[c]) = 2 * 0 /\ Len(client[c].shown) = 0 /\ Len(printed[c]) = 0
        BY <3>1
      <3>3. \A k \in 1 .. 0 : FALSE
        OBVIOUS
      <3> QED BY <2>1, <3>2, <3>3 DEF Packages
    <2>3. PICK e \in Seq(PieceType) : e = << >>
      BY <1>1
    <2>4. IsPrefix(e, e)
      <3>1. Len(e) <= Len(e) /\ \A i \in 1 .. Len(e) : e[i] = e[i]
        BY LenProperties
      <3> QED BY <3>1, PrefixIs
    <2>5. ~Split(c)
      BY <1>5 DEF Split
    <2> QED BY <1>5, <2>1, <2>2, <2>3, <2>4, <2>5 DEF Flow
  <1> QED BY <1>4, <1>7, <1>8, <1>9, <1>10, <1>11, <1>12 DEF IInv

\* A step that changes nothing.
LEMMA Stutter ==
  ASSUME IInv, UNCHANGED vars
  PROVE  IInv'
  <1>1. Types'
    BY DEF IInv, Types, vars
  <1>2. ASSUME NEW d \in Clients PROVE Turn(d)' /\ Flow(d)'
    <2>1. Quiet(d) /\ faults' = faults
      BY DEF Quiet, vars, Runs, Running
    <2> QED BY <2>1, QuietKeeps DEF IInv, Turns, Flows
  <1>3. Peers'
    BY DEF IInv, Peers, vars, Running
  <1>4. RunsTyped' /\ ServerDownExplained' /\ Told'
    BY DEF IInv, RunsTyped, ServerDownExplained, Told, OutOfStep, vars
  <1>5. Turns' /\ Flows'
    BY <1>2 DEF Turns, Flows
  <1> QED BY <1>1, <1>3, <1>4, <1>5 DEF IInv

\* The invariant holds initially and every step of a client or the server keeps it.
THEOREM Invariance == Spec => []IInv
  <1>1. IInv /\ [Next]_vars => IInv'
    <2>1. CASE Next /\ IInv
      <3>1. Types /\ Peers /\ Turns /\ RunsTyped /\ ServerDownExplained /\ Told /\ Flows
        BY <2>1 DEF IInv
      <3>2. Types' /\ Peers'
        BY <2>1, <3>1, StepTypes, StepPeers
      <3>3. Turns' /\ Flows'
        BY <2>1, <3>1, StepFlows
      <3>4. RunsTyped' /\ ServerDownExplained' /\ Told'
        BY <2>1, <3>1, StepRunsTyped, StepDown, StepTold
      <3> QED BY <3>2, <3>3, <3>4 DEF IInv
    <2>2. CASE UNCHANGED vars /\ IInv
      BY <2>2, Stutter
    <2> QED BY <2>1, <2>2
  <1> QED BY InitInv, <1>1, PTL DEF Spec

\* Every variable keeps to its type, and the server has a client exactly while it
\* reads or runs a command.
THEOREM TypeCorrect == Spec => []TypeOK
  <1>1. Types => TypeOK
    <2> SUFFICES ASSUME Types PROVE TypeOK
      OBVIOUS
    <2>1. ASSUME NEW c \in Clients
          PROVE  /\ client[c].pc \in {"start", "prompt", "read", "over"}
                 /\ client[c].sock \in Sock /\ client[c].asked \in 0 .. MaxCmds[c]
                 /\ up[c] \in Seq(Line)
                 /\ \A q \in {client[c].shown, printed[c], down[c]} : q \in Seq(PieceType)
      BY ClientIs
    <2>2. faults \in FaultSets /\ queue \in Seq(Clients)
          /\ ((server.serving # None) <=> (server.pc \in {"read", "run"}))
          /\ ((server.cmd # << >>) <=> (server.pc = "run"))
      BY DEF Types
    <2> QED BY <2>1, <2>2, ServerIs DEF TypeOK
  <1> QED BY Invariance, <1>1, PTL DEF IInv

\* client.c 48-75: a client shows the beginning of what its command printed, and all
\* of it once a last package brought it back, unless a read ended inside a package.
THEOREM ShownInStep == Spec => []InStep
  <1>1. IInv => InStep
    BY DEF IInv, Told, Flows, Flow, InStep
  <1> QED BY Invariance, <1>1, PTL

\* server.c 36-43: what is run is one line that was typed, unless its client went on
\* without an answer.
THEOREM CommandsAreTyped == Spec => []RunsTyped
  <1> QED BY Invariance, PTL DEF IInv

\* executer.c 40, 52: SIGPIPE ends the server only if a client left before the end of
\* its answer, or took that for an earlier end.
THEOREM ServerDownIsExplained == Spec => []ServerDownExplained
  <1> QED BY Invariance, PTL DEF IInv
=============================================================================
