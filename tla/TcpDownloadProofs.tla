------------------------- MODULE TcpDownloadProofs -------------------------
(***************************************************************************)
(* Proofs about the parallel download of HW3, for any number of clients    *)
(* and servers, any lists of servers, any length of the file and any size  *)
(* of the package.                                                         *)
(***************************************************************************)
EXTENDS TcpDownload, ListLemmas

-----------------------------------------------------------------------------
(* The inductive invariant, first part: what the types need, and names.    *)

Connected(k) == k[2] \in Valid(k[1])

\* One entry of the array of sockets for each entry of the list, up to its end.
Sized ==
  \A c \in Clients : Len(sockets[c]) <= MaxSock /\ Len(sockets[c]) <= Len(scene.list[c])

\* Threads run between the answer to CHK and the join.
Started ==
  \A k \in Conns :
    /\ thread[k] # "none" => Connected(k) /\ pc[k[1]] \notin {"connect", "answer"}
    /\ thread[k] \notin {"none", "done", "gone"} => pc[k[1]] = "download"
    /\ thread[k] = "gone" => pc[k[1]] = "killed"

\* When result.txt is written, and when it is complete.
Results ==
  \A c \in Clients :
    /\ pc[c] \in {"connect", "answer", "download"} => result[c] = None /\ combined[c] = 0
    /\ pc[c] \in {"answer", "download", "combine"} => Valid(c) # {}
    /\ pc[c] = "combine" => result[c] \in Bytes
    /\ pc[c] = "combine" \/ (pc[c] = "finished" /\ result[c] # None) =>
         Valid(c) # {} /\ \A k \in ValidConns(c) : thread[k] = "done"
    /\ pc[c] = "finished" /\ result[c] # None => combined[c] = PartNum(c)

\* The name of the target is overwritten by a thread with its own part only.
Renamed ==
  \A c \in Clients : target[c] # TheFile =>
    /\ scene.aliased /\ target[c] < PartNum(c)
    /\ \E k \in ValidConns(c) : thread[k] \in {"open", "receive", "done", "gone"}
Opening ==
  \A k \in Conns : thread[k] = "open" /\ scene.aliased => target[k[1]] # TheFile

\* Who asks for the file of another part has another thread beside it.
Asked ==
  \A k \in Conns : \A i \in DOMAIN requests[k] :
    requests[k][i].cmd = "DWN" /\ requests[k][i].file # TheFile =>
      scene.aliased /\ PartNum(k[1]) > 1

\* A server talks to its own connections, and sends to the one it talks to.
Served ==
  \A s \in Servers : /\ serving[s] # None => Server(serving[s]) = s
                     /\ upload[s] # None => serving[s] # None

\* Files are of the part they are named for, unless names are mixed up.
Filed ==
  \A c \in Clients, n \in Nums : \A k \in Conns : dir[c][n] = k =>
    /\ k \in ValidConns(c) /\ thread[k] \in {"receive", "done", "gone"}
    /\ ~scene.aliased \/ PartNum(c) = 1 => Part(k) = n

\* What the server is still to send on a connection.
Upload(k) == IF serving[Server(k)] = k THEN upload[Server(k)] ELSE None

\* What is on a connection before its thread asks for a part; and then the thread
\* finds bytes of the file, but perhaps for the rest of the answer to CHK.
Silent(k) == requests[k] = << >> /\ responses[k] = << >>
Data == [content : Seq(Nat), is_end : BOOLEAN]
Early(k) ==
  /\ \/ pc[k[1]] = "connect"
     \/ pc[k[1]] = "answer" /\ k # First(k[1])
     => Silent(k)
  /\ pc[k[1]] = "answer" /\ k = First(k[1]) =>
       \/ requests[k] = <<Package("CHK")>> /\ responses[k] = << >>
       \/ requests[k] = << >> /\ Len(responses[k]) = 1
Asking(k) ==
  /\ thread[k] = "none" =>
       Upload(k) = None /\ \A i \in DOMAIN requests[k] : requests[k][i].cmd # "DWN"
  /\ thread[k] = "request" => Upload(k) = None /\ requests[k] = << >>
Running(k) ==
  thread[k] \notin {"none", "done", "gone"} =>
    /\ \A i \in DOMAIN requests[k] : requests[k][i].cmd # "CHK"
    /\ \A i \in DOMAIN responses[k] : responses[k][i] \in Data \/ (skew[k] /\ i = 1)
Exchange(k) == Early(k) /\ Asking(k) /\ Running(k)
Exchanges == \A k \in Conns : Exchange(k)

IInv == /\ TypeOK /\ Sized /\ Started /\ Results /\ Renamed /\ Opening
        /\ Asked /\ Served /\ Filed /\ Exchanges

-----------------------------------------------------------------------------
(* Second part: a part is asked for, sent and ended once.                  *)

Downloads(k) == {i \in DOMAIN requests[k] : requests[k][i].cmd = "DWN"}
EndUnderWay(k) ==
  \E i \in DOMAIN responses[k] : responses[k][i] \in Data /\ responses[k][i].is_end

\* Request, upload and the end of a part are never there together; the end is not
\* there before it is asked for; and nothing is left to be sent to a thread that
\* is done, by a server that lives.
OneUpload(k) ==
  /\ \A i, j \in Downloads(k) : i = j
  /\ Upload(k) # None \/ EndUnderWay(k) => Downloads(k) = {}
  /\ EndUnderWay(k) => Upload(k) = None /\ thread[k] \notin {"none", "request"}
  /\ thread[k] = "done" /\ up[Server(k)] => Upload(k) = None /\ Downloads(k) = {}
OneUploads == \A k \in Conns : OneUpload(k)

-----------------------------------------------------------------------------
(* Third part: packages, if they are read whole.                           *)

Step == BufferSize - 1

\* The position at which the package behind i others begins.
Reached(k, i) == FileStart(k) + Len(content[k]) + i * Step

\* The first i packages are full, one behind the other.
FullPackages(k, i) ==
  \A n \in 1 .. i : /\ responses[k][n].content = Positions(Reached(k, n - 1), Reached(k, n) - 1)
                    /\ ~responses[k][n].is_end

\* A package may begin here: at the start, or after full ones and before the end.
Begins(k, x) == /\ (x - FileStart(k)) % Step = 0
                /\ x = FileStart(k) \/ x < FileEnd(k)

\* A part on its way: asked for; being sent, with i packages under way; sent, with
\* i full ones and the last; or refused.
Waiting(k) ==
  /\ Len(requests[k]) = 1 /\ requests[k][1].cmd = "DWN"
  /\ requests[k][1].start = FileStart(k) /\ requests[k][1].end = FileEnd(k)
  /\ responses[k] = << >> /\ content[k] = << >> /\ Upload(k) = None
Sending(k, i) ==
  /\ requests[k] = << >> /\ Len(responses[k]) = i
  /\ Upload(k) = <<Reached(k, i), FileEnd(k)>>
  /\ FullPackages(k, i) /\ Begins(k, Reached(k, i))
Sent(k, i) ==
  /\ requests[k] = << >> /\ Len(responses[k]) = i + 1 /\ Upload(k) = None
  /\ FullPackages(k, i) /\ Begins(k, Reached(k, i)) /\ FileEnd(k) - Reached(k, i) <= Step
  /\ responses[k][i + 1].content = Positions(Reached(k, i), FileEnd(k))
  /\ responses[k][i + 1].is_end
Refused(k) ==
  /\ requests[k] = << >> /\ responses[k] = << >> /\ content[k] = << >> /\ Upload(k) = None
  /\ ~up[Server(k)]
OnItsWay(k) ==
  \/ Waiting(k) \/ Refused(k)
  \/ \E i \in 0 .. Len(responses[k]) : Sending(k, i) \/ Sent(k, i)

\* Where thread and connection of a part are.
Stage(k) ==
  /\ thread[k] \in {"none", "request"} => content[k] = << >>
  /\ thread[k] = "request" => responses[k] = << >>
  /\ thread[k] \in {"name", "open", "receive"} =>
       /\ content[k] = Positions(FileStart(k), FileStart(k) + Len(content[k]) - 1)
       /\ OnItsWay(k)
  /\ thread[k] = "done" => /\ IsPrefix(content[k], Wanted(k))
                           /\ up[Server(k)] => content[k] = Wanted(k)
  /\ thread[k] = "gone" => IsPrefix(content[k], Wanted(k))

Stages == ~scene.short => \A k \in Conns : ~skew[k] /\ Stage(k)

-----------------------------------------------------------------------------
(* Fourth part: result.txt.                                                *)

\* Where the first n parts end.
Upto(c, n) == IF n = PartNum(c) THEN scene.filesize ELSE n * single_part_length(c)

Joined(c) ==
  LET n == combined[c]
      overrun == \E k \in ValidConns(c) : Part(k) < n /\ Overruns(k)
  IN  /\ ~overrun => result[c] = Positions(0, Upto(c, n) - 1)
      /\ overrun  => Len(result[c]) > Upto(c, n)
      /\ Len(result[c]) >= Upto(c, n)

Combining ==
  ~scene.short => \A c \in Clients :
    (/\ pc[c] = "combine" \/ (pc[c] = "finished" /\ result[c] # None)
     /\ ~scene.aliased \/ PartNum(c) = 1
     /\ \A k \in ValidConns(c) : up[Server(k)])
    => Joined(c)

-----------------------------------------------------------------------------
(* Connections and parts.                                                  *)

\* The fields of the scenario.
LEMMA SceneTypes ==
  ASSUME TypeOK
  PROVE  /\ scene.list \in [Clients -> Seq(Servers)] /\ scene.num \in [Clients -> Nat]
         /\ scene.filesize \in Nat
         /\ scene.short \in BOOLEAN /\ scene.aliased \in BOOLEAN
  <1>1. scene \in Scenario
    BY ScenariosAssumption DEF TypeOK
  <1> QED BY <1>1 DEF Scenario

\* A connection is its client and an index of the client's list.
LEMMA ConnTypes ==
  ASSUME TypeOK, NEW k \in Conns
  PROVE  /\ k[1] \in Clients /\ k[2] \in 1 .. MaxSock /\ k = <<k[1], k[2]>>
         /\ Server(k) \in Servers /\ k # None
  <1>1. k \in Clients \X (1 .. MaxSock) /\ k[2] <= Len(scene.list[k[1]])
    BY DEF Conns
  <1>2. scene.list[k[1]] \in Seq(Servers) /\ Len(scene.list[k[1]]) \in Nat
    BY <1>1, SceneTypes, LenProperties
  <1>3. k[2] \in 1 .. Len(scene.list[k[1]])
    BY <1>1, <1>2, MaxSockAssumption
  <1>4. Server(k) \in Servers
    BY <1>2, <1>3, ElementOfSeq DEF Server
  <1>5. k \in Clients \X Nat
    BY <1>1
  <1> QED BY <1>1, <1>4, <1>5, NoneAssumption

\* The entries that were connected are indices of the list.
LEMMA ValidTypes ==
  ASSUME TypeOK, Sized, NEW c \in Clients
  PROVE  /\ Valid(c) \subseteq 1 .. MaxSock /\ IsFiniteSet(Valid(c))
         /\ PartNum(c) \in 0 .. MaxSock /\ (PartNum(c) = 0 <=> Valid(c) = {})
         /\ ValidConns(c) \subseteq Conns
         /\ \A k \in Conns : Connected(k) /\ k[1] = c <=> k \in ValidConns(c)
  <1>1. /\ sockets[c] \in Seq(BOOLEAN) /\ Len(sockets[c]) \in Nat
        /\ DOMAIN sockets[c] = 1 .. Len(sockets[c])
    BY LenProperties DEF TypeOK
  <1>2. Len(scene.list[c]) \in Nat
    BY SceneTypes, LenProperties
  <1>3. /\ Valid(c) \subseteq 1 .. MaxSock /\ \A i \in Valid(c) : i <= Len(scene.list[c])
    BY <1>1, <1>2, MaxSockAssumption DEF Sized, Valid
  <1>4. IsFiniteSet(1 .. MaxSock) /\ Cardinality(1 .. MaxSock) = MaxSock
    BY FS_Interval, MaxSockAssumption
  <1>5. /\ IsFiniteSet(Valid(c)) /\ Cardinality(Valid(c)) <= MaxSock
        /\ Cardinality(Valid(c)) \in Nat
    BY <1>3, <1>4, FS_Subset, FS_CardinalityType
  <1>6. PartNum(c) \in 0 .. MaxSock /\ (PartNum(c) = 0 <=> Valid(c) = {})
    BY <1>5, FS_EmptySet, MaxSockAssumption DEF PartNum
  <1>7. ValidConns(c) \subseteq Conns
    BY <1>3 DEF ValidConns, Conns
  <1>8. \A k \in Conns : Connected(k) /\ k[1] = c <=> k \in ValidConns(c)
    BY ConnTypes DEF ValidConns, Connected
  <1> QED BY <1>3, <1>5, <1>6, <1>7, <1>8

\* The number of a part is less than the number of parts.
LEMMA PartTypes ==
  ASSUME TypeOK, Sized, NEW k \in Conns, Connected(k)
  PROVE  /\ Part(k) \in Nat /\ Part(k) < PartNum(k[1]) /\ Part(k) \in Nums
         /\ PartNum(k[1]) \in Nat \ {0} /\ k \in ValidConns(k[1])
  <1> DEFINE before == {i \in Valid(k[1]) : i < k[2]}
  <1>1. k[1] \in Clients /\ k[2] \in 1 .. MaxSock
    BY ConnTypes
  <1>2. /\ IsFiniteSet(Valid(k[1])) /\ k[2] \in Valid(k[1]) /\ PartNum(k[1]) \in 0 .. MaxSock
        /\ k \in ValidConns(k[1])
    BY <1>1, ValidTypes DEF Connected
  <1>3. k[2] \notin before /\ before \in SUBSET Valid(k[1])
    BY <1>1
  <1> HIDE DEF before
  <1>4. /\ IsFiniteSet(before) /\ Cardinality(before) \in Nat
        /\ Cardinality(before) <= Cardinality(Valid(k[1]))
        /\ Cardinality(Valid(k[1])) # Cardinality(before)
    BY <1>2, <1>3, FS_Subset, FS_CardinalityType
  <1>5. Part(k) = Cardinality(before) /\ PartNum(k[1]) = Cardinality(Valid(k[1]))
    BY DEF before, Part, PartNum
  <1>6. Part(k) \in Nat /\ Part(k) < PartNum(k[1]) /\ PartNum(k[1]) \in Nat \ {0}
    BY <1>2, <1>4, <1>5, MaxSockAssumption
  <1>7. Part(k) \in Nums
    BY <1>2, <1>6, MaxSockAssumption DEF Nums
  <1> QED BY <1>2, <1>6, <1>7

\* The connection on which main asks.
LEMMA FirstTypes ==
  ASSUME TypeOK, Sized, NEW c \in Clients, Valid(c) # {}
  PROVE  First(c) \in ValidConns(c) /\ First(c) \in Conns /\ First(c)[1] = c
  <1>1. Valid(c) \in SUBSET Nat
    BY ValidTypes
  <1>2. \E i \in Valid(c) : \A j \in Valid(c) : i <= j
    BY <1>1, SmallestIndex
  <1>3. First(c) \in ValidConns(c) /\ First(c)[1] = c
    BY <1>2 DEF First, ValidConns
  <1> QED BY <1>3, ValidTypes

-----------------------------------------------------------------------------
(* Ranges.                                                                 *)

\* A position is of one part only: the same product and remainder.
LEMMA SameQuotient ==
  ASSUME NEW d \in Nat \ {0}, NEW a \in Nat, NEW b \in Nat,
         NEW r \in 0 .. d - 1, NEW t \in 0 .. d - 1, a * d + r = b * d + t
  PROVE  r = t
  <1>1. ASSUME NEW x \in Nat, NEW y \in Nat, x < y
        PROVE  x * d + d <= y * d /\ x * d \in Nat /\ y * d \in Nat
    <2> DEFINE z == y - x - 1
    <2>1. z \in Nat /\ y = (x + 1) + z
      BY <1>1
    <2>2. ((x + 1) + z) * d = (x * d + d) + z * d /\ z * d \in Nat /\ x * d \in Nat
      BY <2>1
    <2> QED BY <2>1, <2>2
  <1>2. CASE a < b
    BY <1>2, <1>1
  <1>3. CASE b < a
    BY <1>3, <1>1
  <1>4. CASE a = b
    BY <1>4, <1>1
  <1> QED BY <1>2, <1>3, <1>4

\* Full packages and a remainder.
LEMMA Remainder ==
  ASSUME NEW d \in Nat \ {0}, NEW a \in Nat, NEW r \in 0 .. d - 1
  PROVE  (a * d + r) % d = r /\ a * d + r \in Nat
  <1> DEFINE x == a * d + r
  <1>1. x \in Nat
    OBVIOUS
  <1>2. x = (x \div d) * d + (x % d) /\ x % d \in 0 .. d - 1 /\ x \div d \in Nat
    BY <1>1
  <1> HIDE DEF x
  <1>3. a * d + r = (x \div d) * d + (x % d)
    BY <1>2 DEF x
  <1>4. r = x % d
    BY <1>2, <1>3, SameQuotient
  <1> QED BY <1>1, <1>4 DEF x

\* One full package more.
LEMMA NextMultiple ==
  ASSUME NEW d \in Nat \ {0}, NEW x \in Nat, x % d = 0
  PROVE  (x + d) % d = 0
  <1>1. x = (x \div d) * d /\ x \div d \in Nat
    OBVIOUS
  <1> DEFINE a == x \div d
  <1> HIDE DEF a
  <1>2. a \in Nat /\ x + d = (a + 1) * d + 0 /\ a + 1 \in Nat /\ 0 \in 0 .. d - 1
    BY <1>1 DEF a
  <1>3. \A b \in Nat, r \in 0 .. d - 1 : (b * d + r) % d = r
    BY Remainder
  <1>4. ((a + 1) * d + 0) % d = 0
    BY <1>2, <1>3, Zenon
  <1> QED BY <1>2, <1>4

\* The last package, of n bytes behind x bytes in full ones, fills the array if
\* and only if the length of the part is the array's and a number of full
\* packages.
LEMMA LastFull ==
  ASSUME NEW d \in Nat \ {0}, NEW x \in Nat, x % d = 0,
         NEW n \in 0 .. d + 1, x = 0 \/ n > 1
  PROVE  n = d + 1 <=> x + n >= d + 1 /\ (x + n - (d + 1)) % d = 0
  <1> DEFINE a == x \div d
  <1>1. x = a * d /\ a \in Nat
    OBVIOUS
  <1> HIDE DEF a
  <1>2. CASE x = 0
    <2>1. 0 % d = 0
      OBVIOUS
    <2>2. x + n >= d + 1 <=> n = d + 1
      BY <1>2
    <2>3. n = d + 1 => x + n - (d + 1) = 0
      BY <1>2
    <2> QED BY <2>1, <2>2, <2>3
  <1>3. CASE n = d + 1
    BY <1>3
  <1>4. CASE x # 0 /\ n # d + 1
    <2>1. n - 1 \in 1 .. d - 1
      BY <1>4
    <2>2. a # 0
      BY <1>1, <1>4
    <2>3. a - 1 \in Nat /\ x + n - (d + 1) = (a - 1) * d + (n - 1)
      BY <1>1, <2>2
    <2>4. n - 1 \in 0 .. d - 1
      BY <2>1
    <2>5. ((a - 1) * d + (n - 1)) % d = n - 1
      BY <2>3, <2>4, Remainder, Zenon
    <2> QED BY <1>4, <2>1, <2>3, <2>5
  <1> QED BY <1>2, <1>3, <1>4

\* Whole parts are inside the file.
LEMMA PartsInside ==
  ASSUME NEW a \in Nat, NEW n \in Nat \ {0}, NEW p \in 0 .. n - 1
  PROVE  LET l == a \div n
         IN  /\ p * l \in Nat /\ (p + 1) * l \in Nat /\ l \in Nat
             /\ p * l <= (p + 1) * l /\ (p + 1) * l <= a
  <1> DEFINE l == a \div n
  <1>1. l \in Nat /\ n * l <= a
    OBVIOUS
  <1> HIDE DEF l
  <1>2. n - 1 - p \in Nat /\ n = (p + 1) + (n - 1 - p)
    OBVIOUS
  <1>3. PICK z \in Nat : n = (p + 1) + z
    BY <1>2
  <1>4. ((p + 1) + z) * l = (p + 1) * l + z * l /\ z * l \in Nat /\ (p + 1) * l \in Nat
    BY <1>1
  <1>5. (p + 1) * l <= a
    BY <1>1, <1>3, <1>4
  <1>6. (p + 1) * l = p * l + l /\ p * l \in Nat
    BY <1>1
  <1> QED BY <1>1, <1>4, <1>5, <1>6 DEF l

\* The ranges of parts are one behind the other, up to the end of the file.
LEMMA RangeTypes ==
  ASSUME TypeOK, Sized, NEW k \in Conns, Connected(k)
  PROVE  /\ FileStart(k) \in Nat /\ FileEnd(k) \in Nat \cup {-1}
         /\ FileStart(k) <= FileEnd(k) + 1
         /\ FileStart(k) = Upto(k[1], Part(k)) /\ FileEnd(k) + 1 = Upto(k[1], Part(k) + 1)
  <1> DEFINE a == scene.filesize
             n == PartNum(k[1])
             p == Part(k)
             l == a \div n
  <1>1. a \in Nat /\ n \in Nat \ {0} /\ p \in Nat /\ p < n
    BY SceneTypes, PartTypes
  <1>2. /\ FileStart(k) = p * l
        /\ FileEnd(k) = IF p = n - 1 THEN a - 1 ELSE (p + 1) * l - 1
        /\ Upto(k[1], p) = IF p = n THEN a ELSE p * l
        /\ Upto(k[1], p + 1) = IF p + 1 = n THEN a ELSE (p + 1) * l
    BY DEF FileStart, FileEnd, single_part_length, Upto
  <1> HIDE DEF a, n, p
  <1>3. p \in 0 .. n - 1
    BY <1>1
  <1>4. /\ p * l \in Nat /\ (p + 1) * l \in Nat /\ p * l <= (p + 1) * l /\ (p + 1) * l <= a
    BY <1>1, <1>3, PartsInside
  <1> HIDE DEF l
  <1>5. PICK x \in Nat, y \in Nat : x = p * l /\ y = (p + 1) * l /\ x <= y /\ y <= a
    BY <1>4
  <1>6. /\ FileStart(k) \in Nat /\ FileEnd(k) \in Nat \cup {-1}
        /\ FileStart(k) <= FileEnd(k) + 1
        /\ FileStart(k) = Upto(k[1], p) /\ FileEnd(k) + 1 = Upto(k[1], p + 1)
    BY <1>1, <1>2, <1>5
  <1> QED BY <1>6 DEF p

-----------------------------------------------------------------------------
(* Contents.                                                               *)

\* The bytes from i to j.
LEMMA PositionsTypes ==
  ASSUME NEW i \in Nat, NEW j \in Nat \cup {-1}
  PROVE  /\ Positions(i, j) \in Seq(Nat) /\ Positions(i, j) \in Bytes
         /\ Len(Positions(i, j)) = IF i <= j + 1 THEN j - i + 1 ELSE 0
         /\ \A n \in 1 .. j - i + 1 : Positions(i, j)[n] = i + n - 1
  <1> DEFINE f == Positions(i, j)
  <1>1. f = [n \in 1 .. j - i + 1 |-> i + n - 1]
    BY DEF Positions
  <1>2. \A n \in 1 .. j - i + 1 : i + n - 1 \in Nat
    OBVIOUS
  <1> HIDE DEF f
  <1>3. f \in [1 .. j - i + 1 -> Nat] /\ \A n \in 1 .. j - i + 1 : f[n] = i + n - 1
    BY <1>1, <1>2
  <1>4. CASE i <= j + 1
    <2>1. PICK m \in Nat : m = j - i + 1
      BY <1>4
    <2>2. f \in Seq(Nat) /\ Len(f) = m
      BY <1>3, <2>1, FunctionIsList
    <2> QED BY <1>3, <1>4, <2>1, <2>2, SeqMonotonic DEF f, Bytes
  <1>5. CASE ~(i <= j + 1)
    <2>1. 1 .. j - i + 1 = 1 .. 0
      BY <1>5
    <2>2. f \in [1 .. 0 -> Nat]
      BY <1>3, <2>1
    <2>3. f \in Seq(Nat) /\ Len(f) = 0
      BY <2>2, FunctionIsList
    <2> QED BY <1>3, <1>5, <2>3, SeqMonotonic DEF f, Bytes
  <1> QED BY <1>4, <1>5

\* Two ranges, one behind the other.
LEMMA PositionsJoin ==
  ASSUME NEW i \in Nat, NEW j \in Nat, NEW m \in Nat \cup {-1}, i <= j, j <= m + 1
  PROVE  Positions(i, j - 1) \o Positions(j, m) = Positions(i, m)
  <1>1. PICK a, b, f :
          /\ a = Positions(i, j - 1) /\ b = Positions(j, m) /\ f = Positions(i, m)
    OBVIOUS
  <1>2. j - 1 \in Nat \cup {-1}
    OBVIOUS
  <1>3. /\ a \in Seq(Nat) /\ Len(a) = j - i
        /\ \A n \in 1 .. j - i : a[n] = i + n - 1
    <2>1. /\ a \in Seq(Nat) /\ Len(a) = IF i <= (j - 1) + 1 THEN (j - 1) - i + 1 ELSE 0
          /\ \A n \in 1 .. (j - 1) - i + 1 : a[n] = i + n - 1
      BY <1>1, <1>2, PositionsTypes
    <2> QED BY <2>1
  <1>4. /\ b \in Seq(Nat) /\ Len(b) = m - j + 1
        /\ \A n \in 1 .. m - j + 1 : b[n] = j + n - 1
    BY <1>1, PositionsTypes
  <1>5. /\ f \in Seq(Nat) /\ Len(f) = m - i + 1
        /\ \A n \in 1 .. m - i + 1 : f[n] = i + n - 1
    <2>1. i <= m + 1
      OBVIOUS
    <2> QED BY <1>1, <2>1, PositionsTypes
  <1>6. /\ a \o b \in Seq(Nat) /\ Len(a \o b) = Len(a) + Len(b)
        /\ \A n \in 1 .. Len(a) : (a \o b)[n] = a[n]
        /\ \A n \in 1 .. Len(b) : (a \o b)[Len(a) + n] = b[n]
    <2>1. a \in Seq(Nat) /\ b \in Seq(Nat)
      BY <1>3, <1>4
    <2> QED BY <2>1, JoinLists
  <1>7. PICK g : g = a \o b
    OBVIOUS
  <1>8. Len(g) = Len(f)
    BY <1>3, <1>4, <1>5, <1>6, <1>7
  <1>9. ASSUME NEW n \in 1 .. Len(f) PROVE g[n] = f[n]
    <2>1. f[n] = i + n - 1
      BY <1>5
    <2>2. CASE n <= j - i
      BY <1>3, <1>6, <1>7, <2>1, <2>2
    <2>3. CASE j - i < n
      <3>1. PICK o \in 1 .. m - j + 1 : n = (j - i) + o
        <4>1. n - (j - i) \in 1 .. m - j + 1 /\ n = (j - i) + (n - (j - i))
          BY <1>5, <2>3
        <4> QED BY <4>1
      <3>2. g[n] = b[o] /\ b[o] = j + o - 1
        BY <1>3, <1>4, <1>6, <1>7, <3>1
      <3> QED BY <2>1, <3>1, <3>2
    <2> QED BY <1>5, <2>2, <2>3
  <1>10. g = f
    BY <1>5, <1>6, <1>7, <1>8, <1>9, SeqEqual
  <1> QED BY <1>1, <1>7, <1>10

\* A list is the beginning of another.
LEMMA PrefixOf ==
  ASSUME NEW S, NEW s \in Seq(S), NEW t \in Seq(S), Len(s) <= Len(t),
         \A n \in 1 .. Len(s) : s[n] = t[n]
  PROVE  IsPrefix(s, t)
  <1>1. Len(s) \in Nat /\ Len(t) \in Nat /\ Len(s) \in 0 .. Len(t)
    BY LenProperties
  <1>2. PICK u, v : u = SubSeq(s, 1, Len(s)) /\ v = SubSeq(t, 1, Len(s))
    OBVIOUS
  <1>3. /\ u \in Seq(S) /\ Len(u) = Len(s) /\ \A n \in 1 .. Len(s) : u[n] = s[n]
    <2>1. \A n \in 1 .. Len(s) : s[n] \in S
      BY ElementOfSeq
    <2>2. /\ u \in Seq(S) /\ Len(u) = IF 1 <= Len(s) THEN Len(s) - 1 + 1 ELSE 0
          /\ \A n \in 1 .. Len(s) - 1 + 1 : u[n] = s[1 + n - 1]
      BY <1>1, <1>2, <2>1, SubSeqProperties
    <2> QED BY <1>1, <2>2
  <1>4. /\ v \in Seq(S) /\ Len(v) = Len(s) /\ \A n \in 1 .. Len(s) : v[n] = t[n]
    <2>1. \A n \in 1 .. Len(s) : t[n] \in S
      BY <1>1, ElementOfSeq
    <2>2. /\ v \in Seq(S) /\ Len(v) = IF 1 <= Len(s) THEN Len(s) - 1 + 1 ELSE 0
          /\ \A n \in 1 .. Len(s) - 1 + 1 : v[n] = t[1 + n - 1]
      BY <1>1, <1>2, <2>1, SubSeqProperties
    <2> QED BY <1>1, <2>2
  <1>5. \A n \in 1 .. Len(u) : u[n] = v[n]
    BY <1>3, <1>4
  <1>6. u = v
    BY <1>3, <1>4, <1>5, SeqEqual
  <1> QED BY <1>1, <1>2, <1>6 DEF IsPrefix

-----------------------------------------------------------------------------
(* Types.                                                                  *)

\* Packages have their types.
LEMMA PackageTypes ==
  ASSUME TypeOK, Sized, Started
  PROVE  /\ Package("CHK") \in ToServer /\ Package("BYE") \in ToServer
         /\ Package("EOF") \in ToServer
         /\ \A k \in Conns : thread[k] = "request" =>
              [cmd |-> "DWN", file |-> target[k[1]], start |-> FileStart(k),
               end |-> FileEnd(k)] \in ToServer
         /\ \A b \in BOOLEAN : [have |-> b] \in ToClient
         /\ \A f \in Seq(Nat), b \in BOOLEAN : [content |-> f, is_end |-> b] \in ToClient
  <1>1. ASSUME NEW k \in Conns, thread[k] = "request"
        PROVE  [cmd |-> "DWN", file |-> target[k[1]], start |-> FileStart(k),
                end |-> FileEnd(k)] \in ToServer
    <2>1. Connected(k)
      BY <1>1 DEF Started
    <2>2. FileStart(k) \in Nat /\ FileEnd(k) \in Nat \cup {-1}
      BY <2>1, RangeTypes
    <2>3. target[k[1]] \in Nums \cup {TheFile}
      BY ConnTypes DEF TypeOK
    <2> QED BY <2>2, <2>3 DEF ToServer
  <1> QED BY <1>1 DEF ToServer, ToClient, Package

\* The variables have their types from the start.
LEMMA InitTypes ==
  ASSUME Init
  PROVE  TypeOK /\ Sized /\ Started /\ Opening
  <1>1. << >> \in Bytes /\ MaxSock \in Nat
    BY MaxSockAssumption DEF Bytes
  <1>2. scene \in Scenario
    BY ScenariosAssumption DEF Init
  <1>3. \A c \in Clients : scene.list[c] \in Seq(Servers) /\ Len(scene.list[c]) \in Nat
    BY <1>2, LenProperties DEF Scenario
  <1>4. TypeOK
    BY <1>1, PendingAssumption DEF Init, TypeOK
  <1>5. Sized
    BY <1>3, MaxSockAssumption DEF Init, Sized
  <1>6. Started /\ Opening
    BY DEF Init, Started, Opening
  <1> QED BY <1>4, <1>5, <1>6

\* Main connects to the next entry of the list.
LEMMA ConnectTypes ==
  ASSUME TypeOK, Sized, NEW c \in Clients, Connect(c)
  PROVE  TypeOK' /\ Sized'
  <1> DEFINE k == <<c, Len(sockets[c]) + 1>>
  <1>1. /\ Len(sockets[c]) \in Nat /\ Len(sockets[c]) < MaxSock
        /\ Len(sockets[c]) < Len(scene.list[c])
    BY LenProperties DEF Connect, Wanting, TypeOK
  <1>2. Len(scene.list[c]) \in Nat
    BY SceneTypes, LenProperties
  <1>3. k \in Conns
    BY <1>1, <1>2, MaxSockAssumption DEF Conns
  <1>4. Server(k) \in Servers
    BY <1>3, ConnTypes
  <1>5. PICK b \in BOOLEAN : sockets' = [sockets EXCEPT ![c] = Append(@, b)]
    BY DEF Connect
  <1>6. sockets[c] \in Seq(BOOLEAN)
    BY DEF TypeOK
  <1>7. /\ Append(sockets[c], b) \in Seq(BOOLEAN)
        /\ Len(Append(sockets[c], b)) = Len(sockets[c]) + 1
    BY <1>6, PutLast
  <1>8. sockets' \in [Clients -> Seq(BOOLEAN)]
    BY <1>5, <1>7 DEF TypeOK
  <1>9. Sized'
    BY <1>1, <1>2, <1>5, <1>7, MaxSockAssumption DEF Sized, Connect, TypeOK
  <1> DEFINE s == Server(k)
  <1>10. \/ /\ Len(backlog[s]) < Pending
            /\ backlog' = [backlog EXCEPT ![s] = Append(@, k)]
         \/ UNCHANGED backlog
    BY DEF Connect
  <1>11. backlog[s] \in Seq(Conns) /\ Len(backlog[s]) \in Nat /\ Len(backlog[s]) <= Pending
    BY <1>4, LenProperties DEF TypeOK
  <1>12. scene' = scene /\ Conns' = Conns
    BY DEF Connect, Conns
  <1>13. ASSUME backlog' = [backlog EXCEPT ![s] = Append(@, k)], Len(backlog[s]) < Pending
         PROVE  /\ backlog' \in [Servers -> Seq(Conns)]
                /\ \A t \in Servers : /\ Len(backlog'[t]) <= Pending
                                      /\ \A i \in DOMAIN backlog'[t] : Server(backlog'[t][i]) = t
    <2>1. /\ Append(backlog[s], k) \in Seq(Conns)
          /\ Len(Append(backlog[s], k)) = Len(backlog[s]) + 1
          /\ \A i \in 1 .. Len(backlog[s]) : Append(backlog[s], k)[i] = backlog[s][i]
          /\ Append(backlog[s], k)[Len(backlog[s]) + 1] = k
      BY <1>3, <1>11, AppendProperties
    <2> HIDE DEF s, k
    <2>2. backlog' \in [Servers -> Seq(Conns)]
      BY <1>13, <2>1 DEF TypeOK
    <2>3. ASSUME NEW t \in Servers, t # s
          PROVE  /\ Len(backlog'[t]) <= Pending
                 /\ \A i \in DOMAIN backlog'[t] : Server(backlog'[t][i]) = t
      BY <1>13, <2>3 DEF TypeOK
    <2>4. Len(Append(backlog[s], k)) <= Pending
      BY <1>11, <1>13, <2>1, PendingAssumption
    <2>5. ASSUME NEW i \in DOMAIN Append(backlog[s], k)
          PROVE  Server(Append(backlog[s], k)[i]) = s
      <3>1. i \in 1 .. Len(backlog[s]) + 1
        BY <2>1, LenProperties
      <3>2. DOMAIN backlog[s] = 1 .. Len(backlog[s])
        BY <1>11, LenProperties
      <3>3. CASE i = Len(backlog[s]) + 1
        BY <2>1, <3>3 DEF s
      <3>4. CASE i \in 1 .. Len(backlog[s])
        BY <1>4, <2>1, <3>2, <3>4 DEF TypeOK, s
      <3> QED BY <1>11, <3>1, <3>3, <3>4
    <2>6. backlog'[s] = Append(backlog[s], k)
      BY <1>4, <1>13 DEF TypeOK, s
    <2> QED BY <2>2, <2>3, <2>4, <2>5, <2>6
  <1> HIDE DEF s, k
  <1>14. /\ backlog' \in [Servers -> Seq(Conns)]
         /\ \A t \in Servers : /\ Len(backlog'[t]) <= Pending
                               /\ \A i \in DOMAIN backlog'[t] : Server(backlog'[t][i]) = t
    <2>1. CASE UNCHANGED backlog
      BY <2>1 DEF TypeOK
    <2> QED BY <1>10, <1>13, <2>1
  <1>15. UNCHANGED <<pc, target, thread, dir, content, skew, result, combined, requests,
                     responses, up, serving, upload>>
    BY DEF Connect
  <1>16. TypeOK'
    BY <1>8, <1>12, <1>14, <1>15 DEF TypeOK, Server
  <1> QED BY <1>9, <1>16

\* Asking keeps the types.
LEMMA AskTypes ==
  ASSUME TypeOK, NEW r \in ToServer
  PROVE  /\ \A k : Ask(k, r) => requests' \in [Conns -> Seq(ToServer)]
         /\ \A c : AskAll(c, r) => requests' \in [Conns -> Seq(ToServer)]
  <1>1. \A k \in Conns : requests[k] \in Seq(ToServer)
               /\ Append(requests[k], r) \in Seq(ToServer)
    <2> TAKE k \in Conns
    <2>1. requests[k] \in Seq(ToServer)
      BY DEF TypeOK
    <2> QED BY <2>1, PutLast
  <1>2. requests \in [Conns -> Seq(ToServer)]
    BY DEF TypeOK
  <1>3. ASSUME NEW k, Ask(k, r) PROVE requests' \in [Conns -> Seq(ToServer)]
    BY <1>1, <1>2, <1>3 DEF Ask
  <1>4. ASSUME NEW c, AskAll(c, r) PROVE requests' \in [Conns -> Seq(ToServer)]
    BY <1>1, <1>4 DEF AskAll
  <1> QED BY <1>3, <1>4

\* Taking the first of the packages of a connection keeps the types.
LEMMA TakeTypes ==
  ASSUME TypeOK, NEW k \in Conns
  PROVE  /\ requests[k] # << >> =>
              /\ Head(requests[k]) \in ToServer
              /\ [requests EXCEPT ![k] = Tail(@)] \in [Conns -> Seq(ToServer)]
         /\ responses[k] # << >> =>
              /\ Head(responses[k]) \in ToClient
              /\ [responses EXCEPT ![k] = Tail(@)] \in [Conns -> Seq(ToClient)]
  <1>1. requests[k] \in Seq(ToServer) /\ responses[k] \in Seq(ToClient)
    BY DEF TypeOK
  <1>2. requests[k] # << >> => Head(requests[k]) \in ToServer
            /\ Tail(requests[k]) \in Seq(ToServer)
    BY <1>1, DropFirst
  <1>3. responses[k] # << >> =>
          Head(responses[k]) \in ToClient /\ Tail(responses[k]) \in Seq(ToClient)
    BY <1>1, DropFirst
  <1> QED BY <1>2, <1>3 DEF TypeOK

\* Main asks for the file.
LEMMA CheckFileTypes ==
  ASSUME TypeOK, Sized, Started, NEW c \in Clients, CheckFile(c)
  PROVE  TypeOK'
  <1>1. requests' \in [Conns -> Seq(ToServer)]
    <2>1. Ask(First(c), Package("CHK")) \/ UNCHANGED requests
      BY DEF CheckFile
    <2>2. CASE Ask(First(c), Package("CHK"))
      BY <2>2, PackageTypes, AskTypes
    <2> QED BY <2>1, <2>2 DEF TypeOK
  <1>2. scene' = scene /\ Conns' = Conns
    BY DEF CheckFile, Conns
  <1>3. pc' \in [Clients -> {"connect", "answer", "download", "combine", "finished",
                         "failed", "killed"}]
    <2>1. pc' = [pc EXCEPT ![c] = "failed"] \/ pc' = [pc EXCEPT ![c] = "answer"]
      BY DEF CheckFile
    <2> QED BY <2>1 DEF TypeOK
  <1>4. UNCHANGED <<sockets, target, thread, dir, content, skew, result, combined, responses,
                    server>>
    BY DEF CheckFile
  <1> QED BY <1>1, <1>2, <1>3, <1>4 DEF TypeOK, Server, server

\* Main reads the answer.
LEMMA ReadAnswerTypes ==
  ASSUME TypeOK, Sized, Started, Results, NEW c \in Clients, ReadAnswer(c)
  PROVE  TypeOK'
  <1> DEFINE k == First(c)
  <1>1. k \in Conns
    BY FirstTypes DEF ReadAnswer, Results
  <1> HIDE DEF k
  <1>2. scene' = scene /\ Conns' = Conns
    BY DEF ReadAnswer, Conns
  <1>3. UNCHANGED <<sockets, target, dir, content, result, combined, server>>
    BY DEF ReadAnswer
  <1>4. /\ pc' \in [Clients -> {"connect", "answer", "download", "combine", "finished",
                         "failed", "killed"}]
        /\ thread' \in [Conns -> {"none", "request", "name", "open", "receive", "done",
                            "gone"}]
        /\ skew' \in [Conns -> BOOLEAN]
    BY DEF ReadAnswer, TypeOK
  <1>5. requests' \in [Conns -> Seq(ToServer)]
    <2>1. UNCHANGED requests \/ AskAll(c, Package("BYE")) \/ AskAll(c, Package("EOF"))
      BY DEF ReadAnswer
    <2>2. CASE UNCHANGED requests
      BY <2>2 DEF TypeOK
    <2>3. CASE AskAll(c, Package("BYE")) \/ AskAll(c, Package("EOF"))
      BY <2>3, PackageTypes, AskTypes
    <2> QED BY <2>1, <2>2, <2>3
  <1>6. responses' \in [Conns -> Seq(ToClient)]
    <2>1. \/ UNCHANGED responses
          \/ responses[k] # << >> /\ responses' = [responses EXCEPT ![k] = Tail(@)]
      BY DEF ReadAnswer, k
    <2>2. CASE UNCHANGED responses
      BY <2>2 DEF TypeOK
    <2> QED BY <1>1, <2>1, <2>2, TakeTypes
  <1> QED BY <1>2, <1>3, <1>4, <1>5, <1>6 DEF TypeOK, Server, server

\* Main combines the files.
LEMMA CombineTypes ==
  ASSUME TypeOK, Sized, Started, Results, NEW c \in Clients,
         OpenResult(c) \/ CombinePart(c) \/ CombineEnd(c)
  PROVE  TypeOK'
  <1>1. scene' = scene /\ Conns' = Conns
    BY DEF OpenResult, CombinePart, CombineEnd, Conns
  <1>2. CASE OpenResult(c)
    <2>1. /\ pc' \in [Clients -> {"connect", "answer", "download", "combine", "finished",
                         "failed", "killed"}]
          /\ result' \in [Clients -> Bytes \cup {None}]
      BY <1>2 DEF OpenResult, TypeOK, Bytes
    <2>2. UNCHANGED <<sockets, target, thread, dir, content, skew, combined, requests, responses,
                      server>>
      BY <1>2 DEF OpenResult
    <2> QED BY <1>1, <2>1, <2>2 DEF TypeOK, Server, server
  <1>3. CASE CombinePart(c)
    <2> DEFINE n == combined[c]
    <2>1. n \in 0 .. MaxSock /\ PartNum(c) \in 0 .. MaxSock /\ n < PartNum(c)
      BY <1>3, ValidTypes DEF CombinePart, TypeOK
    <2>2. combined' \in [Clients -> 0 .. MaxSock]
      BY <1>3, <2>1, MaxSockAssumption DEF CombinePart, TypeOK
    <2>3. n \in Nums
      BY <2>1, MaxSockAssumption DEF Nums
    <2>4. dir[c][n] \in Conns
      BY <1>3, <2>3 DEF CombinePart, TypeOK
    <2>5. content[dir[c][n]] \in Bytes /\ result[c] \in Bytes
      BY <1>3, <2>4 DEF CombinePart, TypeOK, Results
    <2>6. result[c] \o content[dir[c][n]] \in Bytes
      BY <2>5 DEF Bytes
    <2>7. result' \in [Clients -> Bytes \cup {None}]
      BY <1>3, <2>6 DEF CombinePart, TypeOK
    <2>8. UNCHANGED <<pc, sockets, target, thread, dir, content, skew, requests, responses,
              server>>
      BY <1>3 DEF CombinePart
    <2> QED BY <1>1, <2>2, <2>7, <2>8 DEF TypeOK, Server, server
  <1>4. CASE CombineEnd(c)
    <2>1. pc' \in [Clients -> {"connect", "answer", "download", "combine", "finished",
                         "failed", "killed"}]
      BY <1>4 DEF CombineEnd, TypeOK
    <2>2. requests' \in [Conns -> Seq(ToServer)]
      BY <1>4, PackageTypes, AskTypes DEF CombineEnd
    <2>3. UNCHANGED <<sockets, target, thread, dir, content, skew, result, combined, responses,
                      server>>
      BY <1>4 DEF CombineEnd
    <2> QED BY <1>1, <2>1, <2>2, <2>3 DEF TypeOK, Server, server
  <1> QED BY <1>2, <1>3, <1>4

\* A thread asks for its part.
LEMMA RequestTypes ==
  ASSUME TypeOK, Sized, Started, NEW k \in Conns, Request(k)
  PROVE  TypeOK'
  <1>1. scene' = scene /\ Conns' = Conns
    BY DEF Request, Conns
  <1>2. requests' \in [Conns -> Seq(ToServer)]
    BY PackageTypes, AskTypes DEF Request
  <1>3. thread' \in [Conns -> {"none", "request", "name", "open", "receive", "done",
                            "gone"}]
    BY DEF Request, Goto, TypeOK
  <1>4. UNCHANGED <<pc, sockets, target, dir, content, skew, result, combined, responses,
            server>>
    BY DEF Request
  <1> QED BY <1>1, <1>2, <1>3, <1>4 DEF TypeOK, Server, server

\* A thread writes the name of its file, and opens it.
LEMMA OpenTypes ==
  ASSUME TypeOK, Sized, Started, Opening, NEW k \in Conns, Name(k) \/ OpenPart(k)
  PROVE  TypeOK'
  <1>1. scene' = scene /\ Conns' = Conns
    BY DEF Name, OpenPart, Conns
  <1>2. Connected(k)
    BY DEF Name, OpenPart, Started
  <1>3. Part(k) \in Nums /\ k[1] \in Clients
    BY <1>2, PartTypes, ConnTypes
  <1>4. thread' \in [Conns -> {"none", "request", "name", "open", "receive", "done",
                            "gone"}]
    BY DEF Name, OpenPart, Goto, TypeOK
  <1>5. CASE Name(k)
    <2>1. target' \in [Clients -> Nums \cup {TheFile}]
      BY <1>3, <1>5 DEF Name, TypeOK
    <2>2. UNCHANGED <<pc, sockets, dir, content, skew, result, combined, requests, responses,
                      server>>
      BY <1>5 DEF Name
    <2> QED BY <1>1, <1>4, <2>1, <2>2 DEF TypeOK, Server, server
  <1>6. CASE OpenPart(k)
    <2> DEFINE n == IF scene.aliased THEN target[k[1]] ELSE Part(k)
    <2>1. n \in Nums
      BY <1>3, <1>6 DEF OpenPart, Opening, TypeOK
    <2>2. dir' = [dir EXCEPT ![k[1]][n] = k]
      BY <1>6 DEF OpenPart
    <2> HIDE DEF n
    <2>3. dir' \in [Clients -> [Nums -> Conns \cup {None}]]
      BY <1>3, <2>1, <2>2 DEF TypeOK
    <2>4. UNCHANGED <<pc, sockets, target, content, skew, result, combined, requests, responses,
                      server>>
      BY <1>6 DEF OpenPart
    <2> QED BY <1>1, <1>4, <2>3, <2>4 DEF TypeOK, Server, server
  <1> QED BY <1>5, <1>6

\* A thread receives.
LEMMA ReceiveTypes ==
  ASSUME TypeOK, Exchanges, NEW k \in Conns,
         Receive(k) \/ ReceiveHead(k) \/ ReceiveTail(k) \/ EndOfStream(k)
  PROVE  TypeOK'
  <1>1. scene' = scene /\ Conns' = Conns
    BY DEF Receive, ReceiveHead, ReceiveTail, EndOfStream, Conns
  <1>2. content[k] \in Bytes
    BY DEF TypeOK
  <1>3. UNCHANGED <<pc, sockets, target, dir, result, combined, requests, server>>
    BY DEF Receive, ReceiveHead, ReceiveTail, EndOfStream
  <1>4. thread' \in [Conns -> {"none", "request", "name", "open", "receive", "done",
                            "gone"}]
    <2>1. UNCHANGED thread \/ Goto(k, "done")
      BY DEF Receive, ReceiveHead, ReceiveTail, EndOfStream
    <2> QED BY <2>1 DEF Goto, TypeOK
  <1>5. responses' \in [Conns -> Seq(ToClient)]
    <2>1. \/ UNCHANGED responses
          \/ responses[k] # << >> /\ responses' = [responses EXCEPT ![k] = Tail(@)]
      BY DEF Receive, ReceiveHead, ReceiveTail, EndOfStream
    <2>2. CASE UNCHANGED responses
      BY <2>2 DEF TypeOK
    <2> QED BY <2>1, <2>2, TakeTypes
  <1>6. skew' \in [Conns -> BOOLEAN]
    BY DEF Receive, ReceiveHead, ReceiveTail, EndOfStream, TypeOK
  <1>7. content' \in [Conns -> Bytes]
    <2>1. CASE Receive(k)
      <3> DEFINE p == Head(responses[k])
      <3>1. /\ content' = [content EXCEPT ![k] = @ \o Printed(p)]
            /\ thread[k] = "receive" /\ ~skew[k] /\ responses[k] # << >>
        BY <2>1 DEF Receive
      <3>2. responses[k] \in Seq(ToClient)
        BY DEF TypeOK
      <3>3. 1 \in DOMAIN responses[k] /\ p = responses[k][1]
        BY <3>1, <3>2, NonEmptySeq, DropFirst
      <3>4. p.content \in Seq(Nat)
        BY <3>1, <3>3 DEF Exchanges, Exchange, Running, Data
      <3> HIDE DEF p
      <3>5. p.content \in Bytes /\ Garbage \in Nat \cup {Garbage}
        BY <3>4, SeqMonotonic DEF Bytes
      <3>6. Printed(p) \in Bytes
        BY <3>5 DEF Printed, Bytes
      <3>7. content[k] \o Printed(p) \in Bytes
        BY <1>2, <3>6 DEF Bytes
      <3> QED BY <3>1, <3>7 DEF TypeOK
    <2>2. CASE ReceiveHead(k)
      <3>1. content' = [content EXCEPT ![k] = Append(@, Garbage)]
        BY <2>2 DEF ReceiveHead
      <3>2. Append(content[k], Garbage) \in Bytes
        BY <1>2 DEF Bytes
      <3> QED BY <3>1, <3>2 DEF TypeOK
    <2>3. CASE ReceiveTail(k) \/ EndOfStream(k)
      BY <2>3 DEF ReceiveTail, EndOfStream, TypeOK
    <2> QED BY <2>1, <2>2, <2>3
  <1> QED BY <1>1, <1>3, <1>4, <1>5, <1>6, <1>7 DEF TypeOK, Server, server

\* A server.
LEMMA ServerTypes ==
  ASSUME TypeOK, NEW s \in Servers,
         \/ Accept(s) \/ HangUp(s) \/ CheckResponse(s) \/ StartUpload(s) \/ SendPackage(s)
         \/ BrokenPipe(s) \/ Die(s)
  PROVE  TypeOK'
  <1>1. scene' = scene /\ Conns' = Conns
    BY DEF Accept, HangUp, CheckResponse, StartUpload, SendPackage, BrokenPipe, Die, Conns
  <1>2. UNCHANGED client
    BY DEF Accept, HangUp, CheckResponse, StartUpload, SendPackage, BrokenPipe, Die
  <1>3. up' \in [Servers -> BOOLEAN]
    BY DEF Accept, HangUp, CheckResponse, StartUpload, SendPackage, BrokenPipe, Die, server, TypeOK
  <1>4. CASE Accept(s)
    <2>1. backlog[s] \in Seq(Conns) /\ backlog[s] # << >>
      BY <1>4 DEF Accept, TypeOK
    <2>2. /\ Head(backlog[s]) \in Conns /\ Tail(backlog[s]) \in Seq(Conns)
          /\ Len(Tail(backlog[s])) = Len(backlog[s]) - 1
          /\ \A i \in 1 .. Len(backlog[s]) - 1 : Tail(backlog[s])[i] = backlog[s][i + 1]
      BY <2>1, DropFirst
    <2>3. /\ DOMAIN Tail(backlog[s]) = 1 .. Len(backlog[s]) - 1 /\ Len(backlog[s]) \in Nat
          /\ DOMAIN backlog[s] = 1 .. Len(backlog[s])
      BY <2>1, <2>2, LenProperties
    <2>4. /\ Len(Tail(backlog[s])) <= Pending
          /\ \A i \in DOMAIN Tail(backlog[s]) : Server(Tail(backlog[s])[i]) = s
      <3>1. \A i \in 1 .. Len(backlog[s]) - 1 : i + 1 \in DOMAIN backlog[s]
        BY <2>3
      <3>2. Len(backlog[s]) <= Pending /\ \A i \in DOMAIN backlog[s] : Server(backlog[s][i]) = s
        BY DEF TypeOK
      <3>3. Len(Tail(backlog[s])) <= Pending
        BY <2>2, <2>3, <3>2, PendingAssumption
      <3> QED BY <2>2, <2>3, <3>1, <3>2, <3>3
    <2>5. /\ backlog' = [backlog EXCEPT ![s] = Tail(@)]
          /\ serving' = [serving EXCEPT ![s] = Head(backlog[s])]
          /\ UNCHANGED <<requests, responses, upload>>
      BY <1>4 DEF Accept
    <2>6. backlog' \in [Servers -> Seq(Conns)] /\ serving' \in [Servers -> Conns \cup {None}]
      BY <2>2, <2>5 DEF TypeOK
    <2>7. \A t \in Servers : /\ Len(backlog'[t]) <= Pending
                             /\ \A i \in DOMAIN backlog'[t] : Server(backlog'[t][i]) = t
      BY <2>4, <2>5 DEF TypeOK
    <2> QED BY <1>1, <1>2, <1>3, <2>5, <2>6, <2>7 DEF TypeOK, Server, client
  <1>5. ASSUME UNCHANGED backlog,
               serving' \in [Servers -> Conns \cup {None}],
               upload' \in [Servers -> (Nat \X (Nat \cup {-1})) \cup {None}],
               requests' \in [Conns -> Seq(ToServer)], responses' \in [Conns -> Seq(ToClient)]
        PROVE  TypeOK'
    BY <1>1, <1>2, <1>3, <1>5 DEF TypeOK, Server, client
  <1>6. CASE HangUp(s) \/ CheckResponse(s) \/ StartUpload(s)
    <2>1. PICK cmds : Reads(s, cmds)
      BY <1>6 DEF HangUp, CheckResponse, StartUpload
    <2>2. UNCHANGED backlog /\ (UNCHANGED serving \/ serving' = [serving EXCEPT ![s] = None])
      BY <1>6 DEF HangUp, CheckResponse, StartUpload, server
    <2>3. serving' \in [Servers -> Conns \cup {None}]
      BY <2>2 DEF TypeOK
    <2>4. PICK k \in Conns : k = serving[s]
      BY <2>1 DEF Reads, TypeOK
    <2>5. requests[k] # << >> /\ requests' = [requests EXCEPT ![k] = Tail(@)]
      BY <2>1, <2>4 DEF Reads
    <2>6. requests' \in [Conns -> Seq(ToServer)] /\ Head(requests[k]) \in ToServer
      BY <2>5, TakeTypes
    <2>7. responses' \in [Conns -> Seq(ToClient)]
      <3>1. UNCHANGED responses \/ \E b \in BOOLEAN : Respond(k, [have |-> b])
        BY <1>6, <2>4 DEF HangUp, CheckResponse, StartUpload
      <3>2. ASSUME NEW b \in BOOLEAN, Respond(k, [have |-> b])
            PROVE  responses' \in [Conns -> Seq(ToClient)]
        <4>1. [have |-> b] \in ToClient /\ responses[k] \in Seq(ToClient)
          BY DEF ToClient, TypeOK
        <4>2. Append(responses[k], [have |-> b]) \in Seq(ToClient)
          BY <4>1, PutLast
        <4> QED BY <3>2, <4>2 DEF Respond, TypeOK
      <3> QED BY <3>1, <3>2 DEF TypeOK
    <2>8. upload' \in [Servers -> (Nat \X (Nat \cup {-1})) \cup {None}]
      <3>1. CASE HangUp(s) \/ CheckResponse(s)
        BY <3>1 DEF HangUp, CheckResponse, server, TypeOK
      <3>2. CASE StartUpload(s)
        <4> DEFINE r == Head(requests[k])
        <4>1. r.cmd = "DWN"
          BY <2>4, <3>2 DEF StartUpload, Reads
        <4>2. r.start \in Nat /\ r.end \in Nat \cup {-1}
          BY <2>6, <4>1 DEF ToServer, Package
        <4>3. UNCHANGED upload \/ upload' = [upload EXCEPT ![s] = <<r.start, r.end>>]
          BY <2>4, <3>2 DEF StartUpload
        <4> HIDE DEF r
        <4>4. <<r.start, r.end>> \in Nat \X (Nat \cup {-1})
          BY <4>2
        <4> QED BY <4>3, <4>4 DEF TypeOK
      <3> QED BY <1>6, <3>1, <3>2
    <2> QED BY <1>5, <2>2, <2>3, <2>6, <2>7, <2>8
  <1>7. CASE SendPackage(s)
    <2> DEFINE cur == upload[s][1]
               end == upload[s][2]
    <2>1. cur \in Nat /\ end \in Nat \cup {-1}
      BY <1>7 DEF SendPackage, TypeOK
    <2>2. UNCHANGED <<backlog, serving, requests>>
      BY <1>7 DEF SendPackage
    <2>3. \/ upload' = [upload EXCEPT ![s] = <<cur + BufferSize - 1, end>>]
          \/ upload' = [upload EXCEPT ![s] = None]
      BY <1>7 DEF SendPackage
    <2>4. PICK b \in BOOLEAN, e \in Nat \cup {-1} :
            Respond(serving[s], [content |-> Positions(cur, e), is_end |-> b])
      <3>1. cur + PackageLength - 1 \in Nat
        BY <2>1, BufferSizeAssumption DEF PackageLength
      <3>2. \/ Respond(serving[s], [content |-> Positions(cur, cur + PackageLength - 1),
                   is_end |-> FALSE])
            \/ Respond(serving[s], [content |-> Positions(cur, end), is_end |-> TRUE])
        BY <1>7 DEF SendPackage
      <3> HIDE DEF cur, end
      <3> QED BY <2>1, <3>1, <3>2, Zenon
    <2> HIDE DEF cur, end
    <2>5. upload' \in [Servers -> (Nat \X (Nat \cup {-1})) \cup {None}]
      <3>1. cur + BufferSize - 1 \in Nat
        BY <2>1, BufferSizeAssumption
      <3>2. <<cur + BufferSize - 1, end>> \in Nat \X (Nat \cup {-1})
        BY <2>1, <3>1
      <3> QED BY <2>3, <3>2 DEF TypeOK
    <2>6. [content |-> Positions(cur, e), is_end |-> b] \in ToClient
      <3>1. Positions(cur, e) \in Seq(Nat)
        BY <2>1, PositionsTypes
      <3> QED BY <3>1 DEF ToClient
    <2>7. responses' \in [Conns -> Seq(ToClient)]
      <3> DEFINE q == [content |-> Positions(cur, e), is_end |-> b]
      <3>1. \A k \in Conns : Append(responses[k], q) \in Seq(ToClient)
        <4> TAKE k \in Conns
        <4>1. responses[k] \in Seq(ToClient)
          BY DEF TypeOK
        <4> HIDE DEF q
        <4> QED BY <2>6, <4>1, PutLast DEF q
      <3>2. responses' = [responses EXCEPT ![serving[s]] = Append(@, q)]
        BY <2>4 DEF Respond
      <3> HIDE DEF q
      <3> QED BY <3>1, <3>2 DEF TypeOK
    <2> QED BY <1>5, <2>2, <2>5, <2>7 DEF TypeOK
  <1>8. CASE BrokenPipe(s) \/ Die(s)
    BY <1>5, <1>8 DEF BrokenPipe, Die, TypeOK
  <1> QED BY <1>4, <1>6, <1>7, <1>8

\* What a client leaves alone when it is killed.
LEMMA KillFrame ==
  ASSUME NEW c, Kill(c)
  PROVE  /\ UNCHANGED <<scene, sockets, target, dir, content, skew, result, combined, responses,
                        up, backlog, serving, upload>>
         /\ ~Ended(c) /\ pc' = [pc EXCEPT ![c] = "killed"] /\ AskAll(c, Package("EOF"))
         /\ thread' = [k \in Conns |-> IF k[1] = c /\ thread[k] # "none" THEN "gone"
                                                                         ELSE thread[k]]
  BY DEF Kill, server

\* A client is killed.
LEMMA KillTypes ==
  ASSUME TypeOK, Sized, Started, NEW c \in Clients, Kill(c)
  PROVE  TypeOK' /\ Sized'
  <1>1. UNCHANGED <<scene, sockets, target, dir, content, skew, result, combined, responses,
                    up, backlog, serving, upload>> /\ Conns' = Conns
    BY KillFrame DEF Conns
  <1>2. requests' \in [Conns -> Seq(ToServer)]
    BY KillFrame, PackageTypes, AskTypes
  <1>3. /\ pc' \in [Clients -> {"connect", "answer", "download", "combine", "finished",
                         "failed", "killed"}]
        /\ thread' \in [Conns -> {"none", "request", "name", "open", "receive", "done",
                                  "gone"}]
    BY KillFrame DEF TypeOK
  <1>4. TypeOK'
    BY <1>1, <1>2, <1>3 DEF TypeOK, Server
  <1>5. Sized'
    BY <1>1 DEF Sized
  <1> QED BY <1>4, <1>5

\* A step keeps the types.
LEMMA StepTypes ==
  ASSUME IInv, [Next]_vars
  PROVE  TypeOK' /\ Sized'
  <1>1. TypeOK /\ Sized /\ Started /\ Results /\ Opening /\ Exchanges
    BY DEF IInv
  <1>2. ASSUME NEW c \in Clients, Main(c)
        PROVE  TypeOK' /\ Sized'
    <2>1. CASE Connect(c)
      BY <1>1, <2>1, ConnectTypes
    <2>2. CASE CheckFile(c)
      BY <1>1, <2>2, CheckFileTypes DEF Sized, CheckFile
    <2>3. CASE ReadAnswer(c)
      BY <1>1, <2>3, ReadAnswerTypes DEF Sized, ReadAnswer
    <2>4. CASE OpenResult(c) \/ CombinePart(c) \/ CombineEnd(c)
      BY <1>1, <2>4, CombineTypes DEF Sized, OpenResult, CombinePart, CombineEnd
    <2> QED BY <1>2, <2>1, <2>2, <2>3, <2>4 DEF Main
  <1>3. ASSUME NEW k \in Conns, Thread(k)
        PROVE  TypeOK' /\ Sized'
    <2>1. Sized'
      BY <1>1, <1>3 DEF Thread, Request, Name, OpenPart, Receive, ReceiveHead, ReceiveTail,
                        EndOfStream, Sized
    <2>2. TypeOK'
      BY <1>1, <1>3, RequestTypes, OpenTypes, ReceiveTypes DEF Thread
    <2> QED BY <2>1, <2>2
  <1>4. ASSUME NEW s \in Servers, Serve(s) \/ Die(s)
        PROVE  TypeOK' /\ Sized'
    <2>1. Sized'
      BY <1>1, <1>4 DEF Serve, Accept, HangUp, CheckResponse, StartUpload, SendPackage,
                        BrokenPipe, Die, client, Sized
    <2>2. TypeOK'
      BY <1>1, <1>4, ServerTypes DEF Serve
    <2> QED BY <2>1, <2>2
  <1>5. CASE UNCHANGED vars
    <2>1. UNCHANGED <<scene, client, requests, responses, server>>
      BY <1>5 DEF vars
    <2>2. UNCHANGED <<scene, pc, sockets, target, thread, dir, content, skew, result, combined>>
      BY <2>1 DEF client
    <2>3. UNCHANGED <<up, backlog, serving, upload>>
      BY <2>1 DEF server
    <2>4. Sized'
      BY <1>1, <2>2 DEF Sized
    <2>5. TypeOK'
      BY <1>1, <2>1, <2>2, <2>3 DEF TypeOK, Conns, Server
    <2> QED BY <2>4, <2>5
  <1>6. ASSUME NEW c \in Clients, Kill(c) PROVE TypeOK' /\ Sized'
    BY <1>1, <1>6, KillTypes
  <1> QED BY <1>2, <1>3, <1>4, <1>5, <1>6 DEF Next, Idle

-----------------------------------------------------------------------------
(* Names of files.                                                         *)

\* After the array of sockets is filled, the parts are what they are.
LEMMA SameParts ==
  ASSUME UNCHANGED <<scene, sockets>>
  PROVE  /\ Conns' = Conns
         /\ \A c : /\ Valid(c)' = Valid(c) /\ ValidConns(c)' = ValidConns(c)
                   /\ PartNum(c)' = PartNum(c) /\ First(c)' = First(c)
                   /\ single_part_length(c)' = single_part_length(c)
         /\ \A k : /\ Connected(k)' = Connected(k) /\ Part(k)' = Part(k)
                   /\ Server(k)' = Server(k)
  BY DEF Conns, Valid, ValidConns, PartNum, First, Connected, Part, Server, single_part_length

\* And so are the ranges.
LEMMA SameRanges ==
  ASSUME UNCHANGED <<scene, sockets>>
  PROVE  \A k : /\ FileStart(k)' = FileStart(k) /\ FileEnd(k)' = FileEnd(k)
                /\ Overruns(k)' = Overruns(k) /\ Wanted(k)' = Wanted(k)
  <1> TAKE k
  <1>1. FileStart(k)' = FileStart(k) /\ FileEnd(k)' = FileEnd(k)
    BY SameParts DEF FileStart, FileEnd
  <1> QED BY <1>1 DEF LengthOf, Overruns, Wanted, Positions

\* One connection more: only the parts of its client change, and there are as
\* many or one more.
LEMMA ConnectParts ==
  ASSUME TypeOK, Sized, TypeOK', Sized', NEW c \in Clients, Connect(c)
  PROVE  /\ Conns' = Conns /\ \A k : Server(k)' = Server(k)
         /\ Valid(c) \subseteq Valid(c)' /\ PartNum(c) <= PartNum(c)'
         /\ PartNum(c) \in Nat /\ PartNum(c)' \in Nat
         /\ \A d \in Clients \ {c} :
              /\ Valid(d)' = Valid(d) /\ ValidConns(d)' = ValidConns(d)
              /\ PartNum(d)' = PartNum(d) /\ First(d)' = First(d)
         /\ \A k \in Conns : /\ Connected(k) => Connected(k)'
                             /\ k[1] # c => Part(k)' = Part(k)
  <1>1. scene' = scene /\ \E b \in BOOLEAN : sockets' = [sockets EXCEPT ![c] = Append(@, b)]
    BY DEF Connect
  <1>2. PICK b \in BOOLEAN : sockets' = [sockets EXCEPT ![c] = Append(@, b)]
    BY <1>1
  <1>3. sockets[c] \in Seq(BOOLEAN)
    BY DEF TypeOK
  <1>4. /\ Len(Append(sockets[c], b)) = Len(sockets[c]) + 1
        /\ Append(sockets[c], b) \in Seq(BOOLEAN)
        /\ \A i \in 1 .. Len(sockets[c]) : Append(sockets[c], b)[i] = sockets[c][i]
    BY <1>3, AppendProperties
  <1>5. /\ DOMAIN sockets[c] = 1 .. Len(sockets[c])
        /\ DOMAIN Append(sockets[c], b) = 1 .. Len(Append(sockets[c], b))
        /\ Len(sockets[c]) \in Nat
    BY <1>3, <1>4, LenProperties
  <1>6. Valid(c) \subseteq Valid(c)'
    <2>1. sockets'[c] = Append(sockets[c], b)
      BY <1>2 DEF TypeOK
    <2> QED BY <1>4, <1>5, <2>1 DEF Valid
  <1>7. \A d \in Clients \ {c} : sockets'[d] = sockets[d]
    BY <1>2 DEF TypeOK
  <1>8. \A d \in Clients \ {c} : Valid(d)' = Valid(d)
    BY <1>7 DEF Valid
  <1>9. \A d \in Clients \ {c} :
          ValidConns(d)' = ValidConns(d) /\ PartNum(d)' = PartNum(d) /\ First(d)' = First(d)
    BY <1>8 DEF ValidConns, PartNum, First
  <1>10. IsFiniteSet(Valid(c)')
    <2>1. Valid(c)' \subseteq 1 .. MaxSock
      <3>1. /\ sockets'[c] \in Seq(BOOLEAN) /\ Len(sockets'[c]) \in Nat
            /\ DOMAIN sockets'[c] = 1 .. Len(sockets'[c]) /\ Len(sockets'[c]) <= MaxSock
        BY LenProperties DEF TypeOK, Sized
      <3> QED BY <3>1, MaxSockAssumption DEF Valid
    <2>2. IsFiniteSet(1 .. MaxSock)
      BY FS_Interval, MaxSockAssumption
    <2> QED BY <2>1, <2>2, FS_Subset
  <1>11. PartNum(c) <= PartNum(c)' /\ PartNum(c) \in Nat /\ PartNum(c)' \in Nat
    <2>1. Cardinality(Valid(c)) <= Cardinality(Valid(c)') /\ IsFiniteSet(Valid(c))
      BY <1>6, <1>10, FS_Subset
    <2>2. Cardinality(Valid(c)) \in Nat /\ Cardinality(Valid(c)') \in Nat
      BY <1>10, <2>1, FS_CardinalityType
    <2> QED BY <2>1, <2>2 DEF PartNum
  <1>12. \A k \in Conns : k[1] \in Clients
    BY ConnTypes
  <1>13. \A k \in Conns : Connected(k) => Connected(k)'
    <2> TAKE k \in Conns
    <2>1. CASE k[1] = c
      BY <1>6, <2>1 DEF Connected
    <2>2. CASE k[1] # c
      BY <1>8, <1>12, <2>2 DEF Connected
    <2> QED BY <2>1, <2>2
  <1>14. \A k \in Conns : k[1] # c => Part(k)' = Part(k)
    BY <1>8, <1>12 DEF Part
  <1> QED BY <1>1, <1>6, <1>8, <1>9, <1>11, <1>13, <1>14 DEF Conns, Server

\* What a step of a server, or of a thread that receives, leaves alone.
LEMMA ServerFrame ==
  ASSUME NEW s, Serve(s) \/ Die(s)
  PROVE  UNCHANGED <<scene, pc, sockets, target, thread, dir, content, skew, result, combined>>
  BY DEF Serve, Accept, HangUp, CheckResponse, StartUpload, SendPackage, BrokenPipe, Die, client

\* A thread is where it was, or at the end.
Receives(k) == Receive(k) \/ ReceiveHead(k) \/ ReceiveTail(k) \/ EndOfStream(k)
LEMMA ReceiveFrame ==
  ASSUME NEW k, Receives(k)
  PROVE  /\ UNCHANGED <<scene, pc, sockets, target, dir, result, combined, requests, up, backlog,
                        serving, upload>>
         /\ thread[k] = "receive" /\ (UNCHANGED thread \/ Goto(k, "done"))
  BY DEF Receives, Receive, ReceiveHead, ReceiveTail, EndOfStream, server

\* Threads are started, joined and waited for in this order.
LEMMA StartedInv == ASSUME IInv, TypeOK', Sized', [Next]_vars PROVE Started'
  <1> USE DEF IInv
  <1>1. ASSUME NEW c \in Clients, Connect(c) PROVE Started'
    BY <1>1, ConnectParts DEF Started, Connect
  <1>2. ASSUME UNCHANGED <<scene, sockets, pc, thread>> PROVE Started'
    BY <1>2, SameParts DEF Started
  <1>3. ASSUME NEW c \in Clients, CheckFile(c) PROVE Started'
    <2>1. /\ UNCHANGED <<scene, sockets, thread>> /\ pc[c] = "connect"
          /\ pc' = [pc EXCEPT ![c] = "failed"] \/ pc' = [pc EXCEPT ![c] = "answer"]
      BY <1>3 DEF CheckFile
    <2> QED BY <2>1, SameParts, ConnTypes DEF Started, TypeOK
  <1>4. ASSUME NEW c \in Clients, ReadAnswer(c) PROVE Started'
    <2>1. /\ UNCHANGED <<scene, sockets>> /\ pc[c] = "answer"
          /\ \/ /\ pc' = [pc EXCEPT ![c] = "download"]
                /\ thread' = [t \in Conns |-> IF t \in ValidConns(c) THEN "request"
                       ELSE thread[t]]
             \/ pc' = [pc EXCEPT ![c] = "finished"] /\ UNCHANGED thread
      BY <1>4 DEF ReadAnswer
    <2>2. \A k \in ValidConns(c) : k \in Conns /\ k[1] = c /\ Connected(k)
      BY ValidTypes
    <2>3. ASSUME NEW k \in Conns
          PROVE  /\ thread'[k] # "none" => Connected(k) /\ pc'[k[1]] \notin {"connect", "answer"}
                 /\ thread'[k] \notin {"none", "done", "gone"} => pc'[k[1]] = "download"
                 /\ thread'[k] = "gone" => pc'[k[1]] = "killed"
      <3>1. k[1] \in Clients
        BY ConnTypes
      <3>2. CASE k \in ValidConns(c)
        BY <2>1, <2>2, <3>1, <3>2 DEF Started, TypeOK
      <3>3. CASE k \notin ValidConns(c)
        <4>1. thread'[k] = thread[k]
          BY <2>1, <3>3
        <4>2. thread[k] # "none" => k[1] # c
          BY <2>1 DEF Started
        <4>3. k[1] # c => pc'[k[1]] = pc[k[1]]
          BY <2>1, <3>1 DEF TypeOK
        <4> QED BY <4>1, <4>2, <4>3 DEF Started
      <3> QED BY <3>2, <3>3
    <2> QED BY <2>1, <2>3, SameParts DEF Started
  <1>5. ASSUME NEW c \in Clients, OpenResult(c) PROVE Started'
    <2>1. /\ UNCHANGED <<scene, sockets, thread>> /\ pc[c] = "download"
          /\ pc' = [pc EXCEPT ![c] = "combine"] /\ \A k \in ValidConns(c) : thread[k] = "done"
      BY <1>5 DEF OpenResult
    <2>2. \A k \in Conns : Connected(k) /\ k[1] = c => k \in ValidConns(c)
      BY ValidTypes
    <2> QED BY <2>1, <2>2, SameParts, ConnTypes DEF Started, TypeOK
  <1>6. ASSUME NEW c \in Clients, CombineEnd(c) PROVE Started'
    <2>1. /\ UNCHANGED <<scene, sockets, thread>> /\ pc[c] = "combine"
          /\ pc' = [pc EXCEPT ![c] = "finished"] \/ pc' = [pc EXCEPT ![c] = "failed"]
      BY <1>6 DEF CombineEnd
    <2> QED BY <2>1, SameParts, ConnTypes DEF Started, TypeOK
  <1>7. ASSUME NEW k \in Conns, NEW t \in {"name", "open", "receive", "done"}, Goto(k, t),
               UNCHANGED <<scene, sockets, pc>>, thread[k] \notin {"none", "done", "gone"}
        PROVE  Started'
    BY <1>7, SameParts DEF Started, Goto, TypeOK
  <1>8. ASSUME NEW k \in Conns, Thread(k) PROVE Started'
    <2>1. CASE Request(k) \/ Name(k) \/ OpenPart(k)
      BY <1>7, <2>1 DEF Request, Name, OpenPart
    <2>2. CASE Receives(k)
      BY <1>2, <1>7, <2>2, ReceiveFrame
    <2> QED BY <1>8, <2>1, <2>2 DEF Thread, Receives
  <1>9. ASSUME NEW s \in Servers, Serve(s) \/ Die(s) PROVE Started'
    BY <1>2, <1>9, ServerFrame
  <1>10. CASE UNCHANGED vars
    BY <1>2, <1>10 DEF vars, client
  <1>11. ASSUME NEW c \in Clients, CombinePart(c) PROVE Started'
    BY <1>2, <1>11 DEF CombinePart
  <1>12. ASSUME NEW c \in Clients, Kill(c) PROVE Started'
    <2>1. /\ UNCHANGED <<scene, sockets>> /\ pc' = [pc EXCEPT ![c] = "killed"]
          /\ thread' = [k \in Conns |-> IF k[1] = c /\ thread[k] # "none" THEN "gone"
                                                                          ELSE thread[k]]
      BY <1>12, KillFrame
    <2>2. ASSUME NEW k \in Conns
          PROVE  /\ thread'[k] # "none" => Connected(k) /\ pc'[k[1]] \notin {"connect", "answer"}
                 /\ thread'[k] \notin {"none", "done", "gone"} => pc'[k[1]] = "download"
                 /\ thread'[k] = "gone" => pc'[k[1]] = "killed"
      <3>1. k[1] \in Clients
        BY ConnTypes
      <3>2. thread'[k] = IF k[1] = c /\ thread[k] # "none" THEN "gone" ELSE thread[k]
        BY <2>1
      <3>3. pc'[k[1]] = IF k[1] = c THEN "killed" ELSE pc[k[1]]
        BY <2>1, <3>1 DEF TypeOK
      <3> QED BY <3>2, <3>3 DEF Started
    <2> QED BY <2>1, <2>2, SameParts DEF Started
  <1> QED BY <1>1, <1>3, <1>4, <1>5, <1>6, <1>8, <1>9, <1>10, <1>11, <1>12 DEF Next, Main, Idle

\* The stages of result.txt.
LEMMA ResultsInv == ASSUME IInv, TypeOK', Sized', [Next]_vars PROVE Results'
  <1> USE DEF IInv
  <1>1. ASSUME NEW c \in Clients, Connect(c) PROVE Results'
    <2>1. /\ \A d \in Clients \ {c} : Valid(d)' = Valid(d) /\ ValidConns(d)' = ValidConns(d)
                                      /\ PartNum(d)' = PartNum(d)
          /\ pc[c] = "connect" /\ UNCHANGED <<pc, thread, result, combined>>
      BY <1>1, ConnectParts DEF Connect
    <2>2. ASSUME NEW d \in Clients \ {c}
          PROVE  /\ Valid(d)' = Valid(d) /\ ValidConns(d)' = ValidConns(d)
                 /\ PartNum(d)' = PartNum(d)
      BY <2>1
    <2> QED BY <2>1, <2>2 DEF Results
  <1>2. ASSUME UNCHANGED <<scene, sockets, pc, thread, result, combined>> PROVE Results'
    BY <1>2, SameParts DEF Results
  <1>3. ASSUME NEW c \in Clients, CheckFile(c) PROVE Results'
    <2>1. /\ UNCHANGED <<scene, sockets, thread, result, combined>> /\ pc[c] = "connect"
          /\ \/ pc' = [pc EXCEPT ![c] = "failed"]
             \/ Valid(c) # {} /\ pc' = [pc EXCEPT ![c] = "answer"]
      BY <1>3 DEF CheckFile
    <2> QED BY <2>1, SameParts DEF Results, TypeOK
  <1>4. ASSUME NEW c \in Clients, ReadAnswer(c) PROVE Results'
    <2>1. /\ UNCHANGED <<scene, sockets, result, combined>> /\ pc[c] = "answer"
          /\ pc' = [pc EXCEPT ![c] = "download"] \/ pc' = [pc EXCEPT ![c] = "finished"]
          /\ \A k \in Conns : k \notin ValidConns(c) => thread'[k] = thread[k]
      BY <1>4 DEF ReadAnswer
    <2>2. \A d \in Clients : \A k \in ValidConns(d) : k \in Conns /\ k[1] = d
      BY ValidTypes
    <2>3. ASSUME NEW d \in Clients, d # c
          PROVE  pc'[d] = pc[d] /\ \A k \in ValidConns(d) : thread'[k] = thread[k]
      <3>1. pc'[d] = pc[d]
        BY <2>1, <2>3 DEF TypeOK
      <3>2. \A k \in ValidConns(d) : k \in Conns /\ k \notin ValidConns(c)
        BY <2>2, <2>3
      <3> QED BY <2>1, <3>1, <3>2
    <2>4. pc'[c] \in {"download", "finished"} /\ result[c] = None /\ combined[c] = 0
              /\ Valid(c) # {}
      BY <2>1 DEF Results, TypeOK
    <2>5. /\ UNCHANGED <<result, combined>>
          /\ \A d \in Clients : /\ Valid(d)' = Valid(d) /\ ValidConns(d)' = ValidConns(d)
                                 /\ PartNum(d)' = PartNum(d)
      BY <2>1, SameParts
    <2> QED BY <2>3, <2>4, <2>5 DEF Results
  <1>5. ASSUME NEW c \in Clients, OpenResult(c) PROVE Results'
    <2>1. /\ UNCHANGED <<scene, sockets, thread, combined>> /\ pc[c] = "download"
          /\ pc' = [pc EXCEPT ![c] = "combine"] /\ \A k \in ValidConns(c) : thread[k] = "done"
          /\ result' = [result EXCEPT ![c] = << >>]
      BY <1>5 DEF OpenResult
    <2>2. << >> \in Bytes
      BY DEF Bytes
    <2> QED BY <2>1, <2>2, SameParts DEF Results, TypeOK
  <1>6. ASSUME NEW c \in Clients, CombinePart(c) PROVE Results'
    <2>1. /\ UNCHANGED <<scene, sockets, thread, pc>> /\ pc[c] = "combine"
          /\ \A d \in Clients \ {c} : result'[d] = result[d] /\ combined'[d] = combined[d]
      BY <1>6 DEF CombinePart, TypeOK
    <2>2. result'[c] \in Bytes
      <3>1. result[c] \in Bytes /\ dir[c][combined[c]] \in Conns
        <4>1. PartNum(c) \in 0 .. MaxSock /\ combined[c] \in 0 .. MaxSock
          BY ValidTypes DEF TypeOK
        <4>2. combined[c] \in Nums
          BY <1>6, <4>1, MaxSockAssumption DEF CombinePart, Nums
        <4> QED BY <1>6, <2>1, <4>2 DEF CombinePart, Results, TypeOK
      <3>2. content[dir[c][combined[c]]] \in Bytes
        BY <3>1 DEF TypeOK
      <3>3. result[c] \o content[dir[c][combined[c]]] \in Bytes
        BY <3>1, <3>2 DEF Bytes
      <3> QED BY <1>6, <3>3 DEF CombinePart, TypeOK
    <2> QED BY <2>1, <2>2, SameParts DEF Results
  <1>7. ASSUME NEW c \in Clients, CombineEnd(c) PROVE Results'
    <2>1. /\ UNCHANGED <<scene, sockets, thread, result, combined>> /\ pc[c] = "combine"
          /\ \/ combined[c] = PartNum(c) /\ pc' = [pc EXCEPT ![c] = "finished"]
             \/ pc' = [pc EXCEPT ![c] = "failed"]
      BY <1>7 DEF CombineEnd
    <2> QED BY <2>1, SameParts DEF Results, TypeOK
  <1>8. ASSUME NEW k \in Conns, Thread(k) PROVE Results'
    <2>1. /\ UNCHANGED <<scene, sockets, pc, result, combined>>
          /\ thread[k] \notin {"none", "done", "gone"}
          /\ \A t \in Conns \ {k} : thread'[t] = thread[t]
      <3>1. CASE Request(k) \/ Name(k) \/ OpenPart(k)
        BY <3>1 DEF Request, Name, OpenPart, Goto, TypeOK
      <3>2. CASE Receives(k)
        <4>1. /\ UNCHANGED <<scene, sockets, pc, result, combined>>
              /\ thread[k] = "receive" /\ (UNCHANGED thread \/ Goto(k, "done"))
          BY <3>2, ReceiveFrame
        <4> QED BY <4>1 DEF Goto, TypeOK
      <3> QED BY <1>8, <3>1, <3>2 DEF Thread, Receives
    <2>2. pc[k[1]] = "download"
      BY <2>1 DEF Started
    <2>3. \A c \in Clients : \A t \in ValidConns(c) : t \in Conns /\ t[1] = c
      BY ValidTypes
    <2>4. ASSUME NEW c \in Clients, pc[c] # "download"
          PROVE  \A t \in ValidConns(c) : thread'[t] = thread[t]
      BY <2>1, <2>2, <2>3, <2>4
    <2> QED BY <2>1, <2>4, SameParts DEF Results
  <1>9. ASSUME NEW s \in Servers, Serve(s) \/ Die(s) PROVE Results'
    BY <1>2, <1>9, ServerFrame
  <1>10. CASE UNCHANGED vars
    BY <1>2, <1>10 DEF vars, client
  <1>11. ASSUME NEW c \in Clients, Kill(c) PROVE Results'
    <2>1. /\ UNCHANGED <<scene, sockets, result, combined>>
          /\ \A d \in Clients : pc'[d] = IF d = c THEN "killed" ELSE pc[d]
          /\ \A k \in Conns : k[1] # c => thread'[k] = thread[k]
      BY <1>11, KillFrame DEF TypeOK
    <2>2. \A d \in Clients : \A k \in ValidConns(d) : k \in Conns /\ k[1] = d
      BY ValidTypes
    <2>3. ASSUME NEW d \in Clients, d # c
          PROVE  pc'[d] = pc[d] /\ \A k \in ValidConns(d) : thread'[k] = thread[k]
      BY <2>1, <2>2, <2>3
    <2>4. /\ UNCHANGED <<result, combined>>
          /\ \A d \in Clients : /\ Valid(d)' = Valid(d) /\ ValidConns(d)' = ValidConns(d)
                                 /\ PartNum(d)' = PartNum(d)
      BY <2>1, SameParts
    <2> QED BY <2>1, <2>3, <2>4 DEF Results
  <1> QED BY <1>1, <1>3, <1>4, <1>5, <1>6, <1>7, <1>8, <1>9, <1>10, <1>11 DEF Next, Main, Idle

\* Only threads write the name of the target, each its own part.
LEMMA RenamedInv == ASSUME IInv, TypeOK', Sized', [Next]_vars PROVE Renamed' /\ Opening'
  <1> USE DEF IInv
  <1>1. ASSUME NEW c \in Clients, Connect(c) PROVE Renamed' /\ Opening'
    <2>1. /\ UNCHANGED <<scene, thread, target>> /\ pc[c] = "connect" /\ Conns' = Conns
          /\ \A d \in Clients \ {c} : ValidConns(d)' = ValidConns(d) /\ PartNum(d)' = PartNum(d)
      BY <1>1, ConnectParts DEF Connect
    <2>2. \A k \in ValidConns(c) : k \in Conns /\ k[1] = c
      BY ValidTypes
    <2>3. target[c] = TheFile
      BY <2>1, <2>2 DEF Renamed, Started
    <2> QED BY <2>1, <2>3 DEF Renamed, Opening
  <1>2. ASSUME UNCHANGED <<scene, sockets, thread, target>> PROVE Renamed' /\ Opening'
    BY <1>2, SameParts DEF Renamed, Opening
  <1>3. ASSUME NEW c \in Clients, Main(c), ~Connect(c), ~ReadAnswer(c) PROVE Renamed' /\ Opening'
    BY <1>2, <1>3 DEF Main, CheckFile, OpenResult, CombinePart, CombineEnd
  <1>4. ASSUME NEW c \in Clients, ReadAnswer(c) PROVE Renamed' /\ Opening'
    <2>1. /\ UNCHANGED <<scene, sockets, target>> /\ pc[c] = "answer"
          /\ \A k \in Conns : \/ thread'[k] = thread[k]
                              \/ thread'[k] = "request" /\ k \in ValidConns(c)
      BY <1>4 DEF ReadAnswer
    <2>2. \A d \in Clients : \A k \in ValidConns(d) : k \in Conns /\ k[1] = d
      BY ValidTypes
    <2>3. target[c] = TheFile
      BY <2>1, <2>2 DEF Renamed, Started
    <2>4. Opening'
      BY <2>1, SameParts DEF Opening
    <2>5. ASSUME NEW d \in Clients, d # c
          PROVE  \A k \in ValidConns(d) : thread'[k] = thread[k]
      BY <2>1, <2>2, <2>5
    <2>6. Renamed'
      BY <2>1, <2>3, <2>5, SameParts DEF Renamed
    <2> QED BY <2>4, <2>6
  <1>5. ASSUME NEW k \in Conns, Request(k) \/ OpenPart(k) \/ Receives(k)
        PROVE  Renamed' /\ Opening'
    <2>1. /\ UNCHANGED <<scene, sockets, target>>
          /\ \A t \in Conns : /\ thread[t] \in {"open", "receive", "done", "gone"} =>
                                   thread'[t] \in {"open", "receive", "done", "gone"}
                              /\ thread'[t] = "open" => thread[t] = "open"
      <3>1. CASE Request(k) \/ OpenPart(k)
        BY <3>1 DEF Request, OpenPart, Goto, TypeOK
      <3>2. CASE Receives(k)
        <4>1. /\ UNCHANGED <<scene, sockets, target>>
              /\ thread[k] = "receive" /\ (UNCHANGED thread \/ Goto(k, "done"))
          BY <3>2, ReceiveFrame
        <4> QED BY <4>1 DEF Goto, TypeOK
      <3> QED BY <1>5, <3>1, <3>2
    <2>2. \A c \in Clients : ValidConns(c) \subseteq Conns
      BY ValidTypes
    <2> QED BY <2>1, <2>2, SameParts DEF Renamed, Opening
  <1>6. ASSUME NEW k \in Conns, Name(k) PROVE Renamed' /\ Opening'
    <2>1. /\ UNCHANGED <<scene, sockets>> /\ thread[k] = "name"
          /\ thread' = [thread EXCEPT ![k] = "open"]
          /\ target' = [target EXCEPT ![k[1]] = IF scene.aliased THEN Part(k) ELSE @]
      BY <1>6 DEF Name, Goto
    <2>2. Connected(k) /\ k[1] \in Clients
      BY <2>1, ConnTypes DEF Started
    <2>3. Part(k) \in Nat /\ Part(k) < PartNum(k[1]) /\ k \in ValidConns(k[1])
      BY <2>2, PartTypes
    <2>4. /\ \A t \in Conns :
               thread[t] \in {"open", "receive", "done", "gone"} => thread'[t] = thread[t]
          /\ thread'[k] = "open"
      BY <2>1 DEF TypeOK
    <2>5. \A c \in Clients : ValidConns(c) \subseteq Conns
      BY ValidTypes
    <2>6. \A c \in Clients : target'[c] = IF c = k[1] /\ scene.aliased
                                                THEN Part(k) ELSE target[c]
      BY <2>1, <2>2 DEF TypeOK
    <2>7. Renamed'
      <3>1. ASSUME NEW c \in Clients, target'[c] # TheFile
            PROVE  /\ scene.aliased /\ target'[c] < PartNum(c)
                   /\ \E t \in ValidConns(c) : thread'[t] \in {"open", "receive", "done", "gone"}
        <4>1. CASE c = k[1] /\ scene.aliased
          BY <2>3, <2>4, <2>6, <4>1
        <4>2. CASE ~(c = k[1] /\ scene.aliased)
          BY <2>4, <2>5, <2>6, <3>1, <4>2 DEF Renamed
        <4> QED BY <4>1, <4>2
      <3> QED BY <2>1, <3>1, SameParts DEF Renamed
    <2>8. Opening'
      <3>1. ASSUME NEW t \in Conns, thread'[t] = "open", scene.aliased
            PROVE  target'[t[1]] # TheFile
        <4>1. t[1] \in Clients
          BY ConnTypes
        <4>2. CASE t[1] = k[1]
          BY <2>3, <2>6, <3>1, <4>1, <4>2 DEF TheFile
        <4>3. CASE t[1] # k[1]
          <5>1. thread[t] = "open"
            BY <2>1, <3>1, <4>3 DEF TypeOK
          <5> QED BY <2>6, <3>1, <4>1, <4>3, <5>1 DEF Opening
        <4> QED BY <4>2, <4>3
      <3> QED BY <2>1, <3>1, SameParts DEF Opening
    <2> QED BY <2>7, <2>8
  <1>7. ASSUME NEW s \in Servers, Serve(s) \/ Die(s) PROVE Renamed' /\ Opening'
    BY <1>2, <1>7, ServerFrame
  <1>8. CASE UNCHANGED vars
    BY <1>2, <1>8 DEF vars, client
  <1>9. ASSUME NEW c \in Clients, Kill(c) PROVE Renamed' /\ Opening'
    <2>1. /\ UNCHANGED <<scene, sockets, target>>
          /\ \A t \in Conns : /\ thread[t] \in {"open", "receive", "done", "gone"} =>
                                   thread'[t] \in {"open", "receive", "done", "gone"}
                              /\ thread'[t] = "open" => thread[t] = "open"
      BY <1>9, KillFrame
    <2>2. \A d \in Clients : ValidConns(d) \subseteq Conns
      BY ValidTypes
    <2> QED BY <2>1, <2>2, SameParts DEF Renamed, Opening
  <1> QED BY <1>1, <1>3, <1>4, <1>5, <1>6, <1>7, <1>8, <1>9
          DEF Next, Main, Thread, Receives, Idle

\* Two threads of a client are two parts.
LEMMA TwoParts ==
  ASSUME TypeOK, Sized, NEW k \in Conns, NEW t \in Conns, Connected(k), Connected(t),
         k[1] = t[1], k # t
  PROVE  PartNum(k[1]) > 1
  <1>1. k[1] \in Clients /\ k[2] # t[2] /\ {k[2], t[2]} \subseteq Valid(k[1])
    BY ConnTypes DEF Connected
  <1>2. IsFiniteSet(Valid(k[1])) /\ PartNum(k[1]) \in 0 .. MaxSock
    BY <1>1, ValidTypes
  <1>3. PartNum(k[1]) # 0
    BY <1>1, <1>2, ValidTypes
  <1>4. PartNum(k[1]) # 1
    <2>1. Cardinality(Valid(k[1])) = 1 => \E x : Valid(k[1]) = {x}
      BY <1>2, FS_Singleton
    <2> QED BY <1>1, <2>1 DEF PartNum
  <1> QED BY <1>2, <1>3, <1>4, MaxSockAssumption

\* What requests become: nothing new, or one more on some connections.
LEMMA AskedKept ==
  ASSUME IInv, NEW K, NEW r,
         requests' = [k \in Conns |-> IF k \in K THEN Append(requests[k], r) ELSE requests[k]],
         UNCHANGED <<scene, sockets>>,
         \A k \in K : r.cmd = "DWN" /\ r.file # TheFile => scene.aliased /\ PartNum(k[1]) > 1,
         r \in ToServer
  PROVE  Asked'
  <1>1. ASSUME NEW k \in Conns, NEW i \in DOMAIN requests'[k],
               requests'[k][i].cmd = "DWN", requests'[k][i].file # TheFile
        PROVE  scene.aliased /\ PartNum(k[1]) > 1
    <2>1. requests[k] \in Seq(ToServer)
      BY DEF IInv, TypeOK
    <2>2. CASE k \notin K
      BY <1>1, <2>2 DEF IInv, Asked
    <2>3. CASE k \in K
      <3>1. /\ Len(Append(requests[k], r)) = Len(requests[k]) + 1
            /\ \A n \in 1 .. Len(requests[k]) : Append(requests[k], r)[n] = requests[k][n]
            /\ Append(requests[k], r)[Len(requests[k]) + 1] = r
            /\ Append(requests[k], r) \in Seq(ToServer)
        BY <2>1, AppendProperties
      <3>2. /\ DOMAIN Append(requests[k], r) = 1 .. Len(requests[k]) + 1
            /\ Len(requests[k]) \in Nat
            /\ DOMAIN requests[k] = 1 .. Len(requests[k])
        BY <2>1, <3>1, LenProperties
      <3>3. requests'[k] = Append(requests[k], r)
        BY <2>3
      <3>4. CASE i = Len(requests[k]) + 1
        BY <1>1, <2>3, <3>1, <3>3, <3>4
      <3>5. CASE i \in 1 .. Len(requests[k])
        BY <1>1, <3>1, <3>2, <3>3, <3>5 DEF IInv, Asked
      <3> QED BY <3>2, <3>3, <3>4, <3>5
    <2> QED BY <2>2, <2>3
  <1> QED BY <1>1, SameParts DEF Asked

\* Requests that are taken away ask for nothing.
LEMMA AskedTaken ==
  ASSUME IInv, NEW k \in Conns, requests[k] # << >>,
             requests' = [requests EXCEPT ![k] = Tail(@)],
         UNCHANGED <<scene, sockets>>
  PROVE  Asked'
  <1>1. requests[k] \in Seq(ToServer)
    BY DEF IInv, TypeOK
  <1>2. /\ Tail(requests[k]) \in Seq(ToServer) /\ Len(Tail(requests[k])) = Len(requests[k]) - 1
        /\ \A i \in 1 .. Len(requests[k]) - 1 : Tail(requests[k])[i] = requests[k][i + 1]
    BY <1>1, DropFirst
  <1>3. /\ DOMAIN Tail(requests[k]) = 1 .. Len(requests[k]) - 1 /\ Len(requests[k]) \in Nat
        /\ DOMAIN requests[k] = 1 .. Len(requests[k])
    BY <1>1, <1>2, LenProperties
  <1>4. \A i \in DOMAIN Tail(requests[k]) :
          i + 1 \in DOMAIN requests[k] /\ Tail(requests[k])[i] = requests[k][i + 1]
    BY <1>2, <1>3
  <1>5. \A t \in Conns : requests'[t] = IF t = k THEN Tail(requests[k]) ELSE requests[t]
    BY DEF IInv, TypeOK
  <1> QED BY <1>4, <1>5, SameParts DEF IInv, Asked

\* Who asks for the file of another part has another thread beside it.
LEMMA AskedInv == ASSUME IInv, TypeOK', Sized', [Next]_vars PROVE Asked'
  <1>1. TypeOK /\ Sized /\ Started /\ Renamed /\ Asked
    BY DEF IInv
  <1>2. requests \in [Conns -> Seq(ToServer)]
    BY <1>1 DEF TypeOK
  <1>3. ASSUME NEW c \in Clients, Connect(c) PROVE Asked'
    <2>1. /\ UNCHANGED <<scene, requests>> /\ Conns' = Conns
          /\ PartNum(c) <= PartNum(c)' /\ \A d \in Clients \ {c} : PartNum(d)' = PartNum(d)
      BY <1>1, <1>3, ConnectParts DEF Connect
    <2>2. PartNum(c) \in Nat /\ PartNum(c)' \in Nat
      BY <1>1, <1>3, ConnectParts
    <2>3. ASSUME NEW k \in Conns, PartNum(k[1]) > 1
          PROVE  PartNum(k[1])' > 1
      <3>1. k[1] \in Clients
        BY <1>1, ConnTypes
      <3>2. CASE k[1] = c
        BY <2>1, <2>2, <2>3, <3>2
      <3>3. CASE k[1] # c
        BY <2>1, <2>3, <3>1, <3>3
      <3> QED BY <3>2, <3>3
    <2> QED BY <1>1, <2>1, <2>3 DEF Asked
  <1>4. ASSUME UNCHANGED <<scene, sockets, requests>> PROVE Asked'
    BY <1>1, <1>4, SameParts DEF Asked
  <1>5. ASSUME NEW k, NEW r \in ToServer, Ask(k, r), UNCHANGED <<scene, sockets>>,
               r.cmd = "DWN" /\ r.file # TheFile => scene.aliased /\ PartNum(k[1]) > 1
        PROVE  Asked'
    <2>1. PICK K : K = {k}
      OBVIOUS
    <2>2. requests' = [t \in Conns |-> IF t \in K THEN Append(requests[t], r) ELSE requests[t]]
      BY <1>2, <1>5, <2>1 DEF Ask
    <2>3. \A t \in K : r.cmd = "DWN" /\ r.file # TheFile => scene.aliased /\ PartNum(t[1]) > 1
      BY <1>5, <2>1
    <2> QED BY <1>5, <2>2, <2>3, AskedKept
  <1>6. ASSUME NEW c, NEW cmd \in {"CHK", "BYE", "EOF"}, AskAll(c, Package(cmd)),
               UNCHANGED <<scene, sockets>>
        PROVE  Asked'
    <2>1. Package(cmd) \in ToServer /\ Package(cmd).cmd # "DWN"
      BY DEF Package, ToServer
    <2>2. requests' = [t \in Conns |-> IF t \in ValidConns(c)
                                       THEN Append(requests[t], Package(cmd))
                                       ELSE requests[t]]
      BY <1>6 DEF AskAll
    <2> QED BY <1>6, <2>1, <2>2, AskedKept
  <1>7. ASSUME NEW c \in Clients, Main(c), ~Connect(c) PROVE Asked'
    <2>1. UNCHANGED <<scene, sockets>>
      BY <1>7 DEF Main, CheckFile, ReadAnswer, OpenResult, CombinePart, CombineEnd
    <2>2. \/ UNCHANGED requests \/ Ask(First(c), Package("CHK"))
          \/ AskAll(c, Package("BYE")) \/ AskAll(c, Package("EOF"))
      BY <1>7 DEF Main, CheckFile, ReadAnswer, OpenResult, CombinePart, CombineEnd
    <2>3. Package("CHK") \in ToServer /\ Package("CHK").cmd # "DWN"
      BY DEF Package, ToServer
    <2> QED BY <1>4, <1>5, <1>6, <2>1, <2>2, <2>3
  <1>8. ASSUME NEW k \in Conns, Request(k) PROVE Asked'
    <2> DEFINE r == [cmd |-> "DWN", file |-> target[k[1]], start |-> FileStart(k),
                     end |-> FileEnd(k)]
    <2>1. UNCHANGED <<scene, sockets>> /\ thread[k] = "request" /\ Ask(k, r)
      BY <1>8 DEF Request
    <2>2. r \in ToServer
      BY <1>1, <2>1, PackageTypes
    <2>3. ASSUME target[k[1]] # TheFile PROVE scene.aliased /\ PartNum(k[1]) > 1
      <3>1. k[1] \in Clients /\ Connected(k)
        BY <1>1, <2>1, ConnTypes DEF Started
      <3>2. PICK t \in ValidConns(k[1]) : thread[t] \in {"open", "receive", "done", "gone"}
        BY <1>1, <2>3, <3>1 DEF Renamed
      <3>3. t \in Conns /\ Connected(t) /\ t[1] = k[1] /\ t # k
        BY <1>1, <2>1, <3>1, <3>2, ValidTypes
      <3> QED BY <1>1, <2>3, <3>1, <3>3, TwoParts DEF Renamed
    <2>4. r.file = target[k[1]]
      OBVIOUS
    <2> HIDE DEF r
    <2> QED BY <1>5, <2>1, <2>2, <2>3, <2>4
  <1>9. ASSUME NEW k \in Conns, Name(k) \/ OpenPart(k) \/ Receives(k) PROVE Asked'
    <2>1. UNCHANGED <<scene, sockets, requests>>
      BY <1>9, ReceiveFrame DEF Name, OpenPart
    <2> QED BY <1>4, <2>1
  <1>10. ASSUME NEW s \in Servers, Serve(s) \/ Die(s) PROVE Asked'
    <2>1. UNCHANGED <<scene, sockets>>
      BY <1>10, ServerFrame
    <2>2. CASE Accept(s) \/ SendPackage(s) \/ BrokenPipe(s) \/ Die(s)
      BY <1>4, <2>1, <2>2 DEF Accept, SendPackage, BrokenPipe, Die
    <2>3. CASE HangUp(s) \/ CheckResponse(s) \/ StartUpload(s)
      <3>1. PICK cmds : Reads(s, cmds)
        BY <2>3 DEF HangUp, CheckResponse, StartUpload
      <3>2. serving[s] \in Conns
        BY <1>1, <3>1 DEF Reads, TypeOK
      <3> QED BY <2>1, <3>1, <3>2, AskedTaken DEF Reads
    <2> QED BY <1>10, <2>2, <2>3 DEF Serve
  <1>11. CASE UNCHANGED vars
    BY <1>4, <1>11 DEF vars, client
  <1>12. ASSUME NEW c \in Clients, Kill(c) PROVE Asked'
    BY <1>6, <1>12, KillFrame
  <1> QED BY <1>3, <1>7, <1>8, <1>9, <1>10, <1>11, <1>12 DEF Next, Main, Thread, Receives, Idle

\* A server talks to its own connections.
LEMMA ServedInv == ASSUME IInv, TypeOK', Sized', [Next]_vars PROVE Served'
  <1>1. TypeOK /\ Sized /\ Served
    BY DEF IInv
  <1>2. ASSUME UNCHANGED <<scene, serving, upload>> PROVE Served'
    BY <1>1, <1>2 DEF Served, Server
  <1>3. ASSUME NEW c \in Clients, Main(c) PROVE Served'
    BY <1>2, <1>3 DEF Main, Connect, CheckFile, ReadAnswer, OpenResult, CombinePart, CombineEnd,
                      server
  <1>4. ASSUME NEW k \in Conns, Thread(k) PROVE Served'
    BY <1>2, <1>4 DEF Thread, Request, Name, OpenPart, Receive, ReceiveHead, ReceiveTail,
                      EndOfStream, server
  <1>5. ASSUME NEW s \in Servers, Accept(s) PROVE Served'
    <2>1. /\ UNCHANGED <<scene, upload>> /\ serving[s] = None /\ backlog[s] # << >>
          /\ serving' = [serving EXCEPT ![s] = Head(backlog[s])]
      BY <1>5 DEF Accept
    <2>2. backlog[s] \in Seq(Conns)
      BY <1>1 DEF TypeOK
    <2>3. Head(backlog[s]) \in Conns /\ 1 \in DOMAIN backlog[s]
              /\ Head(backlog[s]) = backlog[s][1]
      BY <2>1, <2>2, DropFirst, NonEmptySeq
    <2>4. Server(Head(backlog[s])) = s /\ Head(backlog[s]) # None
      BY <1>1, <2>3, ConnTypes DEF TypeOK
    <2> QED BY <1>1, <2>1, <2>4 DEF Served, Server, TypeOK
  <1>6. ASSUME NEW s \in Servers, HangUp(s) PROVE Served'
    <2>1. /\ UNCHANGED <<scene, upload>> /\ upload[s] = None
          /\ serving' = [serving EXCEPT ![s] = None]
      BY <1>6 DEF HangUp, Reads
    <2> QED BY <1>1, <2>1 DEF Served, Server, TypeOK
  <1>7. ASSUME NEW s \in Servers, CheckResponse(s) \/ BrokenPipe(s) \/ Die(s)
        PROVE  Served'
    BY <1>2, <1>7 DEF CheckResponse, BrokenPipe, Die, server
  <1>8. ASSUME NEW s \in Servers, StartUpload(s) \/ SendPackage(s) PROVE Served'
    <2>1. /\ UNCHANGED <<scene, serving>> /\ serving[s] # None
          /\ \A t \in Servers \ {s} : upload'[t] = upload[t]
      BY <1>1, <1>8 DEF StartUpload, SendPackage, Reads, Served, TypeOK
    <2> QED BY <1>1, <2>1 DEF Served, Server
  <1>9. CASE UNCHANGED vars
    BY <1>2, <1>9 DEF vars, server
  <1>10. ASSUME NEW c \in Clients, Kill(c) PROVE Served'
    BY <1>2, <1>10, KillFrame
  <1> QED BY <1>3, <1>4, <1>5, <1>6, <1>7, <1>8, <1>9, <1>10 DEF Next, Serve, Idle

\* Files are of the part they are named for.
LEMMA FiledInv == ASSUME IInv, TypeOK', Sized', [Next]_vars PROVE Filed'
  <1> USE DEF IInv
  <1>1. ASSUME NEW c \in Clients, Connect(c) PROVE Filed'
    <2>1. /\ UNCHANGED <<scene, thread, dir>> /\ pc[c] = "connect"
          /\ \A d \in Clients \ {c} : ValidConns(d)' = ValidConns(d) /\ PartNum(d)' = PartNum(d)
          /\ \A k \in Conns : k[1] # c => Part(k)' = Part(k)
      BY <1>1, ConnectParts DEF Connect
    <2>2. \A d \in Clients : \A k \in ValidConns(d) : k \in Conns /\ k[1] = d
      BY ValidTypes
    <2>3. ASSUME NEW d \in Clients, NEW n \in Nums, NEW k \in Conns, dir[d][n] = k
          PROVE  /\ k \in ValidConns(d)' /\ thread[k] \in {"receive", "done", "gone"}
                 /\ ~scene.aliased \/ PartNum(d)' = 1 => Part(k)' = n
      <3>1. /\ k \in ValidConns(d) /\ thread[k] \in {"receive", "done", "gone"} /\ k[1] = d
            /\ ~scene.aliased \/ PartNum(d) = 1 => Part(k) = n
        BY <2>2, <2>3 DEF Filed
      <3>2. d # c
        BY <2>1, <3>1 DEF Started
      <3> QED BY <2>1, <3>1, <3>2
    <2>4. Conns' = Conns
      BY <1>1, ConnectParts
    <2> QED BY <2>1, <2>3, <2>4 DEF Filed
  <1>2. ASSUME UNCHANGED <<scene, sockets, dir>>,
               \A t \in Conns : thread[t] \in {"receive", "done", "gone"}
                      => thread'[t] \in {"receive", "done", "gone"}
        PROVE  Filed'
    <2>1. \A c \in Clients : ValidConns(c) \subseteq Conns
      BY ValidTypes
    <2> QED BY <1>2, <2>1, SameParts DEF Filed
  <1>3. ASSUME NEW c \in Clients, Main(c), ~Connect(c) PROVE Filed'
    <2>1. UNCHANGED <<scene, sockets, dir>>
      BY <1>3 DEF Main, CheckFile, ReadAnswer, OpenResult, CombinePart, CombineEnd
    <2>2. CASE UNCHANGED thread
      BY <1>2, <2>1, <2>2
    <2>3. CASE ReadAnswer(c)
      <3>1. /\ pc[c] = "answer"
            /\ \A k \in Conns : k \in ValidConns(c) \/ thread'[k] = thread[k]
        BY <2>3 DEF ReadAnswer
      <3>2. \A k \in ValidConns(c) : k \in Conns /\ k[1] = c
        BY ValidTypes
      <3>3. \A k \in ValidConns(c) : thread[k] = "none"
        BY <3>1, <3>2 DEF Started
      <3>4. \A t \in Conns :
              thread[t] \in {"receive", "done", "gone"} =>
                thread'[t] \in {"receive", "done", "gone"}
        BY <3>1, <3>3
      <3> QED BY <1>2, <2>1, <3>4
    <2> QED BY <1>3, <2>2, <2>3 DEF Main, CheckFile, OpenResult, CombinePart, CombineEnd
  <1>4. ASSUME NEW k \in Conns, Request(k) \/ Name(k) PROVE Filed'
    BY <1>2, <1>4 DEF Request, Name, Goto, TypeOK
  <1>5. ASSUME NEW k \in Conns, Receives(k) PROVE Filed'
    <2>1. /\ UNCHANGED <<scene, sockets, dir>>
          /\ thread[k] = "receive" /\ (UNCHANGED thread \/ Goto(k, "done"))
      BY <1>5, ReceiveFrame
    <2> QED BY <1>2, <2>1 DEF Goto, TypeOK
  <1>6. ASSUME NEW k \in Conns, OpenPart(k) PROVE Filed'
    <2> DEFINE n == IF scene.aliased THEN target[k[1]] ELSE Part(k)
    <2>1. /\ UNCHANGED <<scene, sockets>> /\ thread[k] = "open"
          /\ dir' = [dir EXCEPT ![k[1]][n] = k] /\ thread' = [thread EXCEPT ![k] = "receive"]
      BY <1>6 DEF OpenPart, Goto
    <2>2. Connected(k) /\ k[1] \in Clients
      BY <2>1, ConnTypes DEF Started
    <2>3. /\ Part(k) \in Nat /\ Part(k) < PartNum(k[1]) /\ Part(k) \in Nums
          /\ PartNum(k[1]) \in Nat \ {0} /\ k \in ValidConns(k[1])
      BY <2>2, PartTypes
    <2>4. n \in Nums /\ (~scene.aliased \/ PartNum(k[1]) = 1 => Part(k) = n)
      <3>1. CASE scene.aliased
        <4>1. /\ target[k[1]] # TheFile /\ target[k[1]] \in Nums \cup {TheFile}
              /\ target[k[1]] < PartNum(k[1])
          BY <2>1, <2>2, <3>1 DEF Opening, Renamed, TypeOK
        <4>2. target[k[1]] \in Nums /\ target[k[1]] \in Nat
          BY <4>1 DEF Nums
        <4> QED BY <2>3, <3>1, <4>1, <4>2
      <3>2. CASE ~scene.aliased
        BY <2>3, <3>2
      <3> QED BY <3>1, <3>2
    <2> HIDE DEF n
    <2>5. \A c \in Clients : ValidConns(c) \subseteq Conns
      BY ValidTypes
    <2>6. ASSUME NEW c \in Clients, NEW m \in Nums, NEW t \in Conns, dir'[c][m] = t
          PROVE  /\ t \in ValidConns(c) /\ thread'[t] \in {"receive", "done", "gone"}
                 /\ ~scene.aliased \/ PartNum(c) = 1 => Part(t) = m
      <3>1. CASE c = k[1] /\ m = n
        <4>1. t = k
          BY <2>1, <2>2, <2>4, <2>6, <3>1 DEF TypeOK
        <4>2. thread'[k] = "receive"
          BY <2>1 DEF TypeOK
        <4> QED BY <2>3, <2>4, <3>1, <4>1, <4>2
      <3>2. CASE ~(c = k[1] /\ m = n)
        <4>1. dir[c][m] = t
          BY <2>1, <2>2, <2>4, <2>6, <3>2 DEF TypeOK
        <4>2. thread[t] \in {"receive", "done", "gone"} =>
                thread'[t] \in {"receive", "done", "gone"}
          BY <2>1 DEF TypeOK
        <4> QED BY <4>1, <4>2 DEF Filed
      <3> QED BY <3>1, <3>2
    <2> QED BY <2>1, <2>6, SameParts DEF Filed
  <1>7. ASSUME NEW s \in Servers, Serve(s) \/ Die(s) PROVE Filed'
    BY <1>2, <1>7, ServerFrame
  <1>8. CASE UNCHANGED vars
    BY <1>2, <1>8 DEF vars, client
  <1>9. ASSUME NEW c \in Clients, Kill(c) PROVE Filed'
    <2>1. /\ UNCHANGED <<scene, sockets, dir>>
          /\ \A t \in Conns : thread'[t] = thread[t] \/ thread'[t] = "gone"
      BY <1>9, KillFrame
    <2> QED BY <1>2, <2>1
  <1> QED BY <1>1, <1>3, <1>4, <1>5, <1>6, <1>7, <1>8, <1>9 DEF Next, Thread, Receives, Idle

-----------------------------------------------------------------------------
(* What is on a connection.                                                *)

\* Only the connection that a server talks to changes in a step of the server.
LEMMA UploadKept ==
  ASSUME IInv, NEW s \in Servers, Serve(s) \/ Die(s), NEW k \in Conns
  PROVE  /\ k # serving[s] \/ HangUp(s) \/ CheckResponse(s) \/ BrokenPipe(s) \/ Die(s) =>
              Upload(k)' = Upload(k)
         /\ k = serving[s] => Upload(k) = upload[s] /\ Server(k) = s
         /\ k = serving[s] /\ UNCHANGED serving => Upload(k)' = upload'[s]
         /\ k # serving[s] => requests'[k] = requests[k] /\ responses'[k] = responses[k]
  <1>1. TypeOK /\ Served
    BY DEF IInv
  <1>2. k # None /\ Server(k) \in Servers
    BY <1>1, ConnTypes
  <1>3. scene' = scene /\ Server(k)' = Server(k)
    BY ServerFrame DEF Server
  <1>4. k = serving[s] => Upload(k) = upload[s] /\ Server(k) = s
    BY <1>1, <1>2 DEF Served, Upload
  <1>5. k = serving[s] /\ UNCHANGED serving => Upload(k)' = upload'[s]
    BY <1>3, <1>4 DEF Upload
  <1>6. CASE Accept(s)
    <2>1. /\ serving[s] = None /\ UNCHANGED <<upload, requests, responses>> /\ upload[s] = None
          /\ \A t \in Servers \ {s} : serving'[t] = serving[t]
      BY <1>1, <1>6 DEF Accept, Served, TypeOK
    <2>2. Upload(k)' = Upload(k)
      <3>1. CASE Server(k) = s
        BY <1>2, <1>3, <2>1, <3>1 DEF Upload
      <3>2. CASE Server(k) # s
        BY <1>2, <1>3, <2>1, <3>2 DEF Upload
      <3> QED BY <3>1, <3>2
    <2> QED BY <1>4, <1>5, <2>1, <2>2
  <1>7. CASE HangUp(s) \/ CheckResponse(s) \/ StartUpload(s)
    <2>1. PICK cmds : Reads(s, cmds)
      BY <1>7 DEF HangUp, CheckResponse, StartUpload
    <2>2. /\ upload[s] = None /\ serving[s] \in Conns
          /\ requests' = [requests EXCEPT ![serving[s]] = Tail(@)]
      BY <1>1, <2>1 DEF Reads, TypeOK
    <2>3. /\ \A t \in Servers \ {s} : serving'[t] = serving[t] /\ upload'[t] = upload[t]
          /\ serving'[s] \in {None, serving[s]}
          /\ HangUp(s) \/ CheckResponse(s) => UNCHANGED upload
      BY <1>1, <1>7 DEF HangUp, CheckResponse, StartUpload, server, TypeOK
    <2>4. k # serving[s] \/ HangUp(s) \/ CheckResponse(s) => Upload(k)' = Upload(k)
      <3>1. CASE Server(k) # s
        BY <1>2, <1>3, <2>3, <3>1 DEF Upload
      <3>2. CASE Server(k) = s /\ k # serving[s]
        BY <1>2, <1>3, <2>3, <3>2 DEF Upload
      <3>3. CASE k = serving[s] /\ (HangUp(s) \/ CheckResponse(s))
        BY <1>2, <1>3, <1>4, <2>2, <2>3, <3>3 DEF Upload
      <3> QED BY <1>4, <3>1, <3>2, <3>3
    <2>5. k # serving[s] => requests'[k] = requests[k]
      BY <1>1, <2>2 DEF TypeOK
    <2>6. k # serving[s] => responses'[k] = responses[k]
      BY <1>1, <1>7 DEF HangUp, CheckResponse, StartUpload, Respond, TypeOK
    <2>7. ~(BrokenPipe(s) \/ Die(s)) \/ UNCHANGED <<serving, upload>>
      BY DEF BrokenPipe, Die
    <2>8. BrokenPipe(s) \/ Die(s) => Upload(k)' = Upload(k)
      BY <1>3, <2>7 DEF Upload
    <2> QED BY <1>4, <1>5, <2>4, <2>5, <2>6, <2>8
  <1>8. CASE SendPackage(s)
    <2>1. /\ UNCHANGED <<requests, serving>>
          /\ \A t \in Servers \ {s} : upload'[t] = upload[t]
          /\ k # serving[s] => responses'[k] = responses[k]
      BY <1>1, <1>8 DEF SendPackage, Respond, TypeOK
    <2>2. k # serving[s] => Upload(k)' = Upload(k)
      BY <1>2, <1>3, <2>1 DEF Upload
    <2>3. HangUp(s) \/ CheckResponse(s) => UNCHANGED upload
      BY DEF HangUp, CheckResponse, server
    <2>4. BrokenPipe(s) \/ Die(s) => UNCHANGED upload
      BY DEF BrokenPipe, Die
    <2>5. HangUp(s) \/ CheckResponse(s) \/ BrokenPipe(s) \/ Die(s) => Upload(k)' = Upload(k)
      BY <1>3, <2>1, <2>3, <2>4 DEF Upload
    <2> QED BY <1>4, <1>5, <2>1, <2>2, <2>5
  <1>9. CASE BrokenPipe(s) \/ Die(s)
    <2>1. UNCHANGED <<requests, responses, serving, upload>>
      BY <1>9 DEF BrokenPipe, Die
    <2>2. Upload(k)' = Upload(k)
      BY <1>3, <2>1 DEF Upload
    <2> QED BY <1>4, <1>5, <2>1, <2>2
  <1> QED BY <1>6, <1>7, <1>8, <1>9 DEF Serve

\* The same for steps of the clients.
LEMMA UploadOfClient ==
  ASSUME UNCHANGED <<scene, serving, upload>>
  PROVE  \A k : Upload(k)' = Upload(k)
  BY DEF Upload, Server

\* What an exchange depends on.
LEMMA ExchangeKept ==
  ASSUME NEW k, Exchange(k),
         \/ pc'[k[1]] = pc[k[1]] /\ (pc[k[1]] = "answer" => First(k[1])' = First(k[1]))
         \/ pc'[k[1]] \notin {"connect", "answer"},
         \/ thread'[k] = thread[k]
         \/ thread[k] \notin {"none", "done", "gone"} /\ thread'[k] \notin {"none", "request"},
         requests'[k] = requests[k], responses'[k] = responses[k], skew'[k] = skew[k],
         Upload(k)' = Upload(k)
  PROVE  Exchange(k)'
  <1>1. Early(k)'
    BY DEF Exchange, Early, Silent
  <1>2. Asking(k)'
    BY DEF Exchange, Asking
  <1>3. Running(k)'
    BY DEF Exchange, Running
  <1> QED BY <1>1, <1>2, <1>3 DEF Exchange

\* Connections are silent until main asks, and main asks on one only.
LEMMA ExchangesOfMain ==
  ASSUME IInv, TypeOK', Sized', NEW c \in Clients, Main(c)
  PROVE  Exchanges'
  <1>1. TypeOK /\ Sized /\ Started /\ Results /\ Exchanges
    BY DEF IInv
  <1>2. Conns' = Conns /\ \A k : Server(k)' = Server(k)
    BY DEF Main, Connect, CheckFile, ReadAnswer, OpenResult, CombinePart, CombineEnd, Conns,
           Server
  <1>3. \A k : Upload(k)' = Upload(k)
    <2>1. UNCHANGED <<scene, serving, upload>>
      BY DEF Main, Connect, CheckFile, ReadAnswer, OpenResult, CombinePart, CombineEnd, server
    <2> QED BY <2>1, UploadOfClient
  <1>4. ASSUME NEW k \in Conns PROVE Exchange(k)'
    <2>1. Exchange(k) /\ k[1] \in Clients
      BY <1>1, ConnTypes DEF Exchanges
    <2>2. ASSUME requests'[k] = requests[k], responses'[k] = responses[k], skew'[k] = skew[k],
                 thread'[k] = thread[k],
                 \/ pc'[k[1]] = pc[k[1]] /\ (pc[k[1]] = "answer" => First(k[1])' = First(k[1]))
                 \/ pc'[k[1]] \notin {"connect", "answer"}
          PROVE  Exchange(k)'
      BY <1>3, <2>1, <2>2, ExchangeKept, Zenon
    <2>3. CASE Connect(c)
      <3>1. UNCHANGED <<pc, requests, responses, skew, thread>> /\ pc[c] = "connect"
        BY <2>3 DEF Connect
      <3>2. pc[k[1]] = "answer" => First(k[1])' = First(k[1])
        BY <1>1, <2>1, <2>3, <3>1, ConnectParts
      <3> QED BY <2>2, <3>1, <3>2
    <2>4. ASSUME ~Connect(c)
          PROVE  UNCHANGED <<scene, sockets>> /\ First(k[1])' = First(k[1])
      <3>1. UNCHANGED <<scene, sockets>>
        BY <2>4 DEF Main, CheckFile, ReadAnswer, OpenResult, CombinePart, CombineEnd
      <3> QED BY <3>1, SameParts
    <2>5. ASSUME NEW r, k[1] # c,
                 requests' = [t \in Conns |-> IF t \in ValidConns(c) THEN Append(requests[t], r)
                                                                     ELSE requests[t]]
          PROVE  requests'[k] = requests[k]
      BY <1>1, <2>5, ValidTypes
    <2>6. CASE CheckFile(c)
      <3>1. /\ UNCHANGED <<responses, skew, thread, sockets, scene>> /\ pc[c] = "connect"
            /\ \/ pc' = [pc EXCEPT ![c] = "failed"] /\ UNCHANGED requests
               \/ /\ pc' = [pc EXCEPT ![c] = "answer"] /\ Valid(c) # {}
                  /\ requests' = [requests EXCEPT ![First(c)] = Append(@, Package("CHK"))]
        BY <2>6 DEF CheckFile, Ask
      <3>2. First(k[1])' = First(k[1])
        BY <3>1, SameParts
      <3>3. CASE pc' = [pc EXCEPT ![c] = "failed"] /\ UNCHANGED requests
        <4>1. pc'[k[1]] = pc[k[1]] \/ pc'[k[1]] \notin {"connect", "answer"}
          BY <1>1, <2>1, <3>3 DEF TypeOK
        <4> QED BY <2>2, <3>1, <3>2, <3>3, <4>1
      <3>4. CASE /\ pc' = [pc EXCEPT ![c] = "answer"] /\ Valid(c) # {}
                 /\ requests' = [requests EXCEPT ![First(c)] = Append(@, Package("CHK"))]
        <4>1. First(c) \in Conns /\ First(c)[1] = c
          BY <1>1, <3>4, FirstTypes
        <4>2. CASE k[1] # c
          <5>1. pc'[k[1]] = pc[k[1]] /\ requests'[k] = requests[k]
            BY <1>1, <2>1, <3>4, <4>1, <4>2 DEF TypeOK
          <5> QED BY <2>2, <3>1, <3>2, <5>1
        <4>3. CASE k[1] = c
          <5>1. pc'[k[1]] = "answer" /\ Silent(k) /\ thread[k] = "none"
            BY <1>1, <2>1, <3>1, <3>4, <4>3 DEF TypeOK, Exchange, Early, Started
          <5>2. requests'[k] = IF k = First(c) THEN <<Package("CHK")>> ELSE << >>
            <6>1. requests'[k] = IF k = First(c) THEN Append(requests[k], Package("CHK"))
                                                 ELSE requests[k]
              BY <1>1, <3>4, <4>1 DEF TypeOK
            <6>2. Append(<< >>, Package("CHK")) = <<Package("CHK")>>
              OBVIOUS
            <6> QED BY <5>1, <6>1, <6>2 DEF Silent
          <5>3. Early(k)'
            BY <3>1, <3>2, <4>3, <5>1, <5>2 DEF Early, Silent
          <5>4. Asking(k)'
            <6>1. <<Package("CHK")>>[1].cmd # "DWN" /\ DOMAIN <<Package("CHK")>> = {1}
              BY DEF Package
            <6>2. \A i \in DOMAIN requests'[k] : requests'[k][i].cmd # "DWN"
              BY <5>2, <6>1
            <6> QED BY <1>3, <2>1, <3>1, <5>1, <6>2 DEF Exchange, Asking
          <5>5. Running(k)'
            BY <3>1, <5>1 DEF Running
          <5> QED BY <5>3, <5>4, <5>5 DEF Exchange
        <4> QED BY <4>2, <4>3
      <3> QED BY <3>1, <3>3, <3>4
    <2>7. CASE ReadAnswer(c) /\ k[1] # c
      <3>1. pc'[k[1]] = pc[k[1]]
        BY <1>1, <2>1, <2>7 DEF ReadAnswer, TypeOK
      <3>2. k # First(c) /\ k \notin ValidConns(c)
        <4>1. First(c)[1] = c
          BY DEF First
        <4> QED BY <1>1, <2>7, <4>1, ValidTypes
      <3>3. thread'[k] = thread[k] /\ skew'[k] = skew[k] /\ responses'[k] = responses[k]
        BY <1>1, <2>7, <3>2 DEF ReadAnswer, TypeOK
      <3>4. requests'[k] = requests[k]
        BY <2>7, <3>2 DEF ReadAnswer, AskAll
      <3>5. ~Connect(c)
        BY <2>7 DEF ReadAnswer, Connect
      <3> QED BY <2>2, <2>4, <3>1, <3>3, <3>4, <3>5
    <2>8. CASE ReadAnswer(c) /\ k[1] = c
      <3>1. pc[c] = "answer" /\ pc'[c] \notin {"connect", "answer"} /\ thread[k] = "none"
        BY <1>1, <2>8 DEF ReadAnswer, TypeOK, Started
      <3>2. Early(k)'
        BY <2>8, <3>1 DEF Early
      <3>3. CASE thread' = [t \in Conns |-> IF t \in ValidConns(c) THEN "request" ELSE thread[t]]
                 /\ UNCHANGED requests /\ responses[First(c)] # << >>
        <4>1. Upload(k) = None /\ \A i \in DOMAIN requests[k] : requests[k][i].cmd # "DWN"
          BY <2>1, <3>1 DEF Exchange, Asking
        <4>2. requests[k] = << >>
          BY <2>1, <2>8, <3>1, <3>3 DEF Exchange, Early, Silent
        <4>3. Asking(k)'
          BY <1>3, <3>3, <4>1, <4>2 DEF Asking
        <4>4. \A i \in DOMAIN responses'[k] : skew'[k] /\ i = 1
          <5>1. responses[k] \in Seq(ToClient) /\ responses[First(c)] \in Seq(ToClient)
            <6>1. First(c) \in Conns
              BY <1>1, <3>1, FirstTypes DEF Results
            <6> QED BY <1>1, <6>1 DEF TypeOK
          <5>2. CASE k # First(c)
            <6>1. responses[k] = << >>
              BY <2>1, <2>8, <3>1, <5>2 DEF Exchange, Early, Silent
            <6>2. responses'[k] = responses[k]
              BY <1>1, <2>8, <5>2 DEF ReadAnswer, TypeOK
            <6> QED BY <6>1, <6>2
          <5>3. CASE k = First(c)
            <6>1. Len(responses[k]) = 1
              BY <2>1, <2>8, <3>1, <3>3, <5>3 DEF Exchange, Early
            <6>2. Tail(responses[k]) = << >> /\ DOMAIN responses[k] = 1 .. 1
              BY <5>1, <6>1, TakeOnly, LenProperties
            <6>3. \/ responses'[k] = Tail(responses[k])
                  \/ responses'[k] = responses[k] /\ skew'[k] = TRUE
              <7>1. thread'[k] = "request" \/ k \notin ValidConns(c)
                BY <3>3
              <7>2. k \in ValidConns(c)
                BY <1>1, <3>1, <5>3, FirstTypes DEF Results
              <7>3. \/ responses' = [responses EXCEPT ![k] = Tail(@)]
                    \/ skew' = [skew EXCEPT ![k] = TRUE] /\ UNCHANGED responses
                    \/ UNCHANGED thread
                BY <2>8, <5>3 DEF ReadAnswer
              <7>4. thread'[k] # thread[k]
                BY <3>1, <7>1, <7>2
              <7>5. responses \in [Conns -> Seq(ToClient)] /\ skew \in [Conns -> BOOLEAN]
                BY <1>1 DEF TypeOK
              <7>6. responses' = [responses EXCEPT ![k] = Tail(@)] =>
                      responses'[k] = Tail(responses[k])
                BY <7>5
              <7>7. skew' = [skew EXCEPT ![k] = TRUE] => skew'[k] = TRUE
                BY <7>5
              <7> QED BY <7>3, <7>4, <7>6, <7>7
            <6>4. CASE responses'[k] = Tail(responses[k])
              BY <6>2, <6>4
            <6>5. CASE responses'[k] = responses[k] /\ skew'[k] = TRUE
              BY <6>2, <6>5
            <6> QED BY <6>3, <6>4, <6>5
          <5> QED BY <5>2, <5>3
        <4>5. Running(k)'
          BY <3>3, <4>2, <4>4 DEF Running
        <4> QED BY <3>2, <4>3, <4>5 DEF Exchange
      <3>4. CASE UNCHANGED thread /\ \E cmd \in {"BYE", "EOF"} : AskAll(c, Package(cmd))
        <4>1. PICK cmd \in {"BYE", "EOF"} : AskAll(c, Package(cmd))
          BY <3>4
        <4>2. Running(k)'
          BY <3>1, <3>4 DEF Running
        <4>3. Package(cmd).cmd # "DWN" /\ Package(cmd) \in ToServer
          BY DEF Package, ToServer
        <4>4. \A i \in DOMAIN requests[k] : requests[k][i].cmd # "DWN"
          BY <2>1, <3>1 DEF Exchange, Asking
        <4>5. requests'[k] = Append(requests[k], Package(cmd)) \/ requests'[k] = requests[k]
          BY <4>1 DEF AskAll
        <4>6. \A i \in DOMAIN requests'[k] : requests'[k][i].cmd # "DWN"
          <5>1. requests[k] \in Seq(ToServer)
            BY <1>1 DEF TypeOK
          <5>2. PICK r : r = Package(cmd)
            OBVIOUS
          <5>3. /\ Append(requests[k], r) \in Seq(ToServer)
                /\ Len(Append(requests[k], r)) = Len(requests[k]) + 1
                /\ \A i \in 1 .. Len(requests[k]) : Append(requests[k], r)[i] = requests[k][i]
                /\ Append(requests[k], r)[Len(requests[k]) + 1] = r
            BY <4>3, <5>1, <5>2, AppendProperties
          <5>4. /\ DOMAIN Append(requests[k], r) = 1 .. Len(requests[k]) + 1
                /\ DOMAIN requests[k] = 1 .. Len(requests[k]) /\ Len(requests[k]) \in Nat
            BY <5>1, <5>3, LenProperties
          <5>5. ASSUME NEW i \in 1 .. Len(requests[k]) + 1
                PROVE  Append(requests[k], r)[i].cmd # "DWN"
            <6>1. i \in 1 .. Len(requests[k]) \/ i = Len(requests[k]) + 1
              BY <5>4
            <6> QED BY <4>3, <4>4, <5>2, <5>3, <5>4, <6>1
          <5> QED BY <4>4, <4>5, <5>2, <5>4, <5>5
        <4>7. Asking(k)'
          BY <1>3, <2>1, <3>1, <3>4, <4>6 DEF Exchange, Asking
        <4> QED BY <3>2, <4>2, <4>7 DEF Exchange
      <3> QED BY <2>8, <3>3, <3>4 DEF ReadAnswer
    <2>9. CASE OpenResult(c) \/ CombinePart(c)
      <3>1. UNCHANGED <<requests, responses, skew, thread>>
        BY <2>9 DEF OpenResult, CombinePart
      <3>2. pc'[k[1]] = pc[k[1]] \/ pc'[k[1]] \notin {"connect", "answer"}
        BY <1>1, <2>1, <2>9 DEF OpenResult, CombinePart, TypeOK
      <3>3. ~Connect(c)
        BY <2>9 DEF OpenResult, CombinePart, Connect
      <3> QED BY <2>2, <2>4, <3>1, <3>2, <3>3
    <2>10. CASE CombineEnd(c)
      <3>1. /\ UNCHANGED <<responses, skew, thread>> /\ pc[c] = "combine"
            /\ pc' = [pc EXCEPT ![c] = "finished"] \/ pc' = [pc EXCEPT ![c] = "failed"]
            /\ AskAll(c, Package("EOF"))
        BY <2>10 DEF CombineEnd
      <3>2. CASE k[1] # c
        <4>1. pc'[k[1]] = pc[k[1]] /\ requests'[k] = requests[k]
          BY <1>1, <2>1, <2>5, <3>1, <3>2 DEF AskAll, TypeOK
        <4>2. ~Connect(c)
          BY <3>1 DEF Connect
        <4> QED BY <2>2, <2>4, <3>1, <4>1, <4>2
      <3>3. CASE k[1] = c /\ k \notin ValidConns(c)
        <4>1. requests'[k] = requests[k] /\ pc'[k[1]] \notin {"connect", "answer"}
          BY <1>1, <2>1, <3>1, <3>3 DEF AskAll, TypeOK
        <4> QED BY <2>2, <3>1, <4>1
      <3>4. CASE k \in ValidConns(c)
        <4>1. thread[k] = "done" /\ k[1] = c
          BY <1>1, <3>1, <3>4, ValidTypes DEF Results
        <4>2. pc'[c] \notin {"connect", "answer"} /\ thread'[k] = "done"
          BY <1>1, <3>1, <4>1 DEF TypeOK
        <4> QED BY <4>1, <4>2 DEF Exchange, Early, Asking, Running
      <3> QED BY <3>2, <3>3, <3>4
    <2> QED BY <2>3, <2>6, <2>7, <2>8, <2>9, <2>10 DEF Main
  <1> QED BY <1>2, <1>4 DEF Exchanges

\* A thread asks once, and then receives.
LEMMA ExchangesOfThread ==
  ASSUME IInv, TypeOK', Sized', NEW k \in Conns, Thread(k)
  PROVE  Exchanges'
  <1>1. TypeOK /\ Sized /\ Started /\ Exchanges
    BY DEF IInv
  <1>2. UNCHANGED <<scene, sockets, pc, serving, upload>>
    BY DEF Thread, Request, Name, OpenPart, Receive, ReceiveHead, ReceiveTail, EndOfStream,
           server
  <1>3. Conns' = Conns /\ \A t : First(t[1])' = First(t[1]) /\ Upload(t)' = Upload(t)
    BY <1>2, SameParts, UploadOfClient
  <1>4. ASSUME NEW t \in Conns, t # k PROVE Exchange(t)'
    <2>1. /\ thread'[t] = thread[t] /\ requests'[t] = requests[t]
          /\ responses'[t] = responses[t] /\ skew'[t] = skew[t]
      <3>1. CASE Request(k) \/ Name(k) \/ OpenPart(k)
        BY <1>1, <1>4, <3>1 DEF Request, Name, OpenPart, Goto, Ask, TypeOK
      <3>2. CASE Receive(k) \/ ReceiveHead(k)
        BY <1>1, <1>4, <3>2 DEF Receive, ReceiveHead, Goto, TypeOK
      <3>3. CASE ReceiveTail(k) \/ EndOfStream(k)
        BY <1>1, <1>4, <3>3 DEF ReceiveTail, EndOfStream, Goto, TypeOK
      <3> QED BY <3>1, <3>2, <3>3 DEF Thread
    <2>2. Exchange(t)
      BY <1>1 DEF Exchanges
    <2> QED BY <1>2, <1>3, <2>1, <2>2, ExchangeKept
  <1>5. Exchange(k) /\ thread[k] \notin {"none", "done", "gone"}
    BY <1>1 DEF Exchanges, Thread, Request, Name, OpenPart, Receive, ReceiveHead, ReceiveTail,
                EndOfStream
  <1>6. pc'[k[1]] = "download"
    BY <1>1, <1>2, <1>5 DEF Started
  <1>7. Early(k)'
    BY <1>6 DEF Early
  <1>8. thread'[k] \in {"name", "open", "receive", "done"}
    BY <1>1 DEF Thread, Request, Name, OpenPart, Receive, ReceiveHead, ReceiveTail, EndOfStream,
                Goto, TypeOK
  <1>9. Asking(k)'
    BY <1>8 DEF Asking
  <1>10. \A i \in DOMAIN requests'[k] : requests'[k][i].cmd # "CHK"
    <2>1. CASE Request(k)
      <3> DEFINE r == [cmd |-> "DWN", file |-> target[k[1]], start |-> FileStart(k),
                       end |-> FileEnd(k)]
      <3>1. requests[k] = << >> /\ r.cmd # "CHK"
        BY <1>5, <2>1 DEF Request, Exchange, Asking
      <3>2. requests' = [requests EXCEPT ![k] = Append(@, r)]
        BY <2>1 DEF Request, Ask
      <3> HIDE DEF r
      <3>3. requests'[k] = Append(<< >>, r)
        BY <1>1, <3>1, <3>2 DEF TypeOK
      <3>4. Append(<< >>, r) = <<r>>
        OBVIOUS
      <3> QED BY <3>1, <3>3, <3>4
    <2>2. CASE ~Request(k)
      <3>1. requests' = requests
        BY <2>2 DEF Thread, Name, OpenPart, Receive, ReceiveHead, ReceiveTail, EndOfStream
      <3> QED BY <1>5, <3>1 DEF Exchange, Running
    <2> QED BY <2>1, <2>2
  <1>11. \A i \in DOMAIN responses'[k] : responses'[k][i] \in Data \/ (skew'[k] /\ i = 1)
    <2>1. \A i \in DOMAIN responses[k] : responses[k][i] \in Data \/ (skew[k] /\ i = 1)
      BY <1>5 DEF Exchange, Running
    <2>2. CASE Receive(k) \/ ReceiveTail(k)
      <3>1. responses[k] # << >> /\ responses' = [responses EXCEPT ![k] = Tail(@)]
        BY <2>2 DEF Receive, ReceiveTail
      <3>2. responses[k] \in Seq(ToClient) /\ responses'[k] = Tail(responses[k])
        BY <1>1, <3>1 DEF TypeOK
      <3>3. /\ Tail(responses[k]) \in Seq(ToClient) /\ Len(responses[k]) \in Nat \ {0}
            /\ Len(Tail(responses[k])) = Len(responses[k]) - 1
            /\ \A i \in 1 .. Len(responses[k]) - 1 : Tail(responses[k])[i] = responses[k][i + 1]
        BY <3>1, <3>2, DropFirst
      <3>4. /\ DOMAIN Tail(responses[k]) = 1 .. Len(responses[k]) - 1
            /\ DOMAIN responses[k] = 1 .. Len(responses[k])
        BY <3>2, <3>3, LenProperties
      <3>5. \A i \in 1 .. Len(responses[k]) - 1 : i + 1 \in 1 .. Len(responses[k]) /\ i + 1 # 1
        BY <3>3
      <3> QED BY <2>1, <3>2, <3>3, <3>4, <3>5
    <2>3. CASE ~(Receive(k) \/ ReceiveTail(k))
      <3>1. responses' = responses /\ (skew[k] => skew'[k])
        BY <1>1, <2>3 DEF Thread, Request, Name, OpenPart, ReceiveHead, EndOfStream, TypeOK
      <3> QED BY <2>1, <3>1
    <2> QED BY <2>2, <2>3
  <1>12. Running(k)'
    BY <1>10, <1>11 DEF Running
  <1> QED BY <1>3, <1>4, <1>7, <1>9, <1>12 DEF Exchanges, Exchange

\* A server answers what it was asked.
LEMMA ExchangesOfServer ==
  ASSUME IInv, TypeOK', Sized', NEW s \in Servers, Serve(s) \/ Die(s)
  PROVE  Exchanges'
  <1>1. TypeOK /\ Sized /\ Started /\ Exchanges
    BY DEF IInv
  <1>2. UNCHANGED <<scene, sockets, pc, thread, skew>>
    BY ServerFrame
  <1>3. Conns' = Conns /\ \A t : First(t[1])' = First(t[1])
    BY <1>2, SameParts
  <1>4. ASSUME NEW k \in Conns, requests'[k] = requests[k], responses'[k] = responses[k],
               Upload(k)' = Upload(k)
        PROVE  Exchange(k)'
    <2>1. Exchange(k)
      BY <1>1 DEF Exchanges
    <2> QED BY <1>2, <1>3, <1>4, <2>1, ExchangeKept
  <1>5. ASSUME NEW k \in Conns, k # serving[s] PROVE Exchange(k)'
    BY <1>4, <1>5, UploadKept
  <1>6. ASSUME NEW k \in Conns, k = serving[s] PROVE Exchange(k)'
    <2>1. Exchange(k) /\ Upload(k) = upload[s]
      BY <1>1, <1>6, UploadKept DEF Exchanges
    <2>2. k # None /\ requests[k] \in Seq(ToServer) /\ responses[k] \in Seq(ToClient)
      BY <1>1, ConnTypes DEF TypeOK
    <2>3. CASE Accept(s)
      BY <1>6, <2>2, <2>3 DEF Accept
    <2>4. CASE BrokenPipe(s) \/ Die(s)
      <3>1. UNCHANGED <<requests, responses>>
        BY <2>4 DEF BrokenPipe, Die
      <3> QED BY <1>4, <2>4, <3>1, UploadKept
    <2>5. ASSUME NEW cmds, Reads(s, cmds)
          PROVE  /\ requests'[k] = Tail(requests[k]) /\ 1 \in DOMAIN requests[k]
                 /\ requests[k][1].cmd \in cmds
                 /\ \A i \in DOMAIN requests'[k] :
                      \E n \in DOMAIN requests[k] : requests'[k][i] = requests[k][n]
      <3>1. /\ requests[k] # << >> /\ Head(requests[k]).cmd \in cmds
            /\ requests' = [requests EXCEPT ![k] = Tail(@)]
        BY <1>6, <2>5 DEF Reads
      <3>2. /\ Tail(requests[k]) \in Seq(ToServer) /\ Len(requests[k]) \in Nat \ {0}
            /\ Head(requests[k]) = requests[k][1]
            /\ Len(Tail(requests[k])) = Len(requests[k]) - 1
            /\ \A i \in 1 .. Len(requests[k]) - 1 : Tail(requests[k])[i] = requests[k][i + 1]
        BY <2>2, <3>1, DropFirst
      <3>3. /\ DOMAIN Tail(requests[k]) = 1 .. Len(requests[k]) - 1
            /\ DOMAIN requests[k] = 1 .. Len(requests[k])
        BY <2>2, <3>2, LenProperties
      <3>4. 1 \in DOMAIN requests[k]
                /\ \A i \in 1 .. Len(requests[k]) - 1 : i + 1 \in DOMAIN requests[k]
        BY <3>2, <3>3
      <3>5. requests'[k] = Tail(requests[k])
        BY <1>1, <3>1 DEF TypeOK
      <3> QED BY <3>1, <3>2, <3>3, <3>4, <3>5
    <2>6. ASSUME NEW cmds, Reads(s, cmds), pc[k[1]] \in {"connect", "answer"}
          PROVE  /\ pc[k[1]] = "answer" /\ k = First(k[1]) /\ requests[k] = <<Package("CHK")>>
                 /\ responses[k] = << >> /\ "CHK" \in cmds /\ requests'[k] = << >>
      <3>1. requests[k] # << >> /\ requests[k][1].cmd \in cmds
                /\ requests'[k] = Tail(requests[k])
        BY <2>5, <2>6
      <3>2. /\ pc[k[1]] = "answer" /\ k = First(k[1]) /\ requests[k] = <<Package("CHK")>>
            /\ responses[k] = << >>
        BY <2>1, <2>6, <3>1 DEF Exchange, Early, Silent
      <3>3. <<Package("CHK")>>[1].cmd = "CHK" /\ Tail(<<Package("CHK")>>) = << >>
        BY DEF Package
      <3> QED BY <3>1, <3>2, <3>3
    <2>7. CASE HangUp(s) \/ StartUpload(s)
      <3>1. PICK cmds \in {{"BYE", "EOF"}, {"DWN"}} :
              Reads(s, cmds) /\ (cmds = {"BYE", "EOF"} => HangUp(s))
        BY <2>7 DEF HangUp, StartUpload
      <3>2. UNCHANGED responses
        BY <2>7 DEF HangUp, StartUpload
      <3>3. pc[k[1]] \notin {"connect", "answer"}
        BY <2>6, <3>1
      <3>4. Early(k)'
        BY <1>2, <3>3 DEF Early
      <3>5. thread[k] # "request"
        BY <2>1, <2>5, <3>1 DEF Exchange, Asking
      <3>6. ASSUME thread[k] = "none"
            PROVE  Upload(k)' = None
                       /\ \A i \in DOMAIN requests'[k] : requests'[k][i].cmd # "DWN"
        <4>1. Upload(k) = None /\ \A i \in DOMAIN requests[k] : requests[k][i].cmd # "DWN"
          BY <2>1, <3>6 DEF Exchange, Asking
        <4>2. cmds = {"BYE", "EOF"}
          BY <2>5, <3>1, <4>1
        <4>3. Upload(k)' = Upload(k)
          BY <3>1, <4>2, UploadKept
        <4> QED BY <2>5, <3>1, <4>1, <4>3
      <3>7. Asking(k)'
        BY <1>2, <3>5, <3>6 DEF Asking
      <3>8. Running(k)'
        <4>1. \A i \in DOMAIN requests'[k] :
                \E n \in DOMAIN requests[k] : requests'[k][i] = requests[k][n]
          BY <2>5, <3>1
        <4> QED BY <1>2, <2>1, <3>2, <4>1 DEF Exchange, Running
      <3> QED BY <3>4, <3>7, <3>8 DEF Exchange
    <2>8. CASE CheckResponse(s)
      <3>1. Reads(s, {"CHK"}) /\ Respond(k, [have |-> s \notin scene.without])
        BY <1>6, <2>8 DEF CheckResponse
      <3>2. /\ requests[k] # << >> /\ 1 \in DOMAIN requests[k] /\ requests[k][1].cmd = "CHK"
            /\ \A i \in DOMAIN requests'[k] :
                 \E n \in DOMAIN requests[k] : requests'[k][i] = requests[k][n]
        BY <2>5, <3>1
      <3>3. thread[k] \in {"none", "done", "gone"}
        BY <2>1, <3>2 DEF Exchange, Running
      <3>4. Running(k)'
        BY <1>2, <3>3 DEF Running
      <3>5. Upload(k)' = Upload(k)
        BY <2>8, UploadKept
      <3>6. Asking(k)'
        BY <1>2, <2>1, <3>2, <3>3, <3>5 DEF Exchange, Asking
      <3>7. Early(k)'
        <4>1. CASE pc[k[1]] \notin {"connect", "answer"}
          BY <1>2, <4>1 DEF Early
        <4>2. CASE pc[k[1]] \in {"connect", "answer"}
          <5>1. /\ pc[k[1]] = "answer" /\ k = First(k[1]) /\ responses[k] = << >>
                /\ requests'[k] = << >>
            BY <2>6, <3>1, <4>2
          <5>2. Len(Append(<< >>, [have |-> s \notin scene.without])) = 1
            OBVIOUS
          <5>3. responses'[k] = Append(responses[k], [have |-> s \notin scene.without])
            BY <1>1, <3>1 DEF Respond, TypeOK
          <5>4. Len(responses'[k]) = 1
            BY <5>1, <5>2, <5>3
          <5> QED BY <1>2, <1>3, <5>1, <5>4 DEF Early
        <4> QED BY <4>1, <4>2
      <3> QED BY <3>4, <3>6, <3>7 DEF Exchange
    <2>9. CASE SendPackage(s)
      <3>1. upload[s] # None /\ UNCHANGED requests
        BY <2>9 DEF SendPackage
      <3>2. thread[k] \notin {"none", "request"}
        BY <2>1, <3>1 DEF Exchange, Asking
      <3>3. pc[k[1]] \notin {"connect", "answer"}
        BY <1>1, <3>2 DEF Started
      <3>4. Early(k)' /\ Asking(k)'
        BY <1>2, <3>2, <3>3 DEF Early, Asking
      <3>5. PICK p \in Data : responses' = [responses EXCEPT ![k] = Append(@, p)]
        <4> DEFINE cur == upload[s][1]
                   end == upload[s][2]
        <4>1. cur \in Nat /\ end \in Nat \cup {-1}
          BY <1>1, <3>1 DEF TypeOK
        <4>2. cur + PackageLength - 1 \in Nat
          BY <4>1, BufferSizeAssumption DEF PackageLength
        <4>3. \/ Respond(k, [content |-> Positions(cur, cur + PackageLength - 1),
                     is_end |-> FALSE])
              \/ Respond(k, [content |-> Positions(cur, end), is_end |-> TRUE])
          BY <1>6, <2>9 DEF SendPackage
        <4> HIDE DEF cur, end
        <4>4. /\ [content |-> Positions(cur, cur + PackageLength - 1), is_end |-> FALSE] \in Data
              /\ [content |-> Positions(cur, end), is_end |-> TRUE] \in Data
          <5>1. Positions(cur, cur + PackageLength - 1) \in Seq(Nat)
            BY <4>1, <4>2, PositionsTypes
          <5>2. Positions(cur, end) \in Seq(Nat)
            BY <4>1, PositionsTypes
          <5> QED BY <5>1, <5>2 DEF Data
        <4> QED BY <4>3, <4>4 DEF Respond
      <3>6. responses'[k] = Append(responses[k], p)
        BY <1>1, <3>5 DEF TypeOK
      <3>7. p \in ToClient
        BY DEF Data, ToClient
      <3>8. /\ Append(responses[k], p) \in Seq(ToClient)
            /\ Len(Append(responses[k], p)) = Len(responses[k]) + 1
            /\ \A i \in 1 .. Len(responses[k]) : Append(responses[k], p)[i] = responses[k][i]
            /\ Append(responses[k], p)[Len(responses[k]) + 1] = p
        BY <2>2, <3>7, AppendProperties
      <3>9. /\ DOMAIN Append(responses[k], p) = 1 .. Len(responses[k]) + 1
            /\ Len(responses[k]) \in Nat
            /\ DOMAIN responses[k] = 1 .. Len(responses[k])
        BY <2>2, <3>8, LenProperties
      <3>10. \A i \in 1 .. Len(responses[k]) + 1 :
               i \in 1 .. Len(responses[k]) \/ i = Len(responses[k]) + 1
        BY <3>9
      <3>11. ASSUME thread[k] \notin {"done", "gone"}
             PROVE  \A i \in DOMAIN responses'[k] : responses'[k][i] \in Data
                                                  \/ (skew'[k] /\ i = 1)
        <4>1. \A i \in DOMAIN responses[k] : responses[k][i] \in Data \/ (skew[k] /\ i = 1)
          BY <2>1, <3>2, <3>11 DEF Exchange, Running
        <4> QED BY <1>2, <3>6, <3>8, <3>9, <3>10, <4>1
      <3>12. Running(k)'
        <4>1. thread[k] \notin {"done", "gone"} =>
                \A i \in DOMAIN requests'[k] : requests'[k][i].cmd # "CHK"
          BY <2>1, <3>1, <3>2 DEF Exchange, Running
        <4> QED BY <1>2, <3>11, <4>1 DEF Running
      <3> QED BY <3>4, <3>12 DEF Exchange
    <2> QED BY <2>3, <2>4, <2>7, <2>8, <2>9 DEF Serve
  <1> QED BY <1>3, <1>5, <1>6 DEF Exchanges

\* The items of a list, with one more, and without the first.
LEMMA OneMore ==
  ASSUME NEW S, NEW s \in Seq(S), NEW x \in S
  PROVE  /\ DOMAIN Append(s, x) = 1 .. Len(s) + 1 /\ DOMAIN s = 1 .. Len(s) /\ Len(s) \in Nat
         /\ \A i \in DOMAIN s : Append(s, x)[i] = s[i]
         /\ Append(s, x)[Len(s) + 1] = x
         /\ \A i \in DOMAIN Append(s, x) : i \in DOMAIN s \/ i = Len(s) + 1
  <1>1. /\ Append(s, x) \in Seq(S) /\ Len(Append(s, x)) = Len(s) + 1
        /\ \A i \in 1 .. Len(s) : Append(s, x)[i] = s[i]
        /\ Append(s, x)[Len(s) + 1] = x
    BY AppendProperties
  <1>2. /\ DOMAIN Append(s, x) = 1 .. Len(s) + 1 /\ DOMAIN s = 1 .. Len(s) /\ Len(s) \in Nat
    BY <1>1, LenProperties
  <1>3. \A i \in 1 .. Len(s) + 1 : i \in 1 .. Len(s) \/ i = Len(s) + 1
    BY <1>2
  <1> QED BY <1>1, <1>2, <1>3
LEMMA OneLess ==
  ASSUME NEW S, NEW s \in Seq(S), s # << >>
  PROVE  /\ 1 \in DOMAIN s /\ Head(s) = s[1]
         /\ \A i \in DOMAIN Tail(s) : /\ i \in Nat \ {0} /\ i + 1 \in DOMAIN s
                                     /\ Tail(s)[i] = s[i + 1]
  <1>1. /\ Tail(s) \in Seq(S) /\ Len(s) \in Nat \ {0} /\ Len(Tail(s)) = Len(s) - 1
        /\ \A i \in 1 .. Len(s) - 1 : Tail(s)[i] = s[i + 1] /\ Head(s) = s[1]
        /\ Head(s) = s[1]
    BY DropFirst
  <1>2. DOMAIN Tail(s) = 1 .. Len(s) - 1 /\ DOMAIN s = 1 .. Len(s)
    BY <1>1, LenProperties
  <1>3. \A i \in 1 .. Len(s) - 1 : i \in Nat \ {0} /\ i + 1 \in 1 .. Len(s)
    BY <1>1
  <1>4. 1 \in DOMAIN s
    BY <1>1, <1>2
  <1> QED BY <1>1, <1>2, <1>3, <1>4

\* What is on the connections of a client that is killed does not matter any more.
LEMMA ExchangesOfKill ==
  ASSUME IInv, NEW c \in Clients, Kill(c)
  PROVE  Exchanges'
  <1>1. TypeOK /\ Sized /\ Started /\ Exchanges
    BY DEF IInv
  <1>2. /\ UNCHANGED <<scene, sockets, skew, responses, serving, upload>>
        /\ pc' = [pc EXCEPT ![c] = "killed"] /\ AskAll(c, Package("EOF"))
        /\ thread' = [k \in Conns |-> IF k[1] = c /\ thread[k] # "none" THEN "gone"
                                                                        ELSE thread[k]]
    BY KillFrame
  <1>3. Conns' = Conns /\ \A t : First(t[1])' = First(t[1]) /\ Upload(t)' = Upload(t)
    BY <1>2, SameParts, UploadOfClient
  <1>4. ASSUME NEW k \in Conns PROVE Exchange(k)'
    <2>1. Exchange(k) /\ k[1] \in Clients
      BY <1>1, ConnTypes DEF Exchanges
    <2>2. CASE k[1] # c
      <3>1. k \notin ValidConns(c)
        BY <1>1, <2>2, ValidTypes
      <3>2. requests'[k] = requests[k] /\ thread'[k] = thread[k] /\ pc'[k[1]] = pc[k[1]]
        BY <1>1, <1>2, <2>1, <2>2, <3>1 DEF AskAll, TypeOK
      <3> QED BY <1>2, <1>3, <2>1, <3>2, ExchangeKept
    <2>3. CASE k[1] = c
      <3>1. /\ pc'[k[1]] = "killed"
            /\ thread'[k] = IF thread[k] = "none" THEN "none" ELSE "gone"
        BY <1>1, <1>2, <2>1, <2>3 DEF TypeOK
      <3>2. Early(k)' /\ Running(k)'
        BY <3>1 DEF Early, Running
      <3>3. ASSUME thread[k] = "none"
            PROVE  \A i \in DOMAIN requests'[k] : requests'[k][i].cmd # "DWN"
        <4>1. \A i \in DOMAIN requests[k] : requests[k][i].cmd # "DWN"
          BY <2>1, <3>3 DEF Exchange, Asking
        <4>2. PICK r \in ToServer : r = Package("EOF") /\ r.cmd # "DWN"
          <5>1. Package("EOF") \in ToServer /\ Package("EOF").cmd # "DWN"
            BY DEF Package, ToServer
          <5> QED BY <5>1
        <4>3. requests'[k] = Append(requests[k], r) \/ requests'[k] = requests[k]
          BY <1>2, <4>2 DEF AskAll
        <4>4. CASE requests'[k] = requests[k]
          BY <4>1, <4>4
        <4>5. CASE requests'[k] = Append(requests[k], r)
          <5>1. requests[k] \in Seq(ToServer)
            BY <1>1 DEF TypeOK
          <5> QED BY <4>1, <4>2, <4>5, <5>1, OneMore
        <4> QED BY <4>3, <4>4, <4>5
      <3>4. Asking(k)'
        BY <1>3, <2>1, <3>1, <3>3 DEF Exchange, Asking
      <3> QED BY <3>2, <3>4 DEF Exchange
    <2> QED BY <2>2, <2>3
  <1> QED BY <1>3, <1>4 DEF Exchanges

\* The inductive invariant holds in every state.
LEMMA InitInv == ASSUME Init PROVE IInv
  <1>1. TypeOK /\ Sized /\ Started /\ Opening
    BY InitTypes
  <1>2. Results /\ Renamed
    BY DEF Init, Results, Renamed
  <1>3. Asked /\ Served
    BY DEF Init, Asked, Served
  <1>4. Filed
    BY <1>1, ConnTypes DEF Init, Filed
  <1>5. ASSUME NEW k \in Conns PROVE Exchange(k)
    <2>1. /\ pc[k[1]] = "connect" /\ thread[k] = "none" /\ requests[k] = << >>
          /\ responses[k] = << >> /\ serving[Server(k)] = None /\ k # None
      BY <1>1, ConnTypes DEF Init
    <2>2. Early(k)
      BY <2>1 DEF Early, Silent
    <2>3. Asking(k)
      BY <2>1 DEF Asking, Upload
    <2>4. Running(k)
      BY <2>1 DEF Running
    <2> QED BY <2>2, <2>3, <2>4 DEF Exchange
  <1> QED BY <1>1, <1>2, <1>3, <1>4, <1>5 DEF IInv, Exchanges

LEMMA StepInv == ASSUME IInv, [Next]_vars PROVE IInv'
  <1>1. TypeOK' /\ Sized'
    BY StepTypes
  <1>2. Started' /\ Results' /\ Renamed' /\ Opening' /\ Asked' /\ Served' /\ Filed'
    BY <1>1, StartedInv, ResultsInv, RenamedInv, AskedInv, ServedInv, FiledInv
  <1>3. Exchanges'
    <2>1. CASE UNCHANGED vars
      <3>1. UNCHANGED <<scene, sockets, pc, thread, skew, requests, responses, serving, upload>>
        BY <2>1 DEF vars, client, server
      <3>2. Conns' = Conns /\ \A k : First(k[1])' = First(k[1]) /\ Upload(k)' = Upload(k)
        BY <3>1, SameParts, UploadOfClient
      <3>3. \A k \in Conns : Exchange(k)'
        BY <3>1, <3>2, ExchangeKept DEF IInv, Exchanges
      <3> QED BY <3>2, <3>3 DEF Exchanges
    <2> QED BY <1>1, <2>1, ExchangesOfMain, ExchangesOfThread, ExchangesOfServer,
                ExchangesOfKill DEF Next, Idle
  <1> QED BY <1>1, <1>2, <1>3 DEF IInv

LEMMA Invariance == Spec => []IInv
  BY InitInv, StepInv, PTL DEF Spec

\* The variables have their types.
THEOREM TypeCorrect == Spec => []TypeOK
  <1>1. IInv => TypeOK
    BY DEF IInv
  <1> QED BY <1>1, Invariance, PTL

-----------------------------------------------------------------------------
(* One upload for a part.                                                  *)

\* A part is as far as it was, or less is left of it.
LEMMA OneUploadKept ==
  ASSUME NEW k, OneUpload(k),
         Downloads(k)' = Downloads(k), EndUnderWay(k)' => EndUnderWay(k),
         Upload(k)' = Upload(k), up'[Server(k)'] => up[Server(k)],
         thread'[k] \in {"none", "request"} => thread[k] \in {"none", "request"},
         thread'[k] = "done" => thread[k] = "done" \/ EndUnderWay(k) \/ ~up[Server(k)]
  PROVE  OneUpload(k)'
  <1> DEFINE D == Downloads(k)
             E == EndUnderWay(k)
  <1>1. /\ \A i, j \in D : i = j
        /\ Upload(k) # None \/ E => D = {}
        /\ E => Upload(k) = None /\ thread[k] \notin {"none", "request"}
        /\ thread[k] = "done" /\ up[Server(k)] => Upload(k) = None /\ D = {}
    BY DEF OneUpload
  <1>2. OneUpload(k)' <=>
          /\ \A i, j \in D' : i = j
          /\ Upload(k)' # None \/ E' => D' = {}
          /\ E' => Upload(k)' = None /\ thread'[k] \notin {"none", "request"}
          /\ thread'[k] = "done" /\ up'[Server(k)'] => Upload(k)' = None /\ D' = {}
    BY DEF OneUpload
  <1>3. D' = D /\ (E' => E)
    OBVIOUS
  <1>4. thread'[k] = "done" => thread[k] = "done" \/ E \/ ~up[Server(k)]
    OBVIOUS
  <1> HIDE DEF D, E
  <1> QED BY <1>1, <1>2, <1>3, <1>4

\* Requests that are not for a part, and answers that are read, change neither.
LEMMA DownloadsKept ==
  ASSUME NEW k, NEW r \in ToServer, r.cmd # "DWN", requests[k] \in Seq(ToServer),
         requests'[k] \in {requests[k], Append(requests[k], r)}
  PROVE  Downloads(k)' = Downloads(k)
  <1> DEFINE D(s) == {i \in DOMAIN s : s[i].cmd = "DWN"}
  <1>1. Downloads(k) = D(requests[k]) /\ Downloads(k)' = D(requests'[k])
    BY DEF Downloads
  <1>2. D(Append(requests[k], r)) = D(requests[k])
    <2> DEFINE s == requests[k]
               e == Append(s, r)
    <2>1. /\ DOMAIN e = 1 .. Len(s) + 1 /\ DOMAIN s = 1 .. Len(s) /\ Len(s) \in Nat
          /\ \A i \in DOMAIN s : e[i] = s[i]
          /\ e[Len(s) + 1] = r
          /\ \A i \in DOMAIN e : i \in DOMAIN s \/ i = Len(s) + 1
      BY OneMore
    <2> HIDE DEF e, s
    <2>2. \A i \in DOMAIN s : i \in DOMAIN e
      BY <2>1
    <2>3. \A i : i \in D(e) <=> i \in D(s)
      BY <2>1, <2>2
    <2>4. D(e) = D(s)
      BY <2>3
    <2> QED BY <2>4 DEF e, s
  <1> QED BY <1>1, <1>2
LEMMA EndsKept ==
  ASSUME NEW k, responses[k] \in Seq(ToClient),
         \/ responses'[k] = responses[k]
         \/ responses[k] # << >> /\ responses'[k] = Tail(responses[k])
  PROVE  EndUnderWay(k)' => EndUnderWay(k)
  <1>1. Data' = Data
    BY DEF Data
  <1>2. CASE responses'[k] = responses[k]
    BY <1>1, <1>2 DEF EndUnderWay
  <1>3. CASE responses[k] # << >> /\ responses'[k] = Tail(responses[k])
    <2>1. \A i \in DOMAIN responses'[k] : /\ i + 1 \in DOMAIN responses[k]
                                        /\ responses'[k][i] = responses[k][i + 1]
      BY <1>3, OneLess
    <2> QED BY <1>1, <2>1 DEF EndUnderWay
  <1> QED BY <1>2, <1>3

\* Main, and a client that is killed, ask for no part; they end one only for
\* threads that never come to it.
LEMMA OneUploadOfMain ==
  ASSUME IInv, TypeOK', Sized', OneUploads, NEW c \in Clients, Main(c) \/ Kill(c)
  PROVE  OneUploads'
  <1>1. TypeOK /\ Sized /\ Started /\ Results
    BY DEF IInv
  <1>2. UNCHANGED <<scene, up, serving, upload>>
    BY KillFrame DEF Main, Connect, CheckFile, ReadAnswer, OpenResult, CombinePart, CombineEnd,
                     server
  <1>3. Conns' = Conns /\ \A k : Upload(k)' = Upload(k) /\ Server(k)' = Server(k)
    BY <1>2, UploadOfClient DEF Conns, Server
  <1>4. ASSUME NEW k \in Conns PROVE OneUpload(k)'
    <2>1. OneUpload(k) /\ requests[k] \in Seq(ToServer) /\ responses[k] \in Seq(ToClient)
      BY <1>1 DEF OneUploads, TypeOK
    <2>2. PICK r \in ToServer :
            r.cmd # "DWN" /\ requests'[k] \in {requests[k], Append(requests[k], r)}
      <3>1. \A cmd \in {"CHK", "BYE", "EOF"} :
              Package(cmd) \in ToServer /\ Package(cmd).cmd # "DWN"
        BY DEF Package, ToServer
      <3>2. \/ UNCHANGED requests \/ Ask(First(c), Package("CHK"))
            \/ AskAll(c, Package("BYE")) \/ AskAll(c, Package("EOF"))
        BY KillFrame DEF Main, Connect, CheckFile, ReadAnswer, OpenResult, CombinePart,
                         CombineEnd
      <3>3. CASE UNCHANGED requests
        BY <3>1, <3>3
      <3>4. CASE Ask(First(c), Package("CHK"))
        <4>1. requests' = [requests EXCEPT ![First(c)] = Append(@, Package("CHK"))]
          BY <3>4 DEF Ask
        <4>2. requests'[k] \in {requests[k], Append(requests[k], Package("CHK"))}
          BY <1>1, <4>1 DEF TypeOK
        <4> QED BY <3>1, <4>2
      <3>5. ASSUME NEW cmd \in {"BYE", "EOF"}, AskAll(c, Package(cmd))
            PROVE  requests'[k] \in {requests[k], Append(requests[k], Package(cmd))}
        BY <3>5 DEF AskAll
      <3> QED BY <3>1, <3>2, <3>3, <3>4, <3>5
    <2>3. Downloads(k)' = Downloads(k)
      BY <2>1, <2>2, DownloadsKept
    <2>4. EndUnderWay(k)' => EndUnderWay(k)
      <3>1. \/ UNCHANGED responses
            \/ /\ responses[First(c)] # << >>
               /\ responses' = [responses EXCEPT ![First(c)] = Tail(@)]
        BY KillFrame DEF Main, Connect, CheckFile, ReadAnswer, OpenResult, CombinePart,
                         CombineEnd
      <3>2. \/ responses'[k] = responses[k]
            \/ responses[k] # << >> /\ responses'[k] = Tail(responses[k])
        <4>1. responses \in [Conns -> Seq(ToClient)]
          BY <1>1 DEF TypeOK
        <4>2. CASE k = First(c)
          BY <3>1, <4>1, <4>2
        <4>3. CASE k # First(c)
          BY <3>1, <4>1, <4>3
        <4> QED BY <4>2, <4>3
      <3>3. responses[k] \in Seq(ToClient)
        BY <2>1
      <3> QED BY <3>2, <3>3, EndsKept
    <2>5. \/ thread'[k] \in {thread[k], "gone"}
          \/ thread'[k] = "request" /\ thread[k] = "none"
      <3>1. CASE ReadAnswer(c)
        <4>1. /\ pc[c] = "answer"
              /\ thread'[k] = thread[k] \/ (k \in ValidConns(c) /\ thread'[k] = "request")
          BY <3>1 DEF ReadAnswer
        <4>2. k \in ValidConns(c) => k[1] = c
          BY <1>1, ValidTypes
        <4> QED BY <1>1, <4>1, <4>2 DEF Started
      <3>2. CASE ~ReadAnswer(c)
        BY <3>2, KillFrame DEF Main, Connect, CheckFile, OpenResult, CombinePart, CombineEnd
      <3> QED BY <3>1, <3>2
    <2>6. /\ thread'[k] \in {"none", "request"} => thread[k] \in {"none", "request"}
          /\ thread'[k] = "done" => thread[k] = "done"
      BY <2>5
    <2> QED BY <1>2, <1>3, <2>1, <2>3, <2>4, <2>6, OneUploadKept
  <1> QED BY <1>3, <1>4 DEF OneUploads

\* A thread asks for its part once, and reads its end once.
LEMMA OneUploadOfThread ==
  ASSUME IInv, TypeOK', Sized', OneUploads, NEW k \in Conns, Thread(k)
  PROVE  OneUploads'
  <1>1. TypeOK /\ Sized /\ Exchange(k) /\ OneUpload(k)
    BY DEF IInv, Exchanges, OneUploads
  <1>2. UNCHANGED <<scene, up, serving, upload>>
    BY DEF Thread, Request, Name, OpenPart, Receive, ReceiveHead, ReceiveTail, EndOfStream,
           server
  <1>3. Conns' = Conns /\ \A t : Upload(t)' = Upload(t) /\ Server(t)' = Server(t)
    BY <1>2, UploadOfClient DEF Conns, Server
  <1>4. ASSUME NEW t \in Conns, t # k PROVE OneUpload(t)'
    <2>1. /\ thread'[t] = thread[t] /\ requests'[t] = requests[t]
          /\ responses'[t] = responses[t]
      <3>1. CASE Request(k) \/ Name(k) \/ OpenPart(k)
        BY <1>1, <1>4, <3>1 DEF Request, Name, OpenPart, Goto, Ask, TypeOK
      <3>2. CASE Receive(k) \/ ReceiveHead(k)
        BY <1>1, <1>4, <3>2 DEF Receive, ReceiveHead, Goto, TypeOK
      <3>3. CASE ReceiveTail(k) \/ EndOfStream(k)
        BY <1>1, <1>4, <3>3 DEF ReceiveTail, EndOfStream, Goto, TypeOK
      <3> QED BY <3>1, <3>2, <3>3 DEF Thread
    <2>2. OneUpload(t) /\ Downloads(t)' = Downloads(t) /\ EndUnderWay(t)' = EndUnderWay(t)
      BY <2>1 DEF OneUploads, Downloads, EndUnderWay, Data
    <2> QED BY <1>2, <1>3, <2>1, <2>2, OneUploadKept
  <1>5. ASSUME Request(k) PROVE OneUpload(k)'
    <2> DEFINE r == [cmd |-> "DWN", file |-> target[k[1]], start |-> FileStart(k),
                     end |-> FileEnd(k)]
    <2>1. /\ requests[k] = << >> /\ Upload(k) = None /\ thread[k] = "request"
          /\ ~EndUnderWay(k)
      BY <1>1, <1>5 DEF Request, Exchange, Asking, OneUpload
    <2>2. requests' = [requests EXCEPT ![k] = Append(@, r)] /\ UNCHANGED responses
          /\ thread'[k] = "name"
      BY <1>1, <1>5 DEF Request, Ask, Goto, TypeOK
    <2> HIDE DEF r
    <2>3. requests'[k] = <<r>>
      <3>1. requests'[k] = Append(<< >>, r)
        BY <1>1, <2>1, <2>2 DEF TypeOK
      <3>2. Append(<< >>, r) = <<r>>
        OBVIOUS
      <3> QED BY <3>1, <3>2
    <2>4. \A i, j \in Downloads(k)' : i = j
      BY <2>3 DEF Downloads
    <2>5. ~EndUnderWay(k)'
      BY <2>1, <2>2 DEF EndUnderWay, Data
    <2> QED BY <1>3, <2>1, <2>2, <2>4, <2>5 DEF OneUpload
  <1>6. ASSUME Name(k) \/ OpenPart(k) PROVE OneUpload(k)'
    <2>1. /\ UNCHANGED <<requests, responses>> /\ thread'[k] \in {"open", "receive"}
      BY <1>1, <1>6 DEF Name, OpenPart, Goto, TypeOK
    <2>2. Downloads(k)' = Downloads(k) /\ EndUnderWay(k)' = EndUnderWay(k)
      BY <2>1 DEF Downloads, EndUnderWay, Data
    <2> QED BY <1>1, <1>2, <1>3, <2>1, <2>2, OneUploadKept
  <1>7. ASSUME Receives(k) PROVE OneUpload(k)'
    <2>1. /\ UNCHANGED requests
          /\ thread[k] = "receive" /\ (UNCHANGED thread \/ Goto(k, "done"))
      BY <1>7, ReceiveFrame
    <2>2. responses[k] \in Seq(ToClient)
      BY <1>1 DEF TypeOK
    <2>3. EndUnderWay(k)' => EndUnderWay(k)
      <3>1. \/ UNCHANGED responses
            \/ responses[k] # << >> /\ responses' = [responses EXCEPT ![k] = Tail(@)]
        BY <1>7 DEF Receives, Receive, ReceiveHead, ReceiveTail, EndOfStream
      <3>2. \/ responses'[k] = responses[k]
            \/ responses[k] # << >> /\ responses'[k] = Tail(responses[k])
        BY <1>1, <3>1 DEF TypeOK
      <3> QED BY <2>2, <3>2, EndsKept
    <2>4. thread'[k] \in {"receive", "done"}
      BY <1>1, <2>1 DEF Goto, TypeOK
    <2>5. ASSUME thread'[k] = "done" PROVE EndUnderWay(k) \/ ~up[Server(k)]
      <3>1. \/ ~up[Server(k)]
            \/ ~skew[k] /\ responses[k] # << >> /\ Head(responses[k]).is_end
        BY <1>1, <1>7, <2>1, <2>5 DEF Receives, Receive, ReceiveHead, ReceiveTail, EndOfStream
      <3>2. CASE ~skew[k] /\ responses[k] # << >> /\ Head(responses[k]).is_end
        <4>1. 1 \in DOMAIN responses[k] /\ Head(responses[k]) = responses[k][1]
          BY <2>2, <3>2, OneLess
        <4>2. responses[k][1] \in Data
          BY <1>1, <2>1, <3>2, <4>1 DEF Exchange, Running
        <4> QED BY <3>2, <4>1, <4>2 DEF EndUnderWay
      <3> QED BY <3>1, <3>2
    <2>6. Downloads(k)' = Downloads(k)
      BY <2>1 DEF Downloads
    <2> QED BY <1>1, <1>2, <1>3, <2>1, <2>3, <2>4, <2>5, <2>6, OneUploadKept
  <1>8. OneUpload(k)'
    BY <1>5, <1>6, <1>7 DEF Thread, Receives
  <1> QED BY <1>3, <1>4, <1>8 DEF OneUploads

\* A server takes a request for an upload, and an upload for its end.
LEMMA OneUploadOfServer ==
  ASSUME IInv, TypeOK', Sized', OneUploads, NEW s \in Servers, Serve(s) \/ Die(s)
  PROVE  OneUploads'
  <1>1. TypeOK /\ Sized /\ Exchanges
    BY DEF IInv
  <1>2. UNCHANGED <<scene, sockets, thread>>
    BY ServerFrame
  <1>3. Conns' = Conns /\ \A k : Server(k)' = Server(k)
    BY <1>2, SameParts
  <1>4. \A t \in Servers : up'[t] => up[t]
    <2>1. UNCHANGED up \/ up' = [up EXCEPT ![s] = FALSE]
      BY DEF Serve, Accept, HangUp, CheckResponse, StartUpload, SendPackage, BrokenPipe, Die,
             server
    <2> QED BY <1>1, <2>1 DEF TypeOK
  <1>5. ASSUME NEW k \in Conns PROVE OneUpload(k)'
    <2>1. /\ OneUpload(k) /\ Exchange(k) /\ k # None /\ Server(k) \in Servers
          /\ requests[k] \in Seq(ToServer) /\ responses[k] \in Seq(ToClient)
      BY <1>1, ConnTypes DEF OneUploads, Exchanges, TypeOK
    <2>2. up'[Server(k)'] => up[Server(k)]
      BY <1>3, <1>4, <2>1
    <2>3. ASSUME requests'[k] = requests[k], responses'[k] = responses[k],
                 Upload(k)' = Upload(k)
          PROVE  OneUpload(k)'
      <3>1. Downloads(k)' = Downloads(k) /\ EndUnderWay(k)' = EndUnderWay(k)
        BY <2>3 DEF Downloads, EndUnderWay, Data
      <3>2. thread'[k] = thread[k]
        BY <1>2
      <3> QED BY <2>1, <2>2, <2>3, <3>1, <3>2, OneUploadKept
    <2>4. CASE k # serving[s]
      BY <2>3, <2>4, UploadKept
    <2>5. CASE k = serving[s] /\ (BrokenPipe(s) \/ Die(s))
      <3>1. UNCHANGED <<requests, responses>>
        BY <2>5 DEF BrokenPipe, Die
      <3> QED BY <2>3, <2>5, <3>1, UploadKept
    <2>6. CASE k = serving[s] /\ Accept(s)
      BY <2>1, <2>6 DEF Accept
    <2>7. ASSUME k = serving[s], NEW cmds, Reads(s, cmds)
          PROVE  /\ requests[k] # << >> /\ 1 \in DOMAIN requests[k]
                 /\ requests[k][1].cmd \in cmds
                 /\ \A i \in Downloads(k)' : i \in Nat \ {0} /\ i + 1 \in Downloads(k)
      <3>1. /\ requests[k] # << >> /\ Head(requests[k]).cmd \in cmds
            /\ requests' = [requests EXCEPT ![k] = Tail(@)]
        BY <2>7 DEF Reads
      <3>2. requests'[k] = Tail(requests[k])
        BY <1>1, <3>1 DEF TypeOK
      <3>3. /\ 1 \in DOMAIN requests[k] /\ Head(requests[k]) = requests[k][1]
            /\ \A i \in DOMAIN requests'[k] : /\ i \in Nat \ {0} /\ i + 1 \in DOMAIN requests[k]
                                            /\ requests'[k][i] = requests[k][i + 1]
        BY <2>1, <3>1, <3>2, OneLess
      <3> QED BY <3>1, <3>3 DEF Downloads
    <2>8. CASE k = serving[s] /\ (HangUp(s) \/ CheckResponse(s))
      <3>1. PICK cmds : Reads(s, cmds)
        BY <2>8 DEF HangUp, CheckResponse
      <3>2. \A i \in Downloads(k)' : i \in Nat \ {0} /\ i + 1 \in Downloads(k)
        BY <2>7, <2>8, <3>1
      <3>3. \A i, j \in Downloads(k)' : i = j
        <4> TAKE i, j \in Downloads(k)'
        <4>1. i + 1 = j + 1 /\ i \in Nat /\ j \in Nat
          BY <2>1, <3>2 DEF OneUpload
        <4> QED BY <4>1
      <3>4. Downloads(k) = {} => Downloads(k)' = {}
        BY <3>2
      <3>5. EndUnderWay(k)' => EndUnderWay(k)
        <4>1. CASE HangUp(s)
          BY <4>1 DEF HangUp, EndUnderWay, Data
        <4>2. CASE CheckResponse(s)
          <5>1. PICK p \in ToClient : p \notin Data /\ responses'[k] = Append(responses[k], p)
            <6>1. PICK b \in BOOLEAN : Respond(k, [have |-> b])
              BY <2>8, <4>2 DEF CheckResponse
            <6>2. [have |-> b] \in ToClient
              BY DEF ToClient
            <6>3. [have |-> b] \notin Data
              <7>1. DOMAIN [have |-> b] = {"have"}
                OBVIOUS
              <7>2. \A q \in Data : "is_end" \in DOMAIN q
                BY DEF Data
              <7> QED BY <7>1, <7>2
            <6>4. responses'[k] = Append(responses[k], [have |-> b])
              BY <1>1, <6>1 DEF Respond, TypeOK
            <6> QED BY <6>2, <6>3, <6>4
          <5> QED BY <2>1, <5>1, OneMore DEF EndUnderWay, Data
        <4> QED BY <2>8, <4>1, <4>2
      <3>6. Upload(k)' = Upload(k)
        BY <2>8, UploadKept
      <3>7. thread'[k] = thread[k]
        BY <1>2
      <3> QED BY <2>1, <2>2, <3>3, <3>4, <3>5, <3>6, <3>7 DEF OneUpload
    <2>9. CASE k = serving[s] /\ StartUpload(s)
      <3>1. Reads(s, {"DWN"}) /\ UNCHANGED responses
        BY <2>9 DEF StartUpload
      <3>2. /\ 1 \in Downloads(k)
            /\ \A i \in Downloads(k)' : i \in Nat \ {0} /\ i + 1 \in Downloads(k)
        BY <2>7, <2>9, <3>1 DEF Downloads
      <3>3. Downloads(k)' = {}
        <4>1. ASSUME NEW i \in Downloads(k)' PROVE FALSE
          <5>1. i \in Nat \ {0} /\ i + 1 = 1
            BY <2>1, <3>2 DEF OneUpload
          <5> QED BY <5>1
        <4> QED BY <4>1
      <3>4. ~EndUnderWay(k) /\ (thread[k] = "done" => ~up[Server(k)])
        BY <2>1, <3>2 DEF OneUpload
      <3>5. ~EndUnderWay(k)'
        BY <3>1, <3>4 DEF EndUnderWay, Data
      <3>6. thread'[k] = thread[k]
        BY <1>2
      <3> QED BY <2>2, <3>3, <3>4, <3>5, <3>6 DEF OneUpload
    <2>10. CASE k = serving[s] /\ SendPackage(s)
      <3>1. /\ upload[s] # None /\ up[s] /\ UNCHANGED <<requests, serving>>
            /\ Upload(k) = upload[s] /\ Server(k) = s
        BY <2>10, UploadKept DEF SendPackage
      <3>2. /\ Downloads(k) = {} /\ ~EndUnderWay(k) /\ thread[k] # "done"
            /\ thread[k] \notin {"none", "request"}
        BY <2>1, <3>1 DEF OneUpload, Exchange, Asking
      <3>3. Downloads(k)' = {} /\ thread'[k] = thread[k]
        BY <1>2, <3>1, <3>2 DEF Downloads
      <3>4. Upload(k)' = upload'[s]
        BY <2>10, <3>1, UploadKept
      <3>5. PICK p \in ToClient :
              /\ responses'[k] = Append(responses[k], p)
              /\ p.is_end => upload'[s] = None
        <4> DEFINE cur == upload[s][1]
                   end == upload[s][2]
        <4>1. cur \in Nat /\ end \in Nat \cup {-1}
          BY <1>1, <3>1 DEF TypeOK
        <4>2. cur + PackageLength - 1 \in Nat
          BY <4>1, BufferSizeAssumption DEF PackageLength
        <4>3. \/ Respond(k, [content |-> Positions(cur, cur + PackageLength - 1),
                     is_end |-> FALSE])
              \/ /\ Respond(k, [content |-> Positions(cur, end), is_end |-> TRUE])
                 /\ upload'[s] = None
          BY <1>1, <2>10 DEF SendPackage, TypeOK
        <4> HIDE DEF cur, end
        <4>4. Positions(cur, cur + PackageLength - 1) \in Seq(Nat)
                /\ Positions(cur, end) \in Seq(Nat)
          BY <4>1, <4>2, PositionsTypes
        <4>5. \A f \in Seq(Nat), b \in BOOLEAN : [content |-> f, is_end |-> b] \in ToClient
          BY DEF ToClient
        <4>6. \A p : Respond(k, p) => responses'[k] = Append(responses[k], p)
          BY <1>1 DEF Respond, TypeOK
        <4>7. CASE Respond(k, [content |-> Positions(cur, cur + PackageLength - 1),
                     is_end |-> FALSE])
          <5>1. PICK p : p = [content |-> Positions(cur, cur + PackageLength - 1),
                              is_end |-> FALSE]
            OBVIOUS
          <5>2. p \in ToClient /\ ~p.is_end
            BY <4>4, <4>5, <5>1
          <5> QED BY <4>6, <4>7, <5>1, <5>2
        <4>8. CASE /\ Respond(k, [content |-> Positions(cur, end), is_end |-> TRUE])
                   /\ upload'[s] = None
          <5>1. PICK p : p = [content |-> Positions(cur, end), is_end |-> TRUE]
            OBVIOUS
          <5>2. p \in ToClient
            BY <4>4, <4>5, <5>1
          <5> QED BY <4>6, <4>8, <5>1, <5>2
        <4> QED BY <4>3, <4>7, <4>8
      <3>6. EndUnderWay(k)' => p.is_end
        BY <2>1, <3>2, <3>5, OneMore DEF EndUnderWay, Data
      <3> QED BY <3>2, <3>3, <3>4, <3>5, <3>6 DEF OneUpload
    <2> QED BY <2>4, <2>5, <2>6, <2>8, <2>9, <2>10 DEF Serve
  <1> QED BY <1>3, <1>5 DEF OneUploads

LEMMA OneUploadsInv == Spec => []OneUploads
  <1>1. ASSUME Init PROVE OneUploads
    <2>1. TypeOK
      BY <1>1, InitTypes
    <2>2. ASSUME NEW k \in Conns PROVE OneUpload(k)
      <3>1. /\ requests[k] = << >> /\ responses[k] = << >> /\ thread[k] = "none"
            /\ serving[Server(k)] = None /\ k # None
        BY <1>1, <2>1, ConnTypes DEF Init
      <3>2. Downloads(k) = {} /\ ~EndUnderWay(k)
        BY <3>1 DEF Downloads, EndUnderWay
      <3> QED BY <3>1, <3>2 DEF OneUpload
    <2> QED BY <2>2 DEF OneUploads
  <1>2. ASSUME IInv, OneUploads, [Next]_vars PROVE OneUploads'
    <2>1. TypeOK' /\ Sized'
      BY <1>2, StepTypes
    <2>2. CASE UNCHANGED vars
      <3>1. UNCHANGED <<scene, sockets, thread, requests, responses, up, serving, upload>>
        BY <2>2 DEF vars, client, server
      <3>2. Conns' = Conns /\ \A k : Server(k)' = Server(k) /\ Upload(k)' = Upload(k)
        BY <3>1, SameParts, UploadOfClient
      <3>3. \A k : Downloads(k)' = Downloads(k) /\ EndUnderWay(k)' = EndUnderWay(k)
        BY <3>1 DEF Downloads, EndUnderWay, Data
      <3>4. \A k \in Conns : OneUpload(k)'
        BY <1>2, <3>1, <3>2, <3>3, OneUploadKept DEF OneUploads
      <3> QED BY <3>2, <3>4 DEF OneUploads
    <2> QED BY <1>2, <2>1, <2>2, OneUploadOfMain, OneUploadOfThread, OneUploadOfServer
            DEF Next, Idle
  <1> QED BY <1>1, <1>2, Invariance, PTL DEF Spec

-----------------------------------------------------------------------------
(* Why servers go down.                                                    *)

\* A server that is down does nothing, and a client that is killed stays so.
LEMMA DownFrame ==
  ASSUME IInv, [Next]_vars
  PROVE  /\ scene' = scene
         /\ \A s \in Servers : ~up[s] => ~up'[s] /\ upload'[s] = upload[s]
                                                 /\ serving'[s] = serving[s]
         /\ \A c \in Clients : pc[c] = "killed" => pc'[c] = "killed"
  <1>1. TypeOK
    BY DEF IInv
  <1> DEFINE Kept == /\ scene' = scene
                     /\ \A s \in Servers : ~up[s] => /\ ~up'[s] /\ upload'[s] = upload[s]
                                                     /\ serving'[s] = serving[s]
                     /\ \A c \in Clients : pc[c] = "killed" => pc'[c] = "killed"
  <1>2. ASSUME NEW c \in Clients, Main(c) PROVE Kept
    <2>1. UNCHANGED <<scene, up, serving, upload>>
      BY <1>2 DEF Main, Connect, CheckFile, ReadAnswer, OpenResult, CombinePart, CombineEnd,
                  server
    <2>2. pc[c] # "killed" /\ \A d \in Clients \ {c} : pc'[d] = pc[d]
      <3>1. CASE Connect(c) \/ CheckFile(c) \/ ReadAnswer(c)
        BY <1>1, <3>1 DEF Connect, CheckFile, ReadAnswer, TypeOK
      <3>2. CASE OpenResult(c) \/ CombinePart(c) \/ CombineEnd(c)
        BY <1>1, <3>2 DEF OpenResult, CombinePart, CombineEnd, TypeOK
      <3> QED BY <1>2, <3>1, <3>2 DEF Main
    <2> QED BY <2>1, <2>2
  <1>3. ASSUME NEW c \in Clients, Kill(c) PROVE Kept
    BY <1>1, <1>3, KillFrame DEF TypeOK
  <1>4. ASSUME NEW k \in Conns, Thread(k) PROVE Kept
    BY <1>4 DEF Thread, Request, Name, OpenPart, Receive, ReceiveHead, ReceiveTail,
                EndOfStream, server
  <1>5. ASSUME NEW s \in Servers, Serve(s) \/ Die(s) PROVE Kept
    <2>1. up[s] /\ UNCHANGED <<scene, pc>>
      BY <1>5, ServerFrame DEF Serve, Accept, HangUp, CheckResponse, StartUpload, SendPackage,
                               BrokenPipe, Die, Reads
    <2>2. \A t \in Servers \ {s} :
            up'[t] = up[t] /\ upload'[t] = upload[t] /\ serving'[t] = serving[t]
      <3>1. CASE Accept(s) \/ HangUp(s) \/ CheckResponse(s)
        BY <1>1, <3>1 DEF Accept, HangUp, CheckResponse, server, TypeOK
      <3>2. CASE StartUpload(s) \/ SendPackage(s)
        BY <1>1, <3>2 DEF StartUpload, SendPackage, TypeOK
      <3>3. CASE BrokenPipe(s) \/ Die(s)
        BY <1>1, <3>3 DEF BrokenPipe, Die, TypeOK
      <3> QED BY <1>5, <3>1, <3>2, <3>3 DEF Serve
    <2> QED BY <2>1, <2>2
  <1>6. CASE UNCHANGED vars
    BY <1>6 DEF vars, client, server
  <1>7. Kept
    BY <1>2, <1>3, <1>4, <1>5, <1>6 DEF Next, Idle
  <1> QED BY <1>7

LEMMA DownInv == ASSUME IInv, OneUploads, DownExplained, [Next]_vars PROVE DownExplained'
  <1>1. TypeOK /\ Sized /\ Asked /\ TypeOK' /\ Sized' /\ Started /\ Served /\ Exchanges
    BY StepTypes DEF IInv
  <1> DEFINE Why(s) == \/ s \in scene.down \cup scene.mortal \cup scene.without
                       \/ scene.aliased /\ \E c \in Clients : PartNum(c) > 1
                       \/ upload[s] # None /\ pc[serving[s][1]] = "killed"
  <1>2. /\ DownExplained <=> \A s \in Servers : ~up[s] => Why(s)
        /\ DownExplained' <=> \A s \in Servers : ~up'[s] => Why(s)'
    BY DEF DownExplained
  <1>3. \A c \in Clients : PartNum(c) > 1 => PartNum(c)' > 1
    <2>1. ASSUME UNCHANGED <<scene, sockets>>
          PROVE  \A c \in Clients : PartNum(c) > 1 => PartNum(c)' > 1
      BY <2>1, SameParts
    <2>2. ASSUME NEW c \in Clients, Connect(c)
          PROVE  \A d \in Clients : PartNum(d) > 1 => PartNum(d)' > 1
      <3>1. /\ PartNum(c) <= PartNum(c)' /\ PartNum(c) \in Nat /\ PartNum(c)' \in Nat
            /\ \A d \in Clients \ {c} : PartNum(d)' = PartNum(d)
        BY <1>1, <2>2, ConnectParts
      <3> QED BY <3>1
    <2>3. ASSUME \A c \in Clients : ~Connect(c)
          PROVE  UNCHANGED <<scene, sockets>>
      <3>1. ASSUME NEW c \in Clients, Main(c) PROVE UNCHANGED <<scene, sockets>>
        BY <2>3, <3>1 DEF Main, CheckFile, ReadAnswer, OpenResult, CombinePart, CombineEnd
      <3>2. ASSUME NEW c \in Clients, Kill(c) PROVE UNCHANGED <<scene, sockets>>
        BY <3>2, KillFrame
      <3>3. ASSUME NEW k \in Conns, Thread(k) PROVE UNCHANGED <<scene, sockets>>
        BY <3>3 DEF Thread, Request, Name, OpenPart, Receive, ReceiveHead, ReceiveTail,
                    EndOfStream
      <3>4. ASSUME NEW s \in Servers, Serve(s) \/ Die(s) PROVE UNCHANGED <<scene, sockets>>
        BY <3>4, ServerFrame
      <3>5. CASE UNCHANGED vars
        BY <3>5 DEF vars, client
      <3> QED BY <3>1, <3>2, <3>3, <3>4, <3>5 DEF Next, Idle
    <2> QED BY <2>1, <2>2, <2>3
  <1>4. ASSUME NEW s \in Servers, s \in scene.down \cup scene.mortal \cup scene.without
                                  \/ (scene.aliased /\ \E c \in Clients : PartNum(c) > 1)
        PROVE  Why(s)'
    BY <1>3, <1>4, DownFrame
  <1>5. ASSUME NEW s \in Servers, ~up[s] PROVE Why(s)'
    <2>1. Why(s)
      BY <1>2, <1>5
    <2>2. CASE upload[s] # None /\ pc[serving[s][1]] = "killed"
      <3>1. serving[s] \in Conns
        BY <1>1, <2>2 DEF Served, TypeOK
      <3>2. serving[s][1] \in Clients
        BY <1>1, <3>1, ConnTypes
      <3> QED BY <1>5, <2>2, <3>2, DownFrame
    <2> QED BY <1>4, <2>1, <2>2
  <1>6. ASSUME NEW s \in Servers, BrokenPipe(s) PROVE Why(s)'
    <2>1. /\ upload[s] # None /\ up[s] /\ Ended(serving[s][1])
          /\ UNCHANGED <<pc, upload, serving>>
      BY <1>6 DEF BrokenPipe, client
    <2>2. PICK k \in Conns : k = serving[s]
      BY <1>1, <2>1 DEF Served, TypeOK
    <2>3. Upload(k) = upload[s] /\ Server(k) = s /\ Exchange(k) /\ OneUpload(k)
      <3>1. Server(k) = s
        BY <1>1, <2>1, <2>2 DEF Served
      <3>2. Exchange(k) /\ OneUpload(k)
        BY <1>1 DEF Exchanges, OneUploads
      <3> QED BY <2>2, <3>1, <3>2 DEF Upload
    <2>4. thread[k] \notin {"none", "done"}
      BY <2>1, <2>3 DEF Exchange, Asking, OneUpload
    <2>5. pc[k[1]] = "killed"
      BY <1>1, <2>1, <2>2, <2>4 DEF Started, Ended
    <2> QED BY <2>1, <2>2, <2>5
  <1>7. ASSUME NEW s \in Servers, StartUpload(s), up[s], ~up'[s] PROVE Why(s)'
    <2>1. Reads(s, {"DWN"})
      BY <1>7 DEF StartUpload
    <2>2. PICK k \in Conns : k = serving[s]
      BY <1>1, <2>1 DEF Reads, TypeOK
    <2>3. requests[k] # << >> /\ Head(requests[k]).cmd = "DWN" /\ requests[k] \in Seq(ToServer)
      BY <1>1, <2>1, <2>2 DEF Reads, TypeOK
    <2>4. Head(requests[k]) = requests[k][1] /\ 1 \in DOMAIN requests[k] /\ k[1] \in Clients
      BY <1>1, <2>3, DropFirst, NonEmptySeq, ConnTypes
    <2>5. requests[k][1].file # TheFile => scene.aliased /\ \E c \in Clients : PartNum(c) > 1
      BY <1>1, <2>3, <2>4 DEF Asked
    <2>6. requests[k][1].file # TheFile \/ s \in scene.without
      BY <1>7, <2>2, <2>4 DEF StartUpload
    <2> QED BY <1>4, <2>5, <2>6
  <1>8. ASSUME NEW s \in Servers, Die(s) PROVE Why(s)'
    BY <1>4, <1>8 DEF Die
  <1>9. ASSUME NEW s \in Servers, up[s], ~up'[s]
        PROVE  StartUpload(s) \/ BrokenPipe(s) \/ Die(s)
    <2>1. ~UNCHANGED up
      BY <1>9
    <2>2. PICK t \in Servers : Serve(t) \/ Die(t)
      BY <2>1, KillFrame DEF Next, Idle, vars, Main, Connect, CheckFile, ReadAnswer, OpenResult,
           CombinePart, CombineEnd, Thread, Request, Name, OpenPart, Receive, ReceiveHead,
           ReceiveTail, EndOfStream, server
    <2>3. /\ StartUpload(t) \/ BrokenPipe(t) \/ Die(t)
          /\ up' = [up EXCEPT ![t] = FALSE]
      BY <2>1, <2>2 DEF Serve, Accept, HangUp, CheckResponse, StartUpload, SendPackage,
                        BrokenPipe, Die, server
    <2>4. t = s
      BY <1>1, <1>9, <2>3 DEF TypeOK
    <2> QED BY <2>3, <2>4
  <1>10. ASSUME NEW s \in Servers, ~up'[s] PROVE Why(s)'
    BY <1>5, <1>6, <1>7, <1>8, <1>9, <1>10
  <1> HIDE DEF Why
  <1> QED BY <1>2, <1>10

\* A server goes down only by itself; because it does not have the file, or a
\* thread asked it for the name of an output file; or in the middle of a part,
\* because the client was killed that it is for.
THEOREM DownIsExplained == Spec => []DownExplained
  <1>1. Init => DownExplained
    BY DEF Init, DownExplained
  <1>2. IInv /\ OneUploads /\ DownExplained /\ [Next]_vars => DownExplained'
    BY DownInv
  <1> QED BY <1>1, <1>2, Invariance, OneUploadsInv, PTL DEF Spec

-----------------------------------------------------------------------------
(* Packages.                                                               *)

\* The position behind a full package.
LEMMA ReachedNext ==
  ASSUME NEW x \in Nat, NEW i \in Nat
  PROVE  /\ Step \in Nat \ {0} /\ BufferSize = Step + 1
         /\ x + i * Step \in Nat /\ x + 0 * Step = x
         /\ x + (i + 1) * Step = (x + i * Step) + Step
         /\ (x + Step) + i * Step = x + (i + 1) * Step
  <1>1. PICK d \in Nat \ {0} : d = Step /\ BufferSize = d + 1
    BY BufferSizeAssumption DEF Step
  <1>2. /\ x + i * d \in Nat /\ x + 0 * d = x
        /\ x + (i + 1) * d = (x + i * d) + d /\ (x + d) + i * d = x + (i + 1) * d
    BY <1>1
  <1> QED BY <1>1, <1>2

\* Where a package begins.
LEMMA ReachedTypes ==
  ASSUME TypeOK, Sized, NEW k \in Conns, Connected(k)
  PROVE  /\ Len(content[k]) \in Nat /\ Step \in Nat \ {0}
         /\ Reached(k, 0) = FileStart(k) + Len(content[k])
         /\ \A i \in Nat : /\ Reached(k, i) \in Nat /\ FileStart(k) <= Reached(k, i)
                           /\ Reached(k, i + 1) = Reached(k, i) + Step
  <1>1. Len(content[k]) \in Nat /\ FileStart(k) \in Nat
    BY RangeTypes, LenProperties DEF TypeOK, Bytes
  <1>2. PICK x \in Nat : x = FileStart(k) + Len(content[k])
    BY <1>1
  <1>3. \A i \in Nat : Reached(k, i) = x + i * Step
    BY <1>2 DEF Reached
  <1>4. ASSUME NEW i \in Nat
        PROVE  /\ Reached(k, i) \in Nat /\ FileStart(k) <= Reached(k, i)
               /\ Reached(k, i + 1) = Reached(k, i) + Step
    <2>1. /\ x + i * Step \in Nat /\ x <= x + i * Step
          /\ x + (i + 1) * Step = (x + i * Step) + Step
      <3>1. PICK d \in Nat : d = Step
        BY ReachedNext
      <3>2. i * d \in Nat /\ (i + 1) * d = i * d + d
        BY <3>1
      <3> QED BY <3>1, <3>2
    <2>2. i + 1 \in Nat /\ FileStart(k) <= x
      BY <1>1, <1>2
    <2>3. Reached(k, i) = x + i * Step /\ Reached(k, i + 1) = x + (i + 1) * Step
      BY <1>3, <2>2
    <2> QED BY <1>1, <1>2, <2>1, <2>2, <2>3
  <1>5. Reached(k, 0) = x /\ Step \in Nat \ {0}
    BY <1>3, ReachedNext
  <1> QED BY <1>1, <1>2, <1>4, <1>5

\* What the stage of a part depends on.
LEMMA StageKept ==
  ASSUME NEW k, Stage(k),
         FileStart(k)' = FileStart(k), FileEnd(k)' = FileEnd(k), Wanted(k)' = Wanted(k),
         Server(k)' = Server(k), up'[Server(k)] => up[Server(k)],
         content'[k] = content[k],
         \/ thread'[k] = thread[k]
         \/ thread[k] \in {"name", "open", "receive"}
                /\ thread'[k] \in {"name", "open", "receive"},
         \/ thread[k] \in {"none", "done", "gone"}
         \/ /\ requests'[k] = requests[k] /\ responses'[k] = responses[k]
            /\ Upload(k)' = Upload(k)
  PROVE  Stage(k)'
  <1>1. CASE thread[k] \in {"none", "done", "gone"}
    BY <1>1 DEF Stage
  <1>2. CASE thread[k] \notin {"none", "done", "gone"}
    <2>1. /\ requests'[k] = requests[k] /\ responses'[k] = responses[k]
          /\ Upload(k)' = Upload(k)
      BY <1>2
    <2>2. \A i : Reached(k, i)' = Reached(k, i)
      BY DEF Reached, Step
    <2>3. \A i : FullPackages(k, i)' <=> FullPackages(k, i)
      <3> TAKE i
      <3>1. \A n : Reached(k, n - 1)' = Reached(k, n - 1) /\ Reached(k, n)' = Reached(k, n)
        BY <2>2
      <3>2. FullPackages(k, i)' <=>
              \A n \in 1 .. i :
                /\ responses[k][n].content = Positions(Reached(k, n - 1), Reached(k, n) - 1)
                /\ ~responses[k][n].is_end
        BY <2>1, <3>1 DEF FullPackages, Positions
      <3> QED BY <3>2 DEF FullPackages
    <2>4. \A i : Begins(k, Reached(k, i))' <=> Begins(k, Reached(k, i))
      <3> TAKE i
      <3>1. Reached(k, i)' = Reached(k, i)
        BY <2>2
      <3>2. Begins(k, Reached(k, i))' <=>
              /\ (Reached(k, i)' - FileStart(k)') % Step = 0
              /\ Reached(k, i)' = FileStart(k)' \/ Reached(k, i)' < FileEnd(k)'
        BY DEF Begins, Step
      <3> QED BY <3>1, <3>2 DEF Begins
    <2>5. \A i : Sending(k, i) => Sending(k, i)'
      BY <2>1, <2>2, <2>3, <2>4 DEF Sending
    <2>6. \A i : Sent(k, i) => Sent(k, i)'
      <3> TAKE i
      <3>1. Reached(k, i)' = Reached(k, i)
        BY <2>2
      <3>2. Positions(Reached(k, i), FileEnd(k))' = Positions(Reached(k, i), FileEnd(k))
        BY <3>1 DEF Positions
      <3> QED BY <2>1, <2>3, <2>4, <3>1, <3>2 DEF Sent, Step
    <2>7. OnItsWay(k) => OnItsWay(k)'
      <3>1. Waiting(k) => Waiting(k)'
        BY <2>1 DEF Waiting
      <3>2. Refused(k) => Refused(k)'
        BY <2>1 DEF Refused
      <3> QED BY <2>1, <2>5, <2>6, <3>1, <3>2 DEF OnItsWay
    <2>8. Positions(FileStart(k), FileStart(k) + Len(content[k]) - 1)'
            = Positions(FileStart(k), FileStart(k) + Len(content[k]) - 1)
      BY DEF Positions
    <2> QED BY <1>2, <2>1, <2>7, <2>8 DEF Stage
  <1> QED BY <1>1, <1>2

\* Main starts the threads, and does not touch what they do.
LEMMA StagesOfMain ==
  ASSUME IInv, TypeOK', Sized', ~scene.short, Stages, NEW c \in Clients, Main(c)
  PROVE  Stages'
  <1>1. TypeOK /\ Sized /\ Started /\ Results /\ Exchanges
    BY DEF IInv
  <1>2. Conns' = Conns /\ scene' = scene /\ \A k : Server(k)' = Server(k)
    BY DEF Main, Connect, CheckFile, ReadAnswer, OpenResult, CombinePart, CombineEnd, Conns,
           Server
  <1>3. UNCHANGED <<serving, upload, up, content>>
    BY DEF Main, Connect, CheckFile, ReadAnswer, OpenResult, CombinePart, CombineEnd, server
  <1>4. \A k : Upload(k)' = Upload(k)
    BY <1>2, <1>3, UploadOfClient
  <1>5. UNCHANGED skew
    BY DEF Main, Connect, CheckFile, ReadAnswer, OpenResult, CombinePart, CombineEnd
  <1>6. ASSUME NEW k \in Conns PROVE Stage(k)'
    <2>1. Stage(k) /\ Exchange(k) /\ k[1] \in Clients /\ Server(k)' = Server(k)
      BY <1>1, <1>2, ConnTypes DEF Exchanges, Stages
    <2>2. ASSUME thread[k] = "none", thread'[k] = "none" PROVE Stage(k)'
      BY <1>3, <2>1, <2>2 DEF Stage
    <2>3. ASSUME UNCHANGED sockets, thread'[k] = thread[k],
                 \/ thread[k] \in {"none", "done", "gone"}
                 \/ requests'[k] = requests[k] /\ responses'[k] = responses[k]
          PROVE  Stage(k)'
      <3>1. FileStart(k)' = FileStart(k) /\ FileEnd(k)' = FileEnd(k) /\ Wanted(k)' = Wanted(k)
        BY <1>2, <2>3, SameRanges
      <3> QED BY <1>3, <1>4, <2>1, <2>3, <3>1, StageKept, Zenon
    <2>4. CASE Connect(c)
      <3>1. UNCHANGED <<thread, requests, responses>> /\ pc[c] = "connect"
        BY <2>4 DEF Connect
      <3>2. CASE k[1] = c
        BY <1>1, <2>2, <3>1, <3>2 DEF Started
      <3>3. CASE k[1] # c
        <4>1. PartNum(k[1])' = PartNum(k[1]) /\ Part(k)' = Part(k)
          BY <1>1, <2>1, <2>4, <3>3, ConnectParts
        <4>2. FileStart(k)' = FileStart(k) /\ FileEnd(k)' = FileEnd(k)
          BY <1>2, <4>1 DEF FileStart, FileEnd, single_part_length
        <4>3. Wanted(k)' = Wanted(k)
          BY <4>2 DEF Wanted, Overruns, LengthOf, Positions
        <4> QED BY <1>3, <1>4, <2>1, <3>1, <4>2, <4>3, StageKept, Zenon
      <3> QED BY <3>2, <3>3
    <2>5. CASE CheckFile(c)
      <3>1. /\ UNCHANGED <<responses, thread, sockets>> /\ pc[c] = "connect"
            /\ \/ UNCHANGED requests
               \/ /\ requests' = [requests EXCEPT ![First(c)] = Append(@, Package("CHK"))]
                  /\ Valid(c) # {}
        BY <2>5 DEF CheckFile, Ask
      <3>2. k[1] = c => thread[k] = "none"
        BY <1>1, <3>1 DEF Started
      <3>3. k[1] # c => requests'[k] = requests[k]
        <4>1. Valid(c) # {} => First(c)[1] = c /\ First(c) \in Conns
          BY <1>1, FirstTypes
        <4> QED BY <1>1, <3>1, <4>1 DEF TypeOK
      <3> QED BY <2>3, <3>1, <3>2, <3>3
    <2>6. CASE ReadAnswer(c)
      <3>1. UNCHANGED sockets /\ pc[c] = "answer" /\ Valid(c) # {}
        BY <1>1, <2>6 DEF ReadAnswer, Results
      <3>2. First(c) \in ValidConns(c) /\ First(c) \in Conns /\ First(c)[1] = c
        BY <1>1, <3>1, FirstTypes
      <3>3. CASE k[1] # c
        <4>1. k \notin ValidConns(c) /\ k # First(c)
          BY <1>1, <3>2, <3>3, ValidTypes
        <4>2. thread'[k] = thread[k] /\ responses'[k] = responses[k]
          BY <1>1, <2>6, <4>1 DEF ReadAnswer, TypeOK
        <4>3. requests'[k] = requests[k]
          BY <2>6, <4>1 DEF ReadAnswer, AskAll
        <4> QED BY <2>3, <3>1, <4>2, <4>3
      <3>4. CASE k[1] = c
        <4>1. thread[k] = "none"
          BY <1>1, <3>1, <3>4 DEF Started
        <4>2. thread'[k] = "none" \/ (thread'[k] = "request" /\ ~UNCHANGED thread)
          BY <1>1, <2>6, <4>1 DEF ReadAnswer, TypeOK
        <4>3. CASE thread'[k] = "request" /\ ~UNCHANGED thread
          <5>1. responses[First(c)] # << >>
                    /\ responses' = [responses EXCEPT ![First(c)] = Tail(@)]
            BY <2>6, <4>3 DEF ReadAnswer
          <5>2. responses'[k] = IF k = First(c) THEN Tail(responses[k]) ELSE responses[k]
            BY <1>1, <3>2, <5>1 DEF TypeOK
          <5>3. CASE k = First(c)
            <6>1. Len(responses[k]) = 1
              BY <2>1, <3>1, <3>4, <5>1, <5>3 DEF Exchange, Early
            <6>2. responses[k] \in Seq(ToClient)
              BY <1>1 DEF TypeOK
            <6>3. Tail(responses[k]) = << >>
              BY <6>1, <6>2, TakeOnly
            <6> QED BY <1>3, <2>1, <4>1, <4>3, <5>2, <5>3, <6>3 DEF Stage
          <5>4. CASE k # First(c)
            <6>1. responses[k] = << >>
              BY <2>1, <3>1, <3>4, <5>4 DEF Exchange, Early, Silent
            <6> QED BY <1>3, <2>1, <4>1, <4>3, <5>2, <5>4, <6>1 DEF Stage
          <5> QED BY <5>3, <5>4
        <4> QED BY <2>2, <4>1, <4>2, <4>3
      <3> QED BY <3>3, <3>4
    <2>7. CASE OpenResult(c) \/ CombinePart(c)
      <3>1. UNCHANGED <<requests, responses, thread, sockets>>
        BY <2>7 DEF OpenResult, CombinePart
      <3> QED BY <2>3, <3>1
    <2>8. CASE CombineEnd(c)
      <3>1. /\ UNCHANGED <<responses, thread, sockets>> /\ pc[c] = "combine"
            /\ requests' = [t \in Conns |-> IF t \in ValidConns(c)
                                            THEN Append(requests[t], Package("EOF"))
                                            ELSE requests[t]]
        BY <2>8 DEF CombineEnd, AskAll
      <3>2. k \in ValidConns(c) => thread[k] = "done"
        BY <1>1, <3>1 DEF Results
      <3>3. k \notin ValidConns(c) => requests'[k] = requests[k]
        BY <3>1
      <3> QED BY <2>3, <3>1, <3>2, <3>3
    <2> QED BY <2>4, <2>5, <2>6, <2>7, <2>8 DEF Main
  <1> QED BY <1>2, <1>5, <1>6 DEF Stages

\* What a file should hold.
LEMMA WantedTypes ==
  ASSUME TypeOK, Sized, NEW k \in Conns, Connected(k)
  PROVE  /\ Wanted(k) \in Bytes
         /\ Len(Wanted(k)) = (FileEnd(k) - FileStart(k) + 1) + (IF Overruns(k) THEN 1 ELSE 0)
         /\ \A n \in 1 .. FileEnd(k) - FileStart(k) + 1 : Wanted(k)[n] = FileStart(k) + n - 1
  <1>1. PICK i \in Nat, j \in Nat \cup {-1} :
          i = FileStart(k) /\ j = FileEnd(k) /\ i <= j + 1
    BY RangeTypes
  <1>r. PICK r : r = Positions(i, j)
    OBVIOUS
  <1>2. /\ r \in Bytes /\ Len(r) = IF i <= j + 1 THEN j - i + 1 ELSE 0
        /\ \A n \in 1 .. j - i + 1 : r[n] = i + n - 1
    BY <1>1, <1>r, PositionsTypes
  <1>3. Len(r) = j - i + 1 /\ Garbage \in Nat \cup {Garbage}
    BY <1>1, <1>2
  <1>4. Wanted(k) = IF Overruns(k) THEN Append(r, Garbage) ELSE r
    BY <1>1, <1>r DEF Wanted
  <1>5. /\ Append(r, Garbage) \in Seq(Nat \cup {Garbage}) /\ Len(Append(r, Garbage)) = Len(r) + 1
        /\ \A n \in 1 .. Len(r) : Append(r, Garbage)[n] = r[n]
    BY <1>2, <1>3, AppendProperties DEF Bytes
  <1>6. CASE Overruns(k)
    BY <1>1, <1>2, <1>3, <1>4, <1>5, <1>6 DEF Bytes
  <1>7. CASE ~Overruns(k)
    BY <1>1, <1>2, <1>3, <1>4, <1>7
  <1> QED BY <1>6, <1>7

\* Bytes from the start of a part are the beginning of what it should hold.
LEMMA BeginningOf ==
  ASSUME TypeOK, Sized, NEW k \in Conns, Connected(k),
         NEW f, NEW n \in Nat, f = Positions(FileStart(k), FileStart(k) + n - 1),
         FileStart(k) + n <= FileEnd(k) + 1
  PROVE  IsPrefix(f, Wanted(k))
  <1>1. PICK i \in Nat, j \in Nat \cup {-1} :
          i = FileStart(k) /\ j = FileEnd(k) /\ i <= j + 1
    BY RangeTypes
  <1>w. PICK w : w = Wanted(k)
    OBVIOUS
  <1>2. PICK m \in Nat \cup {-1} : m = i + n - 1
    OBVIOUS
  <1>3. /\ f \in Bytes /\ Len(f) = IF i <= m + 1 THEN m - i + 1 ELSE 0
        /\ \A o \in 1 .. m - i + 1 : f[o] = i + o - 1
    BY <1>1, <1>2, PositionsTypes
  <1>4. Len(f) = n /\ \A o \in 1 .. n : f[o] = i + o - 1
    BY <1>2, <1>3
  <1>5. /\ w \in Bytes /\ Len(w) >= j - i + 1 /\ \A o \in 1 .. j - i + 1 : w[o] = i + o - 1
    <2>1. /\ w \in Bytes /\ \A o \in 1 .. j - i + 1 : w[o] = i + o - 1
          /\ Len(w) = (j - i + 1) + (IF Overruns(k) THEN 1 ELSE 0)
      BY <1>1, <1>w, WantedTypes
    <2>2. PICK x \in Nat : x = j - i + 1
      BY <1>1
    <2>3. Len(w) = x + 1 \/ Len(w) = x + 0
      BY <2>1, <2>2
    <2> QED BY <2>1, <2>2, <2>3
  <1>6. n <= j - i + 1
    BY <1>1
  <1>7. Len(f) <= Len(w) /\ \A o \in 1 .. Len(f) : f[o] = w[o]
    <2>1. Len(w) \in Nat
      BY <1>5, LenProperties DEF Bytes
    <2>2. \A o \in 1 .. n : o \in 1 .. j - i + 1
      BY <1>1, <1>6
    <2>3. Len(f) <= Len(w)
      BY <1>1, <1>4, <1>5, <1>6, <2>1
    <2>4. \A o \in 1 .. n : f[o] = w[o]
      BY <1>4, <1>5, <2>2
    <2> QED BY <1>4, <2>3, <2>4
  <1> QED BY <1>w, <1>3, <1>5, <1>7, PrefixOf DEF Bytes

\* While its thread receives, a file does not reach beyond the end of the part.
LEMMA NotBehind ==
  ASSUME TypeOK, Sized, NEW k \in Conns, Connected(k), OnItsWay(k)
  PROVE  FileStart(k) + Len(content[k]) <= FileEnd(k) + 1
  <1>1. /\ Len(content[k]) \in Nat /\ FileStart(k) \in Nat /\ FileEnd(k) \in Nat \cup {-1}
        /\ FileStart(k) <= FileEnd(k) + 1
    BY ReachedTypes, RangeTypes
  <1>2. CASE Waiting(k) \/ Refused(k)
    <2>1. content[k] = << >> /\ Len(<< >>) = 0
      BY <1>2 DEF Waiting, Refused
    <2> QED BY <1>1, <2>1
  <1>3. ASSUME NEW i \in 0 .. Len(responses[k]), Begins(k, Reached(k, i))
        PROVE  FileStart(k) + Len(content[k]) <= FileEnd(k) + 1
    <2>1. i \in Nat
      <3>1. Len(responses[k]) \in Nat
        BY LenProperties DEF TypeOK
      <3> QED BY <3>1
    <2>2. Reached(k, i) = FileStart(k) \/ Reached(k, i) < FileEnd(k)
      BY <1>3 DEF Begins
    <2>3. Step \in Nat
      BY ReachedTypes
    <2>4. i * Step \in Nat
      BY <2>1, <2>3
    <2>5. PICK z \in Nat : z = i * Step
      BY <2>4
    <2>6. Reached(k, i) = FileStart(k) + Len(content[k]) + z
      BY <2>5 DEF Reached
    <2> QED BY <1>1, <2>2, <2>6
  <1> QED BY <1>2, <1>3 DEF OnItsWay, Sending, Sent

\* Joining and appending.
LEMMA JoinAppend ==
  ASSUME NEW S, NEW s \in Seq(S), NEW t \in Seq(S), NEW x \in S
  PROVE  s \o Append(t, x) = Append(s \o t, x)
  <1>1. PICK u, v, w : u = Append(t, x) /\ v = s \o t /\ w = s \o u
    OBVIOUS
  <1>2. /\ u \in Seq(S) /\ Len(u) = Len(t) + 1 /\ u[Len(t) + 1] = x
        /\ \A n \in 1 .. Len(t) : u[n] = t[n]
    BY <1>1, AppendProperties
  <1>3. /\ v \in Seq(S) /\ Len(v) = Len(s) + Len(t)
        /\ \A n \in 1 .. Len(s) : v[n] = s[n]
        /\ \A n \in 1 .. Len(t) : v[Len(s) + n] = t[n]
    BY <1>1, JoinLists
  <1>4. /\ w \in Seq(S) /\ Len(w) = Len(s) + Len(u)
        /\ \A n \in 1 .. Len(s) : w[n] = s[n]
        /\ \A n \in 1 .. Len(u) : w[Len(s) + n] = u[n]
    BY <1>1, <1>2, JoinLists
  <1>5. PICK z : z = Append(v, x)
    OBVIOUS
  <1>6. /\ z \in Seq(S) /\ Len(z) = Len(v) + 1 /\ z[Len(v) + 1] = x
        /\ \A n \in 1 .. Len(v) : z[n] = v[n]
    <2>1. v \in Seq(S)
      BY <1>3
    <2> QED BY <1>5, <2>1, AppendProperties
  <1>7. Len(s) \in Nat /\ Len(t) \in Nat
    BY LenProperties
  <1>8. ASSUME NEW n \in 1 .. Len(w) PROVE w[n] = z[n]
    <2>1. CASE n \in 1 .. Len(s)
      <3>1. n \in 1 .. Len(v)
        BY <1>3, <1>7, <2>1
      <3> QED BY <1>3, <1>4, <1>6, <2>1, <3>1
    <2>2. CASE n \notin 1 .. Len(s)
      <3>1. PICK o \in 1 .. Len(t) + 1 : n = Len(s) + o
        <4>1. n - Len(s) \in 1 .. Len(t) + 1 /\ n = Len(s) + (n - Len(s))
          BY <1>2, <1>4, <1>7, <2>2
        <4> QED BY <4>1
      <3>2. w[n] = u[o]
        BY <1>2, <1>4, <3>1
      <3>3. CASE o = Len(t) + 1
        BY <1>2, <1>3, <1>6, <3>1, <3>2, <3>3
      <3>4. CASE o # Len(t) + 1
        <4>1. o \in 1 .. Len(t) /\ n \in 1 .. Len(v)
          BY <1>3, <1>7, <3>1, <3>4
        <4> QED BY <1>2, <1>3, <1>6, <3>1, <3>2, <4>1
      <3> QED BY <3>3, <3>4
    <2> QED BY <2>1, <2>2
  <1>9. Len(w) = Len(z)
    BY <1>2, <1>3, <1>4, <1>6, <1>7
  <1>10. w = z
    BY <1>4, <1>6, <1>8, <1>9, SeqEqual
  <1> QED BY <1>1, <1>5, <1>10

\* A package is taken from the connection.
LEMMA Taken ==
  ASSUME TypeOK, NEW k \in Conns, Receive(k)
  PROVE  /\ responses[k] \in Seq(ToClient) /\ Len(responses[k]) \in Nat \ {0}
         /\ responses'[k] = Tail(responses[k]) /\ Len(responses'[k]) = Len(responses[k]) - 1
         /\ \A n \in 1 .. Len(responses[k]) - 1 : responses'[k][n] = responses[k][n + 1]
         /\ content'[k] = content[k] \o Printed(responses[k][1])
         /\ thread'[k] = IF responses[k][1].is_end THEN "done" ELSE "receive"
  <1>1. responses[k] # << >> /\ responses[k] \in Seq(ToClient) /\ thread[k] = "receive"
    BY DEF Receive, TypeOK
  <1>2. /\ Len(responses[k]) \in Nat \ {0} /\ Head(responses[k]) = responses[k][1]
        /\ Len(Tail(responses[k])) = Len(responses[k]) - 1
        /\ \A n \in 1 .. Len(responses[k]) - 1 : Tail(responses[k])[n] = responses[k][n + 1]
    BY <1>1, DropFirst
  <1>3. /\ responses' = [responses EXCEPT ![k] = Tail(@)]
        /\ content' = [content EXCEPT ![k] = @ \o Printed(responses[k][1])]
        /\ IF responses[k][1].is_end THEN thread' = [thread EXCEPT ![k] = "done"]
                                     ELSE UNCHANGED thread
    BY <1>2 DEF Receive, Goto
  <1>4. responses'[k] = Tail(responses[k])
    BY <1>3 DEF TypeOK
  <1>5. content'[k] = content[k] \o Printed(responses[k][1])
    BY <1>3 DEF TypeOK
  <1>6. thread'[k] = IF responses[k][1].is_end THEN "done" ELSE "receive"
    BY <1>1, <1>3 DEF TypeOK
  <1> QED BY <1>1, <1>2, <1>4, <1>5, <1>6

\* A thread writes a full package, which is not the last.
LEMMA FullTaken ==
  ASSUME TypeOK, Sized, NEW k \in Conns, Connected(k), UNCHANGED <<scene, sockets>>, Receive(k),
         content[k] = Positions(FileStart(k), FileStart(k) + Len(content[k]) - 1),
         NEW i \in Nat, FullPackages(k, i + 1), i + 1 <= Len(responses[k])
  PROVE  /\ thread'[k] = "receive" /\ FullPackages(k, i)'
         /\ content'[k] = Positions(FileStart(k), FileStart(k) + Len(content'[k]) - 1)
         /\ \A m \in Nat : Reached(k, m)' = Reached(k, m + 1)
  <1>1. PICK a \in Nat, q \in Nat : a = FileStart(k) /\ q = Reached(k, 0) /\ a <= q
    BY RangeTypes, ReachedTypes
  <1>2. Len(content[k]) = q - a /\ Len(content[k]) \in Nat
    <2>1. Len(content[k]) \in Nat /\ Reached(k, 0) = FileStart(k) + Len(content[k])
      BY ReachedTypes
    <2> QED BY <1>1, <2>1
  <1>3. Step \in Nat \ {0} /\ Reached(k, 1) = q + Step /\ BufferSize = Step + 1
    <2>1. 0 \in Nat /\ 0 + 1 = 1
      OBVIOUS
    <2>2. Reached(k, 0 + 1) = Reached(k, 0) + Step /\ Step \in Nat \ {0}
      BY <2>1, ReachedTypes
    <2>3. BufferSize = Step + 1
      BY BufferSizeAssumption DEF Step
    <2> QED BY <1>1, <2>1, <2>2, <2>3
  <1>4. /\ responses[k][1].content = Positions(q, q + Step - 1) /\ ~responses[k][1].is_end
    <2>1. 1 \in 1 .. i + 1 /\ 1 - 1 = 0
      OBVIOUS
    <2>2. /\ responses[k][1].content = Positions(Reached(k, 1 - 1), Reached(k, 1) - 1)
          /\ ~responses[k][1].is_end
      BY <2>1 DEF FullPackages
    <2> QED BY <1>1, <1>3, <2>1, <2>2
  <1>5. PICK d \in Nat \ {0} : d = Step
    BY <1>3
  <1>6. PICK f : f = Positions(q, q + d - 1)
    OBVIOUS
  <1>7. Len(f) = d
    <2>1. q + d - 1 \in Nat /\ q <= (q + d - 1) + 1 /\ (q + d - 1) - q + 1 = d
      BY <1>5
    <2> QED BY <1>6, <2>1, PositionsTypes
  <1>8. Printed(responses[k][1]) = f
    BY <1>3, <1>4, <1>5, <1>6, <1>7 DEF Printed
  <1>9. content'[k] = Positions(a, q + d - 1)
    <2>1. content'[k] = content[k] \o f
      BY <1>8, Taken
    <2>2. content[k] = Positions(a, q - 1)
      <3>1. FileStart(k) + Len(content[k]) - 1 = q - 1
        BY <1>1, <1>2
      <3> QED BY <1>1, <3>1
    <2>3. PICK m \in Nat \cup {-1} : m = q + d - 1 /\ q <= m + 1
      BY <1>5
    <2>4. Positions(a, q - 1) \o Positions(q, m) = Positions(a, m)
      BY <1>1, <2>3, PositionsJoin
    <2> QED BY <1>6, <2>1, <2>2, <2>3, <2>4
  <1>10. Len(content'[k]) = q + d - a
    <2>1. q + d - 1 \in Nat /\ a <= (q + d - 1) + 1 /\ (q + d - 1) - a + 1 = q + d - a
      BY <1>1, <1>5
    <2> QED BY <1>1, <1>9, <2>1, PositionsTypes
  <1>11. FileStart(k)' = a /\ Step' = d
    BY <1>1, <1>5, SameRanges DEF Step
  <1>12. ASSUME NEW m \in Nat PROVE Reached(k, m)' = Reached(k, m + 1)
    <2>1. Reached(k, m)' = a + (q + d - a) + m * d
      BY <1>10, <1>11 DEF Reached
    <2>2. Reached(k, m + 1) = a + (q - a) + (m + 1) * d
      BY <1>1, <1>2, <1>5 DEF Reached
    <2>3. (m + 1) * d = m * d + d /\ m * d \in Nat
      OBVIOUS
    <2>4. PICK z \in Nat : z = m * d /\ (m + 1) * d = z + d
      BY <2>3
    <2> QED BY <1>1, <2>1, <2>2, <2>4
  <1>13. FullPackages(k, i)'
    <2>1. ASSUME NEW n \in 1 .. i
          PROVE  /\ responses'[k][n].content = Positions(Reached(k, n - 1)', Reached(k, n)' - 1)
                 /\ ~responses'[k][n].is_end
      <3>1. Len(responses[k]) \in Nat
        BY Taken
      <3>2. n \in 1 .. Len(responses[k]) - 1 /\ n + 1 \in 1 .. i + 1 /\ (n + 1) - 1 = n
        BY <3>1
      <3>3. responses'[k][n] = responses[k][n + 1]
        BY <3>2, Taken
      <3>4. /\ responses[k][n + 1].content
                  = Positions(Reached(k, (n + 1) - 1), Reached(k, n + 1) - 1)
            /\ ~responses[k][n + 1].is_end
        BY <3>2 DEF FullPackages
      <3>5. n - 1 \in Nat /\ n \in Nat /\ (n - 1) + 1 = n
        OBVIOUS
      <3>6. Reached(k, n - 1)' = Reached(k, (n - 1) + 1) /\ Reached(k, n)' = Reached(k, n + 1)
        BY <1>12, <3>5
      <3> QED BY <3>2, <3>3, <3>4, <3>5, <3>6
    <2>2. FullPackages(k, i)' <=>
            \A n \in 1 .. i :
              /\ responses'[k][n].content = Positions(Reached(k, n - 1)', Reached(k, n)' - 1)
              /\ ~responses'[k][n].is_end
      BY DEF FullPackages, Positions
    <2> QED BY <2>1, <2>2
  <1>14. thread'[k] = "receive"
    BY <1>4, Taken
  <1>15. content'[k] = Positions(FileStart(k), FileStart(k) + Len(content'[k]) - 1)
    <2>1. FileStart(k) + Len(content'[k]) - 1 = q + d - 1
      BY <1>1, <1>5, <1>10
    <2> QED BY <1>1, <1>9, <2>1
  <1> QED BY <1>12, <1>13, <1>14, <1>15

\* A thread writes the last package.
LEMMA LastTaken ==
  ASSUME TypeOK, Sized, NEW k \in Conns, Connected(k), UNCHANGED <<scene, sockets>>, Receive(k),
         content[k] = Positions(FileStart(k), FileStart(k) + Len(content[k]) - 1),
         OnItsWay(k), Sent(k, 0)
  PROVE  thread'[k] = "done" /\ content'[k] = Wanted(k)
  <1>1. PICK a \in Nat, q \in Nat, e \in Nat \cup {-1} :
          /\ a = FileStart(k) /\ q = Reached(k, 0) /\ a <= q /\ e = FileEnd(k)
          /\ q <= e + 1 /\ Len(content[k]) = q - a
    <2>1. /\ FileStart(k) \in Nat /\ FileEnd(k) \in Nat \cup {-1} /\ Len(content[k]) \in Nat
          /\ Reached(k, 0) = FileStart(k) + Len(content[k])
          /\ FileStart(k) + Len(content[k]) <= FileEnd(k) + 1
      BY RangeTypes, ReachedTypes, NotBehind
    <2> QED BY <2>1
  <1>2. Len(content[k]) = q - a
    BY <1>1
  <1>3. PICK d \in Nat \ {0} : d = Step /\ BufferSize = d + 1
    BY BufferSizeAssumption DEF Step
  <1>4. PICK f : f = Positions(q, e)
    OBVIOUS
  <1>5. /\ responses[k][1].content = f /\ responses[k][1].is_end
        /\ Begins(k, q) /\ e - q <= d
    <2>1. 0 + 1 = 1
      OBVIOUS
    <2>2. /\ responses[k][0 + 1].content = Positions(Reached(k, 0), FileEnd(k))
          /\ responses[k][0 + 1].is_end
          /\ Begins(k, Reached(k, 0)) /\ FileEnd(k) - Reached(k, 0) <= Step
      BY DEF Sent
    <2> QED BY <1>1, <1>3, <1>4, <2>1, <2>2
  <1>6. f \in Seq(Nat) /\ Len(f) = e - q + 1
    BY <1>1, <1>4, PositionsTypes
  <1>7. PICK x \in Nat, n \in 0 .. d + 1 : x = q - a /\ n = e - q + 1
    <2>1. a <= q /\ q <= e + 1 /\ e - q <= d /\ e \in Int
      BY <1>1, <1>5
    <2>2. q - a \in Nat /\ e - q + 1 \in 0 .. d + 1
      BY <2>1
    <2> QED BY <2>2
  <1>8. x % d = 0 /\ (x = 0 \/ n > 1)
    <2>1. (q - a) % d = 0 /\ (q = a \/ q < e)
      BY <1>1, <1>3, <1>5 DEF Begins
    <2>2. q < e => n > 1
      BY <1>7
    <2>3. q = a => x = 0
      BY <1>7
    <2> QED BY <1>7, <2>1, <2>2, <2>3
  <1>9. n = d + 1 <=> x + n >= d + 1 /\ (x + n - (d + 1)) % d = 0
    BY <1>8, LastFull
  <1>10. Overruns(k) <=> n = d + 1
    <2>1. e - a + 1 = x + n
      BY <1>7
    <2>2. BufferSize = d + 1 /\ BufferSize - 1 = d
      BY <1>3
    <2>3. LengthOf(k) = e - a + 1
      BY <1>1 DEF LengthOf
    <2>4. Overruns(k) <=> x + n >= d + 1 /\ (x + n - (d + 1)) % d = 0
      BY <2>1, <2>2, <2>3 DEF Overruns
    <2> QED BY <1>9, <2>4
  <1>11. content[k] \o f = Positions(a, e)
    <2>1. content[k] = Positions(a, q - 1)
      <3>1. FileStart(k) + Len(content[k]) - 1 = q - 1
        BY <1>1, <1>2
      <3> QED BY <1>1, <3>1
    <2>2. Positions(a, q - 1) \o Positions(q, e) = Positions(a, e)
      BY <1>1, PositionsJoin
    <2> QED BY <1>4, <2>1, <2>2
  <1>12. content[k] \o Append(f, Garbage) = Append(content[k] \o f, Garbage)
    <2>1. /\ content[k] \in Seq(Nat \cup {Garbage}) /\ f \in Seq(Nat \cup {Garbage})
          /\ Garbage \in Nat \cup {Garbage}
      BY <1>6, SeqMonotonic DEF TypeOK, Bytes
    <2>2. PICK c : c = content[k]
      OBVIOUS
    <2>3. PICK T : T = Nat \cup {Garbage}
      OBVIOUS
    <2>4. c \in Seq(T) /\ f \in Seq(T) /\ Garbage \in T
      BY <2>1, <2>2, <2>3
    <2>5. c \o Append(f, Garbage) = Append(c \o f, Garbage)
      BY <2>4, JoinAppend
    <2> QED BY <2>2, <2>5
  <1>13. content'[k] = content[k] \o (IF n = d + 1 THEN Append(f, Garbage) ELSE f)
    <2>1. Printed(responses[k][1]) = IF n = d + 1 THEN Append(f, Garbage) ELSE f
      BY <1>3, <1>5, <1>6, <1>7 DEF Printed
    <2> QED BY <2>1, Taken
  <1>14. Wanted(k) = IF n = d + 1 THEN Append(Positions(a, e), Garbage) ELSE Positions(a, e)
    BY <1>1, <1>10 DEF Wanted
  <1>15. thread'[k] = "done"
    BY <1>5, Taken
  <1> QED BY <1>11, <1>12, <1>13, <1>14, <1>15

\* A package more is written.
LEMMA ReceiveStage ==
  ASSUME TypeOK, Sized, NEW k \in Conns, Connected(k), UNCHANGED <<scene, sockets>>, Receive(k),
         Stage(k), Upload(k)' = Upload(k), UNCHANGED <<requests, up>>
  PROVE  Stage(k)'
  <1>1. /\ thread[k] = "receive" /\ OnItsWay(k)
        /\ content[k] = Positions(FileStart(k), FileStart(k) + Len(content[k]) - 1)
    BY DEF Receive, Stage
  <1>2. Len(responses[k]) \in Nat \ {0} /\ responses[k] # << >>
    BY Taken DEF Receive
  <1>3. FileEnd(k)' = FileEnd(k) /\ FileStart(k)' = FileStart(k) /\ Wanted(k)' = Wanted(k)
    BY SameRanges
  <1>4. Step' = Step
    BY DEF Step
  <1>5. ASSUME NEW i \in Nat, FullPackages(k, i + 1), i + 1 <= Len(responses[k]),
               OnItsWay(k)'
        PROVE  Stage(k)'
    <2>1. /\ thread'[k] = "receive"
          /\ content'[k] = Positions(FileStart(k), FileStart(k) + Len(content'[k]) - 1)
      BY <1>1, <1>5, FullTaken
    <2>2. content'[k] = Positions(FileStart(k), FileStart(k) + Len(content[k]) - 1)'
      BY <1>3, <2>1 DEF Positions
    <2> QED BY <1>5, <2>1, <2>2 DEF Stage
  <1>6. ASSUME NEW i \in Nat, i + 1 <= Len(responses[k]), Sending(k, i + 1) PROVE Stage(k)'
    <2>1. /\ FullPackages(k, i + 1) /\ Begins(k, Reached(k, i + 1)) /\ requests[k] = << >>
          /\ Len(responses[k]) = i + 1 /\ Upload(k) = <<Reached(k, i + 1), FileEnd(k)>>
      BY <1>6 DEF Sending
    <2>2. FullPackages(k, i)' /\ Reached(k, i)' = Reached(k, i + 1)
      BY <1>1, <1>6, <2>1, FullTaken
    <2>3. Len(responses'[k]) = i
      <3>1. Len(responses'[k]) = Len(responses[k]) - 1
        BY Taken
      <3> QED BY <2>1, <3>1
    <2>4. Begins(k, Reached(k, i))'
      BY <1>3, <1>4, <2>1, <2>2 DEF Begins
    <2>5. Sending(k, i)'
      BY <1>3, <2>1, <2>2, <2>3, <2>4 DEF Sending
    <2>6. OnItsWay(k)'
      BY <2>3, <2>5 DEF OnItsWay
    <2> QED BY <1>5, <1>6, <2>1, <2>6
  <1>7. ASSUME NEW i \in Nat, i + 1 <= Len(responses[k]), Sent(k, i + 1) PROVE Stage(k)'
    <2>1. /\ FullPackages(k, i + 1) /\ Begins(k, Reached(k, i + 1)) /\ requests[k] = << >>
          /\ Len(responses[k]) = (i + 1) + 1 /\ Upload(k) = None
          /\ FileEnd(k) - Reached(k, i + 1) <= Step
          /\ responses[k][(i + 1) + 1].content = Positions(Reached(k, i + 1), FileEnd(k))
          /\ responses[k][(i + 1) + 1].is_end
      BY <1>7 DEF Sent
    <2>2. FullPackages(k, i)' /\ Reached(k, i)' = Reached(k, i + 1)
      BY <1>1, <1>7, <2>1, FullTaken
    <2>3. Len(responses'[k]) = i + 1
      <3>1. Len(responses'[k]) = Len(responses[k]) - 1
        BY Taken
      <3> QED BY <2>1, <3>1
    <2>4. Begins(k, Reached(k, i))'
      BY <1>3, <1>4, <2>1, <2>2 DEF Begins
    <2>5. responses'[k][i + 1] = responses[k][(i + 1) + 1]
      <3>1. i + 1 \in 1 .. Len(responses[k]) - 1
        BY <2>1
      <3> QED BY <3>1, Taken
    <2>6. Positions(Reached(k, i), FileEnd(k))' = Positions(Reached(k, i + 1), FileEnd(k))
      BY <1>3, <2>2 DEF Positions
    <2>7. FileEnd(k)' - Reached(k, i)' <= Step'
      BY <1>3, <1>4, <2>1, <2>2
    <2>8. Sent(k, i)'
      BY <1>3, <2>1, <2>2, <2>3, <2>4, <2>5, <2>6, <2>7 DEF Sent
    <2>9. OnItsWay(k)'
      <3>1. i \in 0 .. Len(responses'[k])
        BY <2>3
      <3> QED BY <2>8, <3>1 DEF OnItsWay
    <2> QED BY <1>5, <1>7, <2>1, <2>9
  <1>8. ~Sending(k, 0)
    BY <1>2 DEF Sending
  <1>9. CASE Sent(k, 0)
    <2>1. thread'[k] = "done" /\ content'[k] = Wanted(k)
      BY <1>1, <1>9, LastTaken
    <2>2. IsPrefix(Wanted(k), Wanted(k))
      <3>1. Wanted(k) \in Bytes
        BY WantedTypes
      <3>2. PICK w : w = Wanted(k)
        OBVIOUS
      <3>3. w \in Seq(Nat \cup {Garbage}) /\ Len(w) \in Nat
        BY <3>1, <3>2, LenProperties DEF Bytes
      <3>4. IsPrefix(w, w)
        BY <3>3, PrefixOf
      <3> QED BY <3>2, <3>4
    <2>3. IsPrefix(content[k], Wanted(k))' <=> IsPrefix(content'[k], Wanted(k))
      BY <1>3 DEF IsPrefix
    <2>4. IsPrefix(content[k], Wanted(k))' /\ content'[k] = Wanted(k)'
      BY <1>3, <2>1, <2>2, <2>3
    <2> QED BY <2>1, <2>4 DEF Stage
  <1>10. ~Waiting(k) /\ ~Refused(k)
    BY <1>2 DEF Waiting, Refused
  <1>11. PICK j \in 0 .. Len(responses[k]) : Sending(k, j) \/ Sent(k, j)
    BY <1>1, <1>10 DEF OnItsWay
  <1>12. CASE j = 0
    BY <1>8, <1>9, <1>11, <1>12
  <1>13. CASE j # 0
    <2>1. PICK i \in Nat : j = i + 1 /\ i + 1 <= Len(responses[k])
      <3>1. j - 1 \in Nat /\ j = (j - 1) + 1 /\ (j - 1) + 1 <= Len(responses[k])
        BY <1>2, <1>13
      <3> QED BY <3>1
    <2> QED BY <1>6, <1>7, <1>11, <2>1
  <1> QED BY <1>12, <1>13

\* Threads write what they receive.
LEMMA StagesOfThread ==
  ASSUME IInv, TypeOK', Sized', ~scene.short, Stages, NEW k \in Conns, Thread(k)
  PROVE  Stages'
  <1>1. TypeOK /\ Sized /\ Started /\ Exchanges /\ ~skew[k] /\ Stage(k) /\ Exchange(k)
    BY DEF IInv, Stages, Exchanges
  <1>2. UNCHANGED <<scene, sockets, up, serving, upload>>
    BY DEF Thread, Request, Name, OpenPart, Receive, ReceiveHead, ReceiveTail, EndOfStream,
           server
  <1>3. Conns' = Conns /\ \A t : Upload(t)' = Upload(t) /\ Server(t)' = Server(t)
    BY <1>2, SameParts, UploadOfClient
  <1>4. \A t : FileStart(t)' = FileStart(t) /\ FileEnd(t)' = FileEnd(t) /\ Wanted(t)' = Wanted(t)
    BY <1>2, SameRanges
  <1>5. ~ReceiveHead(k) /\ ~ReceiveTail(k)
    BY <1>1 DEF ReceiveHead, ReceiveTail
  <1>6. UNCHANGED skew
    BY <1>5 DEF Thread, Request, Name, OpenPart, Receive, EndOfStream
  <1>7. Connected(k)
    BY <1>1 DEF Thread, Request, Name, OpenPart, Receive, ReceiveHead, ReceiveTail, EndOfStream,
                Started
  <1>8. ASSUME NEW t \in Conns, t # k PROVE Stage(t)'
    <2>1. /\ thread'[t] = thread[t] /\ requests'[t] = requests[t]
          /\ responses'[t] = responses[t] /\ content'[t] = content[t]
      <3>1. CASE Request(k) \/ Name(k) \/ OpenPart(k)
        BY <1>1, <1>8, <3>1 DEF Request, Name, OpenPart, Goto, Ask, TypeOK
      <3>2. CASE Receive(k)
        BY <1>1, <1>8, <3>2 DEF Receive, Goto, TypeOK
      <3>3. CASE EndOfStream(k)
        BY <1>1, <1>8, <3>3 DEF EndOfStream, Goto, TypeOK
      <3> QED BY <1>5, <3>1, <3>2, <3>3 DEF Thread
    <2>2. Stage(t)
      BY DEF Stages
    <2> QED BY <1>2, <1>3, <1>4, <2>1, <2>2, StageKept, Zenon
  <1>9. ASSUME Request(k) PROVE Stage(k)'
    <2> DEFINE r == [cmd |-> "DWN", file |-> target[k[1]], start |-> FileStart(k),
                     end |-> FileEnd(k)]
    <2>1. /\ requests[k] = << >> /\ Upload(k) = None /\ responses[k] = << >>
          /\ content[k] = << >>
      BY <1>1, <1>9 DEF Request, Exchange, Asking, Stage
    <2>2. /\ r.cmd = "DWN" /\ r.start = FileStart(k) /\ r.end = FileEnd(k)
      OBVIOUS
    <2>3. /\ requests' = [requests EXCEPT ![k] = Append(@, r)]
          /\ UNCHANGED <<responses, content>>
          /\ thread' = [thread EXCEPT ![k] = "name"]
      BY <1>9 DEF Request, Ask, Goto
    <2> HIDE DEF r
    <2>4. requests'[k] = <<r>> /\ thread'[k] = "name"
      <3>1. requests'[k] = Append(<< >>, r) /\ thread'[k] = "name"
        BY <1>1, <2>1, <2>3 DEF TypeOK
      <3>2. Append(<< >>, r) = <<r>>
        OBVIOUS
      <3> QED BY <3>1, <3>2
    <2>5. Len(<<r>>) = 1 /\ <<r>>[1] = r
      OBVIOUS
    <2>6. Waiting(k)'
      BY <1>3, <1>4, <2>1, <2>2, <2>3, <2>4, <2>5 DEF Waiting
    <2>7. content'[k] = Positions(FileStart(k), FileStart(k) + Len(content[k]) - 1)'
      <3>1. PICK i \in Nat : i = FileStart(k)
        BY <1>1, <1>7, RangeTypes
      <3>2. PICK f : f = Positions(i, i - 1)
        OBVIOUS
      <3>3. i - 1 \in Nat \cup {-1} /\ i <= (i - 1) + 1 /\ (i - 1) - i + 1 = 0
        OBVIOUS
      <3>4. f \in Seq(Nat) /\ Len(f) = 0
        BY <3>2, <3>3, PositionsTypes
      <3>5. f = << >>
        BY <3>4, EmptySeq
      <3>6. content'[k] = << >> /\ Len(<< >>) = 0 /\ i + 0 - 1 = i - 1
        BY <2>1, <2>3
      <3>7. Positions(FileStart(k), FileStart(k) + Len(content[k]) - 1)'
              = Positions(i, i + Len(content'[k]) - 1)
        BY <1>4, <3>1 DEF Positions
      <3> QED BY <3>2, <3>5, <3>6, <3>7
    <2>8. OnItsWay(k)'
      BY <2>6 DEF OnItsWay
    <2>9. thread'[k] \notin {"none", "request", "done", "gone"}
      BY <2>4
    <2> QED BY <2>7, <2>8, <2>9 DEF Stage
  <1>10. ASSUME Name(k) \/ OpenPart(k) PROVE Stage(k)'
    <2>1. UNCHANGED <<requests, responses, content>> /\ thread[k] \in {"name", "open", "receive"}
      BY <1>10 DEF Name, OpenPart
    <2>2. thread'[k] \in {"name", "open", "receive"}
      BY <1>1, <1>10 DEF Name, OpenPart, Goto, TypeOK
    <2>3. /\ requests'[k] = requests[k] /\ responses'[k] = responses[k]
          /\ content'[k] = content[k]
          /\ up'[Server(k)] => up[Server(k)]
      BY <1>2, <2>1
    <2> QED BY <1>1, <1>3, <1>4, <2>1, <2>2, <2>3, StageKept
  <1>11. ASSUME Receive(k) PROVE Stage(k)'
    <2>1. UNCHANGED <<requests, up>>
      BY <1>11 DEF Receive, server
    <2>2. UNCHANGED <<scene, sockets>> /\ Upload(k)' = Upload(k)
      BY <1>2, <1>3
    <2> QED BY <1>1, <1>7, <1>11, <2>1, <2>2, ReceiveStage
  <1>12. ASSUME EndOfStream(k) PROVE Stage(k)'
    <2>1. /\ thread[k] = "receive" /\ ~up[Server(k)] /\ UNCHANGED content
          /\ thread'[k] = "done"
      BY <1>1, <1>12 DEF EndOfStream, Goto, TypeOK
    <2>2. /\ content[k] = Positions(FileStart(k), FileStart(k) + Len(content[k]) - 1)
          /\ OnItsWay(k)
      BY <1>1, <2>1 DEF Stage
    <2>3. Len(content[k]) \in Nat /\ FileStart(k) + Len(content[k]) <= FileEnd(k) + 1
      BY <1>1, <1>7, <2>2, ReachedTypes, NotBehind
    <2>4. IsPrefix(content[k], Wanted(k))
      BY <1>1, <1>7, <2>2, <2>3, BeginningOf
    <2>5. IsPrefix(content[k], Wanted(k))'
      BY <1>4, <2>1, <2>4 DEF IsPrefix
    <2>6. ~up'[Server(k)'] /\ thread'[k] = "done"
      BY <1>2, <1>3, <2>1
    <2> QED BY <2>5, <2>6 DEF Stage
  <1> QED BY <1>2, <1>3, <1>5, <1>6, <1>8, <1>9, <1>10, <1>11, <1>12 DEF Thread, Stages

\* A server sends the next package of a part, or the last.
LEMMA SendStage ==
  ASSUME TypeOK, Sized, NEW s \in Servers, SendPackage(s), NEW k \in Conns, k = serving[s],
         Connected(k), Upload(k) = upload[s], Upload(k)' = upload'[s],
         NEW i \in Nat, i = Len(responses[k]), Sending(k, i)
  PROVE  Sending(k, i + 1)' \/ Sent(k, i)'
  <1>1. /\ UNCHANGED <<scene, sockets, content, requests, serving>> /\ upload[s] # None
        /\ \/ /\ upload[s][2] - upload[s][1] > BufferSize - 1
              /\ Respond(k, [content |-> Positions(upload[s][1],
                     upload[s][1] + PackageLength - 1),
                             is_end |-> FALSE])
              /\ upload' = [upload EXCEPT ![s] = <<upload[s][1] + BufferSize - 1, upload[s][2]>>]
           \/ /\ ~(upload[s][2] - upload[s][1] > BufferSize - 1)
              /\ Respond(k, [content |-> Positions(upload[s][1], upload[s][2]), is_end |-> TRUE])
              /\ upload' = [upload EXCEPT ![s] = None]
    BY DEF SendPackage, client
  <1>2. PICK a \in Nat, q \in Nat, e \in Nat \cup {-1} :
          a = FileStart(k) /\ q = Reached(k, i) /\ e = FileEnd(k) /\ a <= q
    BY RangeTypes, ReachedTypes
  <1>3. PICK d \in Nat \ {0} : d = Step /\ BufferSize = d + 1 /\ PackageLength = d
    BY BufferSizeAssumption DEF Step, PackageLength
  <1>4. /\ requests[k] = << >> /\ upload[s] = <<q, e>> /\ FullPackages(k, i) /\ Begins(k, q)
    BY <1>2 DEF Sending
  <1>5. /\ FileStart(k)' = a /\ FileEnd(k)' = e /\ Step' = d
        /\ \A m \in Nat : Reached(k, m)' = Reached(k, m)
    <2>1. FileStart(k)' = FileStart(k) /\ FileEnd(k)' = FileEnd(k)
      BY <1>1, SameRanges
    <2>2. \A m \in Nat : Reached(k, m)' = Reached(k, m)
      BY <1>1, <2>1 DEF Reached, Step
    <2> QED BY <1>2, <1>3, <2>1, <2>2 DEF Step
  <1>6. responses[k] \in Seq(ToClient) /\ responses \in [Conns -> Seq(ToClient)]
        /\ upload \in [Servers -> (Nat \X (Nat \cup {-1})) \cup {None}]
    BY DEF TypeOK
  <1>7. ASSUME NEW f \in Seq(Nat), NEW b \in BOOLEAN,
               Respond(k, [content |-> f, is_end |-> b])
        PROVE  /\ Len(responses'[k]) = i + 1 /\ FullPackages(k, i)'
               /\ responses'[k][i + 1].content = f /\ responses'[k][i + 1].is_end = b
    <2>1. PICK p \in ToClient : p = [content |-> f, is_end |-> b] /\ p.content = f
                   /\ p.is_end = b
      <3>1. [content |-> f, is_end |-> b] \in ToClient
        BY DEF ToClient
      <3>2. /\ [content |-> f, is_end |-> b].content = f
            /\ [content |-> f, is_end |-> b].is_end = b
        OBVIOUS
      <3> QED BY <3>1, <3>2
    <2>2. responses'[k] = Append(responses[k], p)
      BY <1>6, <1>7, <2>1 DEF Respond
    <2>3. /\ Len(Append(responses[k], p)) = i + 1 /\ Append(responses[k], p)[i + 1] = p
          /\ \A n \in 1 .. i : Append(responses[k], p)[n] = responses[k][n]
      BY <1>6, AppendProperties
    <2>4. \A n \in 1 .. i :
            /\ responses'[k][n].content = Positions(Reached(k, n - 1)', Reached(k, n)' - 1)
            /\ ~responses'[k][n].is_end
      <3> TAKE n \in 1 .. i
      <3>1. n - 1 \in Nat /\ n \in Nat
        OBVIOUS
      <3>2. Reached(k, n - 1)' = Reached(k, n - 1) /\ Reached(k, n)' = Reached(k, n)
        BY <1>5, <3>1
      <3>3. responses'[k][n] = responses[k][n]
        BY <2>2, <2>3
      <3> QED BY <1>4, <3>2, <3>3 DEF FullPackages
    <2>5. FullPackages(k, i)'
      BY <2>4 DEF FullPackages, Positions
    <2> QED BY <2>1, <2>2, <2>3, <2>5
  <1>8. CASE /\ upload[s][2] - upload[s][1] > BufferSize - 1
             /\ Respond(k, [content |-> Positions(upload[s][1],
                    upload[s][1] + PackageLength - 1),
                            is_end |-> FALSE])
             /\ upload' = [upload EXCEPT ![s] = <<upload[s][1] + BufferSize - 1, upload[s][2]>>]
    <2>1. PICK f : f = Positions(q, q + d - 1)
      OBVIOUS
    <2>2. f \in Seq(Nat)
      <3>1. q + d - 1 \in Nat
        BY <1>3
      <3> QED BY <2>1, <3>1, PositionsTypes
    <2>3. /\ upload[s][1] = q /\ upload[s][2] = e
          /\ upload[s][1] + PackageLength - 1 = q + d - 1
          /\ upload[s][1] + BufferSize - 1 = q + d /\ BufferSize - 1 = d
      <3>1. upload[s][1] = q /\ upload[s][2] = e
        BY <1>4
      <3> QED BY <1>3, <3>1
    <2>4. Respond(k, [content |-> f, is_end |-> FALSE])
      BY <1>8, <2>1, <2>3
    <2>5. e - q > d
      BY <1>8, <2>3
    <2>6. upload'[s] = <<q + d, e>>
      BY <1>6, <1>8, <2>3
    <2>7. /\ Len(responses'[k]) = i + 1 /\ FullPackages(k, i)'
          /\ responses'[k][i + 1].content = f /\ ~responses'[k][i + 1].is_end
      BY <1>7, <2>2, <2>4
    <2>8. i + 1 \in Nat /\ (i + 1) - 1 = i
      OBVIOUS
    <2>9. Reached(k, i)' = q /\ Reached(k, i + 1)' = q + d
      BY <1>2, <1>3, <1>5, <2>8, ReachedTypes
    <2>10. FullPackages(k, i + 1)'
      <3>1. \A n \in 1 .. i :
              /\ responses'[k][n].content = Positions(Reached(k, n - 1)', Reached(k, n)' - 1)
              /\ ~responses'[k][n].is_end
        BY <2>7 DEF FullPackages, Positions
      <3>2. \A n \in 1 .. i + 1 : n \in 1 .. i \/ n = i + 1
        OBVIOUS
      <3>3. responses'[k][i + 1].content = Positions(Reached(k, (i + 1) - 1)',
                                                Reached(k, i + 1)' - 1)
        BY <2>1, <2>7, <2>8, <2>9
      <3>4. \A n \in 1 .. i + 1 :
              /\ responses'[k][n].content = Positions(Reached(k, n - 1)', Reached(k, n)' - 1)
              /\ ~responses'[k][n].is_end
        BY <2>7, <3>1, <3>2, <3>3
      <3> QED BY <3>4 DEF FullPackages, Positions
    <2>11. Begins(k, Reached(k, i + 1))'
      <3>1. PICK x \in Nat : x = q - a /\ x % d = 0
        <4>1. q - a \in Nat /\ (q - a) % d = 0
          BY <1>2, <1>3, <1>4 DEF Begins
        <4> QED BY <4>1
      <3>2. (x + d) % d = 0
        BY <3>1, NextMultiple
      <3>3. (q + d) - a = x + d /\ q + d < e
        <4>1. e \in Int /\ e - q > d
          BY <2>5
        <4> QED BY <3>1, <4>1
      <3>4. ((q + d) - a) % d = 0
        BY <3>2, <3>3
      <3>5. Begins(k, Reached(k, i + 1))' <=>
              /\ (Reached(k, i + 1)' - FileStart(k)') % Step' = 0
              /\ Reached(k, i + 1)' = FileStart(k)' \/ Reached(k, i + 1)' < FileEnd(k)'
        BY DEF Begins
      <3> QED BY <1>5, <2>9, <3>3, <3>4, <3>5
    <2>12. Upload(k)' = <<Reached(k, i + 1)', FileEnd(k)'>>
      BY <1>5, <2>6, <2>9
    <2>13. Sending(k, i + 1)'
      BY <1>1, <1>4, <2>7, <2>10, <2>11, <2>12 DEF Sending
    <2> QED BY <2>13
  <1>9. CASE /\ ~(upload[s][2] - upload[s][1] > BufferSize - 1)
             /\ Respond(k, [content |-> Positions(upload[s][1], upload[s][2]), is_end |-> TRUE])
             /\ upload' = [upload EXCEPT ![s] = None]
    <2>1. PICK f : f = Positions(q, e)
      OBVIOUS
    <2>2. f \in Seq(Nat)
      BY <2>1, PositionsTypes
    <2>3. upload[s][1] = q /\ upload[s][2] = e
      BY <1>4
    <2>4. Respond(k, [content |-> f, is_end |-> TRUE])
      BY <1>9, <2>1, <2>3
    <2>5. e - q <= d
      <3>1. ~(e - q > BufferSize - 1)
        BY <1>9, <2>3
      <3> QED BY <1>3, <3>1
    <2>6. upload'[s] = None
      BY <1>6, <1>9
    <2>7. /\ Len(responses'[k]) = i + 1 /\ FullPackages(k, i)'
          /\ responses'[k][i + 1].content = f /\ responses'[k][i + 1].is_end
      BY <1>7, <2>2, <2>4
    <2>8. Reached(k, i)' = q
      BY <1>2, <1>5
    <2>9. Begins(k, Reached(k, i))'
      BY <1>2, <1>3, <1>4, <1>5, <2>8 DEF Begins
    <2>10. Positions(Reached(k, i), FileEnd(k))' = f
      BY <1>5, <2>1, <2>8 DEF Positions
    <2>11. FileEnd(k)' - Reached(k, i)' <= Step'
      BY <1>5, <2>5, <2>8
    <2>12. Sent(k, i)'
      BY <1>1, <1>4, <2>6, <2>7, <2>9, <2>10, <2>11 DEF Sent
    <2> QED BY <2>12
  <1> QED BY <1>1, <1>8, <1>9

\* Servers send what they are asked for.
LEMMA StagesOfServer ==
  ASSUME IInv, TypeOK', Sized', ~scene.short, Stages, NEW s \in Servers, Serve(s) \/ Die(s)
  PROVE  Stages'
  <1>1. TypeOK /\ Sized /\ Started /\ Exchanges
    BY DEF IInv
  <1>2. UNCHANGED <<scene, sockets, thread, content, skew>>
    BY ServerFrame
  <1>3. Conns' = Conns /\ \A k : Server(k)' = Server(k)
    BY <1>2, SameParts
  <1>4. \A k : FileStart(k)' = FileStart(k) /\ FileEnd(k)' = FileEnd(k) /\ Wanted(k)' = Wanted(k)
    BY <1>2, SameRanges
  <1>5. \A t \in Servers : up'[t] => up[t]
    <2>1. UNCHANGED up \/ up' = [up EXCEPT ![s] = FALSE]
      BY DEF Serve, Accept, HangUp, CheckResponse, StartUpload, SendPackage, BrokenPipe, Die, server
    <2> QED BY <1>1, <2>1 DEF TypeOK
  <1>6. ASSUME NEW k \in Conns PROVE Stage(k)'
    <2>1. Stage(k) /\ Exchange(k) /\ k # None /\ Server(k) \in Servers
      BY <1>1, ConnTypes DEF Stages, Exchanges
    <2>2. up'[Server(k)] => up[Server(k)]
      BY <1>5, <2>1
    <2>3. ASSUME \/ thread[k] \in {"none", "done", "gone"}
                 \/ /\ requests'[k] = requests[k] /\ responses'[k] = responses[k]
                    /\ Upload(k)' = Upload(k)
          PROVE  Stage(k)'
      <3>1. content'[k] = content[k] /\ thread'[k] = thread[k]
        BY <1>2
      <3> QED BY <1>3, <1>4, <2>1, <2>2, <2>3, <3>1, StageKept
    <2>4. CASE thread[k] \in {"none", "done", "gone"}
      BY <2>3, <2>4
    <2>5. CASE k # serving[s]
      <3>1. requests'[k] = requests[k] /\ responses'[k] = responses[k] /\ Upload(k)' = Upload(k)
        BY <2>5, UploadKept
      <3> QED BY <2>3, <3>1
    <2>6. CASE k = serving[s] /\ thread[k] \notin {"none", "done", "gone"}
      <3>1. Upload(k) = upload[s] /\ Server(k) = s /\ requests[k] \in Seq(ToServer)
        BY <1>1, <2>6, UploadKept DEF TypeOK
      <3>2. Connected(k)
        BY <1>1, <2>6 DEF Started
      <3>3. thread[k] = "request" => Upload(k) = None /\ requests[k] = << >>
        BY <2>1 DEF Exchange, Asking
      <3>4. thread[k] # "request" =>
              /\ thread[k] \in {"name", "open", "receive"} /\ OnItsWay(k)
              /\ content[k] = Positions(FileStart(k), FileStart(k) + Len(content[k]) - 1)
        BY <1>1, <2>1, <2>6 DEF Stage, TypeOK
      <3>5. ASSUME thread[k] # "request", OnItsWay(k)' PROVE Stage(k)'
        <4>1. content'[k] = Positions(FileStart(k), FileStart(k) + Len(content[k]) - 1)'
          BY <1>2, <1>4, <3>4, <3>5 DEF Positions
        <4>2. thread'[k] \notin {"none", "request", "done", "gone"}
          BY <1>2, <2>6, <3>5
        <4> QED BY <3>5, <4>1, <4>2 DEF Stage
      <3>6. ASSUME NEW cmds, Reads(s, cmds)
            PROVE  /\ thread[k] # "request" /\ Waiting(k) /\ "DWN" \in cmds
                   /\ requests'[k] = << >> /\ Head(requests[k]) = requests[k][1]
        <4>1. /\ requests[k] # << >> /\ Head(requests[k]).cmd \in cmds
              /\ requests' = [requests EXCEPT ![k] = Tail(@)]
          BY <2>6, <3>6 DEF Reads
        <4>2. Waiting(k) /\ thread[k] # "request"
          BY <3>3, <3>4, <4>1 DEF OnItsWay, Refused, Sending, Sent
        <4>3. Len(requests[k]) = 1 /\ requests[k][1].cmd = "DWN"
          BY <4>2 DEF Waiting
        <4>4. Head(requests[k]) = requests[k][1] /\ Tail(requests[k]) = << >>
          BY <3>1, <4>3, TakeOnly
        <4>5. requests'[k] = << >>
          BY <1>1, <4>1, <4>4 DEF TypeOK
        <4> QED BY <4>1, <4>2, <4>3, <4>4, <4>5
      <3>7. CASE Accept(s)
        BY <2>1, <2>6, <3>7 DEF Accept
      <3>8. CASE BrokenPipe(s) \/ Die(s)
        <4>1. UNCHANGED <<requests, responses>>
          BY <3>8 DEF BrokenPipe, Die
        <4> QED BY <2>3, <3>8, <4>1, UploadKept
      <3>9. CASE HangUp(s) \/ CheckResponse(s)
        BY <3>6, <3>9 DEF HangUp, CheckResponse
      <3>10. CASE StartUpload(s)
        <4>1. Reads(s, {"DWN"}) /\ UNCHANGED <<responses, serving>>
          BY <3>10 DEF StartUpload
        <4>2. /\ thread[k] # "request" /\ Waiting(k) /\ requests'[k] = << >>
              /\ Head(requests[k]) = requests[k][1]
          BY <3>6, <4>1
        <4>3. /\ requests[k][1].start = FileStart(k) /\ requests[k][1].end = FileEnd(k)
              /\ responses[k] = << >> /\ content[k] = << >> /\ Upload(k) = None
          BY <4>2 DEF Waiting
        <4>4. Upload(k)' = upload'[s]
          BY <2>6, <4>1, UploadKept
        <4>5. \/ upload' = [upload EXCEPT ![s] = <<FileStart(k), FileEnd(k)>>]
              \/ up' = [up EXCEPT ![s] = FALSE] /\ UNCHANGED upload
          BY <2>6, <3>10, <4>2, <4>3 DEF StartUpload
        <4>6. CASE upload' = [upload EXCEPT ![s] = <<FileStart(k), FileEnd(k)>>]
          <5>1. Upload(k)' = <<FileStart(k), FileEnd(k)>>
            BY <1>1, <4>4, <4>6 DEF TypeOK
          <5>2. Reached(k, 0)' = FileStart(k)' /\ Step' \in Nat \ {0} /\ FileStart(k)' \in Nat
            <6>1. Reached(k, 0) = FileStart(k) + Len(content[k]) /\ Step \in Nat \ {0}
              BY <1>1, <3>2, ReachedTypes
            <6>2. Len(content[k]) = 0 /\ FileStart(k) \in Nat
              BY <1>1, <3>2, <4>3, RangeTypes
            <6>3. Reached(k, 0)' = Reached(k, 0)
              BY <1>2, <1>4 DEF Reached, Step
            <6> QED BY <1>4, <6>1, <6>2, <6>3 DEF Step
          <5>3. Begins(k, Reached(k, 0))'
            <6>1. FileStart(k)' - FileStart(k)' = 0 /\ 0 % Step' = 0
              BY <5>2
            <6>2. Begins(k, Reached(k, 0))' <=>
                    /\ (Reached(k, 0)' - FileStart(k)') % Step' = 0
                    /\ Reached(k, 0)' = FileStart(k)' \/ Reached(k, 0)' < FileEnd(k)'
              BY DEF Begins
            <6> QED BY <5>2, <6>1, <6>2
          <5>4. FullPackages(k, 0)'
            BY DEF FullPackages
          <5>5. Len(responses'[k]) = 0 /\ 0 \in 0 .. Len(responses'[k])
            BY <4>1, <4>3
          <5>6. Sending(k, 0)'
            BY <1>4, <4>2, <5>1, <5>2, <5>3, <5>4, <5>5 DEF Sending
          <5>7. OnItsWay(k)'
            BY <5>5, <5>6 DEF OnItsWay
          <5> QED BY <3>5, <4>2, <5>7
        <4>7. CASE up' = [up EXCEPT ![s] = FALSE] /\ UNCHANGED upload
          <5>1. Upload(k)' = None
            BY <3>1, <4>3, <4>4, <4>7
          <5>2. ~up'[Server(k)']
            BY <1>1, <1>3, <3>1, <4>7 DEF TypeOK
          <5>3. Refused(k)'
            BY <1>2, <4>1, <4>2, <4>3, <5>1, <5>2 DEF Refused
          <5> QED BY <3>5, <4>2, <5>3 DEF OnItsWay
        <4> QED BY <4>5, <4>6, <4>7
      <3>11. CASE SendPackage(s)
        <4>1. upload[s] # None /\ UNCHANGED serving
          BY <3>11 DEF SendPackage
        <4>2. Upload(k)' = upload'[s]
          BY <2>6, <4>1, UploadKept
        <4>3. thread[k] # "request" /\ OnItsWay(k)
          BY <3>1, <3>3, <3>4, <4>1
        <4>4. PICK i \in 0 .. Len(responses[k]) : Sending(k, i)
          BY <3>1, <4>1, <4>3 DEF OnItsWay, Waiting, Refused, Sent
        <4>5. i \in Nat /\ i = Len(responses[k])
          BY <4>4 DEF Sending
        <4>6. Sending(k, i + 1)' \/ Sent(k, i)'
          BY <1>1, <2>6, <3>1, <3>2, <3>11, <4>2, <4>4, <4>5, SendStage
        <4>7. i \in 0 .. Len(responses'[k]) /\ i + 1 \in 0 .. Len(responses'[k])
          <5>1. Len(responses'[k]) = i + 1
            BY <4>6 DEF Sending, Sent
          <5> QED BY <4>5, <5>1
        <4>8. OnItsWay(k)'
          BY <4>6, <4>7 DEF OnItsWay
        <4> QED BY <3>5, <4>3, <4>8
      <3> QED BY <3>7, <3>8, <3>9, <3>10, <3>11 DEF Serve
    <2> QED BY <2>4, <2>5, <2>6
  <1> QED BY <1>2, <1>3, <1>6 DEF Stages

\* A client is killed: what its threads have written is a beginning.
LEMMA StagesOfKill ==
  ASSUME IInv, Stages, ~scene.short, NEW c \in Clients, Kill(c)
  PROVE  Stages'
  <1>1. TypeOK /\ Sized /\ Started
    BY DEF IInv
  <1>2. /\ UNCHANGED <<scene, sockets, content, skew, responses, up, serving, upload>>
        /\ AskAll(c, Package("EOF"))
        /\ thread' = [k \in Conns |-> IF k[1] = c /\ thread[k] # "none" THEN "gone"
                                                                        ELSE thread[k]]
    BY KillFrame
  <1>3. Conns' = Conns /\ \A k : Server(k)' = Server(k) /\ Upload(k)' = Upload(k)
    BY <1>2, SameParts, UploadOfClient
  <1>4. \A k : /\ FileStart(k)' = FileStart(k) /\ FileEnd(k)' = FileEnd(k)
              /\ Wanted(k)' = Wanted(k)
    BY <1>2, SameRanges
  <1>5. ASSUME NEW k \in Conns PROVE ~skew'[k] /\ Stage(k)'
    <2>1. ~skew[k] /\ Stage(k) /\ k[1] \in Clients
      BY <1>1, ConnTypes DEF Stages
    <2>2. CASE k[1] # c
      <3>1. k \notin ValidConns(c)
        BY <1>1, <2>2, ValidTypes
      <3>2. requests'[k] = requests[k] /\ thread'[k] = thread[k]
        BY <1>1, <1>2, <2>2, <3>1 DEF AskAll, TypeOK
      <3> QED BY <1>2, <1>3, <1>4, <2>1, <3>2, StageKept
    <2>3. CASE k[1] = c /\ thread[k] = "none"
      <3>1. thread'[k] = "none" /\ content'[k] = << >> /\ ~skew'[k]
        BY <1>2, <2>1, <2>3 DEF Stage
      <3> QED BY <3>1 DEF Stage
    <2>4. CASE k[1] = c /\ thread[k] # "none"
      <3>1. thread'[k] = "gone" /\ content'[k] = content[k] /\ ~skew'[k]
        BY <1>2, <2>1, <2>4
      <3>2. thread[k] \in {"request", "name", "open", "receive", "done", "gone"}
        BY <1>1, <2>4 DEF TypeOK
      <3>3. Connected(k)
        BY <1>1, <2>4 DEF Started
      <3>4. ASSUME thread[k] = "request"
            PROVE  IsPrefix(content[k], Wanted(k))
        <4>1. content[k] = << >>
          BY <2>1, <3>4 DEF Stage
        <4>2. /\ FileStart(k) \in Nat /\ FileEnd(k) \in Nat \cup {-1}
              /\ FileStart(k) <= FileEnd(k) + 1
          BY <1>1, <3>3, RangeTypes
        <4>3. PICK i \in Nat, j \in Nat \cup {-1} :
                i = FileStart(k) /\ j = FileEnd(k) /\ i <= j + 1
          BY <4>2
        <4>4. Positions(i, i - 1) = << >>
          <5>1. PICK f : f = Positions(i, i - 1)
            OBVIOUS
          <5>2. i - 1 \in Nat \cup {-1} /\ i <= (i - 1) + 1 /\ (i - 1) - i + 1 = 0
            OBVIOUS
          <5>3. f \in Bytes /\ Len(f) = 0
            BY <5>1, <5>2, PositionsTypes
          <5>4. f = << >>
            BY <5>3, EmptySeq DEF Bytes
          <5> QED BY <5>1, <5>4
        <4>5. i + 0 - 1 = i - 1 /\ i + 0 <= j + 1 /\ 0 \in Nat
          BY <4>3
        <4> QED BY <1>1, <3>3, <4>1, <4>3, <4>4, <4>5, BeginningOf
      <3>5. ASSUME thread[k] \in {"name", "open", "receive"}
            PROVE  IsPrefix(content[k], Wanted(k))
        <4>1. /\ content[k] = Positions(FileStart(k), FileStart(k) + Len(content[k]) - 1)
              /\ OnItsWay(k)
          BY <2>1, <3>5 DEF Stage
        <4>2. Len(content[k]) \in Nat /\ FileStart(k) + Len(content[k]) <= FileEnd(k) + 1
          BY <1>1, <3>3, <4>1, ReachedTypes, NotBehind
        <4> QED BY <1>1, <3>3, <4>1, <4>2, BeginningOf
      <3>6. ASSUME thread[k] \in {"done", "gone"}
            PROVE  IsPrefix(content[k], Wanted(k))
        BY <2>1, <3>6 DEF Stage
      <3>7. IsPrefix(content[k], Wanted(k))
        BY <3>2, <3>4, <3>5, <3>6
      <3>8. IsPrefix(content[k], Wanted(k))' = IsPrefix(content[k], Wanted(k))
        BY <1>4, <3>1 DEF IsPrefix
      <3> QED BY <3>1, <3>7, <3>8 DEF Stage
    <2> QED BY <2>2, <2>3, <2>4
  <1> QED BY <1>3, <1>5 DEF Stages

\* Every part is on its way, or where it should be.
LEMMA StagesInv ==
  Spec => []Stages
  <1>1. ASSUME Init PROVE Stages
    <2>1. \A k \in Conns : ~skew[k] /\ Stage(k)
      BY <1>1 DEF Init, Stage
    <2> QED BY <2>1 DEF Stages
  <1>2. ASSUME IInv, Stages, [Next]_vars PROVE Stages'
    <2>1. TypeOK' /\ Sized'
      BY <1>2, StepTypes DEF IInv
    <2>2. scene' = scene
      BY <1>2 DEF Next, Main, Connect, CheckFile, ReadAnswer, OpenResult, CombinePart,
                  CombineEnd, Thread, Request, Name, OpenPart, Receive, ReceiveHead,
                  ReceiveTail, EndOfStream, Serve, Accept, HangUp, CheckResponse, StartUpload,
                  SendPackage, BrokenPipe, Die, Kill, Idle, vars
    <2>3. CASE scene.short
      BY <2>2, <2>3 DEF Stages
    <2>4. CASE ~scene.short
      <3>1. CASE UNCHANGED vars
        <4>1. /\ UNCHANGED <<scene, sockets, thread, content, skew, requests, responses, up>>
              /\ UNCHANGED <<serving, upload>>
          BY <3>1 DEF vars, client, server
        <4>2. Conns' = Conns /\ \A k : Server(k)' = Server(k) /\ Upload(k)' = Upload(k)
          BY <4>1, SameParts, UploadOfClient
        <4>3. \A k : FileStart(k)' = FileStart(k) /\ FileEnd(k)' = FileEnd(k)
                     /\ Wanted(k)' = Wanted(k)
          BY <4>1, SameRanges
        <4>4. \A k \in Conns : Stage(k)' /\ ~skew'[k]
          BY <1>2, <2>4, <4>1, <4>2, <4>3, StageKept, Zenon DEF Stages
        <4> QED BY <4>2, <4>4 DEF Stages
      <3> QED BY <1>2, <2>1, <2>4, <3>1, StagesOfMain, StagesOfThread, StagesOfServer,
                StagesOfKill DEF Next, Idle
    <2> QED BY <2>3, <2>4
  <1> QED BY <1>1, <1>2, Invariance, PTL DEF Spec

-----------------------------------------------------------------------------
(* What a thread writes.                                                   *)

\* Packages are read whole: a file is the beginning of its part.
THEOREM OwnBytesOnly == Spec => []OwnBytes
  <1>1. ASSUME IInv, Stages PROVE OwnBytes
    <2>1. TypeOK /\ Sized /\ Started
      BY <1>1 DEF IInv
    <2>2. ASSUME NEW k \in Conns, content[k] # << >>, Stage(k)
          PROVE  IsPrefix(content[k], Wanted(k))
      <3>1. thread[k] \in {"name", "open", "receive", "done", "gone"}
        BY <2>1, <2>2 DEF Stage, TypeOK
      <3>2. CASE thread[k] \in {"done", "gone"}
        BY <2>2, <3>2 DEF Stage
      <3>3. CASE thread[k] \notin {"done", "gone"}
        <4>1. Connected(k)
          BY <2>1, <3>1 DEF Started
        <4>2. /\ content[k] = Positions(FileStart(k), FileStart(k) + Len(content[k]) - 1)
              /\ OnItsWay(k)
          BY <2>2, <3>1, <3>3 DEF Stage
        <4>3. Len(content[k]) \in Nat /\ FileStart(k) + Len(content[k]) <= FileEnd(k) + 1
          BY <2>1, <4>1, <4>2, ReachedTypes, NotBehind
        <4> QED BY <2>1, <4>1, <4>2, <4>3, BeginningOf
      <3> QED BY <3>2, <3>3
    <2> QED BY <1>1, <2>2 DEF OwnBytes, Stages
  <1> QED BY <1>1, Invariance, StagesInv, PTL

-----------------------------------------------------------------------------
(* What main joins.                                                        *)

\* What result.txt should hold so far depends on the parts only.
LEMMA JoinedKept ==
  ASSUME NEW c, scene' = scene, Valid(c)' = Valid(c), result'[c] = result[c],
         combined'[c] = combined[c], Joined(c)
  PROVE  Joined(c)'
  <1>1. /\ PartNum(c)' = PartNum(c) /\ ValidConns(c)' = ValidConns(c)
        /\ single_part_length(c)' = single_part_length(c)
    BY DEF PartNum, ValidConns, single_part_length
  <1>2. \A n : Upto(c, n)' = Upto(c, n)
    BY <1>1 DEF Upto
  <1>3. Upto(c, combined[c])' = Upto(c, combined[c])
    <2>1. Upto(c, combined[c])' = IF combined'[c] = PartNum(c)' THEN scene'.filesize
                                  ELSE combined'[c] * single_part_length(c)'
      BY DEF Upto
    <2> QED BY <1>1, <2>1 DEF Upto
  <1>4. ASSUME NEW k \in ValidConns(c)
        PROVE  Part(k)' = Part(k) /\ (Overruns(k)' <=> Overruns(k))
    <2>1. k[1] = c
      BY DEF ValidConns
    <2>2. Part(k)' = Part(k)
      BY <2>1 DEF Part
    <2>3. FileStart(k)' = FileStart(k) /\ FileEnd(k)' = FileEnd(k)
      BY <1>1, <2>1, <2>2 DEF FileStart, FileEnd
    <2>4. LengthOf(k)' = LengthOf(k)
      BY <2>3 DEF LengthOf
    <2> QED BY <2>2, <2>4 DEF Overruns
  <1>5. (\E k \in ValidConns(c) : Part(k) < combined[c] /\ Overruns(k))'
          <=> \E k \in ValidConns(c) : Part(k) < combined[c] /\ Overruns(k)
    BY <1>1, <1>4
  <1>6. Positions(0, Upto(c, combined[c]) - 1)' = Positions(0, Upto(c, combined[c]) - 1)
    BY <1>3 DEF Positions
  <1> QED BY <1>3, <1>5, <1>6 DEF Joined

\* Parts with the same number overrun together.
LEMMA SamePart ==
  ASSUME NEW k, NEW t, k[1] = t[1], Part(k) = Part(t)
  PROVE  Overruns(k) <=> Overruns(t)
  <1>1. FileStart(k) = FileStart(t) /\ FileEnd(k) = FileEnd(t)
    BY DEF FileStart, FileEnd
  <1>2. LengthOf(k) = LengthOf(t)
    BY <1>1 DEF LengthOf
  <1> QED BY <1>2 DEF Overruns

\* result.txt is empty when it is opened.
LEMMA JoinedNothing ==
  ASSUME IInv, TypeOK', Sized', NEW c \in Clients, OpenResult(c)
  PROVE  Joined(c)'
  <1>1. TypeOK /\ Sized /\ Results
    BY DEF IInv
  <1>2. UNCHANGED <<scene, sockets, combined>> /\ result'[c] = << >> /\ pc[c] = "download"
    BY <1>1 DEF OpenResult, TypeOK
  <1>3. combined'[c] = 0 /\ Valid(c) # {}
    BY <1>1, <1>2 DEF Results
  <1>4. /\ PartNum(c)' \in Nat \ {0} /\ single_part_length(c)' \in Nat
    <2>1. PartNum(c) \in Nat \ {0} /\ scene.filesize \in Nat
      BY <1>1, <1>3, ValidTypes, SceneTypes
    <2>2. single_part_length(c) \in Nat
      BY <2>1 DEF single_part_length
    <2> QED BY <1>2, <2>1, <2>2, SameParts
  <1>5. Upto(c, combined[c])' = 0
    <2>1. Upto(c, combined[c])' = IF combined'[c] = PartNum(c)' THEN scene'.filesize
                                  ELSE combined'[c] * single_part_length(c)'
      BY DEF Upto
    <2> QED BY <1>3, <1>4, <2>1
  <1>6. Positions(0, Upto(c, combined[c]) - 1)' = << >>
    <2>1. PICK f : f = Positions(0, -1)
      OBVIOUS
    <2>2. 0 \in Nat /\ -1 \in Nat \cup {-1} /\ 0 <= (-1) + 1 /\ (-1) - 0 + 1 = 0
      OBVIOUS
    <2>3. f \in Seq(Nat) /\ Len(f) = 0
      BY <2>1, <2>2, PositionsTypes
    <2>4. f = << >>
      BY <2>3, EmptySeq
    <2>5. Upto(c, combined[c])' - 1 = -1
      BY <1>5
    <2>6. Positions(0, Upto(c, combined[c]) - 1)' = Positions(0, Upto(c, combined[c])' - 1)
      BY DEF Positions
    <2> QED BY <2>1, <2>4, <2>5, <2>6
  <1>7. ~(\E k \in ValidConns(c) : Part(k) < combined[c] /\ Overruns(k))'
    <2>1. \A k \in ValidConns(c) : Part(k) \in Nat
      <3> TAKE k \in ValidConns(c)
      <3>1. k \in Conns /\ Connected(k)
        BY <1>1, ValidTypes DEF ValidConns, Connected
      <3> QED BY <1>1, <3>1, PartTypes
    <2>2. ValidConns(c)' = ValidConns(c) /\ \A k : Part(k)' = Part(k)
      BY <1>2, SameParts
    <2> QED BY <1>3, <2>1, <2>2
  <1>8. Len(result'[c]) = 0
    BY <1>2
  <1> QED BY <1>2, <1>5, <1>6, <1>7, <1>8 DEF Joined

\* One part more.
LEMMA JoinedOneMore ==
  ASSUME IInv, TypeOK', Sized', NEW c \in Clients, CombinePart(c), Joined(c),
         ~scene.short, Stages,
         ~scene.aliased \/ PartNum(c) = 1, \A k \in ValidConns(c) : up[Server(k)]
  PROVE  Joined(c)'
  <1>1. TypeOK /\ Sized /\ Results /\ Filed
    BY DEF IInv
  <1>2. PICK n : n = combined[c]
    OBVIOUS
  <1>3. /\ UNCHANGED <<scene, sockets>> /\ pc[c] = "combine" /\ n < PartNum(c)
        /\ dir[c][n] # None
        /\ result' = [result EXCEPT ![c] = @ \o content[dir[c][n]]]
        /\ combined' = [combined EXCEPT ![c] = @ + 1]
    BY <1>2 DEF CombinePart
  <1>4. n \in Nat /\ n \in Nums /\ PartNum(c) \in Nat /\ PartNum(c) <= MaxSock
    <2>1. n \in Nat /\ PartNum(c) \in 0 .. MaxSock
      BY <1>1, <1>2, ValidTypes, MaxSockAssumption DEF TypeOK
    <2> QED BY <1>3, <2>1, MaxSockAssumption DEF Nums
  <1>5. PICK k \in Conns : k = dir[c][n]
    BY <1>1, <1>3, <1>4 DEF TypeOK
  <1>6. k \in ValidConns(c) /\ Part(k) = n
    BY <1>1, <1>4, <1>5 DEF Filed
  <1>7. Connected(k) /\ k[1] = c
    BY <1>1, <1>6, ValidTypes DEF ValidConns, Connected
  <1>8. content[k] = Wanted(k)
    <2>1. thread[k] = "done" /\ Stage(k) /\ up[Server(k)]
      BY <1>1, <1>3, <1>6 DEF Results, Stages
    <2> QED BY <2>1 DEF Stage
  <1>9. PICK u \in Nat, v \in Nat :
          u = Upto(c, n) /\ v = Upto(c, n + 1) /\ FileStart(k) = u /\ FileEnd(k) = v - 1
              /\ u <= v
    <2>1. /\ FileStart(k) \in Nat /\ FileEnd(k) \in Nat \cup {-1}
          /\ FileStart(k) <= FileEnd(k) + 1
          /\ FileStart(k) = Upto(c, n) /\ FileEnd(k) + 1 = Upto(c, n + 1)
      BY <1>1, <1>6, <1>7, RangeTypes
    <2> QED BY <2>1
  <1>10. PICK r, w : r = result[c] /\ w = Wanted(k)
    OBVIOUS
  <1>11. r \in Bytes /\ w \in Bytes
    BY <1>1, <1>3, <1>7, <1>10, WantedTypes DEF Results
  <1>12. result'[c] = r \o w /\ combined'[c] = n + 1
    BY <1>1, <1>2, <1>3, <1>5, <1>8, <1>10 DEF TypeOK
  <1>13. Len(w) = (v - u) + (IF Overruns(k) THEN 1 ELSE 0)
    <2>1. (v - 1) - u + 1 = v - u
      OBVIOUS
    <2>2. Len(w) = (FileEnd(k) - FileStart(k) + 1) + (IF Overruns(k) THEN 1 ELSE 0)
      BY <1>1, <1>7, <1>10, WantedTypes
    <2> QED BY <1>9, <2>1, <2>2
  <1>14. Len(r \o w) = Len(r) + Len(w) /\ Len(r) \in Nat /\ Len(w) \in Nat
    BY <1>11, JoinLists, LenProperties DEF Bytes
  <1> DEFINE Over(m) == \E t \in ValidConns(c) : Part(t) < m /\ Overruns(t)
  <1>15. /\ ~Over(n) => r = Positions(0, u - 1)
         /\ Over(n) => Len(r) > u
         /\ Len(r) >= u
    BY <1>2, <1>9, <1>10 DEF Joined
  <1>16. Over(n + 1) <=> Over(n) \/ Overruns(k)
    <2>1. \A t \in ValidConns(c) : Part(t) \in Nat /\ t[1] = c
      <3> TAKE t \in ValidConns(c)
      <3>1. t \in Conns /\ Connected(t) /\ t[1] = c
        BY <1>1, ValidTypes DEF ValidConns, Connected
      <3> QED BY <1>1, <3>1, PartTypes
    <2>2. \A t \in ValidConns(c) : Part(t) < n + 1 <=> Part(t) < n \/ Part(t) = n
      BY <1>4, <2>1
    <2>3. \A t \in ValidConns(c) : Part(t) = n => (Overruns(t) <=> Overruns(k))
      BY <1>6, <1>7, <2>1, SamePart
    <2> QED BY <1>6, <2>2, <2>3
  <1>17. ~Over(n + 1) => r \o w = Positions(0, v - 1)
    <2>1. ASSUME ~Over(n + 1) PROVE r \o w = Positions(0, v - 1)
      <3>1. r = Positions(0, u - 1) /\ ~Overruns(k)
        BY <1>15, <1>16, <2>1
      <3>2. w = Positions(u, v - 1)
        BY <1>9, <1>10, <3>1 DEF Wanted
      <3>3. v - 1 \in Nat \cup {-1} /\ 0 <= u /\ u <= (v - 1) + 1 /\ 0 \in Nat
        BY <1>9
      <3>4. Positions(0, u - 1) \o Positions(u, v - 1) = Positions(0, v - 1)
        BY <3>3, PositionsJoin
      <3> QED BY <3>1, <3>2, <3>4
    <2> QED BY <2>1
  <1>18. (Over(n + 1) => Len(r \o w) > v) /\ Len(r \o w) >= v
    <2>1. CASE Overruns(k)
      <3>1. Len(w) = (v - u) + 1
        BY <1>13, <2>1
      <3> QED BY <1>14, <1>15, <3>1
    <2>2. CASE ~Overruns(k)
      <3>1. Len(w) = v - u
        BY <1>13, <2>2
      <3>2. Over(n + 1) => Len(r) > u
        BY <1>15, <1>16, <2>2
      <3> QED BY <1>14, <1>15, <3>1, <3>2
    <2> QED BY <2>1, <2>2
  <1>19. Upto(c, combined[c])' = v
    <2>1. Upto(c, combined[c])' = IF combined'[c] = PartNum(c)' THEN scene'.filesize
                                  ELSE combined'[c] * single_part_length(c)'
      BY DEF Upto
    <2>2. PartNum(c)' = PartNum(c) /\ single_part_length(c)' = single_part_length(c)
      BY <1>3, SameParts
    <2> QED BY <1>3, <1>9, <1>12, <2>1, <2>2 DEF Upto
  <1>20. (\E t \in ValidConns(c) : Part(t) < combined[c] /\ Overruns(t))' <=> Over(n + 1)
    <2>1. ValidConns(c)' = ValidConns(c) /\ \A t : Part(t)' = Part(t)
              /\ Overruns(t)' = Overruns(t)
      BY <1>3, SameParts, SameRanges
    <2> QED BY <1>12, <2>1
  <1>21. Positions(0, Upto(c, combined[c]) - 1)' = Positions(0, v - 1)
    BY <1>19 DEF Positions
  <1> HIDE DEF Over
  <1> QED BY <1>12, <1>17, <1>18, <1>19, <1>20, <1>21 DEF Joined

\* What main has joined so far is the beginning of the file, or longer than that.
LEMMA CombiningInv ==
  ASSUME IInv, TypeOK', Sized', Stages, Combining, [Next]_vars
  PROVE  Combining'
  <1>1. TypeOK /\ Sized /\ Results
    BY DEF IInv
  <1> DEFINE Whole(c) == /\ pc[c] = "combine" \/ (pc[c] = "finished" /\ result[c] # None)
                         /\ ~scene.aliased \/ PartNum(c) = 1
                         /\ \A k \in ValidConns(c) : up[Server(k)]
  <1>2. Combining => (~scene.short => \A c \in Clients : Whole(c) => Joined(c))
    BY DEF Combining
  <1>3. (~scene.short => \A c \in Clients : Whole(c) => Joined(c))' => Combining'
    BY DEF Combining
  <1>4. \A s \in Servers : up'[s] => up[s]
    <2>1. UNCHANGED up \/ \E s \in Servers : up' = [up EXCEPT ![s] = FALSE]
      BY DEF Next, Main, Connect, CheckFile, ReadAnswer, OpenResult, CombinePart, CombineEnd,
             Thread, Request, Name, OpenPart, Receive, ReceiveHead, ReceiveTail, EndOfStream,
             Serve, Accept, HangUp, CheckResponse, StartUpload, SendPackage, BrokenPipe, Die, Kill,
             Idle, vars, server
    <2> QED BY <1>1, <2>1 DEF TypeOK
  <1>5. scene' = scene
    BY DEF Next, Main, Connect, CheckFile, ReadAnswer, OpenResult, CombinePart, CombineEnd,
           Thread, Request, Name, OpenPart, Receive, ReceiveHead, ReceiveTail, EndOfStream,
           Serve, Accept, HangUp, CheckResponse, StartUpload, SendPackage, BrokenPipe, Die, Kill,
           Idle, vars
  <1>6. ASSUME NEW c \in Clients, Whole(c)', ~scene.short,
               Valid(c)' = Valid(c), result'[c] = result[c], combined'[c] = combined[c],
               pc'[c] = pc[c] \/ pc[c] = "combine"
        PROVE  Joined(c)'
    <2>1. PartNum(c)' = PartNum(c) /\ ValidConns(c)' = ValidConns(c)
      BY <1>6 DEF PartNum, ValidConns
    <2>2. ASSUME NEW k \in ValidConns(c) PROVE up[Server(k)]
      <3>1. Server(k)' = Server(k)
        BY <1>5 DEF Server
      <3>2. up'[Server(k)]
        BY <1>6, <2>1, <3>1
      <3>3. Server(k) \in Servers
        BY <1>1, ValidTypes, ConnTypes
      <3> QED BY <1>4, <3>2, <3>3
    <2>3. Whole(c)
      BY <1>5, <1>6, <2>1, <2>2
    <2>4. Joined(c)
      BY <1>2, <1>6, <2>3
    <2> QED BY <1>5, <1>6, <2>4, JoinedKept
  <1>7. ASSUME NEW c \in Clients, Whole(c)', ~scene.short PROVE Joined(c)'
    <2>1. ASSUME UNCHANGED <<sockets, pc, result, combined>> PROVE Joined(c)'
      <3>1. Valid(c)' = Valid(c)
        BY <2>1 DEF Valid
      <3> QED BY <1>6, <1>7, <2>1, <3>1
    <2>2. ASSUME NEW d \in Clients, Main(d), d # c PROVE Joined(c)'
      <3>1. Valid(c)' = Valid(c)
        <4>1. CASE Connect(d)
          BY <1>1, <2>2, <4>1, ConnectParts
        <4>2. CASE ~Connect(d)
          <5>1. UNCHANGED sockets
            BY <2>2, <4>2 DEF Main, CheckFile, ReadAnswer, OpenResult, CombinePart, CombineEnd
          <5> QED BY <5>1 DEF Valid
        <4> QED BY <4>1, <4>2
      <3>2. pc'[c] = pc[c] /\ result'[c] = result[c] /\ combined'[c] = combined[c]
        <4>1. CASE Connect(d) \/ CheckFile(d) \/ ReadAnswer(d)
          BY <1>1, <2>2, <4>1 DEF Connect, CheckFile, ReadAnswer, TypeOK
        <4>2. CASE OpenResult(d) \/ CombinePart(d) \/ CombineEnd(d)
          BY <1>1, <2>2, <4>2 DEF OpenResult, CombinePart, CombineEnd, TypeOK
        <4> QED BY <2>2, <4>1, <4>2 DEF Main
      <3> QED BY <1>6, <1>7, <3>1, <3>2
    <2>3. CASE Connect(c)
      <3>1. pc'[c] = "connect"
        BY <2>3 DEF Connect
      <3> QED BY <1>7, <3>1
    <2>4. CASE CheckFile(c)
      <3>1. pc'[c] \in {"failed", "answer"}
        BY <1>1, <2>4 DEF CheckFile, TypeOK
      <3> QED BY <1>7, <3>1
    <2>5. CASE ReadAnswer(c)
      <3>1. pc[c] = "answer" /\ result'[c] = result[c] /\ pc'[c] \in {"download", "finished"}
        BY <1>1, <2>5 DEF ReadAnswer, TypeOK
      <3>2. result'[c] = None
        BY <1>1, <3>1 DEF Results
      <3> QED BY <1>7, <3>1, <3>2
    <2>6. CASE OpenResult(c)
      BY <2>6, JoinedNothing
    <2>7. CASE CombinePart(c)
      <3>1. UNCHANGED <<pc, sockets>> /\ pc[c] = "combine"
        BY <2>7 DEF CombinePart
      <3>2. PartNum(c)' = PartNum(c) /\ ValidConns(c)' = ValidConns(c)
                /\ \A k : Server(k)' = Server(k)
        BY <1>5, <3>1, SameParts
      <3>3. \A k \in ValidConns(c) : Server(k) \in Servers
        BY <1>1, ValidTypes, ConnTypes
      <3>4. \A k \in ValidConns(c) : up[Server(k)]
        BY <1>4, <1>7, <3>2, <3>3
      <3>5. ~scene.aliased \/ PartNum(c) = 1
        BY <1>5, <1>7, <3>2
      <3>6. Joined(c)
        BY <1>2, <1>7, <3>1, <3>4, <3>5
      <3> QED BY <1>7, <2>7, <3>4, <3>5, <3>6, JoinedOneMore
    <2>8. CASE CombineEnd(c)
      <3>1. UNCHANGED <<sockets, result, combined>> /\ pc[c] = "combine"
        BY <2>8 DEF CombineEnd
      <3>2. Valid(c)' = Valid(c)
        BY <3>1 DEF Valid
      <3> QED BY <1>6, <1>7, <3>1, <3>2
    <2>9. ASSUME NEW k \in Conns, Thread(k) PROVE Joined(c)'
      <3>1. UNCHANGED <<sockets, pc, result, combined>>
        BY <2>9 DEF Thread, Request, Name, OpenPart, Receive, ReceiveHead, ReceiveTail,
           EndOfStream
      <3> QED BY <2>1, <3>1
    <2>10. ASSUME NEW s \in Servers, Serve(s) \/ Die(s) PROVE Joined(c)'
      <3>1. UNCHANGED <<sockets, pc, result, combined>>
        BY <2>10, ServerFrame
      <3> QED BY <2>1, <3>1
    <2>11. CASE UNCHANGED vars
      BY <2>1, <2>11 DEF vars, client
    <2>12. ASSUME NEW d \in Clients, Kill(d) PROVE Joined(c)'
      <3>1. UNCHANGED <<sockets, result, combined>> /\ pc' = [pc EXCEPT ![d] = "killed"]
        BY <2>12, KillFrame
      <3>2. pc'[c] = pc[c]
        <4>1. CASE d # c
          BY <1>1, <3>1, <4>1 DEF TypeOK
        <4>2. CASE d = c
          <5>1. pc'[c] = "killed"
            BY <1>1, <3>1, <4>2 DEF TypeOK
          <5> QED BY <1>7, <5>1
        <4> QED BY <4>1, <4>2
      <3>3. Valid(c)' = Valid(c)
        BY <3>1 DEF Valid
      <3> QED BY <1>6, <1>7, <3>1, <3>2, <3>3
    <2> QED BY <2>2, <2>3, <2>4, <2>5, <2>6, <2>7, <2>8, <2>9, <2>10, <2>11, <2>12
            DEF Next, Main, Idle
  <1> HIDE DEF Whole
  <1>8. (~scene.short => \A c \in Clients : Whole(c) => Joined(c))'
    BY <1>5, <1>7
  <1> QED BY <1>3, <1>8

\* result.txt is the file, unless some part overruns the array: then it is not.
LEMMA IntactOf ==
  ASSUME IInv, Combining
  PROVE  Intact
  <1>1. TypeOK /\ Sized /\ Results
    BY DEF IInv
  <1>2. ASSUME ~scene.short, NEW c \in Clients, pc[c] = "finished", result[c] # None,
               ~scene.aliased \/ PartNum(c) = 1, \A k \in ValidConns(c) : up[Server(k)]
        PROVE  result[c] = Positions(0, scene.filesize - 1)
                 <=> \A k \in ValidConns(c) : ~Overruns(k)
    <2>1. Joined(c) /\ combined[c] = PartNum(c)
      BY <1>1, <1>2 DEF Combining, Results
    <2>2. PICK fs \in Nat : fs = scene.filesize
      BY <1>1, SceneTypes
    <2>3. Upto(c, combined[c]) = fs
      BY <2>1, <2>2 DEF Upto
    <2>4. \A k \in ValidConns(c) : Part(k) < combined[c]
      <3> TAKE k \in ValidConns(c)
      <3>1. k \in Conns /\ Connected(k) /\ k[1] = c
        BY <1>1, ValidTypes DEF ValidConns, Connected
      <3> QED BY <1>1, <2>1, <3>1, PartTypes
    <2>5. (\A k \in ValidConns(c) : ~Overruns(k)) => result[c] = Positions(0, fs - 1)
      BY <2>1, <2>3 DEF Joined
    <2>6. ASSUME ~(\A k \in ValidConns(c) : ~Overruns(k)) PROVE result[c] # Positions(0, fs - 1)
      <3>1. Len(result[c]) > fs
        BY <2>1, <2>3, <2>4, <2>6 DEF Joined
      <3>2. fs - 1 \in Nat \cup {-1} /\ 0 <= (fs - 1) + 1 /\ (fs - 1) - 0 + 1 = fs /\ 0 \in Nat
        OBVIOUS
      <3>3. Len(Positions(0, fs - 1)) = fs
        BY <3>2, PositionsTypes
      <3>4. ~(fs > fs)
        OBVIOUS
      <3> QED BY <3>1, <3>3, <3>4
    <2> QED BY <2>2, <2>5, <2>6
  <1> QED BY <1>2 DEF Intact

\* If the servers live, packages are read whole and names are not shared, what
\* main puts together is the file, if and only if no part fills the last array.
THEOREM FileIsIntact == Spec => []Intact
  <1>1. Init => Combining
    BY DEF Init, Combining
  <1>2. IInv /\ Stages /\ Combining /\ [Next]_vars => Combining'
    <2>1. ASSUME IInv, [Next]_vars PROVE TypeOK' /\ Sized'
      BY <2>1, StepInv DEF IInv
    <2> QED BY <2>1, CombiningInv
  <1>3. IInv /\ Combining => Intact
    BY IntactOf
  <1> QED BY <1>1, <1>2, <1>3, Invariance, StagesInv, PTL DEF Spec
=============================================================================
