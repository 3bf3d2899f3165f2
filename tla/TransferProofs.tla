--------------------------- MODULE TransferProofs ---------------------------
(***************************************************************************)
(* Proofs about how a part of the file crosses the network in HW4, for     *)
(* files of every length, cut into any number of parts, packets of every   *)
(* size and every set of faults.                                           *)
(***************************************************************************)
EXTENDS Transfer, ListLemmas

-----------------------------------------------------------------------------
(* The split of createJobsList, for files of every length and every number *)
(* of parts.                                                               *)

\* The integer division of createJobsList: the parts of single_length bytes
\* fit into the file.
LEMMA DivisionFits ==
  ASSUME NEW t \in Nat, NEW n \in Nat \ {0}
  PROVE  /\ t \div n \in Nat
         /\ n * (t \div n) <= t
  OBVIOUS

\* Products with a common factor are ordered as the other factors are.
LEMMA ProductOrder ==
  ASSUME NEW s \in Nat, NEW i \in Nat, NEW k \in Nat, i <= k
  PROVE  i * s \in Nat /\ k * s \in Nat /\ i * s <= k * s
  OBVIOUS

\* Every position lies in one of the parts of a common length, or past them.
LEMMA PartOfPosition ==
  ASSUME NEW s \in Nat, NEW n \in Nat, NEW b \in Nat, b < n * s
  PROVE  \E i \in 0 .. n - 1 : i * s <= b /\ b <= (i + 1) * s - 1
  <1>1. s \in Nat \ {0}
    OBVIOUS
  <1> DEFINE q == b \div s
  <1>2. q \in Nat /\ q * s <= b /\ b < (q + 1) * s
    BY <1>1
  <1> HIDE DEF q
  <1>3. q < n
    <2>1. CASE n <= q
      BY <1>1, <1>2, <2>1, ProductOrder
    <2> QED BY <1>2, <2>1
  <1>4. (q + 1) * s \in Nat /\ b <= (q + 1) * s - 1
    BY <1>1, <1>2
  <1>5. q \in 0 .. n - 1
    BY <1>2, <1>3
  <1> QED BY <1>2, <1>4, <1>5

-----------------------------------------------------------------------------
Item(i) == [file_start |-> FileStart(i), file_end |-> FileEnd(i)]

\* The jobs made so far are those of the loop's formula.
SplitInv == SplitTypeOK /\ \A k \in 1 .. Len(jobs) : jobs[k] = Item(k - 1)

\* The numbers the loop computes are of their types.
LEMMA ItemType ==
  ASSUME total_size \in Nat, job_num \in Nat \ {0}, NEW i \in 0 .. job_num - 1
  PROVE  /\ single_length \in Nat
         /\ Item(i) \in [file_start : Nat, file_end : Nat \cup {-1}]
  <1>1. single_length \in Nat
    BY DivisionFits DEF single_length
  <1>2. i * single_length \in Nat /\ (i + 1) * single_length \in Nat
    BY <1>1, ProductOrder
  <1>3. FileStart(i) \in Nat
    BY <1>2 DEF FileStart
  <1>4. FileEnd(i) \in Nat \cup {-1}
    BY <1>2 DEF FileEnd
  <1> QED BY <1>1, <1>3, <1>4 DEF Item

\* No job is made before the loop.
LEMMA InitSplit == SplitInit => SplitInv
  BY BoundsAssumption DEF SplitInit, SplitInv, SplitTypeOK

\* A round of the loop makes the job that the formula gives.
LEMMA NextSplit == SplitInv /\ [SplitNext]_split_vars => SplitInv'
  <1> SUFFICES ASSUME SplitInv, [SplitNext]_split_vars PROVE SplitInv'
    OBVIOUS
  <1>1. CASE AddJob
    <2> DEFINE i == Len(jobs)
    <2>1. i \in 0 .. job_num - 1 /\ total_size \in Nat /\ job_num \in Nat \ {0}
      BY <1>1, BoundsAssumption, LenProperties DEF AddJob, SplitInv, SplitTypeOK
    <2>2. Item(i) \in [file_start : Nat, file_end : Nat \cup {-1}]
      BY <2>1, ItemType
    <2>3. jobs' = Append(jobs, Item(i)) /\ UNCHANGED <<total_size, job_num>>
      BY <1>1 DEF AddJob, Item
    <2>4. /\ jobs' \in Seq([file_start : Nat, file_end : Nat \cup {-1}])
          /\ Len(jobs') = i + 1
          /\ jobs'[i + 1] = Item(i)
          /\ \A k \in 1 .. i : jobs'[k] = jobs[k]
      BY <2>2, <2>3, AppendProperties DEF SplitInv, SplitTypeOK
    <2>5. \A k : Item(k)' = Item(k)
      BY <2>3 DEF Item, FileStart, FileEnd, single_length
    <2>6. SplitTypeOK'
      BY <2>1, <2>3, <2>4 DEF SplitInv, SplitTypeOK
    <2>7. ASSUME NEW k \in 1 .. Len(jobs') PROVE jobs'[k] = Item(k - 1)
      <3>1. CASE k = i + 1
        BY <2>1, <2>4, <3>1
      <3>2. CASE k \in 1 .. i
        BY <2>4, <3>2 DEF SplitInv
      <3> QED BY <2>1, <2>4, <3>1, <3>2
    <2> QED BY <2>5, <2>6, <2>7 DEF SplitInv
  <1>2. CASE UNCHANGED split_vars
    BY <1>2 DEF split_vars, SplitInv, SplitTypeOK, Item, FileStart, FileEnd, single_length
  <1> QED BY <1>1, <1>2 DEF SplitNext, Return

\* SplitInv holds in every state.
LEMMA SplitInvariance == SplitSpec => []SplitInv
  BY InitSplit, NextSplit, PTL DEF SplitSpec

\* The jobs that the formula describes cut the file up.
LEMMA FormulaCovers ==
  ASSUME SplitInv, Len(jobs) = job_num
  PROVE  SplitCovers
  <1> DEFINE s == single_length
  <1>1. total_size \in Nat /\ job_num \in Nat \ {0}
    BY BoundsAssumption DEF SplitInv, SplitTypeOK
  <1>2. s \in Nat /\ job_num * s <= total_size /\ job_num * s \in Nat
    BY <1>1, DivisionFits, ProductOrder DEF single_length
  <1>3. \A k \in 1 .. job_num :
          Bytes(k) = (k - 1) * s .. (IF k = job_num THEN total_size - 1 ELSE k * s - 1)
    <2> TAKE k \in 1 .. job_num
    <2>1. jobs[k].file_start = FileStart(k - 1) /\ jobs[k].file_end = FileEnd(k - 1)
      BY DEF SplitInv, Item
    <2>2. (k - 1) + 1 = k /\ (k - 1 = job_num - 1 <=> k = job_num)
      BY <1>1
    <2> QED BY <2>1, <2>2 DEF Bytes, FileStart, FileEnd
  <1> HIDE DEF s
  <1>4. ASSUME NEW b \in 0 .. total_size - 1
        PROVE  \E k \in 1 .. job_num : b \in Bytes(k)
    <2>1. CASE b < job_num * s
      <3>1. PICK i \in 0 .. job_num - 1 : i * s <= b /\ b <= (i + 1) * s - 1
        <4>1. b \in Nat
          BY <1>1
        <4> QED BY <1>1, <1>2, <2>1, <4>1, PartOfPosition
      <3>2. /\ i + 1 \in 1 .. job_num /\ (i + 1) - 1 = i
            /\ i * s \in Nat /\ (i + 1) * s \in Nat
        BY <1>1, <1>2, ProductOrder
      <3>3. b \in Bytes(i + 1)
        BY <1>1, <1>3, <3>1, <3>2
      <3> QED BY <3>2, <3>3
    <2>2. CASE job_num * s <= b
      <3>1. (job_num - 1) * s \in Nat /\ (job_num - 1) * s <= job_num * s
        BY <1>1, <1>2, ProductOrder
      <3>2. b \in Bytes(job_num)
        BY <1>1, <1>2, <1>3, <2>2, <3>1
      <3> QED BY <1>1, <3>2
    <2> QED BY <1>1, <1>2, <2>1, <2>2
  <1>5. ASSUME NEW k \in 1 .. job_num
        PROVE  Bytes(k) \subseteq 0 .. total_size - 1
    <2>1. (k - 1) * s \in Nat /\ k * s \in Nat /\ k * s <= job_num * s
      BY <1>1, <1>2, ProductOrder
    <2>2. \A b \in Bytes(k) : b \in Int /\ (k - 1) * s <= b
      BY <1>1, <1>3, <2>1
    <2>3. \A b \in Bytes(k) : b <= total_size - 1
      <3>1. CASE k = job_num
        BY <1>1, <1>3, <2>1, <3>1
      <3>2. CASE k # job_num
        <4>1. Bytes(k) = (k - 1) * s .. k * s - 1
          BY <1>3, <3>2
        <4> QED BY <1>1, <1>2, <2>1, <4>1
      <3> QED BY <3>1, <3>2
    <2> QED BY <1>1, <2>1, <2>2, <2>3
  <1>6. ASSUME NEW k \in 1 .. job_num, NEW m \in 1 .. job_num, k < m,
               NEW b \in Bytes(k), NEW c \in Bytes(m)
        PROVE  b < c
    <2>1. k * s \in Nat /\ (m - 1) * s \in Nat /\ k * s <= (m - 1) * s
      BY <1>1, <1>2, <1>6, ProductOrder
    <2>2. b <= k * s - 1 /\ (m - 1) * s <= c /\ b \in Int /\ c \in Int
      BY <1>1, <1>2, <1>3, <1>6, <2>1, ProductOrder
    <2> QED BY <2>1, <2>2
  <1> QED BY <1>1, <1>4, <1>5, <1>6 DEF SplitCovers

\* For every file length and every number of parts, each byte of the file is
\* in exactly one job and the jobs are in the order of the file.
THEOREM SplitIsExact == SplitSpec => []SplitCovers
  <1>1. SplitInv => SplitCovers
    BY FormulaCovers DEF SplitCovers
  <1> QED BY <1>1, SplitInvariance, PTL

-----------------------------------------------------------------------------
(* The inductive invariant.                                                *)

\* The worker takes its first job when all jobs are made.
Unsplit ==
  Len(jobs) # job_num =>
    /\ todo = Jobs /\ state = "idle" /\ net = << >> /\ asked = {}
    /\ \A j \in Jobs : start[j] = NoThread

\* What is still to be done was never asked for, and the job in hand is open.
Fresh ==
  /\ \A j \in todo : /\ j \notin asked /\ start[j] = NoThread
                     /\ temp[j] = << >> /\ result[j] = "none"
  /\ state = "recv" <=> job # NoJob
  /\ state = "recv" => job \notin todo /\ result[job] = "none"

\* The bytes of a packet are consecutive.
IsRun(c) == c # << >> /\ \A k \in 1 .. Len(c) : c[k] = c[1] + k - 1
Runs == \A n \in 1 .. Len(net) : IsRun(net[n].content)

\* A thread is started once for a part, at its first byte.
Threads == \A j \in Jobs : start[j] # NoThread => j \notin asked /\ First(j) <= start[j]

\* Byte b was put in a packet: the thread of its part is past it.
Sent(b) == \E i \in Jobs \ (todo \cup asked) :
             b \in First(i) .. End(i) /\ (start[i] # NoThread => b < start[i])

\* A byte on the net or in a file was sent, and it is in one place only.
Once ==
  /\ \A n \in 1 .. Len(net) : \A b \in Range(net[n].content) : Sent(b)
  /\ \A j \in Jobs : \A b \in Range(temp[j]) : Sent(b)
  /\ \A n, m \in 1 .. Len(net) :
       n # m => Range(net[n].content) \cap Range(net[m].content) = {}
  /\ \A n \in 1 .. Len(net) : \A j \in Jobs :
       Range(net[n].content) \cap Range(temp[j]) = {}
  /\ \A i, j \in Jobs : i # j => Range(temp[i]) \cap Range(temp[j]) = {}
  /\ \A j \in Jobs : IsInjective(temp[j])

Single == "duplicate" \notin faults => Once

LastOf(n) == net[n].content[Len(net[n].content)]
FirstOf(n) == net[n].content[1]

\* While the worker has its socket open, nothing but its current part is on the
\* way, if datagrams keep their order.
OnlyCurrent ==
  state # "closed" =>
    /\ \A i \in Jobs : i # job => /\ i \notin asked
                                  /\ start[i] # NoThread => start[i] >= End(i)
    /\ state = "idle" => net = << >>
    /\ state = "recv" /\ job \in asked =>
         start[job] = NoThread /\ net = << >> /\ temp[job] = << >>

\* The packets of the current part are in the order of the file, after what
\* the worker has written and before what the thread still has to send.
Queued ==
  state = "recv" =>
    /\ \A n \in 1 .. Len(net) :
         /\ Range(net[n].content) \subseteq First(job) .. End(job)
         /\ \A k \in 1 .. Len(temp[job]) : temp[job][k] < FirstOf(n)
         /\ \A m \in 1 .. Len(net) : n < m => LastOf(n) < FirstOf(m)
         /\ start[job] # NoThread => LastOf(n) < start[job]
         /\ net[n].content_is_end =>
              /\ n = Len(net) /\ LastOf(n) = End(job)
              /\ start[job] # NoThread => start[job] > End(job)
    /\ start[job] # NoThread => \A k \in 1 .. Len(temp[job]) : temp[job][k] < start[job]

\* If datagrams keep their order and come once.
InOrder ==
  faults \cap {"duplicate", "reorder"} = {} => NoForeignBytes /\ OnlyCurrent /\ Queued

\* The position at which the n-th packet has to start.
Due(n) == IF n = 1 THEN First(job) + Len(temp[job]) ELSE LastOf(n - 1) + 1

\* No byte is missing between what is written, what is on the way and what is
\* still to be sent.
Gapless ==
  faults \cap {"lose", "duplicate", "reorder"} = {} =>
    /\ \A j \in Jobs \ todo : \A k \in 1 .. Len(temp[j]) : temp[j][k] = First(j) + k - 1
    /\ state = "recv" =>
         /\ \A n \in 1 .. Len(net) : FirstOf(n) = Due(n)
         /\ start[job] # NoThread => start[job] = Due(Len(net) + 1)

\* The last packet of the part is on its way.
EndQueued == net # << >> /\ net[Len(net)].content_is_end

\* The thread is at a multiple of the packet size from the beginning of its part.
InStride(j) ==
  /\ start[j] <= End(j) \/ start[j] = First(j)
  /\ (End(j) - start[j] + 1) % BufferSize = Length(j) % BufferSize

\* A thread that has not sent the last packet is at a multiple of the packet
\* size from the beginning of its part, and one that ends without having sent
\* it had an unservable part.
Explained ==
  faults = {} =>
    /\ alive
    /\ TimeoutsExplained
    /\ state = "recv" =>
         /\ \A n \in 1 .. Len(net) : net[n].content_is_end => ~Unservable(job)
         /\ start[job] # NoThread => EndQueued \/ InStride(job)
         /\ start[job] = NoThread /\ job \notin asked => EndQueued \/ Unservable(job)

IInv == /\ TypeOK /\ SplitInv /\ Unsplit /\ Fresh /\ Runs /\ Threads /\ Single
        /\ InOrder /\ Gapless /\ Explained
-----------------------------------------------------------------------------
(* The parts and the packets.                                              *)

\* Once all jobs are made a part is a range of positions of the file, perhaps
\* an empty one, and no position is in two parts.
LEMMA PartBounds ==
  ASSUME SplitInv, Len(jobs) = job_num
  PROVE  /\ total_size \in Nat
         /\ \A j \in Jobs : /\ First(j) \in Nat /\ First(j) <= total_size
                            /\ End(j) \in Int /\ End(j) <= total_size - 1
                            /\ First(j) <= End(j) + 1
         /\ \A i, j \in Jobs : \A b \in First(i) .. End(i) :
              b \in First(j) .. End(j) => i = j
  <1>1. total_size \in Nat /\ job_num \in Nat \ {0}
    BY BoundsAssumption DEF SplitInv, SplitTypeOK
  <1>2. ASSUME NEW j \in Jobs
        PROVE  /\ First(j) \in Nat /\ First(j) <= total_size
               /\ End(j) \in Int /\ End(j) <= total_size - 1
               /\ First(j) <= End(j) + 1
    <2> DEFINE s == single_length
    <2>1. j \in Nat /\ j + 1 \in 1 .. job_num /\ j + 1 <= job_num
      BY <1>1 DEF Jobs
    <2>2. jobs[j + 1] = Item((j + 1) - 1) /\ (j + 1) - 1 = j
      BY <2>1 DEF SplitInv
    <2>3. First(j) = FileStart(j) /\ End(j) = FileEnd(j)
      BY <2>2 DEF First, End, Item
    <2>4. s \in Nat /\ job_num * s <= total_size /\ job_num * s \in Nat
      BY <1>1, DivisionFits, ProductOrder DEF single_length
    <2> HIDE DEF s
    <2>5. j * s \in Nat /\ (j + 1) * s \in Nat /\ j * s <= (j + 1) * s
      BY <2>1, <2>4, ProductOrder
    <2>6. (j + 1) * s <= job_num * s
      BY <1>1, <2>1, <2>4, ProductOrder
    <2>7. FileStart(j) = j * s /\ FileEnd(j) = IF j = job_num - 1 THEN total_size - 1
                                                                 ELSE (j + 1) * s - 1
      BY DEF FileStart, FileEnd, s
    <2> QED BY <1>1, <2>3, <2>4, <2>5, <2>6, <2>7
  <1>3. ASSUME NEW i \in Jobs, NEW j \in Jobs, NEW b \in First(i) .. End(i),
               b \in First(j) .. End(j)
        PROVE  i = j
    <2>1. i + 1 \in 1 .. job_num /\ j + 1 \in 1 .. job_num /\ i \in Int /\ j \in Int
      BY <1>1 DEF Jobs
    <2>2. b \in Bytes(i + 1) /\ b \in Bytes(j + 1) /\ b \in Int
      BY <1>3 DEF Bytes, First, End
    <2>3. ~(i + 1 < j + 1) /\ ~(j + 1 < i + 1)
      BY <2>1, <2>2, FormulaCovers DEF SplitCovers
    <2> QED BY <2>1, <2>3
  <1> QED BY <1>1, <1>2, <1>3

\* The parts stay what they are while the file and its split do.
LEMMA SameParts ==
  ASSUME UNCHANGED file
  PROVE  /\ Jobs' = Jobs /\ Positions' = Positions /\ faults' = faults
         /\ jobs' = jobs /\ job_num' = job_num /\ total_size' = total_size
         /\ \A j : /\ First(j)' = First(j) /\ End(j)' = End(j)
                   /\ Length(j)' = Length(j) /\ Wanted(j)' = Wanted(j)
                   /\ Unservable(j)' <=> Unservable(j)
  BY DEF file, split_vars, Jobs, Positions, First, End, Length, Wanted, Unservable

\* The bytes of a packet are those from its first to its last one.
LEMMA RunShape ==
  ASSUME NEW c \in Seq(Int), IsRun(c)
  PROVE  /\ Len(c) \in Nat \ {0} /\ 1 \in 1 .. Len(c) /\ c[1] \in Int
         /\ c[Len(c)] = c[1] + Len(c) - 1
         /\ Range(c) = c[1] .. c[Len(c)]
         /\ IsInjective(c)
  <1>1. Len(c) \in Nat \ {0} /\ DOMAIN c = 1 .. Len(c) /\ 1 \in 1 .. Len(c)
    BY EmptySeq, LenProperties DEF IsRun
  <1>2. c[1] \in Int
    BY <1>1, ElementOfSeq
  <1> DEFINE f == c[1]
             n == Len(c)
  <1>3. \A k \in 1 .. n : c[k] = f + k - 1
    BY DEF IsRun
  <1>4. f \in Int /\ n \in Nat \ {0} /\ DOMAIN c = 1 .. n
    BY <1>1, <1>2
  <1> HIDE DEF f, n
  <1>5. c[n] = f + n - 1
    BY <1>3, <1>4
  <1>6. Range(c) = f .. f + n - 1
    <2>1. \A b \in f .. f + n - 1 : b - f + 1 \in 1 .. n /\ c[b - f + 1] = b
      BY <1>3, <1>4
    <2>2. \A k \in 1 .. n : c[k] \in f .. f + n - 1
      BY <1>3, <1>4
    <2> QED BY <1>4, <2>1, <2>2 DEF Range
  <1>7. IsInjective(c)
    BY <1>3, <1>4 DEF IsInjective
  <1> QED BY <1>1, <1>2, <1>5, <1>6, <1>7 DEF f, n

\* A packet of the upload thread begins where the thread is, ends inside its
\* part, and is marked as the last one when it ends with the part.
LEMMA PacketShape ==
  ASSUME TypeOK, SplitInv, Len(jobs) = job_num, NEW j \in Jobs,
         start[j] # NoThread, start[j] < End(j)
  PROVE  /\ start[j] \in Nat /\ PacketEnd(j) \in start[j] .. End(j)
         /\ PacketEnd(j) = IF More(j) THEN start[j] + BufferSize - 1 ELSE End(j)
         /\ Packet(j) \in [content : Seq(Positions), content_is_end : BOOLEAN]
         /\ Packet(j).content_is_end <=> ~More(j)
         /\ IsRun(Packet(j).content)
         /\ Packet(j).content[1] = start[j]
         /\ Packet(j).content[Len(Packet(j).content)] = PacketEnd(j)
         /\ Range(Packet(j).content) = start[j] .. PacketEnd(j)
  <1> DEFINE s == start[j]
             e == PacketEnd(j)
             c == Packet(j).content
  <1>1. s \in Nat /\ End(j) \in Int /\ End(j) <= total_size - 1 /\ s < End(j)
        /\ total_size \in Nat /\ BufferSize \in Nat \ {0, 1}
    BY PartBounds, BufferSizeAssumption DEF TypeOK, NoThread
  <1>2. e \in s .. End(j) /\ e = IF More(j) THEN s + BufferSize - 1 ELSE End(j)
    BY <1>1 DEF PacketEnd, More
  <1>3. c = [k \in 1 .. e - s + 1 |-> s + k - 1]
    BY DEF Packet
  <1>4. Packet(j).content_is_end = ~More(j)
    BY DEF Packet
  <1>5. Packet(j) = [content |-> c, content_is_end |-> ~More(j)]
    BY DEF Packet
  <1> HIDE DEF s, e, c
  <1>6. e - s + 1 \in Nat \ {0} /\ e \in Int
    BY <1>1, <1>2
  <1>7. \A k \in 1 .. e - s + 1 : s + k - 1 \in Positions
    BY <1>1, <1>2, <1>6 DEF Positions
  <1>8. c \in [1 .. e - s + 1 -> Positions]
    BY <1>3, <1>7
  <1>9. c \in Seq(Positions) /\ Len(c) = e - s + 1
    BY <1>6, <1>8, FunctionIsList
  <1>10. c[1] = s /\ \A k \in 1 .. Len(c) : c[k] = c[1] + k - 1
    <2>1. 1 \in 1 .. e - s + 1 /\ s + 1 - 1 = s
      BY <1>1, <1>6
    <2>2. \A k \in 1 .. e - s + 1 : c[k] = s + k - 1
      BY <1>3
    <2> QED BY <1>9, <2>1, <2>2
  <1>11. IsRun(c)
    BY <1>6, <1>9, <1>10, EmptySeq DEF IsRun
  <1>12. c \in Seq(Int)
    BY <1>3, <1>1, <1>6, FunctionIsList
  <1>13. c[Len(c)] = e /\ Range(c) = s .. e
    <2>1. c[Len(c)] = c[1] + Len(c) - 1 /\ Range(c) = c[1] .. c[Len(c)]
      BY <1>11, <1>12, RunShape
    <2>2. s + (e - s + 1) - 1 = e
      BY <1>1, <1>6
    <2> QED BY <1>9, <1>10, <2>1, <2>2
  <1>14. Packet(j) \in [content : Seq(Positions), content_is_end : BOOLEAN]
    BY <1>5, <1>9 DEF More
  <1> QED BY <1>1, <1>2, <1>4, <1>10, <1>11, <1>13, <1>14 DEF s, e, c

\* The jobs are all made once one of them is taken.
LEMMA SplitDone ==
  ASSUME Unsplit, \/ todo # Jobs \/ state # "idle" \/ net # << >> \/ asked # {}
                  \/ \E j \in Jobs : start[j] # NoThread
  PROVE  Len(jobs) = job_num
  BY DEF Unsplit
-----------------------------------------------------------------------------
(* Types, and what is asked for when.                                      *)

Basics == TypeOK /\ SplitInv /\ Unsplit /\ Fresh /\ Runs

\* Only the fault "duplicate" makes copies.
LEMMA NoCopies == ASSUME "duplicate" \notin faults PROVE ~Duplicates
  BY DEF Duplicates, DuplicateRequest, DuplicatePacket

\* The types of the variables, one by one.
LEMMA TypesOf ==
  ASSUME TypeOK
  PROVE  /\ temp \in [Jobs -> Seq(Positions)] /\ start \in [Jobs -> 0 .. total_size \cup {NoThread}]
         /\ result \in [Jobs -> {"none", "ended", "timeout"}]
         /\ net \in Seq([content : Seq(Positions), content_is_end : BOOLEAN])
         /\ Len(net) \in Nat /\ DOMAIN net = 1 .. Len(net)
         /\ \A n \in 1 .. Len(net) : /\ net[n].content \in Seq(Positions)
                                     /\ net[n].content \in Seq(Int)
                                     /\ net[n].content_is_end \in BOOLEAN
         /\ job \in Jobs \cup {NoJob} /\ NoJob \notin Jobs
         /\ state \in {"idle", "recv", "closed"}
  <1>1. net \in Seq([content : Seq(Positions), content_is_end : BOOLEAN])
    BY DEF TypeOK
  <1>2. /\ Len(net) \in Nat /\ DOMAIN net = 1 .. Len(net)
        /\ \A n \in 1 .. Len(net) : net[n] \in [content : Seq(Positions), content_is_end : BOOLEAN]
    BY <1>1, LenProperties, ElementOfSeq
  <1>3. NoJob \notin Jobs
    BY DEF NoJob, Jobs
  <1>4. ASSUME NEW c \in Seq(Positions) PROVE c \in Seq(Int)
    <2>1. Positions \subseteq Int
      BY DEF Positions
    <2>2. Len(c) \in Nat /\ c \in [1 .. Len(c) -> Positions]
      BY LenProperties
    <2>3. c \in [1 .. Len(c) -> Int]
      BY <2>1, <2>2
    <2> QED BY <2>2, <2>3, FunctionIsList
  <1>5. \A n \in 1 .. Len(net) : /\ net[n].content \in Seq(Positions)
                                 /\ net[n].content_is_end \in BOOLEAN
    BY <1>2
  <1>6. /\ temp \in [Jobs -> Seq(Positions)]
        /\ start \in [Jobs -> 0 .. total_size \cup {NoThread}]
        /\ result \in [Jobs -> {"none", "ended", "timeout"}]
        /\ job \in Jobs \cup {NoJob} /\ state \in {"idle", "recv", "closed"}
    BY DEF TypeOK
  <1> QED BY <1>1, <1>2, <1>3, <1>4, <1>5, <1>6

\* Making a job leaves the rest as it is at the beginning.
LEMMA SplitBasics ==
  ASSUME Basics, Split
  PROVE  Basics' /\ Jobs' = Jobs /\ Len(jobs) # job_num
  <1>1. SplitInv'
    BY NextSplit DEF Basics, Split, SplitNext
  <1>2. /\ Jobs' = Jobs /\ Positions' = Positions /\ Len(jobs) # job_num
    BY DEF Split, AddJob, Jobs, Positions
  <1>3. TypeOK'
    BY <1>1, <1>2 DEF Basics, Split, AddJob, transfer, TypeOK, SplitInv
  <1>4. Unsplit' /\ Fresh' /\ Runs'
    BY <1>2 DEF Basics, Split, transfer, Unsplit, Fresh, Runs
  <1> QED BY <1>1, <1>2, <1>3, <1>4 DEF Basics

\* Reading or losing a datagram leaves the others.
LEMMA NetShrinks ==
  ASSUME TypeOK, Runs, NEW i \in 1 .. Len(net), net' = RemoveAt(net, i), UNCHANGED file
  PROVE  /\ net' \in Seq([content : Seq(Positions), content_is_end : BOOLEAN])
         /\ Len(net') = Len(net) - 1 /\ Len(net) \in Nat /\ Runs'
         /\ \A n \in 1 .. Len(net') : net'[n] = net[IF n < i THEN n ELSE n + 1]
         /\ \A n \in 1 .. Len(net') : (IF n < i THEN n ELSE n + 1) \in 1 .. Len(net)
  <1>1. /\ net \in Seq([content : Seq(Positions), content_is_end : BOOLEAN])
        /\ Len(net) \in Nat
    BY TypesOf
  <1>2. /\ net' \in Seq([content : Seq(Positions), content_is_end : BOOLEAN])
        /\ Len(net') = Len(net) - 1
        /\ \A n \in 1 .. Len(net) - 1 : net'[n] = IF n < i THEN net[n] ELSE net[n + 1]
    BY <1>1, RemoveItem
  <1>3. \A n \in 1 .. Len(net') : (IF n < i THEN n ELSE n + 1) \in 1 .. Len(net)
    BY <1>1, <1>2
  <1>4. \A n \in 1 .. Len(net') : net'[n] = net[IF n < i THEN n ELSE n + 1]
    BY <1>2
  <1>5. Runs'
    BY <1>3, <1>4 DEF Runs
  <1> QED BY <1>1, <1>2, <1>3, <1>4, <1>5

\* A copy of a packet next to it is a run of bytes as the packet is.
LEMMA NetCopies ==
  ASSUME TypeOK, Runs, NEW i \in 1 .. Len(net), net' = InsertAt(net, i, net[i])
  PROVE  /\ net' \in Seq([content : Seq(Positions), content_is_end : BOOLEAN])
         /\ Runs'
  <1> DEFINE S == [content : Seq(Positions), content_is_end : BOOLEAN]
  <1>1. net \in Seq(S) /\ Len(net) \in Nat /\ net[i] \in S
    BY TypesOf, ElementOfSeq
  <1> HIDE DEF S
  <1>2. /\ net' \in Seq(S) /\ Len(net') = Len(net) + 1
        /\ \A n \in 1 .. Len(net) + 1 :
             net'[n] = IF n < i THEN net[n] ELSE IF n = i THEN net[i] ELSE net[n - 1]
    BY <1>1, InsertItem
  <1>3. ASSUME NEW n \in 1 .. Len(net') PROVE \E m \in 1 .. Len(net) : net'[n] = net[m]
    <2>1. net'[n] = IF n < i THEN net[n] ELSE IF n = i THEN net[i] ELSE net[n - 1]
      BY <1>2
    <2>2. CASE n <= i
      BY <1>1, <1>2, <2>1, <2>2
    <2>3. CASE n > i
      <3>1. n - 1 \in 1 .. Len(net) /\ net'[n] = net[n - 1]
        BY <1>1, <1>2, <2>1, <2>3
      <3> QED BY <3>1
    <2> QED BY <1>1, <1>2, <2>2, <2>3
  <1>4. Runs'
    BY <1>3 DEF Runs
  <1> QED BY <1>2, <1>4 DEF S

\* A packet more leaves the others where they are.
LEMMA NetGrows ==
  ASSUME Basics, Len(jobs) = job_num, NEW j \in Jobs, start[j] # NoThread, start[j] < End(j),
         net' = Append(net, Packet(j)), UNCHANGED file
  PROVE  /\ net' \in Seq([content : Seq(Positions), content_is_end : BOOLEAN])
         /\ Len(net') = Len(net) + 1 /\ Len(net) \in Nat /\ Runs'
         /\ \A n \in 1 .. Len(net) : net'[n] = net[n]
         /\ net'[Len(net) + 1] = Packet(j)
  <1>1. /\ net \in Seq([content : Seq(Positions), content_is_end : BOOLEAN])
        /\ Len(net) \in Nat
    BY TypesOf DEF Basics
  <1>2. /\ Packet(j) \in [content : Seq(Positions), content_is_end : BOOLEAN]
        /\ IsRun(Packet(j).content)
    BY PacketShape DEF Basics
  <1>3. /\ net' \in Seq([content : Seq(Positions), content_is_end : BOOLEAN])
        /\ Len(net') = Len(net) + 1
        /\ \A n \in 1 .. Len(net) : net'[n] = net[n]
        /\ net'[Len(net) + 1] = Packet(j)
    BY <1>1, <1>2, AppendProperties
  <1>4. Runs'
    BY <1>1, <1>2, <1>3 DEF Basics, Runs
  <1> QED BY <1>1, <1>3, <1>4

\* Every other step keeps the types, and asks for a part only once.
LEMMA StepBasics ==
  ASSUME Basics, Next, ~Split
  PROVE  Basics' /\ UNCHANGED file
  <1>0. UNCHANGED file
    BY DEF Next, Worker, Server, Faults, Terminated, vars, file, transfer, Begin, Leave,
           Receive, Timeout, StartUpload, SendPacket, EndUpload, Loses, LoseRequest, LosePacket,
           Duplicates, DuplicateRequest, DuplicatePacket, Die
  <1> SUFFICES Basics'
    BY <1>0
  <1>1. /\ Jobs' = Jobs /\ Positions' = Positions /\ SplitInv' /\ total_size' = total_size
        /\ jobs' = jobs /\ job_num' = job_num
        /\ SplitTypeOK' /\ faults' = faults /\ faults \subseteq Fault
    BY <1>0, SameParts, NextSplit DEF file, Basics, SplitInv, TypeOK, split_vars
  <1>2. TypeOK /\ Unsplit /\ Fresh /\ Runs
    BY DEF Basics
  <1> USE DEF Basics
  <1>3. ASSUME NEW j \in Jobs, Begin(j) PROVE Basics'
    <2>1. TypeOK'
      BY <1>1, <1>3, EmptySeq DEF Begin, TypeOK
    <2>2. Fresh'
      BY <1>1, <1>3, TypesOf DEF Begin, Fresh, TypeOK
    <2> QED BY <1>1, <1>3, <2>1, <2>2 DEF Begin, Unsplit, Runs
  <1>4. CASE Leave
    <2>1. Jobs # {}
      BY BoundsAssumption DEF SplitInv, SplitTypeOK, Jobs
    <2>2. Unsplit'
      BY <1>1, <1>4, <2>1 DEF Leave, Unsplit
    <2> QED BY <1>1, <1>4, <2>2 DEF Leave, TypeOK, Fresh, Runs
  <1>5. ASSUME NEW i \in 1 .. Len(net), Receive(i) PROVE Basics'
    <2>1. /\ net' \in Seq([content : Seq(Positions), content_is_end : BOOLEAN]) /\ Runs'
      BY <1>0, <1>5, NetShrinks DEF Receive
    <2>2. job \in Jobs /\ net[i].content \in Seq(Positions)
      BY <1>5, TypesOf DEF Receive, Fresh
    <2>3. temp[job] \o net[i].content \in Seq(Positions)
      BY <2>2, TypesOf, ConcatProperties
    <2>4. temp' \in [Jobs -> Seq(Positions)]
      BY <1>5, <2>3, TypesOf DEF Receive
    <2>5. /\ result' \in [Jobs -> {"none", "ended", "timeout"}]
          /\ state' \in {"idle", "recv", "closed"}
          /\ job' \in Jobs \cup {NoJob}
      BY <1>5, TypesOf DEF Receive
    <2>6. TypeOK'
      BY <1>1, <1>5, <2>1, <2>4, <2>5 DEF Receive, TypeOK
    <2>7. Fresh'
      <3>1. /\ todo' = todo /\ asked' = asked /\ start' = start /\ job \notin todo
            /\ \A j \in Jobs : j # job => temp'[j] = temp[j] /\ result'[j] = result[j]
        BY <1>5, <2>2, TypesOf DEF Receive, Fresh
      <3>2. todo \subseteq Jobs
        BY DEF TypeOK
      <3>3. CASE net[i].content_is_end
        BY <1>5, <3>1, <3>2, <3>3 DEF Receive, Fresh
      <3>4. CASE ~net[i].content_is_end
        BY <1>5, <3>1, <3>2, <3>4 DEF Receive, Fresh
      <3> QED BY <3>3, <3>4
    <2>8. Unsplit'
      BY <1>1, <1>5 DEF Receive, Unsplit
    <2> QED BY <1>1, <2>1, <2>6, <2>7, <2>8
  <1>6. CASE Timeout
    <2>1. TypeOK' /\ Fresh'
      BY <1>1, <1>6, TypesOf DEF Timeout, TypeOK, Fresh
    <2> QED BY <1>1, <1>6, <2>1 DEF Timeout, Unsplit, Runs
  <1>7. ASSUME NEW j \in Jobs, StartUpload(j) PROVE Basics'
    <2>1. Len(jobs) = job_num
      BY <1>7 DEF StartUpload, Unsplit
    <2>2. First(j) \in 0 .. total_size
      BY <2>1, PartBounds
    <2>3. TypeOK' /\ Fresh'
      BY <1>1, <1>7, <2>2, TypesOf DEF StartUpload, TypeOK, Fresh
    <2> QED BY <1>1, <1>7, <2>1, <2>3 DEF StartUpload, Unsplit, Runs
  <1>8. ASSUME NEW j \in Jobs, SendPacket(j) PROVE Basics'
    <2>1. Len(jobs) = job_num
      BY <1>8 DEF SendPacket, Unsplit
    <2>2. /\ net' \in Seq([content : Seq(Positions), content_is_end : BOOLEAN]) /\ Runs'
      BY <1>0, <1>8, <2>1, NetGrows DEF SendPacket
    <2>3. PacketEnd(j) + 1 \in 0 .. total_size
      BY <1>8, <2>1, PacketShape, PartBounds DEF SendPacket
    <2>4. TypeOK' /\ Fresh'
      BY <1>1, <1>8, <2>2, <2>3, TypesOf DEF SendPacket, TypeOK, Fresh
    <2> QED BY <1>1, <1>8, <2>1, <2>2, <2>4 DEF SendPacket, Unsplit
  <1>9. ASSUME NEW j \in Jobs, EndUpload(j) PROVE Basics'
    <2>1. TypeOK' /\ Fresh'
      BY <1>1, <1>9, TypesOf DEF EndUpload, TypeOK, Fresh
    <2> QED BY <1>1, <1>9, <2>1 DEF EndUpload, Unsplit, Runs
  <1>10. ASSUME NEW j \in Jobs, LoseRequest(j) PROVE Basics'
    BY <1>1, <1>10 DEF LoseRequest, TypeOK, Fresh, Unsplit, Runs
  <1>11. ASSUME NEW i \in 1 .. Len(net), LosePacket(i) PROVE Basics'
    <2>1. /\ net' \in Seq([content : Seq(Positions), content_is_end : BOOLEAN]) /\ Runs'
      BY <1>0, <1>11, NetShrinks DEF LosePacket
    <2>2. TypeOK' /\ Fresh'
      BY <1>1, <1>11, <2>1 DEF LosePacket, TypeOK, Fresh
    <2> QED BY <1>1, <1>11, <2>1, <2>2 DEF LosePacket, Unsplit
  <1>12. CASE Die
    BY <1>1, <1>12 DEF Die, TypeOK, Fresh, Unsplit, Runs
  <1>13. CASE UNCHANGED vars
    BY <1>1, <1>13 DEF vars, transfer, TypeOK, Fresh, Unsplit, Runs
  <1>14. \A i \in DOMAIN net : i \in 1 .. Len(net)
    BY TypesOf
  <1>15. ASSUME NEW j \in Jobs, DuplicateRequest(j) PROVE Basics'
    <2>1. copies' \in 0 .. MaxCopies
      BY <1>15, MaxCopiesAssumption DEF DuplicateRequest, TypeOK
    <2>2. TypeOK' /\ Fresh'
      BY <1>1, <1>15, <2>1 DEF DuplicateRequest, TypeOK, Fresh
    <2> QED BY <1>1, <1>15, <2>2 DEF DuplicateRequest, Unsplit, Runs
  <1>16. ASSUME NEW i \in 1 .. Len(net), DuplicatePacket(i) PROVE Basics'
    <2>1. /\ net' \in Seq([content : Seq(Positions), content_is_end : BOOLEAN]) /\ Runs'
      BY <1>16, NetCopies DEF DuplicatePacket
    <2>2. copies' \in 0 .. MaxCopies
      BY <1>16, MaxCopiesAssumption DEF DuplicatePacket, TypeOK
    <2>3. TypeOK' /\ Fresh'
      BY <1>1, <1>16, <2>1, <2>2 DEF DuplicatePacket, TypeOK, Fresh
    <2>4. Unsplit'
      BY <1>1, <1>16, EmptySeq DEF DuplicatePacket, Unsplit
    <2> QED BY <1>1, <2>1, <2>3, <2>4
  <1> QED
    BY <1>3, <1>4, <1>5, <1>6, <1>7, <1>8, <1>9, <1>10, <1>11, <1>12, <1>13, <1>14, <1>15, <1>16
    DEF Next, Worker, Server, Faults, Loses, Duplicates, Terminated
-----------------------------------------------------------------------------
(* A byte is in one place only.                                            *)

\* A thread starts at the first byte of its part and only moves on.
LEMMA StepThreads ==
  ASSUME Basics, Threads, Next
  PROVE  Threads'
  <1>1. CASE Split
    BY <1>1, SplitBasics DEF Basics, Unsplit, Split, transfer, Threads
  <1> SUFFICES ASSUME ~Split PROVE Threads'
    BY <1>1
  <1>2. UNCHANGED file
    BY StepBasics
  <1>3. Jobs' = Jobs /\ (\A j : First(j)' = First(j)) /\ start \in [Jobs -> 0 .. total_size \cup {NoThread}]
    BY <1>2, SameParts, TypesOf DEF Basics
  <1>4. ASSUME NEW j \in Jobs, Begin(j) PROVE Threads'
    BY <1>3, <1>4 DEF Begin, Threads, Basics, Fresh
  <1>5. ASSUME NEW j \in Jobs, StartUpload(j) PROVE Threads'
    <2>1. First(j) \in Int
      BY <1>5, PartBounds, SplitDone DEF StartUpload, Basics
    <2> QED BY <1>3, <1>5, <2>1 DEF StartUpload, Threads
  <1>6. ASSUME NEW j \in Jobs, SendPacket(j) PROVE Threads'
    <2>1. Len(jobs) = job_num
      BY <1>6, SplitDone DEF SendPacket, Basics
    <2>2. PacketEnd(j) \in start[j] .. End(j) /\ start[j] \in Nat /\ First(j) \in Nat /\ End(j) \in Int
      BY <1>6, <2>1, PacketShape, PartBounds DEF SendPacket, Basics
    <2>3. start[j] <= PacketEnd(j) + 1
      BY <2>2
    <2>4. First(j) <= PacketEnd(j) + 1
      BY <1>6, <2>2 DEF SendPacket, Threads
    <2> QED BY <1>3, <1>6, <2>4 DEF SendPacket, Threads
  <1>7. ASSUME NEW j \in Jobs, EndUpload(j) PROVE Threads'
    BY <1>3, <1>7 DEF EndUpload, Threads
  <1>8. CASE start' = start /\ asked' \subseteq asked
    BY <1>3, <1>8 DEF Threads
  <1>9. ASSUME NEW j \in Jobs, DuplicateRequest(j) PROVE Threads'
    BY <1>3, <1>9 DEF DuplicateRequest, Threads
  <1> QED
    BY <1>4, <1>5, <1>6, <1>7, <1>8, <1>9
    DEF Next, Worker, Server, Faults, Loses, Duplicates, Terminated, vars, transfer, Leave, Receive,
        Timeout, LoseRequest, LosePacket, DuplicatePacket, Die

\* What was sent stays sent.
LEMMA StaysSent ==
  ASSUME Basics, Threads, Next, ~Split, "duplicate" \notin faults, NEW b, Sent(b)
  PROVE  Sent(b)'
  <1>1. UNCHANGED file
    BY StepBasics
  <1>2. PICK i \in Jobs \ (todo \cup asked) :
          b \in First(i) .. End(i) /\ (start[i] # NoThread => b < start[i])
    BY DEF Sent
  <1>3. /\ Jobs' = Jobs /\ First(i)' = First(i) /\ End(i)' = End(i)
        /\ start \in [Jobs -> 0 .. total_size \cup {NoThread}]
    BY <1>1, SameParts, TypesOf DEF Basics
  <1>4. i \notin todo' /\ i \notin asked'
    BY <1>2, NoCopies
    DEF Next, Worker, Server, Faults, Loses, Terminated, vars, transfer, Begin, Leave, Receive,
        Timeout, StartUpload, SendPacket, EndUpload, LoseRequest, LosePacket, Die
  <1>5. ASSUME start'[i] # NoThread PROVE b < start'[i]
    <2>1. ASSUME NEW j \in Jobs, SendPacket(j) PROVE b < start'[i]
      <3>1. Len(jobs) = job_num
        BY <2>1, SplitDone DEF SendPacket, Basics
      <3>2. PacketEnd(j) \in start[j] .. End(j) /\ start[j] \in Nat /\ End(j) \in Int
        BY <2>1, <3>1, PacketShape, PartBounds DEF SendPacket, Basics
      <3>3. First(i) \in Int /\ End(i) \in Int
        BY <1>2, <3>1, PartBounds DEF Basics
      <3>4. CASE i = j
        <4>1. start'[i] = PacketEnd(j) + 1 /\ b < start[j] /\ b \in Int
          BY <1>2, <1>3, <2>1, <3>3, <3>4 DEF SendPacket
        <4> QED BY <3>2, <4>1
      <3>5. CASE i # j
        BY <1>2, <1>3, <1>5, <2>1, <3>5 DEF SendPacket
      <3> QED BY <3>4, <3>5
    <2>2. ASSUME NEW j \in Jobs, StartUpload(j) \/ EndUpload(j) PROVE b < start'[i]
      BY <1>2, <1>3, <1>5, <2>2 DEF StartUpload, EndUpload
    <2>3. CASE start' = start
      BY <1>2, <1>5, <2>3
    <2> QED
      BY <2>1, <2>2, <2>3, NoCopies
      DEF Next, Worker, Server, Faults, Loses, Terminated, vars, transfer, Begin, Leave, Receive,
          Timeout, LoseRequest, LosePacket, Die
  <1> QED BY <1>2, <1>3, <1>4, <1>5 DEF Sent

\* The bytes that a thread puts in a packet were not sent before, and are then.
LEMMA SendsNew ==
  ASSUME Basics, Threads, NEW j \in Jobs, SendPacket(j)
  PROVE  /\ \A b \in Range(Packet(j).content) : ~Sent(b) /\ Sent(b)'
  <1>1. Len(jobs) = job_num
    BY SplitDone DEF SendPacket, Basics
  <1>2. /\ start[j] \in Nat /\ PacketEnd(j) \in start[j] .. End(j) /\ End(j) \in Int
        /\ Range(Packet(j).content) = start[j] .. PacketEnd(j)
        /\ First(j) \in Nat /\ First(j) <= start[j]
    BY <1>1, PacketShape, PartBounds DEF SendPacket, Basics, Threads
  <1>3. ASSUME NEW b \in Range(Packet(j).content) PROVE ~Sent(b) /\ Sent(b)'
    <2>1. b \in Int /\ b \in First(j) .. End(j) /\ start[j] <= b /\ b < PacketEnd(j) + 1
      BY <1>2
    <2>2. ~Sent(b)
      <3>1. SUFFICES ASSUME Sent(b) PROVE FALSE
        OBVIOUS
      <3>2. PICK i \in Jobs : b \in First(i) .. End(i) /\ (start[i] # NoThread => b < start[i])
        BY <3>1 DEF Sent
      <3>3. i = j
        BY <1>1, <2>1, <3>2, PartBounds DEF Basics
      <3> QED BY <1>2, <2>1, <3>2, <3>3 DEF SendPacket
    <2>3. Sent(b)'
      <3>1. UNCHANGED <<file, todo, asked>> /\ j \notin todo /\ j \notin asked
        BY DEF SendPacket, Basics, Fresh, Threads
      <3>2. start'[j] = PacketEnd(j) + 1
        BY TypesOf DEF SendPacket, Basics
      <3> QED BY <2>1, <3>1, <3>2, SameParts DEF Sent
    <2> QED BY <2>2, <2>3
  <1> QED BY <1>3

\* Unless the network duplicates datagrams, no step makes a second copy of a
\* byte.
LEMMA StepOnce ==
  ASSUME Basics, Threads, Once, Next, "duplicate" \notin faults
  PROVE  Once'
  <1>1. CASE Split
    <2>1. Jobs' = Jobs /\ todo = Jobs /\ net = << >> /\ UNCHANGED transfer
      BY <1>1, SplitBasics DEF Basics, Unsplit, Split
    <2>2. \A j \in Jobs : temp[j] = << >>
      BY <2>1 DEF Basics, Fresh
    <2>3. /\ Len(net') = 0 /\ temp' = temp
          /\ \A j \in Jobs : Range(temp[j]) = {} /\ IsInjective(temp[j])
      BY <2>1, <2>2, EmptySeq DEF Range, IsInjective, transfer
    <2>4. \A n \in 1 .. Len(net') : FALSE
      BY <2>3
    <2> QED BY <2>1, <2>3, <2>4 DEF Once
  <1> SUFFICES ASSUME ~Split PROVE Once'
    BY <1>1
  <1>2. UNCHANGED file
    BY StepBasics
  <1>3. Jobs' = Jobs
    BY <1>2, SameParts
  <1>4. \A b : Sent(b) => Sent(b)'
    BY StaysSent
  <1>5. CASE UNCHANGED <<net, temp>>
    BY <1>3, <1>4, <1>5 DEF Once
  <1>6. ASSUME NEW j \in Jobs, Begin(j) PROVE Once'
    <2>1. net' = net /\ temp' = temp
      BY <1>6, TypesOf DEF Begin, Basics, Fresh
    <2> QED BY <1>5, <2>1
  <1>7. ASSUME NEW i \in 1 .. Len(net), net' = RemoveAt(net, i),
               \/ temp' = temp
               \/ state = "recv" /\ temp' = [temp EXCEPT ![job] = @ \o net[i].content]
        PROVE  Once'
    <2> DEFINE f(n) == IF n < i THEN n ELSE n + 1
    <2>1. /\ \A n \in 1 .. Len(net') : net'[n] = net[f(n)] /\ f(n) \in 1 .. Len(net)
          /\ Len(net) \in Nat /\ Len(net') = Len(net) - 1
      BY <1>2, <1>7, NetShrinks DEF Basics
    <2>2. /\ \A n \in 1 .. Len(net') : f(n) # i
          /\ \A n, m \in 1 .. Len(net') : n # m => f(n) # f(m)
      BY <2>1
    <2> HIDE DEF f
    <2>3. CASE temp' = temp
      BY <1>3, <1>4, <2>1, <2>2, <2>3 DEF Once
    <2>4. CASE state = "recv" /\ temp' = [temp EXCEPT ![job] = @ \o net[i].content]
      <3> DEFINE c == net[i].content
      <3>1. job \in Jobs /\ c \in Seq(Positions) /\ temp \in [Jobs -> Seq(Positions)] /\ c \in Seq(Int)
        BY <2>4, TypesOf DEF Basics, Fresh
      <3>2. IsInjective(c)
        BY <3>1, RunShape DEF Basics, Runs
      <3>3. Range(c) \cap Range(temp[job]) = {} /\ IsInjective(temp[job])
        BY <3>1 DEF Once
      <3>4. temp'[job] = temp[job] \o c /\ \A j \in Jobs : j # job => temp'[j] = temp[j]
        BY <2>4, <3>1
      <3>5. Range(temp'[job]) = Range(temp[job]) \cup Range(c) /\ IsInjective(temp'[job])
        <4>1. temp[job] \in Seq(Positions)
          BY <3>1
        <4>2. Range(temp[job]) \cap Range(c) = {}
          BY <3>3
        <4> HIDE DEF c
        <4> QED BY <3>1, <3>2, <3>3, <3>4, <4>1, <4>2, JoinLists
      <3>6. \A j \in Jobs : \A b \in Range(temp'[j]) : Sent(b)'
        BY <1>4, <3>1, <3>4, <3>5 DEF Once
      <3>7. \A n \in 1 .. Len(net') : \A b \in Range(net'[n].content) : Sent(b)'
        BY <1>4, <2>1 DEF Once
      <3>8. \A n, m \in 1 .. Len(net') :
              n # m => Range(net'[n].content) \cap Range(net'[m].content) = {}
        BY <2>1, <2>2 DEF Once
      <3>9. \A n \in 1 .. Len(net') : Range(net'[n].content) \cap Range(c) = {}
        BY <2>1, <2>2 DEF Once
      <3>10. \A n \in 1 .. Len(net') : \A j \in Jobs :
               Range(net'[n].content) \cap Range(temp'[j]) = {}
        <4> TAKE n \in 1 .. Len(net')
        <4> TAKE j \in Jobs
        <4>1. Range(net'[n].content) \cap Range(temp[j]) = {}
          BY <2>1 DEF Once
        <4>2. Range(temp'[j]) \subseteq Range(temp[j]) \cup Range(c)
          BY <3>4, <3>5
        <4> QED BY <3>9, <4>1, <4>2
      <3>11. \A k \in Jobs : Range(c) \cap Range(temp[k]) = {}
        BY DEF Once
      <3>12. \A k, j \in Jobs : k # j => Range(temp'[k]) \cap Range(temp'[j]) = {}
        <4> TAKE k \in Jobs, j \in Jobs
        <4>0. SUFFICES ASSUME k # j PROVE Range(temp'[k]) \cap Range(temp'[j]) = {}
          OBVIOUS
        <4>1. Range(temp[k]) \cap Range(temp[j]) = {}
          BY <4>0 DEF Once
        <4>2. CASE k = job
          BY <3>4, <3>5, <3>11, <4>0, <4>1, <4>2
        <4>3. CASE j = job
          BY <3>4, <3>5, <3>11, <4>0, <4>1, <4>3
        <4>4. CASE k # job /\ j # job
          BY <3>4, <4>1, <4>4
        <4> QED BY <4>2, <4>3, <4>4
      <3>13. \A j \in Jobs : IsInjective(temp'[j])
        BY <3>4, <3>5 DEF Once
      <3> QED BY <1>3, <3>6, <3>7, <3>8, <3>10, <3>12, <3>13 DEF Once
    <2> QED BY <1>7, <2>3, <2>4
  <1>8. ASSUME NEW j \in Jobs, SendPacket(j) PROVE Once'
    <2> DEFINE c == Packet(j).content
               l == Len(net)
    <2>0. Len(jobs) = job_num
      BY <1>8, SplitDone DEF SendPacket, Basics
    <2>1. /\ l \in Nat /\ Len(net') = l + 1
          /\ \A n \in 1 .. l : net'[n] = net[n]
          /\ net'[l + 1].content = c
      BY <1>2, <1>8, <2>0, NetGrows DEF SendPacket
    <2>2. \A b \in Range(c) : ~Sent(b) /\ Sent(b)'
      BY <1>8, SendsNew
    <2>3. temp' = temp
      BY <1>8 DEF SendPacket
    <2> HIDE DEF c, l
    <2>4. \A n \in 1 .. l + 1 : n \in 1 .. l \/ n = l + 1
      BY <2>1
    <2>5. /\ \A n \in 1 .. l : Range(net[n].content) \cap Range(c) = {}
          /\ \A k \in Jobs : Range(temp[k]) \cap Range(c) = {}
      BY <2>2 DEF Once, l
    <2>6. \A n \in 1 .. Len(net') : \A b \in Range(net'[n].content) : Sent(b)'
      BY <1>4, <2>1, <2>2, <2>4 DEF Once, l
    <2>7. \A n, m \in 1 .. Len(net') :
            n # m => Range(net'[n].content) \cap Range(net'[m].content) = {}
      <3> TAKE n \in 1 .. Len(net'), m \in 1 .. Len(net')
      <3>0. SUFFICES ASSUME n # m PROVE Range(net'[n].content) \cap Range(net'[m].content) = {}
        OBVIOUS
      <3>1. CASE n \in 1 .. l /\ m \in 1 .. l
        BY <2>1, <3>0, <3>1 DEF Once, l
      <3>2. CASE n = l + 1 /\ m \in 1 .. l
        BY <2>1, <2>5, <3>2
      <3>3. CASE n \in 1 .. l /\ m = l + 1
        BY <2>1, <2>5, <3>3
      <3> QED BY <2>1, <2>4, <3>0, <3>1, <3>2, <3>3
    <2>8. \A n \in 1 .. Len(net') : \A k \in Jobs :
            Range(net'[n].content) \cap Range(temp[k]) = {}
      <3> TAKE n \in 1 .. Len(net')
      <3> TAKE k \in Jobs
      <3>1. CASE n \in 1 .. l
        BY <2>1, <3>1 DEF Once, l
      <3>2. CASE n = l + 1
        BY <2>1, <2>5, <3>2
      <3> QED BY <2>1, <2>4, <3>1, <3>2
    <2> QED BY <1>3, <1>4, <2>3, <2>6, <2>7, <2>8 DEF Once
  <1>9. \A i \in DOMAIN net : i \in 1 .. Len(net)
    BY TypesOf DEF Basics
  <1> QED
    BY <1>5, <1>6, <1>7, <1>8, <1>9, NoCopies
    DEF Next, Worker, Server, Faults, Loses, Terminated, vars, transfer, Leave, Receive, Timeout,
        StartUpload, EndUpload, LoseRequest, LosePacket, Die
-----------------------------------------------------------------------------
(* The order of the bytes.                                                 *)

\* A packet on the net holds the bytes from its first to its last one.
LEMMA PacketOnNet ==
  ASSUME TypeOK, Runs, NEW n \in 1 .. Len(net)
  PROVE  /\ FirstOf(n) \in Int /\ LastOf(n) \in Int /\ FirstOf(n) <= LastOf(n)
         /\ Range(net[n].content) = FirstOf(n) .. LastOf(n)
         /\ net[n].content \in Seq(Positions)
         /\ Len(net[n].content) \in Nat \ {0}
         /\ LastOf(n) = FirstOf(n) + Len(net[n].content) - 1
         /\ \A k \in 1 .. Len(net[n].content) : net[n].content[k] = FirstOf(n) + k - 1
  <1>1. net[n].content \in Seq(Int) /\ IsRun(net[n].content) /\ net[n].content \in Seq(Positions)
    BY TypesOf DEF Runs
  <1> DEFINE c == net[n].content
  <1>2. /\ Len(c) \in Nat \ {0} /\ c[1] \in Int /\ c[Len(c)] = c[1] + Len(c) - 1
        /\ Range(c) = c[1] .. c[Len(c)]
    BY <1>1, RunShape
  <1>3. \A k \in 1 .. Len(c) : c[k] = c[1] + k - 1
    BY <1>1 DEF IsRun
  <1>4. FirstOf(n) = c[1] /\ LastOf(n) = c[Len(c)]
    BY DEF FirstOf, LastOf
  <1> QED BY <1>1, <1>2, <1>3, <1>4

\* The place a packet had before the i-th was taken away.
Before(i, n) == IF n < i THEN n ELSE n + 1

\* The packets that are left, in terms of those that were there.
LEMMA LeftOnNet ==
  ASSUME TypeOK, Runs, NEW i \in 1 .. Len(net), net' = RemoveAt(net, i), UNCHANGED file
  PROVE  /\ Len(net) \in Nat \ {0} /\ Len(net') = Len(net) - 1
         /\ \A n \in 1 .. Len(net') :
              /\ Before(i, n) \in 1 .. Len(net) /\ Before(i, n) # i
              /\ FirstOf(n)' = FirstOf(Before(i, n)) /\ LastOf(n)' = LastOf(Before(i, n))
              /\ net'[n].content_is_end = net[Before(i, n)].content_is_end
              /\ Range(net'[n].content) = Range(net[Before(i, n)].content)
              /\ Before(i, n) = Len(net) => n = Len(net')
              /\ \A m \in 1 .. Len(net') : n < m => Before(i, n) < Before(i, m)
  <1>1. /\ Len(net') = Len(net) - 1 /\ Len(net) \in Nat
        /\ \A n \in 1 .. Len(net') : net'[n] = net[Before(i, n)] /\ Before(i, n) \in 1 .. Len(net)
    BY NetShrinks DEF Before
  <1>2. ASSUME NEW n \in 1 .. Len(net')
        PROVE  /\ Before(i, n) # i
               /\ Before(i, n) = Len(net) => n = Len(net')
               /\ \A m \in 1 .. Len(net') : n < m => Before(i, n) < Before(i, m)
    BY <1>1 DEF Before
  <1>3. ASSUME NEW n \in 1 .. Len(net')
        PROVE  FirstOf(n)' = FirstOf(Before(i, n)) /\ LastOf(n)' = LastOf(Before(i, n))
    BY <1>1 DEF FirstOf, LastOf
  <1> QED BY <1>1, <1>2, <1>3

\* The packets after one was sent: those that were there, and the new one.
LEMMA MoreOnNet ==
  ASSUME Basics, UNCHANGED file, NEW j \in Jobs, SendPacket(j)
  PROVE  /\ Len(net) \in Nat /\ Len(net') = Len(net) + 1
         /\ \A n \in 1 .. Len(net') : n = Len(net) + 1 \/ n \in 1 .. Len(net)
         /\ \A n \in 1 .. Len(net) :
              FirstOf(n)' = FirstOf(n) /\ LastOf(n)' = LastOf(n) /\ net'[n] = net[n]
         /\ \A n : n = Len(net) + 1 =>
              /\ FirstOf(n)' = start[j] /\ LastOf(n)' = PacketEnd(j)
              /\ Range(net'[n].content) = start[j] .. PacketEnd(j)
              /\ net'[n].content_is_end <=> ~More(j)
         /\ start[j] \in Nat /\ start[j] < End(j) /\ PacketEnd(j) \in start[j] .. End(j)
         /\ End(j) \in Int /\ First(j) \in Nat
         /\ PacketEnd(j) = IF More(j) THEN start[j] + BufferSize - 1 ELSE End(j)
         /\ start'[j] = PacketEnd(j) + 1 /\ \A i \in Jobs : i # j => start'[i] = start[i]
  <1>1. Len(jobs) = job_num
    BY SplitDone DEF SendPacket, Basics
  <1>2. /\ Len(net) \in Nat /\ Len(net') = Len(net) + 1
        /\ \A n \in 1 .. Len(net) : net'[n] = net[n]
        /\ net'[Len(net) + 1] = Packet(j)
    BY <1>1, NetGrows DEF SendPacket
  <1>3. /\ start[j] \in Nat /\ PacketEnd(j) \in start[j] .. End(j) /\ start[j] < End(j)
        /\ PacketEnd(j) = IF More(j) THEN start[j] + BufferSize - 1 ELSE End(j)
        /\ Packet(j).content_is_end <=> ~More(j)
        /\ Packet(j).content[1] = start[j]
        /\ Packet(j).content[Len(Packet(j).content)] = PacketEnd(j)
        /\ Range(Packet(j).content) = start[j] .. PacketEnd(j)
    BY <1>1, PacketShape DEF Basics, SendPacket
  <1>4. End(j) \in Int /\ First(j) \in Nat
    BY <1>1, PartBounds DEF Basics
  <1>5. \A n \in 1 .. Len(net) : FirstOf(n)' = FirstOf(n) /\ LastOf(n)' = LastOf(n)
    BY <1>2 DEF FirstOf, LastOf
  <1>6. \A n : n = Len(net) + 1 =>
          /\ FirstOf(n)' = start[j] /\ LastOf(n)' = PacketEnd(j)
          /\ Range(net'[n].content) = start[j] .. PacketEnd(j)
          /\ net'[n].content_is_end <=> ~More(j)
    BY <1>2, <1>3 DEF FirstOf, LastOf
  <1>7. start'[j] = PacketEnd(j) + 1 /\ \A i \in Jobs : i # j => start'[i] = start[i]
    BY TypesOf DEF SendPacket, Basics
  <1>8. \A n \in 1 .. Len(net') : n = Len(net) + 1 \/ n \in 1 .. Len(net)
    BY <1>2
  <1> QED BY <1>2, <1>3, <1>4, <1>5, <1>6, <1>7, <1>8

\* Only the thread of the current part still has something to send.
LEMMA OnlyCurrentSends ==
  ASSUME Basics, OnlyCurrent, state # "closed", NEW j \in Jobs,
         start[j] # NoThread, start[j] < End(j)
  PROVE  j = job /\ state = "recv"
  <1>1. j = job
    <2>1. SUFFICES ASSUME j # job PROVE FALSE
      OBVIOUS
    <2>2. start[j] \in Nat /\ End(j) \in Int
      BY PartBounds, SplitDone, TypesOf DEF Basics, NoThread
    <2> QED BY <2>1, <2>2 DEF OnlyCurrent
  <1>2. state = "recv"
    BY <1>1, TypesOf DEF Basics, Fresh
  <1> QED BY <1>1, <1>2

\* While datagrams keep their order, only the current part is on the way.
LEMMA StepOnlyCurrent ==
  ASSUME Basics, Threads, OnlyCurrent, Queued, Next,
         faults \cap {"duplicate", "reorder"} = {}
  PROVE  OnlyCurrent'
  <1>1. CASE Split
    <2>1. /\ Jobs' = Jobs /\ UNCHANGED transfer
          /\ state = "idle" /\ net = << >> /\ asked = {}
          /\ \A j \in Jobs : start[j] = NoThread
      BY <1>1, SplitBasics DEF Basics, Unsplit, Split
    <2> QED BY <2>1 DEF OnlyCurrent, transfer
  <1> SUFFICES ASSUME ~Split, state' # "closed" PROVE OnlyCurrent'
    BY <1>1 DEF OnlyCurrent
  <1>2. UNCHANGED file
    BY StepBasics
  <1>3. /\ Jobs' = Jobs /\ \A j : End(j)' = End(j)
        /\ start \in [Jobs -> 0 .. total_size \cup {NoThread}]
        /\ job \in Jobs \cup {NoJob} /\ NoJob \notin Jobs
        /\ state = "idle" => job = NoJob
        /\ state \in {"idle", "recv", "closed"}
    BY <1>2, SameParts, TypesOf DEF Basics, Fresh
  <1>4. ASSUME NEW j \in Jobs, Begin(j) PROVE OnlyCurrent'
    <2>1. /\ state = "idle" /\ j \in todo /\ job' = j /\ asked' = asked \cup {j} /\ state' = "recv"
          /\ temp'[j] = << >> /\ start' = start /\ net' = net
      BY <1>4, TypesOf DEF Begin, Basics
    <2>2. \A i \in Jobs : i \notin asked /\ (start[i] # NoThread => start[i] >= End(i))
      BY <1>3, <2>1 DEF OnlyCurrent
    <2>3. net = << >> /\ start[j] = NoThread
      BY <2>1 DEF OnlyCurrent, Basics, Fresh
    <2> QED BY <1>3, <2>1, <2>2, <2>3 DEF OnlyCurrent
  <1>5. ASSUME Receive(1), 1 \in 1 .. Len(net) PROVE OnlyCurrent'
    <2>1. state = "recv" /\ job \in Jobs /\ net # << >> /\ UNCHANGED <<asked, start>>
      BY <1>3, <1>5, EmptySeq DEF Receive, Basics, Fresh
    <2>2. job \notin asked
      BY <2>1 DEF OnlyCurrent
    <2>3. CASE ~net[1].content_is_end
      <3>1. state' = state /\ job' = job
        BY <1>5, <2>3 DEF Receive
      <3> QED BY <1>3, <2>1, <2>2, <3>1 DEF OnlyCurrent
    <2>4. CASE net[1].content_is_end
      <3>1. state' = "idle" /\ job' = NoJob
        BY <1>5, <2>4 DEF Receive
      <3>2. /\ 1 = Len(net)
            /\ start[job] # NoThread => start[job] > End(job)
        BY <1>5, <2>1, <2>4 DEF Queued
      <3>3. Len(net') = 0 /\ net' \in Seq([content : Seq(Positions), content_is_end : BOOLEAN])
        <4>1. net' = RemoveAt(net, 1) /\ TypeOK /\ Runs
          BY <1>5 DEF Receive, Basics
        <4>2. /\ net' \in Seq([content : Seq(Positions), content_is_end : BOOLEAN])
              /\ Len(net') = Len(net) - 1
          BY <1>2, <1>5, <4>1, NetShrinks
        <4> QED BY <3>2, <4>2
      <3>4. net' = << >>
        BY <3>3, EmptySeq
      <3>5. End(job) \in Int /\ start[job] \in 0 .. total_size \cup {NoThread}
        BY <1>3, <2>1, PartBounds, SplitDone DEF Basics
      <3>6. total_size \in Nat
        BY <2>1, PartBounds, SplitDone DEF Basics
      <3>7. start[job] # NoThread => start[job] >= End(job)
        BY <3>2, <3>5, <3>6
      <3> QED BY <1>3, <2>1, <2>2, <3>1, <3>4, <3>7 DEF OnlyCurrent
    <2> QED BY <2>3, <2>4
  <1>6. ASSUME NEW j \in Jobs, StartUpload(j) PROVE OnlyCurrent'
    <2>1. /\ asked' = asked \ {j} /\ j \in asked /\ UNCHANGED <<state, job, net, temp>>
          /\ \A i \in Jobs : i # j => start'[i] = start[i]
      BY <1>3, <1>6 DEF StartUpload
    <2>2. j = job
      BY <1>3, <2>1 DEF OnlyCurrent
    <2> QED BY <1>3, <2>1, <2>2 DEF OnlyCurrent
  <1>7. ASSUME NEW j \in Jobs, SendPacket(j) PROVE OnlyCurrent'
    <2>1. j = job /\ state = "recv" /\ j \notin asked
      BY <1>7, OnlyCurrentSends DEF SendPacket, Threads
    <2>2. /\ UNCHANGED <<state, job, asked, temp>>
          /\ \A i \in Jobs : i # j => start'[i] = start[i]
      BY <1>3, <1>7 DEF SendPacket
    <2> QED BY <1>3, <2>1, <2>2 DEF OnlyCurrent
  <1>8. ASSUME NEW j \in Jobs, EndUpload(j) PROVE OnlyCurrent'
    <2>1. /\ UNCHANGED <<state, job, asked, temp, net>>
          /\ \A i \in Jobs : start'[i] = IF i = j THEN NoThread ELSE start[i]
      BY <1>3, <1>8 DEF EndUpload
    <2>2. ASSUME NEW i \in Jobs, start'[i] # NoThread PROVE start'[i] = start[i]
      BY <2>1, <2>2
    <2>3. \A i \in Jobs : start[i] = NoThread => start'[i] = NoThread
      BY <2>1
    <2>4. ASSUME NEW i \in Jobs, i # job
          PROVE  i \notin asked' /\ (start'[i] # NoThread => start'[i] >= End(i)')
      BY <1>3, <2>1, <2>2, <2>4 DEF OnlyCurrent
    <2>5. state = "recv" /\ job \in asked => start'[job] = NoThread
      <3>1. state = "recv" => job \in Jobs
        BY <1>3 DEF Basics, Fresh
      <3> QED BY <2>3, <3>1 DEF OnlyCurrent
    <2> QED BY <1>3, <2>1, <2>4, <2>5 DEF OnlyCurrent
  <1>9. ASSUME NEW i \in 1 .. Len(net), LosePacket(i) PROVE OnlyCurrent'
    <2>1. net # << >> /\ UNCHANGED <<state, job, asked, temp, start>>
      BY <1>9, EmptySeq DEF LosePacket
    <2> QED BY <1>3, <2>1 DEF OnlyCurrent
  <1>10. CASE UNCHANGED <<state, job, temp, start, net>> /\ asked' \subseteq asked
    BY <1>3, <1>10 DEF OnlyCurrent
  <1>11. \A i \in DOMAIN net : i \in 1 .. Len(net) /\ (Receive(i) => i = 1)
    BY TypesOf DEF Basics, Receive
  <1> QED
    BY <1>4, <1>5, <1>6, <1>7, <1>8, <1>9, <1>10, <1>11, NoCopies
    DEF Next, Worker, Server, Faults, Loses, Terminated, vars, transfer, Leave, Timeout,
        LoseRequest, Die

\* What is written of a packet comes behind what was written before.
LEMMA Written ==
  ASSUME Basics, NEW i \in 1 .. Len(net), Receive(i)
  PROVE  /\ job \in Jobs /\ job \notin todo /\ Len(jobs) = job_num
         /\ Len(temp[job]) \in Nat /\ Len(net[i].content) \in Nat
         /\ Len(temp'[job]) = Len(temp[job]) + Len(net[i].content)
         /\ \A k \in 1 .. Len(temp[job]) : temp'[job][k] = temp[job][k] /\ temp[job][k] \in Int
         /\ \A k \in 1 .. Len(net[i].content) :
              temp'[job][Len(temp[job]) + k] = net[i].content[k] /\ net[i].content[k] \in Int
         /\ \A j \in Jobs : j # job => temp'[j] = temp[j] /\ result'[j] = result[j]
  <1>1. /\ job \in Jobs /\ job \notin todo /\ Len(jobs) = job_num
        /\ temp[job] \in Seq(Positions) /\ net[i].content \in Seq(Positions)
    BY TypesOf, SplitDone DEF Receive, Basics, Fresh
  <1>2. temp'[job] = temp[job] \o net[i].content
    BY <1>1, TypesOf DEF Receive, Basics
  <1>3. \A j \in Jobs : j # job => temp'[j] = temp[j] /\ result'[j] = result[j]
    BY <1>1, TypesOf DEF Receive, Basics
  <1>4. Positions \subseteq Int
    BY DEF Positions
  <1> DEFINE s == temp[job]
             c == net[i].content
             t == temp'[job]
  <1>5. s \in Seq(Positions) /\ c \in Seq(Positions) /\ t = s \o c
    BY <1>1, <1>2
  <1> HIDE DEF s, c, t
  <1>6. /\ Len(s) \in Nat /\ Len(c) \in Nat
        /\ \A k \in 1 .. Len(s) : s[k] \in Int
        /\ \A k \in 1 .. Len(c) : c[k] \in Int
    BY <1>4, <1>5, ElementOfSeq, LenProperties
  <1>7. /\ Len(t) = Len(s) + Len(c)
        /\ \A k \in 1 .. Len(s) + Len(c) : t[k] = IF k <= Len(s) THEN s[k] ELSE c[k - Len(s)]
    BY <1>5, ConcatProperties
  <1>8. \A k \in 1 .. Len(s) : t[k] = s[k]
    BY <1>6, <1>7
  <1>9. \A k \in 1 .. Len(c) : t[Len(s) + k] = c[k]
    BY <1>6, <1>7
  <1> QED BY <1>1, <1>3, <1>6, <1>7, <1>8, <1>9 DEF s, c, t

\* A step that does not touch the packets and the thread of the current part.
LEMMA SameQueued ==
  ASSUME UNCHANGED file, Queued, UNCHANGED <<state, job, temp, net, start>>
  PROVE  Queued'
  BY SameParts DEF Queued, FirstOf, LastOf

\* A packet read by the worker leaves the others behind what is written.
LEMMA ReceiveQueued ==
  ASSUME Basics, Queued, UNCHANGED file, 1 \in 1 .. Len(net), Receive(1)
  PROVE  Queued'
  <1>1. CASE net[1].content_is_end
    BY <1>1 DEF Receive, Queued
  <1>2. CASE ~net[1].content_is_end
    <2> DEFINE s == temp[job]
               c == net[1].content
               t == temp'[job]
    <2>1. state = "recv" /\ state' = state /\ job' = job /\ start' = start /\ job \in Jobs
      BY <1>2, Written DEF Receive
    <2>2. /\ \A n \in 1 .. Len(net') :
              /\ n + 1 \in 1 .. Len(net)
              /\ FirstOf(n)' = FirstOf(n + 1) /\ LastOf(n)' = LastOf(n + 1)
              /\ net'[n].content_is_end = net[n + 1].content_is_end
              /\ Range(net'[n].content) = Range(net[n + 1].content)
              /\ n + 1 = Len(net) => n = Len(net')
              /\ \A m \in 1 .. Len(net') : n < m => n + 1 < m + 1
      <3>1. net' = RemoveAt(net, 1) /\ TypeOK /\ Runs
        BY DEF Receive, Basics
      <3>2. \A n \in 1 .. Len(net') : Before(1, n) = n + 1
        BY DEF Before
      <3> QED BY <3>1, <3>2, LeftOnNet
    <2>3. \A n \in 1 .. Len(net') : FirstOf(n + 1) \in Int /\ LastOf(1) < FirstOf(n + 1)
      <3> TAKE n \in 1 .. Len(net')
      <3>1. n + 1 \in 1 .. Len(net) /\ 1 < n + 1
        BY <2>2
      <3>2. FirstOf(n + 1) \in Int
        BY <3>1, PacketOnNet DEF Basics
      <3>3. LastOf(1) < FirstOf(n + 1)
        BY <2>1, <3>1 DEF Queued
      <3> QED BY <3>2, <3>3
    <2>4. /\ LastOf(1) \in Int /\ FirstOf(1) \in Int
          /\ \A k \in 1 .. Len(c) : c[k] \in Int /\ c[k] <= LastOf(1)
      <3>1. /\ FirstOf(1) \in Int /\ LastOf(1) = FirstOf(1) + Len(c) - 1
            /\ \A k \in 1 .. Len(c) : c[k] = FirstOf(1) + k - 1
            /\ Len(c) \in Nat /\ LastOf(1) \in Int
        BY PacketOnNet DEF Basics
      <3> HIDE DEF c
      <3> QED BY <3>1
    <2>5. /\ Len(s) \in Nat /\ Len(c) \in Nat /\ Len(t) = Len(s) + Len(c)
          /\ \A k \in 1 .. Len(s) : t[k] = s[k] /\ s[k] \in Int
          /\ \A k \in 1 .. Len(c) : t[Len(s) + k] = c[k]
      BY Written
    <2>6. ASSUME NEW k \in 1 .. Len(t)
          PROVE  \/ k \in 1 .. Len(s) /\ t[k] = s[k] /\ s[k] \in Int
                 \/ t[k] \in Int /\ t[k] <= LastOf(1)
      <3> HIDE DEF s, c, t
      <3>1. CASE k <= Len(s)
        BY <2>5, <3>1
      <3>2. CASE k > Len(s)
        <4>1. k - Len(s) \in 1 .. Len(c) /\ k = Len(s) + (k - Len(s))
          BY <2>5, <3>2
        <4> QED BY <2>4, <2>5, <4>1
      <3> QED BY <2>5, <3>1, <3>2
    <2>7. \A n \in 1 .. Len(net') : \A k \in 1 .. Len(t) : t[k] < FirstOf(n)'
      <3> TAKE n \in 1 .. Len(net')
      <3> TAKE k \in 1 .. Len(t)
      <3>1. CASE k \in 1 .. Len(s) /\ t[k] = s[k] /\ s[k] \in Int
        BY <2>1, <2>2, <3>1 DEF Queued
      <3>2. CASE t[k] \in Int /\ t[k] <= LastOf(1)
        BY <2>2, <2>3, <2>4, <3>2
      <3> QED BY <2>6, <3>1, <3>2
    <2>8. start[job] # NoThread => \A k \in 1 .. Len(t) : t[k] < start[job]
      <3> SUFFICES ASSUME start[job] # NoThread, NEW k \in 1 .. Len(t) PROVE t[k] < start[job]
        OBVIOUS
      <3>1. start[job] \in Int /\ LastOf(1) < start[job]
        <4>1. start[job] \in Int
          BY <2>1, TypesOf DEF Basics, NoThread
        <4>2. LastOf(1) < start[job]
          BY <2>1 DEF Queued
        <4> QED BY <4>1, <4>2
      <3>2. CASE k \in 1 .. Len(s) /\ t[k] = s[k]
        BY <2>1, <3>2 DEF Queued
      <3>3. CASE t[k] \in Int /\ t[k] <= LastOf(1)
        BY <2>4, <3>1, <3>3
      <3> QED BY <2>6, <3>2, <3>3
    <2>9. ASSUME NEW n \in 1 .. Len(net')
          PROVE  /\ Range(net'[n].content) \subseteq First(job) .. End(job)
                 /\ \A m \in 1 .. Len(net') : n < m => LastOf(n)' < FirstOf(m)'
                 /\ start[job] # NoThread => LastOf(n)' < start[job]
                 /\ net'[n].content_is_end =>
                      /\ n = Len(net') /\ LastOf(n)' = End(job)
                      /\ start[job] # NoThread => start[job] > End(job)
      BY <2>1, <2>2 DEF Queued
    <2> HIDE DEF s, c
    <2>10. First(job)' = First(job) /\ End(job)' = End(job)
      BY <2>1, SameParts
    <2> QED BY <2>1, <2>7, <2>8, <2>9, <2>10 DEF Queued
  <1> QED BY <1>1, <1>2

\* A new packet goes behind what is on the way, and marks the end of its part.
LEMMA SendQueued ==
  ASSUME Basics, Threads, OnlyCurrent, Queued, UNCHANGED file, NEW j \in Jobs, SendPacket(j),
         state # "closed"
  PROVE  Queued'
  <1>1. j = job /\ state = "recv"
    BY OnlyCurrentSends DEF SendPacket
  <1>2. PICK l : l = Len(net) + 1
    OBVIOUS
  <1>3. /\ Len(net) \in Nat /\ Len(net') = l
        /\ \A n \in 1 .. l : n = l \/ n \in 1 .. Len(net)
        /\ \A n \in 1 .. Len(net) :
             FirstOf(n)' = FirstOf(n) /\ LastOf(n)' = LastOf(n) /\ net'[n] = net[n]
        /\ FirstOf(l)' = start[job] /\ LastOf(l)' = PacketEnd(job)
        /\ Range(net'[l].content) = start[job] .. PacketEnd(job)
        /\ net'[l].content_is_end <=> ~More(job)
        /\ start'[job] = PacketEnd(job) + 1
    BY <1>1, <1>2, MoreOnNet
  <1>4. /\ start[job] \in Nat /\ start[job] < End(job) /\ PacketEnd(job) \in start[job] .. End(job)
        /\ End(job) \in Int /\ First(job) \in Nat /\ First(job) <= start[job]
        /\ ~More(job) => PacketEnd(job) = End(job)
        /\ start[job] # NoThread
    BY <1>1, MoreOnNet DEF Threads, SendPacket
  <1>5. state' = state /\ job' = job /\ temp' = temp
        /\ First(job)' = First(job) /\ End(job)' = End(job)
    BY SameParts DEF SendPacket
  <1>6. /\ \A n \in 1 .. Len(net) : n < l /\ LastOf(n) < start[job]
        /\ \A k \in 1 .. Len(temp[job]) : temp[job][k] < start[job]
        /\ \A n \in 1 .. Len(net) : ~net[n].content_is_end /\ LastOf(n) \in Int
    <2>1. \A n \in 1 .. Len(net) : LastOf(n) \in Int
      BY PacketOnNet DEF Basics
    <2>2. \A n \in 1 .. Len(net) : n < l
      BY <1>2, <1>3
    <2>3. /\ \A n \in 1 .. Len(net) : LastOf(n) < start[job]
          /\ \A k \in 1 .. Len(temp[job]) : temp[job][k] < start[job]
      BY <1>1, <1>4 DEF Queued
    <2>4. ~(start[job] > End(job))
      BY <1>4
    <2>5. \A n \in 1 .. Len(net) : ~net[n].content_is_end
      BY <1>1, <1>4, <2>4 DEF Queued
    <2> QED BY <2>1, <2>2, <2>3, <2>5
  <1>7. \A k \in 1 .. Len(temp[job]) : temp[job][k] \in Int
    <2>1. temp[job] \in Seq(Positions) /\ Positions \subseteq Int
      BY <1>1, TypesOf DEF Basics, Positions
    <2> QED BY <2>1, ElementOfSeq
  <1> DEFINE Good(n) ==
        /\ Range(net'[n].content) \subseteq First(job) .. End(job)
        /\ \A k \in 1 .. Len(temp[job]) : temp[job][k] < FirstOf(n)'
        /\ \A m \in 1 .. l : n < m => LastOf(n)' < FirstOf(m)'
        /\ LastOf(n)' < start'[job]
        /\ net'[n].content_is_end => n = l /\ LastOf(n)' = End(job) /\ start'[job] > End(job)
  <1>8. ASSUME NEW n \in 1 .. Len(net) PROVE Good(n)
    <2>1. /\ Range(net'[n].content) \subseteq First(job) .. End(job)
          /\ \A k \in 1 .. Len(temp[job]) : temp[job][k] < FirstOf(n)'
          /\ ~net'[n].content_is_end
      BY <1>1, <1>3, <1>6 DEF Queued
    <2>2. \A m \in 1 .. Len(net) : n < m => LastOf(n)' < FirstOf(m)'
      BY <1>1, <1>3 DEF Queued
    <2>3. LastOf(n)' < FirstOf(l)' /\ LastOf(n)' < start'[job]
      BY <1>3, <1>4, <1>6
    <2> QED BY <1>3, <2>1, <2>2, <2>3
  <1>9. Good(l)
    <2>1. Range(net'[l].content) \subseteq First(job) .. End(job)
      BY <1>3, <1>4
    <2>2. \A k \in 1 .. Len(temp[job]) : temp[job][k] < FirstOf(l)'
      BY <1>3, <1>6
    <2>3. \A m \in 1 .. l : ~(l < m)
      BY <1>3
    <2>4. LastOf(l)' < start'[job]
      BY <1>3, <1>4
    <2>5. net'[l].content_is_end => LastOf(l)' = End(job) /\ start'[job] > End(job)
      BY <1>3, <1>4
    <2> QED BY <2>1, <2>2, <2>3, <2>4, <2>5
  <1>10. \A k \in 1 .. Len(temp[job]) : temp[job][k] < start'[job]
    <2> TAKE k \in 1 .. Len(temp[job])
    <2> QED BY <1>3, <1>4, <1>6, <1>7
  <1>11. \A n \in 1 .. Len(net') : Good(n)
    BY <1>3, <1>8, <1>9
  <1> QED BY <1>1, <1>3, <1>5, <1>10, <1>11 DEF Queued

\* While datagrams keep their order, the packets on the way do.
LEMMA StepQueued ==
  ASSUME Basics, Threads, OnlyCurrent, Queued, Next,
         faults \cap {"duplicate", "reorder"} = {}
  PROVE  Queued'
  <1>1. CASE Split
    BY <1>1, SplitBasics DEF Basics, Unsplit, Split, transfer, Queued
  <1> SUFFICES ASSUME ~Split PROVE Queued'
    BY <1>1
  <1>2. UNCHANGED file
    BY StepBasics
  <1>3. /\ Jobs' = Jobs /\ \A j : First(j)' = First(j) /\ End(j)' = End(j)
        /\ start \in [Jobs -> 0 .. total_size \cup {NoThread}]
    BY <1>2, SameParts, TypesOf DEF Basics
  <1>4. ASSUME NEW j \in Jobs, Begin(j) PROVE Queued'
    <2>1. net' = << >> /\ temp'[j] = << >> /\ start'[j] = NoThread /\ job' = j
      BY <1>4, TypesOf DEF Begin, Basics, Fresh, OnlyCurrent
    <2>2. /\ \A n \in 1 .. Len(net') : FALSE
          /\ \A k \in 1 .. Len(temp'[j]) : FALSE
      BY <2>1, EmptySeq
    <2> QED BY <2>1, <2>2 DEF Queued
  <1>5. ASSUME 1 \in 1 .. Len(net), Receive(1) PROVE Queued'
    BY <1>2, <1>5, ReceiveQueued
  <1>6. ASSUME NEW j \in Jobs, StartUpload(j) PROVE Queued'
    <2>1. CASE state = "recv"
      <3>1. j = job /\ net' = << >> /\ temp' = temp /\ temp[job] = << >> /\ job' = job
        BY <1>6, <2>1 DEF StartUpload, OnlyCurrent
      <3>2. /\ \A n \in 1 .. Len(net') : FALSE
            /\ \A k \in 1 .. Len(temp'[job]) : FALSE
        BY <3>1, EmptySeq
      <3> QED BY <3>1, <3>2 DEF Queued
    <2>2. CASE state # "recv"
      BY <1>6, <2>2 DEF StartUpload, Queued
    <2> QED BY <2>1, <2>2
  <1>7. ASSUME NEW j \in Jobs, SendPacket(j) PROVE Queued'
    <2>1. CASE state # "closed"
      BY <1>2, <1>7, <2>1, SendQueued
    <2>2. CASE state = "closed"
      BY <1>7, <2>2 DEF SendPacket, Queued
    <2> QED BY <2>1, <2>2
  <1>8. ASSUME NEW j \in Jobs, EndUpload(j) PROVE Queued'
    <2>1. UNCHANGED <<state, job, temp, net>>
      BY <1>8 DEF EndUpload
    <2>2. \A n : FirstOf(n)' = FirstOf(n) /\ LastOf(n)' = LastOf(n)
      BY <2>1 DEF FirstOf, LastOf
    <2>3. job \in Jobs => start'[job] = NoThread \/ start'[job] = start[job]
      BY <1>3, <1>8 DEF EndUpload
    <2>4. state = "recv" => job \in Jobs
      BY TypesOf DEF Basics, Fresh
    <2> QED BY <1>3, <2>1, <2>2, <2>3, <2>4 DEF Queued
  <1>9. ASSUME NEW i \in 1 .. Len(net), LosePacket(i) PROVE Queued'
    <2>1. UNCHANGED <<state, job, temp, start>> /\ net' = RemoveAt(net, i)
      BY <1>9 DEF LosePacket
    <2>2. /\ \A n \in 1 .. Len(net') :
              /\ Before(i, n) \in 1 .. Len(net) /\ Before(i, n) # i
              /\ FirstOf(n)' = FirstOf(Before(i, n)) /\ LastOf(n)' = LastOf(Before(i, n))
              /\ net'[n].content_is_end = net[Before(i, n)].content_is_end
              /\ Range(net'[n].content) = Range(net[Before(i, n)].content)
              /\ Before(i, n) = Len(net) => n = Len(net')
              /\ \A m \in 1 .. Len(net') : n < m => Before(i, n) < Before(i, m)
      BY <1>2, <2>1, LeftOnNet DEF Basics
    <2> QED BY <1>3, <2>1, <2>2 DEF Queued
  <1>10. CASE UNCHANGED <<state, job, temp, start, net>>
    BY <1>2, <1>10, SameQueued
  <1>11. CASE state' # "recv"
    BY <1>11 DEF Queued
  <1>12. \A i \in DOMAIN net : i \in 1 .. Len(net) /\ (Receive(i) => i = 1)
    BY TypesOf DEF Basics, Receive
  <1> QED
    BY <1>4, <1>5, <1>6, <1>7, <1>8, <1>9, <1>10, <1>11, <1>12, NoCopies
    DEF Next, Worker, Server, Faults, Loses, Terminated, vars, transfer, Leave, Timeout,
        LoseRequest, Die

\* While datagrams keep their order, what is written to a file is of its part,
\* in order, and ends with its last byte when the part is reported as done.
LEMMA StepForeign ==
  ASSUME Basics, NoForeignBytes, Queued, Next,
         faults \cap {"duplicate", "reorder"} = {}
  PROVE  NoForeignBytes'
  <1>1. CASE Split
    BY <1>1, SplitBasics DEF Basics, Unsplit, Split, transfer, NoForeignBytes
  <1> SUFFICES ASSUME ~Split PROVE NoForeignBytes'
    BY <1>1
  <1>2. UNCHANGED file
    BY StepBasics
  <1>3. /\ Jobs' = Jobs /\ \A j : First(j)' = First(j) /\ End(j)' = End(j)
        /\ todo \subseteq Jobs
    BY <1>2, SameParts DEF Basics, TypeOK
  <1> DEFINE Own(j, s, r) == /\ ToSet(s) \subseteq First(j) .. End(j)
                             /\ \A k \in 1 .. Len(s) - 1 : s[k] < s[k + 1]
                             /\ r = "ended" => s # << >> /\ Last(s) = End(j)
  <1>4. \A j \in Jobs \ todo : Own(j, temp[j], result[j])
    BY DEF NoForeignBytes
  <1>5. SUFFICES \A j \in Jobs \ todo' : Own(j, temp'[j], result'[j])
    BY <1>3 DEF NoForeignBytes
  <1>6. ASSUME NEW j \in Jobs, Begin(j)
        PROVE  \A i \in Jobs \ todo' : Own(i, temp'[i], result'[i])
    <2>1. j \in todo /\ todo' = todo \ {j} /\ temp' = temp /\ result' = result
          /\ temp[j] = << >> /\ result[j] = "none"
      BY <1>6, TypesOf DEF Begin, Basics, Fresh
    <2>2. Own(j, << >>, "none")
      BY EmptySeq DEF ToSet
    <2> QED BY <1>4, <2>1, <2>2
  <1>7. ASSUME 1 \in 1 .. Len(net), Receive(1)
        PROVE  \A i \in Jobs \ todo' : Own(i, temp'[i], result'[i])
    <2> DEFINE s == temp[job]
               c == net[1].content
               t == temp'[job]
    <2>1. todo' = todo /\ state = "recv" /\ job \in Jobs \ todo
          /\ \A j \in Jobs : j # job => temp'[j] = temp[j] /\ result'[j] = result[j]
      BY <1>7, Written DEF Receive
    <2>2. /\ Len(s) \in Nat /\ Len(c) \in Nat /\ Len(t) = Len(s) + Len(c)
          /\ \A k \in 1 .. Len(s) : t[k] = s[k] /\ s[k] \in Int
          /\ \A k \in 1 .. Len(c) : t[Len(s) + k] = c[k]
      BY <1>7, Written
    <2>3. /\ FirstOf(1) \in Int /\ Len(c) \in Nat \ {0} /\ LastOf(1) = c[Len(c)]
          /\ \A k \in 1 .. Len(c) : c[k] = FirstOf(1) + k - 1
          /\ Range(c) \subseteq First(job) .. End(job)
          /\ \A k \in 1 .. Len(s) : s[k] < FirstOf(1)
          /\ net[1].content_is_end => LastOf(1) = End(job)
      <3>1. /\ FirstOf(1) \in Int /\ Len(c) \in Nat \ {0} /\ LastOf(1) = c[Len(c)]
            /\ \A k \in 1 .. Len(c) : c[k] = FirstOf(1) + k - 1
        BY <1>7, PacketOnNet DEF Basics, LastOf
      <3>2. /\ Range(c) \subseteq First(job) .. End(job)
            /\ \A k \in 1 .. Len(s) : s[k] < FirstOf(1)
            /\ net[1].content_is_end => LastOf(1) = End(job)
        BY <1>7, <2>1 DEF Queued
      <3> QED BY <3>1, <3>2
    <2>4. s \in Seq(Positions) /\ c \in Seq(Positions) /\ t = s \o c
      BY <1>7, <2>1, TypesOf DEF Basics, Receive
    <2>5. t \in Seq(Positions) /\ Range(t) = Range(s) \cup Range(c)
      BY <2>4, JoinLists, ConcatProperties
    <2>6. result'[job] = "ended" => net[1].content_is_end
      BY <1>7, <2>1, TypesOf DEF Receive, Basics, Fresh
    <2>7. ToSet(t) \subseteq First(job) .. End(job)
      BY <1>4, <2>1, <2>3, <2>5 DEF ToSet, Range
    <2>8. \A k \in 1 .. Len(s) - 1 : s[k] < s[k + 1]
      BY <1>4, <2>1
    <2>9. /\ result'[job] = "ended" => LastOf(1) = End(job)
          /\ LastOf(1) = c[Len(c)]
      BY <2>3, <2>6
    <2> HIDE DEF s, c, t, Own
    <2>10. \A k \in 1 .. Len(t) - 1 : t[k] < t[k + 1]
      <3> TAKE k \in 1 .. Len(t) - 1
      <3>0. k \in 1 .. Len(s) + Len(c) - 1 /\ Len(s) \in Nat /\ Len(c) \in Nat
        BY <2>2
      <3>1. CASE k < Len(s)
        <4>1. k \in 1 .. Len(s) - 1 /\ k \in 1 .. Len(s) /\ k + 1 \in 1 .. Len(s)
          BY <2>2, <3>1
        <4> QED BY <2>2, <2>8, <4>1
      <3>2. CASE k = Len(s)
        <4>1. k \in 1 .. Len(s) /\ 1 \in 1 .. Len(c) /\ k + 1 = Len(s) + 1
          BY <2>2, <2>3, <3>2
        <4>2. t[k] = s[k] /\ t[k + 1] = c[1]
          BY <2>2, <4>1
        <4> QED BY <2>3, <4>1, <4>2
      <3>3. CASE k > Len(s)
        <4>1. PICK i \in 1 .. Len(c) : k = Len(s) + i
          <5>1. k - Len(s) \in 1 .. Len(c) /\ k = Len(s) + (k - Len(s))
            BY <3>0, <3>3
          <5> QED BY <5>1
        <4>2. i + 1 \in 1 .. Len(c) /\ k + 1 = Len(s) + (i + 1)
          BY <3>0, <4>1
        <4>3. t[k] = c[i] /\ t[k + 1] = c[i + 1]
          BY <2>2, <4>1, <4>2
        <4>4. c[i] = FirstOf(1) + i - 1 /\ c[i + 1] = FirstOf(1) + (i + 1) - 1
          BY <2>3, <4>1, <4>2
        <4> QED BY <2>3, <4>1, <4>3, <4>4
      <3> QED BY <2>2, <3>1, <3>2, <3>3
    <2>11. t # << >> /\ Last(t) = c[Len(c)]
      <3>1. Len(c) \in 1 .. Len(c) /\ Len(t) # 0 /\ t[Len(t)] = c[Len(c)]
        BY <2>2, <2>3
      <3> QED BY <3>1, EmptySeq DEF Last
    <2>12. Own(job, t, result'[job])
      BY <2>7, <2>9, <2>10, <2>11 DEF Own
    <2> QED BY <1>4, <2>1, <2>12 DEF t
  <1>8. CASE Timeout
    <2>1. todo' = todo /\ temp' = temp /\ job \in Jobs
          /\ \A j \in Jobs : result'[j] = IF j = job THEN "timeout" ELSE result[j]
      BY <1>8, TypesOf DEF Timeout, Basics, Fresh
    <2> QED BY <1>4, <2>1
  <1>9. CASE UNCHANGED <<todo, temp, result>>
    BY <1>4, <1>9
  <1>10. \A i \in DOMAIN net : i \in 1 .. Len(net) /\ (Receive(i) => i = 1)
    BY TypesOf DEF Basics, Receive
  <1> HIDE DEF Own
  <1> QED
    BY <1>6, <1>7, <1>8, <1>9, <1>10, NoCopies
    DEF Next, Worker, Server, Faults, Loses, Terminated, vars, transfer, Leave, StartUpload,
        SendPacket, EndUpload, LoseRequest, LosePacket, Die
-----------------------------------------------------------------------------
(* No byte is missing.                                                     *)

\* What the worker reads continues what it wrote, and the rest continues that.
LEMMA ReceiveGapless ==
  ASSUME Basics, Gapless, faults \cap {"lose", "duplicate", "reorder"} = {}, UNCHANGED file,
         1 \in 1 .. Len(net), Receive(1)
  PROVE  Gapless'
  <1> DEFINE s == temp[job]
             c == net[1].content
             t == temp'[job]
  <1>1. /\ state = "recv" /\ job \in Jobs \ todo /\ todo' = todo /\ start' = start
        /\ \A j \in Jobs : j # job => temp'[j] = temp[j]
        /\ First(job) \in Int
    <2>1. job \in Jobs \ todo /\ Len(jobs) = job_num /\ \A j \in Jobs : j # job => temp'[j] = temp[j]
      BY Written
    <2>2. First(job) \in Int
      BY <2>1, PartBounds DEF Basics
    <2> QED BY <2>1, <2>2 DEF Receive
  <1>2. /\ Len(s) \in Nat /\ Len(c) \in Nat /\ Len(t) = Len(s) + Len(c)
        /\ \A k \in 1 .. Len(s) : t[k] = s[k]
        /\ \A k \in 1 .. Len(c) : t[Len(s) + k] = c[k]
    BY Written
  <1>3. /\ LastOf(1) = FirstOf(1) + Len(c) - 1
        /\ \A k \in 1 .. Len(c) : c[k] = FirstOf(1) + k - 1
    BY PacketOnNet DEF Basics
  <1>4. FirstOf(1) = First(job) + Len(s)
    BY <1>1 DEF Gapless, Due
  <1>5. \A k \in 1 .. Len(s) : s[k] = First(job) + k - 1
    BY <1>1 DEF Gapless
  <1>6. \A k \in 1 .. Len(t) : t[k] = First(job) + k - 1
    <2> HIDE DEF s, c, t
    <2> TAKE k \in 1 .. Len(t)
    <2>1. CASE k <= Len(s)
      <3>1. k \in 1 .. Len(s)
        BY <1>2, <2>1
      <3> QED BY <1>2, <1>5, <3>1
    <2>2. CASE k > Len(s)
      <3>1. PICK i \in 1 .. Len(c) : k = Len(s) + i
        <4>1. k - Len(s) \in 1 .. Len(c) /\ k = Len(s) + (k - Len(s))
          BY <1>2, <2>2
        <4> QED BY <4>1
      <3>2. t[k] = c[i] /\ c[i] = FirstOf(1) + i - 1
        BY <1>2, <1>3, <3>1
      <3> QED BY <1>1, <1>2, <1>4, <3>1, <3>2
    <2> QED BY <1>2, <2>1, <2>2
  <1>7. \A j \in Jobs \ todo : \A k \in 1 .. Len(temp'[j]) : temp'[j][k] = First(j) + k - 1
    BY <1>1, <1>6 DEF Gapless
  <1>8. /\ Jobs' = Jobs /\ faults' = faults /\ \A j : First(j)' = First(j)
    BY SameParts
  <1>9. ASSUME state' = "recv"
        PROVE  /\ \A n \in 1 .. Len(net') : FirstOf(n)' = Due(n)'
               /\ start[job] # NoThread => \A n : n = Len(net') + 1 => start[job] = Due(n)'
    <2>1. job' = job
      BY <1>9 DEF Receive
    <2>2. /\ Len(net') = Len(net) - 1 /\ Len(net) \in Nat
          /\ \A n \in 1 .. Len(net') : /\ n + 1 \in 1 .. Len(net)
                                       /\ FirstOf(n)' = FirstOf(n + 1) /\ LastOf(n)' = LastOf(n + 1)
      <3>1. net' = RemoveAt(net, 1) /\ TypeOK /\ Runs
        BY DEF Receive, Basics
      <3>2. \A n \in 1 .. Len(net') : Before(1, n) = n + 1
        BY DEF Before
      <3> QED BY <3>1, <3>2, LeftOnNet
    <2>3. \A n : Due(n)' = IF n = 1 THEN First(job) + Len(t) ELSE LastOf(n - 1)' + 1
      BY <1>8, <2>1 DEF Due
    <2> HIDE DEF s, c, t
    <2>4. First(job) + Len(t) = LastOf(1) + 1
      BY <1>1, <1>2, <1>3, <1>4
    <2>5. ASSUME NEW n \in 1 .. Len(net') PROVE FirstOf(n)' = Due(n)'
      <3>1. n + 1 # 1 /\ (n + 1) - 1 = n /\ n + 1 \in 1 .. Len(net) /\ FirstOf(n)' = FirstOf(n + 1)
        BY <2>2
      <3>2. FirstOf(n + 1) = LastOf(n) + 1
        BY <1>1, <3>1 DEF Gapless, Due
      <3>3. CASE n = 1
        BY <2>3, <2>4, <3>1, <3>2, <3>3
      <3>4. CASE n # 1
        <4>1. n - 1 \in 1 .. Len(net') /\ (n - 1) + 1 = n
          BY <2>2, <3>4
        <4>2. LastOf(n - 1)' = LastOf(n)
          BY <2>2, <4>1
        <4> QED BY <2>3, <3>1, <3>2, <3>4, <4>2
      <3> QED BY <3>3, <3>4
    <2>6. ASSUME start[job] # NoThread, NEW n, n = Len(net') + 1 PROVE start[job] = Due(n)'
      <3>1. n = Len(net) /\ n \in Nat \ {0} /\ n + 1 # 1 /\ (n + 1) - 1 = n
        BY <2>2, <2>6
      <3>2. start[job] = LastOf(n) + 1
        BY <1>1, <2>6, <3>1 DEF Gapless, Due
      <3>3. CASE n = 1
        BY <2>3, <2>4, <3>2, <3>3
      <3>4. CASE n # 1
        <4>1. n - 1 \in 1 .. Len(net') /\ (n - 1) + 1 = n
          BY <2>2, <3>1, <3>4
        <4>2. LastOf(n - 1)' = LastOf(n)
          BY <2>2, <4>1
        <4> QED BY <2>3, <3>2, <3>4, <4>2
      <3> QED BY <3>3, <3>4
    <2> QED BY <2>5, <2>6
  <1>10. ASSUME state' = "recv", start[job] # NoThread PROVE start[job] = Due(Len(net) + 1)'
    <2>1. PICK n : n = Len(net') + 1
      OBVIOUS
    <2>2. start[job] = Due(n)'
      BY <1>9, <1>10, <2>1
    <2> QED BY <2>1, <2>2 DEF Due, LastOf
  <1>11. state' = "recv" => job' = job
    BY DEF Receive
  <1> QED BY <1>1, <1>7, <1>8, <1>9, <1>10, <1>11 DEF Gapless

\* Unless datagrams are lost or reordered, no step leaves out a byte.
LEMMA StepGapless ==
  ASSUME Basics, OnlyCurrent, Gapless, Next, faults \cap {"lose", "duplicate", "reorder"} = {}
  PROVE  Gapless'
  <1>1. CASE Split
    BY <1>1, SplitBasics DEF Basics, Unsplit, Split, transfer, Gapless
  <1> SUFFICES ASSUME ~Split PROVE Gapless'
    BY <1>1
  <1>2. UNCHANGED file
    BY StepBasics
  <1>3. /\ Jobs' = Jobs /\ faults' = faults /\ \A j : First(j)' = First(j)
        /\ start \in [Jobs -> 0 .. total_size \cup {NoThread}]
        /\ "lose" \notin faults /\ "duplicate" \notin faults /\ "reorder" \notin faults
    BY <1>2, SameParts, TypesOf DEF Basics
  <1>4. \A j \in Jobs \ todo : \A k \in 1 .. Len(temp[j]) : temp[j][k] = First(j) + k - 1
    BY DEF Gapless
  <1>5. ASSUME NEW j \in Jobs, Begin(j) PROVE Gapless'
    <2>1. /\ net' = << >> /\ temp' = temp /\ temp[j] = << >> /\ start'[j] = NoThread /\ job' = j
          /\ todo' = todo \ {j}
      BY <1>5, TypesOf DEF Begin, Basics, Fresh, OnlyCurrent
    <2>2. /\ \A n \in 1 .. Len(net') : FALSE
          /\ \A k \in 1 .. Len(temp[j]) : FALSE
      BY <2>1, EmptySeq
    <2> QED BY <1>3, <1>4, <2>1, <2>2 DEF Gapless
  <1>6. ASSUME 1 \in 1 .. Len(net), Receive(1) PROVE Gapless'
    BY <1>2, <1>6, ReceiveGapless
  <1>7. ASSUME NEW j \in Jobs, StartUpload(j) PROVE Gapless'
    <2>1. UNCHANGED <<todo, state, job, temp, net>>
      BY <1>7 DEF StartUpload
    <2>2. CASE state = "recv"
      <3>1. j = job /\ net = << >> /\ temp[job] = << >> /\ start'[job] = First(job)
        BY <1>3, <1>7, <2>2 DEF StartUpload, OnlyCurrent
      <3>2. First(job) \in Int
        BY <1>7, <3>1, PartBounds, SplitDone DEF StartUpload, Basics
      <3>3. /\ Len(net) = 0 /\ Len(temp[job]) = 0 /\ \A n \in 1 .. Len(net) : FALSE
        BY <3>1, EmptySeq
      <3>4. Due(Len(net) + 1)' = First(job)
        BY <1>3, <2>1, <3>2, <3>3 DEF Due
      <3> QED BY <1>3, <1>4, <2>1, <3>1, <3>3, <3>4 DEF Gapless
    <2>3. CASE state # "recv"
      BY <1>3, <1>4, <2>1, <2>3 DEF Gapless
    <2> QED BY <2>2, <2>3
  <1>8. ASSUME NEW j \in Jobs, SendPacket(j) PROVE Gapless'
    <2>1. UNCHANGED <<todo, state, job, temp>>
      BY <1>8 DEF SendPacket
    <2>2. CASE state = "recv"
      <3>1. j = job
        BY <1>8, <2>2, OnlyCurrentSends DEF SendPacket
      <3>2. PICK l : l = Len(net) + 1
        OBVIOUS
      <3>3. /\ Len(net) \in Nat /\ Len(net') = l
            /\ \A n \in 1 .. l : n = l \/ n \in 1 .. Len(net)
            /\ \A n \in 1 .. Len(net) : FirstOf(n)' = FirstOf(n) /\ LastOf(n)' = LastOf(n)
            /\ FirstOf(l)' = start[job] /\ LastOf(l)' = PacketEnd(job)
            /\ start'[job] = PacketEnd(job) + 1
        BY <1>2, <1>8, <3>1, <3>2, MoreOnNet
      <3>4. \A n : Due(n)' = IF n = 1 THEN First(job) + Len(temp[job]) ELSE LastOf(n - 1)' + 1
        BY <1>3, <2>1 DEF Due
      <3>5. \A n \in 1 .. l : n # 1 => n - 1 \in 1 .. Len(net)
        BY <3>2, <3>3
      <3>6. \A n \in 1 .. l : Due(n)' = Due(n)
        BY <3>3, <3>4, <3>5 DEF Due
      <3>7. \A n \in 1 .. Len(net) : n \in 1 .. l
        BY <3>2, <3>3
      <3>8. \A n \in 1 .. Len(net) : FirstOf(n)' = Due(n)'
        BY <2>2, <3>3, <3>6, <3>7 DEF Gapless
      <3>9. start[job] = Due(l) /\ l \in 1 .. l
        BY <1>8, <2>2, <3>1, <3>2, <3>3 DEF Gapless, SendPacket
      <3>10. FirstOf(l)' = Due(l)'
        BY <3>3, <3>6, <3>9
      <3>11. l + 1 # 1 /\ (l + 1) - 1 = l
        BY <3>2, <3>3
      <3>12. start'[job] = Due(Len(net) + 1)'
        <4>1. PICK m : m = l + 1
          OBVIOUS
        <4>2. m # 1 /\ m - 1 = l /\ m = Len(net') + 1
          BY <3>3, <3>11, <4>1
        <4>3. start'[job] = Due(m)'
          BY <3>3, <3>4, <4>2
        <4> QED BY <4>2, <4>3 DEF Due, LastOf
      <3> QED BY <1>3, <1>4, <2>1, <3>3, <3>8, <3>10, <3>12 DEF Gapless
    <2>3. CASE state # "recv"
      BY <1>3, <1>4, <2>1, <2>3 DEF Gapless
    <2> QED BY <2>2, <2>3
  <1>9. ASSUME NEW j \in Jobs, EndUpload(j) PROVE Gapless'
    <2>1. UNCHANGED <<todo, state, job, temp, net>>
      BY <1>9 DEF EndUpload
    <2>2. \A n : FirstOf(n)' = FirstOf(n) /\ Due(n)' = Due(n)
      BY <1>3, <2>1 DEF FirstOf, LastOf, Due
    <2>3. Due(Len(net) + 1)' = Due(Len(net) + 1)
      BY <1>3, <2>1 DEF LastOf, Due
    <2>4. state = "recv" => start'[job] = NoThread \/ start'[job] = start[job]
      BY <1>3, <1>9, TypesOf DEF EndUpload, Basics, Fresh
    <2> QED BY <1>3, <1>4, <2>1, <2>2, <2>3, <2>4 DEF Gapless
  <1>10. ASSUME UNCHANGED <<todo, temp>>,
                state' # "recv" \/ UNCHANGED <<state, job, net, start>>
         PROVE  Gapless'
    <2>1. CASE state' # "recv"
      BY <1>3, <1>4, <1>10, <2>1 DEF Gapless
    <2>2. CASE UNCHANGED <<state, job, net, start>>
      <3>1. \A n : FirstOf(n)' = FirstOf(n) /\ Due(n)' = Due(n)
        BY <1>3, <1>10, <2>2 DEF FirstOf, LastOf, Due
      <3>2. Due(Len(net) + 1)' = Due(Len(net) + 1)
        BY <1>3, <1>10, <2>2 DEF LastOf, Due
      <3> QED BY <1>3, <1>4, <1>10, <2>2, <3>1, <3>2 DEF Gapless
    <2> QED BY <1>10, <2>1, <2>2
  <1>11. ASSUME NEW i, LosePacket(i) PROVE FALSE
    BY <1>3, <1>11 DEF LosePacket
  <1>12. \A i \in DOMAIN net : i \in 1 .. Len(net) /\ (Receive(i) => i = 1)
    BY <1>3, TypesOf DEF Basics, Receive
  <1> QED
    BY <1>5, <1>6, <1>7, <1>8, <1>9, <1>10, <1>11, <1>12, NoCopies
    DEF Next, Worker, Server, Faults, Loses, Terminated, vars, transfer, Leave, Timeout,
        LoseRequest, Die

\* A part without gaps that ends with its last byte is the part.
LEMMA GaplessIsIntact ==
  ASSUME Basics, NoForeignBytes, Gapless
  PROVE  Intact
  <1> SUFFICES ASSUME faults \cap {"lose", "duplicate", "reorder"} = {}, NEW j \in Jobs,
                      result[j] = "ended"
               PROVE  temp[j] = Wanted(j)
    BY DEF Intact
  <1>1. j \notin todo /\ temp[j] \in Seq(Positions)
    BY TypesOf DEF Basics, Fresh
  <1>2. /\ temp[j] # << >> /\ Last(temp[j]) = End(j)
        /\ \A k \in 1 .. Len(temp[j]) : temp[j][k] = First(j) + k - 1
    BY <1>1 DEF NoForeignBytes, Gapless
  <1>3. Len(jobs) = job_num
    BY <1>1, SplitDone DEF Basics
  <1>4. First(j) \in Int /\ End(j) \in Int
    BY <1>3, PartBounds DEF Basics
  <1> DEFINE t == temp[j]
  <1>5. t \in Seq(Positions) /\ t # << >>
    BY <1>1, <1>2
  <1> HIDE DEF t
  <1>6. Len(t) \in Nat \ {0} /\ t = [k \in 1 .. Len(t) |-> t[k]]
    BY <1>5, EmptySeq, LenProperties
  <1>7. End(j) = First(j) + Len(t) - 1
    BY <1>2, <1>6 DEF Last, t
  <1>8. Length(j) = Len(t)
    BY <1>4, <1>6, <1>7 DEF Length
  <1>9. t = [k \in 1 .. Len(t) |-> First(j) + k - 1]
    BY <1>2, <1>6 DEF t
  <1> QED BY <1>8, <1>9 DEF Wanted, t
-----------------------------------------------------------------------------
(* Which parts time out.                                                   *)

\* Division with a remainder.
LEMMA Remainder ==
  ASSUME NEW d \in Nat \ {0}, NEW r \in Int
  PROVE  r \div d \in Int /\ r % d \in Int /\ r = (r \div d) * d + (r % d)
  OBVIOUS

\* Taking the divisor away once leaves the remainder.
LEMMA SameRemainder ==
  ASSUME NEW d \in Nat \ {0}, NEW r \in Int
  PROVE  (r - d) % d = r % d
  <1> DEFINE q == r \div d
             m == r % d
             p == (r - d) \div d
             n == (r - d) % d
  <1>1. r = q * d + m /\ q \in Int /\ m \in Int
    BY Remainder
  <1>2. r - d = p * d + n /\ p \in Int /\ n \in Int
    <2>1. r - d \in Int
      OBVIOUS
    <2> HIDE DEF p, n
    <2> QED BY <2>1, Remainder DEF p, n
  <1>3. p = q - 1
    OBVIOUS
  <1> HIDE DEF q, m, p, n
  <1>4. (q - 1) * d = q * d - d /\ q * d \in Int
    BY <1>1
  <1>5. r - d = q * d - d + n
    BY <1>2, <1>3, <1>4
  <1>6. m = n
    BY <1>1, <1>2, <1>4, <1>5
  <1> QED BY <1>6 DEF m, n

\* A remainder of one is not left over by 2 bytes up to a full packet, but by 1.
LEMMA LastPacket ==
  ASSUME NEW r \in Int, 1 <= r, r <= BufferSize
  PROVE  r % BufferSize = 1 <=> r = 1
  <1>1. CASE r = BufferSize
    <2>1. BufferSize % BufferSize = 0
      BY BufferSizeAssumption
    <2> QED BY <1>1, <2>1, BufferSizeAssumption
  <1>2. CASE r # BufferSize
    <2>1. r \in 0 .. BufferSize - 1
      BY <1>2, BufferSizeAssumption
    <2>2. r % BufferSize = r
      BY <2>1, BufferSizeAssumption
    <2> QED BY <2>2
  <1> QED BY <1>1, <1>2

\* A packet that is not the last one leaves the thread in its stride; the last
\* one is of a part that can be served.
LEMMA SendExplained ==
  ASSUME Basics, Threads, UNCHANGED file, NEW j \in Jobs, SendPacket(j), InStride(j)
  PROVE  /\ More(j) => InStride(j)'
         /\ ~More(j) => ~Unservable(j)
  <1> DEFINE s == start[j]
             e == End(j)
             f == First(j)
             B == BufferSize
  <1>1. /\ s \in Int /\ e \in Int /\ f \in Int /\ s < e /\ f <= s
        /\ PacketEnd(j) = IF More(j) THEN s + B - 1 ELSE e
        /\ start'[j] = PacketEnd(j) + 1
    <2>1. /\ s \in Nat /\ e \in Int /\ f \in Nat /\ s < e
          /\ PacketEnd(j) = IF More(j) THEN s + B - 1 ELSE e
          /\ start'[j] = PacketEnd(j) + 1
      BY MoreOnNet
    <2>2. f <= s
      BY DEF Threads, SendPacket
    <2> QED BY <2>1, <2>2
  <1>2. B \in Nat \ {0} /\ B >= 2
    BY BufferSizeAssumption
  <1>3. More(j) <=> s + B - 1 < e
    BY DEF More
  <1>4. Length(j) = e - f + 1 /\ Length(j) \in Int /\ Length(j) >= 2
    BY <1>1 DEF Length
  <1>5. (e - s + 1) % B = Length(j) % B
    BY DEF InStride
  <1>6. ASSUME More(j) PROVE InStride(j)'
    <2>1. start'[j] = s + B /\ s + B <= e
      BY <1>1, <1>2, <1>3, <1>6
    <2>2. e - s + 1 \in Int /\ e - (s + B) + 1 = (e - s + 1) - B
      BY <1>1, <1>2
    <2>3. (e - (s + B) + 1) % B = (e - s + 1) % B
      BY <1>2, <2>2, SameRemainder
    <2>4. Length(j)' = Length(j) /\ End(j)' = e /\ First(j)' = f
      BY SameParts
    <2> HIDE DEF s, e, f, B
    <2>5. start'[j] <= End(j)' /\ (End(j)' - start'[j] + 1) % B = Length(j)' % B
      BY <1>5, <2>1, <2>3, <2>4
    <2> QED BY <2>5 DEF InStride, B
  <1>7. ASSUME ~More(j) PROVE ~Unservable(j)
    <2>1. e - s + 1 \in Int /\ 1 <= e - s + 1 /\ e - s + 1 <= B /\ e - s + 1 # 1
      BY <1>1, <1>2, <1>3, <1>7
    <2>2. (e - s + 1) % B # 1
      BY <2>1, LastPacket
    <2> QED BY <1>4, <1>5, <2>2 DEF Unservable
  <1> QED BY <1>6, <1>7

\* A thread in its stride that ends has sent nothing marked as the last packet:
\* its part cannot be served.
LEMMA EndExplained ==
  ASSUME Basics, NEW j \in Jobs, EndUpload(j), InStride(j)
  PROVE  Unservable(j)
  <1>1. Len(jobs) = job_num
    BY SplitDone DEF EndUpload, Basics
  <1>2. /\ start[j] \in Int /\ End(j) \in Int /\ First(j) \in Int /\ start[j] >= End(j)
    BY <1>1, PartBounds, TypesOf DEF EndUpload, Basics, NoThread
  <1>3. CASE start[j] > End(j)
    BY <1>2, <1>3 DEF InStride, Unservable, Length
  <1>4. CASE start[j] = End(j)
    <2>1. End(j) - start[j] + 1 = 1 /\ 1 \in Int /\ 1 <= BufferSize
      BY <1>2, <1>4, BufferSizeAssumption
    <2>2. 1 % BufferSize = 1
      BY <2>1, LastPacket
    <2> QED BY <2>1, <2>2 DEF InStride, Unservable
  <1> QED BY <1>2, <1>3, <1>4

\* Without faults a step gives up a part only if it cannot be served.
LEMMA StepExplained ==
  ASSUME Basics, Threads, OnlyCurrent, Queued, Explained, Next, faults = {}
  PROVE  Explained'
  <1>1. CASE Split
    <2>1. /\ Jobs' = Jobs /\ todo = Jobs /\ state = "idle" /\ faults' = faults
          /\ UNCHANGED transfer
      BY <1>1, SplitBasics DEF Basics, Unsplit, Split
    <2>2. \A j \in Jobs : result'[j] = "none"
      BY <2>1 DEF Basics, Fresh, transfer
    <2> QED BY <2>1, <2>2 DEF Explained, TimeoutsExplained, transfer
  <1> SUFFICES ASSUME ~Split PROVE Explained'
    BY <1>1
  <1>2. UNCHANGED file
    BY StepBasics
  <1>3. /\ Jobs' = Jobs /\ faults' = {}
        /\ \A j : /\ Unservable(j)' <=> Unservable(j)
                  /\ First(j)' = First(j) /\ End(j)' = End(j) /\ Length(j)' = Length(j)
        /\ start \in [Jobs -> 0 .. total_size \cup {NoThread}]
        /\ alive
        /\ state = "recv" => job \in Jobs
    BY <1>2, SameParts, TypesOf DEF Basics, Fresh, Explained
  <1>4. \A j \in Jobs : /\ result[j] = "timeout" => Unservable(j)
                        /\ result[j] = "ended"   => ~Unservable(j)
    BY DEF Explained, TimeoutsExplained
  <1> DEFINE Fair == \A j \in Jobs : /\ result'[j] = "timeout" => Unservable(j)
                                     /\ result'[j] = "ended"   => ~Unservable(j)
             Hand == state' = "recv" =>
                       /\ \A n \in 1 .. Len(net') : net'[n].content_is_end => ~Unservable(job')
                       /\ start'[job'] # NoThread => EndQueued' \/ InStride(job)'
                       /\ start'[job'] = NoThread /\ job' \notin asked' =>
                            EndQueued' \/ Unservable(job')
  <1>5. SUFFICES Fair /\ Hand /\ alive'
    BY <1>3 DEF Explained, TimeoutsExplained
  <1>6. ASSUME NEW j \in Jobs, Begin(j) PROVE Fair /\ Hand /\ alive'
    <2>1. /\ net' = << >> /\ start'[j] = NoThread /\ job' = j /\ j \in asked' /\ result' = result
          /\ alive' = alive
      BY <1>6 DEF Begin, Basics, Fresh, OnlyCurrent
    <2>2. \A n \in 1 .. Len(net') : FALSE
      BY <2>1, EmptySeq
    <2> QED BY <1>3, <1>4, <2>1, <2>2
  <1>7. ASSUME 1 \in 1 .. Len(net), Receive(1) PROVE Fair /\ Hand /\ alive'
    <2>1. /\ state = "recv" /\ job \in Jobs /\ UNCHANGED <<asked, start, alive>>
      BY <1>3, <1>7 DEF Receive
    <2>2. Fair
      <3>1. \A j \in Jobs : j # job => result'[j] = result[j]
        BY <1>7, Written
      <3>2. net[1].content_is_end => result'[job] = "ended" /\ ~Unservable(job)
        BY <1>7, <2>1, TypesOf DEF Receive, Basics, Explained
      <3>3. ~net[1].content_is_end => result' = result
        BY <1>7 DEF Receive
      <3> QED BY <1>4, <3>1, <3>2, <3>3
    <2>3. ASSUME state' = "recv" PROVE Hand
      <3>1. job' = job /\ ~net[1].content_is_end
        BY <2>3, <1>7 DEF Receive
      <3>2. /\ Len(net) \in Nat \ {0} /\ Len(net') = Len(net) - 1
            /\ \A n \in 1 .. Len(net') : /\ Before(1, n) \in 1 .. Len(net)
                                         /\ net'[n].content_is_end = net[Before(1, n)].content_is_end
        BY <1>2, <1>7, LeftOnNet DEF Basics, Receive
      <3>3. EndQueued => EndQueued'
        <4>1. SUFFICES ASSUME EndQueued PROVE EndQueued'
          OBVIOUS
        <4>2. Len(net) # 1 /\ net[Len(net)].content_is_end
          BY <3>1, <4>1 DEF EndQueued
        <4>3. Len(net') \in 1 .. Len(net') /\ Before(1, Len(net')) = Len(net)
          BY <3>2, <4>2 DEF Before
        <4>4. net'[Len(net')].content_is_end
          BY <3>2, <4>2, <4>3
        <4>5. net' # << >>
          BY <3>2, <4>3, EmptySeq
        <4> QED BY <4>4, <4>5 DEF EndQueued
      <3>4. InStride(job)' <=> InStride(job)
        BY <1>3, <2>1, <3>1 DEF InStride
      <3>5. \A n \in 1 .. Len(net') : net'[n].content_is_end => ~Unservable(job)
        BY <2>1, <3>2 DEF Explained
      <3>6. /\ start[job] # NoThread => EndQueued \/ InStride(job)
            /\ start[job] = NoThread /\ job \notin asked => EndQueued \/ Unservable(job)
        BY <2>1 DEF Explained
      <3> QED BY <2>1, <3>1, <3>3, <3>4, <3>5, <3>6
    <2> QED BY <1>3, <2>1, <2>2, <2>3
  <1>8. CASE Timeout
    <2>1. state = "recv" /\ job \in Jobs /\ Silent /\ state' = "closed" /\ alive' = alive
      BY <1>3, <1>8 DEF Timeout
    <2>2. net = << >> /\ job \notin asked /\ start[job] = NoThread
      BY <1>3, <2>1 DEF Silent, Uploading
    <2>3. Unservable(job)
      BY <2>1, <2>2 DEF Explained, EndQueued
    <2>4. \A j \in Jobs : result'[j] = IF j = job THEN "timeout" ELSE result[j]
      BY <1>8, <2>1, TypesOf DEF Timeout, Basics
    <2> QED BY <1>3, <1>4, <2>1, <2>3, <2>4
  <1>9. ASSUME NEW j \in Jobs, StartUpload(j) PROVE Fair /\ Hand /\ alive'
    <2>1. UNCHANGED <<state, job, result, net, alive>>
      BY <1>9 DEF StartUpload
    <2>2. ASSUME state = "recv" PROVE Hand
      <3>1. j = job /\ net = << >> /\ start'[job] = First(job)
        BY <1>3, <1>9, <2>2 DEF StartUpload, OnlyCurrent
      <3>2. First(job) \in Int /\ End(job) \in Int
        BY <1>9, <3>1, PartBounds, SplitDone DEF StartUpload, Basics
      <3>3. InStride(job)'
        BY <1>3, <2>1, <3>1, <3>2 DEF InStride, Length
      <3>4. First(job) # NoThread
        BY <1>9, <3>1, PartBounds, SplitDone DEF StartUpload, Basics, NoThread
      <3>5. \A n \in 1 .. Len(net') : FALSE
        BY <2>1, <3>1, EmptySeq
      <3> QED BY <2>1, <3>1, <3>3, <3>4, <3>5
    <2> QED BY <1>3, <1>4, <2>1, <2>2
  <1>10. ASSUME NEW j \in Jobs, SendPacket(j) PROVE Fair /\ Hand /\ alive'
    <2>1. UNCHANGED <<state, job, result, asked, alive>>
      BY <1>10 DEF SendPacket
    <2>2. ASSUME state = "recv" PROVE Hand
      <3>1. j = job
        BY <1>10, <2>2, OnlyCurrentSends DEF SendPacket
      <3>2. PICK l : l = Len(net) + 1
        OBVIOUS
      <3>3. /\ Len(net) \in Nat /\ Len(net') = l
            /\ \A n \in 1 .. l : n = l \/ n \in 1 .. Len(net)
            /\ \A n \in 1 .. Len(net) : net'[n] = net[n]
            /\ net'[l].content_is_end <=> ~More(job)
            /\ start[job] \in Nat /\ start[job] < End(job) /\ End(job) \in Int
            /\ start'[job] = PacketEnd(job) + 1 /\ PacketEnd(job) \in Int
        BY <1>2, <1>10, <3>1, <3>2, MoreOnNet
      <3>4. start[job] # NoThread
        BY <3>3 DEF NoThread
      <3>5. ~EndQueued
        <4>1. SUFFICES ASSUME EndQueued PROVE FALSE
          OBVIOUS
        <4>2. Len(net) \in 1 .. Len(net) /\ net[Len(net)].content_is_end
          BY <3>3, <4>1, EmptySeq, TypesOf DEF EndQueued, Basics
        <4>3. start[job] > End(job)
          BY <2>2, <3>4, <4>2 DEF Queued
        <4> QED BY <3>3, <4>3
      <3>6. InStride(job)
        BY <2>2, <3>4, <3>5 DEF Explained
      <3>7. /\ More(job) => InStride(job)'
            /\ ~More(job) => ~Unservable(job)
        <4>1. /\ More(j) => InStride(j)'
              /\ ~More(j) => ~Unservable(j)
          BY <1>2, <1>10, <3>1, <3>6, SendExplained
        <4>2. job' = j
          BY <2>1, <3>1
        <4>3. InStride(job)' <=> InStride(j)'
          BY <4>2 DEF InStride, First, End, Length
        <4> QED BY <3>1, <4>1, <4>3
      <3>8. ~More(job) => EndQueued'
        <4>1. SUFFICES ASSUME ~More(job) PROVE EndQueued'
          OBVIOUS
        <4>2. Len(net') # 0 /\ net'[Len(net')].content_is_end
          BY <3>2, <3>3, <4>1
        <4> QED BY <4>2, EmptySeq DEF EndQueued
      <3>9. \A n \in 1 .. Len(net') : net'[n].content_is_end => ~Unservable(job)
        BY <2>2, <3>3, <3>7 DEF Explained
      <3>10. start'[job] # NoThread
        <4>1. PacketEnd(job) \in start[job] .. End(job)
          BY <1>2, <1>10, <3>1, MoreOnNet
        <4> QED BY <3>3, <4>1 DEF NoThread
      <3> QED BY <2>1, <3>7, <3>8, <3>9, <3>10
    <2> QED BY <1>3, <1>4, <2>1, <2>2
  <1>11. ASSUME NEW j \in Jobs, EndUpload(j) PROVE Fair /\ Hand /\ alive'
    <2>1. UNCHANGED <<state, job, result, asked, net, alive>>
      BY <1>11 DEF EndUpload
    <2>2. EndQueued' <=> EndQueued
      BY <2>1 DEF EndQueued
    <2>3. ASSUME state = "recv" PROVE Hand
      <3>1. \A n \in 1 .. Len(net') : net'[n].content_is_end => ~Unservable(job)
        BY <2>1, <2>3 DEF Explained
      <3>2. CASE j = job
        <4>1. start'[job] = NoThread /\ start[job] # NoThread
          BY <1>3, <1>11, <3>2 DEF EndUpload
        <4>2. EndQueued \/ Unservable(job)
          BY <1>11, <2>3, <3>2, <4>1, EndExplained DEF Explained
        <4> QED BY <2>1, <2>2, <3>1, <4>1, <4>2
      <3>3. CASE j # job
        <4>1. start'[job] = start[job]
          BY <1>3, <1>11, <2>3, <3>3 DEF EndUpload
        <4>2. InStride(job)' <=> InStride(job)
          BY <1>3, <2>1, <4>1 DEF InStride
        <4>3. /\ start[job] # NoThread => EndQueued \/ InStride(job)
              /\ start[job] = NoThread /\ job \notin asked => EndQueued \/ Unservable(job)
          BY <2>3 DEF Explained
        <4> QED BY <2>1, <2>2, <3>1, <4>1, <4>2, <4>3
      <3> QED BY <3>2, <3>3
    <2> QED BY <1>3, <1>4, <2>1, <2>3
  <1>12. CASE UNCHANGED <<state, job, result, asked, start, net, alive>>
    <2>1. (EndQueued' <=> EndQueued) /\ (InStride(job)' <=> InStride(job))
      BY <1>3, <1>12 DEF EndQueued, InStride
    <2>2. Hand
      BY <1>12, <2>1 DEF Explained
    <2> QED BY <1>3, <1>4, <1>12, <2>2
  <1>13. CASE state' # "recv" /\ UNCHANGED <<result, alive>>
    BY <1>3, <1>4, <1>13
  <1>14. /\ \A i \in DOMAIN net : i \in 1 .. Len(net) /\ (Receive(i) => i = 1)
         /\ \A i : ~LosePacket(i) /\ ~LoseRequest(i)
         /\ ~Die
    BY TypesOf DEF Basics, Receive, LosePacket, LoseRequest, Die
  <1> HIDE DEF Fair, Hand
  <1> QED
    BY <1>6, <1>7, <1>8, <1>9, <1>10, <1>11, <1>12, <1>13, <1>14, NoCopies
    DEF Next, Worker, Server, Faults, Loses, Terminated, vars, transfer, Leave
-----------------------------------------------------------------------------
(* The theorems.                                                           *)

LEMMA InitInv == Init => IInv
  <1> SUFFICES ASSUME Init PROVE IInv
    OBVIOUS
  <1>1. /\ SplitInv /\ total_size \in Nat /\ job_num \in Nat
        /\ todo = Jobs /\ state = "idle" /\ job = NoJob /\ asked = {} /\ net = << >> /\ alive = TRUE
        /\ faults \in FaultSets
        /\ temp = [j \in Jobs |-> << >>] /\ result = [j \in Jobs |-> "none"]
        /\ start = [j \in Jobs |-> NoThread]
    BY InitSplit DEF Init, SplitInv, SplitTypeOK
  <1>2. /\ Len(net) = 0 /\ Range(<< >>) = {} /\ IsInjective(<< >>)
        /\ \A n \in 1 .. Len(net) : FALSE
    BY <1>1, EmptySeq DEF Range, IsInjective
  <1>3. faults \subseteq Fault
    BY <1>1, FaultSetsAssumption
  <1>4. SplitTypeOK /\ << >> \in Seq(Positions)
        /\ net \in Seq([content : Seq(Positions), content_is_end : BOOLEAN])
    BY <1>1, EmptySeq DEF SplitInv
  <1>5. TypeOK
    BY <1>1, <1>3, <1>4, MaxCopiesAssumption DEF Init, TypeOK
  <1>6. NoJob \notin Jobs
    BY DEF NoJob, Jobs
  <1>7. Unsplit /\ Fresh /\ Runs /\ Threads
    BY <1>1, <1>2, <1>6 DEF Unsplit, Fresh, Runs, Threads
  <1>8. Single
    BY <1>1, <1>2 DEF Single, Once
  <1>9. InOrder
    BY <1>1 DEF InOrder, NoForeignBytes, OnlyCurrent, Queued
  <1>10. Gapless
    BY <1>1 DEF Gapless
  <1>11. Explained
    BY <1>1 DEF Explained, TimeoutsExplained
  <1> QED BY <1>1, <1>5, <1>7, <1>8, <1>9, <1>10, <1>11 DEF IInv

\* A step that changes nothing.
LEMMA StutterInv == IInv /\ UNCHANGED vars => IInv'
  <1> SUFFICES ASSUME IInv, UNCHANGED vars PROVE IInv'
    OBVIOUS
  <1>1. UNCHANGED file /\ UNCHANGED transfer /\ copies' = copies
    BY DEF vars, file
  <1>2. /\ Jobs' = Jobs /\ Positions' = Positions /\ faults' = faults
        /\ \A j : /\ First(j)' = First(j) /\ End(j)' = End(j)
                  /\ Length(j)' = Length(j) /\ (Unservable(j)' <=> Unservable(j))
    BY <1>1, SameParts
  <1>3. SplitInv' /\ SplitTypeOK'
    BY <1>1, NextSplit DEF IInv, SplitInv, file, split_vars
  <1>4. TypeOK'
    <2>1. TypeOK /\ total_size' = total_size
      BY <1>1 DEF IInv, file, split_vars
    <2> QED BY <1>1, <1>2, <1>3, <2>1 DEF TypeOK, transfer
  <1>5. Unsplit' /\ Fresh' /\ Runs' /\ Threads'
    BY <1>1, <1>2 DEF IInv, Unsplit, Fresh, Runs, Threads, file, split_vars, transfer
  <1>6. \A b : Sent(b)' <=> Sent(b)
    BY <1>1, <1>2 DEF Sent, transfer
  <1>7. Single'
    <2>1. net' = net /\ temp' = temp
      BY <1>1 DEF transfer
    <2> QED BY <1>2, <1>6, <2>1 DEF IInv, Single, Once
  <1>8. /\ \A n : FirstOf(n)' = FirstOf(n) /\ LastOf(n)' = LastOf(n) /\ Due(n)' = Due(n)
        /\ Due(Len(net) + 1)' = Due(Len(net) + 1)
    BY <1>1, <1>2 DEF FirstOf, LastOf, Due, transfer
  <1>9. NoForeignBytes => NoForeignBytes'
    BY <1>1, <1>2 DEF NoForeignBytes, transfer
  <1>10. (OnlyCurrent => OnlyCurrent') /\ (Queued => Queued')
    BY <1>1, <1>2, <1>8 DEF OnlyCurrent, Queued, transfer
  <1>11. InOrder'
    BY <1>2, <1>9, <1>10 DEF IInv, InOrder
  <1>12. Gapless'
    BY <1>1, <1>2, <1>8 DEF IInv, Gapless, transfer
  <1>13. (EndQueued' <=> EndQueued) /\ (InStride(job)' <=> InStride(job))
    BY <1>1, <1>2 DEF EndQueued, InStride, transfer
  <1>14. Explained'
    BY <1>1, <1>2, <1>13 DEF IInv, Explained, TimeoutsExplained, transfer
  <1> QED BY <1>3, <1>4, <1>5, <1>7, <1>11, <1>12, <1>14 DEF IInv

LEMMA NextInv == IInv /\ [Next]_vars => IInv'
  <1>1. ASSUME IInv, Next PROVE IInv'
    <2>1. Basics /\ Threads /\ Single /\ InOrder /\ Gapless /\ Explained
      BY <1>1 DEF IInv, Basics
    <2>2. Basics' /\ faults' = faults
      BY <1>1, <2>1, SplitBasics, StepBasics DEF file, Split
    <2>3. Threads' /\ Single'
      BY <1>1, <2>1, <2>2, StepThreads, StepOnce DEF Single
    <2>4. InOrder'
      BY <1>1, <2>1, <2>2, StepOnlyCurrent, StepQueued, StepForeign DEF InOrder
    <2>5. Gapless'
      <3>1. CASE faults \cap {"lose", "duplicate", "reorder"} = {}
        <4>1. OnlyCurrent
          BY <2>1, <3>1 DEF InOrder
        <4> QED BY <1>1, <2>1, <3>1, <4>1, StepGapless
      <3>2. CASE faults \cap {"lose", "duplicate", "reorder"} # {}
        BY <2>2, <3>2 DEF Gapless
      <3> QED BY <3>1, <3>2
    <2>6. Explained'
      <3>1. CASE faults = {}
        <4>1. OnlyCurrent /\ Queued
          BY <2>1, <3>1 DEF InOrder
        <4> QED BY <1>1, <2>1, <3>1, <4>1, StepExplained
      <3>2. CASE faults # {}
        BY <2>2, <3>2 DEF Explained
      <3> QED BY <3>1, <3>2
    <2> QED BY <2>2, <2>3, <2>4, <2>5, <2>6 DEF IInv, Basics
  <1> QED BY <1>1, StutterInv

\* For a file of every length, cut into any number of parts and sent in packets
\* of every size, whatever is lost, duplicated, reordered or late and whoever
\* dies: the invariant holds.
THEOREM Invariance == Spec => []IInv
  BY InitInv, NextInv, PTL DEF Spec

\* Unless the network duplicates a datagram, a byte of the target file is written
\* once, in whichever file of a part it ends up, whatever is lost, reordered or
\* late: udp_download_file appends what it reads, and no upload thread sends a
\* byte twice.
THEOREM BytesAreOnce == Spec => []BytesOnce
  <1>1. IInv => BytesOnce
    <2> SUFFICES ASSUME IInv, "duplicate" \notin faults, NEW i \in Jobs, NEW j \in Jobs,
                        NEW k \in DOMAIN temp[i], NEW m \in DOMAIN temp[j],
                        temp[i][k] = temp[j][m]
                 PROVE  i = j /\ k = m
      BY DEF BytesOnce
    <2>1. Once
      BY DEF IInv, Single
    <2>2. temp[i][k] \in Range(temp[i]) /\ temp[i][k] \in Range(temp[j])
      BY DEF Range
    <2>3. i = j
      BY <2>1, <2>2 DEF Once
    <2>4. IsInjective(temp[i])
      BY <2>1 DEF Once
    <2> QED BY <2>3, <2>4 DEF IsInjective
  <1> QED BY <1>1, Invariance, PTL

\* If datagrams keep their order and come at most once, however many are lost or
\* late, no byte gets into the file of another part of udp_download_file, and the bytes of a part
\* are in order.
THEOREM BytesAreOwn == Spec => []NoForeignBytes
  <1>1. IInv => NoForeignBytes
    BY DEF IInv, InOrder, NoForeignBytes
  <1> QED BY <1>1, Invariance, PTL

\* If none is lost either, a part reported as done is byte for byte the range
\* that was asked for, however it falls against BUFFER_SIZE, whenever the server
\* dies or the answer is late.
THEOREM EndedIsIntact == Spec => []Intact
  <1>1. IInv => Intact
    BY GaplessIsIntact DEF IInv, Basics, InOrder, NoForeignBytes
  <1> QED BY <1>1, Invariance, PTL

\* Without faults a part is given up only if its upload never marks a packet as
\* the last one, because it is empty or one byte is left over, and such a part is
\* never done.
THEOREM TimeoutsAreExplained == Spec => []TimeoutsExplained
  <1>1. IInv => TimeoutsExplained
    BY DEF IInv, Explained, TimeoutsExplained
  <1> QED BY <1>1, Invariance, PTL
=============================================================================
