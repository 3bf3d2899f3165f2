----------------------------- MODULE ListLemmas -----------------------------
(***************************************************************************)
(* Facts about the operations on the array lists of mydatastructure.c and  *)
(* dynamicarray.c, modelled as sequences: taking the last item, adding one *)
(* at the end.  IsInjective(s) says that no item is in the list twice.  The *)
(* proofs about the components cite these lemmas.                          *)
(***************************************************************************)
EXTENDS Integers, Sequences, SequencesExt, SequenceTheorems, FiniteSetTheorems,
        WellFoundedInduction, TLAPS

\* A list with `occupied' # 0 has a last item, at index `occupied'.
LEMMA NonEmptySeq ==
  ASSUME NEW S, NEW s \in Seq(S), s # << >>
  PROVE  Len(s) \in Nat \ {0} /\ DOMAIN s = 1 .. Len(s) /\ Len(s) \in DOMAIN s
  BY EmptySeq, LenProperties

\* popJobItem, and getServerItem followed by removeServerItem at the last
\* index: the other items stay where they are.
LEMMA TakeLast ==
  ASSUME NEW S, NEW s \in Seq(S), s # << >>
  PROVE  /\ Front(s) \in Seq(S)
         /\ Len(Front(s)) = Len(s) - 1
         /\ \A i \in 1 .. Len(s) - 1 : Front(s)[i] = s[i]
         /\ Last(s) \in S
  <1>1. Len(s) \in Nat \ {0} /\ Len(s) \in DOMAIN s /\ DOMAIN s = 1 .. Len(s)
    BY NonEmptySeq
  <1>2. 1 \in 1 .. Len(s) + 1 /\ Len(s) - 1 \in 1 - 1 .. Len(s)
    BY <1>1
  <1>3. \A i \in 1 .. Len(s) - 1 : s[i] \in S
    BY <1>1, ElementOfSeq
  <1>4. /\ Front(s) \in Seq(S)
        /\ Len(Front(s)) = Len(s) - 1
        /\ \A i \in 1 .. Len(s) - 1 : Front(s)[i] = s[i]
    BY <1>1, <1>3 DEF Front
  <1>5. Last(s) \in S
    BY <1>1, ElementOfSeq DEF Last
  <1> QED BY <1>4, <1>5

\* The items of a list are what its cells hold.
LEMMA RangeInSet ==
  ASSUME NEW S, NEW s \in Seq(S)
  PROVE  Range(s) = {s[i] : i \in 1 .. Len(s)} /\ Range(s) \subseteq S
  BY LenProperties, ElementOfSeq DEF Range

\* Taking the last item of a list without repetition leaves every other item
\* and not the one taken.
LEMMA TakeLastOnce ==
  ASSUME NEW S, NEW s \in Seq(S), s # << >>, IsInjective(s)
  PROVE  /\ Last(s) \in Range(s)
         /\ Range(Front(s)) = Range(s) \ {Last(s)}
         /\ IsInjective(Front(s))
  <1>1. /\ Len(s) \in Nat \ {0} /\ Len(s) \in DOMAIN s
        /\ DOMAIN s = 1 .. Len(s) /\ Last(s) = s[Len(s)]
    BY NonEmptySeq DEF Last
  <1>2. DOMAIN Front(s) = 1 .. Len(s) - 1
    BY TakeLast, LenProperties
  <1>3. \A i \in 1 .. Len(s) - 1 : Front(s)[i] = s[i]
    BY TakeLast
  <1>4. \A i \in 1 .. Len(s) - 1 : i \in DOMAIN s /\ s[i] # Last(s)
    BY <1>1 DEF IsInjective
  <1>5. Range(Front(s)) = {s[i] : i \in 1 .. Len(s) - 1}
    BY <1>2, <1>3 DEF Range
  <1>6. Range(s) = {s[i] : i \in 1 .. Len(s)}
    BY <1>1 DEF Range
  <1>7. 1 .. Len(s) = (1 .. Len(s) - 1) \cup {Len(s)}
    BY <1>1
  <1>8. Last(s) \in Range(s) /\ Range(Front(s)) = Range(s) \ {Last(s)}
    BY <1>1, <1>4, <1>5, <1>6, <1>7
  <1>9. IsInjective(Front(s))
    BY <1>1, <1>2, <1>3, <1>4 DEF IsInjective
  <1> QED BY <1>8, <1>9

\* addJobItem and addServerItem: one item more, and no repetition if the item
\* was not there.
LEMMA PutLast ==
  ASSUME NEW S, NEW s \in Seq(S), NEW x \in S
  PROVE  /\ Append(s, x) \in Seq(S)
         /\ Append(s, x) # << >>
         /\ Len(Append(s, x)) = Len(s) + 1
         /\ Range(Append(s, x)) = Range(s) \cup {x}
         /\ IsInjective(s) /\ x \notin Range(s) => IsInjective(Append(s, x))
  <1>1. /\ Append(s, x) \in Seq(S) /\ Len(Append(s, x)) = Len(s) + 1
        /\ \A i \in 1 .. Len(s) : Append(s, x)[i] = s[i]
        /\ Append(s, x)[Len(s) + 1] = x
    BY AppendProperties
  <1>2. DOMAIN s = 1 .. Len(s) /\ DOMAIN Append(s, x) = 1 .. Len(s) + 1 /\ Len(s) \in Nat
    BY <1>1, LenProperties
  <1>3. 1 .. Len(s) + 1 = (1 .. Len(s)) \cup {Len(s) + 1}
    BY <1>2
  <1>4. Range(Append(s, x)) = Range(s) \cup {x}
    BY <1>1, <1>2, <1>3 DEF Range
  <1>5. IsInjective(s) /\ x \notin Range(s) => IsInjective(Append(s, x))
    BY <1>1, <1>2, <1>3 DEF Range, IsInjective
  <1>6. Append(s, x) # << >>
    BY <1>1, <1>2, EmptySeq
  <1> QED BY <1>1, <1>4, <1>5, <1>6

\* deleteItem at index i: the items behind it move up by one.
LEMMA RemoveItem ==
  ASSUME NEW S, NEW s \in Seq(S), NEW i \in 1 .. Len(s)
  PROVE  /\ RemoveAt(s, i) \in Seq(S)
         /\ Len(RemoveAt(s, i)) = Len(s) - 1
         /\ \A k \in 1 .. Len(s) - 1 :
              RemoveAt(s, i)[k] = IF k < i THEN s[k] ELSE s[k + 1]
  <1> DEFINE a == SubSeq(s, 1, i - 1)
             b == SubSeq(s, i + 1, Len(s))
  <1>1. Len(s) \in Nat /\ i \in Nat /\ 1 <= i /\ i <= Len(s)
    BY LenProperties
  <1>2. \A k \in 1 .. Len(s) : s[k] \in S
    BY ElementOfSeq
  <1>3. /\ a \in Seq(S) /\ Len(a) = i - 1
        /\ \A k \in 1 .. i - 1 : a[k] = s[k]
    <2>1. \A k \in 1 .. i - 1 : s[k] \in S
      BY <1>1, <1>2
    <2>2. /\ a \in Seq(S) /\ Len(a) = IF 1 <= i - 1 THEN i - 1 - 1 + 1 ELSE 0
          /\ \A k \in 1 .. i - 1 - 1 + 1 : a[k] = s[1 + k - 1]
      BY <1>1, <2>1, SubSeqProperties
    <2> QED BY <1>1, <2>2
  <1>4. /\ b \in Seq(S) /\ Len(b) = Len(s) - i
        /\ \A k \in 1 .. Len(s) - i : b[k] = s[i + k]
    <2>1. \A k \in i + 1 .. Len(s) : s[k] \in S
      BY <1>1, <1>2
    <2>2. /\ b \in Seq(S)
          /\ Len(b) = IF i + 1 <= Len(s) THEN Len(s) - (i + 1) + 1 ELSE 0
          /\ \A k \in 1 .. Len(s) - (i + 1) + 1 : b[k] = s[i + 1 + k - 1]
      BY <1>1, <2>1, SubSeqProperties
    <2> QED BY <1>1, <2>2
  <1>5. RemoveAt(s, i) = a \o b
    BY DEF RemoveAt
  <1> HIDE DEF a, b
  <1>6. /\ a \o b \in Seq(S) /\ Len(a \o b) = Len(s) - 1
        /\ \A k \in 1 .. Len(s) - 1 :
             (a \o b)[k] = IF k <= i - 1 THEN a[k] ELSE b[k - (i - 1)]
    <2>1. Len(a) + Len(b) = Len(s) - 1
      BY <1>1, <1>3, <1>4
    <2>2. /\ a \o b \in Seq(S) /\ Len(a \o b) = Len(a) + Len(b)
          /\ \A k \in 1 .. Len(a) + Len(b) :
               (a \o b)[k] = IF k <= Len(a) THEN a[k] ELSE b[k - Len(a)]
      BY <1>3, <1>4, ConcatProperties
    <2>3. Len(a) = i - 1
      BY <1>3
    <2> QED BY <2>1, <2>2, <2>3
  <1>7. ASSUME NEW k \in 1 .. Len(s) - 1
        PROVE  (a \o b)[k] = IF k < i THEN s[k] ELSE s[k + 1]
    <2>1. CASE k < i
      BY <1>1, <1>3, <1>6, <2>1
    <2>2. CASE i <= k
      <3>1. k - (i - 1) \in 1 .. Len(s) - i /\ i + (k - (i - 1)) = k + 1 /\ ~(k <= i - 1)
        BY <1>1, <2>2
      <3> QED BY <1>1, <1>4, <1>6, <2>2, <3>1
    <2>3. k < i \/ i <= k
      BY <1>1
    <2> QED BY <2>1, <2>2, <2>3
  <1> QED BY <1>5, <1>6, <1>7

\* An item put before the i-th: the items from there on move down by one.
LEMMA InsertItem ==
  ASSUME NEW S, NEW s \in Seq(S), NEW i \in 1 .. Len(s), NEW e \in S
  PROVE  /\ InsertAt(s, i, e) \in Seq(S)
         /\ Len(InsertAt(s, i, e)) = Len(s) + 1
         /\ \A k \in 1 .. Len(s) + 1 :
              InsertAt(s, i, e)[k] = IF k < i THEN s[k] ELSE IF k = i THEN e ELSE s[k - 1]
  <1> DEFINE a == SubSeq(s, 1, i - 1)
             b == SubSeq(s, i, Len(s))
  <1>1. Len(s) \in Nat /\ i \in Nat /\ 1 <= i /\ i <= Len(s)
    BY LenProperties
  <1>2. \A k \in 1 .. Len(s) : s[k] \in S
    BY ElementOfSeq
  <1>3. /\ a \in Seq(S) /\ Len(a) = i - 1
        /\ \A k \in 1 .. i - 1 : a[k] = s[k]
    <2>1. \A k \in 1 .. i - 1 : s[k] \in S
      BY <1>1, <1>2
    <2>2. /\ a \in Seq(S) /\ Len(a) = IF 1 <= i - 1 THEN i - 1 - 1 + 1 ELSE 0
          /\ \A k \in 1 .. i - 1 - 1 + 1 : a[k] = s[1 + k - 1]
      BY <1>1, <2>1, SubSeqProperties
    <2> QED BY <1>1, <2>2
  <1>4. /\ b \in Seq(S) /\ Len(b) = Len(s) - i + 1
        /\ \A k \in 1 .. Len(s) - i + 1 : b[k] = s[i + k - 1]
    <2>1. \A k \in i .. Len(s) : s[k] \in S
      BY <1>1, <1>2
    <2>2. /\ b \in Seq(S)
          /\ Len(b) = IF i <= Len(s) THEN Len(s) - i + 1 ELSE 0
          /\ \A k \in 1 .. Len(s) - i + 1 : b[k] = s[i + k - 1]
      BY <1>1, <2>1, SubSeqProperties
    <2> QED BY <1>1, <2>2
  <1> HIDE DEF a, b
  <1>5. /\ <<e>> \in Seq(S) /\ Len(<<e>>) = 1 /\ <<e>>[1] = e
    OBVIOUS
  <1>6. /\ a \o <<e>> \in Seq(S) /\ Len(a \o <<e>>) = i
        /\ \A k \in 1 .. i : (a \o <<e>>)[k] = IF k < i THEN s[k] ELSE e
    BY <1>1, <1>3, <1>5, ConcatProperties
  <1> DEFINE c == a \o <<e>>
  <1>7. c \in Seq(S) /\ Len(c) = i /\ \A k \in 1 .. i : c[k] = IF k < i THEN s[k] ELSE e
    BY <1>6
  <1> HIDE DEF c
  <1>8. /\ c \o b \in Seq(S) /\ Len(c \o b) = Len(s) + 1
        /\ \A k \in 1 .. Len(s) + 1 : (c \o b)[k] = IF k <= i THEN c[k] ELSE b[k - i]
    BY <1>1, <1>4, <1>7, ConcatProperties
  <1>9. ASSUME NEW k \in 1 .. Len(s) + 1
        PROVE  (c \o b)[k] = IF k < i THEN s[k] ELSE IF k = i THEN e ELSE s[k - 1]
    BY <1>1, <1>4, <1>7, <1>8
  <1>10. InsertAt(s, i, e) = c \o b
    BY DEF InsertAt, a, b, c
  <1> QED BY <1>8, <1>9, <1>10

\* A queue that holds one item: the item is its head, and it leaves nothing.
LEMMA TakeOnly ==
  ASSUME NEW S, NEW s \in Seq(S), Len(s) = 1
  PROVE  s # << >> /\ Head(s) = s[1] /\ Tail(s) = << >>
  <1>1. s # << >>
    BY EmptySeq
  <1>2. Tail(s) \in Seq(S) /\ Len(Tail(s)) = 0
    BY <1>1, HeadTailProperties
  <1>3. Tail(s) = << >>
    BY <1>2, EmptySeq
  <1>4. Head(s) = s[1]
    OBVIOUS
  <1> QED BY <1>1, <1>3, <1>4
\* A function over 1 .. n with values in a set is a list.
LEMMA FunctionIsList ==
  ASSUME NEW S, NEW n \in Nat, NEW f \in [1 .. n -> S]
  PROVE  f \in Seq(S) /\ Len(f) = n
  OBVIOUS

\* Writing a packet behind what a file holds: one list after the other.
LEMMA JoinLists ==
  ASSUME NEW S, NEW s \in Seq(S), NEW c \in Seq(S)
  PROVE  /\ s \o c \in Seq(S)
         /\ Len(s \o c) = Len(s) + Len(c)
         /\ \A k \in 1 .. Len(s) : (s \o c)[k] = s[k]
         /\ \A k \in 1 .. Len(c) : (s \o c)[Len(s) + k] = c[k]
         /\ Range(s \o c) = Range(s) \cup Range(c)
         /\ IsInjective(s) /\ IsInjective(c) /\ Range(s) \cap Range(c) = {}
              => IsInjective(s \o c)
  <1>1. Len(s) \in Nat /\ Len(c) \in Nat
    BY LenProperties
  <1>2. /\ s \o c \in Seq(S) /\ Len(s \o c) = Len(s) + Len(c)
        /\ \A k \in 1 .. Len(s) + Len(c) :
             (s \o c)[k] = IF k <= Len(s) THEN s[k] ELSE c[k - Len(s)]
    BY ConcatProperties
  <1> DEFINE j == s \o c
  <1> HIDE DEF j
  <1>3. \A k \in 1 .. Len(s) : j[k] = s[k]
    BY <1>1, <1>2 DEF j
  <1>4. \A k \in 1 .. Len(c) : j[Len(s) + k] = c[k]
    <2> TAKE k \in 1 .. Len(c)
    <2>1. /\ Len(s) + k \in 1 .. Len(s) + Len(c) /\ ~(Len(s) + k <= Len(s))
          /\ Len(s) + k - Len(s) = k
      BY <1>1
    <2> QED BY <1>2, <2>1 DEF j
  <1>5. /\ DOMAIN j = 1 .. Len(s) + Len(c)
        /\ DOMAIN s = 1 .. Len(s) /\ DOMAIN c = 1 .. Len(c)
    BY <1>2, LenProperties DEF j
  <1>6. \A k \in DOMAIN j : \/ k \in DOMAIN s /\ j[k] = s[k]
                            \/ \E m \in DOMAIN c : k = Len(s) + m /\ j[k] = c[m]
    <2> TAKE k \in DOMAIN j
    <2>1. CASE k <= Len(s)
      BY <1>1, <1>3, <1>5, <2>1
    <2>2. CASE k > Len(s)
      <3>1. k - Len(s) \in 1 .. Len(c) /\ k = Len(s) + (k - Len(s))
        BY <1>1, <1>5, <2>2
      <3> QED BY <1>4, <1>5, <3>1
    <2>3. k \in Nat
      BY <1>1, <1>5
    <2> QED BY <1>1, <2>1, <2>2, <2>3
  <1>7. /\ \A k \in DOMAIN s : k \in DOMAIN j
        /\ \A m \in DOMAIN c : Len(s) + m \in DOMAIN j
    BY <1>1, <1>5
  <1>8. Range(j) = Range(s) \cup Range(c)
    BY <1>3, <1>4, <1>5, <1>6, <1>7 DEF Range
  <1>9. ASSUME IsInjective(s), IsInjective(c), Range(s) \cap Range(c) = {},
               NEW k \in DOMAIN j, NEW m \in DOMAIN j, j[k] = j[m]
        PROVE  k = m
    <2>1. \A a \in DOMAIN s, b \in DOMAIN c : s[a] # c[b]
      BY <1>9 DEF Range
    <2> QED BY <1>6, <1>9, <2>1 DEF IsInjective
  <1>10. IsInjective(s) /\ IsInjective(c) /\ Range(s) \cap Range(c) = {} => IsInjective(j)
    BY <1>9 DEF IsInjective
  <1> QED BY <1>2, <1>3, <1>4, <1>8, <1>10 DEF j

\* A search through a list from its beginning: the first index.
LEMMA SmallestIndex ==
  ASSUME NEW T \in SUBSET Nat, T # {}
  PROVE  \E i \in T : \A k \in T : i <= k
  <1> DEFINE U == {0 .. k : k \in T}
             R == StrictSubsetOrdering(Nat)
  <1>1. \A k \in T : 0 .. k \in FiniteSubsetsOf(Nat)
    BY FS_Interval DEF FiniteSubsetsOf
  <1>2. U \subseteq FiniteSubsetsOf(Nat) /\ U # {}
    BY <1>1
  <1>3. IsWellFoundedOn(R, FiniteSubsetsOf(Nat))
    BY FS_StrictSubsetOrderingWellFounded
  <1>4. PICK x \in U : \A y \in U : ~(<<y, x>> \in R)
    <2> HIDE DEF U, R
    <2> QED BY <1>2, <1>3, WFMin
  <1>5. PICK i \in T : x = 0 .. i
    BY <1>4
  <1>6. \A k \in T : ~(<<0 .. k, 0 .. i>> \in R)
    BY <1>4, <1>5
  <1>7. ASSUME NEW k \in T, k < i PROVE FALSE
    <2>1. /\ 0 .. k \subseteq 0 .. i /\ 0 .. k # 0 .. i
          /\ 0 .. k \in SUBSET Nat /\ 0 .. i \in SUBSET Nat
      BY <1>7
    <2>2. <<0 .. k, 0 .. i>> \in R
      BY <2>1 DEF StrictSubsetOrdering
    <2> QED BY <1>6, <2>2
  <1> QED BY <1>7

\* A search from its end: the last index.
LEMMA LargestIndex ==
  ASSUME NEW T \in SUBSET Nat, T # {}, NEW n \in Nat, \A k \in T : k <= n
  PROVE  \E i \in T : \A k \in T : k <= i
  <1> DEFINE U == {n - k : k \in T}
  <1>1. U \in SUBSET Nat /\ U # {}
    <2>1. \A k \in T : n - k \in Nat
      OBVIOUS
    <2>2. PICK k : k \in T
      OBVIOUS
    <2>3. n - k \in U
      BY <2>2
    <2> QED BY <2>1, <2>3
  <1>2. PICK j \in U : \A k \in U : j <= k
    <2> HIDE DEF U
    <2> QED BY <1>1, SmallestIndex
  <1>3. PICK i \in T : j = n - i
    BY <1>2
  <1>4. \A k \in T : n - i <= n - k
    BY <1>2, <1>3
  <1> QED BY <1>3, <1>4

\* Reading from a stream: the first n items are gone.
LEMMA DropItems ==
  ASSUME NEW S, NEW s \in Seq(S), NEW n \in 0 .. Len(s)
  PROVE  /\ SubSeq(s, n + 1, Len(s)) \in Seq(S)
         /\ Len(SubSeq(s, n + 1, Len(s))) = Len(s) - n
         /\ \A k \in 1 .. Len(s) - n : SubSeq(s, n + 1, Len(s))[k] = s[n + k]
  <1>1. Len(s) \in Nat /\ n + 1 \in 1 .. Len(s) + 1 /\ Len(s) \in n .. Len(s)
    BY LenProperties
  <1>2. (n + 1) - 1 = n /\ n \in Nat
    OBVIOUS
  <1> DEFINE t == SubSeq(s, n + 1, Len(s))
  <1>3. /\ t \in Seq(S)
        /\ Len(t) = IF n + 1 <= Len(s) THEN Len(s) - (n + 1) + 1 ELSE 0
        /\ \A k \in 1 .. Len(s) - (n + 1) + 1 : t[k] = s[(n + 1) + k - 1]
    BY <1>1, <1>2, SubSeqProperties
  <1> HIDE DEF t
  <1>4. Len(t) = Len(s) - n /\ \A k \in 1 .. Len(s) - n : t[k] = s[n + k]
    BY <1>1, <1>3
  <1> QED BY <1>3, <1>4 DEF t

\* Reading one item.
LEMMA DropFirst ==
  ASSUME NEW S, NEW s \in Seq(S), s # << >>
  PROVE  /\ Tail(s) \in Seq(S) /\ Len(s) \in Nat \ {0}
         /\ Head(s) = s[1] /\ Head(s) \in S
         /\ Len(Tail(s)) = Len(s) - 1
         /\ \A k \in 1 .. Len(s) - 1 : Tail(s)[k] = s[k + 1]
  BY EmptySeq, LenProperties, HeadTailProperties
=============================================================================
