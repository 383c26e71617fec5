------------------------ MODULE HistoryWindowProofs ------------------------
(***************************************************************************)
(* Proofs about HistoryWindow and its driver in batch mode, WindowAgg, for *)
(* every value of their constants.                                         *)
(***************************************************************************)
EXTENDS WindowAgg, WellFoundedInduction, TLAPS

----------------------------------------------------------------------------
(* What the operators on sequences return *)

LEMMA LenProperties ==
    ASSUME NEW S, NEW s \in Seq(S)
    PROVE  /\ Len(s) \in Nat
           /\ s \in [1..Len(s) -> S]
           /\ DOMAIN s = 1..Len(s)
    OBVIOUS

LEMMA ElementOfSeq ==
    ASSUME NEW S, NEW s \in Seq(S), NEW n \in 1..Len(s)
    PROVE  s[n] \in S
    OBVIOUS

LEMMA EmptySeq ==
    ASSUME NEW S
    PROVE  /\ << >> \in Seq(S) /\ Len(<< >>) = 0
           /\ \A s \in Seq(S) : s # << >> => Len(s) \in Nat \ {0}
    OBVIOUS

LEMMA SeqDef == \A S : Seq(S) = UNION {[1..n -> S] : n \in Nat}
    OBVIOUS

LEMMA AppendProperties ==
    ASSUME NEW S, NEW s \in Seq(S), NEW e \in S
    PROVE  /\ Append(s, e) \in Seq(S)
           /\ Len(Append(s, e)) = Len(s) + 1
           /\ \A i \in 1..Len(s) : Append(s, e)[i] = s[i]
           /\ Append(s, e)[Len(s) + 1] = e
    OBVIOUS

LEMMA ConcatEmptySeq ==
    ASSUME NEW S, NEW s \in Seq(S)
    PROVE  s \o << >> = s /\ << >> \o s = s
    OBVIOUS

LEMMA ConcatProperties ==
    ASSUME NEW S, NEW s \in Seq(S), NEW t \in Seq(S)
    PROVE  /\ s \o t \in Seq(S)
           /\ Len(s \o t) = Len(s) + Len(t)
           /\ \A i \in 1..(Len(s) + Len(t)) : (s \o t)[i] = IF i <= Len(s) THEN s[i] ELSE t[i - Len(s)]
    OBVIOUS

LEMMA HeadTailProperties ==
    ASSUME NEW S, NEW s \in Seq(S), s # << >>
    PROVE  /\ Head(s) \in S /\ Tail(s) \in Seq(S)
           /\ Len(Tail(s)) = Len(s) - 1
           /\ \A i \in 1..Len(Tail(s)) : Tail(s)[i] = s[i + 1]
    OBVIOUS

LEMMA SubSeqProperties ==
    ASSUME NEW S, NEW s, NEW m \in Int, NEW n \in Int, \A i \in m..n : s[i] \in S
    PROVE  /\ SubSeq(s, m, n) \in Seq(S)
           /\ Len(SubSeq(s, m, n)) = IF m <= n THEN n - m + 1 ELSE 0
           /\ \A i \in 1..(n - m + 1) : SubSeq(s, m, n)[i] = s[m + i - 1]
    OBVIOUS

----------------------------------------------------------------------------

(* A nonempty set of numbers up to n has a greatest element. *)
LEMMA MaxExists ==
    ASSUME NEW n \in Nat, NEW S \in SUBSET (0..n), S # {}
    PROVE  \E x \in S : \A y \in S : y <= x
<1> DEFINE T == {n - x : x \in S}
<1>1. T \subseteq Nat /\ T # {}
  <2>1. \A x \in S : n - x \in Nat
    OBVIOUS
  <2>2. PICK x \in S : TRUE
    BY Zenon
  <2>3. n - x \in T
    BY <2>2
  <2> QED
    BY <2>1, <2>3
<1>2. PICK t \in T : \A y \in T : ~(<<y, t>> \in OpToRel(<, Nat))
  BY <1>1, WFMin, NatLessThanWellFounded, Zenon
<1>3. PICK x \in S : t = n - x
  OBVIOUS
<1>4. ASSUME NEW y \in S PROVE y <= x
  <2>1. n - y \in T /\ n - y \in Nat /\ t \in Nat
    OBVIOUS
  <2>2. ~(n - y < t)
    BY <1>2, <2>1, Zenon DEF OpToRel
  <2> QED
    BY <1>3, <2>1, <2>2
<1> QED
  BY <1>4

----------------------------------------------------------------------------
(* RunWindowAggOnKey merges the union tables into the instance rows. *)

AscendingKeys(s) ==
    /\ Len(s) \in 0..MaxSegment
    /\ \A m \in 1..Len(s) : s[m] \in Keys /\ s[m] \in 0..(2 * Half - 1)
    /\ \A m, n \in 1..Len(s) : m <= n => s[m] <= s[n]

LEMMA AscendingFacts ==
    ASSUME NEW s \in Ascending
    PROVE  AscendingKeys(s)
<1>1. PICK size \in 0..MaxSegment : s \in [1..size -> Keys]
  BY Zenon DEF Ascending
<1>2. \A m, n \in DOMAIN s : m < n => s[m] <= s[n]
  BY Zenon DEF Ascending
<1>3. size \in Nat
  BY ONLY <1>1, WindowAggAssumption
<1>4. Len(s) = size /\ DOMAIN s = 1..size
  <2>1. s \in Seq(Keys)
    BY ONLY <1>1, <1>3, SeqDef, Zenon
  <2> QED
    BY ONLY <1>1, <1>3, <2>1, LenProperties
<1>5. ASSUME NEW m \in 1..size PROVE s[m] \in Keys /\ s[m] \in 0..(2 * Half - 1)
  <2>1. s[m] \in Keys
    BY ONLY <1>1, <1>5, Zenon
  <2> QED
    BY ONLY <2>1, KeysAssumption, Zenon
<1>6. ASSUME NEW m \in 1..size, NEW n \in 1..size, m <= n PROVE s[m] <= s[n]
  <2>1. CASE m = n
    <3>1. s[n] \in Int
      BY ONLY <1>5, <1>6, HalfAssumption
    <3> QED
      BY ONLY <2>1, <3>1
  <2>2. CASE m < n
    BY ONLY <1>2, <1>4, <1>6, <2>2
  <2>3. m = n \/ m < n
    BY ONLY <1>3, <1>6
  <2> QED
    BY ONLY <2>1, <2>2, <2>3
<1> QED
  BY ONLY <1>1, <1>4, <1>5, <1>6 DEF AscendingKeys

SegmentsOK ==
    /\ AscendingKeys(instance_segment)
    /\ \A i \in 1..Unions : AscendingKeys(union_segments[i])
    /\ instance_segment_iter \in Nat \ {0}
    /\ union_segment_iters \in [1..Unions -> Nat \ {0}]
    /\ origin \in Seq(Int \X Int)

\* The rows still to be fed have no smaller key.
NoneOlder(key, iter, iters) ==
    /\ \A m \in 1..Len(instance_segment) : m >= iter => instance_segment[m] >= key
    /\ \A i \in 1..Unions : \A m \in 1..Len(union_segments[i]) :
          m >= iters[i] => union_segments[i][m] >= key

\* The union rows that were fed are older than the instance rows to come.
FedOlder(iter, iters) ==
    \A i \in 1..Unions : \A m \in 1..Len(union_segments[i]) :
        m < iters[i] => \A k \in 1..Len(instance_segment) :
                           k >= iter => union_segments[i][m] < instance_segment[k]

FedUnionRows(n) == {p \in FedBefore(n) : p[1] # 0}

PassedRows(iters) ==
    {p \in (1..Unions) \X (1..MaxSegment) : /\ p[2] <= Len(union_segments[p[1]])
                                            /\ p[2] < iters[p[1]]}

MergeInv ==
    /\ SegmentsOK
    /\ NoneOlder(last_key, instance_segment_iter, union_segment_iters)
    /\ FedOlder(instance_segment_iter, union_segment_iters)
    /\ FedUnionRows(Len(origin) + 1) = PassedRows(union_segment_iters)
    /\ UnionRowsBeforeInstance

(* PickIteratorWithMininumKey finds a union row with the smallest key. *)
LEMMA PickFacts ==
    ASSUME SegmentsOK, ValidUnions # {}
    PROVE  /\ PickIteratorWithMininumKey \in ValidUnions
           /\ \A j \in ValidUnions : UnionKey(PickIteratorWithMininumKey) <= UnionKey(j)
<1>1. ASSUME NEW i \in ValidUnions PROVE i \in 1..Unions /\ UnionKey(i) \in 0..(2 * Half - 1)
  <2>1. i \in 1..Unions /\ union_segment_iters[i] <= Len(union_segments[i])
    BY DEF ValidUnions
  <2>2. union_segment_iters[i] \in Nat \ {0} /\ AscendingKeys(union_segments[i])
    BY <2>1, Zenon DEF SegmentsOK
  <2>3. Len(union_segments[i]) \in Nat
    BY ONLY <2>2, WindowAggAssumption DEF AscendingKeys
  <2>4. union_segment_iters[i] \in 1..Len(union_segments[i])
    BY ONLY <2>1, <2>2, <2>3
  <2> QED
    BY ONLY <2>1, <2>2, <2>4 DEF AscendingKeys, UnionKey
<1>2. PICK top : top = 2 * Half - 1
  BY Zenon
<1>3. top \in Nat
  BY ONLY <1>2, HalfAssumption
<1>4. PICK S : S = {top - UnionKey(i) : i \in ValidUnions}
  BY Zenon
<1>5. S \in SUBSET (0..top) /\ S # {}
  <2>1. ASSUME NEW i \in ValidUnions PROVE top - UnionKey(i) \in 0..top
    <3>1. UnionKey(i) \in 0..top
      BY ONLY <1>1, <1>2, <2>1
    <3> QED
      BY ONLY <1>3, <3>1
  <2> QED
    BY ONLY <1>4, <2>1, ValidUnions # {}, Zenon
<1>6. PICK x \in S : \A y \in S : y <= x
  BY ONLY <1>3, <1>5, MaxExists, Zenon
<1>7. PICK i0 \in ValidUnions : x = top - UnionKey(i0)
  BY ONLY <1>4, <1>6, Zenon
<1>8. ASSUME NEW j \in ValidUnions PROVE UnionKey(i0) <= UnionKey(j)
  <2>1. top - UnionKey(j) <= top - UnionKey(i0)
    BY ONLY <1>4, <1>6, <1>7, <1>8, Zenon
  <2>2. UnionKey(i0) \in Int /\ UnionKey(j) \in Int
    BY ONLY <1>1, <1>7, <1>8, HalfAssumption
  <2> QED
    BY ONLY <1>3, <2>1, <2>2
<1>9. PICK T : T = {Unions - i : i \in {j \in ValidUnions : UnionKey(j) = UnionKey(i0)}}
  BY Zenon
<1>10. T \in SUBSET (0..Unions) /\ T # {}
  <2>1. ASSUME NEW i \in ValidUnions PROVE Unions - i \in 0..Unions
    <3>1. i \in 1..Unions
      BY ONLY <1>1, <2>1
    <3> QED
      BY ONLY <3>1, WindowAggAssumption
  <2>2. Unions - i0 \in T
    BY ONLY <1>7, <1>9, Zenon
  <2>3. ASSUME NEW y \in T PROVE y \in 0..Unions
    BY ONLY <1>9, <2>1, <2>3, Zenon
  <2> QED
    BY ONLY <2>2, <2>3, Zenon
<1>11. PICK y \in T : \A z \in T : z <= y
  BY ONLY <1>10, WindowAggAssumption, MaxExists, Zenon
<1>12. PICK i1 \in ValidUnions : y = Unions - i1 /\ UnionKey(i1) = UnionKey(i0)
  BY ONLY <1>9, <1>11, Zenon
<1>13. ASSUME NEW j \in ValidUnions
       PROVE  \/ UnionKey(i1) < UnionKey(j)
              \/ UnionKey(i1) = UnionKey(j) /\ i1 <= j
  <2>1. CASE UnionKey(j) = UnionKey(i0)
    <3>1. Unions - j \in T
      BY ONLY <1>9, <1>13, <2>1, Zenon
    <3>2. Unions - j <= Unions - i1
      BY ONLY <1>11, <1>12, <3>1, Zenon
    <3>3. j \in Int /\ i1 \in Int /\ Unions \in Int
      BY ONLY <1>1, <1>12, <1>13, WindowAggAssumption
    <3>4. i1 <= j
      BY ONLY <3>2, <3>3
    <3> QED
      BY ONLY <1>12, <2>1, <3>4, Zenon
  <2>2. CASE UnionKey(j) # UnionKey(i0)
    <3>1. UnionKey(i0) <= UnionKey(j) /\ UnionKey(i0) \in Int /\ UnionKey(j) \in Int
      BY ONLY <1>1, <1>7, <1>8, <1>13, HalfAssumption
    <3>2. UnionKey(i0) < UnionKey(j)
      BY ONLY <2>2, <3>1
    <3> QED
      BY ONLY <1>12, <3>2, Zenon
  <2> QED
    BY ONLY <2>1, <2>2
<1>14. PICK i : i = PickIteratorWithMininumKey
  BY Zenon
<1>15. /\ i \in ValidUnions
       /\ \A j \in ValidUnions : \/ UnionKey(i) < UnionKey(j)
                                 \/ UnionKey(i) = UnionKey(j) /\ i <= j
  BY ONLY <1>12, <1>13, <1>14, Zenon DEF PickIteratorWithMininumKey
<1>16. ASSUME NEW j \in ValidUnions PROVE UnionKey(i) <= UnionKey(j)
  <2>1. UnionKey(i) \in Int /\ UnionKey(j) \in Int
    BY ONLY <1>1, <1>15, <1>16, HalfAssumption
  <2> QED
    BY ONLY <1>15, <1>16, <2>1
<1> QED
  BY ONLY <1>14, <1>15, <1>16, Zenon

(* A key that no pickable union row is below is not above any union row    *)
(* still to come: a row that is never picked has the greatest key of all.  *)
LEMMA UnionsNotOlder ==
    ASSUME SegmentsOK, NEW key \in 0..(2 * Half - 1), \A j \in ValidUnions : UnionKey(j) >= key,
           NEW i \in 1..Unions, NEW m \in 1..Len(union_segments[i]), m >= union_segment_iters[i]
    PROVE  union_segments[i][m] >= key
<1>1. PICK s, k : s = union_segments[i] /\ k = union_segment_iters[i]
  BY Zenon
<1>2. AscendingKeys(s) /\ k \in Nat \ {0}
  BY <1>1 DEF SegmentsOK
<1>3. Len(s) \in Nat /\ m \in 1..Len(s) /\ m >= k
  BY ONLY <1>1, <1>2, m \in 1..Len(union_segments[i]), m >= union_segment_iters[i],
          WindowAggAssumption DEF AscendingKeys
<1>4. k \in 1..Len(s) /\ k <= m
  BY ONLY <1>2, <1>3
<1>5. s[k] <= s[m] /\ s[k] \in 0..(2 * Half - 1) /\ s[m] \in 0..(2 * Half - 1)
  BY ONLY <1>2, <1>3, <1>4 DEF AscendingKeys
<1>6. CASE s[k] < 2 * Half - 1
  <2>1. k <= Len(s)
    BY ONLY <1>3, <1>4
  <2>2. i \in ValidUnions
    BY ONLY <1>1, <1>6, <2>1, i \in 1..Unions, Zenon DEF ValidUnions
  <2>3. s[k] >= key
    BY ONLY <1>1, <2>2, \A j \in ValidUnions : UnionKey(j) >= key, Zenon DEF UnionKey
  <2> QED
    BY ONLY <1>1, <1>5, <2>3, key \in 0..(2 * Half - 1), HalfAssumption
<1>7. CASE ~(s[k] < 2 * Half - 1)
  BY ONLY <1>1, <1>5, <1>7, key \in 0..(2 * Half - 1), HalfAssumption
<1> QED
  BY ONLY <1>6, <1>7

(* What every turn of the loops does with the row it feeds. *)
Fed(key, p, iter, iters) ==
    /\ last_key' = key
    /\ in_order' = (in_order /\ key >= last_key)
    /\ origin' = Append(origin, p)
    /\ instance_segment_iter' = iter
    /\ union_segment_iters' = iters
    /\ UNCHANGED segments

LEMMA FedInv ==
    ASSUME MergeInv, NEW key, NEW p \in Int \X Int, NEW iter \in Nat \ {0},
           NEW iters \in [1..Unions -> Nat \ {0}], Fed(key, p, iter, iters),
           key >= last_key, NoneOlder(key, iter, iters), FedOlder(iter, iters),
           p[1] # 0 => FedUnionRows(Len(origin) + 1) \cup {p} = PassedRows(iters),
           p[1] = 0 => FedUnionRows(Len(origin) + 1) = PassedRows(iters),
           p[1] = 0 => FedUnionRows(Len(origin) + 1) = OlderUnionRows(instance_segment[p[2]])
    PROVE  MergeInv'
<1>1. /\ instance_segment' = instance_segment /\ union_segments' = union_segments
      /\ last_key' = key /\ instance_segment_iter' = iter /\ union_segment_iters' = iters
      /\ origin' = Append(origin, p)
  BY Zenon DEF Fed, segments
<1>2. in_order'
  <2>1. in_order /\ key >= last_key
    BY DEF MergeInv, UnionRowsBeforeInstance
  <2>2. in_order' = (in_order /\ key >= last_key)
    BY Zenon DEF Fed
  <2> QED
    BY ONLY <2>1, <2>2, Zenon
<1>3. PICK len : len = Len(origin)
  BY Zenon
<1>4. origin \in Seq(Int \X Int)
  BY Zenon DEF MergeInv, SegmentsOK
<1>5. /\ origin' \in Seq(Int \X Int) /\ Len(origin') = len + 1 /\ len \in Nat
      /\ \A n \in 1..len : origin'[n] = origin[n]
      /\ origin'[len + 1] = p
  BY ONLY <1>1, <1>3, <1>4, p \in Int \X Int, AppendProperties, LenProperties
<1>6. DOMAIN origin = 1..len /\ DOMAIN origin' = 1..(len + 1)
  BY ONLY <1>3, <1>4, <1>5, LenProperties
<1>7. SegmentsOK'
  <2>1. AscendingKeys(instance_segment)' /\ \A i \in 1..Unions : AscendingKeys(union_segments[i])'
    BY <1>1, Zenon DEF MergeInv, SegmentsOK, AscendingKeys
  <2> QED
    BY <1>1, <1>5, <2>1, Zenon DEF SegmentsOK
<1>8. NoneOlder(last_key, instance_segment_iter, union_segment_iters)'
  BY ONLY <1>1, NoneOlder(key, iter, iters), Zenon DEF NoneOlder
<1>9. FedOlder(instance_segment_iter, union_segment_iters)'
  BY ONLY <1>1, FedOlder(iter, iters), Zenon DEF FedOlder
<1>10. ASSUME NEW n \in 1..(len + 1) PROVE FedUnionRows(n)' = FedUnionRows(n)
  <2>1. \A m \in 1..(n - 1) : m \in 1..len
    BY ONLY <1>5, <1>10
  <2>2. \A m \in 1..(n - 1) : origin'[m] = origin[m]
    BY ONLY <1>5, <2>1, Zenon
  <2>3. FedBefore(n)' = FedBefore(n)
    BY ONLY <2>2, Zenon DEF FedBefore
  <2> QED
    BY ONLY <2>3, Zenon DEF FedUnionRows
<1>11. FedUnionRows(Len(origin) + 1)' = PassedRows(union_segment_iters)'
  <2>1. FedBefore(Len(origin) + 1)' = FedBefore(len + 1) \cup {p}
    <3>0. PICK before, after : before = 1..len /\ after = 1..(len + 1)
      BY Zenon
    <3>1. 1..((Len(origin') + 1) - 1) = after /\ 1..((len + 1) - 1) = before
      BY ONLY <1>5, <3>0
    <3>2. FedBefore(Len(origin) + 1)' = {origin'[m] : m \in after}
      BY ONLY <3>1 DEF FedBefore
    <3>3. FedBefore(len + 1) = {origin[m] : m \in before}
      BY ONLY <3>1, Zenon DEF FedBefore
    <3>6. after = before \cup {len + 1} /\ len + 1 \in after
      BY ONLY <1>5, <3>0
    <3>7. /\ \A m \in before : origin'[m] = origin[m] /\ m \in after
          /\ origin'[len + 1] = p
      BY ONLY <1>5, <3>0, <3>6, Zenon
    <3>4. PICK A, B : A = FedBefore(Len(origin) + 1)' /\ B = FedBefore(len + 1)
      BY Zenon
    <3>5. PICK new, old : new = origin' /\ old = origin
      BY Zenon
    <3>8. A = {new[m] : m \in after} /\ B = {old[m] : m \in before}
      BY ONLY <3>2, <3>3, <3>4, <3>5, Zenon
    <3>9. (\A m \in before : new[m] = old[m] /\ m \in after) /\ new[len + 1] = p
      BY ONLY <3>5, <3>7, Zenon
    <3>10. A = B \cup {p}
      BY ONLY <3>6, <3>8, <3>9
    <3> QED
      BY ONLY <3>4, <3>10, Zenon
  <2>2. CASE p[1] # 0
    <3>1. FedUnionRows(Len(origin) + 1)' = FedUnionRows(len + 1) \cup {p}
      BY ONLY <2>1, <2>2, Zenon DEF FedUnionRows
    <3> QED
      BY ONLY <1>1, <1>3, <2>2, <3>1, Zenon,
         p[1] # 0 => FedUnionRows(Len(origin) + 1) \cup {p} = PassedRows(iters) DEF PassedRows
  <2>3. CASE p[1] = 0
    <3>1. FedUnionRows(Len(origin) + 1)' = FedUnionRows(len + 1)
      BY ONLY <2>1, <2>3, Zenon DEF FedUnionRows
    <3> QED
      BY ONLY <1>1, <1>3, <2>3, <3>1, Zenon,
         p[1] = 0 => FedUnionRows(Len(origin) + 1) = PassedRows(iters) DEF PassedRows
  <2> QED
    BY ONLY <2>2, <2>3
<1>13. ASSUME NEW n \in 1..(len + 1), origin'[n][1] = 0
       PROVE  FedUnionRows(n)' = OlderUnionRows(instance_segment[origin'[n][2]])
  <2>1. CASE n = len + 1
    BY ONLY <1>3, <1>5, <1>10, <1>13, <2>1, Zenon,
       p[1] = 0 => FedUnionRows(Len(origin) + 1) = OlderUnionRows(instance_segment[p[2]])
  <2>2. CASE n # len + 1
    <3>1. n \in 1..len
      BY ONLY <1>5, <1>13, <2>2
    <3>2. origin'[n] = origin[n]
      BY ONLY <1>5, <3>1, Zenon
    <3>3. FedUnionRows(n) = OlderUnionRows(instance_segment[origin[n][2]])
      BY <1>6, <1>13, <3>1, <3>2, Zenon DEF MergeInv, UnionRowsBeforeInstance, FedUnionRows
    <3> QED
      BY ONLY <1>10, <1>13, <3>2, <3>3, Zenon
  <2> QED
    BY ONLY <2>1, <2>2
<1>14. UnionRowsBeforeInstance'
  <2>1. ASSUME NEW n \in DOMAIN origin', origin'[n][1] = 0
        PROVE  (FedUnionRows(n) = OlderUnionRows(instance_segment[origin[n][2]]))'
    <3>1. FedUnionRows(n)' = OlderUnionRows(instance_segment[origin'[n][2]])
      BY ONLY <1>6, <1>13, <2>1, Zenon
    <3> QED
      BY ONLY <1>1, <3>1, Zenon DEF OlderUnionRows
  <2> QED
    BY ONLY <1>2, <2>1, Zenon DEF UnionRowsBeforeInstance, FedUnionRows
<1> QED
  BY ONLY <1>7, <1>8, <1>9, <1>11, <1>14, Zenon DEF MergeInv

\* The next instance row
HasInstance ==
    /\ instance_segment_iter \in 1..Len(instance_segment)
    /\ InstanceKey \in Keys /\ InstanceKey \in 0..(2 * Half - 1)
    /\ \A k \in 1..Len(instance_segment) :
          k >= instance_segment_iter => instance_segment[k] >= InstanceKey
    /\ \A k \in 1..Len(instance_segment) : instance_segment[k] \in Int

LEMMA InstanceFacts ==
    ASSUME SegmentsOK, InstanceLeft
    PROVE  HasInstance
<1>1. PICK s, k : s = instance_segment /\ k = instance_segment_iter
  BY Zenon
<1>2. AscendingKeys(s) /\ k \in Nat \ {0} /\ k <= Len(s)
  BY <1>1, Zenon DEF SegmentsOK, InstanceLeft
<1>3. Len(s) \in Nat /\ k \in 1..Len(s)
  BY ONLY <1>2, WindowAggAssumption DEF AscendingKeys
<1>4. s[k] \in Keys /\ s[k] \in 0..(2 * Half - 1)
  BY ONLY <1>2, <1>3, Zenon DEF AscendingKeys
<1>5. ASSUME NEW m \in 1..Len(s) PROVE s[m] \in Int /\ (m >= k => s[m] >= s[k])
  <2>1. s[m] \in 0..(2 * Half - 1) /\ (k <= m => s[k] <= s[m])
    BY ONLY <1>2, <1>3, <1>5, Zenon DEF AscendingKeys
  <2> QED
    BY ONLY <1>3, <1>4, <1>5, <2>1, HalfAssumption
<1> QED
  BY ONLY <1>1, <1>3, <1>4, <1>5, Zenon DEF HasInstance, InstanceKey

LEMMA UnionRowFacts ==
    ASSUME SegmentsOK, NEW i \in ValidUnions
    PROVE  /\ i \in 1..Unions /\ union_segment_iters[i] \in Nat \ {0}
           /\ union_segment_iters[i] \in 1..Len(union_segments[i])
           /\ union_segment_iters[i] \in 1..MaxSegment
           /\ UnionKey(i) \in Keys /\ UnionKey(i) \in 0..(2 * Half - 1)
<1>1. i \in 1..Unions /\ union_segment_iters[i] <= Len(union_segments[i])
  BY Zenon DEF ValidUnions
<1>2. union_segment_iters[i] \in Nat \ {0} /\ AscendingKeys(union_segments[i])
  BY <1>1, Zenon DEF SegmentsOK
<1>3. Len(union_segments[i]) \in Nat /\ Len(union_segments[i]) <= MaxSegment
  BY ONLY <1>2, WindowAggAssumption DEF AscendingKeys
<1>4. union_segment_iters[i] \in 1..Len(union_segments[i]) /\ union_segment_iters[i] \in 1..MaxSegment
  BY ONLY <1>1, <1>2, <1>3, WindowAggAssumption
<1>5. UnionKey(i) \in Keys /\ UnionKey(i) \in 0..(2 * Half - 1)
  BY ONLY <1>2, <1>4, Zenon DEF AscendingKeys, UnionKey
<1> QED
  BY ONLY <1>1, <1>2, <1>4, <1>5, Zenon

LEMMA ArrivesFeeds ==
    ASSUME NEW key, ProjectUnionRow(key) \/ ProjectRejected(key) \/ ProjectInstanceRow(key)
                    \/ ProjectUdfFails(key)
    PROVE  last_key' = key /\ in_order' = (in_order /\ key >= last_key)
<1>1. Arrives(key)
  BY Zenon DEF ProjectUnionRow, ProjectRejected, ProjectInstanceRow, ProjectUdfFails
<1> QED
  BY ONLY <1>1 DEF Arrives

LEMMA UnionTurn ==
    ASSUME MergeInv, FeedUnionRow
    PROVE  MergeInv' /\ \E key \in Keys : ProjectUnionRow(key) \/ ProjectRejected(key)
<1>1. SegmentsOK /\ InstanceLeft /\ UnionRowFirst
  BY Zenon DEF MergeInv, FeedUnionRow
<1>2. HasInstance
  BY ONLY <1>1, InstanceFacts, Zenon
<1>3. PICK i, key, k, iter, p : /\ i = PickIteratorWithMininumKey /\ key = UnionKey(i)
                                /\ k = union_segment_iters[i] /\ iter = instance_segment_iter
                                /\ p = <<i, k>>
  BY Zenon
<1>4. PICK iters : iters = Advance(union_segment_iters, i)
  BY Zenon
<1>5. /\ i \in ValidUnions /\ key < InstanceKey
      /\ \A j \in ValidUnions : UnionKey(j) >= key
  <2>1. ValidUnions # {} /\ key < InstanceKey
    BY ONLY <1>1, <1>3, Zenon DEF UnionRowFirst
  <2>2. i \in ValidUnions /\ \A j \in ValidUnions : key <= UnionKey(j)
    BY ONLY <1>1, <1>3, <2>1, PickFacts, Zenon
  <2>3. \A j \in ValidUnions : UnionKey(j) \in Int /\ key \in Int
    BY ONLY <1>1, <1>3, <2>2, UnionRowFacts, HalfAssumption
  <2> QED
    BY ONLY <2>1, <2>2, <2>3
<1>6. /\ i \in 1..Unions /\ k \in Nat \ {0} /\ k \in 1..Len(union_segments[i])
      /\ k \in 1..MaxSegment
      /\ key \in Keys /\ key \in 0..(2 * Half - 1)
  BY ONLY <1>1, <1>3, <1>5, UnionRowFacts, Zenon
<1>7. union_segments[i][k] = key
  BY ONLY <1>3, Zenon DEF UnionKey
<1>8. /\ ProjectUnionRow(key) \/ ProjectRejected(key)
      /\ origin' = Append(origin, p)
      /\ union_segment_iters' = iters
      /\ UNCHANGED segments /\ instance_segment_iter' = iter
  BY ONLY <1>3, <1>4, FeedUnionRow, Zenon DEF FeedUnionRow
<1>9. Fed(key, p, iter, iters)
  BY ONLY <1>8, ArrivesFeeds, Zenon DEF Fed
<1>10. /\ union_segment_iters \in [1..Unions -> Nat \ {0}] /\ iter \in Nat \ {0}
       /\ NoneOlder(last_key, iter, union_segment_iters)
       /\ FedOlder(iter, union_segment_iters)
       /\ FedUnionRows(Len(origin) + 1) = PassedRows(union_segment_iters)
  BY <1>3, Zenon DEF MergeInv, SegmentsOK
<1>11. PICK old : old = union_segment_iters
  BY Zenon
<1>12. iters = [old EXCEPT ![i] = old[i] + 1] /\ old[i] = k
  BY ONLY <1>3, <1>4, <1>11 DEF Advance
<1>13. iters \in [1..Unions -> Nat \ {0}]
  BY ONLY <1>6, <1>10, <1>11, <1>12
<1>14. iters[i] = k + 1 /\ \A j \in 1..Unions : j # i => iters[j] = old[j]
  BY ONLY <1>6, <1>10, <1>11, <1>12
<1>15. \A j \in 1..Unions : old[j] \in Nat
  BY ONLY <1>10, <1>11
<1>16. ASSUME NEW j \in 1..Unions, NEW m \in Int
       PROVE  /\ m >= iters[j] => m >= old[j]
              /\ m < iters[j] <=> m < old[j] \/ (j = i /\ m = k)
  BY ONLY <1>6, <1>12, <1>14, <1>15, <1>16
<1>17. key >= last_key
  BY ONLY <1>3, <1>6, <1>7, <1>10 DEF NoneOlder
<1>18. ASSUME NEW j \in 1..Unions, NEW m \in 1..Len(union_segments[j]) PROVE m \in Int
  OBVIOUS
<1>19. ASSUME NEW n \in 1..Len(instance_segment), n >= iter
       PROVE  instance_segment[n] > key
  <2>1. instance_segment[n] \in Int /\ instance_segment[n] >= InstanceKey /\ InstanceKey \in 0..(2 * Half - 1)
    BY ONLY <1>2, <1>3, <1>19, Zenon DEF HasInstance
  <2> QED
    BY ONLY <1>5, <1>6, <2>1, HalfAssumption
<1>20. NoneOlder(key, iter, iters)
  <2>1. ASSUME NEW n \in 1..Len(instance_segment), n >= iter PROVE instance_segment[n] >= key
    <3>1. instance_segment[n] > key /\ instance_segment[n] \in Int /\ key \in Int
      BY ONLY <1>2, <1>6, <1>19, <2>1, HalfAssumption DEF HasInstance
    <3> QED
      BY ONLY <3>1
  <2>2. ASSUME NEW j \in 1..Unions, NEW m \in 1..Len(union_segments[j]), m >= iters[j]
        PROVE  union_segments[j][m] >= key
    <3>1. m >= union_segment_iters[j]
      BY ONLY <1>11, <1>16, <1>18, <2>2, Zenon
    <3> QED
      BY ONLY <1>1, <1>5, <1>6, <2>2, <3>1, UnionsNotOlder, Zenon
  <2> QED
    BY ONLY <2>1, <2>2, Zenon DEF NoneOlder
<1>21. FedOlder(iter, iters)
  <2>1. ASSUME NEW j \in 1..Unions, NEW m \in 1..Len(union_segments[j]), m < iters[j],
               NEW n \in 1..Len(instance_segment), n >= iter
        PROVE  union_segments[j][m] < instance_segment[n]
    <3>1. m < old[j] \/ (j = i /\ m = k)
      BY ONLY <1>16, <1>18, <2>1, Zenon
    <3>2. CASE m < old[j]
      BY ONLY <1>10, <1>11, <2>1, <3>2, Zenon DEF FedOlder
    <3>3. CASE j = i /\ m = k
      <4>1. instance_segment[n] > key /\ instance_segment[n] \in Int /\ key \in Int
        BY ONLY <1>2, <1>6, <1>19, <2>1, HalfAssumption DEF HasInstance
      <4>2. union_segments[j][m] = key
        BY ONLY <1>7, <3>3, Zenon
      <4> QED
        BY ONLY <4>1, <4>2
    <3> QED
      BY ONLY <3>1, <3>2, <3>3
  <2> QED
    BY ONLY <2>1, Zenon DEF FedOlder
<1>22. PassedRows(iters) = PassedRows(old) \cup {p}
  <2>1. p \in (1..Unions) \X (1..MaxSegment) /\ p[1] = i /\ p[2] = k
    BY ONLY <1>3, <1>6
  <2>2. k <= Len(union_segments[i]) /\ k < iters[i]
    BY ONLY <1>6, <1>14
  <2>3. p \in PassedRows(iters)
    BY ONLY <2>1, <2>2, Zenon DEF PassedRows
  <2>4. ASSUME NEW q \in (1..Unions) \X (1..MaxSegment)
        PROVE  /\ q = <<q[1], q[2]>> /\ q[1] \in 1..Unions /\ q[2] \in Int
               /\ q[2] < iters[q[1]] <=> q[2] < old[q[1]] \/ (q[1] = i /\ q[2] = k)
    <3>1. q = <<q[1], q[2]>> /\ q[1] \in 1..Unions /\ q[2] \in Int
      BY ONLY <2>4, WindowAggAssumption
    <3> QED
      BY ONLY <1>16, <3>1, Zenon
  <2>5. ASSUME NEW q \in PassedRows(iters) PROVE q \in PassedRows(old) \cup {p}
    <3>1. /\ q \in (1..Unions) \X (1..MaxSegment) /\ q[2] <= Len(union_segments[q[1]])
          /\ q[2] < iters[q[1]]
      BY ONLY <2>5, Zenon DEF PassedRows
    <3>2. CASE q[2] < old[q[1]]
      BY ONLY <3>1, <3>2, Zenon DEF PassedRows
    <3>3. CASE q[1] = i /\ q[2] = k
      <4>1. q = p
        BY ONLY <1>3, <2>4, <3>1, <3>3
      <4> QED
        BY ONLY <4>1, Zenon
    <3> QED
      BY ONLY <2>4, <3>1, <3>2, <3>3, Zenon
  <2>6. ASSUME NEW q \in PassedRows(old) PROVE q \in PassedRows(iters)
    <3>1. /\ q \in (1..Unions) \X (1..MaxSegment) /\ q[2] <= Len(union_segments[q[1]])
          /\ q[2] < old[q[1]]
      BY ONLY <2>6, Zenon DEF PassedRows
    <3> QED
      BY ONLY <2>4, <3>1, Zenon DEF PassedRows
  <2> QED
    BY ONLY <2>3, <2>5, <2>6, Zenon
<1>23. p \in Int \X Int /\ p[1] # 0
  BY ONLY <1>3, <1>6
<1>24. FedUnionRows(Len(origin) + 1) \cup {p} = PassedRows(iters)
  BY ONLY <1>10, <1>11, <1>22, Zenon
<1>25. MergeInv'
  BY ONLY MergeInv, <1>9, <1>10, <1>13, <1>17, <1>20, <1>21, <1>23, <1>24, FedInv, Zenon
<1> QED
  BY ONLY <1>6, <1>8, <1>25, Zenon

LEMMA InstanceTurn ==
    ASSUME MergeInv, FeedInstanceRow
    PROVE  /\ MergeInv'
           /\ \E key \in Keys : ProjectInstanceRow(key) \/ ProjectUdfFails(key)
                                \/ ProjectRejected(key)
<1>1. SegmentsOK /\ InstanceLeft /\ ~UnionRowFirst
  BY Zenon DEF MergeInv, FeedInstanceRow
<1>2. HasInstance
  BY ONLY <1>1, InstanceFacts, Zenon
<1>3. PICK key, k, iter, p, iters : /\ key = InstanceKey /\ k = instance_segment_iter
                                    /\ iter = k + 1 /\ p = <<0, k>>
                                    /\ iters = union_segment_iters
  BY Zenon
<1>4. /\ ProjectInstanceRow(key) \/ ProjectUdfFails(key) \/ ProjectRejected(key)
      /\ origin' = Append(origin, p)
      /\ union_segment_iters' = iters
      /\ UNCHANGED segments /\ instance_segment_iter' = iter
  BY ONLY <1>3, FeedInstanceRow, Zenon DEF FeedInstanceRow
<1>5. Fed(key, p, iter, iters)
  BY ONLY <1>4, ArrivesFeeds, Zenon DEF Fed
<1>6. /\ iters \in [1..Unions -> Nat \ {0}] /\ k \in Nat \ {0}
      /\ NoneOlder(last_key, k, iters)
      /\ FedOlder(k, iters)
      /\ FedUnionRows(Len(origin) + 1) = PassedRows(iters)
  BY <1>3, Zenon DEF MergeInv, SegmentsOK
<1>7. /\ k \in 1..Len(instance_segment) /\ key \in Keys /\ key \in 0..(2 * Half - 1)
      /\ instance_segment[k] = key
      /\ \A n \in 1..Len(instance_segment) : n >= k => instance_segment[n] >= key
  BY ONLY <1>2, <1>3, Zenon DEF HasInstance, InstanceKey
<1>8. iter \in Nat \ {0} /\ k >= k /\ \A n \in 1..Len(instance_segment) : n >= iter => n >= k
  BY ONLY <1>3, <1>6
<1>9. key >= last_key
  BY ONLY <1>6, <1>7, <1>8, Zenon DEF NoneOlder
<1>10. ASSUME NEW j \in ValidUnions PROVE UnionKey(j) >= key
  <2>1. PICK i : i = PickIteratorWithMininumKey
    BY Zenon
  <2>2. ValidUnions # {} /\ ~(UnionKey(i) < key)
    BY ONLY <1>1, <1>3, <1>10, <2>1, Zenon DEF UnionRowFirst
  <2>3. i \in ValidUnions /\ UnionKey(i) <= UnionKey(j)
    BY ONLY <1>1, <1>10, <2>1, <2>2, PickFacts, Zenon
  <2>4. UnionKey(j) \in 0..(2 * Half - 1) /\ UnionKey(i) \in 0..(2 * Half - 1)
    BY ONLY <1>1, <1>10, <2>3, UnionRowFacts, Zenon
  <2> QED
    BY ONLY <1>7, <2>2, <2>3, <2>4, HalfAssumption
<1>11. ASSUME NEW j \in 1..Unions, NEW m \in 1..Len(union_segments[j]), m >= iters[j]
       PROVE  union_segments[j][m] >= key
  <2>1. m >= union_segment_iters[j]
    BY ONLY <1>3, <1>11, Zenon
  <2> QED
    BY ONLY <1>1, <1>7, <1>10, <1>11, <2>1, UnionsNotOlder, Zenon
<1>12. NoneOlder(key, iter, iters)
  BY ONLY <1>7, <1>8, <1>11, Zenon DEF NoneOlder
<1>13. FedOlder(iter, iters)
  BY ONLY <1>6, <1>8, Zenon DEF FedOlder
<1>14. PassedRows(iters) = OlderUnionRows(key)
  <2>1. ASSUME NEW q \in (1..Unions) \X (1..MaxSegment), q[2] <= Len(union_segments[q[1]])
        PROVE  q[2] < iters[q[1]] <=> union_segments[q[1]][q[2]] < key
    <3>1. PICK j, m, s : j = q[1] /\ m = q[2] /\ s = union_segments[q[1]]
      BY Zenon
    <3>2. j \in 1..Unions /\ m \in 1..MaxSegment /\ m <= Len(s)
      BY ONLY <2>1, <3>1
    <3>3. AscendingKeys(s)
      BY ONLY <1>1, <3>1, <3>2, Zenon DEF SegmentsOK
    <3>4. Len(s) \in Nat
      BY ONLY <3>3, WindowAggAssumption DEF AscendingKeys
    <3>5. m \in 1..Len(s)
      BY ONLY <3>2, <3>4, WindowAggAssumption
    <3>6. s[m] \in 0..(2 * Half - 1)
      BY ONLY <3>3, <3>5, Zenon DEF AscendingKeys
    <3>7. iters[j] \in Nat
      BY ONLY <1>6, <3>2
    <3>8. m < iters[j] => s[m] < key
      BY ONLY <1>6, <1>7, <1>8, <3>1, <3>2, <3>5, Zenon DEF FedOlder
    <3>9. m >= iters[j] => s[m] >= key
      BY ONLY <1>11, <3>1, <3>2, <3>5, Zenon
    <3>10. m \in Int /\ iters[j] \in Int /\ s[m] \in Int /\ key \in Int
      BY ONLY <1>7, <3>4, <3>5, <3>6, <3>7, HalfAssumption
    <3>11. m < iters[j] <=> s[m] < key
      BY ONLY <3>8, <3>9, <3>10
    <3> QED
      BY ONLY <3>1, <3>11, Zenon
  <2> QED
    BY ONLY <2>1, Zenon DEF PassedRows, OlderUnionRows
<1>15. p \in Int \X Int /\ p[1] = 0 /\ p[2] = k
  BY ONLY <1>3, <1>6
<1>16. FedUnionRows(Len(origin) + 1) = OlderUnionRows(instance_segment[p[2]])
  BY ONLY <1>6, <1>7, <1>14, <1>15, Zenon
<1>17. MergeInv'
  BY ONLY MergeInv, <1>5, <1>6, <1>8, <1>9, <1>12, <1>13, <1>15, <1>16, FedInv, Zenon
<1> QED
  BY ONLY <1>4, <1>7, <1>17, Zenon

LEMMA AggInitMerge == AggInit => MergeInv
<1> SUFFICES ASSUME AggInit PROVE MergeInv
  OBVIOUS
<1>1. /\ instance_segment \in Ascending /\ union_segments \in [1..Unions -> Ascending]
      /\ instance_segment_iter = 1 /\ union_segment_iters = [i \in 1..Unions |-> 1]
      /\ origin = << >> /\ last_key = 0 /\ in_order = TRUE
  BY Zenon DEF AggInit, InitIterators, Init
<1>2. \A i \in 1..Unions : union_segments[i] \in Ascending /\ union_segment_iters[i] = 1
  BY ONLY <1>1, Zenon
<1>3. AscendingKeys(instance_segment) /\ \A i \in 1..Unions : AscendingKeys(union_segments[i])
  BY ONLY <1>1, <1>2, AscendingFacts, Zenon
<1>4. SegmentsOK
  BY ONLY <1>1, <1>3 DEF SegmentsOK
<1>5. ASSUME NEW s, AscendingKeys(s), NEW m \in 1..Len(s) PROVE s[m] >= 0 /\ ~(m < 1)
  <2>1. s[m] \in 0..(2 * Half - 1)
    BY ONLY <1>5, Zenon DEF AscendingKeys
  <2> QED
    BY ONLY <1>5, <2>1, HalfAssumption
<1>6. NoneOlder(last_key, instance_segment_iter, union_segment_iters)
  BY ONLY <1>1, <1>3, <1>5, Zenon DEF NoneOlder
<1>7. FedOlder(instance_segment_iter, union_segment_iters)
  BY ONLY <1>2, <1>3, <1>5, Zenon DEF FedOlder
<1>8. Len(origin) = 0 /\ DOMAIN origin = {} /\ 1..((Len(origin) + 1) - 1) = {}
  BY ONLY <1>1
<1>9. FedUnionRows(Len(origin) + 1) = {}
  BY ONLY <1>8, Zenon DEF FedUnionRows, FedBefore
<1>10. ASSUME NEW q \in PassedRows(union_segment_iters) PROVE FALSE
  <2>1. q[1] \in 1..Unions /\ q[2] \in 1..MaxSegment /\ q[2] < union_segment_iters[q[1]]
    BY ONLY <1>10 DEF PassedRows
  <2>2. q[2] < 1
    BY ONLY <1>2, <2>1, Zenon
  <2> QED
    BY ONLY <2>1, <2>2, WindowAggAssumption
<1>11. UnionRowsBeforeInstance
  BY ONLY <1>1, <1>8, Zenon DEF UnionRowsBeforeInstance
<1> QED
  BY ONLY <1>4, <1>6, <1>7, <1>9, <1>10, <1>11, Zenon DEF MergeInv

LEMMA AggNextMerge ==
    ASSUME MergeInv, [AggNext]_<<vars, aggvars>>
    PROVE  MergeInv' /\ [Next]_vars
<1>1. CASE UNCHANGED <<vars, aggvars>>
  <2>1. MergeInv'
    <3>1. UNCHANGED <<in_order, last_key, origin, instance_segment, union_segments, instance_segment_iter,
                      union_segment_iters>>
      BY ONLY <1>1 DEF vars, aggvars
    <3>2. SegmentsOK'
      BY ONLY MergeInv, <3>1, Zenon DEF MergeInv, SegmentsOK, AscendingKeys
    <3>3. NoneOlder(last_key, instance_segment_iter, union_segment_iters)'
      BY ONLY MergeInv, <3>1, Zenon DEF MergeInv, NoneOlder
    <3>4. FedOlder(instance_segment_iter, union_segment_iters)'
      BY ONLY MergeInv, <3>1, Zenon DEF MergeInv, FedOlder
    <3>5. (FedUnionRows(Len(origin) + 1) = PassedRows(union_segment_iters))'
      BY ONLY MergeInv, <3>1 DEF MergeInv, FedUnionRows, FedBefore, PassedRows
    <3>6. UnionRowsBeforeInstance'
      BY ONLY MergeInv, <3>1 DEF MergeInv, UnionRowsBeforeInstance, OlderUnionRows, FedBefore
    <3> QED
      BY ONLY <3>2, <3>3, <3>4, <3>5, <3>6, Zenon DEF MergeInv
  <2> QED
    BY ONLY <1>1, <2>1
<1>2. CASE FeedUnionRow
  BY ONLY MergeInv, <1>2, UnionTurn, Zenon DEF Next
<1>3. CASE FeedInstanceRow
  BY ONLY MergeInv, <1>3, InstanceTurn, Zenon DEF Next
<1> QED
  BY ONLY <1>1, <1>2, <1>3, [AggNext]_<<vars, aggvars>>, Zenon DEF AggNext

(* RunWindowAggOnKey hands the rows of a partition to the window in the    *)
(* order of their keys, and an instance row after exactly the older rows   *)
(* of the union tables, for any number of tables of any length, whichever  *)
(* rows the window refuses or the udf fails on.                            *)
THEOREM UnionsMerged == AggSpec => []UnionRowsBeforeInstance
<1>1. MergeInv => UnionRowsBeforeInstance
  BY Zenon DEF MergeInv
<1>2. MergeInv /\ [AggNext]_<<vars, aggvars>> => MergeInv'
  BY AggNextMerge, Zenon
<1> QED
  BY AggInitMerge, <1>1, <1>2, PTL DEF AggSpec

----------------------------------------------------------------------------
(* HistoryWindow: what its buffers hold. *)

(* The back of a window: rows that are popped down to the last one that is not. *)
LEMMA KeptLenProperties ==
    ASSUME NEW rows \in Seq(Entry), NEW start_ts
    PROVE  /\ KeptLen(rows, start_ts) \in 0..Len(rows)
           /\ KeptLen(rows, start_ts) > 0 =>
                 ~PopsBack(KeptLen(rows, start_ts), rows[KeptLen(rows, start_ts)], start_ts)
           /\ \A m \in (KeptLen(rows, start_ts) + 1)..Len(rows) : PopsBack(m, rows[m], start_ts)
<1> DEFINE S == {n \in 0..Len(rows) : n > 0 => ~PopsBack(n, rows[n], start_ts)}
<1>1. Len(rows) \in Nat
  BY LenProperties
<1>2. S \in SUBSET (0..Len(rows)) /\ 0 \in S
  BY <1>1
<1>3. PICK x \in S : \A y \in S : y <= x
  BY <1>1, <1>2, MaxExists, Zenon
<1>4. \A m \in (x + 1)..Len(rows) : PopsBack(m, rows[m], start_ts)
  BY <1>1, <1>3
<1>5. \E n \in 0..Len(rows) : /\ n > 0 => ~PopsBack(n, rows[n], start_ts)
                              /\ \A m \in (n + 1)..Len(rows) : PopsBack(m, rows[m], start_ts)
  BY <1>3, <1>4
<1> HIDE DEF S
<1> QED
  BY <1>5 DEF KeptLen

(* The keys of rows are integers. *)
LEMMA EntryKeys ==
    ASSUME NEW rows \in Seq(Entry), NEW n \in 1..Len(rows)
    PROVE  rows[n] \in Entry /\ rows[n].key \in 0..(2 * Half - 1)
<1>1. rows[n] \in Entry
  BY ElementOfSeq
<1> QED
  BY <1>1, KeysAssumption, Zenon DEF Entry

LEMMA StillHistoryProperties ==
    ASSUME NEW buffer \in Seq(Entry), NEW end_ts \in Int
    PROVE  /\ StillHistory(buffer, end_ts) \in 0..Len(buffer)
           /\ StillHistory(buffer, end_ts) > 0 =>
                 buffer[StillHistory(buffer, end_ts)].key > end_ts
           /\ \A m \in (StillHistory(buffer, end_ts) + 1)..Len(buffer) :
                 buffer[m].key <= end_ts
<1> DEFINE S == {n \in 0..Len(buffer) : n > 0 => buffer[n].key > end_ts}
<1>1. Len(buffer) \in Nat
  BY LenProperties
<1>2. S \in SUBSET (0..Len(buffer)) /\ 0 \in S
  BY <1>1
<1>3. PICK x \in S : \A y \in S : y <= x
  BY <1>1, <1>2, MaxExists, Zenon
<1>4. ASSUME NEW m \in (x + 1)..Len(buffer) PROVE buffer[m].key <= end_ts
  <2>1. m \in 1..Len(buffer) /\ m \notin S
    BY <1>1, <1>3
  <2>2. buffer[m].key \in Int /\ Half \in Nat
    BY <2>1, EntryKeys, HalfAssumption
  <2> QED
    BY <2>1, <2>2
<1>5. \E n \in 0..Len(buffer) : /\ n > 0 => buffer[n].key > end_ts
                                /\ \A m \in (n + 1)..Len(buffer) : buffer[m].key <= end_ts
  BY <1>3, <1>4
<1> HIDE DEF S
<1> QED
  BY <1>5 DEF StillHistory

(* The start of a frame is not after its current row. *)
LEMMA ClampTsBelow ==
    ASSUME NEW key \in 0..(2 * Half - 1), NEW offset \in (-Half)..0
    PROVE  ClampTs(key, offset) \in 0..key
BY HalfAssumption DEF ClampTs, ToInt64

(* BufferEffectiveWindow keeps a prefix of the rows pushed before the window. *)
LEMMA SlideProperties ==
    ASSUME NEW new \in Seq(Entry), NEW rows \in Seq(Entry), NEW start_ts
    PROVE  LET slid == BufferEffectiveWindow(new, rows, start_ts) IN
           /\ slid \in Seq(Entry)
           /\ Len(slid) <= Len(new) + Len(rows)
           /\ \A n \in 1..Len(slid) : slid[n] = (new \o rows)[n]
           /\ new # << >> /\ ~PopsBack(1, new[1], start_ts) => Len(slid) >= 1
           /\ new # << >> /\ slid # << >> => ~PopsBack(Len(slid), slid[Len(slid)], start_ts)
<1> DEFINE pushed == new \o rows
           kept   == KeptLen(pushed, start_ts)
           slid   == BufferEffectiveWindow(new, rows, start_ts)
<1>1. /\ pushed \in Seq(Entry)
      /\ Len(pushed) = Len(new) + Len(rows)
      /\ Len(new) \in Nat /\ Len(rows) \in Nat
      /\ \A i \in 1..(Len(new) + Len(rows)) :
            pushed[i] = IF i <= Len(new) THEN new[i] ELSE rows[i - Len(new)]
  BY ConcatProperties, LenProperties
<1>2. /\ kept \in 0..Len(pushed)
      /\ kept > 0 => ~PopsBack(kept, pushed[kept], start_ts)
      /\ \A m \in (kept + 1)..Len(pushed) : PopsBack(m, pushed[m], start_ts)
  BY <1>1, KeptLenProperties, Zenon
<1>3. CASE new = << >>
  <2>1. slid = rows
    BY <1>3 DEF BufferEffectiveWindow
  <2>2. pushed = rows
    BY <1>3, ConcatEmptySeq
  <2> QED
    BY <1>1, <1>3, <2>1, <2>2
<1>4. CASE new # << >>
  <2>1. slid = SubSeq(pushed, 1, kept)
    BY <1>4, Zenon DEF BufferEffectiveWindow
  <2>2. \A i \in 1..kept : pushed[i] \in Entry
    BY <1>1, <1>2, ElementOfSeq
  <2> HIDE DEF pushed, kept
  <2>3. /\ slid \in Seq(Entry)
        /\ Len(slid) = kept
        /\ \A i \in 1..kept : slid[i] = pushed[i]
    BY <1>1, <1>2, <2>1, <2>2, SubSeqProperties
  <2>4. ASSUME ~PopsBack(1, new[1], start_ts) PROVE kept >= 1
    <3>1. Len(new) >= 1 /\ Len(pushed) >= 1 /\ pushed[1] = new[1]
      BY <1>1, <1>4, EmptySeq DEF pushed
    <3> QED
      BY <1>1, <1>2, <2>4, <3>1
  <2>5. slid # << >> => kept > 0
    BY <1>2, <2>3, EmptySeq
  <2> QED
    BY <1>1, <1>2, <2>3, <2>4, <2>5 DEF pushed
<1> QED
  BY <1>3, <1>4
----------------------------------------------------------------------------
(* Window t with history buffer b, in front of it c copies of the current  *)
(* row, holds the newest rows of the history h.                            *)

Aligned(t, b, c, h) ==
    /\ Len(b) + Len(t) - c <= Len(h)
    /\ \A n \in 1..Len(b) : b[n] = h[n]
    /\ \A n \in (c + 1)..Len(t) : t[n] = h[Len(b) + n - c]

(* The rows all, of which the first kept stay in the buffer and the others *)
(* go in front of t, of which a prefix is kept.                            *)
LEMMA MovedAligned ==
    ASSUME NEW t \in Seq(Entry), NEW b \in Seq(Entry), NEW h \in Seq(Entry), NEW e \in Entry,
           Aligned(t, b, 0, h),
           NEW kept \in 0..(1 + Len(b)),
           NEW moved \in Seq(Entry), Len(moved) = 1 + Len(b) - kept,
           \A i \in 1..(1 + Len(b) - kept) : moved[i] = (<<e>> \o b)[kept + i],
           NEW slid \in Seq(Entry), Len(slid) <= Len(moved) + Len(t),
           \A n \in 1..Len(slid) : slid[n] = (moved \o t)[n]
    PROVE  /\ SubSeq(<<e>> \o b, 1, kept) \in Seq(Entry)
           /\ Aligned(slid, SubSeq(<<e>> \o b, 1, kept), 0, <<e>> \o h)
<1>1. PICK all : all = <<e>> \o b
  BY Zenon
<1>2. PICK hist : hist = <<e>> \o h
  BY Zenon
<1>3. <<e>> \in Seq(Entry) /\ Len(<<e>>) = 1 /\ <<e>>[1] = e
  OBVIOUS
<1>4. Len(b) \in Nat /\ Len(t) \in Nat /\ Len(h) \in Nat /\ Len(slid) \in Nat
  BY LenProperties
<1>a. Len(b) + Len(t) <= Len(h)
  BY <1>4 DEF Aligned
<1>b. \A n \in 1..Len(b) : b[n] = h[n]
  BY DEF Aligned
<1>c. \A n \in 1..Len(t) : t[n] = h[Len(b) + n]
  <2> SUFFICES ASSUME NEW n \in 1..Len(t) PROVE t[n] = h[Len(b) + n]
    OBVIOUS
  <2>1. n \in (0 + 1)..Len(t) /\ Len(b) + n - 0 = Len(b) + n
    BY <1>4
  <2>2. t[n] = h[Len(b) + n - 0]
    BY <2>1 DEF Aligned
  <2> QED
    BY <2>1, <2>2
<1>5. /\ all \in Seq(Entry) /\ Len(all) = 1 + Len(b)
      /\ all[1] = e /\ \A i \in 2..(1 + Len(b)) : all[i] = b[i - 1]
  BY <1>1, <1>3, <1>4, ConcatProperties
<1>6. /\ hist \in Seq(Entry) /\ Len(hist) = 1 + Len(h)
      /\ hist[1] = e /\ \A i \in 2..(1 + Len(h)) : hist[i] = h[i - 1]
  BY <1>2, <1>3, <1>4, ConcatProperties
<1>7. \A i \in 1..Len(all) : all[i] \in Entry
  BY <1>5, ElementOfSeq
<1>8. /\ moved \in Seq(Entry) /\ Len(moved) = 1 + Len(b) - kept
      /\ \A i \in 1..(1 + Len(b) - kept) : moved[i] = all[kept + i]
  BY <1>1, Zenon
<1>9. PICK rest : rest = SubSeq(all, 1, kept)
  BY Zenon
<1>10. /\ rest \in Seq(Entry) /\ Len(rest) = kept
       /\ \A i \in 1..kept : rest[i] = all[i]
  BY <1>4, <1>5, <1>7, <1>9, SubSeqProperties
<1>11. \A n \in 1..(Len(moved) + Len(t)) :
          (moved \o t)[n] = IF n <= Len(moved) THEN moved[n] ELSE t[n - Len(moved)]
  BY <1>8, ConcatProperties
<1>12. \A n \in 1..(1 + Len(b)) : all[n] = hist[n]
  <2> SUFFICES ASSUME NEW n \in 1..(1 + Len(b)) PROVE all[n] = hist[n]
    OBVIOUS
  <2>1. CASE n = 1
    BY <1>5, <1>6, <2>1
  <2>2. CASE n # 1
    <3>1. n \in 2..(1 + Len(b)) /\ n \in 2..(1 + Len(h)) /\ n - 1 \in 1..Len(b)
      BY <1>4, <1>a, <2>2
    <3> QED
      BY <1>5, <1>6, <1>b, <3>1
  <2> QED
    BY <2>1, <2>2
<1>13. ASSUME NEW n \in 1..Len(slid) PROVE slid[n] = hist[kept + n]
  <2>0. n \in Int /\ kept \in Int
    BY <1>4
  <2>1. CASE n <= Len(moved)
    <3>1. slid[n] = moved[n] /\ moved[n] = all[kept + n]
      BY <1>4, <1>8, <1>11, <2>0, <2>1
    <3>2. kept + n \in 1..(1 + Len(b))
      BY <1>4, <1>8, <2>0, <2>1
    <3> QED
      BY <1>12, <3>1, <3>2
  <2>2. CASE n > Len(moved)
    <3>1. n - Len(moved) \in 1..Len(t)
      BY <1>4, <1>8, <2>0, <2>2
    <3>2. Len(moved) \in Nat /\ n \in 1..(Len(moved) + Len(t)) /\ ~(n <= Len(moved))
      BY <1>4, <1>8, <2>0, <2>2
    <3>3. slid[n] = t[n - Len(moved)]
      BY <1>11, <3>2, Zenon
    <3>4. t[n - Len(moved)] = h[Len(b) + (n - Len(moved))]
      BY <1>c, <3>1
    <3>5. Len(b) + (n - Len(moved)) = kept + n - 1
      BY <1>4, <1>8, <2>0
    <3>6. kept + n \in 2..(1 + Len(h))
      BY <1>4, <1>8, <1>a, <2>0, <2>2
    <3>7. hist[kept + n] = h[kept + n - 1]
      BY <1>4, <1>6, <2>0, <3>6
    <3> QED
      BY <3>3, <3>4, <3>5, <3>7
  <2> QED
    BY <1>4, <1>8, <2>0, <2>1, <2>2
<1>14. Aligned(slid, rest, 0, hist)
  <2>1. Len(rest) + Len(slid) - 0 <= Len(hist)
    BY <1>4, <1>6, <1>8, <1>10, <1>a
  <2>2. \A n \in 1..Len(rest) : rest[n] = hist[n]
    <3>1. 1..kept \subseteq 1..(1 + Len(b))
      BY <1>4
    <3> QED
      BY <1>10, <1>12, <3>1, Zenon
  <2>3. \A n \in (0 + 1)..Len(slid) : slid[n] = hist[Len(rest) + n - 0]
    BY <1>4, <1>10, <1>13
  <2> QED
    BY <2>1, <2>2, <2>3 DEF Aligned
<1> QED
  BY <1>1, <1>2, <1>8, <1>9, <1>10, <1>14
(* What BufferCurrentHistoryBuffer makes of the window t when row e        *)
(* arrives, h being the history with e.                                    *)
HistoryOK(w, t, h, e) ==
    /\ w.table \in Seq(Entry) /\ w.buffer \in Seq(Entry)
    /\ Aligned(w.table, w.buffer, 0, h)
    /\ w.buffer = << >> => w.table # << >>
    /\ \E new \in Seq(Entry) : w.table = BufferEffectiveWindow(new, t,
                                          ClampTs(e.key, window_range.start_offset))

(* Rows that leave the history buffer line up behind it in the window; a   *)
(* current row that leaves it at once stays in the window.                 *)
LEMMA HistoryAligned ==
    ASSUME NEW t \in Seq(Entry), NEW b \in Seq(Entry), NEW h \in Seq(Entry), NEW e \in Entry,
           NEW end_ts \in Int, Aligned(t, b, 0, h),
           ~PopsBack(1, e, ClampTs(e.key, window_range.start_offset))
    PROVE  HistoryOK(BufferCurrentHistoryBuffer(e, end_ts, t, b), t, <<e>> \o h, e)
<1>1. PICK all : all = <<e>> \o b
  BY Zenon
<1>2. PICK start : start = ClampTs(e.key, window_range.start_offset)
  OBVIOUS
<1>3. PICK kept : kept = StillHistory(all, end_ts)
  OBVIOUS
<1>4. PICK moved : moved = SubSeq(all, kept + 1, Len(all))
  BY Zenon
<1>5. PICK slid : slid = BufferEffectiveWindow(moved, t, start)
  OBVIOUS
<1>6. PICK rest : rest = SubSeq(all, 1, kept)
  BY Zenon
<1>7. PICK w : w = BufferCurrentHistoryBuffer(e, end_ts, t, b)
  OBVIOUS
<1>8. w = [table |-> slid, buffer |-> rest]
  BY <1>1, <1>2, <1>3, <1>4, <1>5, <1>6, <1>7 DEF BufferCurrentHistoryBuffer
<1>9. <<e>> \in Seq(Entry) /\ Len(<<e>>) = 1 /\ <<e>>[1] = e
  OBVIOUS
<1>10. Len(b) \in Nat /\ Len(t) \in Nat
  BY LenProperties
<1>11. all \in Seq(Entry) /\ Len(all) = 1 + Len(b) /\ all[1] = e
  BY <1>1, <1>9, <1>10, ConcatProperties
<1>12. kept \in 0..(1 + Len(b))
  BY <1>3, <1>11, StillHistoryProperties
<1>13. \A i \in 1..Len(all) : all[i] \in Entry
  BY <1>11, ElementOfSeq
<1>14. /\ moved \in Seq(Entry) /\ Len(moved) = 1 + Len(b) - kept
       /\ \A i \in 1..(1 + Len(b) - kept) : moved[i] = all[kept + i]
  BY <1>4, <1>10, <1>11, <1>12, <1>13, SubSeqProperties
<1>15. rest \in Seq(Entry) /\ Len(rest) = kept
  BY <1>6, <1>10, <1>11, <1>12, <1>13, SubSeqProperties
<1>16. /\ slid \in Seq(Entry)
       /\ Len(slid) <= Len(moved) + Len(t)
       /\ \A n \in 1..Len(slid) : slid[n] = (moved \o t)[n]
       /\ moved # << >> /\ ~PopsBack(1, moved[1], start) => Len(slid) >= 1
  <2>1. LET s == BufferEffectiveWindow(moved, t, start) IN
        /\ s \in Seq(Entry)
        /\ Len(s) <= Len(moved) + Len(t)
        /\ \A n \in 1..Len(s) : s[n] = (moved \o t)[n]
        /\ moved # << >> /\ ~PopsBack(1, moved[1], start) => Len(s) >= 1
    BY <1>14, SlideProperties
  <2> QED
    BY <1>5, <2>1, Zenon
<1>17. Aligned(slid, rest, 0, <<e>> \o h)
  <2>1. \A i \in 1..(1 + Len(b) - kept) : moved[i] = (<<e>> \o b)[kept + i]
    BY <1>1, <1>14, Zenon
  <2>2. Aligned(slid, SubSeq(<<e>> \o b, 1, kept), 0, <<e>> \o h)
    BY <1>12, <1>14, <1>16, <2>1, MovedAligned, Zenon
  <2> QED
    BY <1>1, <1>6, <2>2, Zenon
<1>18. ASSUME rest = << >> PROVE slid # << >>
  <2>1. kept = 0
    BY <1>15, <1>18, EmptySeq
  <2>2. Len(moved) >= 1 /\ moved[1] = e
    BY <1>10, <1>11, <1>14, <2>1
  <2>3. moved # << >>
    BY <2>2, EmptySeq
  <2>4. Len(slid) >= 1
    BY <1>2, <1>16, <2>2, <2>3
  <2> QED
    BY <2>4, EmptySeq
<1>19. w.table = slid /\ w.buffer = rest
  BY <1>8
<1>20. \E new \in Seq(Entry) : w.table = BufferEffectiveWindow(new, t, start)
  BY <1>5, <1>14, <1>19
<1> QED
  BY <1>2, <1>7, <1>15, <1>16, <1>17, <1>18, <1>19, <1>20, Zenon DEF HistoryOK
(* Tail, as an index shift. *)
LEMMA TailFacts ==
    ASSUME NEW s \in Seq(Entry), s # << >>
    PROVE  /\ Len(s) \in Nat /\ Len(s) >= 1
           /\ Tail(s) \in Seq(Entry) /\ Len(Tail(s)) = Len(s) - 1
           /\ \A n \in 1..(Len(s) - 1) : Tail(s)[n] = s[n + 1]
BY HeadTailProperties, LenProperties, EmptySeq

(* A row in front of a history, as an index shift. *)
LEMMA ConsFacts ==
    ASSUME NEW s \in Seq(Entry), NEW e \in Entry
    PROVE  /\ Len(s) \in Nat
           /\ <<e>> \o s \in Seq(Entry) /\ Len(<<e>> \o s) = 1 + Len(s)
           /\ (<<e>> \o s)[1] = e
           /\ \A n \in 1..Len(s) : (<<e>> \o s)[n + 1] = s[n]
<1>1. <<e>> \in Seq(Entry) /\ Len(<<e>>) = 1 /\ <<e>>[1] = e
  OBVIOUS
<1> QED
  BY <1>1, ConcatProperties, LenProperties

(* The copy of the current row is pushed in front of the window, *)
LEMMA PushCopyAligned ==
    ASSUME NEW t \in Seq(Entry), NEW b \in Seq(Entry), NEW h \in Seq(Entry), NEW e \in Entry,
           Aligned(t, b, 0, h),
           NEW slid \in Seq(Entry), slid # << >>, Len(slid) <= 1 + Len(t),
           \A n \in 1..Len(slid) : slid[n] = (<<e>> \o t)[n]
    PROVE  Aligned(slid, b, 1, h)
<1>1. Len(t) \in Nat /\ Len(b) \in Nat /\ Len(h) \in Nat /\ Len(slid) \in Nat
  BY LenProperties
<1>2. \A n \in 1..Len(t) : (<<e>> \o t)[n + 1] = t[n]
  BY ConsFacts
<1>3. Len(b) + Len(slid) - 1 <= Len(h)
  BY <1>1 DEF Aligned
<1>4. ASSUME NEW n \in (1 + 1)..Len(slid) PROVE slid[n] = h[Len(b) + n - 1]
  <2>1. n - 1 \in 1..Len(t) /\ n - 1 \in (0 + 1)..Len(t) /\ (n - 1) + 1 = n /\ n \in 1..Len(slid)
    BY <1>1
  <2>2. slid[n] = t[n - 1]
    BY <1>2, <2>1
  <2>3. t[n - 1] = h[Len(b) + (n - 1) - 0]
    BY <2>1 DEF Aligned
  <2>4. Len(b) + (n - 1) - 0 = Len(b) + n - 1
    BY <1>1
  <2> QED
    BY <2>2, <2>3, <2>4
<1> QED
  BY <1>3, <1>4 DEF Aligned

(* ... and removed from it when the next row arrives. *)
LEMMA PopCopyAligned ==
    ASSUME NEW t \in Seq(Entry), NEW b \in Seq(Entry), NEW h \in Seq(Entry),
           t # << >>, Aligned(t, b, 1, h)
    PROVE  Aligned(Tail(t), b, 0, h)
<1>1. PICK s : s = Tail(t)
  BY Zenon
<1>2. /\ Len(t) \in Nat /\ Len(t) >= 1 /\ s \in Seq(Entry) /\ Len(s) = Len(t) - 1
      /\ \A n \in 1..(Len(t) - 1) : s[n] = t[n + 1]
  BY <1>1, TailFacts, Zenon
<1>3. Len(b) \in Nat /\ Len(h) \in Nat
  BY LenProperties
<1>4. Len(b) + Len(s) - 0 <= Len(h)
  BY <1>2, <1>3 DEF Aligned
<1>5. ASSUME NEW n \in (0 + 1)..Len(s) PROVE s[n] = h[Len(b) + n - 0]
  <2>1. n \in 1..(Len(t) - 1) /\ n + 1 \in (1 + 1)..Len(t) /\ Len(b) + (n + 1) - 1 = Len(b) + n - 0
    BY <1>2, <1>3
  <2>2. t[n + 1] = h[Len(b) + (n + 1) - 1]
    BY <2>1 DEF Aligned
  <2> QED
    BY <1>2, <2>1, <2>2
<1>6. Aligned(s, b, 0, h)
  BY <1>4, <1>5 DEF Aligned
<1> QED
  BY <1>1, <1>6

(* PopFrontData takes the instance row back, from the history buffer ... *)
LEMMA PopBufferAligned ==
    ASSUME NEW t \in Seq(Entry), NEW b \in Seq(Entry), NEW h \in Seq(Entry), NEW e \in Entry,
           NEW c \in {0, 1}, c <= Len(t), b # << >>, Aligned(t, b, c, <<e>> \o h)
    PROVE  Aligned(t, Tail(b), c, h)
<1>1. PICK s : s = Tail(b)
  BY Zenon
<1>2. PICK hist : hist = <<e>> \o h
  BY Zenon
<1>3. /\ Len(b) \in Nat /\ Len(b) >= 1 /\ s \in Seq(Entry) /\ Len(s) = Len(b) - 1
      /\ \A n \in 1..(Len(b) - 1) : s[n] = b[n + 1]
  BY <1>1, TailFacts, Zenon
<1>4. Len(h) \in Nat /\ Len(hist) = 1 + Len(h) /\ \A n \in 1..Len(h) : hist[n + 1] = h[n]
  BY <1>2, ConsFacts, Zenon
<1>5. Len(t) \in Nat /\ Aligned(t, b, c, hist) /\ c \in Int
  BY <1>2, LenProperties
<1>6. Len(s) + Len(t) - c <= Len(h)
  BY <1>3, <1>4, <1>5 DEF Aligned
<1>7. ASSUME NEW n \in 1..Len(s) PROVE s[n] = h[n]
  <2>1. n \in 1..(Len(b) - 1) /\ n + 1 \in 1..Len(b)
    BY <1>3
  <2>2. n \in 1..Len(h)
    BY <1>3, <1>4, <1>5, <1>6
  <2>3. b[n + 1] = hist[n + 1]
    BY <1>5, <2>1 DEF Aligned
  <2> QED
    BY <1>3, <1>4, <2>1, <2>2, <2>3
<1>8. ASSUME NEW n \in (c + 1)..Len(t) PROVE t[n] = h[Len(s) + n - c]
  <2>1. t[n] = hist[Len(b) + n - c]
    BY <1>5 DEF Aligned
  <2>2. Len(s) + n - c \in 1..Len(h) /\ (Len(s) + n - c) + 1 = Len(b) + n - c
    BY <1>3, <1>4, <1>5, <1>6
  <2> QED
    BY <1>4, <2>1, <2>2, Zenon
<1>9. Aligned(t, s, c, h)
  BY <1>6, <1>7, <1>8 DEF Aligned
<1> QED
  BY <1>1, <1>9
(* ... or from the window when the history buffer is empty. *)
LEMMA PopTableAligned ==
    ASSUME NEW t \in Seq(Entry), NEW b \in Seq(Entry), NEW h \in Seq(Entry), NEW e \in Entry,
           NEW c \in {0, 1}, t # << >>, b = << >>, Aligned(t, b, c, <<e>> \o h)
    PROVE  Aligned(Tail(t), b, IF Tail(t) = << >> THEN 0 ELSE c, h)
<1>1. PICK s : s = Tail(t)
  BY Zenon
<1>2. PICK hist : hist = <<e>> \o h
  BY Zenon
<1>3. /\ Len(t) \in Nat /\ Len(t) >= 1 /\ s \in Seq(Entry) /\ Len(s) = Len(t) - 1
      /\ \A n \in 1..(Len(t) - 1) : s[n] = t[n + 1]
  BY <1>1, TailFacts, Zenon
<1>4. Len(h) \in Nat /\ Len(hist) = 1 + Len(h) /\ \A n \in 1..Len(h) : hist[n + 1] = h[n]
  BY <1>2, ConsFacts, Zenon
<1>5. Len(b) = 0 /\ Aligned(t, b, c, hist) /\ c \in Int
  BY <1>2
<1>6. CASE s = << >>
  <2>1. Len(s) = 0
    BY <1>6
  <2>2. Aligned(s, b, 0, h)
    BY <1>4, <1>5, <2>1 DEF Aligned
  <2> QED
    BY <1>1, <1>6, <2>2
<1>7. CASE s # << >>
  <2>1. Len(b) + Len(s) - c <= Len(h)
    BY <1>3, <1>4, <1>5 DEF Aligned
  <2>2. ASSUME NEW n \in (c + 1)..Len(s) PROVE s[n] = h[Len(b) + n - c]
    <3>1. n + 1 \in (c + 1)..Len(t) /\ n \in 1..(Len(t) - 1)
      BY <1>3, <1>5
    <3>2. s[n] = hist[Len(b) + (n + 1) - c]
      BY <1>3, <1>5, <3>1 DEF Aligned
    <3>3. /\ Len(b) + n - c \in 1..Len(h)
          /\ (Len(b) + n - c) + 1 = Len(b) + (n + 1) - c
      BY <1>3, <1>4, <1>5, <2>1
    <3> QED
      BY <1>4, <3>2, <3>3
  <2>3. Aligned(s, b, c, h)
    BY <1>5, <2>1, <2>2 DEF Aligned
  <2> QED
    BY <1>1, <1>7, <2>3
<1> QED
  BY <1>6, <1>7

----------------------------------------------------------------------------
(* The bounds of the effective window *)
SizeOK(t) ==
    /\ window_range.max_size > 0 => Len(t) <= window_range.max_size
    /\ window_range.frame_type = "kFrameRows" => Len(t) <= window_range.start_row + 1

LEMMA RangeFacts ==
    ASSUME window_range \in Ranges
    PROVE  /\ window_range.start_offset \in (-Half)..0
           /\ window_range.end_offset \in (-Half)..0
           /\ window_range.start_row \in Nat
           /\ window_range.max_size \in Nat
           /\ window_range.frame_type \in FrameTypes
           /\ window_range.end_offset # 0 => window_range.start_row = 0
<1>1. window_range \in WindowRange
  BY RangesAssumption
<1> QED
  BY <1>1 DEF WindowRange

(* Sliding keeps the bounds: all the rows above them are popped. *)
LEMMA SlideSize ==
    ASSUME window_range \in Ranges, NEW new \in Seq(Entry), NEW rows \in Seq(Entry),
           NEW start_ts, SizeOK(rows)
    PROVE  SizeOK(BufferEffectiveWindow(new, rows, start_ts))
<1>1. PICK slid : slid = BufferEffectiveWindow(new, rows, start_ts)
  OBVIOUS
<1>2. CASE new = << >>
  BY <1>2 DEF BufferEffectiveWindow
<1>3. CASE new # << >>
  <2>1. /\ BufferEffectiveWindow(new, rows, start_ts) \in Seq(Entry)
        /\ BufferEffectiveWindow(new, rows, start_ts) # << >> =>
              ~PopsBack(Len(BufferEffectiveWindow(new, rows, start_ts)),
                        BufferEffectiveWindow(new, rows, start_ts)
                           [Len(BufferEffectiveWindow(new, rows, start_ts))], start_ts)
    BY <1>3, SlideProperties
  <2>2. slid \in Seq(Entry) /\ (slid # << >> => ~PopsBack(Len(slid), slid[Len(slid)], start_ts))
    BY <1>1, <2>1, Zenon
  <2>3. Len(slid) \in Nat /\ (slid = << >> => Len(slid) = 0)
    BY <2>2, LenProperties
  <2>4. SizeOK(slid)
    BY <2>2, <2>3, RangeFacts DEF SizeOK, PopsBack, HasRows
  <2> QED
    BY <1>1, <2>4
<1> QED
  BY <1>2, <1>3

(* The current row is never popped by its own arrival. *)
LEMMA CurrentNotPopped ==
    ASSUME window_range \in Ranges, NEW e \in Entry
    PROVE  ~PopsBack(1, e, ClampTs(e.key, window_range.start_offset))
<1>1. e.key \in 0..(2 * Half - 1)
  BY KeysAssumption, Zenon DEF Entry
<1>2. ClampTs(e.key, window_range.start_offset) \in 0..e.key
  BY <1>1, RangeFacts, ClampTsBelow
<1>3. e.key \in Int /\ ClampTs(e.key, window_range.start_offset) \in Int
      /\ ClampTs(e.key, window_range.start_offset) <= e.key
  BY <1>1, <1>2, HalfAssumption
<1> HIDE DEF ClampTs
<1> QED
  BY <1>3, RangeFacts DEF PopsBack, HasRows
----------------------------------------------------------------------------
(* The inductive invariant: what PopFrontData and the bounds rely on is    *)
(* that the window is aligned with the history, and that a window which    *)
(* needs no history buffer has none.                                       *)
IInv == TypeOK /\ InstanceLeavesWindow /\ BufferBounded

(* The copy of the current row, once BufferData has put it in the window *)
CopiesAfter == IF exclude_current_time /\ window_range.end_offset = 0 THEN 1 ELSE 0

(* What is left of IInv for a pair w of window and buffer, and history h *)
PairOK(w, c, h) ==
    /\ w.table \in Seq(Entry) /\ w.buffer \in Seq(Entry)
    /\ Aligned(w.table, w.buffer, c, h)
    /\ SizeOK(w.table)
    /\ window_range.end_offset = 0 /\ ~exclude_current_time => w.buffer = << >>

LEMMA InvAligned ==
    ASSUME IInv
    PROVE  Aligned(table, current_history_buffer, Copies, accepted) /\ SizeOK(table)
BY DEF IInv, InstanceLeavesWindow, BufferBounded, Aligned, SizeOK

(* One row pushed in front of a window without history buffer *)
LEMMA PushOne ==
    ASSUME window_range \in Ranges, NEW e \in Entry, NEW t \in Seq(Entry), SizeOK(t)
    PROVE  LET s == BufferEffectiveWindow(<<e>>, t, ClampTs(e.key, window_range.start_offset)) IN
           /\ s \in Seq(Entry) /\ s # << >> /\ Len(s) <= 1 + Len(t)
           /\ \A n \in 1..Len(s) : s[n] = (<<e>> \o t)[n]
           /\ SizeOK(s)
<1>1. PICK start : start = ClampTs(e.key, window_range.start_offset)
  OBVIOUS
<1>2. PICK one : one = <<e>>
  BY Zenon
<1>3. one \in Seq(Entry) /\ Len(one) = 1 /\ one[1] = e /\ one # << >>
  BY <1>2
<1>4. ~PopsBack(1, one[1], start)
  BY <1>1, <1>3, CurrentNotPopped
<1>5. LET s == BufferEffectiveWindow(one, t, start) IN
      /\ s \in Seq(Entry) /\ Len(s) <= Len(one) + Len(t)
      /\ \A n \in 1..Len(s) : s[n] = (one \o t)[n]
      /\ Len(s) >= 1
  BY <1>3, <1>4, SlideProperties
<1>6. SizeOK(BufferEffectiveWindow(one, t, start))
  BY <1>3, SlideSize
<1>7. PICK s : s = BufferEffectiveWindow(one, t, start)
  OBVIOUS
<1>8. /\ s \in Seq(Entry) /\ Len(s) <= 1 + Len(t) /\ Len(s) >= 1
      /\ \A n \in 1..Len(s) : s[n] = (one \o t)[n]
      /\ SizeOK(s)
  BY <1>3, <1>5, <1>6, <1>7, Zenon
<1>9. s # << >>
  BY <1>8
<1> QED
  BY <1>1, <1>2, <1>7, <1>8, <1>9, Zenon

(* A row put straight in front of a window that has no history buffer *)
LEMMA PushAligned ==
    ASSUME NEW t \in Seq(Entry), NEW b \in Seq(Entry), NEW h \in Seq(Entry), NEW e \in Entry,
           b = << >>, Aligned(t, b, 0, h),
           NEW slid \in Seq(Entry), Len(slid) <= 1 + Len(t),
           \A n \in 1..Len(slid) : slid[n] = (<<e>> \o t)[n]
    PROVE  Aligned(slid, b, 0, <<e>> \o h)
<1>1. PICK hist : hist = <<e>> \o h
  BY Zenon
<1>2. PICK all : all = <<e>> \o t
  BY Zenon
<1>3. /\ Len(h) \in Nat /\ Len(hist) = 1 + Len(h) /\ hist[1] = e
      /\ \A n \in 1..Len(h) : hist[n + 1] = h[n]
  BY <1>1, ConsFacts, Zenon
<1>4. Len(t) \in Nat /\ all[1] = e /\ \A n \in 1..Len(t) : all[n + 1] = t[n]
  BY <1>2, ConsFacts, Zenon
<1>5. Len(b) = 0 /\ Len(slid) \in Nat
  BY LenProperties
<1>6. Len(t) <= Len(h)
  BY <1>3, <1>4, <1>5 DEF Aligned
<1>7. Len(b) + Len(slid) - 0 <= Len(hist)
  BY <1>3, <1>4, <1>5, <1>6
<1>8. ASSUME NEW n \in (0 + 1)..Len(slid) PROVE slid[n] = hist[Len(b) + n - 0]
  <2>1. n \in 1..Len(slid) /\ Len(b) + n - 0 = n
    BY <1>5
  <2>2. slid[n] = all[n]
    BY <1>2, <2>1
  <2>3. CASE n = 1
    BY <1>3, <1>4, <2>1, <2>2, <2>3
  <2>4. CASE n # 1
    <3>1. PICK m \in Int : m = n - 1
      BY <1>5
    <3>2. n = m + 1 /\ m \in 1..Len(t) /\ m \in 1..Len(h) /\ m \in (0 + 1)..Len(t)
      BY <1>3, <1>4, <1>5, <1>6, <2>4, <3>1
    <3>3. all[m + 1] = t[m] /\ hist[m + 1] = h[m]
      BY <1>3, <1>4, <3>2
    <3>4. t[m] = h[Len(b) + m - 0] /\ Len(b) + m - 0 = m
      BY <1>5, <3>2 DEF Aligned
    <3> QED
      BY <2>1, <2>2, <3>2, <3>3, <3>4
  <2> QED
    BY <2>3, <2>4
<1>9. Aligned(slid, b, 0, hist)
  BY <1>5, <1>7, <1>8 DEF Aligned
<1> QED
  BY <1>1, <1>9
(* BufferData keeps the pair aligned, now with the new row in the history; *)
(* the row is in the buffer or in the window, and in front of the window   *)
(* if the range ends at the current row.                                   *)
LEMMA BufferDataOK ==
    ASSUME IInv, NEW e \in Entry
    PROVE  /\ PairOK(BufferData(e), CopiesAfter, <<e>> \o accepted)
           /\ BufferData(e).buffer = << >> \/ CopiesAfter = 1 => BufferData(e).table # << >>
           /\ window_range.end_offset = 0 => BufferData(e).table # << >> /\ BufferData(e).table[1] = e
<1>1. /\ window_range \in Ranges /\ table \in Seq(Entry) /\ current_history_buffer \in Seq(Entry)
      /\ accepted \in Seq(Entry) /\ exclude_current_time \in BOOLEAN
  BY InputAssumption DEF IInv, TypeOK
<1>2. Aligned(table, current_history_buffer, Copies, accepted) /\ SizeOK(table)
  BY InvAligned
<1>3. e.key \in 0..(2 * Half - 1) /\ Half \in Nat
  BY KeysAssumption, HalfAssumption, Zenon DEF Entry
<1>4. PICK start : start = ClampTs(e.key, window_range.start_offset)
  OBVIOUS
<1>5. ~PopsBack(1, e, start) /\ ~PopsBack(1, e, ClampTs(e.key, window_range.start_offset))
  BY <1>1, <1>4, CurrentNotPopped
<1>6. PICK w : w = BufferData(e)
  OBVIOUS
<1>7. CASE window_range.end_offset # 0
  <2>1. PICK end : end = ClampTs(e.key, window_range.end_offset)
    OBVIOUS
  <2>2. end \in Int
    BY <1>1, <1>3, <2>1, RangeFacts, ClampTsBelow
  <2>3. ~(Len(table) < window_range.start_row)
    BY <1>1, <1>7, RangeFacts, LenProperties
  <2>4. w = BufferCurrentHistoryBuffer(e, end, table, current_history_buffer)
    BY <1>6, <1>7, <2>1, <2>3 DEF BufferData
  <2>5. Aligned(table, current_history_buffer, 0, accepted) /\ CopiesAfter = 0
    BY <1>2, <1>7 DEF Copies, CopiesAfter
  <2>6. /\ w.table \in Seq(Entry) /\ w.buffer \in Seq(Entry)
        /\ Aligned(w.table, w.buffer, 0, <<e>> \o accepted)
        /\ w.buffer = << >> => w.table # << >>
        /\ \E new \in Seq(Entry) : w.table = BufferEffectiveWindow(new, table,
                                          ClampTs(e.key, window_range.start_offset))
    <3>1. HistoryOK(BufferCurrentHistoryBuffer(e, end, table, current_history_buffer), table,
                    <<e>> \o accepted, e)
      BY <1>1, <1>5, <2>2, <2>5, HistoryAligned, Zenon
    <3> QED
      BY <2>4, <3>1, Zenon DEF HistoryOK
  <2>7. SizeOK(w.table)
    BY <1>1, <1>2, <2>6, SlideSize
  <2>8. PairOK(w, 0, <<e>> \o accepted)
    BY <1>7, <2>6, <2>7 DEF PairOK
  <2> QED
    BY <1>6, <1>7, <2>5, <2>6, <2>8
<1>8. CASE window_range.end_offset = 0 /\ ~exclude_current_time
  <2>1. current_history_buffer = << >> /\ Copies = 0 /\ CopiesAfter = 0
    BY <1>8 DEF IInv, BufferBounded, Copies, CopiesAfter
  <2>2. PICK slid : slid = BufferEffectiveWindow(<<e>>, table, start)
    OBVIOUS
  <2>3. w = [table |-> slid, buffer |-> current_history_buffer]
    BY <1>4, <1>6, <1>8, <2>2 DEF BufferData, BufferCurrentTimeBuffer
  <2>4. /\ slid \in Seq(Entry) /\ slid # << >> /\ Len(slid) <= 1 + Len(table)
        /\ \A n \in 1..Len(slid) : slid[n] = (<<e>> \o table)[n]
        /\ SizeOK(slid)
    BY <1>1, <1>2, <1>4, <2>2, PushOne, Zenon
  <2>5. Aligned(slid, current_history_buffer, 0, <<e>> \o accepted)
    BY <1>1, <1>2, <2>1, <2>4, PushAligned, Zenon
  <2>6. w.table = slid /\ w.buffer = current_history_buffer
    BY <2>3
  <2>7. PairOK(w, 0, <<e>> \o accepted)
    BY <1>1, <2>1, <2>4, <2>5, <2>6 DEF PairOK
  <2>8. slid[1] = e
    <3>1. 1 \in 1..Len(slid)
      BY <2>4, TailFacts
    <3>2. (<<e>> \o table)[1] = e
      BY <1>1, ConsFacts
    <3> QED
      BY <2>4, <3>1, <3>2
  <2> QED
    BY <1>6, <2>1, <2>4, <2>6, <2>7, <2>8
<1>9. CASE window_range.end_offset = 0 /\ exclude_current_time
  <2>1. CopiesAfter = 1
    BY <1>9 DEF CopiesAfter
  <2>2. PICK inner : inner = PopEffectiveData(table)
    OBVIOUS
  <2>3. /\ inner \in Seq(Entry) /\ SizeOK(inner)
        /\ Aligned(inner, current_history_buffer, 0, accepted)
    <3>1. CASE table = << >>
      <4>1. inner = table /\ Copies = 0
        BY <2>2, <3>1 DEF PopEffectiveData, Copies
      <4> QED
        BY <1>1, <1>2, <4>1
    <3>2. CASE table # << >>
      <4>1. inner = Tail(table) /\ Copies = 1
        BY <1>9, <2>2, <3>2 DEF PopEffectiveData, Copies
      <4>2. /\ Len(table) \in Nat /\ inner \in Seq(Entry) /\ Len(inner) = Len(table) - 1
        BY <1>1, <3>2, <4>1, TailFacts, Zenon
      <4>3. SizeOK(inner)
        BY <1>1, <1>2, <4>2, RangeFacts DEF SizeOK
      <4>4. Aligned(inner, current_history_buffer, 0, accepted)
        BY <1>1, <1>2, <3>2, <4>1, PopCopyAligned, Zenon
      <4> QED
        BY <4>2, <4>3, <4>4
    <3> QED
      BY <3>1, <3>2
  <2>4. PICK moved : moved = BufferCurrentHistoryBuffer(e, PrevTs(e.key), inner,
                                                        current_history_buffer)
    OBVIOUS
  <2>5. PrevTs(e.key) \in Int
    BY <1>3 DEF PrevTs
  <2>6. /\ moved.table \in Seq(Entry) /\ moved.buffer \in Seq(Entry)
        /\ Aligned(moved.table, moved.buffer, 0, <<e>> \o accepted)
        /\ \E new \in Seq(Entry) : moved.table = BufferEffectiveWindow(new, inner,
                                          ClampTs(e.key, window_range.start_offset))
    <3>1. HistoryOK(BufferCurrentHistoryBuffer(e, PrevTs(e.key), inner, current_history_buffer),
                    inner, <<e>> \o accepted, e)
      BY <1>1, <1>5, <2>3, <2>5, HistoryAligned, Zenon
    <3> QED
      BY <2>4, <3>1, Zenon DEF HistoryOK
  <2>7. SizeOK(moved.table)
    BY <1>1, <2>3, <2>6, SlideSize
  <2>8. PICK slid : slid = BufferEffectiveWindow(<<e>>, moved.table, start)
    OBVIOUS
  <2>9. w.table = slid /\ w.buffer = moved.buffer
    <3>1. w = [moved EXCEPT !.table = BufferEffectiveWindow(<<e>>, @, start)]
      BY <1>4, <1>6, <1>9, <2>2, <2>4 DEF BufferData, BufferCurrentTimeBuffer
    <3>2. \E x, y : moved = [table |-> x, buffer |-> y]
      BY <2>4, Zenon DEF BufferCurrentHistoryBuffer
    <3> QED
      BY <2>8, <3>1, <3>2
  <2>10. /\ slid \in Seq(Entry) /\ slid # << >> /\ Len(slid) <= 1 + Len(moved.table)
         /\ \A n \in 1..Len(slid) : slid[n] = (<<e>> \o moved.table)[n]
         /\ SizeOK(slid)
    BY <1>1, <1>4, <2>6, <2>7, <2>8, PushOne, Zenon
  <2>11. Aligned(slid, moved.buffer, 1, <<e>> \o accepted)
    <3>1. <<e>> \o accepted \in Seq(Entry)
      BY <1>1, ConsFacts
    <3> QED
      BY <2>6, <2>10, <3>1, PushCopyAligned, Zenon
  <2>12. PairOK(w, 1, <<e>> \o accepted)
    BY <1>9, <2>6, <2>9, <2>10, <2>11 DEF PairOK
  <2>13. slid[1] = e
    <3>1. 1 \in 1..Len(slid)
      BY <2>10, TailFacts
    <3>2. (<<e>> \o moved.table)[1] = e
      BY <2>6, ConsFacts
    <3> QED
      BY <2>10, <3>1, <3>2
  <2> QED
    BY <1>6, <2>1, <2>9, <2>10, <2>12, <2>13
<1> QED
  BY <1>1, <1>7, <1>8, <1>9
(* PopFrontData takes the row that BufferData put in away again, and no other. *)
LEMMA PopFrontDataOK ==
    ASSUME window_range \in Ranges, exclude_current_time \in BOOLEAN,
           NEW e \in Entry, NEW h \in Seq(Entry), NEW x, NEW y, NEW w,
           w = [table |-> x, buffer |-> y],
           PairOK(w, CopiesAfter, <<e>> \o h),
           w.buffer = << >> \/ CopiesAfter = 1 => w.table # << >>
    PROVE  LET p == PopFrontData(w) IN
           PairOK(p, IF p.table = << >> THEN 0 ELSE CopiesAfter, h)
<1>1. PICK p : p = PopFrontData(w)
  OBVIOUS
<1>2. PICK c : c = CopiesAfter
  OBVIOUS
<1>3. c \in {0, 1}
  BY <1>2 DEF CopiesAfter
<1>4. /\ w.table \in Seq(Entry) /\ w.buffer \in Seq(Entry)
      /\ Aligned(w.table, w.buffer, c, <<e>> \o h) /\ SizeOK(w.table)
      /\ window_range.end_offset = 0 /\ ~exclude_current_time => w.buffer = << >>
  BY <1>2 DEF PairOK
<1>5. CASE w.buffer = << >>
  <2>1. p.table = Tail(w.table) /\ p.buffer = w.buffer
    BY <1>1, <1>5 DEF PopFrontData
  <2>2. w.table # << >>
    BY <1>5
  <2>3. /\ Len(w.table) \in Nat /\ p.table \in Seq(Entry) /\ Len(p.table) = Len(w.table) - 1
    BY <1>4, <2>1, <2>2, TailFacts, Zenon
  <2>4. SizeOK(p.table)
    BY <1>4, <2>3, RangeFacts DEF SizeOK
  <2>5. Aligned(p.table, p.buffer, IF p.table = << >> THEN 0 ELSE c, h)
    <3>1. Aligned(Tail(w.table), w.buffer, IF Tail(w.table) = << >> THEN 0 ELSE c, h)
      BY <1>3, <1>4, <1>5, <2>2, PopTableAligned, Zenon
    <3> QED
      BY <2>1, <3>1, Zenon
  <2>6. PairOK(p, IF p.table = << >> THEN 0 ELSE c, h)
    BY <1>4, <2>1, <2>3, <2>4, <2>5, Zenon DEF PairOK
  <2> QED
    BY <1>1, <1>2, <2>6, Zenon
<1>6. CASE w.buffer # << >>
  <2>1. p.table = w.table /\ p.buffer = Tail(w.buffer)
    BY <1>1, <1>6 DEF PopFrontData
  <2>2. p.buffer \in Seq(Entry)
    BY <1>4, <1>6, <2>1, TailFacts, Zenon
  <2>3. c = 1 => Len(w.table) >= 1
    <3>1. SUFFICES ASSUME c = 1 PROVE Len(w.table) >= 1
      OBVIOUS
    <3>2. w.table # << >>
      BY <1>2, <3>1
    <3> QED
      BY <1>4, <3>2, TailFacts, Zenon
  <2>4. Len(w.table) \in Nat /\ c <= Len(w.table)
    BY <1>3, <1>4, <2>3, LenProperties
  <2>5. Aligned(p.table, p.buffer, c, h)
    <3>1. Aligned(w.table, Tail(w.buffer), c, h)
      BY <1>3, <1>4, <1>6, <2>4, PopBufferAligned
    <3> QED
      BY <2>1, <3>1, Zenon
  <2>6. p.table = << >> => c = 0
    BY <1>2, <1>3, <2>1
  <2>7. PairOK(p, IF p.table = << >> THEN 0 ELSE c, h)
    BY <1>4, <1>6, <2>1, <2>2, <2>5, <2>6, Zenon DEF PairOK
  <2> QED
    BY <1>1, <1>2, <2>7, Zenon
<1> QED
  BY <1>5, <1>6

(* What a handler leaves is IInv's part about the window. *)
LEMMA HoldsInv ==
    ASSUME NEW w, NEW h, Holds(w), accepted' = h, UNCHANGED config,
           PairOK(w, IF w.table = << >> THEN 0 ELSE CopiesAfter, h)
    PROVE  /\ table' \in Seq(Entry) /\ current_history_buffer' \in Seq(Entry)
           /\ InstanceLeavesWindow' /\ BufferBounded'
<1>1. table' = w.table /\ current_history_buffer' = w.buffer
  BY DEF Holds
<1>2. window_range' = window_range /\ exclude_current_time' = exclude_current_time
  BY DEF config
<1>3. Copies' = IF w.table = << >> THEN 0 ELSE CopiesAfter
  BY <1>1, <1>2 DEF Copies, CopiesAfter
<1>4. InstanceLeavesWindow'
  BY <1>1, <1>3 DEF InstanceLeavesWindow, PairOK, Aligned
<1>5. BufferBounded'
  BY <1>1, <1>2 DEF BufferBounded, PairOK, SizeOK
<1> QED
  BY <1>1, <1>4, <1>5 DEF PairOK

LEMMA ArrivalEntry ==
    ASSUME TypeOK, NEW key \in Keys, Arrives(key)
    PROVE  /\ Arrival(key) \in Entry
           /\ fed' \in 0..MaxRows /\ last_key' \in Keys \cup {0}
           /\ in_order' \in BOOLEAN
           /\ window_range' \in Ranges /\ exclude_current_time' \in ExcludeFlags
           /\ instance_not_in_window' \in BOOLEAN /\ UNCHANGED config
<1>1. in_order' = (in_order /\ key >= last_key)
  BY DEF Arrives
<1>2. (in_order /\ key >= last_key) \in BOOLEAN
  OBVIOUS
<1>3. in_order' \in BOOLEAN
  BY <1>1, <1>2, Zenon
<1> QED
  BY <1>3, InputAssumption DEF TypeOK, Arrives, Arrival, Entry, config

(* BufferData returns a pair. *)
LEMMA BufferDataPair ==
    ASSUME NEW e PROVE \E x, y : BufferData(e) = [table |-> x, buffer |-> y]
BY Zenon DEF BufferData, BufferCurrentTimeBuffer, BufferCurrentHistoryBuffer
(* A row that stays in the window: the pair of BufferData is kept. *)
LEMMA KeepsRow ==
    ASSUME IInv, NEW e \in Entry, UNCHANGED config,
           Holds(BufferData(e)), accepted' = <<e>> \o accepted
    PROVE  /\ table' \in Seq(Entry) /\ current_history_buffer' \in Seq(Entry)
           /\ InstanceLeavesWindow' /\ BufferBounded'
<1>1. PICK w : w = BufferData(e)
  OBVIOUS
<1>2. /\ PairOK(w, CopiesAfter, <<e>> \o accepted)
      /\ CopiesAfter = 1 => w.table # << >>
  BY <1>1, BufferDataOK, Zenon
<1>3. CopiesAfter \in {0, 1}
  BY DEF CopiesAfter
<1>4. (IF w.table = << >> THEN 0 ELSE CopiesAfter) = CopiesAfter
  BY <1>2, <1>3
<1>5. PairOK(w, IF w.table = << >> THEN 0 ELSE CopiesAfter, <<e>> \o accepted)
  BY <1>2, <1>4, Zenon
<1> QED
  BY <1>1, <1>5, HoldsInv, Zenon

(* A row that PopFrontData takes away again *)
LEMMA DropsRow ==
    ASSUME IInv, NEW e \in Entry, UNCHANGED config,
           Holds(PopFrontData(BufferData(e))), accepted' = accepted
    PROVE  /\ table' \in Seq(Entry) /\ current_history_buffer' \in Seq(Entry)
           /\ InstanceLeavesWindow' /\ BufferBounded'
<1>1. PICK w : w = BufferData(e)
  OBVIOUS
<1>2. /\ PairOK(w, CopiesAfter, <<e>> \o accepted)
      /\ w.buffer = << >> \/ CopiesAfter = 1 => w.table # << >>
  BY <1>1, BufferDataOK, Zenon
<1>3. PICK x, y : w = [table |-> x, buffer |-> y]
  BY <1>1, BufferDataPair, Zenon
<1>4. window_range \in Ranges /\ exclude_current_time \in BOOLEAN /\ accepted \in Seq(Entry)
  BY InputAssumption DEF IInv, TypeOK
<1>5. PICK p : p = PopFrontData(w)
  OBVIOUS
<1>6. PairOK(p, IF p.table = << >> THEN 0 ELSE CopiesAfter, accepted)
  BY <1>2, <1>3, <1>4, <1>5, PopFrontDataOK, Zenon
<1>7. Holds(p)
  BY <1>1, <1>5, Zenon
<1> QED
  BY <1>6, <1>7, HoldsInv, Zenon

LEMMA InitIInv == Init => IInv
<1> SUFFICES ASSUME Init PROVE IInv
  OBVIOUS
<1>1. /\ table = << >> /\ current_history_buffer = << >> /\ accepted = << >>
      /\ Len(table) = 0 /\ Len(current_history_buffer) = 0 /\ Len(accepted) = 0
  BY DEF Init
<1>2. Copies = 0
  BY <1>1 DEF Copies
<1>3. TypeOK
  BY InputAssumption DEF Init, TypeOK, NoCall
<1>4. InstanceLeavesWindow
  BY <1>1, <1>2 DEF InstanceLeavesWindow
<1>5. BufferBounded
  BY <1>1, RangeFacts DEF BufferBounded, Init
<1> QED
  BY <1>3, <1>4, <1>5 DEF IInv

(* The udf call of a handler is recorded with its row, history and window. *)
LEMMA ShowsType ==
    ASSUME IInv, NEW e \in Entry, Shows(e, BufferData(e))
    PROVE  shown' \in [current: Seq(Entry), past: Seq(Entry), window: Seq(Entry)]
<1>1. BufferData(e).table \in Seq(Entry)
  BY BufferDataOK, Zenon DEF PairOK
<1>2. accepted \in Seq(Entry) /\ <<e>> \in Seq(Entry)
  BY DEF IInv, TypeOK
<1> QED
  BY <1>1, <1>2 DEF Shows

LEMMA NextIInv == IInv /\ [Next]_vars => IInv'
<1> SUFFICES ASSUME IInv, [Next]_vars PROVE IInv'
  OBVIOUS
<1>1. CASE UNCHANGED vars
  BY <1>1 DEF IInv, TypeOK, InstanceLeavesWindow, BufferBounded, Copies, vars
<1>2. ASSUME NEW key \in Keys, ProjectRejected(key) PROVE IInv'
  <2>1. Arrives(key) /\ UNCHANGED <<table, current_history_buffer, accepted, shown>>
    BY <1>2 DEF ProjectRejected
  <2>2. TypeOK'
    BY <2>1, ArrivalEntry DEF IInv, TypeOK
  <2>3. InstanceLeavesWindow' /\ BufferBounded'
    BY <2>1 DEF IInv, InstanceLeavesWindow, BufferBounded, Copies, Arrives, config
  <2> QED
    BY <2>2, <2>3 DEF IInv
<1>3. ASSUME NEW key \in Keys, ProjectUnionRow(key) PROVE IInv'
  <2>1. PICK e : e = Arrival(key)
    OBVIOUS
  <2>2. /\ Arrives(key) /\ Holds(BufferData(e)) /\ accepted' = <<e>> \o accepted
        /\ UNCHANGED shown
    BY <1>3, <2>1, Zenon DEF ProjectUnionRow
  <2>3. e \in Entry /\ UNCHANGED config
    BY <2>1, <2>2, ArrivalEntry, Zenon DEF IInv
  <2>4. /\ table' \in Seq(Entry) /\ current_history_buffer' \in Seq(Entry)
        /\ InstanceLeavesWindow' /\ BufferBounded'
    BY <2>2, <2>3, KeepsRow, Zenon
  <2>5. accepted' \in Seq(Entry)
    BY <2>2, <2>3, ConsFacts DEF IInv, TypeOK
  <2>6. TypeOK'
    BY <2>2, <2>4, <2>5, ArrivalEntry DEF IInv, TypeOK
  <2> QED
    BY <2>4, <2>6 DEF IInv
<1>4. ASSUME NEW key \in Keys, ProjectInstanceRow(key) PROVE IInv'
  <2>1. PICK e : e = Arrival(key)
    OBVIOUS
  <2>2. /\ Arrives(key) /\ Shows(e, BufferData(e))
        /\ Holds(IF instance_not_in_window THEN PopFrontData(BufferData(e)) ELSE BufferData(e))
        /\ accepted' = IF instance_not_in_window THEN accepted ELSE <<e>> \o accepted
    BY <1>4, <2>1, Zenon DEF ProjectInstanceRow
  <2>3. e \in Entry /\ UNCHANGED config
    BY <2>1, <2>2, ArrivalEntry, Zenon DEF IInv
  <2>4. /\ table' \in Seq(Entry) /\ current_history_buffer' \in Seq(Entry)
        /\ InstanceLeavesWindow' /\ BufferBounded'
    <3>1. CASE instance_not_in_window
      BY <2>2, <2>3, <3>1, DropsRow, Zenon
    <3>2. CASE ~instance_not_in_window
      BY <2>2, <2>3, <3>2, KeepsRow, Zenon
    <3> QED
      BY <3>1, <3>2
  <2>5. accepted' \in Seq(Entry)
    BY <2>2, <2>3, ConsFacts DEF IInv, TypeOK
  <2>6. shown' \in [current: Seq(Entry), past: Seq(Entry), window: Seq(Entry)]
    BY <2>2, <2>3, ShowsType, Zenon
  <2>7. TypeOK'
    BY <2>2, <2>4, <2>5, <2>6, ArrivalEntry DEF IInv, TypeOK
  <2> QED
    BY <2>4, <2>7 DEF IInv
<1>5. ASSUME NEW key \in Keys, ProjectUdfFails(key) PROVE IInv'
  <2>1. PICK e : e = Arrival(key)
    OBVIOUS
  <2>2. /\ Arrives(key) /\ Shows(e, BufferData(e)) /\ Holds(BufferData(e))
        /\ accepted' = <<e>> \o accepted
    BY <1>5, <2>1, Zenon DEF ProjectUdfFails
  <2>3. e \in Entry /\ UNCHANGED config
    BY <2>1, <2>2, ArrivalEntry, Zenon DEF IInv
  <2>4. /\ table' \in Seq(Entry) /\ current_history_buffer' \in Seq(Entry)
        /\ InstanceLeavesWindow' /\ BufferBounded'
    BY <2>2, <2>3, KeepsRow, Zenon
  <2>5. accepted' \in Seq(Entry)
    BY <2>2, <2>3, ConsFacts DEF IInv, TypeOK
  <2>6. shown' \in [current: Seq(Entry), past: Seq(Entry), window: Seq(Entry)]
    BY <2>2, <2>3, ShowsType, Zenon
  <2>7. TypeOK'
    BY <2>2, <2>4, <2>5, <2>6, ArrivalEntry DEF IInv, TypeOK
  <2> QED
    BY <2>4, <2>7 DEF IInv
<1> QED
  BY <1>1, <1>2, <1>3, <1>4, <1>5 DEF Next

(* The state of a HistoryWindow keeps its types whatever rows it is given: *)
(* in particular PopFrontData never pops an empty deque.                   *)
THEOREM TypeCorrect == Spec => []TypeOK
<1>1. IInv => TypeOK
  BY DEF IInv
<1> QED
  BY <1>1, InitIInv, NextIInv, PTL DEF Spec

(* INSTANCE_NOT_IN_WINDOW takes back the instance row and no other: after  *)
(* every call of WindowProject, in whatever order rows arrive, the history *)
(* buffer and the window behind it are the newest rows of the history.     *)
THEOREM InstanceLeaves == Spec => []InstanceLeavesWindow
<1>1. IInv => InstanceLeavesWindow
  BY DEF IInv
<1> QED
  BY <1>1, InitIInv, NextIInv, PTL DEF Spec

(* MAXSIZE and ROWS bound the window after every call of WindowProject,    *)
(* and only EXCLUDE CURRENT_TIME and ranges that end before the current    *)
(* row use the history buffer.                                             *)
THEOREM Bounded == Spec => []BufferBounded
<1>1. IInv => BufferBounded
  BY DEF IInv
<1> QED
  BY <1>1, InitIInv, NextIInv, PTL DEF Spec

(* When the range ends at the current row and instances stay, the latest   *)
(* row of the history is in front of the window.                           *)
FrontInv ==
    window_range.end_offset = 0 /\ ~instance_not_in_window =>
        /\ LateRowsRefused
        /\ accepted # << >> => table # << >> /\ table[1] = accepted[1]

(* A row that is not older than the latest one becomes the latest. *)
LEMMA AcceptedKept ==
    ASSUME IInv, FrontInv, NEW e \in Entry, ~Rejects(e.key), UNCHANGED config,
           Holds(BufferData(e)), accepted' = <<e>> \o accepted
    PROVE  FrontInv'
<1> SUFFICES ASSUME window_range.end_offset = 0, ~instance_not_in_window
             PROVE  LateRowsRefused' /\ table' # << >> /\ table'[1] = accepted'[1]
  BY DEF FrontInv, config
<1>1. LateRowsRefused /\ (accepted # << >> => table # << >> /\ table[1] = accepted[1])
  BY DEF FrontInv
<1>2. accepted \in Seq(Entry)
  BY DEF IInv, TypeOK
<1>3. PICK h : h = <<e>> \o accepted
  OBVIOUS
<1>4. /\ Len(accepted) \in Nat /\ Len(h) = 1 + Len(accepted) /\ h[1] = e /\ h \in Seq(Entry)
      /\ \A n \in 1..Len(accepted) : h[n + 1] = accepted[n]
  BY <1>2, <1>3, ConsFacts
<1>5. table' # << >> /\ table'[1] = e
  BY BufferDataOK DEF Holds
<1>6. \A n \in 1..Len(h) : h[n].key \in Int
  BY <1>4, EntryKeys, HalfAssumption
<1>7. ASSUME NEW n \in 1..Len(accepted) PROVE e.key >= accepted[n].key
  <2>1. accepted # << >> /\ 1 \in 1..Len(accepted)
    BY <1>2, <1>4, <1>7
  <2>2. ~(accepted[1].key > e.key)
    BY <1>1, <2>1 DEF Rejects
  <2>3. accepted[1].key \in Int /\ accepted[n].key \in Int /\ e.key \in Int
    <3>1. accepted[1].key \in 0..(2 * Half - 1) /\ accepted[n].key \in 0..(2 * Half - 1)
      BY <1>2, <2>1, EntryKeys
    <3>2. e.key \in 0..(2 * Half - 1)
      BY KeysAssumption, Zenon DEF Entry
    <3> QED
      BY <3>1, <3>2, HalfAssumption
  <2>4. n = 1 \/ accepted[1].key >= accepted[n].key
    BY <1>1, <1>4, <2>1 DEF LateRowsRefused
  <2> QED
    BY <2>2, <2>3, <2>4
<1>8. ASSUME NEW m \in 1..Len(h), NEW n \in 1..Len(h), m < n PROVE h[m].key >= h[n].key
  <2>1. n - 1 \in 1..Len(accepted) /\ h[n] = accepted[n - 1]
    <3>1. n - 1 \in 1..Len(accepted) /\ (n - 1) + 1 = n
      BY <1>4, <1>8
    <3> QED
      BY <1>4, <3>1
  <2>2. CASE m = 1
    BY <1>4, <1>7, <2>1, <2>2
  <2>3. CASE m # 1
    <3>1. m - 1 \in 1..Len(accepted) /\ (m - 1) + 1 = m /\ m - 1 < n - 1
      BY <1>4, <1>8, <2>3
    <3>2. h[m] = accepted[m - 1]
      BY <1>4, <3>1
    <3> QED
      BY <1>1, <2>1, <3>1, <3>2, Zenon DEF LateRowsRefused
  <2> QED
    BY <2>2, <2>3
<1>9. LateRowsRefused'
  BY <1>3, <1>8, Zenon DEF LateRowsRefused
<1> QED
  BY <1>3, <1>4, <1>5, <1>9

LEMMA NextFrontInv == IInv /\ FrontInv /\ [Next]_vars => FrontInv'
<1> SUFFICES ASSUME IInv, FrontInv, [Next]_vars PROVE FrontInv'
  OBVIOUS
<1>1. CASE UNCHANGED vars
  BY <1>1 DEF FrontInv, LateRowsRefused, vars
<1>2. ASSUME NEW key \in Keys, ProjectRejected(key) PROVE FrontInv'
  BY <1>2 DEF FrontInv, LateRowsRefused, ProjectRejected, Arrives, config
<1>3. ASSUME NEW key \in Keys, Arrives(key), ~Rejects(key),
             Holds(BufferData(Arrival(key))), accepted' = <<Arrival(key)>> \o accepted
      PROVE  FrontInv'
  <2>1. PICK e : e = Arrival(key)
    OBVIOUS
  <2>2. e \in Entry /\ UNCHANGED config /\ e.key = key
    BY <1>3, <2>1, ArrivalEntry DEF IInv, Arrival
  <2> QED
    BY <1>3, <2>1, <2>2, AcceptedKept
<1>4. ASSUME NEW key \in Keys, ProjectUnionRow(key) PROVE FrontInv'
  BY <1>3, <1>4 DEF ProjectUnionRow
<1>5. ASSUME NEW key \in Keys, ProjectInstanceRow(key) PROVE FrontInv'
  <2>1. CASE instance_not_in_window
    BY <1>5, <2>1 DEF FrontInv, ProjectInstanceRow, Arrives, config
  <2>2. CASE ~instance_not_in_window
    BY <1>3, <1>5, <2>2 DEF ProjectInstanceRow
  <2> QED
    BY <2>1, <2>2
<1>6. ASSUME NEW key \in Keys, ProjectUdfFails(key) PROVE FrontInv'
  BY <1>3, <1>6 DEF ProjectUdfFails
<1> QED
  BY <1>1, <1>2, <1>4, <1>5, <1>6 DEF Next

(* BufferData refuses every row older than the latest row it accepted, if  *)
(* the range ends at the current row and instances stay in the window: the *)
(* row that Rejects looks at is then the latest, whatever was popped and   *)
(* also when it is the copy that EXCLUDE CURRENT_TIME puts in front.       *)
THEOREM LateRowsAreRefused == Spec => []LateRowsRefusedFromFront
<1>1. Init => FrontInv
  <2>1. Init => accepted = << >> /\ Len(accepted) = 0
    BY DEF Init
  <2> QED
    BY <2>1 DEF FrontInv, LateRowsRefused
<1>2. FrontInv => LateRowsRefusedFromFront
  BY DEF FrontInv, LateRowsRefusedFromFront
<1> QED
  BY <1>1, <1>2, InitIInv, NextIInv, NextFrontInv, PTL DEF Spec
=============================================================================
