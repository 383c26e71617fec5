--------------------------- MODULE SkipListProofs ---------------------------
(***************************************************************************)
(* What readers of the skip list see, for every set of keys, every         *)
(* MaxHeight and any number of readers.                                    *)
(*                                                                         *)
(* On(l) are the keys linked at level l: the stored ones that are high     *)
(* enough, and the key that is being inserted at the levels the writer has *)
(* published.  The inductive invariant says that each level links exactly  *)
(* the keys of On(l), in order (ChainOK), that what the writer took for    *)
(* the neighbours of its key at a level still are when it links the key    *)
(* there (WriterInv), and what each step of a reader may count on          *)
(* (ReaderInv).                                                            *)
(***************************************************************************)
EXTENDS SkipList, WellFoundedInduction, TLAPS

Elements(s) == {s[n] : n \in DOMAIN s}

\* What Append does to a sequence
LEMMA AppendProperties ==
    ASSUME NEW S, NEW s \in Seq(S), NEW e \in S, NEW t, t = Append(s, e)
    PROVE  /\ t \in Seq(S)
           /\ Len(t) = Len(s) + 1
           /\ \A n \in 1..Len(s) : t[n] = s[n]
           /\ t[Len(s) + 1] = e
    OBVIOUS

\* ... and to its elements
LEMMA AppendElements ==
    ASSUME NEW S, NEW s \in Seq(S), NEW e \in S
    PROVE  Elements(Append(s, e)) = Elements(s) \cup {e}
<1> PICK t : t = Append(s, e)
    OBVIOUS
<1>1. t \in Seq(S) /\ Len(t) = Len(s) + 1
    OBVIOUS
<1>2. \A n \in 1..Len(s) : t[n] = s[n]
    OBVIOUS
<1>3. t[Len(s) + 1] = e
    OBVIOUS
<1>4. Len(s) \in Nat /\ DOMAIN s = 1..Len(s) /\ DOMAIN t = 1..(Len(s) + 1)
    BY <1>1
<1>5. Elements(t) = Elements(s) \cup {e}
  <2>1. ASSUME NEW x \in Elements(t) PROVE x \in Elements(s) \cup {e}
    <3>1. PICK n \in 1..(Len(s) + 1) : x = t[n]
        BY <1>4, <2>1 DEF Elements
    <3>2. CASE n = Len(s) + 1
        BY <3>1, <3>2, <1>3
    <3>3. CASE n # Len(s) + 1
      <4>1. n \in 1..Len(s)
          BY <3>3, <1>4
      <4> QED
          BY <4>1, <3>1, <1>2, <1>4 DEF Elements
    <3> QED
        BY <3>2, <3>3
  <2>2. ASSUME NEW x \in Elements(s) PROVE x \in Elements(t)
    <3>1. PICK n \in 1..Len(s) : x = s[n]
        BY <1>4 DEF Elements
    <3>2. n \in 1..(Len(s) + 1) /\ t[n] = x
        BY <3>1, <1>2, <1>4
    <3> QED
        BY <3>2, <1>4 DEF Elements
  <2>3. e \in Elements(t)
    <3>1. Len(s) + 1 \in 1..(Len(s) + 1)
        BY <1>4
    <3> QED
        BY <3>1, <1>3, <1>4 DEF Elements
  <2> QED
      BY <2>1, <2>2, <2>3
<1> QED
    BY <1>5

\* A nonempty set of numbers has a least element.
LEMMA LeastExists ==
    ASSUME NEW S \in SUBSET Nat, S # {}
    PROVE  \E x \in S : \A y \in S : x <= y
<1>1. PICK x \in S : \A y \in S : ~(<<y, x>> \in OpToRel(<, Nat))
    BY NatLessThanWellFounded, WFMin
<1>2. ASSUME NEW y \in S PROVE x <= y
  <2>1. ~(y < x)
      BY <1>1 DEF OpToRel
  <2> QED
      BY <2>1
<1> QED
    BY <1>2

\* A nonempty set of numbers below k has a greatest element.
LEMMA GreatestExists ==
    ASSUME NEW k \in Nat, NEW S \in SUBSET Nat, S # {}, \A x \in S : x < k
    PROVE  \E x \in S : \A y \in S : y <= x
<1> PICK D : D = {k - x : x \in S}
    OBVIOUS
<1>1. \A x \in S : k - x \in Nat /\ k - x \in D
    OBVIOUS
<1>2. D \in SUBSET Nat /\ D # {}
    BY <1>1
<1>3. PICK d \in D : \A e \in D : d <= e
    BY <1>2, LeastExists
<1>4. PICK x \in S : d = k - x
    OBVIOUS
<1>5. ASSUME NEW y \in S PROVE y <= x
  <2>1. k - x <= k - y
      BY <1>1, <1>3, <1>4
  <2> QED
      BY <2>1
<1> QED
    BY <1>5


On(l) ==
    {k \in stored : l < height[k]} \cup {k \in Keys : writer.pc # "idle" /\ l < writer.level /\ k = writer.key}

\* The links of one level
LinksAt(l) == [n \in Nodes |-> nexts[n][l]]

\* The links f lead from the head through S in ascending order.
ChainOK(f, S) ==
    /\ \A n \in {Head0} \cup S :
          /\ f[n] \in S \cup {None}
          /\ f[n] # None => f[n] > n
          /\ \A k \in S : k > n => f[n] # None /\ f[n] <= k
    /\ \A k \in S : \E n \in {Head0} \cup S : f[n] = k

ReaderType ==
    [pc: {"idle", "walk", "got", "found", "at", "end", "undefined"},
     op: {"none", "get", "seek", "scan"}, key: Keys \cup {None},
     node: Nodes, level: Levels, known: SUBSET Keys, read: Seq(Keys)]

TypeInv ==
    /\ nexts \in [Nodes -> [Levels -> Keys \cup {None, Garbage}]]
    /\ height \in [Keys -> 0..MaxHeight] /\ max_height \in 1..MaxHeight
    /\ stored \subseteq Keys /\ \A k \in stored : height[k] \in 1..max_height
    /\ writer \in [pc: {"idle", "prepare", "publish"}, key: Keys \cup {None}, level: Nat,
                   pre: {writer.pre}]
    /\ reader \in [Readers -> ReaderType]

\* Every level is a chain of the keys on it; only those and the node that is about
\* to be linked lead anywhere.
LinkInv ==
    /\ \A l \in Levels : ChainOK(LinksAt(l), On(l))
    /\ \A n \in Keys, l \in Levels :
          nexts[n][l] \in Keys =>
              n \in On(l) \/ (writer.pc = "publish" /\ n = writer.key /\ l = writer.level)

\* At the levels the writer still has to link, its key goes behind pre.
WriterInv ==
    writer.pc # "idle" =>
        /\ writer.key \in Keys \ stored
        /\ height[writer.key] \in 1..max_height
        /\ writer.level \in 0..(height[writer.key] - 1)
        /\ writer.pre \in [0..(height[writer.key] - 1) -> Nodes]
        /\ \A l \in writer.level..(height[writer.key] - 1) :
              /\ writer.pre[l] \in {Head0} \cup On(l)
              /\ writer.pre[l] < writer.key
              /\ nexts[writer.pre[l]][l] = None \/ nexts[writer.pre[l]][l] > writer.key
        /\ writer.pc = "publish" =>
              nexts[writer.key][writer.level] = nexts[writer.pre[writer.level]][writer.level]

Ascending(s) == \A m, n \in DOMAIN s : m < n => s[m] < s[n]

ReaderOK(s) ==
    /\ s.pc # "undefined"
    /\ s.known \subseteq stored
    /\ Ascending(s.read)
    /\ s.pc \in {"walk", "found"} =>
          /\ s.key \in Keys /\ s.op \in {"get", "seek"} /\ s.read = << >>
          /\ s.node \in {Head0} \cup On(s.level)
          /\ IF s.op = "get" THEN s.node <= s.key ELSE s.node < s.key
    /\ s.pc = "found" => s.op = "seek" /\ s.level = 0
    /\ s.pc = "got" =>
          /\ s.node <= s.key
          /\ s.key \in s.known => s.node = s.key
    /\ s.pc = "at" =>
          /\ s.node \in On(0)
          /\ \A k \in Elements(s.read) : k <= s.node
          /\ \A k \in s.known : k >= s.key => k \in Elements(s.read) \/ k > s.node
    /\ s.pc = "end" => \A k \in s.known : k >= s.key => k \in Elements(s.read)

ReaderInv == \A r \in Readers : ReaderOK(reader[r])

IInv == TypeInv /\ LinkInv /\ WriterInv /\ ReaderInv

\* A key behind all that was read keeps what was read ascending.
LEMMA AppendAscending ==
    ASSUME NEW S \in SUBSET Nat, NEW s \in Seq(S), NEW e \in S, NEW t, t = Append(s, e),
           Ascending(s), \A k \in Elements(s) : k < e
    PROVE  Ascending(t)
<1>1. /\ t \in Seq(S) /\ Len(t) = Len(s) + 1
      /\ \A n \in 1..Len(s) : t[n] = s[n]
      /\ t[Len(s) + 1] = e
    BY AppendProperties
<1>2. Len(s) \in Nat /\ DOMAIN s = 1..Len(s) /\ DOMAIN t = 1..(Len(s) + 1)
    BY <1>1
<1> SUFFICES ASSUME NEW m \in 1..(Len(s) + 1), NEW n \in 1..(Len(s) + 1), m < n
             PROVE  t[m] < t[n]
    BY <1>2 DEF Ascending
<1>3. m \in 1..Len(s) /\ t[m] = s[m]
    BY <1>1, <1>2
<1>4. CASE n = Len(s) + 1
    BY <1>1, <1>2, <1>3, <1>4 DEF Elements
<1>5. CASE n # Len(s) + 1
  <2>1. n \in 1..Len(s) /\ t[n] = s[n]
      BY <1>1, <1>2, <1>5
  <2> QED
      BY <1>2, <1>3, <2>1 DEF Ascending
<1> QED
    BY <1>4, <1>5


----------------------------------------------------------------------------
(* One level *)

\* A key linked between two neighbours extends the chain by that key.
LEMMA ChainInserted ==
    ASSUME NEW S \in SUBSET (Nat \ {0}), NEW f, ChainOK(f, S),
           NEW k \in Nat \ {0}, k \notin S,
           NEW p \in {Head0} \cup S, p < k, f[p] = None \/ f[p] > k,
           NEW g, g[p] = k, g[k] = f[p],
           \A n \in ({Head0} \cup S) \ {p} : g[n] = f[n]
    PROVE  ChainOK(g, S \cup {k})
<1> USE DEF Head0, None
<1>0. /\ \A x \in {Head0} \cup (S \cup {k}) : x \in Nat
      /\ p \in Nat /\ k \in Nat /\ \A x \in S : x # 0 /\ x # k
    OBVIOUS
<1>1. ASSUME NEW n \in {Head0} \cup (S \cup {k})
      PROVE  /\ g[n] \in (S \cup {k}) \cup {None}
             /\ g[n] # None => g[n] > n
  <2>1. CASE n = p
      BY <2>1
  <2>2. CASE n = k
      BY <2>2 DEF ChainOK
  <2>3. CASE n \in ({Head0} \cup S) \ {p}
      BY <2>3 DEF ChainOK
  <2> QED
      BY <2>1, <2>2, <2>3
<1>2. ASSUME NEW n \in {Head0} \cup (S \cup {k}), NEW q \in S \cup {k}, q > n
      PROVE  g[n] # None /\ g[n] <= q
  <2>1. CASE n = p
    <3>1. CASE q = k
        BY <2>1, <3>1
    <3>2. CASE q \in S
      <4>1. f[p] # None /\ f[p] <= q /\ f[p] \in S
          BY <1>2, <2>1, <3>2 DEF ChainOK
      <4>2. f[p] \in Nat /\ q \in Nat /\ f[p] > k
          BY <4>1, <3>2, <1>0, Zenon
      <4>3. k # None /\ k <= q
          BY <4>1, <4>2, <1>0
      <4> QED
          BY <2>1, <4>3
    <3> QED
        BY <3>1, <3>2
  <2>2. CASE n = k
    <3>1. q \in S /\ q > p
        BY <1>2, <2>2
    <3>2. f[p] # None /\ f[p] <= q
        BY <3>1 DEF ChainOK
    <3> QED
        BY <2>2, <3>2
  <2>3. CASE n \in ({Head0} \cup S) \ {p}
    <3>1. CASE q \in S
        BY <1>2, <2>3, <3>1 DEF ChainOK
    <3>2. CASE q = k
      <4>1. n < p
        <5>1. CASE n > p
          <6>1. n \in S
              BY <5>1, <1>0, <2>3
          <6>2. f[p] # None /\ f[p] <= n /\ f[p] \in S
              BY <5>1, <6>1 DEF ChainOK
          <6>3. f[p] \in Nat /\ n \in Nat /\ f[p] > k
              BY <6>1, <6>2, <1>0, Zenon
          <6>4. n < k
              BY <1>2, <3>2, <6>3, <1>0
          <6> QED
              BY <6>2, <6>3, <6>4, <1>0
        <5> QED
            BY <5>1, <2>3, <1>0
      <4>2. p \in S
          BY <4>1
      <4>3. f[n] # None /\ f[n] <= p /\ f[n] \in S
          BY <2>3, <4>1, <4>2 DEF ChainOK
      <4>4. f[n] \in Nat /\ p < k
          BY <4>3, <1>0, Zenon
      <4>5. f[n] <= k
          BY <4>3, <4>4, <1>0
      <4>6. g[n] = f[n]
          BY <2>3
      <4> QED
          BY <4>3, <4>5, <4>6, <3>2
    <3> QED
        BY <3>1, <3>2
  <2> QED
      BY <2>1, <2>2, <2>3
<1>3. ASSUME NEW q \in S \cup {k}
      PROVE  \E n \in {Head0} \cup (S \cup {k}) : g[n] = q
  <2>1. CASE q = k
      BY <2>1
  <2>2. CASE q \in S
    <3>1. PICK n \in {Head0} \cup S : f[n] = q
        BY <2>2 DEF ChainOK
    <3>2. CASE n = p
        BY <3>1, <3>2
    <3>3. CASE n # p
        BY <3>1, <3>3
    <3> QED
        BY <3>2, <3>3
  <2> QED
      BY <2>1, <2>2
<1> QED
    BY <1>1, <1>2, <1>3 DEF ChainOK

\* A key that is not linked has its place behind some linked node.
LEMMA PlaceExists ==
    ASSUME NEW S \in SUBSET (Nat \ {0}), NEW f, ChainOK(f, S), NEW k \in Nat \ {0}
    PROVE  \E n \in {Head0} \cup S :
              /\ n = Head0 \/ \E m \in {Head0} \cup S : f[m] = n
              /\ n < k
              /\ f[n] = None \/ f[n] >= k
<1> USE DEF Head0, None
<1> PICK T : T = {x \in {Head0} \cup S : x < k}
    BY Zenon
<1>1. T \in SUBSET Nat /\ T # {} /\ \A x \in T : x < k
  <2>1. 0 \in T
      OBVIOUS
  <2>2. \A x \in {Head0} \cup S : x \in Nat
      OBVIOUS
  <2> QED
      BY <2>1, <2>2, Zenon
<1>2. PICK n \in T : \A x \in T : x <= n
    BY <1>1, GreatestExists, Zenon
<1>3. n \in {Head0} \cup S /\ n < k
    OBVIOUS
<1>4. n = Head0 \/ \E m \in {Head0} \cup S : f[m] = n
    BY <1>3 DEF ChainOK
<1>5. f[n] = None \/ f[n] >= k
  <2> SUFFICES ASSUME f[n] # None PROVE f[n] >= k
      OBVIOUS
  <2>1. f[n] \in S /\ f[n] > n
      BY <1>3 DEF ChainOK
  <2>2. CASE f[n] < k
    <3>1. f[n] \in T
        BY <2>1, <2>2
    <3> QED
        BY <3>1, <1>1, <1>2, <1>3, <2>1
  <2>3. f[n] \in Nat
      BY <2>1, Zenon
  <2> QED
      BY <2>2, <2>3
<1> QED
    BY <1>3, <1>4, <1>5

----------------------------------------------------------------------------
(* Facts about the keys on a level *)

\* The keys on a level are keys; those on a level are on all below.
LEMMA OnLevels ==
    ASSUME TypeInv, NEW l \in Nat
    PROVE  /\ On(l) \in SUBSET Keys
           /\ On(l + 1) \subseteq On(l)
<1>1. On(l) \in SUBSET Keys
    BY DEF On, TypeInv
<1>2. \A k \in stored : height[k] \in Nat
    BY DEF TypeInv
<1>3. On(l + 1) \subseteq On(l)
    BY <1>2 DEF On, TypeInv
<1> QED
    BY <1>1, <1>3

\* Stored keys are on level 0.
LEMMA StoredOnBottom ==
    ASSUME TypeInv
    PROVE  stored \subseteq On(0)
<1>1. \A k \in stored : height[k] \in 1..max_height /\ max_height \in Nat
    BY DEF TypeInv
<1> QED
    BY <1>1 DEF On

\* FindLessOrEqual finds the place of a key.
LEMMA LastBeforeProperties ==
    ASSUME SkipListAssumption, IInv, writer.pc = "idle", NEW key \in Keys, NEW l \in Levels
    PROVE  /\ LastBefore(key, l) \in {Head0} \cup On(l)
           /\ LastBefore(key, l) < key
           /\ nexts[LastBefore(key, l)][l] = None \/ nexts[LastBefore(key, l)][l] >= key
<1> DEFINE P(n) == /\ Linked(n, l) /\ n < key
                   /\ nexts[n][l] \in Keys => nexts[n][l] >= key
<1>1. l \in Nat /\ On(l) \in SUBSET Keys /\ Keys \subseteq Nat \ {0}
    BY OnLevels DEF IInv, Levels, SkipListAssumption
<1>2. \A n \in Nodes : LinksAt(l)[n] = nexts[n][l]
    BY DEF LinksAt
<1>3. ChainOK(LinksAt(l), On(l))
    BY DEF IInv, LinkInv
<1>4. \E n \in Nodes : P(n)
  <2>1. PICK n \in {Head0} \cup On(l) :
              /\ n = Head0 \/ \E m \in {Head0} \cup On(l) : LinksAt(l)[m] = n
              /\ n < key
              /\ LinksAt(l)[n] = None \/ LinksAt(l)[n] >= key
      BY <1>1, <1>3, PlaceExists
  <2>2. n \in Nodes /\ {Head0} \cup On(l) \subseteq Nodes
      BY <1>1 DEF Nodes
  <2>3. Linked(n, l)
      BY <2>1, <2>2, <1>2 DEF Linked
  <2>4. nexts[n][l] \in Keys => nexts[n][l] >= key
      BY <2>1, <2>2, <1>1, <1>2 DEF None
  <2> QED
      BY <2>1, <2>2, <2>3, <2>4
<1> PICK b : b = LastBefore(key, l)
    OBVIOUS
<1>5. b \in Nodes /\ P(b)
    BY <1>4 DEF LastBefore
<1>6. b \in {Head0} \cup On(l)
  <2> SUFFICES ASSUME b # Head0 PROVE b \in On(l)
      OBVIOUS
  <2>1. b \in Keys
      BY <1>5 DEF Nodes
  <2>2. PICK n \in Nodes : nexts[n][l] = b
      BY <1>5 DEF Linked
  <2>3. n \in {Head0} \cup On(l)
      BY <2>1, <2>2 DEF Nodes, IInv, LinkInv
  <2>4. LinksAt(l)[n] \in On(l) \cup {None}
      BY <2>3, <1>3 DEF ChainOK
  <2> QED
      BY <2>1, <2>2, <2>4, <1>1, <1>2 DEF None
<1>7. nexts[b][l] = None \/ nexts[b][l] >= key
  <2>1. nexts[b][l] \in On(l) \cup {None}
      BY <1>2, <1>3, <1>5, <1>6 DEF ChainOK
  <2> QED
      BY <2>1, <1>1, <1>5
<1> QED
    BY <1>5, <1>6, <1>7

----------------------------------------------------------------------------
(* The initial state *)

LEMMA NewReaderOK ==
    ASSUME SkipListAssumption
    PROVE  NewReader \in ReaderType /\ Ascending(NewReader.read)
<1>1. 0 \in Levels
    BY DEF SkipListAssumption, Levels
<1>2. << >> \in Seq(Keys)
    OBVIOUS
<1> QED
    BY <1>1, <1>2 DEF NewReader, ReaderType, Nodes, Ascending

LEMMA InitIInv ==
    ASSUME SkipListAssumption, Init
    PROVE  IInv
<1> USE DEF Init
<1>1. 1 \in 1..MaxHeight /\ 0 \in 0..MaxHeight
    BY DEF SkipListAssumption
<1>2. TypeInv
  <2>1. nexts \in [Nodes -> [Levels -> Keys \cup {None, Garbage}]]
      OBVIOUS
  <2>2. height \in [Keys -> 0..MaxHeight] /\ max_height \in 1..MaxHeight /\ stored = {}
      BY <1>1
  <2>3. writer \in [pc: {"idle", "prepare", "publish"}, key: Keys \cup {None}, level: Nat, pre: {writer.pre}]
      BY DEF Idle
  <2>4. reader \in [Readers -> ReaderType]
      BY NewReaderOK
  <2> QED
      BY <2>1, <2>2, <2>3, <2>4 DEF TypeInv
<1>3. \A l \in Levels : On(l) = {}
    BY DEF On, Idle
<1>4. ASSUME NEW l \in Levels PROVE ChainOK(LinksAt(l), On(l))
  <2>1. LinksAt(l)[Head0] = None
      BY DEF LinksAt, Nodes
  <2> QED
      BY <1>3, <2>1 DEF ChainOK
<1>5. \A n \in Keys, l \in Levels : nexts[n][l] \notin Keys
  <2> TAKE n \in Keys, l \in Levels
  <2>1. n # Head0 /\ Garbage \notin Keys
      BY DEF SkipListAssumption, Head0, Garbage
  <2>2. nexts[n][l] = Garbage
      BY <2>1 DEF Nodes
  <2> QED
      BY <2>1, <2>2
<1>6. LinkInv
    BY <1>4, <1>5, Zenon DEF LinkInv
<1>7. WriterInv
    BY DEF WriterInv, Idle
<1>8. ReaderInv
  <2> SUFFICES ASSUME NEW r \in Readers PROVE ReaderOK(NewReader)
      BY DEF ReaderInv
  <2>1. NewReader.pc = "idle" /\ NewReader.known = {}
      BY DEF NewReader
  <2> QED
      BY <2>1, NewReaderOK DEF ReaderOK
<1> QED
    BY <1>2, <1>6, <1>7, <1>8 DEF IInv

----------------------------------------------------------------------------
(* What keeps the readers going *)

\* Readers are not disturbed by levels that gain keys.
LEMMA ReadersKept ==
    ASSUME ReaderInv, TypeInv, UNCHANGED reader, stored \subseteq stored',
           \A l \in Nat : On(l) \subseteq On(l)'
    PROVE  ReaderInv'
<1> SUFFICES ASSUME NEW r \in Readers PROVE ReaderOK(reader[r])'
    BY DEF ReaderInv
<1> PICK s : s = reader[r]
    OBVIOUS
<1>1. ReaderOK(s) /\ s \in ReaderType
    BY DEF ReaderInv, TypeInv
<1>2. s.level \in Nat /\ 0 \in Nat
    BY <1>1 DEF ReaderType, Levels
<1>3. On(s.level) \subseteq On(s.level)' /\ On(0) \subseteq On(0)'
    BY <1>2
<1>4. reader[r]' = s
    OBVIOUS
<1>5. ReaderOK(s)'
    BY <1>1, <1>3 DEF ReaderOK
<1> QED
    BY <1>4, <1>5

\* A step of a reader, which writes nothing
LEMMA ReaderStep ==
    ASSUME IInv, NEW r \in Readers, NEW s \in ReaderType, ReaderOK(s), Moves(r, s)
    PROVE  IInv'
<1>1. /\ UNCHANGED <<nexts, height, max_height, stored, writer>>
      /\ reader' = [reader EXCEPT ![r] = s]
    BY DEF Moves, writing
<1>2. TypeInv'
    BY <1>1 DEF IInv, TypeInv
<1>3. \A l : On(l)' = On(l)
    BY <1>1 DEF On
<1>4. \A l : LinksAt(l)' = LinksAt(l)
    BY <1>1 DEF LinksAt
<1>5. LinkInv'
    BY <1>1, <1>3, <1>4 DEF IInv, LinkInv
<1>6. WriterInv'
    BY <1>1, <1>3 DEF IInv, WriterInv
<1>7. ReaderInv'
  <2> SUFFICES ASSUME NEW q \in Readers PROVE ReaderOK(reader[q])'
      BY DEF ReaderInv
  <2> PICK t : t = reader'[q]
      OBVIOUS
  <2>1. ReaderOK(t)
      BY <1>1 DEF IInv, ReaderInv, TypeInv
  <2>2. ReaderOK(t)'
      BY <2>1, <1>1, <1>3 DEF ReaderOK
  <2> QED
      BY <2>2
<1> QED
    BY <1>2, <1>5, <1>6, <1>7 DEF IInv

\* What a link of a node on a level leads to
LEMMA LinkProperties ==
    ASSUME IInv, SkipListAssumption, NEW l \in Levels, NEW n \in {Head0} \cup On(l)
    PROVE  /\ n \in Nodes /\ n \in Nat
           /\ nexts[n][l] = None \/ (nexts[n][l] \in On(l) /\ nexts[n][l] \in Keys /\ nexts[n][l] > n)
           /\ \A k \in On(l) : k > n => nexts[n][l] # None /\ nexts[n][l] <= k
<1>1. l \in Nat /\ On(l) \in SUBSET Keys /\ Keys \subseteq Nat \ {0}
    BY OnLevels DEF IInv, Levels, SkipListAssumption
<1>2. n \in Nodes /\ LinksAt(l)[n] = nexts[n][l]
    BY <1>1 DEF LinksAt, Nodes
<1>3. ChainOK(LinksAt(l), On(l))
    BY DEF IInv, LinkInv
<1>4. /\ LinksAt(l)[n] \in On(l) \cup {None}
      /\ LinksAt(l)[n] # None => LinksAt(l)[n] > n
      /\ \A k \in On(l) : k > n => LinksAt(l)[n] # None /\ LinksAt(l)[n] <= k
    BY <1>3 DEF ChainOK
<1>5. n \in Nat
    BY <1>1 DEF Head0
<1> QED
    BY <1>1, <1>2, <1>4, <1>5

----------------------------------------------------------------------------
(* Steps of a reader *)

LEMMA BeginWalkStep ==
    ASSUME SkipListAssumption, IInv, NEW r \in Readers, NEW op \in {"get", "seek"}, NEW key \in Keys,
           BeginWalk(r, op, key)
    PROVE  IInv'
<1>1. PICK h \in 1..max_height :
          Moves(r, [NewReader EXCEPT !.pc = "walk", !.op = op, !.key = key, !.level = h - 1,
                                     !.known = stored])
    BY Zenon DEF BeginWalk
<1> PICK s : s = [NewReader EXCEPT !.pc = "walk", !.op = op, !.key = key, !.level = h - 1,
                                   !.known = stored]
    OBVIOUS
<1>2. h - 1 \in Levels
    BY DEF IInv, TypeInv, Levels, SkipListAssumption
<1>3. /\ s.pc = "walk" /\ s.op = op /\ s.key = key /\ s.level = h - 1 /\ s.known = stored
      /\ s.node = Head0 /\ s.read = << >>
    BY DEF NewReader
<1>4. s \in ReaderType
    BY <1>2, NewReaderOK, Zenon DEF ReaderType, IInv, TypeInv
<1>5. Head0 < key /\ Head0 <= key
    BY DEF SkipListAssumption, Head0
<1>6. ReaderOK(s)
    BY <1>3, <1>5 DEF ReaderOK, Ascending
<1> QED
    BY <1>1, <1>4, <1>6, ReaderStep

LEMMA WalkOnStep ==
    ASSUME SkipListAssumption, IInv, NEW r \in Readers, WalkOn(r)
    PROVE  IInv'
<1> PICK t : t = reader[r]
    OBVIOUS
<1> PICK next : next = nexts[t.node][t.level]
    OBVIOUS
<1>1. t \in ReaderType /\ ReaderOK(t)
    BY DEF IInv, TypeInv, ReaderInv
<1>2. t.pc = "walk"
    BY DEF WalkOn
<1>3. /\ t.key \in Keys /\ t.op \in {"get", "seek"} /\ t.read = << >> /\ t.known \subseteq stored
      /\ t.node \in {Head0} \cup On(t.level) /\ t.level \in Levels
      /\ IF t.op = "get" THEN t.node <= t.key ELSE t.node < t.key
    BY <1>1, <1>2 DEF ReaderOK, ReaderType
<1>4. /\ t.node \in Nodes /\ t.node \in Nat
      /\ next = None \/ (next \in On(t.level) /\ next \in Keys /\ next > t.node)
      /\ \A k \in On(t.level) : k > t.node => next # None /\ next <= k
    BY <1>3, LinkProperties
<1>5. Keys \subseteq Nat \ {0} /\ t.key \in Nat /\ t.level \in Nat
  <2>1. MaxHeight \in Nat /\ t.level \in 0..(MaxHeight - 1)
      BY <1>3 DEF SkipListAssumption, Levels
  <2>2. Keys \subseteq Nat \ {0}
      BY DEF SkipListAssumption
  <2>3. t.key \in Keys
      BY <1>3
  <2>4. t.level \in Nat
      BY <2>1
  <2> QED
      BY <2>2, <2>3, <2>4, Zenon
<1>6. next # Garbage
  <2>1. next = None \/ next \in Nat
      BY <1>4, <1>5, Zenon
  <2> QED
      BY <2>1 DEF Garbage, None
<1>7. CASE next # None /\ Passes(r, next)
  <2> PICK s : s = [t EXCEPT !.node = next]
      BY Zenon
  <2>1. Moves(r, s)
      BY <1>6, <1>7 DEF WalkOn
  <2>2. /\ s \in ReaderType /\ s.node = next /\ s.pc = "walk" /\ s.op = t.op /\ s.key = t.key
        /\ s.read = t.read /\ s.known = t.known /\ s.level = t.level
      BY <1>1, <1>2, <1>4, <1>7, Zenon DEF ReaderType, Nodes
  <2>3. IF t.op = "get" THEN next <= t.key ELSE next < t.key
      BY <1>7 DEF Passes
  <2>4. s.node \in {Head0} \cup On(s.level) /\ (IF s.op = "get" THEN s.node <= s.key ELSE s.node < s.key)
      BY <2>2, <2>3, <1>4, <1>7, Zenon
  <2>5. Ascending(s.read)
      BY <2>2, <1>1 DEF ReaderOK
  <2>6. ReaderOK(s)
      BY <2>2, <2>4, <2>5, <1>3, Zenon DEF ReaderOK
  <2> QED
      BY <2>1, <2>2, <2>6, ReaderStep
<1>8. CASE ~(next # None /\ Passes(r, next)) /\ t.level > 0
  <2> PICK s : s = [t EXCEPT !.level = @ - 1]
      BY Zenon
  <2>1. Moves(r, s)
      BY <1>6, <1>8 DEF WalkOn
  <2>2. t.level - 1 \in Levels /\ t.level - 1 \in Nat /\ (t.level - 1) + 1 = t.level
    <3>1. MaxHeight \in Nat /\ t.level \in 0..(MaxHeight - 1)
        BY <1>3 DEF SkipListAssumption, Levels
    <3> QED
        BY <3>1, <1>8 DEF Levels
  <2>3. /\ s \in ReaderType /\ s.node = t.node /\ s.pc = "walk" /\ s.op = t.op /\ s.key = t.key
        /\ s.read = t.read /\ s.known = t.known /\ s.level = t.level - 1
      BY <1>1, <1>2, <2>2 DEF ReaderType
  <2>4. On(t.level) \subseteq On(t.level - 1)
    <3>1. On((t.level - 1) + 1) \subseteq On(t.level - 1)
        BY <2>2, OnLevels DEF IInv
    <3> QED
        BY <2>2, <3>1
  <2>5. ReaderOK(s)
      BY <2>3, <2>4, <1>3 DEF ReaderOK, Ascending
  <2> QED
      BY <2>1, <2>3, <2>5, ReaderStep
<1>9. CASE ~(next # None /\ Passes(r, next)) /\ ~(t.level > 0)
  <2> PICK s : s = Arrived(r)
      OBVIOUS
  <2>1. Moves(r, s)
      BY <1>6, <1>9 DEF WalkOn
  <2>2. t.level = 0
      BY <1>5, <1>9
  <2>3. CASE t.op = "get"
    <3>1. /\ s \in ReaderType /\ s.node = t.node /\ s.pc = "got" /\ s.key = t.key
          /\ s.read = t.read /\ s.known = t.known
        BY <1>1, <2>3 DEF ReaderType, Arrived
    <3>2. ASSUME t.key \in t.known PROVE t.node = t.key
      <4>1. t.key \in On(0)
          BY <3>2, <1>3, StoredOnBottom DEF IInv
      <4>2. next = None \/ next > t.key
        <5>1. next = None \/ ~(next <= t.key)
            BY <1>9, <2>3 DEF Passes
        <5>2. next = None \/ next \in Nat
            BY <1>4, <1>5, Zenon
        <5> QED
            BY <5>1, <5>2, <1>5
      <4>3. ~(t.key > t.node)
        <5>1. t.key > t.node => next # None /\ next <= t.key
            BY <4>1, <2>2, <1>4
        <5>2. next # None => next \in Nat
            BY <1>4, <1>5, Zenon
        <5> QED
            BY <5>1, <5>2, <4>2, <1>5
      <4> QED
          BY <4>3, <2>3, <1>3, <1>4, <1>5
    <3>3. ReaderOK(s)
        BY <3>1, <3>2, <1>3, <2>3 DEF ReaderOK, Ascending
    <3> QED
        BY <2>1, <3>1, <3>3, ReaderStep
  <2>4. CASE t.op = "seek"
    <3>1. /\ s \in ReaderType /\ s.node = t.node /\ s.pc = "found" /\ s.key = t.key /\ s.op = t.op
          /\ s.read = t.read /\ s.known = t.known /\ s.level = t.level
        BY <1>1, <2>4 DEF ReaderType, Arrived
    <3>2. ReaderOK(s)
        BY <3>1, <1>3, <2>2, <2>4 DEF ReaderOK, Ascending
    <3> QED
        BY <2>1, <3>1, <3>2, ReaderStep
  <2> QED
      BY <2>3, <2>4, <1>3
<1> QED
    BY <1>7, <1>8, <1>9

\* The step along level 0, from a state whose node is before all that is left
LEMMA StepToStep ==
    ASSUME SkipListAssumption, IInv, NEW r \in Readers, NEW t \in ReaderType, StepTo(r, t),
           t.known \subseteq stored, Ascending(t.read), t.node \in {Head0} \cup On(0),
           \A k \in Elements(t.read) : k <= t.node,
           \A k \in t.known : k >= t.key => k \in Elements(t.read) \/ k > t.node
    PROVE  IInv'
<1> PICK next : next = nexts[t.node][0]
    OBVIOUS
<1>1. 0 \in Levels /\ 0 \in Nat /\ Keys \subseteq Nat \ {0}
    BY DEF SkipListAssumption, Levels
<1>2. /\ t.node \in Nodes /\ t.node \in Nat
      /\ next = None \/ (next \in On(0) /\ next \in Keys /\ next > t.node)
      /\ \A k \in On(0) : k > t.node => next # None /\ next <= k
    BY <1>1, LinkProperties
<1>3. next # Garbage
    BY <1>1, <1>2 DEF Garbage, None
<1>4. t.read \in Seq(Keys) /\ t.known \subseteq On(0)
    BY StoredOnBottom DEF ReaderType, IInv
<1>5. CASE next = None
  <2> PICK s : s = [t EXCEPT !.pc = "end"]
      BY Zenon
  <2>1. Moves(r, s)
      BY <1>3, <1>5 DEF StepTo
  <2>2. s \in ReaderType /\ s.pc = "end" /\ s.key = t.key /\ s.read = t.read /\ s.known = t.known
      BY DEF ReaderType
  <2>3. ReaderOK(s)
      BY <2>2, <1>2, <1>4, <1>5 DEF ReaderOK
  <2> QED
      BY <2>1, <2>2, <2>3, ReaderStep
<1>6. CASE next # None
  <2> PICK read : read = Append(t.read, next)
      BY Zenon
  <2> PICK s : s = [t EXCEPT !.pc = "at", !.node = next, !.read = read]
      OBVIOUS
  <2>1. Moves(r, s)
      BY <1>3, <1>6 DEF StepTo
  <2>2. read \in Seq(Keys) /\ Elements(read) = Elements(t.read) \cup {next}
    <3>1. next \in Keys
        BY <1>2, <1>6
    <3>2. t.read \in Seq(Keys)
        BY <1>4
    <3>3. read \in Seq(Keys)
        BY <3>1, <3>2
    <3>4. Elements(read) = Elements(t.read) \cup {next}
        BY <3>1, <3>2, AppendElements
    <3> QED
        BY <3>3, <3>4
  <2>3. s \in ReaderType /\ s.pc = "at" /\ s.node = next /\ s.key = t.key /\ s.read = read /\ s.known = t.known
      BY <2>2, <1>2, <1>6, Zenon DEF ReaderType, Nodes
  <2>4. \A k \in Elements(t.read) : k \in Nat /\ k < next
    <3>1. \A k \in Elements(t.read) : k \in Keys
        BY <1>4 DEF Elements
    <3> QED
        BY <3>1, <1>1, <1>2, <1>6
  <2>5. Ascending(read)
    <3>1. Keys \in SUBSET Nat
        BY <1>1
    <3> QED
        BY <3>1, <2>4, <1>2, <1>4, <1>6, AppendAscending, Zenon
  <2>6. \A k \in Elements(read) : k <= next
      BY <2>2, <2>4, <1>1, <1>2, <1>6
  <2>7. ASSUME NEW k \in t.known, k >= t.key PROVE k \in Elements(read) \/ k > next
    <3>1. CASE k > t.node
      <4>1. next <= k /\ k \in Nat /\ next \in Nat
        <5>1. k \in On(0) /\ k \in Keys
            BY <1>4 DEF ReaderType
        <5> QED
            BY <5>1, <3>1, <1>1, <1>2, <1>6
      <4> QED
          BY <4>1, <2>2
    <3>2. CASE k \in Elements(t.read)
        BY <3>2, <2>2
    <3> QED
        BY <3>1, <3>2, <2>7
  <2>8. ReaderOK(s)
      BY <2>3, <2>5, <2>6, <2>7, <1>2, <1>6 DEF ReaderOK
  <2> QED
      BY <2>1, <2>3, <2>8, ReaderStep
<1> QED
    BY <1>5, <1>6

LEMMA IterateSteps ==
    ASSUME SkipListAssumption, IInv, NEW r \in Readers,
           SeekToFirst(r) \/ NextAfterSeek(r) \/ NextKey(r)
    PROVE  IInv'
<1>1. CASE SeekToFirst(r)
  <2> PICK t : t = [NewReader EXCEPT !.op = "scan", !.known = stored]
      OBVIOUS
  <2>1. StepTo(r, t)
      BY <1>1 DEF SeekToFirst
  <2>2. t \in ReaderType
      BY NewReaderOK, Zenon DEF ReaderType, IInv, TypeInv
  <2>3. t.known = stored /\ t.read = << >> /\ t.node = Head0 /\ t.key = None
      BY DEF NewReader
  <2>4. Elements(t.read) = {} /\ Ascending(t.read)
      BY <2>3 DEF Elements, Ascending
  <2>5. \A k \in t.known : k > t.node
      BY <2>3 DEF IInv, TypeInv, SkipListAssumption, Head0
  <2> QED
      BY <2>1, <2>2, <2>3, <2>4, <2>5, StepToStep, Zenon
<1> PICK t : t = reader[r]
    OBVIOUS
<1>2. t \in ReaderType /\ ReaderOK(t)
    BY DEF IInv, TypeInv, ReaderInv
<1>3. CASE NextAfterSeek(r)
  <2>1. StepTo(r, t) /\ t.pc = "found"
      BY <1>3 DEF NextAfterSeek
  <2>2. /\ t.known \subseteq stored /\ Ascending(t.read) /\ t.read = << >> /\ t.key \in Keys
        /\ t.op = "seek" /\ t.level = 0
        /\ t.node \in {Head0} \cup On(t.level)
        /\ IF t.op = "get" THEN t.node <= t.key ELSE t.node < t.key
      BY <1>2, <2>1 DEF ReaderOK
  <2>3. Elements(t.read) = {}
      BY <2>2 DEF Elements
  <2>4. \A k \in t.known : k >= t.key => k > t.node
    <3> PICK n : n = t.node
        OBVIOUS
    <3> PICK key : key = t.key
        OBVIOUS
    <3>1. n \in Nodes /\ n < key /\ key \in Keys /\ t.known \subseteq Keys
        BY <1>2, <2>2 DEF ReaderType
    <3>2. Keys \subseteq Nat
        BY DEF SkipListAssumption
    <3>3. n \in Nat /\ key \in Nat
        BY <3>1, <3>2 DEF Nodes, Head0
    <3>4. \A k \in Nat : k >= key => k > n
        BY <3>1, <3>3
    <3> QED
        BY <3>1, <3>2, <3>4
  <2> QED
      BY <1>2, <2>1, <2>2, <2>3, <2>4, StepToStep
<1>4. CASE NextKey(r)
  <2>1. StepTo(r, t) /\ t.pc = "at"
      BY <1>4 DEF NextKey
  <2>2. /\ t.known \subseteq stored /\ Ascending(t.read) /\ t.node \in On(0)
        /\ \A k \in Elements(t.read) : k <= t.node
        /\ \A k \in t.known : k >= t.key => k \in Elements(t.read) \/ k > t.node
      BY <1>2, <2>1 DEF ReaderOK
  <2> QED
      BY <1>2, <2>1, <2>2, StepToStep
<1> QED
    BY <1>1, <1>3, <1>4

LEMMA CloseStep ==
    ASSUME SkipListAssumption, IInv, NEW r \in Readers, Close(r)
    PROVE  IInv'
<1>1. Moves(r, NewReader)
    BY DEF Close
<1>2. NewReader.pc = "idle" /\ NewReader.known = {}
    BY DEF NewReader
<1>3. ReaderOK(NewReader)
    BY <1>2, NewReaderOK DEF ReaderOK
<1> QED
    BY <1>1, <1>3, NewReaderOK, ReaderStep

----------------------------------------------------------------------------
(* Steps of the writer *)

LEMMA BeginInsertStep ==
    ASSUME SkipListAssumption, IInv, NEW key \in Keys, NEW h \in 1..MaxHeight, BeginInsert(key, h)
    PROVE  IInv'
<1> PICK pre : pre = [l \in 0..(h - 1) |-> IF l < max_height THEN LastBefore(key, l) ELSE Head0]
    BY Zenon
<1> PICK w : w = [pc |-> "prepare", key |-> key, level |-> 0, pre |-> pre]
    BY Zenon
<1>1. /\ writer.pc = "idle" /\ key \notin stored /\ writer' = w
      /\ max_height' = (IF h > max_height THEN h ELSE max_height)
      /\ height' = [height EXCEPT ![key] = h]
      /\ UNCHANGED <<nexts, stored, reader>>
    BY DEF BeginInsert
<1>2. /\ MaxHeight \in Nat /\ Keys \subseteq Nat \ {0} /\ h \in Nat /\ h \in 1..MaxHeight
      /\ max_height \in 1..MaxHeight
      /\ 0..(h - 1) \subseteq Levels
    BY DEF SkipListAssumption, IInv, TypeInv, Levels
<1>3. /\ max_height' \in 1..MaxHeight /\ h <= max_height' /\ max_height <= max_height' /\ h \in 1..max_height'
    BY <1>1, <1>2
<1>4. /\ height' \in [Keys -> 0..MaxHeight] /\ height'[key] = h
      /\ \A k \in Keys \ {key} : height'[k] = height[k]
    BY <1>1, <1>2 DEF IInv, TypeInv
<1>5. w.pc = "prepare" /\ w.key = key /\ w.level = 0 /\ w.pre = pre
    OBVIOUS
<1>6. TypeInv'
  <2>1. ASSUME NEW k \in stored PROVE height'[k] \in 1..max_height'
    <3>1. k \in Keys \ {key} /\ height[k] \in 1..max_height
        BY <1>1 DEF IInv, TypeInv
    <3> QED
        BY <3>1, <1>2, <1>3, <1>4
  <2>2. writer' \in [pc: {"idle", "prepare", "publish"}, key: Keys \cup {None}, level: Nat, pre: {writer'.pre}]
      BY <1>1, <1>5
  <2>3. nexts' \in [Nodes -> [Levels -> Keys \cup {None, Garbage}]]
      BY <1>1 DEF IInv, TypeInv
  <2>4. stored' \subseteq Keys /\ reader' \in [Readers -> ReaderType]
      BY <1>1 DEF IInv, TypeInv
  <2> QED
      BY <1>1, <1>3, <1>4, <2>1, <2>2, <2>3, <2>4 DEF TypeInv
<1>7. ASSUME NEW l \in Nat PROVE On(l)' = On(l)
  <2>1. On(l) = {k \in stored : l < height[k]}
      BY <1>1 DEF On
  <2>2. On(l)' = {k \in stored : l < height'[k]}
      BY <1>1, <1>5 DEF On
  <2>3. \A k \in stored : height'[k] = height[k]
      BY <1>1, <1>4 DEF IInv, TypeInv
  <2> QED
      BY <2>1, <2>2, <2>3
<1>8. \A l \in Levels : l \in Nat
    BY <1>2 DEF Levels
<1>9. LinkInv'
  <2>1. \A l \in Levels : LinksAt(l)' = LinksAt(l)
      BY <1>1 DEF LinksAt
  <2>2. \A l \in Levels : ChainOK(LinksAt(l), On(l))'
    <3> TAKE l \in Levels
    <3>1. ChainOK(LinksAt(l), On(l)) /\ On(l)' = On(l) /\ LinksAt(l)' = LinksAt(l)
        BY <1>7, <1>8, <2>1 DEF IInv, LinkInv
    <3> QED
        BY <3>1 DEF ChainOK
  <2>3. \A n \in Keys, l \in Levels : nexts[n][l] \in Keys => n \in On(l)'
      BY <1>1, <1>7, <1>8 DEF IInv, LinkInv
  <2> QED
      BY <1>1, <2>2, <2>3 DEF LinkInv
<1>10. WriterInv'
  <2>1. pre \in [0..(h - 1) -> Nodes]
    <3>1. ASSUME NEW l \in 0..(h - 1), l < max_height PROVE LastBefore(key, l) \in Nodes
      <4>1. LastBefore(key, l) \in {Head0} \cup On(l) /\ On(l) \in SUBSET Keys
          BY <1>1, <1>2, <1>8, LastBeforeProperties, OnLevels DEF IInv
      <4> QED
          BY <4>1 DEF Nodes
    <3> QED
        BY <3>1 DEF Nodes
  <2>2. ASSUME NEW l \in 0..(h - 1)
        PROVE  /\ pre[l] \in {Head0} \cup On(l)'
               /\ pre[l] < key
               /\ nexts[pre[l]][l] = None \/ nexts[pre[l]][l] > key
    <3>1. l \in Levels /\ l \in Nat /\ On(l)' = On(l)
        BY <1>2, <1>7, <1>8
    <3>2. CASE l < max_height
      <4> PICK b : b = LastBefore(key, l)
          OBVIOUS
      <4>1. pre[l] = b
          BY <3>2
      <4>2. b \in {Head0} \cup On(l) /\ b < key /\ (nexts[b][l] = None \/ nexts[b][l] >= key)
          BY <1>1, <3>1, LastBeforeProperties
      <4>3. nexts[b][l] = None \/ (nexts[b][l] \in On(l) /\ nexts[b][l] \in Keys)
          BY <3>1, <4>2, LinkProperties
      <4>4. key \notin On(l)
          BY <1>1 DEF On
      <4>5. nexts[b][l] = None \/ nexts[b][l] > key
          BY <4>2, <4>3, <4>4, <1>2
      <4> QED
          BY <3>1, <4>1, <4>2, <4>5
    <3>3. CASE ~(l < max_height)
      <4>1. pre[l] = Head0
          BY <3>3
      <4>2. Head0 < key
          BY <1>2 DEF Head0
      <4>3. On(l) = {}
        <5>1. \A k \in stored : height[k] \in 1..max_height
            BY DEF IInv, TypeInv
        <5> QED
            BY <5>1, <1>1, <1>2, <3>1, <3>3 DEF On
      <4>4. nexts[Head0][l] = None
          BY <3>1, <4>3, LinkProperties
      <4> QED
          BY <4>1, <4>2, <4>4
    <3> QED
        BY <3>2, <3>3
  <2>3. w.level \in 0..(h - 1) /\ \A l \in w.level..(h - 1) : l \in 0..(h - 1)
      BY <1>2, <1>5
  <2> QED
      BY <1>1, <1>3, <1>4, <1>5, <2>1, <2>2, <2>3 DEF WriterInv
<1>11. ReaderInv'
    BY <1>1, <1>7, ReadersKept DEF IInv
<1> QED
    BY <1>6, <1>9, <1>10, <1>11 DEF IInv

LEMMA PrepareStep ==
    ASSUME SkipListAssumption, IInv, Prepare
    PROVE  IInv'
<1> PICK k : k = writer.key
    OBVIOUS
<1> PICK i : i = writer.level
    OBVIOUS
<1> PICK p : p = writer.pre[i]
    OBVIOUS
<1>1. /\ writer.pc = "prepare"
      /\ nexts' = [nexts EXCEPT ![k][i] = nexts[p][i]]
      /\ writer' = [writer EXCEPT !.pc = "publish"]
      /\ UNCHANGED <<height, max_height, stored, reader>>
    BY DEF Prepare
<1>2. /\ k \in Keys \ stored /\ height[k] \in 1..max_height /\ i \in 0..(height[k] - 1)
      /\ writer.pre \in [0..(height[k] - 1) -> Nodes]
      /\ \A l \in i..(height[k] - 1) :
            /\ writer.pre[l] \in {Head0} \cup On(l)
            /\ writer.pre[l] < k
            /\ nexts[writer.pre[l]][l] = None \/ nexts[writer.pre[l]][l] > k
    BY <1>1 DEF IInv, WriterInv
<1>3. /\ i \in Levels /\ i \in Nat /\ max_height \in 1..MaxHeight /\ MaxHeight \in Nat
      /\ i \in i..(height[k] - 1)
    BY <1>2 DEF IInv, TypeInv, Levels, SkipListAssumption
<1>4. p \in {Head0} \cup On(i) /\ p < k
    BY <1>2, <1>3
<1>5. k \in Nodes /\ k # Head0
    BY <1>2 DEF Nodes, SkipListAssumption, Head0
<1>6. nexts \in [Nodes -> [Levels -> Keys \cup {None, Garbage}]]
    BY DEF IInv, TypeInv
<1>7. p \in Nodes /\ p # k
  <2>1. k \in Nat /\ p < k
      BY <1>2, <1>4, Zenon DEF SkipListAssumption
  <2> QED
      BY <2>1, <1>2, <1>3
<1>8. /\ nexts' \in [Nodes -> [Levels -> Keys \cup {None, Garbage}]]
      /\ nexts'[k][i] = nexts[p][i]
      /\ \A n \in Nodes, l \in Levels : n # k \/ l # i => nexts'[n][l] = nexts[n][l]
    BY <1>1, <1>3, <1>5, <1>6, <1>7
<1>9. writer'.pc = "publish" /\ writer'.key = k /\ writer'.level = i /\ writer'.pre = writer.pre
    BY <1>1 DEF IInv, TypeInv
<1>10. TypeInv'
  <2>1. writer' \in [pc: {"idle", "prepare", "publish"}, key: Keys \cup {None}, level: Nat, pre: {writer'.pre}]
      BY <1>1, <1>9 DEF IInv, TypeInv
  <2> QED
      BY <1>1, <1>8, <2>1 DEF IInv, TypeInv
<1>11. \A l \in Nat : On(l)' = On(l)
    BY <1>1, <1>9 DEF On
<1>12. \A l \in Levels : l \in Nat /\ On(l) \in SUBSET Keys
    BY OnLevels DEF IInv, Levels, SkipListAssumption
<1>13. \A l \in Levels : l >= i => k \notin On(l)
    BY <1>2, <1>12, <1>3 DEF On
<1>14. \A l \in Levels, n \in Nodes : n \in {Head0} \cup On(l) => nexts'[n][l] = nexts[n][l]
    BY <1>3, <1>5, <1>8, <1>13
<1>15. LinkInv'
  <2>1. ASSUME NEW l \in Levels PROVE ChainOK(LinksAt(l), On(l))'
    <3>1. ChainOK(LinksAt(l), On(l)) /\ On(l)' = On(l)
        BY <1>11, <1>12 DEF IInv, LinkInv
    <3>2. {Head0} \cup On(l) \subseteq Nodes
        BY <1>12 DEF Nodes
    <3>3. \A n \in {Head0} \cup On(l) : LinksAt(l)'[n] = LinksAt(l)[n]
        BY <3>2, <1>14 DEF LinksAt
    <3> QED
        BY <3>1, <3>3 DEF ChainOK
  <2>2. ASSUME NEW n \in Keys, NEW l \in Levels, nexts'[n][l] \in Keys
        PROVE  n \in On(l)' \/ (writer'.pc = "publish" /\ n = writer'.key /\ l = writer'.level)
    <3>1. n \in Nodes
        BY DEF Nodes
    <3>2. CASE n = k /\ l = i
        BY <3>2, <1>9
    <3>3. CASE n # k \/ l # i
      <4>1. nexts[n][l] \in Keys
          BY <2>2, <3>1, <3>3, <1>8
      <4>2. n \in On(l)
          BY <4>1, <1>1 DEF IInv, LinkInv
      <4> QED
          BY <4>2, <1>11, <1>12
    <3> QED
        BY <3>2, <3>3
  <2> QED
      BY <2>1, <2>2 DEF LinkInv
<1>16. WriterInv'
  <2>1. ASSUME NEW l \in i..(height[k] - 1)
        PROVE  /\ writer.pre[l] \in {Head0} \cup On(l)'
               /\ writer.pre[l] < k
               /\ nexts'[writer.pre[l]][l] = None \/ nexts'[writer.pre[l]][l] > k
    <3>1. l \in Levels /\ l \in 0..(height[k] - 1)
        BY <1>2, <1>3 DEF Levels
    <3>2. writer.pre[l] \in Nodes
        BY <3>1, <1>2
    <3>3. nexts'[writer.pre[l]][l] = nexts[writer.pre[l]][l]
        BY <3>1, <3>2, <1>2, <1>14
    <3> QED
        BY <3>1, <3>3, <1>2, <1>11, <1>12
  <2>2. nexts'[k][i] = nexts'[p][i]
      BY <1>3, <1>7, <1>8
  <2> QED
      BY <1>1, <1>2, <1>9, <2>1, <2>2, Zenon DEF WriterInv
<1>17. ReaderInv'
    BY <1>1, <1>11, ReadersKept DEF IInv
<1> QED
    BY <1>10, <1>15, <1>16, <1>17 DEF IInv

LEMMA PublishStep ==
    ASSUME SkipListAssumption, IInv, Publish
    PROVE  IInv'
<1> PICK k : k = writer.key
    OBVIOUS
<1> PICK i : i = writer.level
    OBVIOUS
<1> PICK p : p = writer.pre[i]
    OBVIOUS
<1> PICK last \in BOOLEAN : last = (i = height[k] - 1)
    BY Zenon
<1>1. /\ writer.pc = "publish"
      /\ nexts' = [nexts EXCEPT ![p][i] = k]
      /\ stored' = (IF last THEN stored \cup {k} ELSE stored)
      /\ writer' = (IF last THEN Idle ELSE [writer EXCEPT !.pc = "prepare", !.level = i + 1])
      /\ UNCHANGED <<height, max_height, reader>>
    BY Zenon DEF Publish
<1>2. /\ k \in Keys \ stored /\ height[k] \in 1..max_height /\ i \in 0..(height[k] - 1)
      /\ writer.pre \in [0..(height[k] - 1) -> Nodes]
      /\ \A l \in i..(height[k] - 1) :
            /\ writer.pre[l] \in {Head0} \cup On(l)
            /\ writer.pre[l] < k
            /\ nexts[writer.pre[l]][l] = None \/ nexts[writer.pre[l]][l] > k
      /\ nexts[k][i] = nexts[p][i]
    BY <1>1 DEF IInv, WriterInv
<1>3. /\ i \in Levels /\ i \in Nat /\ max_height \in 1..MaxHeight /\ MaxHeight \in Nat
      /\ i \in i..(height[k] - 1) /\ height[k] \in Nat
    BY <1>2 DEF IInv, TypeInv, Levels, SkipListAssumption
<1>4. p \in {Head0} \cup On(i) /\ p < k /\ (nexts[p][i] = None \/ nexts[p][i] > k)
    BY <1>2, <1>3
<1>5. k \in Nodes /\ k # Head0 /\ Keys \subseteq Nat \ {0} /\ k \in Nat \ {0}
    BY <1>2, Zenon DEF Nodes, SkipListAssumption, Head0
<1>6. p \in Nodes /\ p # k
    BY <1>2, <1>3, <1>4, <1>5
<1>7. /\ nexts' \in [Nodes -> [Levels -> Keys \cup {None, Garbage}]]
      /\ nexts'[p][i] = k
      /\ \A n \in Nodes, l \in Levels : n # p \/ l # i => nexts'[n][l] = nexts[n][l]
  <2>1. nexts \in [Nodes -> [Levels -> Keys \cup {None, Garbage}]]
      BY DEF IInv, TypeInv
  <2> QED
      BY <2>1, <1>1, <1>2, <1>3, <1>6, Zenon
<1>8. \A l \in Levels : l \in Nat /\ On(l) \in SUBSET Keys
    BY OnLevels DEF IInv, Levels, SkipListAssumption
<1>9. ASSUME NEW l \in Nat PROVE On(l)' = On(l) \cup (IF l = i THEN {k} ELSE {})
  <2>1. On(l) = {x \in stored : l < height[x]} \cup {x \in Keys : l < i /\ x = k}
      BY <1>1 DEF On
  <2>2. CASE last
    <3>1. On(l)' = {x \in stored \cup {k} : l < height[x]}
        BY <1>1, <2>2 DEF On, Idle
    <3>2. l < height[k] <=> l < i \/ l = i
      <4>1. i = height[k] - 1 /\ height[k] \in Nat /\ i \in Nat
          BY <1>3, <2>2, Zenon
      <4> QED
          BY <4>1
    <3> QED
        BY <2>1, <3>1, <3>2, <1>2
  <2>3. CASE ~last
    <3>1. writer'.pc = "prepare" /\ writer'.level = i + 1 /\ writer'.key = k
        BY <1>1, <2>3 DEF IInv, TypeInv
    <3>2. On(l)' = {x \in stored : l < height[x]} \cup {x \in Keys : l < i + 1 /\ x = k}
        BY <1>1, <2>3, <3>1 DEF On
    <3>3. l < i + 1 <=> l < i \/ l = i
        BY <1>3
    <3> QED
        BY <2>1, <3>2, <3>3, <1>2
  <2> QED
      BY <2>2, <2>3
<1>10. TypeInv'
  <2>1. stored' \subseteq Keys /\ \A x \in stored' : height'[x] \in 1..max_height'
      BY <1>1, <1>2 DEF IInv, TypeInv
  <2>2. writer' \in [pc: {"idle", "prepare", "publish"}, key: Keys \cup {None}, level: Nat, pre: {writer'.pre}]
    <3>1. CASE last
        BY <1>1, <3>1 DEF Idle
    <3>2. CASE ~last
      <4>1. i + 1 \in Nat
          BY <1>3
      <4>2. writer' = [writer EXCEPT !.pc = "prepare", !.level = i + 1]
          BY <1>1, <3>2
      <4> QED
          BY <4>1, <4>2, Zenon DEF IInv, TypeInv
    <3> QED
        BY <3>1, <3>2
  <2> QED
      BY <1>1, <1>7, <2>1, <2>2 DEF IInv, TypeInv
<1>11. k \notin On(i)
    BY <1>1, <1>2, <1>3 DEF On
<1>12. ASSUME NEW l \in Levels PROVE ChainOK(LinksAt(l), On(l))'
  <2>1. ChainOK(LinksAt(l), On(l)) /\ l \in Nat /\ On(l) \in SUBSET Keys
      BY <1>8 DEF IInv, LinkInv
  <2>2. {Head0} \cup On(l) \subseteq Nodes
      BY <2>1 DEF Nodes
  <2>3. \A n \in Nodes : LinksAt(l)[n] = nexts[n][l] /\ LinksAt(l)'[n] = nexts'[n][l]
      BY DEF LinksAt
  <2>4. CASE l = i
    <3> PICK f : f = LinksAt(l)
        OBVIOUS
    <3> PICK g : g = LinksAt(l)'
        OBVIOUS
    <3>1. On(l)' = On(l) \cup {k} /\ k \notin On(l)
        BY <2>1, <2>4, <1>9, <1>11
    <3>2. f[p] = None \/ f[p] > k
        BY <2>3, <2>4, <1>4, <1>6
    <3>3. g[p] = k /\ g[k] = f[p]
      <4>1. p \in Nodes /\ k \in Nodes
          BY <1>5, <1>6
      <4>2. g[p] = nexts'[p][l] /\ g[k] = nexts'[k][l] /\ f[p] = nexts[p][l]
          BY <4>1, <2>3
      <4> QED
          BY <4>1, <4>2, <2>4, <1>2, <1>3, <1>5, <1>6, <1>7, Zenon
    <3>4. \A n \in ({Head0} \cup On(l)) \ {p} : g[n] = f[n]
        BY <2>2, <2>3, <1>7
    <3>5. On(l) \in SUBSET (Nat \ {0})
        BY <2>1, <1>5, Zenon
    <3>6. ChainOK(f, On(l)) /\ p \in {Head0} \cup On(l) /\ p < k
        BY <2>1, <2>4, <1>4
    <3>7. ChainOK(g, On(l) \cup {k})
        BY <3>1, <3>2, <3>3, <3>4, <3>5, <3>6, <1>5, ChainInserted
    <3> QED
        BY <3>1, <3>7 DEF ChainOK
  <2>5. CASE l # i
    <3>1. On(l)' = On(l)
        BY <2>1, <2>5, <1>9
    <3>2. \A n \in {Head0} \cup On(l) : LinksAt(l)'[n] = LinksAt(l)[n]
        BY <2>2, <2>3, <2>5, <1>7
    <3> QED
        BY <2>1, <3>1, <3>2 DEF ChainOK
  <2> QED
      BY <2>4, <2>5
<1>13. ASSUME NEW n \in Keys, NEW l \in Levels, nexts'[n][l] \in Keys
       PROVE  n \in On(l)'
  <2>1. n \in Nodes /\ l \in Nat
      BY <1>8 DEF Nodes
  <2>2. CASE n = p /\ l = i
    <3>1. n # Head0
        BY <1>5 DEF Head0
    <3> QED
        BY <2>1, <2>2, <3>1, <1>4, <1>9
  <2>3. CASE n # p \/ l # i
    <3>1. nexts[n][l] \in Keys
        BY <1>13, <2>1, <2>3, <1>7
    <3>2. n \in On(l) \/ (n = k /\ l = i)
        BY <3>1 DEF IInv, LinkInv
    <3> QED
        BY <2>1, <3>2, <1>9
  <2> QED
      BY <2>2, <2>3
<1>14. LinkInv'
    BY <1>12, <1>13 DEF LinkInv
<1>15. WriterInv'
  <2>1. CASE last
      BY <1>1, <2>1 DEF WriterInv, Idle
  <2>2. CASE ~last
    <3>1. /\ writer'.pc = "prepare" /\ writer'.level = i + 1 /\ writer'.key = k /\ writer'.pre = writer.pre
          /\ stored' = stored
        BY <1>1, <2>2 DEF IInv, TypeInv
    <3>2. i + 1 \in 0..(height[k] - 1) /\ \A l \in (i + 1)..(height[k] - 1) : l \in i..(height[k] - 1)
      <4>1. i # height[k] - 1 /\ height[k] \in Nat /\ i \in Nat /\ i \in 0..(height[k] - 1)
          BY <1>2, <1>3, <2>2, Zenon
      <4> QED
          BY <4>1
    <3>3. ASSUME NEW l \in (i + 1)..(height[k] - 1)
          PROVE  /\ writer.pre[l] \in {Head0} \cup On(l)'
                 /\ writer.pre[l] < k
                 /\ nexts'[writer.pre[l]][l] = None \/ nexts'[writer.pre[l]][l] > k
      <4>1. l \in Levels /\ l \in 0..(height[k] - 1) /\ l \in Nat /\ l # i /\ l \in i..(height[k] - 1)
          BY <1>2, <1>3, <3>2 DEF Levels
      <4>2. writer.pre[l] \in Nodes
          BY <4>1, <1>2
      <4>3. nexts'[writer.pre[l]][l] = nexts[writer.pre[l]][l]
          BY <4>1, <4>2, <1>7
      <4> QED
          BY <4>1, <4>3, <1>2, <1>9
    <3> QED
        BY <1>1, <1>2, <3>1, <3>2, <3>3, Zenon DEF WriterInv
  <2> QED
      BY <2>1, <2>2
<1>16. ReaderInv'
  <2>1. stored \subseteq stored'
      BY <1>1
  <2>2. \A l \in Nat : On(l) \subseteq On(l)'
      BY <1>9
  <2> QED
      BY <2>1, <2>2, <1>1, ReadersKept DEF IInv
<1> QED
    BY <1>10, <1>14, <1>15, <1>16 DEF IInv

----------------------------------------------------------------------------
(* The theorems *)

LEMMA NextIInv ==
    ASSUME SkipListAssumption, IInv, [Next]_vars
    PROVE  IInv'
<1>1. CASE Write
    BY <1>1, BeginInsertStep, PrepareStep, PublishStep DEF Write
<1>2. ASSUME NEW r \in Readers, Read(r) PROVE IInv'
    BY <1>2, BeginWalkStep, WalkOnStep, IterateSteps, CloseStep DEF Read
<1>3. CASE UNCHANGED vars
  <2>1. UNCHANGED <<nexts, height, max_height, stored, writer, reader>>
      BY <1>3 DEF vars, writing
  <2>2. \A l : On(l)' = On(l) /\ LinksAt(l)' = LinksAt(l)
      BY <2>1 DEF On, LinksAt
  <2>3. TypeInv'
      BY <2>1 DEF IInv, TypeInv
  <2>4. LinkInv'
      BY <2>1, <2>2 DEF IInv, LinkInv
  <2>5. WriterInv'
      BY <2>1, <2>2 DEF IInv, WriterInv
  <2>6. ReaderInv'
      BY <2>1, <2>2, ReadersKept DEF IInv
  <2> QED
      BY <2>3, <2>4, <2>5, <2>6 DEF IInv
<1> QED
    BY <1>1, <1>2, <1>3 DEF Next

LEMMA Invariance == ASSUME SkipListAssumption PROVE Spec => []IInv
<1>1. Init => IInv
    BY InitIInv
<1>2. IInv /\ [Next]_vars => IInv'
    BY NextIInv
<1> QED
    BY <1>1, <1>2, PTL DEF Spec

\* No reader follows an entry of nexts_ that SkipList::Insert has not written:
\* a node is reached only at levels on which it is linked.
THEOREM LinksAreWritten == ASSUME SkipListAssumption PROVE Spec => []OnlyWrittenLinks
<1>1. IInv => OnlyWrittenLinks
    BY DEF IInv, ReaderInv, ReaderOK, OnlyWrittenLinks
<1> QED
    BY <1>1, Invariance, PTL

\* SkipList::Get finds a key that was stored before it began and no other, and an
\* iterator gives the stored keys in ascending order and misses none, whatever is
\* inserted while they walk.
THEOREM StoredKeysFound == ASSUME SkipListAssumption PROVE Spec => []KeysFound
<1>1. IInv => KeysFound
  <2> SUFFICES ASSUME IInv PROVE GetFindsStored /\ ScanComplete
      BY DEF KeysFound
  <2>1. GetFindsStored
      BY DEF IInv, ReaderInv, ReaderOK, GetFindsStored
  <2>2. ScanComplete
      BY DEF IInv, ReaderInv, ReaderOK, ScanComplete, Ascending, Elements
  <2> QED
      BY <2>1, <2>2
<1> QED
    BY <1>1, Invariance, PTL
=============================================================================
