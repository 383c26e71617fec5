--------------------------- MODULE TimeListProofs ---------------------------
(***************************************************************************)
(* What readers of the rows of a key see, for every number of rows, every  *)
(* MAX_ARRAY_LIST_LEN and any number of readers.                           *)
(*                                                                         *)
(* Rows have one order, newest first and the later insert first among rows *)
(* of one time (Before).  The inductive invariant says that the array is   *)
(* sorted in it (ArrayInv), that the links of a linked list, also of one   *)
(* that is not stored yet, lead from each row to the next stored one       *)
(* (LinkInv), that the place the writer has found for its row stays the    *)
(* place (WriterInv), and that a reader has each row it must read behind   *)
(* it or before it (ReaderInv).                                            *)
(***************************************************************************)
EXTENDS TimeList, WellFoundedInduction, TLAPS

Elements(s) == {s[n] : n \in DOMAIN s}

\* What Append does to a sequence
LEMMA AppendProperties ==
    ASSUME NEW S, NEW s \in Seq(S), NEW e \in S, NEW t, t = Append(s, e)
    PROVE  /\ t \in Seq(S)
           /\ Len(t) = Len(s) + 1
           /\ \A n \in 1..Len(s) : t[n] = s[n]
           /\ t[Len(s) + 1] = e
    OBVIOUS

\* ... and to its elements
LEMMA AppendElements ==
    ASSUME NEW S, NEW s \in Seq(S), NEW e \in S
    PROVE  Elements(Append(s, e)) = Elements(s) \cup {e}
<1> PICK t : t = Append(s, e)
    OBVIOUS
<1>1. t \in Seq(S) /\ Len(t) = Len(s) + 1
    OBVIOUS
<1>2. \A n \in 1..Len(s) : t[n] = s[n]
    OBVIOUS
<1>3. t[Len(s) + 1] = e
    OBVIOUS
<1>4. Len(s) \in Nat /\ DOMAIN s = 1..Len(s) /\ DOMAIN t = 1..(Len(s) + 1)
    BY <1>1
<1>5. Elements(t) = Elements(s) \cup {e}
  <2>1. ASSUME NEW x \in Elements(t) PROVE x \in Elements(s) \cup {e}
    <3>1. PICK n \in 1..(Len(s) + 1) : x = t[n]
        BY <1>4, <2>1 DEF Elements
    <3>2. CASE n = Len(s) + 1
        BY <3>1, <3>2, <1>3
    <3>3. CASE n # Len(s) + 1
      <4>1. n \in 1..Len(s)
          BY <3>3, <1>4
      <4> QED
          BY <4>1, <3>1, <1>2, <1>4 DEF Elements
    <3> QED
        BY <3>2, <3>3
  <2>2. ASSUME NEW x \in Elements(s) PROVE x \in Elements(t)
    <3>1. PICK n \in 1..Len(s) : x = s[n]
        BY <1>4 DEF Elements
    <3>2. n \in 1..(Len(s) + 1) /\ t[n] = x
        BY <3>1, <1>2, <1>4
    <3> QED
        BY <3>2, <1>4 DEF Elements
  <2>3. e \in Elements(t)
    <3>1. Len(s) + 1 \in 1..(Len(s) + 1)
        BY <1>4
    <3> QED
        BY <3>1, <1>3, <1>4 DEF Elements
  <2> QED
      BY <2>1, <2>2, <2>3
<1> QED
    BY <1>5

\* A nonempty set of numbers has a least element.
LEMMA LeastExists ==
    ASSUME NEW S \in SUBSET Nat, S # {}
    PROVE  \E x \in S : \A y \in S : x <= y
<1>1. PICK x \in S : \A y \in S : ~(<<y, x>> \in OpToRel(<, Nat))
    BY NatLessThanWellFounded, WFMin
<1>2. ASSUME NEW y \in S PROVE x <= y
  <2>1. ~(y < x)
      BY <1>1 DEF OpToRel
  <2> QED
      BY <2>1
<1> QED
    BY <1>2


Before(p, q) == time[p] > time[q] \/ (time[p] = time[q] /\ p > q)

\* q comes after the node n of the linked list, which may be its head
After(n, q) == n = Head0 \/ Before(n, q)

Sorted(s) == \A m, n \in DOMAIN s : m < n => Before(s[m], s[n])

Wanted(s, row) == s.target = None \/ time[row] <= s.target

ReaderType ==
    [pc: {"idle", "new", "ready", "walk", "found", "at", "end", "undefined"},
     list: {"array", "link"}, array: Seq(Rows), pos: Nat, node: Nodes \cup {None},
     target: Nat \cup {None}, known: SUBSET Rows, read: Seq(Rows)]

TypeInv ==
    /\ time \in Seq(Nat) /\ Len(time) <= MaxRows
    /\ stored \subseteq 1..Len(time)
    /\ list \in {"array", "link"} /\ freed \in BOOLEAN
    /\ array \in Seq(Rows)
    /\ next \in [Nodes -> Rows \cup {None}]
    /\ writer \in [pc: {"idle", "store", "delete", "prepare", "publish"},
                   row: Rows \cup {None}, pre: Nodes \cup {None}]
    /\ reader \in [Readers -> ReaderType]

\* Where the writer is in the life of the list
PhaseInv ==
    /\ writer.pc = "idle" => (freed <=> list = "link")
    /\ writer.pc = "store" => list = "array" /\ ~freed
    /\ writer.pc = "delete" => list = "link" /\ ~freed
    /\ writer.pc \in {"prepare", "publish"} => list = "link" /\ freed

\* The array holds the stored rows in order until it is deleted.
ArrayInv ==
    /\ Elements(array) \subseteq stored /\ Sorted(array)
    /\ ~freed => Elements(array) = stored

\* The links f lead from the head through S in the order of rows.
ChainOK(f, S) ==
    /\ \A n \in {Head0} \cup S :
          /\ f[n] \in S \cup {None}
          /\ f[n] # None => After(n, f[n])
          /\ \A q \in S : After(n, q) => f[n] # None /\ (f[n] = q \/ Before(f[n], q))
    /\ \A q \in S : \E n \in {Head0} \cup S : f[n] = q

IsLinked == list = "link" \/ writer.pc = "store"

\* The links lead from each node to the next row in the order, and only stored
\* rows, and the row that is about to be linked, lead anywhere.
LinkInv ==
    /\ ~IsLinked => \A n \in Nodes : next[n] = None
    /\ IsLinked => ChainOK(next, stored)
    /\ \A n \in Rows : next[n] # None => n \in stored \/ (writer.pc = "publish" /\ n = writer.row)

\* The new row belongs between pre and the node after it.
WriterInv ==
    /\ writer.pc # "idle" => writer.row = Len(time) /\ writer.row \in Rows \ stored
    /\ writer.pc = "publish" =>
          /\ writer.pre \in {Head0} \cup stored
          /\ writer.pre = Head0 \/ time[writer.pre] > time[writer.row]
          /\ next[writer.pre] = None \/ time[next[writer.pre]] <= time[writer.row]
          /\ next[writer.row] = next[writer.pre]

ReaderOK(s) ==
    /\ s.known \subseteq stored
    /\ Elements(s.read) \subseteq stored /\ Sorted(s.read)
    /\ s.pc # "idle" /\ s.list = "link" => list = "link"
    /\ s.pc \in {"new", "ready", "walk", "found"} => s.read = << >>
    /\ s.pc = "new" /\ s.list = "array" /\ ~freed => s.known \subseteq Elements(array)
    /\ s.pc \in {"ready", "at"} /\ s.list = "array" =>
          /\ Elements(s.array) \subseteq stored /\ Sorted(s.array)
          /\ s.known \subseteq Elements(s.array)
    /\ s.pc \in {"new", "ready"} => s.target = None
    /\ s.pc = "at" /\ s.list = "array" =>
          /\ s.pos \in DOMAIN s.array
          /\ \A x \in Elements(s.read) : \E m \in 1..s.pos : x = s.array[m]
          /\ \A m \in 1..s.pos : Wanted(s, s.array[m]) => s.array[m] \in Elements(s.read)
    /\ s.pc \in {"walk", "found"} =>
          /\ s.list = "link" /\ s.target # None
          /\ s.node \in {Head0} \cup stored
          /\ s.node = Head0 \/ time[s.node] > s.target
    /\ s.pc = "at" /\ s.list = "link" =>
          /\ s.node \in stored
          /\ \A x \in Elements(s.read) : x = s.node \/ Before(x, s.node)
          /\ \A q \in s.known : Wanted(s, q) => q \in Elements(s.read) \/ Before(s.node, q)
    /\ s.pc = "end" => \A q \in s.known : Wanted(s, q) => q \in Elements(s.read)

ReaderInv == \A r \in Readers : ReaderOK(reader[r])

IInv == TypeInv /\ PhaseInv /\ ArrayInv /\ LinkInv /\ WriterInv /\ ReaderInv

----------------------------------------------------------------------------
(* The order of rows *)

LEMMA TimesAreNumbers ==
    ASSUME TypeInv
    PROVE  /\ Len(time) \in Nat
           /\ \A p \in 1..Len(time) : time[p] \in Nat /\ p \in Nat /\ p # Head0 /\ p # None
    BY DEF TypeInv, Head0, None

LEMMA BeforeIsOrder ==
    ASSUME TypeInv, NEW p \in 1..Len(time), NEW q \in 1..Len(time), NEW w \in 1..Len(time)
    PROVE  /\ Before(p, q) => ~Before(q, p) /\ p # q
           /\ Before(p, q) /\ Before(q, w) => Before(p, w)
           /\ p = q \/ Before(p, q) \/ Before(q, p)
<1>1. time[p] \in Nat /\ time[q] \in Nat /\ time[w] \in Nat /\ p \in Nat /\ q \in Nat /\ w \in Nat
    BY TimesAreNumbers
<1> QED
    BY <1>1 DEF Before

\* A new row keeps the times and the order of the others.
LEMMA TimeGrows ==
    ASSUME TypeInv, NEW key \in Nat, time' = Append(time, key)
    PROVE  /\ time' \in Seq(Nat) /\ Len(time') = Len(time) + 1 /\ Len(time) \in Nat
           /\ \A p \in 1..Len(time) : time'[p] = time[p]
           /\ time'[Len(time) + 1] = key
<1> PICK t : t = time'
    OBVIOUS
<1>1. time \in Seq(Nat) /\ t = Append(time, key)
    BY DEF TypeInv
<1>2. t \in Seq(Nat) /\ Len(t) = Len(time) + 1 /\ Len(time) \in Nat
    BY <1>1
<1>3. \A p \in 1..Len(time) : t[p] = time[p]
    BY <1>1
<1>4. t[Len(time) + 1] = key
    BY <1>1
<1> QED
    BY <1>2, <1>3, <1>4

\* Rows that were written keep their time.
SameTimes == \A p \in 1..Len(time) : p \in 1..Len(time') /\ time'[p] = time[p]

LEMMA OrderKept ==
    ASSUME SameTimes
    PROVE  /\ \A p, q \in 1..Len(time) : Before(p, q)' <=> Before(p, q)
           /\ \A n \in {Head0} \cup 1..Len(time), q \in 1..Len(time) : After(n, q)' <=> After(n, q)
<1>1. \A p, q \in 1..Len(time) : Before(p, q)' <=> Before(p, q)
    BY DEF SameTimes, Before
<1>2. \A n \in {Head0} \cup 1..Len(time), q \in 1..Len(time) : After(n, q)' <=> After(n, q)
    BY <1>1 DEF After
<1> QED
    BY <1>1, <1>2

LEMMA SortedKept ==
    ASSUME SameTimes, NEW s, Elements(s) \subseteq 1..Len(time), Sorted(s)
    PROVE  Sorted(s)'
<1>1. \A m, n \in DOMAIN s : s[m] \in 1..Len(time) /\ s[n] \in 1..Len(time)
    BY DEF Elements
<1> QED
    BY <1>1, OrderKept DEF Sorted

\* A row behind all that was read keeps what was read in order.
LEMMA AppendSorted ==
    ASSUME NEW S, NEW s \in Seq(S), NEW e \in S, NEW t, t = Append(s, e),
           Sorted(s), \A x \in Elements(s) : Before(x, e)
    PROVE  Sorted(t)
<1>1. /\ t \in Seq(S) /\ Len(t) = Len(s) + 1
      /\ \A n \in 1..Len(s) : t[n] = s[n]
      /\ t[Len(s) + 1] = e
    BY AppendProperties
<1>2. Len(s) \in Nat /\ DOMAIN s = 1..Len(s) /\ DOMAIN t = 1..(Len(s) + 1)
    BY <1>1
<1> SUFFICES ASSUME NEW m \in 1..(Len(s) + 1), NEW n \in 1..(Len(s) + 1), m < n
             PROVE  Before(t[m], t[n])
    BY <1>2 DEF Sorted
<1>3. m \in 1..Len(s) /\ t[m] = s[m]
    BY <1>1, <1>2
<1>4. CASE n = Len(s) + 1
    BY <1>1, <1>2, <1>3, <1>4 DEF Elements
<1>5. CASE n # Len(s) + 1
  <2>1. n \in 1..Len(s) /\ t[n] = s[n]
      BY <1>1, <1>2, <1>5
  <2> QED
      BY <1>2, <1>3, <2>1 DEF Sorted
<1> QED
    BY <1>4, <1>5

----------------------------------------------------------------------------
(* The linked list *)

LEMMA ChainKept ==
    ASSUME SameTimes, NEW S \in SUBSET (1..Len(time)), NEW f, ChainOK(f, S), None \notin S
    PROVE  ChainOK(f, S)'
<1>1. \A n \in {Head0} \cup S, q \in S : After(n, q)' <=> After(n, q)
    BY OrderKept, Zenon
<1>2. \A n, q \in S : Before(n, q)' <=> Before(n, q)
    BY OrderKept
<1>3. \A n \in {Head0} \cup S : f[n] \in S \cup {None}
    BY DEF ChainOK
<1> QED
    BY <1>1, <1>2, <1>3, Zenon DEF ChainOK

\* A row linked between two neighbours extends the chain by that row.
LEMMA ChainInserted ==
    ASSUME TypeInv, NEW S \in SUBSET (1..Len(time)), NEW f, ChainOK(f, S),
           NEW k \in 1..Len(time), k \notin S,
           NEW p \in {Head0} \cup S, After(p, k),
           f[p] = None \/ Before(k, f[p]),
           NEW g, g[p] = k, g[k] = f[p],
           \A n \in ({Head0} \cup S) \ {p} : g[n] = f[n]
    PROVE  ChainOK(g, S \cup {k})
<1>0. /\ \A x \in S \cup {k} : x \in 1..Len(time) /\ x # Head0 /\ x # None
      /\ \A n \in {Head0} \cup S : f[n] \in S \cup {None}
    BY TimesAreNumbers DEF ChainOK
<1>1. ASSUME NEW n \in {Head0} \cup (S \cup {k})
      PROVE  /\ g[n] \in (S \cup {k}) \cup {None}
             /\ g[n] # None => After(n, g[n])
  <2>1. CASE n = p
      BY <2>1
  <2>2. CASE n = k
      BY <2>2, <1>0 DEF After
  <2>3. CASE n \in ({Head0} \cup S) \ {p}
      BY <2>3 DEF ChainOK
  <2> QED
      BY <2>1, <2>2, <2>3
<1>2. ASSUME NEW n \in {Head0} \cup (S \cup {k}), NEW q \in S \cup {k}, After(n, q)
      PROVE  g[n] # None /\ (g[n] = q \/ Before(g[n], q))
  <2>1. CASE n = p
    <3>1. CASE q = k
        BY <2>1, <3>1, <1>0
    <3>2. CASE q \in S
      <4>1. f[p] # None /\ (f[p] = q \/ Before(f[p], q)) /\ f[p] \in S
          BY <1>2, <2>1, <3>2, <1>0 DEF ChainOK
      <4>2. Before(k, f[p])
          BY <4>1
      <4>3. Before(k, q)
          BY <4>1, <4>2, <3>2, <1>0, BeforeIsOrder, Zenon
      <4> QED
          BY <2>1, <4>3, <1>0
    <3> QED
        BY <3>1, <3>2
  <2>2. CASE n = k
    <3>1. Before(k, q) /\ q \in S
      <4>1. Before(k, q)
          BY <1>2, <2>2, <1>0 DEF After
      <4> QED
          BY <4>1, <1>0, BeforeIsOrder
    <3>2. After(p, q)
        BY <3>1, <1>0, BeforeIsOrder, Zenon DEF After
    <3>3. f[p] # None /\ (f[p] = q \/ Before(f[p], q))
        BY <3>1, <3>2 DEF ChainOK
    <3> QED
        BY <2>2, <3>3
  <2>3. CASE n \in ({Head0} \cup S) \ {p}
    <3>1. CASE q \in S
        BY <1>2, <2>3, <3>1 DEF ChainOK
    <3>2. CASE q = k
      <4>1. p \in S /\ After(n, p)
        <5>1. CASE After(p, n) /\ n # Head0
          <6>1. n \in S /\ f[p] # None /\ (f[p] = n \/ Before(f[p], n)) /\ f[p] \in S
              BY <5>1, <2>3, <1>0, Zenon DEF ChainOK
          <6>2. Before(k, n)
              BY <6>1, <1>0, BeforeIsOrder, Zenon
          <6>3. Before(n, k)
              BY <6>1, <1>2, <3>2, <1>0 DEF After
          <6> QED
              BY <6>1, <6>2, <6>3, <1>0, BeforeIsOrder
        <5>2. CASE n = Head0
            BY <5>2, <2>3 DEF After
        <5>3. CASE n # Head0 /\ ~After(p, n)
          <6>1. p \in S /\ n \in S /\ ~Before(p, n)
              BY <5>3, <2>3 DEF After
          <6>2. Before(n, p)
              BY <6>1, <2>3, <1>0, BeforeIsOrder
          <6> QED
              BY <6>1, <6>2 DEF After
        <5> QED
            BY <5>1, <5>2, <5>3
      <4>2. f[n] # None /\ (f[n] = p \/ Before(f[n], p)) /\ f[n] \in S
          BY <2>3, <4>1, <1>0 DEF ChainOK
      <4>3. Before(p, k)
          BY <4>1, <1>0 DEF After
      <4>4. Before(f[n], k)
          BY <4>1, <4>2, <4>3, <1>0, BeforeIsOrder, Zenon
      <4>5. g[n] = f[n]
          BY <2>3
      <4> QED
          BY <4>2, <4>4, <4>5, <3>2
    <3> QED
        BY <3>1, <3>2
  <2> QED
      BY <2>1, <2>2, <2>3
<1>3. ASSUME NEW q \in S \cup {k}
      PROVE  \E n \in {Head0} \cup (S \cup {k}) : g[n] = q
  <2>1. CASE q = k
      BY <2>1
  <2>2. CASE q \in S
    <3>1. PICK n \in {Head0} \cup S : f[n] = q
        BY <2>2 DEF ChainOK
    <3>2. CASE n = p
        BY <3>1, <3>2
    <3>3. CASE n # p
        BY <3>1, <3>3
    <3> QED
        BY <3>2, <3>3
  <2> QED
      BY <2>1, <2>2
<1> QED
    BY <1>1, <1>2, <1>3 DEF ChainOK

\* Of some rows, one comes last.
LEMMA LastExists ==
    ASSUME TypeInv, NEW S \in SUBSET (1..Len(time)), S # {}
    PROVE  \E x \in S : \A y \in S : y = x \/ Before(y, x)
<1>1. \A x \in S : x \in Nat /\ time[x] \in Nat
    BY TimesAreNumbers
<1> PICK T : T = {time[x] : x \in S}
    BY Zenon
<1>2. T \in SUBSET Nat /\ T # {}
    BY <1>1, Zenon
<1>3. PICK t \in T : \A u \in T : t <= u
    BY <1>2, LeastExists, Zenon
<1> PICK R : R = {x \in S : time[x] = t}
    BY Zenon
<1>4. R \in SUBSET Nat /\ R # {}
    BY <1>1, Zenon
<1>5. PICK x \in R : \A y \in R : x <= y
    BY <1>4, LeastExists, Zenon
<1>6. ASSUME NEW y \in S PROVE y = x \/ Before(y, x)
  <2>1. time[y] \in Nat /\ y \in Nat /\ x \in Nat /\ time[x] = t /\ t \in Nat /\ t <= time[y]
      BY <1>1, <1>2, <1>3, Zenon
  <2>2. CASE time[y] = t
      BY <2>1, <2>2, <1>5 DEF Before
  <2>3. CASE time[y] # t
      BY <2>1, <2>3 DEF Before
  <2> QED
      BY <2>2, <2>3
<1> QED
    BY <1>6

\* LinkList::FindLessOrEqual finds a stored node, newer than the key, whose next
\* node is not.
LEMMA WalkProperties ==
    ASSUME ListAssumption, TypeInv, LinkInv, IsLinked, writer.pc # "publish", NEW key \in Nat
    PROVE  /\ Walk(key) \in {Head0} \cup stored
           /\ Walk(key) = Head0 \/ time[Walk(key)] > key
           /\ next[Walk(key)] = None \/ time[next[Walk(key)]] <= key
<1> DEFINE P(n) == /\ Linked(n) /\ (n = Head0 \/ time[n] > key)
                   /\ next[n] = None \/ time[next[n]] <= key
<1>1. ChainOK(next, stored) /\ stored \in SUBSET (1..Len(time)) /\ stored \subseteq Rows
  <2>1. Len(time) \in Nat /\ Len(time) <= MaxRows /\ MaxRows \in Nat
      BY TimesAreNumbers DEF TypeInv, ListAssumption
  <2> QED
      BY <2>1 DEF LinkInv, TypeInv, Rows
<1>2. \A x \in stored : time[x] \in Nat /\ x # None /\ x # Head0
    BY <1>1, TimesAreNumbers
<1>3. \E n \in Nodes : P(n)
  <2> PICK S : S = {x \in stored : time[x] > key}
      BY Zenon
  <2>1. CASE S = {}
    <3>1. next[Head0] \in stored \cup {None}
        BY <1>1 DEF ChainOK
    <3>2. next[Head0] = None \/ time[next[Head0]] <= key
        BY <2>1, <3>1, <1>2
    <3> QED
        BY <3>2 DEF Nodes, Linked
  <2>2. CASE S # {}
    <3>1. S \in SUBSET (1..Len(time))
        BY <1>1, Zenon
    <3>2. PICK x \in S : \A y \in S : y = x \/ Before(y, x)
        BY <2>2, <3>1, LastExists, Zenon
    <3>3. x \in stored /\ time[x] > key /\ x \in Nodes
        BY <1>1 DEF Nodes
    <3>4. Linked(x)
      <4>1. {Head0} \cup stored \subseteq Nodes
          BY <1>1, Zenon DEF Nodes
      <4> QED
          BY <3>3, <4>1, <1>1, Zenon DEF ChainOK, Linked
    <3>5. next[x] \in stored \cup {None} /\ (next[x] # None => Before(x, next[x]))
        BY <3>3, <1>1, <1>2 DEF ChainOK, After
    <3>6. next[x] = None \/ time[next[x]] <= key
      <4> SUFFICES ASSUME next[x] # None, ~(time[next[x]] <= key) PROVE FALSE
          OBVIOUS
      <4> PICK y : y = next[x]
          OBVIOUS
      <4>1. y \in stored /\ time[y] > key
          BY <3>5, <1>2
      <4>2. y = x \/ Before(y, x)
          BY <4>1, <3>2
      <4> QED
          BY <4>1, <4>2, <3>3, <3>5, <1>1, BeforeIsOrder
    <3> QED
        BY <3>3, <3>4, <3>6
  <2> QED
      BY <2>1, <2>2
<1> PICK b : b = Walk(key)
    OBVIOUS
<1>4. b \in Nodes /\ P(b)
    BY <1>3 DEF Walk
<1>5. b \in {Head0} \cup stored
  <2> SUFFICES ASSUME b # Head0 PROVE b \in stored
      OBVIOUS
  <2>1. b \in Rows /\ b # None
      BY <1>4 DEF Nodes, Rows, None
  <2>2. PICK n \in Nodes : next[n] = b
      BY <1>4 DEF Linked
  <2>3. n \in {Head0} \cup stored
      BY <2>1, <2>2 DEF Nodes, LinkInv
  <2>4. next[n] \in stored \cup {None}
      BY <2>3, <1>1 DEF ChainOK
  <2> QED
      BY <2>1, <2>2, <2>4
<1> QED
    BY <1>4, <1>5

----------------------------------------------------------------------------
(* The array *)

\* ArrayList::FindLessOrEqual finds the first row that is not newer than the key.
LEMMA FindProperties ==
    ASSUME TypeInv, NEW rows \in Seq(Rows), Elements(rows) \subseteq 1..Len(time), NEW key \in Nat
    PROVE  /\ FindLessOrEqual(rows, key) \in 1..(Len(rows) + 1)
           /\ \A m \in 1..(FindLessOrEqual(rows, key) - 1) : time[rows[m]] > key
           /\ FindLessOrEqual(rows, key) <= Len(rows) => time[rows[FindLessOrEqual(rows, key)]] <= key
<1> DEFINE P(n) == /\ \A m \in 1..(n - 1) : time[rows[m]] > key
                   /\ n <= Len(rows) => time[rows[n]] <= key
<1>1. Len(rows) \in Nat /\ DOMAIN rows = 1..Len(rows)
    OBVIOUS
<1>2. \A m \in 1..Len(rows) : time[rows[m]] \in Nat
    BY <1>1, TimesAreNumbers DEF Elements
<1>3. \E n \in 1..(Len(rows) + 1) : P(n)
  <2> PICK S : S = {m \in 1..Len(rows) : time[rows[m]] <= key}
      BY Zenon
  <2>1. CASE S = {}
    <3>1. \A m \in 1..Len(rows) : time[rows[m]] > key
        BY <2>1, <1>2
    <3>2. Len(rows) + 1 \in 1..(Len(rows) + 1) /\ (Len(rows) + 1) - 1 = Len(rows) /\ ~(Len(rows) + 1 <= Len(rows))
        BY <1>1
    <3> QED
        BY <3>1, <3>2
  <2>2. CASE S # {}
    <3>1. S \in SUBSET Nat
        BY <1>1
    <3>2. PICK n \in S : \A m \in S : n <= m
        BY <2>2, <3>1, LeastExists, Zenon
    <3>3. n \in 1..(Len(rows) + 1) /\ n \in 1..Len(rows) /\ time[rows[n]] <= key
        BY <1>1
    <3>4. ASSUME NEW m \in 1..(n - 1) PROVE time[rows[m]] > key
      <4>1. m \in 1..Len(rows) /\ m \notin S
          BY <1>1, <3>2, <3>3
      <4> QED
          BY <4>1, <1>2
    <3> QED
        BY <3>3, <3>4
  <2> QED
      BY <2>1, <2>2
<1> PICK b : b = FindLessOrEqual(rows, key)
    OBVIOUS
<1>4. b \in 1..(Len(rows) + 1) /\ P(b)
    BY <1>3, Zenon DEF FindLessOrEqual
<1> QED
    BY <1>4

\* What WithRow does
LEMMA WithRowProperties ==
    ASSUME NEW S, NEW s \in Seq(S), NEW i \in 1..(Len(s) + 1), NEW e \in S,
           NEW t, t = WithRow(s, i, e)
    PROVE  /\ t \in Seq(S) /\ Len(t) = Len(s) + 1
           /\ \A n \in 1..(i - 1) : t[n] = s[n]
           /\ t[i] = e
           /\ \A n \in (i + 1)..(Len(s) + 1) : t[n] = s[n - 1]
<1>1. Len(s) \in Nat /\ i \in Nat /\ i >= 1 /\ i <= Len(s) + 1
    OBVIOUS
<1>a. PICK a : a = SubSeq(s, 1, i - 1)
    BY Zenon
<1>c. PICK c : c = SubSeq(s, i, Len(s))
    BY Zenon
<1>b. PICK b : b = a \o <<e>>
    BY Zenon
<1>2. a \in Seq(S) /\ Len(a) = i - 1 /\ \A n \in 1..(i - 1) : a[n] = s[n]
    BY <1>a, <1>1
<1>3. c \in Seq(S) /\ Len(c) = Len(s) + 1 - i /\ \A n \in 1..(Len(s) + 1 - i) : c[n] = s[n + i - 1]
  <2>1. c \in Seq(S)
      BY <1>c, <1>1
  <2>2. Len(c) = Len(s) + 1 - i
      BY <1>c, <1>1
  <2>3. \A n \in 1..(Len(s) + 1 - i) : c[n] = s[n + i - 1]
      BY <1>c, <1>1
  <2> QED
      BY <2>1, <2>2, <2>3
<1>4. b \in Seq(S) /\ Len(b) = i /\ (\A n \in 1..(i - 1) : b[n] = s[n]) /\ b[i] = e
  <2>1. b \in Seq(S) /\ Len(b) = Len(a) + 1
      BY <1>b, <1>2
  <2>2. \A n \in 1..Len(a) : b[n] = a[n]
      BY <1>b, <1>2
  <2>3. b[Len(a) + 1] = e
      BY <1>b, <1>2
  <2>4. Len(a) + 1 = i /\ Len(a) = i - 1
      BY <1>1, <1>2
  <2>5. b[i] = e /\ Len(b) = i
      BY <2>1, <2>3, <2>4
  <2>6. \A n \in 1..(i - 1) : b[n] = s[n]
      BY <2>2, <2>4, <1>2
  <2> QED
      BY <2>1, <2>5, <2>6
<1>5. t = b \o c
    BY <1>a, <1>b, <1>c DEF WithRow
<1>6. b \in Seq(S) /\ c \in Seq(S)
    BY <1>3, <1>4
<1>7. /\ t \in Seq(S) /\ Len(t) = Len(b) + Len(c)
      /\ \A n \in 1..Len(b) : t[n] = b[n]
      /\ \A n \in (Len(b) + 1)..(Len(b) + Len(c)) : t[n] = c[n - Len(b)]
  <2>1. /\ b \o c \in Seq(S)
        /\ Len(b \o c) = Len(b) + Len(c)
        /\ \A n \in 1 .. Len(b) + Len(c) : (b \o c)[n] = IF n <= Len(b) THEN b[n] ELSE c[n - Len(b)]
      BY <1>6
  <2>2. Len(b) \in Nat /\ Len(c) \in Nat
      BY <1>6
  <2>3. \A n \in 1..Len(b) : n \in 1..(Len(b) + Len(c)) /\ n <= Len(b)
      BY <2>2
  <2>4. \A n \in (Len(b) + 1)..(Len(b) + Len(c)) : n \in 1..(Len(b) + Len(c)) /\ ~(n <= Len(b))
      BY <2>2
  <2>5. \A n \in 1..(Len(b) + Len(c)) : t[n] = IF n <= Len(b) THEN b[n] ELSE c[n - Len(b)]
      BY <2>1, <1>5, Zenon
  <2>6. t \in Seq(S) /\ Len(t) = Len(b) + Len(c)
      BY <2>1, <1>5, Zenon
  <2> QED
      BY <2>3, <2>4, <2>5, <2>6, Zenon
<1>8. Len(t) = Len(s) + 1
    BY <1>1, <1>3, <1>4, <1>7
<1>9. (\A n \in 1..(i - 1) : t[n] = s[n]) /\ t[i] = e
    BY <1>1, <1>4, <1>7
<1>10. ASSUME NEW n \in (i + 1)..(Len(s) + 1) PROVE t[n] = s[n - 1]
  <2>1. n \in (Len(b) + 1)..(Len(b) + Len(c)) /\ n - i \in 1..(Len(s) + 1 - i) /\ (n - i) + i - 1 = n - 1
    <3>1. Len(b) = i /\ Len(c) = Len(s) + 1 - i
        BY <1>3, <1>4
    <3> QED
        BY <3>1, <1>1
  <2>2. t[n] = c[n - i]
      BY <2>1, <1>4, <1>7
  <2>3. c[n - i] = s[(n - i) + i - 1]
      BY <2>1, <1>3
  <2> QED
      BY <2>1, <2>2, <2>3
<1> QED
    BY <1>7, <1>8, <1>9, <1>10

\* A younger row with a time no older than another's comes before what follows that.
LEMMA NewerIsFirst ==
    ASSUME NEW u \in Nat, NEW v \in Nat, NEW w \in Nat, NEW y \in Nat, NEW k \in Nat,
           y < k, u <= w, u = v \/ u > v
    PROVE  w > v \/ (w = v /\ k > y)
    OBVIOUS

\* A new row, put where FindLessOrEqual says, keeps the array sorted.
LEMMA InsertSorted ==
    ASSUME time' \in Seq(Nat), NEW rows \in Seq(Rows), NEW k \in 1..Len(time'), k \in Rows,
           Elements(rows) \subseteq 1..Len(time'), \A x \in Elements(rows) : x < k, Sorted(rows)',
           NEW i \in 1..(Len(rows) + 1),
           \A m \in 1..(i - 1) : time'[rows[m]] > time'[k],
           i <= Len(rows) => time'[rows[i]] <= time'[k],
           NEW t, t = WithRow(rows, i, k)
    PROVE  /\ t \in Seq(Rows) /\ Sorted(t)' /\ Elements(t) = Elements(rows) \cup {k}
           /\ Len(t) = Len(rows) + 1
<1>0. \A p \in 1..Len(time') : time'[p] \in Nat /\ p \in Nat
    OBVIOUS
<1>1. Len(rows) \in Nat /\ DOMAIN rows = 1..Len(rows) /\ i \in Nat
    OBVIOUS
<1>2. /\ t \in Seq(Rows) /\ Len(t) = Len(rows) + 1
      /\ \A n \in 1..(i - 1) : t[n] = rows[n]
      /\ t[i] = k
      /\ \A n \in (i + 1)..(Len(rows) + 1) : t[n] = rows[n - 1]
    BY WithRowProperties
<1>3. DOMAIN t = 1..(Len(rows) + 1)
    BY <1>2
<1>4. \A m \in 1..Len(rows) : /\ rows[m] \in 1..Len(time') /\ rows[m] \in Nat
                              /\ time'[rows[m]] \in Nat /\ rows[m] < k
  <2>1. \A m \in 1..Len(rows) : rows[m] \in Elements(rows)
      BY <1>1 DEF Elements
  <2> QED
      BY <2>1, <1>0
<1>5. time'[k] \in Nat /\ k \in Nat
    BY <1>0
<1>6. \A m \in 1..Len(rows) : m < i => Before(rows[m], k)'
  <2> SUFFICES ASSUME NEW m \in 1..Len(rows), m < i PROVE Before(rows[m], k)'
      OBVIOUS
  <2>1. m \in 1..(i - 1)
      BY <1>1
  <2> QED
      BY <2>1 DEF Before
<1>s. \A m, n \in 1..Len(rows) : m < n => Before(rows[m], rows[n])'
    BY <1>1, Zenon DEF Sorted
<1>7. ASSUME NEW m \in 1..Len(rows), m >= i PROVE Before(k, rows[m])'
  <2>1. i \in 1..Len(rows) /\ time'[rows[i]] <= time'[k]
      BY <1>1, <1>7
  <2> PICK x : x = rows[i]
      OBVIOUS
  <2> PICK y : y = rows[m]
      OBVIOUS
  <2> PICK u : u = time'[x]
      OBVIOUS
  <2> PICK v : v = time'[y]
      OBVIOUS
  <2> PICK w : w = time'[k]
      OBVIOUS
  <2>2. u \in Nat /\ v \in Nat /\ w \in Nat /\ x \in Nat /\ y \in Nat /\ k \in Nat /\ y < k
      BY <2>1, <1>4, <1>5, <1>7
  <2>3. m # i => u > v \/ (u = v /\ x > y)
    <3>1. m # i => i < m
        BY <1>1, <1>7
    <3>2. m # i => Before(x, y)'
        BY <3>1, <2>1, <1>s, <1>7
    <3> QED
        BY <3>2 DEF Before
  <2>4. m = i => u = v
      OBVIOUS
  <2>5. u <= w
      BY <2>1
  <2>6. w > v \/ (w = v /\ k > y)
      BY <2>2, <2>3, <2>4, <2>5, NewerIsFirst, Zenon
  <2> QED
      BY <2>6 DEF Before
<1>8. ASSUME NEW n \in 1..(Len(rows) + 1)
      PROVE  \/ n < i /\ n \in 1..Len(rows) /\ t[n] = rows[n]
             \/ n = i /\ t[n] = k
             \/ n > i /\ n - 1 \in 1..Len(rows) /\ n - 1 >= i /\ t[n] = rows[n - 1]
  <2>1. CASE n < i
    <3>1. n \in 1..(i - 1) /\ n \in 1..Len(rows)
        BY <2>1, <1>1
    <3> QED
        BY <2>1, <3>1, <1>2
  <2>2. CASE n = i
      BY <2>2, <1>2
  <2>3. CASE n > i
    <3>1. n \in (i + 1)..(Len(rows) + 1) /\ n - 1 \in 1..Len(rows) /\ n - 1 >= i
        BY <2>3, <1>1
    <3> QED
        BY <2>3, <3>1, <1>2
  <2> QED
      BY <2>1, <2>2, <2>3, <1>1
<1>9. Sorted(t)'
  <2> SUFFICES ASSUME NEW m \in 1..(Len(rows) + 1), NEW n \in 1..(Len(rows) + 1), m < n
               PROVE  Before(t[m], t[n])'
      BY <1>3 DEF Sorted
  <2>1. CASE m < i /\ n < i
    <3>1. m \in 1..Len(rows) /\ n \in 1..Len(rows) /\ t[m] = rows[m] /\ t[n] = rows[n]
        BY <2>1, <1>1, <1>8
    <3> QED
        BY <3>1, <1>1, Zenon DEF Sorted
  <2>2. CASE m < i /\ n = i
    <3>1. m \in 1..Len(rows) /\ t[m] = rows[m] /\ t[n] = k
        BY <2>2, <1>1, <1>8
    <3> QED
        BY <2>2, <3>1, <1>6
  <2>3. CASE m < i /\ n > i
    <3>1. /\ m \in 1..Len(rows) /\ t[m] = rows[m]
          /\ n - 1 \in 1..Len(rows) /\ t[n] = rows[n - 1] /\ m < n - 1
        BY <2>3, <1>1, <1>8
    <3> QED
        BY <3>1, <1>1, Zenon DEF Sorted
  <2>4. CASE m = i /\ n > i
    <3>1. t[m] = k /\ n - 1 \in 1..Len(rows) /\ n - 1 >= i /\ t[n] = rows[n - 1]
        BY <2>4, <1>1, <1>8
    <3> QED
        BY <3>1, <1>7
  <2>5. CASE m > i /\ n > i
    <3>1. /\ m - 1 \in 1..Len(rows) /\ t[m] = rows[m - 1]
          /\ n - 1 \in 1..Len(rows) /\ t[n] = rows[n - 1] /\ m - 1 < n - 1
        BY <2>5, <1>1, <1>8
    <3> QED
        BY <3>1, <1>1, Zenon DEF Sorted
  <2> QED
      BY <2>1, <2>2, <2>3, <2>4, <2>5, <1>1
<1>10. Elements(t) = Elements(rows) \cup {k}
  <2>1. ASSUME NEW x \in Elements(t) PROVE x \in Elements(rows) \cup {k}
    <3>1. PICK n \in 1..(Len(rows) + 1) : x = t[n]
        BY <1>3 DEF Elements
    <3>2. \/ n \in 1..Len(rows) /\ x = rows[n]
          \/ x = k
          \/ n - 1 \in 1..Len(rows) /\ x = rows[n - 1]
        BY <3>1, <1>8
    <3> QED
        BY <3>2, <1>1, Zenon DEF Elements
  <2>2. k \in Elements(t)
      BY <1>2, <1>3 DEF Elements
  <2>3. ASSUME NEW x \in Elements(rows) PROVE x \in Elements(t)
    <3>1. PICK n \in 1..Len(rows) : x = rows[n]
        BY <1>1 DEF Elements
    <3>2. CASE n < i
      <4>1. n \in 1..(Len(rows) + 1) /\ t[n] = x
        <5>1. n \in 1..(i - 1) /\ n \in 1..(Len(rows) + 1)
            BY <3>2, <1>1
        <5> QED
            BY <5>1, <3>1, <1>2
      <4> QED
          BY <4>1, <1>3, Zenon DEF Elements
    <3>3. CASE ~(n < i)
      <4>1. n + 1 \in (i + 1)..(Len(rows) + 1) /\ n + 1 \in 1..(Len(rows) + 1) /\ (n + 1) - 1 = n
          BY <3>3, <1>1
      <4>2. t[n + 1] = x
          BY <4>1, <3>1, <1>2, Zenon
      <4> QED
          BY <4>1, <4>2, <1>3, Zenon DEF Elements
    <3> QED
        BY <3>2, <3>3
  <2> QED
      BY <2>1, <2>2, <2>3, Zenon
<1> QED
    BY <1>2, <1>9, <1>10

\* ConvertToLinkList links the rows of a sorted array in their order.
LEMMA ChainProperties ==
    ASSUME ListAssumption, TypeInv, NEW rows \in Seq(Rows), Len(rows) > 0,
           Elements(rows) \subseteq 1..Len(time), Sorted(rows)
    PROVE  /\ Chain(rows) \in [Nodes -> Rows \cup {None}]
           /\ ChainOK(Chain(rows), Elements(rows))
           /\ \A n \in Rows : Chain(rows)[n] # None => n \in Elements(rows)
<1> PICK f : f = Chain(rows)
    OBVIOUS
<1> PICK N : N = Len(rows)
    OBVIOUS
<1>1. N \in Nat /\ N > 0 /\ DOMAIN rows = 1..N /\ 1 \in 1..N
    OBVIOUS
<1>2. \A m \in 1..N : /\ rows[m] \in Rows /\ rows[m] \in Nodes /\ rows[m] \in Elements(rows)
                      /\ rows[m] \in 1..Len(time) /\ rows[m] # Head0 /\ rows[m] # None
  <2>1. \A m \in 1..N : rows[m] \in Rows /\ rows[m] \in Elements(rows)
      BY <1>1 DEF Elements
  <2> QED
      BY <2>1, TimesAreNumbers DEF Nodes
<1>3. \A m, n \in 1..N : rows[m] = rows[n] => m = n
  <2> SUFFICES ASSUME NEW m \in 1..N, NEW n \in 1..N, rows[m] = rows[n], m # n PROVE FALSE
      OBVIOUS
  <2>1. m < n \/ n < m
      BY <1>1
  <2>2. Before(rows[m], rows[n]) \/ Before(rows[n], rows[m])
      BY <2>1, <1>1 DEF Sorted
  <2> QED
      BY <2>2, <1>2, BeforeIsOrder
<1>4. f[Head0] = rows[1]
    BY DEF Chain, Nodes
<1>5. ASSUME NEW m \in 1..(N - 1) PROVE f[rows[m]] = rows[m + 1]
  <2>1. m \in 1..N
      BY <1>1
  <2>2. rows[m] \in Nodes /\ rows[m] # Head0
      BY <2>1, <1>2
  <2>c. PICK c : c = CHOOSE l \in 1..(N - 1) : rows[l] = rows[m]
      OBVIOUS
  <2>3. c \in 1..(N - 1) /\ rows[c] = rows[m]
      BY <2>c
  <2>4. c = m
      BY <2>1, <2>3, <1>1, <1>3
  <2>5. f[rows[m]] = rows[1 + c]
      BY <2>c, <2>2, Zenon DEF Chain
  <2>6. 1 + c = m + 1
    <3>1. m \in Int
        BY <1>1
    <3> QED
        BY <3>1, <2>4
  <2> QED
      BY <2>5, <2>6
<1>6. f[rows[N]] = None
  <2>1. N \in 1..N /\ rows[N] \in Nodes /\ rows[N] # Head0
      BY <1>1, <1>2
  <2>2. ~\E m \in 1..(N - 1) : rows[m] = rows[N]
      BY <2>1, <1>1, <1>3
  <2> QED
      BY <2>1, <2>2 DEF Chain
<1>7. ASSUME NEW n \in Rows, f[n] # None PROVE n \in Elements(rows)
  <2>1. n \in Nodes /\ n # Head0
      BY DEF Nodes, Rows, Head0
  <2>2. \E m \in 1..(N - 1) : rows[m] = n
      BY <2>1, <1>7 DEF Chain
  <2> QED
      BY <2>2, <1>1, <1>2
<1>8. f \in [Nodes -> Rows \cup {None}]
  <2>1. ASSUME NEW n \in Nodes PROVE f[n] \in Rows \cup {None}
    <3>1. CASE n = Head0
        BY <3>1, <1>1, <1>2, <1>4
    <3>2. CASE n # Head0 /\ \E m \in 1..(N - 1) : rows[m] = n
      <4>1. PICK m \in 1..(N - 1) : rows[m] = n
          BY <3>2
      <4>2. m + 1 \in 1..N
          BY <1>1
      <4> QED
          BY <4>1, <4>2, <1>2, <1>5
    <3>3. CASE n # Head0 /\ ~\E m \in 1..(N - 1) : rows[m] = n
        BY <3>3 DEF Chain
    <3> QED
        BY <3>1, <3>2, <3>3
  <2>2. f = [n \in Nodes |-> f[n]]
      BY DEF Chain
  <2> QED
      BY <2>1, <2>2
<1>9. ASSUME NEW n \in {Head0} \cup Elements(rows)
      PROVE  \/ n = Head0 /\ f[n] = rows[1]
             \/ \E m \in 1..(N - 1) : n = rows[m] /\ f[n] = rows[m + 1]
             \/ n = rows[N] /\ f[n] = None
  <2>1. CASE n = Head0
      BY <2>1, <1>4
  <2>2. CASE n \in Elements(rows)
    <3>1. PICK m \in 1..N : n = rows[m]
        BY <2>2, <1>1 DEF Elements
    <3>2. m = N \/ m \in 1..(N - 1)
        BY <1>1
    <3> QED
        BY <3>1, <3>2, <1>5, <1>6
  <2> QED
      BY <2>1, <2>2
<1>10. ASSUME NEW n \in {Head0} \cup Elements(rows)
       PROVE  /\ f[n] \in Elements(rows) \cup {None}
              /\ f[n] # None => After(n, f[n])
              /\ \A q \in Elements(rows) : After(n, q) => f[n] # None /\ (f[n] = q \/ Before(f[n], q))
  <2>1. CASE n = Head0 /\ f[n] = rows[1]
    <3>1. ASSUME NEW q \in Elements(rows) PROVE rows[1] = q \/ Before(rows[1], q)
      <4>1. PICK m \in 1..N : q = rows[m]
          BY <1>1 DEF Elements
      <4>2. m = 1 \/ 1 < m
          BY <1>1
      <4> QED
          BY <4>1, <4>2, <1>1 DEF Sorted
    <3> QED
        BY <2>1, <3>1, <1>1, <1>2 DEF After
  <2>2. ASSUME NEW m \in 1..(N - 1), n = rows[m], f[n] = rows[m + 1] PROVE <1>10!2
    <3>1. m \in 1..N /\ m + 1 \in 1..N /\ m < m + 1
        BY <1>1
    <3>2. Before(rows[m], rows[m + 1]) /\ rows[m] # Head0
        BY <3>1, <1>1, <1>2 DEF Sorted
    <3>3. ASSUME NEW q \in Elements(rows), After(n, q) PROVE rows[m + 1] = q \/ Before(rows[m + 1], q)
      <4>1. PICK l \in 1..N : q = rows[l]
          BY <1>1 DEF Elements
      <4>2. Before(rows[m], rows[l])
          BY <3>2, <3>3, <2>2, <4>1 DEF After
      <4>3. ~(l < m) /\ l # m
        <5>1. CASE l < m
          <6>1. Before(rows[l], rows[m])
              BY <5>1, <3>1, <1>1 DEF Sorted
          <6> QED
              BY <6>1, <4>2, <3>1, <1>2, BeforeIsOrder
        <5>2. CASE l = m
            BY <5>2, <4>2, <3>1, <1>2, BeforeIsOrder
        <5> QED
            BY <5>1, <5>2
      <4>4. l = m + 1 \/ m + 1 < l
          BY <4>3, <3>1, <1>1
      <4> QED
          BY <4>1, <4>4, <3>1, <1>1 DEF Sorted
    <3> QED
        BY <2>2, <3>1, <3>2, <3>3, <1>2 DEF After
  <2>3. CASE n = rows[N] /\ f[n] = None
    <3>1. ASSUME NEW q \in Elements(rows), After(n, q) PROVE FALSE
      <4>1. PICK l \in 1..N : q = rows[l]
          BY <1>1 DEF Elements
      <4>2. N \in 1..N /\ Before(rows[N], rows[l])
          BY <3>1, <2>3, <4>1, <1>1, <1>2 DEF After
      <4>3. l = N \/ l < N
          BY <1>1
      <4>4. rows[l] = rows[N] \/ Before(rows[l], rows[N])
          BY <4>2, <4>3, <1>1 DEF Sorted
      <4> QED
          BY <4>2, <4>4, <1>2, BeforeIsOrder
    <3> QED
        BY <2>3, <3>1
  <2> QED
      BY <1>9, <2>1, <2>2, <2>3
<1>11. ASSUME NEW q \in Elements(rows)
       PROVE  \E n \in {Head0} \cup Elements(rows) : f[n] = q
  <2>1. PICK m \in 1..N : q = rows[m]
      BY <1>1 DEF Elements
  <2>2. CASE m = 1
      BY <2>1, <2>2, <1>4
  <2>3. CASE m # 1
    <3>1. m - 1 \in 1..(N - 1) /\ m - 1 \in 1..N /\ (m - 1) + 1 = m
        BY <2>3, <1>1
    <3>2. f[rows[m - 1]] = rows[m]
        BY <3>1, <1>5
    <3> QED
        BY <2>1, <3>1, <3>2, <1>2
  <2> QED
      BY <2>2, <2>3
<1>12. ChainOK(f, Elements(rows))
    BY <1>10, <1>11 DEF ChainOK
<1> QED
    BY <1>7, <1>8, <1>12

----------------------------------------------------------------------------
(* The initial state *)

LEMMA NewReaderOK ==
    /\ NewReader \in ReaderType /\ NewReader.pc = "idle" /\ NewReader.known = {} /\ NewReader.read = << >>
    /\ ReaderOK(NewReader)
<1>1. << >> \in Seq(Rows) /\ None \in Nodes \cup {None}
    OBVIOUS
<1>2. NewReader \in ReaderType /\ NewReader.pc = "idle" /\ NewReader.known = {} /\ NewReader.read = << >>
    BY <1>1 DEF NewReader, ReaderType
<1>3. Elements(<< >>) = {} /\ Sorted(<< >>)
    BY DEF Elements, Sorted
<1>4. ReaderOK(NewReader)
    BY <1>2, <1>3 DEF ReaderOK
<1> QED
    BY <1>2, <1>4

LEMMA InitIInv ==
    ASSUME ListAssumption, Init
    PROVE  IInv
<1> USE DEF Init
<1>1. TypeInv
  <2>1. time \in Seq(Nat) /\ Len(time) = 0 /\ array \in Seq(Rows)
      OBVIOUS
  <2>2. Len(time) <= MaxRows
      BY <2>1 DEF ListAssumption
  <2>3. writer \in [pc: {"idle", "store", "delete", "prepare", "publish"},
                    row: Rows \cup {None}, pre: Nodes \cup {None}]
      BY DEF Idle
  <2>4. reader \in [Readers -> ReaderType]
      BY NewReaderOK
  <2> QED
      BY <2>1, <2>2, <2>3, <2>4, Zenon DEF TypeInv
<1>2. PhaseInv
    BY DEF PhaseInv, Idle
<1>3. ArrayInv
    BY DEF ArrayInv, Elements, Sorted
<1>4. LinkInv
  <2>1. ~IsLinked
      BY DEF IsLinked, Idle
  <2>2. \A n \in Nodes : next[n] = None
      OBVIOUS
  <2> QED
      BY <2>1, <2>2 DEF LinkInv, Nodes
<1>5. WriterInv
    BY DEF WriterInv, Idle
<1>6. ReaderInv
    BY NewReaderOK DEF ReaderInv
<1> QED
    BY <1>1, <1>2, <1>3, <1>4, <1>5, <1>6 DEF IInv

----------------------------------------------------------------------------
(* What keeps the readers going *)

\* A reader is not disturbed by an insert or by the conversion of the array.
LEMMA ReaderKept ==
    ASSUME TypeInv, NEW s \in ReaderType, ReaderOK(s), SameTimes, stored \subseteq stored',
           list = "link" => list' = "link",
           ~freed' => ~freed /\ Elements(array) \subseteq Elements(array')
    PROVE  ReaderOK(s)'
<1>1. ReaderOK(s) /\ s \in ReaderType
    OBVIOUS
<1>2. /\ s.known \subseteq stored /\ Elements(s.read) \subseteq stored /\ Sorted(s.read)
      /\ stored \subseteq 1..Len(time)
    BY <1>1 DEF ReaderOK, TypeInv
<1>3. Sorted(s.read)'
    BY <1>2, SortedKept, Zenon
<1>4. \A q \in stored : Wanted(s, q)' <=> Wanted(s, q)
    BY <1>2 DEF Wanted, SameTimes
<1>5. \A p, q \in stored : Before(p, q)' <=> Before(p, q)
    BY <1>2, OrderKept
<1>6. s.known \subseteq stored' /\ Elements(s.read) \subseteq stored'
    BY <1>2, Zenon
<1>7. s.pc # "idle" /\ s.list = "link" => list' = "link"
    BY <1>1, Zenon DEF ReaderOK
<1>8. /\ s.pc \in {"new", "ready", "walk", "found"} => s.read = << >>
      /\ s.pc = "new" /\ s.list = "array" /\ ~freed' => s.known \subseteq Elements(array')
      /\ s.pc \in {"new", "ready"} => s.target = None
    BY <1>1, Zenon DEF ReaderOK
<1>9. ASSUME s.pc \in {"ready", "at"}, s.list = "array"
      PROVE  /\ Elements(s.array) \subseteq stored /\ Elements(s.array) \subseteq stored'
             /\ Sorted(s.array)' /\ s.known \subseteq Elements(s.array)
  <2>1. Elements(s.array) \subseteq stored /\ Sorted(s.array) /\ s.known \subseteq Elements(s.array)
      BY <1>1, <1>9, Zenon DEF ReaderOK
  <2>2. Elements(s.array) \subseteq 1..Len(time)
      BY <2>1, <1>2, Zenon
  <2> QED
      BY <2>1, <2>2, SortedKept
<1>10. ASSUME s.pc = "at", s.list = "array"
       PROVE  /\ s.pos \in DOMAIN s.array
              /\ \A x \in Elements(s.read) : \E m \in 1..s.pos : x = s.array[m]
              /\ \A m \in 1..s.pos : Wanted(s, s.array[m])' => s.array[m] \in Elements(s.read)
  <2>1. /\ s.pos \in DOMAIN s.array
        /\ \A x \in Elements(s.read) : \E m \in 1..s.pos : x = s.array[m]
        /\ \A m \in 1..s.pos : Wanted(s, s.array[m]) => s.array[m] \in Elements(s.read)
      BY <1>1, <1>10, Zenon DEF ReaderOK
  <2>2. \A m \in 1..s.pos : s.array[m] \in stored
    <3>1. s.array \in Seq(Rows) /\ s.pos \in 1..Len(s.array)
        BY <2>1, <1>1 DEF ReaderType
    <3>2. \A m \in 1..s.pos : m \in DOMAIN s.array
        BY <3>1
    <3> QED
        BY <3>2, <1>9, <1>10 DEF Elements
  <2> QED
      BY <2>1, <2>2, <1>4
<1>11. ASSUME s.pc \in {"walk", "found"}
       PROVE  /\ s.list = "link" /\ s.target # None
              /\ s.node \in {Head0} \cup stored'
              /\ s.node = Head0 \/ time'[s.node] > s.target
  <2>1. /\ s.list = "link" /\ s.target # None
        /\ s.node \in {Head0} \cup stored
        /\ s.node = Head0 \/ time[s.node] > s.target
      BY <1>1, <1>11, Zenon DEF ReaderOK
  <2> QED
      BY <2>1, <1>2, Zenon DEF SameTimes
<1>12. ASSUME s.pc = "at", s.list = "link"
       PROVE  /\ s.node \in stored'
              /\ \A x \in Elements(s.read) : x = s.node \/ Before(x, s.node)'
              /\ \A q \in s.known : Wanted(s, q)' => q \in Elements(s.read) \/ Before(s.node, q)'
  <2>1. /\ s.node \in stored
        /\ \A x \in Elements(s.read) : x = s.node \/ Before(x, s.node)
        /\ \A q \in s.known : Wanted(s, q) => q \in Elements(s.read) \/ Before(s.node, q)
      BY <1>1, <1>12, Zenon DEF ReaderOK
  <2> QED
      BY <2>1, <1>2, <1>4, <1>5, Zenon
<1>13. s.pc = "end" => \A q \in s.known : Wanted(s, q)' => q \in Elements(s.read)
    BY <1>1, <1>2, <1>4, Zenon DEF ReaderOK
<1> QED
    BY <1>3, <1>6, <1>7, <1>8, <1>9, <1>10, <1>11, <1>12, <1>13, Zenon DEF ReaderOK

LEMMA ReadersKept ==
    ASSUME TypeInv, ReaderInv, UNCHANGED reader, SameTimes, stored \subseteq stored',
           list = "link" => list' = "link",
           ~freed' => ~freed /\ Elements(array) \subseteq Elements(array')
    PROVE  ReaderInv'
<1> SUFFICES ASSUME NEW r \in Readers PROVE ReaderOK(reader[r])'
    BY DEF ReaderInv
<1> PICK s : s = reader[r]
    OBVIOUS
<1>1. ReaderOK(s) /\ s \in ReaderType /\ reader'[r] = s
    BY DEF ReaderInv, TypeInv
<1>2. ReaderOK(s)'
    BY <1>1, ReaderKept
<1> QED
    BY <1>1, <1>2

\* A step of a reader, which writes nothing
LEMMA ReaderStep ==
    ASSUME IInv, NEW r \in Readers, NEW s \in ReaderType, ReaderOK(s), Moves(r, s)
    PROVE  IInv'
<1>1. /\ UNCHANGED <<time, stored, list, freed, array, next, writer>>
      /\ reader' = [reader EXCEPT ![r] = s]
    BY DEF Moves, writing
<1>2. TypeInv'
    BY <1>1 DEF IInv, TypeInv
<1>3. \A p, q : Before(p, q)' = Before(p, q)
    BY <1>1 DEF Before
<1>4. PhaseInv' /\ WriterInv'
    BY <1>1 DEF IInv, PhaseInv, WriterInv
<1>5. ArrayInv'
    BY <1>1 DEF IInv, ArrayInv, Sorted, Before
<1>6. LinkInv'
    BY <1>1 DEF IInv, LinkInv, IsLinked, ChainOK, After, Before
<1>7. ReaderInv'
  <2> SUFFICES ASSUME NEW q \in Readers PROVE ReaderOK(reader[q])'
      BY DEF ReaderInv
  <2> PICK t : t = reader'[q]
      OBVIOUS
  <2>1. ReaderOK(t) /\ t \in ReaderType
      BY <1>1 DEF IInv, ReaderInv, TypeInv
  <2>2. TypeInv /\ SameTimes
      BY <1>1 DEF SameTimes, IInv
  <2>3. ReaderOK(t)'
      BY <2>1, <2>2, <1>1, ReaderKept
  <2> QED
      BY <2>3
<1> QED
    BY <1>2, <1>4, <1>5, <1>6, <1>7 DEF IInv

----------------------------------------------------------------------------
(* Steps of a reader *)

LEMMA StoredRows ==
    ASSUME ListAssumption, TypeInv
    PROVE  stored \subseteq Rows /\ stored \subseteq 1..Len(time)
<1>1. stored \subseteq 1..Len(time) /\ Len(time) \in Nat /\ Len(time) <= MaxRows /\ MaxRows \in Nat
    BY TimesAreNumbers DEF TypeInv, ListAssumption
<1> QED
    BY <1>1 DEF Rows

LEMMA LoadListStep ==
    ASSUME ListAssumption, IInv, NEW r \in Readers, LoadList(r)
    PROVE  IInv'
<1> PICK s : s = [NewReader EXCEPT !.pc = "new", !.list = list, !.known = stored]
    OBVIOUS
<1>1. Moves(r, s)
    BY DEF LoadList
<1>2. s.pc = "new" /\ s.list = list /\ s.known = stored /\ s.read = << >> /\ s.target = None
    BY DEF NewReader
<1>3. stored \subseteq Rows
    BY StoredRows DEF IInv
<1>4. s \in ReaderType
  <2>1. << >> \in Seq(Rows) /\ None \in Nodes \cup {None}
      OBVIOUS
  <2>2. list \in {"array", "link"}
      BY DEF IInv, TypeInv
  <2> QED
      BY <2>1, <2>2, <1>3, Zenon DEF ReaderType, NewReader
<1>5. Elements(s.read) = {} /\ Sorted(s.read)
    BY <1>2 DEF Elements, Sorted
<1>6. ~freed => stored = Elements(array)
    BY DEF IInv, ArrayInv
<1>7. ReaderOK(s)
    BY <1>2, <1>5, <1>6 DEF ReaderOK
<1> QED
    BY <1>1, <1>4, <1>7, ReaderStep

LEMMA NewIteratorStep ==
    ASSUME IInv, NEW r \in Readers, NewIterator(r)
    PROVE  IInv'
<1> PICK t : t = reader[r]
    OBVIOUS
<1>1. t \in ReaderType /\ ReaderOK(t) /\ t.pc = "new"
    BY DEF IInv, TypeInv, ReaderInv, NewIterator
<1>2. /\ t.known \subseteq stored /\ t.read = << >> /\ t.target = None
      /\ Elements(t.read) \subseteq stored /\ Sorted(t.read)
      /\ t.list = "link" => list = "link"
      /\ t.list = "array" /\ ~freed => t.known \subseteq Elements(array)
    BY <1>1, Zenon DEF ReaderOK
<1>3. CASE t.list = "link"
  <2> PICK s : s = [t EXCEPT !.pc = "ready"]
      BY Zenon
  <2>1. Moves(r, s)
      BY <1>3 DEF NewIterator
  <2>2. /\ s \in ReaderType /\ s.pc = "ready" /\ s.list = t.list /\ s.known = t.known
        /\ s.read = t.read /\ s.target = t.target
      BY <1>1, Zenon DEF ReaderType
  <2>3. ReaderOK(s)
      BY <2>2, <1>2, <1>3 DEF ReaderOK
  <2> QED
      BY <2>1, <2>2, <2>3, ReaderStep
<1>4. CASE t.list # "link" /\ freed
  <2> PICK s : s = [t EXCEPT !.pc = "undefined"]
      BY Zenon
  <2>1. Moves(r, s)
      BY <1>4 DEF NewIterator
  <2>2. /\ s \in ReaderType /\ s.pc = "undefined" /\ s.list = t.list /\ s.known = t.known
        /\ s.read = t.read /\ s.target = t.target
      BY <1>1 DEF ReaderType
  <2>3. ReaderOK(s)
      BY <2>2, <1>2, <1>4 DEF ReaderOK
  <2> QED
      BY <2>1, <2>2, <2>3, ReaderStep
<1>5. CASE t.list # "link" /\ ~freed
  <2> PICK s : s = [t EXCEPT !.pc = "ready", !.array = array]
      OBVIOUS
  <2>1. Moves(r, s)
      BY <1>5 DEF NewIterator
  <2>2. /\ s \in ReaderType /\ s.pc = "ready" /\ s.list = t.list /\ s.known = t.known
        /\ s.read = t.read /\ s.target = t.target /\ s.array = array
      BY <1>1, Zenon DEF ReaderType, IInv, TypeInv
  <2>3. t.list = "array"
      BY <1>1, <1>5 DEF ReaderType
  <2>4. Elements(array) \subseteq stored /\ Sorted(array)
      BY DEF IInv, ArrayInv
  <2>5. ReaderOK(s)
      BY <2>2, <2>3, <2>4, <1>2, <1>5 DEF ReaderOK
  <2> QED
      BY <2>1, <2>2, <2>5, ReaderStep
<1> QED
    BY <1>3, <1>4, <1>5

\* An iterator on the array that read what it wanted of the rows before pos goes
\* to pos.
LEMMA ReadArrayOK ==
    ASSUME ListAssumption, TypeInv, NEW t \in ReaderType, t.list = "array",
           Elements(t.array) \subseteq stored, Sorted(t.array), t.known \subseteq Elements(t.array),
           Elements(t.read) \subseteq stored, Sorted(t.read),
           NEW pos \in Nat, pos > 0, pos <= Len(t.array) + 1,
           \A x \in Elements(t.read) : \E m \in 1..(pos - 1) : x = t.array[m],
           \A m \in 1..(pos - 1) : Wanted(t, t.array[m]) => t.array[m] \in Elements(t.read),
           NEW s,
           s = IF pos > Len(t.array) THEN [t EXCEPT !.pc = "end"]
               ELSE [t EXCEPT !.pc = "at", !.pos = pos, !.read = Append(@, t.array[pos])]
    PROVE  s \in ReaderType /\ ReaderOK(s)
<1> PICK a : a = t.array
    OBVIOUS
<1>1. /\ a \in Seq(Rows) /\ Len(a) \in Nat /\ DOMAIN a = 1..Len(a) /\ t.read \in Seq(Rows)
      /\ t.known \subseteq stored
    BY DEF ReaderType
<1>2. CASE pos > Len(t.array)
  <2>1. s = [t EXCEPT !.pc = "end"]
      BY <1>2
  <2>2. /\ s \in ReaderType /\ s.pc = "end" /\ s.known = t.known /\ s.read = t.read
        /\ s.target = t.target /\ s.list = "array"
      BY <2>1, Zenon DEF ReaderType
  <2>3. pos - 1 = Len(a)
      BY <1>1, <1>2
  <2>4. ASSUME NEW q \in t.known, Wanted(t, q) PROVE q \in Elements(t.read)
    <3>1. PICK m \in DOMAIN a : q = a[m]
        BY DEF Elements
    <3>2. m \in 1..(pos - 1)
        BY <2>3, <3>1, <1>1
    <3> QED
        BY <3>1, <3>2, <2>4
  <2>5. \A q \in s.known : Wanted(s, q) => q \in Elements(s.read)
      BY <2>2, <2>4 DEF Wanted
  <2> QED
      BY <2>2, <2>5, <1>1 DEF ReaderOK
<1>3. CASE ~(pos > Len(t.array))
  <2>1. s = [t EXCEPT !.pc = "at", !.pos = pos, !.read = Append(@, a[pos])]
      BY <1>3
  <2>2. pos \in 1..Len(a) /\ a[pos] \in Rows /\ a[pos] \in Elements(a)
      BY <1>1, <1>3 DEF Elements
  <2>r. PICK r : r = Append(t.read, a[pos])
      BY Zenon
  <2>3. r \in Seq(Rows)
      BY <2>r, <2>2, <1>1
  <2>4. Elements(r) = Elements(t.read) \cup {a[pos]}
      BY <2>r, <2>2, <1>1, AppendElements
  <2>5. s = [t EXCEPT !.pc = "at", !.pos = pos, !.read = r]
      BY <2>1, <2>r, Zenon
  <2>6. /\ s \in ReaderType /\ s.pc = "at" /\ s.pos = pos /\ s.known = t.known /\ s.read = r
        /\ s.target = t.target /\ s.list = "array" /\ s.array = a
      BY <2>5, <2>3, Zenon DEF ReaderType
  <2>7. \A x \in Elements(t.read) : Before(x, a[pos])
    <3> SUFFICES ASSUME NEW x \in Elements(t.read) PROVE Before(x, a[pos])
        OBVIOUS
    <3>1. PICK m \in 1..(pos - 1) : x = a[m]
        OBVIOUS
    <3>2. m \in DOMAIN a /\ pos \in DOMAIN a /\ m < pos
        BY <1>1, <2>2
    <3> QED
        BY <3>1, <3>2 DEF Sorted
  <2>8. Sorted(r)
      BY <2>r, <2>7, <2>2, <1>1, AppendSorted, Zenon
  <2>9. 1..(pos - 1) \subseteq 1..pos /\ pos \in 1..pos /\ \A m \in 1..pos : m = pos \/ m \in 1..(pos - 1)
      OBVIOUS
  <2>10. \A x \in Elements(r) : \E m \in 1..pos : x = a[m]
      BY <2>4, <2>9
  <2>11. \A m \in 1..pos : Wanted(s, a[m]) => a[m] \in Elements(r)
      BY <2>4, <2>6, <2>9 DEF Wanted
  <2>12. /\ Elements(s.read) \subseteq stored /\ Sorted(s.read) /\ s.known \subseteq stored
         /\ Elements(s.array) \subseteq stored /\ Sorted(s.array) /\ s.known \subseteq Elements(s.array)
      BY <1>1, <2>2, <2>4, <2>6, <2>8, Zenon
  <2>13. /\ s.pos \in DOMAIN s.array
         /\ \A x \in Elements(s.read) : \E m \in 1..s.pos : x = s.array[m]
         /\ \A m \in 1..s.pos : Wanted(s, s.array[m]) => s.array[m] \in Elements(s.read)
      BY <1>1, <2>2, <2>6, <2>10, <2>11
  <2> QED
      BY <2>6, <2>12, <2>13 DEF ReaderOK
<1> QED
    BY <1>2, <1>3

\* An iterator on the linked list that read what it wanted of the rows up to node
\* n follows the link of n.
LEMMA ReadLinkOK ==
    ASSUME ListAssumption, TypeInv, LinkInv, list = "link",
           NEW t \in ReaderType, t.list = "link", t.known \subseteq stored,
           Elements(t.read) \subseteq stored, Sorted(t.read),
           NEW n \in {Head0} \cup stored,
           \A x \in Elements(t.read) : n # Head0 /\ (x = n \/ Before(x, n)),
           \A q \in t.known : Wanted(t, q) => q \in Elements(t.read) \/ After(n, q),
           NEW node, node = next[n], NEW s,
           s = IF node = None THEN [t EXCEPT !.pc = "end"]
               ELSE [t EXCEPT !.pc = "at", !.node = node, !.read = Append(@, node)]
    PROVE  s \in ReaderType /\ ReaderOK(s)
<1>1. ChainOK(next, stored)
    BY DEF LinkInv, IsLinked
<1>2. /\ node \in stored \cup {None}
      /\ node # None => After(n, node)
      /\ \A q \in stored : After(n, q) => node # None /\ (node = q \/ Before(node, q))
    BY <1>1 DEF ChainOK
<1>3. stored \subseteq Rows /\ stored \subseteq 1..Len(time) /\ t.read \in Seq(Rows)
    BY StoredRows DEF ReaderType
<1>4. CASE node = None
  <2>1. s = [t EXCEPT !.pc = "end"]
      BY <1>4
  <2>2. /\ s \in ReaderType /\ s.pc = "end" /\ s.known = t.known /\ s.read = t.read
        /\ s.target = t.target /\ s.list = "link"
      BY <2>1, Zenon DEF ReaderType
  <2>3. \A q \in s.known : Wanted(s, q) => q \in Elements(s.read)
      BY <2>2, <1>2, <1>4 DEF Wanted
  <2> QED
      BY <2>2, <2>3 DEF ReaderOK
<1>5. CASE node # None
  <2>1. s = [t EXCEPT !.pc = "at", !.node = node, !.read = Append(@, node)]
      BY <1>5
  <2>2. node \in stored /\ node \in Rows /\ node \in Nodes
      BY <1>2, <1>3, <1>5 DEF Nodes
  <2>r. PICK r : r = Append(t.read, node)
      BY Zenon
  <2>3. r \in Seq(Rows)
      BY <2>r, <2>2, <1>3
  <2>4. Elements(r) = Elements(t.read) \cup {node}
      BY <2>r, <2>2, <1>3, AppendElements
  <2>5. s = [t EXCEPT !.pc = "at", !.node = node, !.read = r]
      BY <2>1, <2>r, Zenon
  <2>6. /\ s \in ReaderType /\ s.pc = "at" /\ s.node = node /\ s.known = t.known /\ s.read = r
        /\ s.target = t.target /\ s.list = "link"
      BY <2>5, <2>3, <2>2, Zenon DEF ReaderType
  <2>7. \A x \in Elements(t.read) : Before(x, node)
    <3> SUFFICES ASSUME NEW x \in Elements(t.read) PROVE Before(x, node)
        OBVIOUS
    <3>1. n # Head0 /\ (x = n \/ Before(x, n)) /\ n \in stored /\ x \in stored
        OBVIOUS
    <3>2. Before(n, node)
        BY <3>1, <1>2, <1>5 DEF After
    <3> QED
        BY <3>1, <3>2, <2>2, <1>3, BeforeIsOrder
  <2>8. Sorted(r)
      BY <2>r, <2>7, <2>2, <1>3, AppendSorted, Zenon
  <2>9. \A x \in Elements(r) : x = node \/ Before(x, node)
      BY <2>4, <2>7
  <2>10. \A q \in t.known : Wanted(s, q) => q \in Elements(r) \/ Before(node, q)
    <3> SUFFICES ASSUME NEW q \in t.known, Wanted(s, q), q \notin Elements(r) PROVE Before(node, q)
        OBVIOUS
    <3>1. Wanted(t, q)
        BY <2>6 DEF Wanted
    <3>2. After(n, q) /\ q # node
        BY <3>1, <2>4
    <3> QED
        BY <3>2, <1>2
  <2> QED
      BY <2>2, <2>4, <2>6, <2>8, <2>9, <2>10, Zenon DEF ReaderOK
<1> QED
    BY <1>4, <1>5

LEMMA SeekToFirstStep ==
    ASSUME ListAssumption, IInv, NEW r \in Readers, SeekToFirst(r)
    PROVE  IInv'
<1> PICK t : t = reader[r]
    OBVIOUS
<1>1. t \in ReaderType /\ ReaderOK(t) /\ t.pc = "ready"
    BY DEF IInv, TypeInv, ReaderInv, SeekToFirst
<1>2. /\ t.known \subseteq stored /\ t.read = << >> /\ t.target = None
      /\ Elements(t.read) \subseteq stored /\ Sorted(t.read)
      /\ t.list = "link" => list = "link"
      /\ t.list = "array" => /\ Elements(t.array) \subseteq stored /\ Sorted(t.array)
                             /\ t.known \subseteq Elements(t.array)
    BY <1>1, Zenon DEF ReaderOK
<1>3. Elements(t.read) = {}
    BY <1>2 DEF Elements
<1>4. CASE t.list = "array"
  <2> PICK s : s = ReadArray(r, 1)
      OBVIOUS
  <2>1. Moves(r, s)
      BY <1>4 DEF SeekToFirst, OnArray
  <2>2. s = IF 1 > Len(t.array) THEN [t EXCEPT !.pc = "end"]
            ELSE [t EXCEPT !.pc = "at", !.pos = 1, !.read = Append(@, t.array[1])]
      BY DEF ReadArray
  <2>3. 1 \in Nat /\ 1 > 0 /\ 1 <= Len(t.array) + 1 /\ 1..(1 - 1) = {}
      BY <1>1 DEF ReaderType
  <2>4. s \in ReaderType /\ ReaderOK(s)
      BY <2>2, <2>3, <1>1, <1>2, <1>3, <1>4, ReadArrayOK, Zenon DEF IInv
  <2> QED
      BY <2>1, <2>4, ReaderStep
<1>5. CASE t.list # "array"
  <2> PICK s : s = ReadLink(r, next[Head0])
      OBVIOUS
  <2>1. Moves(r, s) /\ t.list = "link"
      BY <1>1, <1>5 DEF SeekToFirst, OnArray, ReaderType
  <2>2. s = IF next[Head0] = None THEN [t EXCEPT !.pc = "end"]
            ELSE [t EXCEPT !.pc = "at", !.node = next[Head0], !.read = Append(@, next[Head0])]
      BY DEF ReadLink
  <2>3. \A q \in t.known : After(Head0, q)
      BY DEF After
  <2>4. s \in ReaderType /\ ReaderOK(s)
      BY <2>1, <2>2, <2>3, <1>1, <1>2, <1>3, ReadLinkOK, Zenon DEF IInv
  <2> QED
      BY <2>1, <2>4, ReaderStep
<1> QED
    BY <1>4, <1>5

LEMMA SeekArrayStep ==
    ASSUME ListAssumption, IInv, NEW r \in Readers, NEW key \in Nat, SeekArray(r, key)
    PROVE  IInv'
<1>t. PICK t : t = [reader[r] EXCEPT !.target = key]
    BY Zenon
<1>1. reader[r] \in ReaderType /\ ReaderOK(reader[r]) /\ reader[r].pc = "ready" /\ reader[r].list = "array"
    BY DEF IInv, TypeInv, ReaderInv, SeekArray, OnArray
<1>2. /\ t \in ReaderType /\ t.pc = "ready" /\ t.list = "array" /\ t.target = key
      /\ t.known = reader[r].known /\ t.read = reader[r].read /\ t.array = reader[r].array
    BY <1>1, <1>t, Zenon DEF ReaderType
<1>3. /\ t.read = << >> /\ Elements(t.read) \subseteq stored /\ Sorted(t.read)
      /\ Elements(t.array) \subseteq stored /\ Sorted(t.array) /\ t.known \subseteq Elements(t.array)
    BY <1>1, <1>2 DEF ReaderOK
<1>4. Elements(t.read) = {}
    BY <1>3 DEF Elements
<1>5. PICK pos : pos = FindLessOrEqual(t.array, key)
    OBVIOUS
<1>6. t.array \in Seq(Rows) /\ Elements(t.array) \subseteq 1..Len(time)
    BY <1>2, <1>3, StoredRows DEF ReaderType, IInv
<1>7. pos \in 1..(Len(t.array) + 1) /\ \A m \in 1..(pos - 1) : time[t.array[m]] > key
    BY <1>5, <1>6, FindProperties, Zenon DEF IInv
<1>8. pos \in Nat /\ pos > 0 /\ pos <= Len(t.array) + 1 /\ Len(t.array) \in Nat
    BY <1>6, <1>7
<1>9. \A m \in 1..(pos - 1) : ~Wanted(t, t.array[m])
  <2> SUFFICES ASSUME NEW m \in 1..(pos - 1) PROVE ~Wanted(t, t.array[m])
      OBVIOUS
  <2>1. m \in DOMAIN t.array
      BY <1>6, <1>8
  <2>2. time[t.array[m]] \in Nat
      BY <2>1, <1>6, TimesAreNumbers, Zenon DEF Elements, IInv
  <2>3. time[t.array[m]] > key /\ key # None
      BY <1>7 DEF None
  <2> QED
      BY <2>2, <2>3, <1>2 DEF Wanted
<1> PICK s : s = IF pos > Len(t.array) THEN [t EXCEPT !.pc = "end"]
                 ELSE [t EXCEPT !.pc = "at", !.pos = pos, !.read = Append(@, t.array[pos])]
    BY Zenon
<1>10. s \in ReaderType /\ ReaderOK(s)
  <2>1. TypeInv
      BY DEF IInv
  <2>2. \A x \in Elements(t.read) : \E m \in 1..(pos - 1) : x = t.array[m]
      BY <1>4
  <2>3. \A m \in 1..(pos - 1) : Wanted(t, t.array[m]) => t.array[m] \in Elements(t.read)
      BY <1>9
  <2> QED
      BY <2>1, <2>2, <2>3, <1>2, <1>3, <1>8, ReadArrayOK, Zenon
<1>11. s = [ReadArray(r, pos) EXCEPT !.target = key]
  <2>1. CASE pos > Len(t.array)
      BY <2>1, <1>t, <1>1, <1>2, Zenon DEF ReadArray, ReaderType
  <2>2. CASE ~(pos > Len(t.array))
    <3> PICK rd : rd = Append(t.read, t.array[pos])
        BY Zenon
    <3>1. s = [t EXCEPT !.pc = "at", !.pos = pos, !.read = rd]
        BY <2>2
    <3>2. ReadArray(r, pos) = [reader[r] EXCEPT !.pc = "at", !.pos = pos, !.read = rd]
        BY <2>2, <1>2 DEF ReadArray
    <3> QED
        BY <3>1, <3>2, <1>t, <1>1, Zenon DEF ReaderType
  <2> QED
      BY <2>1, <2>2
<1>12. Moves(r, s)
    BY <1>5, <1>11, <1>2 DEF SeekArray
<1> QED
    BY <1>10, <1>12, ReaderStep

LEMMA SeekLinkStep ==
    ASSUME IInv, NEW r \in Readers, NEW key \in Nat, SeekLink(r, key)
    PROVE  IInv'
<1> PICK t : t = reader[r]
    OBVIOUS
<1>1. t \in ReaderType /\ ReaderOK(t) /\ t.pc = "ready" /\ t.list = "link"
    BY DEF IInv, TypeInv, ReaderInv, SeekLink, OnArray, ReaderType
<1>2. /\ t.known \subseteq stored /\ t.read = << >>
      /\ Elements(t.read) \subseteq stored /\ Sorted(t.read) /\ list = "link"
    BY <1>1, Zenon DEF ReaderOK
<1> PICK s : s = [t EXCEPT !.pc = "walk", !.node = Head0, !.target = key]
    OBVIOUS
<1>3. Moves(r, s)
    BY DEF SeekLink
<1>4. /\ s \in ReaderType /\ s.pc = "walk" /\ s.list = "link" /\ s.known = t.known /\ s.read = t.read
      /\ s.node = Head0 /\ s.target = key /\ key # None
  <2>1. Head0 \in Nodes
      BY DEF Nodes
  <2>2. key # None
      BY DEF None
  <2> QED
      BY <2>1, <2>2, <1>1, Zenon DEF ReaderType
<1>5. ReaderOK(s)
    BY <1>2, <1>4 DEF ReaderOK
<1> QED
    BY <1>3, <1>4, <1>5, ReaderStep

LEMMA WalkOnStep ==
    ASSUME ListAssumption, IInv, NEW r \in Readers, WalkOn(r)
    PROVE  IInv'
<1> PICK t : t = reader[r]
    OBVIOUS
<1>1. t \in ReaderType /\ ReaderOK(t) /\ t.pc = "walk"
    BY DEF IInv, TypeInv, ReaderInv, WalkOn
<1>2. /\ t.known \subseteq stored /\ t.read = << >> /\ t.list = "link" /\ t.target # None
      /\ Elements(t.read) \subseteq stored /\ Sorted(t.read) /\ list = "link"
      /\ t.node \in {Head0} \cup stored
      /\ t.node = Head0 \/ time[t.node] > t.target
    BY <1>1, Zenon DEF ReaderOK
<1> PICK node : node = next[t.node]
    OBVIOUS
<1>3. node \in stored \cup {None}
    BY <1>2 DEF IInv, LinkInv, IsLinked, ChainOK
<1>4. CASE node # None /\ time[node] > t.target
  <2> PICK s : s = [t EXCEPT !.node = node]
      BY Zenon
  <2>1. Moves(r, s)
      BY <1>4 DEF WalkOn
  <2>2. node \in Nodes /\ node \in stored
      BY <1>3, <1>4, StoredRows DEF Nodes, IInv
  <2>3. /\ s \in ReaderType /\ s.pc = "walk" /\ s.list = "link" /\ s.known = t.known /\ s.read = t.read
        /\ s.node = node /\ s.target = t.target
      BY <2>2, <1>1, <1>2 DEF ReaderType
  <2>4. ReaderOK(s)
      BY <1>2, <1>4, <2>2, <2>3 DEF ReaderOK
  <2> QED
      BY <2>1, <2>3, <2>4, ReaderStep
<1>5. CASE ~(node # None /\ time[node] > t.target)
  <2> PICK s : s = [t EXCEPT !.pc = "found"]
      BY Zenon
  <2>1. Moves(r, s)
      BY <1>5 DEF WalkOn
  <2>2. /\ s \in ReaderType /\ s.pc = "found" /\ s.list = "link" /\ s.known = t.known /\ s.read = t.read
        /\ s.node = t.node /\ s.target = t.target
      BY <1>1, <1>2 DEF ReaderType
  <2>3. ReaderOK(s)
      BY <1>2, <2>2 DEF ReaderOK
  <2> QED
      BY <2>1, <2>2, <2>3, ReaderStep
<1> QED
    BY <1>4, <1>5

LEMMA StepFromFoundStep ==
    ASSUME ListAssumption, IInv, NEW r \in Readers, StepFromFound(r)
    PROVE  IInv'
<1> PICK t : t = reader[r]
    OBVIOUS
<1>1. t \in ReaderType /\ ReaderOK(t) /\ t.pc = "found"
    BY DEF IInv, TypeInv, ReaderInv, StepFromFound
<1>2. /\ t.known \subseteq stored /\ t.read = << >> /\ t.list = "link" /\ t.target # None
      /\ Elements(t.read) \subseteq stored /\ Sorted(t.read) /\ list = "link"
      /\ t.node \in {Head0} \cup stored
      /\ t.node = Head0 \/ time[t.node] > t.target
    BY <1>1, Zenon DEF ReaderOK
<1>3. Elements(t.read) = {}
    BY <1>2 DEF Elements
<1>4. ASSUME NEW q \in t.known, Wanted(t, q), t.node # Head0 PROVE Before(t.node, q)
  <2> PICK n : n = t.node
      OBVIOUS
  <2> PICK g : g = t.target
      OBVIOUS
  <2>1. n \in stored /\ q \in stored /\ time[n] > g /\ time[q] <= g
      BY <1>2, <1>4 DEF Wanted
  <2>2. time[n] \in Nat /\ time[q] \in Nat /\ g \in Nat
      BY <2>1, <1>1, <1>2, StoredRows, TimesAreNumbers DEF ReaderType, IInv
  <2>3. time[n] > time[q]
      BY <2>1, <2>2
  <2> QED
      BY <2>3 DEF Before
<1>5. \A q \in t.known : Wanted(t, q) => q \in Elements(t.read) \/ After(t.node, q)
    BY <1>4 DEF After
<1> PICK s : s = ReadLink(r, next[t.node])
    OBVIOUS
<1>6. Moves(r, s)
    BY DEF StepFromFound
<1>7. s = IF next[t.node] = None THEN [t EXCEPT !.pc = "end"]
          ELSE [t EXCEPT !.pc = "at", !.node = next[t.node], !.read = Append(@, next[t.node])]
    BY DEF ReadLink
<1>8. s \in ReaderType /\ ReaderOK(s)
    BY <1>1, <1>2, <1>3, <1>5, <1>7, ReadLinkOK, Zenon DEF IInv
<1> QED
    BY <1>6, <1>8, ReaderStep

LEMMA Next1Step ==
    ASSUME ListAssumption, IInv, NEW r \in Readers, Next1(r)
    PROVE  IInv'
<1> PICK t : t = reader[r]
    OBVIOUS
<1>1. t \in ReaderType /\ ReaderOK(t) /\ t.pc = "at"
    BY DEF IInv, TypeInv, ReaderInv, Next1
<1>2. /\ t.known \subseteq stored /\ Elements(t.read) \subseteq stored /\ Sorted(t.read)
    BY <1>1 DEF ReaderOK
<1>3. CASE t.list = "array"
  <2>1. /\ Elements(t.array) \subseteq stored /\ Sorted(t.array) /\ t.known \subseteq Elements(t.array)
        /\ t.pos \in DOMAIN t.array
        /\ \A x \in Elements(t.read) : \E m \in 1..t.pos : x = t.array[m]
        /\ \A m \in 1..t.pos : Wanted(t, t.array[m]) => t.array[m] \in Elements(t.read)
      BY <1>1, <1>3 DEF ReaderOK
  <2>2. t.array \in Seq(Rows) /\ t.pos \in Nat
      BY <1>1 DEF ReaderType
  <2> PICK pos : pos = t.pos + 1
      OBVIOUS
  <2>3. pos \in Nat /\ pos > 0 /\ pos <= Len(t.array) + 1 /\ pos - 1 = t.pos
      BY <2>1, <2>2
  <2> PICK s : s = ReadArray(r, pos)
      OBVIOUS
  <2>4. Moves(r, s)
      BY <1>3 DEF Next1, OnArray
  <2>5. s = IF pos > Len(t.array) THEN [t EXCEPT !.pc = "end"]
            ELSE [t EXCEPT !.pc = "at", !.pos = pos, !.read = Append(@, t.array[pos])]
      BY DEF ReadArray
  <2>6. /\ \A x \in Elements(t.read) : \E m \in 1..(pos - 1) : x = t.array[m]
        /\ \A m \in 1..(pos - 1) : Wanted(t, t.array[m]) => t.array[m] \in Elements(t.read)
      BY <2>1, <2>3
  <2>7. s \in ReaderType /\ ReaderOK(s)
      BY <2>1, <2>3, <2>5, <2>6, <1>1, <1>2, <1>3, ReadArrayOK, Zenon DEF IInv
  <2> QED
      BY <2>4, <2>7, ReaderStep
<1>4. CASE t.list # "array"
  <2>1. t.list = "link" /\ list = "link"
      BY <1>1, <1>4 DEF ReaderType, ReaderOK
  <2>2. /\ t.node \in stored
        /\ \A x \in Elements(t.read) : x = t.node \/ Before(x, t.node)
        /\ \A q \in t.known : Wanted(t, q) => q \in Elements(t.read) \/ Before(t.node, q)
      BY <1>1, <2>1 DEF ReaderOK
  <2>3. t.node # Head0
      BY <2>2, StoredRows, TimesAreNumbers DEF IInv
  <2> PICK s : s = ReadLink(r, next[t.node])
      OBVIOUS
  <2>4. Moves(r, s)
      BY <1>4 DEF Next1, OnArray
  <2>5. s = IF next[t.node] = None THEN [t EXCEPT !.pc = "end"]
            ELSE [t EXCEPT !.pc = "at", !.node = next[t.node], !.read = Append(@, next[t.node])]
      BY DEF ReadLink
  <2>6. \A q \in t.known : Wanted(t, q) => q \in Elements(t.read) \/ After(t.node, q)
      BY <2>2 DEF After
  <2>7. s \in ReaderType /\ ReaderOK(s)
      BY <2>1, <2>2, <2>3, <2>5, <2>6, <1>1, <1>2, ReadLinkOK, Zenon DEF IInv
  <2> QED
      BY <2>4, <2>7, ReaderStep
<1> QED
    BY <1>3, <1>4

LEMMA ReadStep ==
    ASSUME ListAssumption, IInv, NEW r \in Readers, Read(r)
    PROVE  IInv'
<1>1. CASE LoadList(r)
    BY <1>1, LoadListStep
<1>2. CASE NewIterator(r)
    BY <1>2, NewIteratorStep
<1>3. CASE SeekToFirst(r)
    BY <1>3, SeekToFirstStep
<1>4. ASSUME NEW key \in Targets, SeekArray(r, key) \/ SeekLink(r, key) PROVE IInv'
  <2>1. key \in Nat
      BY DEF ListAssumption
  <2> QED
      BY <1>4, <2>1, SeekArrayStep, SeekLinkStep
<1>5. CASE WalkOn(r)
    BY <1>5, WalkOnStep
<1>6. CASE StepFromFound(r)
    BY <1>6, StepFromFoundStep
<1>7. CASE Next1(r)
    BY <1>7, Next1Step
<1>8. CASE Close(r)
    BY <1>8, NewReaderOK, ReaderStep DEF Close
<1> QED
    BY <1>1, <1>2, <1>3, <1>4, <1>5, <1>6, <1>7, <1>8 DEF Read

----------------------------------------------------------------------------
(* Steps of the writer *)

\* A row that is given a time keeps what is known of the others.
LEMMA NewTime ==
    ASSUME ListAssumption, IInv, NEW key \in Times, time' = Append(time, key), NewRow <= MaxRows,
           writer.pc = "idle"
    PROVE  /\ time' \in Seq(Nat) /\ Len(time') <= MaxRows /\ Len(time') = NewRow
           /\ SameTimes /\ NewRow \in Rows \ stored /\ NewRow \in 1..Len(time') /\ time'[NewRow] = key
           /\ stored \subseteq 1..Len(time') /\ \A x \in stored : x < NewRow
           /\ key \in Nat /\ None \notin stored
<1>1. key \in Nat
    BY DEF ListAssumption
<1>2. /\ time' \in Seq(Nat) /\ Len(time') = Len(time) + 1 /\ Len(time) \in Nat
      /\ \A p \in 1..Len(time) : time'[p] = time[p]
      /\ time'[Len(time) + 1] = key
    BY <1>1, TimeGrows DEF IInv
<1> PICK N : N = Len(time)
    OBVIOUS
<1> PICK M : M = Len(time')
    OBVIOUS
<1>3. N \in Nat /\ M = N + 1 /\ NewRow = M /\ stored \subseteq 1..N /\ MaxRows \in Nat
    BY <1>2, StoredRows DEF NewRow, IInv, ListAssumption
<1>4. \A p \in 1..N : p \in 1..M /\ p < M /\ p # None
    BY <1>3 DEF None
<1>5. M \in 1..M /\ M \in Rows /\ M \notin 1..N
    BY <1>3 DEF Rows
<1>6. SameTimes
    BY <1>2, <1>4 DEF SameTimes
<1> QED
    BY <1>1, <1>2, <1>3, <1>4, <1>5, <1>6, Zenon

\* List::Insert into an array that is not full
LEMMA InsertArrayStep ==
    ASSUME ListAssumption, IInv, NEW key \in Times, InsertArray(key)
    PROVE  IInv'
<1>1. /\ writer.pc = "idle" /\ NewRow <= MaxRows /\ list = "array" /\ time' = Append(time, key)
      /\ stored' = stored \cup {NewRow}
      /\ UNCHANGED <<list, freed, next, writer, reader>>
    BY DEF InsertArray
<1>2. /\ time' \in Seq(Nat) /\ Len(time') <= MaxRows /\ Len(time') = NewRow
      /\ SameTimes /\ NewRow \in Rows \ stored /\ NewRow \in 1..Len(time') /\ time'[NewRow] = key
      /\ stored \subseteq 1..Len(time') /\ \A x \in stored : x < NewRow
      /\ key \in Nat /\ None \notin stored
    BY <1>1, NewTime
<1>3. /\ array \in Seq(Rows) /\ Elements(array) = stored /\ Sorted(array) /\ ~freed
      /\ stored \subseteq 1..Len(time)
    BY <1>1 DEF IInv, TypeInv, ArrayInv, PhaseInv
<1>i. PICK i : i = FindLessOrEqual(array, key)
    OBVIOUS
<1>4. /\ i \in 1..(Len(array) + 1)
      /\ \A m \in 1..(i - 1) : time[array[m]] > key
      /\ i <= Len(array) => time[array[i]] <= key
    BY <1>i, <1>2, <1>3, FindProperties, Zenon DEF IInv
<1>5. \A m \in 1..Len(array) : time'[array[m]] = time[array[m]]
  <2> SUFFICES ASSUME NEW m \in 1..Len(array) PROVE time'[array[m]] = time[array[m]]
      OBVIOUS
  <2>1. array[m] \in Elements(array)
      BY <1>3 DEF Elements
  <2>2. array[m] \in 1..Len(time)
      BY <2>1, <1>3, Zenon
  <2> QED
      BY <2>2, <1>2 DEF SameTimes
<1>6. /\ \A m \in 1..(i - 1) : time'[array[m]] > time'[NewRow]
      /\ i <= Len(array) => time'[array[i]] <= time'[NewRow]
  <2>1. Len(array) \in Nat /\ i \in Nat /\ i <= Len(array) + 1 /\ i >= 1
      BY <1>3, <1>4
  <2>2. \A m \in 1..(i - 1) : m \in 1..Len(array)
      BY <2>1
  <2>3. i <= Len(array) => i \in 1..Len(array)
      BY <2>1
  <2> QED
      BY <2>2, <2>3, <1>2, <1>4, <1>5
<1> PICK k : k = NewRow
    OBVIOUS
<1> PICK a : a = array'
    OBVIOUS
<1> PICK b : b = array
    OBVIOUS
<1>7. Sorted(b)'
    BY <1>2, <1>3, SortedKept, Zenon
<1>8. a = WithRow(b, i, k)
    BY <1>i DEF InsertArray
<1>9. a \in Seq(Rows) /\ Sorted(a)' /\ Elements(a) = Elements(b) \cup {k}
  <2>1. b \in Seq(Rows) /\ k \in 1..Len(time') /\ k \in Rows /\ Elements(b) \subseteq 1..Len(time')
      BY <1>2, <1>3
  <2>2. \A x \in Elements(b) : x < k
      BY <1>2, <1>3, Zenon
  <2>3. i \in 1..(Len(b) + 1)
      BY <1>4
  <2>4. \A m \in 1..(i - 1) : time'[b[m]] > time'[k]
      BY <1>6
  <2>5. i <= Len(b) => time'[b[i]] <= time'[k]
      BY <1>6
  <2>6. time' \in Seq(Nat)
      BY <1>2
  <2> QED
      BY ONLY <2>1, <2>2, <2>3, <2>4, <2>5, <2>6, <1>7, <1>8, InsertSorted, Zenon
<1>10. stored' = Elements(a)
    BY <1>1, <1>3, <1>9
<1>11. TypeInv'
  <2>1. stored' \subseteq 1..Len(time')
      BY <1>1, <1>2
  <2> QED
      BY <2>1, <1>1, <1>2, <1>9 DEF IInv, TypeInv
<1>12. PhaseInv' /\ WriterInv'
    BY <1>1 DEF IInv, PhaseInv, WriterInv
<1>13. ArrayInv'
    BY <1>9, <1>10 DEF ArrayInv
<1>14. LinkInv'
    BY <1>1 DEF IInv, LinkInv, IsLinked
<1>15. ReaderInv'
    BY <1>1, <1>2, <1>3, <1>9, ReadersKept DEF IInv
<1> QED
    BY <1>11, <1>12, <1>13, <1>14, <1>15 DEF IInv

\* List::Insert into a full array makes the linked list.
LEMMA ConvertStep ==
    ASSUME ListAssumption, IInv, NEW key \in Times, Convert(key)
    PROVE  IInv'
<1>1. /\ writer.pc = "idle" /\ NewRow <= MaxRows /\ list = "array" /\ time' = Append(time, key)
      /\ Len(array) >= MAX_ARRAY_LIST_LEN
      /\ next' = Chain(array)
      /\ writer' = [pc |-> "store", row |-> NewRow, pre |-> None]
      /\ UNCHANGED <<stored, list, freed, array, reader>>
    BY DEF Convert
<1>2. /\ time' \in Seq(Nat) /\ Len(time') <= MaxRows /\ Len(time') = NewRow
      /\ SameTimes /\ NewRow \in Rows \ stored
      /\ stored \subseteq 1..Len(time') /\ None \notin stored
    BY <1>1, NewTime
<1>3. /\ array \in Seq(Rows) /\ Elements(array) = stored /\ Sorted(array) /\ ~freed
      /\ stored \subseteq 1..Len(time)
    BY <1>1 DEF IInv, TypeInv, ArrayInv, PhaseInv
<1>4. Len(array) > 0
    BY <1>1, <1>3 DEF ListAssumption
<1>5. /\ next' \in [Nodes -> Rows \cup {None}]
      /\ ChainOK(Chain(array), stored)
      /\ \A n \in Rows : next'[n] # None => n \in stored
    BY <1>1, <1>3, <1>4, ChainProperties, Zenon DEF IInv
<1> PICK f : f = next'
    OBVIOUS
<1>6. ChainOK(f, stored)
    BY <1>1, <1>5
<1>7. TypeInv'
    BY <1>1, <1>2, <1>5 DEF IInv, TypeInv
<1>8. PhaseInv' /\ WriterInv'
    BY <1>1, <1>2, <1>3 DEF IInv, PhaseInv, WriterInv
<1>9. ArrayInv'
  <2> PICK a : a = array
      OBVIOUS
  <2>1. Sorted(a)' /\ array' = a
      BY <1>1, <1>2, <1>3, SortedKept, Zenon
  <2> QED
      BY <2>1, <1>1, <1>3 DEF ArrayInv
<1>10. LinkInv'
  <2> PICK S : S = stored
      OBVIOUS
  <2>1. ChainOK(f, S)'
      BY <1>2, <1>3, <1>6, ChainKept
  <2>2. IsLinked' /\ stored' = S /\ next' = f
      BY <1>1 DEF IsLinked
  <2> QED
      BY <2>1, <2>2, <1>5 DEF LinkInv
<1>11. ReaderInv'
    BY <1>1, <1>2, ReadersKept DEF IInv
<1> QED
    BY <1>7, <1>8, <1>9, <1>10, <1>11 DEF IInv

LEMMA StoreListStep ==
    ASSUME IInv, StoreList
    PROVE  IInv'
<1>1. /\ writer.pc = "store" /\ list' = "link" /\ writer' = [writer EXCEPT !.pc = "delete"]
      /\ UNCHANGED <<time, stored, freed, array, next, reader>>
    BY DEF StoreList
<1>2. writer'.pc = "delete" /\ writer'.row = writer.row
    BY <1>1 DEF IInv, TypeInv
<1>3. TypeInv'
    BY <1>1, Zenon DEF IInv, TypeInv
<1>4. PhaseInv' /\ WriterInv'
    BY <1>1, <1>2 DEF IInv, PhaseInv, WriterInv
<1>5. ArrayInv'
    BY <1>1 DEF IInv, ArrayInv, Sorted, Before
<1>6. LinkInv'
    BY <1>1, <1>2 DEF IInv, LinkInv, IsLinked, ChainOK, After, Before
<1>7. ReaderInv'
  <2>1. SameTimes
      BY <1>1 DEF SameTimes
  <2> QED
      BY <2>1, <1>1, ReadersKept DEF IInv
<1> QED
    BY <1>3, <1>4, <1>5, <1>6, <1>7 DEF IInv

LEMMA DeleteArrayStep ==
    ASSUME IInv, DeleteArray
    PROVE  IInv'
<1>1. /\ writer.pc = "delete" /\ freed' = TRUE /\ writer' = [writer EXCEPT !.pc = "prepare"]
      /\ UNCHANGED <<time, stored, list, array, next, reader>>
    BY DEF DeleteArray
<1>2. writer'.pc = "prepare" /\ writer'.row = writer.row
    BY <1>1 DEF IInv, TypeInv
<1>3. TypeInv'
    BY <1>1, Zenon DEF IInv, TypeInv
<1>4. PhaseInv' /\ WriterInv'
    BY <1>1, <1>2 DEF IInv, PhaseInv, WriterInv
<1>5. ArrayInv'
    BY <1>1 DEF IInv, ArrayInv, Sorted, Before
<1>6. LinkInv'
    BY <1>1, <1>2 DEF IInv, LinkInv, IsLinked, ChainOK, After, Before
<1>7. ReaderInv'
  <2>1. SameTimes
      BY <1>1 DEF SameTimes
  <2> QED
      BY <2>1, <1>1, ReadersKept DEF IInv
<1> QED
    BY <1>3, <1>4, <1>5, <1>6, <1>7 DEF IInv

LEMMA InsertLinkStep ==
    ASSUME ListAssumption, IInv, NEW key \in Times, InsertLink(key)
    PROVE  IInv'
<1>1. /\ writer.pc = "idle" /\ NewRow <= MaxRows /\ list = "link" /\ time' = Append(time, key)
      /\ writer' = [pc |-> "prepare", row |-> NewRow, pre |-> None]
      /\ UNCHANGED <<stored, list, freed, array, next, reader>>
    BY DEF InsertLink
<1>2. /\ time' \in Seq(Nat) /\ Len(time') <= MaxRows /\ Len(time') = NewRow
      /\ SameTimes /\ NewRow \in Rows \ stored
      /\ stored \subseteq 1..Len(time') /\ None \notin stored
    BY <1>1, NewTime
<1>3. /\ array \in Seq(Rows) /\ Elements(array) \subseteq stored /\ Sorted(array)
      /\ stored \subseteq 1..Len(time) /\ ChainOK(next, stored)
    BY <1>1 DEF IInv, TypeInv, ArrayInv, LinkInv, IsLinked
<1>4. TypeInv'
    BY <1>1, <1>2 DEF IInv, TypeInv
<1>5. PhaseInv' /\ WriterInv'
    BY <1>1, <1>2 DEF IInv, PhaseInv, WriterInv
<1>6. ArrayInv'
  <2> PICK a : a = array
      OBVIOUS
  <2>1. Elements(a) \subseteq 1..Len(time)
      BY <1>3, Zenon
  <2>2. Sorted(a)' /\ array' = a
      BY <2>1, <1>1, <1>2, <1>3, SortedKept
  <2> QED
      BY <2>2, <1>1 DEF IInv, ArrayInv
<1>7. LinkInv'
  <2> PICK S : S = stored
      OBVIOUS
  <2> PICK f : f = next
      OBVIOUS
  <2>1. ChainOK(f, S)'
      BY <1>2, <1>3, ChainKept
  <2>2. IsLinked' /\ stored' = S /\ next' = f
      BY <1>1 DEF IsLinked
  <2> QED
      BY <2>1, <2>2, <1>1 DEF IInv, LinkInv
<1>8. ReaderInv'
    BY <1>1, <1>2, ReadersKept DEF IInv
<1> QED
    BY <1>4, <1>5, <1>6, <1>7, <1>8 DEF IInv

\* LinkList::Insert finds the place of the new row, which is the youngest of its
\* time.
LEMMA PrepareStep ==
    ASSUME ListAssumption, IInv, Prepare
    PROVE  IInv'
<1> PICK k : k = writer.row
    OBVIOUS
<1>p. PICK pre : pre = Walk(time[k])
    OBVIOUS
<1>1. /\ writer.pc = "prepare" /\ next' = [next EXCEPT ![k] = next[pre]]
      /\ writer' = [writer EXCEPT !.pc = "publish", !.pre = pre]
      /\ UNCHANGED <<time, stored, list, freed, array, reader>>
    BY <1>p DEF Prepare
<1>2. k = Len(time) /\ k \in Rows \ stored /\ list = "link" /\ freed
    BY <1>1 DEF IInv, WriterInv, PhaseInv
<1>3. k \in 1..Len(time) /\ time[k] \in Nat /\ k # Head0 /\ stored \subseteq Rows /\ stored \subseteq 1..Len(time)
  <2>1. k \in 1..Len(time)
      BY <1>2, TimesAreNumbers DEF IInv, Rows
  <2> QED
      BY <2>1, TimesAreNumbers, StoredRows DEF IInv
<1>4. IsLinked /\ ChainOK(next, stored)
    BY <1>2 DEF IInv, LinkInv, IsLinked
<1>5. /\ pre \in {Head0} \cup stored
      /\ pre = Head0 \/ time[pre] > time[k]
      /\ next[pre] = None \/ time[next[pre]] <= time[k]
    BY <1>p, <1>1, <1>3, <1>4, WalkProperties DEF IInv
<1>6. /\ next \in [Nodes -> Rows \cup {None}] /\ pre \in Nodes /\ k \in Nodes
      /\ next[pre] \in stored \cup {None} /\ k # pre
    BY <1>2, <1>3, <1>4, <1>5, Zenon DEF IInv, TypeInv, ChainOK, Nodes
<1>7. /\ next' \in [Nodes -> Rows \cup {None}] /\ next'[k] = next[pre]
      /\ \A n \in Nodes : n # k => next'[n] = next[n]
    BY <1>1, <1>6
<1>8. writer'.pc = "publish" /\ writer'.row = k /\ writer'.pre = pre
    BY <1>1 DEF IInv, TypeInv
<1>9. TypeInv'
  <2>1. writer' \in [pc: {"idle", "store", "delete", "prepare", "publish"},
                     row: Rows \cup {None}, pre: Nodes \cup {None}]
      BY <1>1, <1>6, Zenon DEF IInv, TypeInv
  <2> QED
      BY <2>1, <1>1, <1>7 DEF IInv, TypeInv
<1>10. PhaseInv'
    BY <1>1, <1>2, <1>8 DEF PhaseInv
<1>11. WriterInv'
  <2>1. next'[pre] = next[pre]
      BY <1>6, <1>7
  <2> QED
      BY <2>1, <1>1, <1>2, <1>5, <1>7, <1>8 DEF WriterInv
<1>12. ArrayInv'
    BY <1>1 DEF IInv, ArrayInv, Sorted, Before
<1>13. LinkInv'
  <2>1. \A n \in {Head0} \cup stored : next'[n] = next[n]
      BY <1>2, <1>3, <1>7, Zenon DEF Nodes
  <2>2. ChainOK(next, stored)'
      BY <2>1, <1>1, <1>4 DEF ChainOK, After, Before
  <2>3. IsLinked'
      BY <1>1, <1>2 DEF IsLinked
  <2>4. \A n \in Rows : n # k => next'[n] = next[n]
      BY <1>7 DEF Nodes
  <2>5. \A n \in Rows : next'[n] # None => n \in stored \/ n = k
      BY <2>4, <1>1 DEF IInv, LinkInv
  <2> QED
      BY <2>2, <2>3, <2>5, <1>1, <1>8 DEF LinkInv
<1>14. ReaderInv'
  <2>1. SameTimes
      BY <1>1 DEF SameTimes
  <2> QED
      BY <2>1, <1>1, ReadersKept DEF IInv
<1> QED
    BY <1>9, <1>10, <1>11, <1>12, <1>13, <1>14 DEF IInv

\* ... and links it there.
LEMMA PublishStep ==
    ASSUME ListAssumption, IInv, Publish
    PROVE  IInv'
<1> PICK k : k = writer.row
    OBVIOUS
<1> PICK pre : pre = writer.pre
    OBVIOUS
<1>1. /\ writer.pc = "publish" /\ next' = [next EXCEPT ![pre] = k]
      /\ stored' = stored \cup {k} /\ writer' = Idle
      /\ UNCHANGED <<time, list, freed, array, reader>>
    BY DEF Publish
<1>2. /\ k = Len(time) /\ k \in Rows \ stored /\ list = "link" /\ freed
      /\ pre \in {Head0} \cup stored
      /\ pre = Head0 \/ time[pre] > time[k]
      /\ next[pre] = None \/ time[next[pre]] <= time[k]
      /\ next[k] = next[pre]
    BY <1>1 DEF IInv, WriterInv, PhaseInv
<1>3. k \in 1..Len(time) /\ time[k] \in Nat /\ k # Head0 /\ stored \subseteq Rows /\ stored \subseteq 1..Len(time)
  <2>1. k \in 1..Len(time)
      BY <1>2, TimesAreNumbers DEF IInv, Rows
  <2> QED
      BY <2>1, TimesAreNumbers, StoredRows DEF IInv
<1>4. IsLinked /\ ChainOK(next, stored)
    BY <1>2 DEF IInv, LinkInv, IsLinked
<1>5. /\ next \in [Nodes -> Rows \cup {None}] /\ pre \in Nodes /\ k \in Nodes
      /\ next[pre] \in stored \cup {None} /\ k # pre
    BY <1>2, <1>3, <1>4 DEF IInv, TypeInv, ChainOK, Nodes
<1>6. /\ next' \in [Nodes -> Rows \cup {None}] /\ next'[pre] = k
      /\ \A n \in Nodes : n # pre => next'[n] = next[n]
    BY <1>1, <1>2, <1>5
<1>7. After(pre, k)
    BY <1>2 DEF After, Before
<1>8. next[pre] = None \/ Before(k, next[pre])
  <2> SUFFICES ASSUME next[pre] # None PROVE Before(k, next[pre])
      OBVIOUS
  <2> PICK q : q = next[pre]
      OBVIOUS
  <2>1. q \in stored /\ time[q] <= time[k]
      BY <1>2, <1>5
  <2>2. q \in 1..Len(time) /\ q # k /\ time[q] \in Nat /\ Len(time) \in Nat
      BY <2>1, <1>2, <1>3, TimesAreNumbers DEF IInv
  <2>3. q < k
      BY <2>2, <1>2
  <2>4. time[k] > time[q] \/ (time[k] = time[q] /\ k > q)
      BY <2>1, <2>2, <2>3, <1>2, <1>3
  <2> QED
      BY <2>4 DEF Before
<1>9. ChainOK(next', stored \cup {k})
  <2>g. PICK g : g = next'
      OBVIOUS
  <2>1. g[pre] = k /\ g[k] = next[pre]
      BY <2>g, <1>2, <1>5, <1>6
  <2>2. \A n \in ({Head0} \cup stored) \ {pre} : g[n] = next[n]
      BY <2>g, <1>3, <1>6, Zenon DEF Nodes
  <2>f. PICK f : f = next
      OBVIOUS
  <2>S. PICK S : S = stored
      OBVIOUS
  <2>3. TypeInv /\ S \in SUBSET (1..Len(time)) /\ ChainOK(f, S) /\ k \notin S /\ pre \in {Head0} \cup S
      BY <2>f, <2>S, <1>2, <1>3, <1>4 DEF IInv
  <2>4. (f[pre] = None \/ Before(k, f[pre])) /\ g[pre] = k /\ g[k] = f[pre]
      BY <2>f, <2>1, <1>8
  <2>5. \A n \in ({Head0} \cup S) \ {pre} : g[n] = f[n]
      BY <2>f, <2>S, <2>2
  <2>6. ChainOK(g, S \cup {k})
      BY ONLY <2>3, <2>4, <2>5, <1>3, <1>7, ChainInserted, Zenon
  <2> QED
      BY <2>g, <2>S, <2>6
<1>10. TypeInv'
    BY <1>1, <1>3, <1>6, Zenon DEF IInv, TypeInv, Idle
<1>11. PhaseInv' /\ WriterInv'
    BY <1>1, <1>2 DEF PhaseInv, WriterInv, Idle
<1>12. ArrayInv'
    BY <1>1, <1>2 DEF IInv, ArrayInv, Sorted, Before
<1>13. LinkInv'
  <2>1. ChainOK(next, stored)'
      BY <1>1, <1>9 DEF ChainOK, After, Before
  <2>2. IsLinked'
      BY <1>1, <1>2, Zenon DEF IsLinked
  <2>3. \A n \in Rows : next'[n] # None => n \in stored'
    <3> SUFFICES ASSUME NEW n \in Rows, next'[n] # None, n \notin stored' PROVE FALSE
        OBVIOUS
    <3>1. n # pre /\ n # k /\ n \notin stored
      <4>1. n # Head0
          BY DEF Rows, Head0
      <4> QED
          BY <4>1, <1>1, <1>2
    <3>2. next[n] # None
        BY <3>1, <1>6 DEF Nodes
    <3> QED
        BY <3>1, <3>2 DEF IInv, LinkInv
  <2> QED
      BY <2>1, <2>2, <2>3 DEF LinkInv
<1>14. ReaderInv'
  <2>1. SameTimes
      BY <1>1 DEF SameTimes
  <2> QED
      BY <2>1, <1>1, <1>2, ReadersKept DEF IInv
<1> QED
    BY <1>10, <1>11, <1>12, <1>13, <1>14 DEF IInv

----------------------------------------------------------------------------
(* The theorem *)

LEMMA NextIInv ==
    ASSUME ListAssumption, IInv, Next
    PROVE  IInv'
<1>1. ASSUME NEW r \in Readers, Read(r) PROVE IInv'
    BY <1>1, ReadStep
<1>2. ASSUME NEW key \in Times, InsertArray(key) \/ Convert(key) \/ InsertLink(key) PROVE IInv'
    BY <1>2, InsertArrayStep, ConvertStep, InsertLinkStep
<1>3. CASE StoreList
    BY <1>3, StoreListStep
<1>4. CASE DeleteArray
    BY <1>4, DeleteArrayStep
<1>5. CASE Prepare
    BY <1>5, PrepareStep
<1>6. CASE Publish
    BY <1>6, PublishStep
<1> QED
    BY <1>1, <1>2, <1>3, <1>4, <1>5, <1>6 DEF Next, Write

LEMMA StutterIInv ==
    ASSUME IInv, UNCHANGED vars
    PROVE  IInv'
<1>1. UNCHANGED <<time, stored, list, freed, array, next, writer, reader>>
    BY DEF vars, writing
<1>2. TypeInv' /\ PhaseInv' /\ WriterInv'
    BY <1>1 DEF IInv, TypeInv, PhaseInv, WriterInv
<1>3. ArrayInv'
    BY <1>1 DEF IInv, ArrayInv, Sorted, Before
<1>4. LinkInv'
    BY <1>1 DEF IInv, LinkInv, IsLinked, ChainOK, After, Before
<1>5. ReaderInv'
  <2>1. SameTimes
      BY <1>1 DEF SameTimes
  <2> QED
      BY <2>1, <1>1, ReadersKept DEF IInv
<1> QED
    BY <1>2, <1>3, <1>4, <1>5 DEF IInv

LEMMA IInvGivesOrder ==
    ASSUME IInv
    PROVE  RowsReadInOrder
<1>1. ReadDescending
  <2> SUFFICES ASSUME NEW r \in Readers, NEW m \in DOMAIN reader[r].read,
                      NEW n \in DOMAIN reader[r].read, m < n
               PROVE  Before(reader[r].read[m], reader[r].read[n])
      BY DEF ReadDescending, Before
  <2>1. Sorted(reader[r].read)
      BY Zenon DEF IInv, ReaderInv, ReaderOK
  <2> QED
      BY <2>1 DEF Sorted
<1>2. ScanComplete
  <2> SUFFICES ASSUME NEW r \in Readers, reader[r].pc = "end", NEW row \in reader[r].known,
                      reader[r].target = None \/ time[row] <= reader[r].target
               PROVE  \E n \in DOMAIN reader[r].read : reader[r].read[n] = row
      BY DEF ScanComplete
  <2>1. row \in Elements(reader[r].read)
      BY Zenon DEF IInv, ReaderInv, ReaderOK, Wanted
  <2> QED
      BY <2>1 DEF Elements
<1> QED
    BY <1>1, <1>2 DEF RowsReadInOrder

\* A reader of the rows of a key, which takes no lock, reads them newest first and
\* rows of one time in reverse order of their inserts, and misses no row that was
\* stored when it began: for any number of rows and readers, any length at which
\* the array becomes a linked list and any interleaving with inserts and with that
\* conversion (List::Insert, ConvertToLinkList and the iterators of list.h).
THEOREM RowsAreReadInOrder ==
    ASSUME ListAssumption
    PROVE  Spec => []RowsReadInOrder
<1>1. Init => IInv
    BY InitIInv
<1>2. IInv /\ [Next]_vars => IInv'
    BY NextIInv, StutterIInv
<1>3. IInv => RowsReadInOrder
    BY IInvGivesOrder
<1> QED
    BY <1>1, <1>2, <1>3, PTL DEF Spec
=============================================================================
