------------------------- MODULE SortedTroves_proofs -------------------------
(***************************************************************************)
(* Theorems on SortedTroves.sol, for any number of addresses, any limit of *)
(* the size and any ratios: the links are well formed, every search for a  *)
(* position lands at a valid one, and the linked list implements the       *)
(* sequence of SortedList.  They all rest on one relation between the      *)
(* fields of the contract and the sequence they represent.                 *)
(***************************************************************************)
EXTENDS SortedTroves, DataLemmas

------------------------------------------------------------------------------
(* The relation. *)

(* The neighbours of the slot after the i-th trove, Null at the ends.      *)
Before(s, i) == IF i = 0 THEN Null ELSE s[i]
After(s, i)  == IF i = Len(s) THEN Null ELSE s[i + 1]

NodeOf(s, i) == [exists |-> TRUE, nextId |-> After(s, i), prevId |-> Before(s, i - 1)]

ListType == [head : Keys, tail : Keys, size : Nat, nodes : [Keys -> Node]]

(* The fields d represent the sequence s.                                  *)
Represents(d, s) ==
  /\ s \in Seq(Ids) /\ IsInjective(s) /\ d \in ListType
  /\ d.size = Len(s) /\ d.head = After(s, 0) /\ d.tail = Before(s, Len(s))
  /\ \A i \in 1..Len(s) : d.nodes[s[i]] = NodeOf(s, i)
  /\ \A k \in Keys : k \notin ToSet(s) => d.nodes[k] = Blank

RatioType == nicr \in [Ids -> Ratios \cup {MaxUint}]

(* The inductive invariant.                                                *)
LinksInv ==
  /\ RatioType
  /\ \E s : Represents(data, s) /\ Len(s) <= MaxSize

(* What a sequence of distinct addresses is made of. *)
LEMMA RepresentedFacts ==
  ASSUME NEW d, NEW s, Represents(d, s)
  PROVE  /\ s \in Seq(Ids) /\ Len(s) \in Nat /\ DOMAIN s = 1..Len(s)
         /\ \A i \in 1..Len(s) : s[i] \in Ids /\ s[i] \in Keys /\ s[i] # Null
         /\ \A i, j \in 1..Len(s) : s[i] = s[j] => i = j
         /\ ToSet(s) = {s[i] : i \in 1..Len(s)} /\ ToSet(s) \subseteq Ids
         /\ Null \notin ToSet(s) /\ d.nodes[Null] = Blank
         /\ \A i \in 0..Len(s) : Before(s, i) \in Keys /\ After(s, i) \in Keys
<1>1. s \in Seq(Ids) /\ IsInjective(s)
  BY DEF Represents
<1>2. /\ Len(s) \in Nat /\ DOMAIN s = 1..Len(s) /\ s \in [1..Len(s) -> Ids]
      /\ ToSet(s) = {s[i] : i \in 1..Len(s)} /\ ToSet(s) \subseteq Ids
  BY <1>1, ListFacts
<1>3. \A i, j \in 1..Len(s) : s[i] = s[j] => i = j
  BY <1>1, <1>2 DEF IsInjective
<1>4. \A i \in 1..Len(s) : s[i] \in Ids /\ s[i] \in Keys /\ s[i] # Null
  BY <1>2, SortedTrovesAssumption DEF Keys
<1>5. Null \notin ToSet(s) /\ Null \in Keys
  BY <1>2, SortedTrovesAssumption DEF Keys
<1>6. d.nodes[Null] = Blank
  BY <1>5 DEF Represents
<1>7. \A i \in 0..Len(s) : Before(s, i) \in Keys /\ After(s, i) \in Keys
  <2> SUFFICES ASSUME NEW i \in 0..Len(s) PROVE Before(s, i) \in Keys /\ After(s, i) \in Keys
    OBVIOUS
  <2>1. i # 0 => i \in 1..Len(s)
    BY <1>2
  <2>2. i # Len(s) => i + 1 \in 1..Len(s)
    BY <1>2
  <2> QED BY <1>4, <1>5, <2>1, <2>2 DEF Before, After
<1> QED BY <1>1, <1>2, <1>3, <1>4, <1>5, <1>6, <1>7

(* A key is in the list exactly when the sequence has it. *)
LEMMA InListFacts ==
  ASSUME NEW d, NEW s, Represents(d, s), NEW k \in Keys
  PROVE  /\ InList(d, k) <=> k \in ToSet(s)
         /\ InList(d, k) => \E i \in 1..Len(s) : s[i] = k
<1>1. ToSet(s) = {s[i] : i \in 1..Len(s)}
  BY RepresentedFacts
<1>2. CASE k \in ToSet(s)
  <2>1. PICK i \in 1..Len(s) : s[i] = k
    BY <1>1, <1>2
  <2>2. d.nodes[k].exists = TRUE
    <3>1. d.nodes[k] = NodeOf(s, i)
      BY <2>1 DEF Represents
    <3> QED BY <3>1 DEF NodeOf
  <2> QED BY <1>2, <2>1, <2>2 DEF InList
<1>3. CASE k \notin ToSet(s)
  <2>1. d.nodes[k].exists = FALSE
    BY <1>3 DEF Represents, Blank
  <2> QED BY <1>3, <2>1 DEF InList
<1> QED BY <1>2, <1>3

(* The walk along the links finds the sequence. *)
LEMMA ListOfRepresented ==
  ASSUME NEW d, NEW s, Represents(d, s)
  PROVE  ListOf(d) = s
<1> DEFINE N == Cardinality(Ids)
           g == [n \in 1..N |-> IF n <= Len(s) THEN s[n] ELSE Null]
           Walk(f) == f = [n \in 1..N |-> IF n = 1 THEN d.head ELSE d.nodes[f[n - 1]].nextId]
           at == CHOOSE f : Walk(f)
<1>1. /\ s \in Seq(Ids) /\ Len(s) \in Nat /\ DOMAIN s = 1..Len(s) /\ ToSet(s) \subseteq Ids
      /\ \A i \in 1..Len(s) : s[i] \in Ids /\ s[i] # Null
      /\ d.nodes[Null] = Blank
  BY RepresentedFacts
<1>2. N \in Nat /\ Len(s) <= N
  <2>1. IsFiniteSet(Ids) /\ N \in Nat
    BY SortedTrovesAssumption, FS_CardinalityType
  <2>2. Cardinality(ToSet(s)) = Len(s)
    BY DistinctCount DEF Represents
  <2>3. Cardinality(ToSet(s)) <= N
    BY <1>1, <2>1, FS_Subset
  <2> QED BY <2>1, <2>2, <2>3
<1>3. ASSUME NEW n \in 1..N
      PROVE  g[n] = IF n = 1 THEN d.head ELSE d.nodes[g[n - 1]].nextId
  <2> HIDE DEF N
  <2>1. CASE n = 1
    <3>1. d.head = IF Len(s) = 0 THEN Null ELSE s[1]
      BY <1>1 DEF Represents, After
    <3> QED BY <1>1, <2>1, <3>1
  <2>2. CASE n # 1 /\ n - 1 > Len(s)
    <3>1. n - 1 \in 1..N /\ n \in 1..N /\ ~(n <= Len(s)) /\ ~(n - 1 <= Len(s))
      BY <1>1, <1>2, <2>2
    <3>2. g[n - 1] = Null /\ g[n] = Null
      BY <3>1
    <3>3. d.nodes[Null].nextId = Null
      BY <1>1 DEF Blank
    <3> QED BY <2>2, <3>2, <3>3
  <2>3. CASE n # 1 /\ n - 1 <= Len(s)
    <3>1. n - 1 \in 1..N /\ n - 1 \in 1..Len(s) /\ (n - 1) + 1 = n /\ n \in 1..N
      BY <1>1, <1>2, <2>3
    <3>2. g[n - 1] = s[n - 1]
      BY <3>1, <2>3
    <3>3. d.nodes[s[n - 1]].nextId = After(s, n - 1)
      <4>1. d.nodes[s[n - 1]] = NodeOf(s, n - 1)
        BY <3>1 DEF Represents
      <4> QED BY <4>1 DEF NodeOf
    <3>4. After(s, n - 1) = IF n - 1 = Len(s) THEN Null ELSE s[n]
      BY <3>1 DEF After
    <3>5. g[n] = IF n <= Len(s) THEN s[n] ELSE Null
      BY <3>1
    <3>6. n - 1 = Len(s) <=> ~(n <= Len(s))
      BY <1>1, <2>3, <3>1
    <3> HIDE DEF g
    <3> QED BY <2>3, <3>2, <3>3, <3>4, <3>5, <3>6
  <2>4. n - 1 <= Len(s) \/ n - 1 > Len(s)
    BY <1>1
  <2> QED BY <2>1, <2>2, <2>3, <2>4
<1>4. Walk(g)
  <2>1. g = [n \in 1..N |-> g[n]]
    OBVIOUS
  <2> HIDE DEF g, N
  <2> QED BY <1>3, <2>1
<1>5. Walk(at)
  <2> HIDE DEF g
  <2> QED BY <1>4
<1>6. at = [n \in 1..N |-> at[n]] /\ \A n \in 1..N : at[n] = IF n = 1 THEN d.head ELSE d.nodes[at[n - 1]].nextId
  <2> HIDE DEF at, N
  <2>1. at = [n \in 1..N |-> IF n = 1 THEN d.head ELSE d.nodes[at[n - 1]].nextId]
    BY <1>5
  <2>2. DOMAIN at = 1..N
    BY <2>1
  <2> DEFINE e(n) == IF n = 1 THEN d.head ELSE d.nodes[at[n - 1]].nextId
  <2>3. at = [n \in 1..N |-> e(n)]
    BY <2>1
  <2> HIDE DEF e
  <2>4. \A n \in 1..N : at[n] = e(n)
    BY <2>3
  <2>5. at = [n \in 1..N |-> at[n]]
    BY <2>3, <2>4
  <2> QED BY <2>4, <2>5 DEF e
<1>7. \A n \in 1..N : at[n] = g[n]
  <2> DEFINE T == {n \in Nat : n = 0 \/ (n \in 1..N => at[n] = g[n])}
  <2> HIDE DEF N, at, g
  <2>1. 0 \in T
    OBVIOUS
  <2>2. ASSUME NEW n \in 1..N, n - 1 \in T PROVE n \in T
    <3>1. n \in Nat /\ (n = 1 \/ n - 1 \in 1..N)
      BY <1>2
    <3>2. n # 1 => at[n - 1] = g[n - 1]
      BY <2>2, <3>1
    <3>3. at[n] = g[n]
      BY <1>3, <1>6, <3>2
    <3> QED BY <3>1, <3>3
  <2>3. \A n \in 0..N : n \in T
    <3> HIDE DEF T
    <3> QED BY <1>2, <2>1, <2>2, LoopInduction
  <2> QED BY <1>2, <2>3
<1>8. {n \in 1..N : at[n] # Null} = 1..Len(s)
  <2> HIDE DEF N, at
  <2> QED BY <1>1, <1>2, <1>7
<1>9. Cardinality({n \in 1..N : at[n] # Null}) = Len(s)
  <2>1. Cardinality(1..Len(s)) = Len(s)
    BY <1>1, FS_Interval
  <2> QED BY <1>8, <2>1
<1>10. ListOf(d) = [i \in 1..Cardinality({n \in 1..N : at[n] # Null}) |-> at[i]]
  BY Zenon DEF ListOf
<1> HIDE DEF at
<1>11. ListOf(d) = [i \in 1..Len(s) |-> s[i]]
  <2>1. \A i \in 1..Len(s) : at[i] = s[i]
    BY <1>1, <1>2, <1>7
  <2> HIDE DEF N
  <2> QED BY <1>9, <1>10, <2>1
<1> QED BY <1>1, <1>11

------------------------------------------------------------------------------
(* Insertion. *)

NodeAs(n, p) == [exists |-> TRUE, nextId |-> n, prevId |-> p]

(* A node y with another link. *)
NextIs(x, y, v) == x \in Node /\ x.exists = y.exists /\ x.nextId = v /\ x.prevId = y.prevId
PrevIs(x, y, v) == x \in Node /\ x.exists = y.exists /\ x.nextId = y.nextId /\ x.prevId = v

(* d with another node at k. *)
IsWithNode(e, d, k, x) ==
  /\ e \in ListType /\ e.head = d.head /\ e.tail = d.tail /\ e.size = d.size
  /\ e.nodes[k] = x /\ \A j \in Keys : j # k => e.nodes[j] = d.nodes[j]

(* Assignments to one field of a node, and a node by its fields.           *)
LEMMA NodeUpdates ==
  ASSUME NEW x \in Node, NEW v \in Keys
  PROVE  /\ NextIs([x EXCEPT !.nextId = v], x, v)
         /\ PrevIs([x EXCEPT !.prevId = v], x, v)
         /\ [x EXCEPT !.exists = TRUE] \in Node /\ [x EXCEPT !.exists = TRUE].exists = TRUE
         /\ [x EXCEPT !.exists = TRUE].nextId = x.nextId
         /\ [x EXCEPT !.exists = TRUE].prevId = x.prevId
BY DEF Node, NextIs, PrevIs

(* A node with a trove, from its fields.                                   *)
LEMMA NodeByFields ==
  ASSUME NEW x \in Node, NEW n, NEW p, x.exists = TRUE, x.nextId = n, x.prevId = p
  PROVE  x = NodeAs(n, p)
BY DEF Node, NodeAs

(* The fields of a blank node.                                             *)
LEMMA BlankFields ==
  Blank \in Node /\ Blank.exists = FALSE /\ Blank.nextId = Null /\ Blank.prevId = Null
BY DEF Node, Blank, Keys

(* The list with one node replaced.                                        *)
LEMMA SetNode ==
  ASSUME NEW d \in ListType, NEW k \in Keys, NEW x \in Node
  PROVE  IsWithNode([d EXCEPT !.nodes = [d.nodes EXCEPT ![k] = x]], d, k, x)
<1> DEFINE f == [d.nodes EXCEPT ![k] = x]
           e == [d EXCEPT !.nodes = f]
<1>1. d.nodes \in [Keys -> Node]
  BY DEF ListType
<1>2. f \in [Keys -> Node] /\ f[k] = x /\ \A j \in Keys : j # k => f[j] = d.nodes[j]
  BY <1>1
<1> HIDE DEF f
<1>3. e = [head |-> d.head, tail |-> d.tail, size |-> d.size, nodes |-> f]
  BY <1>2 DEF ListType
<1> HIDE DEF e
<1>4. IsWithNode(e, d, k, x)
  BY <1>2, <1>3 DEF ListType, IsWithNode
<1> QED BY <1>4 DEF e, f

(* An assignment to the next link of a node.                               *)
LEMMA SetNext ==
  ASSUME NEW d \in ListType, NEW k \in Keys, NEW v \in Keys
  PROVE  IsWithNode([d EXCEPT !.nodes[k].nextId = v], d, k, [d.nodes[k] EXCEPT !.nextId = v])
<1>1. d.nodes[k] \in Node
  BY DEF ListType
<1>2. [d.nodes[k] EXCEPT !.nextId = v] \in Node
  BY <1>1, NodeUpdates DEF NextIs
<1>3. [d EXCEPT !.nodes[k].nextId = v]
      = [d EXCEPT !.nodes = [d.nodes EXCEPT ![k] = [d.nodes[k] EXCEPT !.nextId = v]]]
  BY DEF ListType
<1> QED BY <1>2, <1>3, SetNode

(* An assignment to the previous link of a node.                           *)
LEMMA SetPrev ==
  ASSUME NEW d \in ListType, NEW k \in Keys, NEW v \in Keys
  PROVE  IsWithNode([d EXCEPT !.nodes[k].prevId = v], d, k, [d.nodes[k] EXCEPT !.prevId = v])
<1>1. d.nodes[k] \in Node
  BY DEF ListType
<1>2. [d.nodes[k] EXCEPT !.prevId = v] \in Node
  BY <1>1, NodeUpdates DEF PrevIs
<1>3. [d EXCEPT !.nodes[k].prevId = v]
      = [d EXCEPT !.nodes = [d.nodes EXCEPT ![k] = [d.nodes[k] EXCEPT !.prevId = v]]]
  BY DEF ListType
<1> QED BY <1>2, <1>3, SetNode

(* A node comes into being.                                                *)
LEMMA SetExists ==
  ASSUME NEW d \in ListType, NEW k \in Keys
  PROVE  IsWithNode([d EXCEPT !.nodes[k].exists = TRUE], d, k,
                    [d.nodes[k] EXCEPT !.exists = TRUE])
<1>1. d.nodes[k] \in Node
  BY DEF ListType
<1>2. [d.nodes[k] EXCEPT !.exists = TRUE] \in Node
  BY <1>1, NodeUpdates
<1>3. [d EXCEPT !.nodes[k].exists = TRUE]
      = [d EXCEPT !.nodes = [d.nodes EXCEPT ![k] = [d.nodes[k] EXCEPT !.exists = TRUE]]]
  BY DEF ListType
<1> QED BY <1>2, <1>3, SetNode

(* A node is deleted.                                                      *)
LEMMA SetBlank ==
  ASSUME NEW d \in ListType, NEW k \in Keys
  PROVE  IsWithNode([d EXCEPT !.nodes[k] = Blank], d, k, Blank)
<1>1. [d EXCEPT !.nodes[k] = Blank] = [d EXCEPT !.nodes = [d.nodes EXCEPT ![k] = Blank]]
  BY DEF ListType
<1> QED BY <1>1, BlankFields, SetNode

(* Assignments to the ends and to the size. *)
HeadIs(e, d, v) == e \in ListType /\ e.head = v /\ e.tail = d.tail /\ e.size = d.size /\ e.nodes = d.nodes
TailIs(e, d, v) == e \in ListType /\ e.head = d.head /\ e.tail = v /\ e.size = d.size /\ e.nodes = d.nodes
SizeIs(e, d, n) == e \in ListType /\ e.head = d.head /\ e.tail = d.tail /\ e.size = n /\ e.nodes = d.nodes

(* Assigning to the head or to the tail changes nothing else.              *)
LEMMA SetEnds ==
  ASSUME NEW d \in ListType, NEW v \in Keys
  PROVE  HeadIs([d EXCEPT !.head = v], d, v) /\ TailIs([d EXCEPT !.tail = v], d, v)
BY DEF ListType, HeadIs, TailIs

(* Assigning to the size changes nothing else.                             *)
LEMMA SetSize ==
  ASSUME NEW d \in ListType, NEW n \in Nat
  PROVE  SizeIs([d EXCEPT !.size = n], d, n)
BY DEF ListType, SizeIs

(* Two neighbours. *)
IsLinked(l, d, a, b) ==
  /\ l \in ListType /\ l.head = d.head /\ l.tail = d.tail /\ l.size = d.size
  /\ NextIs(l.nodes[a], d.nodes[a], b) /\ PrevIs(l.nodes[b], d.nodes[b], a)
  /\ \A j \in Keys : j # a /\ j # b => l.nodes[j] = d.nodes[j]

(* Link tells two nodes of each other and touches no other.                *)
LEMMA LinkFields ==
  ASSUME NEW d \in ListType, NEW a \in Keys, NEW b \in Keys, a # b
  PROVE  IsLinked(Link(d, a, b), d, a, b)
<1> DEFINE e == [d EXCEPT !.nodes[a].nextId = b]
           l == [e EXCEPT !.nodes[b].prevId = a]
<1>1. IsWithNode(e, d, a, [d.nodes[a] EXCEPT !.nextId = b])
  BY SetNext
<1>2. Link(d, a, b) = l
  BY DEF Link
<1> HIDE DEF e
<1>3. e \in ListType
  BY <1>1 DEF IsWithNode
<1>4. IsWithNode(l, e, b, [e.nodes[b] EXCEPT !.prevId = a])
  BY <1>3, SetPrev
<1>5. d.nodes[a] \in Node /\ d.nodes[b] \in Node /\ e.nodes[b] = d.nodes[b]
  BY <1>1 DEF ListType, IsWithNode
<1>6. NextIs([d.nodes[a] EXCEPT !.nextId = b], d.nodes[a], b)
  BY <1>5, NodeUpdates
<1>7. PrevIs([d.nodes[b] EXCEPT !.prevId = a], d.nodes[b], a)
  BY <1>5, NodeUpdates
<1> HIDE DEF l
<1>8. l \in ListType /\ l.head = d.head /\ l.tail = d.tail /\ l.size = d.size
  BY <1>1, <1>4 DEF IsWithNode
<1>9. l.nodes[a] = [d.nodes[a] EXCEPT !.nextId = b]
  BY <1>1, <1>4 DEF IsWithNode
<1>10. l.nodes[b] = [d.nodes[b] EXCEPT !.prevId = a]
  BY <1>4, <1>5 DEF IsWithNode
<1>11. \A j \in Keys : j # a /\ j # b => l.nodes[j] = d.nodes[j]
  BY <1>1, <1>4 DEF IsWithNode
<1>12. NextIs(l.nodes[a], d.nodes[a], b) /\ PrevIs(l.nodes[b], d.nodes[b], a)
  BY <1>6, <1>7, <1>9, <1>10
<1>13. IsLinked(l, d, a, b)
  BY <1>8, <1>11, <1>12 DEF IsLinked
<1> QED BY <1>2, <1>13

(* Linked, whichever of its four branches applies: the new node is put     *)
(* between p and n, each of which is told.                                 *)
IsInserted(l, d, id, p, n) ==
  /\ l \in ListType /\ l.size = d.size + 1
  /\ l.head = (IF p = Null THEN id ELSE d.head) /\ l.tail = (IF n = Null THEN id ELSE d.tail)
  /\ l.nodes[id] = NodeAs(n, p)
  /\ p # Null => NextIs(l.nodes[p], d.nodes[p], id)
  /\ n # Null => PrevIs(l.nodes[n], d.nodes[n], id)
  /\ \A k \in Keys : k # id /\ (k # Null => k # p /\ k # n) => l.nodes[k] = d.nodes[k]

(* _insert: whichever of its four branches applies, p and n are told of id.*)
LEMMA LinkedFields ==
  ASSUME NEW d \in ListType, NEW id \in Keys, NEW p \in Keys, NEW n \in Keys,
         id # Null, id # p, id # n, d.nodes[id] = Blank,
         p = Null => d.head = n, n = Null => d.tail = p, p = n => p = Null
  PROVE  IsInserted(Linked(d, id, p, n), d, id, p, n)
<1> DEFINE m == [d EXCEPT !.nodes[id].exists = TRUE]
           new == [m EXCEPT !.size = m.size + 1]
           l == Linked(d, id, p, n)
<1>0. Null \in Keys /\ d.head \in Keys /\ d.tail \in Keys /\ d.size \in Nat /\ d.nodes \in [Keys -> Node]
  BY DEF Keys, ListType
<1>1. /\ new \in ListType /\ new.head = d.head /\ new.tail = d.tail /\ new.size = d.size + 1
      /\ new.nodes[id] \in Node /\ new.nodes[id].exists = TRUE
      /\ new.nodes[id].nextId = Null /\ new.nodes[id].prevId = Null
      /\ \A k \in Keys : k # id => new.nodes[k] = d.nodes[k]
  <2>1. IsWithNode(m, d, id, [Blank EXCEPT !.exists = TRUE])
    BY SetExists
  <2> DEFINE x == [Blank EXCEPT !.exists = TRUE]
  <2>2. x \in Node /\ x.exists = TRUE /\ x.nextId = Null /\ x.prevId = Null
    BY <1>0, BlankFields, NodeUpdates
  <2> HIDE DEF m, x
  <2>3. m \in ListType /\ m.size + 1 \in Nat
    BY <1>0, <2>1 DEF IsWithNode
  <2>4. SizeIs(new, m, m.size + 1)
    BY <2>3, SetSize
  <2> HIDE DEF new
  <2>5. m.nodes[id] = x
    BY <2>1 DEF IsWithNode, x
  <2>6. \A k \in Keys : k # id => m.nodes[k] = d.nodes[k]
    BY <2>1 DEF IsWithNode
  <2>7. m.head = d.head /\ m.tail = d.tail /\ m.size = d.size
    BY <2>1 DEF IsWithNode
  <2> QED BY <2>2, <2>4, <2>5, <2>6, <2>7 DEF SizeIs
<1>2. l = IF p = Null /\ n = Null THEN [[new EXCEPT !.head = id] EXCEPT !.tail = id]
          ELSE IF p = Null THEN [Link(new, id, d.head) EXCEPT !.head = id]
          ELSE IF n = Null THEN [Link(new, d.tail, id) EXCEPT !.tail = id]
          ELSE Link(Link(new, p, id), id, n)
  BY DEF Linked
<1> HIDE DEF m, new
<1>3. CASE p = Null /\ n = Null
  <2> DEFINE h == [new EXCEPT !.head = id]
  <2>1. l = [h EXCEPT !.tail = id]
    BY <1>2, <1>3
  <2>2. HeadIs(h, new, id)
    BY <1>1, SetEnds
  <2> HIDE DEF h, l
  <2>3. h \in ListType
    BY <2>2 DEF HeadIs
  <2>4. TailIs(l, h, id)
    BY <2>1, <2>3, SetEnds
  <2>5. l \in ListType /\ l.head = id /\ l.tail = id /\ l.size = new.size /\ l.nodes = new.nodes
    BY <2>2, <2>4 DEF HeadIs, TailIs
  <2>6. l.nodes[id] = NodeAs(n, p)
    <3>1. /\ l.nodes[id] \in Node /\ l.nodes[id].exists = TRUE
          /\ l.nodes[id].nextId = n /\ l.nodes[id].prevId = p
      BY <1>1, <1>3, <2>5
    <3> QED BY <3>1, NodeByFields
  <2> QED BY <1>1, <1>3, <2>5, <2>6 DEF l, IsInserted
<1>4. CASE p = Null /\ n # Null
  <2> DEFINE h == Link(new, id, n)
  <2>1. l = [h EXCEPT !.head = id]
    BY <1>2, <1>4
  <2>2. IsLinked(h, new, id, n)
    BY <1>1, LinkFields
  <2> HIDE DEF h, l
  <2>3. h \in ListType
    BY <2>2 DEF IsLinked
  <2>4. HeadIs(l, h, id)
    BY <2>1, <2>3, SetEnds
  <2>5. /\ l \in ListType /\ l.head = id /\ l.tail = d.tail /\ l.size = d.size + 1
        /\ NextIs(l.nodes[id], new.nodes[id], n) /\ PrevIs(l.nodes[n], new.nodes[n], id)
        /\ \A k \in Keys : k # id /\ k # n => l.nodes[k] = d.nodes[k]
    BY <1>1, <2>2, <2>4 DEF IsLinked, HeadIs
  <2>6. l.nodes[id] = NodeAs(n, p)
    <3>1. /\ l.nodes[id] \in Node /\ l.nodes[id].exists = TRUE
          /\ l.nodes[id].nextId = n /\ l.nodes[id].prevId = p
      BY <1>1, <1>4, <2>5 DEF NextIs
    <3> QED BY <3>1, NodeByFields
  <2>7. new.nodes[n] = d.nodes[n]
    BY <1>1
  <2> QED BY <1>4, <2>5, <2>6, <2>7 DEF l, IsInserted
<1>5. CASE p # Null /\ n = Null
  <2> DEFINE h == Link(new, p, id)
  <2>1. l = [h EXCEPT !.tail = id]
    BY <1>2, <1>5
  <2>2. IsLinked(h, new, p, id)
    BY <1>1, LinkFields
  <2> HIDE DEF h, l
  <2>3. h \in ListType
    BY <2>2 DEF IsLinked
  <2>4. TailIs(l, h, id)
    BY <2>1, <2>3, SetEnds
  <2>5. /\ l \in ListType /\ l.head = d.head /\ l.tail = id /\ l.size = d.size + 1
        /\ NextIs(l.nodes[p], new.nodes[p], id) /\ PrevIs(l.nodes[id], new.nodes[id], p)
        /\ \A k \in Keys : k # id /\ k # p => l.nodes[k] = d.nodes[k]
    BY <1>1, <2>2, <2>4 DEF IsLinked, TailIs
  <2>6. l.nodes[id] = NodeAs(n, p)
    <3>1. /\ l.nodes[id] \in Node /\ l.nodes[id].exists = TRUE
          /\ l.nodes[id].nextId = n /\ l.nodes[id].prevId = p
      BY <1>1, <1>5, <2>5 DEF PrevIs
    <3> QED BY <3>1, NodeByFields
  <2>7. new.nodes[p] = d.nodes[p]
    BY <1>1
  <2> QED BY <1>5, <2>5, <2>6, <2>7 DEF l, IsInserted
<1>6. CASE p # Null /\ n # Null
  <2> DEFINE h == Link(new, p, id)
  <2>1. l = Link(h, id, n) /\ p # n
    BY <1>2, <1>6
  <2>2. IsLinked(h, new, p, id)
    BY <1>1, LinkFields
  <2> HIDE DEF h, l
  <2>3. h \in ListType
    BY <2>2 DEF IsLinked
  <2>4. IsLinked(l, h, id, n)
    BY <2>1, <2>3, LinkFields
  <2>5. l \in ListType /\ l.head = d.head /\ l.tail = d.tail /\ l.size = d.size + 1
    BY <1>1, <2>2, <2>4 DEF IsLinked
  <2>6. l.nodes[id] = NodeAs(n, p)
    <3>1. PrevIs(h.nodes[id], new.nodes[id], p) /\ NextIs(l.nodes[id], h.nodes[id], n)
      BY <2>2, <2>4 DEF IsLinked
    <3>2. /\ l.nodes[id] \in Node /\ l.nodes[id].exists = TRUE
          /\ l.nodes[id].nextId = n /\ l.nodes[id].prevId = p
      BY <1>1, <3>1 DEF NextIs, PrevIs
    <3> QED BY <3>2, NodeByFields
  <2>7. NextIs(l.nodes[p], d.nodes[p], id) /\ PrevIs(l.nodes[n], d.nodes[n], id)
    <3>1. l.nodes[p] = h.nodes[p] /\ h.nodes[n] = new.nodes[n]
      BY <2>1, <2>2, <2>4 DEF IsLinked
    <3>2. new.nodes[p] = d.nodes[p] /\ new.nodes[n] = d.nodes[n]
      BY <1>1
    <3> QED BY <2>2, <2>4, <3>1, <3>2 DEF IsLinked
  <2>8. \A k \in Keys : k # id /\ k # p /\ k # n => l.nodes[k] = d.nodes[k]
    BY <1>1, <2>2, <2>4 DEF IsLinked
  <2>9. \A k \in Keys : k # id /\ (k # Null => k # p /\ k # n) => l.nodes[k] = d.nodes[k]
    BY <1>6, <2>8
  <2> QED BY <1>6, <2>5, <2>6, <2>7, <2>9 DEF l, IsInserted
<1> QED BY <1>3, <1>4, <1>5, <1>6

(* The neighbours of a slot after an insertion. *)
NeighboursMove(s, t, id, i) ==
  \A j \in 0..Len(t) : /\ After(t, j) = (IF j < i THEN After(s, j)
                                         ELSE IF j = i THEN id ELSE After(s, j - 1))
                       /\ Before(t, j) = (IF j <= i THEN Before(s, j)
                                          ELSE IF j = i + 1 THEN id ELSE Before(s, j - 1))

(* The neighbours of every slot after an insertion.                        *)
LEMMA NeighboursAfterInsertion ==
  ASSUME NEW s \in Seq(Ids), NEW id \in Ids, NEW i \in 0..Len(s)
  PROVE  NeighboursMove(s, InsertAt(s, i + 1, id), id, i)
<1> DEFINE t == InsertAt(s, i + 1, id)
<1>1. /\ t \in Seq(Ids) /\ Len(t) = Len(s) + 1 /\ Len(s) \in Nat
      /\ \A k \in 1..(Len(s) + 1) :
           t[k] = IF k <= i THEN s[k] ELSE IF k = i + 1 THEN id ELSE s[k - 1]
  <2>1. Len(s) \in Nat
    BY ListFacts
  <2>2. /\ t \in Seq(Ids) /\ Len(t) = Len(s) + 1
        /\ \A k \in 1..(Len(s) + 1) :
             t[k] = IF k <= i THEN s[k] ELSE IF k = i + 1 THEN id ELSE s[k - 1]
    BY InsertAtFacts
  <2> QED BY <2>1, <2>2
<1> HIDE DEF t
<1> SUFFICES ASSUME NEW j \in 0..Len(t)
             PROVE  /\ After(t, j) = (IF j < i THEN After(s, j)
                                      ELSE IF j = i THEN id ELSE After(s, j - 1))
                    /\ Before(t, j) = (IF j <= i THEN Before(s, j)
                                       ELSE IF j = i + 1 THEN id ELSE Before(s, j - 1))
  BY <1>1 DEF NeighboursMove, t
<1>2. After(t, j) = (IF j < i THEN After(s, j) ELSE IF j = i THEN id ELSE After(s, j - 1))
  <2>1. CASE j < i
    <3>1. j + 1 \in 1..(Len(s) + 1) /\ j + 1 <= i /\ j # Len(t) /\ j # Len(s)
      BY <1>1, <2>1
    <3> QED BY <1>1, <2>1, <3>1 DEF After
  <2>2. CASE j = i
    <3>1. j + 1 \in 1..(Len(s) + 1) /\ ~(j + 1 <= i) /\ j + 1 = i + 1 /\ j # Len(t)
      BY <1>1, <2>2
    <3> QED BY <1>1, <2>2, <3>1 DEF After
  <2>3. CASE j > i /\ j = Len(t)
    <3>1. j - 1 = Len(s) /\ ~(j < i) /\ j # i
      BY <1>1, <2>3
    <3> QED BY <1>1, <2>3, <3>1 DEF After
  <2>4. CASE j > i /\ j # Len(t)
    <3>1. /\ j + 1 \in 1..(Len(s) + 1) /\ ~(j + 1 <= i) /\ j + 1 # i + 1 /\ j - 1 # Len(s)
          /\ (j + 1) - 1 = (j - 1) + 1
      BY <1>1, <2>4
    <3> QED BY <1>1, <2>4, <3>1 DEF After
  <2> QED BY <1>1, <2>1, <2>2, <2>3, <2>4
<1>3. Before(t, j) = (IF j <= i THEN Before(s, j) ELSE IF j = i + 1 THEN id ELSE Before(s, j - 1))
  <2>1. CASE j = 0
    BY <2>1 DEF Before
  <2>2. CASE j # 0 /\ j <= i + 1
    <3>1. j \in 1..(Len(s) + 1)
      BY <1>1, <2>2
    <3> QED BY <1>1, <2>2, <3>1 DEF Before
  <2>3. CASE j > i + 1
    <3>1. j \in 1..(Len(s) + 1) /\ ~(j <= i) /\ j # i + 1 /\ j - 1 # 0 /\ j # 0
      BY <1>1, <2>3
    <3> QED BY <1>1, <2>3, <3>1 DEF Before
  <2> QED BY <1>1, <2>1, <2>2, <2>3
<1> QED BY <1>2, <1>3

(* Linking a new address between two neighbours inserts it in the sequence. *)
LEMMA LinkedRepresents ==
  ASSUME NEW d, NEW s, Represents(d, s), NEW id \in Ids, ~InList(d, id), NEW i \in 0..Len(s)
  PROVE  Represents(Linked(d, id, Before(s, i), After(s, i)), InsertAt(s, i + 1, id))
<1> DEFINE p == Before(s, i)
           n == After(s, i)
           t == InsertAt(s, i + 1, id)
           l == Linked(d, id, p, n)
<1>1. /\ s \in Seq(Ids) /\ Len(s) \in Nat
      /\ \A j \in 1..Len(s) : s[j] \in Ids /\ s[j] \in Keys /\ s[j] # Null
      /\ \A j, k \in 1..Len(s) : s[j] = s[k] => j = k
      /\ ToSet(s) = {s[j] : j \in 1..Len(s)}
      /\ p \in Keys /\ n \in Keys
  BY RepresentedFacts
<1>2. id \in Keys /\ id # Null /\ id \notin ToSet(s) /\ d.nodes[id] = Blank
  <2>1. id \in Keys /\ id # Null
    BY SortedTrovesAssumption DEF Keys
  <2>2. id \notin ToSet(s)
    BY <2>1, InListFacts
  <2> QED BY <2>1, <2>2 DEF Represents
<1>3. /\ p = Null => i = 0 /\ d.head = n
      /\ n = Null => i = Len(s) /\ d.tail = p
      /\ p = n => p = Null
      /\ id # p /\ id # n
  <2>1. i # 0 => i \in 1..Len(s) /\ p = s[i]
    BY <1>1 DEF Before
  <2>2. i # Len(s) => i + 1 \in 1..Len(s) /\ n = s[i + 1]
    BY <1>1 DEF After
  <2>3. d.head = After(s, 0) /\ d.tail = Before(s, Len(s))
    BY DEF Represents
  <2>4. (i = 0 => p = Null) /\ (i = Len(s) => n = Null)
    BY DEF Before, After
  <2>5. i # 0 => p # Null /\ id # p
    BY <1>1, <1>2, <2>1
  <2>6. i # Len(s) => n # Null /\ id # n
    BY <1>1, <1>2, <2>2
  <2>7. i # 0 /\ i # Len(s) => p # n
    BY <1>1, <2>1, <2>2
  <2> QED BY <1>2, <2>3, <2>4, <2>5, <2>6, <2>7
<1>4. d \in ListType
  BY DEF Represents
<1>5. IsInserted(l, d, id, p, n)
  <2> HIDE DEF p, n
  <2> QED BY <1>1, <1>2, <1>3, <1>4, LinkedFields
<1>6. /\ t \in Seq(Ids) /\ Len(t) = Len(s) + 1
      /\ \A k \in 1..(Len(s) + 1) :
           t[k] = IF k <= i THEN s[k] ELSE IF k = i + 1 THEN id ELSE s[k - 1]
  BY <1>1, InsertAtFacts
<1>7. IsInjective(t) /\ ToSet(t) = ToSet(s) \cup {id}
  <2>1. IsInjective(s) /\ s \in Seq(Ids) /\ id \notin ToSet(s)
    BY <1>2 DEF Represents
  <2> QED BY <2>1, InsertAtKeepsDistinct
<1>8. \A j \in 0..Len(t) : /\ After(t, j) = (IF j < i THEN After(s, j)
                                             ELSE IF j = i THEN id ELSE After(s, j - 1))
                           /\ Before(t, j) = (IF j <= i THEN Before(s, j)
                                              ELSE IF j = i + 1 THEN id ELSE Before(s, j - 1))
  <2>1. NeighboursMove(s, t, id, i)
    BY <1>1, NeighboursAfterInsertion
  <2> HIDE DEF t
  <2> QED BY <2>1 DEF NeighboursMove
<1> HIDE DEF p, n, t, l
<1>9. l.size = Len(t) /\ l.head = After(t, 0) /\ l.tail = Before(t, Len(t))
  <2>1. d.size = Len(s) /\ d.head = After(s, 0) /\ d.tail = Before(s, Len(s))
    BY DEF Represents
  <2>2. (p = Null <=> i = 0) /\ (n = Null <=> i = Len(s))
    BY <1>3 DEF p, n, Before, After
  <2>3. After(t, 0) = IF i = 0 THEN id ELSE After(s, 0)
    <3>1. 0 \in 0..Len(t) /\ (0 < i <=> i # 0)
      BY <1>1, <1>6
    <3>2. After(t, 0) = (IF 0 < i THEN After(s, 0) ELSE IF 0 = i THEN id ELSE After(s, 0 - 1))
      BY <1>8, <3>1
    <3> QED BY <3>1, <3>2
  <2>4. Before(t, Len(t)) = IF i = Len(s) THEN id ELSE Before(s, Len(s))
    <3>1. Len(t) \in 0..Len(t) /\ ~(Len(t) <= i) /\ (Len(t) = i + 1 <=> i = Len(s)) /\ Len(t) - 1 = Len(s)
      BY <1>1, <1>6
    <3> QED BY <1>8, <3>1
  <2> QED BY <1>5, <1>6, <2>1, <2>2, <2>3, <2>4 DEF IsInserted
<1>10. ASSUME NEW j \in 1..Len(t) PROVE l.nodes[t[j]] = NodeOf(t, j)
  <2>0. j - 1 \in 0..Len(t) /\ j \in 0..Len(t) /\ j \in 1..(Len(s) + 1)
    BY <1>1, <1>6
  <2>1. CASE j = i + 1
    <3>1. t[j] = id
      BY <1>6, <2>0, <2>1
    <3>2. l.nodes[id] = NodeAs(n, p)
      BY <1>5 DEF IsInserted
    <3>3. After(t, j) = After(s, i) /\ Before(t, j - 1) = Before(s, i)
      <4>1. ~(j < i) /\ j # i /\ j - 1 = i /\ j - 1 <= i
        BY <1>1, <2>1
      <4> QED BY <1>8, <2>0, <4>1
    <3> QED BY <3>1, <3>2, <3>3 DEF NodeOf, NodeAs, n, p
  <2>2. CASE j <= i
    <3>1. j \in 1..Len(s) /\ t[j] = s[j] /\ s[j] \in Keys /\ s[j] # Null /\ s[j] # id
      BY <1>1, <1>2, <1>6, <2>0, <2>2
    <3>2. d.nodes[s[j]] = NodeOf(s, j)
      BY <3>1 DEF Represents
    <3>3. (s[j] = p <=> j = i) /\ s[j] # n
      <4>1. i \in 1..Len(s) /\ p = s[i]
        BY <1>1, <2>2, <2>0 DEF p, Before
      <4>2. i # Len(s) => i + 1 \in 1..Len(s) /\ n = s[i + 1]
        BY <1>1 DEF n, After
      <4>3. i = Len(s) => n = Null
        BY DEF n, After
      <4> QED BY <1>1, <2>2, <3>1, <4>1, <4>2, <4>3
    <3>4. IF j = i THEN NextIs(l.nodes[s[j]], d.nodes[s[j]], id) ELSE l.nodes[s[j]] = d.nodes[s[j]]
      BY <1>5, <3>1, <3>3 DEF IsInserted
    <3>5. After(t, j) = (IF j = i THEN id ELSE After(s, j)) /\ Before(t, j - 1) = Before(s, j - 1)
      <4>1. j - 1 <= i /\ (j < i \/ j = i)
        BY <1>1, <2>2, <2>0
      <4> QED BY <1>8, <2>0, <4>1
    <3>6. CASE j = i
      <4>1. NextIs(l.nodes[s[j]], NodeOf(s, j), id)
        BY <3>2, <3>4, <3>6
      <4>2. /\ l.nodes[s[j]] \in Node /\ l.nodes[s[j]].exists = TRUE
            /\ l.nodes[s[j]].nextId = After(t, j) /\ l.nodes[s[j]].prevId = Before(t, j - 1)
        BY <3>5, <3>6, <4>1 DEF NextIs, NodeOf
      <4>3. l.nodes[s[j]] = NodeAs(After(t, j), Before(t, j - 1))
        BY <4>2, NodeByFields
      <4> QED BY <3>1, <4>3 DEF NodeAs, NodeOf
    <3>7. CASE j # i
      BY <3>1, <3>2, <3>4, <3>5, <3>7 DEF NodeOf
    <3> QED BY <3>6, <3>7
  <2>3. CASE j > i + 1
    <3>1. /\ j - 1 \in 1..Len(s) /\ t[j] = s[j - 1] /\ s[j - 1] \in Keys /\ s[j - 1] # Null
          /\ s[j - 1] # id
      BY <1>1, <1>2, <1>6, <2>0, <2>3
    <3>2. d.nodes[s[j - 1]] = NodeOf(s, j - 1)
      BY <3>1 DEF Represents
    <3>3. (s[j - 1] = n <=> j = i + 2) /\ s[j - 1] # p
      <4>1. i + 1 \in 1..Len(s) /\ n = s[i + 1]
        BY <1>1, <2>3, <2>0 DEF n, After
      <4>2. i # 0 => i \in 1..Len(s) /\ p = s[i]
        BY <1>1 DEF p, Before
      <4>3. i = 0 => p = Null
        BY DEF p, Before
      <4>4. j - 1 # i /\ (j - 1 = i + 1 <=> j = i + 2)
        BY <2>3, <2>0
      <4> QED BY <1>1, <3>1, <4>1, <4>2, <4>3, <4>4
    <3>4. IF j = i + 2 THEN PrevIs(l.nodes[s[j - 1]], d.nodes[s[j - 1]], id)
          ELSE l.nodes[s[j - 1]] = d.nodes[s[j - 1]]
      BY <1>5, <3>1, <3>3 DEF IsInserted
    <3>5. /\ After(t, j) = After(s, j - 1)
          /\ Before(t, j - 1) = (IF j = i + 2 THEN id ELSE Before(s, (j - 1) - 1))
      <4>1. ~(j < i) /\ j # i /\ ~(j - 1 <= i) /\ (j - 1 = i + 1 <=> j = i + 2)
        BY <1>1, <2>3, <2>0
      <4> QED BY <1>8, <2>0, <4>1
    <3>6. CASE j = i + 2
      <4>1. PrevIs(l.nodes[s[j - 1]], NodeOf(s, j - 1), id)
        BY <3>2, <3>4, <3>6
      <4>2. /\ l.nodes[s[j - 1]] \in Node /\ l.nodes[s[j - 1]].exists = TRUE
            /\ l.nodes[s[j - 1]].nextId = After(t, j)
            /\ l.nodes[s[j - 1]].prevId = Before(t, j - 1)
        BY <3>5, <3>6, <4>1 DEF PrevIs, NodeOf
      <4>3. l.nodes[s[j - 1]] = NodeAs(After(t, j), Before(t, j - 1))
        BY <4>2, NodeByFields
      <4> QED BY <3>1, <4>3 DEF NodeAs, NodeOf
    <3>7. CASE j # i + 2
      BY <3>1, <3>2, <3>4, <3>5, <3>7 DEF NodeOf
    <3> QED BY <3>6, <3>7
  <2> QED BY <2>0, <2>1, <2>2, <2>3
<1>11. ASSUME NEW k \in Keys, k \notin ToSet(t) PROVE l.nodes[k] = Blank
  <2>1. k # id /\ k \notin ToSet(s)
    BY <1>7, <1>11
  <2>2. d.nodes[k] = Blank
    BY <2>1 DEF Represents
  <2>3. k # Null => k # p /\ k # n
    <3>1. (i # 0 => i \in 1..Len(s) /\ p = s[i]) /\ (i = 0 => p = Null)
      BY <1>1 DEF p, Before
    <3>2. (i # Len(s) => i + 1 \in 1..Len(s) /\ n = s[i + 1]) /\ (i = Len(s) => n = Null)
      BY <1>1 DEF n, After
    <3> QED BY <1>1, <2>1, <3>1, <3>2
  <2> QED BY <1>5, <2>1, <2>2, <2>3 DEF IsInserted
<1>12. Represents(l, t)
  BY <1>5, <1>6, <1>7, <1>9, <1>10, <1>11 DEF Represents, IsInserted
<1> QED BY <1>12 DEF l, t, p, n

------------------------------------------------------------------------------
(* Removal. *)

IsRemoved(l, d, id, p, n) ==
  /\ l \in ListType /\ l.size = d.size - 1
  /\ l.head = (IF p = Null THEN n ELSE d.head) /\ l.tail = (IF n = Null THEN p ELSE d.tail)
  /\ l.nodes[id] = Blank
  /\ p # Null => NextIs(l.nodes[p], d.nodes[p], n)
  /\ n # Null => PrevIs(l.nodes[n], d.nodes[n], p)
  /\ \A k \in Keys : k # id /\ (k # Null => k # p /\ k # n) => l.nodes[k] = d.nodes[k]

(* The same of the list before the node of id is deleted. *)
IsCut(l, d, id, p, n) ==
  /\ l \in ListType /\ l.size = d.size - 1
  /\ l.head = (IF p = Null THEN n ELSE d.head) /\ l.tail = (IF n = Null THEN p ELSE d.tail)
  /\ p # Null => NextIs(l.nodes[p], d.nodes[p], n)
  /\ n # Null => PrevIs(l.nodes[n], d.nodes[n], p)
  /\ \A k \in Keys : k # id /\ (k # Null => k # p /\ k # n) => l.nodes[k] = d.nodes[k]

(* _remove, whichever of its four branches applies: the neighbours p and n *)
(* of the removed node are told of each other.                             *)
LEMMA UnlinkedFields ==
  ASSUME NEW d \in ListType, NEW id \in Keys, NEW p \in Keys, NEW n \in Keys,
         d.nodes[id].prevId = p, d.nodes[id].nextId = n,
         id # Null, id # p, id # n, p = n => p = Null, d.size >= 1,
         p = Null <=> id = d.head, n = Null <=> id = d.tail,
         d.size <= 1 <=> p = Null /\ n = Null
  PROVE  IsRemoved(Unlinked(d, id), d, id, p, n)
<1> DEFINE rest == [d EXCEPT !.size = d.size - 1]
           cut == IF d.size <= 1 THEN [[rest EXCEPT !.head = Null] EXCEPT !.tail = Null]
                  ELSE IF id = d.head
                  THEN [[rest EXCEPT !.nodes[n].prevId = Null] EXCEPT !.head = n]
                  ELSE IF id = d.tail
                  THEN [[rest EXCEPT !.nodes[p].nextId = Null] EXCEPT !.tail = p]
                  ELSE Link(rest, p, n)
           l == [cut EXCEPT !.nodes[id] = Blank]
<1>0. Null \in Keys /\ d.size \in Nat /\ d.nodes \in [Keys -> Node]
  BY DEF Keys, ListType
<1>1. Unlinked(d, id) = l
  BY DEF Unlinked
<1>2. SizeIs(rest, d, d.size - 1)
  <2>1. d.size - 1 \in Nat
    BY <1>0
  <2> QED BY <2>1, SetSize
<1> HIDE DEF rest
<1>3. /\ rest \in ListType /\ rest.head = d.head /\ rest.tail = d.tail /\ rest.size = d.size - 1
      /\ rest.nodes = d.nodes
  BY <1>2 DEF SizeIs
<1>4. IsCut(cut, d, id, p, n)
  <2>1. CASE p = Null /\ n = Null
    <3> DEFINE h == [rest EXCEPT !.head = Null]
    <3>1. cut = [h EXCEPT !.tail = Null]
      BY <2>1
    <3>2. HeadIs(h, rest, Null)
      BY <1>0, <1>3, SetEnds
    <3> HIDE DEF h, cut
    <3>3. h \in ListType
      BY <3>2 DEF HeadIs
    <3>4. TailIs(cut, h, Null)
      BY <1>0, <3>1, <3>3, SetEnds
    <3> QED BY <1>3, <2>1, <3>2, <3>4 DEF HeadIs, TailIs, IsCut
  <2>2. CASE p = Null /\ n # Null
    <3> DEFINE h == [rest EXCEPT !.nodes[n].prevId = Null]
    <3>1. cut = [h EXCEPT !.head = n]
      BY <2>2
    <3>2. IsWithNode(h, rest, n, [rest.nodes[n] EXCEPT !.prevId = Null])
      BY <1>0, <1>3, SetPrev
    <3> HIDE DEF h, cut
    <3>3. h \in ListType
      BY <3>2 DEF IsWithNode
    <3>4. HeadIs(cut, h, n)
      BY <3>1, <3>3, SetEnds
    <3>5. rest.nodes[n] \in Node
      BY <1>0, <1>3
    <3>6. PrevIs([rest.nodes[n] EXCEPT !.prevId = Null], rest.nodes[n], Null)
      BY <1>0, <3>5, NodeUpdates
    <3>7. PrevIs(cut.nodes[n], d.nodes[n], p)
      BY <1>3, <2>2, <3>2, <3>4, <3>6 DEF IsWithNode, HeadIs
    <3>8. /\ cut \in ListType /\ cut.head = n /\ cut.tail = d.tail /\ cut.size = d.size - 1
          /\ \A k \in Keys : k # n => cut.nodes[k] = d.nodes[k]
      BY <1>3, <3>2, <3>4 DEF IsWithNode, HeadIs
    <3> QED BY <2>2, <3>7, <3>8 DEF IsCut
  <2>3. CASE p # Null /\ n = Null
    <3> DEFINE h == [rest EXCEPT !.nodes[p].nextId = Null]
    <3>1. cut = [h EXCEPT !.tail = p]
      BY <2>3
    <3>2. IsWithNode(h, rest, p, [rest.nodes[p] EXCEPT !.nextId = Null])
      BY <1>0, <1>3, SetNext
    <3> HIDE DEF h, cut
    <3>3. h \in ListType
      BY <3>2 DEF IsWithNode
    <3>4. TailIs(cut, h, p)
      BY <3>1, <3>3, SetEnds
    <3>5. rest.nodes[p] \in Node
      BY <1>0, <1>3
    <3>6. NextIs([rest.nodes[p] EXCEPT !.nextId = Null], rest.nodes[p], Null)
      BY <1>0, <3>5, NodeUpdates
    <3>7. NextIs(cut.nodes[p], d.nodes[p], n)
      BY <1>3, <2>3, <3>2, <3>4, <3>6 DEF IsWithNode, TailIs
    <3>8. /\ cut \in ListType /\ cut.head = d.head /\ cut.tail = p /\ cut.size = d.size - 1
          /\ \A k \in Keys : k # p => cut.nodes[k] = d.nodes[k]
      BY <1>3, <3>2, <3>4 DEF IsWithNode, TailIs
    <3> QED BY <2>3, <3>7, <3>8 DEF IsCut
  <2>4. CASE p # Null /\ n # Null
    <3>1. cut = Link(rest, p, n) /\ p # n
      BY <2>4
    <3> HIDE DEF cut
    <3>2. IsLinked(cut, rest, p, n)
      BY <1>3, <3>1, LinkFields
    <3>3. /\ cut \in ListType /\ cut.head = d.head /\ cut.tail = d.tail /\ cut.size = d.size - 1
          /\ NextIs(cut.nodes[p], d.nodes[p], n) /\ PrevIs(cut.nodes[n], d.nodes[n], p)
          /\ \A k \in Keys : k # p /\ k # n => cut.nodes[k] = d.nodes[k]
      BY <1>3, <3>2 DEF IsLinked
    <3>4. \A k \in Keys : k # id /\ (k # Null => k # p /\ k # n) => cut.nodes[k] = d.nodes[k]
      BY <2>4, <3>3
    <3> QED BY <2>4, <3>3, <3>4 DEF IsCut
  <2> QED BY <2>1, <2>2, <2>3, <2>4
<1> HIDE DEF cut
<1>5. cut \in ListType
  BY <1>4 DEF IsCut
<1>6. IsWithNode(l, cut, id, Blank)
  BY <1>5, SetBlank
<1> HIDE DEF l
<1>7. /\ l \in ListType /\ l.head = cut.head /\ l.tail = cut.tail /\ l.size = cut.size
      /\ l.nodes[id] = Blank /\ \A k \in Keys : k # id => l.nodes[k] = cut.nodes[k]
  BY <1>6 DEF IsWithNode
<1>8. IsRemoved(l, d, id, p, n)
  BY <1>4, <1>7 DEF IsCut, IsRemoved
<1> QED BY <1>1, <1>8

(* A list without its i-th element. *)
LEMMA RemoveAtFacts ==
  ASSUME NEW E, NEW s \in Seq(E), NEW i \in 1..Len(s)
  PROVE  /\ RemoveAt(s, i) \in Seq(E) /\ Len(RemoveAt(s, i)) = Len(s) - 1
         /\ \A k \in 1..(Len(s) - 1) : RemoveAt(s, i)[k] = IF k < i THEN s[k] ELSE s[k + 1]
<1> DEFINE a == SubSeq(s, 1, i - 1)
           c == SubSeq(s, i + 1, Len(s))
<1>0. Len(s) \in Nat /\ \A k \in 1..Len(s) : s[k] \in E
  BY ListFacts
<1>1. /\ a \in Seq(E) /\ Len(a) = i - 1
      /\ \A k \in 1..(i - 1) : a[k] = s[k]
  BY <1>0, SubSeqProperties
<1>2. /\ c \in Seq(E) /\ Len(c) = Len(s) - i
      /\ \A k \in 1..(Len(s) - i) : c[k] = s[k + i]
  <2>1. \A k \in (i + 1)..Len(s) : s[k] \in E
    BY <1>0
  <2>2. i + 1 \in Int /\ Len(s) \in Int
    BY <1>0
  <2>3. /\ c \in Seq(E)
        /\ Len(c) = IF i + 1 <= Len(s) THEN Len(s) - (i + 1) + 1 ELSE 0
        /\ \A k \in 1..(Len(s) - (i + 1) + 1) : c[k] = s[(i + 1) + k - 1]
    BY <2>1, <2>2, SubSeqProperties
  <2> HIDE DEF c
  <2>4. /\ Len(s) - (i + 1) + 1 = Len(s) - i
        /\ i + 1 <= Len(s) \/ Len(s) - i = 0
    BY <1>0
  <2>6. Len(c) = Len(s) - i
    BY <1>0, <2>3, <2>4
  <2>7. ASSUME NEW k \in 1..(Len(s) - i) PROVE c[k] = s[k + i]
    <3>1. c[k] = s[(i + 1) + k - 1]
      BY <2>3, <2>4
    <3>2. (i + 1) + k - 1 = k + i
      BY <1>0
    <3> QED BY <3>1, <3>2
  <2> QED BY <2>3, <2>6, <2>7
<1>3. RemoveAt(s, i) = a \o c
  BY DEF RemoveAt
<1> HIDE DEF a, c
<1>4. /\ a \o c \in Seq(E) /\ Len(a \o c) = Len(a) + Len(c)
      /\ \A k \in 1..(Len(a) + Len(c)) :
           (a \o c)[k] = IF k <= Len(a) THEN a[k] ELSE c[k - Len(a)]
  BY <1>1, <1>2, ConcatProperties
<1>5. Len(a) + Len(c) = Len(s) - 1
  BY <1>0, <1>1, <1>2
<1>6. ASSUME NEW k \in 1..(Len(s) - 1)
      PROVE (a \o c)[k] = IF k < i THEN s[k] ELSE s[k + 1]
  <2>1. CASE k < i
    <3>1. k <= Len(a) /\ k \in 1..(i - 1)
      BY <2>1, <1>0, <1>1
    <3> QED BY <2>1, <3>1, <1>1, <1>4, <1>5
  <2>2. CASE ~(k < i)
    <3>1. ~(k <= Len(a)) /\ k - Len(a) = k - (i - 1) /\ k - (i - 1) \in 1..(Len(s) - i)
          /\ (k - (i - 1)) + i = k + 1
      BY <2>2, <1>0, <1>1
    <3>2. (a \o c)[k] = c[k - (i - 1)]
      BY <3>1, <1>4, <1>5
    <3>3. c[k - (i - 1)] = s[k + 1]
      BY <3>1, <1>2
    <3> QED BY <2>2, <3>2, <3>3
  <2> QED BY <2>1, <2>2
<1> QED
  BY <1>3, <1>4, <1>5, <1>6

(* A removal takes one element and leaves the others distinct.             *)
LEMMA RemoveAtKeepsDistinct ==
  ASSUME NEW E, NEW s \in Seq(E), NEW i \in 1..Len(s), IsInjective(s)
  PROVE  /\ IsInjective(RemoveAt(s, i))
         /\ ToSet(RemoveAt(s, i)) = ToSet(s) \ {s[i]}
<1> DEFINE t == RemoveAt(s, i)
<1>0. Len(s) \in Nat
  BY ListFacts
<1>1. /\ t \in Seq(E) /\ Len(t) = Len(s) - 1
      /\ \A k \in 1..(Len(s) - 1) : t[k] = IF k < i THEN s[k] ELSE s[k + 1]
  BY RemoveAtFacts
<1> HIDE DEF t
<1>2. /\ ToSet(t) = {t[k] : k \in 1..Len(t)} /\ DOMAIN t = 1..Len(t)
      /\ ToSet(s) = {s[k] : k \in 1..Len(s)} /\ DOMAIN s = 1..Len(s)
  BY <1>1, ListFacts
<1>3. \A k, m \in 1..Len(s) : s[k] = s[m] => k = m
  BY <1>2 DEF IsInjective
<1> DEFINE q(k) == IF k < i THEN k ELSE k + 1
<1>4. \A k \in 1..Len(t) : q(k) \in 1..Len(s) /\ q(k) # i /\ t[k] = s[q(k)]
  BY <1>0, <1>1
<1>5. \A k, m \in 1..Len(t) : q(k) = q(m) => k = m
  BY <1>0, <1>1
<1>6. \A k \in 1..Len(s) : k # i => \E m \in 1..Len(t) : q(m) = k
  <2> SUFFICES ASSUME NEW k \in 1..Len(s), k # i PROVE \E m \in 1..Len(t) : q(m) = k
    OBVIOUS
  <2>1. CASE k < i
    <3>1. k \in 1..Len(t) /\ q(k) = k
      BY <1>0, <1>1, <2>1
    <3> QED BY <3>1
  <2>2. CASE k > i
    <3>1. k - 1 \in 1..Len(t) /\ q(k - 1) = k
      BY <1>0, <1>1, <2>2
    <3> QED BY <3>1
  <2> QED BY <2>1, <2>2
<1> HIDE DEF q
<1>7. IsInjective(t)
  BY <1>2, <1>3, <1>4, <1>5 DEF IsInjective
<1>8. ToSet(t) = ToSet(s) \ {s[i]}
  <2>1. ASSUME NEW k \in 1..Len(t) PROVE t[k] \in ToSet(s) \ {s[i]}
    BY <1>2, <1>3, <1>4
  <2>2. ASSUME NEW k \in 1..Len(s), s[k] # s[i] PROVE s[k] \in ToSet(t)
    <3>1. PICK m \in 1..Len(t) : q(m) = k
      BY <1>6, <2>2
    <3> QED BY <1>2, <1>4, <3>1
  <2> QED BY <1>2, <2>1, <2>2
<1> QED BY <1>7, <1>8 DEF t

NeighboursClose(s, t, i) ==
  \A j \in 0..Len(t) : /\ After(t, j) = (IF j < i - 1 THEN After(s, j) ELSE After(s, j + 1))
                       /\ Before(t, j) = (IF j < i THEN Before(s, j) ELSE Before(s, j + 1))

(* The neighbours of a slot after a removal. *)
LEMMA NeighboursAfterRemoval ==
  ASSUME NEW s \in Seq(Ids), NEW i \in 1..Len(s)
  PROVE  NeighboursClose(s, RemoveAt(s, i), i)
<1> DEFINE t == RemoveAt(s, i)
<1>1. /\ t \in Seq(Ids) /\ Len(t) = Len(s) - 1 /\ Len(s) \in Nat
      /\ \A k \in 1..(Len(s) - 1) : t[k] = IF k < i THEN s[k] ELSE s[k + 1]
  <2>1. Len(s) \in Nat
    BY ListFacts
  <2>2. /\ t \in Seq(Ids) /\ Len(t) = Len(s) - 1
        /\ \A k \in 1..(Len(s) - 1) : t[k] = IF k < i THEN s[k] ELSE s[k + 1]
    BY RemoveAtFacts
  <2> QED BY <2>1, <2>2
<1> HIDE DEF t
<1> SUFFICES ASSUME NEW j \in 0..Len(t)
             PROVE  /\ After(t, j) = (IF j < i - 1 THEN After(s, j) ELSE After(s, j + 1))
                    /\ Before(t, j) = (IF j < i THEN Before(s, j) ELSE Before(s, j + 1))
  BY <1>1 DEF NeighboursClose, t
<1>2. After(t, j) = (IF j < i - 1 THEN After(s, j) ELSE After(s, j + 1))
  <2>1. CASE j = Len(t)
    <3>1. ~(j < i - 1) /\ j + 1 = Len(s)
      BY <1>1, <2>1
    <3> QED BY <2>1, <3>1 DEF After
  <2>2. CASE j # Len(t) /\ j < i - 1
    <3>1. j + 1 \in 1..(Len(s) - 1) /\ j + 1 < i /\ j # Len(s)
      BY <1>1, <2>2
    <3> QED BY <1>1, <2>2, <3>1 DEF After
  <2>3. CASE j # Len(t) /\ ~(j < i - 1)
    <3>1. j + 1 \in 1..(Len(s) - 1) /\ ~(j + 1 < i) /\ j + 1 # Len(s)
      BY <1>1, <2>3
    <3> QED BY <1>1, <2>3, <3>1 DEF After
  <2> QED BY <2>1, <2>2, <2>3
<1>3. Before(t, j) = (IF j < i THEN Before(s, j) ELSE Before(s, j + 1))
  <2>1. CASE j = 0
    <3>1. j < i
      BY <2>1, <1>1
    <3> QED BY <2>1, <3>1 DEF Before
  <2>2. CASE j # 0
    <3>1. j \in 1..(Len(s) - 1) /\ j + 1 # 0
      BY <1>1, <2>2
    <3> QED BY <1>1, <2>2, <3>1 DEF Before
  <2> QED BY <2>1, <2>2
<1> QED BY <1>2, <1>3

(* Unlinking an address removes it from the sequence. *)
LEMMA UnlinkedRepresents ==
  ASSUME NEW d, NEW s, Represents(d, s), NEW i \in 1..Len(s)
  PROVE  Represents(Unlinked(d, s[i]), RemoveAt(s, i))
<1> DEFINE id == s[i]
           p == Before(s, i - 1)
           n == After(s, i)
           t == RemoveAt(s, i)
           l == Unlinked(d, id)
<1>1. /\ s \in Seq(Ids) /\ Len(s) \in Nat
      /\ \A j \in 1..Len(s) : s[j] \in Ids /\ s[j] \in Keys /\ s[j] # Null
      /\ \A j, k \in 1..Len(s) : s[j] = s[k] => j = k
      /\ ToSet(s) = {s[j] : j \in 1..Len(s)}
      /\ \A j \in 0..Len(s) : Before(s, j) \in Keys /\ After(s, j) \in Keys
  BY RepresentedFacts
<1>2. d \in ListType /\ d.size = Len(s) /\ d.head = After(s, 0) /\ d.tail = Before(s, Len(s))
  BY DEF Represents
<1>3. /\ id \in Keys /\ id # Null /\ p \in Keys /\ n \in Keys
      /\ d.nodes[id].prevId = p /\ d.nodes[id].nextId = n
  <2>1. d.nodes[s[i]] = NodeOf(s, i)
    BY DEF Represents
  <2>2. i - 1 \in 0..Len(s) /\ i \in 0..Len(s)
    BY <1>1
  <2> QED BY <1>1, <2>1, <2>2 DEF NodeOf
<1>4. /\ i = 1 => p = Null
      /\ i # 1 => i - 1 \in 1..Len(s) /\ p = s[i - 1]
      /\ i = Len(s) => n = Null
      /\ i # Len(s) => i + 1 \in 1..Len(s) /\ n = s[i + 1]
  BY <1>1 DEF Before, After
<1>5. /\ id # p /\ id # n /\ (p = n => p = Null)
      /\ p = Null <=> i = 1
      /\ n = Null <=> i = Len(s)
  BY <1>1, <1>3, <1>4
<1>6. /\ i = 1 <=> id = d.head
      /\ i = Len(s) <=> id = d.tail
      /\ d.size >= 1 /\ (d.size <= 1 <=> i = 1 /\ i = Len(s))
  <2>1. d.head = s[1] /\ d.tail = s[Len(s)] /\ 1 \in 1..Len(s) /\ Len(s) \in 1..Len(s)
    BY <1>1, <1>2 DEF Before, After
  <2> QED BY <1>1, <1>2, <2>1
<1>7. IsRemoved(l, d, id, p, n)
  <2> HIDE DEF p, n, id
  <2> QED BY <1>2, <1>3, <1>5, <1>6, UnlinkedFields
<1>8. /\ t \in Seq(Ids) /\ Len(t) = Len(s) - 1
      /\ \A k \in 1..(Len(s) - 1) : t[k] = IF k < i THEN s[k] ELSE s[k + 1]
  BY <1>1, RemoveAtFacts
<1>9. IsInjective(t) /\ ToSet(t) = ToSet(s) \ {id}
  <2>1. IsInjective(s)
    BY DEF Represents
  <2> QED BY <1>1, <2>1, RemoveAtKeepsDistinct
<1>10. \A j \in 0..Len(t) : /\ After(t, j) = (IF j < i - 1 THEN After(s, j) ELSE After(s, j + 1))
                            /\ Before(t, j) = (IF j < i THEN Before(s, j) ELSE Before(s, j + 1))
  <2>1. NeighboursClose(s, t, i)
    BY <1>1, NeighboursAfterRemoval
  <2> HIDE DEF t
  <2> QED BY <2>1 DEF NeighboursClose
<1> HIDE DEF p, n, t, l, id
<1>11. l.size = Len(t) /\ l.head = After(t, 0) /\ l.tail = Before(t, Len(t))
  <2>1. After(t, 0) = IF i = 1 THEN After(s, 1) ELSE After(s, 0)
    <3>1. 0 \in 0..Len(t) /\ (0 < i - 1 <=> i # 1) /\ 0 + 1 = 1
      BY <1>1, <1>8
    <3> QED BY <1>10, <3>1
  <2>2. Before(t, Len(t)) = IF i = Len(s) THEN Before(s, i - 1) ELSE Before(s, Len(s))
    <3>1. /\ Len(t) \in 0..Len(t) /\ (Len(t) < i <=> i = Len(s)) /\ Len(t) + 1 = Len(s)
          /\ (i = Len(s) => Len(t) = i - 1)
      BY <1>1, <1>8
    <3> QED BY <1>10, <3>1
  <2>3. l.head = (IF i = 1 THEN n ELSE d.head) /\ l.tail = (IF i = Len(s) THEN p ELSE d.tail)
    BY <1>5, <1>7 DEF IsRemoved
  <2>4. l.size = Len(t)
    BY <1>2, <1>7, <1>8 DEF IsRemoved
  <2> QED BY <1>2, <2>1, <2>2, <2>3, <2>4 DEF p, n
<1>12. ASSUME NEW j \in 1..Len(t) PROVE l.nodes[t[j]] = NodeOf(t, j)
  <2>0. j - 1 \in 0..Len(t) /\ j \in 0..Len(t) /\ j \in 1..(Len(s) - 1)
    BY <1>1, <1>8
  <2>1. CASE j < i
    <3>1. /\ j \in 1..Len(s) /\ t[j] = s[j] /\ s[j] \in Keys /\ s[j] # Null /\ s[j] # id
      BY <1>1, <1>8, <2>0, <2>1 DEF id
    <3>2. d.nodes[s[j]] = NodeOf(s, j)
      BY <3>1 DEF Represents
    <3>3. (s[j] = p <=> j = i - 1) /\ s[j] # n
      <4>1. j # i + 1 /\ (j = i - 1 => i # 1)
        BY <2>0, <2>1
      <4> QED BY <1>1, <1>4, <3>1, <4>1
    <3>4. IF j = i - 1 THEN NextIs(l.nodes[s[j]], d.nodes[s[j]], n) ELSE l.nodes[s[j]] = d.nodes[s[j]]
      BY <1>7, <3>1, <3>3 DEF IsRemoved
    <3>5. After(t, j) = (IF j = i - 1 THEN n ELSE After(s, j)) /\ Before(t, j - 1) = Before(s, j - 1)
      <4>1. j - 1 < i /\ (j < i - 1 <=> j # i - 1) /\ (j = i - 1 => j + 1 = i)
        BY <2>1, <2>0
      <4> QED BY <1>10, <2>0, <4>1 DEF n
    <3>6. CASE j = i - 1
      <4>1. NextIs(l.nodes[s[j]], NodeOf(s, j), n)
        BY <3>2, <3>4, <3>6
      <4>2. /\ l.nodes[s[j]] \in Node /\ l.nodes[s[j]].exists = TRUE
            /\ l.nodes[s[j]].nextId = After(t, j) /\ l.nodes[s[j]].prevId = Before(t, j - 1)
        BY <3>5, <3>6, <4>1 DEF NextIs, NodeOf
      <4>3. l.nodes[s[j]] = NodeAs(After(t, j), Before(t, j - 1))
        BY <4>2, NodeByFields
      <4> QED BY <3>1, <4>3 DEF NodeAs, NodeOf
    <3>7. CASE j # i - 1
      BY <3>1, <3>2, <3>4, <3>5, <3>7 DEF NodeOf
    <3> QED BY <3>6, <3>7
  <2>2. CASE ~(j < i)
    <3>1. /\ j + 1 \in 1..Len(s) /\ t[j] = s[j + 1] /\ s[j + 1] \in Keys /\ s[j + 1] # Null
          /\ s[j + 1] # id
      BY <1>1, <1>8, <2>0, <2>2 DEF id
    <3>2. d.nodes[s[j + 1]] = NodeOf(s, j + 1)
      BY <3>1 DEF Represents
    <3>3. (s[j + 1] = n <=> j = i) /\ s[j + 1] # p
      <4>1. j + 1 # i - 1 /\ (j + 1 = i + 1 <=> j = i) /\ (j = i => i # Len(s))
        BY <1>1, <2>0, <2>2
      <4> QED BY <1>1, <1>4, <3>1, <4>1
    <3>4. IF j = i THEN PrevIs(l.nodes[s[j + 1]], d.nodes[s[j + 1]], p)
          ELSE l.nodes[s[j + 1]] = d.nodes[s[j + 1]]
      BY <1>7, <3>1, <3>3 DEF IsRemoved
    <3>5. After(t, j) = After(s, j + 1) /\ Before(t, j - 1) = (IF j = i THEN p ELSE Before(s, j))
      <4>1. ~(j < i - 1) /\ (j - 1 < i <=> j = i) /\ (j - 1) + 1 = j
        BY <2>2, <2>0
      <4> QED BY <1>10, <2>0, <4>1 DEF p
    <3>6. CASE j = i
      <4>1. PrevIs(l.nodes[s[j + 1]], NodeOf(s, j + 1), p)
        BY <3>2, <3>4, <3>6
      <4>2. /\ l.nodes[s[j + 1]] \in Node /\ l.nodes[s[j + 1]].exists = TRUE
            /\ l.nodes[s[j + 1]].nextId = After(t, j)
            /\ l.nodes[s[j + 1]].prevId = Before(t, j - 1)
        BY <3>5, <3>6, <4>1 DEF PrevIs, NodeOf
      <4>3. l.nodes[s[j + 1]] = NodeAs(After(t, j), Before(t, j - 1))
        BY <4>2, NodeByFields
      <4> QED BY <3>1, <4>3 DEF NodeAs, NodeOf
    <3>7. CASE j # i
      <4>1. NodeOf(s, j + 1) = NodeOf(t, j)
        <5>1. (j + 1) - 1 = j
          BY <2>0
        <5> QED BY <3>5, <3>7, <5>1 DEF NodeOf
      <4> QED BY <3>1, <3>2, <3>4, <3>7, <4>1
    <3> QED BY <3>6, <3>7
  <2> QED BY <2>1, <2>2
<1>13. ASSUME NEW k \in Keys, k \notin ToSet(t) PROVE l.nodes[k] = Blank
  <2>1. CASE k = id
    BY <1>7, <2>1 DEF IsRemoved
  <2>2. CASE k # id
    <3>1. k \notin ToSet(s)
      BY <1>9, <1>13, <2>2
    <3>2. d.nodes[k] = Blank
      BY <3>1 DEF Represents
    <3>3. k # Null => k # p /\ k # n
      BY <1>1, <1>4, <3>1
    <3> QED BY <1>7, <2>2, <3>2, <3>3 DEF IsRemoved
  <2> QED BY <2>1, <2>2
<1>14. Represents(l, t)
  BY <1>7, <1>8, <1>9, <1>11, <1>12, <1>13 DEF Represents, IsRemoved
<1> QED BY <1>14 DEF l, t, id

------------------------------------------------------------------------------
(* Positions. *)

(* A pair of neighbours between which the ratio r fits. *)
Lands(position, s, r) ==
  \E i \in List!Fits(s, r) : position = <<Before(s, i), After(s, i)>>

(* The slots in which a ratio fits. *)
LEMMA FitsFacts ==
  ASSUME NEW s, NEW r, NEW i
  PROVE  i \in List!Fits(s, r) <=> /\ i \in 0..Len(s)
                                   /\ i > 0 => nicr[s[i]] >= r
                                   /\ i < Len(s) => r >= nicr[s[i + 1]]
BY DEF List!Fits

(* A position is valid exactly when it is a slot in which the ratio fits.  *)
LEMMA ValidLands ==
  ASSUME NEW d, NEW s, Represents(d, s), NEW r, NEW p \in Keys, NEW n \in Keys,
         ValidInsertPosition(d, r, p, n)
  PROVE  Lands(<<p, n>>, s, r)
<1>1. /\ s \in Seq(Ids) /\ Len(s) \in Nat /\ d.nodes[Null] = Blank
      /\ \A j \in 1..Len(s) : s[j] \in Ids /\ s[j] \in Keys /\ s[j] # Null
      /\ ToSet(s) = {s[j] : j \in 1..Len(s)}
  BY RepresentedFacts
<1>2. d.size = Len(s) /\ d.head = After(s, 0) /\ d.tail = Before(s, Len(s))
  BY DEF Represents
<1> SUFFICES \E i \in 0..Len(s) : /\ p = Before(s, i) /\ n = After(s, i)
                                  /\ i > 0 => nicr[s[i]] >= r
                                  /\ i < Len(s) => r >= nicr[s[i + 1]]
  BY FitsFacts DEF Lands
<1>3. CASE p = Null /\ n = Null
  <2>1. Len(s) = 0
    BY <1>2, <1>3 DEF ValidInsertPosition
  <2>2. p = Before(s, 0) /\ n = After(s, 0)
    BY <1>3, <2>1 DEF Before, After
  <2> QED BY <2>1, <2>2
<1>4. CASE p = Null /\ n # Null
  <2>1. d.head = n /\ r >= nicr[n]
    BY <1>4 DEF ValidInsertPosition
  <2>2. Len(s) # 0 /\ n = s[0 + 1]
    BY <1>2, <1>4, <2>1 DEF After
  <2>3. p = Before(s, 0) /\ n = After(s, 0) /\ 0 \in 0..Len(s)
    BY <1>1, <1>2, <1>4, <2>1 DEF Before
  <2>4. r >= nicr[s[0 + 1]]
    BY <2>1, <2>2
  <2> QED BY <2>3, <2>4
<1>5. CASE p # Null /\ n = Null
  <2>1. d.tail = p /\ r <= nicr[p]
    BY <1>5 DEF ValidInsertPosition
  <2>2. Len(s) # 0 /\ p = s[Len(s)]
    BY <1>2, <1>5, <2>1 DEF Before
  <2>3. p = Before(s, Len(s)) /\ n = After(s, Len(s)) /\ Len(s) \in 0..Len(s)
    BY <1>1, <1>2, <1>5, <2>1 DEF After
  <2>4. nicr[s[Len(s)]] >= r
    BY <2>1, <2>2
  <2> QED BY <1>1, <2>3, <2>4
<1>6. CASE p # Null /\ n # Null
  <2>1. d.nodes[p].nextId = n /\ nicr[p] >= r /\ r >= nicr[n]
    BY <1>6 DEF ValidInsertPosition
  <2>2. p \in ToSet(s)
    <3>1. SUFFICES ASSUME p \notin ToSet(s) PROVE FALSE
      OBVIOUS
    <3>2. d.nodes[p] = Blank
      BY <3>1 DEF Represents
    <3> QED BY <1>6, <2>1, <3>2, BlankFields
  <2>3. PICK i \in 1..Len(s) : s[i] = p
    BY <1>1, <2>2
  <2>4. n = After(s, i)
    <3>1. d.nodes[s[i]] = NodeOf(s, i)
      BY DEF Represents
    <3> QED BY <2>1, <2>3, <3>1 DEF NodeOf
  <2>5. i # Len(s) /\ n = s[i + 1]
    BY <1>6, <2>4 DEF After
  <2>6. i \in 0..Len(s) /\ p = Before(s, i)
    BY <1>1, <2>3 DEF Before
  <2> QED BY <2>1, <2>3, <2>4, <2>5, <2>6
<1> QED BY <1>3, <1>4, <1>5, <1>6

(* The contract accepts every slot in which the ratio fits.                *)
LEMMA SlotIsValid ==
  ASSUME NEW d, NEW s, Represents(d, s), NEW r, NEW i \in List!Fits(s, r)
  PROVE  ValidInsertPosition(d, r, Before(s, i), After(s, i))
<1>1. /\ s \in Seq(Ids) /\ Len(s) \in Nat
      /\ \A j \in 1..Len(s) : s[j] \in Ids /\ s[j] \in Keys /\ s[j] # Null
  BY RepresentedFacts
<1>2. d.size = Len(s) /\ d.head = After(s, 0) /\ d.tail = Before(s, Len(s))
  BY DEF Represents
<1>3. /\ i \in 0..Len(s)
      /\ i > 0 => nicr[s[i]] >= r
      /\ i < Len(s) => r >= nicr[s[i + 1]]
  BY FitsFacts
<1>4. CASE i = 0 /\ i = Len(s)
  BY <1>2, <1>4 DEF ValidInsertPosition, Before, After
<1>5. CASE i = 0 /\ i # Len(s)
  <2>1. Before(s, i) = Null /\ After(s, i) = s[1] /\ s[1] # Null /\ d.head = s[1] /\ r >= nicr[s[1]]
    BY <1>1, <1>2, <1>3, <1>5 DEF Before, After
  <2> QED BY <2>1 DEF ValidInsertPosition
<1>6. CASE i # 0 /\ i = Len(s)
  <2>1. Before(s, i) = s[i] /\ s[i] # Null /\ After(s, i) = Null /\ d.tail = s[i] /\ nicr[s[i]] >= r
    BY <1>1, <1>2, <1>3, <1>6 DEF Before, After
  <2>2. r <= nicr[s[i]]
    BY <2>1
  <2> QED BY <2>1, <2>2 DEF ValidInsertPosition
<1>7. CASE i # 0 /\ i # Len(s)
  <2>1. i \in 1..Len(s) /\ i + 1 \in 1..Len(s)
    BY <1>1, <1>3, <1>7
  <2>2. /\ Before(s, i) = s[i] /\ s[i] # Null /\ After(s, i) = s[i + 1] /\ s[i + 1] # Null
        /\ nicr[s[i]] >= r /\ r >= nicr[s[i + 1]]
    BY <1>1, <1>3, <1>7, <2>1 DEF Before, After
  <2>3. d.nodes[s[i]].nextId = s[i + 1]
    <3>1. d.nodes[s[i]] = NodeOf(s, i)
      BY <2>1 DEF Represents
    <3> QED BY <2>2, <3>1 DEF NodeOf
  <2> QED BY <2>2, <2>3 DEF ValidInsertPosition
<1> QED BY <1>4, <1>5, <1>6, <1>7

(* A loop that follows a link until it stops is defined, when the links    *)
(* lead nowhere but down in some finite order.                             *)
LoopIs(f, K, V, W, nxt) == f = [k \in K |-> IF k \in V THEN W[k] ELSE f[nxt[k]]]

(* By induction on the rank of the key the loop starts from.               *)
LEMMA LoopDefined ==
  ASSUME NEW K, NEW nxt \in [K -> K], NEW V, NEW W, NEW M \in Nat, NEW rank \in [K -> 0..M],
         \A k \in K : k \notin V => rank[nxt[k]] < rank[k]
  PROVE  \E f : LoopIs(f, K, V, W, nxt)
<1> DEFINE Good(f, m) == \A k \in K : rank[k] <= m => f[k] = IF k \in V THEN W[k] ELSE f[nxt[k]]
           T == {m \in Nat : \E f : f = [k \in K |-> f[k]] /\ (m = 0 \/ Good(f, m - 1))}
<1>1. 0 \in T
  <2> DEFINE f == [k \in K |-> 0]
  <2>1. f = [k \in K |-> f[k]]
    OBVIOUS
  <2> HIDE DEF f
  <2> QED BY <2>1
<1>2. ASSUME NEW m \in 1..(M + 1), m - 1 \in T PROVE m \in T
  <2>1. PICK f : f = [k \in K |-> f[k]] /\ (m - 1 = 0 \/ Good(f, (m - 1) - 1))
    BY <1>2
  <2> DEFINE g == [k \in K |-> IF rank[k] <= m - 2 THEN f[k]
                               ELSE IF k \in V THEN W[k] ELSE f[nxt[k]]]
  <2>2. \A k \in K : rank[k] \in Nat /\ nxt[k] \in K
    OBVIOUS
  <2>3. ASSUME NEW k \in K, rank[k] <= m - 1
        PROVE  g[k] = IF k \in V THEN W[k] ELSE g[nxt[k]]
    <3>1. k \notin V => rank[nxt[k]] < rank[k]
      OBVIOUS
    <3>2. k \notin V => rank[nxt[k]] <= m - 2
      BY <2>2, <2>3, <3>1
    <3>3. k \notin V => g[nxt[k]] = f[nxt[k]]
      BY <2>2, <3>2
    <3>4. rank[k] <= m - 2 => f[k] = IF k \in V THEN W[k] ELSE f[nxt[k]]
      <4>1. rank[k] <= m - 2 => m - 1 # 0 /\ (m - 1) - 1 = m - 2
        BY <2>2
      <4> QED BY <2>1, <4>1
    <3>5. g[k] = IF rank[k] <= m - 2 THEN f[k] ELSE IF k \in V THEN W[k] ELSE f[nxt[k]]
      OBVIOUS
    <3> HIDE DEF g
    <3> QED BY <3>3, <3>4, <3>5
  <2>4. g = [k \in K |-> g[k]]
    OBVIOUS
  <2> HIDE DEF g
  <2>5. m \in Nat /\ Good(g, m - 1)
    BY <2>3
  <2> QED BY <2>4, <2>5
<1>3. M + 1 \in T
  <2> HIDE DEF T
  <2>1. \A m \in 0..(M + 1) : m \in T
    BY <1>1, <1>2, LoopInduction
  <2> QED BY <2>1
<1>4. PICK f : f = [k \in K |-> f[k]] /\ (M + 1 = 0 \/ Good(f, (M + 1) - 1))
  BY <1>3
<1>5. \A k \in K : f[k] = IF k \in V THEN W[k] ELSE f[nxt[k]]
  BY <1>4
<1>6. f = [k \in K |-> IF k \in V THEN W[k] ELSE f[nxt[k]]]
  BY <1>4, <1>5
<1> QED BY <1>6 DEF LoopIs

(* The loop of _descendList has a result for every start.                *)
LEMMA DescentEquation ==
  ASSUME NEW d, NEW s, Represents(d, s), NEW r, NEW k \in Keys
  PROVE  Descent(d, r)[k] =
           IF k = Null \/ ValidInsertPosition(d, r, k, d.nodes[k].nextId)
           THEN <<k, d.nodes[k].nextId>> ELSE Descent(d, r)[d.nodes[k].nextId]
<1> DEFINE nxt == [j \in Keys |-> d.nodes[j].nextId]
           V == {q \in Keys : q = Null \/ ValidInsertPosition(d, r, q, d.nodes[q].nextId)}
           W == [q \in Keys |-> <<q, d.nodes[q].nextId>>]
           At(j) == CHOOSE i \in 1..Len(s) : s[i] = j
           rank == [j \in Keys |-> IF j = Null THEN 0
                                   ELSE IF j \notin ToSet(s) THEN 1 ELSE Len(s) + 1 - At(j)]
           Loop(f) == f = [j \in Keys |-> IF j \in V THEN W[j] ELSE f[nxt[j]]]
           Code(f) == f = [q \in Keys |->
                        IF q = Null \/ ValidInsertPosition(d, r, q, d.nodes[q].nextId)
                        THEN <<q, d.nodes[q].nextId>> ELSE f[d.nodes[q].nextId]]
           from == CHOOSE f : Code(f)
<1>1. /\ s \in Seq(Ids) /\ Len(s) \in Nat /\ d.nodes[Null] = Blank
      /\ \A j \in 1..Len(s) : s[j] \in Ids /\ s[j] \in Keys /\ s[j] # Null
      /\ \A i, j \in 1..Len(s) : s[i] = s[j] => i = j
      /\ ToSet(s) = {s[j] : j \in 1..Len(s)}
  BY RepresentedFacts
<1>2. nxt \in [Keys -> Keys]
  BY DEF Represents, ListType, Node
<1>3. \A j \in ToSet(s) : At(j) \in 1..Len(s) /\ s[At(j)] = j
  BY <1>1
<1>4. \A i \in 1..Len(s) : At(s[i]) = i
  BY <1>1, <1>3
<1>5. rank \in [Keys -> 0..(Len(s) + 1)]
  <2> HIDE DEF At
  <2> QED BY <1>1, <1>3
<1>6. ASSUME NEW j \in Keys, j \notin V PROVE rank[nxt[j]] < rank[j]
  <2>1. j # Null
    BY <1>6
  <2>2. Null \in Keys /\ rank[Null] = 0
    BY DEF Keys
  <2>3. nxt[j] = d.nodes[j].nextId
    OBVIOUS
  <2> HIDE DEF V, At, nxt
  <2>4. CASE j \notin ToSet(s)
    <3>1. d.nodes[j] = Blank
      BY <2>4 DEF Represents
    <3>2. nxt[j] = Null
      BY <2>3, <3>1, BlankFields
    <3>3. rank[j] = 1
      BY <2>1, <2>4
    <3> HIDE DEF rank
    <3> QED BY <2>2, <3>2, <3>3
  <2>5. CASE j \in ToSet(s)
    <3>1. PICK i \in 1..Len(s) : s[i] = j
      BY <1>1, <2>5
    <3>2. d.nodes[s[i]] = NodeOf(s, i)
      BY DEF Represents
    <3>3. nxt[j] = After(s, i)
      BY <2>3, <3>1, <3>2 DEF NodeOf
    <3>4. At(j) = i /\ rank[j] = Len(s) + 1 - i
      BY <1>4, <2>1, <2>5, <3>1
    <3>5. CASE i = Len(s)
      <4>1. nxt[j] = Null /\ rank[j] = 1
        BY <1>1, <3>3, <3>4, <3>5 DEF After, Before
      <4> HIDE DEF rank
      <4> QED BY <2>2, <4>1
    <3>6. CASE ~(i = Len(s))
      <4>1. i + 1 \in 1..Len(s) /\ nxt[j] = s[i + 1]
        BY <1>1, <3>3, <3>6 DEF After, Before
      <4>2. s[i + 1] \in Keys /\ s[i + 1] # Null /\ s[i + 1] \in ToSet(s) /\ At(s[i + 1]) = i + 1
        BY <1>1, <1>4, <4>1
      <4>3. rank[s[i + 1]] = Len(s) + 1 - (i + 1)
        BY <4>2
      <4> HIDE DEF rank
      <4> QED BY <1>1, <3>4, <4>1, <4>3
    <3> QED BY <3>5, <3>6
  <2> QED BY <2>4, <2>5
<1>7. \E f : Loop(f)
  <2>1. Len(s) + 1 \in Nat
    BY <1>1
  <2> DEFINE M == Len(s) + 1
  <2>2. M \in Nat /\ rank \in [Keys -> 0..M]
    BY <1>5, <2>1
  <2> HIDE DEF nxt, V, W, rank, M, Loop
  <2>3. \A j \in Keys : j \notin V => rank[nxt[j]] < rank[j]
    BY <1>6
  <2>4. \E f : LoopIs(f, Keys, V, W, nxt)
    BY <1>2, <2>2, <2>3, LoopDefined
  <2> QED BY <2>4 DEF Loop, LoopIs
<1>8. \A f : Loop(f) => Code(f)
  <2> SUFFICES ASSUME NEW f, Loop(f) PROVE Code(f)
    OBVIOUS
  <2> DEFINE A(j) == IF j \in V THEN W[j] ELSE f[nxt[j]]
             B(q) == IF q = Null \/ ValidInsertPosition(d, r, q, d.nodes[q].nextId)
                       THEN <<q, d.nodes[q].nextId>> ELSE f[d.nodes[q].nextId]
  <2>1. \A j \in Keys : A(j) = B(j)
    OBVIOUS
  <2>2. f = [j \in Keys |-> A(j)]
    OBVIOUS
  <2> HIDE DEF A, B
  <2>3. f = [j \in Keys |-> B(j)]
    BY <2>1, <2>2
  <2> QED BY <2>3 DEF B
<1>9. Code(from)
  <2> HIDE DEF Loop, Code
  <2> QED BY <1>7, <1>8
<1>10. Descent(d, r) = from
  BY Zenon DEF Descent
<1> DEFINE B(q) == IF q = Null \/ ValidInsertPosition(d, r, q, d.nodes[q].nextId)
                     THEN <<q, d.nodes[q].nextId>> ELSE from[d.nodes[q].nextId]
<1>11. from = [j \in Keys |-> B(j)]
  <2> HIDE DEF from
  <2> QED BY <1>9
<1> HIDE DEF from, B
<1>12. from[k] = B(k)
  BY <1>11
<1> QED BY <1>10, <1>12 DEF B

(* The loop of _ascendList  has a result for every start.                *)
LEMMA AscentEquation ==
  ASSUME NEW d, NEW s, Represents(d, s), NEW r, NEW k \in Keys
  PROVE  Ascent(d, r)[k] =
           IF k = Null \/ ValidInsertPosition(d, r, d.nodes[k].prevId, k)
           THEN <<d.nodes[k].prevId, k>> ELSE Ascent(d, r)[d.nodes[k].prevId]
<1> DEFINE nxt == [j \in Keys |-> d.nodes[j].prevId]
           V == {q \in Keys : q = Null \/ ValidInsertPosition(d, r, d.nodes[q].prevId, q)}
           W == [q \in Keys |-> <<d.nodes[q].prevId, q>>]
           At(j) == CHOOSE i \in 1..Len(s) : s[i] = j
           rank == [j \in Keys |-> IF j = Null THEN 0
                                   ELSE IF j \notin ToSet(s) THEN 1 ELSE At(j)]
           Loop(f) == f = [j \in Keys |-> IF j \in V THEN W[j] ELSE f[nxt[j]]]
           Code(f) == f = [q \in Keys |->
                        IF q = Null \/ ValidInsertPosition(d, r, d.nodes[q].prevId, q)
                        THEN <<d.nodes[q].prevId, q>> ELSE f[d.nodes[q].prevId]]
           from == CHOOSE f : Code(f)
<1>1. /\ s \in Seq(Ids) /\ Len(s) \in Nat /\ d.nodes[Null] = Blank
      /\ \A j \in 1..Len(s) : s[j] \in Ids /\ s[j] \in Keys /\ s[j] # Null
      /\ \A i, j \in 1..Len(s) : s[i] = s[j] => i = j
      /\ ToSet(s) = {s[j] : j \in 1..Len(s)}
  BY RepresentedFacts
<1>2. nxt \in [Keys -> Keys]
  BY DEF Represents, ListType, Node
<1>3. \A j \in ToSet(s) : At(j) \in 1..Len(s) /\ s[At(j)] = j
  BY <1>1
<1>4. \A i \in 1..Len(s) : At(s[i]) = i
  BY <1>1, <1>3
<1>5. rank \in [Keys -> 0..(Len(s) + 1)]
  <2> HIDE DEF At
  <2> QED BY <1>1, <1>3
<1>6. ASSUME NEW j \in Keys, j \notin V PROVE rank[nxt[j]] < rank[j]
  <2>1. j # Null
    BY <1>6
  <2>2. Null \in Keys /\ rank[Null] = 0
    BY DEF Keys
  <2>3. nxt[j] = d.nodes[j].prevId
    OBVIOUS
  <2> HIDE DEF V, At, nxt
  <2>4. CASE j \notin ToSet(s)
    <3>1. d.nodes[j] = Blank
      BY <2>4 DEF Represents
    <3>2. nxt[j] = Null
      BY <2>3, <3>1, BlankFields
    <3>3. rank[j] = 1
      BY <2>1, <2>4
    <3> HIDE DEF rank
    <3> QED BY <2>2, <3>2, <3>3
  <2>5. CASE j \in ToSet(s)
    <3>1. PICK i \in 1..Len(s) : s[i] = j
      BY <1>1, <2>5
    <3>2. d.nodes[s[i]] = NodeOf(s, i)
      BY DEF Represents
    <3>3. nxt[j] = Before(s, i - 1)
      BY <2>3, <3>1, <3>2 DEF NodeOf
    <3>4. At(j) = i /\ rank[j] = i
      BY <1>4, <2>1, <2>5, <3>1
    <3>5. CASE i = 1
      <4>1. nxt[j] = Null /\ rank[j] = 1
        BY <1>1, <3>3, <3>4, <3>5 DEF After, Before
      <4> HIDE DEF rank
      <4> QED BY <2>2, <4>1
    <3>6. CASE ~(i = 1)
      <4>1. i - 1 \in 1..Len(s) /\ nxt[j] = s[i - 1]
        BY <1>1, <3>3, <3>6 DEF After, Before
      <4>2. s[i - 1] \in Keys /\ s[i - 1] # Null /\ s[i - 1] \in ToSet(s) /\ At(s[i - 1]) = i - 1
        BY <1>1, <1>4, <4>1
      <4>3. rank[s[i - 1]] = i - 1
        BY <4>2
      <4> HIDE DEF rank
      <4> QED BY <1>1, <3>4, <4>1, <4>3
    <3> QED BY <3>5, <3>6
  <2> QED BY <2>4, <2>5
<1>7. \E f : Loop(f)
  <2>1. Len(s) + 1 \in Nat
    BY <1>1
  <2> DEFINE M == Len(s) + 1
  <2>2. M \in Nat /\ rank \in [Keys -> 0..M]
    BY <1>5, <2>1
  <2> HIDE DEF nxt, V, W, rank, M, Loop
  <2>3. \A j \in Keys : j \notin V => rank[nxt[j]] < rank[j]
    BY <1>6
  <2>4. \E f : LoopIs(f, Keys, V, W, nxt)
    BY <1>2, <2>2, <2>3, LoopDefined
  <2> QED BY <2>4 DEF Loop, LoopIs
<1>8. \A f : Loop(f) => Code(f)
  <2> SUFFICES ASSUME NEW f, Loop(f) PROVE Code(f)
    OBVIOUS
  <2> DEFINE A(j) == IF j \in V THEN W[j] ELSE f[nxt[j]]
             B(q) == IF q = Null \/ ValidInsertPosition(d, r, d.nodes[q].prevId, q)
                       THEN <<d.nodes[q].prevId, q>> ELSE f[d.nodes[q].prevId]
  <2>1. \A j \in Keys : A(j) = B(j)
    OBVIOUS
  <2>2. f = [j \in Keys |-> A(j)]
    OBVIOUS
  <2> HIDE DEF A, B
  <2>3. f = [j \in Keys |-> B(j)]
    BY <2>1, <2>2
  <2> QED BY <2>3 DEF B
<1>9. Code(from)
  <2> HIDE DEF Loop, Code
  <2> QED BY <1>7, <1>8
<1>10. Ascent(d, r) = from
  BY Zenon DEF Ascent
<1> DEFINE B(q) == IF q = Null \/ ValidInsertPosition(d, r, d.nodes[q].prevId, q)
                     THEN <<d.nodes[q].prevId, q>> ELSE from[d.nodes[q].prevId]
<1>11. from = [j \in Keys |-> B(j)]
  <2> HIDE DEF from
  <2> QED BY <1>9
<1> HIDE DEF from, B
<1>12. from[k] = B(k)
  BY <1>11
<1> QED BY <1>10, <1>12 DEF B

------------------------------------------------------------------------------
(* The search. *)

(* Amounts compare. *)
LEMMA RatiosAreNatural ==
  ASSUME RatioType
  PROVE  \A id \in Ids : nicr[id] \in Nat
BY SortedTrovesAssumption DEF RatioType

(* Down from a trove whose ratio is at least r, the search lands.          *)
LEMMA DescentLands ==
  ASSUME NEW d, NEW s, Represents(d, s), RatioType, NEW r \in Nat,
         NEW i \in 1..Len(s), nicr[s[i]] >= r
  PROVE  Lands(Descent(d, r)[s[i]], s, r)
<1> DEFINE T == {m \in Nat : m = 0 \/ (nicr[s[Len(s) + 1 - m]] >= r
                                        => Lands(Descent(d, r)[s[Len(s) + 1 - m]], s, r))}
<1>1. /\ Len(s) \in Nat /\ \A j \in 1..Len(s) : s[j] \in Ids /\ s[j] \in Keys /\ s[j] # Null
      /\ \A j \in 0..Len(s) : After(s, j) \in Keys
  BY RepresentedFacts
<1>2. \A j \in 1..Len(s) : nicr[s[j]] \in Nat
  BY <1>1, RatiosAreNatural
<1>3. ASSUME NEW m \in 1..Len(s), m - 1 \in T PROVE m \in T
  <2> DEFINE j == Len(s) + 1 - m
             n == After(s, j)
  <2>1. j \in 1..Len(s) /\ j \in 0..Len(s) /\ Len(s) + 1 - (m - 1) = j + 1 /\ (j = Len(s) <=> m - 1 = 0)
    BY <1>1
  <2> HIDE DEF j
  <2> SUFFICES ASSUME nicr[s[j]] >= r PROVE Lands(Descent(d, r)[s[j]], s, r)
    BY DEF j
  <2>2. d.nodes[s[j]].nextId = n
    <3>1. d.nodes[s[j]] = NodeOf(s, j)
      BY <2>1 DEF Represents
    <3> QED BY <3>1 DEF NodeOf
  <2>3. s[j] \in Keys /\ s[j] # Null /\ n \in Keys
    BY <1>1, <2>1
  <2>4. Descent(d, r)[s[j]] = IF ValidInsertPosition(d, r, s[j], n) THEN <<s[j], n>>
                              ELSE Descent(d, r)[n]
    BY <2>2, <2>3, DescentEquation
  <2>5. CASE ValidInsertPosition(d, r, s[j], n)
    BY <2>3, <2>4, <2>5, ValidLands
  <2>6. CASE ~ValidInsertPosition(d, r, s[j], n)
    <3>1. j # Len(s)
      <4> SUFFICES ASSUME j = Len(s) PROVE FALSE
        OBVIOUS
      <4>1. n = Null /\ d.tail = s[j]
        BY <2>1 DEF After, Before, Represents
      <4>2. r <= nicr[s[j]]
        BY <1>2, <2>1
      <4> QED BY <2>3, <2>6, <4>1, <4>2 DEF ValidInsertPosition
    <3>2. j + 1 \in 1..Len(s) /\ n = s[j + 1]
      BY <1>1, <2>1, <3>1 DEF After
    <3>3. nicr[s[j + 1]] >= r
      <4>1. s[j + 1] # Null
        BY <1>1, <3>2
      <4>2. ~(r >= nicr[s[j + 1]])
        BY <2>2, <2>3, <2>6, <3>2, <4>1 DEF ValidInsertPosition
      <4> QED BY <1>2, <3>2, <4>2
    <3>4. m - 1 # 0 /\ nicr[s[Len(s) + 1 - (m - 1)]] >= r
      BY <2>1, <3>1, <3>3
    <3>5. Lands(Descent(d, r)[s[Len(s) + 1 - (m - 1)]], s, r)
      BY <1>3, <3>4
    <3> QED BY <2>1, <2>4, <2>6, <3>2, <3>5
  <2> QED BY <2>5, <2>6
<1>4. \A m \in 0..Len(s) : m \in T
  <2>1. 0 \in T
    OBVIOUS
  <2> HIDE DEF T
  <2> QED BY <1>1, <1>3, <2>1, LoopInduction
<1>5. Len(s) + 1 - i \in 0..Len(s) /\ Len(s) + 1 - i # 0 /\ Len(s) + 1 - (Len(s) + 1 - i) = i
  BY <1>1
<1>6. Len(s) + 1 - i \in T
  <2> HIDE DEF T
  <2> QED BY <1>4, <1>5
<1> QED BY <1>5, <1>6

(* Up from a trove whose ratio is at most r, the search lands.             *)
LEMMA AscentLands ==
  ASSUME NEW d, NEW s, Represents(d, s), RatioType, NEW r \in Nat,
         NEW i \in 1..Len(s), r >= nicr[s[i]]
  PROVE  Lands(Ascent(d, r)[s[i]], s, r)
<1> DEFINE T == {m \in Nat : m = 0 \/ (r >= nicr[s[m]] => Lands(Ascent(d, r)[s[m]], s, r))}
<1>1. /\ Len(s) \in Nat /\ \A j \in 1..Len(s) : s[j] \in Ids /\ s[j] \in Keys /\ s[j] # Null
      /\ \A j \in 0..Len(s) : Before(s, j) \in Keys
  BY RepresentedFacts
<1>2. \A j \in 1..Len(s) : nicr[s[j]] \in Nat
  BY <1>1, RatiosAreNatural
<1>3. ASSUME NEW j \in 1..Len(s), j - 1 \in T PROVE j \in T
  <2> DEFINE p == Before(s, j - 1)
  <2>1. j \in Nat /\ j - 1 \in 0..Len(s)
    BY <1>1
  <2> SUFFICES ASSUME r >= nicr[s[j]] PROVE Lands(Ascent(d, r)[s[j]], s, r)
    BY <2>1
  <2>2. d.nodes[s[j]].prevId = p
    <3>1. d.nodes[s[j]] = NodeOf(s, j)
      BY DEF Represents
    <3> QED BY <3>1 DEF NodeOf
  <2>3. s[j] \in Keys /\ s[j] # Null /\ p \in Keys
    BY <1>1, <2>1
  <2>4. Ascent(d, r)[s[j]] = IF ValidInsertPosition(d, r, p, s[j]) THEN <<p, s[j]>>
                             ELSE Ascent(d, r)[p]
    BY <2>2, <2>3, AscentEquation
  <2>5. CASE ValidInsertPosition(d, r, p, s[j])
    BY <2>3, <2>4, <2>5, ValidLands
  <2>6. CASE ~ValidInsertPosition(d, r, p, s[j])
    <3>1. j # 1
      <4> SUFFICES ASSUME j = 1 PROVE FALSE
        OBVIOUS
      <4>1. p = Null /\ d.head = s[j]
        BY <1>1 DEF After, Before, Represents
      <4> QED BY <2>3, <2>6, <4>1 DEF ValidInsertPosition
    <3>2. j - 1 \in 1..Len(s) /\ p = s[j - 1]
      BY <1>1, <2>1, <3>1 DEF Before
    <3>3. d.nodes[p].nextId = s[j]
      <4>1. d.nodes[s[j - 1]] = NodeOf(s, j - 1)
        BY <3>2 DEF Represents
      <4>2. After(s, j - 1) = s[j]
        <5>1. j - 1 # Len(s) /\ (j - 1) + 1 = j
          BY <1>1
        <5> QED BY <5>1 DEF After
      <4> QED BY <3>2, <4>1, <4>2 DEF NodeOf
    <3>4. r >= nicr[s[j - 1]]
      <4>1. p # Null
        BY <1>1, <3>2
      <4>2. ~(nicr[s[j - 1]] >= r)
        BY <2>3, <2>6, <3>2, <3>3, <4>1 DEF ValidInsertPosition
      <4> QED BY <1>2, <3>2, <4>2
    <3>5. Lands(Ascent(d, r)[s[j - 1]], s, r)
      BY <1>3, <3>2, <3>4
    <3> QED BY <2>4, <2>6, <3>2, <3>5
  <2> QED BY <2>5, <2>6
<1>4. \A m \in 0..Len(s) : m \in T
  <2>1. 0 \in T
    OBVIOUS
  <2> HIDE DEF T
  <2> QED BY <1>1, <1>3, <2>1, LoopInduction
<1>5. i \in T /\ i # 0
  <2> HIDE DEF T
  <2> QED BY <1>1, <1>4
<1> QED BY <1>5

(* _descendList from the head, and from a trove with a ratio not below r.  *)
LEMMA DescendListLands ==
  ASSUME NEW d, NEW s, Represents(d, s), RatioType, NEW r \in Nat, NEW k,
         k = d.head \/ \E i \in 1..Len(s) : k = s[i] /\ nicr[s[i]] >= r
  PROVE  Lands(DescendList(d, r, k), s, r)
<1>1. /\ Len(s) \in Nat /\ \A j \in 1..Len(s) : s[j] \in Ids /\ s[j] \in Keys /\ s[j] # Null
      /\ d.nodes[Null] = Blank
  BY RepresentedFacts
<1>2. d.head = After(s, 0)
  BY DEF Represents
<1>3. CASE Len(s) = 0
  <2>1. k = Null
    BY <1>2, <1>3 DEF After
  <2>2. Descent(d, r)[Null] = <<Null, Null>>
    <3>1. Null \in Keys
      BY DEF Keys
    <3>2. d.nodes[Null].nextId = Null
      BY <1>1, BlankFields
    <3>3. Descent(d, r)[Null] = <<Null, d.nodes[Null].nextId>>
      BY <3>1, DescentEquation
    <3> QED BY <3>2, <3>3
  <2>3. DescendList(d, r, k) = <<Null, Null>>
    BY <2>1, <2>2 DEF DescendList
  <2>4. 0 \in List!Fits(s, r)
    BY <1>3, FitsFacts
  <2>5. Before(s, 0) = Null /\ After(s, 0) = Null
    BY <1>3 DEF Before, After
  <2> QED BY <2>3, <2>4, <2>5 DEF Lands
<1>4. CASE Len(s) # 0 /\ d.head = k /\ r >= nicr[k]
  <2>1. 1 \in 1..Len(s) /\ k = s[1] /\ k # Null
    BY <1>1, <1>2, <1>4 DEF After
  <2>2. DescendList(d, r, k) = <<Null, k>>
    BY <1>4, <2>1 DEF DescendList
  <2>3. 0 \in List!Fits(s, r)
    <3>1. 0 + 1 = 1
      OBVIOUS
    <3> QED BY <1>1, <1>4, <2>1, <3>1, FitsFacts
  <2>4. Before(s, 0) = Null /\ After(s, 0) = k
    BY <1>2, <1>4 DEF Before
  <2> QED BY <2>2, <2>3, <2>4 DEF Lands
<1>5. CASE Len(s) # 0 /\ ~(d.head = k /\ r >= nicr[k])
  <2>1. \E i \in 1..Len(s) : k = s[i] /\ nicr[s[i]] >= r
    <3>1. CASE k = d.head
      <4>1. 1 \in 1..Len(s) /\ k = s[1]
        BY <1>1, <1>2, <1>5, <3>1 DEF After
      <4>2. nicr[s[1]] \in Nat
        BY <1>1, <4>1, RatiosAreNatural
      <4> QED BY <1>5, <3>1, <4>1, <4>2
    <3> QED BY <3>1
  <2>2. DescendList(d, r, k) = Descent(d, r)[k]
    BY <1>5 DEF DescendList
  <2> QED BY <2>1, <2>2, DescentLands
<1> QED BY <1>3, <1>4, <1>5

(* _ascendList from a trove with a ratio not above r.                      *)
LEMMA AscendListLands ==
  ASSUME NEW d, NEW s, Represents(d, s), RatioType, NEW r \in Nat,
         NEW i \in 1..Len(s), r >= nicr[s[i]]
  PROVE  Lands(AscendList(d, r, s[i]), s, r)
<1>1. /\ Len(s) \in Nat /\ \A j \in 1..Len(s) : s[j] \in Ids /\ s[j] # Null
      /\ \A j, k \in 1..Len(s) : s[j] = s[k] => j = k
  BY RepresentedFacts
<1>2. CASE d.tail = s[i] /\ r <= nicr[s[i]]
  <2>1. AscendList(d, r, s[i]) = <<s[i], Null>>
    BY <1>2 DEF AscendList
  <2>2. i = Len(s)
    <3>1. d.tail = s[Len(s)] /\ Len(s) \in 1..Len(s)
      BY <1>1 DEF Represents, Before
    <3> QED BY <1>1, <1>2, <3>1
  <2>3. nicr[s[i]] \in Nat
    BY <1>1, RatiosAreNatural
  <2>4. i \in List!Fits(s, r)
    BY <1>1, <1>2, <2>2, <2>3, FitsFacts
  <2>5. Before(s, i) = s[i] /\ After(s, i) = Null
    BY <2>2 DEF Before, After
  <2> QED BY <2>1, <2>4, <2>5 DEF Lands
<1>3. CASE ~(d.tail = s[i] /\ r <= nicr[s[i]])
  <2>1. AscendList(d, r, s[i]) = Ascent(d, r)[s[i]]
    BY <1>3 DEF AscendList
  <2> QED BY <2>1, AscentLands
<1> QED BY <1>2, <1>3

(* Whatever the hint, _insert ends up at a slot in which the ratio fits.   *)
LEMMA InsertPositionLands ==
  ASSUME NEW d, NEW s, Represents(d, s), RatioType, NEW r \in Nat, NEW hint \in Hints
  PROVE  Lands(InsertPosition(d, r, hint), s, r)
<1>1. /\ Len(s) \in Nat /\ \A j \in 1..Len(s) : s[j] \in Ids /\ s[j] # Null
      /\ d.nodes[Null] = Blank
  BY RepresentedFacts
<1>2. hint[1] \in Keys /\ hint[2] \in Keys /\ hint = <<hint[1], hint[2]>>
  BY DEF Hints
<1>3. CASE ValidInsertPosition(d, r, hint[1], hint[2])
  <2>1. InsertPosition(d, r, hint) = <<hint[1], hint[2]>>
    BY <1>2, <1>3 DEF InsertPosition
  <2> QED BY <1>2, <1>3, <2>1, ValidLands
<1>4. CASE ~ValidInsertPosition(d, r, hint[1], hint[2])
  <2> DEFINE p == IF hint[1] # Null /\ (~InList(d, hint[1]) \/ r > nicr[hint[1]])
                  THEN Null ELSE hint[1]
             n == IF hint[2] # Null /\ (~InList(d, hint[2]) \/ r < nicr[hint[2]])
                  THEN Null ELSE hint[2]
  <2>1. InsertPosition(d, r, hint) = IF p # Null THEN DescendList(d, r, p)
                                     ELSE IF n # Null THEN AscendList(d, r, n)
                                     ELSE DescendList(d, r, d.head)
    BY <1>4 DEF InsertPosition, FindInsertPosition
  <2>2. p # Null => \E i \in 1..Len(s) : p = s[i] /\ nicr[s[i]] >= r
    <3> SUFFICES ASSUME p # Null PROVE \E i \in 1..Len(s) : p = s[i] /\ nicr[s[i]] >= r
      OBVIOUS
    <3>1. p = hint[1] /\ InList(d, hint[1]) /\ ~(r > nicr[hint[1]])
      OBVIOUS
    <3>2. PICK i \in 1..Len(s) : s[i] = hint[1]
      BY <1>2, <3>1, InListFacts
    <3>3. nicr[s[i]] \in Nat
      BY <1>1, RatiosAreNatural
    <3> HIDE DEF p
    <3> QED BY <3>1, <3>2, <3>3
  <2>3. n # Null => \E i \in 1..Len(s) : n = s[i] /\ r >= nicr[s[i]]
    <3> SUFFICES ASSUME n # Null PROVE \E i \in 1..Len(s) : n = s[i] /\ r >= nicr[s[i]]
      OBVIOUS
    <3>1. n = hint[2] /\ InList(d, hint[2]) /\ ~(r < nicr[hint[2]])
      OBVIOUS
    <3>2. PICK i \in 1..Len(s) : s[i] = hint[2]
      BY <1>2, <3>1, InListFacts
    <3>3. nicr[s[i]] \in Nat
      BY <1>1, RatiosAreNatural
    <3> HIDE DEF n
    <3> QED BY <3>1, <3>2, <3>3
  <2> HIDE DEF p, n
  <2>4. p # Null => Lands(DescendList(d, r, p), s, r)
    BY <2>2, DescendListLands
  <2>5. n # Null => Lands(AscendList(d, r, n), s, r)
    BY <2>3, AscendListLands
  <2>6. Lands(DescendList(d, r, d.head), s, r)
    BY DescendListLands
  <2> QED BY <2>1, <2>4, <2>5, <2>6
<1> QED BY <1>3, <1>4

------------------------------------------------------------------------------
(* Steps. *)

(* After the step the fields represent t, which respects the limit, and    *)
(* the ratios are of their type.                                           *)
Becomes(t) ==
  /\ RatioType' /\ Represents(data', t) /\ Len(t) <= MaxSize /\ TheList' = t

Inserts(s, id, r) ==
  /\ Len(s) < MaxSize /\ id \notin ToSet(s)
  /\ \E i \in List!Fits(s, r) : Becomes(InsertAt(s, i + 1, id))

(* SortedList's operators on sequences are the ones used here.             *)
LEMMA SequenceOperators ==
  ASSUME NEW s, NEW i, NEW e
  PROVE  /\ List!ToSet(s) = ToSet(s) /\ List!RemoveAt(s, i) = RemoveAt(s, i)
         /\ List!InsertAt(s, i, e) = InsertAt(s, i, e)
BY DEF List!ToSet, ToSet, List!RemoveAt, RemoveAt, List!InsertAt, InsertAt

(* An address in a list of length at most MaxSize gets a ratio.            *)
LEMMA RatioIsSet ==
  ASSUME RatioType, NEW id \in Ids, NEW r \in Ratios \cup {MaxUint},
         nicr' = [nicr EXCEPT ![id] = r]
  PROVE  RatioType'
BY DEF RatioType

(* A step to fields that represent t. *)
LEMMA BecomesFacts ==
  ASSUME NEW t, RatioType', Represents(data', t), Len(t) <= MaxSize
  PROVE  Becomes(t) /\ LinksInv'
<1>1. ListOf(data') = t
  BY ListOfRepresented
<1>2. TheList' = t
  BY <1>1 DEF TheList
<1>3. LinksInv'
  BY DEF LinksInv
<1> QED BY <1>2, <1>3 DEF Becomes

(* _insert into fields d that represent s.                                 *)
LEMMA InsertIntoStep ==
  ASSUME NEW d, NEW s, Represents(d, s), Len(s) <= MaxSize, RatioType,
         NEW id \in Ids, NEW r \in Ratios, NEW hint \in Hints, InsertInto(d, id, r, hint)
  PROVE  Inserts(s, id, r) /\ LinksInv'
<1> DEFINE position == InsertPosition(d, r, hint)
<1>1. /\ ~IsFull(d) /\ ~InList(d, id) /\ r > 0
      /\ data' = Linked(d, id, position[1], position[2])
      /\ nicr' = [nicr EXCEPT ![id] = r]
  BY DEF InsertInto
<1>2. r \in Nat /\ MaxSize \in Nat /\ id \in Keys /\ Len(s) \in Nat
  BY SortedTrovesAssumption, RepresentedFacts DEF Keys
<1>3. d.size = Len(s)
  BY DEF Represents
<1>4. Len(s) < MaxSize /\ id \notin ToSet(s)
  BY <1>1, <1>2, <1>3, InListFacts DEF IsFull
<1>5. Lands(position, s, r)
  BY <1>2, InsertPositionLands
<1>6. PICK i \in List!Fits(s, r) : position = <<Before(s, i), After(s, i)>>
  <2> HIDE DEF position
  <2> QED BY <1>5 DEF Lands
<1>7. i \in 0..Len(s)
  BY FitsFacts
<1>8. data' = Linked(d, id, Before(s, i), After(s, i))
  <2> HIDE DEF position
  <2> QED BY <1>1, <1>6
<1>9. Represents(data', InsertAt(s, i + 1, id))
  BY <1>1, <1>7, <1>8, LinkedRepresents
<1>10. Len(InsertAt(s, i + 1, id)) <= MaxSize
  <2>1. s \in Seq(Ids)
    BY RepresentedFacts
  <2>2. Len(InsertAt(s, i + 1, id)) = Len(s) + 1
    BY <1>7, <2>1, InsertAtFacts
  <2> QED BY <1>2, <1>4, <2>2
<1>11. RatioType'
  BY <1>1, RatioIsSet
<1>12. Becomes(InsertAt(s, i + 1, id)) /\ LinksInv'
  BY <1>9, <1>10, <1>11, BecomesFacts
<1> QED BY <1>4, <1>12 DEF Inserts

(* The list at the start of a step. *)
LEMMA ListAtStart ==
  ASSUME LinksInv
  PROVE  /\ RatioType
         /\ Represents(data, TheList) /\ Len(TheList) <= MaxSize
<1>1. PICK s : Represents(data, s) /\ Len(s) <= MaxSize
  BY DEF LinksInv
<1>2. TheList = s
  BY <1>1, ListOfRepresented DEF TheList
<1> QED BY <1>1, <1>2 DEF LinksInv

(* insert *)
LEMMA InsertStep ==
  ASSUME LinksInv, NEW id \in Ids, NEW r \in Ratios, NEW hint \in Hints, Insert(id, r, hint)
  PROVE  List!ListInsert(id, r) /\ LinksInv'
<1>1. RatioType /\ Represents(data, TheList) /\ Len(TheList) <= MaxSize
  BY ListAtStart
<1>2. InsertInto(data, id, r, hint)
  BY DEF Insert
<1>3. Inserts(TheList, id, r) /\ LinksInv'
  BY <1>1, <1>2, InsertIntoStep
<1>4. r > 0 /\ nicr' = [nicr EXCEPT ![id] = r]
  BY <1>2 DEF InsertInto
<1>5. /\ Len(TheList) < MaxSize /\ id \notin ToSet(TheList)
      /\ \E i \in List!Fits(TheList, r) : TheList' = InsertAt(TheList, i + 1, id)
  BY <1>3 DEF Inserts, Becomes
<1> QED BY <1>3, <1>4, <1>5, SequenceOperators DEF List!ListInsert

(* A trove of the list has a place in it, without which _remove leaves the *)
(* rest.                                                                   *)
LEMMA RemovalFacts ==
  ASSUME NEW d, NEW s, Represents(d, s), Len(s) <= MaxSize, NEW id \in Ids, InList(d, id)
  PROVE  \E i \in 1..Len(s) : /\ s[i] = id
                              /\ Represents(Unlinked(d, id), RemoveAt(s, i))
                              /\ Len(RemoveAt(s, i)) <= MaxSize
<1>1. id \in Keys /\ Len(s) \in Nat /\ s \in Seq(Ids) /\ MaxSize \in Nat
  BY SortedTrovesAssumption, RepresentedFacts DEF Keys
<1>2. PICK i \in 1..Len(s) : s[i] = id
  BY <1>1, InListFacts
<1>3. Represents(Unlinked(d, s[i]), RemoveAt(s, i))
  BY UnlinkedRepresents
<1>4. Len(RemoveAt(s, i)) = Len(s) - 1
  BY <1>1, RemoveAtFacts
<1> QED BY <1>1, <1>2, <1>3, <1>4

(* remove *)
LEMMA RemoveStep ==
  ASSUME LinksInv, NEW id \in Ids, RemoveTrove(id)
  PROVE  List!ListRemove(id) /\ LinksInv'
<1>1. RatioType /\ Represents(data, TheList) /\ Len(TheList) <= MaxSize
  BY ListAtStart
<1>2. InList(data, id) /\ data' = Unlinked(data, id) /\ nicr' = [nicr EXCEPT ![id] = MaxUint]
  BY DEF RemoveTrove
<1>3. PICK i \in 1..Len(TheList) : /\ TheList[i] = id
                                   /\ Represents(data', RemoveAt(TheList, i))
                                   /\ Len(RemoveAt(TheList, i)) <= MaxSize
  BY <1>1, <1>2, RemovalFacts
<1>4. RatioType'
  BY <1>1, <1>2, RatioIsSet
<1>5. Becomes(RemoveAt(TheList, i)) /\ LinksInv'
  BY <1>3, <1>4, BecomesFacts
<1>6. TheList' = RemoveAt(TheList, i)
  BY <1>5 DEF Becomes
<1> QED BY <1>2, <1>3, <1>5, <1>6, SequenceOperators DEF List!ListRemove

(* reInsert *)
LEMMA ReInsertStep ==
  ASSUME LinksInv, NEW id \in Ids, NEW r \in Ratios, NEW hint \in Hints, ReInsert(id, r, hint)
  PROVE  List!ListReInsert(id, r) /\ LinksInv'
<1>1. RatioType /\ Represents(data, TheList) /\ Len(TheList) <= MaxSize
  BY ListAtStart
<1>2. InList(data, id) /\ r > 0 /\ InsertInto(Unlinked(data, id), id, r, hint)
  BY DEF ReInsert
<1>3. PICK i \in 1..Len(TheList) : /\ TheList[i] = id
                                   /\ Represents(Unlinked(data, id), RemoveAt(TheList, i))
                                   /\ Len(RemoveAt(TheList, i)) <= MaxSize
  BY <1>1, <1>2, RemovalFacts
<1>4. Inserts(RemoveAt(TheList, i), id, r) /\ LinksInv'
  BY <1>1, <1>2, <1>3, InsertIntoStep
<1>5. nicr' = [nicr EXCEPT ![id] = r]
  BY <1>2 DEF InsertInto
<1>6. \E j \in List!Fits(RemoveAt(TheList, i), r) :
        TheList' = InsertAt(RemoveAt(TheList, i), j + 1, id)
  BY <1>4 DEF Inserts, Becomes
<1> QED BY <1>2, <1>3, <1>4, <1>5, <1>6, SequenceOperators DEF List!ListReInsert

(* A change of a ratio under the list. *)
LEMMA RatioStep ==
  ASSUME LinksInv, NEW id \in Ids, NEW r \in Ratios, RatioChanges(id, r)
  PROVE  List!RatioMoves(id, r) /\ LinksInv'
<1>1. RatioType /\ Represents(data, TheList) /\ Len(TheList) <= MaxSize
  BY ListAtStart
<1>2. InList(data, id) /\ nicr' = [nicr EXCEPT ![id] = r] /\ data' = data
  BY DEF RatioChanges
<1>3. id \in ToSet(TheList)
  BY <1>1, <1>2, InListFacts DEF Keys
<1>4. RatioType'
  BY <1>1, <1>2, RatioIsSet
<1>5. Becomes(TheList) /\ LinksInv'
  BY <1>1, <1>2, <1>4, BecomesFacts
<1>6. TheList' = TheList
  BY <1>5 DEF Becomes
<1> QED BY <1>2, <1>3, <1>5, <1>6, SequenceOperators DEF List!RatioMoves

(* The empty list. *)
LEMMA InitRepresents ==
  ASSUME SortedTrovesInit
  PROVE  LinksInv /\ List!SortedListInit
<1>1. /\ data = [head |-> Null, tail |-> Null, size |-> 0, nodes |-> [k \in Keys |-> Blank]]
      /\ nicr = [id \in Ids |-> MaxUint]
  BY DEF SortedTrovesInit
<1>2. << >> \in Seq(Ids) /\ Len(<< >>) = 0 /\ IsInjective(<< >>) /\ DOMAIN << >> = {}
  BY DEF IsInjective
<1>3. Null \in Keys /\ Blank \in Node
  BY BlankFields DEF Keys
<1>4. data \in ListType
  BY <1>1, <1>3 DEF ListType
<1>5. data.size = Len(<< >>) /\ data.head = After(<< >>, 0) /\ data.tail = Before(<< >>, Len(<< >>))
  BY <1>1, <1>2 DEF After, Before
<1>6. \A k \in Keys : data.nodes[k] = Blank
  BY <1>1
<1>7. Represents(data, << >>)
  BY <1>2, <1>4, <1>5, <1>6 DEF Represents
<1>8. RatioType
  BY <1>1 DEF RatioType
<1>9. Len(<< >>) <= MaxSize
  BY <1>2, SortedTrovesAssumption
<1>10. LinksInv
  BY <1>7, <1>8, <1>9 DEF LinksInv
<1>11. TheList = << >>
  BY <1>7, ListOfRepresented DEF TheList
<1> QED BY <1>1, <1>10, <1>11 DEF List!SortedListInit

(* Every step keeps the relation and is a step of the sequence. *)
LEMMA StepImplements ==
  ASSUME LinksInv, [SortedTrovesNext]_stVars
  PROVE  LinksInv' /\ [List!SortedListNext]_(List!listVars)
<1>1. CASE SortedTrovesNext
  <2>1. PICK id \in Ids :
          \/ RemoveTrove(id)
          \/ \E r \in Ratios :
               \/ RatioChanges(id, r)
               \/ \E hint \in Hints : Insert(id, r, hint) \/ ReInsert(id, r, hint)
    BY <1>1 DEF SortedTrovesNext
  <2>2. CASE RemoveTrove(id)
    <3>1. List!ListRemove(id) /\ LinksInv'
      BY <2>2, RemoveStep
    <3> QED BY <3>1 DEF List!SortedListNext
  <2>3. ASSUME NEW r \in Ratios, RatioChanges(id, r)
        PROVE  LinksInv' /\ List!SortedListNext
    <3>1. List!RatioMoves(id, r) /\ LinksInv'
      BY <2>3, RatioStep
    <3> QED BY <3>1 DEF List!SortedListNext
  <2>4. ASSUME NEW r \in Ratios, NEW hint \in Hints, Insert(id, r, hint)
        PROVE  LinksInv' /\ List!SortedListNext
    <3>1. List!ListInsert(id, r) /\ LinksInv'
      BY <2>4, InsertStep
    <3> QED BY <3>1 DEF List!SortedListNext
  <2>5. ASSUME NEW r \in Ratios, NEW hint \in Hints, ReInsert(id, r, hint)
        PROVE  LinksInv' /\ List!SortedListNext
    <3>1. List!ListReInsert(id, r) /\ LinksInv'
      BY <2>5, ReInsertStep
    <3> QED BY <3>1 DEF List!SortedListNext
  <2> QED BY <2>1, <2>2, <2>3, <2>4, <2>5
<1>2. CASE UNCHANGED stVars
  <2>1. data' = data /\ nicr' = nicr
    BY <1>2 DEF stVars
  <2>2. LinksInv'
    BY <2>1 DEF LinksInv, RatioType
  <2>3. TheList' = TheList
    BY <2>1 DEF TheList
  <2> QED BY <2>1, <2>2, <2>3 DEF List!listVars
<1> QED BY <1>1, <1>2

------------------------------------------------------------------------------
(* Theorems. *)

(* The relation holds in every reachable state. *)
THEOREM LinksAlwaysRepresent == SortedTrovesSpec => []LinksInv
<1>1. SortedTrovesInit => LinksInv
  BY InitRepresents
<1>2. LinksInv /\ [SortedTrovesNext]_stVars => LinksInv'
  BY StepImplements
<1> QED BY <1>1, <1>2, PTL DEF SortedTrovesSpec

(* Fields that represent a sequence are well formed.                       *)
LEMMA RepresentedIsWellFormed ==
  ASSUME LinksInv
  PROVE  WellFormed
<1>1. RatioType /\ Represents(data, TheList) /\ Len(TheList) <= MaxSize
  BY ListAtStart
<1> DEFINE s == TheList
<1>2. /\ s \in Seq(Ids) /\ Len(s) \in Nat /\ DOMAIN s = 1..Len(s)
      /\ ToSet(s) = {s[i] : i \in 1..Len(s)} /\ ToSet(s) \subseteq Ids
      /\ \A i \in 1..Len(s) : s[i] \in Ids
  BY <1>1, RepresentedFacts
<1>3. /\ IsInjective(s) /\ data \in ListType /\ data.size = Len(s)
      /\ data.head = After(s, 0) /\ data.tail = Before(s, Len(s))
      /\ \A i \in 1..Len(s) : data.nodes[s[i]] = NodeOf(s, i)
      /\ \A k \in Keys : k \notin ToSet(s) => data.nodes[k] = Blank
  BY <1>1 DEF Represents
<1>4. ToSet(s) = Contained
  <2>1. \A id \in Ids : InList(data, id) <=> id \in ToSet(s)
    BY <1>1, InListFacts DEF Keys
  <2> QED BY <1>2, <2>1 DEF Contained
<1>5. data.size \in 0..MaxSize
  BY <1>1, <1>2, <1>3, SortedTrovesAssumption
<1>6. SortedTrovesTypeOK
  BY <1>1, <1>3, <1>5 DEF SortedTrovesTypeOK, ListType, RatioType
<1>7. s = << >> <=> Len(s) = 0
  BY <1>2, EmptySeq
<1>8. data.head = (IF s = << >> THEN Null ELSE s[1])
  BY <1>2, <1>3, <1>7 DEF After
<1>9. data.tail = (IF s = << >> THEN Null ELSE Last(s))
  BY <1>2, <1>3, <1>7 DEF Before, Last
<1>10. ASSUME NEW i \in 1..Len(s)
       PROVE  data.nodes[s[i]] = [exists |-> TRUE,
                                  nextId |-> IF i = Len(s) THEN Null ELSE s[i + 1],
                                  prevId |-> IF i = 1 THEN Null ELSE s[i - 1]]
  <2>1. data.nodes[s[i]] = NodeOf(s, i)
    BY <1>3
  <2>2. After(s, i) = IF i = Len(s) THEN Null ELSE s[i + 1]
    BY DEF After
  <2>3. Before(s, i - 1) = IF i = 1 THEN Null ELSE s[i - 1]
    BY <1>2 DEF Before
  <2> QED BY <2>1, <2>2, <2>3 DEF NodeOf
<1>11. \A id \in Keys \ Contained : data.nodes[id] = Blank
  BY <1>3, <1>4
<1> HIDE DEF s
<1>12. WellFormed
  <2> USE DEF s
  <2> QED BY <1>3, <1>4, <1>6, <1>8, <1>9, <1>10, <1>11 DEF WellFormed
<1> QED BY <1>12

(* Both chains of links run through the troves of the list, once each and  *)
(* in opposite directions, and nothing else is linked, whatever inserts,   *)
(* removals and changes of the ratios went before (_insert, _remove).      *)
THEOREM ListIsWellFormed == SortedTrovesSpec => []WellFormed
<1>1. LinksInv => WellFormed
  BY RepresentedIsWellFormed
<1> QED BY <1>1, LinksAlwaysRepresent, PTL

(* Whatever the hints, the search of _insert ends at a valid position,     *)
(* even when redistributions have left the list unsorted.                  *)
THEOREM SearchesLand == SortedTrovesSpec => []SearchAlwaysLands
<1>1. ASSUME LinksInv, NEW r \in Ratios \ {0}, NEW hint \in Hints
      PROVE  ValidInsertPosition(data, r, InsertPosition(data, r, hint)[1],
                                          InsertPosition(data, r, hint)[2])
  <2> DEFINE position == InsertPosition(data, r, hint)
  <2>1. RatioType /\ Represents(data, TheList)
    BY <1>1, ListAtStart
  <2>2. r \in Nat
    BY SortedTrovesAssumption
  <2>3. Lands(position, TheList, r)
    BY <2>1, <2>2, InsertPositionLands
  <2> HIDE DEF position
  <2>4. PICK i \in List!Fits(TheList, r) :
          position = <<Before(TheList, i), After(TheList, i)>>
    BY <2>3 DEF Lands
  <2>5. ValidInsertPosition(data, r, Before(TheList, i), After(TheList, i))
    BY <2>1, SlotIsValid
  <2>6. ValidInsertPosition(data, r, position[1], position[2])
    BY <2>4, <2>5
  <2> QED BY <2>6 DEF position
<1>2. LinksInv => SearchAlwaysLands
  BY <1>1 DEF SearchAlwaysLands
<1> QED BY <1>2, LinksAlwaysRepresent, PTL

(* The linked list implements the sequence of SortedList: insert, remove   *)
(* and reInsert move one trove, to where its ratio fits its neighbours.    *)
THEOREM ListImplementsSequence == SortedTrovesSpec => ListSpec
<1>1. SortedTrovesInit => List!SortedListInit
  BY InitRepresents
<1>2. LinksInv /\ [SortedTrovesNext]_stVars => [List!SortedListNext]_(List!listVars)
  BY StepImplements
<1> QED BY <1>1, <1>2, LinksAlwaysRepresent, PTL DEF SortedTrovesSpec, ListSpec, List!SortedListSpec
==============================================================================
