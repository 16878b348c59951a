---------------------------- MODULE SortedTroves ----------------------------
(***************************************************************************)
(* SortedTroves.sol: the doubly linked list of troves, as BorrowerOperations *)
(* and TroveManager use it.  `data' is the contract's struct Data, the     *)
(* mapping of nodes being total: Null is address(0), and a node that was   *)
(* never written or was deleted is blank.                                  *)
(***************************************************************************)
EXTENDS Integers, Sequences, FiniteSets, SequencesExt

CONSTANTS
  Ids, Ratios, MaxUint, MaxSize,   (* as in SortedList                     *)
  Null                             (* address(0)                           *)

ASSUME SortedTrovesAssumption ==
  /\ Ratios \subseteq Nat /\ MaxUint \in Nat /\ MaxSize \in Nat \ {0}
  /\ IsFiniteSet(Ids) /\ Null \notin Ids

Keys  == Ids \cup {Null}
Hints == Keys \X Keys

Node  == [exists : BOOLEAN, nextId : Keys, prevId : Keys]
Blank == [exists |-> FALSE, nextId |-> Null, prevId |-> Null]

VARIABLES
  data,    (* head, tail, size and nodes                                   *)
  nicr     (* TroveManager.getNominalICR, of troves as they are on entry   *)

stVars == <<data, nicr>>

------------------------------------------------------------------------------
(* Views.  They take the list d, as reInsert searches it after a removal.  *)

InList(d, id) == d.nodes[id].exists

IsFull(d) == d.size = MaxSize

(* _validInsertPosition.                                                   *)
ValidInsertPosition(d, r, prevId, nextId) ==
  IF prevId = Null /\ nextId = Null THEN d.size = 0
  ELSE IF prevId = Null THEN d.head = nextId /\ r >= nicr[nextId]
  ELSE IF nextId = Null THEN d.tail = prevId /\ r <= nicr[prevId]
  ELSE d.nodes[prevId].nextId = nextId /\ nicr[prevId] >= r /\ r >= nicr[nextId]

(* The loops of _descendList and _ascendList: on to the next pair until it *)
(* is a valid position or the list ends.                                   *)
Descent(d, r) ==
  LET from[prevId \in Keys] ==
        LET nextId == d.nodes[prevId].nextId
        IN  IF prevId = Null \/ ValidInsertPosition(d, r, prevId, nextId)
            THEN <<prevId, nextId>> ELSE from[nextId]
  IN  from

Ascent(d, r) ==
  LET from[nextId \in Keys] ==
        LET prevId == d.nodes[nextId].prevId
        IN  IF nextId = Null \/ ValidInsertPosition(d, r, prevId, nextId)
            THEN <<prevId, nextId>> ELSE from[prevId]
  IN  from

(* getNominalICR(Null) is MaxUint: an empty list has no head to precede.   *)
DescendList(d, r, startId) ==
  IF startId # Null /\ d.head = startId /\ r >= nicr[startId] THEN <<Null, startId>>
  ELSE Descent(d, r)[startId]

AscendList(d, r, startId) ==
  IF d.tail = startId /\ r <= nicr[startId] THEN <<startId, Null>>
  ELSE Ascent(d, r)[startId]

(* Seeded fault: a hint with a ratio that has become too small is kept.    *)
FindFromStaleHint(d, r, hint) ==
  IF hint[1] # Null /\ InList(d, hint[1]) THEN DescendList(d, r, hint[1])
  ELSE DescendList(d, r, d.head)

(* _findInsertPosition: hints that are gone or on the wrong side of r are  *)
(* dropped; the search starts from what is left of them.                   *)
FindInsertPosition(d, r, hint) ==
  LET prevId == IF hint[1] # Null /\ (~InList(d, hint[1]) \/ r > nicr[hint[1]])
                THEN Null ELSE hint[1]
      nextId == IF hint[2] # Null /\ (~InList(d, hint[2]) \/ r < nicr[hint[2]])
                THEN Null ELSE hint[2]
  IN  IF prevId # Null THEN DescendList(d, r, prevId)
      ELSE IF nextId # Null THEN AscendList(d, r, nextId)
      ELSE DescendList(d, r, d.head)

(* Seeded fault: hints are taken unchecked as long as they exist.          *)
HintedPosition(d, r, hint) ==
  IF InList(d, hint[1]) /\ InList(d, hint[2]) THEN hint
  ELSE FindInsertPosition(d, r, hint)

InsertPosition(d, r, hint) ==
  IF ValidInsertPosition(d, r, hint[1], hint[2]) THEN hint
  ELSE FindInsertPosition(d, r, hint)

------------------------------------------------------------------------------
(* Updates of the links. *)

(* a comes directly before b.                                              *)
Link(d, a, b) == [[d EXCEPT !.nodes[a].nextId = b] EXCEPT !.nodes[b].prevId = a]

Linked(d, id, prevId, nextId) ==
  LET new == [[d EXCEPT !.nodes[id].exists = TRUE] EXCEPT !.size = @ + 1]
  IN  IF prevId = Null /\ nextId = Null
      THEN [[new EXCEPT !.head = id] EXCEPT !.tail = id]
      ELSE IF prevId = Null THEN [Link(new, id, d.head) EXCEPT !.head = id]
      ELSE IF nextId = Null THEN [Link(new, d.tail, id) EXCEPT !.tail = id]
      ELSE Link(Link(new, prevId, id), id, nextId)

(* Seeded fault: the new tail keeps its link to the removed node.          *)
UnlinkedKeepingNext(d, id) ==
  LET node == d.nodes[id]
      rest == [d EXCEPT !.size = @ - 1]
      cut  == IF d.size <= 1 THEN [[rest EXCEPT !.head = Null] EXCEPT !.tail = Null]
              ELSE IF id = d.head
              THEN [[rest EXCEPT !.nodes[node.nextId].prevId = Null] EXCEPT !.head = node.nextId]
              ELSE IF id = d.tail THEN [rest EXCEPT !.tail = node.prevId]
              ELSE Link(rest, node.prevId, node.nextId)
  IN  [cut EXCEPT !.nodes[id] = Blank]

(* _remove.                                                                *)
Unlinked(d, id) ==
  LET node == d.nodes[id]
      rest == [d EXCEPT !.size = @ - 1]
      cut  == IF d.size <= 1 THEN [[rest EXCEPT !.head = Null] EXCEPT !.tail = Null]
              ELSE IF id = d.head
              THEN [[rest EXCEPT !.nodes[node.nextId].prevId = Null] EXCEPT !.head = node.nextId]
              ELSE IF id = d.tail
              THEN [[rest EXCEPT !.nodes[node.prevId].nextId = Null] EXCEPT !.tail = node.prevId]
              ELSE Link(rest, node.prevId, node.nextId)
  IN  [cut EXCEPT !.nodes[id] = Blank]

------------------------------------------------------------------------------
(* Transactions. *)

SortedTrovesInit ==
  /\ data = [head |-> Null, tail |-> Null, size |-> 0, nodes |-> [k \in Keys |-> Blank]]
  /\ nicr = [id \in Ids |-> MaxUint]

(* _insert into d; the caller makes r the ratio of the trove.              *)
InsertInto(d, id, r, hint) ==
  LET position == InsertPosition(d, r, hint)
  IN  /\ ~IsFull(d) /\ ~InList(d, id) /\ r > 0
      /\ data' = Linked(d, id, position[1], position[2])
      /\ nicr' = [nicr EXCEPT ![id] = r]

Insert(id, r, hint) == InsertInto(data, id, r, hint)

(* TroveManager removes a trove when it has no debt left.                  *)
RemoveTrove(id) ==
  /\ InList(data, id)
  /\ data' = Unlinked(data, id)
  /\ nicr' = [nicr EXCEPT ![id] = MaxUint]

ReInsert(id, r, hint) ==
  InList(data, id) /\ r > 0 /\ InsertInto(Unlinked(data, id), id, r, hint)

(* A redistribution changes ratios without a call of this contract; any    *)
(* change is allowed here, one trove at a time.                            *)
RatioChanges(id, r) ==
  /\ InList(data, id)
  /\ nicr' = [nicr EXCEPT ![id] = r]
  /\ UNCHANGED data

SortedTrovesNext ==
  \E id \in Ids :
    \/ RemoveTrove(id)
    \/ \E r \in Ratios :
         \/ RatioChanges(id, r)
         \/ \E hint \in Hints : Insert(id, r, hint) \/ ReInsert(id, r, hint)

SortedTrovesSpec == SortedTrovesInit /\ [][SortedTrovesNext]_stVars

------------------------------------------------------------------------------
(* Properties. *)

(* The troves from the head along the links, as a sequence: the walk never *)
(* leaves Null, and the number of addresses bounds it.                     *)
ListOf(d) ==
  LET at[n \in 1..Cardinality(Ids)] ==
        IF n = 1 THEN d.head ELSE d.nodes[at[n - 1]].nextId
  IN  [i \in 1..Cardinality({n \in 1..Cardinality(Ids) : at[n] # Null}) |-> at[i]]

TheList == ListOf(data)

Contained == {id \in Ids : InList(data, id)}

SortedTrovesTypeOK ==
  /\ data \in [head : Keys, tail : Keys, size : 0..MaxSize, nodes : [Keys -> Node]]
  /\ nicr \in [Ids -> Ratios \cup {MaxUint}]

(* The types, and: both chains of links run through exactly the troves of the list, once   *)
(* each, from head to tail and back, and nothing else is linked - under    *)
(* any changes of the ratios, even when the list is no longer sorted.      *)
WellFormed ==
  /\ SortedTrovesTypeOK
  /\ ToSet(TheList) = Contained /\ IsInjective(TheList)
  /\ data.size = Len(TheList)
  /\ data.head = (IF TheList = <<>> THEN Null ELSE TheList[1])
  /\ data.tail = (IF TheList = <<>> THEN Null ELSE Last(TheList))
  /\ \A i \in 1..Len(TheList) :
       data.nodes[TheList[i]] =
         [exists |-> TRUE,
          nextId |-> IF i = Len(TheList) THEN Null ELSE TheList[i + 1],
          prevId |-> IF i = 1 THEN Null ELSE TheList[i - 1]]
  /\ \A id \in Keys \ Contained : data.nodes[id] = Blank

(* Whatever the hints - stale, wrong, swapped or absent - the search for a *)
(* position ends at a valid one.  If it ran off the end of a list that is  *)
(* not sorted, insert would make the trove the only one of the list.       *)
SearchAlwaysLands ==
  \A r \in Ratios \ {0}, hint \in Hints :
    LET position == InsertPosition(data, r, hint)
    IN  ValidInsertPosition(data, r, position[1], position[2])

(* The linked list implements the abstract one: a trove is inserted where  *)
(* its ratio fits its neighbours, and nothing else moves.                  *)
List == INSTANCE SortedList WITH list <- TheList

ListSpec == List!SortedListSpec
==============================================================================
