----------------------------- MODULE SortedList -----------------------------
(***************************************************************************)
(* What SortedTroves.sol promises to its callers: a list of troves in      *)
(* which an insertion lands where the new ratio fits between its           *)
(* neighbours, and nothing else ever moves.  The ratios are kept by the    *)
(* TroveManager and change under the list.                                 *)
(***************************************************************************)
EXTENDS Integers, Sequences, SequencesExt

CONSTANTS
  Ids,        (* addresses of borrowers                                    *)
  Ratios,     (* nominal ratios of troves with debt                        *)
  MaxUint,    (* the ratio of an address without a trove                   *)
  MaxSize     (* the limit given to setParams                              *)

VARIABLES
  list,       (* the troves, largest ratio first                           *)
  nicr        (* TroveManager.getNominalICR                                *)

listVars == <<list, nicr>>

(* Slots i (after the i-th trove) where the ratio r fits.                  *)
Fits(l, r) ==
  { i \in 0..Len(l) : /\ i > 0 => nicr[l[i]] >= r
                      /\ i < Len(l) => r >= nicr[l[i + 1]] }

SortedListInit ==
  /\ list = <<>>
  /\ nicr = [id \in Ids |-> MaxUint]

ListInsert(id, r) ==
  /\ Len(list) < MaxSize /\ id \notin ToSet(list) /\ r > 0
  /\ \E i \in Fits(list, r) : list' = InsertAt(list, i + 1, id)
  /\ nicr' = [nicr EXCEPT ![id] = r]

ListRemove(id) ==
  /\ \E i \in 1..Len(list) : list[i] = id /\ list' = RemoveAt(list, i)
  /\ nicr' = [nicr EXCEPT ![id] = MaxUint]

(* The slot is sought among the others, with the ratios before the move.   *)
ListReInsert(id, r) ==
  /\ r > 0
  /\ \E i \in 1..Len(list) :
       LET others == RemoveAt(list, i)
       IN  list[i] = id /\ \E j \in Fits(others, r) : list' = InsertAt(others, j + 1, id)
  /\ nicr' = [nicr EXCEPT ![id] = r]

(* Redistributed rewards change the ratio of a trove, not its place.       *)
RatioMoves(id, r) ==
  /\ id \in ToSet(list)
  /\ nicr' = [nicr EXCEPT ![id] = r]
  /\ UNCHANGED list

SortedListNext ==
  \E id \in Ids :
    \/ ListRemove(id)
    \/ \E r \in Ratios : ListInsert(id, r) \/ ListReInsert(id, r) \/ RatioMoves(id, r)

SortedListSpec == SortedListInit /\ [][SortedListNext]_listVars
==============================================================================
