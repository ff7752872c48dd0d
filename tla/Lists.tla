-------------------------------- MODULE Lists --------------------------------
(***************************************************************************)
(* Lists and totals, as the rules modules use them.  The loops of the code *)
(* that keep some entries of a slice, sort the members of a map or add up  *)
(* amounts are all of one of these forms; OperatorProofs has what they     *)
(* give.                                                                   *)
(*                                                                         *)
(* They are defined by what is at a place and not by recursion over the    *)
(* list, so that facts about them hold of lists of every length.           *)
(***************************************************************************)
EXTENDS Integers, Sequences, FiniteSets, Functions

\* The members of a finite set, each after those before it.
InOrder(S, before) ==
  [k \in 1..Cardinality(S) |->
     CHOOSE x \in S : Cardinality({y \in S : <<y, x>> \in before}) = k - 1]

Ascending(S) ==
  [k \in 1..Cardinality(S) |-> CHOOSE x \in S : Cardinality({y \in S : y < x}) = k - 1]

\* The entries of a list at some of its positions, in the order of the list.
Picked(list, at) ==
  LET order == Ascending(at) IN [k \in DOMAIN order |-> list[order[k]]]

\* The positions of entries that are not there before.
NewAt(list) == {i \in DOMAIN list : \A j \in 1..(i - 1) : list[j] # list[i]}

\* The entries of the lists of a list, one list after the other.
Flat(lists) ==
  LET at == UNION {{i} \X DOMAIN lists[i] : i \in DOMAIN lists}
      before == {p \in at \X at : p[1][1] < p[2][1] \/ (p[1][1] = p[2][1] /\ p[1][2] < p[2][2])}
      order == InOrder(at, before)
  IN [k \in DOMAIN order |-> lists[order[k][1]][order[k][2]]]

\* The sum of the values of a function at the members of a set.
Total(f, S) == FoldFunctionOnSet(LAMBDA a, b : a + b, 0, f, S)
=============================================================================
