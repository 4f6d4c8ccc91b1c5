------------------------ MODULE MC_CovSubscriptions ------------------------
(***************************************************************************)
(* CovSubscriptions for TLC: analogInput:1 and analogInput:10 of a device, *)
(* the name of the second of which contains that of the first; and two      *)
(* passes over the configuration, which may overlap or not.                *)
(***************************************************************************)
EXTENDS CovSubscriptions, SequencesExt

CONSTANTS ai1, ai10, p1, p2

MCCovers == [i \in {ai1, ai10} |-> IF i = ai1 THEN {ai1, ai10} ELSE {i}]
Unconfirmed == {[item |-> ai1, confirmed |-> FALSE]}
First == <<ai1>>
Both == <<ai1, ai10>>

\* The loop of subscription_task as it is written, i being where the iteration
\* is.  PopMatching, which has no loop, agrees with it on all short lists.
RECURSIVE PopLoop(_, _, _, _)
PopLoop(l, of, n, i) ==
  IF i > Len(l) THEN l
  ELSE PopLoop(IF of[l[i]] = n THEN RemoveAt(l, i) ELSE l, of, n, i + 1)

ASSUME PopMatchingIsTheLoop ==
  \A len \in 0..6 : \A of \in [1..len -> {ai1, ai10}] :
    LET l == [i \in 1..len |-> i]
    IN  PopMatching(l, of, ai1) = PopLoop(l, of, ai1, 1)
=============================================================================
