----------------------------- MODULE MCHistory ------------------------------
(***************************************************************************)
(* Three rows with three creation times, read in pages of one or two.      *)
(***************************************************************************)
EXTENDS HistoryReader

NoRows   == <<>>
NoRoutes == <<>>

(* The second row is not of the wallet. *)
TwoOfThree == [i \in 1..3 |-> IF i = 2 THEN {} ELSE Address]

=============================================================================
