------------------------------ MODULE MCMapStore -----------------------------
(***************************************************************************)
(* Any one transaction fails, or the server is restarted once, anywhere.   *)
(***************************************************************************)
EXTENDS MapStore, TLC

\* The names are not told apart.
Symmetry == Permutations(Names)

=============================================================================
