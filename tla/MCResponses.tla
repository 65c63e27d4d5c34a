---------------------------- MODULE MCResponses -----------------------------
(***************************************************************************)
(* Responses for TLC: the threads are interchangeable.                     *)
(***************************************************************************)
EXTENDS Responses, TLC

CONSTANTS t1, t2

Workers  == {t1, t2}
Symmetry == Permutations(Workers)

=============================================================================
