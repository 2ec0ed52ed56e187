---------------------------- MODULE MCResistance ----------------------------
(* Small instances of Resistance for TLC. *)
EXTENDS Resistance, TLC

\* Requests differ only in name.
Symmetry == Permutations(Call)

=============================================================================
