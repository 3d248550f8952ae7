----------------------------- MODULE MCMapCrdt -----------------------------
(* Users on whom TLC checks MapCrdt. *)
EXTENDS MapCrdt, TLC

\* Every replica has an author of its own.
OneEach == [r \in Replica |-> r]

\* Nothing in the code tells two values, or two fields, apart.
Symmetry == Permutations(Datum) \cup Permutations(Field)
=============================================================================
