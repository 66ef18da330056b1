--------------------------- MODULE MCConfigStore ---------------------------
(***************************************************************************)
(* Small instances of ConfigStore: two values for each half.               *)
(***************************************************************************)
EXTENDS ConfigStore, TLC

CONSTANTS r1, r2

MCDefault == [rest |-> "old", part |-> "old"]

AnyOrder == Permutations(Reqs)
=============================================================================
