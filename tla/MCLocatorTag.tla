--------------------------- MODULE MCLocatorTag ---------------------------
(***************************************************************************)
(* Instances of LocatorTag for TLC.                                        *)
(***************************************************************************)
EXTENDS LocatorTagOwnership, TLC

\* Connection objects are interchangeable.
Symmetry == Permutations(Conns)

===========================================================================
