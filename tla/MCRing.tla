------------------------------- MODULE MCRing -------------------------------
(* Model values of Ring for TLC. *)
EXTENDS Ring

CONSTANTS right, left

=============================================================================
