------------------------- MODULE LocatorTagOwnership -------------------------
(***************************************************************************)
(* LocatorTag implements Ownership: the stage is read off the two records   *)
(* and the mark in flash, the deadline off factory_reset.c and its trigger. *)
(***************************************************************************)
EXTENDS LocatorTag

\* Records of a tag whose reset has begun no longer count.
Stage ==
    IF fp.wiping THEN "erasing"
    ELSE IF fp.provisioned THEN "owned"
    ELSE IF fp.key THEN "claimed"
    ELSE "unowned"

Deadline ==
    IF fr.step # "idle" THEN "certain"
    ELSE IF fr.state # "PENDING" THEN "none"
    ELSE IF app.factory_reset_trigger = "PROVISIONING_TIMEOUT" THEN "timeout"
    ELSE "certain"

O == INSTANCE Ownership WITH stage <- Stage, deadline <- Deadline

\* Every behaviour of the tag, with its interleaved callbacks, failing calls and
\* power losses, is one that the ownership contract allows: in particular an
\* owned tag is erased only after its owner released it, or as the end of a reset
\* that was certain before it became owned, and a key is never left behind by an
\* interrupted erasure.
ImplementsOwnership == O!Spec

\* An erasure that has begun ends in a tag without owner, although power can be
\* lost and calls fail between any two steps of it.
ErasureCompletes == (Stage = "erasing") ~> (Stage = "unowned")

=============================================================================
