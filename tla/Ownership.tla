------------------------------ MODULE Ownership ------------------------------
(***************************************************************************)
(* What the locator tag promises about its owner, whatever its threads,    *)
(* timers, failing calls and resets do: main.c and factory_reset.c seen     *)
(* from outside.                                                           *)
(*                                                                         *)
(* A tag is claimed by the first Account Key and owned once it is           *)
(* provisioned.  A deadline hangs over a tag whose claim was not completed  *)
(* in time or whose owner has released it; only then is it erased, and an   *)
(* erasure that has begun can only be completed.                           *)
(***************************************************************************)

VARIABLES
    stage,    \* who the tag belongs to, as its flash says
    deadline  \* the factory reset that is to come: none, one that completing
              \* the claim calls off, or one that nothing but a restart stops

vars == <<stage, deadline>>

Stages == {"unowned", "claimed", "owned", "erasing"}

Deadlines == {"none", "timeout", "certain"}

TypeOK == stage \in Stages /\ deadline \in Deadlines

\* The first Account Key starts the time in which the claim is to be completed.
Claim ==
    /\ stage = "unowned"
    /\ stage' = "claimed"
    /\ deadline' = IF deadline = "none" THEN "timeout" ELSE deadline

\* The provisioning completes the claim and calls off the timeout, and only that.
Own ==
    /\ stage = "claimed"
    /\ stage' = "owned"
    /\ deadline' = IF deadline = "timeout" THEN "none" ELSE deadline

\* The owner unprovisions the tag, which keeps the key until it is reset.
Release ==
    /\ stage = "owned"
    /\ stage' = "claimed"
    /\ deadline' = "certain"

\* The time is over, or the boot finds a claim that was never completed.
Condemn ==
    /\ stage = "claimed"
    /\ deadline # "certain"
    /\ deadline' = "certain"
    /\ UNCHANGED stage

\* The erasure begins: from here on there is no way back to the owner.
Erase ==
    /\ stage # "erasing"
    /\ deadline = "certain"
    /\ stage' = "erasing"
    /\ UNCHANGED deadline

Erased ==
    /\ stage = "erasing"
    /\ stage' = "unowned"
    /\ UNCHANGED deadline

\* A reset of the chip forgets the deadline, and keeps the rest.
Restart ==
    /\ deadline # "none"
    /\ deadline' = "none"
    /\ UNCHANGED stage

Init == stage = "unowned" /\ deadline = "none"

Next == Claim \/ Own \/ Release \/ Condemn \/ Erase \/ Erased \/ Restart

Spec == Init /\ [][Next]_vars

=============================================================================
