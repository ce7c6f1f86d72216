--------------------------- MODULE LateFillWindow ---------------------------
(***************************************************************************)
(* What the engine promises about the entry orders of one target: once its *)
(* order number is stored, a fill can be attributed to the target for as   *)
(* long as the order is in its bundle, and for a grace period afterwards.  *)
(* An order is forgotten only when that period ends or the target leaves   *)
(* the engine.                                                             *)
(***************************************************************************)
CONSTANT Orders

VARIABLE phase      \* phase[o], see Phases

\* none: not placed; unbound: accepted, its number not stored yet;
\* known: in the bundle; late: in the grace period; gone: fills are ignored.
Phases == {"none", "unbound", "known", "late", "gone"}

Init == phase = [o \in Orders |-> "none"]

Place(o) ==
    /\ phase[o] = "none"
    /\ phase' = [phase EXCEPT ![o] = "unbound"]

\* The reply that carries the number is lost.
PlaceUnheard(o) ==
    /\ phase[o] = "none"
    /\ phase' = [phase EXCEPT ![o] = "gone"]

\* The orders of S enter the bundle, or re-enter it from the grace period.
Bind(S) ==
    /\ \A o \in S : phase[o] \in {"unbound", "late"}
    /\ phase' = [o \in Orders |-> IF o \in S THEN "known" ELSE phase[o]]

\* The whole bundle is resolved.
Retire ==
    phase' = [o \in Orders |-> IF phase[o] = "known" THEN "late" ELSE phase[o]]

Expire(o) ==
    /\ phase[o] = "late"
    /\ phase' = [phase EXCEPT ![o] = "gone"]

\* The target leaves the engine.
Drop ==
    phase' = [o \in Orders |-> IF phase[o] = "none" THEN "none" ELSE "gone"]

Next ==
    \/ \E o \in Orders : Place(o) \/ PlaceUnheard(o) \/ Expire(o)
    \/ \E S \in SUBSET Orders : Bind(S)
    \/ Retire
    \/ Drop

Spec == Init /\ [][Next]_phase
=============================================================================
