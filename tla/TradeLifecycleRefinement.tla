---------------------- MODULE TradeLifecycleRefinement ----------------------
(***************************************************************************)
(* TradeLifecycle implements LateFillWindow: the tables that               *)
(* _find_execution_target looks a BUY order up in are the phases.          *)
(***************************************************************************)
EXTENDS TradeLifecycle

PhaseOf(o) ==
    IF side[o] # "BUY" THEN "none"
    ELSE IF status = "DROPPED" THEN "gone"
    ELSE IF o \in Legs THEN "known"
    ELSE IF pc = "stage" /\ o = hand THEN "unbound"
    ELSE IF o \in term THEN "late"
    ELSE "gone"

Window == INSTANCE LateFillWindow
            WITH Orders <- OrdNos, phase <- [o \in OrdNos |-> PhaseOf(o)]

\* Once its number is stored, an entry order's fill finds the target until
\* the 180-second grace period of move_orders_to_terminal is over or the
\* target is gone.
AttributesLateFills == Window!Spec
=============================================================================
