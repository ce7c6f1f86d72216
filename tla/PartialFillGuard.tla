-------------------------- MODULE PartialFillGuard --------------------------
(***************************************************************************)
(* The minimum fill ratio of _reconcile_pending_entry_orders, the part of  *)
(* it TradeLifecycle leaves out: when a bundle times out with a few shares *)
(* only, they are to be sold at once instead of kept.  The handler cancels *)
(* the open legs first (_cancel_pending_entry_orders), which pops the      *)
(* bundle's keys, and reads them afterwards.                               *)
(***************************************************************************)
EXTENDS Naturals

CONSTANT MaxQty     \* bound: shares a bundle asks for

VARIABLES
    asked,      \* the quantity the bundle was sent with
    bundle,     \* kind of bundle: sets the minimum ratio, see MinPercent
    bq,         \* stock['buy_qty']
    reqQty,     \* stock['entry_requested_qty'], 0 when absent
    reason,     \* TRUE while stock['entry_dynamic_reason'] is present
    status,     \* stock['status']
    pc

vars == <<asked, bundle, bq, reqQty, reason, status, pc>>

Bundles == {"default", "strong_absolute_override", "SCALP_PRESET_TP"}

\* The rule's three minimum ratios, in percent.
MinPercent(b) ==
    CASE b = "default" -> 20
      [] b = "strong_absolute_override" -> 10
      [] b = "SCALP_PRESET_TP" -> 0

Init ==
    /\ asked \in 1..MaxQty /\ bundle \in Bundles
    /\ bq \in 0..(asked - 1)
    /\ reqQty = asked /\ reason = (bundle = "strong_absolute_override")
    /\ status = "HOLDING" /\ pc = "timeout"

\* All open legs are cancelled: _clear_pending_entry_meta pops the keys.
CancelBundle ==
    /\ pc = "timeout"
    /\ reqQty' = 0 /\ reason' = FALSE /\ pc' = "decide"
    /\ UNCHANGED <<asked, bundle, bq, status>>

\* requested_qty: what is left of the key, or buy_qty, and at least buy_qty.
Requested == IF reqQty > bq THEN reqQty ELSE bq

\* min_fill_ratio as the handler resolves it.
Minimum == IF bundle = "SCALP_PRESET_TP" THEN MinPercent(bundle)
           ELSE IF reason THEN MinPercent("strong_absolute_override")
           ELSE MinPercent("default")

BelowMinimum == 100 * bq < Minimum * Requested

\* The exit is accepted.
SellThinFill ==
    /\ pc = "decide" /\ bq > 0 /\ BelowMinimum
    /\ status' = "SELL_ORDERED" /\ pc' = "done"
    /\ UNCHANGED <<asked, bundle, bq, reqQty, reason>>

KeepFill ==
    /\ pc = "decide" /\ bq > 0 /\ ~BelowMinimum
    /\ status' = "HOLDING" /\ pc' = "done"
    /\ UNCHANGED <<asked, bundle, bq, reqQty, reason>>

BackToWatching ==
    /\ pc = "decide" /\ bq = 0
    /\ status' = "WATCHING" /\ pc' = "done"
    /\ UNCHANGED <<asked, bundle, bq, reqQty, reason>>

Next == CancelBundle \/ SellThinFill \/ KeepFill \/ BackToWatching

Spec == Init /\ [][Next]_vars

\* The guard is on (SCALP_PARTIAL_FILL_RATIO_GUARD_ENABLED): a timed-out
\* bundle whose fill is below the minimum ratio is sold, not kept.
ThinFillIsSold ==
    pc = "done" /\ bq > 0 /\ 100 * bq < MinPercent(bundle) * asked
        => status = "SELL_ORDERED"
=============================================================================
