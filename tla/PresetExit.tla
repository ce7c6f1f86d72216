----------------------------- MODULE PresetExit -----------------------------
(***************************************************************************)
(* The exit engine of a scalping target with the default position tag      *)
(* (exit_mode SCALP_PRESET_TP).  A limit SELL for the whole position, the  *)
(* take-profit, waits at the broker; every entry fill cancels it and       *)
(* places it anew (_refresh_scalp_preset_exit_order, dispatcher thread,    *)
(* under ENTRY_LOCK).  A stop, a protected profit or the AI's review       *)
(* cancels it and sells at once (_dispatch_scalp_preset_exit, main loop,   *)
(* no lock), and the SELL_ORDERED timeout takes the target back.           *)
(*                                                                         *)
(* The entry is one order whose number is known (TradeLifecycle has its    *)
(* bundles, rows and late fills).  Prices only decide when the main loop   *)
(* sells, so it may do so whenever its guard allows.                       *)
(***************************************************************************)
EXTENDS Naturals, Sequences

CONSTANTS
    MaxOrders,      \* bound: order numbers the broker hands out
    EntryQty,       \* shares in an entry order
    LostReplies     \* TRUE: a request may be executed and its reply lost

ASSUME PresetAssumption ==
    /\ MaxOrders \in Nat \ {0}
    /\ EntryQty \in Nat \ {0}
    /\ LostReplies \in BOOLEAN

OrdNos == 1..MaxOrders

VARIABLES
    \* the broker and the account
    nextNo,
    kind,       \* kind[o]: "ENTRY", "TP" or "EXIT", "NONE" before o exists
    todo,       \* todo[o]: shares of o that are not filled
    live,       \* live[o]: o is working
    held,       \* shares in the account
    free,       \* of them, not reserved by a working SELL order
    unheard,    \* orders whose number the engine never received
    wire,       \* SELL notices (qty 0) and fills, oldest first
    \* the record in memory
    status,
    bq,         \* stock['buy_qty']
    tpNo,       \* stock['preset_tp_ord_no'], 0 when blank
    requested,  \* stock['exit_requested']
    sellOdno,   \* stock['sell_odno'], 0 when absent
    \* the dispatcher thread; it holds ENTRY_LOCK until it is idle again
    rx,
    \* the main loop's thread: its next step, orig_ord_no and rem_qty
    pc, orig, rem

brokerVars == <<nextNo, kind, todo, live, held, free, unheard, wire>>
stockVars == <<status, bq, tpNo, requested, sellOdno>>
mainVars == <<pc, orig, rem>>
vars == <<brokerVars, stockVars, rx, mainVars>>

IsSell(o) == kind[o] \in {"TP", "EXIT"}

Init ==
    /\ nextNo = 1
    /\ kind = [o \in OrdNos |-> "NONE"]
    /\ todo = [o \in OrdNos |-> 0]
    /\ live = [o \in OrdNos |-> FALSE]
    /\ held = 0 /\ free = 0 /\ unheard = {} /\ wire = <<>>
    /\ status = "WATCHING" /\ bq = 0 /\ tpNo = 0
    /\ requested = FALSE /\ sellOdno = 0
    /\ rx = "idle"
    /\ pc = "idle" /\ orig = 0 /\ rem = 0

-----------------------------------------------------------------------------
(***************************************************************************)
(* The broker, as far as kiwoom_orders.py shows it.                        *)
(***************************************************************************)

\* The next order is taken: a SELL reserves its shares and is noticed.
Accept(k, q) ==
    /\ nextNo <= MaxOrders
    /\ nextNo' = nextNo + 1
    /\ kind' = [kind EXCEPT ![nextNo] = k]
    /\ todo' = [todo EXCEPT ![nextNo] = q]
    /\ live' = [live EXCEPT ![nextNo] = TRUE]
    /\ IF k = "ENTRY"
       THEN UNCHANGED <<free, wire>>
       ELSE /\ q <= free
            /\ free' = free - q
            /\ wire' = Append(wire, [no |-> nextNo, qty |-> 0])
    /\ UNCHANGED held

\* q more shares of o are filled; the account never goes short.
Fill(o, q) ==
    /\ live[o] /\ q <= todo[o]
    /\ IsSell(o) => q <= held
    /\ todo' = [todo EXCEPT ![o] = @ - q]
    /\ live' = [live EXCEPT ![o] = q < todo[o]]
    /\ IF IsSell(o)
       THEN held' = held - q /\ UNCHANGED free
       ELSE held' = held + q /\ free' = free + q
    /\ wire' = Append(wire, [no |-> o, qty |-> q])
    /\ UNCHANGED <<nextNo, kind, unheard, stockVars, rx, mainVars>>

\* o stops working; a SELL gives its unsold shares back.
Close(o) ==
    /\ live[o]
    /\ live' = [live EXCEPT ![o] = FALSE]
    /\ free' = IF IsSell(o) THEN free + todo[o] ELSE free
    /\ UNCHANGED <<nextNo, kind, todo, held, unheard>>

\* What an IOC order does not sell at once lapses.
Lapse(o) ==
    /\ kind[o] = "EXIT" /\ Close(o)
    /\ UNCHANGED <<wire, stockVars, rx, mainVars>>

\* send_cancel_order: what the broker does and whether it says so.
CancelOrder(o, ok) ==
    \/ o # 0 /\ Close(o) /\ (ok \/ LostReplies)
    \/ ~ok /\ UNCHANGED <<nextNo, kind, todo, live, held, free, unheard>>

\* A SELL order is sent; no is its number as the engine knows it.
SendSellOrder(k, q, no) ==
    \/ /\ Accept(k, q)
       /\ \/ no = nextNo /\ UNCHANGED unheard
          \/ LostReplies /\ no = 0 /\ unheard' = unheard \cup {nextNo}
    \/ no = 0 /\ UNCHANGED brokerVars

-----------------------------------------------------------------------------
(***************************************************************************)
(* The entry, in outline.                                                  *)
(***************************************************************************)

SendEntry ==
    /\ pc = "idle" /\ rx = "idle" /\ status = "WATCHING"
    /\ Accept("ENTRY", EntryQty)
    /\ status' = "BUY_ORDERED"
    /\ UNCHANGED <<unheard, bq, tpNo, requested, sellOdno, rx, mainVars>>

\* Its timeout: what is left of the order is cancelled.
EndEntry ==
    /\ pc = "idle" /\ rx = "idle" /\ status \in {"BUY_ORDERED", "HOLDING"}
    /\ \/ \E o \in OrdNos : kind[o] = "ENTRY" /\ Close(o)
       \/ /\ status = "BUY_ORDERED"
          /\ \A o \in OrdNos : live[o] => IsSell(o)
          /\ UNCHANGED <<nextNo, kind, todo, live, held, free, unheard>>
    /\ status' = IF bq = 0 THEN "WATCHING" ELSE "HOLDING"
    /\ UNCHANGED <<wire, bq, tpNo, requested, sellOdno, rx, mainVars>>

-----------------------------------------------------------------------------
(***************************************************************************)
(* The dispatcher thread: notices, fills, and the take-profit.             *)
(***************************************************************************)

Take(r) ==
    /\ rx = "idle" /\ wire # <<>>
    /\ r = Head(wire) /\ wire' = Tail(wire)

\* handle_order_notice binds a blank sell_odno of a SELL_ORDERED target to
\* the number of any SELL notice of the code.
Bound(o) ==
    IF status = "SELL_ORDERED" /\ sellOdno = 0 THEN o ELSE sellOdno

Notice(r) ==
    /\ Take(r) /\ r.qty = 0
    /\ sellOdno' = Bound(r.no)
    /\ UNCHANGED <<nextNo, kind, todo, live, held, free, unheard,
                   status, bq, tpNo, requested, rx, mainVars>>

\* (mutant) The new take-profit is placed whatever the cancel's answer is.
BuyReportUnchecked(r) ==
    /\ Take(r) /\ r.qty > 0 /\ ~IsSell(r.no)
    /\ status # "DROPPED"
    /\ status' = "HOLDING" /\ bq' = bq + r.qty /\ requested' = FALSE
    /\ \E ok \in BOOLEAN : CancelOrder(tpNo, ok)
    /\ rx' = "place"
    /\ UNCHANGED <<tpNo, sellOdno, mainVars>>

\* An entry fill: the position grows, the exit engine starts over, and the
\* old take-profit must be cancelled before a new one is placed.
BuyReport(r) ==
    /\ Take(r) /\ r.qty > 0 /\ ~IsSell(r.no)
    /\ status # "DROPPED"
    /\ status' = "HOLDING" /\ bq' = bq + r.qty /\ requested' = FALSE
    /\ \E ok \in BOOLEAN :
        /\ IF tpNo = 0
           THEN ok /\ UNCHANGED <<nextNo, kind, todo, live, held, free, unheard>>
           ELSE CancelOrder(tpNo, ok)
        /\ rx' = IF ok THEN "place" ELSE "idle"
    /\ UNCHANGED <<tpNo, sellOdno, mainVars>>

\* The new take-profit is sent for the whole position; refused, or without
\* an answer, it leaves a blank number.
PlaceTp ==
    /\ rx = "place"
    /\ SendSellOrder("TP", bq, tpNo')
    /\ rx' = "idle"
    /\ UNCHANGED <<status, bq, requested, sellOdno, mainVars>>

\* (mutant) A status the routing of the main loop does not know.
ReviveAsSold(r) ==
    /\ Take(r) /\ r.qty > 0 /\ IsSell(r.no)
    /\ status = "SELL_ORDERED"
    /\ status' = "SOLD" /\ bq' = 0 /\ sellOdno' = 0
    /\ UNCHANGED <<nextNo, kind, todo, live, held, free, unheard,
                   tpNo, requested, rx, mainVars>>

\* Any SELL fill of a SELL_ORDERED target is taken for its whole sale.  In a
\* scalping session the target starts over on a new row ...
SellReportRevives(r) ==
    /\ Take(r) /\ r.qty > 0 /\ IsSell(r.no)
    /\ status = "SELL_ORDERED"
    /\ status' = "WATCHING" /\ bq' = 0 /\ sellOdno' = 0
    /\ UNCHANGED <<nextNo, kind, todo, live, held, free, unheard,
                   tpNo, requested, rx, mainVars>>

\* ... otherwise it is completed; with the row out of reach neither.
SellReportCompletes(r) ==
    /\ Take(r) /\ r.qty > 0 /\ IsSell(r.no)
    /\ status = "SELL_ORDERED"
    /\ status' \in {"COMPLETED", "SELL_ORDERED"}
    /\ sellOdno' = Bound(r.no)
    /\ UNCHANGED <<nextNo, kind, todo, live, held, free, unheard,
                   bq, tpNo, requested, rx, mainVars>>

\* EXEC_IGNORED.
ReportIgnored(r) ==
    /\ Take(r) /\ r.qty > 0
    /\ IF IsSell(r.no) THEN status # "SELL_ORDERED" ELSE status = "DROPPED"
    /\ UNCHANGED <<nextNo, kind, todo, live, held, free, unheard,
                   stockVars, rx, mainVars>>

-----------------------------------------------------------------------------
(***************************************************************************)
(* The main loop: the exit and its timeout.  It takes the lock only to     *)
(* change the record.                                                      *)
(***************************************************************************)

StartExit ==
    /\ pc = "idle" /\ status = "HOLDING" /\ bq > 0 /\ ~requested
    /\ orig' = tpNo /\ rem' = bq /\ pc' = "cancel"
    /\ UNCHANGED <<brokerVars, stockVars, rx>>

\* confirm_cancel_or_reload_remaining cancels the take-profit, whatever the
\* answer is ...
CancelTp ==
    /\ pc = "cancel"
    /\ \E ok \in BOOLEAN : CancelOrder(orig, ok)
    /\ orig' = 0 /\ pc' = "reload"
    /\ UNCHANGED <<wire, stockVars, rx, rem>>

\* ... and prefers the account's quantity to memory's.
ReloadQty ==
    /\ pc = "reload"
    /\ rem' = rem \/ (held > 0 /\ rem' = held)
    /\ pc' = "send"
    /\ UNCHANGED <<brokerVars, stockVars, rx, orig>>

\* The IOC order; its number goes to sell_ord_no, which neither the receipts
\* nor the timeout read.
SendExit ==
    /\ pc = "send"
    /\ \E no \in OrdNos \cup {0} : SendSellOrder("EXIT", rem, no)
    /\ rem' = 0 /\ pc' = "set"
    /\ UNCHANGED <<stockVars, rx, orig>>

\* Only now does the record say so, sent or refused.
SetExit ==
    /\ pc = "set" /\ rx = "idle"
    /\ status' = "SELL_ORDERED" /\ requested' = TRUE
    /\ pc' = "idle"
    /\ UNCHANGED <<brokerVars, bq, tpNo, sellOdno, rx, orig, rem>>

\* handle_sell_ordered_state after SELL_TIMEOUT_SEC, which an IOC order does
\* not outlast.
SellTimedOut ==
    /\ pc = "idle" /\ status = "SELL_ORDERED"
    /\ \A o \in OrdNos : live[o] => kind[o] # "EXIT"

\* Without a number the status alone goes back.
RollbackUnbound ==
    /\ SellTimedOut /\ sellOdno = 0 /\ rx = "idle"
    /\ status' = "HOLDING"
    /\ UNCHANGED <<brokerVars, bq, tpNo, requested, sellOdno, rx, mainVars>>

\* (mutant) "Nothing to cancel" is an error like any other.
CancelSellUnresolved ==
    /\ SellTimedOut /\ sellOdno # 0
    /\ \E ok \in BOOLEAN :
        /\ CancelOrder(sellOdno, ok)
        /\ pc' = IF ok THEN "rollback" ELSE "idle"
    /\ UNCHANGED <<wire, stockVars, rx, orig, rem>>

\* With one it is cancelled: done, refused as already gone, or no answer.
CancelSell ==
    /\ SellTimedOut /\ sellOdno # 0
    /\ \E ok \in BOOLEAN :
        /\ CancelOrder(sellOdno, ok)
        /\ pc' \in IF ok THEN {"rollback"}
                   ELSE IF live[sellOdno] THEN {"idle"} ELSE {"sold", "idle"}
    /\ UNCHANGED <<wire, stockVars, rx, orig, rem>>

RollbackSell ==
    /\ pc = "rollback" /\ rx = "idle"
    /\ status' = "HOLDING" /\ sellOdno' = 0 /\ pc' = "idle"
    /\ UNCHANGED <<brokerVars, bq, tpNo, requested, rx, orig, rem>>

AssumeSold ==
    /\ pc = "sold" /\ rx = "idle"
    /\ status' = "COMPLETED" /\ pc' = "idle"
    /\ UNCHANGED <<brokerVars, bq, tpNo, requested, sellOdno, rx, orig,
                   rem>>

Prune ==
    /\ pc = "idle" /\ status = "COMPLETED"
    /\ status' = "DROPPED"
    /\ UNCHANGED <<brokerVars, bq, tpNo, requested, sellOdno, rx, mainVars>>

-----------------------------------------------------------------------------
Broker ==
    \E o \in OrdNos : Lapse(o) \/ \E q \in 1..todo[o] : Fill(o, q)

Reports ==
    \E r \in {wire[i] : i \in DOMAIN wire} :
        \/ Notice(r) \/ BuyReport(r) \/ SellReportRevives(r)
        \/ SellReportCompletes(r) \/ ReportIgnored(r)

MainLoop ==
    \/ SendEntry \/ EndEntry
    \/ StartExit \/ CancelTp \/ ReloadQty \/ SendExit \/ SetExit
    \/ RollbackUnbound \/ CancelSell \/ RollbackSell \/ AssumeSold
    \/ Prune

Next == Broker \/ Reports \/ PlaceTp \/ MainLoop

Spec == Init /\ [][Next]_vars

\* The main loop finishes what it began and calls the timeout again and
\* again, the dispatcher drains its queue, an IOC order ends, and a cancel
\* that is tried for ever is at last answered.
Fairness ==
    /\ WF_vars(pc # "idle" /\ MainLoop)
    /\ WF_vars(Reports \/ PlaceTp)
    /\ WF_vars(\E o \in OrdNos : Lapse(o))
    /\ SF_vars(RollbackUnbound \/ (CancelSell /\ pc' # "idle"))

FairSpec == Spec /\ Fairness

-----------------------------------------------------------------------------
(***************************************************************************)
(* Properties.                                                             *)
(***************************************************************************)

\* Every variable has its type.
TypeOK ==
    /\ nextNo \in 1..(MaxOrders + 1)
    /\ kind \in [OrdNos -> {"NONE", "ENTRY", "TP", "EXIT"}]
    /\ todo \in [OrdNos -> Nat]
    /\ live \in [OrdNos -> BOOLEAN]
    /\ held \in Nat /\ free \in Nat
    /\ unheard \subseteq OrdNos
    /\ wire \in Seq([no : OrdNos, qty : Nat])
    /\ status \in {"WATCHING", "BUY_ORDERED", "HOLDING", "SELL_ORDERED",
                   "COMPLETED", "DROPPED"}
    /\ bq \in Nat /\ tpNo \in OrdNos \cup {0}
    /\ requested \in BOOLEAN /\ sellOdno \in OrdNos \cup {0}
    /\ rx \in {"idle", "place"}
    /\ pc \in {"idle", "cancel", "reload", "send", "set", "rollback", "sold"}
    /\ orig \in OrdNos \cup {0} /\ rem \in Nat

\* However entry fills, exits, revivals and failed cancels follow each other,
\* at most one take-profit whose number the engine received works at the
\* broker, and preset_tp_ord_no names it: no second one is placed beside it
\* and its number is not overwritten.
OneTakeProfit ==
    \A o \in OrdNos :
        live[o] /\ kind[o] = "TP" /\ o \notin unheard => o = tpNo

\* An exit that was not filled, was refused, or whose receipt was ignored
\* does not leave the target in SELL_ORDERED for ever.
SellOrderedEnds == status = "SELL_ORDERED" ~> status # "SELL_ORDERED"
=============================================================================
