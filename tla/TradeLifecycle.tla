--------------------------- MODULE TradeLifecycle ---------------------------
(***************************************************************************)
(* One target of the sniper engine from entry to exit: the record `stock`  *)
(* of ACTIVE_TARGETS for one stock code, the main loop's thread that sends *)
(* and cancels its orders (sniper_state_handlers.py), the dispatcher       *)
(* thread that applies execution reports to it                             *)
(* (sniper_execution_receipts.py, sniper_entry_state.py), and the database *)
(* rows both write, the receipts' ones through unordered daemon threads.   *)
(*                                                                         *)
(* Scope: real orders of one code, no add-buys, no preset take-profit, no  *)
(* account sync and no restart; the broker numbers every order it          *)
(* confirms.  buy_price is set and cleared with buy_qty on all these       *)
(* paths, so bq > 0 stands for both.                                       *)
(***************************************************************************)
EXTENDS Broker, Integers, FiniteSets

CONSTANTS
    MaxLegs,        \* orders in one entry bundle
    LegQty,         \* shares in each of them
    MaxRec,         \* bound: database rows the target goes through
    LostReplies     \* TRUE: a request may be executed and its reply lost

ASSUME LifecycleAssumption ==
    /\ MaxLegs \in Nat \ {0}
    /\ LegQty \in Nat \ {0}
    /\ MaxRec \in Nat \ {0}
    /\ LostReplies \in BOOLEAN

Recs == 1..MaxRec
Statuses == {"WATCHING", "BUY_ORDERED", "HOLDING", "SELL_ORDERED", "COMPLETED"}
LegStates == {"NONE", "OPEN", "PARTIAL", "FILLED", "CANCELLED"}

Keep == -1      \* a database update that leaves buy_qty alone
NoRec == 0

VARIABLES
    \* the record in memory
    status,     \* stock['status'], "DROPPED" once it left ACTIVE_TARGETS
    rec,        \* stock['id'], the database row
    bq,         \* stock['buy_qty']
    reqQty,     \* stock['entry_requested_qty'], 0 when absent
    entFilled,  \* stock['entry_filled_qty'], 0 when absent
    odno,       \* stock['odno'], 0 when absent
    sellOdno,   \* stock['sell_odno'], 0 when absent
    legSt,      \* status of each order of stock['pending_entry_orders']
    legFill,    \* its filled_qty
    term,       \* TERMINAL_ENTRY_ORDERS
    \* locals of the main loop's thread
    pc,         \* the step it takes next
    want,       \* requested_qty of the entry being submitted
    left,       \* its orders still to send
    sent,       \* successful_orders
    hand,       \* an order number received and not yet stored
    sellQty,    \* quantity of the exit being sent
    tid,        \* target_id, read when the handler started
    dbJob,      \* the database update it does next
    \* the database and the receipts' daemon threads
    dbSt, dbQty, writers

entryVars == <<reqQty, entFilled, odno, legSt, legFill>>
stockVars == <<status, rec, bq, sellOdno, term, entryVars>>
mainVars == <<pc, want, left, sent, hand, sellQty, tid, dbJob>>
dbVars == <<dbSt, dbQty, writers>>
vars == <<brokerVars, stockVars, mainVars, dbVars>>

Write == [rec : Recs, st : Statuses, qty : Nat \cup {Keep}]
NoWrite == [rec |-> NoRec, st |-> "WATCHING", qty |-> Keep]

Legs == {o \in OrdNos : legSt[o] # "NONE"}
OpenLegs == {o \in OrdNos : legSt[o] \in {"OPEN", "PARTIAL"}}

Init ==
    /\ BrokerInit
    /\ status = "WATCHING" /\ rec = 1 /\ bq = 0
    /\ reqQty = 0 /\ entFilled = 0 /\ odno = 0 /\ sellOdno = 0
    /\ legSt = [o \in OrdNos |-> "NONE"]
    /\ legFill = [o \in OrdNos |-> 0]
    /\ term = {}
    /\ pc = "idle" /\ want = 0 /\ left = 0 /\ sent = {} /\ hand = 0
    /\ sellQty = 0 /\ tid = NoRec /\ dbJob = NoWrite
    /\ dbSt = [r \in Recs |-> "WATCHING"]
    /\ dbQty = [r \in Recs |-> 0]
    /\ writers = {}

-----------------------------------------------------------------------------
(***************************************************************************)
(* Shared pieces of the handlers.                                          *)
(***************************************************************************)

\* (mutant) The bundle's keys are popped, its orders are not kept.
ForgetLegs ==
    /\ legSt' = [o \in OrdNos |-> "NONE"]
    /\ legFill' = [o \in OrdNos |-> 0]
    /\ reqQty' = 0 /\ entFilled' = 0
    /\ UNCHANGED term

\* move_orders_to_terminal, then the bundle's keys are popped.
RetireLegs ==
    /\ term' = term \cup Legs
    /\ legSt' = [o \in OrdNos |-> "NONE"]
    /\ legFill' = [o \in OrdNos |-> 0]
    /\ reqQty' = 0
    /\ entFilled' = 0

\* (mutant) The primary order number is not stored.
StageWithoutNumber(S) ==
    /\ status' = IF entFilled >= want THEN "HOLDING" ELSE "BUY_ORDERED"
    /\ reqQty' = want
    /\ legSt' = [o \in OrdNos |-> IF o \notin S THEN "NONE"
                                  ELSE IF legSt[o] = "NONE" THEN "OPEN"
                                  ELSE legSt[o]]
    /\ legFill' = [o \in OrdNos |-> IF o \in S THEN legFill[o] ELSE 0]
    /\ UNCHANGED <<rec, bq, entFilled, odno, sellOdno, term>>

\* _stage_buy_order_submission: the bundle becomes the orders S, what
\* receipts already recorded for them is kept.
StageOrders(S) ==
    /\ status' = IF entFilled >= want THEN "HOLDING" ELSE "BUY_ORDERED"
    /\ reqQty' = want
    /\ legSt' = [o \in OrdNos |-> IF o \notin S THEN "NONE"
                                  ELSE IF legSt[o] = "NONE" THEN "OPEN"
                                  ELSE legSt[o]]
    /\ legFill' = [o \in OrdNos |-> IF o \in S THEN legFill[o] ELSE 0]
    /\ \E first \in S : (\A o \in S : first <= o) /\ odno' = first
    /\ UNCHANGED <<rec, bq, entFilled, sellOdno, term>>

ApplyWrite(w) ==
    /\ dbSt' = [dbSt EXCEPT ![w.rec] = w.st]
    /\ dbQty' = IF w.qty = Keep THEN dbQty ELSE [dbQty EXCEPT ![w.rec] = w.qty]

\* The handler goes on to update row r, its last step.
ThenWrite(r, st, q) ==
    /\ pc' = "db"
    /\ dbJob' = [rec |-> r, st |-> st, qty |-> q]

-----------------------------------------------------------------------------
(***************************************************************************)
(* Main loop: the entry bundle is sent (handle_watching_state,             *)
(* _submit_watching_triggered_entry).                                      *)
(***************************************************************************)

\* A WATCHING target triggers: a bundle of n orders is planned.
BeginEntry(n) ==
    /\ pc = "idle" /\ status = "WATCHING"
    /\ pc' = "send"
    /\ want' = n * LegQty /\ left' = n /\ sent' = {}
    /\ UNCHANGED <<brokerVars, stockVars, hand, sellQty, tid, dbJob, dbVars>>

\* send_buy_order answers with an order number.
SendLegAccepted ==
    /\ pc = "send" /\ left > 0
    /\ Accept("BUY", LegQty)
    /\ hand' = nextNo /\ pc' = "stage"
    /\ UNCHANGED <<stockVars, want, left, sent, sellQty, tid, dbJob, dbVars>>

\* It is refused, or there is no answer: the leg is skipped.
SendLegRefused ==
    /\ pc = "send" /\ left > 0
    /\ left' = left - 1
    /\ UNCHANGED <<brokerVars, stockVars, pc, want, sent, hand, sellQty, tid,
                   dbJob, dbVars>>

\* There is no answer, but the order stands at the broker.
SendLegUnheard ==
    /\ LostReplies
    /\ pc = "send" /\ left > 0
    /\ Accept("BUY", LegQty)
    /\ left' = left - 1
    /\ UNCHANGED <<stockVars, pc, want, sent, hand, sellQty, tid, dbJob, dbVars>>

\* The accepted leg joins successful_orders and the bundle is staged.
StageLeg ==
    /\ pc = "stage"
    /\ StageOrders(sent \cup {hand})
    /\ sent' = sent \cup {hand}
    /\ hand' = 0 /\ left' = left - 1 /\ pc' = "send"
    /\ UNCHANGED <<brokerVars, want, sellQty, tid, dbJob, dbVars>>

\* No order went through: the submission ends.
AbandonEntry ==
    /\ pc = "send" /\ left = 0 /\ sent = {}
    /\ pc' = "idle" /\ want' = 0
    /\ UNCHANGED <<brokerVars, stockVars, left, sent, hand, sellQty, tid, dbJob,
                   dbVars>>

\* _finalize_buy_order_submission stages the bundle once more.
FinishEntry ==
    /\ pc = "send" /\ left = 0 /\ sent # {}
    /\ StageOrders(sent)
    /\ ThenWrite(rec, "BUY_ORDERED", want)
    /\ want' = 0 /\ sent' = {}
    /\ UNCHANGED <<brokerVars, left, hand, sellQty, tid, dbVars>>

-----------------------------------------------------------------------------
(***************************************************************************)
(* Main loop: an entry bundle that timed out is cancelled                  *)
(* (_reconcile_pending_entry_orders, process_order_cancellation).          *)
(***************************************************************************)

\* (mutant) A leg counts as cancelled whatever the broker answers.
CancelUnchecked(force, done) ==
    \E ok \in SUBSET OpenLegs :
        /\ Close(ok)
        /\ legSt' = [o \in OrdNos |-> IF o \in OpenLegs THEN "CANCELLED"
                                      ELSE legSt[o]]
        /\ pc' = "idle"
        /\ UNCHANGED <<legFill, reqQty, entFilled, term>>

\* (mutant) The bundle is given up although a cancel failed.
CancelAndForget(force, done) ==
    \E ok \in SUBSET OpenLegs : Close(ok) /\ RetireLegs /\ pc' = done

\* _cancel_pending_entry_orders holds ENTRY_LOCK, so no receipt is applied
\* between its requests.  ok: orders whose cancel is confirmed or answered
\* "already resolved"; dead: cancelled, but the answer never came.
CancelLegs(force, done) ==
    \E ok, dead \in SUBSET OpenLegs :
        LET failed == OpenLegs \ ok IN
        /\ dead \subseteq failed
        /\ LostReplies \/ dead = {}
        /\ force \/ \A f \in failed : \A o \in ok : o < f
        /\ force \/ \A d \in dead : \A f \in failed : d <= f
        /\ Close(ok \cup dead)
        /\ IF failed = {}
           THEN RetireLegs /\ pc' = done
           ELSE /\ legSt' = [o \in OrdNos |-> IF o \in ok THEN "CANCELLED"
                                              ELSE legSt[o]]
                /\ pc' = "idle"
                /\ UNCHANGED <<legFill, reqQty, entFilled, term>>

\* (mutant) Only BUY_ORDERED targets are reconciled.
TimeoutIfOrdered ==
    /\ pc = "idle" /\ status = "BUY_ORDERED" /\ OpenLegs # {}
    /\ CancelLegs(TRUE, "decide")
    /\ UNCHANGED <<status, rec, bq, odno, sellOdno, want, left, sent, hand,
                   sellQty, tid, dbJob, dbVars>>

\* (mutant) Only HOLDING targets are reconciled.
TimeoutIfHolding ==
    /\ pc = "idle" /\ status = "HOLDING" /\ OpenLegs # {}
    /\ CancelLegs(TRUE, "decide")
    /\ UNCHANGED <<status, rec, bq, odno, sellOdno, want, left, sent, hand,
                   sellQty, tid, dbJob, dbVars>>

\* The bundle's timeout passed with orders open.
EntryTimeout ==
    /\ pc = "idle" /\ status \in {"BUY_ORDERED", "HOLDING"}
    /\ OpenLegs # {}
    /\ CancelLegs(TRUE, "decide")
    /\ UNCHANGED <<status, rec, bq, odno, sellOdno, want, left, sent, hand,
                   sellQty, tid, dbJob, dbVars>>

\* Some shares came in: keep them.
ReconcileHold ==
    /\ pc = "decide" /\ bq > 0
    /\ status' = "HOLDING" /\ odno' = 0 /\ pc' = "idle"
    /\ UNCHANGED <<brokerVars, rec, bq, reqQty, entFilled, sellOdno, legSt,
                   legFill, term, want, left, sent, hand, sellQty, tid, dbJob,
                   dbVars>>

\* None did, as far as buy_qty says now ...
ReconcileSeesNothing ==
    /\ pc = "decide" /\ bq = 0
    /\ pc' = "toWatch"
    /\ UNCHANGED <<brokerVars, stockVars, want, left, sent, hand, sellQty, tid,
                   dbJob, dbVars>>

\* ... so the target goes back to WATCHING.
ReconcileWatch ==
    /\ pc = "toWatch"
    /\ status' = "WATCHING" /\ odno' = 0
    /\ ThenWrite(rec, "WATCHING", 0)
    /\ UNCHANGED <<brokerVars, rec, bq, reqQty, entFilled, sellOdno, legSt,
                   legFill, term, want, left, sent, hand, sellQty, tid, dbVars>>

\* BUY_ORDERED timed out with no open leg: the cancel of the primary order
\* is answered "nothing to cancel" in one of the words the code knows, which
\* is taken for a full fill.  After any other answer all stays as it is.
PrimaryResolved ==
    /\ pc = "idle" /\ status = "BUY_ORDERED" /\ OpenLegs = {}
    /\ odno # 0 /\ ~live[odno]
    /\ status' = "HOLDING"
    /\ ThenWrite(rec, "HOLDING", Keep)
    /\ UNCHANGED <<brokerVars, rec, bq, sellOdno, term, entryVars, want, left,
                   sent, hand, sellQty, tid, dbVars>>

-----------------------------------------------------------------------------
(***************************************************************************)
(* Main loop: an exit (handle_holding_state).                              *)
(***************************************************************************)

\* (mutant) The exit goes ahead with entry orders open.
ExitAtOnce ==
    /\ pc = "idle" /\ status = "HOLDING" /\ bq > 0
    /\ pc' = "exitQty" /\ tid' = rec
    /\ UNCHANGED <<brokerVars, stockVars, want, left, sent, hand, sellQty,
                   dbJob, dbVars>>

\* A sell signal on a position.  Open entry orders are cancelled first; if
\* one stays uncertain the sell waits for the next loop.
StartExit ==
    /\ pc = "idle" /\ status = "HOLDING" /\ bq > 0
    /\ IF OpenLegs # {}
       THEN CancelLegs(FALSE, "exitQty")
       ELSE /\ pc' = "exitQty"
            /\ UNCHANGED <<brokerVars, legSt, legFill, reqQty, entFilled, term>>
    /\ tid' = IF pc' = "idle" THEN NoRec ELSE rec
    /\ UNCHANGED <<status, rec, bq, odno, sellOdno, want, left, sent, hand,
                   sellQty, dbJob, dbVars>>

\* The quantity is the larger of memory's and the row's, memory's alone if
\* the row cannot be read.
ReadExitQty ==
    /\ pc = "exitQty"
    /\ \/ sellQty' = bq
       \/ dbQty[tid] > bq /\ sellQty' = dbQty[tid]
    /\ pc' = "lock"
    /\ UNCHANGED <<brokerVars, stockVars, want, left, sent, hand, tid, dbJob,
                   dbVars>>

\* Row and memory are locked as SELL_ORDERED before the order is sent; that
\* the row could not be written is logged, and memory is locked all the same.
LockForSale ==
    /\ pc = "lock"
    /\ \/ ApplyWrite([rec |-> tid, st |-> "SELL_ORDERED", qty |-> Keep])
       \/ UNCHANGED <<dbSt, dbQty>>
    /\ status' = "SELL_ORDERED" /\ pc' = "sellSend"
    /\ UNCHANGED <<brokerVars, rec, bq, sellOdno, term, entryVars, want, left,
                   sent, hand, sellQty, tid, dbJob, writers>>

\* send_smart_sell_order answers with an order number.
SendSellAccepted ==
    /\ pc = "sellSend"
    /\ Accept("SELL", sellQty)
    /\ hand' = nextNo /\ pc' = "sellBind"
    /\ UNCHANGED <<stockVars, want, left, sent, sellQty, tid, dbJob, dbVars>>

\* The broker refuses, naming the quantity that can be sold.
SendSellShort ==
    /\ pc = "sellSend" /\ free < sellQty
    /\ sellQty' = free /\ pc' = "sellShort"
    /\ UNCHANGED <<brokerVars, stockVars, want, left, sent, hand, tid, dbJob,
                   dbVars>>

\* The broker refuses for another reason, or there is no answer.
SendSellRefused ==
    /\ pc = "sellSend"
    /\ pc' = "sellFail"
    /\ UNCHANGED <<brokerVars, stockVars, want, left, sent, hand, sellQty, tid,
                   dbJob, dbVars>>

\* There is no answer, but the order stands at the broker.
SendSellUnheard ==
    /\ LostReplies
    /\ pc = "sellSend"
    /\ Accept("SELL", sellQty)
    /\ pc' = "sellFail"
    /\ UNCHANGED <<stockVars, want, left, sent, hand, sellQty, tid, dbJob,
                   dbVars>>

\* (mutant) The exit's order number is dropped.
BindNothing ==
    /\ pc = "sellBind"
    /\ hand' = 0 /\ pc' = "idle" /\ sellQty' = 0 /\ tid' = NoRec
    /\ UNCHANGED <<brokerVars, stockVars, want, left, sent, dbJob, dbVars>>

\* The exit's order number is stored.
BindSell ==
    /\ pc = "sellBind"
    /\ sellOdno' = hand /\ hand' = 0
    /\ pc' = "idle" /\ sellQty' = 0 /\ tid' = NoRec
    /\ UNCHANGED <<brokerVars, status, rec, bq, term, entryVars, want, left,
                   sent, dbJob, dbVars>>

\* (mutant) One share less than the broker names.
SellShortOffByOne ==
    /\ pc = "sellShort"
    /\ status' = "HOLDING" /\ bq' = sellQty - 1
    /\ ThenWrite(tid, "HOLDING", Keep)
    /\ sellQty' = 0 /\ tid' = NoRec
    /\ UNCHANGED <<brokerVars, rec, sellOdno, term, entryVars, want, left, sent,
                   hand, dbVars>>

\* Nothing can be sold: the position is taken for sold.  Otherwise memory
\* takes the broker's quantity and the exit is tried again.
SellShort ==
    /\ pc = "sellShort"
    /\ status' = IF sellQty = 0 THEN "COMPLETED" ELSE "HOLDING"
    /\ bq' = IF sellQty = 0 THEN bq ELSE sellQty
    /\ ThenWrite(tid, status', Keep)
    /\ sellQty' = 0 /\ tid' = NoRec
    /\ UNCHANGED <<brokerVars, rec, sellOdno, term, entryVars, want, left, sent,
                   hand, dbVars>>

\* A failed exit puts the position back to HOLDING.
SellFailed ==
    /\ pc = "sellFail"
    /\ status' = "HOLDING"
    /\ ThenWrite(tid, "HOLDING", Keep)
    /\ sellQty' = 0 /\ tid' = NoRec
    /\ UNCHANGED <<brokerVars, rec, bq, sellOdno, term, entryVars, want, left,
                   sent, hand, dbVars>>

-----------------------------------------------------------------------------
(***************************************************************************)
(* Main loop: an exit order that timed out (handle_sell_ordered_state,     *)
(* process_sell_cancellation).                                             *)
(***************************************************************************)

SellTimedOut ==
    pc = "idle" /\ status = "SELL_ORDERED" /\ sellOdno # 0

\* The broker cancels the exit order and says so.
CancelSell ==
    /\ SellTimedOut /\ live[sellOdno]
    /\ Close({sellOdno})
    /\ tid' = rec /\ pc' = "rollback"
    /\ UNCHANGED <<stockVars, want, left, sent, hand, sellQty, dbJob, dbVars>>

\* The broker cancels it, but the answer never comes.
CancelSellUnheard ==
    /\ LostReplies
    /\ SellTimedOut /\ live[sellOdno]
    /\ Close({sellOdno})
    /\ UNCHANGED <<stockVars, mainVars, dbVars>>

\* (mutant) "Nothing to cancel" is an error like any other.
CancelSellUnresolved ==
    SellTimedOut /\ ~live[sellOdno] /\ UNCHANGED vars

\* The broker has nothing to cancel: the position is taken for sold.
CancelSellResolved ==
    /\ SellTimedOut /\ ~live[sellOdno]
    /\ tid' = rec /\ pc' = "assumeSold"
    /\ UNCHANGED <<brokerVars, stockVars, want, left, sent, hand, sellQty, dbJob,
                   dbVars>>

\* The cancelled exit becomes a position again, whatever happened since.
RollbackSell ==
    /\ pc = "rollback"
    /\ status' = "HOLDING" /\ sellOdno' = 0
    /\ ThenWrite(tid, "HOLDING", Keep)
    /\ tid' = NoRec
    /\ UNCHANGED <<brokerVars, rec, bq, term, entryVars, want, left, sent, hand,
                   sellQty, dbVars>>

AssumeSold ==
    /\ pc = "assumeSold"
    /\ status' = "COMPLETED"
    /\ ThenWrite(tid, "COMPLETED", Keep)
    /\ tid' = NoRec
    /\ UNCHANGED <<brokerVars, rec, bq, sellOdno, term, entryVars, want, left,
                   sent, hand, sellQty, dbVars>>

\* run_sniper drops COMPLETED targets from ACTIVE_TARGETS.
Prune ==
    /\ pc = "idle" /\ status = "COMPLETED"
    /\ status' = "DROPPED"
    /\ UNCHANGED <<brokerVars, rec, bq, sellOdno, term, entryVars, mainVars,
                   dbVars>>

\* The pending update of the row; an exception is logged and forgotten.
DbWrite ==
    /\ pc = "db"
    /\ ApplyWrite(dbJob) \/ UNCHANGED <<dbSt, dbQty>>
    /\ pc' = "idle" /\ dbJob' = NoWrite
    /\ UNCHANGED <<brokerVars, stockVars, want, left, sent, hand, sellQty, tid,
                   writers>>

-----------------------------------------------------------------------------
(***************************************************************************)
(* Dispatcher thread: execution reports (handle_real_execution).  Each is  *)
(* applied under ENTRY_LOCK.                                               *)
(***************************************************************************)

\* _find_execution_target for a BUY: a bundle order, a terminal order, or
\* any BUY order while the code's only candidate is BUY_ORDERED.
MatchesBuy(o) ==
    /\ status # "DROPPED"
    /\ o \in Legs \/ o \in term \/ status = "BUY_ORDERED"

\* _handle_entry_buy_execution.
EntryFill(r) ==
    LET full == reqQty > 0 /\ bq + r.qty >= reqQty
        filledNow == legFill[r.no] + r.qty
    IN  /\ status' = "HOLDING"
        /\ bq' = bq + r.qty
        /\ IF full
           THEN RetireLegs
           ELSE /\ entFilled' = entFilled + r.qty
                /\ IF r.no \in Legs
                   THEN /\ legFill' = [legFill EXCEPT ![r.no] = filledNow]
                        /\ legSt' = [legSt EXCEPT ![r.no] =
                              IF filledNow >= qty[r.no] THEN "FILLED" ELSE "PARTIAL"]
                   ELSE UNCHANGED <<legSt, legFill>>
                /\ UNCHANGED <<reqQty, term>>
        /\ writers' = writers \cup {[rec |-> rec, st |-> "HOLDING", qty |-> bq']}
        /\ UNCHANGED <<rec, odno, sellOdno, dbSt, dbQty>>

BuyReport(r) ==
    /\ Receive(r) /\ side[r.no] = "BUY"
    /\ MatchesBuy(r.no)
    /\ EntryFill(r)
    /\ UNCHANGED mainVars

\* A SELL report matches the code's only SELL_ORDERED target.  In a scalping
\* session the row is closed and the target starts over on a new row.
SellReportRevives(r) ==
    /\ Receive(r) /\ side[r.no] = "SELL"
    /\ status = "SELL_ORDERED" /\ rec < MaxRec
    /\ dbSt' = [dbSt EXCEPT ![rec] = "COMPLETED"]
    /\ status' = "WATCHING" /\ rec' = rec + 1 /\ bq' = 0
    /\ odno' = 0 /\ sellOdno' = 0
    /\ RetireLegs
    /\ UNCHANGED <<mainVars, dbQty, writers>>

\* Otherwise the target is completed, its row by a thread of its own.
SellReportCompletes(r) ==
    /\ Receive(r) /\ side[r.no] = "SELL"
    /\ status = "SELL_ORDERED"
    /\ status' = "COMPLETED"
    /\ RetireLegs
    /\ writers' = writers \cup {[rec |-> rec, st |-> "COMPLETED", qty |-> Keep]}
    /\ UNCHANGED <<rec, bq, odno, sellOdno, mainVars, dbSt, dbQty>>

\* The row cannot be read, or the closing commit of a scalping session fails:
\* the report is dropped.
SellReportFails(r) ==
    /\ Receive(r) /\ side[r.no] = "SELL"
    /\ status = "SELL_ORDERED"
    /\ UNCHANGED <<stockVars, mainVars, dbVars>>

\* EXEC_IGNORED: no target matches, the report is dropped.
ReportIgnored(r) ==
    /\ Receive(r)
    /\ \/ side[r.no] = "BUY" /\ ~MatchesBuy(r.no)
       \/ side[r.no] = "SELL" /\ status # "SELL_ORDERED"
    /\ UNCHANGED <<stockVars, mainVars, dbVars>>

\* _update_db_for_buy, _update_db_for_sell: the threads run in any order; an
\* exception is logged.
RunWriter(w) ==
    /\ writers' = writers \ {w}
    /\ ApplyWrite(w) \/ UNCHANGED <<dbSt, dbQty>>
    /\ UNCHANGED <<brokerVars, stockVars, mainVars>>

\* prune_terminal_entry_orders: the 180 seconds of o are over.  They outlast
\* the submission o belongs to.
ExpireTerm(o) ==
    /\ o \notin sent
    /\ term' = term \ {o}
    /\ UNCHANGED <<brokerVars, status, rec, bq, sellOdno, entryVars, mainVars,
                   dbVars>>

-----------------------------------------------------------------------------
BrokerFills == \E o \in OrdNos : \E q \in 1..qty[o] :
    Fill(o, q) /\ UNCHANGED <<stockVars, mainVars, dbVars>>

BrokerLapses == \E o \in OrdNos :
    live[o] /\ Close({o}) /\ UNCHANGED <<stockVars, mainVars, dbVars>>

Submission ==
    \/ \E n \in 1..MaxLegs : BeginEntry(n)
    \/ SendLegAccepted \/ SendLegRefused \/ SendLegUnheard
    \/ StageLeg \/ AbandonEntry \/ FinishEntry

Reconcile ==
    \/ EntryTimeout \/ ReconcileHold \/ ReconcileSeesNothing \/ ReconcileWatch
    \/ PrimaryResolved

Exit ==
    \/ StartExit \/ ReadExitQty \/ LockForSale
    \/ SendSellAccepted \/ SendSellShort \/ SendSellRefused \/ SendSellUnheard
    \/ BindSell \/ SellShort \/ SellFailed
    \/ CancelSell \/ CancelSellUnheard \/ CancelSellResolved
    \/ RollbackSell \/ AssumeSold

Reports ==
    \E r \in {wire[i] : i \in DOMAIN wire} :
        \/ BuyReport(r) \/ SellReportRevives(r) \/ SellReportCompletes(r)
        \/ SellReportFails(r) \/ ReportIgnored(r)

Background ==
    \/ \E w \in writers : RunWriter(w)
    \/ \E o \in term : ExpireTerm(o)

Next ==
    \/ Submission \/ Reconcile \/ Exit \/ Prune \/ DbWrite
    \/ Reports \/ Background \/ BrokerFills \/ BrokerLapses

Spec == Init /\ [][Next]_vars

\* The main loop and the dispatcher keep running, and an exchange with the
\* broker that is tried again and again is at last answered.
MainStep ==
    \/ Submission \/ ReconcileHold \/ ReconcileSeesNothing \/ ReconcileWatch
    \/ PrimaryResolved \/ DbWrite \/ CancelSellResolved \/ RollbackSell
    \/ AssumeSold \/ BindSell \/ SellShort \/ SellFailed
    \/ ReadExitQty \/ LockForSale
    \/ SendSellAccepted \/ SendSellShort \/ SendSellRefused

Fairness ==
    /\ WF_vars(pc # "idle" /\ MainStep)
    /\ WF_vars(Reports)
    /\ SF_vars(EntryTimeout /\ pc' = "decide")
    /\ SF_vars(PrimaryResolved)
    /\ SF_vars(CancelSell)
    /\ SF_vars(CancelSellResolved)

FairSpec == Spec /\ Fairness

-----------------------------------------------------------------------------
(***************************************************************************)
(* Properties.                                                             *)
(***************************************************************************)

MainPCs == {"idle", "send", "stage", "decide", "toWatch", "db", "exitQty",
            "lock", "sellSend", "sellBind", "sellShort", "sellFail",
            "rollback", "assumeSold"}

\* Every variable has its type.
TypeOK ==
    /\ BrokerTypeOK
    /\ status \in Statuses \cup {"DROPPED"}
    /\ rec \in Recs /\ bq \in Nat
    /\ reqQty \in Nat /\ entFilled \in Nat
    /\ odno \in OrdNos \cup {0} /\ sellOdno \in OrdNos \cup {0}
    /\ legSt \in [OrdNos -> LegStates] /\ legFill \in [OrdNos -> Nat]
    /\ term \subseteq OrdNos
    /\ pc \in MainPCs
    /\ want \in Nat /\ left \in Nat
    /\ sent \subseteq OrdNos /\ hand \in OrdNos \cup {0}
    /\ sellQty \in Nat /\ tid \in Recs \cup {NoRec}
    /\ dbJob \in Write \cup {NoWrite}
    /\ dbSt \in [Recs -> Statuses] /\ dbQty \in [Recs -> Nat]
    /\ writers \subseteq Write

\* An entry leg that memory no longer counts as open has no order working at
\* the broker: skipping it when cancelling cannot leave shares to be bought
\* (_has_open_pending_entry_orders, _cancel_pending_entry_orders).
ClosedLegIsDead ==
    \A o \in OrdNos : legSt[o] \in {"FILLED", "CANCELLED"} => ~live[o]

\* From the moment an exit's quantity is read until its fill is reported,
\* none of the bundle's entry orders works at the broker: handle_holding_state
\* cancels them first and gives the exit up when one stays uncertain.
ExitPCs == {"exitQty", "lock", "sellSend", "sellBind", "sellShort", "sellFail"}
ExitClosesEntry ==
    pc \in ExitPCs \/ status = "SELL_ORDERED" => \A o \in Legs : ~live[o]

\* A target waiting in SELL_ORDERED with the main loop elsewhere knows the
\* number of an exit order, and no later exit was ever sent: the timeout
\* cancels the right order, and handle_sell_ordered_state's branch without a
\* number is not taken.
ExitKnowsItsOrder ==
    pc = "idle" /\ status = "SELL_ORDERED" =>
        /\ sellOdno # 0
        /\ side[sellOdno] = "SELL"
        /\ \A o \in OrdNos : side[o] = "SELL" => o <= sellOdno

\* A BUY_ORDERED target without an open leg has an order number, and that
\* order is closed: the cancel process_order_cancellation then sends finds
\* nothing to cancel, and its WATCHING rollback (which forgets buy_qty) is
\* never reached.
PrimaryAlreadyResolved ==
    pc = "idle" /\ status = "BUY_ORDERED" /\ OpenLegs = {} =>
        odno # 0 /\ ~live[odno]

\* pending_entry_orders lets go of an order that still works at the broker
\* only when the quantity the bundle asked for is there: the cancel path and
\* the sell receipts' clean-up never lose a working order.
NoWorkingOrderRetired ==
    [][\A o \in Legs : o \notin Legs' /\ live'[o] =>
          reqQty > 0 /\ bq' >= reqQty]_vars

\* An entry bundle's order does not stay open in memory for ever: it is
\* filled, or the timeout cancels it (_reconcile_pending_entry_orders).
LegsResolve == \A o \in OrdNos : o \in OpenLegs ~> o \notin OpenLegs

\* BUY_ORDERED is left: filled, kept or given up.
BuyOrderedEnds == status = "BUY_ORDERED" ~> status # "BUY_ORDERED"

\* SELL_ORDERED is left: sold, or rolled back by the timeout.
SellOrderedEnds == status = "SELL_ORDERED" ~> status # "SELL_ORDERED"
=============================================================================
