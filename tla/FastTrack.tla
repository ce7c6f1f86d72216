------------------------------ MODULE FastTrack ------------------------------
(***************************************************************************)
(* The S15 fast track (sniper_s15_fast_track.py) for one stock code.  A    *)
(* candidate condition arms the code, a shooting condition starts a thread *)
(* that decides, buys, waits at most 20 s, places a take-profit and        *)
(* watches the price until the shares are sold or the stop is reached.     *)
(*                                                                         *)
(* Three parties share FAST_TRADE_STATE: that thread, the WebSocket        *)
(* dispatcher (conditions and execution reports, one at a time), which     *)
(* claims a report only when it carries a number the thread has stored,    *)
(* and the broker.  Prices only decide when the stop fires, so it may fire *)
(* at any time.  The account holds no other shares of the code.            *)
(***************************************************************************)
EXTENDS Naturals, Sequences

CONSTANTS
    MaxOrders,  \* bound: order numbers the broker hands out
    ReqQty,     \* shares of the entry order, req_qty
    MaxFaults   \* bound: lost replies, failed row deletions and restarts

ASSUME FastTrackAssumption ==
    MaxOrders \in Nat \ {0} /\ ReqQty \in Nat \ {0} /\ MaxFaults \in Nat

OrdNos == 1..MaxOrders

VARIABLES
    \* the broker and the account
    nextNo,
    kind,       \* kind[o]: "BUY", "TP" or "IOC", "NONE" before o exists
    todo,       \* todo[o]: shares of o that are not filled
    done,       \* done[o]: shares of o that are filled
    live,       \* live[o]: o is working
    held,       \* shares in the account
    free,       \* of them, not reserved by a working SELL order
    wire,       \* execution reports, oldest first; upTo is history, the
                \* shares of the order filled by then
    faults,
    bootNo,     \* nextNo when the process was started last
    \* what the module keeps
    armed,      \* the code is in FAST_SCALP_POOL
    armedRow,   \* its S15_CANDID row is in the database
    blocked,    \* FAST_REENTRY_BLOCK
    fs,         \* FAST_TRADE_STATE[code]
    shadow,     \* status of the shadow row, "NONE" before the first one
    \* the thread: its next step, real_buy_qty, rem_qty, the number answered
    pc, real, rem, res

brokerVars == <<nextNo, kind, todo, done, live, held, free>>
poolVars == <<armed, armedRow, blocked>>
threadVars == <<pc, real, rem, res>>
vars == <<brokerVars, wire, faults, bootNo, poolVars, fs, shadow, threadVars>>

NoTrack == [on |-> FALSE, buy |-> 0, sell |-> 0, cancel |-> 0,
            bought |-> 0, sold |-> 0]

Init ==
    /\ nextNo = 1
    /\ kind = [o \in OrdNos |-> "NONE"]
    /\ todo = [o \in OrdNos |-> 0] /\ done = [o \in OrdNos |-> 0]
    /\ live = [o \in OrdNos |-> FALSE]
    /\ held = 0 /\ free = 0 /\ wire = <<>> /\ faults = 0 /\ bootNo = 1
    /\ armed = FALSE /\ armedRow = FALSE /\ blocked = FALSE
    /\ fs = NoTrack /\ shadow = "NONE"
    /\ pc = "none" /\ real = 0 /\ rem = 0 /\ res = 0

Fault == faults < MaxFaults /\ faults' = faults + 1

-----------------------------------------------------------------------------
(***************************************************************************)
(* The broker.                                                             *)
(***************************************************************************)

\* The next order is taken: a SELL reserves its shares.
Accept(k, q) ==
    /\ nextNo <= MaxOrders
    /\ k # "BUY" => q <= free
    /\ nextNo' = nextNo + 1
    /\ kind' = [kind EXCEPT ![nextNo] = k]
    /\ todo' = [todo EXCEPT ![nextNo] = q]
    /\ live' = [live EXCEPT ![nextNo] = TRUE]
    /\ free' = IF k = "BUY" THEN free ELSE free - q
    /\ UNCHANGED <<done, held>>

\* q more shares of o are filled and reported; nobody sells what is not held.
Fill(o, q) ==
    /\ live[o] /\ q <= todo[o]
    /\ kind[o] # "BUY" => q <= held
    /\ todo' = [todo EXCEPT ![o] = @ - q]
    /\ done' = [done EXCEPT ![o] = @ + q]
    /\ live' = [live EXCEPT ![o] = q < todo[o]]
    /\ IF kind[o] = "BUY"
       THEN held' = held + q /\ free' = free + q
       ELSE held' = held - q /\ UNCHANGED free
    /\ wire' = Append(wire, [no |-> o, qty |-> q, upTo |-> done'[o]])
    /\ UNCHANGED <<nextNo, kind, faults, bootNo, poolVars, fs, shadow, threadVars>>

\* o stops working; a SELL gives its unsold shares back.
Close(o) ==
    /\ live[o]
    /\ live' = [live EXCEPT ![o] = FALSE]
    /\ free' = IF kind[o] = "BUY" THEN free ELSE free + todo[o]
    /\ UNCHANGED <<nextNo, kind, todo, done, held>>

\* What an IOC order does not sell at once lapses.
Lapse(o) ==
    /\ kind[o] = "IOC" /\ Close(o)
    /\ UNCHANGED <<wire, faults, bootNo, poolVars, fs, shadow, threadVars>>

\* An order request: ok is whether it is heard to be accepted, no the number
\* in the answer, 0 for a blank one.
Send(k, q, ok, no) ==
    \/ Accept(k, q) /\ ok /\ no = nextNo /\ UNCHANGED faults
    \/ Accept(k, q) /\ no = 0 /\ Fault
    \/ ~ok /\ no = 0 /\ UNCHANGED <<brokerVars, faults>>

\* A cancel request: ok is whether the broker is heard to confirm it.
Cancel(o, ok) ==
    \/ o # 0 /\ Close(o) /\ ok /\ UNCHANGED faults
    \/ o # 0 /\ Close(o) /\ ~ok /\ Fault
    \/ ~ok /\ UNCHANGED <<brokerVars, faults>>

-----------------------------------------------------------------------------
(***************************************************************************)
(* The dispatcher: conditions and execution reports.                       *)
(***************************************************************************)

\* _arm_s15_candidate: a failure to save the row is only logged.
Arm ==
    /\ armed' = TRUE
    /\ \/ armedRow' = TRUE /\ UNCHANGED faults
       \/ UNCHANGED armedRow /\ Fault
    /\ UNCHANGED <<brokerVars, wire, bootNo, blocked, fs, shadow, threadVars>>

\* The candidate condition is left, or the 180 s are over.
Unarm ==
    /\ armed /\ armed' = FALSE
    /\ \/ armedRow' = FALSE /\ UNCHANGED faults
       \/ UNCHANGED armedRow /\ Fault
    /\ UNCHANGED <<brokerVars, wire, bootNo, blocked, fs, shadow, threadVars>>

\* The shooting condition: a shadow row, a fresh state and a thread.
Trigger ==
    /\ armed /\ ~blocked /\ ~fs.on
    /\ shadow' = "WATCHING"
    /\ fs' = [NoTrack EXCEPT !.on = TRUE]
    /\ pc' = "decide"
    /\ UNCHANGED <<brokerVars, wire, faults, bootNo, poolVars, real, rem, res>>

IsBuy(o) == kind[o] = "BUY"

\* Mutant: a purchase of the code is taken for the track's without looking
\* at its number.
TakeReportOfCode ==
    /\ wire # <<>>
    /\ wire' = Tail(wire)
    /\ LET r == Head(wire) IN
       fs' = IF fs.on /\ IsBuy(r.no)
             THEN [fs EXCEPT !.bought = @ + r.qty]
             ELSE IF fs.on /\ r.no \in {fs.sell, fs.cancel}
             THEN [fs EXCEPT !.sold = @ + r.qty]
             ELSE fs
    /\ UNCHANGED <<brokerVars, faults, bootNo, poolVars, shadow, threadVars>>

\* handle_real_execution up to the claim: a report of a number the thread
\* has not stored yet, or no longer has, goes to the standard path.
TakeReport ==
    /\ wire # <<>>
    /\ wire' = Tail(wire)
    /\ LET r == Head(wire) IN
       fs' = IF fs.on /\ IsBuy(r.no) /\ r.no = fs.buy
             THEN [fs EXCEPT !.bought = @ + r.qty]
             ELSE IF fs.on /\ ~IsBuy(r.no) /\ r.no \in {fs.sell, fs.cancel}
             THEN [fs EXCEPT !.sold = @ + r.qty]
             ELSE fs
    /\ UNCHANGED <<brokerVars, faults, bootNo, poolVars, shadow, threadVars>>

-----------------------------------------------------------------------------
(***************************************************************************)
(* The thread: execute_fast_track_scalp_v2.                                *)
(***************************************************************************)

\* Its finally block.  A deletion of the row that raises leaves the state in
\* place whatever cleanup says.
Finally(entered, cleanup) ==
    /\ pc' = "none" /\ real' = 0 /\ rem' = 0 /\ res' = 0
    /\ blocked' = (blocked \/ entered)
    /\ armed' = FALSE
    /\ \/ /\ armedRow' = FALSE /\ UNCHANGED faults
          /\ fs' = IF cleanup THEN NoTrack ELSE fs
       \/ /\ Fault
          /\ UNCHANGED <<armedRow, fs>>

\* Trading is paused: the state is dropped.  Any other refusal (price, AI,
\* deposit, latency, an exception) leaves the state where it is.
Decline ==
    /\ pc = "decide"
    /\ \/ shadow' = "WATCHING" /\ Finally(FALSE, TRUE)
       \/ shadow' \in {"WATCHING", "EXPIRED"} /\ Finally(FALSE, FALSE)
    /\ UNCHANGED <<brokerVars, wire, bootNo>>

SendBuy ==
    /\ pc = "decide"
    /\ \E ok \in BOOLEAN :
          /\ Send("BUY", ReqQty, ok, res')
          /\ pc' = IF ok THEN "bindBuy" ELSE "failed"
    /\ UNCHANGED <<wire, bootNo, poolVars, fs, shadow, real, rem>>

BuyFailed ==
    /\ pc = "failed"
    /\ shadow' = "EXPIRED"
    /\ Finally(FALSE, FALSE)
    /\ UNCHANGED <<brokerVars, wire, bootNo>>

\* The number is stored: from here on its reports are counted, none if it
\* is blank.
BindBuy ==
    /\ pc = "bindBuy" /\ pc' = "wait"
    /\ fs' = [fs EXCEPT !.buy = res]
    /\ shadow' = "BUY_ORDERED"
    /\ res' = 0
    /\ UNCHANGED <<brokerVars, wire, faults, bootNo, poolVars, real, rem>>

\* All is filled, or 20 s are over: real_buy_qty is read.
EndWait ==
    /\ pc = "wait"
    /\ real' = fs.bought
    /\ pc' = IF fs.bought = 0 THEN "cancelAll"
             ELSE IF fs.bought < ReqQty THEN "cancelRest" ELSE "hold"
    /\ UNCHANGED <<brokerVars, wire, faults, bootNo, poolVars, fs, shadow, rem, res>>

\* Nothing was counted: the order is cancelled if it has a number, and
\* whatever the broker answers the track ends.
CancelAll ==
    /\ pc = "cancelAll" /\ pc' = "noEntry"
    /\ \E ok \in BOOLEAN : Cancel(fs.buy, ok)
    /\ UNCHANGED <<wire, bootNo, poolVars, fs, shadow, real, rem, res>>

\* Mutant: the thread's own status is written to the row.
EndWithoutEntryCancelled ==
    /\ pc = "noEntry"
    /\ shadow' = "CANCELLED"
    /\ Finally(FALSE, TRUE)
    /\ UNCHANGED <<brokerVars, wire, bootNo>>

EndWithoutEntry ==
    /\ pc = "noEntry"
    /\ shadow' = "EXPIRED"
    /\ Finally(FALSE, TRUE)
    /\ UNCHANGED <<brokerVars, wire, bootNo>>

\* A part was counted: the rest is cancelled, whatever the answer.
CancelRest ==
    /\ pc = "cancelRest" /\ pc' = "hold"
    /\ \E ok \in BOOLEAN : Cancel(fs.buy, ok)
    /\ UNCHANGED <<wire, bootNo, poolVars, fs, shadow, real, rem, res>>

\* Status HOLDING, then the take-profit for real_buy_qty.
SendTakeProfit ==
    /\ pc = "hold"
    /\ shadow' = "HOLDING"
    /\ \E ok \in BOOLEAN :
          /\ Send("TP", real, ok, res')
          /\ pc' = IF ok THEN "bindSell" ELSE "reloadNow"
    /\ UNCHANGED <<wire, bootNo, poolVars, fs, real, rem>>

Left == IF fs.bought > fs.sold THEN fs.bought - fs.sold ELSE 0

\* _confirm_s15_cancel_or_reload_remaining: the counts, when they say all is
\* sold, else the account's quantity, else (no such stock, or no answer) the
\* counts again.
Reload ==
    \/ Left = 0 /\ rem' = 0
    \/ Left > 0 /\ held > 0 /\ rem' = held
    \/ Left > 0 /\ rem' = Left

\* The take-profit was refused: sell at once what is left.
ReloadNow ==
    /\ pc = "reloadNow"
    /\ Reload
    /\ pc' = IF rem' = 0 THEN "bindSell" ELSE "sellNow"
    /\ UNCHANGED <<brokerVars, wire, faults, bootNo, poolVars, fs, shadow, real, res>>

\* The emergency order's number is stored, and the next statement replaces
\* it by the refused take-profit's, which is blank.
SellNow ==
    /\ pc = "sellNow"
    /\ \E ok \in BOOLEAN :
          /\ Send("IOC", rem, ok, res')
          /\ pc' = IF ok THEN "bindNow" ELSE "bindSell"
    /\ rem' = 0
    /\ UNCHANGED <<wire, bootNo, poolVars, fs, shadow, real>>

BindNow ==
    /\ pc = "bindNow" /\ pc' = "bindSell"
    /\ fs' = [fs EXCEPT !.sell = res]
    /\ res' = 0
    /\ UNCHANGED <<brokerVars, wire, faults, bootNo, poolVars, shadow, real, rem>>

BindSell ==
    /\ pc = "bindSell" /\ pc' = "watch"
    /\ fs' = [fs EXCEPT !.sell = res]
    /\ res' = 0
    /\ UNCHANGED <<brokerVars, wire, faults, bootNo, poolVars, shadow, real, rem>>

SoldOut == fs.sold >= fs.bought /\ fs.bought > 0

WatchDone ==
    /\ pc = "watch" /\ SoldOut
    /\ pc' = "done"
    /\ UNCHANGED <<brokerVars, wire, faults, bootNo, poolVars, fs, shadow, real, rem,
                   res>>

\* The stop: the take-profit is cancelled if its number is known ...
Stop ==
    /\ pc = "watch" /\ pc' = "reload"
    /\ \E ok \in BOOLEAN :
          /\ IF fs.sell = 0
             THEN ~ok /\ UNCHANGED <<brokerVars, faults>>
             ELSE Cancel(fs.sell, ok)
          /\ res' = IF ok THEN fs.sell ELSE 0
    /\ UNCHANGED <<wire, bootNo, poolVars, fs, shadow, real, rem>>

\* Mutant: only a confirmed cancel is followed by the reload.
StopReloadConfirmed ==
    /\ pc = "reload" /\ res # 0
    /\ fs' = [fs EXCEPT !.cancel = res]
    /\ Reload
    /\ pc' = IF rem' = 0 THEN "stopped" ELSE "sellStop"
    /\ res' = 0
    /\ UNCHANGED <<brokerVars, wire, faults, bootNo, poolVars, shadow, real>>

\* ... its late fills stay claimable once the cancel is confirmed, and what
\* is left is read anew ...
StopReload ==
    /\ pc = "reload"
    /\ fs' = IF res = 0 THEN fs ELSE [fs EXCEPT !.cancel = res]
    /\ Reload
    /\ pc' = IF rem' = 0 THEN "stopped" ELSE "sellStop"
    /\ res' = 0
    /\ UNCHANGED <<brokerVars, wire, faults, bootNo, poolVars, shadow, real>>

\* ... and sold at once; nobody waits for the result.
StopSell ==
    /\ pc = "sellStop" /\ pc' = "bindStop"
    /\ \E ok \in BOOLEAN : Send("IOC", rem, ok, res')
    /\ rem' = 0
    /\ UNCHANGED <<wire, bootNo, poolVars, fs, shadow, real>>

\* A blank number, refused or not, leaves the one that is there.
BindStop ==
    /\ pc = "bindStop" /\ pc' = "stopped"
    /\ fs' = IF res = 0 THEN fs ELSE [fs EXCEPT !.sell = res]
    /\ res' = 0
    /\ UNCHANGED <<brokerVars, wire, faults, bootNo, poolVars, shadow, real, rem>>

\* Mutant: the finally block drops the state whatever happened.
CompleteAndForget ==
    /\ pc \in {"done", "stopped"}
    /\ shadow' = "COMPLETED"
    /\ Finally(TRUE, TRUE)
    /\ UNCHANGED <<brokerVars, wire, bootNo>>

\* Mutant: the re-entry block is forgotten.
CompleteUnblocked ==
    /\ pc \in {"done", "stopped"}
    /\ shadow' = "COMPLETED"
    /\ Finally(FALSE, pc = "done")
    /\ UNCHANGED <<brokerVars, wire, bootNo>>

\* The row is COMPLETED and re-entry blocked; only a track that saw every
\* counted share sold drops its state.
Complete ==
    /\ pc \in {"done", "stopped"}
    /\ shadow' = "COMPLETED"
    /\ Finally(TRUE, pc = "done")
    /\ UNCHANGED <<brokerVars, wire, bootNo>>

\* A price cannot be read or computed, after the entry was counted: the thread
\* ends where it is.  (Requests and row updates catch their own exceptions.)
Raise ==
    /\ pc \in {"hold", "watch", "done", "stopped"}
    /\ shadow' = "EXPIRED"
    /\ Finally(TRUE, pc = "done")
    /\ UNCHANGED <<brokerVars, wire, bootNo>>

-----------------------------------------------------------------------------
\* The process restarts: only the rows survive, and
\* _restore_armed_candidates_from_db arms the code again.
Restart ==
    /\ Fault
    /\ fs' = NoTrack /\ blocked' = FALSE
    /\ armed' = armedRow
    /\ pc' = "none" /\ real' = 0 /\ rem' = 0 /\ res' = 0
    /\ wire' = <<>> /\ bootNo' = nextNo
    /\ UNCHANGED <<brokerVars, armedRow, shadow>>

BrokerStep ==
    \E o \in OrdNos : Lapse(o) \/ \E q \in 1..ReqQty : Fill(o, q)

ThreadStep ==
    \/ Decline \/ SendBuy \/ BuyFailed \/ BindBuy \/ EndWait
    \/ CancelAll \/ EndWithoutEntry \/ CancelRest
    \/ SendTakeProfit \/ ReloadNow \/ SellNow \/ BindNow \/ BindSell
    \/ StopReload \/ StopSell \/ BindStop \/ WatchDone \/ Complete

Next ==
    \/ BrokerStep
    \/ Arm \/ Unarm \/ Trigger \/ TakeReport
    \/ ThreadStep \/ Stop \/ Raise
    \/ Restart

Spec == Init /\ [][Next]_vars

\* The thread and the dispatcher keep running.  The stop is the market's.
FairSpec == Spec /\ WF_vars(ThreadStep) /\ WF_vars(TakeReport)
-----------------------------------------------------------------------------
TypeOK ==
    /\ nextNo \in 1..(MaxOrders + 1) /\ bootNo \in 1..(MaxOrders + 1)
    /\ kind \in [OrdNos -> {"NONE", "BUY", "TP", "IOC"}]
    /\ todo \in [OrdNos -> Nat] /\ done \in [OrdNos -> Nat]
    /\ live \in [OrdNos -> BOOLEAN]
    /\ held \in Nat /\ free \in Nat
    /\ wire \in Seq([no : OrdNos, qty : Nat \ {0}, upTo : Nat])
    /\ faults \in 0..MaxFaults
    /\ armed \in BOOLEAN /\ armedRow \in BOOLEAN /\ blocked \in BOOLEAN
    /\ fs \in [on : BOOLEAN, buy : 0..MaxOrders, sell : 0..MaxOrders,
               cancel : 0..MaxOrders, bought : Nat, sold : Nat]
    /\ shadow \in {"NONE", "WATCHING", "BUY_ORDERED", "HOLDING", "EXPIRED",
                   "COMPLETED"}
    /\ pc \in {"none", "decide", "failed", "bindBuy", "wait", "cancelAll",
               "noEntry", "cancelRest", "hold", "reloadNow", "sellNow",
               "bindNow", "bindSell", "watch", "done", "reload", "sellStop",
               "bindStop", "stopped"}
    /\ real \in Nat /\ rem \in Nat /\ res \in 0..MaxOrders

\* A track counts a fill at most once, and only fills of its own entry: a
\* report of an earlier track's order, late or not, is never its purchase.
CountedOnce ==
    /\ fs.buy = 0 => fs.bought = 0
    /\ fs.buy # 0 => fs.bought <= done[fs.buy]
    /\ fs.on /\ fs.buy # 0 => fs.buy >= bootNo

\* A track that took its entry as real_buy_qty shares is dropped only when
\* it has seen as many sold, whatever fails on the way (the take-profit
\* refused, the stop's cancel unconfirmed, the IOC refused).
FailedExitKeepsTrack ==
    [][ ~Restart /\ fs.on /\ real > 0 /\ ~fs'.on => fs.sold >= real ]_vars

\* As long as the process lives, a code whose track reached its exit is not
\* bought again: the state left behind or the re-entry block forbids it,
\* however the conditions arm and shoot.
OneEntry ==
    [][ pc = "decide" /\ nextNo' # nextNo
        => \A o \in bootNo..(nextNo - 1) : kind[o] = "BUY" ]_vars

\* A thread never hangs: it ends, or it watches a price with shares unsold.
TrackEnds ==
    pc # "none" ~> (pc = "none" \/ (pc = "watch" /\ ~SoldOut))
=============================================================================
