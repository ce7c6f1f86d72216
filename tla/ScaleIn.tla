------------------------------ MODULE ScaleIn ------------------------------
(***************************************************************************)
(* Add-buys (averaging down, pyramiding) of a HOLDING target without a     *)
(* preset take-profit.  handle_holding_state asks can_consider_scale_in,   *)
(* which first gives up an add that is too old, and execute_scale_in_order *)
(* sends one BUY order whose pending_add fields live in memory only.       *)
(* Its fills are matched by order number; a cancel that may have come too  *)
(* late locks further adds until an account sync compared quantities.      *)
(*                                                                         *)
(* The exit and the next entry appear as far as they touch the same        *)
(* record; TradeLifecycle has their steps.                                 *)
(***************************************************************************)
EXTENDS Naturals, Sequences, FiniteSets

CONSTANTS
    MaxOrders,      \* bound: order numbers the broker hands out
    MaxQty,         \* bound: shares of an add-buy
    MaxFaults       \* bound: replies lost, commits failed, engine restarts

ASSUME ScaleInAssumption ==
    /\ MaxOrders \in Nat \ {0}
    /\ MaxQty \in Nat \ {0} /\ MaxFaults \in Nat

OrdNos == 1..MaxOrders

VARIABLES
    \* the broker and the account
    nextNo,
    kind,       \* kind[o]: "ADD" or "EXIT", "NONE" before o exists
    todo,       \* todo[o]: shares of o that are not filled
    live,       \* live[o]: o is working
    held,       \* shares in the account
    wire,       \* fills that are not handled yet, oldest first; left is
                \* history, the shares of the order still to fill by then
    \* the record in memory
    status,
    bq,         \* stock['buy_qty']
    pend,       \* stock['pending_add_*']
    locked,     \* stock['scale_in_locked']
    addCount,   \* stock['add_count']
    \* its row
    rowQty, rowLocked, rowCount,
    \* the main loop: its next step, the reply it got
    pc, got,
    \* the account sync: the quantity it read, 0 when it has none
    snap,
    \* faults so far
    faults,
    \* (history) orders memory cannot know: reply lost or engine restarted
    unknown,
    \* (history) add-buys with a fill taken for one
    filledAdds

brokerVars == <<nextNo, kind, todo, live, held>>
recordVars == <<status, bq, pend, locked, addCount>>
rowVars == <<rowQty, rowLocked, rowCount>>
mainVars == <<pc, got>>
history == <<faults, unknown, filledAdds>>
known == <<unknown, filledAdds>>
vars == <<brokerVars, wire, recordVars, rowVars, mainVars, snap, history>>

NoAdd == [on |-> FALSE, no |-> 0, qty |-> 0, filled |-> 0, counted |-> FALSE]
\* Something fails that may fail at any time.
Fault == faults < MaxFaults /\ faults' = faults + 1

NoReply == [no |-> 0, qty |-> 0]

Init ==
    /\ nextNo = 1
    /\ kind = [o \in OrdNos |-> "NONE"]
    /\ todo = [o \in OrdNos |-> 0]
    /\ live = [o \in OrdNos |-> FALSE]
    /\ held = 1 /\ wire = <<>>
    /\ status = "HOLDING" /\ bq = 1 /\ pend = NoAdd
    /\ locked = FALSE /\ addCount = 0
    /\ rowQty = 1 /\ rowLocked = FALSE /\ rowCount = 0
    /\ pc = "idle" /\ got = NoReply
    /\ snap = 0
    /\ faults = 0 /\ unknown = {} /\ filledAdds = {}

-----------------------------------------------------------------------------
(***************************************************************************)
(* The broker.                                                             *)
(***************************************************************************)

Accept(k, q) ==
    /\ nextNo <= MaxOrders
    /\ nextNo' = nextNo + 1
    /\ kind' = [kind EXCEPT ![nextNo] = k]
    /\ todo' = [todo EXCEPT ![nextNo] = q]
    /\ live' = [live EXCEPT ![nextNo] = TRUE]
    /\ UNCHANGED held

\* q more shares of an add-buy are filled, or an exit is filled as a whole.
Fill(o, q) ==
    /\ live[o]
    /\ IF kind[o] = "EXIT" THEN q = todo[o] /\ q <= held ELSE q <= todo[o]
    /\ todo' = [todo EXCEPT ![o] = @ - q]
    /\ live' = [live EXCEPT ![o] = q < todo[o]]
    /\ held' = IF kind[o] = "EXIT" THEN held - q ELSE held + q
    /\ wire' = Append(wire, [no |-> o, qty |-> q, left |-> todo'[o]])
    /\ UNCHANGED <<nextNo, kind, recordVars, rowVars, mainVars, snap, history>>

Close(o) ==
    /\ live[o]
    /\ live' = [live EXCEPT ![o] = FALSE]
    /\ UNCHANGED <<nextNo, kind, todo, held>>

-----------------------------------------------------------------------------
(***************************************************************************)
(* The main loop: an add-buy.                                              *)
(***************************************************************************)

\* can_consider_scale_in, and the request execute_scale_in_order makes.  The
\* reply may lack the number; lost or refused, nothing is remembered.
SendAdd ==
    /\ pc = "idle" /\ status = "HOLDING"
    /\ bq > 0 /\ ~locked /\ ~pend.on
    /\ \E q \in 1..MaxQty :
        /\ Accept("ADD", q)
        /\ \/ pc' = "stage" /\ got' = [no |-> nextNo, qty |-> q] /\ UNCHANGED unknown
           \/ pc' = "stage" /\ got' = [no |-> 0, qty |-> q]
              /\ unknown' = unknown \cup {nextNo}
           \/ UNCHANGED mainVars /\ unknown' = unknown \cup {nextNo}
    /\ IF pc' = "stage" THEN UNCHANGED faults ELSE Fault
    /\ UNCHANGED <<wire, recordVars, rowVars, snap, filledAdds>>

\* Only then are the pending_add_* fields set, which a report that was
\* faster does not find.
StageAdd ==
    /\ pc = "stage"
    /\ pend' = [pend EXCEPT !.on = TRUE, !.no = got.no, !.qty = got.qty]
    /\ pc' = "idle" /\ got' = NoReply
    /\ UNCHANGED <<brokerVars, wire, status, bq, locked, addCount, rowVars,
                   snap, history>>

\* _persist_scale_in_flags, whose failure is only logged.
PersistLock ==
    \/ rowLocked' = TRUE /\ UNCHANGED faults
    \/ Fault /\ UNCHANGED rowLocked

\* _cancel_or_reconcile_pending_add of an add without a number: it is
\* forgotten and further adds are locked.
DropUnnumbered ==
    /\ pc = "idle" /\ status = "HOLDING" /\ pend.on /\ pend.no = 0
    /\ locked' = TRUE /\ pend' = NoAdd
    /\ PersistLock
    /\ UNCHANGED <<brokerVars, wire, status, bq, addCount, rowQty, rowCount,
                   mainVars, snap, known>>

\* (mutant) The add is given up whatever the broker answers.
CancelAddUnchecked ==
    /\ pc = "idle" /\ status = "HOLDING" /\ pend.on /\ pend.no # 0
    /\ \/ Close(pend.no) /\ pc' = "cancelled"
       \/ pc' = "uncertain" /\ UNCHANGED brokerVars
    /\ UNCHANGED <<wire, recordVars, rowVars, got, snap, history>>

\* (mutant) "Nothing to cancel" is an error like any other.
CancelAddUnresolved ==
    /\ pc = "idle" /\ status = "HOLDING" /\ pend.on /\ pend.no # 0
    /\ \/ Close(pend.no) /\ pc' = "cancelled"
       \/ pc' = "idle" /\ UNCHANGED brokerVars
    /\ UNCHANGED <<wire, recordVars, rowVars, got, snap, history>>

\* ... of one that is too old: its cancel is confirmed, refused because
\* nothing is left to cancel, or fails; then the add stays pending.
CancelAdd ==
    /\ pc = "idle" /\ status = "HOLDING" /\ pend.on /\ pend.no # 0
    /\ \/ Close(pend.no) /\ pc' = "cancelled" /\ UNCHANGED faults
       \/ Close(pend.no) /\ pc' = "idle" /\ Fault
       \/ ~live[pend.no] /\ pc' = "uncertain" /\ UNCHANGED <<brokerVars, faults>>
       \/ pc' = "idle" /\ UNCHANGED brokerVars /\ Fault
    /\ UNCHANGED <<wire, recordVars, rowVars, got, snap, known>>

\* ... without a token nothing is asked: adds are locked, this one stays.
CancelAddBlocked ==
    /\ pc = "idle" /\ status = "HOLDING" /\ pend.on /\ pend.no # 0
    /\ Fault
    /\ locked' = TRUE /\ rowLocked' \in {rowLocked, TRUE}
    /\ UNCHANGED <<brokerVars, wire, status, bq, pend, addCount, rowQty, rowCount,
                   mainVars, snap, known>>

ClearCancelled ==
    /\ pc = "cancelled"
    /\ pend' = NoAdd /\ pc' = "idle"
    /\ UNCHANGED <<brokerVars, wire, status, bq, locked, addCount, rowVars, got,
                   snap, history>>

ClearUncertain ==
    /\ pc = "uncertain"
    /\ pend' = NoAdd /\ locked' = TRUE /\ pc' = "idle"
    /\ PersistLock
    /\ UNCHANGED <<brokerVars, wire, status, bq, addCount, rowQty, rowCount, got,
                   snap, known>>

-----------------------------------------------------------------------------
(***************************************************************************)
(* The exit and the next entry, neither of which looks at the add.         *)
(***************************************************************************)

SendExit ==
    /\ pc = "idle" /\ status = "HOLDING" /\ bq > 0 /\ bq <= held
    /\ Accept("EXIT", bq)
    /\ status' = "SELL_ORDERED"
    /\ UNCHANGED <<wire, bq, pend, locked, addCount, rowVars, mainVars, snap,
                   history>>

\* (mutant) A status the routing of the main loop does not know.
ExitTimeoutAsSold ==
    /\ pc = "idle" /\ status = "SELL_ORDERED"
    /\ \A o \in OrdNos : live[o] => kind[o] # "EXIT"
    /\ status' = "SOLD"
    /\ UNCHANGED <<brokerVars, wire, bq, pend, locked, addCount, rowVars,
                   mainVars, snap, history>>

ExitTimeout ==
    /\ pc = "idle" /\ status = "SELL_ORDERED"
    /\ \/ \E o \in OrdNos : kind[o] = "EXIT" /\ Close(o) /\ status' = "HOLDING"
       \/ /\ \A o \in OrdNos : live[o] => kind[o] # "EXIT"
          /\ status' = "COMPLETED"
          /\ UNCHANGED brokerVars
    /\ UNCHANGED <<wire, bq, pend, locked, addCount, rowVars, mainVars, snap,
                   history>>

\* A revived target enters again: one share is bought and reported.
EnterAgain ==
    /\ pc = "idle" /\ status = "WATCHING" /\ nextNo <= MaxOrders
    /\ nextNo' = nextNo + 1 /\ held' = held + 1
    /\ status' = "HOLDING" /\ bq' = bq + 1 /\ rowQty' = bq + 1
    /\ UNCHANGED <<kind, todo, live, wire, pend, locked, addCount, rowLocked,
                   rowCount, mainVars, snap, history>>

-----------------------------------------------------------------------------
(***************************************************************************)
(* The dispatcher thread: fills.                                           *)
(***************************************************************************)

Take(r) ==
    /\ wire # <<>>
    /\ r = Head(wire) /\ wire' = Tail(wire)

Matches(r) == pend.on /\ pend.no = r.no

\* _find_execution_target falls back on the only HOLDING target with an add.
Guessed(r) == pend.on /\ pend.no # r.no /\ status = "HOLDING"

\* _update_db_for_add, in the same thread; a failure is only logged.
WriteRow ==
    \/ /\ rowQty' = bq' /\ rowLocked' = locked' /\ rowCount' = addCount'
       /\ UNCHANGED faults
    \/ Fault /\ UNCHANGED rowVars

\* (mutant) Every partial fill counts.
AddReportCountsFills(r) ==
    /\ Take(r) /\ kind[r.no] = "ADD" /\ status # "DROPPED" /\ Matches(r)
    /\ status' = "HOLDING" /\ bq' = bq + r.qty
    /\ addCount' = addCount + 1
    /\ filledAdds' = filledAdds \cup {r.no}
    /\ pend' = IF pend.filled + r.qty >= pend.qty THEN NoAdd
               ELSE [pend EXCEPT !.filled = @ + r.qty]
    /\ UNCHANGED locked
    /\ WriteRow
    /\ UNCHANGED <<brokerVars, mainVars, snap, unknown>>

\* _handle_add_buy_execution: whatever the status was it is HOLDING now, the
\* order counts once, and its last share clears it.  When the protective
\* prices cannot be set, adds are locked.
AddReport(r) ==
    /\ Take(r) /\ kind[r.no] = "ADD" /\ status # "DROPPED" /\ Matches(r)
    /\ status' = "HOLDING" /\ bq' = bq + r.qty
    /\ addCount' = IF pend.counted THEN addCount ELSE addCount + 1
    /\ filledAdds' = filledAdds \cup {r.no}
    /\ pend' = IF pend.filled + r.qty >= pend.qty THEN NoAdd
               ELSE [pend EXCEPT !.filled = @ + r.qty, !.counted = TRUE]
    /\ locked' \in {locked, TRUE}
    /\ WriteRow
    /\ UNCHANGED <<brokerVars, mainVars, snap, unknown>>

\* With another number it is taken for a fill of the entry.
AddReportAsEntry(r) ==
    /\ Take(r) /\ kind[r.no] = "ADD" /\ Guessed(r)
    /\ bq' = bq + r.qty
    /\ \/ rowQty' = bq' /\ UNCHANGED faults
       \/ Fault /\ UNCHANGED rowQty
    /\ UNCHANGED <<brokerVars, status, pend, locked, addCount, rowLocked,
                   rowCount, mainVars, snap, known>>

\* A revived target gets a new row, which knows of no lock and no adds;
\* memory keeps both, and the add that may be pending.
SellReport(r) ==
    /\ Take(r) /\ kind[r.no] = "EXIT" /\ status = "SELL_ORDERED"
    /\ \/ /\ status' = "WATCHING" /\ bq' = 0
          /\ rowQty' = 0 /\ rowLocked' = FALSE /\ rowCount' = 0
          /\ UNCHANGED faults
       \/ status' = "COMPLETED" /\ UNCHANGED <<bq, rowVars, faults>>
       \/ Fault /\ UNCHANGED <<status, bq, rowVars>>
    /\ UNCHANGED <<brokerVars, pend, locked, addCount, mainVars, snap, known>>

\* EXEC_IGNORED.
ReportIgnored(r) ==
    /\ Take(r)
    /\ IF kind[r.no] = "EXIT" THEN status # "SELL_ORDERED"
       ELSE status = "DROPPED" \/ ~(Matches(r) \/ Guessed(r))
    /\ UNCHANGED <<brokerVars, recordVars, rowVars, mainVars, snap, history>>

-----------------------------------------------------------------------------
(***************************************************************************)
(* The account sync, the restart, the end.                                 *)
(***************************************************************************)

ReadAccount ==
    /\ snap = 0 /\ held > 0 /\ snap' = held
    /\ UNCHANGED <<brokerVars, wire, recordVars, rowVars, mainVars, history>>

\* The rows of a position in the account.
Compared == status \in {"HOLDING", "SELL_ORDERED"}

\* (mutant) Memory's flag decides whether the row is locked.
CompareByMemory ==
    /\ snap # 0 /\ Compared
    /\ bq' = IF rowQty # snap THEN snap ELSE bq
    /\ LET lift == locked /\ ~pend.on
       IN  /\ locked' = (locked /\ ~lift)
           /\ \/ /\ rowQty' = snap /\ rowLocked' = (rowLocked /\ ~lift)
                 /\ UNCHANGED faults
              \/ Fault /\ UNCHANGED <<rowQty, rowLocked>>
    /\ snap' = 0
    /\ UNCHANGED <<brokerVars, wire, status, pend, addCount, rowCount, mainVars,
                   known>>

\* periodic_account_sync, an exit under way or not: row and memory take the
\* account's quantity when the row's differs, and _reconcile_scale_in_lock,
\* which then finds row and account equal, lifts the lock unless an add is
\* pending.  Memory is changed at once, the row with the commit.
Compare ==
    /\ snap # 0 /\ Compared
    /\ bq' = IF rowQty # snap THEN snap ELSE bq
    /\ LET lift == rowLocked /\ ~pend.on
       IN  /\ locked' = (locked /\ ~lift)
           /\ \/ /\ rowQty' = snap /\ rowLocked' = (rowLocked /\ ~lift)
                 /\ UNCHANGED faults
              \/ Fault /\ UNCHANGED <<rowQty, rowLocked>>
    /\ snap' = 0
    /\ UNCHANGED <<brokerVars, wire, status, pend, addCount, rowCount, mainVars,
                   known>>

\* The row is none of those: nothing to compare.
SkipCompare ==
    /\ snap # 0 /\ ~Compared /\ snap' = 0
    /\ UNCHANGED <<brokerVars, wire, recordVars, rowVars, mainVars, history>>

\* The target is read from its row, without the pending_add_* fields; what
\* was on the wire is lost.
Restart ==
    /\ Fault
    /\ status \in {"HOLDING", "SELL_ORDERED", "WATCHING"}
    /\ bq' = rowQty /\ locked' = rowLocked /\ pend' = NoAdd
    /\ pc' = "idle" /\ got' = NoReply /\ snap' = 0 /\ wire' = <<>>
    /\ addCount' = rowCount
    /\ unknown' = unknown \cup {o \in OrdNos : kind[o] = "ADD"}
    /\ UNCHANGED <<brokerVars, status, rowVars, filledAdds>>

Prune ==
    /\ pc = "idle" /\ status = "COMPLETED" /\ status' = "DROPPED"
    /\ UNCHANGED <<brokerVars, wire, bq, pend, locked, addCount, rowVars,
                   mainVars, snap, history>>

-----------------------------------------------------------------------------
Broker == \E o \in OrdNos : \E q \in 1..todo[o] : Fill(o, q)

\* The add is given up for good.
GiveUp == DropUnnumbered \/ (CancelAdd /\ pc' # "idle")

MainLoop ==
    \/ SendAdd \/ StageAdd \/ DropUnnumbered \/ CancelAdd \/ CancelAddBlocked
    \/ ClearCancelled \/ ClearUncertain
    \/ SendExit \/ ExitTimeout \/ EnterAgain \/ Prune

Reports ==
    \E r \in {wire[i] : i \in DOMAIN wire} :
        \/ AddReport(r) \/ AddReportAsEntry(r) \/ SellReport(r)
        \/ ReportIgnored(r)

Sync == ReadAccount \/ Compare \/ SkipCompare

Next == Broker \/ MainLoop \/ Reports \/ Sync \/ Restart

Spec == Init /\ [][Next]_vars

\* The main loop finishes what it began, times an exit out, and asks about a
\* pending add again and again until its cancel is answered; the dispatcher
\* drains its queue; the sync is periodic.
Fairness ==
    /\ WF_vars(StageAdd \/ ClearCancelled \/ ClearUncertain)
    /\ WF_vars(ExitTimeout)
    /\ SF_vars(GiveUp)
    /\ WF_vars(Reports)
    /\ WF_vars(Sync)

FairSpec == Spec /\ Fairness

-----------------------------------------------------------------------------
(***************************************************************************)
(* Properties.                                                             *)
(***************************************************************************)

\* Every variable has its type.
TypeOK ==
    /\ nextNo \in 1..(MaxOrders + 1)
    /\ kind \in [OrdNos -> {"NONE", "ADD", "EXIT"}]
    /\ todo \in [OrdNos -> Nat] /\ live \in [OrdNos -> BOOLEAN]
    /\ held \in Nat
    /\ wire \in Seq([no : OrdNos, qty : Nat, left : Nat])
    /\ status \in {"WATCHING", "HOLDING", "SELL_ORDERED", "COMPLETED", "DROPPED"}
    /\ bq \in Nat /\ locked \in BOOLEAN /\ addCount \in Nat
    /\ pend \in [on : BOOLEAN, no : OrdNos \cup {0}, qty : 0..MaxQty,
                 filled : 0..MaxQty, counted : BOOLEAN]
    /\ rowQty \in Nat /\ rowLocked \in BOOLEAN /\ rowCount \in Nat
    /\ pc \in {"idle", "stage", "cancelled", "uncertain"}
    /\ got \in [no : OrdNos \cup {0}, qty : 0..MaxQty]
    /\ snap \in Nat
    /\ faults \in 0..MaxFaults
    /\ unknown \subseteq OrdNos /\ filledAdds \subseteq OrdNos

\* At most one add-buy the engine can know of works at the broker, and it is
\* the one memory has the number of: whatever exits, revivals, failed cancels
\* and partial fills come in between, memory does not let go of an add that
\* could still be filled, so none is sent beside it.
OneAdd ==
    \A o \in OrdNos :
        live[o] /\ kind[o] = "ADD" /\ o \notin unknown =>
            \/ pc = "stage" /\ got.no = o
            \/ pend.on /\ pend.no = o

\* add_count, which limits the adds of a position, never counts an order
\* twice, however many fills it has and whatever happens between them.
AddCountedOnce == addCount <= Cardinality(filledAdds)

\* A pending add does not block the target's further adds for ever: it is
\* filled, cancelled or given up, unless its position ends before.
PendingEnds ==
    pend.on ~> ~pend.on \/ status \in {"WATCHING", "COMPLETED", "DROPPED"}

\* While the account is compared again and again a row's lock is lifted.
RowLockEnds ==
    rowLocked ~> \/ ~rowLocked
                 \/ held = 0 \/ status \in {"WATCHING", "COMPLETED", "DROPPED"}
=============================================================================
