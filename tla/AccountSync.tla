---------------------------- MODULE AccountSync ----------------------------
(***************************************************************************)
(* The account synchronisation of sniper_sync.py, for one stock code: it   *)
(* asks the broker for the balance, then compares it with the database     *)
(* rows and the targets in memory, while the engine goes on trading and    *)
(* execution reports come in, late or not at all.                          *)
(*                                                                         *)
(* Three entry points: sync_balance_with_db when the engine starts,        *)
(* sync_state_with_broker when the WebSocket is back, and                  *)
(* periodic_account_sync every 90 s in an executor of its own.  Each works *)
(* in steps: the balance request, the rows that hold shares, the rows that *)
(* wait for some, the holdings nobody tracks, the commit.  The session     *)
(* writes nothing before its commit (autoflush is off) while memory is     *)
(* changed at once.                                                        *)
(*                                                                         *)
(* The trading side is the summary of TradeLifecycle these steps can tell  *)
(* apart: its requests are answered, and a row is written with the target. *)
(***************************************************************************)
EXTENDS Integers, Sequences, FiniteSets

CONSTANTS
    Lot,            \* shares in one entry order
    MaxHeld,        \* bound: shares of the code in the account
    MaxRows,        \* bound: database rows of the code
    MaxOutside,     \* bound: trades of the account's owner
    MaxRestarts,    \* bound: restarts of the engine
    Overnight,      \* TRUE: the engine may be started again on a later day
    Nxt,            \* TRUE: the code trades on NXT as well as on KRX
    SimBook,        \* TRUE: the scalping simulator opens positions
    DbFaults        \* TRUE: a query or a commit may fail

ASSUME SyncAssumption ==
    /\ Lot \in Nat \ {0}
    /\ MaxHeld \in Nat
    /\ MaxRows \in Nat \ {0}
    /\ MaxOutside \in Nat
    /\ MaxRestarts \in Nat
    /\ Overnight \in BOOLEAN
    /\ Nxt \in BOOLEAN /\ SimBook \in BOOLEAN /\ DbFaults \in BOOLEAN

RowIds == 1..MaxRows
Exchanges == {"KRX", "NXT"}
Kinds == {"startup", "reconnect", "periodic"}
Statuses == {"WATCHING", "BUY_ORDERED", "HOLDING", "SELL_ORDERED", "COMPLETED",
             "EXPIRED"}
Tracked == {"HOLDING", "SELL_ORDERED", "BUY_ORDERED"}

Keep == -1              \* an update that leaves the quantity alone
Clean == [st |-> "KEEP", qty |-> Keep]
NoOrder == [side |-> "NONE", left |-> 0]
NoTarget == [st |-> "NONE", qty |-> 0, row |-> 0]
NoRow == [st |-> "VOID", qty |-> 0, old |-> FALSE]

VARIABLES
    \* the account and its one working order
    held,       \* shares of the code
    order,      \* [side, left]: the order, left > 0 while it works
    reports,    \* execution reports on their way, oldest first
    outside,    \* trades the owner made
    \* the engine
    up,         \* the loop of run_sniper is running
    restarts,
    real,       \* the code's target in ACTIVE_TARGETS, NoTarget if none
    sim,        \* the simulator's target of the code in ACTIVE_TARGETS
    simFirst,   \* it comes before the real one in the list
    book,       \* its status in the simulator's state file, NONE if closed
    sending,    \* an entry order is at the broker and not yet staged
    known,      \* memory has the number of the working order
    \* the database
    rows,       \* rows of the code by id, VOID while there is none
    lastRow,    \* the last id used
    \* the synchronisation
    pc, kind, answered, snap, sess,
    \* history, for the properties only
    heldThen,   \* what the account held when the balance was read
    quiet       \* nothing but the synchronisation took a step since

accountVars == <<held, order, reports, outside>>
engineVars == <<up, restarts, real, sim, simFirst, book, sending, known>>
dbVars == <<rows, lastRow>>
syncVars == <<pc, kind, answered, snap, sess, heldThen>>
vars == <<accountVars, engineVars, dbVars, syncVars, quiet>>

TargetType == [st : Statuses \cup {"NONE", "PENDING"}, qty : Nat, row : 0..MaxRows]
RowType == [st : Statuses \cup {"VOID"}, qty : Nat, old : BOOLEAN]
Update == [st : Statuses \cup {"KEEP"}, qty : Nat \cup {Keep}]

AccountTyped ==
    /\ held \in 0..MaxHeld
    /\ order \in [side : {"NONE", "BUY", "SELL"}, left : Nat]
    /\ reports \in Seq({"BUY", "SELL"})
    /\ outside \in 0..MaxOutside
EngineTyped ==
    /\ up \in BOOLEAN /\ sending \in BOOLEAN /\ known \in BOOLEAN
    /\ restarts \in 0..MaxRestarts
    /\ real \in TargetType /\ sim \in TargetType /\ simFirst \in BOOLEAN
    /\ book \in {"NONE", "PENDING", "HOLDING"}
DbTyped ==
    /\ rows \in [RowIds -> RowType] /\ lastRow \in 0..MaxRows
SyncTyped ==
    /\ pc \in {"idle", "close", "confirm", "recover", "commit", "load"}
    /\ kind \in Kinds
    /\ answered \in SUBSET Exchanges
    /\ snap \in Nat /\ heldThen \in Nat /\ quiet \in BOOLEAN
    /\ sess \in [RowIds -> Update]
TypeOK == AccountTyped /\ EngineTyped /\ DbTyped /\ SyncTyped

\* The day starts with one row to watch and its target.
Init ==
    /\ held = 0 /\ order = NoOrder /\ reports = <<>> /\ outside = 0
    /\ up = TRUE /\ restarts = 0
    /\ real = [st |-> "WATCHING", qty |-> 0, row |-> 1]
    /\ sim = NoTarget /\ simFirst = FALSE /\ book = "NONE"
    /\ sending = FALSE /\ known = FALSE
    /\ rows = [r \in RowIds |-> IF r = 1 THEN [NoRow EXCEPT !.st = "WATCHING"]
                                         ELSE NoRow]
    /\ lastRow = 1
    /\ pc = "idle" /\ kind = "periodic" /\ answered = {} /\ snap = 0
    /\ sess = [r \in RowIds |-> Clean]
    /\ heldThen = 0 /\ quiet = FALSE

RowsIn(S) == {r \in RowIds : rows[r].st \in S}
Newest(S) == CHOOSE r \in S : \A q \in S : q <= r

\* filter_by(id=r).update(...), which does nothing when there is no such row.
SetRow(r, s, q) ==
    rows' = [i \in RowIds |->
               IF i # r \/ rows[i].st = "VOID" THEN rows[i]
               ELSE [rows[i] EXCEPT !.st = s, !.qty = IF q = Keep THEN @ ELSE q]]

-----------------------------------------------------------------------------
(***************************************************************************)
(* The account.                                                            *)
(***************************************************************************)

\* The simulator's and the outsiders' steps leave the sync alone.
Elsewhere == quiet' = FALSE /\ UNCHANGED syncVars

\* One share of the entry order is filled; a dead engine hears of nothing.
FillBuy ==
    /\ order.side = "BUY" /\ order.left > 0 /\ held < MaxHeld
    /\ held' = held + 1
    /\ order' = [order EXCEPT !.left = @ - 1]
    /\ reports' = IF up THEN Append(reports, "BUY") ELSE reports
    /\ Elsewhere /\ UNCHANGED <<outside, engineVars, dbVars>>

\* The exit order is filled, in one piece.
FillSell ==
    /\ order.side = "SELL" /\ order.left > 0
    /\ held' = held - order.left
    /\ order' = [order EXCEPT !.left = 0]
    /\ reports' = IF up THEN Append(reports, "SELL") ELSE reports
    /\ Elsewhere /\ UNCHANGED <<outside, engineVars, dbVars>>

\* The owner buys a share, or sells what no exit has reserved, by hand.
OutsideTrade ==
    /\ outside < MaxOutside /\ outside' = outside + 1
    /\ \/ held < MaxHeld /\ held' = held + 1
       \/ held > 0 /\ ~(order.side = "SELL" /\ order.left > 0) /\ held' = 0
    /\ Elsewhere /\ UNCHANGED <<order, reports, engineVars, dbVars>>

\* A report is lost, or matches no target (EXEC_IGNORED).
IgnoreReport ==
    /\ reports # <<>>
    /\ reports' = Tail(reports)
    /\ Elsewhere /\ UNCHANGED <<held, order, outside, engineVars, dbVars>>

-----------------------------------------------------------------------------
(***************************************************************************)
(* The engine: its main loop and its execution reports.                    *)
(***************************************************************************)

\* The main loop is between two handlers.
InLoop == up /\ ~sending

\* The real target and its row change together.
SetBoth(s, q) ==
    /\ real' = [real EXCEPT !.st = s, !.qty = IF q = Keep THEN @ ELSE q]
    /\ SetRow(real.row, s, q)

\* An entry order is accepted; reports of an earlier one are over (a bound).
SendBuy ==
    /\ InLoop /\ real.st = "WATCHING"
    /\ order.left = 0 /\ reports = <<>>
    /\ order' = [side |-> "BUY", left |-> Lot]
    /\ sending' = TRUE /\ known' = FALSE
    /\ Elsewhere
    /\ UNCHANGED <<held, reports, outside, up, restarts, real, sim, simFirst, book, dbVars>>

\* The order's number is stored, whatever the target became meanwhile.
StageBuy ==
    /\ up /\ sending
    /\ sending' = FALSE /\ known' = TRUE
    /\ real' = [real EXCEPT !.st = "BUY_ORDERED"]
    /\ SetRow(real.row, "BUY_ORDERED", Lot)
    /\ Elsewhere
    /\ UNCHANGED <<accountVars, up, restarts, sim, simFirst, book, lastRow>>

\* There was no answer: the order stands at the broker, the target watches on.
BuyUnheard ==
    /\ up /\ sending
    /\ sending' = FALSE
    /\ Elsewhere
    /\ UNCHANGED <<accountVars, up, restarts, real, sim, simFirst, book, known, dbVars>>

\* A fill report finds its target by order number, or as the code's only
\* BUY_ORDERED target.
BuyReport ==
    /\ up /\ reports # <<>> /\ Head(reports) = "BUY"
    /\ real.st = "BUY_ORDERED" \/ (known /\ real.st # "NONE")
    /\ SetBoth("HOLDING", real.qty + 1)
    /\ reports' = Tail(reports)
    /\ Elsewhere
    /\ UNCHANGED <<held, order, outside, up, restarts, sim, simFirst, book, sending,
                   known, lastRow>>

\* The exit's report completes the target.
SellReport ==
    /\ up /\ reports # <<>> /\ Head(reports) = "SELL"
    /\ real.st = "SELL_ORDERED"
    /\ SetBoth("COMPLETED", Keep)
    /\ reports' = Tail(reports)
    /\ Elsewhere
    /\ UNCHANGED <<held, order, outside, up, restarts, sim, simFirst, book, sending,
                   known, lastRow>>

\* A scalping target starts again on a new row.
SellReportRevives ==
    /\ up /\ reports # <<>> /\ Head(reports) = "SELL"
    /\ real.st = "SELL_ORDERED" /\ lastRow < MaxRows
    /\ lastRow' = lastRow + 1
    /\ rows' = [r \in RowIds |->
                  IF r = lastRow + 1 THEN [NoRow EXCEPT !.st = "WATCHING"]
                  ELSE IF r = real.row THEN [rows[r] EXCEPT !.st = "COMPLETED"]
                  ELSE rows[r]]
    /\ real' = [st |-> "WATCHING", qty |-> 0, row |-> lastRow + 1]
    /\ reports' = Tail(reports)
    /\ Elsewhere
    /\ UNCHANGED <<held, order, outside, up, restarts, sim, simFirst, book, sending, known>>

\* The entry timed out.  Its orders are cancelled and what was filled is
\* kept; a target loaded from its row has no number to cancel.
TimeoutBuy ==
    /\ InLoop /\ real.st = "BUY_ORDERED"
    /\ order' = IF known /\ order.side = "BUY" THEN [order EXCEPT !.left = 0]
                                               ELSE order
    /\ IF known /\ real.qty > 0
       THEN real' = [real EXCEPT !.st = "HOLDING"] /\ UNCHANGED rows
       ELSE SetBoth("WATCHING", 0)
    /\ Elsewhere
    /\ UNCHANGED <<held, reports, outside, up, restarts, sim, simFirst, book, sending,
                   known, lastRow>>

\* The order stops working: a cancel, its time in force, the end of the day.
Lapse ==
    /\ order.left > 0
    /\ order' = [order EXCEPT !.left = 0]
    /\ Elsewhere /\ UNCHANGED <<held, reports, outside, engineVars, dbVars>>

RowQty == IF real.row \in RowIds THEN rows[real.row].qty ELSE 0

\* The quantity of an exit: the larger of memory's and the row's, or else
\* the account's.
ExitQty == IF real.qty > 0 \/ RowQty > 0
           THEN IF real.qty >= RowQty THEN real.qty ELSE RowQty
           ELSE held

Sellable == IF order.side = "SELL" THEN held - order.left ELSE held

\* The exit order is accepted.
SendSell ==
    /\ InLoop /\ real.st = "HOLDING" /\ order.left = 0
    /\ ExitQty > 0 /\ ExitQty <= held
    /\ order' = [side |-> "SELL", left |-> ExitQty]
    /\ known' = TRUE
    /\ real' = [real EXCEPT !.st = "SELL_ORDERED", !.qty = ExitQty]
    /\ SetRow(real.row, "SELL_ORDERED", Keep)
    /\ Elsewhere
    /\ UNCHANGED <<held, reports, outside, up, restarts, sim, simFirst, book, sending,
                   lastRow>>

\* It is refused: there are fewer shares.  None at all means sold.
SellShort ==
    /\ InLoop /\ real.st = "HOLDING"
    /\ ExitQty = 0 \/ ExitQty > Sellable
    /\ IF Sellable = 0
       THEN SetBoth("COMPLETED", Keep)
       ELSE /\ real' = [real EXCEPT !.qty = Sellable]
            /\ SetRow(real.row, "HOLDING", Keep)
    /\ Elsewhere
    /\ UNCHANGED <<accountVars, up, restarts, sim, simFirst, book, sending, known, lastRow>>

\* The exit timed out: cancelled, taken for sold when there is nothing left
\* to cancel, or just rolled back when its number is unknown.
TimeoutSell ==
    /\ InLoop /\ real.st = "SELL_ORDERED"
    /\ IF known /\ order.left = 0
       THEN SetBoth("COMPLETED", Keep) /\ UNCHANGED order
       ELSE /\ SetBoth("HOLDING", Keep)
            /\ order' = IF known THEN [order EXCEPT !.left = 0] ELSE order
    /\ Elsewhere
    /\ UNCHANGED <<held, reports, outside, up, restarts, sim, simFirst, book, sending,
                   known, lastRow>>

\* A target nobody bought expires from the watch list, one of a scalping
\* strategy, as the target here is: the VCP tags and other strategies do not.
Expire ==
    /\ InLoop /\ real.st = "WATCHING"
    /\ SetBoth("EXPIRED", Keep)
    /\ Elsewhere
    /\ UNCHANGED <<accountVars, up, restarts, sim, simFirst, book, sending, known, lastRow>>

\* Targets that ended leave ACTIVE_TARGETS.
Prune ==
    /\ InLoop
    /\ real.st \in {"COMPLETED", "EXPIRED"} \/ sim.st = "COMPLETED"
    /\ real' = IF real.st \in {"COMPLETED", "EXPIRED"} THEN NoTarget ELSE real
    /\ sim' = IF sim.st = "COMPLETED" THEN NoTarget ELSE sim
    /\ Elsewhere
    /\ UNCHANGED <<accountVars, up, restarts, simFirst, book, sending, known, dbVars>>

\* get_active_targets: today's rows that did not end, and HOLDING ones of any
\* day; the most important status first, then the newest row.
Loadable == {r \in RowIds : \/ rows[r].st = "HOLDING"
                            \/ ~rows[r].old /\ rows[r].st \in Tracked \cup {"WATCHING"}}
Priority == [HOLDING |-> 1, SELL_ORDERED |-> 2, BUY_ORDERED |-> 3, WATCHING |-> 4]
First == {r \in Loadable :
            \A q \in Loadable : Priority[rows[r].st] <= Priority[rows[q].st]}
RowToLoad == Newest(First)
LoadedTarget == IF Loadable = {} THEN NoTarget
                ELSE [st |-> rows[RowToLoad].st, qty |-> rows[RowToLoad].qty,
                      row |-> RowToLoad]

\* The loop looks for rows that have no target, every 5 s.
Poll ==
    /\ InLoop /\ real.st = "NONE" /\ Loadable # {}
    /\ real' = LoadedTarget /\ simFirst' = (sim.st # "NONE")
    /\ known' = FALSE
    /\ Elsewhere
    /\ UNCHANGED <<accountVars, up, restarts, sim, book, sending, dbVars>>

\* A simulated position, or one that waits for a price.
SimTarget(s) == [st |-> s, qty |-> IF s = "HOLDING" THEN 1 ELSE 0, row |-> 0]

\* A buy signal opens a simulated position beside the real target: bought at
\* once, or when there is a price.
OpenSim ==
    /\ SimBook /\ InLoop /\ real.st = "WATCHING" /\ sim.st = "NONE"
    /\ \E s \in {"PENDING", "HOLDING"} : sim' = SimTarget(s) /\ book' = s
    /\ simFirst' = FALSE
    /\ Elsewhere
    /\ UNCHANGED <<accountVars, up, restarts, real, sending, known, dbVars>>

FillSim ==
    /\ InLoop /\ sim.st = "PENDING"
    /\ sim' = SimTarget("HOLDING") /\ book' = "HOLDING"
    /\ Elsewhere
    /\ UNCHANGED <<accountVars, up, restarts, real, simFirst, sending, known, dbVars>>

CloseSim ==
    /\ InLoop /\ sim.st = "HOLDING"
    /\ sim' = [sim EXCEPT !.st = "COMPLETED"] /\ book' = "NONE"
    /\ Elsewhere
    /\ UNCHANGED <<accountVars, up, restarts, real, simFirst, sending, known, dbVars>>

\* The locals of a sync that is over, or died, are gone.
Forget ==
    /\ kind' = "periodic" /\ answered' = {} /\ snap' = 0
    /\ sess' = [r \in RowIds |-> Clean]
    /\ heldThen' = 0 /\ quiet' = FALSE

\* run_sniper ends: it breaks off for the restart flag or at the day's end, or
\* its process dies.  After the end of the day orders have lapsed and the rows
\* are an earlier day's.
Crash(newDay) ==
    /\ up /\ restarts < MaxRestarts /\ (newDay => Overnight)
    /\ up' = FALSE /\ restarts' = restarts + 1
    /\ real' = NoTarget /\ sending' = FALSE /\ known' = FALSE
    /\ sim' = NoTarget /\ simFirst' = FALSE
    /\ reports' = <<>>
    /\ IF newDay
       THEN /\ order' = [order EXCEPT !.left = 0]
            /\ rows' = [r \in RowIds |-> [rows[r] EXCEPT !.old = TRUE]]
       ELSE UNCHANGED <<order, rows>>
    /\ pc' = "idle" /\ Forget
    /\ UNCHANGED <<held, outside, book, lastRow>>

\* The targets are read from the database, after the startup sync if its
\* balance request was answered, and the simulated ones from their file.
Load ==
    /\ ~up /\ pc \in {"idle", "load"} /\ pc' = "idle"
    /\ up' = TRUE
    /\ real' = LoadedTarget
    /\ sim' = IF book = "NONE" THEN NoTarget ELSE SimTarget(book)
    /\ quiet' = FALSE
    /\ UNCHANGED <<accountVars, restarts, simFirst, book, sending, known, dbVars,
                   kind, answered, snap, sess, heldThen>>

-----------------------------------------------------------------------------
(***************************************************************************)
(* The synchronisation.                                                    *)
(***************************************************************************)

ReadFrom(A) == IF "KRX" \in A \/ (Nxt /\ "NXT" \in A) THEN held ELSE 0
Exchange == IF Nxt THEN "NXT" ELSE "KRX"

\* The balance, from the exchanges that answered; KRX lists every holding,
\* NXT those it trades.  Without an answer the sync returns and nothing
\* changes; periodic_account_sync and sync_state_with_broker also return
\* when only their second request was answered.
Query(k, A) ==
    /\ pc = "idle" /\ A # {}
    /\ k = "startup" <=> ~up
    /\ kind' = k /\ answered' = A
    /\ snap' = ReadFrom(A)
    /\ heldThen' = held /\ quiet' = TRUE
    /\ pc' = IF k = "reconnect" THEN "confirm" ELSE "close"
    /\ UNCHANGED <<accountVars, engineVars, dbVars, sess>>

\* Pending updates of the session, which writes no value it read unchanged.
Pend(S, s, q) ==
    sess' = [r \in RowIds |->
               IF r \notin S THEN sess[r]
               ELSE [st |-> IF s = "KEEP" THEN sess[r].st ELSE s,
                     qty |-> IF q \in {Keep, rows[r].qty} THEN sess[r].qty ELSE q]]

\* The first target of the code in ACTIVE_TARGETS is COMPLETED.
CompleteFirst ==
    IF sim.st # "NONE" /\ (simFirst \/ real.st = "NONE")
    THEN sim' = [sim EXCEPT !.st = "COMPLETED"] /\ UNCHANGED real
    ELSE /\ real' = IF real.st = "NONE" THEN real ELSE [real EXCEPT !.st = "COMPLETED"]
         /\ UNCHANGED sim

\* (mutant) Memory is corrected by the difference.
TakeDifference(t, s) ==
    IF t.st = "NONE" THEN t
    ELSE [t EXCEPT !.st = IF s = "KEEP" THEN @ ELSE s, !.qty = snap - @]

\* Every target t of the code takes status s ("KEEP": its own) and the
\* account's quantity.
Take(t, s) ==
    IF t.st = "NONE" THEN t
    ELSE [t EXCEPT !.st = IF s = "KEEP" THEN @ ELSE s, !.qty = snap]

\* (mutant) Only rows in HOLDING are compared with the account.
HoldingOnly == RowsIn({"HOLDING"})

\* The rows that should hold shares: the startup sync leaves exits alone.
Compared == IF kind = "startup" THEN {"HOLDING"} ELSE {"HOLDING", "SELL_ORDERED"}
HoldingRows == RowsIn(Compared)

\* (mutant) An exchange that did not answer counts as one without shares.
CloseUnanswered ==
    /\ pc = "close" /\ snap = 0
    /\ pc' = IF kind = "startup" THEN "recover" ELSE "confirm"
    /\ Pend(HoldingRows, "COMPLETED", Keep)
    /\ UNCHANGED <<accountVars, engineVars, dbVars, kind, answered, snap,
                   heldThen, quiet>>

\* Rows that hold shares: the account has none, so they were sold.
CloseSold ==
    /\ pc = "close" /\ snap = 0
    /\ pc' = IF kind = "startup" THEN "recover" ELSE "confirm"
    /\ IF HoldingRows # {} /\ Exchange \in answered
       THEN Pend(HoldingRows, "COMPLETED", Keep) /\ CompleteFirst
       ELSE UNCHANGED <<sess, real, sim>>
    /\ UNCHANGED <<accountVars, up, restarts, simFirst, book, sending, known, dbVars,
                   kind, answered, snap, heldThen, quiet>>

\* (mutant) Only memory is corrected.
CorrectMemory ==
    /\ pc = "close" /\ snap > 0
    /\ pc' = IF kind = "startup" THEN "recover" ELSE "confirm"
    /\ real' = Take(real, "KEEP")
    /\ UNCHANGED <<accountVars, up, restarts, sim, simFirst, book, sending, known,
                   dbVars, kind, answered, snap, sess, heldThen, quiet>>

\* The account has some: row and targets take its quantity when the row's
\* differs.
CorrectQty ==
    /\ pc = "close" /\ snap > 0
    /\ pc' = IF kind = "startup" THEN "recover" ELSE "confirm"
    /\ IF \E r \in HoldingRows : rows[r].qty # snap
       THEN /\ Pend(HoldingRows, "KEEP", snap)
            /\ real' = Take(real, "KEEP")
            /\ sim' = Take(sim, "KEEP")
       ELSE UNCHANGED <<sess, real, sim>>
    /\ UNCHANGED <<accountVars, up, restarts, simFirst, book, sending, known, dbVars,
                   kind, answered, snap, heldThen, quiet>>

\* Rows that wait for shares the account has: they were bought.
ConfirmBought ==
    /\ pc = "confirm"
    /\ pc' = IF kind = "reconnect" THEN "commit" ELSE "recover"
    /\ IF RowsIn({"BUY_ORDERED"}) # {} /\ snap > 0
       THEN /\ Pend(RowsIn({"BUY_ORDERED"}), "HOLDING", snap)
            /\ real' = Take(real, "HOLDING") /\ sim' = Take(sim, "HOLDING")
       ELSE UNCHANGED <<sess, real, sim>>
    /\ UNCHANGED <<accountVars, up, restarts, simFirst, book, sending, known, dbVars,
                   kind, answered, snap, heldThen, quiet>>

\* A row or a target of the code, real or simulated, is at work.
CodeTracked ==
    \/ RowsIn(Tracked) # {}
    \/ real.st \in Tracked
    \/ sim.st \in Tracked

\* The session shows a row it has updated as it will be.
Reusable == {r \in RowsIn({"WATCHING", "EXPIRED"}) : sess[r].st = "KEEP"}
HasRow == Reusable # {} \/ lastRow < MaxRows     \* lastRow: the bound MaxRows

\* (mutant) A holding without a row to use again is left alone.
RecoverKnown ==
    /\ pc = "recover"
    /\ pc' = "commit"
    /\ IF snap > 0 /\ ~CodeTracked /\ Reusable # {} /\ up
       THEN /\ Pend({Newest(Reusable)}, "HOLDING", snap)
            /\ real' = [st |-> "HOLDING", qty |-> snap, row |-> Newest(Reusable)]
       ELSE UNCHANGED <<sess, real>>
    /\ UNCHANGED <<accountVars, up, restarts, sim, simFirst, book, sending, known,
                   dbVars, kind, answered, snap, heldThen, quiet>>

\* Shares nobody tracks: the newest row that can be used again or a new one,
\* and its target, become HOLDING.
Recover ==
    /\ pc = "recover"
    /\ pc' = "commit"
    /\ IF snap > 0 /\ ~CodeTracked /\ HasRow
       THEN LET r == IF Reusable # {} THEN Newest(Reusable) ELSE lastRow + 1
            IN  /\ Pend({r}, "HOLDING", snap)
                /\ lastRow' = IF Reusable # {} THEN lastRow ELSE lastRow + 1
                /\ real' = IF up THEN [st |-> "HOLDING", qty |-> snap, row |-> r]
                                 ELSE real
                /\ simFirst' = IF real.st = "NONE" THEN sim.st # "NONE" ELSE simFirst
       ELSE UNCHANGED <<sess, lastRow, real, simFirst>>
    /\ UNCHANGED <<accountVars, up, restarts, sim, book, sending, known, rows, kind,
                   answered, snap, heldThen, quiet>>

Updated(r) ==
    [rows[r] EXCEPT !.st = IF sess[r].st = "KEEP" THEN @ ELSE sess[r].st,
                    !.qty = IF sess[r].qty = Keep THEN @ ELSE sess[r].qty]

AfterSync == IF kind = "startup" THEN "load" ELSE "idle"

Commit ==
    /\ pc = "commit" /\ pc' = AfterSync
    /\ rows' = [r \in RowIds |-> Updated(r)]
    /\ Forget
    /\ UNCHANGED <<accountVars, engineVars, lastRow>>

\* A query or the commit fails: the rows are as before, memory is not.
Rollback ==
    /\ DbFaults /\ pc \notin {"idle", "load"} /\ pc' = AfterSync
    /\ Forget
    /\ UNCHANGED <<accountVars, engineVars, dbVars>>

Trading ==
    \/ FillBuy \/ FillSell \/ OutsideTrade \/ IgnoreReport \/ Lapse
    \/ SendBuy \/ StageBuy \/ BuyUnheard
    \/ BuyReport \/ SellReport \/ SellReportRevives
    \/ TimeoutBuy \/ SendSell \/ SellShort \/ TimeoutSell
    \/ Expire \/ Prune \/ Poll \/ OpenSim \/ FillSim \/ CloseSim
    \/ \E newDay \in BOOLEAN : Crash(newDay)
    \/ Load

Sync ==
    \/ \E k \in Kinds, A \in SUBSET Exchanges : Query(k, A)
    \/ CloseSold \/ CorrectQty \/ ConfirmBought \/ Recover
    \/ Commit \/ Rollback

Next == Trading \/ Sync

Spec == Init /\ [][Next]_vars

-------------------------------------------------------------------------------
(***************************************************************************)
(* Properties.                                                             *)
(***************************************************************************)

\* What the session is about to write follows from what the account held
\* when the broker was asked: a row is closed only if there was nothing, is
\* HOLDING only if there was something, and takes that quantity.  An exchange
\* that did not answer proves nothing (periodic_account_sync).
UpdatesAreTrue ==
    \A r \in RowIds :
        /\ sess[r].st = "COMPLETED" => heldThen = 0
        /\ sess[r].st = "HOLDING" => heldThen > 0
        /\ sess[r].qty # Keep => sess[r].qty = heldThen

\* A sync with a full answer that nothing disturbed leaves rows and account in
\* agreement: no row holds shares of an empty account, the others have its
\* quantity, and shares are tracked by a row or a target (the docstrings of
\* sync_balance_with_db and periodic_account_sync).
SyncSettles ==
    [][Commit /\ quiet /\ answered = Exchanges /\ kind # "reconnect" =>
         /\ \A r \in RowIds : rows'[r].st \in Compared =>
                held > 0 /\ rows'[r].qty = held
         /\ held > 0 => CodeTracked' \/ ~HasRow]_vars

\* The engine has a target that watches or sells the code's shares.
Managed == up /\ real.st \in Tracked

\* The loop and the executor keep running and the broker answers: the sync,
\* submitted every 90 s, runs from end to end, and each round of the loop
\* polls, prunes and comes back from sending an order.  A scalping target that
\* goes on watching expires after two hours, orders tried in between or not:
\* strong fairness (VCP tags never do, and are left out).  The thread of a
\* reconnection shares pc with the periodic sync here, not in the code, hence
\* that of the query.
FairSpec ==
    /\ Spec
    /\ SF_vars(Query("periodic", Exchanges))
    /\ WF_vars(CloseSold \/ CorrectQty) /\ WF_vars(ConfirmBought)
    /\ WF_vars(Recover) /\ WF_vars(Commit)
    /\ WF_vars(Load) /\ WF_vars(StageBuy) /\ WF_vars(Poll) /\ WF_vars(Prune)
    /\ SF_vars(Expire)

\* Shares nobody manages, because a report was lost or a restart came, get a
\* target (_recover_missing_broker_holdings).  It needs ~Overnight and
\* ~SimBook: an exit left open on an earlier day, and an open simulated
\* position, count as tracking the code for as long as they last.
MissedSharesAreManaged ==
    (held > 0 /\ ~Managed) ~> (Managed \/ held = 0 \/ ~HasRow)

\* A row that holds shares the account no longer has is closed even when the
\* exit's report was lost (periodic_account_sync, "매도 누락 방어").
LostSaleIsFound ==
    (held = 0 /\ RowsIn({"HOLDING", "SELL_ORDERED"}) # {})
        ~> (held > 0 \/ RowsIn({"HOLDING", "SELL_ORDERED"}) = {})
=============================================================================
