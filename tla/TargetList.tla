----------------------------- MODULE TargetList -----------------------------
(***************************************************************************)
(* ACTIVE_TARGETS for one code and one scalping strategy.  The main loop   *)
(* adds what it polls from the database, expires watches, trades and       *)
(* replaces the contents of the list by the targets that are not over; the *)
(* WebSocket's dispatcher thread appends a target when a condition search  *)
(* finds the code, replaces the contents again when the search drops it,   *)
(* and applies fills; the account sync appends a target for shares nobody  *)
(* tracks.  None of them locks the list, and each acts on what it read     *)
(* some time before.                                                       *)
(*                                                                         *)
(* A target buys one lot with one order (TradeLifecycle has the orders,    *)
(* AccountSync the sync).  Row updates of receipts are part of the step.   *)
(***************************************************************************)
EXTENDS Naturals, FiniteSets

CONSTANTS
    MaxTargets,     \* bound: target records that exist at a time
    MaxRows,        \* bound: rows of the code
    MaxEvents,      \* bound: condition events and failed row updates
    MaxEntries      \* bound: entry orders

ASSUME TargetListAssumption ==
    {MaxTargets, MaxRows, MaxEvents, MaxEntries} \subseteq Nat

Targets == 1..MaxTargets
RowIds == 1..MaxRows
Tracked == {"BUY_ORDERED", "HOLDING"}
Over == {"COMPLETED", "EXPIRED"}
RowStatus == {"NONE", "WATCHING"} \cup Tracked \cup Over

VARIABLES
    \* the database and the account
    rows,       \* rows[r]: status of r, "NONE" before it exists
    lastRow,
    bought,     \* rows with a buy_time: a purchase was recorded on them
    held,       \* lots in the account
    work,       \* targets whose entry order works at the broker
    reports,    \* targets whose fill has not been reported
    \* memory
    list,       \* the targets in ACTIVE_TARGETS
    st, row,    \* status and id of a target
    alerted,    \* the code is in alerted_stocks
    \* the main loop: its step and what it holds while it is there
    mpc,
    polled,     \* row and status get_active_targets returned, row 0: none
    ids,        \* expired_ids
    copy,       \* the rest of targets[:]
    staging,    \* the target whose order was just sent
    kept,       \* the targets that are not over
    \* the dispatcher thread
    dpc, drow, removed, retained,
    \* the account sync: the row whose target it appends, 0 when idle
    srow,
    events, entries

rowFacts == <<lastRow, bought>>
dbVars == <<rows, rowFacts>>
brokerVars == <<held, work, reports>>
memVars == <<list, st, row, alerted>>
mainVars == <<mpc, polled, ids, copy, staging, kept>>
dispVars == <<dpc, drow, removed, retained>>
bounds == <<events, entries>>
vars == <<dbVars, brokerVars, memVars, mainVars, dispVars, srow, bounds>>

Nothing == [row |-> 0, st |-> "NONE"]

Init ==
    /\ rows = [r \in RowIds |-> "NONE"] /\ lastRow = 0 /\ bought = {}
    /\ held = 0 /\ work = {} /\ reports = {}
    /\ list = {} /\ st = [t \in Targets |-> "FREE"] /\ row = [t \in Targets |-> 0]
    /\ alerted = FALSE
    /\ mpc = "poll" /\ polled = Nothing /\ ids = {} /\ copy = {} /\ staging = {}
    /\ kept = {}
    /\ dpc = "idle" /\ drow = 0 /\ removed = FALSE /\ retained = {}
    /\ srow = 0
    /\ events = 0 /\ entries = 0

-----------------------------------------------------------------------------
\* Records something still refers to; Python frees the others.
InUse(L, K) == L \cup K \cup work \cup reports \cup copy \cup staging \cup retained

\* The list becomes L, and K what the main loop keeps for its assignment.
Hold(L, K, status, rowOf) ==
    /\ list' = L
    /\ st' = [t \in Targets |-> IF t \in InUse(L, K) THEN status[t] ELSE "FREE"]
    /\ row' = [t \in Targets |-> IF t \in InUse(L, K) THEN rowOf[t] ELSE 0]

\* A new record with status s and id r is appended.
AppendTarget(s, r) ==
    \E t \in Targets \ InUse(list, kept) :
        /\ \A u \in Targets \ InUse(list, kept) : t <= u
        /\ list' = list \cup {t}
        /\ st' = [st EXCEPT ![t] = s] /\ row' = [row EXCEPT ![t] = r]

SetStatus(S, s) == st' = [t \in Targets |-> IF t \in S THEN s ELSE st[t]]

Newest(S) == CHOOSE r \in S : \A q \in S : q <= r
RowsIn(S) == {r \in RowIds : rows[r] \in S}

\* Rows that only watched, or expired.
Unused == RowsIn({"WATCHING", "EXPIRED"})

\* The newest of the rows S, or a new one.
HasRow(S) == S # {} \/ lastRow < MaxRows
TakeRow(r, S) ==
    /\ r = IF S # {} THEN Newest(S) ELSE lastRow + 1
    /\ lastRow' = IF S # {} THEN lastRow ELSE lastRow + 1

\* find_reusable_watching_record.
Reusable == Unused \ bought

-----------------------------------------------------------------------------
(***************************************************************************)
(* The broker.                                                             *)
(***************************************************************************)

Fill(t) ==
    /\ t \in work /\ work' = work \ {t}
    /\ held' = held + 1 /\ reports' = reports \cup {t}
    /\ UNCHANGED <<dbVars, memVars, mainVars, dispVars, srow, bounds>>

-----------------------------------------------------------------------------
(***************************************************************************)
(* The main loop.                                                          *)
(***************************************************************************)

\* (mutant) Only positions are loaded again.
LoadedHoldings ==
    LET best == RowsIn({"HOLDING"})
    IN  IF best = {} THEN Nothing ELSE [row |-> Newest(best), st |-> "HOLDING"]

\* get_active_targets: of the rows that are not over, the most important
\* status first, then the newest.
Loaded ==
    LET best == IF RowsIn({"HOLDING"}) # {} THEN RowsIn({"HOLDING"})
                ELSE IF RowsIn({"BUY_ORDERED"}) # {} THEN RowsIn({"BUY_ORDERED"})
                ELSE RowsIn({"WATCHING"})
    IN  IF best = {} THEN Nothing
        ELSE [row |-> Newest(best), st |-> rows[Newest(best)]]

PollReads ==
    /\ mpc = "poll" /\ mpc' = "add"
    /\ polled' = Loaded
    /\ UNCHANGED <<dbVars, brokerVars, memVars, ids, copy, staging, kept, dispVars,
                   srow, bounds>>

\* What was read is appended unless a target has its identity.
PollAdds ==
    /\ mpc = "add" /\ mpc' = "ttl"
    /\ IF polled.row # 0 /\ list = {}
       THEN AppendTarget(polled.st, polled.row)
       ELSE UNCHANGED <<list, st, row>>
    /\ polled' = Nothing
    /\ UNCHANGED <<dbVars, brokerVars, alerted, ids, copy, staging, kept, dispVars,
                   srow, bounds>>

Watching == {t \in list : st[t] = "WATCHING"}

\* The watches that are too old, or too many.
ExpiryPicks(S) ==
    /\ mpc = "ttl" /\ S \subseteq Watching
    /\ ids' = {row[t] : t \in S}
    /\ IF S = {} THEN mpc' = "route" /\ copy' = list
                 ELSE mpc' = "expire" /\ UNCHANGED copy
    /\ UNCHANGED <<dbVars, brokerVars, memVars, polled, staging, kept, dispVars,
                   srow, bounds>>

\* Their rows are updated, or the update fails and is only logged ...
ExpiryWrites ==
    /\ mpc = "expire" /\ mpc' = "mark"
    /\ \/ /\ rows' = [r \in RowIds |-> IF r \in ids THEN "EXPIRED" ELSE rows[r]]
          /\ UNCHANGED events
       \/ /\ events < MaxEvents /\ events' = events + 1
          /\ UNCHANGED rows
    /\ UNCHANGED <<rowFacts, brokerVars, memVars, polled, ids, copy, staging, kept,
                   dispVars, srow, entries>>

\* (mutant) Only the rows expire.
ExpiryForgets ==
    /\ mpc = "mark" /\ mpc' = "route"
    /\ ids' = {} /\ copy' = list
    /\ UNCHANGED <<dbVars, brokerVars, memVars, polled, staging, kept, dispVars,
                   srow, bounds>>

\* ... and every target with one of the ids is over, whatever it is by now.
ExpiryMarks ==
    /\ mpc = "mark" /\ mpc' = "route"
    /\ SetStatus({t \in list : row[t] \in ids}, "EXPIRED")
    /\ ids' = {} /\ copy' = list
    /\ UNCHANGED <<dbVars, brokerVars, list, row, alerted, polled, staging, kept,
                   dispVars, srow, bounds>>

RowBecomes(t, s) ==
    rows' = [r \in RowIds |-> IF r = row[t] THEN s ELSE rows[r]]

\* The router leaves a target alone: its conditions, a cooldown, a pause.
Skip(t) ==
    /\ mpc = "route" /\ t \in copy /\ copy' = copy \ {t}
    /\ UNCHANGED <<dbVars, brokerVars, memVars, mpc, polled, ids, staging, kept,
                   dispVars, srow, bounds>>

\* The entry of a WATCHING target is sent, or refused ...
SendEntry(t) ==
    /\ mpc = "route" /\ t \in copy /\ copy' = copy \ {t}
    /\ st[t] = "WATCHING" /\ ~alerted
    /\ entries < MaxEntries /\ entries' = entries + 1
    /\ alerted' = TRUE
    /\ \/ work' = work \cup {t} /\ staging' = {t} /\ mpc' = "stage"
       \/ UNCHANGED <<work, staging, mpc>>
    /\ UNCHANGED <<dbVars, held, reports, list, st, row, polled, ids, kept, dispVars,
                   srow, events>>

\* ... and recorded, even when the target left the list meanwhile.
StageEntry ==
    /\ mpc = "stage" /\ mpc' = "route"
    /\ \E t \in staging : SetStatus({t}, "BUY_ORDERED") /\ RowBecomes(t, "BUY_ORDERED")
    /\ staging' = {}
    /\ UNCHANGED <<rowFacts, brokerVars, list, row, alerted, polled, ids, copy, kept,
                   dispVars, srow, bounds>>

\* (mutant) A status of its own, which the router does not know.
TimeoutEntryCancels(t) ==
    /\ mpc = "route" /\ t \in copy /\ copy' = copy \ {t}
    /\ st[t] = "BUY_ORDERED" /\ t \notin reports
    /\ work' = work \ {t}
    /\ SetStatus({t}, "CANCELLED") /\ RowBecomes(t, "WATCHING")
    /\ alerted' = FALSE
    /\ UNCHANGED <<rowFacts, held, reports, list, row, mpc, polled, ids, staging, kept,
                   dispVars, srow, bounds>>

\* A BUY_ORDERED target timed out: its order is cancelled; a target that was
\* loaded from its row has no number and just watches again.  A filled order
\* cannot be cancelled.
TimeoutEntry(t) ==
    /\ mpc = "route" /\ t \in copy /\ copy' = copy \ {t}
    /\ st[t] = "BUY_ORDERED" /\ t \notin reports
    /\ work' = work \ {t}
    /\ SetStatus({t}, "WATCHING") /\ RowBecomes(t, "WATCHING")
    /\ alerted' = FALSE
    /\ UNCHANGED <<rowFacts, held, reports, list, row, mpc, polled, ids, staging, kept,
                   dispVars, srow, bounds>>

\* A HOLDING target sells its lot; the refusal of an empty account means sold.
Sell(t) ==
    /\ mpc = "route" /\ t \in copy /\ copy' = copy \ {t}
    /\ st[t] = "HOLDING"
    /\ held' = IF held > 0 THEN held - 1 ELSE 0
    /\ SetStatus({t}, "COMPLETED") /\ RowBecomes(t, "COMPLETED")
    /\ alerted' = FALSE
    /\ UNCHANGED <<rowFacts, work, reports, list, row, mpc, polled, ids, staging, kept,
                   dispVars, srow, bounds>>

\* The targets that are not over are collected ...
PruneReads ==
    /\ mpc = "route" /\ copy = {} /\ mpc' = "assign"
    /\ kept' = {t \in list : st[t] \notin Over}
    /\ UNCHANGED <<dbVars, brokerVars, memVars, polled, ids, copy, staging, dispVars,
                   srow, bounds>>

\* ... and become the list.
PruneAssigns ==
    /\ mpc = "assign" /\ mpc' = "poll"
    /\ Hold(kept, {}, st, row)
    /\ kept' = {}
    /\ UNCHANGED <<dbVars, brokerVars, alerted, polled, ids, copy, staging, dispVars,
                   srow, bounds>>

-----------------------------------------------------------------------------
(***************************************************************************)
(* The dispatcher thread.                                                  *)
(***************************************************************************)

\* A search finds the code.  With a target of its identity in the list there
\* is nothing to do; otherwise the broker is asked for the code's data ...
Match ==
    /\ dpc = "idle" /\ events < MaxEvents /\ list = {}
    /\ events' = events + 1 /\ dpc' = "found"
    /\ UNCHANGED <<dbVars, brokerVars, memVars, mainVars, drow, removed, retained,
                   srow, entries>>

\* ... a row is chosen and the list is looked at again: without a target by
\* now, one is about to be built (its market capitalisation is queried).
MatchChooses ==
    /\ dpc = "found" /\ HasRow(Reusable)
    /\ \E r \in RowIds :
         /\ TakeRow(r, Reusable)
         /\ IF list = {}
            THEN /\ dpc' = "append" /\ drow' = r /\ UNCHANGED rows
            ELSE /\ rows' = [rows EXCEPT ![r] = IF @ = "NONE" THEN "WATCHING" ELSE @]
                 /\ dpc' = "idle" /\ UNCHANGED drow
    /\ UNCHANGED <<bought, brokerVars, memVars, mainVars, removed, retained, srow,
                   bounds>>

\* A query fails: the event is lost.
MatchFails ==
    /\ dpc = "found" /\ dpc' = "idle"
    /\ UNCHANGED <<dbVars, brokerVars, memVars, mainVars, drow, removed, retained,
                   srow, bounds>>

\* It is appended and the session commits; a row that expired stays expired.
MatchAppends ==
    /\ dpc = "append" /\ dpc' = "idle"
    /\ AppendTarget("WATCHING", drow)
    /\ rows' = [rows EXCEPT ![drow] = IF @ = "NONE" THEN "WATCHING" ELSE @]
    /\ drow' = 0
    /\ UNCHANGED <<rowFacts, brokerVars, alerted, mainVars, removed, retained, srow,
                   bounds>>

\* The search drops the code: rows that watch it expire ...
Unmatch ==
    /\ dpc = "idle" /\ events < MaxEvents
    /\ events' = events + 1
    /\ rows' = [r \in RowIds |-> IF rows[r] = "WATCHING" THEN "EXPIRED" ELSE rows[r]]
    /\ removed' = (RowsIn({"WATCHING"}) # {})
    /\ dpc' = "scan"
    /\ UNCHANGED <<rowFacts, brokerVars, memVars, mainVars, drow, retained, srow,
                   entries>>

\* ... the targets that do not watch it are collected ...
UnmatchScans ==
    /\ dpc = "scan"
    /\ IF removed \/ Watching # {}
       THEN dpc' = "replace" /\ retained' = list \ Watching
       ELSE dpc' = "idle" /\ UNCHANGED retained
    /\ removed' = FALSE
    /\ UNCHANGED <<dbVars, brokerVars, memVars, mainVars, drow, srow, bounds>>

\* ... and become the list.
UnmatchReplaces ==
    /\ dpc = "replace" /\ dpc' = "idle"
    /\ Hold(retained, kept, st, row)
    /\ retained' = {}
    /\ UNCHANGED <<dbVars, brokerVars, alerted, mainVars, drow, removed, srow, bounds>>

\* The target of a BUY report: the listed one that has the order, or else the
\* only one of the code that waits for an order.
Waiting == {t \in list : st[t] = "BUY_ORDERED"}
Found(t) == IF t \in Waiting THEN {t}
            ELSE IF Cardinality(Waiting) = 1 THEN Waiting ELSE {}

Report(t) ==
    /\ dpc = "idle" /\ t \in reports /\ reports' = reports \ {t}
    /\ SetStatus(Found(t), "HOLDING")
    /\ rows' = [r \in RowIds |-> IF \E u \in Found(t) : row[u] = r THEN "HOLDING"
                                 ELSE rows[r]]
    /\ bought' = bought \cup {row[u] : u \in Found(t)}
    /\ UNCHANGED <<lastRow, held, work, list, row, alerted, mainVars, dispVars, srow,
                   bounds>>

-----------------------------------------------------------------------------
(***************************************************************************)
(* The account sync.                                                       *)
(***************************************************************************)

SyncIdle == srow = 0 /\ UNCHANGED <<lastRow, brokerVars, list, alerted, mainVars,
                                    dispVars, bounds>>

\* A row that waits for a BUY of shares the account holds: bought, and so is
\* every target of the code.
SyncConfirms ==
    /\ SyncIdle /\ held > 0 /\ RowsIn({"BUY_ORDERED"}) # {}
    /\ rows' = [r \in RowIds |-> IF rows[r] = "BUY_ORDERED" THEN "HOLDING" ELSE rows[r]]
    /\ bought' = bought \cup RowsIn({"BUY_ORDERED"})
    /\ SetStatus(list, "HOLDING")
    /\ UNCHANGED <<row, srow>>

\* A row that holds what the account does not: sold, and so is the first
\* target of the code.
SyncCloses ==
    /\ SyncIdle /\ held = 0 /\ RowsIn({"HOLDING"}) # {}
    /\ rows' = [r \in RowIds |-> IF rows[r] = "HOLDING" THEN "COMPLETED" ELSE rows[r]]
    /\ \/ \E t \in list : SetStatus({t}, "COMPLETED")
       \/ list = {} /\ UNCHANGED st
    /\ UNCHANGED <<bought, row, srow>>

\* (mutant) Any row that was not sold counts as tracking the code.
UntrackedUnsold == held > 0 /\ RowsIn(RowStatus \ {"NONE", "COMPLETED"}) = {}

\* The account holds shares no row and no target tracks.
Untracked ==
    held > 0 /\ RowsIn(Tracked) = {} /\ \A t \in list : st[t] \notin Tracked

\* A row is reused or created for them; a target of the code holds them, or
\* one is about to be built.
SyncRecovers ==
    /\ srow = 0 /\ Untracked /\ HasRow(Unused)
    /\ \E r \in RowIds :
         /\ TakeRow(r, Unused)
         /\ rows' = [rows EXCEPT ![r] = "HOLDING"]
         /\ bought' = bought \cup {r}
         /\ \/ /\ list = {} /\ srow' = r
               /\ UNCHANGED <<st, row>>
            \/ /\ \E t \in list : /\ SetStatus({t}, "HOLDING")
                                  /\ row' = [row EXCEPT ![t] = r]
               /\ UNCHANGED srow
    /\ UNCHANGED <<brokerVars, list, alerted, mainVars, dispVars, bounds>>

SyncAppends ==
    /\ srow # 0 /\ srow' = 0
    /\ AppendTarget("HOLDING", srow)
    /\ UNCHANGED <<dbVars, brokerVars, alerted, mainVars, dispVars, bounds>>

-----------------------------------------------------------------------------
Main ==
    \/ PollReads \/ PollAdds
    \/ \E S \in SUBSET Targets : ExpiryPicks(S)
    \/ ExpiryWrites \/ ExpiryMarks
    \/ \E t \in Targets : Skip(t) \/ SendEntry(t) \/ TimeoutEntry(t) \/ Sell(t)
    \/ StageEntry \/ PruneReads \/ PruneAssigns

Dispatcher ==
    \/ MatchChooses \/ MatchFails \/ MatchAppends \/ UnmatchScans \/ UnmatchReplaces
    \/ \E t \in Targets : Report(t)

AccountSync == SyncConfirms \/ SyncCloses \/ SyncRecovers \/ SyncAppends

Next ==
    \/ \E t \in Targets : Fill(t)
    \/ Main \/ Dispatcher \/ Match \/ Unmatch \/ AccountSync

Spec == Init /\ [][Next]_vars

\* Each thread goes on; whatever is watched long enough is old some time, and
\* an order that is not filled times out some time.
Fairness ==
    /\ WF_vars(Main) /\ WF_vars(Dispatcher) /\ WF_vars(AccountSync)
    /\ SF_vars(Watching # {} /\ ExpiryPicks(Watching))
    /\ \A t \in Targets : SF_vars(TimeoutEntry(t))

FairSpec == Spec /\ Fairness

-----------------------------------------------------------------------------
(***************************************************************************)
(* Properties.                                                             *)
(***************************************************************************)

\* Every variable has its type.
TypeOK ==
    /\ rows \in [RowIds -> RowStatus] /\ lastRow \in 0..MaxRows /\ bought \subseteq RowIds
    /\ held \in 0..MaxEntries
    /\ UNION {work, reports, list, copy, staging, kept, retained} \subseteq Targets
    /\ st \in [Targets -> {"FREE", "WATCHING"} \cup Tracked \cup Over]
    /\ row \in [Targets -> 0..MaxRows]
    /\ \A t \in list : row[t] # 0
    /\ {alerted, removed} \subseteq BOOLEAN
    /\ mpc \in {"poll", "add", "ttl", "expire", "mark", "route", "stage", "assign"}
    /\ dpc \in {"idle", "found", "append", "scan", "replace"}
    /\ ids \subseteq RowIds /\ drow \in 0..MaxRows /\ srow \in 0..MaxRows

\* Shares in the account come under a listed HOLDING target, however an append
\* was lost, a watch removed while its order was sent, or a position expired
\* with its twin: the poll and the account sync bring it back.
HeldIsManaged ==
    held > 0 ~> held = 0 \/ \E t \in list : st[t] = "HOLDING"

\* A row that watches gets its target back when an append was lost between the
\* reading of the list and the assignment to it (kiwoom_sniper_v2.py's poll).
WatchIsListed ==
    RowsIn({"WATCHING"}) # {} ~> list # {} \/ RowsIn({"WATCHING"}) = {}

\* No target watches for ever: not a second one of the same code, nor one the
\* poll brought back from what it read before the search dropped the code.
WatchEnds == \A t \in Targets : t \in Watching ~> t \notin Watching
=============================================================================
