-------------------------- MODULE TargetListProofs --------------------------
(***************************************************************************)
(* Theorems about TargetList, for every value of its constants that        *)
(* satisfies TargetListAssumption.                                         *)
(***************************************************************************)
EXTENDS TargetList, Integers, FiniteSetTheorems, WellFoundedInduction, TLAPS

\* The database, the bounds and where the threads are.
RowsOK ==
    /\ rows \in [RowIds -> RowStatus] /\ lastRow \in 0..MaxRows /\ bought \subseteq RowIds
    /\ ids \subseteq RowIds /\ drow \in 0..MaxRows /\ srow \in 0..MaxRows
    /\ entries \in 0..MaxEntries

StepsOK ==
    /\ alerted \in BOOLEAN /\ removed \in BOOLEAN
    /\ mpc \in {"poll", "add", "ttl", "expire", "mark", "route", "stage", "assign"}
    /\ dpc \in {"idle", "found", "append", "scan", "replace"}
    /\ polled.row \in 0..MaxRows
    /\ polled.row # 0 => polled.st \in {"WATCHING"} \cup Tracked
    /\ dpc = "append" => drow # 0

SetsOK ==
    /\ work \subseteq Targets /\ reports \subseteq Targets
    /\ list \subseteq Targets /\ copy \subseteq Targets /\ staging \subseteq Targets
    /\ kept \subseteq Targets /\ retained \subseteq Targets

\* A target that is in the list, or will be with the next assignment to it,
\* has a row.
TargetsOK ==
    /\ st \in [Targets -> {"FREE", "WATCHING"} \cup Tracked \cup Over]
    /\ row \in [Targets -> 0..MaxRows]
    /\ \A t \in list \cup kept \cup retained : row[t] # 0

\* Every lot in the account, and every order that works, was sent.
LotsOK == held \in Nat /\ held + Cardinality(work) <= entries

TInv == RowsOK /\ StepsOK /\ SetsOK /\ TargetsOK /\ LotsOK

LEMMA Bounds ==
    /\ MaxTargets \in Nat /\ MaxRows \in Nat /\ MaxEntries \in Nat
    /\ RowIds \subseteq 0..MaxRows /\ 0 \notin RowIds
    /\ \A r \in 0..MaxRows : r # 0 => r \in RowIds
    /\ \A n \in 0..MaxRows : n + 1 \in RowIds => n + 1 \in 0..MaxRows
  BY TargetListAssumption DEF TargetListAssumption, RowIds

\* One order more, one order less.
LEMMA CountWork ==
    ASSUME NEW W \in SUBSET Targets, NEW t \in Targets
    PROVE  /\ Cardinality(W) \in Nat
           /\ Cardinality(W \cup {t}) \in Nat
           /\ Cardinality(W \cup {t}) <= Cardinality(W) + 1
           /\ Cardinality(W \ {t}) \in Nat
           /\ Cardinality(W \ {t}) <= Cardinality(W)
           /\ t \in W => Cardinality(W \ {t}) = Cardinality(W) - 1
  <1>1. IsFiniteSet(W)
    <2>1. MaxTargets \in Int /\ 1 \in Int
      BY Bounds
    <2>2. IsFiniteSet(1..MaxTargets)
      BY <2>1, FS_Interval
    <2> QED
      BY <2>2, FS_Subset DEF Targets
  <1>2. Cardinality(W) \in Nat
    BY <1>1, FS_CardinalityType
  <1>3. CASE t \in W
    <2>1. W \cup {t} = W
      BY <1>3
    <2>2. Cardinality(W \ {t}) = Cardinality(W) - 1 /\ Cardinality(W \ {t}) \in Nat
      <3>1. IsFiniteSet(W \ {t})
        BY <1>1, FS_Subset
      <3>2. Cardinality(W \ {t}) \in Nat
        BY <3>1, FS_CardinalityType
      <3>3. Cardinality(W \ {t}) = Cardinality(W) - 1
        BY <1>1, <1>3, FS_RemoveElement
      <3> QED
        BY <3>2, <3>3
    <2> QED
      BY <1>2, <2>1, <2>2
  <1>4. CASE t \notin W
    <2>1. W \ {t} = W
      BY <1>4
    <2>2. Cardinality(W \cup {t}) = Cardinality(W) + 1
      BY <1>1, <1>4, FS_AddElement
    <2>3. Cardinality(W \ {t}) = Cardinality(W)
      BY <2>1
    <2> QED
      BY <1>2, <1>4, <2>2, <2>3
  <1> QED
    BY <1>3, <1>4

\* There is a newest row: seen from the last row, the order of the natural
\* numbers is well-founded.
LEMMA NewestRow ==
    ASSUME NEW S \in SUBSET RowIds, S # {}
    PROVE  Newest(S) \in S
  <1> DEFINE T == {n \in 0..MaxRows : MaxRows - n \in S}
             Less == OpToRel(<, Nat)
  <1>1. RowIds \subseteq 0..MaxRows /\ MaxRows \in Nat
    BY Bounds
  <1>2. T \subseteq Nat
    BY <1>1
  <1>3. \A q \in S : MaxRows - q \in T
    <2> SUFFICES ASSUME NEW q \in S  PROVE MaxRows - q \in T
      OBVIOUS
    <2>1. q \in 0..MaxRows /\ MaxRows - q \in 0..MaxRows /\ MaxRows - (MaxRows - q) = q
      BY <1>1
    <2> QED
      BY <2>1
  <1>4. T # {}
    BY <1>3
  <1>5. PICK x \in T : \A y \in T : ~(<<y, x>> \in Less)
    <2> HIDE DEF T
    <2> QED
      BY <1>2, <1>4, NatLessThanWellFounded, WFMin
  <1>6. \A y \in T : x <= y
    <2> SUFFICES ASSUME NEW y \in T  PROVE x <= y
      OBVIOUS
    <2>1. <<y, x>> \notin Less /\ y \in Nat /\ x \in Nat
      BY <1>2, <1>5
    <2>2. y < x => <<y, x>> \in Less
      BY <2>1 DEF OpToRel
    <2> HIDE DEF Less, T
    <2> QED
      BY <2>1, <2>2
  <1>7. MaxRows - x \in S /\ x \in 0..MaxRows
    BY <1>5
  <1>8. \A q \in S : q <= MaxRows - x
    <2> SUFFICES ASSUME NEW q \in S  PROVE q <= MaxRows - x
      OBVIOUS
    <2>1. x <= MaxRows - q /\ q \in 0..MaxRows
      BY <1>1, <1>3, <1>6
    <2> QED
      BY <1>1, <1>7, <2>1
  <1>9. \E m \in S : \A q \in S : q <= m
    BY <1>7, <1>8
  <1> QED
    BY <1>9 DEF Newest

-----------------------------------------------------------------------------
(***************************************************************************)
(* The operators that change the list.                                     *)
(***************************************************************************)

\* Targets that are kept keep their status and row.
LEMMA HoldTypes ==
    ASSUME TInv, NEW L \in SUBSET Targets, NEW K \in SUBSET Targets,
           Hold(L, K, st, row), L \subseteq kept \cup retained \cup list,
           kept' \subseteq K, retained' \subseteq retained,
           K \subseteq kept
    PROVE  list' = L /\ TargetsOK'
  <1>1. /\ list' = L
        /\ st' = [t \in Targets |-> IF t \in InUse(L, K) THEN st[t] ELSE "FREE"]
        /\ row' = [t \in Targets |-> IF t \in InUse(L, K) THEN row[t] ELSE 0]
    BY DEF Hold
  <1>2. L \cup K \cup retained \subseteq InUse(L, K)
    BY DEF InUse
  <1>3. st' \in [Targets -> {"FREE", "WATCHING"} \cup Tracked \cup Over]
    BY <1>1 DEF TInv, TargetsOK
  <1>4. row' \in [Targets -> 0..MaxRows]
    BY <1>1, Bounds DEF TInv, TargetsOK
  <1>5. \A t \in list' \cup kept' \cup retained' : row'[t] # 0
    <2> SUFFICES ASSUME NEW t \in list' \cup kept' \cup retained'
                 PROVE  row'[t] # 0
      OBVIOUS
    <2>1. t \in InUse(L, K) /\ t \in Targets /\ t \in list \cup kept \cup retained
      BY <1>1, <1>2 DEF TInv, SetsOK
    <2>2. row'[t] = row[t]
      BY <1>1, <2>1
    <2> QED
      BY <2>1, <2>2 DEF TInv, TargetsOK
  <1> QED
    BY <1>1, <1>3, <1>4, <1>5 DEF TargetsOK

\* A new record has a row.
LEMMA AppendTypes ==
    ASSUME TInv, NEW s \in {"WATCHING"} \cup Tracked, NEW r \in RowIds,
           AppendTarget(s, r), UNCHANGED <<kept, retained>>
    PROVE  list' \subseteq Targets /\ TargetsOK'
  <1>1. PICK t \in Targets :
           /\ t \notin InUse(list, kept)
           /\ list' = list \cup {t}
           /\ st' = [st EXCEPT ![t] = s] /\ row' = [row EXCEPT ![t] = r]
    BY DEF AppendTarget
  <1>2. t \notin list \cup kept \cup retained
    BY <1>1 DEF InUse
  <1>3. r \in 0..MaxRows /\ r # 0
    BY Bounds
  <1>4. st' \in [Targets -> {"FREE", "WATCHING"} \cup Tracked \cup Over]
    BY <1>1 DEF TInv, TargetsOK
  <1>5. row' \in [Targets -> 0..MaxRows]
    BY <1>1, <1>3 DEF TInv, TargetsOK
  <1>6. \A u \in list' \cup kept' \cup retained' : row'[u] # 0
    BY <1>1, <1>2, <1>3 DEF TInv, SetsOK, TargetsOK
  <1> QED
    BY <1>1, <1>4, <1>5, <1>6 DEF TInv, SetsOK, TargetsOK

\* A status that is set is one of the types.
LEMMA StatusTypes ==
    ASSUME TInv, NEW S, NEW s \in {"WATCHING"} \cup Tracked \cup Over,
           SetStatus(S, s), UNCHANGED <<row, list, retained>>, kept' = kept
    PROVE  TargetsOK'
  BY DEF SetStatus, TInv, TargetsOK

LEMMA RowTypes ==
    ASSUME TInv, NEW t, NEW s \in {"WATCHING"} \cup Tracked \cup Over, RowBecomes(t, s)
    PROVE  rows' \in [RowIds -> RowStatus]
  BY DEF RowBecomes, TInv, RowsOK, RowStatus

LEMMA TakeRowTypes ==
    ASSUME TInv, NEW r \in RowIds, NEW S, TakeRow(r, S)
    PROVE  lastRow' \in 0..MaxRows
  <1>1. lastRow' = lastRow \/ (lastRow' = lastRow + 1 /\ r = lastRow + 1)
    BY DEF TakeRow
  <1> QED
    BY <1>1, Bounds DEF TInv, RowsOK

\* What the poll reads is a row that is not over.
LEMMA LoadedTypes ==
    ASSUME TInv
    PROVE  /\ Loaded.row \in 0..MaxRows
           /\ Loaded.row # 0 => Loaded.st \in {"WATCHING"} \cup Tracked
  <1> DEFINE best == IF RowsIn({"HOLDING"}) # {} THEN RowsIn({"HOLDING"})
                     ELSE IF RowsIn({"BUY_ORDERED"}) # {} THEN RowsIn({"BUY_ORDERED"})
                     ELSE RowsIn({"WATCHING"})
  <1>1. best \subseteq RowIds /\ \A r \in best : rows[r] \in {"WATCHING"} \cup Tracked
    BY DEF RowsIn, Tracked
  <1>2. Loaded = IF best = {} THEN Nothing
                 ELSE [row |-> Newest(best), st |-> rows[Newest(best)]]
    BY DEF Loaded
  <1> HIDE DEF best
  <1>3. CASE best = {}
    <2>1. Loaded.row = 0
      BY <1>2, <1>3 DEF Nothing
    <2> QED
      BY <2>1, Bounds
  <1>4. CASE best # {}
    <2>1. Newest(best) \in best
      BY <1>1, <1>4, NewestRow
    <2>2. Loaded.row = Newest(best) /\ Loaded.st = rows[Newest(best)]
      BY <1>2, <1>4
    <2>3. Newest(best) \in 0..MaxRows
      BY <1>1, <2>1, Bounds
    <2> QED
      BY <1>1, <2>1, <2>2, <2>3
  <1> QED
    BY <1>3, <1>4

-----------------------------------------------------------------------------
(***************************************************************************)
(* The steps.                                                              *)
(***************************************************************************)

LEMMA InitInv ==
    ASSUME Init
    PROVE  TInv
  <1>1. RowsOK
    BY Bounds DEF Init, RowsOK, RowStatus
  <1>2. StepsOK
    <2>1. Nothing.row = 0 /\ 0 \in 0..MaxRows
      BY Bounds DEF Nothing
    <2> QED
      BY <2>1 DEF Init, StepsOK
  <1>3. SetsOK
    BY DEF Init, SetsOK
  <1>4. TargetsOK
    BY Bounds DEF Init, TargetsOK
  <1>5. LotsOK
    BY FS_EmptySet DEF Init, LotsOK
  <1> QED
    BY <1>1, <1>2, <1>3, <1>4, <1>5 DEF TInv

\* An order that is filled is a lot in the account and works no more.
LEMMA FillInv ==
    ASSUME TInv, NEW t \in Targets, Fill(t)
    PROVE  TInv'
  <1>1. /\ t \in work /\ work' = work \ {t}
        /\ held' = held + 1 /\ reports' = reports \cup {t}
        /\ UNCHANGED <<rows, lastRow, bought, list, st, row, alerted, mpc, polled, ids,
                       copy, staging, kept, dpc, drow, removed, retained, srow,
                       events, entries>>
    BY DEF Fill, dbVars, rowFacts, memVars, mainVars, dispVars, bounds
  <1>2. LotsOK'
    <2>1. Cardinality(work') = Cardinality(work) - 1 /\ Cardinality(work) \in Nat
      BY <1>1, CountWork DEF TInv, SetsOK
    <2>2. held \in Nat /\ held + Cardinality(work) <= entries /\ entries \in Nat
      BY Bounds DEF TInv, LotsOK, RowsOK
    <2>3. held' + (Cardinality(work) - 1) <= entries'
      BY <1>1, <2>1, <2>2
    <2> QED
      BY <1>1, <2>1, <2>2, <2>3 DEF LotsOK
  <1>3. RowsOK' /\ StepsOK'
    BY <1>1 DEF TInv, RowsOK, StepsOK
  <1>4. SetsOK' /\ TargetsOK'
    BY <1>1 DEF TInv, SetsOK, TargetsOK
  <1> QED
    BY <1>2, <1>3, <1>4 DEF TInv

\* Steps that touch neither orders nor lots nor the bound of the entries.
LEMMA LotsStay ==
    ASSUME TInv, UNCHANGED <<work, entries>>, held' = held
    PROVE  LotsOK'
  BY DEF TInv, LotsOK

LEMMA LoopInv ==
    ASSUME TInv,
           \/ PollReads \/ PollAdds \/ ExpiryWrites \/ ExpiryMarks
           \/ PruneReads \/ PruneAssigns
    PROVE  TInv'
  <1>1. /\ UNCHANGED <<work, reports, held, entries, lastRow, bought, drow, srow,
                       alerted, dpc, removed, retained, staging>>
    BY DEF PollReads, PollAdds, ExpiryWrites, ExpiryMarks, PruneReads, PruneAssigns,
           dbVars, rowFacts, brokerVars, memVars, dispVars, bounds
  <1>2. LotsOK'
    BY <1>1, LotsStay
  <1>3. CASE PollReads
    <2>1. /\ polled' = Loaded /\ mpc' = "add"
          /\ UNCHANGED <<rows, list, st, row, ids, copy, kept>>
      BY <1>3 DEF PollReads, dbVars, memVars
    <2>2. polled'.row \in 0..MaxRows
      BY <2>1, LoadedTypes
    <2>3. polled'.row # 0 => polled'.st \in {"WATCHING"} \cup Tracked
      BY <2>1, LoadedTypes
    <2>4. RowsOK' /\ StepsOK'
      BY <1>1, <2>1, <2>2, <2>3 DEF TInv, RowsOK, StepsOK
    <2>5. SetsOK' /\ TargetsOK'
      BY <1>1, <2>1 DEF TInv, SetsOK, TargetsOK
    <2> QED
      BY <1>2, <2>4, <2>5 DEF TInv
  <1>4. CASE PollAdds
    <2>1. /\ mpc' = "ttl" /\ polled' = Nothing
          /\ UNCHANGED <<rows, ids, copy, kept>>
      BY <1>4 DEF PollAdds, dbVars
    <2>2. list' \subseteq Targets /\ TargetsOK'
      <3>1. CASE polled.row # 0 /\ list = {}
        <4>1. polled.row \in RowIds /\ polled.st \in {"WATCHING"} \cup Tracked
          BY <3>1, Bounds DEF TInv, StepsOK
        <4>2. AppendTarget(polled.st, polled.row)
          BY <1>4, <3>1 DEF PollAdds
        <4> QED
          BY <1>1, <2>1, <4>1, <4>2, AppendTypes
      <3>2. CASE ~(polled.row # 0 /\ list = {})
        BY <1>1, <1>4, <2>1, <3>2 DEF PollAdds, TInv, SetsOK, TargetsOK
      <3> QED
        BY <3>1, <3>2
    <2>3. polled'.row = 0 /\ polled'.row \in 0..MaxRows
      BY <2>1, Bounds DEF Nothing
    <2>4. RowsOK' /\ StepsOK' /\ SetsOK'
      BY <1>1, <2>1, <2>2, <2>3 DEF TInv, RowsOK, StepsOK, SetsOK
    <2> QED
      BY <1>2, <2>2, <2>4 DEF TInv
  <1>5. CASE ExpiryWrites
    <2>1. /\ mpc' = "mark"
          /\ UNCHANGED <<list, st, row, polled, ids, copy, kept>>
      BY <1>5 DEF ExpiryWrites, memVars
    <2>2. rows' \in [RowIds -> RowStatus]
      BY <1>5 DEF ExpiryWrites, TInv, RowsOK, RowStatus, Over
    <2>3. RowsOK' /\ StepsOK'
      BY <1>1, <2>1, <2>2 DEF TInv, RowsOK, StepsOK
    <2>4. SetsOK' /\ TargetsOK'
      BY <1>1, <2>1 DEF TInv, SetsOK, TargetsOK
    <2> QED
      BY <1>2, <2>3, <2>4 DEF TInv
  <1>6. CASE ExpiryMarks
    <2>1. /\ mpc' = "route" /\ ids' = {} /\ copy' = list
          /\ SetStatus({t \in list : row[t] \in ids}, "EXPIRED")
          /\ UNCHANGED <<rows, list, row, polled, kept>>
      BY <1>6 DEF ExpiryMarks, dbVars
    <2>2. TargetsOK'
      BY <1>1, <2>1, StatusTypes DEF Over
    <2>3. RowsOK' /\ StepsOK' /\ SetsOK'
      BY <1>1, <2>1 DEF TInv, RowsOK, StepsOK, SetsOK
    <2> QED
      BY <1>2, <2>2, <2>3 DEF TInv
  <1>7. CASE PruneReads
    <2>1. /\ mpc' = "assign" /\ kept' \subseteq list
          /\ UNCHANGED <<rows, list, st, row, polled, ids, copy>>
      BY <1>7 DEF PruneReads, dbVars, memVars
    <2>2. RowsOK' /\ StepsOK'
      BY <1>1, <2>1 DEF TInv, RowsOK, StepsOK
    <2>3. SetsOK' /\ TargetsOK'
      BY <1>1, <2>1 DEF TInv, SetsOK, TargetsOK
    <2> QED
      BY <1>2, <2>2, <2>3 DEF TInv
  <1>8. CASE PruneAssigns
    <2>1. /\ mpc' = "poll" /\ kept' = {} /\ Hold(kept, {}, st, row)
          /\ UNCHANGED <<rows, polled, ids, copy>>
      BY <1>8 DEF PruneAssigns, dbVars
    <2>2. kept \subseteq Targets
      BY DEF TInv, SetsOK
    <2>3. list' = kept /\ TargetsOK'
      BY <1>1, <2>1, <2>2, HoldTypes
    <2>4. RowsOK' /\ StepsOK'
      BY <1>1, <2>1 DEF TInv, RowsOK, StepsOK
    <2>5. SetsOK'
      BY <1>1, <2>1, <2>3 DEF TInv, SetsOK
    <2> QED
      BY <1>2, <2>3, <2>4, <2>5 DEF TInv
  <1> QED
    BY <1>3, <1>4, <1>5, <1>6, <1>7, <1>8

LEMMA ExpiryPicksInv ==
    ASSUME TInv, NEW S, ExpiryPicks(S)
    PROVE  TInv'
  <1>1. /\ S \subseteq list /\ ids' = {row[t] : t \in S}
        /\ mpc' \in {"route", "expire"} /\ copy' \in {copy, list}
        /\ UNCHANGED <<rows, lastRow, bought, held, work, reports, list, st, row,
                       alerted, polled, staging, kept, dpc, drow, removed, retained,
                       srow, entries>>
    BY DEF ExpiryPicks, Watching, dbVars, rowFacts, brokerVars, memVars, dispVars, bounds
  <1>2. ids' \subseteq RowIds
    <2> SUFFICES ASSUME NEW t \in S  PROVE row[t] \in RowIds
      BY <1>1
    <2>1. t \in Targets /\ row[t] # 0
      BY <1>1 DEF TInv, SetsOK, TargetsOK
    <2> QED
      BY <2>1, Bounds DEF TInv, TargetsOK
  <1>3. RowsOK' /\ StepsOK'
    BY <1>1, <1>2 DEF TInv, RowsOK, StepsOK
  <1>4. SetsOK' /\ TargetsOK'
    BY <1>1 DEF TInv, SetsOK, TargetsOK
  <1>5. LotsOK'
    BY <1>1, LotsStay
  <1> QED
    BY <1>3, <1>4, <1>5 DEF TInv

\* The router's steps on one target: only SendEntry uses an entry up, for an
\* order that may work.
LEMMA RouteInv ==
    ASSUME TInv, NEW t \in Targets,
           Skip(t) \/ SendEntry(t) \/ TimeoutEntry(t) \/ Sell(t)
    PROVE  TInv'
  <1>1. /\ mpc' \in {mpc, "stage"} /\ copy' = copy \ {t}
        /\ UNCHANGED <<lastRow, bought, list, row, reports, polled, ids, kept, dpc, drow,
                       removed, retained, srow>>
        /\ alerted' \in BOOLEAN
    BY DEF Skip, SendEntry, TimeoutEntry, Sell, dbVars, rowFacts, brokerVars, memVars,
           dispVars, bounds, TInv, StepsOK
  <1>2. staging' \subseteq Targets /\ work' \subseteq Targets
    BY DEF Skip, SendEntry, TimeoutEntry, Sell, brokerVars, TInv, SetsOK
  <1>3. rows' \in [RowIds -> RowStatus]
    <2>1. CASE Skip(t) \/ SendEntry(t)
      BY <2>1 DEF Skip, SendEntry, dbVars, TInv, RowsOK
    <2>2. CASE TimeoutEntry(t) \/ Sell(t)
      <3>1. RowBecomes(t, "WATCHING") \/ RowBecomes(t, "COMPLETED")
        BY <2>2 DEF TimeoutEntry, Sell
      <3> QED
        BY <3>1, RowTypes DEF Over
    <2> QED
      BY <2>1, <2>2
  <1>4. TargetsOK'
    <2>1. CASE Skip(t) \/ SendEntry(t)
      BY <1>1, <2>1 DEF Skip, SendEntry, memVars, TInv, TargetsOK
    <2>2. CASE TimeoutEntry(t) \/ Sell(t)
      <3>1. SetStatus({t}, "WATCHING") \/ SetStatus({t}, "COMPLETED")
        BY <2>2 DEF TimeoutEntry, Sell
      <3> QED
        BY <1>1, <3>1, StatusTypes DEF Over
    <2> QED
      BY <2>1, <2>2
  <1>5. entries' \in 0..MaxEntries /\ LotsOK'
    <2>1. /\ held \in Nat /\ entries \in Nat /\ entries <= MaxEntries
          /\ MaxEntries \in Nat /\ Cardinality(work) \in Nat
          /\ held + Cardinality(work) <= entries
      <3>1. work \in SUBSET Targets
        BY DEF TInv, SetsOK
      <3>2. Cardinality(work) \in Nat
        BY <3>1, CountWork
      <3> QED
        BY <3>2, Bounds DEF TInv, LotsOK, RowsOK
    <2>2. CASE Skip(t)
      BY <2>1, <2>2 DEF Skip, brokerVars, bounds, LotsOK
    <2>3. CASE SendEntry(t)
      <3>1. /\ entries' = entries + 1 /\ entries < MaxEntries /\ held' = held
            /\ work' = work \/ work' = work \cup {t}
        BY <2>3 DEF SendEntry
      <3>2. Cardinality(work') \in Nat /\ Cardinality(work') <= Cardinality(work) + 1
        BY <2>1, <3>1, CountWork DEF TInv, SetsOK
      <3>3. held' + Cardinality(work') <= entries'
        BY <2>1, <3>1, <3>2
      <3> QED
        BY <2>1, <3>1, <3>3 DEF LotsOK
    <2>4. CASE TimeoutEntry(t)
      <3>1. /\ entries' = entries /\ held' = held /\ work' = work \ {t}
        BY <2>4 DEF TimeoutEntry, bounds
      <3>2. Cardinality(work') \in Nat /\ Cardinality(work') <= Cardinality(work)
        BY <3>1, CountWork DEF TInv, SetsOK
      <3>3. held' + Cardinality(work') <= entries'
        BY <2>1, <3>1, <3>2
      <3> QED
        BY <2>1, <3>1, <3>3 DEF LotsOK
    <2>5. CASE Sell(t)
      <3>1. /\ entries' = entries /\ work' = work
            /\ held' \in Nat /\ held' <= held
        <4>1. held' = IF held > 0 THEN held - 1 ELSE 0
          BY <2>5 DEF Sell
        <4>2. held' \in Nat /\ held' <= held
          BY <2>1, <4>1
        <4> QED
          BY <2>5, <4>2 DEF Sell, bounds
      <3>2. held' + Cardinality(work) <= entries'
        BY <2>1, <3>1
      <3> QED
        BY <2>1, <3>1, <3>2 DEF LotsOK
    <2> QED
      BY <2>2, <2>3, <2>4, <2>5
  <1>6. RowsOK' /\ StepsOK'
    BY <1>1, <1>3, <1>5 DEF TInv, RowsOK, StepsOK
  <1>7. SetsOK'
    BY <1>1, <1>2 DEF TInv, SetsOK
  <1> QED
    BY <1>4, <1>5, <1>6, <1>7 DEF TInv

LEMMA StageInv ==
    ASSUME TInv, StageEntry
    PROVE  TInv'
  <1>1. PICK t \in staging : SetStatus({t}, "BUY_ORDERED") /\ RowBecomes(t, "BUY_ORDERED")
    BY DEF StageEntry
  <1>2. /\ mpc' = "route" /\ staging' = {}
        /\ UNCHANGED <<lastRow, bought, held, work, reports, list, row, alerted, polled,
                       ids, copy, kept, dpc, drow, removed, retained, srow, entries>>
    BY DEF StageEntry, rowFacts, brokerVars, dispVars, bounds
  <1>3. TargetsOK' /\ rows' \in [RowIds -> RowStatus]
    BY <1>1, <1>2, StatusTypes, RowTypes DEF Tracked
  <1>4. RowsOK' /\ StepsOK' /\ SetsOK' /\ LotsOK'
    BY <1>2, <1>3, LotsStay DEF TInv, RowsOK, StepsOK, SetsOK
  <1> QED
    BY <1>3, <1>4 DEF TInv

\* A condition search's target is built for a row that exists.
LEMMA SearchInv ==
    ASSUME TInv,
           \/ Match \/ MatchChooses \/ MatchFails \/ MatchAppends
           \/ Unmatch \/ UnmatchScans \/ UnmatchReplaces
    PROVE  TInv'
  <1>1. UNCHANGED <<held, work, reports, alerted, mpc, polled, ids, copy, staging,
                    kept, srow, entries, bought>>
    BY DEF Match, MatchChooses, MatchFails, MatchAppends, Unmatch, UnmatchScans,
           UnmatchReplaces, dbVars, rowFacts, brokerVars, memVars, mainVars, bounds
  <1>2. LotsOK'
    BY <1>1, LotsStay
  <1>m. CASE Match \/ MatchFails
    <2>1. /\ dpc' \in {"found", "idle"}
          /\ UNCHANGED <<rows, lastRow, list, st, row, drow, removed, retained>>
      BY <1>m DEF Match, MatchFails, dbVars, rowFacts, memVars
    <2>2. RowsOK' /\ StepsOK'
      BY <1>1, <2>1 DEF TInv, RowsOK, StepsOK
    <2>3. SetsOK' /\ TargetsOK'
      BY <1>1, <2>1 DEF TInv, SetsOK, TargetsOK
    <2> QED
      BY <1>2, <2>2, <2>3 DEF TInv
  <1>3. CASE MatchChooses
    <2>1. PICK r \in RowIds :
             /\ TakeRow(r, Reusable)
             /\ IF list = {}
                THEN /\ dpc' = "append" /\ drow' = r /\ UNCHANGED rows
                ELSE /\ rows' = [rows EXCEPT ![r] = IF @ = "NONE" THEN "WATCHING" ELSE @]
                     /\ dpc' = "idle" /\ UNCHANGED drow
      BY <1>3 DEF MatchChooses
    <2>2. UNCHANGED <<list, st, row, removed, retained>>
      BY <1>3 DEF MatchChooses, memVars
    <2>3. lastRow' \in 0..MaxRows /\ r \in 0..MaxRows /\ r # 0
      BY <2>1, TakeRowTypes, Bounds
    <2>4. rows' \in [RowIds -> RowStatus]
      BY <2>1 DEF TInv, RowsOK, RowStatus
    <2>5. RowsOK' /\ StepsOK'
      BY <1>1, <2>1, <2>2, <2>3, <2>4 DEF TInv, RowsOK, StepsOK
    <2>6. SetsOK' /\ TargetsOK'
      BY <1>1, <2>2 DEF TInv, SetsOK, TargetsOK
    <2> QED
      BY <1>2, <2>5, <2>6 DEF TInv
  <1>4. CASE MatchAppends
    <2>1. /\ dpc' = "idle" /\ drow' = 0 /\ AppendTarget("WATCHING", drow)
          /\ rows' = [rows EXCEPT ![drow] = IF @ = "NONE" THEN "WATCHING" ELSE @]
          /\ drow \in RowIds
          /\ UNCHANGED <<lastRow, removed, retained>>
      BY <1>4, Bounds DEF MatchAppends, rowFacts, TInv, StepsOK, RowsOK
    <2>2. list' \subseteq Targets /\ TargetsOK'
      BY <1>1, <2>1, AppendTypes
    <2>3. rows' \in [RowIds -> RowStatus] /\ 0 \in 0..MaxRows
      BY <2>1, Bounds DEF TInv, RowsOK, RowStatus
    <2>4. RowsOK' /\ StepsOK' /\ SetsOK'
      BY <1>1, <2>1, <2>2, <2>3 DEF TInv, RowsOK, StepsOK, SetsOK
    <2> QED
      BY <1>2, <2>2, <2>4 DEF TInv
  <1>5. CASE Unmatch
    <2>1. /\ dpc' = "scan" /\ removed' \in BOOLEAN
          /\ rows' = [r \in RowIds |-> IF rows[r] = "WATCHING" THEN "EXPIRED" ELSE rows[r]]
          /\ UNCHANGED <<lastRow, list, st, row, drow, retained>>
      BY <1>5 DEF Unmatch, rowFacts, memVars
    <2>2. rows' \in [RowIds -> RowStatus]
      BY <2>1 DEF TInv, RowsOK, RowStatus, Over
    <2>3. RowsOK' /\ StepsOK' /\ SetsOK' /\ TargetsOK'
      BY <1>1, <2>1, <2>2 DEF TInv, RowsOK, StepsOK, SetsOK, TargetsOK
    <2> QED
      BY <1>2, <2>3 DEF TInv
  <1>6. CASE UnmatchScans
    <2>1. /\ dpc' \in {"replace", "idle"} /\ removed' = FALSE
          /\ retained' \subseteq retained \cup list
          /\ UNCHANGED <<rows, lastRow, list, st, row, drow>>
      BY <1>6 DEF UnmatchScans, dbVars, rowFacts, memVars
    <2>2. RowsOK' /\ StepsOK'
      BY <1>1, <2>1 DEF TInv, RowsOK, StepsOK
    <2>3. SetsOK' /\ TargetsOK'
      BY <1>1, <2>1 DEF TInv, SetsOK, TargetsOK
    <2> QED
      BY <1>2, <2>2, <2>3 DEF TInv
  <1>7. CASE UnmatchReplaces
    <2>1. /\ dpc' = "idle" /\ retained' = {} /\ Hold(retained, kept, st, row)
          /\ UNCHANGED <<rows, lastRow, drow, removed>>
      BY <1>7 DEF UnmatchReplaces, dbVars, rowFacts
    <2>2. retained \subseteq Targets /\ kept \subseteq Targets
      BY DEF TInv, SetsOK
    <2>3. list' = retained /\ TargetsOK'
      BY <1>1, <2>1, <2>2, HoldTypes
    <2>4. RowsOK' /\ StepsOK'
      BY <1>1, <2>1 DEF TInv, RowsOK, StepsOK
    <2>5. SetsOK'
      BY <1>1, <2>1, <2>2, <2>3 DEF TInv, SetsOK
    <2> QED
      BY <1>2, <2>3, <2>4, <2>5 DEF TInv
  <1> QED
    BY <1>m, <1>3, <1>4, <1>5, <1>6, <1>7

LEMMA ReportInv ==
    ASSUME TInv, NEW t \in Targets, Report(t)
    PROVE  TInv'
  <1>1. /\ reports' = reports \ {t} /\ SetStatus(Found(t), "HOLDING")
        /\ rows' = [r \in RowIds |-> IF \E u \in Found(t) : row[u] = r THEN "HOLDING"
                                     ELSE rows[r]]
        /\ bought' = bought \cup {row[u] : u \in Found(t)}
        /\ UNCHANGED <<lastRow, held, work, list, row, alerted, mpc, polled, ids, copy,
                       staging, kept, dpc, drow, removed, retained, srow, entries>>
    BY DEF Report, mainVars, dispVars, bounds
  <1>2. Found(t) \subseteq list
    BY DEF Found, Waiting
  <1>3. bought' \subseteq RowIds
    <2> SUFFICES ASSUME NEW u \in Found(t)  PROVE row[u] \in RowIds
      BY <1>1 DEF TInv, RowsOK
    <2>1. u \in Targets /\ row[u] # 0
      BY <1>2 DEF TInv, SetsOK, TargetsOK
    <2> QED
      BY <2>1, Bounds DEF TInv, TargetsOK
  <1>4. rows' \in [RowIds -> RowStatus]
    BY <1>1 DEF TInv, RowsOK, RowStatus, Tracked
  <1>5. TargetsOK'
    BY <1>1, StatusTypes DEF Tracked
  <1>6. RowsOK' /\ StepsOK' /\ SetsOK' /\ LotsOK'
    BY <1>1, <1>3, <1>4, LotsStay DEF TInv, RowsOK, StepsOK, SetsOK
  <1> QED
    BY <1>5, <1>6 DEF TInv

\* The account sync moves targets between rows, and appends one for its row.
LEMMA SyncInv ==
    ASSUME TInv, AccountSync
    PROVE  TInv'
  <1>1. UNCHANGED <<held, work, reports, alerted, mpc, polled, ids, copy, staging, kept,
                    dpc, drow, removed, retained, entries>>
    BY DEF AccountSync, SyncConfirms, SyncCloses, SyncRecovers, SyncAppends, SyncIdle,
           brokerVars, mainVars, dispVars, bounds
  <1>2. LotsOK'
    BY <1>1, LotsStay
  <1>3. CASE SyncConfirms
    <2>1. /\ rows' = [r \in RowIds |-> IF rows[r] = "BUY_ORDERED" THEN "HOLDING" ELSE rows[r]]
          /\ bought' = bought \cup RowsIn({"BUY_ORDERED"})
          /\ SetStatus(list, "HOLDING") /\ UNCHANGED <<lastRow, list, row, srow>>
      BY <1>3 DEF SyncConfirms, SyncIdle
    <2>2. TargetsOK'
      BY <1>1, <2>1, StatusTypes DEF Tracked
    <2>3. rows' \in [RowIds -> RowStatus] /\ bought' \subseteq RowIds
      BY <2>1 DEF TInv, RowsOK, RowStatus, Tracked, RowsIn
    <2>4. RowsOK' /\ StepsOK' /\ SetsOK'
      BY <1>1, <2>1, <2>3 DEF TInv, RowsOK, StepsOK, SetsOK
    <2> QED
      BY <1>2, <2>2, <2>4 DEF TInv
  <1>4. CASE SyncCloses
    <2>1. /\ rows' = [r \in RowIds |-> IF rows[r] = "HOLDING" THEN "COMPLETED" ELSE rows[r]]
          /\ (\E t \in list : SetStatus({t}, "COMPLETED")) \/ UNCHANGED st
          /\ UNCHANGED <<lastRow, bought, list, row, srow>>
      BY <1>4 DEF SyncCloses, SyncIdle
    <2>2. TargetsOK'
      <3>1. CASE \E t \in list : SetStatus({t}, "COMPLETED")
        BY <1>1, <2>1, <3>1, StatusTypes DEF Over
      <3>2. CASE UNCHANGED st
        BY <1>1, <2>1, <3>2 DEF TInv, TargetsOK
      <3> QED
        BY <2>1, <3>1, <3>2
    <2>3. rows' \in [RowIds -> RowStatus]
      BY <2>1 DEF TInv, RowsOK, RowStatus, Over
    <2>4. RowsOK' /\ StepsOK' /\ SetsOK'
      BY <1>1, <2>1, <2>3 DEF TInv, RowsOK, StepsOK, SetsOK
    <2> QED
      BY <1>2, <2>2, <2>4 DEF TInv
  <1>5. CASE SyncRecovers
    <2>1. PICK r \in RowIds :
             /\ TakeRow(r, Unused)
             /\ rows' = [rows EXCEPT ![r] = "HOLDING"]
             /\ bought' = bought \cup {r}
             /\ \/ srow' = r /\ UNCHANGED <<st, row>>
                \/ /\ \E t \in list : /\ SetStatus({t}, "HOLDING")
                                      /\ row' = [row EXCEPT ![t] = r]
                   /\ UNCHANGED srow
      BY <1>5 DEF SyncRecovers
    <2>2. list' = list
      BY <1>5 DEF SyncRecovers
    <2>3. lastRow' \in 0..MaxRows /\ r \in 0..MaxRows /\ r # 0
      BY <2>1, TakeRowTypes, Bounds
    <2>4. TargetsOK'
      <3>1. CASE UNCHANGED <<st, row>>
        BY <1>1, <2>2, <3>1 DEF TInv, TargetsOK
      <3>2. CASE \E t \in list : SetStatus({t}, "HOLDING") /\ row' = [row EXCEPT ![t] = r]
        <4>1. PICK t \in list : SetStatus({t}, "HOLDING") /\ row' = [row EXCEPT ![t] = r]
          BY <3>2
        <4>2. st' \in [Targets -> {"FREE", "WATCHING"} \cup Tracked \cup Over]
          BY <4>1 DEF SetStatus, TInv, TargetsOK, Tracked
        <4>3. row' \in [Targets -> 0..MaxRows]
          BY <2>3, <4>1 DEF TInv, TargetsOK
        <4>4. \A u \in list \cup kept \cup retained : row'[u] # 0
          BY <2>3, <4>1 DEF TInv, SetsOK, TargetsOK
        <4> QED
          BY <1>1, <2>2, <4>2, <4>3, <4>4 DEF TargetsOK
      <3> QED
        BY <2>1, <3>1, <3>2
    <2>5. rows' \in [RowIds -> RowStatus]
      BY <2>1 DEF TInv, RowsOK, RowStatus, Tracked
    <2>6. RowsOK' /\ StepsOK' /\ SetsOK'
      BY <1>1, <2>1, <2>2, <2>3, <2>5 DEF TInv, RowsOK, StepsOK, SetsOK
    <2> QED
      BY <1>2, <2>4, <2>6 DEF TInv
  <1>6. CASE SyncAppends
    <2>1. /\ srow' = 0 /\ AppendTarget("HOLDING", srow) /\ srow \in RowIds
          /\ UNCHANGED <<rows, lastRow, bought>>
      BY <1>6, Bounds DEF SyncAppends, dbVars, rowFacts, TInv, RowsOK
    <2>2. "HOLDING" \in {"WATCHING"} \cup Tracked
      BY DEF Tracked
    <2>3. list' \subseteq Targets /\ TargetsOK'
      BY <1>1, <2>1, <2>2, AppendTypes
    <2>4. RowsOK' /\ StepsOK' /\ SetsOK'
      BY <1>1, <2>1, <2>3, Bounds DEF TInv, RowsOK, StepsOK, SetsOK
    <2> QED
      BY <1>2, <2>3, <2>4 DEF TInv
  <1> QED
    BY <1>3, <1>4, <1>5, <1>6 DEF AccountSync

-----------------------------------------------------------------------------
LEMMA Invariance == Spec => []TInv
  <1>1. Init => TInv
    BY InitInv
  <1>2. ASSUME TInv, [Next]_vars
        PROVE  TInv'
    <2>1. CASE \E t \in Targets : Fill(t)
      BY <1>2, <2>1, FillInv
    <2>2. CASE Main
      <3>1. CASE \E S \in SUBSET Targets : ExpiryPicks(S)
        BY <1>2, <3>1, ExpiryPicksInv
      <3>2. CASE \E t \in Targets : Skip(t) \/ SendEntry(t) \/ TimeoutEntry(t) \/ Sell(t)
        BY <1>2, <3>2, RouteInv
      <3> QED
        BY <1>2, <2>2, <3>1, <3>2, LoopInv, StageInv DEF Main
    <2>3. CASE Dispatcher
      BY <1>2, <2>3, SearchInv, ReportInv DEF Dispatcher
    <2>4. CASE Match \/ Unmatch
      BY <1>2, <2>4, SearchInv
    <2>5. CASE AccountSync
      BY <1>2, <2>5, SyncInv
    <2>6. CASE UNCHANGED vars
      BY <1>2, <2>6
         DEF TInv, RowsOK, StepsOK, SetsOK, TargetsOK, LotsOK, vars, dbVars, rowFacts,
             brokerVars, memVars, mainVars, dispVars, bounds
    <2> QED
      BY <1>2, <2>1, <2>2, <2>3, <2>4, <2>5, <2>6 DEF Next
  <1> QED
    BY <1>1, <1>2, PTL DEF Spec

\* Every variable has its type; a listed target always has a row, also one
\* that comes back with an assignment from a list that was read before; and
\* the account never has more lots than entries were sent, however often the
\* code is listed.
THEOREM TargetsTypeCorrect == Spec => []TypeOK
  <1>1. TInv => TypeOK
    <2>1. TInv => UNION {work, reports, list, copy, staging, kept, retained} \subseteq Targets
      BY DEF TInv, SetsOK
    <2>2. TInv => held \in 0..MaxEntries
      <3>1. TInv => Cardinality(work) \in Nat
        <4>1. CASE Targets = {}
          <5>1. SetsOK => work = {}
            BY <4>1 DEF SetsOK
          <5> QED
            BY <5>1, FS_EmptySet DEF TInv
        <4>2. CASE Targets # {}
          BY <4>2, CountWork DEF TInv, SetsOK
        <4> QED
          BY <4>1, <4>2
      <3> QED
        BY <3>1, Bounds DEF TInv, LotsOK, RowsOK
    <2> QED
      BY <2>1, <2>2 DEF TInv, RowsOK, StepsOK, TargetsOK, TypeOK
  <1> QED
    BY <1>1, Invariance, PTL
=============================================================================
