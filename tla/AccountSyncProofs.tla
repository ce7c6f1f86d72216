------------------------- MODULE AccountSyncProofs -------------------------
(***************************************************************************)
(* What a sync writes follows from the balance it read, and a sync that    *)
(* nothing disturbed leaves rows and account in agreement: for every       *)
(* number of shares, rows, outside trades and restarts.                    *)
(***************************************************************************)
EXTENDS AccountSync, WellFoundedInduction, TLAPS

\* An exit order never sells more than the account holds.
ExitCovered == order.side = "SELL" => order.left <= held

\* The session is clean between two syncs.
Between == pc \in {"idle", "load"} => sess = [r \in RowIds |-> Clean]

\* What the sync took for the balance: the account's, or nothing because the
\* exchange the code trades on did not answer.
SnapOK ==
    /\ snap > 0 => snap = heldThen
    /\ pc \notin {"idle", "load"} /\ Exchange \in answered => snap = heldThen

\* The inductive invariant.
SyncInv == TypeOK /\ ExitCovered /\ Between /\ SnapOK /\ UpdatesAreTrue

\* The part of it that only the synchronisation can disturb.
SyncPart == SyncTyped /\ Between /\ SnapOK /\ UpdatesAreTrue

-----------------------------------------------------------------------------
Below == OpToRel(<, Nat)

\* A set of naturals has a least element.
LEMMA LeastNatural ==
    ASSUME NEW T \in SUBSET Nat, T # {}
    PROVE  \E x \in T : \A y \in T : x <= y
<1>1. IsWellFoundedOn(Below, Nat)
  BY NatLessThanWellFounded DEF Below
<1>2. \E x \in T : \A y \in T : <<y, x>> \notin Below
  BY <1>1, WFMin
<1>3. \A x, y \in Nat : y < x => <<y, x>> \in Below
  BY DEF Below, OpToRel
<1>4. \A x \in T : x \in Nat
  OBVIOUS
<1>5. \A x, y \in Nat : <<y, x>> \notin Below => x <= y
  BY <1>3
<1> QED  BY <1>2, <1>4, <1>5

\* A set of rows has a newest one.
LEMMA NewestIsOne ==
    ASSUME NEW S \in SUBSET RowIds, S # {}
    PROVE  Newest(S) \in S
<1> DEFINE T == {MaxRows - r : r \in S}
<1>1. MaxRows \in Nat
  BY SyncAssumption
<1>2. \A r \in S : r \in 1..MaxRows
  BY DEF RowIds
<1>3. T \in SUBSET Nat /\ T # {}
  BY <1>1, <1>2
<1>4. PICK x \in T : \A y \in T : x <= y
  <2> HIDE DEF T
  <2> QED  BY <1>3, LeastNatural
<1>5. PICK r \in S : x = MaxRows - r
  OBVIOUS
<1>6. ASSUME NEW q \in S PROVE q <= r
  <2>1. MaxRows - r <= MaxRows - q
    BY <1>4, <1>5
  <2> QED  BY <2>1, <1>1, <1>2
<1> QED  BY <1>5, <1>6 DEF Newest

\* The target that the rows give is one.
LEMMA LoadedIsTarget ==
    ASSUME DbTyped
    PROVE  LoadedTarget \in TargetType
<1>1. CASE Loadable = {}
  BY <1>1, SyncAssumption DEF LoadedTarget, NoTarget, TargetType
<1>2. CASE Loadable # {}
  <2> DEFINE P(r) == Priority[rows[r].st]
             T == {P(r) : r \in Loadable}
  <2>1. Loadable \subseteq RowIds
    BY DEF Loadable
  <2>2. \A r \in Loadable : rows[r].st \in {"HOLDING", "SELL_ORDERED", "BUY_ORDERED", "WATCHING"}
    BY DEF Loadable, Tracked
  <2>3. \A r \in Loadable : P(r) \in Nat
    BY <2>2 DEF Priority
  <2>4. T \in SUBSET Nat /\ T # {}
    BY <2>3, <1>2
  <2>5. \E x \in T : \A y \in T : x <= y
    <3> HIDE DEF T
    <3> QED  BY <2>4, LeastNatural
  <2>6. \E r \in Loadable : \A q \in Loadable : P(r) <= P(q)
    BY <2>5
  <2>7. First # {} /\ First \subseteq Loadable
    BY <2>6 DEF First
  <2>8. RowToLoad \in First
    BY <2>1, <2>7, NewestIsOne DEF RowToLoad
  <2>9. RowToLoad \in RowIds /\ RowToLoad \in Loadable
    BY <2>1, <2>7, <2>8
  <2>10. rows[RowToLoad].st \in Statuses \cup {"NONE", "PENDING"}
    BY <2>2, <2>9 DEF Statuses
  <2>11. rows[RowToLoad].qty \in Nat
    BY <2>9 DEF DbTyped, RowType
  <2>12. RowToLoad \in 0..MaxRows
    BY <2>9, SyncAssumption DEF RowIds
  <2> QED  BY <1>2, <2>10, <2>11, <2>12 DEF LoadedTarget, TargetType
<1> QED  BY <1>1, <1>2

-----------------------------------------------------------------------------
\* So is the simulator's.
LEMMA SimIsTarget ==
    ASSUME NEW s \in {"PENDING", "HOLDING"}
    PROVE  SimTarget(s) \in TargetType
<1>1. 0 \in 0..MaxRows
  BY SyncAssumption
<1>2. s \in Statuses \cup {"NONE", "PENDING"}
  BY DEF Statuses
<1> QED  BY <1>1, <1>2 DEF SimTarget, TargetType

\* SetRow and SetBoth write rows and targets.
LEMMA SetRowTyped ==
    ASSUME DbTyped, NEW r, NEW s \in Statuses, NEW q \in Nat \cup {Keep}, SetRow(r, s, q)
    PROVE  rows' \in [RowIds -> RowType]
<1>1. \A i \in RowIds : rows[i] \in RowType
  BY DEF DbTyped
<1>2. \A i \in RowIds :
         [rows[i] EXCEPT !.st = s, !.qty = IF q = Keep THEN @ ELSE q] \in RowType
  BY <1>1 DEF RowType
<1> QED  BY <1>1, <1>2 DEF SetRow

LEMMA TargetTyped ==
    ASSUME NEW t \in TargetType, NEW s \in Statuses, NEW q \in Nat \cup {Keep}
    PROVE  [t EXCEPT !.st = s, !.qty = IF q = Keep THEN @ ELSE q] \in TargetType
  BY DEF TargetType

LEMMA SetBothTyped ==
    ASSUME EngineTyped, DbTyped, NEW s \in Statuses, NEW q \in Nat \cup {Keep}, SetBoth(s, q)
    PROVE  real' \in TargetType /\ rows' \in [RowIds -> RowType]
<1>1. SetRow(real.row, s, q)
  BY DEF SetBoth
<1>2. real' = [real EXCEPT !.st = s, !.qty = IF q = Keep THEN @ ELSE q]
  BY DEF SetBoth
<1>3. real \in TargetType
  BY DEF EngineTyped
<1> QED  BY <1>1, <1>2, <1>3, SetRowTyped, TargetTyped

\* An exit asks for a number of shares.
LEMMA ExitQtyTyped ==
    ASSUME AccountTyped, EngineTyped, DbTyped
    PROVE  ExitQty \in Nat /\ Sellable \in Int
<1>1. held \in Nat /\ order.left \in Nat
  BY SyncAssumption DEF AccountTyped
<1>2. real.qty \in Nat
  BY DEF EngineTyped, TargetType
<1>3. RowQty \in Nat
  BY DEF DbTyped, RowType, RowQty
<1> QED  BY <1>1, <1>2, <1>3 DEF ExitQty, Sellable

\* The steps of the account keep its books.
LEMMA AccountStep ==
    ASSUME AccountTyped, ExitCovered,
           FillBuy \/ FillSell \/ OutsideTrade \/ IgnoreReport \/ Lapse
    PROVE  AccountTyped' /\ ExitCovered'
<1>1. held \in 0..MaxHeld /\ held \in Nat /\ MaxHeld \in Nat
  BY SyncAssumption DEF AccountTyped
<1>2. /\ order \in [side : {"NONE", "BUY", "SELL"}, left : Nat]
      /\ order.left \in Nat
      /\ reports \in Seq({"BUY", "SELL"})
  BY DEF AccountTyped
<1>3. outside \in 0..MaxOutside /\ MaxOutside \in Nat
  BY SyncAssumption DEF AccountTyped
<1>4. CASE FillBuy
  <2>1. held' \in 0..MaxHeld /\ outside' = outside
    BY <1>1, <1>4 DEF FillBuy
  <2>2. order' \in [side : {"NONE", "BUY", "SELL"}, left : Nat] /\ order'.side = "BUY"
    BY <1>2, <1>4 DEF FillBuy
  <2>3. reports' \in Seq({"BUY", "SELL"})
    BY <1>2, <1>4 DEF FillBuy
  <2> QED  BY <1>3, <2>1, <2>2, <2>3 DEF AccountTyped, ExitCovered
<1>5. CASE FillSell
  <2>1. held' \in 0..MaxHeld /\ outside' = outside
    BY <1>1, <1>2, <1>5 DEF FillSell, ExitCovered
  <2>2. /\ order' \in [side : {"NONE", "BUY", "SELL"}, left : Nat]
        /\ order'.left = 0
    BY <1>2, <1>5 DEF FillSell
  <2>3. reports' \in Seq({"BUY", "SELL"})
    BY <1>2, <1>5 DEF FillSell
  <2> QED  BY <1>3, <2>1, <2>2, <2>3 DEF AccountTyped, ExitCovered
<1>6. CASE OutsideTrade
  <2>1. held' \in 0..MaxHeld /\ outside' \in 0..MaxOutside
    BY <1>1, <1>3, <1>6 DEF OutsideTrade
  <2>2. order' = order /\ reports' = reports
    BY <1>6 DEF OutsideTrade
  <2>3. order.side = "SELL" => order.left <= held'
    BY <1>1, <1>2, <1>6 DEF OutsideTrade, ExitCovered
  <2> QED  BY <1>2, <2>1, <2>2, <2>3 DEF AccountTyped, ExitCovered
<1>7. CASE IgnoreReport
  <2>1. reports' \in Seq({"BUY", "SELL"})
    BY <1>2, <1>7 DEF IgnoreReport
  <2>2. held' = held /\ order' = order /\ outside' = outside
    BY <1>7 DEF IgnoreReport
  <2> QED  BY <1>1, <1>2, <1>3, <2>1, <2>2 DEF AccountTyped, ExitCovered
<1>8. CASE Lapse
  <2>1. /\ order' \in [side : {"NONE", "BUY", "SELL"}, left : Nat]
        /\ order'.left = 0
    BY <1>2, <1>8 DEF Lapse
  <2>2. held' = held /\ reports' = reports /\ outside' = outside
    BY <1>8 DEF Lapse
  <2> QED  BY <1>1, <1>2, <1>3, <2>1, <2>2 DEF AccountTyped, ExitCovered
<1> QED  BY <1>4, <1>5, <1>6, <1>7, <1>8

\* The steps of the engine keep types and never sell more than is held.
LEMMA EngineStep ==
    ASSUME AccountTyped, EngineTyped, DbTyped, ExitCovered,
           \/ SendBuy \/ StageBuy \/ BuyUnheard
           \/ BuyReport \/ SellReport \/ SellReportRevives
           \/ TimeoutBuy \/ SendSell \/ SellShort \/ TimeoutSell
           \/ Expire \/ Prune \/ Poll \/ OpenSim \/ FillSim \/ CloseSim
    PROVE  AccountTyped' /\ EngineTyped' /\ DbTyped' /\ ExitCovered'
<1>c. MaxHeld \in Nat /\ MaxRows \in Nat /\ Lot \in Nat
  BY SyncAssumption
<1>a. /\ held \in 0..MaxHeld /\ outside \in 0..MaxOutside
      /\ order \in [side : {"NONE", "BUY", "SELL"}, left : Nat]
      /\ reports \in Seq({"BUY", "SELL"})
  BY DEF AccountTyped
<1>e. /\ real \in TargetType /\ sim \in TargetType
      /\ book \in {"NONE", "PENDING", "HOLDING"}
  BY DEF EngineTyped
<1>d. rows \in [RowIds -> RowType] /\ lastRow \in 0..MaxRows
  BY DEF DbTyped
<1>k. Keep \in Nat \cup {Keep} /\ 0 \in Nat \cup {Keep} /\ Lot \in Nat \cup {Keep}
  BY <1>c
<1>s. {"WATCHING", "BUY_ORDERED", "HOLDING", "SELL_ORDERED", "COMPLETED",
       "EXPIRED"} \subseteq Statuses
  BY DEF Statuses
<1>n. NoTarget \in TargetType
  BY <1>c DEF NoTarget, TargetType
<1>t. reports # <<>> => Tail(reports) \in Seq({"BUY", "SELL"})
  BY <1>a
<1>u. ASSUME UNCHANGED <<held, order>> PROVE ExitCovered'
  BY <1>u DEF ExitCovered
<1>1. CASE SendBuy
  <2>1. order' \in [side : {"NONE", "BUY", "SELL"}, left : Nat] /\ order'.side = "BUY"
    BY <1>1, <1>c DEF SendBuy
  <2>2. UNCHANGED <<held, reports, outside>> /\ UNCHANGED dbVars
    BY <1>1 DEF SendBuy
  <2>3. EngineTyped'
    BY <1>1 DEF SendBuy, EngineTyped
  <2> QED  BY <2>1, <2>2, <2>3 DEF AccountTyped, ExitCovered, DbTyped, dbVars
<1>2. CASE StageBuy
  <2>1. real' \in TargetType
    BY <1>2, <1>e DEF StageBuy, TargetType, Statuses
  <2>2. rows' \in [RowIds -> RowType]
    BY <1>2, <1>k, <1>s, SetRowTyped DEF StageBuy
  <2> QED  BY <1>2, <2>1, <2>2, <1>u
              DEF StageBuy, AccountTyped, EngineTyped, DbTyped, accountVars
<1>b. CASE BuyUnheard
  BY <1>b, <1>u DEF BuyUnheard, AccountTyped, EngineTyped, DbTyped, accountVars, dbVars
<1>3. CASE BuyReport
  <2>1. real.qty + 1 \in Nat \cup {Keep}
    BY <1>e DEF TargetType
  <2>2. real' \in TargetType /\ rows' \in [RowIds -> RowType]
    BY <1>3, <2>1, <1>s, SetBothTyped DEF BuyReport
  <2> QED  BY <1>3, <2>2, <1>t, <1>u DEF BuyReport, AccountTyped, EngineTyped, DbTyped
<1>4. CASE SellReport
  <2>1. real' \in TargetType /\ rows' \in [RowIds -> RowType]
    BY <1>4, <1>k, <1>s, SetBothTyped DEF SellReport
  <2> QED  BY <1>4, <2>1, <1>t, <1>u DEF SellReport, AccountTyped, EngineTyped, DbTyped
<1>5. CASE SellReportRevives
  <2>1. lastRow' \in 0..MaxRows /\ lastRow + 1 \in 0..MaxRows
    BY <1>5, <1>c, <1>d DEF SellReportRevives
  <2>2. real' \in TargetType
    BY <1>5, <2>1 DEF SellReportRevives, TargetType, Statuses
  <2>3. \A r \in RowIds : /\ [NoRow EXCEPT !.st = "WATCHING"] \in RowType
                         /\ rows[r] \in RowType
                         /\ [rows[r] EXCEPT !.st = "COMPLETED"] \in RowType
    BY <1>d DEF RowType, NoRow, Statuses
  <2>4. rows' \in [RowIds -> RowType]
    BY <1>5, <2>3 DEF SellReportRevives
  <2> QED  BY <1>5, <2>1, <2>2, <2>4, <1>t, <1>u
           DEF SellReportRevives, AccountTyped, EngineTyped, DbTyped
<1>6. CASE TimeoutBuy
  <2>1. order' \in [side : {"NONE", "BUY", "SELL"}, left : Nat]
    BY <1>6, <1>a DEF TimeoutBuy
  <2>2. order' = order \/ order'.side = "BUY"
    BY <1>6, <1>a DEF TimeoutBuy
  <2>3. [real EXCEPT !.st = "HOLDING"] \in TargetType
    BY <1>e DEF TargetType, Statuses
  <2>4. real' \in TargetType /\ rows' \in [RowIds -> RowType]
    BY <1>6, <2>3, <1>d, <1>k, <1>s, SetBothTyped DEF TimeoutBuy
  <2> QED  BY <1>6, <2>1, <2>2, <2>4
              DEF TimeoutBuy, AccountTyped, EngineTyped, DbTyped, ExitCovered
<1>7. CASE SendSell
  <2>1. ExitQty \in Nat /\ ExitQty <= held
    BY <1>7, ExitQtyTyped DEF SendSell
  <2>2. /\ order' = [side |-> "SELL", left |-> ExitQty]
        /\ real' = [real EXCEPT !.st = "SELL_ORDERED", !.qty = ExitQty]
        /\ UNCHANGED <<held, reports, outside>>
    BY <1>7 DEF SendSell
  <2>3. /\ order' \in [side : {"NONE", "BUY", "SELL"}, left : Nat]
        /\ order'.left <= held'
    BY <2>1, <2>2
  <2>4. real' \in TargetType
    BY <2>1, <2>2, <1>e DEF TargetType, Statuses
  <2>5. rows' \in [RowIds -> RowType]
    BY <1>7, <1>k, <1>s, SetRowTyped DEF SendSell
  <2>6. EngineTyped' /\ DbTyped'
    BY <1>7, <2>4, <2>5 DEF SendSell, EngineTyped, DbTyped
  <2> QED  BY <2>2, <2>3, <2>6 DEF AccountTyped, ExitCovered
<1>8. CASE SellShort
  <2>1. real' \in TargetType /\ rows' \in [RowIds -> RowType]
    <3>1. CASE Sellable = 0
      <4>1. SetBoth("COMPLETED", Keep)
        BY <1>8, <3>1 DEF SellShort
      <4> QED  BY <4>1, <1>k, <1>s, SetBothTyped
    <3>2. CASE Sellable # 0
      <4>1. Sellable \in Nat
        BY <1>a, <1>c DEF Sellable, ExitCovered
      <4>2. real' \in TargetType
        BY <1>8, <3>2, <4>1, <1>e DEF SellShort, TargetType
      <4>3. SetRow(real.row, "HOLDING", Keep)
        BY <1>8, <3>2 DEF SellShort
      <4>4. rows' \in [RowIds -> RowType]
        BY <4>3, <1>k, <1>s, SetRowTyped
      <4> QED  BY <4>2, <4>4
    <3> QED  BY <3>1, <3>2
  <2> QED  BY <1>8, <2>1, <1>u
              DEF SellShort, AccountTyped, EngineTyped, DbTyped, accountVars
<1>9. CASE TimeoutSell
  <2>1. real' \in TargetType /\ rows' \in [RowIds -> RowType]
    BY <1>9, <1>k, <1>s, SetBothTyped DEF TimeoutSell
  <2>2. /\ order' \in [side : {"NONE", "BUY", "SELL"}, left : Nat]
        /\ order' = order \/ order'.left = 0
    BY <1>9, <1>a DEF TimeoutSell
  <2>3. held' = held /\ held \in Nat
    BY <1>9, <1>a, <1>c DEF TimeoutSell
  <2>4. ExitCovered'
    BY <2>2, <2>3 DEF ExitCovered
  <2> QED  BY <1>9, <2>1, <2>2, <2>4 DEF TimeoutSell, AccountTyped, EngineTyped, DbTyped
<1>10. CASE Expire
  <2>1. real' \in TargetType /\ rows' \in [RowIds -> RowType]
    BY <1>10, <1>k, <1>s, SetBothTyped DEF Expire
  <2> QED  BY <1>10, <2>1, <1>u DEF Expire, AccountTyped, EngineTyped, DbTyped, accountVars
<1>11. CASE Prune
  BY <1>11, <1>e, <1>n, <1>u
     DEF Prune, AccountTyped, EngineTyped, DbTyped, accountVars, dbVars
<1>12. CASE Poll
  BY <1>12, <1>u, LoadedIsTarget
     DEF Poll, AccountTyped, EngineTyped, DbTyped, accountVars, dbVars
<1>13. CASE OpenSim \/ FillSim \/ CloseSim
  <2>0. [sim EXCEPT !.st = "COMPLETED"] \in TargetType
    BY <1>e DEF TargetType, Statuses
  <2>1. sim' \in TargetType /\ book' \in {"NONE", "PENDING", "HOLDING"}
    BY <1>13, <2>0, SimIsTarget DEF OpenSim, FillSim, CloseSim
  <2>2. UNCHANGED <<accountVars, up, restarts, real, sending, known, dbVars>>
    BY <1>13 DEF OpenSim, FillSim, CloseSim
  <2>3. simFirst' \in BOOLEAN
    BY <1>13 DEF OpenSim, FillSim, CloseSim, EngineTyped
  <2> QED  BY <2>1, <2>2, <2>3, <1>u
              DEF AccountTyped, EngineTyped, DbTyped, accountVars, dbVars
<1> QED  BY <1>1, <1>2, <1>b, <1>3, <1>4, <1>5, <1>6, <1>7, <1>8, <1>9, <1>10,
            <1>11, <1>12, <1>13

\* The engine's steps leave what the sync works with alone.
LEMMA SyncPartKept ==
    ASSUME SyncPart, UNCHANGED syncVars, quiet' \in BOOLEAN
    PROVE  SyncPart'
  BY DEF SyncPart, SyncTyped, Between, SnapOK, UpdatesAreTrue, syncVars

\* A sync that is over leaves nothing behind.
LEMMA Forgotten ==
    ASSUME Forget, pc' \in {"idle", "load"}
    PROVE  SyncPart'
<1>1. Clean \in Update /\ Clean.st = "KEEP" /\ Clean.qty = Keep
  BY DEF Clean, Update
<1>2. sess' = [r \in RowIds |-> Clean]
  BY DEF Forget
<1>3. SyncTyped'
  BY <1>1, <1>2 DEF Forget, SyncTyped, Kinds
<1>4. UpdatesAreTrue'
  BY <1>1, <1>2 DEF UpdatesAreTrue
<1> QED  BY <1>2, <1>3, <1>4 DEF Forget, SyncPart, Between, SnapOK

LEMMA CrashStep ==
    ASSUME SyncInv, NEW newDay \in BOOLEAN, Crash(newDay)
    PROVE  SyncInv'
<1>c. MaxHeld \in Nat /\ MaxRows \in Nat
  BY SyncAssumption
<1>1. SyncPart'
  BY Forgotten DEF Crash
<1>2. NoTarget \in TargetType
  BY <1>c DEF NoTarget, TargetType
<1>3. /\ order \in [side : {"NONE", "BUY", "SELL"}, left : Nat]
      /\ held \in 0..MaxHeld /\ outside \in 0..MaxOutside
  BY DEF SyncInv, TypeOK, AccountTyped
<1>4. /\ order' \in [side : {"NONE", "BUY", "SELL"}, left : Nat]
      /\ order' = order \/ order'.left = 0
      /\ held' = held /\ outside' = outside /\ reports' = <<>>
  BY <1>3 DEF Crash
<1>5. AccountTyped' /\ ExitCovered'
  BY <1>3, <1>4, <1>c DEF AccountTyped, ExitCovered, SyncInv
<1>6. EngineTyped'
  <2>1. EngineTyped /\ restarts \in 0..MaxRestarts /\ MaxRestarts \in Nat
    BY SyncAssumption DEF SyncInv, TypeOK, EngineTyped
  <2>2. restarts' \in 0..MaxRestarts
    BY <2>1 DEF Crash
  <2> QED  BY <1>2, <2>1, <2>2 DEF Crash, EngineTyped
<1>7. DbTyped'
  <2>1. \A r \in RowIds : rows[r] \in RowType /\ [rows[r] EXCEPT !.old = TRUE] \in RowType
    BY DEF SyncInv, TypeOK, DbTyped, RowType
  <2>2. rows' \in [RowIds -> RowType]
    BY <2>1 DEF Crash, SyncInv, TypeOK, DbTyped
  <2> QED  BY <2>2 DEF Crash, SyncInv, TypeOK, DbTyped
<1> QED  BY <1>1, <1>5, <1>6, <1>7 DEF SyncInv, SyncPart, TypeOK

LEMMA LoadStep ==
    ASSUME SyncInv, Load
    PROVE  SyncInv'
<1>1. real' \in TargetType
  BY LoadedIsTarget DEF Load, SyncInv, TypeOK
<1>2. sim' \in TargetType
  <2>1. NoTarget \in TargetType
    BY SyncAssumption DEF NoTarget, TargetType
  <2> QED  BY <2>1, SimIsTarget DEF Load, SyncInv, TypeOK, EngineTyped
<1>3. AccountTyped' /\ ExitCovered' /\ EngineTyped' /\ DbTyped'
  BY <1>1, <1>2 DEF Load, SyncInv, TypeOK, AccountTyped, EngineTyped, DbTyped,
                    ExitCovered, accountVars, dbVars
<1>4. SyncPart'
  BY DEF Load, SyncInv, TypeOK, SyncPart, SyncTyped, Between, SnapOK, UpdatesAreTrue
<1> QED  BY <1>3, <1>4 DEF SyncInv, SyncPart, TypeOK

-----------------------------------------------------------------------------
\* The steps of the synchronisation.  What the trading side owns keeps its
\* type when the targets do.
LEMMA TradingKept ==
    ASSUME SyncInv, UNCHANGED <<accountVars, up, restarts, book, sending, known>>,
           real' \in TargetType, sim' \in TargetType, simFirst' \in BOOLEAN, DbTyped'
    PROVE  AccountTyped' /\ ExitCovered' /\ EngineTyped' /\ DbTyped'
  BY DEF SyncInv, TypeOK, AccountTyped, EngineTyped, ExitCovered, accountVars

LEMMA QueryStep ==
    ASSUME SyncInv, NEW k \in Kinds, NEW A \in SUBSET Exchanges, Query(k, A)
    PROVE  SyncInv'
<1>1. held \in Nat
  BY SyncAssumption DEF SyncInv, TypeOK, AccountTyped
<1>2. /\ snap' \in Nat /\ heldThen' \in Nat
      /\ snap' > 0 => snap' = heldThen'
      /\ Exchange \in A => snap' = heldThen'
  BY <1>1 DEF Query, ReadFrom, Exchange
<1>3. sess = [r \in RowIds |-> Clean] /\ sess' = sess
  BY DEF Query, SyncInv, Between
<1>4. pc' \in {"close", "confirm"} /\ answered' = A /\ kind' = k /\ quiet' = TRUE
  BY DEF Query
<1>5. SyncTyped'
  BY <1>2, <1>3, <1>4 DEF SyncTyped, SyncInv, TypeOK
<1>6. SnapOK'
  BY <1>2, <1>4 DEF SnapOK, Exchange
<1>7. UpdatesAreTrue'
  BY <1>3 DEF UpdatesAreTrue, Clean, Keep
<1>8. AccountTyped' /\ ExitCovered' /\ EngineTyped' /\ DbTyped'
  BY DEF Query, SyncInv, TypeOK, AccountTyped, EngineTyped, DbTyped, ExitCovered,
         accountVars, engineVars, dbVars
<1> QED  BY <1>4, <1>5, <1>6, <1>7, <1>8 DEF SyncInv, TypeOK, Between

\* An update of the session that is true of the balance read.
LEMMA PendTrue ==
    ASSUME SyncInv, NEW S, NEW s \in Statuses \cup {"KEEP"}, NEW q \in Nat \cup {Keep},
           Pend(S, s, q), heldThen' = heldThen,
           s = "COMPLETED" => heldThen = 0,
           s = "HOLDING" => heldThen > 0,
           q # Keep => q = heldThen
    PROVE  sess' \in [RowIds -> Update] /\ UpdatesAreTrue'
<1>1. \A r \in RowIds : sess[r] \in Update
  BY DEF SyncInv, TypeOK, SyncTyped
<1>2. \A r \in RowIds :
         [st |-> IF s = "KEEP" THEN sess[r].st ELSE s,
          qty |-> IF q \in {Keep, rows[r].qty} THEN sess[r].qty ELSE q] \in Update
  BY <1>1 DEF Update
<1>3. sess' \in [RowIds -> Update]
  BY <1>1, <1>2 DEF Pend
<1>4. ASSUME NEW r \in RowIds
      PROVE  /\ sess'[r].st \in {sess[r].st, s} \ {"KEEP"} \/ sess'[r].st = "KEEP"
             /\ sess'[r].qty \in {sess[r].qty, q}
  BY <1>1 DEF Pend, Update
<1>5. UpdatesAreTrue
  BY DEF SyncInv
<1>6. UpdatesAreTrue'
  BY <1>4, <1>5 DEF UpdatesAreTrue
<1> QED  BY <1>3, <1>6

LEMMA TakeTyped ==
    ASSUME NEW t \in TargetType, NEW s \in Statuses \cup {"KEEP"}, snap \in Nat
    PROVE  Take(t, s) \in TargetType
  BY DEF Take, TargetType

LEMMA CloseSoldStep ==
    ASSUME SyncInv, CloseSold
    PROVE  SyncInv'
<1>1. pc' \in {"recover", "confirm"} /\ UNCHANGED <<kind, answered, snap, heldThen, quiet>>
  BY DEF CloseSold
<1>2. sess' \in [RowIds -> Update] /\ UpdatesAreTrue'
  <2>1. CASE HoldingRows # {} /\ Exchange \in answered
    <3>1. Pend(HoldingRows, "COMPLETED", Keep)
      BY <2>1 DEF CloseSold
    <3>2. heldThen = 0
      BY <2>1 DEF CloseSold, SyncInv, SnapOK
    <3>3. "COMPLETED" \in Statuses \cup {"KEEP"} /\ Keep \in Nat \cup {Keep}
      BY DEF Statuses
    <3> QED  BY <1>1, <3>1, <3>2, <3>3, PendTrue
  <2>2. CASE ~(HoldingRows # {} /\ Exchange \in answered)
    <3>1. sess' = sess
      BY <2>2 DEF CloseSold
    <3> QED  BY <1>1, <3>1 DEF SyncInv, TypeOK, SyncTyped, UpdatesAreTrue
  <2> QED  BY <2>1, <2>2
<1>3. real' \in TargetType /\ sim' \in TargetType
  <2>1. real \in TargetType /\ sim \in TargetType
    BY DEF SyncInv, TypeOK, EngineTyped
  <2>2. /\ [real EXCEPT !.st = "COMPLETED"] \in TargetType
        /\ [sim EXCEPT !.st = "COMPLETED"] \in TargetType
    BY <2>1 DEF TargetType, Statuses
  <2> QED  BY <2>1, <2>2 DEF CloseSold, CompleteFirst
<1>4. AccountTyped' /\ ExitCovered' /\ EngineTyped' /\ DbTyped'
  <2>1. UNCHANGED <<accountVars, up, restarts, simFirst, book, sending, known, dbVars>>
    BY DEF CloseSold
  <2>2. DbTyped' /\ simFirst' \in BOOLEAN
    BY <2>1 DEF SyncInv, TypeOK, DbTyped, EngineTyped, dbVars
  <2> QED  BY <1>3, <2>1, <2>2, TradingKept
<1> QED  BY <1>1, <1>2, <1>4
            DEF CloseSold, SyncInv, TypeOK, SyncTyped, Between, SnapOK, Exchange

LEMMA CorrectQtyStep ==
    ASSUME SyncInv, CorrectQty
    PROVE  SyncInv'
<1>1. pc' \in {"recover", "confirm"} /\ UNCHANGED <<kind, answered, snap, heldThen, quiet>>
  BY DEF CorrectQty
<1>2. snap \in Nat /\ snap > 0 /\ snap = heldThen
  BY DEF CorrectQty, SyncInv, SnapOK, TypeOK, SyncTyped
<1>3. sess' \in [RowIds -> Update] /\ UpdatesAreTrue'
  <2>1. CASE Pend(HoldingRows, "KEEP", snap)
    BY <1>1, <1>2, <2>1, PendTrue
  <2>2. CASE sess' = sess
    BY <1>1, <2>2 DEF SyncInv, TypeOK, SyncTyped, UpdatesAreTrue
  <2> QED  BY <2>1, <2>2 DEF CorrectQty
<1>4. real' \in TargetType /\ sim' \in TargetType
  <2>1. real \in TargetType /\ sim \in TargetType
    BY DEF SyncInv, TypeOK, EngineTyped
  <2> QED  BY <1>2, <2>1, TakeTyped DEF CorrectQty
<1>5. AccountTyped' /\ ExitCovered' /\ EngineTyped' /\ DbTyped'
  <2>1. UNCHANGED <<accountVars, up, restarts, simFirst, book, sending, known, dbVars>>
    BY DEF CorrectQty
  <2>2. DbTyped' /\ simFirst' \in BOOLEAN
    BY <2>1 DEF SyncInv, TypeOK, DbTyped, EngineTyped, dbVars
  <2> QED  BY <1>4, <2>1, <2>2, TradingKept
<1> QED  BY <1>1, <1>3, <1>5
            DEF CorrectQty, SyncInv, TypeOK, SyncTyped, Between, SnapOK, Exchange

LEMMA ConfirmBoughtStep ==
    ASSUME SyncInv, ConfirmBought
    PROVE  SyncInv'
<1>1. pc' \in {"recover", "commit"} /\ UNCHANGED <<kind, answered, snap, heldThen, quiet>>
  BY DEF ConfirmBought
<1>2. snap \in Nat /\ (snap > 0 => snap = heldThen)
  BY DEF SyncInv, SnapOK, TypeOK, SyncTyped
<1>3. "HOLDING" \in Statuses \cup {"KEEP"}
  BY DEF Statuses
<1>4. sess' \in [RowIds -> Update] /\ UpdatesAreTrue'
  <2>1. CASE snap > 0 /\ Pend(RowsIn({"BUY_ORDERED"}), "HOLDING", snap)
    BY <1>1, <1>2, <1>3, <2>1, PendTrue
  <2>2. CASE sess' = sess
    BY <1>1, <2>2 DEF SyncInv, TypeOK, SyncTyped, UpdatesAreTrue
  <2> QED  BY <2>1, <2>2 DEF ConfirmBought
<1>5. real' \in TargetType /\ sim' \in TargetType
  <2>1. real \in TargetType /\ sim \in TargetType
    BY DEF SyncInv, TypeOK, EngineTyped
  <2> QED  BY <1>2, <1>3, <2>1, TakeTyped DEF ConfirmBought
<1>6. AccountTyped' /\ ExitCovered' /\ EngineTyped' /\ DbTyped'
  <2>1. UNCHANGED <<accountVars, up, restarts, simFirst, book, sending, known, dbVars>>
    BY DEF ConfirmBought
  <2>2. DbTyped' /\ simFirst' \in BOOLEAN
    BY <2>1 DEF SyncInv, TypeOK, DbTyped, EngineTyped, dbVars
  <2> QED  BY <1>5, <2>1, <2>2, TradingKept
<1> QED  BY <1>1, <1>4, <1>6
            DEF ConfirmBought, SyncInv, TypeOK, SyncTyped, Between, SnapOK, Exchange

LEMMA RecoverStep ==
    ASSUME SyncInv, Recover
    PROVE  SyncInv'
<1>1. pc' = "commit" /\ UNCHANGED <<kind, answered, snap, heldThen, quiet>>
  BY DEF Recover
<1>2. snap \in Nat /\ (snap > 0 => snap = heldThen)
  BY DEF SyncInv, SnapOK, TypeOK, SyncTyped
<1>3. "HOLDING" \in Statuses \cup {"KEEP"}
  BY DEF Statuses
<1>4. lastRow \in 0..MaxRows /\ MaxRows \in Nat
  BY SyncAssumption DEF SyncInv, TypeOK, DbTyped
<1> DEFINE r == IF Reusable # {} THEN Newest(Reusable) ELSE lastRow + 1
<1>5. /\ sess' \in [RowIds -> Update] /\ UpdatesAreTrue'
      /\ real' \in TargetType /\ lastRow' \in 0..MaxRows /\ simFirst' \in BOOLEAN
  <2>1. CASE snap > 0 /\ ~CodeTracked /\ HasRow
    <3>1. r \in 0..MaxRows
      <4>1. Reusable \in SUBSET RowIds
        BY DEF Reusable, RowsIn
      <4>2. Reusable # {} => Newest(Reusable) \in RowIds
        BY <4>1, NewestIsOne
      <4> QED  BY <1>4, <2>1, <4>2 DEF HasRow, RowIds
    <3>2. Pend({r}, "HOLDING", snap)
      BY <2>1 DEF Recover
    <3>3. sess' \in [RowIds -> Update] /\ UpdatesAreTrue'
      <4> HIDE DEF r
      <4> QED  BY <1>1, <1>2, <1>3, <2>1, <3>2, PendTrue
    <3>4. real' = [st |-> "HOLDING", qty |-> snap, row |-> r] \/ real' = real
      BY <2>1 DEF Recover
    <3>5. real' \in TargetType
      <4> HIDE DEF r
      <4> QED  BY <1>2, <3>1, <3>4 DEF TargetType, Statuses, SyncInv, TypeOK, EngineTyped
    <3>6. lastRow' \in 0..MaxRows
      BY <1>4, <2>1 DEF Recover, HasRow
    <3>7. simFirst' \in BOOLEAN
      BY <2>1 DEF Recover, SyncInv, TypeOK, EngineTyped
    <3> QED  BY <3>3, <3>5, <3>6, <3>7
  <2>2. CASE ~(snap > 0 /\ ~CodeTracked /\ HasRow)
    <3>1. UNCHANGED <<sess, lastRow, real, simFirst>>
      BY <2>2 DEF Recover
    <3> QED  BY <1>1, <3>1
                DEF SyncInv, TypeOK, SyncTyped, DbTyped, EngineTyped, UpdatesAreTrue
  <2> QED  BY <2>1, <2>2
<1>6. AccountTyped' /\ ExitCovered' /\ EngineTyped' /\ DbTyped'
  <2>1. UNCHANGED <<accountVars, up, restarts, sim, book, sending, known, rows>>
    BY DEF Recover
  <2>2. DbTyped' /\ sim' \in TargetType
    BY <1>5, <2>1 DEF SyncInv, TypeOK, DbTyped, EngineTyped
  <2> QED  BY <1>5, <2>1, <2>2, TradingKept
<1> QED  BY <1>1, <1>5, <1>6
            DEF Recover, SyncInv, TypeOK, SyncTyped, Between, SnapOK, Exchange

LEMMA EndStep ==
    ASSUME SyncInv, Commit \/ Rollback
    PROVE  SyncInv'
<1>1. SyncPart'
  <2>1. Forget /\ pc' \in {"idle", "load"}
    BY DEF Commit, Rollback, AfterSync
  <2> QED  BY <2>1, Forgotten
<1>2. rows' \in [RowIds -> RowType]
  <2>1. ASSUME NEW r \in RowIds PROVE Updated(r) \in RowType
    <3>1. rows[r] \in RowType /\ sess[r] \in Update
      BY DEF SyncInv, TypeOK, DbTyped, SyncTyped
    <3>2. (IF sess[r].st = "KEEP" THEN rows[r].st ELSE sess[r].st) \in Statuses \cup {"VOID"}
      BY <3>1 DEF RowType, Update
    <3>3. (IF sess[r].qty = Keep THEN rows[r].qty ELSE sess[r].qty) \in Nat
      BY <3>1 DEF RowType, Update
    <3> QED  BY <3>1, <3>2, <3>3 DEF Updated, RowType
  <2>2. CASE Commit
    BY <2>1, <2>2 DEF Commit
  <2>3. CASE Rollback
    BY <2>3 DEF Rollback, dbVars, SyncInv, TypeOK, DbTyped
  <2> QED  BY <2>2, <2>3
<1>3. UNCHANGED <<accountVars, engineVars, lastRow>>
  BY DEF Commit, Rollback, dbVars
<1>4. AccountTyped' /\ ExitCovered' /\ EngineTyped' /\ DbTyped'
  BY <1>2, <1>3 DEF SyncInv, TypeOK, AccountTyped, EngineTyped, DbTyped, ExitCovered,
                    accountVars, engineVars
<1> QED  BY <1>1, <1>4 DEF SyncInv, SyncPart, TypeOK

-----------------------------------------------------------------------------
LEMMA SyncInvInitially == Init => SyncInv
<1> SUFFICES ASSUME Init PROVE SyncInv
  OBVIOUS
<1>c. /\ 0 \in 0..MaxHeld /\ 0 \in 0..MaxOutside /\ 0 \in 0..MaxRestarts
      /\ 0 \in 0..MaxRows /\ 1 \in 0..MaxRows
  BY SyncAssumption
<1>1. AccountTyped /\ ExitCovered
  BY <1>c DEF Init, AccountTyped, ExitCovered, NoOrder
<1>2. EngineTyped
  <2>1. {"WATCHING", "NONE"} \subseteq Statuses \cup {"NONE", "PENDING"}
    BY DEF Statuses
  <2> QED  BY <1>c, <2>1 DEF Init, EngineTyped, TargetType, NoTarget
<1>3. DbTyped
  <2>1. NoRow \in RowType /\ [NoRow EXCEPT !.st = "WATCHING"] \in RowType
    BY DEF RowType, NoRow, Statuses
  <2> QED  BY <1>c, <2>1 DEF Init, DbTyped
<1>4. SyncTyped /\ Between
  BY DEF Init, SyncTyped, Between, Clean, Update, Keep, Kinds
<1>5. SnapOK /\ UpdatesAreTrue
  BY DEF Init, SnapOK, UpdatesAreTrue, Clean
<1> QED  BY <1>1, <1>2, <1>3, <1>4, <1>5 DEF SyncInv, TypeOK

\* Every step keeps the invariant.
LEMMA SyncInvKept == SyncInv /\ [Next]_vars => SyncInv'
<1> SUFFICES ASSUME SyncInv, [Next]_vars PROVE SyncInv'
  OBVIOUS
<1>t. SyncPart
  BY DEF SyncInv, SyncPart, TypeOK
<1>p. /\ AccountTyped /\ ExitCovered /\ EngineTyped /\ DbTyped
  BY DEF SyncInv, TypeOK
<1>1. CASE FillBuy \/ FillSell \/ OutsideTrade \/ IgnoreReport \/ Lapse
  <2>1. AccountTyped' /\ ExitCovered'
    BY <1>1, <1>p, AccountStep
  <2>2. Elsewhere /\ UNCHANGED <<engineVars, dbVars>>
    BY <1>1 DEF FillBuy, FillSell, OutsideTrade, IgnoreReport, Lapse
  <2>3. SyncPart'
    BY <2>2, <1>t, SyncPartKept DEF Elsewhere
  <2>4. EngineTyped' /\ DbTyped'
    BY <2>2, <1>p DEF EngineTyped, DbTyped, engineVars, dbVars
  <2> QED  BY <2>1, <2>3, <2>4 DEF SyncInv, SyncPart, TypeOK
<1>2. CASE \/ SendBuy \/ StageBuy \/ BuyUnheard
           \/ BuyReport \/ SellReport \/ SellReportRevives
           \/ TimeoutBuy \/ SendSell \/ SellShort \/ TimeoutSell
           \/ Expire \/ Prune \/ Poll \/ OpenSim \/ FillSim \/ CloseSim
  <2>1. AccountTyped' /\ EngineTyped' /\ DbTyped' /\ ExitCovered'
    BY <1>2, <1>p, EngineStep
  <2>2. Elsewhere
    BY <1>2 DEF SendBuy, StageBuy, BuyUnheard, BuyReport, SellReport, SellReportRevives,
       TimeoutBuy,
                SendSell, SellShort, TimeoutSell, Expire, Prune, Poll, OpenSim, FillSim,
                CloseSim
  <2>3. SyncPart'
    BY <2>2, <1>t, SyncPartKept DEF Elsewhere
  <2> QED  BY <2>1, <2>3 DEF SyncInv, SyncPart, TypeOK
<1>3. CASE \E newDay \in BOOLEAN : Crash(newDay)
  BY <1>3, CrashStep
<1>4. CASE Load
  BY <1>4, LoadStep
<1>5. CASE \E k \in Kinds, A \in SUBSET Exchanges : Query(k, A)
  BY <1>5, QueryStep
<1>6. CASE CloseSold \/ CorrectQty \/ ConfirmBought \/ Recover \/ Commit \/ Rollback
  BY <1>6, CloseSoldStep, CorrectQtyStep, ConfirmBoughtStep, RecoverStep, EndStep
<1>7. CASE UNCHANGED vars
  BY <1>7 DEF vars, accountVars, engineVars, dbVars, syncVars, SyncInv, TypeOK,
     AccountTyped,
              EngineTyped, DbTyped, SyncTyped, ExitCovered, Between, SnapOK, UpdatesAreTrue
<1> QED  BY <1>1, <1>2, <1>3, <1>4, <1>5, <1>6, <1>7 DEF Next, Trading, Sync

\* The synchronisation and the trading around it keep their types, for every
\* number of shares, rows, outside trades and restarts.
THEOREM SyncTypeCorrect == Spec => []TypeOK
<1>1. SyncInv => TypeOK
  BY DEF SyncInv
<1> QED  BY <1>1, SyncInvInitially, SyncInvKept, PTL DEF Spec

\* What a sync is about to write is true of the account at the moment the
\* broker was asked, whatever trades, reports, restarts and failed commits
\* come between (periodic_account_sync, sync_state_with_broker,
\* sync_balance_with_db).
THEOREM SyncUpdatesAreTrue == Spec => []UpdatesAreTrue
<1>1. SyncInv => UpdatesAreTrue
  BY DEF SyncInv
<1> QED  BY <1>1, SyncInvInitially, SyncInvKept, PTL DEF Spec
-----------------------------------------------------------------------------
(***************************************************************************)
(* What a sync leaves behind: it takes an argument of its own, about the   *)
(* rows as the commit is going to write them.                              *)
(***************************************************************************)

\* Every exchange answered, nothing but the sync took a step since, and it is
\* not the sync of a reconnection, which only confirms.
Full == quiet /\ answered = Exchanges /\ kind # "reconnect"

\* After the commit no row holds other shares than the account ...
WillAgree ==
    \A r \in RowIds : Updated(r).st \in Compared => snap > 0 /\ Updated(r).qty = snap

\* ... and somebody tracks them, or there was no row left to do it.
WillTrack ==
    \/ \E r \in RowIds : Updated(r).st \in Tracked
    \/ real.st \in Tracked \/ sim.st \in Tracked
    \/ ~HasRow

\* The part of the inductive invariant that says what a sync has reached at
\* each of its steps.
Settling ==
    /\ pc = "close" => sess = [r \in RowIds |-> Clean]
    /\ \A r \in RowIds : sess[r].st \in {"KEEP", "COMPLETED", "HOLDING"}
    /\ quiet => held = heldThen
    /\ Full /\ pc \in {"confirm", "recover", "commit"} => WillAgree
    /\ Full /\ pc = "commit" /\ snap > 0 => WillTrack

\* With every exchange's answer the sync works with the account's balance.
LEMMA FullBalance ==
    ASSUME SyncInv, Settling, Full, pc \notin {"idle", "load"}
    PROVE  /\ snap = held /\ snap = heldThen /\ snap \in Nat
           /\ Exchange \in answered
<1>1. Exchange \in answered
  BY DEF Full, Exchange, Exchanges
<1>2. snap = heldThen /\ held = heldThen
  BY <1>1 DEF SyncInv, SnapOK, Settling, Full
<1>3. snap \in Nat
  BY DEF SyncInv, TypeOK, SyncTyped
<1> QED  BY <1>1, <1>2, <1>3

\* The trading side disturbs a sync, and touches none of its locals.
LEMMA SettlingDisturbed ==
    ASSUME Settling, Elsewhere
    PROVE  Settling'
<1>1. quiet' = FALSE /\ pc' = pc /\ sess' = sess
  BY DEF Elsewhere, syncVars
<1> QED  BY <1>1 DEF Settling, Full

\* Nothing is left to say when a sync ended or its session was forgotten.
LEMMA SettlingForgotten ==
    ASSUME Forget, pc' \in {"idle", "load"}
    PROVE  Settling'
<1>1. quiet' = FALSE /\ sess' = [r \in RowIds |-> Clean] /\ Clean.st = "KEEP"
  BY DEF Forget, Clean
<1> QED  BY <1>1 DEF Settling, Full

\* The row r as the commit will write it, once the session has updates S.
LEMMA PendUpdates ==
    ASSUME SyncInv, NEW S, NEW s \in Statuses \cup {"KEEP"}, NEW q \in Nat \cup {Keep},
           Pend(S, s, q), UNCHANGED rows, NEW r \in RowIds
    PROVE  /\ r \notin S => sess'[r] = sess[r] /\ Updated(r)' = Updated(r)
           /\ r \in S /\ s # "KEEP" => sess'[r].st = s /\ Updated(r)'.st = s
           /\ r \in S /\ s = "KEEP" => sess'[r].st = sess[r].st
                                       /\ Updated(r)'.st = Updated(r).st
           /\ r \in S /\ q # Keep /\ sess[r].qty \in {Keep, q} => Updated(r)'.qty = q
<1>1. /\ rows[r] \in RowType /\ sess[r] \in Update /\ rows'[r] = rows[r]
  BY DEF SyncInv, TypeOK, DbTyped, SyncTyped
<1>2. sess'[r] = IF r \notin S THEN sess[r]
                 ELSE [st |-> IF s = "KEEP" THEN sess[r].st ELSE s,
                       qty |-> IF q \in {Keep, rows[r].qty} THEN sess[r].qty ELSE q]
  BY DEF Pend
<1>3. Updated(r).st = IF sess[r].st = "KEEP" THEN rows[r].st ELSE sess[r].st
  BY <1>1 DEF Updated, RowType
<1>4. /\ Updated(r)'.st = IF sess'[r].st = "KEEP" THEN rows[r].st ELSE sess'[r].st
      /\ Updated(r)'.qty = IF sess'[r].qty = Keep THEN rows[r].qty ELSE sess'[r].qty
  BY <1>1 DEF Updated, RowType
<1>5. CASE r \notin S
  <2>1. sess'[r] = sess[r]
    BY <1>2, <1>5
  <2> QED  BY <1>1, <1>5, <2>1 DEF Updated
<1>6. CASE r \in S
  <2>1. /\ sess'[r].st = IF s = "KEEP" THEN sess[r].st ELSE s
        /\ sess'[r].qty = IF q \in {Keep, rows[r].qty} THEN sess[r].qty ELSE q
    BY <1>2, <1>6
  <2>2. s # "KEEP" => sess'[r].st = s /\ Updated(r)'.st = s
    BY <1>4, <2>1
  <2>3. s = "KEEP" => sess'[r].st = sess[r].st /\ Updated(r)'.st = Updated(r).st
    BY <1>3, <1>4, <2>1
  <2>4. q # Keep /\ sess[r].qty \in {Keep, q} => Updated(r)'.qty = q
    BY <1>4, <2>1
  <2> QED  BY <1>6, <2>2, <2>3, <2>4
<1> QED  BY <1>5, <1>6

\* What is to be closed is going to be COMPLETED.
LEMMA PendCloses ==
    ASSUME SyncInv, NEW S, Pend(S, "COMPLETED", Keep), UNCHANGED rows,
           NEW r \in RowIds, r \in S
    PROVE  sess'[r].st = "COMPLETED" /\ Updated(r)'.st = "COMPLETED"
<1>1. "COMPLETED" \in Statuses \cup {"KEEP"}
  BY DEF Statuses
<1> QED  BY <1>1, PendUpdates DEF Keep

\* A quantity the session is about to write is the balance.
LEMMA PendingQty ==
    ASSUME SyncInv, snap = heldThen
    PROVE  \A r \in RowIds : sess[r].qty \in {Keep, snap}
  BY DEF SyncInv, UpdatesAreTrue

\* A clean session leaves every row as it is.
LEMMA CleanUpdates ==
    ASSUME SyncInv, sess = [r \in RowIds |-> Clean]
    PROVE  \A r \in RowIds : Updated(r).st = rows[r].st /\ Updated(r).qty = rows[r].qty
<1>1. \A r \in RowIds : rows[r] \in RowType /\ sess[r].st = "KEEP" /\ sess[r].qty = Keep
  BY DEF SyncInv, TypeOK, DbTyped, Clean
<1> QED  BY <1>1 DEF Updated, RowType

LEMMA SettlingQuery ==
    ASSUME SyncInv, NEW k \in Kinds, NEW A \in SUBSET Exchanges, Query(k, A)
    PROVE  Settling'
<1>1. sess = [r \in RowIds |-> Clean] /\ sess' = sess
  BY DEF Query, SyncInv, Between
<1>2. /\ heldThen' = held /\ held' = held /\ kind' = k
      /\ pc' = IF k = "reconnect" THEN "confirm" ELSE "close"
  BY DEF Query, accountVars
<1>3. \A r \in RowIds : sess'[r].st = "KEEP"
  BY <1>1 DEF Clean
<1>4. ~(Full' /\ pc' \in {"confirm", "recover", "commit"})
  BY <1>2 DEF Full
<1> QED  BY <1>1, <1>2, <1>3, <1>4 DEF Settling

\* The account is empty: every row that held shares is going to be COMPLETED.
LEMMA SettlingCloseSold ==
    ASSUME SyncInv, Settling, CloseSold
    PROVE  Settling'
<1>1. /\ sess = [r \in RowIds |-> Clean]
      /\ pc' \in {"recover", "confirm"}
      /\ UNCHANGED <<held, rows, kind, answered, snap, heldThen, quiet>>
  BY DEF CloseSold, Settling, accountVars, dbVars
<1>2. \A r \in RowIds : sess[r].st = "KEEP" /\ Updated(r).st = rows[r].st
  BY <1>1, CleanUpdates DEF Clean
<1>3. HoldingRows = {r \in RowIds : rows[r].st \in Compared} /\ Compared' = Compared
  BY <1>1 DEF HoldingRows, RowsIn, Compared
<1>4. /\ "COMPLETED" \in Statuses \cup {"KEEP"} /\ Keep \in Nat \cup {Keep}
      /\ "COMPLETED" \notin Compared
  BY DEF Statuses, Compared
<1>5. CASE HoldingRows # {} /\ Exchange \in answered
  <2>1. Pend(HoldingRows, "COMPLETED", Keep)
    BY <1>5 DEF CloseSold
  <2>2. ASSUME NEW r \in RowIds
        PROVE  sess'[r].st \in {"KEEP", "COMPLETED"} /\ Updated(r)'.st \notin Compared
    <3>1. CASE r \in HoldingRows
      <4>1. sess'[r].st = "COMPLETED" /\ Updated(r)'.st = "COMPLETED"
        BY <1>1, <2>1, <3>1, PendCloses
      <4> QED  BY <1>4, <4>1
    <3>2. CASE r \notin HoldingRows
      <4>1. sess'[r] = sess[r] /\ Updated(r)' = Updated(r)
        BY <1>1, <1>4, <2>1, <3>2, PendUpdates
      <4> QED  BY <1>2, <1>3, <3>2, <4>1
    <3> QED  BY <3>1, <3>2
  <2>3. WillAgree'
    BY <1>3, <2>2 DEF WillAgree
  <2> QED  BY <1>1, <2>2, <2>3 DEF Settling
<1>6. CASE ~(HoldingRows # {} /\ Exchange \in answered)
  <2>1. sess' = sess
    BY <1>6 DEF CloseSold
  <2>2. \A r \in RowIds : Updated(r)' = Updated(r)
    BY <1>1, <2>1 DEF Updated
  <2>3. Full => WillAgree'
    <3>1. SUFFICES ASSUME Full PROVE WillAgree'
      OBVIOUS
    <3>2. HoldingRows = {}
      BY <1>6, <3>1, FullBalance DEF CloseSold
    <3> QED  BY <1>2, <1>3, <2>2, <3>2 DEF WillAgree
  <2> QED  BY <1>1, <1>2, <2>1, <2>3 DEF Settling, Full
<1> QED  BY <1>5, <1>6

\* The account has shares: every row that holds some is going to have as many.
LEMMA SettlingCorrectQty ==
    ASSUME SyncInv, Settling, CorrectQty
    PROVE  Settling'
<1>1. /\ sess = [r \in RowIds |-> Clean]
      /\ pc' \in {"recover", "confirm"} /\ snap > 0
      /\ UNCHANGED <<held, rows, kind, answered, snap, heldThen, quiet>>
  BY DEF CorrectQty, Settling, accountVars, dbVars
<1>2. \A r \in RowIds : /\ sess[r].st = "KEEP" /\ sess[r].qty = Keep
                        /\ Updated(r).st = rows[r].st /\ Updated(r).qty = rows[r].qty
  BY <1>1, CleanUpdates DEF Clean
<1>3. HoldingRows = {r \in RowIds : rows[r].st \in Compared} /\ Compared' = Compared
  BY <1>1 DEF HoldingRows, RowsIn, Compared
<1>4. snap \in Nat /\ snap # Keep
  BY DEF SyncInv, TypeOK, SyncTyped, Keep
<1>5. CASE \E r \in HoldingRows : rows[r].qty # snap
  <2>1. Pend(HoldingRows, "KEEP", snap)
    BY <1>5 DEF CorrectQty
  <2>2. ASSUME NEW r \in RowIds
        PROVE  /\ sess'[r].st = "KEEP"
               /\ Updated(r)'.st \in Compared => Updated(r)'.qty = snap
    <3>1. CASE r \in HoldingRows
      BY <1>1, <1>2, <1>4, <2>1, <3>1, PendUpdates
    <3>2. CASE r \notin HoldingRows
      <4>1. sess'[r] = sess[r] /\ Updated(r)' = Updated(r)
        BY <1>1, <1>4, <2>1, <3>2, PendUpdates
      <4> QED  BY <1>2, <1>3, <3>2, <4>1
    <3> QED  BY <3>1, <3>2
  <2>3. WillAgree'
    BY <1>1, <1>3, <2>2 DEF WillAgree
  <2> QED  BY <1>1, <2>2, <2>3 DEF Settling
<1>6. CASE \A r \in HoldingRows : rows[r].qty = snap
  <2>1. sess' = sess
    BY <1>6 DEF CorrectQty
  <2>2. \A r \in RowIds : Updated(r)' = Updated(r)
    BY <1>1, <2>1 DEF Updated
  <2>3. WillAgree'
    BY <1>1, <1>2, <1>3, <1>6, <2>2 DEF WillAgree
  <2> QED  BY <1>1, <1>2, <2>1, <2>3 DEF Settling
<1> QED  BY <1>5, <1>6

\* Rows in S are going to hold the balance, the others are left alone.
LEMMA PendAgrees ==
    ASSUME SyncInv, Settling, Full, WillAgree, pc \notin {"idle", "load"}, snap > 0,
           NEW S, Pend(S, "HOLDING", snap), UNCHANGED <<rows, kind, snap>>
    PROVE  WillAgree'
<1>1. snap \in Nat /\ snap = heldThen /\ snap # Keep
  BY FullBalance DEF Keep
<1>2. "HOLDING" \in Statuses /\ Compared' = Compared
  BY DEF Statuses, Compared
<1>3. ASSUME NEW r \in RowIds, Updated(r)'.st \in Compared
      PROVE  Updated(r)'.qty = snap
  <2>1. CASE r \in S
    BY <1>1, <1>2, <2>1, PendUpdates, PendingQty
  <2>2. CASE r \notin S
    <3>1. Updated(r)' = Updated(r)
      BY <1>1, <1>2, <2>2, PendUpdates
    <3> QED  BY <1>3, <3>1 DEF WillAgree
  <2> QED  BY <2>1, <2>2
<1> QED  BY <1>2, <1>3 DEF WillAgree

\* The session only knows the statuses it writes.
LEMMA PendStatuses ==
    ASSUME SyncInv, Settling, NEW S, Pend(S, "HOLDING", snap), UNCHANGED rows
    PROVE  \A r \in RowIds : sess'[r].st \in {"KEEP", "COMPLETED", "HOLDING"}
<1>1. snap \in Nat \cup {Keep} /\ "HOLDING" \in Statuses \cup {"KEEP"}
  BY DEF SyncInv, TypeOK, SyncTyped, Statuses
<1>2. ASSUME NEW r \in RowIds
      PROVE  sess'[r].st \in {sess[r].st, "HOLDING"}
  BY <1>1, PendUpdates
<1> QED  BY <1>2 DEF Settling

\* What waits for shares the account has was bought.
LEMMA SettlingConfirmBought ==
    ASSUME SyncInv, Settling, ConfirmBought
    PROVE  Settling'
<1>1. /\ pc = "confirm"
      /\ pc' = IF kind = "reconnect" THEN "commit" ELSE "recover"
      /\ UNCHANGED <<held, rows, kind, answered, snap, heldThen, quiet>>
  BY DEF ConfirmBought, accountVars, dbVars
<1>2. CASE RowsIn({"BUY_ORDERED"}) # {} /\ snap > 0
  <2>1. Pend(RowsIn({"BUY_ORDERED"}), "HOLDING", snap)
    BY <1>2 DEF ConfirmBought
  <2>2. Full => WillAgree'
    BY <1>1, <1>2, <2>1, PendAgrees DEF Settling
  <2>3. \A r \in RowIds : sess'[r].st \in {"KEEP", "COMPLETED", "HOLDING"}
    BY <1>1, <2>1, PendStatuses
  <2> QED  BY <1>1, <2>2, <2>3 DEF Settling, Full
<1>3. CASE ~(RowsIn({"BUY_ORDERED"}) # {} /\ snap > 0)
  <2>1. sess' = sess
    BY <1>3 DEF ConfirmBought
  <2>2. WillAgree => WillAgree'
    BY <1>1, <2>1 DEF WillAgree, Updated, Compared
  <2> QED  BY <1>1, <2>1, <2>2 DEF Settling, Full
<1> QED  BY <1>2, <1>3

\* A row that is at work now is at work after the commit as well.
LEMMA TrackedStays ==
    ASSUME SyncInv, Settling, snap > 0, NEW r \in RowsIn(Tracked)
    PROVE  Updated(r).st \in Tracked
<1>1. rows[r] \in RowType /\ rows[r].st \in Tracked /\ r \in RowIds
  BY DEF RowsIn, SyncInv, TypeOK, DbTyped
<1>2. sess[r].st \in {"KEEP", "HOLDING"}
  <2>1. snap = heldThen /\ snap \in Nat
    BY DEF SyncInv, SnapOK, TypeOK, SyncTyped
  <2>2. sess[r].st # "COMPLETED"
    BY <1>1, <2>1 DEF SyncInv, UpdatesAreTrue
  <2> QED  BY <1>1, <2>2 DEF Settling
<1>3. Updated(r).st = IF sess[r].st = "KEEP" THEN rows[r].st ELSE sess[r].st
  BY <1>1 DEF Updated, RowType
<1> QED  BY <1>1, <1>2, <1>3 DEF Tracked

\* Shares nobody tracks get a row, or there is none to be had.
LEMMA SettlingRecover ==
    ASSUME SyncInv, Settling, Recover
    PROVE  Settling'
<1>1. /\ pc = "recover" /\ pc' = "commit"
      /\ UNCHANGED <<held, rows, kind, answered, snap, heldThen, quiet, sim>>
  BY DEF Recover, accountVars
<1> DEFINE r == IF Reusable # {} THEN Newest(Reusable) ELSE lastRow + 1
<1>2. CASE snap > 0 /\ ~CodeTracked /\ HasRow
  <2>1. r \in RowIds
    <3>1. Reusable \in SUBSET RowIds
      BY DEF Reusable, RowsIn
    <3>2. Reusable # {} => Newest(Reusable) \in RowIds
      BY <3>1, NewestIsOne
    <3>3. lastRow \in 0..MaxRows /\ MaxRows \in Nat
      BY SyncAssumption DEF SyncInv, TypeOK, DbTyped
    <3> QED  BY <1>2, <3>2, <3>3 DEF HasRow, RowIds
  <2>2. PICK x \in RowIds : Pend({x}, "HOLDING", snap)
    BY <1>2, <2>1 DEF Recover
  <2>3. Full => WillAgree'
    BY <1>1, <1>2, <2>2, PendAgrees DEF Settling
  <2>4. \A y \in RowIds : sess'[y].st \in {"KEEP", "COMPLETED", "HOLDING"}
    BY <1>1, <2>2, PendStatuses
  <2>5. Updated(x)'.st = "HOLDING"
    <3>1. snap \in Nat \cup {Keep} /\ "HOLDING" \in Statuses \cup {"KEEP"}
      BY DEF SyncInv, TypeOK, SyncTyped, Statuses
    <3> QED  BY <1>1, <2>2, <3>1, PendUpdates
  <2>6. WillTrack'
    BY <2>2, <2>5 DEF WillTrack, Tracked
  <2> QED  BY <1>1, <2>3, <2>4, <2>6 DEF Settling, Full
<1>3. CASE ~(snap > 0 /\ ~CodeTracked /\ HasRow)
  <2>1. UNCHANGED <<sess, lastRow, real>>
    BY <1>3 DEF Recover
  <2>2. \A x \in RowIds : Updated(x)' = Updated(x)
    BY <1>1, <2>1 DEF Updated
  <2>3. WillAgree => WillAgree'
    BY <1>1, <2>2 DEF WillAgree, Compared
  <2>4. snap > 0 => WillTrack'
    <3>1. SUFFICES ASSUME snap > 0 PROVE WillTrack'
      OBVIOUS
    <3>2. HasRow' = HasRow
      BY <1>1, <2>1 DEF HasRow, Reusable, RowsIn
    <3>3. CASE RowsIn(Tracked) # {}
      <4>1. PICK x \in RowsIn(Tracked) : Updated(x).st \in Tracked
        BY <3>1, <3>3, TrackedStays
      <4>2. x \in RowIds /\ Updated(x)'.st \in Tracked
        BY <2>2, <4>1 DEF RowsIn
      <4> QED  BY <4>2 DEF WillTrack
    <3>4. CASE RowsIn(Tracked) = {}
      BY <1>1, <1>3, <2>1, <3>1, <3>2, <3>4 DEF CodeTracked, WillTrack
    <3> QED  BY <3>3, <3>4
  <2> QED  BY <1>1, <2>1, <2>3, <2>4 DEF Settling, Full
<1> QED  BY <1>2, <1>3

LEMMA SettlingInitially == Init => Settling
  BY DEF Init, Settling, Full, Clean

LEMMA SettlingKept == SyncInv /\ Settling /\ [Next]_vars => Settling'
<1> SUFFICES ASSUME SyncInv, Settling, [Next]_vars PROVE Settling'
  OBVIOUS
<1>1. CASE \/ FillBuy \/ FillSell \/ OutsideTrade \/ IgnoreReport \/ Lapse
           \/ SendBuy \/ StageBuy \/ BuyUnheard
           \/ BuyReport \/ SellReport \/ SellReportRevives
           \/ TimeoutBuy \/ SendSell \/ SellShort \/ TimeoutSell
           \/ Expire \/ Prune \/ Poll \/ OpenSim \/ FillSim \/ CloseSim
  <2>1. Elsewhere
    BY <1>1 DEF FillBuy, FillSell, OutsideTrade, IgnoreReport, Lapse, SendBuy, StageBuy,
                BuyUnheard, BuyReport, SellReport, SellReportRevives, TimeoutBuy,
                SendSell, SellShort,
                TimeoutSell, Expire, Prune, Poll, OpenSim, FillSim, CloseSim
  <2> QED  BY <2>1, SettlingDisturbed
<1>2. CASE \E newDay \in BOOLEAN : Crash(newDay)
  BY <1>2, SettlingForgotten DEF Crash
<1>3. CASE Load
  BY <1>3 DEF Load, Settling, Full
<1>4. CASE \E k \in Kinds, A \in SUBSET Exchanges : Query(k, A)
  BY <1>4, SettlingQuery
<1>5. CASE CloseSold \/ CorrectQty \/ ConfirmBought \/ Recover
  BY <1>5, SettlingCloseSold, SettlingCorrectQty, SettlingConfirmBought, SettlingRecover
<1>6. CASE Commit \/ Rollback
  <2>1. Forget /\ pc' \in {"idle", "load"}
    BY <1>6 DEF Commit, Rollback, AfterSync
  <2> QED  BY <2>1, SettlingForgotten
<1>7. CASE UNCHANGED vars
  <2>1. UNCHANGED <<held, lastRow, rows, real, sim, pc, kind, answered, snap, sess,
                    heldThen,
                    quiet>>
    BY <1>7 DEF vars, accountVars, engineVars, dbVars, syncVars
  <2>2. WillAgree => WillAgree'
    BY <2>1 DEF WillAgree, Updated, Compared
  <2>3. WillTrack => WillTrack'
    BY <2>1 DEF WillTrack, Updated, HasRow, Reusable, RowsIn
  <2> QED  BY <2>1, <2>2, <2>3 DEF Settling, Full
<1> QED  BY <1>1, <1>2, <1>3, <1>4, <1>5, <1>6, <1>7 DEF Next, Trading, Sync

\* The commit of a sync that worked with a full answer and was not disturbed.
LEMMA CommitSettles ==
    ASSUME SyncInv, Settling, Commit, quiet, answered = Exchanges, kind # "reconnect"
    PROVE  /\ \A r \in RowIds : rows'[r].st \in Compared =>
                  held > 0 /\ rows'[r].qty = held
           /\ held > 0 => CodeTracked' \/ ~HasRow
<1>1. Full /\ pc = "commit"
  BY DEF Full, Commit
<1>2. snap = held
  BY <1>1, FullBalance
<1>3. \A r \in RowIds : rows'[r] = Updated(r)
  BY DEF Commit
<1>4. WillAgree /\ (snap > 0 => WillTrack)
  BY <1>1 DEF Settling
<1>5. real' = real /\ sim' = sim
  BY DEF Commit, engineVars
<1>6. held > 0 => CodeTracked' \/ ~HasRow
  BY <1>2, <1>3, <1>4, <1>5 DEF WillTrack, CodeTracked, RowsIn
<1> QED  BY <1>2, <1>3, <1>4, <1>6 DEF WillAgree

\* A sync that had every exchange's answer and that nothing disturbed leaves
\* rows and account in agreement, and nobody's shares untracked while there
\* is a row to track them (sync_balance_with_db, periodic_account_sync), for
\* every number of shares, rows, outside trades and restarts.
THEOREM SyncsSettle == Spec => SyncSettles
<1>1. SyncInv /\ Settling /\ [Next]_vars =>
        [Commit /\ quiet /\ answered = Exchanges /\ kind # "reconnect" =>
           /\ \A r \in RowIds : rows'[r].st \in Compared =>
                  held > 0 /\ rows'[r].qty = held
           /\ held > 0 => CodeTracked' \/ ~HasRow]_vars
  BY CommitSettles
<1> QED  BY <1>1, SyncInvInitially, SyncInvKept, SettlingInitially, SettlingKept, PTL
         DEF Spec, SyncSettles
=============================================================================
