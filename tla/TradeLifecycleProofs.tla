------------------------ MODULE TradeLifecycleProofs ------------------------
(***************************************************************************)
(* The safety properties of TradeLifecycle for every number of orders,     *)
(* legs, shares and rows, from one inductive invariant, and its refinement *)
(* of LateFillWindow.                                                      *)
(***************************************************************************)
EXTENDS TradeLifecycleRefinement, TLAPS

\* Locals of the main loop that are set at its program points.
LocalsOK ==
    /\ pc = "stage" => hand \in OrdNos /\ left > 0
    /\ pc \in ExitPCs \cup {"rollback", "assumeSold"} => tid \in Recs
    /\ pc = "db" => dbJob \in Write

\* The broker's books.
BooksOK ==
    \A o \in OrdNos :
        /\ side[o] = "NONE" <=> o >= nextNo
        /\ side[o] = "NONE" => ~live[o] /\ filled[o] = 0
        /\ filled[o] <= qty[o]
        /\ side[o] = "BUY" /\ live[o] => filled[o] < qty[o]
        /\ legFill[o] <= filled[o]

\* Reports on the wire count shares the legs have not counted yet.
WireOK ==
    /\ \A i \in 1..Len(wire) :
          /\ side[wire[i].no] # "NONE"
          /\ wire[i].upTo <= filled[wire[i].no]
          /\ legFill[wire[i].no] + wire[i].qty <= wire[i].upTo
    /\ \A i, j \in 1..Len(wire) :
          i < j /\ wire[i].no = wire[j].no =>
              wire[i].upTo + wire[j].qty <= wire[j].upTo

\* Orders the engine's tables name are accepted BUY orders.
TablesOK ==
    /\ \A o \in OrdNos : o \in Legs \/ o \in sent \/ o \in term => side[o] = "BUY"
    /\ pc = "stage" => /\ side[hand] = "BUY"
                       /\ hand \notin Legs /\ hand \notin sent

\* Where a bundle can be, and what the thread that submits it knows of it.
BundleOK ==
    /\ pc \in {"send", "stage"} =>
          /\ status \in {"WATCHING", "BUY_ORDERED", "HOLDING"}
          /\ \A o \in OrdNos : o \in Legs => o \in sent
          /\ \A o \in sent : o \in Legs \/ o \in term
    /\ pc \notin {"send", "stage"} => sent = {}
    /\ pc \in {"decide", "toWatch"} => Legs = {}
    /\ status = "WATCHING" /\ pc \notin {"send", "stage"} => Legs = {}
    /\ status = "BUY_ORDERED" /\ pc \notin {"decide", "toWatch"} => odno \in Legs
    /\ status = "DROPPED" => pc = "idle"

\* The exit order of a SELL_ORDERED target is the last one sent.
ExitOK ==
    /\ status = "SELL_ORDERED" =>
          pc \in {"sellSend", "sellBind", "sellShort", "sellFail", "idle",
                  "rollback", "assumeSold"}
    /\ pc = "sellBind" =>
          /\ hand \in OrdNos
          /\ side[hand] = "SELL"
          /\ \A o \in OrdNos : side[o] = "SELL" => o <= hand

TypeInv == TypeOK /\ LocalsOK
Ledger == BooksOK /\ WireOK /\ ClosedLegIsDead
Control == TablesOK /\ BundleOK /\ ExitOK /\ ExitClosesEntry /\ ExitKnowsItsOrder
IInv == TypeInv /\ Ledger /\ Control

-----------------------------------------------------------------------------
(***************************************************************************)
(* Types.                                                                  *)
(***************************************************************************)

LEMMA AcceptType ==
    ASSUME BrokerTypeOK, NEW s \in {"BUY", "SELL"}, NEW q \in Nat, Accept(s, q)
    PROVE  BrokerTypeOK'
  BY MaxOrdersAssumption DEF BrokerTypeOK, Accept, OrdNos

LEMMA FillType ==
    ASSUME BrokerTypeOK, NEW o \in OrdNos, NEW q \in 1..qty[o], Fill(o, q)
    PROVE  BrokerTypeOK'
  <1>1. [no |-> o, qty |-> q, upTo |-> filled[o] + q] \in Report
    BY DEF BrokerTypeOK, Report
  <1> QED BY <1>1 DEF BrokerTypeOK, Fill

LEMMA CloseType ==
    ASSUME BrokerTypeOK, NEW S \in SUBSET OrdNos, Close(S)
    PROVE  BrokerTypeOK'
  <1>1. live' \in [OrdNos -> BOOLEAN]
    BY DEF BrokerTypeOK, Close
  <1>2. free' \in Nat
    BY DEF BrokerTypeOK, Close
  <1> QED BY <1>1, <1>2 DEF BrokerTypeOK, Close

LEMMA ReceiveType ==
    ASSUME BrokerTypeOK, NEW r, Receive(r)
    PROVE  BrokerTypeOK' /\ r \in Report
  BY DEF BrokerTypeOK, Receive

LEMMA InitType == Init => TypeInv
  BY LifecycleAssumption, MaxOrdersAssumption
  DEF Init, BrokerInit, TypeInv, TypeOK, BrokerTypeOK, LocalsOK, OrdNos, Recs,
      Statuses, LegStates, MainPCs, ExitPCs, NoWrite, NoRec, Write, Report

\* A row's update keeps the rows' types.
LEMMA WriteType ==
    ASSUME dbSt \in [Recs -> Statuses], dbQty \in [Recs -> Nat],
           NEW w \in Write, ApplyWrite(w)
    PROVE  dbSt' \in [Recs -> Statuses] /\ dbQty' \in [Recs -> Nat]
  BY DEF Write, Statuses, Keep, ApplyWrite

LEMMA StageType ==
    ASSUME TypeOK, NEW S \in SUBSET OrdNos, StageOrders(S)
    PROVE  /\ status' \in Statuses
           /\ reqQty' \in Nat
           /\ odno' \in OrdNos
           /\ legSt' \in [OrdNos -> LegStates]
           /\ legFill' \in [OrdNos -> Nat]
  BY DEF TypeOK, StageOrders, Statuses, LegStates

LEMMA RetireType ==
    ASSUME TypeOK, RetireLegs
    PROVE  /\ reqQty' \in Nat /\ entFilled' \in Nat
           /\ legSt' \in [OrdNos -> LegStates]
           /\ legFill' \in [OrdNos -> Nat]
           /\ term' \in SUBSET OrdNos
  BY DEF TypeOK, RetireLegs, LegStates, Legs

LEMMA CancelType ==
    ASSUME TypeOK, NEW force, NEW done \in MainPCs, CancelLegs(force, done)
    PROVE  /\ BrokerTypeOK'
           /\ pc' \in {"idle", done}
           /\ reqQty' \in Nat /\ entFilled' \in Nat
           /\ legSt' \in [OrdNos -> LegStates]
           /\ legFill' \in [OrdNos -> Nat]
           /\ term' \in SUBSET OrdNos
  <1>1. PICK ok \in SUBSET OpenLegs, dead \in SUBSET OpenLegs :
          /\ Close(ok \cup dead)
          /\ \/ RetireLegs /\ pc' = done
             \/ /\ legSt' = [o \in OrdNos |-> IF o \in ok THEN "CANCELLED"
                                              ELSE legSt[o]]
                /\ pc' = "idle"
                /\ UNCHANGED <<legFill, reqQty, entFilled, term>>
    BY DEF CancelLegs
  <1>2. ok \cup dead \in SUBSET OrdNos
    BY DEF OpenLegs
  <1>3. BrokerTypeOK'
    BY <1>1, <1>2, CloseType DEF TypeOK
  <1>4. CASE RetireLegs /\ pc' = done
    BY <1>3, <1>4, RetireType
  <1>5. CASE /\ legSt' = [o \in OrdNos |-> IF o \in ok THEN "CANCELLED"
                                              ELSE legSt[o]]
             /\ pc' = "idle"
             /\ UNCHANGED <<legFill, reqQty, entFilled, term>>
    BY <1>3, <1>5 DEF TypeOK, LegStates
  <1> QED BY <1>1, <1>4, <1>5

LEMMA SubmissionType ==
    ASSUME TypeInv, Submission
    PROVE  TypeInv'
  <1> USE LifecycleAssumption DEF TypeInv, LocalsOK, MainPCs, ExitPCs
  <1>u. UNCHANGED brokerVars => BrokerTypeOK'
    BY DEF TypeOK, BrokerTypeOK, brokerVars
  <1>1. ASSUME NEW n \in 1..MaxLegs, BeginEntry(n) PROVE TypeInv'
    BY <1>1, <1>u DEF TypeOK, BeginEntry, stockVars, entryVars, dbVars
  <1>2. CASE SendLegAccepted
    <2>1. BrokerTypeOK'
      BY <1>2, AcceptType DEF TypeOK, SendLegAccepted
    <2>2. nextNo \in OrdNos
      BY <1>2 DEF TypeOK, SendLegAccepted, Accept, BrokerTypeOK, OrdNos
    <2> QED
      BY <1>2, <2>1, <2>2 DEF TypeOK, SendLegAccepted, stockVars, entryVars, dbVars
  <1>3. CASE SendLegRefused
    BY <1>3, <1>u DEF TypeOK, SendLegRefused, stockVars, entryVars, dbVars
  <1>4. CASE SendLegUnheard
    <2>1. BrokerTypeOK'
      BY <1>4, AcceptType DEF TypeOK, SendLegUnheard
    <2> QED
      BY <1>4, <2>1 DEF TypeOK, SendLegUnheard, stockVars, entryVars, dbVars
  <1>5. CASE StageLeg
    <2>1. sent \cup {hand} \in SUBSET OrdNos
      BY <1>5 DEF TypeOK, StageLeg
    <2>2. StageOrders(sent \cup {hand})
      BY <1>5 DEF StageLeg
    <2> QED
      BY <1>5, <1>u, <2>1, <2>2, StageType DEF TypeOK, StageLeg, StageOrders, dbVars
  <1>6. CASE AbandonEntry
    BY <1>6, <1>u DEF TypeOK, AbandonEntry, stockVars, entryVars, dbVars
  <1>7. CASE FinishEntry
    <2>1. sent \in SUBSET OrdNos /\ StageOrders(sent)
      BY <1>7 DEF TypeOK, FinishEntry
    <2>2. [rec |-> rec, st |-> "BUY_ORDERED", qty |-> want] \in Write
      BY DEF TypeOK, Write, Statuses
    <2> QED
      BY <1>7, <1>u, <2>1, <2>2, StageType
      DEF TypeOK, FinishEntry, StageOrders, ThenWrite, dbVars
  <1> QED
    BY <1>1, <1>2, <1>3, <1>4, <1>5, <1>6, <1>7 DEF Submission

LEMMA ReconcileType ==
    ASSUME TypeInv, Reconcile
    PROVE  TypeInv'
  <1> USE DEF TypeInv, LocalsOK, MainPCs, ExitPCs
  <1>u. UNCHANGED brokerVars => BrokerTypeOK'
    BY DEF TypeOK, BrokerTypeOK, brokerVars
  <1>1. CASE EntryTimeout
    <2>1. CancelLegs(TRUE, "decide") /\ "decide" \in MainPCs
      BY <1>1 DEF EntryTimeout
    <2> QED
      BY <1>1, <2>1, CancelType DEF TypeOK, EntryTimeout, dbVars
  <1>2. CASE ReconcileHold
    BY <1>2, <1>u DEF TypeOK, ReconcileHold, Statuses, dbVars
  <1>3. CASE ReconcileSeesNothing
    BY <1>3, <1>u DEF TypeOK, ReconcileSeesNothing, stockVars, entryVars, dbVars
  <1>4. CASE ReconcileWatch
    <2>1. [rec |-> rec, st |-> "WATCHING", qty |-> 0] \in Write
      BY DEF TypeOK, Write, Statuses
    <2> QED
      BY <1>4, <1>u, <2>1 DEF TypeOK, ReconcileWatch, ThenWrite, Statuses, dbVars
  <1>5. CASE PrimaryResolved
    <2>1. [rec |-> rec, st |-> "HOLDING", qty |-> Keep] \in Write
      BY DEF TypeOK, Write, Statuses
    <2> QED
      BY <1>5, <1>u, <2>1
      DEF TypeOK, PrimaryResolved, ThenWrite, Statuses, entryVars, dbVars
  <1> QED
    BY <1>1, <1>2, <1>3, <1>4, <1>5 DEF Reconcile

LEMMA ExitType ==
    ASSUME TypeInv, Exit
    PROVE  TypeInv'
  <1> USE DEF TypeInv, LocalsOK, MainPCs, ExitPCs
  <1>u. UNCHANGED brokerVars => BrokerTypeOK'
    BY DEF TypeOK, BrokerTypeOK, brokerVars
  <1>w. ASSUME NEW r \in Recs, NEW st \in Statuses
        PROVE  [rec |-> r, st |-> st, qty |-> Keep] \in Write
    BY DEF Write
  <1>1. CASE StartExit
    <2>1. CASE OpenLegs # {}
      <3>1. CancelLegs(FALSE, "exitQty") /\ "exitQty" \in MainPCs
        BY <1>1, <2>1 DEF StartExit
      <3> QED
        BY <1>1, <3>1, CancelType DEF TypeOK, StartExit, dbVars
    <2>2. CASE OpenLegs = {}
      BY <1>1, <2>2, <1>u DEF TypeOK, StartExit, dbVars
    <2> QED BY <2>1, <2>2
  <1>2. CASE ReadExitQty
    BY <1>2, <1>u DEF TypeOK, ReadExitQty, stockVars, entryVars, dbVars
  <1>3. CASE LockForSale
    <2>1. [rec |-> tid, st |-> "SELL_ORDERED", qty |-> Keep] \in Write
      BY <1>3, <1>w DEF LockForSale, Statuses
    <2>2. dbSt' \in [Recs -> Statuses] /\ dbQty' \in [Recs -> Nat]
      <3>1. CASE UNCHANGED <<dbSt, dbQty>>
        BY <3>1 DEF TypeOK
      <3>2. CASE ApplyWrite([rec |-> tid, st |-> "SELL_ORDERED", qty |-> Keep])
        BY <2>1, <3>2, WriteType DEF TypeOK
      <3> QED BY <1>3, <3>1, <3>2 DEF LockForSale
    <2> QED
      BY <1>3, <1>u, <2>2 DEF TypeOK, LockForSale, Statuses, entryVars
  <1>4. CASE SendSellAccepted
    <2>1. BrokerTypeOK'
      BY <1>4, AcceptType DEF TypeOK, SendSellAccepted
    <2>2. nextNo \in OrdNos
      BY <1>4 DEF TypeOK, SendSellAccepted, Accept, BrokerTypeOK, OrdNos
    <2> QED
      BY <1>4, <2>1, <2>2 DEF TypeOK, SendSellAccepted, stockVars, entryVars, dbVars
  <1>5. CASE SendSellShort
    BY <1>5, <1>u
    DEF TypeOK, BrokerTypeOK, SendSellShort, stockVars, entryVars, dbVars
  <1>6. CASE SendSellRefused
    BY <1>6, <1>u DEF TypeOK, SendSellRefused, stockVars, entryVars, dbVars
  <1>7. CASE SendSellUnheard
    <2>1. BrokerTypeOK'
      BY <1>7, AcceptType DEF TypeOK, SendSellUnheard
    <2> QED
      BY <1>7, <2>1 DEF TypeOK, SendSellUnheard, stockVars, entryVars, dbVars
  <1>8. CASE BindSell
    BY <1>8, <1>u DEF TypeOK, BindSell, entryVars, dbVars
  <1>9. CASE SellShort
    <2>1. status' \in Statuses
      BY <1>9 DEF SellShort, Statuses
    <2>2. [rec |-> tid, st |-> status', qty |-> Keep] \in Write
      BY <1>9, <1>w, <2>1 DEF SellShort
    <2> QED
      BY <1>9, <1>u, <2>1, <2>2 DEF TypeOK, SellShort, ThenWrite, entryVars, dbVars
  <1>10. CASE SellFailed
    <2>1. [rec |-> tid, st |-> "HOLDING", qty |-> Keep] \in Write
      BY <1>10, <1>w DEF SellFailed, Statuses
    <2> QED
      BY <1>10, <1>u, <2>1
      DEF TypeOK, SellFailed, ThenWrite, Statuses, entryVars, dbVars
  <1>11. CASE CancelSell
    <2>1. BrokerTypeOK'
      BY <1>11, CloseType DEF TypeOK, CancelSell, SellTimedOut
    <2> QED
      BY <1>11, <2>1
      DEF TypeOK, CancelSell, stockVars, entryVars, dbVars
  <1>12. CASE CancelSellUnheard
    <2>1. BrokerTypeOK'
      BY <1>12, CloseType DEF TypeOK, CancelSellUnheard, SellTimedOut
    <2> QED
      BY <1>12, <2>1
      DEF TypeOK, CancelSellUnheard, stockVars, entryVars, mainVars, dbVars
  <1>13. CASE CancelSellResolved
    BY <1>13, <1>u DEF TypeOK, CancelSellResolved, stockVars, entryVars, dbVars
  <1>14. CASE RollbackSell
    <2>1. [rec |-> tid, st |-> "HOLDING", qty |-> Keep] \in Write
      BY <1>14, <1>w DEF RollbackSell, Statuses
    <2> QED
      BY <1>14, <1>u, <2>1
      DEF TypeOK, RollbackSell, ThenWrite, Statuses, entryVars, dbVars
  <1>15. CASE AssumeSold
    <2>1. [rec |-> tid, st |-> "COMPLETED", qty |-> Keep] \in Write
      BY <1>15, <1>w DEF AssumeSold, Statuses
    <2> QED
      BY <1>15, <1>u, <2>1
      DEF TypeOK, AssumeSold, ThenWrite, Statuses, entryVars, dbVars
  <1> QED
    BY <1>1, <1>2, <1>3, <1>4, <1>5, <1>6, <1>7, <1>8, <1>9, <1>10, <1>11,
       <1>12, <1>13, <1>14, <1>15 DEF Exit

LEMMA ReportType ==
    ASSUME TypeInv, Reports
    PROVE  TypeInv'
  <1> USE DEF TypeInv, LocalsOK, MainPCs, ExitPCs
  <1>1. PICK r : /\ Receive(r)
                 /\ \/ BuyReport(r) \/ SellReportRevives(r)
                    \/ SellReportCompletes(r) \/ SellReportFails(r)
                    \/ ReportIgnored(r)
    BY DEF Reports, BuyReport, SellReportRevives, SellReportCompletes,
           SellReportFails, ReportIgnored
  <1>2. BrokerTypeOK' /\ r \in Report
    BY <1>1, ReceiveType DEF TypeOK
  <1>3. CASE BuyReport(r)
    <2>1. EntryFill(r) /\ UNCHANGED mainVars
      BY <1>3 DEF BuyReport
    <2>2. bq + r.qty \in Nat /\ entFilled + r.qty \in Nat
      BY <1>2 DEF TypeOK, Report
    <2>3. [rec |-> rec, st |-> "HOLDING", qty |-> bq + r.qty] \in Write
      BY <2>2 DEF TypeOK, Write, Statuses
    <2>4. /\ status' \in Statuses /\ bq' \in Nat
          /\ writers' \subseteq Write
      BY <2>1, <2>2, <2>3 DEF TypeOK, EntryFill, Statuses
    <2>5. /\ reqQty' \in Nat /\ entFilled' \in Nat
          /\ legSt' \in [OrdNos -> LegStates]
          /\ legFill' \in [OrdNos -> Nat]
          /\ term' \in SUBSET OrdNos
      <3>1. CASE RetireLegs
        BY <3>1, RetireType
      <3>2. CASE ~RetireLegs
        BY <1>2, <2>1, <2>2, <3>2
        DEF TypeOK, EntryFill, Report, LegStates
      <3> QED BY <3>1, <3>2
    <2> QED
      BY <1>2, <2>1, <2>4, <2>5 DEF TypeOK, EntryFill, mainVars
  <1>4. CASE SellReportRevives(r)
    <2>1. rec + 1 \in Recs
      BY <1>4, LifecycleAssumption DEF TypeOK, SellReportRevives, Recs
    <2> QED
      BY <1>2, <1>4, <2>1, RetireType
      DEF TypeOK, SellReportRevives, Statuses, mainVars
  <1>5. CASE SellReportCompletes(r)
    <2>1. [rec |-> rec, st |-> "COMPLETED", qty |-> Keep] \in Write
      BY DEF TypeOK, Write, Statuses
    <2> QED
      BY <1>2, <1>5, <2>1, RetireType
      DEF TypeOK, SellReportCompletes, Statuses, mainVars
  <1>6. CASE SellReportFails(r) \/ ReportIgnored(r)
    BY <1>2, <1>6
    DEF TypeOK, SellReportFails, ReportIgnored, stockVars, entryVars, mainVars, dbVars
  <1> QED BY <1>1, <1>3, <1>4, <1>5, <1>6

\* The inductive step of the type invariant.
LEMMA StepType == TypeInv /\ [Next]_vars => TypeInv'
  <1> SUFFICES ASSUME TypeInv, [Next]_vars PROVE TypeInv'
    OBVIOUS
  <1> USE DEF TypeInv, LocalsOK
  <1>u. UNCHANGED brokerVars => BrokerTypeOK'
    BY DEF TypeOK, BrokerTypeOK, brokerVars
  <1>1. CASE Prune
    BY <1>1, <1>u DEF TypeOK, Prune, entryVars, mainVars, dbVars
  <1>2. CASE DbWrite
    <2>1. dbSt' \in [Recs -> Statuses] /\ dbQty' \in [Recs -> Nat]
      BY <1>2, WriteType DEF TypeOK, DbWrite
    <2> QED
      BY <1>2, <1>u, <2>1
      DEF TypeOK, DbWrite, stockVars, entryVars, MainPCs, ExitPCs
  <1>3. ASSUME NEW w \in writers, RunWriter(w) PROVE TypeInv'
    <2>1. dbSt' \in [Recs -> Statuses] /\ dbQty' \in [Recs -> Nat]
      BY <1>3, WriteType DEF TypeOK, RunWriter
    <2> QED
      BY <1>3, <1>u, <2>1 DEF TypeOK, RunWriter, stockVars, entryVars, mainVars
  <1>4. ASSUME NEW o \in term, ExpireTerm(o) PROVE TypeInv'
    BY <1>4, <1>u DEF TypeOK, ExpireTerm, entryVars, mainVars, dbVars
  <1>5. CASE BrokerFills
    <2>1. BrokerTypeOK'
      BY <1>5, FillType DEF TypeOK, BrokerFills
    <2> QED
      BY <1>5, <2>1
      DEF TypeOK, BrokerFills, stockVars, entryVars, mainVars, dbVars
  <1>6. CASE BrokerLapses
    <2>1. BrokerTypeOK'
      BY <1>6, CloseType DEF TypeOK, BrokerLapses
    <2> QED
      BY <1>6, <2>1
      DEF TypeOK, BrokerLapses, stockVars, entryVars, mainVars, dbVars
  <1>7. CASE UNCHANGED vars
    BY <1>7, <1>u DEF TypeOK, vars, stockVars, entryVars, mainVars, dbVars
  <1> QED
    BY <1>1, <1>2, <1>3, <1>4, <1>5, <1>6, <1>7, SubmissionType, ReconcileType,
       ExitType, ReportType
    DEF Next, Background

\* Every variable keeps its type, in every instance.
THEOREM TypeCorrect == Spec => []TypeOK
  <1>1. TypeInv => TypeOK
    BY DEF TypeInv
  <1> QED BY <1>1, InitType, StepType, PTL DEF Spec

-----------------------------------------------------------------------------
(***************************************************************************)
(* The ledger: what memory counted for a leg is at most what the broker    *)
(* filled, so a leg counted full is full.                                  *)
(***************************************************************************)

LEMMA WireElement ==
    ASSUME BrokerTypeOK
    PROVE  \A i \in 1..Len(wire) : /\ wire[i].no \in OrdNos
                                   /\ wire[i].qty \in Nat \ {0}
                                   /\ wire[i].upTo \in Nat
  <1>1. wire \in Seq(Report)
    BY DEF BrokerTypeOK
  <1>2. \A i \in 1..Len(wire) : wire[i] \in Report
    BY <1>1
  <1> QED BY <1>2 DEF Report

\* Steps that neither fill, accept nor receive anything.
LEMMA LedgerQuiet ==
    ASSUME TypeOK, TypeOK', Ledger,
           UNCHANGED <<nextNo, side, qty, filled, wire>>,
           \A o \in OrdNos : live'[o] => live[o],
           \A o \in OrdNos : legFill'[o] <= legFill[o],
           \A o \in OrdNos : legSt'[o] \in {"FILLED", "CANCELLED"} =>
               legSt[o] \in {"FILLED", "CANCELLED"} \/ ~live'[o]
    PROVE  Ledger'
  <1>t. /\ filled \in [OrdNos -> Nat] /\ legFill \in [OrdNos -> Nat]
        /\ legFill' \in [OrdNos -> Nat]
    BY DEF TypeOK, BrokerTypeOK
  <1>1. BooksOK'
    BY <1>t DEF Ledger, BooksOK
  <1>2. WireOK'
    <2>1. \A i \in 1..Len(wire) :
             wire[i].no \in OrdNos /\ wire[i].qty \in Nat /\ wire[i].upTo \in Nat
      BY WireElement DEF TypeOK
    <2> QED BY <1>t, <2>1 DEF Ledger, WireOK
  <1>3. ClosedLegIsDead'
    BY DEF Ledger, ClosedLegIsDead
  <1> QED BY <1>1, <1>2, <1>3 DEF Ledger

LEMMA LedgerAccept ==
    ASSUME TypeOK, Ledger, TablesOK,
           NEW s \in {"BUY", "SELL"}, NEW q \in Nat, Accept(s, q),
           s = "BUY" => q > 0,
           UNCHANGED <<legSt, legFill>>
    PROVE  Ledger'
  <1>t. /\ filled \in [OrdNos -> Nat] /\ legFill \in [OrdNos -> Nat]
        /\ side \in [OrdNos -> {"NONE", "BUY", "SELL"}]
        /\ qty \in [OrdNos -> Nat] /\ live \in [OrdNos -> BOOLEAN]
    BY DEF TypeOK, BrokerTypeOK
  <1>a. /\ nextNo \in OrdNos /\ nextNo' = nextNo + 1
        /\ side' = [side EXCEPT ![nextNo] = s]
        /\ qty' = [qty EXCEPT ![nextNo] = q]
        /\ live' = [live EXCEPT ![nextNo] = TRUE]
        /\ UNCHANGED <<filled, wire, legSt, legFill>>
    BY MaxOrdersAssumption DEF Accept, OrdNos, TypeOK, BrokerTypeOK
  <1>n. side[nextNo] = "NONE" /\ filled[nextNo] = 0
    BY <1>a DEF Ledger, BooksOK, OrdNos
  <1>1. BooksOK'
    <2> SUFFICES ASSUME NEW o \in OrdNos
                 PROVE  /\ side'[o] = "NONE" <=> o >= nextNo'
                        /\ side'[o] = "NONE" => ~live'[o] /\ filled'[o] = 0
                        /\ filled'[o] <= qty'[o]
                        /\ side'[o] = "BUY" /\ live'[o] => filled'[o] < qty'[o]
                        /\ legFill'[o] <= filled'[o]
      BY DEF BooksOK
    <2>1. CASE o = nextNo
      BY <1>t, <1>a, <1>n, <2>1 DEF Ledger, BooksOK, OrdNos
    <2>2. CASE o # nextNo
      BY <1>t, <1>a, <2>2 DEF Ledger, BooksOK, OrdNos
    <2> QED BY <2>1, <2>2
  <1>2. WireOK'
    <2>1. \A i \in 1..Len(wire) : wire[i].no \in OrdNos
      BY WireElement DEF TypeOK
    <2>2. \A i \in 1..Len(wire) : side'[wire[i].no] # "NONE"
      BY <1>t, <1>a, <2>1 DEF Ledger, WireOK
    <2> QED BY <1>a, <2>2 DEF Ledger, WireOK
  <1>3. ClosedLegIsDead'
    <2>1. legSt[nextNo] = "NONE"
      BY <1>a, <1>n DEF TablesOK, Legs
    <2> QED BY <1>t, <1>a, <2>1 DEF Ledger, ClosedLegIsDead
  <1> QED BY <1>1, <1>2, <1>3 DEF Ledger

LEMMA LedgerFill ==
    ASSUME TypeOK, Ledger,
           NEW o \in OrdNos, NEW q \in 1..qty[o], Fill(o, q),
           UNCHANGED <<legSt, legFill>>
    PROVE  Ledger'
  <1>t. /\ filled \in [OrdNos -> Nat] /\ legFill \in [OrdNos -> Nat]
        /\ qty \in [OrdNos -> Nat] /\ live \in [OrdNos -> BOOLEAN]
    BY DEF TypeOK, BrokerTypeOK
  <1>q. q \in Nat /\ q > 0
    BY <1>t
  <1> DEFINE new == [no |-> o, qty |-> q, upTo |-> filled[o] + q]
  <1>f. /\ live[o] /\ filled[o] + q <= qty[o]
        /\ filled' = [filled EXCEPT ![o] = @ + q]
        /\ live' = [live EXCEPT ![o] = filled[o] + q < qty[o]]
        /\ wire' = Append(wire, new)
        /\ UNCHANGED <<nextNo, side, qty, legSt, legFill>>
    BY DEF Fill
  <1>s. side[o] # "NONE"
    BY <1>f DEF Ledger, BooksOK
  <1>1. BooksOK'
    <2> SUFFICES ASSUME NEW a \in OrdNos
                 PROVE  /\ side'[a] = "NONE" <=> a >= nextNo'
                        /\ side'[a] = "NONE" => ~live'[a] /\ filled'[a] = 0
                        /\ filled'[a] <= qty'[a]
                        /\ side'[a] = "BUY" /\ live'[a] => filled'[a] < qty'[a]
                        /\ legFill'[a] <= filled'[a]
      BY DEF BooksOK
    <2>1. CASE a # o
      BY <1>t, <1>f, <2>1 DEF Ledger, BooksOK
    <2>2. CASE a = o
      <3>1. filled'[o] = filled[o] + q /\ (live'[o] <=> filled[o] + q < qty[o])
        BY <1>t, <1>f
      <3>2. legFill[o] <= filled[o] /\ (side[o] = "NONE" <=> o >= nextNo)
        BY DEF Ledger, BooksOK
      <3>3. /\ filled[o] \in Nat /\ legFill[o] \in Nat /\ qty[o] \in Nat
            /\ UNCHANGED <<side, qty, nextNo, legFill>>
        BY <1>t, <1>f
      <3> QED BY <1>q, <1>f, <1>s, <2>2, <3>1, <3>2, <3>3
    <2> QED BY <2>1, <2>2
  <1>2. WireOK'
    <2>1. \A i \in 1..Len(wire) :
             wire[i].no \in OrdNos /\ wire[i].qty \in Nat /\ wire[i].upTo \in Nat
      BY WireElement DEF TypeOK
    <2>2. /\ Len(wire') = Len(wire) + 1 /\ Len(wire) \in Nat
          /\ \A i \in 1..Len(wire) : wire'[i] = wire[i]
          /\ wire'[Len(wire) + 1] = new
      BY <1>f DEF TypeOK, BrokerTypeOK
    <2> HIDE DEF new
    <2>3. new.no = o /\ new.qty = q /\ new.upTo = filled[o] + q
      BY DEF new
    <2>4. \A i \in 1..Len(wire') : i \in 1..Len(wire) \/ i = Len(wire) + 1
      BY <2>2
    <2>5. \A i \in 1..Len(wire') :
             /\ side'[wire'[i].no] # "NONE"
             /\ wire'[i].upTo <= filled'[wire'[i].no]
             /\ legFill'[wire'[i].no] + wire'[i].qty <= wire'[i].upTo
      <3> SUFFICES ASSUME NEW i \in 1..Len(wire')
                   PROVE  /\ side'[wire'[i].no] # "NONE"
                          /\ wire'[i].upTo <= filled'[wire'[i].no]
                          /\ legFill'[wire'[i].no] + wire'[i].qty <= wire'[i].upTo
        OBVIOUS
      <3>1. CASE i = Len(wire) + 1
        BY <1>t, <1>f, <1>s, <2>2, <2>3, <3>1 DEF Ledger, BooksOK
      <3>2. CASE i \in 1..Len(wire)
        <4> DEFINE p == wire[i]
        <4>1. /\ side[p.no] # "NONE" /\ p.upTo <= filled[p.no]
              /\ legFill[p.no] + p.qty <= p.upTo
              /\ p.no \in OrdNos /\ p.upTo \in Nat /\ wire'[i] = p
          BY <2>1, <2>2, <3>2 DEF Ledger, WireOK
        <4>2. filled'[p.no] \in Nat /\ filled'[p.no] >= filled[p.no]
          BY <1>t, <1>q, <1>f, <4>1
        <4>3. filled[p.no] \in Nat /\ UNCHANGED <<side, legFill>>
          BY <1>t, <1>f, <4>1
        <4> HIDE DEF p
        <4> QED BY <4>1, <4>2, <4>3
      <3> QED BY <2>4, <3>1, <3>2
    <2>6. \A i, j \in 1..Len(wire') :
             i < j /\ wire'[i].no = wire'[j].no =>
                 wire'[i].upTo + wire'[j].qty <= wire'[j].upTo
      <3> SUFFICES ASSUME NEW i \in 1..Len(wire'), NEW j \in 1..Len(wire'),
                          i < j, wire'[i].no = wire'[j].no
                   PROVE  wire'[i].upTo + wire'[j].qty <= wire'[j].upTo
        OBVIOUS
      <3>1. i \in 1..Len(wire)
        BY <2>2
      <3>2. CASE j = Len(wire) + 1
        <4>1. wire'[i] = wire[i] /\ wire'[j] = new /\ wire[i].no = o
          BY <2>2, <2>3, <3>1, <3>2
        <4>2. wire[i].upTo <= filled[o] /\ wire[i].upTo \in Nat
          BY <2>1, <3>1, <4>1 DEF Ledger, WireOK
        <4> QED BY <1>t, <1>q, <2>3, <4>1, <4>2
      <3>3. CASE j \in 1..Len(wire)
        BY <2>2, <3>1, <3>3 DEF Ledger, WireOK
      <3> QED BY <2>4, <3>2, <3>3
    <2> QED BY <2>5, <2>6 DEF WireOK
  <1>3. ClosedLegIsDead'
    BY <1>t, <1>f DEF Ledger, ClosedLegIsDead
  <1> QED BY <1>1, <1>2, <1>3 DEF Ledger

\* A report leaves the wire; what it adds to its leg it covers.
LEMMA LedgerReceive ==
    ASSUME TypeOK, TypeOK', Ledger, NEW r, Receive(r),
           \A o \in OrdNos : \/ legFill'[o] <= legFill[o]
                             \/ o = r.no /\ legFill'[o] = legFill[o] + r.qty,
           \A o \in OrdNos : legSt'[o] \in {"FILLED", "CANCELLED"} =>
               \/ legSt[o] \in {"FILLED", "CANCELLED"}
               \/ side[o] = "BUY" /\ qty[o] <= legFill'[o]
    PROVE  Ledger'
  <1>t. /\ filled \in [OrdNos -> Nat] /\ legFill \in [OrdNos -> Nat]
        /\ legFill' \in [OrdNos -> Nat] /\ qty \in [OrdNos -> Nat]
    BY DEF TypeOK, BrokerTypeOK
  <1>w. \A i \in 1..Len(wire) :
           wire[i].no \in OrdNos /\ wire[i].qty \in Nat /\ wire[i].upTo \in Nat
    BY WireElement DEF TypeOK
  <1>l. /\ Len(wire) \in Nat /\ Len(wire) > 0 /\ r = wire[1]
        /\ Len(wire') = Len(wire) - 1
        /\ \A i \in 1..Len(wire') : i + 1 \in 1..Len(wire) /\ wire'[i] = wire[i + 1]
    <2>1. wire \in Seq(Report)
      BY DEF TypeOK, BrokerTypeOK
    <2>2. wire # <<>> /\ r = Head(wire) /\ wire' = Tail(wire)
      BY DEF Receive
    <2> QED BY <2>1, <2>2
  <1>u. UNCHANGED <<nextNo, side, qty, filled, live>>
    BY DEF Receive
  <1>r. /\ r.no \in OrdNos /\ r.qty \in Nat /\ r.upTo \in Nat
        /\ r.upTo <= filled[r.no] /\ legFill[r.no] + r.qty <= r.upTo
    BY <1>w, <1>l DEF Ledger, WireOK
  <1>1. BooksOK'
    BY <1>t, <1>u, <1>r DEF Ledger, BooksOK
  <1>2. WireOK'
    <2>1. ASSUME NEW i \in 1..Len(wire')
          PROVE  /\ side'[wire'[i].no] # "NONE"
                 /\ wire'[i].upTo <= filled'[wire'[i].no]
                 /\ legFill'[wire'[i].no] + wire'[i].qty <= wire'[i].upTo
      <3> DEFINE k == i + 1
                 p == wire[k]
      <3>1. /\ k \in 1..Len(wire) /\ 1 < k /\ 1 \in 1..Len(wire)
            /\ wire'[i] = p
        BY <1>l
      <3> HIDE DEF k
      <3>2. /\ side[p.no] # "NONE" /\ p.upTo <= filled[p.no]
            /\ legFill[p.no] + p.qty <= p.upTo
            /\ p.no \in OrdNos /\ p.qty \in Nat /\ p.upTo \in Nat
        BY <1>w, <3>1 DEF Ledger, WireOK
      <3>3. r.no = p.no => r.upTo + p.qty <= p.upTo
        BY <1>l, <3>1 DEF Ledger, WireOK
      <3> HIDE DEF p
      <3>4. legFill'[p.no] + p.qty <= p.upTo
        <4>1. CASE legFill'[p.no] <= legFill[p.no]
          BY <1>t, <3>2, <4>1
        <4>2. CASE p.no = r.no /\ legFill'[p.no] = legFill[p.no] + r.qty
          BY <1>t, <1>r, <3>2, <3>3, <4>2
        <4> QED BY <3>2, <4>1, <4>2
      <3> QED BY <1>u, <3>1, <3>2, <3>4
    <2>2. ASSUME NEW i \in 1..Len(wire'), NEW j \in 1..Len(wire'),
                 i < j, wire'[i].no = wire'[j].no
          PROVE  wire'[i].upTo + wire'[j].qty <= wire'[j].upTo
      <3>1. i + 1 < j + 1
        BY <2>2, <1>l
      <3> QED BY <1>l, <2>2, <3>1 DEF Ledger, WireOK
    <2> QED BY <2>1, <2>2 DEF WireOK
  <1>3. ClosedLegIsDead'
    <2> SUFFICES ASSUME NEW o \in OrdNos, legSt'[o] \in {"FILLED", "CANCELLED"}
                 PROVE  ~live'[o]
      BY DEF ClosedLegIsDead
    <2>1. CASE legSt[o] \in {"FILLED", "CANCELLED"}
      BY <1>u, <2>1 DEF Ledger, ClosedLegIsDead
    <2>2. CASE side[o] = "BUY" /\ qty[o] <= legFill'[o]
      BY <1>1, <1>t, <1>u, <2>2 DEF BooksOK, Ledger
    <2> QED BY <2>1, <2>2
  <1> QED BY <1>1, <1>2, <1>3 DEF Ledger

-----------------------------------------------------------------------------
(***************************************************************************)
(* The whole invariant, one step for each action.                          *)
(***************************************************************************)

\* Steps that leave the broker and the bundle alone.
LEMMA LedgerFrame ==
    ASSUME TypeOK, TypeOK', Ledger, UNCHANGED <<brokerVars, legSt, legFill>>
    PROVE  Ledger'
  BY DEF Ledger, BooksOK, WireOK, ClosedLegIsDead, brokerVars

LEMMA LedgerStage ==
    ASSUME TypeOK, TypeOK', Ledger, UNCHANGED brokerVars,
           NEW S \in SUBSET OrdNos, StageOrders(S)
    PROVE  Ledger'
  <1>1. UNCHANGED <<nextNo, side, qty, filled, wire, live>>
    BY DEF brokerVars
  <1>2. \A o \in OrdNos : legFill'[o] <= legFill[o]
    BY DEF StageOrders, TypeOK
  <1>3. \A o \in OrdNos : legSt'[o] \in {"FILLED", "CANCELLED"} =>
            legSt[o] \in {"FILLED", "CANCELLED"}
    BY DEF StageOrders, TypeOK
  <1> QED BY <1>1, <1>2, <1>3, LedgerQuiet

LEMMA LedgerCancel ==
    ASSUME TypeOK, TypeOK', Ledger, NEW force, NEW done, CancelLegs(force, done)
    PROVE  Ledger'
  <1>1. PICK ok \in SUBSET OpenLegs, dead \in SUBSET OpenLegs :
          /\ Close(ok \cup dead)
          /\ \/ RetireLegs
             \/ /\ legSt' = [o \in OrdNos |-> IF o \in ok THEN "CANCELLED"
                                              ELSE legSt[o]]
                /\ legFill' = legFill
    BY DEF CancelLegs
  <1>2. /\ UNCHANGED <<nextNo, side, qty, filled, wire>>
        /\ \A o \in OrdNos : live'[o] <=> live[o] /\ o \notin ok \cup dead
    BY <1>1 DEF Close
  <1>3. \A o \in OrdNos : legFill'[o] <= legFill[o]
    BY <1>1 DEF RetireLegs, TypeOK
  <1>4. \A o \in OrdNos : legSt'[o] \in {"FILLED", "CANCELLED"} =>
            legSt[o] \in {"FILLED", "CANCELLED"} \/ ~live'[o]
    BY <1>1, <1>2 DEF RetireLegs, TypeOK
  <1> QED BY <1>2, <1>3, <1>4, LedgerQuiet

LEMMA SubmissionStep ==
    ASSUME IInv, TypeInv', Submission
    PROVE  Ledger' /\ Control'
  <1> USE DEF Control, TablesOK, BundleOK, ExitOK, ExitClosesEntry,
              ExitKnowsItsOrder, ExitPCs, Legs
  <1>t. TypeInv /\ TypeOK /\ TypeOK' /\ Ledger
    BY DEF IInv, TypeInv
  <1>1. ASSUME NEW n \in 1..MaxLegs, BeginEntry(n) PROVE Ledger' /\ Control'
    <2>1. Ledger'
      BY <1>1, <1>t, LedgerFrame DEF BeginEntry, stockVars, entryVars
    <2>2. Control'
      BY <1>1, <1>t DEF IInv, BeginEntry, brokerVars, stockVars, entryVars
    <2> QED BY <2>1, <2>2
  <1>2. CASE SendLegAccepted
    <2>1. Ledger'
      <3>1. Accept("BUY", LegQty) /\ UNCHANGED <<legSt, legFill>>
        BY <1>2 DEF SendLegAccepted, stockVars, entryVars
      <3>2. LegQty \in Nat /\ LegQty > 0
        BY LifecycleAssumption
      <3>3. TablesOK
        BY DEF IInv
      <3> HIDE DEF TablesOK
      <3> QED BY <1>t, <3>1, <3>2, <3>3, LedgerAccept
    <2>2. Control'
      <3>1. /\ pc = "send" /\ pc' = "stage" /\ hand' = nextNo
            /\ side' = [side EXCEPT ![nextNo] = "BUY"]
            /\ live' = [live EXCEPT ![nextNo] = TRUE]
            /\ UNCHANGED <<legSt, sent, term, status, odno, sellOdno>>
        BY <1>2 DEF SendLegAccepted, Accept, stockVars, entryVars
      <3>2. nextNo \in OrdNos /\ side[nextNo] = "NONE"
        BY <1>2, <1>t
        DEF SendLegAccepted, Accept, TypeOK, BrokerTypeOK, OrdNos, Ledger, BooksOK
      <3>3. nextNo \notin Legs /\ nextNo \notin sent /\ nextNo \notin term
        BY <3>2 DEF IInv
      <3>4. side \in [OrdNos -> {"NONE", "BUY", "SELL"}]
        BY <1>t DEF TypeOK, BrokerTypeOK
      <3> QED BY <3>1, <3>2, <3>3, <3>4 DEF IInv
    <2> QED BY <2>1, <2>2
  <1>3. CASE SendLegRefused
    <2>1. Ledger'
      BY <1>3, <1>t, LedgerFrame DEF SendLegRefused, stockVars, entryVars
    <2>2. Control'
      BY <1>3, <1>t DEF IInv, SendLegRefused, brokerVars, stockVars, entryVars
    <2> QED BY <2>1, <2>2
  <1>4. CASE SendLegUnheard
    <2>1. Ledger'
      <3>1. Accept("BUY", LegQty) /\ UNCHANGED <<legSt, legFill>>
        BY <1>4 DEF SendLegUnheard, stockVars, entryVars
      <3>2. LegQty \in Nat /\ LegQty > 0
        BY LifecycleAssumption
      <3>3. TablesOK
        BY DEF IInv
      <3> HIDE DEF TablesOK
      <3> QED BY <1>t, <3>1, <3>2, <3>3, LedgerAccept
    <2>2. Control'
      BY <1>4, <1>t
      DEF IInv, TypeOK, BrokerTypeOK, Ledger, BooksOK, SendLegUnheard, Accept,
          stockVars, entryVars
    <2> QED BY <2>1, <2>2
  <1>5. CASE StageLeg
    <2>1. Ledger'
      BY <1>5, <1>t, LedgerStage DEF StageLeg, TypeOK
    <2>2. Control'
      BY <1>5, <1>t DEF IInv, TypeOK, StageLeg, StageOrders, brokerVars
    <2> QED BY <2>1, <2>2
  <1>6. CASE AbandonEntry
    <2>1. Ledger'
      BY <1>6, <1>t, LedgerFrame DEF AbandonEntry, stockVars, entryVars
    <2>2. Control'
      BY <1>6, <1>t DEF IInv, AbandonEntry, brokerVars, stockVars, entryVars
    <2> QED BY <2>1, <2>2
  <1>7. CASE FinishEntry
    <2>1. Ledger'
      BY <1>7, <1>t, LedgerStage DEF FinishEntry, TypeOK
    <2>2. Control'
      BY <1>7, <1>t
      DEF IInv, TypeOK, FinishEntry, StageOrders, ThenWrite, brokerVars
    <2> QED BY <2>1, <2>2
  <1> QED
    BY <1>1, <1>2, <1>3, <1>4, <1>5, <1>6, <1>7 DEF Submission

\* What a round of cancels does to the tables: the bundle is retired with
\* every leg dead, or stays.
LEMMA CancelEffect ==
    ASSUME TypeOK, ClosedLegIsDead, NEW force, NEW done, CancelLegs(force, done)
    PROVE  /\ UNCHANGED <<nextNo, side, qty, filled, wire>>
           /\ \A o \in OrdNos : live'[o] => live[o]
           /\ \/ /\ pc' = done /\ Legs' = {} /\ term' = term \cup Legs
                 /\ \A o \in Legs : ~live'[o]
              \/ pc' = "idle" /\ Legs' = Legs /\ term' = term
  <1>1. PICK ok \in SUBSET OpenLegs, dead \in SUBSET OpenLegs :
          /\ Close(ok \cup dead)
          /\ \/ OpenLegs \ ok = {} /\ RetireLegs /\ pc' = done
             \/ /\ legSt' = [o \in OrdNos |-> IF o \in ok THEN "CANCELLED"
                                              ELSE legSt[o]]
                /\ pc' = "idle"
                /\ term' = term
    BY DEF CancelLegs
  <1>2. /\ UNCHANGED <<nextNo, side, qty, filled, wire>>
        /\ \A o \in OrdNos : live'[o] <=> live[o] /\ o \notin ok \cup dead
    BY <1>1 DEF Close
  <1>3. CASE OpenLegs \ ok = {} /\ RetireLegs /\ pc' = done
    <2>1. Legs' = {} /\ term' = term \cup Legs
      BY <1>3 DEF RetireLegs, Legs
    <2>2. \A o \in Legs : ~live'[o]
      <3> SUFFICES ASSUME NEW o \in Legs PROVE ~live'[o]
        OBVIOUS
      <3>1. o \in OrdNos /\ (o \in OpenLegs \/ legSt[o] \in {"FILLED", "CANCELLED"})
        BY DEF Legs, OpenLegs, TypeOK, LegStates
      <3>2. CASE o \in OpenLegs
        BY <1>2, <1>3, <3>1, <3>2
      <3>3. CASE legSt[o] \in {"FILLED", "CANCELLED"}
        BY <1>2, <3>1, <3>3 DEF ClosedLegIsDead
      <3> QED BY <3>1, <3>2, <3>3
    <2> QED BY <1>2, <1>3, <2>1, <2>2
  <1>4. CASE /\ legSt' = [o \in OrdNos |-> IF o \in ok THEN "CANCELLED"
                                           ELSE legSt[o]]
             /\ pc' = "idle"
             /\ term' = term
    <2>1. ok \subseteq Legs
      BY DEF OpenLegs, Legs
    <2>2. Legs' = Legs
      BY <1>4, <2>1 DEF Legs
    <2> QED BY <1>2, <1>4, <2>2
  <1> QED BY <1>1, <1>3, <1>4

LEMMA ReconcileStep ==
    ASSUME IInv, TypeInv', Reconcile
    PROVE  Ledger' /\ Control'
  <1> USE DEF Control, TablesOK, BundleOK, ExitOK, ExitClosesEntry,
              ExitKnowsItsOrder, ExitPCs
  <1>t. TypeInv /\ TypeOK /\ TypeOK' /\ Ledger
    BY DEF IInv, TypeInv
  <1>1. CASE EntryTimeout
    <2>0. CancelLegs(TRUE, "decide")
      BY <1>1 DEF EntryTimeout
    <2>1. Ledger'
      BY <1>t, <2>0, LedgerCancel
    <2>2. ClosedLegIsDead
      BY <1>t DEF Ledger
    <2>3. /\ UNCHANGED side
          /\ \A o \in OrdNos : live'[o] => live[o]
          /\ \/ pc' = "decide" /\ Legs' = {} /\ term' = term \cup Legs
             \/ pc' = "idle" /\ Legs' = Legs /\ term' = term
      BY <1>t, <2>0, <2>2, CancelEffect
    <2>4. /\ pc = "idle" /\ status \in {"BUY_ORDERED", "HOLDING"}
          /\ UNCHANGED <<status, odno, sellOdno, sent, hand>>
      BY <1>1 DEF EntryTimeout
    <2>5. Control'
      BY <2>3, <2>4 DEF IInv
    <2> QED BY <2>1, <2>5
  <1>2. CASE ReconcileHold
    <2>1. Ledger'
      BY <1>2, <1>t, LedgerFrame DEF ReconcileHold
    <2>2. Control'
      BY <1>2, <1>t DEF IInv, ReconcileHold, brokerVars, Legs
    <2> QED BY <2>1, <2>2
  <1>3. CASE ReconcileSeesNothing
    <2>1. Ledger'
      BY <1>3, <1>t, LedgerFrame DEF ReconcileSeesNothing, stockVars, entryVars
    <2>2. Control'
      BY <1>3, <1>t
      DEF IInv, ReconcileSeesNothing, brokerVars, stockVars, entryVars, Legs
    <2> QED BY <2>1, <2>2
  <1>4. CASE ReconcileWatch
    <2>1. Ledger'
      BY <1>4, <1>t, LedgerFrame DEF ReconcileWatch
    <2>2. Control'
      BY <1>4, <1>t DEF IInv, ReconcileWatch, ThenWrite, brokerVars, Legs
    <2> QED BY <2>1, <2>2
  <1>5. CASE PrimaryResolved
    <2>1. Ledger'
      BY <1>5, <1>t, LedgerFrame DEF PrimaryResolved, entryVars
    <2>2. Control'
      BY <1>5, <1>t
      DEF IInv, PrimaryResolved, ThenWrite, brokerVars, entryVars, Legs
    <2> QED BY <2>1, <2>2
  <1> QED
    BY <1>1, <1>2, <1>3, <1>4, <1>5 DEF Reconcile

LEMMA ExitStep ==
    ASSUME IInv, TypeInv', Exit
    PROVE  Ledger' /\ Control'
  <1> USE DEF Control, TablesOK, BundleOK, ExitOK, ExitClosesEntry,
              ExitKnowsItsOrder, ExitPCs
  <1>t. TypeInv /\ TypeOK /\ TypeOK' /\ Ledger
    BY DEF IInv, TypeInv
  <1>d. ClosedLegIsDead
    BY <1>t DEF Ledger
  <1>1. CASE StartExit
    <2>1. CASE OpenLegs # {}
      <3>0. CancelLegs(FALSE, "exitQty")
        BY <1>1, <2>1 DEF StartExit
      <3>1. Ledger'
        BY <1>t, <3>0, LedgerCancel
      <3>2. /\ UNCHANGED side
            /\ \A o \in OrdNos : live'[o] => live[o]
            /\ \/ pc' = "exitQty" /\ Legs' = {} /\ term' = term \cup Legs
               \/ pc' = "idle" /\ Legs' = Legs /\ term' = term
        BY <1>t, <1>d, <3>0, CancelEffect
      <3>3. /\ pc = "idle" /\ status = "HOLDING"
            /\ UNCHANGED <<status, odno, sellOdno, sent, hand>>
        BY <1>1 DEF StartExit
      <3>4. Control'
        BY <3>2, <3>3 DEF IInv
      <3> QED BY <3>1, <3>4
    <2>2. CASE OpenLegs = {}
      <3>1. Ledger'
        BY <1>1, <1>t, <2>2, LedgerFrame DEF StartExit
      <3>2. \A o \in Legs : ~live[o]
        BY <1>t, <1>d, <2>2 DEF ClosedLegIsDead, Legs, OpenLegs, TypeOK, LegStates
      <3>3. Control'
        BY <1>1, <1>t, <2>2, <3>2 DEF IInv, StartExit, brokerVars, Legs
      <3> QED BY <3>1, <3>3
    <2> QED BY <2>1, <2>2
  <1>2. CASE ReadExitQty
    <2>1. Ledger'
      BY <1>2, <1>t, LedgerFrame DEF ReadExitQty, stockVars, entryVars
    <2>2. Control'
      BY <1>2, <1>t DEF IInv, ReadExitQty, brokerVars, stockVars, entryVars, Legs
    <2> QED BY <2>1, <2>2
  <1>3. CASE LockForSale
    <2>1. Ledger'
      BY <1>3, <1>t, LedgerFrame DEF LockForSale, entryVars
    <2>2. Control'
      BY <1>3, <1>t DEF IInv, LockForSale, brokerVars, entryVars, Legs
    <2> QED BY <2>1, <2>2
  <1>5. CASE SendSellShort
    <2>1. Ledger'
      BY <1>5, <1>t, LedgerFrame DEF SendSellShort, stockVars, entryVars
    <2>2. Control'
      BY <1>5, <1>t DEF IInv, SendSellShort, brokerVars, stockVars, entryVars, Legs
    <2> QED BY <2>1, <2>2
  <1>6. CASE SendSellRefused
    <2>1. Ledger'
      BY <1>6, <1>t, LedgerFrame DEF SendSellRefused, stockVars, entryVars
    <2>2. Control'
      BY <1>6, <1>t
      DEF IInv, SendSellRefused, brokerVars, stockVars, entryVars, Legs
    <2> QED BY <2>1, <2>2
  <1>7. CASE SendSellAccepted \/ SendSellUnheard
    <2>1. /\ Accept("SELL", sellQty) /\ pc = "sellSend"
          /\ UNCHANGED <<legSt, legFill, sent, term, status, odno, sellOdno>>
          /\ \/ pc' = "sellBind" /\ hand' = nextNo
             \/ pc' = "sellFail" /\ hand' = hand
      <3>1. CASE SendSellAccepted
        BY <3>1 DEF SendSellAccepted, stockVars, entryVars
      <3>2. CASE SendSellUnheard
        BY <3>2 DEF SendSellUnheard, stockVars, entryVars
      <3> QED BY <1>7, <3>1, <3>2
    <2>2. Ledger'
      <3>1. sellQty \in Nat /\ TablesOK
        BY <1>t DEF IInv, TypeOK
      <3> HIDE DEF TablesOK
      <3> QED BY <1>t, <2>1, <3>1, LedgerAccept
    <2>3. /\ side' = [side EXCEPT ![nextNo] = "SELL"]
          /\ live' = [live EXCEPT ![nextNo] = TRUE]
      BY <2>1 DEF Accept
    <2>4. nextNo \in OrdNos /\ side[nextNo] = "NONE"
      BY <2>1, <1>t
      DEF Accept, TypeOK, BrokerTypeOK, OrdNos, Ledger, BooksOK
    <2>5. nextNo \notin Legs /\ nextNo \notin sent /\ nextNo \notin term
      BY <2>4 DEF IInv
    <2>6. side \in [OrdNos -> {"NONE", "BUY", "SELL"}]
      BY <1>t DEF TypeOK, BrokerTypeOK
    <2>7. \A o \in OrdNos : side'[o] = "SELL" => o <= nextNo
      BY <1>t, <2>3, <2>4, <2>6
      DEF Ledger, BooksOK, TypeOK, BrokerTypeOK, OrdNos
    <2>8. Control'
      BY <2>1, <2>3, <2>4, <2>5, <2>6, <2>7 DEF IInv, Legs
    <2> QED BY <2>2, <2>8
  <1>8. CASE BindSell
    <2>1. Ledger'
      BY <1>8, <1>t, LedgerFrame DEF BindSell, entryVars
    <2>2. Control'
      BY <1>8, <1>t DEF IInv, BindSell, brokerVars, entryVars, Legs, OrdNos
    <2> QED BY <2>1, <2>2
  <1>9. CASE SellShort
    <2>1. Ledger'
      BY <1>9, <1>t, LedgerFrame DEF SellShort, entryVars
    <2>2. Control'
      BY <1>9, <1>t DEF IInv, SellShort, ThenWrite, brokerVars, entryVars, Legs
    <2> QED BY <2>1, <2>2
  <1>10. CASE SellFailed
    <2>1. Ledger'
      BY <1>10, <1>t, LedgerFrame DEF SellFailed, entryVars
    <2>2. Control'
      BY <1>10, <1>t DEF IInv, SellFailed, ThenWrite, brokerVars, entryVars, Legs
    <2> QED BY <2>1, <2>2
  <1>11. CASE CancelSell \/ CancelSellUnheard
    <2>1. /\ Close({sellOdno}) /\ sellOdno \in OrdNos
          /\ pc = "idle" /\ status = "SELL_ORDERED" /\ pc' \in {"idle", "rollback"}
          /\ UNCHANGED <<legSt, legFill, sent, term, status, odno, sellOdno, hand>>
      BY <1>11, <1>t
      DEF CancelSell, CancelSellUnheard, SellTimedOut, stockVars, entryVars,
          mainVars, TypeOK
    <2>2. /\ UNCHANGED <<nextNo, side, qty, filled, wire>>
          /\ \A o \in OrdNos : live'[o] => live[o]
      BY <2>1 DEF Close
    <2>3. Ledger'
      BY <1>t, <2>1, <2>2, LedgerQuiet DEF TypeOK
    <2>4. Control'
      BY <2>1, <2>2 DEF IInv, Legs
    <2> QED BY <2>3, <2>4
  <1>13. CASE CancelSellResolved
    <2>1. Ledger'
      BY <1>13, <1>t, LedgerFrame DEF CancelSellResolved, stockVars, entryVars
    <2>2. Control'
      BY <1>13, <1>t
      DEF IInv, CancelSellResolved, SellTimedOut, brokerVars, stockVars, entryVars,
          Legs
    <2> QED BY <2>1, <2>2
  <1>14. CASE RollbackSell
    <2>1. Ledger'
      BY <1>14, <1>t, LedgerFrame DEF RollbackSell, entryVars
    <2>2. Control'
      BY <1>14, <1>t DEF IInv, RollbackSell, ThenWrite, brokerVars, entryVars, Legs
    <2> QED BY <2>1, <2>2
  <1>15. CASE AssumeSold
    <2>1. Ledger'
      BY <1>15, <1>t, LedgerFrame DEF AssumeSold, entryVars
    <2>2. Control'
      BY <1>15, <1>t DEF IInv, AssumeSold, ThenWrite, brokerVars, entryVars, Legs
    <2> QED BY <2>1, <2>2
  <1> QED
    BY <1>1, <1>2, <1>3, <1>5, <1>6, <1>7, <1>8, <1>9, <1>10, <1>11, <1>13,
       <1>14, <1>15 DEF Exit

\* What a BUY report does to the tables.
LEMMA FillEffect ==
    ASSUME TypeOK, NEW r, r \in Report, side[r.no] = "BUY", EntryFill(r)
    PROVE  /\ \/ /\ reqQty > 0 /\ bq' >= reqQty
                 /\ Legs' = {} /\ term' = term \cup Legs
                 /\ \A o \in OrdNos : legFill'[o] <= legFill[o]
                 /\ \A o \in OrdNos : legSt'[o] = "NONE"
              \/ /\ Legs' = Legs /\ term' = term
                 /\ \A o \in OrdNos :
                       \/ legFill'[o] <= legFill[o]
                       \/ o = r.no /\ legFill'[o] = legFill[o] + r.qty
                 /\ \A o \in OrdNos : legSt'[o] \in {"FILLED", "CANCELLED"} =>
                       \/ legSt[o] \in {"FILLED", "CANCELLED"}
                       \/ side[o] = "BUY" /\ qty[o] <= legFill'[o]
  <1>t. /\ r.no \in OrdNos /\ r.qty \in Nat
        /\ legFill \in [OrdNos -> Nat] /\ legSt \in [OrdNos -> LegStates]
    BY DEF TypeOK, Report
  <1> DEFINE full == reqQty > 0 /\ bq + r.qty >= reqQty
  <1>1. CASE full
    <2>1. RetireLegs /\ reqQty > 0 /\ bq' >= reqQty
      BY <1>1 DEF EntryFill
    <2> HIDE DEF full
    <2> QED BY <1>t, <2>1 DEF RetireLegs, Legs
  <1>2. CASE ~full /\ r.no \in Legs
    <2> DEFINE filledNow == legFill[r.no] + r.qty
    <2>1. /\ legFill' = [legFill EXCEPT ![r.no] = filledNow]
          /\ legSt' = [legSt EXCEPT ![r.no] =
                          IF filledNow >= qty[r.no] THEN "FILLED" ELSE "PARTIAL"]
          /\ term' = term
      BY <1>2 DEF EntryFill
    <2>2. Legs' = Legs
      BY <1>t, <1>2, <2>1 DEF Legs
    <2>3. \A o \in OrdNos : \/ legFill'[o] <= legFill[o]
                            \/ o = r.no /\ legFill'[o] = legFill[o] + r.qty
      BY <1>t, <2>1
    <2>4. \A o \in OrdNos : legSt'[o] \in {"FILLED", "CANCELLED"} =>
                       \/ legSt[o] \in {"FILLED", "CANCELLED"}
                       \/ side[o] = "BUY" /\ qty[o] <= legFill'[o]
      BY <1>t, <2>1 DEF TypeOK, BrokerTypeOK
    <2> QED BY <2>1, <2>2, <2>3, <2>4
  <1>3. CASE ~full /\ r.no \notin Legs
    <2>1. UNCHANGED <<legFill, legSt, term>>
      BY <1>3 DEF EntryFill
    <2> QED BY <1>t, <2>1 DEF Legs
  <1> QED BY <1>1, <1>2, <1>3

LEMMA ReportStep ==
    ASSUME IInv, TypeInv', Reports
    PROVE  Ledger' /\ Control'
  <1> USE DEF Control, TablesOK, BundleOK, ExitOK, ExitClosesEntry,
              ExitKnowsItsOrder, ExitPCs
  <1>t. TypeInv /\ TypeOK /\ TypeOK' /\ Ledger
    BY DEF IInv, TypeInv
  <1>1. PICK r : /\ Receive(r)
                 /\ \/ BuyReport(r) \/ SellReportRevives(r)
                    \/ SellReportCompletes(r) \/ SellReportFails(r)
                    \/ ReportIgnored(r)
    BY DEF Reports, BuyReport, SellReportRevives, SellReportCompletes,
           SellReportFails, ReportIgnored
  <1>2. r \in Report /\ UNCHANGED <<nextNo, side, qty, filled, live>>
    BY <1>1, <1>t, ReceiveType DEF TypeOK, Receive
  <1>3. CASE BuyReport(r)
    <2>1. /\ EntryFill(r) /\ side[r.no] = "BUY"
          /\ MatchesBuy(r.no)
          /\ UNCHANGED <<pc, sent, hand>>
      BY <1>3 DEF BuyReport, mainVars
    <2>2. status # "DROPPED" /\ status' = "HOLDING"
      BY <2>1 DEF EntryFill, MatchesBuy
    <2>3. Ledger'
      <3>1. (\A o \in OrdNos : legFill'[o] <= legFill[o])
              => \A o \in OrdNos : \/ legFill'[o] <= legFill[o]
                                   \/ o = r.no /\ legFill'[o] = legFill[o] + r.qty
        OBVIOUS
      <3>2. \A o \in OrdNos : \/ legFill'[o] <= legFill[o]
                              \/ o = r.no /\ legFill'[o] = legFill[o] + r.qty
        BY <1>2, <1>t, <2>1, <3>1, FillEffect
      <3>3. \A o \in OrdNos : legSt'[o] \in {"FILLED", "CANCELLED"} =>
               \/ legSt[o] \in {"FILLED", "CANCELLED"}
               \/ side[o] = "BUY" /\ qty[o] <= legFill'[o]
        BY <1>2, <1>t, <2>1, FillEffect
      <3> QED BY <1>1, <1>t, <3>2, <3>3, LedgerReceive
    <2>4. \/ Legs' = {} /\ term' = term \cup Legs
          \/ Legs' = Legs /\ term' = term
      BY <1>2, <1>t, <2>1, FillEffect
    <2>5. odno' = odno /\ sellOdno' = sellOdno
      BY <2>1 DEF EntryFill
    <2>6. Control'
      BY <1>2, <2>1, <2>2, <2>4, <2>5 DEF IInv
    <2> QED BY <2>3, <2>6
  <1>4. CASE SellReportRevives(r) \/ SellReportCompletes(r)
    <2>1. /\ RetireLegs /\ status = "SELL_ORDERED"
          /\ status' \in {"WATCHING", "COMPLETED"}
          /\ UNCHANGED <<pc, sent, hand>>
      BY <1>4 DEF SellReportRevives, SellReportCompletes, mainVars
    <2>2. /\ Legs' = {} /\ term' = term \cup Legs
          /\ \A o \in OrdNos : legFill'[o] <= legFill[o]
          /\ \A o \in OrdNos : legSt'[o] = "NONE"
      BY <1>t, <2>1 DEF RetireLegs, Legs, TypeOK
    <2>3. Ledger'
      BY <1>1, <1>t, <2>2, LedgerReceive
    <2>4. Control'
      BY <1>2, <2>1, <2>2 DEF IInv
    <2> QED BY <2>3, <2>4
  <1>5. CASE SellReportFails(r) \/ ReportIgnored(r)
    <2>1. UNCHANGED <<pc, sent, hand, legSt, legFill, term, status, odno, sellOdno>>
      BY <1>5 DEF SellReportFails, ReportIgnored, mainVars, stockVars, entryVars
    <2>2. Ledger'
      BY <1>1, <1>t, <2>1, LedgerReceive DEF TypeOK
    <2>3. Control'
      BY <1>2, <2>1 DEF IInv, Legs
    <2> QED BY <2>2, <2>3
  <1> QED BY <1>1, <1>3, <1>4, <1>5

LEMMA InitInv == Init => IInv
  <1> SUFFICES ASSUME Init PROVE IInv
    OBVIOUS
  <1>1. TypeInv
    BY InitType
  <1>2. Ledger
    BY DEF Init, BrokerInit, Ledger, BooksOK, WireOK, ClosedLegIsDead, OrdNos
  <1>3. Control
    BY DEF Init, BrokerInit, Control, TablesOK, BundleOK, ExitOK, ExitClosesEntry,
           ExitKnowsItsOrder, ExitPCs, Legs
  <1> QED BY <1>1, <1>2, <1>3 DEF IInv

\* The inductive step of the invariant.
LEMMA StepInv == IInv /\ [Next]_vars => IInv'
  <1> SUFFICES ASSUME IInv, [Next]_vars PROVE IInv'
    OBVIOUS
  <1> USE DEF Control, TablesOK, BundleOK, ExitOK, ExitClosesEntry,
              ExitKnowsItsOrder, ExitPCs
  <1>t. TypeInv' /\ TypeInv /\ TypeOK /\ TypeOK' /\ Ledger
    BY StepType DEF IInv, TypeInv
  <1>1. CASE Prune
    <2>1. Ledger'
      BY <1>1, <1>t, LedgerFrame DEF Prune, entryVars
    <2>2. Control'
      BY <1>1 DEF IInv, Prune, brokerVars, entryVars, mainVars, Legs
    <2> QED BY <1>t, <2>1, <2>2 DEF IInv
  <1>2. CASE DbWrite
    <2>1. Ledger'
      BY <1>2, <1>t, LedgerFrame DEF DbWrite, stockVars, entryVars
    <2>2. Control'
      BY <1>2 DEF IInv, DbWrite, brokerVars, stockVars, entryVars, Legs
    <2> QED BY <1>t, <2>1, <2>2 DEF IInv
  <1>3. ASSUME NEW w \in writers, RunWriter(w) PROVE IInv'
    <2>1. Ledger'
      BY <1>3, <1>t, LedgerFrame DEF RunWriter, stockVars, entryVars
    <2>2. Control'
      BY <1>3 DEF IInv, RunWriter, brokerVars, stockVars, entryVars, mainVars, Legs
    <2> QED BY <1>t, <2>1, <2>2 DEF IInv
  <1>4. ASSUME NEW o \in term, ExpireTerm(o) PROVE IInv'
    <2>1. Ledger'
      BY <1>4, <1>t, LedgerFrame DEF ExpireTerm, entryVars
    <2>2. Control'
      BY <1>4 DEF IInv, ExpireTerm, brokerVars, entryVars, mainVars, Legs
    <2> QED BY <1>t, <2>1, <2>2 DEF IInv
  <1>5. CASE BrokerFills
    <2>0. PICK o \in OrdNos : \E q \in 1..qty[o] : Fill(o, q)
      BY <1>5 DEF BrokerFills
    <2>1. PICK q \in 1..qty[o] : Fill(o, q)
      BY <2>0
    <2>2. UNCHANGED <<stockVars, mainVars, dbVars>>
      BY <1>5 DEF BrokerFills
    <2>3. Ledger'
      BY <1>t, <2>1, <2>2, LedgerFill DEF stockVars, entryVars
    <2>4. side' = side /\ \A a \in OrdNos : live'[a] => live[a]
      BY <1>t, <2>1 DEF Fill, TypeOK, BrokerTypeOK
    <2>5. Control'
      BY <2>2, <2>4 DEF IInv, stockVars, entryVars, mainVars, Legs
    <2> QED BY <1>t, <2>3, <2>5 DEF IInv
  <1>6. CASE BrokerLapses
    <2>1. PICK o \in OrdNos : Close({o})
      BY <1>6 DEF BrokerLapses
    <2>2. UNCHANGED <<stockVars, mainVars, dbVars>>
      BY <1>6 DEF BrokerLapses
    <2>3. /\ UNCHANGED <<nextNo, side, qty, filled, wire>>
          /\ \A a \in OrdNos : live'[a] => live[a]
      BY <2>1 DEF Close
    <2>4. Ledger'
      BY <1>t, <2>2, <2>3, LedgerQuiet DEF stockVars, entryVars, TypeOK
    <2>5. Control'
      BY <2>2, <2>3 DEF IInv, stockVars, entryVars, mainVars, Legs
    <2> QED BY <1>t, <2>4, <2>5 DEF IInv
  <1>7. CASE UNCHANGED vars
    <2>1. Ledger'
      BY <1>7, <1>t, LedgerFrame DEF vars, stockVars, entryVars
    <2>2. Control'
      BY <1>7
      DEF IInv, vars, brokerVars, stockVars, entryVars, mainVars, Legs
    <2> QED BY <1>t, <2>1, <2>2 DEF IInv
  <1>8. CASE Submission \/ Reconcile \/ Exit \/ Reports
    <2> HIDE DEF Control
    <2> QED
      BY <1>8, <1>t, SubmissionStep, ReconcileStep, ExitStep, ReportStep DEF IInv
  <1> QED
    BY <1>1, <1>2, <1>3, <1>4, <1>5, <1>6, <1>7, <1>8 DEF Next, Background

LEMMA Invariance == Spec => []IInv
  BY InitInv, StepInv, PTL DEF Spec

-----------------------------------------------------------------------------
(***************************************************************************)
(* What the invariant gives.                                               *)
(***************************************************************************)

\* A leg that memory counts as filled or cancelled has no working order, so
\* cancelling only the open ones leaves nothing behind.
THEOREM ClosedLegsAreDead == Spec => []ClosedLegIsDead
  <1>1. IInv => ClosedLegIsDead
    BY DEF IInv, Ledger
  <1> QED BY <1>1, Invariance, PTL

\* No entry order works at the broker while an exit is under way.
THEOREM ExitsCloseEntries == Spec => []ExitClosesEntry
  <1>1. IInv => ExitClosesEntry
    BY DEF IInv, Control
  <1> QED BY <1>1, Invariance, PTL

\* The exit's timeout cancels the exit order that was sent last.
THEOREM ExitsKnowTheirOrder == Spec => []ExitKnowsItsOrder
  <1>1. IInv => ExitKnowsItsOrder
    BY DEF IInv, Control
  <1> QED BY <1>1, Invariance, PTL

\* process_order_cancellation never reaches its rollback to WATCHING.
THEOREM PrimariesAreResolved == Spec => []PrimaryAlreadyResolved
  <1>1. IInv => PrimaryAlreadyResolved
    <2> SUFFICES ASSUME IInv, pc = "idle", status = "BUY_ORDERED", OpenLegs = {}
                 PROVE  odno # 0 /\ ~live[odno]
      BY DEF PrimaryAlreadyResolved
    <2>1. odno \in Legs
      BY DEF IInv, Control, BundleOK
    <2>2. odno \in OrdNos /\ legSt[odno] \in {"FILLED", "CANCELLED"}
      BY <2>1 DEF IInv, TypeInv, TypeOK, LegStates, Legs, OpenLegs
    <2> QED
      BY <2>2 DEF IInv, Ledger, ClosedLegIsDead, OrdNos
  <1> QED BY <1>1, Invariance, PTL

\* No step of the engine forgets an order that still works, unless the
\* quantity its bundle asked for is there.
THEOREM NoWorkingOrderIsRetired == Spec => NoWorkingOrderRetired
  <1> DEFINE Kept == \A o \in Legs : o \notin Legs' /\ live'[o] =>
                        reqQty > 0 /\ bq' >= reqQty
  <1>1. IInv /\ IInv' /\ [Next]_vars => Kept
    <2> SUFFICES ASSUME IInv, IInv', [Next]_vars,
                        NEW o \in Legs, o \notin Legs', live'[o]
                 PROVE  reqQty > 0 /\ bq' >= reqQty
      OBVIOUS
    <2>t. TypeInv /\ TypeOK /\ TypeInv' /\ ClosedLegIsDead /\ o \in OrdNos
      BY DEF IInv, TypeInv, Ledger, Legs
    <2>u. legSt' # legSt
      BY DEF Legs
    <2>1. CASE StageLeg \/ FinishEntry
      <3>1. pc \in {"send", "stage"} /\ \E S : sent \subseteq S /\ StageOrders(S)
        BY <2>1 DEF StageLeg, FinishEntry
      <3>2. sent \subseteq Legs'
        BY <2>t, <3>1 DEF StageOrders, Legs, TypeOK, LegStates
      <3> QED
        BY <2>t, <3>1, <3>2 DEF IInv, Control, BundleOK
    <2>2. CASE EntryTimeout \/ StartExit
      <3>1. \E force, done : CancelLegs(force, done)
        BY <2>2, <2>u DEF EntryTimeout, StartExit
      <3>2. (\A a \in Legs : ~live'[a]) \/ Legs' = Legs
        BY <2>t, <3>1, CancelEffect
      <3> QED BY <3>2
    <2>3. CASE Reports
      <3>1. PICK r : /\ Receive(r)
                     /\ \/ BuyReport(r) \/ SellReportRevives(r)
                        \/ SellReportCompletes(r) \/ SellReportFails(r)
                        \/ ReportIgnored(r)
        BY <2>3 DEF Reports, BuyReport, SellReportRevives, SellReportCompletes,
               SellReportFails, ReportIgnored
      <3>2. r \in Report /\ live' = live
        BY <2>t, <3>1, ReceiveType DEF TypeOK, Receive
      <3>3. CASE BuyReport(r)
        BY <2>t, <3>2, <3>3, FillEffect DEF BuyReport
      <3>4. CASE SellReportRevives(r) \/ SellReportCompletes(r)
        <4>1. status = "SELL_ORDERED"
          BY <3>4 DEF SellReportRevives, SellReportCompletes
        <4> QED
          BY <3>2, <4>1 DEF IInv, Control, ExitClosesEntry
      <3>5. CASE SellReportFails(r) \/ ReportIgnored(r)
        BY <2>u, <3>5 DEF SellReportFails, ReportIgnored, stockVars, entryVars
      <3> QED BY <3>1, <3>3, <3>4, <3>5
    <2>4. StageLeg \/ FinishEntry \/ EntryTimeout \/ StartExit \/ Reports
      BY <2>u
      DEF Next, Submission, Reconcile, Exit, Background, BrokerFills, BrokerLapses,
          BeginEntry, SendLegAccepted, SendLegRefused, SendLegUnheard, AbandonEntry,
          ReconcileHold, ReconcileSeesNothing, ReconcileWatch, PrimaryResolved,
          ReadExitQty, LockForSale, SendSellAccepted, SendSellShort,
          SendSellRefused, SendSellUnheard, BindSell, SellShort, SellFailed,
          CancelSell, CancelSellUnheard, CancelSellResolved, RollbackSell,
          AssumeSold, Prune, DbWrite, RunWriter, ExpireTerm,
          vars, stockVars, entryVars
    <2> QED BY <2>1, <2>2, <2>3, <2>4
  <1>2. IInv /\ IInv' /\ [Next]_vars => [Kept]_vars
    BY <1>1
  <1> QED BY <1>2, Invariance, PTL DEF Spec, NoWorkingOrderRetired

-----------------------------------------------------------------------------
(***************************************************************************)
(* TradeLifecycle implements LateFillWindow.                               *)
(***************************************************************************)

PhaseFn == [o \in OrdNos |-> PhaseOf(o)]

\* A step that leaves every order's phase alone is a stutter.
LEMMA WindowStutter ==
    ASSUME \A o \in OrdNos : PhaseOf(o)' = PhaseOf(o)
    PROVE  PhaseFn' = PhaseFn
  BY DEF PhaseFn

\* Steps that touch no table, none of them at "stage" or to it.
LEMMA WindowFrame ==
    ASSUME UNCHANGED <<side, legSt, term>>,
           \/ status' = status
           \/ status # "DROPPED" /\ status' # "DROPPED",
           \/ pc' = pc /\ hand' = hand
           \/ pc # "stage" /\ pc' # "stage"
    PROVE  PhaseFn' = PhaseFn
  BY DEF PhaseFn, PhaseOf, Legs

\* The bundle is retired: what was known is late.
LEMMA WindowRetire ==
    ASSUME IInv, status # "DROPPED", status' # "DROPPED",
           side' = side, Legs' = {}, term' = term \cup Legs,
           \/ pc' = pc /\ hand' = hand
           \/ pc # "stage" /\ pc' # "stage"
    PROVE  Window!Retire
  <1>1. pc = "stage" => hand \notin Legs
    BY DEF IInv, Control, TablesOK
  <1>2. ASSUME NEW o \in OrdNos
        PROVE  PhaseOf(o)' = IF PhaseOf(o) = "known" THEN "late" ELSE PhaseOf(o)
    BY <1>1 DEF PhaseOf
  <1> QED BY <1>2 DEF Window!Retire

\* The orders of S are staged.
LEMMA WindowStage ==
    ASSUME IInv, TypeOK, NEW S \in SUBSET OrdNos, StageOrders(S),
           pc \in {"send", "stage"}, pc' \notin {"stage"},
           side' = side, sent \subseteq S,
           pc = "stage" => S = sent \cup {hand},
           pc = "send" => S = sent
    PROVE  [Window!Next]_PhaseFn
  <1>1. /\ Legs' = S /\ term' = term /\ status' # "DROPPED"
    BY DEF StageOrders, Legs, TypeOK, LegStates
  <1>2. /\ status # "DROPPED" /\ Legs \subseteq sent
        /\ \A o \in sent : o \in Legs \/ o \in term
        /\ \A o \in sent : side[o] = "BUY"
        /\ pc = "stage" => side[hand] = "BUY" /\ hand \in S
    BY DEF IInv, Control, BundleOK, TablesOK, Legs, TypeOK
  <1> DEFINE B == {o \in S : PhaseOf(o) # "known"}
  <1>3. \A o \in S : PhaseOf(o)' = "known"
    BY <1>1, <1>2 DEF PhaseOf
  <1>4. \A o \in OrdNos \ S : PhaseOf(o)' = PhaseOf(o) /\ PhaseOf(o) # "known"
    BY <1>1, <1>2 DEF PhaseOf
  <1>5. \A o \in B : PhaseOf(o) \in {"unbound", "late"}
    BY <1>2 DEF PhaseOf
  <1>6. \A o \in OrdNos : PhaseOf(o)' = IF o \in B THEN "known" ELSE PhaseOf(o)
    BY <1>3, <1>4
  <1>7. B \in SUBSET OrdNos
    OBVIOUS
  <1> HIDE DEF B
  <1>8. Window!Bind(B)
    BY <1>5, <1>6, <1>7 DEF Window!Bind
  <1> QED BY <1>7, <1>8 DEF Window!Next

LEMMA WindowInit == Init => Window!Init
  BY DEF Init, BrokerInit, Window!Init, PhaseOf

LEMMA WindowStep ==
    ASSUME IInv, IInv', [Next]_vars
    PROVE  [Window!Next]_PhaseFn
  <1>t. TypeInv /\ TypeOK /\ TypeInv' /\ TypeOK'
    BY DEF IInv, TypeInv
  <1>c. /\ TablesOK /\ BundleOK /\ TablesOK' /\ BundleOK'
        /\ ClosedLegIsDead
    BY DEF IInv, Control, Ledger
  <1>1. CASE SendLegAccepted
    <2>1. PICK n \in OrdNos : n = nextNo
      BY <1>1, <1>t DEF SendLegAccepted, Accept, OrdNos, TypeOK, BrokerTypeOK
    <2>2. /\ pc = "send" /\ pc' = "stage" /\ hand' = n
          /\ side' = [side EXCEPT ![n] = "BUY"]
          /\ UNCHANGED <<legSt, term, status>>
      BY <1>1, <2>1 DEF SendLegAccepted, Accept, stockVars, entryVars
    <2>3. side'[n] = "BUY" /\ \A a \in OrdNos \ {n} : side'[a] = side[a]
      BY <1>t, <2>2 DEF TypeOK, BrokerTypeOK
    <2>4. side[n] = "NONE" /\ status # "DROPPED" /\ n \notin Legs
      BY <1>c, <2>1, <2>2 DEF IInv, Ledger, BooksOK, TablesOK, BundleOK, OrdNos
    <2>5. PhaseOf(n) = "none" /\ PhaseOf(n)' = "unbound"
      BY <2>2, <2>3, <2>4 DEF PhaseOf, Legs
    <2>6. \A a \in OrdNos \ {n} : PhaseOf(a)' = PhaseOf(a)
      BY <2>2, <2>3 DEF PhaseOf, Legs
    <2>7. Window!Place(n)
      BY <2>5, <2>6 DEF Window!Place
    <2> QED BY <2>7 DEF Window!Next
  <1>2. CASE SendLegUnheard
    <2>1. PICK n \in OrdNos : n = nextNo
      BY <1>2, <1>t DEF SendLegUnheard, Accept, OrdNos, TypeOK, BrokerTypeOK
    <2>2. /\ pc = "send" /\ pc' = "send"
          /\ side' = [side EXCEPT ![n] = "BUY"]
          /\ UNCHANGED <<legSt, term, status>>
      BY <1>2, <2>1 DEF SendLegUnheard, Accept, stockVars, entryVars
    <2>3. side'[n] = "BUY" /\ \A a \in OrdNos \ {n} : side'[a] = side[a]
      BY <1>t, <2>2 DEF TypeOK, BrokerTypeOK
    <2>4. /\ side[n] = "NONE" /\ status # "DROPPED"
          /\ n \notin Legs /\ n \notin term
      BY <1>c, <2>1, <2>2 DEF IInv, Ledger, BooksOK, TablesOK, BundleOK, OrdNos
    <2>5. PhaseOf(n) = "none" /\ PhaseOf(n)' = "gone"
      BY <2>2, <2>3, <2>4 DEF PhaseOf, Legs
    <2>6. \A a \in OrdNos \ {n} : PhaseOf(a)' = PhaseOf(a)
      BY <2>2, <2>3 DEF PhaseOf, Legs
    <2>7. Window!PlaceUnheard(n)
      BY <2>5, <2>6 DEF Window!PlaceUnheard
    <2> QED BY <2>7 DEF Window!Next
  <1>3. CASE SendSellAccepted \/ SendSellUnheard
    <2>1. /\ pc = "sellSend" /\ pc' # "stage"
          /\ nextNo \in OrdNos
          /\ side' = [side EXCEPT ![nextNo] = "SELL"]
          /\ UNCHANGED <<legSt, term, status>>
      BY <1>3, <1>t
      DEF SendSellAccepted, SendSellUnheard, Accept, stockVars, entryVars, OrdNos,
          TypeOK, BrokerTypeOK
    <2>2. side[nextNo] = "NONE"
      BY <2>1 DEF IInv, Ledger, BooksOK, OrdNos
    <2>3. \A o \in OrdNos : PhaseOf(o)' = PhaseOf(o)
      BY <1>t, <2>1, <2>2 DEF PhaseOf, Legs, TypeOK, BrokerTypeOK
    <2> QED BY <2>3, WindowStutter
  <1>4. CASE StageLeg
    <2>1. /\ StageOrders(sent \cup {hand}) /\ pc = "stage" /\ pc' = "send"
          /\ side' = side /\ sent \cup {hand} \in SUBSET OrdNos
      BY <1>4, <1>t DEF StageLeg, brokerVars, TypeInv, LocalsOK, TypeOK
    <2> QED BY <1>t, <2>1, WindowStage
  <1>5. CASE FinishEntry
    <2>1. /\ StageOrders(sent) /\ pc = "send" /\ pc' = "db"
          /\ side' = side /\ sent \in SUBSET OrdNos
      BY <1>5, <1>t DEF FinishEntry, ThenWrite, brokerVars, TypeOK
    <2> QED BY <1>t, <2>1, WindowStage
  <1>6. CASE (EntryTimeout \/ StartExit) /\ ~UNCHANGED legSt
    <2>1. /\ \E force, done : CancelLegs(force, done)
          /\ pc = "idle" /\ status \in {"BUY_ORDERED", "HOLDING"}
          /\ status' = status /\ pc' # "stage"
      BY <1>6 DEF EntryTimeout, StartExit, CancelLegs
    <2>2. /\ side' = side
          /\ \/ Legs' = {} /\ term' = term \cup Legs
             \/ Legs' = Legs /\ term' = term
      BY <1>t, <1>c, <2>1, CancelEffect
    <2>3. CASE Legs' = {} /\ term' = term \cup Legs
      BY <2>1, <2>2, <2>3, WindowRetire DEF Window!Next
    <2>4. CASE Legs' = Legs /\ term' = term
      <3>1. \A o \in OrdNos : PhaseOf(o)' = PhaseOf(o)
        BY <2>1, <2>2, <2>4 DEF PhaseOf
      <3> QED BY <3>1, WindowStutter
    <2> QED BY <2>2, <2>3, <2>4
  <1>7. CASE Reports
    <2>1. PICK r : /\ Receive(r)
                   /\ \/ BuyReport(r) \/ SellReportRevives(r)
                      \/ SellReportCompletes(r) \/ SellReportFails(r)
                      \/ ReportIgnored(r)
      BY <1>7 DEF Reports, BuyReport, SellReportRevives, SellReportCompletes,
             SellReportFails, ReportIgnored
    <2>2. r \in Report /\ side' = side
      BY <1>t, <2>1, ReceiveType DEF TypeOK, Receive
    <2>3. CASE BuyReport(r)
      <3>1. /\ side[r.no] = "BUY" /\ EntryFill(r) /\ pc' = pc /\ hand' = hand
            /\ status # "DROPPED" /\ status' # "DROPPED"
        BY <2>3 DEF BuyReport, EntryFill, MatchesBuy, mainVars
      <3>2. \/ Legs' = {} /\ term' = term \cup Legs
            \/ Legs' = Legs /\ term' = term
        BY <1>t, <2>2, <3>1, FillEffect
      <3>3. CASE Legs' = {} /\ term' = term \cup Legs
        BY <2>2, <3>1, <3>3, WindowRetire DEF Window!Next
      <3>4. CASE Legs' = Legs /\ term' = term
        <4>1. \A o \in OrdNos : PhaseOf(o)' = PhaseOf(o)
          BY <2>2, <3>1, <3>4 DEF PhaseOf
        <4> QED BY <4>1, WindowStutter
      <3> QED BY <3>2, <3>3, <3>4
    <2>4. CASE SellReportRevives(r) \/ SellReportCompletes(r)
      <3>1. /\ RetireLegs /\ status # "DROPPED" /\ status' # "DROPPED"
            /\ pc' = pc /\ hand' = hand
        BY <2>4 DEF SellReportRevives, SellReportCompletes, mainVars
      <3>2. Legs' = {} /\ term' = term \cup Legs
        BY <3>1 DEF RetireLegs, Legs
      <3> QED BY <2>2, <3>1, <3>2, WindowRetire DEF Window!Next
    <2>5. CASE SellReportFails(r) \/ ReportIgnored(r)
      <3>1. UNCHANGED <<legSt, term, status, pc, hand>>
        BY <2>5 DEF SellReportFails, ReportIgnored, stockVars, entryVars, mainVars
      <3> QED BY <2>2, <3>1 DEF PhaseFn, PhaseOf, Legs
    <2> QED BY <2>1, <2>3, <2>4, <2>5
  <1>8. ASSUME NEW o \in term, ExpireTerm(o) PROVE [Window!Next]_PhaseFn
    <2>1. /\ term' = term \ {o} /\ o \in OrdNos /\ Legs' = Legs
          /\ UNCHANGED <<side, status, pc, hand>>
      BY <1>8, <1>t
      DEF ExpireTerm, brokerVars, entryVars, mainVars, Legs, TypeOK
    <2>2. \A a \in OrdNos \ {o} : PhaseOf(a)' = PhaseOf(a)
      BY <2>1 DEF PhaseOf
    <2>3. CASE PhaseOf(o) = "late"
      <3>1. PhaseOf(o)' = "gone"
        BY <2>1, <2>3 DEF PhaseOf
      <3>2. Window!Expire(o)
        BY <2>1, <2>2, <2>3, <3>1 DEF Window!Expire
      <3> QED BY <2>1, <3>2 DEF Window!Next
    <2>4. CASE PhaseOf(o) # "late"
      <3>1. PhaseOf(o)' = PhaseOf(o)
        BY <2>1, <2>4 DEF PhaseOf
      <3> QED BY <2>2, <3>1, WindowStutter
    <2> QED BY <2>3, <2>4
  <1>9. CASE Prune
    <2>1. /\ status # "DROPPED" /\ status' = "DROPPED"
          /\ UNCHANGED <<side>>
      BY <1>9 DEF Prune, brokerVars
    <2>2. Window!Drop
      BY <2>1 DEF Window!Drop, PhaseOf
    <2> QED BY <2>2 DEF Window!Next
  <1>10. CASE /\ UNCHANGED <<side, legSt, term>>
              /\ \/ status' = status
                 \/ status # "DROPPED" /\ status' # "DROPPED"
              /\ \/ pc' = pc /\ hand' = hand
                 \/ pc # "stage" /\ pc' # "stage"
    BY <1>10, WindowFrame
  <1>11. ASSUME \/ \E n \in 1..MaxLegs : BeginEntry(n)
                \/ SendLegRefused \/ AbandonEntry
                \/ (EntryTimeout \/ StartExit) /\ UNCHANGED legSt
                \/ ReconcileHold \/ ReconcileSeesNothing \/ ReconcileWatch
                \/ PrimaryResolved
         PROVE  [Window!Next]_PhaseFn
    <2>1. CASE (EntryTimeout \/ StartExit) /\ UNCHANGED legSt
      <3>1. /\ status' = status /\ pc = "idle" /\ pc' # "stage"
            /\ side' = side
        BY <2>1 DEF EntryTimeout, StartExit, CancelLegs, Close, brokerVars
      <3>2. term' = term
        BY <2>1, <1>t DEF EntryTimeout, StartExit, CancelLegs, RetireLegs, Legs,
                          OpenLegs, TypeOK
      <3> QED BY <2>1, <3>1, <3>2 DEF PhaseFn, PhaseOf, Legs
    <2>2. CASE ~((EntryTimeout \/ StartExit) /\ UNCHANGED legSt)
      BY <1>10, <1>11, <1>c, <2>2
      DEF BeginEntry, SendLegRefused, AbandonEntry, ReconcileHold, BundleOK,
          ReconcileSeesNothing, ReconcileWatch, PrimaryResolved, ThenWrite,
          brokerVars, stockVars, entryVars
    <2> QED BY <2>1, <2>2
  <1>12. ASSUME \/ ReadExitQty \/ LockForSale \/ SendSellShort \/ SendSellRefused
                \/ BindSell \/ SellShort \/ SellFailed \/ CancelSell
                \/ CancelSellUnheard \/ CancelSellResolved \/ RollbackSell
                \/ AssumeSold
         PROVE  [Window!Next]_PhaseFn
    BY <1>10, <1>12, <1>c
    DEF ReadExitQty, LockForSale, SendSellShort, SendSellRefused, BindSell,
        SellShort, SellFailed, SellTimedOut, CancelSell, CancelSellUnheard,
        CancelSellResolved, RollbackSell, AssumeSold, Close, ThenWrite, BundleOK,
        brokerVars, stockVars, entryVars, mainVars
  <1>13. ASSUME \/ DbWrite \/ (\E w \in writers : RunWriter(w))
                \/ BrokerFills \/ BrokerLapses \/ UNCHANGED vars
         PROVE  [Window!Next]_PhaseFn
    <2>1. /\ UNCHANGED <<side, legSt, term, status>>
          /\ \/ pc' = pc /\ hand' = hand
             \/ pc = "db" /\ pc' = "idle"
      <3>1. CASE DbWrite
        BY <3>1 DEF DbWrite, brokerVars, stockVars, entryVars
      <3>2. CASE \E w \in writers : RunWriter(w)
        BY <3>2 DEF RunWriter, brokerVars, stockVars, entryVars, mainVars
      <3>3. CASE BrokerFills
        BY <3>3 DEF BrokerFills, Fill, stockVars, entryVars, mainVars
      <3>4. CASE BrokerLapses
        BY <3>4 DEF BrokerLapses, Close, stockVars, entryVars, mainVars
      <3>5. CASE UNCHANGED vars
        BY <3>5 DEF vars, brokerVars, stockVars, entryVars, mainVars
      <3> QED BY <1>13, <3>1, <3>2, <3>3, <3>4, <3>5
    <2> QED BY <2>1 DEF PhaseFn, PhaseOf, Legs
  <1> QED
    BY <1>1, <1>2, <1>3, <1>4, <1>5, <1>6, <1>7, <1>8, <1>9, <1>11, <1>12, <1>13
    DEF Next, Submission, Reconcile, Exit, Background

\* The tables keep the promise of LateFillWindow: a stored entry order can be
\* found by its late fills until its grace period is over or the target is gone.
THEOREM LateFillsAreAttributed == Spec => AttributesLateFills
  <1>1. IInv /\ IInv' /\ [Next]_vars => [Window!Next]_PhaseFn
    BY WindowStep
  <1> QED
    BY <1>1, WindowInit, Invariance, PTL
    DEF Spec, AttributesLateFills, Window!Spec, PhaseFn

\* An order whose fills were given up is never bound again, and one of the
\* bundle is given up only after the grace period or with the whole target.
GivenUpForGood ==
    \A o \in OrdNos :
        /\ PhaseOf(o) = "gone" => PhaseOf(o)' = "gone"
        /\ PhaseOf(o) = "known" =>
              \/ PhaseOf(o)' \in {"known", "late"}
              \/ \A p \in OrdNos : PhaseOf(p)' \in {"none", "gone"}

\* What the window's steps do to one order.
LEMMA WindowForgets ==
    ASSUME [Window!Next]_PhaseFn
    PROVE  GivenUpForGood
  <1>1. CASE UNCHANGED PhaseFn
    <2>1. \A o \in OrdNos : PhaseOf(o)' = PhaseOf(o)
      <3>1. \A o \in OrdNos : PhaseFn'[o] = PhaseFn[o]
        BY <1>1
      <3> QED
        BY <3>1 DEF PhaseFn
    <2> QED
      BY <2>1 DEF GivenUpForGood
  <1>2. ASSUME NEW q \in OrdNos,
               Window!Place(q) \/ Window!PlaceUnheard(q) \/ Window!Expire(q)
        PROVE  GivenUpForGood
    BY <1>2 DEF Window!Place, Window!PlaceUnheard, Window!Expire, GivenUpForGood
  <1>3. ASSUME NEW S \in SUBSET OrdNos, Window!Bind(S)
        PROVE  GivenUpForGood
    BY <1>3 DEF Window!Bind, GivenUpForGood
  <1>4. CASE Window!Retire
    BY <1>4 DEF Window!Retire, GivenUpForGood
  <1>5. CASE Window!Drop
    BY <1>5 DEF Window!Drop, GivenUpForGood
  <1> QED
    BY <1>1, <1>2, <1>3, <1>4, <1>5 DEF Window!Next

\* Through the refinement: an entry order that left the tables is never bound
\* again, and no bundle's order is given up without its grace period while the
\* target lives, whichever handler retires, restages or cancels the bundle.
THEOREM OrdersAreGivenUpForGood == Spec => [][GivenUpForGood]_vars
  <1>1. IInv /\ IInv' /\ [Next]_vars => [GivenUpForGood]_vars
    BY WindowStep, WindowForgets
  <1> QED
    BY <1>1, Invariance, PTL DEF Spec
=============================================================================
