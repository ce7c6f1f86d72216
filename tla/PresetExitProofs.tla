-------------------------- MODULE PresetExitProofs --------------------------
(***************************************************************************)
(* Theorems about PresetExit, for every value of its constants that        *)
(* satisfies PresetAssumption: every variable keeps its type, the broker   *)
(* never works two take-profits the engine knows of, and a cancel goes to  *)
(* an order of the kind it is meant for.                                   *)
(***************************************************************************)
EXTENDS PresetExit, WireFacts

\* Orders that were not accepted yet do not exist.
Fresh ==
    \A o \in OrdNos : o >= nextNo => kind[o] = "NONE" /\ ~live[o]

\* While the dispatcher places a take-profit, the old one is dead.
Placing == rx = "place" /\ tpNo # 0 => ~live[tpNo]

\* The number in memory was handed out.
Known == tpNo < nextNo

PInv == TypeOK /\ Fresh /\ OneTakeProfit /\ Placing /\ Known

-----------------------------------------------------------------------------
(***************************************************************************)
(* What the broker's operations do to the invariant.                       *)
(***************************************************************************)

\* Closing an order keeps the types, and only it stops working.
LEMMA CloseEffect ==
    ASSUME PInv, NEW o \in OrdNos, Close(o)
    PROVE  /\ nextNo' = nextNo /\ kind' = kind /\ todo' = todo
           /\ unheard' = unheard /\ held' = held
           /\ live' \in [OrdNos -> BOOLEAN] /\ ~live'[o]
           /\ \A p \in OrdNos : live'[p] => live[p]
           /\ free' \in Nat
  BY DEF PInv, TypeOK, Close, IsSell, OrdNos

\* A cancel, however it is answered, adds nothing.
LEMMA CancelEffect ==
    ASSUME PInv, NEW o \in OrdNos \cup {0}, NEW ok \in BOOLEAN,
           CancelOrder(o, ok)
    PROVE  /\ nextNo' = nextNo /\ kind' = kind /\ todo' = todo
           /\ unheard' = unheard /\ held' = held
           /\ live' \in [OrdNos -> BOOLEAN]
           /\ \A p \in OrdNos : live'[p] => live[p]
           /\ free' \in Nat
           /\ ok /\ o # 0 => ~live'[o]
  <1>1. CASE o # 0 /\ Close(o)
    BY <1>1, CloseEffect
  <1>2. CASE ~ok /\ UNCHANGED <<nextNo, kind, todo, live, held, free, unheard>>
    BY <1>2 DEF PInv, TypeOK
  <1> QED
    BY <1>1, <1>2 DEF CancelOrder

\* An accepted order is new, and the only one that starts to work.
LEMMA AcceptEffect ==
    ASSUME PInv, NEW k \in {"ENTRY", "TP", "EXIT"}, NEW q \in Nat, Accept(k, q)
    PROVE  /\ nextNo \in OrdNos /\ nextNo' = nextNo + 1
           /\ nextNo' \in 1..(MaxOrders + 1)
           /\ kind' \in [OrdNos -> {"NONE", "ENTRY", "TP", "EXIT"}]
           /\ kind'[nextNo] = k
           /\ \A p \in OrdNos \ {nextNo} :
                 kind'[p] = kind[p] /\ live'[p] = live[p]
           /\ todo' \in [OrdNos -> Nat]
           /\ live' \in [OrdNos -> BOOLEAN]
           /\ free' \in Nat /\ held' = held
           /\ wire' \in Seq([no : OrdNos, qty : Nat])
  <1>1. nextNo \in OrdNos /\ nextNo' = nextNo + 1 /\ nextNo' \in 1..(MaxOrders + 1)
    BY PresetAssumption DEF PInv, TypeOK, Accept, OrdNos
  <1>2. /\ kind' \in [OrdNos -> {"NONE", "ENTRY", "TP", "EXIT"}]
        /\ kind'[nextNo] = k
        /\ todo' \in [OrdNos -> Nat]
        /\ live' \in [OrdNos -> BOOLEAN]
        /\ held' = held
        /\ \A p \in OrdNos \ {nextNo} :
              kind'[p] = kind[p] /\ live'[p] = live[p]
    BY <1>1 DEF PInv, TypeOK, Accept
  <1>3. free' \in Nat
    BY DEF PInv, TypeOK, Accept
  <1>4. wire' \in Seq([no : OrdNos, qty : Nat])
    <2>1. CASE k = "ENTRY"
      BY <2>1 DEF PInv, TypeOK, Accept
    <2>2. CASE k # "ENTRY"
      <3>1. [no |-> nextNo, qty |-> 0] \in [no : OrdNos, qty : Nat]
        BY <1>1
      <3>2. wire \in Seq([no : OrdNos, qty : Nat])
        BY DEF PInv, TypeOK
      <3>3. wire' = Append(wire, [no |-> nextNo, qty |-> 0])
        BY <2>2 DEF Accept
      <3> HIDE DEF OrdNos
      <3> QED
        BY <3>1, <3>2, <3>3
    <2> QED
      BY <2>1, <2>2
  <1> QED
    BY <1>1, <1>2, <1>3, <1>4

\* Taking the oldest message off the wire.
LEMMA TakeEffect ==
    ASSUME PInv, NEW r, Take(r)
    PROVE  /\ r \in [no : OrdNos, qty : Nat]
           /\ r.no \in OrdNos /\ r.qty \in Nat
           /\ wire' \in Seq([no : OrdNos, qty : Nat])
           /\ rx = "idle"
  <1>1. wire \in Seq([no : OrdNos, qty : Nat]) /\ wire # <<>>
    BY DEF PInv, TypeOK, Take
  <1>2. r = Head(wire) /\ wire' = Tail(wire) /\ rx = "idle"
    BY DEF Take
  <1>3. r \in [no : OrdNos, qty : Nat] /\ wire' \in Seq([no : OrdNos, qty : Nat])
    <2>1. ASSUME NEW S, wire \in Seq(S)
          PROVE  Head(wire) \in S /\ Tail(wire) \in Seq(S)
      BY <1>1, <2>1
    <2> QED
      BY <1>1, <1>2, <2>1
  <1> QED
    BY <1>2, <1>3

\* A step that starts no order and keeps the number keeps the invariant.
LEMMA NoNewOrder ==
    ASSUME PInv, TypeOK', nextNo' = nextNo, kind' = kind, unheard' = unheard,
           tpNo' = tpNo, \A p \in OrdNos : live'[p] => live[p],
           rx' = "place" /\ tpNo # 0 => ~live'[tpNo]
    PROVE  PInv'
  <1>1. tpNo \in OrdNos \cup {0}
    BY DEF PInv, TypeOK
  <1>2. Fresh'
    BY DEF PInv, Fresh
  <1>3. OneTakeProfit'
    BY DEF PInv, OneTakeProfit
  <1>4. Placing' /\ Known'
    BY DEF PInv, Placing, Known
  <1> QED
    BY <1>2, <1>3, <1>4 DEF PInv

\* A new order that is no take-profit keeps the invariant.
LEMMA OtherOrder ==
    ASSUME PInv, TypeOK', NEW k \in {"ENTRY", "EXIT"}, NEW q \in Nat,
           Accept(k, q), unheard \subseteq unheard', tpNo' = tpNo, rx' = rx
    PROVE  PInv'
  <1>1. /\ nextNo \in OrdNos /\ nextNo' = nextNo + 1 /\ kind'[nextNo] = k
        /\ \A p \in OrdNos \ {nextNo} : kind'[p] = kind[p] /\ live'[p] = live[p]
    BY AcceptEffect
  <1>2. tpNo \in OrdNos \cup {0} /\ tpNo < nextNo
    BY DEF PInv, TypeOK, Known
  <1>3. Fresh'
    BY <1>1 DEF PInv, Fresh, OrdNos
  <1>4. OneTakeProfit'
    BY <1>1 DEF PInv, OneTakeProfit
  <1>5. Placing' /\ Known'
    BY <1>1, <1>2 DEF PInv, Placing, Known, OrdNos
  <1> QED
    BY <1>3, <1>4, <1>5 DEF PInv

-----------------------------------------------------------------------------
(***************************************************************************)
(* The steps.                                                              *)
(***************************************************************************)

\* The broker's fills and lapses start nothing.
LEMMA BrokerStep ==
    ASSUME PInv, Broker
    PROVE  PInv'
  <1>1. ASSUME NEW o \in OrdNos, Lapse(o)
        PROVE  PInv'
    <2>1. Close(o) /\ UNCHANGED <<wire, stockVars, rx, mainVars>>
      BY <1>1 DEF Lapse
    <2>2. TypeOK'
      BY <2>1, CloseEffect DEF PInv, TypeOK, stockVars, mainVars
    <2> QED
      BY <2>1, <2>2, CloseEffect, NoNewOrder DEF PInv, Placing, TypeOK, stockVars
  <1>2. ASSUME NEW o \in OrdNos, NEW q \in 1..todo[o], Fill(o, q)
        PROVE  PInv'
    <2>0. todo[o] \in Nat /\ q \in Nat /\ q <= todo[o]
      BY <1>2 DEF PInv, TypeOK
    <2>1. wire' \in Seq([no : OrdNos, qty : Nat])
      <3>1. wire \in Seq([no : OrdNos, qty : Nat])
        BY DEF PInv, TypeOK
      <3>2. wire' = Append(wire, [no |-> o, qty |-> q])
        BY <1>2 DEF Fill
      <3> HIDE DEF OrdNos
      <3> QED
        BY <2>0, <3>1, <3>2
    <2>2. /\ todo' \in [OrdNos -> Nat] /\ live' \in [OrdNos -> BOOLEAN]
          /\ \A p \in OrdNos : live'[p] => live[p]
      BY <1>2, <2>0 DEF PInv, TypeOK, Fill
    <2>3. held' \in Nat /\ free' \in Nat
      BY <1>2, <2>0 DEF PInv, TypeOK, Fill
    <2>4. UNCHANGED <<nextNo, kind, unheard, status, bq, tpNo, requested,
                      sellOdno, rx, pc, orig, rem>>
      BY <1>2 DEF Fill, stockVars, mainVars
    <2>5. TypeOK'
      BY <2>1, <2>2, <2>3, <2>4 DEF PInv, TypeOK
    <2> QED
      BY <2>2, <2>4, <2>5, NoNewOrder DEF PInv, Placing, TypeOK
  <1> QED
    BY <1>1, <1>2 DEF Broker

\* A report starts no order; where it lets the dispatcher place a new
\* take-profit, the old one was cancelled.
LEMMA ReportsStep ==
    ASSUME PInv, Reports
    PROVE  PInv'
  <1>1. ASSUME NEW r, Notice(r)
        PROVE  PInv'
    <2>1. Take(r) /\ sellOdno' = Bound(r.no)
      BY <1>1 DEF Notice
    <2>2. UNCHANGED <<nextNo, kind, todo, live, held, free, unheard,
                      status, bq, tpNo, requested, rx, pc, orig, rem>>
      BY <1>1 DEF Notice, mainVars
    <2>3. sellOdno' \in OrdNos \cup {0}
      BY <2>1, TakeEffect DEF Bound, PInv, TypeOK
    <2>4. TypeOK'
      BY <2>1, <2>2, <2>3, TakeEffect DEF PInv, TypeOK
    <2> QED
      BY <2>2, <2>4, NoNewOrder DEF PInv, Placing
  <1>2. ASSUME NEW r, BuyReport(r)
        PROVE  PInv'
    <2>1. Take(r) /\ status' = "HOLDING" /\ bq' = bq + r.qty /\ requested' = FALSE
      BY <1>2 DEF BuyReport
    <2>2. UNCHANGED <<tpNo, sellOdno, pc, orig, rem>>
      BY <1>2 DEF BuyReport, mainVars
    <2>3. PICK ok \in BOOLEAN :
            /\ IF tpNo = 0
               THEN ok /\ UNCHANGED <<nextNo, kind, todo, live, held, free, unheard>>
               ELSE CancelOrder(tpNo, ok)
            /\ rx' = IF ok THEN "place" ELSE "idle"
      BY <1>2 DEF BuyReport
    <2>4. tpNo \in OrdNos \cup {0}
      BY DEF PInv, TypeOK
    <2>5. /\ nextNo' = nextNo /\ kind' = kind /\ todo' = todo
          /\ unheard' = unheard /\ held' = held
          /\ live' \in [OrdNos -> BOOLEAN]
          /\ \A p \in OrdNos : live'[p] => live[p]
          /\ free' \in Nat
          /\ ok /\ tpNo # 0 => ~live'[tpNo]
      <3>1. CASE tpNo = 0
        BY <2>3, <3>1 DEF PInv, TypeOK
      <3>2. CASE tpNo # 0
        BY <2>3, <2>4, <3>2, CancelEffect
      <3> QED
        BY <3>1, <3>2
    <2>6. r.qty \in Nat /\ wire' \in Seq([no : OrdNos, qty : Nat])
      BY <2>1, TakeEffect
    <2>7. bq' \in Nat /\ rx' \in {"idle", "place"}
      BY <2>1, <2>3, <2>6 DEF PInv, TypeOK
    <2>8. TypeOK'
      BY <2>1, <2>2, <2>5, <2>6, <2>7 DEF PInv, TypeOK
    <2> QED
      BY <2>2, <2>3, <2>5, <2>8, NoNewOrder
  <1>3. ASSUME NEW r,
               \/ SellReportRevives(r) \/ SellReportCompletes(r)
               \/ ReportIgnored(r)
        PROVE  PInv'
    <2>1. Take(r)
      BY <1>3 DEF SellReportRevives, SellReportCompletes, ReportIgnored
    <2>2. UNCHANGED <<nextNo, kind, todo, live, held, free, unheard,
                      tpNo, requested, rx, pc, orig, rem>>
      BY <1>3 DEF SellReportRevives, SellReportCompletes, ReportIgnored,
                  stockVars, mainVars
    <2>3. /\ sellOdno' \in OrdNos \cup {0} /\ bq' \in Nat
          /\ status' \in {"WATCHING", "BUY_ORDERED", "HOLDING", "SELL_ORDERED",
                          "COMPLETED", "DROPPED"}
      BY <1>3, <2>1, TakeEffect
         DEF SellReportRevives, SellReportCompletes, ReportIgnored, Bound,
             stockVars, PInv, TypeOK
    <2>4. TypeOK'
      BY <2>1, <2>2, <2>3, TakeEffect DEF PInv, TypeOK
    <2> QED
      BY <2>2, <2>4, NoNewOrder DEF PInv, Placing
  <1> QED
    BY <1>1, <1>2, <1>3 DEF Reports

\* The take-profit the dispatcher places is the only one that works: the
\* one whose number memory has is dead.
LEMMA PlaceTpStep ==
    ASSUME PInv, PlaceTp
    PROVE  PInv'
  <1>1. /\ rx = "place" /\ rx' = "idle" /\ bq \in Nat
        /\ UNCHANGED <<status, bq, requested, sellOdno, pc, orig, rem>>
    BY DEF PlaceTp, mainVars, PInv, TypeOK
  <1>2. CASE Accept("TP", bq)
    <2>1. \/ tpNo' = nextNo /\ UNCHANGED unheard
          \/ tpNo' = 0 /\ unheard' = unheard \cup {nextNo}
      <3>1. nextNo \in Nat /\ nextNo' = nextNo + 1
        BY <1>2 DEF PInv, TypeOK, Accept
      <3> QED
        BY <3>1 DEF PlaceTp, SendSellOrder, brokerVars
    <2>2. /\ nextNo \in OrdNos /\ nextNo' = nextNo + 1
          /\ nextNo' \in 1..(MaxOrders + 1)
          /\ kind' \in [OrdNos -> {"NONE", "ENTRY", "TP", "EXIT"}]
          /\ kind'[nextNo] = "TP"
          /\ \A p \in OrdNos \ {nextNo} :
                kind'[p] = kind[p] /\ live'[p] = live[p]
          /\ todo' \in [OrdNos -> Nat]
          /\ live' \in [OrdNos -> BOOLEAN]
          /\ free' \in Nat /\ held' = held
          /\ wire' \in Seq([no : OrdNos, qty : Nat])
      BY <1>1, <1>2, AcceptEffect
    <2>3. /\ unheard' \subseteq OrdNos /\ unheard \subseteq unheard'
          /\ tpNo' \in OrdNos \cup {0} /\ tpNo' < nextNo'
          /\ tpNo' = nextNo \/ nextNo \in unheard'
      <3>1. unheard \subseteq OrdNos
        BY DEF PInv, TypeOK
      <3>2. nextNo \in Nat /\ 0 < nextNo' /\ nextNo < nextNo'
        BY <2>2 DEF OrdNos
      <3> QED
        BY <2>1, <2>2, <3>1, <3>2
    <2>4. TypeOK'
      <3>1. /\ status' \in {"WATCHING", "BUY_ORDERED", "HOLDING",
                            "SELL_ORDERED", "COMPLETED", "DROPPED"}
            /\ bq' \in Nat /\ requested' \in BOOLEAN
            /\ sellOdno' \in OrdNos \cup {0}
            /\ pc' \in {"idle", "cancel", "reload", "send", "set", "rollback",
                        "sold"}
            /\ orig' \in OrdNos \cup {0} /\ rem' \in Nat /\ held' \in Nat
        BY <1>1, <2>2 DEF PInv, TypeOK
      <3> QED
        BY <1>1, <2>2, <2>3, <3>1 DEF TypeOK
    <2>5. Fresh'
      <3>1. nextNo \in Nat /\ (\A p \in OrdNos : p \in Nat)
        BY <2>2 DEF OrdNos
      <3>2. \A o \in OrdNos : o >= nextNo' => o # nextNo /\ o >= nextNo
        BY <2>2, <3>1
      <3> QED
        BY <2>2, <3>2 DEF PInv, Fresh
    <2>6. OneTakeProfit'
      <3>1. \A o \in OrdNos : live[o] /\ kind[o] = "TP" => o \in unheard
        BY <1>1 DEF PInv, OneTakeProfit, Placing, OrdNos
      <3> QED
        BY <2>2, <2>3, <3>1 DEF OneTakeProfit
    <2> QED
      BY <1>1, <2>3, <2>4, <2>5, <2>6 DEF PInv, Placing, Known
  <1>3. CASE tpNo' = 0 /\ UNCHANGED brokerVars
    <2>1. TypeOK'
      BY <1>1, <1>3 DEF PInv, TypeOK, brokerVars
    <2>2. \A o \in OrdNos : live[o] /\ kind[o] = "TP" => o \in unheard
      BY <1>1 DEF PInv, OneTakeProfit, Placing, OrdNos
    <2> QED
      BY <1>1, <1>3, <2>1, <2>2
         DEF PInv, Fresh, OneTakeProfit, Placing, Known, brokerVars, TypeOK, OrdNos
  <1> QED
    BY <1>2, <1>3 DEF PlaceTp, SendSellOrder

\* The main loop's requests: entries and exits are no take-profits, and a
\* cancel starts nothing.
LEMMA RequestStep ==
    ASSUME PInv, SendEntry \/ EndEntry \/ CancelTp \/ SendExit \/ CancelSell
    PROVE  PInv'
  <1>1. CASE SendEntry
    <2>1. /\ Accept("ENTRY", EntryQty) /\ EntryQty \in Nat
          /\ status' = "BUY_ORDERED"
          /\ UNCHANGED <<unheard, bq, tpNo, requested, sellOdno, rx, pc, orig, rem>>
      BY <1>1, PresetAssumption DEF SendEntry, mainVars
    <2>2. TypeOK'
      BY <2>1, AcceptEffect DEF PInv, TypeOK
    <2> QED
      BY <2>1, <2>2, OtherOrder
  <1>2. CASE EndEntry
    <2>1. /\ status' \in {"WATCHING", "HOLDING"}
          /\ UNCHANGED <<wire, bq, tpNo, requested, sellOdno, rx, pc, orig, rem>>
      BY <1>2 DEF EndEntry, mainVars
    <2>2. /\ nextNo' = nextNo /\ kind' = kind /\ todo' = todo
          /\ unheard' = unheard /\ held' = held
          /\ live' \in [OrdNos -> BOOLEAN]
          /\ \A p \in OrdNos : live'[p] => live[p]
          /\ free' \in Nat
      <3>1. CASE \E o \in OrdNos : kind[o] = "ENTRY" /\ Close(o)
        BY <3>1, CloseEffect
      <3>2. CASE UNCHANGED <<nextNo, kind, todo, live, held, free, unheard>>
        BY <3>2 DEF PInv, TypeOK
      <3> QED
        BY <1>2, <3>1, <3>2 DEF EndEntry
    <2>3. TypeOK'
      BY <2>1, <2>2 DEF PInv, TypeOK
    <2> QED
      BY <1>2, <2>1, <2>2, <2>3, NoNewOrder DEF EndEntry
  <1>3. CASE CancelTp \/ CancelSell
    <2>1. PICK o \in OrdNos \cup {0}, ok \in BOOLEAN : CancelOrder(o, ok)
      BY <1>3 DEF CancelTp, CancelSell, PInv, TypeOK
    <2>2. /\ pc' \in {"idle", "reload", "rollback", "sold"}
          /\ orig' \in OrdNos \cup {0}
          /\ UNCHANGED <<wire, status, bq, tpNo, requested, sellOdno, rx, rem>>
      BY <1>3 DEF CancelTp, CancelSell, stockVars, PInv, TypeOK
    <2>3. TypeOK'
      BY <2>1, <2>2, CancelEffect DEF PInv, TypeOK
    <2> QED
      BY <2>1, <2>2, <2>3, CancelEffect, NoNewOrder DEF PInv, Placing, TypeOK
  <1>4. CASE SendExit
    <2>1. /\ pc' = "set" /\ rem' = 0 /\ rem \in Nat
          /\ UNCHANGED <<status, bq, tpNo, requested, sellOdno, rx, orig>>
      BY <1>4 DEF SendExit, stockVars, PInv, TypeOK
    <2>2. CASE Accept("EXIT", rem) /\ unheard' \in {unheard, unheard \cup {nextNo}}
      <3>1. nextNo \in OrdNos
        BY <2>1, <2>2, AcceptEffect
      <3>2. TypeOK'
        BY <2>1, <2>2, <3>1, AcceptEffect DEF PInv, TypeOK
      <3> QED
        BY <2>1, <2>2, <3>2, OtherOrder
    <2>3. CASE UNCHANGED brokerVars
      <3>1. TypeOK'
        BY <2>1, <2>3 DEF PInv, TypeOK, brokerVars
      <3> QED
        BY <2>1, <2>3, <3>1, NoNewOrder DEF brokerVars, PInv, Placing
    <2> QED
      BY <1>4, <2>2, <2>3 DEF SendExit, SendSellOrder
  <1> QED
    BY <1>1, <1>2, <1>3, <1>4

\* The main loop's other steps change the record or read.
LEMMA RecordStep ==
    ASSUME PInv,
           \/ StartExit \/ ReloadQty \/ SetExit \/ RollbackUnbound
           \/ RollbackSell \/ AssumeSold \/ Prune
    PROVE  PInv'
  <1>1. UNCHANGED <<nextNo, kind, todo, live, held, free, unheard, wire,
                    bq, tpNo, rx>>
    BY DEF StartExit, ReloadQty, SetExit, RollbackUnbound, RollbackSell,
           AssumeSold, Prune, SellTimedOut, brokerVars, stockVars, mainVars
  <1>2. /\ status' \in {"WATCHING", "BUY_ORDERED", "HOLDING", "SELL_ORDERED",
                        "COMPLETED", "DROPPED"}
        /\ requested' \in BOOLEAN /\ sellOdno' \in OrdNos \cup {0}
    BY DEF StartExit, ReloadQty, SetExit, RollbackUnbound, RollbackSell,
           AssumeSold, Prune, SellTimedOut, stockVars, PInv, TypeOK
  <1>3. /\ pc' \in {"idle", "cancel", "reload", "send", "set", "rollback", "sold"}
        /\ orig' \in OrdNos \cup {0} /\ rem' \in Nat
    BY DEF StartExit, ReloadQty, SetExit, RollbackUnbound, RollbackSell,
           AssumeSold, Prune, SellTimedOut, mainVars, PInv, TypeOK
  <1>4. TypeOK'
    BY <1>1, <1>2, <1>3 DEF PInv, TypeOK
  <1> QED
    BY <1>1, <1>4, NoNewOrder DEF PInv, Placing

\* The invariant holds at first and every step keeps it.
LEMMA Invariance == Spec => []PInv
  <1>1. Init => PInv
    <2>1. Init => TypeOK
      <3>1. <<>> \in Seq([no : OrdNos, qty : Nat])
        OBVIOUS
      <3>2. 1 \in 1..(MaxOrders + 1)
        BY PresetAssumption
      <3> SUFFICES ASSUME Init PROVE TypeOK
        OBVIOUS
      <3>3. /\ kind \in [OrdNos -> {"NONE", "ENTRY", "TP", "EXIT"}]
            /\ todo \in [OrdNos -> Nat]
            /\ live \in [OrdNos -> BOOLEAN]
        BY DEF Init
      <3>4. /\ held \in Nat /\ free \in Nat /\ unheard \subseteq OrdNos
            /\ status = "WATCHING" /\ bq \in Nat
            /\ tpNo = 0 /\ requested = FALSE /\ sellOdno = 0
            /\ rx = "idle" /\ pc = "idle" /\ orig = 0 /\ rem \in Nat
            /\ wire = <<>> /\ nextNo = 1
        BY DEF Init
      <3> QED
        BY <3>1, <3>2, <3>3, <3>4 DEF TypeOK
    <2> QED
      BY <2>1 DEF Init, PInv, Fresh, OneTakeProfit, Placing, Known
  <1>2. PInv /\ [Next]_vars => PInv'
    <2> SUFFICES ASSUME PInv, [Next]_vars PROVE PInv'
      OBVIOUS
    <2>1. CASE Broker
      BY <2>1, BrokerStep
    <2>2. CASE Reports
      BY <2>2, ReportsStep
    <2>3. CASE PlaceTp
      BY <2>3, PlaceTpStep
    <2>4. CASE MainLoop
      BY <2>4, RequestStep, RecordStep DEF MainLoop
    <2>5. CASE UNCHANGED vars
      <3>1. TypeOK'
        BY <2>5 DEF vars, brokerVars, stockVars, mainVars, PInv, TypeOK
      <3> QED
        BY <2>5, <3>1, NoNewOrder
           DEF vars, brokerVars, stockVars, PInv, Placing
    <2> QED
      BY <2>1, <2>2, <2>3, <2>4, <2>5 DEF Next
  <1> QED
    BY <1>1, <1>2, PTL DEF Spec

\* Every variable keeps its type: quantities stay natural, whatever is
\* filled, cancelled or refused in between.
THEOREM PresetTypeCorrect == Spec => []TypeOK
  <1>1. PInv => TypeOK
    BY DEF PInv
  <1> QED
    BY <1>1, Invariance, PTL

\* Of the take-profits the engine knows of at most one works, and
\* preset_tp_ord_no names it.
THEOREM TakeProfitIsOne == Spec => []OneTakeProfit
  <1>1. PInv => OneTakeProfit
    BY DEF PInv
  <1> QED
    BY <1>1, Invariance, PTL

-----------------------------------------------------------------------------
(***************************************************************************)
(* The numbers that cancels are sent for.                                  *)
(***************************************************************************)

\* The numbers the handlers cancel by: preset_tp_ord_no, its copy in the exit
\* and sell_odno, which any SELL notice of the code may have set.
Numbers ==
    /\ tpNo # 0 => kind[tpNo] = "TP"
    /\ orig # 0 => kind[orig] = "TP"
    /\ sellOdno # 0 => IsSell(sellOdno)

\* What is noticed, and not filled, is a SELL order.
Noticed == \A i \in DOMAIN wire : wire[i].qty = 0 => IsSell(wire[i].no)

\* An order keeps its kind.
LEMMA KindKept ==
    ASSUME PInv, [Next]_vars
    PROVE  \A p \in OrdNos : kind[p] # "NONE" => kind'[p] = kind[p]
  <1>1. ASSUME NEW k \in {"ENTRY", "TP", "EXIT"}, NEW q \in Nat, Accept(k, q)
        PROVE  \A p \in OrdNos : kind[p] # "NONE" => kind'[p] = kind[p]
    <2>1. \A p \in OrdNos \ {nextNo} : kind'[p] = kind[p]
      BY <1>1, AcceptEffect
    <2>2. nextNo \in OrdNos => kind[nextNo] = "NONE"
      BY DEF PInv, Fresh, OrdNos
    <2> QED
      BY <2>1, <2>2
  <1>2. bq \in Nat /\ rem \in Nat /\ EntryQty \in Nat
    BY PresetAssumption DEF PInv, TypeOK
  <1>3. CASE SendEntry \/ SendExit \/ PlaceTp
    <2>1. \/ kind' = kind
          \/ Accept("ENTRY", EntryQty) \/ Accept("EXIT", rem) \/ Accept("TP", bq)
      BY <1>3 DEF SendEntry, SendExit, PlaceTp, SendSellOrder, brokerVars
    <2> QED
      BY <1>1, <1>2, <2>1
  <1>4. CASE Broker \/ EndEntry \/ CancelTp \/ CancelSell
    BY <1>4 DEF Broker, Lapse, Fill, Close, EndEntry, CancelTp, CancelSell, CancelOrder
  <1>5. CASE Reports
    BY <1>5 DEF Reports, Notice, BuyReport, CancelOrder, Close, SellReportRevives,
                SellReportCompletes, ReportIgnored
  <1>6. CASE \/ StartExit \/ ReloadQty \/ SetExit \/ RollbackUnbound \/ RollbackSell
             \/ AssumeSold \/ Prune
    BY <1>6 DEF StartExit, ReloadQty, SetExit, RollbackUnbound, RollbackSell,
                AssumeSold, Prune, brokerVars
  <1>7. CASE UNCHANGED vars
    BY <1>7 DEF vars, brokerVars
  <1> QED
    BY <1>3, <1>4, <1>5, <1>6, <1>7 DEF Next, MainLoop

\* Numbers that are kept still name what they named.
LEMMA SameNumbers ==
    ASSUME PInv, Numbers, [Next]_vars, tpNo' = tpNo, orig' \in {orig, tpNo, 0},
           \/ sellOdno' \in {sellOdno, 0}
           \/ sellOdno' \in OrdNos /\ IsSell(sellOdno')
    PROVE  Numbers'
  <1>1. tpNo \in OrdNos \cup {0} /\ orig \in OrdNos \cup {0} /\ sellOdno \in OrdNos \cup {0}
    BY DEF PInv, TypeOK
  <1>2. \A p \in OrdNos : kind[p] \in {"TP", "EXIT"} => kind'[p] = kind[p]
    BY KindKept
  <1> QED
    BY <1>1, <1>2 DEF Numbers, IsSell

\* Reports that are still on the wire name what they named, a new one names a
\* SELL order or shares.
LEMMA NoticedKept ==
    ASSUME PInv, Noticed, [Next]_vars,
           \/ wire' = wire
           \/ wire # <<>> /\ wire' = Tail(wire)
           \/ \E e \in [no : OrdNos, qty : Nat] :
                 wire' = Append(wire, e) /\ (e.qty = 0 => kind'[e.no] \in {"TP", "EXIT"})
    PROVE  Noticed'
  <1> DEFINE Message == [no : OrdNos, qty : Nat]
  <1>1. wire \in Seq(Message)
    BY DEF PInv, TypeOK
  <1>2. \A p \in OrdNos : kind[p] \in {"TP", "EXIT"} => kind'[p] = kind[p]
    BY KindKept
  <1>3. \A i \in DOMAIN wire : wire[i].no \in OrdNos
    <2>1. \A i \in DOMAIN wire : wire[i] \in Message
      <3> HIDE DEF Message
      <3> QED
        BY <1>1, WirePlaces
    <2> QED
      BY <2>1
  <1>4. \A i \in DOMAIN wire : wire[i].qty = 0 => kind'[wire[i].no] \in {"TP", "EXIT"}
    BY <1>2, <1>3 DEF Noticed, IsSell
  <1>5. CASE wire' = wire
    BY <1>4, <1>5 DEF Noticed, IsSell
  <1>6. CASE wire # <<>> /\ wire' = Tail(wire)
    <2>1. \A i \in DOMAIN wire' : i + 1 \in DOMAIN wire /\ wire'[i] = wire[i + 1]
      <3> HIDE DEF Message
      <3> QED
        BY <1>1, <1>6, WireTake
    <2> QED
      BY <1>4, <2>1 DEF Noticed, IsSell
  <1>7. ASSUME NEW e \in Message, wire' = Append(wire, e),
               e.qty = 0 => kind'[e.no] \in {"TP", "EXIT"}
        PROVE  Noticed'
    <2>1. \A i \in DOMAIN wire' : \/ i \in DOMAIN wire /\ wire'[i] = wire[i]
                                  \/ wire'[i] = e
      <3> HIDE DEF Message
      <3> QED
        BY <1>1, <1>7, WireAdd
    <2> QED
      BY <1>4, <1>7, <2>1 DEF Noticed, IsSell
  <1> QED
    BY <1>5, <1>6, <1>7

\* The message of a report is one of those on the wire.
LEMMA Heard ==
    ASSUME PInv, Noticed, NEW r, Take(r)
    PROVE  r.qty = 0 => IsSell(r.no)
  <1> DEFINE Message == [no : OrdNos, qty : Nat]
  <1>1. wire \in Seq(Message) /\ wire # <<>> /\ r = Head(wire)
    BY DEF PInv, TypeOK, Take
  <1>2. 1 \in DOMAIN wire /\ r = wire[1]
    <2> HIDE DEF Message
    <2> QED
      BY <1>1, WireTake
  <1> QED
    BY <1>2 DEF Noticed

LEMMA NumbersStep ==
    ASSUME PInv, Numbers, Noticed, [Next]_vars
    PROVE  Numbers'
  <1>1. CASE \/ Broker \/ SendEntry \/ EndEntry \/ StartExit \/ CancelTp \/ ReloadQty
             \/ SendExit \/ SetExit \/ RollbackUnbound \/ CancelSell \/ RollbackSell
             \/ AssumeSold \/ Prune \/ UNCHANGED vars
    <2>1. /\ tpNo' = tpNo /\ orig' \in {orig, tpNo, 0}
          /\ sellOdno' \in {sellOdno, 0}
      BY <1>1 DEF Broker, Lapse, Fill, SendEntry, EndEntry, StartExit, CancelTp,
                  ReloadQty, SendExit, SetExit, RollbackUnbound, CancelSell,
                  RollbackSell, AssumeSold, Prune, vars, stockVars, mainVars
    <2> QED
      BY <2>1, SameNumbers
  <1>2. ASSUME NEW r, Notice(r) \/ SellReportCompletes(r), [Next]_vars
        PROVE  Numbers'
    <2>1. Take(r) /\ r.no \in OrdNos
      BY <1>2, TakeEffect DEF Notice, SellReportCompletes
    <2>2. IsSell(r.no)
      BY <1>2, <2>1, Heard DEF Notice, SellReportCompletes
    <2>3. tpNo' = tpNo /\ orig' = orig /\ sellOdno' \in {r.no, sellOdno}
      BY <1>2 DEF Notice, SellReportCompletes, Bound, mainVars
    <2> QED
      BY <2>1, <2>2, <2>3, SameNumbers
  <1>3. ASSUME NEW r, BuyReport(r) \/ SellReportRevives(r) \/ ReportIgnored(r)
        PROVE  Numbers'
    <2>1. tpNo' = tpNo /\ orig' = orig /\ sellOdno' \in {sellOdno, 0}
      BY <1>3 DEF BuyReport, SellReportRevives, ReportIgnored, stockVars, mainVars
    <2> QED
      BY <2>1, SameNumbers
  <1>4. CASE PlaceTp
    <2>1. orig' = orig /\ sellOdno' = sellOdno /\ bq \in Nat
      BY <1>4 DEF PlaceTp, mainVars, PInv, TypeOK
    <2>2. tpNo' = 0 \/ (tpNo' = nextNo /\ Accept("TP", bq))
      BY <1>4 DEF PlaceTp, SendSellOrder
    <2>3. tpNo' # 0 => kind'[tpNo'] = "TP"
      BY <2>1, <2>2, AcceptEffect
    <2>4. orig \in OrdNos \cup {0} /\ sellOdno \in OrdNos \cup {0}
      BY DEF PInv, TypeOK
    <2>5. \A p \in OrdNos : kind[p] \in {"TP", "EXIT"} => kind'[p] = kind[p]
      BY KindKept
    <2> QED
      BY <2>1, <2>3, <2>4, <2>5 DEF Numbers, IsSell
  <1> QED
    BY <1>1, <1>2, <1>3, <1>4 DEF Next, MainLoop, Reports

LEMMA NoticedStep ==
    ASSUME PInv, Noticed, [Next]_vars
    PROVE  Noticed'
  <1>1. ASSUME NEW k \in {"ENTRY", "TP", "EXIT"}, NEW q \in Nat, Accept(k, q)
        PROVE  Noticed'
    <2>1. nextNo \in OrdNos /\ kind'[nextNo] = k
      BY <1>1, AcceptEffect
    <2>2. \/ wire' = wire
          \/ k # "ENTRY" /\ wire' = Append(wire, [no |-> nextNo, qty |-> 0])
      BY <1>1 DEF Accept
    <2> QED
      BY <2>1, <2>2, NoticedKept
  <1>2. bq \in Nat /\ rem \in Nat /\ EntryQty \in Nat
    BY PresetAssumption DEF PInv, TypeOK
  <1>3. CASE SendEntry \/ SendExit \/ PlaceTp
    <2>1. \/ wire' = wire
          \/ Accept("ENTRY", EntryQty) \/ Accept("EXIT", rem) \/ Accept("TP", bq)
      BY <1>3 DEF SendEntry, SendExit, PlaceTp, SendSellOrder, brokerVars
    <2> QED
      BY <1>1, <1>2, <2>1, NoticedKept
  <1>4. ASSUME NEW o \in OrdNos, NEW q \in 1..todo[o], Fill(o, q)
        PROVE  Noticed'
    <2>1. todo[o] \in Nat /\ q \in Nat /\ q # 0
      BY DEF PInv, TypeOK
    <2>2. wire' = Append(wire, [no |-> o, qty |-> q])
      BY <1>4 DEF Fill
    <2> QED
      BY <2>1, <2>2, NoticedKept
  <1>5. CASE Reports
    <2>1. wire # <<>> /\ wire' = Tail(wire)
      BY <1>5 DEF Reports, Notice, BuyReport, SellReportRevives, SellReportCompletes,
                  ReportIgnored, Take
    <2> QED
      BY <2>1, NoticedKept
  <1>6. CASE \/ EndEntry \/ StartExit \/ CancelTp \/ ReloadQty \/ SetExit
             \/ RollbackUnbound \/ CancelSell \/ RollbackSell \/ AssumeSold \/ Prune
             \/ UNCHANGED vars
    <2>1. wire' = wire
      BY <1>6 DEF EndEntry, StartExit, CancelTp, ReloadQty, SetExit, RollbackUnbound,
                  CancelSell, RollbackSell, AssumeSold, Prune, vars, brokerVars
    <2> QED
      BY <2>1, NoticedKept
  <1>7. ASSUME NEW o \in OrdNos, Lapse(o)
        PROVE  Noticed'
    <2>1. wire' = wire
      BY <1>7 DEF Lapse
    <2> QED
      BY <2>1, NoticedKept
  <1> QED
    BY <1>3, <1>4, <1>5, <1>6, <1>7 DEF Next, MainLoop, Broker

\* Every cancel goes to the order it is meant for: the refresh and the market
\* exit cancel a take-profit, the SELL_ORDERED timeout a SELL order, and none
\* of them an entry that still buys, although sell_odno is taken from whatever
\* SELL notice comes first and numbers outlive their orders.
THEOREM CancelsHitSells == Spec => []Numbers
  <1>1. Init => Numbers /\ Noticed
    <2>1. Init => DOMAIN wire = {}
      BY DEF Init
    <2> QED
      BY <2>1 DEF Init, Numbers, Noticed
  <1>2. PInv /\ Numbers /\ Noticed /\ [Next]_vars => Numbers' /\ Noticed'
    BY NumbersStep, NoticedStep
  <1> QED
    BY <1>1, <1>2, Invariance, PTL DEF Spec
=============================================================================
