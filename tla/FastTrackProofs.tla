--------------------------- MODULE FastTrackProofs ---------------------------
(***************************************************************************)
(* Theorems about FastTrack, for every value of its constants that         *)
(* satisfies FastTrackAssumption.                                          *)
(***************************************************************************)
EXTENDS FastTrack, WireFacts

Message == [no : OrdNos, qty : Nat \ {0}, upTo : Nat]

\* The steps of the thread before its order has a number, before it may
\* sell, and from its first sale on.
Early == {"decide", "failed", "bindBuy"}
Before == Early \cup {"wait", "cancelAll", "noEntry", "cancelRest", "hold"}
Exiting == {"reloadNow", "sellNow", "bindNow", "bindSell", "watch", "done",
            "reload", "sellStop", "bindStop", "stopped"}

\* The orders that exist are those whose numbers were handed out.
Handed ==
    /\ bootNo <= nextNo
    /\ \A o \in OrdNos : /\ o < nextNo <=> kind[o] # "NONE"
                         /\ live[o] => o < nextNo

\* Reports tell of different shares, none of which is not filled yet.
Ledger ==
    \A i \in DOMAIN wire :
        /\ wire[i].qty <= wire[i].upTo
        /\ wire[i].upTo <= done[wire[i].no]
        /\ \A j \in DOMAIN wire :
              i < j /\ wire[i].no = wire[j].no =>
                  wire[i].upTo + wire[j].qty <= wire[j].upTo

\* What the track counted was filled before any fill that is still on the wire.
Counted ==
    /\ fs.buy = 0 => fs.bought = 0
    /\ fs.buy # 0 => bootNo <= fs.buy /\ fs.bought <= done[fs.buy]
    /\ \A i \in DOMAIN wire :
          fs.buy # 0 /\ wire[i].no = fs.buy =>
              fs.bought + wire[i].qty <= wire[i].upTo

\* A thread has its state, and stores a number of its own.
Binding ==
    /\ pc # "none" => fs.on
    /\ pc \in Early => fs.buy = 0
    /\ pc = "bindBuy" => res = 0 \/ res \in bootNo..(nextNo - 1)

\* Nobody enters a blocked code, and whoever sold is on its way to the block.
Blocking ==
    /\ pc \in Before => ~blocked
    /\ \A o \in OrdNos :
          o >= bootNo /\ kind[o] \in {"TP", "IOC"} => blocked \/ pc \in Exiting

\* real_buy_qty was counted, and the watch ends only when as much is sold.
Selling ==
    /\ pc \in {"none", "wait", "cancelAll", "noEntry"} \cup Early => real = 0
    /\ real <= fs.bought
    /\ pc = "done" => fs.sold >= real

FInv == TypeOK /\ Handed /\ Ledger /\ Counted /\ Binding /\ Blocking /\ Selling

\* The types of what the broker and the wire keep, and of the rest.
BrokerOK ==
    /\ nextNo \in 1..(MaxOrders + 1)
    /\ kind \in [OrdNos -> {"NONE", "BUY", "TP", "IOC"}]
    /\ todo \in [OrdNos -> Nat] /\ done \in [OrdNos -> Nat]
    /\ live \in [OrdNos -> BOOLEAN]
    /\ held \in Nat /\ free \in Nat
    /\ faults \in 0..MaxFaults

TrackOK ==
    /\ armed \in BOOLEAN /\ armedRow \in BOOLEAN /\ blocked \in BOOLEAN
    /\ fs \in [on : BOOLEAN, buy : 0..MaxOrders, sell : 0..MaxOrders,
               cancel : 0..MaxOrders, bought : Nat, sold : Nat]
    /\ shadow \in {"NONE", "WATCHING", "BUY_ORDERED", "HOLDING", "EXPIRED",
                   "COMPLETED"}
    /\ pc \in {"none"} \cup Before \cup Exiting
    /\ real \in Nat /\ rem \in Nat /\ res \in 0..MaxOrders

LEMMA Types ==
    TypeOK <=> /\ BrokerOK /\ TrackOK
               /\ wire \in Seq(Message) /\ bootNo \in 1..(MaxOrders + 1)
  BY DEF TypeOK, BrokerOK, TrackOK, Message, Before, Early, Exiting

-----------------------------------------------------------------------------
(***************************************************************************)
(* What requests do.                                                       *)
(***************************************************************************)

\* An order request hands out at most one number, for an order of its kind.
LEMMA SendEffect ==
    ASSUME BrokerOK, Handed, bootNo' = bootNo, bootNo \in Nat,
           NEW k \in {"BUY", "TP", "IOC"}, NEW q \in Nat, NEW ok, NEW no,
           Send(k, q, ok, no)
    PROVE  /\ BrokerOK' /\ Handed' /\ done' = done
           /\ no \in 0..MaxOrders
           /\ no # 0 => no \in nextNo..(nextNo' - 1)
           /\ \A o \in OrdNos : kind'[o] # kind[o] => kind'[o] = k
  <1>1. CASE Accept(k, q) /\ no \in {0, nextNo} /\ (faults' = faults \/ Fault)
    <2>1. nextNo \in OrdNos /\ nextNo' = nextNo + 1 /\ nextNo' \in 1..(MaxOrders + 1)
      BY <1>1, FastTrackAssumption DEF BrokerOK, Accept, OrdNos
    <2>2. /\ kind' = [kind EXCEPT ![nextNo] = k]
          /\ todo' = [todo EXCEPT ![nextNo] = q]
          /\ live' = [live EXCEPT ![nextNo] = TRUE]
          /\ done' = done /\ held' = held
      BY <1>1 DEF Accept
    <2>3. free' \in Nat
      BY <1>1 DEF BrokerOK, Accept
    <2>4. faults' \in 0..MaxFaults
      BY <1>1, FastTrackAssumption DEF BrokerOK, Fault
    <2>5. BrokerOK'
      BY <2>1, <2>2, <2>3, <2>4 DEF BrokerOK
    <2>6. Handed'
      BY <2>1, <2>2 DEF BrokerOK, Handed, OrdNos
    <2>7. no \in 0..MaxOrders /\ (no # 0 => no \in nextNo..(nextNo' - 1))
      BY <1>1, <2>1, FastTrackAssumption DEF OrdNos
    <2> QED
      BY <2>1, <2>2, <2>5, <2>6, <2>7 DEF BrokerOK
  <1>2. CASE no = 0 /\ UNCHANGED <<brokerVars, faults>>
    BY <1>2, FastTrackAssumption DEF BrokerOK, Handed, brokerVars
  <1> QED
    BY <1>1, <1>2 DEF Send

\* An order that stops working gives back its shares.
LEMMA CloseEffect ==
    ASSUME BrokerOK, Handed, bootNo' = bootNo, NEW o \in OrdNos, Close(o),
           faults' \in 0..MaxFaults
    PROVE  BrokerOK' /\ Handed' /\ done' = done /\ kind' = kind /\ nextNo' = nextNo
  BY DEF BrokerOK, Handed, Close

\* A cancel hands out nothing.
LEMMA CancelEffect ==
    ASSUME BrokerOK, Handed, bootNo' = bootNo, NEW o \in 0..MaxOrders,
           NEW ok \in BOOLEAN, Cancel(o, ok)
    PROVE  BrokerOK' /\ Handed' /\ done' = done /\ kind' = kind /\ nextNo' = nextNo
  <1>1. faults' \in 0..MaxFaults
    BY FastTrackAssumption DEF Cancel, Fault, BrokerOK
  <1>2. CASE o # 0 /\ Close(o)
    BY <1>1, <1>2, CloseEffect DEF OrdNos
  <1>3. CASE UNCHANGED <<brokerVars, faults>>
    BY <1>3 DEF BrokerOK, Handed, brokerVars
  <1> QED
    BY <1>2, <1>3 DEF Cancel

\* The track's end: the thread is gone, its state stays or is dropped.
LEMMA FinallyEffect ==
    ASSUME TypeOK, NEW entered \in BOOLEAN, NEW cleanup \in BOOLEAN,
           Finally(entered, cleanup)
    PROVE  /\ pc' = "none" /\ real' = 0 /\ rem' = 0 /\ res' = 0
           /\ blocked' = (blocked \/ entered)
           /\ armed' = FALSE /\ armedRow' \in BOOLEAN
           /\ fs' = fs \/ (cleanup /\ fs' = NoTrack)
           /\ faults' \in 0..MaxFaults
  <1>1. /\ pc' = "none" /\ real' = 0 /\ rem' = 0 /\ res' = 0
        /\ blocked' = (blocked \/ entered) /\ armed' = FALSE
    BY DEF Finally
  <1>2. CASE /\ armedRow' = FALSE /\ UNCHANGED faults
             /\ fs' = IF cleanup THEN NoTrack ELSE fs
    BY <1>1, <1>2 DEF TypeOK
  <1>3. CASE Fault /\ UNCHANGED <<armedRow, fs>>
    <2>1. faults' \in 0..MaxFaults
      BY <1>3, FastTrackAssumption DEF TypeOK, Fault
    <2> QED
      BY <1>1, <1>3, <2>1 DEF TypeOK
  <1> QED
    BY <1>2, <1>3 DEF Finally

-----------------------------------------------------------------------------
(***************************************************************************)
(* The steps.                                                              *)
(***************************************************************************)

\* The broker's fills and lapses: a report tells of shares filled after all
\* those that were reported before.
LEMMA BrokerInv ==
    ASSUME FInv, BrokerStep
    PROVE  FInv'
  <1>1. /\ BrokerOK /\ TrackOK /\ wire \in Seq(Message)
        /\ bootNo \in 1..(MaxOrders + 1) /\ bootNo \in Nat
    BY Types DEF FInv
  <1>2. ASSUME NEW o \in OrdNos, Lapse(o)
        PROVE  FInv'
    <2>1. Close(o) /\ UNCHANGED <<wire, faults, bootNo, poolVars, fs, shadow, threadVars>>
      BY <1>2 DEF Lapse
    <2>2. BrokerOK' /\ Handed' /\ done' = done /\ kind' = kind /\ nextNo' = nextNo
      BY <1>1, <2>1, CloseEffect DEF FInv, BrokerOK
    <2>3. TypeOK'
      BY <1>1, <2>1, <2>2, Types DEF TypeOK, BrokerOK, TrackOK, poolVars, threadVars, FInv
    <2>4. Ledger' /\ Counted' /\ Binding' /\ Blocking' /\ Selling'
      BY <2>1, <2>2
         DEF FInv, Ledger, Counted, Binding, Blocking, Selling, poolVars, threadVars
    <2> QED
      BY <2>2, <2>3, <2>4 DEF FInv
  <1>3. ASSUME NEW o \in OrdNos, NEW q \in 1..ReqQty, Fill(o, q)
        PROVE  FInv'
    <2> DEFINE m == [no |-> o, qty |-> q, upTo |-> done[o] + q]
    <2>1. /\ live[o] /\ q <= todo[o] /\ q \in Nat \ {0}
          /\ todo' = [todo EXCEPT ![o] = @ - q]
          /\ done' = [done EXCEPT ![o] = @ + q]
          /\ live' = [live EXCEPT ![o] = q < todo[o]]
          /\ UNCHANGED <<nextNo, kind, faults, bootNo, armed, armedRow, blocked,
                         fs, shadow, pc, real, rem, res>>
      BY <1>3, FastTrackAssumption DEF Fill, poolVars, threadVars
    <2>2. m \in Message /\ wire' = Append(wire, m)
      BY <1>1, <1>3, <2>1 DEF BrokerOK, Fill, Message
    <2>3. held' \in Nat /\ free' \in Nat
      BY <1>1, <1>3, <2>1 DEF BrokerOK, Fill
    <2>4. BrokerOK' /\ Handed'
      BY <1>1, <2>1, <2>3 DEF BrokerOK, FInv, Handed
    <2>5. \A p \in OrdNos : done[p] \in Nat /\ done'[p] \in Nat /\ done[p] <= done'[p]
      BY <1>1, <2>1 DEF BrokerOK
    <2>6. /\ wire' \in Seq(Message)
          /\ \A i \in DOMAIN wire' :
                \/ i \in DOMAIN wire /\ wire'[i] = wire[i]
                \/ i = Len(wire) + 1 /\ wire'[i] = m
          /\ \A i \in DOMAIN wire : i < Len(wire) + 1
          /\ \A i \in DOMAIN wire : i \in Nat /\ wire[i] \in Message
          /\ Len(wire) \in Nat
      <3> HIDE DEF m, Message
      <3> QED
        BY <1>1, <2>2, WireAdd, WirePlaces
    <2>7. \A i \in DOMAIN wire :
             /\ wire[i].qty \in Nat /\ wire[i].upTo \in Nat /\ wire[i].no \in OrdNos
             /\ wire[i].qty <= wire[i].upTo /\ wire[i].upTo <= done[wire[i].no]
      BY <2>6 DEF Message, FInv, Ledger
    <2>8. m.no = o /\ m.qty = q /\ m.upTo = done[o] + q /\ done'[o] = done[o] + q
      BY <1>1, <2>1 DEF BrokerOK
    <2>9. Ledger'
      <3> HIDE DEF m
      <3> SUFFICES ASSUME NEW i \in DOMAIN wire'
                   PROVE  /\ wire'[i].qty <= wire'[i].upTo
                          /\ wire'[i].upTo <= done'[wire'[i].no]
                          /\ \A j \in DOMAIN wire' :
                                i < j /\ wire'[i].no = wire'[j].no =>
                                    wire'[i].upTo + wire'[j].qty <= wire'[j].upTo
        BY DEF Ledger
      <3>1. CASE i \in DOMAIN wire /\ wire'[i] = wire[i]
        <4>1. wire'[i].qty <= wire'[i].upTo /\ wire'[i].upTo <= done'[wire'[i].no]
          BY <2>5, <2>7, <3>1
        <4>2. ASSUME NEW j \in DOMAIN wire', i < j, wire'[i].no = wire'[j].no
              PROVE  wire'[i].upTo + wire'[j].qty <= wire'[j].upTo
          <5>1. CASE j \in DOMAIN wire /\ wire'[j] = wire[j]
            BY <3>1, <4>2, <5>1 DEF FInv, Ledger
          <5>2. CASE wire'[j] = m
            BY <2>1, <2>5, <2>7, <2>8, <3>1, <4>2, <5>2
          <5> QED
            BY <2>6, <5>1, <5>2
        <4> QED
          BY <4>1, <4>2
      <3>2. CASE i = Len(wire) + 1 /\ wire'[i] = m
        <4>1. \A j \in DOMAIN wire' : ~(i < j)
          BY <2>6, <3>2
        <4> QED
          BY <2>1, <2>5, <2>8, <3>2, <4>1
      <3> QED
        BY <2>6, <3>1, <3>2
    <2>10. Counted'
      <3> HIDE DEF m
      <3>1. fs.bought \in Nat /\ fs.buy \in 0..MaxOrders
        BY <1>1 DEF TrackOK
      <3>2. fs.buy # 0 => fs.buy \in OrdNos /\ bootNo <= fs.buy /\ fs.bought <= done[fs.buy]
        BY <3>1 DEF FInv, Counted, OrdNos
      <3>3. ASSUME NEW i \in DOMAIN wire', fs.buy # 0, wire'[i].no = fs.buy
            PROVE  fs.bought + wire'[i].qty <= wire'[i].upTo
        <4>1. CASE i \in DOMAIN wire /\ wire'[i] = wire[i]
          BY <3>3, <4>1 DEF FInv, Counted
        <4>2. CASE wire'[i] = m
          BY <2>1, <2>5, <2>8, <3>1, <3>2, <3>3, <4>2
        <4> QED
          BY <2>6, <4>1, <4>2
      <3>4. fs.buy # 0 => fs.bought <= done'[fs.buy]
        BY <2>5, <3>1, <3>2
      <3> QED
        BY <2>1, <3>2, <3>3, <3>4 DEF FInv, Counted
    <2>11. TypeOK'
      <3>1. wire' \in Seq(Message)
        BY <2>6
      <3>2. TrackOK'
        BY <1>1, <2>1 DEF TrackOK
      <3>3. bootNo' \in 1..(MaxOrders + 1)
        BY <1>1, <2>1
      <3> HIDE DEF m
      <3> QED
        BY <2>4, <3>1, <3>2, <3>3
           DEF TypeOK, BrokerOK, TrackOK, Message, Before, Early, Exiting
    <2>12. Binding' /\ Blocking' /\ Selling'
      BY <2>1 DEF FInv, Binding, Blocking, Selling
    <2> QED
      BY <2>4, <2>9, <2>10, <2>11, <2>12 DEF FInv
  <1> QED
    BY <1>2, <1>3 DEF BrokerStep

\* A step that keeps the orders, the wire and the track's purchase.
LEMMA SameTrack ==
    ASSUME FInv, BrokerOK', TrackOK', Handed', done' = done,
           wire' = wire, bootNo' = bootNo,
           fs'.buy = fs.buy /\ fs'.bought = fs.bought
    PROVE  TypeOK' /\ Ledger' /\ Counted'
  <1>1. TypeOK'
    BY Types DEF FInv, TypeOK, BrokerOK, TrackOK, Before, Early, Exiting
  <1> QED
    BY <1>1 DEF FInv, Ledger, Counted

\* A step that drops the track's state.
LEMMA NewTrack ==
    ASSUME FInv, BrokerOK', TrackOK', Handed', done' = done,
           wire' = wire, bootNo' = bootNo,
           fs'.buy = 0 /\ fs'.bought = 0
    PROVE  TypeOK' /\ Ledger' /\ Counted'
  <1>1. TypeOK'
    BY Types DEF FInv, TypeOK, BrokerOK, TrackOK, Before, Early, Exiting
  <1> QED
    BY <1>1 DEF FInv, Ledger, Counted

\* Conditions arm, unarm and shoot.
LEMMA ConditionInv ==
    ASSUME FInv, Arm \/ Unarm \/ Trigger
    PROVE  FInv'
  <1>1. BrokerOK /\ TrackOK /\ wire \in Seq(Message)
    BY Types DEF FInv
  <1>2. CASE Arm \/ Unarm
    <2>1. /\ armed' \in BOOLEAN /\ armedRow' \in BOOLEAN /\ faults' \in 0..MaxFaults
          /\ UNCHANGED <<brokerVars, wire, bootNo, blocked, fs, shadow, threadVars>>
      <3>1. /\ armed' \in BOOLEAN /\ armedRow' \in {TRUE, FALSE, armedRow}
            /\ faults' = faults \/ Fault
            /\ UNCHANGED <<brokerVars, wire, bootNo, blocked, fs, shadow, threadVars>>
        BY <1>2 DEF Arm, Unarm
      <3>2. faults' \in 0..MaxFaults
        BY <1>1, <3>1, FastTrackAssumption DEF Fault, BrokerOK
      <3> QED
        BY <1>1, <3>1, <3>2 DEF TrackOK
    <2>2. BrokerOK' /\ TrackOK' /\ Handed' /\ done' = done
      BY <1>1, <2>1 DEF BrokerOK, TrackOK, FInv, Handed, brokerVars, threadVars
    <2>3. TypeOK' /\ Ledger' /\ Counted'
      BY <2>1, <2>2, SameTrack
    <2> QED
      BY <2>1, <2>2, <2>3
         DEF FInv, Binding, Blocking, Selling, brokerVars, threadVars
  <1>3. CASE Trigger
    <2>1. /\ fs' = [NoTrack EXCEPT !.on = TRUE] /\ pc' = "decide" /\ shadow' = "WATCHING"
          /\ ~blocked /\ ~fs.on
          /\ UNCHANGED <<brokerVars, wire, faults, bootNo, poolVars, real, rem, res>>
      BY <1>3 DEF Trigger
    <2>2. pc = "none"
      BY <2>1 DEF FInv, Binding
    <2>3. fs'.buy = 0 /\ fs'.bought = 0 /\ fs'.on
      BY <2>1 DEF NoTrack
    <2>4. BrokerOK' /\ TrackOK' /\ Handed' /\ done' = done
      <3>1. BrokerOK' /\ Handed' /\ done' = done
        BY <1>1, <2>1 DEF BrokerOK, FInv, Handed, brokerVars
      <3>2. fs' \in [on : BOOLEAN, buy : 0..MaxOrders, sell : 0..MaxOrders,
                     cancel : 0..MaxOrders, bought : Nat, sold : Nat]
        <4>1. 0 \in 0..MaxOrders
          BY FastTrackAssumption
        <4> QED
          BY <2>1, <4>1 DEF NoTrack
      <3>3. TrackOK'
        BY <1>1, <2>1, <3>2 DEF TrackOK, poolVars, Before, Early
      <3> QED
        BY <3>1, <3>3
    <2>5. TypeOK' /\ Ledger' /\ Counted'
      BY <2>1, <2>3, <2>4, NewTrack
    <2>6. Binding'
      BY <2>1, <2>3 DEF Binding
    <2>7. Blocking'
      BY <2>1, <2>2 DEF FInv, Blocking, brokerVars, poolVars, Exiting
    <2>8. Selling'
      BY <2>1, <2>2, <2>3 DEF FInv, Selling
    <2> QED
      BY <2>4, <2>5, <2>6, <2>7, <2>8 DEF FInv
  <1> QED
    BY <1>2, <1>3

\* A report is taken: what it adds to the count was filled before the fills
\* that are still on the wire.
LEMMA TakeReportInv ==
    ASSUME FInv, TakeReport
    PROVE  FInv'
  <1>1. /\ BrokerOK /\ TrackOK /\ wire \in Seq(Message) /\ wire # <<>>
        /\ bootNo \in 1..(MaxOrders + 1) /\ wire' = Tail(wire)
        /\ UNCHANGED <<brokerVars, faults, bootNo, poolVars, shadow, threadVars>>
    BY Types DEF FInv, TakeReport
  <1> DEFINE r == Head(wire)
  <1>2. /\ 1 \in DOMAIN wire /\ r = wire[1] /\ r \in Message
        /\ wire' \in Seq(Message)
        /\ \A i \in DOMAIN wire' : i + 1 \in DOMAIN wire /\ wire'[i] = wire[i + 1]
        /\ \A i \in DOMAIN wire' : i \in Nat /\ i >= 1
        /\ \A i \in DOMAIN wire : wire[i] \in Message
    <2> HIDE DEF Message
    <2> QED
      BY <1>1, WireTake, WirePlaces
  <1>3. /\ r.no \in OrdNos /\ r.qty \in Nat \ {0} /\ r.upTo \in Nat
    BY <1>2 DEF Message
  <1>4. \/ fs' = [fs EXCEPT !.bought = @ + r.qty] /\ r.no = fs.buy
        \/ fs' = [fs EXCEPT !.sold = @ + r.qty]
        \/ fs' = fs
    BY DEF TakeReport
  <1> HIDE DEF r
  <1>5. /\ fs'.on = fs.on /\ fs'.buy = fs.buy
        /\ fs'.bought \in Nat /\ fs'.bought >= fs.bought
        /\ fs'.sold \in Nat /\ fs'.sold >= fs.sold
        /\ fs' \in [on : BOOLEAN, buy : 0..MaxOrders, sell : 0..MaxOrders,
                    cancel : 0..MaxOrders, bought : Nat, sold : Nat]
        /\ fs'.bought = fs.bought \/ (r.no = fs.buy /\ fs'.bought = fs.bought + r.qty)
    <2>1. /\ fs \in [on : BOOLEAN, buy : 0..MaxOrders, sell : 0..MaxOrders,
                     cancel : 0..MaxOrders, bought : Nat, sold : Nat]
          /\ fs.bought \in Nat /\ fs.sold \in Nat
          /\ fs.bought + r.qty \in Nat /\ fs.bought + r.qty >= fs.bought
          /\ fs.sold + r.qty \in Nat /\ fs.sold + r.qty >= fs.sold
      <3>1. fs \in [on : BOOLEAN, buy : 0..MaxOrders, sell : 0..MaxOrders,
                    cancel : 0..MaxOrders, bought : Nat, sold : Nat]
        BY <1>1 DEF TrackOK
      <3>2. fs.bought \in Nat /\ fs.sold \in Nat
        BY <3>1
      <3> QED
        BY <1>3, <3>1, <3>2
    <2>2. CASE fs' = [fs EXCEPT !.bought = @ + r.qty] /\ r.no = fs.buy
      BY <2>1, <2>2
    <2>3. CASE fs' = [fs EXCEPT !.sold = @ + r.qty]
      BY <2>1, <2>3
    <2>4. CASE fs' = fs
      BY <2>1, <2>4
    <2> QED
      BY <1>4, <2>2, <2>3, <2>4
  <1>6. BrokerOK' /\ TrackOK' /\ Handed' /\ done' = done
    BY <1>1, <1>5 DEF BrokerOK, TrackOK, FInv, Handed, brokerVars, poolVars, threadVars
  <1>7. TypeOK'
    BY <1>1, <1>2, <1>6, Types
       DEF TypeOK, BrokerOK, TrackOK, Before, Early, Exiting, Message
  <1>8. \A i \in DOMAIN wire' :
           /\ wire'[i].qty \in Nat \ {0} /\ wire'[i].upTo \in Nat
           /\ wire'[i].qty <= wire'[i].upTo
           /\ r.no = wire'[i].no => r.upTo + wire'[i].qty <= wire'[i].upTo
    BY <1>2 DEF FInv, Ledger, Message
  <1>9. Ledger'
    BY <1>2, <1>6 DEF FInv, Ledger
  <1>10. Counted'
    <2>1. fs.bought \in Nat /\ fs.buy \in 0..MaxOrders /\ OrdNos = 1..MaxOrders
      BY <1>1 DEF TrackOK, OrdNos
    <2>2. fs.buy # 0 => fs.buy \in OrdNos /\ done[fs.buy] \in Nat
      BY <1>1, <2>1 DEF BrokerOK
    <2>3. fs.buy # 0 /\ r.no = fs.buy =>
             fs.bought + r.qty <= r.upTo /\ r.upTo <= done[fs.buy]
      BY <1>2 DEF FInv, Counted, Ledger
    <2>4. fs.buy = 0 => fs'.bought = 0
      BY <1>3, <1>5, <2>1 DEF FInv, Counted
    <2>5. fs.buy # 0 => bootNo <= fs.buy /\ fs'.bought <= done[fs.buy]
      BY <1>3, <1>5, <2>1, <2>2, <2>3 DEF FInv, Counted
    <2>6. ASSUME NEW i \in DOMAIN wire', fs.buy # 0, wire'[i].no = fs.buy
          PROVE  fs'.bought + wire'[i].qty <= wire'[i].upTo
      <3>1. fs.bought + wire'[i].qty <= wire'[i].upTo
        BY <1>2, <2>6 DEF FInv, Counted
      <3> QED
        BY <1>3, <1>5, <1>8, <2>1, <2>3, <2>6, <3>1
    <2> QED
      BY <1>1, <1>5, <1>6, <2>4, <2>5, <2>6 DEF Counted
  <1>11. Binding' /\ Blocking' /\ Selling'
    <2>1. fs.bought \in Nat /\ fs.sold \in Nat /\ real \in Nat
      BY <1>1 DEF TrackOK
    <2> QED
      BY <1>1, <1>5, <2>1
         DEF FInv, Binding, Blocking, Selling, brokerVars, poolVars, threadVars
  <1> QED
    BY <1>6, <1>7, <1>9, <1>10, <1>11 DEF FInv

\* The thread asks for an order: nothing before the take-profit is a sale.
LEMMA SendInv ==
    ASSUME FInv, SendBuy \/ SendTakeProfit \/ SellNow \/ StopSell
    PROVE  FInv'
  <1>1. BrokerOK /\ TrackOK /\ bootNo \in Nat /\ nextNo \in Nat /\ ReqQty \in Nat
    BY Types, FastTrackAssumption DEF FInv, BrokerOK
  <1>2. fs.on /\ fs' = fs /\ UNCHANGED <<wire, bootNo, armed, armedRow, blocked, real>>
    BY DEF SendBuy, SendTakeProfit, SellNow, StopSell, FInv, Binding, poolVars
  <1>3. PICK k \in {"BUY", "TP", "IOC"}, q \in Nat, heard \in BOOLEAN :
             Send(k, q, heard, res')
    BY <1>1 DEF SendBuy, SendTakeProfit, SellNow, StopSell, TrackOK
  <1>4. /\ BrokerOK' /\ Handed' /\ done' = done /\ res' \in 0..MaxOrders
        /\ res' # 0 => res' \in nextNo..(nextNo' - 1)
    BY <1>1, <1>2, <1>3, SendEffect DEF FInv
  <1>5. TrackOK'
    <2>1. /\ shadow' \in {shadow, "HOLDING"} /\ rem' \in {rem, 0}
          /\ pc' \in {"failed", "bindBuy", "reloadNow", "bindSell", "bindNow", "bindStop"}
      BY DEF SendBuy, SendTakeProfit, SellNow, StopSell
    <2> QED
      BY <1>1, <1>2, <1>4, <2>1 DEF TrackOK, Before, Early, Exiting
  <1>6. TypeOK' /\ Ledger' /\ Counted'
    BY <1>2, <1>4, <1>5, SameTrack
  <1>7. CASE SendBuy
    <2>1. /\ pc = "decide" /\ pc' \in {"failed", "bindBuy"}
          /\ \E ok \in BOOLEAN : Send("BUY", ReqQty, ok, res')
      BY <1>7 DEF SendBuy
    <2>2. \A o \in OrdNos : kind'[o] # kind[o] => kind'[o] = "BUY"
      BY <1>1, <1>2, <2>1, SendEffect DEF FInv
    <2>3. Binding'
      <3>1. res' = 0 \/ res' \in bootNo..(nextNo' - 1)
        <4>1. bootNo <= nextNo
          BY DEF FInv, Handed
        <4>2. bootNo \in Nat /\ nextNo \in Nat /\ nextNo' \in Nat
          BY <1>1, <1>4, FastTrackAssumption DEF BrokerOK
        <4>3. res' = 0 \/ res' \in nextNo..(nextNo' - 1)
          BY <1>4
        <4> QED
          BY <4>1, <4>2, <4>3
      <3>2. fs.buy = 0
        BY <2>1 DEF FInv, Binding, Early
      <3> QED
        BY <1>2, <3>1, <3>2 DEF Binding
    <2>4. Blocking'
      BY <1>2, <2>1, <2>2 DEF FInv, Blocking, Before, Early, Exiting
    <2>5. Selling'
      BY <1>2, <2>1 DEF FInv, Selling, Early
    <2> QED
      BY <1>4, <1>6, <2>3, <2>4, <2>5 DEF FInv
  <1>8. CASE SendTakeProfit \/ SellNow \/ StopSell
    <2>1. pc' \in {"reloadNow", "bindSell", "bindNow", "bindStop"}
      BY <1>8 DEF SendTakeProfit, SellNow, StopSell
    <2>2. Binding' /\ Blocking' /\ Selling'
      BY <1>2, <2>1
         DEF FInv, Binding, Blocking, Selling, Before, Early, Exiting
    <2> QED
      BY <1>4, <1>6, <2>2 DEF FInv
  <1> QED
    BY <1>7, <1>8

\* The thread cancels an order.
LEMMA CancelInv ==
    ASSUME FInv, CancelAll \/ CancelRest \/ Stop
    PROVE  FInv'
  <1>1. BrokerOK /\ TrackOK
    BY Types DEF FInv
  <1>2. /\ fs.on /\ fs' = fs
        /\ UNCHANGED <<wire, bootNo, armed, armedRow, blocked, shadow, real, rem>>
    BY DEF CancelAll, CancelRest, Stop, FInv, Binding, poolVars
  <1>3. \/ pc = "cancelAll" /\ pc' = "noEntry" /\ res' = res
        \/ pc = "cancelRest" /\ pc' = "hold" /\ res' = res
        \/ pc = "watch" /\ pc' = "reload" /\ res' \in {0, fs.sell}
    BY DEF CancelAll, CancelRest, Stop
  <1>4. \/ \E o \in 0..MaxOrders, ok \in BOOLEAN : Cancel(o, ok)
        \/ UNCHANGED <<brokerVars, faults>>
    BY <1>1 DEF CancelAll, CancelRest, Stop, TrackOK
  <1>5. BrokerOK' /\ Handed' /\ done' = done /\ kind' = kind
    <2>1. CASE \E o \in 0..MaxOrders, ok \in BOOLEAN : Cancel(o, ok)
      BY <1>1, <1>2, <2>1, CancelEffect DEF FInv
    <2>2. CASE UNCHANGED <<brokerVars, faults>>
      BY <1>1, <1>2, <2>2 DEF FInv, BrokerOK, Handed, brokerVars
    <2> QED
      BY <1>4, <2>1, <2>2
  <1>6. TrackOK'
    <2>1. res' \in 0..MaxOrders
      BY <1>1, <1>3, FastTrackAssumption DEF TrackOK
    <2> QED
      BY <1>1, <1>2, <1>3, <2>1 DEF TrackOK, Before, Exiting
  <1>7. TypeOK' /\ Ledger' /\ Counted'
    BY <1>2, <1>5, <1>6, SameTrack
  <1>8. Binding' /\ Blocking' /\ Selling'
    BY <1>2, <1>3, <1>5
       DEF FInv, Binding, Blocking, Selling, Before, Early, Exiting
  <1> QED
    BY <1>5, <1>7, <1>8 DEF FInv

\* The thread reads, or stores a number.
LEMMA RecordInv ==
    ASSUME FInv,
           \/ BindBuy \/ EndWait \/ ReloadNow \/ BindNow \/ BindSell
           \/ WatchDone \/ StopReload \/ BindStop
    PROVE  FInv'
  <1>1. BrokerOK /\ TrackOK /\ wire \in Seq(Message) /\ nextNo \in 1..(MaxOrders + 1)
    BY Types DEF FInv, BrokerOK
  <1>2. /\ fs.on
        /\ UNCHANGED <<brokerVars, wire, faults, bootNo, armed, armedRow, blocked>>
    BY DEF BindBuy, EndWait, ReloadNow, BindNow, BindSell, WatchDone,
           StopReload, BindStop, FInv, Binding, poolVars
  <1>3. BrokerOK' /\ Handed' /\ done' = done /\ kind' = kind
    BY <1>1, <1>2 DEF BrokerOK, FInv, Handed, brokerVars
  <1>4. /\ fs.bought \in Nat /\ fs.sold \in Nat /\ real \in Nat /\ rem \in Nat
        /\ held \in Nat /\ Left \in Nat /\ res \in 0..MaxOrders /\ 0 \in 0..MaxOrders
    BY <1>1, FastTrackAssumption DEF TrackOK, BrokerOK, Left
  <1>5. CASE BindBuy
    <2>1. /\ pc = "bindBuy" /\ pc' = "wait" /\ fs' = [fs EXCEPT !.buy = res]
          /\ shadow' = "BUY_ORDERED" /\ res' = 0 /\ UNCHANGED <<real, rem>>
      BY <1>5 DEF BindBuy
    <2>2. /\ fs.buy = 0 /\ fs.bought = 0 /\ real = 0
          /\ res = 0 \/ res \in bootNo..(nextNo - 1)
      BY <2>1 DEF FInv, Binding, Counted, Selling, Early
    <2>3. /\ fs' \in [on : BOOLEAN, buy : 0..MaxOrders, sell : 0..MaxOrders,
                      cancel : 0..MaxOrders, bought : Nat, sold : Nat]
          /\ fs'.on /\ fs'.buy = res /\ fs'.bought = 0
      BY <1>1, <1>2, <1>4, <2>1, <2>2 DEF TrackOK
    <2>4. TrackOK'
      BY <1>1, <1>2, <1>4, <2>1, <2>3 DEF TrackOK, Before
    <2>5. TypeOK'
      BY <1>1, <1>2, <1>3, <2>4, Types
         DEF FInv, TypeOK, BrokerOK, TrackOK, Before, Early, Exiting
    <2>6. Ledger'
      BY <1>2, <1>3 DEF FInv, Ledger
    <2>7. Counted'
      <3>1. res # 0 => res \in OrdNos /\ done[res] \in Nat /\ bootNo <= res
        <4>1. bootNo \in Nat /\ nextNo \in Nat
          BY <1>1, Types DEF FInv
        <4> QED
          BY <1>1, <1>4, <2>2, <4>1 DEF BrokerOK, OrdNos
      <3>2. \A i \in DOMAIN wire :
               /\ wire[i].qty <= wire[i].upTo /\ wire[i].qty \in Nat
        <4>1. \A i \in DOMAIN wire : wire[i] \in Message
          BY <1>1, WirePlaces
        <4> QED
          BY <4>1 DEF FInv, Ledger, Message
      <3> QED
        BY <1>2, <1>3, <2>3, <3>1, <3>2 DEF Counted
    <2>8. Binding' /\ Blocking' /\ Selling'
      BY <1>2, <1>3, <1>4, <2>1, <2>2, <2>3
         DEF FInv, Binding, Blocking, Selling, Before, Early, Exiting
    <2> QED
      BY <1>3, <2>5, <2>6, <2>7, <2>8 DEF FInv
  <1>6. CASE EndWait
    <2>1. /\ pc = "wait" /\ fs' = fs /\ real' = fs.bought
          /\ pc' = IF fs.bought = 0 THEN "cancelAll"
                   ELSE IF fs.bought < ReqQty THEN "cancelRest" ELSE "hold"
          /\ UNCHANGED <<shadow, rem, res>>
      BY <1>6 DEF EndWait
    <2>2. TrackOK'
      BY <1>1, <1>2, <1>4, <2>1 DEF TrackOK, Before
    <2>3. TypeOK' /\ Ledger' /\ Counted'
      BY <1>2, <1>3, <2>1, <2>2, SameTrack
    <2>4. Binding' /\ Blocking' /\ Selling'
      BY <1>2, <1>3, <1>4, <2>1
         DEF FInv, Binding, Blocking, Selling, Before, Early, Exiting
    <2> QED
      BY <1>3, <2>3, <2>4 DEF FInv
  <1>7. CASE ReloadNow \/ BindNow \/ BindSell \/ WatchDone \/ StopReload \/ BindStop
    <2>1. /\ pc \in Exiting /\ pc' \in Exiting /\ real' = real /\ shadow' = shadow
          /\ pc' = "done" => fs.sold >= fs.bought /\ fs' = fs
      BY <1>7 DEF ReloadNow, BindNow, BindSell, WatchDone, StopReload, BindStop,
                  Exiting, SoldOut
    <2>2. res' \in 0..MaxOrders /\ rem' \in Nat
      BY <1>4, <1>7 DEF ReloadNow, BindNow, BindSell, WatchDone, StopReload,
                        BindStop, Reload
    <2>3. \/ fs' = fs
          \/ fs' = [fs EXCEPT !.sell = res]
          \/ fs' = [fs EXCEPT !.cancel = res]
      BY <1>7 DEF ReloadNow, BindNow, BindSell, WatchDone, StopReload, BindStop
    <2>4. /\ fs' \in [on : BOOLEAN, buy : 0..MaxOrders, sell : 0..MaxOrders,
                      cancel : 0..MaxOrders, bought : Nat, sold : Nat]
          /\ fs'.on /\ fs'.buy = fs.buy /\ fs'.bought = fs.bought
          /\ fs'.sold = fs.sold
      BY <1>1, <1>2, <1>4, <2>3 DEF TrackOK
    <2>5. TrackOK'
      BY <1>1, <1>2, <2>1, <2>2, <2>4 DEF TrackOK
    <2>6. TypeOK' /\ Ledger' /\ Counted'
      BY <1>2, <1>3, <2>4, <2>5, SameTrack
    <2>7. Binding' /\ Blocking' /\ Selling'
      BY <1>2, <1>3, <1>4, <2>1, <2>4
         DEF FInv, Binding, Blocking, Selling, Before, Early, Exiting
    <2> QED
      BY <1>3, <2>6, <2>7 DEF FInv
  <1> QED
    BY <1>5, <1>6, <1>7

\* The thread ends: what entered is blocked, and a state is dropped only
\* when nothing was bought or all of it is sold.
LEMMA EndInv ==
    ASSUME FInv, Decline \/ BuyFailed \/ EndWithoutEntry \/ Complete \/ Raise
    PROVE  /\ FInv'
           /\ fs.on /\ real > 0 /\ ~fs'.on => fs.sold >= real
  <1>1. BrokerOK /\ TrackOK
    BY Types DEF FInv
  <1>2. /\ UNCHANGED <<brokerVars, wire, bootNo>>
        /\ shadow' \in {"WATCHING", "EXPIRED", "COMPLETED"}
    BY DEF Decline, BuyFailed, EndWithoutEntry, Complete, Raise
  <1>3. PICK entered \in BOOLEAN, cleanup \in BOOLEAN :
           /\ Finally(entered, cleanup)
           /\ entered \/ pc \in {"decide", "failed", "noEntry"}
           /\ cleanup => pc \in {"decide", "noEntry", "done"}
    BY DEF Decline, BuyFailed, EndWithoutEntry, Complete, Raise
  <1>4. /\ pc' = "none" /\ real' = 0 /\ rem' = 0 /\ res' = 0
        /\ blocked' = (blocked \/ entered) /\ blocked \in BOOLEAN
        /\ armed' = FALSE /\ armedRow' \in BOOLEAN
        /\ fs' = fs \/ (cleanup /\ fs' = NoTrack)
        /\ faults' \in 0..MaxFaults
    BY <1>1, <1>3, FinallyEffect DEF FInv, TrackOK
  <1>5. BrokerOK' /\ Handed' /\ done' = done /\ kind' = kind
    BY <1>1, <1>2, <1>4 DEF BrokerOK, FInv, Handed, brokerVars
  <1>6. /\ NoTrack.buy = 0 /\ NoTrack.bought = 0
        /\ NoTrack \in [on : BOOLEAN, buy : 0..MaxOrders, sell : 0..MaxOrders,
                        cancel : 0..MaxOrders, bought : Nat, sold : Nat]
    <2>1. 0 \in 0..MaxOrders
      BY FastTrackAssumption
    <2> QED
      BY <2>1 DEF NoTrack
  <1>7. TrackOK'
    <2>1. 0 \in 0..MaxOrders
      BY FastTrackAssumption
    <2> QED
      BY <1>1, <1>2, <1>4, <1>6, <2>1 DEF TrackOK
  <1>8. TypeOK' /\ Ledger' /\ Counted'
    BY <1>2, <1>4, <1>5, <1>6, <1>7, SameTrack, NewTrack
  <1>9. fs'.bought \in Nat
    BY <1>7 DEF TrackOK
  <1>10. Binding' /\ Blocking' /\ Selling'
    BY <1>2, <1>3, <1>4, <1>5, <1>9
       DEF FInv, Binding, Blocking, Selling, Before, Early, Exiting
  <1>11. fs.on /\ real > 0 /\ ~fs'.on => fs.sold >= real
    BY <1>3, <1>4 DEF FInv, Selling, Early
  <1> QED
    BY <1>5, <1>8, <1>10, <1>11 DEF FInv

\* The process starts anew: what lives in memory is gone, what works at the
\* broker is not its own.
LEMMA RestartInv ==
    ASSUME FInv, Restart
    PROVE  FInv'
  <1>1. BrokerOK /\ TrackOK /\ nextNo \in 1..(MaxOrders + 1) /\ OrdNos = 1..MaxOrders
    BY Types DEF FInv, BrokerOK, OrdNos
  <1>2. /\ fs' = NoTrack /\ blocked' = FALSE /\ armed' = armedRow /\ pc' = "none"
        /\ real' = 0 /\ rem' = 0 /\ res' = 0 /\ wire' = <<>> /\ bootNo' = nextNo
        /\ UNCHANGED <<brokerVars, armedRow, shadow>>
    BY DEF Restart
  <1>3. faults' \in 0..MaxFaults /\ 0 \in 0..MaxOrders
    BY <1>1, FastTrackAssumption DEF Restart, Fault, BrokerOK
  <1>4. BrokerOK'
    BY <1>1, <1>2, <1>3 DEF BrokerOK, brokerVars
  <1>5. fs' \in [on : BOOLEAN, buy : 0..MaxOrders, sell : 0..MaxOrders,
                 cancel : 0..MaxOrders, bought : Nat, sold : Nat]
    BY <1>2, <1>3 DEF NoTrack
  <1>6. TrackOK'
    BY <1>1, <1>2, <1>3, <1>5 DEF TrackOK
  <1>7. wire' \in Seq(Message) /\ bootNo' \in 1..(MaxOrders + 1)
    BY <1>1, <1>2
  <1>8. TypeOK'
    BY <1>4, <1>6, <1>7, Types
       DEF TypeOK, BrokerOK, TrackOK, Before, Early, Exiting, Message
  <1>9. Handed'
    BY <1>1, <1>2 DEF FInv, Handed, brokerVars
  <1>10. Ledger' /\ Counted'
    <2>1. DOMAIN wire' = {}
      BY <1>2
    <2> QED
      BY <1>2, <2>1 DEF Ledger, Counted, NoTrack
  <1>11. Binding' /\ Selling'
    BY <1>2 DEF Binding, Selling, Early, NoTrack
  <1>12. Blocking'
    BY <1>1, <1>2 DEF FInv, Handed, Blocking, brokerVars, Before, Early
  <1> QED
    BY <1>8, <1>9, <1>10, <1>11, <1>12 DEF FInv

-----------------------------------------------------------------------------
(***************************************************************************)
(* The invariant, and the theorems.                                        *)
(***************************************************************************)

LEMMA InitInv == Init => FInv
  <1> SUFFICES ASSUME Init PROVE FInv
    OBVIOUS
  <1>1. /\ 0 \in 0..MaxOrders /\ 0 \in 0..MaxFaults /\ 1 \in 1..(MaxOrders + 1)
        /\ OrdNos = 1..MaxOrders
    BY FastTrackAssumption DEF OrdNos
  <1>2. BrokerOK
    BY <1>1 DEF Init, BrokerOK
  <1>3. TrackOK
    <2>1. fs \in [on : BOOLEAN, buy : 0..MaxOrders, sell : 0..MaxOrders,
                  cancel : 0..MaxOrders, bought : Nat, sold : Nat]
      BY <1>1 DEF Init, NoTrack
    <2> QED
      BY <1>1, <2>1 DEF Init, TrackOK
  <1>4. wire \in Seq(Message) /\ bootNo \in 1..(MaxOrders + 1) /\ DOMAIN wire = {}
    BY <1>1 DEF Init
  <1>5. TypeOK
    BY <1>2, <1>3, <1>4, Types
  <1>6. Handed
    BY <1>1 DEF Init, Handed
  <1>7. Ledger /\ Counted
    BY <1>4 DEF Init, Ledger, Counted, NoTrack
  <1>8. Binding /\ Blocking /\ Selling
    BY DEF Init, Binding, Blocking, Selling, NoTrack, Early, Before
  <1> QED
    BY <1>5, <1>6, <1>7, <1>8 DEF FInv

\* Steps that change nothing of what the invariant is about.
LEMMA StutterInv ==
    ASSUME FInv, UNCHANGED vars
    PROVE  FInv'
  <1>1. UNCHANGED <<nextNo, kind, todo, done, live, held, free, wire, faults,
                    bootNo, armed, armedRow, blocked, fs, shadow, pc, real, rem, res>>
    BY DEF vars, brokerVars, poolVars, threadVars
  <1> QED
    BY <1>1 DEF FInv, TypeOK, Handed, Ledger, Counted, Binding, Blocking, Selling

LEMMA NextInv == FInv /\ [Next]_vars => FInv'
  <1> SUFFICES ASSUME FInv, [Next]_vars PROVE FInv'
    OBVIOUS
  <1>1. CASE ThreadStep
    BY <1>1, SendInv, CancelInv, RecordInv, EndInv DEF ThreadStep
  <1> QED
    BY <1>1, BrokerInv, ConditionInv, TakeReportInv, CancelInv, EndInv, RestartInv,
       StutterInv DEF Next

LEMMA Invariance == Spec => []FInv
  BY InitInv, NextInv, PTL DEF Spec

\* Every variable keeps its type, for every number of orders, shares and faults.
THEOREM FastTrackTypeCorrect == Spec => []TypeOK
  <1>1. FInv => TypeOK
    BY DEF FInv
  <1> QED
    BY <1>1, Invariance, PTL

\* The track counts each fill of its own entry at most once, and no other.
THEOREM FillsAreCountedOnce == Spec => []CountedOnce
  <1>1. FInv => CountedOnce
    <2> SUFFICES ASSUME FInv PROVE CountedOnce
      OBVIOUS
    <2> QED
      BY DEF FInv, Counted, CountedOnce
  <1> QED
    BY <1>1, Invariance, PTL

\* Whatever fails on the way, a track that took its entry as bought is dropped
\* only when it has seen as many shares sold.
THEOREM FailedExitsKeepTheTrack == Spec => FailedExitKeepsTrack
  <1>1. ASSUME FInv, [Next]_vars
        PROVE  [~Restart /\ fs.on /\ real > 0 /\ ~fs'.on => fs.sold >= real]_vars
    <2>1. CASE Decline \/ BuyFailed \/ EndWithoutEntry \/ Complete \/ Raise
      BY <1>1, <2>1, EndInv
    <2>2. CASE \/ SendBuy \/ SendTakeProfit \/ SellNow \/ StopSell
               \/ CancelAll \/ CancelRest \/ Stop \/ EndWait \/ ReloadNow
               \/ WatchDone \/ BrokerStep \/ Arm \/ Unarm
      BY <2>2 DEF SendBuy, SendTakeProfit, SellNow, StopSell, CancelAll,
                  CancelRest, Stop, EndWait, ReloadNow, WatchDone, BrokerStep,
                  Lapse, Fill, Arm, Unarm
    <2>3. CASE BindBuy \/ BindNow \/ BindSell \/ StopReload \/ BindStop \/ TakeReport
      <3>1. fs \in [on : BOOLEAN, buy : 0..MaxOrders, sell : 0..MaxOrders,
                    cancel : 0..MaxOrders, bought : Nat, sold : Nat]
        BY <1>1 DEF FInv, TypeOK
      <3>2. fs'.on = fs.on
        BY <2>3, <3>1 DEF BindBuy, BindNow, BindSell, StopReload, BindStop, TakeReport
      <3> QED
        BY <3>2
    <2>4. CASE Trigger
      BY <2>4 DEF Trigger
    <2> QED
      BY <1>1, <2>1, <2>2, <2>3, <2>4 DEF Next, ThreadStep
  <1> QED
    BY <1>1, Invariance, PTL DEF Spec, FailedExitKeepsTrack

\* While the process lives nobody buys a code again whose track sold.
THEOREM CodesAreEnteredOnce == Spec => OneEntry
  <1>1. ASSUME FInv
        PROVE  [ pc = "decide" /\ nextNo' # nextNo
                 => \A o \in bootNo..(nextNo - 1) : kind[o] = "BUY" ]_vars
    <2> SUFFICES ASSUME pc = "decide", NEW o \in bootNo..(nextNo - 1)
                 PROVE  kind[o] = "BUY"
      OBVIOUS
    <2>1. nextNo \in 1..(MaxOrders + 1) /\ bootNo \in 1..(MaxOrders + 1)
      BY <1>1 DEF FInv, TypeOK
    <2>2. o \in OrdNos /\ o >= bootNo /\ o < nextNo
      BY <2>1, FastTrackAssumption DEF OrdNos
    <2>3. kind[o] \in {"NONE", "BUY", "TP", "IOC"} /\ kind[o] # "NONE"
      BY <1>1, <2>2 DEF FInv, TypeOK, Handed
    <2>4. ~blocked /\ pc \notin Exiting
      BY <1>1 DEF FInv, Blocking, Before, Early, Exiting
    <2> QED
      BY <1>1, <2>2, <2>3, <2>4 DEF FInv, Blocking
  <1> QED
    BY <1>1, Invariance, PTL DEF Spec, OneEntry

-----------------------------------------------------------------------------
(***************************************************************************)
(* The numbers of the track.                                               *)
(***************************************************************************)

\* n is blank, or an order of one of the kinds K that this process sent.
Of(n, K) == n # 0 => n >= bootNo /\ kind[n] \in K

\* The numbers the track counts reports by and sends cancels for are its own,
\* each of the order it is meant for.  While the price is watched fs.sell is
\* the take-profit's: an emergency sale's number was replaced by then.
OwnNumbers ==
    /\ Of(fs.buy, {"BUY"}) /\ Of(fs.sell, {"TP", "IOC"}) /\ Of(fs.cancel, {"TP"})
    /\ pc = "watch" => Of(fs.sell, {"TP"})

\* So is the number the thread is about to store.
Answered ==
    /\ pc = "bindBuy" => Of(res, {"BUY"})
    /\ pc \in {"bindSell", "reload"} => Of(res, {"TP"})
    /\ pc \in {"bindNow", "bindStop"} => Of(res, {"IOC"})
    /\ pc = "reloadNow" => res = 0

NInv == OwnNumbers /\ Answered

\* An order keeps its kind.
LEMMA KindKept ==
    ASSUME FInv, [Next]_vars
    PROVE  \A o \in OrdNos : kind[o] # "NONE" => kind'[o] = kind[o]
  <1>1. ASSUME NEW k, NEW q, NEW ok, NEW no, Send(k, q, ok, no)
        PROVE  \A o \in OrdNos : kind[o] # "NONE" => kind'[o] = kind[o]
    <2>1. kind' = kind \/ kind' = [kind EXCEPT ![nextNo] = k]
      BY <1>1 DEF Send, Accept, brokerVars
    <2>2. nextNo \in OrdNos => kind[nextNo] = "NONE"
      BY DEF FInv, Handed, OrdNos
    <2> QED
      BY <2>1, <2>2 DEF FInv, TypeOK
  <1>2. CASE SendBuy \/ SendTakeProfit \/ SellNow \/ StopSell
    BY <1>1, <1>2 DEF SendBuy, SendTakeProfit, SellNow, StopSell
  <1>3. CASE CancelAll \/ CancelRest \/ Stop
    BY <1>3 DEF CancelAll, CancelRest, Stop, Cancel, Close, brokerVars
  <1>4. CASE BrokerStep
    BY <1>4 DEF BrokerStep, Lapse, Fill, Close
  <1>5. CASE Arm \/ Unarm \/ Trigger \/ TakeReport \/ Restart \/ UNCHANGED vars
    BY <1>5 DEF Arm, Unarm, Trigger, TakeReport, Restart, vars, brokerVars
  <1>6. CASE \/ Decline \/ BuyFailed \/ BindBuy \/ EndWait \/ EndWithoutEntry
             \/ ReloadNow \/ BindNow \/ BindSell \/ StopReload \/ BindStop
             \/ WatchDone \/ Complete \/ Raise
    BY <1>6 DEF Decline, BuyFailed, BindBuy, EndWait, EndWithoutEntry, ReloadNow,
                BindNow, BindSell, StopReload, BindStop, WatchDone, Complete, Raise,
                brokerVars
  <1> QED
    BY <1>2, <1>3, <1>4, <1>5, <1>6 DEF Next, ThreadStep

\* A number that is kept still is of its kind.
LEMMA OfKept ==
    ASSUME FInv, [Next]_vars, bootNo' = bootNo
    PROVE  \A n \in 0..MaxOrders : \A K \in SUBSET {"BUY", "TP", "IOC"} :
              Of(n, K) => Of(n, K)'
  <1>1. \A n \in 0..MaxOrders : n # 0 => n \in OrdNos
    BY FastTrackAssumption DEF OrdNos
  <1> QED
    BY <1>1, KindKept DEF Of

\* The types of the numbers.
LEMMA NumberTypes ==
    ASSUME TypeOK
    PROVE  /\ fs.buy \in 0..MaxOrders /\ fs.sell \in 0..MaxOrders
           /\ fs.cancel \in 0..MaxOrders /\ res \in 0..MaxOrders
           /\ NoTrack.buy = 0 /\ NoTrack.sell = 0 /\ NoTrack.cancel = 0
  BY DEF TypeOK, NoTrack

\* The number a request is answered with is that of its order, none if it is
\* not heard to be accepted.
LEMMA SendAnswers ==
    ASSUME FInv, bootNo' = bootNo, NEW k \in {"BUY", "TP", "IOC"}, NEW q \in Nat,
           NEW ok, NEW no, Send(k, q, ok, no)
    PROVE  /\ no # 0 => no >= bootNo /\ kind'[no] = k
           /\ no # 0 => ok
  <1>1. CASE Accept(k, q) /\ ok /\ no = nextNo
    <2>1. nextNo \in OrdNos /\ bootNo <= nextNo
      BY <1>1, FastTrackAssumption DEF FInv, TypeOK, Handed, Accept, OrdNos
    <2>2. kind' = [kind EXCEPT ![nextNo] = k] /\ kind \in [OrdNos -> {"NONE", "BUY", "TP", "IOC"}]
      BY <1>1 DEF Accept, FInv, TypeOK
    <2> QED
      BY <1>1, <2>1, <2>2
  <1>2. CASE no = 0
    BY <1>2
  <1> QED
    BY <1>1, <1>2 DEF Send

\* The track's end, a new track, a restart.
LEMMA FreshNumbers ==
    ASSUME FInv, NInv, [Next]_vars,
           \/ Decline \/ BuyFailed \/ EndWithoutEntry \/ Complete \/ Raise
           \/ Trigger \/ Restart
    PROVE  NInv'
  <1>1. CASE Trigger \/ Restart
    <2>1. /\ fs' = NoTrack \/ fs' = [NoTrack EXCEPT !.on = TRUE]
          /\ pc' \in {"decide", "none"}
      BY <1>1 DEF Trigger, Restart
    <2>2. fs'.buy = 0 /\ fs'.sell = 0 /\ fs'.cancel = 0
      BY <2>1 DEF NoTrack
    <2> QED
      BY <2>1, <2>2 DEF NInv, OwnNumbers, Answered, Of
  <1>2. CASE Decline \/ BuyFailed \/ EndWithoutEntry \/ Complete \/ Raise
    <2>1. /\ bootNo' = bootNo /\ pc' = "none"
          /\ fs' = NoTrack \/ fs' = fs
      BY <1>2 DEF Decline, BuyFailed, EndWithoutEntry, Complete, Raise, Finally
    <2>2. CASE fs' = NoTrack
      BY <2>1, <2>2, NumberTypes DEF FInv, NInv, OwnNumbers, Answered, Of
    <2>3. CASE fs' = fs
      BY <2>1, <2>3, OfKept, NumberTypes DEF FInv, NInv, OwnNumbers, Answered
    <2> QED
      BY <2>1, <2>2, <2>3
  <1> QED
    BY <1>1, <1>2

\* Steps that leave the track's numbers alone.
LEMMA SameNumbers ==
    ASSUME FInv, NInv, [Next]_vars, bootNo' = bootNo,
           fs'.buy = fs.buy, fs'.sell = fs.sell, fs'.cancel = fs.cancel,
           pc' = "watch" => pc = "watch"
    PROVE  OwnNumbers'
  <1>1. /\ Of(fs.buy, {"BUY"})' /\ Of(fs.sell, {"TP", "IOC"})' /\ Of(fs.cancel, {"TP"})'
    <2>1. \A n \in 0..MaxOrders : \A K \in SUBSET {"BUY", "TP", "IOC"} :
             Of(n, K) => (n # 0 => n >= bootNo' /\ kind'[n] \in K)
      BY OfKept DEF Of
    <2> QED
      BY <2>1, NumberTypes DEF FInv, NInv, OwnNumbers, Of
  <1>2. pc = "watch" => Of(fs.sell, {"TP"})'
    <2>1. \A n \in 0..MaxOrders : \A K \in SUBSET {"BUY", "TP", "IOC"} :
             Of(n, K) => (n # 0 => n >= bootNo' /\ kind'[n] \in K)
      BY OfKept DEF Of
    <2> QED
      BY <2>1, NumberTypes DEF FInv, NInv, OwnNumbers, Of
  <1> QED
    BY <1>1, <1>2 DEF OwnNumbers

LEMMA RequestNumbers ==
    ASSUME FInv, NInv, [Next]_vars,
           SendBuy \/ SendTakeProfit \/ SellNow \/ StopSell
    PROVE  NInv'
  <1>1. fs' = fs /\ bootNo' = bootNo /\ pc' # "watch"
    BY DEF SendBuy, SendTakeProfit, SellNow, StopSell
  <1>2. OwnNumbers'
    BY <1>1, SameNumbers
  <1>3. ReqQty \in Nat /\ real \in Nat /\ rem \in Nat
    BY FastTrackAssumption DEF FInv, TypeOK
  <1>4. CASE SendBuy
    <2>1. /\ \E ok \in BOOLEAN : Send("BUY", ReqQty, ok, res')
          /\ pc' \in {"failed", "bindBuy"}
      BY <1>4 DEF SendBuy
    <2>2. res' # 0 => res' >= bootNo /\ kind'[res'] = "BUY"
      BY <1>1, <1>3, <2>1, SendAnswers
    <2> QED
      BY <1>1, <1>2, <2>1, <2>2 DEF NInv, Answered, Of
  <1>5. CASE SendTakeProfit
    <2>1. PICK ok \in BOOLEAN :
             /\ Send("TP", real, ok, res')
             /\ pc' = IF ok THEN "bindSell" ELSE "reloadNow"
      BY <1>5 DEF SendTakeProfit
    <2>2. res' # 0 => res' >= bootNo /\ kind'[res'] = "TP" /\ ok
      BY <1>1, <1>3, <2>1, SendAnswers
    <2> QED
      BY <1>1, <1>2, <2>1, <2>2 DEF NInv, Answered, Of
  <1>6. CASE SellNow \/ StopSell
    <2>1. PICK ok \in BOOLEAN :
             /\ Send("IOC", rem, ok, res')
             /\ pc' \in {"bindNow", "bindStop"} \/ (~ok /\ pc' = "bindSell")
      BY <1>6 DEF SellNow, StopSell
    <2>2. res' # 0 => res' >= bootNo /\ kind'[res'] = "IOC" /\ ok
      BY <1>1, <1>3, <2>1, SendAnswers
    <2> QED
      BY <1>1, <1>2, <2>1, <2>2 DEF NInv, Answered, Of
  <1> QED
    BY <1>4, <1>5, <1>6

\* A number that is stored was answered to the request it is stored for.
LEMMA StoredNumbers ==
    ASSUME FInv, NInv, [Next]_vars,
           BindBuy \/ BindNow \/ BindSell \/ BindStop \/ StopReload
    PROVE  NInv'
  <1>1. /\ bootNo' = bootNo
        /\ pc' \in {"wait", "bindSell", "watch", "stopped", "sellStop"}
        /\ res' = 0
    BY DEF BindBuy, BindNow, BindSell, BindStop, StopReload
  <1>2. \A n \in 0..MaxOrders : \A K \in SUBSET {"BUY", "TP", "IOC"} :
           Of(n, K) => (n # 0 => n >= bootNo' /\ kind'[n] \in K)
    BY <1>1, OfKept DEF Of
  <1>3. fs \in [on : BOOLEAN, buy : 0..MaxOrders, sell : 0..MaxOrders,
                cancel : 0..MaxOrders, bought : Nat, sold : Nat]
    BY DEF FInv, TypeOK
  <1>4. Answered'
    BY <1>1 DEF Answered, Of
  <1>5. CASE BindBuy
    <2>1. pc = "bindBuy" /\ pc' = "wait" /\ fs' = [fs EXCEPT !.buy = res]
      BY <1>5 DEF BindBuy
    <2>2. fs'.buy = res /\ fs'.sell = fs.sell /\ fs'.cancel = fs.cancel
      BY <1>3, <2>1
    <2> QED
      BY <1>2, <1>4, <2>1, <2>2, NumberTypes DEF FInv, NInv, OwnNumbers, Answered, Of
  <1>6. CASE BindNow \/ BindStop
    <2>1. /\ pc \in {"bindNow", "bindStop"} /\ pc' # "watch"
          /\ fs' = fs \/ fs' = [fs EXCEPT !.sell = res]
      BY <1>6 DEF BindNow, BindStop
    <2>2. fs'.buy = fs.buy /\ fs'.sell \in {fs.sell, res} /\ fs'.cancel = fs.cancel
      BY <1>3, <2>1
    <2> QED
      BY <1>2, <1>4, <2>1, <2>2, NumberTypes DEF FInv, NInv, OwnNumbers, Answered, Of
  <1>7. CASE BindSell
    <2>1. pc = "bindSell" /\ fs' = [fs EXCEPT !.sell = res]
      BY <1>7 DEF BindSell
    <2>2. fs'.buy = fs.buy /\ fs'.sell = res /\ fs'.cancel = fs.cancel
      BY <1>3, <2>1
    <2> QED
      BY <1>2, <1>4, <2>1, <2>2, NumberTypes DEF FInv, NInv, OwnNumbers, Answered, Of
  <1>8. CASE StopReload
    <2>1. /\ pc = "reload" /\ pc' # "watch"
          /\ fs' = fs \/ fs' = [fs EXCEPT !.cancel = res]
      BY <1>8 DEF StopReload
    <2>2. fs'.buy = fs.buy /\ fs'.sell = fs.sell /\ fs'.cancel \in {fs.cancel, res}
      BY <1>3, <2>1
    <2> QED
      BY <1>2, <1>4, <2>1, <2>2, NumberTypes DEF FInv, NInv, OwnNumbers, Answered, Of
  <1> QED
    BY <1>4, <1>5, <1>6, <1>7, <1>8 DEF NInv

\* Everything else sends nothing and stores nothing.
LEMMA QuietNumbers ==
    ASSUME FInv, NInv, [Next]_vars,
           \/ BrokerStep \/ Arm \/ Unarm \/ TakeReport \/ EndWait \/ CancelAll
           \/ CancelRest \/ ReloadNow \/ WatchDone \/ Stop \/ UNCHANGED vars
    PROVE  NInv'
  <1>1. /\ bootNo' = bootNo
        /\ pc' = "watch" => pc = "watch"
        /\ fs'.buy = fs.buy /\ fs'.sell = fs.sell /\ fs'.cancel = fs.cancel
    <2>1. CASE TakeReport
      <3>1. fs \in [on : BOOLEAN, buy : 0..MaxOrders, sell : 0..MaxOrders,
                    cancel : 0..MaxOrders, bought : Nat, sold : Nat]
        BY DEF FInv, TypeOK
      <3> QED
        BY <2>1, <3>1 DEF TakeReport, threadVars
    <2>2. CASE ~TakeReport
      BY <2>2 DEF BrokerStep, Lapse, Fill, Arm, Unarm, EndWait, CancelAll, CancelRest,
                  ReloadNow, WatchDone, Stop, vars, threadVars
    <2> QED
      BY <2>1, <2>2
  <1>2. OwnNumbers'
    BY <1>1, SameNumbers
  <1>3. \A n \in 0..MaxOrders : \A K \in SUBSET {"BUY", "TP", "IOC"} :
           Of(n, K) => (n # 0 => n >= bootNo' /\ kind'[n] \in K)
    BY <1>1, OfKept DEF Of
  <1>4. \/ pc' = pc /\ res' = res
        \/ pc' \in {"cancelAll", "cancelRest", "hold", "noEntry", "done", "sellNow"}
        \/ pc = "reloadNow" /\ pc' = "bindSell" /\ res' = res
        \/ pc = "watch" /\ pc' = "reload" /\ res' \in {0, fs.sell}
    BY DEF BrokerStep, Lapse, Fill, Arm, Unarm, TakeReport, EndWait, CancelAll,
           CancelRest, ReloadNow, WatchDone, Stop, vars, threadVars
  <1>5. Answered'
    BY <1>3, <1>4, NumberTypes DEF FInv, NInv, OwnNumbers, Answered, Of
  <1> QED
    BY <1>2, <1>5 DEF NInv

\* The S15 thread cancels and counts by its own numbers only: the wait gives up
\* the entry of this track, the stop this track's take-profit and never another
\* order of the code, whatever came of the requests before and however often
\* the process restarted.
THEOREM TracksKeepToTheirOrders == Spec => []OwnNumbers
  <1>1. Init => NInv
    BY DEF Init, NInv, OwnNumbers, Answered, Of, NoTrack
  <1>2. FInv /\ NInv /\ [Next]_vars => NInv'
    BY FreshNumbers, RequestNumbers, StoredNumbers, QuietNumbers DEF Next, ThreadStep
  <1>3. NInv => OwnNumbers
    BY DEF NInv
  <1> QED
    BY <1>1, <1>2, <1>3, Invariance, PTL DEF Spec
=============================================================================
