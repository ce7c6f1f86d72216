---------------------------- MODULE ScaleInProofs ----------------------------
(***************************************************************************)
(* Theorems about ScaleIn, for every value of its constants that satisfies *)
(* ScaleInAssumption.                                                      *)
(***************************************************************************)
EXTENDS ScaleIn, WireFacts, FiniteSetTheorems

Message == [no : OrdNos, qty : Nat, left : Nat]

\* A working order was handed out, and something of it is left to fill.
Working ==
    \A o \in OrdNos : live[o] => o < nextNo /\ todo[o] > 0

\* Fills are on the wire in the order in which they happened.
Ledger ==
    \A i \in DOMAIN wire :
        /\ wire[i].no < nextNo
        /\ todo[wire[i].no] <= wire[i].left
        /\ \A j \in DOMAIN wire :
              i < j /\ wire[i].no = wire[j].no =>
                  wire[j].qty + wire[j].left <= wire[i].left

\* Of an order of that size memory counted no more than was filled before
\* any fill that is still on the wire.
Shares(no, size, filled) ==
    no # 0 => /\ filled + todo[no] <= size
              /\ \A i \in DOMAIN wire :
                    wire[i].no = no => filled + wire[i].qty + wire[i].left <= size

\* What memory and the main loop know of the add-buy.
Pending ==
    /\ ~pend.on => pend = NoAdd
    /\ pend.no < nextNo /\ got.no < nextNo
    /\ pc = "stage" => ~pend.on /\ Shares(got.no, got.qty, 0)
    /\ pend.on => Shares(pend.no, pend.qty, pend.filled)
    /\ pc \in {"cancelled", "uncertain"} /\ pend.on =>
          pend.no # 0 /\ ~live[pend.no]

\* An add that was not counted yet is none of those that were.
Counting ==
    /\ addCount <= Cardinality(filledAdds) /\ rowCount <= Cardinality(filledAdds)
    /\ \A o \in filledAdds : o < nextNo
    /\ pc = "stage" => got.no \notin filledAdds
    /\ pend.on /\ ~pend.counted => pend.no \notin filledAdds

SInv == TypeOK /\ Working /\ Ledger /\ Pending /\ OneAdd /\ Counting

\* The types of what the broker, the record and the main loop keep.
BrokerOK ==
    /\ nextNo \in 1..(MaxOrders + 1)
    /\ kind \in [OrdNos -> {"NONE", "ADD", "EXIT"}]
    /\ todo \in [OrdNos -> Nat] /\ live \in [OrdNos -> BOOLEAN]
    /\ held \in Nat

RecordOK ==
    /\ status \in {"WATCHING", "HOLDING", "SELL_ORDERED", "COMPLETED", "DROPPED"}
    /\ bq \in Nat /\ locked \in BOOLEAN /\ addCount \in Nat
    /\ rowQty \in Nat /\ rowLocked \in BOOLEAN /\ rowCount \in Nat
    /\ snap \in Nat /\ faults \in 0..MaxFaults

PendOK ==
    pend \in [on : BOOLEAN, no : OrdNos \cup {0}, qty : 0..MaxQty,
              filled : 0..MaxQty, counted : BOOLEAN]

LoopOK ==
    /\ pc \in {"idle", "stage", "cancelled", "uncertain"}
    /\ got \in [no : OrdNos \cup {0}, qty : 0..MaxQty]

LEMMA Types ==
    TypeOK <=> /\ BrokerOK /\ RecordOK /\ PendOK /\ LoopOK
               /\ wire \in Seq(Message)
               /\ unknown \subseteq OrdNos /\ filledAdds \subseteq OrdNos
  BY DEF TypeOK, BrokerOK, RecordOK, PendOK, LoopOK, Message

LEMMA Facts ==
    ASSUME ScaleInAssumption
    PROVE  /\ OrdNos \subseteq Nat /\ 0 \notin OrdNos
           /\ \A o \in OrdNos : o <= MaxOrders
           /\ NoAdd \in [on : BOOLEAN, no : OrdNos \cup {0}, qty : 0..MaxQty,
                         filled : 0..MaxQty, counted : BOOLEAN]
           /\ NoReply \in [no : OrdNos \cup {0}, qty : 0..MaxQty]
           /\ NoAdd.no = 0 /\ ~NoAdd.on /\ NoReply.no = 0
  <1>1. 0 \in 0..MaxQty
    BY DEF ScaleInAssumption
  <1> QED
    BY <1>1 DEF ScaleInAssumption, OrdNos, NoAdd, NoReply

\* The add-buys counted are finitely many, so a new one adds one to them.
LEMMA CountFacts ==
    ASSUME filledAdds \subseteq OrdNos, NEW o \in OrdNos
    PROVE  /\ Cardinality(filledAdds) \in Nat
           /\ Cardinality(filledAdds \cup {o}) \in Nat
           /\ Cardinality(filledAdds) <= Cardinality(filledAdds \cup {o})
           /\ o \notin filledAdds =>
                 Cardinality(filledAdds \cup {o}) = Cardinality(filledAdds) + 1
  <1>1. IsFiniteSet(filledAdds)
    <2>1. MaxOrders \in Int /\ 1 \in Int
      BY ScaleInAssumption
    <2>2. IsFiniteSet(1..MaxOrders)
      BY <2>1, FS_Interval
    <2> QED
      BY <2>2, FS_Subset DEF OrdNos
  <1>2. Cardinality(filledAdds) \in Nat
    BY <1>1, FS_CardinalityType
  <1>3. CASE o \in filledAdds
    <2>1. filledAdds \cup {o} = filledAdds
      BY <1>3
    <2> QED
      BY <1>2, <1>3, <2>1
  <1>4. CASE o \notin filledAdds
    BY <1>1, <1>2, <1>4, FS_AddElement
  <1> QED
    BY <1>3, <1>4

-----------------------------------------------------------------------------
(***************************************************************************)
(* Steps that keep parts of the invariant.                                 *)
(***************************************************************************)

\* Nothing is sent, filled or reported, the add stays as it is.
LEMMA QuietInv ==
    ASSUME SInv, TypeOK', wire' = wire, todo' = todo, nextNo' = nextNo,
           kind' = kind, pend' = pend, got' = got, pc' \in {pc, "idle"},
           pc' = pc \/ pc # "stage",
           \A o \in OrdNos : live'[o] => live[o],
           unknown \subseteq unknown', filledAdds' = filledAdds,
           addCount' = addCount, rowCount' \in {rowCount, addCount, 0}
    PROVE  SInv'
  <1>1. Working' /\ Ledger'
    BY DEF SInv, Working, Ledger
  <1>2. pend.no \in OrdNos \cup {0}
    BY DEF SInv, TypeOK
  <1>3. Pending'
    BY <1>2 DEF SInv, Pending, Shares
  <1>4. OneAdd'
    BY DEF SInv, OneAdd
  <1>5. Cardinality(filledAdds) \in Nat
    <2>1. 1 \in OrdNos
      BY ScaleInAssumption DEF OrdNos
    <2> QED
      BY <2>1, CountFacts DEF SInv, TypeOK
  <1>6. Counting'
    BY <1>5 DEF SInv, Counting
  <1> QED
    BY <1>1, <1>3, <1>4, <1>6 DEF SInv

\* The oldest report leaves the wire.
LEMMA TakeEffect ==
    ASSUME SInv, NEW r, Take(r), todo' = todo, nextNo' = nextNo
    PROVE  /\ r \in Message /\ r.no \in OrdNos /\ r.qty \in Nat /\ r.left \in Nat
           /\ r.no < nextNo /\ todo[r.no] <= r.left
           /\ wire' \in Seq(Message) /\ Ledger'
           /\ \A n \in OrdNos, s \in Nat, f \in Nat :
                 Shares(n, s, f) => Shares(n, s, f)'
           /\ \A s \in Nat, f \in Nat :
                 Shares(r.no, s, f) =>
                     /\ f + r.qty + r.left <= s
                     /\ Shares(r.no, s, f + r.qty)'
  <1>1. wire \in Seq(Message) /\ wire # <<>> /\ r = Head(wire) /\ wire' = Tail(wire)
    BY Types DEF SInv, Take
  <1>2. /\ 1 \in DOMAIN wire /\ r = wire[1] /\ r \in Message
        /\ wire' \in Seq(Message)
        /\ \A i \in DOMAIN wire' : i + 1 \in DOMAIN wire /\ wire'[i] = wire[i + 1]
        /\ \A i \in DOMAIN wire' : i \in Nat /\ i >= 1
        /\ \A i \in DOMAIN wire : wire[i] \in Message
    <2> HIDE DEF Message
    <2> QED
      BY <1>1, WireTake, WirePlaces
  <1>3. r.no \in OrdNos /\ r.qty \in Nat /\ r.left \in Nat
    BY <1>2 DEF Message
  <1>4. \A i \in DOMAIN wire' :
           wire'[i].no \in OrdNos /\ wire'[i].qty \in Nat /\ wire'[i].left \in Nat
    BY <1>2 DEF Message
  <1>5. Ledger'
    <2> SUFFICES ASSUME NEW i \in DOMAIN wire'
                 PROVE  /\ wire'[i].no < nextNo'
                        /\ todo'[wire'[i].no] <= wire'[i].left
                        /\ \A j \in DOMAIN wire' :
                              i < j /\ wire'[i].no = wire'[j].no =>
                                  wire'[j].qty + wire'[j].left <= wire'[i].left
      BY DEF Ledger
    <2>1. i + 1 \in DOMAIN wire /\ wire'[i] = wire[i + 1]
      BY <1>2
    <2>2. \A j \in DOMAIN wire' :
             i < j => j + 1 \in DOMAIN wire /\ wire'[j] = wire[j + 1] /\ i + 1 < j + 1
      BY <1>2
    <2> QED
      BY <2>1, <2>2 DEF SInv, Ledger
  <1>6. r.no < nextNo /\ todo[r.no] <= r.left /\ todo[r.no] \in Nat
    BY <1>2, <1>3, Types DEF SInv, Ledger, BrokerOK
  <1>7. \A i \in DOMAIN wire' :
           wire'[i].no = r.no => wire'[i].qty + wire'[i].left <= r.left
    BY <1>2 DEF SInv, Ledger
  <1>8. \A n \in OrdNos, s \in Nat, f \in Nat : Shares(n, s, f) => Shares(n, s, f)'
    BY <1>2 DEF Shares
  <1>9. ASSUME NEW s \in Nat, NEW f \in Nat, Shares(r.no, s, f)
        PROVE  f + r.qty + r.left <= s /\ Shares(r.no, s, f + r.qty)'
    <2>1. r.no # 0
      BY <1>3, Facts, ScaleInAssumption
    <2>2. f + r.qty + r.left <= s
      BY <1>2, <1>9, <2>1 DEF Shares
    <2> QED
      BY <1>3, <1>4, <1>6, <1>7, <2>2 DEF Shares
  <1> QED
    BY <1>2, <1>3, <1>5, <1>6, <1>8, <1>9

\* A report that does not change the add.
LEMMA OtherReport ==
    ASSUME SInv, NEW r, Take(r), TypeOK',
           UNCHANGED <<brokerVars, pend, locked, addCount, mainVars, unknown,
                       filledAdds>>,
           rowCount' \in {rowCount, 0}
    PROVE  SInv'
  <1>1. UNCHANGED <<nextNo, kind, todo, live, held, pc, got>>
    BY DEF brokerVars, mainVars
  <1>2. Working' /\ Ledger' /\ OneAdd'
    BY <1>1, TakeEffect DEF SInv, Working, OneAdd
  <1>3. /\ pend.no \in OrdNos \cup {0} /\ pend.qty \in Nat /\ pend.filled \in Nat
        /\ got.no \in OrdNos \cup {0} /\ got.qty \in Nat
    BY ScaleInAssumption DEF SInv, TypeOK
  <1>4. Pending'
    <2>1. pc = "stage" => Shares(got.no, got.qty, 0)'
      BY <1>1, <1>3, TakeEffect DEF SInv, Pending, Shares
    <2>2. pend.on => Shares(pend.no, pend.qty, pend.filled)'
      BY <1>1, <1>3, TakeEffect DEF SInv, Pending, Shares
    <2> QED
      BY <1>1, <2>1, <2>2 DEF SInv, Pending, Shares
  <1>5. Cardinality(filledAdds) \in Nat
    <2>1. 1 \in OrdNos
      BY ScaleInAssumption DEF OrdNos
    <2> QED
      BY <2>1, CountFacts DEF SInv, TypeOK
  <1>6. Counting'
    BY <1>1, <1>5 DEF SInv, Counting
  <1> QED
    BY <1>2, <1>4, <1>6 DEF SInv

\* An order that stops working.
LEMMA CloseEffect ==
    ASSUME BrokerOK, NEW o \in OrdNos, Close(o)
    PROVE  /\ BrokerOK' /\ UNCHANGED <<nextNo, kind, todo, held>>
           /\ ~live'[o] /\ \A p \in OrdNos : live'[p] => live[p]
  BY DEF BrokerOK, Close

\* An accepted order is new.
LEMMA AcceptEffect ==
    ASSUME BrokerOK, NEW k \in {"ADD", "EXIT"}, NEW q \in Nat \ {0}, Accept(k, q)
    PROVE  /\ BrokerOK' /\ nextNo \in OrdNos /\ nextNo' = nextNo + 1
           /\ kind'[nextNo] = k /\ todo'[nextNo] = q
           /\ \A p \in OrdNos \ {nextNo} :
                 kind'[p] = kind[p] /\ todo'[p] = todo[p] /\ live'[p] = live[p]
  <1>1. nextNo \in OrdNos /\ nextNo' = nextNo + 1 /\ nextNo' \in 1..(MaxOrders + 1)
    BY ScaleInAssumption DEF BrokerOK, Accept, OrdNos
  <1> QED
    BY <1>1 DEF BrokerOK, Accept

\* A new number keeps what is said of the orders that were there before.
LEMMA NewNumber ==
    ASSUME SInv, nextNo' = nextNo + 1, nextNo \in OrdNos, wire' = wire,
           \A p \in OrdNos \ {nextNo} : todo'[p] = todo[p] /\ live'[p] = live[p],
           todo'[nextNo] \in Nat, live'[nextNo] => todo'[nextNo] > 0
    PROVE  /\ Working' /\ Ledger'
           /\ \A n \in OrdNos \cup {0}, s \in Nat, f \in Nat :
                 n < nextNo /\ Shares(n, s, f) => Shares(n, s, f)'
           /\ \A n \in OrdNos, s \in Nat :
                 n = nextNo /\ todo'[n] <= s => Shares(n, s, 0)'
  <1>1. nextNo \in Nat /\ \A o \in OrdNos : o \in Nat
    BY DEF OrdNos
  <1>2. \A i \in DOMAIN wire : wire[i].no \in OrdNos /\ wire[i].no < nextNo
    <2>1. wire \in Seq(Message)
      BY Types DEF SInv
    <2>2. \A i \in DOMAIN wire : wire[i] \in Message
      BY <2>1, WirePlaces
    <2> QED
      BY <2>2 DEF SInv, Ledger, Message
  <1>3. Working'
    BY <1>1 DEF SInv, Working
  <1>4. \A i \in DOMAIN wire : todo'[wire[i].no] = todo[wire[i].no]
    <2> SUFFICES ASSUME NEW i \in DOMAIN wire
                 PROVE  todo'[wire[i].no] = todo[wire[i].no]
      OBVIOUS
    <2>1. wire[i].no \in OrdNos \ {nextNo}
      BY <1>1, <1>2
    <2> QED
      BY <2>1
  <1>5. \A n \in OrdNos \cup {0} : n < nextNo /\ n # 0 => todo'[n] = todo[n]
    BY <1>1
  <1>6. Ledger'
    <2>1. ASSUME NEW i \in DOMAIN wire  PROVE wire[i].no < nextNo'
      <3>1. wire[i].no \in Nat /\ wire[i].no < nextNo
        BY <1>1, <1>2
      <3> QED
        BY <1>1, <3>1
    <2> QED
      BY <1>4, <2>1 DEF SInv, Ledger
  <1>7. \A n \in OrdNos \cup {0}, s \in Nat, f \in Nat :
           n < nextNo /\ Shares(n, s, f) => Shares(n, s, f)'
    BY <1>5 DEF Shares
  <1>8. \A n \in OrdNos, s \in Nat : n = nextNo /\ todo'[n] <= s => Shares(n, s, 0)'
    <2>1. ASSUME NEW i \in DOMAIN wire  PROVE wire[i].no # nextNo
      <3>1. wire[i].no \in Nat /\ wire[i].no < nextNo
        BY <1>1, <1>2
      <3> QED
        BY <1>1, <3>1
    <2>2. \A s \in Nat : todo'[nextNo] <= s => 0 + todo'[nextNo] <= s
      OBVIOUS
    <2> QED
      BY <2>1, <2>2 DEF Shares
  <1> QED
    BY <1>3, <1>6, <1>7, <1>8

\* Types of what memory has of the add, as numbers.
LEMMA PendFacts ==
    ASSUME SInv
    PROVE  /\ pend.no \in OrdNos \cup {0} /\ got.no \in OrdNos \cup {0}
           /\ pend.qty \in Nat /\ pend.filled \in Nat /\ got.qty \in Nat
           /\ got.qty \in 0..MaxQty /\ pend.qty \in 0..MaxQty /\ pend.on \in BOOLEAN
           /\ 0 \in 0..MaxOrders /\ 0 \in Nat
           /\ BrokerOK /\ RecordOK /\ PendOK /\ LoopOK
           /\ Cardinality(filledAdds) \in Nat
  <1>1. BrokerOK /\ RecordOK /\ PendOK /\ LoopOK /\ filledAdds \subseteq OrdNos
    BY Types DEF SInv
  <1>2. 1 \in OrdNos /\ 0..MaxQty \subseteq Nat /\ 0 \in 0..MaxOrders
    BY ScaleInAssumption DEF OrdNos
  <1>3. Cardinality(filledAdds) \in Nat
    BY <1>1, <1>2, CountFacts
  <1> QED
    BY <1>1, <1>2, <1>3 DEF PendOK, LoopOK

\* The count of faults stays within its bound.
LEMMA FaultTypes ==
    ASSUME SInv, Fault \/ UNCHANGED faults
    PROVE  faults' \in 0..MaxFaults
  <1>1. faults \in 0..MaxFaults /\ MaxFaults \in Nat
    BY ScaleInAssumption, PendFacts DEF RecordOK
  <1> QED
    BY <1>1 DEF Fault

-----------------------------------------------------------------------------
(***************************************************************************)
(* The steps.                                                              *)
(***************************************************************************)

\* A fill goes behind the others on the wire, and tells what is left.
LEMMA BrokerInv ==
    ASSUME SInv, Broker
    PROVE  SInv'
  <1>1. PICK o \in OrdNos : \E q \in 1..todo[o] : Fill(o, q)
    BY DEF Broker
  <1>2. PICK q \in 1..todo[o] : Fill(o, q)
    BY <1>1
  <1> DEFINE m == [no |-> o, qty |-> q, left |-> todo[o] - q]
  <1>3. BrokerOK /\ RecordOK /\ PendOK /\ LoopOK /\ wire \in Seq(Message)
    BY Types DEF SInv
  <1>4. /\ live[o] /\ todo[o] \in Nat /\ q \in Nat \ {0} /\ q <= todo[o]
        /\ todo' = [todo EXCEPT ![o] = @ - q]
        /\ live' = [live EXCEPT ![o] = q < todo[o]]
        /\ kind[o] = "EXIT" => q <= held
        /\ held' = IF kind[o] = "EXIT" THEN held - q ELSE held + q
        /\ UNCHANGED <<nextNo, kind, recordVars, rowVars, mainVars, snap, history>>
    BY <1>2, <1>3 DEF Fill, BrokerOK
  <1>5. todo'[o] = todo[o] - q /\ todo[o] - q \in Nat
    BY <1>3, <1>4 DEF BrokerOK
  <1>6. m \in Message /\ wire' = Append(wire, m)
    BY <1>2, <1>4, <1>5 DEF Fill, Message
  <1>7. m.no = o /\ m.qty = q /\ m.left = todo[o] - q
    OBVIOUS
  <1> HIDE DEF m
  <1>8. BrokerOK'
    <2>1. todo' \in [OrdNos -> Nat] /\ live' \in [OrdNos -> BOOLEAN]
      BY <1>3, <1>4, <1>5 DEF BrokerOK
    <2>2. held' \in Nat
      BY <1>3, <1>4 DEF BrokerOK
    <2> QED
      BY <1>3, <1>4, <2>1, <2>2 DEF BrokerOK
  <1>9. /\ wire' \in Seq(Message)
        /\ \A i \in DOMAIN wire' :
              \/ i \in DOMAIN wire /\ wire'[i] = wire[i]
              \/ i = Len(wire) + 1 /\ wire'[i] = m
        /\ \A i \in DOMAIN wire : i < Len(wire) + 1
        /\ \A i \in DOMAIN wire : i \in Nat /\ wire[i] \in Message
        /\ Len(wire) \in Nat
    <2> HIDE DEF Message
    <2> QED
      BY <1>3, <1>6, WireAdd, WirePlaces
  <1>10. \A i \in DOMAIN wire :
            /\ wire[i].qty \in Nat /\ wire[i].left \in Nat /\ wire[i].no \in OrdNos
            /\ wire[i].no < nextNo /\ todo[wire[i].no] <= wire[i].left
    BY <1>9 DEF Message, SInv, Ledger
  <1>11. \A p \in OrdNos : /\ todo'[p] \in Nat /\ todo[p] \in Nat
                           /\ todo'[p] <= todo[p]
                           /\ live'[p] => live[p] /\ todo'[p] > 0
    <2> SUFFICES ASSUME NEW p \in OrdNos
                 PROVE  /\ todo'[p] \in Nat /\ todo[p] \in Nat
                        /\ todo'[p] <= todo[p]
                        /\ live'[p] => live[p] /\ todo'[p] > 0
      OBVIOUS
    <2>1. todo'[p] \in Nat /\ todo[p] \in Nat
      BY <1>3, <1>8 DEF BrokerOK
    <2>2. CASE p = o
      <3>1. live'[o] <=> q < todo[o]
        BY <1>3, <1>4 DEF BrokerOK
      <3> QED
        BY <1>4, <1>5, <2>1, <2>2, <3>1
    <2>3. CASE p # o
      <3>1. todo'[p] = todo[p] /\ live'[p] = live[p]
        BY <1>3, <1>4, <2>3 DEF BrokerOK
      <3>2. live[p] => todo[p] > 0
        BY DEF SInv, Working
      <3> QED
        BY <2>1, <3>1, <3>2
    <2> QED
      BY <2>2, <2>3
  <1>12. Working'
    BY <1>4, <1>11 DEF SInv, Working
  <1>13. o < nextNo
    BY <1>4 DEF SInv, Working
  <1>14. Ledger'
    <2> SUFFICES ASSUME NEW i \in DOMAIN wire'
                 PROVE  /\ wire'[i].no < nextNo'
                        /\ todo'[wire'[i].no] <= wire'[i].left
                        /\ \A j \in DOMAIN wire' :
                              i < j /\ wire'[i].no = wire'[j].no =>
                                  wire'[j].qty + wire'[j].left <= wire'[i].left
      BY DEF Ledger
    <2>1. CASE i \in DOMAIN wire /\ wire'[i] = wire[i]
      <3>1. wire'[i].no < nextNo' /\ todo'[wire'[i].no] <= wire'[i].left
        BY <1>4, <1>10, <1>11, <2>1
      <3>2. ASSUME NEW j \in DOMAIN wire', i < j, wire'[i].no = wire'[j].no
            PROVE  wire'[j].qty + wire'[j].left <= wire'[i].left
        <4>1. CASE j \in DOMAIN wire /\ wire'[j] = wire[j]
          BY <2>1, <3>2, <4>1 DEF SInv, Ledger
        <4>2. CASE wire'[j] = m
          BY <1>4, <1>7, <1>10, <2>1, <3>2, <4>2
        <4> QED
          BY <1>9, <4>1, <4>2
      <3> QED
        BY <3>1, <3>2
    <2>2. CASE i = Len(wire) + 1 /\ wire'[i] = m
      <3>1. \A j \in DOMAIN wire' : ~(i < j)
        BY <1>9, <2>2
      <3> QED
        BY <1>4, <1>5, <1>7, <1>13, <2>2, <3>1
    <2> QED
      BY <1>9, <2>1, <2>2
  <1>15. \A n \in OrdNos \cup {0}, s \in Nat, f \in Nat :
            Shares(n, s, f) => Shares(n, s, f)'
    <2> SUFFICES ASSUME NEW n \in OrdNos \cup {0}, NEW s \in Nat, NEW f \in Nat,
                        Shares(n, s, f), n # 0
                 PROVE  /\ f + todo'[n] <= s
                        /\ \A i \in DOMAIN wire' :
                              wire'[i].no = n => f + wire'[i].qty + wire'[i].left <= s
      BY DEF Shares
    <2>1. f + todo[n] <= s
      BY DEF Shares
    <2>2. ASSUME NEW i \in DOMAIN wire', wire'[i].no = n
          PROVE  f + wire'[i].qty + wire'[i].left <= s
      <3>1. CASE i \in DOMAIN wire /\ wire'[i] = wire[i]
        BY <2>2, <3>1 DEF Shares
      <3>2. CASE wire'[i] = m
        BY <1>4, <1>7, <2>1, <2>2, <3>2
      <3> QED
        BY <1>9, <3>1, <3>2
    <2> QED
      BY <1>11, <2>1, <2>2
  <1>16. UNCHANGED <<nextNo, kind, status, bq, pend, locked, addCount, rowQty,
                     rowLocked, rowCount, pc, got, snap, faults, unknown, filledAdds>>
    BY <1>4 DEF recordVars, rowVars, mainVars, history
  <1>17. TypeOK'
    BY <1>8, <1>9, <1>16, Types
       DEF SInv, TypeOK, BrokerOK, RecordOK, PendOK, LoopOK, Message
  <1>18. Pending'
    <2>1. pc = "stage" => Shares(got.no, got.qty, 0)'
      BY <1>15, <1>16, PendFacts DEF SInv, Pending, Shares
    <2>2. pend.on => Shares(pend.no, pend.qty, pend.filled)'
      BY <1>15, <1>16, PendFacts DEF SInv, Pending, Shares
    <2> QED
      BY <1>11, <1>16, <2>1, <2>2, PendFacts DEF SInv, Pending, Shares
  <1>19. OneAdd' /\ Counting'
    BY <1>11, <1>16 DEF SInv, OneAdd, Counting
  <1> QED
    BY <1>12, <1>14, <1>17, <1>18, <1>19 DEF SInv

\* An add-buy is sent.
LEMMA SendAddInv ==
    ASSUME SInv, SendAdd
    PROVE  SInv'
  <1>1. PICK q \in 1..MaxQty :
           /\ Accept("ADD", q)
           /\ \/ pc' = "stage" /\ got' = [no |-> nextNo, qty |-> q] /\ unknown' = unknown
              \/ pc' = "stage" /\ got' = [no |-> 0, qty |-> q]
                 /\ unknown' = unknown \cup {nextNo}
              \/ UNCHANGED mainVars /\ unknown' = unknown \cup {nextNo}
    BY DEF SendAdd
  <1>2. q \in Nat \ {0} /\ q \in 0..MaxQty
    BY ScaleInAssumption
  <1>3. /\ pc = "idle" /\ ~pend.on
        /\ UNCHANGED <<wire, status, bq, pend, locked, addCount, rowQty, rowLocked,
                       rowCount, snap, filledAdds>>
        /\ faults' \in 0..MaxFaults
    BY ScaleInAssumption, Types DEF SendAdd, Fault, recordVars, rowVars, SInv, RecordOK
  <1>4. /\ BrokerOK' /\ nextNo \in OrdNos /\ nextNo' = nextNo + 1
        /\ kind'[nextNo] = "ADD" /\ todo'[nextNo] = q
        /\ \A p \in OrdNos \ {nextNo} :
              kind'[p] = kind[p] /\ todo'[p] = todo[p] /\ live'[p] = live[p]
    BY <1>1, <1>2, AcceptEffect, PendFacts
  <1>5. \/ pc' = "stage" /\ got'.no = nextNo /\ got'.qty = q /\ unknown' = unknown
        \/ pc' = "stage" /\ got'.no = 0 /\ unknown' = unknown \cup {nextNo}
        \/ pc' = pc /\ got' = got /\ unknown' = unknown \cup {nextNo}
    BY <1>1 DEF mainVars
  <1>6. LoopOK'
    BY <1>1, <1>2, <1>3, <1>4, PendFacts DEF LoopOK, mainVars
  <1>7. TypeOK'
    <2>1. RecordOK' /\ PendOK'
      BY <1>3, PendFacts DEF RecordOK, PendOK
    <2>2. wire' \in Seq(Message) /\ unknown' \subseteq OrdNos /\ filledAdds' \subseteq OrdNos
      BY <1>3, <1>4, <1>5, Types DEF SInv
    <2> QED
      BY <1>4, <1>6, <2>1, <2>2, Types
         DEF TypeOK, BrokerOK, RecordOK, PendOK, LoopOK, Message
  <1>8. /\ Working' /\ Ledger'
        /\ \A n \in OrdNos \cup {0}, s \in Nat, f \in Nat :
              n < nextNo /\ Shares(n, s, f) => Shares(n, s, f)'
        /\ \A n \in OrdNos, s \in Nat :
              n = nextNo /\ todo'[n] <= s => Shares(n, s, 0)'
    BY <1>2, <1>3, <1>4, NewNumber
  <1>9. nextNo \in Nat /\ (\A o \in OrdNos : o \in Nat) /\ 0 < nextNo
    BY <1>4 DEF OrdNos
  <1>10. Pending'
    <2>1. pc' = "stage" => Shares(got.no, got.qty, 0)'
      <3>1. CASE got'.no = 0
        BY <3>1 DEF Shares
      <3>2. CASE got'.no = nextNo /\ got'.qty = q
        <4>1. \A n, s : n = nextNo /\ s = q => Shares(n, s, 0)'
          BY <1>2, <1>4, <1>8
        <4> QED
          BY <3>2, <4>1 DEF Shares
      <3> QED
        BY <1>3, <1>5, <3>1, <3>2
    <2>2. pend'.no < nextNo' /\ got'.no < nextNo'
      <3>1. /\ pend.no \in Nat /\ pend.no < nextNo
            /\ got.no \in Nat /\ got.no < nextNo
        BY <1>9, PendFacts DEF SInv, Pending
      <3>2. pend'.no < nextNo'
        BY <1>3, <1>4, <1>9, <3>1
      <3>3. got'.no < nextNo'
        BY <1>4, <1>5, <1>9, <3>1
      <3> QED
        BY <3>2, <3>3
    <2> QED
      BY <1>3, <1>5, <2>1, <2>2 DEF SInv, Pending
  <1>11. OneAdd'
    BY <1>3, <1>4, <1>5 DEF SInv, OneAdd
  <1>12. Counting'
    <2>1. \A o \in filledAdds : o < nextNo /\ o \in Nat
      BY <1>9, Types DEF SInv, Counting
    <2>2. nextNo \notin filledAdds /\ 0 \notin filledAdds
      BY <2>1, <1>9, Facts, ScaleInAssumption, Types DEF SInv
    <2>3. \A o \in filledAdds' : o < nextNo'
      BY <1>3, <1>4, <1>9, <2>1
    <2> QED
      BY <1>3, <1>5, <2>2, <2>3 DEF SInv, Counting
  <1> QED
    BY <1>7, <1>8, <1>10, <1>11, <1>12 DEF SInv

\* Memory takes the reply over.
LEMMA StageAddInv ==
    ASSUME SInv, StageAdd
    PROVE  SInv'
  <1>1. /\ pc = "stage" /\ ~pend.on /\ pend = NoAdd
        /\ pend' = [pend EXCEPT !.on = TRUE, !.no = got.no, !.qty = got.qty]
        /\ pc' = "idle" /\ got' = NoReply
        /\ UNCHANGED <<nextNo, kind, todo, live, held, wire, status, bq, locked,
                       addCount, rowQty, rowLocked, rowCount, snap, faults,
                       unknown, filledAdds>>
    BY DEF StageAdd, SInv, Pending, brokerVars, rowVars, history
  <1>2. /\ pend'.on /\ pend'.no = got.no /\ pend'.qty = got.qty
        /\ pend'.filled = 0 /\ ~pend'.counted
    BY <1>1, PendFacts DEF PendOK, NoAdd
  <1>3. PendOK'
    BY <1>1, PendFacts DEF PendOK, LoopOK
  <1>4. LoopOK'
    BY <1>1, Facts, ScaleInAssumption DEF LoopOK
  <1>5. TypeOK'
    BY <1>1, <1>3, <1>4, Types
       DEF SInv, TypeOK, BrokerOK, RecordOK, PendOK, LoopOK, Message
  <1>6. Shares(got.no, got.qty, 0) /\ got.no < nextNo
    BY <1>1 DEF SInv, Pending
  <1>7. Shares(pend.no, pend.qty, pend.filled)'
    BY <1>1, <1>2, <1>6 DEF Shares
  <1>8. 0 < nextNo
    BY PendFacts DEF BrokerOK
  <1>9. Pending'
    BY <1>1, <1>2, <1>6, <1>7, <1>8 DEF Pending, NoReply
  <1>10. Working' /\ Ledger'
    BY <1>1 DEF SInv, Working, Ledger
  <1>11. OneAdd'
    BY <1>1, <1>2 DEF SInv, OneAdd
  <1>12. Counting'
    BY <1>1, <1>2 DEF SInv, Counting
  <1> QED
    BY <1>5, <1>9, <1>10, <1>11, <1>12 DEF SInv

\* An add that no longer works, or has no number, is forgotten.
LEMMA Forget ==
    ASSUME SInv, pend.no = 0 \/ ~live[pend.no] \/ ~pend.on, TypeOK',
           pend' = NoAdd, pc \in {"idle", "cancelled", "uncertain"}, pc' = "idle",
           UNCHANGED <<nextNo, kind, todo, live, held, wire, addCount, rowCount,
                       got, unknown, filledAdds>>
    PROVE  SInv'
  <1>1. 0 < nextNo /\ NoAdd.no = 0 /\ ~NoAdd.on
    BY PendFacts DEF BrokerOK, NoAdd
  <1>2. Working' /\ Ledger'
    BY DEF SInv, Working, Ledger
  <1>3. Pending'
    BY <1>1 DEF SInv, Pending
  <1>4. OneAdd'
    <2>1. \A o \in OrdNos : o # 0
      BY Facts, ScaleInAssumption
    <2> QED
      BY <1>1, <2>1 DEF SInv, OneAdd
  <1>5. Counting'
    BY <1>1 DEF SInv, Counting
  <1> QED
    BY <1>2, <1>3, <1>4, <1>5 DEF SInv

LEMMA DropUnnumberedInv ==
    ASSUME SInv, DropUnnumbered
    PROVE  SInv'
  <1>1. /\ pc = "idle" /\ pend.on /\ pend.no = 0 /\ locked' = TRUE /\ pend' = NoAdd
        /\ rowLocked' \in BOOLEAN /\ faults' \in 0..MaxFaults
        /\ UNCHANGED <<nextNo, kind, todo, live, held, wire, status, bq, addCount,
                       rowQty, rowCount, pc, got, snap, unknown, filledAdds>>
    <2>1. (Fault \/ UNCHANGED faults) /\ rowLocked' \in {TRUE, rowLocked}
      BY DEF DropUnnumbered, PersistLock
    <2> QED
      BY <2>1, FaultTypes, PendFacts
         DEF DropUnnumbered, RecordOK, brokerVars, mainVars, known
  <1>2. TypeOK'
    BY <1>1, Facts, ScaleInAssumption DEF SInv, TypeOK
  <1> QED
    BY <1>1, <1>2, Forget

LEMMA ClearInv ==
    ASSUME SInv, ClearCancelled \/ ClearUncertain
    PROVE  SInv'
  <1>1. /\ pc \in {"cancelled", "uncertain"} /\ pc' = "idle" /\ pend' = NoAdd
        /\ locked' \in BOOLEAN /\ rowLocked' \in BOOLEAN /\ faults' \in 0..MaxFaults
        /\ UNCHANGED <<nextNo, kind, todo, live, held, wire, status, bq, addCount,
                       rowQty, rowCount, got, snap, unknown, filledAdds>>
    <2>1. /\ Fault \/ UNCHANGED faults
          /\ locked' \in {TRUE, locked} /\ rowLocked' \in {TRUE, rowLocked}
      BY DEF ClearCancelled, ClearUncertain, PersistLock, rowVars, history
    <2> QED
      BY <2>1, FaultTypes, PendFacts
         DEF ClearCancelled, ClearUncertain, RecordOK, brokerVars, rowVars, history,
             known
  <1>2. TypeOK'
    BY <1>1, Facts, ScaleInAssumption DEF SInv, TypeOK
  <1>3. pend.no = 0 \/ ~live[pend.no] \/ ~pend.on
    BY <1>1 DEF SInv, Pending
  <1> QED
    BY <1>1, <1>2, <1>3, Forget

\* What CancelAdd does to the order and to the loop.
LEMMA CancelAddInv ==
    ASSUME SInv, CancelAdd
    PROVE  SInv'
  <1>1. /\ pc = "idle" /\ pend.on /\ pend.no # 0
        /\ \/ Close(pend.no) /\ pc' \in {"idle", "cancelled"}
           \/ ~live[pend.no] /\ pc' = "uncertain" /\ UNCHANGED brokerVars
           \/ pc' = "idle" /\ UNCHANGED brokerVars
        /\ faults' \in 0..MaxFaults
        /\ UNCHANGED <<wire, status, bq, pend, locked, addCount, rowQty, rowLocked,
                       rowCount, got, snap, unknown, filledAdds>>
    BY ScaleInAssumption, PendFacts
       DEF CancelAdd, Fault, RecordOK, recordVars, rowVars, known
  <1>2. pend.no \in OrdNos
    BY <1>1, PendFacts
  <1>3. /\ BrokerOK' /\ UNCHANGED <<nextNo, kind, todo, held>>
        /\ \A p \in OrdNos : live'[p] => live[p]
        /\ pc' # "idle" => ~live'[pend.no]
    <2>1. CASE Close(pend.no)
      BY <1>2, <2>1, CloseEffect, PendFacts
    <2>2. CASE UNCHANGED brokerVars
      BY <1>1, <1>2, <2>2, PendFacts DEF brokerVars, BrokerOK, Close
    <2> QED
      BY <1>1, <2>1, <2>2
  <1>4. TypeOK'
    <2>1. RecordOK' /\ PendOK' /\ LoopOK'
      BY <1>1, PendFacts DEF RecordOK, PendOK, LoopOK
    <2>2. wire' \in Seq(Message) /\ unknown' \subseteq OrdNos /\ filledAdds' \subseteq OrdNos
      BY <1>1, Types DEF SInv
    <2> QED
      BY <1>3, <2>1, <2>2, Types DEF TypeOK, BrokerOK, RecordOK, PendOK, LoopOK, Message
  <1>5. Working' /\ Ledger'
    BY <1>1, <1>3 DEF SInv, Working, Ledger
  <1>6. Pending'
    BY <1>1, <1>3 DEF SInv, Pending, Shares
  <1>7. OneAdd'
    BY <1>1, <1>3 DEF SInv, OneAdd
  <1>8. Counting'
    BY <1>1, <1>3 DEF SInv, Counting
  <1> QED
    BY <1>4, <1>5, <1>6, <1>7, <1>8 DEF SInv

LEMMA CancelAddBlockedInv ==
    ASSUME SInv, CancelAddBlocked
    PROVE  SInv'
  <1>1. /\ pc = "idle" /\ locked' = TRUE /\ rowLocked' \in {rowLocked, TRUE}
        /\ UNCHANGED <<nextNo, kind, todo, live, held, wire, status, bq, pend,
                       addCount, rowQty, rowCount, pc, got, snap, unknown,
                       filledAdds>>
    BY DEF CancelAddBlocked, brokerVars, mainVars, known
  <1>2. faults' \in 0..MaxFaults
    BY FaultTypes DEF CancelAddBlocked
  <1>3. TypeOK'
    <2>1. BrokerOK' /\ RecordOK' /\ PendOK' /\ LoopOK'
      BY <1>1, <1>2, PendFacts DEF BrokerOK, RecordOK, PendOK, LoopOK
    <2>2. wire' \in Seq(Message) /\ unknown' \subseteq OrdNos /\ filledAdds' \subseteq OrdNos
      BY <1>1, Types DEF SInv
    <2> QED
      BY <2>1, <2>2, Types DEF TypeOK, BrokerOK, RecordOK, PendOK, LoopOK, Message
  <1> QED
    BY <1>1, <1>3, QuietInv

\* The exit is sent: a new order that is no add-buy.
LEMMA SendExitInv ==
    ASSUME SInv, SendExit
    PROVE  SInv'
  <1>1. /\ pc = "idle" /\ bq \in Nat \ {0} /\ Accept("EXIT", bq)
        /\ status' = "SELL_ORDERED"
        /\ UNCHANGED <<wire, bq, pend, locked, addCount, rowQty, rowLocked, rowCount,
                       pc, got, snap, faults, unknown, filledAdds>>
    BY PendFacts DEF SendExit, RecordOK, rowVars, mainVars, history
  <1>2. /\ BrokerOK' /\ nextNo \in OrdNos /\ nextNo' = nextNo + 1
        /\ kind'[nextNo] = "EXIT" /\ todo'[nextNo] = bq
        /\ \A p \in OrdNos \ {nextNo} :
              kind'[p] = kind[p] /\ todo'[p] = todo[p] /\ live'[p] = live[p]
    BY <1>1, AcceptEffect, PendFacts
  <1>3. TypeOK'
    <2>1. RecordOK' /\ PendOK' /\ LoopOK'
      BY <1>1, PendFacts DEF RecordOK, PendOK, LoopOK
    <2>2. wire' \in Seq(Message) /\ unknown' \subseteq OrdNos /\ filledAdds' \subseteq OrdNos
      BY <1>1, Types DEF SInv
    <2> QED
      BY <1>2, <2>1, <2>2, Types DEF TypeOK, BrokerOK, RecordOK, PendOK, LoopOK, Message
  <1>4. /\ Working' /\ Ledger'
        /\ \A n \in OrdNos \cup {0}, s \in Nat, f \in Nat :
              n < nextNo /\ Shares(n, s, f) => Shares(n, s, f)'
    <2>1. todo'[nextNo] \in Nat /\ todo'[nextNo] > 0 /\ wire' = wire
      BY <1>1, <1>2
    <2> QED
      BY <1>2, <2>1, NewNumber
  <1>5. nextNo \in Nat /\ (\A o \in OrdNos : o \in Nat) /\ 0 < nextNo
    BY <1>2 DEF OrdNos
  <1>6. Pending'
    <2>1. /\ pend.no \in Nat /\ pend.no < nextNo /\ pend.no < nextNo'
          /\ got.no \in Nat /\ got.no < nextNo /\ got.no < nextNo'
      <3>1. /\ pend.no \in Nat /\ pend.no < nextNo
            /\ got.no \in Nat /\ got.no < nextNo
        BY <1>5, PendFacts DEF SInv, Pending
      <3> QED
        BY <1>2, <1>5, <3>1
    <2>2. pend.on => Shares(pend.no, pend.qty, pend.filled)'
      BY <1>1, <1>4, <2>1, PendFacts DEF SInv, Pending, Shares
    <2> QED
      BY <1>1, <2>1, <2>2 DEF SInv, Pending, Shares
  <1>7. OneAdd'
    BY <1>1, <1>2 DEF SInv, OneAdd
  <1>8. Counting'
    <2>1. \A o \in filledAdds : o < nextNo /\ o \in Nat
      BY <1>5, Types DEF SInv, Counting
    <2>2. \A o \in filledAdds' : o < nextNo'
      BY <1>1, <1>2, <1>5, <2>1
    <2> QED
      BY <1>1, <2>2 DEF SInv, Counting
  <1> QED
    BY <1>3, <1>4, <1>6, <1>7, <1>8 DEF SInv

\* The exit ends, one way or the other.
LEMMA ExitTimeoutInv ==
    ASSUME SInv, ExitTimeout
    PROVE  SInv'
  <1>1. /\ pc = "idle" /\ status' \in {"HOLDING", "COMPLETED"}
        /\ (\E o \in OrdNos : Close(o)) \/ UNCHANGED brokerVars
        /\ UNCHANGED <<wire, bq, pend, locked, addCount, rowQty, rowLocked, rowCount,
                       pc, got, snap, faults, unknown, filledAdds>>
    BY DEF ExitTimeout, rowVars, mainVars, history
  <1>2. /\ BrokerOK' /\ UNCHANGED <<nextNo, kind, todo, held>>
        /\ \A p \in OrdNos : live'[p] => live[p]
    <2>1. CASE \E o \in OrdNos : Close(o)
      BY <2>1, CloseEffect, PendFacts
    <2>2. CASE UNCHANGED brokerVars
      BY <2>2, PendFacts DEF brokerVars, BrokerOK
    <2> QED
      BY <1>1, <2>1, <2>2
  <1>3. TypeOK'
    <2>1. RecordOK' /\ PendOK' /\ LoopOK'
      BY <1>1, PendFacts DEF RecordOK, PendOK, LoopOK
    <2>2. wire' \in Seq(Message) /\ unknown' \subseteq OrdNos /\ filledAdds' \subseteq OrdNos
      BY <1>1, Types DEF SInv
    <2> QED
      BY <1>2, <2>1, <2>2, Types DEF TypeOK, BrokerOK, RecordOK, PendOK, LoopOK, Message
  <1> QED
    BY <1>1, <1>2, <1>3, QuietInv

LEMMA PruneInv ==
    ASSUME SInv, Prune
    PROVE  SInv'
  <1>1. /\ status' = "DROPPED"
        /\ UNCHANGED <<nextNo, kind, todo, live, held, wire, bq, pend, locked,
                       addCount, rowQty, rowLocked, rowCount, pc, got, snap, faults,
                       unknown, filledAdds>>
    BY DEF Prune, brokerVars, rowVars, mainVars, history
  <1>2. TypeOK'
    BY <1>1 DEF SInv, TypeOK
  <1> QED
    BY <1>1, <1>2, QuietInv

\* A new entry takes a number, which is nobody's order here.
LEMMA EnterAgainInv ==
    ASSUME SInv, EnterAgain
    PROVE  SInv'
  <1>1. /\ pc = "idle" /\ nextNo <= MaxOrders
        /\ nextNo' = nextNo + 1 /\ held' = held + 1
        /\ status' = "HOLDING" /\ bq' = bq + 1 /\ rowQty' = bq + 1
        /\ UNCHANGED <<kind, todo, live, wire, pend, locked, addCount, rowLocked,
                       rowCount, pc, got, snap, faults, unknown, filledAdds>>
    BY DEF EnterAgain, mainVars, history
  <1>2. /\ nextNo \in OrdNos /\ nextNo' \in 1..(MaxOrders + 1)
        /\ held' \in Nat /\ bq' \in Nat /\ rowQty' \in Nat
    <2>1. nextNo \in 1..(MaxOrders + 1) /\ MaxOrders \in Nat /\ held \in Nat /\ bq \in Nat
      BY PendFacts, ScaleInAssumption DEF BrokerOK, RecordOK
    <2>2. nextNo \in OrdNos
      BY <1>1, <2>1 DEF OrdNos
    <2>3. nextNo' \in 1..(MaxOrders + 1)
      BY <1>1, <2>1
    <2> QED
      BY <1>1, <2>1, <2>2, <2>3
  <1>3. TypeOK'
    BY <1>1, <1>2 DEF SInv, TypeOK
  <1>4. /\ todo'[nextNo] \in Nat
        /\ live'[nextNo] => todo'[nextNo] > 0
        /\ \A p \in OrdNos \ {nextNo} : todo'[p] = todo[p] /\ live'[p] = live[p]
    BY <1>1, <1>2, PendFacts DEF BrokerOK, SInv, Working
  <1>5. /\ Working' /\ Ledger'
        /\ \A n \in OrdNos \cup {0}, s \in Nat, f \in Nat :
              n < nextNo /\ Shares(n, s, f) => Shares(n, s, f)'
    BY <1>1, <1>2, <1>4, NewNumber
  <1>6. nextNo \in Nat /\ (\A o \in OrdNos : o \in Nat) /\ 0 < nextNo
    BY <1>2 DEF OrdNos
  <1>7. Pending'
    <2>1. /\ pend.no \in Nat /\ pend.no < nextNo /\ pend.no < nextNo'
          /\ got.no \in Nat /\ got.no < nextNo /\ got.no < nextNo'
      <3>1. /\ pend.no \in Nat /\ pend.no < nextNo
            /\ got.no \in Nat /\ got.no < nextNo
        BY <1>6, PendFacts DEF SInv, Pending
      <3> QED
        BY <1>1, <1>6, <3>1
    <2>2. pend.on => Shares(pend.no, pend.qty, pend.filled)'
      BY <1>1, <1>5, <2>1, PendFacts DEF SInv, Pending, Shares
    <2> QED
      BY <1>1, <2>1, <2>2 DEF SInv, Pending, Shares
  <1>8. OneAdd'
    BY <1>1 DEF SInv, OneAdd
  <1>9. Counting'
    <2>1. \A o \in filledAdds : o < nextNo /\ o \in Nat
      BY <1>6, Types DEF SInv, Counting
    <2>2. \A o \in filledAdds' : o < nextNo'
      BY <1>1, <1>6, <2>1
    <2> QED
      BY <1>1, <2>2 DEF SInv, Counting
  <1> QED
    BY <1>3, <1>5, <1>7, <1>8, <1>9 DEF SInv

\* A fill of the pending add.  When it was the last one nothing of the order
\* is left to fill, so it does not work any more.
LEMMA AddReportInv ==
    ASSUME SInv, NEW r, AddReport(r)
    PROVE  SInv'
  <1>1. /\ Take(r) /\ pend.on /\ pend.no = r.no
        /\ status' = "HOLDING" /\ bq' = bq + r.qty
        /\ addCount' = IF pend.counted THEN addCount ELSE addCount + 1
        /\ filledAdds' = filledAdds \cup {r.no}
        /\ pend' = IF pend.filled + r.qty >= pend.qty THEN NoAdd
                   ELSE [pend EXCEPT !.filled = @ + r.qty, !.counted = TRUE]
        /\ locked' \in {locked, TRUE}
        /\ \/ rowQty' = bq' /\ rowLocked' = locked' /\ rowCount' = addCount'
           \/ UNCHANGED <<rowQty, rowLocked, rowCount>>
        /\ Fault \/ UNCHANGED faults
        /\ UNCHANGED <<nextNo, kind, todo, live, held, pc, got, snap, unknown>>
    BY DEF AddReport, Matches, WriteRow, brokerVars, mainVars, rowVars
  <1>2. /\ r.no \in OrdNos /\ r.qty \in Nat /\ r.left \in Nat
        /\ r.no < nextNo /\ todo[r.no] <= r.left /\ wire' \in Seq(Message) /\ Ledger'
        /\ \A n \in OrdNos, s \in Nat, f \in Nat : Shares(n, s, f) => Shares(n, s, f)'
    BY <1>1, TakeEffect
  <1>3. /\ pend.filled + r.qty + r.left <= pend.qty
        /\ \A n, s, f : n = pend.no /\ s = pend.qty /\ f = pend.filled + r.qty =>
              Shares(n, s, f)'
    <2>1. Shares(r.no, pend.qty, pend.filled)
      BY <1>1 DEF SInv, Pending
    <2>2. \A s \in Nat, f \in Nat :
             Shares(r.no, s, f) =>
                 f + r.qty + r.left <= s /\ Shares(r.no, s, f + r.qty)'
      BY <1>1, TakeEffect
    <2>3. \A s, f : s = pend.qty /\ f = pend.filled =>
             f + r.qty + r.left <= s /\ Shares(r.no, s, f + r.qty)'
      BY <2>1, <2>2, PendFacts
    <2> QED
      BY <1>1, <2>3
  <1>4. pend.filled + r.qty < pend.qty \/ (r.left = 0 /\ pend' = NoAdd)
    BY <1>1, <1>2, <1>3, PendFacts
  <1>5. /\ pend' # NoAdd => /\ pend'.on /\ pend'.no = pend.no /\ pend'.qty = pend.qty
                            /\ pend'.filled = pend.filled + r.qty /\ pend'.counted
                            /\ pend'.filled \in 0..MaxQty
        /\ PendOK'
    <2>1. CASE pend.filled + r.qty >= pend.qty
      BY <1>1, <2>1, Facts, ScaleInAssumption DEF PendOK
    <2>2. CASE pend.filled + r.qty < pend.qty
      <3>1. pend' = [pend EXCEPT !.filled = pend.filled + r.qty, !.counted = TRUE]
        BY <1>1, <1>2, <2>2, PendFacts
      <3>2. pend.filled + r.qty \in 0..MaxQty
        BY <1>2, <2>2, PendFacts, ScaleInAssumption
      <3> QED
        BY <1>1, <3>1, <3>2, PendFacts DEF PendOK
    <2> QED
      BY <1>2, <2>1, <2>2, PendFacts
  <1>6. ~live[r.no] \/ pend' # NoAdd
    <2>1. CASE pend.filled + r.qty >= pend.qty
      <3>1. r.left = 0
        BY <1>2, <1>4, <2>1, PendFacts
      <3>2. todo[r.no] \in Nat /\ todo[r.no] <= 0
        BY <1>2, <3>1, PendFacts DEF BrokerOK
      <3> QED
        BY <1>2, <3>2 DEF SInv, Working
    <2>2. CASE pend.filled + r.qty < pend.qty
      <3>1. pend' = [pend EXCEPT !.filled = pend.filled + r.qty, !.counted = TRUE]
        BY <1>1, <1>2, <2>2, PendFacts
      <3>2. pend'.on
        BY <1>1, <3>1, PendFacts DEF PendOK
      <3> QED
        BY <3>2, Facts, ScaleInAssumption
    <2> QED
      BY <1>2, <2>1, <2>2, PendFacts
  <1>7. /\ Cardinality(filledAdds) \in Nat /\ Cardinality(filledAdds') \in Nat
        /\ Cardinality(filledAdds) <= Cardinality(filledAdds')
        /\ ~pend.counted => Cardinality(filledAdds') = Cardinality(filledAdds) + 1
    BY <1>1, <1>2, CountFacts, Types DEF SInv, Counting
  <1>8. addCount' \in Nat /\ addCount' <= Cardinality(filledAdds')
    <2>1. addCount \in Nat /\ addCount <= Cardinality(filledAdds)
      BY PendFacts DEF RecordOK, SInv, Counting
    <2>2. CASE pend.counted
      BY <1>1, <1>7, <2>1, <2>2
    <2>3. CASE ~pend.counted
      BY <1>1, <1>7, <2>1, <2>3
    <2> QED
      BY <2>2, <2>3
  <1>9. RecordOK'
    <2>1. bq' \in Nat /\ locked' \in BOOLEAN /\ faults' \in 0..MaxFaults
      <3>1. faults' \in 0..MaxFaults
        BY <1>1, FaultTypes
      <3>2. bq \in Nat /\ locked \in BOOLEAN
        BY PendFacts DEF RecordOK
      <3>3. bq' \in Nat
        BY <1>1, <1>2, <3>2
      <3>4. locked' \in BOOLEAN
        BY <1>1, <3>2
      <3> QED
        BY <3>1, <3>3, <3>4
    <2> QED
      BY <1>1, <1>8, <2>1, PendFacts DEF RecordOK
  <1>10. TypeOK'
    <2>1. BrokerOK' /\ LoopOK'
      BY <1>1, PendFacts DEF BrokerOK, LoopOK
    <2>2. unknown' \subseteq OrdNos /\ filledAdds' \subseteq OrdNos
      BY <1>1, <1>2, Types DEF SInv
    <2> QED
      BY <1>2, <1>5, <1>9, <2>1, <2>2, Types
         DEF TypeOK, BrokerOK, RecordOK, PendOK, LoopOK, Message
  <1>11. Working'
    BY <1>1 DEF SInv, Working
  <1>12. Pending'
    <2>1. pc # "stage"
      BY <1>1 DEF SInv, Pending
    <2>2. pend'.no < nextNo'
      <3>1. 0 < nextNo
        BY PendFacts DEF BrokerOK
      <3> QED
        BY <1>1, <1>2, <1>5, <3>1, Facts, ScaleInAssumption
    <2>3. pend'.on => Shares(pend.no, pend.qty, pend.filled)'
      <3>1. CASE pend' = NoAdd
        BY <3>1 DEF NoAdd
      <3>2. CASE pend' # NoAdd
        BY <1>3, <1>5, <3>2 DEF Shares
      <3> QED
        BY <3>1, <3>2
    <2> QED
      BY <1>1, <1>5, <2>1, <2>2, <2>3 DEF SInv, Pending, NoAdd
  <1>13. OneAdd'
    BY <1>1, <1>5, <1>6 DEF SInv, OneAdd
  <1>14. Counting'
    <2>1. rowCount' <= Cardinality(filledAdds')
      <3>1. rowCount \in Nat /\ rowCount <= Cardinality(filledAdds)
        BY PendFacts DEF RecordOK, SInv, Counting
      <3> QED
        BY <1>1, <1>7, <1>8, <3>1
    <2>2. \A o \in filledAdds' : o < nextNo'
      BY <1>1, <1>2 DEF SInv, Counting
    <2>3. pc # "stage"
      BY <1>1 DEF SInv, Pending
    <2>4. pend'.on => pend'.counted
      BY <1>5 DEF NoAdd
    <2> QED
      BY <1>1, <1>8, <2>1, <2>2, <2>3, <2>4 DEF Counting
  <1> QED
    BY <1>2, <1>10, <1>11, <1>12, <1>13, <1>14 DEF SInv

\* The other reports leave the add as it is.
LEMMA OtherReportInv ==
    ASSUME SInv, NEW r, AddReportAsEntry(r) \/ SellReport(r) \/ ReportIgnored(r)
    PROVE  SInv'
  <1>1. /\ Take(r)
        /\ Fault \/ UNCHANGED faults
        /\ UNCHANGED <<nextNo, kind, todo, live, held, pend, locked, addCount, pc,
                       got, snap, unknown, filledAdds>>
        /\ rowCount' \in {rowCount, 0} /\ rowLocked' \in {rowLocked, FALSE}
        /\ bq' \in {bq, bq + r.qty, 0} /\ rowQty' \in {rowQty, bq', 0}
        /\ status' \in {status, "WATCHING", "COMPLETED"}
    BY DEF AddReportAsEntry, SellReport, ReportIgnored, brokerVars, mainVars, rowVars,
           known, history, recordVars
  <1>2. wire' \in Seq(Message) /\ r.qty \in Nat
    BY <1>1, TakeEffect
  <1>3. TypeOK'
    <2>1. faults' \in 0..MaxFaults
      BY <1>1, FaultTypes
    <2>2. bq' \in Nat /\ rowQty' \in Nat
      BY <1>1, <1>2, PendFacts DEF RecordOK
    <2>3. RecordOK'
      BY <1>1, <2>1, <2>2, PendFacts DEF RecordOK
    <2>4. BrokerOK' /\ PendOK' /\ LoopOK'
      BY <1>1, PendFacts DEF BrokerOK, PendOK, LoopOK
    <2>5. unknown' \subseteq OrdNos /\ filledAdds' \subseteq OrdNos
      BY <1>1, Types DEF SInv
    <2> QED
      BY <1>2, <2>3, <2>4, <2>5, Types
         DEF TypeOK, BrokerOK, RecordOK, PendOK, LoopOK, Message
  <1> QED
    BY <1>1, <1>3, OtherReport DEF brokerVars, mainVars

LEMMA SyncInv ==
    ASSUME SInv, Sync
    PROVE  SInv'
  <1>1. /\ Fault \/ UNCHANGED faults
        /\ UNCHANGED <<nextNo, kind, todo, live, held, wire, status, pend, addCount,
                       rowCount, pc, got, unknown, filledAdds>>
        /\ snap' \in {0, held} /\ bq' \in {bq, snap} /\ rowQty' \in {rowQty, snap}
        /\ locked' \in {locked, FALSE} /\ rowLocked' \in {rowLocked, FALSE}
    <2>1. CASE ReadAccount \/ SkipCompare
      BY <2>1 DEF ReadAccount, SkipCompare, brokerVars, mainVars, rowVars, known,
                  history, recordVars
    <2>2. CASE Compare
      <3>1. rowLocked \in BOOLEAN /\ locked \in BOOLEAN
        BY PendFacts DEF RecordOK
      <3>2. locked' \in {locked, FALSE} /\ rowLocked' \in {rowLocked, FALSE}
        BY <2>2, <3>1 DEF Compare
      <3> QED
        BY <2>2, <3>2 DEF Compare, brokerVars, mainVars, known
    <2> QED
      BY <2>1, <2>2 DEF Sync
  <1>2. TypeOK'
    <2>1. faults' \in 0..MaxFaults
      BY <1>1, FaultTypes
    <2>2. RecordOK'
      BY <1>1, <2>1, PendFacts DEF RecordOK, BrokerOK
    <2>3. BrokerOK' /\ PendOK' /\ LoopOK'
      BY <1>1, PendFacts DEF BrokerOK, PendOK, LoopOK
    <2>4. wire' \in Seq(Message) /\ unknown' \subseteq OrdNos /\ filledAdds' \subseteq OrdNos
      BY <1>1, Types DEF SInv
    <2> QED
      BY <2>2, <2>3, <2>4, Types DEF TypeOK, BrokerOK, RecordOK, PendOK, LoopOK, Message
  <1> QED
    BY <1>1, <1>2, QuietInv

\* After a restart memory knows of no add, and the add-buys there are become
\* unknown.
LEMMA RestartInv ==
    ASSUME SInv, Restart
    PROVE  SInv'
  <1>1. /\ Fault /\ bq' = rowQty /\ locked' = rowLocked /\ pend' = NoAdd
        /\ pc' = "idle" /\ got' = NoReply /\ snap' = 0 /\ wire' = <<>>
        /\ addCount' = rowCount
        /\ unknown' = unknown \cup {o \in OrdNos : kind[o] = "ADD"}
        /\ UNCHANGED <<nextNo, kind, todo, live, held, status, rowQty, rowLocked,
                       rowCount, filledAdds>>
    BY DEF Restart, brokerVars, rowVars
  <1>2. TypeOK'
    <2>1. faults' \in 0..MaxFaults
      BY <1>1, FaultTypes
    <2>2. RecordOK' /\ BrokerOK'
      BY <1>1, <2>1, PendFacts DEF RecordOK, BrokerOK
    <2>3. PendOK' /\ LoopOK'
      BY <1>1, Facts, ScaleInAssumption DEF PendOK, LoopOK
    <2>4. wire' \in Seq(Message) /\ unknown' \subseteq OrdNos /\ filledAdds' \subseteq OrdNos
      BY <1>1, Types DEF SInv
    <2> QED
      BY <2>2, <2>3, <2>4, Types DEF TypeOK, BrokerOK, RecordOK, PendOK, LoopOK, Message
  <1>3. Working'
    BY <1>1 DEF SInv, Working
  <1>4. Ledger'
    BY <1>1 DEF Ledger
  <1>5. Pending'
    <2>1. 0 < nextNo /\ NoAdd.no = 0 /\ NoReply.no = 0 /\ ~NoAdd.on
      BY PendFacts DEF BrokerOK, NoAdd, NoReply
    <2> QED
      BY <1>1, <2>1 DEF Pending
  <1>6. OneAdd'
    BY <1>1 DEF OneAdd
  <1>7. Counting'
    BY <1>1 DEF SInv, Counting, NoAdd
  <1> QED
    BY <1>2, <1>3, <1>4, <1>5, <1>6, <1>7 DEF SInv

-----------------------------------------------------------------------------
(***************************************************************************)
(* The invariant and the theorems.                                         *)
(***************************************************************************)

LEMMA InitInv ==
    ASSUME Init
    PROVE  SInv
  <1>1. TypeOK
    <2>1. BrokerOK
      <3>1. 1 \in 1..(MaxOrders + 1)
        BY ScaleInAssumption
      <3> QED
        BY <3>1 DEF Init, BrokerOK
    <2>2. RecordOK
      <3>1. 0 \in 0..MaxFaults
        BY ScaleInAssumption
      <3> QED
        BY <3>1 DEF Init, RecordOK
    <2>3. PendOK /\ LoopOK
      BY Facts, ScaleInAssumption DEF Init, PendOK, LoopOK
    <2>4. wire \in Seq(Message) /\ unknown \subseteq OrdNos /\ filledAdds \subseteq OrdNos
      BY DEF Init
    <2> QED
      BY <2>1, <2>2, <2>3, <2>4, Types
  <1>2. Working /\ Ledger
    BY DEF Init, Working, Ledger
  <1>3. Pending /\ OneAdd
    BY DEF Init, Pending, OneAdd, NoAdd, NoReply
  <1>4. Counting
    <2>1. Cardinality({}) = 0
      BY FS_EmptySet
    <2> QED
      BY <2>1 DEF Init, Counting, NoAdd
  <1> QED
    BY <1>1, <1>2, <1>3, <1>4 DEF SInv

LEMMA NextInv ==
    ASSUME SInv, [Next]_vars
    PROVE  SInv'
  <1>1. CASE Broker
    BY <1>1, BrokerInv
  <1>2. CASE MainLoop
    BY <1>2, SendAddInv, StageAddInv, DropUnnumberedInv, CancelAddInv,
       CancelAddBlockedInv, ClearInv, SendExitInv, ExitTimeoutInv, EnterAgainInv, PruneInv
       DEF MainLoop
  <1>3. CASE Reports
    BY <1>3, AddReportInv, OtherReportInv DEF Reports
  <1>4. CASE Sync
    BY <1>4, SyncInv
  <1>5. CASE Restart
    BY <1>5, RestartInv
  <1>6. CASE UNCHANGED vars
    <2>1. UNCHANGED <<nextNo, kind, todo, live, held, wire, status, bq, pend, locked,
                      addCount, rowQty, rowLocked, rowCount, pc, got, snap, faults,
                      unknown, filledAdds>>
      BY <1>6 DEF vars, brokerVars, recordVars, rowVars, mainVars, history
    <2>2. TypeOK'
      BY <2>1 DEF SInv, TypeOK
    <2> QED
      BY <2>1, <2>2, QuietInv
  <1> QED
    BY <1>1, <1>2, <1>3, <1>4, <1>5, <1>6 DEF Next

LEMMA Invariance == Spec => []SInv
  <1>1. Init => SInv
    BY InitInv
  <1>2. SInv /\ [Next]_vars => SInv'
    BY NextInv
  <1> QED
    BY <1>1, <1>2, PTL DEF Spec

\* Every variable of an add-buy's life keeps its type: order numbers, shares
\* counted and what memory holds of the add stay within their ranges through
\* failed commits, lost replies and restarts.
THEOREM ScaleInTypeCorrect == Spec => []TypeOK
  <1>1. SInv => TypeOK
    BY DEF SInv
  <1> QED
    BY <1>1, Invariance, PTL

\* At most one add-buy the engine can know of works at the broker, and memory
\* has its number, however exits, cancels and partial fills interleave.
THEOREM OneAddWorks == Spec => []OneAdd
  <1>1. SInv => OneAdd
    BY DEF SInv
  <1> QED
    BY <1>1, Invariance, PTL

\* add_count never counts an add-buy twice.
THEOREM AddsAreCountedOnce == Spec => []AddCountedOnce
  <1>1. SInv => AddCountedOnce
    BY DEF SInv, Counting, AddCountedOnce
  <1> QED
    BY <1>1, Invariance, PTL

-----------------------------------------------------------------------------
(***************************************************************************)
(* Order numbers                                                           *)
(***************************************************************************)

\* The number of the pending add, and the one about to be staged, is an
\* add-buy's; a fill is counted for add-buys only.
AddNumbers ==
    /\ pend.no # 0 => kind[pend.no] = "ADD"
    /\ got.no # 0 => kind[got.no] = "ADD"
    /\ \A o \in filledAdds : kind[o] = "ADD"

\* Numbers that were not handed out are of no kind.
NoKind == \A o \in OrdNos : o >= nextNo => kind[o] = "NONE"

\* An order keeps its kind.
LEMMA KindKept ==
    ASSUME SInv, NoKind, [Next]_vars
    PROVE  NoKind' /\ \A o \in OrdNos : kind[o] = "ADD" => kind'[o] = "ADD"
  <1>1. /\ nextNo \in Nat /\ kind \in [OrdNos -> {"NONE", "ADD", "EXIT"}]
        /\ \A o \in OrdNos : o \in Nat
    BY ScaleInAssumption DEF SInv, TypeOK, OrdNos
  <1>2. \/ kind' = kind /\ nextNo' \in {nextNo, nextNo + 1}
        \/ \E k : kind' = [kind EXCEPT ![nextNo] = k] /\ nextNo' = nextNo + 1
    <2>1. CASE SendAdd \/ SendExit
      BY <2>1 DEF SendAdd, SendExit, Accept
    <2>2. CASE EnterAgain
      BY <2>2 DEF EnterAgain
    <2>3. CASE Broker \/ ExitTimeout \/ CancelAdd
      BY <2>3 DEF Broker, Fill, ExitTimeout, CancelAdd, Close, brokerVars
    <2>4. CASE \/ StageAdd \/ DropUnnumbered \/ CancelAddBlocked \/ ClearCancelled
               \/ ClearUncertain
               \/ Prune \/ Sync \/ Restart \/ UNCHANGED vars
      BY <2>4 DEF StageAdd, DropUnnumbered, CancelAddBlocked, ClearCancelled,
         ClearUncertain, Prune, Sync,
                  ReadAccount, Compare, SkipCompare, Restart, vars, brokerVars
    <2>5. CASE Reports
      BY <2>5 DEF Reports, AddReport, AddReportAsEntry, SellReport, ReportIgnored,
                  brokerVars
    <2> QED
      BY <2>1, <2>2, <2>3, <2>4, <2>5 DEF Next, MainLoop
  <1>3. CASE kind' = kind /\ nextNo' \in {nextNo, nextNo + 1}
    BY <1>1, <1>3 DEF NoKind
  <1>4. ASSUME NEW k, kind' = [kind EXCEPT ![nextNo] = k], nextNo' = nextNo + 1
        PROVE  NoKind' /\ \A o \in OrdNos : kind[o] = "ADD" => kind'[o] = "ADD"
    <2>1. \A o \in OrdNos : o # nextNo => kind'[o] = kind[o]
      BY <1>1, <1>4
    <2>2. nextNo \in OrdNos => kind[nextNo] = "NONE"
      BY <1>1 DEF NoKind
    <2>3. \A o \in OrdNos : o >= nextNo' => o # nextNo /\ o >= nextNo
      BY <1>1, <1>4
    <2> QED
      BY <2>1, <2>2, <2>3 DEF NoKind
  <1> QED
    BY <1>2, <1>3, <1>4

LEMMA AddNumbersStep ==
    ASSUME SInv, NoKind, AddNumbers, [Next]_vars
    PROVE  AddNumbers'
  <1>1. \A o \in OrdNos : kind[o] = "ADD" => kind'[o] = "ADD"
    BY KindKept
  <1>2. /\ pend \in [on : BOOLEAN, no : OrdNos \cup {0}, qty : 0..MaxQty,
                     filled : 0..MaxQty, counted : BOOLEAN]
        /\ pend.no \in OrdNos \cup {0} /\ got.no \in OrdNos \cup {0}
        /\ filledAdds \subseteq OrdNos
    BY DEF SInv, TypeOK
  <1>3. NoAdd.no = 0 /\ NoReply.no = 0
    BY DEF NoAdd, NoReply
  <1>4. CASE SendAdd
    <2>1. PICK q \in 1..MaxQty :
            /\ Accept("ADD", q)
            /\ \/ got' = [no |-> nextNo, qty |-> q]
               \/ got' = [no |-> 0, qty |-> q]
               \/ got' = got
      BY <1>4 DEF SendAdd, mainVars
    <2>2. nextNo \in OrdNos => kind'[nextNo] = "ADD"
      BY <2>1 DEF Accept, SInv, TypeOK
    <2>3. nextNo \in OrdNos
      BY <2>1, ScaleInAssumption DEF Accept, SInv, TypeOK, OrdNos
    <2>4. got'.no # 0 => kind'[got'.no] = "ADD"
      BY <1>1, <1>2, <2>1, <2>2, <2>3 DEF AddNumbers
    <2>5. pend' = pend /\ filledAdds' = filledAdds
      BY <1>4 DEF SendAdd, recordVars
    <2> QED
      BY <1>1, <1>2, <2>4, <2>5 DEF AddNumbers
  <1>5. CASE StageAdd
    <2>1. /\ pend' = [pend EXCEPT !.on = TRUE, !.no = got.no, !.qty = got.qty]
          /\ got' = NoReply /\ filledAdds' = filledAdds
      BY <1>5 DEF StageAdd, history
    <2>2. pend'.no = got.no
      BY <1>2, <2>1
    <2> QED
      BY <1>1, <1>2, <1>3, <2>1, <2>2 DEF AddNumbers
  <1>6. ASSUME NEW r, AddReport(r)
        PROVE  AddNumbers'
    <2>1. r.no \in OrdNos /\ kind[r.no] = "ADD" /\ kind'[r.no] = "ADD"
      <3>1. Take(r) /\ todo' = todo /\ nextNo' = nextNo /\ kind[r.no] = "ADD"
        BY <1>6 DEF AddReport, brokerVars
      <3>2. r.no \in OrdNos
        BY <3>1, TakeEffect
      <3> QED
        BY <1>1, <3>1, <3>2
    <2>2. /\ got' = got /\ filledAdds' = filledAdds \cup {r.no}
          /\ \/ pend' = NoAdd
             \/ pend' = [pend EXCEPT !.filled = @ + r.qty, !.counted = TRUE]
      BY <1>6 DEF AddReport, mainVars
    <2>3. pend'.no \in {pend.no, 0}
      BY <1>2, <1>3, <2>2
    <2> QED
      BY <1>1, <1>2, <2>1, <2>2, <2>3 DEF AddNumbers
  <1>7. CASE \/ Broker \/ DropUnnumbered \/ CancelAdd \/ CancelAddBlocked
             \/ ClearCancelled \/ ClearUncertain
             \/ SendExit \/ ExitTimeout \/ EnterAgain \/ Prune \/ Sync \/ Restart
             \/ UNCHANGED vars
    <2>1. /\ pend' \in {pend, NoAdd} /\ got' \in {got, NoReply}
          /\ filledAdds' = filledAdds
      BY <1>7 DEF Broker, Fill, DropUnnumbered, CancelAdd, CancelAddBlocked, ClearCancelled,
                  ClearUncertain, SendExit, ExitTimeout, EnterAgain, Prune, Sync,
                  ReadAccount, Compare, SkipCompare, Restart, vars, recordVars,
                  mainVars, history, known
    <2> QED
      BY <1>1, <1>2, <1>3, <2>1 DEF AddNumbers
  <1>8. ASSUME NEW r, AddReportAsEntry(r) \/ SellReport(r) \/ ReportIgnored(r)
        PROVE  AddNumbers'
    <2>1. pend' = pend /\ got' = got /\ filledAdds' = filledAdds
      BY <1>8 DEF AddReportAsEntry, SellReport, ReportIgnored, recordVars, mainVars,
                  history, known
    <2> QED
      BY <1>1, <1>2, <2>1 DEF AddNumbers
  <1> QED
    BY <1>4, <1>5, <1>6, <1>7, <1>8 DEF Next, MainLoop, Reports

\* The cancel of a pending add goes to an add-buy, never to the exit beside it,
\* and only add-buys are counted, whichever fills the dispatcher had to guess a
\* target for.
THEOREM AddNumbersAreAdds == Spec => []AddNumbers
  <1>1. Init => NoKind /\ AddNumbers
    BY DEF Init, NoKind, AddNumbers, NoAdd, NoReply
  <1>2. SInv /\ NoKind /\ AddNumbers /\ [Next]_vars => NoKind' /\ AddNumbers'
    BY KindKept, AddNumbersStep
  <1> QED
    BY <1>1, <1>2, Invariance, PTL DEF Spec
=============================================================================
