------------------------------- MODULE Broker -------------------------------
(***************************************************************************)
(* The broker (Kiwoom REST and WebSocket) as the engine sees it, for one   *)
(* stock code and one account.  It is outside the repository: what it may  *)
(* do is read off what the engine sends it and what the engine expects     *)
(* back.  An order is accepted under a fresh number, is filled in one or   *)
(* several pieces, and ends filled, cancelled or lapsed (IOC remainder,    *)
(* day end, a cancel typed by hand).  Every fill is reported once, in the  *)
(* order of the fills, on the one WebSocket the engine reads in order.     *)
(***************************************************************************)
EXTENDS Naturals, Sequences

CONSTANT MaxOrders      \* bound: order numbers the broker hands out

ASSUME MaxOrdersAssumption == MaxOrders \in Nat \ {0}

OrdNos == 1..MaxOrders

VARIABLES
    nextNo,     \* the number the next accepted order gets
    side,       \* side[o]: "BUY" or "SELL", "NONE" before o is accepted
    qty,        \* qty[o]: shares ordered
    filled,     \* filled[o]: shares filled at the broker
    live,       \* live[o]: o is still working at the broker
    free,       \* shares held and not reserved by a live SELL order
    wire        \* execution reports sent and not yet handled, oldest first

brokerVars == <<nextNo, side, qty, filled, live, free, wire>>

\* upTo is the order's cumulative fill after the reported piece; the engine
\* never reads it.
Report == [no : OrdNos, qty : Nat \ {0}, upTo : Nat]

BrokerTypeOK ==
    /\ nextNo \in 1..(MaxOrders + 1)
    /\ side \in [OrdNos -> {"NONE", "BUY", "SELL"}]
    /\ qty \in [OrdNos -> Nat]
    /\ filled \in [OrdNos -> Nat]
    /\ live \in [OrdNos -> BOOLEAN]
    /\ free \in Nat
    /\ wire \in Seq(Report)

BrokerInit ==
    /\ nextNo = 1
    /\ side = [o \in OrdNos |-> "NONE"]
    /\ qty = [o \in OrdNos |-> 0]
    /\ filled = [o \in OrdNos |-> 0]
    /\ live = [o \in OrdNos |-> FALSE]
    /\ free = 0
    /\ wire = <<>>

\* The broker takes a new order; a SELL order reserves its shares.
Accept(s, q) ==
    /\ nextNo <= MaxOrders
    /\ s = "SELL" => free >= q
    /\ nextNo' = nextNo + 1
    /\ side' = [side EXCEPT ![nextNo] = s]
    /\ qty' = [qty EXCEPT ![nextNo] = q]
    /\ live' = [live EXCEPT ![nextNo] = TRUE]
    /\ free' = IF s = "SELL" THEN free - q ELSE free
    /\ UNCHANGED <<filled, wire>>

\* q more shares of o are filled, and the report is on its way.
Fill(o, q) ==
    /\ live[o]
    /\ filled[o] + q <= qty[o]
    /\ filled' = [filled EXCEPT ![o] = @ + q]
    /\ live' = [live EXCEPT ![o] = filled[o] + q < qty[o]]
    /\ free' = IF side[o] = "BUY" THEN free + q ELSE free
    /\ wire' = Append(wire, [no |-> o, qty |-> q, upTo |-> filled[o] + q])
    /\ UNCHANGED <<nextNo, side, qty>>

\* The orders of S stop working.  A SELL order gives its unsold shares back;
\* at most one of S is a SELL order.
Close(S) ==
    /\ live' = [o \in OrdNos |-> live[o] /\ o \notin S]
    /\ \/ /\ \A o \in S : live[o] => side[o] = "BUY"
          /\ free' = free
       \/ \E o \in S : /\ S = {o}
                       /\ live[o]
                       /\ side[o] = "SELL"
                       /\ filled[o] <= qty[o]
                       /\ free' = free + (qty[o] - filled[o])
    /\ UNCHANGED <<nextNo, side, qty, filled, wire>>

\* The engine takes the oldest report off the wire.
Receive(r) ==
    /\ wire # <<>>
    /\ r = Head(wire)
    /\ wire' = Tail(wire)
    /\ UNCHANGED <<nextNo, side, qty, filled, live, free>>
=============================================================================
