------------------------------ MODULE WireFacts ------------------------------
(***************************************************************************)
(* Facts about the sequence of reports on the wire, which the proofs about *)
(* the modules with a broker use: what taking the oldest report off and    *)
(* adding a new one does to the reports that stay.                         *)
(***************************************************************************)
EXTENDS Integers, Sequences, TLAPS

\* The oldest report is taken: the others move up by one place.
LEMMA WireTake ==
    ASSUME NEW S, NEW w \in Seq(S), w # <<>>
    PROVE  /\ 1 \in DOMAIN w /\ Head(w) = w[1] /\ w[1] \in S
           /\ Tail(w) \in Seq(S)
           /\ \A i \in DOMAIN Tail(w) :
                 i + 1 \in DOMAIN w /\ Tail(w)[i] = w[i + 1]
  OBVIOUS

\* A report is added behind the others.
LEMMA WireAdd ==
    ASSUME NEW S, NEW w \in Seq(S), NEW e \in S
    PROVE  /\ Append(w, e) \in Seq(S)
           /\ \A i \in DOMAIN Append(w, e) :
                 \/ i \in DOMAIN w /\ Append(w, e)[i] = w[i]
                 \/ i = Len(w) + 1 /\ Append(w, e)[i] = e
           /\ \A i \in DOMAIN w : i < Len(w) + 1
  OBVIOUS

\* Places are natural numbers.
LEMMA WirePlaces ==
    ASSUME NEW S, NEW w \in Seq(S)
    PROVE  /\ \A i \in DOMAIN w : i \in Nat /\ i >= 1 /\ w[i] \in S
           /\ Len(w) \in Nat
  OBVIOUS
=============================================================================
