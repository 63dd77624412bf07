------------------------------ MODULE MCScopa ------------------------------
(* Scopa under TLC: a deck of sixteen cards, two hands of three, and some of its orders. *)
EXTENDS Scopa

\* From ace to seven in all suits, the settebello among them: cards that match, and sums in
\* several ways.
SixteenCards == <<0, 24, 1, 21, 26, 8, 15, 6, 9, 17, 12, 3, 27, 4, 18, 23>>

\* Bound: orders spread over all, by the multiples of each number modulo 17, then cut.
SomeOrders ==
    {[i \in 1..16 |-> SixteenCards[(k * (((i + cut) % 16) + 1)) % 17]] : k \in 1..16, cut \in {0, 5}}
=============================================================================
