------------------------ MODULE MCTressetteOffline ------------------------
(* TressetteOffline under TLC: a deck of twelve cards, three to a hand, and some of its orders. *)
EXTENDS TressetteOffline

\* Three suits of four, one of them two longer: a hand may follow, or not.
TwelveCards == <<0, 8, 16, 36, 1, 9, 17, 33, 2, 6, 4, 12>>

\* Bound: orders spread over all, by the multiples of each number modulo 13.
SomeOrders == {[i \in 1..12 |-> TwelveCards[(k * i) % 13]] : k \in 1..6}
===========================================================================
