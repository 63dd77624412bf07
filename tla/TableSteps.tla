----------------------------- MODULE TableSteps -----------------------------
(***************************************************************************)
(* The states a table may take, seen from outside: who sits at it and who  *)
(* watches, its stage, when the stage may change and who is gone by then.  *)
(* Cards, points, deadlines and the identity of bots are hidden.           *)
(*                                                                         *)
(* TableContract makes a specification of one table of them, which         *)
(* TressetteRefinement compares with the table of the code; Lobby puts     *)
(* several together.                                                       *)
(***************************************************************************)
EXTENDS Naturals, FiniteSets, FiniteSetsExt

CONSTANTS
    Users,          \* the people
    NoOne,          \* an empty seat
    Robot,          \* a seat taken by a bot
    PlayerMode      \* the number of seats

ASSUME ContractAssumption ==
    /\ NoOne \notin Users
    /\ Robot \notin Users \cup {NoOne}
    /\ PlayerMode \in {2, 4}

Places == 0..(PlayerMode - 1)

\* "Cleared" is the part of Ended after the kick; "Gone": the registry has dropped the table.
Stages == {"Waiting", "PreparingStart", "Playing", "Ended", "Cleared", "Gone"}

TableType == [stage : Stages,
              seat : [Places -> Users \cup {Robot, NoOne}],
              viewers : SUBSET Users]

SeatedAt(t) == {t.seat[i] : i \in Places} \ {NoOne}
PeopleAt(t) == (SeatedAt(t) \cup t.viewers) \ {Robot}
FreePlaces(t) == {i \in Places : t.seat[i] = NoOne}
Full(t) == FreePlaces(t) = {}
-----------------------------------------------------------------------------
(* What people do to a table *)

\* The constructor and the creator's try_join.
Opened(u) == [stage |-> "Waiting",
              seat |-> [i \in Places |-> IF i = 0 THEN u ELSE NoOne],
              viewers |-> {}]

\* try_join: the first free seat, else a place among the viewers.
Seating(t, w) ==
    IF Full(t) THEN [t EXCEPT !.viewers = @ \cup {w}]
    ELSE [t EXCEPT !.seat[Min(FreePlaces(t))] = w, !.viewers = @ \ {w}]

\* user_leave of everybody in leavers; a countdown is over when somebody goes.
Without(t, leavers) ==
    [stage |-> IF t.stage = "PreparingStart" /\ leavers \cap (SeatedAt(t) \cup t.viewers) # {}
               THEN "Waiting" ELSE t.stage,
     seat |-> [i \in Places |-> IF t.seat[i] \in leavers THEN NoOne ELSE t.seat[i]],
     viewers |-> t.viewers \ leavers]

\* A request to leave, or the loss of the connection: a player stays to the end of the game.
HeldInGame(t, u) == t.stage = "Playing" /\ u \in SeatedAt(t)
Leaving(t, u) == IF HeldInGame(t, u) THEN t ELSE Without(t, {u})
-----------------------------------------------------------------------------
(* What time does to a table *)

GameOver(t) == {[t EXCEPT !.stage = "Ended"] : s \in {"Playing"} \cap {t.stage}}

\* update_users_staying_endgame: the bots, and any of the players (those who have asked to go
\* and those on autoplay).
Kicking(t) ==
    {Without([t EXCEPT !.stage = "Cleared"], gone \cup {Robot}) :
        gone \in IF t.stage = "Ended" THEN SUBSET (SeatedAt(t) \cap Users) ELSE {}}

Resuming(t) ==
    {[t EXCEPT !.stage = IF Full(t) THEN "PreparingStart" ELSE "Waiting"] :
        s \in {"Cleared"} \cap {t.stage}}

\* Slip: a bot comes whether there is room or not.
PassingCrowded(t) == IF t.stage = "Waiting" THEN {t, Seating(t, Robot)} ELSE {t} \cup GameOver(t)

\* One pass of the rest of loop(): a full table that waits goes into the countdown, one that
\* is not full may get a bot, the countdown may end, the hour may pass, a card may be played.
Passing(t) ==
    CASE t.stage = "Waiting" /\ Full(t) -> {[t EXCEPT !.stage = "PreparingStart"]}
      [] t.stage = "Waiting" /\ ~Full(t) /\ PeopleAt(t) # {} -> {t, Seating(t, Robot)}
      [] t.stage = "PreparingStart" /\ Full(t) -> {t, [t EXCEPT !.stage = "Playing"]}
      [] OTHER -> {t} \cup GameOver(t)

\* should_destroy() at the end of an update, and the registry's answer to it.
Closing(t, connected) ==
    IF PeopleAt(t) \cap connected = {} THEN [t EXCEPT !.stage = "Gone"] ELSE t

\* All that one update of the registry may make of a table: what is due, then the rest.
Looping(t, connected) ==
    LET due == {t} \cup Kicking(t)
        resumed == due \cup UNION {Resuming(r) : r \in due}
    IN {Closing(p, connected) : p \in UNION {Passing(r) : r \in resumed}}
=============================================================================
