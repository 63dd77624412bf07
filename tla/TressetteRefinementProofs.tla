--------------------- MODULE TressetteRefinementProofs ---------------------
(***************************************************************************)
(* The table of the code implements the contract the registry relies on:   *)
(* its initial states map to the contract's, and each of its steps maps to *)
(* a step of the contract or leaves what the contract sees as it was.      *)
(*                                                                         *)
(* Beyond who sits where (SeatInv) this rests on three facts.  There is    *)
(* one kick at a time, so that the table is cleared once it has run;       *)
(* whoever has asked to leave sits at the table, so that the kick removes  *)
(* no viewer; and a countdown runs only at a full table, so that it never  *)
(* falls back to waiting by itself.                                        *)
(***************************************************************************)
EXTENDS TressetteRefinement, TressetteSeatProofs

KeptInv ==
    /\ \A t, o \in tasks : t.kind = "kick" /\ o.kind = "kick" => t = o
    /\ registerLeave \subseteq Seated
    /\ state = "PreparingStart" => CheckRoomFull

\* The stage the contract sees.
Alive == IF state = "Ended" /\ ~KickDue THEN "Cleared" ELSE state

\* A table seen from outside.
View(stage, ids, watchers) ==
    [stage |-> stage,
     seat |-> [i \in Seats |-> IF ids[i] \in Bots THEN Robot ELSE ids[i]],
     viewers |-> watchers]
-----------------------------------------------------------------------------
(* What the contract sees *)

LEMMA ShownIs == Shown = View(IF destroyed THEN "Gone" ELSE Alive, uid, viewers)
  BY DEF Shown, View, Alive

LEMMA ViewPeople ==
  ASSUME NEW stage, NEW ids \in [Seats -> Everyone \cup {NoOne}], NEW watchers \in SUBSET Users
  PROVE  /\ \A u \in Users : u \in Contract!SeatedAt(View(stage, ids, watchers)) <=> \E i \in Seats : ids[i] = u
         /\ Contract!PeopleAt(View(stage, ids, watchers)) = ({ids[i] : i \in Seats} \cap Users) \cup watchers
         /\ Contract!FreePlaces(View(stage, ids, watchers)) = {i \in Seats : ids[i] = NoOne}
         /\ View(stage, ids, watchers).stage = stage
<1> DEFINE v == View(stage, ids, watchers)
<1>1. /\ Contract!Places = Seats /\ v.viewers = watchers /\ v.stage = stage
      /\ v.seat = [i \in Seats |-> IF ids[i] \in Bots THEN Robot ELSE ids[i]]
  BY DEF View, Contract!Places, Seats
<1> HIDE DEF v
<1>2. \A i \in Seats : /\ v.seat[i] = IF ids[i] \in Bots THEN Robot ELSE ids[i]
                       /\ ids[i] \in Users \cup Bots \cup {NoOne}
  BY <1>1 DEF Everyone
<1>3. Users \cap Bots = {} /\ NoOne \notin Users \cup Bots /\ Robot \notin Users \cup {NoOne}
  BY PeopleAssumption, RobotAssumption
<1>4. \A i \in Seats : v.seat[i] = NoOne <=> ids[i] = NoOne
  BY <1>2, <1>3
<1>5. \A i \in Seats, u \in Users : v.seat[i] = u <=> ids[i] = u
  BY <1>2, <1>3
<1>6. \A u \in Users : u \in Contract!SeatedAt(v) <=> \E i \in Seats : ids[i] = u
  BY <1>1, <1>3, <1>5 DEF Contract!SeatedAt
<1>7. Contract!FreePlaces(v) = {i \in Seats : ids[i] = NoOne}
  BY <1>1, <1>4 DEF Contract!FreePlaces
<1>8. \A x \in Contract!SeatedAt(v) : x \in Users \cup {Robot}
  BY <1>1, <1>2, <1>3 DEF Contract!SeatedAt
<1>9. Contract!PeopleAt(v) = ({ids[i] : i \in Seats} \cap Users) \cup watchers
  BY <1>1, <1>3, <1>6, <1>8 DEF Contract!PeopleAt
<1> QED
  BY <1>1, <1>6, <1>7, <1>9 DEF v

\* The stage alone changes.
LEMMA ViewStage ==
  ASSUME NEW stage, NEW next, NEW ids, NEW watchers
  PROVE  [View(stage, ids, watchers) EXCEPT !.stage = next] = View(next, ids, watchers)
<1> DEFINE seat == [i \in Seats |-> IF ids[i] \in Bots THEN Robot ELSE ids[i]]
<1>1. \A s : View(s, ids, watchers) = [stage |-> s, seat |-> seat, viewers |-> watchers]
  BY DEF View
<1> HIDE DEF seat
<1>2. [[stage |-> stage, seat |-> seat, viewers |-> watchers] EXCEPT !.stage = next]
        = [stage |-> next, seat |-> seat, viewers |-> watchers]
  OBVIOUS
<1> QED
  BY <1>1, <1>2

LEMMA ViewFull ==
  ASSUME TypeInv, NEW stage
  PROVE  /\ Contract!FreePlaces(View(stage, uid, viewers)) = EmptySeats
         /\ Contract!Full(View(stage, uid, viewers)) <=> CheckRoomFull
         /\ \A u \in Users : u \in Contract!SeatedAt(View(stage, uid, viewers)) <=> IsPlayer(u)
         /\ Contract!PeopleAt(View(stage, uid, viewers)) = (Seated \cap Users) \cup viewers
<1>1. uid \in [Seats -> Everyone \cup {NoOne}] /\ viewers \in SUBSET Users
  BY DEF TypeInv, TypeOK
<1>2. Contract!FreePlaces(View(stage, uid, viewers)) = EmptySeats
  BY <1>1, ViewPeople DEF EmptySeats, SeatOf
<1>3. \A u \in Users : u \in Contract!SeatedAt(View(stage, uid, viewers)) <=> IsPlayer(u)
  BY <1>1, ViewPeople DEF IsPlayer, SeatOf
<1>4. {uid[i] : i \in Seats} \cap Users = Seated \cap Users
  BY PeopleAssumption DEF Seated
<1>5. Contract!PeopleAt(View(stage, uid, viewers)) = (Seated \cap Users) \cup viewers
  BY <1>1, <1>4, ViewPeople
<1> QED
  BY <1>2, <1>3, <1>5 DEF Contract!Full, CheckRoomFull

\* try_join is the contract's Seating.
LEMMA ViewSeating ==
  ASSUME TypeInv, NEW stage, NEW u \in Everyone, TryJoin(u), u \in Users \/ ~CheckRoomFull
  PROVE  View(stage, uid', viewers') =
            Contract!Seating(View(stage, uid, viewers), IF u \in Bots THEN Robot ELSE u)
<1> DEFINE v == View(stage, uid, viewers)
           w == IF u \in Bots THEN Robot ELSE u
<1>0. uid \in [Seats -> Everyone \cup {NoOne}] /\ viewers \in SUBSET Users
  BY DEF TypeInv, TypeOK
<1>1. /\ v.stage = stage /\ v.viewers = viewers
      /\ v.seat = [i \in Seats |-> IF uid[i] \in Bots THEN Robot ELSE uid[i]]
      /\ v = [stage |-> stage, seat |-> v.seat, viewers |-> viewers]
  BY DEF View
<1>2. (Contract!Full(v) <=> EmptySeats = {}) /\ Contract!FreePlaces(v) = EmptySeats
  BY ViewFull DEF CheckRoomFull
<1>3. CASE EmptySeats = {}
  <2>1. u \in Users /\ w = u
    BY <1>3, PeopleAssumption DEF CheckRoomFull
  <2>2. uid' = uid /\ viewers' = viewers \cup {u}
    BY <1>3 DEF TryJoin
  <2>3. Contract!Seating(v, w) = [v EXCEPT !.viewers = @ \cup {w}]
    BY <1>2, <1>3 DEF Contract!Seating
  <2> QED
    BY <2>1, <2>2, <2>3 DEF View
<1>4. CASE EmptySeats # {}
  <2> DEFINE i == Min(EmptySeats)
  <2>1. uid' = [uid EXCEPT ![i] = u] /\ viewers' = viewers \ {u}
    BY <1>4 DEF TryJoin
  <2>2. Contract!Min(EmptySeats) = i
    BY DEF Contract!Min, Min
  <2>3. i \in Seats
    <3>1. EmptySeats \in SUBSET Seats
      BY DEF EmptySeats, SeatOf
    <3> QED
      BY <1>4, <3>1, FirstSeat
  <2>4. Contract!Seating(v, w) = [v EXCEPT !.seat[i] = w, !.viewers = @ \ {w}]
    BY <1>2, <1>4, <2>2 DEF Contract!Seating
  <2> HIDE DEF i
  <2>5. Contract!Seating(v, w) = [stage |-> stage, seat |-> [v.seat EXCEPT ![i] = w], viewers |-> viewers \ {w}]
    BY <1>1, <2>4
  <2>6. viewers \ {w} = viewers \ {u}
    BY <1>0, PeopleAssumption, RobotAssumption DEF Everyone
  <2>7. [v.seat EXCEPT ![i] = w] = [j \in Seats |-> IF uid'[j] \in Bots THEN Robot ELSE uid'[j]]
    BY <1>0, <1>1, <2>1, <2>3
  <2> QED
    BY <2>1, <2>5, <2>6, <2>7 DEF View
<1> QED
  BY <1>3, <1>4
\* user_leave is the contract's Without, if both remove the same people.
LEMMA ViewWithout ==
  ASSUME TypeInv, NEW stage, NEW leavers, NEW gone, UserLeave(leavers),
         NoOne \notin leavers, NoOne \notin gone,
         \A i \in Seats : uid[i] \in leavers <=> (IF uid[i] \in Bots THEN Robot ELSE uid[i]) \in gone,
         \A u \in Users : u \in leavers <=> u \in gone
  PROVE  Contract!Without(View(stage, uid, viewers), gone)
           = View(IF stage = "PreparingStart" /\ leavers \cap (Seated \cup viewers) # {}
                  THEN "Waiting" ELSE stage, uid', viewers')
<1> DEFINE v == View(stage, uid, viewers)
           shown(i) == IF uid[i] \in Bots THEN Robot ELSE uid[i]
<1>1. /\ uid \in [Seats -> Everyone \cup {NoOne}] /\ viewers \subseteq Users
      /\ Contract!Places = Seats
  BY DEF TypeInv, TypeOK, Contract!Places, Seats
<1>2. /\ v.stage = stage /\ v.viewers = viewers
      /\ v.seat = [i \in Seats |-> shown(i)]
  BY DEF View
<1>3. Users \cap Bots = {} /\ NoOne \notin Users \cup Bots /\ Robot # NoOne
  BY PeopleAssumption, RobotAssumption
<1>4. /\ uid' = [i \in Seats |-> IF uid[i] \in leavers THEN NoOne ELSE uid[i]]
      /\ viewers' = viewers \ leavers
  BY DEF UserLeave
<1>5. viewers \ gone = viewers'
  BY <1>1, <1>4
<1>6. \A i \in Seats : (uid[i] \in leavers <=> shown(i) \in gone) /\ (uid[i] = NoOne <=> shown(i) = NoOne)
  BY <1>3
<1>7. [i \in Seats |-> IF v.seat[i] \in gone THEN NoOne ELSE v.seat[i]]
        = [i \in Seats |-> IF uid'[i] \in Bots THEN Robot ELSE uid'[i]]
  <2>1. \A i \in Seats : (IF shown(i) \in gone THEN NoOne ELSE shown(i)) = IF uid'[i] \in Bots THEN Robot ELSE uid'[i]
    BY <1>3, <1>4
  <2> QED
    BY <1>2, <2>1
<1> HIDE DEF shown, v
<1>8. gone \cap Contract!SeatedAt(v) # {} <=> leavers \cap Seated # {}
  <2>1. Contract!SeatedAt(v) = {shown(i) : i \in Seats} \ {NoOne}
    BY <1>1, <1>2 DEF Contract!SeatedAt
  <2>2. gone \cap Contract!SeatedAt(v) # {} <=> \E i \in Seats : shown(i) \in gone
    BY <1>3, <1>6, <2>1
  <2>3. leavers \cap Seated # {} <=> \E i \in Seats : uid[i] \in leavers
    BY DEF Seated
  <2> QED
    BY <1>6, <2>2, <2>3
<1>9. gone \cap viewers # {} <=> leavers \cap viewers # {}
  BY <1>1
<1>10. gone \cap (Contract!SeatedAt(v) \cup v.viewers) # {} <=> leavers \cap (Seated \cup viewers) # {}
  BY <1>2, <1>8, <1>9
<1>11. Contract!Without(v, gone) =
         [stage |-> IF stage = "PreparingStart" /\ leavers \cap (Seated \cup viewers) # {}
                    THEN "Waiting" ELSE stage,
          seat |-> [i \in Seats |-> IF uid'[i] \in Bots THEN Robot ELSE uid'[i]],
          viewers |-> viewers']
  BY <1>1, <1>2, <1>5, <1>7, <1>10 DEF Contract!Without
<1> QED
  BY <1>11 DEF View, v
-----------------------------------------------------------------------------
(* Steps the contract does not see *)

\* What is proved of every step.
Keeps == KeptInv' /\ [Contract!Next]_<<Shown, online>>

\* The contract only acts at a table that is there.
LEMMA ShownHere ==
  ASSUME TypeInv, ~destroyed
  PROVE  Shown = View(Alive, uid, viewers) /\ Shown.stage = Alive /\ Shown.stage # "Gone"
<1>1. Shown = View(Alive, uid, viewers)
  BY ShownIs
<1>2. Alive # "Gone"
  BY DEF Alive, TypeInv, TypeOK, States
<1> QED
  BY <1>1, <1>2 DEF View

LEMMA SameShown ==
  ASSUME UNCHANGED <<uid, viewers, destroyed, state, online>>, KickDue' = KickDue
  PROVE  UNCHANGED <<Shown, online>>
  BY DEF Shown

LEMMA SameKick ==
  ASSUME NEW q, NEW r, \A t \in r : t.kind = "kick" => t \in q, \A t \in q : t.kind = "kick" => t \in r
  PROVE  (\E t \in q : t.kind = "kick") = (\E t \in r : t.kind = "kick")
  OBVIOUS

\* Neither the seats nor the stage nor the kick is touched.
LEMMA QuietKeeps ==
  ASSUME KeptInv, UNCHANGED <<uid, viewers, destroyed, state, online>>,
         registerLeave' \subseteq registerLeave \cup Seated,
         \A t \in tasks' : t.kind = "kick" => t \in tasks,
         \A t \in tasks : t.kind = "kick" => t \in tasks'
  PROVE  Keeps
<1>1. KickDue' = KickDue
  BY DEF KickDue
<1>2. KeptInv'
  BY SameSeats DEF KeptInv
<1> QED
  BY <1>1, <1>2, SameShown DEF Keeps

LEMMA ClearAutoKeeps ==
  ASSUME KeptInv, NEW back, ClearAuto(back), online' = online PROVE Keeps
  BY QuietKeeps DEF ClearAuto, seatVars, stageVars, lifeVars

LEMMA NapoliKeeps == ASSUME KeptInv, NEW u, HandleGameActionNapoli(u) PROVE Keeps
  BY QuietKeeps DEF HandleGameActionNapoli, seatVars, stageVars, sessionVars, lifeVars

LEMMA UpdateKeeps == ASSUME KeptInv, Update PROVE Keeps
  BY QuietKeeps DEF Update, seatVars, stageVars, sessionVars

LEMMA TickKeeps == ASSUME KeptInv, Tick PROVE Keeps
<1> DEFINE late(t) == [kind |-> t.kind, due |-> t.due - 1, id |-> t.id]
<1>1. UNCHANGED <<uid, viewers, destroyed, state, online, registerLeave>>
  BY DEF Tick, seatVars, sessionVars, lifeVars
<1>2. (\A t \in tasks' : \E o \in tasks : t = late(o)) /\ (\A o \in tasks : late(o) \in tasks')
  BY DEF Tick
<1>3. \A o \in tasks : late(o).kind = o.kind
  OBVIOUS
<1> HIDE DEF late
<1>4. KickDue' = KickDue
  BY <1>2, <1>3 DEF KickDue
<1>5. \A t, o \in tasks' : t.kind = "kick" /\ o.kind = "kick" => t = o
  BY <1>2, <1>3 DEF KeptInv
<1>6. KeptInv'
  BY <1>1, <1>5, SameSeats DEF KeptInv
<1> QED
  BY <1>1, <1>4, <1>6, SameShown DEF Keeps

\* A task of the game itself.
LEMMA GameTaskKeeps ==
  ASSUME KeptInv, NEW t \in tasks, UNCHANGED <<sessionVars, lifeVars>>,
         HandleNewRound(t) \/ DealCards(t) \/ HandleNewHand(t) \/ HandleDrawCard(t)
  PROVE  Keeps
<1>1. t.kind # "kick" /\ UNCHANGED <<seatVars, stageVars, registerLeave>>
  BY DEF HandleNewRound, DealCards, HandleNewHand, HandleDrawCard
<1>2. /\ \A o \in tasks' : o.kind = "kick" => o \in tasks
      /\ \A o \in tasks : o.kind = "kick" => o \in tasks'
  <2>1. CASE HandleNewRound(t)
    BY <1>1, <2>1 DEF HandleNewRound, Push
  <2>2. CASE tasks' = tasks \ {t}
    BY <1>1, <2>2
  <2> QED
    BY <2>1, <2>2 DEF DealCards, HandleNewHand, HandleDrawCard
<1> QED
  BY <1>1, <1>2, QuietKeeps DEF seatVars, stageVars, sessionVars, lifeVars
-----------------------------------------------------------------------------
(* What people do *)

LEMMA MappedAwayKeeps == ASSUME KeptInv, NEW u, MappedAway(u) PROVE Keeps
  BY QuietKeeps DEF MappedAway, stageVars, sessionVars, lifeVars

\* Only a login that comes in is the contract's: one that merely silences others is a stutter.
LEMMA LoginKeeps ==
  ASSUME TypeInv, KeptInv, NEW entering, entering = {} \/ \E u \in Users : entering = {u},
         NEW silenced, Login(entering, silenced)
  PROVE  Keeps
<1>1. /\ ~destroyed /\ UNCHANGED <<uid, viewers, destroyed, state, registerLeave, tasks>>
      /\ online' = online \cup entering
  BY DEF Login, Handling, seatVars, stageVars, lifeVars
<1>2. Shown' = Shown
  BY <1>1 DEF Shown, KickDue
<1>3. KeptInv'
  BY <1>1, SameSeats DEF KeptInv
<1>4. [Contract!Next]_<<Shown, online>>
  <2>1. CASE entering = {}
    BY <1>1, <1>2, <2>1
  <2>2. ASSUME NEW u \in Users, entering = {u} PROVE Contract!Next
    BY <1>1, <1>2, <2>2, ShownHere DEF Contract!Next, Contract!Connect
  <2> QED
    BY <2>1, <2>2
<1> QED
  BY <1>3, <1>4 DEF Keeps

LEMMA JoinKeeps == ASSUME TypeInv, SeatInv, KeptInv, NEW u \in Users, Join(u) PROVE Keeps
<1>0. /\ uid \in [Seats -> Everyone \cup {NoOne}] /\ viewers \subseteq Users
      /\ u \in Everyone /\ u \notin Bots
  BY PeopleAssumption DEF TypeInv, TypeOK, Everyone
<1>1. /\ ~destroyed /\ UNCHANGED <<destroyed, state, registerLeave, tasks, online>>
      /\ u \in online /\ ~IsPlayer(u) /\ TryJoin(u)
  BY DEF Join, Speaks, Handling, stageVars, sessionVars, lifeVars
<1>2. Shown = View(Alive, uid, viewers) /\ Shown.stage # "Gone"
  BY <1>1, ShownHere
<1>3. Alive' = Alive /\ Shown' = View(Alive, uid', viewers')
  BY <1>1, ShownIs DEF Shown, View, Alive, KickDue
<1>4. Shown' = Contract!Seating(Shown, u)
  BY <1>0, <1>1, <1>2, <1>3, ViewSeating
<1>5. u \notin Contract!SeatedAt(Shown)
  BY <1>1, <1>2, ViewFull
<1>6. Contract!Next
  BY <1>1, <1>2, <1>4, <1>5 DEF Contract!Next, Contract!Join
<1>7. Seated \subseteq Seated'
  <2>1. u \notin Seated
    BY <1>1 DEF IsPlayer, SeatOf, Seated
  <2> QED
    BY <1>0, <1>1, <2>1, TryJoinPlaces DEF SeatInv, PlacedOnce
<1>8. CheckRoomFull => uid' = uid
  BY <1>0, <1>1, TryJoinSeats DEF CheckRoomFull
<1>9. KeptInv'
  BY <1>1, <1>7, <1>8, SameSeats DEF KeptInv
<1> QED
  BY <1>6, <1>9 DEF Keeps

\* Who leaves breaks off the countdown, and takes the wish to leave along.
LEMMA UserLeaveKept ==
  ASSUME TypeInv, KeptInv, NEW leavers, UserLeave(leavers), tasks' \subseteq tasks,
         leavers \subseteq Everyone
  PROVE  KeptInv'
<1>1. Seated' = Seated \ leavers /\ registerLeave' = registerLeave \ leavers
  BY UserLeavePlaces DEF UserLeave, TypeInv, TypeOK
<1>2. ASSUME state' = "PreparingStart" PROVE CheckRoomFull'
  <2>1. state = "PreparingStart" /\ leavers \cap (Seated \cup viewers) = {}
    BY <1>2 DEF UserLeave
  <2>2. \A i \in Seats : uid[i] \notin leavers
    BY <2>1, PeopleAssumption DEF Seated, Everyone
  <2>3. uid' = uid
    BY <2>2 DEF UserLeave, TypeInv, TypeOK
  <2> QED
    BY <2>1, <2>3, SameSeats DEF KeptInv
<1> QED
  BY <1>1, <1>2 DEF KeptInv

\* Somebody leaves, by request or with the connection: unless held by a game.
LEMMA LeavingShown ==
  ASSUME TypeInv, SeatInv, ~destroyed, NEW u \in Users,
         UNCHANGED <<destroyed, tasks>>,
         IF StaysSeated(u) THEN UNCHANGED <<seatVars, stageVars>> ELSE UserLeave({u})
  PROVE  Shown' = Contract!Leaving(Shown, u)
<1>1. Shown = View(Alive, uid, viewers) /\ Shown.stage = Alive
  BY ShownHere
<1>2. Shown' = View(Alive', uid', viewers')
  BY ShownIs DEF Shown, View, Alive, KickDue
<1>3. StaysSeated(u) <=> Contract!HeldInGame(Shown, u)
  BY <1>1, ViewFull DEF StaysSeated, Contract!HeldInGame, SeatInv, SeatsFullInGame, Alive
<1>4. CASE StaysSeated(u)
  <2>1. Shown' = Shown
    BY <1>4 DEF Shown, KickDue, seatVars, stageVars
  <2> QED
    BY <1>3, <1>4, <2>1 DEF Contract!Leaving
<1>5. CASE ~StaysSeated(u)
  <2>1. UserLeave({u}) /\ u # NoOne /\ u \notin Bots /\ u # Robot
    BY <1>5, PeopleAssumption, RobotAssumption
  <2>2. \A i \in Seats : uid[i] \in {u} <=> (IF uid[i] \in Bots THEN Robot ELSE uid[i]) \in {u}
    BY <2>1
  <2>3. Contract!Without(Shown, {u})
          = View(IF Alive = "PreparingStart" /\ {u} \cap (Seated \cup viewers) # {}
                 THEN "Waiting" ELSE Alive, uid', viewers')
    BY <1>1, <2>1, <2>2, ViewWithout
  <2>4. Alive' = IF Alive = "PreparingStart" /\ {u} \cap (Seated \cup viewers) # {}
                 THEN "Waiting" ELSE Alive
    BY <2>1 DEF Alive, KickDue, UserLeave
  <2> QED
    BY <1>2, <1>3, <1>5, <2>3, <2>4 DEF Contract!Leaving
<1> QED
  BY <1>4, <1>5

LEMMA HandleRegisterLeaveGameKeeps ==
  ASSUME TypeInv, SeatInv, KeptInv, NEW u \in Users, NEW register,
         HandleRegisterLeaveGame(u, register)
  PROVE  Keeps
<1>1. /\ ~destroyed /\ u \in online /\ HasUser(u) /\ UNCHANGED <<destroyed, tasks, online>>
      /\ IF StaysSeated(u) THEN UNCHANGED <<seatVars, stageVars>> ELSE UserLeave({u})
  BY DEF HandleRegisterLeaveGame, Heard, Speaks, Handling, lifeVars, sessionVars
<1>2. Shown' = Contract!Leaving(Shown, u)
  BY <1>1, LeavingShown
<1>3. u \in Contract!PeopleAt(Shown)
  <2>1. Contract!PeopleAt(Shown) = (Seated \cap Users) \cup viewers
    BY <1>1, ShownHere, ViewFull
  <2>2. IsPlayer(u) => u \in Seated
    BY PeopleAssumption DEF IsPlayer, SeatOf, Seated
  <2> QED
    BY <1>1, <2>1, <2>2 DEF HasUser
<1>4. Contract!Next
  BY <1>1, <1>2, <1>3, ShownHere DEF Contract!Next, Contract!Leave
<1>5. KeptInv'
  <2>1. CASE StaysSeated(u)
    <3>1. u \in Seated
      BY <2>1, PeopleAssumption DEF StaysSeated, IsPlayer, SeatOf, Seated
    <3>2. registerLeave' \subseteq registerLeave \cup {u} /\ UNCHANGED <<uid, state, tasks>>
      BY <2>1 DEF HandleRegisterLeaveGame, seatVars, stageVars
    <3> QED
      BY <3>1, <3>2, SameSeats DEF KeptInv
  <2>2. CASE ~StaysSeated(u)
    BY <1>1, <2>2, UserLeaveKept DEF Everyone
  <2> QED
    BY <2>1, <2>2
<1> QED
  BY <1>4, <1>5 DEF Keeps

LEMMA RemoveSessionKeeps ==
  ASSUME TypeInv, SeatInv, KeptInv, NEW gone \in SUBSET Users, RemoveSession(gone) PROVE Keeps
<1>1. /\ ~destroyed /\ gone \subseteq online /\ online' = online \ gone
      /\ UNCHANGED <<destroyed, tasks>>
  BY RemoveSessionCases DEF Handling, lifeVars
<1>2. CASE UNCHANGED <<seatVars, stageVars, registerLeave>>
  <2>1. Shown' = Shown
    BY <1>1, <1>2 DEF Shown, KickDue, seatVars, stageVars
  <2>2. Contract!Next
    BY <1>1, <2>1, ShownHere DEF Contract!Next, Contract!Disconnect
  <2>3. KeptInv'
    BY <1>1, <1>2, SameSeats DEF KeptInv, seatVars, stageVars
  <2> QED
    BY <2>2, <2>3 DEF Keeps
<1>3. ASSUME NEW u \in gone, ~StaysSeated(u), UserLeave({u}) PROVE Keeps
  <2>1. Shown' = Contract!Leaving(Shown, u)
    BY <1>1, <1>3, LeavingShown
  <2>2. Contract!Next
    BY <1>1, <2>1, ShownHere DEF Contract!Next, Contract!Disconnect
  <2>3. KeptInv'
    BY <1>1, <1>3, UserLeaveKept DEF Everyone
  <2> QED
    BY <2>2, <2>3 DEF Keeps
<1> QED
  BY <1>2, <1>3, RemoveSessionCases
-----------------------------------------------------------------------------
(* What time does *)

LEMMA HereWhileUpdating ==
  ASSUME TypeInv, SeatInv, updating
  PROVE  Shown = View(Alive, uid, viewers) /\ Shown.stage = Alive /\ Shown.stage # "Gone"
<1>1. ~destroyed
  BY DEF SeatInv, Tidy
<1> QED
  BY <1>1, ShownHere

LEMMA KickKeeps ==
  ASSUME TypeInv, SeatInv, KeptInv, updating, NEW t \in tasks, UNCHANGED <<sessionVars, lifeVars>>,
         UpdateUsersStayingEndgame(t)
  PROVE  Keeps
<1> DEFINE L == ToKick \ {NoOne}
           gone == L \cap Users
           cleared == View("Cleared", uid, viewers)
<1>0. /\ uid \in [Seats -> Everyone \cup {NoOne}] /\ viewers \subseteq Users
      /\ registerLeave \subseteq Users
      /\ Users \cap Bots = {} /\ NoOne \notin Users \cup Bots /\ Robot \notin Users \cup {NoOne}
  BY PeopleAssumption, RobotAssumption DEF TypeInv, TypeOK
<1>1. /\ UserLeave(L) /\ tasks' = tasks \ {t} /\ t.kind = "kick"
      /\ UNCHANGED <<destroyed, online>>
  BY DEF UpdateUsersStayingEndgame, sessionVars, lifeVars
<1>2. state = "Ended" /\ KickDue /\ ~KickDue'
  BY <1>1 DEF SeatInv, Queue, KickDue, KeptInv
<1>3. state' = "Ended" /\ Alive = "Ended" /\ Alive' = "Cleared"
  BY <1>1, <1>2 DEF UserLeave, Alive
<1>4. Shown = View("Ended", uid, viewers) /\ Shown' = View("Cleared", uid', viewers')
  <2>1. ~destroyed
    BY DEF SeatInv, Tidy
  <2> QED
    BY <1>1, <1>3, <2>1, ShownIs DEF Shown, View, Alive
<1>5. L \subseteq Everyone /\ Seated \cap Bots \subseteq L
  BY <1>0 DEF ToKick, Everyone, Seated
<1>6. \A u \in L : u \in Seated
  BY DEF ToKick, Seated, KeptInv
<1>7. \A i \in Seats : uid[i] \in Bots => uid[i] \in L
  BY <1>0, <1>5 DEF Seated
<1> HIDE DEF L
<1>8. gone \in SUBSET (Contract!SeatedAt(Shown) \cap Users)
  <2>1. \A u \in gone : \E i \in Seats : uid[i] = u
    BY <1>6 DEF Seated
  <2> QED
    BY <1>0, <1>4, <2>1, ViewPeople
<1>9. Contract!Without(cleared, gone \cup {Robot}) = View("Cleared", uid', viewers')
  <2>1. NoOne \notin L /\ NoOne \notin gone \cup {Robot}
    BY <1>0 DEF L
  <2>2. \A i \in Seats : uid[i] \in L <=> (IF uid[i] \in Bots THEN Robot ELSE uid[i]) \in gone \cup {Robot}
    BY <1>0, <1>7, <2>1 DEF Everyone
  <2>3. \A u \in Users : u \in L <=> u \in gone \cup {Robot}
    BY <1>0
  <2> HIDE DEF gone
  <2> QED
    BY <1>1, <2>1, <2>2, <2>3, ViewWithout
<1>10. [Shown EXCEPT !.stage = "Cleared"] = cleared
  BY <1>4, ViewStage
<1>11. Shown.stage = "Ended"
  BY <1>4 DEF View
<1>12. Shown' \in Contract!Kicking(Shown)
  BY <1>4, <1>8, <1>9, <1>10, <1>11 DEF Contract!Kicking
<1>13. Contract!Next
  BY <1>1, <1>11, <1>12 DEF Contract!Next, Contract!Kick
<1>14. KeptInv'
  BY <1>1, <1>5, UserLeaveKept
<1> QED
  BY <1>13, <1>14 DEF Keeps

LEMMA NextGameKeeps ==
  ASSUME TypeInv, SeatInv, KeptInv, updating, NEW t \in tasks, IsNext(t),
         UNCHANGED <<sessionVars, lifeVars>>, NextGame(t)
  PROVE  Keeps
<1>0. \A o \in tasks : o.due \in Int
  BY DEF TypeInv, TypeOK
<1>1. /\ UNCHANGED <<uid, viewers, registerLeave, online, destroyed>>
      /\ tasks' = tasks \ {t} /\ t.kind = "next"
      /\ state' = IF CheckRoomFull THEN "PreparingStart" ELSE "Waiting"
  BY DEF NextGame, AfterGame, PrepareStartGame, seatVars, sessionVars, lifeVars
<1>2. state = "Ended"
  BY <1>1 DEF SeatInv, Queue
<1>3. \A o \in tasks : o.kind # "kick"
  <2> SUFFICES ASSUME NEW o \in tasks, o.kind = "kick" PROVE FALSE
    OBVIOUS
  <2>1. o.due < t.due
    BY <1>1 DEF SeatInv, Queue
  <2>2. t.due <= o.due
    BY <1>0 DEF IsNext
  <2> QED
    BY <1>0, <2>1, <2>2
<1>4. Alive = "Cleared" /\ Alive' = state'
  BY <1>1, <1>2, <1>3 DEF Alive, KickDue
<1>5. Shown = View("Cleared", uid, viewers) /\ Shown.stage = "Cleared"
  BY <1>4, HereWhileUpdating
<1>6. Shown' = View(state', uid, viewers)
  <2>1. ~destroyed
    BY DEF SeatInv, Tidy
  <2> QED
    BY <1>1, <1>4, <2>1, ShownIs DEF Shown, View, Alive
<1>7. Contract!Full(Shown) <=> CheckRoomFull
  BY <1>5, ViewFull
<1>8. Shown' = [Shown EXCEPT !.stage = IF Contract!Full(Shown) THEN "PreparingStart" ELSE "Waiting"]
  <2>1. [Shown EXCEPT !.stage = state'] = View(state', uid, viewers)
    BY <1>5, ViewStage
  <2> QED
    BY <1>1, <1>6, <1>7, <2>1
<1>9. Shown' \in Contract!Resuming(Shown)
  BY <1>5, <1>8 DEF Contract!Resuming
<1>10. Contract!Next
  BY <1>1, <1>5, <1>9 DEF Contract!Next, Contract!Resume
<1>11. KeptInv'
  BY <1>1, <1>3, SameSeats DEF KeptInv
<1> QED
  BY <1>10, <1>11 DEF Keeps

LEMMA RunDueKeeps == ASSUME TypeInv, SeatInv, KeptInv, RunDue PROVE Keeps
  BY GameTaskKeeps, KickKeeps, NextGameKeeps DEF RunDue

\* While a game is on: it goes on, or it is over.
LEMMA GameStage ==
  ASSUME SeatInv, KeptInv, state = "Playing", uid' = uid, registerLeave' = registerLeave,
         \/ /\ state' = "Playing" /\ inGame' = inGame
            /\ \A t \in tasks' : t \in tasks \/ t.kind \notin {"kick", "next"}
         \/ \E totals : EndGame(totals)
  PROVE  KeptInv' /\ Alive = "Playing" /\ Alive' \in {"Playing", "Ended"}
<1>1. \A t \in tasks : t.kind \notin {"kick", "next"}
  BY DEF SeatInv, Queue
<1>2. CASE /\ state' = "Playing"
           /\ \A t \in tasks' : t \in tasks \/ t.kind \notin {"kick", "next"}
  <2>1. \A t \in tasks' : t.kind # "kick"
    BY <1>1, <1>2
  <2> QED
    BY <1>2, <2>1, SameSeats DEF KeptInv, Alive
<1>3. ASSUME NEW totals, EndGame(totals)
      PROVE  KeptInv' /\ Alive = "Playing" /\ Alive' \in {"Playing", "Ended"}
  <2> DEFINE q == Push(tasks, "kick", KickDelay)
             k == [kind |-> "kick", due |-> KickDelay, id |-> NextId(tasks)]
             n == [kind |-> "next", due |-> NextDelay, id |-> NextId(q)]
  <2>1. state' = "Ended" /\ tasks' = tasks \cup {k} \cup {n}
    BY <1>3 DEF EndGame, Push
  <2>2. k.kind = "kick" /\ n.kind = "next"
    OBVIOUS
  <2> HIDE DEF k, n
  <2>3. \A t \in tasks' : t.kind = "kick" => t = k
    BY <1>1, <2>1, <2>2
  <2>4. KickDue'
    BY <2>1, <2>2 DEF KickDue
  <2>5. KeptInv'
    BY <2>1, <2>3, SameSeats DEF KeptInv
  <2> QED
    BY <2>1, <2>4, <2>5 DEF Alive
<1> QED
  BY <1>2, <1>3

LEMMA GameOverIs ==
  ASSUME NEW ids, NEW watchers
  PROVE  Contract!GameOver(View("Playing", ids, watchers)) = {View("Ended", ids, watchers)}
<1> DEFINE v == View("Playing", ids, watchers)
<1>1. v.stage = "Playing"
  BY DEF View
<1>2. [v EXCEPT !.stage = "Ended"] = View("Ended", ids, watchers)
  BY ViewStage
<1> HIDE DEF v
<1>3. Contract!GameOver(v) = {[v EXCEPT !.stage = "Ended"]}
  BY <1>1 DEF Contract!GameOver
<1> QED
  BY <1>2, <1>3 DEF v

LEMMA PlayCardKeeps ==
  ASSUME TypeInv, SeatInv, KeptInv, NEW u \in Users, NEW c \in Deck, PlayCard(u, c) PROVE Keeps
<1>1. PICK i \in Seats : MayPlay(i) /\ HandlePlayCard(i, c)
  BY DEF PlayCard, SeatOf
<1>2. ~destroyed /\ UNCHANGED <<uid, viewers, online, destroyed, registerLeave>>
  BY DEF PlayCard, Handling, seatVars, sessionVars, lifeVars
<1>3. KeptInv' /\ Alive = "Playing" /\ Alive' \in {"Playing", "Ended"}
  <2>1. state = "Playing"
    BY <1>1 DEF MayPlay
  <2> QED
    BY <1>1, <1>2, <2>1, GameStage, HandlePlayCardStage
<1>4. Shown = View("Playing", uid, viewers) /\ Shown.stage # "Gone"
  BY <1>2, <1>3, ShownHere
<1>5. Shown' = View(Alive', uid, viewers)
  BY <1>2, ShownIs DEF Shown, View, Alive
<1>6. CASE Alive' = "Playing"
  BY <1>2, <1>3, <1>4, <1>5, <1>6 DEF Keeps
<1>7. CASE Alive' = "Ended"
  <2>1. Shown' \in Contract!GameOver(Shown)
    BY <1>4, <1>5, <1>7, GameOverIs
  <2>2. Contract!Next
    BY <1>2, <1>4, <2>1 DEF Contract!Next, Contract!LastCard
  <2> QED
    BY <1>3, <2>2 DEF Keeps
<1> QED
  BY <1>3, <1>6, <1>7
-----------------------------------------------------------------------------
(* The rest of loop() *)

\* The end of an update is the contract's Closing: the table goes when nobody at it is online.
LEMMA FinishCloses ==
  ASSUME TypeInv', FinishUpdate, online' = online
  PROVE  Shown' = Contract!Closing(View(Alive', uid', viewers'), online)
<1> DEFINE v == View(Alive', uid', viewers')
<1>1. Shown' = View(IF destroyed' THEN "Gone" ELSE Alive', uid', viewers')
  BY ShownIs DEF Shown, View, Alive
<1>2. uid' \in [Seats -> Everyone \cup {NoOne}] /\ viewers' \in SUBSET Users /\ online \subseteq Users
  BY DEF TypeInv, TypeOK
<1>3. Contract!PeopleAt(v) = ({uid'[i] : i \in Seats} \cap Users) \cup viewers'
  BY <1>2, ViewPeople
<1>4. destroyed' <=> Contract!PeopleAt(v) \cap online = {}
  <2>1. destroyed' <=> (Seated' \cup viewers') \cap online = {}
    BY DEF FinishUpdate, HasOnlineUser
  <2>2. Seated' = {uid'[i] : i \in Seats} \ {NoOne}
    BY DEF Seated
  <2> QED
    BY <1>2, <1>3, <2>1, <2>2, PeopleAssumption
<1>5. [v EXCEPT !.stage = "Gone"] = View("Gone", uid', viewers')
  BY ViewStage
<1> HIDE DEF v
<1>6. Shown' = IF destroyed' THEN [v EXCEPT !.stage = "Gone"] ELSE v
  BY <1>1, <1>5 DEF v
<1>7. Shown' = Contract!Closing(v, online)
  BY <1>4, <1>6 DEF Contract!Closing
<1> QED
  BY <1>7 DEF v

\* A branch of loop() that the contract lets pass.
LEMMA PassKeeps ==
  ASSUME TypeInv, TypeInv', SeatInv, KeptInv', updating, FinishUpdate, online' = online,
         View(Alive', uid', viewers') \in Contract!Passing(Shown)
  PROVE  Keeps
<1>1. Shown' \in {Contract!Closing(p, online) : p \in Contract!Passing(Shown)}
  BY FinishCloses
<1>2. Shown.stage # "Gone"
  BY HereWhileUpdating
<1>3. Contract!Next
  BY <1>1, <1>2 DEF Contract!Next, Contract!Pass
<1> QED
  BY <1>3 DEF Keeps

\* Time passes for a table on which nothing is due.
LEMMA PassingStays ==
  ASSUME NEW t, t.stage = "Waiting" => ~Contract!Full(t)
  PROVE  t \in Contract!Passing(t)
  BY DEF Contract!Passing

LEMMA PlayingPasses ==
  ASSUME TypeInv, SeatInv, updating, Alive = "Playing", Alive' \in {"Playing", "Ended"},
         UNCHANGED <<uid, viewers>>
  PROVE  View(Alive', uid', viewers') \in Contract!Passing(Shown)
<1>1. Shown = View("Playing", uid, viewers) /\ Shown.stage = "Playing"
  BY HereWhileUpdating
<1>2. Contract!Passing(Shown) = {Shown} \cup Contract!GameOver(Shown)
  BY <1>1 DEF Contract!Passing
<1> QED
  BY <1>1, <1>2, GameOverIs

LEMMA PlayingLoopKeeps ==
  ASSUME TypeInv, TypeInv', SeatInv, KeptInv, updating, FinishUpdate, online' = online,
         Overtime \/ \E i \in Seats : AutoPlay(i) \/ BotPlayCard(i)
  PROVE  Keeps
<1>1. state = "Playing" /\ UNCHANGED <<uid, viewers, registerLeave>>
  BY DEF Overtime, AutoPlay, BotPlayCard
<1>2. \/ /\ state' = "Playing" /\ inGame' = inGame
         /\ \A t \in tasks' : t \in tasks \/ t.kind \notin {"kick", "next"}
      \/ \E totals : EndGame(totals)
  <2>1. CASE Overtime
    BY <2>1 DEF Overtime
  <2>2. CASE \E i, c : MayPlay(i) /\ HandlePlayCard(i, c)
    BY <2>2, HandlePlayCardStage
  <2>3. CASE UNCHANGED <<playVars, scoreVars, stageVars, tasks>>
    BY <1>1, <2>3 DEF stageVars
  <2>4. ASSUME NEW i \in Seats, AutoPlay(i) \/ BotPlayCard(i)
        PROVE  \/ \E j, c : MayPlay(j) /\ HandlePlayCard(j, c)
               \/ UNCHANGED <<playVars, scoreVars, stageVars, tasks>>
    BY <2>4 DEF AutoPlay, BotPlayCard
  <2> QED
    BY <2>1, <2>2, <2>3, <2>4
<1>3. KeptInv' /\ Alive = "Playing" /\ Alive' \in {"Playing", "Ended"}
  BY <1>1, <1>2, GameStage
<1> QED
  BY <1>1, <1>3, PlayingPasses, PassKeeps

\* A full table that waits goes into the countdown, one in the countdown plays.
LEMMA GoingOnKeeps ==
  ASSUME TypeInv, TypeInv', SeatInv, KeptInv, updating, FinishUpdate, online' = online,
         Prepare \/ StartGame
  PROVE  Keeps
<1>1. /\ UNCHANGED <<uid, viewers>> /\ CheckRoomFull
      /\ \/ state = "Waiting" /\ state' = "PreparingStart"
         \/ state = "PreparingStart" /\ state' = "Playing"
      /\ registerLeave' \subseteq registerLeave
      /\ \A t \in tasks' : t.kind = "kick" => t \in tasks
  BY DEF Prepare, PrepareStartGame, StartGame, Push
<1>2. KeptInv'
  BY <1>1, SameSeats DEF KeptInv
<1>3. Alive = state /\ Alive' = state'
  BY <1>1 DEF Alive
<1>4. Shown = View(state, uid, viewers) /\ Shown.stage = state
  BY <1>3, HereWhileUpdating
<1>5. [Shown EXCEPT !.stage = state'] = View(state', uid, viewers)
  BY <1>4, ViewStage
<1>6. Contract!Full(Shown)
  BY <1>1, <1>4, ViewFull
<1>7. [Shown EXCEPT !.stage = state'] \in Contract!Passing(Shown)
  <2>1. CASE state = "Waiting" /\ state' = "PreparingStart"
    BY <1>4, <1>6, <2>1 DEF Contract!Passing
  <2>2. CASE state = "PreparingStart" /\ state' = "Playing"
    BY <1>4, <1>6, <2>2 DEF Contract!Passing
  <2> QED
    BY <1>1, <2>1, <2>2
<1>8. View(Alive', uid', viewers') \in Contract!Passing(Shown)
  BY <1>1, <1>3, <1>5, <1>7
<1> QED
  BY <1>2, <1>8, PassKeeps

LEMMA CheckGenBotKeeps ==
  ASSUME TypeInv, TypeInv', SeatInv, KeptInv, updating, FinishUpdate, online' = online, CheckGenBot
  PROVE  Keeps
<1>0. /\ uid \in [Seats -> Everyone \cup {NoOne}] /\ viewers \subseteq Users
      /\ freeBots \subseteq Bots /\ ~destroyed
  BY DEF TypeInv, TypeOK, SeatInv, Tidy
<1>1. PICK b \in freeBots : TryJoin(b)
  BY DEF CheckGenBot
<1>2. /\ state = "Waiting" /\ state' = "Waiting" /\ ~CheckRoomFull
      /\ UNCHANGED <<registerLeave, tasks>>
      /\ Seated \cap Users # {} \/ viewers # {}
      /\ b \in Bots /\ b \in Everyone /\ b \notin Seated
  BY <1>0, <1>1 DEF CheckGenBot, stageVars, Everyone, SeatInv, PlacedOnce
<1>3. Seated \subseteq Seated'
  <2>1. /\ viewers \cap Seated = {} /\ EmptySeats # {}
        /\ \A i, j \in Seats : uid[i] = uid[j] /\ uid[i] # NoOne => i = j
    BY <1>2 DEF SeatInv, PlacedOnce, CheckRoomFull
  <2> QED
    BY <1>0, <1>1, <1>2, <2>1, TryJoinPlaces
<1>4. KeptInv'
  BY <1>2, <1>3 DEF KeptInv
<1>5. Alive = "Waiting" /\ Alive' = "Waiting"
  BY <1>2 DEF Alive
<1>6. Shown = View("Waiting", uid, viewers) /\ Shown.stage = "Waiting"
  BY <1>5, HereWhileUpdating
<1>7. View("Waiting", uid', viewers') = Contract!Seating(Shown, Robot)
  BY <1>1, <1>2, <1>6, ViewSeating
<1>8. ~Contract!Full(Shown) /\ Contract!PeopleAt(Shown) # {}
  BY <1>2, <1>6, ViewFull
<1>9. Contract!Seating(Shown, Robot) \in Contract!Passing(Shown)
  BY <1>6, <1>8 DEF Contract!Passing
<1> QED
  BY <1>4, <1>5, <1>7, <1>9, PassKeeps

LEMMA NothingKeeps ==
  ASSUME TypeInv, TypeInv', SeatInv, KeptInv, updating, FinishUpdate, online' = online, Nothing
  PROVE  Keeps
<1>1. UNCHANGED <<uid, viewers, state, registerLeave, tasks>> /\ (state = "Waiting" => ~CheckRoomFull)
  BY DEF Nothing, stageVars
<1>2. Alive' = Alive
  BY <1>1 DEF Alive, KickDue
<1>3. Shown = View(Alive, uid, viewers) /\ Shown.stage = Alive
  BY HereWhileUpdating
<1>4. Alive = "Waiting" => ~Contract!Full(Shown)
  BY <1>1, <1>3, ViewFull DEF Alive
<1>5. View(Alive', uid', viewers') \in Contract!Passing(Shown)
  BY <1>1, <1>2, <1>3, <1>4, PassingStays
<1>6. KeptInv'
  BY <1>1, SameSeats DEF KeptInv
<1> QED
  BY <1>5, <1>6, PassKeeps

\* A countdown runs at a full table, so it is never taken back here.
LEMMA RestOfLoopKeeps == ASSUME TypeInv, TypeInv', SeatInv, KeptInv, RestOfLoop PROVE Keeps
<1>1. updating /\ FinishUpdate /\ online' = online
  BY DEF RestOfLoop, BodyStep, sessionVars
<1>2. ~BackToWaiting
  BY DEF BackToWaiting, KeptInv
<1> QED
  BY <1>1, <1>2, PlayingLoopKeeps, GoingOnKeeps, CheckGenBotKeeps, NothingKeeps DEF RestOfLoop
-----------------------------------------------------------------------------
(* The theorem *)

LEMMA InitKeeps == Init => KeptInv /\ Contract!Init
<1> SUFFICES ASSUME Init PROVE KeptInv /\ Contract!Init
  OBVIOUS
<1>1. PICK u \in Users : uid = [i \in Seats |-> IF i = 0 THEN u ELSE NoOne] /\ mapped = {u}
  BY DEF Init
<1>2. u \notin Bots /\ NoOne \notin Bots
  BY PeopleAssumption
<1>3. [i \in Seats |-> IF uid[i] \in Bots THEN Robot ELSE uid[i]]
        = [i \in Contract!Places |-> IF i = 0 THEN u ELSE NoOne]
  BY <1>1, <1>2 DEF Seats, Contract!Places
<1>4. Shown = Contract!Opened(u)
  BY <1>3 DEF Init, Shown, Contract!Opened
<1>5. Contract!Init
  BY <1>4 DEF Init, Contract!Init
<1>6. KeptInv
  BY DEF Init, KeptInv
<1> QED
  BY <1>5, <1>6

LEMMA NextKeeps == TypeInv /\ TypeInv' /\ SeatInv /\ KeptInv /\ [Next]_vars => Keeps
<1> SUFFICES ASSUME TypeInv, TypeInv', SeatInv, KeptInv, [Next]_vars PROVE Keeps
  OBVIOUS
<1>1. ASSUME NEW u \in Users, Join(u) \/ HandleViewerEnterMatch(u) PROVE Keeps
  BY <1>1, JoinKeeps DEF HandleViewerEnterMatch
<1>2. ASSUME NEW u \in Users, NEW register \in BOOLEAN, HandleRegisterLeaveGame(u, register)
      PROVE  Keeps
  BY <1>2, HandleRegisterLeaveGameKeeps
<1>3. ASSUME NEW u \in Users, MappedAway(u) PROVE Keeps
  BY <1>3, MappedAwayKeeps
<1>10. ASSUME NEW gone \in SUBSET Users, RemoveSession(gone) PROVE Keeps
  BY <1>10, RemoveSessionKeeps
<1>11. ASSUME NEW silenced \in SUBSET Users,
              Login({}, silenced) \/ \E u \in Users : Login({u}, silenced)
       PROVE  Keeps
  BY <1>11, LoginKeeps
<1>4. ASSUME NEW u \in Users, LoginSettled(u) \/ UserReturnToTable(u) PROVE Keeps
  BY <1>4, ClearAutoKeeps DEF LoginSettled, UserReturnToTable, sessionVars
<1>5. ASSUME NEW u \in Users, NEW c \in Deck, PlayCard(u, c) PROVE Keeps
  BY <1>5, PlayCardKeeps
<1>6. ASSUME NEW u \in Users, HandleGameActionNapoli(u) PROVE Keeps
  BY <1>6, NapoliKeeps
<1>7. CASE Tick \/ Update \/ RunDue \/ RestOfLoop
  BY <1>7, TickKeeps, UpdateKeeps, RunDueKeeps, RestOfLoopKeeps
<1>8. CASE UNCHANGED vars
  BY <1>8, QuietKeeps DEF vars, seatVars, stageVars, lifeVars, sessionVars
<1>9. CASE Gone
  BY <1>8, <1>9 DEF Gone
<1> QED
  BY <1>1, <1>2, <1>3, <1>4, <1>5, <1>6, <1>7, <1>8, <1>9, <1>10, <1>11 DEF Next

\* There is one kick at a time, whoever has asked to leave is seated, and a countdown runs at
\* a full table.
THEOREM KeptInvariant == Spec => []KeptInv
<1>1. TypeInv /\ TypeInv' /\ SeatInv /\ KeptInv /\ [Next]_vars => KeptInv'
  BY NextKeeps DEF Keeps
<1>2. Init => KeptInv
  BY InitKeeps
<1> QED
  BY <1>1, <1>2, SeatInvariant, TypeInvariant, PTL DEF Spec

\* The table implements the contract: whatever is played, claimed, asked or dropped, seats,
\* viewers and stage change only as TableContract says.
THEOREM TableKeepsContract == Spec => KeepsContract
<1>1. TypeInv /\ TypeInv' /\ SeatInv /\ KeptInv /\ [Next]_vars => [Contract!Next]_<<Shown, online>>
  BY NextKeeps DEF Keeps
<1>2. Init => Contract!Init
  BY InitKeeps
<1> QED
  BY <1>1, <1>2, KeptInvariant, SeatInvariant, TypeInvariant, PTL
  DEF Spec, KeepsContract, Contract!Spec
=============================================================================
