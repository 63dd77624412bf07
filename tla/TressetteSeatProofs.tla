------------------------ MODULE TressetteSeatProofs ------------------------
(***************************************************************************)
(* Who sits where: nobody is at the table twice and no bot is leaked, a    *)
(* game keeps its seats full and its players from start to end, and whom   *)
(* the end of a game must remove is gone before the next countdown.        *)
(*                                                                         *)
(* The argument is about the queue of delayed tasks.  A kick and a start   *)
(* of the next game are only queued in state Ended, there is one start and *)
(* it is due after the kick; so neither can strike a game that is on, and  *)
(* the start always finds the kick done.                                   *)
(***************************************************************************)
EXTENDS TressetteTypeProofs

\* The end of a game queues one kick and, later, one start of the next game; they run
\* before the table leaves Ended, and once the kick has run whom it removes stay away.
Queue ==
    /\ \A t \in tasks : t.kind \in {"kick", "next"} => state = "Ended"
    /\ \A t, o \in tasks : t.kind = "next" /\ o.kind = "next" => t = o
    /\ \A t, o \in tasks : t.kind = "kick" /\ o.kind = "next" => t.due < o.due
    /\ state = "Ended" /\ (\A t \in tasks : t.kind # "kick") =>
            registerLeave = {} /\ \A i \in Seats : uid[i] \notin Bots /\ ~auto[i]

\* An empty seat is not on autoplay, and a table that is being updated is not yet gone.
Tidy ==
    /\ \A i \in Seats : uid[i] = NoOne => ~auto[i]
    /\ updating => ~destroyed

SeatInv == SeatsFullInGame /\ PlacedOnce /\ WatchersOnline /\ Queue /\ Tidy
-----------------------------------------------------------------------------
(* Steps that leave the seats alone *)

LEMMA SameSeats ==
  ASSUME uid' = uid
  PROVE  /\ Seated' = Seated /\ EmptySeats' = EmptySeats /\ CheckRoomFull' = CheckRoomFull
  BY DEF Seated, EmptySeats, SeatOf, CheckRoomFull

\* A step that changes neither who is where nor the stage of the game.
LEMMA QuietStep ==
  ASSUME SeatInv,
         UNCHANGED <<uid, viewers, freeBots, destroyed, state, inGame, tasks>>,
         updating' => ~destroyed', WatchersOnline',
         \A i \in Seats : auto'[i] => auto[i],
         inGame \/ registerLeave' = registerLeave
  PROVE  SeatInv'
<1>1. SeatsFullInGame'
  BY SameSeats DEF SeatInv, SeatsFullInGame
<1>2. PlacedOnce'
  BY SameSeats DEF SeatInv, PlacedOnce
<1>3. Queue'
  BY DEF SeatInv, Queue, SeatsFullInGame
<1>4. Tidy'
  BY DEF SeatInv, Tidy
<1> QED
  BY <1>1, <1>2, <1>3, <1>4 DEF SeatInv

\* What may happen to the queue while a game is on.
LEMMA GameOn ==
  ASSUME SeatInv, state = "Playing",
         \/ /\ state' = "Playing" /\ inGame' = inGame
            /\ \A t \in tasks' : t \in tasks \/ t.kind \notin {"kick", "next"}
         \/ \E totals : EndGame(totals)
  PROVE  Queue' /\ (inGame' <=> state' = "Playing")
<1>1. \A t \in tasks : t.kind \notin {"kick", "next"}
  BY DEF SeatInv, Queue
<1>2. CASE /\ state' = "Playing" /\ inGame' = inGame
           /\ \A t \in tasks' : t \in tasks \/ t.kind \notin {"kick", "next"}
  <2>1. \A t \in tasks' : t.kind \notin {"kick", "next"}
    BY <1>1, <1>2
  <2> QED
    BY <1>2, <2>1 DEF SeatInv, SeatsFullInGame, Queue
<1>3. ASSUME NEW totals, EndGame(totals) PROVE Queue' /\ (inGame' <=> state' = "Playing")
  <2> DEFINE q == Push(tasks, "kick", KickDelay)
             k == [kind |-> "kick", due |-> KickDelay, id |-> NextId(tasks)]
             n == [kind |-> "next", due |-> NextDelay, id |-> NextId(q)]
  <2>1. state' = "Ended" /\ tasks' = tasks \cup {k} \cup {n}
    BY <1>3 DEF EndGame, Push
  <2>2. k.kind = "kick" /\ n.kind = "next" /\ k.due < n.due
    BY DelayAssumption
  <2>3. inGame' <=> state' = "Playing"
    BY <1>3 DEF EndGame
  <2> HIDE DEF k, n
  <2>4. \A t \in tasks' : t.kind = "kick" => t = k
    BY <1>1, <2>1, <2>2
  <2>5. \A t \in tasks' : t.kind = "next" => t = n
    BY <1>1, <2>1, <2>2
  <2>6. k \in tasks'
    BY <2>1
  <2> QED
    BY <2>1, <2>2, <2>3, <2>4, <2>5, <2>6 DEF Queue
<1> QED
  BY <1>2, <1>3

LEMMA HandlePlayCardStage ==
  ASSUME NEW i, NEW c, MayPlay(i), HandlePlayCard(i, c)
  PROVE  \/ /\ state' = "Playing" /\ inGame' = inGame
            /\ \A t \in tasks' : t \in tasks \/ t.kind \notin {"kick", "next"}
         \/ \E totals : EndGame(totals)
<1>1. CASE UNCHANGED <<playVars, scoreVars, stageVars, tasks>>
  BY <1>1 DEF MayPlay, stageVars
<1>2. ASSUME NEW compared, NEW left, NEW led, EndHand(compared, left, led)
      PROVE  \/ \E totals : EndGame(totals)
             \/ \E endRound : tasks' = AfterTrick(endRound) /\ UNCHANGED <<stageVars, winTeam>>
  BY <1>2 DEF EndHand
<1>3. ASSUME NEW endRound, tasks' = AfterTrick(endRound)
      PROVE  \A t \in tasks' : t \in tasks \/ t.kind \notin {"kick", "next"}
  BY <1>3 DEF AfterTrick, Push
<1>4. CASE PutCard(i, c)
  <2>1. CASE UNCHANGED <<lastWon, scoreVars, stageVars, tasks>>
    BY <2>1 DEF MayPlay, stageVars
  <2>2. CASE \E compared, left, led : EndHand(compared, left, led)
    <3>1. CASE \E totals : EndGame(totals)
      BY <3>1
    <3>2. CASE \E endRound : tasks' = AfterTrick(endRound) /\ UNCHANGED <<stageVars, winTeam>>
      BY <1>3, <3>2 DEF MayPlay, stageVars
    <3> QED
      BY <1>2, <2>2, <3>1, <3>2
  <2> QED
    BY <1>4, <2>1, <2>2 DEF PutCard
<1> QED
  BY <1>1, <1>4 DEF HandlePlayCard
-----------------------------------------------------------------------------
(* Taking and leaving a seat *)

\* A seat taken was empty; with no seat empty nobody is moved.
LEMMA TryJoinSeats ==
  ASSUME uid \in [Seats -> Everyone \cup {NoOne}], NEW u \in Everyone, TryJoin(u)
  PROVE  \/ EmptySeats = {} /\ uid' = uid /\ viewers' = viewers \cup {u}
         \/ /\ \E i \in EmptySeats : i \in Seats /\ uid[i] = NoOne /\ uid' = [uid EXCEPT ![i] = u]
            /\ viewers' = viewers \ {u}
<1>1. EmptySeats \in SUBSET Seats /\ \A i \in EmptySeats : uid[i] = NoOne
  BY DEF EmptySeats, SeatOf
<1>2. EmptySeats # {} => Min(EmptySeats) \in EmptySeats
  BY <1>1, FirstSeat
<1> QED
  BY <1>1, <1>2 DEF TryJoin

\* u \notin Seated takes a seat or goes to watch: everybody is still in one place.
LEMMA TryJoinPlaces ==
  ASSUME uid \in [Seats -> Everyone \cup {NoOne}], NEW u \in Everyone, u \notin Seated,
         u \in Users \/ EmptySeats # {}, viewers \subseteq Users, viewers \cap Seated = {},
         \A i, j \in Seats : uid[i] = uid[j] /\ uid[i] # NoOne => i = j,
         TryJoin(u)
  PROVE  /\ \A i, j \in Seats : uid'[i] = uid'[j] /\ uid'[i] # NoOne => i = j
         /\ viewers' \cap Seated' = {}
         /\ Seated \subseteq Seated' /\ Seated' \subseteq Seated \cup {u}
         /\ u \in Seated' \/ u \in viewers'
         /\ u \in Bots => u \in Seated'
         /\ viewers' \subseteq viewers \cup ({u} \cap Users)
<1>0. u # NoOne
  BY PeopleAssumption DEF Everyone
<1>1. CASE EmptySeats = {} /\ uid' = uid /\ viewers' = viewers \cup {u}
  <2>1. Seated' = Seated
    BY <1>1 DEF Seated
  <2>2. u \in Users
    BY <1>1
  <2>3. viewers' \cap Seated' = {} /\ u \in viewers' /\ u \notin Bots
    BY <1>1, <2>1, <2>2, PeopleAssumption
  <2>4. \A i, j \in Seats : uid'[i] = uid'[j] /\ uid'[i] # NoOne => i = j
    BY <1>1
  <2> QED
    BY <1>1, <2>1, <2>2, <2>3, <2>4
<1>2. ASSUME NEW i \in Seats, uid[i] = NoOne, uid' = [uid EXCEPT ![i] = u], viewers' = viewers \ {u}
      PROVE  /\ \A k, j \in Seats : uid'[k] = uid'[j] /\ uid'[k] # NoOne => k = j
             /\ viewers' \cap Seated' = {}
             /\ Seated' = Seated \cup {u}
  <2>1. \A j \in Seats : uid'[j] = IF j = i THEN u ELSE uid[j]
    BY <1>2
  <2>2. \A j \in Seats : uid[j] # u
    BY <1>0 DEF Seated
  <2>3. Seated' = Seated \cup {u}
    <3>1. Seated' \subseteq Seated \cup {u}
      BY <2>1 DEF Seated
    <3>2. u \in Seated'
      BY <1>0, <2>1 DEF Seated
    <3>3. ASSUME NEW x \in Seated PROVE x \in Seated'
      <4>1. PICK j \in Seats : uid[j] = x /\ x # NoOne
        BY DEF Seated
      <4>2. uid'[j] = x
        BY <1>2, <2>1, <4>1
      <4> QED
        BY <4>1, <4>2 DEF Seated
    <3> QED
      BY <3>1, <3>2, <3>3
  <2>4. viewers' \cap Seated' = {}
    BY <1>2, <2>3
  <2>5. \A k, j \in Seats : uid'[k] = uid'[j] /\ uid'[k] # NoOne => k = j
    BY <1>2, <2>1, <2>2
  <2> QED
    BY <2>3, <2>4, <2>5
<1>3. CASE /\ \E i \in EmptySeats : i \in Seats /\ uid[i] = NoOne /\ uid' = [uid EXCEPT ![i] = u]
           /\ viewers' = viewers \ {u}
  <2>1. PICK i \in Seats : uid[i] = NoOne /\ uid' = [uid EXCEPT ![i] = u]
    BY <1>3
  <2>2. viewers' = viewers \ {u}
    BY <1>3
  <2> QED
    BY <1>2, <2>1, <2>2
<1> QED
  BY <1>1, <1>3, TryJoinSeats

\* Whoever leaves is nowhere, and everybody else stays.
LEMMA UserLeavePlaces ==
  ASSUME uid \in [Seats -> Everyone \cup {NoOne}], NEW leavers, UserLeave(leavers)
  PROVE  /\ \A i \in Seats : uid'[i] = IF uid[i] \in leavers THEN NoOne ELSE uid[i]
         /\ Seated' = Seated \ leavers
         /\ viewers' = viewers \ leavers
         /\ freeBots' = freeBots \cup (Seated \cap Bots \cap leavers)
         /\ PlacedOnce /\ destroyed' = destroyed => PlacedOnce'
<1>1. \A i \in Seats : uid'[i] = IF uid[i] \in leavers THEN NoOne ELSE uid[i]
  BY DEF UserLeave
<1>2. Seated' = Seated \ leavers
  <2>1. Seated' \subseteq Seated \ leavers
    BY <1>1 DEF Seated
  <2>2. ASSUME NEW x \in Seated \ leavers PROVE x \in Seated'
    <3>1. PICK i \in Seats : uid[i] = x /\ x # NoOne
      BY DEF Seated
    <3> QED
      BY <1>1, <3>1 DEF Seated
  <2> QED
    BY <2>1, <2>2
<1>3. viewers' = viewers \ leavers /\ freeBots' = freeBots \cup (Seated \cap Bots \cap leavers)
  BY DEF UserLeave
<1>4. ASSUME PlacedOnce, destroyed' = destroyed PROVE PlacedOnce'
  <2>1. \A i, j \in Seats : uid'[i] = uid'[j] /\ uid'[i] # NoOne => i = j
    BY <1>1, <1>4 DEF PlacedOnce
  <2>2. viewers' \cap Seated' = {} /\ (freeBots' \cap Seated' = {} \/ destroyed')
    BY <1>2, <1>3, <1>4 DEF PlacedOnce
  <2>3. Bots \subseteq freeBots' \cup Seated'
    BY <1>2, <1>3, <1>4 DEF PlacedOnce
  <2> QED
    BY <2>1, <2>2, <2>3 DEF PlacedOnce
<1> QED
  BY <1>1, <1>2, <1>3, <1>4

\* Somebody who is not held by a game leaves, by request or by losing the connection.
LEMMA LeaveStep ==
  ASSUME TypeInv, SeatInv, NEW u \in Users, ~StaysSeated(u), UserLeave({u}),
         UNCHANGED <<destroyed, updating, tasks, mute>>,
         (online \ mute) \ {u} \subseteq online'
  PROVE  SeatInv' /\ (inGame => uid' = uid)
<1>0. uid \in [Seats -> Everyone \cup {NoOne}]
  BY DEF TypeInv, TypeOK
<1>1. PlacedOnce'
  BY <1>0, UserLeavePlaces DEF SeatInv
<1>2. inGame => uid' = uid
  <2> SUFFICES ASSUME inGame PROVE uid' = uid
    OBVIOUS
  <2>1. \A i \in Seats : uid[i] # u
    BY DEF StaysSeated, IsPlayer, SeatOf
  <2>2. uid' = [i \in Seats |-> IF uid[i] \in {u} THEN NoOne ELSE uid[i]]
    BY DEF UserLeave
  <2> QED
    BY <1>0, <2>1, <2>2
<1>3. /\ inGame' = inGame /\ (state' = "Playing" <=> state = "Playing")
      /\ (state' = "Ended" <=> state = "Ended")
  BY DEF UserLeave
<1>4. SeatsFullInGame'
  BY <1>2, <1>3, SameSeats DEF SeatInv, SeatsFullInGame
<1>5. WatchersOnline'
  BY DEF SeatInv, WatchersOnline, UserLeave
<1>6. registerLeave = {} => registerLeave' = {}
  BY DEF UserLeave
<1>7. \A i \in Seats : /\ uid'[i] = IF uid[i] = u THEN NoOne ELSE uid[i]
                       /\ auto'[i] => auto[i]
                       /\ uid[i] = u => ~auto'[i]
  BY <1>0, UserLeavePlaces DEF UserLeave
<1>8. NoOne \notin Bots
  BY PeopleAssumption
<1>9. Queue'
  BY <1>3, <1>6, <1>7, <1>8 DEF SeatInv, Queue
<1>10. Tidy'
  BY <1>7 DEF SeatInv, Tidy
<1> QED
  BY <1>1, <1>2, <1>4, <1>5, <1>9, <1>10 DEF SeatInv
-----------------------------------------------------------------------------
(* The steps *)

\* What is proved of every step: the invariant, and the two action properties.
GoodStep ==
    /\ SeatInv'
    /\ inGame /\ inGame' => uid' = uid
    /\ state = "Ended" /\ state' = "PreparingStart" =>
            registerLeave = {} /\ \A i \in Seats : uid[i] \in Users /\ ~auto[i]

LEMMA JoinGood == ASSUME TypeInv, SeatInv, NEW u \in Users, Join(u) PROVE GoodStep
<1>0. /\ uid \in [Seats -> Everyone \cup {NoOne}] /\ viewers \subseteq Users
      /\ u \in Everyone /\ u \notin Bots
  BY PeopleAssumption DEF TypeInv, TypeOK, Everyone
<1>1. u \notin Seated /\ TryJoin(u) /\ u \in online /\ mapped' = mapped \cup {u}
  BY DEF Join, Speaks, IsPlayer, SeatOf, Seated
<1>2. UNCHANGED <<freeBots, state, inGame, updating, destroyed, auto, registerLeave, tasks,
                online, mute>>
  BY DEF Join, stageVars, lifeVars, sessionVars
<1>3. /\ \A i, j \in Seats : uid'[i] = uid'[j] /\ uid'[i] # NoOne => i = j
      /\ viewers' \cap Seated' = {}
      /\ Seated \subseteq Seated' /\ Seated' \subseteq Seated \cup {u}
      /\ viewers' \subseteq viewers \cup ({u} \cap Users)
  BY <1>0, <1>1, TryJoinPlaces DEF SeatInv, PlacedOnce
<1>4. PlacedOnce'
  BY <1>0, <1>2, <1>3 DEF SeatInv, PlacedOnce, TypeInv, TypeOK
<1>5. \/ uid' = uid
      \/ ~CheckRoomFull /\ \E i \in Seats : uid[i] = NoOne /\ uid' = [uid EXCEPT ![i] = u]
  BY <1>0, <1>1, TryJoinSeats DEF CheckRoomFull
<1>6. inGame => uid' = uid
  BY <1>5 DEF SeatInv, SeatsFullInGame
<1>7. SeatsFullInGame'
  BY <1>2, <1>6, SameSeats DEF SeatInv, SeatsFullInGame
<1>8. \A i \in Seats : uid'[i] = uid[i] \/ (uid[i] = NoOne /\ uid'[i] = u)
  BY <1>0, <1>5
<1>9. Queue'
  BY <1>0, <1>2, <1>8 DEF SeatInv, Queue
<1>10. Tidy'
  BY <1>2, <1>8 DEF SeatInv, Tidy
<1>11. WatchersOnline'
  BY <1>1, <1>2, <1>3 DEF SeatInv, WatchersOnline
<1> QED
  BY <1>2, <1>4, <1>6, <1>7, <1>9, <1>10, <1>11 DEF GoodStep, SeatInv

LEMMA HandleRegisterLeaveGameGood ==
  ASSUME TypeInv, SeatInv, NEW u \in Users, NEW register, HandleRegisterLeaveGame(u, register)
  PROVE  GoodStep
<1>1. CASE StaysSeated(u)
  <2>1. inGame /\ UNCHANGED <<seatVars, stageVars, sessionVars, lifeVars, auto, tasks>>
    BY <1>1 DEF HandleRegisterLeaveGame, StaysSeated
  <2>2. SeatInv'
    BY <2>1, QuietStep DEF seatVars, stageVars, sessionVars, lifeVars, SeatInv, Tidy, WatchersOnline
  <2> QED
    BY <2>1, <2>2 DEF GoodStep, seatVars, stageVars
<1>2. CASE ~StaysSeated(u)
  <2>1. UserLeave({u}) /\ UNCHANGED <<destroyed, updating, tasks, online, mute>>
    BY <1>2 DEF HandleRegisterLeaveGame, sessionVars, lifeVars
  <2>2. SeatInv' /\ (inGame => uid' = uid)
    BY <1>2, <2>1, LeaveStep
  <2>3. state' = "PreparingStart" => state = "PreparingStart"
    BY <2>1 DEF UserLeave
  <2> QED
    BY <2>2, <2>3 DEF GoodStep
<1> QED
  BY <1>1, <1>2

\* Steps that touch neither the seats nor the stage.
LEMMA QuietGood ==
  ASSUME TypeInv, SeatInv,
         UNCHANGED <<uid, viewers, freeBots, stageVars, destroyed, registerLeave, tasks>>,
         updating' => ~destroyed', WatchersOnline',
         \A i \in Seats : auto'[i] => auto[i]
  PROVE  GoodStep
<1>1. SeatInv'
  BY QuietStep DEF stageVars
<1> QED
  BY <1>1 DEF GoodStep, stageVars

LEMMA RemoveSessionGood ==
  ASSUME TypeInv, SeatInv, NEW gone \in SUBSET Users, RemoveSession(gone) PROVE GoodStep
<1>1. /\ UNCHANGED <<mute, lifeVars, tasks>> /\ online' = online \ gone
      /\ \A u, v \in gone \ mute : u = v
  BY DEF RemoveSession
<1>2. CASE UNCHANGED <<seatVars, playVars, scoreVars, stageVars, auto, registerLeave>>
  <2>1. \A u \in (gone \ mute) \cap mapped : u \notin viewers
    <3>1. ASSUME NEW u \in (gone \ mute) \cap mapped, UserDisconnect(u) PROVE u \notin viewers
      <4>1. CASE StaysSeated(u)
        BY <4>1, PeopleAssumption DEF StaysSeated, IsPlayer, SeatOf, Seated, SeatInv, PlacedOnce
      <4>2. CASE ~StaysSeated(u)
        BY <1>2, <3>1, <4>2 DEF UserDisconnect, UserLeave, seatVars
      <4> QED
        BY <4>1, <4>2
    <3> QED
      BY <1>1, <3>1 DEF RemoveSession
  <2>2. WatchersOnline'
    BY <1>1, <1>2, <2>1 DEF SeatInv, WatchersOnline, seatVars
  <2> QED
    BY <1>1, <1>2, <2>2, QuietGood DEF seatVars, stageVars, lifeVars, SeatInv, Tidy
<1>3. ASSUME NEW u \in gone, ~StaysSeated(u), UserLeave({u}), (online \ mute) \ {u} \subseteq online'
      PROVE  GoodStep
  <2>1. SeatInv' /\ (inGame => uid' = uid)
    BY <1>1, <1>3, LeaveStep DEF lifeVars
  <2>2. state' = "PreparingStart" => state = "PreparingStart"
    BY <1>3 DEF UserLeave
  <2> QED
    BY <2>1, <2>2 DEF GoodStep
<1> QED
  BY <1>2, <1>3, RemoveSessionCases

LEMMA ClearAutoGood ==
  ASSUME TypeInv, SeatInv, NEW back, ClearAuto(back), UNCHANGED <<online, mute>> PROVE GoodStep
<1>1. UNCHANGED <<seatVars, stageVars, lifeVars, registerLeave, tasks>>
  BY DEF ClearAuto
<1>2. \A i \in Seats : auto'[i] => auto[i]
  BY DEF ClearAuto
<1> QED
  BY <1>1, <1>2, QuietGood DEF seatVars, lifeVars, SeatInv, Tidy, WatchersOnline

\* A card played: autoplay is only taken off, or put on for somebody who is seated.
LEMMA CardStep ==
  ASSUME TypeInv, SeatInv, NEW i \in Seats, NEW c, MayPlay(i), HandlePlayCard(i, c)
  PROVE  /\ Queue' /\ (inGame' <=> state' = "Playing")
         /\ state = "Playing" /\ state' # "PreparingStart"
<1>1. state = "Playing"
  BY DEF MayPlay
<1>2. Queue' /\ (inGame' <=> state' = "Playing")
  BY <1>1, GameOn, HandlePlayCardStage
<1>3. state' \in {"Playing", "Ended"}
  BY HandlePlayCardStage DEF EndGame
<1> QED
  BY <1>1, <1>2, <1>3

LEMMA PlayCardGood ==
  ASSUME TypeInv, SeatInv, NEW u \in Users, NEW c \in Deck, PlayCard(u, c) PROVE GoodStep
<1>1. PICK i \in Seats : /\ MayPlay(i)
                         /\ auto' = [auto EXCEPT ![i] = FALSE]
                         /\ HandlePlayCard(i, c)
  BY DEF PlayCard, SeatOf
<1>2. /\ Queue' /\ (inGame' <=> state' = "Playing")
      /\ state = "Playing" /\ state' # "PreparingStart"
  BY <1>1, CardStep
<1>3. UNCHANGED <<uid, viewers, freeBots, mapped, online, mute, updating, destroyed>>
  BY DEF PlayCard, seatVars, sessionVars, lifeVars
<1>4. SeatsFullInGame'
  BY <1>2, <1>3, SameSeats DEF SeatInv, SeatsFullInGame
<1>5. PlacedOnce' /\ WatchersOnline'
  BY <1>3, SameSeats DEF SeatInv, PlacedOnce, WatchersOnline
<1>6. auto \in [Seats -> BOOLEAN]
  BY DEF TypeInv, TypeOK
<1>7. Tidy'
  BY <1>1, <1>3, <1>6 DEF SeatInv, Tidy
<1> QED
  BY <1>2, <1>3, <1>4, <1>5, <1>7 DEF GoodStep, SeatInv

LEMMA NapoliGood ==
  ASSUME TypeInv, SeatInv, NEW u \in Users, HandleGameActionNapoli(u) PROVE GoodStep
  BY QuietGood
  DEF HandleGameActionNapoli, seatVars, sessionVars, lifeVars, SeatInv, Tidy, WatchersOnline

LEMMA LoginGood ==
  ASSUME TypeInv, SeatInv, NEW entering, NEW silenced, Login(entering, silenced) PROVE GoodStep
<1>1. WatchersOnline'
  BY DEF Login, seatVars, SeatInv, WatchersOnline
<1> QED
  BY <1>1, QuietGood DEF Login, seatVars, lifeVars, SeatInv, Tidy

LEMMA MappedAwayGood ==
  ASSUME TypeInv, SeatInv, NEW u \in Users, MappedAway(u) PROVE GoodStep
<1>1. WatchersOnline'
  BY DEF MappedAway, sessionVars, SeatInv, WatchersOnline
<1> QED
  BY <1>1, QuietGood DEF MappedAway, lifeVars, SeatInv, Tidy

LEMMA UpdateGood == ASSUME TypeInv, SeatInv, Update PROVE GoodStep
  BY QuietGood DEF Update, Handling, seatVars, sessionVars, SeatInv, WatchersOnline

LEMMA TickGood == ASSUME TypeInv, SeatInv, Tick PROVE GoodStep
<1>1. UNCHANGED <<uid, viewers, freeBots, mapped, state, inGame, updating, destroyed, online,
                  mute, auto, registerLeave>>
  BY DEF Tick, seatVars, sessionVars, lifeVars
<1>2. \A t \in tasks : t.due \in Int
  BY DEF TypeInv, TypeOK
<1>3. Queue'
  <2> DEFINE late(t) == [kind |-> t.kind, due |-> t.due - 1, id |-> t.id]
  <2>1. \A t \in tasks' : \E o \in tasks : t = late(o)
    BY DEF Tick
  <2>2. \A o \in tasks : late(o) \in tasks'
    BY DEF Tick
  <2>3. \A o \in tasks : late(o).kind = o.kind /\ late(o).due = o.due - 1
    OBVIOUS
  <2> HIDE DEF late
  <2>4. \A t \in tasks' : t.kind \in {"kick", "next"} => state' = "Ended"
    BY <1>1, <2>1, <2>3 DEF SeatInv, Queue
  <2>5. \A t, o \in tasks' : t.kind = "next" /\ o.kind = "next" => t = o
    BY <2>1, <2>3 DEF SeatInv, Queue
  <2>6. \A t, o \in tasks' : t.kind = "kick" /\ o.kind = "next" => t.due < o.due
    BY <1>2, <2>1, <2>3 DEF SeatInv, Queue
  <2>7. (\A t \in tasks' : t.kind # "kick") => \A t \in tasks : t.kind # "kick"
    BY <2>2, <2>3
  <2> QED
    BY <1>1, <2>4, <2>5, <2>6, <2>7 DEF SeatInv, Queue
<1>4. SeatsFullInGame' /\ PlacedOnce' /\ WatchersOnline' /\ Tidy'
  BY <1>1, SameSeats DEF SeatInv, SeatsFullInGame, PlacedOnce, WatchersOnline, Tidy
<1> QED
  BY <1>1, <1>3, <1>4 DEF GoodStep, SeatInv
-----------------------------------------------------------------------------
(* The delayed tasks *)

\* A task of the game itself: neither the kick nor the start of the next game.
LEMMA GameTaskGood ==
  ASSUME TypeInv, SeatInv, NEW t \in tasks, t.kind \notin {"kick", "next"},
         UNCHANGED <<seatVars, stageVars, auto, registerLeave, sessionVars, lifeVars>>,
         tasks \ {t} \subseteq tasks',
         \A o \in tasks' : o \in tasks \/ o.kind \notin {"kick", "next"}
  PROVE  GoodStep
<1>1. UNCHANGED <<uid, viewers, freeBots, mapped, state, inGame, updating, destroyed, online, mute>>
  BY DEF seatVars, stageVars, sessionVars, lifeVars
<1>2. \A o \in tasks' : o.kind \in {"kick", "next"} => o \in tasks
  OBVIOUS
<1>3. (\A o \in tasks' : o.kind # "kick") => \A o \in tasks : o.kind # "kick"
  OBVIOUS
<1>4. Queue'
  BY <1>1, <1>2, <1>3 DEF SeatInv, Queue
<1>5. SeatsFullInGame' /\ PlacedOnce' /\ WatchersOnline' /\ Tidy'
  BY <1>1, SameSeats DEF SeatInv, SeatsFullInGame, PlacedOnce, WatchersOnline, Tidy
<1> QED
  BY <1>1, <1>4, <1>5 DEF GoodStep, SeatInv

LEMMA GameTasksGood ==
  ASSUME TypeInv, SeatInv, NEW t \in tasks, UNCHANGED <<sessionVars, lifeVars>>,
         HandleNewRound(t) \/ DealCards(t) \/ HandleNewHand(t) \/ HandleDrawCard(t)
  PROVE  GoodStep
<1>1. t.kind \notin {"kick", "next"}
  BY DEF HandleNewRound, DealCards, HandleNewHand, HandleDrawCard
<1>2. UNCHANGED <<seatVars, stageVars, auto, registerLeave>>
  BY DEF HandleNewRound, DealCards, HandleNewHand, HandleDrawCard
<1>3. tasks \ {t} \subseteq tasks' /\ \A o \in tasks' : o \in tasks \/ o.kind \notin {"kick", "next"}
  <2>1. CASE HandleNewRound(t)
    BY <2>1 DEF HandleNewRound, Push
  <2>2. CASE tasks' = tasks \ {t}
    BY <2>2
  <2> QED
    BY <2>1, <2>2 DEF DealCards, HandleNewHand, HandleDrawCard
<1> QED
  BY <1>1, <1>2, <1>3, GameTaskGood

LEMMA KickGood ==
  ASSUME TypeInv, SeatInv, NEW t \in tasks, UNCHANGED <<sessionVars, lifeVars>>,
         UpdateUsersStayingEndgame(t)
  PROVE  GoodStep
<1> DEFINE L == ToKick \ {NoOne}
<1>0. uid \in [Seats -> Everyone \cup {NoOne}] /\ auto \in [Seats -> BOOLEAN]
  BY DEF TypeInv, TypeOK
<1>1. UserLeave(L) /\ tasks' = tasks \ {t} /\ t.kind = "kick"
  BY DEF UpdateUsersStayingEndgame
<1>2. state = "Ended" /\ ~inGame
  BY <1>1 DEF SeatInv, Queue, SeatsFullInGame
<1>3. state' = "Ended" /\ ~inGame'
  BY <1>1, <1>2 DEF UserLeave
<1>4. UNCHANGED <<online, mute, updating, destroyed>>
  BY DEF sessionVars, lifeVars
<1>5. /\ \A i \in Seats : uid'[i] = IF uid[i] \in L THEN NoOne ELSE uid[i]
      /\ viewers' = viewers \ L /\ mapped' = mapped \ L
      /\ PlacedOnce'
  BY <1>0, <1>1, <1>4, UserLeavePlaces DEF SeatInv, UserLeave
<1>6. registerLeave' = {}
  <2>1. registerLeave \subseteq L
    BY PeopleAssumption DEF ToKick, TypeInv, TypeOK
  <2>2. registerLeave' = registerLeave \ L
    BY <1>1 DEF UserLeave
  <2> QED
    BY <2>1, <2>2
<1>7. \A i \in Seats : uid'[i] \notin Bots /\ ~auto'[i]
  <2> TAKE i \in Seats
  <2>1. auto'[i] = (auto[i] /\ ~(uid[i] \in L))
    BY <1>1 DEF UserLeave
  <2>2. CASE uid[i] = NoOne
    <3>1. uid'[i] = NoOne /\ ~auto[i]
      BY <1>5, <2>2 DEF SeatInv, Tidy
    <3> QED
      BY <2>1, <3>1, PeopleAssumption
  <2>3. CASE uid[i] # NoOne /\ (uid[i] \in Bots \/ auto[i])
    <3>1. uid[i] \in L
      BY <2>3 DEF ToKick, Seated
    <3> QED
      BY <1>5, <2>1, <3>1, PeopleAssumption
  <2>4. CASE uid[i] # NoOne /\ uid[i] \notin Bots /\ ~auto[i]
    BY <1>5, <2>1, <2>4, PeopleAssumption
  <2> QED
    BY <2>2, <2>3, <2>4
<1> HIDE DEF L
<1>8. Queue'
  BY <1>1, <1>3, <1>6, <1>7 DEF SeatInv, Queue
<1>9. Tidy' /\ WatchersOnline' /\ SeatsFullInGame'
  BY <1>3, <1>4, <1>5, <1>7 DEF SeatInv, Tidy, WatchersOnline, SeatsFullInGame
<1> QED
  BY <1>2, <1>3, <1>5, <1>8, <1>9 DEF GoodStep, SeatInv

LEMMA NextGameGood ==
  ASSUME TypeInv, SeatInv, NEW t \in tasks, IsNext(t), UNCHANGED <<sessionVars, lifeVars>>,
         NextGame(t)
  PROVE  GoodStep
<1>0. uid \in [Seats -> Everyone \cup {NoOne}] /\ \A o \in tasks : o.due \in Int
  BY DEF TypeInv, TypeOK
<1>1. /\ UNCHANGED <<uid, viewers, freeBots, mapped, inGame, auto, registerLeave, online, mute,
                     updating, destroyed>>
      /\ tasks' = tasks \ {t} /\ t.kind = "next"
      /\ state' \in {"PreparingStart", "Waiting"}
      /\ state' = "PreparingStart" => CheckRoomFull
  BY DEF NextGame, AfterGame, PrepareStartGame, seatVars, sessionVars, lifeVars
<1>2. state = "Ended" /\ ~inGame
  BY <1>1 DEF SeatInv, Queue, SeatsFullInGame
<1>3. \A o \in tasks : o.kind # "kick"
  <2> SUFFICES ASSUME NEW o \in tasks, o.kind = "kick" PROVE FALSE
    OBVIOUS
  <2>1. o.due < t.due
    BY <1>1 DEF SeatInv, Queue
  <2>2. t.due <= o.due
    BY <1>0 DEF IsNext
  <2> QED
    BY <1>0, <2>1, <2>2
<1>4. \A o \in tasks' : o.kind \notin {"kick", "next"}
  BY <1>1, <1>3 DEF SeatInv, Queue
<1>5. Queue'
  BY <1>1, <1>4 DEF Queue
<1>6. SeatsFullInGame' /\ PlacedOnce' /\ WatchersOnline' /\ Tidy'
  BY <1>1, <1>2, SameSeats DEF SeatInv, SeatsFullInGame, PlacedOnce, WatchersOnline, Tidy
<1>7. registerLeave = {} /\ \A i \in Seats : uid[i] \notin Bots /\ ~auto[i]
  BY <1>2, <1>3 DEF SeatInv, Queue
<1>8. state' = "PreparingStart" => \A i \in Seats : uid[i] \in Users
  BY <1>0, <1>1, <1>7 DEF CheckRoomFull, EmptySeats, SeatOf, Everyone
<1> QED
  BY <1>1, <1>2, <1>5, <1>6, <1>7, <1>8 DEF GoodStep, SeatInv

LEMMA RunDueGood == ASSUME TypeInv, SeatInv, RunDue PROVE GoodStep
  BY GameTasksGood, KickGood, NextGameGood DEF RunDue
-----------------------------------------------------------------------------
(* The rest of loop() *)

\* The end of an update keeps everybody in one place, as long as a bot it has seated is
\* from the pool.
LEMMA FinishPlaces ==
  ASSUME TypeInv, SeatInv, FinishUpdate, updating,
         \A i, j \in Seats : uid'[i] = uid'[j] /\ uid'[i] # NoOne => i = j,
         viewers' \cap Seated' = {}, Seated \subseteq Seated'
  PROVE  PlacedOnce' /\ (updating' => ~destroyed')
<1>1. freeBots' = (freeBots \ Seated') \cup (IF destroyed' THEN Seated' \cap Bots ELSE {})
  BY DEF FinishUpdate
<1>2. Bots \subseteq freeBots \cup Seated
  BY DEF SeatInv, PlacedOnce
<1>3. ~updating'
  BY DEF FinishUpdate
<1>4. freeBots' \cap Seated' = {} \/ destroyed'
  BY <1>1
<1>5. Bots \subseteq freeBots' \cup Seated'
  BY <1>1, <1>2
<1> QED
  BY <1>3, <1>4, <1>5 DEF PlacedOnce

LEMMA FinishSamePlaces ==
  ASSUME TypeInv, SeatInv, FinishUpdate, updating, UNCHANGED <<uid, viewers, online, mute>>
  PROVE  PlacedOnce' /\ (updating' => ~destroyed') /\ WatchersOnline'
<1>1. /\ \A i, j \in Seats : uid'[i] = uid'[j] /\ uid'[i] # NoOne => i = j
      /\ viewers' \cap Seated' = {} /\ Seated \subseteq Seated'
  BY SameSeats DEF SeatInv, PlacedOnce
<1>2. PlacedOnce' /\ (updating' => ~destroyed')
  BY <1>1, FinishPlaces
<1>3. mapped' \subseteq mapped
  BY DEF FinishUpdate
<1> QED
  BY <1>2, <1>3 DEF SeatInv, WatchersOnline

\* A branch of loop() in which the game goes on or ends.
LEMMA PlayingLoopGood ==
  ASSUME TypeInv, SeatInv, FinishUpdate, updating, UNCHANGED <<uid, viewers, online, mute>>,
         state = "Playing", state' # "PreparingStart", Queue', inGame' <=> state' = "Playing",
         \A i \in Seats : auto'[i] => auto[i] \/ uid[i] \in Users
  PROVE  GoodStep
<1>1. PlacedOnce' /\ (updating' => ~destroyed') /\ WatchersOnline'
  BY FinishSamePlaces
<1>2. SeatsFullInGame'
  BY SameSeats DEF SeatInv, SeatsFullInGame
<1>3. Tidy'
  BY <1>1, PeopleAssumption DEF SeatInv, Tidy
<1> QED
  BY <1>1, <1>2, <1>3 DEF GoodStep, SeatInv

LEMMA OvertimeGood ==
  ASSUME TypeInv, SeatInv, updating, Overtime, FinishUpdate, UNCHANGED sessionVars PROVE GoodStep
<1>1. state = "Playing" /\ EndGame(teamScores) /\ UNCHANGED <<uid, viewers, auto, online, mute>>
  BY DEF Overtime, sessionVars
<1>2. Queue' /\ (inGame' <=> state' = "Playing")
  BY <1>1, GameOn
<1>3. state' # "PreparingStart"
  BY <1>1 DEF EndGame
<1> QED
  BY <1>1, <1>2, <1>3, PlayingLoopGood

LEMMA AutoPlayGood ==
  ASSUME TypeInv, SeatInv, updating, NEW i \in Seats, AutoPlay(i), FinishUpdate,
         UNCHANGED sessionVars
  PROVE  GoodStep
<1>1. /\ state = "Playing" /\ UNCHANGED <<uid, viewers, online, mute>>
      /\ uid[i] \in Users /\ auto' = [auto EXCEPT ![i] = TRUE] /\ auto \in [Seats -> BOOLEAN]
  BY DEF AutoPlay, sessionVars, TypeInv, TypeOK
<1>2. /\ Queue' /\ (inGame' <=> state' = "Playing")
      /\ state' # "PreparingStart"
  <2>1. CASE MayPlay(i) /\ hand[i] # {}
    <3>1. PICK c \in Responses(hand[i], suit) : HandlePlayCard(i, c)
      BY <2>1 DEF AutoPlay
    <3> QED
      BY <2>1, <3>1, CardStep
  <2>2. CASE UNCHANGED <<playVars, scoreVars, stageVars, tasks>>
    <3>1. state' = state /\ inGame' = inGame /\ tasks' = tasks
      BY <2>2 DEF stageVars
    <3> QED
      BY <1>1, <3>1, GameOn
  <2> QED
    BY <2>1, <2>2 DEF AutoPlay
<1>3. \A j \in Seats : auto'[j] => auto[j] \/ uid[j] \in Users
  BY <1>1
<1> QED
  BY <1>1, <1>2, <1>3, PlayingLoopGood

LEMMA BotPlayCardGood ==
  ASSUME TypeInv, SeatInv, updating, NEW i \in Seats, BotPlayCard(i), FinishUpdate,
         UNCHANGED sessionVars
  PROVE  GoodStep
<1>1. /\ state = "Playing" /\ UNCHANGED <<uid, viewers, online, mute>>
      /\ auto' = [auto EXCEPT ![i] = FALSE] /\ auto \in [Seats -> BOOLEAN]
  BY DEF BotPlayCard, sessionVars, TypeInv, TypeOK
<1>2. PICK c \in BotChoices(i) : MayPlay(i) /\ HandlePlayCard(i, c)
  BY DEF BotPlayCard
<1>3. Queue' /\ (inGame' <=> state' = "Playing") /\ state' # "PreparingStart"
  BY <1>2, CardStep
<1>4. \A j \in Seats : auto'[j] => auto[j]
  BY <1>1
<1> QED
  BY <1>1, <1>3, <1>4, PlayingLoopGood

\* A branch of loop() between two games.
LEMMA IdleLoopGood ==
  ASSUME TypeInv, SeatInv, updating, FinishUpdate, UNCHANGED sessionVars,
         BackToWaiting \/ Prepare \/ Nothing
  PROVE  GoodStep
<1>1. /\ UNCHANGED <<uid, viewers, inGame, auto, registerLeave, tasks, online, mute>>
      /\ \/ state' = state
         \/ {state, state'} \subseteq {"Waiting", "PreparingStart"}
  BY DEF BackToWaiting, Prepare, PrepareStartGame, Nothing, stageVars, sessionVars
<1>2. PlacedOnce' /\ (updating' => ~destroyed') /\ WatchersOnline'
  BY <1>1, FinishSamePlaces
<1>3. SeatsFullInGame' /\ Queue' /\ Tidy'
  BY <1>1, <1>2, SameSeats DEF SeatInv, SeatsFullInGame, Queue, Tidy
<1> QED
  BY <1>1, <1>2, <1>3 DEF GoodStep, SeatInv

LEMMA StartGameGood ==
  ASSUME TypeInv, SeatInv, updating, StartGame, FinishUpdate, UNCHANGED sessionVars PROVE GoodStep
<1>1. /\ state = "PreparingStart" /\ CheckRoomFull /\ state' = "Playing" /\ inGame' = TRUE
      /\ UNCHANGED <<uid, viewers, online, mute>>
      /\ \A i \in Seats : ~auto'[i]
      /\ tasks' = Push(tasks, "new_round", StartDelay)
  BY DEF StartGame, sessionVars
<1>2. PlacedOnce' /\ (updating' => ~destroyed') /\ WatchersOnline'
  BY <1>1, FinishSamePlaces
<1>3. \A t \in tasks' : t.kind \notin {"kick", "next"}
  BY <1>1 DEF SeatInv, Queue, Push
<1>4. Queue' /\ SeatsFullInGame' /\ Tidy'
  BY <1>1, <1>2, <1>3, SameSeats DEF SeatInv, SeatsFullInGame, Queue, Tidy
<1> QED
  BY <1>1, <1>2, <1>4 DEF GoodStep, SeatInv

LEMMA CheckGenBotGood ==
  ASSUME TypeInv, SeatInv, updating, CheckGenBot, FinishUpdate, UNCHANGED sessionVars PROVE GoodStep
<1>0. uid \in [Seats -> Everyone \cup {NoOne}] /\ viewers \subseteq Users /\ freeBots \subseteq Bots
  BY DEF TypeInv, TypeOK
<1>1. PICK b \in freeBots : TryJoin(b)
  BY DEF CheckGenBot
<1>2. /\ b \in Everyone /\ b \in Bots /\ b \notin Users /\ b \notin Seated /\ EmptySeats # {}
      /\ state = "Waiting" /\ ~inGame
      /\ UNCHANGED <<state, inGame, auto, registerLeave, tasks, online, mute>>
  BY <1>0, PeopleAssumption
  DEF CheckGenBot, CheckRoomFull, Everyone, SeatInv, PlacedOnce, Tidy, SeatsFullInGame, stageVars, sessionVars
<1>3. /\ \A i, j \in Seats : uid'[i] = uid'[j] /\ uid'[i] # NoOne => i = j
      /\ viewers' \cap Seated' = {}
      /\ Seated \subseteq Seated'
      /\ viewers' \subseteq viewers
  <2>1. /\ viewers \cap Seated = {}
        /\ \A i, j \in Seats : uid[i] = uid[j] /\ uid[i] # NoOne => i = j
    BY DEF SeatInv, PlacedOnce
  <2> QED
    BY <1>0, <1>1, <1>2, <2>1, TryJoinPlaces
<1>4. PlacedOnce' /\ (updating' => ~destroyed')
  BY <1>3, FinishPlaces
<1>5. \A i \in Seats : uid'[i] = uid[i] \/ uid[i] = NoOne
  BY <1>0, <1>1, <1>2, TryJoinSeats
<1>6. Tidy'
  BY <1>2, <1>4, <1>5 DEF SeatInv, Tidy
<1>7. mapped' \subseteq mapped
  BY DEF FinishUpdate
<1>8. Queue' /\ SeatsFullInGame' /\ WatchersOnline'
  BY <1>2, <1>3, <1>7 DEF SeatInv, Queue, SeatsFullInGame, WatchersOnline
<1> QED
  BY <1>2, <1>4, <1>6, <1>8 DEF GoodStep, SeatInv

LEMMA RestOfLoopGood == ASSUME TypeInv, SeatInv, RestOfLoop PROVE GoodStep
  BY OvertimeGood, AutoPlayGood, BotPlayCardGood, IdleLoopGood, StartGameGood,
     CheckGenBotGood DEF RestOfLoop, BodyStep
-----------------------------------------------------------------------------
(* The theorems *)

LEMMA InitSeats == Init => SeatInv
<1> SUFFICES ASSUME Init PROVE SeatInv
  OBVIOUS
<1>1. PICK u \in Users : uid = [i \in Seats |-> IF i = 0 THEN u ELSE NoOne] /\ mapped = {u}
  BY DEF Init
<1>2. u # NoOne /\ u \notin Bots
  BY PeopleAssumption
<1>3. Seated \subseteq {u} /\ \A i, j \in Seats : uid[i] = uid[j] /\ uid[i] # NoOne => i = j
  BY <1>1 DEF Seated
<1>4. PlacedOnce
  BY <1>2, <1>3 DEF Init, PlacedOnce
<1>5. SeatsFullInGame /\ WatchersOnline /\ Queue /\ Tidy
  BY DEF Init, SeatsFullInGame, WatchersOnline, Queue, Tidy
<1> QED
  BY <1>4, <1>5 DEF SeatInv

LEMMA NextSeats == TypeInv /\ SeatInv /\ [Next]_vars => GoodStep
<1> SUFFICES ASSUME TypeInv, SeatInv, [Next]_vars PROVE GoodStep
  OBVIOUS
<1>1. ASSUME NEW u \in Users, Join(u) \/ HandleViewerEnterMatch(u) PROVE GoodStep
  BY <1>1, JoinGood DEF HandleViewerEnterMatch
<1>2. ASSUME NEW u \in Users, NEW register \in BOOLEAN, HandleRegisterLeaveGame(u, register)
      PROVE  GoodStep
  BY <1>2, HandleRegisterLeaveGameGood
<1>3. ASSUME NEW u \in Users, MappedAway(u) PROVE GoodStep
  BY <1>3, MappedAwayGood
<1>10. ASSUME NEW gone \in SUBSET Users, RemoveSession(gone) PROVE GoodStep
  BY <1>10, RemoveSessionGood
<1>11. ASSUME NEW silenced \in SUBSET Users,
              Login({}, silenced) \/ \E u \in Users : Login({u}, silenced)
       PROVE  GoodStep
  BY <1>11, LoginGood
<1>4. ASSUME NEW u \in Users, LoginSettled(u) \/ UserReturnToTable(u) PROVE GoodStep
  BY <1>4, ClearAutoGood DEF LoginSettled, UserReturnToTable, sessionVars
<1>5. ASSUME NEW u \in Users, NEW c \in Deck, PlayCard(u, c) PROVE GoodStep
  BY <1>5, PlayCardGood
<1>6. ASSUME NEW u \in Users, HandleGameActionNapoli(u) PROVE GoodStep
  BY <1>6, NapoliGood
<1>7. CASE Tick \/ Update \/ RunDue \/ RestOfLoop
  BY <1>7, TickGood, UpdateGood, RunDueGood, RestOfLoopGood
<1>8. CASE UNCHANGED vars
  BY <1>8, QuietGood
  DEF vars, seatVars, stageVars, lifeVars, sessionVars, SeatInv, Tidy, WatchersOnline
<1>9. CASE Gone
  BY <1>8, <1>9 DEF Gone
<1> QED
  BY <1>1, <1>2, <1>3, <1>4, <1>5, <1>6, <1>7, <1>8, <1>9, <1>10, <1>11 DEF Next

\* The inductive invariant: who sits where, and what the end of a game has queued.
THEOREM SeatInvariant == Spec => []SeatInv
<1>1. TypeInv /\ SeatInv /\ [Next]_vars => SeatInv'
  BY NextSeats DEF GoodStep
<1> QED
  BY <1>1, InitSeats, TypeInvariant, PTL DEF Spec

\* A game has all its seats taken, from its start to its end.
THEOREM GameKeepsSeatsFull == Spec => []SeatsFullInGame
<1>1. SeatInv => SeatsFullInGame
  BY DEF SeatInv
<1> QED
  BY <1>1, SeatInvariant, PTL

\* Nobody is at the table twice and no bot is leaked or doubled.
THEOREM EverybodyPlacedOnce == Spec => []PlacedOnce
<1>1. SeatInv => PlacedOnce
  BY DEF SeatInv
<1> QED
  BY <1>1, SeatInvariant, PTL

\* Nobody watches from a lost connection whom the registry leads to the table and whose session
\* was not another's by then: of those alone the table is told.
THEOREM ViewersOnline == Spec => []WatchersOnline
<1>1. SeatInv => WatchersOnline
  BY DEF SeatInv
<1> QED
  BY <1>1, SeatInvariant, PTL

\* No seat changes hands during a game.
THEOREM GameKeepsPlayers == Spec => SeatsKeptInGame
<1>1. TypeInv /\ SeatInv /\ [Next]_vars => [inGame /\ inGame' => uid' = uid]_vars
  BY NextSeats DEF GoodStep
<1> QED
  BY <1>1, SeatInvariant, TypeInvariant, PTL DEF Spec, SeatsKeptInGame

\* Bots, players on autoplay and those who asked to leave are gone before the countdown
\* of the next game.
THEOREM KickComesFirst == Spec => KickedBeforeRematch
<1>1. TypeInv /\ SeatInv /\ [Next]_vars =>
        [state = "Ended" /\ state' = "PreparingStart" =>
            registerLeave = {} /\ \A i \in Seats : uid[i] \in Users /\ ~auto[i]]_vars
  BY NextSeats DEF GoodStep
<1> QED
  BY <1>1, SeatInvariant, TypeInvariant, PTL DEF Spec, KickedBeforeRematch
=============================================================================
