------------------------ MODULE TressetteTypeProofs ------------------------
(***************************************************************************)
(* Every variable of a table keeps its type, whatever the people, the      *)
(* cards and the delays, and every trick that is played out has a winner.  *)
(* The two are proved together: that last_won_uid_ is somebody's uid rests *)
(* on the suit led being on the table when end_hand looks for the winner.  *)
(***************************************************************************)
EXTENDS Tressette, FiniteSetTheorems, TLAPS

\* The turn has come from the seat that led, k seats back, over seats that have all played.
Led ==
    state = "Playing" /\ turn # -1 /\ suit # NoSuit =>
        \E lead \in Seats : \E k \in 1..(PlayerMode - 1) :
            /\ turn = (lead + k) % PlayerMode
            /\ \A j \in 0..(k - 1) : table[(lead + j) % PlayerMode] # NoCard
            /\ Suit(table[lead]) = suit

TypeInv == TypeOK /\ Led
-----------------------------------------------------------------------------
(* The seats, the cards and sums over the seats *)

LEMMA SeatsAre == \/ PlayerMode = 2 /\ Seats = {0, 1}
                  \/ PlayerMode = 4 /\ Seats = {0, 1, 2, 3}
  BY DeckAssumption DEF Seats

LEMMA NextSeatIsSeat == ASSUME NEW i \in Seats PROVE NextSeat(i) \in Seats /\ NextSeat(i) # i
  BY SeatsAre DEF NextSeat

LEMMA FirstSeat == ASSUME NEW S \in SUBSET Seats, S # {} PROVE Min(S) \in S
<1>1. \E i \in S : \A j \in S : i <= j
  BY SeatsAre
<1> QED
  BY <1>1 DEF Min

LEMMA BestSeat ==
  ASSUME NEW S \in SUBSET Seats, S # {}, NEW f \in [Seats -> Int]
  PROVE  \E i \in S : \A j \in S : f[j] <= f[i]
  BY SeatsAre

LEMMA SeatSumNat == ASSUME NEW f \in [Seats -> Nat] PROVE SeatSum(f) \in Nat
<1>1. CASE PlayerMode = 2
  BY <1>1, SeatsAre DEF SeatSum
<1>2. CASE PlayerMode = 4
  BY <1>2, SeatsAre DEF SeatSum
<1> QED
  BY <1>1, <1>2, SeatsAre

LEMMA SuitType == ASSUME NEW c \in AllCards PROVE Suit(c) \in 0..3
  BY DEF AllCards, Suit

LEMMA StrengthType == ASSUME NEW c \in AllCards PROVE Strength(c) \in Int
  BY DEF AllCards, Strength, Rank

LEMMA ValueNat == ASSUME NEW c PROVE Value(c) \in Nat
  BY DEF Value, OnePoint

LEMMA CappedType == ASSUME NEW p \in Nat PROVE Capped(p) \in 0..MaxPoints
  BY PointsAssumption DEF Capped

LEMMA TrimType == ASSUME NEW p \in 0..MaxPoints PROVE Trim(p) \in 0..MaxPoints
  BY PointsAssumption DEF Trim, OnePoint

LEMMA TeamTotalsType ==
  ASSUME NEW pts \in [Seats -> Nat] PROVE TeamTotals(pts) \in [{0, 1} -> Nat]
<1>1. ASSUME NEW t \in {0, 1} PROVE SideTotal(pts, t) \in Nat
  <2> DEFINE f == [i \in Seats |-> IF teamId[i] = t THEN pts[i] ELSE 0]
  <2>1. f \in [Seats -> Nat]
    OBVIOUS
  <2> HIDE DEF f
  <2>2. SeatSum(f) \in Nat
    BY <2>1, SeatSumNat
  <2> QED
    BY <2>2 DEF SideTotal, f
<1> QED
  BY <1>1 DEF TeamTotals

LEMMA TrickScoreNat == ASSUME NEW compared PROVE TrickScore(compared) \in Nat
<1> DEFINE f == [i \in Seats |-> Value(compared[i])]
<1>1. f \in [Seats -> Nat]
  BY ValueNat
<1> QED
  BY <1>1, SeatSumNat DEF TrickScore

LEMMA NapoliCount == ASSUME NEW cards PROVE Cardinality(FindNapoli(cards)) \in Nat
<1>0. 0 \in Int /\ 3 \in Int
  OBVIOUS
<1>1. IsFiniteSet(0..3)
  BY <1>0, FS_Interval, Zenon
<1>2. FindNapoli(cards) \subseteq 0..3
  BY DEF FindNapoli
<1> QED
  BY <1>1, <1>2, FS_Subset, FS_CardinalityType

\* A trick has a winner as soon as one of its cards is of the suit led.
LEMMA WinnerIsSeat ==
  ASSUME NEW compared \in [Seats -> AllCards], NEW led,
         \E i \in Seats : Suit(compared[i]) = led
  PROVE  Winner(compared, led) \in Seats
<1> DEFINE S == {i \in Seats : Suit(compared[i]) = led}
           f == [i \in Seats |-> Strength(compared[i])]
<1>1. S \in SUBSET Seats /\ S # {}
  OBVIOUS
<1>2. f \in [Seats -> Int]
  BY StrengthType
<1>3. \E i \in S : \A j \in S : f[j] <= f[i]
  BY <1>1, <1>2, BestSeat
<1>4. \E i \in DOMAIN compared :
        /\ Suit(compared[i]) = led
        /\ \A j \in DOMAIN compared :
              Suit(compared[j]) = led => Strength(compared[j]) <= Strength(compared[i])
  BY <1>3
<1> QED
  BY <1>4 DEF Winner
-----------------------------------------------------------------------------
(* A card played *)

\* What a card can change of the types.
PlayType ==
    /\ state \in States /\ inGame \in BOOLEAN /\ startIn \in Int
    /\ onTurn \in [Seats -> BOOLEAN]
    /\ hand \in [Seats -> SUBSET Deck]
    /\ points \in [Seats -> 0..MaxPoints]
    /\ turn \in Seats \cup {-1} /\ suit \in -1..3
    /\ table \in [Seats -> Deck \cup {NoCard}]
    /\ lastWon \in Everyone \cup {NoOne}
    /\ teamScores \in [{0, 1} -> Nat]
    /\ winTeam \in {-1, 0, 1}
    /\ \A t \in tasks : t.kind \in TaskKinds /\ t.due \in Int

LEMMA PushType ==
  ASSUME NEW q, \A t \in q : t.kind \in TaskKinds /\ t.due \in Int,
         NEW kind \in TaskKinds, NEW delay \in Int
  PROVE  \A t \in Push(q, kind, delay) : t.kind \in TaskKinds /\ t.due \in Int
  BY DEF Push

LEMMA EndGameType ==
  ASSUME PlayType, NEW totals, EndGame(totals)
  PROVE  /\ state' \in States /\ inGame' \in BOOLEAN /\ startIn' \in Int
         /\ winTeam' \in {-1, 0, 1}
         /\ \A t \in tasks' : t.kind \in TaskKinds /\ t.due \in Int
<1> DEFINE q == Push(tasks, "kick", KickDelay)
<1>1. KickDelay \in Int /\ NextDelay \in Int
  BY DelayAssumption
<1>2. \A t \in q : t.kind \in TaskKinds /\ t.due \in Int
  BY <1>1, PushType DEF PlayType, TaskKinds
<1> HIDE DEF q
<1>3. \A t \in Push(q, "next", NextDelay) : t.kind \in TaskKinds /\ t.due \in Int
  BY <1>1, <1>2, PushType DEF TaskKinds
<1>4. tasks' = Push(q, "next", NextDelay)
  BY DEF EndGame, q
<1>5. state' \in States /\ startIn' \in Int /\ winTeam' \in {-1, 0, 1}
  BY DEF EndGame, WinningTeam, States
<1>6. inGame' \in BOOLEAN
  BY DEF EndGame
<1>7. \A t \in tasks' : t.kind \in TaskKinds /\ t.due \in Int
  BY <1>3, <1>4
<1> QED
  BY <1>5, <1>6, <1>7

LEMMA AfterTrickType ==
  ASSUME PlayType, NEW endRound
  PROVE  \A t \in AfterTrick(endRound) : t.kind \in TaskKinds /\ t.due \in Int
<1> DEFINE q == Push(tasks, "draw", DrawDelay)
<1>1. {RoundDelay, HandDelay, DrawDelay, HandDelayDraw} \subseteq Int
  BY DelayAssumption
<1>2. \A t \in q : t.kind \in TaskKinds /\ t.due \in Int
  BY <1>1, PushType DEF PlayType, TaskKinds
<1> HIDE DEF q
<1>3. \A t \in Push(q, "new_hand", HandDelayDraw) : t.kind \in TaskKinds /\ t.due \in Int
  BY <1>1, <1>2, PushType DEF TaskKinds
<1>4. \A t \in Push(tasks, "new_round", RoundDelay) : t.kind \in TaskKinds /\ t.due \in Int
  BY <1>1, PushType DEF PlayType, TaskKinds
<1>5. \A t \in Push(tasks, "new_hand", HandDelay) : t.kind \in TaskKinds /\ t.due \in Int
  BY <1>1, PushType DEF PlayType, TaskKinds
<1> QED
  BY <1>3, <1>4, <1>5 DEF AfterTrick, q

LEMMA EndHandType ==
  ASSUME PlayType, uid \in [Seats -> Everyone \cup {NoOne}],
         NEW compared \in [Seats -> AllCards], NEW left, NEW led,
         \E i \in Seats : Suit(compared[i]) = led,
         EndHand(compared, left, led)
  PROVE  /\ state' \in States /\ inGame' \in BOOLEAN /\ startIn' \in Int
         /\ points' \in [Seats -> 0..MaxPoints]
         /\ table' \in [Seats -> Deck \cup {NoCard}]
         /\ lastWon' \in Everyone \cup {NoOne}
         /\ teamScores' \in [{0, 1} -> Nat]
         /\ winTeam' \in {-1, 0, 1}
         /\ \A t \in tasks' : t.kind \in TaskKinds /\ t.due \in Int
<1> DEFINE win == Winner(compared, led)
           endRound == stock = {} /\ left[0] = {}
           gain == TrickScore(compared) + IF endRound THEN OnePoint ELSE 0
           won == [points EXCEPT ![win] = Capped(@ + gain)]
<1>1. win \in Seats
  BY WinnerIsSeat
<1>2. gain \in Nat
  BY TrickScoreNat DEF OnePoint
<1> HIDE DEF win, gain
<1>3. points[win] + gain \in Nat
  BY <1>1, <1>2, PointsAssumption DEF PlayType
<1>4. Capped(points[win] + gain) \in 0..MaxPoints
  BY <1>3, CappedType
<1>5. won \in [Seats -> 0..MaxPoints]
  BY <1>1, <1>4 DEF PlayType
<1>6. points' = won /\ lastWon' = uid[win] /\ table' = EmptyTable /\ teamScores' = TeamTotals(won)
  BY DEF EndHand, win, gain, won
<1> HIDE DEF won
<1>7. TeamTotals(won) \in [{0, 1} -> Nat]
  <2>1. won \in [Seats -> Nat]
    BY <1>5
  <2> QED
    BY <2>1, TeamTotalsType
<1>8. table' \in [Seats -> Deck \cup {NoCard}] /\ lastWon' \in Everyone \cup {NoOne}
  BY <1>1, <1>6 DEF EmptyTable
<1>9. /\ state' \in States /\ inGame' \in BOOLEAN /\ startIn' \in Int
      /\ winTeam' \in {-1, 0, 1}
      /\ \A t \in tasks' : t.kind \in TaskKinds /\ t.due \in Int
  <2>1. CASE EndGame(TeamTotals(won))
    BY <2>1, EndGameType
  <2>2. CASE tasks' = AfterTrick(endRound) /\ UNCHANGED <<stageVars, winTeam>>
    BY <2>2, AfterTrickType DEF PlayType, stageVars
  <2>3. EndGame(TeamTotals(won)) \/ (tasks' = AfterTrick(endRound) /\ UNCHANGED <<stageVars, winTeam>>)
    BY DEF EndHand, win, gain, won
  <2> QED
    BY <2>1, <2>2, <2>3
<1> QED
  BY <1>5, <1>6, <1>7, <1>8, <1>9

\* The card played is of the suit led, or a card played earlier in the trick is.
LEMMA PutCardLed ==
  ASSUME TypeInv, NEW i \in Seats, NEW c \in Deck, MayPlay(i), SuitLed(c) = suit',
         table' = [table EXCEPT ![i] = c], turn' = NextSeat(i), ~Done(table')
  PROVE  Led'
<1> SUFFICES ASSUME suit' # NoSuit
             PROVE  \E lead \in Seats : \E k \in 1..(PlayerMode - 1) :
                        /\ turn' = (lead + k) % PlayerMode
                        /\ \A j \in 0..(k - 1) : table'[(lead + j) % PlayerMode] # NoCard
                        /\ Suit(table'[lead]) = suit'
  BY DEF Led
<1>0. /\ turn = i /\ state = "Playing" /\ turn # -1 /\ c # NoCard
      /\ DOMAIN table = Seats
  BY SeatsAre, DeckAssumption DEF MayPlay, TypeInv, TypeOK, AllCards, NoCard
<1>1. CASE suit = NoSuit
  <2>1. suit' = Suit(c)
    BY <1>1 DEF SuitLed
  <2>2. /\ turn' = (i + 1) % PlayerMode /\ 1 \in 1..(PlayerMode - 1)
        /\ Suit(table'[i]) = suit' /\ table'[i] # NoCard
    BY <1>0, <2>1, SeatsAre DEF NextSeat
  <2>3. \A j \in 0..(1 - 1) : (i + j) % PlayerMode = i
    BY SeatsAre
  <2> QED
    BY <2>2, <2>3
<1>2. CASE suit # NoSuit
  <2>1. PICK lead \in Seats : \E k \in 1..(PlayerMode - 1) :
            /\ turn = (lead + k) % PlayerMode
            /\ \A j \in 0..(k - 1) : table[(lead + j) % PlayerMode] # NoCard
            /\ Suit(table[lead]) = suit
    BY <1>0, <1>2 DEF TypeInv, Led
  <2>2. PICK k \in 1..(PlayerMode - 1) :
            /\ turn = (lead + k) % PlayerMode
            /\ \A j \in 0..(k - 1) : table[(lead + j) % PlayerMode] # NoCard
            /\ Suit(table[lead]) = suit
    BY <2>1
  <2>3. suit' = suit /\ lead # i
    BY <1>0, <1>2, <2>2, SeatsAre DEF SuitLed
  <2>4. \A j \in 0..k : table'[(lead + j) % PlayerMode] # NoCard
    BY <1>0, <2>2, SeatsAre
  <2>5. k # PlayerMode - 1
    BY <2>4, SeatsAre DEF Done
  <2>6. turn' = (lead + (k + 1)) % PlayerMode
    BY <1>0, <2>2, SeatsAre DEF NextSeat
  <2>7. Suit(table'[lead]) = suit'
    BY <1>0, <2>2, <2>3
  <2>8. k + 1 \in 1..(PlayerMode - 1)
    BY <2>5, SeatsAre
  <2>9. \A j \in 0..((k + 1) - 1) : table'[(lead + j) % PlayerMode] # NoCard
    BY <2>4
  <2> QED
    BY <2>6, <2>7, <2>8, <2>9
<1> QED
  BY <1>1, <1>2

LEMMA PutCardType ==
  ASSUME TypeInv, NEW i \in Seats, NEW c, MayPlay(i), PutCard(i, c)
  PROVE  PlayType' /\ Led'
<1> DEFINE compared == [table EXCEPT ![i] = c]
           left == [hand EXCEPT ![i] = @ \ {c}]
<1>1. PlayType /\ uid \in [Seats -> Everyone \cup {NoOne}]
  BY DEF TypeInv, TypeOK, PlayType
<1>2. c \in Deck /\ c \in AllCards /\ c # NoCard
  BY <1>1, DeckAssumption DEF PutCard, Accepts, PlayType, AllCards, NoCard
<1>3. /\ hand' \in [Seats -> SUBSET Deck]
      /\ suit' = SuitLed(c) /\ suit' \in -1..3
  BY <1>1, <1>2, SuitType DEF PutCard, PlayType, SuitLed
<1>4. Played(i) \in [Seats -> BOOLEAN] /\ [Played(i) EXCEPT ![NextSeat(i)] = TRUE] \in [Seats -> BOOLEAN]
  BY <1>1 DEF PlayType, Played
<1>5. compared \in [Seats -> Deck \cup {NoCard}]
  BY <1>1, <1>2 DEF PlayType
<1>6. CASE /\ Done(compared) /\ turn' = -1 /\ onTurn' = Played(i)
           /\ EndHand(compared, left, SuitLed(c))
  <2>1. compared \in [Seats -> AllCards]
    BY <1>5, <1>6, DeckAssumption DEF Done
  <2>2. \E j \in Seats : Suit(compared[j]) = SuitLed(c)
    <3>1. CASE suit = NoSuit
      <4>1. compared[i] = c /\ SuitLed(c) = Suit(c)
        BY <1>1, <3>1 DEF SuitLed, PlayType
      <4> QED
        BY <4>1
    <3>2. CASE suit # NoSuit
      <4>1. PICK lead \in Seats : /\ Suit(table[lead]) = suit
                                  /\ \E k \in 1..(PlayerMode - 1) : turn = (lead + k) % PlayerMode
        BY <3>2, SeatsAre DEF TypeInv, Led, MayPlay
      <4>2. lead # i
        BY <4>1, SeatsAre DEF MayPlay
      <4>3. compared[lead] = table[lead] /\ SuitLed(c) = suit
        BY <1>1, <3>2, <4>2 DEF SuitLed, PlayType
      <4> QED
        BY <4>1, <4>3
    <3> QED
      BY <3>1, <3>2
  <2> HIDE DEF compared, left
  <2>3. /\ state' \in States /\ inGame' \in BOOLEAN /\ startIn' \in Int
        /\ points' \in [Seats -> 0..MaxPoints]
        /\ table' \in [Seats -> Deck \cup {NoCard}]
        /\ lastWon' \in Everyone \cup {NoOne}
        /\ teamScores' \in [{0, 1} -> Nat]
        /\ winTeam' \in {-1, 0, 1}
        /\ \A t \in tasks' : t.kind \in TaskKinds /\ t.due \in Int
    BY <1>1, <1>6, <2>1, <2>2, EndHandType
  <2>4. turn' \in Seats \cup {-1} /\ onTurn' \in [Seats -> BOOLEAN]
    BY <1>4, <1>6
  <2>5. Led'
    BY <1>6 DEF Led
  <2> QED
    BY <1>3, <2>3, <2>4, <2>5 DEF PlayType
<1>7. CASE /\ ~Done(compared) /\ turn' = NextSeat(i)
           /\ onTurn' = [Played(i) EXCEPT ![NextSeat(i)] = TRUE]
           /\ table' = compared
           /\ UNCHANGED <<lastWon, scoreVars, stageVars, tasks>>
  <2>1. Led'
    BY <1>2, <1>3, <1>7, PutCardLed
  <2>2. turn' \in Seats /\ onTurn' \in [Seats -> BOOLEAN] /\ table' \in [Seats -> Deck \cup {NoCard}]
    BY <1>4, <1>5, <1>7, NextSeatIsSeat
  <2>3. /\ lastWon' = lastWon /\ points' = points /\ teamScores' = teamScores
        /\ winTeam' = winTeam /\ state' = state /\ inGame' = inGame /\ startIn' = startIn
        /\ tasks' = tasks
    BY <1>7 DEF scoreVars, stageVars
  <2> QED
    BY <1>1, <1>3, <2>1, <2>2, <2>3 DEF PlayType
<1> QED
  BY <1>6, <1>7 DEF PutCard

LEMMA HandlePlayCardType ==
  ASSUME TypeInv, NEW i \in Seats, NEW c, MayPlay(i), HandlePlayCard(i, c)
  PROVE  PlayType' /\ Led'
<1>1. CASE PutCard(i, c)
  BY <1>1, PutCardType
<1>2. CASE UNCHANGED <<playVars, scoreVars, stageVars, tasks>>
  BY <1>2 DEF TypeInv, TypeOK, PlayType, Led, playVars, scoreVars, stageVars
<1> QED
  BY <1>1, <1>2 DEF HandlePlayCard
-----------------------------------------------------------------------------
(* The outside's actions *)

\* What is not in PlayType.
RestType ==
    /\ uid \in [Seats -> Everyone \cup {NoOne}]
    /\ teamId \in [Seats -> {-1, 0, 1}]
    /\ auto \in [Seats -> BOOLEAN]
    /\ viewers \subseteq Users /\ registerLeave \subseteq Users
    /\ stock \subseteq Deck
    /\ napoliClaimed \subseteq Users
    /\ freeBots \subseteq Bots
    /\ mapped \subseteq Users
    /\ online \subseteq Users /\ mute \subseteq Users
    /\ settling \subseteq Users
    /\ updating \in BOOLEAN /\ destroyed \in BOOLEAN

LEMMA TypeInvSplit == TypeInv <=> PlayType /\ RestType /\ Led
  BY DEF TypeInv, TypeOK, PlayType, RestType

LEMMA TypeInvJoin == PlayType' /\ RestType' /\ Led' => TypeInv'
  BY DEF TypeInv, TypeOK, PlayType, RestType

LEMMA KeepPlay ==
  ASSUME TypeInv, UNCHANGED <<playVars, scoreVars, stageVars, tasks>>
  PROVE  PlayType' /\ Led'
  BY TypeInvSplit DEF PlayType, Led, playVars, scoreVars, stageVars

LEMMA TryJoinType ==
  ASSUME RestType, NEW u \in Everyone, u \in Users \/ EmptySeats # {}, TryJoin(u)
  PROVE  uid' \in [Seats -> Everyone \cup {NoOne}] /\ viewers' \subseteq Users
<1>1. EmptySeats \in SUBSET Seats
  BY DEF EmptySeats, SeatOf
<1>2. CASE EmptySeats # {}
  <2>1. Min(EmptySeats) \in Seats
    BY <1>1, <1>2, FirstSeat
  <2> QED
    BY <1>2, <2>1 DEF TryJoin, RestType
<1>3. CASE EmptySeats = {}
  BY <1>3 DEF TryJoin, RestType
<1> QED
  BY <1>2, <1>3

\* user_leave changes no more of a game than hands, points and turns asked for.
LEMMA UserLeaveType ==
  ASSUME TypeInv, NEW leavers, UserLeave(leavers),
         tasks' \subseteq tasks
  PROVE  /\ PlayType' /\ Led'
         /\ uid' \in [Seats -> Everyone \cup {NoOne}]
         /\ teamId' \in [Seats -> {-1, 0, 1}]
         /\ auto' \in [Seats -> BOOLEAN]
         /\ viewers' \subseteq Users /\ registerLeave' \subseteq Users
         /\ freeBots' \subseteq Bots /\ mapped' \subseteq Users
<1>1. PlayType /\ RestType /\ Led
  BY TypeInvSplit
<1>2. uid' \in [Seats -> Everyone \cup {NoOne}] /\ teamId' \in [Seats -> {-1, 0, 1}]
  BY <1>1 DEF UserLeave, RestType
<1>3. auto' \in [Seats -> BOOLEAN] /\ onTurn' \in [Seats -> BOOLEAN]
  BY <1>1 DEF UserLeave, RestType, PlayType
<1>4. viewers' \subseteq Users /\ registerLeave' \subseteq Users /\ freeBots' \subseteq Bots
      /\ mapped' \subseteq Users
  BY <1>1 DEF UserLeave, RestType
<1>5. hand' \in [Seats -> SUBSET Deck] /\ points' \in [Seats -> 0..MaxPoints]
  BY <1>1, PointsAssumption DEF UserLeave, PlayType
<1>6. state' \in States /\ startIn' \in Int /\ (state' = "Playing" <=> state = "Playing")
  BY <1>1 DEF UserLeave, PlayType, States
<1>7. UNCHANGED <<inGame, turn, suit, table, lastWon, teamScores, winTeam>>
  BY DEF UserLeave
<1>8. Led'
  BY <1>1, <1>6, <1>7 DEF Led
<1>9. PlayType'
  BY <1>1, <1>3, <1>5, <1>6, <1>7 DEF PlayType
<1> QED
  BY <1>2, <1>3, <1>4, <1>8, <1>9

LEMMA JoinType == ASSUME TypeInv, NEW u \in Users, Join(u) PROVE TypeInv'
<1>1. PlayType' /\ Led'
  BY KeepPlay DEF Join
<1>2. uid' \in [Seats -> Everyone \cup {NoOne}] /\ viewers' \subseteq Users
  BY TryJoinType, TypeInvSplit DEF Join, Everyone
<1>3. RestType'
  BY <1>2, TypeInvSplit DEF Join, RestType, sessionVars, lifeVars
<1> QED
  BY <1>1, <1>3, TypeInvJoin

LEMMA HandleRegisterLeaveGameType ==
  ASSUME TypeInv, NEW u \in Users, NEW register \in BOOLEAN,
         HandleRegisterLeaveGame(u, register)
  PROVE  TypeInv'
<1>1. CASE StaysSeated(u)
  <2>1. PlayType' /\ Led'
    BY <1>1, KeepPlay DEF HandleRegisterLeaveGame
  <2>2. RestType'
    BY <1>1, TypeInvSplit DEF HandleRegisterLeaveGame, RestType, seatVars, sessionVars, lifeVars
  <2> QED
    BY <2>1, <2>2, TypeInvJoin
<1>2. CASE ~StaysSeated(u)
  <2>1. UserLeave({u}) /\ tasks' = tasks
    BY <1>2 DEF HandleRegisterLeaveGame
  <2>2. PlayType' /\ Led'
    BY <2>1, UserLeaveType
  <2>3. RestType'
    BY <2>1, UserLeaveType, TypeInvSplit DEF HandleRegisterLeaveGame, RestType, sessionVars, lifeVars
  <2> QED
    BY <2>2, <2>3, TypeInvJoin
<1> QED
  BY <1>1, <1>2

LEMMA MappedAwayType == ASSUME TypeInv, NEW u \in Users, MappedAway(u) PROVE TypeInv'
<1>1. PlayType' /\ Led'
  BY KeepPlay DEF MappedAway
<1>2. RestType'
  BY TypeInvSplit DEF MappedAway, RestType, sessionVars, lifeVars
<1> QED
  BY <1>1, <1>2, TypeInvJoin

\* The end of a session takes one of those bound to it from the table, or nobody.
LEMMA RemoveSessionCases ==
  ASSUME NEW gone, RemoveSession(gone)
  PROVE  /\ Handling /\ gone \subseteq online /\ online' = online \ gone
         /\ UNCHANGED <<mute, settling, lifeVars, stock, napoliClaimed, tasks>>
         /\ \/ UNCHANGED <<seatVars, playVars, scoreVars, stageVars, auto, registerLeave>>
            \/ \E u \in gone : /\ ~StaysSeated(u) /\ UserLeave({u})
                               /\ (online \ mute) \ {u} \subseteq online'
<1>1. ASSUME NEW u \in gone, UserDisconnect(u)
      PROVE  \/ UNCHANGED <<seatVars, playVars, scoreVars, stageVars, auto, registerLeave>>
             \/ ~StaysSeated(u) /\ UserLeave({u})
  BY <1>1 DEF UserDisconnect
<1>2. ASSUME NEW u \in (gone \ mute) \cap mapped PROVE (online \ mute) \ {u} \subseteq online'
  BY DEF RemoveSession
<1> QED
  BY <1>1, <1>2 DEF RemoveSession

LEMMA RemoveSessionType ==
  ASSUME TypeInv, NEW gone \in SUBSET Users, RemoveSession(gone) PROVE TypeInv'
<1>1. /\ online' \subseteq Users
      /\ UNCHANGED <<mute, settling, lifeVars, stock, napoliClaimed, tasks>>
  BY RemoveSessionCases, TypeInvSplit DEF RestType
<1>2. CASE UNCHANGED <<seatVars, playVars, scoreVars, stageVars, auto, registerLeave>>
  <2>1. PlayType' /\ Led'
    BY <1>1, <1>2, KeepPlay
  <2>2. RestType'
    BY <1>1, <1>2, TypeInvSplit DEF RestType, seatVars, lifeVars
  <2> QED
    BY <2>1, <2>2, TypeInvJoin
<1>3. ASSUME NEW u \in gone, UserLeave({u}) PROVE TypeInv'
  <2>1. PlayType' /\ Led'
    BY <1>1, <1>3, UserLeaveType
  <2>2. RestType'
    BY <1>1, <1>3, UserLeaveType, TypeInvSplit DEF RestType, lifeVars
  <2> QED
    BY <2>1, <2>2, TypeInvJoin
<1> QED
  BY <1>2, <1>3, RemoveSessionCases

LEMMA LoginType ==
  ASSUME TypeInv, NEW entering \in SUBSET Users, NEW silenced \in SUBSET Users,
         Login(entering, silenced)
  PROVE  TypeInv'
<1>1. PlayType' /\ Led'
  BY KeepPlay DEF Login
<1>2. RestType'
  BY TypeInvSplit DEF Login, RestType, seatVars, lifeVars
<1> QED
  BY <1>1, <1>2, TypeInvJoin

LEMMA ClearAutoType ==
  ASSUME TypeInv, NEW back, ClearAuto(back), UNCHANGED <<online, mute>>, settling' \subseteq settling
  PROVE  TypeInv'
<1>1. PlayType' /\ Led'
  BY KeepPlay DEF ClearAuto
<1>2. auto' \in [Seats -> BOOLEAN]
  BY DEF ClearAuto
<1>3. RestType'
  BY <1>2, TypeInvSplit DEF ClearAuto, RestType, seatVars, lifeVars
<1> QED
  BY <1>1, <1>3, TypeInvJoin

LEMMA PlayCardType == ASSUME TypeInv, NEW u \in Users, NEW c \in Deck, PlayCard(u, c) PROVE TypeInv'
<1>1. PICK i \in Seats : /\ MayPlay(i)
                         /\ auto' = [auto EXCEPT ![i] = FALSE]
                         /\ HandlePlayCard(i, c)
  BY DEF PlayCard, SeatOf
<1>2. PlayType' /\ Led'
  BY <1>1, HandlePlayCardType
<1>3. auto' \in [Seats -> BOOLEAN]
  BY <1>1, TypeInvSplit DEF RestType
<1>4. RestType'
  BY <1>3, TypeInvSplit DEF PlayCard, RestType, seatVars, sessionVars, lifeVars
<1> QED
  BY <1>2, <1>4, TypeInvJoin

LEMMA NapoliType == ASSUME TypeInv, NEW u \in Users, HandleGameActionNapoli(u) PROVE TypeInv'
<1>1. PICK i \in SeatOf(u) :
        points' = [points EXCEPT ![i] = Capped(@ + OnePoint * Cardinality(FindNapoli(hand[i])))]
  BY DEF HandleGameActionNapoli
<1> DEFINE more == OnePoint * Cardinality(FindNapoli(hand[i]))
<1>2. i \in Seats /\ points \in [Seats -> 0..MaxPoints]
  BY TypeInvSplit DEF SeatOf, PlayType
<1>3. more \in Nat
  BY NapoliCount DEF OnePoint
<1>4. points' = [points EXCEPT ![i] = Capped(points[i] + more)]
  BY <1>1, <1>2
<1> HIDE DEF more
<1>5. points' \in [Seats -> 0..MaxPoints]
  <2>1. points[i] + more \in Nat
    BY <1>2, <1>3, PointsAssumption
  <2> QED
    BY <1>2, <1>4, <2>1, CappedType
<1>6. PlayType' /\ Led'
  BY <1>5, TypeInvSplit DEF HandleGameActionNapoli, PlayType, Led, playVars, stageVars
<1>7. RestType'
  BY TypeInvSplit DEF HandleGameActionNapoli, RestType, seatVars, sessionVars, lifeVars
<1> QED
  BY <1>6, <1>7, TypeInvJoin
-----------------------------------------------------------------------------
(* The delayed tasks *)

LEMMA HandleNewRoundType ==
  ASSUME TypeInv, NEW t, HandleNewRound(t), UNCHANGED <<sessionVars, lifeVars>>
  PROVE  TypeInv'
<1> DEFINE q == Push(tasks \ {t}, "deal", DealDelay)
<1>1. DealDelay \in Int /\ FirstHandDelay \in Int
  BY DelayAssumption
<1>2. \A o \in tasks \ {t} : o.kind \in TaskKinds /\ o.due \in Int
  BY TypeInvSplit DEF PlayType
<1>3. \A o \in q : o.kind \in TaskKinds /\ o.due \in Int
  BY <1>1, <1>2, PushType DEF TaskKinds
<1> HIDE DEF q
<1>4. \A o \in Push(q, "new_hand", FirstHandDelay) : o.kind \in TaskKinds /\ o.due \in Int
  BY <1>1, <1>3, PushType DEF TaskKinds
<1>5. \A o \in tasks' : o.kind \in TaskKinds /\ o.due \in Int
  BY <1>4 DEF HandleNewRound, q
<1>6. \A i \in Seats : Trimmed(i) \in 0..MaxPoints
  BY TrimType, TypeInvSplit DEF Trimmed, PlayType
<1>7. points' \in [Seats -> 0..MaxPoints]
  BY <1>6 DEF HandleNewRound
<1>8. PlayType' /\ Led'
  BY <1>5, <1>7, TypeInvSplit DEF HandleNewRound, PlayType, Led, playVars, stageVars
<1>9. RestType'
  BY TypeInvSplit DEF HandleNewRound, RestType, seatVars, sessionVars, lifeVars
<1> QED
  BY <1>8, <1>9, TypeInvJoin

LEMMA DealCardsType ==
  ASSUME TypeInv, NEW t, DealCards(t), UNCHANGED <<sessionVars, lifeVars>>
  PROVE  TypeInv'
<1>1. PICK d \in Deals : hand' = d /\ stock' = Undealt(d)
  BY DEF DealCards
<1>2. hand' \in [Seats -> SUBSET Deck] /\ stock' \subseteq Deck
  BY <1>1 DEF Deals, Hands, Undealt
<1>3. PlayType' /\ Led'
  BY <1>2, TypeInvSplit DEF DealCards, PlayType, Led, scoreVars, stageVars
<1>4. RestType'
  BY <1>2, TypeInvSplit DEF DealCards, RestType, seatVars, sessionVars, lifeVars
<1> QED
  BY <1>3, <1>4, TypeInvJoin

LEMMA HandleNewHandType ==
  ASSUME TypeInv, NEW t, HandleNewHand(t), UNCHANGED <<sessionVars, lifeVars>>
  PROVE  TypeInv'
<1> DEFINE lead == IF SeatOf(lastWon) = {} \/ lastWon = NoOne THEN 0 ELSE Min(SeatOf(lastWon))
<1>1. lead \in Seats
  <2>1. SeatOf(lastWon) \in SUBSET Seats
    BY DEF SeatOf
  <2>2. SeatOf(lastWon) # {} => Min(SeatOf(lastWon)) \in Seats
    BY <2>1, FirstSeat
  <2> QED
    BY <2>2, SeatsAre
<1>2. suit' = NoSuit /\ turn' = lead /\ onTurn' = [onTurn EXCEPT ![lead] = TRUE] /\ tasks' = tasks \ {t}
  BY DEF HandleNewHand
<1> HIDE DEF lead
<1>3. onTurn' \in [Seats -> BOOLEAN]
  BY <1>2, TypeInvSplit DEF PlayType
<1>4. Led'
  BY <1>2 DEF Led
<1>5. PlayType'
  BY <1>1, <1>2, <1>3, TypeInvSplit DEF HandleNewHand, PlayType, NoSuit, scoreVars, stageVars
<1>6. RestType'
  BY TypeInvSplit DEF HandleNewHand, RestType, seatVars, sessionVars, lifeVars
<1> QED
  BY <1>4, <1>5, <1>6, TypeInvJoin

LEMMA HandleDrawCardType ==
  ASSUME TypeInv, NEW t, HandleDrawCard(t), UNCHANGED <<sessionVars, lifeVars>>
  PROVE  TypeInv'
<1>1. PICK d \in Draws : /\ hand' = [i \in Seats |-> hand[i] \cup ({d[i]} \ {NoCard})]
                         /\ stock' = stock \ {d[i] : i \in Seats}
  BY DEF HandleDrawCard
<1>2. \A i \in Seats : d[i] \in Deck \cup {NoCard}
  BY TypeInvSplit DEF Draws, RestType
<1>3. hand' \in [Seats -> SUBSET Deck] /\ stock' \subseteq Deck
  BY <1>1, <1>2, TypeInvSplit DEF PlayType, RestType
<1>4. PlayType' /\ Led'
  BY <1>3, TypeInvSplit DEF HandleDrawCard, PlayType, Led, scoreVars, stageVars
<1>5. RestType'
  BY <1>3, TypeInvSplit DEF HandleDrawCard, RestType, seatVars, sessionVars, lifeVars
<1> QED
  BY <1>4, <1>5, TypeInvJoin

LEMMA UpdateUsersStayingEndgameType ==
  ASSUME TypeInv, NEW t, UpdateUsersStayingEndgame(t), UNCHANGED <<sessionVars, lifeVars>>
  PROVE  TypeInv'
<1>1. UserLeave(ToKick \ {NoOne}) /\ tasks' \subseteq tasks
  BY DEF UpdateUsersStayingEndgame
<1>2. PlayType' /\ Led'
  BY <1>1, UserLeaveType
<1>3. RestType'
  BY <1>1, UserLeaveType, TypeInvSplit
  DEF UpdateUsersStayingEndgame, RestType, sessionVars, lifeVars
<1> QED
  BY <1>2, <1>3, TypeInvJoin

LEMMA NextGameType ==
  ASSUME TypeInv, NEW t, NextGame(t), UNCHANGED <<sessionVars, lifeVars>>
  PROVE  TypeInv'
<1>1. state' \in {"PreparingStart", "Waiting"} /\ startIn' \in Int
  BY DelayAssumption, TypeInvSplit DEF NextGame, AfterGame, PrepareStartGame, PlayType
<1>2. PlayType' /\ Led'
  BY <1>1, TypeInvSplit DEF NextGame, PlayType, Led, States, playVars, scoreVars
<1>3. RestType'
  BY TypeInvSplit DEF NextGame, RestType, seatVars, sessionVars, lifeVars
<1> QED
  BY <1>2, <1>3, TypeInvJoin

LEMMA RunDueType == ASSUME TypeInv, RunDue PROVE TypeInv'
  BY HandleNewRoundType, DealCardsType, HandleNewHandType, HandleDrawCardType,
     UpdateUsersStayingEndgameType, NextGameType DEF RunDue
-----------------------------------------------------------------------------
(* The rest of loop() *)

LEMMA FinishUpdateType ==
  ASSUME RestType, uid' \in [Seats -> Everyone \cup {NoOne}], FinishUpdate
  PROVE  /\ freeBots' \subseteq Bots /\ mapped' \subseteq Users
         /\ updating' \in BOOLEAN /\ destroyed' \in BOOLEAN
  BY DEF FinishUpdate, RestType

\* What a branch of loop() that seats nobody and plays no card keeps.
LEMMA KeepRest ==
  ASSUME TypeInv, FinishUpdate,
         UNCHANGED <<uid, teamId, viewers, sessionVars, stock, napoliClaimed>>,
         auto' \in [Seats -> BOOLEAN], registerLeave' \subseteq Users
  PROVE  RestType'
<1>1. RestType /\ uid' \in [Seats -> Everyone \cup {NoOne}]
  BY TypeInvSplit DEF RestType
<1>2. freeBots' \subseteq Bots /\ mapped' \subseteq Users /\ updating' \in BOOLEAN /\ destroyed' \in BOOLEAN
  BY <1>1, FinishUpdateType
<1> QED
  BY <1>1, <1>2 DEF RestType, sessionVars

LEMMA OvertimeType ==
  ASSUME TypeInv, Overtime, FinishUpdate, UNCHANGED sessionVars PROVE TypeInv'
<1>1. PlayType /\ RestType
  BY TypeInvSplit
<1>2. /\ state' \in States /\ inGame' \in BOOLEAN /\ startIn' \in Int
      /\ winTeam' \in {-1, 0, 1}
      /\ \A t \in tasks' : t.kind \in TaskKinds /\ t.due \in Int
  BY <1>1, EndGameType DEF Overtime
<1>3. state' = "Ended"
  BY DEF Overtime, EndGame
<1>4. PlayType' /\ Led'
  BY <1>1, <1>2, <1>3 DEF Overtime, PlayType, Led, playVars
<1>5. RestType'
  BY <1>1, KeepRest DEF Overtime, RestType
<1> QED
  BY <1>4, <1>5, TypeInvJoin

LEMMA AutoPlayType ==
  ASSUME TypeInv, NEW i \in Seats, AutoPlay(i), FinishUpdate, UNCHANGED sessionVars
  PROVE  TypeInv'
<1>3. auto' \in [Seats -> BOOLEAN] /\ registerLeave' \subseteq Users
  BY TypeInvSplit DEF AutoPlay, RestType
<1>4. RestType'
  BY <1>3, KeepRest DEF AutoPlay
<1>5. PlayType' /\ Led'
  <2>1. CASE MayPlay(i) /\ hand[i] # {}
    <3>1. PICK c \in Responses(hand[i], suit) : HandlePlayCard(i, c)
      BY <2>1 DEF AutoPlay
    <3> QED
      BY <2>1, <3>1, HandlePlayCardType
  <2>2. CASE ~(MayPlay(i) /\ hand[i] # {})
    BY <2>2, KeepPlay DEF AutoPlay
  <2> QED
    BY <2>1, <2>2
<1> QED
  BY <1>4, <1>5, TypeInvJoin

LEMMA BotPlayCardType ==
  ASSUME TypeInv, NEW i \in Seats, BotPlayCard(i), FinishUpdate, UNCHANGED sessionVars
  PROVE  TypeInv'
<1>1. PICK c \in BotChoices(i) : MayPlay(i) /\ HandlePlayCard(i, c)
  BY DEF BotPlayCard
<1>2. PlayType' /\ Led'
  BY <1>1, HandlePlayCardType
<1>3. auto' \in [Seats -> BOOLEAN] /\ registerLeave' \subseteq Users
  BY TypeInvSplit DEF BotPlayCard, RestType
<1>4. RestType'
  BY <1>3, KeepRest DEF BotPlayCard
<1> QED
  BY <1>2, <1>4, TypeInvJoin

LEMMA StartGameType ==
  ASSUME TypeInv, StartGame, FinishUpdate, UNCHANGED sessionVars PROVE TypeInv'
<1>1. \A t \in tasks' : t.kind \in TaskKinds /\ t.due \in Int
  <2>1. StartDelay \in Int
    BY DelayAssumption
  <2>2. \A t \in Push(tasks, "new_round", StartDelay) : t.kind \in TaskKinds /\ t.due \in Int
    BY <2>1, PushType, TypeInvSplit DEF PlayType, TaskKinds
  <2> QED
    BY <2>2 DEF StartGame
<1>2. Led'
  BY DEF StartGame, Led
<1>3. /\ hand' \in [Seats -> SUBSET Deck] /\ onTurn' \in [Seats -> BOOLEAN]
      /\ table' \in [Seats -> Deck \cup {NoCard}] /\ points' \in [Seats -> 0..MaxPoints]
      /\ teamScores' \in [{0, 1} -> Nat]
  BY PointsAssumption DEF StartGame, EmptyTable
<1>4. /\ state' \in States /\ startIn' \in Int /\ turn' \in Seats /\ suit' \in -1..3
      /\ lastWon' \in Everyone \cup {NoOne}
  BY SeatsAre DEF StartGame, States, NoSuit
<1>5. inGame' \in BOOLEAN
  BY DEF StartGame
<1>6. PlayType'
  BY <1>1, <1>3, <1>4, <1>5, TypeInvSplit DEF StartGame, PlayType
<1>7. RestType'
  <2>1. /\ auto' \in [Seats -> BOOLEAN] /\ registerLeave' \subseteq Users
        /\ stock' \subseteq Deck /\ uid' = uid /\ teamId' = teamId /\ viewers' = viewers
        /\ napoliClaimed' = napoliClaimed
    BY DEF StartGame
  <2>2. RestType /\ uid' \in [Seats -> Everyone \cup {NoOne}]
    BY <2>1, TypeInvSplit DEF RestType
  <2>3. freeBots' \subseteq Bots /\ mapped' \subseteq Users /\ updating' \in BOOLEAN /\ destroyed' \in BOOLEAN
    BY <2>2, FinishUpdateType
  <2> QED
    BY <2>1, <2>2, <2>3 DEF RestType, sessionVars
<1> QED
  BY <1>2, <1>6, <1>7, TypeInvJoin

LEMMA IdleLoopType ==
  ASSUME TypeInv, BackToWaiting \/ Prepare \/ Nothing, FinishUpdate, UNCHANGED sessionVars
  PROVE  TypeInv'
<1>1. /\ UNCHANGED <<uid, teamId, viewers, playVars, scoreVars, inGame, auto, registerLeave,
                     stock, napoliClaimed, tasks>>
      /\ state' \in States /\ startIn' \in Int /\ (state' = "Playing" => state = "Playing")
  BY DelayAssumption, TypeInvSplit
  DEF BackToWaiting, Prepare, PrepareStartGame, Nothing, stageVars, PlayType, States
<1>2. PlayType' /\ Led'
  BY <1>1, TypeInvSplit DEF PlayType, Led, playVars, scoreVars
<1>3. RestType'
  BY <1>1, KeepRest, TypeInvSplit DEF RestType
<1> QED
  BY <1>2, <1>3, TypeInvJoin

LEMMA CheckGenBotType ==
  ASSUME TypeInv, CheckGenBot, FinishUpdate, UNCHANGED sessionVars PROVE TypeInv'
<1>1. PlayType /\ RestType
  BY TypeInvSplit
<1>2. PICK b \in freeBots : TryJoin(b)
  BY DEF CheckGenBot
<1>3. b \in Everyone /\ EmptySeats # {}
  BY <1>1 DEF CheckGenBot, CheckRoomFull, RestType, Everyone
<1>4. uid' \in [Seats -> Everyone \cup {NoOne}] /\ viewers' \subseteq Users
  BY <1>1, <1>2, <1>3, TryJoinType
<1>5. freeBots' \subseteq Bots /\ mapped' \subseteq Users /\ updating' \in BOOLEAN /\ destroyed' \in BOOLEAN
  BY <1>1, <1>4, FinishUpdateType
<1>6. PlayType' /\ Led'
  BY KeepPlay DEF CheckGenBot
<1>7. RestType'
  BY <1>1, <1>4, <1>5 DEF CheckGenBot, RestType, sessionVars
<1> QED
  BY <1>6, <1>7, TypeInvJoin

LEMMA RestOfLoopType == ASSUME TypeInv, RestOfLoop PROVE TypeInv'
  BY OvertimeType, AutoPlayType, BotPlayCardType, StartGameType, IdleLoopType,
     CheckGenBotType DEF RestOfLoop

LEMMA UpdateType == ASSUME TypeInv, Update PROVE TypeInv'
<1>1. PlayType' /\ Led'
  BY KeepPlay DEF Update
<1>2. RestType'
  BY TypeInvSplit DEF Update, RestType, seatVars, sessionVars
<1> QED
  BY <1>1, <1>2, TypeInvJoin

LEMMA TickType == ASSUME TypeInv, Tick PROVE TypeInv'
<1>1. \A t \in tasks' : t.kind \in TaskKinds /\ t.due \in Int
  BY TypeInvSplit DEF PlayType, Tick
<1>2. PlayType' /\ Led'
  BY <1>1, TypeInvSplit DEF Tick, PlayType, Led, playVars, scoreVars
<1>3. RestType'
  BY TypeInvSplit DEF Tick, RestType, seatVars, sessionVars, lifeVars
<1> QED
  BY <1>2, <1>3, TypeInvJoin
-----------------------------------------------------------------------------
(* The kinds of step *)

\* Somebody goes, by request or with the connection.
Leaves ==
    \/ \E u \in Users, register \in BOOLEAN : HandleRegisterLeaveGame(u, register)
    \/ \E gone \in SUBSET Users : RemoveSession(gone)

\* Somebody comes or comes back, or is led elsewhere.
Visits ==
    \/ \E u \in Users : \/ Join(u) \/ HandleViewerEnterMatch(u) \/ MappedAway(u)
                        \/ LoginSettled(u) \/ UserReturnToTable(u)
    \/ \E silenced \in SUBSET Users :
          Login({}, silenced) \/ \E u \in Users : Login({u}, silenced)

LEMMA LeavesCases ==
  ASSUME Leaves
  PROVE  /\ UNCHANGED <<mute, lifeVars, stock, napoliClaimed, tasks>>
         /\ \/ UNCHANGED <<uid, teamId, viewers, playVars, scoreVars, stageVars>>
            \/ \E u \in Users : /\ ~StaysSeated(u) /\ UserLeave({u})
                                /\ (online \ mute) \ {u} \subseteq online'
<1>1. ASSUME NEW u \in Users, NEW register \in BOOLEAN, HandleRegisterLeaveGame(u, register)
      PROVE  /\ UNCHANGED <<mute, lifeVars, stock, napoliClaimed, tasks>>
             /\ \/ UNCHANGED <<uid, teamId, viewers, playVars, scoreVars, stageVars>>
                \/ /\ ~StaysSeated(u) /\ UserLeave({u})
                   /\ (online \ mute) \ {u} \subseteq online'
  BY <1>1 DEF HandleRegisterLeaveGame, seatVars, sessionVars
<1>2. ASSUME NEW gone \in SUBSET Users, RemoveSession(gone)
      PROVE  /\ UNCHANGED <<mute, lifeVars, stock, napoliClaimed, tasks>>
             /\ \/ UNCHANGED <<uid, teamId, viewers, playVars, scoreVars, stageVars>>
                \/ \E u \in gone : /\ ~StaysSeated(u) /\ UserLeave({u})
                                   /\ (online \ mute) \ {u} \subseteq online'
  BY <1>2, RemoveSessionCases DEF seatVars
<1> QED
  BY <1>1, <1>2 DEF Leaves

LEMMA VisitsKeep ==
  ASSUME Visits
  PROVE  UNCHANGED <<teamId, playVars, scoreVars, stageVars, stock, napoliClaimed, tasks>>
  BY DEF Visits, Join, HandleViewerEnterMatch, MappedAway, LoginSettled, UserReturnToTable,
         ClearAuto, Login, seatVars

LEMMA StepKinds ==
  Next => \/ Leaves \/ Visits \/ Tick \/ Update \/ RunDue \/ RestOfLoop \/ UNCHANGED vars
          \/ \E u \in Users : HandleGameActionNapoli(u) \/ \E c \in Deck : PlayCard(u, c)
  BY DEF Next, Leaves, Visits, Gone
-----------------------------------------------------------------------------
(* The theorems *)

LEMMA InitType == Init => TypeInv
<1> SUFFICES ASSUME Init PROVE TypeInv
  OBVIOUS
<1>1. PICK u \in Users : uid = [i \in Seats |-> IF i = 0 THEN u ELSE NoOne] /\ mapped = {u}
  BY DEF Init
<1>2. uid \in [Seats -> Everyone \cup {NoOne}] /\ teamId \in [Seats -> {-1, 0, 1}]
  BY <1>1, SeatsAre DEF Init, Everyone
<1>3. turn \in Seats /\ points \in [Seats -> 0..MaxPoints] /\ state \in States
  BY SeatsAre, PointsAssumption DEF Init, States
<1>4. /\ onTurn \in [Seats -> BOOLEAN] /\ inGame \in BOOLEAN
      /\ hand \in [Seats -> SUBSET Deck] /\ teamScores \in [{0, 1} -> Nat]
      /\ table \in [Seats -> Deck \cup {NoCard}] /\ auto \in [Seats -> BOOLEAN]
  BY DEF Init, EmptyTable
<1>5. PlayType
  BY <1>3, <1>4 DEF Init, PlayType
<1>6. Led
  BY DEF Init, Led
<1>7. RestType
  BY <1>1, <1>2, <1>4 DEF Init, RestType
<1> QED
  BY <1>5, <1>6, <1>7, TypeInvSplit

LEMMA NextType == TypeInv /\ [Next]_vars => TypeInv'
<1> SUFFICES ASSUME TypeInv, [Next]_vars PROVE TypeInv'
  OBVIOUS
<1>1. ASSUME NEW u \in Users, Join(u) \/ HandleViewerEnterMatch(u) PROVE TypeInv'
  BY <1>1, JoinType DEF HandleViewerEnterMatch
<1>2. ASSUME NEW u \in Users, NEW register \in BOOLEAN, HandleRegisterLeaveGame(u, register)
      PROVE  TypeInv'
  BY <1>2, HandleRegisterLeaveGameType
<1>3. ASSUME NEW u \in Users, MappedAway(u) PROVE TypeInv'
  BY <1>3, MappedAwayType
<1>10. ASSUME NEW gone \in SUBSET Users, RemoveSession(gone) PROVE TypeInv'
  BY <1>10, RemoveSessionType
<1>11. ASSUME NEW silenced \in SUBSET Users,
              Login({}, silenced) \/ \E u \in Users : Login({u}, silenced)
       PROVE  TypeInv'
  BY <1>11, LoginType
<1>4. ASSUME NEW u \in Users, LoginSettled(u) \/ UserReturnToTable(u) PROVE TypeInv'
  BY <1>4, ClearAutoType DEF LoginSettled, UserReturnToTable, sessionVars
<1>5. ASSUME NEW u \in Users, NEW c \in Deck, PlayCard(u, c) PROVE TypeInv'
  BY <1>5, PlayCardType
<1>6. ASSUME NEW u \in Users, HandleGameActionNapoli(u) PROVE TypeInv'
  BY <1>6, NapoliType
<1>7. CASE Tick \/ Update \/ RunDue \/ RestOfLoop
  BY <1>7, TickType, UpdateType, RunDueType, RestOfLoopType
<1>8. CASE UNCHANGED vars
  <2>1. PlayType' /\ Led'
    BY <1>8, KeepPlay DEF vars
  <2>2. RestType'
    BY <1>8, TypeInvSplit DEF vars, RestType, seatVars, sessionVars, lifeVars
  <2> QED
    BY <2>1, <2>2, TypeInvJoin
<1>9. CASE Gone
  BY <1>8, <1>9 DEF Gone
<1> QED
  BY <1>1, <1>2, <1>3, <1>4, <1>5, <1>6, <1>7, <1>8, <1>9, <1>10, <1>11 DEF Next

\* The inductive invariant: the types, and how the suit led came on the table.
THEOREM TypeInvariant == Spec => []TypeInv
  BY InitType, NextType, PTL DEF Spec

\* Every variable keeps its type.
THEOREM TypeCorrect == Spec => []TypeOK
<1>1. TypeInv => TypeOK
  BY DEF TypeInv
<1> QED
  BY <1>1, TypeInvariant, PTL

\* While a trick is played the suit to follow is that of a card on the table, so that
\* end_hand always finds the winner of the trick.
THEOREM TrickHasLed == Spec => []LedSuitOnTable
<1>1. TypeInv => LedSuitOnTable
  <2> SUFFICES ASSUME TypeInv, state = "Playing", turn # -1, suit # NoSuit
               PROVE  \E i \in Seats : table[i] # NoCard /\ Suit(table[i]) = suit
    BY DEF LedSuitOnTable
  <2>1. PICK lead \in Seats : \E k \in 1..(PlayerMode - 1) :
            /\ \A j \in 0..(k - 1) : table[(lead + j) % PlayerMode] # NoCard
            /\ Suit(table[lead]) = suit
    BY DEF TypeInv, Led
  <2>2. (lead + 0) % PlayerMode = lead
    BY SeatsAre
  <2>3. table[lead] # NoCard
    BY <2>1, <2>2
  <2> QED
    BY <2>1, <2>3
<1> QED
  BY <1>1, TypeInvariant, PTL
=============================================================================
