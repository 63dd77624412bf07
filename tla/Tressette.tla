----------------------------- MODULE Tressette -----------------------------
(***************************************************************************)
(* One Tressette table of the C++ server (class Tressette): seats and      *)
(* viewers, the queue of delayed tasks, the games played on it and its     *)
(* life from the creator's join to its destruction by the match registry.  *)
(*                                                                         *)
(* Everything runs on one io_context thread.  A packet handler, a session  *)
(* event and a delayed task are each one atomic action.  The registry's    *)
(* update of the table is Update (the timer fires), then the tasks that    *)
(* are due, one action each, then one action for the rest of loop() with   *)
(* the should_destroy() test; no packet is handled in between.             *)
(*                                                                         *)
(* Time is counted in units of the instance's choice: a task keeps the     *)
(* units left until it is due.  The deadlines of a turn, of the next bot   *)
(* and of the one-hour limit are left open: they pass at any update.       *)
(***************************************************************************)
EXTENDS TressetteCards, FiniteSets, FiniteSetsExt

CONSTANTS
    Users,          \* the people who may come to the table
    Bots,           \* the pool of bot uids (UsersInfoMgr)
    NoOne,          \* the uid of an empty seat
    PlayerMode,     \* 2 (PLAYER_SOLO_MODE) or 4 (PLAYER_DUO_MODE)
    Deck,           \* the cards dealt from: all forty in the code
    HandSize,       \* cards dealt to a seat: 10 in the code
    PointToWin,     \* thirds of a point a side needs: 33 or 63 in the code
    MaxPoints,      \* bound: points are counted up to here
    MaxLate,        \* bound: how many units past due an update may come
    StartDelay, DealDelay, FirstHandDelay, DrawDelay, HandDelay, HandDelayDraw,
    RoundDelay, KickDelay, NextDelay, PrepareDelay,     \* delays, in units
    Inputs          \* the kinds of event this instance lets the outside make

AllInputs == {"leave", "drop", "astray", "early play", "napoli", "overtime"}

ASSUME PeopleAssumption ==
    /\ Users \cap Bots = {}
    /\ NoOne \notin Users \cup Bots
    /\ Inputs \subseteq AllInputs

\* A deal leaves a stock that is drawn down by whole tricks (0 or 20 cards of 40).
ASSUME DeckAssumption ==
    /\ PlayerMode \in {2, 4}
    /\ Deck \subseteq AllCards
    /\ HandSize \in Nat \ {0}
    /\ PlayerMode * HandSize <= Cardinality(Deck)
    /\ Cardinality(Deck) % PlayerMode = 0

ASSUME PointsAssumption ==
    /\ PointToWin \in Nat \ {0}
    /\ MaxPoints \in Nat
    /\ MaxPoints % OnePoint = 0
    /\ PointToWin <= MaxPoints

\* The order of the delays that the code's literals give: 1, 1, 2, 2, 2, 5.5, 4, 6, 7
\* and 3 seconds.
ASSUME DelayAssumption ==
    /\ {StartDelay, DealDelay, FirstHandDelay, DrawDelay, HandDelay, HandDelayDraw,
        RoundDelay, KickDelay, NextDelay, PrepareDelay, MaxLate} \subseteq Nat
    /\ KickDelay < NextDelay
    /\ {StartDelay, DealDelay, FirstHandDelay, DrawDelay, HandDelay, HandDelayDraw,
        RoundDelay} \subseteq 0..NextDelay
    /\ {DealDelay, FirstHandDelay} \subseteq 0..PrepareDelay
    /\ DealDelay <= FirstHandDelay
    /\ DrawDelay <= HandDelayDraw

Seats == 0..(PlayerMode - 1)
Everyone == Users \cup Bots
TaskKinds == {"new_round", "deal", "new_hand", "draw", "kick", "next"}
States == {"Waiting", "PreparingStart", "Playing", "Ended"}

VARIABLES
    state,          \* state_
    inGame,         \* is_in_game_
    startIn,        \* time_start_ while preparing: units left (0 otherwise)
    uid,            \* players_[i].uid
    teamId,         \* players_[i].team_id
    auto,           \* players_[i].is_auto_
    onTurn,         \* players_[i].is_on_turn_
    hand,           \* players_[i].cards
    points,         \* players_[i].points
    viewers,        \* viewers_
    registerLeave,  \* register_leave_uids_
    turn,           \* current_turn_idx_
    suit,           \* hand_suit_
    table,          \* cards_compare_
    stock,          \* cards_: what is left of the deck, its order not yet chosen
    lastWon,        \* last_won_uid_
    teamScores,     \* team_scores_, as of the last trick
    winTeam,        \* win_team_id_
    napoliClaimed,  \* napoli_claimed_status_
    tasks,          \* delayed_tasks_
    freeBots,       \* UsersInfoMgr::available_uids_
    mapped,         \* the users whom user_match_ids_ leads to this table
    online,         \* the users SessionRegistry holds a session for
    mute,           \* the users whose session, the last they were bound to, has another uid_
    settling,       \* users with a UserLoginSettledEvent on its way
    updating,       \* inside loop(), called by MatchRegistry::update
    destroyed       \* the registry has dropped the table

seatVars == <<uid, teamId, viewers, freeBots, mapped>>
playVars == <<hand, onTurn, turn, suit, table, lastWon>>
scoreVars == <<points, teamScores, winTeam>>
stageVars == <<state, inGame, startIn>>
sessionVars == <<online, mute, settling>>
lifeVars == <<updating, destroyed>>

vars == <<seatVars, playVars, scoreVars, stageVars, sessionVars, lifeVars,
          auto, registerLeave, stock, napoliClaimed, tasks>>
-----------------------------------------------------------------------------
(* Helpers *)

SeatOf(u) == {i \in Seats : uid[i] = u}
EmptySeats == SeatOf(NoOne)
IsPlayer(u) == SeatOf(u) # {}
HasUser(u) == IsPlayer(u) \/ u \in viewers
Seated == {uid[i] : i \in Seats} \ {NoOne}
CheckRoomFull == EmptySeats = {}

NextSeatStuck(i) == i       \* slip: the turn is not passed on
NextSeatNoWrap(i) == i + 1  \* slip: no wrap-around
NextSeat(i) == (i + 1) % PlayerMode

SeatSum(f) == f[0] + f[1] + IF PlayerMode = 4 THEN f[2] + f[3] ELSE 0
Capped(p) == IF p > MaxPoints THEN MaxPoints ELSE p

EmptyTable == [i \in Seats |-> NoCard]
Done(compared) == \A i \in Seats : compared[i] # NoCard

\* A side's points; a seat whose team_id is -1 counts for no side.
SideTotal(pts, t) == SeatSum([i \in Seats |-> IF teamId[i] = t THEN pts[i] ELSE 0])
TeamTotals(pts) == [t \in {0, 1} |-> SideTotal(pts, t)]

\* The priority queue: earliest due first, then the order of insertion.
NextId(q) == IF q = {} THEN 1 ELSE 1 + (CHOOSE t \in q : \A o \in q : o.id <= t.id).id
Push(q, kind, delay) == q \cup {[kind |-> kind, due |-> delay, id |-> NextId(q)]}
IsNext(t) == /\ t.due <= 0
             /\ \A o \in tasks : t.due < o.due \/ (t.due = o.due /\ t.id <= o.id)

Handling == ~updating /\ ~destroyed
BodyStep == updating /\ \A t \in tasks : t.due > 0

\* A session speaks for u: its packets are u's, and they reach this table.
Speaks(u) == u \in online \ mute
Heard(u) == Speaks(u) /\ u \in mapped

HasOnlineUser == (Seated \cup viewers) \cap online # {}

\* The end of an update: a bot seated by it has left the pool; should_destroy(), and a
\* table that is destroyed releases its bots and is forgotten by the registry.
FinishUpdate ==
    /\ updating' = FALSE
    /\ destroyed' = ~HasOnlineUser'
    /\ mapped' = IF destroyed' THEN {} ELSE mapped
    /\ freeBots' = (freeBots \ Seated') \cup (IF destroyed' THEN Seated' \cap Bots ELSE {})
-----------------------------------------------------------------------------
(* Seats *)

\* Slip: who takes a seat stays in viewers_.
TryJoinKeepsView(u) ==
    IF EmptySeats # {}
    THEN uid' = [uid EXCEPT ![Min(EmptySeats)] = u] /\ UNCHANGED viewers
    ELSE viewers' = viewers \cup {u} /\ UNCHANGED uid

TryJoin(u) ==
    IF EmptySeats # {}
    THEN /\ uid' = [uid EXCEPT ![Min(EmptySeats)] = u]
         /\ viewers' = viewers \ {u}
    ELSE /\ viewers' = viewers \cup {u}
         /\ UNCHANGED uid

NeverStays(u) == FALSE      \* slip: a game holds nobody
StaysInGame(u) == inGame    \* slip: a game holds its viewers too

\* A player keeps the seat for as long as the game lasts.
StaysSeated(u) == inGame /\ IsPlayer(u)

\* user_leave for every uid of leavers: MatchPlayer::clear() on the seats they held.
UserLeave(leavers) ==
    LET left(i) == uid[i] \in leavers
        removed == leavers \cap (Seated \cup viewers) # {}
        back == removed /\ state = "PreparingStart"
    IN /\ uid' = [i \in Seats |-> IF left(i) THEN NoOne ELSE uid[i]]
       /\ teamId' = [i \in Seats |-> IF left(i) THEN -1 ELSE teamId[i]]
       /\ auto' = [i \in Seats |-> auto[i] /\ ~left(i)]
       /\ onTurn' = [i \in Seats |-> onTurn[i] /\ ~left(i)]
       /\ hand' = [i \in Seats |-> IF left(i) THEN {} ELSE hand[i]]
       /\ points' = [i \in Seats |-> IF left(i) THEN 0 ELSE points[i]]
       /\ viewers' = viewers \ leavers
       /\ registerLeave' = registerLeave \ leavers
       /\ freeBots' = freeBots \cup (Seated \cap Bots \cap leavers)
       /\ mapped' = mapped \ leavers
       /\ state' = IF back THEN "Waiting" ELSE state
       /\ startIn' = IF back THEN 0 ELSE startIn
       /\ UNCHANGED <<inGame, turn, suit, table, lastWon, teamScores, winTeam>>

\* Registry: JOIN_TABLE_BY_ID or QUICK_PLAY by someone who has no seat at the table.
Join(u) ==
    /\ Handling
    /\ Speaks(u)
    /\ ~IsPlayer(u)
    /\ TryJoin(u)
    /\ mapped' = mapped \cup {u}
    /\ UNCHANGED <<teamId, freeBots, playVars, scoreVars, stageVars, sessionVars, lifeVars,
                   auto, registerLeave, stock, napoliClaimed, tasks>>

HandleViewerEnterMatch(u) == u \in viewers \cap mapped /\ Join(u)

\* Registry: u takes a place at another table by its id, or, while u is offline, another table
\* that u has not left is destroyed.  This one is not told.
MappedAway(u) ==
    /\ Handling
    /\ "astray" \in Inputs
    /\ u \in mapped
    /\ Speaks(u) \/ u \notin online
    /\ mapped' = mapped \ {u}
    /\ UNCHANGED <<uid, teamId, viewers, freeBots, playVars, scoreVars, stageVars, sessionVars,
                   lifeVars, auto, registerLeave, stock, napoliClaimed, tasks>>

HandleRegisterLeaveGame(u, register) ==
    /\ Handling
    /\ "leave" \in Inputs
    /\ Heard(u)
    /\ HasUser(u)
    /\ IF StaysSeated(u)
       THEN /\ registerLeave' = IF register THEN registerLeave \cup {u}
                                            ELSE registerLeave \ {u}
            /\ UNCHANGED <<seatVars, playVars, scoreVars, stageVars, auto>>
       ELSE UserLeave({u})
    /\ UNCHANGED <<sessionVars, lifeVars, stock, napoliClaimed, tasks>>

UserDisconnect(u) ==
    IF StaysSeated(u)
    THEN UNCHANGED <<seatVars, playVars, scoreVars, stageVars, auto, registerLeave>>
    ELSE UserLeave({u})

\* Server::remove_session: the registry tells the table of the one the session speaks for, if it
\* maps that one to the table; then all who are bound to the session go offline.
RemoveSession(gone) ==
    /\ Handling
    /\ "drop" \in Inputs
    /\ gone # {} /\ gone \subseteq online
    /\ \A u, v \in gone \ mute : u = v
    /\ \/ \E u \in (gone \ mute) \cap mapped : UserDisconnect(u)
       \/ /\ gone \cap mapped \subseteq mute
          /\ UNCHANGED <<seatVars, playVars, scoreVars, stageVars, auto, registerLeave>>
    /\ online' = online \ gone
    /\ UNCHANGED <<mute, settling, lifeVars, stock, napoliClaimed, tasks>>

\* A login of one of the users or of a stranger (entering is empty): it silences the one whom the
\* connection spoke for until then and the one who shared the newcomer's older connection.
Login(entering, silenced) ==
    /\ Handling
    /\ "drop" \in Inputs
    /\ \A u \in silenced : Speaks(u)
    /\ silenced \cap entering = {} /\ Cardinality(silenced) <= 2
    /\ silenced # {} => "astray" \in Inputs
    /\ online' = online \cup entering
    /\ mute' = (mute \ entering) \cup silenced
    /\ settling' = settling \cup entering
    /\ UNCHANGED <<seatVars, playVars, scoreVars, stageVars, lifeVars,
                   auto, registerLeave, stock, napoliClaimed, tasks>>

ClearAuto(back) ==
    /\ auto' = [i \in Seats |-> auto[i] /\ uid[i] \notin back]
    /\ UNCHANGED <<seatVars, playVars, scoreVars, stageVars, lifeVars,
                   registerLeave, stock, napoliClaimed, tasks>>

\* Two seconds after a login: user_reconnect on the user's match, if there is one.
LoginSettled(u) ==
    /\ Handling
    /\ u \in settling
    /\ settling' = settling \ {u}
    /\ ClearAuto({u} \cap mapped)
    /\ UNCHANGED <<online, mute>>

\* USER_RETURN_TO_TABLE, or QUICK_PLAY by someone who is at the table.
UserReturnToTable(u) ==
    /\ Handling
    /\ Heard(u)
    /\ IsPlayer(u)
    /\ ClearAuto({u})
    /\ UNCHANGED sessionVars
-----------------------------------------------------------------------------
(* A game *)

\* Slip: no countdown.
PrepareAtOnce == state' = "PreparingStart" /\ startIn' = 0

PrepareStartGame == state' = "PreparingStart" /\ startIn' = PrepareDelay

\* Slip: the winner is read off the scores of the trick before.
WinningTeamBefore(totals) == IF teamScores[0] > teamScores[1] THEN 0 ELSE 1

WinningTeam(totals) == IF totals[0] > totals[1] THEN 0 ELSE 1

EndGame(totals) ==
    /\ state' = "Ended"
    /\ inGame' = FALSE
    /\ startIn' = 0
    /\ winTeam' = WinningTeam(totals)
    /\ tasks' = Push(Push(tasks, "kick", KickDelay), "next", NextDelay)

\* Slip: only the cards of the suit led are counted.
TrickScoreOfSuit(compared) ==
    SeatSum([i \in Seats |-> IF Suit(compared[i]) = suit THEN Value(compared[i]) ELSE 0])

TrickScore(compared) == SeatSum([i \in Seats |-> Value(compared[i])])

\* Slip: both sides must get there.
BothReach(totals) == totals[0] >= PointToWin /\ totals[1] >= PointToWin

ReachesTarget(totals) == totals[0] >= PointToWin \/ totals[1] >= PointToWin

\* What end_hand schedules when the game goes on.
AfterTrick(endRound) ==
    IF endRound THEN Push(tasks, "new_round", RoundDelay)
    ELSE IF stock = {} THEN Push(tasks, "new_hand", HandDelay)
    ELSE Push(Push(tasks, "draw", DrawDelay), "new_hand", HandDelayDraw)

\* end_hand, called with the cards on the table, the hands left and the suit led.
EndHand(compared, left, led) ==
    LET win == Winner(compared, led)
        endRound == stock = {} /\ left[0] = {}
        gain == TrickScore(compared) + (IF endRound THEN OnePoint ELSE 0)
        won == [points EXCEPT ![win] = Capped(@ + gain)]
        totals == TeamTotals(won)
    IN /\ points' = won
       /\ lastWon' = uid[win]
       /\ table' = EmptyTable
       /\ teamScores' = totals
       /\ IF ReachesTarget(totals)
          THEN EndGame(totals)
          ELSE tasks' = AfterTrick(endRound) /\ UNCHANGED <<stageVars, winTeam>>

AcceptsUnheld(i, c) == suit \in {NoSuit, Suit(c)}      \* slip: any card

Accepts(i, c) == /\ c \in hand[i]
                 /\ (suit \in {NoSuit, Suit(c)} \/ OfSuit(hand[i], suit) = {})

MayPlay(i) == state = "Playing" /\ turn = i /\ ~Done(table)

\* Slip: each card sets the suit to follow.
SuitOfLast(c) == Suit(c)
SuitLed(c) == IF suit = NoSuit THEN Suit(c) ELSE suit

Played(i) == [onTurn EXCEPT ![i] = FALSE]

\* handle_play_card from the suit test on, for a card that is accepted.
PutCard(i, c) ==
    LET compared == [table EXCEPT ![i] = c]
        left == [hand EXCEPT ![i] = @ \ {c}]
    IN /\ Accepts(i, c)
       /\ hand' = left
       /\ suit' = SuitLed(c)
       /\ \/ /\ Done(compared)
             /\ turn' = -1
             /\ onTurn' = Played(i)
             /\ EndHand(compared, left, SuitLed(c))
          \/ /\ ~Done(compared)
             /\ turn' = NextSeat(i)
             /\ onTurn' = [Played(i) EXCEPT ![NextSeat(i)] = TRUE]
             /\ table' = compared
             /\ UNCHANGED <<lastWon, scoreVars, stageVars, tasks>>

\* PLAY_CARD of any card: one that is not accepted changes nothing.
HandlePlayCard(i, c) ==
    PutCard(i, c) \/ (~Accepts(i, c) /\ UNCHANGED <<playVars, scoreVars, stageVars, tasks>>)

\* A client that plays early does so before NEW_HAND has given it the turn.
PlayCard(u, c) ==
    /\ Handling
    /\ Heard(u)
    /\ \E i \in SeatOf(u) :
          /\ onTurn[i] \/ "early play" \in Inputs
          /\ MayPlay(i)
          /\ auto' = [auto EXCEPT ![i] = FALSE]
          /\ HandlePlayCard(i, c)
    /\ UNCHANGED <<seatVars, sessionVars, lifeVars, registerLeave, stock, napoliClaimed>>

HandleGameActionNapoli(u) ==
    /\ Handling
    /\ "napoli" \in Inputs
    /\ Heard(u)
    /\ u \notin napoliClaimed
    /\ \E i \in SeatOf(u) :
          /\ FindNapoli(hand[i]) # {}
          /\ points' = [points EXCEPT
                ![i] = Capped(@ + OnePoint * Cardinality(FindNapoli(hand[i])))]
    /\ napoliClaimed' = napoliClaimed \cup {u}
    /\ UNCHANGED <<seatVars, playVars, teamScores, winTeam, stageVars, sessionVars,
                   lifeVars, auto, registerLeave, stock, tasks>>
-----------------------------------------------------------------------------
(* The delayed tasks *)

\* Solo: every seat drops its odd thirds.  Duo: so does each seat of a side whose
\* total is not a whole number of points.
Trimmed(i) ==
    IF PlayerMode = 2 \/ (teamId[i] # -1 /\ SideTotal(points, teamId[i]) % OnePoint > 0)
    THEN Trim(points[i]) ELSE points[i]

HandleNewRound(t) ==
    /\ t.kind = "new_round"
    /\ napoliClaimed' = {}
    /\ points' = [i \in Seats |-> Trimmed(i)]
    /\ tasks' = Push(Push(tasks \ {t}, "deal", DealDelay), "new_hand", FirstHandDelay)
    /\ UNCHANGED <<seatVars, playVars, teamScores, winTeam, stageVars, auto,
                   registerLeave, stock>>

Hands == {h \in SUBSET Deck : Cardinality(h) = HandSize}
Deals == {d \in [Seats -> Hands] : \A i, j \in Seats : i # j => d[i] \cap d[j] = {}}

StockKeepsAll(d) == Deck        \* slip: the cards dealt stay in cards_
Undealt(d) == Deck \ UNION {d[i] : i \in Seats}

DealCards(t) ==
    /\ t.kind = "deal"
    /\ \E d \in Deals :
          /\ hand' = d
          /\ stock' = Undealt(d)
    /\ tasks' = tasks \ {t}
    /\ UNCHANGED <<seatVars, onTurn, turn, suit, table, lastWon, scoreVars, stageVars, auto,
                   registerLeave, napoliClaimed>>

\* The winner of the last trick leads, or seat 0.
HandleNewHand(t) ==
    LET lead == IF SeatOf(lastWon) = {} \/ lastWon = NoOne THEN 0 ELSE Min(SeatOf(lastWon))
    IN /\ t.kind = "new_hand"
       /\ suit' = NoSuit
       /\ turn' = lead
       /\ onTurn' = [onTurn EXCEPT ![lead] = TRUE]
       /\ tasks' = tasks \ {t}
       /\ UNCHANGED <<seatVars, hand, table, lastWon, scoreVars, stageVars, auto,
                      registerLeave, stock, napoliClaimed>>

\* Each seat in order takes a card, as far as the stock goes.
Draws == {d \in [Seats -> stock \cup {NoCard}] :
            \A i \in Seats : /\ d[i] = NoCard <=> i >= Cardinality(stock)
                             /\ \A j \in Seats : d[i] = d[j] => i = j \/ d[i] = NoCard}

HandleDrawCard(t) ==
    /\ t.kind = "draw"
    /\ \E d \in Draws :
          /\ hand' = [i \in Seats |-> hand[i] \cup ({d[i]} \ {NoCard})]
          /\ stock' = stock \ {d[i] : i \in Seats}
    /\ tasks' = tasks \ {t}
    /\ UNCHANGED <<seatVars, onTurn, turn, suit, table, lastWon, scoreVars, stageVars, auto,
                   registerLeave, napoliClaimed>>

ToKickOnRequest == registerLeave      \* slip: bots and autoplayers stay

ToKick == registerLeave \cup (Seated \cap Bots) \cup {uid[i] : i \in {j \in Seats : auto[j]}}

UpdateUsersStayingEndgame(t) ==
    /\ t.kind = "kick"
    /\ UserLeave(ToKick \ {NoOne})
    /\ tasks' = tasks \ {t}
    /\ UNCHANGED <<stock, napoliClaimed>>

\* Slip: a table short of players stays Ended.
AfterGameIfFull == IF CheckRoomFull THEN PrepareStartGame ELSE UNCHANGED <<state, startIn>>

AfterGame == IF CheckRoomFull THEN PrepareStartGame ELSE state' = "Waiting" /\ UNCHANGED startIn

NextGame(t) ==
    /\ t.kind = "next"
    /\ AfterGame
    /\ tasks' = tasks \ {t}
    /\ UNCHANGED <<seatVars, playVars, scoreVars, inGame, auto, registerLeave, stock,
                   napoliClaimed>>

RunDue ==
    /\ updating
    /\ \E t \in tasks :
          /\ IsNext(t)
          /\ \/ HandleNewRound(t) \/ DealCards(t) \/ HandleNewHand(t) \/ HandleDrawCard(t)
             \/ UpdateUsersStayingEndgame(t) \/ NextGame(t)
    /\ UNCHANGED <<sessionVars, lifeVars>>
-----------------------------------------------------------------------------
(* The rest of loop() *)

\* An hour has passed since the start.
Overtime ==
    /\ state = "Playing"
    /\ "overtime" \in Inputs
    /\ EndGame(teamScores)
    /\ UNCHANGED <<uid, teamId, viewers, playVars, points, teamScores, auto, registerLeave,
                   stock, napoliClaimed>>

\* MatchPlayer::auto_play, the deadline of the turn having passed.
AutoPlay(i) ==
    /\ state = "Playing"
    /\ onTurn[i]
    /\ uid[i] \in Users
    /\ auto' = [auto EXCEPT ![i] = TRUE]
    /\ IF MayPlay(i) /\ hand[i] # {}
       THEN \E c \in Responses(hand[i], suit) : HandlePlayCard(i, c)
       ELSE UNCHANGED <<playVars, scoreVars, stageVars, tasks>>
    /\ UNCHANGED <<uid, teamId, viewers, registerLeave, stock, napoliClaimed>>

BotForgetsSuit(i) == hand[i]    \* slip: the bot answers as if it led

\* The bot's search answers what it takes for the lead: the first card on the table in
\* seat order.
BotChoices(i) ==
    LET shown == {j \in Seats : table[j] # NoCard}
    IN IF suit = NoSuit \/ shown = {} THEN hand[i]
       ELSE Responses(hand[i], Suit(table[Min(shown)]))

BotPlayCard(i) ==
    /\ state = "Playing"
    /\ onTurn[i]
    /\ uid[i] \in Bots
    /\ MayPlay(i)
    /\ \E c \in BotChoices(i) : HandlePlayCard(i, c)
    /\ auto' = [auto EXCEPT ![i] = FALSE]
    /\ UNCHANGED <<uid, teamId, viewers, registerLeave, stock, napoliClaimed>>

StartGame ==
    /\ state = "PreparingStart"
    /\ startIn < 0
    /\ CheckRoomFull
    /\ state' = "Playing"
    /\ inGame' = TRUE
    /\ startIn' = 0
    /\ turn' = 0
    /\ suit' = NoSuit
    /\ table' = EmptyTable
    /\ stock' = {}
    /\ registerLeave' = {}
    /\ teamScores' = [t \in {0, 1} |-> 0]
    /\ lastWon' = NoOne
    /\ hand' = [i \in Seats |-> {}]
    /\ points' = [i \in Seats |-> 0]
    /\ auto' = [i \in Seats |-> FALSE]
    /\ onTurn' = [i \in Seats |-> FALSE]
    /\ tasks' = Push(tasks, "new_round", StartDelay)
    /\ UNCHANGED <<uid, teamId, viewers, winTeam, napoliClaimed>>

BackToWaiting ==
    /\ state = "PreparingStart"
    /\ startIn < 0
    /\ ~CheckRoomFull
    /\ state' = "Waiting"
    /\ startIn' = 0
    /\ UNCHANGED <<uid, teamId, viewers, playVars, scoreVars, inGame, auto, registerLeave,
                   stock, napoliClaimed, tasks>>

Prepare ==
    /\ state = "Waiting"
    /\ CheckRoomFull
    /\ PrepareStartGame
    /\ UNCHANGED <<uid, teamId, viewers, playVars, scoreVars, inGame, auto, registerLeave,
                   stock, napoliClaimed, tasks>>

CheckGenBot ==
    /\ state = "Waiting"
    /\ ~CheckRoomFull
    /\ Seated \cap Users # {} \/ viewers # {}
    /\ \E b \in freeBots : TryJoin(b)
    /\ UNCHANGED <<teamId, playVars, scoreVars, stageVars, auto, registerLeave, stock,
                   napoliClaimed, tasks>>

\* No deadline has passed, or there is nothing to do in this state.
Nothing ==
    /\ state = "PreparingStart" => startIn >= 0
    /\ state = "Waiting" => ~CheckRoomFull
    /\ UNCHANGED <<uid, teamId, viewers, playVars, scoreVars, stageVars, auto, registerLeave,
                   stock, napoliClaimed, tasks>>

RestOfLoop ==
    /\ BodyStep
    /\ \/ Overtime \/ StartGame \/ BackToWaiting \/ Prepare \/ CheckGenBot \/ Nothing
       \/ \E i \in Seats : AutoPlay(i) \/ BotPlayCard(i)
    /\ UNCHANGED sessionVars
    /\ FinishUpdate

Update ==
    /\ Handling
    /\ updating' = TRUE
    /\ UNCHANGED <<seatVars, playVars, scoreVars, stageVars, sessionVars, destroyed,
                   auto, registerLeave, stock, napoliClaimed, tasks>>

Tick ==
    /\ Handling
    /\ \A t \in tasks : t.due > -MaxLate
    /\ startIn > -MaxLate - 1
    /\ tasks' = {[kind |-> t.kind, due |-> t.due - 1, id |-> t.id] : t \in tasks}
    /\ startIn' = IF state = "PreparingStart" THEN startIn - 1 ELSE startIn
    /\ UNCHANGED <<seatVars, playVars, scoreVars, state, inGame, sessionVars, lifeVars,
                   auto, registerLeave, stock, napoliClaimed>>

Gone == destroyed /\ UNCHANGED vars
-----------------------------------------------------------------------------
(* Specification *)

\* The constructor, then the creator's try_join.
Init ==
    /\ state = "Waiting" /\ inGame = FALSE /\ startIn = 0
    /\ \E u \in Users : uid = [i \in Seats |-> IF i = 0 THEN u ELSE NoOne] /\ mapped = {u}
    /\ teamId = [i \in Seats |-> i % 2]
    /\ auto = [i \in Seats |-> FALSE] /\ onTurn = [i \in Seats |-> FALSE]
    /\ hand = [i \in Seats |-> {}] /\ points = [i \in Seats |-> 0]
    /\ viewers = {} /\ registerLeave = {}
    /\ turn = 0 /\ suit = 0 /\ table = EmptyTable /\ stock = {} /\ lastWon = NoOne
    /\ teamScores = [t \in {0, 1} |-> 0] /\ winTeam = -1 /\ napoliClaimed = {}
    /\ tasks = {} /\ freeBots = Bots
    /\ online = Users /\ mute = {} /\ settling = {}
    /\ updating = FALSE /\ destroyed = FALSE

Next ==
    \/ \E u \in Users :
          \/ Join(u) \/ HandleViewerEnterMatch(u) \/ MappedAway(u)
          \/ \E register \in BOOLEAN : HandleRegisterLeaveGame(u, register)
          \/ LoginSettled(u) \/ UserReturnToTable(u)
          \/ \E c \in Deck : PlayCard(u, c)
          \/ HandleGameActionNapoli(u)
    \/ \E gone \in SUBSET Users : RemoveSession(gone)
    \/ \E silenced \in SUBSET Users :
          Login({}, silenced) \/ \E u \in Users : Login({u}, silenced)
    \/ Tick \/ Update \/ RunDue \/ RestOfLoop \/ Gone

Spec == Init /\ [][Next]_vars

\* Time passes, the update timer fires and an update runs to its end; the deadline of a
\* turn, and that of the next bot, pass sooner or later.
Fairness ==
    /\ SF_vars(Tick) /\ WF_vars(Update) /\ WF_vars(RunDue) /\ WF_vars(RestOfLoop)
    /\ \A i \in Seats : SF_vars(RestOfLoop /\ (AutoPlay(i) \/ BotPlayCard(i)))
    /\ SF_vars(RestOfLoop /\ CheckGenBot)

FairSpec == Spec /\ Fairness
-----------------------------------------------------------------------------
(* Properties *)

\* Every variable keeps its type.
TypeOK ==
    /\ state \in States /\ inGame \in BOOLEAN /\ startIn \in Int
    /\ uid \in [Seats -> Everyone \cup {NoOne}]
    /\ teamId \in [Seats -> {-1, 0, 1}]
    /\ auto \in [Seats -> BOOLEAN] /\ onTurn \in [Seats -> BOOLEAN]
    /\ hand \in [Seats -> SUBSET Deck]
    /\ points \in [Seats -> 0..MaxPoints]
    /\ viewers \subseteq Users /\ registerLeave \subseteq Users
    /\ turn \in Seats \cup {-1} /\ suit \in -1..3
    /\ table \in [Seats -> Deck \cup {NoCard}]
    /\ stock \subseteq Deck
    /\ lastWon \in Everyone \cup {NoOne}
    /\ teamScores \in [{0, 1} -> Nat]
    /\ winTeam \in {-1, 0, 1}
    /\ napoliClaimed \subseteq Users
    /\ \A t \in tasks : t.kind \in TaskKinds /\ t.due \in Int
    /\ freeBots \subseteq Bots
    /\ mapped \subseteq Users
    /\ online \subseteq Users /\ mute \subseteq Users
    /\ settling \subseteq Users
    /\ updating \in BOOLEAN /\ destroyed \in BOOLEAN

\* Nobody is at the table twice, and a bot is either in the pool or on one seat: no
\* interleaving of joins, kicks, leaves and destruction leaks or doubles one.
PlacedOnce ==
    /\ \A i, j \in Seats : uid[i] = uid[j] /\ uid[i] # NoOne => i = j
    /\ viewers \cap Seated = {}
    /\ freeBots \cap Seated = {} \/ destroyed
    /\ Bots \subseteq freeBots \cup Seated

\* A game has all its seats taken, from its start to its end: whoever leaves or drops
\* meanwhile keeps the seat, which handle_play_card, end_hand and draw rely on.
SeatsFullInGame ==
    /\ inGame <=> state = "Playing"
    /\ inGame => CheckRoomFull

\* The queue is empty whenever a game starts: nothing scheduled by the last game (a deal,
\* a hand, a kick cut off by the end of the game) can run in the new one.
FreshStart ==
    BodyStep /\ state = "PreparingStart" /\ startIn < 0 => tasks = {}

\* Nobody watches from a lost connection whom the registry leads to this table and who did not
\* lose the connection to another login before: who went to another table, or was mute, is not
\* reported when the connection goes.
WatchersOnline == (viewers \cap mapped) \ mute \subseteq online

\* Only the seat whose turn it is has been asked to play.
OneTurn == state = "Playing" => \A i \in Seats : onTurn[i] => i = turn

\* No card is in two places.
CardsDisjoint ==
    LET shown == {table[i] : i \in Seats}
    IN /\ \A i, j \in Seats : i # j => hand[i] \cap hand[j] = {}
       /\ \A i, j \in Seats : table[i] = table[j] => i = j \/ table[i] = NoCard
       /\ \A i \in Seats : hand[i] \cap (stock \cup shown) = {}
       /\ stock \cap shown = {}

\* All seats have played equally often: counting the card on the table, they hold the same
\* number of cards.
HandsLevel ==
    state = "Playing" =>
        \A i, j \in Seats :
            Cardinality(hand[i]) + (IF table[i] = NoCard THEN 0 ELSE 1)
          = Cardinality(hand[j]) + (IF table[j] = NoCard THEN 0 ELSE 1)

\* The cards on the table were played in turn from one leader, up to the seat before the
\* one on turn, who alone is asked to play; the leader's suit is the suit to follow, and who
\* did not follow it cannot.
TrickInOrder ==
    LET shown == {i \in Seats : table[i] # NoCard}
    IN /\ OneTurn
       /\ state = "Playing" /\ shown # {} =>
            \E lead \in Seats :
                /\ shown = {(lead + k) % PlayerMode : k \in 0..(Cardinality(shown) - 1)}
                /\ turn = (lead + Cardinality(shown)) % PlayerMode
                /\ suit = Suit(table[lead])
                /\ \A i \in shown : Suit(table[i]) = suit \/ OfSuit(hand[i], suit) = {}

\* While a trick is being played the suit to follow is that of a card on the table: end_hand
\* finds the winner of every trick ("Invalid win_player_idx" is never met), even when a card
\* was played before NEW_HAND.
LedSuitOnTable ==
    state = "Playing" /\ turn # -1 /\ suit # NoSuit =>
        \E i \in Seats : table[i] # NoCard /\ Suit(table[i]) = suit

\* Who comes into the countdown of the next game after a game plays for himself: bots,
\* players on autoplay and those who asked to leave are gone by then.
KickedBeforeRematch ==
    [][state = "Ended" /\ state' = "PreparingStart" =>
        /\ registerLeave = {}
        /\ \A i \in Seats : uid[i] \in Users /\ ~auto[i]]_vars

CardsLeft == (stock \cup UNION {hand[i] \cup {table[i]} : i \in Seats}) \ {NoCard}

\* The thirds of a point some cards are worth, counted one by one.
ValueIn(cards) == Cardinality({x \in cards \X (1..OnePoint) : x[2] <= Value(x[1])})

\* What the seats have won and what is still to be won in the round.
Worth == SeatSum(points) + ValueIn(CardsLeft)

\* A round neither makes nor loses a third of a point: its worth stays the same with every
\* card played, trick taken and card drawn, but for the one point the last trick adds (as long as
\* the bound MaxPoints is not met).
PointsConserved ==
    [][(/\ state = "Playing" /\ CardsLeft # {} /\ napoliClaimed' = napoliClaimed
        /\ \A i \in Seats : points'[i] < MaxPoints)
       => Worth' = Worth + (IF CardsLeft' = {} THEN OnePoint ELSE 0)]_vars

\* The team declared the winner is not behind when the game ends: by a card or, in solo, by the
\* one-hour limit, whatever was trimmed since the scores were last counted.  (After a claim the
\* limit finds the scores of the last trick; in duo a new round may take more thirds from the
\* leaders than from the others.)
WinnerLeads ==
    [][(/\ state = "Playing" /\ state' = "Ended"
        /\ hand' # hand \/ (PlayerMode = 2 /\ napoliClaimed = {}))
       => LET totals == TeamTotals(points)' IN totals[winTeam'] >= totals[1 - winTeam']]_vars

\* No seat changes hands during a game, whoever drops, comes back, leaves or watches.
SeatsKeptInGame == [][inGame /\ inGame' => uid' = uid]_vars

\* A game whose seats all count for a side ends on points, without the one-hour limit,
\* unless everybody has gone.
GameEnds ==
    state = "Playing" /\ (\A i \in Seats : teamId[i] # -1) ~> state = "Ended" \/ destroyed

\* From some time on nobody connects or disconnects.
ConnectionsSettle == <>[][online' = online]_vars

\* A table somebody stays at always gets to play another game, once people have stopped
\* dropping out of its countdowns.
TablePlays ==
    ConnectionsSettle => (state # "Playing" ~> state = "Playing" \/ destroyed)

\* Who drops and stays away loses the seat, in the end, as long as games end: even if the drop
\* fell into another's turn and the game was over before autoplay could begin, the
\* next game makes up for it.
AbsentLeave ==
    ConnectionsSettle /\ []<>(state # "Playing") =>
        \A u \in Users : u \notin online ~> u \notin Seated \/ u \in online \/ destroyed

\* check_end_game: "Check if one team reaches point_to_win, then end game": after a trick
\* that takes a side (the even seats or the odd seats) to the target the game is over.
TargetEndsGame ==
    [][state = "Playing" /\ turn # -1 /\ turn' = -1 =>
        \A side \in {0, 1} :
            SeatSum([i \in Seats |-> IF i % 2 = side THEN points'[i] ELSE 0]) >= PointToWin
                => state' = "Ended"]_vars
=============================================================================
