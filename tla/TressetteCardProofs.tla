------------------------ MODULE TressetteCardProofs ------------------------
(***************************************************************************)
(* The cards of a table: none is ever in two places, whatever clients do;  *)
(* and where clients play only when they are asked to, everybody plays in  *)
(* turn, follows suit and holds as many cards as the others.               *)
(*                                                                         *)
(* A hand is opened by NEW_HAND, played, and ended by its last card, which *)
(* queues the next one.  A client that plays early, after the deal and     *)
(* before the first NEW_HAND, opens a hand that nothing has queued, and    *)
(* from then on there may be one hand too many, open or in the queue       *)
(* (Loose).  The spare one is lost (Tight) once a NEW_HAND strikes an open *)
(* trick, whose cards are then played over; until that happens the hands   *)
(* are level.  So a round either ends with all hands empty, or with no     *)
(* other hand in the queue, and nothing can be played until the next deal. *)
(* Last, the scores and the points: why the winner is not behind, and why  *)
(* a round neither makes nor loses a third of a point.                     *)
(***************************************************************************)
EXTENDS TressetteQueueProofs

\* Clients play only when they are asked to.
Calm == "early play" \notin Inputs

\* Somebody may play.
Open == IF Calm THEN \E i \in Seats : onTurn[i] ELSE turn # -1

AtMostOne(S) == \A t, o \in S : t = o
AtMostTwo(S) == \A t, o, p \in S : t = o \/ t = p \/ o = p

\* The tasks that open a hand, or will queue one that does, and those that deal.
HandTasks == {t \in tasks : t.kind \in {"new_hand", "new_round"}}
RoundTasks == {t \in tasks : t.kind \in {"deal", "new_round"}}

\* One hand at a time, open or queued; at most one more.
Tight == AtMostOne(HandTasks) /\ (Open => HandTasks = {})
Loose == AtMostTwo(HandTasks) /\ (Open => AtMostOne(HandTasks))

\* No card has been played over.
Even == Calm \/ ~Tight

Held(i) == Cardinality(hand[i]) + (IF table[i] = NoCard THEN 0 ELSE 1)
Level == \A i, j \in Seats : Held(i) = Held(j)

\* The k cards on the table are those of the leader and the next seats, up to the one on turn.
InTrick ==
    \E lead \in Seats, k \in Seats :
        /\ turn = (lead + k) % PlayerMode
        /\ \A j \in Seats : table[(lead + j) % PlayerMode] = NoCard <=> j >= k
        /\ suit = IF k = 0 THEN NoSuit ELSE Suit(table[lead])
        /\ Calm => \A i \in Seats : \/ table[i] = NoCard
                                    \/ Suit(table[i]) = suit \/ OfSuit(hand[i], suit) = {}

HandsEmpty == \A i \in Seats : hand[i] = {}

\* The deal of a round comes before its first hand, and no other hand is queued.
DealFirst ==
    \A r \in RoundTasks, t \in tasks :
        t.kind = "new_hand" => r.kind = "deal" /\ r.due <= t.due /\ r.id < t.id

\* Cards are drawn before the hand they are drawn for.
DrawFirst ==
    \A d \in tasks : d.kind = "draw" =>
        \E t \in tasks : t.kind = "new_hand" /\ d.due <= t.due /\ d.id < t.id

\* A new round is queued, and nobody can play until it is dealt.
BetweenRounds ==
    RoundTasks # {} =>
        /\ AtMostOne(RoundTasks)
        /\ stock = {}
        /\ HandsEmpty \/ (~Calm /\ ~Open /\ DealFirst)

GameInv ==
    /\ Loose /\ (Even => Level /\ (Open => InTrick))
    /\ ~Open => table = EmptyTable
    /\ BetweenRounds
    /\ Calm => Tight /\ DrawFirst /\ OneTurn

CardInv ==
    /\ CardsDisjoint
    /\ Cardinality(stock) % PlayerMode = 0
    /\ turn = -1 \/ RoundTasks # {} => table = EmptyTable
    /\ state = "Playing" => GameInv
-----------------------------------------------------------------------------
(* Sets of cards *)

LEMMA DeckFinite == IsFiniteSet(Deck)
<1>0. 0 \in Int /\ 39 \in Int
  OBVIOUS
<1>1. IsFiniteSet(0..39)
  BY <1>0, FS_Interval, Zenon
<1>2. Deck \in SUBSET (0..39)
  BY DeckAssumption DEF AllCards
<1> QED
  BY <1>1, <1>2, FS_Subset, Zenon

LEMMA CardsFinite ==
  ASSUME NEW S \in SUBSET Deck PROVE IsFiniteSet(S) /\ Cardinality(S) \in Nat
  BY DeckFinite, FS_Subset, FS_CardinalityType

LEMMA NoCardOutside == NoCard \notin Deck
  BY DeckAssumption DEF AllCards, NoCard

LEMMA CardOut ==
  ASSUME NEW S \in SUBSET Deck, NEW c \in S
  PROVE  Cardinality(S \ {c}) = Cardinality(S) - 1 /\ Cardinality(S) \in Nat
  BY CardsFinite, FS_RemoveElement

LEMMA CardIn ==
  ASSUME NEW S \in SUBSET Deck, NEW c \in Deck \ S
  PROVE  Cardinality(S \cup {c}) = Cardinality(S) + 1 /\ Cardinality(S) \in Nat
  BY CardsFinite, FS_AddElement

LEMMA DisjointCards ==
  ASSUME NEW S \in SUBSET Deck, NEW T \in SUBSET Deck, S \cap T = {}
  PROVE  Cardinality(S \cup T) = Cardinality(S) + Cardinality(T)
<1>1. IsFiniteSet(S) /\ IsFiniteSet(T) /\ Cardinality(S) \in Nat /\ Cardinality(T) \in Nat
  BY CardsFinite
<1>2. Cardinality(S \cup T) = Cardinality(S) + Cardinality(T) - Cardinality(S \cap T)
  BY <1>1, FS_Union
<1>3. Cardinality(S \cap T) = 0
  BY FS_EmptySet, Zenon
<1> QED
  BY <1>1, <1>2, <1>3

LEMMA NoCards ==
  ASSUME NEW S \in SUBSET Deck PROVE Cardinality(S) = 0 <=> S = {}
  BY CardsFinite, FS_EmptySet
-----------------------------------------------------------------------------
(* A card put on the table *)

\* What is known when a card is put: somebody may play, and it is the turn of seat i.
Playable(i) == state = "Playing" /\ turn = i /\ (Calm => onTurn[i])

LEMMA PlayableOpen ==
  ASSUME TypeInv, CardInv, NEW i \in Seats, Playable(i), hand[i] # {}
  PROVE  /\ Open /\ RoundTasks = {} /\ GameInv
         /\ Calm => \A j \in Seats : onTurn[j] <=> j = i
<1>1. GameInv /\ Open
  BY SeatsAre DEF CardInv, Playable, Open
<1>2. RoundTasks = {}
  BY <1>1 DEF GameInv, BetweenRounds, HandsEmpty
<1>3. Calm => \A j \in Seats : onTurn[j] <=> j = i
  BY <1>1 DEF GameInv, OneTurn, Playable
<1> QED
  BY <1>1, <1>2, <1>3

\* The card leaves its hand for the table, or for nowhere, and no other card moves.
LEMMA CardMoves ==
  ASSUME TypeInv, CardsDisjoint, NEW i \in Seats, NEW c \in hand[i],
         hand' = [hand EXCEPT ![i] = @ \ {c}], stock' = stock,
         table' = [table EXCEPT ![i] = c] \/ table' = EmptyTable
  PROVE  CardsDisjoint'
<1>1. /\ hand \in [Seats -> SUBSET Deck] /\ table \in [Seats -> Deck \cup {NoCard}]
      /\ stock \subseteq Deck /\ NoCard \notin Deck /\ c \in Deck
  BY NoCardOutside DEF TypeInv, TypeOK
<1>2. /\ \A j \in Seats : hand'[j] \subseteq hand[j]
      /\ c \notin hand'[i]
  BY <1>1
<1>3. \A j \in Seats : \/ table'[j] = NoCard
                       \/ j # i /\ table'[j] = table[j]
                       \/ j = i /\ table'[j] = c
  BY <1>1 DEF EmptyTable
<1>4. \A j, k \in Seats : j # k => hand'[j] \cap hand'[k] = {}
  BY <1>2 DEF CardsDisjoint
<1>5. \A j \in Seats : j # i => c \notin hand[j]
  BY <1>1 DEF CardsDisjoint
<1>6. c \notin stock /\ \A j \in Seats : table[j] # c
  BY <1>1 DEF CardsDisjoint
<1>7. \A j, k \in Seats : table'[j] = table'[k] => j = k \/ table'[j] = NoCard
  BY <1>3, <1>6 DEF CardsDisjoint
<1>8. \A j, k \in Seats : table'[k] \notin hand'[j]
  <2> TAKE j \in Seats, k \in Seats
  <2>1. NoCard \notin hand'[j]
    BY <1>1, <1>2
  <2>2. table[k] \notin hand[j]
    BY DEF CardsDisjoint
  <2>3. c \notin hand'[j]
    BY <1>2, <1>5
  <2> QED
    BY <1>2, <1>3, <2>1, <2>2, <2>3
<1>9. \A j \in Seats : hand'[j] \cap stock' = {}
  BY <1>2 DEF CardsDisjoint
<1>10. \A k \in Seats : table'[k] \notin stock'
  <2> TAKE k \in Seats
  <2>1. table[k] \notin stock /\ NoCard \notin stock
    BY <1>1 DEF CardsDisjoint
  <2> QED
    BY <1>3, <1>6, <2>1
<1>11. \A j \in Seats : hand'[j] \cap (stock' \cup {table'[k] : k \in Seats}) = {}
  BY <1>8, <1>9
<1>12. stock' \cap {table'[k] : k \in Seats} = {}
  BY <1>10
<1> QED
  BY <1>4, <1>7, <1>11, <1>12 DEF CardsDisjoint

\* Counting from any seat, each seat is met.
LEMMA Around ==
  ASSUME NEW lead \in Seats PROVE \A x \in Seats : \E j \in Seats : x = (lead + j) % PlayerMode
<1> DEFINE after(x) == IF x >= lead THEN x - lead ELSE x + PlayerMode - lead
<1>1. \A x \in Seats : after(x) \in Seats /\ x = (lead + after(x)) % PlayerMode
  BY SeatsAre
<1> QED
  BY <1>1

\* The seat on turn has no card on the table yet.
LEMMA TurnHasNoCard ==
  ASSUME NEW i \in Seats, turn = i, InTrick
  PROVE  table[i] = NoCard
  BY SeatsAre DEF InTrick

LEMMA LevelCard ==
  ASSUME TypeInv, NEW i \in Seats, NEW c \in hand[i], Level, table[i] = NoCard,
         hand' = [hand EXCEPT ![i] = @ \ {c}],
         \/ table' = [table EXCEPT ![i] = c]
         \/ table' = EmptyTable /\ \A j \in Seats : j # i => table[j] # NoCard
  PROVE  Level'
<1>1. hand \in [Seats -> SUBSET Deck] /\ table \in [Seats -> Deck \cup {NoCard}] /\ c # NoCard
  BY NoCardOutside DEF TypeInv, TypeOK
<1>2. Cardinality(hand'[i]) = Cardinality(hand[i]) - 1
  BY <1>1, CardOut
<1>3. \A j \in Seats : /\ Cardinality(hand[j]) \in Nat
                       /\ j # i => hand'[j] = hand[j]
  BY <1>1, CardsFinite
<1>4. CASE table' = [table EXCEPT ![i] = c]
  <2>1. \A j \in Seats : Held(j)' = Held(j)
    BY <1>1, <1>2, <1>3, <1>4 DEF Held
  <2> QED
    BY <2>1 DEF Level
<1>5. CASE table' = EmptyTable /\ \A j \in Seats : j # i => table[j] # NoCard
  <2>1. \A j \in Seats : Held(j)' = Held(j) - 1
    BY <1>1, <1>2, <1>3, <1>5 DEF Held, EmptyTable
  <2> QED
    BY <2>1 DEF Level
<1> QED
  BY <1>4, <1>5

\* The trick goes on with the next seat.
LEMMA TrickGoesOn ==
  ASSUME TypeInv, NEW i \in Seats, NEW c, turn = i, InTrick, Accepts(i, c),
         hand' = [hand EXCEPT ![i] = @ \ {c}], table' = [table EXCEPT ![i] = c],
         suit' = SuitLed(c), turn' = NextSeat(i), ~Done(table')
  PROVE  InTrick'
<1>1. /\ hand \in [Seats -> SUBSET Deck] /\ table \in [Seats -> Deck \cup {NoCard}]
      /\ c \in hand[i]
  BY DEF TypeInv, TypeOK, Accepts
<1>2. NoCard \notin Deck /\ c # NoCard /\ Deck \subseteq AllCards
  BY <1>1, NoCardOutside, DeckAssumption
<1>3. PICK lead \in Seats, k \in Seats :
        /\ turn = (lead + k) % PlayerMode
        /\ \A j \in Seats : table[(lead + j) % PlayerMode] = NoCard <=> j >= k
        /\ suit = IF k = 0 THEN NoSuit ELSE Suit(table[lead])
        /\ Calm => \A x \in Seats : \/ table[x] = NoCard
                                    \/ Suit(table[x]) = suit \/ OfSuit(hand[x], suit) = {}
  BY DEF InTrick
<1>4. \A j \in Seats : /\ (lead + j) % PlayerMode \in Seats
                       /\ table'[(lead + j) % PlayerMode] =
                            IF j = k THEN c ELSE table[(lead + j) % PlayerMode]
  BY <1>1, <1>3, SeatsAre
<1>5. \A x \in Seats : \E j \in Seats : x = (lead + j) % PlayerMode
  BY Around
<1>6. k + 1 \in Seats
  <2>1. k # PlayerMode - 1
    <3> SUFFICES ASSUME k = PlayerMode - 1 PROVE FALSE
      OBVIOUS
    <3>1. \A j \in Seats : table'[(lead + j) % PlayerMode] # NoCard
      BY <1>2, <1>3, <1>4, SeatsAre
    <3> QED
      BY <1>5, <3>1 DEF Done
  <2> QED
    BY <2>1, SeatsAre
<1>7. turn' = (lead + (k + 1)) % PlayerMode
  BY <1>3, <1>6, SeatsAre DEF NextSeat
<1>8. \A j \in Seats : table'[(lead + j) % PlayerMode] = NoCard <=> j >= k + 1
  BY <1>2, <1>3, <1>4, SeatsAre
<1>9. suit' = Suit(table'[lead]) /\ (k # 0 => suit' = suit)
  <2>1. (lead + 0) % PlayerMode = lead /\ 0 \in Seats
    BY SeatsAre
  <2>2. CASE k = 0
    <3>1. table'[lead] = c
      BY <1>4, <2>1, <2>2
    <3> QED
      BY <1>3, <2>2, <3>1 DEF SuitLed
  <2>3. CASE k # 0
    <3>1. table'[lead] = table[lead] /\ table[lead] # NoCard
      BY <1>3, <1>4, <2>1, <2>3, SeatsAre
    <3>2. Suit(table[lead]) \in 0..3
      BY <1>1, <1>2, <3>1, SuitType
    <3>3. suit = Suit(table[lead]) /\ suit # NoSuit
      BY <1>3, <2>3, <3>2 DEF NoSuit
    <3> QED
      BY <3>1, <3>3 DEF SuitLed
  <2> QED
    BY <2>2, <2>3
<1>10. ASSUME Calm, NEW x \in Seats, table'[x] # NoCard
       PROVE  Suit(table'[x]) = suit' \/ OfSuit(hand'[x], suit') = {}
  <2>1. CASE x = i
    <3>1. table'[x] = c /\ hand'[x] \subseteq hand[i]
      BY <1>1, <2>1
    <3>2. suit' = Suit(c) \/ OfSuit(hand[i], suit') = {}
      BY DEF Accepts, SuitLed
    <3> QED
      BY <3>1, <3>2 DEF OfSuit
  <2>2. CASE x # i
    <3>1. table'[x] = table[x] /\ hand'[x] = hand[x]
      BY <1>1, <2>2
    <3>2. k # 0
      BY <1>3, <1>5, <1>10, <3>1, SeatsAre
    <3> QED
      BY <1>3, <1>9, <1>10, <3>1, <3>2
  <2> QED
    BY <2>1, <2>2
<1>11. suit' = IF k + 1 = 0 THEN NoSuit ELSE Suit(table'[lead])
  BY <1>9, SeatsAre
<1>12. Calm => \A x \in Seats : \/ table'[x] = NoCard
                                \/ Suit(table'[x]) = suit' \/ OfSuit(hand'[x], suit') = {}
  BY <1>10
<1> QED
  BY <1>6, <1>7, <1>8, <1>11, <1>12 DEF InTrick, Calm

\* A card that does not complete the trick.
LEMMA CardGoesOn ==
  ASSUME TypeInv, CardInv, NEW i \in Seats, NEW c, Playable(i), Accepts(i, c),
         hand' = [hand EXCEPT ![i] = @ \ {c}], table' = [table EXCEPT ![i] = c],
         suit' = SuitLed(c), ~Done(table'),
         turn' = NextSeat(i), onTurn' = [Played(i) EXCEPT ![NextSeat(i)] = TRUE],
         UNCHANGED <<state, stock, tasks>>
  PROVE  CardInv'
<1>1. /\ hand \in [Seats -> SUBSET Deck] /\ onTurn \in [Seats -> BOOLEAN]
      /\ c \in hand[i] /\ hand[i] # {}
  BY DEF TypeInv, TypeOK, Accepts
<1>2. /\ Open /\ RoundTasks = {} /\ GameInv /\ state' = "Playing"
      /\ Calm => \A j \in Seats : onTurn[j] <=> j = i
  BY <1>1, PlayableOpen DEF Playable
<1>3. turn' \in Seats /\ turn' # -1
  BY NextSeatIsSeat, SeatsAre
<1>4. Calm => \A j \in Seats : onTurn'[j] <=> j = turn'
  BY <1>1, <1>2, <1>3 DEF Played
<1>5. Open'
  BY <1>3, <1>4 DEF Open, Calm
<1>6. HandTasks' = HandTasks /\ RoundTasks' = {}
  BY <1>2 DEF HandTasks, RoundTasks
<1>7. Loose' /\ (Tight' <=> Tight)
  BY <1>2, <1>5, <1>6 DEF GameInv, Loose, Tight
<1>8. CardsDisjoint'
  BY <1>1, CardMoves DEF CardInv
<1>9. Even' => Even
  BY <1>7 DEF Even, Calm
<1>10. Even => Level' /\ InTrick'
  <2> SUFFICES ASSUME Even PROVE Level' /\ InTrick'
    OBVIOUS
  <2>1. Level /\ InTrick /\ turn = i
    BY <1>2 DEF GameInv, Playable
  <2>2. table[i] = NoCard
    BY <2>1, TurnHasNoCard
  <2> QED
    BY <1>1, <2>1, <2>2, LevelCard, TrickGoesOn
<1>11. DrawFirst' <=> DrawFirst
  BY DEF DrawFirst
<1>12. GameInv'
  BY <1>2, <1>3, <1>4, <1>5, <1>6, <1>7, <1>9, <1>10, <1>11
  DEF GameInv, BetweenRounds, OneTurn, Calm
<1> QED
  BY <1>3, <1>6, <1>8, <1>12 DEF CardInv

\* What end_hand queues: one task of the hand, and before it the draw, if there is one.
LEMMA AfterTrickTasks ==
  ASSUME Numbered(tasks), NEW endRound \in BOOLEAN, tasks' = AfterTrick(endRound)
  PROVE  \E t \in tasks' :
            /\ t \notin tasks
            /\ t.kind = IF endRound THEN "new_round" ELSE "new_hand"
            /\ HandTasks' = HandTasks \cup {t}
            /\ RoundTasks' = RoundTasks \cup IF endRound THEN {t} ELSE {}
            /\ \A o \in tasks' : \/ o \in tasks \/ o = t
                                 \/ o.kind = "draw" /\ ~endRound /\ o.due <= t.due /\ o.id < t.id
<1> DEFINE round == [kind |-> "new_round", due |-> RoundDelay, id |-> NextId(tasks)]
           next == [kind |-> "new_hand", due |-> HandDelay, id |-> NextId(tasks)]
           q == Push(tasks, "draw", DrawDelay)
           draw == [kind |-> "draw", due |-> DrawDelay, id |-> NextId(tasks)]
           drawn == [kind |-> "new_hand", due |-> HandDelayDraw, id |-> NextId(q)]
<1>1. /\ round.kind = "new_round" /\ next.kind = "new_hand"
      /\ draw.kind = "draw" /\ drawn.kind = "new_hand" /\ draw.due <= drawn.due
      /\ round.id = NextId(tasks) /\ next.id = NextId(tasks)
      /\ draw.id = NextId(tasks) /\ drawn.id = NextId(q)
  BY DelayAssumption
<1>2. \/ endRound /\ tasks' = tasks \cup {round}
      \/ ~endRound /\ tasks' = tasks \cup {next}
      \/ ~endRound /\ tasks' = q \cup {drawn} /\ q = tasks \cup {draw}
  BY DEF AfterTrick, Push
<1>3. Numbered(q) /\ \A t \in tasks : t.id # NextId(tasks)
  BY PushNumbers
<1>4. \A t \in q : t.id # NextId(q) /\ t.id < NextId(q)
  BY <1>3, PushNumbers
<1> HIDE DEF round, next, draw, drawn, q
<1>5. CASE endRound /\ tasks' = tasks \cup {round}
  <2>1. round \in tasks' /\ round \notin tasks
    BY <1>1, <1>3, <1>5
  <2>2. HandTasks' = HandTasks \cup {round} /\ RoundTasks' = RoundTasks \cup {round}
    BY <1>1, <1>5 DEF HandTasks, RoundTasks
  <2> QED
    BY <1>1, <1>5, <2>1, <2>2
<1>6. CASE ~endRound /\ tasks' = tasks \cup {next}
  <2>1. next \in tasks' /\ next \notin tasks
    BY <1>1, <1>3, <1>6
  <2>2. HandTasks' = HandTasks \cup {next} /\ RoundTasks' = RoundTasks
    BY <1>1, <1>6 DEF HandTasks, RoundTasks
  <2> QED
    BY <1>1, <1>6, <2>1, <2>2
<1>7. CASE ~endRound /\ tasks' = q \cup {drawn} /\ q = tasks \cup {draw}
  <2>1. drawn \in tasks' /\ drawn \notin tasks
    BY <1>1, <1>4, <1>7
  <2>2. HandTasks' = HandTasks \cup {drawn} /\ RoundTasks' = RoundTasks
    BY <1>1, <1>7 DEF HandTasks, RoundTasks
  <2>3. draw.id < drawn.id
    BY <1>1, <1>4, <1>7
  <2>4. \A o \in tasks' : \/ o \in tasks \/ o = drawn
                          \/ o.kind = "draw" /\ o.due <= drawn.due /\ o.id < drawn.id
    BY <1>1, <1>7, <2>3
  <2> QED
    BY <1>1, <1>7, <2>1, <2>2, <2>4
<1> QED
  BY <1>2, <1>5, <1>6, <1>7

\* The last card of a trick, when the game goes on.
LEMMA TrickEnds ==
  ASSUME TypeInv, QueueInv, CardInv, NEW i \in Seats, NEW c, Playable(i), Accepts(i, c),
         hand' = [hand EXCEPT ![i] = @ \ {c}], Done([table EXCEPT ![i] = c]),
         table' = EmptyTable, turn' = -1, onTurn' = Played(i),
         tasks' = AfterTrick(stock = {} /\ hand'[0] = {}),
         UNCHANGED <<state, stock>>
  PROVE  CardInv'
<1> DEFINE endRound == stock = {} /\ hand'[0] = {}
<1>1. /\ hand \in [Seats -> SUBSET Deck] /\ onTurn \in [Seats -> BOOLEAN]
      /\ table \in [Seats -> Deck \cup {NoCard}]
      /\ c \in hand[i] /\ hand[i] # {}
  BY DEF TypeInv, TypeOK, Accepts
<1>2. /\ Open /\ RoundTasks = {} /\ GameInv /\ state' = "Playing"
      /\ Calm => \A j \in Seats : onTurn[j] <=> j = i
  BY <1>1, PlayableOpen DEF Playable
<1>3. Calm => \A j \in Seats : ~onTurn'[j]
  BY <1>1, <1>2 DEF Played
<1>4. ~Open'
  BY <1>3 DEF Open, Calm
<1>5. Numbered(tasks) /\ endRound \in BOOLEAN
  BY DEF QueueInv
<1>6. PICK t \in tasks' :
            /\ t \notin tasks
            /\ t.kind = IF endRound THEN "new_round" ELSE "new_hand"
            /\ HandTasks' = HandTasks \cup {t}
            /\ RoundTasks' = RoundTasks \cup IF endRound THEN {t} ELSE {}
            /\ \A o \in tasks' : \/ o \in tasks \/ o = t
                                 \/ o.kind = "draw" /\ ~endRound /\ o.due <= t.due /\ o.id < t.id
  <2> HIDE DEF endRound
  <2>1. tasks' = AfterTrick(endRound)
    BY DEF endRound
  <2> QED
    BY <1>5, <2>1, AfterTrickTasks
<1>7. CardsDisjoint'
  BY <1>1, CardMoves DEF CardInv
<1>8. Loose'
  BY <1>2, <1>4, <1>6 DEF GameInv, Loose, AtMostOne, AtMostTwo
<1>9. Tight => Tight' /\ HandTasks = {}
  BY <1>2, <1>4, <1>6 DEF Tight, AtMostOne
<1>10. Even' => Even
  BY <1>9 DEF Even, Calm
<1>11. Even => Level'
  <2> SUFFICES ASSUME Even PROVE Level'
    OBVIOUS
  <2>1. Level /\ table[i] = NoCard
    BY <1>2, TurnHasNoCard DEF GameInv, Playable
  <2>2. \A j \in Seats : j # i => table[j] # NoCard
    BY <1>1 DEF Done
  <2> QED
    BY <1>1, <2>1, <2>2, LevelCard
<1>12. BetweenRounds'
  <2> SUFFICES ASSUME endRound PROVE BetweenRounds'
    BY <1>2, <1>6 DEF BetweenRounds
  <2>1. RoundTasks' = {t} /\ stock' = {}
    BY <1>2, <1>6
  <2>2. CASE Even
    <3>1. hand' \in [Seats -> SUBSET Deck] /\ 0 \in Seats
      BY <1>1, SeatsAre
    <3>2. \A j \in Seats : Held(j)' = Cardinality(hand'[j])
      BY <3>1, CardsFinite DEF Held, EmptyTable
    <3>3. Cardinality(hand'[0]) = 0
      BY <3>1, NoCards
    <3>4. \A j \in Seats : Cardinality(hand'[j]) = 0
      <4>1. \A j \in Seats : Held(j)' = Held(0)'
        BY <1>11, <2>2, <3>1 DEF Level
      <4> QED
        BY <3>1, <3>2, <3>3, <4>1
    <3>5. HandsEmpty'
      BY <3>1, <3>4, NoCards DEF HandsEmpty
    <3> QED
      BY <2>1, <3>5 DEF BetweenRounds, AtMostOne
  <2>3. CASE ~Even
    <3>1. HandTasks = {}
      BY <1>9, <2>3 DEF Even
    <3>2. \A o \in tasks : o.kind # "new_hand"
      BY <3>1 DEF HandTasks
    <3>3. \A o \in tasks' : o.kind # "new_hand"
      BY <1>6, <3>2
    <3>4. DealFirst'
      BY <3>3 DEF DealFirst
    <3> QED
      BY <1>4, <2>1, <2>3, <3>4 DEF BetweenRounds, AtMostOne, Even, Calm
  <2> QED
    BY <2>2, <2>3
<1>13. Calm => DrawFirst'
  <2> SUFFICES ASSUME Calm PROVE DrawFirst'
    OBVIOUS
  <2>1. \A o \in tasks : o.kind # "draw"
    BY <1>2 DEF GameInv, Tight, DrawFirst, HandTasks
  <2> QED
    BY <1>6, <2>1 DEF DrawFirst
<1>14. Calm => OneTurn' /\ Tight'
  BY <1>2, <1>3, <1>9 DEF OneTurn, GameInv
<1>15. GameInv'
  BY <1>4, <1>8, <1>10, <1>11, <1>12, <1>13, <1>14 DEF GameInv, Calm
<1> QED
  BY <1>7, <1>15 DEF CardInv

\* Steps that move no card.
LEMMA CardsKept ==
  ASSUME CardInv, UNCHANGED <<hand, onTurn, turn, suit, table, stock, tasks>>,
         state' = "Playing" => state = "Playing"
  PROVE  CardInv'
<1>1. Loose' = Loose /\ Tight' = Tight /\ Open' = Open /\ Even' = Even
  BY DEF Loose, Tight, Even, Open, HandTasks, Calm
<1>2. Level' = Level /\ InTrick' = InTrick
  BY DEF Level, Held, InTrick, Calm
<1>3. BetweenRounds' = BetweenRounds /\ DrawFirst' = DrawFirst /\ RoundTasks' = RoundTasks
  BY DEF BetweenRounds, HandsEmpty, DealFirst, DrawFirst, RoundTasks, Open, Calm
<1>4. \A i \in Seats : onTurn'[i] => onTurn[i]
  OBVIOUS
<1>5. GameInv /\ state = "Playing" /\ state' = "Playing" => GameInv'
  BY <1>1, <1>2, <1>3, <1>4 DEF GameInv, OneTurn, Calm
<1> QED
  BY <1>3, <1>5 DEF CardInv, CardsDisjoint

\* A card played, accepted or not.
LEMMA CardPut ==
  ASSUME TypeInv, QueueInv, CardInv, NEW i \in Seats, NEW c, Playable(i), HandlePlayCard(i, c),
         stock' = stock
  PROVE  CardInv'
<1>1. CASE UNCHANGED <<playVars, scoreVars, stageVars, tasks>>
  <2>1. UNCHANGED <<hand, onTurn, turn, suit, table, state, tasks>>
    BY <1>1 DEF playVars, stageVars
  <2> QED
    BY <2>1, CardsKept
<1>2. CASE PutCard(i, c)
  <2> DEFINE compared == [table EXCEPT ![i] = c]
             left == [hand EXCEPT ![i] = @ \ {c}]
  <2>1. /\ Accepts(i, c) /\ hand' = left /\ suit' = SuitLed(c)
        /\ \/ /\ Done(compared) /\ turn' = -1 /\ onTurn' = Played(i)
              /\ EndHand(compared, left, SuitLed(c))
           \/ /\ ~Done(compared) /\ turn' = NextSeat(i)
              /\ onTurn' = [Played(i) EXCEPT ![NextSeat(i)] = TRUE]
              /\ table' = compared
              /\ UNCHANGED <<lastWon, scoreVars, stageVars, tasks>>
    BY <1>2 DEF PutCard
  <2>2. CASE ~Done(compared)
    BY <2>1, <2>2, CardGoesOn DEF stageVars
  <2>3. CASE Done(compared) /\ \E totals : EndGame(totals)
    <3>1. table' = EmptyTable /\ turn' = -1 /\ state' = "Ended"
      BY <2>1, <2>3 DEF EndHand, EndGame
    <3>2. c \in hand[i]
      BY <2>1 DEF Accepts
    <3>3. CardsDisjoint'
      BY <2>1, <3>1, <3>2, CardMoves DEF CardInv
    <3> QED
      BY <3>1, <3>3 DEF CardInv
  <2>4. CASE Done(compared) /\ ~(\E totals : EndGame(totals))
    <3>1. /\ table' = EmptyTable /\ UNCHANGED stageVars
          /\ tasks' = AfterTrick(stock = {} /\ left[0] = {})
      BY <2>1, <2>4 DEF EndHand
    <3> QED
      BY <2>1, <2>4, <3>1, TrickEnds DEF stageVars
  <2> QED
    BY <2>2, <2>3, <2>4
<1> QED
  BY <1>1, <1>2 DEF HandlePlayCard
-----------------------------------------------------------------------------
(* Leaving, and time *)

\* Between two games cards may be put away and tasks may go; no round is queued.
LEMMA IdleCards ==
  ASSUME TypeInv, CardInv, state' # "Playing", UNCHANGED <<turn, table, stock>>,
         \A i \in Seats : hand'[i] \subseteq hand[i],
         RoundTasks' # {} => RoundTasks # {}
  PROVE  CardInv'
  BY DEF CardInv, CardsDisjoint

\* Whoever leaves during a game has no seat; between games the cards go too.
LEMMA LeaveCards ==
  ASSUME TypeInv, SeatInv, CardInv, NEW leavers, UserLeave(leavers),
         inGame => uid' = uid, inGame => NoOne \notin leavers,
         tasks' \subseteq tasks, inGame => tasks' = tasks, stock' = stock
  PROVE  CardInv'
<1>0. /\ uid \in [Seats -> Everyone \cup {NoOne}]
      /\ hand \in [Seats -> SUBSET Deck] /\ onTurn \in [Seats -> BOOLEAN]
  BY DEF TypeInv, TypeOK
<1>1. CASE inGame
  <2>1. \A i \in Seats : uid[i] \notin leavers
    <3>1. \A i \in Seats : uid'[i] = IF uid[i] \in leavers THEN NoOne ELSE uid[i]
      BY DEF UserLeave
    <3> QED
      BY <1>1, <3>1
  <2>2. hand' = hand /\ onTurn' = onTurn
    <3>1. /\ hand' = [i \in Seats |-> IF uid[i] \in leavers THEN {} ELSE hand[i]]
          /\ onTurn' = [i \in Seats |-> onTurn[i] /\ ~(uid[i] \in leavers)]
      BY DEF UserLeave
    <3>2. hand' = hand
      BY <1>0, <2>1, <3>1
    <3>3. onTurn' = onTurn
      BY <1>0, <2>1, <3>1
    <3> QED
      BY <3>2, <3>3
  <2>3. UNCHANGED <<turn, suit, table, stock, tasks, state>>
    BY <1>1 DEF UserLeave, SeatInv, SeatsFullInGame
  <2> QED
    BY <2>2, <2>3, CardsKept
<1>2. CASE ~inGame
  <2>1. state' # "Playing"
    BY <1>2 DEF UserLeave, SeatInv, SeatsFullInGame
  <2>2. UNCHANGED <<turn, table, stock>> /\ \A i \in Seats : hand'[i] \subseteq hand[i]
    BY <1>0 DEF UserLeave
  <2>3. RoundTasks' \subseteq RoundTasks
    BY DEF RoundTasks
  <2> QED
    BY <2>1, <2>2, <2>3, IdleCards
<1> QED
  BY <1>1, <1>2

LEMMA TickCards == ASSUME TypeInv, CardInv, Tick PROVE CardInv'
<1> DEFINE late(t) == [kind |-> t.kind, due |-> t.due - 1, id |-> t.id]
<1>1. UNCHANGED <<hand, onTurn, turn, suit, table, stock, state>>
  BY DEF Tick, playVars
<1>2. (\A t \in tasks' : \E o \in tasks : t = late(o)) /\ (\A o \in tasks : late(o) \in tasks')
  BY DEF Tick
<1>3. \A o \in tasks : late(o).kind = o.kind /\ late(o).due = o.due - 1 /\ late(o).id = o.id
  OBVIOUS
<1>4. \A o \in tasks : o.due \in Int
  BY DEF TypeInv, TypeOK
<1> HIDE DEF late
<1>5. /\ \A t \in HandTasks' : \E o \in HandTasks : t = late(o)
      /\ \A o \in HandTasks : late(o) \in HandTasks'
      /\ \A t \in RoundTasks' : \E o \in RoundTasks : t = late(o)
  BY <1>2, <1>3 DEF HandTasks, RoundTasks
<1>6. Open' = Open
  BY <1>1 DEF Open, Calm
<1>7. /\ AtMostOne(HandTasks) => AtMostOne(HandTasks')
      /\ AtMostTwo(HandTasks) => AtMostTwo(HandTasks')
      /\ HandTasks = {} => HandTasks' = {}
      /\ AtMostOne(RoundTasks) => AtMostOne(RoundTasks')
      /\ RoundTasks = {} => RoundTasks' = {}
  BY <1>5 DEF AtMostOne, AtMostTwo
<1>8. (Loose => Loose') /\ (Tight => Tight')
  BY <1>6, <1>7 DEF Loose, Tight
<1>9. Even' => Even
  BY <1>8 DEF Even, Calm
<1>10. Level' = Level /\ InTrick' = InTrick
  BY <1>1 DEF Level, Held, InTrick, Calm
<1>11. DealFirst => DealFirst'
  <2> SUFFICES ASSUME DealFirst, NEW r \in RoundTasks', NEW t \in tasks', t.kind = "new_hand"
               PROVE  r.kind = "deal" /\ r.due <= t.due /\ r.id < t.id
    BY DEF DealFirst
  <2>1. PICK p \in RoundTasks, o \in tasks : r = late(p) /\ t = late(o)
    BY <1>2, <1>5
  <2>2. p.kind = "deal" /\ p.due <= o.due /\ p.id < o.id /\ p \in tasks
    BY <1>3, <2>1 DEF DealFirst, RoundTasks
  <2> QED
    BY <1>3, <1>4, <2>1, <2>2
<1>12. DrawFirst => DrawFirst'
  <2> SUFFICES ASSUME DrawFirst, NEW d \in tasks', d.kind = "draw"
               PROVE  \E t \in tasks' : t.kind = "new_hand" /\ d.due <= t.due /\ d.id < t.id
    BY DEF DrawFirst
  <2>1. PICK p \in tasks : d = late(p)
    BY <1>2
  <2>2. PICK o \in tasks : o.kind = "new_hand" /\ p.due <= o.due /\ p.id < o.id
    BY <1>3, <2>1 DEF DrawFirst
  <2>3. late(o).kind = "new_hand" /\ d.due <= late(o).due /\ d.id < late(o).id
    BY <1>3, <1>4, <2>1, <2>2
  <2> QED
    BY <1>2, <2>3
<1>13. BetweenRounds => BetweenRounds'
  BY <1>1, <1>6, <1>7, <1>11 DEF BetweenRounds, HandsEmpty
<1>14. GameInv => GameInv'
  BY <1>1, <1>6, <1>8, <1>9, <1>10, <1>12, <1>13 DEF GameInv, OneTurn, Calm
<1> QED
  BY <1>1, <1>7, <1>14 DEF CardInv, CardsDisjoint
-----------------------------------------------------------------------------
(* The delayed tasks of a game *)

LEMMA NewRoundCards ==
  ASSUME TypeInv, QueueInv, CardInv, NEW t \in tasks, HandleNewRound(t) PROVE CardInv'
<1> DEFINE rest == tasks \ {t}
           deal == [kind |-> "deal", due |-> DealDelay, id |-> NextId(rest)]
           q == Push(rest, "deal", DealDelay)
           first == [kind |-> "new_hand", due |-> FirstHandDelay, id |-> NextId(q)]
<1>1. /\ UNCHANGED <<hand, onTurn, turn, suit, table, stock, state>> /\ t.kind = "new_round"
      /\ q = rest \cup {deal} /\ tasks' = q \cup {first}
  BY DEF HandleNewRound, Push, playVars, stageVars
<1>2. /\ deal.kind = "deal" /\ first.kind = "new_hand" /\ deal.due <= first.due
      /\ first.id = NextId(q)
  BY DelayAssumption
<1>3. deal.id < first.id
  <2>1. Numbered(rest)
    BY FewerNumbered DEF QueueInv
  <2>2. Numbered(q)
    BY <2>1, PushNumbers
  <2>3. \A o \in q : o.id < NextId(q)
    BY <2>2, PushNumbers
  <2> QED
    BY <1>1, <1>2, <2>3
<1> HIDE DEF deal, first, q
<1>4. t \in HandTasks /\ HandTasks' = (HandTasks \ {t}) \cup {first}
  BY <1>1, <1>2 DEF HandTasks
<1>5. t \in RoundTasks /\ RoundTasks' = (RoundTasks \ {t}) \cup {deal}
  BY <1>1, <1>2 DEF RoundTasks
<1>6. Open' = Open
  BY <1>1 DEF Open, Calm
<1>7. (Loose => Loose') /\ (Tight => Tight')
  BY <1>4, <1>6 DEF Loose, Tight, AtMostOne, AtMostTwo
<1>8. Even' => Even
  BY <1>7 DEF Even, Calm
<1>9. Level' = Level /\ InTrick' = InTrick
  BY <1>1 DEF Level, Held, InTrick, Calm
<1>10. ASSUME GameInv PROVE BetweenRounds'
  <2>1. AtMostOne(RoundTasks) /\ stock = {} /\ (HandsEmpty \/ (~Calm /\ ~Open /\ DealFirst))
    BY <1>5, <1>10 DEF GameInv, BetweenRounds
  <2>2. RoundTasks' = {deal}
    BY <1>5, <2>1 DEF AtMostOne
  <2>3. DealFirst => DealFirst'
    <3> SUFFICES ASSUME DealFirst, NEW o \in tasks', o.kind = "new_hand"
                 PROVE  deal.kind = "deal" /\ deal.due <= o.due /\ deal.id < o.id
      BY <2>2 DEF DealFirst
    <3>1. \A x \in tasks : x.kind # "new_hand"
      BY <1>1, <1>5 DEF DealFirst
    <3>2. o = first
      BY <1>1, <1>2, <3>1
    <3> QED
      BY <1>2, <1>3, <3>2
  <2> QED
    BY <1>1, <1>6, <2>1, <2>2, <2>3 DEF BetweenRounds, HandsEmpty, AtMostOne
<1>11. DrawFirst => DrawFirst'
  <2> SUFFICES ASSUME DrawFirst, NEW d \in tasks', d.kind = "draw"
               PROVE  \E o \in tasks' : o.kind = "new_hand" /\ d.due <= o.due /\ d.id < o.id
    BY DEF DrawFirst
  <2>1. d \in tasks
    BY <1>1, <1>2
  <2> QED
    BY <1>1, <2>1 DEF DrawFirst
<1>12. GameInv => GameInv'
  BY <1>1, <1>6, <1>7, <1>8, <1>9, <1>10, <1>11 DEF GameInv, OneTurn, Calm
<1> QED
  BY <1>1, <1>5, <1>12 DEF CardInv, CardsDisjoint

\* What is left of the deck once everybody has HandSize cards of it.
LEMMA UndealtCards ==
  ASSUME NEW d \in Deals PROVE Cardinality(Undealt(d)) % PlayerMode = 0
<1> DEFINE U == UNION {d[i] : i \in Seats}
<1>1. /\ \A i \in Seats : d[i] \in SUBSET Deck /\ Cardinality(d[i]) = HandSize
      /\ \A i, j \in Seats : i # j => d[i] \cap d[j] = {}
  BY DEF Deals, Hands
<1>2. U \in SUBSET Deck /\ Undealt(d) \in SUBSET Deck
  BY <1>1 DEF Undealt
<1>3. HandSize \in Nat
  BY DeckAssumption
<1>4. Cardinality(U) = PlayerMode * HandSize
  <2>1. \A i, j \in Seats : i # j => Cardinality(d[i] \cup d[j]) = HandSize + HandSize
    BY <1>1, DisjointCards
  <2>2. CASE PlayerMode = 2
    <3>1. U = d[0] \cup d[1] /\ 0 \in Seats /\ 1 \in Seats
      BY <2>2, SeatsAre
    <3> QED
      BY <1>3, <2>1, <2>2, <3>1
  <2>3. CASE PlayerMode = 4
    <3> DEFINE A == d[0] \cup d[1]
               B == d[2] \cup d[3]
    <3>0. 0 \in Seats /\ 1 \in Seats /\ 2 \in Seats /\ 3 \in Seats /\ Seats = {0, 1, 2, 3}
      BY <2>3, SeatsAre
    <3>1. U = A \cup B
      BY <3>0
    <3>2. A \cap B = {} /\ A \in SUBSET Deck /\ B \in SUBSET Deck
      BY <1>1, <3>0
    <3>3. Cardinality(A) = HandSize + HandSize /\ Cardinality(B) = HandSize + HandSize
      BY <2>1, <3>0
    <3> HIDE DEF A, B, U
    <3>4. Cardinality(A \cup B) = Cardinality(A) + Cardinality(B)
      BY <3>2, DisjointCards
    <3>5. Cardinality(U) = Cardinality(A) + Cardinality(B)
      BY <3>1, <3>4
    <3> QED
      BY <1>3, <2>3, <3>3, <3>5
  <2> QED
    BY <2>2, <2>3, SeatsAre
<1>5. Deck = U \cup Undealt(d) /\ U \cap Undealt(d) = {}
  BY <1>2 DEF Undealt
<1> HIDE DEF U
<1>6. Cardinality(U \cup Undealt(d)) = Cardinality(U) + Cardinality(Undealt(d))
  BY <1>2, <1>5, DisjointCards
<1>7. Cardinality(Deck) = Cardinality(U) + Cardinality(Undealt(d)) /\ Cardinality(Undealt(d)) \in Nat
  BY <1>2, <1>5, <1>6, CardsFinite
<1>8. Cardinality(Deck) % PlayerMode = 0
  BY DeckAssumption
<1>9. CASE PlayerMode = 2
  BY <1>3, <1>4, <1>7, <1>8, <1>9
<1>10. CASE PlayerMode = 4
  BY <1>3, <1>4, <1>7, <1>8, <1>10
<1> QED
  BY <1>9, <1>10, SeatsAre

LEMMA DealtCards == ASSUME TypeInv, CardInv, NEW t \in tasks, DealCards(t) PROVE CardInv'
<1>1. PICK d \in Deals : hand' = d /\ stock' = Undealt(d)
  BY DEF DealCards
<1>2. /\ UNCHANGED <<onTurn, turn, suit, table, state>>
      /\ tasks' = tasks \ {t} /\ t.kind = "deal"
  BY DEF DealCards, stageVars
<1>3. t \in RoundTasks /\ table = EmptyTable
  BY <1>2 DEF RoundTasks, CardInv
<1>4. /\ \A i \in Seats : d[i] \in SUBSET Deck /\ Cardinality(d[i]) = HandSize
      /\ \A i, j \in Seats : i # j => d[i] \cap d[j] = {}
  BY DEF Deals, Hands
<1>5. CardsDisjoint'
  <2>1. \A i \in Seats : table'[i] = NoCard
    BY <1>2, <1>3 DEF EmptyTable
  <2>2. \A i \in Seats : hand'[i] \cap stock' = {} /\ NoCard \notin hand'[i]
    BY <1>1, <1>4, NoCardOutside DEF Undealt
  <2>3. NoCard \notin stock'
    BY <1>1, NoCardOutside DEF Undealt
  <2> QED
    BY <1>1, <1>4, <2>1, <2>2, <2>3 DEF CardsDisjoint
<1>6. HandTasks' = HandTasks /\ RoundTasks' = RoundTasks \ {t}
  BY <1>2 DEF HandTasks, RoundTasks
<1>7. Open' = Open /\ Loose' = Loose /\ Tight' = Tight /\ Even' = Even
  BY <1>2, <1>6 DEF Open, Loose, Tight, Even, Calm
<1>8. Level'
  BY <1>1, <1>2, <1>3, <1>4 DEF Level, Held, EmptyTable
<1>9. InTrick => InTrick'
  BY <1>2, <1>3 DEF InTrick, EmptyTable, Calm
<1>10. GameInv => RoundTasks' = {}
  BY <1>3, <1>6 DEF GameInv, BetweenRounds, AtMostOne
<1>11. DrawFirst => DrawFirst'
  BY <1>2 DEF DrawFirst
<1>12. GameInv => GameInv'
  BY <1>2, <1>7, <1>8, <1>9, <1>10, <1>11 DEF GameInv, BetweenRounds, OneTurn, Calm
<1>13. Cardinality(stock') % PlayerMode = 0
  BY <1>1, UndealtCards
<1> QED
  BY <1>2, <1>3, <1>5, <1>12, <1>13 DEF CardInv
\* A hand opened on an empty table starts a trick; on an open one, it is the spare one.
LEMMA NewHandCards ==
  ASSUME TypeInv, QueueInv, CardInv, NEW t \in tasks, IsNext(t), HandleNewHand(t) PROVE CardInv'
<1>1. /\ UNCHANGED <<hand, table, stock, state>> /\ suit' = NoSuit
      /\ tasks' = tasks \ {t} /\ t.kind = "new_hand"
  BY DEF HandleNewHand, stageVars
<1>2. PICK lead \in Seats : turn' = lead /\ onTurn' = [onTurn EXCEPT ![lead] = TRUE]
  <2>1. 0 \in Seats /\ SeatOf(lastWon) \in SUBSET Seats
    BY SeatsAre DEF SeatOf
  <2>2. SeatOf(lastWon) # {} => Min(SeatOf(lastWon)) \in Seats
    BY <2>1, FirstSeat
  <2> QED
    BY <2>1, <2>2 DEF HandleNewHand
<1>3. onTurn \in [Seats -> BOOLEAN] /\ onTurn'[lead] /\ turn' # -1
  BY <1>2, SeatsAre DEF TypeInv, TypeOK
<1>4. Open'
  BY <1>2, <1>3 DEF Open, Calm
<1>5. t \in HandTasks /\ HandTasks' = HandTasks \ {t} /\ RoundTasks' = RoundTasks
  BY <1>1 DEF HandTasks, RoundTasks
<1>6. \A o \in tasks : o.due \in Int /\ o.id \in Nat
  BY DEF TypeInv, TypeOK, QueueInv, Numbered
<1>7. ~DealFirst \/ RoundTasks = {}
  <2> SUFFICES ASSUME DealFirst, NEW r \in RoundTasks PROVE FALSE
    OBVIOUS
  <2>1. r \in tasks /\ r.due <= t.due /\ r.id < t.id
    BY <1>1 DEF DealFirst, RoundTasks
  <2>2. t.due < r.due \/ (t.due = r.due /\ t.id <= r.id)
    BY <2>1 DEF IsNext
  <2> QED
    BY <1>6, <2>1, <2>2
<1>8. GameInv => BetweenRounds'
  BY <1>1, <1>5, <1>7 DEF GameInv, BetweenRounds, HandsEmpty
<1>9. Loose => Loose'
  BY <1>5 DEF Loose, AtMostOne, AtMostTwo
<1>10. AtMostOne(HandTasks) => HandTasks' = {}
  BY <1>5 DEF AtMostOne
<1>11. AtMostOne(HandTasks) => Tight'
  BY <1>10 DEF Tight, AtMostOne
<1>12. ASSUME GameInv, Even' PROVE Even /\ ~Open
  <2>1. Open => ~Calm /\ AtMostOne(HandTasks)
    BY <1>5, <1>12 DEF GameInv, Tight, Loose
  <2>2. Open => ~Even'
    BY <1>11, <2>1 DEF Even, Calm
  <2>3. Even
    BY <1>11, <1>12 DEF Even, Tight, Calm
  <2> QED
    BY <1>12, <2>2, <2>3
<1>13. ASSUME GameInv, Even' PROVE Level' /\ InTrick'
  <2>1. Level /\ table = EmptyTable
    BY <1>12, <1>13 DEF GameInv
  <2>2. Level'
    BY <1>1, <2>1 DEF Level, Held
  <2>3. /\ lead \in Seats /\ 0 \in Seats /\ turn' = (lead + 0) % PlayerMode
        /\ \A j \in Seats : (lead + j) % PlayerMode \in Seats /\ j >= 0
    BY <1>2, SeatsAre
  <2>4. \A j \in Seats : table'[j] = NoCard
    BY <1>1, <2>1 DEF EmptyTable
  <2>5. InTrick'
    BY <1>1, <2>3, <2>4 DEF InTrick
  <2> QED
    BY <2>2, <2>5
<1>14. ASSUME Calm, GameInv PROVE Tight' /\ DrawFirst' /\ OneTurn'
  <2>1. AtMostOne(HandTasks) /\ ~Open
    BY <1>5, <1>14 DEF GameInv, Tight
  <2>2. ASSUME NEW d \in tasks, d.kind = "draw" PROVE FALSE
    <3>1. PICK o \in tasks : o.kind = "new_hand" /\ d.due <= o.due /\ d.id < o.id
      BY <1>14, <2>2 DEF GameInv, DrawFirst
    <3>2. o = t
      BY <1>5, <2>1, <3>1 DEF AtMostOne, HandTasks
    <3>3. t.due < d.due \/ (t.due = d.due /\ t.id <= d.id)
      BY DEF IsNext
    <3> QED
      BY <1>6, <3>1, <3>2, <3>3
  <2>3. DrawFirst'
    BY <1>1, <2>2 DEF DrawFirst
  <2>4. OneTurn'
    BY <1>2, <1>3, <1>14, <2>1 DEF OneTurn, Open
  <2> QED
    BY <1>11, <2>1, <2>3, <2>4
<1>15. GameInv => GameInv'
  BY <1>4, <1>8, <1>9, <1>13, <1>14 DEF GameInv, Calm
<1> QED
  BY <1>1, <1>3, <1>5, <1>15 DEF CardInv, CardsDisjoint

\* From a stock that is not used up every seat draws a card of its own.
LEMMA StockDrawn ==
  ASSUME stock \in SUBSET Deck, Cardinality(stock) % PlayerMode = 0, NEW d \in Draws
  PROVE  \/ stock = {} /\ \A i \in Seats : d[i] = NoCard
         \/ /\ \A i \in Seats : d[i] \in stock
            /\ \A i, j \in Seats : d[i] = d[j] => i = j
            /\ Cardinality(stock \ {d[i] : i \in Seats}) % PlayerMode = 0
<1>1. /\ \A i \in Seats : d[i] \in stock \cup {NoCard}
      /\ \A i \in Seats : d[i] = NoCard <=> i >= Cardinality(stock)
      /\ \A i, j \in Seats : d[i] = d[j] => i = j \/ d[i] = NoCard
  BY DEF Draws
<1>2. Cardinality(stock) \in Nat /\ (Cardinality(stock) = 0 <=> stock = {})
  BY CardsFinite, NoCards
<1>3. CASE stock = {}
  BY <1>1, <1>2, <1>3, SeatsAre
<1>4. CASE stock # {}
  <2>1. Cardinality(stock) >= PlayerMode
    <3>1. CASE PlayerMode = 2
      BY <1>2, <1>4, <3>1
    <3>2. CASE PlayerMode = 4
      BY <1>2, <1>4, <3>2
    <3> QED
      BY <3>1, <3>2, SeatsAre
  <2>2. \A i \in Seats : d[i] # NoCard
    BY <1>1, <1>2, <2>1, SeatsAre
  <2>3. (\A i \in Seats : d[i] \in stock) /\ \A i, j \in Seats : d[i] = d[j] => i = j
    BY <1>1, <2>2
  <2> DEFINE left == stock \ {d[i] : i \in Seats}
             one == stock \ {d[0]}
             two == one \ {d[1]}
             three == two \ {d[2]}
             four == three \ {d[3]}
  <2>4. 0 \in Seats /\ 1 \in Seats
    BY SeatsAre
  <2>5. Cardinality(one) = Cardinality(stock) - 1 /\ one \in SUBSET Deck
    BY <2>3, <2>4, CardOut
  <2>6. Cardinality(two) = Cardinality(one) - 1 /\ two \in SUBSET Deck
    <3>1. d[1] \in one
      BY <2>3, <2>4
    <3> HIDE DEF one
    <3> QED
      BY <2>5, <3>1, CardOut
  <2>7. CASE PlayerMode = 2
    <3>1. left = two
      BY <2>7, SeatsAre
    <3> HIDE DEF left, one, two
    <3>2. Cardinality(left) = Cardinality(stock) - 2
      BY <1>2, <2>5, <2>6, <3>1
    <3>3. Cardinality(left) % PlayerMode = 0
      BY <1>2, <2>7, <3>2
    <3> QED
      BY <2>3, <3>3 DEF left
  <2>8. CASE PlayerMode = 4
    <3>0. 2 \in Seats /\ 3 \in Seats /\ Seats = {0, 1, 2, 3}
      BY <2>8, SeatsAre
    <3>1. left = four
      BY <3>0
    <3>2. d[2] \in two /\ d[3] \in three
      BY <2>3, <2>4, <3>0
    <3> HIDE DEF one, two
    <3>3. Cardinality(three) = Cardinality(two) - 1 /\ three \in SUBSET Deck
      BY <2>6, <3>2, CardOut
    <3> HIDE DEF three
    <3>4. Cardinality(four) = Cardinality(three) - 1
      BY <3>2, <3>3, CardOut
    <3> HIDE DEF left, four
    <3>5. Cardinality(left) = Cardinality(stock) - 4
      BY <1>2, <2>5, <2>6, <3>1, <3>3, <3>4
    <3>6. Cardinality(left) % PlayerMode = 0
      BY <1>2, <2>8, <3>5
    <3> QED
      BY <2>3, <3>6 DEF left
  <2> QED
    BY <2>7, <2>8, SeatsAre
<1> QED
  BY <1>3, <1>4

LEMMA DrawCards == ASSUME TypeInv, CardInv, NEW t \in tasks, HandleDrawCard(t) PROVE CardInv'
<1>0. /\ hand \in [Seats -> SUBSET Deck] /\ stock \in SUBSET Deck /\ NoCard \notin Deck
      /\ table \in [Seats -> Deck \cup {NoCard}]
  BY NoCardOutside DEF TypeInv, TypeOK
<1>1. PICK d \in Draws : /\ hand' = [i \in Seats |-> hand[i] \cup ({d[i]} \ {NoCard})]
                         /\ stock' = stock \ {d[i] : i \in Seats}
  BY DEF HandleDrawCard
<1>2. /\ UNCHANGED <<onTurn, turn, suit, table, state>>
      /\ tasks' = tasks \ {t} /\ t.kind = "draw"
  BY DEF HandleDrawCard, stageVars
<1>3. HandTasks' = HandTasks /\ RoundTasks' = RoundTasks
  BY <1>2 DEF HandTasks, RoundTasks
<1>4. Open' = Open /\ Loose' = Loose /\ Tight' = Tight /\ Even' = Even
  BY <1>2, <1>3 DEF Open, Loose, Tight, Even, Calm
<1>5. DrawFirst => DrawFirst' /\ HandTasks # {}
  BY <1>2 DEF DrawFirst, HandTasks
<1>6. DealFirst => DealFirst'
  BY <1>2, <1>3 DEF DealFirst
<1>7. CASE stock = {} /\ \A i \in Seats : d[i] = NoCard
  <2>1. hand' = hand
    BY <1>0, <1>1, <1>7
  <2>2. stock' = stock
    BY <1>1, <1>7
  <2>3. Level' = Level /\ InTrick' = InTrick
    BY <1>2, <2>1 DEF Level, Held, InTrick, Calm
  <2>4. BetweenRounds => BetweenRounds'
    BY <1>3, <1>4, <1>6, <2>1, <2>2 DEF BetweenRounds, HandsEmpty
  <2>5. GameInv => GameInv'
    BY <1>2, <1>4, <1>5, <2>3, <2>4 DEF GameInv, OneTurn, Calm
  <2> QED
    BY <1>2, <1>3, <2>1, <2>2, <2>5 DEF CardInv, CardsDisjoint
<1>8. CASE /\ \A i \in Seats : d[i] \in stock
           /\ \A i, j \in Seats : d[i] = d[j] => i = j
           /\ Cardinality(stock \ {d[i] : i \in Seats}) % PlayerMode = 0
  <2>1. \A i \in Seats : hand'[i] = hand[i] \cup {d[i]} /\ d[i] \in Deck \ hand[i]
    BY <1>0, <1>1, <1>8 DEF CardInv, CardsDisjoint
  <2>2. CardsDisjoint'
    <3>1. \A i, j \in Seats : i # j => hand'[i] \cap hand'[j] = {}
      BY <1>8, <2>1 DEF CardInv, CardsDisjoint
    <3>2. \A i, j \in Seats : hand'[i] \cap stock' = {} /\ table'[j] \notin stock'
      BY <1>1, <1>2, <2>1 DEF CardInv, CardsDisjoint
    <3>3. \A i, j \in Seats : table'[j] \notin hand'[i]
      BY <1>0, <1>2, <1>8, <2>1 DEF CardInv, CardsDisjoint
    <3>4. \A i, j \in Seats : table'[i] = table'[j] => i = j \/ table'[i] = NoCard
      BY <1>2 DEF CardInv, CardsDisjoint
    <3> QED
      BY <3>1, <3>2, <3>3, <3>4 DEF CardsDisjoint
  <2>3. \A i \in Seats : Held(i)' = Held(i) + 1
    <3> SUFFICES ASSUME NEW i \in Seats PROVE Held(i)' = Held(i) + 1
      OBVIOUS
    <3>1. Cardinality(hand[i] \cup {d[i]}) = Cardinality(hand[i]) + 1 /\ Cardinality(hand[i]) \in Nat
      BY <1>0, <2>1, CardIn
    <3>2. Cardinality(hand'[i]) = Cardinality(hand[i]) + 1
      BY <2>1, <3>1
    <3> QED
      BY <1>2, <3>1, <3>2 DEF Held
  <2>4. Level => Level'
    BY <2>3 DEF Level
  <2>5. stock # {}
    BY <1>8, SeatsAre
  <2>6. GameInv => BetweenRounds'
    BY <1>3, <2>5 DEF GameInv, BetweenRounds
  <2>7. GameInv /\ Calm => ~Open
    BY <1>5 DEF GameInv, Tight
  <2>8. InTrick /\ ~Calm => InTrick'
    BY <1>2 DEF InTrick, Calm
  <2>9. GameInv => GameInv'
    BY <1>2, <1>4, <1>5, <2>4, <2>6, <2>7, <2>8 DEF GameInv, OneTurn, Calm
  <2> QED
    BY <1>1, <1>2, <1>3, <1>8, <2>2, <2>9 DEF CardInv
<1> QED
  BY <1>0, <1>7, <1>8, StockDrawn DEF CardInv
-----------------------------------------------------------------------------
(* The steps *)

LEMMA RunDueCards == ASSUME TypeInv, SeatInv, QueueInv, CardInv, RunDue PROVE CardInv'
<1>1. PICK t \in tasks :
        /\ IsNext(t)
        /\ \/ HandleNewRound(t) \/ DealCards(t) \/ HandleNewHand(t) \/ HandleDrawCard(t)
           \/ UpdateUsersStayingEndgame(t) \/ NextGame(t)
  BY DEF RunDue
<1>2. CASE UpdateUsersStayingEndgame(t)
  <2>1. t.kind = "kick" /\ tasks' = tasks \ {t} /\ stock' = stock /\ UserLeave(ToKick \ {NoOne})
    BY <1>2 DEF UpdateUsersStayingEndgame
  <2>2. state = "Ended" /\ ~inGame
    BY <2>1 DEF SeatInv, Queue, SeatsFullInGame
  <2> QED
    BY <2>1, <2>2, LeaveCards
<1>3. CASE NextGame(t)
  <2>1. /\ state' # "Playing" /\ tasks' = tasks \ {t} /\ UNCHANGED <<hand, turn, table, stock>>
    BY <1>3 DEF NextGame, AfterGame, PrepareStartGame, playVars
  <2>2. RoundTasks' \subseteq RoundTasks
    BY <2>1 DEF RoundTasks
  <2> QED
    BY <2>1, <2>2, IdleCards
<1> QED
  BY <1>1, <1>2, <1>3, NewRoundCards, DealtCards, NewHandCards, DrawCards

LEMMA StartGameCards ==
  ASSUME TypeInv, SeatInv, QueueInv, BodyStep, StartGame PROVE CardInv'
<1>1. tasks = {}
  BY EmptyAtStart DEF FreshStart, StartGame
<1> DEFINE r == [kind |-> "new_round", due |-> StartDelay, id |-> NextId({})]
<1>2. /\ tasks' = {r} /\ turn' = 0 /\ suit' = NoSuit /\ table' = EmptyTable /\ stock' = {}
      /\ hand' = [i \in Seats |-> {}] /\ onTurn' = [i \in Seats |-> FALSE]
  BY <1>1 DEF StartGame, Push
<1>3. r.kind = "new_round"
  OBVIOUS
<1> HIDE DEF r
<1>4. HandTasks' = {r} /\ RoundTasks' = {r}
  BY <1>2, <1>3 DEF HandTasks, RoundTasks
<1>5. 0 \in Seats /\ \A j \in Seats : (0 + j) % PlayerMode = j /\ j >= 0
  BY SeatsAre
<1>6. CardsDisjoint'
  BY <1>2 DEF CardsDisjoint, EmptyTable
<1>7. Cardinality(stock') % PlayerMode = 0
  <2>1. Cardinality(stock') = 0
    BY <1>2, FS_EmptySet
  <2> QED
    BY <2>1, SeatsAre
<1>8. Level' /\ HandsEmpty'
  <2>1. \A i, j \in Seats : hand'[i] = {} /\ hand'[i] = hand'[j] /\ table'[i] = table'[j]
    BY <1>2 DEF EmptyTable
  <2>2. \A i, j \in Seats : Held(i)' = Held(j)'
    BY <2>1 DEF Held
  <2> QED
    BY <2>1, <2>2 DEF Level, HandsEmpty
<1>9. InTrick'
  BY <1>2, <1>5 DEF InTrick, EmptyTable, Calm
<1>10. Loose' /\ (Calm => Tight')
  BY <1>2, <1>4 DEF Loose, Tight, AtMostOne, AtMostTwo, Open, Calm
<1>11. BetweenRounds'
  BY <1>2, <1>4, <1>8 DEF BetweenRounds, AtMostOne
<1>12. DrawFirst' /\ OneTurn'
  BY <1>2, <1>3 DEF DrawFirst, OneTurn
<1>13. GameInv'
  BY <1>2, <1>8, <1>9, <1>10, <1>11, <1>12 DEF GameInv, Calm
<1> QED
  BY <1>2, <1>6, <1>7, <1>13 DEF CardInv

LEMMA RestOfLoopCards ==
  ASSUME TypeInv, SeatInv, QueueInv, CardInv, RestOfLoop PROVE CardInv'
<1>1. CASE Overtime
  <2>1. /\ state' # "Playing" /\ UNCHANGED <<hand, turn, table, stock>>
        /\ tasks' = Push(Push(tasks, "kick", KickDelay), "next", NextDelay)
    BY <1>1 DEF Overtime, EndGame, playVars
  <2>2. RoundTasks' \subseteq RoundTasks
    BY <2>1 DEF RoundTasks, Push
  <2> QED
    BY <2>1, <2>2, IdleCards
<1>2. CASE StartGame
  BY <1>2, StartGameCards DEF RestOfLoop
<1>3. CASE BackToWaiting \/ Prepare \/ CheckGenBot \/ Nothing
  <2>1. /\ UNCHANGED <<hand, onTurn, turn, suit, table, stock, tasks>>
        /\ state' = "Playing" => state = "Playing"
    BY <1>3 DEF BackToWaiting, Prepare, PrepareStartGame, CheckGenBot, Nothing, playVars, stageVars
  <2> QED
    BY <2>1, CardsKept
<1>4. ASSUME NEW i \in Seats, AutoPlay(i) \/ BotPlayCard(i) PROVE CardInv'
  <2>1. stock' = stock /\ onTurn[i]
    BY <1>4 DEF AutoPlay, BotPlayCard
  <2>2. CASE UNCHANGED <<playVars, scoreVars, stageVars, tasks>>
    <3>1. UNCHANGED <<hand, onTurn, turn, suit, table, state, tasks>>
      BY <2>2 DEF playVars, stageVars
    <3> QED
      BY <2>1, <3>1, CardsKept
  <2>3. CASE \E c : MayPlay(i) /\ HandlePlayCard(i, c)
    BY <2>1, <2>3, CardPut DEF MayPlay, Playable
  <2> QED
    BY <1>4, <2>2, <2>3 DEF AutoPlay, BotPlayCard
<1> QED
  BY <1>1, <1>2, <1>3, <1>4 DEF RestOfLoop

LEMMA LeaveStepCards == ASSUME TypeInv, SeatInv, CardInv, Leaves PROVE CardInv'
<1>1. UNCHANGED <<stock, tasks, mute, destroyed, updating>>
  BY LeavesCases DEF lifeVars
<1>2. CASE UNCHANGED <<playVars, stageVars>>
  <2>1. UNCHANGED <<hand, onTurn, turn, suit, table, stock, tasks, state>>
    BY <1>1, <1>2 DEF playVars, stageVars
  <2> QED
    BY <2>1, CardsKept
<1>3. ASSUME NEW u \in Users, ~StaysSeated(u), UserLeave({u}), (online \ mute) \ {u} \subseteq online'
      PROVE  CardInv'
  <2>1. inGame => uid' = uid
    BY <1>1, <1>3, LeaveStep
  <2>2. NoOne \notin {u}
    BY PeopleAssumption
  <2> QED
    BY <1>1, <1>3, <2>1, <2>2, LeaveCards
<1> QED
  BY <1>2, <1>3, LeavesCases

LEMMA InitCards == Init => CardInv
<1> SUFFICES ASSUME Init PROVE CardInv
  OBVIOUS
<1>1. /\ state = "Waiting" /\ tasks = {} /\ table = EmptyTable /\ stock = {}
      /\ hand = [i \in Seats |-> {}]
  BY DEF Init
<1>2. Cardinality(stock) % PlayerMode = 0
  <2>1. Cardinality({}) = 0
    BY FS_EmptySet
  <2> QED
    BY <1>1, <2>1, SeatsAre
<1> QED
  BY <1>1, <1>2 DEF CardInv, CardsDisjoint, EmptyTable

LEMMA NextCards == TypeInv /\ SeatInv /\ QueueInv /\ CardInv /\ [Next]_vars => CardInv'
<1> SUFFICES ASSUME TypeInv, SeatInv, QueueInv, CardInv, [Next]_vars PROVE CardInv'
  OBVIOUS
<1>1. CASE Visits \/ \E u \in Users : HandleGameActionNapoli(u)
  <2>1. UNCHANGED <<hand, onTurn, turn, suit, table, stock, state, tasks>>
    BY <1>1, VisitsKeep DEF HandleGameActionNapoli, playVars, stageVars
  <2> QED
    BY <2>1, CardsKept
<1>2. CASE Leaves
  BY <1>2, LeaveStepCards
<1>3. ASSUME NEW u \in Users, NEW c \in Deck, PlayCard(u, c) PROVE CardInv'
  <2>1. PICK i \in SeatOf(u) : /\ onTurn[i] \/ "early play" \in Inputs
                               /\ MayPlay(i) /\ HandlePlayCard(i, c)
    BY <1>3 DEF PlayCard
  <2>2. i \in Seats /\ stock' = stock /\ Playable(i)
    BY <1>3, <2>1 DEF PlayCard, SeatOf, MayPlay, Playable, Calm
  <2> QED
    BY <2>1, <2>2, CardPut
<1>4. CASE Tick
  BY <1>4, TickCards
<1>5. CASE Update \/ UNCHANGED vars
  <2>1. UNCHANGED <<hand, onTurn, turn, suit, table, stock, state, tasks>>
    BY <1>5 DEF Update, vars, playVars, stageVars
  <2> QED
    BY <2>1, CardsKept
<1>6. CASE RunDue \/ RestOfLoop
  BY <1>6, RunDueCards, RestOfLoopCards
<1> QED
  BY <1>1, <1>2, <1>3, <1>4, <1>5, <1>6, StepKinds
-----------------------------------------------------------------------------
(* The scores *)

\* The scores of the last trick put the sides in the same order as their points do.
Agree ==
    /\ teamScores[0] > teamScores[1] => SideTotal(points, 0) >= SideTotal(points, 1)
    /\ teamScores[0] <= teamScores[1] => SideTotal(points, 0) <= SideTotal(points, 1)

\* In solo they do so unless a claim has been made since: all of a round's claims have been
\* counted by its last trick, and a new round trims both seats alike.
ScoreInv ==
    /\ \A i \in Seats : teamId[i] \in {-1, i % 2}
    /\ Calm /\ PlayerMode = 2 /\ state = "Playing" /\ (napoliClaimed = {} \/ RoundTasks # {}) => Agree

LEMMA SideTotalNat ==
  ASSUME NEW pts \in [Seats -> Nat], NEW t \in {0, 1}
  PROVE  SideTotal(pts, t) \in Nat /\ TeamTotals(pts)[t] = SideTotal(pts, t)
<1>1. TeamTotals(pts)[t] = SideTotal(pts, t)
  BY DEF TeamTotals
<1>2. TeamTotals(pts) \in [{0, 1} -> Nat]
  BY TeamTotalsType
<1> QED
  BY <1>1, <1>2

LEMMA SameTotals ==
  ASSUME teamId' = teamId
  PROVE  /\ TeamTotals(points)' = TeamTotals(points')
         /\ \A t : SideTotal(points, t)' = SideTotal(points', t)
  BY DEF TeamTotals, SideTotal, SeatSum, Seats

\* In solo a side is one seat.
LEMMA SoloSides ==
  ASSUME PlayerMode = 2, \A i \in Seats : teamId[i] \in {-1, i % 2}, NEW pts \in [Seats -> Nat]
  PROVE  /\ SideTotal(pts, 0) = IF teamId[0] = 0 THEN pts[0] ELSE 0
         /\ SideTotal(pts, 1) = IF teamId[1] = 1 THEN pts[1] ELSE 0
<1>1. Seats = {0, 1} /\ teamId[0] \in {-1, 0} /\ teamId[1] \in {-1, 1}
  BY SeatsAre
<1>2. \A t \in {0, 1} : SideTotal(pts, t) = (IF teamId[0] = t THEN pts[0] ELSE 0) + (IF teamId[1] = t THEN pts[1] ELSE 0)
  BY <1>1 DEF SideTotal, SeatSum
<1> QED
  BY <1>1, <1>2

LEMMA TrimKeepsOrder ==
  ASSUME NEW p \in Nat, NEW q \in Nat, p <= q PROVE Trim(p) <= Trim(q) /\ Trim(p) \in Nat /\ Trim(0) = 0
  BY DEF Trim, OnePoint

\* A card: the scores are counted anew, or nothing is counted.
LEMMA CardCounts ==
  ASSUME TypeInv, NEW i \in Seats, NEW c, MayPlay(i), HandlePlayCard(i, c), teamId' = teamId
  PROVE  \/ UNCHANGED <<points, teamScores, state, tasks>>
         \/ /\ teamScores' = TeamTotals(points)'
            /\ state' = state \/ EndGame(TeamTotals(points)')
            /\ hand' # hand
<1>1. CASE UNCHANGED <<playVars, scoreVars, stageVars, tasks>>
  BY <1>1 DEF scoreVars, stageVars
<1>2. CASE PutCard(i, c)
  <2>1. hand' # hand
    <3>1. c \in hand[i] /\ hand' = [hand EXCEPT ![i] = @ \ {c}] /\ hand \in [Seats -> SUBSET Deck]
      BY <1>2 DEF PutCard, Accepts, TypeInv, TypeOK
    <3>2. c \notin hand'[i]
      BY <3>1
    <3> QED
      BY <3>1, <3>2
  <2>2. CASE UNCHANGED <<lastWon, scoreVars, stageVars, tasks>>
    BY <2>2 DEF scoreVars, stageVars
  <2>3. ASSUME NEW compared, NEW left, NEW led, EndHand(compared, left, led)
        PROVE  /\ teamScores' = TeamTotals(points')
               /\ state' = state \/ EndGame(TeamTotals(points'))
    BY <2>3 DEF EndHand, stageVars
  <2>4. CASE \E compared, left, led : EndHand(compared, left, led)
    BY <2>1, <2>3, <2>4, SameTotals
  <2> QED
    BY <1>2, <2>2, <2>4 DEF PutCard
<1> QED
  BY <1>1, <1>2 DEF HandlePlayCard

\* The winner by totals is not behind by them.
LEMMA WinnerByTotals ==
  ASSUME NEW totals \in [{0, 1} -> Nat]
  PROVE  /\ WinningTeam(totals) \in {0, 1}
         /\ totals[WinningTeam(totals)] >= totals[1 - WinningTeam(totals)]
  BY DEF WinningTeam

\* What ends a game: the card that brings a side to the target, or the limit.
LEMMA GameIsOver ==
  ASSUME TypeInv, SeatInv, [Next]_vars, state = "Playing", state' = "Ended"
  PROVE  /\ teamId' = teamId
         /\ \/ EndGame(TeamTotals(points)')
            \/ EndGame(teamScores) /\ UNCHANGED <<points, hand>>
<1>1. ASSUME NEW i \in Seats, NEW c, MayPlay(i), HandlePlayCard(i, c), teamId' = teamId
      PROVE  EndGame(TeamTotals(points)')
  BY <1>1, CardCounts
<1>2. ASSUME NEW u \in Users, NEW c \in Deck, PlayCard(u, c)
      PROVE  teamId' = teamId /\ EndGame(TeamTotals(points)')
  BY <1>1, <1>2 DEF PlayCard, SeatOf, seatVars
<1>3. CASE Visits \/ \E u \in Users : HandleGameActionNapoli(u)
  BY <1>3, VisitsKeep DEF HandleGameActionNapoli, stageVars
<1>4. CASE Leaves
  BY <1>4, LeavesCases DEF UserLeave, stageVars
<1>5. CASE Tick \/ Update \/ UNCHANGED vars
  BY <1>5 DEF Tick, Update, vars, stageVars
<1>6. CASE RunDue
  <2>1. PICK t \in tasks : \/ HandleNewRound(t) \/ DealCards(t) \/ HandleNewHand(t) \/ HandleDrawCard(t)
                           \/ UpdateUsersStayingEndgame(t) \/ NextGame(t)
    BY <1>6 DEF RunDue
  <2>2. t.kind \notin {"kick", "next"}
    BY DEF SeatInv, Queue
  <2>3. HandleNewRound(t) \/ DealCards(t) \/ HandleNewHand(t) \/ HandleDrawCard(t)
    BY <2>1, <2>2 DEF UpdateUsersStayingEndgame, NextGame
  <2> QED
    BY <2>3 DEF HandleNewRound, DealCards, HandleNewHand, HandleDrawCard, stageVars
<1>7. CASE RestOfLoop
  <2>1. CASE Overtime
    BY <2>1 DEF Overtime, playVars
  <2>2. CASE StartGame \/ BackToWaiting \/ Prepare \/ CheckGenBot \/ Nothing
    BY <2>2 DEF StartGame, BackToWaiting, Prepare, CheckGenBot, Nothing, stageVars
  <2>3. ASSUME NEW i \in Seats, AutoPlay(i) \/ BotPlayCard(i)
        PROVE  teamId' = teamId /\ EndGame(TeamTotals(points)')
    <3>1. teamId' = teamId
      BY <2>3 DEF AutoPlay, BotPlayCard
    <3>2. CASE UNCHANGED <<playVars, scoreVars, stageVars, tasks>>
      BY <3>2 DEF stageVars
    <3>3. CASE \E c : MayPlay(i) /\ HandlePlayCard(i, c)
      BY <1>1, <3>1, <3>3
    <3> QED
      BY <2>3, <3>1, <3>2, <3>3 DEF AutoPlay, BotPlayCard
  <2> QED
    BY <1>7, <2>1, <2>2, <2>3 DEF RestOfLoop
<1> QED
  BY <1>2, <1>3, <1>4, <1>5, <1>6, <1>7, StepKinds

LEMMA WinnerNotBehind ==
  ASSUME Calm, TypeInv, TypeInv', SeatInv, CardInv, ScoreInv, [Next]_vars,
         state = "Playing", state' = "Ended",
         hand' # hand \/ (PlayerMode = 2 /\ napoliClaimed = {})
  PROVE  TeamTotals(points)'[winTeam'] >= TeamTotals(points)'[1 - winTeam']
<1>1. points' \in [Seats -> Nat] /\ teamScores \in [{0, 1} -> Nat] /\ teamId' = teamId
  BY GameIsOver DEF TypeInv, TypeOK
<1>2. TeamTotals(points)' \in [{0, 1} -> Nat]
  BY <1>1, TeamTotalsType, SameTotals
<1>3. CASE EndGame(TeamTotals(points)')
  BY <1>2, <1>3, WinnerByTotals DEF EndGame
<1>4. CASE EndGame(teamScores) /\ UNCHANGED <<points, hand>>
  <2>1. Agree
    BY <1>4 DEF ScoreInv
  <2>2. winTeam' = IF teamScores[0] > teamScores[1] THEN 0 ELSE 1
    BY <1>4 DEF EndGame, WinningTeam
  <2>3. \A t \in {0, 1} : TeamTotals(points)'[t] = SideTotal(points, t) /\ SideTotal(points, t) \in Nat
    BY <1>1, <1>4, SideTotalNat, SameTotals
  <2> QED
    BY <1>1, <2>1, <2>2, <2>3 DEF Agree
<1> QED
  BY <1>3, <1>4, GameIsOver

\* Steps that count nothing.
LEMMA NothingCounted ==
  ASSUME ScoreInv, UNCHANGED <<points, teamScores>>,
         \A i \in Seats : teamId'[i] = teamId[i],
         state' = "Playing" => /\ state = "Playing" /\ teamId' = teamId
                               /\ napoliClaimed' = {} => napoliClaimed = {}
                               /\ RoundTasks' # {} => RoundTasks # {}
  PROVE  ScoreInv'
<1>1. \A i \in Seats : teamId'[i] \in {-1, i % 2}
  BY DEF ScoreInv
<1>2. ASSUME Calm /\ PlayerMode = 2 /\ state' = "Playing" /\ (napoliClaimed' = {} \/ RoundTasks' # {})
      PROVE  Agree'
  <2>1. Agree /\ teamId' = teamId
    BY <1>2 DEF ScoreInv
  <2> QED
    BY <2>1, SameTotals DEF Agree
<1> QED
  BY <1>1, <1>2 DEF ScoreInv, Calm

LEMMA CardScores ==
  ASSUME TypeInv, ScoreInv, TypeInv', NEW i \in Seats, NEW c, MayPlay(i), HandlePlayCard(i, c),
         UNCHANGED <<teamId, napoliClaimed>>
  PROVE  ScoreInv'
<1>1. CASE UNCHANGED <<points, teamScores, state, tasks>>
  BY <1>1, NothingCounted DEF RoundTasks
<1>2. CASE teamScores' = TeamTotals(points)'
  <2>1. points' \in [Seats -> Nat]
    BY DEF TypeInv, TypeOK
  <2>2. \A t \in {0, 1} : teamScores'[t] = SideTotal(points, t)' /\ teamScores'[t] \in Nat
    BY <1>2, <2>1, SideTotalNat, SameTotals
  <2>3. Agree'
    BY <2>2 DEF Agree
  <2> QED
    BY <2>3 DEF ScoreInv
<1> QED
  BY <1>1, <1>2, CardCounts

\* No claim is made between the last trick of a round and the next deal.
LEMMA ClaimScores ==
  ASSUME TypeInv, CardInv, ScoreInv, NEW u, HandleGameActionNapoli(u) PROVE ScoreInv'
<1>1. UNCHANGED <<teamId, teamScores, state, tasks>> /\ napoliClaimed' # {}
  BY DEF HandleGameActionNapoli, seatVars, stageVars
<1>2. ~(Calm /\ state = "Playing" /\ RoundTasks # {})
  <2>1. PICK i \in Seats : FindNapoli(hand[i]) # {}
    BY DEF HandleGameActionNapoli, SeatOf
  <2>2. hand[i] # {}
    BY <2>1 DEF FindNapoli
  <2> QED
    BY <2>2 DEF CardInv, GameInv, BetweenRounds, HandsEmpty
<1> QED
  BY <1>1, <1>2 DEF ScoreInv, RoundTasks, Calm

LEMMA NewRoundScores ==
  ASSUME TypeInv, ScoreInv, NEW t \in tasks, HandleNewRound(t) PROVE ScoreInv'
<1>1. /\ UNCHANGED <<teamId, teamScores, state>> /\ t.kind = "new_round"
      /\ points' = [i \in Seats |-> Trimmed(i)]
  BY DEF HandleNewRound, seatVars, stageVars
<1>2. ASSUME Calm, PlayerMode = 2, state = "Playing" PROVE Agree'
  <2>1. Agree
    BY <1>1, <1>2 DEF ScoreInv, RoundTasks
  <2>2. Seats = {0, 1} /\ points \in [Seats -> Nat] /\ teamScores \in [{0, 1} -> Nat]
    BY <1>2, SeatsAre DEF TypeInv, TypeOK
  <2>3. points' = [i \in Seats |-> Trim(points[i])]
    BY <1>1, <1>2 DEF Trimmed
  <2>4. points' \in [Seats -> Nat] /\ points'[0] = Trim(points[0]) /\ points'[1] = Trim(points[1])
    BY <2>2, <2>3, TrimKeepsOrder
  <2> DEFINE a == IF teamId[0] = 0 THEN points[0] ELSE 0
             b == IF teamId[1] = 1 THEN points[1] ELSE 0
  <2>5. SideTotal(points, 0) = a /\ SideTotal(points, 1) = b /\ a \in Nat /\ b \in Nat
    BY <1>2, <2>2, SoloSides DEF ScoreInv
  <2>6. SideTotal(points', 0) = Trim(a) /\ SideTotal(points', 1) = Trim(b)
    BY <1>2, <2>4, SoloSides, TrimKeepsOrder DEF ScoreInv
  <2> HIDE DEF a, b
  <2>7. (a <= b => Trim(a) <= Trim(b)) /\ (b <= a => Trim(b) <= Trim(a)) /\ Trim(a) \in Nat /\ Trim(b) \in Nat
    BY <2>5, TrimKeepsOrder
  <2>8. SideTotal(points, 0)' = Trim(a) /\ SideTotal(points, 1)' = Trim(b)
    BY <1>1, <2>6, SameTotals
  <2> QED
    BY <1>1, <2>1, <2>2, <2>5, <2>7, <2>8 DEF Agree
<1> QED
  BY <1>1, <1>2 DEF ScoreInv, Calm

LEMMA RunDueScores == ASSUME TypeInv, SeatInv, ScoreInv, RunDue PROVE ScoreInv'
<1>1. PICK t \in tasks : \/ HandleNewRound(t) \/ DealCards(t) \/ HandleNewHand(t) \/ HandleDrawCard(t)
                         \/ UpdateUsersStayingEndgame(t) \/ NextGame(t)
  BY DEF RunDue
<1>2. CASE DealCards(t) \/ HandleNewHand(t) \/ HandleDrawCard(t)
  <2>1. UNCHANGED <<points, teamScores, teamId, state, napoliClaimed>> /\ tasks' \subseteq tasks
    BY <1>2 DEF DealCards, HandleNewHand, HandleDrawCard, seatVars, scoreVars, stageVars
  <2> QED
    BY <2>1, NothingCounted DEF RoundTasks
<1>3. CASE UpdateUsersStayingEndgame(t)
  <2>1. state' # "Playing"
    BY <1>3 DEF UpdateUsersStayingEndgame, UserLeave, SeatInv, Queue
  <2>2. \A i \in Seats : teamId'[i] \in {-1, i % 2}
    BY <1>3 DEF UpdateUsersStayingEndgame, UserLeave, ScoreInv
  <2> QED
    BY <2>1, <2>2 DEF ScoreInv
<1>4. CASE NextGame(t)
  <2>1. state' # "Playing" /\ teamId' = teamId
    BY <1>4 DEF NextGame, AfterGame, PrepareStartGame, seatVars
  <2> QED
    BY <2>1 DEF ScoreInv
<1> QED
  BY <1>1, <1>2, <1>3, <1>4, NewRoundScores

LEMMA RestOfLoopScores == ASSUME TypeInv, TypeInv', SeatInv, ScoreInv, RestOfLoop PROVE ScoreInv'
<1>1. CASE StartGame
  <2>1. teamId' = teamId /\ points' = [i \in Seats |-> 0] /\ teamScores' = [t \in {0, 1} |-> 0]
    BY <1>1 DEF StartGame
  <2>2. ASSUME PlayerMode = 2 PROVE Agree'
    <3>1. points' \in [Seats -> Nat] /\ points'[0] = 0 /\ points'[1] = 0
      BY <2>1, <2>2, SeatsAre
    <3>2. SideTotal(points', 0) = 0 /\ SideTotal(points', 1) = 0
      BY <2>2, <3>1, SoloSides DEF ScoreInv
    <3>3. SideTotal(points, 0)' = 0 /\ SideTotal(points, 1)' = 0
      BY <2>1, <3>2, SameTotals
    <3> QED
      BY <2>1, <3>3 DEF Agree
  <2> QED
    BY <2>1, <2>2 DEF ScoreInv
<1>2. CASE Overtime \/ BackToWaiting \/ Prepare
  <2>1. state' # "Playing" /\ teamId' = teamId
    BY <1>2 DEF Overtime, EndGame, BackToWaiting, Prepare, PrepareStartGame
  <2> QED
    BY <2>1 DEF ScoreInv
<1>3. CASE CheckGenBot \/ Nothing
  <2>1. UNCHANGED <<points, teamScores, teamId, state, napoliClaimed, tasks>>
    BY <1>3 DEF CheckGenBot, Nothing, scoreVars, stageVars
  <2> QED
    BY <2>1, NothingCounted DEF RoundTasks
<1>4. ASSUME NEW i \in Seats, AutoPlay(i) \/ BotPlayCard(i) PROVE ScoreInv'
  <2>1. UNCHANGED <<teamId, napoliClaimed>>
    BY <1>4 DEF AutoPlay, BotPlayCard
  <2>2. CASE UNCHANGED <<playVars, scoreVars, stageVars, tasks>>
    BY <2>1, <2>2, NothingCounted DEF scoreVars, stageVars, RoundTasks
  <2>3. CASE \E c : MayPlay(i) /\ HandlePlayCard(i, c)
    BY <2>1, <2>3, CardScores
  <2> QED
    BY <1>4, <2>2, <2>3 DEF AutoPlay, BotPlayCard
<1> QED
  BY <1>1, <1>2, <1>3, <1>4 DEF RestOfLoop

LEMMA LeaveScores == ASSUME TypeInv, SeatInv, ScoreInv, Leaves PROVE ScoreInv'
<1>1. napoliClaimed' = napoliClaimed /\ tasks' = tasks
  BY LeavesCases
<1>2. CASE UNCHANGED <<teamId, scoreVars, stageVars>>
  <2>1. UNCHANGED <<points, teamScores, teamId, state>>
    BY <1>2 DEF scoreVars, stageVars
  <2> QED
    BY <1>1, <2>1, NothingCounted DEF RoundTasks
<1>3. ASSUME NEW u \in Users, ~StaysSeated(u), UserLeave({u}) PROVE ScoreInv'
  <2>1. CASE state' = "Playing"
    <3>1. state = "Playing" /\ teamScores' = teamScores
      BY <1>3, <2>1 DEF UserLeave
    <3>2. \A i \in Seats : ~(uid[i] \in {u})
      BY <1>3, <3>1 DEF StaysSeated, IsPlayer, SeatOf, SeatInv, SeatsFullInGame
    <3>3. points' = points /\ teamId' = teamId
      BY <1>3, <3>2 DEF UserLeave, TypeInv, TypeOK
    <3> QED
      BY <1>1, <3>1, <3>3, NothingCounted DEF RoundTasks
  <2>2. CASE state' # "Playing"
    <3>1. \A i \in Seats : teamId'[i] \in {-1, i % 2}
      BY <1>3 DEF UserLeave, ScoreInv
    <3> QED
      BY <2>2, <3>1 DEF ScoreInv
  <2> QED
    BY <2>1, <2>2
<1> QED
  BY <1>2, <1>3, LeavesCases

LEMMA NextScores ==
  TypeInv /\ TypeInv' /\ SeatInv /\ CardInv /\ ScoreInv /\ [Next]_vars => ScoreInv'
<1> SUFFICES ASSUME TypeInv, TypeInv', SeatInv, CardInv, ScoreInv, [Next]_vars PROVE ScoreInv'
  OBVIOUS
<1>1. CASE Visits
  <2>1. UNCHANGED <<points, teamScores, teamId, state, napoliClaimed, tasks>>
    BY <1>1, VisitsKeep DEF scoreVars, stageVars
  <2> QED
    BY <2>1, NothingCounted DEF RoundTasks
<1>2. CASE Leaves
  BY <1>2, LeaveScores
<1>3. ASSUME NEW u \in Users, NEW c \in Deck, PlayCard(u, c) PROVE ScoreInv'
  BY <1>3, CardScores DEF PlayCard, SeatOf, seatVars
<1>4. ASSUME NEW u \in Users, HandleGameActionNapoli(u) PROVE ScoreInv'
  BY <1>4, ClaimScores
<1>5. CASE Tick
  <2>1. UNCHANGED <<points, teamScores, teamId, state, napoliClaimed>>
    BY <1>5 DEF Tick, seatVars, scoreVars
  <2>2. RoundTasks' # {} => RoundTasks # {}
    BY <1>5 DEF Tick, RoundTasks
  <2> QED
    BY <2>1, <2>2, NothingCounted
<1>6. CASE Update \/ UNCHANGED vars
  <2>1. UNCHANGED <<points, teamScores, teamId, state, napoliClaimed, tasks>>
    BY <1>6 DEF Update, vars, seatVars, scoreVars, stageVars
  <2> QED
    BY <2>1, NothingCounted DEF RoundTasks
<1>7. CASE RunDue \/ RestOfLoop
  BY <1>7, RunDueScores, RestOfLoopScores
<1> QED
  BY <1>1, <1>2, <1>3, <1>4, <1>5, <1>6, <1>7, StepKinds

LEMMA InitScores == Init => ScoreInv
<1> SUFFICES ASSUME Init PROVE ScoreInv
  OBVIOUS
<1>1. state # "Playing" /\ \A i \in Seats : teamId[i] \in {-1, i % 2}
  BY DEF Init
<1> QED
  BY <1>1 DEF ScoreInv
-----------------------------------------------------------------------------
(* The points of a round *)

LEMMA ValueSmall == ASSUME NEW c PROVE Value(c) \in 0..3
  BY DEF Value, OnePoint

LEMMA OneToThree == IsFiniteSet(1..OnePoint)
<1>1. 1 \in Int /\ OnePoint \in Int
  BY DEF OnePoint
<1> QED
  BY <1>1, FS_Interval, Zenon

LEMMA ValueIsNat == ValueIn({}) = 0 /\ \A S \in SUBSET Deck : ValueIn(S) \in Nat
<1>1. {x \in {} \X (1..OnePoint) : x[2] <= Value(x[1])} = {}
  OBVIOUS
<1>2. ValueIn({}) = 0
  BY <1>1, FS_EmptySet DEF ValueIn
<1>3. ASSUME NEW S \in SUBSET Deck PROVE ValueIn(S) \in Nat
  <2>1. IsFiniteSet(S) /\ IsFiniteSet(1..OnePoint)
    BY CardsFinite, OneToThree
  <2>2. IsFiniteSet(S \X (1..OnePoint))
    BY <2>1, FS_Product
  <2>3. {x \in S \X (1..OnePoint) : x[2] <= Value(x[1])} \subseteq S \X (1..OnePoint)
    OBVIOUS
  <2> QED
    BY <2>2, <2>3, FS_Subset, FS_CardinalityType DEF ValueIn
<1> QED
  BY <1>2, <1>3

LEMMA ValueOfOneMore ==
  ASSUME NEW S \in SUBSET Deck, NEW c \in Deck \ S
  PROVE  ValueIn(S \cup {c}) = ValueIn(S) + Value(c) /\ ValueIn(S) \in Nat
<1> DEFINE P(cards) == {x \in cards \X (1..OnePoint) : x[2] <= Value(x[1])}
           Q(k) == P(S) \cup {<<c, j>> : j \in 1..k}
<1>1. ValueIn(S) = Cardinality(P(S)) /\ ValueIn(S \cup {c}) = Cardinality(P(S \cup {c}))
  BY DEF ValueIn
<1>2. Value(c) \in 0..3 /\ OnePoint = 3
  BY ValueSmall DEF OnePoint
<1>3. Q(0) = P(S)
  OBVIOUS
<1>4. Q(Value(c)) = P(S \cup {c})
  BY <1>2
<1>5. \A k \in 0..2 : Q(k + 1) = Q(k) \cup {<<c, k + 1>>} /\ <<c, k + 1>> \notin Q(k)
  OBVIOUS
<1>6. IsFiniteSet(Q(0))
  <2>1. IsFiniteSet(S) /\ IsFiniteSet(1..OnePoint)
    BY CardsFinite, OneToThree
  <2>2. IsFiniteSet(S \X (1..OnePoint))
    BY <2>1, FS_Product
  <2>3. P(S) \subseteq S \X (1..OnePoint)
    OBVIOUS
  <2> QED
    BY <1>3, <2>2, <2>3, FS_Subset
<1> HIDE DEF P, Q
<1>7. ASSUME NEW k \in 0..2, IsFiniteSet(Q(k))
      PROVE  IsFiniteSet(Q(k + 1)) /\ Cardinality(Q(k + 1)) = Cardinality(Q(k)) + 1
  <2> DEFINE x == <<c, k + 1>>
  <2>1. Q(k + 1) = Q(k) \cup {x} /\ x \notin Q(k)
    BY <1>5
  <2> HIDE DEF x
  <2> QED
    BY <1>7, <2>1, FS_AddElement
<1>8. IsFiniteSet(Q(1)) /\ Cardinality(Q(1)) = Cardinality(Q(0)) + 1
  BY <1>6, <1>7
<1>9. IsFiniteSet(Q(2)) /\ Cardinality(Q(2)) = Cardinality(Q(1)) + 1
  BY <1>8, <1>7
<1>10. IsFiniteSet(Q(3)) /\ Cardinality(Q(3)) = Cardinality(Q(2)) + 1
  BY <1>9, <1>7
<1>11. Cardinality(Q(0)) \in Nat
  BY <1>6, FS_CardinalityType
<1>12. Cardinality(Q(Value(c))) = Cardinality(Q(0)) + Value(c)
  BY <1>2, <1>8, <1>9, <1>10, <1>11
<1> QED
  BY <1>1, <1>3, <1>4, <1>11, <1>12

\* The cards of a whole trick.
LEMMA ValueOfTrick ==
  ASSUME NEW L \in SUBSET Deck, NEW card \in [Seats -> Deck \ L],
         \A i, j \in Seats : card[i] = card[j] => i = j
  PROVE  ValueIn(L \cup {card[i] : i \in Seats}) = ValueIn(L) + TrickScore(card)
<1>1. 0 \in Seats /\ 1 \in Seats
  BY SeatsAre
<1> DEFINE A == L \cup {card[0]}
           B == A \cup {card[1]}
           all == L \cup {card[i] : i \in Seats}
           v(i) == Value(card[i])
<1>2. ValueIn(A) = ValueIn(L) + v(0) /\ ValueIn(L) \in Nat
  BY <1>1, ValueOfOneMore
<1>3. A \in SUBSET Deck /\ card[1] \in Deck \ A
  BY <1>1
<1>4. B \in SUBSET Deck
  BY <1>3
<1>5. ValueIn(B) = ValueIn(A) + v(1)
  <2> HIDE DEF A
  <2> QED
    BY <1>3, ValueOfOneMore
<1>6. \A i \in Seats : Value(card[i]) \in Nat
  BY ValueNat
<1>7. CASE PlayerMode = 2
  <2>1. Seats = {0, 1}
    BY <1>7, SeatsAre
  <2>2. all = B
    BY <2>1
  <2>3. TrickScore(card) = v(0) + v(1) /\ v(0) \in Nat /\ v(1) \in Nat
    BY <1>1, <1>6, <1>7 DEF TrickScore, SeatSum
  <2> HIDE DEF A, B, all, v
  <2>4. ValueIn(all) = ValueIn(L) + TrickScore(card)
    BY <1>2, <1>5, <2>2, <2>3
  <2> QED
    BY <2>4 DEF all
<1>8. CASE PlayerMode = 4
  <2> DEFINE C == B \cup {card[2]}
  <2>1. Seats = {0, 1, 2, 3}
    BY <1>8, SeatsAre
  <2>2. all = C \cup {card[3]}
    BY <2>1
  <2>3. card[2] \in Deck \ B /\ C \in SUBSET Deck /\ card[3] \in Deck \ C
    BY <1>4, <2>1
  <2>4. TrickScore(card) = v(0) + v(1) + (v(2) + v(3))
    BY <1>8, <2>1 DEF TrickScore, SeatSum
  <2> HIDE DEF A, B
  <2>5. ValueIn(C) = ValueIn(B) + v(2)
    BY <1>4, <2>3, ValueOfOneMore
  <2> HIDE DEF C
  <2>6. ValueIn(C \cup {card[3]}) = ValueIn(C) + v(3)
    BY <2>3, ValueOfOneMore
  <2>7. v(0) \in Nat /\ v(1) \in Nat /\ v(2) \in Nat /\ v(3) \in Nat
    BY <1>6, <2>1
  <2> HIDE DEF all, v
  <2>8. ValueIn(all) = ValueIn(L) + TrickScore(card)
    BY <1>2, <1>5, <2>2, <2>4, <2>5, <2>6, <2>7
  <2> QED
    BY <2>8 DEF all
<1> QED
  BY <1>7, <1>8, SeatsAre

LEMMA SumOfOneMore ==
  ASSUME NEW f \in [Seats -> Nat], NEW w \in Seats, NEW n \in Nat
  PROVE  SeatSum([f EXCEPT ![w] = n]) + f[w] = SeatSum(f) + n
<1>1. CASE PlayerMode = 2
  <2>1. w \in {0, 1} /\ 0 \in Seats /\ 1 \in Seats
    BY <1>1, SeatsAre
  <2> QED
    BY <1>1, <2>1 DEF SeatSum
<1>2. CASE PlayerMode = 4
  <2>1. w \in {0, 1, 2, 3} /\ Seats = {0, 1, 2, 3}
    BY <1>2, SeatsAre
  <2>2. CASE w = 0
    BY <1>2, <2>1, <2>2 DEF SeatSum
  <2>3. CASE w = 1
    BY <1>2, <2>1, <2>3 DEF SeatSum
  <2>4. CASE w = 2
    BY <1>2, <2>1, <2>4 DEF SeatSum
  <2>5. CASE w = 3
    BY <1>2, <2>1, <2>5 DEF SeatSum
  <2> QED
    BY <2>1, <2>2, <2>3, <2>4, <2>5
<1> QED
  BY <1>1, <1>2, SeatsAre

\* What a step does to the worth of the round.
Conserved ==
    (/\ state = "Playing" /\ CardsLeft # {} /\ napoliClaimed' = napoliClaimed
     /\ \A i \in Seats : points'[i] < MaxPoints)
    => Worth' = Worth + (IF CardsLeft' = {} THEN OnePoint ELSE 0)

LEMMA LeftInDeck ==
  ASSUME TypeInv
  PROVE  /\ CardsLeft \in SUBSET Deck
         /\ SeatSum(points) \in Nat /\ ValueIn(CardsLeft) \in Nat
         /\ Worth = SeatSum(points) + ValueIn(CardsLeft)
<1>1. /\ hand \in [Seats -> SUBSET Deck] /\ table \in [Seats -> Deck \cup {NoCard}]
      /\ stock \in SUBSET Deck /\ points \in [Seats -> Nat]
  BY PointsAssumption DEF TypeInv, TypeOK
<1>2. CardsLeft \in SUBSET Deck
  BY <1>1 DEF CardsLeft
<1> QED
  BY <1>1, <1>2, ValueIsNat, SeatSumNat DEF Worth

\* No card is won, no point is made.
LEMMA NothingWon ==
  ASSUME TypeInv, points' = points, CardsLeft' = CardsLeft
  PROVE  Conserved
<1>1. Worth' = Worth
  <2>1. Worth' = SeatSum(points') + ValueIn(CardsLeft')
    BY DEF Worth, SeatSum, ValueIn
  <2> QED
    BY <2>1 DEF Worth
<1>2. Worth \in Nat
  BY LeftInDeck
<1> QED
  BY <1>1, <1>2 DEF Conserved

LEMMA NothingPlayed ==
  ASSUME TypeInv, UNCHANGED <<points, hand, table, stock>>
  PROVE  Conserved
<1>1. CardsLeft' = CardsLeft
  BY DEF CardsLeft
<1> QED
  BY <1>1, NothingWon

\* A card that does not complete the trick is still to be won.
LEMMA CardStaysLeft ==
  ASSUME TypeInv, NEW i \in Seats, NEW c \in hand[i], table[i] = NoCard,
         hand' = [hand EXCEPT ![i] = @ \ {c}], table' = [table EXCEPT ![i] = c],
         UNCHANGED <<points, stock>>
  PROVE  Conserved
<1>1. /\ hand \in [Seats -> SUBSET Deck] /\ table \in [Seats -> Deck \cup {NoCard}]
      /\ c \in Deck /\ NoCard \notin Deck
  BY NoCardOutside DEF TypeInv, TypeOK
<1>2. \A j \in Seats : /\ j # i => hand'[j] = hand[j] /\ table'[j] = table[j]
                       /\ j = i => hand'[j] = hand[j] \ {c} /\ table'[j] = c
  BY <1>1
<1>3. \A j \in Seats : (hand'[j] \cup {table'[j]}) \ {NoCard} = (hand[j] \cup {table[j]}) \ {NoCard}
  BY <1>1, <1>2
<1>4. CardsLeft = (stock \ {NoCard}) \cup UNION {(hand[j] \cup {table[j]}) \ {NoCard} : j \in Seats}
  BY DEF CardsLeft
<1>5. CardsLeft' = (stock' \ {NoCard}) \cup UNION {(hand'[j] \cup {table'[j]}) \ {NoCard} : j \in Seats}
  BY DEF CardsLeft
<1>6. CardsLeft' = CardsLeft
  BY <1>3, <1>4, <1>5
<1> QED
  BY <1>6, NothingWon

\* What was left before a trick is taken is what is left after it and the cards of the trick.
LEMMA TrickLeaves ==
  ASSUME TypeInv, CardsDisjoint, Level, NEW i \in Seats, NEW c \in hand[i], table[i] = NoCard,
         hand' = [hand EXCEPT ![i] = @ \ {c}], table' = EmptyTable, stock' = stock,
         Done([table EXCEPT ![i] = c])
  PROVE  LET compared == [table EXCEPT ![i] = c]
         IN /\ CardsLeft' \in SUBSET Deck
            /\ compared \in [Seats -> Deck \ CardsLeft']
            /\ \A j, k \in Seats : compared[j] = compared[k] => j = k
            /\ CardsLeft = CardsLeft' \cup {compared[j] : j \in Seats}
            /\ CardsLeft' = {} <=> stock = {} /\ hand'[0] = {}
<1> DEFINE compared == [table EXCEPT ![i] = c]
<1>1. /\ hand \in [Seats -> SUBSET Deck] /\ table \in [Seats -> Deck \cup {NoCard}]
      /\ stock \in SUBSET Deck /\ c \in Deck /\ NoCard \notin Deck
  BY NoCardOutside DEF TypeInv, TypeOK
<1>2. \A j \in Seats : /\ j # i => hand'[j] = hand[j] /\ compared[j] = table[j] /\ table[j] \in Deck
                       /\ j = i => hand'[j] = hand[j] \ {c} /\ compared[j] = c
                       /\ table'[j] = NoCard
  BY <1>1 DEF Done, EmptyTable
<1>3. CardsLeft' = stock \cup UNION {hand'[j] : j \in Seats}
  <2>1. CardsLeft' = (stock' \cup UNION {hand'[j] \cup {table'[j]} : j \in Seats}) \ {NoCard}
    BY DEF CardsLeft
  <2>2. \A j \in Seats : hand'[j] \subseteq Deck
    BY <1>1, <1>2
  <2> QED
    BY <1>1, <1>2, <2>1, <2>2
<1>4. CardsLeft' \in SUBSET Deck
  BY <1>1, <1>2, <1>3
<1>5. \A j, k \in Seats : compared[j] \notin hand'[k] /\ compared[j] \notin stock
  <2> TAKE j \in Seats, k \in Seats
  <2>1. CASE j = i
    BY <1>1, <1>2, <2>1 DEF CardsDisjoint
  <2>2. CASE j # i
    <3>1. compared[j] = table[j] /\ table[j] \notin hand[k] /\ table[j] \notin stock
      BY <1>2, <2>2 DEF CardsDisjoint
    <3> QED
      BY <1>2, <3>1
  <2> QED
    BY <2>1, <2>2
<1>6. compared \in [Seats -> Deck \ CardsLeft']
  <2>1. compared \in [Seats -> Deck]
    BY <1>1, <1>2
  <2>2. \A j \in Seats : compared[j] \notin CardsLeft'
    BY <1>3, <1>5
  <2> QED
    BY <2>1, <2>2
<1>7. \A j, k \in Seats : compared[j] = compared[k] => j = k
  <2>1. \A j \in Seats : table[j] # c
    BY <1>1 DEF CardsDisjoint
  <2> QED
    BY <1>1, <1>2, <2>1 DEF CardsDisjoint
<1>8. CardsLeft = CardsLeft' \cup {compared[j] : j \in Seats}
  <2>1. \A j \in Seats : (hand[j] \cup {table[j]}) \ {NoCard} = hand'[j] \cup {compared[j]}
    BY <1>1, <1>2
  <2>2. CardsLeft = (stock \ {NoCard}) \cup UNION {(hand[j] \cup {table[j]}) \ {NoCard} : j \in Seats}
    BY DEF CardsLeft
  <2>3. CardsLeft = stock \cup UNION {hand'[j] \cup {compared[j]} : j \in Seats}
    BY <1>1, <2>1, <2>2
  <2> QED
    BY <1>3, <2>3
<1>9. hand'[0] = {} => \A j \in Seats : hand'[j] = {}
  <2>1. Level'
    BY <1>1, <1>2, LevelCard
  <2>2. hand' \in [Seats -> SUBSET Deck] /\ 0 \in Seats
    BY <1>1, SeatsAre
  <2>3. \A j \in Seats : Held(j)' = Cardinality(hand'[j])
    BY <1>2, <2>2, CardsFinite DEF Held
  <2>4. \A j \in Seats : Cardinality(hand'[j]) = Cardinality(hand'[0])
    BY <2>1, <2>2, <2>3 DEF Level
  <2> QED
    BY <2>2, <2>4, NoCards
<1>10. CardsLeft' = {} <=> stock = {} /\ hand'[0] = {}
  <2>1. 0 \in Seats
    BY SeatsAre
  <2> QED
    BY <1>3, <1>9, <2>1
<1> QED
  BY <1>4, <1>6, <1>7, <1>8, <1>10

\* The winner of a trick has the value of its cards more, and a point for the last one.
LEMMA TrickIsPaid ==
  ASSUME TypeInv, NEW compared \in [Seats -> Deck], NEW left, NEW led,
         \E j \in Seats : Suit(compared[j]) = led, EndHand(compared, left, led),
         \A j \in Seats : points'[j] < MaxPoints
  PROVE  SeatSum(points') = SeatSum(points) + TrickScore(compared)
                            + (IF stock = {} /\ left[0] = {} THEN OnePoint ELSE 0)
<1> DEFINE win == Winner(compared, led)
           last == IF stock = {} /\ left[0] = {} THEN OnePoint ELSE 0
           gain == TrickScore(compared) + last
<1>1. points \in [Seats -> Nat]
  BY PointsAssumption DEF TypeInv, TypeOK
<1>2. win \in Seats
  <2>1. compared \in [Seats -> AllCards]
    BY DeckAssumption
  <2> QED
    BY <2>1, WinnerIsSeat
<1>3. TrickScore(compared) \in Nat /\ last \in Nat
  BY TrickScoreNat DEF OnePoint
<1>4. points' = [points EXCEPT ![win] = Capped(@ + gain)]
  BY DEF EndHand
<1> HIDE DEF win, last
<1>5. points'[win] = Capped(points[win] + gain)
  BY <1>1, <1>2, <1>4
<1>6. Capped(points[win] + gain) = points[win] + gain
  BY <1>2, <1>5, PointsAssumption DEF Capped
<1>7. points' = [points EXCEPT ![win] = points[win] + gain]
  BY <1>4, <1>6
<1>8. points[win] \in Nat /\ points[win] + gain \in Nat
  BY <1>1, <1>2, <1>3
<1>9. SeatSum(points') + points[win] = SeatSum(points) + (points[win] + gain)
  BY <1>1, <1>2, <1>7, <1>8, SumOfOneMore
<1>10. SeatSum(points) \in Nat /\ SeatSum(points') \in Nat
  <2>1. points' \in [Seats -> Nat]
    BY <1>1, <1>7, <1>8
  <2> QED
    BY <1>1, <2>1, SeatSumNat
<1>11. SeatSum(points') = SeatSum(points) + TrickScore(compared) + last
  <2> DEFINE trick == TrickScore(compared)
             mine == points[win]
             before == SeatSum(points)
             after == SeatSum(points')
  <2>1. /\ trick \in Nat /\ last \in Nat /\ mine \in Nat /\ before \in Nat /\ after \in Nat
        /\ after + mine = before + (mine + (trick + last))
    BY <1>3, <1>8, <1>9, <1>10
  <2> HIDE DEF trick, mine, before, after
  <2>2. after = before + trick + last
    BY <2>1
  <2> QED
    BY <2>2 DEF trick, before, after
<1> QED
  BY <1>11 DEF last

LEMMA CardConserves ==
  ASSUME Calm, TypeInv, CardInv, NEW i \in Seats, NEW c, Playable(i), HandlePlayCard(i, c),
         stock' = stock
  PROVE  Conserved
<1>1. CASE UNCHANGED <<playVars, scoreVars, stageVars, tasks>>
  BY <1>1, NothingPlayed DEF playVars, scoreVars
<1>2. CASE PutCard(i, c)
  <2> DEFINE compared == [table EXCEPT ![i] = c]
             left == [hand EXCEPT ![i] = @ \ {c}]
  <2>1. /\ hand' = left /\ c \in hand[i]
        /\ \/ Done(compared) /\ EndHand(compared, left, SuitLed(c))
           \/ ~Done(compared) /\ table' = compared /\ points' = points
    BY <1>2 DEF PutCard, Accepts, scoreVars
  <2>2. /\ hand \in [Seats -> SUBSET Deck] /\ table \in [Seats -> Deck \cup {NoCard}]
        /\ c \in Deck
    BY <2>1 DEF TypeInv, TypeOK
  <2>3. CardsDisjoint /\ Level /\ InTrick /\ turn = i
    BY <2>1, PlayableOpen DEF CardInv, GameInv, Even, Playable
  <2>4. table[i] = NoCard
    BY <2>3, TurnHasNoCard
  <2>5. CASE ~Done(compared)
    BY <2>1, <2>4, <2>5, CardStaysLeft
  <2>6. CASE Done(compared)
    <3>1. EndHand(compared, left, SuitLed(c)) /\ table' = EmptyTable
      BY <2>1, <2>6 DEF EndHand
    <3>2. \E j \in Seats : Suit(compared[j]) = SuitLed(c)
      <4>1. CASE SuitLed(c) = Suit(c)
        BY <2>2, <4>1
      <4>2. CASE SuitLed(c) # Suit(c)
        <5>1. suit # NoSuit /\ SuitLed(c) = suit
          BY <4>2 DEF SuitLed
        <5>2. PICK lead \in Seats, k \in Seats :
                /\ turn = (lead + k) % PlayerMode
                /\ suit = IF k = 0 THEN NoSuit ELSE Suit(table[lead])
          BY <2>3 DEF InTrick
        <5>3. k # 0 /\ suit = Suit(table[lead])
          BY <5>1, <5>2
        <5>4. lead # i
          BY <2>3, <5>2, <5>3, SeatsAre
        <5>5. compared[lead] = table[lead]
          BY <2>2, <5>4
        <5> QED
          BY <5>1, <5>3, <5>5
      <4> QED
        BY <4>1, <4>2
    <3>3. /\ CardsLeft' \in SUBSET Deck
          /\ compared \in [Seats -> Deck \ CardsLeft']
          /\ \A j, k \in Seats : compared[j] = compared[k] => j = k
          /\ CardsLeft = CardsLeft' \cup {compared[j] : j \in Seats}
          /\ CardsLeft' = {} <=> stock = {} /\ left[0] = {}
      BY <2>1, <2>3, <2>4, <2>6, <3>1, TrickLeaves
    <3> HIDE DEF compared, left
    <3>4. ValueIn(CardsLeft) = ValueIn(CardsLeft') + TrickScore(compared)
      BY <3>3, ValueOfTrick
    <3>5. ASSUME \A j \in Seats : points'[j] < MaxPoints
          PROVE  SeatSum(points') = SeatSum(points) + TrickScore(compared)
                                    + (IF stock = {} /\ left[0] = {} THEN OnePoint ELSE 0)
      <4>1. compared \in [Seats -> Deck]
        BY <3>3
      <4> QED
        BY <3>1, <3>2, <3>5, <4>1, TrickIsPaid
    <3>6. Worth' = SeatSum(points') + ValueIn(CardsLeft')
      BY DEF Worth, SeatSum, ValueIn
    <3>7. /\ Worth = SeatSum(points) + ValueIn(CardsLeft) /\ SeatSum(points) \in Nat
          /\ ValueIn(CardsLeft') \in Nat /\ TrickScore(compared) \in Nat
      BY <3>3, LeftInDeck, ValueIsNat, TrickScoreNat
    <3>8. OnePoint \in Nat
      BY DEF OnePoint
    <3> QED
      BY <3>3, <3>4, <3>5, <3>6, <3>7, <3>8 DEF Conserved
  <2> QED
    BY <2>5, <2>6
<1> QED
  BY <1>1, <1>2 DEF HandlePlayCard

\* Nothing is dealt before the last round is over.
LEMMA DealAfterRound ==
  ASSUME Calm, TypeInv, CardInv, state = "Playing", RoundTasks # {}
  PROVE  CardsLeft = {}
<1>1. stock = {} /\ (\A j \in Seats : hand[j] = {}) /\ table = EmptyTable
  BY DEF CardInv, GameInv, BetweenRounds, HandsEmpty
<1>2. \A j \in Seats : hand[j] \cup {table[j]} = {NoCard}
  BY <1>1 DEF EmptyTable
<1> QED
  BY <1>1, <1>2 DEF CardsLeft

LEMMA DrawConserves ==
  ASSUME TypeInv, CardInv, NEW t, HandleDrawCard(t)
  PROVE  Conserved
<1>1. /\ hand \in [Seats -> SUBSET Deck] /\ stock \in SUBSET Deck /\ NoCard \notin Deck
  BY NoCardOutside DEF TypeInv, TypeOK
<1>2. PICK d \in Draws : /\ hand' = [j \in Seats |-> hand[j] \cup ({d[j]} \ {NoCard})]
                         /\ stock' = stock \ {d[j] : j \in Seats}
  BY DEF HandleDrawCard
<1>3. table' = table /\ points' = points
  BY DEF HandleDrawCard, scoreVars
<1>4. \A j \in Seats : d[j] \in stock \cup {NoCard}
  BY DEF Draws
<1>5. CardsLeft' = (stock' \cup UNION {hand'[j] \cup {table'[j]} : j \in Seats}) \ {NoCard}
  BY DEF CardsLeft
<1>6. \A x : x \in CardsLeft' <=> x \in CardsLeft
  <2> TAKE x
  <2>1. x \in CardsLeft <=> /\ x # NoCard
                            /\ x \in stock \/ \E j \in Seats : x \in hand[j] \/ x = table[j]
    BY DEF CardsLeft
  <2>2. x \in CardsLeft' <=> /\ x # NoCard
                             /\ x \in stock' \/ \E j \in Seats : x \in hand'[j] \/ x = table[j]
    BY <1>3, <1>5
  <2>3. \A j \in Seats : x \in hand'[j] <=> x \in hand[j] \/ (x = d[j] /\ x # NoCard)
    BY <1>2
  <2>4. x \in stock' <=> x \in stock /\ \A j \in Seats : x # d[j]
    BY <1>2
  <2> QED
    BY <1>4, <2>1, <2>2, <2>3, <2>4
<1>7. CardsLeft' = CardsLeft
  BY <1>6
<1> QED
  BY <1>3, <1>7, NothingWon

LEMMA RunDueConserves == ASSUME Calm, TypeInv, SeatInv, CardInv, RunDue PROVE Conserved
<1> SUFFICES ASSUME state = "Playing", CardsLeft # {} PROVE Conserved
  BY DEF Conserved
<1>1. PICK t \in tasks : \/ HandleNewRound(t) \/ DealCards(t) \/ HandleNewHand(t) \/ HandleDrawCard(t)
                         \/ UpdateUsersStayingEndgame(t) \/ NextGame(t)
  BY DEF RunDue
<1>2. t.kind \notin {"kick", "next", "new_round", "deal"}
  BY DealAfterRound DEF SeatInv, Queue, RoundTasks
<1>3. HandleNewHand(t) \/ HandleDrawCard(t)
  BY <1>1, <1>2 DEF HandleNewRound, DealCards, UpdateUsersStayingEndgame, NextGame
<1>4. CASE HandleNewHand(t)
  BY <1>4, NothingPlayed DEF HandleNewHand, scoreVars
<1> QED
  BY <1>3, <1>4, DrawConserves

LEMMA RestOfLoopConserves == ASSUME Calm, TypeInv, CardInv, RestOfLoop PROVE Conserved
<1> SUFFICES ASSUME state = "Playing" PROVE Conserved
  BY DEF Conserved
<1>1. CASE Overtime \/ BackToWaiting \/ Prepare \/ CheckGenBot \/ Nothing
  <2>1. UNCHANGED <<points, hand, table, stock>>
    BY <1>1 DEF Overtime, BackToWaiting, Prepare, CheckGenBot, Nothing, playVars, scoreVars
  <2> QED
    BY <2>1, NothingPlayed
<1>2. ASSUME NEW i \in Seats, AutoPlay(i) \/ BotPlayCard(i) PROVE Conserved
  <2>1. stock' = stock /\ onTurn[i]
    BY <1>2 DEF AutoPlay, BotPlayCard
  <2>2. CASE UNCHANGED <<playVars, scoreVars, stageVars, tasks>>
    BY <2>1, <2>2, NothingPlayed DEF playVars, scoreVars
  <2>3. CASE \E c : MayPlay(i) /\ HandlePlayCard(i, c)
    BY <2>1, <2>3, CardConserves DEF MayPlay, Playable
  <2> QED
    BY <1>2, <2>2, <2>3 DEF AutoPlay, BotPlayCard
<1> QED
  BY <1>1, <1>2 DEF RestOfLoop, StartGame

LEMMA LeaveConserves == ASSUME TypeInv, SeatInv, Leaves PROVE Conserved
<1> SUFFICES ASSUME state = "Playing" PROVE Conserved
  BY DEF Conserved
<1>1. stock' = stock
  BY LeavesCases
<1>2. CASE UNCHANGED <<playVars, scoreVars>>
  BY <1>1, <1>2, NothingPlayed DEF scoreVars, playVars
<1>3. ASSUME NEW u \in Users, ~StaysSeated(u), UserLeave({u}) PROVE Conserved
  <2>1. \A i \in Seats : ~(uid[i] \in {u})
    BY <1>3 DEF StaysSeated, IsPlayer, SeatOf, SeatInv, SeatsFullInGame
  <2>2. points' = points /\ hand' = hand /\ table' = table
    <3>1. points' = [i \in Seats |-> IF uid[i] \in {u} THEN 0 ELSE points[i]]
      BY <1>3 DEF UserLeave
    <3>2. hand' = [i \in Seats |-> IF uid[i] \in {u} THEN {} ELSE hand[i]]
      BY <1>3 DEF UserLeave
    <3>3. points' = points
      BY <2>1, <3>1 DEF TypeInv, TypeOK
    <3>4. hand' = hand
      BY <2>1, <3>2 DEF TypeInv, TypeOK
    <3> QED
      BY <1>3, <3>3, <3>4 DEF UserLeave
  <2> QED
    BY <1>1, <2>2, NothingPlayed
<1> QED
  BY <1>2, <1>3, LeavesCases

LEMMA NextConserves ==
  ASSUME Calm, TypeInv, SeatInv, CardInv, [Next]_vars PROVE Conserved
<1>1. CASE Visits
  <2>1. UNCHANGED <<points, hand, table, stock>>
    BY <1>1, VisitsKeep DEF playVars, scoreVars
  <2> QED
    BY <2>1, NothingPlayed
<1>2. CASE Leaves
  BY <1>2, LeaveConserves
<1>3. ASSUME NEW u \in Users, NEW c \in Deck, PlayCard(u, c) PROVE Conserved
  <2>1. PICK i \in SeatOf(u) : /\ onTurn[i] \/ "early play" \in Inputs
                               /\ MayPlay(i) /\ HandlePlayCard(i, c)
    BY <1>3 DEF PlayCard
  <2>2. i \in Seats /\ stock' = stock /\ Playable(i)
    BY <1>3, <2>1 DEF PlayCard, SeatOf, MayPlay, Playable, Calm
  <2> QED
    BY <2>1, <2>2, CardConserves
<1>4. ASSUME NEW u \in Users, HandleGameActionNapoli(u) PROVE Conserved
  BY <1>4 DEF HandleGameActionNapoli, Conserved
<1>5. CASE Tick \/ Update \/ UNCHANGED vars
  <2>1. UNCHANGED <<points, hand, table, stock>>
    BY <1>5 DEF Tick, Update, vars, playVars, scoreVars
  <2> QED
    BY <2>1, NothingPlayed
<1>6. CASE RunDue \/ RestOfLoop
  BY <1>6, RunDueConserves, RestOfLoopConserves
<1> QED
  BY <1>1, <1>2, <1>3, <1>4, <1>5, <1>6, StepKinds

-----------------------------------------------------------------------------
(* The properties *)

LEMMA CountAround ==
  ASSUME NEW lead \in Seats, NEW k \in Seats
  PROVE  Cardinality({(lead + j) % PlayerMode : j \in 0..(k - 1)}) = k
<1> DEFINE S(n) == {(lead + j) % PlayerMode : j \in 0..(n - 1)}
<1>1. ASSUME NEW n \in Seats, n + 1 \in Seats, IsFiniteSet(S(n)), Cardinality(S(n)) = n
      PROVE  IsFiniteSet(S(n + 1)) /\ Cardinality(S(n + 1)) = n + 1
  <2> DEFINE e == (lead + n) % PlayerMode
  <2>1. S(n + 1) = S(n) \cup {e}
    <3>1. 0..((n + 1) - 1) = (0..(n - 1)) \cup {n}
      BY SeatsAre
    <3> QED
      BY <3>1
  <2>2. e \notin S(n)
    <3>1. CASE PlayerMode = 2
      <4>1. Seats = {0, 1} /\ n = 0
        BY <1>1, <3>1, SeatsAre
      <4>2. S(n) = {}
        BY <4>1
      <4> QED
        BY <4>2
    <3>2. CASE PlayerMode = 4
      <4>1. Seats = {0, 1, 2, 3} /\ n \in {0, 1, 2} /\ lead \in {0, 1, 2, 3}
        BY <1>1, <3>2, SeatsAre
      <4>2. \A j \in 0..(n - 1) : j \in {0, 1} /\ j < n
        BY <4>1
      <4>3. \A j \in {0, 1} : j < n => (lead + j) % 4 # (lead + n) % 4
        BY <4>1
      <4> QED
        BY <3>2, <4>2, <4>3
    <3> QED
      BY <3>1, <3>2, SeatsAre
  <2> HIDE DEF S, e
  <2> QED
    BY <1>1, <2>1, <2>2, FS_AddElement
<1>2. IsFiniteSet(S(0)) /\ Cardinality(S(0)) = 0
  <2>1. S(0) = {}
    OBVIOUS
  <2> QED
    BY <2>1, FS_EmptySet
<1> HIDE DEF S
<1>3. 0 \in Seats /\ 1 \in Seats /\ IsFiniteSet(S(1)) /\ Cardinality(S(1)) = 1
  <2>1. 0 \in Seats /\ 0 + 1 \in Seats /\ 0 + 1 = 1
    BY SeatsAre
  <2> QED
    BY <1>1, <1>2, <2>1
<1>4. CASE k \in {0, 1}
  BY <1>2, <1>3, <1>4 DEF S
<1>5. CASE k \notin {0, 1}
  <2>1. PlayerMode = 4 /\ k \in {2, 3} /\ 2 \in Seats /\ 3 \in Seats
    BY <1>5, SeatsAre
  <2>2. IsFiniteSet(S(2)) /\ Cardinality(S(2)) = 2
    <3>1. 1 + 1 = 2
      OBVIOUS
    <3> QED
      BY <1>1, <1>3, <2>1, <3>1
  <2>3. IsFiniteSet(S(3)) /\ Cardinality(S(3)) = 3
    <3>1. 2 + 1 = 3
      OBVIOUS
    <3> QED
      BY <1>1, <2>1, <2>2, <3>1
  <2> QED
    BY <2>1, <2>2, <2>3 DEF S
<1> QED
  BY <1>4, <1>5

LEMMA InOrder ==
  ASSUME Calm, TypeInv, CardInv PROVE TrickInOrder
<1> DEFINE shown == {i \in Seats : table[i] # NoCard}
<1>1. OneTurn
  BY DEF CardInv, GameInv, OneTurn
<1>2. ASSUME state = "Playing", shown # {}
      PROVE  \E lead \in Seats :
                /\ shown = {(lead + k) % PlayerMode : k \in 0..(Cardinality(shown) - 1)}
                /\ turn = (lead + Cardinality(shown)) % PlayerMode
                /\ suit = Suit(table[lead])
                /\ \A i \in shown : Suit(table[i]) = suit \/ OfSuit(hand[i], suit) = {}
  <2>1. InTrick
    BY <1>2 DEF CardInv, GameInv, Even, EmptyTable
  <2>2. PICK lead \in Seats, k \in Seats :
            /\ turn = (lead + k) % PlayerMode
            /\ \A j \in Seats : table[(lead + j) % PlayerMode] = NoCard <=> j >= k
            /\ suit = IF k = 0 THEN NoSuit ELSE Suit(table[lead])
            /\ \A i \in Seats : \/ table[i] = NoCard
                                 \/ Suit(table[i]) = suit \/ OfSuit(hand[i], suit) = {}
    BY <2>1 DEF InTrick
  <2>3. shown = {(lead + j) % PlayerMode : j \in 0..(k - 1)}
    <3>1. ASSUME NEW i \in shown PROVE \E j \in 0..(k - 1) : i = (lead + j) % PlayerMode
      <4>1. PICK j \in Seats : i = (lead + j) % PlayerMode
        BY Around
      <4>2. j \in 0..(k - 1)
        BY <2>2, <4>1, SeatsAre
      <4> QED
        BY <4>1, <4>2
    <3>2. ASSUME NEW j \in 0..(k - 1) PROVE (lead + j) % PlayerMode \in shown
      <4>1. j \in Seats /\ ~(j >= k) /\ (lead + j) % PlayerMode \in Seats
        BY SeatsAre
      <4> QED
        BY <2>2, <4>1
    <3> QED
      BY <3>1, <3>2
  <2>4. Cardinality(shown) = k
    BY <2>3, CountAround
  <2>5. k # 0
    BY <1>2, <2>3
  <2> HIDE DEF shown
  <2>6. \A i \in shown : i \in Seats /\ table[i] # NoCard
    BY DEF shown
  <2>7. suit = Suit(table[lead])
    BY <2>2, <2>5
  <2>8. \A i \in shown : Suit(table[i]) = suit \/ OfSuit(hand[i], suit) = {}
    BY <2>2, <2>6
  <2> QED
    BY <2>2, <2>3, <2>4, <2>7, <2>8
<1> QED
  BY <1>1, <1>2 DEF TrickInOrder

\* The inductive invariant, for any people, cards, delays and inputs the assumptions allow.
THEOREM CardInvariant == Spec => []CardInv
<1>1. TypeInv /\ SeatInv /\ QueueInv /\ CardInv /\ [Next]_vars => CardInv'
  BY NextCards
<1> QED
  BY <1>1, InitCards, TypeInvariant, SeatInvariant, QueueInvariant, PTL DEF Spec

\* No card is ever in two places, even where clients play before they are asked to:
\* cards are dealt only when the last round's are gone, drawn from what is left of the deck,
\* and played from a hand to an empty place on the table.
THEOREM CardsInOnePlace == Spec => []CardsDisjoint
<1>1. CardInv => CardsDisjoint
  BY DEF CardInv
<1> QED
  BY <1>1, CardInvariant, PTL

\* Where clients play only when they are asked to, everybody holds as many cards as the others,
\* through deals, draws, tricks, autoplay and leaves.
THEOREM HandsStayLevel == ASSUME "early play" \notin Inputs PROVE Spec => []HandsLevel
<1>1. CardInv => HandsLevel
  BY DEF CardInv, GameInv, Even, Calm, Level, Held, HandsLevel
<1> QED
  BY <1>1, CardInvariant, PTL

\* Where clients play only when they are asked to, every trick is played in turn from its
\* leader, and everybody follows suit who can.
THEOREM TricksInOrder == ASSUME "early play" \notin Inputs PROVE Spec => []TrickInOrder
<1>1. TypeInv /\ CardInv => TrickInOrder
  BY InOrder DEF Calm
<1> QED
  BY <1>1, TypeInvariant, CardInvariant, PTL

\* Where clients play only when they are asked to, the team declared the winner is not behind: a
\* card ends the game by the points as they are, and in solo the order of the seats at the last
\* trick is still theirs when the limit comes, as a new round trims both alike.
THEOREM WinnerIsAhead == ASSUME "early play" \notin Inputs PROVE Spec => WinnerLeads
<1>1. TypeInv /\ TypeInv' /\ SeatInv /\ CardInv /\ ScoreInv /\ [Next]_vars => ScoreInv'
  BY NextScores
<1>2. TypeInv /\ TypeInv' /\ SeatInv /\ CardInv /\ ScoreInv /\ [Next]_vars =>
        [(/\ state = "Playing" /\ state' = "Ended"
          /\ hand' # hand \/ (PlayerMode = 2 /\ napoliClaimed = {}))
         => LET totals == TeamTotals(points)' IN totals[winTeam'] >= totals[1 - winTeam']]_vars
  BY WinnerNotBehind DEF Calm
<1> QED
  BY <1>1, <1>2, InitScores, TypeInvariant, SeatInvariant, CardInvariant, PTL DEF Spec, WinnerLeads

\* Where clients play only when they are asked to, the points of a round add up: a card is worth
\* what it is worth in a hand, on the table, in the stock or won, the last trick adds its one
\* point, and nothing else does until the next deal.
THEOREM PointsAreConserved == ASSUME "early play" \notin Inputs PROVE Spec => PointsConserved
<1>1. TypeInv /\ SeatInv /\ CardInv /\ [Next]_vars =>
        [(/\ state = "Playing" /\ CardsLeft # {} /\ napoliClaimed' = napoliClaimed
          /\ \A i \in Seats : points'[i] < MaxPoints)
         => Worth' = Worth + (IF CardsLeft' = {} THEN OnePoint ELSE 0)]_vars
  BY NextConserves DEF Calm, Conserved
<1> QED
  BY <1>1, TypeInvariant, SeatInvariant, CardInvariant, PTL DEF Spec, PointsConserved
=============================================================================
