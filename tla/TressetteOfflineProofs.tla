---------------------- MODULE TressetteOfflineProofs ----------------------
(***************************************************************************)
(* The native client's own Tressette, for any deck, any number of cards in *)
(* a hand and any target: the types, and what CardsEven, OneThingDue,      *)
(* MatchDecided, TrickFollows and PointsAddUp say.                         *)
(*                                                                         *)
(* They follow from OfflineInv, which has three parts.  TrickInv: whose    *)
(* card the next one is, and that what flies to the trick obeys the rules  *)
(* as what lies there does.  StageInv: what the one flag, delay or flight  *)
(* that is set says of the turn, the trick and the cards drawn.  HandsInv: *)
(* HeldBy(p), the hand of p with the cards of p on their way, changes only *)
(* when a trick is collected or a deal is made, and keeps apart from the   *)
(* others' and from the stock.  A bot or the person on turn has a card by  *)
(* HandsInv, as no card of the trick is theirs by TrickInv.  PointsInv     *)
(* adds what the points need: a trick takes its cards, all different, out  *)
(* of what is left, and nothing is left of a round that is over.           *)
(***************************************************************************)
EXTENDS TressetteOffline, FiniteSetTheorems, SequenceTheorems, WellFoundedInduction, TLAPS

Flight == [card : Deck, owner : 0..3]

\* The fields of a Game.
GameType == [deck : Seq(Deck), hand : [0..3 -> SUBSET Deck], trick : Seq(Flight),
             points : [Teams -> Nat], players : Modes, dealer : 0..3, turn : -1..3,
             tricks : Nat, over : BOOLEAN]

\* x is the next to add a card to the trick.
IsNext(x) ==
    /\ Len(game.trick) < game.players
    /\ game.trick # <<>> => x = (game.trick[1].owner + Len(game.trick)) % game.players

\* Who has played to the trick follows suit, unless there is none in the hand.
Followed(t) ==
    game.trick # <<>> => Suit(t.card) = Lead(game) \/ \A c \in game.hand[t.owner] : Suit(c) # Lead(game)

\* The trick so far and the card flying to it, in turn around the table.
TrickInv ==
    /\ Len(game.trick) <= game.players
    /\ \A i \in DOMAIN game.trick :
          game.trick[i].owner = (game.trick[1].owner + i - 1) % game.players
    /\ game.turn # Nobody => IsNext(game.turn) /\ flights = {}
    /\ \A f \in flights : IsNext(f.owner)
    /\ \A t \in ToSet(game.trick) \cup flights : Followed(t) /\ t.card \notin game.hand[t.owner]

\* What is under way, and what that says of the rest of the table.
StageInv ==
    /\ \A x, y \in doing : x = y
    /\ \A f, h \in flights : f = h
    /\ MatchOver => doing = {}
    /\ MatchOver \/ doing # {} => flights = {}
    /\ ~MatchOver =>
          /\ drawFlights # <<>> => doing = {"drawing"}
          /\ game.over <=> doing = {"transition"}
          /\ doing = {} /\ flights = {} => game.turn = Person
          /\ "bot" \in doing => game.turn # Person
          /\ doing \cap {"dealing", "stock", "drawing", "transition", "bot"} # {} => game.turn # Nobody
          /\ doing \cap {"drawing", "transition"} # {} => game.trick = <<>>
          /\ doing \cap {"compare", "collecting"} # {} => Len(game.trick) = game.players

\* All hold equally many cards, no two the same one, and none of the stock.
HandsInv ==
    /\ \A p, q \in Players : Cardinality(HeldBy(p)) = Cardinality(HeldBy(q))
    /\ \A p, q \in Players : p # q => HeldBy(p) \cap HeldBy(q) = {}
    /\ \A p \in Players : HeldBy(p) \cap ToSet(game.deck) = {}
    /\ \A p \in 0..3 \ Players : game.hand[p] = {}
    /\ IsInjective(game.deck)
    /\ Len(game.deck) % game.players = 0
    /\ Len(game.deck) + game.players * (Cardinality(HeldBy(Person)) + game.tricks) = Cardinality(Deck)
    /\ ~MatchOver /\ ~game.over => HeldBy(Person) # {}

OfflineInv ==
    /\ game \in GameType /\ drawFlights \in Seq(Flight) /\ OfflineTypeOK
    /\ MatchDecided /\ TrickInv /\ StageInv /\ HandsInv

\* A step that leaves the cards and the points alone.
Kept ==
    /\ CardsLeft' = CardsLeft /\ round' = round /\ winner' = winner
    /\ game'.points = game.points /\ game'.over = game.over

\* The step that takes a trick.
TrickTaken ==
    /\ game'.points = [game.points EXCEPT ![TeamOf(WinnerOfTrick(game))] = @ + TrickPoints(game)]
    /\ CardsLeft' = ToSet(game.deck) \cup UNION {game.hand[p] : p \in Players}
    /\ round' = round
    /\ ~MatchOver' /\ game'.over => RoundPlayed(game)

LEMMA DeckIs ==
  /\ Deck \in SUBSET (0..39) /\ IsFiniteSet(Deck)
  /\ \A s \in Shuffles : ToSet(s) = Deck /\ Cardinality(Deck) = Len(s)
<1>0. 0 \in Int /\ 39 \in Int
  OBVIOUS
<1>1. IsFiniteSet(0..39)
  BY <1>0, FS_Interval, Zenon
<1>2. ASSUME NEW s \in Shuffles PROVE ToSet(s) \subseteq 0..39
  <2>1. s \in Seq(0..39)
    BY OfflineAssumption
  <2>2. DOMAIN s = 1..Len(s) /\ \A i \in 1..Len(s) : s[i] \in 0..39
    BY <2>1, LenProperties
  <2> QED
    BY <2>2 DEF ToSet
<1>3. Deck \in SUBSET (0..39)
  BY <1>2 DEF Deck
<1>4. IsFiniteSet(Deck)
  BY <1>1, <1>3, FS_Subset, Zenon
<1>5. \A s \in Shuffles : ToSet(s) = Deck
  BY OfflineAssumption DEF Deck
<1>6. ASSUME NEW s \in Shuffles PROVE Cardinality(Deck) = Len(s)
  <2>1. s \in Seq(0..39) /\ IsInjective(s)
    BY OfflineAssumption
  <2>2. s \in Bijection(1..Len(s), ToSet(s))
    BY <2>1 DEF Bijection, Injection, Surjection, ToSet, IsInjective
  <2>3. ExistsBijection(1..Len(s), ToSet(s))
    BY <2>2 DEF ExistsBijection
  <2>4. Len(s) \in Nat
    BY <2>1
  <2> QED
    BY <2>3, <2>4, <1>4, <1>5, FS_CountingElements, FS_NatBijection
<1> QED
  BY <1>3, <1>4, <1>5, <1>6

LEMMA SomeCards ==
  ASSUME NEW S \in SUBSET Deck
  PROVE  /\ IsFiniteSet(S) /\ Cardinality(S) \in Nat
         /\ Cardinality(S) = 0 <=> S = {}
  BY DeckIs, FS_Subset, FS_CardinalityType, FS_EmptySet

LEMMA OneCardMore ==
  ASSUME NEW S \in SUBSET Deck, NEW c \in Deck \ S
  PROVE  Cardinality(S \cup {c}) = Cardinality(S) + 1 /\ Cardinality(S) \in Nat
  BY SomeCards, FS_AddElement
-----------------------------------------------------------------------------
(* The fields of a game *)

LEMMA GameIs ==
  ASSUME game \in GameType
  PROVE  /\ game = [deck |-> game.deck, hand |-> game.hand, trick |-> game.trick,
                    points |-> game.points, players |-> game.players, dealer |-> game.dealer,
                    turn |-> game.turn, tricks |-> game.tricks, over |-> game.over]
         /\ game.deck \in Seq(Deck) /\ game.hand \in [0..3 -> SUBSET Deck]
         /\ game.trick \in Seq(Flight) /\ game.points \in [Teams -> Nat]
         /\ game.players \in Modes /\ game.dealer \in 0..3 /\ game.turn \in -1..3
         /\ game.tricks \in Nat /\ game.over \in BOOLEAN
  BY DEF GameType

LEMMA AGame ==
  ASSUME NEW deck \in Seq(Deck), NEW hand \in [0..3 -> SUBSET Deck], NEW trick \in Seq(Flight),
         NEW points \in [Teams -> Nat], NEW players \in Modes, NEW dealer \in 0..3,
         NEW turn \in -1..3, NEW tricks \in Nat, NEW over \in BOOLEAN
  PROVE  [deck |-> deck, hand |-> hand, trick |-> trick, points |-> points, players |-> players,
          dealer |-> dealer, turn |-> turn, tricks |-> tricks, over |-> over] \in GameType
  BY DEF GameType

LEMMA PlayersAre ==
  ASSUME game \in GameType
  PROVE  /\ \/ game.players = 2 /\ Players = {0, 1}
            \/ game.players = 4 /\ Players = {0, 1, 2, 3}
         /\ Players \subseteq 0..3 /\ Person \in Players
<1>1. game.players \in {2, 4}
  BY GameIs DEF Modes
<1> QED
  BY <1>1 DEF Players, Person

LEMMA OneFurther ==
  ASSUME NEW n \in {2, 4}, NEW a \in 0..3, NEW k \in Nat
  PROVE  (((a + k) % n) + 1) % n = (a + k + 1) % n
<1>1. n = 2 \/ n = 4
  OBVIOUS
<1> QED
  BY <1>1

LEMMA TrickIs ==
  ASSUME game \in GameType
  PROVE  /\ Len(game.trick) \in Nat /\ DOMAIN game.trick = 1..Len(game.trick)
         /\ game.trick # <<>> <=> Len(game.trick) # 0
         /\ \A i \in 1..Len(game.trick) : game.trick[i] \in Flight /\ game.trick[i] \in ToSet(game.trick)
         /\ \A t \in ToSet(game.trick) : \E i \in 1..Len(game.trick) : t = game.trick[i]
<1>1. game.trick \in Seq(Flight)
  BY GameIs
<1>2. Len(game.trick) \in Nat /\ DOMAIN game.trick = 1..Len(game.trick)
  BY <1>1, LenProperties
<1>3. \A i \in 1..Len(game.trick) : game.trick[i] \in Flight
  BY <1>1, ElementOfSeq
<1>4. game.trick # <<>> <=> Len(game.trick) # 0
  BY <1>1, EmptySeq
<1> QED
  BY <1>2, <1>3, <1>4 DEF ToSet

LEMMA DeckSeq ==
  ASSUME game \in GameType
  PROVE  /\ Len(game.deck) \in Nat /\ DOMAIN game.deck = 1..Len(game.deck)
         /\ game.deck # <<>> <=> Len(game.deck) # 0
         /\ \A i \in 1..Len(game.deck) : game.deck[i] \in Deck /\ game.deck[i] \in ToSet(game.deck)
         /\ ToSet(game.deck) \subseteq Deck
<1>1. game.deck \in Seq(Deck)
  BY GameIs
<1>2. Len(game.deck) \in Nat /\ DOMAIN game.deck = 1..Len(game.deck)
  BY <1>1, LenProperties
<1>3. \A i \in 1..Len(game.deck) : game.deck[i] \in Deck
  BY <1>1, ElementOfSeq
<1>4. game.deck # <<>> <=> Len(game.deck) # 0
  BY <1>1, EmptySeq
<1> QED
  BY <1>2, <1>3, <1>4 DEF ToSet

\* What is left of a deck when k cards are taken.
LEMMA RestOfDeck ==
  ASSUME NEW s \in Seq(Deck), NEW k \in Nat, k <= Len(s), NEW rest, rest = SubSeq(s, k + 1, Len(s))
  PROVE  /\ rest \in Seq(Deck) /\ Len(rest) = Len(s) - k /\ DOMAIN rest = 1..Len(rest)
         /\ \A i \in 1..Len(rest) : rest[i] = s[k + i]
<1>1. Len(s) \in Nat /\ \A i \in 1..Len(s) : s[i] \in Deck
  BY LenProperties, ElementOfSeq
<1>2. k + 1 \in Int /\ Len(s) \in Int /\ \A i \in (k + 1)..Len(s) : s[i] \in Deck
  BY <1>1
<1>3. /\ rest \in Seq(Deck)
      /\ Len(rest) = IF k + 1 <= Len(s) THEN Len(s) - (k + 1) + 1 ELSE 0
      /\ \A i \in 1..(Len(s) - (k + 1) + 1) : rest[i] = s[(k + 1) + i - 1]
  BY <1>2, SubSeqProperties
<1>4. Len(rest) = Len(s) - k
  BY <1>1, <1>3
<1>5. \A i \in 1..Len(rest) : i \in 1..(Len(s) - (k + 1) + 1) /\ (k + 1) + i - 1 = k + i
  BY <1>1, <1>4
<1>6. \A i \in 1..Len(rest) : rest[i] = s[k + i]
  BY <1>3, <1>5
<1> QED
  BY <1>3, <1>4, <1>6, LenProperties

LEMMA CardsInTrick ==
  ASSUME game \in GameType, OfflineTypeOK, NEW i \in 1..Len(game.trick)
  PROVE  /\ game.trick[i] \in Out
         /\ game.trick[i].card \in Deck /\ game.trick[i].owner \in Players
<1>1. game.trick[i] \in Out
  BY TrickIs DEF Out
<1> QED
  BY <1>1 DEF OfflineTypeOK

LEMMA HeldInDeck ==
  ASSUME game \in GameType, OfflineTypeOK, NEW p \in 0..3
  PROVE  HeldBy(p) \in SUBSET Deck
<1>1. game.hand[p] \subseteq Deck
  BY GameIs
<1>2. \A t \in Out : t.card \in Deck
  BY DEF OfflineTypeOK
<1> QED
  BY <1>1, <1>2 DEF HeldBy

LEMMA LeftIs ==
  OfflineTypeOK =>
      CardsLeft = (ToSet(game.deck) \cup UNION {game.hand[p] : p \in Players}) \cup {t.card : t \in Out}
<1> SUFFICES ASSUME OfflineTypeOK
             PROVE  CardsLeft = (ToSet(game.deck) \cup UNION {game.hand[p] : p \in Players})
                                    \cup {t.card : t \in Out}
  OBVIOUS
<1>1. \A t \in Out : t.owner \in Players
  BY DEF OfflineTypeOK
<1>2. ASSUME NEW c PROVE c \in UNION {HeldBy(p) : p \in Players}
                          <=> c \in UNION {game.hand[p] : p \in Players} \/ \E t \in Out : c = t.card
  BY <1>1 DEF HeldBy
<1> QED
  BY <1>2 DEF CardsLeft

LEMMA LeftIsNext ==
  OfflineTypeOK' =>
      (CardsLeft = (ToSet(game.deck) \cup UNION {game.hand[p] : p \in Players}) \cup {t.card : t \in Out})'
  BY LeftIs, PTL
-----------------------------------------------------------------------------
(* A card starts to fly *)

\* Cards that only change their place leave every hand as it was, counting what is on its way.
LEMMA HandsStay ==
  ASSUME game \in GameType, HandsInv, game'.players = game.players, game'.deck = game.deck,
         game'.tricks = game.tricks, game'.over = game.over, winner' = winner,
         \A p \in 0..3 : HeldBy(p)' = HeldBy(p),
         \A p \in (0..3) \ Players : game'.hand[p] = {}
  PROVE  HandsInv' /\ CardsLeft' = CardsLeft
<1>1. Players' = Players
  BY DEF Players
<1>2. Person \in Players /\ Players \subseteq 0..3
  BY PlayersAre
<1>3. HandsInv'
  BY <1>1, <1>2 DEF HandsInv, MatchOver
<1>4. CardsLeft' = CardsLeft
  BY <1>1, <1>2 DEF CardsLeft
<1> QED
  BY <1>3, <1>4

LEMMA StartPlay ==
  ASSUME OfflineInv, ~MatchOver, flights = {}, drawFlights = <<>>,
         NEW p \in Players, NEW c \in game.hand[p], CanPlay(game, p, c), StartPlayCard(p, c),
         doing \in {{}, {"bot"}}, doing' = {},
         UNCHANGED <<drawFlights, round, winner, menu>>
  PROVE  OfflineInv' /\ Kept
<1> DEFINE f == [card |-> c, owner |-> p]
<1>1. /\ game' = [deck |-> game.deck, hand |-> [game.hand EXCEPT ![p] = @ \ {c}],
                  trick |-> game.trick, points |-> game.points, players |-> game.players,
                  dealer |-> game.dealer, turn |-> Nobody, tricks |-> game.tricks, over |-> game.over]
      /\ flights' = {f}
  BY GameIs DEF OfflineInv, StartPlayCard
<1>2. p \in 0..3 /\ c \in Deck /\ game.turn = p /\ Players' = Players
  BY <1>1, PlayersAre, GameIs DEF OfflineInv, CanPlay, Players
<1>3. game'.hand \in [0..3 -> SUBSET Deck]
  BY <1>1, GameIs DEF OfflineInv
<1>4. game' \in GameType
  BY <1>1, <1>3, GameIs DEF OfflineInv, GameType, Nobody
<1>5. Out' = Out \cup {f}
  BY <1>1 DEF Out
<1>6. f \in [card : Deck, owner : Players] /\ f.card = c /\ f.owner = p
  BY <1>2
<1>7. OfflineTypeOK'
  BY <1>1, <1>2, <1>3, <1>4, <1>5, <1>6, GameIs DEF OfflineInv, OfflineTypeOK, Nobody
<1>8. MatchDecided'
  BY <1>1 DEF OfflineInv, MatchDecided, MatchOver, ReachedBy
<1> HIDE DEF f
<1>9. TrickInv'
  <2>1. \A x : IsNext(x)' <=> IsNext(x)
    BY <1>1 DEF IsNext
  <2>2. \A q \in 0..3 : game'.hand[q] \subseteq game.hand[q]
    BY <1>1, <1>2, GameIs DEF OfflineInv
  <2>3. Lead(game') = Lead(game) /\ game'.trick = game.trick
    BY <1>1 DEF Lead
  <2>4. \A t \in ToSet(game.trick) : t.owner \in 0..3
    BY TrickIs DEF OfflineInv, Flight
  <2>5. \A t \in ToSet(game.trick) : Followed(t)' /\ t.card \notin game'.hand[t.owner]
    BY <2>2, <2>3, <2>4 DEF OfflineInv, TrickInv, Followed
  <2>6. Followed(f)' /\ f.card \notin game'.hand[f.owner]
    <3>1. game'.hand[p] = game.hand[p] \ {c}
      BY <1>1, <1>2, GameIs DEF OfflineInv
    <3>2. game.trick # <<>> => Suit(c) = Lead(game) \/ \A d \in game.hand[p] : Suit(d) # Lead(game)
      BY DEF CanPlay, Follows
    <3> QED
      BY <1>6, <2>3, <3>1, <3>2 DEF Followed
  <2>7. IsNext(p)
    BY <1>2, PlayersAre DEF OfflineInv, TrickInv, Nobody
  <2> QED
    BY <1>1, <1>6, <2>1, <2>3, <2>5, <2>6, <2>7 DEF OfflineInv, TrickInv
<1>10. StageInv'
  BY <1>1 DEF OfflineInv, StageInv, MatchOver, CanPlay
<1>11. HandsInv' /\ CardsLeft' = CardsLeft
  <2>1. ASSUME NEW q \in 0..3 PROVE HeldBy(q)' = HeldBy(q)
    <3>1. game'.hand[q] = IF q = p THEN game.hand[q] \ {c} ELSE game.hand[q]
      BY <1>1, <1>2, GameIs DEF OfflineInv
    <3> QED
      BY <1>2, <1>5, <1>6, <3>1 DEF HeldBy
  <2>2. \A q \in (0..3) \ Players : game'.hand[q] = {}
    BY <1>1, <1>2, GameIs DEF OfflineInv, HandsInv
  <2> QED
    BY <1>1, <2>1, <2>2, HandsStay DEF OfflineInv
<1>12. drawFlights' \in Seq(Flight)
  BY DEF OfflineInv
<1> QED
  BY <1>1, <1>4, <1>7, <1>8, <1>9, <1>10, <1>11, <1>12 DEF OfflineInv, Kept
-----------------------------------------------------------------------------
(* A card lands on the trick *)

LEMMA Land ==
  ASSUME OfflineInv, NEW f \in flights, CompleteFlight(f)
  PROVE  OfflineInv' /\ Kept
<1> DEFINE trick == Append(game.trick, f)
           full == Len(trick) = game.players
           next == IF full THEN game.turn ELSE NextPlayer(game, f.owner)
<1>1. f \in Flight /\ f.owner \in Players /\ f.card \in Deck
  BY PlayersAre DEF OfflineInv, OfflineTypeOK, Out, Flight
<1>2. /\ trick \in Seq(Flight) /\ Len(trick) = Len(game.trick) + 1
      /\ \A i \in 1..Len(game.trick) : trick[i] = game.trick[i]
      /\ trick[Len(trick)] = f
      /\ DOMAIN trick = 1..Len(trick) /\ trick # <<>>
  <2>1. game.trick \in Seq(Flight) /\ Len(game.trick) \in Nat
    BY GameIs, TrickIs DEF OfflineInv
  <2>2. /\ trick \in Seq(Flight) /\ Len(trick) = Len(game.trick) + 1
        /\ \A i \in 1..Len(game.trick) : trick[i] = game.trick[i]
        /\ trick[Len(trick)] = f
    BY <1>1, <2>1, AppendProperties
  <2> HIDE DEF trick
  <2> QED
    BY <2>1, <2>2, LenProperties, EmptySeq
<1>3. /\ game' = [deck |-> game.deck, hand |-> game.hand, trick |-> trick, points |-> game.points,
                  players |-> game.players, dealer |-> game.dealer, turn |-> next,
                  tricks |-> game.tricks, over |-> game.over]
      /\ flights' = {} /\ UNCHANGED <<drawFlights, round, winner, menu>> /\ ~MatchOver
  BY GameIs DEF OfflineInv, CompleteFlight, StageInv
<1>4. /\ doing = {} /\ flights = {f} /\ game.turn = Nobody /\ IsNext(f.owner)
      /\ Followed(f) /\ f.card \notin game.hand[f.owner]
  BY <1>3 DEF OfflineInv, StageInv, TrickInv
<1>5. /\ ~full => game'.turn = NextPlayer(game, f.owner) /\ next \in Players
      /\ full => game'.turn = Nobody
      /\ game'.turn \in Players \cup {Nobody} /\ Players' = Players
  BY <1>1, <1>3, <1>4, PlayersAre DEF OfflineInv, NextPlayer, Players
<1>6. doing' = IF full THEN {"compare"} ELSE IF next # Person THEN {"bot"} ELSE {}
  BY <1>3, <1>4, <1>5 DEF CompleteFlight, BotDelay
<1> HIDE DEF trick, next, full
<1>7. game' \in GameType
  BY <1>2, <1>3, <1>5, GameIs, PlayersAre DEF OfflineInv, GameType, Nobody
<1>8. ToSet(trick) = ToSet(game.trick) \cup {f}
  <2>1. \A t : t \in ToSet(game.trick) => t \in ToSet(trick)
    <3>1. Len(game.trick) \in Nat /\ \A t \in ToSet(game.trick) : \E i \in 1..Len(game.trick) : t = game.trick[i]
      BY TrickIs DEF OfflineInv
    <3>2. \A i \in 1..Len(game.trick) : i \in DOMAIN trick /\ trick[i] = game.trick[i]
      BY <1>2, <3>1
    <3> QED
      BY <3>1, <3>2 DEF ToSet
  <2>2. f \in ToSet(trick)
    BY <1>2, TrickIs DEF OfflineInv, ToSet
  <2>3. ASSUME NEW i \in DOMAIN trick PROVE trick[i] \in ToSet(game.trick) \cup {f}
    <3>1. CASE i = Len(trick)
      BY <1>2, <3>1
    <3>2. CASE i \in 1..Len(game.trick)
      BY <1>2, <3>2, TrickIs DEF OfflineInv
    <3> QED
      BY <1>2, <3>1, <3>2, TrickIs DEF OfflineInv
  <2> QED
    BY <2>1, <2>2, <2>3 DEF ToSet
<1>9. Out' = Out
  BY <1>3, <1>4, <1>8 DEF Out
<1>10. OfflineTypeOK'
  BY <1>3, <1>5, <1>6, <1>7, <1>9, GameIs DEF OfflineInv, OfflineTypeOK, Stages, GameType
<1>11. MatchDecided'
  BY <1>3 DEF OfflineInv, MatchDecided, MatchOver, ReachedBy
<1>12. TrickInv'
  <2>1. Len(trick) <= game.players
    <3>1. Len(game.trick) < game.players /\ Len(game.trick) \in Nat /\ game.players \in Nat
      BY <1>4, PlayersAre, TrickIs DEF OfflineInv, IsNext
    <3> QED
      BY <1>2, <3>1
  <2>2. trick[1].owner = IF game.trick = <<>> THEN f.owner ELSE game.trick[1].owner
    <3>1. Len(game.trick) \in Nat /\ (game.trick = <<>> <=> Len(game.trick) = 0)
      BY TrickIs DEF OfflineInv
    <3>2. CASE game.trick = <<>>
      BY <1>2, <3>1, <3>2
    <3>3. CASE game.trick # <<>>
      <4>1. 1 \in 1..Len(game.trick)
        BY <3>1, <3>3
      <4> QED
        BY <1>2, <3>3, <4>1
    <3> QED
      BY <3>2, <3>3
  <2>3. ASSUME NEW i \in DOMAIN trick
        PROVE  trick[i].owner = (trick[1].owner + i - 1) % game.players
    <3>1. CASE i \in 1..Len(game.trick)
      BY <1>2, <2>2, <3>1, TrickIs DEF OfflineInv, TrickInv
    <3>2. CASE i = Len(trick) /\ game.trick # <<>>
      <4>1. f.owner = (game.trick[1].owner + Len(game.trick)) % game.players
        BY <1>4, <3>2 DEF IsNext
      <4>2. trick[1].owner \in 0..3
        BY <1>2, <2>2, <3>2, TrickIs DEF OfflineInv, Flight
      <4> QED
        BY <1>2, <2>2, <3>2, <4>1, <4>2, TrickIs DEF OfflineInv
    <3>3. CASE i = Len(trick) /\ game.trick = <<>>
      BY <1>1, <1>2, <2>2, <3>3, TrickIs, PlayersAre DEF OfflineInv
    <3> QED
      BY <1>2, <3>1, <3>2, <3>3, TrickIs DEF OfflineInv
  <2>4. game'.turn # Nobody => IsNext(game.turn)'
    <3> SUFFICES ASSUME ~full PROVE IsNext(game.turn)'
      BY <1>5
    <3>1. game'.turn = (f.owner + 1) % game.players /\ Len(trick) < game.players
      BY <1>5, <2>1, <1>2, PlayersAre, TrickIs DEF full, OfflineInv, NextPlayer
    <3>2. game'.turn = (trick[1].owner + Len(trick)) % game.players
      <4>1. CASE game.trick = <<>>
        BY <1>2, <2>2, <3>1, <4>1, TrickIs DEF OfflineInv
      <4>2. CASE game.trick # <<>>
        <5>1. f.owner = (game.trick[1].owner + Len(game.trick)) % game.players
          BY <1>4, <4>2 DEF IsNext
        <5>2. game.trick[1].owner \in 0..3
          BY <1>2, <4>2, TrickIs DEF OfflineInv, Flight
        <5> QED
          <6>1. game.players \in {2, 4} /\ Len(game.trick) \in Nat
            BY PlayersAre, TrickIs DEF OfflineInv
          <6>2. (((game.trick[1].owner + Len(game.trick)) % game.players) + 1) % game.players
                  = (game.trick[1].owner + Len(game.trick) + 1) % game.players
            BY <5>2, <6>1, OneFurther
          <6>3. game'.turn = (game.trick[1].owner + Len(game.trick) + 1) % game.players
            BY <3>1, <5>1, <6>2
          <6> QED
            BY <1>2, <2>2, <4>2, <5>2, <6>1, <6>3
      <4> QED
        BY <4>1, <4>2
    <3> QED
      BY <1>3, <3>1, <3>2 DEF IsNext
  <2>5. ASSUME NEW t \in ToSet(trick) PROVE Followed(t)' /\ t.card \notin game'.hand[t.owner]
    <3>1. t.card \notin game.hand[t.owner] /\ Followed(t)
      BY <1>4, <1>8 DEF OfflineInv, TrickInv
    <3>2. CASE game.trick # <<>>
      <4>1. trick[1] = game.trick[1]
        BY <1>2, <3>2, TrickIs DEF OfflineInv
      <4> QED
        BY <1>3, <3>1, <3>2, <4>1 DEF Followed, Lead
    <3>3. CASE game.trick = <<>>
      <4>1. t = trick[1]
        BY <1>2, <3>3, TrickIs DEF OfflineInv, ToSet
      <4> QED
        BY <1>3, <3>1, <4>1 DEF Followed, Lead
    <3> QED
      BY <3>2, <3>3
  <2> QED
    BY <1>3, <2>1, <2>3, <2>4, <2>5 DEF TrickInv
<1>13. StageInv'
  <2>1. ~game.over /\ drawFlights = <<>>
    BY <1>3, <1>4 DEF OfflineInv, StageInv
  <2>2. full => Len(game'.trick) = game'.players
    BY <1>3 DEF full
  <2>3. \/ doing' = {"compare"} /\ full
        \/ doing' = {"bot"} /\ game'.turn # Person /\ ~full
        \/ doing' = {} /\ game'.turn = Person /\ ~full
    <3>1. game'.turn = next
      BY <1>3
    <3>2. CASE full
      BY <1>6, <3>2
    <3>3. CASE ~full
      BY <1>6, <3>1, <3>3
    <3> QED
      BY <3>2, <3>3
  <2>4. ~full => game'.turn # Nobody
    BY <1>5, <1>3, PlayersAre DEF OfflineInv, Nobody
  <2>5. CASE doing' = {"compare"} /\ full
    BY <1>3, <2>1, <2>2, <2>5 DEF StageInv, MatchOver
  <2>6. CASE doing' = {"bot"} /\ game'.turn # Person /\ ~full
    BY <1>3, <2>1, <2>4, <2>6 DEF StageInv, MatchOver
  <2>7. CASE doing' = {} /\ game'.turn = Person /\ ~full
    BY <1>3, <2>1, <2>4, <2>7 DEF StageInv, MatchOver
  <2> QED
    BY <2>3, <2>5, <2>6, <2>7
<1>14. HandsInv' /\ CardsLeft' = CardsLeft
  <2>1. ASSUME NEW q \in 0..3 PROVE HeldBy(q)' = HeldBy(q)
    BY <1>3, <1>9 DEF HeldBy
  <2>2. \A q \in (0..3) \ Players : game'.hand[q] = {}
    BY <1>3 DEF OfflineInv, HandsInv
  <2> QED
    BY <1>3, <2>1, <2>2, HandsStay DEF OfflineInv
<1>15. drawFlights' \in Seq(Flight)
  BY <1>3 DEF OfflineInv
<1> QED
  BY <1>3, <1>7, <1>10, <1>11, <1>12, <1>13, <1>14, <1>15 DEF OfflineInv, Kept
-----------------------------------------------------------------------------
(* A trick is taken *)

LEMMA LeastNumber == ASSUME NEW S \in SUBSET Nat, S # {} PROVE \E x \in S : \A y \in S : x <= y
<1>1. IsWellFoundedOn(OpToRel(<, Nat), Nat)
  BY NatLessThanWellFounded
<1>2. PICK x \in S : \A y \in S : ~ (<<y, x>> \in OpToRel(<, Nat))
  BY <1>1, WFMin
<1>3. \A y \in S : ~ (y < x)
  BY <1>2 DEF OpToRel
<1> QED
  BY <1>3

LEMMA CardFigures ==
  ASSUME NEW c \in Deck PROVE TrickPower(c) \in 1..10 /\ Thirds(c) \in 0..3 /\ Suit(c) \in 0..3
<1>1. c \in 0..39
  BY DeckIs
<1>2. c \div 4 \in 0..9
  BY <1>1
<1>3. Rank(c) \in 1..10
  BY <1>2 DEF Rank
<1> QED
  BY <1>1, <1>3 DEF TrickPower, Thirds, Suit

LEMMA WinnerPlays ==
  ASSUME game \in GameType, OfflineTypeOK, Len(game.trick) = game.players
  PROVE  WinnerOfTrick(game) \in Players
<1> DEFINE led == {i \in DOMAIN game.trick : Suit(game.trick[i].card) = Lead(game)}
           lack(i) == 10 - TrickPower(game.trick[i].card)
           best(i) == \A j \in led : TrickPower(game.trick[i].card) >= TrickPower(game.trick[j].card)
<1>1. 1 \in led
  BY TrickIs, PlayersAre DEF Lead
<1>2. \A i \in led : game.trick[i].card \in Deck /\ game.trick[i].owner \in Players
  BY TrickIs, CardsInTrick
<1>3. \A i \in led : TrickPower(game.trick[i].card) \in 1..10
  BY <1>2, CardFigures
<1>4. \E x \in {lack(i) : i \in led} : \A y \in {lack(i) : i \in led} : x <= y
  <2>1. \A i \in led : lack(i) \in Nat
    BY <1>3
  <2> HIDE DEF lack
  <2>2. {lack(i) : i \in led} \in SUBSET Nat /\ {lack(i) : i \in led} # {}
    BY <1>1, <2>1
  <2> QED
    BY <2>2, LeastNumber
<1>5. \E i \in led : best(i)
  <2>1. PICK i \in led : \A j \in led : lack(i) <= lack(j)
    BY <1>4
  <2>2. best(i)
    BY <1>3, <2>1
  <2> QED
    BY <2>2
<1>6. (CHOOSE i \in led : best(i)) \in led
  BY <1>5
<1> QED
  BY <1>2, <1>6 DEF WinnerOfTrick

LEMMA TrickWorth ==
  ASSUME game \in GameType, OfflineTypeOK
  PROVE  TrickThirds(game) \in Nat /\ TrickPoints(game) \in Nat
<1> DEFINE worth(i) == IF i \in DOMAIN game.trick THEN Thirds(game.trick[i].card) ELSE 0
<1>1. \A i \in DOMAIN game.trick : game.trick[i].card \in Deck
  BY TrickIs, CardsInTrick
<1>2. \A i \in 1..4 : worth(i) \in Nat
  BY <1>1, CardFigures
<1>3. TrickThirds(game) = worth(1) + worth(2) + worth(3) + worth(4)
  BY DEF TrickThirds
<1> HIDE DEF worth
<1>4. TrickThirds(game) \in Nat
  BY <1>2, <1>3
<1> QED
  BY <1>4 DEF TrickPoints

\* In a full trick each player has one card.
LEMMA FullTrick ==
  ASSUME OfflineInv, Len(game.trick) = game.players, NEW p \in Players
  PROVE  \E i \in 1..game.players :
            /\ game.trick[i].owner = p
            /\ \A j \in 1..game.players : game.trick[j].owner = p => j = i
<1> DEFINE lead == game.trick[1].owner
           i == IF p >= lead THEN p - lead + 1 ELSE p + game.players - lead + 1
<1>1. \/ game.players = 2 /\ Players = {0, 1}
      \/ game.players = 4 /\ Players = {0, 1, 2, 3}
  BY PlayersAre DEF OfflineInv
<1>2. lead \in Players
  <2>1. 1 \in 1..Len(game.trick)
    BY <1>1
  <2> QED
    BY <2>1, CardsInTrick DEF OfflineInv
<1>3. \A j \in 1..game.players : game.trick[j].owner = (lead + j - 1) % game.players
  BY TrickIs DEF OfflineInv, TrickInv
<1> HIDE DEF lead
<1>4. CASE game.players = 2
  BY <1>1, <1>2, <1>3, <1>4
<1>5. CASE game.players = 4
  <2>1. lead \in 0..3 /\ p \in 0..3
    BY <1>1, <1>2, <1>5
  <2>2. i \in 1..4 /\ (lead + i - 1) % 4 = p
    BY <2>1, <1>5
  <2>3. \A j \in 1..4 : (lead + j - 1) % 4 = p => j = i
    BY <2>1, <1>5
  <2> HIDE DEF i
  <2> QED
    BY <1>3, <1>5, <2>2, <2>3
<1> QED
  BY <1>1, <1>4, <1>5

\* Then all hold one card more than they have in hand.
LEMMA OneInTrick ==
  ASSUME OfflineInv, Len(game.trick) = game.players, flights = {}, drawFlights = <<>>,
         NEW p \in Players
  PROVE  /\ Cardinality(HeldBy(p)) = Cardinality(game.hand[p]) + 1
         /\ game.hand[p] \in SUBSET HeldBy(p) /\ game.hand[p] \in SUBSET Deck
         /\ Cardinality(game.hand[p]) \in Nat
<1>1. PICK i \in 1..game.players :
            /\ game.trick[i].owner = p
            /\ \A j \in 1..game.players : game.trick[j].owner = p => j = i
  BY FullTrick
<1> DEFINE c == game.trick[i].card
<1>2. Out = ToSet(game.trick)
  BY EmptySeq DEF Out, ToSet
<1>3. \A t \in Out : t.owner = p <=> t = game.trick[i]
  BY <1>1, <1>2, TrickIs DEF OfflineInv
<1>4. game.trick[i] \in Out /\ c \in Deck /\ c \notin game.hand[p]
  BY <1>1, CardsInTrick, TrickIs DEF OfflineInv, TrickInv
<1>5. HeldBy(p) = game.hand[p] \cup {c}
  BY <1>3, <1>4 DEF HeldBy
<1>6. game.hand[p] \in SUBSET Deck
  BY GameIs, PlayersAre DEF OfflineInv
<1> QED
  BY <1>4, <1>5, <1>6, OneCardMore

LEMMA NoTrick == game \in GameType /\ game.trick = <<>> /\ flights = {} => TrickInv
<1> SUFFICES ASSUME game \in GameType, game.trick = <<>>, flights = {} PROVE TrickInv
  OBVIOUS
<1>1. Len(game.trick) = 0 /\ ToSet(game.trick) = {} /\ DOMAIN game.trick = {}
  BY EmptySeq DEF ToSet
<1> QED
  BY <1>1, PlayersAre DEF TrickInv, IsNext

LEMMA NoTrickNext == (game \in GameType /\ game.trick = <<>> /\ flights = {})' => TrickInv'
  BY NoTrick, PTL

LEMMA NotDrawn ==
  ASSUME OfflineInv, Len(game.trick) = game.players, flights = {}, drawFlights = <<>>,
         game'.hand = game.hand, game'.deck = game.deck, game'.players = game.players,
         game'.tricks = game.tricks + 1, Out' = {},
         ~MatchOver' /\ ~game'.over => \E p \in 0..3 : game.hand[p] # {}
  PROVE  HandsInv'
<1>1. /\ Players' = Players /\ Players \subseteq 0..3 /\ Person \in Players
      /\ game.players \in Nat
  BY PlayersAre DEF OfflineInv, Players
<1>2. \A p : HeldBy(p)' = game.hand[p]
  BY DEF HeldBy
<1>3. \A p \in Players : /\ Cardinality(HeldBy(p)) = Cardinality(game.hand[p]) + 1
                         /\ game.hand[p] \in SUBSET HeldBy(p) /\ game.hand[p] \in SUBSET Deck
                         /\ Cardinality(game.hand[p]) \in Nat
  BY OneInTrick
<1>4. \A p, q \in Players : Cardinality(game.hand[p]) = Cardinality(game.hand[q])
  BY <1>3 DEF OfflineInv, HandsInv
<1>5. ASSUME ~MatchOver', ~game'.over PROVE game.hand[Person] # {}
  <2>1. PICK p \in 0..3 : game.hand[p] # {}
    BY <1>5
  <2>2. p \in Players
    BY <2>1 DEF OfflineInv, HandsInv
  <2>3. Cardinality(game.hand[p]) # 0
    BY <1>3, <2>1, <2>2, SomeCards
  <2> QED
    BY <1>1, <1>3, <1>4, <2>2, <2>3, SomeCards
<1>6. Len(game.deck) + game.players * (Cardinality(game.hand[Person]) + game'.tricks) = Cardinality(Deck)
  <2>1. Cardinality(HeldBy(Person)) + game.tricks = Cardinality(game.hand[Person]) + game'.tricks
    BY <1>1, <1>3, GameIs DEF OfflineInv
  <2> QED
    BY <2>1 DEF OfflineInv, HandsInv
<1>7. \A p, q \in Players : p # q => game.hand[p] \cap game.hand[q] = {}
  BY <1>3 DEF OfflineInv, HandsInv
<1>8. \A p \in Players : game.hand[p] \cap ToSet(game.deck) = {}
  BY <1>3 DEF OfflineInv, HandsInv
<1>9. /\ \A p \in (0..3) \ Players : game.hand[p] = {}
      /\ IsInjective(game.deck) /\ Len(game.deck) % game.players = 0
  BY DEF OfflineInv, HandsInv
<1> QED
  BY <1>1, <1>2, <1>4, <1>5, <1>6, <1>7, <1>8, <1>9 DEF HandsInv

\* The k-th card drawn goes to one player, and each player gets one.
LEMMA DrawnByAll ==
  ASSUME game \in GameType, NEW w \in Players, NEW p \in Players
  PROVE  \E k \in 1..game.players :
            /\ (w + k - 1) % game.players = p
            /\ \A j \in 1..game.players : (w + j - 1) % game.players = p => j = k
<1> DEFINE k == IF p >= w THEN p - w + 1 ELSE p + game.players - w + 1
<1>1. \/ game.players = 2 /\ Players = {0, 1}
      \/ game.players = 4 /\ Players = {0, 1, 2, 3}
  BY PlayersAre
<1>2. CASE game.players = 2
  BY <1>1, <1>2
<1>3. CASE game.players = 4
  <2>1. w \in 0..3 /\ p \in 0..3
    BY <1>1, <1>3
  <2>2. k \in 1..4 /\ (w + k - 1) % 4 = p
    BY <2>1, <1>3
  <2>3. \A j \in 1..4 : (w + j - 1) % 4 = p => j = k
    BY <2>1, <1>3
  <2> HIDE DEF k
  <2> QED
    BY <1>3, <2>2, <2>3
<1> QED
  BY <1>1, <1>2, <1>3

LEMMA StockLeft ==
  ASSUME game \in GameType, HandsInv, game.deck # <<>>
  PROVE  LET left == SubSeq(game.deck, game.players + 1, Len(game.deck))
         IN /\ Len(game.deck) >= game.players
            /\ left \in Seq(Deck) /\ Len(left) = Len(game.deck) - game.players
            /\ Len(left) % game.players = 0
            /\ \A c \in ToSet(left) : \E i \in (game.players + 1)..Len(game.deck) : c = game.deck[i]
            /\ \A i \in (game.players + 1)..Len(game.deck) : game.deck[i] \in ToSet(left)
            /\ IsInjective(left)
<1> DEFINE n == game.players
           left == SubSeq(game.deck, n + 1, Len(game.deck))
<1>1. n = 2 \/ n = 4
  BY PlayersAre
<1>2. Len(game.deck) \in Nat \ {0} /\ Len(game.deck) % n = 0
  BY DeckSeq DEF HandsInv
<1>3. Len(game.deck) >= n /\ (Len(game.deck) - n) % n = 0
  BY <1>1, <1>2
<1>4. /\ left \in Seq(Deck) /\ Len(left) = Len(game.deck) - n
      /\ \A i \in 1..Len(left) : left[i] = game.deck[n + i]
  <2>1. game.deck \in Seq(Deck) /\ n \in Nat /\ n <= Len(game.deck)
    BY <1>1, <1>3, GameIs
  <2> HIDE DEF n
  <2> QED
    BY <2>1, RestOfDeck
<1> HIDE DEF left
<1>5. DOMAIN left = 1..Len(left)
  BY <1>4, LenProperties
<1>6. \A i \in 1..Len(left) : n + i \in (n + 1)..Len(game.deck)
  BY <1>1, <1>2, <1>4
<1>7. \A c \in ToSet(left) : \E i \in (n + 1)..Len(game.deck) : c = game.deck[i]
  BY <1>4, <1>5, <1>6 DEF ToSet
<1>8. IsInjective(left)
  <2> SUFFICES ASSUME NEW i \in 1..Len(left), NEW j \in 1..Len(left), left[i] = left[j] PROVE i = j
    BY <1>5 DEF IsInjective
  <2>1. game.deck[n + i] = game.deck[n + j]
    BY <1>4
  <2>2. n + i \in (n + 1)..Len(game.deck) /\ n + j \in (n + 1)..Len(game.deck)
    BY <1>6
  <2>3. n \in Nat /\ i \in Int /\ j \in Int
    BY <1>1
  <2> HIDE DEF n
  <2>4. n + i \in 1..Len(game.deck) /\ n + j \in 1..Len(game.deck)
    BY <1>2, <2>2, <2>3
  <2>5. n + i = n + j
    BY <2>1, <2>4, DeckSeq DEF HandsInv, IsInjective
  <2> QED
    BY <2>3, <2>5
<1>9. ASSUME NEW i \in (n + 1)..Len(game.deck) PROVE game.deck[i] \in ToSet(left)
  <2>1. i - n \in 1..Len(left) /\ n + (i - n) = i
    <3>1. Len(left) = Len(game.deck) - n /\ Len(game.deck) \in Nat /\ n \in Nat
      BY <1>1, <1>2, <1>4
    <3> HIDE DEF n
    <3> QED
      BY <3>1
  <2>2. left[i - n] = game.deck[i]
    BY <1>4, <2>1
  <2> QED
    BY <1>5, <2>1, <2>2 DEF ToSet
<1> QED
  BY <1>3, <1>4, <1>7, <1>8, <1>9 DEF left

\* Each has laid down a card and draws another.
LEMMA StockParts ==
  ASSUME game \in GameType, HandsInv, game.deck # <<>>
  PROVE  ToSet(game.deck) = ToSet(SubSeq(game.deck, game.players + 1, Len(game.deck)))
                                \cup {game.deck[k] : k \in 1..game.players}
<1> DEFINE n == game.players
           left == SubSeq(game.deck, n + 1, Len(game.deck))
<1>1. /\ Len(game.deck) \in Nat /\ n \in Nat /\ Len(game.deck) >= n
      /\ \A c \in ToSet(left) : \E i \in (n + 1)..Len(game.deck) : c = game.deck[i]
      /\ \A i \in (n + 1)..Len(game.deck) : game.deck[i] \in ToSet(left)
  <2>1. Len(game.deck) \in Nat /\ n \in Nat
    BY DeckSeq, PlayersAre
  <2>2. /\ Len(game.deck) >= n
        /\ \A c \in ToSet(left) : \E i \in (n + 1)..Len(game.deck) : c = game.deck[i]
        /\ \A i \in (n + 1)..Len(game.deck) : game.deck[i] \in ToSet(left)
    BY StockLeft
  <2> QED
    BY <2>1, <2>2
<1>2. ToSet(game.deck) = {game.deck[i] : i \in 1..Len(game.deck)}
  BY DeckSeq DEF ToSet
<1> HIDE DEF n, left
<1>3. \A i : i \in 1..Len(game.deck) <=> i \in 1..n \/ i \in (n + 1)..Len(game.deck)
  BY <1>1
<1>4. ToSet(game.deck) = ToSet(left) \cup {game.deck[k] : k \in 1..n}
  BY <1>1, <1>2, <1>3
<1> QED
  BY <1>4 DEF n, left

LEMMA OneDrawn ==
  ASSUME OfflineInv, Len(game.trick) = game.players, flights = {}, drawFlights = <<>>,
         game.deck # <<>>, NEW w \in Players,
         game'.hand = game.hand, game'.players = game.players, game'.tricks = game.tricks + 1,
         game'.deck = SubSeq(game.deck, game.players + 1, Len(game.deck)),
         Out' = {[card |-> game.deck[k], owner |-> (w + k - 1) % game.players] : k \in 1..game.players}
  PROVE  HandsInv'
<1> DEFINE n == game.players
           place(p) == CHOOSE k \in 1..n : (w + k - 1) % n = p
           new(p) == game.deck[place(p)]
<1>1. /\ Players' = Players /\ Players \subseteq 0..3 /\ Person \in Players
      /\ n \in Nat
  BY PlayersAre DEF OfflineInv, Players
<1>2. /\ Len(game.deck) >= n /\ game'.deck \in Seq(Deck) /\ Len(game'.deck) = Len(game.deck) - n
      /\ Len(game'.deck) % n = 0 /\ IsInjective(game'.deck)
      /\ \A c \in ToSet(game'.deck) : \E i \in (n + 1)..Len(game.deck) : c = game.deck[i]
  BY StockLeft DEF OfflineInv
<1>3. ASSUME NEW p \in Players
      PROVE  /\ place(p) \in 1..n /\ (w + place(p) - 1) % n = p
             /\ \A k \in 1..n : (w + k - 1) % n = p => k = place(p)
  <2>1. PICK k \in 1..n : /\ (w + k - 1) % n = p
                          /\ \A j \in 1..n : (w + j - 1) % n = p => j = k
    BY DrawnByAll DEF OfflineInv
  <2>2. place(p) = k
    BY <2>1
  <2> QED
    BY <2>1, <2>2
<1>4. ASSUME NEW p \in Players PROVE HeldBy(p)' = game.hand[p] \cup {new(p)}
  <2> DEFINE given(k) == [card |-> game.deck[k], owner |-> (w + k - 1) % n]
  <2>1. Out' = {given(k) : k \in 1..n}
    OBVIOUS
  <2>2. \A k \in 1..n : given(k).card = game.deck[k] /\ (given(k).owner = p <=> k = place(p))
    BY <1>3
  <2>3. place(p) \in 1..n
    BY <1>3
  <2> HIDE DEF given, place
  <2>4. /\ \E t \in Out' : t.owner = p /\ t.card = new(p)
        /\ \A t \in Out' : t.owner = p => t.card = new(p)
    BY <2>1, <2>2, <2>3
  <2>5. HeldBy(p)' = game.hand[p] \cup {t.card : t \in {t \in Out' : t.owner = p}}
    BY DEF HeldBy
  <2> HIDE DEF new
  <2>6. {t.card : t \in {t \in Out' : t.owner = p}} = {new(p)}
    BY <2>4
  <2> QED
    BY <2>5, <2>6
<1> HIDE DEF place
<1>13. \A p \in Players : /\ place(p) \in 1..n /\ place(p) \in 1..Len(game.deck)
                         /\ (w + place(p) - 1) % n = p
  <2>1. Len(game.deck) \in Nat
    BY DeckSeq DEF OfflineInv
  <2>2. \A k \in 1..n : k \in 1..Len(game.deck)
    BY <1>1, <1>2, <2>1
  <2> QED
    BY <1>3, <2>2
<1>5. ASSUME NEW p \in Players
      PROVE  /\ new(p) \in Deck \ game.hand[p] /\ new(p) \in ToSet(game.deck)
             /\ game.hand[p] \cap ToSet(game.deck) = {}
             /\ Cardinality(game.hand[p] \cup {new(p)}) = Cardinality(HeldBy(p))
             /\ game.hand[p] \in SUBSET HeldBy(p)
             /\ Cardinality(HeldBy(p)) \in Nat
  <2>1. place(p) \in 1..Len(game.deck)
    BY <1>13
  <2>2. new(p) \in Deck /\ new(p) \in ToSet(game.deck)
    BY <2>1, DeckSeq DEF OfflineInv
  <2>3. /\ Cardinality(HeldBy(p)) = Cardinality(game.hand[p]) + 1
        /\ game.hand[p] \in SUBSET HeldBy(p) /\ game.hand[p] \in SUBSET Deck
        /\ Cardinality(game.hand[p]) \in Nat
    BY OneInTrick
  <2>4. game.hand[p] \cap ToSet(game.deck) = {}
    BY <2>3 DEF OfflineInv, HandsInv
  <2>5. Cardinality(game.hand[p] \cup {new(p)}) = Cardinality(game.hand[p]) + 1
    BY <2>2, <2>3, <2>4, OneCardMore
  <2> QED
    BY <2>2, <2>3, <2>4, <2>5
<1>6. \A i, j \in 1..Len(game.deck) : game.deck[i] = game.deck[j] => i = j
  <2>1. IsInjective(game.deck) /\ DOMAIN game.deck = 1..Len(game.deck)
    BY DeckSeq DEF OfflineInv, HandsInv
  <2> QED
    BY <2>1 DEF IsInjective
<1>7. \A p, q \in Players : Cardinality(HeldBy(p)') = Cardinality(HeldBy(q)')
  <2>1. ASSUME NEW p \in Players PROVE Cardinality(HeldBy(p)') = Cardinality(HeldBy(p))
    BY <1>4, <1>5
  <2>2. \A p, q \in Players : Cardinality(HeldBy(p)) = Cardinality(HeldBy(q))
    BY DEF OfflineInv, HandsInv
  <2> QED
    BY <2>1, <2>2
<1>8. ASSUME NEW p \in Players, NEW q \in Players, p # q PROVE HeldBy(p)' \cap HeldBy(q)' = {}
  <2>1. place(p) # place(q) /\ place(p) \in 1..Len(game.deck) /\ place(q) \in 1..Len(game.deck)
    BY <1>8, <1>13
  <2>2. new(p) # new(q)
    BY <1>6, <2>1
  <2>3. game.hand[p] \cap game.hand[q] = {}
    BY <1>5, <1>8 DEF OfflineInv, HandsInv
  <2>4. new(p) \notin game.hand[q] /\ new(q) \notin game.hand[p]
    BY <1>5
  <2> QED
    BY <1>4, <2>2, <2>3, <2>4
<1>9. ASSUME NEW p \in Players PROVE HeldBy(p)' \cap ToSet(game'.deck) = {}
  <2> SUFFICES ASSUME NEW c \in ToSet(game'.deck) PROVE c \notin game.hand[p] /\ c # new(p)
    BY <1>4
  <2>1. PICK i \in (n + 1)..Len(game.deck) : c = game.deck[i]
    BY <1>2
  <2>2. i \in 1..Len(game.deck) /\ place(p) \in 1..Len(game.deck) /\ i # place(p)
    <3>1. Len(game.deck) \in Nat
      BY DeckSeq DEF OfflineInv
    <3>2. i \in 1..Len(game.deck) /\ i > n /\ n \in Nat
      BY <1>1, <2>1, <3>1
    <3>3. place(p) \in 1..n /\ place(p) \in 1..Len(game.deck)
      BY <1>13
    <3> HIDE DEF n
    <3> QED
      BY <3>2, <3>3
  <2>3. c # new(p)
    BY <1>6, <2>1, <2>2
  <2>4. c \in ToSet(game.deck)
    BY <2>1, <2>2, DeckSeq DEF OfflineInv
  <2> QED
    BY <1>5, <2>3, <2>4
<1>10. Len(game'.deck) + n * (Cardinality(HeldBy(Person)') + game'.tricks) = Cardinality(Deck)
  <2>1. Cardinality(HeldBy(Person)') = Cardinality(HeldBy(Person)) /\ Cardinality(HeldBy(Person)) \in Nat
    BY <1>1, <1>4, <1>5
  <2>2. game.tricks \in Nat /\ Len(game.deck) \in Nat
    BY GameIs, DeckSeq DEF OfflineInv
  <2>3. Len(game.deck) + n * (Cardinality(HeldBy(Person)) + game.tricks) = Cardinality(Deck)
    BY DEF OfflineInv, HandsInv
  <2>4. n = 2 \/ n = 4
    BY PlayersAre DEF OfflineInv
  <2>5. CASE n = 2
    BY <1>2, <2>1, <2>2, <2>3, <2>5
  <2>6. CASE n = 4
    BY <1>2, <2>1, <2>2, <2>3, <2>6
  <2> QED
    BY <2>4, <2>5, <2>6
<1>11. HeldBy(Person)' # {}
  BY <1>1, <1>4
<1>12. \A p \in (0..3) \ Players : game'.hand[p] = {}
  BY DEF OfflineInv, HandsInv
<1> QED
  BY <1>1, <1>2, <1>7, <1>8, <1>9, <1>10, <1>11, <1>12 DEF HandsInv

LEMMA Collected ==
  ASSUME OfflineInv, TrickCollected
  PROVE  OfflineInv' /\ TrickTaken
<1> DEFINE w == WinnerOfTrick(game)
           points == [game.points EXCEPT ![TeamOf(w)] = @ + TrickPoints(game)]
           over == RoundPlayed(game)
           g == [deck |-> game.deck, hand |-> game.hand, trick |-> <<>>, points |-> points,
                 players |-> game.players, dealer |-> game.dealer, turn |-> w,
                 tricks |-> game.tricks + 1, over |-> over]
           draws == ReachedBy(g) = {} /\ ~over
<1>1. /\ doing = {"collecting"} /\ flights = {} /\ drawFlights = <<>> /\ ~game.over
      /\ Len(game.trick) = game.players /\ ~MatchOver
  BY DEF OfflineInv, StageInv, TrickCollected, Due
<1>2. w \in Players /\ w \in 0..3 /\ TeamOf(w) \in Teams /\ TrickPoints(game) \in Nat
  BY <1>1, WinnerPlays, TrickWorth, PlayersAre DEF OfflineInv, TeamOf, Teams
<1>3. over \in BOOLEAN
  BY DEF RoundPlayed, AllHandsEmpty
<1>4. TrickFinished(game) = g
  <2>1. TrickFinished(game) =
            [game EXCEPT !.tricks = @ + 1, !.over = @ \/ over,
                         !.points[TeamOf(w)] = @ + TrickPoints(game), !.trick = <<>>, !.turn = w]
    BY DEF TrickFinished
  <2>2. (game.over \/ over) = over
    BY <1>1, <1>3
  <2> HIDE DEF w, over
  <2>3. ASSUME NEW h, h = TrickFinished(game)
        PROVE  h = [deck |-> game.deck, hand |-> game.hand, trick |-> <<>>, points |-> points,
                    players |-> game.players, dealer |-> game.dealer, turn |-> w,
                    tricks |-> game.tricks + 1, over |-> (game.over \/ over)]
    BY <2>1, <2>3, GameIs DEF OfflineInv
  <2> QED
    BY <2>2, <2>3
<1>5. /\ points \in [Teams -> Nat]
      /\ points[TeamOf(w)] = game.points[TeamOf(w)] + TrickPoints(game)
      /\ \A t \in Teams : t # TeamOf(w) => points[t] = game.points[t]
  BY <1>2, GameIs DEF OfflineInv
<1> HIDE DEF w, points, over
<1>6. g \in GameType
  <2>1. /\ game.deck \in Seq(Deck) /\ game.hand \in [0..3 -> SUBSET Deck] /\ game.players \in Modes
        /\ game.dealer \in 0..3 /\ game.tricks + 1 \in Nat /\ <<>> \in Seq(Flight) /\ w \in -1..3
    BY <1>2, GameIs, EmptySeq DEF OfflineInv
  <2> QED
    BY <1>3, <1>5, <2>1, AGame
<1>7. /\ g.points = points /\ g.over = over /\ g.deck = game.deck /\ g.players = game.players
      /\ g.turn = w /\ g.hand = game.hand /\ g.trick = <<>> /\ g.tricks = game.tricks + 1
      /\ g.dealer = game.dealer
  OBVIOUS
<1>8. ReachedBy(g) \subseteq {TeamOf(w)} /\ ReachedBy(g) = {t \in Teams : points[t] >= Target}
  <2>1. \A t \in Teams : game.points[t] < Target
    BY <1>1, GameIs, OfflineAssumption DEF OfflineInv, MatchDecided, ReachedBy
  <2>2. ReachedBy(g) = {t \in Teams : points[t] >= Target}
    BY <1>7 DEF ReachedBy
  <2> QED
    BY <1>5, <2>1, <2>2, OfflineAssumption
<1> HIDE DEF g
<1>9. /\ winner' = WinnerAt(g)
      /\ game' = IF ReachedBy(g) # {} THEN [g EXCEPT !.over = TRUE]
                 ELSE IF draws THEN [g EXCEPT !.deck = SubSeq(@, Len(Drawn(g)) + 1, Len(@))]
                 ELSE g
      /\ drawFlights' = IF draws THEN Drawn(g) ELSE drawFlights
      /\ doing' = IF ReachedBy(g) # {} THEN {} ELSE AfterTrick(g)
      /\ UNCHANGED <<flights, round, menu>>
  BY <1>1, <1>4, <1>7 DEF TrickCollected, Follow
<1>10. /\ winner' \in Teams \cup {Nobody}
       /\ winner' # Nobody <=> ReachedBy(g) # {}
       /\ winner' # Nobody => points[winner'] > points[1 - winner']
  <2>1. CASE ReachedBy(g) = {}
    BY <1>9, <2>1 DEF WinnerAt, Nobody
  <2>2. CASE ReachedBy(g) # {}
    <3>1. points[TeamOf(w)] >= Target
      BY <1>8, <2>2
    <3>2. \A t \in Teams : t # TeamOf(w) => points[t] < Target
      BY <1>1, <1>5, GameIs, OfflineAssumption DEF OfflineInv, MatchDecided, ReachedBy
    <3>3. 0 \in Teams /\ 1 \in Teams /\ (TeamOf(w) = 0 \/ TeamOf(w) = 1)
      BY <1>2 DEF Teams
    <3>4. points[0] \in Nat /\ points[1] \in Nat /\ points[0] # points[1]
      BY <1>5, <3>1, <3>2, <3>3, OfflineAssumption
    <3> QED
      BY <1>7, <1>9, <2>2, <3>3, <3>4 DEF WinnerAt, Nobody, Teams
  <2> QED
    BY <2>1, <2>2
<1> DEFINE left == IF draws THEN SubSeq(game.deck, Len(Drawn(g)) + 1, Len(game.deck)) ELSE game.deck
           done == over \/ ReachedBy(g) # {}
<1>11. game' = [deck |-> left, hand |-> game.hand, trick |-> <<>>, points |-> points,
                players |-> game.players, dealer |-> game.dealer, turn |-> w,
                tricks |-> game.tricks + 1, over |-> done]
  <2>1. CASE ReachedBy(g) # {}
    BY <1>3, <1>9, <2>1 DEF g
  <2>2. CASE ReachedBy(g) = {} /\ over
    BY <1>3, <1>9, <2>2 DEF g
  <2>3. CASE ReachedBy(g) = {} /\ ~over
    BY <1>3, <1>7, <1>9, <2>3 DEF g
  <2> QED
    BY <1>3, <2>1, <2>2, <2>3
<1>12. /\ draws /\ game.deck = <<>> => left = <<>> /\ Drawn(g) = <<>>
       /\ draws /\ game.deck # <<>> =>
            /\ left = SubSeq(game.deck, game.players + 1, Len(game.deck))
            /\ Drawn(g) = [k \in 1..game.players |->
                              [card |-> game.deck[k], owner |-> (w + k - 1) % game.players]]
       /\ left \in Seq(Deck)
  <2>1. CASE game.deck = <<>>
    <3>1. Len(game.deck) = 0 /\ game.players \in Nat \ {0}
      BY <2>1, EmptySeq, PlayersAre DEF OfflineInv
    <3>2. Drawn(g) = [k \in 1..0 |-> [card |-> g.deck[k], owner |-> (g.turn + k - 1) % g.players]]
      BY <1>7, <3>1 DEF Drawn
    <3>3. Drawn(g) = <<>> /\ Len(Drawn(g)) = 0
      BY <3>2
    <3>4. SubSeq(game.deck, 1, 0) = <<>>
      BY <3>1, SubSeqEmpty
    <3> QED
      BY <2>1, <3>1, <3>3, <3>4, EmptySeq
  <2>2. CASE game.deck # <<>>
    <3>1. /\ Len(game.deck) >= game.players /\ Len(game.deck) \in Nat /\ game.players \in Nat
          /\ SubSeq(game.deck, game.players + 1, Len(game.deck)) \in Seq(Deck)
      BY <2>2, StockLeft, DeckSeq, PlayersAre DEF OfflineInv
    <3>2. Drawn(g) = [k \in 1..game.players |->
                         [card |-> game.deck[k], owner |-> (w + k - 1) % game.players]]
      <4>1. (IF Len(g.deck) < g.players THEN Len(g.deck) ELSE g.players) = game.players
        BY <1>7, <3>1
      <4> QED
        BY <1>7, <4>1 DEF Drawn
    <3>3. Len(Drawn(g)) = game.players
      BY <3>1, <3>2
    <3> QED
      BY <2>2, <3>1, <3>2, <3>3, GameIs DEF OfflineInv
  <2> QED
    BY <2>1, <2>2
<1> HIDE DEF left, done
<1>13. game' \in GameType
  <2>1. /\ left \in Seq(Deck) /\ game.hand \in [0..3 -> SUBSET Deck] /\ game.players \in Modes
        /\ game.dealer \in 0..3 /\ game.tricks + 1 \in Nat /\ <<>> \in Seq(Flight) /\ w \in -1..3
    <3>1. left \in Seq(Deck)
      BY <1>12
    <3>2. /\ game.hand \in [0..3 -> SUBSET Deck] /\ game.players \in Modes
          /\ game.dealer \in 0..3 /\ game.tricks \in Nat
      BY GameIs DEF OfflineInv
    <3> QED
      BY <1>2, <3>1, <3>2, EmptySeq
  <2>2. done \in BOOLEAN
    BY DEF done
  <2> QED
    BY <1>5, <1>11, <2>1, <2>2, AGame
<1>14. /\ game'.deck = left /\ game'.hand = game.hand /\ game'.trick = <<>> /\ game'.points = points
       /\ game'.players = game.players /\ game'.dealer = game.dealer /\ game'.turn = w
       /\ game'.tricks = game.tricks + 1 /\ game'.over = done /\ Players' = Players
  BY <1>11 DEF Players
<1>21. /\ game'.points = [game.points EXCEPT ![TeamOf(WinnerOfTrick(game))] = @ + TrickPoints(game)]
       /\ round' = round
       /\ ~MatchOver' /\ game'.over => RoundPlayed(game)
  BY <1>9, <1>10, <1>14 DEF points, w, done, over, MatchOver
<1>15. Out' = ToSet(drawFlights')
  BY <1>1, <1>9, <1>14, EmptySeq DEF Out, ToSet
<1>16. AfterTrick(g) = IF over THEN {"transition"}
                       ELSE IF game.deck # <<>> THEN {"drawing"}
                       ELSE IF w # Person THEN {"bot"} ELSE {}
  BY <1>7 DEF AfterTrick, BotDelay
<1>17. MatchDecided'
  <2>1. ReachedBy(game)' = ReachedBy(g)
    BY <1>8, <1>14 DEF ReachedBy
  <2> QED
    BY <1>10, <1>14, <2>1 DEF MatchDecided, MatchOver
<1>18. TrickInv'
  BY <1>1, <1>9, <1>13, <1>14, NoTrickNext
<1>19. CASE draws /\ game.deck # <<>>
  <2>1. drawFlights' = [k \in 1..game.players |->
                         [card |-> game.deck[k], owner |-> (w + k - 1) % game.players]]
    BY <1>9, <1>12, <1>19
  <2>2. Out' = {[card |-> game.deck[k], owner |-> (w + k - 1) % game.players] : k \in 1..game.players}
    BY <1>15, <2>1 DEF ToSet
  <2>3. HandsInv'
    BY <1>1, <1>2, <1>12, <1>14, <1>19, <2>2, OneDrawn
  <2>4. drawFlights' \in Seq(Flight) /\ Out' \subseteq [card : Deck, owner : Players]
    <3>1. Len(game.deck) >= game.players /\ Len(game.deck) \in Nat
      BY <1>19, StockLeft, DeckSeq DEF OfflineInv
    <3>2. \A k \in 1..game.players : game.deck[k] \in Deck /\ (w + k - 1) % game.players \in Players
      <4>1. \/ game.players = 2 /\ Players = {0, 1}
            \/ game.players = 4 /\ Players = {0, 1, 2, 3}
        BY PlayersAre DEF OfflineInv
      <4>2. \A k \in 1..game.players : k \in 1..Len(game.deck) /\ w + k - 1 \in Nat
        BY <1>2, <3>1, <4>1
      <4>3. \A i \in Nat : i % game.players \in Players
        <5>1. CASE game.players = 2
          BY <4>1, <5>1
        <5>2. CASE game.players = 4
          BY <4>1, <5>2
        <5> QED
          BY <4>1, <5>1, <5>2
      <4> QED
        BY <4>2, <4>3, DeckSeq DEF OfflineInv
    <3>3. \A k \in 1..game.players :
              [card |-> game.deck[k], owner |-> (w + k - 1) % game.players] \in Flight
      BY <3>2, PlayersAre DEF OfflineInv, Flight
    <3>4. game.players \in Nat
      BY PlayersAre DEF OfflineInv
    <3>5. drawFlights' \in Seq(Flight)
      BY <2>1, <3>3, <3>4, IsASeq
    <3> QED
      BY <2>2, <3>2, <3>5
  <2>5. doing' = {"drawing"} /\ winner' = Nobody /\ game'.over = FALSE
    BY <1>3, <1>9, <1>10, <1>14, <1>16, <1>19 DEF done
  <2>6. OfflineTypeOK'
    BY <1>2, <1>9, <1>13, <1>14, <2>4, <2>5, GameIs DEF OfflineInv, OfflineTypeOK, GameType, Stages
  <2>7. StageInv'
    <3>1. w # Nobody
      BY <1>2, PlayersAre DEF OfflineInv, Nobody
    <3> QED
      BY <1>1, <1>9, <1>14, <2>5, <3>1 DEF StageInv, MatchOver
  <2>8. CardsLeft' = ToSet(game.deck) \cup UNION {game.hand[p] : p \in Players}
    <3>1. {t.card : t \in Out'} = {game.deck[k] : k \in 1..game.players}
      <4> DEFINE drawn(k) == [card |-> game.deck[k], owner |-> (w + k - 1) % game.players]
      <4>1. Out' = {drawn(k) : k \in 1..game.players} /\ \A k \in 1..game.players : drawn(k).card = game.deck[k]
        BY <2>2
      <4> HIDE DEF drawn
      <4> QED
        BY <4>1
    <3>2. CardsLeft' = (ToSet(left) \cup UNION {game.hand[p] : p \in Players})
                           \cup {game.deck[k] : k \in 1..game.players}
      BY <1>14, <2>6, <3>1, LeftIsNext
    <3>3. ToSet(game.deck) = ToSet(left) \cup {game.deck[k] : k \in 1..game.players}
      BY <1>12, <1>19, StockParts DEF OfflineInv
    <3> QED
      BY <3>2, <3>3
  <2> QED
    BY <1>13, <1>17, <1>18, <1>21, <2>3, <2>4, <2>6, <2>7, <2>8 DEF OfflineInv, TrickTaken
<1>20. CASE ~(draws /\ game.deck # <<>>)
  <2>1. drawFlights' = <<>> /\ left = game.deck
    BY <1>1, <1>9, <1>12, <1>20 DEF left
  <2>2. Out' = {}
    BY <1>15, <2>1, EmptySeq DEF ToSet
  <2>3. ASSUME ~MatchOver', ~game'.over PROVE \E p \in 0..3 : game.hand[p] # {}
    <3>1. ~over /\ draws /\ game.deck = <<>>
      BY <1>3, <1>14, <1>20, <2>3 DEF done
    <3>2. DOMAIN game.hand = 0..3
      BY GameIs DEF OfflineInv
    <3> QED
      BY <3>1, <3>2 DEF over, RoundPlayed, AllHandsEmpty
  <2>4. HandsInv'
    BY <1>1, <1>14, <2>1, <2>2, <2>3, NotDrawn
  <2>5. doing' = IF ReachedBy(g) # {} THEN {} ELSE IF over THEN {"transition"}
                 ELSE IF w # Person THEN {"bot"} ELSE {}
    BY <1>9, <1>16, <1>20
  <2>6. OfflineTypeOK'
    BY <1>2, <1>9, <1>10, <1>13, <1>14, <2>2, <2>5, GameIs DEF OfflineInv, OfflineTypeOK, GameType, Stages
  <2>7. StageInv'
    <3>1. w # Nobody
      BY <1>2, PlayersAre DEF OfflineInv, Nobody
    <3>2. CASE ReachedBy(g) # {}
      BY <1>1, <1>9, <1>10, <1>14, <2>1, <2>5, <3>1, <3>2 DEF StageInv, MatchOver
    <3>3. CASE ReachedBy(g) = {} /\ over
      BY <1>1, <1>9, <1>10, <1>14, <2>1, <2>5, <3>1, <3>3 DEF StageInv, MatchOver, done
    <3>4. CASE ReachedBy(g) = {} /\ ~over
      BY <1>1, <1>3, <1>9, <1>10, <1>14, <2>1, <2>5, <3>1, <3>4 DEF StageInv, MatchOver, done
    <3> QED
      BY <1>3, <3>2, <3>3, <3>4
  <2>8. CardsLeft' = ToSet(game.deck) \cup UNION {game.hand[p] : p \in Players}
    BY <1>14, <2>1, <2>2, <2>6, LeftIsNext
  <2> QED
    BY <1>13, <1>17, <1>18, <1>21, <2>1, <2>4, <2>6, <2>7, <2>8, EmptySeq DEF OfflineInv, TrickTaken
<1> QED
  BY <1>19, <1>20
-----------------------------------------------------------------------------
(* A card drawn reaches its hand *)

LEMMA Draw ==
  ASSUME OfflineInv, CardDrawn
  PROVE  OfflineInv' /\ Kept
<1> DEFINE t == Head(drawFlights)
           hand == [game.hand EXCEPT ![t.owner] = @ \cup {t.card}]
<1>1. /\ doing = {"drawing"} /\ flights = {} /\ ~MatchOver /\ game.trick = <<>> /\ drawFlights # <<>>
      /\ drawFlights' = Tail(drawFlights) /\ UNCHANGED <<doing, flights, round, winner, menu>>
  BY DEF OfflineInv, StageInv, CardDrawn, Due
<1>2. /\ t \in Flight /\ Tail(drawFlights) \in Seq(Flight)
      /\ ToSet(drawFlights) = {t} \cup ToSet(Tail(drawFlights))
  <2>1. drawFlights \in Seq(Flight) /\ Len(drawFlights) \in Nat \ {0}
    BY <1>1, EmptySeq DEF OfflineInv
  <2>2. /\ t \in Flight /\ t = drawFlights[1]
        /\ Tail(drawFlights) \in Seq(Flight) /\ Len(Tail(drawFlights)) = Len(drawFlights) - 1
        /\ \A i \in 1..Len(Tail(drawFlights)) : Tail(drawFlights)[i] = drawFlights[i + 1]
    BY <1>1, <2>1, HeadTailProperties, ElementOfSeq
  <2>3. DOMAIN drawFlights = 1..Len(drawFlights) /\ DOMAIN Tail(drawFlights) = 1..(Len(drawFlights) - 1)
    BY <2>1, <2>2, LenProperties
  <2>4. \A x : x \in ToSet(Tail(drawFlights)) => x \in ToSet(drawFlights)
    BY <2>1, <2>2, <2>3 DEF ToSet
  <2>5. t \in ToSet(drawFlights)
    BY <2>1, <2>2, <2>3 DEF ToSet
  <2>6. ASSUME NEW i \in 1..Len(drawFlights) PROVE drawFlights[i] = t \/ drawFlights[i] \in ToSet(Tail(drawFlights))
    <3>1. CASE i = 1
      BY <2>2, <3>1
    <3>2. CASE i # 1
      <4>1. i - 1 \in 1..Len(Tail(drawFlights)) /\ Tail(drawFlights)[i - 1] = drawFlights[i]
        BY <2>1, <2>2, <3>2
      <4> QED
        BY <2>2, <2>3, <4>1 DEF ToSet
    <3> QED
      BY <3>1, <3>2
  <2> QED
    BY <2>2, <2>3, <2>4, <2>5, <2>6 DEF ToSet
<1>3. t \in Out /\ t.card \in Deck /\ t.owner \in Players /\ t.owner \in 0..3
  BY <1>2, PlayersAre DEF OfflineInv, OfflineTypeOK, Out
<1>4. game' = [deck |-> game.deck, hand |-> hand, trick |-> game.trick, points |-> game.points,
               players |-> game.players, dealer |-> game.dealer, turn |-> game.turn,
               tricks |-> game.tricks, over |-> game.over]
  BY GameIs DEF OfflineInv, CardDrawn
<1> HIDE DEF t
<1>5. hand \in [0..3 -> SUBSET Deck]
  BY <1>3, GameIs DEF OfflineInv
<1>6. \A q \in 0..3 : hand[q] = IF q = t.owner THEN game.hand[q] \cup {t.card} ELSE game.hand[q]
  BY <1>3, GameIs DEF OfflineInv
<1> HIDE DEF hand
<1>7. game' \in GameType
  BY <1>4, <1>5, GameIs DEF OfflineInv, GameType
<1>8. Out = Out' \cup {t} /\ Players' = Players
  BY <1>1, <1>2, <1>4 DEF Out, Players
<1>9. OfflineTypeOK'
  BY <1>1, <1>4, <1>5, <1>8, GameIs DEF OfflineInv, OfflineTypeOK
<1>10. MatchDecided'
  BY <1>1, <1>4 DEF OfflineInv, MatchDecided, MatchOver, ReachedBy
<1>11. TrickInv'
  BY <1>1, <1>4, <1>7, NoTrickNext
<1>12. StageInv'
  BY <1>1, <1>4 DEF OfflineInv, StageInv, MatchOver
<1>13. HandsInv' /\ CardsLeft' = CardsLeft
  <2>1. ASSUME NEW q \in 0..3 PROVE HeldBy(q)' = HeldBy(q)
    <3>1. HeldBy(q)' = hand[q] \cup {x.card : x \in {x \in Out' : x.owner = q}}
      BY <1>4 DEF HeldBy
    <3> QED
      BY <1>3, <1>6, <1>8, <3>1 DEF HeldBy
  <2>2. \A q \in (0..3) \ Players : game'.hand[q] = {}
    BY <1>3, <1>4, <1>6 DEF OfflineInv, HandsInv
  <2> QED
    BY <1>1, <1>4, <2>1, <2>2, HandsStay DEF OfflineInv
<1> QED
  BY <1>1, <1>2, <1>4, <1>7, <1>9, <1>10, <1>11, <1>12, <1>13 DEF OfflineInv, Kept
-----------------------------------------------------------------------------
(* Who is on turn *)

\* Who is on turn has not played to the trick, and has a card.
LEMMA TurnHasCards ==
  ASSUME OfflineInv, ~MatchOver, ~game.over, game.turn # Nobody, drawFlights = <<>>
  PROVE  game.turn \in Players /\ game.hand[game.turn] # {}
<1> DEFINE p == game.turn
<1>1. p \in Players /\ IsNext(p) /\ flights = {}
  BY DEF OfflineInv, OfflineTypeOK, TrickInv
<1>2. Out = ToSet(game.trick)
  BY <1>1, EmptySeq DEF Out, ToSet
<1>3. ASSUME NEW i \in 1..Len(game.trick) PROVE game.trick[i].owner # p
  <2> DEFINE lead == game.trick[1].owner
             k == Len(game.trick)
  <2>1. game.trick # <<>> /\ k \in Nat /\ k < game.players /\ p = (lead + k) % game.players
    BY <1>1, <1>3, TrickIs DEF OfflineInv, IsNext
  <2>2. game.trick[i].owner = (lead + i - 1) % game.players
    BY TrickIs DEF OfflineInv, TrickInv
  <2>3. lead \in 0..3
    BY <2>1, TrickIs DEF OfflineInv, Flight
  <2>4. i - 1 \in Nat /\ i - 1 < k
    BY <2>1
  <2> HIDE DEF lead, k, p
  <2>5. CASE game.players = 2
    BY <2>1, <2>2, <2>3, <2>4, <2>5
  <2>6. CASE game.players = 4
    BY <2>1, <2>2, <2>3, <2>4, <2>6
  <2> QED
    BY <2>5, <2>6, PlayersAre DEF OfflineInv
<1>4. HeldBy(p) = game.hand[p]
  BY <1>2, <1>3, TrickIs DEF OfflineInv, HeldBy
<1>5. Person \in Players /\ HeldBy(Person) # {} /\ Players \subseteq 0..3
  BY PlayersAre DEF OfflineInv, HandsInv
<1>6. Cardinality(HeldBy(p)) = Cardinality(HeldBy(Person))
  BY <1>1, <1>5 DEF OfflineInv, HandsInv
<1>7. HeldBy(p) \in SUBSET Deck /\ HeldBy(Person) \in SUBSET Deck
  BY <1>1, <1>5, HeldInDeck DEF OfflineInv
<1> QED
  BY <1>1, <1>4, <1>5, <1>6, <1>7, SomeCards

\* A hand with cards has one that may be played.
LEMMA SomethingLegal ==
  ASSUME NEW p, game.turn = p, ~game.over, game.hand[p] # {}
  PROVE  \E c \in game.hand[p] : CanPlay(game, p, c)
<1>1. CASE \E c \in game.hand[p] : Suit(c) = Lead(game)
  BY <1>1 DEF CanPlay, Follows
<1>2. CASE \A c \in game.hand[p] : Suit(c) # Lead(game)
  BY <1>2 DEF CanPlay, Follows
<1> QED
  BY <1>1, <1>2

LEMMA AutoPlays ==
  ASSUME game \in GameType, NEW p \in 0..3, game.turn = p, ~game.over, game.hand[p] # {}
  PROVE  AutoCard(game, p) \in game.hand[p] /\ CanPlay(game, p, AutoCard(game, p))
<1> DEFINE legal == {c \in game.hand[p] : CanPlay(game, p, c)}
           beats == {c \in legal : /\ game.trick # <<>> /\ Suit(c) = Lead(game)
                                   /\ TrickPower(c) > TrickPower(game.trick[1].card)}
           cost(c) == 100 * Thirds(c) + 4 * TrickPower(c) + Suit(c)
           weakest(c) == \A d \in beats : TrickPower(c) <= TrickPower(d)
           cheapest(c) == \A d \in legal : cost(c) <= cost(d)
<1>1. \A c \in legal : TrickPower(c) \in Nat /\ cost(c) \in Nat
  <2>1. \A c \in legal : c \in Deck
    BY GameIs
  <2>2. \A c \in legal : TrickPower(c) \in 1..10 /\ Thirds(c) \in 0..3 /\ Suit(c) \in 0..3
    BY <2>1, CardFigures
  <2> HIDE DEF legal
  <2> QED
    BY <2>2
<1>2. legal # {} /\ beats \subseteq legal
  BY SomethingLegal
<1>3. AutoCard(game, p) = IF beats # {} THEN CHOOSE c \in beats : weakest(c)
                          ELSE CHOOSE c \in legal : cheapest(c)
  BY DEF AutoCard
<1>4. AutoCard(game, p) \in legal
  <2>1. CASE beats # {}
    <3>1. \E x \in {TrickPower(c) : c \in beats} : \A y \in {TrickPower(c) : c \in beats} : x <= y
      <4> HIDE DEF beats, legal
      <4>1. {TrickPower(c) : c \in beats} \in SUBSET Nat /\ {TrickPower(c) : c \in beats} # {}
        BY <1>1, <1>2, <2>1
      <4> QED
        BY <4>1, LeastNumber
    <3>2. \E c \in beats : weakest(c)
      BY <3>1
    <3>3. (CHOOSE c \in beats : weakest(c)) \in beats
      BY <3>2
    <3> QED
      BY <1>2, <1>3, <2>1, <3>3
  <2>2. CASE beats = {}
    <3>1. \E x \in {cost(c) : c \in legal} : \A y \in {cost(c) : c \in legal} : x <= y
      <4> HIDE DEF legal, cost
      <4>1. {cost(c) : c \in legal} \in SUBSET Nat /\ {cost(c) : c \in legal} # {}
        BY <1>1, <1>2
      <4> QED
        BY <4>1, LeastNumber
    <3>2. \E c \in legal : cheapest(c)
      <4> HIDE DEF legal, cost
      <4> QED
        BY <3>1
    <3>3. (CHOOSE c \in legal : cheapest(c)) \in legal
      BY <3>2
    <3> QED
      BY <1>3, <2>2, <3>3
  <2> QED
    BY <2>1, <2>2
<1> QED
  BY <1>4
-----------------------------------------------------------------------------
(* Stages that end, and the menu *)

LEMMA StageStep ==
  ASSUME OfflineInv, UNCHANGED <<game, flights, drawFlights, round, winner>>,
         menu' \in {"closed", "open", "picker"}, doing' \subseteq Stages, StageInv'
  PROVE  OfflineInv' /\ Kept
<1>1. Out' = Out /\ Players' = Players
  BY DEF Out, Players
<1>2. OfflineTypeOK'
  BY <1>1 DEF OfflineInv, OfflineTypeOK
<1>3. MatchDecided'
  BY DEF OfflineInv, MatchDecided, MatchOver, ReachedBy
<1>4. TrickInv'
  BY DEF OfflineInv, TrickInv, IsNext, Followed, Lead
<1>5. HandsInv' /\ CardsLeft' = CardsLeft
  <2>1. \A q \in 0..3 : HeldBy(q)' = HeldBy(q)
    BY <1>1 DEF HeldBy
  <2>2. \A q \in (0..3) \ Players : game'.hand[q] = {}
    BY DEF OfflineInv, HandsInv
  <2> QED
    BY <2>1, <2>2, HandsStay DEF OfflineInv
<1> QED
  BY <1>2, <1>3, <1>4, <1>5 DEF OfflineInv, Kept

LEMMA Unchanged ==
  ASSUME OfflineInv, UNCHANGED <<game, doing, flights, drawFlights, round, winner>>,
         menu' \in {"closed", "open", "picker"}
  PROVE  OfflineInv' /\ Kept
<1>1. StageInv'
  BY DEF OfflineInv, StageInv, MatchOver
<1>2. doing' \subseteq Stages
  BY DEF OfflineInv, OfflineTypeOK
<1> QED
  BY <1>1, <1>2, StageStep

LEMMA StageEnds ==
  ASSUME OfflineInv, DealingEnds \/ StockPlaced \/ DrawingEnds \/ TrickCompared
  PROVE  OfflineInv' /\ Kept
<1>1. /\ UNCHANGED <<game, flights, drawFlights, round, winner, menu>>
      /\ menu' \in {"closed", "open", "picker"} /\ ~MatchOver
  BY DEF OfflineInv, OfflineTypeOK, DealingEnds, StockPlaced, DrawingEnds, TrickCompared, Due
<1>2. BotDelay(game) = IF game.turn # Person THEN {"bot"} ELSE {}
  BY DEF BotDelay
<1>3. CASE DealingEnds
  <2>1. doing = {"dealing"} /\ doing' = {"stock"}
    BY <1>3 DEF OfflineInv, StageInv, DealingEnds, Due, Follow
  <2>2. StageInv'
    BY <1>1, <2>1 DEF OfflineInv, StageInv, MatchOver
  <2> QED
    BY <1>1, <2>1, <2>2, StageStep DEF Stages
<1>4. CASE StockPlaced
  <2>1. doing = {"stock"} /\ doing' = BotDelay(game)
    BY <1>4 DEF OfflineInv, StageInv, StockPlaced, Due, Follow
  <2>2. StageInv'
    BY <1>1, <1>2, <2>1 DEF OfflineInv, StageInv, MatchOver
  <2> QED
    BY <1>1, <1>2, <2>1, <2>2, StageStep DEF Stages
<1>5. CASE DrawingEnds
  <2>1. doing = {"drawing"} /\ drawFlights = <<>> /\ doing' = BotDelay(game)
    BY <1>1, <1>5 DEF OfflineInv, StageInv, DrawingEnds, Due, Follow
  <2>2. StageInv'
    BY <1>1, <1>2, <2>1 DEF OfflineInv, StageInv, MatchOver
  <2> QED
    BY <1>1, <1>2, <2>1, <2>2, StageStep DEF Stages
<1>6. CASE TrickCompared
  <2>1. doing = {"compare"} /\ doing' = {"collecting"}
    BY <1>6 DEF OfflineInv, StageInv, TrickCompared, Due, Follow
  <2>2. StageInv'
    BY <1>1, <2>1 DEF OfflineInv, StageInv, MatchOver
  <2> QED
    BY <1>1, <2>1, <2>2, StageStep DEF Stages
<1> QED
  BY <1>3, <1>4, <1>5, <1>6

LEMMA BotPlays ==
  ASSUME OfflineInv, StartBotCard
  PROVE  OfflineInv' /\ Kept
<1> DEFINE p == game.turn
           c == AutoCard(game, p)
<1>1. /\ doing = {"bot"} /\ doing' = {} /\ flights = {} /\ drawFlights = <<>> /\ ~MatchOver
      /\ ~game.over /\ p # Nobody /\ p # Person
      /\ UNCHANGED <<drawFlights, round, winner, menu>>
  BY DEF OfflineInv, StageInv, StartBotCard, Due, Follow
<1>2. p \in Players /\ game.hand[p] # {}
  BY <1>1, TurnHasCards
<1>3. p \in 0..3 /\ p \in 1..(game.players - 1)
  BY <1>1, <1>2, PlayersAre DEF OfflineInv, Person
<1>4. c \in game.hand[p] /\ CanPlay(game, p, c)
  BY <1>1, <1>2, <1>3, AutoPlays DEF OfflineInv
<1>5. StartPlayCard(p, c)
  BY <1>1, <1>2, <1>3 DEF StartBotCard
<1> HIDE DEF p, c
<1> QED
  BY <1>1, <1>2, <1>4, <1>5, StartPlay

LEMMA PersonPlays ==
  ASSUME OfflineInv, NEW c \in Deck, TapCard(c)
  PROVE  OfflineInv' /\ Kept
<1>1. /\ doing = {} /\ doing' = {} /\ flights = {} /\ drawFlights = <<>> /\ ~MatchOver
      /\ c \in game.hand[Person] /\ CanPlay(game, Person, c) /\ StartPlayCard(Person, c)
      /\ UNCHANGED <<drawFlights, round, winner, menu>>
  BY DEF OfflineInv, StageInv, TapCard, MayTap, Busy
<1>2. Person \in Players
  BY PlayersAre DEF OfflineInv
<1> QED
  BY <1>1, <1>2, StartPlay
-----------------------------------------------------------------------------
(* A new deal *)

LEMMA DealIs ==
  ASSUME NEW n \in Modes, NEW d \in Deals[n]
  PROVE  /\ d.deck \in Seq(Deck) /\ IsInjective(d.deck) /\ Len(d.deck) % n = 0
         /\ d.hand \in [0..3 -> SUBSET Deck]
         /\ \A p \in 0..(n - 1) : Cardinality(d.hand[p]) = HandCards /\ d.hand[p] \cap ToSet(d.deck) = {}
         /\ \A p, q \in 0..3 : p # q => d.hand[p] \cap d.hand[q] = {}
         /\ \A p \in 0..3 : p >= n => d.hand[p] = {}
         /\ Len(d.deck) + n * HandCards = Cardinality(Deck)
<1> DEFINE part(s) == [deck |-> SubSeq(s, n * HandCards + 1, Len(s)),
                       hand |-> [p \in 0..3 |-> {s[i] : i \in {i \in 1..(n * HandCards) : (i - 1) % n = p}}]]
<1>0. n = 2 \/ n = 4
  BY DEF Modes
<1>1. PICK s \in Shuffles : d = part(s)
  BY DEF Deals
<1> DEFINE m == n * HandCards
           mine(p) == {i \in 1..m : (i - 1) % n = p}
<1>2. d.deck = SubSeq(s, m + 1, Len(s)) /\ d.hand = [p \in 0..3 |-> {s[i] : i \in mine(p)}]
  BY <1>1
<1>3. /\ s \in Seq(Deck) /\ Len(s) \in Nat /\ DOMAIN s = 1..Len(s)
      /\ \A i \in 1..Len(s) : s[i] \in Deck
      /\ \A i, j \in 1..Len(s) : s[i] = s[j] => i = j
      /\ Len(s) = Cardinality(Deck)
  <2>1. s \in Seq(0..39) /\ IsInjective(s) /\ ToSet(s) = Deck
    BY OfflineAssumption, DeckIs
  <2>2. Len(s) \in Nat /\ DOMAIN s = 1..Len(s)
    BY <2>1, LenProperties
  <2>3. \A i \in 1..Len(s) : s[i] \in Deck
    BY <2>1, <2>2 DEF ToSet
  <2>4. s \in [1..Len(s) -> Deck]
    BY <2>1, <2>2, <2>3, LenProperties
  <2>5. s \in Seq(Deck)
    BY <2>2, <2>4, SeqDef
  <2> QED
    BY <2>1, <2>2, <2>3, <2>5, DeckIs DEF IsInjective
<1>4. m \in Nat /\ Len(s) >= m /\ (Len(s) - m) % n = 0 /\ HandCards \in Nat \ {0}
  <2>1. HandCards \in Nat \ {0} /\ Len(s) >= n * HandCards /\ (Len(s) - n * HandCards) % n = 0
    BY OfflineAssumption
  <2>2. n * HandCards \in Nat
    BY <1>0, <2>1
  <2> QED
    BY <2>1, <2>2
<1> HIDE DEF m
<1>5. /\ d.deck \in Seq(Deck) /\ Len(d.deck) = Len(s) - m
      /\ \A i \in 1..Len(d.deck) : d.deck[i] = s[m + i]
      /\ DOMAIN d.deck = 1..Len(d.deck)
  <2> DEFINE rest == d.deck
  <2>1. rest = SubSeq(s, m + 1, Len(s))
    BY <1>2
  <2> HIDE DEF rest
  <2>2. /\ rest \in Seq(Deck) /\ Len(rest) = Len(s) - m /\ DOMAIN rest = 1..Len(rest)
        /\ \A i \in 1..Len(rest) : rest[i] = s[m + i]
    BY <1>3, <1>4, <2>1, RestOfDeck
  <2> QED
    BY <2>2 DEF rest
<1>6. \A i \in 1..Len(d.deck) : m + i \in 1..Len(s) /\ m + i > m
  BY <1>3, <1>4, <1>5
<1>7. IsInjective(d.deck)
  <2> SUFFICES ASSUME NEW i \in 1..Len(d.deck), NEW j \in 1..Len(d.deck), d.deck[i] = d.deck[j]
               PROVE  i = j
    BY <1>5 DEF IsInjective
  <2>1. m + i = m + j
    BY <1>3, <1>5, <1>6
  <2> QED
    BY <1>4, <2>1
<1>8. \A p \in 0..3 : d.hand[p] = {s[i] : i \in mine(p)} /\ \A i \in mine(p) : i \in 1..Len(s) /\ i <= m
  BY <1>2, <1>3, <1>4
<1>9. d.hand \in [0..3 -> SUBSET Deck]
  <2>1. \A p \in 0..3 : {s[i] : i \in mine(p)} \subseteq Deck
    BY <1>3, <1>8
  <2> QED
    BY <1>2, <2>1
<1>10. \A p \in 0..3 : d.hand[p] \cap ToSet(d.deck) = {}
  <2> SUFFICES ASSUME NEW p \in 0..3, NEW c \in d.hand[p], c \in ToSet(d.deck)
               PROVE  FALSE
    OBVIOUS
  <2>4. PICK i \in mine(p) : c = s[i]
    BY <1>8
  <2>5. PICK j \in 1..Len(d.deck) : c = d.deck[j]
    BY <1>5 DEF ToSet
  <2>1. i \in 1..Len(s) /\ i <= m /\ i \in Int
    BY <1>8
  <2>2. m + j \in 1..Len(s) /\ m + j > m /\ d.deck[j] = s[m + j]
    BY <1>5, <1>6
  <2>3. i = m + j
    BY <1>3, <2>1, <2>2, <2>4, <2>5
  <2> QED
    BY <1>4, <2>1, <2>2, <2>3
<1>11. \A p, q \in 0..3 : p # q => d.hand[p] \cap d.hand[q] = {}
  <2> SUFFICES ASSUME NEW p \in 0..3, NEW q \in 0..3, p # q, NEW c \in d.hand[p], c \in d.hand[q]
               PROVE  FALSE
    OBVIOUS
  <2>1. PICK i \in mine(p) : c = s[i]
    BY <1>8
  <2>2. PICK j \in mine(q) : c = s[j]
    BY <1>8
  <2>3. i = j
    BY <1>3, <1>8, <2>1, <2>2
  <2> QED
    BY <2>3
<1>12. \A p \in 0..3 : p >= n => d.hand[p] = {}
  <2>1. \A p \in 0..3 : p >= n => mine(p) = {}
    BY <1>0, <1>4
  <2> QED
    BY <1>8, <2>1
<1>13. ASSUME NEW p \in 0..(n - 1) PROVE Cardinality(d.hand[p]) = HandCards
  <2> DEFINE nth(j) == s[n * (j - 1) + p + 1]
             deal == [j \in 1..HandCards |-> nth(j)]
  <2>1. \A j \in 1..HandCards : n * (j - 1) + p + 1 \in mine(p)
    <3>1. CASE n = 2
      BY <1>4, <3>1 DEF m
    <3>2. CASE n = 4
      BY <1>4, <3>2 DEF m
    <3> QED
      BY <1>0, <3>1, <3>2
  <2>2. p \in 0..3
    BY <1>0
  <2>3. deal \in [1..HandCards -> d.hand[p]]
    BY <1>8, <2>1, <2>2
  <2>4. \A i, j \in 1..HandCards : deal[i] = deal[j] => i = j
    <3> SUFFICES ASSUME NEW i \in 1..HandCards, NEW j \in 1..HandCards, nth(i) = nth(j) PROVE i = j
      OBVIOUS
    <3>1. n * (i - 1) + p + 1 = n * (j - 1) + p + 1
      BY <1>3, <1>8, <2>1, <2>2
    <3>2. CASE n = 2
      BY <3>1, <3>2
    <3>3. CASE n = 4
      BY <3>1, <3>3
    <3> QED
      BY <1>0, <3>2, <3>3
  <2>5. \A c \in d.hand[p] : \E j \in 1..HandCards : deal[j] = c
    <3> SUFFICES ASSUME NEW i \in mine(p) PROVE \E j \in 1..HandCards : nth(j) = s[i]
      BY <1>8, <2>2
    <3> DEFINE j == (i - 1 - p) \div n + 1
    <3>1. j \in 1..HandCards /\ n * (j - 1) + p + 1 = i
      <4>1. CASE n = 2
        BY <1>4, <2>2, <4>1 DEF m
      <4>2. CASE n = 4
        BY <1>4, <2>2, <4>2 DEF m
      <4> QED
        BY <1>0, <4>1, <4>2
    <3> HIDE DEF j
    <3> QED
      BY <3>1
  <2>6. deal \in Bijection(1..HandCards, d.hand[p])
    BY <2>3, <2>4, <2>5 DEF Bijection, Injection, Surjection, IsInjective
  <2> QED
    BY <1>4, <2>6, FS_CountingElements DEF ExistsBijection
<1>14. Len(d.deck) + m = Cardinality(Deck) /\ Len(d.deck) % n = 0
  BY <1>3, <1>4, <1>5
<1> QED
  BY <1>0, <1>5, <1>7, <1>9, <1>10, <1>11, <1>12, <1>13, <1>14 DEF m

JustDealt ==
    /\ \E n \in Modes, points \in [Teams -> Nat] :
          /\ \A t \in Teams : points[t] < Target
          /\ \E dealer \in 0..(n - 1) : game \in Dealt(n, dealer, points)
    /\ doing = {"dealing"} /\ flights = {} /\ drawFlights = <<>>
    /\ winner = Nobody /\ round \in Nat \ {0}
    /\ menu \in {"closed", "open", "picker"}

LEMMA DealInv == JustDealt => OfflineInv
<1> SUFFICES ASSUME JustDealt PROVE OfflineInv
  OBVIOUS
<1>1. PICK n \in Modes, points \in [Teams -> Nat] :
          /\ \A t \in Teams : points[t] < Target
          /\ \E dealer \in 0..(n - 1) : game \in Dealt(n, dealer, points)
  BY DEF JustDealt
<1>2. PICK dealer \in 0..(n - 1) : game \in Dealt(n, dealer, points)
  BY <1>1
<1>3. PICK d \in Deals[n] :
         game = [deck |-> d.deck, hand |-> d.hand, trick |-> <<>>, points |-> points, players |-> n,
                 dealer |-> dealer, turn |-> (dealer + 1) % n, tricks |-> 0, over |-> FALSE]
  BY <1>2 DEF Dealt
<1>4. n = 2 \/ n = 4
  BY DEF Modes
<1>5. /\ game.deck = d.deck /\ game.hand = d.hand /\ game.trick = <<>> /\ game.points = points
      /\ game.players = n /\ game.dealer = dealer /\ game.tricks = 0 /\ game.over = FALSE
      /\ game.turn \in 0..(n - 1)
  BY <1>3, <1>4
<1>6. game \in GameType
  <2>1. d.deck \in Seq(Deck) /\ d.hand \in [0..3 -> SUBSET Deck]
    <3>1. n \in Modes /\ d \in Deals[n]
      OBVIOUS
    <3> QED
      BY <3>1, DealIs, Zenon
  <2>2. dealer \in 0..3 /\ game.turn \in -1..3 /\ n \in Modes /\ 0 \in Nat
    BY <1>4, <1>5
  <2>3. <<>> \in Seq(Flight)
    BY EmptySeq
  <2> DEFINE turn == (dealer + 1) % n
             deck == d.deck
             hand == d.hand
  <2>4. turn \in -1..3
    BY <1>3, <2>2
  <2>5. game = [deck |-> deck, hand |-> hand, trick |-> <<>>, points |-> points, players |-> n,
                dealer |-> dealer, turn |-> turn, tricks |-> 0, over |-> FALSE]
    BY <1>3
  <2>6. deck \in Seq(Deck) /\ hand \in [0..3 -> SUBSET Deck]
    BY <2>1
  <2> HIDE DEF turn, deck, hand
  <2>7. FALSE \in BOOLEAN /\ points \in [Teams -> Nat]
    OBVIOUS
  <2>8. [deck |-> deck, hand |-> hand, trick |-> <<>>, points |-> points, players |-> n,
         dealer |-> dealer, turn |-> turn, tricks |-> 0, over |-> FALSE] \in GameType
    BY <2>2, <2>3, <2>4, <2>6, <2>7, AGame
  <2> QED
    BY <2>5, <2>8
<1>7. Players = 0..(n - 1) /\ Players \subseteq 0..3 /\ Person \in Players /\ ~MatchOver
  BY <1>4, <1>5 DEF Players, Person, MatchOver, JustDealt
<1>8. Out = {}
  BY <1>5, EmptySeq DEF Out, ToSet, JustDealt
<1>9. \A p : HeldBy(p) = game.hand[p]
  BY <1>8 DEF HeldBy
<1>10. OfflineTypeOK
  BY <1>4, <1>5, <1>6, <1>7, <1>8, GameIs DEF OfflineTypeOK, JustDealt, Stages
<1>11. MatchDecided
  BY <1>1, <1>5, <1>7, OfflineAssumption DEF MatchDecided, ReachedBy
<1>12. TrickInv
  BY <1>5, <1>6, NoTrick DEF JustDealt
<1>13. StageInv
  <2>1. game.turn # Nobody
    BY <1>4, <1>5 DEF Nobody
  <2>2. doing = {"dealing"} /\ flights = {} /\ drawFlights = <<>>
    BY DEF JustDealt
  <2> QED
    BY <1>5, <1>7, <2>1, <2>2 DEF StageInv
<1>14. HandsInv
  <2>1. HandCards \in Nat \ {0}
    BY OfflineAssumption
  <2>2. \A p \in Players : Cardinality(HeldBy(p)) = HandCards
    BY <1>5, <1>7, <1>9, DealIs
  <2>3. \A p, q \in Players : p # q => HeldBy(p) \cap HeldBy(q) = {}
    BY <1>5, <1>7, <1>9, DealIs
  <2>4. \A p \in Players : HeldBy(p) \cap ToSet(game.deck) = {}
    BY <1>5, <1>7, <1>9, DealIs
  <2>5. \A p \in (0..3) \ Players : game.hand[p] = {}
    BY <1>4, <1>5, <1>7, DealIs
  <2>6. IsInjective(game.deck) /\ Len(game.deck) % game.players = 0
    BY <1>5, DealIs
  <2>7. Len(game.deck) + game.players * (Cardinality(HeldBy(Person)) + game.tricks) = Cardinality(Deck)
    <3>1. Len(d.deck) + n * HandCards = Cardinality(Deck)
      BY DealIs
    <3>2. Cardinality(HeldBy(Person)) + game.tricks = HandCards
      BY <1>5, <1>7, <2>1, <2>2
    <3> QED
      BY <1>5, <3>1, <3>2
  <2>8. HeldBy(Person) # {}
    BY <1>7, <2>1, <2>2, FS_EmptySet
  <2> QED
    BY <1>5, <2>2, <2>3, <2>4, <2>5, <2>6, <2>7, <2>8 DEF HandsInv
<1>15. drawFlights \in Seq(Flight)
  BY EmptySeq DEF JustDealt
<1> QED
  BY <1>6, <1>10, <1>11, <1>12, <1>13, <1>14, <1>15 DEF OfflineInv

LEMMA DealInvNext == JustDealt' => OfflineInv'
  BY DealInv, PTL

LEMMA DealsNext ==
  ASSUME OfflineInv, NEW n \in Modes, NEW points \in [Teams -> Nat], \A t \in Teams : points[t] < Target,
         NEW number \in Nat \ {0}, NewDeal(n, points, number), menu' \in {"closed", "open", "picker"}
  PROVE  JustDealt' /\ game'.points = points /\ round' = number
<1>1. (game.dealer + 1) % n \in 0..(n - 1)
  <2>1. game.dealer \in 0..3 /\ (n = 2 \/ n = 4)
    BY GameIs DEF OfflineInv, Modes
  <2> QED
    BY <2>1
<1>2. JustDealt'
  BY <1>1 DEF NewDeal, JustDealt
<1>3. game'.points = points
  BY DEF NewDeal, Dealt
<1> QED
  BY <1>2, <1>3 DEF NewDeal

LEMMA Deal ==
  ASSUME OfflineInv, NEW n \in Modes, NEW points \in [Teams -> Nat], \A t \in Teams : points[t] < Target,
         NEW number \in Nat \ {0}, NewDeal(n, points, number), menu' \in {"closed", "open", "picker"}
  PROVE  OfflineInv'
  BY DealsNext, DealInvNext
-----------------------------------------------------------------------------
(* The invariant *)

LEMMA OfflineStart == Init => OfflineInv
<1> SUFFICES ASSUME Init PROVE OfflineInv
  OBVIOUS
<1>1. NoPoints \in [Teams -> Nat] /\ \A t \in Teams : NoPoints[t] < Target
  BY OfflineAssumption DEF NoPoints
<1>2. 2 \in Modes /\ 0 \in 0..(2 - 1)
  BY DEF Modes
<1>3. JustDealt
  BY <1>1, <1>2 DEF Init, JustDealt
<1> QED
  BY <1>3, DealInv

LEMMA OfflineNext ==
  ASSUME OfflineInv, [Next]_vars
  PROVE  OfflineInv'
<1>1. NoPoints \in [Teams -> Nat] /\ \A t \in Teams : NoPoints[t] < Target
  BY OfflineAssumption DEF NoPoints
<1>2. menu \in {"closed", "open", "picker"} /\ game.players \in Modes /\ round \in Nat \ {0}
  BY DEF OfflineInv, OfflineTypeOK
<1>3. CASE NewGame
  BY <1>1, <1>2, <1>3, Deal DEF NewGame
<1>4. CASE OpenMenu \/ OpenPicker \/ CloseMenu
  BY <1>4, Unchanged DEF OpenMenu, OpenPicker, CloseMenu
<1>5. ASSUME NEW n \in Modes, PickMode(n) PROVE OfflineInv'
  BY <1>1, <1>5, Deal DEF PickMode
<1>6. ASSUME NEW c \in Deck, TapCard(c) PROVE OfflineInv'
  BY <1>6, PersonPlays
<1>7. CASE NextRound
  <2>1. ~MatchOver /\ game.points \in [Teams -> Nat] /\ round + 1 \in Nat \ {0}
    BY <1>2, <1>7, GameIs DEF NextRound, Due, OfflineInv
  <2>2. \A t \in Teams : game.points[t] < Target
    BY <2>1, OfflineAssumption DEF OfflineInv, MatchDecided, ReachedBy
  <2> QED
    BY <1>2, <1>7, <2>1, <2>2, Deal DEF NextRound
<1>8. CASE UpdateApp
  BY <1>7, <1>8, StageEnds, Collected, Draw, Land, BotPlays DEF UpdateApp
<1>9. CASE UNCHANGED vars
  BY <1>2, <1>9, Unchanged DEF vars
<1> QED
  BY <1>3, <1>4, <1>5, <1>6, <1>8, <1>9 DEF Next

\* The inductive invariant, for any deck, hands, target, and however the person plays.
THEOREM OfflineInvariant == Spec => []OfflineInv
  BY OfflineStart, OfflineNext, PTL DEF Spec

\* Every variable keeps its type.
THEOREM OfflineTypeCorrect == Spec => []OfflineTypeOK
<1>1. OfflineInv => OfflineTypeOK
  BY DEF OfflineInv
<1> QED
  BY <1>1, OfflineInvariant, PTL

\* A match is over exactly when a team has the target, and that team is ahead.
THEOREM MatchIsDecided == Spec => []MatchDecided
<1>1. OfflineInv => MatchDecided
  BY DEF OfflineInv
<1> QED
  BY <1>1, OfflineInvariant, PTL

\* The cards of a trick came in turn around the table, and whoever did not follow suit could not.
THEOREM SuitIsFollowed == Spec => []TrickFollows
<1>1. OfflineInv => TrickFollows
  <2> SUFFICES ASSUME OfflineInv, NEW i \in 1..Len(game.trick)
               PROVE  LET t == game.trick[i]
                      IN /\ i > 1 => t.owner = (game.trick[i - 1].owner + 1) % game.players
                         /\ Suit(t.card) = Lead(game) \/ \A c \in game.hand[t.owner] : Suit(c) # Lead(game)
    BY TrickIs DEF TrickFollows, OfflineInv
  <2>1. Followed(game.trick[i]) /\ game.trick # <<>>
    BY TrickIs DEF OfflineInv, TrickInv
  <2>2. ASSUME i > 1 PROVE game.trick[i].owner = (game.trick[i - 1].owner + 1) % game.players
    <3> DEFINE lead == game.trick[1].owner
    <3>1. i - 1 \in 1..Len(game.trick) /\ i - 2 \in Nat /\ lead \in 0..3
      BY <2>2, TrickIs DEF OfflineInv, Flight
    <3>2. /\ game.trick[i].owner = (lead + i - 1) % game.players
          /\ game.trick[i - 1].owner = (lead + (i - 1) - 1) % game.players
      BY <3>1, TrickIs DEF OfflineInv, TrickInv
    <3> HIDE DEF lead
    <3>3. (((lead + (i - 2)) % game.players) + 1) % game.players = (lead + (i - 2) + 1) % game.players
      BY <3>1, OneFurther, PlayersAre DEF OfflineInv
    <3>4. lead + (i - 1) - 1 = lead + (i - 2) /\ lead + i - 1 = lead + (i - 2) + 1
      BY <3>1
    <3> QED
      BY <3>2, <3>3, <3>4
  <2> QED
    BY <2>1, <2>2 DEF Followed
<1> QED
  BY <1>1, OfflineInvariant, PTL
LEMMA UnionOfApart ==
  ASSUME NEW S \in SUBSET Deck, NEW T \in SUBSET Deck, S \cap T = {}
  PROVE  S \cup T \in SUBSET Deck /\ Cardinality(S \cup T) = Cardinality(S) + Cardinality(T)
<1>1. IsFiniteSet(S) /\ IsFiniteSet(T) /\ Cardinality(S) \in Nat /\ Cardinality(T) \in Nat
  BY SomeCards
<1>2. Cardinality(S \cup T) = Cardinality(S) + Cardinality(T) - Cardinality(S \cap T)
  BY <1>1, FS_Union
<1>3. Cardinality(S \cap T) = 0
  BY FS_EmptySet
<1> QED
  BY <1>1, <1>2, <1>3

LEMMA StockCount ==
  ASSUME game \in GameType, IsInjective(game.deck)
  PROVE  Cardinality(ToSet(game.deck)) = Len(game.deck)
<1>1. game.deck \in Bijection(1..Len(game.deck), ToSet(game.deck))
  <2>1. game.deck \in Seq(Deck) /\ DOMAIN game.deck = 1..Len(game.deck)
    BY GameIs, DeckSeq
  <2> QED
    BY <2>1 DEF Bijection, Injection, Surjection, ToSet, IsInjective
<1>2. ExistsBijection(1..Len(game.deck), ToSet(game.deck))
  BY <1>1 DEF ExistsBijection
<1> QED
  BY <1>2, DeckSeq, FS_CountingElements

\* All the cards that are left: the stock and what the players hold.
LEMMA LeftCount ==
  ASSUME OfflineInv
  PROVE  Cardinality(CardsLeft) = Len(game.deck) + game.players * Cardinality(HeldBy(Person))
<1> DEFINE H(p) == HeldBy(p)
           S == ToSet(game.deck)
<1>1. \A p \in Players : H(p) \in SUBSET Deck
  BY HeldInDeck, PlayersAre DEF OfflineInv
<1>2. \A p, q \in Players : p # q => H(p) \cap H(q) = {}
  BY DEF OfflineInv, HandsInv
<1>3. \A p \in Players : H(p) \cap S = {}
  BY DEF OfflineInv, HandsInv
<1>4. \A p \in Players : Cardinality(H(p)) = Cardinality(H(Person))
  BY PlayersAre DEF OfflineInv, HandsInv
<1>5. S \in SUBSET Deck /\ Cardinality(S) = Len(game.deck) /\ Len(game.deck) \in Nat
  BY DeckSeq, StockCount DEF OfflineInv, HandsInv
<1>6. Cardinality(H(Person)) \in Nat /\ Person \in Players
  BY <1>1, SomeCards, PlayersAre DEF OfflineInv
<1>7. CardsLeft = S \cup UNION {H(p) : p \in Players}
  BY DEF CardsLeft
<1> HIDE DEF H, S
<1>8. CASE game.players = 2 /\ Players = {0, 1}
  <2>1. CardsLeft = (S \cup H(0)) \cup H(1)
    BY <1>7, <1>8
  <2>2. (S \cup H(0)) \in SUBSET Deck /\ Cardinality(S \cup H(0)) = Cardinality(S) + Cardinality(H(0))
    BY <1>1, <1>3, <1>5, <1>8, UnionOfApart
  <2>3. (S \cup H(0)) \cap H(1) = {} /\ H(1) \in SUBSET Deck
    BY <1>1, <1>2, <1>3, <1>8
  <2>4. Cardinality((S \cup H(0)) \cup H(1)) = Cardinality(S \cup H(0)) + Cardinality(H(1))
    BY <2>2, <2>3, UnionOfApart
  <2>5. Cardinality(CardsLeft) = Cardinality(S) + Cardinality(H(0)) + Cardinality(H(1))
    BY <2>1, <2>2, <2>4
  <2>6. Cardinality(H(0)) = Cardinality(H(Person)) /\ Cardinality(H(1)) = Cardinality(H(Person))
    BY <1>4, <1>8
  <2> QED
    BY <1>5, <1>6, <1>8, <2>5, <2>6 DEF H
<1>9. CASE game.players = 4 /\ Players = {0, 1, 2, 3}
  <2> DEFINE A == S \cup H(0)
             B == A \cup H(1)
             C == B \cup H(2)
  <2>1. CardsLeft = C \cup H(3)
    BY <1>7, <1>9
  <2>2. A \in SUBSET Deck /\ Cardinality(A) = Cardinality(S) + Cardinality(H(0))
    BY <1>1, <1>3, <1>5, <1>9, UnionOfApart
  <2>3. A \cap H(1) = {} /\ B \cap H(2) = {} /\ C \cap H(3) = {}
    BY <1>2, <1>3, <1>9
  <2>4. H(1) \in SUBSET Deck /\ H(2) \in SUBSET Deck /\ H(3) \in SUBSET Deck
    BY <1>1, <1>9
  <2> HIDE DEF A
  <2>5. B \in SUBSET Deck /\ Cardinality(B) = Cardinality(A) + Cardinality(H(1))
    BY <2>2, <2>3, <2>4, UnionOfApart
  <2> HIDE DEF B
  <2>6. C \in SUBSET Deck /\ Cardinality(C) = Cardinality(B) + Cardinality(H(2))
    BY <2>3, <2>4, <2>5, UnionOfApart
  <2> HIDE DEF C
  <2>7. Cardinality(C \cup H(3)) = Cardinality(C) + Cardinality(H(3))
    BY <2>3, <2>4, <2>6, UnionOfApart
  <2>8. /\ Cardinality(H(0)) = Cardinality(H(Person)) /\ Cardinality(H(1)) = Cardinality(H(Person))
        /\ Cardinality(H(2)) = Cardinality(H(Person)) /\ Cardinality(H(3)) = Cardinality(H(Person))
    BY <1>4, <1>9
  <2>9. Cardinality(CardsLeft) = Cardinality(C \cup H(3))
    BY <2>1
  <2>10. Cardinality(CardsLeft) = Cardinality(S) + 4 * Cardinality(H(Person))
    BY <1>5, <1>6, <2>2, <2>5, <2>6, <2>7, <2>8, <2>9
  <2> QED
    BY <1>5, <1>6, <1>9, <2>10 DEF H
<1> QED
  BY <1>8, <1>9, PlayersAre DEF OfflineInv

\* All players have equally many cards at any moment, and none is lost or in two places.
THEOREM CardsStayEven == Spec => []CardsEven
<1>1. OfflineInv => CardsEven
  <2> SUFFICES ASSUME OfflineInv PROVE CardsEven
    OBVIOUS
  <2> DEFINE held == Cardinality(HeldBy(Person))
  <2>1. Cardinality(CardsLeft) = Len(game.deck) + game.players * held
    BY LeftCount
  <2>2. Len(game.deck) + game.players * (held + game.tricks) = Cardinality(Deck)
    BY DEF OfflineInv, HandsInv
  <2>3. held \in Nat /\ game.tricks \in Nat /\ Len(game.deck) \in Nat
    BY HeldInDeck, SomeCards, GameIs, DeckSeq DEF OfflineInv, Person
  <2> HIDE DEF held
  <2>4. game.players \in {2, 4}
    BY PlayersAre DEF OfflineInv
  <2> DEFINE Spread(n, a, h, t) == a + n * (h + t) = (a + n * h) + n * t
  <2>5. \A n \in {2, 4}, a, h, t \in Nat : Spread(n, a, h, t)
    <3> SUFFICES ASSUME NEW n \in {2, 4}, NEW a \in Nat, NEW h \in Nat, NEW t \in Nat
                 PROVE  Spread(n, a, h, t)
      OBVIOUS
    <3>1. n = 2 \/ n = 4
      OBVIOUS
    <3> QED
      BY <3>1
  <2> HIDE DEF Spread
  <2>6. Spread(game.players, Len(game.deck), held, game.tricks)
    BY <2>3, <2>4, <2>5
  <2>7. Cardinality(CardsLeft) + game.players * game.tricks = Cardinality(Deck)
    BY <2>1, <2>2, <2>6 DEF Spread
  <2> QED
    BY <2>1, <2>7 DEF CardsEven, OfflineInv, HandsInv, held
<1> QED
  BY <1>1, OfflineInvariant, PTL

LEMMA OneOrNone ==
  ASSUME NEW S, \A x, y \in S : x = y
  PROVE  \/ S = {} /\ Cardinality(S) = 0
         \/ S # {} /\ Cardinality(S) = 1
<1>1. CASE S = {}
  BY <1>1, FS_EmptySet
<1>2. CASE S # {}
  <2>1. PICK x : S = {x}
    BY <1>2
  <2> QED
    BY <1>2, <2>1, FS_Singleton
<1> QED
  BY <1>1, <1>2

\* Never are two things under way together, and when none is, the match is over or the person has
\* a card to play.
THEOREM NeverHangs == Spec => []OneThingDue
<1>1. OfflineInv => OneThingDue
  <2> SUFFICES ASSUME OfflineInv PROVE OneThingDue
    OBVIOUS
  <2> DEFINE D == Cardinality(doing)
             F == Cardinality(flights)
  <2>1. \/ doing = {} /\ D = 0
        \/ doing # {} /\ D = 1
    BY OneOrNone DEF OfflineInv, StageInv
  <2>2. \/ flights = {} /\ F = 0
        \/ flights # {} /\ F = 1
    BY OneOrNone DEF OfflineInv, StageInv
  <2>3. doing # {} => flights = {}
    BY DEF OfflineInv, StageInv
  <2>4. ASSUME doing = {}, flights = {}, ~MatchOver PROVE PersonDue
    <3>1. game.turn = Person /\ ~game.over /\ drawFlights = <<>>
      BY <2>4 DEF OfflineInv, StageInv
    <3>2. game.hand[Person] # {}
      BY <2>4, <3>1, TurnHasCards DEF Person, Nobody
    <3> QED
      BY <3>1, <3>2, SomethingLegal DEF PersonDue
  <2> HIDE DEF D, F
  <2>5. D + F = 1 \/ (D + F = 0 /\ (MatchOver \/ PersonDue))
    BY <2>1, <2>2, <2>3, <2>4
  <2> QED
    BY <2>5 DEF OneThingDue, D, F
<1> QED
  BY <1>1, OfflineInvariant, PTL
-----------------------------------------------------------------------------
(* What the cards are worth *)

LEMMA OneToThree == IsFiniteSet(1..3)
<1>1. 1 \in Int /\ 3 \in Int
  OBVIOUS
<1> QED
  BY <1>1, FS_Interval, Zenon

\* A card is worth one more pair of itself and a number for each of its thirds.
LEMMA WorthOfOneMore ==
  ASSUME NEW S \in SUBSET Deck, NEW c \in Deck \ S
  PROVE  ThirdsIn(S \cup {c}) = ThirdsIn(S) + Thirds(c) /\ ThirdsIn(S) \in Nat
<1> DEFINE P(cards) == {x \in cards \X (1..3) : x[2] <= Thirds(x[1])}
           Q(k) == P(S) \cup {<<c, j>> : j \in 1..k}
<1>1. ThirdsIn(S) = Cardinality(P(S)) /\ ThirdsIn(S \cup {c}) = Cardinality(P(S \cup {c}))
  BY DEF ThirdsIn
<1>2. Thirds(c) \in 0..3
  BY CardFigures
<1>3. Q(0) = P(S)
  OBVIOUS
<1>4. Q(Thirds(c)) = P(S \cup {c})
  BY <1>2
<1>5. \A k \in 0..2 : Q(k + 1) = Q(k) \cup {<<c, k + 1>>} /\ <<c, k + 1>> \notin Q(k)
  OBVIOUS
<1>6. IsFiniteSet(Q(0))
  <2>1. IsFiniteSet(S)
    BY SomeCards
  <2>2. IsFiniteSet(1..3)
    BY OneToThree
  <2>3. IsFiniteSet(S \X (1..3))
    BY <2>1, <2>2, FS_Product
  <2>4. P(S) \subseteq S \X (1..3)
    OBVIOUS
  <2> QED
    BY <1>3, <2>3, <2>4, FS_Subset
<1> HIDE DEF P, Q
<1>7. ASSUME NEW k \in 0..2, IsFiniteSet(Q(k))
      PROVE  IsFiniteSet(Q(k + 1)) /\ Cardinality(Q(k + 1)) = Cardinality(Q(k)) + 1
  <2> DEFINE x == <<c, k + 1>>
  <2>1. Q(k + 1) = Q(k) \cup {x} /\ x \notin Q(k)
    BY <1>5
  <2> HIDE DEF x
  <2> QED
    BY <1>7, <2>1, FS_AddElement
<1>8. IsFiniteSet(Q(1)) /\ Cardinality(Q(1)) = Cardinality(Q(0)) + 1
  BY <1>6, <1>7
<1>9. IsFiniteSet(Q(2)) /\ Cardinality(Q(2)) = Cardinality(Q(1)) + 1
  BY <1>8, <1>7
<1>10. IsFiniteSet(Q(3)) /\ Cardinality(Q(3)) = Cardinality(Q(2)) + 1
  BY <1>9, <1>7
<1>11. Cardinality(Q(0)) \in Nat
  BY <1>6, FS_CardinalityType
<1>12. Cardinality(Q(Thirds(c))) = Cardinality(Q(0)) + Thirds(c)
  BY <1>2, <1>8, <1>9, <1>10, <1>11
<1> QED
  BY <1>1, <1>3, <1>4, <1>11, <1>12

LEMMA SomeWorth == ThirdsIn({}) = 0 /\ \A S \in SUBSET Deck : ThirdsIn(S) \in Nat
<1>1. {x \in {} \X (1..3) : x[2] <= Thirds(x[1])} = {}
  OBVIOUS
<1>2. ThirdsIn({}) = 0
  BY <1>1, FS_EmptySet DEF ThirdsIn
<1>3. ASSUME NEW S \in SUBSET Deck PROVE ThirdsIn(S) \in Nat
  <2>1. IsFiniteSet(S) /\ IsFiniteSet(1..3)
    BY SomeCards, OneToThree
  <2>2. IsFiniteSet(S \X (1..3))
    BY <2>1, FS_Product
  <2>3. {x \in S \X (1..3) : x[2] <= Thirds(x[1])} \subseteq S \X (1..3)
    OBVIOUS
  <2> QED
    BY <2>2, <2>3, FS_Subset, FS_CardinalityType DEF ThirdsIn
<1> QED
  BY <1>2, <1>3

\* The cards left before a trick is taken are those left after it and those of the trick.
LEMMA TrickWasHeld ==
  ASSUME OfflineInv, Len(game.trick) = game.players, flights = {}, drawFlights = <<>>,
         NEW L, L = ToSet(game.deck) \cup UNION {game.hand[p] : p \in Players}
  PROVE  /\ L \in SUBSET Deck
         /\ L = {} <=> RoundPlayed(game)
         /\ CardsLeft = L \cup {game.trick[i].card : i \in 1..game.players}
         /\ \A i \in 1..game.players : game.trick[i].card \in Deck \ L
         /\ \A i, j \in 1..game.players : i # j => game.trick[i].card # game.trick[j].card
<1> DEFINE n == game.players
           card(i) == game.trick[i].card
           owner(i) == game.trick[i].owner
<1>1. /\ Players \subseteq 0..3 /\ n \in Nat
      /\ n = 2 \/ n = 4
      /\ \A i \in 1..n : /\ card(i) \in Deck /\ owner(i) \in Players
                         /\ game.trick[i] \in ToSet(game.trick) /\ game.trick[i] \in Out
  BY PlayersAre, CardsInTrick, TrickIs DEF OfflineInv
<1>2. L \in SUBSET Deck
  BY <1>1, DeckSeq, GameIs DEF OfflineInv
<1>3. L = {} <=> RoundPlayed(game)
  <2>1. ToSet(game.deck) = {} <=> game.deck = <<>>
    <3>1. game.deck # <<>> => 1 \in 1..Len(game.deck)
      BY DeckSeq DEF OfflineInv
    <3>2. game.deck # <<>> => game.deck[1] \in ToSet(game.deck)
      BY <3>1, DeckSeq DEF OfflineInv
    <3>3. ToSet(<<>>) = {}
      BY DEF ToSet
    <3> QED
      BY <3>2, <3>3
  <2>2. DOMAIN game.hand = 0..3 /\ \A p \in (0..3) \ Players : game.hand[p] = {}
    BY GameIs DEF OfflineInv, HandsInv
  <2>3. AllHandsEmpty(game) <=> \A p \in Players : game.hand[p] = {}
    BY <1>1, <2>2 DEF AllHandsEmpty
  <2>4. UNION {game.hand[p] : p \in Players} = {} <=> \A p \in Players : game.hand[p] = {}
    OBVIOUS
  <2> QED
    BY <2>1, <2>3, <2>4 DEF RoundPlayed
<1>4. Out = {game.trick[i] : i \in 1..n}
  BY TrickIs, EmptySeq DEF OfflineInv, Out, ToSet
<1>5. CardsLeft = L \cup {card(i) : i \in 1..n}
  <2>1. {t.card : t \in Out} = {card(i) : i \in 1..n}
    BY <1>4
  <2> QED
    BY <2>1, LeftIs DEF OfflineInv
<1>6. \A i \in 1..n : card(i) \in HeldBy(owner(i)) /\ card(i) \notin game.hand[owner(i)]
  BY <1>1 DEF OfflineInv, HeldBy, TrickInv
<1>7. \A p \in Players : game.hand[p] \subseteq HeldBy(p)
  BY DEF HeldBy
<1>8. \A i \in 1..n : owner(i) = (owner(1) + i - 1) % n /\ owner(1) \in 0..3
  <2>1. 1 \in 1..n /\ owner(1) \in Players
    BY <1>1
  <2>2. \A i \in 1..n : i \in DOMAIN game.trick
    BY TrickIs DEF OfflineInv
  <2> QED
    BY <1>1, <2>1, <2>2 DEF OfflineInv, TrickInv
<1> HIDE DEF n, card, owner
<1>9. ASSUME NEW i \in 1..n PROVE card(i) \notin L
  <2>1. \A p \in Players : card(i) \notin game.hand[p]
    BY <1>1, <1>6, <1>7 DEF OfflineInv, HandsInv
  <2>2. card(i) \notin ToSet(game.deck)
    BY <1>1, <1>6 DEF OfflineInv, HandsInv
  <2> QED
    BY <2>1, <2>2
<1>10. ASSUME NEW i \in 1..n, NEW j \in 1..n, i # j PROVE card(i) # card(j)
  <2>1. owner(i) # owner(j)
    <3>1. CASE n = 2
      BY <1>8, <1>10, <3>1
    <3>2. CASE n = 4
      BY <1>8, <1>10, <3>2
    <3> QED
      BY <1>1, <3>1, <3>2
  <2>2. HeldBy(owner(i)) \cap HeldBy(owner(j)) = {}
    BY <1>1, <2>1 DEF OfflineInv, HandsInv
  <2> QED
    BY <1>6, <2>2
<1> QED
  BY <1>1, <1>2, <1>3, <1>5, <1>9, <1>10 DEF n, card

\* What is left is worth that much less when a trick is taken.
LEMMA TrickWasWorth ==
  ASSUME OfflineInv, Len(game.trick) = game.players, flights = {}, drawFlights = <<>>,
         NEW L, L = ToSet(game.deck) \cup UNION {game.hand[p] : p \in Players}
  PROVE  ThirdsIn(CardsLeft) = ThirdsIn(L) + TrickThirds(game) /\ CardsLeft # {}
<1> DEFINE n == game.players
           card(i) == game.trick[i].card
<1>1. /\ L \in SUBSET Deck
      /\ CardsLeft = L \cup {card(i) : i \in 1..n}
      /\ \A i \in 1..n : card(i) \in Deck \ L
      /\ \A i, j \in 1..n : i # j => card(i) # card(j)
  BY TrickWasHeld
<1>2. n = 2 \/ n = 4
  BY PlayersAre DEF OfflineInv
<1>3. \A i \in Nat : i \in DOMAIN game.trick <=> i \in 1..n
  BY TrickIs DEF OfflineInv
<1>4. TrickThirds(game) = (IF 1 \in 1..n THEN Thirds(card(1)) ELSE 0)
                        + (IF 2 \in 1..n THEN Thirds(card(2)) ELSE 0)
                        + (IF 3 \in 1..n THEN Thirds(card(3)) ELSE 0)
                        + (IF 4 \in 1..n THEN Thirds(card(4)) ELSE 0)
  BY <1>3 DEF TrickThirds
<1>5. \A i \in 1..n : Thirds(card(i)) \in Nat
  BY <1>1, CardFigures
<1> HIDE DEF n, card
<1>6. 1 \in 1..n /\ 2 \in 1..n
  BY <1>2
<1> DEFINE A == L \cup {card(1)}
           B == A \cup {card(2)}
<1>7. ThirdsIn(A) = ThirdsIn(L) + Thirds(card(1)) /\ ThirdsIn(L) \in Nat
  BY <1>1, <1>6, WorthOfOneMore
<1>8. A \in SUBSET Deck /\ card(2) \in Deck \ A
  BY <1>1, <1>6
<1> HIDE DEF A
<1>9. ThirdsIn(B) = ThirdsIn(A) + Thirds(card(2))
  BY <1>8, WorthOfOneMore
<1>10. CASE n = 2
  <2>1. CardsLeft = B
    BY <1>1, <1>10 DEF A
  <2>2. TrickThirds(game) = Thirds(card(1)) + Thirds(card(2))
    BY <1>4, <1>5, <1>6, <1>10
  <2>3. CardsLeft # {}
    BY <2>1
  <2> HIDE DEF B
  <2> QED
    BY <1>5, <1>6, <1>7, <1>9, <2>1, <2>2, <2>3
<1>11. CASE n = 4
  <2> DEFINE C == B \cup {card(3)}
  <2>1. CardsLeft = C \cup {card(4)}
    BY <1>1, <1>11 DEF A
  <2>2. B \in SUBSET Deck /\ card(3) \in Deck \ B /\ C \in SUBSET Deck /\ card(4) \in Deck \ C
    BY <1>1, <1>11 DEF A
  <2> HIDE DEF B
  <2>3. ThirdsIn(C) = ThirdsIn(B) + Thirds(card(3))
    BY <2>2, WorthOfOneMore
  <2> HIDE DEF C
  <2>4. ThirdsIn(C \cup {card(4)}) = ThirdsIn(C) + Thirds(card(4))
    BY <2>2, WorthOfOneMore
  <2>5. TrickThirds(game) = Thirds(card(1)) + Thirds(card(2)) + Thirds(card(3)) + Thirds(card(4))
    BY <1>4, <1>11
  <2>6. CardsLeft # {}
    BY <2>1
  <2>7. 3 \in 1..n /\ 4 \in 1..n
    BY <1>11
  <2> QED
    BY <1>5, <1>6, <1>7, <1>9, <2>1, <2>3, <2>4, <2>5, <2>6, <2>7
<1> QED
  BY <1>2, <1>10, <1>11
-----------------------------------------------------------------------------
(* The points of the rounds *)

\* The points add up, and nothing is left of a round that is over before the match is.
PointsInv ==
    /\ PointsAddUp
    /\ ~MatchOver /\ game.over => CardsLeft = {}

LEMMA PointsKept ==
  ASSUME PointsInv, Kept
  PROVE  PointsInv'
  BY DEF PointsInv, PointsAddUp, Kept, MatchOver

LEMMA PointsTaken ==
  ASSUME OfflineInv, PointsInv, TrickCollected
  PROVE  PointsInv'
<1> DEFINE w == TeamOf(WinnerOfTrick(game))
           L == ToSet(game.deck) \cup UNION {game.hand[p] : p \in Players}
           a == game.points[0]
           b == game.points[1]
           x == TrickThirds(game)
           y == IF RoundPlayed(game) THEN 1 ELSE 0
           goal == round * (ThirdsIn(Deck) + 1)
<1>1. /\ flights = {} /\ drawFlights = <<>> /\ Len(game.trick) = game.players
      /\ w \in Teams /\ TrickPoints(game) \in Nat
  <2>1. flights = {} /\ drawFlights = <<>> /\ Len(game.trick) = game.players
    BY DEF OfflineInv, StageInv, TrickCollected, Due
  <2>2. WinnerOfTrick(game) \in {0, 1, 2, 3}
    BY <2>1, WinnerPlays, PlayersAre DEF OfflineInv
  <2> QED
    BY <2>1, <2>2, TrickWorth DEF OfflineInv, TeamOf, Teams
<1>2. /\ game'.points = [game.points EXCEPT ![w] = @ + TrickPoints(game)]
      /\ CardsLeft' = L /\ round' = round
      /\ ~MatchOver' /\ game'.over => RoundPlayed(game)
  BY Collected DEF TrickTaken
<1>3. L \in SUBSET Deck /\ (L = {} <=> RoundPlayed(game))
  BY <1>1, TrickWasHeld
<1>4. ThirdsIn(CardsLeft) = ThirdsIn(L) + x /\ CardsLeft # {}
  BY <1>1, TrickWasWorth
<1>5. ThirdsIn(L) \in Nat /\ x \in Nat /\ TrickPoints(game) = x + y
  <2>1. ThirdsIn(L) \in Nat
    BY <1>3, SomeWorth
  <2>2. x \in Nat
    BY TrickWorth DEF OfflineInv
  <2> QED
    BY <2>1, <2>2 DEF TrickPoints
<1>6. a \in Nat /\ b \in Nat
  BY GameIs DEF OfflineInv, Teams
<1>7. game'.points[0] + game'.points[1] = a + b + TrickPoints(game)
  BY <1>1, <1>2, <1>6, GameIs DEF OfflineInv, Teams
<1>8. a + b + ThirdsIn(CardsLeft) + 1 = goal
  BY <1>4 DEF PointsInv, PointsAddUp
<1>9. game'.points[0] + game'.points[1] + ThirdsIn(L) + (IF L = {} THEN 0 ELSE 1) = goal
  <2> HIDE DEF L, x, a, b, goal
  <2> QED
    BY <1>3, <1>4, <1>5, <1>6, <1>7, <1>8
<1> HIDE DEF L
<1> QED
  BY <1>2, <1>3, <1>9 DEF PointsInv, PointsAddUp

\* A new deal has all the cards, so it is worth a round.
LEMMA PointsDealt ==
  JustDealt /\ game.points[0] + game.points[1] + ThirdsIn(Deck) + 1 = round * (ThirdsIn(Deck) + 1)
      => PointsInv
<1> SUFFICES ASSUME JustDealt,
                    game.points[0] + game.points[1] + ThirdsIn(Deck) + 1 = round * (ThirdsIn(Deck) + 1)
             PROVE  PointsInv
  OBVIOUS
<1>1. OfflineInv
  BY DealInv
<1>2. game.tricks = 0 /\ ~game.over /\ ~MatchOver
  BY DEF JustDealt, Dealt, MatchOver
<1>3. CardsLeft = Deck
  <2>1. CardsLeft \in SUBSET Deck
    BY <1>1, DeckSeq, HeldInDeck, PlayersAre DEF OfflineInv, CardsLeft
  <2>2. Cardinality(CardsLeft) = Len(game.deck) + game.players * Cardinality(HeldBy(Person))
    BY <1>1, LeftCount
  <2>3. Cardinality(HeldBy(Person)) + game.tricks = Cardinality(HeldBy(Person))
    BY <1>1, <1>2, HeldInDeck, SomeCards DEF OfflineInv, Person
  <2>4. Cardinality(CardsLeft) = Cardinality(Deck)
    BY <1>1, <2>2, <2>3 DEF OfflineInv, HandsInv
  <2> QED
    BY <2>1, <2>4, DeckIs, FS_Subset
<1>4. CardsLeft # {}
  BY <1>1, <1>2, PlayersAre DEF OfflineInv, HandsInv, CardsLeft
<1> QED
  BY <1>2, <1>3, <1>4 DEF PointsInv, PointsAddUp

LEMMA PointsDealtNext ==
  (JustDealt /\ game.points[0] + game.points[1] + ThirdsIn(Deck) + 1 = round * (ThirdsIn(Deck) + 1))'
      => PointsInv'
  BY PointsDealt, PTL

LEMMA OneRoundMore ==
  ASSUME NEW r \in Nat, NEW x \in Nat PROVE r * x + x = (r + 1) * x /\ x = 1 * x
  OBVIOUS

LEMMA PointsNext ==
  ASSUME OfflineInv, PointsInv, [Next]_vars
  PROVE  PointsInv'
<1>1. /\ NoPoints \in [Teams -> Nat] /\ \A t \in Teams : NoPoints[t] < Target
      /\ NoPoints[0] = 0 /\ NoPoints[1] = 0
  BY OfflineAssumption DEF NoPoints, Teams
<1>2. menu \in {"closed", "open", "picker"} /\ game.players \in Modes /\ round \in Nat \ {0}
  BY DEF OfflineInv, OfflineTypeOK
<1>3. ThirdsIn(Deck) \in Nat
  BY SomeWorth
<1>4. ASSUME NEW n \in Modes, NewDeal(n, NoPoints, 1), menu' \in {"closed", "open", "picker"}
      PROVE  PointsInv'
  <2>1. JustDealt' /\ game'.points = NoPoints /\ round' = 1
    BY <1>1, <1>4, DealsNext
  <2>2. game'.points[0] + game'.points[1] + ThirdsIn(Deck) + 1 = round' * (ThirdsIn(Deck) + 1)
    BY <1>1, <1>3, <2>1
  <2> QED
    BY <2>1, <2>2, PointsDealtNext
<1>5. CASE NewGame
  BY <1>2, <1>4, <1>5 DEF NewGame
<1>6. ASSUME NEW n \in Modes, PickMode(n) PROVE PointsInv'
  BY <1>4, <1>6 DEF PickMode
<1>7. CASE NextRound
  <2>1. /\ ~MatchOver /\ game.points \in [Teams -> Nat] /\ round + 1 \in Nat \ {0}
        /\ NewDeal(game.players, game.points, round + 1) /\ menu' = menu
    BY <1>2, <1>7, GameIs DEF NextRound, Due, OfflineInv
  <2>2. \A t \in Teams : game.points[t] < Target
    BY <2>1, OfflineAssumption DEF OfflineInv, MatchDecided, ReachedBy
  <2>3. JustDealt' /\ game'.points = game.points /\ round' = round + 1
    BY <1>2, <2>1, <2>2, DealsNext
  <2>4. CardsLeft = {}
    BY <1>7 DEF NextRound, Due, OfflineInv, StageInv, PointsInv
  <2>5. game.points[0] + game.points[1] = round * (ThirdsIn(Deck) + 1)
    BY <2>1, <2>4, SomeWorth DEF PointsInv, PointsAddUp, Teams
  <2>6. round * (ThirdsIn(Deck) + 1) + (ThirdsIn(Deck) + 1) = (round + 1) * (ThirdsIn(Deck) + 1)
    BY <1>2, <1>3, OneRoundMore
  <2>7. game.points[0] \in Nat /\ game.points[1] \in Nat
    BY <2>1 DEF Teams
  <2> DEFINE sofar == round * (ThirdsIn(Deck) + 1)
  <2>8. game'.points[0] + game'.points[1] + ThirdsIn(Deck) + 1 = round' * (ThirdsIn(Deck) + 1)
    <3>1. round' * (ThirdsIn(Deck) + 1) = sofar + (ThirdsIn(Deck) + 1)
      BY <2>3, <2>6
    <3>2. game'.points[0] + game'.points[1] = sofar
      BY <2>3, <2>5
    <3>3. sofar \in Nat
      BY <2>5, <2>7
    <3> HIDE DEF sofar
    <3> QED
      BY <1>3, <3>1, <3>2, <3>3
  <2> QED
    BY <2>3, <2>8, PointsDealtNext
<1>8. CASE OpenMenu \/ OpenPicker \/ CloseMenu
  BY <1>8, Unchanged, PointsKept DEF OpenMenu, OpenPicker, CloseMenu
<1>9. ASSUME NEW c \in Deck, TapCard(c) PROVE PointsInv'
  BY <1>9, PersonPlays, PointsKept
<1>10. CASE TrickCollected
  BY <1>10, PointsTaken
<1>11. CASE UpdateApp
  BY <1>7, <1>10, <1>11, StageEnds, Draw, Land, BotPlays, PointsKept DEF UpdateApp
<1>12. CASE UNCHANGED vars
  BY <1>2, <1>12, Unchanged, PointsKept DEF vars
<1> QED
  BY <1>5, <1>6, <1>8, <1>9, <1>11, <1>12 DEF Next

LEMMA PointsStart == Init => PointsInv
<1> SUFFICES ASSUME Init PROVE PointsInv
  OBVIOUS
<1>1. NoPoints \in [Teams -> Nat] /\ \A t \in Teams : NoPoints[t] < Target
  BY OfflineAssumption DEF NoPoints
<1>2. 2 \in Modes /\ 0 \in 0..(2 - 1)
  BY DEF Modes
<1>3. JustDealt
  BY <1>1, <1>2 DEF Init, JustDealt
<1>4. game.points[0] = 0 /\ game.points[1] = 0 /\ round = 1
  BY DEF Init, Dealt, NoPoints, Teams
<1>5. game.points[0] + game.points[1] + ThirdsIn(Deck) + 1 = round * (ThirdsIn(Deck) + 1)
  BY <1>4, SomeWorth
<1> QED
  BY <1>3, <1>5, PointsDealt

\* What the teams have and what is still to be won are worth as many rounds as were begun, for any
\* deck: no trick is counted twice or lost, and each round has one last trick.
THEOREM PointsAlwaysAddUp == Spec => []PointsAddUp
<1>1. PointsInv => PointsAddUp
  BY DEF PointsInv
<1>2. Spec => []PointsInv
  <2>1. OfflineInv /\ PointsInv /\ [Next]_vars => PointsInv'
    BY PointsNext
  <2> QED
    BY <2>1, PointsStart, OfflineInvariant, PTL DEF Spec
<1> QED
  BY <1>1, <1>2, PTL

============================================================================
