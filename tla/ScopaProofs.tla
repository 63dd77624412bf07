---------------------------- MODULE ScopaProofs ----------------------------
(***************************************************************************)
(* Whatever the deck, the hands and the target: each card is in one place, *)
(* the phase agrees with the hands and the menu, a round that is over has  *)
(* been settled, and what a play captures is what the rules allow.         *)
(*                                                                         *)
(* ScopaInv adds what keeps these true: the deck holds full hands, and who *)
(* is on turn has as many cards as the other or one more, so that both     *)
(* hands end together; the captures on offer are those of the card tapped. *)
(***************************************************************************)
EXTENDS Scopa, FiniteSetTheorems, SequenceTheorems, WellFoundedInduction, TLAPS

\* The fields of a GameState.
GameType == [deck : Seq(Deck), table : Seq(Deck), hand : [Players -> Seq(Deck)],
             pile : [Players -> SUBSET Deck], scope : [Players -> Nat],
             score : [Players -> Nat], phase : Phases, turn : Players,
             lastCapturer : Players \cup {Nobody}, round : 1..MaxRounds,
             selected : 0..HandCards, captures : SUBSET SUBSET Nat,
             winner : Players \cup {Nobody}]

\* The six places a card can be at share no card and have them all.
Partition(deck, table, hand0, hand1, pile0, pile1) ==
    /\ deck \cap table = {} /\ deck \cap hand0 = {} /\ deck \cap hand1 = {}
    /\ deck \cap pile0 = {} /\ deck \cap pile1 = {}
    /\ table \cap hand0 = {} /\ table \cap hand1 = {}
    /\ table \cap pile0 = {} /\ table \cap pile1 = {}
    /\ hand0 \cap hand1 = {} /\ hand0 \cap pile0 = {} /\ hand0 \cap pile1 = {}
    /\ hand1 \cap pile0 = {} /\ hand1 \cap pile1 = {}
    /\ pile0 \cap pile1 = {}
    /\ deck \cup table \cup hand0 \cup hand1 \cup pile0 \cup pile1 = Deck

\* Each card is once in the game.
Apart(g) ==
    /\ IsInjective(g.deck) /\ IsInjective(g.table)
    /\ IsInjective(g.hand[0]) /\ IsInjective(g.hand[1])
    /\ Partition(ToSet(g.deck), ToSet(g.table), ToSet(g.hand[0]), ToSet(g.hand[1]),
                 g.pile[0], g.pile[1])

InPlay == {"PlayerTurn", "PlayerChooseCapture", "BotTurn"}

\* The deck is enough for full hands, no hand is larger, and who has captured is known.
Stocked(g) ==
    /\ \E n \in Nat : Len(g.deck) = 2 * HandCards * n
    /\ Len(g.hand[0]) <= HandCards /\ Len(g.hand[1]) <= HandCards
    /\ g.lastCapturer = Nobody => g.pile[0] = {} /\ g.pile[1] = {}

\* Who is on turn has as many cards as the other, or one more.
Even(g) ==
    Len(g.hand[g.turn]) = Len(g.hand[1 - g.turn]) + (IF g.turn = Starter(g) THEN 0 ELSE 1)

\* What the phase says of the rest.
Phased(g) ==
    /\ g.phase \in InPlay => Len(g.hand[g.turn]) > 0 /\ Even(g)
    /\ g.phase \in {"PlayerTurn", "PlayerChooseCapture"} => g.turn = 0
    /\ g.phase = "BotTurn" => g.turn = 1
    /\ g.phase = "PlayerChooseCapture" =>
          /\ g.selected \in 1..Len(g.hand[0])
          /\ g.captures = CaptureOptions(g.hand[0][g.selected], g.table)
    /\ g.captures \subseteq SUBSET (1..Len(g.table))
    /\ g.phase = "InitRound" => g.hand[0] = <<>> /\ g.hand[1] = <<>> /\ g.deck # <<>>
    /\ g.phase \in Over =>
          /\ g.deck = <<>> /\ g.hand[0] = <<>> /\ g.hand[1] = <<>>
          /\ g.table = <<>> \/ (g.pile[0] = {} /\ g.pile[1] = {})

GameInv(g) == g \in GameType /\ Apart(g) /\ Stocked(g) /\ Phased(g)

ScopaInv ==
    /\ GameInv(game)
    /\ {dealing, flights, pause, pending, botDelay, drawn} \subseteq Nat
    /\ menuOpen \in BOOLEAN
    /\ pending > 0 <=> game.phase = "InitRound"
    /\ menuOpen => OnTurn

-----------------------------------------------------------------------------
(* Sequences of cards *)

LEMMA LeastNumber == ASSUME NEW S \in SUBSET Nat, S # {} PROVE \E x \in S : \A y \in S : x <= y
<1>1. IsWellFoundedOn(OpToRel(<, Nat), Nat)
  BY NatLessThanWellFounded
<1>2. PICK x \in S : \A y \in S : ~ (<<y, x>> \in OpToRel(<, Nat))
  BY <1>1, WFMin
<1>3. \A y \in S : ~ (y < x)
  BY <1>2 DEF OpToRel
<1> QED
  BY <1>3

\* A sequence of cards by its places.
LEMMA Places ==
  ASSUME NEW s \in Seq(Deck)
  PROVE  /\ Len(s) \in Nat /\ DOMAIN s = 1..Len(s)
         /\ \A i \in 1..Len(s) : s[i] \in Deck
         /\ ToSet(s) = {s[i] : i \in 1..Len(s)} /\ ToSet(s) \subseteq Deck
         /\ s = <<>> <=> Len(s) = 0
         /\ s = <<>> <=> ToSet(s) = {}
<1>1. Len(s) \in Nat /\ DOMAIN s = 1..Len(s)
  BY LenProperties
<1>2. \A i \in 1..Len(s) : s[i] \in Deck
  BY ElementOfSeq
<1>3. ToSet(s) = {s[i] : i \in 1..Len(s)}
  BY <1>1 DEF ToSet
<1>4. s = <<>> <=> Len(s) = 0
  BY <1>1, EmptySeq
<1>5. s = <<>> <=> ToSet(s) = {}
  <2>1. CASE Len(s) = 0
    BY <1>1, <1>3, <1>4, <2>1
  <2>2. CASE Len(s) > 0
    BY <1>1, <1>3, <1>4, <2>2
  <2> QED
    BY <1>1, <2>1, <2>2
<1> QED
  BY <1>1, <1>2, <1>3, <1>4, <1>5

LEMMA EmptyHand == <<>> \in Seq(Deck) /\ Len(<<>>) = 0 /\ ToSet(<<>>) = {} /\ IsInjective(<<>>)
<1>1. <<>> \in Seq(Deck)
  BY EmptySeq
<1>2. Len(<<>>) = 0 /\ DOMAIN <<>> = 1..0
  BY <1>1, EmptySeq, LenProperties
<1> QED
  BY <1>1, <1>2, Places DEF IsInjective

\* A deck cut in two.
LEMMA Cut ==
  ASSUME NEW s \in Seq(Deck), NEW n \in 0..Len(s)
  PROVE  /\ First(n, s) \in Seq(Deck) /\ Len(First(n, s)) = n
         /\ DropFirst(n, s) \in Seq(Deck) /\ Len(DropFirst(n, s)) = Len(s) - n
         /\ \A i \in 1..(Len(s) - n) : DropFirst(n, s)[i] = s[n + i]
         /\ ToSet(s) = ToSet(First(n, s)) \cup ToSet(DropFirst(n, s))
         /\ IsInjective(s) =>
               /\ IsInjective(First(n, s)) /\ IsInjective(DropFirst(n, s))
               /\ ToSet(First(n, s)) \cap ToSet(DropFirst(n, s)) = {}
<1> DEFINE a == First(n, s)
           b == DropFirst(n, s)
<1>1. Len(s) \in Nat /\ n \in Nat /\ n <= Len(s)
  BY Places
<1>2. \A i \in 1..Len(s) : s[i] \in Deck
  BY Places
<1>3. a \in Seq(Deck) /\ Len(a) = n /\ \A i \in 1..n : a[i] = s[i]
  <2>1. \A i \in 1..n : s[i] \in Deck
    BY <1>1, <1>2
  <2>2. /\ SubSeq(s, 1, n) \in Seq(Deck) /\ Len(SubSeq(s, 1, n)) = (IF 1 <= n THEN n - 1 + 1 ELSE 0)
        /\ \A i \in 1..(n - 1 + 1) : SubSeq(s, 1, n)[i] = s[1 + i - 1]
    BY <1>1, <2>1, SubSeqProperties
  <2> QED
    BY <1>1, <2>2 DEF First
<1>4. b \in Seq(Deck) /\ Len(b) = Len(s) - n /\ \A i \in 1..(Len(s) - n) : b[i] = s[n + i]
  <2>1. \A i \in (n + 1)..Len(s) : s[i] \in Deck
    BY <1>1, <1>2
  <2>2. /\ SubSeq(s, n + 1, Len(s)) \in Seq(Deck)
        /\ Len(SubSeq(s, n + 1, Len(s))) = (IF n + 1 <= Len(s) THEN Len(s) - (n + 1) + 1 ELSE 0)
        /\ \A i \in 1..(Len(s) - (n + 1) + 1) : SubSeq(s, n + 1, Len(s))[i] = s[n + 1 + i - 1]
    BY <1>1, <2>1, SubSeqProperties
  <2> QED
    BY <1>1, <2>2 DEF DropFirst
<1> HIDE DEF a, b
<1>5. /\ ToSet(s) = {s[i] : i \in 1..Len(s)} /\ ToSet(a) = {a[i] : i \in 1..n}
      /\ ToSet(b) = {b[i] : i \in 1..(Len(s) - n)}
      /\ DOMAIN s = 1..Len(s) /\ DOMAIN a = 1..n /\ DOMAIN b = 1..(Len(s) - n)
  BY <1>3, <1>4, Places
<1>6. ToSet(s) = ToSet(a) \cup ToSet(b)
  <2>1. \A i \in 1..Len(s) : s[i] \in ToSet(a) \cup ToSet(b)
    <3> SUFFICES ASSUME NEW i \in 1..Len(s) PROVE s[i] \in ToSet(a) \cup ToSet(b)
      OBVIOUS
    <3>1. CASE i <= n
      BY <1>1, <1>3, <1>5, <3>1
    <3>2. CASE i > n
      <4>1. i - n \in 1..(Len(s) - n) /\ n + (i - n) = i
        BY <1>1, <3>2
      <4> QED
        BY <1>4, <1>5, <4>1
    <3> QED
      BY <1>1, <3>1, <3>2
  <2>2. ToSet(a) \subseteq ToSet(s)
    BY <1>1, <1>3, <1>5
  <2>3. ToSet(b) \subseteq ToSet(s)
    <3>1. \A i \in 1..(Len(s) - n) : n + i \in 1..Len(s)
      BY <1>1
    <3> QED
      BY <1>4, <1>5, <3>1
  <2> QED
    BY <1>5, <2>1, <2>2, <2>3
<1>7. ASSUME IsInjective(s)
      PROVE  IsInjective(a) /\ IsInjective(b) /\ ToSet(a) \cap ToSet(b) = {}
  <2>1. \A i, j \in 1..Len(s) : s[i] = s[j] => i = j
    BY <1>5, <1>7 DEF IsInjective
  <2>2. IsInjective(a)
    BY <1>1, <1>3, <1>5, <2>1 DEF IsInjective
  <2>3. IsInjective(b)
    <3>1. \A i, j \in 1..(Len(s) - n) : b[i] = b[j] => n + i = n + j
      BY <1>1, <1>4, <2>1
    <3> QED
      BY <1>1, <1>5, <3>1 DEF IsInjective
  <2>4. \A i \in 1..n, j \in 1..(Len(s) - n) : a[i] # b[j]
    BY <1>1, <1>3, <1>4, <2>1
  <2> QED
    BY <1>5, <2>2, <2>3, <2>4
<1> QED
  BY <1>3, <1>4, <1>6, <1>7 DEF a, b

LEMMA CutTwice ==
  ASSUME NEW s \in Seq(Deck), NEW m \in Nat, NEW n \in Nat, m + n <= Len(s)
  PROVE  DropFirst(n, DropFirst(m, s)) = DropFirst(m + n, s) /\ DropFirst(0, s) = s
<1>0. Len(s) \in Nat
  BY Places
<1>1. /\ DropFirst(m, s) \in Seq(Deck) /\ Len(DropFirst(m, s)) = Len(s) - m
      /\ \A i \in 1..(Len(s) - m) : DropFirst(m, s)[i] = s[m + i]
  <2>1. m \in 0..Len(s)
    BY <1>0
  <2> QED
    BY <2>1, Cut
<1>2. /\ DropFirst(m + n, s) \in Seq(Deck) /\ Len(DropFirst(m + n, s)) = Len(s) - (m + n)
      /\ \A i \in 1..(Len(s) - (m + n)) : DropFirst(m + n, s)[i] = s[m + n + i]
  <2>1. m + n \in 0..Len(s)
    BY <1>0
  <2> QED
    BY <2>1, Cut
<1>3. /\ DropFirst(0, s) \in Seq(Deck) /\ Len(DropFirst(0, s)) = Len(s)
      /\ \A i \in 1..Len(s) : DropFirst(0, s)[i] = s[i]
  <2>1. 0 \in 0..Len(s) /\ Len(s) - 0 = Len(s) /\ \A i \in 1..Len(s) : 0 + i = i
    BY <1>0
  <2>2. /\ DropFirst(0, s) \in Seq(Deck) /\ Len(DropFirst(0, s)) = Len(s) - 0
        /\ \A i \in 1..(Len(s) - 0) : DropFirst(0, s)[i] = s[0 + i]
    BY <2>1, Cut
  <2> QED
    BY <2>1, <2>2
<1>4. DropFirst(0, s) = s
  BY <1>3, SeqEqual
<1> DEFINE a == DropFirst(m, s)
           b == DropFirst(m + n, s)
<1>5. DropFirst(n, a) = b
  <2> HIDE DEF a, b
  <2>1. a \in Seq(Deck) /\ Len(a) = Len(s) - m /\ n \in 0..Len(a)
    BY <1>0, <1>1 DEF a
  <2>2. /\ DropFirst(n, a) \in Seq(Deck) /\ Len(DropFirst(n, a)) = Len(a) - n
        /\ \A i \in 1..(Len(a) - n) : DropFirst(n, a)[i] = a[n + i]
    BY <2>1, Cut
  <2>3. Len(a) - n = Len(b) /\ b \in Seq(Deck) /\ Len(b) = Len(s) - (m + n)
    BY <1>0, <1>2, <2>1 DEF b
  <2>4. \A i \in 1..Len(b) : n + i \in 1..(Len(s) - m) /\ m + (n + i) = m + n + i
    BY <1>0, <2>3
  <2>5. \A i \in 1..Len(b) : a[n + i] = s[m + (n + i)]
    BY <1>1, <2>4 DEF a
  <2>6. \A i \in 1..Len(b) : b[i] = s[m + n + i]
    BY <1>2, <2>3 DEF b
  <2>7. \A i \in 1..Len(b) : DropFirst(n, a)[i] = b[i]
    BY <2>2, <2>3, <2>4, <2>5, <2>6
  <2> QED
    BY <2>2, <2>3, <2>7, SeqEqual
<1> QED
  BY <1>4, <1>5

\* A card taken out of a hand or off the table.
LEMMA Removed ==
  ASSUME NEW s \in Seq(Deck), NEW i \in 1..Len(s)
  PROVE  /\ RemoveAt(s, i) \in Seq(Deck) /\ Len(RemoveAt(s, i)) = Len(s) - 1
         /\ \A j \in 1..(Len(s) - 1) : RemoveAt(s, i)[j] = IF j < i THEN s[j] ELSE s[j + 1]
         /\ ToSet(RemoveAt(s, i)) \subseteq ToSet(s)
         /\ IsInjective(s) =>
               IsInjective(RemoveAt(s, i)) /\ ToSet(RemoveAt(s, i)) = ToSet(s) \ {s[i]}
<1> DEFINE a == SubSeq(s, 1, i - 1)
           b == SubSeq(s, i + 1, Len(s))
           r == RemoveAt(s, i)
<1>1. Len(s) \in Nat /\ i \in Nat /\ i >= 1 /\ i <= Len(s)
  BY Places
<1>2. \A j \in 1..Len(s) : s[j] \in Deck
  BY Places
<1>3. a \in Seq(Deck) /\ Len(a) = i - 1 /\ \A j \in 1..(i - 1) : a[j] = s[j]
  <2>1. \A j \in 1..(i - 1) : s[j] \in Deck
    BY <1>1, <1>2
  <2>2. /\ a \in Seq(Deck) /\ Len(a) = (IF 1 <= i - 1 THEN i - 1 - 1 + 1 ELSE 0)
        /\ \A j \in 1..(i - 1 - 1 + 1) : a[j] = s[1 + j - 1]
    BY <1>1, <2>1, SubSeqProperties
  <2> QED
    BY <1>1, <2>2
<1>4. b \in Seq(Deck) /\ Len(b) = Len(s) - i /\ \A j \in 1..(Len(s) - i) : b[j] = s[i + j]
  <2>1. \A j \in (i + 1)..Len(s) : s[j] \in Deck
    BY <1>1, <1>2
  <2>2. /\ b \in Seq(Deck) /\ Len(b) = (IF i + 1 <= Len(s) THEN Len(s) - (i + 1) + 1 ELSE 0)
        /\ \A j \in 1..(Len(s) - (i + 1) + 1) : b[j] = s[i + 1 + j - 1]
    BY <1>1, <2>1, SubSeqProperties
  <2> QED
    BY <1>1, <2>2
<1>5. r = a \o b
  BY DEF RemoveAt
<1> HIDE DEF a, b, r
<1>6. /\ r \in Seq(Deck) /\ Len(r) = Len(s) - 1
      /\ \A j \in 1..(Len(s) - 1) : r[j] = IF j <= i - 1 THEN a[j] ELSE b[j - (i - 1)]
  <2>1. /\ r \in Seq(Deck) /\ Len(r) = Len(a) + Len(b)
        /\ \A j \in 1..(Len(a) + Len(b)) : r[j] = IF j <= Len(a) THEN a[j] ELSE b[j - Len(a)]
    BY <1>3, <1>4, <1>5, ConcatProperties
  <2>2. Len(a) + Len(b) = Len(s) - 1
    BY <1>1, <1>3, <1>4
  <2> QED
    BY <1>3, <2>1, <2>2
<1>7. \A j \in 1..(Len(s) - 1) : r[j] = IF j < i THEN s[j] ELSE s[j + 1]
  <2> SUFFICES ASSUME NEW j \in 1..(Len(s) - 1) PROVE r[j] = IF j < i THEN s[j] ELSE s[j + 1]
    OBVIOUS
  <2>1. CASE j < i
    BY <1>1, <1>3, <1>6, <2>1
  <2>2. CASE j >= i
    <3>1. j - (i - 1) \in 1..(Len(s) - i) /\ i + (j - (i - 1)) = j + 1 /\ ~(j <= i - 1)
      BY <1>1, <2>2
    <3>2. r[j] = b[j - (i - 1)] /\ b[j - (i - 1)] = s[j + 1]
      BY <1>4, <1>6, <3>1
    <3> QED
      BY <1>1, <2>2, <3>2
  <2> QED
    BY <1>1, <2>1, <2>2
<1>8. /\ DOMAIN s = 1..Len(s) /\ DOMAIN r = 1..(Len(s) - 1)
      /\ ToSet(s) = {s[j] : j \in 1..Len(s)} /\ ToSet(r) = {r[j] : j \in 1..(Len(s) - 1)}
  BY <1>6, Places
<1>9. ToSet(r) \subseteq ToSet(s)
  <2>1. \A j \in 1..(Len(s) - 1) : j \in 1..Len(s) /\ j + 1 \in 1..Len(s)
    BY <1>1
  <2> QED
    BY <1>7, <1>8, <2>1
<1>10. ASSUME IsInjective(s)
       PROVE  IsInjective(r) /\ ToSet(r) = ToSet(s) \ {s[i]}
  <2>1. \A j, k \in 1..Len(s) : s[j] = s[k] => j = k
    BY <1>8, <1>10 DEF IsInjective
  <2>2. \A j, k \in 1..(Len(s) - 1) : r[j] = r[k] => j = k
    BY <1>1, <1>7, <2>1
  <2>3. \A j \in 1..(Len(s) - 1) : r[j] # s[i]
    BY <1>1, <1>7, <2>1
  <2>4. \A j \in 1..Len(s) : j # i => s[j] \in ToSet(r)
    <3> SUFFICES ASSUME NEW j \in 1..Len(s), j # i PROVE s[j] \in ToSet(r)
      OBVIOUS
    <3>1. CASE j < i
      <4>1. j \in 1..(Len(s) - 1)
        BY <1>1, <3>1
      <4>2. r[j] = s[j]
        BY <1>7, <3>1, <4>1
      <4> QED
        BY <1>8, <4>1, <4>2
    <3>2. CASE j > i
      <4>1. j - 1 \in 1..(Len(s) - 1) /\ ~(j - 1 < i) /\ (j - 1) + 1 = j
        BY <1>1, <3>2
      <4>2. r[j - 1] = s[j]
        BY <1>7, <4>1
      <4> QED
        BY <1>8, <4>1, <4>2
    <3> QED
      BY <1>1, <3>1, <3>2
  <2>5. IsInjective(r)
    BY <1>8, <2>2 DEF IsInjective
  <2>6. ToSet(s) \ {s[i]} \subseteq ToSet(r)
    BY <1>8, <2>4
  <2>7. ToSet(r) \subseteq ToSet(s) \ {s[i]}
    BY <1>8, <1>9, <2>3
  <2> QED
    BY <2>5, <2>6, <2>7
<1> QED
  BY <1>6, <1>7, <1>9, <1>10 DEF r

\* A card put on the table.
LEMMA Appended ==
  ASSUME NEW s \in Seq(Deck), NEW c \in Deck
  PROVE  /\ Append(s, c) \in Seq(Deck) /\ Len(Append(s, c)) = Len(s) + 1
         /\ ToSet(Append(s, c)) = ToSet(s) \cup {c}
         /\ IsInjective(s) /\ c \notin ToSet(s) => IsInjective(Append(s, c))
<1> DEFINE a == Append(s, c)
<1>1. /\ a \in Seq(Deck) /\ Len(a) = Len(s) + 1
      /\ \A i \in 1..Len(s) : a[i] = s[i]
      /\ a[Len(s) + 1] = c
  BY AppendProperties
<1> HIDE DEF a
<1>2. /\ Len(s) \in Nat /\ DOMAIN s = 1..Len(s) /\ DOMAIN a = 1..(Len(s) + 1)
      /\ ToSet(s) = {s[j] : j \in 1..Len(s)} /\ ToSet(a) = {a[j] : j \in 1..(Len(s) + 1)}
  BY <1>1, Places
<1>3. ToSet(a) = ToSet(s) \cup {c}
  <2>1. \A j \in 1..(Len(s) + 1) : j \in 1..Len(s) \/ j = Len(s) + 1
    BY <1>2
  <2>2. \A j \in 1..Len(s) : j \in 1..(Len(s) + 1)
    BY <1>2
  <2>3. Len(s) + 1 \in 1..(Len(s) + 1)
    BY <1>2
  <2> HIDE DEF a
  <2> QED
    BY <1>1, <1>2, <2>1, <2>2, <2>3
<1>4. ASSUME IsInjective(s), c \notin ToSet(s)
      PROVE  IsInjective(a)
  <2>1. \A j, k \in 1..Len(s) : s[j] = s[k] => j = k
    BY <1>2, <1>4 DEF IsInjective
  <2>2. \A j \in 1..Len(s) : s[j] # c
    BY <1>2, <1>4
  <2>3. \A j, k \in 1..(Len(s) + 1) : a[j] = a[k] => j = k
    BY <1>1, <1>2, <2>1, <2>2
  <2> QED
    BY <1>2, <2>3 DEF IsInjective
<1> QED
  BY <1>1, <1>3, <1>4 DEF a
-----------------------------------------------------------------------------
(* Captures *)

\* The recursion that erases the places of an option from the last to the first has a solution.
LEMMA ErasingDefined ==
  ASSUME NEW n \in Nat, NEW t, NEW option
  PROVE  \E f : f = [i \in 1..(n + 1) |->
                       IF i > n THEN t ELSE IF i \in option THEN RemoveAt(f[i + 1], i) ELSE f[i + 1]]
<1> DEFINE after(f, i) == IF i > n THEN t ELSE IF i \in option THEN RemoveAt(f[i + 1], i) ELSE f[i + 1]
           solved(k) == \E f : f = [i \in (n + 1 - k)..(n + 1) |-> after(f, i)]
           bad == {k \in 0..n : ~solved(k)}
<1>1. bad = {}
  <2> SUFFICES ASSUME bad # {} PROVE FALSE
    OBVIOUS
  <2>1. bad \in SUBSET Nat
    OBVIOUS
  <2>2. PICK k \in bad : \A j \in bad : k <= j
    BY <2>1, LeastNumber
  <2>3. CASE k = 0
    <3> DEFINE f == [i \in (n + 1 - k)..(n + 1) |-> t]
    <3>1. f = [i \in (n + 1 - k)..(n + 1) |-> after(f, i)]
      BY <2>3
    <3> QED
      BY <2>2, <3>1
  <2>4. CASE k > 0
    <3>1. solved(k - 1)
      <4> HIDE DEF solved
      <4>1. k - 1 \in 0..n /\ ~(k <= k - 1)
        BY <2>2, <2>4
      <4> QED
        BY <2>2, <4>1
    <3>2. PICK f : f = [i \in (n + 1 - (k - 1))..(n + 1) |-> after(f, i)]
      BY <3>1
    <3> DEFINE g == [i \in (n + 1 - k)..(n + 1) |-> IF i = n + 1 - k THEN after(f, i) ELSE f[i]]
    <3>3. \A i \in (n + 1 - k)..(n + 1) : i <= n => g[i + 1] = f[i + 1]
      <4>1. \A i \in (n + 1 - k)..(n + 1) :
               i <= n => i + 1 \in (n + 1 - k)..(n + 1) /\ i + 1 # n + 1 - k
        BY <2>2, <2>4
      <4> HIDE DEF after
      <4> QED
        BY <4>1
    <3>4. \A i \in (n + 1 - k)..(n + 1) : after(g, i) = after(f, i)
      BY <3>3
    <3>5. \A i \in (n + 1 - k)..(n + 1) : i # n + 1 - k => f[i] = after(f, i)
      <4>1. \A i \in (n + 1 - k)..(n + 1) : i # n + 1 - k => i \in (n + 1 - (k - 1))..(n + 1)
        BY <2>2, <2>4
      <4> HIDE DEF after
      <4> QED
        BY <3>2, <4>1
    <3>6. g = [i \in (n + 1 - k)..(n + 1) |-> after(g, i)]
      <4> HIDE DEF after
      <4> QED
        BY <3>4, <3>5
    <3>7. solved(k)
      <4> HIDE DEF g, after
      <4> QED
        BY <3>6
    <3> QED
      BY <2>2, <3>7
  <2> QED
    BY <2>2, <2>3, <2>4
<1>2. n \in 0..n /\ n + 1 - n = 1
  OBVIOUS
<1>3. solved(n)
  <2> HIDE DEF solved
  <2> QED
    BY <1>1, <1>2
<1> QED
  BY <1>2, <1>3

\* What is erased is what the option says, whatever the option is.
LEMMA ErasedCards ==
  ASSUME NEW t \in Seq(Deck), IsInjective(t), NEW option \in SUBSET (1..Len(t))
  PROVE  /\ Erased(t, option) \in Seq(Deck) /\ IsInjective(Erased(t, option))
         /\ ToSet(Erased(t, option)) = ToSet(t) \ CardsAt(t, option)
<1> DEFINE n == Len(t)
           left == CHOOSE f : f = [i \in 1..(n + 1) |->
                       IF i > n THEN t ELSE IF i \in option THEN RemoveAt(f[i + 1], i) ELSE f[i + 1]]
           gone(i) == {t[j] : j \in {j \in option : j >= i}}
           right(i) == /\ left[i] \in Seq(Deck) /\ IsInjective(left[i])
                       /\ Len(left[i]) >= i - 1
                       /\ \A j \in 1..(i - 1) : left[i][j] = t[j]
                       /\ ToSet(left[i]) = ToSet(t) \ gone(i)
           wrong == {k \in 0..n : ~right(n + 1 - k)}
<1>1. n \in Nat /\ DOMAIN t = 1..n
  BY Places
<1>2. left = [i \in 1..(n + 1) |->
                IF i > n THEN t ELSE IF i \in option THEN RemoveAt(left[i + 1], i) ELSE left[i + 1]]
  BY <1>1, ErasingDefined
<1>3. Erased(t, option) = left[1]
  BY DEF Erased
<1> HIDE DEF left
<1>4. /\ left[n + 1] = t
      /\ \A i \in 1..n : left[i] = IF i \in option THEN RemoveAt(left[i + 1], i) ELSE left[i + 1]
  <2>1. n + 1 \in 1..(n + 1) /\ n + 1 > n /\ \A i \in 1..n : i \in 1..(n + 1) /\ ~(i > n)
    BY <1>1
  <2> HIDE DEF n
  <2> QED
    BY <1>2, <2>1
<1>5. right(n + 1)
  <2>1. gone(n + 1) = {}
    BY <1>1
  <2>2. \A j \in 1..(n + 1 - 1) : left[n + 1][j] = t[j]
    BY <1>4
  <2>3. Len(left[n + 1]) >= n + 1 - 1
    BY <1>1, <1>4
  <2> QED
    BY <1>4, <2>1, <2>2, <2>3
<1>6. ASSUME NEW i \in 1..n, right(i + 1) PROVE right(i)
  <2> DEFINE l == left[i + 1]
  <2>0. i \in Nat /\ i >= 1 /\ (i + 1) - 1 = i
    BY <1>1
  <2>1. /\ l \in Seq(Deck) /\ IsInjective(l) /\ Len(l) >= i
        /\ \A j \in 1..i : l[j] = t[j]
        /\ ToSet(l) = ToSet(t) \ gone(i + 1)
    BY <1>6, <2>0
  <2>2. CASE i \notin option
    <3>1. gone(i) = gone(i + 1)
      <4>1. \A j \in option : j >= i <=> j >= i + 1
        BY <1>1, <2>2
      <4> QED
        BY <4>1
    <3>2. left[i] = l
      BY <1>4, <2>2
    <3>3. \A j \in 1..(i - 1) : left[i][j] = t[j]
      <4>1. \A j \in 1..(i - 1) : j \in 1..i
        BY <2>0
      <4> QED
        BY <2>1, <3>2, <4>1
    <3>4. Len(left[i]) >= i - 1
      <4>1. Len(l) \in Nat
        BY <2>1, LenProperties
      <4> QED
        BY <2>0, <2>1, <3>2, <4>1
    <3>5. left[i] \in Seq(Deck) /\ IsInjective(left[i])
      BY <2>1, <3>2
    <3>6. ToSet(left[i]) = ToSet(t) \ gone(i)
      BY <2>1, <3>1, <3>2
    <3> QED
      BY <3>3, <3>4, <3>5, <3>6
  <2>3. CASE i \in option
    <3>1. left[i] = RemoveAt(l, i)
      BY <1>4, <2>3
    <3>2. Len(l) \in Nat /\ i \in 1..Len(l)
      BY <2>0, <2>1, LenProperties
    <3>3. /\ left[i] \in Seq(Deck) /\ Len(left[i]) = Len(l) - 1 /\ IsInjective(left[i])
          /\ \A j \in 1..(Len(l) - 1) : left[i][j] = IF j < i THEN l[j] ELSE l[j + 1]
          /\ ToSet(left[i]) = ToSet(l) \ {l[i]}
      <4> HIDE DEF l
      <4>1. /\ RemoveAt(l, i) \in Seq(Deck) /\ Len(RemoveAt(l, i)) = Len(l) - 1
            /\ \A j \in 1..(Len(l) - 1) : RemoveAt(l, i)[j] = IF j < i THEN l[j] ELSE l[j + 1]
            /\ IsInjective(l) => IsInjective(RemoveAt(l, i)) /\ ToSet(RemoveAt(l, i)) = ToSet(l) \ {l[i]}
        BY <2>1, <3>2, Removed
      <4> QED
        BY <2>1, <3>1, <4>1
    <3>4. gone(i) = gone(i + 1) \cup {t[i]}
      <4>1. \A j \in option : j >= i <=> j >= i + 1 \/ j = i
        BY <1>1
      <4> QED
        BY <2>3, <4>1
    <3>5. l[i] = t[i]
      <4>1. i \in 1..i
        BY <2>0
      <4> QED
        BY <2>1, <4>1
    <3>6. \A j \in 1..(i - 1) : left[i][j] = t[j]
      <4>1. \A j \in 1..(i - 1) : j \in 1..(Len(l) - 1) /\ j < i /\ j \in 1..i
        BY <2>0, <3>2
      <4> HIDE DEF l
      <4> QED
        BY <2>1, <3>3, <4>1
    <3>7. Len(left[i]) >= i - 1
      BY <2>1, <3>2, <3>3
    <3>8. ToSet(left[i]) = ToSet(t) \ gone(i)
      <4> HIDE DEF l, gone
      <4> QED
        BY <2>1, <3>3, <3>4, <3>5
    <3> QED
      BY <3>3, <3>6, <3>7, <3>8
  <2> QED
    BY <2>2, <2>3
<1>7. wrong = {}
  <2> SUFFICES ASSUME wrong # {} PROVE FALSE
    OBVIOUS
  <2>1. wrong \in SUBSET Nat
    OBVIOUS
  <2>2. PICK k \in wrong : \A j \in wrong : k <= j
    BY <2>1, LeastNumber
  <2> HIDE DEF right
  <2>3. k # 0
    BY <1>1, <1>5, <2>2
  <2>4. k - 1 \in 0..n /\ k - 1 \notin wrong /\ n + 1 - k \in 1..n /\ n + 1 - (k - 1) = n + 1 - k + 1
    BY <1>1, <2>2, <2>3
  <2>5. right(n + 1 - k + 1)
    BY <2>4
  <2> QED
    BY <1>6, <2>2, <2>4, <2>5
<1>8. right(1)
  <2>1. n \in 0..n /\ n + 1 - n = 1
    BY <1>1
  <2> HIDE DEF right
  <2> QED
    BY <1>7, <2>1
<1>9. gone(1) = CardsAt(t, option)
  BY <1>1 DEF CardsAt
<1> QED
  BY <1>3, <1>8, <1>9

\* The recursion of the search through the table, and that it has a solution.
Search(found, n, c, t) ==
  found = [i \in 0..n |->
             IF i = 0 THEN {<<{}, Value(c)>>}
             ELSE found[i - 1] \cup {<<f[1] \cup {i}, f[2] - Value(t[i])>> :
                                        f \in {f \in found[i - 1] : f[2] >= Value(t[i])}}]

LEMMA SearchDefined == ASSUME NEW n \in Nat, NEW c, NEW t PROVE \E f : Search(f, n, c, t)
<1> DEFINE after(found, i) ==
             IF i = 0 THEN {<<{}, Value(c)>>}
             ELSE found[i - 1] \cup {<<f[1] \cup {i}, f[2] - Value(t[i])>> :
                                        f \in {f \in found[i - 1] : f[2] >= Value(t[i])}}
           solved(k) == \E f : f = [i \in 0..k |-> after(f, i)]
           bad == {k \in 0..n : ~solved(k)}
<1>1. bad = {}
  <2> SUFFICES ASSUME bad # {} PROVE FALSE
    OBVIOUS
  <2>1. bad \in SUBSET Nat
    OBVIOUS
  <2>2. PICK k \in bad : \A j \in bad : k <= j
    BY <2>1, LeastNumber
  <2>3. CASE k = 0
    <3> DEFINE f == [i \in 0..k |-> {<<{}, Value(c)>>}]
    <3>1. \A i \in 0..k : i = 0
      BY <2>3
    <3>2. f = [i \in 0..k |-> after(f, i)]
      BY <3>1
    <3>3. solved(k)
      BY <3>2
    <3> QED
      BY <2>2, <3>3
  <2>4. CASE k > 0
    <3>1. solved(k - 1)
      <4> HIDE DEF solved
      <4>1. k - 1 \in 0..n /\ ~(k <= k - 1)
        BY <2>2, <2>4
      <4> QED
        BY <2>2, <4>1
    <3>2. PICK f : f = [i \in 0..(k - 1) |-> after(f, i)]
      BY <3>1
    <3> DEFINE g == [i \in 0..k |-> IF i = k THEN after(f, k) ELSE f[i]]
    <3>3. \A i \in 0..k : i # 0 => g[i - 1] = f[i - 1]
      <4>1. \A i \in 0..k : i # 0 => i - 1 \in 0..k /\ i - 1 # k
        BY <2>2, <2>4
      <4> HIDE DEF after
      <4> QED
        BY <4>1
    <3>4. \A i \in 0..k : after(g, i) = after(f, i)
      BY <3>3
    <3>5. \A i \in 0..k : i # k => f[i] = after(f, i)
      <4>1. \A i \in 0..k : i # k => i \in 0..(k - 1)
        BY <2>2, <2>4
      <4> HIDE DEF after
      <4> QED
        BY <3>2, <4>1
    <3>6. g = [i \in 0..k |-> after(g, i)]
      <4> HIDE DEF after
      <4> QED
        BY <3>4, <3>5
    <3>7. solved(k)
      <4> HIDE DEF g, after
      <4> QED
        BY <3>6
    <3> QED
      BY <2>2, <3>7
  <2> QED
    BY <2>2, <2>3, <2>4
<1>2. solved(n)
  <2> HIDE DEF solved
  <2> QED
    BY <1>1
<1> HIDE DEF after
<1>3. PICK f : f = [i \in 0..n |-> after(f, i)]
  BY <1>2
<1>4. Search(f, n, c, t)
  BY <1>3 DEF Search, after
<1> QED
  BY <1>4

\* The options of a card are sets of places on the table.
LEMMA OptionsArePlaces ==
  ASSUME NEW c, NEW t \in Seq(Deck)
  PROVE  /\ Sums(c, t) \subseteq SUBSET (1..Len(t))
         /\ CaptureOptions(c, t) \subseteq SUBSET (1..Len(t))
<1> DEFINE n == Len(t)
           found[i \in 0..Len(t)] ==
             IF i = 0 THEN {<<{}, Value(c)>>}
             ELSE found[i - 1] \cup {<<f[1] \cup {i}, f[2] - Value(t[i])>> :
                                        f \in {f \in found[i - 1] : f[2] >= Value(t[i])}}
           wrong == {k \in 0..n : ~ (\A x \in found[k] : x[1] \subseteq 1..k)}
<1>1. n \in Nat /\ DOMAIN t = 1..n
  BY Places
<1>2. found = [i \in 0..n |->
                 IF i = 0 THEN {<<{}, Value(c)>>}
                 ELSE found[i - 1] \cup {<<f[1] \cup {i}, f[2] - Value(t[i])>> :
                                            f \in {f \in found[i - 1] : f[2] >= Value(t[i])}}]
  <2>1. \E f : Search(f, n, c, t)
    BY <1>1, SearchDefined
  <2>2. found = CHOOSE f : Search(f, n, c, t)
    BY DEF Search
  <2>3. Search(found, n, c, t)
    <3> HIDE DEF found
    <3> QED
      BY <2>1, <2>2
  <2> HIDE DEF found
  <2> QED
    BY <2>3 DEF Search
<1>3. Sums(c, t) = {f[1] : f \in {f \in found[n] : f[2] = 0}}
  BY Zenon DEF Sums
<1> HIDE DEF found
<1>4. wrong = {}
  <2> SUFFICES ASSUME wrong # {} PROVE FALSE
    OBVIOUS
  <2>1. wrong \in SUBSET Nat
    OBVIOUS
  <2>2. PICK k \in wrong : \A j \in wrong : k <= j
    BY <2>1, LeastNumber
  <2>3. CASE k = 0
    <3>1. found[k] = {<<{}, Value(c)>>}
      BY <1>2, <2>2, <2>3
    <3> QED
      BY <2>2, <3>1
  <2>4. CASE k > 0
    <3>1. k - 1 \in 0..n /\ k - 1 \notin wrong
      <4>1. k - 1 \in 0..n /\ ~(k <= k - 1)
        BY <2>2, <2>4
      <4> QED
        BY <2>2, <4>1
    <3>2. \A x \in found[k - 1] : x[1] \subseteq 1..(k - 1)
      BY <3>1
    <3>3. found[k] = found[k - 1] \cup {<<f[1] \cup {k}, f[2] - Value(t[k])>> :
                                           f \in {f \in found[k - 1] : f[2] >= Value(t[k])}}
      <4>1. k \in 0..n /\ k # 0
        BY <2>2, <2>4
      <4> HIDE DEF n, wrong
      <4> QED
        BY <1>2, <4>1
    <3>4. 1..(k - 1) \subseteq 1..k /\ k \in 1..k
      BY <2>2, <2>4
    <3>5. \A x \in found[k] : x[1] \subseteq 1..k
      BY <3>2, <3>3, <3>4
    <3> QED
      BY <2>2, <3>5
  <2> QED
    BY <2>2, <2>3, <2>4
<1>5. \A x \in found[n] : x[1] \subseteq 1..n
  <2>1. n \in 0..n
    BY <1>1
  <2> QED
    BY <1>4, <2>1
<1>6. Sums(c, t) \subseteq SUBSET (1..n)
  BY <1>3, <1>5
<1>7. Singles(c, t) \subseteq SUBSET (1..n)
  BY <1>1 DEF Singles
<1> QED
  BY <1>6, <1>7 DEF CaptureOptions

\* The deck is finite, and cards in different places add up.
LEMMA CardsOf ==
  /\ IsFiniteSet(Deck) /\ Deck \subseteq 0..39
  /\ \A s \in Seq(Deck) : IsInjective(s) => Cardinality(ToSet(s)) = Len(s)
  /\ \A S \in SUBSET Deck : IsFiniteSet(S) /\ Cardinality(S) \in Nat
  /\ \A S, T \in SUBSET Deck :
        S \cap T = {} => Cardinality(S \cup T) = Cardinality(S) + Cardinality(T)
<1>0. 0 \in Int /\ 39 \in Int
  OBVIOUS
<1>1. IsFiniteSet(0..39)
  BY <1>0, FS_Interval, Zenon
<1>2. Deck \subseteq 0..39
  <2>1. ASSUME NEW s \in Shuffles PROVE ToSet(s) \subseteq 0..39
    <3>1. s \in Seq(0..39)
      BY ScopaAssumption
    <3>2. DOMAIN s = 1..Len(s) /\ \A i \in 1..Len(s) : s[i] \in 0..39
      BY <3>1, LenProperties, ElementOfSeq
    <3> QED
      BY <3>2 DEF ToSet
  <2> QED
    BY <2>1 DEF Deck
<1>3. IsFiniteSet(Deck)
  BY <1>1, <1>2, FS_Subset, Zenon
<1>4. \A S \in SUBSET Deck : IsFiniteSet(S) /\ Cardinality(S) \in Nat
  BY <1>3, FS_Subset, FS_CardinalityType
<1>5. ASSUME NEW s \in Seq(Deck), IsInjective(s) PROVE Cardinality(ToSet(s)) = Len(s)
  <2>1. Len(s) \in Nat /\ DOMAIN s = 1..Len(s) /\ s \in [1..Len(s) -> ToSet(s)]
    BY LenProperties DEF ToSet
  <2>2. s \in Bijection(1..Len(s), ToSet(s))
    BY <1>5, <2>1 DEF Bijection, Injection, Surjection, ToSet, IsInjective
  <2>3. ExistsBijection(1..Len(s), ToSet(s))
    BY <2>2 DEF ExistsBijection
  <2> QED
    BY <2>1, <2>3, FS_CountingElements
<1>6. ASSUME NEW S \in SUBSET Deck, NEW T \in SUBSET Deck, S \cap T = {}
      PROVE  Cardinality(S \cup T) = Cardinality(S) + Cardinality(T)
  <2>1. IsFiniteSet(S) /\ IsFiniteSet(T) /\ Cardinality(S) \in Nat /\ Cardinality(T) \in Nat
    BY <1>4
  <2>2. Cardinality(S \cup T) = Cardinality(S) + Cardinality(T) - Cardinality(S \cap T)
    BY <2>1, FS_Union
  <2>3. Cardinality(S \cap T) = 0
    BY <1>6, FS_EmptySet, Zenon
  <2> QED
    BY <2>1, <2>2, <2>3
<1> QED
  BY <1>2, <1>3, <1>4, <1>5, <1>6

\* A smaller set of cards has fewer cards.
LEMMA FewerCards ==
  ASSUME NEW S \in SUBSET Deck, NEW T \in SUBSET S
  PROVE  /\ IsFiniteSet(T) /\ Cardinality(T) \in Nat /\ Cardinality(S) \in Nat
         /\ Cardinality(T) <= Cardinality(S)
         /\ T # S => Cardinality(T) < Cardinality(S)
<1>1. T \in SUBSET Deck /\ IsFiniteSet(S)
  BY CardsOf
<1>2. IsFiniteSet(T) /\ Cardinality(T) \in Nat /\ Cardinality(S) \in Nat
  BY <1>1, CardsOf
<1>3. Cardinality(T) <= Cardinality(S) /\ (Cardinality(S) = Cardinality(T) => S = T)
  BY <1>1, FS_Subset, Zenon
<1> QED
  BY <1>2, <1>3

LEMMA ValueIs == ASSUME NEW c \in Deck PROVE Value(c) \in 1..10
<1>1. c \in 0..39
  BY CardsOf
<1>2. c \div 4 \in 0..9
  BY <1>1
<1> QED
  BY <1>2 DEF Value

\* What cards are worth together.
Total(S) == Cardinality(UNION {{c} \X (1..Value(c)) : c \in S})

LEMMA TotalIs ==
  ASSUME NEW S \in SUBSET Deck
  PROVE  /\ SumOf(Value, S) = Total(S)
         /\ Total({}) = 0 /\ Total(S) \in Nat
         /\ \A c \in Deck \ S : Total(S \cup {c}) = Total(S) + Value(c)
<1> DEFINE one(c) == {c} \X (1..Value(c))
           all(T) == UNION {one(c) : c \in T}
<1>1. SumOf(Value, S) = Total(S)
  BY DEF SumOf, Total
<1>2. Total({}) = 0
  <2>1. UNION {{c} \X (1..Value(c)) : c \in {}} = {}
    OBVIOUS
  <2> QED
    BY <2>1, FS_EmptySet DEF Total
<1>3. \A T \in SUBSET Deck : IsFiniteSet(all(T))
  <2> SUFFICES ASSUME NEW T \in SUBSET Deck PROVE IsFiniteSet(all(T))
    OBVIOUS
  <2>1. IsFiniteSet(T)
    BY CardsOf
  <2>2. IsFiniteSet(1..10)
    <3>1. 1 \in Int /\ 10 \in Int
      OBVIOUS
    <3> QED
      BY <3>1, FS_Interval, Zenon
  <2>3. IsFiniteSet(T \X (1..10))
    BY <2>1, <2>2, FS_Product
  <2>4. all(T) \subseteq T \X (1..10)
    BY ValueIs
  <2> QED
    BY <2>3, <2>4, FS_Subset, Zenon
<1>4. Total(S) \in Nat
  BY <1>3, FS_CardinalityType DEF Total
<1>5. ASSUME NEW c \in Deck \ S PROVE Total(S \cup {c}) = Total(S) + Value(c)
  <2>1. Value(c) \in 1..10
    BY ValueIs
  <2>2. Cardinality(one(c)) = Value(c) /\ IsFiniteSet(one(c))
    <3>1. IsFiniteSet({c}) /\ Cardinality({c}) = 1
      BY FS_Singleton
    <3>2. IsFiniteSet(1..Value(c)) /\ Cardinality(1..Value(c)) = Value(c)
      <4>1. 1 \in Int /\ Value(c) \in Int /\ ~(1 > Value(c))
        BY <2>1
      <4>2. /\ IsFiniteSet(1..Value(c))
            /\ Cardinality(1..Value(c)) = IF 1 > Value(c) THEN 0 ELSE Value(c) - 1 + 1
        BY <4>1, FS_Interval, Zenon
      <4> QED
        BY <2>1, <4>1, <4>2
    <3>3. /\ IsFiniteSet({c} \X (1..Value(c)))
          /\ Cardinality({c} \X (1..Value(c))) = Cardinality({c}) * Cardinality(1..Value(c))
      BY <3>1, <3>2, FS_Product, Zenon
    <3>4. Cardinality({c}) * Cardinality(1..Value(c)) = Value(c)
      <4>1. 1 * Value(c) = Value(c)
        BY <2>1
      <4> QED
        BY <3>1, <3>2, <4>1
    <3> QED
      BY <3>3, <3>4
  <2>3. IsFiniteSet(all(S))
    BY <1>3
  <2>4. all(S) \cap one(c) = {}
    BY <1>5
  <2>5. all(S \cup {c}) = all(S) \cup one(c)
    OBVIOUS
  <2>6. Total(S) = Cardinality(all(S)) /\ Total(S \cup {c}) = Cardinality(all(S \cup {c}))
    BY DEF Total
  <2> HIDE DEF all, one
  <2>7. Cardinality(all(S) \cup one(c)) = Cardinality(all(S)) + Cardinality(one(c)) - Cardinality(all(S) \cap one(c))
    BY <2>2, <2>3, FS_Union
  <2>8. Cardinality(all(S) \cap one(c)) = 0
    BY <2>4, FS_EmptySet, Zenon
  <2>9. Cardinality(all(S)) \in Nat
    BY <2>3, FS_CardinalityType
  <2> DEFINE before == Cardinality(all(S))
             none == Cardinality(all(S) \cap one(c))
             v == Value(c)
  <2>10. Total(S \cup {c}) = before + v - none /\ Total(S) = before
    BY <2>2, <2>5, <2>6, <2>7
  <2>11. before \in Nat /\ v \in Nat /\ none = 0
    BY <2>1, <2>8, <2>9
  <2> HIDE DEF before, none, v
  <2>12. Total(S \cup {c}) = Total(S) + v
    BY <2>10, <2>11
  <2> QED
    BY <2>12 DEF v
<1> QED
  BY <1>1, <1>2, <1>4, <1>5

\* The sums found are those there are: each option is worth the card, and every set of cards of
\* the table that is worth it is an option.
LEMMA SumsAreAll ==
  ASSUME NEW c \in Deck, NEW t \in Seq(Deck), IsInjective(t)
  PROVE  \A o \in SUBSET (1..Len(t)) : o \in Sums(c, t) <=> Total(CardsAt(t, o)) = Value(c)
<1> DEFINE n == Len(t)
           found[i \in 0..Len(t)] ==
             IF i = 0 THEN {<<{}, Value(c)>>}
             ELSE found[i - 1] \cup {<<f[1] \cup {i}, f[2] - Value(t[i])>> :
                                        f \in {f \in found[i - 1] : f[2] >= Value(t[i])}}
           total(o) == Total(CardsAt(t, o))
           sound(k) == \A x \in found[k] : /\ x = <<x[1], x[2]>> /\ x[1] \in SUBSET (1..k)
                                           /\ x[2] \in Nat /\ total(x[1]) + x[2] = Value(c)
           complete(k) == \A o \in SUBSET (1..k) :
                             total(o) <= Value(c) => <<o, Value(c) - total(o)>> \in found[k]
           wrong == {k \in 0..n : ~ (sound(k) /\ complete(k))}
<1>1. n \in Nat /\ DOMAIN t = 1..n
  BY Places
<1>2. found = [i \in 0..n |->
                 IF i = 0 THEN {<<{}, Value(c)>>}
                 ELSE found[i - 1] \cup {<<f[1] \cup {i}, f[2] - Value(t[i])>> :
                                            f \in {f \in found[i - 1] : f[2] >= Value(t[i])}}]
  <2>1. \E f : Search(f, n, c, t)
    BY <1>1, SearchDefined
  <2>2. found = CHOOSE f : Search(f, n, c, t)
    BY DEF Search
  <2>3. Search(found, n, c, t)
    <3> HIDE DEF found
    <3> QED
      BY <2>1, <2>2
  <2> HIDE DEF found
  <2> QED
    BY <2>3 DEF Search
<1>3. Sums(c, t) = {f[1] : f \in {f \in found[n] : f[2] = 0}}
  BY DEF Sums
<1> HIDE DEF found
<1>4. \A i \in 1..n : t[i] \in Deck /\ Value(t[i]) \in 1..10
  BY Places, ValueIs
<1>5. total({}) = 0 /\ Value(c) \in 1..10
  <2>1. CardsAt(t, {}) = {}
    BY DEF CardsAt
  <2>2. Total({}) = 0
    BY TotalIs
  <2> QED
    BY <2>1, <2>2, ValueIs
<1>6. \A o \in SUBSET (1..n) : total(o) \in Nat
  <2>1. \A o \in SUBSET (1..n) : CardsAt(t, o) \in SUBSET Deck
    BY <1>4 DEF CardsAt
  <2> QED
    BY <2>1, TotalIs
<1>7. ASSUME NEW o \in SUBSET (1..n), NEW k \in (1..n) \ o
      PROVE  total(o \cup {k}) = total(o) + Value(t[k])
  <2>1. CardsAt(t, o) \in SUBSET Deck /\ CardsAt(t, o \cup {k}) = CardsAt(t, o) \cup {t[k]}
    BY <1>4 DEF CardsAt
  <2>2. t[k] \in Deck \ CardsAt(t, o)
    BY <1>1, <1>4 DEF CardsAt, IsInjective
  <2> QED
    BY <2>1, <2>2, TotalIs
<1> HIDE DEF total
<1>8. sound(0) /\ complete(0)
  <2>1. found[0] = {<<{}, Value(c)>>}
    BY <1>1, <1>2
  <2>2. sound(0)
    <3> SUFFICES ASSUME NEW x \in found[0]
                 PROVE  /\ x = <<x[1], x[2]>> /\ x[1] \in SUBSET (1..0)
                        /\ x[2] \in Nat /\ total(x[1]) + x[2] = Value(c)
      OBVIOUS
    <3>1. x = <<{}, Value(c)>> /\ x[1] = {} /\ x[2] = Value(c)
      BY <2>1
    <3>2. total(x[1]) + x[2] = Value(c) /\ x[2] \in Nat
      BY <1>5, <3>1
    <3> QED
      BY <3>1, <3>2
  <2>3. \A o \in SUBSET (1..0) : o = {}
    OBVIOUS
  <2>4. complete(0)
    <3> SUFFICES ASSUME NEW o \in SUBSET (1..0) PROVE <<o, Value(c) - total(o)>> \in found[0]
      OBVIOUS
    <3>1. o = {} /\ total(o) = 0
      BY <1>5, <2>3
    <3>2. Value(c) - total(o) = Value(c)
      BY <1>5, <3>1
    <3> QED
      BY <2>1, <3>1, <3>2
  <2> QED
    BY <2>2, <2>4
<1>9. ASSUME NEW k \in 1..n, sound(k - 1), complete(k - 1) PROVE sound(k) /\ complete(k)
  <2> DEFINE v == Value(t[k])
  <2>1. found[k] = found[k - 1] \cup {<<f[1] \cup {k}, f[2] - v>> : f \in {f \in found[k - 1] : f[2] >= v}}
    <3>1. k \in 0..n /\ k # 0
      BY <1>1
    <3> HIDE DEF n
    <3> QED
      BY <1>2, <3>1
  <2>2. v \in 1..10
    BY <1>4
  <2>3. /\ 1..(k - 1) \subseteq 1..n /\ k \notin 1..(k - 1) /\ 1..k = 1..(k - 1) \cup {k}
    BY <1>1
  <2> HIDE DEF v, n
  <2>4. \A o \in SUBSET (1..(k - 1)) : total(o) \in Nat /\ total(o \cup {k}) = total(o) + v
    BY <1>6, <1>7, <2>3 DEF v
  <2>5. ASSUME NEW x \in found[k]
        PROVE  /\ x = <<x[1], x[2]>> /\ x[1] \in SUBSET (1..k)
               /\ x[2] \in Nat /\ total(x[1]) + x[2] = Value(c)
    <3>1. CASE x \in found[k - 1]
      BY <1>9, <2>3, <3>1
    <3>2. ASSUME NEW f \in found[k - 1], f[2] >= v, x = <<f[1] \cup {k}, f[2] - v>>
          PROVE  /\ x = <<x[1], x[2]>> /\ x[1] \in SUBSET (1..k)
                 /\ x[2] \in Nat /\ total(x[1]) + x[2] = Value(c)
      <4>1. f[1] \in SUBSET (1..(k - 1)) /\ f[2] \in Nat /\ total(f[1]) + f[2] = Value(c)
        BY <1>9
      <4>2. x[1] = f[1] \cup {k} /\ x[2] = f[2] - v /\ x = <<x[1], x[2]>>
        BY <3>2
      <4>3. total(x[1]) = total(f[1]) + v /\ total(f[1]) \in Nat
        BY <2>4, <4>1, <4>2
      <4>4. x[2] \in Nat /\ total(x[1]) + x[2] = Value(c)
        BY <1>5, <2>2, <3>2, <4>1, <4>2, <4>3
      <4> QED
        BY <2>3, <4>1, <4>2, <4>4
    <3> QED
      BY <2>1, <3>1, <3>2
  <2>6. ASSUME NEW o \in SUBSET (1..k), total(o) <= Value(c)
        PROVE  <<o, Value(c) - total(o)>> \in found[k]
    <3>1. CASE k \notin o
      <4>1. o \in SUBSET (1..(k - 1))
        BY <2>3, <3>1
      <4> QED
        BY <1>9, <2>1, <2>6, <4>1
    <3>2. CASE k \in o
      <4> DEFINE rest == o \ {k}
                 left == Value(c) - total(rest)
      <4>1. rest \in SUBSET (1..(k - 1)) /\ o = rest \cup {k}
        BY <2>3, <3>2
      <4>2. total(rest) \in Nat /\ total(o) = total(rest) + v
        BY <2>4, <4>1
      <4> DEFINE less == total(rest)
                 all == total(o)
                 target == Value(c)
      <4>3. total(rest) <= Value(c) /\ left >= v /\ left - v = Value(c) - total(o)
        <5>1. less \in Nat /\ all = less + v /\ target \in Int /\ v \in Nat /\ all <= target
          BY <1>5, <2>2, <2>6, <4>2
        <5> HIDE DEF less, all, target, v
        <5>2. less <= target /\ target - less >= v /\ (target - less) - v = target - all
          BY <5>1
        <5> QED
          BY <5>2 DEF less, all, target
      <4>4. <<rest, left>> \in found[k - 1]
        BY <1>9, <4>1, <4>3
      <4> HIDE DEF rest, left
      <4>5. <<rest \cup {k}, left - v>> \in found[k]
        <5> DEFINE f == <<rest, left>>
        <5>1. f \in {f1 \in found[k - 1] : f1[2] >= v} /\ f[1] = rest /\ f[2] = left
          BY <4>3, <4>4
        <5>2. <<f[1] \cup {k}, f[2] - v>> \in found[k]
          <6> HIDE DEF f
          <6> QED
            BY <2>1, <5>1
        <5> QED
          BY <5>1, <5>2
      <4> QED
        BY <4>1, <4>3, <4>5
    <3> QED
      BY <3>1, <3>2
  <2> QED
    BY <2>5, <2>6
<1>10. wrong = {}
  <2> SUFFICES ASSUME wrong # {} PROVE FALSE
    OBVIOUS
  <2>1. wrong \in SUBSET Nat
    OBVIOUS
  <2>2. PICK k \in wrong : \A j \in wrong : k <= j
    BY <2>1, LeastNumber
  <2> HIDE DEF sound, complete
  <2>3. k # 0
    BY <1>8, <2>2
  <2>4. k \in 1..n /\ k - 1 \in 0..n /\ ~(k <= k - 1)
    BY <1>1, <2>2, <2>3
  <2>5. sound(k - 1) /\ complete(k - 1)
    BY <2>2, <2>4
  <2> QED
    BY <1>9, <2>2, <2>4, <2>5
<1>11. sound(n) /\ complete(n)
  <2>1. n \in 0..n
    BY <1>1
  <2> HIDE DEF sound, complete
  <2> QED
    BY <1>10, <2>1
<1> SUFFICES ASSUME NEW o \in SUBSET (1..n) PROVE o \in Sums(c, t) <=> total(o) = Value(c)
  BY DEF total
<1>12. ASSUME o \in Sums(c, t) PROVE total(o) = Value(c)
  <2>1. PICK f \in found[n] : f[2] = 0 /\ o = f[1]
    BY <1>3, <1>12
  <2>2. total(f[1]) + 0 = Value(c)
    BY <1>11, <2>1
  <2> QED
    BY <1>6, <2>1, <2>2
<1>13. ASSUME total(o) = Value(c) PROVE o \in Sums(c, t)
  <2>1. total(o) <= Value(c) /\ Value(c) - total(o) = 0
    BY <1>5, <1>13
  <2>2. <<o, 0>> \in found[n]
    BY <1>11, <2>1
  <2> QED
    BY <1>3, <2>2
<1> QED
  BY <1>12, <1>13

-----------------------------------------------------------------------------
(* Deals *)

LEMMA Constants ==
  /\ HandCards \in Nat /\ HandCards > 0 /\ TableCards \in Nat /\ MaxRounds \in Nat /\ MaxRounds > 0
  /\ {DealTime, PlaceTime, CaptureTime, PauseTime, HandPause, BotTime, NextHandTime} \subseteq Nat
  /\ NextHandTime > 0
BY ScopaAssumption

\* A shuffle is the deck in some order, enough for the table and some full hands.
LEMMA ShuffleIsDeck ==
  ASSUME NEW s \in Shuffles
  PROVE  /\ s \in Seq(Deck) /\ IsInjective(s) /\ ToSet(s) = Deck
         /\ \E n \in Nat : Len(s) = TableCards + 2 * HandCards * (n + 1)
<1>1. s \in Seq(0..39) /\ IsInjective(s) /\ \A t \in Shuffles : ToSet(t) = ToSet(s)
  BY ScopaAssumption
<1>2. ToSet(s) = Deck
  BY <1>1 DEF Deck
<1>3. s \in Seq(Deck)
  <2>1. Len(s) \in Nat /\ s = [i \in 1..Len(s) |-> s[i]] /\ DOMAIN s = 1..Len(s)
    BY <1>1, LenProperties
  <2>2. \A i \in 1..Len(s) : s[i] \in Deck
    BY <1>2, <2>1 DEF ToSet
  <2>3. [i \in 1..Len(s) |-> s[i]] \in Seq(Deck)
    BY <2>1, <2>2, IsASeq
  <2> QED
    BY <2>1, <2>3
<1>4. PICK m \in 1..20 : Len(s) = TableCards + 2 * HandCards * m
  BY ScopaAssumption
<1>5. m - 1 \in Nat /\ (m - 1) + 1 = m
  OBVIOUS
<1> QED
  BY <1>1, <1>2, <1>3, <1>4, <1>5

\* A hand can be sorted, and has the same cards then: a card's rank, the number of smaller cards
\* in the hand, is its place.
LEMMA SortedHand ==
  ASSUME NEW hand \in Seq(Deck), IsInjective(hand)
  PROVE  LET s == Sorted(hand)
         IN s \in Seq(Deck) /\ Len(s) = Len(hand) /\ IsInjective(s) /\ ToSet(s) = ToSet(hand)
<1> DEFINE S == ToSet(hand)
           n == Len(hand)
           below(c) == {d \in S : d < c}
           InOrder(s) == \A i, j \in 1..n : i < j => s[i] < s[j]
<1>1. n \in Nat /\ DOMAIN hand = 1..n /\ S \subseteq Deck
  BY Places
<1>2. IsFiniteSet(S) /\ Cardinality(S) = n /\ \A c \in S : c \in Int
  <2>1. \A c \in 0..39 : c \in Int
    OBVIOUS
  <2> QED
    BY <1>1, <2>1, CardsOf
<1> HIDE DEF S, n
<1>3. ASSUME NEW c \in S PROVE Cardinality(below(c)) \in 0..(n - 1)
  <2> DEFINE B == below(c)
  <2>1. B \subseteq S /\ c \notin B
    BY <1>2
  <2> HIDE DEF B
  <2>2. B # S /\ Cardinality(B) \in Nat /\ Cardinality(B) < Cardinality(S)
    BY <1>1, <2>1, FewerCards
  <2>3. Cardinality(B) \in 0..(n - 1)
    BY <1>1, <1>2, <2>2
  <2> QED
    BY <2>3 DEF B
<1>4. ASSUME NEW c \in S, NEW d \in S, c < d
      PROVE  Cardinality(below(c)) < Cardinality(below(d))
  <2> DEFINE B == below(c)
             D == below(d)
  <2>1. c \in Int /\ d \in Int
    BY <1>2
  <2>2. \A x \in S : x < c => x < d
    BY <1>2, <1>4, <2>1
  <2>3. B \subseteq D /\ c \in D /\ c \notin B
    <3>1. B \subseteq D
      BY <2>2
    <3>2. c \in D
      BY <1>4
    <3>3. ~(c < c)
      BY <2>1
    <3> QED
      BY <3>1, <3>2, <3>3
  <2>4. D \in SUBSET Deck
    BY <1>1
  <2> HIDE DEF B, D
  <2>5. Cardinality(B) < Cardinality(D)
    BY <2>3, <2>4, FewerCards
  <2> QED
    BY <2>5 DEF B, D
<1> DEFINE rank == [c \in S |-> Cardinality(below(c))]
<1>5. \A c \in S : rank[c] \in 0..(n - 1)
  BY <1>3
<1>6. \A c, d \in S : c < d => rank[c] < rank[d]
  BY <1>4
<1> HIDE DEF below
<1>7. rank \in [S -> 0..(n - 1)]
  BY <1>5
<1> HIDE DEF rank
<1>8. rank \in Surjection(S, 0..(n - 1))
  <2>1. \A c, d \in S : rank[c] = rank[d] => c = d
    <3> SUFFICES ASSUME NEW c \in S, NEW d \in S, rank[c] = rank[d], c # d PROVE FALSE
      OBVIOUS
    <3>1. c \in Int /\ d \in Int /\ rank[c] \in Int /\ rank[d] \in Int
      BY <1>1, <1>2, <1>5
    <3>2. c < d \/ d < c
      BY <3>1
    <3> QED
      BY <1>6, <3>1, <3>2
  <2>2. rank \in Injection(S, 0..(n - 1))
    BY <1>7, <2>1 DEF Injection, IsInjective
  <2>3. 0 \in Int /\ n - 1 \in Int
    BY <1>1
  <2>4. IsFiniteSet(0..(n - 1)) /\ Cardinality(0..(n - 1)) = n
    <3>1. IsFiniteSet(0..(n - 1))
      BY <2>3, FS_Interval, Zenon
    <3>2. Cardinality(0..(n - 1)) = IF 0 > n - 1 THEN 0 ELSE (n - 1) - 0 + 1
      BY <2>3, FS_Interval
    <3> QED
      BY <1>1, <3>1, <3>2
  <2> QED
    BY <1>2, <2>2, <2>4, FS_Injection
<1>9. \A k \in 0..(n - 1) : \E c \in S : rank[c] = k
  BY <1>8 DEF Surjection
<1> DEFINE w == [i \in 1..n |-> CHOOSE c \in S : rank[c] = i - 1]
<1>10. \A i \in 1..n : w[i] \in S /\ rank[w[i]] = i - 1
  <2> SUFFICES ASSUME NEW i \in 1..n PROVE w[i] \in S /\ rank[w[i]] = i - 1
    OBVIOUS
  <2>1. i - 1 \in 0..(n - 1)
    BY <1>1
  <2>2. \E c \in S : rank[c] = i - 1
    BY <1>9, <2>1
  <2> QED
    BY <2>2
<1>11. w \in [1..n -> S]
  BY <1>10
<1> HIDE DEF w
<1>12. InOrder(w)
  <2> SUFFICES ASSUME NEW i \in 1..n, NEW j \in 1..n, i < j, ~(w[i] < w[j]) PROVE FALSE
    OBVIOUS
  <2>1. rank[w[i]] < rank[w[j]] /\ w[i] \in S /\ w[j] \in S
    BY <1>1, <1>10
  <2>2. w[i] \in Int /\ w[j] \in Int /\ rank[w[i]] \in Int /\ rank[w[j]] \in Int
    <3>1. w[i] \in S /\ w[j] \in S
      BY <1>10
    <3>2. \A c \in S : rank[c] \in Int
      BY <1>1, <1>5
    <3> QED
      BY <1>2, <3>1, <3>2
  <2>3. w[j] < w[i] \/ w[j] = w[i]
    BY <2>2
  <2> QED
    BY <1>6, <2>1, <2>2, <2>3
<1> DEFINE s == Sorted(hand)
<1>13. s \in [1..n -> S] /\ InOrder(s)
  <2>1. s = CHOOSE x \in [1..n -> S] : InOrder(x)
    BY <1>1 DEF Sorted, S
  <2>2. \E x \in [1..n -> S] : InOrder(x)
    BY <1>11, <1>12
  <2> HIDE DEF InOrder, s
  <2> QED
    BY <2>1, <2>2
<1> HIDE DEF s
<1>14. s \in Seq(Deck) /\ Len(s) = n /\ DOMAIN s = 1..n
  <2>1. s \in [1..n -> Deck]
    BY <1>1, <1>13
  <2> QED
    BY <1>1, <2>1, IsASeq, LenProperties
<1>15. \A i, j \in 1..n : s[i] = s[j] => i = j
  <2> SUFFICES ASSUME NEW i \in 1..n, NEW j \in 1..n, s[i] = s[j], i # j PROVE FALSE
    OBVIOUS
  <2>1. i < j \/ j < i
    BY <1>1
  <2>2. s[i] \in Int /\ s[j] \in Int
    <3>1. s[i] \in S /\ s[j] \in S
      BY <1>13
    <3> QED
      BY <1>2, <3>1
  <2> QED
    BY <1>13, <2>1, <2>2
<1>16. IsInjective(s)
  BY <1>14, <1>15 DEF IsInjective
<1>17. ToSet(s) = S
  <2>1. ToSet(s) \subseteq S
    BY <1>13, <1>14 DEF ToSet
  <2>2. Cardinality(ToSet(s)) = n
    BY <1>14, <1>16, CardsOf
  <2> QED
    BY <1>1, <1>2, <2>1, <2>2, FewerCards
<1> QED
  BY <1>14, <1>16, <1>17 DEF s, S, n

\* Each gets a full hand from the top of the deck.
LEMMA HandsAreDealt ==
  ASSUME NEW g \in GameType, Len(g.deck) >= 2 * HandCards, IsInjective(g.deck)
  PROVE  LET h == HandsDealt(g)
         IN /\ h = [g EXCEPT !.deck = h.deck, !.hand = h.hand]
            /\ h.deck \in Seq(Deck) /\ h.hand \in [Players -> Seq(Deck)]
            /\ Len(h.deck) = Len(g.deck) - 2 * HandCards
            /\ Len(h.hand[0]) = HandCards /\ Len(h.hand[1]) = HandCards
            /\ IsInjective(h.deck) /\ IsInjective(h.hand[0]) /\ IsInjective(h.hand[1])
            /\ ToSet(g.deck) = ToSet(h.deck) \cup ToSet(h.hand[0]) \cup ToSet(h.hand[1])
            /\ ToSet(h.deck) \cap ToSet(h.hand[0]) = {}
            /\ ToSet(h.deck) \cap ToSet(h.hand[1]) = {}
            /\ ToSet(h.hand[0]) \cap ToSet(h.hand[1]) = {}
<1> DEFINE h == HandsDealt(g)
           s == g.deck
           one == First(HandCards, s)
           rest == DropFirst(HandCards, s)
           two == First(HandCards, rest)
           left == DropFirst(HandCards, rest)
<1>1. /\ s \in Seq(Deck) /\ Len(s) \in Nat /\ HandCards \in Nat /\ HandCards > 0
      /\ IsInjective(s)
  BY Constants, Places DEF GameType
<1>2. HandCards \in 0..Len(s) /\ HandCards + HandCards <= Len(s) /\ HandCards + HandCards = 2 * HandCards
  BY <1>1
<1>3. DropFirst(2 * HandCards, s) = left /\ DropFirst(0, s) = s
  BY <1>1, <1>2, CutTwice
<1>4. h.deck = left /\ h.hand = [p \in Players |-> IF p = 0 THEN Sorted(one) ELSE Sorted(two)]
  <2>1. h.deck = DropFirst(2 * HandCards, s)
    BY DEF HandsDealt, GameType
  <2>2. h.hand = [p \in Players |-> Sorted(First(HandCards, DropFirst(HandCards * p, s)))]
    BY DEF HandsDealt, GameType
  <2>3. HandCards * 0 = 0 /\ HandCards * 1 = HandCards
    BY <1>1
  <2> QED
    BY <1>3, <2>1, <2>2, <2>3 DEF Players
<1>5. h = [g EXCEPT !.deck = h.deck, !.hand = h.hand]
  BY DEF HandsDealt, GameType
<1> HIDE DEF h, s
<1>6. /\ one \in Seq(Deck) /\ Len(one) = HandCards
      /\ rest \in Seq(Deck) /\ Len(rest) = Len(s) - HandCards
      /\ ToSet(s) = ToSet(one) \cup ToSet(rest)
      /\ IsInjective(one) /\ IsInjective(rest) /\ ToSet(one) \cap ToSet(rest) = {}
  BY <1>1, <1>2, Cut
<1> HIDE DEF one, rest
<1>7. /\ two \in Seq(Deck) /\ Len(two) = HandCards
      /\ left \in Seq(Deck) /\ Len(left) = Len(rest) - HandCards
      /\ ToSet(rest) = ToSet(two) \cup ToSet(left)
      /\ IsInjective(two) /\ IsInjective(left) /\ ToSet(two) \cap ToSet(left) = {}
  <2>1. HandCards \in 0..Len(rest)
    BY <1>1, <1>2, <1>6
  <2> QED
    BY <1>6, <2>1, Cut
<1> HIDE DEF two, left
<1>8. /\ Sorted(one) \in Seq(Deck) /\ Len(Sorted(one)) = HandCards
      /\ IsInjective(Sorted(one)) /\ ToSet(Sorted(one)) = ToSet(one)
  BY <1>6, SortedHand
<1>9. /\ Sorted(two) \in Seq(Deck) /\ Len(Sorted(two)) = HandCards
      /\ IsInjective(Sorted(two)) /\ ToSet(Sorted(two)) = ToSet(two)
  BY <1>7, SortedHand
<1>10. h.hand[0] = Sorted(one) /\ h.hand[1] = Sorted(two) /\ h.hand \in [Players -> Seq(Deck)]
  BY <1>4, <1>8, <1>9 DEF Players
<1>11. Len(left) = Len(s) - 2 * HandCards
  BY <1>1, <1>6, <1>7
<1>12. /\ ToSet(s) = ToSet(left) \cup ToSet(one) \cup ToSet(two)
       /\ ToSet(left) \cap ToSet(one) = {} /\ ToSet(left) \cap ToSet(two) = {}
       /\ ToSet(one) \cap ToSet(two) = {}
  BY <1>6, <1>7
<1> QED
  BY <1>4, <1>5, <1>7, <1>8, <1>9, <1>10, <1>11, <1>12 DEF s, h

LEMMA StarterPlays ==
  ASSUME NEW g \in GameType
  PROVE  Starter(g) \in Players /\ Turn(Starter(g)) \in InPlay \ {"PlayerChooseCapture"}
<1>1. g.round \in Nat
  BY Constants DEF GameType
<1> QED
  BY <1>1 DEF Starter, Players, Turn, InPlay

LEMMA NewMatchTyped == NewMatch \in GameType
  BY Constants, EmptyHand DEF NewMatch, GameType, Players, Phases, Nobody

\* A round starts in order.
LEMMA RoundStarts ==
  ASSUME NEW g \in GameType, NEW h \in RoundStarted(g)
  PROVE  GameInv(h) /\ h.phase = Turn(Starter(g))
<1>1. PICK s \in Shuffles : 
        h = TableDealt(HandsDealt(
          [g EXCEPT !.deck = s, !.pile = [p \in Players |-> {}], !.scope = [p \in Players |-> 0],
                    !.lastCapturer = Nobody, !.turn = Starter(g), !.phase = Turn(Starter(g)),
                    !.selected = 0, !.captures = {}, !.winner = Nobody]))
  BY DEF RoundStarted
<1> DEFINE a == [g EXCEPT !.deck = s, !.pile = [p \in Players |-> {}], !.scope = [p \in Players |-> 0],
                          !.lastCapturer = Nobody, !.turn = Starter(g), !.phase = Turn(Starter(g)),
                          !.selected = 0, !.captures = {}, !.winner = Nobody]
           b == HandsDealt(a)
<1>2. /\ s \in Seq(Deck) /\ IsInjective(s) /\ ToSet(s) = Deck
      /\ \E n \in Nat : Len(s) = TableCards + 2 * HandCards * (n + 1)
  BY ShuffleIsDeck
<1>3. Starter(g) \in Players /\ Turn(Starter(g)) \in InPlay \ {"PlayerChooseCapture"}
  BY StarterPlays
<1>4. /\ a \in GameType /\ a.deck = s /\ a.turn = Starter(g) /\ a.phase = Turn(Starter(g))
      /\ a.pile = [p \in Players |-> {}] /\ a.lastCapturer = Nobody /\ a.captures = {}
      /\ a.round = g.round
  <2>1. 0 \in 0..HandCards /\ {} \in SUBSET SUBSET Nat /\ s \in Seq(Deck)
    BY <1>2, Constants
  <2>2. /\ [p \in Players |-> {}] \in [Players -> SUBSET Deck]
        /\ [p \in Players |-> 0] \in [Players -> Nat]
        /\ Turn(Starter(g)) \in Phases
    BY <1>3 DEF InPlay, Phases
  <2> DEFINE none == [p \in Players |-> {}]
             zero == [p \in Players |-> 0]
             who == Starter(g)
             phase == Turn(Starter(g))
  <2>3. a = [g EXCEPT !.deck = s, !.pile = none, !.scope = zero,
                      !.lastCapturer = Nobody, !.turn = who, !.phase = phase,
                      !.selected = 0, !.captures = {}, !.winner = Nobody]
    OBVIOUS
  <2>4. /\ none \in [Players -> SUBSET Deck] /\ zero \in [Players -> Nat]
        /\ who \in Players /\ phase \in Phases
    BY <1>3, <2>2
  <2> HIDE DEF a, none, zero, who, phase
  <2>5. a \in GameType
    BY <2>1, <2>3, <2>4 DEF GameType
  <2>6. /\ a.deck = s /\ a.turn = who /\ a.phase = phase /\ a.pile = none
        /\ a.lastCapturer = Nobody /\ a.captures = {} /\ a.round = g.round
    BY <2>3 DEF GameType
  <2> QED
    BY <2>5, <2>6 DEF none, who, phase
<1>5. PICK n \in Nat : Len(s) = TableCards + 2 * HandCards * (n + 1)
  BY <1>2
<1> DEFINE more == HandCards * n
<1>6. /\ HandCards \in Nat /\ HandCards > 0 /\ TableCards \in Nat
      /\ more \in Nat /\ Len(s) = TableCards + 2 * more + 2 * HandCards
  BY <1>5, Constants
<1> HIDE DEF more, a
<1>7. /\ b = [a EXCEPT !.deck = b.deck, !.hand = b.hand]
      /\ b.deck \in Seq(Deck) /\ b.hand \in [Players -> Seq(Deck)]
      /\ Len(b.deck) = TableCards + 2 * more
      /\ Len(b.hand[0]) = HandCards /\ Len(b.hand[1]) = HandCards
      /\ IsInjective(b.deck) /\ IsInjective(b.hand[0]) /\ IsInjective(b.hand[1])
      /\ Deck = ToSet(b.deck) \cup ToSet(b.hand[0]) \cup ToSet(b.hand[1])
      /\ ToSet(b.deck) \cap ToSet(b.hand[0]) = {}
      /\ ToSet(b.deck) \cap ToSet(b.hand[1]) = {}
      /\ ToSet(b.hand[0]) \cap ToSet(b.hand[1]) = {}
  <2>1. Len(a.deck) >= 2 * HandCards
    BY <1>4, <1>6
  <2>2. /\ b = [a EXCEPT !.deck = b.deck, !.hand = b.hand]
        /\ b.deck \in Seq(Deck) /\ b.hand \in [Players -> Seq(Deck)]
        /\ Len(b.deck) = Len(a.deck) - 2 * HandCards
        /\ Len(b.hand[0]) = HandCards /\ Len(b.hand[1]) = HandCards
        /\ IsInjective(b.deck) /\ IsInjective(b.hand[0]) /\ IsInjective(b.hand[1])
        /\ ToSet(a.deck) = ToSet(b.deck) \cup ToSet(b.hand[0]) \cup ToSet(b.hand[1])
        /\ ToSet(b.deck) \cap ToSet(b.hand[0]) = {}
        /\ ToSet(b.deck) \cap ToSet(b.hand[1]) = {}
        /\ ToSet(b.hand[0]) \cap ToSet(b.hand[1]) = {}
    BY <1>2, <1>4, <2>1, HandsAreDealt
  <2> HIDE DEF b
  <2>3. Len(a.deck) - 2 * HandCards = TableCards + 2 * more
    BY <1>4, <1>6
  <2> QED
    BY <1>2, <1>4, <2>2, <2>3
<1> HIDE DEF b
<1>8. /\ b \in GameType /\ b.turn = Starter(g) /\ b.phase = Turn(Starter(g))
      /\ b.pile = [p \in Players |-> {}] /\ b.lastCapturer = Nobody /\ b.captures = {}
      /\ b.round = g.round
  <2>1. \A deck \in Seq(Deck), hand \in [Players -> Seq(Deck)] :
           [a EXCEPT !.deck = deck, !.hand = hand] \in GameType
    BY <1>4 DEF GameType
  <2>2. b \in GameType
    BY <1>7, <2>1
  <2>3. /\ b.turn = a.turn /\ b.phase = a.phase /\ b.pile = a.pile
        /\ b.lastCapturer = a.lastCapturer /\ b.captures = a.captures /\ b.round = a.round
    BY <1>4, <1>7 DEF GameType
  <2> QED
    BY <1>4, <2>2, <2>3
<1>9. h = [b EXCEPT !.deck = DropFirst(TableCards, b.deck), !.table = First(TableCards, b.deck)]
  BY <1>1, <1>8 DEF TableDealt, a, b, GameType
<1>10. /\ First(TableCards, b.deck) \in Seq(Deck) /\ DropFirst(TableCards, b.deck) \in Seq(Deck)
       /\ Len(DropFirst(TableCards, b.deck)) = 2 * more
       /\ ToSet(b.deck) = ToSet(First(TableCards, b.deck)) \cup ToSet(DropFirst(TableCards, b.deck))
       /\ IsInjective(First(TableCards, b.deck)) /\ IsInjective(DropFirst(TableCards, b.deck))
       /\ ToSet(First(TableCards, b.deck)) \cap ToSet(DropFirst(TableCards, b.deck)) = {}
  <2>1. TableCards \in 0..Len(b.deck) /\ Len(b.deck) - TableCards = 2 * more
    BY <1>6, <1>7
  <2>2. b.deck \in Seq(Deck) /\ IsInjective(b.deck)
    BY <1>7
  <2>3. Len(DropFirst(TableCards, b.deck)) = Len(b.deck) - TableCards
    BY <2>1, <2>2, Cut
  <2> QED
    BY <2>1, <2>2, <2>3, Cut
<1>11. /\ h \in GameType /\ h.turn = Starter(g) /\ h.phase = Turn(Starter(g))
       /\ h.pile[0] = {} /\ h.pile[1] = {} /\ h.lastCapturer = Nobody /\ h.captures = {}
       /\ h.round = g.round /\ h.hand = b.hand
       /\ h.deck = DropFirst(TableCards, b.deck) /\ h.table = First(TableCards, b.deck)
  BY <1>8, <1>9, <1>10 DEF GameType, Players
<1>12. Apart(h)
  BY <1>7, <1>10, <1>11 DEF Apart, Partition
<1>13. Stocked(h)
  <2>1. Len(h.deck) = 2 * HandCards * n
    BY <1>6, <1>10, <1>11 DEF more
  <2>2. Len(h.hand[0]) <= HandCards /\ Len(h.hand[1]) <= HandCards
    <3>1. Len(h.hand[0]) = HandCards /\ Len(h.hand[1]) = HandCards
      BY <1>7, <1>11
    <3>2. HandCards <= HandCards
      BY <1>6
    <3> QED
      BY <3>1, <3>2
  <2> QED
    BY <1>11, <2>1, <2>2 DEF Stocked
<1>14. Phased(h)
  <2>1. Starter(h) = Starter(g)
    BY <1>11 DEF Starter
  <2>2. Len(h.hand[h.turn]) > 0 /\ Even(h)
    BY <1>3, <1>6, <1>7, <1>11, <2>1 DEF Even, Players
  <2> QED
    BY <1>3, <1>11, <2>2 DEF Phased, InPlay, Over, Turn, Players
<1> QED
  BY <1>11, <1>12, <1>13, <1>14 DEF GameInv

\* The next hands are dealt in order.
LEMMA NextHandsDealt ==
  ASSUME NEW g, GameInv(g), g.phase = "InitRound"
  PROVE  GameInv([HandsDealt(g) EXCEPT !.turn = Starter(g), !.phase = Turn(Starter(g))])
<1> DEFINE b == HandsDealt(g)
           h == [b EXCEPT !.turn = Starter(g), !.phase = Turn(Starter(g))]
<1>1. /\ g \in GameType /\ Apart(g) /\ Stocked(g) /\ Phased(g)
      /\ g.hand[0] = <<>> /\ g.hand[1] = <<>> /\ g.deck # <<>>
  BY DEF GameInv, Phased
<1>2. Starter(g) \in Players /\ Turn(Starter(g)) \in InPlay \ {"PlayerChooseCapture"}
  BY <1>1, StarterPlays
<1>3. PICK n \in Nat : Len(g.deck) = 2 * HandCards * n
  BY <1>1 DEF Stocked
<1>4. /\ HandCards \in Nat /\ HandCards > 0 /\ g.deck \in Seq(Deck) /\ Len(g.deck) \in Nat
      /\ Len(g.deck) # 0
  BY <1>1, Constants, Places DEF GameType
<1>5. n # 0
  BY <1>3, <1>4
<1> DEFINE more == HandCards * (n - 1)
<1>6. more \in Nat /\ n - 1 \in Nat /\ Len(g.deck) = 2 * more + 2 * HandCards
  BY <1>3, <1>4, <1>5
<1> HIDE DEF more
<1>7. /\ b = [g EXCEPT !.deck = b.deck, !.hand = b.hand]
      /\ b.deck \in Seq(Deck) /\ b.hand \in [Players -> Seq(Deck)]
      /\ Len(b.deck) = 2 * more
      /\ Len(b.hand[0]) = HandCards /\ Len(b.hand[1]) = HandCards
      /\ IsInjective(b.deck) /\ IsInjective(b.hand[0]) /\ IsInjective(b.hand[1])
      /\ ToSet(g.deck) = ToSet(b.deck) \cup ToSet(b.hand[0]) \cup ToSet(b.hand[1])
      /\ ToSet(b.deck) \cap ToSet(b.hand[0]) = {}
      /\ ToSet(b.deck) \cap ToSet(b.hand[1]) = {}
      /\ ToSet(b.hand[0]) \cap ToSet(b.hand[1]) = {}
  <2>1. Len(g.deck) >= 2 * HandCards
    BY <1>4, <1>6
  <2>3. IsInjective(g.deck)
    BY <1>1 DEF Apart
  <2>2. /\ b = [g EXCEPT !.deck = b.deck, !.hand = b.hand]
        /\ b.deck \in Seq(Deck) /\ b.hand \in [Players -> Seq(Deck)]
        /\ Len(b.deck) = Len(g.deck) - 2 * HandCards
        /\ Len(b.hand[0]) = HandCards /\ Len(b.hand[1]) = HandCards
        /\ IsInjective(b.deck) /\ IsInjective(b.hand[0]) /\ IsInjective(b.hand[1])
        /\ ToSet(g.deck) = ToSet(b.deck) \cup ToSet(b.hand[0]) \cup ToSet(b.hand[1])
        /\ ToSet(b.deck) \cap ToSet(b.hand[0]) = {}
        /\ ToSet(b.deck) \cap ToSet(b.hand[1]) = {}
        /\ ToSet(b.hand[0]) \cap ToSet(b.hand[1]) = {}
    BY <1>1, <2>1, <2>3, HandsAreDealt
  <2> HIDE DEF b
  <2>4. Len(g.deck) - 2 * HandCards = 2 * more
    BY <1>4, <1>6
  <2> QED
    BY <2>2, <2>3, <2>4
<1> HIDE DEF b
<1>8. /\ h \in GameType /\ h.deck = b.deck /\ h.hand = b.hand /\ h.turn = Starter(g)
      /\ h.phase = Turn(Starter(g)) /\ h.table = g.table /\ h.pile = g.pile
      /\ h.captures = g.captures /\ h.lastCapturer = g.lastCapturer /\ h.round = g.round
  BY <1>1, <1>2, <1>7 DEF GameType, InPlay, Phases
<1> HIDE DEF h
<1>9. Apart(h)
  <2>1. ToSet(g.hand[0]) = {} /\ ToSet(g.hand[1]) = {}
    BY <1>1, EmptyHand
  <2> QED
    BY <1>1, <1>7, <1>8, <2>1 DEF Apart, Partition
<1>10. Stocked(h)
  <2>1. Len(h.deck) = 2 * HandCards * (n - 1)
    BY <1>4, <1>6, <1>7, <1>8 DEF more
  <2>2. Len(h.hand[0]) <= HandCards /\ Len(h.hand[1]) <= HandCards
    BY <1>4, <1>7, <1>8
  <2> QED
    BY <1>1, <1>6, <1>8, <2>1, <2>2 DEF Stocked
<1>11. Phased(h)
  <2>1. Starter(h) = Starter(g)
    BY <1>8 DEF Starter
  <2>2. Len(h.hand[h.turn]) > 0 /\ Even(h)
    BY <1>2, <1>4, <1>7, <1>8, <2>1 DEF Even, Players
  <2> QED
    BY <1>1, <1>2, <1>8, <2>2 DEF Phased, InPlay, Over, Turn, Players
<1> QED
  BY <1>8, <1>9, <1>10, <1>11 DEF GameInv, h, b
-----------------------------------------------------------------------------
(* Moves *)

LEMMA PointsAreNumbers == ASSUME NEW g \in GameType, NEW p \in Players PROVE Points(g, p) \in Nat
<1>1. g.scope[p] \in Nat
  BY DEF GameType
<1> QED
  BY <1>1 DEF Points, PointFor

LEMMA SweptClean ==
  ASSUME NEW g \in GameType, Apart(g), Stocked(g)
  PROVE  LET s == Swept(g)
         IN /\ s \in GameType /\ Apart(s)
            /\ s = [g EXCEPT !.pile = s.pile, !.table = s.table]
            /\ s.lastCapturer = Nobody => s.pile[0] = {} /\ s.pile[1] = {}
            /\ s.table = <<>> \/ (s.pile[0] = {} /\ s.pile[1] = {})
<1> DEFINE s == Swept(g)
<1>1. CASE g.lastCapturer = Nobody
  <2>1. s = g
    BY <1>1 DEF Swept
  <2>2. g = [g EXCEPT !.pile = g.pile, !.table = g.table]
    BY DEF GameType
  <2> QED
    BY <1>1, <2>1, <2>2 DEF Stocked
<1>2. CASE g.lastCapturer # Nobody
  <2>1. g.lastCapturer \in {0, 1}
    BY <1>2 DEF GameType, Players
  <2> DEFINE pile == [g.pile EXCEPT ![g.lastCapturer] = @ \cup ToSet(g.table)]
  <2>2. s = [g EXCEPT !.pile = pile, !.table = <<>>]
    BY <1>2 DEF Swept
  <2>3. g.table \in Seq(Deck) /\ ToSet(g.table) \subseteq Deck
    BY Places DEF GameType
  <2>4. pile \in [Players -> SUBSET Deck]
    BY <2>1, <2>3 DEF GameType, Players
  <2>5. \/ pile[0] = g.pile[0] \cup ToSet(g.table) /\ pile[1] = g.pile[1]
        \/ pile[1] = g.pile[1] \cup ToSet(g.table) /\ pile[0] = g.pile[0]
    BY <2>1 DEF GameType, Players
  <2> HIDE DEF pile, s
  <2>6. /\ s.pile = pile /\ s.table = <<>> /\ s.deck = g.deck /\ s.hand = g.hand
        /\ s.lastCapturer = g.lastCapturer
    BY <2>2 DEF GameType
  <2>7. s \in GameType
    BY <2>2, <2>4, EmptyHand DEF GameType
  <2>8. Apart(s)
    BY <2>5, <2>6, EmptyHand DEF Apart, Partition
  <2>9. s = [g EXCEPT !.pile = s.pile, !.table = s.table]
    BY <2>2, <2>6
  <2> QED
    BY <1>2, <2>6, <2>7, <2>8, <2>9 DEF s
<1> QED
  BY <1>1, <1>2

\* A round ends in order.
LEMMA RoundFinalized ==
  ASSUME NEW g \in GameType, Apart(g), Stocked(g),
         g.deck = <<>>, g.hand[0] = <<>>, g.hand[1] = <<>>, g.captures = {}
  PROVE  GameInv(Finalized(g)) /\ Finalized(g).phase \in Over
<1> DEFINE s == Swept(g)
           score == [p \in Players |-> g.score[p] + Points(s, p)]
           leads(p) == score[p] >= Target /\ score[p] > score[1 - p]
           phase == IF \E p \in Players : leads(p) THEN "MatchOver" ELSE "RoundSummary"
           winner == IF \E p \in Players : leads(p) THEN CHOOSE p \in Players : leads(p) ELSE Nobody
           f == Finalized(g)
<1>1. /\ s \in GameType /\ Apart(s)
      /\ s = [g EXCEPT !.pile = s.pile, !.table = s.table]
      /\ s.lastCapturer = Nobody => s.pile[0] = {} /\ s.pile[1] = {}
      /\ s.table = <<>> \/ (s.pile[0] = {} /\ s.pile[1] = {})
  BY SweptClean
<1>2. f = [s EXCEPT !.score = score, !.phase = phase, !.winner = winner]
  BY DEF Finalized
<1> HIDE DEF s, f
<1>3. score \in [Players -> Nat]
  <2>1. \A p \in Players : g.score[p] \in Nat /\ Points(s, p) \in Nat
    BY <1>1, PointsAreNumbers DEF GameType
  <2> QED
    BY <2>1
<1>4. phase \in Over /\ phase \in Phases
  BY DEF Over, Phases
<1>5. winner \in Players \cup {Nobody}
  <2> HIDE DEF leads
  <2> QED
    OBVIOUS
<1> HIDE DEF score, phase, winner
<1>6. /\ s.deck = <<>> /\ s.hand[0] = <<>> /\ s.hand[1] = <<>> /\ s.captures = {}
  BY <1>1 DEF GameType
<1>7. /\ f \in GameType /\ f.phase = phase
      /\ f.deck = s.deck /\ f.hand = s.hand /\ f.table = s.table /\ f.pile = s.pile
      /\ f.lastCapturer = s.lastCapturer /\ f.captures = s.captures
  <2>1. ASSUME NEW x, x = [s EXCEPT !.score = score, !.phase = phase, !.winner = winner]
        PROVE  x = [deck |-> s.deck, table |-> s.table, hand |-> s.hand, pile |-> s.pile,
                    scope |-> s.scope, score |-> score, phase |-> phase, turn |-> s.turn,
                    lastCapturer |-> s.lastCapturer, round |-> s.round, selected |-> s.selected,
                    captures |-> s.captures, winner |-> winner]
    BY <1>1, <2>1 DEF GameType
  <2>2. f = [deck |-> s.deck, table |-> s.table, hand |-> s.hand, pile |-> s.pile,
             scope |-> s.scope, score |-> score, phase |-> phase, turn |-> s.turn,
             lastCapturer |-> s.lastCapturer, round |-> s.round, selected |-> s.selected,
             captures |-> s.captures, winner |-> winner]
    BY <1>2, <2>1
  <2> QED
    BY <1>1, <1>3, <1>4, <1>5, <2>2 DEF GameType
<1>8. Apart(f)
  BY <1>1, <1>7 DEF Apart
<1>9. Stocked(f)
  <2>1. Len(f.deck) = 0 /\ Len(f.hand[0]) = 0 /\ Len(f.hand[1]) = 0
    BY <1>6, <1>7, EmptyHand
  <2>2. Len(f.deck) = 2 * HandCards * 0 /\ Len(f.hand[0]) <= HandCards /\ Len(f.hand[1]) <= HandCards
    BY <2>1, Constants
  <2> QED
    BY <1>1, <1>7, <2>2 DEF Stocked
<1>10. Phased(f)
  <2>1. f.phase \notin InPlay /\ f.phase # "InitRound"
    BY <1>4, <1>7 DEF Over, InPlay
  <2> QED
    BY <1>1, <1>6, <1>7, <2>1 DEF Phased, InPlay
<1> QED
  BY <1>4, <1>7, <1>8, <1>9, <1>10 DEF GameInv, f

\* After a card was played, with the turn passed: a hand goes on, the next is due, or the round ends.
LEMMA TurnEnds ==
  ASSUME NEW g \in GameType, Apart(g), Stocked(g), Even(g)
  PROVE  GameInv(AfterTurn(g))
<1> DEFINE c == Cleared(g)
<1>1. c = [g EXCEPT !.selected = 0, !.captures = {}]
  BY DEF Cleared
<1>2. /\ c \in GameType /\ c.captures = {} /\ c.deck = g.deck /\ c.hand = g.hand /\ c.table = g.table
      /\ c.pile = g.pile /\ c.lastCapturer = g.lastCapturer /\ c.turn = g.turn /\ c.round = g.round
  <2>1. 0 \in 0..HandCards /\ {} \in SUBSET SUBSET Nat
    BY Constants
  <2> QED
    BY <1>1, <2>1 DEF GameType
<1> HIDE DEF c
<1>3. Apart(c) /\ Stocked(c) /\ Even(c)
  BY <1>2 DEF Apart, Stocked, Even, Starter
<1>4. \A p \in Players : /\ g.hand[p] \in Seq(Deck) /\ Len(g.hand[p]) \in Nat
                         /\ g.hand[p] = <<>> <=> Len(g.hand[p]) = 0
  BY Places DEF GameType
<1>5. CASE \E p \in Players : g.hand[p] # <<>>
  <2> DEFINE a == [c EXCEPT !.phase = Turn(g.turn)]
  <2>1. AfterTurn(g) = a
    BY <1>2, <1>5 DEF AfterTurn, c
  <2>2. g.turn \in Players /\ Turn(g.turn) \in Phases
    BY DEF GameType, Turn, Phases
  <2>3. /\ a \in GameType /\ a.captures = {} /\ a.deck = g.deck /\ a.hand = g.hand
        /\ a.table = g.table /\ a.pile = g.pile /\ a.lastCapturer = g.lastCapturer
        /\ a.turn = g.turn /\ a.round = g.round /\ a.phase = Turn(g.turn)
    BY <1>2, <2>2 DEF GameType
  <2> HIDE DEF a
  <2>4. Apart(a) /\ Stocked(a) /\ Even(a)
    BY <1>2, <1>3, <2>3 DEF Apart, Stocked, Even, Starter
  <2>5. Len(a.hand[a.turn]) > 0
    <3>1. Len(g.hand[g.turn]) \in Nat /\ Len(g.hand[1 - g.turn]) \in Nat /\ 1 - g.turn \in Players
      BY <1>4, <2>2 DEF Players
    <3>2. \A p \in Players : p = g.turn \/ p = 1 - g.turn
      BY <2>2 DEF Players
    <3>3. Len(g.hand[g.turn]) > 0 \/ Len(g.hand[1 - g.turn]) > 0
      BY <1>4, <1>5, <3>1, <3>2
    <3>4. Len(g.hand[g.turn]) >= Len(g.hand[1 - g.turn])
      <4> DEFINE own == Len(g.hand[g.turn])
                 others == Len(g.hand[1 - g.turn])
      <4>1. own = others + 0 \/ own = others + 1
        BY DEF Even
      <4>2. own \in Nat /\ others \in Nat
        BY <3>1
      <4> HIDE DEF own, others
      <4>3. own >= others
        BY <4>1, <4>2
      <4> QED
        BY <4>3 DEF own, others
    <3> QED
      BY <2>3, <3>1, <3>3, <3>4
  <2>6. Phased(a)
    BY <2>2, <2>3, <2>4, <2>5 DEF Phased, Turn, InPlay, Over, Players
  <2> QED
    BY <2>1, <2>3, <2>4, <2>6 DEF GameInv
<1>6. CASE (\A p \in Players : g.hand[p] = <<>>) /\ g.deck # <<>>
  <2> DEFINE a == [c EXCEPT !.phase = "InitRound"]
  <2>1. AfterTurn(g) = a
    BY <1>2, <1>6 DEF AfterTurn, c
  <2>2. /\ a \in GameType /\ a.captures = {} /\ a.deck = g.deck /\ a.hand = g.hand
        /\ a.table = g.table /\ a.pile = g.pile /\ a.lastCapturer = g.lastCapturer
        /\ a.turn = g.turn /\ a.round = g.round /\ a.phase = "InitRound"
    BY <1>2 DEF GameType, Phases
  <2> HIDE DEF a
  <2>3. Apart(a) /\ Stocked(a)
    BY <1>2, <1>3, <2>2 DEF Apart, Stocked
  <2>4. Phased(a)
    BY <1>6, <2>2 DEF Phased, InPlay, Over, Players
  <2> QED
    BY <2>1, <2>2, <2>3, <2>4 DEF GameInv
<1>7. CASE (\A p \in Players : g.hand[p] = <<>>) /\ g.deck = <<>>
  <2>1. AfterTurn(g) = Finalized(c)
    BY <1>2, <1>7 DEF AfterTurn, c
  <2>2. c.deck = <<>> /\ c.hand[0] = <<>> /\ c.hand[1] = <<>>
    BY <1>2, <1>7 DEF Players
  <2> QED
    BY <1>2, <1>3, <2>1, <2>2, RoundFinalized
<1> QED
  BY <1>5, <1>6, <1>7

\* The places of the cards when one is played.
LEMMA CardMoves ==
  ASSUME NEW d, NEW t, NEW h0, NEW h1, NEW p0, NEW p1, Partition(d, t, h0, h1, p0, p1),
         NEW c, NEW taken, taken \subseteq t
  PROVE  /\ c \in h0 => /\ Partition(d, t \cup {c}, h0 \ {c}, h1, p0, p1)
                        /\ Partition(d, t \ taken, h0 \ {c}, h1, p0 \cup ({c} \cup taken), p1)
         /\ c \in h1 => /\ Partition(d, t \cup {c}, h0, h1 \ {c}, p0, p1)
                        /\ Partition(d, t \ taken, h0, h1 \ {c}, p0, p1 \cup ({c} \cup taken))
<1>1. ASSUME c \in h0
      PROVE  /\ Partition(d, t \cup {c}, h0 \ {c}, h1, p0, p1)
             /\ Partition(d, t \ taken, h0 \ {c}, h1, p0 \cup ({c} \cup taken), p1)
  <2>1. Partition(d, t \cup {c}, h0 \ {c}, h1, p0, p1)
    BY <1>1 DEF Partition
  <2>2. Partition(d, t \ taken, h0 \ {c}, h1, p0 \cup ({c} \cup taken), p1)
    BY <1>1 DEF Partition
  <2> QED
    BY <2>1, <2>2
<1>2. ASSUME c \in h1
      PROVE  /\ Partition(d, t \cup {c}, h0, h1 \ {c}, p0, p1)
             /\ Partition(d, t \ taken, h0, h1 \ {c}, p0, p1 \cup ({c} \cup taken))
  <2>1. Partition(d, t \cup {c}, h0, h1 \ {c}, p0, p1)
    BY <1>2 DEF Partition
  <2>2. Partition(d, t \ taken, h0, h1 \ {c}, p0, p1 \cup ({c} \cup taken))
    BY <1>2 DEF Partition
  <2> QED
    BY <2>1, <2>2
<1> QED
  BY <1>1, <1>2

\* A card that is played leaves the hand for the table, or for the pile with what it captures.
Result(g, h, p, i, option) ==
    LET c == g.hand[p][i]
        cards == CardsAt(g.table, option)
    IN /\ c \in ToSet(g.hand[p]) /\ c \notin ToSet(g.table) /\ cards \subseteq ToSet(g.table)
       /\ ToSet(h.hand[p]) = ToSet(g.hand[p]) \ {c}
       /\ ToSet(h.table) = IF option = {} THEN ToSet(g.table) \cup {c} ELSE ToSet(g.table) \ cards
       /\ h.pile[p] = g.pile[p] \cup (IF option = {} THEN {} ELSE {c} \cup cards)

LEMMA CardPlayed ==
  ASSUME NEW g, GameInv(g), g.phase \in InPlay, NEW p, p = g.turn,
         NEW i \in 1..Len(g.hand[p]), NEW option \in SUBSET (1..Len(g.table))
  PROVE  LET m == Played(g, p, i, option)
         IN /\ m \in GameType /\ Apart(m) /\ Stocked(m) /\ Even(m) /\ m.turn = 1 - p
            /\ Result(g, m, p, i, option)
<1> DEFINE c == g.hand[p][i]
           captures == option # {}
           cards == CardsAt(g.table, option)
           table == IF captures THEN Erased(g.table, option) ELSE Append(g.table, c)
           taken == IF captures THEN {c} \cup cards ELSE {}
           last == IF captures THEN p ELSE g.lastCapturer
           swept == IF captures /\ table = <<>> /\ ~FinalPlay(g) THEN 1 ELSE 0
           fewer == RemoveAt(g.hand[p], i)
           hand == [g.hand EXCEPT ![p] = fewer]
           pile == [g.pile EXCEPT ![p] = @ \cup taken]
           scope == [g.scope EXCEPT ![p] = @ + swept]
           m == [g EXCEPT !.hand = hand, !.table = table, !.pile = pile, !.scope = scope,
                          !.lastCapturer = last, !.turn = 1 - p]
<1>1. /\ g \in GameType /\ Apart(g) /\ Stocked(g) /\ Phased(g) /\ Even(g)
  BY DEF GameInv, Phased
<1>2. p \in Players /\ 1 - p \in Players /\ p \in {0, 1}
  BY <1>1 DEF GameType, Players
<1>3. g.hand[p] \in Seq(Deck) /\ g.table \in Seq(Deck) /\ IsInjective(g.hand[p]) /\ IsInjective(g.table)
  BY <1>1, <1>2 DEF GameType, Apart
<1>4. c \in ToSet(g.hand[p]) /\ c \in Deck
  BY <1>3, Places
<1>5. /\ fewer \in Seq(Deck) /\ Len(fewer) = Len(g.hand[p]) - 1
      /\ IsInjective(fewer) /\ ToSet(fewer) = ToSet(g.hand[p]) \ {c}
  BY <1>3, Removed
<1>6. cards \subseteq ToSet(g.table)
  BY <1>3, Places DEF CardsAt
<1>7. c \notin ToSet(g.table)
  BY <1>1, <1>2, <1>4 DEF Apart, Partition
<1>8. /\ table \in Seq(Deck) /\ IsInjective(table)
      /\ ToSet(table) = IF captures THEN ToSet(g.table) \ cards ELSE ToSet(g.table) \cup {c}
  <2>1. CASE captures
    BY <1>3, <2>1, ErasedCards
  <2>2. CASE ~captures
    BY <1>3, <1>4, <1>7, <2>2, Appended
  <2> QED
    BY <2>1, <2>2
<1>9. taken \subseteq Deck
  BY <1>3, <1>4, <1>6, Places
<1>10. Played(g, p, i, option) = m
  BY <1>1 DEF Played, Other, GameType
<1>11. swept \in Nat
  OBVIOUS
<1>12. last \in Players \cup {Nobody}
  BY <1>1, <1>2 DEF GameType
<1>13. /\ hand[p] = fewer /\ hand[1 - p] = g.hand[1 - p] /\ hand \in [Players -> Seq(Deck)]
  <2> HIDE DEF fewer
  <2>1. g.hand \in [Players -> Seq(Deck)] /\ p # 1 - p
    BY <1>1, <1>2 DEF GameType
  <2> QED
    BY <1>2, <1>5, <2>1
<1>14. /\ pile[p] = g.pile[p] \cup taken /\ pile[1 - p] = g.pile[1 - p]
       /\ pile \in [Players -> SUBSET Deck]
  <2> HIDE DEF taken
  <2>1. g.pile \in [Players -> SUBSET Deck] /\ p # 1 - p
    BY <1>1, <1>2 DEF GameType
  <2>2. g.pile[p] \cup taken \in SUBSET Deck
    BY <1>2, <1>9, <2>1
  <2> QED
    BY <1>2, <2>1, <2>2
<1>15. scope \in [Players -> Nat]
  <2> HIDE DEF swept
  <2>1. g.scope \in [Players -> Nat]
    BY <1>1 DEF GameType
  <2>2. g.scope[p] + swept \in Nat
    BY <1>2, <1>11, <2>1
  <2> QED
    BY <1>2, <2>1, <2>2
<1>16. captures => last = p /\ taken = {c} \cup cards
  OBVIOUS
<1>17. ~captures => last = g.lastCapturer /\ taken = {}
  OBVIOUS
<1> HIDE DEF c, cards, table, taken, last, swept, fewer, hand, pile, scope, captures
<1>18. /\ m \in GameType /\ m.deck = g.deck /\ m.hand = hand /\ m.table = table /\ m.pile = pile
       /\ m.lastCapturer = last /\ m.turn = 1 - p /\ m.round = g.round
  <2>1. ASSUME NEW x, x = [g EXCEPT !.hand = hand, !.table = table, !.pile = pile, !.scope = scope,
                                    !.lastCapturer = last, !.turn = 1 - p]
        PROVE  x = [deck |-> g.deck, table |-> table, hand |-> hand, pile |-> pile,
                    scope |-> scope, score |-> g.score, phase |-> g.phase, turn |-> 1 - p,
                    lastCapturer |-> last, round |-> g.round, selected |-> g.selected,
                    captures |-> g.captures, winner |-> g.winner]
    BY <1>1, <2>1 DEF GameType
  <2>2. m = [deck |-> g.deck, table |-> table, hand |-> hand, pile |-> pile,
             scope |-> scope, score |-> g.score, phase |-> g.phase, turn |-> 1 - p,
             lastCapturer |-> last, round |-> g.round, selected |-> g.selected,
             captures |-> g.captures, winner |-> g.winner]
    BY <2>1
  <2>3. /\ g.deck \in Seq(Deck) /\ g.score \in [Players -> Nat] /\ g.phase \in Phases
        /\ g.round \in 1..MaxRounds /\ g.selected \in 0..HandCards
        /\ g.captures \in SUBSET SUBSET Nat /\ g.winner \in Players \cup {Nobody}
    BY <1>1 DEF GameType
  <2> HIDE DEF m
  <2> QED
    BY <1>2, <1>8, <1>12, <1>13, <1>14, <1>15, <2>2, <2>3 DEF GameType
<1> HIDE DEF m
<1>19. Apart(m)
  <2> DEFINE d == ToSet(g.deck)
             t == ToSet(g.table)
             h(q) == ToSet(g.hand[q])
  <2>1. /\ IsInjective(g.deck) /\ IsInjective(g.hand[0]) /\ IsInjective(g.hand[1])
        /\ Partition(d, t, h(0), h(1), g.pile[0], g.pile[1])
    BY <1>1 DEF Apart
  <2> HIDE DEF d, t, h
  <2>2. /\ c \in h(0) => /\ Partition(d, t \cup {c}, h(0) \ {c}, h(1), g.pile[0], g.pile[1])
                         /\ Partition(d, t \ cards, h(0) \ {c}, h(1),
                                      g.pile[0] \cup ({c} \cup cards), g.pile[1])
        /\ c \in h(1) => /\ Partition(d, t \cup {c}, h(0), h(1) \ {c}, g.pile[0], g.pile[1])
                         /\ Partition(d, t \ cards, h(0), h(1) \ {c},
                                      g.pile[0], g.pile[1] \cup ({c} \cup cards))
    <3>1. cards \subseteq t
      BY <1>6 DEF t
    <3> QED
      BY <2>1, <3>1, CardMoves
  <2>3. c \in h(p)
    BY <1>4 DEF h
  <2>4. /\ ToSet(m.deck) = d
        /\ ToSet(m.table) = IF captures THEN t \ cards ELSE t \cup {c}
    BY <1>8, <1>18 DEF d, t
  <2>5. /\ ToSet(m.hand[p]) = h(p) \ {c} /\ ToSet(m.hand[1 - p]) = h(1 - p)
        /\ IsInjective(m.hand[p]) /\ IsInjective(m.hand[1 - p])
    BY <1>2, <1>5, <1>13, <1>18, <2>1 DEF h
  <2>6. /\ m.pile[p] = (IF captures THEN g.pile[p] \cup ({c} \cup cards) ELSE g.pile[p])
        /\ m.pile[1 - p] = g.pile[1 - p]
    BY <1>14, <1>16, <1>17, <1>18
  <2>7. IsInjective(m.deck) /\ IsInjective(m.table)
    BY <1>8, <1>18, <2>1
  <2>8. CASE p = 0
    <3>1. /\ 1 - p = 1 /\ ToSet(m.hand[0]) = h(0) \ {c} /\ ToSet(m.hand[1]) = h(1)
          /\ m.pile[0] = (IF captures THEN g.pile[0] \cup ({c} \cup cards) ELSE g.pile[0])
          /\ m.pile[1] = g.pile[1] /\ IsInjective(m.hand[0]) /\ IsInjective(m.hand[1])
      BY <2>5, <2>6, <2>8
    <3>2. Partition(ToSet(m.deck), ToSet(m.table), ToSet(m.hand[0]), ToSet(m.hand[1]),
                    m.pile[0], m.pile[1])
      <4>1. CASE captures
        BY <2>2, <2>3, <2>4, <2>8, <3>1, <4>1
      <4>2. CASE ~captures
        BY <2>2, <2>3, <2>4, <2>8, <3>1, <4>2
      <4> QED
        BY <4>1, <4>2
    <3> QED
      BY <2>7, <3>1, <3>2 DEF Apart
  <2>9. CASE p = 1
    <3>1. /\ 1 - p = 0 /\ ToSet(m.hand[1]) = h(1) \ {c} /\ ToSet(m.hand[0]) = h(0)
          /\ m.pile[1] = (IF captures THEN g.pile[1] \cup ({c} \cup cards) ELSE g.pile[1])
          /\ m.pile[0] = g.pile[0] /\ IsInjective(m.hand[0]) /\ IsInjective(m.hand[1])
      BY <2>5, <2>6, <2>9
    <3>2. Partition(ToSet(m.deck), ToSet(m.table), ToSet(m.hand[0]), ToSet(m.hand[1]),
                    m.pile[0], m.pile[1])
      <4>1. CASE captures
        BY <2>2, <2>3, <2>4, <2>9, <3>1, <4>1
      <4>2. CASE ~captures
        BY <2>2, <2>3, <2>4, <2>9, <3>1, <4>2
      <4> QED
        BY <4>1, <4>2
    <3> QED
      BY <2>7, <3>1, <3>2 DEF Apart
  <2> QED
    BY <1>2, <2>8, <2>9
<1> DEFINE own == Len(g.hand[p])
           others == Len(g.hand[1 - p])
<1>20. own \in Nat /\ others \in Nat /\ Len(m.hand[p]) = own - 1 /\ Len(m.hand[1 - p]) = others
  <2>1. g.hand[1 - p] \in Seq(Deck)
    BY <1>1, <1>2 DEF GameType
  <2> QED
    BY <1>3, <1>5, <1>13, <1>18, <2>1, Places
<1>21. Stocked(m)
  <2>1. \E n \in Nat : Len(m.deck) = 2 * HandCards * n
    BY <1>1, <1>18 DEF Stocked
  <2>2. own <= HandCards /\ others <= HandCards
    BY <1>1, <1>2 DEF Stocked
  <2> HIDE DEF own, others
  <2>3. Len(m.hand[p]) <= HandCards /\ Len(m.hand[1 - p]) <= HandCards
    BY <1>20, <2>2, Constants
  <2>4. Len(m.hand[0]) <= HandCards /\ Len(m.hand[1]) <= HandCards
    BY <1>2, <2>3
  <2>5. ASSUME m.lastCapturer = Nobody PROVE m.pile[0] = {} /\ m.pile[1] = {}
    <3>1. ~captures /\ g.lastCapturer = Nobody
      BY <1>2, <1>16, <1>17, <1>18, <2>5 DEF Nobody
    <3>2. m.pile[p] = g.pile[p] /\ m.pile[1 - p] = g.pile[1 - p]
      BY <1>14, <1>17, <1>18, <3>1
    <3>3. g.pile[0] = {} /\ g.pile[1] = {}
      BY <1>1, <3>1 DEF Stocked
    <3> QED
      BY <1>2, <3>2, <3>3
  <2> QED
    BY <2>1, <2>4, <2>5 DEF Stocked
<1>22. Even(m)
  <2>1. Starter(m) = Starter(g) /\ Starter(g) \in {0, 1}
    BY <1>1, <1>18, StarterPlays DEF Starter, Players
  <2>2. own = others + (IF p = Starter(g) THEN 0 ELSE 1)
    BY <1>1 DEF Even
  <2> HIDE DEF own, others
  <2>3. Len(m.hand[1 - p]) = Len(m.hand[p]) + (IF 1 - p = Starter(g) THEN 0 ELSE 1)
    <3>1. CASE p = Starter(g)
      <4>1. 1 - p # Starter(g)
        BY <1>2, <3>1
      <4> QED
        BY <1>20, <2>2, <3>1, <4>1
    <3>2. CASE p # Starter(g)
      <4>1. 1 - p = Starter(g)
        BY <1>2, <2>1, <3>2
      <4> QED
        BY <1>20, <2>2, <3>2, <4>1
    <3> QED
      BY <3>1, <3>2
  <2>4. m.turn = 1 - p /\ 1 - m.turn = p
    BY <1>2, <1>18
  <2> QED
    BY <2>1, <2>3, <2>4 DEF Even
<1>23. ToSet(m.hand[p]) = ToSet(g.hand[p]) \ {c}
  BY <1>5, <1>13, <1>18
<1>24. ToSet(m.table) = IF option = {} THEN ToSet(g.table) \cup {c} ELSE ToSet(g.table) \ cards
  BY <1>8, <1>18 DEF captures
<1>25. m.pile[p] = g.pile[p] \cup (IF option = {} THEN {} ELSE {c} \cup cards)
  BY <1>14, <1>18 DEF captures, taken
<1>26. Result(g, m, p, i, option)
  BY <1>4, <1>6, <1>7, <1>23, <1>24, <1>25 DEF Result, c, cards
<1>27. m \in GameType /\ m.turn = 1 - p
  BY <1>18
<1> QED
  BY <1>10, <1>19, <1>21, <1>22, <1>26, <1>27

\* A move keeps the game in order, whatever it captures.
LEMMA MoveKeepsGame ==
  ASSUME NEW g, GameInv(g), g.phase \in InPlay, NEW p, p = g.turn,
         NEW i \in 1..Len(g.hand[p]), NEW option \in SUBSET (1..Len(g.table))
  PROVE  GameInv(Moved(g, p, i, option))
<1> DEFINE m == Played(g, p, i, option)
<1>1. m \in GameType /\ Apart(m) /\ Stocked(m) /\ Even(m)
  BY CardPlayed
<1> HIDE DEF m
<1>2. GameInv(AfterTurn(m))
  BY <1>1, TurnEnds
<1> QED
  BY <1>2 DEF Moved, m
-----------------------------------------------------------------------------
(* Taps and frames *)

LEMMA GreatestOfThree == ASSUME NEW a \in Nat, NEW b \in Nat, NEW c \in Nat PROVE Max({a, b, c}) \in Nat
<1>1. \E x \in {a, b, c} : \A y \in {a, b, c} : x >= y
  <2>1. CASE a >= b /\ a >= c
    BY <2>1
  <2>2. CASE b >= a /\ b >= c
    BY <2>2
  <2>3. CASE c >= a /\ c >= b
    BY <2>3
  <2> QED
    BY <2>1, <2>2, <2>3
<1>2. Max({a, b, c}) \in {a, b, c}
  BY <1>1 DEF Max
<1> QED
  BY <1>2

LEMMA TimersRun ==
  ASSUME ScopaInv
  PROVE  /\ dealing \in Nat /\ flights \in Nat /\ pause \in Nat /\ pending \in Nat
         /\ botDelay \in Nat /\ drawn \in Nat
         /\ Elapsed(dealing) \in Nat /\ Elapsed(flights) \in Nat /\ Elapsed(pause) \in Nat
         /\ Elapsed(pending) \in Nat
         /\ pending # 1 => (Elapsed(pending) > 0 <=> pending > 0)
BY DEF ScopaInv, Elapsed

LEMMA OnTurnInPlay ==
  ASSUME ScopaInv
  PROVE  /\ OnTurn => game.phase \in InPlay /\ game.turn = 0 /\ pending = 0
         /\ game.phase = "BotTurn" => game.turn = 1 /\ pending = 0 /\ ~menuOpen
         /\ game.phase \in InPlay <=> OnTurn \/ game.phase = "BotTurn"
<1>1. Phased(game) /\ pending \in Nat
  BY DEF ScopaInv, GameInv
<1> QED
  BY <1>1 DEF ScopaInv, Phased, OnTurn, InPlay

\* A move by who is on turn keeps everything in order.
LEMMA ApplyMoveKeeps ==
  ASSUME ScopaInv, NEW p, p = game.turn, game.phase \in InPlay, ~menuOpen,
         NEW i \in 1..Len(game.hand[p]), NEW option \in SUBSET (1..Len(game.table)),
         NEW flying \in Nat, NEW paused \in Nat,
         ApplyMove(p, i, option, flying, paused),
         dealing' \in Nat, drawn' \in Nat, menuOpen' = menuOpen
  PROVE  ScopaInv'
<1> DEFINE g == Moved(game, p, i, option)
<1>1. GameInv(g)
  BY MoveKeepsGame DEF ScopaInv
<1>2. /\ game' = g
      /\ flights' = Larger(flying, IF option = {} THEN PlaceTime ELSE CaptureTime)
      /\ pause' = Max({paused, IF option = {} THEN 0 ELSE PauseTime,
                       IF g.phase = "InitRound" THEN HandPause ELSE 0})
      /\ pending' = NextHandDelay(g)
      /\ botDelay' = IF g.phase = "BotTurn" THEN BotTime ELSE 0
  BY DEF ApplyMove
<1> HIDE DEF g
<1>3. GameInv(game')
  BY <1>1, <1>2
<1>4. flights' \in Nat
  BY <1>2, Constants DEF Larger
<1>5. pause' \in Nat
  <2>1. /\ (IF option = {} THEN 0 ELSE PauseTime) \in Nat
        /\ (IF g.phase = "InitRound" THEN HandPause ELSE 0) \in Nat
    BY Constants
  <2> QED
    BY <1>2, <2>1, GreatestOfThree
<1>6. pending' \in Nat /\ (pending' > 0 <=> game'.phase = "InitRound")
  BY <1>2, Constants DEF NextHandDelay
<1>7. botDelay' \in Nat
  BY <1>2, Constants
<1>8. menuOpen' \in BOOLEAN /\ ~menuOpen'
  BY DEF ScopaInv
<1> QED
  BY <1>3, <1>4, <1>5, <1>6, <1>7, <1>8 DEF ScopaInv

\* So does the start of a round, with the menu closed.
LEMMA StartRoundKeeps ==
  ASSUME ScopaInv, NEW g \in GameType, StartRound(g), pending = 0, menuOpen' = FALSE
  PROVE  ScopaInv'
<1>1. GameInv(game') /\ game'.phase = Turn(Starter(g))
  BY RoundStarts DEF StartRound
<1>2. game'.phase # "InitRound"
  BY <1>1, StarterPlays DEF InPlay
<1>3. /\ dealing' \in Nat /\ botDelay' \in Nat /\ flights' \in Nat /\ pause' \in Nat
      /\ pending' = 0 /\ drawn' \in Nat
  BY Constants, TimersRun DEF StartRound
<1>4. pending' > 0 <=> game'.phase = "InitRound"
  BY <1>2, <1>3
<1>5. menuOpen' \in BOOLEAN /\ ~menuOpen' /\ pending' \in Nat
  BY <1>3
<1> QED
  BY <1>1, <1>3, <1>4, <1>5 DEF ScopaInv

LEMMA MenuKeeps ==
  ASSUME ScopaInv, OpenMenu \/ CloseMenu PROVE ScopaInv'
BY DEF ScopaInv, OpenMenu, CloseMenu, OnTurn

LEMMA MenuNewGameKeeps == ASSUME ScopaInv, MenuNewGame PROVE ScopaInv'
BY NewMatchTyped, OnTurnInPlay, StartRoundKeeps DEF MenuNewGame

LEMMA TapCardKeeps ==
  ASSUME ScopaInv, NEW i \in 1..HandCards, TapCard(i) PROVE ScopaInv'
<1> DEFINE options == CaptureOptions(game.hand[0][i], game.table)
<1>1. /\ OnTurn /\ ~menuOpen /\ i \in DOMAIN game.hand[0]
      /\ UNCHANGED <<dealing, menuOpen, drawn>>
  BY DEF TapCard, CardsHear
<1>2. /\ game \in GameType /\ Apart(game) /\ Stocked(game) /\ Phased(game)
      /\ game.phase \in InPlay /\ game.turn = 0 /\ pending = 0
  BY <1>1, OnTurnInPlay DEF ScopaInv, GameInv
<1>3. game.hand[0] \in Seq(Deck) /\ game.table \in Seq(Deck) /\ i \in 1..Len(game.hand[0])
  BY <1>1, <1>2, Places DEF GameType, Players
<1>4. options \subseteq SUBSET (1..Len(game.table))
  BY <1>3, OptionsArePlaces
<1> HIDE DEF options
<1>5. CASE /\ game' = [game EXCEPT !.phase = "PlayerTurn", !.selected = 0, !.captures = {}]
           /\ UNCHANGED <<flights, pause, pending, botDelay>>
  <2>1. /\ game' \in GameType /\ game'.phase = "PlayerTurn" /\ game'.captures = {}
        /\ game'.hand = game.hand /\ game'.deck = game.deck /\ game'.table = game.table
        /\ game'.pile = game.pile /\ game'.lastCapturer = game.lastCapturer
        /\ game'.turn = game.turn /\ game'.round = game.round
    <3>1. 0 \in 0..HandCards /\ {} \in SUBSET SUBSET Nat /\ "PlayerTurn" \in Phases
      BY Constants DEF Phases
    <3> QED
      BY <1>2, <1>5, <3>1 DEF GameType
  <2>2. Apart(game') /\ Stocked(game')
    BY <1>2, <2>1 DEF Apart, Stocked
  <2>3. Phased(game')
    BY <1>2, <2>1 DEF Phased, Even, Starter, InPlay, Over
  <2> QED
    BY <1>1, <1>2, <1>5, <2>1, <2>2, <2>3 DEF ScopaInv, GameInv
<1>6. CASE /\ game' = [game EXCEPT !.phase = "PlayerChooseCapture", !.selected = i,
                                   !.captures = options]
           /\ UNCHANGED <<flights, pause, pending, botDelay>>
  <2>1. /\ game' \in GameType /\ game'.phase = "PlayerChooseCapture" /\ game'.captures = options
        /\ game'.hand = game.hand /\ game'.deck = game.deck /\ game'.table = game.table
        /\ game'.pile = game.pile /\ game'.lastCapturer = game.lastCapturer
        /\ game'.turn = game.turn /\ game'.round = game.round /\ game'.selected = i
    <3>1. i \in 0..HandCards /\ "PlayerChooseCapture" \in Phases
      BY Constants DEF Phases
    <3>2. options \in SUBSET SUBSET Nat
      BY <1>4
    <3> QED
      BY <1>2, <1>6, <3>1, <3>2 DEF GameType
  <2>2. Apart(game') /\ Stocked(game')
    BY <1>2, <2>1 DEF Apart, Stocked
  <2>3. Phased(game')
    <3>1. game'.captures = CaptureOptions(game'.hand[0][game'.selected], game'.table)
      BY <2>1 DEF options
    <3> QED
      BY <1>2, <1>3, <1>4, <2>1, <3>1 DEF Phased, Even, Starter, InPlay, Over
  <2> QED
    BY <1>1, <1>2, <1>6, <2>1, <2>2, <2>3 DEF ScopaInv, GameInv
<1>7. CASE ApplyMove(0, i, UNION options, flights, pause)
  <2>1. UNION options \in SUBSET (1..Len(game.table))
    BY <1>4
  <2>2. dealing' \in Nat /\ drawn' \in Nat /\ flights \in Nat /\ pause \in Nat
    BY <1>1, TimersRun
  <2> QED
    BY <1>1, <1>2, <1>3, <1>7, <2>1, <2>2, ApplyMoveKeeps
<1> QED
  BY <1>5, <1>6, <1>7 DEF TapCard, options

LEMMA TapCaptureKeeps == ASSUME ScopaInv, TapCapture PROVE ScopaInv'
<1>1. /\ OnTurn /\ ~menuOpen /\ game.phase = "PlayerChooseCapture"
      /\ UNCHANGED <<dealing, menuOpen, drawn>>
  BY DEF TapCapture, CardsHear
<1>2. PICK option \in game.captures \cup {{}} : ApplyMove(0, game.selected, option, flights, pause)
  BY DEF TapCapture
<1>3. /\ game.selected \in 1..Len(game.hand[0]) /\ game.captures \subseteq SUBSET (1..Len(game.table))
  BY <1>1 DEF ScopaInv, GameInv, Phased
<1>4. option \in SUBSET (1..Len(game.table))
  BY <1>3
<1>5. game.phase \in InPlay /\ game.turn = 0
  BY <1>1, OnTurnInPlay
<1>6. dealing' \in Nat /\ drawn' \in Nat /\ flights \in Nat /\ pause \in Nat
  BY <1>1, TimersRun
<1> QED
  BY <1>1, <1>2, <1>3, <1>4, <1>5, <1>6, ApplyMoveKeeps

LEMMA TapContinueKeeps == ASSUME ScopaInv, TapContinue PROVE ScopaInv'
<1>1. game \in GameType /\ game.phase \in Over
  BY DEF TapContinue, ScopaInv, GameInv, Over
<1>2. pending = 0 /\ ~menuOpen
  <2>1. game.phase # "InitRound" /\ ~OnTurn
    BY <1>1 DEF Over, OnTurn
  <2> QED
    BY <2>1, TimersRun DEF ScopaInv
<1>3. menuOpen' = FALSE
  BY <1>2 DEF TapContinue, ScopaInv
<1>4. CASE StartRound(NewMatch)
  BY <1>2, <1>3, <1>4, NewMatchTyped, StartRoundKeeps
<1>5. CASE game.round < MaxRounds /\ StartRound([game EXCEPT !.round = @ + 1])
  <2> DEFINE g == [game EXCEPT !.round = @ + 1]
  <2>1. game.round + 1 \in 1..MaxRounds
    <3>1. game.round \in 1..MaxRounds /\ game.round < MaxRounds
      BY <1>1, <1>5 DEF GameType
    <3> QED
      BY <3>1, Constants
  <2>2. g \in GameType
    BY <1>1, <2>1 DEF GameType
  <2>3. StartRound(g)
    BY <1>5
  <2> HIDE DEF g
  <2> QED
    BY <1>2, <1>3, <2>2, <2>3, StartRoundKeeps
<1> QED
  BY <1>4, <1>5 DEF TapContinue

LEMMA DealNextHandsKeeps == ASSUME ScopaInv, DealNextHands PROVE ScopaInv'
<1>1. /\ pending = 1
      /\ game' = [HandsDealt(game) EXCEPT !.turn = Starter(game), !.phase = Turn(Starter(game))]
      /\ pending' = 0 /\ dealing' = DealTime /\ flights' = Elapsed(flights)
      /\ pause' = Elapsed(pause) /\ botDelay' = IF Starter(game) = 1 THEN BotTime ELSE 0
      /\ drawn' = 0 /\ menuOpen' = menuOpen
  BY DEF DealNextHands
<1>2. game.phase = "InitRound" /\ GameInv(game)
  BY <1>1 DEF ScopaInv
<1>3. GameInv(game')
  BY <1>1, <1>2, NextHandsDealt
<1>4. game'.phase # "InitRound"
  <2>1. Turn(Starter(game)) \in InPlay
    BY <1>2, StarterPlays DEF GameInv
  <2>2. HandsDealt(game) = [game EXCEPT !.deck = HandsDealt(game).deck, !.hand = HandsDealt(game).hand]
    BY <1>2 DEF HandsDealt, GameInv, GameType
  <2>3. game'.phase = Turn(Starter(game))
    BY <1>1, <1>2, <2>2 DEF GameInv, GameType
  <2> QED
    BY <2>1, <2>3 DEF InPlay
<1>5. ~menuOpen /\ menuOpen \in BOOLEAN
  BY <1>2 DEF ScopaInv, OnTurn
<1>6. dealing' \in Nat /\ flights' \in Nat /\ pause' \in Nat /\ botDelay' \in Nat
  BY <1>1, Constants, TimersRun
<1> QED
  BY <1>1, <1>3, <1>4, <1>5, <1>6 DEF ScopaInv

LEMMA UpdateBotTurnKeeps == ASSUME ScopaInv, UpdateBotTurn PROVE ScopaInv'
<1>1. PICK m \in BotMoves(game) : ApplyMove(1, m.card, m.option, 0, 0)
  BY DEF UpdateBotTurn
<1>2. /\ game.phase = "BotTurn" /\ dealing' = 0 /\ drawn' = 0 /\ menuOpen' = menuOpen
  BY DEF UpdateBotTurn, BotDue, BotHears
<1>3. game.turn = 1 /\ game.phase \in InPlay /\ ~menuOpen
  BY <1>2, OnTurnInPlay DEF InPlay
<1>4. game.hand[1] \in Seq(Deck) /\ game.table \in Seq(Deck)
  BY DEF ScopaInv, GameInv, GameType, Players
<1>5. m.card \in 1..Len(game.hand[1]) /\ m.option \in SUBSET (1..Len(game.table))
  <2>1. m \in Moves(game, 1)
    BY DEF BotMoves
  <2>2. PICK i \in DOMAIN game.hand[1] :
           LET options == CaptureOptions(game.hand[1][i], game.table)
           IN m \in {[card |-> i, option |-> o] : o \in IF options = {} THEN {{}} ELSE options}
    BY <2>1 DEF Moves
  <2>3. m.card = i /\ m.option \in CaptureOptions(game.hand[1][i], game.table) \cup {{}}
    BY <2>2
  <2>4. CaptureOptions(game.hand[1][i], game.table) \subseteq SUBSET (1..Len(game.table))
    BY <1>4, OptionsArePlaces
  <2>5. DOMAIN game.hand[1] = 1..Len(game.hand[1])
    BY <1>4, Places
  <2> QED
    BY <2>3, <2>4, <2>5
<1>6. dealing' \in Nat /\ drawn' \in Nat /\ 0 \in Nat
  BY <1>2
<1> QED
  BY <1>1, <1>2, <1>3, <1>5, <1>6, ApplyMoveKeeps

LEMMA UpdateAppKeeps == ASSUME ScopaInv, UpdateApp PROVE ScopaInv'
<1>1. /\ dealing' \in Nat /\ flights' \in Nat /\ pause' \in Nat /\ pending' \in Nat
      /\ pending' > 0 <=> pending > 0
  BY TimersRun DEF UpdateApp
<1>2. botDelay' \in Nat
  BY TimersRun DEF UpdateApp, BotDue
<1>3. drawn' \in Nat
  <2>1. game.captures \subseteq SUBSET (1..Len(game.table)) /\ Len(game.table) \in Nat
    BY Places DEF ScopaInv, GameInv, Phased, GameType
  <2>2. IsFiniteSet(1..Len(game.table))
    <3>1. 1 \in Int /\ Len(game.table) \in Int
      BY <2>1
    <3> QED
      BY <3>1, FS_Interval, Zenon
  <2>3. IsFiniteSet(SUBSET (1..Len(game.table)))
    BY <2>2, FS_SUBSET
  <2>4. IsFiniteSet(game.captures)
    BY <2>1, <2>3, FS_Subset, Zenon
  <2>5. Cardinality(game.captures) \in Nat
    BY <2>4, FS_CardinalityType
  <2> QED
    BY <2>5 DEF UpdateApp, Offered
<1>4. game' = game /\ menuOpen' = menuOpen
  BY DEF UpdateApp
<1> QED
  BY <1>1, <1>2, <1>3, <1>4 DEF ScopaInv, OnTurn

LEMMA InvInit == ASSUME Init PROVE ScopaInv
<1>1. GameInv(game) /\ game.phase = Turn(Starter(NewMatch))
  BY NewMatchTyped, RoundStarts DEF Init
<1>2. game.phase # "InitRound"
  BY <1>1, NewMatchTyped, StarterPlays DEF InPlay
<1>3. pending > 0 <=> game.phase = "InitRound"
  BY <1>2 DEF Init
<1>4. {dealing, flights, pause, pending, botDelay, drawn} \subseteq Nat
  BY Constants DEF Init
<1>5. menuOpen \in BOOLEAN /\ ~menuOpen
  BY DEF Init
<1> QED
  BY <1>1, <1>3, <1>4, <1>5 DEF ScopaInv

LEMMA InvNext == ASSUME ScopaInv, [Next]_vars PROVE ScopaInv'
<1>1. CASE UNCHANGED vars
  BY <1>1 DEF vars, ScopaInv, OnTurn
<1>2. CASE Next
  BY <1>2, MenuKeeps, MenuNewGameKeeps, TapCardKeeps, TapCaptureKeeps, TapContinueKeeps,
     DealNextHandsKeeps, UpdateBotTurnKeeps, UpdateAppKeeps DEF Next, Frame
<1> QED
  BY <1>1, <1>2

LEMMA InvAlways == Spec => []ScopaInv
BY InvInit, InvNext, PTL DEF Spec
-----------------------------------------------------------------------------
(* The theorems *)

\* Every variable of the Scopa game keeps its type: the options offered are places on the table,
\* the card selected is in reach, no timer goes below zero.
THEOREM ScopaTypesHold == Spec => []ScopaTypeOK
<1>1. ScopaInv => ScopaTypeOK
  <2> SUFFICES ASSUME ScopaInv PROVE ScopaTypeOK
    OBVIOUS
  <2>1. game \in GameType /\ game.captures \subseteq SUBSET (1..Len(game.table))
    BY DEF ScopaInv, GameInv, Phased
  <2>2. DOMAIN game.table = 1..Len(game.table)
    BY <2>1, Places DEF GameType
  <2>3. \A o \in game.captures : o \subseteq DOMAIN game.table
    BY <2>1, <2>2
  <2>4. /\ game.deck \in Seq(Deck) /\ game.table \in Seq(Deck)
        /\ \A p \in Players : game.hand[p] \in Seq(Deck) /\ game.pile[p] \subseteq Deck
        /\ \A p \in Players : game.scope[p] \in Nat /\ game.score[p] \in Nat
        /\ game.phase \in Phases /\ game.turn \in Players
        /\ {game.lastCapturer, game.winner} \subseteq Players \cup {Nobody}
        /\ game.round \in 1..MaxRounds /\ game.selected \in 0..HandCards
    BY <2>1 DEF GameType
  <2> QED
    BY <2>3, <2>4 DEF ScopaTypeOK, ScopaInv
<1> QED
  BY <1>1, InvAlways, PTL

\* However the flights, delays, the menu and the taps interleave: who is on turn has a card and as
\* many as the other, or one more; a hand is due exactly while both hands are empty and the deck
\* is not; and the menu is only open where a tap can close it.
THEOREM PhaseAlwaysInStep == Spec => []PhaseInStep
<1>1. ScopaInv => PhaseInStep
  <2> SUFFICES ASSUME ScopaInv PROVE PhaseInStep
    OBVIOUS
  <2>1. Phased(game) /\ game \in GameType
    BY DEF ScopaInv, GameInv
  <2>2. game.phase \in {"PlayerTurn", "PlayerChooseCapture", "BotTurn"} =>
          /\ Len(game.hand[game.turn]) > 0
          /\ Len(game.hand[game.turn]) =
               Len(game.hand[1 - game.turn]) + (IF game.turn = Starter(game) THEN 0 ELSE 1)
    BY <2>1 DEF Phased, InPlay, Even
  <2>3. pending > 0 <=> game.phase = "InitRound"
    BY DEF ScopaInv
  <2>4. ASSUME pending > 0 PROVE Hands = {} /\ game.deck # <<>>
    <3>1. game.hand[0] = <<>> /\ game.hand[1] = <<>> /\ game.deck # <<>>
      BY <2>1, <2>3, <2>4 DEF Phased
    <3> QED
      BY <3>1, EmptyHand DEF Hands, Players
  <2>5. menuOpen => OnTurn
    BY DEF ScopaInv
  <2> QED
    BY <2>2, <2>3, <2>4, <2>5 DEF PhaseInStep
<1> QED
  BY <1>1, InvAlways, PTL

\* A round that is over leaves no card in the deck or in a hand, and none on the table unless
\* nobody captured in it.
THEOREM RoundAlwaysSettled == Spec => []RoundSettled
<1>1. ScopaInv => RoundSettled
  <2> SUFFICES ASSUME ScopaInv, game.phase \in Over
               PROVE  /\ game.deck = <<>> /\ Hands = {}
                      /\ game.table = <<>> \/ Piles = {}
    BY DEF RoundSettled
  <2>1. /\ game.deck = <<>> /\ game.hand[0] = <<>> /\ game.hand[1] = <<>>
        /\ game.table = <<>> \/ (game.pile[0] = {} /\ game.pile[1] = {})
    BY DEF ScopaInv, GameInv, Phased
  <2> QED
    BY <2>1, EmptyHand DEF Hands, Piles, Players
<1> QED
  BY <1>1, InvAlways, PTL

\* Every card is once in the deck, on the table, in a hand or in a pile, whatever is captured by
\* index and however rounds and matches are cut short.
THEOREM CardsAlwaysKept == Spec => []CardsKept
<1>1. ScopaInv => CardsKept
  <2> SUFFICES ASSUME ScopaInv PROVE CardsKept
    OBVIOUS
  <2>1. game \in GameType /\ Apart(game)
    BY DEF ScopaInv, GameInv
  <2> DEFINE d == ToSet(game.deck)
             t == ToSet(game.table)
             a == ToSet(game.hand[0])
             b == ToSet(game.hand[1])
             x == game.pile[0]
             y == game.pile[1]
  <2>2. /\ game.deck \in Seq(Deck) /\ game.table \in Seq(Deck)
        /\ game.hand[0] \in Seq(Deck) /\ game.hand[1] \in Seq(Deck)
        /\ x \in SUBSET Deck /\ y \in SUBSET Deck
    BY <2>1 DEF GameType, Players
  <2>3. /\ Cardinality(d) = Len(game.deck) /\ Cardinality(t) = Len(game.table)
        /\ Cardinality(a) = Len(game.hand[0]) /\ Cardinality(b) = Len(game.hand[1])
    BY <2>1, <2>2, CardsOf DEF Apart
  <2>4. d \in SUBSET Deck /\ t \in SUBSET Deck /\ a \in SUBSET Deck /\ b \in SUBSET Deck
    BY <2>2, Places
  <2>5. Partition(d, t, a, b, x, y)
    BY <2>1 DEF Apart
  <2>6. Hands = a \cup b /\ Piles = x \cup y
    BY DEF Hands, Piles, Players
  <2> HIDE DEF d, t, a, b, x, y
  <2>7. d \cup t \cup a \cup b \cup x \cup y = Deck
    BY <2>5 DEF Partition
  <2>8. Cardinality(d \cup t) = Cardinality(d) + Cardinality(t)
    BY <2>4, <2>5, CardsOf DEF Partition
  <2>9. Cardinality((d \cup t) \cup a) = Cardinality(d \cup t) + Cardinality(a)
    <3>1. d \cup t \in SUBSET Deck /\ (d \cup t) \cap a = {}
      BY <2>4, <2>5 DEF Partition
    <3> QED
      BY <2>4, <3>1, CardsOf
  <2>10. Cardinality((d \cup t \cup a) \cup b) = Cardinality(d \cup t \cup a) + Cardinality(b)
    <3>1. d \cup t \cup a \in SUBSET Deck /\ (d \cup t \cup a) \cap b = {}
      BY <2>4, <2>5 DEF Partition
    <3> QED
      BY <2>4, <3>1, CardsOf
  <2>11. Cardinality((d \cup t \cup a \cup b) \cup x) = Cardinality(d \cup t \cup a \cup b) + Cardinality(x)
    <3>1. d \cup t \cup a \cup b \in SUBSET Deck /\ (d \cup t \cup a \cup b) \cap x = {}
      BY <2>4, <2>5 DEF Partition
    <3> QED
      BY <2>2, <3>1, CardsOf
  <2>12. Cardinality((d \cup t \cup a \cup b \cup x) \cup y)
           = Cardinality(d \cup t \cup a \cup b \cup x) + Cardinality(y)
    <3>1. d \cup t \cup a \cup b \cup x \in SUBSET Deck /\ (d \cup t \cup a \cup b \cup x) \cap y = {}
      BY <2>2, <2>4, <2>5 DEF Partition
    <3> QED
      BY <2>2, <3>1, CardsOf
  <2>13. Cardinality(Deck) = Cardinality(d) + Cardinality(t) + Cardinality(a) + Cardinality(b)
                               + Cardinality(x) + Cardinality(y)
    BY <2>7, <2>8, <2>9, <2>10, <2>11, <2>12
  <2>14. Len(game.deck) + Len(game.table) + Len(game.hand[0]) + Len(game.hand[1])
           + Cardinality(game.pile[0]) + Cardinality(game.pile[1]) = Cardinality(Deck)
    BY <2>3, <2>13 DEF x, y
  <2>15. ToSet(game.deck) \cup ToSet(game.table) \cup Hands \cup Piles = Deck
    BY <2>6, <2>7 DEF d, t
  <2> QED
    BY <2>14, <2>15 DEF CardsKept
<1> QED
  BY <1>1, InvAlways, PTL
-----------------------------------------------------------------------------
(* What a card that is played does *)

\* An option for a card captures what the rules allow.
LEMMA OptionsAreLegal ==
  ASSUME NEW c \in Deck, NEW t \in Seq(Deck), IsInjective(t), NEW o \in CaptureOptions(c, t)
  PROVE  /\ o \in SUBSET (1..Len(t)) /\ o # {}
         /\ Legal(c, ToSet(t), CardsAt(t, o))
<1>1. o \in SUBSET (1..Len(t)) /\ DOMAIN t = 1..Len(t) /\ ToSet(t) = {t[i] : i \in 1..Len(t)}
  BY OptionsArePlaces, Places
<1>2. CASE Singles(c, t) # {}
  <2>1. PICK i \in 1..Len(t) : Value(t[i]) = Value(c) /\ o = {i}
    BY <1>1, <1>2 DEF CaptureOptions, Singles
  <2>2. t[i] \in ToSet(t) /\ CardsAt(t, o) = {t[i]}
    BY <1>1, <2>1 DEF CardsAt
  <2> QED
    BY <1>1, <2>1, <2>2 DEF Legal
<1>3. CASE Singles(c, t) = {}
  <2>1. \A i \in 1..Len(t) : Value(t[i]) # Value(c)
    BY <1>1, <1>3 DEF Singles
  <2>2. \A x \in ToSet(t) : Value(x) # Value(c)
    BY <1>1, <2>1
  <2>3. o \in Sums(c, t)
    BY <1>3 DEF CaptureOptions
  <2>4. Total(CardsAt(t, o)) = Value(c)
    BY <1>1, <2>3, SumsAreAll
  <2>5. CardsAt(t, o) \in SUBSET Deck
    BY <1>1, Places DEF CardsAt
  <2>6. SumOf(Value, CardsAt(t, o)) = Value(c)
    BY <2>4, <2>5, TotalIs
  <2>7. o # {}
    <3> SUFFICES ASSUME o = {} PROVE FALSE
      OBVIOUS
    <3>1. CardsAt(t, o) = {}
      BY DEF CardsAt
    <3>2. Total({}) = 0
      BY TotalIs, {} \in SUBSET Deck
    <3>3. Value(c) \in 1..10
      BY ValueIs
    <3>4. Total(CardsAt(t, o)) = Total({})
      BY <3>1
    <3>5. Value(c) = 0
      BY <2>4, <3>2, <3>4
    <3> QED
      BY <3>3, <3>5
  <2> QED
    BY <1>1, <2>2, <2>6, <2>7 DEF Legal
<1> QED
  BY <1>2, <1>3

\* A card without options may capture nothing by the rules.
LEMMA NoOptionNoCapture ==
  ASSUME NEW c \in Deck, NEW t \in Seq(Deck), IsInjective(t), CaptureOptions(c, t) = {}
  PROVE  \A taken \in SUBSET ToSet(t) : ~Legal(c, ToSet(t), taken)
<1> SUFFICES ASSUME NEW taken \in SUBSET ToSet(t), Legal(c, ToSet(t), taken) PROVE FALSE
  OBVIOUS
<1>1. DOMAIN t = 1..Len(t) /\ ToSet(t) = {t[i] : i \in 1..Len(t)} /\ ToSet(t) \subseteq Deck
  BY Places
<1>2. Singles(c, t) = {} /\ Sums(c, t) = {}
  BY DEF CaptureOptions
<1>3. \A x \in ToSet(t) : Value(x) # Value(c)
  <2>1. \A i \in 1..Len(t) : Value(t[i]) # Value(c)
    BY <1>1, <1>2 DEF Singles
  <2> QED
    BY <1>1, <2>1
<1>4. SumOf(Value, taken) = Value(c)
  BY <1>3 DEF Legal
<1> DEFINE o == {i \in 1..Len(t) : t[i] \in taken}
<1>5. CardsAt(t, o) = taken
  BY <1>1 DEF CardsAt
<1>6. Total(taken) = Value(c)
  BY <1>1, <1>4, TotalIs
<1>7. o \in SUBSET (1..Len(t))
  OBVIOUS
<1> HIDE DEF o
<1>8. o \in Sums(c, t)
  BY <1>5, <1>6, <1>7, SumsAreAll
<1> QED
  BY <1>2, <1>8

LEMMA AtMostOne ==
  ASSUME NEW S, IsFiniteSet(S), Cardinality(S) <= 1
  PROVE  S = {} \/ UNION S \in S
<1>1. Cardinality(S) \in Nat
  BY FS_CardinalityType
<1>2. CASE Cardinality(S) = 0
  BY <1>2, FS_EmptySet
<1>3. CASE Cardinality(S) = 1
  <2>1. PICK x : S = {x}
    BY <1>3, FS_Singleton
  <2> QED
    BY <2>1
<1> QED
  BY <1>1, <1>2, <1>3

\* The move behind a step in which a card is played and the round goes on.
PlayedBy(i, option) ==
    /\ game.phase \in InPlay
    /\ game' = Moved(game, game.turn, i, option)
    /\ \/ option \in CaptureOptions(game.hand[game.turn][i], game.table)
       \/ option = {} /\ CaptureOptions(game.hand[game.turn][i], game.table) = {}
       \/ option = {} /\ game.phase = "PlayerChooseCapture" /\ drawn > Cardinality(game.captures)

LEMMA CaptureOptionsFinite ==
  ASSUME NEW c, NEW t \in Seq(Deck) PROVE IsFiniteSet(CaptureOptions(c, t))
<1>1. CaptureOptions(c, t) \subseteq SUBSET (1..Len(t)) /\ Len(t) \in Nat
  BY OptionsArePlaces, Places
<1>2. 1 \in Int /\ Len(t) \in Int
  BY <1>1
<1>3. IsFiniteSet(1..Len(t))
  BY <1>2, FS_Interval, Zenon
<1>4. IsFiniteSet(SUBSET (1..Len(t)))
  BY <1>3, FS_SUBSET
<1> QED
  BY <1>1, <1>4, FS_Subset, Zenon

LEMMA PlayStepIsMove ==
  ASSUME ScopaInv, [Next]_vars, PlayStep
  PROVE  \E i \in 1..Len(game.hand[game.turn]), option \in SUBSET (1..Len(game.table)) :
            PlayedBy(i, option)
<1>1. game' # game /\ dealing' = 0 /\ game'.turn # game.turn
  BY DEF PlayStep
<1>2. /\ game \in GameType /\ Phased(game) /\ game.table \in Seq(Deck)
      /\ game.hand[0] \in Seq(Deck) /\ game.hand[1] \in Seq(Deck)
  BY DEF ScopaInv, GameInv, GameType, Players
<1>3. DealTime # 0
  BY ScopaAssumption
<1>4. CASE UNCHANGED vars
  BY <1>1, <1>4 DEF vars
<1>5. CASE OpenMenu \/ CloseMenu \/ UpdateApp
  BY <1>1, <1>5 DEF OpenMenu, CloseMenu, UpdateApp
<1>6. CASE MenuNewGame \/ TapContinue \/ DealNextHands
  BY <1>1, <1>3, <1>6 DEF MenuNewGame, TapContinue, DealNextHands, StartRound
<1>7. ASSUME NEW i \in 1..HandCards, TapCard(i)
      PROVE  \E option \in SUBSET (1..Len(game.table)) :
                i \in 1..Len(game.hand[game.turn]) /\ PlayedBy(i, option)
  <2> DEFINE options == CaptureOptions(game.hand[0][i], game.table)
  <2>1. OnTurn /\ i \in 1..Len(game.hand[0]) /\ game.phase \in InPlay /\ game.turn = 0
    <3>1. OnTurn /\ i \in DOMAIN game.hand[0]
      BY <1>7 DEF TapCard
    <3> QED
      BY <1>2, <3>1, Places, OnTurnInPlay
  <2>2. options \subseteq SUBSET (1..Len(game.table)) /\ IsFiniteSet(options)
    BY <1>2, OptionsArePlaces, CaptureOptionsFinite
  <2>3. Cardinality(options) <= 1 /\ ApplyMove(0, i, UNION options, flights, pause)
    <3>1. CASE game' = [game EXCEPT !.phase = "PlayerTurn", !.selected = 0, !.captures = {}]
      <4>1. game'.turn = game.turn
        BY <1>2, <3>1 DEF GameType
      <4> QED
        BY <1>1, <4>1
    <3>2. CASE game' = [game EXCEPT !.phase = "PlayerChooseCapture", !.selected = i, !.captures = options]
      <4>1. game'.turn = game.turn
        BY <1>2, <3>2 DEF GameType
      <4> QED
        BY <1>1, <4>1
    <3> QED
      BY <1>7, <3>1, <3>2 DEF TapCard
  <2>4. game' = Moved(game, 0, i, UNION options)
    BY <2>3 DEF ApplyMove
  <2> HIDE DEF options
  <2>5. options = {} \/ UNION options \in options
    BY <2>2, <2>3, AtMostOne
  <2>6. UNION options \in SUBSET (1..Len(game.table))
    BY <2>2
  <2>7. \/ UNION options \in CaptureOptions(game.hand[0][i], game.table)
        \/ UNION options = {} /\ CaptureOptions(game.hand[0][i], game.table) = {}
    BY <2>5 DEF options
  <2>8. PlayedBy(i, UNION options)
    BY <2>1, <2>4, <2>7 DEF PlayedBy
  <2> QED
    BY <2>1, <2>6, <2>8
<1>8. ASSUME TapCapture
      PROVE  \E i \in 1..Len(game.hand[game.turn]), option \in SUBSET (1..Len(game.table)) :
                PlayedBy(i, option)
  <2> DEFINE i == game.selected
  <2>1. OnTurn /\ game.phase = "PlayerChooseCapture"
    BY <1>8 DEF TapCapture
  <2>2. PICK k \in 1..drawn :
          \E option \in IF k <= Cardinality(game.captures) THEN game.captures ELSE {{}} :
              ApplyMove(0, game.selected, option, flights, pause)
    BY <1>8 DEF TapCapture
  <2>3. PICK option \in IF k <= Cardinality(game.captures) THEN game.captures ELSE {{}} :
              ApplyMove(0, i, option, flights, pause)
    BY <2>2
  <2>4. game' = Moved(game, 0, i, option) /\ game.turn = 0 /\ game.phase \in InPlay
    BY <2>1, <2>3, OnTurnInPlay DEF ApplyMove
  <2>5. i \in 1..Len(game.hand[0]) /\ game.captures = CaptureOptions(game.hand[0][i], game.table)
    BY <1>2, <2>1 DEF Phased
  <2>6. game.captures \subseteq SUBSET (1..Len(game.table)) /\ IsFiniteSet(game.captures)
    BY <1>2, <2>5, OptionsArePlaces, CaptureOptionsFinite
  <2>7. CASE k <= Cardinality(game.captures)
    <3>1. option \in game.captures
      BY <2>3, <2>7
    <3>2. PlayedBy(i, option)
      BY <2>4, <2>5, <3>1 DEF PlayedBy
    <3>3. option \in SUBSET (1..Len(game.table))
      BY <2>6, <3>1
    <3> HIDE DEF i
    <3> QED
      BY <2>4, <2>5, <3>2, <3>3
  <2>8. CASE ~(k <= Cardinality(game.captures))
    <3>1. option = {}
      BY <2>3, <2>8
    <3>2. drawn > Cardinality(game.captures)
      <4>1. Cardinality(game.captures) \in Nat /\ drawn \in Nat
        BY <2>6, FS_CardinalityType, TimersRun
      <4> QED
        BY <2>2, <2>8, <4>1
    <3>3. PlayedBy(i, option)
      BY <2>1, <2>4, <3>1, <3>2 DEF PlayedBy
    <3>4. option \in SUBSET (1..Len(game.table))
      BY <3>1
    <3> HIDE DEF i
    <3> QED
      BY <2>4, <2>5, <3>3, <3>4
  <2> QED
    BY <2>7, <2>8
<1>9. ASSUME UpdateBotTurn
      PROVE  \E i \in 1..Len(game.hand[game.turn]), option \in SUBSET (1..Len(game.table)) :
                PlayedBy(i, option)
  <2>1. PICK m \in BotMoves(game) : ApplyMove(1, m.card, m.option, 0, 0)
    BY <1>9 DEF UpdateBotTurn
  <2>2. game.phase = "BotTurn" /\ game.turn = 1 /\ game.phase \in InPlay
    BY <1>9, OnTurnInPlay DEF UpdateBotTurn, BotDue, BotHears, InPlay
  <2>3. m \in Moves(game, 1)
    BY DEF BotMoves
  <2>4. PICK i \in DOMAIN game.hand[1] :
           LET options == CaptureOptions(game.hand[1][i], game.table)
           IN m \in {[card |-> i, option |-> o] : o \in IF options = {} THEN {{}} ELSE options}
    BY <2>3 DEF Moves
  <2>5. /\ m.card = i
        /\ \/ m.option \in CaptureOptions(game.hand[1][i], game.table)
           \/ m.option = {} /\ CaptureOptions(game.hand[1][i], game.table) = {}
    BY <2>4
  <2>6. i \in 1..Len(game.hand[1]) /\ m.option \in SUBSET (1..Len(game.table))
    BY <1>2, <2>5, Places, OptionsArePlaces
  <2>7. game' = Moved(game, 1, i, m.option)
    BY <2>1, <2>5 DEF ApplyMove
  <2>8. PlayedBy(i, m.option)
    BY <2>2, <2>5, <2>7 DEF PlayedBy
  <2> QED
    BY <2>2, <2>6, <2>8
<1>10. CASE Next
  BY <1>5, <1>6, <1>7, <1>8, <1>9, <1>10 DEF Next, Frame
<1> QED
  BY <1>4, <1>10

\* While the round goes on, what is played stays as played.
LEMMA RoundGoesOn ==
  ASSUME NEW g \in GameType, Apart(g), Stocked(g), AfterTurn(g).phase \notin Over
  PROVE  LET a == AfterTurn(g) IN a.table = g.table /\ a.hand = g.hand /\ a.pile = g.pile
<1> DEFINE c == Cleared(g)
<1>1. c = [g EXCEPT !.selected = 0, !.captures = {}]
  BY DEF Cleared
<1>2. /\ c \in GameType /\ c.captures = {} /\ c.deck = g.deck /\ c.hand = g.hand /\ c.table = g.table
      /\ c.pile = g.pile /\ c.lastCapturer = g.lastCapturer
  <2>1. 0 \in 0..HandCards /\ {} \in SUBSET SUBSET Nat
    BY Constants
  <2> QED
    BY <1>1, <2>1 DEF GameType
<1> HIDE DEF c
<1>3. CASE AfterTurn(g) = [c EXCEPT !.phase = Turn(c.turn)]
  BY <1>2, <1>3 DEF GameType
<1>4. CASE AfterTurn(g) = [c EXCEPT !.phase = "InitRound"]
  BY <1>2, <1>4 DEF GameType
<1>5. CASE AfterTurn(g) = Finalized(c) /\ (\A p \in Players : c.hand[p] = <<>>) /\ c.deck = <<>>
  <2>1. Apart(c) /\ Stocked(c)
    BY <1>2 DEF Apart, Stocked
  <2>2. c.hand[0] = <<>> /\ c.hand[1] = <<>>
    BY <1>5 DEF Players
  <2>3. Finalized(c).phase \in Over
    BY <1>2, <1>5, <2>1, <2>2, RoundFinalized
  <2> QED
    BY <1>5, <2>3
<1>6. \/ AfterTurn(g) = [c EXCEPT !.phase = Turn(c.turn)]
      \/ AfterTurn(g) = [c EXCEPT !.phase = "InitRound"]
      \/ AfterTurn(g) = Finalized(c) /\ (\A p \in Players : c.hand[p] = <<>>) /\ c.deck = <<>>
  <2>1. g.turn = c.turn
    BY <1>1, <1>2 DEF GameType, c, Cleared
  <2> QED
    BY <1>2, <2>1 DEF AfterTurn, c
<1> QED
  BY <1>3, <1>4, <1>5, <1>6

\* What such a step does to the table, the hand and the pile.
LEMMA PlayStepIs ==
  ASSUME ScopaInv, [Next]_vars, PlayStep
  PROVE  \E i \in 1..Len(game.hand[game.turn]), option \in SUBSET (1..Len(game.table)) :
            PlayedBy(i, option) /\ Result(game, game', game.turn, i, option)
<1>1. PICK i \in 1..Len(game.hand[game.turn]), option \in SUBSET (1..Len(game.table)) :
         PlayedBy(i, option)
  BY PlayStepIsMove
<1> DEFINE p == game.turn
           m == Played(game, p, i, option)
<1>2. GameInv(game) /\ game.phase \in InPlay /\ game' = AfterTurn(m)
  BY <1>1 DEF ScopaInv, PlayedBy, Moved
<1>3. m \in GameType /\ Apart(m) /\ Stocked(m) /\ Result(game, m, p, i, option)
  BY <1>2, CardPlayed
<1>4. AfterTurn(m).phase \notin Over
  BY <1>2 DEF PlayStep
<1> HIDE DEF m
<1>5. game'.table = m.table /\ game'.hand = m.hand /\ game'.pile = m.pile
  BY <1>2, <1>3, <1>4, RoundGoesOn
<1>6. Result(game, game', p, i, option)
  BY <1>3, <1>5 DEF Result
<1> QED
  BY <1>1, <1>6

\* Whatever is captured is a card of the value played or, without such a card on the table, a sum;
\* the pile of the player gets it with the card played, and nothing else leaves the hand.
THEOREM CapturesAlwaysLegal == Spec => CapturesLegal
<1> DEFINE A == PlayStep /\ Taken # {} =>
        \E c \in ToSet(game.hand[game.turn]) :
            /\ Legal(c, ToSet(game.table), Taken)
            /\ game'.pile[game.turn] = game.pile[game.turn] \cup {c} \cup Taken
            /\ ToSet(game'.hand[game.turn]) = ToSet(game.hand[game.turn]) \ {c}
<1>1. ScopaInv /\ [Next]_vars => A
  <2> SUFFICES ASSUME ScopaInv, [Next]_vars, PlayStep, Taken # {}
               PROVE  \E c \in ToSet(game.hand[game.turn]) :
                         /\ Legal(c, ToSet(game.table), Taken)
                         /\ game'.pile[game.turn] = game.pile[game.turn] \cup {c} \cup Taken
                         /\ ToSet(game'.hand[game.turn]) = ToSet(game.hand[game.turn]) \ {c}
    OBVIOUS
  <2> DEFINE p == game.turn
  <2>0. PICK i \in 1..Len(game.hand[p]), option \in SUBSET (1..Len(game.table)) :
            PlayedBy(i, option) /\ Result(game, game', p, i, option)
    BY PlayStepIs
  <2> DEFINE c == game.hand[p][i]
             cards == CardsAt(game.table, option)
  <2>1. /\ PlayedBy(i, option)
        /\ c \in ToSet(game.hand[p]) /\ c \notin ToSet(game.table) /\ cards \subseteq ToSet(game.table)
        /\ ToSet(game'.hand[p]) = ToSet(game.hand[p]) \ {c}
        /\ ToSet(game'.table) = IF option = {} THEN ToSet(game.table) \cup {c}
                                ELSE ToSet(game.table) \ cards
        /\ game'.pile[p] = game.pile[p] \cup (IF option = {} THEN {} ELSE {c} \cup cards)
    BY <2>0 DEF Result
  <2>2. option # {} /\ Taken = cards
    BY <2>1 DEF Taken
  <2>3. option \in CaptureOptions(c, game.table)
    BY <2>1, <2>2 DEF PlayedBy
  <2>4. game.table \in Seq(Deck) /\ IsInjective(game.table) /\ c \in Deck
    <3>1. /\ game.table \in Seq(Deck) /\ IsInjective(game.table) /\ game.hand \in [Players -> Seq(Deck)]
          /\ p \in Players
      BY DEF ScopaInv, GameInv, GameType, Apart
    <3>2. game.hand[p] \in Seq(Deck)
      BY <3>1
    <3> QED
      BY <2>1, <3>1, <3>2, Places
  <2> HIDE DEF c, cards, p
  <2>5. Legal(c, ToSet(game.table), cards)
    BY <2>3, <2>4, OptionsAreLegal DEF cards
  <2>6. game'.pile[p] = game.pile[p] \cup {c} \cup Taken
    BY <2>1, <2>2 DEF c, cards
  <2>7. c \in ToSet(game.hand[p]) /\ ToSet(game'.hand[p]) = ToSet(game.hand[p]) \ {c}
    BY <2>1 DEF c
  <2> QED
    BY <2>2, <2>5, <2>6, <2>7 DEF p
<1> QED
  BY <1>1, InvAlways, PTL DEF Spec, CapturesLegal

\* A card that could capture is never put on the table, except by a tap on an option that was
\* drawn for another card.
THEOREM CaptureIsForced == Spec => MustCapture
<1> DEFINE A == PlayStep =>
        \A c \in ToSet(game.hand[game.turn]) :
            c \in ToSet(game'.table) =>
                \/ \A taken \in SUBSET ToSet(game.table) : ~Legal(c, ToSet(game.table), taken)
                \/ game.phase = "PlayerChooseCapture" /\ drawn > Cardinality(game.captures)
<1>1. ScopaInv /\ [Next]_vars => A
  <2> SUFFICES ASSUME ScopaInv, [Next]_vars, PlayStep,
                      NEW x \in ToSet(game.hand[game.turn]), x \in ToSet(game'.table)
               PROVE  \/ \A taken \in SUBSET ToSet(game.table) : ~Legal(x, ToSet(game.table), taken)
                      \/ game.phase = "PlayerChooseCapture" /\ drawn > Cardinality(game.captures)
    OBVIOUS
  <2> DEFINE p == game.turn
  <2>0. PICK i \in 1..Len(game.hand[p]), option \in SUBSET (1..Len(game.table)) :
            PlayedBy(i, option) /\ Result(game, game', p, i, option)
    BY PlayStepIs
  <2> DEFINE c == game.hand[p][i]
             cards == CardsAt(game.table, option)
  <2>1. /\ PlayedBy(i, option)
        /\ c \in ToSet(game.hand[p]) /\ c \notin ToSet(game.table) /\ cards \subseteq ToSet(game.table)
        /\ ToSet(game'.hand[p]) = ToSet(game.hand[p]) \ {c}
        /\ ToSet(game'.table) = IF option = {} THEN ToSet(game.table) \cup {c}
                                ELSE ToSet(game.table) \ cards
        /\ game'.pile[p] = game.pile[p] \cup (IF option = {} THEN {} ELSE {c} \cup cards)
    BY <2>0 DEF Result
  <2>2. /\ game.table \in Seq(Deck) /\ IsInjective(game.table) /\ game.hand \in [Players -> Seq(Deck)]
        /\ p \in Players /\ Apart(game)
    BY DEF ScopaInv, GameInv, GameType, Apart
  <2>3. x \notin ToSet(game.table)
    BY <2>2 DEF Apart, Partition, Players
  <2>4. option = {} /\ x = game.hand[p][i]
    BY <2>1, <2>3
  <2>5. x \in Deck
    <3>1. game.hand[p] \in Seq(Deck)
      BY <2>2
    <3> QED
      BY <2>4, <3>1, Places
  <2>6. option \notin CaptureOptions(x, game.table)
    BY <2>2, <2>4, <2>5, OptionsAreLegal
  <2>7. \/ CaptureOptions(x, game.table) = {}
        \/ game.phase = "PlayerChooseCapture" /\ drawn > Cardinality(game.captures)
    BY <2>1, <2>4, <2>6 DEF PlayedBy
  <2> QED
    BY <2>2, <2>5, <2>7, NoOptionNoCapture
<1> QED
  BY <1>1, InvAlways, PTL DEF Spec, MustCapture
=============================================================================
