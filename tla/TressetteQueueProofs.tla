----------------------- MODULE TressetteQueueProofs -----------------------
(***************************************************************************)
(* What a game leaves in the queue of delayed tasks: the next game starts  *)
(* with an empty one.                                                      *)
(*                                                                         *)
(* The argument is about how late a task can be due.  Whatever a game has  *)
(* queued when it ends is due no later than the start of the next game or, *)
(* if it is queued by a new round that comes in between, within            *)
(* PrepareDelay; a new round itself runs before the start.  So the         *)
(* countdown, which takes PrepareDelay, outlasts all that is left.         *)
(***************************************************************************)
EXTENDS TressetteSeatProofs, WellFoundedInduction

\* The tasks are numbered, and there is a highest number.
Numbered(q) == \E b \in Nat : \A t \in q : t.id \in 0..b

\* When the last task is due, by stage of the game.
DueInTime ==
    /\ state = "Playing" => \A t \in tasks : t.due <= NextDelay
    /\ state = "Ended" => \E n \in tasks :
            /\ n.kind = "next"
            /\ \A t \in tasks : t.kind = "new_round" => t.due <= n.due /\ t.id < n.id
            /\ \A t \in tasks : t.due <= n.due \/ t.due <= PrepareDelay
    /\ state \in {"Waiting", "PreparingStart"} =>
            \A t \in tasks : t.kind # "new_round" /\ t.due <= PrepareDelay
    /\ state = "PreparingStart" => startIn <= PrepareDelay /\ \A t \in tasks : t.due <= startIn

QueueInv == Numbered(tasks) /\ DueInTime
-----------------------------------------------------------------------------
(* Numbers of tasks *)

LEMMA LeastNumber == ASSUME NEW S \in SUBSET Nat, S # {} PROVE \E x \in S : \A y \in S : x <= y
<1>1. IsWellFoundedOn(OpToRel(<, Nat), Nat)
  BY NatLessThanWellFounded
<1>2. PICK x \in S : \A y \in S : ~ (<<y, x>> \in OpToRel(<, Nat))
  BY <1>1, WFMin
<1>3. \A y \in S : ~ (y < x)
  BY <1>2 DEF OpToRel
<1> QED
  BY <1>3

LEMMA LastTask ==
  ASSUME NEW q, Numbered(q), q # {}
  PROVE  \E t \in q : \A o \in q : t.id \in Nat /\ o.id <= t.id
<1> DEFINE bounds == {b \in Nat : \A t \in q : t.id \in 0..b}
<1>1. PICK b \in bounds : \A c \in bounds : b <= c
  BY LeastNumber DEF Numbered
<1>2. CASE \E t \in q : t.id = b
  BY <1>1, <1>2
<1>3. CASE \A t \in q : t.id # b
  <2>1. b # 0
    BY <1>1, <1>3
  <2>2. b - 1 \in bounds
    BY <1>1, <1>3, <2>1
  <2> QED
    BY <1>1, <2>2
<1> QED
  BY <1>2, <1>3

\* push_after numbers a task after all that are queued.
LEMMA PushNumbers ==
  ASSUME NEW q, Numbered(q), NEW kind, NEW delay
  PROVE  /\ NextId(q) \in Nat
         /\ \A t \in q : t.id \in Nat /\ t.id < NextId(q)
         /\ Numbered(Push(q, kind, delay))
<1>1. NextId(q) \in Nat /\ \A t \in q : t.id \in Nat /\ t.id < NextId(q)
  <2>1. CASE q = {}
    BY <2>1 DEF NextId
  <2>2. CASE q # {}
    <3> DEFINE last == CHOOSE t \in q : \A o \in q : o.id <= t.id
    <3>1. \E t \in q : \A o \in q : o.id <= t.id
      BY <2>2, LastTask
    <3>2. last \in q /\ \A o \in q : o.id <= last.id
      BY <3>1
    <3>3. NextId(q) = 1 + last.id
      BY <2>2 DEF NextId
    <3>4. \A t \in q : t.id \in Nat
      BY DEF Numbered
    <3> HIDE DEF last
    <3> QED
      BY <3>2, <3>3, <3>4
  <2> QED
    BY <2>1, <2>2
<1>2. \A t \in Push(q, kind, delay) : t.id \in 0..NextId(q)
  BY <1>1 DEF Push
<1> QED
  BY <1>1, <1>2 DEF Numbered

LEMMA FewerNumbered == ASSUME NEW q, NEW r \in SUBSET q, Numbered(q) PROVE Numbered(r)
  BY DEF Numbered
-----------------------------------------------------------------------------
(* A game that is on *)

LEMMA PlayingOn ==
  ASSUME state' = "Playing", Numbered(tasks)', \A t \in tasks' : t.due <= NextDelay
  PROVE  QueueInv'
  BY DEF QueueInv, DueInTime

LEMMA EndGameQueue ==
  ASSUME TypeInv, SeatInv, QueueInv, state = "Playing", NEW totals, EndGame(totals)
  PROVE  QueueInv'
<1> DEFINE q == Push(tasks, "kick", KickDelay)
           k == [kind |-> "kick", due |-> KickDelay, id |-> NextId(tasks)]
           n == [kind |-> "next", due |-> NextDelay, id |-> NextId(q)]
<1>1. Numbered(tasks) /\ \A t \in tasks : t.due <= NextDelay
  BY DEF QueueInv, DueInTime
<1>2. Numbered(q)
  BY <1>1, PushNumbers
<1>3. Numbered(tasks') /\ \A t \in q : t.id < n.id
  BY <1>2, PushNumbers DEF EndGame
<1>4. q = tasks \cup {k} /\ tasks' = q \cup {n}
  BY DEF EndGame, Push
<1>5. k.due <= n.due /\ n.kind = "next" /\ k.kind = "kick" /\ n.due = NextDelay
  BY DelayAssumption
<1>6. state' = "Ended"
  BY DEF EndGame
<1> HIDE DEF k, n, q
<1>7. \A t \in tasks' : t.kind = "new_round" => t.due <= n.due /\ t.id < n.id
  BY <1>1, <1>3, <1>4, <1>5
<1>8. \A t \in tasks' : t.due <= n.due
  BY <1>1, <1>4, <1>5, DelayAssumption
<1>9. \E o \in tasks' : /\ o.kind = "next"
                        /\ \A t \in tasks' : t.kind = "new_round" => t.due <= o.due /\ t.id < o.id
                        /\ \A t \in tasks' : t.due <= o.due \/ t.due <= PrepareDelay
  BY <1>4, <1>5, <1>7, <1>8
<1> QED
  BY <1>3, <1>6, <1>9 DEF QueueInv, DueInTime, Numbered

LEMMA AfterTrickQueue ==
  ASSUME Numbered(tasks), \A t \in tasks : t.due <= NextDelay, NEW endRound
  PROVE  Numbered(AfterTrick(endRound)) /\ \A t \in AfterTrick(endRound) : t.due <= NextDelay
<1> DEFINE q == Push(tasks, "draw", DrawDelay)
<1>1. {RoundDelay, HandDelay, DrawDelay, HandDelayDraw} \subseteq 0..NextDelay
  BY DelayAssumption
<1>2. Numbered(q) /\ \A t \in q : t.due <= NextDelay
  <2>1. Numbered(q)
    BY PushNumbers
  <2>2. \A t \in q : t.due <= NextDelay
    BY <1>1 DEF Push
  <2> QED
    BY <2>1, <2>2
<1> HIDE DEF q
<1>3. \/ AfterTrick(endRound) = Push(tasks, "new_round", RoundDelay)
      \/ AfterTrick(endRound) = Push(tasks, "new_hand", HandDelay)
      \/ AfterTrick(endRound) = Push(q, "new_hand", HandDelayDraw)
  BY DEF AfterTrick, q
<1>4. /\ \A t \in Push(tasks, "new_round", RoundDelay) : t.due <= NextDelay
      /\ \A t \in Push(tasks, "new_hand", HandDelay) : t.due <= NextDelay
      /\ \A t \in Push(q, "new_hand", HandDelayDraw) : t.due <= NextDelay
  BY <1>1, <1>2 DEF Push
<1> QED
  BY <1>2, <1>3, <1>4, PushNumbers

\* What end_hand leaves in the queue, or queues, when the game goes on.
LEMMA HandlePlayCardTasks ==
  ASSUME NEW i, NEW c, MayPlay(i), HandlePlayCard(i, c)
  PROVE  \/ state' = "Playing" /\ tasks' = tasks
         \/ state' = "Playing" /\ \E endRound : tasks' = AfterTrick(endRound)
         \/ \E totals : EndGame(totals)
<1>1. CASE UNCHANGED <<playVars, scoreVars, stageVars, tasks>>
  BY <1>1 DEF MayPlay, stageVars
<1>2. ASSUME NEW compared, NEW left, NEW led, EndHand(compared, left, led)
      PROVE  \/ \E totals : EndGame(totals)
             \/ \E endRound : tasks' = AfterTrick(endRound) /\ UNCHANGED <<stageVars, winTeam>>
  BY <1>2 DEF EndHand
<1>3. CASE PutCard(i, c)
  <2>1. CASE UNCHANGED <<lastWon, scoreVars, stageVars, tasks>>
    BY <2>1 DEF MayPlay, stageVars
  <2>2. CASE \E compared, left, led : EndHand(compared, left, led)
    BY <1>2, <2>2 DEF MayPlay, stageVars
  <2> QED
    BY <1>3, <2>1, <2>2 DEF PutCard
<1> QED
  BY <1>1, <1>3 DEF HandlePlayCard

LEMMA CardQueue ==
  ASSUME TypeInv, SeatInv, QueueInv, NEW i, NEW c, MayPlay(i), HandlePlayCard(i, c)
  PROVE  QueueInv'
<1>1. state = "Playing" /\ Numbered(tasks) /\ \A t \in tasks : t.due <= NextDelay
  BY DEF MayPlay, QueueInv, DueInTime
<1>2. CASE state' = "Playing" /\ tasks' = tasks
  BY <1>1, <1>2, PlayingOn DEF Numbered
<1>3. CASE state' = "Playing" /\ \E endRound : tasks' = AfterTrick(endRound)
  BY <1>1, <1>3, AfterTrickQueue, PlayingOn DEF Numbered
<1>4. CASE \E totals : EndGame(totals)
  BY <1>1, <1>4, EndGameQueue
<1> QED
  BY <1>2, <1>3, <1>4, HandlePlayCardTasks
-----------------------------------------------------------------------------
(* The steps *)

\* Steps that touch neither the queue nor the stage.
LEMMA QueueKept == ASSUME QueueInv, UNCHANGED <<state, startIn, tasks>> PROVE QueueInv'
  BY DEF QueueInv, DueInTime, Numbered

\* Whoever leaves may end a countdown; of the queue only a kick may go.
LEMMA UserLeaveQueue ==
  ASSUME TypeInv, QueueInv, NEW leavers, UserLeave(leavers), tasks' \subseteq tasks,
         \A t \in tasks : t \in tasks' \/ t.kind = "kick"
  PROVE  QueueInv'
<1>1. \/ state' = state /\ startIn' = startIn
      \/ state = "PreparingStart" /\ state' = "Waiting"
  BY DEF UserLeave
<1>2. Numbered(tasks')
  BY FewerNumbered DEF QueueInv
<1>3. CASE state' = state /\ startIn' = startIn
  <2>1. \A n \in tasks : n.kind = "next" => n \in tasks'
    OBVIOUS
  <2> QED
    BY <1>2, <1>3, <2>1 DEF QueueInv, DueInTime, Numbered
<1>4. CASE state = "PreparingStart" /\ state' = "Waiting"
  BY <1>2, <1>4 DEF QueueInv, DueInTime, Numbered
<1> QED
  BY <1>1, <1>3, <1>4

LEMMA TickQueue == ASSUME TypeInv, QueueInv, Tick PROVE QueueInv'
<1> DEFINE late(t) == [kind |-> t.kind, due |-> t.due - 1, id |-> t.id]
<1>1. state' = state /\ startIn' = IF state = "PreparingStart" THEN startIn - 1 ELSE startIn
  BY DEF Tick
<1>2. (\A t \in tasks' : \E o \in tasks : t = late(o)) /\ (\A o \in tasks : late(o) \in tasks')
  BY DEF Tick
<1>3. \A o \in tasks : late(o).kind = o.kind /\ late(o).due = o.due - 1 /\ late(o).id = o.id
  OBVIOUS
<1>4. \A o \in tasks : o.due \in Int
  BY DEF TypeInv, TypeOK
<1>5. startIn \in Int /\ NextDelay \in Nat /\ PrepareDelay \in Nat
  BY DelayAssumption DEF TypeInv, TypeOK
<1> HIDE DEF late
<1>6. Numbered(tasks')
  BY <1>2, <1>3 DEF QueueInv, Numbered
<1>7. state' = "Playing" => \A t \in tasks' : t.due <= NextDelay
  BY <1>1, <1>2, <1>3, <1>4, <1>5 DEF QueueInv, DueInTime
<1>8. ASSUME state = "Ended"
      PROVE  \E n \in tasks' :
                /\ n.kind = "next"
                /\ \A t \in tasks' : t.kind = "new_round" => t.due <= n.due /\ t.id < n.id
                /\ \A t \in tasks' : t.due <= n.due \/ t.due <= PrepareDelay
  <2>1. PICK n \in tasks : /\ n.kind = "next"
                           /\ \A t \in tasks : t.kind = "new_round" => t.due <= n.due /\ t.id < n.id
                           /\ \A t \in tasks : t.due <= n.due \/ t.due <= PrepareDelay
    BY <1>8 DEF QueueInv, DueInTime
  <2>2. late(n) \in tasks' /\ late(n).kind = "next"
    BY <1>2, <1>3, <2>1
  <2>3. \A t \in tasks' : t.kind = "new_round" => t.due <= late(n).due /\ t.id < late(n).id
    BY <1>2, <1>3, <1>4, <2>1
  <2>4. \A t \in tasks' : t.due <= late(n).due \/ t.due <= PrepareDelay
    BY <1>2, <1>3, <1>4, <1>5, <2>1
  <2> QED
    BY <2>2, <2>3, <2>4
<1>9. state \in {"Waiting", "PreparingStart"} =>
            \A t \in tasks' : t.kind # "new_round" /\ t.due <= PrepareDelay
  BY <1>2, <1>3, <1>4, <1>5 DEF QueueInv, DueInTime
<1>10. state = "PreparingStart" => startIn' <= PrepareDelay /\ \A t \in tasks' : t.due <= startIn'
  BY <1>1, <1>2, <1>3, <1>4, <1>5 DEF QueueInv, DueInTime
<1> QED
  BY <1>1, <1>6, <1>7, <1>8, <1>9, <1>10 DEF QueueInv, DueInTime, Numbered

\* A new round runs during a game, or between its end and the start of the next.
LEMMA NewRoundQueue ==
  ASSUME TypeInv, SeatInv, QueueInv, NEW t \in tasks, HandleNewRound(t)
  PROVE  QueueInv'
<1> DEFINE rest == tasks \ {t}
           q == Push(rest, "deal", DealDelay)
<1>1. /\ UNCHANGED <<state, startIn>> /\ t.kind = "new_round"
      /\ tasks' = Push(q, "new_hand", FirstHandDelay)
  BY DEF HandleNewRound, stageVars
<1>2. Numbered(rest) /\ rest \subseteq tasks
  BY FewerNumbered DEF QueueInv
<1>3. Numbered(q)
  BY <1>2, PushNumbers
<1> HIDE DEF q
<1>4. Numbered(tasks')
  BY <1>1, <1>3, PushNumbers
<1> USE DEF q
<1>5. \A o \in tasks' :
            \/ o \in rest
            \/ o.kind \in {"deal", "new_hand"} /\ o.due \in {DealDelay, FirstHandDelay}
  BY <1>1 DEF Push
<1>6. rest \subseteq tasks' /\ \A n \in tasks : n.kind = "next" => n \in rest
  BY <1>1 DEF Push
<1> HIDE DEF q, rest
<1>7. {DealDelay, FirstHandDelay} \subseteq 0..NextDelay /\ {DealDelay, FirstHandDelay} \subseteq 0..PrepareDelay
  BY DelayAssumption
<1>8. CASE state = "Playing"
  <2>1. \A o \in tasks' : o.due <= NextDelay
    BY <1>2, <1>5, <1>7, <1>8 DEF QueueInv, DueInTime
  <2> QED
    BY <1>1, <1>4, <1>8, <2>1, PlayingOn DEF Numbered
<1>9. CASE state = "Ended"
  <2>1. PICK n \in tasks : /\ n.kind = "next"
                           /\ \A o \in tasks : o.kind = "new_round" => o.due <= n.due /\ o.id < n.id
                           /\ \A o \in tasks : o.due <= n.due \/ o.due <= PrepareDelay
    BY <1>9 DEF QueueInv, DueInTime
  <2>2. n \in tasks'
    BY <1>6, <2>1
  <2>3. \A o \in tasks' : o.kind = "new_round" => o.due <= n.due /\ o.id < n.id
    BY <1>2, <1>5, <2>1
  <2>4. \A o \in tasks' : o.due <= n.due \/ o.due <= PrepareDelay
    BY <1>2, <1>5, <1>7, <2>1
  <2> QED
    BY <1>1, <1>4, <1>9, <2>1, <2>2, <2>3, <2>4 DEF QueueInv, DueInTime, Numbered
<1>10. state \notin {"Waiting", "PreparingStart"}
  BY <1>1 DEF QueueInv, DueInTime
<1> QED
  BY <1>8, <1>9, <1>10 DEF TypeInv, TypeOK, States

\* Any other task of the game only leaves the queue.
LEMMA GameTaskQueue ==
  ASSUME QueueInv, NEW t \in tasks, t.kind # "next", tasks' = tasks \ {t},
         UNCHANGED <<state, startIn>>
  PROVE  QueueInv'
<1>1. Numbered(tasks')
  BY FewerNumbered DEF QueueInv
<1>2. \A n \in tasks : n.kind = "next" => n \in tasks'
  OBVIOUS
<1> QED
  BY <1>1, <1>2 DEF QueueInv, DueInTime, Numbered

\* The start of the next game finds no new round in the queue, and nothing that is due
\* after PrepareDelay.
LEMMA NextGameQueue ==
  ASSUME TypeInv, SeatInv, QueueInv, NEW t \in tasks, IsNext(t), NextGame(t)
  PROVE  QueueInv'
<1>1. /\ t.kind = "next" /\ tasks' = tasks \ {t}
      /\ \/ state' = "PreparingStart" /\ startIn' = PrepareDelay
         \/ state' = "Waiting"
  BY DEF NextGame, AfterGame, PrepareStartGame
<1>2. state = "Ended"
  BY <1>1 DEF SeatInv, Queue
<1>3. PICK n \in tasks : /\ n.kind = "next"
                         /\ \A o \in tasks : o.kind = "new_round" => o.due <= n.due /\ o.id < n.id
                         /\ \A o \in tasks : o.due <= n.due \/ o.due <= PrepareDelay
  BY <1>2 DEF QueueInv, DueInTime
<1>4. n = t
  BY <1>1, <1>3 DEF SeatInv, Queue
<1>5. t.due <= 0 /\ t.due \in Int /\ (\A o \in tasks : o.due \in Int) /\ PrepareDelay \in Nat
  BY DelayAssumption DEF IsNext, TypeInv, TypeOK
<1>6. \A o \in tasks : o.id \in Nat
  BY DEF QueueInv, Numbered
<1>7. \A o \in tasks : o.kind # "new_round"
  BY <1>3, <1>4, <1>5, <1>6 DEF IsNext
<1>8. \A o \in tasks : o.due <= PrepareDelay
  BY <1>3, <1>4, <1>5
<1>9. Numbered(tasks')
  BY <1>1, FewerNumbered DEF QueueInv
<1> QED
  BY <1>1, <1>5, <1>7, <1>8, <1>9 DEF QueueInv, DueInTime, Numbered

LEMMA RunDueQueue == ASSUME TypeInv, SeatInv, QueueInv, RunDue PROVE QueueInv'
<1>1. PICK t \in tasks :
        /\ IsNext(t)
        /\ \/ HandleNewRound(t) \/ DealCards(t) \/ HandleNewHand(t) \/ HandleDrawCard(t)
           \/ UpdateUsersStayingEndgame(t) \/ NextGame(t)
  BY DEF RunDue
<1>2. CASE DealCards(t) \/ HandleNewHand(t) \/ HandleDrawCard(t)
  BY <1>2, GameTaskQueue DEF DealCards, HandleNewHand, HandleDrawCard, stageVars
<1>3. CASE UpdateUsersStayingEndgame(t)
  BY <1>3, UserLeaveQueue DEF UpdateUsersStayingEndgame
<1> QED
  BY <1>1, <1>2, <1>3, NewRoundQueue, NextGameQueue

\* A game starts with an empty queue, and then with a new round in it.
LEMMA EmptyAtStart == ASSUME TypeInv, QueueInv PROVE FreshStart
<1> SUFFICES ASSUME BodyStep, state = "PreparingStart", startIn < 0 PROVE tasks = {}
  BY DEF FreshStart
<1>1. \A t \in tasks : t.due > 0 /\ t.due <= startIn /\ t.due \in Int
  BY DEF BodyStep, QueueInv, DueInTime, TypeInv, TypeOK
<1>2. startIn \in Int
  BY DEF TypeInv, TypeOK
<1> QED
  BY <1>1, <1>2

LEMMA RestOfLoopQueue == ASSUME TypeInv, SeatInv, QueueInv, RestOfLoop PROVE QueueInv'
<1>1. CASE Overtime
  BY <1>1, EndGameQueue DEF Overtime
<1>2. CASE StartGame
  <2>1. tasks = {}
    BY <1>2, EmptyAtStart DEF RestOfLoop, FreshStart, StartGame
  <2>2. state' = "Playing" /\ tasks' = Push({}, "new_round", StartDelay)
    BY <1>2, <2>1 DEF StartGame
  <2>3. \A t \in tasks' : t.due <= NextDelay
    BY <2>2, DelayAssumption DEF Push
  <2>4. Numbered({})
    BY DEF Numbered
  <2>5. Numbered(tasks')
    BY <2>2, <2>4, PushNumbers
  <2> QED
    BY <2>2, <2>3, <2>5, PlayingOn DEF Numbered
<1>3. CASE BackToWaiting \/ Prepare
  <2>1. /\ tasks' = tasks /\ state \in {"Waiting", "PreparingStart"}
        /\ \/ state' = "Waiting"
           \/ state' = "PreparingStart" /\ startIn' = PrepareDelay
    BY <1>3 DEF BackToWaiting, Prepare, PrepareStartGame
  <2>2. PrepareDelay \in Nat
    BY DelayAssumption
  <2> QED
    BY <2>1, <2>2 DEF QueueInv, DueInTime, Numbered
<1>4. CASE CheckGenBot \/ Nothing
  BY <1>4, QueueKept DEF CheckGenBot, Nothing, stageVars
<1>5. ASSUME NEW i \in Seats, AutoPlay(i) \/ BotPlayCard(i) PROVE QueueInv'
  <2>1. CASE UNCHANGED <<playVars, scoreVars, stageVars, tasks>>
    BY <2>1, QueueKept DEF stageVars
  <2>2. CASE \E c : MayPlay(i) /\ HandlePlayCard(i, c)
    BY <2>2, CardQueue
  <2> QED
    BY <1>5, <2>1, <2>2 DEF AutoPlay, BotPlayCard
<1> QED
  BY <1>1, <1>2, <1>3, <1>4, <1>5 DEF RestOfLoop

LEMMA LeaveQueue == ASSUME TypeInv, QueueInv, Leaves PROVE QueueInv'
<1>1. CASE UNCHANGED stageVars
  BY <1>1, QueueKept, LeavesCases DEF stageVars
<1>2. ASSUME NEW u, UserLeave({u}) PROVE QueueInv'
  BY <1>2, UserLeaveQueue, LeavesCases
<1> QED
  BY <1>1, <1>2, LeavesCases
-----------------------------------------------------------------------------
(* The theorems *)

LEMMA InitQueue == Init => QueueInv
  BY DEF Init, QueueInv, DueInTime, Numbered

LEMMA NextQueue == TypeInv /\ SeatInv /\ QueueInv /\ [Next]_vars => QueueInv'
<1> SUFFICES ASSUME TypeInv, SeatInv, QueueInv, [Next]_vars PROVE QueueInv'
  OBVIOUS
<1>1. CASE Visits \/ \E u \in Users : HandleGameActionNapoli(u)
  <2>1. UNCHANGED <<state, startIn, tasks>>
    BY <1>1, VisitsKeep DEF HandleGameActionNapoli, stageVars
  <2> QED
    BY <2>1, QueueKept
<1>2. CASE Leaves
  BY <1>2, LeaveQueue
<1>3. ASSUME NEW u \in Users, NEW c \in Deck, PlayCard(u, c) PROVE QueueInv'
  BY <1>3, CardQueue DEF PlayCard
<1>4. CASE Tick
  BY <1>4, TickQueue
<1>5. CASE Update \/ UNCHANGED vars
  BY <1>5, QueueKept DEF Update, vars, stageVars
<1>6. CASE RunDue \/ RestOfLoop
  BY <1>6, RunDueQueue, RestOfLoopQueue
<1> QED
  BY <1>1, <1>2, <1>3, <1>4, <1>5, <1>6, StepKinds

\* The inductive invariant, for any people, cards, delays and inputs the assumptions allow.
THEOREM QueueInvariant == Spec => []QueueInv
<1>1. TypeInv /\ SeatInv /\ QueueInv /\ [Next]_vars => QueueInv'
  BY NextQueue
<1> QED
  BY <1>1, InitQueue, TypeInvariant, SeatInvariant, PTL DEF Spec

\* The queue is empty whenever start_game runs: no deal, hand, kick or round of the last
\* game, cut short by its end, strikes in the next.
THEOREM QueueEmptyAtStart == Spec => []FreshStart
<1>1. TypeInv /\ QueueInv => FreshStart
  BY EmptyAtStart
<1> QED
  BY <1>1, TypeInvariant, QueueInvariant, PTL
=============================================================================
