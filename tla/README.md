# Tressette: TLA+ models, model checking and proofs

The repository holds an online card game: a C++ server (`src/apps/server_cpp`), the
Python server it replaces, a Godot client, and a native client
(`src/apps/client_cpp`) with small games that need no server. The logic that must be right is in
the C++ server (the *match*: one table, at which people and bots sit, come, go, lose
their connection and play; and around it the *lobby*: connections, logins and the registry
of tables) and in the two card games of the native client, *scopa* and *tressette
offline*. This directory models all four, checks them with TLC, shows that the table
implements the contract the lobby relies on, and proves the main invariants of the table, the
lobby and tressette offline with TLAPS.

## The system

| Component | State | Operations | Interacts with |
|---|---|---|---|
| `Tressette` (`game/match/modes/tressette.*`) | `state_`, seats, viewers, turn, suit, cards on the table, stock, scores, claims, `register_leave_uids_`, delayed tasks | packets of players and viewers, `try_join`, `user_leave`, `user_disconnect`, `user_reconnect`, `loop`, the delayed tasks | registry (calls it), bot pool, session registry (`is_online`) |
| `MatchPlayer` | uid, team, hand, points, `is_auto_`, `is_on_turn_`, deadlines | `on_turn`, `play_card`, `auto_play`, `bot_play_card`, `loop`, `clear` | its match |
| `DelayedTaskQueue` | a priority queue of closures | `push_after`, `run_due` | its match |
| `tressette_bot` | none | `find_optimal_card`: depth-limited minimax | called by `MatchPlayer` |
| `MatchRegistry` | tables, user-to-table map, tables to destroy | quick play, join by id, list, update every 500 ms, destroy | tables, server events |
| `SessionRegistry`, `ClientSession`, `Router`, `Server` | sessions, uid-to-session map, authentication of a session | connect, login (binds a uid, closes its older session), packets, disconnect, login settled after 2 s | signal bus to registry |
| `UsersInfoMgr` | profiles, the pool of five bot uids | profile packets, `request_bot`, `release_bot` | table, router |
| `SignalBus`, `GameManager`, `AuthService`, db, config, notifier | handlers; nothing; tokens; connections | fan-out; greeting; login; I/O | server |
| `scopa_game.cpp` | deck, table, hands, piles, scores, phase; timers and flights; menu | taps, frames, the bot's move, deals, rounds, the match | its player |
| `tressette_game.cpp` | deck, hands, trick, points, turn; animations and delays; menu | taps, keys, frames, bots, draws, rounds, the match | its player |
| other games of the native client, Godot client, legacy server | a farm, a memory game, a flying bird; presentation; older versions of the games, sette mezzo | | |

Everything that touches a table runs on one `io_context` thread: a packet handler, a
session event and the update of a table are each atomic. Hard are the interleavings
*between* them (a drop or a leave in any state, a viewer taking a seat as a bot arrives,
a login while the older connection is being closed, a task queued in a game that has been
cut short), the order of tasks that fall due in the same late update, the deadlines that
play for an absent person, and the rules of the game spread over handlers that trust each
other's state. The client's games run in one loop, frame after frame; hard there are the
many flags, delays and animations, set and cleared one by one, and taps that come at any of
their stages. `PROJECT.json` lists each hazard at its line.

What makes each component correct:

- *table*: nobody is seated twice; a game has full seats and keeps them; nothing of an
  old game acts in the next; whoever must leave is gone before the countdown; it always
  comes to play again, and who has dropped does not keep a seat for ever;
- *game*: cards are neither lost nor doubled; a trick is one card from each seat in
  turn and suit is followed; every trick has a winner; points add up; the winner leads; a
  game ends;
- *bot pool*: each bot uid is free or on one seat;
- *registry*: a user's entry in the map leads to a table the user is at, and who is at a table
  has an entry;
- *sessions*: one connection speaks for a user; who counts as online has it; a place at a
  table does not outlive the connection, unless a game holds it;
- *scopa*: cards are kept, captures are legal and made when they can be, the phase agrees
  with hands and timers, a round ends and is settled, the bot's weights keep its priorities;
- *tressette offline*: one thing is under way at a time and the table never hangs, hands
  stay even, points add up over rounds, suit is followed, a match is decided and ends.

## Modules

| Module | What it is |
|---|---|
| `TressetteCards` | the deck and the pure card functions: suit, rank, strength, value, who takes a trick, napoli, trimming |
| `Tressette` | one table: variables, one action per handler, task and branch of `loop()`, fairness, properties |
| `TableSteps` | a table seen from outside: places, viewers and stage, and what may become of them |
| `TableContract` | the abstract specification of one table, made of `TableSteps` |
| `TressetteRefinement` | the refinement mapping from `Tressette` to `TableContract` |
| `Lobby` | connections, sessions, logins and the registry, over several tables of `TableSteps` |
| `Scopa` | scopa in the native client |
| `TressetteOffline` | tressette in the native client |
| `MCTressette`, `MCLobby`, `MCScopa`, `MCTressetteOffline` | what TLC needs: symmetry, bounds, orders of the deck |
| `TressetteTypeProofs` | type correctness and the winner of every trick, for all constants |
| `TressetteSeatProofs` | the seat, viewer and kick properties, for all constants |
| `TressetteQueueProofs` | what a game may leave in the queue, for all constants |
| `TressetteCardProofs` | the cards, the order of a trick and the winner, for all constants |
| `TressetteRefinementProofs` | that a table keeps its contract, for all constants |
| `LobbyProofs` | the invariants of sessions and registry, for all constants |
| `TressetteOfflineProofs` | the hands, tricks, timing and end of tressette offline, for all constants |
| `ScopaProofs` | the cards, phases and captures of scopa, for all constants |

`Tressette` and `Lobby` are composed through `TableSteps`: the lobby's tables take exactly the
steps `TableContract` allows, and the run `Table` shows that the table of the code takes no
others (`KeepsContract`). So several tables, with connections, can be checked without the
cards.

### How `Tressette` corresponds to the code

*State.* Each variable is a member of `Tressette` or `MatchPlayer` (the comment at its
declaration names it), or the part of a neighbour the table depends on: `freeBots`
(`available_uids_`), `mapped` (whom `user_match_ids_` leads to this table), `online` (uids with
a session), `mute` (uids whose session speaks for another by now), `settling` (logins whose
two-second timer runs). Broadcasts, profiles, gold, chat and the statistics of a round
are left out: no guard reads them.

*Cards* are the code's numbers 0..39; `Deck` and `HandSize` shrink the game. A hand is a
set, since its order only decides which of several legal cards an absent person plays,
and that is left open. The stock is a set whose order is chosen as it is drawn, which is
the same as shuffling first. The bot's search is replaced by "any card it may return":
every card when it leads, else the legal answers to the card *it* takes for the lead,
the first on the table in seat order. `PutCard` is one accepted card with everything
the call does, through `end_hand`, `check_end_game` and `end_game`.

*Connections.* A packet reaches the table from a user who is `Heard`: online, not mute, mapped
here. `RemoveSession` is `Server::remove_session` seen from the table: all who are bound to the
session go offline, and the table is told of the one the session speaks for, if the registry
maps that one here; otherwise of nobody. `MappedAway` is what the registry does without telling
this table (a join by id at another, or the destruction of another that an offline user has not
left), `Login` a login, of a stranger too, which may take a session over from a user. `Lobby` has the
sessions themselves; here they are cut down to what the table sees of them, and the input `astray`
turns these silent ways on.

*Updates.* `Update` is the 500 ms timer; while `updating`, due tasks run one by one in
the queue's order (`RunDue`), then the rest of `loop()` with `should_destroy()`
(`RestOfLoop`). No packet is handled in between, as in the code, but each task can see
the effects of the one before. `RestOfLoop` is split into the branches of `loop()`.
Destroying the table happens in the same step: `MatchRegistry::update` flushes at its end.
One branch never runs, in the model as in the code: `BackToWaiting` (a countdown that ends
with an empty seat), since every leave during the countdown has already ended it.

*Time.* A task holds the units left until it is due; `Tick` takes one off each, and the
countdown's. `DelayAssumption` states what the properties use of the code's literals:
the kick (6 s) is before the next game (7 s), everything a trick or a round queues is
due within the time to the next game, a deal and the hand after it within the
countdown too, a deal is not after its first hand and a draw not after the hand it is for. An update may be `MaxLate` units late. Deadlines that depend on the outside (a turn's 15 s, a
bot's 1-2 s, the 5-14 s before a bot is seated, the hour) pass at any update.

*The contract.* `TressetteRefinement` shows a table as its stage, its seats with all bots
alike, and its viewers. `Ended` is split by whether the kick is still queued. `Passing` is one
pass of the rest of `loop()`, `Kicking` and `Resuming` the two tasks that a game leaves
behind, `Leaving` a leave or a drop; `Disconnect` is a session that ends, of
which the table may hear nothing. An update of the registry may run several of them, which
is `Looping`.

*Slips.* Definitions marked `Slip` are plausible mistakes in a definition of the code
(a missed wrap-around, a winner read from old scores); replacing the definition by its
slip must break the property it guards. They are not part of the model.

### How `Lobby` corresponds to the code

One action is one handler the `io_context` runs. A session is `open` until it is `asked` to
close (`bind_uid` calls `close()`, which posts) or its read or write fails; `do_close` marks it
closed, but a read that was outstanding may still deliver a packet (`last read`) before the
`closing` coroutine ends in `remove_session`. Packets are heard in all of these but the
last, as in `do_read`, and a packet heard late is followed by no other. A session that is removed leaves no trace,
so its name serves for the next connection. `RemoveSession` keeps the code's order: the
match is told of the uid the session has *now*, then every uid mapped to the session goes.

`place` is `user_match_ids_`, which `Depart` erases only where it leads to the table in question
(`on_user_removed_from_match`), while `Update` (`destroy_match_now`) erases it for everybody
at a table it drops. `JOIN_TABLE_BY_ID` asks nothing of other tables, so a user can be at
two. The properties name whom that misleads, in two history variables: `moved` (went to
a second table while at a first) and `shared` (mapped to one connection together with
another user, which takes a login on a connection somebody else still is mapped to). Tables are created by quick play; `received_create_table` has no caller. Login tokens,
heartbeats, the write queue and the table list change none of this.

### How `Scopa` corresponds to the code

`game` is `GameState`, field by field; options are sets of places on the table. The functions
from `makeDeck` to `applyMove` are operators from a `GameState` to the next, in the code's
order (`Moved` is `Played`, then `AfterTurn`, which may run into `Finalized`). Time is counted in coarse frames: a
timer or the longest flight is the number of frames left, and `DealNextHands`,
`UpdateBotTurn` and `UpdateApp` are the three things one call of `updateApp` may do. Taps come
between frames, any number of them, and meet the buttons of the last frame *drawn* (`drawn`):
the code lays them out in `drawCaptureOptions`. The bot weighs moves by integers, as the code does by
whole floats; of equal ones any may be taken (the code's order of labels is left out).

### How `TressetteOffline` corresponds to the code

`game` is `Game`; the seven flags and delays of `App` that stand for something under way are
one set, `doing` (`isBusy` asks whether any is set). `updateApp` works on the first of them
in a fixed order and returns, which is `Before`; each action is the end of one stage, after
however many frames. Deals of the stock fly to the hands one by one, and key N may deal
anew between any two. An auto-played card is the code's choice, ties included.

## Runs

Deals, plays, joins, drops and deadlines are all left to TLC; for the table `Inputs` selects
which outside events a run allows, so that each run can afford the depth it needs.

| Run | Instance | Shows |
|---|---|---|
| `Tricks` | 1 person, 1 bot, 8 cards with a napoli among them, 3 in hand, 2 to draw, target 2 points; claims between any two cards; the hour | cards, turns, tricks, points and the winner, over the rounds of a game and into the next; no task of an old game in a new one |
| `Table` | 3 people, 1 bot, 2 cards; leave, drop and login, being led to another table, losing a session to another login; next game and countdown 1 unit, updates up to 1 late | who sits where and watches, the order of kick and next game, and that the table keeps its contract (refinement) |
| `Duo` | 4 seats, 1 person, 3 bots, 8 cards, first game; the hour | tricks of four cards |
| `Live` | 2 people, 2 bots, 2 cards; drop and login; fairness | the table plays again and again, who has dropped does not stay |
| `Games` | 1 person, 1 bot, 6 cards of two suits, 2 in hand, 2 to draw, target 3 points; fairness | every game ends, over tricks, draws, rounds and trims, and the next one too |
| `Lobby` | 2 people, 2 connections, 2 tables | map and seats agree, sessions and users agree, drops give up places |
| `Scopa` | 16 cards in 32 orders, 2 hands of 3, 2 rounds, menu; fairness | cards, captures, phases, who gets the last cards, the bot's priorities, rounds end |
| `Offline` | 12 cards in 6 orders, 3 in hand, for two and for four, any number of rounds to 4 points; fairness | stages, hands, points, suits, matches are decided and end |
| `EarlyPlay`, `Reseated`, `StaleTap`, `LastTrick` | as above | the findings below, each a violation |

*Why the bounds are enough.* The table's logic looks at who is where, not at how many
people there are: two seats, a third person (so that somebody watches and two compete for
a seat) and one bot (so that the pool runs dry) meet every branch of join, leave, kick
and destruction. Eight cards with three in hand give tricks with and without a stock, a suit
that can and cannot be followed, a napoli, a round that ends and a next one with trimming; the
target is reached in some games in the first round and in some in the second. Points are counted
up to `MaxPoints`, over the target; `PointsConserved` does not look at steps that
meet the bound. In `Games` a round is worth 8 thirds, the last trick's point among them, and the target is 9, so no
game ends in its first round: thirds are trimmed, the winner of the last trick leads the next round, the
stock is drawn, and the bot has a card of each suit among which it must pick one that is accepted.
In `Live` a game is one trick: what it asks is about the seats between games.
Delays of 0 to 2 in the card runs keep their order and make the tasks of one
moment fall into one update; `Table` has them late. `OneAstray` (in `MCTressette`) lets one person of
`Table` at a time be mute or unknown to the registry, and holds the others' connections still
meanwhile: what is silent about one does not depend on the others. `FirstGame` (`Duo`) stops
at the first seat that has lost its team, `NextGameOpens` (`Tricks`) follows later games until
somebody scores. Two connections and two people meet every overlap
of a login with the close of an older session, two tables every way of being at one and
mapped to the other; `MaxTables` bounds the tables ever created, and `OneAstray` lets one person go to a
second table or two share a connection, not both at once. `SomeOrders` spreads the deals of
`Scopa` and `Offline` over the decks (multiples modulo a prime), so that tables are cleared, several captures
compete, suits run out; `MaxRounds` (two) has both players start a round; `MenuUsed` is on.
People are interchangeable, and so are bots and connections: `Alike` and `AlikeLobby` use it in the
safety runs only. No run turns deadlock checking off: a table that is gone stays so by `Gone`.

*Fairness* of the table (`Live`). The timer fires and an update runs to its end (weak
fairness of `Update`, `RunDue`, `RestOfLoop`): `schedule_update` re-arms itself. Time
passes (strong fairness of `Tick`, which an update in progress disables). A turn's
deadline, a bot's move and the seating of a bot are strongly fair: `loop()` tests them
on every update against a fixed time, and while an update only *may* find them passed,
one does sooner or later. Nothing is assumed of people: they may never play, never come
back and drop for ever. `TablePlays` and `AbsentLeave` say so where they need more: that connections
settle at some time (a drop ends a countdown, and drops for ever could end every one).

*Fairness* of the client's games. The main loop never stops, so frames follow one another (weak
fairness of `UpdateApp` and of the deals; the bot's move is due only for a while). Nothing is
asked of the person: `RoundEnds` and `MatchEnds` hold for those who play when it is their turn
(and, in scopa, close the menu).

## Findings

1. `EarlyPlay`: between `deal_cards` and `handle_new_hand` seat 0's card is accepted,
   because `start_game` has already set the turn; the new hand then resets the suit,
   and the seat plays again over its own card. (Everywhere else the runs let a client
   play when it is asked to.) `LedSuitOnTable` is proved *with* such clients: the trick
   still has a winner, so the game does not hang.
2. `Reseated`: `MatchPlayer::clear()` resets `team_id` to -1 and nothing sets it again.
   A person who takes a seat somebody has left scores for no team. `GameEnds` is
   therefore stated for games whose seats all have a team.
3. `StaleTap`: in scopa two taps in one frame, the second on a capture button that was drawn for
   the card selected before, put a card on the table although it could capture
   (`docs/scopa_gameplay_spec.md:94`: a legal capture must be made). `MustCapture` says
   that this is the only way.
4. `LastTrick`: tressette in the native client counts the last trick for a third of a point where its
   `README.md:75` says one point.

Further limits the properties name. `end_game` at the one-hour limit uses the scores counted
after the last trick; with a claim of napoli since, they are stale, and
`WinnerLeads` excepts the limit after a claim. In duo it excepts the limit altogether: a new
round takes each player's odd thirds where the team's are meant (`tressette.cpp:819`), so that a team can
lose a whole point and, between a trim and the next count, the team that led more than the other. No
property is stated of that: duo tables can be constructed, but the registry routes no packet
that creates one. A person who drops in somebody
else's turn is not on autoplay when the game ends, stays for another countdown and game,
and is gone only then: `AbsentLeave` is therefore an eventuality, not a step. A user who
goes to a second table by id keeps the seat at the first, which no packet reaches any more
(`SeatKnown` excepts them), and the destruction of either table may erase the mapping to
the other. Another user's login on a connection leaves the first one online until
it ends (`OnlineIsTrue` excepts those who shared one). When the connection of either ends, their old
table is not told: somebody who watched it stays in its `viewers_` until the table goes, so
`WatchersOnline` speaks only of those the registry led to the table and who were not mute. A login
that settles late clears the autoplay of somebody who has dropped again, and may so put off
the kick by a game, which `AbsentLeave` allows. `Live` and `Games` are without these silent
ways: a person who went astray keeps a seat for as long as nothing kicks them.

## Proofs

The theorems hold for every set of people and bots, both modes, every deck and hand
size, target and delays within the named assumptions, for every number of connections and
tables, and with all inputs, claims included. Only `HandsStayLevel`, `TricksInOrder`,
`WinnerIsAhead` and `PointsAreConserved` ask for clients that do not play early (finding 1 refutes them otherwise).
Each invariant below is inductive given those above it.

*`TypeInv`* is `TypeOK` with `Led`. The types alone are not inductive: `last_won_uid_`
is somebody's uid only if `end_hand` finds the winner, which needs a card of the suit
led among the cards compared. `Led` says where it is: the turn has come from a seat
that led, k seats back, over seats that have all played, and the leader's card is of the
suit. A card played either opens the trick or moves the turn one further; after k = all
seats the trick is done and the leader's card is in it. Early play does not break it,
since `handle_new_hand` clears the suit. `TypeCorrect` and `TrickHasLed` follow.

*`SeatInv`* is `SeatsFullInGame`, `PlacedOnce`, `WatchersOnline` with `Queue` and `Tidy`.
A silent drop takes nobody offline who is mapped and not mute, and a viewer who is mapped again by a
join speaks for a session, so the exceptions of `WatchersOnline` are the only ones.
A kick or a start of the next game in the middle of a game would empty a seat, so
`Queue` says that both are queued only while the table is `Ended`, that there is one
start and every kick is due before it, and that once the kick has run whoever it removes
stays away. The start leaves `Ended`, and it is the only step that does; by then no kick
is left, since a task runs only when none is due before it. `KickDelay < NextDelay` is
what this needs of the delays. The same case analysis over the actions (`GoodStep`) gives
the action properties `SeatsKeptInGame` and `KickedBeforeRematch`.

*`QueueInv`* bounds how late a task can be due, by stage: all that a game has queued is due
within `NextDelay`, and at its end either before the next game is prepared or, if a new
round that came in between has queued it, within `PrepareDelay`. A new round itself runs
before the next game is prepared, and the countdown outlasts the rest. So `start_game` finds an
empty queue (`QueueEmptyAtStart`).

*`CardInv`* follows the hands of a round as tasks: `NEW_HAND` opens a hand, its last card queues
the next or a new round. With calm clients there is one, open or queued (`Tight`), so all
seats hold as many cards (`Level`) and the cards on the table are those of the leader and
the seats after him, up to the one on turn (`InTrick`). An early card opens a hand that nothing has queued; from
then on there may be one too many (`Loose`), and until it strikes an open trick the
hands are level (`Even`). That is enough for a new round to find empty hands, or no hand that
could still be played, so that no card is in two places even then (`CardsInOnePlace`).

*`ScoreInv`* says that the scores of the last trick put the sides in the same order as
their points do, in solo and unless napoli has been claimed since: a new round trims both
seats by less than a point, which keeps the order of whole points. `WinnerIsAhead` follows: a
game that a card ends has just counted, one that the limit ends has these scores.

*`Conserved`* is `PointsConserved` without its box. What some cards are worth (`ValueIn`) is counted
third by third, so that a card more is its value more (`ValueOfOneMore`) without induction
over the cards. What is left before a trick is taken is what is left after it and the cards of the
trick, each once and not among those left (`CardsDisjoint`), so the winner gets what the table loses;
as the hands are level, the trick that empties the first hand and finds no stock is the last, and
a new round is dealt only when nothing is left. An early card can be lost under another, which is why
`PointsAreConserved` needs calm clients.

*`KeptInv`* is what the refinement adds to `SeatInv`: one kick at a time, so that the table is
`Cleared` once it has run; who has asked to leave is seated, so that the kick takes no
viewer away; a countdown only at a full table. Then one lemma per action gives the step of
the contract it is, or that it leaves `Shown` alone; a bot is
`Robot` whichever it is, and the uids of a pass are those of `Passed`.

*`LobbyInv`* has two halves. For the sessions (`Bound`): a uid is mapped only to a
registered session, one that is gone has no uid, and of users mapped to one session all are
on record in `shared`; that makes a second voice, and an online user without a
connection, impossible. For the tables (`NextFree`): the next id has no table, so that
opening one takes nobody's seat. A looping table keeps its people or lets absent ones go,
whose entries go with them.

*`OfflineInv`* has three parts. `TrickInv` says whose card is next, counting from the leader
of the trick, and that a card flying to the trick, like those that lie there, follows suit or
comes from a hand that cannot: whether it does is asked when it starts, and by the
time it lands the hand must still be the one that was asked. `StageInv` says that one flag, delay or
flight is set at most and what each says of the turn, the trick and the cards drawn.
`HandsInv` counts a hand with the cards of its player on their way (`HeldBy`), which changes only
when a trick is collected or a deal is made: then each player gives a card to the trick and
takes one from the stock, whose length is a multiple of the players. As no card of
the trick is from the player on turn, that player has one, so neither a bot nor
the person is ever left with nothing to play (`NeverHangs`). `MatchIsDecided` needs no more than the
points: a trick scores for one team, so the teams cannot reach the target together. `PointsInv` adds
that nothing is left of a round that is over unless the match is: the next round may then be
added in full (`PointsAlwaysAddUp`).

*`ScopaInv`* says of the game, whatever `applyMove` and the deals make of it: each card is in one of six
places (`Apart`); the deck holds full hands for both, and if a pile has a card somebody has captured
last (`Stocked`); who is on turn has as many cards as the other or one
more, so that both hands run out together, and the captures on offer are those of the
card tapped (`Phased`). What it rests on are facts about the helpers, proved for any table: sorting keeps a
hand's cards, since a card's rank can serve as its place (`SortedHand`); erasing captured
cards from the highest place down erases those and no others (`ErasedCards`); the search for
sums finds every set of cards that add up to the card played, and no other (`SumsAreAll`). Both loops are recursive
functions, which exist because a least place without a value would have one; what they compute follows in the same
way, by the least place where it fails, so no induction theorem is needed. For the two action
properties, a step in which a card is played and the round goes on is traced back to the move
behind it (`PlayStepIsMove`), whichever tap or frame it came from, and to what that move does (`Result`).

| Theorem | States |
|---|---|
| `TypeCorrect` | `TypeOK` |
| `TrickHasLed` | `LedSuitOnTable` |
| `GameKeepsSeatsFull` | `SeatsFullInGame` |
| `EverybodyPlacedOnce` | `PlacedOnce` |
| `ViewersOnline` | `WatchersOnline`: viewers who are mapped and not mute are online |
| `GameKeepsPlayers` | `SeatsKeptInGame` |
| `KickComesFirst` | `KickedBeforeRematch` |
| `QueueEmptyAtStart` | `FreshStart` |
| `CardsInOnePlace` | `CardsDisjoint` |
| `HandsStayLevel` | `HandsLevel`, for clients that do not play early |
| `TricksInOrder` | `TrickInOrder`, for clients that do not play early |
| `WinnerIsAhead` | `WinnerLeads`, for clients that do not play early |
| `PointsAreConserved` | `PointsConserved`, for clients that do not play early |
| `TableKeepsContract` | `KeepsContract`, the refinement of `TableContract` |
| `LobbyTypeCorrect` | `LobbyTypeOK` |
| `MapIsRight` | `MapLeadsToSeat` |
| `SeatsAreKnown` | `SeatKnown` |
| `OneVoiceEach` | `OneVoice` |
| `OnlineUsersAreThere` | `OnlineIsTrue` |
| `OnlyGamesHoldTheAbsent` | `AbsentOnlyFromGame` |
| `OfflineTypeCorrect` | `OfflineTypeOK` |
| `CardsStayEven` | `CardsEven` |
| `NeverHangs` | `OneThingDue` |
| `MatchIsDecided` | `MatchDecided` |
| `SuitIsFollowed` | `TrickFollows` |
| `PointsAlwaysAddUp` | `PointsAddUp` |
| `ScopaTypesHold` | `ScopaTypeOK` |
| `CardsAlwaysKept` | `CardsKept` |
| `PhaseAlwaysInStep` | `PhaseInStep` |
| `RoundAlwaysSettled` | `RoundSettled` |
| `CapturesAlwaysLegal` | `CapturesLegal` |
| `CaptureIsForced` | `MustCapture` |

*Only model-checked.* `TablePlays`, `GameEnds`, `AbsentLeave`, `RoundEnds` and `MatchEnds` are
liveness under fairness, out of the prover's reach. `LastCapturerSweeps` of scopa has no proof yet. `BotFollowsPriorities` compares weighted sums over all
captures that two cards of a real deck can make: its margins depend on which values can add up to
ten at most, a finite enumeration for TLC rather than an argument for the prover.

## Not modelled

- The values the bot's search computes; only which cards it may answer with.
- Profiles, tokens, database, configuration, notification, encoding of packets: no
  state of a table depends on them. `proto/packet.pb.*`, generated, is 58 thousand of the
  80 thousand lines of the implementation, so the mapped share of all of it stays low.
- In the client: drawing, sound, layout of rectangles, the portal, and the games whose state
  is mostly a picture (farm, memory cards, flappy bird).
- The legacy server, replaced by the C++ one, and the Godot client.

Not stated, because it does not hold: that a login always finds the user's game again (a
table that is destroyed erases the mapping of a user who has since joined another).

## What is left

Models: the bot's minimax against a reference definition on small hands; sette mezzo of the
legacy server. Proofs: of the safety properties the runs check `LastCapturerSweeps` and
`BotFollowsPriorities` have no theorem; the first two merits of the latter, the scopa and the settebello, follow from a bound on the
cards of a capture (no more than ten and the one played).
