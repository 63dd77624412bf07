------------------------------- MODULE Lobby -------------------------------
(***************************************************************************)
(* Connections, logins and the match registry of the C++ server, over      *)
(* several tables: ClientSession, SessionRegistry, Router::handle_login,   *)
(* Server::remove_session and MatchRegistry.  The tables are those of      *)
(* TableSteps.                                                             *)
(*                                                                         *)
(* One action is one handler run by the io_context.  What a login settled  *)
(* two seconds ago does to a table (autoplay off) is in module Tressette:  *)
(* it moves neither seats nor maps.                                        *)
(***************************************************************************)
EXTENDS TableSteps

CONSTANTS
    Sessions,       \* the connections there may be at a time
    NoSession,
    MaxTables       \* bound: tables created

ASSUME LobbyAssumption == NoSession \notin Sessions /\ MaxTables \in Nat

Tables == 1..MaxTables
NoTable == 0

\* A session: not connected; open; asked to close (the close is posted); closed with a read
\* still outstanding; closing (async_close runs).  One that is removed leaves no trace in the
\* registry, so its name may serve for a later connection.
Lives == {"none", "open", "asked", "last read", "closing"}

VARIABLES
    life,           \* of each session
    uidOf,          \* ClientSession::uid_, with its token (NoOne: not authenticated)
    sessionOf,      \* SessionRegistry::session_id_by_uid_
    table,          \* MatchRegistry::matches_
    nextId,         \* next_match_id_
    place,          \* user_match_ids_
    shared,         \* history: users who were mapped to one connection with another user
    moved           \* history: users who took a place while they were at another table

netVars == <<life, uidOf, sessionOf, shared>>
tableVars == <<table, nextId, place, moved>>
vars == <<netVars, tableVars>>

NowhereTable == [stage |-> "Gone", seat |-> [i \in Places |-> NoOne], viewers |-> {}]

Standing == {m \in Tables : table[m].stage # "Gone"}
Registered(s) == life[s] # "none"
Online(u) == sessionOf[u] # NoSession /\ Registered(sessionOf[u])
OnlineUsers == {u \in Users : Online(u)}
MatchOfUser(u) == {place[u]} \cap Standing
-----------------------------------------------------------------------------
(* Connections *)

OnNewConnection(s) ==
    /\ life[s] = "none"
    /\ life' = [life EXCEPT ![s] = "open"]
    /\ UNCHANGED <<uidOf, sessionOf, shared, tableVars>>

\* A packet of s is handled; a read that was outstanding at the close is not followed by
\* another.
Handled(s, lives) == IF lives[s] = "last read" THEN [lives EXCEPT ![s] = "closing"] ELSE lives
Heard(s) == life[s] \in {"open", "asked", "last read"}

\* The session that held the uid, if it is another one.
OldSession(u, s) == {sessionOf[u]} \cap {o \in Sessions \ {s} : Registered(o)}

\* Slip: the older session stays logged in until it is closed.
KeepOld(u, s) == [uidOf EXCEPT ![s] = u]

\* Router::handle_login binds the session, then bind_uid clears the older one.
Authenticated(u, s) ==
    [o \in Sessions |-> IF o = s THEN u ELSE IF o \in OldSession(u, s) THEN NoOne ELSE uidOf[o]]

\* Slip: the first session of a user stays the one that is looked up.
FirstBinding(u, s) == IF Online(u) THEN sessionOf ELSE [sessionOf EXCEPT ![u] = s]
Binding(u, s) == [sessionOf EXCEPT ![u] = s]

\* The others who are mapped to s.
Sharers(s, u) == {v \in Users \ {u} : sessionOf[v] = s}

HandleLogin(s, u) ==
    /\ Heard(s)
    /\ uidOf' = Authenticated(u, s)
    /\ sessionOf' = Binding(u, s)
    /\ life' = Handled(s, [o \in Sessions |->
                  IF o \in OldSession(u, s) /\ life[o] = "open" THEN "asked" ELSE life[o]])
    /\ shared' = shared \cup Sharers(s, u) \cup {v \in {u} : Sharers(s, u) # {}}
    /\ UNCHANGED tableVars

\* do_close: called by the posted close or a failed write while a read is outstanding, or by the
\* read that fails.
DoClose(s) ==
    /\ \/ /\ life[s] \in {"open", "asked"}
          /\ life' \in {[life EXCEPT ![s] = l] : l \in {"last read", "closing"}}
       \/ /\ life[s] = "last read"
          /\ life' = [life EXCEPT ![s] = "closing"]
    /\ UNCHANGED <<uidOf, sessionOf, shared, tableVars>>

\* Slip: the match is not told.
NobodyTold(s) == {}
Told(s) == {uidOf[s]} \ {NoOne}

\* Slip: user_leave without notify_user_removed.
PlaceKept(gone, m) == place

\* on_user_removed_from_match, for all who have left table m.
PlaceWithout(gone, m) == [u \in Users |-> IF u \in gone /\ place[u] = m THEN NoTable ELSE place[u]]

\* Slip: the registry forgets the user even when the game keeps the seat.
DepartForgets(u, m) ==
    /\ table' = [table EXCEPT ![m] = Leaving(@, u)]
    /\ place' = PlaceWithout({u}, m)

\* What leaving table m, or losing the connection to it, changes.
Depart(u, m) ==
    /\ table' = [table EXCEPT ![m] = Leaving(@, u)]
    /\ place' = PlaceWithout({u} \ PeopleAt(table'[m]), m)

\* The end of async_close: remove_session tells the match of the user, then the registry drops
\* every uid that is mapped to the session.
RemoveSession(s) ==
    /\ life[s] = "closing"
    /\ life' = [life EXCEPT ![s] = "none"]
    /\ uidOf' = [uidOf EXCEPT ![s] = NoOne]
    /\ sessionOf' = [u \in Users |-> IF sessionOf[u] = s THEN NoSession ELSE sessionOf[u]]
    /\ \/ \E u \in Told(s) : \E m \in MatchOfUser(u) : Depart(u, m)
       \/ /\ \A u \in Told(s) : MatchOfUser(u) = {}
          /\ UNCHANGED <<table, place>>
    /\ UNCHANGED <<shared, nextId, moved>>
-----------------------------------------------------------------------------
(* Packets to the registry and to tables *)

\* A packet that is_authorized lets through, from the user the session is bound to.
Packet(s, u) ==
    /\ Heard(s)
    /\ uidOf[s] = u
    /\ life' = Handled(s, life)
    /\ UNCHANGED <<uidOf, sessionOf, shared>>

\* user_join_match, when try_join succeeds.
UserJoinMatch(u, m) ==
    /\ u \notin SeatedAt(table[m])
    /\ table' = [table EXCEPT ![m] = Seating(@, u)]
    /\ place' = [place EXCEPT ![u] = m]
    /\ moved' = moved \cup {v \in {u} : \E n \in Standing \ {m} : v \in PeopleAt(table[n])}
    /\ UNCHANGED nextId

\* JOIN_TABLE_BY_ID, and a viewer's request to sit down.
JoinTableById(s) ==
    \E u \in Users : Packet(s, u) /\ \E m \in Standing : UserJoinMatch(u, m)

Suitable == {m \in Standing : table[m].stage = "Waiting" /\ ~Full(table[m])}

\* create_match and the creator's user_join_match.
OpenTable(u) ==
    /\ nextId \in Tables
    /\ nextId' = nextId + 1
    /\ table' = [table EXCEPT ![nextId] = Opened(u)]
    /\ place' = [place EXCEPT ![u] = nextId]
    /\ moved' = moved \cup {v \in {u} : \E n \in Standing : v \in PeopleAt(table[n])}

QuickPlay(s) ==
    \E u \in Users :
        /\ Packet(s, u)
        /\ MatchOfUser(u) = {}
        /\ \/ \E m \in Suitable : UserJoinMatch(u, m)
           \/ Suitable = {} /\ OpenTable(u)

RegisterLeaveGame(s) ==
    \E u \in Users :
        /\ Packet(s, u)
        /\ \E m \in MatchOfUser(u) : u \in PeopleAt(table[m]) /\ Depart(u, m)
        /\ UNCHANGED <<nextId, moved>>

\* The card that ends a game.
PlayLastCard(s) ==
    \E u \in Users :
        /\ Packet(s, u)
        /\ \E m \in MatchOfUser(u) :
              /\ u \in SeatedAt(table[m])
              /\ \E t \in GameOver(table[m]) : table' = [table EXCEPT ![m] = t]
        /\ UNCHANGED <<nextId, place, moved>>
-----------------------------------------------------------------------------
(* Time *)

\* loop() of each table: any outcome of one with any of the others (the outer set holds the
\* possible outcomes of each table once, for TLC's sake).
Looped ==
    UNION {{after \in [Standing -> UNION {looping[m] : m \in Standing}] :
                \A m \in Standing : after[m] \in looping[m]} :
           looping \in {[m \in Standing |-> Looping(table[m], OnlineUsers)]}}

\* loop() of each table, then flush_pending_destroy_matches(): destroy_match_now erases the
\* mapping of everybody at a table it drops, wherever it leads.
Update ==
    /\ \E after \in Looped :
          LET dropped == {m \in Standing : after[m].stage = "Gone"}
              left(m) == PeopleAt(table[m]) \ PeopleAt(after[m])
              kicked == {u \in Users : place[u] \in Standing /\ u \in left(place[u])}
              erased == UNION {PeopleAt(after[m]) : m \in dropped}
          IN /\ table' = [m \in Tables |-> IF m \in Standing \ dropped THEN after[m]
                                           ELSE NowhereTable]
             /\ place' = [u \in Users |-> IF u \in kicked \cup erased THEN NoTable
                                          ELSE place[u]]
    /\ UNCHANGED <<netVars, nextId, moved>>
-----------------------------------------------------------------------------
Init ==
    /\ life = [s \in Sessions |-> "none"]
    /\ uidOf = [s \in Sessions |-> NoOne]
    /\ sessionOf = [u \in Users |-> NoSession]
    /\ table = [m \in Tables |-> NowhereTable]
    /\ nextId = 1
    /\ place = [u \in Users |-> NoTable]
    /\ shared = {} /\ moved = {}

Next ==
    \/ \E s \in Sessions :
          \/ OnNewConnection(s) \/ DoClose(s) \/ RemoveSession(s)
          \/ \E u \in Users : HandleLogin(s, u)
          \/ QuickPlay(s) \/ JoinTableById(s) \/ RegisterLeaveGame(s) \/ PlayLastCard(s)
    \/ Update

Spec == Init /\ [][Next]_vars
-----------------------------------------------------------------------------
(* Properties *)

\* Every variable keeps its type.
LobbyTypeOK ==
    /\ life \in [Sessions -> Lives]
    /\ uidOf \in [Sessions -> Users \cup {NoOne}]
    /\ sessionOf \in [Users -> Sessions \cup {NoSession}]
    /\ table \in [Tables -> TableType]
    /\ nextId \in 1..(MaxTables + 1)
    /\ place \in [Users -> Tables \cup {NoTable}]
    /\ shared \subseteq Users /\ moved \subseteq Users

\* user_match_ids_ never leads to a table that is gone or that the user is not at, whatever
\* order joins, kicks, drops and destructions come in.
MapLeadsToSeat ==
    \A u \in Users : place[u] # NoTable =>
        place[u] \in Standing /\ u \in PeopleAt(table[place[u]])

\* Nobody is at a table the registry does not know of, so that a packet, a drop or a new login
\* reaches it: but for those who went to a second table by JOIN_TABLE_BY_ID.
SeatKnown ==
    \A m \in Standing : \A u \in PeopleAt(table[m]) \ moved : place[u] = m

\* Two connections never speak for one user, however logins and closes overlap.
OneVoice ==
    \A s \in Sessions, u \in Users : Registered(s) /\ uidOf[s] = u => sessionOf[u] = s

\* Who counts as online has a connection logged in as that user: a login of another user on
\* the connection misleads only about the users who were mapped to it together.
OnlineIsTrue ==
    \A u \in Users \ shared : Online(u) => uidOf[sessionOf[u]] = u

Absent(u, m) == u \in PeopleAt(table[m]) /\ ~Online(u)

\* Somebody offline is at a table only with the seat of a game that was on when the connection
\* went: every other place is given up with the connection (again but for users who shared a
\* connection or went to a second table).
AbsentOnlyFromGame ==
    [][\A m \in Standing, u \in Users \ (shared \cup moved)' :
           ~Absent(u, m) /\ Absent(u, m)' => HeldInGame(table[m], u)]_vars
=============================================================================
