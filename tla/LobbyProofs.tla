---------------------------- MODULE LobbyProofs ----------------------------
(***************************************************************************)
(* The registry's maps are right for any number of people, connections and *)
(* tables: user_match_ids_ leads each user to a table he is at, a user has *)
(* one voice, and whoever counts as online is.                             *)
(***************************************************************************)
EXTENDS Lobby, TLAPS

\* A uid is bound only to a session that is there, a session that is not has no uid, and
\* users mapped to one session are on record as sharing it.
Bound ==
    /\ \A u \in Users : sessionOf[u] # NoSession => Registered(sessionOf[u])
    /\ \A s \in Sessions : ~Registered(s) => uidOf[s] = NoOne
    /\ \A u, v \in Users : sessionOf[u] = sessionOf[v] /\ sessionOf[u] # NoSession =>
            u = v \/ u \in shared

\* The next table is not in use.
NextFree == \A m \in Tables : m >= nextId => m \notin Standing

SessionInv == Bound /\ OneVoice /\ OnlineIsTrue
PlaceInv == NextFree /\ MapLeadsToSeat /\ SeatKnown
LobbyInv == LobbyTypeOK /\ SessionInv /\ PlaceInv
-----------------------------------------------------------------------------
(* A table *)

LEMMA PlacesAre == \/ PlayerMode = 2 /\ Places = {0, 1}
                   \/ PlayerMode = 4 /\ Places = {0, 1, 2, 3}
  BY ContractAssumption DEF Places

LEMMA FirstPlace == ASSUME NEW S \in SUBSET Places, S # {} PROVE Min(S) \in S
<1>1. \E i \in S : \A j \in S : i <= j
  BY PlacesAre
<1> QED
  BY <1>1 DEF Min

LEMMA TableIs ==
  ASSUME NEW t \in TableType
  PROVE  /\ t = [stage |-> t.stage, seat |-> t.seat, viewers |-> t.viewers]
         /\ t.stage \in Stages /\ t.seat \in [Places -> Users \cup {Robot, NoOne}]
         /\ t.viewers \subseteq Users
  BY DEF TableType

\* A table whose stage alone changes.
LEMMA StageOnly ==
  ASSUME NEW t \in TableType, NEW stage \in Stages
  PROVE  /\ [t EXCEPT !.stage = stage] \in TableType
         /\ [t EXCEPT !.stage = stage].stage = stage
         /\ PeopleAt([t EXCEPT !.stage = stage]) = PeopleAt(t)
         /\ SeatedAt([t EXCEPT !.stage = stage]) = SeatedAt(t)
<1> DEFINE r == [t EXCEPT !.stage = stage]
<1>1. r = [stage |-> stage, seat |-> t.seat, viewers |-> t.viewers]
  BY TableIs DEF TableType
<1>2. r.stage = stage /\ r.seat = t.seat /\ r.viewers = t.viewers
  BY <1>1
<1>3. r \in TableType
  BY <1>1, TableIs DEF TableType
<1>4. SeatedAt(r) = SeatedAt(t)
  BY <1>2 DEF SeatedAt
<1> QED
  BY <1>2, <1>3, <1>4 DEF PeopleAt

LEMMA OpenedPeople ==
  ASSUME NEW u \in Users PROVE Opened(u) \in TableType /\ PeopleAt(Opened(u)) = {u}
                               /\ Opened(u).stage # "Gone"
<1>1. 0 \in Places
  BY PlacesAre
<1>2. /\ Opened(u).stage = "Waiting" /\ Opened(u).viewers = {}
      /\ Opened(u).seat = [i \in Places |-> IF i = 0 THEN u ELSE NoOne]
      /\ Opened(u) \in TableType
  BY <1>1 DEF Opened, TableType, Stages
<1>3. SeatedAt(Opened(u)) = {u}
  BY <1>1, <1>2, ContractAssumption DEF SeatedAt
<1> QED
  BY <1>2, <1>3, ContractAssumption DEF PeopleAt

\* try_join moves nobody else.
LEMMA SeatingPeople ==
  ASSUME NEW t \in TableType, NEW w \in Users \cup {Robot}, w = Robot => ~Full(t)
  PROVE  /\ Seating(t, w) \in TableType /\ Seating(t, w).stage = t.stage
         /\ PeopleAt(Seating(t, w)) = PeopleAt(t) \cup ({w} \ {Robot})
<1>0. /\ t.stage \in Stages /\ t.seat \in [Places -> Users \cup {Robot, NoOne}]
      /\ t.viewers \subseteq Users
      /\ t = [stage |-> t.stage, seat |-> t.seat, viewers |-> t.viewers]
  BY TableIs
<1>1. CASE Full(t)
  <2> DEFINE r == [stage |-> t.stage, seat |-> t.seat, viewers |-> t.viewers \cup {w}]
  <2>1. Seating(t, w) = r /\ w \in Users
    BY <1>0, <1>1 DEF Seating, TableType
  <2>2. SeatedAt(r) = SeatedAt(t)
    BY DEF SeatedAt
  <2>3. PeopleAt(r) = PeopleAt(t) \cup ({w} \ {Robot})
    BY <2>2 DEF PeopleAt
  <2>4. r \in TableType /\ r.stage = t.stage
    BY <1>0, <2>1 DEF TableType
  <2> QED
    BY <2>1, <2>3, <2>4
<1>2. CASE ~Full(t)
  <2> DEFINE i == Min(FreePlaces(t))
             r == [stage |-> t.stage, seat |-> [t.seat EXCEPT ![i] = w], viewers |-> t.viewers \ {w}]
  <2>1. i \in Places /\ t.seat[i] = NoOne
    <3>1. FreePlaces(t) \in SUBSET Places /\ FreePlaces(t) # {}
      BY <1>2 DEF FreePlaces, Full
    <3>2. i \in FreePlaces(t)
      BY <3>1, FirstPlace
    <3> QED
      BY <3>2 DEF FreePlaces
  <2>2. Seating(t, w) = r
    BY <1>0, <1>2 DEF Seating, TableType
  <2> HIDE DEF i
  <2>3. r \in TableType /\ r.stage = t.stage
    BY <1>0, <2>1 DEF TableType
  <2>4. w # NoOne
    BY ContractAssumption
  <2>5. \A j \in Places : r.seat[j] = IF j = i THEN w ELSE t.seat[j]
    BY <1>0, <2>1
  <2>6. SeatedAt(r) = SeatedAt(t) \cup {w}
    <3>1. SeatedAt(r) \subseteq SeatedAt(t) \cup {w}
      BY <2>5 DEF SeatedAt
    <3>2. w \in SeatedAt(r)
      BY <2>1, <2>4, <2>5 DEF SeatedAt
    <3>3. ASSUME NEW x \in SeatedAt(t) PROVE x \in SeatedAt(r)
      <4>1. PICK j \in Places : t.seat[j] = x /\ x # NoOne
        BY DEF SeatedAt
      <4>2. r.seat[j] = x
        BY <2>1, <2>5, <4>1
      <4> QED
        BY <4>1, <4>2 DEF SeatedAt
    <3> QED
      BY <3>1, <3>2, <3>3
  <2>7. r.viewers = t.viewers \ {w}
    OBVIOUS
  <2> HIDE DEF r
  <2>8. PeopleAt(r) = PeopleAt(t) \cup ({w} \ {Robot})
    BY <2>6, <2>7 DEF PeopleAt
  <2> QED
    BY <2>2, <2>3, <2>8
<1> QED
  BY <1>1, <1>2

LEMMA WithoutPeople ==
  ASSUME NEW t \in TableType, NEW leavers
  PROVE  /\ Without(t, leavers) \in TableType
         /\ PeopleAt(Without(t, leavers)) = PeopleAt(t) \ leavers
         /\ t.stage # "Gone" => Without(t, leavers).stage # "Gone"
<1> DEFINE r == Without(t, leavers)
<1>0. /\ t.stage \in Stages /\ t.seat \in [Places -> Users \cup {Robot, NoOne}]
      /\ t.viewers \subseteq Users
  BY TableIs
<1>1. /\ r.stage \in {t.stage, "Waiting"} /\ r.viewers = t.viewers \ leavers
      /\ r.seat = [i \in Places |-> IF t.seat[i] \in leavers THEN NoOne ELSE t.seat[i]]
      /\ r \in TableType
  BY <1>0 DEF Without, TableType, Stages
<1> HIDE DEF r
<1>2. \A i \in Places : r.seat[i] = IF t.seat[i] \in leavers THEN NoOne ELSE t.seat[i]
  BY <1>1
<1>3. SeatedAt(r) = SeatedAt(t) \ leavers
  <2>1. SeatedAt(r) \subseteq SeatedAt(t) \ leavers
    BY <1>2 DEF SeatedAt
  <2>2. ASSUME NEW x \in SeatedAt(t) \ leavers PROVE x \in SeatedAt(r)
    <3>1. PICK i \in Places : t.seat[i] = x /\ x # NoOne
      BY DEF SeatedAt
    <3>2. r.seat[i] = x
      BY <1>2, <3>1
    <3> QED
      BY <3>1, <3>2 DEF SeatedAt
  <2> QED
    BY <2>1, <2>2
<1>4. PeopleAt(r) = PeopleAt(t) \ leavers
  BY <1>1, <1>3 DEF PeopleAt
<1> QED
  BY <1>1, <1>4 DEF r

\* Who leaves is gone, or held by the game; nobody else is moved.
LEMMA LeavingPeople ==
  ASSUME NEW t \in TableType, NEW u
  PROVE  /\ Leaving(t, u) \in TableType
         /\ PeopleAt(Leaving(t, u)) \subseteq PeopleAt(t)
         /\ PeopleAt(t) \ {u} \subseteq PeopleAt(Leaving(t, u))
         /\ u \in PeopleAt(Leaving(t, u)) => HeldInGame(t, u)
         /\ t.stage # "Gone" => Leaving(t, u).stage # "Gone"
  BY WithoutPeople DEF Leaving

LEMMA GameOverPeople ==
  ASSUME NEW t \in TableType, NEW r \in GameOver(t)
  PROVE  r \in TableType /\ PeopleAt(r) = PeopleAt(t) /\ r.stage = "Ended"
<1>1. r = [t EXCEPT !.stage = "Ended"] /\ "Ended" \in Stages
  BY DEF GameOver, Stages
<1> QED
  BY <1>1, StageOnly
LEMMA KickingPeople ==
  ASSUME NEW t \in TableType, NEW r \in Kicking(t)
  PROVE  r \in TableType /\ PeopleAt(r) \subseteq PeopleAt(t) /\ r.stage # "Gone"
<1> DEFINE c == [t EXCEPT !.stage = "Cleared"]
<1>1. PICK gone : r = Without(c, gone \cup {Robot})
  BY DEF Kicking
<1>2. "Cleared" \in Stages
  BY DEF Stages
<1>3. c \in TableType /\ PeopleAt(c) = PeopleAt(t) /\ c.stage = "Cleared"
  BY <1>2, StageOnly
<1> HIDE DEF c
<1> QED
  BY <1>1, <1>3, WithoutPeople

LEMMA ResumingPeople ==
  ASSUME NEW t \in TableType, NEW r \in Resuming(t)
  PROVE  r \in TableType /\ PeopleAt(r) = PeopleAt(t)
<1>1. \E stage \in Stages : r = [t EXCEPT !.stage = stage]
  BY DEF Resuming, Stages
<1> QED
  BY <1>1, StageOnly

LEMMA PassingPeople ==
  ASSUME NEW t \in TableType, NEW r \in Passing(t)
  PROVE  r \in TableType /\ PeopleAt(r) = PeopleAt(t)
<1>1. \/ r = t
      \/ \E stage \in Stages : r = [t EXCEPT !.stage = stage]
      \/ ~Full(t) /\ r = Seating(t, Robot)
      \/ r \in GameOver(t)
  BY DEF Passing, Stages
<1>2. PeopleAt(t) \cup ({Robot} \ {Robot}) = PeopleAt(t)
  OBVIOUS
<1>3. CASE ~Full(t) /\ r = Seating(t, Robot)
  BY <1>2, <1>3, SeatingPeople
<1>4. CASE \E stage \in Stages : r = [t EXCEPT !.stage = stage]
  BY <1>4, StageOnly
<1> QED
  BY <1>1, <1>3, <1>4, GameOverPeople

\* An update brings nobody to a table.
LEMMA LoopingPeople ==
  ASSUME NEW t \in TableType, NEW connected, NEW r \in Looping(t, connected)
  PROVE  r \in TableType /\ PeopleAt(r) \subseteq PeopleAt(t)
<1> DEFINE due == {t} \cup Kicking(t)
           resumed == due \cup UNION {Resuming(q) : q \in due}
<1>1. \A q \in due : q \in TableType /\ PeopleAt(q) \subseteq PeopleAt(t)
  BY KickingPeople
<1>2. \A q \in resumed : q \in TableType /\ PeopleAt(q) \subseteq PeopleAt(t)
  BY <1>1, ResumingPeople
<1>3. PICK q \in resumed : \E p \in Passing(q) : r = Closing(p, connected)
  BY DEF Looping
<1> HIDE DEF due, resumed
<1>4. PICK p \in Passing(q) : r = Closing(p, connected)
  BY <1>3
<1>5. p \in TableType /\ PeopleAt(p) \subseteq PeopleAt(t)
  BY <1>2, <1>3, <1>4, PassingPeople
<1>6. "Gone" \in Stages
  BY DEF Stages
<1> QED
  BY <1>4, <1>5, <1>6, StageOnly DEF Closing

LEMMA NowhereIs == NowhereTable \in TableType /\ PeopleAt(NowhereTable) = {} /\ NowhereTable.stage = "Gone"
<1>1. /\ NowhereTable.stage = "Gone" /\ NowhereTable.viewers = {}
      /\ NowhereTable.seat = [i \in Places |-> NoOne]
      /\ NowhereTable \in TableType
  BY DEF NowhereTable, TableType, Stages
<1>2. SeatedAt(NowhereTable) = {}
  BY <1>1 DEF SeatedAt
<1> QED
  BY <1>1, <1>2 DEF PeopleAt

LEMMA PeopleAreUsers == ASSUME NEW t \in TableType PROVE PeopleAt(t) \subseteq Users
  BY TableIs DEF PeopleAt, SeatedAt
-----------------------------------------------------------------------------
(* Connections *)

\* Steps that touch no session, but for a read that was its last.
LEMMA SessionsKept ==
  ASSUME LobbyTypeOK, SessionInv, UNCHANGED <<uidOf, sessionOf, shared>>,
         life' \in [Sessions -> Lives],
         \A s \in Sessions : Registered(s)' = Registered(s)
  PROVE  SessionInv' /\ \A u \in Users : Online(u)' = Online(u)
<1>1. \A u \in Users : Online(u)' = Online(u) /\ (sessionOf[u] # NoSession => sessionOf[u] \in Sessions)
  BY DEF LobbyTypeOK, Online
<1>2. Bound'
  BY <1>1 DEF SessionInv, Bound
<1>3. OneVoice' /\ OnlineIsTrue'
  BY <1>1 DEF SessionInv, OneVoice, OnlineIsTrue
<1> QED
  BY <1>1, <1>2, <1>3 DEF SessionInv

LEMMA HandledSession ==
  ASSUME NEW s \in Sessions, NEW lives \in [Sessions -> Lives]
  PROVE  /\ Handled(s, lives) \in [Sessions -> Lives]
         /\ \A o \in Sessions : Handled(s, lives)[o] # "none" <=> lives[o] # "none"
  BY DEF Handled, Lives

LEMMA NewConnectionSessions ==
  ASSUME LobbyTypeOK, SessionInv, NEW s \in Sessions, OnNewConnection(s)
  PROVE  SessionInv' /\ life' \in [Sessions -> Lives] /\ \A u \in Users : Online(u)' = Online(u)
<1>1. /\ life \in [Sessions -> Lives] /\ life[s] = "none"
      /\ life' = [life EXCEPT ![s] = "open"] /\ UNCHANGED <<uidOf, sessionOf, shared>>
  BY DEF LobbyTypeOK, OnNewConnection
<1>2. life' \in [Sessions -> Lives]
  BY <1>1 DEF Lives
<1>3. uidOf[s] = NoOne /\ \A u \in Users : sessionOf[u] # s /\ u # NoOne
  <2>1. ~Registered(s) /\ s # NoSession
    BY <1>1, LobbyAssumption DEF Registered
  <2> QED
    BY <2>1, ContractAssumption DEF SessionInv, Bound
<1>4. \A o \in Sessions : Registered(o)' <=> Registered(o) \/ o = s
  BY <1>1 DEF Registered
<1>5. \A u \in Users : sessionOf[u] # NoSession => sessionOf[u] \in Sessions
  BY DEF LobbyTypeOK
<1>6. \A u \in Users : Online(u)' = Online(u)
  BY <1>1, <1>3, <1>4, <1>5 DEF Online
<1>7. Bound'
  BY <1>1, <1>4, <1>5 DEF SessionInv, Bound
<1>8. OneVoice'
  BY <1>1, <1>3, <1>4 DEF SessionInv, OneVoice
<1>9. OnlineIsTrue'
  BY <1>1, <1>6 DEF SessionInv, OnlineIsTrue
<1> QED
  BY <1>2, <1>6, <1>7, <1>8, <1>9 DEF SessionInv

LEMMA LoginSessions ==
  ASSUME LobbyTypeOK, SessionInv, NEW s \in Sessions, NEW u \in Users, HandleLogin(s, u)
  PROVE  /\ SessionInv' /\ \A v \in Users : Online(v) => Online(v)'
         /\ life' \in [Sessions -> Lives] /\ uidOf' \in [Sessions -> Users \cup {NoOne}]
         /\ sessionOf' \in [Users -> Sessions \cup {NoSession}] /\ shared' \subseteq Users
<1>1. /\ life \in [Sessions -> Lives] /\ uidOf \in [Sessions -> Users \cup {NoOne}]
      /\ sessionOf \in [Users -> Sessions \cup {NoSession}] /\ shared \subseteq Users
      /\ NoSession \notin Sessions /\ NoOne \notin Users
  BY LobbyAssumption, ContractAssumption DEF LobbyTypeOK
<1>2. /\ uidOf' = [o \in Sessions |-> IF o = s THEN u ELSE IF o \in OldSession(u, s) THEN NoOne ELSE uidOf[o]]
      /\ sessionOf' = [sessionOf EXCEPT ![u] = s]
      /\ shared' = shared \cup Sharers(s, u) \cup {v \in {u} : Sharers(s, u) # {}}
  BY DEF HandleLogin, Authenticated, Binding
<1> DEFINE lives == [o \in Sessions |->
                        IF o \in OldSession(u, s) /\ life[o] = "open" THEN "asked" ELSE life[o]]
<1>3. /\ lives \in [Sessions -> Lives]
      /\ \A o \in Sessions : lives[o] # "none" <=> life[o] # "none"
  BY <1>1 DEF Lives
<1>4. life' = Handled(s, lives) /\ life[s] # "none"
  BY DEF HandleLogin, Heard
<1> HIDE DEF lives
<1>5. life' \in [Sessions -> Lives] /\ Registered(s) /\ \A o \in Sessions : Registered(o)' = Registered(o)
  BY <1>3, <1>4, HandledSession DEF Registered
<1>6. /\ uidOf' \in [Sessions -> Users \cup {NoOne}]
      /\ sessionOf' \in [Users -> Sessions \cup {NoSession}] /\ shared' \subseteq Users
  BY <1>1, <1>2 DEF Sharers
<1>7. \A v \in Users : sessionOf'[v] = IF v = u THEN s ELSE sessionOf[v]
  BY <1>1, <1>2
<1>8. \A o \in Sessions : o \in OldSession(u, s) <=> o # s /\ o = sessionOf[u] /\ Registered(o)
  BY DEF OldSession
<1>9. \A v \in Users : Online(v) => Online(v)'
  BY <1>1, <1>5, <1>6, <1>7 DEF Online
<1>10. Bound'
  <2>1. \A v \in Users : sessionOf'[v] # NoSession => life'[sessionOf'[v]] # "none"
    BY <1>1, <1>5, <1>7 DEF SessionInv, Bound, Registered
  <2>2. \A o \in Sessions : ~Registered(o)' => uidOf'[o] = NoOne
    BY <1>2, <1>5 DEF SessionInv, Bound
  <2>3. ASSUME NEW v \in Users, NEW w \in Users, sessionOf'[v] = sessionOf'[w],
               sessionOf'[v] # NoSession, v # w
        PROVE  v \in shared'
    <3>1. CASE v = u
      BY <1>2, <1>7, <2>3, <3>1 DEF Sharers
    <3>2. CASE w = u
      BY <1>2, <1>7, <2>3, <3>2 DEF Sharers
    <3>3. CASE v # u /\ w # u
      BY <1>2, <1>7, <2>3, <3>3 DEF SessionInv, Bound
    <3> QED
      BY <3>1, <3>2, <3>3
  <2> QED
    BY <2>1, <2>2, <2>3, <1>5 DEF Bound, Registered
<1>11. OneVoice'
  <2> SUFFICES ASSUME NEW o \in Sessions, NEW v \in Users, Registered(o)', uidOf'[o] = v
               PROVE  sessionOf'[v] = o
    BY DEF OneVoice
  <2>1. CASE o = s
    BY <1>2, <1>7, <2>1
  <2>2. CASE o # s
    <3>1. o \notin OldSession(u, s) /\ uidOf[o] = v
      BY <1>1, <1>2, <2>2
    <3>2. sessionOf[v] = o
      BY <1>5, <3>1 DEF SessionInv, OneVoice
    <3>3. v # u
      BY <1>5, <1>8, <2>2, <3>1, <3>2
    <3> QED
      BY <1>7, <3>2, <3>3
  <2> QED
    BY <2>1, <2>2
<1>12. OnlineIsTrue'
  <2> SUFFICES ASSUME NEW v \in Users, v \notin shared', Online(v)'
               PROVE  uidOf'[sessionOf'[v]] = v
    BY DEF OnlineIsTrue
  <2>1. CASE v = u
    BY <1>2, <1>7, <2>1
  <2>2. CASE v # u
    <3>1. sessionOf[v] # s /\ v \notin shared
      BY <1>2, <2>2 DEF Sharers
    <3>2. sessionOf'[v] = sessionOf[v] /\ sessionOf[v] # NoSession /\ sessionOf[v] \in Sessions
      BY <1>1, <1>7, <2>2 DEF Online
    <3>3. Online(v)
      BY <1>5, <3>2 DEF Online
    <3>4. sessionOf[v] \notin OldSession(u, s)
      BY <1>8, <2>2, <3>1, <3>2 DEF SessionInv, Bound
    <3>5. uidOf[sessionOf[v]] = v
      BY <3>1, <3>3 DEF SessionInv, OnlineIsTrue
    <3> QED
      BY <1>2, <3>1, <3>2, <3>4, <3>5
  <2> QED
    BY <2>1, <2>2
<1> QED
  BY <1>5, <1>6, <1>9, <1>10, <1>11, <1>12 DEF SessionInv

LEMMA RemoveSessions ==
  ASSUME LobbyTypeOK, SessionInv, NEW s \in Sessions, RemoveSession(s)
  PROVE  /\ SessionInv' /\ \A v \in Users : Online(v)' <=> Online(v) /\ sessionOf[v] # s
         /\ life' \in [Sessions -> Lives] /\ uidOf' \in [Sessions -> Users \cup {NoOne}]
         /\ sessionOf' \in [Users -> Sessions \cup {NoSession}]
<1>1. /\ life \in [Sessions -> Lives] /\ uidOf \in [Sessions -> Users \cup {NoOne}]
      /\ sessionOf \in [Users -> Sessions \cup {NoSession}]
      /\ NoSession \notin Sessions /\ NoOne \notin Users
  BY LobbyAssumption, ContractAssumption DEF LobbyTypeOK
<1>2. /\ life' = [life EXCEPT ![s] = "none"] /\ uidOf' = [uidOf EXCEPT ![s] = NoOne]
      /\ sessionOf' = [u \in Users |-> IF sessionOf[u] = s THEN NoSession ELSE sessionOf[u]]
      /\ shared' = shared
  BY DEF RemoveSession
<1>3. /\ life' \in [Sessions -> Lives] /\ uidOf' \in [Sessions -> Users \cup {NoOne}]
      /\ sessionOf' \in [Users -> Sessions \cup {NoSession}]
  BY <1>1, <1>2 DEF Lives
<1>4. \A o \in Sessions : (Registered(o)' <=> Registered(o) /\ o # s)
                            /\ uidOf'[o] = IF o = s THEN NoOne ELSE uidOf[o]
  BY <1>1, <1>2 DEF Registered
<1>5. \A v \in Users : sessionOf'[v] = IF sessionOf[v] = s THEN NoSession ELSE sessionOf[v]
  BY <1>2
<1>6. \A v \in Users : Online(v)' <=> Online(v) /\ sessionOf[v] # s
  BY <1>1, <1>4, <1>5 DEF Online
<1>7. Bound'
  <2>1. \A v \in Users : sessionOf'[v] # NoSession => life'[sessionOf'[v]] # "none"
    BY <1>1, <1>4, <1>5 DEF SessionInv, Bound, Registered
  <2>2. \A o \in Sessions : ~Registered(o)' => uidOf'[o] = NoOne
    BY <1>4 DEF SessionInv, Bound
  <2>3. \A v, w \in Users : sessionOf'[v] = sessionOf'[w] /\ sessionOf'[v] # NoSession =>
            v = w \/ v \in shared'
    BY <1>2, <1>5 DEF SessionInv, Bound
  <2> QED
    BY <2>1, <2>2, <2>3 DEF Bound, Registered
<1>8. OneVoice'
  BY <1>1, <1>4, <1>5 DEF SessionInv, OneVoice
<1>9. OnlineIsTrue'
  BY <1>1, <1>2, <1>4, <1>5, <1>6 DEF SessionInv, OnlineIsTrue, Online
<1> QED
  BY <1>3, <1>6, <1>7, <1>8, <1>9 DEF SessionInv
-----------------------------------------------------------------------------
(* Tables *)

TablesTyped ==
    /\ table \in [Tables -> TableType] /\ nextId \in 1..(MaxTables + 1)
    /\ place \in [Users -> Tables \cup {NoTable}] /\ moved \subseteq Users

\* What a step of one table leaves as it was.
LEMMA OneTable ==
  ASSUME LobbyTypeOK, NEW m \in Standing, NEW r \in TableType, r.stage # "Gone",
         table' = [table EXCEPT ![m] = r]
  PROVE  /\ m \in Tables /\ table[m] \in TableType /\ table' \in [Tables -> TableType]
         /\ \A n \in Tables : table'[n] = IF n = m THEN r ELSE table[n]
         /\ Standing' = Standing
<1>1. /\ m \in Tables /\ table \in [Tables -> TableType] /\ table[m].stage # "Gone"
      /\ table[m] \in TableType
  BY DEF LobbyTypeOK, Standing
<1>2. table' \in [Tables -> TableType] /\ \A n \in Tables : table'[n] = IF n = m THEN r ELSE table[n]
  BY <1>1
<1>3. Standing' = Standing
  BY <1>1, <1>2 DEF Standing
<1> QED
  BY <1>1, <1>2, <1>3

LEMMA JoinTables ==
  ASSUME LobbyTypeOK, PlaceInv, NEW u \in Users, NEW m \in Standing, UserJoinMatch(u, m)
  PROVE  /\ PlaceInv' /\ TablesTyped'
         /\ \A n \in Standing : PeopleAt(table'[n]) \subseteq PeopleAt(table[n]) \cup {u}
<1> DEFINE r == Seating(table[m], u)
<1>0. /\ table[m] \in TableType /\ m \in Tables /\ table[m].stage # "Gone"
      /\ place \in [Users -> Tables \cup {NoTable}] /\ moved \subseteq Users /\ u # Robot
  BY ContractAssumption DEF LobbyTypeOK, Standing
<1>1. r \in TableType /\ r.stage # "Gone" /\ PeopleAt(r) = PeopleAt(table[m]) \cup {u}
  BY <1>0, SeatingPeople
<1>2. /\ table' = [table EXCEPT ![m] = r] /\ place' = [place EXCEPT ![u] = m] /\ nextId' = nextId
      /\ moved' = moved \cup {v \in {u} : \E n \in Standing \ {m} : v \in PeopleAt(table[n])}
  BY DEF UserJoinMatch
<1> HIDE DEF r
<1>3. /\ table' \in [Tables -> TableType] /\ Standing' = Standing
      /\ \A n \in Tables : table'[n] = IF n = m THEN r ELSE table[n]
  BY <1>1, <1>2, OneTable
<1>4. TablesTyped'
  BY <1>0, <1>2, <1>3 DEF TablesTyped, LobbyTypeOK
<1>5. \A v \in Users : place'[v] = IF v = u THEN m ELSE place[v]
  BY <1>0, <1>2
<1>6. Standing \subseteq Tables
  BY DEF Standing
<1>7. MapLeadsToSeat'
  BY <1>1, <1>3, <1>5, <1>6 DEF PlaceInv, MapLeadsToSeat
<1>8. SeatKnown'
  <2> SUFFICES ASSUME NEW n \in Standing, NEW v \in PeopleAt(table'[n]), v \notin moved'
               PROVE  place'[v] = n
    BY <1>3 DEF SeatKnown
  <2>1. v \in Users
    BY <1>3, <1>6, PeopleAreUsers
  <2>2. CASE v = u
    BY <1>1, <1>2, <1>3, <1>5, <1>6, <2>1, <2>2
  <2>3. CASE v # u
    BY <1>1, <1>2, <1>3, <1>5, <1>6, <2>1, <2>3 DEF PlaceInv, SeatKnown
  <2> QED
    BY <2>2, <2>3
<1>9. NextFree'
  BY <1>2, <1>3 DEF PlaceInv, NextFree, Tables
<1>10. \A n \in Standing : PeopleAt(table'[n]) \subseteq PeopleAt(table[n]) \cup {u}
  BY <1>1, <1>3, <1>6
<1> QED
  BY <1>4, <1>7, <1>8, <1>9, <1>10 DEF PlaceInv

LEMMA OpenTables ==
  ASSUME LobbyTypeOK, PlaceInv, NEW u \in Users, OpenTable(u)
  PROVE  PlaceInv' /\ TablesTyped' /\ \A n \in Standing : table'[n] = table[n]
<1> DEFINE m == nextId
           r == Opened(u)
<1>0. /\ m \in Tables /\ table \in [Tables -> TableType]
      /\ place \in [Users -> Tables \cup {NoTable}] /\ moved \subseteq Users
      /\ MaxTables \in Nat
  BY LobbyAssumption DEF LobbyTypeOK, OpenTable
<1>1. r \in TableType /\ r.stage # "Gone" /\ PeopleAt(r) = {u}
  BY OpenedPeople
<1>2. /\ table' = [table EXCEPT ![m] = r] /\ place' = [place EXCEPT ![u] = m] /\ nextId' = m + 1
      /\ moved' = moved \cup {v \in {u} : \E n \in Standing : v \in PeopleAt(table[n])}
  BY DEF OpenTable
<1>3. m \notin Standing
  BY <1>0 DEF PlaceInv, NextFree, Tables
<1> HIDE DEF r
<1>4. \A n \in Tables : table'[n] = IF n = m THEN r ELSE table[n]
  BY <1>0, <1>2
<1>5. Standing' = Standing \cup {m} /\ Standing \subseteq Tables
  BY <1>0, <1>1, <1>4 DEF Standing
<1>6. TablesTyped'
  <2>1. table' \in [Tables -> TableType] /\ place' \in [Users -> Tables \cup {NoTable}] /\ moved' \subseteq Users
    BY <1>0, <1>1, <1>2
  <2>2. nextId' \in 1..(MaxTables + 1)
    BY <1>0, <1>2 DEF Tables
  <2> QED
    BY <2>1, <2>2 DEF TablesTyped
<1>7. \A v \in Users : place'[v] = IF v = u THEN m ELSE place[v]
  BY <1>0, <1>2
<1> HIDE DEF m
<1>8. MapLeadsToSeat'
  BY <1>0, <1>1, <1>3, <1>4, <1>5, <1>7 DEF PlaceInv, MapLeadsToSeat
<1>9. SeatKnown'
  <2> SUFFICES ASSUME NEW n \in Standing \cup {m}, NEW v \in PeopleAt(table'[n]), v \notin moved'
               PROVE  place'[v] = n
    BY <1>5 DEF SeatKnown
  <2>1. CASE n = m
    BY <1>0, <1>1, <1>4, <1>7, <2>1
  <2>2. CASE n # m
    <3>1. v \in PeopleAt(table[n]) /\ v \in Users /\ n \in Standing
      BY <1>0, <1>4, <1>5, <2>2, PeopleAreUsers
    <3>2. v # u /\ v \notin moved
      BY <1>2, <3>1
    <3> QED
      BY <1>7, <3>1, <3>2 DEF PlaceInv, SeatKnown
  <2> QED
    BY <2>1, <2>2
<1>10. NextFree'
  BY <1>0, <1>2, <1>5 DEF PlaceInv, NextFree, Tables, m
<1>11. \A n \in Standing : table'[n] = table[n]
  BY <1>3, <1>4, <1>5
<1> QED
  BY <1>6, <1>8, <1>9, <1>10, <1>11 DEF PlaceInv

\* Who leaves a table, or loses the connection to it, is erased from the map unless the game
\* keeps the seat.
LEMMA DepartTables ==
  ASSUME LobbyTypeOK, PlaceInv, NEW u \in Users, NEW m \in MatchOfUser(u), Depart(u, m),
         UNCHANGED <<nextId, moved>>
  PROVE  /\ PlaceInv' /\ TablesTyped' /\ m \in Standing /\ place[u] = m
         /\ \A n \in Standing : PeopleAt(table'[n]) \subseteq PeopleAt(table[n])
         /\ u \in PeopleAt(table'[m]) => HeldInGame(table[m], u)
<1> DEFINE r == Leaving(table[m], u)
<1>0. /\ m \in Standing /\ place[u] = m /\ m \in Tables /\ table[m] \in TableType
      /\ table[m].stage # "Gone" /\ place \in [Users -> Tables \cup {NoTable}]
  BY DEF MatchOfUser, LobbyTypeOK, Standing
<1>1. /\ r \in TableType /\ r.stage # "Gone" /\ PeopleAt(r) \subseteq PeopleAt(table[m])
      /\ PeopleAt(table[m]) \ {u} \subseteq PeopleAt(r)
      /\ u \in PeopleAt(r) => HeldInGame(table[m], u)
  BY <1>0, LeavingPeople
<1>2. /\ table' = [table EXCEPT ![m] = r]
      /\ place' = PlaceWithout({u} \ PeopleAt(table'[m]), m)
  BY DEF Depart
<1> HIDE DEF r
<1>3. /\ table' \in [Tables -> TableType] /\ Standing' = Standing
      /\ \A n \in Tables : table'[n] = IF n = m THEN r ELSE table[n]
  BY <1>0, <1>1, <1>2, OneTable
<1>4. \A v \in Users : place'[v] = IF v = u /\ u \notin PeopleAt(r) THEN NoTable ELSE place[v]
  BY <1>0, <1>2, <1>3 DEF PlaceWithout
<1>5. TablesTyped'
  <2>1. place' \in [Users -> Tables \cup {NoTable}]
    BY <1>0, <1>2 DEF PlaceWithout
  <2> QED
    BY <1>3, <2>1 DEF TablesTyped, LobbyTypeOK
<1>6. Standing \subseteq Tables
  BY DEF Standing
<1>7. MapLeadsToSeat'
  BY <1>0, <1>1, <1>3, <1>4, <1>6 DEF PlaceInv, MapLeadsToSeat
<1>8. SeatKnown'
  <2> SUFFICES ASSUME NEW n \in Standing, NEW v \in PeopleAt(table'[n]), v \notin moved
               PROVE  place'[v] = n
    BY <1>3 DEF SeatKnown
  <2>1. v \in Users /\ v \in PeopleAt(table[n])
    BY <1>1, <1>3, <1>6, PeopleAreUsers
  <2>2. place[v] = n
    BY <2>1 DEF PlaceInv, SeatKnown
  <2> QED
    BY <1>0, <1>3, <1>4, <1>6, <2>1, <2>2
<1>9. NextFree'
  BY <1>3 DEF PlaceInv, NextFree, Tables
<1>10. /\ \A n \in Standing : PeopleAt(table'[n]) \subseteq PeopleAt(table[n])
       /\ u \in PeopleAt(table'[m]) => HeldInGame(table[m], u)
  BY <1>0, <1>1, <1>3, <1>6
<1> QED
  BY <1>0, <1>5, <1>7, <1>8, <1>9, <1>10 DEF PlaceInv

\* Steps at a table that move nobody.
LEMMA SamePeople ==
  ASSUME LobbyTypeOK, PlaceInv, NEW m \in Standing, NEW r \in TableType, r.stage # "Gone",
         PeopleAt(r) = PeopleAt(table[m]), table' = [table EXCEPT ![m] = r],
         UNCHANGED <<nextId, place, moved>>
  PROVE  /\ PlaceInv' /\ TablesTyped'
         /\ \A n \in Standing : PeopleAt(table'[n]) = PeopleAt(table[n])
<1>1. /\ table' \in [Tables -> TableType] /\ Standing' = Standing
      /\ \A n \in Standing : PeopleAt(table'[n]) = PeopleAt(table[n])
  <2>1. Standing \subseteq Tables
    BY DEF Standing
  <2> QED
    BY <2>1, OneTable
<1>2. MapLeadsToSeat' /\ SeatKnown' /\ NextFree'
  BY <1>1 DEF PlaceInv, MapLeadsToSeat, SeatKnown, NextFree, Tables
<1> QED
  BY <1>1, <1>2 DEF PlaceInv, TablesTyped, LobbyTypeOK

LEMMA UpdateTables ==
  ASSUME LobbyTypeOK, PlaceInv, Update
  PROVE  /\ PlaceInv' /\ TablesTyped'
         /\ \A n \in Standing : PeopleAt(table'[n]) \subseteq PeopleAt(table[n])
<1> DEFINE dropped(after) == {m \in Standing : after[m].stage = "Gone"}
           left(after, m) == PeopleAt(table[m]) \ PeopleAt(after[m])
           kicked(after) == {u \in Users : place[u] \in Standing /\ u \in left(after, place[u])}
           erased(after) == UNION {PeopleAt(after[m]) : m \in dropped(after)}
<1>1. PICK after \in Looped :
          /\ table' = [m \in Tables |-> IF m \in Standing \ dropped(after) THEN after[m] ELSE NowhereTable]
          /\ place' = [u \in Users |-> IF u \in kicked(after) \cup erased(after) THEN NoTable ELSE place[u]]
          /\ UNCHANGED <<nextId, moved>>
  BY DEF Update
<1>2. \A m \in Standing : after[m] \in Looping(table[m], OnlineUsers)
  <2>1. PICK looping \in {[m \in Standing |-> Looping(table[m], OnlineUsers)]} :
           after \in {f \in [Standing -> UNION {looping[m] : m \in Standing}] :
                        \A m \in Standing : f[m] \in looping[m]}
    BY DEF Looped
  <2>2. \A m \in Standing : after[m] \in looping[m]
    BY <2>1
  <2>3. \A m \in Standing : looping[m] = Looping(table[m], OnlineUsers)
    BY <2>1
  <2> QED
    BY <2>2, <2>3
<1>3. /\ Standing \subseteq Tables /\ \A m \in Standing : table[m] \in TableType
      /\ place \in [Users -> Tables \cup {NoTable}]
  BY DEF LobbyTypeOK, Standing
<1>4. \A m \in Standing : after[m] \in TableType /\ PeopleAt(after[m]) \subseteq PeopleAt(table[m])
  BY <1>2, <1>3, LoopingPeople
<1>5. \A m \in Tables : table'[m] = IF m \in Standing /\ after[m].stage # "Gone" THEN after[m]
                                     ELSE NowhereTable
  BY <1>1
<1>6. \A m \in Tables : m \in Standing' <=> m \in Standing /\ after[m].stage # "Gone"
  BY <1>5, NowhereIs DEF Standing
<1>7. Standing' \subseteq Standing
  BY <1>6 DEF Standing
<1>8. /\ table' \in [Tables -> TableType] /\ place' \in [Users -> Tables \cup {NoTable}]
  BY <1>1, <1>3, <1>4, NowhereIs
<1>9. TablesTyped'
  BY <1>1, <1>8 DEF TablesTyped, LobbyTypeOK
<1>10. \A u \in Users : u \in erased(after) <=>
                            \E n \in Standing : after[n].stage = "Gone" /\ u \in PeopleAt(after[n])
  OBVIOUS
<1>11. \A u \in Users : u \in kicked(after) <=>
                            place[u] \in Standing /\ u \in PeopleAt(table[place[u]]) \ PeopleAt(after[place[u]])
  OBVIOUS
<1>12. \A u \in Users : place'[u] = IF u \in kicked(after) \/ u \in erased(after) THEN NoTable ELSE place[u]
  BY <1>1
<1> HIDE DEF dropped, left, kicked, erased
<1>13. MapLeadsToSeat'
  <2> SUFFICES ASSUME NEW u \in Users, place'[u] # NoTable
               PROVE  place'[u] \in Standing' /\ u \in PeopleAt(table'[place'[u]])
    BY DEF MapLeadsToSeat
  <2>1. place'[u] = place[u] /\ u \notin kicked(after) /\ u \notin erased(after)
    BY <1>12
  <2>2. place[u] \in Standing /\ u \in PeopleAt(table[place[u]])
    BY <2>1 DEF PlaceInv, MapLeadsToSeat
  <2>3. u \in PeopleAt(after[place[u]])
    BY <1>11, <2>1, <2>2
  <2>4. after[place[u]].stage # "Gone"
    BY <1>10, <2>1, <2>2, <2>3
  <2> QED
    BY <1>3, <1>5, <1>6, <2>1, <2>2, <2>3, <2>4
<1>14. SeatKnown'
  <2> SUFFICES ASSUME NEW m \in Standing', NEW u \in PeopleAt(table'[m]), u \notin moved
               PROVE  place'[u] = m
    BY <1>1 DEF SeatKnown
  <2>1. m \in Standing /\ u \in PeopleAt(after[m]) /\ after[m].stage # "Gone"
    BY <1>3, <1>5, <1>6, <1>7
  <2>2. u \in Users /\ u \in PeopleAt(table[m])
    BY <1>3, <1>4, <2>1, PeopleAreUsers
  <2>3. \A n \in Standing : u \in PeopleAt(table[n]) => place[u] = n
    BY <2>2 DEF PlaceInv, SeatKnown
  <2>4. u \notin erased(after) /\ u \notin kicked(after)
    BY <1>4, <1>10, <1>11, <2>1, <2>2, <2>3
  <2> QED
    BY <1>12, <2>2, <2>3, <2>1, <2>4
<1>15. NextFree'
  BY <1>1, <1>7 DEF PlaceInv, NextFree, Tables
<1>16. \A n \in Standing : PeopleAt(table'[n]) \subseteq PeopleAt(table[n])
  BY <1>3, <1>4, <1>5, NowhereIs
<1> QED
  BY <1>9, <1>13, <1>14, <1>15, <1>16 DEF PlaceInv
-----------------------------------------------------------------------------
(* The steps *)

SessionsTyped ==
    /\ life \in [Sessions -> Lives] /\ uidOf \in [Sessions -> Users \cup {NoOne}]
    /\ sessionOf \in [Users -> Sessions \cup {NoSession}] /\ shared \subseteq Users

LEMMA TypesSplit == LobbyTypeOK <=> SessionsTyped /\ TablesTyped
  BY DEF LobbyTypeOK, SessionsTyped, TablesTyped

\* Nobody gets to be absent, but from a game.
NobodyStrays ==
    \A m \in Standing, u \in Users \ (shared \cup moved)' :
        ~Absent(u, m) /\ Absent(u, m)' => HeldInGame(table[m], u)

GoodStep == LobbyInv' /\ NobodyStrays

\* A step that disconnects nobody, and brings to a table only somebody who is connected.
LEMMA NobodyGone ==
  ASSUME SessionInv', SessionsTyped', PlaceInv', TablesTyped',
         \A v \in Users : Online(v) => Online(v)',
         \A n \in Standing, v \in Users :
            v \in PeopleAt(table'[n]) => v \in PeopleAt(table[n]) \/ Online(v)'
  PROVE  GoodStep
<1>1. LobbyTypeOK'
  BY DEF LobbyTypeOK, SessionsTyped, TablesTyped
<1>2. NobodyStrays
  BY DEF NobodyStrays, Absent
<1> QED
  BY <1>1, <1>2 DEF GoodStep, LobbyInv

LEMMA TablesKept ==
  ASSUME LobbyInv, UNCHANGED tableVars PROVE PlaceInv' /\ TablesTyped' /\ Standing' = Standing
<1>1. UNCHANGED <<table, nextId, place, moved>>
  BY DEF tableVars
<1>2. Standing' = Standing
  BY <1>1 DEF Standing
<1>3. PlaceInv'
  BY <1>1, <1>2 DEF LobbyInv, PlaceInv, NextFree, MapLeadsToSeat, SeatKnown, Tables
<1> QED
  BY <1>1, <1>2, <1>3 DEF LobbyInv, LobbyTypeOK, TablesTyped

\* A packet comes from somebody who is online, and disconnects nobody.
LEMMA PacketSessions ==
  ASSUME LobbyInv, NEW s \in Sessions, NEW u \in Users, Packet(s, u)
  PROVE  SessionInv' /\ SessionsTyped' /\ Online(u)' /\ \A v \in Users : Online(v)' = Online(v)
<1>1. /\ life' = Handled(s, life) /\ UNCHANGED <<uidOf, sessionOf, shared>>
      /\ life \in [Sessions -> Lives] /\ Registered(s) /\ uidOf[s] = u
  BY DEF Packet, LobbyInv, LobbyTypeOK, Heard, Registered
<1>2. life' \in [Sessions -> Lives] /\ \A o \in Sessions : Registered(o)' = Registered(o)
  BY <1>1, HandledSession DEF Registered
<1>3. SessionInv' /\ \A v \in Users : Online(v)' = Online(v)
  BY <1>1, <1>2, SessionsKept DEF LobbyInv
<1>4. Online(u)
  BY <1>1, LobbyAssumption DEF LobbyInv, SessionInv, OneVoice, Online
<1> QED
  BY <1>1, <1>2, <1>3, <1>4 DEF SessionsTyped, LobbyInv, LobbyTypeOK

LEMMA ConnectionGood ==
  ASSUME LobbyInv, NEW s \in Sessions,
         OnNewConnection(s) \/ DoClose(s) \/ \E u \in Users : HandleLogin(s, u)
  PROVE  GoodStep
<1>1. UNCHANGED tableVars
  BY DEF OnNewConnection, DoClose, HandleLogin
<1>2. PlaceInv' /\ TablesTyped' /\ table' = table
  BY <1>1, TablesKept DEF tableVars
<1>3. CASE OnNewConnection(s)
  <2>1. SessionsTyped' /\ SessionInv' /\ \A v \in Users : Online(v)' = Online(v)
    BY <1>3, NewConnectionSessions DEF LobbyInv, LobbyTypeOK, OnNewConnection, SessionsTyped
  <2> QED
    BY <1>2, <2>1, NobodyGone
<1>4. CASE DoClose(s)
  <2>1. /\ life \in [Sessions -> Lives] /\ life[s] # "none"
        /\ \E l \in {"last read", "closing"} : life' = [life EXCEPT ![s] = l]
        /\ UNCHANGED <<uidOf, sessionOf, shared>>
    BY <1>4 DEF DoClose, LobbyInv, LobbyTypeOK
  <2>2. life' \in [Sessions -> Lives] /\ \A o \in Sessions : Registered(o)' = Registered(o)
    BY <2>1 DEF Lives, Registered
  <2>3. SessionInv' /\ \A v \in Users : Online(v)' = Online(v)
    BY <2>1, <2>2, SessionsKept DEF LobbyInv
  <2>4. SessionsTyped'
    BY <2>1, <2>2 DEF SessionsTyped, LobbyInv, LobbyTypeOK
  <2> QED
    BY <1>2, <2>3, <2>4, NobodyGone
<1>5. ASSUME NEW u \in Users, HandleLogin(s, u) PROVE GoodStep
  <2>1. SessionsTyped' /\ SessionInv' /\ \A v \in Users : Online(v) => Online(v)'
    BY <1>5, LoginSessions DEF LobbyInv, SessionsTyped
  <2> QED
    BY <1>2, <2>1, NobodyGone
<1> QED
  BY <1>3, <1>4, <1>5

\* The user of a closed connection leaves the table, or is held there by the game.
LEMMA RemoveGood == ASSUME LobbyInv, NEW s \in Sessions, RemoveSession(s) PROVE GoodStep
<1>1. /\ SessionInv' /\ SessionsTyped'
      /\ \A v \in Users : Online(v)' <=> Online(v) /\ sessionOf[v] # s
  <2>1. shared' = shared
    BY DEF RemoveSession
  <2> QED
    BY <2>1, RemoveSessions DEF LobbyInv, SessionsTyped, LobbyTypeOK
<1>2. UNCHANGED <<nextId, moved, shared>> /\ Told(s) \subseteq Users
  BY DEF RemoveSession, LobbyInv, LobbyTypeOK, Told
<1>3. PlaceInv' /\ TablesTyped' /\ \A n \in Standing : PeopleAt(table'[n]) \subseteq PeopleAt(table[n])
  <2>1. CASE \E u \in Told(s) : \E m \in MatchOfUser(u) : Depart(u, m)
    BY <1>2, <2>1, DepartTables DEF LobbyInv
  <2>2. CASE UNCHANGED <<table, place>>
    <3>1. UNCHANGED tableVars
      BY <1>2, <2>2 DEF tableVars
    <3> QED
      BY <2>2, <3>1, TablesKept
  <2> QED
    BY <2>1, <2>2 DEF RemoveSession
<1>4. ASSUME NEW m \in Standing, NEW v \in Users \ (shared \cup moved)', ~Absent(v, m), Absent(v, m)'
      PROVE  HeldInGame(table[m], v)
  <2>1. v \in PeopleAt(table'[m]) /\ v \in PeopleAt(table[m]) /\ Online(v) /\ sessionOf[v] = s
    BY <1>1, <1>3, <1>4 DEF Absent
  <2>2. uidOf[s] = v /\ Told(s) = {v}
    BY <1>2, <1>4, <2>1, ContractAssumption DEF LobbyInv, SessionInv, OnlineIsTrue, Told
  <2>3. MatchOfUser(v) = {m}
    BY <1>2, <1>4, <2>1 DEF LobbyInv, PlaceInv, SeatKnown, MatchOfUser
  <2>4. Depart(v, m)
    BY <2>2, <2>3 DEF RemoveSession
  <2> QED
    BY <1>2, <2>1, <2>3, <2>4, DepartTables DEF LobbyInv
<1>5. NobodyStrays
  BY <1>4 DEF NobodyStrays
<1>6. LobbyTypeOK'
  BY <1>1, <1>3 DEF LobbyTypeOK, SessionsTyped, TablesTyped
<1> QED
  BY <1>1, <1>3, <1>5, <1>6 DEF GoodStep, LobbyInv

LEMMA PacketGood ==
  ASSUME LobbyInv, NEW s \in Sessions,
         QuickPlay(s) \/ JoinTableById(s) \/ RegisterLeaveGame(s) \/ PlayLastCard(s)
  PROVE  GoodStep
<1>1. PICK u \in Users :
        /\ Packet(s, u)
        /\ \/ \E m \in Standing : UserJoinMatch(u, m)
           \/ OpenTable(u)
           \/ /\ \E m \in MatchOfUser(u) : Depart(u, m)
              /\ UNCHANGED <<nextId, moved>>
           \/ /\ \E m \in MatchOfUser(u) : \E t \in GameOver(table[m]) : table' = [table EXCEPT ![m] = t]
              /\ UNCHANGED <<nextId, place, moved>>
  <2>1. Suitable \subseteq Standing
    BY DEF Suitable
  <2> QED
    BY <2>1 DEF QuickPlay, JoinTableById, RegisterLeaveGame, PlayLastCard
<1>2. SessionInv' /\ SessionsTyped' /\ Online(u)' /\ \A v \in Users : Online(v)' = Online(v)
  BY <1>1, PacketSessions
<1>3. /\ PlaceInv' /\ TablesTyped'
      /\ \A n \in Standing : PeopleAt(table'[n]) \subseteq PeopleAt(table[n]) \cup {u}
  <2>1. CASE \E m \in Standing : UserJoinMatch(u, m)
    BY <2>1, JoinTables DEF LobbyInv
  <2>2. CASE OpenTable(u)
    BY <2>2, OpenTables DEF LobbyInv
  <2>3. CASE /\ \E m \in MatchOfUser(u) : Depart(u, m)
             /\ UNCHANGED <<nextId, moved>>
    BY <2>3, DepartTables DEF LobbyInv
  <2>4. CASE /\ \E m \in MatchOfUser(u) : \E t \in GameOver(table[m]) : table' = [table EXCEPT ![m] = t]
             /\ UNCHANGED <<nextId, place, moved>>
    <3>1. PICK m \in MatchOfUser(u) : \E t \in GameOver(table[m]) : table' = [table EXCEPT ![m] = t]
      BY <2>4
    <3>2. PICK t \in GameOver(table[m]) : table' = [table EXCEPT ![m] = t]
      BY <3>1
    <3>3. m \in Standing /\ table[m] \in TableType
      BY DEF MatchOfUser, Standing, LobbyInv, LobbyTypeOK
    <3>4. t \in TableType /\ PeopleAt(t) = PeopleAt(table[m]) /\ t.stage # "Gone"
      BY <3>3, GameOverPeople
    <3> QED
      BY <2>4, <3>2, <3>3, <3>4, SamePeople DEF LobbyInv
  <2> QED
    BY <1>1, <2>1, <2>2, <2>3, <2>4
<1> QED
  BY <1>2, <1>3, NobodyGone

LEMMA UpdateGood == ASSUME LobbyInv, Update PROVE GoodStep
<1>1. UNCHANGED <<life, uidOf, sessionOf, shared>>
  BY DEF Update, netVars
<1>2. life' \in [Sessions -> Lives] /\ \A o \in Sessions : Registered(o)' = Registered(o)
  BY <1>1 DEF Registered, LobbyInv, LobbyTypeOK
<1>3. SessionInv' /\ \A v \in Users : Online(v)' = Online(v)
  BY <1>1, <1>2, SessionsKept DEF LobbyInv
<1>4. SessionsTyped'
  BY <1>1 DEF SessionsTyped, LobbyInv, LobbyTypeOK
<1> QED
  BY <1>3, <1>4, UpdateTables, NobodyGone DEF LobbyInv

LEMMA InitLobby == Init => LobbyInv
<1> SUFFICES ASSUME Init PROVE LobbyInv
  OBVIOUS
<1>1. Standing = {}
  BY NowhereIs DEF Init, Standing
<1>2. SessionsTyped
  BY DEF Init, SessionsTyped, Lives
<1>3. TablesTyped
  BY NowhereIs, LobbyAssumption DEF Init, TablesTyped
<1>4. SessionInv
  BY DEF Init, SessionInv, Bound, OneVoice, OnlineIsTrue, Online, Registered
<1>5. PlaceInv
  BY <1>1 DEF Init, PlaceInv, NextFree, MapLeadsToSeat, SeatKnown
<1> QED
  BY <1>2, <1>3, <1>4, <1>5, TypesSplit DEF LobbyInv

LEMMA NextGood == LobbyInv /\ [Next]_vars => GoodStep
<1> SUFFICES ASSUME LobbyInv, [Next]_vars PROVE GoodStep
  OBVIOUS
<1>1. CASE UNCHANGED vars
  <2>1. UNCHANGED <<life, uidOf, sessionOf, shared>> /\ UNCHANGED tableVars
    BY <1>1 DEF vars, netVars
  <2>2. PlaceInv' /\ TablesTyped' /\ table' = table
    BY <2>1, TablesKept DEF tableVars
  <2>3. life' \in [Sessions -> Lives] /\ \A o \in Sessions : Registered(o)' = Registered(o)
    BY <2>1 DEF Registered, LobbyInv, LobbyTypeOK
  <2>4. SessionInv' /\ \A v \in Users : Online(v)' = Online(v)
    BY <2>1, <2>3, SessionsKept DEF LobbyInv
  <2>5. SessionsTyped'
    BY <2>1 DEF SessionsTyped, LobbyInv, LobbyTypeOK
  <2> QED
    BY <2>2, <2>4, <2>5, NobodyGone
<1> QED
  BY <1>1, ConnectionGood, RemoveGood, PacketGood, UpdateGood DEF Next
-----------------------------------------------------------------------------
(* The theorems *)

\* The inductive invariant, for any people, connections and number of tables.
THEOREM LobbyInvariant == Spec => []LobbyInv
<1>1. LobbyInv /\ [Next]_vars => LobbyInv'
  BY NextGood DEF GoodStep
<1> QED
  BY <1>1, InitLobby, PTL DEF Spec

\* Every variable of the lobby keeps its type: in particular no bot is ever put on a table
\* without a free seat.
THEOREM LobbyTypeCorrect == Spec => []LobbyTypeOK
<1>1. LobbyInv => LobbyTypeOK
  BY DEF LobbyInv
<1> QED
  BY <1>1, LobbyInvariant, PTL

\* user_match_ids_ leads each user to a table that stands and that the user is at, whatever
\* joins, leaves, drops, kicks and destructions of tables come in between.
THEOREM MapIsRight == Spec => []MapLeadsToSeat
<1>1. LobbyInv => MapLeadsToSeat
  BY DEF LobbyInv, PlaceInv
<1> QED
  BY <1>1, LobbyInvariant, PTL

\* Nobody but those who went to a second table is at a table the registry does not know of.
THEOREM SeatsAreKnown == Spec => []SeatKnown
<1>1. LobbyInv => SeatKnown
  BY DEF LobbyInv, PlaceInv
<1> QED
  BY <1>1, LobbyInvariant, PTL

\* No two connections speak for one user, however logins, rebindings and closes overlap.
THEOREM OneVoiceEach == Spec => []OneVoice
<1>1. LobbyInv => OneVoice
  BY DEF LobbyInv, SessionInv
<1> QED
  BY <1>1, LobbyInvariant, PTL

\* Who counts as online has a connection logged in as that user, unless it was shared.
THEOREM OnlineUsersAreThere == Spec => []OnlineIsTrue
<1>1. LobbyInv => OnlineIsTrue
  BY DEF LobbyInv, SessionInv
<1> QED
  BY <1>1, LobbyInvariant, PTL

\* remove_session takes the user from the table, unless a game holds the seat: nobody else
\* becomes somebody offline at a table.
THEOREM OnlyGamesHoldTheAbsent == Spec => AbsentOnlyFromGame
<1>1. LobbyInv /\ [Next]_vars => [NobodyStrays]_vars
  BY NextGood DEF GoodStep
<1> QED
  BY <1>1, LobbyInvariant, PTL DEF Spec, AbsentOnlyFromGame, NobodyStrays

=============================================================================
