--------------------------- MODULE TableContract ---------------------------
(* What a table promises the match registry: it moves only as TableSteps says, whatever *)
(* goes on inside it.                                                                   *)
EXTENDS TableSteps

VARIABLES
    tab,            \* the table
    online          \* the users who have a session
-----------------------------------------------------------------------------
Init ==
    /\ online \subseteq Users
    /\ \E u \in online : tab = Opened(u)

Join(u) ==
    /\ u \in online \ SeatedAt(tab)
    /\ tab' = Seating(tab, u)
    /\ UNCHANGED online

Leave(u) ==
    /\ u \in online \cap PeopleAt(tab)
    /\ tab' = Leaving(tab, u)
    /\ UNCHANGED online

\* A session ends, and with it all who are bound to it are offline: the table is told of one of
\* them, or of nobody (who is at another table by now, or has lost the session to another login).
Disconnect(gone) ==
    /\ gone \subseteq online
    /\ tab' \in {tab} \cup {Leaving(tab, u) : u \in gone}
    /\ online' = online \ gone

Connect(u) ==
    /\ online' = online \cup {u}
    /\ UNCHANGED tab

LastCard == tab' \in GameOver(tab) /\ UNCHANGED online
Kick == tab' \in Kicking(tab) /\ UNCHANGED online
Resume == tab' \in Resuming(tab) /\ UNCHANGED online
Pass == tab' \in {Closing(p, online) : p \in Passing(tab)} /\ UNCHANGED online

Next ==
    /\ tab.stage # "Gone"
    /\ \/ \E u \in Users : Join(u) \/ Leave(u) \/ Connect(u)
       \/ \E gone \in SUBSET Users : Disconnect(gone)
       \/ LastCard \/ Kick \/ Resume \/ Pass

Spec == Init /\ [][Next]_<<tab, online>>
=============================================================================
