---------------------------- MODULE MCTressette ----------------------------
(* One table under TLC: the .cfg files choose the people, the cards, the delays and *)
(* what the outside may do.                                                         *)
EXTENDS TressetteRefinement, TLC

\* People are alike, and so are bots (safety runs only).
Alike == Permutations(Users) \cup Permutations(Bots)

\* Bound: only the first game, before a kick has emptied a seat of its team.
FirstGame == \A i \in Seats : teamId[i] # -1

\* Bound: later games are followed until somebody scores.
NextGameOpens == FirstGame \/ ~inGame \/ \A i \in Seats : points[i] = 0
\* Bound: one person at most is mute, or at the table without the registry's knowing, and then
\* nobody else's connection is lost or newly logged in.
OneAstray ==
    LET astray == mute \cup (((Seated \cup viewers) \cap Users) \ mapped)
    IN astray # {} => /\ Cardinality(astray) = 1
                      /\ (Users \ online) \cup settling \subseteq astray
=============================================================================
