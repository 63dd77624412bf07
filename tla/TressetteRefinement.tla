------------------------ MODULE TressetteRefinement ------------------------
(* The table of the code implements the contract the registry relies on. *)
EXTENDS Tressette

CONSTANT Robot      \* stands for every bot

ASSUME RobotAssumption == Robot \notin Users \cup {NoOne}

KickDue == \E t \in tasks : t.kind = "kick"

\* The table as the contract sees it.
Shown ==
    [stage |-> IF destroyed THEN "Gone"
               ELSE IF state = "Ended" /\ ~KickDue THEN "Cleared"
               ELSE state,
     seat |-> [i \in Seats |-> IF uid[i] \in Bots THEN Robot ELSE uid[i]],
     viewers |-> viewers]

Contract == INSTANCE TableContract WITH tab <- Shown

\* Whatever is played, claimed, asked or dropped, and however late an update comes, seats,
\* viewers and stage only change as the contract says: nobody is removed by anything but
\* leaving, dropping or the kick, and the kick comes before the next countdown.
KeepsContract == Contract!Spec
=============================================================================
