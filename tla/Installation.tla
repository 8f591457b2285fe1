---------------------------- MODULE Installation ----------------------------
(***************************************************************************)
(* What a restore promises of the instance it installs into, with nothing  *)
(* of how (restore.py): whoever may start the instance finds it as it was  *)
(* prepared or holding a whole recovery point, and between the two it is   *)
(* claimed and cannot be started.                                          *)
(***************************************************************************)
CONSTANTS
    Blank,      \* the empty state directories of a prepared instance
    None

VARIABLES
    points,     \* the recovery points there are to install
    stage,      \* fresh, claimed, installed, running or retired
    disk        \* what the instance holds, None while nobody may see it

vars == <<points, stage, disk>>

Init == points = {} /\ stage = "fresh" /\ disk = Blank

\* A repository comes to hold another point.
Publish == points \subseteq points' /\ points' # points /\ UNCHANGED <<stage, disk>>

Claim ==
    /\ stage = "fresh" /\ stage' = "claimed" /\ disk' = None
    /\ UNCHANGED points

\* A restore that cannot be carried out gives the instance back.
Release ==
    /\ stage = "claimed" /\ stage' = "fresh" /\ disk' = Blank
    /\ UNCHANGED points

\* All of one point, at once.
Install ==
    /\ stage = "claimed" /\ stage' = "installed" /\ disk' \in points
    /\ UNCHANGED points

Boot ==
    /\ stage \in {"fresh", "installed"} /\ stage' = "running"
    /\ UNCHANGED <<points, disk>>

Retire ==
    /\ stage \in {"fresh", "claimed", "installed"} /\ stage' = "retired" /\ disk' = None
    /\ UNCHANGED points

Next == Publish \/ Claim \/ Release \/ Install \/ Boot \/ Retire

Spec == Init /\ [][Next]_vars
=============================================================================
