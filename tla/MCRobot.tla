------------------------------ MODULE MCRobot ------------------------------
(* RobotStateMachine for TLC.                                               *)
EXTENDS RobotSafety

\* The liveness runs start from one state of the devices: where the devices stand
\* does not decide whether goals are answered.
InitWorkshop == Init /\ devices = <<"HOME", "OPEN", "CLOSED", "OPEN">>

\* There an error appears at one place of each sequence, while waiting, or during an
\* abort or reset, and goes away anywhere.
ErrorPlaces == {"WAITING", "ML_WAIT_CLOSE_CHUCK", "MU_WAIT_MOVE_CHUCK", "RESETTING"}
                 \cup (AbortStates \ {"ABORTED"})
ErrorAtPlace == robotError' /\ ~robotError => state \in ErrorPlaces

LiveSpec == InitWorkshop /\ [][Next /\ ErrorAtPlace]_vars /\ Fairness
=============================================================================
