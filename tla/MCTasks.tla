------------------------------ MODULE MCTasks ------------------------------
(* Instances of Tasks for TLC.                                              *)
EXTENDS Tasks

(* Task 1 is supervised by the kernel with two restarts.                    *)
MCBudget == [i \in TaskIdx |-> IF i = 1 THEN 2 ELSE -1]
=============================================================================
