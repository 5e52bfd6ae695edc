----------------------------- MODULE MCTaskIpc -----------------------------
(* Instances of TaskIpc for TLC.                                            *)
EXTENDS TaskIpc

Empty == [s \in CapSlot |-> NoCap]
NotifyCap == [kind |-> "Endpoint", index |-> NotifyEp, gen |-> 0, rights |-> {"RECV"}]
ChildCap(i) == [kind |-> "Task", index |-> i, gen |-> 0, rights |-> {"CONTROL", "READ"}]
Unsupervised == [i \in TaskIdx |-> -1]

(* A server, its only client and no task control.                           *)
PairCaps == [t \in TaskIdx |-> Empty]
PairOps == [t \in TaskIdx |-> IF t = 0 THEN {"create", "grant", "serve", "reply"}
                                       ELSE {"call", "fault", "exit"}]

(* A second client, which also shares the endpoint.                         *)
ManyOps == [t \in TaskIdx |-> IF t = 0 THEN {"create", "grant", "serve", "reply"}
                                       ELSE {"call"}]

(* Task 1 supervises task 2; every task manages endpoints and capabilities. *)
TreeCaps == [t \in TaskIdx |->
               IF t = 1 THEN [Empty EXCEPT ![0] = NotifyCap, ![1] = ChildCap(2)] ELSE Empty]
AuthorityOps == [t \in TaskIdx |->
                   IF t = 1 THEN {"create", "grant", "revoke", "kill", "restart", "serve"}
                            ELSE {"create", "grant", "call", "fault"}]
=============================================================================
