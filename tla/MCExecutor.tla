------------------------------ MODULE MCExecutor ------------------------------
(* Small instances of Executor for TLC. *)
EXTENDS ExecutorInvariant, TLC

CONSTANTS alice, admin, delete, r7, r8

MCUsers == {alice}
MCRoles == {admin}
MCTools == {delete}
MCRecords == {r7}
MCTwoRecords == {r7, r8}

Permissive == [parses |-> TRUE, permits |-> {<<admin, "destructive">>}]
Strict == [parses |-> TRUE, permits |-> {}]
Broken == [parses |-> FALSE, permits |-> {}]

TwoTexts == {Permissive, Strict}
ThreeTexts == {Permissive, Strict, Broken}
FaultyTexts == {Permissive, Broken}

MCSeed == {<<alice, r7>>}
MCAttempts == {[user |-> alice, roles |-> {admin}, tool |-> delete, record |-> r7]}

AllFaults == FaultKinds
NoFaults == {}
ServiceFaults == {"graph", "policy"}
ClientFaults == {"disconnect"}
CrashOnly == {"crash"}

Symmetry == Permutations(Requests) \union Permutations(TxIds)
=============================================================================
