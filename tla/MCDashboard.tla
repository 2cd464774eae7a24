------------------------------ MODULE MCDashboard ------------------------------
(* Small instances of Dashboard for TLC. *)
EXTENDS DashboardInvariant, TLC

CONSTANTS alice, admin, delete, r7

MCUsers == {alice}
MCRoles == {admin}
MCTools == {delete}
MCRecords == {r7}
MCTexts == {[parses |-> TRUE, permits |-> {<<admin, "destructive">>}]}
MCSeed == {<<alice, r7>>}
MCAttempts == {[user |-> alice, roles |-> {admin}, tool |-> delete, record |-> r7]}
MCFaults == {"db", "graph"}
=============================================================================
