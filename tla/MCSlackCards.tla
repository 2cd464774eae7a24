----------------------------- MODULE MCSlackCards -----------------------------
(* Small instances of SlackCards for TLC. *)
EXTENDS SlackInvariant, TLC

CONSTANTS alice, admin, delete, r7

MCUsers == {alice}
MCRoles == {admin}
MCTools == {delete}
MCRecords == {r7}

Permissive == [parses |-> TRUE, permits |-> {<<admin, "destructive">>}]
OneText == {Permissive}
MCSeed == {<<alice, r7>>}
MCAttempts == {[user |-> alice, roles |-> {admin}, tool |-> delete, record |-> r7]}

Click == [endpoint |-> "slack", names |-> TRUE, signed |-> TRUE, age |-> 0,
          decodes |-> TRUE, url |-> TRUE]
MCPosts == {Click,
            [Click EXCEPT !.age = 5, !.url = FALSE],    \* late, and nowhere to answer to
            [Click EXCEPT !.age = 6],                   \* too late
            [Click EXCEPT !.signed = FALSE],
            [Click EXCEPT !.endpoint = "decide", !.signed = FALSE]}
OneClick == {Click}

AllFaults == FaultKinds
SomeFaults == {"db", "disconnect", "crash", "tool", "policy", "slack"}
NoFaults == {}
Symmetry == Permutations(Requests)
=============================================================================
