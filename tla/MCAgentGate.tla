----------------------------- MODULE MCAgentGate -----------------------------
(* Small instances of AgentGate for TLC. *)
EXTENDS GateInvariant, TLC

CONSTANTS alice, admin, read, delete, r7, r8

MCUsers == {alice, NoName}
MCRoles == {admin}
MCTools == {read, delete}
MCDestructive == {delete}
MCRecords == {r7, r8}

Full == [parses |-> TRUE, permits |-> {<<admin, "read">>, <<admin, "destructive">>}]
OneText == {Full}

MCSeed == {<<alice, r7>>, <<alice, r8>>}

Admin == [user |-> alice, roles |-> {admin}]
Claims == [sub |-> TRUE, onBehalfOf |-> {alice}, preferred |-> alice,
           roles |-> {{admin}}, realm |-> {}, nested |-> {}]
MCMaps == {Claims}

ToolCall(name, record) ==
  [caller |-> Admin, token |-> Claims, metadata |-> {Claims}, header |-> FALSE,
   body |-> [decodes |-> TRUE, method |-> "tools/call", tool |-> name, id |-> record]]

\* What a call may confuse is the record: the delete names one, the read the other.
MCAsks == {ToolCall(delete, r7), ToolCall(read, r8)}
Deletes == {ToolCall(delete, r7)}

ASSUME IssuerNamesCallers == Parking!TokensCarryCallers

MCAttempts == [user : MCUsers, roles : SUBSET MCRoles, tool : MCDestructive,
               record : MCRecords \union {NoRecord}]

\* Bound: nobody touches the edge of the record that is only read.
GraphBound == <<alice, r8>> \in edges

SomeFaults == {"db", "crash", "tool"}
NoFaults == {}
Symmetry == Permutations(TxIds)
=============================================================================
