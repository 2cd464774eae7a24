-------------------------------- MODULE Policy --------------------------------
(***************************************************************************)
(* The policy engine (internal/policy/engine.go): a Cedar policy file on   *)
(* disk, the policy set loaded from it, and the three-valued decision      *)
(* layered on Cedar's two-valued answer.                                   *)
(*                                                                         *)
(* A policy text is abstracted to whether it parses and to the pairs of a  *)
(* role and a risk it permits; the version the engine reports is the hash  *)
(* of the text, so a text is its own version.                              *)
(***************************************************************************)

CONSTANTS
  Users,            \* humans an agent acts on behalf of
  NoName,           \* the name of none of them: empty, or a claim that is no string
  Roles,            \* realm roles
  Tools,            \* tool names
  DestructiveTools, \* those with a prefix of destructivePrefixes
  Records,          \* record ids a call may name
  NoRecord,         \* the "id" argument is missing or is not a string
  NoText,           \* no policy text
  Texts,            \* the texts the policy file may hold
  UseGraph          \* SPICEDB_ENDPOINT is set, so Engine.Relations is not nil

VARIABLES
  file,   \* what the policy file holds
  loaded  \* Engine.policies and Engine.version, always assigned together

Risks == {"read", "destructive"}

\* What the engine is asked about: the identity and the call.
Calls == [user : Users, roles : SUBSET Roles,
          tool : Tools, record : Records \union {NoRecord}]

ASSUME PolicyAssumption ==
  /\ Texts \subseteq [parses : BOOLEAN, permits : SUBSET (Roles \X Risks)]
  /\ NoText \notin Texts
  /\ NoRecord \notin Records
  /\ DestructiveTools \subseteq Tools
  /\ UseGraph \in BOOLEAN

Risk(tool) == IF tool \in DestructiveTools THEN "destructive" ELSE "read"

\* PolicySet.IsAuthorized for the policy file the service ships with: permit
\* rules over the role groups of the principal and the risk of the resource.
CedarAllows(text, call) ==
  \E role \in call.roles : <<role, Risk(call.tool)>> \in text.permits

\* Destructive tools also need the caller to own the record.
OwnershipGated(call) == UseGraph /\ call.tool \in DestructiveTools

\* Decide reaches Relations.CheckOwner.
AsksGraph(text, call) ==
  CedarAllows(text, call) /\ OwnershipGated(call) /\ call.record # NoRecord

Refused(text, call, answer) ==
  \/ ~CedarAllows(text, call)
  \/ OwnershipGated(call) /\ (call.record = NoRecord \/ answer # "owner")

\* Mutant of EngineDecide: the risk of the tool is not looked at.
EngineDecideNoRisk(text, call, answer) ==
  IF Refused(text, call, answer) THEN "deny" ELSE "allow"

\* Engine.Decide on a snapshot of the policies and the answer of the graph.
EngineDecide(text, call, answer) ==
  IF Refused(text, call, answer) THEN "deny"
  ELSE IF call.tool \in DestructiveTools THEN "needs_approval"
  ELSE "allow"

PolicyTypeOK == file \in Texts /\ loaded \in Texts

\* policy.New: the service starts only on a file that parses.
PolicyInit ==
  /\ file \in {t \in Texts : t.parses}
  /\ loaded = file

\* An operator saves the policy file; no code of the service is involved.
SaveFile(text) == file' = text /\ UNCHANGED loaded

\* Mutant of SwapPolicies: Reload checks the file and keeps the old policies.
SwapPoliciesKeepsOld(text) == UNCHANGED <<file, loaded>>

\* The critical section of Reload: policies and version are swapped together.
SwapPolicies(text) == loaded' = text /\ UNCHANGED file

=============================================================================
