----------------------------- MODULE CheckRequest -----------------------------
(***************************************************************************)
(* What a check request of the gateway carries, and what the service reads *)
(* out of it: who is asking (internal/identity/identity.go) and for what   *)
(* (internal/mcpreq/parse.go).                                             *)
(*                                                                         *)
(* A JSON object is a record of the claims the code looks at and the set   *)
(* of the objects nested in it; a claim that may be missing is the set of  *)
(* its values, with at most one.  Go walks the keys of a map in an order   *)
(* of its own, so a search that stops at the first hit may return any hit. *)
(***************************************************************************)
EXTENDS Policy

CONSTANT
  Maps     \* the JSON objects that tokens and metadata may hold

Optional(S) == {{}} \union {{x} : x \in S}

ASSUME CheckRequestAssumption ==
  /\ NoName \in Users
  /\ \A m \in Maps :
       /\ m.sub \in BOOLEAN
       /\ m.onBehalfOf \in Optional(Users) /\ m.preferred \in Users
       /\ m.roles \in Optional(SUBSET Roles) /\ m.realm \in Optional(SUBSET Roles)
       /\ m.nested \subseteq Maps

Identities == [user : Users, roles : SUBSET Roles]

Bodies == [decodes : BOOLEAN, method : {"tools/call", "other"},
           tool : Tools, id : Records \union {NoRecord}]

\* `caller' is who the token was issued for, as its issuer knows it; `token' its
\* payload, whose signature the gateway has checked; `metadata' the objects the
\* gateway passes on; `header' whether it passes the token on.
CheckRequests == [caller : Identities, token : Maps, metadata : SUBSET Maps,
                  header : BOOLEAN, body : Bodies]

LooksLikeClaims(m) == m.sub \/ m.onBehalfOf # {}

\* findClaimsMap: the objects it may return.
ClaimsIn[m \in Maps] ==
  IF LooksLikeClaims(m) THEN {m} ELSE UNION {ClaimsIn[n] : n \in m.nested}

\* claimsFromMetadata: it, too, takes the first it finds.
ClaimsFromMetadata(request) ==
  {found \in Maps : \E m \in request.metadata : found \in ClaimsIn[m]}

\* The name of the human: on_behalf_of, or else preferred_username.
NameIn(m) ==
  IF m.onBehalfOf \subseteq {NoName} THEN m.preferred ELSE CHOOSE u \in m.onBehalfOf : TRUE

\* Mutant of FromClaims: realm_access is not looked at.
FromClaimsFlat(m) == [user |-> NameIn(m), roles |-> UNION m.roles]

\* fromClaims: a flat list of roles, even an empty one, hides the realm's.
FromClaims(m) ==
  [user |-> NameIn(m), roles |-> UNION (IF m.roles # {} THEN m.roles ELSE m.realm)]

\* FromCheckRequest: the identities it may return, none if it fails.
FromCheckRequest(request) ==
  LET found == ClaimsFromMetadata(request) IN
  IF found # {} THEN {FromClaims(m) : m \in found}
  ELSE IF request.header THEN {FromClaims(request.token)}
  ELSE {}

\* Parse: a body that does not decode has no method, and counts as a protocol message.
IsToolCall(body) == body.decodes /\ body.method = "tools/call"

Requested(who, body) ==
  [user |-> who.user, roles |-> who.roles, tool |-> body.tool, record |-> body.id]

=============================================================================
