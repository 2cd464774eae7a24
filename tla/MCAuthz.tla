------------------------------- MODULE MCAuthz -------------------------------
(* Small instances of Authz for TLC. *)
EXTENDS AuthzInvariant, TLC

CONSTANTS alice, bob, admin, read, delete, r7

MCUsers == {alice, bob, NoName}
MCRoles == {admin}
MCTools == {read, delete}
MCDestructive == {delete}
MCRecords == {r7}

\* The shipped policy for an admin, the same without the right to destroy.
Full == [parses |-> TRUE, permits |-> {<<admin, "read">>, <<admin, "destructive">>}]
ReadOnly == [parses |-> TRUE, permits |-> {<<admin, "read">>}]
MCTexts == {Full, ReadOnly}

MCSeed == {<<alice, r7>>}

-----------------------------------------------------------------------------
(* Tokens, and where the gateway may put them. *)

Object(sub, onBehalfOf, preferred, roles, realm, nested) ==
  [sub |-> sub, onBehalfOf |-> onBehalfOf, preferred |-> preferred,
   roles |-> roles, realm |-> realm, nested |-> nested]

Admin == [user |-> alice, roles |-> {admin}]
Nobodys == [user |-> alice, roles |-> {}]

Foreign == Object(TRUE, {bob}, bob, {{admin}}, {}, {})

\* With the two mappers of the realm, without them, and without a subject.
Mapped(i) == Object(TRUE, {i.user}, i.user, {i.roles}, {i.roles}, {})
Unmapped(i) == Object(TRUE, {}, i.user, {}, {i.roles}, {})
Lean(i) == Object(FALSE, {i.user}, NoName, {i.roles}, {}, {})

\* A token that also says who acts for the user: an object that looks like claims.
Delegated(i) == Object(TRUE, {i.user}, i.user, {i.roles}, {}, {Foreign})

Issued == {<<Admin, Mapped(Admin)>>, <<Admin, Unmapped(Admin)>>, <<Admin, Lean(Admin)>>,
           <<Admin, Delegated(Admin)>>, <<Nobodys, Mapped(Nobodys)>>}

Wrap(m) == Object(FALSE, {}, NoName, {}, {}, {m})
Plain == Object(FALSE, {}, NoName, {}, {}, {})

\* The metadata, and whether the header comes along. The last two have several
\* objects to find: differing claims of the caller, and claims of another.
Placements(i, m) ==
  {<<{}, FALSE>>, <<{}, TRUE>>, <<{m}, FALSE>>, <<{Wrap(Wrap(m)), Plain}, TRUE>>,
   <<{m, Wrap(Unmapped(i))}, TRUE>>, <<{Foreign, m}, TRUE>>}

Tokens == {pair[2] : pair \in Issued} \union {Unmapped(Nobodys)}
MCMaps == Tokens \union {Wrap(m) : m \in Tokens} \union {Wrap(Wrap(m)) : m \in Tokens}
            \union {Plain, Foreign}

ToolCall(tool, record) ==
  [decodes |-> TRUE, method |-> "tools/call", tool |-> tool, id |-> record]

MCBodies ==
  {ToolCall(delete, r7), ToolCall(delete, NoRecord), ToolCall(read, r7),
   [decodes |-> TRUE, method |-> "other", tool |-> read, id |-> NoRecord],
   [decodes |-> FALSE, method |-> "tools/call", tool |-> delete, id |-> r7]}

Ask(pair, place, body) ==
  [caller |-> pair[1], token |-> pair[2], metadata |-> place[1], header |-> place[2],
   body |-> body]

\* Every token in every place for one call, and one token in one place for the others.
MCAsks ==
  UNION {{Ask(pair, place, ToolCall(delete, r7)) : place \in Placements(pair[1], pair[2])} :
           pair \in Issued}
    \union {Ask(<<Admin, Mapped(Admin)>>, <<{Mapped(Admin)}, FALSE>>, body) : body \in MCBodies}

ASSUME IssuerNamesCallers == TokensCarryCallers

MCAttempts == [user : MCUsers, roles : SUBSET MCRoles, tool : MCDestructive,
               record : MCRecords \union {NoRecord}]

AllFaults == {"db", "disconnect", "crash", "graph", "slack"}
NoFaults == {}
=============================================================================
