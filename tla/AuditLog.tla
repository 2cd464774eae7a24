------------------------------- MODULE AuditLog -------------------------------
(***************************************************************************)
(* The table audit_log (internal/audit/audit.go): one row per Record,      *)
(* never changed or removed afterwards.  The Check handler records its      *)
(* decision on a call, the executor records how an approval ended.         *)
(***************************************************************************)
EXTENDS ApprovalStore, Policy

VARIABLE
  audit      \* audit_log

CheckDecisions == {"allow", "deny", "needs_approval"}

OutcomeDecisions ==
  {"executed_after_approval", "execute_failed", "deny", "denied_by_human"}

\* `id' is the transaction id the INSERT draws; the check or the click that
\* writes a row writes no other, and stands for it.  `about' is the attempt the
\* row tells of: for the outcome of an approval no column holds it, the reader
\* has to guess it from who, tool and args.  `basis' is the policy text the
\* decision was taken on, NoText if none was: no column either, the column
\* policy_version is `version'.
AuditRows == [id : TxIds \union Requests, about : TxIds,
              decision : CheckDecisions \union OutcomeDecisions,
              version : Texts, basis : Texts \union {NoText}]

AuditTypeOK == audit \subseteq AuditRows

AuditInit == audit = {}

\* Mutant of Record: the version is that of the decision, if there was one.
RecordBasisVersion(id, about, decision, basis, out) ==
  audit' = IF out = "error" THEN audit
           ELSE audit \union {[id |-> id, about |-> about, decision |-> decision,
                               version |-> basis, basis |-> basis]}

\* Version() is read at the moment of writing; callers only log an error.
Record(id, about, decision, basis, out) ==
  audit' = IF out = "error" THEN audit
           ELSE audit \union {[id |-> id, about |-> about, decision |-> decision,
                               version |-> loaded, basis |-> basis]}

=============================================================================
