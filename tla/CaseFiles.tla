------------------------------ MODULE CaseFiles ------------------------------
(***************************************************************************)
(* What people write into case files: investigation cases and their        *)
(* comments, enforcement actions, DLP findings and quarantines.            *)
(*                                                                         *)
(* Comments of a case and the metadata of a finding are JSON columns: a    *)
(* request reads the column, changes it and writes it back whole, without  *)
(* a transaction.  The other updates write the columns they name.          *)
(***************************************************************************)
EXTENDS Naturals

CONSTANTS Cases, Actions, AuditRows,
          Writers    \* requests that read a JSON column and write it back

VARIABLES cases,     \* compliance.compliance_cases
          actions,   \* core_enforcement_actions
          audit,     \* core_audit
          decoded,   \* what the driver makes of a JSON column
          writer

filesVars == <<cases, actions, audit, decoded, writer>>

CaseStatuses == {"OPEN", "INVESTIGATING", "RESOLVED", "CLOSED", "ARCHIVED"}
FindingStatuses == {"OPEN", "INVESTIGATING", "RESOLVED", "FALSE_POSITIVE", "other"}
ActionTypes == {"violation", "sanction", "blocklist", "credential", "submission",
                "dlp_quarantine"}
UpdateStatuses == {"ACTIVE", "INACTIVE", "PENDING", "RESOLVED", "EXPIRED"}
\* complianceSetStatus, by route
SetStatuses == {"RESOLVED", "QUARANTINED", "RELEASED", "APPEALED", "UNDER_REVIEW"}
BulkStatuses == {"RESOLVED", "ACKNOWLEDGED", "ASSIGNED"}
ActionStatuses == {"OPEN", "ESCALATED", "default"} \cup UpdateStatuses \cup SetStatuses
                    \cup BulkStatuses

FilesTypeOK ==
  /\ cases \in [Cases -> [status : CaseStatuses \cup {"none"}, resolved : BOOLEAN,
                          closed : BOOLEAN, comments : SUBSET Writers]]
  /\ actions \in [Actions -> [type : ActionTypes \cup {"none"}, status : ActionStatuses,
                              critical : BOOLEAN, resolved : BOOLEAN, listed : BOOLEAN]]
  /\ audit \in [AuditRows -> [kind : {"none", "finding", "other"},
                              status : FindingStatuses,
                              details : BOOLEAN, archived : BOOLEAN]]
  /\ decoded \in {"map", "bytes", "text"}
  /\ writer \in [Writers -> [op : {"none", "comment", "update", "archive", "done"},
                             case : Cases, row : AuditRows, comments : SUBSET Writers,
                             details : BOOLEAN, archived : BOOLEAN]]

FilesInit ==
  /\ cases = [c \in Cases |-> [status |-> "none", resolved |-> FALSE,
                               closed |-> FALSE, comments |-> {}]]
  /\ actions = [a \in Actions |-> [type |-> "none", status |-> "default", critical |-> FALSE,
                                   resolved |-> FALSE, listed |-> FALSE]]
  /\ audit = [f \in AuditRows |-> [kind |-> "none", status |-> "OPEN",
                                   details |-> FALSE, archived |-> FALSE]]
  /\ decoded \in {"map", "bytes", "text"}
  /\ \E c \in Cases, f \in AuditRows :
       writer = [w \in Writers |-> [op |-> "none", case |-> c, row |-> f, comments |-> {},
                                    details |-> FALSE, archived |-> FALSE]]

-----------------------------------------------------------------------------
(* Investigation cases *)

CreateComplianceCase(c) ==
  /\ cases[c].status = "none"
  /\ cases' = [cases EXCEPT ![c].status = "OPEN"]
  /\ UNCHANGED <<actions, audit, decoded, writer>>

\* Any status may follow any other; a time, once written, is never cleared.
UpdateComplianceCaseStatus(c, s) ==
  /\ cases[c].status # "none"
  /\ cases' = [cases EXCEPT ![c] = [cases[c] EXCEPT !.status = s,
                                                    !.resolved = @ \/ s = "RESOLVED",
                                                    !.closed = @ \/ s \in {"CLOSED", "ARCHIVED"}]]
  /\ UNCHANGED <<actions, audit, decoded, writer>>

\* Mutant: an assigned case gets a status that the table does not know.
AssignComplianceCase_Assigned(c) ==
  /\ cases[c].status # "none"
  /\ cases' = [cases EXCEPT ![c].status = "ASSIGNED"]
  /\ UNCHANGED <<actions, audit, decoded, writer>>

AssignComplianceCase(c) ==
  /\ cases[c].status # "none"
  /\ cases' = [cases EXCEPT ![c].status = "INVESTIGATING"]
  /\ UNCHANGED <<actions, audit, decoded, writer>>

\* The error of the query is dropped: no row, and no comments.
CommentRead(w, c) ==
  /\ writer[w].op = "none"
  /\ \E seen \in {{}, cases[c].comments} :
       writer' = [writer EXCEPT ![w] = [@ EXCEPT !.op = "comment", !.case = c, !.comments = seen]]
  /\ UNCHANGED <<cases, actions, audit, decoded>>

Finish(w, op) == writer[w].op = op /\ writer' = [writer EXCEPT ![w].op = "done"]

\* Mutant: the comments that were read are not written back.
CommentWrite_Alone(w) ==
  /\ Finish(w, "comment")
  /\ cases' = [cases EXCEPT ![writer[w].case].comments =
                 IF cases[writer[w].case].status = "none" THEN @ ELSE {w}]
  /\ UNCHANGED <<actions, audit, decoded>>

CommentWrite(w) ==
  /\ Finish(w, "comment")
  /\ \/ UNCHANGED cases
     \/ /\ cases[writer[w].case].status # "none"
        /\ cases' = [cases EXCEPT ![writer[w].case].comments = writer[w].comments \cup {w}]
  /\ UNCHANGED <<actions, audit, decoded>>

-----------------------------------------------------------------------------
(* Enforcement actions: the routes of one type change rows of any type. *)

Change(a, row) ==
  /\ actions[a].listed
  /\ actions' = [actions EXCEPT ![a] = row]
  /\ UNCHANGED <<cases, audit, decoded, writer>>

Add(a, type, critical, status) ==
  /\ actions[a].type = "none"
  /\ actions' = [actions EXCEPT ![a] = [type |-> type, status |-> status, critical |-> critical,
                                        resolved |-> FALSE, listed |-> TRUE]]
  /\ UNCHANGED <<cases, audit, decoded, writer>>

complianceCreate(a, type) ==
  \E critical \in BOOLEAN, s \in {"OPEN", "ACTIVE"} : Add(a, type, critical, s)
DLPQuarantine(a) == \E critical \in BOOLEAN : Add(a, "dlp_quarantine", critical, "default")

complianceUpdate(a) ==
  \E s \in UpdateStatuses \cup {actions[a].status} : Change(a, [actions[a] EXCEPT !.status = s])
complianceDelete(a) == Change(a, [actions[a] EXCEPT !.listed = FALSE])

\* Mutant: an action that is released or resolved loses its severity.
complianceSetStatus_Lowers(a, s) ==
  Change(a, [actions[a] EXCEPT !.status = s, !.resolved = TRUE, !.critical = FALSE])

\* resolved_at is written with every status, an appeal's too.
complianceSetStatus(a, s) == Change(a, [actions[a] EXCEPT !.status = s, !.resolved = TRUE])

EscalateViolation(a) == Change(a, [actions[a] EXCEPT !.status = "ESCALATED", !.critical = TRUE])

\* One id of a bulk request; one that fails is skipped.
BulkViolation(a, s) ==
  Change(a, [actions[a] EXCEPT !.status = s, !.resolved = @ \/ s = "RESOLVED"])

-----------------------------------------------------------------------------
(* DLP findings: rows of core_audit *)

CreateDLPFinding(f) ==
  /\ audit[f].kind = "none"
  /\ audit' = [audit EXCEPT ![f] = [kind |-> "finding", status |-> "OPEN",
                                    details |-> TRUE, archived |-> FALSE]]
  /\ UNCHANGED <<cases, actions, decoded, writer>>

\* The services of the platform write their events into the same table.
OtherAudit(f) ==
  /\ audit[f].kind = "none"
  /\ audit' = [audit EXCEPT ![f] = [@ EXCEPT !.kind = "other", !.details = TRUE]]
  /\ UNCHANGED <<cases, actions, decoded, writer>>

\* The row is found whatever its action_type; metadata that the driver does
\* not decode in the form the handler expects counts as empty.
FindingRead(w, f, op, forms) ==
  /\ writer[w].op = "none" /\ audit[f].kind # "none"
  /\ writer' = [writer EXCEPT ![w] = [@ EXCEPT !.op = op, !.row = f,
                                               !.details = audit[f].details /\ decoded \in forms,
                                               !.archived = audit[f].archived /\ decoded \in forms]]
  /\ UNCHANGED <<cases, actions, audit, decoded>>

FindingWrite(w, op, statuses, archived) ==
  /\ Finish(w, op)
  /\ \/ UNCHANGED audit
     \/ \E s \in statuses :
          audit' = [audit EXCEPT ![writer[w].row] = [@ EXCEPT !.status = s,
                                                              !.details = writer[w].details, !.archived = archived]]
  /\ UNCHANGED <<cases, actions, decoded>>

UpdateRead(w, f) == FindingRead(w, f, "update", {"map"})
UpdateWrite(w) == FindingWrite(w, "update", FindingStatuses, writer[w].archived)
ArchiveRead(w, f) == FindingRead(w, f, "archive", {"map", "bytes"})
ArchiveWrite(w) == FindingWrite(w, "archive", {"RESOLVED"}, TRUE)

-----------------------------------------------------------------------------

CasesNext ==
  \/ \E c \in Cases : \/ CreateComplianceCase(c) \/ AssignComplianceCase(c)
                      \/ \E s \in CaseStatuses : UpdateComplianceCaseStatus(c, s)
  \/ \E w \in Writers : CommentWrite(w) \/ \E c \in Cases : CommentRead(w, c)

ActionsNext == \E a \in Actions :
  \/ \E type \in ActionTypes \ {"dlp_quarantine"} : complianceCreate(a, type)
  \/ DLPQuarantine(a) \/ complianceUpdate(a) \/ complianceDelete(a)
  \/ \E s \in SetStatuses : complianceSetStatus(a, s)
  \/ EscalateViolation(a)
  \/ \E s \in BulkStatuses : BulkViolation(a, s)

FindingsNext ==
  \/ \E f \in AuditRows : CreateDLPFinding(f) \/ OtherAudit(f)
  \/ \E w \in Writers : \/ UpdateWrite(w) \/ ArchiveWrite(w)
                        \/ \E f \in AuditRows : UpdateRead(w, f) \/ ArchiveRead(w, f)

FilesNext == CasesNext \/ ActionsNext \/ FindingsNext
FilesSpec == FilesInit /\ [][FilesNext]_filesVars

-----------------------------------------------------------------------------
(* Properties *)

\* A comment disappears only if another was being added meanwhile, by a request
\* that had not seen it.
CommentsLostOnlyToOverlap ==
  \A c \in Cases : \A lost \in cases[c].comments \ cases'[c].comments :
    \E w \in Writers : /\ writer[w].op = "comment" /\ writer[w].case = c
                       /\ lost \notin writer[w].comments

\* "retained permanently for audit": an archived finding loses its mark only to
\* an update that has not seen it, because it read the row earlier or could not
\* decode it.
ArchiveLostOnlyToOverlap ==
  \A f \in AuditRows : audit[f].archived /\ ~audit'[f].archived =>
    \E w \in Writers : writer[w].op = "update" /\ writer[w].row = f /\ ~writer[w].archived

\* A column that is read, changed and written back whole loses what others
\* wrote only as the two above say.
LostOnlyToOverlap == [][CommentsLostOnlyToOverlap /\ ArchiveLostOnlyToOverlap]_filesVars

\* What was escalated stays critical through release, resolution and bulk
\* updates, which may come in any order.
EscalationStands ==
  \A a \in Actions : actions[a].critical => actions'[a].critical

\* A case that was closed or archived, and perhaps taken up again, has the time
\* of it.
CaseTimesKept ==
  \A c \in Cases : /\ cases[c].status = "RESOLVED" => cases[c].resolved
                   /\ cases[c].status \in {"CLOSED", "ARCHIVED"} => cases[c].closed

\* Statuses come in any order: what an earlier one left behind stays.
StatusesStand == [][EscalationStands /\ CaseTimesKept']_filesVars
=============================================================================
