--------------------------- MODULE CaseworkProofs ---------------------------
(* Theorems of CaseFiles, Governance and ComplianceRecords, for any cases,     *)
(* rows, requests, proposals, peers and policies.                              *)
EXTENDS MC_Casework, TLAPS

-----------------------------------------------------------------------------
(* Case files                                                                  *)

CaseRow == [status : CaseStatuses \cup {"none"}, resolved : BOOLEAN, closed : BOOLEAN,
            comments : SUBSET Writers]
ActionRow == [type : ActionTypes \cup {"none"}, status : ActionStatuses, critical : BOOLEAN,
              resolved : BOOLEAN, listed : BOOLEAN]
AuditRow == [kind : {"none", "finding", "other"}, status : FindingStatuses, details : BOOLEAN,
             archived : BOOLEAN]
WriterRow == [op : {"none", "comment", "update", "archive", "done"}, case : Cases, row : AuditRows,
              comments : SUBSET Writers, details : BOOLEAN, archived : BOOLEAN]

\* An action that does not exist is not critical, and no list shows it; an
\* audit row that does not exist is not archived, and nobody is writing it.
AbsentIsPlain ==
  \A a \in Actions : actions[a].type = "none" => ~actions[a].critical /\ ~actions[a].listed
AbsentIsOpen ==
  /\ \A f \in AuditRows : audit[f].kind = "none" => ~audit[f].archived
  /\ \A w \in Writers : writer[w].op \in {"update", "archive"} => audit[writer[w].row].kind # "none"

FilesInv == FilesTypeOK /\ AbsentIsPlain /\ AbsentIsOpen /\ CaseTimesKept

\* The types, with names for the records.
LEMMA FilesRows ==
  FilesTypeOK <=> /\ cases \in [Cases -> CaseRow] /\ actions \in [Actions -> ActionRow]
                  /\ audit \in [AuditRows -> AuditRow] /\ decoded \in {"map", "bytes", "text"}
                  /\ writer \in [Writers -> WriterRow]
  BY DEF FilesTypeOK, CaseRow, ActionRow, AuditRow, WriterRow

\* At first there are no rows, and rows that do not exist are plain.
LEMMA FilesInitInv == FilesInit => FilesInv
  <1>. SUFFICES ASSUME FilesInit PROVE FilesInv
    OBVIOUS
  <1>1. PICK c \in Cases, f \in AuditRows :
          writer = [w \in Writers |-> [op |-> "none", case |-> c, row |-> f, comments |-> {},
                                       details |-> FALSE, archived |-> FALSE]]
    BY DEF FilesInit
  <1>2. FilesTypeOK
    BY <1>1 DEF FilesInit, FilesTypeOK, ActionStatuses, FindingStatuses
  <1>3. AbsentIsPlain /\ CaseTimesKept
    BY DEF FilesInit, AbsentIsPlain, CaseTimesKept
  <1>4. AbsentIsOpen
    BY <1>1 DEF FilesInit, AbsentIsOpen
  <1>. QED BY <1>2, <1>3, <1>4 DEF FilesInv

\* The three kinds of steps change tables of their own.
LEMMA CasesApart == FilesTypeOK /\ CasesNext => UNCHANGED <<actions, audit, decoded>>
  BY DEF CasesNext, CreateComplianceCase, AssignComplianceCase, UpdateComplianceCaseStatus,
         CommentRead, CommentWrite

\* The routes of enforcement actions leave cases and findings alone.
LEMMA ActionsApart == ActionsNext => UNCHANGED <<cases, audit, decoded, writer>>
  BY DEF ActionsNext, complianceCreate, DLPQuarantine, Add, complianceUpdate, complianceDelete,
         complianceSetStatus, EscalateViolation, BulkViolation, Change

\* The routes of findings leave cases and enforcement actions alone.
LEMMA FindingsApart == FindingsNext => UNCHANGED <<cases, actions, decoded>>
  BY DEF FindingsNext, CreateDLPFinding, OtherAudit, UpdateRead, ArchiveRead, FindingRead,
         UpdateWrite, ArchiveWrite, FindingWrite

\* A request that comments is not one that writes an audit row.
LEMMA WritersApart == FilesTypeOK /\ AbsentIsOpen /\ CasesNext => AbsentIsOpen'
  <1>. SUFFICES ASSUME FilesTypeOK, AbsentIsOpen, CasesNext PROVE AbsentIsOpen'
    OBVIOUS
  <1>0. writer \in [Writers -> WriterRow]
    BY FilesRows
  <1>1. audit' = audit
    BY CasesApart
  <1>2. CASE \E w \in Writers : CommentWrite(w) \/ \E c \in Cases : CommentRead(w, c)
    <2>1. PICK w \in Writers : CommentWrite(w) \/ \E c \in Cases : CommentRead(w, c)
      BY <1>2
    <2>2. \A v \in Writers \ {w} : writer'[v] = writer[v]
      BY <1>0, <2>1 DEF CommentRead, CommentWrite, Finish
    <2>3. writer[w] \in WriterRow
      BY <1>0
    <2>4. writer'[w].op \in {"comment", "done"}
      <3>1. CASE CommentWrite(w)
        BY <1>0, <2>3, <3>1 DEF CommentWrite, Finish, WriterRow
      <3>2. CASE \E c \in Cases : CommentRead(w, c)
        <4>1. PICK c \in Cases : CommentRead(w, c)
          BY <3>2
        <4>2. PICK seen \in {{}, cases[c].comments} :
                writer' = [writer EXCEPT ![w] = [@ EXCEPT !.op = "comment", !.case = c,
                                                          !.comments = seen]]
          BY <4>1 DEF CommentRead
        <4>. QED BY <1>0, <2>3, <4>2 DEF WriterRow
      <3>. QED BY <2>1, <3>1, <3>2
    <2>. QED BY <1>1, <2>2, <2>4 DEF AbsentIsOpen
  <1>3. CASE ~ \E w \in Writers : CommentWrite(w) \/ \E c \in Cases : CommentRead(w, c)
    <2>1. writer' = writer
      BY <1>3 DEF CasesNext, CreateComplianceCase, AssignComplianceCase, UpdateComplianceCaseStatus
    <2>. QED BY <1>1, <2>1 DEF AbsentIsOpen
  <1>. QED BY <1>2, <1>3

\* Cases keep their types and times; a comment goes with a write that had not
\* seen it.
LEMMA CasesStep ==
  ASSUME FilesTypeOK, CaseTimesKept, CasesNext
  PROVE  /\ cases' \in [Cases -> CaseRow] /\ writer' \in [Writers -> WriterRow]
         /\ CaseTimesKept' /\ CommentsLostOnlyToOverlap
  <1>. USE FilesRows
  <1>. DEFINE Goal == /\ cases' \in [Cases -> CaseRow] /\ writer' \in [Writers -> WriterRow]
                      /\ CaseTimesKept' /\ CommentsLostOnlyToOverlap
  <1>0. ASSUME NEW c \in Cases, NEW row \in CaseRow, cases' = [cases EXCEPT ![c] = row],
               row.status = "RESOLVED" => row.resolved,
               row.status \in {"CLOSED", "ARCHIVED"} => row.closed,
               row.comments = cases[c].comments, writer' = writer
        PROVE  Goal
    <2>1. cases' \in [Cases -> CaseRow] /\ writer' \in [Writers -> WriterRow]
      BY <1>0
    <2>2. CaseTimesKept'
      BY <1>0 DEF CaseTimesKept
    <2>3. \A k \in Cases : cases'[k].comments = cases[k].comments
      BY <1>0
    <2>4. CommentsLostOnlyToOverlap
      BY <2>3 DEF CommentsLostOnlyToOverlap
    <2>. QED BY <2>1, <2>2, <2>4
  <1>1. ASSUME NEW c \in Cases, NEW s \in CaseStatuses, s \notin {"RESOLVED", "CLOSED", "ARCHIVED"},
               cases' = [cases EXCEPT ![c].status = s], writer' = writer
        PROVE  Goal
    <2>. DEFINE row == [cases[c] EXCEPT !.status = s]
    <2>1. cases[c] \in CaseRow
      OBVIOUS
    <2>2. row \in CaseRow /\ row.status = s /\ row.comments = cases[c].comments
      BY <2>1 DEF CaseRow
    <2>3. cases' = [cases EXCEPT ![c] = row]
      BY <1>1
    <2>. HIDE DEF row
    <2>. QED BY <1>0, <1>1, <2>2, <2>3
  <1>2. ASSUME NEW c \in Cases, NEW s \in CaseStatuses, UpdateComplianceCaseStatus(c, s) PROVE Goal
    <2>. DEFINE resolved == cases[c].resolved \/ s = "RESOLVED"
                closed == cases[c].closed \/ s \in {"CLOSED", "ARCHIVED"}
                row == [cases[c] EXCEPT !.status = s, !.resolved = resolved, !.closed = closed]
    <2>1. cases' = [cases EXCEPT ![c] = row] /\ writer' = writer
      BY <1>2 DEF UpdateComplianceCaseStatus
    <2>2. /\ resolved \in BOOLEAN /\ closed \in BOOLEAN
          /\ s = "RESOLVED" => resolved
          /\ s \in {"CLOSED", "ARCHIVED"} => closed
      OBVIOUS
    <2>3. cases[c] \in CaseRow
      OBVIOUS
    <2>. HIDE DEF resolved, closed
    <2>4. /\ row \in CaseRow /\ row.status = s /\ row.comments = cases[c].comments
          /\ row.resolved = resolved /\ row.closed = closed
      BY <2>2, <2>3 DEF CaseRow
    <2>. HIDE DEF row
    <2>. QED BY <1>0, <2>1, <2>2, <2>4
  <1>3. ASSUME NEW w \in Writers, NEW c \in Cases, CommentRead(w, c) PROVE Goal
    <2>1. cases' = cases
      BY <1>3 DEF CommentRead
    <2>2. PICK seen \in {{}, cases[c].comments} :
            writer' = [writer EXCEPT ![w] = [@ EXCEPT !.op = "comment", !.case = c, !.comments = seen]]
      BY <1>3 DEF CommentRead
    <2>3. cases[c].comments \in SUBSET Writers /\ writer[w] \in WriterRow
      BY DEF CaseRow
    <2>4. seen \in SUBSET Writers
      BY <2>3
    <2>5. [writer[w] EXCEPT !.op = "comment", !.case = c, !.comments = seen] \in WriterRow
      BY <2>3, <2>4 DEF WriterRow
    <2>6. writer' \in [Writers -> WriterRow]
      BY <2>2, <2>5
    <2>. QED BY <2>1, <2>6 DEF CaseTimesKept, CommentsLostOnlyToOverlap
  <1>4. ASSUME NEW w \in Writers, CommentWrite(w) PROVE Goal
    <2>. DEFINE c == writer[w].case
                row == [cases[c] EXCEPT !.comments = writer[w].comments \cup {w}]
    <2>1. writer[w] \in WriterRow /\ c \in Cases /\ writer[w].comments \in SUBSET Writers
          /\ cases[c] \in CaseRow
      BY DEF WriterRow
    <2>2. writer[w].op = "comment" /\ writer' = [writer EXCEPT ![w] = [@ EXCEPT !.op = "done"]]
      BY <1>4 DEF CommentWrite, Finish
    <2>3. [writer[w] EXCEPT !.op = "done"] \in WriterRow
      BY <2>1 DEF WriterRow
    <2>4. writer' \in [Writers -> WriterRow]
      BY <2>2, <2>3
    <2>5. row \in CaseRow
      BY <2>1 DEF CaseRow
    <2>6. cases' = cases \/ cases' = [cases EXCEPT ![c] = row]
      BY <1>4 DEF CommentWrite
    <2>7. row.status = cases[c].status /\ row.resolved = cases[c].resolved
          /\ row.closed = cases[c].closed /\ row.comments = writer[w].comments \cup {w}
      BY <2>1 DEF CaseRow
    <2>8. cases' \in [Cases -> CaseRow]
      BY <2>1, <2>5, <2>6
    <2>. HIDE DEF row
    <2>9. CaseTimesKept'
      BY <2>1, <2>6, <2>7 DEF CaseTimesKept
    <2>10. CommentsLostOnlyToOverlap
      BY <2>1, <2>2, <2>6, <2>7 DEF CommentsLostOnlyToOverlap
    <2>. QED BY <2>4, <2>8, <2>9, <2>10
  <1>5. ASSUME NEW c \in Cases, CreateComplianceCase(c) \/ AssignComplianceCase(c) PROVE Goal
    <2>1. \/ cases' = [cases EXCEPT ![c].status = "OPEN"]
          \/ cases' = [cases EXCEPT ![c].status = "INVESTIGATING"]
      BY <1>5 DEF CreateComplianceCase, AssignComplianceCase
    <2>2. writer' = writer
      BY <1>5 DEF CreateComplianceCase, AssignComplianceCase
    <2>. QED BY <1>1, <2>1, <2>2 DEF CaseStatuses
  <1>. QED BY <1>2, <1>3, <1>4, <1>5 DEF CasesNext

\* Actions keep their types, and what is critical stays so.
LEMMA ActionsStep ==
  ASSUME FilesTypeOK, AbsentIsPlain, ActionsNext
  PROVE  actions' \in [Actions -> ActionRow] /\ AbsentIsPlain' /\ EscalationStands
  <1>. DEFINE Goal == actions' \in [Actions -> ActionRow] /\ AbsentIsPlain' /\ EscalationStands
  <1>0. actions \in [Actions -> ActionRow]
    BY FilesRows
  <1>1. ASSUME NEW a \in Actions, NEW row \in ActionRow, actions' = [actions EXCEPT ![a] = row],
               actions[a].critical => row.critical, row.type # "none"
        PROVE  Goal
    BY <1>0, <1>1 DEF AbsentIsPlain, EscalationStands
  <1>2. ASSUME NEW a \in Actions, NEW type \in ActionTypes, NEW critical \in BOOLEAN,
               NEW s \in {"OPEN", "ACTIVE", "default"}, Add(a, type, critical, s)
        PROVE  Goal
    <2>. DEFINE row == [type |-> type, status |-> s, critical |-> critical, resolved |-> FALSE,
                        listed |-> TRUE]
    <2>1. s \in ActionStatuses /\ type # "none"
      BY DEF ActionStatuses, UpdateStatuses, ActionTypes
    <2>2. row \in ActionRow /\ row.type # "none"
      BY <2>1 DEF ActionRow
    <2>3. actions' = [actions EXCEPT ![a] = row] /\ ~actions[a].critical
      BY <1>2 DEF Add, AbsentIsPlain
    <2>. HIDE DEF row
    <2>. QED BY <1>1, <2>2, <2>3
  <1>3. ASSUME NEW a \in Actions, NEW s \in ActionStatuses, NEW resolved \in BOOLEAN,
               NEW critical \in BOOLEAN, NEW listed \in BOOLEAN, actions[a].critical => critical,
               Change(a, [type |-> actions[a].type, status |-> s, critical |-> critical,
                          resolved |-> resolved, listed |-> listed])
        PROVE  Goal
    <2>. DEFINE row == [type |-> actions[a].type, status |-> s, critical |-> critical,
                        resolved |-> resolved, listed |-> listed]
    <2>1. actions[a].listed /\ actions' = [actions EXCEPT ![a] = row]
      BY <1>3 DEF Change
    <2>2. actions[a].type # "none" /\ actions[a].type \in ActionTypes \cup {"none"}
      BY <1>0, <2>1 DEF AbsentIsPlain, ActionRow
    <2>3. row \in ActionRow /\ row.type # "none" /\ (actions[a].critical => row.critical)
      BY <1>3, <2>2 DEF ActionRow
    <2>. HIDE DEF row
    <2>. QED BY <1>1, <2>1, <2>3
  <1>4. ASSUME NEW a \in Actions, NEW row, Change(a, row),
               NEW s \in ActionStatuses, NEW resolved \in BOOLEAN, NEW critical \in BOOLEAN,
               NEW listed \in BOOLEAN, actions[a].critical => critical,
               row = [actions[a] EXCEPT !.status = s, !.resolved = resolved, !.critical = critical,
                                        !.listed = listed]
        PROVE  Goal
    <2>1. row = [type |-> actions[a].type, status |-> s, critical |-> critical,
                 resolved |-> resolved, listed |-> listed]
      BY <1>0, <1>4 DEF ActionRow
    <2>2. Change(a, [type |-> actions[a].type, status |-> s, critical |-> critical,
                     resolved |-> resolved, listed |-> listed])
      BY <1>4, <2>1
    <2>. HIDE DEF Goal
    <2>. QED BY <1>3, <1>4, <2>2
  <1>5. SUFFICES ASSUME NEW a \in Actions,
                        \/ \E type \in ActionTypes \ {"dlp_quarantine"} : complianceCreate(a, type)
                        \/ DLPQuarantine(a) \/ complianceUpdate(a) \/ complianceDelete(a)
                        \/ \E s \in SetStatuses : complianceSetStatus(a, s)
                        \/ EscalateViolation(a)
                        \/ \E s \in BulkStatuses : BulkViolation(a, s)
                 PROVE  Goal
    BY DEF ActionsNext
  <1>6. CASE \/ \E type \in ActionTypes \ {"dlp_quarantine"} : complianceCreate(a, type)
             \/ DLPQuarantine(a)
    <2>1. "dlp_quarantine" \in ActionTypes
      BY DEF ActionTypes
    <2>. QED BY <1>2, <1>6, <2>1 DEF complianceCreate, DLPQuarantine
  <1>. DEFINE old == actions[a]
  <1>7. /\ old \in ActionRow /\ old.status \in ActionStatuses /\ old.resolved \in BOOLEAN
        /\ old.critical \in BOOLEAN /\ old.listed \in BOOLEAN
    BY <1>0 DEF ActionRow
  <1>8. UpdateStatuses \subseteq ActionStatuses /\ SetStatuses \subseteq ActionStatuses
        /\ BulkStatuses \subseteq ActionStatuses /\ "ESCALATED" \in ActionStatuses
    BY DEF ActionStatuses
  <1>9. ASSUME complianceUpdate(a) PROVE Goal
    <2>1. PICK s \in UpdateStatuses \cup {old.status} : Change(a, [old EXCEPT !.status = s])
      BY <1>9 DEF complianceUpdate
    <2>2. [old EXCEPT !.status = s] = [old EXCEPT !.status = s, !.resolved = old.resolved,
                                         !.critical = old.critical, !.listed = old.listed]
      BY <1>7 DEF ActionRow
    <2>3. s \in ActionStatuses
      BY <1>7, <1>8
    <2>. DEFINE row == [old EXCEPT !.status = s]
    <2>4. Change(a, row) /\ row = [old EXCEPT !.status = s, !.resolved = old.resolved,
                                             !.critical = old.critical, !.listed = old.listed]
      BY <2>1, <2>2
    <2>. HIDE DEF Goal, row
    <2>. QED BY <1>4, <1>7, <2>3, <2>4
  <1>10. ASSUME complianceDelete(a) PROVE Goal
    <2>1. Change(a, [old EXCEPT !.listed = FALSE])
      BY <1>10 DEF complianceDelete
    <2>2. [old EXCEPT !.listed = FALSE] = [old EXCEPT !.status = old.status,
            !.resolved = old.resolved, !.critical = old.critical, !.listed = FALSE]
      BY <1>7 DEF ActionRow
    <2>. HIDE DEF Goal
    <2>. QED BY <1>4, <1>7, <2>1, <2>2
  <1>11. ASSUME NEW s \in SetStatuses, complianceSetStatus(a, s) PROVE Goal
    <2>1. Change(a, [old EXCEPT !.status = s, !.resolved = TRUE])
      BY <1>11 DEF complianceSetStatus
    <2>2. [old EXCEPT !.status = s, !.resolved = TRUE] = [old EXCEPT !.status = s,
            !.resolved = TRUE, !.critical = old.critical, !.listed = old.listed]
      BY <1>7 DEF ActionRow
    <2>. HIDE DEF Goal
    <2>. QED BY <1>4, <1>7, <1>8, <2>1, <2>2
  <1>12. ASSUME EscalateViolation(a) PROVE Goal
    <2>1. Change(a, [old EXCEPT !.status = "ESCALATED", !.critical = TRUE])
      BY <1>12 DEF EscalateViolation
    <2>2. [old EXCEPT !.status = "ESCALATED", !.critical = TRUE] =
            [old EXCEPT !.status = "ESCALATED", !.resolved = old.resolved, !.critical = TRUE,
                        !.listed = old.listed]
      BY <1>7 DEF ActionRow
    <2>. HIDE DEF Goal
    <2>. QED BY <1>4, <1>7, <1>8, <2>1, <2>2
  <1>13. ASSUME NEW s \in BulkStatuses, BulkViolation(a, s) PROVE Goal
    <2>. DEFINE resolved == old.resolved \/ s = "RESOLVED"
    <2>1. Change(a, [old EXCEPT !.status = s, !.resolved = resolved])
      BY <1>13 DEF BulkViolation
    <2>2. resolved \in BOOLEAN
      OBVIOUS
    <2>. HIDE DEF resolved
    <2>3. [old EXCEPT !.status = s, !.resolved = resolved] = [old EXCEPT !.status = s,
            !.resolved = resolved, !.critical = old.critical, !.listed = old.listed]
      BY <1>7 DEF ActionRow
    <2>. HIDE DEF Goal
    <2>. QED BY <1>4, <1>7, <1>8, <2>1, <2>2, <2>3
  <1>. QED BY <1>5, <1>6, <1>9, <1>10, <1>11, <1>12, <1>13

\* Audit rows and requests keep their types; the mark of an archived finding
\* goes with an update that had not seen it.
LEMMA FindingsStep ==
  ASSUME FilesTypeOK, AbsentIsOpen, FindingsNext
  PROVE  /\ audit' \in [AuditRows -> AuditRow] /\ writer' \in [Writers -> WriterRow]
         /\ AbsentIsOpen' /\ ArchiveLostOnlyToOverlap
  <1>. DEFINE Goal == /\ audit' \in [AuditRows -> AuditRow] /\ writer' \in [Writers -> WriterRow]
                      /\ AbsentIsOpen' /\ ArchiveLostOnlyToOverlap
  <1>0. audit \in [AuditRows -> AuditRow] /\ writer \in [Writers -> WriterRow]
    BY FilesRows
  <1>1. ASSUME NEW f \in AuditRows, NEW row \in AuditRow, audit' = [audit EXCEPT ![f] = row],
               writer' = writer, audit[f].kind = "none", row.kind # "none"
        PROVE  Goal
    <2>1. ~audit[f].archived
      BY <1>1 DEF AbsentIsOpen
    <2>. QED BY <1>0, <1>1, <2>1 DEF AbsentIsOpen, ArchiveLostOnlyToOverlap, WriterRow
  <1>2. ASSUME NEW f \in AuditRows, CreateDLPFinding(f) PROVE Goal
    <2>. DEFINE row == [kind |-> "finding", status |-> "OPEN", details |-> TRUE, archived |-> FALSE]
    <2>1. row \in AuditRow /\ row.kind # "none"
      BY DEF AuditRow, FindingStatuses
    <2>2. audit' = [audit EXCEPT ![f] = row] /\ writer' = writer /\ audit[f].kind = "none"
      BY <1>2 DEF CreateDLPFinding
    <2>. HIDE DEF row, Goal
    <2>. QED BY <1>1, <2>1, <2>2
  <1>3. ASSUME NEW f \in AuditRows, OtherAudit(f) PROVE Goal
    <2>. DEFINE row == [audit[f] EXCEPT !.kind = "other", !.details = TRUE]
    <2>1. audit[f] \in AuditRow
      BY <1>0
    <2>2. row \in AuditRow /\ row.kind # "none"
      BY <2>1 DEF AuditRow
    <2>3. writer' = writer /\ audit[f].kind = "none"
      BY <1>3 DEF OtherAudit
    <2>4. audit' = [audit EXCEPT ![f] = row]
      BY <1>0, <1>3 DEF OtherAudit
    <2>. HIDE DEF row, Goal
    <2>. QED BY <1>1, <2>2, <2>3, <2>4
  <1>4. ASSUME NEW w \in Writers, NEW f \in AuditRows, NEW op \in {"update", "archive"}, NEW forms,
               FindingRead(w, f, op, forms)
        PROVE  Goal
    <2>. DEFINE details == audit[f].details /\ decoded \in forms
                archived == audit[f].archived /\ decoded \in forms
                row == [writer[w] EXCEPT !.op = op, !.row = f, !.details = details,
                                         !.archived = archived]
    <2>1. writer' = [writer EXCEPT ![w] = row] /\ audit[f].kind # "none" /\ audit' = audit
      BY <1>4 DEF FindingRead
    <2>2. details \in BOOLEAN /\ archived \in BOOLEAN /\ writer[w] \in WriterRow
      BY <1>0
    <2>. HIDE DEF details, archived
    <2>3. row \in WriterRow /\ row.row = f
      BY <2>2 DEF WriterRow
    <2>. HIDE DEF row
    <2>4. AbsentIsOpen'
      BY <1>0, <2>1, <2>3 DEF AbsentIsOpen, WriterRow
    <2>5. ArchiveLostOnlyToOverlap
      BY <2>1 DEF ArchiveLostOnlyToOverlap
    <2>. QED BY <1>0, <2>1, <2>3, <2>4, <2>5
  <1>5. ASSUME NEW w \in Writers, NEW op \in {"update", "archive"},
               NEW statuses \in SUBSET FindingStatuses, NEW archived \in BOOLEAN,
               FindingWrite(w, op, statuses, archived),
               archived \/ (op = "update" /\ ~writer[w].archived)
        PROVE  Goal
    <2>. DEFINE f == writer[w].row
                row(s) == [audit[f] EXCEPT !.status = s, !.details = writer[w].details,
                                           !.archived = archived]
    <2>1. /\ writer[w].op = op /\ writer' = [writer EXCEPT ![w].op = "done"]
          /\ audit' = audit \/ \E s \in statuses : audit' = [audit EXCEPT ![f] = row(s)]
      BY <1>5 DEF FindingWrite, Finish
    <2>2. f \in AuditRows /\ audit[f] \in AuditRow /\ audit[f].kind # "none"
      BY <1>0, <2>1 DEF WriterRow, AbsentIsOpen
    <2>3. writer[w].details \in BOOLEAN /\ writer[w] \in WriterRow
      BY <1>0 DEF WriterRow
    <2>4. writer' \in [Writers -> WriterRow]
      BY <1>0, <2>1, <2>3 DEF WriterRow
    <2>5. \A s \in statuses : row(s) \in AuditRow /\ row(s).kind = audit[f].kind
                               /\ row(s).archived = archived
      BY <2>2, <2>3 DEF AuditRow
    <2>6. audit' \in [AuditRows -> AuditRow]
      BY <1>0, <2>1, <2>5
    <2>. HIDE DEF row
    <2>7. \A g \in AuditRows : audit'[g].kind = audit[g].kind
      BY <1>0, <2>1, <2>2, <2>5
    <2>8. \A g \in AuditRows : g # f => audit'[g] = audit[g]
      BY <1>0, <2>1, <2>2
    <2>9. audit' = audit \/ audit'[f].archived = archived
      BY <1>0, <2>1, <2>2, <2>5
    <2>10. \A v \in Writers : /\ writer'[v].row = writer[v].row
                              /\ writer'[v].op \in {"update", "archive"} => writer'[v] = writer[v]
      BY <1>0, <2>1, <2>3 DEF WriterRow
    <2>11. \A v \in Writers : writer[v].row \in AuditRows
      BY <1>0 DEF WriterRow
    <2>12. AbsentIsOpen'
      BY <2>2, <2>7, <2>8, <2>10, <2>11 DEF AbsentIsOpen
    <2>13. ArchiveLostOnlyToOverlap
      BY <1>5, <2>1, <2>8, <2>9 DEF ArchiveLostOnlyToOverlap
    <2>. QED BY <2>4, <2>6, <2>12, <2>13
  <1>6. ASSUME NEW w \in Writers, UpdateWrite(w) PROVE Goal
    <2>1. writer[w].archived \in BOOLEAN /\ FindingStatuses \in SUBSET FindingStatuses
      BY <1>0 DEF WriterRow
    <2>2. FindingWrite(w, "update", FindingStatuses, writer[w].archived)
      BY <1>6 DEF UpdateWrite
    <2>. HIDE DEF Goal
    <2>. QED BY <1>5, <2>1, <2>2
  <1>7. ASSUME NEW w \in Writers, ArchiveWrite(w) PROVE Goal
    <2>1. {"RESOLVED"} \in SUBSET FindingStatuses
      BY DEF FindingStatuses
    <2>2. FindingWrite(w, "archive", {"RESOLVED"}, TRUE)
      BY <1>7 DEF ArchiveWrite
    <2>. HIDE DEF Goal
    <2>. QED BY <1>5, <2>1, <2>2
  <1>8. ASSUME NEW w \in Writers, NEW f \in AuditRows, UpdateRead(w, f) \/ ArchiveRead(w, f)
        PROVE  Goal
    <2>. HIDE DEF Goal
    <2>. QED BY <1>4, <1>8 DEF UpdateRead, ArchiveRead
  <1>. QED BY <1>2, <1>3, <1>6, <1>7, <1>8 DEF FindingsNext

-----------------------------------------------------------------------------
(* Theorems of case files *)

\* The invariant of the case files is kept.
LEMMA FilesStep == FilesInv /\ [FilesNext]_filesVars => FilesInv'
  <1>. SUFFICES ASSUME FilesInv, [FilesNext]_filesVars PROVE FilesInv'
    OBVIOUS
  <1>0. FilesTypeOK /\ AbsentIsPlain /\ AbsentIsOpen /\ CaseTimesKept
    BY DEF FilesInv
  <1>1. /\ cases \in [Cases -> CaseRow] /\ actions \in [Actions -> ActionRow]
        /\ audit \in [AuditRows -> AuditRow] /\ decoded \in {"map", "bytes", "text"}
        /\ writer \in [Writers -> WriterRow]
    BY <1>0, FilesRows
  <1>2. /\ cases' \in [Cases -> CaseRow] /\ actions' \in [Actions -> ActionRow]
        /\ audit' \in [AuditRows -> AuditRow] /\ decoded' \in {"map", "bytes", "text"}
        /\ writer' \in [Writers -> WriterRow]
        => FilesTypeOK'
    BY DEF FilesTypeOK, CaseRow, ActionRow, AuditRow, WriterRow
  <1>3. CASE CasesNext
    <2>1. UNCHANGED <<actions, audit, decoded>>
      BY <1>0, <1>3, CasesApart
    <2>2. /\ cases' \in [Cases -> CaseRow] /\ writer' \in [Writers -> WriterRow]
          /\ CaseTimesKept'
      BY <1>0, <1>3, CasesStep
    <2>3. AbsentIsOpen'
      BY <1>0, <1>1, <1>3, WritersApart
    <2>. QED BY <1>0, <1>1, <1>2, <2>1, <2>2, <2>3 DEF FilesInv, AbsentIsPlain
  <1>4. CASE ActionsNext
    <2>1. UNCHANGED <<cases, audit, decoded, writer>>
      BY <1>4, ActionsApart
    <2>2. actions' \in [Actions -> ActionRow] /\ AbsentIsPlain'
      BY <1>0, <1>4, ActionsStep
    <2>. QED BY <1>0, <1>1, <1>2, <2>1, <2>2 DEF FilesInv, AbsentIsOpen, CaseTimesKept
  <1>5. CASE FindingsNext
    <2>1. UNCHANGED <<cases, actions, decoded>>
      BY <1>5, FindingsApart
    <2>2. /\ audit' \in [AuditRows -> AuditRow] /\ writer' \in [Writers -> WriterRow]
          /\ AbsentIsOpen'
      BY <1>0, <1>5, FindingsStep
    <2>. QED BY <1>0, <1>1, <1>2, <2>1, <2>2 DEF FilesInv, AbsentIsPlain, CaseTimesKept
  <1>6. CASE UNCHANGED filesVars
    BY <1>0, <1>6 DEF filesVars, FilesInv, FilesTypeOK, AbsentIsPlain, AbsentIsOpen, CaseTimesKept
  <1>. QED BY <1>3, <1>4, <1>5, <1>6 DEF FilesNext

\* In every state the case files have their types, and a case that is resolved,
\* closed or archived the time of it, whatever statuses it went through.
THEOREM FilesInvariant == FilesSpec => []FilesInv
  BY FilesInitInv, FilesStep, PTL DEF FilesSpec

\* The types of the case files.
THEOREM FilesTypeCorrect == FilesSpec => []FilesTypeOK
  <1>1. FilesInv => FilesTypeOK
    BY DEF FilesInv
  <1>. QED BY <1>1, FilesInvariant, PTL

\* A JSON column that is read and written back whole loses a comment, or the
\* mark of an archived finding, only to a request that read it too early.
THEOREM LossNeedsOverlap == FilesSpec => LostOnlyToOverlap
  <1>1. FilesInv /\ [FilesNext]_filesVars =>
          [CommentsLostOnlyToOverlap /\ ArchiveLostOnlyToOverlap]_filesVars
    <2>. SUFFICES ASSUME FilesInv, FilesNext
                  PROVE  CommentsLostOnlyToOverlap /\ ArchiveLostOnlyToOverlap
      OBVIOUS
    <2>0. FilesTypeOK /\ AbsentIsOpen /\ CaseTimesKept
      BY DEF FilesInv
    <2>1. CASE CasesNext
      BY <2>0, <2>1, CasesStep, CasesApart DEF ArchiveLostOnlyToOverlap
    <2>2. CASE ActionsNext
      BY <2>2, ActionsApart DEF CommentsLostOnlyToOverlap, ArchiveLostOnlyToOverlap
    <2>3. CASE FindingsNext
      BY <2>0, <2>3, FindingsStep, FindingsApart DEF CommentsLostOnlyToOverlap
    <2>. QED BY <2>1, <2>2, <2>3 DEF FilesNext
  <1>. QED BY <1>1, FilesInvariant, PTL DEF FilesSpec, LostOnlyToOverlap

\* What was escalated stays critical, and a case keeps the time of its end,
\* in whatever order the routes are called.
THEOREM StatusesStay == FilesSpec => StatusesStand
  <1>1. FilesInv /\ FilesInv' /\ [FilesNext]_filesVars =>
          [EscalationStands /\ CaseTimesKept']_filesVars
    <2>. SUFFICES ASSUME FilesInv, FilesInv', FilesNext PROVE EscalationStands /\ CaseTimesKept'
      OBVIOUS
    <2>0. FilesTypeOK /\ AbsentIsPlain /\ CaseTimesKept'
      BY DEF FilesInv
    <2>1. CASE CasesNext
      BY <2>0, <2>1, CasesApart DEF EscalationStands
    <2>2. CASE ActionsNext
      BY <2>0, <2>2, ActionsStep
    <2>3. CASE FindingsNext
      BY <2>0, <2>3, FindingsApart DEF EscalationStands
    <2>. QED BY <2>1, <2>2, <2>3 DEF FilesNext
  <1>. QED BY <1>1, FilesInvariant, PTL DEF FilesSpec, StatusesStand

-----------------------------------------------------------------------------
(* Governance *)

CreationRow == [pc : {"new", "find", "bind", "done"}, own : Policies \cup {NoPolicy},
                found : Policies \cup {NoPolicy}, agents : SUBSET Agents]
BindingRow == [policy : Policies, agent : Agents, by : Creations]
PeerRow == [status : PeerStatuses \cup {"none", "PENDING"}, active : BOOLEAN]

\* A request binds once it has found a policy, and to that one.
BindingsFound ==
  /\ \A c \in Creations : creation[c].pc = "bind" => creation[c].found \in Policies
  /\ \A b \in bindings : creation[b.by].pc = "bind" /\ b.policy = creation[b.by].found

ProposalTypes ==
  /\ proposals \in [Proposals -> ProposalStatuses \cup {"none", "new"}]
  /\ rounds \in [Proposals -> 0..MaxRounds] /\ opening \in [Proposals -> 0..MaxRounds]
  /\ votes \subseteq [proposal : Proposals, voter : Voters, vote : {"for", "against"}]
  /\ \A p \in Proposals : rounds[p] + opening[p] <= MaxRounds
PeerTypes ==
  peers \in [Peers -> PeerRow] /\ consents \subseteq Peers /\ consenting \subseteq Peers
PolicyTypes ==
  /\ policies \in [Policies -> PolicyStatuses \cup {"none"}]
  /\ creation \in [Creations -> CreationRow] /\ bindings \subseteq BindingRow
LostTypes == lost \subseteq Proposals \cup Peers
FrameworkTypes ==
  frameworks \in [Frameworks -> [jurisdiction : Countries \cup {NoCountry}, templates : 0..2]]

GovInv == /\ ProposalTypes /\ PeerTypes /\ PolicyTypes /\ LostTypes /\ FrameworkTypes
          /\ BindingsFound /\ VotingHasRound /\ PeerHasConsent

\* The invariant of governance includes its types.
LEMMA GovTypes == GovInv => GovTypeOK
  BY DEF GovInv, GovTypeOK, ProposalTypes, PeerTypes, PolicyTypes, LostTypes, FrameworkTypes,
         CreationRow, BindingRow, PeerRow

\* At first nothing is proposed, invited, created or bound.
LEMMA GovInitInv == GovInit => GovInv
  <1>. SUFFICES ASSUME GovInit PROVE GovInv
    OBVIOUS
  <1>1. ProposalTypes /\ VotingHasRound
    BY MaxRoundsPositive DEF GovInit, ProposalTypes, VotingHasRound
  <1>2. PeerTypes /\ PeerHasConsent /\ LostTypes
    BY DEF GovInit, PeerTypes, PeerRow, PeerHasConsent, LostTypes
  <1>3. PolicyTypes /\ BindingsFound
    BY DEF GovInit, PolicyTypes, CreationRow, BindingsFound
  <1>4. FrameworkTypes
    BY DEF GovInit, FrameworkTypes
  <1>. QED BY <1>1, <1>2, <1>3, <1>4 DEF GovInv

\* Whatever becomes of the goroutines, a proposal put to the vote has a round,
\* one under way, or one that was lost.
LEMMA ProposalsStep ==
  ASSUME ProposalTypes, LostTypes, VotingHasRound, consenting \subseteq Peers, ProposalsNext
  PROVE  ProposalTypes' /\ LostTypes' /\ VotingHasRound' /\ lost \subseteq lost'
         /\ consenting \subseteq consenting' \cup lost' /\ consenting' \subseteq Peers
         /\ UNCHANGED <<peers, consents, policyVars, frameworks>>
  <1>. DEFINE Goal == /\ ProposalTypes' /\ LostTypes' /\ VotingHasRound' /\ lost \subseteq lost'
                      /\ consenting \subseteq consenting' \cup lost' /\ consenting' \subseteq Peers
                      /\ UNCHANGED <<peers, consents, policyVars, frameworks>>
  <1>. USE MaxRoundsPositive DEF ProposalTypes, LostTypes, VotingHasRound, peerVars
  <1>1. SUFFICES ASSUME NEW p \in Proposals,
                        \/ CreateGovernanceProposal(p) \/ DeleteGovernanceProposal(p)
                        \/ \E s \in ProposalStatuses : UpdateGovernanceProposal(p, s)
                        \/ OpenRound(p) \/ PodStops
                        \/ \E v \in Voters, vote \in {"for", "against"} :
                             CastGovernanceVote(p, v, vote)
                 PROVE  Goal
    BY DEF ProposalsNext
  <1>2. CASE CreateGovernanceProposal(p)
    BY <1>2 DEF CreateGovernanceProposal
  <1>3. CASE DeleteGovernanceProposal(p)
    BY <1>3 DEF DeleteGovernanceProposal
  <1>4. ASSUME NEW s \in ProposalStatuses, UpdateGovernanceProposal(p, s) PROVE Goal
    <2>1. CASE s = "VOTING"
      <3>1. /\ opening' = [opening EXCEPT ![p] = @ + 1] /\ rounds[p] + opening[p] < MaxRounds
            /\ proposals' = [proposals EXCEPT ![p] = s] /\ lost' = lost /\ rounds' = rounds
            /\ votes' = votes /\ consenting' = consenting
        BY <1>4, <2>1 DEF UpdateGovernanceProposal
      <3>2. opening[p] \in Nat /\ rounds[p] \in Nat /\ opening[p] + 1 <= MaxRounds
        BY <3>1
      <3>3. ProposalTypes'
        BY <3>1, <3>2
      <3>4. VotingHasRound'
        BY <3>1, <3>2
      <3>. QED BY <1>4, <3>1, <3>3, <3>4 DEF UpdateGovernanceProposal
    <2>2. CASE s # "VOTING"
      <3>1. /\ opening' = opening /\ proposals' = [proposals EXCEPT ![p] = s]
        BY <1>4, <2>2 DEF UpdateGovernanceProposal
      <3>. QED BY <1>4, <2>2, <3>1 DEF UpdateGovernanceProposal
    <2>. QED BY <2>1, <2>2
  <1>5. CASE OpenRound(p)
    <2>1. opening[p] \in Nat /\ rounds[p] \in Nat /\ opening[p] > 0
          /\ rounds[p] + opening[p] <= MaxRounds
      BY <1>5 DEF OpenRound
    <2>2. opening' = [opening EXCEPT ![p] = @ - 1] /\ proposals' = proposals /\ votes' = votes
          /\ consenting' = consenting
      BY <1>5 DEF OpenRound
    <2>3. CASE rounds' = [rounds EXCEPT ![p] = @ + 1] /\ lost' = lost
      BY <1>5, <2>1, <2>2, <2>3 DEF OpenRound
    <2>4. CASE lost' = lost \cup {p} /\ rounds' = rounds
      BY <1>5, <2>1, <2>2, <2>4 DEF OpenRound
    <2>. QED BY <1>5, <2>3, <2>4 DEF OpenRound
  <1>6. CASE PodStops
    BY <1>6 DEF PodStops
  <1>7. ASSUME NEW v \in Voters, NEW vote \in {"for", "against"}, CastGovernanceVote(p, v, vote)
        PROVE  Goal
    BY <1>7 DEF CastGovernanceVote
  <1>. QED BY <1>1, <1>2, <1>3, <1>4, <1>5, <1>6, <1>7

\* The same of a peer and its consent.
LEMMA PeersStep ==
  ASSUME ProposalTypes, PeerTypes, LostTypes, VotingHasRound, PeerHasConsent, PeersNext
  PROVE  ProposalTypes' /\ PeerTypes' /\ LostTypes' /\ VotingHasRound' /\ PeerHasConsent'
         /\ UNCHANGED <<policyVars, frameworks>>
  <1>. DEFINE Goal == /\ ProposalTypes' /\ PeerTypes' /\ LostTypes' /\ VotingHasRound'
                      /\ PeerHasConsent' /\ UNCHANGED <<policyVars, frameworks>>
  <1>1. ASSUME PodStops PROVE Goal
    BY <1>1, MaxRoundsPositive DEF PodStops, ProposalTypes, PeerTypes, LostTypes, VotingHasRound,
         PeerHasConsent
  <1>2. ASSUME UNCHANGED proposalVars, PeerTypes', PeerHasConsent', lost \subseteq lost', LostTypes',
               UNCHANGED <<policyVars, frameworks>>
        PROVE  Goal
    BY <1>2 DEF proposalVars, ProposalTypes, VotingHasRound
  <1>3. SUFFICES ASSUME NEW p \in Peers,
                        \/ CreateFederationPeer(p) \/ RecordConsent(p) \/ DeleteFederationPeer(p)
                        \/ \E s \in PeerStatuses : UpdateFederationPeer(p, s)
                 PROVE  Goal
    BY <1>1 DEF PeersNext
  <1>. USE DEF PeerTypes, PeerHasConsent, LostTypes
  <1>4. peers[p] \in PeerRow
    OBVIOUS
  <1>5. CASE CreateFederationPeer(p)
    <2>1. [peers[p] EXCEPT !.status = "PENDING"] \in PeerRow
      BY <1>4 DEF PeerRow
    <2>. QED BY <1>2, <1>5, <2>1 DEF CreateFederationPeer
  <1>6. CASE RecordConsent(p)
    BY <1>2, <1>6 DEF RecordConsent
  <1>7. CASE DeleteFederationPeer(p)
    <2>1. /\ [peers[p] EXCEPT !.active = FALSE] \in PeerRow
          /\ [peers[p] EXCEPT !.active = FALSE].status = peers[p].status
      BY <1>4 DEF PeerRow
    <2>. QED BY <1>2, <1>7, <2>1 DEF DeleteFederationPeer
  <1>8. ASSUME NEW s \in PeerStatuses, UpdateFederationPeer(p, s) PROVE Goal
    <2>1. [peers[p] EXCEPT !.status = s] \in PeerRow
      BY <1>4 DEF PeerRow
    <2>. QED BY <1>2, <1>8, <2>1 DEF UpdateFederationPeer
  <1>. QED BY <1>3, <1>5, <1>6, <1>7, <1>8

\* A request keeps the policy it found while others are created.
LEMMA PoliciesStep ==
  ASSUME PolicyTypes, BindingsFound, PoliciesNext
  PROVE  PolicyTypes' /\ BindingsFound' /\ UNCHANGED <<proposalVars, peerVars, lost, frameworks>>
  <1>. DEFINE Goal == /\ PolicyTypes' /\ BindingsFound'
                      /\ UNCHANGED <<proposalVars, peerVars, lost, frameworks>>
  <1>. USE DEF PolicyTypes, BindingsFound
  <1>1. ASSUME NEW k \in Policies, NEW s \in PolicyStatuses, UpdatePolicy(k, s) PROVE Goal
    BY <1>1 DEF UpdatePolicy
  <1>2. ASSUME NEW c \in Creations, NEW k \in Policies, NEW agents \in SUBSET Agents,
               InsertPolicy(c, k, agents)
        PROVE  Goal
    <2>. DEFINE row == [pc |-> "find", own |-> k, found |-> NoPolicy, agents |-> agents]
    <2>1. row \in CreationRow
      BY DEF CreationRow
    <2>2. creation[c].pc = "new" /\ creation' = [creation EXCEPT ![c] = row] /\ bindings' = bindings
      BY <1>2 DEF InsertPolicy, Step
    <2>3. row.pc = "find"
      OBVIOUS
    <2>. HIDE DEF row
    <2>4. BindingsFound' /\ creation' \in [Creations -> CreationRow]
      BY <2>1, <2>2, <2>3 DEF BindingRow
    <2>5. PICK status \in {"DRAFT", "ACTIVE"} : policies' = [policies EXCEPT ![k] = status]
      BY <1>2 DEF InsertPolicy
    <2>6. policies' \in [Policies -> PolicyStatuses \cup {"none"}]
      BY <2>5 DEF PolicyStatuses
    <2>. QED BY <1>2, <2>2, <2>4, <2>6 DEF InsertPolicy
  <1>3. ASSUME NEW c \in Creations, FindPolicy(c) PROVE Goal
    <2>1. PICK k \in Created \cup {NoPolicy} :
            Step(c, "find", [creation[c] EXCEPT !.found = k,
                                                !.pc = IF k = NoPolicy THEN "done" ELSE "bind"])
      BY <1>3 DEF FindPolicy
    <2>. DEFINE row == [creation[c] EXCEPT !.found = k,
                                           !.pc = IF k = NoPolicy THEN "done" ELSE "bind"]
    <2>2. k \in Policies \cup {NoPolicy} /\ creation[c] \in CreationRow
      BY DEF Created
    <2>3. row \in CreationRow /\ (row.pc = "bind" => row.found \in Policies)
      BY <2>2 DEF CreationRow
    <2>4. creation[c].pc = "find" /\ creation' = [creation EXCEPT ![c] = row]
      BY <2>1 DEF Step
    <2>. HIDE DEF row
    <2>. QED BY <1>3, <2>3, <2>4 DEF FindPolicy, BindingRow
  <1>4. ASSUME NEW c \in Creations, NEW a \in Agents, BindAgent(c, a) PROVE Goal
    <2>. DEFINE row == [creation[c] EXCEPT !.agents = @ \ {a}]
                bind == [policy |-> creation[c].found, agent |-> a, by |-> c]
    <2>1. creation[c].pc = "bind" /\ creation' = [creation EXCEPT ![c] = row]
      BY <1>4 DEF BindAgent, Step
    <2>2. creation[c] \in CreationRow /\ creation[c].found \in Policies
      BY <2>1
    <2>3. row \in CreationRow /\ row.pc = "bind" /\ row.found = creation[c].found
      BY <2>1, <2>2 DEF CreationRow
    <2>4. bind \in BindingRow /\ bind.by = c /\ bind.policy = creation[c].found
      BY <2>2 DEF BindingRow
    <2>5. bindings' = bindings \/ bindings' = bindings \cup {bind}
      BY <1>4 DEF BindAgent
    <2>. HIDE DEF row, bind
    <2>6. \A d \in Creations : creation'[d].pc = creation[d].pc /\ creation'[d].found = creation[d].found
      BY <2>1, <2>3
    <2>7. \A b \in bindings' : b \in BindingRow
      BY <2>4, <2>5
    <2>8. \A b \in BindingRow : b.by \in Creations
      BY DEF BindingRow
    <2>9. BindingsFound'
      BY <2>1, <2>4, <2>5, <2>6, <2>7, <2>8
    <2>. QED BY <1>4, <2>1, <2>3, <2>7, <2>9 DEF BindAgent
  <1>. QED BY <1>1, <1>2, <1>3, <1>4 DEF PoliciesNext

\* The invariant of governance is kept.
LEMMA GovStep == GovInv /\ [GovNext]_govVars => GovInv'
  <1>. SUFFICES ASSUME GovInv, [GovNext]_govVars PROVE GovInv'
    OBVIOUS
  <1>. USE DEF GovInv
  <1>1. CASE ProposalsNext
    <2>1. consenting \subseteq Peers
      BY DEF PeerTypes
    <2>. QED BY <1>1, <2>1, ProposalsStep DEF PeerTypes, PolicyTypes, policyVars, FrameworkTypes,
             BindingsFound, PeerHasConsent
  <1>2. CASE PeersNext
    BY <1>2, PeersStep DEF PolicyTypes, policyVars, FrameworkTypes, BindingsFound
  <1>3. CASE PoliciesNext
    BY <1>3, PoliciesStep DEF proposalVars, peerVars, ProposalTypes, PeerTypes, LostTypes,
       FrameworkTypes, VotingHasRound, PeerHasConsent
  <1>4. CASE UNCHANGED govVars
    BY <1>4 DEF govVars, proposalVars, peerVars, policyVars, ProposalTypes, PeerTypes, LostTypes,
       PolicyTypes, FrameworkTypes, BindingsFound, VotingHasRound, PeerHasConsent
  <1>. QED BY <1>1, <1>2, <1>3, <1>4 DEF GovNext

\* The two lists agree in every state, for any frameworks.
LEMMA ListsAgree == FrameworkTypes => ObligationsMatchFrameworks
  <1>. SUFFICES ASSUME FrameworkTypes, NEW country \in Countries \cup {NoCountry}
                PROVE  ListGRARegulatoryFrameworks(country) =
                         {o.framework : o \in ListGRAComplianceObligations(country)}
    BY DEF ObligationsMatchFrameworks
  <1>1. ASSUME NEW f \in ListGRARegulatoryFrameworks(country)
        PROVE  \E o \in ListGRAComplianceObligations(country) : o.framework = f
    <2>. DEFINE o == [framework |-> f, index |-> 0]
    <2>1. f \in Frameworks /\ (country = NoCountry \/ frameworks[f].jurisdiction \in {NoCountry, country})
      BY DEF ListGRARegulatoryFrameworks
    <2>2. frameworks[f].templates \in 0..2
      BY <2>1 DEF FrameworkTypes
    <2>3. 0 <= IF frameworks[f].templates = 0 THEN 0 ELSE frameworks[f].templates - 1
      BY <2>2
    <2>4. o \in ListGRAComplianceObligations(country)
      BY <2>1, <2>3 DEF ListGRAComplianceObligations
    <2>. QED BY <2>4
  <1>2. ASSUME NEW o \in ListGRAComplianceObligations(country)
        PROVE  o.framework \in ListGRARegulatoryFrameworks(country)
    BY DEF ListGRAComplianceObligations, ListGRARegulatoryFrameworks
  <1>. QED BY <1>1, <1>2

\* In every state of governance the rows have their types, and a policy that a
\* creation found, or bound an agent to, is one that was created.
THEOREM GovInvariant == GovSpec => []GovInv
  BY GovInitInv, GovStep, PTL DEF GovSpec

\* A proposal's round, a peer's consent, the bindings of a request and the two
\* lists of obligations agree in every state, for any numbers of them.
THEOREM RowsAgree == GovSpec => []RowsApartAgree
  <1>1. GovInv => RowsApartAgree
    <2>. SUFFICES ASSUME GovInv PROVE RowsApartAgree
      OBVIOUS
    <2>1. BindingsTogether
      BY DEF GovInv, BindingsFound, BindingsTogether
    <2>2. ObligationsMatchFrameworks
      BY ListsAgree DEF GovInv
    <2>. QED BY <2>1, <2>2 DEF GovInv, RowsApartAgree
  <1>. QED BY <1>1, GovInvariant, PTL

\* The types of governance.
THEOREM GovTypeCorrect == GovSpec => []GovTypeOK
  BY GovTypes, GovInvariant, PTL

-----------------------------------------------------------------------------
(* Compliance records *)

Filings == {"report", "package", "declaration"}

\* Only rows that exist have a status; what is filed is found by its own id; a
\* dispute is never a draft, so that no submission reads one.
RowsPlain == \A k \in Keys :
  /\ table[k].type = "none" => table[k].status = "none"
  /\ table[k].type \in Filings => table[k].case = k
  /\ IsDispute(k) => table[k].status # "DRAFT"

\* A submission that goes on to write has read the filing with the id it was
\* asked for, and writes its card back, or none where it could not read it.
SubmitsRead == \A r \in Requests : req[r].pc = "write" /\ req[r].op = "submit" =>
  /\ req[r].read = "DRAFT" /\ req[r].id \in Keys
  /\ table[req[r].id].type \in Filings
  /\ req[r].report.card = IF textual THEN table[req[r].id].report.card ELSE "blank"

DisputesRead == \A r \in Requests : req[r].pc = "write" =>
  /\ req[r].op \in {"resolve", "withdraw"} => req[r].id \in Keys /\ IsDispute(req[r].id)
  /\ req[r].op = "resolve" => req[r].read = "OPEN"

RecordsInv == RecordsTypeOK /\ RowsPlain /\ SubmitsRead /\ DisputesRead

\* What a step may do to the rows.
RecordsKept == /\ FiledAgainOnlyByStaleDraft /\ VerdictsGiveWayToStaleOnes /\ FilingKeepsCard
               /\ DeclarationsStand

\* At first the table is empty and no request has read it.
LEMMA RecordsInitInv == RecordsInit => RecordsInv
  <1>. SUFFICES ASSUME RecordsInit PROVE RecordsInv
    OBVIOUS
  <1>1. PICK c \in CaseIds :
          /\ table = [k \in Keys |-> [type |-> "none", case |-> c, status |-> "none", report |-> Blank]]
          /\ req = [r \in Requests |-> [op |-> "none", pc |-> "new", id |-> c, read |-> "none",
                                        report |-> Blank, answer |-> "none"]]
    BY DEF RecordsInit
  <1>2. Blank \in Reports
    BY DEF Blank, Reports, Cards
  <1>3. /\ [type |-> "none", case |-> c, status |-> "none", report |-> Blank] \in Row
        /\ [op |-> "none", pc |-> "new", id |-> c, read |-> "none", report |-> Blank,
            answer |-> "none"] \in Request
    BY <1>2 DEF Row, Request
  <1>4. RecordsTypeOK
    BY <1>1, <1>3 DEF RecordsInit, RecordsTypeOK
  <1>5. RowsPlain /\ SubmitsRead /\ DisputesRead
    BY <1>1 DEF RowsPlain, Filings, IsDispute, SubmitsRead, DisputesRead
  <1>. QED BY <1>4, <1>5 DEF RecordsInv

\* A declaration is there and every one is filed.
LEMMA DeclaredFiled ==
  DeclarationStatus(FALSE) = {"FILED"} <=>
    /\ \E k \in Keys : table[k].type = "declaration"
    /\ \A k \in Keys : table[k].type = "declaration" => table[k].status = "FILED"
  BY DEF DeclarationStatus

\* A step that keeps filed declarations, and makes no other, keeps the answer.
LEMMA DeclarationsKept ==
  ASSUME \A k \in Keys : table[k].type = "declaration" /\ table[k].status = "FILED" =>
           table'[k].type = "declaration" /\ table'[k].status = "FILED",
         \A k \in Keys : table[k].type # "declaration" /\ table'[k].type = "declaration" =>
           table'[k].status = "FILED"
  PROVE  DeclarationsStand
  <1>1. DeclarationStatus(FALSE)' = {"FILED"} <=>
          /\ \E k \in Keys : table'[k].type = "declaration"
          /\ \A k \in Keys : table'[k].type = "declaration" => table'[k].status = "FILED"
    BY DEF DeclarationStatus
  <1>. QED BY <1>1, DeclaredFiled DEF DeclarationsStand

\* A step that leaves the table alone.
LEMMA TableStays ==
  ASSUME RecordsInv, table' = table PROVE RecordsKept /\ RowsPlain'
  <1>1. DeclarationsStand
    BY DEF DeclarationsStand, DeclarationStatus
  <1>. QED BY <1>1 DEF RecordsKept, FiledAgainOnlyByStaleDraft, VerdictsGiveWayToStaleOnes,
       FilingKeepsCard, RecordsInv, RowsPlain, IsDispute

\* A new row is under an id that was free, so it takes nothing away.
LEMMA InsertStep ==
  ASSUME RecordsInv, NEW k \in Keys, NEW type \in Filings \cup {"dispute"}, NEW c \in CaseIds,
         NEW status \in {"DRAFT", "OPEN", "FILED"}, NEW report \in Reports,
         Insert(k, type, c, status, report),
         type \in Filings => c = k, type = "dispute" => status = "OPEN",
         type = "declaration" => status = "FILED"
  PROVE  RecordsInv' /\ RecordsKept
  <1>. DEFINE row == [type |-> type, case |-> c, status |-> status, report |-> report]
  <1>0. RecordsTypeOK /\ RowsPlain /\ SubmitsRead /\ DisputesRead
    BY DEF RecordsInv
  <1>1. /\ table[k].type = "none" /\ table' = [table EXCEPT ![k] = row]
        /\ hitl' = hitl /\ textual' = textual /\ req' = req
    BY DEF Insert, Exists
  <1>2. row \in Row
    BY DEF Row, Filings, Final
  <1>3. row.type = type /\ row.case = c /\ row.status = status /\ row.report = report
    OBVIOUS
  <1>. HIDE DEF row
  <1>4. table \in [Keys -> Row] /\ table[k].status = "none"
    BY <1>0, <1>1 DEF RecordsTypeOK, RowsPlain
  <1>5. RecordsTypeOK'
    BY <1>0, <1>1, <1>2, <1>4 DEF RecordsTypeOK
  <1>6. RowsPlain'
    BY <1>0, <1>1, <1>3, <1>4 DEF RowsPlain, IsDispute, Filings
  <1>7. SubmitsRead'
    BY <1>0, <1>1, <1>4 DEF SubmitsRead, Filings
  <1>8. DisputesRead'
    BY <1>0, <1>1, <1>4 DEF DisputesRead, IsDispute
  <1>9. FiledAgainOnlyByStaleDraft /\ VerdictsGiveWayToStaleOnes /\ FilingKeepsCard
    BY <1>1, <1>4 DEF FiledAgainOnlyByStaleDraft, VerdictsGiveWayToStaleOnes, FilingKeepsCard,
       IsDispute, Final
  <1>10. DeclarationsStand
    BY <1>1, <1>3, <1>4, DeclarationsKept
  <1>. QED BY <1>5, <1>6, <1>7, <1>8, <1>9, <1>10 DEF RecordsInv, RecordsKept

\* A request that is answered without a write.
LEMMA AnswerStep ==
  ASSUME RecordsInv, NEW r \in Requests, NEW op \in {"submit", "resolve", "withdraw"},
         NEW id \in CaseIds, NEW answer \in {"ok", "missing", "refused", "error"},
         Answer(r, op, id, answer)
  PROVE  /\ req' \in [Requests -> Request] /\ req'[r].pc = "done"
         /\ \A q \in Requests \ {r} : req'[q] = req[q]
  <1>1. req \in [Requests -> Request] /\ req[r] \in Request
    BY DEF RecordsInv, RecordsTypeOK
  <1>2. [req[r] EXCEPT !.op = op, !.pc = "done", !.id = id, !.answer = answer] \in Request
    BY <1>1 DEF Request
  <1>. QED BY <1>1, <1>2 DEF Answer, Request

\* A request that has read a row goes on to its write with what it read.
LEMMA GoOnStep ==
  ASSUME RecordsInv, NEW r \in Requests, NEW op \in {"submit", "resolve", "withdraw"},
         NEW id \in CaseIds, NEW row \in Row, NEW report \in Reports,
         GoOn(r, op, id, row, report)
  PROVE  /\ req' \in [Requests -> Request]
         /\ req'[r].op = op /\ req'[r].pc = "write" /\ req'[r].id = id /\ req'[r].read = row.status
         /\ req'[r].report = report
         /\ \A q \in Requests \ {r} : req'[q] = req[q]
  <1>. DEFINE new == [req[r] EXCEPT !.op = op, !.pc = "write", !.id = id, !.read = row.status,
                                    !.report = report]
  <1>1. req \in [Requests -> Request] /\ req[r] \in Request
    BY DEF RecordsInv, RecordsTypeOK
  <1>2. row.status \in {"none", "DRAFT", "OPEN"} \cup Final
    BY DEF Row
  <1>3. new \in Request
    BY <1>1, <1>2 DEF Request
  <1>4. /\ new.op = op /\ new.pc = "write" /\ new.id = id /\ new.read = row.status
        /\ new.report = report
    BY <1>1 DEF Request
  <1>5. req' = [req EXCEPT ![r] = new]
    BY DEF GoOn
  <1>. HIDE DEF new
  <1>. QED BY <1>1, <1>3, <1>4, <1>5

\* A step of one request that leaves the table alone: what it has read holds.
LEMMA ReadStep ==
  ASSUME RecordsInv, NEW r \in Requests, UNCHANGED <<table, hitl, textual>>,
         req' \in [Requests -> Request], \A q \in Requests \ {r} : req'[q] = req[q],
         \/ req'[r].pc = "done"
         \/ /\ req'[r].op = "submit" /\ req'[r].read = "DRAFT" /\ req'[r].id \in Keys
            /\ table[req'[r].id].type \in Filings
            /\ req'[r].report.card = IF textual THEN table[req'[r].id].report.card ELSE "blank"
         \/ /\ req'[r].op \in {"resolve", "withdraw"} /\ req'[r].id \in Keys /\ IsDispute(req'[r].id)
            /\ req'[r].op = "resolve" => req'[r].read = "OPEN"
  PROVE  RecordsInv' /\ RecordsKept
  <1>0. RecordsTypeOK /\ RowsPlain /\ SubmitsRead /\ DisputesRead
    BY DEF RecordsInv
  <1>1. RowsPlain' /\ RecordsKept
    BY TableStays
  <1>2. RecordsTypeOK'
    BY <1>0 DEF RecordsTypeOK
  <1>3. SubmitsRead'
    BY <1>0 DEF SubmitsRead
  <1>4. DisputesRead'
    BY <1>0 DEF DisputesRead, IsDispute
  <1>. QED BY <1>1, <1>2, <1>3, <1>4 DEF RecordsInv

\* A submission reads any row of its case, or none.
LEMMA SubmitReadStep ==
  ASSUME RecordsInv, NEW r \in Requests, NEW c \in CaseIds, SubmitRead(r, c)
  PROVE  RecordsInv' /\ RecordsKept
  <1>0. RecordsTypeOK /\ RowsPlain
    BY DEF RecordsInv
  <1>1. UNCHANGED <<table, hitl, textual>>
    BY DEF SubmitRead
  <1>2. CASE \E answer \in {"missing", "refused", "error"} : Answer(r, "submit", c, answer)
    BY <1>1, <1>2, AnswerStep, ReadStep
  <1>3. CASE \E k \in WithCase(c), ref \in Refs :
               /\ table[k].status = "DRAFT"
               /\ GoOn(r, "submit", c, table[k], [Decoded(k) EXCEPT !.ref = ref])
    <2>1. PICK k \in WithCase(c), ref \in Refs :
               /\ table[k].status = "DRAFT"
               /\ GoOn(r, "submit", c, table[k], [Decoded(k) EXCEPT !.ref = ref])
      BY <1>3
    <2>2. k \in Keys /\ table[k].type # "none" /\ table[k].case = c
      BY DEF WithCase, Exists
    <2>3. table[k] \in Row /\ table[k].report \in Reports
      BY <1>0, <2>2 DEF RecordsTypeOK, Row
    <2>4. table[k].type \in Filings /\ k = c
      BY <1>0, <2>1, <2>2, <2>3 DEF RowsPlain, IsDispute, Row, Filings
    <2>. DEFINE report == [Decoded(k) EXCEPT !.ref = ref]
    <2>5. /\ report \in Reports
          /\ report.card = IF textual THEN table[k].report.card ELSE "blank"
      <3>1. Decoded(k) \in Reports
        BY <2>3 DEF Decoded, Blank, Reports, Cards
      <3>2. report \in Reports /\ report.card = Decoded(k).card
        BY <3>1 DEF Reports
      <3>. QED BY <3>2 DEF Decoded, Blank
    <2>. HIDE DEF report
    <2>6. GoOn(r, "submit", c, table[k], report)
      BY <2>1 DEF report
    <2>7. /\ req' \in [Requests -> Request]
          /\ req'[r].op = "submit" /\ req'[r].pc = "write" /\ req'[r].id = c
          /\ req'[r].read = table[k].status /\ req'[r].report = report
          /\ \A q \in Requests \ {r} : req'[q] = req[q]
      BY <2>3, <2>5, <2>6, GoOnStep
    <2>. QED BY <1>1, <2>1, <2>2, <2>4, <2>5, <2>7, ReadStep
  <1>. QED BY <1>2, <1>3 DEF SubmitRead

\* A resolution or a withdrawal reads the row of its dispute.
LEMMA DisputeReadStep ==
  ASSUME RecordsInv, NEW r \in Requests, NEW k \in Keys, ResolveRead(r, k) \/ WithdrawRead(r, k)
  PROVE  RecordsInv' /\ RecordsKept
  <1>0. table[k] \in Row /\ Blank \in Reports /\ k \in CaseIds
    BY KeysAreCaseIds DEF RecordsInv, RecordsTypeOK, Blank, Reports, Cards
  <1>1. UNCHANGED <<table, hitl, textual>>
    BY DEF ResolveRead, WithdrawRead
  <1>2. CASE \E op \in {"resolve", "withdraw"}, answer \in {"missing", "refused"} :
               Answer(r, op, k, answer)
    BY <1>0, <1>1, <1>2, AnswerStep, ReadStep
  <1>3. CASE \E op \in {"resolve", "withdraw"} :
               /\ IsDispute(k) /\ (op = "resolve" => table[k].status = "OPEN")
               /\ GoOn(r, op, k, table[k], Blank)
    <2>1. PICK op \in {"resolve", "withdraw"} :
               /\ IsDispute(k) /\ (op = "resolve" => table[k].status = "OPEN")
               /\ GoOn(r, op, k, table[k], Blank)
      BY <1>3
    <2>2. /\ req' \in [Requests -> Request]
          /\ req'[r].op = op /\ req'[r].id = k /\ req'[r].read = table[k].status
          /\ \A q \in Requests \ {r} : req'[q] = req[q]
      BY <1>0, <2>1, GoOnStep
    <2>. QED BY <1>1, <2>1, <2>2, ReadStep
  <1>. QED BY <1>2, <1>3 DEF ResolveRead, WithdrawRead

\* A submission writes every row with the id: the filing it read, and disputes.
LEMMA SubmitWriteStep ==
  ASSUME RecordsInv, NEW r \in Requests, SubmitWrite(r)
  PROVE  RecordsInv' /\ RecordsKept
  <1>0. /\ RecordsTypeOK /\ RowsPlain /\ SubmitsRead /\ DisputesRead
        /\ table \in [Keys -> Row] /\ req[r] \in Request
    BY DEF RecordsInv, RecordsTypeOK
  <1>. DEFINE id == req[r].id
              row(k) == [table[k] EXCEPT !.status = "FILED", !.report = req[r].report]
  <1>1. /\ req[r].op = "submit" /\ req[r].pc = "write" /\ hitl' = hitl /\ textual' = textual
        /\ \E answer \in {"ok", "error"} : Answer(r, "submit", id, answer)
        /\ \/ table' = table
           \/ table' = [k \in Keys |-> IF k \in WithCase(id) THEN row(k) ELSE table[k]]
    BY DEF SubmitWrite
  <1>2. id \in Keys /\ id \in CaseIds /\ req[r].report \in Reports /\ req[r].read = "DRAFT"
        /\ table[id].type \in Filings
        /\ req[r].report.card = IF textual THEN table[id].report.card ELSE "blank"
    BY <1>0, <1>1 DEF SubmitsRead, Request
  <1>3. /\ req' \in [Requests -> Request] /\ req'[r].pc = "done"
        /\ \A q \in Requests \ {r} : req'[q] = req[q]
    BY <1>1, <1>2, AnswerStep
  <1>4. CASE table' = table
    BY <1>1, <1>3, <1>4, ReadStep
  <1>5. CASE table' = [k \in Keys |-> IF k \in WithCase(id) THEN row(k) ELSE table[k]]
    <2>1. ASSUME NEW k \in Keys
          PROVE  /\ row(k) \in Row /\ row(k).type = table[k].type /\ row(k).case = table[k].case
                 /\ row(k).status = "FILED" /\ row(k).report = req[r].report
      <3>1. table[k] \in Row
        BY <1>0
      <3>. QED BY <1>2, <3>1 DEF Row, Final
    <2>. HIDE DEF row, id
    <2>2. \A k \in Keys : /\ table'[k] \in Row
                          /\ table'[k].type = table[k].type /\ table'[k].case = table[k].case
      BY <1>0, <1>5, <2>1
    <2>3. \A k \in Keys : \/ table'[k] = table[k]
                          \/ /\ table[k].type # "none" /\ table[k].case = id
                             /\ table'[k].status = "FILED" /\ table'[k].report = req[r].report
      BY <1>5, <2>1 DEF WithCase, Exists
    <2>4. \A k \in Keys : table[k].type \in Filings =>
            \/ table'[k].report.card = table[k].report.card
            \/ ~textual /\ table'[k].report.card = "blank"
      BY <1>0, <1>2, <2>3 DEF RowsPlain
    <2>5. RecordsTypeOK'
      BY <1>0, <1>1, <1>3, <1>5, <2>2 DEF RecordsTypeOK
    <2>6. RowsPlain'
      BY <1>0, <2>2, <2>3 DEF RowsPlain, IsDispute
    <2>7. SubmitsRead'
      BY <1>0, <1>1, <1>3, <2>2, <2>4 DEF SubmitsRead
    <2>8. DisputesRead'
      BY <1>0, <1>3, <2>2 DEF DisputesRead, IsDispute
    <2>9. FiledAgainOnlyByStaleDraft
      BY <1>1, <1>2, <2>3 DEF FiledAgainOnlyByStaleDraft, Writing, id
    <2>10. VerdictsGiveWayToStaleOnes
      BY <2>3 DEF VerdictsGiveWayToStaleOnes
    <2>11. FilingKeepsCard
      BY <2>4 DEF FilingKeepsCard, Filings
    <2>12. DeclarationsStand
      BY <2>2, <2>3, DeclarationsKept
    <2>. QED BY <2>5, <2>6, <2>7, <2>8, <2>9, <2>10, <2>11, <2>12 DEF RecordsInv, RecordsKept
  <1>. QED BY <1>1, <1>4, <1>5

\* A verdict replaces another only when its request read the row before that.
LEMMA DisputeWriteStep ==
  ASSUME RecordsInv, NEW r \in Requests, ResolveWrite(r) \/ WithdrawWrite(r)
  PROVE  RecordsInv' /\ RecordsKept
  <1>0. /\ RecordsTypeOK /\ RowsPlain /\ SubmitsRead /\ DisputesRead
        /\ table \in [Keys -> Row] /\ req[r] \in Request
    BY DEF RecordsInv, RecordsTypeOK
  <1>. DEFINE id == req[r].id
  <1>1. PICK op \in {"resolve", "withdraw"}, s \in {"UPHELD", "OVERTURNED", "WITHDRAWN"} :
          /\ op = "withdraw" => s = "WITHDRAWN"
          /\ req[r].op = op /\ req[r].pc = "write" /\ hitl' = hitl /\ textual' = textual
          /\ \E answer \in {"ok", "error"} : Answer(r, op, id, answer)
          /\ \/ table' = table
             \/ table' = [table EXCEPT ![id].status = s]
    BY DEF ResolveWrite, WithdrawWrite, DisputeWrite
  <1>2. id \in Keys /\ id \in CaseIds /\ IsDispute(id) /\ (op = "resolve" => req[r].read = "OPEN")
    BY <1>0, <1>1 DEF DisputesRead, Request
  <1>3. /\ req' \in [Requests -> Request] /\ req'[r].pc = "done"
        /\ \A q \in Requests \ {r} : req'[q] = req[q]
    BY <1>1, <1>2, AnswerStep
  <1>4. CASE table' = table
    BY <1>1, <1>3, <1>4, ReadStep
  <1>5. CASE table' = [table EXCEPT ![id].status = s]
    <2>. DEFINE row == [table[id] EXCEPT !.status = s]
    <2>1. table[id] \in Row
      BY <1>0, <1>2
    <2>2. row \in Row /\ row.type = "dispute" /\ row.status = s /\ row.case = table[id].case
          /\ row.report = table[id].report /\ s # "DRAFT"
      BY <1>2, <2>1 DEF Row, Final, IsDispute
    <2>3. table' = [table EXCEPT ![id] = row]
      BY <1>5
    <2>. HIDE DEF row, id
    <2>4. RecordsTypeOK'
      BY <1>0, <1>1, <1>3, <2>2, <2>3 DEF RecordsTypeOK
    <2>5. \A k \in Keys : /\ table'[k].type = table[k].type /\ table'[k].case = table[k].case
                          /\ table'[k].report = table[k].report
                          /\ k # id => table'[k] = table[k]
      BY <1>0, <1>2, <2>2, <2>3 DEF IsDispute
    <2>6. table'[id].status = s
      BY <1>0, <1>2, <2>2, <2>3
    <2>7. RowsPlain'
      BY <1>0, <1>2, <2>2, <2>5, <2>6 DEF RowsPlain, IsDispute, Filings
    <2>8. SubmitsRead'
      BY <1>0, <1>1, <1>3, <2>5 DEF SubmitsRead
    <2>9. DisputesRead'
      BY <1>0, <1>3, <2>5 DEF DisputesRead, IsDispute
    <2>10. FiledAgainOnlyByStaleDraft /\ FilingKeepsCard
      BY <1>2, <2>5 DEF FiledAgainOnlyByStaleDraft, FilingKeepsCard, IsDispute
    <2>11. VerdictsGiveWayToStaleOnes
      BY <1>1, <1>2, <2>5, <2>6 DEF VerdictsGiveWayToStaleOnes, Writing, id
    <2>12. DeclarationsStand
      BY <1>2, <2>5, DeclarationsKept DEF IsDispute
    <2>. QED BY <2>4, <2>7, <2>8, <2>9, <2>10, <2>11, <2>12 DEF RecordsInv, RecordsKept
  <1>. QED BY <1>1, <1>4, <1>5

\* Generated reports, declarations and disputes are new rows.
LEMMA GenerateStep ==
  ASSUME RecordsInv, NEW k \in Keys,
         \/ GenerateEUAIActReport(k) \/ GenerateSOC2Package(k)
         \/ SubmitEUAIActDeclaration(k) \/ CreateDispute(k)
  PROVE  RecordsInv' /\ RecordsKept
  <1>1. k \in CaseIds /\ Blank \in Reports
    BY KeysAreCaseIds DEF Blank, Reports, Cards
  <1>2. CASE GenerateEUAIActReport(k)
    <2>1. PICK card \in TransparencyCard :
            Insert(k, "report", k, "DRAFT", [card |-> card, ref |-> NoRef])
      BY <1>2 DEF GenerateEUAIActReport
    <2>2. [card |-> card, ref |-> NoRef] \in Reports
      BY DEF TransparencyCard, Reports, Cards
    <2>. QED BY <1>1, <2>1, <2>2, InsertStep DEF Filings
  <1>3. CASE GenerateSOC2Package(k)
    BY <1>1, <1>3, InsertStep DEF GenerateSOC2Package, Filings
  <1>4. CASE SubmitEUAIActDeclaration(k)
    BY <1>1, <1>4, InsertStep DEF SubmitEUAIActDeclaration, Filings
  <1>5. CASE CreateDispute(k)
    BY <1>1, <1>5, InsertStep DEF CreateDispute, Filings
  <1>. QED BY <1>2, <1>3, <1>4, <1>5

\* Every step keeps the invariant, and what it changes gives way to a stale
\* read only.
LEMMA RecordsStep ==
  ASSUME RecordsInv, [RecordsNext]_recordsVars
  PROVE  RecordsInv' /\ [RecordsKept]_recordsVars
  <1>1. CASE ChangeHitl
    <2>1. RowsPlain' /\ RecordsKept
      BY <1>1, TableStays DEF ChangeHitl
    <2>2. RecordsTypeOK' /\ SubmitsRead' /\ DisputesRead'
      BY <1>1 DEF ChangeHitl, RecordsInv, RecordsTypeOK, SubmitsRead, DisputesRead, IsDispute
    <2>. QED BY <2>1, <2>2 DEF RecordsInv
  <1>2. CASE UNCHANGED recordsVars
    BY <1>2 DEF recordsVars, RecordsInv, RecordsTypeOK, RowsPlain, SubmitsRead, DisputesRead, IsDispute
  <1>. QED BY <1>1, <1>2, GenerateStep, SubmitReadStep, DisputeReadStep, SubmitWriteStep,
           DisputeWriteStep DEF RecordsNext

\* In every state of core_compliance the rows have their types, and a request
\* that goes on to write has read a row that allows it.
THEOREM RecordsInvariant == RecordsSpec => []RecordsInv
  BY RecordsInitInv, RecordsStep, PTL DEF RecordsSpec

\* Filed reports and verdicts give way only to requests that read the row
\* before it became what it is; a card is kept, or blanked where the driver
\* gives no string; a tenant that has filed a declaration is told so by every
\* query that does not fail: for any number of rows, case ids and requests.
THEOREM RecordsGiveWayToStaleReads == RecordsSpec => RecordsStand
  <1>1. RecordsInv /\ [RecordsNext]_recordsVars =>
          [FiledAgainOnlyByStaleDraft /\ VerdictsGiveWayToStaleOnes /\ FilingKeepsCard
             /\ DeclarationsStand]_recordsVars
    BY RecordsStep DEF RecordsKept
  <1>. QED BY <1>1, RecordsInvariant, PTL DEF RecordsSpec, RecordsStand

-----------------------------------------------------------------------------
(* The three together                                                          *)

\* Each component goes through its own behaviours when they share a tenant.
LEMMA CaseworkParts == Spec => FilesSpec /\ GovSpec /\ RecordsSpec
  <1>1. CaseworkInit => FilesInit /\ GovInit /\ RecordsInit
    BY DEF CaseworkInit
  <1>2. [CaseworkNext]_caseworkVars => [FilesNext]_filesVars
    BY DEF CaseworkNext, caseworkVars, filesVars, FilesNext
  <1>3. [CaseworkNext]_caseworkVars => [GovNext]_govVars
    BY DEF CaseworkNext, caseworkVars, govVars, GovNext
  <1>4. [CaseworkNext]_caseworkVars => [RecordsNext]_recordsVars
    BY DEF CaseworkNext, caseworkVars, recordsVars
  <1>. QED BY <1>1, <1>2, <1>3, <1>4, PTL DEF Spec, FilesSpec, GovSpec, RecordsSpec

\* All three keep their types.
THEOREM CaseworkTypeCorrect == Spec => []TypeOK
  <1>1. RecordsInv => RecordsTypeOK
    BY DEF RecordsInv
  <1>. QED BY <1>1, CaseworkParts, FilesTypeCorrect, GovTypeCorrect, RecordsInvariant, PTL DEF TypeOK
=============================================================================
