-------------------------- MODULE ComplianceRecords --------------------------
(***************************************************************************)
(* Rows of core_compliance: disputes, EU AI Act reports and declarations,  *)
(* SOC2 evidence packages.  They share one table and its column case_id,   *)
(* which a dispute fills with the case it is about, and the handlers that  *)
(* change a row read it first and write later, whatever it has become.     *)
(***************************************************************************)
EXTENDS Naturals

CONSTANTS Keys,      \* ids of rows
          CaseIds,     \* values of case_id
          Requests,
          Refs,      \* notified body references a filing may carry
          NoRef

ASSUME KeysAreCaseIds == Keys \subseteq CaseIds
ASSUME NoRefNew == NoRef \notin Refs

VARIABLES table,     \* core_compliance
          hitl,      \* the tenant decides with humans in the loop
          textual,   \* the driver gives case_data as a string, not as a value
          req        \* requests that change a row

recordsVars == <<table, hitl, textual, req>>

\* A card is the risk class it states; "blank" is the report of a row whose
\* case_data has none, or cannot be read.
Cards == {"HIGH_RISK", "GENERAL_PURPOSE", "blank"}
Reports == [card : Cards, ref : Refs \cup {NoRef}]
Blank == [card |-> "blank", ref |-> NoRef]

Final == {"UPHELD", "OVERTURNED", "WITHDRAWN", "FILED"}
Row == [type : {"none", "report", "package", "declaration", "dispute"},
        case : CaseIds, status : {"none", "DRAFT", "OPEN"} \cup Final, report : Reports]
Request == [op : {"none", "submit", "resolve", "withdraw"}, pc : {"new", "write", "done"},
            id : CaseIds, read : {"none", "DRAFT", "OPEN"} \cup Final, report : Reports,
            answer : {"none", "ok", "missing", "refused", "error"}]

RecordsTypeOK == /\ table \in [Keys -> Row] /\ req \in [Requests -> Request]
                 /\ {hitl, textual} \subseteq BOOLEAN

RecordsInit ==
  /\ hitl \in BOOLEAN /\ textual \in BOOLEAN
  /\ \E c \in CaseIds :
       /\ table = [k \in Keys |-> [type |-> "none", case |-> c,
                                   status |-> "none", report |-> Blank]]
       /\ req = [r \in Requests |-> [op |-> "none", pc |-> "new", id |-> c,
                   read |-> "none", report |-> Blank, answer |-> "none"]]

Exists(k) == table[k].type # "none"
WithCase(c) == {k \in Keys : Exists(k) /\ table[k].case = c}

Insert(k, type, c, status, report) ==
  /\ ~Exists(k)
  /\ table' = [table EXCEPT ![k] = [type |-> type, case |-> c,
                                    status |-> status, report |-> report]]
  /\ UNCHANGED <<hitl, textual, req>>

\* Without telemetry the card is built from zero counts.
TransparencyCard == {IF hitl THEN "HIGH_RISK" ELSE "GENERAL_PURPOSE", "GENERAL_PURPOSE"}

GenerateEUAIActReport(k) ==
  \E card \in TransparencyCard :
    Insert(k, "report", k, "DRAFT", [card |-> card, ref |-> NoRef])
GenerateSOC2Package(k) == Insert(k, "package", k, "DRAFT", Blank)
SubmitEUAIActDeclaration(k) == Insert(k, "declaration", k, "FILED", Blank)
CreateDispute(k) == \E c \in CaseIds : Insert(k, "dispute", c, "OPEN", Blank)

Answer(r, op, id, answer) ==
  req' = [req EXCEPT ![r] = [@ EXCEPT !.op = op, !.pc = "done", !.id = id, !.answer = answer]]

\* The request has read `row` and goes on to write.
GoOn(r, op, id, row, report) ==
  req' = [req EXCEPT ![r] = [@ EXCEPT !.op = op, !.pc = "write", !.id = id,
                                      !.read = row.status, !.report = report]]

\* What the assertion on case_data lets through, with its errors dropped.
Decoded(k) == IF textual THEN table[k].report ELSE Blank

\* Mutant: a report that was filed is filed again.
SubmitRead_AnyStatus(r, c) ==
  /\ req[r].pc = "new"
  /\ \/ Answer(r, "submit", c, "error")
     \/ WithCase(c) = {} /\ Answer(r, "submit", c, "missing")
     \/ \E k \in WithCase(c), ref \in Refs :
          GoOn(r, "submit", c, table[k], [Decoded(k) EXCEPT !.ref = ref])
  /\ UNCHANGED <<table, hitl, textual>>

\* The rows of a query come in no order: the first may be any of them.
SubmitRead(r, c) ==
  /\ req[r].pc = "new"
  /\ \/ Answer(r, "submit", c, "error")
     \/ WithCase(c) = {} /\ Answer(r, "submit", c, "missing")
     \/ \E k \in WithCase(c) :
          /\ table[k].status # "DRAFT"
          /\ Answer(r, "submit", c, "refused")
     \/ \E k \in WithCase(c), ref \in Refs :
          /\ table[k].status = "DRAFT"
          /\ GoOn(r, "submit", c, table[k], [Decoded(k) EXCEPT !.ref = ref])
  /\ UNCHANGED <<table, hitl, textual>>

\* Every row of the tenant with that case_id is updated, unless an error comes
\* first.
SubmitWrite(r) ==
  /\ req[r].op = "submit" /\ req[r].pc = "write"
  /\ \/ /\ table' = [k \in Keys |->
                       IF k \in WithCase(req[r].id)
                       THEN [table[k] EXCEPT !.status = "FILED", !.report = req[r].report]
                       ELSE table[k]]
        /\ \E answer \in {"ok", "error"} : Answer(r, "submit", req[r].id, answer)
     \/ Answer(r, "submit", req[r].id, "error") /\ UNCHANGED table
  /\ UNCHANGED <<hitl, textual>>

IsDispute(k) == table[k].type = "dispute"

\* A query that fails finds no dispute.
ResolveRead(r, k) ==
  /\ req[r].pc = "new"
  /\ \/ Answer(r, "resolve", k, "missing")
     \/ IsDispute(k) /\ table[k].status # "OPEN" /\ Answer(r, "resolve", k, "refused")
     \/ IsDispute(k) /\ table[k].status = "OPEN" /\ GoOn(r, "resolve", k, table[k], Blank)
  /\ UNCHANGED <<table, hitl, textual>>

\* A dispute is withdrawn whatever its status.
WithdrawRead(r, k) ==
  /\ req[r].pc = "new"
  /\ \/ Answer(r, "withdraw", k, "missing")
     \/ IsDispute(k) /\ GoOn(r, "withdraw", k, table[k], Blank)
  /\ UNCHANGED <<table, hitl, textual>>

DisputeWrite(r, op, statuses) ==
  /\ req[r].op = op /\ req[r].pc = "write"
  /\ \/ /\ \E s \in statuses : table' = [table EXCEPT ![req[r].id].status = s]
        /\ \E answer \in {"ok", "error"} : Answer(r, op, req[r].id, answer)
     \/ Answer(r, op, req[r].id, "error") /\ UNCHANGED table
  /\ UNCHANGED <<hitl, textual>>

ResolveWrite(r) == DisputeWrite(r, "resolve", {"UPHELD", "OVERTURNED"})
WithdrawWrite(r) == DisputeWrite(r, "withdraw", {"WITHDRAWN"})

ChangeHitl == hitl' = ~hitl /\ UNCHANGED <<table, textual, req>>

RecordsNext ==
  \/ ChangeHitl
  \/ \E k \in Keys : \/ GenerateEUAIActReport(k) \/ GenerateSOC2Package(k)
                     \/ SubmitEUAIActDeclaration(k) \/ CreateDispute(k)
  \/ \E r \in Requests : \/ \E c \in CaseIds : SubmitRead(r, c)
                         \/ \E k \in Keys : ResolveRead(r, k) \/ WithdrawRead(r, k)
                         \/ SubmitWrite(r) \/ ResolveWrite(r) \/ WithdrawWrite(r)

RecordsSpec == RecordsInit /\ [][RecordsNext]_recordsVars

-----------------------------------------------------------------------------
(* Properties *)

Writing(r, op, id) == req[r].op = op /\ req[r].pc = "write" /\ req[r].id = id

\* A filed report is filed again only by a submission that read it, or another
\* row with its case_id, as a draft.
FiledAgainOnlyByStaleDraft ==
  \A k \in Keys :
    table[k].status = "FILED" /\ table'[k] # table[k] /\ ~IsDispute(k) =>
      \E r \in Requests : Writing(r, "submit", table[k].case) /\ req[r].read = "DRAFT"

\* The verdict of a dispute gives way to another one only if two resolutions
\* read it open; a withdrawal, and the filing of a report that has the disputed
\* case for its id, override it.
VerdictsGiveWayToStaleOnes ==
  \A k \in Keys :
    IsDispute(k) /\ table[k].status \in Final /\ table'[k].status # table[k].status =>
      \/ table'[k].status \in {"WITHDRAWN", "FILED"}
      \/ \E r \in Requests : Writing(r, "resolve", k) /\ req[r].read = "OPEN"

\* A filing keeps the card a report was generated with, though the look-up may
\* return another row with its id; where case_data is no string it blanks it.
FilingKeepsCard ==
  \A k \in Keys : table[k].type = "report" /\ table'[k].report.card # table[k].report.card =>
    ~textual /\ table'[k].report.card = "blank"

\* GET .../transparency/status: the answers the rows of the tenant allow; a
\* query that fails finds none.
DeclarationStatus(failed) ==
  LET filed == {k \in Keys : table[k].type = "declaration"} IN
  IF failed \/ filed = {} THEN {"NOT_FILED"} ELSE {table[k].status : k \in filed}

\* A tenant that has filed a declaration is told so by every query that does
\* not fail, whatever happens to the other rows that share its id.
DeclarationsStand == DeclarationStatus(FALSE) = {"FILED"} => DeclarationStatus(FALSE)' = {"FILED"}

\* Filed reports, verdicts and declarations share a table and ids, and give way
\* only as the four above say.
RecordsStand ==
  [][FiledAgainOnlyByStaleDraft /\ VerdictsGiveWayToStaleOnes /\ FilingKeepsCard
       /\ DeclarationsStand]_recordsVars

\* "DRAFT -> FILED (immutable)": a filed report never changes.
FiledIsImmutable ==
  [][\A k \in Keys : table[k].type = "report" /\ table[k].status = "FILED" =>
       table'[k] = table[k]]_recordsVars
=============================================================================
