-------------------------- MODULE ComplianceReports --------------------------
(***************************************************************************)
(* Compliance reports of one tenant, rows of nexus_compliance_reports: the *)
(* daily generator, the handlers that write reports and their schedules,   *)
(* and the worker of every pod that mails the reports that are due.        *)
(*                                                                         *)
(* The worker takes its list once per cycle, mails, and marks each report  *)
(* afterwards, whatever became of the row or of the mail.                  *)
(***************************************************************************)
EXTENDS Integers

CONSTANTS Reports, Pods,
          Hours,        \* frequencies a schedule may state
          Default,      \* the frequency of a schedule that states none
          MaxHour,      \* bound on the clock
          MaxExcuses    \* bound on the failures and overlaps of one report

ASSUME HoursAssumption == Hours \cup {Default} \subseteq Nat \ {0}
ASSUME ReportBounds == MaxHour \in Nat /\ MaxExcuses \in Nat

VARIABLES reports, hour,
          cycle,    \* the cycle of each pod's worker
          mails,    \* history of the scheduled mails of each report
          issued    \* the last report on a standard

reportsVars == <<reports, hour, cycle, mails, issued>>

\* oneof= of the two update handlers
Updatable == {"PENDING", "RUNNING", "COMPLETED", "FAILED", "CANCELLED"}
Statuses == Updatable \cup {"none", "default", "READY", "ARCHIVED", "PASS", "WARNING", "FAIL"}
\* schedule_config: "useless" has the wrong form or names nobody
Schedules == {"none", "useless", "usable"}
Frequencies == Hours \cup {Default}
Items == [report : Reports, every : Frequencies]

\* What a report on a standard is computed from: PERMIT verdicts, decided HITL
\* cases, and agents found by the proxy, -1 when their query failed.
Summaries == [permits : {0, 19, 20, 45}, decided : 0..2, shadow : -1..1]

ReportsTypeOK ==
  /\ reports \in [Reports -> [status : Statuses, schedule : Schedules, every : Frequencies,
                              due : Nat, listed : BOOLEAN]]
  /\ hour \in 0..MaxHour
  /\ cycle \in [Pods -> [phase : {"idle", "sending", "marking"}, at : 0..MaxHour,
                         todo : SUBSET Items, item : Items]]
  /\ mails \in [Reports -> [owed : Nat, early : Nat, excuses : 0..MaxExcuses]]
  /\ issued \in [summary : Summaries, status : {"none", "PASS", "WARNING", "FAIL"}]

ReportsInit ==
  /\ reports = [r \in Reports |-> [status |-> "none", schedule |-> "none", every |-> Default,
                                   due |-> 0, listed |-> TRUE]]
  /\ hour = 0
  /\ \E r \in Reports :
       cycle = [p \in Pods |-> [phase |-> "idle", at |-> 0, todo |-> {},
                                item |-> [report |-> r, every |-> Default]]]
  /\ mails = [r \in Reports |-> [owed |-> 0, early |-> 0, excuses |-> 0]]
  /\ issued = [summary |-> [permits |-> 0, decided |-> 0, shadow |-> 0], status |-> "none"]

-----------------------------------------------------------------------------
(* Rows *)

Insert(r, status) ==
  /\ reports[r].status = "none"
  /\ reports' = [reports EXCEPT ![r].status = status]
  /\ UNCHANGED <<hour, cycle, mails>>

\* One per tenant at every start and every interval of every pod; counts that
\* cannot be read are zero, and nothing looks for the report of another pod.
generateTenantReport(r) == Insert(r, "READY") /\ UNCHANGED issued
CreateReport(r) == Insert(r, "default") /\ UNCHANGED issued
CreateComplianceReport(r) == Insert(r, "PENDING") /\ UNCHANGED issued

\* A tenth of the permits counts as financial, half of those need a decision.
FinancialPassed(s) == s.decided >= (s.permits \div 10) \div 2

overallStatus(s) == CASE ~FinancialPassed(s) -> "FAIL"
                      [] FinancialPassed(s) /\ s.shadow > 0 -> "WARNING"
                      [] OTHER -> "PASS"

\* The sections of a SOX report that do not say PASS.
FailedSections(s) == {x \in {"inventory", "thresholds"} :
                        IF x = "inventory" THEN s.shadow # 0 ELSE ~FinancialPassed(s)}

\* Answered whether or not the row could be inserted; a query of cases or
\* verdicts that fails aborts it.
GetRegulatoryComplianceReport(r) ==
  \E s \in Summaries :
    /\ \/ Insert(r, overallStatus(s))
       \/ UNCHANGED <<reports, hour, cycle, mails>>
    /\ issued' = [summary |-> s, status |-> overallStatus(s)]

Write(r, row) ==
  /\ reports[r].status # "none" /\ reports[r].listed
  /\ reports' = [reports EXCEPT ![r] = row]
  /\ UNCHANGED <<hour, cycle, mails, issued>>

UpdateReport(r) ==
  \E s \in Updatable \cup {reports[r].status}, c \in Schedules, e \in Frequencies :
    Write(r, [reports[r] EXCEPT !.status = s, !.schedule = c, !.every = e])

UpdateComplianceReport(r) == \E s \in Updatable : Write(r, [reports[r] EXCEPT !.status = s])
DeleteReport(r) == Write(r, [reports[r] EXCEPT !.listed = FALSE])
DeleteComplianceReport(r) == Write(r, [reports[r] EXCEPT !.status = "ARCHIVED"])
\* Nothing takes up a RUNNING report.
ExecuteComplianceReport(r) == Write(r, [reports[r] EXCEPT !.status = "RUNNING"])
\* It states no frequency, and it may name nobody.
ScheduleReport(r) == \E c \in {"useless", "usable"} :
  Write(r, [reports[r] EXCEPT !.schedule = c, !.every = Default])
\* schedule_cron and notify_emails: columns that the worker does not read.
ScheduleComplianceReport(r) == Write(r, reports[r])
\* The mail goes out at once and moves no due time.
DeliverComplianceReport(r) == reports[r].schedule = "usable" /\ Write(r, reports[r])

-----------------------------------------------------------------------------
(* The delivery worker *)

Tick == /\ hour < MaxHour
        /\ hour' = hour + 1
        /\ UNCHANGED <<reports, cycle, mails, issued>>

Mailable(r) == reports[r].status = "READY" /\ reports[r].schedule = "usable" /\ reports[r].listed
\* Mutant: next_delivery_at is not looked at.
Due_Always(r) == Mailable(r)
Due(r) == Mailable(r) /\ reports[r].due <= hour

Underway(p, r) ==
  \/ \E i \in cycle[p].todo : i.report = r
  \/ cycle[p].phase = "marking" /\ cycle[p].item.report = r

Excuse(r) == mails[r].excuses < MaxExcuses /\ mails' = [mails EXCEPT ![r].excuses = @ + 1]

runScheduledDeliveryCycle(p) ==
  LET list == {r \in Reports : Due(r)}
      shared == {r \in list : \E q \in Pods \ {p} : Underway(q, r)}
  IN /\ cycle[p].phase = "idle" /\ list # {}
     /\ \A r \in shared : mails[r].excuses < MaxExcuses
     /\ cycle' = [cycle EXCEPT ![p] = [@ EXCEPT !.phase = "sending", !.at = hour,
                                                !.todo = {[report |-> r, every |-> reports[r].every] : r \in list}]]
     /\ mails' = [r \in Reports |-> IF r \in shared
                    THEN [mails[r] EXCEPT !.excuses = @ + 1] ELSE mails[r]]
     /\ UNCHANGED <<reports, hour, issued>>

\* Without a mail server, or when every recipient refuses, it returns no error
\* either.  History counts a mail that comes before it is owed.
deliverScheduledReport(p) ==
  /\ cycle[p].phase = "sending"
  /\ \E i \in cycle[p].todo, sent \in BOOLEAN :
       /\ cycle' = [cycle EXCEPT ![p] = [cycle[p] EXCEPT !.phase = "marking", !.item = i,
                                                         !.todo = @ \ {i}]]
       /\ mails' = IF ~sent THEN mails ELSE [mails EXCEPT ![i.report] = [mails[i.report] EXCEPT
            !.early = @ + (IF cycle[p].at < mails[i.report].owed THEN 1 ELSE 0),
            !.owed = cycle[p].at + i.every]]
  /\ UNCHANGED <<reports, hour, issued>>

NextPhase(p) == IF cycle[p].todo = {} THEN "idle" ELSE "sending"

MarkSent(p) ==
  /\ cycle[p].phase = "marking"
  /\ LET r == cycle[p].item.report
         next == cycle[p].at + cycle[p].item.every
     IN \/ /\ reports' = [reports EXCEPT ![r].due = next]
           /\ IF next < reports[r].due THEN Excuse(r) ELSE UNCHANGED mails
        \/ Excuse(r) /\ UNCHANGED reports
  /\ cycle' = [cycle EXCEPT ![p].phase = NextPhase(p)]
  /\ UNCHANGED <<hour, issued>>

\* The context is cancelled, or the pod is killed.
WorkerStops(p) ==
  /\ cycle[p].phase # "idle"
  /\ IF cycle[p].phase = "marking" THEN Excuse(cycle[p].item.report) ELSE UNCHANGED mails
  /\ cycle' = [cycle EXCEPT ![p] = [@ EXCEPT !.phase = "idle", !.todo = {}]]
  /\ UNCHANGED <<reports, hour, issued>>

ReportsNext ==
  \/ Tick
  \/ \E r \in Reports :
       \/ generateTenantReport(r) \/ CreateReport(r) \/ CreateComplianceReport(r)
       \/ UpdateReport(r) \/ UpdateComplianceReport(r)
       \/ DeleteReport(r) \/ DeleteComplianceReport(r) \/ ExecuteComplianceReport(r)
       \/ ScheduleReport(r) \/ ScheduleComplianceReport(r) \/ DeliverComplianceReport(r)
  \/ \E p \in Pods : \/ runScheduledDeliveryCycle(p) \/ deliverScheduledReport(p)
                     \/ MarkSent(p) \/ WorkerStops(p)

StandardsNext == \E r \in Reports : GetRegulatoryComplianceReport(r) \/ DeleteReport(r)

ReportsSpec == ReportsInit /\ [][ReportsNext \/ StandardsNext]_reportsVars

-----------------------------------------------------------------------------
(* Properties *)

\* "duplicate delivery risk": a scheduled mail that comes before its time has
\* its own overlap of two pods, lost mark, or mark that put the time back.
RepeatsAreExcused == \A r \in Reports : mails[r].early <= mails[r].excuses

\* What the worker mails was made by the generator: a report that was archived,
\* executed or updated never returns to the worker's list.
ReadyOnlyFromGenerator ==
  \A r \in Reports : reports'[r].status = "READY" => reports[r].status \in {"none", "READY"}

\* A SOX report that passes has a failed section only where the number of shadow
\* agents is unknown, and from 20 permits on it had a human decision.
PassIsEarned ==
  issued.status = "PASS" =>
    /\ FailedSections(issued.summary) = {} \/ issued.summary.shadow = -1
    /\ issued.summary.permits >= 20 => issued.summary.decided > 0

\* Mails and verdicts on reports come about as the three above say.
ReportsAreEarned == [][ReadyOnlyFromGenerator /\ RepeatsAreExcused' /\ PassIsEarned']_reportsVars
=============================================================================
