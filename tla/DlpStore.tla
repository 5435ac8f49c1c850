------------------------------ MODULE DlpStore ------------------------------
(***************************************************************************)
(* Data loss prevention: scans of payloads by the built-in patterns or by  *)
(* a tenant's vendor, and what each pod's DLPStore knows of the processes  *)
(* under monitoring and of the integrations with enterprise products.      *)
(***************************************************************************)
EXTENDS Integers

CONSTANTS Scans, Tenants, Integrations,
          Pids,       \* process ids, as requests and rows give them
          Unreadable, \* the metadata of a row that does not decode
          Stores      \* one DLPStore per pod

ASSUME PidsAreNumbers == Pids \subseteq Int /\ Unreadable \notin Pids

VARIABLES scans,
          registered,   \* dlp_pid_monitor rows in core_compliance
          actions,      \* dlp_pid_monitor rows in core_enforcement_actions
          monitored,    \* monitoredPIDs of each store: no tenant in the key
          loaded,       \* history: what each store took over when it last started
          integrations  \* senti_dlp_integrations

pidVars == <<registered, actions, monitored, loaded>>
dlpVars == <<scans, pidVars, integrations>>

\* piiPatterns and codePatterns; each type stands for those treated alike.
PIITypes == {"ssn", "email", "ip_address"}
CodeTypes == {"private_key", "api_key", "sql_query"}
Providers == {"builtin", "crowdstrike", "azure", "macie"}
Answers == {"matched", "clean", "unreachable", "unreadable"}
Classes == {"PUBLIC", "INTERNAL", "CONFIDENTIAL", "RESTRICTED"}
IntegrationStatuses == {"ACTIVE", "INACTIVE", "SUSPENDED"}

NoScan == [state |-> "none", found |-> {}, provider |-> "builtin", class |-> "PUBLIC",
           block |-> FALSE, alert |-> "none"]

DlpTypeOK ==
  /\ scans \in [Scans -> [state : {"none", "scanned", "refused", "answered"},
                          found : SUBSET (PIITypes \cup CodeTypes), provider : Providers,
                          class : Classes, block : BOOLEAN,
                          alert : {"none", "raised", "lost"}]]
  /\ registered \subseteq Tenants \X Pids
  /\ actions \subseteq Pids \cup {Unreadable}
  /\ monitored \in [Stores -> SUBSET Pids]
  /\ loaded \in [Stores -> SUBSET Pids]
  /\ integrations \in [Integrations -> [status : IntegrationStatuses \cup {"none", "DELETED"},
                                        tenant : Tenants, enabled : BOOLEAN]]

DlpInit ==
  /\ scans = [s \in Scans |-> NoScan]
  /\ registered = {} /\ actions = {}
  /\ monitored = [s \in Stores |-> {}]
  /\ loaded = [s \in Stores |-> {}]
  /\ \E t \in Tenants :
       integrations = [i \in Integrations |-> [status |-> "none", tenant |-> t, enabled |-> FALSE]]

-----------------------------------------------------------------------------
(* Scans *)

classifyDetections(found) ==
  IF found \cap {"ssn", "private_key"} # {} THEN "RESTRICTED"
  ELSE IF found \cap {"email", "api_key"} # {} THEN "CONFIDENTIAL"
  ELSE IF "sql_query" \in found THEN "INTERNAL"
  ELSE "PUBLIC"

scanPayload(found) == [class |-> classifyDetections(found),
                       block |-> classifyDetections(found) = "RESTRICTED"]

\* What a vendor has to say; each error is an answer without violations.
CrowdStrikeScan(answer) == answer = "matched"
AzurePurviewScan(answer) == answer = "matched"
AWSMacieScan(answer) == FALSE

HasViolations(provider, answer) ==
  \/ provider = "crowdstrike" /\ CrowdStrikeScan(answer)
  \/ provider = "azure" /\ AzurePurviewScan(answer)
  \/ provider = "macie" /\ AWSMacieScan(answer)

bridgeDLPResult(provider, answer, found) ==
  IF provider = "builtin" THEN scanPayload(found)
  ELSE [class |-> IF HasViolations(provider, answer) THEN "RESTRICTED" ELSE "PUBLIC",
        block |-> HasViolations(provider, answer)]

StoresUnchanged == UNCHANGED <<pidVars, integrations>>

\* A resolver that fails, or an unknown connector, leaves the built-in scan.
HandleDLPScan(s) ==
  /\ scans[s].state = "none"
  /\ \E found \in SUBSET (PIITypes \cup CodeTypes), provider \in Providers, answer \in Answers :
       LET result == bridgeDLPResult(provider, answer, found)
       IN scans' = [scans EXCEPT ![s] = [state |-> "scanned", found |-> found,
                                         provider |-> provider, class |-> result.class,
                                         block |-> result.block, alert |-> "none"]]
  /\ StoresUnchanged

\* The enforcement row; without it there is no answer.
PersistScan(s) ==
  /\ scans[s].state = "scanned"
  /\ \E state \in {"answered", "refused"} : scans' = [scans EXCEPT ![s].state = state]
  /\ StoresUnchanged

Alarming(s) == scans[s].class \in {"RESTRICTED", "CONFIDENTIAL"}

\* In a goroutine with the context of the request, which the answer cancels.
RaiseAlert(s) ==
  /\ scans[s].state = "answered" /\ scans[s].alert = "none" /\ Alarming(s)
  /\ \E a \in {"raised", "lost"} : scans' = [scans EXCEPT ![s].alert = a]
  /\ StoresUnchanged

ScansNext == \E s \in Scans : HandleDLPScan(s) \/ PersistScan(s) \/ RaiseAlert(s)

-----------------------------------------------------------------------------
(* Monitored processes *)

RegisteredPids == {r[2] : r \in registered}

\* Mutant: the map is written although the row was not.
HandleDLPMonitorPID_MapFirst(s, t, pid) ==
  /\ monitored' = [monitored EXCEPT ![s] = @ \cup {pid}]
  /\ registered' \in {registered, registered \cup {<<t, pid>>}}
  /\ UNCHANGED <<scans, actions, loaded, integrations>>

\* Any number is a PID.  500 when the insert fails, with a row or without one.
HandleDLPMonitorPID(s, t, pid) ==
  /\ registered' = registered \cup {<<t, pid>>}
  /\ monitored' \in {monitored, [monitored EXCEPT ![s] = @ \cup {pid}]}
  /\ UNCHANGED <<scans, actions, loaded, integrations>>

\* The rows of the other table are not this handler's.
EnforcementActionsChange ==
  /\ actions' \in SUBSET (Pids \cup {Unreadable})
  /\ UNCHANGED <<scans, registered, monitored, loaded, integrations>>

\* At the start of a pod, for all tenants, from the other table; what does not
\* decode and what is no positive number is passed over.  An error is not even
\* logged.
LoadFromDB(s) ==
  /\ \E pids \in {{pid \in actions \cap Pids : pid > 0}, {}} :
       /\ loaded' = [loaded EXCEPT ![s] = pids]
       /\ monitored' = [monitored EXCEPT ![s] = pids]
  /\ UNCHANGED <<scans, registered, actions, integrations>>

-----------------------------------------------------------------------------
(* Integrations *)

SetIntegration(i, row) == /\ integrations' = [integrations EXCEPT ![i] = row]
                          /\ UNCHANGED <<scans, pidVars>>

\* What ocx-core-svc lists for a tenant.
Listed(t) == {i \in Integrations : integrations[i].tenant = t
                                   /\ integrations[i].status \notin {"none", "DELETED"}}

\* Mutant: a new integration waits for approval.
HandleCreateDLPIntegration_Pending(i) ==
  /\ integrations[i].status = "none"
  /\ \E t \in Tenants : SetIntegration(i, [status |-> "PENDING", tenant |-> t, enabled |-> TRUE])

HandleCreateDLPIntegration(i) ==
  /\ integrations[i].status = "none"
  /\ \E t \in Tenants : SetIntegration(i, [status |-> "ACTIVE", tenant |-> t, enabled |-> TRUE])

\* The tenant must have an integration, not this one.
HandleDeleteDLPIntegration(t, i) ==
  /\ Listed(t) # {}
  /\ integrations[i].tenant = t /\ integrations[i].status # "none"
  /\ SetIntegration(i, [integrations[i] EXCEPT !.status = "DELETED"])

\* Written to the table, not through ocx-core-svc: also what was deleted.
HandleUpdateDLPIntegration(t, i) ==
  /\ integrations[i].tenant = t /\ integrations[i].status # "none"
  /\ \E status \in IntegrationStatuses \cup {integrations[i].status}, enabled \in BOOLEAN :
       SetIntegration(i, [integrations[i] EXCEPT !.status = status, !.enabled = enabled])

\* enforcement_mode of HandleDLPStatus; what cannot be listed counts as none.
Enforcing(s, t) == \/ \E i \in Listed(t) : integrations[i].enabled
                   \/ monitored[s] # {}

StoresNext ==
  \/ EnforcementActionsChange
  \/ \E s \in Stores : LoadFromDB(s)
  \/ \E s \in Stores, t \in Tenants, pid \in Pids : HandleDLPMonitorPID(s, t, pid)
  \/ \E i \in Integrations :
       \/ HandleCreateDLPIntegration(i)
       \/ \E t \in Tenants : HandleDeleteDLPIntegration(t, i) \/ HandleUpdateDLPIntegration(t, i)

DlpNext == ScansNext \/ StoresNext
DlpSpec == DlpInit /\ [][DlpNext]_dlpVars

-----------------------------------------------------------------------------
(* Properties *)

Sensitivity == [d \in PIITypes \cup CodeTypes |->
                  CASE d \in {"ssn", "private_key"} -> 3 [] d \in {"email", "api_key"} -> 2
                    [] d = "sql_query" -> 1 [] d = "ip_address" -> 0]
Rank == [c \in Classes |-> CASE c = "RESTRICTED" -> 3 [] c = "CONFIDENTIAL" -> 2
                             [] c = "INTERNAL" -> 1 [] c = "PUBLIC" -> 0]

\* The built-in scan never answers below its most sensitive finding, and
\* blocks the most sensitive ones; what passes otherwise, passed by a vendor
\* that reported nothing or could not be asked.
UnderratedOnlyByVendor ==
  \A s \in Scans : scans[s].state # "none" /\ scans[s].provider = "builtin" =>
    \A d \in scans[s].found : /\ Sensitivity[d] <= Rank[scans[s].class]
                              /\ Sensitivity[d] = 3 => scans[s].block

\* "RESTRICTED or CONFIDENTIAL content fires a senti_alerts row": every alert
\* can be traced to a persisted scan of such content.
AlertHasScan ==
  \A s \in Scans : scans[s].alert = "raised" => scans[s].state = "answered" /\ Alarming(s)

\* What a store reports as monitored was registered over the API, with a row in
\* core_compliance, or stood in core_enforcement_actions when the store started.
MonitoredHasRow ==
  \A s \in Stores : monitored[s] \subseteq RegisteredPids \cup loaded[s]

\* Enforcement is reported only for an enabled integration of the tenant or a
\* process that has a row, not necessarily one of this tenant.
EnforcementHasCause ==
  \A s \in Stores, t \in Tenants : Enforcing(s, t) =>
    \/ registered # {} \/ loaded[s] # {}
    \/ \E i \in Integrations : /\ integrations[i].tenant = t /\ integrations[i].enabled
                               /\ integrations[i].status \in IntegrationStatuses

\* What the service answers about scans, alerts, processes and enforcement has
\* the causes that the four above name.
DlpTraced == UnderratedOnlyByVendor /\ AlertHasScan /\ MonitoredHasRow /\ EnforcementHasCause
=============================================================================
