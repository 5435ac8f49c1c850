# Verification of the AOCS compliance service

The service is a Go HTTP server (`src/cmd/aocs-compliance`) over PostgreSQL, reached through the
`database.DB` interface of `ocx/shared`, with event consumers and a few background workers. Several
replicas run at once (`src/deployments/cloudrun`). It keeps little state in memory: what is hard about
it is what concurrent requests, workers, replicas and redelivered events do to the same rows, between a
read and the write that relies on it, and what a goroutine still does after its request was answered. The
models here are about that.

Paths below are relative to `src/internal/compliance` unless they start with `src/`.

## 1. Inventory

| Part | State | Operations | Talks to | What is hard | What makes it correct |
|---|---|---|---|---|---|
| HITL cases (`handlers/compliance/cases.go`, `export.go`, `case_reassignment.go`, `hitl_bulk_resolve.go`, `department_overflow.go`) | rows of `core_hitl` (status, department, `context_data`, `decision_data`), rows of `core_hitl_votes`, HITL_VERDICT events | create, arbitrate, jury vote, assign, reassign, bulk resolve, overflow, deletion guard, merge | `ocx-core-svc` (PatchHITLCase, PostEvent), PostgreSQL row locks | nine routes write the same row, two of them under a lock; the audit event is posted after the answer | a decision is made once and over an open case, ballots are unique and all counted, the audit trail says what the row says |
| Case lifecycle (`case_lifecycle.go`, `escalation.go`, `department_routing.go`) | status, lifecycle events, `dedup_key`, `recusal_log` | create with deduplication key, transition, escalate, reject juror | `ocx-core-svc` | row, two events and alert are separate calls, each may fail or lose its answer | an alert leads to its case, the events of a case form a chain |
| Jury bridge (`domain/compliance/pubsub_consumer.go`, `jury_client.go`, `contracts_adapter.go`) | circuit breaker, messages in flight | receive, forward, ack or nack | jury service (gRPC), Pub/Sub | redelivery, a breaker shared by goroutines, a verdict made up when the call fails | no decision is acknowledged untried, a breaker that opens when it should |
| Evidence vault (`handlers/evidence/evidence.go`, `handlers/reports/evidence_update_delete.go`, `evidence_report.go`) | hash-chained rows of `core_evidence_records` | create, get, list, verify, attest, update, delete | PostgreSQL | the previous hash is read before the insert; two hash schemes | one chain, every change shows, nothing changes after attestation |
| Evidence ledger (`grpc/ledger_server.go`, `domain/compliance/ledger_consumer.go`) | rows of `core_evidence` (gRPC) and of `core_evidence_records`, the table of the vault (stream consumer) | record, verify, consume | gRPC, Pub/Sub | any error of the insert leads to an update, which fails on its own; redelivery | what was accepted can be verified, nothing accepted is missing |
| ZKP challenges and proofs (`handlers/zkp/verifier.go`, `proofs.go`) | challenges in memory or in Redis, rows of `shar_zkp_verify` | issue, verify, persist | Redis, PostgreSQL | the mutex is of one pod; Get and Del of Redis are two calls; persistence is a goroutine | a challenge is used once |
| ZKP batches and proof chains (`zkp_batch.go`, `zkp_proof_chain.go`, `handlers/zkp/generate.go`) | jobs, linked proofs, Merkle root | enqueue, process, generate, link | PostgreSQL | every replica polls; a failure leaves a job half done; equal time stamps | a job is finished or its worker failed, a chain does not fork unseen |
| Propagation (`propagation/*.go`) | vault and baseline rows, processed event ids | tenant and agent created, status changed, deleted | event tables of other rings | at least once, out of order, partly failed | nothing acknowledged without its row, nothing resurrected |
| Disputes and investigation cases (`disputes.go`, `compliance_cases_crud.go`, `score.go`) | disputes in `core_compliance`, cases with comments in a JSON column, `core_enforcement_actions` | open, resolve, withdraw; create, assign, comment; status routes, escalate, bulk | PostgreSQL | check then update, read-modify-write, one table for six types of actions | a verdict stands, nothing that was said is lost, an escalation stays |
| Regulatory reports (`handlers/regulatory/eu_ai_act_report.go`, `eu_ai_act.go`, `handlers/evidence/soc2_evidence.go`) | reports and declarations in `core_compliance`, the table and `case_id` of the disputes | generate, submit, declare | PostgreSQL | the draft is read first, then every row with the id is updated | a report is filed once, a declaration stands |
| Reports and their delivery (`report_worker.go`, `scheduled_delivery_worker.go`, `handlers/reports/compliance_delivery.go`, `compliance_report.go`, `report_export.go`, `summary.go`) | report rows, schedule, next delivery | generate, update, schedule, execute, deliver | SMTP | mailed and then marked; every replica has a worker | mailed once per period, a pass that was earned |
| Governance (`handlers/gra/*.go`) | proposals, rounds, votes, peers and consents, policies and bindings | propose, vote, connect, create and bind | PostgreSQL | second rows are written by goroutines after the answer | rows that belong together exist together |
| Data loss prevention (`handlers/security/dlp*.go`, `data_protection.go`, `dlp_findings.go`) | monitored processes in memory and in the database, integrations, findings in `core_audit` | scan, alert, monitor, configure, update and archive findings | outside scanners | memory and database diverge; a vendor that cannot be asked; metadata written back whole | what is reported has a cause |
| Document sources and connectors (`handlers/reports/drive_sync.go`, `resource_graph.go`, `resource_relationships.go`) | rows of `core_tenant_docs`, status of connectors, draft policies | sync a drive, extract a source | drives, APE service | overlapping listings; a goroutine that works with the context of an answered request | status, documents and drafts agree |
| Resource graph (`handlers/reports/resource_graph*.go`, `resource_relationships.go`) | rows of `core_policies`, node and edge tables, supervisor of the worker | assemble, bind, unbind, scan, snapshot | PostgreSQL | parallel reads; object ids cut to eight digits | what is missing from a graph is explained |
| Signing keys (`handlers/admin/rotate_signing_key.go`) | active key per tenant | rotate | `RotateSigningKey` of `ocx/shared` | - | one active key |
| Dashboards, analytics, CRUD of tables (the other files of `handlers/reports`, `case_comments.go`) | none of their own | reads, single-row writes | PostgreSQL | lost updates | nothing that takes two steps |
| Outside adapters (content safety, threat intelligence, local entropy scorer, sybil worker) | none, or statistics | call and record | HTTP services | failure of the call | the answer on failure |

`src/cmd/aocs-compliance/main.go` starts the pool of batch workers, the report generator, the sybil worker,
the consumers of Ring 0 and of Pub/Sub and the DLP store. It starts neither the jury consumer nor the
ledger server and consumer, nor the delivery worker of scheduled reports, nor the worker of the
resource graph, nor `zkp_worker.go`: these are modelled (the last one is not) as the code they are, for
the day they are started. Of the resource graph only the snapshot is routed here; extraction, syncs, the live graph
and the bindings are exported handlers, and `TransitionCase` has no caller in this repository. The broker of
`HandleCreateCase` is nil here, so CASE_CREATED is never published.

Things seen while modelling that a reader of the code may want to know, none of them a run's subject:
`/hitl/jurors/{member_id}/recuse` never passes the id that `HandleRejectJuror` asks for; `dedup_key` is
never given back, so a cause has one case for ever; `HandleUnbindPolicy` reads the policy id and ends
all bindings of the agent; `HandleCreateImportSource` writes neither the id nor the reference that an
extraction looks for; a process under monitoring is inserted in `core_compliance` (`dlp.go` 314) and
looked for in `core_enforcement_actions` when a pod starts (`data_protection.go` 59, 70), so that it does
not survive a restart although the comment there says it does; `HandleDeleteEvidence` tests a
column its query does not select.

`PROJECT.json` lists the same parts with their files and how far each is modelled.

## 2. Plan

The order is by what matters most to the service.

| Step | Modules | State |
|---|---|---|
| Decisions on a case | `JuryPanel`, `HitlCase`, `HitlCaseProofs` | done, proved |
| Hash chain and its checks | `EvidenceVault`, `EvidenceVaultProofs` | done, proved |
| Events of other rings | `Propagation`, `PropagationProofs` | done, proved |
| Use of challenges, with its abstract specification | `ChallengeUse`, `ZkpVerifier`, `ZkpVerifierProofs` | done, refinement checked and proved |
| Held decisions and the jury | `JuryBridge`, `JuryBridgeProofs` | done, proved |
| Case files, governance, records of `core_compliance` | `CaseFiles`, `Governance`, `ComplianceRecords`, `CaseworkProofs` | done, proved |
| Reports, DLP, ledger and batches | `ComplianceReports`, `DlpStore`, `EvidenceLedger`, `BackgroundProofs` | done, proved |
| Documents, graph, lifecycle of a case | `DocumentSources`, `ResourceGraph`, `CaseLifecycle`, `StoresProofs` | done, proved |

Every safety and action property of a passing run is now proved. Left: two message ids for one event (the
outbox and Pub/Sub) in `Propagation`, with `HandledWasSeeded` proved again; the recusal log, once its route passes
the id of a case; a statement of the jury's outcome for traffic that mixes ballots with verdicts, if
the code comes to keep the two apart.

## 3. Modules

### JuryPanel

The arithmetic of `HandleCasesSubmitJuryVote` (`export.go` 204-271): the quorum setting is raised to
the floor and to an odd number, all ballots count in the denominator, more than 65 % decide, and a
complete panel without a supermajority is deadlocked (ESCALATED). Ballots are a function from
reviewers to decisions; comparing `float64(n)/float64(total) > 0.65` is comparing `100 n > 65 total`
for the small integers involved.

### HitlCase

| TLA+ | Code |
|---|---|
| `hitl[c]` | the row of `core_hitl` with `decision_id` c: `status`, `department_id`, the keys of `context_data` grouped by who writes them, and the ballots and quorum kept in `decision_data` |
| `ballots[c]` | committed rows of `core_hitl_votes` (unique per case and voter) |
| `req[w]` | one request in flight, with its program counter and what it has read |
| `verdictLog` | HITL_VERDICT events posted to the core service |
| `pc = "locked"` | the request is inside a transaction that has read the row FOR UPDATE; `RowFree` makes other writers wait |
| `Write(c, row)` | `UpdateRowCompound`, or `PatchHITLCase` |

Each handler is one action per transaction or remote call: `Arbitrate*` (HandleResolveCase),
`Vote*` (HandleCasesSubmitJuryVote), `Assign*` (HandleAssignCase), `Reassign*`
(HandleReassignCase), `Bulk*` (HandleResolveBulkHITL), `Overflow*` and `Guard*`
(department_overflow.go), `CreateCase`, `MergeCase`. `Abandon` is a database error, a cancelled
request or a crash at any of these points; an open transaction is rolled back with it. `Endpoints`
says which routes receive traffic, so that a run can ask what holds when some are not used.

Left out: the `result` column and the SLA fields (no guard reads them), lifecycle events and the
deduplication key of CreateCase (a later module), the limit of 500 rows of the overflow list, cases
assigned to several departments at once (the checks are made department by department, and one
department shows their effect), the pg_cron job that writes TIMEOUT (not in this repository), and
authentication, tenant filters and validation of bodies. In the arbitration the event may be lost:
its goroutine uses the context of the answered request (`cases.go` 339).

### EvidenceVault

| TLA+ | Code |
|---|---|
| `vault[r]` | the row of `core_evidence_records` with that id; `payload0` (the payload it was created with) and `born` (its place in the order of insertion) are for the properties only |
| `RecordHash(r)`, `PayloadHash(c)`, `NoHash` | the hash `HandleCreateEvidence` stores (record as created, with the previous hash); the hash `verifyEvidenceHash` computes; a blank hash |
| `req[w]` | one request between what it read and what it writes |
| `FirstHashRead` | the first row of an unordered query, or blank when the query failed, which is only logged |
| `IntegrityOK(row)`, `tampered` | `verifyEvidenceHash`, the check of GET and of the list; the column that HandleVerifyChain and HandleComplianceReport count |

Each handler is a read and a write (`CreateRead`, `CreateInsert`, ...): none uses a transaction. SHA-256
is injective. Rows of other services are in the initial state: with no hash, as the comment on
`verifyEvidenceHash` says of older records, or with the hash of their payload, the only one it accepts.
HandleDeleteEvidence tests `attested`, which its query does not select: the guard never refuses, and
`DeleteRead` has none.

Left out: HandleVerifyEvidence (`/verify-evidence` has no `{id}`, so it answers 400 before it does
anything); the fallback of HandleAttestEvidence for databases without the attestation columns (every
read names these columns and fails there); corrections that change `type` and `action_class` only;
the `verified` flag, which is written along with the status and read by nobody; the guard of
`ocx/shared` on open cases that is put before one of the two routes of each of PUT and DELETE.

### Propagation

| TLA+ | Code |
|---|---|
| `Messages`, `Event` | message ids and what they say; `dispatch` and the three subscriptions choose the handler by it |
| `unacked` | what the poller of the outbox or Pub/Sub still has to deliver |
| `run[w]` | a handler in flight in some replica, one step per call of the database |
| `baseline`, `cases`, `vault` | `enforcement_mode` of `compl_tenant_baselines`, `status` of a case in `compl_cases`, `vault_status` of the vault of an agent |
| `log` | `compl_idempotency_log` |
| `source`, `known` | the tenant in Ring 0, the agents in Ring 2 (external) |

`Check`, the writes, `Mark` and `Ack` are the steps of a handler. `Faults` adds what the code does about
errors: an upsert that fails returns the error and the message is not acknowledged (`SeedFails`); a
failed update of a tombstone is logged and the handler goes on (`Updated`); the errors of the log are
dropped (`Check`, `Mark`); an acknowledgement is lost; a replica stops. A message that is not
acknowledged can be delivered to another worker while one handles it.

Left out: payloads that do not parse or lack an id, the delivery without a message id by the local bus of
development, and the events the consumer ignores.

### ChallengeUse, ZkpVerifier

`ChallengeUse` is what the comment in `proofs.go` promises, "each challenge is single-use": a challenge
is issued, claimed by one request alone before it lapses, and used once. `ZkpVerifier` is the code, and
`ChallengesUsedOnce` says that it implements the promise, under the mapping of `claims` and `usedBy` to
the requests inside `VerifyProof` and those that have left it with a verdict. The mapping is the `INSTANCE
ChallengeUse WITH ...` named `Promise`, and the property of the run is `Promise!UseSpec`.

| TLA+ | Code |
|---|---|
| `deploy` | whether `WithRedis` was called, which pods serve, whether a Del of Redis may be lost |
| `memory[p]`, `redis` | `v.challenges` of a pod, the keys `zkp:challenge:*` |
| `req[r]` | one POST /zkp/verify: `lookup` and `consume` are inside `VerifyProof`, `check` and `insert` in the handler |
| `MutexFree(p)` | `v.mu` of that pod: a request holds it from its look-up to the end of `VerifyProof` |
| `Forget` | the deletion from both stores, the error of Del dropped |
| `persisting`, `rows` | goroutines of `persistVerification`; rows of `shar_zkp_verify`, written by them and by the handler |
| `PodRestart` | a pod loses its map, its requests and its goroutines |

A proof is named by the challenge whose nonce it signs. The handler sends no score range, so a
TRUST_RANGE proof is decided by its signature. Left out: generation of keys, the list endpoints.

### JuryBridge

| TLA+ | Code |
|---|---|
| `msgs[m]` | a message of `aocs.cases.escalated`; `calls` and `heard` are history: calls made for it, and whether the jury heard of it |
| `breaker` | `circuitbreaker.CircuitBreaker` (external): closed, open, half open |
| `AuditIntent(call)` | what the client makes of the call: an RPC error is a DENY verdict without an error, an answer that does not parse is an error |
| `Forwarded`, `Failed`, `BreakerRefuses`, `Drop...` | the branches of the callback with their Ack or Nack |
| `deadLetter` | the dead-letter policy, which the consumer tries to set and goes on without |

A message that was nacked or lost in a restart is delivered again; the entropy client is one call without state.

### CaseFiles, Governance, ComplianceRecords

These hold what officers of a tenant write. None of the handlers uses a transaction.

| TLA+ | Code |
|---|---|
| `cases[c].comments`, `writer[w]` | the JSON column of an investigation case, and a request between reading and writing it back |
| `actions[a]` | a row of `core_enforcement_actions`; the routes of one type change rows of all types, as in `score.go` |
| `audit[f]`, `decoded` | a finding in `core_audit`; what the driver makes of its JSON column, since the handlers expect a map or bytes |
| `opening`, `consenting`, `lost` | goroutines that write the round of a vote and the consent of a peer, and rows that were never written because a pod stopped or the insert failed |
| `creation[c]` | `HandleAdminCreatePolicy`: insert, then look up the id among all policies, then bind agent by agent |
| `textual`, `Decoded(k)` | whether the driver gives `case_data` as a string; what a submission makes of it, `Blank` where it is none or does not decode |
| `DeclarationStatus(failed)` | the answer of `GET .../transparency/status`: a query that fails finds no declaration, and is answered NOT_FILED |
| `ListGRA...(country)` | the two lists of frameworks and of obligations, as functions of the rows |
| `table[k]` | a row of `core_compliance`, whatever its type; `case` is its `case_id` |
| `SubmitRead`, `SubmitWrite`, `Resolve*`, `Withdraw*` | the two halves of the handlers; the query names no order, so the first row is any row |

`complianceSetStatus` stands for six routes, `BulkViolation` for one id of a bulk request. Left out: free text,
filters of lists, the counts on a transparency card (the class it states is kept), comments of HITL cases
(rows of their own).

### ComplianceReports, DlpStore, EvidenceLedger

| TLA+ | Code |
|---|---|
| `reports[r]` | a row of `nexus_compliance_reports`: status, whether its schedule names recipients, the frequency, the next delivery |
| `cycle[p]` | the delivery worker of a pod with its list, taken once per cycle; `MarkSent` follows the mail |
| `mails[r]` | history: when the next mail is owed, how many came early, and how many failures and overlaps excuse that |
| `overallStatus`, `FailedSections` | the arithmetic of a SOX report, integer division included |
| `HandleDLPScan`, `PersistScan`, `RaiseAlert` | scan, enforcement row, alert by a goroutine with the context of the request |
| `monitored[s]`, `registered`, `actions` | the map of a pod; the rows the handler inserts, in `core_compliance`; the rows a start loads, of `core_enforcement_actions`, which this service never writes (external), with PIDs that are not positive and metadata that does not decode (`Unreadable`) |
| `loaded[s]` | history: what the pod took over when it last started |
| `RecordEvidence`, `ReplaceEvidence` | the insert; after any error of it the update, with the context of the call |
| `doubtful[d]` | history: hashes that calls have written since the last success, though they answered an error |
| `stream[m]`, `jobs`, `batch[w]` | messages of the ledger stream; batch jobs and the list a worker goes through |
| `ReadPrevious`, `HandleGenerateZKPProof` | the look-up of the last proof and the insert of the next |
| `ReadProofs(b)`, `HandleGenerateProofChain(b)` | the query and the insert of a request that builds a root; `late` is history: another root was stored between the two |

Left out: the text of reports and mails, the contents of sections, Merkle hashing (a root is the set it
covers), patterns (each detection stands for those treated alike), the length check of a signature in
`VerifyEvidence`, which decides nothing about the row.

### DocumentSources, ResourceGraph, CaseLifecycle

| TLA+ | Code |
|---|---|
| `docs[d]`, `drive` | a row of `core_tenant_docs`; the name the file has on the drive |
| `syncs[s]` | the goroutine of a sync: listing, then insert and update file by file, then its outcome |
| `extracts[e]` | the goroutine of an extraction; `answered` is when its context ends, which is any time after the goroutine starts |
| `graphs[g].queries` | the parallel queries of the live graph; agents, policies and bindings stand for the nine |
| `deterministicNodeID` | the object id, eight hexadecimal digits of the text of the key: its first four characters |
| `collects[s]`, `nodes`, `edges` | a scan, by the worker or by a request; the tables of the snapshot |
| `super` | the restart loop of the worker, times in seconds |
| `openings[c]`, `moves[m]` | `CreateCase` and `TransitionCase` with their calls of `ocx-core-svc`, each of which may fail, or succeed and lose its answer (`Miss`) |
| `floats` | whether a number of a row is read as a float64, which `TransitionCase` asserts of `escalation_count` |

Without a client for `ocx-core-svc` the handlers of a case make the same calls, in the same order and with
the same treatment of errors, on the database itself: these are the same actions. What differs is the type
of what is read. JSON gives float64, the driver what it likes, and a count that is no float64 counts for
none; `floats` is therefore chosen at the start.

`Docs` and `Moves` are assumed finite, since the counts of a connector and of a case are compared with
cardinalities.

Left out: what is in documents and intents, the hash of `dedup_key` (the cause itself is the key), the SLA columns.

### The other modules

`MC_*` give the constants of TLC their values. `MC_Answers`, `MC_Casework`, `MC_Background` and `MC_Stores`
put parts side by side that share no table: the variable `part` says which one moves in a behaviour, and
the others keep their initial states. Nothing is lost by this, because no action of one part reads a
variable of another; each part would only multiply the states of the others. Each part has a specification
of its own (`FilesSpec`, `GovSpec`, `RecordsSpec`, `ReportsSpec`, `DlpSpec`, `LedgerSpec`, `SourcesSpec`, `GraphSpec`,
`LifecycleSpec`), which is what its theorems are about; the `*Parts` lemmas of section 5 say that a behaviour of the MC
module is one of each of its parts. The `*Proofs` modules are
the subject of section 5.

## 4. Runs

Most bounds are the sizes of small sets. The counters that would grow for ever are cut off by named
constants in the guards: `MaxRounds` (rounds of a proposal), `MaxHour` and `MaxSecond` (clocks),
`MaxExcuses`, `MaxMishaps`, `MaxLosses`, `MaxFaults`, `MaxMissed` (failures and overlaps), `MaxRestarts`,
`MaxCrashes`, `MaxName` (renames); `MC_Stores` adds `FewRows`, `OneSync` and `OneOpening`.

| Run | Asks | Bounds |
|---|---|---|
| HitlVerdicts | Whatever runs beside it and whatever fails: an arbitration commits over an open case only (`ArbitrationRespectsDecision`), a ballot is never replaced (`BallotIsFinal`), what a case counts was cast (`CountedBallotsWereCast`), and locks and unique index exclude (`LockDiscipline`) | one case, one reviewer, two requests, failures anywhere; create, arbitrate, vote, bulk, merge, assign |
| HitlRouting | With no unguarded route a verdict stands (`DecidedIsFinal`) and the audit trail agrees with the row (`AuditMatchesRow`); `TypeOK` with the bound on moves | two cases, two departments, two requests, failures; a capacity of 0 so that one case overflows |
| HitlJury | With votes alone the status is the outcome of all committed ballots (`JuryStatusIsOutcome`) and a verdict is never turned round (`JuryNeverFlips`) | five reviewers, two ballots in flight, floor 3 and a setting of 4 that becomes 5, so that panels complete and late ballots come |
| HitlLiveness | Nobody waits for ever (`RequestsAnswered`) | one case, one reviewer, two requests, no failures |
| Propagation | A message is neither marked nor acknowledged before the row it seeds is there (`HandledWasSeeded`), every event is followed by its row (`EventuallySeeded`), a tombstone stands once the provisionings are acknowledged and no handler of one is left (`TombstoneStands`), `TypeOK` | one tenant with one agent, the three kinds of events, two workers, failures |
| Answers | The verifier implements `ChallengeUse` (`ChallengesUsedOnce`), nothing keeps a used challenge (`ConsumedIsGone`), requests are answered (`RequestsAnswered`); no decision is acknowledged untried and the breaker opens on answers (`JuryIsTried`), no message goes round for ever where there is a dead-letter policy (`EveryMessageSettles`); `TypeOK` of the verifier | two requests on one challenge, two pods without Redis or one with it, restarts, failing calls; two messages, a breaker of two failures, three attempts, one restart |
| Casework | Comments and archive marks are lost to overlaps only (`LostOnlyToOverlap`), statuses in any order keep what was escalated and when a case ended (`StatusesStand`), rows written apart agree (`RowsApartAgree`), filed reports and verdicts give way to stale reads only, cards are kept or blanked, a filed declaration is told of by every query that succeeds (`RecordsStand`), `TypeOK` | one case, action, finding, proposal and peer, two policies, two ids in `core_compliance`, three overlapping writers, two requests |
| Background | Early mails and passes have their causes (`ReportsAreEarned`), scans, alerts and enforcement theirs (`DlpTraced`), what was recorded last verifies, or what a call has written since without saying so (`EvidenceKept`), a job is stuck only where a worker gave up (`StuckOnlyWhenAbandoned`), chains fork by overlap only, and a root loses proofs only by cap, failure or overlap (`ChainsTraced`), `TypeOK` | two pods, one report, two tenants, the PIDs 0 and 1, one decision with two hashes, two messages, two jobs and workers, three proofs with a cap of two, two requests for a root, two failures |
| Stores | Previous hashes lead to earlier records (`LinkedBackwards`), a changed payload fails every read (`ChangedIsFlagged`), a sealed record keeps its payload (`SealedForever`); what a sync or an extraction leaves behind is stale only for a named reason (`SyncsTraced`, `ExtractionsTraced`), so are a graph (`GraphTraced`) and a case (`LifecycleTraced`); the alarm of the supervisor comes after a wait (`AlarmAfterWaits`); `StoresTypeOK` | pairs of records, documents, agents, connectors, causes and requests; one lost write, one fault, two missed calls, eight crashes |
| HitlReArbitration, FilingRaces, JuryForwarded | What the repository says and the code does not do; each is a finding in `PROJECT.json` with its quotation | the smallest instance that shows it |

Two requests are enough for the races checked: each is between one request's read and its write, and
one rival (creation and merging, which take a single step, come on top of the two). Three writers in
Casework let one comment be lost by two others. Two cases are needed only where a list is worked
through. The floor of five reviewers of the code is a constant here; three keeps the interleavings small
and leaves two ballots to come late. Two records are enough for a link and for a correction beside an
attestation. Two workers are enough for two deliveries of one message and for a provisioning beside a
deletion; tenants share no row. Eight crashes pass the alarm (more than five) with a stable run among them. A batch job
id is made of tenant and period, so two jobs can share one; three proofs make a fork behind a common
predecessor, and exceed the cap.

`CHECK_DEADLOCK FALSE` is there where the system may rest: no request, message or failure has to come.

Symmetry (`Interchangeable`, `CaseSymmetry`, `Symmetry`) is used in runs without liveness only. In Stores
one value stands in several sets (records, documents, agents and openings, say), and a permutation is of
all of them at once: it is sound because no action names one of them, and TLC has few permutations to try.

Many of the properties of the last runs have one form: a loss, a repetition, a gap or a stale value can
be traced to the overlap, the failure or the cap that caused it. The code gives no more, since most of
it is a read and a later write without a transaction; the property says that it gives no less, that is,
which causes are the only ones. The conjuncts of such a property are definitions of their own, with the
line of the code or the sentence of the documentation they are about.

Fairness of HitlCase: `SF` of each request's steps. A goroutine that is runnable runs; a request that waits
for a row lock is queued by PostgreSQL and is granted it in turn, so it is not overtaken for ever, which
weak fairness alone would allow. Arrival of requests is not fair, and the property says nothing of it.

In Propagation, `WF` of each handler, and for each message that seeds a row `SF` of its delivery, of the
look-up in the log and of the write: the poller and Pub/Sub deliver what is not acknowledged again and
again, and calls and replicas do not fail every time. Nothing is assumed of the log, of acknowledgements
or of the arrival of events.

In the verifier, `SF` of each request's steps: the mutex of Go hands itself to a goroutine that others keep
overtaking (its starvation mode); a restart answers the request with an error. In the jury bridge, `WF` of
the delivery of each message and of the return of its callback, nothing of the breaker, of the jury or of
restarts.

`TombstoneStands` says no more than the code keeps: the upsert of a provisioning overwrites the mode, the
log is read and written in calls of their own with their errors dropped, and the subscriptions are not
ordered, so a provisioning that is handled again, or late, takes the tombstone away.

### What the runs refute

- Assigning a case writes PENDING over any status, so a decided case can be arbitrated again and the
  audit trail holds both verdicts (HitlReArbitration).
- A call to the jury that fails becomes a DENY verdict without an error: the message is acknowledged,
  the breaker counts a success, and the jury never hears of the decision (JuryForwarded).
- Two submissions that both read the draft of a report both file it, and the second replaces what the
  first filed (FilingRaces).

## 5. Proofs

All theorems are for any sets and bounds that satisfy the named assumptions of the modules.

One convention of the modules is for the sake of the proofs. tlapm 1.4.5 encodes two updates of one entry
in the same EXCEPT as two equations about the old value, which may contradict each other and then prove
anything, and it misreads an `@` inside the value of another `@`. Several fields of an entry are therefore
updated at once, `![x] = [@ EXCEPT !.a = .., !.b = ..]`, with `f[x]` in the place of the outer `@` where a
new value uses `@` itself. Keep to this form when you extend a module. That the proofs do depend on what
the models say was tried with the mutants of PROJECT.json: where a mutant changes the model under a safety
or action property, the proof of the theorem that states the property fails.

`HitlCaseProofs`:

| Theorem | Statement |
|---|---|
| TypeCorrect | `Spec => []TypeOK` |
| LocksHold | `Spec => []LockDiscipline` |
| CountedWereCast | `Spec => []CountedBallotsWereCast` |
| ArbitrationSound | `Spec => ArbitrationRespectsDecision` |
| BallotsAreFinal | `Spec => BallotIsFinal` |
| DecisionsStand | with the unguarded routes shut, `Spec => DecidedIsFinal` |
| AuditTrue | with the unguarded routes shut, `Spec => []AuditMatchesRow` |
| JuryStatusTrue | with `JuryTraffic`, `Spec => []JuryStatusIsOutcome` |
| JuryKeepsItsSide | with `JuryTraffic`, `Spec => JuryNeverFlips` |

The argument has two layers. `LockInv` is `TypeOK /\ LockDiscipline /\ CountedBallotsWereCast`:
CountedBallotsWereCast is not inductive alone, because a vote writes the ballots it has read; it is
with `HolderReadsRow`, which says that what a lock holder read is what the row still says, and that
in turn needs `OneHolderPerRow` and, for the ballots, `OneBallotInFlight`. Most steps touch none of
this: `Ordinary(w)` abstracts them (they write free rows, keep the votes, and leave their request
without a lock), one lemma per handler shows that it is ordinary, `StepKinds` sums that up, and
only five actions are looked at one by one.

`DecisionInv` adds `OpsRouted` (a request in flight came in on an open route), `AuditPending` (between
its commit and its audit, an arbitration is what the row says) and `AuditMatchesRow`. It rests on
`CommitOverOpen`, which is where the lock counts: an arbitration commits over the status it read.

`JuryTraffic` is the traffic of the run HitlJury: only `create` and `vote` are used. An arbitration, an
assignment or a merge writes a status that no ballot gave, so without it the statements are false. `JuryInv`
adds to `LockInv` and `OpsRouted` that the ballots kept in the row are the committed ones (`BallotsCounted`)
and the property itself. What is new is arithmetic over tallies, for a panel of any finite size. The
threshold that a vote stores is a fixed point of the raising to the floor and to an odd number, so the next
vote finds the same one (`QuorumSettles`). One more ballot raises one tally and the total by one (`CastOne`,
`CastTotal`). And more than 65 % for one side leaves less than 35 % for the other, which a single ballot
cannot carry past 65 % of the new total (`OneMoreBallot`); since ballots are counted one by one under the
lock, a verdict is never turned round.

`EvidenceVaultProofs` does the same for `EvidenceVault`:

| Theorem | Statement |
|---|---|
| VaultTypeCorrect | `Spec => []TypeOK`, the part of `StoresTypeOK` about the vault |
| ChainLinked | `Spec => []LinkedBackwards` |
| ChangesShow | `Spec => []ChangedIsFlagged` |
| SealsHold | `Spec => SealedForever` |

`LinkedBackwards` is not inductive alone: a creation writes the hash it has read, so `VaultInv` also has
`PrevIsThere` (that hash is still the hash of a row), `BornBeforeNow` and `FreshIds`. `ChangedIsFlagged`
rests on `HashAsWritten`, the two schemes of stored hashes, and on the injectivity of SHA-256, which
is in the definitions. Every step but the two of a creation is `Quiet`: it leaves the columns of the
chain alone.

`PropagationProofs` does the same for `Propagation`, for any tenants, agents, messages and workers:

| Theorem | Statement |
|---|---|
| PropagationTypeCorrect | `Spec => []TypeOK` |
| HandledWereSeeded | `Spec => []HandledWasSeeded` |
| TombstonesStand | `Spec => TombstoneStands` |

`HandledWasSeeded` says nothing of a handler between its write and its mark, so `HandlingInv` adds
`WrittenThenMarked`, `SentFirst` (only what was sent is under way or marked) and `DeletionsOnly` (the later
updates belong to a deletion). That rows are never removed (`RowsStay`) is what carries it from step to
step. `TombstonesStand` needs the types only: `Drained` is stable, and a worker that seeds a baseline
handles one of the messages that `Drained` excludes (`Seeder`).

`ZkpVerifierProofs` has one hypothesis, `GoodDeployments`: every deployment in `Deployments` satisfies
`KeepsPromise`, that is, there is no shared store, as `main.go` builds the verifier, or there is one that a
single pod uses and that loses no Del. Both deployments of the run satisfy it. With a Redis shared by two
pods the promise cannot be proved: the mutex is of one pod, and Get and Del are two calls.

| Theorem | Statement |
|---|---|
| VerifierTypeCorrect | `Spec => []TypeOK` |
| ConsumedStaysGone | `Spec => []ConsumedIsGone` |
| ChallengeSingleUse | `Spec => ChallengesUsedOnce`, the refinement of `ChallengeUse` |

That a challenge is not used twice is not inductive alone. `ZkpInv` adds what keeps a second request out:
a challenge is known to one pod (`OneKeeper`), the mutex of a pod has one holder (`OneHolder`), while a
challenge is in use no other pod knows it (`ClaimedElsewhereUnknown`), stores hold issued challenges
(`StoresKnown`), and a verdict is reached where it can be (`VerdictsReached`); `UsedOnce` and
`ConsumedIsGone` then follow each other. Most steps are `Calm`: they add to no store and leave what was
claimed or used as it is. Only issuing, claiming and using are not, and they map to the steps of
`ChallengeUse` of that name. Of the calm steps an expiry maps to a lapse, and the stop of a pod with a
request inside `VerifyProof` to giving up; the rest are stutters.

`JuryBridgeProofs`:

| Theorem | Statement |
|---|---|
| BridgeTypeCorrect | `BridgeSpec => []BridgeTypeOK` |
| EscalationsAreTried | `BridgeSpec => []JuryIsTried` |

`BridgeInv` adds `UnpublishedWaits`: what was not published is not delivered. That a message which was
acknowledged, lost its acknowledgement and is refused by the breaker is not acknowledged untried rests
on the count of its calls, which no step lowers.

`CaseworkProofs`:

| Theorem | Statement |
|---|---|
| FilesTypeCorrect | `FilesSpec => []FilesTypeOK` |
| LossNeedsOverlap | `FilesSpec => LostOnlyToOverlap` |
| StatusesStay | `FilesSpec => StatusesStand` |
| GovTypeCorrect | `GovSpec => []GovTypeOK` |
| RowsAgree | `GovSpec => []RowsApartAgree` |
| RecordsGiveWayToStaleReads | `RecordsSpec => RecordsStand` |
| CaseworkTypeCorrect | `Spec => []TypeOK`, for the three side by side (by `CaseworkParts`) |

Each of the three modules has its invariant, in theorems that the table leaves out (`FilesInvariant`,
`GovInvariant`, `RecordsInvariant`). `FilesInv` adds to the types that rows which do not exist are plain
(`AbsentIsPlain`, `AbsentIsOpen`), without which an insertion could take an escalation or an archive mark
away, and the times of cases; the three kinds of steps change tables of their own, so each property is
looked at under one of them. `GovInv` adds `BindingsFound`: while a creation binds, all its bindings are on
the policy it found. `RecordsInv` adds what a request has read when it goes on to write (`SubmitsRead`,
`DisputesRead`), from which the stale read that a property names, and the card that is written back, are had, and that what is filed is found
under its own id while a dispute is never a draft (`RowsPlain`).

`BackgroundProofs`:

| Theorem | Statement |
|---|---|
| EvidenceIsKept | `LedgerSpec => []EvidenceKept` |
| StuckWasAbandoned | `LedgerSpec => []StuckOnlyWhenAbandoned` |
| ChainForksTraced | `LedgerSpec => ChainsTraced` |
| DlpIsTraced | `DlpSpec => []DlpTraced` |
| ReportsEarned | `ReportsSpec => ReportsAreEarned` |
| BackgroundTypeCorrect | `Spec => []TypeOK`, for the three side by side (by `BackgroundParts`) |

`LedgerInv` has one part for each table. A record: the last hash, or one written
since under an error, is among the rows of its decision, alone where the constraint is on the decision
(`LastIsThere`). A message: its rows are at most its mishaps, and one for its acknowledgement
(`RowsPaidFor`). A batch: a worker has one job under way, and its list holds jobs that exist
(`WorkersOnJobs`). A chain: a proof follows the newest of those it saw when it looked (`FollowsNewest`), so
that of two proofs with one predecessor neither saw the other, unless they share their second; proofs are not
removed, so a build that is neither cut, failed nor overtaken has the proofs of the newest root
(`BuildsCover`). `DlpInv` says
of each scan, before and after its row is written, that its rating covers its findings (`BuiltinRates` is
the lemma about the patterns), and that a process has its row before any pod monitors it.

Early mails are the hardest of these. A mail is early when another pod, or a mark that was lost, has it sent
again, and the property compares two counts, `early <= excuses`. That is not inductive: a mail goes out long
after its list was taken. `CreditInv` keeps an account of it. The credit of a report is its excuses less its
early mails, and it covers every pod that has the report on its list, less the one whose mail is still owed
(`Fresh`), and one more when the due time is behind what has been mailed (`Settled`). Taking a list,
mailing, marking, failing to mark and stopping are one lemma each; the handlers, which never touch the due
time, are `RowStep`.

`StoresProofs`:

| Theorem | Statement |
|---|---|
| GraphIsTraced | `GraphSpec => []GraphTraced` |
| AlarmIsLate | `GraphSpec => []AlarmAfterWaits` |
| SyncsAreTraced | `SourcesSpec => SyncsTraced` |
| ExtractionsAreTraced | `SourcesSpec => ExtractionsTraced` |
| LifecycleIsTraced | `LifecycleSpec => []LifecycleTraced` |
| GraphTypeCorrect, SourcesTypeCorrect, LifecycleTypeCorrect | the types of each part |
| StoresTypeCorrect | `StoresSpec => []StoresTypeOK`, for the four side by side (by `StoresParts` and VaultTypeCorrect) |

- `GraphInv` is about the live graph (`LiveInv`: edges are of rows of their tenant, and where policies were
  read after the bindings their targets are shown), the scans (`ScansInv`: the colliding object id of a node
  is its kind; edges come from agents; a scan writes its agents before anything else, unless a write is
  lost, so that an edge finds the node of an agent) and the supervisor (`SuperInv`: by its k-th restart in a
  row it has waited at least 1, 3, 7, 15 and then 31 seconds, and the back-off is in the same table).
- `SourcesInv`: syncs that overlap have seen each other (`SeenSyncs`), and one that saw none has names as
  new as the table; what a sync counts was stored, unless an insertion was lost (`CountedWereStored`).
  Likewise for extractions (`SeenExtracts`): every IN_PROGRESS or SYNCED source has an extraction that
  accounts for it (`StatusAccounted`).
- `LifecycleInv`: every status of a case, the one a transition has read and the one an event says it left,
  is `Explained`: there is an event that says so, or one that failed or is still to come. The same
  definition serves the two streams of events (`Chained`). Counts of escalations are bounded by the
  escalations made (`CountsBounded`), and a transition that saw no other has the count of the row
  (`SeenMoves`), which gives the rest of `EscalationsCounted`; where numbers are no float64, every transition has read 0 (`FloatCounts`, `NativeCounts`). `ChainedStays` keeps a stream chained
  over a step of which three things are known: what the row (`CaseFollows`), each transition (`MoveFollows`)
  and each event (`EventFollows`) then say was said before or has an event of its own.

Only model-checked: liveness, which is out of the reach of the prover (`RequestsAnswered` of the cases and
of the verifier, `EventuallySeeded`, `EveryMessageSettles`), and the three refuted properties, of which a
counterexample is the proof.

## 6. Not modelled

- Signing keys: a rotation is one call of `RotateSigningKey` in `ocx/shared`, and what keeps one key active
  is behind it.
- The local entropy scorer (`ent_local_scorer.go`): floating-point statistics over one text, without state.
- The sybil worker: a daily aggregation that reads and inserts alerts; a second replica inserts them again,
  and nothing reads them in this repository.
- Dashboards, analytics and the CRUD of tables: reads, and writes of single rows in one statement, so that
  no intermediate state is visible to another request.
- Adapters of content safety and threat intelligence: one call of an outside service and its answer.
- `HandleVerifyEvidence`: its only route has no `{id}`, and it answers 400 before anything else.
- `zkp_worker.go`: nothing starts it and it marks no row.
- The recusal log: one column, overwritten, and its route never passes the id of a case.
- The SLA columns and CASE_CREATED: read by no guard of this repository; never published.
- `HandleRouteDepartment`: it answers which department fits and changes nothing.
- `EvidenceReport` and the other views of the vault: reads of the checks that are modelled.
- HTTP, authentication, rate limits, tenant filters and validation of bodies.
