--------------------------- MODULE EvidenceLedger ---------------------------
(***************************************************************************)
(* The evidence ledger of one tenant: hashes of decisions recorded over    *)
(* gRPC, evidence records read from a stream, batch jobs that anchor       *)
(* chains, and the chain that links the proofs of one agent.               *)
(***************************************************************************)
EXTENDS Naturals, FiniteSets

CONSTANTS Decisions, Hashes, NoHash,
          Records,       \* messages of the ledger stream
          Jobs, Periods, \* batch jobs; a job id is made of tenant and period
          Workers,       \* pods that run the batch workers
          Proofs, NoProof,
          Builds,        \* requests that build a root
          Cap,           \* maxProofs
          MaxSecond,     \* bound on the clock
          MaxMishaps     \* bound on failures

ASSUME LedgerBounds == /\ Cap \in Nat \ {0} /\ {MaxSecond, MaxMishaps} \subseteq Nat
                       /\ NoHash \notin Hashes

VARIABLES unique,    \* core_evidence admits one row per decision
          evidence,  \* hashes of the rows of each decision
          updating,  \* calls of RecordEvidence between their two writes
          last,      \* history: the last hash recorded with success
          doubtful,  \* history: hashes written since by calls that answered an error
          stream,
          jobs, batch, \* batch jobs, and the list each worker goes through
          proofs, second,
          root,      \* the proofs below the newest root
          builds     \* late is history: another root was stored meanwhile

recordsVars == <<unique, evidence, updating, last, doubtful>>
batchVars == <<jobs, batch>>
chainVars == <<proofs, second, root, builds>>
ledgerVars == <<recordsVars, stream, batchVars, chainVars>>

JobStatuses == {"none", "unset", "PENDING", "PROCESSING", "COMPLETED"}

LedgerTypeOK ==
  /\ unique \in BOOLEAN
  /\ evidence \in [Decisions -> SUBSET Hashes]
  /\ updating \subseteq Decisions \X Hashes
  /\ last \in [Decisions -> Hashes \cup {NoHash}]
  /\ doubtful \in [Decisions -> SUBSET Hashes]
  /\ stream \in [Records -> [form : {"none", "valid", "malformed", "incomplete"},
                             acked : BOOLEAN, rows : Nat, mishaps : 0..MaxMishaps]]
  /\ jobs \in [Jobs -> [status : JobStatuses, period : Periods]]
  /\ batch \in [Workers -> [todo : SUBSET Jobs, doing : SUBSET Jobs, abandoned : SUBSET Periods]]
  /\ proofs \in [Proofs -> [state : {"none", "linking", "stored", "lost"}, issued : 0..MaxSecond,
                            previous : Proofs \cup {NoProof}, seen : SUBSET Proofs]]
  /\ second \in 0..MaxSecond
  /\ root \subseteq Proofs
  /\ builds \in [Builds -> [pc : {"idle", "store"}, covers : SUBSET Proofs,
                            failed : BOOLEAN, late : BOOLEAN]]

NoBuild == [pc |-> "idle", covers |-> {}, failed |-> FALSE, late |-> FALSE]

LedgerInit ==
  /\ unique \in BOOLEAN
  /\ evidence = [d \in Decisions |-> {}]
  /\ updating = {}
  /\ last = [d \in Decisions |-> NoHash]
  /\ doubtful = [d \in Decisions |-> {}]
  /\ stream = [m \in Records |-> [form |-> "none", acked |-> FALSE, rows |-> 0, mishaps |-> 0]]
  /\ \E p \in Periods : jobs = [j \in Jobs |-> [status |-> "none", period |-> p]]
  /\ batch = [w \in Workers |-> [todo |-> {}, doing |-> {}, abandoned |-> {}]]
  /\ proofs = [p \in Proofs |-> [state |-> "none", issued |-> 0, previous |-> NoProof, seen |-> {}]]
  /\ second = 0
  /\ root = {}
  /\ builds = [b \in Builds |-> NoBuild]

-----------------------------------------------------------------------------
(* LedgerServer *)

InsertEvidence(d, h) == /\ unique => evidence[d] = {}
                        /\ evidence' = [evidence EXCEPT ![d] = @ \cup {h}]

\* Mutant: a conflict keeps what is there.
UpdateEvidence_Keep(d, h) == evidence' = [evidence EXCEPT ![d] = @]
\* An update of no row is no error.
UpdateEvidence(d, h) == evidence' = [evidence EXCEPT ![d] = IF @ = {} THEN {} ELSE {h}]

RecordsOnly == UNCHANGED <<unique, stream, batchVars, chainVars>>
Accepted(d, h) == /\ last' = [last EXCEPT ![d] = h]
                  /\ doubtful' = [doubtful EXCEPT ![d] = {}]
\* Written, and an error all the same: the connection or the context ended.
Doubted(d, h) == /\ doubtful' = [doubtful EXCEPT ![d] = @ \cup {h}]
                 /\ UNCHANGED last
NotWritten == UNCHANGED <<evidence, last, doubtful>>

\* Any error of the insert, not only a conflict, leads to the update.
RecordEvidence(d, h) ==
  /\ \/ InsertEvidence(d, h) /\ Accepted(d, h) /\ UNCHANGED updating
     \/ /\ (InsertEvidence(d, h) /\ Doubted(d, h)) \/ NotWritten
        /\ updating' = updating \cup {<<d, h>>}
  /\ RecordsOnly

\* The second write of such a call; it ends with the context of the call.
ReplaceEvidence(d, h) ==
  /\ <<d, h>> \in updating /\ updating' = updating \ {<<d, h>>}
  /\ \/ UpdateEvidence(d, h) /\ (Accepted(d, h) \/ Doubted(d, h))
     \/ NotWritten
  /\ RecordsOnly

\* The possible answers: the first of the rows, in no order, decides; a query
\* that fails finds none.
VerifyEvidence(d, payload) ==
  {"not found"} \cup {IF payload \in {NoHash, h} THEN "valid" ELSE "mismatch" : h \in evidence[d]}
GetEvidence(d) == evidence[d]

RecordsNext == \E d \in Decisions, h \in Hashes : RecordEvidence(d, h) \/ ReplaceEvidence(d, h)

-----------------------------------------------------------------------------
(* LedgerConsumer *)

Streamed(m, row) == /\ stream' = [stream EXCEPT ![m] = row]
                    /\ UNCHANGED <<recordsVars, batchVars, chainVars>>

StreamPublish(m) == /\ stream[m].form = "none"
              /\ \E f \in {"valid", "malformed", "incomplete"} :
                   Streamed(m, [stream[m] EXCEPT !.form = f])

\* Malformed: nacked, and so delivered again; this changes nothing.
DropIncomplete(m) ==
  /\ stream[m].form = "incomplete" /\ ~stream[m].acked
  /\ Streamed(m, [stream[m] EXCEPT !.acked = TRUE])

\* The timestamp of the conflict target is the time of the insert: two inserts
\* of one record never conflict.
insertEvidence(m) ==
  /\ stream[m].form = "valid" /\ ~stream[m].acked
  /\ Streamed(m, [stream[m] EXCEPT !.rows = @ + 1, !.acked = TRUE])

\* The error may come after the commit.
InsertFails(m) ==
  /\ stream[m].form = "valid" /\ ~stream[m].acked /\ stream[m].mishaps < MaxMishaps
  /\ \E kept \in 0..1 : Streamed(m, [stream[m] EXCEPT !.rows = @ + kept, !.mishaps = @ + 1])

AckLost(m) ==
  /\ stream[m].acked /\ stream[m].mishaps < MaxMishaps
  /\ Streamed(m, [stream[m] EXCEPT !.acked = FALSE, !.mishaps = @ + 1])

StreamNext == \E m \in Records : \/ StreamPublish(m) \/ DropIncomplete(m) \/ insertEvidence(m)
                                 \/ InsertFails(m) \/ AckLost(m)

-----------------------------------------------------------------------------
(* Batch jobs *)

BatchUnchanged == UNCHANGED <<recordsVars, stream, chainVars>>
SameId(j) == {k \in Jobs : jobs[k].status # "none" /\ jobs[k].period = jobs[j].period}

\* The insert names no status and no agents: the status is what the table makes
\* it, and the worker computes its results from an empty list.
HandleCreateZKPBatchJob(j) ==
  /\ jobs[j].status = "none"
  /\ \E p \in Periods, s \in {"PENDING", "unset"} : jobs' = [jobs EXCEPT ![j] = [status |-> s, period |-> p]]
  /\ UNCHANGED batch /\ BatchUnchanged

\* The semaphore of the pool admits one list per pod.
ListPendingJobs(w) ==
  /\ batch[w].todo \cup batch[w].doing = {}
  /\ \E j \in Jobs : jobs[j].status = "PENDING"
  /\ batch' = [batch EXCEPT ![w].todo = {j \in Jobs : jobs[j].status = "PENDING"}]
  /\ UNCHANGED jobs /\ BatchUnchanged

\* By job_id, whatever the status is by now: the state machine is asked about
\* two constants.
SetStatus(j, s) == jobs' = [k \in Jobs |-> IF k \in SameId(j) THEN [jobs[k] EXCEPT !.status = s]
                                           ELSE jobs[k]]

\* When it fails, before or after its commit, the job is skipped.
MarkProcessing(w) ==
  /\ batch[w].doing = {}
  /\ \E j \in batch[w].todo :
       \/ /\ SetStatus(j, "PROCESSING")
          /\ \/ batch' = [batch EXCEPT ![w] = [batch[w] EXCEPT !.todo = @ \ {j}, !.doing = {j}]]
             \/ batch' = [batch EXCEPT ![w] = [batch[w] EXCEPT !.todo = @ \ {j},
                                                               !.abandoned = @ \cup {jobs[j].period}]]
       \/ batch' = [batch EXCEPT ![w].todo = @ \ {j}] /\ UNCHANGED jobs
  /\ BatchUnchanged

\* Mutant: the results are written, the status is not.
MarkCompleted_NoStatus(w) ==
  /\ batch[w].doing # {}
  /\ batch' = [batch EXCEPT ![w].doing = {}]
  /\ UNCHANGED jobs /\ BatchUnchanged

\* An error is only logged: after the commit it changes nothing.
MarkCompleted(w) ==
  \E j \in batch[w].doing :
    /\ \/ SetStatus(j, "COMPLETED") /\ batch' = [batch EXCEPT ![w].doing = {}]
       \/ /\ batch' = [batch EXCEPT ![w] = [batch[w] EXCEPT !.doing = {}, !.abandoned = @ \cup {jobs[j].period}]]
          /\ UNCHANGED jobs
    /\ BatchUnchanged

BatchWorkerStops(w) ==
  /\ batch' = [batch EXCEPT ![w] = [batch[w] EXCEPT !.todo = {}, !.doing = {},
                                                    !.abandoned = @ \cup {jobs[j].period : j \in batch[w].doing}]]
  /\ UNCHANGED jobs /\ BatchUnchanged

BatchNext ==
  \/ \E j \in Jobs : HandleCreateZKPBatchJob(j)
  \/ \E w \in Workers : \/ ListPendingJobs(w) \/ MarkProcessing(w) \/ MarkCompleted(w)
                        \/ BatchWorkerStops(w)

-----------------------------------------------------------------------------
(* The chain of an agent's proofs *)

ChainUnchanged == UNCHANGED <<recordsVars, stream, batchVars>>
Stored == {p \in Proofs : proofs[p].state = "stored"}

\* Mutant: sorted the other way.
Newest_Oldest(s) == {p \in s : \A q \in s : proofs[q].issued >= proofs[p].issued}
\* issued_at has seconds; among equals any may come last.
Newest(s) == {p \in s : \A q \in s : proofs[q].issued <= proofs[p].issued}

\* The look-up of the previous proof; when it fails there is none.
ReadPrevious(p) ==
  /\ proofs[p].state = "none"
  /\ \E q \in Newest(Stored) \cup {NoProof} :
       /\ q = NoProof \/ q \in Stored
       /\ proofs' = [proofs EXCEPT ![p] = [@ EXCEPT !.state = "linking", !.previous = q,
                                                    !.seen = Stored]]
  /\ UNCHANGED <<second, root, builds>> /\ ChainUnchanged

\* The answer is 201 whether or not the proof could be stored.
HandleGenerateZKPProof(p) ==
  /\ proofs[p].state = "linking"
  /\ \E state \in {"stored", "lost"} :
       proofs' = [proofs EXCEPT ![p] = [@ EXCEPT !.state = state, !.issued = second]]
  /\ UNCHANGED <<second, root, builds>> /\ ChainUnchanged

\* Cut before it is sorted: any Cap of the proofs.
Truncated(s) == {t \in SUBSET s : Cardinality(t) = IF Cardinality(s) > Cap THEN Cap
                                                  ELSE Cardinality(s)}

\* The query of HandleGenerateProofChain: all proofs of the agent, the period
\* filters nothing.  When it fails the root is one of no proofs.
ReadProofs(b) ==
  /\ builds[b].pc = "idle"
  /\ \/ \E covers \in Truncated(Stored) :
          builds' = [builds EXCEPT ![b] = [NoBuild EXCEPT !.pc = "store", !.covers = covers]]
     \/ builds' = [builds EXCEPT ![b] = [NoBuild EXCEPT !.pc = "store", !.failed = TRUE]]
  /\ UNCHANGED <<proofs, second, root>> /\ ChainUnchanged

\* Its insert: answered 201, or 500 with a row or without one.
HandleGenerateProofChain(b) ==
  /\ builds[b].pc = "store"
  /\ \/ /\ root' = builds[b].covers
        /\ builds' = [c \in Builds |-> IF c = b THEN NoBuild
                                       ELSE [builds[c] EXCEPT !.late = builds[c].pc = "store"]]
     \/ UNCHANGED root /\ builds' = [builds EXCEPT ![b] = NoBuild]
  /\ UNCHANGED <<proofs, second>> /\ ChainUnchanged

NextSecond == /\ second < MaxSecond /\ second' = second + 1
              /\ UNCHANGED <<proofs, root, builds>> /\ ChainUnchanged

ChainNext == \/ NextSecond
             \/ \E b \in Builds : ReadProofs(b) \/ HandleGenerateProofChain(b)
             \/ \E p \in Proofs : ReadPrevious(p) \/ HandleGenerateZKPProof(p)

LedgerNext == RecordsNext \/ StreamNext \/ BatchNext \/ ChainNext
LedgerSpec == LedgerInit /\ [][LedgerNext]_ledgerVars

-----------------------------------------------------------------------------
(* Properties *)

\* "upserts on (entity_id, tenant_id) so retries are safe": where a decision
\* has evidence, the hash recorded last with success verifies, or one that a
\* call wrote since and answered with an error; with a constraint on the
\* decision nothing else does, without one a stale row may come first.
LastHashVerifies ==
  \A d \in Decisions : evidence[d] # {} =>
    \E h \in (doubtful[d] \cup {last[d]}) \ {NoHash} :
      /\ "valid" \in VerifyEvidence(d, h)
      /\ unique => "mismatch" \notin VerifyEvidence(d, h) /\ GetEvidence(d) = {h}

\* Evidence is acknowledged only when it was inserted, and inserted again only
\* after a lost acknowledgement or an error that came after the commit.
AckedIsInserted ==
  \A m \in Records : /\ stream[m].form = "valid" /\ stream[m].acked => stream[m].rows > 0
                     /\ stream[m].rows <= stream[m].mishaps + 1

\* Both writers of evidence, gRPC and the stream, keep what they accepted.
EvidenceKept == LastHashVerifies /\ AckedIsInserted

\* "the job stays PROCESSING and won't be retried": only where a worker gave
\* up on its id, by a failed write or because its pod stopped.
StuckOnlyWhenAbandoned ==
  \A j \in Jobs : jobs[j].status = "PROCESSING" =>
    \E w \in Workers : \/ \E k \in batch[w].doing : jobs[k].period = jobs[j].period
                       \/ jobs[j].period \in batch[w].abandoned

\* Two proofs with one predecessor: neither saw the other, or one was issued in
\* the second of its predecessor.
ForksOnlyFromOverlap ==
  \A p, q \in Stored : p # q /\ proofs[p].previous = proofs[q].previous /\ proofs[p].previous # NoProof =>
    \/ p \notin proofs[q].seen /\ q \notin proofs[p].seen
    \/ \E x \in {p, q} : proofs[x].issued = proofs[proofs[p].previous].issued

\* The newest root loses a proof that the root before it had only when it was
\* cut at the cap, when its query failed, or when another root was stored
\* between its query and its insert.
RootsGrow ==
  \/ root \subseteq root' \/ Cardinality(root') = Cap
  \/ \E b \in Builds : /\ builds[b].covers = root' /\ builds'[b].pc = "idle"
                       /\ builds[b].failed \/ builds[b].late

\* The chain of an agent forks, and its roots lose proofs, only as the two
\* above say.
ChainsTraced == [][RootsGrow /\ ForksOnlyFromOverlap']_chainVars
=============================================================================
