-------------------------- MODULE BackgroundProofs --------------------------
(* Theorems of ComplianceReports, DlpStore and EvidenceLedger, for any         *)
(* reports, pods, scans, stores, decisions, messages, jobs and proofs.         *)
EXTENDS MC_Background, FiniteSetTheorems, TLAPS

-----------------------------------------------------------------------------
(* Evidence ledger                                                             *)

StreamRow == [form : {"none", "valid", "malformed", "incomplete"}, acked : BOOLEAN,
              rows : Nat, mishaps : 0..MaxMishaps]
JobRow == [status : JobStatuses, period : Periods]
BatchRow == [todo : SUBSET Jobs, doing : SUBSET Jobs, abandoned : SUBSET Periods]
ProofRow == [state : {"none", "linking", "stored", "lost"}, issued : 0..MaxSecond,
             previous : Proofs \cup {NoProof}, seen : SUBSET Proofs]
BuildRow == [pc : {"idle", "store"}, covers : SUBSET Proofs, failed : BOOLEAN, late : BOOLEAN]

\* The last hash, or one written since under an error, is among the rows of its
\* decision, and alone where the constraint is on the decision.
LastIsThere ==
  \A d \in Decisions : evidence[d] # {} =>
    \E h \in (doubtful[d] \cup {last[d]}) \ {NoHash} : h \in evidence[d] /\ (unique => evidence[d] = {h})

\* A message is inserted once for each mishap, and once for its acknowledgement.
RowsPaidFor ==
  \A m \in Records :
    /\ stream[m].form = "none" => ~stream[m].acked
    /\ stream[m].form = "valid" /\ stream[m].acked => stream[m].rows > 0
    /\ stream[m].rows <= stream[m].mishaps + (IF stream[m].acked THEN 1 ELSE 0)

\* A worker works on one job at a time, and on jobs that exist.
WorkersOnJobs ==
  \A w \in Workers :
    /\ \A j, k \in batch[w].doing : j = k
    /\ \A j \in batch[w].todo \cup batch[w].doing : jobs[j].status # "none"

\* A proof follows the newest of those it saw, and is not issued before it.
FollowsNewest ==
  \A p \in Proofs :
    /\ proofs[p].issued <= second
    /\ proofs[p].seen \subseteq Stored
    /\ proofs[p].previous # NoProof =>
         /\ proofs[p].previous \in Stored
         /\ \A q \in proofs[p].seen : proofs[q].issued <= proofs[proofs[p].previous].issued
         /\ proofs[p].state = "stored" => proofs[proofs[p].previous].issued <= proofs[p].issued

\* A build that is neither cut nor failed, and that no other root overtook, has
\* the proofs of the newest root.
BuildsCover ==
  \A b \in Builds : builds[b].pc = "store" =>
    \/ builds[b].failed \/ builds[b].late
    \/ Cardinality(builds[b].covers) = Cap \/ root \subseteq builds[b].covers

RecordsInv == /\ evidence \in [Decisions -> SUBSET Hashes] /\ updating \subseteq Decisions \X Hashes
              /\ last \in [Decisions -> Hashes \cup {NoHash}] /\ doubtful \in [Decisions -> SUBSET Hashes]
              /\ unique \in BOOLEAN /\ LastIsThere
StreamInv == stream \in [Records -> StreamRow] /\ RowsPaidFor
BatchInv == /\ jobs \in [Jobs -> JobRow] /\ batch \in [Workers -> BatchRow]
            /\ WorkersOnJobs /\ StuckOnlyWhenAbandoned
ChainInv == /\ proofs \in [Proofs -> ProofRow] /\ second \in 0..MaxSecond
            /\ FollowsNewest /\ IsFiniteSet(Stored)
            /\ builds \in [Builds -> BuildRow] /\ root \subseteq Stored
            /\ \A b \in Builds : builds[b].covers \subseteq Stored
            /\ BuildsCover

LedgerInv == RecordsInv /\ StreamInv /\ BatchInv /\ ChainInv

\* The invariant holds at first.
LEMMA LedgerInitInv == LedgerInit => LedgerInv
  <1>. SUFFICES ASSUME LedgerInit PROVE LedgerInv
    OBVIOUS
  <1>1. RecordsInv
    BY DEF LedgerInit, RecordsInv, LastIsThere
  <1>2. StreamInv
    BY LedgerBounds DEF LedgerInit, StreamInv, RowsPaidFor, StreamRow
  <1>3. BatchInv
    <2>1. PICK p \in Periods : jobs = [j \in Jobs |-> [status |-> "none", period |-> p]]
      BY DEF LedgerInit
    <2>. QED BY <2>1 DEF LedgerInit, BatchInv, WorkersOnJobs, StuckOnlyWhenAbandoned, JobRow,
                         BatchRow, JobStatuses
  <1>4. ChainInv
    <2>1. Stored = {}
      BY DEF LedgerInit, Stored
    <2>2. /\ builds \in [Builds -> BuildRow] /\ root = {}
          /\ \A b \in Builds : builds[b].pc = "idle" /\ builds[b].covers = {}
      BY DEF LedgerInit, NoBuild, BuildRow
    <2>. QED BY <2>1, <2>2, FS_EmptySet, LedgerBounds DEF LedgerInit, ChainInv, FollowsNewest, ProofRow, BuildsCover
  <1>. QED BY <1>1, <1>2, <1>3, <1>4 DEF LedgerInv

\* Evidence over gRPC, the stream, batch jobs and chains keep to their variables.
LEMMA RecordsKeep == RecordsInv /\ RecordsNext => RecordsInv'
  <1>. SUFFICES ASSUME RecordsInv, NEW d \in Decisions, NEW h \in Hashes,
                       RecordEvidence(d, h) \/ ReplaceEvidence(d, h)
                PROVE  RecordsInv'
    BY DEF RecordsNext
  <1>1. unique' = unique /\ updating' \subseteq Decisions \X Hashes
    BY DEF RecordEvidence, ReplaceEvidence, RecordsOnly, RecordsInv
  <1>2. CASE NotWritten
    <2>1. evidence' = evidence /\ last' = last /\ doubtful' = doubtful
      BY <1>2 DEF NotWritten
    <2>. QED BY <1>1, <2>1 DEF RecordsInv, LastIsThere
  <1>3. CASE (InsertEvidence(d, h) \/ UpdateEvidence(d, h)) /\ (Accepted(d, h) \/ Doubted(d, h))
    <2>1. /\ evidence' \in [Decisions -> SUBSET Hashes]
          /\ evidence'[d] # {} => h \in evidence'[d] /\ (unique => evidence'[d] = {h})
          /\ \A c \in Decisions : c # d => evidence'[c] = evidence[c]
      <3>1. CASE InsertEvidence(d, h)
        BY <3>1 DEF InsertEvidence, RecordsInv
      <3>2. CASE UpdateEvidence(d, h)
        BY <3>2 DEF UpdateEvidence, RecordsInv
      <3>. QED BY <1>3, <3>1, <3>2
    <2>2. /\ last' \in [Decisions -> Hashes \cup {NoHash}] /\ doubtful' \in [Decisions -> SUBSET Hashes]
          /\ h \in (doubtful'[d] \cup {last'[d]}) \ {NoHash}
          /\ \A c \in Decisions : c # d => last'[c] = last[c] /\ doubtful'[c] = doubtful[c]
      BY <1>3, LedgerBounds DEF Accepted, Doubted, RecordsInv
    <2>3. LastIsThere'
      <3>. SUFFICES ASSUME NEW c \in Decisions, evidence'[c] # {}
                    PROVE  \E g \in (doubtful'[c] \cup {last'[c]}) \ {NoHash} :
                             g \in evidence'[c] /\ (unique => evidence'[c] = {g})
        BY <1>1 DEF LastIsThere
      <3>1. CASE c = d
        BY <2>1, <2>2, <3>1
      <3>2. CASE c # d
        BY <2>1, <2>2, <3>2 DEF RecordsInv, LastIsThere
      <3>. QED BY <3>1, <3>2
    <2>. QED BY <1>1, <2>1, <2>2, <2>3 DEF RecordsInv
  <1>. QED BY <1>2, <1>3 DEF RecordEvidence, ReplaceEvidence

\* A message gets a row more only with a mishap more, or with its acknowledgement.
LEMMA StreamKeeps == StreamInv /\ StreamNext => StreamInv'
  <1>. SUFFICES ASSUME StreamInv, NEW m \in Records,
                       \/ StreamPublish(m) \/ DropIncomplete(m) \/ insertEvidence(m)
                       \/ InsertFails(m) \/ AckLost(m)
                PROVE  StreamInv'
    BY DEF StreamNext
  <1>. DEFINE Fits(row) ==
         /\ row \in StreamRow
         /\ row.form = "none" => ~row.acked
         /\ row.form = "valid" /\ row.acked => row.rows > 0
         /\ row.rows <= row.mishaps + (IF row.acked THEN 1 ELSE 0)
  <1>1. ASSUME NEW row, Fits(row), Streamed(m, row) PROVE StreamInv'
    BY <1>1 DEF Streamed, StreamInv, RowsPaidFor
  <1>2. stream[m] \in StreamRow /\ Fits(stream[m])
    BY DEF StreamInv, RowsPaidFor
  <1>3. CASE StreamPublish(m)
    <2>1. PICK f \in {"valid", "malformed", "incomplete"} : Streamed(m, [stream[m] EXCEPT !.form = f])
      BY <1>3 DEF StreamPublish
    <2>. DEFINE row == [stream[m] EXCEPT !.form = f]
    <2>2. row \in StreamRow /\ row.form = f /\ row.acked = stream[m].acked
            /\ row.rows = stream[m].rows /\ row.mishaps = stream[m].mishaps
      BY <1>2 DEF StreamRow
    <2>3. ~stream[m].acked
      BY <1>2, <1>3 DEF StreamPublish
    <2>. HIDE DEF row
    <2>4. Fits(row)
      BY <1>2, <2>2, <2>3
    <2>. QED BY <1>1, <2>1, <2>4 DEF row
  <1>4. CASE DropIncomplete(m)
    <2>. DEFINE row == [stream[m] EXCEPT !.acked = TRUE]
    <2>1. row \in StreamRow /\ row.form = stream[m].form /\ row.acked = TRUE
            /\ row.rows = stream[m].rows /\ row.mishaps = stream[m].mishaps
      BY <1>2, <1>4, LedgerBounds DEF DropIncomplete, StreamRow
    <2>. HIDE DEF row
    <2>2. Fits(row)
      BY <1>2, <1>4, <2>1 DEF DropIncomplete, StreamRow
    <2>. QED BY <1>1, <1>4, <2>2 DEF DropIncomplete, row
  <1>5. CASE insertEvidence(m)
    <2>. DEFINE n == stream[m].rows + 1
                row == [stream[m] EXCEPT !.rows = n, !.acked = TRUE]
    <2>1. n \in Nat
      BY <1>2, <1>5, LedgerBounds DEF insertEvidence, StreamRow
    <2>. HIDE DEF n
    <2>2. row \in StreamRow /\ row.form = stream[m].form /\ row.acked = TRUE
            /\ row.rows = n /\ row.mishaps = stream[m].mishaps
      BY <1>2, <2>1 DEF StreamRow
    <2>. HIDE DEF row
    <2>3. Fits(row)
      BY <1>2, <1>5, <2>1, <2>2 DEF insertEvidence, StreamRow, n
    <2>. QED BY <1>1, <1>5, <2>3 DEF insertEvidence, row, n
  <1>6. CASE InsertFails(m)
    <2>1. PICK kept \in 0..1 : Streamed(m, [stream[m] EXCEPT !.rows = @ + kept, !.mishaps = @ + 1])
      BY <1>6 DEF InsertFails
    <2>. DEFINE n == stream[m].rows + kept
                k == stream[m].mishaps + 1
                row == [stream[m] EXCEPT !.rows = n, !.mishaps = k]
    <2>2. n \in Nat /\ k \in 0..MaxMishaps
      BY <1>2, <1>6, LedgerBounds DEF InsertFails, StreamRow
    <2>. HIDE DEF n, k
    <2>3. row \in StreamRow /\ row.form = stream[m].form /\ row.acked = stream[m].acked
            /\ row.rows = n /\ row.mishaps = k
      BY <1>2, <2>2 DEF StreamRow
    <2>. HIDE DEF row
    <2>4. Fits(row)
      BY <1>2, <1>6, <2>2, <2>3 DEF InsertFails, StreamRow, n, k
    <2>. QED BY <1>1, <2>1, <2>4 DEF InsertFails, row, n, k
  <1>7. CASE AckLost(m)
    <2>. DEFINE k == stream[m].mishaps + 1
                row == [stream[m] EXCEPT !.acked = FALSE, !.mishaps = k]
    <2>1. k \in 0..MaxMishaps
      BY <1>2, <1>7, LedgerBounds DEF AckLost, StreamRow
    <2>. HIDE DEF k
    <2>2. row \in StreamRow /\ row.form = stream[m].form /\ row.acked = FALSE
            /\ row.rows = stream[m].rows /\ row.mishaps = k
      BY <1>2, <2>1 DEF StreamRow
    <2>. HIDE DEF row
    <2>3. Fits(row)
      BY <1>2, <1>7, <2>1, <2>2 DEF AckLost, StreamRow, k
    <2>. QED BY <1>1, <1>7, <2>3 DEF AckLost, row, k
  <1>. QED BY <1>3, <1>4, <1>5, <1>6, <1>7

\* A worker takes up jobs of its list only, and leaves one PROCESSING only by
\* giving up on its period.
LEMMA BatchKeeps == BatchInv /\ BatchNext => BatchInv'
  <1>. SUFFICES ASSUME BatchInv, BatchNext PROVE BatchInv'
    OBVIOUS
  <1>1. ASSUME NEW j \in Jobs, HandleCreateZKPBatchJob(j) PROVE BatchInv'
    <2>1. PICK p \in Periods, s \in {"PENDING", "unset"} :
            jobs' = [jobs EXCEPT ![j] = [status |-> s, period |-> p]]
      BY <1>1 DEF HandleCreateZKPBatchJob
    <2>2. jobs[j].status = "none" /\ batch' = batch
      BY <1>1 DEF HandleCreateZKPBatchJob
    <2>3. jobs' \in [Jobs -> JobRow]
      BY <2>1 DEF BatchInv, JobRow, JobStatuses
    <2>4. \A k \in Jobs : k = j \/ jobs'[k] = jobs[k]
      BY <2>1 DEF BatchInv
    <2>5. jobs'[j].status \in {"PENDING", "unset"}
      BY <2>1 DEF BatchInv
    <2>6. WorkersOnJobs'
      BY <2>2, <2>4, <2>5 DEF BatchInv, WorkersOnJobs, BatchRow
    <2>7. StuckOnlyWhenAbandoned'
      <3>. SUFFICES ASSUME NEW k \in Jobs, jobs'[k].status = "PROCESSING"
                    PROVE  \E w \in Workers : \/ \E i \in batch[w].doing : jobs'[i].period = jobs'[k].period
                                              \/ jobs'[k].period \in batch[w].abandoned
        BY <2>2 DEF StuckOnlyWhenAbandoned
      <3>1. k # j /\ jobs'[k] = jobs[k]
        BY <2>4, <2>5
      <3>2. PICK w \in Workers : \/ \E i \in batch[w].doing : jobs[i].period = jobs[k].period
                                 \/ jobs[k].period \in batch[w].abandoned
        BY <3>1 DEF BatchInv, StuckOnlyWhenAbandoned
      <3>3. \A i \in batch[w].doing : i \in Jobs /\ i # j
        BY <2>2 DEF BatchInv, WorkersOnJobs, BatchRow
      <3>. QED BY <2>4, <3>1, <3>2, <3>3
    <2>. QED BY <2>2, <2>3, <2>6, <2>7 DEF BatchInv
  <1>2. ASSUME NEW w \in Workers, ListPendingJobs(w) PROVE BatchInv'
    <2>1. jobs' = jobs /\ batch' = [batch EXCEPT ![w].todo = {j \in Jobs : jobs[j].status = "PENDING"}]
      BY <1>2 DEF ListPendingJobs
    <2>2. batch' \in [Workers -> BatchRow]
      BY <2>1 DEF BatchInv, BatchRow
    <2>3. \A v \in Workers : batch'[v].doing = batch[v].doing /\ batch'[v].abandoned = batch[v].abandoned
      BY <2>1 DEF BatchInv
    <2>4. WorkersOnJobs'
      BY <2>1, <2>3 DEF BatchInv, WorkersOnJobs
    <2>5. StuckOnlyWhenAbandoned'
      BY <2>1, <2>3 DEF BatchInv, StuckOnlyWhenAbandoned
    <2>. QED BY <2>1, <2>2, <2>4, <2>5 DEF BatchInv
  <1>3. ASSUME NEW w \in Workers, MarkProcessing(w) PROVE BatchInv'
    <2>1. PICK j \in batch[w].todo :
            \/ /\ SetStatus(j, "PROCESSING")
               /\ \/ batch' = [batch EXCEPT ![w] = [batch[w] EXCEPT !.todo = @ \ {j}, !.doing = {j}]]
                  \/ batch' = [batch EXCEPT ![w] = [batch[w] EXCEPT !.todo = @ \ {j},
                                                                    !.abandoned = @ \cup {jobs[j].period}]]
            \/ batch' = [batch EXCEPT ![w].todo = @ \ {j}] /\ UNCHANGED jobs
      BY <1>3 DEF MarkProcessing
    <2>2. j \in Jobs /\ batch[w].doing = {} /\ batch[w] \in BatchRow /\ jobs[j].period \in Periods
      BY <1>3 DEF BatchInv, BatchRow, JobRow, MarkProcessing
    <2>3. CASE UNCHANGED jobs /\ batch' = [batch EXCEPT ![w].todo = @ \ {j}]
      <3>1. batch' \in [Workers -> BatchRow]
        BY <2>3 DEF BatchInv, BatchRow
      <3>2. \A v \in Workers : batch'[v].doing = batch[v].doing /\ batch'[v].abandoned = batch[v].abandoned
                                /\ batch'[v].todo \subseteq batch[v].todo
        BY <2>3 DEF BatchInv
      <3>. QED BY <2>3, <3>1, <3>2 DEF BatchInv, WorkersOnJobs, StuckOnlyWhenAbandoned
    <2>4. ASSUME SetStatus(j, "PROCESSING"), NEW row \in BatchRow, batch' = [batch EXCEPT ![w] = row],
                 row.todo = batch[w].todo \ {j}, batch[w].abandoned \subseteq row.abandoned,
                 row.doing = {j} \/ (row.doing = {} /\ jobs[j].period \in row.abandoned)
          PROVE  BatchInv'
      <3>1. batch' \in [Workers -> BatchRow] /\ batch'[w] = row
        BY <2>4 DEF BatchInv
      <3>2. \A v \in Workers : /\ batch[v].abandoned \subseteq batch'[v].abandoned
                               /\ batch'[v].todo \subseteq batch[v].todo
                               /\ v # w => batch'[v].doing = batch[v].doing
        BY <2>4 DEF BatchInv
      <3>3. jobs' = [k \in Jobs |-> IF k \in SameId(j)
                       THEN [jobs[k] EXCEPT !.status = "PROCESSING"] ELSE jobs[k]]
        BY <2>4 DEF SetStatus
      <3>4. jobs' \in [Jobs -> JobRow]
        BY <3>3 DEF BatchInv, JobRow, JobStatuses
      <3>5. \A k \in Jobs : /\ jobs'[k].period = jobs[k].period
                            /\ k \in SameId(j) => jobs'[k].status = "PROCESSING"
                            /\ k \notin SameId(j) => jobs'[k] = jobs[k]
        BY <3>3 DEF BatchInv, JobRow
      <3>6. WorkersOnJobs'
        <4>1. \A k \in Jobs : jobs[k].status # "none" => jobs'[k].status # "none"
          BY <3>5
        <4>2. ASSUME NEW v \in Workers
              PROVE  /\ \A i, k \in batch'[v].doing : i = k
                     /\ \A i \in batch'[v].todo \cup batch'[v].doing : jobs'[i].status # "none"
          <5>1. /\ \A i, k \in batch[v].doing : i = k
                /\ \A i \in batch[v].todo \cup batch[v].doing : i \in Jobs /\ jobs[i].status # "none"
            BY DEF BatchInv, WorkersOnJobs, BatchRow
          <5>2. jobs[j].status # "none"
            BY <2>1 DEF BatchInv, WorkersOnJobs
          <5>3. CASE v = w
            BY <2>2, <2>4, <3>1, <3>2, <4>1, <5>1, <5>2, <5>3
          <5>4. CASE v # w
            BY <3>2, <4>1, <5>1, <5>4
          <5>. QED BY <5>3, <5>4
        <4>. QED BY <4>2 DEF WorkersOnJobs
      <3>7. ASSUME NEW k \in Jobs, jobs'[k].status = "PROCESSING"
            PROVE  \E v \in Workers : \/ \E i \in batch'[v].doing : jobs'[i].period = jobs'[k].period
                                      \/ jobs'[k].period \in batch'[v].abandoned
        <4>1. CASE k \in SameId(j)
          <5>1. jobs'[k].period = jobs'[j].period /\ jobs'[j].period = jobs[j].period
            BY <2>2, <3>5, <4>1 DEF SameId
          <5>. QED BY <2>4, <3>1, <5>1
        <4>2. CASE k \notin SameId(j)
          <5>1. PICK v \in Workers : \/ \E i \in batch[v].doing : jobs[i].period = jobs[k].period
                                     \/ jobs[k].period \in batch[v].abandoned
            BY <3>5, <3>7, <4>2 DEF BatchInv, StuckOnlyWhenAbandoned
          <5>2. batch[v].doing \subseteq Jobs /\ (batch[v].doing # {} => v # w)
            BY <2>2 DEF BatchInv, BatchRow
          <5>. QED BY <3>2, <3>5, <5>1, <5>2
        <4>. QED BY <4>1, <4>2
      <3>. QED BY <3>1, <3>4, <3>6, <3>7 DEF BatchInv, StuckOnlyWhenAbandoned
    <2>. DEFINE begun == [batch[w] EXCEPT !.todo = @ \ {j}, !.doing = {j}]
                skipped == [batch[w] EXCEPT !.todo = @ \ {j}, !.abandoned = @ \cup {jobs[j].period}]
    <2>5. /\ begun \in BatchRow /\ begun.todo = batch[w].todo \ {j} /\ begun.doing = {j}
          /\ begun.abandoned = batch[w].abandoned
      BY <2>2 DEF BatchRow
    <2>6. /\ skipped \in BatchRow /\ skipped.todo = batch[w].todo \ {j} /\ skipped.doing = {}
          /\ skipped.abandoned = batch[w].abandoned \cup {jobs[j].period}
      BY <2>2 DEF BatchRow
    <2>7. \/ SetStatus(j, "PROCESSING") /\ batch' = [batch EXCEPT ![w] = begun]
          \/ SetStatus(j, "PROCESSING") /\ batch' = [batch EXCEPT ![w] = skipped]
          \/ UNCHANGED jobs /\ batch' = [batch EXCEPT ![w].todo = @ \ {j}]
      BY <2>1
    <2>. HIDE DEF begun, skipped
    <2>8. CASE SetStatus(j, "PROCESSING") /\ batch' = [batch EXCEPT ![w] = begun]
      BY <2>4, <2>5, <2>8
    <2>9. CASE SetStatus(j, "PROCESSING") /\ batch' = [batch EXCEPT ![w] = skipped]
      BY <2>4, <2>6, <2>9
    <2>. QED BY <2>3, <2>7, <2>8, <2>9
  <1>4. ASSUME NEW w \in Workers, MarkCompleted(w) PROVE BatchInv'
    <2>1. PICK j \in batch[w].doing :
            \/ /\ jobs' = [k \in Jobs |-> IF k \in SameId(j)
                             THEN [jobs[k] EXCEPT !.status = "COMPLETED"] ELSE jobs[k]]
               /\ batch' = [batch EXCEPT ![w].doing = {}]
            \/ /\ batch' = [batch EXCEPT ![w] = [batch[w] EXCEPT !.doing = {}, !.abandoned = @ \cup {jobs[j].period}]]
               /\ UNCHANGED jobs
      BY <1>4 DEF MarkCompleted, SetStatus
    <2>2. j \in Jobs /\ \A i \in batch[w].doing : i = j
      BY DEF BatchInv, BatchRow, WorkersOnJobs
    <2>a. PICK row \in BatchRow : /\ row.doing = {} /\ row.todo = batch[w].todo
                                  /\ batch[w].abandoned \subseteq row.abandoned
                                  /\ batch' = [batch EXCEPT ![w] = row]
      <3>1. batch[w] \in BatchRow /\ jobs[j].period \in Periods
        BY <2>2 DEF BatchInv, JobRow
      <3>2. CASE batch' = [batch EXCEPT ![w].doing = {}]
        <4>. DEFINE row == [batch[w] EXCEPT !.doing = {}]
        <4>1. row \in BatchRow /\ row.doing = {} /\ row.todo = batch[w].todo /\ row.abandoned = batch[w].abandoned
          BY <3>1 DEF BatchRow
        <4>2. batch' = [batch EXCEPT ![w] = row]
          BY <3>2
        <4>. QED BY <4>1, <4>2
      <3>3. CASE batch' = [batch EXCEPT ![w] = [batch[w] EXCEPT !.doing = {}, !.abandoned = @ \cup {jobs[j].period}]]
        <4>. DEFINE row == [batch[w] EXCEPT !.doing = {}, !.abandoned = @ \cup {jobs[j].period}]
        <4>1. /\ row \in BatchRow /\ row.doing = {} /\ row.todo = batch[w].todo
              /\ row.abandoned = batch[w].abandoned \cup {jobs[j].period}
          BY <3>1 DEF BatchRow
        <4>2. batch' = [batch EXCEPT ![w] = row]
          BY <3>3
        <4>. QED BY <4>1, <4>2
      <3>. QED BY <2>1, <3>2, <3>3
    <2>3. batch'[w].doing = {} /\ batch' \in [Workers -> BatchRow]
      BY <2>a DEF BatchInv
    <2>4. \A v \in Workers : /\ batch'[v].todo = batch[v].todo
                             /\ batch[v].abandoned \subseteq batch'[v].abandoned
                             /\ v # w => batch'[v].doing = batch[v].doing
      BY <2>a DEF BatchInv
    <2>5. \A k \in Jobs : /\ jobs'[k].period = jobs[k].period
                          /\ jobs[k].status # "none" => jobs'[k].status # "none"
                          /\ jobs'[k].status = "PROCESSING" => jobs[k].status = "PROCESSING"
      BY <2>1 DEF BatchInv, JobRow
    <2>6. jobs' \in [Jobs -> JobRow]
      BY <2>1 DEF BatchInv, JobRow, JobStatuses
    <2>7. WorkersOnJobs'
      BY <2>3, <2>4, <2>5 DEF BatchInv, WorkersOnJobs, BatchRow
    <2>8. ASSUME NEW k \in Jobs, jobs'[k].status = "PROCESSING"
          PROVE  \E v \in Workers : \/ \E i \in batch'[v].doing : jobs'[i].period = jobs'[k].period
                                    \/ jobs'[k].period \in batch'[v].abandoned
      <3>1. PICK v \in Workers : \/ \E i \in batch[v].doing : jobs[i].period = jobs[k].period
                                 \/ jobs[k].period \in batch[v].abandoned
        BY <2>5, <2>8 DEF BatchInv, StuckOnlyWhenAbandoned
      <3>2. CASE jobs[k].period \in batch[v].abandoned \/ v # w
        <4>1. batch[v].doing \subseteq Jobs
          BY DEF BatchInv, BatchRow
        <4>. QED BY <2>4, <2>5, <3>1, <3>2, <4>1
      <3>3. CASE v = w /\ \E i \in batch[v].doing : jobs[i].period = jobs[k].period
        <4>1. jobs[j].period = jobs[k].period
          BY <2>2, <3>3
        <4>2. jobs[k].status = "PROCESSING"
          BY <2>5, <2>8
        <4>3. k \in SameId(j)
          BY <4>1, <4>2 DEF SameId
        <4>4. CASE jobs' = [i \in Jobs |-> IF i \in SameId(j)
                              THEN [jobs[i] EXCEPT !.status = "COMPLETED"] ELSE jobs[i]]
          <5>1. jobs[k] \in JobRow
            BY DEF BatchInv
          <5>2. jobs'[k] = [jobs[k] EXCEPT !.status = "COMPLETED"]
            BY <4>3, <4>4
          <5>. QED BY <2>8, <5>1, <5>2 DEF JobRow
        <4>5. CASE batch' = [batch EXCEPT ![w] = [batch[w] EXCEPT !.doing = {}, !.abandoned = @ \cup {jobs[j].period}]]
          <5>1. jobs[j].period \in batch'[w].abandoned
            <6>1. batch[w] \in BatchRow
              BY DEF BatchInv
            <6>2. batch'[w] = [batch[w] EXCEPT !.doing = {}, !.abandoned = @ \cup {jobs[j].period}]
              BY <4>5 DEF BatchInv
            <6>. QED BY <6>1, <6>2 DEF BatchRow
          <5>. QED BY <2>5, <4>1, <5>1
        <4>. QED BY <2>1, <4>4, <4>5
      <3>. QED BY <3>1, <3>2, <3>3
    <2>. QED BY <2>3, <2>6, <2>7, <2>8 DEF BatchInv, StuckOnlyWhenAbandoned
  <1>5. ASSUME NEW w \in Workers, BatchWorkerStops(w) PROVE BatchInv'
    <2>. DEFINE left == {jobs[j].period : j \in batch[w].doing}
    <2>1. jobs' = jobs /\ batch' = [batch EXCEPT ![w] = [batch[w] EXCEPT !.todo = {}, !.doing = {},
                                                                         !.abandoned = @ \cup left]]
      BY <1>5 DEF BatchWorkerStops
    <2>2. left \subseteq Periods /\ \A j \in batch[w].doing : jobs[j].period \in left
      BY DEF BatchInv, BatchRow, JobRow
    <2>. HIDE DEF left
    <2>. DEFINE row == [batch[w] EXCEPT !.todo = {}, !.doing = {}, !.abandoned = @ \cup left]
    <2>a. row \in BatchRow /\ row.todo = {} /\ row.doing = {} /\ row.abandoned = batch[w].abandoned \cup left
      BY <2>2 DEF BatchInv, BatchRow
    <2>b. batch' = [batch EXCEPT ![w] = row]
      BY <2>1
    <2>. HIDE DEF row
    <2>3. batch' \in [Workers -> BatchRow]
      BY <2>a, <2>b DEF BatchInv
    <2>4. /\ batch'[w].todo = {} /\ batch'[w].doing = {}
          /\ \A j \in batch[w].doing : jobs[j].period \in batch'[w].abandoned
          /\ batch[w].abandoned \subseteq batch'[w].abandoned
          /\ \A v \in Workers : v # w => batch'[v] = batch[v]
      BY <2>2, <2>a, <2>b DEF BatchInv
    <2>5. WorkersOnJobs'
      BY <2>1, <2>4 DEF BatchInv, WorkersOnJobs
    <2>6. StuckOnlyWhenAbandoned'
      BY <2>1, <2>4 DEF BatchInv, StuckOnlyWhenAbandoned
    <2>. QED BY <2>1, <2>3, <2>5, <2>6 DEF BatchInv
  <1>. QED BY <1>1, <1>2, <1>3, <1>4, <1>5 DEF BatchNext

\* A new proof follows the newest that was stored when it looked, and proofs are
\* counted in whole seconds.
LEMMA ChainKeeps == ChainInv /\ ChainNext => ChainInv'
  <1>. SUFFICES ASSUME ChainInv, ChainNext PROVE ChainInv'
    OBVIOUS
  <1>1. ASSUME NEW b \in Builds, ReadProofs(b) PROVE ChainInv'
    <2>1. PICK row : /\ row = [NoBuild EXCEPT !.pc = "store", !.failed = TRUE]
                       \/ \E covers \in Truncated(Stored) : row = [NoBuild EXCEPT !.pc = "store", !.covers = covers]
                     /\ builds' = [builds EXCEPT ![b] = row]
      BY <1>1 DEF ReadProofs
    <2>2. UNCHANGED <<proofs, second, root>> /\ Stored' = Stored /\ Stored \subseteq Proofs
      BY <1>1 DEF ReadProofs, Stored
    <2>3. row \in BuildRow /\ row.covers \subseteq Stored
      BY <2>1, <2>2 DEF NoBuild, BuildRow, Truncated
    <2>4. row.failed \/ Cardinality(row.covers) = Cap \/ root \subseteq row.covers
      <3>1. CASE row = [NoBuild EXCEPT !.pc = "store", !.failed = TRUE]
        BY <3>1 DEF NoBuild
      <3>2. ASSUME NEW covers \in Truncated(Stored), row = [NoBuild EXCEPT !.pc = "store", !.covers = covers]
            PROVE  Cardinality(row.covers) = Cap \/ root \subseteq row.covers
        <4>1. row.covers = covers /\ covers \subseteq Stored
          BY <3>2 DEF NoBuild, Truncated
        <4>2. CASE Cardinality(Stored) > Cap
          BY <3>2, <4>1, <4>2 DEF Truncated
        <4>3. CASE ~(Cardinality(Stored) > Cap)
          <5>1. Cardinality(covers) = Cardinality(Stored)
            BY <3>2, <4>3 DEF Truncated
          <5>2. covers = Stored
            BY <4>1, <5>1, FS_Subset DEF ChainInv
          <5>. QED BY <4>1, <5>2 DEF ChainInv
        <4>. QED BY <4>2, <4>3
      <3>. QED BY <2>1, <3>1, <3>2
    <2>5. /\ builds' \in [Builds -> BuildRow] /\ builds'[b] = row
          /\ \A c \in Builds : c # b => builds'[c] = builds[c]
      BY <2>1, <2>3 DEF ChainInv
    <2>6. BuildsCover' /\ \A c \in Builds : builds'[c].covers \subseteq Stored
      BY <2>2, <2>3, <2>4, <2>5 DEF ChainInv, BuildsCover
    <2>7. FollowsNewest'
      BY <2>2 DEF ChainInv, FollowsNewest
    <2>. QED BY <2>2, <2>5, <2>6, <2>7 DEF ChainInv
  <1>5. ASSUME NEW b \in Builds, HandleGenerateProofChain(b) PROVE ChainInv'
    <2>1. UNCHANGED <<proofs, second>> /\ Stored' = Stored
      BY <1>5 DEF HandleGenerateProofChain, Stored
    <2>2. FollowsNewest'
      BY <2>1 DEF ChainInv, FollowsNewest
    <2>3. NoBuild \in BuildRow /\ NoBuild.pc = "idle" /\ NoBuild.covers = {}
      BY DEF NoBuild, BuildRow
    <2>4. CASE UNCHANGED root /\ builds' = [builds EXCEPT ![b] = NoBuild]
      <3>1. /\ builds' \in [Builds -> BuildRow] /\ builds'[b] = NoBuild
            /\ \A c \in Builds : c # b => builds'[c] = builds[c]
        BY <2>3, <2>4 DEF ChainInv
      <3>2. BuildsCover' /\ \A c \in Builds : builds'[c].covers \subseteq Stored
        BY <2>3, <2>4, <3>1 DEF ChainInv, BuildsCover
      <3>. QED BY <2>1, <2>2, <2>4, <3>1, <3>2 DEF ChainInv
    <2>5. CASE /\ root' = builds[b].covers
               /\ builds' = [c \in Builds |-> IF c = b THEN NoBuild
                                              ELSE [builds[c] EXCEPT !.late = builds[c].pc = "store"]]
      <3>. DEFINE stored(c) == builds[c].pc = "store"
                  other(c) == [builds[c] EXCEPT !.late = stored(c)]
      <3>1. builds' = [c \in Builds |-> IF c = b THEN NoBuild ELSE other(c)]
        BY <2>5
      <3>2. \A c \in Builds : stored(c) \in BOOLEAN /\ (builds[c].pc = "store" => stored(c))
        OBVIOUS
      <3>. HIDE DEF stored
      <3>3. ASSUME NEW c \in Builds
            PROVE  /\ other(c) \in BuildRow /\ other(c).pc = builds[c].pc /\ other(c).late = stored(c)
                   /\ other(c).covers = builds[c].covers
        <4>1. builds[c] \in BuildRow
          BY DEF ChainInv
        <4>. QED BY <3>2, <4>1 DEF BuildRow
      <3>. HIDE DEF other
      <3>4. /\ builds' \in [Builds -> BuildRow] /\ builds'[b] = NoBuild
            /\ \A c \in Builds : c # b => builds'[c] = other(c)
        BY <2>3, <3>1, <3>3
      <3>5. BuildsCover'
        BY <2>3, <3>2, <3>3, <3>4 DEF BuildsCover
      <3>6. root' \subseteq Stored /\ \A c \in Builds : builds'[c].covers \subseteq Stored
        BY <2>3, <2>5, <3>3, <3>4 DEF ChainInv
      <3>. QED BY <2>1, <2>2, <3>4, <3>5, <3>6 DEF ChainInv
    <2>. QED BY <1>5, <2>4, <2>5 DEF HandleGenerateProofChain
  <1>2. CASE NextSecond
    <2>1. second' \in 0..MaxSecond /\ second' > second /\ UNCHANGED <<proofs, root, builds>>
      BY <1>2, LedgerBounds DEF NextSecond, ChainInv
    <2>2. \A p \in Proofs : proofs[p].issued \in Int
      BY LedgerBounds DEF ChainInv, ProofRow
    <2>3. FollowsNewest'
      BY <2>1, <2>2 DEF ChainInv, FollowsNewest, Stored
    <2>4. BuildsCover' /\ Stored' = Stored
      BY <2>1 DEF ChainInv, BuildsCover, Stored
    <2>. QED BY <2>1, <2>3, <2>4 DEF ChainInv
  <1>3. ASSUME NEW p \in Proofs, ReadPrevious(p) PROVE ChainInv'
    <2>1. PICK q \in Newest(Stored) \cup {NoProof} :
            /\ q = NoProof \/ q \in Stored
            /\ proofs' = [proofs EXCEPT ![p] = [proofs[p] EXCEPT !.state = "linking", !.previous = q,
                                                                 !.seen = Stored]]
      BY <1>3 DEF ReadPrevious
    <2>2. proofs[p].state = "none" /\ UNCHANGED <<second, root, builds>>
      BY <1>3 DEF ReadPrevious
    <2>. DEFINE row == [proofs[p] EXCEPT !.state = "linking", !.previous = q, !.seen = Stored]
    <2>3. row \in ProofRow /\ row.state = "linking" /\ row.previous = q /\ row.seen = Stored
            /\ row.issued = proofs[p].issued
      <3>1. q \in Proofs \cup {NoProof} /\ Stored \subseteq Proofs
        BY <2>1 DEF Stored
      <3>2. proofs[p] \in ProofRow
        BY DEF ChainInv
      <3>. QED BY <3>1, <3>2 DEF ProofRow
    <2>. HIDE DEF row
    <2>4. proofs' = [proofs EXCEPT ![p] = row]
      BY <2>1 DEF row
    <2>5. proofs' \in [Proofs -> ProofRow] /\ proofs'[p] = row
            /\ \A r \in Proofs : r # p => proofs'[r] = proofs[r]
      BY <2>3, <2>4 DEF ChainInv
    <2>6. Stored' = Stored /\ p \notin Stored
      BY <2>2, <2>3, <2>5 DEF Stored
    <2>7. q # NoProof => q \in Stored /\ \A r \in Stored : proofs[r].issued <= proofs[q].issued
      BY <2>1 DEF Newest
    <2>8. FollowsNewest'
      <3>. SUFFICES ASSUME NEW r \in Proofs
                    PROVE  /\ proofs'[r].issued <= second
                           /\ proofs'[r].seen \subseteq Stored
                           /\ proofs'[r].previous # NoProof =>
                                /\ proofs'[r].previous \in Stored
                                /\ \A s \in proofs'[r].seen :
                                     proofs'[s].issued <= proofs'[proofs'[r].previous].issued
                                /\ proofs'[r].state = "stored" =>
                                     proofs'[proofs'[r].previous].issued <= proofs'[r].issued
        BY <2>2, <2>6 DEF FollowsNewest
      <3>1. Stored \subseteq Proofs /\ \A s \in Stored : proofs'[s] = proofs[s]
        BY <2>5, <2>6 DEF Stored
      <3>2. CASE r = p
        BY <2>3, <2>5, <2>7, <3>1, <3>2 DEF ChainInv, FollowsNewest
      <3>3. CASE r # p
        BY <2>5, <3>1, <3>3 DEF ChainInv, FollowsNewest
      <3>. QED BY <3>2, <3>3
    <2>9. BuildsCover'
      BY <2>2 DEF ChainInv, BuildsCover
    <2>. QED BY <2>2, <2>5, <2>6, <2>8, <2>9 DEF ChainInv
  <1>4. ASSUME NEW p \in Proofs, HandleGenerateZKPProof(p) PROVE ChainInv'
    <2>1. PICK state \in {"stored", "lost"} :
            proofs' = [proofs EXCEPT ![p] = [@ EXCEPT !.state = state, !.issued = second]]
      BY <1>4 DEF HandleGenerateZKPProof
    <2>2. proofs[p].state = "linking" /\ UNCHANGED <<second, root, builds>>
      BY <1>4 DEF HandleGenerateZKPProof
    <2>3. proofs[p] \in ProofRow
      BY DEF ChainInv
    <2>. DEFINE row == [proofs[p] EXCEPT !.state = state, !.issued = second]
    <2>4. row \in ProofRow /\ row.state = state /\ row.issued = second
            /\ row.previous = proofs[p].previous /\ row.seen = proofs[p].seen
      BY <2>3 DEF ChainInv, ProofRow
    <2>5. proofs' = [proofs EXCEPT ![p] = row]
      BY <2>1 DEF ChainInv
    <2>. HIDE DEF row
    <2>6. proofs' \in [Proofs -> ProofRow] /\ proofs'[p] = row
            /\ \A r \in Proofs : r # p => proofs'[r] = proofs[r]
      BY <2>4, <2>5 DEF ChainInv
    <2>7. p \notin Stored /\ Stored' \in {Stored, Stored \cup {p}}
      <3>1. \A r \in Proofs : r # p => (r \in Stored' <=> r \in Stored)
        BY <2>6 DEF Stored
      <3>2. p \notin Stored /\ Stored \subseteq Proofs /\ Stored' \subseteq Proofs
        BY <2>2 DEF Stored
      <3>. QED BY <3>1, <3>2
    <2>8. \A s \in Stored : s \in Proofs /\ s \in Stored' /\ proofs'[s] = proofs[s]
      BY <2>6, <2>7 DEF Stored
    <2>9. \A r \in Proofs : proofs[r].issued \in Int
      BY LedgerBounds DEF ChainInv, ProofRow
    <2>10. FollowsNewest'
      <3>. SUFFICES ASSUME NEW r \in Proofs
                    PROVE  /\ proofs'[r].issued <= second
                           /\ proofs'[r].seen \subseteq Stored'
                           /\ proofs'[r].previous # NoProof =>
                                /\ proofs'[r].previous \in Stored'
                                /\ \A s \in proofs'[r].seen :
                                     proofs'[s].issued <= proofs'[proofs'[r].previous].issued
                                /\ proofs'[r].state = "stored" =>
                                     proofs'[proofs'[r].previous].issued <= proofs'[r].issued
        BY <2>2 DEF FollowsNewest
      <3>1. /\ proofs[r].seen \subseteq Stored
            /\ proofs[r].previous # NoProof =>
                 /\ proofs[r].previous \in Stored
                 /\ \A s \in proofs[r].seen : proofs[s].issued <= proofs[proofs[r].previous].issued
        BY DEF ChainInv, FollowsNewest
      <3>2. second \in Int
        BY LedgerBounds DEF ChainInv
      <3>3. CASE r = p
        BY <2>4, <2>6, <2>8, <3>1, <3>2, <3>3 DEF ChainInv, FollowsNewest
      <3>4. CASE r # p
        BY <2>6, <2>8, <3>1, <3>4 DEF ChainInv, FollowsNewest
      <3>. QED BY <3>3, <3>4
    <2>11. IsFiniteSet(Stored')
      BY <2>7, FS_AddElement DEF ChainInv
    <2>12. BuildsCover'
      BY <2>2 DEF ChainInv, BuildsCover
    <2>13. root' \subseteq Stored' /\ \A b \in Builds : builds'[b].covers \subseteq Stored'
      BY <2>2, <2>7 DEF ChainInv
    <2>. QED BY <2>2, <2>6, <2>10, <2>11, <2>12, <2>13 DEF ChainInv
  <1>. QED BY <1>1, <1>2, <1>3, <1>4, <1>5 DEF ChainNext

\* A step of one kind leaves the variables of the others alone.
LEMMA RecordsApart == RecordsNext => UNCHANGED <<unique, stream, batchVars, chainVars>>
  BY DEF RecordsNext, RecordEvidence, ReplaceEvidence, RecordsOnly

\* The consumer of the stream touches no other table.
LEMMA StreamApart == StreamNext => UNCHANGED <<recordsVars, batchVars, chainVars>>
  BY DEF StreamNext, StreamPublish, DropIncomplete, insertEvidence, InsertFails, AckLost, Streamed

\* Nor do the batch workers.
LEMMA BatchApart == BatchNext => UNCHANGED <<recordsVars, stream, chainVars>>
  BY DEF BatchNext, HandleCreateZKPBatchJob, ListPendingJobs, MarkProcessing, MarkCompleted,
         BatchWorkerStops, BatchUnchanged

\* Nor do the proofs and their chains.
LEMMA ChainApart == ChainNext => UNCHANGED <<recordsVars, stream, batchVars>>
  BY DEF ChainNext, ReadPrevious, HandleGenerateZKPProof, ReadProofs, HandleGenerateProofChain, NextSecond,
         ChainUnchanged

\* What does not move keeps its part of the invariant.
LEMMA LedgerStill ==
  /\ RecordsInv /\ UNCHANGED recordsVars => RecordsInv'
  /\ StreamInv /\ UNCHANGED stream => StreamInv'
  /\ BatchInv /\ UNCHANGED batchVars => BatchInv'
  /\ ChainInv /\ UNCHANGED chainVars => ChainInv'
  <1>1. RecordsInv /\ UNCHANGED recordsVars => RecordsInv'
    BY DEF RecordsInv, LastIsThere, recordsVars
  <1>2. StreamInv /\ UNCHANGED stream => StreamInv'
    BY DEF StreamInv, RowsPaidFor
  <1>3. BatchInv /\ UNCHANGED batchVars => BatchInv'
    BY DEF BatchInv, WorkersOnJobs, StuckOnlyWhenAbandoned, batchVars
  <1>4. ChainInv /\ UNCHANGED chainVars => ChainInv'
    BY DEF ChainInv, FollowsNewest, BuildsCover, Stored, chainVars
  <1>. QED BY <1>1, <1>2, <1>3, <1>4

\* The invariant is kept, part by part.
LEMMA LedgerStep == LedgerInv /\ [LedgerNext]_ledgerVars => LedgerInv'
  <1>1. LedgerInv /\ RecordsNext => LedgerInv'
    BY RecordsKeep, RecordsApart, LedgerStill DEF LedgerInv
  <1>2. LedgerInv /\ StreamNext => LedgerInv'
    BY StreamKeeps, StreamApart, LedgerStill DEF LedgerInv
  <1>3. LedgerInv /\ BatchNext => LedgerInv'
    BY BatchKeeps, BatchApart, LedgerStill DEF LedgerInv
  <1>4. LedgerInv /\ ChainNext => LedgerInv'
    BY ChainKeeps, ChainApart, LedgerStill DEF LedgerInv
  <1>5. LedgerInv /\ UNCHANGED ledgerVars => LedgerInv'
    BY LedgerStill DEF LedgerInv, ledgerVars
  <1>. QED BY <1>1, <1>2, <1>3, <1>4, <1>5 DEF LedgerNext

\* The inductive invariant of the ledger.
THEOREM LedgerInvariant == LedgerSpec => []LedgerInv
  BY LedgerInitInv, LedgerStep, PTL DEF LedgerSpec

\* The parts of the invariant include the types of the ledger.
LEMMA LedgerTyped == LedgerInv => LedgerTypeOK
  BY DEF LedgerInv, RecordsInv, StreamInv, BatchInv, ChainInv, LedgerTypeOK, StreamRow, JobRow,
         BatchRow, ProofRow, BuildRow, Stored

\* Wherever a decision has a row, the hash it was last recorded with verifies,
\* or one written since by a call that answered an error; and a message of the stream is acknowledged only once inserted,
\* repeated only for a mishap: LedgerServer and LedgerConsumer.
THEOREM EvidenceIsKept == LedgerSpec => []EvidenceKept
  <1>1. LedgerInv => LastHashVerifies
    <2>. SUFFICES ASSUME RecordsInv, NEW d \in Decisions, evidence[d] # {}
                  PROVE  \E h \in (doubtful[d] \cup {last[d]}) \ {NoHash} :
                           /\ "valid" \in VerifyEvidence(d, h)
                           /\ unique => "mismatch" \notin VerifyEvidence(d, h) /\ GetEvidence(d) = {h}
      BY DEF LastHashVerifies, LedgerInv
    <2>1. PICK h \in (doubtful[d] \cup {last[d]}) \ {NoHash} :
            h \in evidence[d] /\ (unique => evidence[d] = {h})
      BY DEF RecordsInv, LastIsThere
    <2>2. "valid" \in VerifyEvidence(d, h)
      BY <2>1 DEF VerifyEvidence
    <2>3. unique => "mismatch" \notin VerifyEvidence(d, h) /\ GetEvidence(d) = {h}
      BY <2>1 DEF VerifyEvidence, GetEvidence
    <2>. QED BY <2>2, <2>3
  <1>2. LedgerInv => AckedIsInserted
    <2>. SUFFICES ASSUME StreamInv, NEW m \in Records
                  PROVE  /\ stream[m].form = "valid" /\ stream[m].acked => stream[m].rows > 0
                         /\ stream[m].rows <= stream[m].mishaps + 1
      BY DEF AckedIsInserted, LedgerInv
    <2>1. stream[m].rows \in Int /\ stream[m].mishaps \in Int
      BY LedgerBounds DEF StreamInv, StreamRow
    <2>. QED BY <2>1 DEF StreamInv, RowsPaidFor
  <1>. QED BY <1>1, <1>2, LedgerInvariant, PTL DEF EvidenceKept

\* A batch job is left PROCESSING only under a worker that is at a job of its
\* period, or for a period a worker gave up on: MarkProcessing, MarkCompleted.
THEOREM StuckWasAbandoned == LedgerSpec => []StuckOnlyWhenAbandoned
  <1>1. LedgerInv => StuckOnlyWhenAbandoned
    BY DEF LedgerInv, BatchInv
  <1>. QED BY <1>1, LedgerInvariant, PTL

\* Two proofs with one predecessor overlapped, or share a second with it.
LEMMA ForksFromOverlap == ChainInv => ForksOnlyFromOverlap
  <1>. SUFFICES ASSUME ChainInv, NEW p \in Stored, NEW q \in Stored,
                       proofs[p].previous = proofs[q].previous, proofs[p].previous # NoProof,
                       ~(p \notin proofs[q].seen /\ q \notin proofs[p].seen)
                PROVE  \E x \in {p, q} : proofs[x].issued = proofs[proofs[p].previous].issued
    BY DEF ForksOnlyFromOverlap
  <1>1. p \in Proofs /\ q \in Proofs /\ proofs[p].state = "stored" /\ proofs[q].state = "stored"
    BY DEF Stored
  <1>2. proofs[p].previous \in Proofs
    BY <1>1 DEF ChainInv, FollowsNewest, Stored
  <1>3. \A r \in Proofs : proofs[r].issued \in Int
    BY LedgerBounds DEF ChainInv, ProofRow
  <1>4. CASE p \in proofs[q].seen
    BY <1>1, <1>2, <1>3, <1>4 DEF ChainInv, FollowsNewest
  <1>5. CASE q \in proofs[p].seen
    BY <1>1, <1>2, <1>3, <1>5 DEF ChainInv, FollowsNewest
  <1>. QED BY <1>4, <1>5

\* A root that another replaces is below it, but for the reasons of BuildsCover.
LEMMA RootsGrowing == ChainInv /\ LedgerNext => RootsGrow
  <1>. SUFFICES ASSUME ChainInv, LedgerNext, root' # root PROVE RootsGrow
    BY DEF RootsGrow
  <1>1. PICK b \in Builds : HandleGenerateProofChain(b)
    <2>1. ChainNext
      BY RecordsApart, StreamApart, BatchApart DEF LedgerNext, chainVars
    <2>. QED BY <2>1 DEF ChainNext, NextSecond, ReadPrevious, HandleGenerateZKPProof, ReadProofs
  <1>2. builds[b].pc = "store" /\ root' = builds[b].covers /\ builds'[b] = NoBuild
    BY <1>1 DEF HandleGenerateProofChain
  <1>3. builds'[b].pc = "idle"
    BY <1>2 DEF NoBuild
  <1>4. \/ builds[b].failed \/ builds[b].late
        \/ Cardinality(builds[b].covers) = Cap \/ root \subseteq builds[b].covers
    BY <1>2 DEF ChainInv, BuildsCover
  <1>. QED BY <1>2, <1>3, <1>4 DEF RootsGrow

\* The chain of an agent forks only where two requests overlapped or a second
\* was too coarse, and a root loses proofs of the one before it only at the
\* cap, after a failed query or to an overlapping root: ReadPrevious,
\* HandleGenerateZKPProof, ReadProofs, HandleGenerateProofChain.
THEOREM ChainForksTraced == LedgerSpec => ChainsTraced
  <1>1. LedgerInv /\ LedgerInv' /\ [LedgerNext]_ledgerVars => [RootsGrow /\ ForksOnlyFromOverlap']_chainVars
    <2>1. LedgerInv' => ForksOnlyFromOverlap'
      BY ForksFromOverlap, PTL DEF LedgerInv
    <2>2. LedgerInv /\ LedgerNext => RootsGrow
      BY RootsGrowing DEF LedgerInv
    <2>3. UNCHANGED ledgerVars => UNCHANGED chainVars
      BY DEF ledgerVars, chainVars
    <2>. QED BY <2>1, <2>2, <2>3
  <1>. QED BY <1>1, LedgerInvariant, PTL DEF LedgerSpec, ChainsTraced

-----------------------------------------------------------------------------
(* Data loss prevention                                                        *)

ScanRow == [state : {"none", "scanned", "refused", "answered"},
            found : SUBSET (PIITypes \cup CodeTypes), provider : Providers,
            class : Classes, block : BOOLEAN, alert : {"none", "raised", "lost"}]
IntegrationRow == [status : IntegrationStatuses \cup {"none", "DELETED"}, tenant : Tenants,
                   enabled : BOOLEAN]

\* A scan is rated at least as its findings ask for, and an alert follows one.
Rated(scan) ==
  /\ scan.state # "none" /\ scan.provider = "builtin" =>
       \A d \in scan.found : Sensitivity[d] <= Rank[scan.class] /\ (Sensitivity[d] = 3 => scan.block)
  /\ scan.alert = "raised" =>
       scan.state = "answered" /\ scan.class \in {"RESTRICTED", "CONFIDENTIAL"}

ScansInv == scans \in [Scans -> ScanRow] /\ \A s \in Scans : Rated(scans[s])
PidsInv == /\ registered \subseteq Tenants \X Pids /\ actions \subseteq Pids \cup {Unreadable}
           /\ monitored \in [Stores -> SUBSET Pids]
           /\ loaded \in [Stores -> SUBSET Pids]
           /\ MonitoredHasRow
DlpInv == ScansInv /\ PidsInv /\ integrations \in [Integrations -> IntegrationRow]

\* The built-in patterns rate a payload at least as its most sensitive finding,
\* and block what is most sensitive.
LEMMA BuiltinRates ==
  ASSUME NEW found \in SUBSET (PIITypes \cup CodeTypes), NEW d \in found
  PROVE  /\ Sensitivity[d] <= Rank[classifyDetections(found)]
         /\ Sensitivity[d] = 3 => classifyDetections(found) = "RESTRICTED"
  <1>1. /\ Rank["RESTRICTED"] = 3 /\ Rank["CONFIDENTIAL"] = 2
        /\ Rank["INTERNAL"] = 1 /\ Rank["PUBLIC"] = 0
    BY DEF Rank, Classes
  <1>2. /\ Sensitivity["ssn"] = 3 /\ Sensitivity["private_key"] = 3
        /\ Sensitivity["email"] = 2 /\ Sensitivity["api_key"] = 2
        /\ Sensitivity["sql_query"] = 1 /\ Sensitivity["ip_address"] = 0
    BY DEF Sensitivity, PIITypes, CodeTypes
  <1>3. d \in {"ssn", "email", "ip_address", "private_key", "api_key", "sql_query"}
    BY DEF PIITypes, CodeTypes
  <1>4. CASE d \in {"ssn", "private_key"}
    <2>1. classifyDetections(found) = "RESTRICTED"
      BY <1>4 DEF classifyDetections
    <2>. QED BY <1>1, <1>2, <1>4, <2>1
  <1>5. CASE d \in {"email", "api_key"}
    <2>1. classifyDetections(found) \in {"RESTRICTED", "CONFIDENTIAL"}
      BY <1>5 DEF classifyDetections
    <2>. QED BY <1>1, <1>2, <1>5, <2>1
  <1>6. CASE d = "sql_query"
    <2>1. classifyDetections(found) \in {"RESTRICTED", "CONFIDENTIAL", "INTERNAL"}
      BY <1>6 DEF classifyDetections
    <2>. QED BY <1>1, <1>2, <1>6, <2>1
  <1>7. CASE d = "ip_address"
    <2>1. classifyDetections(found) \in {"RESTRICTED", "CONFIDENTIAL", "INTERNAL", "PUBLIC"}
      BY DEF classifyDetections
    <2>. QED BY <1>1, <1>2, <1>7, <2>1
  <1>. QED BY <1>3, <1>4, <1>5, <1>6, <1>7

\* The invariant holds at first.
LEMMA DlpInitInv == DlpInit => DlpInv
  <1>. SUFFICES ASSUME DlpInit PROVE DlpInv
    OBVIOUS
  <1>1. ScansInv
    BY DEF DlpInit, ScansInv, ScanRow, Rated, NoScan, Providers, Classes
  <1>2. PidsInv
    BY DEF DlpInit, PidsInv, MonitoredHasRow, RegisteredPids
  <1>3. PICK t \in Tenants :
          integrations = [i \in Integrations |-> [status |-> "none", tenant |-> t, enabled |-> FALSE]]
    BY DEF DlpInit
  <1>. QED BY <1>1, <1>2, <1>3 DEF DlpInv, IntegrationRow

\* Every step of a scan writes a row that is rated.
LEMMA ScansKeep == ScansInv /\ ScansNext => ScansInv'
  <1>. SUFFICES ASSUME ScansInv, NEW s \in Scans, HandleDLPScan(s) \/ PersistScan(s) \/ RaiseAlert(s)
                PROVE  ScansInv'
    BY DEF ScansNext
  <1>1. scans[s] \in ScanRow /\ Rated(scans[s])
    BY DEF ScansInv
  <1>2. ASSUME NEW row \in ScanRow, Rated(row), scans' = [scans EXCEPT ![s] = row]
        PROVE  ScansInv'
    BY <1>2 DEF ScansInv
  <1>3. CASE HandleDLPScan(s)
    <2>1. PICK found \in SUBSET (PIITypes \cup CodeTypes), provider \in Providers, answer \in Answers :
            scans' = [scans EXCEPT ![s] =
                        [state |-> "scanned", found |-> found, provider |-> provider,
                         class |-> bridgeDLPResult(provider, answer, found).class,
                         block |-> bridgeDLPResult(provider, answer, found).block, alert |-> "none"]]
      BY <1>3 DEF HandleDLPScan
    <2>. DEFINE class == bridgeDLPResult(provider, answer, found).class
                block == bridgeDLPResult(provider, answer, found).block
                row == [state |-> "scanned", found |-> found, provider |-> provider,
                        class |-> class, block |-> block, alert |-> "none"]
    <2>2. class \in Classes
      BY DEF bridgeDLPResult, scanPayload, classifyDetections, Classes
    <2>3. block \in BOOLEAN
      BY DEF bridgeDLPResult, scanPayload, HasViolations
    <2>4. provider = "builtin" => class = classifyDetections(found)
                                   /\ (classifyDetections(found) = "RESTRICTED" => block)
      BY DEF bridgeDLPResult, scanPayload
    <2>5. scans' = [scans EXCEPT ![s] = row]
      BY <2>1
    <2>. HIDE DEF class, block
    <2>6. row \in ScanRow /\ row.state = "scanned" /\ row.found = found /\ row.provider = provider
            /\ row.class = class /\ row.block = block /\ row.alert = "none"
      BY <2>2, <2>3 DEF ScanRow
    <2>. HIDE DEF row
    <2>7. Rated(row)
      BY <2>4, <2>6, BuiltinRates DEF Rated
    <2>. QED BY <1>2, <2>5, <2>6, <2>7
  <1>4. CASE PersistScan(s)
    <2>1. PICK state \in {"answered", "refused"} : scans' = [scans EXCEPT ![s].state = state]
      BY <1>4 DEF PersistScan
    <2>. DEFINE row == [scans[s] EXCEPT !.state = state]
    <2>2. row \in ScanRow /\ row.state = state /\ row.found = scans[s].found
            /\ row.provider = scans[s].provider /\ row.class = scans[s].class
            /\ row.block = scans[s].block /\ row.alert = scans[s].alert
      BY <1>1 DEF ScanRow
    <2>3. scans' = [scans EXCEPT ![s] = row]
      BY <2>1
    <2>. HIDE DEF row
    <2>4. Rated(row)
      BY <1>1, <1>4, <2>2 DEF Rated, PersistScan
    <2>. QED BY <1>2, <2>2, <2>3, <2>4
  <1>5. CASE RaiseAlert(s)
    <2>1. PICK a \in {"raised", "lost"} : scans' = [scans EXCEPT ![s].alert = a]
      BY <1>5 DEF RaiseAlert
    <2>. DEFINE row == [scans[s] EXCEPT !.alert = a]
    <2>2. row \in ScanRow /\ row.state = scans[s].state /\ row.found = scans[s].found
            /\ row.provider = scans[s].provider /\ row.class = scans[s].class
            /\ row.block = scans[s].block /\ row.alert = a
      BY <1>1 DEF ScanRow
    <2>3. scans' = [scans EXCEPT ![s] = row]
      BY <2>1
    <2>. HIDE DEF row
    <2>4. Rated(row)
      BY <1>1, <1>5, <2>2 DEF Rated, RaiseAlert, Alarming
    <2>. QED BY <1>2, <2>2, <2>3, <2>4
  <1>. QED BY <1>3, <1>4, <1>5

\* A process has its row before a store knows of it, and history remembers what
\* each store read of the other table when it started.
LEMMA PidsKeep ==
  ASSUME PidsInv,
         \/ EnforcementActionsChange
         \/ \E s \in Stores : LoadFromDB(s)
         \/ \E s \in Stores, t \in Tenants, pid \in Pids : HandleDLPMonitorPID(s, t, pid)
  PROVE  PidsInv'
  <1>1. CASE EnforcementActionsChange
    <2>1. UNCHANGED <<registered, monitored, loaded>> /\ actions' \subseteq Pids \cup {Unreadable}
      BY <1>1 DEF EnforcementActionsChange
    <2>2. MonitoredHasRow'
      BY <2>1 DEF PidsInv, MonitoredHasRow, RegisteredPids
    <2>. QED BY <2>1, <2>2 DEF PidsInv
  <1>2. ASSUME NEW s \in Stores, LoadFromDB(s) PROVE PidsInv'
    <2>1. registered' = registered /\ actions' = actions /\ RegisteredPids' = RegisteredPids
      BY <1>2 DEF LoadFromDB, RegisteredPids
    <2>2. PICK pids \in SUBSET Pids :
            loaded' = [loaded EXCEPT ![s] = pids] /\ monitored' = [monitored EXCEPT ![s] = pids]
      <3>. DEFINE read == {pid \in actions \cap Pids : pid > 0}
      <3>1. read \in SUBSET Pids
        OBVIOUS
      <3>2. \E pids \in {read, {}} :
              loaded' = [loaded EXCEPT ![s] = pids] /\ monitored' = [monitored EXCEPT ![s] = pids]
        BY <1>2 DEF LoadFromDB
      <3>. HIDE DEF read
      <3>. QED BY <3>1, <3>2
    <2>3. /\ monitored' \in [Stores -> SUBSET Pids]
          /\ loaded' \in [Stores -> SUBSET Pids]
      BY <2>2 DEF PidsInv
    <2>4. ASSUME NEW q \in Stores PROVE monitored'[q] \subseteq RegisteredPids \cup loaded'[q]
      <3>1. CASE q = s
        BY <2>2, <3>1 DEF PidsInv
      <3>2. CASE q # s
        BY <2>2, <3>2 DEF PidsInv, MonitoredHasRow
      <3>. QED BY <3>1, <3>2
    <2>5. MonitoredHasRow'
      BY <2>1, <2>4 DEF MonitoredHasRow
    <2>. QED BY <2>1, <2>3, <2>5 DEF PidsInv
  <1>3. ASSUME NEW s \in Stores, NEW t \in Tenants, NEW pid \in Pids, HandleDLPMonitorPID(s, t, pid)
        PROVE  PidsInv'
    <2>1. registered' \subseteq Tenants \X Pids /\ RegisteredPids' = RegisteredPids \cup {pid}
      <3>1. registered' = registered \cup {<<t, pid>>}
        BY <1>3 DEF HandleDLPMonitorPID
      <3>2. RegisteredPids' = {r[2] : r \in registered \cup {<<t, pid>>}}
        BY <3>1 DEF RegisteredPids
      <3>3. {r[2] : r \in registered \cup {<<t, pid>>}} = RegisteredPids \cup {<<t, pid>>[2]}
        BY DEF RegisteredPids
      <3>. QED BY <3>1, <3>2, <3>3 DEF PidsInv
    <2>2. UNCHANGED <<actions, loaded>> /\ monitored' \in {monitored, [monitored EXCEPT ![s] = @ \cup {pid}]}
      BY <1>3 DEF HandleDLPMonitorPID
    <2>3. /\ monitored' \in [Stores -> SUBSET Pids]
          /\ \A q \in Stores : monitored'[q] \subseteq monitored[q] \cup {pid}
      BY <2>2 DEF PidsInv
    <2>4. MonitoredHasRow'
      BY <2>1, <2>2, <2>3 DEF PidsInv, MonitoredHasRow
    <2>. QED BY <2>1, <2>2, <2>3, <2>4 DEF PidsInv
  <1>. QED BY <1>1, <1>2, <1>3

\* The invariant is kept by scans, integrations and restarts alike.
LEMMA DlpStep == DlpInv /\ [DlpNext]_dlpVars => DlpInv'
  <1>. SUFFICES ASSUME DlpInv, [DlpNext]_dlpVars PROVE DlpInv'
    OBVIOUS
  <1>1. UNCHANGED scans => ScansInv'
    BY DEF DlpInv, ScansInv, Rated
  <1>2. UNCHANGED pidVars => PidsInv'
    BY DEF DlpInv, PidsInv, MonitoredHasRow, RegisteredPids, pidVars
  <1>3. CASE ScansNext
    <2>1. UNCHANGED <<pidVars, integrations>>
      BY <1>3 DEF ScansNext, HandleDLPScan, PersistScan, RaiseAlert, StoresUnchanged
    <2>. QED BY <1>2, <1>3, <2>1, ScansKeep DEF DlpInv
  <1>4. CASE \/ EnforcementActionsChange
             \/ \E s \in Stores : LoadFromDB(s)
             \/ \E s \in Stores, t \in Tenants, pid \in Pids : HandleDLPMonitorPID(s, t, pid)
    <2>1. UNCHANGED <<scans, integrations>>
      BY <1>4 DEF LoadFromDB, HandleDLPMonitorPID, EnforcementActionsChange
    <2>. QED BY <1>1, <1>4, <2>1, PidsKeep DEF DlpInv
  <1>5. ASSUME NEW i \in Integrations,
               \/ HandleCreateDLPIntegration(i)
               \/ \E t \in Tenants : HandleDeleteDLPIntegration(t, i) \/ HandleUpdateDLPIntegration(t, i)
        PROVE  DlpInv'
    <2>1. integrations[i] \in IntegrationRow
      BY DEF DlpInv
    <2>2. ASSUME NEW row \in IntegrationRow, SetIntegration(i, row) PROVE DlpInv'
      BY <1>1, <1>2, <2>2 DEF SetIntegration, DlpInv
    <2>3. CASE HandleCreateDLPIntegration(i)
      BY <2>2, <2>3 DEF HandleCreateDLPIntegration, IntegrationRow, IntegrationStatuses
    <2>4. ASSUME NEW t \in Tenants, HandleDeleteDLPIntegration(t, i) PROVE DlpInv'
      <3>1. SetIntegration(i, [integrations[i] EXCEPT !.status = "DELETED"])
        BY <2>4 DEF HandleDeleteDLPIntegration
      <3>2. [integrations[i] EXCEPT !.status = "DELETED"] \in IntegrationRow
        BY <2>1 DEF IntegrationRow
      <3>. QED BY <2>2, <3>1, <3>2
    <2>5. ASSUME NEW t \in Tenants, HandleUpdateDLPIntegration(t, i) PROVE DlpInv'
      <3>1. PICK status \in IntegrationStatuses \cup {integrations[i].status}, enabled \in BOOLEAN :
              SetIntegration(i, [integrations[i] EXCEPT !.status = status, !.enabled = enabled])
        BY <2>5 DEF HandleUpdateDLPIntegration
      <3>2. [integrations[i] EXCEPT !.status = status, !.enabled = enabled] \in IntegrationRow
        BY <2>1 DEF IntegrationRow
      <3>. QED BY <2>2, <3>1, <3>2
    <2>. QED BY <1>5, <2>3, <2>4, <2>5
  <1>6. CASE UNCHANGED dlpVars
    BY <1>1, <1>2, <1>6 DEF dlpVars, DlpInv
  <1>. QED BY <1>3, <1>4, <1>5, <1>6 DEF DlpNext, StoresNext

\* The inductive invariant of data loss prevention.
THEOREM DlpInvariant == DlpSpec => []DlpInv
  BY DlpInitInv, DlpStep, PTL DEF DlpSpec

\* The invariant includes the types of the store.
LEMMA DlpTyped == DlpInv => DlpTypeOK
  BY DEF DlpInv, ScansInv, PidsInv, DlpTypeOK, ScanRow, IntegrationRow

\* No built-in scan is rated below its findings, every alert has its scan, what
\* a store monitors has a row in the table of the handler or had one in that of
\* the restart, and what is enforced has a cause: HandleDLPScan, RaiseAlert,
\* HandleDLPMonitorPID, LoadFromDB and the integrations.
THEOREM DlpIsTraced == DlpSpec => []DlpTraced
  <1>1. DlpInv => UnderratedOnlyByVendor /\ AlertHasScan
    BY DEF DlpInv, ScansInv, Rated, UnderratedOnlyByVendor, AlertHasScan, Alarming
  <1>2. DlpInv => MonitoredHasRow
    BY DEF DlpInv, PidsInv
  <1>3. DlpInv => EnforcementHasCause
    <2>. SUFFICES ASSUME DlpInv, NEW s \in Stores, NEW t \in Tenants, Enforcing(s, t)
                  PROVE  \/ registered # {} \/ loaded[s] # {}
                         \/ \E i \in Integrations :
                              /\ integrations[i].tenant = t /\ integrations[i].enabled
                              /\ integrations[i].status \in IntegrationStatuses
      BY DEF EnforcementHasCause
    <2>1. CASE \E i \in Listed(t) : integrations[i].enabled
      BY <2>1 DEF Listed, DlpInv, IntegrationRow
    <2>2. CASE monitored[s] # {}
      BY <2>2 DEF DlpInv, PidsInv, MonitoredHasRow, RegisteredPids
    <2>. QED BY <2>1, <2>2 DEF Enforcing
  <1>. QED BY <1>1, <1>2, <1>3, DlpInvariant, PTL DEF DlpTraced

-----------------------------------------------------------------------------
(* Reports and their delivery                                                  *)

ReportRow == [status : Statuses, schedule : Schedules, every : Frequencies, due : Nat, listed : BOOLEAN]
CycleRow == [phase : {"idle", "sending", "marking"}, at : 0..MaxHour, todo : SUBSET Items, item : Items]
MailRow == [owed : Nat, early : Nat, excuses : 0..MaxExcuses]

\* The types, with names for the records.
LEMMA ReportsRows ==
  ReportsTypeOK <=>
    /\ reports \in [Reports -> ReportRow] /\ hour \in 0..MaxHour /\ cycle \in [Pods -> CycleRow]
    /\ mails \in [Reports -> MailRow]
    /\ issued \in [summary : Summaries, status : {"none", "PASS", "WARNING", "FAIL"}]
  BY DEF ReportsTypeOK, ReportRow, CycleRow, MailRow

\* A worker has one entry for a report, in its list or under way.
ListsPlain ==
  \A p \in Pods :
    /\ cycle[p].phase = "idle" => cycle[p].todo = {}
    /\ \A i, j \in cycle[p].todo : i.report = j.report => i = j
    /\ cycle[p].phase = "marking" => \A i \in cycle[p].todo : i.report # cycle[p].item.report

\* The pods that have a report on their list, and those that have to mark it.
Sending(r) == {p \in Pods : \E i \in cycle[p].todo : i.report = r}
Marking(p, r) == cycle[p].phase = "marking" /\ cycle[p].item.report = r
MarkOf(p) == cycle[p].at + cycle[p].item.every

\* The excuses that no early mail has used up.
Credit(r) == mails[r].excuses - mails[r].early

\* The report is not due before its next mail is owed, or a mark to come sees
\* to that.
Settled(r) == \/ reports[r].due >= mails[r].owed
              \/ \E p \in Pods : Marking(p, r) /\ MarkOf(p) >= mails[r].owed

\* No mail of those listed has gone out yet, and each is owed.
Fresh(r) == /\ reports[r].due >= mails[r].owed
            /\ \A p \in Pods : ~Marking(p, r)
            /\ \A p \in Sending(r) : cycle[p].at >= mails[r].owed

\* There is an excuse for every listed mail that may come early: for each but
\* the first, when none has gone out, and for one more when the due time is
\* behind.
CreditInv ==
  \A r \in Reports :
    /\ IsFiniteSet(Sending(r))
    /\ Credit(r) >= 0
    /\ Settled(r) \/ Credit(r) >= 1
    /\ \/ Credit(r) >= Cardinality(Sending(r))
       \/ Fresh(r) /\ Credit(r) >= Cardinality(Sending(r)) - 1

ReportsInv == ReportsTypeOK /\ ListsPlain /\ CreditInv /\ PassIsEarned

\* At first no mail is owed, listed or excused.
LEMMA ReportsInitInv == ReportsInit => ReportsInv
  <1>. SUFFICES ASSUME ReportsInit PROVE ReportsInv
    OBVIOUS
  <1>1. PICK r0 \in Reports :
          cycle = [p \in Pods |-> [phase |-> "idle", at |-> 0, todo |-> {},
                                   item |-> [report |-> r0, every |-> Default]]]
    BY DEF ReportsInit
  <1>2. ReportsTypeOK
    <2>1. [report |-> r0, every |-> Default] \in Items
      BY DEF Items, Frequencies
    <2>. QED BY <1>1, <2>1, ReportBounds
             DEF ReportsInit, ReportsTypeOK, Statuses, Schedules, Frequencies, Summaries
  <1>3. ListsPlain
    BY <1>1 DEF ListsPlain
  <1>4. CreditInv
    <2>1. ASSUME NEW r \in Reports PROVE Sending(r) = {} /\ Credit(r) = 0 /\ Settled(r)
      BY <1>1 DEF ReportsInit, Sending, Credit, Settled
    <2>2. IsFiniteSet({}) /\ Cardinality({}) = 0
      BY FS_EmptySet
    <2>3. ASSUME NEW r \in Reports
          PROVE  /\ IsFiniteSet(Sending(r)) /\ Credit(r) >= 0 /\ Credit(r) >= Cardinality(Sending(r))
      BY <2>1, <2>2
    <2>. QED BY <2>1, <2>3 DEF CreditInv
  <1>5. PassIsEarned
    BY DEF ReportsInit, PassIsEarned
  <1>. QED BY <1>2, <1>3, <1>4, <1>5 DEF ReportsInv

\* What a handler or the generator may do to a row: never to the time it is
\* due, and never back to what the worker mails.
RowStep ==
  \E r \in Reports, row \in ReportRow :
    /\ row.due = reports[r].due
    /\ row.status = "READY" => reports[r].status \in {"none", "READY"}
    /\ reports' = [reports EXCEPT ![r] = row]

\* A new report keeps the due time of its row, and nothing of the worker changes.
LEMMA InsertIsRowStep ==
  ASSUME ReportsTypeOK, NEW r \in Reports, NEW status \in Statuses, Insert(r, status)
  PROVE  RowStep /\ UNCHANGED <<hour, cycle, mails>>
  <1>. DEFINE row == [reports[r] EXCEPT !.status = status]
  <1>1. reports[r] \in ReportRow /\ reports[r].status = "none"
    BY ReportsRows DEF Insert
  <1>2. row \in ReportRow /\ row.due = reports[r].due /\ reports' = [reports EXCEPT ![r] = row]
    BY <1>1 DEF ReportRow, Insert
  <1>. QED BY <1>1, <1>2 DEF RowStep, Insert

\* So is a handler that keeps the due time of the row.
LEMMA WriteIsRowStep ==
  ASSUME ReportsTypeOK, NEW r \in Reports, NEW row \in ReportRow, Write(r, row),
         row.due = reports[r].due, row.status \in Updatable \cup {"ARCHIVED", reports[r].status}
  PROVE  RowStep /\ UNCHANGED <<hour, cycle, mails, issued>>
  BY DEF RowStep, Write, Updatable

\* A report on a standard that passes is earned.
LEMMA VerdictEarned ==
  ASSUME NEW s \in Summaries
  PROVE  /\ overallStatus(s) \in {"PASS", "WARNING", "FAIL"}
         /\ overallStatus(s) = "PASS" =>
              /\ FailedSections(s) = {} \/ s.shadow = -1
              /\ s.permits >= 20 => s.decided > 0
  <1>1. s.permits \in {0, 19, 20, 45} /\ s.decided \in 0..2 /\ s.shadow \in -1..1
    BY DEF Summaries
  <1>2. overallStatus(s) \in {"PASS", "WARNING", "FAIL"}
    BY DEF overallStatus
  <1>3. ASSUME overallStatus(s) = "PASS" PROVE FinancialPassed(s) /\ ~(s.shadow > 0)
    BY <1>3 DEF overallStatus
  <1>4. ASSUME FinancialPassed(s), ~(s.shadow > 0), s.shadow # -1 PROVE FailedSections(s) = {}
    BY <1>1, <1>4 DEF FailedSections
  <1>5. ASSUME FinancialPassed(s), s.permits >= 20 PROVE s.decided > 0
    BY <1>1, <1>5 DEF FinancialPassed
  <1>. QED BY <1>1, <1>2, <1>3, <1>4, <1>5

\* The steps that neither send nor mark.
HandlerStep(r) ==
  \/ generateTenantReport(r) \/ CreateReport(r) \/ CreateComplianceReport(r)
  \/ UpdateReport(r) \/ UpdateComplianceReport(r)
  \/ DeleteReport(r) \/ DeleteComplianceReport(r) \/ ExecuteComplianceReport(r)
  \/ ScheduleReport(r) \/ ScheduleComplianceReport(r) \/ DeliverComplianceReport(r)

\* All handlers of reports are of these two kinds.
LEMMA HandlerIsRowStep ==
  ASSUME ReportsTypeOK, NEW r \in Reports, HandlerStep(r)
  PROVE  RowStep /\ UNCHANGED <<hour, cycle, mails, issued>>
  <1>1. reports[r] \in ReportRow /\ reports[r].status \in Statuses
          /\ reports[r].schedule \in Schedules /\ reports[r].every \in Frequencies
          /\ reports[r].listed \in BOOLEAN
    BY ReportsRows DEF ReportRow
  <1>2. CASE generateTenantReport(r) \/ CreateReport(r) \/ CreateComplianceReport(r)
    <2>1. {"READY", "default", "PENDING"} \subseteq Statuses
      BY DEF Statuses, Updatable
    <2>. QED BY <1>2, <2>1, InsertIsRowStep
             DEF generateTenantReport, CreateReport, CreateComplianceReport
  <1>4. CASE UpdateReport(r)
    <2>1. PICK s \in Updatable \cup {reports[r].status}, c \in Schedules, e \in Frequencies :
            Write(r, [reports[r] EXCEPT !.status = s, !.schedule = c, !.every = e])
      BY <1>4 DEF UpdateReport
    <2>2. s \in Statuses
      BY <1>1 DEF Statuses
    <2>. DEFINE row == [reports[r] EXCEPT !.status = s, !.schedule = c, !.every = e]
    <2>3. row \in ReportRow /\ row.due = reports[r].due /\ row.status = s
      BY <1>1, <2>2 DEF ReportRow
    <2>. HIDE DEF row
    <2>. QED BY <2>1, <2>3, WriteIsRowStep DEF row
  <1>5. ASSUME NEW s \in Updatable \cup {"ARCHIVED"}, Write(r, [reports[r] EXCEPT !.status = s])
        PROVE  RowStep /\ UNCHANGED <<hour, cycle, mails, issued>>
    <2>1. s \in Statuses
      BY DEF Statuses
    <2>. DEFINE row == [reports[r] EXCEPT !.status = s]
    <2>2. row \in ReportRow /\ row.due = reports[r].due /\ row.status = s
      BY <1>1, <2>1 DEF ReportRow
    <2>. HIDE DEF row
    <2>. QED BY <1>5, <2>2, WriteIsRowStep DEF row
  <1>6. CASE UpdateComplianceReport(r) \/ DeleteComplianceReport(r) \/ ExecuteComplianceReport(r)
    <2>1. "RUNNING" \in Updatable
      BY DEF Updatable
    <2>. QED BY <1>5, <1>6, <2>1
             DEF UpdateComplianceReport, DeleteComplianceReport, ExecuteComplianceReport
  <1>7. CASE DeleteReport(r)
    <2>. DEFINE row == [reports[r] EXCEPT !.listed = FALSE]
    <2>1. row \in ReportRow /\ row.due = reports[r].due /\ row.status = reports[r].status
      BY <1>1 DEF ReportRow
    <2>2. Write(r, row)
      BY <1>7 DEF DeleteReport
    <2>. HIDE DEF row
    <2>. QED BY <2>1, <2>2, WriteIsRowStep
  <1>8. CASE ScheduleReport(r)
    <2>1. PICK c \in {"useless", "usable"} :
            Write(r, [reports[r] EXCEPT !.schedule = c, !.every = Default])
      BY <1>8 DEF ScheduleReport
    <2>2. c \in Schedules /\ Default \in Frequencies
      BY DEF Schedules, Frequencies
    <2>. DEFINE row == [reports[r] EXCEPT !.schedule = c, !.every = Default]
    <2>3. row \in ReportRow /\ row.due = reports[r].due /\ row.status = reports[r].status
      BY <1>1, <2>2 DEF ReportRow
    <2>. HIDE DEF row
    <2>. QED BY <2>1, <2>3, WriteIsRowStep DEF row
  <1>9. CASE ScheduleComplianceReport(r) \/ DeliverComplianceReport(r)
    <2>1. Write(r, reports[r])
      BY <1>9 DEF ScheduleComplianceReport, DeliverComplianceReport
    <2>. QED BY <1>1, <2>1, WriteIsRowStep
  <1>. QED BY <1>2, <1>4, <1>6, <1>7, <1>8, <1>9 DEF HandlerStep

\* The numbers of a report and of a pod.
LEMMA ReportNumbers ==
  ASSUME ReportsTypeOK
  PROVE  /\ MaxHour \in Nat /\ MaxExcuses \in Nat /\ hour \in Nat
         /\ Frequencies \subseteq Nat
         /\ \A r \in Reports : /\ reports[r].due \in Nat /\ mails[r].owed \in Nat
                               /\ mails[r].early \in Nat /\ mails[r].excuses \in Nat
                               /\ Credit(r) \in Int
         /\ \A p \in Pods : cycle[p].at \in Nat /\ MarkOf(p) \in Nat /\ cycle[p].item \in Items
         /\ \A i \in Items : i.report \in Reports /\ i.every \in Nat
  <1>1. MaxHour \in Nat /\ MaxExcuses \in Nat /\ Frequencies \subseteq Nat /\ hour \in Nat
    BY ReportBounds, HoursAssumption, ReportsRows DEF Frequencies
  <1>2. \A i \in Items : i.report \in Reports /\ i.every \in Nat
    BY <1>1 DEF Items
  <1>3. ASSUME NEW r \in Reports
        PROVE  /\ reports[r].due \in Nat /\ mails[r].owed \in Nat
               /\ mails[r].early \in Nat /\ mails[r].excuses \in Nat
    <2>1. reports[r] \in ReportRow /\ mails[r] \in MailRow
      BY ReportsRows
    <2>. QED BY <1>1, <2>1 DEF ReportRow, MailRow
  <1>4. ASSUME NEW p \in Pods PROVE cycle[p].at \in Nat /\ cycle[p].item \in Items
    <2>1. cycle[p] \in CycleRow
      BY ReportsRows
    <2>. QED BY <1>1, <2>1 DEF CycleRow
  <1>. QED BY <1>1, <1>2, <1>3, <1>4 DEF Credit, MarkOf

\* The steps of handlers, and the clock, leave each mail as early as it was.
LEMMA QuietKeeps ==
  ASSUME CreditInv, UNCHANGED <<cycle, mails>>,
         \A r \in Reports : reports'[r].due = reports[r].due
  PROVE  CreditInv'
  BY DEF CreditInv, Sending, Credit, Settled, Fresh, Marking, MarkOf

\* A pod takes its list: what another pod has under way is excused.
LEMMA ListKeeps ==
  ASSUME ReportsTypeOK, ListsPlain, CreditInv, NEW p \in Pods, runScheduledDeliveryCycle(p)
  PROVE  ReportsTypeOK' /\ ListsPlain' /\ CreditInv'
  <1>. DEFINE list == {r \in Reports : Due(r)}
              shared == {r \in list : \E q \in Pods \ {p} : Underway(q, r)}
              todo == {[report |-> r, every |-> reports[r].every] : r \in list}
              row == [cycle[p] EXCEPT !.phase = "sending", !.at = hour, !.todo = todo]
  <1>1. /\ cycle[p].phase = "idle"
        /\ \A r \in shared : mails[r].excuses < MaxExcuses
        /\ cycle' = [cycle EXCEPT ![p] = row]
        /\ mails' = [r \in Reports |-> IF r \in shared THEN [mails[r] EXCEPT !.excuses = @ + 1] ELSE mails[r]]
        /\ UNCHANGED <<reports, hour, issued>>
    BY DEF runScheduledDeliveryCycle
  <1>2. \A r \in Reports : reports[r].every \in Frequencies
    <2>1. \A r \in Reports : reports[r] \in ReportRow
      BY ReportsRows
    <2>. QED BY <2>1 DEF ReportRow
  <1>3. todo \subseteq Items
    BY <1>2 DEF Items
  <1>4. cycle[p] \in CycleRow /\ hour \in 0..MaxHour
    BY ReportsRows
  <1>5. \A i, j \in todo : i.report = j.report => i = j
    <2>1. \A i \in todo : i = [report |-> i.report, every |-> reports[i.report].every]
      OBVIOUS
    <2>. QED BY <2>1
  <1>6. \A r \in Reports : (\E i \in todo : i.report = r) <=> r \in list
    <2>1. \A i \in todo : i.report \in list
      OBVIOUS
    <2>2. \A r \in list : [report |-> r, every |-> reports[r].every] \in todo
      OBVIOUS
    <2>3. \A r \in list : [report |-> r, every |-> reports[r].every].report = r
      OBVIOUS
    <2>. HIDE DEF list, todo
    <2>. QED BY <2>1, <2>2, <2>3
  <1>7. \A r \in list : r \in Reports /\ reports[r].due <= hour
    BY DEF Due
  <1>8. \A r \in Reports : r \in shared <=> r \in list /\ \E q \in Pods \ {p} : Underway(q, r)
    OBVIOUS
  <1>. HIDE DEF list, shared, todo
  <1>9. row \in CycleRow /\ row.phase = "sending" /\ row.at = hour /\ row.todo = todo
    BY <1>3, <1>4 DEF CycleRow
  <1>. HIDE DEF row
  <1>10. cycle' \in [Pods -> CycleRow] /\ cycle'[p] = row /\ \A q \in Pods : q # p => cycle'[q] = cycle[q]
    BY <1>1, <1>9, ReportsRows
  <1>11. ASSUME NEW r \in Reports
         PROVE  /\ mails'[r] \in MailRow /\ mails'[r].owed = mails[r].owed
                /\ mails'[r].early = mails[r].early
                /\ mails'[r].excuses = IF r \in shared THEN mails[r].excuses + 1 ELSE mails[r].excuses
    <2>1. mails[r] \in MailRow
      BY ReportsRows
    <2>2. r \in shared => mails[r].excuses + 1 \in 0..MaxExcuses
      BY <1>1, <2>1, ReportBounds DEF MailRow
    <2>. QED BY <1>1, <2>1, <2>2 DEF MailRow
  <1>12. mails' \in [Reports -> MailRow]
    <2>1. mails' = [r \in Reports |-> mails'[r]]
      BY <1>1
    <2>. QED BY <1>11, <2>1
  <1>13. ReportsTypeOK'
    <2>1. /\ reports' \in [Reports -> ReportRow] /\ hour' \in 0..MaxHour
          /\ issued' \in [summary : Summaries, status : {"none", "PASS", "WARNING", "FAIL"}]
      BY <1>1, ReportsRows
    <2>. QED BY <1>10, <1>12, <2>1 DEF ReportsTypeOK, ReportRow, CycleRow, MailRow
  <1>14. ListsPlain'
    BY <1>5, <1>9, <1>10 DEF ListsPlain
  <1>15. CreditInv'
    <2>. SUFFICES ASSUME NEW r \in Reports
                  PROVE  /\ IsFiniteSet(Sending(r)')
                         /\ Credit(r)' >= 0
                         /\ Settled(r)' \/ Credit(r)' >= 1
                         /\ \/ Credit(r)' >= Cardinality(Sending(r)')
                            \/ Fresh(r)' /\ Credit(r)' >= Cardinality(Sending(r)') - 1
      BY DEF CreditInv
    <2>1. /\ Credit(r) \in Int /\ mails[r].owed \in Nat /\ reports[r].due \in Nat /\ hour \in Nat
          /\ mails[r].excuses \in Nat /\ mails[r].early \in Nat
      BY ReportNumbers
    <2>2. \A q \in Pods : Marking(q, r)' <=> q # p /\ Marking(q, r)
      BY <1>1, <1>9, <1>10 DEF Marking
    <2>3. ~Marking(p, r) /\ p \notin Sending(r)
      BY <1>1 DEF Marking, Sending, ListsPlain
    <2>4. \A q \in Pods : q # p => (q \in Sending(r)' <=> q \in Sending(r)) /\ MarkOf(q)' = MarkOf(q)
      BY <1>10 DEF Sending, MarkOf
    <2>5. p \in Sending(r)' <=> r \in list
      BY <1>6, <1>9, <1>10 DEF Sending
    <2>6. Sending(r) \subseteq Pods /\ Sending(r)' \subseteq Pods
      BY DEF Sending
    <2>7. Sending(r)' = IF r \in list THEN Sending(r) \cup {p} ELSE Sending(r)
      BY <2>3, <2>4, <2>5, <2>6
    <2>8. Settled(r) => Settled(r)'
      BY <1>1, <1>11, <2>2, <2>3, <2>4 DEF Settled
    <2>9. /\ IsFiniteSet(Sending(r)) /\ Cardinality(Sending(r)) \in Nat
          /\ Credit(r) >= 0 /\ (Settled(r) \/ Credit(r) >= 1)
          /\ \/ Credit(r) >= Cardinality(Sending(r))
             \/ Fresh(r) /\ Credit(r) >= Cardinality(Sending(r)) - 1
      BY FS_CardinalityType DEF CreditInv
    <2>10. r \in list => /\ IsFiniteSet(Sending(r)') /\ Cardinality(Sending(r)') = Cardinality(Sending(r)) + 1
      BY <2>3, <2>7, <2>9, FS_AddElement
    <2>11. Fresh(r) => Fresh(r)'
      <3>. SUFFICES ASSUME Fresh(r) PROVE Fresh(r)'
        OBVIOUS
      <3>1. \A q \in Sending(r)' : q # p => cycle'[q].at >= mails'[r].owed
        BY <1>10, <1>11, <2>4, <2>6 DEF Fresh
      <3>2. p \in Sending(r)' => cycle'[p].at >= mails'[r].owed
        BY <1>7, <1>9, <1>10, <1>11, <2>1, <2>5 DEF Fresh
      <3>. QED BY <1>1, <1>11, <2>2, <3>1, <3>2 DEF Fresh
    <2>12. CASE r \notin list
      <3>1. Credit(r)' = Credit(r) /\ Sending(r)' = Sending(r)
        BY <1>8, <1>11, <2>7, <2>12 DEF Credit
      <3>. QED BY <2>8, <2>9, <2>11, <3>1
    <2>13. CASE r \in shared
      <3>1. Credit(r)' = Credit(r) + 1
        BY <1>11, <2>1, <2>13 DEF Credit
      <3>2. r \in list
        BY <1>8, <2>13
      <3>. QED BY <2>1, <2>8, <2>9, <2>10, <2>11, <3>1, <3>2
    <2>14. CASE r \in list /\ r \notin shared
      <3>1. Credit(r)' = Credit(r)
        BY <1>11, <2>14 DEF Credit
      <3>2. \A q \in Pods : q # p => ~Underway(q, r)
        BY <1>8, <2>14
      <3>3. Sending(r) = {} /\ \A q \in Pods : ~Marking(q, r)
        BY <2>3, <3>2 DEF Underway, Sending, Marking
      <3>4. Cardinality(Sending(r)) = 0
        BY <3>3, FS_EmptySet
      <3>5. Settled(r) => Fresh(r)
        BY <3>3 DEF Settled, Fresh
      <3>. QED BY <2>1, <2>8, <2>9, <2>10, <2>11, <2>14, <3>1, <3>4, <3>5
    <2>. QED BY <2>12, <2>13, <2>14
  <1>. QED BY <1>13, <1>14, <1>15

\* A mail that comes before it is owed uses up an excuse; the first of a fresh
\* list does not.
LEMMA DeliverKeeps ==
  ASSUME ReportsTypeOK, ListsPlain, CreditInv, NEW p \in Pods, deliverScheduledReport(p)
  PROVE  ReportsTypeOK' /\ ListsPlain' /\ CreditInv'
  <1>1. PICK i \in cycle[p].todo, sent \in BOOLEAN :
          /\ cycle' = [cycle EXCEPT ![p] = [cycle[p] EXCEPT !.phase = "marking", !.item = i,
                                                            !.todo = @ \ {i}]]
          /\ mails' = IF ~sent THEN mails ELSE [mails EXCEPT ![i.report] = [mails[i.report] EXCEPT
               !.early = @ + (IF cycle[p].at < mails[i.report].owed THEN 1 ELSE 0),
               !.owed = cycle[p].at + i.every]]
    BY DEF deliverScheduledReport
  <1>2. cycle[p].phase = "sending" /\ UNCHANGED <<reports, hour, issued>>
    BY DEF deliverScheduledReport
  <1>3. cycle[p] \in CycleRow /\ i \in Items
    BY ReportsRows DEF CycleRow
  <1>. DEFINE row == [cycle[p] EXCEPT !.phase = "marking", !.item = i, !.todo = @ \ {i}]
              rep == i.report
              due == cycle[p].at + i.every
              early == mails[rep].early + (IF cycle[p].at < mails[rep].owed THEN 1 ELSE 0)
              mail == [mails[rep] EXCEPT !.early = early, !.owed = due]
  <1>4. row \in CycleRow /\ row.phase = "marking" /\ row.item = i /\ row.todo = cycle[p].todo \ {i}
          /\ row.at = cycle[p].at
    BY <1>3 DEF CycleRow
  <1>. HIDE DEF row
  <1>5. cycle' \in [Pods -> CycleRow] /\ cycle'[p] = row /\ \A q \in Pods : q # p => cycle'[q] = cycle[q]
    BY <1>1, <1>4, ReportsRows DEF row
  <1>6. rep \in Reports /\ mails[rep] \in MailRow /\ i.every \in Nat /\ cycle[p].at \in Nat
          /\ due \in Nat /\ early \in Nat /\ mails[rep].owed \in Nat /\ mails[rep].early \in Nat
    BY <1>3, ReportsRows, ReportNumbers
  <1>7. mails' = IF ~sent THEN mails ELSE [mails EXCEPT ![rep] = mail]
    BY <1>1
  <1>. HIDE DEF due, early
  <1>8. mail \in MailRow /\ mail.early = early /\ mail.owed = due /\ mail.excuses = mails[rep].excuses
    BY <1>6 DEF MailRow
  <1>. HIDE DEF mail
  <1>9. /\ mails' \in [Reports -> MailRow] /\ \A r \in Reports : r # rep \/ ~sent => mails'[r] = mails[r]
        /\ sent => mails'[rep] = mail
    BY <1>6, <1>7, <1>8, ReportsRows
  <1>10. ReportsTypeOK'
    <2>1. /\ reports' \in [Reports -> ReportRow] /\ hour' \in 0..MaxHour
          /\ issued' \in [summary : Summaries, status : {"none", "PASS", "WARNING", "FAIL"}]
      BY <1>2, ReportsRows
    <2>. QED BY <1>5, <1>9, <2>1 DEF ReportsTypeOK, ReportRow, CycleRow, MailRow
  <1>11. \A j \in cycle[p].todo : j.report = rep <=> j = i
    BY DEF ListsPlain
  <1>12. ListsPlain'
    BY <1>4, <1>5, <1>11 DEF ListsPlain
  <1>13. CreditInv'
    <2>. SUFFICES ASSUME NEW r \in Reports
                  PROVE  /\ IsFiniteSet(Sending(r)')
                         /\ Credit(r)' >= 0
                         /\ Settled(r)' \/ Credit(r)' >= 1
                         /\ \/ Credit(r)' >= Cardinality(Sending(r)')
                            \/ Fresh(r)' /\ Credit(r)' >= Cardinality(Sending(r)') - 1
      BY DEF CreditInv
    <2>1. /\ Credit(r) \in Int /\ mails[r].owed \in Nat /\ reports[r].due \in Nat
          /\ mails[r].excuses \in Nat /\ mails[r].early \in Nat
      BY ReportNumbers
    <2>2. /\ IsFiniteSet(Sending(r)) /\ Cardinality(Sending(r)) \in Nat
          /\ Credit(r) >= 0 /\ (Settled(r) \/ Credit(r) >= 1)
          /\ \/ Credit(r) >= Cardinality(Sending(r))
             \/ Fresh(r) /\ Credit(r) >= Cardinality(Sending(r)) - 1
      BY FS_CardinalityType DEF CreditInv
    <2>3. \A q \in Pods : q # p => (q \in Sending(r)' <=> q \in Sending(r)) /\ MarkOf(q)' = MarkOf(q)
                                    /\ (Marking(q, r)' <=> Marking(q, r))
      BY <1>5 DEF Sending, MarkOf, Marking
    <2>4. ~Marking(p, r) /\ (Marking(p, r)' <=> r = rep) /\ Sending(r) \subseteq Pods
            /\ Sending(r)' \subseteq Pods
      BY <1>2, <1>4, <1>5 DEF Marking, Sending
    <2>5. CASE r # rep
      <3>1. p \in Sending(r)' <=> p \in Sending(r)
        BY <1>4, <1>5, <2>5 DEF Sending
      <3>2. Sending(r)' = Sending(r)
        BY <2>3, <2>4, <3>1
      <3>3. mails'[r] = mails[r] /\ reports'[r] = reports[r]
        BY <1>2, <1>9, <2>5
      <3>4. Settled(r) => Settled(r)'
        BY <2>3, <2>4, <3>3 DEF Settled
      <3>5. Fresh(r) => Fresh(r)'
        BY <1>4, <1>5, <2>3, <2>4, <2>5, <3>2, <3>3 DEF Fresh
      <3>6. Credit(r)' = Credit(r)
        BY <3>3 DEF Credit
      <3>. QED BY <2>2, <3>2, <3>4, <3>5, <3>6
    <2>6. CASE r = rep
      <3>1. p \in Sending(r) /\ p \notin Sending(r)'
        BY <1>4, <1>5, <1>11, <2>6 DEF Sending
      <3>2. Sending(r)' = Sending(r) \ {p}
        BY <2>3, <2>4, <3>1
      <3>3. /\ IsFiniteSet(Sending(r)') /\ Cardinality(Sending(r)') = Cardinality(Sending(r)) - 1
            /\ Cardinality(Sending(r)') \in Nat
        BY <2>2, <3>1, <3>2, FS_RemoveElement, FS_CardinalityType
      <3>4. CASE ~sent
        <4>1. mails'[r] = mails[r] /\ reports'[r] = reports[r]
          BY <1>2, <1>9, <3>4
        <4>2. Settled(r) => Settled(r)'
          BY <2>3, <2>4, <4>1 DEF Settled
        <4>3. Credit(r)' = Credit(r)
          BY <4>1 DEF Credit
        <4>. QED BY <2>1, <2>2, <3>3, <4>2, <4>3
      <3>5. CASE sent
        <4>1. mails'[r].owed = due /\ mails'[r].early = early /\ mails'[r].excuses = mails[r].excuses
          BY <1>8, <1>9, <2>6, <3>5
        <4>2. MarkOf(p)' = due
          BY <1>4, <1>5 DEF MarkOf, due
        <4>3. Settled(r)'
          BY <1>6, <2>4, <2>6, <4>1, <4>2 DEF Settled
        <4>4. CASE cycle[p].at < mails[r].owed
          <5>1. Credit(r)' = Credit(r) - 1
            BY <1>6, <2>1, <2>6, <4>1, <4>4 DEF Credit, early
          <5>2. ~Fresh(r)
            BY <1>6, <2>1, <3>1, <4>4 DEF Fresh
          <5>. QED BY <2>1, <2>2, <3>3, <4>3, <5>1, <5>2
        <4>5. CASE ~(cycle[p].at < mails[r].owed)
          <5>1. Credit(r)' = Credit(r)
            BY <1>6, <2>1, <2>6, <4>1, <4>5 DEF Credit, early
          <5>. QED BY <2>1, <2>2, <3>3, <4>3, <5>1
        <4>. QED BY <4>4, <4>5
      <3>. QED BY <3>4, <3>5
    <2>. QED BY <2>5, <2>6
  <1>. QED BY <1>10, <1>12, <1>13

\* One more excuse for a report.
LEMMA ExcuseAdds ==
  ASSUME ReportsTypeOK, NEW r \in Reports, Excuse(r)
  PROVE  /\ mails' \in [Reports -> MailRow]
         /\ \A s \in Reports : /\ mails'[s].owed = mails[s].owed
                               /\ Credit(s)' = IF s = r THEN Credit(s) + 1 ELSE Credit(s)
  <1>1. mails[r] \in MailRow /\ mails \in [Reports -> MailRow]
    BY ReportsRows
  <1>. DEFINE n == mails[r].excuses + 1
              mail == [mails[r] EXCEPT !.excuses = n]
  <1>2. n \in 0..MaxExcuses
    BY <1>1, ReportBounds DEF Excuse, MailRow
  <1>3. mails' = [mails EXCEPT ![r] = mail]
    BY DEF Excuse
  <1>. HIDE DEF n
  <1>4. mail \in MailRow /\ mail.owed = mails[r].owed /\ mail.early = mails[r].early /\ mail.excuses = n
    BY <1>1, <1>2 DEF MailRow
  <1>. HIDE DEF mail
  <1>5. mails' \in [Reports -> MailRow] /\ mails'[r] = mail /\ \A s \in Reports : s # r => mails'[s] = mails[s]
    BY <1>1, <1>3, <1>4
  <1>6. mails[r].excuses \in Nat /\ mails[r].early \in Nat
    BY ReportNumbers
  <1>7. Credit(r)' = Credit(r) + 1
    BY <1>4, <1>5, <1>6 DEF Credit, n
  <1>. QED BY <1>4, <1>5, <1>7 DEF Credit

\* A pod marks what it has mailed, or fails to, or stops: a due time behind the
\* next mail has its excuse.
LEMMA MarkKeeps ==
  ASSUME ReportsTypeOK, ListsPlain, CreditInv, NEW p \in Pods, MarkSent(p)
  PROVE  ReportsTypeOK' /\ ListsPlain' /\ CreditInv'
  <1>. DEFINE rep == cycle[p].item.report
              next == cycle[p].at + cycle[p].item.every
  <1>1. /\ cycle[p].phase = "marking"
        /\ cycle' = [cycle EXCEPT ![p].phase = NextPhase(p)] /\ UNCHANGED <<hour, issued>>
        /\ \/ /\ reports' = [reports EXCEPT ![rep].due = next]
              /\ next < reports[rep].due /\ Excuse(rep)
           \/ /\ reports' = [reports EXCEPT ![rep].due = next]
              /\ ~(next < reports[rep].due) /\ UNCHANGED mails
           \/ Excuse(rep) /\ UNCHANGED reports
    BY DEF MarkSent
  <1>2. rep \in Reports /\ next \in Nat /\ MarkOf(p) = next /\ reports[rep] \in ReportRow
          /\ cycle[p] \in CycleRow
    BY ReportNumbers, ReportsRows DEF MarkOf
  <1>. HIDE DEF rep, next
  <1>. DEFINE row == [cycle[p] EXCEPT !.phase = NextPhase(p)]
  <1>3. /\ row \in CycleRow /\ row.phase = NextPhase(p) /\ row.todo = cycle[p].todo
        /\ row.at = cycle[p].at /\ row.item = cycle[p].item
    BY <1>2 DEF CycleRow, NextPhase
  <1>. HIDE DEF row
  <1>4. cycle' \in [Pods -> CycleRow] /\ cycle'[p] = row /\ \A q \in Pods : q # p => cycle'[q] = cycle[q]
    BY <1>1, <1>3, ReportsRows DEF row
  <1>5. /\ reports' \in [Reports -> ReportRow]
        /\ \A r \in Reports : r # rep => reports'[r].due = reports[r].due
        /\ reports' # reports => reports'[rep].due = next
    BY <1>1, <1>2, ReportsRows DEF ReportRow
  <1>6. mails' \in [Reports -> MailRow]
    BY <1>1, <1>2, ExcuseAdds, ReportsRows
  <1>7. ReportsTypeOK'
    <2>1. /\ hour' \in 0..MaxHour
          /\ issued' \in [summary : Summaries, status : {"none", "PASS", "WARNING", "FAIL"}]
      BY <1>1, ReportsRows
    <2>. QED BY <1>4, <1>5, <1>6, <2>1 DEF ReportsTypeOK, ReportRow, CycleRow, MailRow
  <1>8. ListsPlain'
    BY <1>3, <1>4 DEF ListsPlain, NextPhase
  <1>9. CreditInv'
    <2>. SUFFICES ASSUME NEW r \in Reports
                  PROVE  /\ IsFiniteSet(Sending(r)')
                         /\ Credit(r)' >= 0
                         /\ Settled(r)' \/ Credit(r)' >= 1
                         /\ \/ Credit(r)' >= Cardinality(Sending(r)')
                            \/ Fresh(r)' /\ Credit(r)' >= Cardinality(Sending(r)') - 1
      BY DEF CreditInv
    <2>1. Credit(r) \in Int /\ mails[r].owed \in Nat /\ reports[r].due \in Nat
      BY ReportNumbers
    <2>2. /\ IsFiniteSet(Sending(r)) /\ Cardinality(Sending(r)) \in Nat
          /\ Credit(r) >= 0 /\ (Settled(r) \/ Credit(r) >= 1)
          /\ \/ Credit(r) >= Cardinality(Sending(r))
             \/ Fresh(r) /\ Credit(r) >= Cardinality(Sending(r)) - 1
      BY FS_CardinalityType DEF CreditInv
    <2>3. \A q \in Pods : q # p => MarkOf(q)' = MarkOf(q) /\ (Marking(q, r)' <=> Marking(q, r))
      BY <1>4 DEF MarkOf, Marking
    <2>4. Sending(r)' = Sending(r)
      BY <1>3, <1>4 DEF Sending
    <2>5. ~Marking(p, r)' /\ (Marking(p, r) <=> r = rep)
      BY <1>1, <1>3, <1>4 DEF Marking, NextPhase, rep
    <2>6. CASE r # rep
      <3>1. mails'[r].owed = mails[r].owed /\ Credit(r)' = Credit(r) /\ reports'[r].due = reports[r].due
        BY <1>1, <1>2, <1>5, <2>6, ExcuseAdds DEF Credit
      <3>2. Settled(r) => Settled(r)'
        BY <2>3, <2>5, <2>6, <3>1 DEF Settled
      <3>3. \A q \in Pods : cycle'[q].at = cycle[q].at
        BY <1>3, <1>4
      <3>4. Fresh(r) => Fresh(r)'
        BY <2>3, <2>4, <2>5, <3>1, <3>3 DEF Fresh, Sending
      <3>. QED BY <2>2, <2>4, <3>1, <3>2, <3>4
    <2>7. CASE r = rep
      <3>1. ~Fresh(r)
        BY <2>5, <2>7 DEF Fresh
      <3>2. CASE Excuse(rep)
        <4>1. Credit(r)' = Credit(r) + 1
          BY <1>2, <2>7, <3>2, ExcuseAdds
        <4>. QED BY <2>1, <2>2, <2>4, <3>1, <4>1
      <3>3. CASE reports' = [reports EXCEPT ![rep].due = next] /\ ~(next < reports[rep].due)
                   /\ UNCHANGED mails
        <4>1. Credit(r)' = Credit(r) /\ mails'[r].owed = mails[r].owed
          BY <3>3 DEF Credit
        <4>2. reports'[r].due = next
          BY <1>2, <2>7, <3>3, ReportsRows DEF ReportRow
        <4>3. Settled(r) => Settled(r)'
          BY <1>2, <2>1, <2>3, <2>5, <2>7, <3>3, <4>1, <4>2 DEF Settled
        <4>. QED BY <2>2, <2>4, <3>1, <4>1, <4>3
      <3>. QED BY <1>1, <3>2, <3>3
    <2>. QED BY <2>6, <2>7
  <1>. QED BY <1>7, <1>8, <1>9

\* A pod that stops forgets its list, and a mail it had not marked is excused.
LEMMA StopKeeps ==
  ASSUME ReportsTypeOK, ListsPlain, CreditInv, NEW p \in Pods, WorkerStops(p)
  PROVE  ReportsTypeOK' /\ ListsPlain' /\ CreditInv'
  <1>. DEFINE rep == cycle[p].item.report
              row == [cycle[p] EXCEPT !.phase = "idle", !.todo = {}]
  <1>1. /\ cycle' = [cycle EXCEPT ![p] = row] /\ UNCHANGED <<reports, hour, issued>>
        /\ IF cycle[p].phase = "marking" THEN Excuse(rep) ELSE UNCHANGED mails
    BY DEF WorkerStops
  <1>2. rep \in Reports /\ cycle[p] \in CycleRow
    BY ReportNumbers, ReportsRows
  <1>3. row \in CycleRow /\ row.phase = "idle" /\ row.todo = {}
    BY <1>2 DEF CycleRow
  <1>. HIDE DEF row, rep
  <1>4. cycle' \in [Pods -> CycleRow] /\ cycle'[p] = row /\ \A q \in Pods : q # p => cycle'[q] = cycle[q]
    BY <1>1, <1>3, ReportsRows
  <1>5. mails' \in [Reports -> MailRow]
    BY <1>1, <1>2, ExcuseAdds, ReportsRows
  <1>6. ReportsTypeOK'
    <2>1. /\ reports' \in [Reports -> ReportRow] /\ hour' \in 0..MaxHour
          /\ issued' \in [summary : Summaries, status : {"none", "PASS", "WARNING", "FAIL"}]
      BY <1>1, ReportsRows
    <2>. QED BY <1>4, <1>5, <2>1 DEF ReportsTypeOK, ReportRow, CycleRow, MailRow
  <1>7. ListsPlain'
    BY <1>3, <1>4 DEF ListsPlain
  <1>8. CreditInv'
    <2>. SUFFICES ASSUME NEW r \in Reports
                  PROVE  /\ IsFiniteSet(Sending(r)')
                         /\ Credit(r)' >= 0
                         /\ Settled(r)' \/ Credit(r)' >= 1
                         /\ \/ Credit(r)' >= Cardinality(Sending(r)')
                            \/ Fresh(r)' /\ Credit(r)' >= Cardinality(Sending(r)') - 1
      BY DEF CreditInv
    <2>1. Credit(r) \in Int
      BY ReportNumbers
    <2>2. /\ IsFiniteSet(Sending(r)) /\ Cardinality(Sending(r)) \in Nat
          /\ Credit(r) >= 0 /\ (Settled(r) \/ Credit(r) >= 1)
          /\ \/ Credit(r) >= Cardinality(Sending(r))
             \/ Fresh(r) /\ Credit(r) >= Cardinality(Sending(r)) - 1
      BY FS_CardinalityType DEF CreditInv
    <2>3. \A q \in Pods : q # p => (q \in Sending(r)' <=> q \in Sending(r)) /\ MarkOf(q)' = MarkOf(q)
                                    /\ (Marking(q, r)' <=> Marking(q, r))
      BY <1>4 DEF Sending, MarkOf, Marking
    <2>4. ~Marking(p, r)' /\ p \notin Sending(r)'
      BY <1>3, <1>4 DEF Marking, Sending
    <2>5. Sending(r)' = Sending(r) \ {p}
      <3>1. Sending(r) \subseteq Pods /\ Sending(r)' \subseteq Pods
        BY DEF Sending
      <3>. QED BY <2>3, <2>4, <3>1
    <2>6. /\ IsFiniteSet(Sending(r)') /\ Cardinality(Sending(r)') \in Nat
          /\ Cardinality(Sending(r)') <= Cardinality(Sending(r))
      <3>1. Sending(r)' \subseteq Sending(r)
        BY <2>5
      <3>2. IsFiniteSet(Sending(r)') /\ Cardinality(Sending(r)') <= Cardinality(Sending(r))
        BY <2>2, <3>1, FS_Subset
      <3>. QED BY <3>2, FS_CardinalityType
    <2>7. mails'[r].owed = mails[r].owed /\ reports'[r].due = reports[r].due
      BY <1>1, <1>2, ExcuseAdds
    <2>8. CASE Marking(p, r)
      <3>1. Credit(r)' = Credit(r) + 1
        BY <1>1, <1>2, <2>8, ExcuseAdds DEF Marking, rep
      <3>2. ~Fresh(r)
        BY <2>8 DEF Fresh
      <3>. QED BY <2>1, <2>2, <2>6, <3>1, <3>2
    <2>9. CASE ~Marking(p, r)
      <3>1. Credit(r)' = Credit(r)
        BY <1>1, <1>2, <2>9, ExcuseAdds DEF Marking, rep, Credit
      <3>2. Settled(r) => Settled(r)'
        BY <2>3, <2>7, <2>9 DEF Settled
      <3>3. \A q \in Sending(r)' : cycle'[q].at = cycle[q].at
        BY <1>4, <2>4 DEF Sending
      <3>4. Fresh(r) => Fresh(r)'
        BY <2>3, <2>4, <2>5, <2>7, <3>3 DEF Fresh
      <3>. QED BY <2>1, <2>2, <2>6, <3>1, <3>2, <3>4
    <2>. QED BY <2>8, <2>9
  <1>. QED BY <1>6, <1>7, <1>8

\* The invariant is kept, and only the generator makes a report ready.
LEMMA ReportsStep ==
  ReportsInv /\ [ReportsNext \/ StandardsNext]_reportsVars
    => ReportsInv' /\ (ReadyOnlyFromGenerator \/ UNCHANGED reportsVars)
  <1>. SUFFICES ASSUME ReportsInv, [ReportsNext \/ StandardsNext]_reportsVars
                PROVE  ReportsInv' /\ (ReadyOnlyFromGenerator \/ UNCHANGED reportsVars)
    OBVIOUS
  <1>1. /\ reports \in [Reports -> ReportRow] /\ hour \in 0..MaxHour /\ cycle \in [Pods -> CycleRow]
        /\ mails \in [Reports -> MailRow]
        /\ issued \in [summary : Summaries, status : {"none", "PASS", "WARNING", "FAIL"}]
        /\ ListsPlain /\ CreditInv /\ PassIsEarned /\ ReportsTypeOK
    BY ReportsRows DEF ReportsInv
  <1>2. ASSUME RowStep \/ UNCHANGED reports, UNCHANGED <<cycle, mails>>
        PROVE  /\ reports' \in [Reports -> ReportRow] /\ ListsPlain' /\ CreditInv' /\ ReadyOnlyFromGenerator
    <2>1. CASE UNCHANGED reports
      <3>1. CreditInv'
        BY <1>1, <1>2, <2>1, QuietKeeps
      <3>2. ReadyOnlyFromGenerator
        BY <2>1 DEF ReadyOnlyFromGenerator
      <3>. QED BY <1>1, <1>2, <2>1, <3>1, <3>2 DEF ListsPlain
    <2>2. CASE RowStep
      <3>1. PICK r \in Reports, row \in ReportRow :
              /\ row.due = reports[r].due
              /\ row.status = "READY" => reports[r].status \in {"none", "READY"}
              /\ reports' = [reports EXCEPT ![r] = row]
        BY <2>2 DEF RowStep
      <3>2. reports' \in [Reports -> ReportRow] /\ reports'[r] = row
              /\ \A s \in Reports : s # r => reports'[s] = reports[s]
        BY <1>1, <3>1
      <3>3. CreditInv'
        BY <1>1, <1>2, <3>1, <3>2, QuietKeeps
      <3>4. ReadyOnlyFromGenerator
        BY <3>1, <3>2 DEF ReadyOnlyFromGenerator
      <3>. QED BY <1>1, <1>2, <3>2, <3>3, <3>4 DEF ListsPlain
    <2>. QED BY <1>2, <2>1, <2>2
  <1>3. UNCHANGED issued => PassIsEarned'
    BY <1>1 DEF PassIsEarned
  <1>4. CASE Tick
    <2>1. hour' \in 0..MaxHour /\ UNCHANGED <<reports, cycle, mails, issued>>
      BY <1>1, <1>4, ReportBounds DEF Tick
    <2>. QED BY <1>1, <1>2, <1>3, <2>1, ReportsRows
             DEF ReportsInv, ReportsTypeOK, ReportRow, CycleRow, MailRow
  <1>5. ASSUME NEW r \in Reports, HandlerStep(r) PROVE ReportsInv' /\ ReadyOnlyFromGenerator
    <2>1. RowStep /\ UNCHANGED <<hour, cycle, mails, issued>>
      BY <1>1, <1>5, HandlerIsRowStep
    <2>. QED BY <1>1, <1>2, <1>3, <2>1 DEF ReportsInv, ReportsTypeOK, ReportRow, CycleRow, MailRow
  <1>6. ASSUME NEW r \in Reports, GetRegulatoryComplianceReport(r)
        PROVE  ReportsInv' /\ ReadyOnlyFromGenerator
    <2>1. PICK s \in Summaries :
            /\ \/ Insert(r, overallStatus(s))
               \/ UNCHANGED <<reports, hour, cycle, mails>>
            /\ issued' = [summary |-> s, status |-> overallStatus(s)]
      BY <1>6 DEF GetRegulatoryComplianceReport
    <2>2. overallStatus(s) \in {"PASS", "WARNING", "FAIL"} /\ overallStatus(s) \in Statuses
      BY VerdictEarned DEF Statuses
    <2>3. (RowStep \/ UNCHANGED reports) /\ UNCHANGED <<hour, cycle, mails>>
      BY <1>1, <2>1, <2>2, InsertIsRowStep
    <2>4. issued' \in [summary : Summaries, status : {"none", "PASS", "WARNING", "FAIL"}]
            /\ issued'.summary = s /\ issued'.status = overallStatus(s)
      BY <2>1, <2>2
    <2>5. PassIsEarned'
      BY <2>4, VerdictEarned DEF PassIsEarned, FailedSections, FinancialPassed
    <2>. QED BY <1>1, <1>2, <2>3, <2>4, <2>5 DEF ReportsInv, ReportsTypeOK, ReportRow, CycleRow, MailRow
  <1>7. ASSUME NEW p \in Pods, \/ runScheduledDeliveryCycle(p) \/ deliverScheduledReport(p)
                               \/ MarkSent(p) \/ WorkerStops(p)
        PROVE  ReportsInv' /\ ReadyOnlyFromGenerator
    <2>1. ReportsTypeOK' /\ ListsPlain' /\ CreditInv'
      BY <1>1, <1>7, ListKeeps, DeliverKeeps, MarkKeeps, StopKeeps
    <2>2. UNCHANGED issued
      BY <1>7 DEF runScheduledDeliveryCycle, deliverScheduledReport, MarkSent, WorkerStops
    <2>3. ReadyOnlyFromGenerator
      <3>. SUFFICES ASSUME NEW r \in Reports PROVE reports'[r].status = reports[r].status
        BY DEF ReadyOnlyFromGenerator
      <3>1. CASE UNCHANGED reports
        BY <3>1
      <3>2. CASE MarkSent(p) /\ ~UNCHANGED reports
        <4>1. reports' = [reports EXCEPT ![cycle[p].item.report].due = MarkOf(p)]
          BY <3>2 DEF MarkSent, MarkOf
        <4>. QED BY <1>1, <4>1 DEF ReportRow
      <3>. QED BY <1>7, <3>1, <3>2 DEF runScheduledDeliveryCycle, deliverScheduledReport, WorkerStops
    <2>. QED BY <1>3, <2>1, <2>2, <2>3 DEF ReportsInv
  <1>8. CASE UNCHANGED reportsVars
    <2>1. UNCHANGED <<reports, hour, cycle, mails, issued>>
      BY <1>8 DEF reportsVars
    <2>. QED BY <1>1, <1>2, <1>3, <1>8, <2>1 DEF ReportsInv, ReportsTypeOK, ReportRow, CycleRow, MailRow
  <1>9. ASSUME NEW r \in Reports, DeleteReport(r) PROVE HandlerStep(r)
    BY <1>9 DEF HandlerStep
  <1>10. CASE ReportsNext
    BY <1>2, <1>4, <1>5, <1>7, <1>10 DEF ReportsNext, HandlerStep, Tick
  <1>11. CASE StandardsNext
    BY <1>5, <1>6, <1>9, <1>11 DEF StandardsNext
  <1>. QED BY <1>8, <1>10, <1>11

\* The inductive invariant of reports and their delivery.
THEOREM ReportsInvariant == ReportsSpec => []ReportsInv
  BY ReportsInitInv, ReportsStep, PTL DEF ReportsSpec

\* A scheduled mail that comes before it is owed has its own overlap of two
\* pods, lost mark or stop, the worker mails what the generator made, and a
\* report on a standard that passes has earned it: runScheduledDeliveryCycle,
\* deliverScheduledReport, the routes of reports, GetRegulatoryComplianceReport.
THEOREM ReportsEarned == ReportsSpec => ReportsAreEarned
  <1>1. ReportsInv => RepeatsAreExcused
    <2>. SUFFICES ASSUME ReportsInv, NEW r \in Reports PROVE mails[r].early <= mails[r].excuses
      BY DEF RepeatsAreExcused
    <2>1. mails[r].early \in Nat /\ mails[r].excuses \in Nat
      BY ReportNumbers DEF ReportsInv
    <2>. QED BY <2>1 DEF ReportsInv, CreditInv, Credit
  <1>2. ReportsInv /\ ReportsInv' /\ [ReportsNext \/ StandardsNext]_reportsVars
          => [ReadyOnlyFromGenerator /\ RepeatsAreExcused' /\ PassIsEarned']_reportsVars
    <2>1. ReportsInv' => RepeatsAreExcused' /\ PassIsEarned'
      BY <1>1, PTL DEF ReportsInv
    <2>. QED BY <2>1, ReportsStep
  <1>. QED BY <1>2, ReportsInvariant, PTL DEF ReportsSpec, ReportsAreEarned

-----------------------------------------------------------------------------
(* The three together                                                          *)

\* Each component goes through its own behaviours when they share the service.
LEMMA BackgroundParts == Spec => ReportsSpec /\ DlpSpec /\ LedgerSpec
  <1>1. BackgroundInit => ReportsInit /\ DlpInit /\ LedgerInit
    BY DEF BackgroundInit
  <1>2. [BackgroundNext]_backgroundVars => [ReportsNext \/ StandardsNext]_reportsVars
    BY DEF BackgroundNext, backgroundVars, reportsVars, otherDlp, otherLedger
  <1>3. [BackgroundNext]_backgroundVars => [DlpNext]_dlpVars
    BY DEF BackgroundNext, backgroundVars, dlpVars, otherReports, otherLedger, DlpNext
  <1>4. [BackgroundNext]_backgroundVars => [LedgerNext]_ledgerVars
    BY DEF BackgroundNext, backgroundVars, ledgerVars, otherReports, otherDlp, LedgerNext
  <1>. QED BY <1>1, <1>2, <1>3, <1>4, PTL DEF Spec, ReportsSpec, DlpSpec, LedgerSpec

\* All three keep their types.
THEOREM BackgroundTypeCorrect == Spec => []TypeOK
  <1>1. ReportsInv => ReportsTypeOK
    BY DEF ReportsInv
  <1>. QED BY <1>1, BackgroundParts, ReportsInvariant, DlpInvariant, DlpTyped, LedgerInvariant,
              LedgerTyped, PTL DEF TypeOK
=============================================================================
