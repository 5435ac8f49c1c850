-------------------------- MODULE DocumentSources --------------------------
(* Rows of core_tenant_docs of one tenant: import sources and the files of    *)
(* its drives, keyed by source_id.  Connector syncs upsert them from          *)
(* overlapping listings, extractions run in the background after their answer *)
(* is sent, and both write the status of the same rows.                       *)
(* handlers/reports/{drive_sync,resource_graph,resource_relationships}.go     *)
EXTENDS Integers, FiniteSets

CONSTANTS
  Docs,          \* source ids
  Connectors,    \* connectors of the tenant
  Syncs,         \* requests that sync a connector
  Extractions,   \* requests that extract a source
  NoConnector,
  NoDoc,
  MaxName,       \* bound on the renames of a file
  MaxLosses      \* bound on failed writes, remote failures and stopped pods

ASSUME SourcesAssumption ==
  /\ IsFiniteSet(Docs) /\ NoConnector \notin Connectors /\ NoDoc \notin Docs
  /\ MaxName \in Nat /\ MaxLosses \in Nat

VARIABLES
  docs,      \* row by source id
  drive,     \* name a file has on the drive
  conns,     \* last_sync_status and documents_synced by connector
  syncs,     \* goroutine of HandleSyncConnectorDocuments
  extracts,  \* goroutine of HandleImportSourceExtract
  drafts,    \* extractions whose policy row was inserted
  proposals, \* extractions whose self-heal proposal was inserted
  intents,   \* extractions an intent of which was inserted
  ape,       \* OCX_APE_HTTP_URL is set
  losses

sourcesVars == <<docs, drive, conns, syncs, extracts, drafts, proposals, intents, ape, losses>>
driveVars == <<conns, syncs, drive>>
extractVars == <<extracts, drafts, proposals, intents>>

DocStatuses == {"new", "IN_PROGRESS", "SYNCED", "FAILED", "synced"}
\* "ref": has no external_ref, or has one with an id that is too short or long
\* enough for sourceID[:8].
Doc == [stored : BOOLEAN, ref : {"none", "short", "long"}, status : DocStatuses, name : 0..MaxName,
        conn : Connectors \cup {NoConnector}]
Conn == [status : {"none", "synced", "error"}, count : 0..Cardinality(Docs), basis : SUBSET Docs]
SyncPcs == {"idle", "list", "files", "update", "report", "done"}
Sync == [pc : SyncPcs, conn : Connectors \cup {NoConnector}, left : SUBSET Docs,
         names : [Docs -> 0..MaxName], file : Docs \cup {NoDoc}, counted : SUBSET Docs,
         failed : BOOLEAN, excused : BOOLEAN, seen : SUBSET Syncs]
ExtractPcs == {"idle", "mark", "start", "fetch", "ape", "store", "stored", "fallback", "draft",
               "propose", "done"}
Extract == [pc : ExtractPcs, doc : Docs \cup {NoDoc}, answered : BOOLEAN, excused : BOOLEAN,
            seen : SUBSET Extractions]

SourcesTypeOK ==
  /\ docs \in [Docs -> Doc]
  /\ drive \in [Docs -> 0..MaxName]
  /\ conns \in [Connectors -> Conn]
  /\ syncs \in [Syncs -> Sync]
  /\ extracts \in [Extractions -> Extract]
  /\ drafts \subseteq Extractions
  /\ proposals \subseteq Extractions
  /\ intents \subseteq Extractions
  /\ ape \in BOOLEAN
  /\ losses \in 0..MaxLosses

\* Some sources are registered with an external_ref by another service.
SourcesInit ==
  /\ \E refs \in [Docs -> {"none", "short", "long"}] :
       /\ docs = [d \in Docs |-> [stored |-> refs[d] # "none", ref |-> refs[d],
                                  status |-> "new", name |-> 0, conn |-> NoConnector]]
       /\ syncs = [s \in Syncs |-> [pc |-> "idle", conn |-> NoConnector, left |-> {},
                                    names |-> [d \in Docs |-> 0], file |-> NoDoc, counted |-> {},
                                    failed |-> FALSE, excused |-> FALSE, seen |-> {}]]
       /\ extracts = [e \in Extractions |-> [pc |-> "idle", doc |-> NoDoc, answered |-> FALSE,
                                             excused |-> FALSE, seen |-> {}]]
  /\ drive = [d \in Docs |-> 0]
  /\ conns = [c \in Connectors |-> [status |-> "none", count |-> 0, basis |-> {}]]
  /\ drafts = {} /\ proposals = {} /\ intents = {}
  /\ ape \in BOOLEAN
  /\ losses = 0

Lose == losses < MaxLosses /\ losses' = losses + 1
-----------------------------------------------------------------------------
(* Connector syncs: list the drive, then insert and update file by file, then *)
(* write the outcome over whatever the connector has.                         *)

\* A user renames a file; both drives may hold it.
Rename(d) ==
  /\ drive[d] < MaxName
  /\ drive' = [drive EXCEPT ![d] = @ + 1]
  /\ UNCHANGED <<docs, conns, syncs, extractVars, ape, losses>>

Running(s) == syncs[s].pc \in {"list", "files", "update", "report"}

\* The connector is found and the goroutine started; one of an unknown type
\* ends at once.  "seen" remembers the syncs this one overlaps.
HandleSyncConnectorDocuments(s, c, known) ==
  /\ syncs[s].pc = "idle"
  /\ syncs' = [r \in Syncs |->
                 IF r = s THEN [syncs[s] EXCEPT !.pc = IF known THEN "list" ELSE "done", !.conn = c,
                                                !.seen = {q \in Syncs : Running(q)}]
                 ELSE IF Running(r) THEN [syncs[r] EXCEPT !.seen = @ \cup {s}]
                 ELSE syncs[r]]
  /\ UNCHANGED <<docs, drive, conns, extractVars, ape, losses>>

\* Mutant: the listing shows the names of an earlier one.
ListDrive_Cached(s) ==
  /\ syncs[s].pc = "list"
  /\ \E listed \in SUBSET Docs, names \in {drive, [d \in Docs |-> 0]} :
       syncs' = [syncs EXCEPT ![s] = [@ EXCEPT !.pc = "files", !.left = listed, !.names = names]]
  /\ UNCHANGED <<docs, drive, conns, extractVars, ape, losses>>

\* syncGoogleDrive, syncSharePoint, syncS3: what the folder or the filter
\* leaves of the drive, with the names of now; or an error of the API.
ListDrive(s) ==
  /\ syncs[s].pc = "list"
  /\ \/ /\ \E listed \in SUBSET Docs :
             syncs' = [syncs EXCEPT ![s] = [@ EXCEPT !.pc = "files", !.left = listed, !.names = drive]]
        /\ UNCHANGED losses
     \/ Lose /\ syncs' = [syncs EXCEPT ![s] = [@ EXCEPT !.pc = "report", !.failed = TRUE]]
  /\ UNCHANGED <<docs, drive, conns, extractVars, ape>>

\* upsertDriveDocument, the INSERT: nothing on a conflict, and its error is
\* only logged.
InsertDocument(s, d) ==
  /\ syncs[s].pc = "files" /\ d \in syncs[s].left
  /\ \/ /\ docs' = IF docs[d].stored THEN docs
                   ELSE [docs EXCEPT ![d] = [@ EXCEPT !.stored = TRUE, !.status = "synced",
                                                      !.name = syncs[s].names[d], !.conn = syncs[s].conn]]
        /\ syncs' = [syncs EXCEPT ![s] = [@ EXCEPT !.pc = "update", !.file = d]]
        /\ UNCHANGED losses
     \/ /\ Lose
        /\ syncs' = [syncs EXCEPT ![s] = [@ EXCEPT !.pc = "update", !.file = d, !.excused = TRUE]]
        /\ UNCHANGED docs
  /\ UNCHANGED <<drive, conns, extractVars, ape>>

\* upsertDriveDocument, the UPDATE: no row is no error; a file whose UPDATE
\* fails is not counted.
UpdateDocument(s) ==
  LET d == syncs[s].file
      after(counted) == [syncs EXCEPT ![s] = [syncs[s] EXCEPT !.pc = "files", !.left = @ \ {d}, !.counted = counted]]
  IN /\ syncs[s].pc = "update"
     /\ \/ /\ docs' = IF docs[d].stored
                      THEN [docs EXCEPT ![d] = [@ EXCEPT !.status = "synced", !.name = syncs[s].names[d],
                                                         !.conn = syncs[s].conn]]
                      ELSE docs
           /\ syncs' = after(syncs[s].counted \cup {d})
           /\ UNCHANGED losses
        \/ Lose /\ syncs' = after(syncs[s].counted) /\ UNCHANGED docs
     /\ UNCHANGED <<drive, conns, extractVars, ape>>

FinishListing(s) ==
  /\ syncs[s].pc = "files" /\ syncs[s].left = {}
  /\ syncs' = [syncs EXCEPT ![s].pc = "report"]
  /\ UNCHANGED <<docs, drive, conns, extractVars, ape, losses>>

\* The status and the count, zero after an error; a lost write is logged.
\* "basis" is which files were counted, empty when an INSERT was lost.
ReportSync(s) ==
  /\ syncs[s].pc = "report"
  /\ \/ /\ conns' = [conns EXCEPT ![syncs[s].conn] =
             [status |-> IF syncs[s].failed THEN "error" ELSE "synced",
              count |-> IF syncs[s].failed THEN 0 ELSE Cardinality(syncs[s].counted),
              basis |-> IF syncs[s].excused THEN {} ELSE syncs[s].counted]]
        /\ UNCHANGED losses
     \/ Lose /\ UNCHANGED conns
  /\ syncs' = [syncs EXCEPT ![s].pc = "done"]
  /\ UNCHANGED <<docs, drive, extractVars, ape>>

\* The pod stops: the goroutine ends where it is.
AbandonSync(s) ==
  /\ Running(s) /\ Lose
  /\ syncs' = [syncs EXCEPT ![s].pc = "done"]
  /\ UNCHANGED <<docs, drive, conns, extractVars, ape>>
-----------------------------------------------------------------------------
(* HandleImportSourceExtract and its goroutine.  The request context ends     *)
(* when the answer is sent, whatever the goroutine is doing.                  *)

Busy(e) == extracts[e].pc \notin {"idle", "done"}

\* The source is found, with a reference to fetch.
HandleImportSourceExtract(e, d) ==
  /\ extracts[e].pc = "idle"
  /\ docs[d].stored /\ docs[d].ref # "none"
  /\ extracts' = [f \in Extractions |->
                    IF f = e THEN [extracts[e] EXCEPT !.pc = "mark", !.doc = d,
                                     !.seen = {g \in Extractions : Busy(g) /\ extracts[g].doc = d}]
                    ELSE IF Busy(f) /\ extracts[f].doc = d THEN [extracts[f] EXCEPT !.seen = @ \cup {e}]
                    ELSE extracts[f]]
  /\ UNCHANGED <<docs, driveVars, drafts, proposals, intents, ape, losses>>

\* The step of e to pc with a new status of its row, or with the write lost.
SetStatus(e, pc, status) ==
  \/ /\ docs' = [docs EXCEPT ![extracts[e].doc].status = status]
     /\ extracts' = [extracts EXCEPT ![e].pc = pc]
     /\ UNCHANGED losses
  \/ /\ Lose
     /\ extracts' = [extracts EXCEPT ![e] = [@ EXCEPT !.pc = pc, !.excused = TRUE]]
     /\ UNCHANGED docs

\* IN_PROGRESS; sourceID[:8] panics on an id of fewer characters, before the
\* goroutine is started.
MarkInProgress(e) ==
  /\ extracts[e].pc = "mark"
  /\ IF docs[extracts[e].doc].ref = "short"
     THEN /\ docs' = [docs EXCEPT ![extracts[e].doc].status = "IN_PROGRESS"]
          /\ extracts' = [extracts EXCEPT ![e] = [@ EXCEPT !.pc = "done", !.excused = TRUE]]
          /\ UNCHANGED losses
     ELSE SetStatus(e, "start", "IN_PROGRESS")
  /\ UNCHANGED <<driveVars, drafts, proposals, intents, ape>>

\* 202: net/http cancels the context of the request.
AnswerAccepted(e) ==
  /\ extracts[e].pc \notin {"idle", "mark", "done"} /\ ~extracts[e].answered
  /\ extracts' = [extracts EXCEPT ![e].answered = TRUE]
  /\ UNCHANGED <<docs, driveVars, drafts, proposals, intents, ape, losses>>

StartExtraction(e) ==
  /\ extracts[e].pc = "start"
  /\ extracts' = [extracts EXCEPT ![e].pc = IF ape THEN "fetch" ELSE "fallback"]
  /\ UNCHANGED <<docs, driveVars, drafts, proposals, intents, ape, losses>>

\* A call under the context of the request: it can succeed only before the
\* answer, and fails after it or with its service.
Succeeds(e, pc) ==
  /\ ~extracts[e].answered
  /\ extracts' = [extracts EXCEPT ![e].pc = pc]
  /\ UNCHANGED <<docs, losses>>
RemoteFailure(e) ==
  /\ IF extracts[e].answered THEN UNCHANGED losses ELSE Lose
  /\ docs' = [docs EXCEPT ![extracts[e].doc].status = "FAILED"]
  /\ extracts' = [extracts EXCEPT ![e].pc = "done"]

FetchDocument(e) ==
  /\ extracts[e].pc = "fetch"
  /\ Succeeds(e, "ape") \/ RemoteFailure(e)
  /\ UNCHANGED <<driveVars, drafts, proposals, intents, ape>>

\* The APE service answers with intents, with something that does not decode
\* (fall back to the metadata), or with an error.
CallApe(e) ==
  /\ extracts[e].pc = "ape"
  /\ Succeeds(e, "store") \/ Succeeds(e, "fallback") \/ RemoteFailure(e)
  /\ UNCHANGED <<driveVars, drafts, proposals, intents, ape>>

\* The intents found, none perhaps; a failed INSERT is logged.
StoreIntents(e, found) ==
  /\ extracts[e].pc = "store"
  /\ \/ /\ intents' = IF found THEN intents \cup {e} ELSE intents
        /\ extracts' = [extracts EXCEPT ![e] = [extracts[e] EXCEPT !.pc = "stored", !.excused = @ \/ ~found]]
        /\ UNCHANGED losses
     \/ /\ found /\ Lose
        /\ extracts' = [extracts EXCEPT ![e] = [@ EXCEPT !.pc = "stored", !.excused = TRUE]]
        /\ UNCHANGED intents
  /\ UNCHANGED <<docs, driveVars, drafts, proposals, ape>>

\* SYNCED after the intents, and in the fallback before the policy.
SetSynced(e) ==
  /\ \/ extracts[e].pc = "stored" /\ SetStatus(e, "done", "SYNCED")
     \/ extracts[e].pc = "fallback" /\ SetStatus(e, "draft", "SYNCED")
  /\ UNCHANGED <<driveVars, drafts, proposals, intents, ape>>

\* Mutant: the draft policy is put before nobody.
InsertDraft_NoProposal(e) ==
  /\ extracts[e].pc = "draft"
  /\ drafts' = drafts \cup {e}
  /\ extracts' = [extracts EXCEPT ![e].pc = "done"]
  /\ UNCHANGED <<docs, driveVars, proposals, intents, ape, losses>>

\* The policy row, DRAFT; without it no proposal is made.
InsertDraft(e) ==
  /\ extracts[e].pc = "draft"
  /\ \/ /\ drafts' = drafts \cup {e}
        /\ extracts' = [extracts EXCEPT ![e].pc = "propose"]
        /\ UNCHANGED losses
     \/ /\ Lose
        /\ extracts' = [extracts EXCEPT ![e] = [@ EXCEPT !.pc = "done", !.excused = TRUE]]
        /\ UNCHANGED drafts
  /\ UNCHANGED <<docs, driveVars, proposals, intents, ape>>

\* InsertPolicySelfHealProposal, PENDING, under the context of the request.
ProposeReview(e) ==
  /\ extracts[e].pc = "propose"
  /\ \/ /\ ~extracts[e].answered
        /\ proposals' = proposals \cup {e}
        /\ extracts' = [extracts EXCEPT ![e].pc = "done"]
        /\ UNCHANGED losses
     \/ /\ IF extracts[e].answered THEN UNCHANGED losses ELSE Lose
        /\ extracts' = [extracts EXCEPT ![e] = [extracts[e] EXCEPT !.pc = "done",
                                                           !.excused = @ \/ ~extracts[e].answered]]
        /\ UNCHANGED proposals
  /\ UNCHANGED <<docs, driveVars, drafts, intents, ape>>

\* The pod stops.
AbandonExtraction(e) ==
  /\ Busy(e) /\ Lose
  /\ extracts' = [extracts EXCEPT ![e] = [@ EXCEPT !.pc = "done", !.excused = TRUE]]
  /\ UNCHANGED <<docs, driveVars, drafts, proposals, intents, ape>>
-----------------------------------------------------------------------------
SyncsNext ==
  \/ \E d \in Docs : Rename(d)
  \/ \E s \in Syncs :
       \/ \E c \in Connectors, known \in BOOLEAN : HandleSyncConnectorDocuments(s, c, known)
       \/ \E d \in Docs : InsertDocument(s, d)
       \/ ListDrive(s) \/ UpdateDocument(s) \/ FinishListing(s) \/ ReportSync(s) \/ AbandonSync(s)

ExtractsNext ==
  \E e \in Extractions :
    \/ \E d \in Docs : HandleImportSourceExtract(e, d)
    \/ \E found \in BOOLEAN : StoreIntents(e, found)
    \/ MarkInProgress(e) \/ AnswerAccepted(e) \/ StartExtraction(e) \/ FetchDocument(e) \/ CallApe(e)
    \/ SetSynced(e) \/ InsertDraft(e) \/ ProposeReview(e) \/ AbandonExtraction(e)

SourcesNext == SyncsNext \/ ExtractsNext
SourcesSpec == SourcesInit /\ [][SourcesNext]_sourcesVars
-----------------------------------------------------------------------------
(* Files are counted after an UPDATE that may have matched no row, and two    *)
(* drives may hold one file.  Still a connector shows more documents than it  *)
(* has rows only if a write was lost, or another connector took a counted     *)
(* row over.                                                                  *)
CountedAreStored ==
  \A c \in Connectors :
    conns[c].count > Cardinality({d \in Docs : docs[d].stored /\ docs[d].conn = c})
      => \/ conns[c].basis = {}
         \/ \E d \in conns[c].basis : docs[d].stored /\ docs[d].conn # c

(* A document goes back to an older name only by a sync that overlapped       *)
(* another one: its listing was older than what the other had stored.         *)
NameGoesBackOnlyByOverlap ==
  \A d \in Docs : docs'[d].name < docs[d].name =>
    \E s \in Syncs : syncs[s].pc = "update" /\ syncs[s].file = d /\ syncs[s].seen # {}

(* What a sync leaves behind is stale only as the two above say.              *)
SyncsTraced == [][NameGoesBackOnlyByOverlap /\ CountedAreStored']_sourcesVars

(* A source is left IN_PROGRESS with no extraction running only if one was    *)
(* cut off: its pod stopped, its id was too short, or its last status was     *)
(* lost.  Two extractions of one source, and syncs that write its status,     *)
(* may overlap in every way.                                                  *)
InProgressIsRunning ==
  \A d \in Docs : docs[d].status = "IN_PROGRESS" =>
    \E e \in Extractions : extracts[e].doc = d /\ (Busy(e) \/ extracts[e].excused)

(* SYNCED is written before what was extracted.  When all is over, a SYNCED   *)
(* source has an intent or a draft policy, unless a step after it failed, the *)
(* pod stopped, or there was nothing to find.                                 *)
SyncedHasExtract ==
  \A d \in Docs :
    docs[d].status = "SYNCED" =>
      \E e \in Extractions :
        extracts[e].doc = d /\ (Busy(e) \/ extracts[e].excused \/ e \in drafts \cup intents)

(* A draft policy is left without the proposal that puts it before an         *)
(* operator only when the answer was sent before the proposal was made, or a  *)
(* step failed.                                                               *)
UnreviewedOnlyAfterAnswer ==
  \A e \in drafts : e \notin proposals /\ ~Busy(e) => extracts[e].answered \/ extracts[e].excused

(* A failed extraction gives way to a success of an extraction of the same    *)
(* source only if the two overlapped or the second one began after it (it is  *)
(* IN_PROGRESS then), and a running one is declared synced only by a drive.   *)
FailureGivesWayToOverlap ==
  \A d \in Docs :
    docs[d].status = "FAILED" /\ docs'[d].status = "SYNCED" =>
      \E e \in Extractions : /\ extracts[e].doc = d /\ Busy(e)
                             /\ extracts[e].seen # {} \/ extracts[e].excused

(* The status of a source and what was extracted from it agree, through       *)
(* overlaps, answers and failures, as the four above say.                     *)
ExtractionsTraced ==
  [][FailureGivesWayToOverlap /\ InProgressIsRunning' /\ SyncedHasExtract'
       /\ UnreviewedOnlyAfterAnswer']_sourcesVars
=============================================================================
