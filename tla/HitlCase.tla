------------------------------ MODULE HitlCase ------------------------------
(***************************************************************************)
(* The rows of core_hitl (human-in-the-loop decisions) and every routed    *)
(* handler that writes one: creation, arbitration, jury votes, assignment, *)
(* department reassignment, bulk resolution, overflow routing, the guard   *)
(* that precedes a department's deletion, and merging.                     *)
(*                                                                         *)
(* A Worker is one HTTP request in flight together with the goroutine it   *)
(* leaves behind.  req[w] holds the request's arguments, where it is in    *)
(* its handler (pc) and what it has read.  Each step is one transaction or *)
(* one call of ocx-core-svc, so requests interleave between those.         *)
(*                                                                         *)
(* A FOR UPDATE read that is followed by a write in the same transaction   *)
(* holds the row (pc = "locked") until it commits; any other write of the  *)
(* row waits for it, as PostgreSQL makes it wait.                          *)
(***************************************************************************)
EXTENDS JuryPanel

CONSTANTS Cases,           \* ids that core_hitl rows may have
          Workers,         \* concurrent requests
          DeptNames,       \* department slugs a client may write
          Departments,     \* those that exist in syst_departments
          HitlDepts,       \* those whose enabled_features.hitl is not false
          NoDept,          \* no slug given
          OverflowDept,    \* overflow_routing_config, by department
          MaxCases,        \* capacity of a department (200)
          MaxMoves,        \* max_cases_to_move (10)
          QuorumSettings,  \* decision_data.quorum_threshold of a new row
          Endpoints,       \* the routes that receive traffic
          Faults           \* whether a call inside a handler may fail

AllEndpoints == {"create", "arbitrate", "vote", "assign", "reassign", "bulk",
                 "overflow", "guard", "merge"}

ASSUME EndpointsKnown == Endpoints \subseteq AllEndpoints
ASSUME FaultsBoolean == Faults \in BOOLEAN
ASSUME DepartmentsKnown == /\ HitlDepts \subseteq Departments
                           /\ Departments \subseteq DeptNames
                           /\ NoDept \notin DeptNames
                           /\ OverflowDept \in [Departments -> DeptNames]
ASSUME LimitsNat == /\ MaxCases \in Nat
                    /\ MaxMoves \in Nat \ {0}
                    /\ QuorumSettings \subseteq Nat

VARIABLES hitl,        \* core_hitl, by case
          ballots,     \* core_hitl_votes: committed rows, by case
          req,         \* requests in flight, by worker
          verdictLog   \* HITL_VERDICT events posted: <<case, verdict>>

vars == <<hitl, ballots, req, verdictLog>>

Verdicts == {"APPROVED", "REJECTED"}
Statuses == {"absent", "PENDING", "APPROVED", "REJECTED", "ESCALATED", "MERGED"}

\* Mutant: a rejected case may be arbitrated again.
ClosedForArbitration_NoRejected == {"APPROVED", "arbitrated", "MERGED", "RESOLVED"}

\* The switch of HandleResolveCase, and the shorter list of HandleReassignCase.
ClosedForArbitration == {"APPROVED", "REJECTED", "arbitrated", "MERGED", "RESOLVED"}
ClosedForReassign == {"APPROVED", "REJECTED", "RESOLVED"}

\* Keys of context_data, grouped by who writes them.
ContextKeys == {"origin", "assigned", "departments", "routing", "handover"}

Row == [status : Statuses, dept : DeptNames \cup {NoDept},
        ctx : SUBSET ContextKeys, votes : Ballots, quorum : Nat]

NoRow == [status |-> "absent", dept |-> NoDept, ctx |-> {},
          votes |-> EmptyPanel, quorum |-> 0]

Exists(c) == hitl[c].status # "absent"
PendingIn(d) == {c \in Cases : hitl[c].status = "PENDING" /\ hitl[c].dept = d}

-----------------------------------------------------------------------------
(* Requests *)

Idle == [op |-> "none"]
IdleReq == {Idle}
ArbitrateReq == [op : {"arbitrate"}, pc : {"begin", "locked", "audit"},
                 case : Cases, verdict : Verdicts, seen : Statuses]
VoteReq == [op : {"vote"}, pc : {"begin", "inserted", "locked"},
            case : Cases, voter : Voters, decision : Decisions, seen : Row]
AssignReq == [op : {"assign"}, pc : {"begin", "context", "write"},
              case : Cases, dept : DeptNames \cup {NoDept}, named : BOOLEAN,
              routed : BOOLEAN, ctx : SUBSET ContextKeys]
ReassignReq == [op : {"reassign"}, pc : {"begin", "checked"},
                case : Cases, to : DeptNames]
BulkReq == [op : {"bulk"}, pc : {"patch"}, verdict : Verdicts \cup {"ESCALATED"},
            todo : SUBSET Cases]
OverflowReq == [op : {"overflow"}, pc : {"begin"}, dept : DeptNames,
                todo : SUBSET Cases, left : 1..MaxMoves]
               \cup [op : {"overflow"}, pc : {"move"}, dept : Departments,
                     todo : SUBSET Cases, left : 1..MaxMoves]
GuardReq == [op : {"guard"}, pc : {"begin", "safe"}, dept : DeptNames,
             to : DeptNames \cup {NoDept}, todo : SUBSET Cases]
            \cup [op : {"guard"}, pc : {"move"}, dept : DeptNames,
                  to : DeptNames, todo : SUBSET Cases]

IsRequest(r) == \/ r \in IdleReq \/ r \in ArbitrateReq \/ r \in VoteReq
                \/ r \in AssignReq \/ r \in ReassignReq \/ r \in BulkReq
                \/ r \in OverflowReq \/ r \in GuardReq

\* UpdateRowCompound, or PatchHITLCase: one row is written.
Write(c, row) == hitl' = [hitl EXCEPT ![c] = row]

At(w, op, pc) == req[w].op = op /\ req[w].pc = pc
Become(w, r) == req' = [req EXCEPT ![w] = r]
Receive(w, endpoint, r) == endpoint \in Endpoints /\ req[w] = Idle /\ Become(w, r)

\* Worker w is inside a transaction that has read case c FOR UPDATE.
HoldsRow(w, c) == /\ req[w].op \in {"arbitrate", "vote"}
                  /\ req[w].pc = "locked"
                  /\ req[w].case = c
RowFree(c) == \A w \in Workers : ~HoldsRow(w, c)

TypeOK == /\ hitl \in [Cases -> Row]
          /\ ballots \in [Cases -> Ballots]
          /\ DOMAIN req = Workers
          /\ \A w \in Workers : IsRequest(req[w])
          /\ verdictLog \subseteq Cases \X Verdicts

Init == /\ hitl = [c \in Cases |-> NoRow]
        /\ ballots = [c \in Cases |-> EmptyPanel]
        /\ req = [w \in Workers |-> Idle]
        /\ verdictLog = {}

-----------------------------------------------------------------------------
(* Creation and merging: one write each. *)

\* CreateCase: the INSERT; the id is fresh, the department is not checked.
CreateCase(c) ==
  /\ "create" \in Endpoints
  /\ ~Exists(c)
  /\ \E d \in DeptNames \cup {NoDept}, q \in QuorumSettings :
       Write(c, [status |-> "PENDING", dept |-> d, ctx |-> {"origin"},
                 votes |-> EmptyPanel, quorum |-> q])
  /\ UNCHANGED <<ballots, req, verdictLog>>

\* HandleMergeCase: no read, no guard; the parent is not looked at.
MergeCase(c) ==
  /\ "merge" \in Endpoints
  /\ Exists(c) /\ RowFree(c)
  /\ Write(c, [hitl[c] EXCEPT !.status = "MERGED"])
  /\ UNCHANGED <<ballots, req, verdictLog>>

-----------------------------------------------------------------------------
(* HandleResolveCase: lock, check, write, then the audit goroutine. *)

ArbitrateBegin(w) ==
  /\ \E c \in Cases, v \in Verdicts :
       Receive(w, "arbitrate", [op |-> "arbitrate", pc |-> "begin", case |-> c,
                                verdict |-> v, seen |-> "absent"])
  /\ UNCHANGED <<hitl, ballots, verdictLog>>

\* Mutant: a plain SELECT in place of SELECT ... FOR UPDATE.
ArbitrateLock_PlainRead(w) ==
  /\ At(w, "arbitrate", "begin")
  /\ LET c == req[w].case
     IN  \/ ~Exists(c) /\ Become(w, Idle)
         \/ Exists(c) /\ Become(w, [req[w] EXCEPT !.pc = "locked",
                                                  !.seen = hitl[c].status])
  /\ UNCHANGED <<hitl, ballots, verdictLog>>

ArbitrateLock(w) ==
  /\ At(w, "arbitrate", "begin")
  /\ LET c == req[w].case
     IN  /\ RowFree(c)
         /\ \/ ~Exists(c) /\ Become(w, Idle)
            \/ Exists(c) /\ Become(w, [req[w] EXCEPT !.pc = "locked",
                                                     !.seen = hitl[c].status])
  /\ UNCHANGED <<hitl, ballots, verdictLog>>

\* 409: the transaction rolls back.
ArbitrateRefuse(w) ==
  /\ At(w, "arbitrate", "locked")
  /\ req[w].seen \in ClosedForArbitration
  /\ Become(w, Idle)
  /\ UNCHANGED <<hitl, ballots, verdictLog>>

\* Mutant: the update goes through db, not tx, and waits for its own lock.
ArbitrateCommit_OutsideTx(w) ==
  /\ At(w, "arbitrate", "locked")
  /\ req[w].seen \notin ClosedForArbitration
  /\ RowFree(req[w].case)
  /\ Write(req[w].case, [hitl[req[w].case] EXCEPT !.status = req[w].verdict,
                                                 !.votes = EmptyPanel, !.quorum = 0])
  /\ Become(w, [req[w] EXCEPT !.pc = "audit"])
  /\ UNCHANGED <<ballots, verdictLog>>

\* decision_data is replaced as a whole, and with it votes and quorum.
ArbitrateCommit(w) ==
  /\ At(w, "arbitrate", "locked")
  /\ req[w].seen \notin ClosedForArbitration
  /\ Write(req[w].case, [hitl[req[w].case] EXCEPT !.status = req[w].verdict,
                                                 !.votes = EmptyPanel, !.quorum = 0])
  /\ Become(w, [req[w] EXCEPT !.pc = "audit"])
  /\ UNCHANGED <<ballots, verdictLog>>

\* PostEvent HITL_VERDICT in a goroutine, with the context of a request that
\* has been answered: it is posted, or cancelled and lost.
ArbitrateAudit(w) ==
  /\ At(w, "arbitrate", "audit")
  /\ \/ verdictLog' = verdictLog \cup {<<req[w].case, req[w].verdict>>}
     \/ UNCHANGED verdictLog
  /\ Become(w, Idle)
  /\ UNCHANGED <<hitl, ballots>>

-----------------------------------------------------------------------------
(* HandleCasesSubmitJuryVote: insert the ballot, lock the case, count the   *)
(* ballots of its decision_data, write the outcome; one transaction.        *)

VoteBegin(w) ==
  /\ \E c \in Cases, v \in Voters, d \in Decisions :
       Receive(w, "vote", [op |-> "vote", pc |-> "begin", case |-> c, voter |-> v,
                           decision |-> d, seen |-> NoRow])
  /\ UNCHANGED <<hitl, ballots, verdictLog>>

\* Another transaction has inserted this voter's ballot and not committed yet.
BallotPending(w) == req[w].op = "vote" /\ req[w].pc \in {"inserted", "locked"}
BallotInFlight(c, v) ==
  \E w \in Workers : BallotPending(w) /\ req[w].case = c /\ req[w].voter = v

\* Mutant: no unique index, the ballots are looked up before the insert.
VoteInsert_NoUnique(w) ==
  /\ At(w, "vote", "begin")
  /\ IF ballots[req[w].case][req[w].voter] = NoBallot
     THEN Become(w, [req[w] EXCEPT !.pc = "inserted"])
     ELSE Become(w, Idle)
  /\ UNCHANGED <<hitl, ballots, verdictLog>>

\* UNIQUE (case_id, voter_id): a second ballot is refused with 409.
VoteInsert(w) ==
  /\ At(w, "vote", "begin")
  /\ ~BallotInFlight(req[w].case, req[w].voter)
  /\ IF ballots[req[w].case][req[w].voter] = NoBallot
     THEN Become(w, [req[w] EXCEPT !.pc = "inserted"])
     ELSE Become(w, Idle)
  /\ UNCHANGED <<hitl, ballots, verdictLog>>

\* Mutant: a plain SELECT in place of SELECT ... FOR UPDATE.
VoteLock_PlainRead(w) ==
  /\ At(w, "vote", "inserted")
  /\ LET c == req[w].case
     IN  \/ ~Exists(c) /\ Become(w, Idle)
         \/ Exists(c) /\ Become(w, [req[w] EXCEPT !.pc = "locked", !.seen = hitl[c]])
  /\ UNCHANGED <<hitl, ballots, verdictLog>>

VoteLock(w) ==
  /\ At(w, "vote", "inserted")
  /\ LET c == req[w].case
     IN  /\ RowFree(c)
         /\ \/ ~Exists(c) /\ Become(w, Idle)
            \/ Exists(c) /\ Become(w, [req[w] EXCEPT !.pc = "locked",
                                                     !.seen = hitl[c]])
  /\ UNCHANGED <<hitl, ballots, verdictLog>>

\* Mutant: the ballot row is not part of the transaction, and is lost.
VoteCommit_NoDualWrite(w) ==
  /\ At(w, "vote", "locked")
  /\ LET c == req[w].case
         votes == [req[w].seen.votes EXCEPT ![req[w].voter] = req[w].decision]
     IN  Write(c, [hitl[c] EXCEPT !.votes = votes])
  /\ Become(w, Idle)
  /\ UNCHANGED <<ballots, verdictLog>>

\* The status stands while the panel is incomplete.  A decided case is not
\* excluded: the outcome is computed again at every ballot.
VoteCommit(w) ==
  /\ At(w, "vote", "locked")
  /\ LET c == req[w].case
         votes == [req[w].seen.votes EXCEPT ![req[w].voter] = req[w].decision]
         outcome == PanelOutcome(votes, req[w].seen.quorum)
     IN  /\ ballots' = [ballots EXCEPT ![c][req[w].voter] = req[w].decision]
         /\ Write(c, [hitl[c] EXCEPT
                        !.status = IF outcome = "OPEN" THEN req[w].seen.status
                                                       ELSE outcome,
                        !.votes = votes,
                        !.quorum = EffectiveQuorum(req[w].seen.quorum)])
  /\ Become(w, Idle)
  /\ UNCHANGED verdictLog

-----------------------------------------------------------------------------
(* HandleAssignCase: checks, an optional read of context_data in a          *)
(* transaction of its own, then a write without a guard.                    *)

\* named: the request names a user.  routed: the departments come from the
\* classifier, which may find none.
AssignBegin(w) ==
  /\ \E c \in Cases, d \in DeptNames \cup {NoDept}, named, routed \in BOOLEAN :
       /\ d = NoDept => routed
       /\ Receive(w, "assign", [op |-> "assign", pc |-> "begin", case |-> c,
                                dept |-> d, named |-> named, routed |-> routed,
                                ctx |-> {}])
  /\ UNCHANGED <<hitl, ballots, verdictLog>>

\* A failed count of the department's cases counts as none.
Admissible(d) == d = NoDept \/ /\ d \in HitlDepts
                               /\ Faults \/ Cardinality(PendingIn(d)) < MaxCases
Refusable(d) == /\ d # NoDept
                /\ \/ d \notin HitlDepts
                   \/ Cardinality(PendingIn(d)) >= MaxCases
                   \/ Faults

AssignCheck(w) ==
  /\ At(w, "assign", "begin")
  /\ \/ Refusable(req[w].dept) /\ Become(w, Idle)
     \/ /\ Admissible(req[w].dept)
        /\ Become(w, [req[w] EXCEPT !.pc = IF req[w].named THEN "write" ELSE "context"])
  /\ UNCHANGED <<hitl, ballots, verdictLog>>

\* The transaction ends, and the lock with it, before the write.
AssignReadContext(w) ==
  /\ At(w, "assign", "context")
  /\ RowFree(req[w].case)
  /\ \E read \in {hitl[req[w].case].ctx} \cup (IF Faults THEN {{}} ELSE {}) :
       Become(w, [req[w] EXCEPT !.pc = "write",
                                !.ctx = read \cup {"assigned"}
                                        \cup (IF req[w].dept = NoDept THEN {}
                                              ELSE {"departments"})])
  /\ UNCHANGED <<hitl, ballots, verdictLog>>

\* context_data is written unless a user is named and nothing was routed.
AssignWrite(w) ==
  /\ At(w, "assign", "write")
  /\ LET c == req[w].case
         routing == IF req[w].routed THEN {"routing"} ELSE {}
     IN  /\ RowFree(c)
         /\ \/ ~Exists(c) /\ UNCHANGED hitl
            \/ /\ Exists(c)
               /\ Write(c, [hitl[c] EXCEPT
                              !.status = "PENDING",
                              !.ctx = IF req[w].named /\ ~req[w].routed THEN @
                                      ELSE req[w].ctx \cup routing])
  /\ Become(w, Idle)
  /\ UNCHANGED <<ballots, verdictLog>>

-----------------------------------------------------------------------------
(* Handing a case over: context_data is replaced by the record of the move. *)
Moved(c, d) == Write(c, [hitl[c] EXCEPT !.dept = d, !.ctx = {"handover"}])

(* HandleReassignCase: the transaction only reads; the write comes after    *)
(* the checks of the target department.                                     *)

ReassignBegin(w) ==
  /\ \E c \in Cases, d \in DeptNames :
       Receive(w, "reassign", [op |-> "reassign", pc |-> "begin", case |-> c,
                               to |-> d])
  /\ UNCHANGED <<hitl, ballots, verdictLog>>

ReassignCheck(w) ==
  /\ At(w, "reassign", "begin")
  /\ LET c == req[w].case
     IN  /\ RowFree(c)
         /\ IF ~Exists(c) \/ hitl[c].status \in ClosedForReassign
            THEN Become(w, Idle)
            ELSE Become(w, [req[w] EXCEPT !.pc = "checked"])
  /\ UNCHANGED <<hitl, ballots, verdictLog>>

ReassignRefuse(w) ==
  /\ At(w, "reassign", "checked")
  /\ req[w].to \notin HitlDepts
  /\ Become(w, Idle)
  /\ UNCHANGED <<hitl, ballots, verdictLog>>

\* Mutant: the handover also puts the case back to PENDING.
ReassignWrite_Reopens(w) ==
  /\ At(w, "reassign", "checked")
  /\ req[w].to \in HitlDepts
  /\ RowFree(req[w].case)
  /\ Write(req[w].case, [hitl[req[w].case] EXCEPT !.status = "PENDING",
                           !.dept = req[w].to, !.ctx = {"handover"}])
  /\ Become(w, Idle)
  /\ UNCHANGED <<ballots, verdictLog>>

ReassignWrite(w) ==
  /\ At(w, "reassign", "checked")
  /\ req[w].to \in HitlDepts
  /\ RowFree(req[w].case)
  /\ Moved(req[w].case, req[w].to)
  /\ Become(w, Idle)
  /\ UNCHANGED <<ballots, verdictLog>>

-----------------------------------------------------------------------------
(* HandleResolveBulkHITL: one PatchHITLCase per id; a failed one is         *)
(* reported and the loop goes on.                                           *)

BulkBegin(w) ==
  /\ \E cs \in (SUBSET Cases) \ {{}}, v \in Verdicts \cup {"ESCALATED"} :
       Receive(w, "bulk", [op |-> "bulk", pc |-> "patch", verdict |-> v,
                           todo |-> cs])
  /\ UNCHANGED <<hitl, ballots, verdictLog>>

BulkPatch(w) ==
  /\ At(w, "bulk", "patch")
  /\ \E c \in req[w].todo :
       /\ \/ /\ Exists(c) /\ RowFree(c)
             /\ Write(c, [hitl[c] EXCEPT !.status = req[w].verdict])
          \/ (Faults \/ ~Exists(c)) /\ UNCHANGED hitl
       /\ Become(w, IF req[w].todo = {c} THEN Idle
                    ELSE [req[w] EXCEPT !.todo = @ \ {c}])
  /\ UNCHANGED <<ballots, verdictLog>>

-----------------------------------------------------------------------------
(* HandleRouteDeptOverflow and HandleGuardDeptDeletion: list the pending    *)
(* cases of a department, then move them one by one.                        *)

OverflowBegin(w) ==
  /\ \E d \in DeptNames :
       Receive(w, "overflow", [op |-> "overflow", pc |-> "begin", dept |-> d,
                               todo |-> {}, left |-> MaxMoves])
  /\ UNCHANGED <<hitl, ballots, verdictLog>>

OverflowList(w) ==
  /\ At(w, "overflow", "begin")
  /\ LET d == req[w].dept
         over == /\ d \in Departments
                 /\ Cardinality(PendingIn(d)) > MaxCases
                 /\ OverflowDept[d] # d
                 /\ OverflowDept[d] \in Departments
     IN  \/ over /\ Become(w, [req[w] EXCEPT !.pc = "move", !.todo = PendingIn(d)])
         \/ (~over \/ Faults) /\ Become(w, Idle)
  /\ UNCHANGED <<hitl, ballots, verdictLog>>

\* Mutant: moved is counted and never compared with max_cases_to_move.
OverflowMove_NoLimit(w) ==
  /\ At(w, "overflow", "move")
  /\ \E c \in req[w].todo :
       /\ RowFree(c) /\ Moved(c, OverflowDept[req[w].dept])
       /\ Become(w, IF req[w].todo = {c} THEN Idle
                    ELSE [req[w] EXCEPT !.todo = @ \ {c}, !.left = @ - 1])
  /\ UNCHANGED <<ballots, verdictLog>>

\* PatchHITLCase by id: the status listed is not part of the write.
OverflowMove(w) ==
  /\ At(w, "overflow", "move")
  /\ \E c \in req[w].todo :
       \/ /\ RowFree(c) /\ Moved(c, OverflowDept[req[w].dept])
          /\ Become(w, IF req[w].todo = {c} \/ req[w].left = 1 THEN Idle
                       ELSE [req[w] EXCEPT !.todo = @ \ {c}, !.left = @ - 1])
       \/ /\ Faults /\ UNCHANGED hitl
          /\ Become(w, IF req[w].todo = {c} THEN Idle
                       ELSE [req[w] EXCEPT !.todo = @ \ {c}])
  /\ UNCHANGED <<ballots, verdictLog>>

GuardBegin(w) ==
  /\ \E d \in DeptNames, t \in DeptNames \cup {NoDept} :
       Receive(w, "guard", [op |-> "guard", pc |-> "begin", dept |-> d, to |-> t,
                            todo |-> {}])
  /\ UNCHANGED <<hitl, ballots, verdictLog>>

GuardList(w) ==
  /\ At(w, "guard", "begin")
  /\ LET open == PendingIn(req[w].dept)
     IN  \/ open = {} /\ Become(w, [req[w] EXCEPT !.pc = "safe"])
         \/ /\ open # {} /\ req[w].to \notin {NoDept, req[w].dept}
            /\ Become(w, [req[w] EXCEPT !.pc = "move", !.todo = open])
         \/ /\ Faults \/ (open # {} /\ req[w].to \in {NoDept, req[w].dept})
            /\ Become(w, Idle)
  /\ UNCHANGED <<hitl, ballots, verdictLog>>

\* A failed move is not counted, and does not change the answer.
GuardMove(w) ==
  /\ At(w, "guard", "move")
  /\ \E c \in req[w].todo :
       /\ \/ RowFree(c) /\ Moved(c, req[w].to)
          \/ Faults /\ UNCHANGED hitl
       /\ Become(w, IF req[w].todo = {c} THEN [req[w] EXCEPT !.pc = "safe", !.todo = {}]
                    ELSE [req[w] EXCEPT !.todo = @ \ {c}])
  /\ UNCHANGED <<ballots, verdictLog>>

\* safe_to_delete: true
GuardAnswer(w) ==
  /\ At(w, "guard", "safe")
  /\ Become(w, Idle)
  /\ UNCHANGED <<hitl, ballots, verdictLog>>

-----------------------------------------------------------------------------

\* A database error, a cancelled request or a crash of the service ends a
\* request where it is; an open transaction is rolled back.
Abandon(w) ==
  /\ Faults
  /\ req[w] # Idle
  /\ Become(w, Idle)
  /\ UNCHANGED <<hitl, ballots, verdictLog>>

Arrive(w) == \/ ArbitrateBegin(w) \/ VoteBegin(w) \/ AssignBegin(w)
             \/ ReassignBegin(w) \/ BulkBegin(w) \/ OverflowBegin(w) \/ GuardBegin(w)

Step(w) == \/ ArbitrateLock(w) \/ ArbitrateRefuse(w) \/ ArbitrateCommit(w)
           \/ ArbitrateAudit(w)
           \/ VoteInsert(w) \/ VoteLock(w) \/ VoteCommit(w)
           \/ AssignCheck(w) \/ AssignReadContext(w) \/ AssignWrite(w)
           \/ ReassignCheck(w) \/ ReassignRefuse(w) \/ ReassignWrite(w)
           \/ BulkPatch(w)
           \/ OverflowList(w) \/ OverflowMove(w)
           \/ GuardList(w) \/ GuardMove(w) \/ GuardAnswer(w)

Next == \/ \E c \in Cases : CreateCase(c) \/ MergeCase(c)
        \/ \E w \in Workers : Arrive(w) \/ Step(w) \/ Abandon(w)

Spec == Init /\ [][Next]_vars

\* A request that can go on eventually does; row locks are granted in the
\* order they are asked for, so a waiting request is not overtaken for ever.
Fairness == \A w \in Workers : SF_vars(Step(w))
FairSpec == Spec /\ Fairness

-----------------------------------------------------------------------------
(* Properties that hold of every traffic. *)

\* The arbitration endpoint never writes over a closed case: whatever other
\* requests do between its read and its write, the row is still open when it
\* commits (the FOR UPDATE of HandleResolveCase).
ArbitrationRespectsDecision ==
  [][\A w \in Workers :
       At(w, "arbitrate", "locked") /\ At(w, "arbitrate", "audit")'
         => hitl[req[w].case].status \notin ClosedForArbitration]_vars

\* A reviewer's ballot, once committed, is never replaced, however many
\* requests of that reviewer are in flight (double submission, retry).
BallotIsFinal ==
  [][\A c \in Cases, v \in Voters :
       ballots[c][v] # NoBallot => ballots'[c][v] = ballots[c][v]]_vars

\* The dual write of a vote: what a case counts in decision_data was cast, and
\* cast so, in core_hitl_votes.
CountedBallotsWereCast ==
  \A c \in Cases, v \in Voters :
    hitl[c].votes[v] # NoBallot => hitl[c].votes[v] = ballots[c][v]

\* What the row locks and the unique index give every handler that takes them:
\* one holder per row, a holder whose reading is still what the row says, and
\* one ballot of a reviewer in flight, for a case where none is committed.
OneHolderPerRow ==
  \A v, w \in Workers, c \in Cases : HoldsRow(v, c) /\ HoldsRow(w, c) => v = w

HolderReadsRow ==
  \A w \in Workers :
    /\ At(w, "arbitrate", "locked") => /\ Exists(req[w].case)
                                       /\ req[w].seen = hitl[req[w].case].status
    /\ At(w, "vote", "locked") => /\ Exists(req[w].case)
                                  /\ req[w].seen = hitl[req[w].case]

OneBallotInFlight ==
  \A w \in Workers : BallotPending(w) =>
    /\ ballots[req[w].case][req[w].voter] = NoBallot
    /\ \A v \in Workers :
         BallotPending(v) /\ req[v].case = req[w].case /\ req[v].voter = req[w].voter
           => v = w

LockDiscipline == OneHolderPerRow /\ HolderReadsRow /\ OneBallotInFlight

\* Every request is answered: no two handlers wait for each other's row.
RequestsAnswered ==
  \A w \in Workers : req[w] # Idle ~> req[w] = Idle

-----------------------------------------------------------------------------
(* Properties of the traffic that the mechanism they rest on can bear.      *)

\* Routes that write a status without looking at the one they replace.
UnguardedEndpoints == {"vote", "assign", "bulk", "merge"}

\* A verdict stands.  It does so as long as none of the unguarded routes is
\* used: reassignment, overflow and migration leave decided cases decided.
DecidedIsFinal ==
  [][\A c \in Cases :
       hitl[c].status \in Verdicts => hitl'[c].status = hitl[c].status]_vars

\* The audit trail agrees with the case: a posted HITL_VERDICT names the
\* verdict the row still has, though it is posted after the commit.
AuditMatchesRow ==
  \A c \in Cases, v \in Verdicts :
    <<c, v>> \in verdictLog => hitl[c].status = v

\* With jury votes alone deciding, the status is at every moment the outcome
\* of all committed ballots: none is lost between concurrent requests.
JuryStatusIsOutcome ==
  \A c \in Cases : Exists(c) =>
    LET outcome == PanelOutcome(ballots[c], hitl[c].quorum)
    IN  hitl[c].status = IF outcome = "OPEN" THEN "PENDING" ELSE outcome

\* One more ballot never turns an approval into a rejection or the reverse;
\* a panel that loses its supermajority is deadlocked first.
JuryNeverFlips ==
  [][\A c \in Cases :
       hitl[c].status \in Verdicts => hitl'[c].status \in {hitl[c].status, "ESCALATED"}]_vars

-----------------------------------------------------------------------------
(* What the repository says of its handlers, and the runs refute. *)

\* cases.go, answer 409: "case already decided - re-arbitration not permitted".
NoReArbitration ==
  \A c \in Cases : ~({<<c, v>> : v \in Verdicts} \subseteq verdictLog)
=============================================================================
