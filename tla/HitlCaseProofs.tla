--------------------------- MODULE HitlCaseProofs ---------------------------
(* What TLAPS proves of HitlCase, for any cases, workers, voters, departments *)
(* and limits.                                                                *)
EXTENDS HitlCase, FiniteSetTheorems, TLAPS

-----------------------------------------------------------------------------
(* Types *)

\* The quorum in force is a natural number again.
LEMMA EffectiveQuorumNat ==
  ASSUME NEW setting \in Nat
  PROVE  EffectiveQuorum(setting) \in Nat
  BY FloorPositive DEF EffectiveQuorum

\* The outcome of a panel is one of four.
LEMMA PanelOutcomeType ==
  ASSUME NEW b, NEW setting
  PROVE  PanelOutcome(b, setting) \in {"OPEN", "APPROVED", "REJECTED", "ESCALATED"}
  BY DEF PanelOutcome

\* Replacing one request by a well-formed one keeps the requests well formed.
LEMMA BecomeType ==
  ASSUME TypeOK, NEW w \in Workers, NEW r, IsRequest(r), Become(w, r)
  PROVE  /\ DOMAIN req' = Workers
         /\ \A v \in Workers : IsRequest(req'[v])
  BY DEF TypeOK, Become

\* Idle is a well-formed request.
LEMMA IdleType == IsRequest(Idle)
  BY DEF IsRequest, IdleReq, Idle

\* A request whose op is known is a record of that operation.
LEMMA RequestOf ==
  ASSUME TypeOK, NEW w \in Workers
  PROVE  /\ req[w].op = "arbitrate" => req[w] \in ArbitrateReq
         /\ req[w].op = "vote" => req[w] \in VoteReq
         /\ req[w].op = "assign" => req[w] \in AssignReq
         /\ req[w].op = "reassign" => req[w] \in ReassignReq
         /\ req[w].op = "bulk" => req[w] \in BulkReq
         /\ req[w].op = "overflow" => req[w] \in OverflowReq
         /\ req[w].op = "guard" => req[w] \in GuardReq
  BY DEF TypeOK, IsRequest, IdleReq, Idle, ArbitrateReq, VoteReq, AssignReq, ReassignReq,
         BulkReq, OverflowReq, GuardReq

\* The initial state is well typed.
LEMMA InitType == Init => TypeOK
  BY DEF Init, TypeOK, IsRequest, IdleReq, NoRow, Row, Statuses, EmptyPanel, Ballots,
         NoBallot, Decisions

\* The updates that handlers make to a row leave it a row.
LEMMA RowUpdates ==
  ASSUME NEW r \in Row
  PROVE  /\ \A s \in Statuses : [r EXCEPT !.status = s] \in Row
         /\ \A s \in Statuses, b \in Ballots, q \in Nat :
              [r EXCEPT !.status = s, !.votes = b, !.quorum = q] \in Row
         /\ \A s \in Statuses, x \in SUBSET ContextKeys :
              [r EXCEPT !.status = s, !.ctx = x] \in Row
         /\ \A d \in DeptNames : [r EXCEPT !.dept = d, !.ctx = {"handover"}] \in Row
  BY DEF Row, ContextKeys

\* A well-formed row is written.
LEMMA WriteType ==
  ASSUME TypeOK, NEW c \in Cases, NEW row \in Row, Write(c, row)
  PROVE  hitl' \in [Cases -> Row]
  BY DEF TypeOK, Write

\* A request moves to another program counter.
LEMMA RequestMoves ==
  /\ \A r \in ArbitrateReq, s \in Statuses :
       /\ [r EXCEPT !.pc = "audit"] \in ArbitrateReq
       /\ [r EXCEPT !.pc = "locked", !.seen = s] \in ArbitrateReq
  /\ \A r \in VoteReq, row \in Row :
       /\ [r EXCEPT !.pc = "inserted"] \in VoteReq
       /\ [r EXCEPT !.pc = "locked", !.seen = row] \in VoteReq
  /\ \A r \in AssignReq, x \in SUBSET ContextKeys, pc \in {"context", "write"} :
       /\ [r EXCEPT !.pc = pc] \in AssignReq
       /\ [r EXCEPT !.pc = "write", !.ctx = x] \in AssignReq
  /\ \A r \in ReassignReq :
       [r EXCEPT !.pc = "checked"] \in ReassignReq
  /\ \A r \in BulkReq, todo \in SUBSET Cases : [r EXCEPT !.todo = todo] \in BulkReq
  /\ \A r \in OverflowReq, todo \in SUBSET Cases, left \in 1..MaxMoves :
       /\ [r EXCEPT !.todo = todo] \in OverflowReq
       /\ r.dept \in Departments => [r EXCEPT !.pc = "move", !.todo = todo] \in OverflowReq
       /\ [r EXCEPT !.todo = todo, !.left = left] \in OverflowReq
  /\ \A r \in GuardReq, todo \in SUBSET Cases :
       /\ [r EXCEPT !.pc = "safe"] \in GuardReq
       /\ r.to \in DeptNames => [r EXCEPT !.pc = "move", !.todo = todo] \in GuardReq
       /\ [r EXCEPT !.pc = "safe", !.todo = {}] \in GuardReq
       /\ [r EXCEPT !.todo = todo] \in GuardReq
  <1>1. \A r \in ArbitrateReq, s \in Statuses :
          /\ [r EXCEPT !.pc = "audit"] \in ArbitrateReq
          /\ [r EXCEPT !.pc = "locked", !.seen = s] \in ArbitrateReq
    BY DEF ArbitrateReq
  <1>2. \A r \in VoteReq, row \in Row :
          /\ [r EXCEPT !.pc = "inserted"] \in VoteReq
          /\ [r EXCEPT !.pc = "locked", !.seen = row] \in VoteReq
    BY DEF VoteReq
  <1>3. \A r \in AssignReq, x \in SUBSET ContextKeys, pc \in {"context", "write"} :
          /\ [r EXCEPT !.pc = pc] \in AssignReq
          /\ [r EXCEPT !.pc = "write", !.ctx = x] \in AssignReq
    BY DEF AssignReq
  <1>4. \A r \in ReassignReq :
          [r EXCEPT !.pc = "checked"] \in ReassignReq
    BY DEF ReassignReq
  <1>5. \A r \in BulkReq, todo \in SUBSET Cases : [r EXCEPT !.todo = todo] \in BulkReq
    BY DEF BulkReq
  <1>6. \A r \in OverflowReq, todo \in SUBSET Cases, left \in 1..MaxMoves :
          /\ [r EXCEPT !.todo = todo] \in OverflowReq
          /\ r.dept \in Departments =>
               [r EXCEPT !.pc = "move", !.todo = todo] \in OverflowReq
          /\ [r EXCEPT !.todo = todo, !.left = left] \in OverflowReq
    BY DEF OverflowReq
  <1>7. \A r \in GuardReq, todo \in SUBSET Cases :
          /\ [r EXCEPT !.pc = "safe"] \in GuardReq
          /\ r.to \in DeptNames => [r EXCEPT !.pc = "move", !.todo = todo] \in GuardReq
          /\ [r EXCEPT !.pc = "safe", !.todo = {}] \in GuardReq
          /\ [r EXCEPT !.todo = todo] \in GuardReq
    BY DEF GuardReq
  <1>8. QED
    BY <1>1, <1>2, <1>3, <1>4, <1>5, <1>6, <1>7

\* Creation and merging keep the types.
LEMMA CreateMergeType ==
  ASSUME TypeOK, NEW c \in Cases, CreateCase(c) \/ MergeCase(c)
  PROVE  TypeOK'
  <1>1. hitl' \in [Cases -> Row]
    <2>1. CASE CreateCase(c)
      BY <2>1, WriteType, LimitsNat
         DEF CreateCase, Row, Statuses, ContextKeys, EmptyPanel, Ballots
    <2>2. CASE MergeCase(c)
      BY <2>2, WriteType, RowUpdates DEF MergeCase, TypeOK, Statuses
    <2>3. QED
      BY <2>1, <2>2
  <1>2. QED
    BY <1>1 DEF CreateCase, MergeCase, TypeOK

\* Arbitration keeps the types.
LEMMA ArbitrateType ==
  ASSUME TypeOK, NEW w \in Workers,
         \/ ArbitrateBegin(w) \/ ArbitrateLock(w) \/ ArbitrateRefuse(w)
         \/ ArbitrateCommit(w) \/ ArbitrateAudit(w)
  PROVE  TypeOK'
  <1>1. CASE ArbitrateBegin(w)
    BY <1>1, BecomeType DEF ArbitrateBegin, Receive, TypeOK, IsRequest, ArbitrateReq, Statuses
  <1>2. CASE ArbitrateLock(w)
    <2>1. req[w] \in ArbitrateReq
      BY <1>2, RequestOf DEF ArbitrateLock, At
    <2>2. hitl[req[w].case].status \in Statuses
      BY <2>1 DEF ArbitrateReq, TypeOK, Row
    <2>3. IsRequest([req[w] EXCEPT !.pc = "locked", !.seen = hitl[req[w].case].status])
      BY <2>1, <2>2, RequestMoves DEF IsRequest
    <2>4. QED
      BY <1>2, <2>3, BecomeType, IdleType DEF ArbitrateLock, TypeOK
  <1>3. CASE ArbitrateRefuse(w)
    BY <1>3, BecomeType, IdleType DEF ArbitrateRefuse, TypeOK
  <1>4. CASE ArbitrateCommit(w)
    <2>1. req[w] \in ArbitrateReq
      BY <1>4, RequestOf DEF ArbitrateCommit, At
    <2>2. hitl' \in [Cases -> Row]
      BY <1>4, <2>1, RowUpdates, WriteType
         DEF ArbitrateCommit, ArbitrateReq, TypeOK, Verdicts, Statuses, EmptyPanel, Ballots
    <2>3. QED
      BY <1>4, <2>1, <2>2, BecomeType, RequestMoves
         DEF ArbitrateCommit, TypeOK, IsRequest, Statuses
  <1>5. CASE ArbitrateAudit(w)
    BY <1>5, BecomeType, IdleType, RequestOf DEF ArbitrateAudit, At, TypeOK, ArbitrateReq
  <1>6. QED
    BY <1>1, <1>2, <1>3, <1>4, <1>5

\* Voting keeps the types.
LEMMA VoteType ==
  ASSUME TypeOK, NEW w \in Workers,
         VoteBegin(w) \/ VoteInsert(w) \/ VoteLock(w) \/ VoteCommit(w)
  PROVE  TypeOK'
  <1>1. CASE VoteBegin(w)
    <2>1. NoRow \in Row
      BY DEF NoRow, Row, Statuses, EmptyPanel, Ballots
    <2>2. QED
      BY <1>1, <2>1, BecomeType DEF VoteBegin, Receive, TypeOK, IsRequest, VoteReq
  <1>2. CASE VoteInsert(w)
    <2>1. req[w] \in VoteReq
      BY <1>2, RequestOf DEF VoteInsert, At
    <2>2. IsRequest([req[w] EXCEPT !.pc = "inserted"])
      <3>1. NoRow \in Row
        BY DEF NoRow, Row, Statuses, EmptyPanel, Ballots
      <3>2. QED
        BY <2>1, <3>1, RequestMoves DEF IsRequest
    <2>3. QED
      BY <1>2, <2>2, BecomeType, IdleType DEF VoteInsert, TypeOK
  <1>3. CASE VoteLock(w)
    <2>1. req[w] \in VoteReq
      BY <1>3, RequestOf DEF VoteLock, At
    <2>2. hitl[req[w].case] \in Row
      BY <2>1 DEF VoteReq, TypeOK
    <2>3. IsRequest([req[w] EXCEPT !.pc = "locked", !.seen = hitl[req[w].case]])
      BY <2>1, <2>2, RequestMoves DEF IsRequest
    <2>4. QED
      BY <1>3, <2>3, BecomeType, IdleType DEF VoteLock, TypeOK
  <1>4. CASE VoteCommit(w)
    <2> DEFINE c == req[w].case
               votes == [req[w].seen.votes EXCEPT ![req[w].voter] = req[w].decision]
               outcome == PanelOutcome(votes, req[w].seen.quorum)
               status == IF outcome = "OPEN" THEN req[w].seen.status ELSE outcome
               quorum == EffectiveQuorum(req[w].seen.quorum)
    <2>1. req[w] \in VoteReq
      BY <1>4, RequestOf DEF VoteCommit, At
    <2>2. c \in Cases /\ hitl[c] \in Row
      BY <2>1 DEF VoteReq, TypeOK
    <2>3. votes \in Ballots
      BY <2>1 DEF VoteReq, Row, Ballots
    <2>4. status \in Statuses
      BY <2>1, PanelOutcomeType DEF VoteReq, Row, Statuses
    <2>5. quorum \in Nat
      BY <2>1, EffectiveQuorumNat DEF VoteReq, Row
    <2>6. hitl' \in [Cases -> Row]
      <3> HIDE DEF votes, outcome, status, quorum
      <3>1. Write(c, [hitl[c] EXCEPT !.status = status, !.votes = votes, !.quorum = quorum])
        BY <1>4 DEF VoteCommit, votes, outcome, status, quorum
      <3>2. QED
        BY <2>2, <2>3, <2>4, <2>5, <3>1, RowUpdates, WriteType
    <2>7. ballots' \in [Cases -> Ballots]
      BY <1>4, <2>1 DEF VoteCommit, VoteReq, Ballots, TypeOK
    <2>8. QED
      BY <1>4, <2>6, <2>7, BecomeType, IdleType DEF VoteCommit, TypeOK
  <1>5. QED
    BY <1>1, <1>2, <1>3, <1>4

\* Assignment keeps the types.
LEMMA AssignType ==
  ASSUME TypeOK, NEW w \in Workers,
         AssignBegin(w) \/ AssignCheck(w) \/ AssignReadContext(w) \/ AssignWrite(w)
  PROVE  TypeOK'
  <1>1. CASE AssignBegin(w)
    BY <1>1, BecomeType DEF AssignBegin, Receive, TypeOK, IsRequest, AssignReq, ContextKeys
  <1>2. CASE AssignCheck(w)
    <2>1. req[w] \in AssignReq
      BY <1>2, RequestOf DEF AssignCheck, At
    <2>2. IsRequest([req[w] EXCEPT !.pc = IF req[w].named THEN "write" ELSE "context"])
      BY <2>1, RequestMoves DEF IsRequest
    <2>3. QED
      BY <1>2, <2>2, BecomeType, IdleType DEF AssignCheck, TypeOK
  <1>3. CASE AssignReadContext(w)
    <2>1. req[w] \in AssignReq
      BY <1>3, RequestOf DEF AssignReadContext, At
    <2>2. hitl[req[w].case].ctx \in SUBSET ContextKeys
      BY <2>1 DEF AssignReq, TypeOK, Row
    <2>3. PICK read \in {hitl[req[w].case].ctx} \cup (IF Faults THEN {{}} ELSE {}) :
            Become(w, [req[w] EXCEPT !.pc = "write",
                                     !.ctx = read \cup {"assigned"}
                                             \cup (IF req[w].dept = NoDept THEN {}
                                                   ELSE {"departments"})])
      BY <1>3 DEF AssignReadContext
    <2> DEFINE x == read \cup {"assigned"}
                    \cup (IF req[w].dept = NoDept THEN {} ELSE {"departments"})
    <2>4. x \in SUBSET ContextKeys
      BY <2>2, <2>3 DEF ContextKeys
    <2>5. IsRequest([req[w] EXCEPT !.pc = "write", !.ctx = x])
      <3> HIDE DEF x
      <3>1. QED
        BY <2>1, <2>4, RequestMoves DEF IsRequest
    <2>6. QED
      BY <1>3, <2>3, <2>5, BecomeType DEF AssignReadContext, TypeOK
  <1>4. CASE AssignWrite(w)
    <2>1. req[w] \in AssignReq
      BY <1>4, RequestOf DEF AssignWrite, At
    <2> DEFINE c == req[w].case
               x == IF req[w].named /\ ~req[w].routed THEN hitl[c].ctx
                    ELSE req[w].ctx \cup (IF req[w].routed THEN {"routing"} ELSE {})
    <2>2. c \in Cases /\ hitl[c] \in Row
      BY <2>1 DEF AssignReq, TypeOK
    <2>3. x \in SUBSET ContextKeys
      BY <2>1, <2>2 DEF AssignReq, Row, ContextKeys
    <2>4. UNCHANGED hitl \/ Write(c, [hitl[c] EXCEPT !.status = "PENDING", !.ctx = x])
      BY <1>4, <2>2 DEF AssignWrite, Row
    <2>5. hitl' \in [Cases -> Row]
      <3> HIDE DEF x
      <3>1. QED
        BY <2>2, <2>3, <2>4, RowUpdates, WriteType DEF TypeOK, Statuses
    <2>6. QED
      BY <1>4, <2>5, BecomeType, IdleType DEF AssignWrite, TypeOK
  <1>5. QED
    BY <1>1, <1>2, <1>3, <1>4

\* Reassignment keeps the types.
LEMMA ReassignType ==
  ASSUME TypeOK, NEW w \in Workers,
         \/ ReassignBegin(w) \/ ReassignCheck(w) \/ ReassignRefuse(w) \/ ReassignWrite(w)
  PROVE  TypeOK'
  <1>1. CASE ReassignBegin(w)
    BY <1>1, BecomeType DEF ReassignBegin, Receive, TypeOK, IsRequest, ReassignReq
  <1>2. CASE ReassignCheck(w)
    <2>1. req[w] \in ReassignReq
      BY <1>2, RequestOf DEF ReassignCheck, At
    <2>2. IsRequest([req[w] EXCEPT !.pc = "checked"])
      BY <2>1, RequestMoves DEF IsRequest
    <2>3. QED
      BY <1>2, <2>2, BecomeType, IdleType DEF ReassignCheck, TypeOK
  <1>3. CASE ReassignRefuse(w)
    BY <1>3, BecomeType, IdleType DEF ReassignRefuse, TypeOK
  <1>4. CASE ReassignWrite(w)
    <2>1. req[w] \in ReassignReq
      BY <1>4, RequestOf DEF ReassignWrite, At
    <2>2. hitl' \in [Cases -> Row]
      BY <1>4, <2>1, RowUpdates, WriteType DEF ReassignWrite, Moved, ReassignReq, TypeOK
    <2>3. QED
      BY <1>4, <2>2, BecomeType, IdleType DEF ReassignWrite, TypeOK
  <1>5. QED
    BY <1>1, <1>2, <1>3, <1>4

\* Bulk resolution keeps the types.
LEMMA BulkType ==
  ASSUME TypeOK, NEW w \in Workers, BulkBegin(w) \/ BulkPatch(w)
  PROVE  TypeOK'
  <1>1. CASE BulkBegin(w)
    BY <1>1, BecomeType DEF BulkBegin, Receive, TypeOK, IsRequest, BulkReq
  <1>2. CASE BulkPatch(w)
    <2>1. req[w] \in BulkReq
      BY <1>2, RequestOf DEF BulkPatch, At
    <2>2. PICK c \in req[w].todo :
            /\ \/ Write(c, [hitl[c] EXCEPT !.status = req[w].verdict])
               \/ UNCHANGED hitl
            /\ Become(w, IF req[w].todo = {c} THEN Idle
                         ELSE [req[w] EXCEPT !.todo = @ \ {c}])
      BY <1>2 DEF BulkPatch
    <2>3. c \in Cases /\ hitl[c] \in Row /\ req[w].verdict \in Statuses
      BY <2>1, <2>2 DEF BulkReq, TypeOK, Verdicts, Statuses
    <2>4. hitl' \in [Cases -> Row]
      BY <2>2, <2>3, RowUpdates, WriteType DEF TypeOK
    <2>5. IsRequest([req[w] EXCEPT !.todo = req[w].todo \ {c}])
      <3>1. req[w].todo \ {c} \in SUBSET Cases
        BY <2>1 DEF BulkReq
      <3>2. QED
        BY <2>1, <3>1, RequestMoves DEF IsRequest
    <2>6. Become(w, Idle) \/ Become(w, [req[w] EXCEPT !.todo = req[w].todo \ {c}])
      BY <2>1, <2>2 DEF BulkReq
    <2>7. QED
      BY <1>2, <2>4, <2>5, <2>6, BecomeType, IdleType DEF BulkPatch, TypeOK
  <1>3. QED
    BY <1>1, <1>2

\* Overflow routing keeps the types.
LEMMA OverflowType ==
  ASSUME TypeOK, NEW w \in Workers,
         OverflowBegin(w) \/ OverflowList(w) \/ OverflowMove(w)
  PROVE  TypeOK'
  <1>1. CASE OverflowBegin(w)
    BY <1>1, BecomeType, LimitsNat DEF OverflowBegin, Receive, TypeOK, IsRequest, OverflowReq
  <1>2. CASE OverflowList(w)
    <2>1. req[w] \in OverflowReq
      BY <1>2, RequestOf DEF OverflowList, At
    <2>2. req[w].dept \in Departments =>
            IsRequest([req[w] EXCEPT !.pc = "move", !.todo = PendingIn(req[w].dept)])
      <3>1. PendingIn(req[w].dept) \in SUBSET Cases
        BY DEF PendingIn
      <3>2. 1 \in 1..MaxMoves
        BY LimitsNat
      <3>3. QED
        BY <2>1, <3>1, <3>2, RequestMoves DEF IsRequest
    <2>3. QED
      BY <1>2, <2>2, BecomeType, IdleType DEF OverflowList, TypeOK
  <1>3. CASE OverflowMove(w)
    <2>1. req[w] \in OverflowReq /\ req[w].pc = "move"
      BY <1>3, RequestOf DEF OverflowMove, At
    <2>2. PICK c \in req[w].todo :
            \/ /\ Moved(c, OverflowDept[req[w].dept])
               /\ Become(w, IF req[w].todo = {c} \/ req[w].left = 1 THEN Idle
                            ELSE [req[w] EXCEPT !.todo = @ \ {c}, !.left = @ - 1])
            \/ /\ UNCHANGED hitl
               /\ Become(w, IF req[w].todo = {c} THEN Idle
                            ELSE [req[w] EXCEPT !.todo = @ \ {c}])
      BY <1>3 DEF OverflowMove
    <2> DEFINE todo == req[w].todo \ {c}
               left == req[w].left - 1
    <2>3. c \in Cases /\ hitl[c] \in Row /\ OverflowDept[req[w].dept] \in DeptNames
      BY <2>1, <2>2, DepartmentsKnown DEF OverflowReq, TypeOK
    <2>4. hitl' \in [Cases -> Row]
      BY <2>2, <2>3, RowUpdates, WriteType DEF Moved, TypeOK
    <2>5. \/ Become(w, Idle)
          \/ Become(w, [req[w] EXCEPT !.todo = todo])
          \/ /\ req[w].left # 1
             /\ Become(w, [req[w] EXCEPT !.todo = todo, !.left = left])
      BY <2>1, <2>2 DEF OverflowReq
    <2>6. todo \in SUBSET Cases /\ req[w].left \in 1..MaxMoves
      BY <2>1 DEF OverflowReq
    <2>7. IsRequest([req[w] EXCEPT !.todo = todo])
      BY <2>1, <2>6, RequestMoves DEF IsRequest
    <2>8. req[w].left # 1 => IsRequest([req[w] EXCEPT !.todo = todo, !.left = left])
      <3>1. SUFFICES ASSUME req[w].left # 1
                     PROVE  IsRequest([req[w] EXCEPT !.todo = todo, !.left = left])
        OBVIOUS
      <3>2. left \in 1..MaxMoves
        BY <2>6, <3>1, LimitsNat
      <3> HIDE DEF todo, left
      <3>3. QED
        BY <2>1, <2>6, <3>2, RequestMoves DEF IsRequest
    <2>9. QED
      BY <1>3, <2>4, <2>5, <2>7, <2>8, BecomeType, IdleType DEF OverflowMove, TypeOK
  <1>4. QED
    BY <1>1, <1>2, <1>3

\* The guard of a department's deletion keeps the types.
LEMMA GuardType ==
  ASSUME TypeOK, NEW w \in Workers,
         GuardBegin(w) \/ GuardList(w) \/ GuardMove(w) \/ GuardAnswer(w)
  PROVE  TypeOK'
  <1>1. CASE GuardBegin(w)
    BY <1>1, BecomeType DEF GuardBegin, Receive, TypeOK, IsRequest, GuardReq
  <1>2. CASE GuardList(w)
    <2> DEFINE open == PendingIn(req[w].dept)
    <2>1. req[w] \in GuardReq
      BY <1>2, RequestOf DEF GuardList, At
    <2>2. IsRequest([req[w] EXCEPT !.pc = "safe"])
      BY <2>1, RequestMoves DEF IsRequest
    <2>3. req[w].to # NoDept => IsRequest([req[w] EXCEPT !.pc = "move", !.todo = open])
      <3>1. open \in SUBSET Cases
        BY DEF PendingIn
      <3>2. req[w].to # NoDept => req[w].to \in DeptNames
        BY <2>1 DEF GuardReq
      <3> HIDE DEF open
      <3>3. QED
        BY <2>1, <3>1, <3>2, RequestMoves DEF IsRequest
    <2>4. QED
      BY <1>2, <2>2, <2>3, BecomeType, IdleType DEF GuardList, TypeOK
  <1>3. CASE GuardMove(w)
    <2>1. req[w] \in GuardReq /\ req[w].pc = "move"
      BY <1>3, RequestOf DEF GuardMove, At
    <2>2. PICK c \in req[w].todo :
            /\ Moved(c, req[w].to) \/ UNCHANGED hitl
            /\ Become(w, IF req[w].todo = {c}
                         THEN [req[w] EXCEPT !.pc = "safe", !.todo = {}]
                         ELSE [req[w] EXCEPT !.todo = @ \ {c}])
      BY <1>3 DEF GuardMove
    <2> DEFINE todo == req[w].todo \ {c}
    <2>3. c \in Cases /\ hitl[c] \in Row /\ req[w].to \in DeptNames
      BY <2>1, <2>2 DEF GuardReq, TypeOK
    <2>4. hitl' \in [Cases -> Row]
      BY <2>2, <2>3, RowUpdates, WriteType DEF Moved, TypeOK
    <2>5. \/ Become(w, [req[w] EXCEPT !.pc = "safe", !.todo = {}])
          \/ Become(w, [req[w] EXCEPT !.todo = todo])
      BY <2>1, <2>2 DEF GuardReq
    <2>6. todo \in SUBSET Cases
      BY <2>1 DEF GuardReq
    <2>7. /\ IsRequest([req[w] EXCEPT !.pc = "safe", !.todo = {}])
          /\ IsRequest([req[w] EXCEPT !.todo = todo])
      <3> HIDE DEF todo
      <3>1. QED
        BY <2>1, <2>6, RequestMoves DEF IsRequest
    <2>8. QED
      BY <1>3, <2>4, <2>5, <2>7, BecomeType DEF GuardMove, TypeOK
  <1>4. CASE GuardAnswer(w)
    BY <1>4, BecomeType, IdleType DEF GuardAnswer, TypeOK
  <1>5. QED
    BY <1>1, <1>2, <1>3, <1>4

\* Every step keeps the types.
LEMMA NextType == TypeOK /\ [Next]_vars => TypeOK'
  <1> SUFFICES ASSUME TypeOK, [Next]_vars
               PROVE  TypeOK'
    OBVIOUS
  <1>1. CASE UNCHANGED vars
    BY <1>1 DEF vars, TypeOK
  <1>2. ASSUME NEW c \in Cases, CreateCase(c) \/ MergeCase(c)
        PROVE  TypeOK'
    BY <1>2, CreateMergeType
  <1>3. ASSUME NEW w \in Workers, Arrive(w)
        PROVE  TypeOK'
    BY <1>3, ArbitrateType, VoteType, AssignType, ReassignType, BulkType, OverflowType,
       GuardType DEF Arrive
  <1>4. ASSUME NEW w \in Workers, Step(w)
        PROVE  TypeOK'
    BY <1>4, ArbitrateType, VoteType, AssignType, ReassignType, BulkType, OverflowType,
       GuardType DEF Step
  <1>5. ASSUME NEW w \in Workers, Abandon(w)
        PROVE  TypeOK'
    BY <1>5, BecomeType, IdleType DEF Abandon, TypeOK
  <1>6. QED
    BY <1>1, <1>2, <1>3, <1>4, <1>5 DEF Next

\* TypeOK is an invariant: no handler, alone or among others, leaves a row, a
\* ballot or a request outside its declared shape, and an overflow never moves
\* more cases than max_cases_to_move.
THEOREM TypeCorrect == Spec => []TypeOK
  BY InitType, NextType, PTL DEF Spec

-----------------------------------------------------------------------------
(* Locks *)

\* A change of the other fields of a request leaves its op.
LEMMA OpStays ==
  ASSUME TypeOK, NEW w \in Workers
  PROVE  \A x, y :
           /\ [req[w] EXCEPT !.pc = x].op = req[w].op
           /\ [req[w] EXCEPT !.todo = x].op = req[w].op
           /\ [req[w] EXCEPT !.pc = x, !.todo = y].op = req[w].op
           /\ [req[w] EXCEPT !.pc = x, !.ctx = y].op = req[w].op
           /\ [req[w] EXCEPT !.todo = x, !.left = y].op = req[w].op
  <1>1. "op" \in DOMAIN req[w]
    BY DEF TypeOK, IsRequest, IdleReq, Idle, ArbitrateReq, VoteReq, AssignReq, ReassignReq,
           BulkReq, OverflowReq, GuardReq
  <1>2. QED
    BY <1>1

\* What the request of w may become without being a lock holder, a ballot in
\* flight or a committed arbitration: the same request, a new one, or none.
Quiet(w, r) == /\ r.op = "vote" => r.pc = "begin"
               /\ r.op = "arbitrate" => r.pc = "begin"
               /\ r.op \in {"none", req[w].op} \cup Endpoints

\* Rows are written only when nobody holds them, and keep their votes.
QuietRows == \A c \in Cases : \/ hitl'[c] = hitl[c]
                              \/ RowFree(c) /\ hitl'[c].votes = hitl[c].votes

\* A step of w that takes no lock and no place in the unique index.
Ordinary(w) == QuietRows /\ UNCHANGED ballots /\ \E r : Become(w, r) /\ Quiet(w, r)

\* A write of a free row that keeps its votes is a quiet one.
LEMMA QuietWrite ==
  ASSUME TypeOK, NEW c \in Cases, NEW row, Write(c, row), RowFree(c),
         row.votes = hitl[c].votes
  PROVE  QuietRows
  BY DEF TypeOK, Write, QuietRows

\* The updates of a row that are not a decision leave its votes.
LEMMA VotesStay ==
  ASSUME NEW r \in Row
  PROVE  \A x, y :
           /\ [r EXCEPT !.status = x].votes = r.votes
           /\ [r EXCEPT !.status = x, !.ctx = y].votes = r.votes
           /\ [r EXCEPT !.dept = x, !.ctx = y].votes = r.votes
  BY DEF Row

\* A request of a handler that takes no lock stays quiet, whatever it does.
LEMMA QuietRequests ==
  ASSUME TypeOK, NEW w \in Workers, req[w].op \notin {"vote", "arbitrate"}
  PROVE  /\ Quiet(w, Idle)
         /\ \A x, y :
              /\ Quiet(w, [req[w] EXCEPT !.pc = x])
              /\ Quiet(w, [req[w] EXCEPT !.todo = x])
              /\ Quiet(w, [req[w] EXCEPT !.pc = x, !.todo = y])
              /\ Quiet(w, [req[w] EXCEPT !.pc = x, !.ctx = y])
              /\ Quiet(w, [req[w] EXCEPT !.todo = x, !.left = y])
  BY OpStays DEF Quiet, Idle

\* A request that ends is quiet.
LEMMA QuietIdle == \A w : Quiet(w, Idle)
  BY DEF Quiet, Idle

\* The actions of the arbitration and voting handlers that take no lock.
LEMMA OrdinaryVerdicts ==
  ASSUME TypeOK, NEW w \in Workers,
         \/ ArbitrateBegin(w) \/ ArbitrateRefuse(w) \/ ArbitrateAudit(w)
         \/ VoteBegin(w) \/ Abandon(w)
  PROVE  Ordinary(w)
  <1>1. UNCHANGED <<hitl, ballots>>
    BY DEF ArbitrateBegin, ArbitrateRefuse, ArbitrateAudit, VoteBegin, Abandon
  <1>2. \E r : Become(w, r) /\ Quiet(w, r)
    <2>1. CASE ArbitrateBegin(w)
      BY <2>1 DEF ArbitrateBegin, Receive, Quiet
    <2>2. CASE VoteBegin(w)
      BY <2>2 DEF VoteBegin, Receive, Quiet
    <2>3. CASE ArbitrateRefuse(w) \/ ArbitrateAudit(w) \/ Abandon(w)
      BY <2>3, QuietIdle DEF ArbitrateRefuse, ArbitrateAudit, Abandon
    <2>4. QED
      BY <2>1, <2>2, <2>3
  <1>3. QED
    BY <1>1, <1>2 DEF Ordinary, QuietRows

\* HandleAssignCase takes no lock that outlives its read.
LEMMA OrdinaryAssign ==
  ASSUME TypeOK, NEW w \in Workers,
         AssignBegin(w) \/ AssignCheck(w) \/ AssignReadContext(w) \/ AssignWrite(w)
  PROVE  Ordinary(w)
  <1>1. CASE AssignBegin(w)
    <2>1. \E r : Become(w, r) /\ Quiet(w, r)
      BY <1>1 DEF AssignBegin, Receive, Quiet
    <2>2. QED
      BY <1>1, <2>1 DEF AssignBegin, Ordinary, QuietRows
  <1>2. CASE AssignCheck(w)
    <2>1. \E r : Become(w, r) /\ Quiet(w, r)
      BY <1>2, QuietRequests DEF AssignCheck, At
    <2>2. QED
      BY <1>2, <2>1 DEF AssignCheck, Ordinary, QuietRows
  <1>3. CASE AssignReadContext(w)
    <2>1. \E r : Become(w, r) /\ Quiet(w, r)
      BY <1>3, QuietRequests DEF AssignReadContext, At
    <2>2. QED
      BY <1>3, <2>1 DEF AssignReadContext, Ordinary, QuietRows
  <1>4. CASE AssignWrite(w)
    <2> DEFINE c == req[w].case
    <2>1. c \in Cases /\ hitl[c] \in Row
      BY <1>4, RequestOf DEF AssignWrite, At, AssignReq, TypeOK
    <2>2. CASE UNCHANGED hitl
      BY <1>4, <2>2, QuietIdle DEF AssignWrite, Ordinary, QuietRows
    <2>3. CASE hitl' # hitl
      <3>1. PICK x : Write(c, [hitl[c] EXCEPT !.status = "PENDING", !.ctx = x])
        BY <1>4, <2>1, <2>3 DEF AssignWrite, Row
      <3>2. QuietRows
        <4>1. RowFree(c)
          BY <1>4 DEF AssignWrite
        <4>2. [hitl[c] EXCEPT !.status = "PENDING", !.ctx = x].votes = hitl[c].votes
          BY <2>1, VotesStay
        <4>3. QED
          BY <2>1, <3>1, <4>1, <4>2, QuietWrite
      <3>3. QED
        BY <1>4, <3>2, QuietIdle DEF AssignWrite, Ordinary
    <2>4. QED
      BY <2>2, <2>3
  <1>5. QED
    BY <1>1, <1>2, <1>3, <1>4

\* Handing a free case over is a quiet write.
LEMMA QuietMove ==
  ASSUME TypeOK, NEW c \in Cases, NEW d, RowFree(c), Moved(c, d)
  PROVE  QuietRows
  <1>1. hitl[c] \in Row
    BY DEF TypeOK
  <1>2. [hitl[c] EXCEPT !.dept = d, !.ctx = {"handover"}].votes = hitl[c].votes
    BY <1>1, VotesStay
  <1>3. QED
    BY <1>2, QuietWrite DEF Moved

\* HandleReassignCase holds no lock between its check and its write.
LEMMA OrdinaryReassign ==
  ASSUME TypeOK, NEW w \in Workers,
         \/ ReassignBegin(w) \/ ReassignCheck(w) \/ ReassignRefuse(w) \/ ReassignWrite(w)
  PROVE  Ordinary(w)
  <1>1. CASE ReassignBegin(w)
    <2>1. \E r : Become(w, r) /\ Quiet(w, r)
      BY <1>1 DEF ReassignBegin, Receive, Quiet
    <2>2. QED
      BY <1>1, <2>1 DEF ReassignBegin, Ordinary, QuietRows
  <1>2. CASE ReassignCheck(w)
    <2>1. \E r : Become(w, r) /\ Quiet(w, r)
      BY <1>2, QuietRequests DEF ReassignCheck, At
    <2>2. QED
      BY <1>2, <2>1 DEF ReassignCheck, Ordinary, QuietRows
  <1>3. CASE ReassignRefuse(w)
    BY <1>3, QuietIdle DEF ReassignRefuse, Ordinary, QuietRows
  <1>4. CASE ReassignWrite(w)
    <2>1. req[w].case \in Cases
      BY <1>4, RequestOf DEF ReassignWrite, At, ReassignReq
    <2>2. QED
      BY <1>4, <2>1, QuietMove, QuietIdle DEF ReassignWrite, Ordinary
  <1>5. QED
    BY <1>1, <1>2, <1>3, <1>4

\* Bulk resolution writes status alone.
LEMMA OrdinaryBulk ==
  ASSUME TypeOK, NEW w \in Workers, BulkBegin(w) \/ BulkPatch(w)
  PROVE  Ordinary(w)
  <1>1. CASE BulkBegin(w)
    <2>1. \E r : Become(w, r) /\ Quiet(w, r)
      BY <1>1 DEF BulkBegin, Receive, Quiet
    <2>2. QED
      BY <1>1, <2>1 DEF BulkBegin, Ordinary, QuietRows
  <1>2. CASE BulkPatch(w)
    <2>1. PICK c \in req[w].todo :
            /\ \/ RowFree(c) /\ Write(c, [hitl[c] EXCEPT !.status = req[w].verdict])
               \/ UNCHANGED hitl
            /\ Become(w, IF req[w].todo = {c} THEN Idle
                         ELSE [req[w] EXCEPT !.todo = req[w].todo \ {c}])
      <3>1. req[w] \in BulkReq
        BY <1>2, RequestOf DEF BulkPatch, At
      <3>2. QED
        BY <1>2, <3>1 DEF BulkPatch, BulkReq
    <2>2. c \in Cases /\ hitl[c] \in Row
      BY <1>2, <2>1, RequestOf DEF BulkPatch, At, BulkReq, TypeOK
    <2>3. QuietRows
      BY <2>1, <2>2, QuietWrite, VotesStay DEF QuietRows
    <2>4. \E r : Become(w, r) /\ Quiet(w, r)
      BY <1>2, <2>1, QuietRequests DEF BulkPatch, At
    <2>5. QED
      BY <1>2, <2>3, <2>4 DEF BulkPatch, Ordinary
  <1>3. QED
    BY <1>1, <1>2

\* Overflow routing writes department and context alone.
LEMMA OrdinaryOverflow ==
  ASSUME TypeOK, NEW w \in Workers,
         OverflowBegin(w) \/ OverflowList(w) \/ OverflowMove(w)
  PROVE  Ordinary(w)
  <1>1. CASE OverflowBegin(w)
    <2>1. \E r : Become(w, r) /\ Quiet(w, r)
      BY <1>1 DEF OverflowBegin, Receive, Quiet
    <2>2. QED
      BY <1>1, <2>1 DEF OverflowBegin, Ordinary, QuietRows
  <1>2. CASE OverflowList(w)
    <2>1. \E r : Become(w, r) /\ Quiet(w, r)
      BY <1>2, QuietRequests DEF OverflowList, At
    <2>2. QED
      BY <1>2, <2>1 DEF OverflowList, Ordinary, QuietRows
  <1>3. CASE OverflowMove(w)
    <2>1. req[w] \in OverflowReq
      BY <1>3, RequestOf DEF OverflowMove, At
    <2>2. PICK c \in req[w].todo :
            \/ /\ RowFree(c) /\ Moved(c, OverflowDept[req[w].dept])
               /\ Become(w, IF req[w].todo = {c} \/ req[w].left = 1 THEN Idle
                            ELSE [req[w] EXCEPT !.todo = req[w].todo \ {c},
                                                !.left = req[w].left - 1])
            \/ /\ UNCHANGED hitl
               /\ Become(w, IF req[w].todo = {c} THEN Idle
                            ELSE [req[w] EXCEPT !.todo = req[w].todo \ {c}])
      BY <1>3, <2>1 DEF OverflowMove, OverflowReq
    <2>3. c \in Cases
      BY <2>1, <2>2 DEF OverflowReq
    <2>4. QuietRows
      BY <2>2, <2>3, QuietMove DEF QuietRows
    <2>5. \E r : Become(w, r) /\ Quiet(w, r)
      BY <1>3, <2>2, QuietRequests DEF OverflowMove, At
    <2>6. QED
      BY <1>3, <2>4, <2>5 DEF OverflowMove, Ordinary
  <1>4. QED
    BY <1>1, <1>2, <1>3

\* So does the migration of the guard of a deletion.
LEMMA OrdinaryGuard ==
  ASSUME TypeOK, NEW w \in Workers,
         GuardBegin(w) \/ GuardList(w) \/ GuardMove(w) \/ GuardAnswer(w)
  PROVE  Ordinary(w)
  <1>1. CASE GuardBegin(w)
    <2>1. \E r : Become(w, r) /\ Quiet(w, r)
      BY <1>1 DEF GuardBegin, Receive, Quiet
    <2>2. QED
      BY <1>1, <2>1 DEF GuardBegin, Ordinary, QuietRows
  <1>2. CASE GuardList(w)
    <2>1. \E r : Become(w, r) /\ Quiet(w, r)
      BY <1>2, QuietRequests DEF GuardList, At
    <2>2. QED
      BY <1>2, <2>1 DEF GuardList, Ordinary, QuietRows
  <1>3. CASE GuardMove(w)
    <2>1. req[w] \in GuardReq
      BY <1>3, RequestOf DEF GuardMove, At
    <2>2. PICK c \in req[w].todo :
            /\ (RowFree(c) /\ Moved(c, req[w].to)) \/ UNCHANGED hitl
            /\ Become(w, IF req[w].todo = {c}
                         THEN [req[w] EXCEPT !.pc = "safe", !.todo = {}]
                         ELSE [req[w] EXCEPT !.todo = req[w].todo \ {c}])
      BY <1>3, <2>1 DEF GuardMove, GuardReq
    <2>3. c \in Cases
      BY <2>1, <2>2 DEF GuardReq
    <2>4. QuietRows
      BY <2>2, <2>3, QuietMove DEF QuietRows
    <2>5. \E r : Become(w, r) /\ Quiet(w, r)
      BY <1>3, <2>2, QuietRequests DEF GuardMove, At
    <2>6. QED
      BY <1>3, <2>4, <2>5 DEF GuardMove, Ordinary
  <1>4. CASE GuardAnswer(w)
    BY <1>4, QuietIdle DEF GuardAnswer, Ordinary, QuietRows
  <1>5. QED
    BY <1>1, <1>2, <1>3, <1>4

\* What a step of the system can be, as far as locks and ballots go.
LEMMA StepKinds ==
  ASSUME TypeOK, [Next]_vars
  PROVE  \/ UNCHANGED vars
         \/ \E c \in Cases : CreateCase(c) \/ MergeCase(c)
         \/ \E w \in Workers : \/ Ordinary(w)
                               \/ ArbitrateLock(w) \/ ArbitrateCommit(w)
                               \/ VoteInsert(w) \/ VoteLock(w) \/ VoteCommit(w)
  <1>1. ASSUME NEW w \in Workers, Arrive(w) \/ Step(w) \/ Abandon(w)
        PROVE  \/ Ordinary(w)
               \/ ArbitrateLock(w) \/ ArbitrateCommit(w)
               \/ VoteInsert(w) \/ VoteLock(w) \/ VoteCommit(w)
    <2>1. CASE Arrive(w)
      BY <2>1, OrdinaryVerdicts, OrdinaryAssign, OrdinaryReassign, OrdinaryBulk,
         OrdinaryOverflow, OrdinaryGuard DEF Arrive
    <2>2. CASE Step(w)
      BY <2>2, OrdinaryVerdicts, OrdinaryAssign, OrdinaryReassign, OrdinaryBulk,
         OrdinaryOverflow, OrdinaryGuard DEF Step
    <2>3. CASE Abandon(w)
      BY <2>3, OrdinaryVerdicts
    <2>4. QED
      BY <1>1, <2>1, <2>2, <2>3
  <1>2. QED
    BY <1>1 DEF Next

\* The inductive invariant.  LockDiscipline alone is inductive with the types;
\* the ballots ride on it, since VoteCommit writes what the lock holder read.
LockInv == TypeOK /\ LockDiscipline /\ CountedBallotsWereCast

\* In a step of w the other requests stay, and w's becomes r.
LEMMA OthersStay ==
  ASSUME TypeOK, NEW w \in Workers, NEW r, Become(w, r)
  PROVE  /\ req'[w] = r
         /\ \A v \in Workers : v # w => req'[v] = req[v]
  BY DEF TypeOK, Become

\* A row gets a holder only while it has none.
LEMMA HolderKept ==
  ASSUME OneHolderPerRow, NEW w \in Workers,
         \A v \in Workers : v # w => req'[v] = req[v],
         \A c \in Cases : HoldsRow(w, c)' => HoldsRow(w, c) \/ RowFree(c)
  PROVE  OneHolderPerRow'
  <1>1. SUFFICES ASSUME NEW u \in Workers, NEW v \in Workers, NEW c \in Cases,
                        HoldsRow(u, c)', HoldsRow(v, c)'
                 PROVE  u = v
    BY DEF OneHolderPerRow
  <1>2. \A x \in Workers : x # w => (HoldsRow(x, c)' <=> HoldsRow(x, c))
    BY DEF HoldsRow
  <1>3. QED
    BY <1>1, <1>2 DEF OneHolderPerRow, RowFree

\* A step that puts no ballot in flight and commits none.
LEMMA BallotsKept ==
  ASSUME OneBallotInFlight, NEW w \in Workers, UNCHANGED ballots,
         \A v \in Workers : v # w => req'[v] = req[v],
         ~BallotPending(w)'
  PROVE  OneBallotInFlight'
  BY DEF OneBallotInFlight, BallotPending

\* Where rows stay, it is enough that the request which moves holds what it
\* reads.
LEMMA HoldersRead ==
  ASSUME HolderReadsRow, NEW w \in Workers, UNCHANGED hitl,
         \A v \in Workers : v # w => req'[v] = req[v],
         At(w, "arbitrate", "locked")' => /\ Exists(req'[w].case)
                                          /\ req'[w].seen = hitl[req'[w].case].status,
         At(w, "vote", "locked")' => /\ Exists(req'[w].case)
                                     /\ req'[w].seen = hitl[req'[w].case]
  PROVE  HolderReadsRow'
  <1>1. SUFFICES ASSUME NEW v \in Workers
                 PROVE  /\ At(v, "arbitrate", "locked")' => /\ Exists(req[v].case)'
                                                            /\ req'[v].seen = hitl'[req'[v].case].status
                        /\ At(v, "vote", "locked")' => /\ Exists(req[v].case)'
                                                       /\ req'[v].seen = hitl'[req'[v].case]
    BY DEF HolderReadsRow
  <1>2. CASE v = w
    BY <1>2 DEF Exists
  <1>3. CASE v # w
    <2>1. req'[v] = req[v]
      BY <1>3
    <2>2. QED
      BY <2>1 DEF HolderReadsRow, At, Exists
  <1>4. QED
    BY <1>2, <1>3

\* Nothing is locked and nothing is counted at the start.
LEMMA LockInit == Init => LockDiscipline /\ CountedBallotsWereCast
  BY DEF Init, LockDiscipline, OneHolderPerRow, HolderReadsRow, OneBallotInFlight,
         CountedBallotsWereCast, HoldsRow, At, BallotPending, Idle, NoRow, EmptyPanel

\* A step that takes no lock disturbs none.
LEMMA LockOrdinary ==
  ASSUME LockInv, NEW w \in Workers, Ordinary(w)
  PROVE  LockDiscipline' /\ CountedBallotsWereCast'
  <1> USE DEF LockInv
  <1>1. PICK r : Become(w, r) /\ Quiet(w, r)
    BY DEF Ordinary
  <1>2. /\ req'[w] = r
        /\ \A v \in Workers : v # w => req'[v] = req[v]
    BY <1>1, OthersStay
  <1>3. \A c \in Cases : ~HoldsRow(w, c)'
    BY <1>1, <1>2 DEF HoldsRow, Quiet
  <1>4. ~BallotPending(w)'
    BY <1>1, <1>2 DEF BallotPending, Quiet
  <1>5. OneHolderPerRow'
    BY <1>2, <1>3, HolderKept DEF LockDiscipline
  <1>6. HolderReadsRow'
    <2>1. ASSUME NEW v \in Workers, At(v, "arbitrate", "locked")' \/ At(v, "vote", "locked")'
          PROVE  /\ v # w /\ req'[v] = req[v]
                 /\ hitl'[req[v].case] = hitl[req[v].case]
      <3>1. v # w
        BY <1>1, <1>2, <2>1 DEF At, Quiet
      <3>2. req'[v] = req[v]
        BY <1>2, <3>1
      <3>3. req[v].case \in Cases
        BY <2>1, <3>2, RequestOf DEF At, ArbitrateReq, VoteReq
      <3>4. HoldsRow(v, req[v].case)
        BY <2>1, <3>2 DEF At, HoldsRow
      <3>5. QED
        BY <3>1, <3>2, <3>3, <3>4 DEF Ordinary, QuietRows, RowFree
    <2>2. QED
      BY <2>1 DEF LockDiscipline, HolderReadsRow, At, Exists
  <1>7. OneBallotInFlight'
    BY <1>2, <1>4, BallotsKept DEF LockDiscipline, Ordinary
  <1>8. CountedBallotsWereCast'
    BY DEF CountedBallotsWereCast, Ordinary, QuietRows
  <1>9. QED
    BY <1>5, <1>6, <1>7, <1>8 DEF LockDiscipline

\* Creation writes an absent row, merging a free one.
LEMMA LockCreateMerge ==
  ASSUME LockInv, NEW c \in Cases, CreateCase(c) \/ MergeCase(c)
  PROVE  LockDiscipline' /\ CountedBallotsWereCast'
  <1> USE DEF LockInv
  <1>1. UNCHANGED <<req, ballots>>
    BY DEF CreateCase, MergeCase
  <1>2. ASSUME NEW x \in Cases
        PROVE  \/ hitl'[x] = hitl[x]
               \/ /\ x = c /\ (~Exists(x) \/ RowFree(x))
                  /\ hitl'[x].votes \in {hitl[x].votes, EmptyPanel}
    <2>1. hitl[c] \in Row /\ DOMAIN hitl = Cases
      BY DEF TypeOK
    <2>2. CASE CreateCase(c)
      BY <2>1, <2>2 DEF CreateCase, Write
    <2>3. CASE MergeCase(c)
      BY <2>1, <2>3, VotesStay DEF MergeCase, Write
    <2>4. QED
      BY <2>2, <2>3
  <1>3. OneHolderPerRow' /\ OneBallotInFlight'
    BY <1>1 DEF LockDiscipline, OneHolderPerRow, OneBallotInFlight, HoldsRow, BallotPending
  <1>4. HolderReadsRow'
    <2>1. ASSUME NEW v \in Workers, At(v, "arbitrate", "locked") \/ At(v, "vote", "locked")
          PROVE  hitl'[req[v].case] = hitl[req[v].case]
      <3>1. req[v].case \in Cases /\ HoldsRow(v, req[v].case)
        BY <2>1, RequestOf DEF At, ArbitrateReq, VoteReq, HoldsRow
      <3>2. Exists(req[v].case)
        BY <2>1 DEF LockDiscipline, HolderReadsRow
      <3>3. QED
        BY <1>2, <3>1, <3>2 DEF RowFree
    <2>2. QED
      BY <1>1, <2>1 DEF LockDiscipline, HolderReadsRow, At, Exists
  <1>5. CountedBallotsWereCast'
    BY <1>1, <1>2 DEF CountedBallotsWereCast, EmptyPanel
  <1>6. QED
    BY <1>3, <1>4, <1>5 DEF LockDiscipline

\* Arbitration takes a free row, and gives it back when it commits.
LEMMA LockArbitrate ==
  ASSUME LockInv, NEW w \in Workers, ArbitrateLock(w) \/ ArbitrateCommit(w)
  PROVE  LockDiscipline' /\ CountedBallotsWereCast'
  <1> USE DEF LockInv
  <1> DEFINE c == req[w].case
  <1>1. req[w] \in ArbitrateReq /\ c \in Cases /\ hitl[c] \in Row
    BY RequestOf DEF ArbitrateLock, ArbitrateCommit, At, ArbitrateReq, TypeOK
  <1>2. CASE ArbitrateLock(w)
    <2>1. CASE ~Exists(c)
      BY <1>2, <2>1, QuietIdle, LockOrdinary DEF ArbitrateLock, Ordinary, QuietRows
    <2>2. CASE Exists(c)
      <3>1. /\ req'[w] = [req[w] EXCEPT !.pc = "locked", !.seen = hitl[c].status]
            /\ \A v \in Workers : v # w => req'[v] = req[v]
        BY <1>2, <2>2, OthersStay DEF ArbitrateLock
      <3>2. /\ req'[w].op = "arbitrate" /\ req'[w].pc = "locked"
            /\ req'[w].case = c /\ req'[w].seen = hitl[c].status
        BY <1>1, <3>1 DEF ArbitrateReq
      <3>3. RowFree(c) /\ UNCHANGED <<hitl, ballots>>
        BY <1>2 DEF ArbitrateLock
      <3>4. OneHolderPerRow'
        <4>1. \A x \in Cases : HoldsRow(w, x)' => RowFree(x)
          BY <3>2, <3>3 DEF HoldsRow
        <4>2. QED
          BY <3>1, <4>1, HolderKept DEF LockDiscipline
      <3>5. HolderReadsRow'
        <4>1. /\ ~At(w, "vote", "locked")'
              /\ Exists(req'[w].case) /\ req'[w].seen = hitl[req'[w].case].status
          BY <2>2, <3>2 DEF At
        <4>2. QED
          BY <3>1, <3>3, <4>1, HoldersRead DEF LockDiscipline
      <3>6. OneBallotInFlight'
        <4>1. ~BallotPending(w)'
          BY <3>2 DEF BallotPending
        <4>2. QED
          BY <3>1, <3>3, <4>1, BallotsKept DEF LockDiscipline
      <3>7. CountedBallotsWereCast'
        BY <3>3 DEF CountedBallotsWereCast
      <3>8. QED
        BY <3>4, <3>5, <3>6, <3>7 DEF LockDiscipline
    <2>3. QED
      BY <2>1, <2>2
  <1>3. CASE ArbitrateCommit(w)
    <2>1. /\ req'[w] = [req[w] EXCEPT !.pc = "audit"]
          /\ \A v \in Workers : v # w => req'[v] = req[v]
      BY <1>3, OthersStay DEF ArbitrateCommit
    <2>2. req'[w].op = "arbitrate" /\ req'[w].pc = "audit"
      BY <1>1, <2>1 DEF ArbitrateReq
    <2>3. HoldsRow(w, c) /\ UNCHANGED ballots
      BY <1>3 DEF ArbitrateCommit, HoldsRow, At
    <2>4. \A x \in Cases : IF x = c THEN hitl'[x].votes = EmptyPanel ELSE hitl'[x] = hitl[x]
      BY <1>1, <1>3 DEF ArbitrateCommit, Write, TypeOK, Row
    <2>5. OneHolderPerRow'
      <3>1. \A x \in Cases : ~HoldsRow(w, x)'
        BY <2>2 DEF HoldsRow
      <3>2. QED
        BY <2>1, <3>1, HolderKept DEF LockDiscipline
    <2>6. HolderReadsRow'
      <3>1. ASSUME NEW v \in Workers,
                   At(v, "arbitrate", "locked")' \/ At(v, "vote", "locked")'
            PROVE  req'[v] = req[v] /\ hitl'[req[v].case] = hitl[req[v].case]
        <4>1. v # w /\ req'[v] = req[v]
          BY <2>1, <2>2, <3>1 DEF At
        <4>2. req[v].case \in Cases /\ HoldsRow(v, req[v].case)
          BY <3>1, <4>1, RequestOf DEF At, ArbitrateReq, VoteReq, HoldsRow
        <4>3. req[v].case # c
          BY <1>1, <2>3, <4>1, <4>2 DEF LockDiscipline, OneHolderPerRow
        <4>4. QED
          BY <2>4, <4>1, <4>2, <4>3
      <3>2. QED
        BY <3>1 DEF LockDiscipline, HolderReadsRow, At, Exists
    <2>7. OneBallotInFlight'
      <3>1. ~BallotPending(w)'
        BY <2>2 DEF BallotPending
      <3>2. QED
        BY <2>1, <2>3, <3>1, BallotsKept DEF LockDiscipline
    <2>8. CountedBallotsWereCast'
      BY <2>3, <2>4 DEF CountedBallotsWereCast, EmptyPanel
    <2>9. QED
      BY <2>5, <2>6, <2>7, <2>8 DEF LockDiscipline
  <1>4. QED
    BY <1>2, <1>3

\* A vote takes its place in the unique index, then a free row.
LEMMA LockVoteInsert ==
  ASSUME LockInv, NEW w \in Workers, VoteInsert(w)
  PROVE  LockDiscipline' /\ CountedBallotsWereCast'
  <1> USE DEF LockInv
  <1>1. req[w] \in VoteReq /\ req[w].pc = "begin" /\ UNCHANGED <<hitl, ballots>>
    BY RequestOf DEF VoteInsert, At
  <1>2. CASE ballots[req[w].case][req[w].voter] # NoBallot
    BY <1>1, <1>2, QuietIdle, LockOrdinary DEF VoteInsert, Ordinary, QuietRows
  <1>3. CASE ballots[req[w].case][req[w].voter] = NoBallot
    <2>1. ballots[req[w].case][req[w].voter] = NoBallot
      BY <1>3
    <2>2. /\ req'[w] = [req[w] EXCEPT !.pc = "inserted"]
          /\ \A v \in Workers : v # w => req'[v] = req[v]
      BY <1>3, OthersStay DEF VoteInsert
    <2>3. /\ req'[w].op = "vote" /\ req'[w].pc = "inserted"
          /\ req'[w].case = req[w].case /\ req'[w].voter = req[w].voter
      BY <1>1, <2>2 DEF VoteReq
    <2>4. OneHolderPerRow'
      <3>1. \A x \in Cases : ~HoldsRow(w, x)'
        BY <2>3 DEF HoldsRow
      <3>2. QED
        BY <2>2, <3>1, HolderKept DEF LockDiscipline
    <2>5. HolderReadsRow'
      <3>1. ~At(w, "arbitrate", "locked")' /\ ~At(w, "vote", "locked")'
        BY <2>3 DEF At
      <3>2. QED
        BY <1>1, <2>2, <3>1, HoldersRead DEF LockDiscipline
    <2>6. OneBallotInFlight'
      <3>1. ~BallotInFlight(req[w].case, req[w].voter)
        BY DEF VoteInsert
      <3>2. SUFFICES ASSUME NEW u \in Workers, BallotPending(u)'
                     PROVE  /\ ballots[req'[u].case][req'[u].voter] = NoBallot
                            /\ \A v \in Workers :
                                 BallotPending(v)' /\ req'[v].case = req'[u].case
                                   /\ req'[v].voter = req'[u].voter => v = u
        BY <1>1 DEF OneBallotInFlight, BallotPending
      <3>3. \A v \in Workers : v # w => (BallotPending(v)' <=> BallotPending(v))
        BY <2>2 DEF BallotPending
      <3>4. CASE u = w
        <4>1. ASSUME NEW v \in Workers, v # w, BallotPending(v)',
                     req'[v].case = req'[w].case, req'[v].voter = req'[w].voter
              PROVE  FALSE
          <5>1. BallotPending(v) /\ req[v].case = req[w].case /\ req[v].voter = req[w].voter
            BY <2>2, <2>3, <3>3, <4>1
          <5>2. QED
            BY <3>1, <5>1 DEF BallotInFlight
        <4>2. QED
          BY <1>1, <2>1, <2>3, <3>4, <4>1
      <3>5. CASE u # w
        <4>1. BallotPending(u) /\ req'[u] = req[u]
          BY <2>2, <3>2, <3>3, <3>5
        <4>2. ~(req[u].case = req[w].case /\ req[u].voter = req[w].voter)
          BY <3>1, <4>1 DEF BallotInFlight
        <4>3. ASSUME NEW v \in Workers, BallotPending(v)',
                     req'[v].case = req[u].case, req'[v].voter = req[u].voter
              PROVE  v = u
          <5>1. v # w
            BY <2>3, <4>2, <4>3
          <5>2. BallotPending(v) /\ req'[v] = req[v]
            BY <2>2, <3>3, <4>3, <5>1
          <5>3. QED
            BY <4>1, <4>3, <5>2 DEF LockDiscipline, OneBallotInFlight
        <4>4. ballots[req[u].case][req[u].voter] = NoBallot
          BY <4>1 DEF LockDiscipline, OneBallotInFlight
        <4>5. QED
          BY <4>1, <4>3, <4>4
      <3>6. QED
        BY <3>4, <3>5
    <2>7. CountedBallotsWereCast'
      BY <1>1 DEF CountedBallotsWereCast
    <2>8. QED
      BY <2>4, <2>5, <2>6, <2>7 DEF LockDiscipline
  <1>4. QED
    BY <1>2, <1>3

\* A vote locks a row that nobody holds.
LEMMA LockVoteLock ==
  ASSUME LockInv, NEW w \in Workers, VoteLock(w)
  PROVE  LockDiscipline' /\ CountedBallotsWereCast'
  <1> USE DEF LockInv
  <1> DEFINE c == req[w].case
  <1>1. /\ req[w] \in VoteReq /\ req[w].pc = "inserted" /\ c \in Cases
        /\ RowFree(c) /\ UNCHANGED <<hitl, ballots>>
    BY RequestOf DEF VoteLock, At, VoteReq
  <1>2. CASE ~Exists(c)
    BY <1>1, <1>2, QuietIdle, LockOrdinary DEF VoteLock, Ordinary, QuietRows
  <1>3. CASE Exists(c)
    <2>1. /\ req'[w] = [req[w] EXCEPT !.pc = "locked", !.seen = hitl[c]]
          /\ \A v \in Workers : v # w => req'[v] = req[v]
      BY <1>3, OthersStay DEF VoteLock
    <2>2. /\ req'[w].op = "vote" /\ req'[w].pc = "locked" /\ req'[w].case = c
          /\ req'[w].voter = req[w].voter /\ req'[w].seen = hitl[c]
      BY <1>1, <2>1 DEF VoteReq
    <2>3. OneHolderPerRow'
      <3>1. \A x \in Cases : HoldsRow(w, x)' => RowFree(x)
        BY <1>1, <2>2 DEF HoldsRow
      <3>2. QED
        BY <2>1, <3>1, HolderKept DEF LockDiscipline
    <2>4. HolderReadsRow'
      <3>1. /\ ~At(w, "arbitrate", "locked")'
            /\ Exists(req'[w].case) /\ req'[w].seen = hitl[req'[w].case]
        BY <1>3, <2>2 DEF At
      <3>2. QED
        BY <1>1, <2>1, <3>1, HoldersRead DEF LockDiscipline
    <2>5. OneBallotInFlight'
      <3>1. BallotPending(w)
        BY <1>1 DEF BallotPending, VoteReq
      <3>2. \A v \in Workers : /\ BallotPending(v)' <=> BallotPending(v)
                               /\ BallotPending(v) => /\ req'[v].case = req[v].case
                                                      /\ req'[v].voter = req[v].voter
        BY <2>1, <2>2, <3>1 DEF BallotPending
      <3>3. QED
        BY <1>1, <3>2 DEF LockDiscipline, OneBallotInFlight
    <2>6. CountedBallotsWereCast'
      BY <1>1 DEF CountedBallotsWereCast
    <2>7. QED
      BY <2>3, <2>4, <2>5, <2>6 DEF LockDiscipline
  <1>4. QED
    BY <1>2, <1>3

\* What a vote commits was read under the lock it still holds.
LEMMA LockVoteCommit ==
  ASSUME LockInv, NEW w \in Workers, VoteCommit(w)
  PROVE  LockDiscipline' /\ CountedBallotsWereCast'
  <1> USE DEF LockInv
  <1> DEFINE c == req[w].case
             voter == req[w].voter
             votes == [req[w].seen.votes EXCEPT ![voter] = req[w].decision]
  <1>1. /\ req[w] \in VoteReq /\ c \in Cases /\ voter \in Voters
        /\ hitl[c] \in Row /\ ballots[c] \in Ballots
    BY RequestOf DEF VoteCommit, At, VoteReq, TypeOK
  <1>2. HoldsRow(w, c) /\ BallotPending(w)
    BY DEF VoteCommit, At, HoldsRow, BallotPending
  <1>3. /\ req'[w] = Idle
        /\ \A v \in Workers : v # w => req'[v] = req[v]
    BY IdleType, OthersStay DEF VoteCommit
  <1>4. req[w].seen = hitl[c]
    BY DEF VoteCommit, LockDiscipline, HolderReadsRow
  <1>5. \A x \in Cases : IF x = c THEN hitl'[x].votes = votes ELSE hitl'[x] = hitl[x]
    <2> HIDE DEF votes
    <2>1. \E s, q : Write(c, [hitl[c] EXCEPT !.status = s, !.votes = votes, !.quorum = q])
      BY DEF VoteCommit, votes
    <2>2. QED
      BY <1>1, <2>1 DEF Write, TypeOK, Row
  <1>6. /\ ballots'[c] = [ballots[c] EXCEPT ![voter] = req[w].decision]
        /\ \A x \in Cases : x # c => ballots'[x] = ballots[x]
    BY <1>1 DEF VoteCommit, TypeOK
  <1>7. OneHolderPerRow'
    <2>1. \A x \in Cases : ~HoldsRow(w, x)'
      BY <1>3 DEF HoldsRow, Idle
    <2>2. QED
      BY <1>3, <2>1, HolderKept DEF LockDiscipline
  <1>8. HolderReadsRow'
    <2>1. ASSUME NEW v \in Workers, At(v, "arbitrate", "locked")' \/ At(v, "vote", "locked")'
          PROVE  req'[v] = req[v] /\ hitl'[req[v].case] = hitl[req[v].case]
      <3>1. v # w /\ req'[v] = req[v]
        BY <1>3, <2>1 DEF At, Idle
      <3>2. req[v].case \in Cases /\ HoldsRow(v, req[v].case)
        BY <2>1, <3>1, RequestOf DEF At, ArbitrateReq, VoteReq, HoldsRow
      <3>3. req[v].case # c
        BY <1>1, <1>2, <3>1, <3>2 DEF LockDiscipline, OneHolderPerRow
      <3>4. QED
        BY <1>5, <3>1, <3>2, <3>3
    <2>2. QED
      BY <2>1 DEF LockDiscipline, HolderReadsRow, At, Exists
  <1>9. OneBallotInFlight'
    <2>1. ~BallotPending(w)'
      BY <1>3 DEF BallotPending, Idle
    <2>2. ASSUME NEW v \in Workers, BallotPending(v)'
          PROVE  /\ v # w /\ req'[v] = req[v] /\ BallotPending(v)
                 /\ ballots'[req[v].case][req[v].voter] = ballots[req[v].case][req[v].voter]
      <3>1. v # w /\ req'[v] = req[v] /\ BallotPending(v)
        BY <1>3, <2>1, <2>2 DEF BallotPending
      <3>2. req[v].case \in Cases /\ req[v].voter \in Voters
        BY <3>1, RequestOf DEF BallotPending, VoteReq
      <3>3. ~(req[v].case = c /\ req[v].voter = voter)
        BY <1>2, <3>1 DEF LockDiscipline, OneBallotInFlight
      <3>4. QED
        BY <1>1, <1>6, <3>1, <3>2, <3>3 DEF Ballots
    <2>3. QED
      BY <2>2 DEF LockDiscipline, OneBallotInFlight
  <1>10. CountedBallotsWereCast'
    <2>1. SUFFICES ASSUME NEW x \in Cases, NEW v \in Voters, hitl'[x].votes[v] # NoBallot
                   PROVE  hitl'[x].votes[v] = ballots'[x][v]
      BY DEF CountedBallotsWereCast
    <2>2. CASE x = c
      <3>1. hitl'[c].votes[v] = IF v = voter THEN req[w].decision ELSE hitl[c].votes[v]
        BY <1>1, <1>4, <1>5 DEF Row, Ballots
      <3>2. ballots'[c][v] = IF v = voter THEN req[w].decision ELSE ballots[c][v]
        BY <1>1, <1>6 DEF Ballots
      <3>3. QED
        BY <2>1, <2>2, <3>1, <3>2 DEF CountedBallotsWereCast
    <2>3. CASE x # c
      BY <1>5, <1>6, <2>1, <2>3 DEF CountedBallotsWereCast
    <2>4. QED
      BY <2>2, <2>3
  <1>11. QED
    BY <1>7, <1>8, <1>9, <1>10 DEF LockDiscipline

\* Every step keeps it.
LEMMA LockStep ==
  ASSUME LockInv, [Next]_vars
  PROVE  LockInv'
  <1>1. CASE UNCHANGED vars
    BY <1>1, NextType DEF vars, LockInv, LockDiscipline, OneHolderPerRow, HolderReadsRow,
       OneBallotInFlight, CountedBallotsWereCast, HoldsRow, At, BallotPending, Exists
  <1>2. CASE ~UNCHANGED vars
    BY <1>2, NextType, StepKinds, LockOrdinary, LockCreateMerge, LockArbitrate,
       LockVoteInsert, LockVoteLock, LockVoteCommit DEF LockInv
  <1>3. QED
    BY <1>1, <1>2

\* It is an invariant of the specification.
LEMMA LockInvariant == Spec => []LockInv
  <1>1. Init => LockInv
    BY InitType, LockInit DEF LockInv
  <1>2. LockInv /\ [Next]_vars => LockInv'
    BY LockStep
  <1>3. QED
    BY <1>1, <1>2, PTL DEF Spec

\* Row locks and the unique index do their work under any traffic: one holder
\* per row, whose reading is what the row says, and one ballot per reviewer.
THEOREM LocksHold == Spec => []LockDiscipline
  BY LockInvariant, PTL DEF LockInv

\* Whatever arbitration, assignment or merging does to a case meanwhile, what its
\* decision_data counts was cast, and is in core_hitl_votes.
THEOREM CountedWereCast == Spec => []CountedBallotsWereCast
  BY LockInvariant, PTL DEF LockInv

-----------------------------------------------------------------------------
(* Decisions *)

\* A step that takes a lock or a place in the unique index goes on with its own
\* request, and the commit of an arbitration alone leads to an audit.
LEMMA HolderMoves ==
  ASSUME TypeOK, NEW w \in Workers,
         \/ ArbitrateLock(w) \/ ArbitrateCommit(w)
         \/ VoteInsert(w) \/ VoteLock(w) \/ VoteCommit(w)
  PROVE  \E r : /\ Become(w, r)
                /\ r.op \in {"none", req[w].op}
                /\ r.op = "arbitrate" /\ r.pc = "audit" => ArbitrateCommit(w)
  <1>1. CASE Become(w, Idle)
    BY <1>1 DEF Idle
  <1>2. CASE (ArbitrateLock(w) \/ ArbitrateCommit(w)) /\ ~Become(w, Idle)
    <2>1. req[w] \in ArbitrateReq
      BY <1>2, RequestOf DEF ArbitrateLock, ArbitrateCommit, At
    <2>2. \A x : /\ [req[w] EXCEPT !.pc = "locked", !.seen = x].op = req[w].op
                 /\ [req[w] EXCEPT !.pc = "locked", !.seen = x].pc = "locked"
                 /\ [req[w] EXCEPT !.pc = "audit"].op = req[w].op
      BY <2>1 DEF ArbitrateReq
    <2>3. CASE ArbitrateLock(w)
      <3>1. PICK x : Become(w, [req[w] EXCEPT !.pc = "locked", !.seen = x])
        BY <1>2, <2>3 DEF ArbitrateLock
      <3>2. QED
        BY <2>2, <3>1
    <2>4. CASE ArbitrateCommit(w)
      <3>1. Become(w, [req[w] EXCEPT !.pc = "audit"])
        BY <2>4 DEF ArbitrateCommit
      <3>2. QED
        BY <2>2, <2>4, <3>1
    <2>5. QED
      BY <1>2, <2>3, <2>4
  <1>3. CASE (VoteInsert(w) \/ VoteLock(w) \/ VoteCommit(w)) /\ ~Become(w, Idle)
    <2>1. req[w] \in VoteReq /\ req[w].op = "vote"
      BY <1>3, RequestOf DEF VoteInsert, VoteLock, VoteCommit, At
    <2>2. \A x : /\ [req[w] EXCEPT !.pc = "locked", !.seen = x].op = "vote"
                 /\ [req[w] EXCEPT !.pc = "inserted"].op = "vote"
      BY <2>1 DEF VoteReq
    <2>3. CASE VoteInsert(w)
      <3>1. Become(w, [req[w] EXCEPT !.pc = "inserted"])
        BY <1>3, <2>3 DEF VoteInsert
      <3>2. QED
        BY <2>1, <2>2, <3>1
    <2>4. CASE VoteLock(w)
      <3>1. PICK x : Become(w, [req[w] EXCEPT !.pc = "locked", !.seen = x])
        BY <1>3, <2>4 DEF VoteLock
      <3>2. QED
        BY <2>1, <2>2, <3>1
    <2>5. CASE VoteCommit(w)
      BY <1>3, <2>5 DEF VoteCommit
    <2>6. QED
      BY <1>3, <2>3, <2>4, <2>5
  <1>4. QED
    BY <1>1, <1>2, <1>3

\* The only step that takes a request to the audit.
LEMMA OnlyCommitAudits ==
  ASSUME TypeOK, [Next]_vars, NEW w \in Workers,
         At(w, "arbitrate", "audit")', ~At(w, "arbitrate", "audit")
  PROVE  ArbitrateCommit(w)
  <1>1. ~UNCHANGED vars
    BY DEF vars, At
  <1>2. ~\E c \in Cases : CreateCase(c) \/ MergeCase(c)
    BY DEF CreateCase, MergeCase, At
  <1>3. PICK v \in Workers : \/ Ordinary(v)
                             \/ ArbitrateLock(v) \/ ArbitrateCommit(v)
                             \/ VoteInsert(v) \/ VoteLock(v) \/ VoteCommit(v)
    BY <1>1, <1>2, StepKinds
  <1>4. PICK r : /\ Become(v, r)
                 /\ r.op = "arbitrate" => \/ r.pc = "begin"
                                          \/ r.pc = "audit" => ArbitrateCommit(v)
    BY <1>3, HolderMoves DEF Ordinary, Quiet
  <1>5. v = w /\ req'[w] = r
    BY <1>4, OthersStay DEF At
  <1>6. QED
    BY <1>4, <1>5 DEF At

\* An arbitration commits over an open case only.
LEMMA CommitOverOpen ==
  ASSUME LockInv, NEW w \in Workers, ArbitrateCommit(w)
  PROVE  hitl[req[w].case].status \notin ClosedForArbitration
  BY DEF LockInv, LockDiscipline, HolderReadsRow, ArbitrateCommit

\* HandleResolveCase never writes a verdict over a closed case, whatever the
\* other routes do between its read and its write.
THEOREM ArbitrationSound == Spec => ArbitrationRespectsDecision
  <1>1. LockInv /\ [Next]_vars =>
          [\A w \in Workers :
             At(w, "arbitrate", "locked") /\ At(w, "arbitrate", "audit")'
               => hitl[req[w].case].status \notin ClosedForArbitration]_vars
    BY OnlyCommitAudits, CommitOverOpen DEF LockInv, At
  <1>2. QED
    BY <1>1, LockInvariant, PTL DEF Spec, ArbitrationRespectsDecision

\* A committed ballot is never replaced, however many requests of the same
\* reviewer are in flight.
THEOREM BallotsAreFinal == Spec => BallotIsFinal
  <1>1. LockInv /\ [Next]_vars =>
          [\A c \in Cases, v \in Voters :
             ballots[c][v] # NoBallot => ballots'[c][v] = ballots[c][v]]_vars
    <2>1. SUFFICES ASSUME LockInv, [Next]_vars, NEW c \in Cases, NEW v \in Voters,
                          ballots[c][v] # NoBallot
                   PROVE  ballots'[c][v] = ballots[c][v]
      OBVIOUS
    <2>2. CASE UNCHANGED ballots
      BY <2>2
    <2>3. CASE ~UNCHANGED ballots
      <3>1. PICK w \in Workers : VoteCommit(w)
        BY <2>1, <2>3, StepKinds
           DEF LockInv, vars, CreateCase, MergeCase, Ordinary, ArbitrateLock, ArbitrateCommit,
               VoteInsert, VoteLock
      <3>2. req[w] \in VoteReq
        BY <2>1, <3>1, RequestOf DEF LockInv, VoteCommit, At
      <3>3. ballots[req[w].case][req[w].voter] = NoBallot
        BY <2>1, <3>1 DEF LockInv, LockDiscipline, OneBallotInFlight, BallotPending,
                         VoteCommit, At
      <3>4. QED
        BY <2>1, <3>1, <3>2, <3>3 DEF LockInv, TypeOK, VoteCommit, VoteReq, Ballots
    <2>4. QED
      BY <2>2, <2>3
  <1>2. QED
    BY <1>1, LockInvariant, PTL DEF Spec, BallotIsFinal

\* Every request came in on a route that is open.
OpsRouted == \A w \in Workers : req[w].op \in {"none"} \cup Endpoints

\* An arbitration that has committed and not been audited is what the row says.
AuditPending ==
  \A w \in Workers :
    At(w, "arbitrate", "audit") => hitl[req[w].case].status = req[w].verdict

\* The invariant of a system whose unguarded routes are shut.
DecisionInv == LockInv /\ OpsRouted /\ AuditPending /\ AuditMatchesRow

\* A request keeps its route until it ends.
LEMMA OpsRoutedStep ==
  ASSUME LockInv, OpsRouted, [Next]_vars
  PROVE  OpsRouted'
  <1>1. CASE UNCHANGED req
    BY <1>1 DEF OpsRouted
  <1>2. CASE ~UNCHANGED req
    <2>1. PICK w \in Workers : \/ Ordinary(w)
                               \/ ArbitrateLock(w) \/ ArbitrateCommit(w)
                               \/ VoteInsert(w) \/ VoteLock(w) \/ VoteCommit(w)
      BY <1>2, StepKinds DEF LockInv, vars, CreateCase, MergeCase
    <2>2. PICK r : Become(w, r) /\ r.op \in {"none", req[w].op} \cup Endpoints
      BY <2>1, HolderMoves DEF LockInv, Ordinary, Quiet
    <2>3. QED
      BY <2>2, OthersStay DEF LockInv, OpsRouted
  <1>3. QED
    BY <1>1, <1>2

\* The routes that write a status without looking at the one they replace are
\* shut.
GuardedTraffic == Endpoints \cap UnguardedEndpoints = {}

\* Handing a case over leaves its status.
LEMMA MovedStatus ==
  ASSUME TypeOK, NEW c \in Cases, NEW d, Moved(c, d), NEW x \in Cases
  PROVE  hitl'[x].status = hitl[x].status
  <1>1. [hitl[c] EXCEPT !.dept = d, !.ctx = {"handover"}].status = hitl[c].status
    BY DEF TypeOK, Row
  <1>2. QED
    BY <1>1 DEF TypeOK, Moved, Write

\* With guarded traffic, a row's status comes from its creation or from an
\* arbitration, and the audit alone posts a verdict.
LEMMA StatusKinds ==
  ASSUME TypeOK, OpsRouted, GuardedTraffic, [Next]_vars
  PROVE  /\ \A c \in Cases :
              \/ hitl'[c].status = hitl[c].status
              \/ ~Exists(c)
              \/ \E w \in Workers : ArbitrateCommit(w) /\ req[w].case = c
         /\ \/ UNCHANGED verdictLog
            \/ \E w \in Workers : ArbitrateAudit(w)
  <1>1. CASE UNCHANGED vars
    BY <1>1 DEF vars
  <1>2. CASE \E c \in Cases : CreateCase(c) \/ MergeCase(c)
    <2>1. PICK c \in Cases : CreateCase(c)
      BY <1>2 DEF MergeCase, GuardedTraffic, UnguardedEndpoints
    <2>2. \A x \in Cases : x # c => hitl'[x] = hitl[x]
      BY <2>1 DEF CreateCase, Write, TypeOK
    <2>3. QED
      BY <2>1, <2>2 DEF CreateCase
  <1>3. ASSUME NEW w \in Workers, Arrive(w) \/ Abandon(w)
        PROVE  UNCHANGED <<hitl, verdictLog>>
    BY <1>3 DEF Arrive, Abandon, ArbitrateBegin, VoteBegin, AssignBegin, ReassignBegin,
       BulkBegin, OverflowBegin, GuardBegin
  <1>4. ASSUME NEW w \in Workers, Step(w)
        PROVE  /\ \A c \in Cases : \/ hitl'[c].status = hitl[c].status
                                   \/ ArbitrateCommit(w) /\ req[w].case = c
               /\ UNCHANGED verdictLog \/ ArbitrateAudit(w)
    <2>1. req[w].op \notin UnguardedEndpoints
      BY DEF OpsRouted, GuardedTraffic, UnguardedEndpoints
    <2>2. CASE ArbitrateLock(w) \/ ArbitrateRefuse(w) \/ ArbitrateAudit(w)
      BY <2>2 DEF ArbitrateLock, ArbitrateRefuse, ArbitrateAudit
    <2>3. CASE ArbitrateCommit(w)
      BY <2>3 DEF ArbitrateCommit, Write, TypeOK
    <2>4. CASE ReassignCheck(w) \/ ReassignRefuse(w) \/ OverflowList(w) \/ GuardList(w)
               \/ GuardAnswer(w)
      BY <2>4 DEF ReassignCheck, ReassignRefuse, OverflowList, GuardList, GuardAnswer
    <2>5. CASE ReassignWrite(w)
      <3>1. req[w].case \in Cases
        BY <2>5, RequestOf DEF ReassignWrite, At, ReassignReq
      <3>2. QED
        BY <2>5, <3>1, MovedStatus DEF ReassignWrite
    <2>6. CASE OverflowMove(w)
      <3>1. req[w].todo \subseteq Cases
        BY <2>6, RequestOf DEF OverflowMove, At, OverflowReq
      <3>2. UNCHANGED verdictLog
        BY <2>6 DEF OverflowMove
      <3>3. UNCHANGED hitl \/ \E d : \E c \in req[w].todo : Moved(c, d)
        BY <2>6 DEF OverflowMove
      <3>4. QED
        BY <3>1, <3>2, <3>3, MovedStatus
    <2>7. CASE GuardMove(w)
      <3>1. req[w].todo \subseteq Cases
        BY <2>7, RequestOf DEF GuardMove, At, GuardReq
      <3>2. UNCHANGED verdictLog
        BY <2>7 DEF GuardMove
      <3>3. UNCHANGED hitl \/ \E d : \E c \in req[w].todo : Moved(c, d)
        BY <2>7 DEF GuardMove
      <3>4. QED
        BY <3>1, <3>2, <3>3, MovedStatus
    <2>8. ~(VoteInsert(w) \/ VoteLock(w) \/ VoteCommit(w) \/ AssignCheck(w)
            \/ AssignReadContext(w) \/ AssignWrite(w) \/ BulkPatch(w))
      BY <2>1 DEF VoteInsert, VoteLock, VoteCommit, AssignCheck, AssignReadContext,
         AssignWrite, BulkPatch, At, UnguardedEndpoints
    <2>9. QED
      BY <1>4, <2>2, <2>3, <2>4, <2>5, <2>6, <2>7, <2>8 DEF Step
  <1>5. CASE \E w \in Workers : Arrive(w) \/ Step(w) \/ Abandon(w)
    BY <1>3, <1>4, <1>5
  <1>6. QED
    BY <1>1, <1>2, <1>5 DEF Next

\* A decided row keeps its verdict through every step of guarded traffic.
LEMMA VerdictStays ==
  ASSUME LockInv, OpsRouted, GuardedTraffic, [Next]_vars,
         NEW c \in Cases, hitl[c].status \in Verdicts
  PROVE  hitl'[c].status = hitl[c].status
  <1>1. Exists(c)
    BY DEF Exists, Verdicts
  <1>2. hitl[c].status \in ClosedForArbitration
    BY DEF Verdicts, ClosedForArbitration
  <1>3. QED
    BY <1>1, <1>2, StatusKinds, CommitOverOpen DEF LockInv

\* A request between its commit and its audit stays what it is until it is done.
LEMMA AuditWaits ==
  ASSUME TypeOK, [Next]_vars, NEW w \in Workers,
         At(w, "arbitrate", "audit"), At(w, "arbitrate", "audit")'
  PROVE  req'[w] = req[w]
  <1>1. CASE UNCHANGED req
    BY <1>1
  <1>2. CASE ~UNCHANGED req
    <2>1. PICK v \in Workers : \/ Ordinary(v)
                               \/ ArbitrateLock(v) \/ ArbitrateCommit(v)
                               \/ VoteInsert(v) \/ VoteLock(v) \/ VoteCommit(v)
      BY <1>2, StepKinds DEF vars, CreateCase, MergeCase
    <2>2. CASE v # w
      <3>1. \E r : Become(v, r)
        BY <2>1, HolderMoves DEF Ordinary
      <3>2. QED
        BY <2>2, <3>1, OthersStay
    <2>3. CASE v = w
      <3>1. Ordinary(w)
        BY <2>1, <2>3 DEF At, ArbitrateLock, ArbitrateCommit, VoteInsert, VoteLock, VoteCommit
      <3>2. QED
        BY <3>1, OthersStay DEF Ordinary, Quiet, At
    <2>4. QED
      BY <2>2, <2>3
  <1>3. QED
    BY <1>1, <1>2

\* What waits for its audit is still what the row says.
LEMMA AuditPendingStep ==
  ASSUME DecisionInv, GuardedTraffic, [Next]_vars
  PROVE  AuditPending'
  <1> USE DEF LockInv, DecisionInv
  <1>1. SUFFICES ASSUME NEW w \in Workers, At(w, "arbitrate", "audit")'
                 PROVE  hitl'[req'[w].case].status = req'[w].verdict
    BY DEF AuditPending
  <1>2. CASE At(w, "arbitrate", "audit")
    <2>1. req'[w] = req[w]
      BY <1>1, <1>2, AuditWaits
    <2>2. req[w].case \in Cases /\ req[w].verdict \in Verdicts
      BY <1>2, RequestOf DEF At, ArbitrateReq
    <2>3. QED
      BY <1>2, <2>1, <2>2, VerdictStays DEF AuditPending
  <1>3. CASE ~At(w, "arbitrate", "audit")
    <2>1. ArbitrateCommit(w)
      BY <1>1, <1>3, OnlyCommitAudits
    <2>2. req[w] \in ArbitrateReq /\ req[w].case \in Cases
      BY <2>1, RequestOf DEF ArbitrateCommit, At, ArbitrateReq
    <2>3. req'[w] = [req[w] EXCEPT !.pc = "audit"]
      BY <2>1 DEF ArbitrateCommit, Become, TypeOK
    <2>4. req'[w].case = req[w].case /\ req'[w].verdict = req[w].verdict
      BY <2>2, <2>3 DEF ArbitrateReq
    <2>5. hitl'[req[w].case] = [hitl[req[w].case] EXCEPT !.status = req[w].verdict,
                                  !.votes = EmptyPanel, !.quorum = 0]
      BY <2>1, <2>2 DEF ArbitrateCommit, Write, TypeOK
    <2>6. hitl'[req[w].case].status = req[w].verdict
      BY <2>2, <2>5 DEF TypeOK, Row
    <2>7. QED
      BY <2>4, <2>6
  <1>4. QED
    BY <1>2, <1>3

\* What has been posted is still what the row says.
LEMMA AuditMatchesStep ==
  ASSUME DecisionInv, GuardedTraffic, [Next]_vars
  PROVE  AuditMatchesRow'
  <1> USE DEF LockInv, DecisionInv
  <1>1. SUFFICES ASSUME NEW c \in Cases, NEW v \in Verdicts, <<c, v>> \in verdictLog'
                 PROVE  hitl'[c].status = v
    BY DEF AuditMatchesRow
  <1>2. CASE <<c, v>> \in verdictLog
    BY <1>2, VerdictStays DEF AuditMatchesRow
  <1>3. CASE <<c, v>> \notin verdictLog
    <2>1. PICK w \in Workers : ArbitrateAudit(w)
      BY <1>1, <1>3, StatusKinds
    <2>2. c = req[w].case /\ v = req[w].verdict
      BY <1>1, <1>3, <2>1 DEF ArbitrateAudit
    <2>3. QED
      BY <2>1, <2>2 DEF ArbitrateAudit, AuditPending
  <1>4. QED
    BY <1>2, <1>3

\* With guarded traffic, decisions and their audit stay together.
LEMMA DecisionInvariant ==
  ASSUME GuardedTraffic
  PROVE  Spec => []DecisionInv
  <1>1. Init => DecisionInv
    BY InitType, LockInit
       DEF Init, DecisionInv, LockInv, OpsRouted, AuditPending, AuditMatchesRow, At, Idle
  <1>2. DecisionInv /\ [Next]_vars => DecisionInv'
    BY LockStep, OpsRoutedStep, AuditPendingStep, AuditMatchesStep DEF DecisionInv
  <1>3. QED
    BY <1>1, <1>2, PTL DEF Spec

\* With the unguarded routes shut a verdict stands: reassignment, overflow and
\* migration, and a second arbitration, leave a decided case as decided.
THEOREM DecisionsStand ==
  ASSUME GuardedTraffic
  PROVE  Spec => DecidedIsFinal
  <1>1. DecisionInv /\ [Next]_vars =>
          [\A c \in Cases :
             hitl[c].status \in Verdicts => hitl'[c].status = hitl[c].status]_vars
    BY VerdictStays DEF DecisionInv
  <1>2. QED
    BY <1>1, DecisionInvariant, PTL DEF Spec, DecidedIsFinal

\* Then every HITL_VERDICT event, posted after the commit and with no lock,
\* names the verdict the case has for good.
THEOREM AuditTrue ==
  ASSUME GuardedTraffic
  PROVE  Spec => []AuditMatchesRow
  BY DecisionInvariant, PTL DEF DecisionInv
-----------------------------------------------------------------------------
(* Jury panels                                                               *)

\* The jury alone decides.
JuryTraffic == Endpoints \subseteq {"create", "vote"}

\* All committed ballots of a case are counted, and no others; a case that is
\* not there has none.
BallotsCounted ==
  \A c \in Cases : hitl[c].votes = ballots[c] /\ (Exists(c) \/ ballots[c] = EmptyPanel)

\* The invariant of a system where the jury alone decides.
JuryInv == LockInv /\ OpsRouted /\ BallotsCounted /\ JuryStatusIsOutcome

\* The tallies of a panel are numbers.
LEMMA TallyNat ==
  ASSUME NEW b, NEW d
  PROVE  Tally(b, d) \in Nat
  <1>1. IsFiniteSet({v \in Voters : b[v] = d})
    BY VotersFinite, FS_Subset
  <1>. QED BY <1>1, FS_CardinalityType DEF Tally

\* An empty panel has no ballots.
LEMMA EmptyTally == TotalCast(EmptyPanel) = 0
  <1>1. ASSUME NEW d \in Decisions PROVE Tally(EmptyPanel, d) = 0
    <2>1. {v \in Voters : EmptyPanel[v] = d} = {}
      BY DEF EmptyPanel, NoBallot, Decisions
    <2>. QED BY <2>1, FS_EmptySet DEF Tally
  <1>. QED BY <1>1 DEF TotalCast, Decisions

\* One ballot more is one more of its kind.
LEMMA CastOne ==
  ASSUME NEW b \in Ballots, NEW v \in Voters, NEW d \in Decisions, b[v] = NoBallot
  PROVE  \A e \in Decisions :
           Tally([b EXCEPT ![v] = d], e) = IF e = d THEN Tally(b, e) + 1 ELSE Tally(b, e)
  <1>. TAKE e \in Decisions
  <1>. DEFINE after == [b EXCEPT ![v] = d]
              now == {u \in Voters : after[u] = e}
              old == {u \in Voters : b[u] = e}
  <1>1. \A u \in Voters : after[u] = IF u = v THEN d ELSE b[u]
    BY DEF Ballots
  <1>2. v \notin old /\ IsFiniteSet(old)
    BY VotersFinite, FS_Subset DEF Decisions, NoBallot
  <1>. HIDE DEF after
  <1>3. CASE e = d
    <2>1. now = old \cup {v}
      BY <1>1, <1>2, <1>3
    <2>. QED BY <1>2, <1>3, <2>1, FS_AddElement DEF Tally, after
  <1>4. CASE e # d
    <2>1. now = old
      BY <1>1, <1>2, <1>4
    <2>. QED BY <1>4, <2>1 DEF Tally, after
  <1>. QED BY <1>3, <1>4

\* Together, one more in all.
LEMMA CastTotal ==
  ASSUME NEW b \in Ballots, NEW v \in Voters, NEW d \in Decisions, b[v] = NoBallot
  PROVE  TotalCast([b EXCEPT ![v] = d]) = TotalCast(b) + 1
  <1>1. \A e \in Decisions :
          Tally([b EXCEPT ![v] = d], e) = IF e = d THEN Tally(b, e) + 1 ELSE Tally(b, e)
    BY CastOne
  <1>2. \A e : Tally(b, e) \in Nat
    BY TallyNat
  <1>. QED BY <1>1, <1>2 DEF TotalCast, Decisions

\* The threshold that a vote stores is the one it stores again.
LEMMA QuorumSettles ==
  ASSUME NEW setting \in Nat
  PROVE  EffectiveQuorum(EffectiveQuorum(setting)) = EffectiveQuorum(setting) /\ EffectiveQuorum(setting) > 0
  BY FloorPositive DEF EffectiveQuorum

\* The panel is decided by its ballots, whether the threshold is the setting or
\* has been stored by a vote.
LEMMA OutcomeSettles ==
  ASSUME NEW b, NEW setting \in Nat
  PROVE  PanelOutcome(b, EffectiveQuorum(setting)) = PanelOutcome(b, setting)
  BY QuorumSettles DEF PanelOutcome

\* One more ballot: a decided panel stays decided, and an approval does not
\* become a rejection, nor a rejection an approval.
LEMMA OneMoreBallot ==
  ASSUME NEW b \in Ballots, NEW v \in Voters, NEW d \in Decisions, b[v] = NoBallot, NEW setting \in Nat
  PROVE  LET now == PanelOutcome([b EXCEPT ![v] = d], setting)
             old == PanelOutcome(b, setting)
         IN  /\ now = "OPEN" => old = "OPEN"
             /\ old \in Verdicts => now \in {old, "ESCALATED"}
  <1>. DEFINE after == [b EXCEPT ![v] = d]
              a == Tally(b, "APPROVE")  a2 == Tally(after, "APPROVE")
              r == Tally(b, "REJECT")   r2 == Tally(after, "REJECT")
              n == TotalCast(b)         n2 == TotalCast(after)
              q == EffectiveQuorum(setting)
  <1>1. a \in Nat /\ a2 \in Nat /\ r \in Nat /\ r2 \in Nat /\ n \in Nat /\ a + r <= n
    BY TallyNat DEF TotalCast
  <1>2. a2 <= a + 1 /\ r2 <= r + 1
    <2>1. \A e \in Decisions : Tally(after, e) = IF e = d THEN Tally(b, e) + 1 ELSE Tally(b, e)
      BY CastOne
    <2>. QED BY <1>1, <2>1 DEF Decisions
  <1>3. n2 = n + 1
    BY CastTotal
  <1>4. q \in Nat /\ q > 0
    BY EffectiveQuorumNat, QuorumSettles
  <1>5. PanelOutcome(b, setting) = IF n < q THEN "OPEN"
                                   ELSE IF 100 * a > 65 * n THEN "APPROVED"
                                   ELSE IF 100 * r > 65 * n THEN "REJECTED" ELSE "ESCALATED"
    BY DEF PanelOutcome, Supermajority
  <1>6. PanelOutcome(after, setting) = IF n2 < q THEN "OPEN"
                                       ELSE IF 100 * a2 > 65 * n2 THEN "APPROVED"
                                       ELSE IF 100 * r2 > 65 * n2 THEN "REJECTED" ELSE "ESCALATED"
    BY DEF PanelOutcome, Supermajority
  <1>. HIDE DEF after, a, a2, r, r2, n, n2, q
  <1>7. n2 < q => n < q
    BY <1>1, <1>3, <1>4
  <1>8. n >= q /\ 100 * a > 65 * n => ~(100 * r2 > 65 * n2)
    BY <1>1, <1>2, <1>3, <1>4
  <1>9. n >= q /\ 100 * r > 65 * n => ~(100 * a2 > 65 * n2)
    BY <1>1, <1>2, <1>3, <1>4
  <1>10. ~(n < q) <=> n >= q
    BY <1>1, <1>4
  <1>11. PanelOutcome(after, setting) = "OPEN" => PanelOutcome(b, setting) = "OPEN"
    BY <1>5, <1>6, <1>7
  <1>12. PanelOutcome(b, setting) \in Verdicts
           => PanelOutcome(after, setting) \in {PanelOutcome(b, setting), "ESCALATED"}
    BY <1>5, <1>6, <1>7, <1>8, <1>9, <1>10 DEF Verdicts
  <1>. QED BY <1>11, <1>12 DEF after

\* What writes a row where the jury alone decides.
LEMMA JuryWrites ==
  ASSUME LockInv, OpsRouted, JuryTraffic, [Next]_vars
  PROVE  \/ UNCHANGED <<hitl, ballots>>
         \/ \E c \in Cases : CreateCase(c)
         \/ \E w \in Workers : VoteCommit(w)
  <1>1. \A w \in Workers : req[w].op \in {"none", "create", "vote"}
    BY DEF OpsRouted, JuryTraffic
  <1>2. ASSUME NEW c \in Cases, MergeCase(c) PROVE FALSE
    BY <1>2 DEF MergeCase, JuryTraffic
  <1>3. ASSUME NEW w \in Workers, Arrive(w) PROVE UNCHANGED <<hitl, ballots>>
    BY <1>3 DEF Arrive, ArbitrateBegin, VoteBegin, AssignBegin, ReassignBegin, BulkBegin, OverflowBegin, GuardBegin
  <1>4. ASSUME NEW w \in Workers, Abandon(w) PROVE UNCHANGED <<hitl, ballots>>
    BY <1>4 DEF Abandon
  <1>5. ASSUME NEW w \in Workers, Step(w) PROVE UNCHANGED <<hitl, ballots>> \/ VoteCommit(w)
    <2>1. VoteInsert(w) \/ VoteLock(w) \/ VoteCommit(w)
      BY <1>1, <1>5 DEF Step, At, ArbitrateLock, ArbitrateRefuse, ArbitrateCommit, ArbitrateAudit, AssignCheck,
         AssignReadContext, AssignWrite, ReassignCheck, ReassignRefuse, ReassignWrite, BulkPatch, OverflowList,
         OverflowMove, GuardList, GuardMove, GuardAnswer
    <2>. QED BY <2>1 DEF VoteInsert, VoteLock
  <1>6. CASE UNCHANGED vars
    BY <1>6 DEF vars
  <1>. QED BY <1>2, <1>3, <1>4, <1>5, <1>6 DEF Next

\* A vote that commits adds its ballot to those of the case, and leaves the
\* outcome of them all.
LEMMA VoteOutcome ==
  ASSUME JuryInv, NEW w \in Workers, VoteCommit(w)
  PROVE  LET c == req[w].case
             votes == [ballots[c] EXCEPT ![req[w].voter] = req[w].decision]
             outcome == PanelOutcome(votes, hitl[c].quorum)
         IN  /\ c \in Cases /\ Exists(c) /\ hitl[c].quorum \in Nat
             /\ ballots[c] \in Ballots /\ req[w].voter \in Voters /\ req[w].decision \in Decisions
             /\ ballots[c][req[w].voter] = NoBallot
             /\ ballots' = [ballots EXCEPT ![c] = votes]
             /\ \A x \in Cases : x # c => hitl'[x] = hitl[x]
             /\ hitl'[c].votes = votes /\ hitl'[c].quorum = EffectiveQuorum(hitl[c].quorum)
             /\ hitl'[c].status = IF outcome = "OPEN" THEN hitl[c].status ELSE outcome
  <1>. DEFINE c == req[w].case
              votes == [ballots[c] EXCEPT ![req[w].voter] = req[w].decision]
              outcome == PanelOutcome(votes, hitl[c].quorum)
              status == IF outcome = "OPEN" THEN hitl[c].status ELSE outcome
              quorum == EffectiveQuorum(hitl[c].quorum)
  <1>1. /\ req[w] \in VoteReq /\ c \in Cases /\ req[w].voter \in Voters /\ req[w].decision \in Decisions
        /\ hitl \in [Cases -> Row] /\ hitl[c] \in Row /\ ballots \in [Cases -> Ballots]
        /\ ballots[c] \in Ballots /\ hitl[c].quorum \in Nat
    BY RequestOf DEF VoteCommit, At, VoteReq, JuryInv, LockInv, TypeOK, Row
  <1>2. req[w].seen = hitl[c] /\ Exists(c)
    BY DEF VoteCommit, JuryInv, LockInv, LockDiscipline, HolderReadsRow
  <1>3. ballots[c][req[w].voter] = NoBallot
    BY DEF VoteCommit, At, JuryInv, LockInv, LockDiscipline, OneBallotInFlight, BallotPending
  <1>4. hitl[c].votes = ballots[c]
    BY <1>1 DEF JuryInv, BallotsCounted
  <1>5. ballots' = [ballots EXCEPT ![c] = votes]
    BY <1>1 DEF VoteCommit
  <1>6. hitl' = [hitl EXCEPT ![c] = [hitl[c] EXCEPT !.status = status, !.votes = votes, !.quorum = quorum]]
    BY <1>2, <1>4 DEF VoteCommit, Write
  <1>. HIDE DEF votes, status, quorum
  <1>7. /\ \A x \in Cases : x # c => hitl'[x] = hitl[x]
        /\ hitl'[c].votes = votes /\ hitl'[c].quorum = quorum /\ hitl'[c].status = status
    BY <1>1, <1>6 DEF Row
  <1>. QED BY <1>1, <1>2, <1>3, <1>5, <1>7 DEF votes, status, quorum

\* The step of the invariant: a new case is open with no ballots, and a vote
\* leaves the outcome of all ballots.
LEMMA JuryStep ==
  ASSUME JuryInv, JuryTraffic, [Next]_vars
  PROVE  JuryInv'
  <1>1. LockInv' /\ OpsRouted'
    BY LockStep, OpsRoutedStep DEF JuryInv
  <1>2. CASE UNCHANGED <<hitl, ballots>>
    BY <1>1, <1>2 DEF JuryInv, BallotsCounted, JuryStatusIsOutcome, Exists
  <1>3. ASSUME NEW c \in Cases, CreateCase(c) PROVE JuryInv'
    <2>1. /\ hitl \in [Cases -> Row] /\ ballots' = ballots /\ ballots[c] = EmptyPanel
      BY <1>3 DEF CreateCase, JuryInv, LockInv, TypeOK, BallotsCounted
    <2>2. PICK d \in DeptNames \cup {NoDept}, q \in QuorumSettings :
            hitl' = [hitl EXCEPT ![c] = [status |-> "PENDING", dept |-> d, ctx |-> {"origin"},
                                         votes |-> EmptyPanel, quorum |-> q]]
      BY <1>3 DEF CreateCase, Write
    <2>3. /\ hitl'[c].status = "PENDING" /\ hitl'[c].votes = EmptyPanel /\ hitl'[c].quorum = q
          /\ \A x \in Cases : x # c => hitl'[x] = hitl[x]
      BY <2>1, <2>2
    <2>4. PanelOutcome(EmptyPanel, q) = "OPEN"
      <3>1. q \in Nat
        BY LimitsNat
      <3>. QED BY <3>1, EmptyTally, QuorumSettles, EffectiveQuorumNat DEF PanelOutcome
    <2>5. BallotsCounted'
      BY <2>1, <2>3 DEF JuryInv, BallotsCounted, Exists
    <2>6. JuryStatusIsOutcome'
      BY <2>1, <2>3, <2>4 DEF JuryInv, JuryStatusIsOutcome, Exists
    <2>. QED BY <1>1, <2>5, <2>6 DEF JuryInv
  <1>4. ASSUME NEW w \in Workers, VoteCommit(w) PROVE JuryInv'
    <2>. DEFINE c == req[w].case
                votes == [ballots[c] EXCEPT ![req[w].voter] = req[w].decision]
                outcome == PanelOutcome(votes, hitl[c].quorum)
    <2>1. /\ c \in Cases /\ Exists(c) /\ hitl[c].quorum \in Nat
          /\ ballots[c] \in Ballots /\ req[w].voter \in Voters /\ req[w].decision \in Decisions
          /\ ballots[c][req[w].voter] = NoBallot
          /\ ballots' = [ballots EXCEPT ![c] = votes]
          /\ \A x \in Cases : x # c => hitl'[x] = hitl[x]
          /\ hitl'[c].votes = votes /\ hitl'[c].quorum = EffectiveQuorum(hitl[c].quorum)
          /\ hitl'[c].status = IF outcome = "OPEN" THEN hitl[c].status ELSE outcome
      BY <1>4, VoteOutcome
    <2>2. outcome = "OPEN" => hitl[c].status = "PENDING"
      <3>1. outcome = "OPEN" => PanelOutcome(ballots[c], hitl[c].quorum) = "OPEN"
        BY <2>1, OneMoreBallot
      <3>. QED BY <2>1, <3>1 DEF JuryInv, JuryStatusIsOutcome
    <2>3. ballots'[c] = votes /\ \A x \in Cases : x # c => ballots'[x] = ballots[x]
      BY <2>1 DEF JuryInv, LockInv, TypeOK
    <2>4. PanelOutcome(votes, hitl'[c].quorum) = outcome
      BY <2>1, OutcomeSettles
    <2>5. outcome \in {"OPEN", "APPROVED", "REJECTED", "ESCALATED"}
      BY PanelOutcomeType
    <2>. HIDE DEF c, votes, outcome
    <2>6. hitl'[c].status # "absent"
      BY <2>1, <2>5 DEF Exists
    <2>7. BallotsCounted'
      BY <2>1, <2>3, <2>6 DEF JuryInv, BallotsCounted, Exists
    <2>8. JuryStatusIsOutcome'
      BY <2>1, <2>2, <2>3, <2>4, <2>5 DEF JuryInv, JuryStatusIsOutcome, Exists
    <2>. QED BY <1>1, <2>7, <2>8 DEF JuryInv
  <1>. QED BY <1>2, <1>3, <1>4, JuryWrites DEF JuryInv

\* It is an invariant where the jury alone decides.
LEMMA JuryInvariant ==
  ASSUME JuryTraffic
  PROVE  Spec => []JuryInv
  <1>1. Init => JuryInv
    BY InitType, LockInit
       DEF Init, JuryInv, LockInv, OpsRouted, BallotsCounted, JuryStatusIsOutcome, Exists, NoRow, Idle
  <1>2. JuryInv /\ [Next]_vars => JuryInv'
    BY JuryStep
  <1>. QED BY <1>1, <1>2, PTL DEF Spec

\* Between concurrent votes no ballot is lost: at every moment the status of a
\* case is the outcome of all the ballots committed to core_hitl_votes, for any
\* panel, floor and setting of the quorum.
THEOREM JuryStatusTrue ==
  ASSUME JuryTraffic
  PROVE  Spec => []JuryStatusIsOutcome
  BY JuryInvariant, PTL DEF JuryInv

\* A late ballot never turns an approval into a rejection or the reverse: with a
\* supermajority of 65 % one ballot cannot move both sides across it.
THEOREM JuryKeepsItsSide ==
  ASSUME JuryTraffic
  PROVE  Spec => JuryNeverFlips
  <1>1. ASSUME JuryInv, [Next]_vars, NEW c \in Cases, hitl[c].status \in Verdicts
        PROVE  hitl'[c].status \in {hitl[c].status, "ESCALATED"}
    <2>1. CASE UNCHANGED <<hitl, ballots>>
      BY <2>1
    <2>2. ASSUME NEW x \in Cases, CreateCase(x) PROVE hitl'[c] = hitl[c]
      BY <1>1, <2>2 DEF CreateCase, Write, Exists, Verdicts, JuryInv, LockInv, TypeOK
    <2>3. ASSUME NEW w \in Workers, VoteCommit(w), req[w].case # c PROVE hitl'[c] = hitl[c]
      BY <1>1, <2>3, VoteOutcome
    <2>4. ASSUME NEW w \in Workers, VoteCommit(w), req[w].case = c
          PROVE  hitl'[c].status \in {hitl[c].status, "ESCALATED"}
      <3>. DEFINE votes == [ballots[c] EXCEPT ![req[w].voter] = req[w].decision]
                  outcome == PanelOutcome(votes, hitl[c].quorum)
      <3>1. /\ Exists(c) /\ hitl[c].quorum \in Nat
            /\ ballots[c] \in Ballots /\ req[w].voter \in Voters /\ req[w].decision \in Decisions
            /\ ballots[c][req[w].voter] = NoBallot
            /\ hitl'[c].status = IF outcome = "OPEN" THEN hitl[c].status ELSE outcome
        BY <1>1, <2>4, VoteOutcome
      <3>2. hitl[c].status = PanelOutcome(ballots[c], hitl[c].quorum)
        BY <1>1, <3>1 DEF JuryInv, JuryStatusIsOutcome, Verdicts
      <3>3. outcome \in {hitl[c].status, "ESCALATED"}
        BY <1>1, <3>1, <3>2, OneMoreBallot
      <3>. QED BY <3>1, <3>3
    <2>. QED BY <1>1, <2>1, <2>2, <2>3, <2>4, JuryWrites DEF JuryInv
  <1>2. JuryInv /\ [Next]_vars =>
          [\A c \in Cases :
             hitl[c].status \in Verdicts => hitl'[c].status \in {hitl[c].status, "ESCALATED"}]_vars
    BY <1>1
  <1>. QED BY <1>2, JuryInvariant, PTL DEF Spec, JuryNeverFlips
=============================================================================
