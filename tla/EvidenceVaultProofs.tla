------------------------- MODULE EvidenceVaultProofs -------------------------
(* Theorems of EvidenceVault, for any records, requests and payloads. *)
EXTENDS EvidenceVault, TLAPS

\* What a creation has read may be written: the hash of a row that is there.
PrevIsThere ==
    \A w \in Workers : req[w].op = "create" =>
        \/ req[w].prev = NoHash
        \/ \E q \in There : vault[q].hash = req[w].prev

\* Rows are numbered below the clock.
BornBeforeNow == \A r \in There : vault[r].born < clock

\* A generated id belongs to one row or to one request.
FreshIds ==
    \A w \in Workers : req[w].op = "create" => ~vault[req[w].rec].there
                                               /\ \A v \in Workers \ {w} :
                                                    req[v].op = "create" => req[v].rec # req[w].rec

\* Requests other than a creation are about a row that is there.
OpsOnRows ==
    \A w \in Workers : req[w].op \in {"update", "attest", "delete"} => vault[req[w].rec].there

\* A stored hash is blank, that of the first payload, or that of the record.
HashAsWritten ==
    \A r \in There : vault[r].hash \in {NoHash, PayloadHash(vault[r].payload0), RecordHash(r)}

\* Only a row that is there is attested.
AttestedIsThere == \A r \in Records : vault[r].attested => vault[r].there

VaultInv == TypeOK /\ AttestedIsThere /\ PrevIsThere /\ BornBeforeNow /\ FreshIds /\ OpsOnRows
                   /\ HashAsWritten /\ LinkedBackwards

\* The hash of a payload is none of the other hashes, and determines the payload.
LEMMA HashesDiffer ==
    ASSUME NEW c, NEW d, NEW r
    PROVE  /\ PayloadHash(c) # NoHash
           /\ RecordHash(r) # NoHash
           /\ RecordHash(r) # PayloadHash(c)
           /\ PayloadHash(c) = PayloadHash(d) => c = d
BY DEF PayloadHash, RecordHash, NoHash

\* A new row has the type of rows.
LEMMA NewRowType ==
    ASSUME NEW c \in Payloads, NEW h \in Hashes, NEW p \in Hashes, NEW n \in Nat
    PROVE  NewRow(c, h, p, n) \in Row
BY DEF NewRow, Row

\* The hashes handlers form are hashes.
LEMMA HashType ==
    /\ NoHash \in Hashes
    /\ \A c \in Payloads : PayloadHash(c) \in Hashes
    /\ \A r \in Records : RecordHash(r) \in Hashes
BY DEF Hashes

\* The initial states have the invariant.
LEMMA InitInv == Init => VaultInv
<1> SUFFICES ASSUME Init PROVE VaultInv
    OBVIOUS
<1>0. (CHOOSE c \in Payloads : TRUE) \in Payloads
      BY SomePayload
<1>1. /\ Absent \in Row /\ Absent.there = FALSE /\ Absent.attested = FALSE
      /\ \A row \in Earlier : /\ row \in Row /\ row.there /\ row.born = 0
                              /\ row.previous_hash = NoHash
                              /\ row.hash \in {NoHash, PayloadHash(row.payload0)}
  <2>1. NewRow(CHOOSE c \in Payloads : TRUE, NoHash, NoHash, 0) \in Row
        BY <1>0, NewRowType, HashType
  <2>2. Absent \in Row /\ Absent.there = FALSE /\ Absent.attested = FALSE
        BY <2>1 DEF Absent, Row, NewRow
  <2>3. ASSUME NEW row \in Earlier
        PROVE  /\ row \in Row /\ row.there /\ row.born = 0
               /\ row.previous_hash = NoHash
               /\ row.hash \in {NoHash, PayloadHash(row.payload0)}
    <3>1. PICK c \in Payloads : \/ row = NewRow(c, NoHash, NoHash, 0)
                                \/ row = NewRow(c, PayloadHash(c), NoHash, 0)
          BY DEF Earlier
    <3>2. row \in Row
          BY <3>1, NewRowType, HashType
    <3>3. PICK h \in {NoHash, PayloadHash(c)} : row = NewRow(c, h, NoHash, 0)
          BY <3>1
    <3>4. /\ row.there /\ row.born = 0 /\ row.previous_hash = NoHash
          /\ row.hash = h /\ row.payload0 = c
          BY <3>3 DEF NewRow
    <3> QED BY <3>2, <3>3, <3>4
  <2> QED BY <2>2, <2>3
<1>2. \A r \in Records : vault[r] = Absent \/ vault[r] \in Earlier
      BY DEF Init
<1>3. TypeOK
      BY <1>1, <1>2 DEF Init, TypeOK, Idle
<1>4. \A r \in There : vault[r] \in Earlier
      BY <1>1, <1>2 DEF There
<1>5. \A w \in Workers : req[w].op = "idle"
      BY DEF Init, Idle
<1>6. clock = 1
      BY DEF Init
<1>7. LinkedBackwards
      BY <1>1, <1>4 DEF LinkedBackwards, There
<1>8. BornBeforeNow
  <2>1. \A r \in There : vault[r].born = 0
        BY <1>1, <1>4
  <2> QED BY <2>1, <1>6 DEF BornBeforeNow
<1>9. HashAsWritten
      BY <1>1, <1>4 DEF HashAsWritten, There
<1>10. AttestedIsThere
      BY <1>1, <1>2 DEF AttestedIsThere
<1> QED BY <1>3, <1>5, <1>7, <1>8, <1>9, <1>10 DEF VaultInv, PrevIsThere, FreshIds, OpsOnRows

\* A step that changes no column the chain rests on, and starts no creation,
\* keeps the invariant: corrections, attestations, deletions, failures.
Quiet ==
    /\ TypeOK'
    /\ clock' = clock
    /\ \A r \in Records : vault'[r].attested => vault[r].there
    /\ \A r \in Records : /\ vault'[r].there = vault[r].there
                          /\ vault'[r].hash = vault[r].hash
                          /\ vault'[r].previous_hash = vault[r].previous_hash
                          /\ vault'[r].payload0 = vault[r].payload0
                          /\ vault'[r].born = vault[r].born
    /\ \A w \in Workers : \/ req'[w] = req[w]
                          \/ req'[w].op = "idle"
                          \/ /\ req'[w].op \in {"update", "attest", "delete"}
                             /\ req'[w].rec \in There

\* See Quiet.
LEMMA QuietKeepsInv ==
    ASSUME VaultInv, Quiet PROVE VaultInv'
<1> USE DEF VaultInv
<1>0. There' = There
      BY DEF Quiet, There
<1>1. PrevIsThere'
      BY <1>0 DEF PrevIsThere, Quiet, There
<1>2. BornBeforeNow'
      BY <1>0 DEF BornBeforeNow, Quiet, There
<1>3. FreshIds'
  <2> SUFFICES ASSUME NEW w \in Workers, req'[w].op = "create"
               PROVE  /\ ~vault'[req'[w].rec].there
                      /\ \A v \in Workers \ {w} : req'[v].op = "create" => req'[v].rec # req'[w].rec
      BY DEF FreshIds
  <2>1. \A v \in Workers : req'[v].op = "create" => req'[v] = req[v]
        BY DEF Quiet
  <2>2. req[w].rec \in Records
        BY <2>1 DEF TypeOK, Idle, CreateReq, UpdateReq, AttestReq, DeleteReq
  <2> QED BY <2>1, <2>2 DEF FreshIds, Quiet
<1>4. OpsOnRows'
  <2> SUFFICES ASSUME NEW w \in Workers, req'[w].op \in {"update", "attest", "delete"}
               PROVE  vault'[req'[w].rec].there
      BY DEF OpsOnRows
  <2>1. CASE req'[w] = req[w]
    <3>1. req[w].rec \in Records
          BY <2>1 DEF TypeOK, Idle, CreateReq, UpdateReq, AttestReq, DeleteReq
    <3> QED BY <2>1, <3>1 DEF OpsOnRows, Quiet
  <2>2. CASE req'[w].rec \in There
        BY <2>2 DEF Quiet, There
  <2> QED BY <2>1, <2>2 DEF Quiet
<1>5. HashAsWritten'
      BY <1>0 DEF HashAsWritten, Quiet, There
<1>6. LinkedBackwards'
      BY <1>0 DEF LinkedBackwards, Quiet, There
<1>7. AttestedIsThere'
      BY DEF AttestedIsThere, Quiet
<1> QED BY <1>1, <1>2, <1>3, <1>4, <1>5, <1>6, <1>7 DEF Quiet

\* What Quiet asks, for a step that gives worker w a request or none, and
\* changes at most the columns no part of the chain rests on, of one row.
LEMMA QuietStep ==
    ASSUME VaultInv, NEW w \in Workers, NEW request,
           \/ request = Idle
           \/ request \in UpdateReq \cup AttestReq \cup DeleteReq /\ request.rec \in There,
           req' = [req EXCEPT ![w] = request],
           clock' = clock,
           NEW r \in Records, NEW row \in Row,
           vault' = [vault EXCEPT ![r] = row],
           row.attested => vault[r].there,
           row.there = vault[r].there, row.hash = vault[r].hash,
           row.previous_hash = vault[r].previous_hash,
           row.payload0 = vault[r].payload0, row.born = vault[r].born
    PROVE  VaultInv'
<1>1. TypeOK'
      BY DEF VaultInv, TypeOK
<1>2. \A q \in Records : /\ vault'[q].there = vault[q].there
                         /\ vault'[q].hash = vault[q].hash
                         /\ vault'[q].previous_hash = vault[q].previous_hash
                         /\ vault'[q].payload0 = vault[q].payload0
                         /\ vault'[q].born = vault[q].born
      BY DEF VaultInv, TypeOK
<1>3. \A v \in Workers : \/ req'[v] = req[v]
                         \/ req'[v].op = "idle"
                         \/ /\ req'[v].op \in {"update", "attest", "delete"}
                            /\ req'[v].rec \in There
  <2>1. \/ request.op = "idle"
        \/ request.op \in {"update", "attest", "delete"} /\ request.rec \in There
        BY DEF Idle, UpdateReq, AttestReq, DeleteReq
  <2> QED BY <2>1 DEF VaultInv, TypeOK
<1>4. \A q \in Records : vault'[q].attested => vault[q].there
      BY DEF VaultInv, TypeOK, AttestedIsThere
<1> QED BY <1>1, <1>2, <1>3, <1>4, QuietKeepsInv DEF Quiet

\* A request that is only read and accepted leaves the vault as it is.
LEMMA AcceptStep ==
    ASSUME VaultInv, NEW w \in Workers, NEW request,
           \/ request = Idle
           \/ request \in UpdateReq \cup AttestReq \cup DeleteReq /\ request.rec \in There,
           req' = [req EXCEPT ![w] = request], UNCHANGED <<vault, clock>>
    PROVE  VaultInv'
<1>1. TypeOK'
      BY DEF VaultInv, TypeOK
<1>2. \A v \in Workers : \/ req'[v] = req[v]
                         \/ req'[v].op = "idle"
                         \/ /\ req'[v].op \in {"update", "attest", "delete"}
                            /\ req'[v].rec \in There
  <2>1. \/ request.op = "idle"
        \/ request.op \in {"update", "attest", "delete"} /\ request.rec \in There
        BY DEF Idle, UpdateReq, AttestReq, DeleteReq
  <2> QED BY <2>1 DEF VaultInv, TypeOK
<1>3. \A q \in Records : vault'[q].attested => vault[q].there
      BY DEF VaultInv, AttestedIsThere
<1> QED BY <1>1, <1>2, <1>3, QuietKeepsInv DEF Quiet

\* What is read before a creation is a hash that is there.
LEMMA CreateReadInv ==
    ASSUME VaultInv, NEW w \in Workers, NEW r \in Records, NEW c \in Payloads,
           CreateRead(w, r, c)
    PROVE  VaultInv'
<1> USE DEF VaultInv
<1>1. PICK h \in FirstHashRead :
          Take(w, [op |-> "create", rec |-> r, payload |-> c, prev |-> h])
      BY DEF CreateRead
<1> DEFINE request == [op |-> "create", rec |-> r, payload |-> c, prev |-> h]
<1>2. /\ vault' = vault /\ clock' = clock
      /\ ~vault[r].there
      /\ \A v \in Workers : req[v].op = "create" => req[v].rec # r
      /\ req' = [req EXCEPT ![w] = request]
      BY <1>1 DEF CreateRead, Take
<1>3. h = NoHash \/ \E q \in There : vault[q].hash = h
      BY DEF FirstHashRead
<1>4. h \in Hashes
      BY <1>3, HashType DEF TypeOK, Row, There
<1>5. request \in CreateReq
      BY <1>4 DEF CreateReq
<1>6. TypeOK'
      BY <1>2, <1>5 DEF TypeOK
<1>7. /\ req'[w] = request
      /\ \A v \in Workers \ {w} : req'[v] = req[v]
      BY <1>2 DEF TypeOK
<1>8. There' = There
      BY <1>2 DEF There
<1>9. PrevIsThere'
      BY <1>2, <1>3, <1>7, <1>8 DEF PrevIsThere
<1>10. FreshIds'
      BY <1>2, <1>7 DEF FreshIds
<1>11. OpsOnRows'
      BY <1>2, <1>7 DEF OpsOnRows
<1> QED BY <1>2, <1>6, <1>8, <1>9, <1>10, <1>11 DEF BornBeforeNow, HashAsWritten, LinkedBackwards,
                                                      AttestedIsThere

\* The row that is inserted comes after the one whose hash was read.
LEMMA CreateInsertInv ==
    ASSUME VaultInv, NEW w \in Workers, CreateInsert(w)
    PROVE  VaultInv'
<1> USE DEF VaultInv
<1> DEFINE r == req[w].rec
           new == NewRow(req[w].payload, RecordHash(r), req[w].prev, clock)
<1>1. /\ req[w].op = "create"
      /\ vault' = [vault EXCEPT ![r] = new]
      /\ clock' = clock + 1
      /\ req' = [req EXCEPT ![w] = Idle]
      BY DEF CreateInsert, Finish
<1>2. req[w] \in CreateReq
      BY <1>1 DEF TypeOK, Idle, UpdateReq, AttestReq, DeleteReq
<1>3. r \in Records /\ req[w].payload \in Payloads /\ req[w].prev \in Hashes
      BY <1>2 DEF CreateReq
<1>4. new \in Row
      BY <1>3, HashType, NewRowType DEF TypeOK
<1>5. /\ new.there /\ new.hash = RecordHash(r)
      /\ new.previous_hash = req[w].prev /\ new.born = clock
      BY DEF NewRow
<1>6. ~vault[r].there
      BY <1>1 DEF FreshIds
<1>7. /\ vault'[r] = new
      /\ \A q \in Records \ {r} : vault'[q] = vault[q]
      /\ \A v \in Workers \ {w} : req'[v] = req[v]
      /\ req'[w] = Idle
      BY <1>1, <1>3 DEF TypeOK
<1>8. There' = There \cup {r} /\ r \notin There
      BY <1>3, <1>5, <1>6, <1>7 DEF There
<1>9. \A q \in There : vault'[q] = vault[q]
      BY <1>7, <1>8 DEF There
<1>10. \A q \in There : vault[q].born < clock /\ vault[q].born \in Nat
      BY DEF BornBeforeNow, There, TypeOK, Row
<1>11. clock \in Nat
      BY DEF TypeOK
<1>12. TypeOK'
      BY <1>1, <1>3, <1>4, <1>11 DEF TypeOK
<1>13. PrevIsThere'
      BY <1>7, <1>8, <1>9 DEF PrevIsThere, Idle
<1>14. BornBeforeNow'
  <2>1. \A q \in There : vault'[q].born < clock'
        BY <1>1, <1>9, <1>10, <1>11
  <2>2. vault'[r].born < clock'
        BY <1>1, <1>5, <1>7, <1>11
  <2> QED BY <2>1, <2>2, <1>8 DEF BornBeforeNow
<1>15. FreshIds'
  <2> SUFFICES ASSUME NEW v \in Workers, req'[v].op = "create"
               PROVE  /\ ~vault'[req'[v].rec].there
                      /\ \A u \in Workers \ {v} : req'[u].op = "create" => req'[u].rec # req'[v].rec
      BY DEF FreshIds
  <2>1. v # w /\ req'[v] = req[v]
        BY <1>7 DEF Idle
  <2>2. req[v].rec \in Records /\ req[v].rec # r
    <3>1. req[v] \in CreateReq
          BY <2>1 DEF TypeOK, Idle, UpdateReq, AttestReq, DeleteReq
    <3> QED BY <3>1, <2>1, <1>1 DEF CreateReq, FreshIds
  <2>3. ~vault'[req'[v].rec].there
        BY <2>1, <2>2, <1>7 DEF FreshIds
  <2>4. \A u \in Workers \ {v} : req'[u].op = "create" => req'[u].rec # req'[v].rec
        BY <2>1, <1>7 DEF FreshIds, Idle
  <2> QED BY <2>3, <2>4
<1>16. OpsOnRows'
  <2> SUFFICES ASSUME NEW v \in Workers, req'[v].op \in {"update", "attest", "delete"}
               PROVE  vault'[req'[v].rec].there
      BY DEF OpsOnRows
  <2>1. v # w /\ req'[v] = req[v]
        BY <1>7 DEF Idle
  <2>2. req[v].rec \in Records
        BY <2>1 DEF TypeOK, Idle, CreateReq, UpdateReq, AttestReq, DeleteReq
  <2> QED BY <2>1, <2>2, <1>5, <1>7 DEF OpsOnRows
<1>17. HashAsWritten'
      BY <1>5, <1>7, <1>8, <1>9 DEF HashAsWritten
<1>18. LinkedBackwards'
  <2>1. ASSUME NEW q \in There
        PROVE  \/ vault'[q].previous_hash = NoHash
               \/ \E p \in There' : /\ vault'[p].hash = vault'[q].previous_hash
                                    /\ vault'[p].born < vault'[q].born
        BY <1>8, <1>9 DEF LinkedBackwards
  <2>2. \/ vault'[r].previous_hash = NoHash
        \/ \E p \in There' : /\ vault'[p].hash = vault'[r].previous_hash
                             /\ vault'[p].born < vault'[r].born
        BY <1>1, <1>5, <1>7, <1>8, <1>9, <1>10 DEF PrevIsThere
  <2> QED BY <2>1, <2>2, <1>8 DEF LinkedBackwards
<1>19. AttestedIsThere'
      BY <1>5, <1>7 DEF AttestedIsThere
<1> QED BY <1>12, <1>13, <1>14, <1>15, <1>16, <1>17, <1>18, <1>19

\* Every step keeps the invariant.
LEMMA NextInv == VaultInv /\ [Next]_vars => VaultInv'
<1> SUFFICES ASSUME VaultInv, [Next]_vars PROVE VaultInv'
    OBVIOUS
<1> USE DEF Take, Finish
<1>1. ASSUME NEW w \in Workers, NEW r \in Records, NEW c \in Payloads, CreateRead(w, r, c)
      PROVE  VaultInv'
      BY <1>1, CreateReadInv
<1>2. ASSUME NEW w \in Workers, NEW r \in Records, NEW c \in Payloads, UpdateRead(w, r, c)
      PROVE  VaultInv'
  <2>1. [op |-> "update", rec |-> r, payload |-> c] \in UpdateReq
        BY DEF UpdateReq
  <2>2. r \in There
        BY <1>2 DEF UpdateRead, MayUpdate, There
  <2> QED BY <1>2, <2>1, <2>2, AcceptStep DEF UpdateRead
<1>3. ASSUME NEW w \in Workers, NEW r \in Records, NEW s \in Attestations, AttestRead(w, r, s)
      PROVE  VaultInv'
  <2>1. [op |-> "attest", rec |-> r, status |-> s] \in AttestReq
        BY DEF AttestReq
  <2>2. r \in There
        BY <1>3 DEF AttestRead, There
  <2> QED BY <1>3, <2>1, <2>2, AcceptStep DEF AttestRead
<1>4. ASSUME NEW w \in Workers, NEW r \in Records, DeleteRead(w, r)
      PROVE  VaultInv'
  <2>1. [op |-> "delete", rec |-> r] \in DeleteReq
        BY DEF DeleteReq
  <2>2. r \in There
        BY <1>4 DEF DeleteRead, There
  <2> QED BY <1>4, <2>1, <2>2, AcceptStep DEF DeleteRead
<1>5. ASSUME NEW w \in Workers, CreateInsert(w)
      PROVE  VaultInv'
      BY <1>5, CreateInsertInv
<1>6. ASSUME NEW w \in Workers, UpdateWrite(w)
      PROVE  VaultInv'
  <2>1. req[w] \in UpdateReq
        BY <1>6 DEF UpdateWrite, VaultInv, TypeOK, Idle, CreateReq, AttestReq, DeleteReq
  <2>2. req[w].rec \in Records /\ req[w].payload \in Payloads
        BY <2>1 DEF UpdateReq
  <2> DEFINE row == Corrected(vault[req[w].rec], req[w].payload)
  <2>3. /\ row \in Row
        /\ row.there = vault[req[w].rec].there /\ row.hash = vault[req[w].rec].hash
        /\ row.previous_hash = vault[req[w].rec].previous_hash
        /\ row.payload0 = vault[req[w].rec].payload0 /\ row.born = vault[req[w].rec].born
    <3>1. vault[req[w].rec] \in Row
          BY <2>2 DEF VaultInv, TypeOK
    <3>2. row \in Row
          BY <2>2, <3>1 DEF Corrected, Row
    <3>3. /\ row.there = vault[req[w].rec].there /\ row.hash = vault[req[w].rec].hash
          /\ row.previous_hash = vault[req[w].rec].previous_hash
          /\ row.payload0 = vault[req[w].rec].payload0 /\ row.born = vault[req[w].rec].born
          BY <3>1 DEF Corrected, Row
    <3> QED BY <3>2, <3>3
  <2>4. row.attested => vault[req[w].rec].there
    <3>1. row.attested = vault[req[w].rec].attested
          BY <2>2 DEF Corrected, VaultInv, TypeOK, Row
    <3> QED BY <2>2, <3>1 DEF VaultInv, AttestedIsThere
  <2>5. vault' = [vault EXCEPT ![req[w].rec] = row]
        BY <1>6 DEF UpdateWrite
  <2> HIDE DEF row
  <2> QED BY <1>6, <2>2, <2>3, <2>4, <2>5, QuietStep DEF UpdateWrite
<1>7. ASSUME NEW w \in Workers, AttestWrite(w)
      PROVE  VaultInv'
  <2>1. req[w] \in AttestReq
        BY <1>7 DEF AttestWrite, VaultInv, TypeOK, Idle, CreateReq, UpdateReq, DeleteReq
  <2>2. req[w].rec \in Records /\ req[w].status \in Attestations
        BY <2>1 DEF AttestReq
  <2> DEFINE row == [vault[req[w].rec] EXCEPT !.attested = TRUE,
                                              !.verification_status = req[w].status]
  <2>3. /\ row \in Row
        /\ row.there = vault[req[w].rec].there /\ row.hash = vault[req[w].rec].hash
        /\ row.previous_hash = vault[req[w].rec].previous_hash
        /\ row.payload0 = vault[req[w].rec].payload0 /\ row.born = vault[req[w].rec].born
    <3>1. vault[req[w].rec] \in Row
          BY <2>2 DEF VaultInv, TypeOK
    <3>2. row \in Row
          BY <2>2, <3>1 DEF Row
    <3>3. /\ row.there = vault[req[w].rec].there /\ row.hash = vault[req[w].rec].hash
          /\ row.previous_hash = vault[req[w].rec].previous_hash
          /\ row.payload0 = vault[req[w].rec].payload0 /\ row.born = vault[req[w].rec].born
          BY <3>1 DEF Row
    <3> QED BY <3>2, <3>3
  <2>4. row.attested => vault[req[w].rec].there
        BY <1>7 DEF AttestWrite, VaultInv, OpsOnRows
  <2>5. vault' = [vault EXCEPT ![req[w].rec] = row]
        BY <1>7, <2>2 DEF AttestWrite, VaultInv, TypeOK, Row
  <2> HIDE DEF row
  <2> QED BY <1>7, <2>2, <2>3, <2>4, <2>5, QuietStep DEF AttestWrite
<1>8. ASSUME NEW w \in Workers, DeleteWrite(w)
      PROVE  VaultInv'
  <2>1. req[w] \in DeleteReq
        BY <1>8 DEF DeleteWrite, VaultInv, TypeOK, Idle, CreateReq, UpdateReq, AttestReq
  <2>2. req[w].rec \in Records
        BY <2>1 DEF DeleteReq
  <2> DEFINE row == Deleted(vault[req[w].rec])
  <2>3. /\ row \in Row
        /\ row.there = vault[req[w].rec].there /\ row.hash = vault[req[w].rec].hash
        /\ row.previous_hash = vault[req[w].rec].previous_hash
        /\ row.payload0 = vault[req[w].rec].payload0 /\ row.born = vault[req[w].rec].born
    <3>1. vault[req[w].rec] \in Row
          BY <2>2 DEF VaultInv, TypeOK
    <3>2. row \in Row
          BY <2>2, <3>1 DEF Deleted, Row
    <3>3. /\ row.there = vault[req[w].rec].there /\ row.hash = vault[req[w].rec].hash
          /\ row.previous_hash = vault[req[w].rec].previous_hash
          /\ row.payload0 = vault[req[w].rec].payload0 /\ row.born = vault[req[w].rec].born
          BY <3>1 DEF Deleted, Row
    <3> QED BY <3>2, <3>3
  <2>4. row.attested => vault[req[w].rec].there
    <3>1. row.attested = vault[req[w].rec].attested
          BY <2>2 DEF Deleted, VaultInv, TypeOK, Row
    <3> QED BY <2>2, <3>1 DEF VaultInv, AttestedIsThere
  <2>5. vault' = [vault EXCEPT ![req[w].rec] = row]
        BY <1>8 DEF DeleteWrite
  <2> HIDE DEF row
  <2> QED BY <1>8, <2>2, <2>3, <2>4, <2>5, QuietStep DEF DeleteWrite
<1>9. ASSUME NEW w \in Workers, Abandon(w)
      PROVE  VaultInv'
      BY <1>9, AcceptStep DEF Abandon
<1>10. CASE UNCHANGED vars
  <2> USE <1>10 DEF vars
  <2>1. There' = There
        BY DEF There
  <2> QED BY <2>1 DEF VaultInv, TypeOK, PrevIsThere, BornBeforeNow, FreshIds, OpsOnRows,
                      HashAsWritten, LinkedBackwards, AttestedIsThere
<1> QED BY <1>1, <1>2, <1>3, <1>4, <1>5, <1>6, <1>7, <1>8, <1>9, <1>10 DEF Next

\* The invariant holds throughout.
LEMMA VaultInvariant == Spec => []VaultInv
<1>1. Init => VaultInv
      BY InitInv
<1>2. VaultInv /\ [Next]_vars => VaultInv'
      BY NextInv
<1> QED BY <1>1, <1>2, PTL DEF Spec

\* The rows, requests and clock keep their types.
THEOREM VaultTypeCorrect == Spec => []TypeOK
<1>1. VaultInv => TypeOK
      BY DEF VaultInv
<1> QED BY <1>1, VaultInvariant, PTL

\* The previous hash of a record is blank or that of an earlier record, for
\* ever: corrections and soft deletions leave the chain as it was.
THEOREM ChainLinked == Spec => []LinkedBackwards
<1>1. VaultInv => LinkedBackwards
      BY DEF VaultInv
<1> QED BY <1>1, VaultInvariant, PTL

\* A record whose payload was changed never passes the check of a read, with
\* either of the two ways in which stored hashes are formed.
THEOREM ChangesShow == Spec => []ChangedIsFlagged
<1>1. VaultInv => ChangedIsFlagged
  <2> SUFFICES ASSUME HashAsWritten, NEW r \in There,
                      vault[r].hash # NoHash, vault[r].payload # vault[r].payload0
               PROVE  vault[r].hash # PayloadHash(vault[r].payload)
      BY DEF VaultInv, ChangedIsFlagged, IntegrityOK
  <2>1. CASE vault[r].hash = PayloadHash(vault[r].payload0)
        BY <2>1, HashesDiffer
  <2>2. CASE vault[r].hash = RecordHash(r)
        BY <2>2, HashesDiffer
  <2> QED BY <2>1, <2>2 DEF HashAsWritten
<1> QED BY <1>1, VaultInvariant, PTL

\* Once a record is attested and the corrections accepted before are through,
\* its payload is final: the handler's check needs no lock for that.
THEOREM SealsHold == Spec => SealedForever
<1>1. ASSUME VaultInv, [Next]_vars, NEW r \in Records, Sealed(r)
      PROVE  Sealed(r)' /\ vault'[r].payload = vault[r].payload
  <2> USE DEF Take, Finish, Sealed
  <2>0. /\ vault[r].attested
        /\ \A w \in Workers : ~(req[w].op = "update" /\ req[w].rec = r)
        /\ vault \in [Records -> Row]
        BY <1>1 DEF VaultInv, TypeOK
  <2>1. ASSUME NEW w \in Workers, NEW request, request.op # "update" \/ request.rec # r,
               req' = [req EXCEPT ![w] = request]
        PROVE  \A v \in Workers : ~(req'[v].op = "update" /\ req'[v].rec = r)
        BY <1>1, <2>0, <2>1 DEF VaultInv, TypeOK
  <2>2. ASSUME NEW w \in Workers, NEW q \in Records, NEW c \in Payloads, CreateRead(w, q, c)
        PROVE  Sealed(r)' /\ vault'[r].payload = vault[r].payload
    <3>1. PICK h \in FirstHashRead :
              Take(w, [op |-> "create", rec |-> q, payload |-> c, prev |-> h])
          BY <2>2 DEF CreateRead
    <3> QED BY <2>0, <2>1, <2>2, <3>1 DEF CreateRead
  <2>3. ASSUME NEW w \in Workers, NEW q \in Records, NEW c \in Payloads, UpdateRead(w, q, c)
        PROVE  Sealed(r)' /\ vault'[r].payload = vault[r].payload
    <3>1. q # r
          BY <2>0, <2>3 DEF UpdateRead, MayUpdate
    <3> QED BY <2>0, <2>1, <2>3, <3>1 DEF UpdateRead
  <2>4. ASSUME NEW w \in Workers, NEW q \in Records, NEW s \in Attestations, AttestRead(w, q, s)
        PROVE  Sealed(r)' /\ vault'[r].payload = vault[r].payload
        BY <2>0, <2>1, <2>4 DEF AttestRead
  <2>5. ASSUME NEW w \in Workers, NEW q \in Records, DeleteRead(w, q)
        PROVE  Sealed(r)' /\ vault'[r].payload = vault[r].payload
        BY <2>0, <2>1, <2>5 DEF DeleteRead
  <2>6. ASSUME NEW w \in Workers, CreateInsert(w)
        PROVE  Sealed(r)' /\ vault'[r].payload = vault[r].payload
    <3>1. req[w].rec # r
      <4>1. ~vault[req[w].rec].there
            BY <1>1, <2>6 DEF CreateInsert, VaultInv, FreshIds
      <4>2. vault[r].there
            BY <1>1 DEF VaultInv, AttestedIsThere
      <4> QED BY <4>1, <4>2
    <3>2. vault'[r] = vault[r]
          BY <2>0, <2>6, <3>1 DEF CreateInsert
    <3> QED BY <2>0, <2>1, <2>6, <3>2 DEF CreateInsert, Idle
  <2>7. ASSUME NEW w \in Workers, UpdateWrite(w)
        PROVE  Sealed(r)' /\ vault'[r].payload = vault[r].payload
    <3>1. vault'[r] = vault[r]
          BY <2>0, <2>7 DEF UpdateWrite
    <3> QED BY <2>0, <2>1, <2>7, <3>1 DEF UpdateWrite, Idle
  <2>8. ASSUME NEW w \in Workers, AttestWrite(w)
        PROVE  Sealed(r)' /\ vault'[r].payload = vault[r].payload
    <3>1. vault'[r].attested /\ vault'[r].payload = vault[r].payload
          BY <2>0, <2>8 DEF AttestWrite, Row
    <3> QED BY <2>0, <2>1, <2>8, <3>1 DEF AttestWrite, Idle
  <2>9. ASSUME NEW w \in Workers, DeleteWrite(w)
        PROVE  Sealed(r)' /\ vault'[r].payload = vault[r].payload
    <3>1. vault'[r].attested /\ vault'[r].payload = vault[r].payload
          BY <2>0, <2>9 DEF DeleteWrite, Deleted, Row
    <3> QED BY <2>0, <2>1, <2>9, <3>1 DEF DeleteWrite, Idle
  <2>10. ASSUME NEW w \in Workers, Abandon(w)
        PROVE  Sealed(r)' /\ vault'[r].payload = vault[r].payload
        BY <2>0, <2>1, <2>10 DEF Abandon, Idle
  <2>11. CASE UNCHANGED vars
        BY <2>0, <2>11 DEF vars
  <2> QED BY <1>1, <2>2, <2>3, <2>4, <2>5, <2>6, <2>7, <2>8, <2>9, <2>10, <2>11 DEF Next
<1>2. VaultInv /\ [Next]_vars =>
        [\A r \in Records : Sealed(r) => /\ Sealed(r)'
                                         /\ vault'[r].payload = vault[r].payload]_vars
      BY <1>1
<1> QED BY <1>2, VaultInvariant, PTL DEF Spec, SealedForever
=============================================================================
