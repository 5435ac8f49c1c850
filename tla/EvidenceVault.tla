---------------------------- MODULE EvidenceVault ----------------------------
(***************************************************************************)
(* The rows of core_evidence_records and the routed handlers that write    *)
(* them: creation, correction, attestation and soft deletion, with the two *)
(* checks of integrity that read them.                                     *)
(*                                                                         *)
(* No handler uses a transaction: each reads the vault and then writes it, *)
(* and other requests come between.  A Worker is one request in flight.    *)
(*                                                                         *)
(* SHA-256 is injective here.  PayloadHash(c) stands for the hash of a     *)
(* payload; RecordHash(r) for the hash of record r as it was created (its  *)
(* generated id is part of what is hashed, so no two of them are equal),   *)
(* together with the previous hash.                                        *)
(***************************************************************************)
EXTENDS Naturals

CONSTANTS Records,      \* ids generated for records
          Workers,      \* concurrent requests
          Payloads,     \* what a client submits
          Attestations, \* attestation_status a client may give
          Faults        \* whether a call of the database may fail

ASSUME VaultFaultsBoolean == Faults \in BOOLEAN
ASSUME SomePayload == Payloads # {}
ASSUME AttestationsKnown == Attestations \subseteq {"APPROVED", "REJECTED", "PENDING"}

VARIABLES vault,      \* core_evidence_records, by id
          req,        \* requests in flight, by worker
          clock       \* rows created so far: numbers them in row.born

vars == <<vault, req, clock>>

NoHash == <<"none">>
PayloadHash(c) == <<"payload", c>>
RecordHash(r) == <<"record", r>>
Hashes == {NoHash} \cup {PayloadHash(c) : c \in Payloads}
                   \cup {RecordHash(r) : r \in Records}

\* payload0 is the payload the row was created with, kept for the properties only.
Row == [there : BOOLEAN, payload : Payloads, payload0 : Payloads,
        hash : Hashes, previous_hash : Hashes,
        attested : BOOLEAN, tampered : BOOLEAN,
        verification_status : Attestations \cup {"", "DELETED"}, born : Nat]

NewRow(c, hash, prev, n) ==
    [there |-> TRUE, payload |-> c, payload0 |-> c, hash |-> hash,
     previous_hash |-> prev, attested |-> FALSE, tampered |-> FALSE,
     verification_status |-> "", born |-> n]

\* verifyEvidenceHash, on which GET and the list rely.
IntegrityOK(row) == row.hash = NoHash \/ row.hash = PayloadHash(row.payload)

There == {r \in Records : vault[r].there}

(***************************************************************************)
(* Requests                                                                *)
(***************************************************************************)
Idle == [op |-> "idle"]
CreateReq == [op : {"create"}, rec : Records, payload : Payloads, prev : Hashes]
UpdateReq == [op : {"update"}, rec : Records, payload : Payloads]
AttestReq == [op : {"attest"}, rec : Records, status : Attestations]
DeleteReq == [op : {"delete"}, rec : Records]

TypeOK == /\ vault \in [Records -> Row]
          /\ req \in [Workers -> {Idle} \cup CreateReq \cup UpdateReq
                                        \cup AttestReq \cup DeleteReq]
          /\ clock \in Nat

\* Rows of other services may be there: older than the chain, with no hash,
\* or with the hash of their payload.
Absent == [NewRow(CHOOSE c \in Payloads : TRUE, NoHash, NoHash, 0) EXCEPT !.there = FALSE]
Earlier == {NewRow(c, NoHash, NoHash, 0) : c \in Payloads}
             \cup {NewRow(c, PayloadHash(c), NoHash, 0) : c \in Payloads}

Init == /\ clock = 1
        /\ req = [w \in Workers |-> Idle]
        /\ vault \in [Records -> {Absent} \cup Earlier]

Take(w, request) == req[w] = Idle /\ req' = [req EXCEPT ![w] = request]
Finish(w) == req' = [req EXCEPT ![w] = Idle]

\* The hash of the first row of an unordered result; blank when there is none,
\* or when the query failed, which is only logged.
FirstHashRead == IF There = {} THEN {NoHash}
                 ELSE {vault[q].hash : q \in There} \cup (IF Faults THEN {NoHash} ELSE {})

\* The id is generated: no row and no request has it.
CreateRead(w, r, c) ==
    /\ ~vault[r].there
    /\ \A v \in Workers : req[v].op = "create" => req[v].rec # r
    /\ \E h \in FirstHashRead :
         Take(w, [op |-> "create", rec |-> r, payload |-> c, prev |-> h])
    /\ UNCHANGED <<vault, clock>>

CreateInsert(w) ==
    /\ req[w].op = "create"
    /\ vault' = [vault EXCEPT ![req[w].rec] =
                   NewRow(req[w].payload, RecordHash(req[w].rec), req[w].prev, clock)]
    /\ clock' = clock + 1
    /\ Finish(w)

\* Mutant: the attestation is looked up in a column that was not selected.
MayUpdate_Unselected(r) == vault[r].there
MayUpdate(r) == vault[r].there /\ ~vault[r].attested

UpdateRead(w, r, c) ==
    /\ MayUpdate(r)
    /\ Take(w, [op |-> "update", rec |-> r, payload |-> c])
    /\ UNCHANGED <<vault, clock>>

\* Mutant: the correction brings the stored hash up to date.
Corrected_Rehash(row, c) == [row EXCEPT !.payload = c, !.hash = PayloadHash(c)]
Corrected(row, c) == [row EXCEPT !.payload = c]

UpdateWrite(w) ==
    /\ req[w].op = "update"
    /\ vault' = [vault EXCEPT ![req[w].rec] = Corrected(@, req[w].payload)]
    /\ Finish(w)
    /\ UNCHANGED clock

AttestRead(w, r, s) ==
    /\ vault[r].there
    /\ Take(w, [op |-> "attest", rec |-> r, status |-> s])
    /\ UNCHANGED <<vault, clock>>

AttestWrite(w) ==
    /\ req[w].op = "attest"
    /\ vault' = [vault EXCEPT ![req[w].rec] = [@ EXCEPT !.attested = TRUE,
                                                        !.verification_status = req[w].status]]
    /\ Finish(w)
    /\ UNCHANGED clock

\* The query names three columns, attested is not among them: the row it fills
\* has attested = FALSE, and the check that follows never refuses.
DeleteRead(w, r) ==
    /\ vault[r].there
    /\ Take(w, [op |-> "delete", rec |-> r])
    /\ UNCHANGED <<vault, clock>>

\* Mutant: a status that readers do not know.
Deleted_Unknown(row) == [row EXCEPT !.verification_status = "REMOVED"]
\* Mutant: the deletion clears the columns of the chain.
Deleted_Cleared(row) == [row EXCEPT !.verification_status = "DELETED", !.hash = NoHash]
Deleted(row) == [row EXCEPT !.verification_status = "DELETED"]

DeleteWrite(w) ==
    /\ req[w].op = "delete"
    /\ vault' = [vault EXCEPT ![req[w].rec] = Deleted(@)]
    /\ Finish(w)
    /\ UNCHANGED clock

\* The write fails, or the process ends.
Abandon(w) == Faults /\ req[w] # Idle /\ Finish(w) /\ UNCHANGED <<vault, clock>>

Next == \E w \in Workers :
          \/ \E r \in Records : \/ \E c \in Payloads : CreateRead(w, r, c) \/ UpdateRead(w, r, c)
                                \/ \E s \in Attestations : AttestRead(w, r, s)
                                \/ DeleteRead(w, r)
          \/ CreateInsert(w) \/ UpdateWrite(w) \/ AttestWrite(w) \/ DeleteWrite(w)
          \/ Abandon(w)

Spec == Init /\ [][Next]_vars

(***************************************************************************)
(* Properties                                                              *)
(***************************************************************************)
\* "Soft-delete preserves hash chain": the previous hash of a record, read
\* without a lock before its insertion, is blank or still the hash of a record
\* that was there before it, whatever was corrected or deleted since.
LinkedBackwards ==
    \A r \in There : \/ vault[r].previous_hash = NoHash
                     \/ \E q \in There : /\ vault[q].hash = vault[r].previous_hash
                                         /\ vault[q].born < vault[r].born

\* A record that has a hash and whose payload is no longer the one it was
\* created with never passes the check made on every read.
ChangedIsFlagged ==
    \A r \in There : vault[r].hash # NoHash /\ vault[r].payload # vault[r].payload0
                       => ~IntegrityOK(vault[r])

\* Attested, and no correction that was let through earlier is left.
Sealed(r) == /\ vault[r].attested
             /\ \A w \in Workers : ~(req[w].op = "update" /\ req[w].rec = r)

\* A sealed record is sealed for ever: its payload stands, although the check
\* of the attestation and the write are not one transaction, and the record
\* may still be attested again or deleted.
SealedForever == [][\A r \in Records : Sealed(r) => /\ Sealed(r)'
                                                    /\ vault'[r].payload = vault[r].payload]_vars
=============================================================================
