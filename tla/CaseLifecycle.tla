--------------------------- MODULE CaseLifecycle ---------------------------
(* The life of a row of core_hitl outside its verdict: it is opened once per  *)
(* cause, from an alert perhaps, moved from status to status and escalated;   *)
(* every step goes to ocx-core-svc, or without a client for it to the         *)
(* database, in a call of its own, which may fail, or be carried out though   *)
(* its answer is lost.                                                        *)
(* handlers/compliance/{case_lifecycle,escalation}.go                         *)
EXTENDS Integers, FiniteSets

CONSTANTS
  Openings,  \* calls of CreateCase; the id of a case is drawn by its call
  Causes,    \* tenant, agent, type and reason: what dedup_key is the hash of
  Alerts,
  NoOpening,
  NoCause,
  NoAlert,
  Moves,     \* calls of TransitionCase
  MaxMissed  \* bound on the calls of ocx-core-svc that fail

ASSUME LifecycleAssumption ==
  /\ IsFiniteSet(Moves) /\ MaxMissed \in Nat
  /\ NoOpening \notin Openings /\ NoCause \notin Causes /\ NoAlert \notin Alerts

VARIABLES
  rows,     \* row by the call that drew its id, not stored until its INSERT
  openings, \* progress of CreateCase
  marks,    \* hitl_decision_id of an alert
  events,   \* CASE_LIFECYCLE events: case, from, to
  timeline, \* STATUS_TRANSITION events
  moves,    \* progress of TransitionCase
  missed,
  floats    \* a number read from a row is a float64: what comes from ocx-core-svc is decoded from
            \* JSON, without a client for it the database's driver decides

lifecycleVars == <<rows, openings, marks, events, timeline, moves, missed, floats>>

Status == {"PENDING", "ESCALATED", "TIMEOUT"}
Event == Openings \X (Status \cup {""}) \X Status
CaseRow == [stored : BOOLEAN, cause : Causes \cup {NoCause}, status : Status, count : 0..Cardinality(Moves),
            silent : BOOLEAN]
Opening == [pc : {"idle", "insert", "event", "mark", "done"},
            alert : Alerts \cup {NoAlert}, failed : BOOLEAN]
Move == [pc : {"idle", "read", "write", "event", "done"}, case : Openings \cup {NoOpening},
         from : Status, to : Status, count : 0..Cardinality(Moves), wrote : BOOLEAN,
         failed : BOOLEAN, seen : SUBSET Moves]

LifecycleTypeOK ==
  /\ rows \in [Openings -> CaseRow]
  /\ openings \in [Openings -> Opening]
  /\ marks \in [Alerts -> Openings \cup {NoOpening}]
  /\ events \subseteq Event
  /\ timeline \subseteq Event
  /\ moves \in [Moves -> Move]
  /\ missed \in 0..MaxMissed
  /\ floats \in BOOLEAN

LifecycleInit ==
  /\ rows = [c \in Openings |-> [stored |-> FALSE, cause |-> NoCause, status |-> "PENDING", count |-> 0,
                                silent |-> FALSE]]
  /\ openings = [c \in Openings |-> [pc |-> "idle", alert |-> NoAlert, failed |-> FALSE]]
  /\ marks = [a \in Alerts |-> NoOpening]
  /\ events = {} /\ timeline = {}
  /\ moves = [m \in Moves |-> [pc |-> "idle", case |-> NoOpening, from |-> "PENDING", to |-> "PENDING",
                               count |-> 0, wrote |-> FALSE, failed |-> FALSE, seen |-> {}]]
  /\ missed = 0
  /\ floats \in BOOLEAN

Miss == missed < MaxMissed /\ missed' = missed + 1
-----------------------------------------------------------------------------
(* HandleCreateCase and CreateCase.                                           *)

HandleCreateCase(c, a, cause) ==
  /\ openings[c].pc = "idle"
  /\ rows' = [rows EXCEPT ![c].cause = cause]
  /\ openings' = [openings EXCEPT ![c] = [@ EXCEPT !.pc = "insert", !.alert = a]]
  /\ UNCHANGED <<marks, events, timeline, moves, missed, floats>>

\* dedup_key is unique, and never given back.
Taken(cause) == \E c \in Openings : rows[c].stored /\ rows[c].cause = cause

\* The INSERT: an error ends the call, even when the row was inserted and only
\* the answer of ocx-core-svc was lost.
InsertCase(c) ==
  LET end == [openings EXCEPT ![c] = [@ EXCEPT !.pc = "done", !.failed = TRUE]]
      stored == rows' = [rows EXCEPT ![c].stored = TRUE]
  IN /\ openings[c].pc = "insert"
     /\ \/ /\ ~Taken(rows[c].cause) /\ stored
           /\ openings' = [openings EXCEPT ![c].pc = "event"]
           /\ UNCHANGED missed
        \/ /\ Taken(rows[c].cause)
           /\ openings' = end
           /\ UNCHANGED <<rows, missed>>
        \/ /\ Miss
           /\ stored \/ UNCHANGED rows
           /\ ~Taken(rows[c].cause)
           /\ openings' = end
     /\ UNCHANGED <<marks, events, timeline, moves, floats>>

\* Two calls, the failure of each is only logged.
writeLifecycleEvent(event) ==
  \/ events' = events \cup {event} /\ timeline' = timeline \cup {event} /\ UNCHANGED missed
  \/ /\ Miss
     /\ events' \in {events, events \cup {event}}
     /\ timeline' \in {timeline, timeline \cup {event}}

EventOfOpening(c) ==
  /\ openings[c].pc = "event"
  /\ writeLifecycleEvent(<<c, "", "PENDING">>)
  /\ openings' = [openings EXCEPT ![c] = [@ EXCEPT !.pc = IF openings[c].alert = NoAlert THEN "done" ELSE "mark",
                                                   !.failed = missed' # missed]]
  /\ UNCHANGED <<rows, marks, moves, floats>>

markAlertEscalated(c) ==
  /\ openings[c].pc = "mark"
  /\ \/ /\ marks' = [marks EXCEPT ![openings[c].alert] = c]
        /\ openings' = [openings EXCEPT ![c].pc = "done"]
        /\ UNCHANGED missed
     \/ /\ Miss
        /\ marks' \in {marks, [marks EXCEPT ![openings[c].alert] = c]}
        /\ openings' = [openings EXCEPT ![c] = [@ EXCEPT !.pc = "done", !.failed = TRUE]]
  /\ UNCHANGED <<rows, events, timeline, moves, floats>>
-----------------------------------------------------------------------------
(* TransitionCase and HandleEscalateCase.                                     *)

Moving(m) == moves[m].pc \in {"read", "write"}

TransitionCase(m, c, to) ==
  /\ moves[m].pc = "idle"
  /\ moves' = [n \in Moves |->
                 IF n = m THEN [moves[m] EXCEPT !.pc = "read", !.case = c, !.to = to,
                                  !.seen = {k \in Moves : Moving(k) /\ moves[k].case = c}]
                 ELSE IF Moving(n) /\ moves[n].case = c THEN [moves[n] EXCEPT !.seen = @ \cup {m}]
                 ELSE moves[n]]
  /\ UNCHANGED <<rows, openings, marks, events, timeline, missed, floats>>

\* No such case, or a failed read, ends the call; a count that is not a float64
\* counts for none.
ReadCase(m) ==
  LET r == rows[moves[m].case]
      end == moves' = [moves EXCEPT ![m].pc = "done"]
  IN /\ moves[m].pc = "read"
     /\ \/ /\ r.stored
           /\ moves' = [moves EXCEPT ![m] = [@ EXCEPT !.pc = "write", !.from = r.status,
                                                   !.count = IF floats THEN r.count ELSE 0]]
           /\ UNCHANGED missed
        \/ ~r.stored /\ end /\ UNCHANGED missed
        \/ Miss /\ end
     /\ UNCHANGED <<rows, openings, marks, events, timeline, floats>>

\* The PATCH: whatever status the case has; the count is one more than was
\* read.  An error ends the call, and what was written stays without an event.
Moved(m) ==
  LET row == rows[moves[m].case]
      count == IF moves[m].to = "ESCALATED" THEN moves[m].count + 1 ELSE row.count
  IN [rows EXCEPT ![moves[m].case] = [row EXCEPT !.status = moves[m].to, !.count = count]]

WriteCase(m) ==
  /\ moves[m].pc = "write"
  /\ \/ /\ rows' = Moved(m)
        /\ moves' = [moves EXCEPT ![m] = [@ EXCEPT !.pc = "event", !.wrote = TRUE]]
        /\ UNCHANGED missed
     \/ /\ Miss
        /\ \/ /\ rows' = Moved(m)
              /\ moves' = [moves EXCEPT ![m] = [@ EXCEPT !.pc = "done", !.wrote = TRUE, !.failed = TRUE]]
           \/ UNCHANGED rows /\ moves' = [moves EXCEPT ![m] = [@ EXCEPT !.pc = "done", !.failed = TRUE]]
  /\ UNCHANGED <<openings, marks, events, timeline, floats>>

\* Mutant: the event names the statuses the other way round.
EventOfMove_Swapped(m) ==
  /\ moves[m].pc = "event"
  /\ writeLifecycleEvent(<<moves[m].case, moves[m].to, moves[m].from>>)
  /\ moves' = [moves EXCEPT ![m] = [@ EXCEPT !.pc = "done", !.failed = missed' # missed]]
  /\ UNCHANGED <<rows, openings, marks, floats>>

EventOfMove(m) ==
  /\ moves[m].pc = "event"
  /\ writeLifecycleEvent(<<moves[m].case, moves[m].from, moves[m].to>>)
  /\ moves' = [moves EXCEPT ![m] = [@ EXCEPT !.pc = "done", !.failed = missed' # missed]]
  /\ UNCHANGED <<rows, openings, marks, floats>>

\* In one transaction, under the lock of the row; refused when the case is
\* escalated.  Neither counted nor recorded as an event.
HandleEscalateCase(c) ==
  /\ rows[c].stored /\ rows[c].status # "ESCALATED"
  /\ rows' = [rows EXCEPT ![c] = [@ EXCEPT !.status = "ESCALATED", !.silent = TRUE]]
  /\ UNCHANGED <<openings, marks, events, timeline, moves, missed, floats>>
-----------------------------------------------------------------------------
OpeningsNext ==
  \E c \in Openings :
    \/ \E a \in Alerts \cup {NoAlert}, cause \in Causes : HandleCreateCase(c, a, cause)
    \/ InsertCase(c) \/ EventOfOpening(c) \/ markAlertEscalated(c) \/ HandleEscalateCase(c)

MovesNext ==
  \E m \in Moves :
    \/ \E c \in Openings, to \in Status \ {"PENDING"} : TransitionCase(m, c, to)
    \/ ReadCase(m) \/ WriteCase(m) \/ EventOfMove(m)

LifecycleNext == OpeningsNext \/ MovesNext
LifecycleSpec == LifecycleInit /\ [][LifecycleNext]_lifecycleVars
-----------------------------------------------------------------------------
(* An alert is marked only with a case that was opened for it, and is left    *)
(* unmarked by a call that ended only when a step of the call failed or its   *)
(* cause had a case already: then nothing ties the alert to that case.        *)
AlertsTiedToCases ==
  /\ \A a \in Alerts : marks[a] # NoOpening => rows[marks[a]].stored /\ openings[marks[a]].alert = a
  /\ \A c \in Openings :
       openings[c].pc = "done" /\ openings[c].alert # NoAlert /\ marks[openings[c].alert] = NoOpening
         => openings[c].failed

(* The events of a case form a chain in both streams: one that leaves a       *)
(* status follows one that enters it, unless HandleEscalateCase set the       *)
(* status, which records nothing, or the call that should have recorded it    *)
(* failed or is under way.                                                    *)
EventsChain ==
  \A stream \in {events, timeline} : \A e \in stream :
    \/ e[2] = ""
    \/ \E f \in stream : f[1] = e[1] /\ f[3] = e[2]
    \/ rows[e[1]].silent
    \/ openings[e[1]].pc # "done" \/ openings[e[1]].failed
    \/ \E m \in Moves : /\ moves[m].case = e[1] /\ moves[m].to = e[2] /\ moves[m].wrote
                        /\ moves[m].failed \/ moves[m].pc # "done"

(* Read as a float64, escalation_count falls behind the escalations written   *)
(* by TransitionCase only when two calls read and wrote the row across each   *)
(* other; read as anything else it stops at one whatever the calls did.       *)
EscalationsCounted ==
  \A c \in Openings :
    LET escalations == {m \in Moves : moves[m].case = c /\ moves[m].wrote /\ moves[m].to = "ESCALATED"}
    IN IF floats THEN rows[c].count < Cardinality(escalations) => \E m \in escalations : moves[m].seen # {}
       ELSE rows[c].count = IF escalations = {} THEN 0 ELSE 1

(* A case, its events, its alert and its count are written by calls of their  *)
(* own and differ only as the three above say.                                *)
LifecycleTraced == AlertsTiedToCases /\ EventsChain /\ EscalationsCounted
=============================================================================
