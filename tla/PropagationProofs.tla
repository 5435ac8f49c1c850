-------------------------- MODULE PropagationProofs --------------------------
(***************************************************************************)
(* Theorems about Propagation, for any tenants, agents, messages and       *)
(* workers, and with or without failures.                                  *)
(***************************************************************************)
EXTENDS Propagation, TLAPS

WorkerMsg == [step : Steps, msg : Messages]

(***************************************************************************)
(* What the records say                                                    *)
(***************************************************************************)
LEMMA Shapes ==
    ASSUME TypeOK, NEW w \in Workers, run[w].step # "idle"
    PROVE  /\ run[w] \in WorkerMsg /\ run[w].msg \in Messages
           /\ run[w] # Idle
           /\ \A s \in Steps : [run[w] EXCEPT !.step = s] = [step |-> s, msg |-> run[w].msg]
BY DEF TypeOK, WorkerMsg, Idle, Steps

\* A message is about a tenant or about an agent, by its kind.
LEMMA Subjects ==
    ASSUME NEW m \in Messages
    PROVE  /\ Event[m].kind \in {"provisioned", "deleted", "registered"}
           /\ Event[m].kind = "registered" =>
                 /\ Event[m].agent \in Agents
                 /\ Event[m] = [kind |-> "registered", agent |-> Event[m].agent]
           /\ Event[m].kind # "registered" =>
                 /\ Event[m].tenant \in Tenants
                 /\ Event[m] = [kind |-> Event[m].kind, tenant |-> Event[m].tenant]
<1>1. Event[m] \in Events
  BY EventOfMessages
<1> QED
  BY <1>1 DEF Events

\* An update writes the new value or nothing, and creates no row.
LEMMA UpdatedIs ==
    ASSUME NEW old, NEW new, NEW now \in Updated(old, new)
    PROVE  now \in {old, new} /\ (old = "none" => now = "none")
BY DEF Updated

\* A tombstone writes AUDIT over the baseline of its tenant, or fails.
LEMMA TombstoneEffect ==
    ASSUME NEW w, TombstoneBaseline(w)
    PROVE  \E t, mode : /\ t = Event[run[w].msg].tenant
                        /\ mode \in {baseline[t], "AUDIT"}
                        /\ baseline[t] = "none" => mode = "none"
                        /\ baseline' = [baseline EXCEPT ![t] = mode]
<1> DEFINE t == Event[run[w].msg].tenant
<1>1. PICK mode \in Updated(baseline[t], TombstoneMode) : baseline' = [baseline EXCEPT ![t] = mode]
  BY DEF TombstoneBaseline
<1>2. mode \in {baseline[t], "AUDIT"} /\ (baseline[t] = "none" => mode = "none")
  BY UpdatedIs DEF TombstoneMode
<1> HIDE DEF t
<1>3. t = Event[run[w].msg].tenant
  BY DEF t
<1> QED
  BY <1>1, <1>2, <1>3

\* The cases of a tenant are closed, or stay as they are.
LEMMA CloseEffect ==
    ASSUME NEW w, CloseCases(w)
    PROVE  \E t, status : /\ status \in {cases[t], "CLOSED"}
                          /\ cases' = [cases EXCEPT ![t] = status]
<1> DEFINE t == Event[run[w].msg].tenant
<1>1. PICK status \in Updated(cases[t], "CLOSED") : cases' = [cases EXCEPT ![t] = status]
  BY DEF CloseCases
<1>2. status \in {cases[t], "CLOSED"}
  BY UpdatedIs
<1> HIDE DEF t
<1> QED
  BY <1>1, <1>2

(***************************************************************************)
(* Types                                                                   *)
(***************************************************************************)
LEMMA TypeInit == Init => TypeOK
BY DEF Init, TypeOK, Idle

\* A worker goes to a step, or stops: the other conjuncts apart.
LEMMA GotoKeepsType ==
    ASSUME TypeOK, NEW w \in Workers, run[w].step # "idle",
           Stop(w) \/ \E s \in Steps : Goto(w, s)
    PROVE  run' \in [Workers -> {Idle} \cup WorkerMsg]
<1>1. run[w] \in WorkerMsg
  BY Shapes
<1>2. CASE Stop(w)
  BY <1>2 DEF Stop, TypeOK, WorkerMsg
<1>3. ASSUME NEW s \in Steps, Goto(w, s)
      PROVE  run' \in [Workers -> {Idle} \cup WorkerMsg]
  <2>1. [run[w] EXCEPT !.step = s] \in WorkerMsg
    BY <1>1 DEF WorkerMsg
  <2> QED
    BY <2>1, <1>3 DEF Goto, TypeOK, WorkerMsg
<1> QED
  BY <1>2, <1>3

\* Every step keeps the types.
LEMMA TypeStep == TypeOK /\ [Next]_vars => TypeOK'
<1> SUFFICES ASSUME TypeOK, [Next]_vars PROVE TypeOK'
  OBVIOUS
<1> USE DEF outside, rows, WorkerMsg
<1>1. ASSUME NEW t \in Tenants, Provision(t) \/ Delete(t) \/ OpenCase(t)
      PROVE  TypeOK'
  BY <1>1 DEF Provision, Delete, OpenCase, MessagesOf, TypeOK
<1>2. ASSUME NEW a \in Agents, Register(a)
      PROVE  TypeOK'
  BY <1>2 DEF Register, MessagesOf, TypeOK
<1>3. ASSUME NEW w \in Workers, NEW m \in Messages, Deliver(w, m)
      PROVE  TypeOK'
  BY <1>3 DEF Deliver, Steps, TypeOK
<1>4. ASSUME NEW w \in Workers, Handle(w) \/ Crash(w)
      PROVE  TypeOK'
  <2>1. run[w].step # "idle"
    BY <1>4 DEF Handle, Crash, Check, SeedBaseline, SeedVault, SeedFails, TombstoneBaseline,
                CloseCases, RetireVaults, Mark, Ack, Handles, At, TypeOK, Idle, Steps
  <2>2. run[w] \in WorkerMsg /\ run[w].msg \in Messages
    BY <2>1, Shapes
  <2>3. Stop(w) \/ \E s \in Steps : Goto(w, s)
    BY <1>4 DEF Handle, Crash, Check, SeedBaseline, SeedVault, SeedFails, TombstoneBaseline,
                CloseCases, RetireVaults, Mark, Ack, Steps
  <2>4. run' \in [Workers -> {Idle} \cup WorkerMsg]
    BY <2>1, <2>3, GotoKeepsType
  <2>5. CASE SeedBaseline(w) \/ SeedVault(w)
    BY <2>2, <2>4, <2>5, Subjects DEF SeedBaseline, SeedVault, Handles, TypeOK
  <2>6. CASE TombstoneBaseline(w)
    <3>1. baseline' \in [Tenants -> {"none", "OBSERVE", "AUDIT"}]
      BY <2>6, TombstoneEffect DEF TypeOK
    <3> QED
      BY <2>4, <2>6, <3>1 DEF TombstoneBaseline, TypeOK
  <2>7. CASE CloseCases(w)
    <3>1. cases' \in [Tenants -> {"none", "OPEN", "CLOSED"}]
      BY <2>7, CloseEffect DEF TypeOK
    <3> QED
      BY <2>4, <2>7, <3>1 DEF CloseCases, TypeOK
  <2>8. CASE RetireVaults(w)
    BY <2>2, <2>4, <2>8 DEF RetireVaults, TypeOK
  <2>9. CASE Check(w) \/ SeedFails(w) \/ Mark(w) \/ Ack(w) \/ Crash(w)
    BY <2>2, <2>4, <2>9 DEF Check, SeedFails, Mark, Ack, Crash, TypeOK
  <2> QED
    BY <1>4, <2>5, <2>6, <2>7, <2>8, <2>9 DEF Handle
<1>5. CASE UNCHANGED vars
  BY <1>5 DEF vars, TypeOK
<1> QED
  BY <1>1, <1>2, <1>3, <1>4, <1>5 DEF Next

\* The rows of tenants and agents, the work in flight and the log keep the
\* values the schema and the handlers have for them.
THEOREM PropagationTypeCorrect == Spec => []TypeOK
BY TypeInit, TypeStep, PTL DEF Spec

(***************************************************************************)
(* What is handled was seeded                                              *)
(***************************************************************************)
\* Whatever is under way, waiting or marked was sent.
SentFirst == /\ \A m \in log \cup unacked : Sent(m)
             /\ \A w \in Workers : run[w] # Idle => Sent(run[w].msg)

\* Past the writes of its handler, a message has its row.
WrittenThenMarked == \A w \in Workers : run[w].step \in {"mark", "ack"} => Seeded(run[w].msg)

\* The second and third update belong to a deletion.
DeletionsOnly == \A w \in Workers : run[w].step \in {"cases", "vaults"}
                                       => Event[run[w].msg].kind = "deleted"

HandlingInv == TypeOK /\ SentFirst /\ WrittenThenMarked /\ DeletionsOnly /\ HandledWasSeeded

\* At first nothing is sent, under way, marked or acknowledged.
LEMMA HandlingInit == Init => HandlingInv
<1> SUFFICES ASSUME Init PROVE HandlingInv
  OBVIOUS
<1>1. TypeOK
  BY TypeInit
<1>2. \A w \in Workers : run[w] = Idle /\ run[w].step = "idle"
  BY DEF Init, Idle
<1>3. SentFirst /\ WrittenThenMarked /\ DeletionsOnly
  BY <1>2 DEF Init, SentFirst, WrittenThenMarked, DeletionsOnly
<1>4. ASSUME NEW m \in Messages
      PROVE  ~Sent(m)
  <2>1. known = {} /\ \A t \in Tenants : source[t] = "none"
    BY DEF Init
  <2>2. CASE Event[m].kind = "registered"
    BY <2>1, <2>2 DEF Sent
  <2>3. CASE Event[m].kind # "registered"
    <3>1. source[Event[m].tenant] = "none"
      BY <2>1, <2>3, Subjects
    <3> QED
      BY <2>3, <3>1 DEF Sent
  <2> QED
    BY <2>2, <2>3
<1> QED
  BY <1>1, <1>3, <1>4 DEF HandlingInv, HandledWasSeeded

\* What was sent stays sent: tenants are deleted and never come back.
LEMMA SentStays ==
    ASSUME TypeOK, [Next]_vars, NEW m \in Messages, Sent(m)
    PROVE  Sent(m)'
<1>1. \/ \E t \in Tenants : Provision(t) \/ Delete(t)
      \/ \E a \in Agents : Register(a)
      \/ UNCHANGED outside
  BY DEF Next, vars, Handle, OpenCase, Deliver, Check, SeedBaseline, SeedVault, SeedFails,
         TombstoneBaseline, CloseCases, RetireVaults, Mark, Ack, Crash, outside
<1>2. ASSUME NEW t \in Tenants, Provision(t) \/ Delete(t)
      PROVE  Sent(m)'
  BY <1>2, Subjects DEF Provision, Delete, Sent, TypeOK
<1>3. ASSUME NEW a \in Agents, Register(a)
      PROVE  Sent(m)'
  BY <1>3 DEF Register, Sent
<1>4. CASE UNCHANGED outside
  BY <1>4 DEF outside, Sent
<1> QED
  BY <1>1, <1>2, <1>3, <1>4

\* A row that is there stays there.
LEMMA RowsStay ==
    ASSUME TypeOK, [Next]_vars
    PROVE  /\ \A t \in Tenants : baseline[t] # "none" => baseline'[t] # "none"
           /\ \A a \in Agents : vault[a] # "none" => vault'[a] # "none"
<1> USE DEF outside, rows
<1>1. CASE \E w \in Workers : SeedBaseline(w)
  BY <1>1 DEF SeedBaseline, TypeOK
<1>2. CASE \E w \in Workers : SeedVault(w)
  BY <1>2 DEF SeedVault, TypeOK
<1>3. ASSUME NEW w \in Workers, TombstoneBaseline(w)
      PROVE  /\ \A t \in Tenants : baseline[t] # "none" => baseline'[t] # "none"
             /\ UNCHANGED vault
  <2>1. UNCHANGED vault
    BY <1>3 DEF TombstoneBaseline
  <2>2. PICK u, mode : /\ mode \in {baseline[u], "AUDIT"}
                       /\ baseline' = [baseline EXCEPT ![u] = mode]
    BY <1>3, TombstoneEffect
  <2> QED
    BY <2>1, <2>2 DEF TypeOK
<1>4. CASE \E w \in Workers : RetireVaults(w)
  BY <1>4 DEF RetireVaults, TypeOK
<1>5. CASE UNCHANGED <<baseline, vault>>
  BY <1>5
<1>6. \/ \E w \in Workers : SeedBaseline(w) \/ SeedVault(w) \/ TombstoneBaseline(w)
                              \/ RetireVaults(w)
      \/ UNCHANGED <<baseline, vault>>
  BY DEF Next, vars, Handle, Provision, Delete, OpenCase, Register, Deliver, Check, SeedFails,
         CloseCases, Mark, Ack, Crash
<1> QED
  BY <1>1, <1>2, <1>3, <1>4, <1>5, <1>6

\* A row that a message seeded is never removed.
LEMMA SeededStays ==
    ASSUME TypeOK, [Next]_vars, NEW m \in Messages, Seeded(m)
    PROVE  Seeded(m)'
<1>1. CASE Event[m].kind = "provisioned"
  BY <1>1, Subjects, RowsStay DEF Seeded
<1>2. CASE Event[m].kind = "registered"
  BY <1>2, Subjects, RowsStay DEF Seeded
<1>3. CASE Event[m].kind = "deleted"
  BY <1>3 DEF Seeded
<1> QED
  BY <1>1, <1>2, <1>3, Subjects

\* What the step of a handler does to the messages.
LEMMA HandlerEffect ==
    ASSUME TypeOK, NEW w \in Workers, Handle(w) \/ Crash(w)
    PROVE  /\ run[w].step # "idle"
           /\ \A v \in Workers : v # w => run'[v] = run[v]
           /\ run'[w] = Idle \/ \E s \in Steps : run'[w] = [step |-> s, msg |-> run[w].msg]
           /\ unacked' = unacked \/ (At(w, "ack") /\ unacked' = unacked \ {run[w].msg})
           /\ log' = log \/ (At(w, "mark") /\ log' = log \cup {run[w].msg})
           /\ UNCHANGED outside
<1> USE DEF outside, rows
<1>1. run[w].step # "idle"
  BY DEF Handle, Crash, Check, SeedBaseline, SeedVault, SeedFails, TombstoneBaseline,
         CloseCases, RetireVaults, Mark, Ack, Handles, At, TypeOK, Idle, Steps
<1>2. Stop(w) \/ \E s \in Steps : Goto(w, s)
  BY DEF Handle, Crash, Check, SeedBaseline, SeedVault, SeedFails, TombstoneBaseline,
         CloseCases, RetireVaults, Mark, Ack, Steps
<1>3. /\ \A v \in Workers : v # w => run'[v] = run[v]
      /\ run'[w] = Idle \/ \E s \in Steps : run'[w] = [step |-> s, msg |-> run[w].msg]
  <2>1. CASE Stop(w)
    BY <2>1 DEF Stop, TypeOK
  <2>2. ASSUME NEW s \in Steps, Goto(w, s)
        PROVE  /\ \A v \in Workers : v # w => run'[v] = run[v]
               /\ run'[w] = [step |-> s, msg |-> run[w].msg]
    <3>1. [run[w] EXCEPT !.step = s] = [step |-> s, msg |-> run[w].msg]
      BY <1>1, Shapes
    <3> QED
      BY <2>2, <3>1 DEF Goto, TypeOK
  <2> QED
    BY <1>2, <2>1, <2>2
<1>4. /\ unacked' = unacked \/ (At(w, "ack") /\ unacked' = unacked \ {run[w].msg})
      /\ log' = log \/ (At(w, "mark") /\ log' = log \cup {run[w].msg})
      /\ UNCHANGED outside
  BY DEF Handle, Crash, Check, SeedBaseline, SeedVault, SeedFails, TombstoneBaseline,
         CloseCases, RetireVaults, Mark, Ack
<1> QED
  BY <1>1, <1>3, <1>4

\* A worker keeps its message until it has done with it.
LEMMA SameMessage ==
    ASSUME TypeOK, NEW w \in Workers, Handle(w) \/ Crash(w), NEW v \in Workers, run'[v] # Idle
    PROVE  run[v] # Idle /\ run'[v].msg = run[v].msg
<1>1. CASE v = w
  <2>1. run[v] # Idle
    BY <1>1, HandlerEffect, Shapes
  <2>2. PICK s \in Steps : run'[v] = [step |-> s, msg |-> run[v].msg]
    BY <1>1, HandlerEffect
  <2> QED
    BY <2>1, <2>2
<1>2. CASE v # w
  BY <1>2, HandlerEffect
<1> QED
  BY <1>1, <1>2

\* Only what was sent is taken up, marked or acknowledged.
LEMMA SentFirstStep ==
    ASSUME TypeOK, SentFirst, [Next]_vars
    PROVE  SentFirst'
<1> USE DEF outside, rows
<1>1. \A m \in log \cup unacked : m \in Messages /\ Sent(m)'
  BY SentStays DEF SentFirst, TypeOK
<1>2. ASSUME NEW w \in Workers, run[w] # Idle, NEW m, m = run[w].msg
      PROVE  Sent(m)'
  <2>1. m \in Messages
    BY <1>2 DEF TypeOK
  <2>2. Sent(m)
    BY <1>2 DEF SentFirst
  <2> QED
    BY <2>1, <2>2, SentStays
<1>3. ASSUME NEW t \in Tenants, Provision(t) \/ Delete(t)
      PROVE  SentFirst'
  <2>1. \A m \in unacked' \ unacked : Sent(m)'
    BY <1>3 DEF Provision, Delete, MessagesOf, Sent, TypeOK
  <2>2. log' = log /\ run' = run
    BY <1>3 DEF Provision, Delete
  <2> QED
    BY <1>1, <1>2, <2>1, <2>2 DEF SentFirst, Sent
<1>4. ASSUME NEW a \in Agents, Register(a)
      PROVE  SentFirst'
  <2>1. \A m \in unacked' \ unacked : Sent(m)'
    BY <1>4 DEF Register, MessagesOf, Sent
  <2>2. log' = log /\ run' = run
    BY <1>4 DEF Register
  <2> QED
    BY <1>1, <1>2, <2>1, <2>2 DEF SentFirst, Sent
<1>5. ASSUME NEW w \in Workers, NEW m \in Messages, Deliver(w, m)
      PROVE  SentFirst'
  BY <1>1, <1>2, <1>5 DEF Deliver, SentFirst, Sent, TypeOK
<1>6. ASSUME NEW w \in Workers, Handle(w) \/ Crash(w)
      PROVE  SentFirst'
  <2>1. PICK m \in Messages : run[w] # Idle /\ m = run[w].msg
    BY <1>6, HandlerEffect, Shapes
  <2>2. Sent(m)'
    BY <1>2, <2>1
  <2>3. log' \cup unacked' \subseteq log \cup unacked \cup {m}
    BY <1>6, <2>1, HandlerEffect
  <2>4. \A n \in log' \cup unacked' : Sent(n)'
    BY <1>1, <2>2, <2>3
  <2>5. ASSUME NEW v \in Workers, run'[v] # Idle
        PROVE  run[v] # Idle /\ run'[v].msg = run[v].msg
    BY <1>6, <2>5, SameMessage
  <2>6. ASSUME NEW v \in Workers, run'[v] # Idle, NEW n, n = run'[v].msg
        PROVE  Sent(n)'
    BY <1>2, <2>5, <2>6
  <2> QED
    BY <2>4, <2>6 DEF SentFirst
<1>7. CASE UNCHANGED <<outside, unacked, run, log>>
  BY <1>7 DEF SentFirst, Sent
<1> QED
  BY <1>3, <1>4, <1>5, <1>6, <1>7 DEF Next, vars, OpenCase

\* The later updates are those of a deletion.
LEMMA DeletionsOnlyStep ==
    ASSUME TypeOK, DeletionsOnly, [Next]_vars
    PROVE  DeletionsOnly'
<1> USE DEF DeletionsOnly
<1>1. CASE run' = run
  BY <1>1
<1>2. ASSUME NEW w \in Workers, NEW m \in Messages, Deliver(w, m)
      PROVE  DeletionsOnly'
  BY <1>2 DEF Deliver, TypeOK
<1>3. ASSUME NEW w \in Workers, Handle(w) \/ Crash(w)
      PROVE  DeletionsOnly'
  <2>1. \A v \in Workers : v # w => run'[v] = run[v]
    BY <1>3, HandlerEffect
  <2>2. run'[w] # Idle => run'[w].msg = run[w].msg
    BY <1>3, SameMessage
  <2>3. ASSUME run'[w].step \in {"cases", "vaults"}
        PROVE  Event[run[w].msg].kind = "deleted"
    <3>1. TombstoneBaseline(w) \/ CloseCases(w)
      BY <1>3, <2>3 DEF Handle, Crash, Check, SeedBaseline, SeedVault, SeedFails, RetireVaults,
                        Mark, Ack, Goto, Stop, Idle, TypeOK
    <3> QED
      BY <3>1 DEF TombstoneBaseline, CloseCases, Handles, At
  <2>4. run'[w].step \in {"cases", "vaults"} => run'[w].msg = run[w].msg
    BY <2>2 DEF Idle
  <2> QED
    BY <2>1, <2>3, <2>4
<1> QED
  BY <1>1, <1>2, <1>3 DEF Next, vars, Provision, Delete, OpenCase, Register

\* A handler goes on to its mark only after its write.
LEMMA WrittenThenMarkedStep ==
    ASSUME HandlingInv, [Next]_vars
    PROVE  WrittenThenMarked'
<1> USE DEF HandlingInv
<1>1. ASSUME NEW v \in Workers, run[v].step \in {"mark", "ack"}, NEW m, m = run[v].msg
      PROVE  m \in Messages /\ Seeded(m) /\ Seeded(m)'
  BY <1>1, Shapes, SeededStays DEF WrittenThenMarked
<1>2. CASE run' = run
  BY <1>1, <1>2 DEF WrittenThenMarked
<1>3. ASSUME NEW w \in Workers, \A v \in Workers : v # w => run'[v] = run[v],
             \A m : run'[w].step \in {"mark", "ack"} /\ m = run'[w].msg => Seeded(m)'
      PROVE  WrittenThenMarked'
  <2>1. ASSUME NEW v \in Workers, run'[v].step \in {"mark", "ack"}, NEW m, m = run'[v].msg
        PROVE  Seeded(m)'
    <3>1. CASE v = w
      BY <1>3, <2>1, <3>1
    <3>2. CASE v # w
      <4>1. run'[v] = run[v]
        BY <1>3, <3>2
      <4> QED
        BY <1>1, <2>1, <4>1
    <3> QED
      BY <3>1, <3>2
  <2> QED
    BY <2>1 DEF WrittenThenMarked
<1>4. ASSUME NEW w \in Workers, NEW m \in Messages, Deliver(w, m)
      PROVE  WrittenThenMarked'
  BY <1>3, <1>4 DEF Deliver, TypeOK
<1>5. ASSUME NEW w \in Workers, Handle(w) \/ Crash(w)
      PROVE  WrittenThenMarked'
  <2>1. PICK m \in Messages : m = run[w].msg
    BY <1>5, HandlerEffect, Shapes
  <2>2. run'[w].step \in {"mark", "ack"} => run'[w].msg = m
    BY <1>5, <2>1, SameMessage DEF Idle
  <2>3. ASSUME run'[w].step \in {"mark", "ack"} => Seeded(m)'
        PROVE  WrittenThenMarked'
    BY <1>3, <1>5, <2>2, <2>3, HandlerEffect
  <2>4. CASE Check(w)
    <3>1. ASSUME m \in log
          PROVE  Seeded(m)
      BY <3>1 DEF SentFirst, HandledWasSeeded
    <3>2. run'[w].step \in {"mark", "ack"} => m \in log
      <4>1. CASE m \in log
        BY <4>1
      <4>2. CASE m \notin log
        <5>1. Goto(w, "apply") /\ run[w] \in WorkerMsg
          BY <1>5, <2>1, <2>4, <4>2, HandlerEffect, Shapes DEF Check
        <5> QED
          BY <5>1 DEF Goto, TypeOK, WorkerMsg
      <4> QED
        BY <4>1, <4>2
    <3> QED
      BY <2>3, <3>1, <3>2, SeededStays
  <2>5. CASE SeedBaseline(w)
    <3>1. Event[m].kind = "provisioned" /\ baseline'[Event[m].tenant] = "OBSERVE"
      BY <2>1, <2>5, Subjects DEF SeedBaseline, Handles, TypeOK
    <3>2. Seeded(m)'
      BY <3>1 DEF Seeded
    <3> QED
      BY <2>3, <3>2
  <2>6. CASE SeedVault(w)
    <3>1. Event[m].kind = "registered" /\ vault'[Event[m].agent] = "ACTIVE"
      <4>1. Event[m].kind = "registered" /\ Event[m].agent \in Agents
        BY <2>1, <2>6, Subjects DEF SeedVault, Handles
      <4>2. vault' = [vault EXCEPT ![Event[m].agent] = "ACTIVE"]
        BY <2>1, <2>6 DEF SeedVault
      <4> QED
        BY <4>1, <4>2 DEF TypeOK
    <3>2. Seeded(m)'
      BY <3>1 DEF Seeded
    <3> QED
      BY <2>3, <3>2
  <2>7. CASE RetireVaults(w)
    <3>1. Event[m].kind = "deleted"
      BY <2>1, <2>7 DEF RetireVaults, At, DeletionsOnly
    <3>2. Seeded(m)'
      BY <3>1 DEF Seeded
    <3> QED
      BY <2>3, <3>2
  <2>8. CASE Mark(w)
    BY <1>1, <2>1, <2>3, <2>8 DEF Mark, At
  <2>9. CASE SeedFails(w) \/ TombstoneBaseline(w) \/ CloseCases(w) \/ Ack(w) \/ Crash(w)
    <3>1. CASE Stop(w)
      <4>1. run'[w].step = "idle"
        BY <3>1 DEF Stop, Idle, TypeOK
      <4> QED
        BY <2>3, <4>1
    <3>2. CASE TombstoneBaseline(w) \/ CloseCases(w)
      <4>1. run[w].step \in {"apply", "cases"}
        BY <3>2 DEF TombstoneBaseline, CloseCases, Handles, At
      <4>2. run[w] \in WorkerMsg
        BY <4>1, Shapes
      <4>3. run'[w].step \in {"cases", "vaults"}
        BY <3>2, <4>2 DEF TombstoneBaseline, CloseCases, Goto, TypeOK, WorkerMsg
      <4> QED
        BY <2>3, <4>3
    <3> QED
      BY <2>9, <3>1, <3>2 DEF SeedFails, Ack, Crash
  <2> QED
    BY <1>5, <2>4, <2>5, <2>6, <2>7, <2>8, <2>9 DEF Handle
<1> QED
  BY <1>2, <1>4, <1>5 DEF Next, vars, Provision, Delete, OpenCase, Register

\* So a mark and an acknowledgement find the row there.
LEMMA HandledStep ==
    ASSUME HandlingInv, [Next]_vars
    PROVE  HandledWasSeeded'
<1> USE DEF HandlingInv
<1> SUFFICES ASSUME NEW m \in Messages, Sent(m)', (m \in log \/ m \notin unacked)'
             PROVE  Seeded(m)'
  BY DEF HandledWasSeeded
<1>1. CASE Sent(m) /\ (m \in log \/ m \notin unacked)
  BY <1>1, SeededStays DEF HandledWasSeeded
<1>2. CASE ~Sent(m)
  <2>1. m \notin log
    BY <1>2 DEF SentFirst
  <2>2. \/ \E t \in Tenants : Provision(t) \/ Delete(t)
        \/ \E a \in Agents : Register(a)
        \/ UNCHANGED outside
    BY DEF Next, vars, Handle, OpenCase, Deliver, Check, SeedBaseline, SeedVault, SeedFails,
           TombstoneBaseline, CloseCases, RetireVaults, Mark, Ack, Crash, outside
  <2>3. ~UNCHANGED outside
    BY <1>2 DEF outside, Sent
  <2>4. log' = log /\ m \in unacked'
    <3>1. ASSUME NEW t \in Tenants, Provision(t)
          PROVE  log' = log /\ m \in unacked'
      BY <1>2, <3>1, Subjects DEF Provision, MessagesOf, Sent, TypeOK
    <3>2. ASSUME NEW t \in Tenants, Delete(t)
          PROVE  log' = log /\ m \in unacked'
      BY <1>2, <3>2, Subjects DEF Delete, MessagesOf, Sent, TypeOK
    <3>3. ASSUME NEW a \in Agents, Register(a)
          PROVE  log' = log /\ m \in unacked'
      BY <1>2, <3>3, Subjects DEF Register, MessagesOf, Sent
    <3> QED
      BY <2>2, <2>3, <3>1, <3>2, <3>3
  <2> QED
    BY <2>1, <2>4
<1>3. CASE Sent(m) /\ m \notin log /\ m \in unacked
  <2>1. PICK w \in Workers : (Handle(w) \/ Crash(w)) /\ (At(w, "mark") \/ At(w, "ack")) /\ m = run[w].msg
    <3>1. CASE \/ \E t \in Tenants : Provision(t) \/ Delete(t) \/ OpenCase(t)
               \/ \E a \in Agents : Register(a)
               \/ \E w \in Workers, n \in Messages : Deliver(w, n)
               \/ UNCHANGED vars
      <4>1. log' = log /\ unacked \subseteq unacked'
        BY <3>1 DEF Provision, Delete, OpenCase, Register, Deliver, vars
      <4> QED
        BY <1>3, <4>1
    <3>2. ASSUME NEW w \in Workers, Handle(w) \/ Crash(w)
          PROVE  (Handle(w) \/ Crash(w)) /\ (At(w, "mark") \/ At(w, "ack")) /\ m = run[w].msg
      <4>1. /\ unacked' = unacked \/ (At(w, "ack") /\ unacked' = unacked \ {run[w].msg})
            /\ log' = log \/ (At(w, "mark") /\ log' = log \cup {run[w].msg})
        BY <3>2, HandlerEffect
      <4> QED
        BY <1>3, <3>2, <4>1
    <3> QED
      BY <3>1, <3>2 DEF Next
  <2>2. Seeded(m)
    BY <2>1 DEF At, WrittenThenMarked
  <2> QED
    BY <2>2, SeededStays
<1> QED
  BY <1>1, <1>2, <1>3

\* The five conjuncts together are inductive.
LEMMA HandlingStep == HandlingInv /\ [Next]_vars => HandlingInv'
BY TypeStep, SentFirstStep, WrittenThenMarkedStep, DeletionsOnlyStep, HandledStep DEF HandlingInv

\* Whatever fails and whoever handles a message twice: it is neither marked nor
\* acknowledged before the row that it seeds is there.
THEOREM HandledWereSeeded == Spec => []HandledWasSeeded
<1>1. HandlingInv => HandledWasSeeded
  BY DEF HandlingInv
<1> QED
  BY <1>1, HandlingInit, HandlingStep, PTL DEF Spec

(***************************************************************************)
(* The tombstone                                                           *)
(***************************************************************************)
\* A worker that seeds a baseline handles one of the messages that do.
LEMMA Seeder ==
    ASSUME TypeOK, NEW w \in Workers, SeedBaseline(w), NEW t, t = Event[run[w].msg].tenant
    PROVE  run[w].msg \in MessagesOf([kind |-> "provisioned", tenant |-> t])
<1>1. run[w].step # "idle" /\ Event[run[w].msg].kind = "provisioned"
  BY DEF SeedBaseline, Handles, At
<1> QED
  BY <1>1, Shapes, Subjects DEF MessagesOf

\* Once no event that seeds a baseline is left, none comes back.
LEMMA DrainedStays ==
    ASSUME TypeOK, [Next]_vars, NEW t \in Tenants, Drained(t)
    PROVE  Drained(t)'
<1> DEFINE seeds == MessagesOf([kind |-> "provisioned", tenant |-> t])
<1>1. /\ source[t] = "deleted" /\ seeds \cap unacked = {}
      /\ \A v \in Workers : run[v] # Idle => run[v].msg \notin seeds
  BY DEF Drained
<1>2. /\ \A m \in seeds : Event[m].kind = "provisioned" /\ Event[m].tenant = t
      /\ seeds' = seeds
  BY DEF MessagesOf
<1> SUFFICES /\ source'[t] = "deleted" /\ seeds \cap unacked' = {}
             /\ \A v \in Workers : run'[v] # Idle => run'[v].msg \notin seeds
  BY <1>2 DEF Drained
<1> HIDE DEF seeds
<1>3. ASSUME NEW u \in Tenants, Provision(u) \/ Delete(u) \/ OpenCase(u)
      PROVE  /\ source'[t] = "deleted" /\ seeds \cap unacked' = {}
             /\ \A v \in Workers : run'[v] # Idle => run'[v].msg \notin seeds
  BY <1>1, <1>2, <1>3 DEF Provision, Delete, OpenCase, outside, MessagesOf, TypeOK
<1>4. ASSUME NEW a \in Agents, Register(a)
      PROVE  /\ source'[t] = "deleted" /\ seeds \cap unacked' = {}
             /\ \A v \in Workers : run'[v] # Idle => run'[v].msg \notin seeds
  BY <1>1, <1>2, <1>4 DEF Register, MessagesOf
<1>5. ASSUME NEW w \in Workers, NEW m \in Messages, Deliver(w, m)
      PROVE  /\ source'[t] = "deleted" /\ seeds \cap unacked' = {}
             /\ \A v \in Workers : run'[v] # Idle => run'[v].msg \notin seeds
  BY <1>1, <1>5 DEF Deliver, outside, TypeOK
<1>6. ASSUME NEW w \in Workers, Handle(w) \/ Crash(w)
      PROVE  /\ source'[t] = "deleted" /\ seeds \cap unacked' = {}
             /\ \A v \in Workers : run'[v] # Idle => run'[v].msg \notin seeds
  <2>1. source' = source /\ unacked' \subseteq unacked
    BY <1>6, HandlerEffect DEF outside
  <2>2. ASSUME NEW v \in Workers, run'[v] # Idle
        PROVE  run[v] # Idle /\ run'[v].msg = run[v].msg
    BY <1>6, <2>2, SameMessage
  <2> QED
    BY <1>1, <2>1, <2>2
<1>7. CASE UNCHANGED vars
  BY <1>1, <1>7 DEF vars
<1> QED
  BY <1>3, <1>4, <1>5, <1>6, <1>7 DEF Next

\* From then on no step takes the tombstone of the tenant away.
LEMMA TombstoneStep ==
    ASSUME TypeOK, [Next]_vars, NEW t \in Tenants, Drained(t), baseline[t] = "AUDIT"
    PROVE  baseline'[t] = "AUDIT"
<1>1. \/ \E w \in Workers : SeedBaseline(w) \/ TombstoneBaseline(w)
      \/ UNCHANGED baseline
  BY DEF Next, vars, rows, Handle, Provision, Delete, OpenCase, Register, Deliver, Check,
         SeedVault, SeedFails, CloseCases, RetireVaults, Mark, Ack, Crash
<1>2. ASSUME NEW w \in Workers, SeedBaseline(w)
      PROVE  baseline'[t] = "AUDIT"
  <2>1. run[w] # Idle
    BY <1>2, Shapes DEF SeedBaseline, Handles, At
  <2>2. Event[run[w].msg].tenant # t
    BY <1>2, <2>1, Seeder DEF Drained
  <2> QED
    BY <1>2, <2>2 DEF SeedBaseline, TypeOK
<1>3. ASSUME NEW w \in Workers, TombstoneBaseline(w)
      PROVE  baseline'[t] = "AUDIT"
  <2>1. PICK u, mode : /\ mode \in {baseline[u], "AUDIT"}
                       /\ baseline' = [baseline EXCEPT ![u] = mode]
    BY <1>3, TombstoneEffect
  <2> QED
    BY <2>1 DEF TypeOK
<1> QED
  BY <1>1, <1>2, <1>3

\* Once the events that precede it are acknowledged and no handler of one is
\* left, nothing takes the tombstone of a baseline away.
THEOREM TombstonesStand == Spec => TombstoneStands
<1>1. TypeOK /\ [Next]_vars
        => [\A t \in Tenants : Drained(t) /\ baseline[t] = "AUDIT"
                                 => Drained(t)' /\ baseline'[t] = "AUDIT"]_vars
  BY DrainedStays, TombstoneStep
<1> QED
  BY <1>1, PropagationTypeCorrect, PTL DEF Spec, TombstoneStands
=============================================================================
