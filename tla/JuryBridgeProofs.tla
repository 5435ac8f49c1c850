-------------------------- MODULE JuryBridgeProofs --------------------------
(* Theorems of JuryBridge, for any messages, thresholds and attempts. *)
EXTENDS JuryBridge, TLAPS

\* The records of messages by name.
Msg == [form : Forms \cup {"none"}, state : {"queued", "handling", "acked", "dead"},
        attempts : 0..Attempts, calls : 0..Attempts, heard : BOOLEAN]

\* What was not published is not delivered.
UnpublishedWaits == \A m \in Messages : msgs[m].form = "none" => msgs[m].state = "queued"

BridgeInv == BridgeTypeOK /\ UnpublishedWaits /\ JuryIsTried

\* Bounds are positive numbers.
LEMMA Bounds == /\ Threshold \in Nat \ {0} /\ Attempts \in Nat \ {0} /\ 0 \in 0..Threshold
                /\ \A n \in 0..Attempts : (IF n < Attempts THEN n + 1 ELSE n) \in 0..Attempts
  BY BridgeBounds

\* What becomes of one message.
LEMMA SettledRows ==
  ASSUME BridgeTypeOK, NEW m \in Messages
  PROVE  /\ msgs[m] \in Msg
         /\ Nacked(msgs[m]) \in Msg /\ Nacked(msgs[m]).state # "acked"
         /\ Acked(msgs[m]) \in Msg
  BY DEF BridgeTypeOK, Msg, Nacked, Acked

\* A call counts, and leaves the jury heard if it answered anything.
LEMMA CalledRow ==
  ASSUME BridgeTypeOK, NEW m \in Messages, NEW call
  PROVE  /\ Called(m, call) \in Msg
         /\ Called(m, call).calls > 0
         /\ Called(m, call).heard = (msgs[m].heard \/ call # "unreachable")
         /\ Acked(Called(m, call)) \in Msg
         /\ Acked(Called(m, call)).calls > 0
         /\ Acked(Called(m, call)).heard = (msgs[m].heard \/ call # "unreachable")
         /\ Nacked(Called(m, call)) \in Msg /\ Nacked(Called(m, call)).state # "acked"
         /\ Nacked(Called(m, call)).heard = (msgs[m].heard \/ call # "unreachable")
  <1>. DEFINE calls == IF msgs[m].calls < Attempts THEN msgs[m].calls + 1 ELSE msgs[m].calls
              heard == msgs[m].heard \/ call # "unreachable"
  <1>1. msgs[m] \in Msg
    BY SettledRows
  <1>2. calls \in 0..Attempts /\ calls > 0
    BY <1>1, BridgeBounds DEF Msg
  <1>3. heard \in BOOLEAN
    BY <1>1 DEF Msg
  <1>4. Called(m, call) = [msgs[m] EXCEPT !.calls = calls, !.heard = heard]
    BY <1>1 DEF Called, Msg
  <1>. HIDE DEF calls, heard
  <1>5. /\ Called(m, call) \in Msg /\ Called(m, call).calls = calls
        /\ Called(m, call).heard = heard
    BY <1>1, <1>2, <1>3, <1>4 DEF Msg
  <1>6. ASSUME NEW row \in Msg
        PROVE  /\ Acked(row) \in Msg /\ Acked(row).calls = row.calls /\ Acked(row).heard = row.heard
               /\ Nacked(row) \in Msg /\ Nacked(row).state # "acked" /\ Nacked(row).heard = row.heard
    BY DEF Acked, Nacked, Msg
  <1>. QED BY <1>2, <1>5, <1>6 DEF heard

\* The initial states.
LEMMA BridgeInitInv == BridgeInit => BridgeInv
  BY BridgeBounds DEF BridgeInit, BridgeInv, BridgeTypeOK, JuryIsTried, AckedWasTried,
                      OpenAfterAnswers, UnpublishedWaits, Forms, Closed

\* A step that changes one message and leaves the breaker, and neither takes
\* back an answer nor acknowledges what was not tried.
LEMMA OneMessage ==
  ASSUME BridgeInv, NEW m \in Messages, NEW row \in Msg,
         msgs' = [msgs EXCEPT ![m] = row], UNCHANGED <<deadLetter, restarts>>,
         breaker' \in [state : {"closed", "open", "half"}, failures : 0..Threshold],
         breaker'.state # "closed" => breaker.state # "closed" \/ row.heard,
         msgs[m].heard => row.heard,
         row.form = "none" => row.state = "queued",
         row.form = "valid" /\ row.state = "acked" => row.calls > 0
  PROVE  BridgeInv'
  <1>1. BridgeTypeOK'
    BY DEF BridgeInv, BridgeTypeOK, Msg
  <1>2. \A n \in Messages : msgs'[n] = IF n = m THEN row ELSE msgs[n]
    BY DEF BridgeInv, BridgeTypeOK
  <1>3. AckedWasTried' /\ UnpublishedWaits'
    BY <1>2 DEF BridgeInv, JuryIsTried, AckedWasTried, Tried, UnpublishedWaits
  <1>4. OpenAfterAnswers'
    <2>1. CASE breaker.state # "closed"
      BY <1>2, <2>1 DEF BridgeInv, JuryIsTried, OpenAfterAnswers
    <2>2. CASE breaker.state = "closed"
      BY <1>2, <2>2 DEF OpenAfterAnswers
    <2>. QED BY <2>1, <2>2
  <1>. QED BY <1>1, <1>3, <1>4 DEF BridgeInv, JuryIsTried

\* Every step keeps the invariant.
LEMMA BridgeStep == BridgeInv /\ [BridgeNext]_bridgeVars => BridgeInv'
  <1>. SUFFICES ASSUME BridgeInv, [BridgeNext]_bridgeVars PROVE BridgeInv'
    OBVIOUS
  <1>0. BridgeTypeOK /\ breaker \in [state : {"closed", "open", "half"}, failures : 0..Threshold]
    BY DEF BridgeInv, BridgeTypeOK
  <1>1. CASE UNCHANGED bridgeVars
    BY <1>1 DEF bridgeVars, BridgeInv, BridgeTypeOK, JuryIsTried, AckedWasTried, OpenAfterAnswers,
                Tried, UnpublishedWaits
  <1>2. CASE ResetTimeout
    BY <1>2 DEF ResetTimeout, BridgeInv, BridgeTypeOK, JuryIsTried, AckedWasTried,
                OpenAfterAnswers, Tried, UnpublishedWaits
  <1>3. CASE PodRestarts
    <2>1. PICK lost \in SUBSET {m \in Messages : msgs[m].state = "acked"} :
            msgs' = [m \in Messages |-> IF m \in lost \cup Handling
                                        THEN [msgs[m] EXCEPT !.state = "queued"] ELSE msgs[m]]
      BY <1>3 DEF PodRestarts
    <2>2. ASSUME NEW m \in Messages
          PROVE  /\ msgs'[m] \in Msg /\ msgs'[m].form = msgs[m].form
                 /\ msgs'[m].calls = msgs[m].calls /\ msgs'[m].heard = msgs[m].heard
                 /\ msgs'[m].state = "acked" => msgs[m].state = "acked"
      BY <2>1, <1>0, SettledRows DEF Msg
    <2>3. BridgeTypeOK'
      BY <1>3, <2>1, <2>2, BridgeBounds DEF PodRestarts, Closed, BridgeInv, BridgeTypeOK, Msg
    <2>4. AckedWasTried' /\ UnpublishedWaits'
      <3>1. ASSUME NEW m \in Messages, msgs[m].state = "queued" PROVE msgs'[m].state = "queued"
        BY <2>1, <1>0, <3>1, SettledRows DEF Msg, Handling
      <3>. QED BY <2>2, <3>1 DEF BridgeInv, JuryIsTried, AckedWasTried, Tried, UnpublishedWaits
    <2>5. OpenAfterAnswers'
      BY <1>3 DEF PodRestarts, Closed, OpenAfterAnswers
    <2>. QED BY <2>3, <2>4, <2>5 DEF BridgeInv, JuryIsTried
  <1>4. ASSUME NEW m \in Messages, Publish(m) PROVE BridgeInv'
    <2>1. PICK f \in Forms : msgs' = [msgs EXCEPT ![m].form = f]
      BY <1>4 DEF Publish
    <2>. DEFINE row == [msgs[m] EXCEPT !.form = f]
    <2>2. /\ row \in Msg /\ row.heard = msgs[m].heard /\ row.form # "none"
          /\ row.state = msgs[m].state
      BY <1>0, SettledRows DEF Msg, Forms
    <2>3. msgs' = [msgs EXCEPT ![m] = row]
      BY <2>1
    <2>4. msgs[m].state = "queued" /\ UNCHANGED <<breaker, deadLetter, restarts>>
      BY <1>4 DEF Publish, BridgeInv, UnpublishedWaits
    <2>. QED BY <1>0, <2>2, <2>3, <2>4, OneMessage
  <1>5. ASSUME NEW m \in Messages, Receive(m) PROVE BridgeInv'
    <2>. DEFINE row == [msgs[m] EXCEPT !.state = "handling",
                                       !.attempts = IF @ < Attempts THEN @ + 1 ELSE @]
    <2>1. /\ row \in Msg /\ row.heard = msgs[m].heard /\ row.form = msgs[m].form
          /\ row.state = "handling"
      <3>1. msgs[m] \in Msg /\ msgs[m].attempts \in 0..Attempts
        BY <1>0, SettledRows DEF Msg
      <3>2. (IF msgs[m].attempts < Attempts THEN msgs[m].attempts + 1 ELSE msgs[m].attempts)
              \in 0..Attempts
        BY <3>1, Bounds
      <3>. QED BY <3>1, <3>2 DEF Msg
    <2>2. msgs[m].form # "none" /\ UNCHANGED <<breaker, deadLetter, restarts>>
      BY <1>5 DEF Receive
    <2>3. msgs' = [msgs EXCEPT ![m] = row]
      BY <1>5, Zenon DEF Receive
    <2>. HIDE DEF row
    <2>. QED BY <1>0, <2>1, <2>2, <2>3, OneMessage
  <1>6. ASSUME NEW m \in Messages, DropMalformed(m) \/ BreakerRefuses(m) PROVE BridgeInv'
    <2>1. /\ msgs' = [msgs EXCEPT ![m] = Nacked(msgs[m])] /\ msgs[m].form # "none"
          /\ UNCHANGED <<breaker, deadLetter, restarts>>
      BY <1>6 DEF DropMalformed, BreakerRefuses, Forwarding, Settle
    <2>2. /\ Nacked(msgs[m]) \in Msg /\ Nacked(msgs[m]).state # "acked"
          /\ Nacked(msgs[m]).form = msgs[m].form /\ Nacked(msgs[m]).heard = msgs[m].heard
      BY <1>0, SettledRows DEF Nacked, Msg
    <2>. QED BY <1>0, <2>1, <2>2, OneMessage
  <1>7. ASSUME NEW m \in Messages, DropIncomplete(m) PROVE BridgeInv'
    <2>1. /\ msgs' = [msgs EXCEPT ![m] = Acked(msgs[m])] /\ msgs[m].form = "incomplete"
          /\ UNCHANGED <<breaker, deadLetter, restarts>>
      BY <1>7 DEF DropIncomplete, Settle
    <2>2. /\ Acked(msgs[m]) \in Msg /\ Acked(msgs[m]).form = msgs[m].form
          /\ Acked(msgs[m]).heard = msgs[m].heard
      BY <1>0, SettledRows DEF Acked, Msg
    <2>. QED BY <1>0, <2>1, <2>2, OneMessage
  <1>8. ASSUME NEW m \in Messages, Forwarded(m) PROVE BridgeInv'
    <2>1. PICK call \in {"answered", "unreachable", "answer lost"} :
            msgs' = [msgs EXCEPT ![m] = Acked(Called(m, call))] /\ UNCHANGED <<deadLetter, restarts>>
      BY <1>8 DEF Forwarded, Settle
    <2>2. msgs[m].form = "valid" /\ breaker' = Closed
      BY <1>8 DEF Forwarded, Forwarding
    <2>3. Acked(Called(m, call)).form = "valid"
      BY <1>0, <2>2, SettledRows DEF Acked, Called, Msg
    <2>4. Closed \in [state : {"closed", "open", "half"}, failures : 0..Threshold]
      BY Bounds DEF Closed
    <2>. QED BY <1>0, <2>1, <2>2, <2>3, <2>4, CalledRow, OneMessage DEF Closed
  <1>9. ASSUME NEW m \in Messages, Failed(m) PROVE BridgeInv'
    <2>. DEFINE row == Nacked(Called(m, "unreadable"))
    <2>1. /\ msgs' = [msgs EXCEPT ![m] = row] /\ UNCHANGED <<deadLetter, restarts>>
          /\ msgs[m].form = "valid"
      BY <1>9 DEF Failed, Settle, Forwarding
    <2>2. row.form = "valid"
      BY <1>0, <2>1, SettledRows DEF Nacked, Called, Msg
    <2>3. row \in Msg /\ row.heard /\ row.state # "acked"
      <3>1. /\ row \in Msg /\ row.state # "acked"
            /\ row.heard = (msgs[m].heard \/ "unreadable" # "unreachable")
        BY <1>0, CalledRow
      <3>2. "unreadable" # "unreachable"
        OBVIOUS
      <3>. QED BY <3>1, <3>2, Zenon
    <2>4. breaker' \in [state : {"closed", "open", "half"}, failures : 0..Threshold]
      BY <1>0, <1>9, BridgeBounds DEF Failed
    <2>. QED BY <1>0, <2>1, <2>2, <2>3, <2>4, OneMessage
  <1>. QED BY <1>1, <1>2, <1>3, <1>4, <1>5, <1>6, <1>7, <1>8, <1>9 DEF BridgeNext, Handle

\* The invariant of all behaviours.
LEMMA BridgeInvariant == BridgeSpec => []BridgeInv
  BY BridgeInitInv, BridgeStep, PTL DEF BridgeSpec

\* The types of the consumer.
THEOREM BridgeTypeCorrect == BridgeSpec => []BridgeTypeOK
  BY BridgeInvariant, PTL DEF BridgeInv

\* However often the breaker opens and the pod restarts, a valid escalation is
\* acknowledged only after a call to the jury was made for it, and the breaker
\* opens only upon answers of a jury that was reached.
THEOREM EscalationsAreTried == BridgeSpec => []JuryIsTried
  BY BridgeInvariant, PTL DEF BridgeInv
=============================================================================
