----------------------------- MODULE JuryPanel -----------------------------
(***************************************************************************)
(* The tally of a jury panel, as HandleCasesSubmitJuryVote                 *)
(* (handlers/compliance/export.go) computes it from the ballots a case     *)
(* holds: quorum floor, odd threshold, 65 % supermajority over all ballots *)
(* cast, abstentions included in the denominator.                          *)
(***************************************************************************)
EXTENDS Integers, FiniteSets

CONSTANTS Voters,          \* reviewers who may sit on a panel
          MinQuorumFloor   \* minQuorumFloor, 5 in the code

ASSUME VotersFinite == IsFiniteSet(Voters)
ASSUME FloorPositive == MinQuorumFloor \in Nat \ {0}

Decisions == {"APPROVE", "REJECT", "ABSTAIN"}
NoBallot == "none"

\* The ballots of one case: what each reviewer voted, or NoBallot.
Ballots == [Voters -> Decisions \cup {NoBallot}]
EmptyPanel == [v \in Voters |-> NoBallot]

Tally(b, d) == Cardinality({v \in Voters : b[v] = d})
TotalCast(b) == Tally(b, "APPROVE") + Tally(b, "REJECT") + Tally(b, "ABSTAIN")

\* quorumThreshold: the setting of the case when it reaches the floor, else
\* the floor; an even threshold is raised by one.
EffectiveQuorum(setting) ==
  LET q == IF setting >= MinQuorumFloor THEN setting ELSE MinQuorumFloor
  IN  IF q % 2 = 0 THEN q + 1 ELSE q

\* Mutant: a plurality of a third.
Supermajority_Third(n, total) == 100 * n > 33 * total

\* n of total is more than supermajorityRatio = 0.65.
Supermajority(n, total) == 100 * n > 65 * total

\* "OPEN" while the panel is incomplete; "ESCALATED" is a deadlocked panel.
PanelOutcome(b, setting) ==
  LET total == TotalCast(b)
  IN  IF total < EffectiveQuorum(setting) THEN "OPEN"
      ELSE IF Supermajority(Tally(b, "APPROVE"), total) THEN "APPROVED"
      ELSE IF Supermajority(Tally(b, "REJECT"), total) THEN "REJECTED"
      ELSE "ESCALATED"
=============================================================================
