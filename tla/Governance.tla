----------------------------- MODULE Governance -----------------------------
(***************************************************************************)
(* Governance of a tenant: proposals and votes, federation peers, policies *)
(* and their bindings, and the regulatory frameworks that apply.           *)
(*                                                                         *)
(* A proposal put to the vote and a new peer each have a second row, which *)
(* a goroutine writes after the answer; its error is only logged.  The id  *)
(* of a new policy is looked up after the insert, among all policies.      *)
(***************************************************************************)
EXTENDS Naturals

CONSTANTS Proposals, Voters, Peers,
          Policies, Creations, Agents,   \* policies, requests that create one, agents
          Frameworks, Countries,
          NoCountry,                     \* no jurisdiction; country not known
          NoPolicy,
          MaxRounds                      \* bound on the rounds of a proposal

ASSUME NamesNew == NoCountry \notin Countries /\ NoPolicy \notin Policies
ASSUME MaxRoundsPositive == MaxRounds \in Nat \ {0}

VARIABLES proposals,   \* core_proposals: their status
          rounds,      \* core_gov_rounds with status OPEN, by proposal
          opening,     \* goroutines that write one
          votes,       \* core_gov_rounds with status VOTED
          peers,       \* core_a2a_connections
          consents,    \* core_legal
          consenting,  \* goroutines that write one
          lost,        \* second rows that were never written
          policies,    \* core_policies
          creation,    \* HandleAdminCreatePolicy requests
          bindings,    \* policy-agent bindings, with the request that made them
          frameworks   \* gra_frameworks: jurisdiction and templates

proposalVars == <<proposals, rounds, opening, votes>>
peerVars == <<peers, consents, consenting>>
policyVars == <<policies, creation, bindings>>
govVars == <<proposalVars, peerVars, policyVars, lost, frameworks>>

\* "new" is the default of the column, "none" an absent or deleted row.
ProposalStatuses == {"DRAFT", "VOTING", "APPROVED", "REJECTED", "WITHDRAWN"}
PeerStatuses == {"ACTIVE", "INACTIVE", "SUSPENDED"}
PolicyStatuses == {"DRAFT", "ACTIVE", "INACTIVE", "ARCHIVED"}

GovTypeOK ==
  /\ proposals \in [Proposals -> ProposalStatuses \cup {"none", "new"}]
  /\ rounds \in [Proposals -> 0..MaxRounds] /\ opening \in [Proposals -> 0..MaxRounds]
  /\ votes \subseteq [proposal : Proposals, voter : Voters, vote : {"for", "against"}]
  /\ peers \in [Peers -> [status : PeerStatuses \cup {"none", "PENDING"}, active : BOOLEAN]]
  /\ consents \subseteq Peers /\ consenting \subseteq Peers
  /\ lost \subseteq Proposals \cup Peers
  /\ policies \in [Policies -> PolicyStatuses \cup {"none"}]
  /\ creation \in [Creations -> [pc : {"new", "find", "bind", "done"}, own : Policies \cup {NoPolicy},
                                 found : Policies \cup {NoPolicy}, agents : SUBSET Agents]]
  /\ bindings \subseteq [policy : Policies, agent : Agents, by : Creations]
  /\ frameworks \in [Frameworks -> [jurisdiction : Countries \cup {NoCountry}, templates : 0..2]]

GovInit ==
  /\ proposals = [p \in Proposals |-> "none"]
  /\ rounds = [p \in Proposals |-> 0] /\ opening = [p \in Proposals |-> 0]
  /\ votes = {}
  /\ peers = [p \in Peers |-> [status |-> "none", active |-> TRUE]] /\ consents = {} /\ consenting = {}
  /\ lost = {}
  /\ policies = [k \in Policies |-> "none"] /\ bindings = {}
  /\ creation = [c \in Creations |-> [pc |-> "new", own |-> NoPolicy, found |-> NoPolicy,
                                      agents |-> {}]]
  /\ frameworks \in [Frameworks -> [jurisdiction : Countries \cup {NoCountry}, templates : {0, 2}]]

-----------------------------------------------------------------------------
(* Proposals and votes *)

CreateGovernanceProposal(p) ==
  /\ proposals[p] = "none"
  /\ proposals' = [proposals EXCEPT ![p] = "new"]
  /\ UNCHANGED <<rounds, opening, votes, peerVars, policyVars, lost, frameworks>>

\* Any status may follow any other; each PATCH to VOTING opens a round.
UpdateGovernanceProposal(p, status) ==
  /\ proposals[p] # "none"
  /\ status = "VOTING" => rounds[p] + opening[p] < MaxRounds
  /\ proposals' = [proposals EXCEPT ![p] = status]
  /\ opening' = [opening EXCEPT ![p] = IF status = "VOTING" THEN @ + 1 ELSE @]
  /\ UNCHANGED <<rounds, votes, peerVars, policyVars, lost, frameworks>>

OpenRound(p) ==
  /\ opening[p] > 0
  /\ opening' = [opening EXCEPT ![p] = @ - 1]
  /\ \/ rounds' = [rounds EXCEPT ![p] = @ + 1] /\ UNCHANGED lost
     \/ lost' = lost \cup {p} /\ UNCHANGED rounds
  /\ UNCHANGED <<proposals, votes, peerVars, policyVars, frameworks>>

\* The vote names a proposal in its body; neither its existence, its status nor
\* an earlier vote is looked at.
CastGovernanceVote(p, v, vote) ==
  /\ votes' = votes \cup {[proposal |-> p, voter |-> v, vote |-> vote]}
  /\ UNCHANGED <<proposals, rounds, opening, peerVars, policyVars, lost, frameworks>>

DeleteGovernanceProposal(p) ==
  /\ proposals[p] # "none"
  /\ proposals' = [proposals EXCEPT ![p] = "none"]
  /\ UNCHANGED <<rounds, opening, votes, peerVars, policyVars, lost, frameworks>>

-----------------------------------------------------------------------------
(* Federation peers *)

CreateFederationPeer(p) ==
  /\ peers[p].status = "none"
  /\ peers' = [peers EXCEPT ![p].status = "PENDING"]
  /\ consenting' = consenting \cup {p}
  /\ UNCHANGED <<consents, proposalVars, policyVars, lost, frameworks>>

RecordConsent(p) ==
  /\ p \in consenting
  /\ consenting' = consenting \ {p}
  /\ \/ consents' = consents \cup {p} /\ UNCHANGED lost
     \/ lost' = lost \cup {p} /\ UNCHANGED consents
  /\ UNCHANGED <<peers, proposalVars, policyVars, frameworks>>

\* A peer may be activated before its consent is recorded.
UpdateFederationPeer(p, status) ==
  /\ peers[p].status # "none"
  /\ peers' = [peers EXCEPT ![p].status = status]
  /\ UNCHANGED <<consents, consenting, proposalVars, policyVars, lost, frameworks>>

DeleteFederationPeer(p) ==
  /\ peers[p].status # "none"
  /\ peers' = [peers EXCEPT ![p].active = FALSE]
  /\ UNCHANGED <<consents, consenting, proposalVars, policyVars, lost, frameworks>>

\* The pod stops: its goroutines are lost, the rows they were for remain.
PodStops ==
  /\ lost' = lost \cup {p \in Proposals : opening[p] > 0} \cup consenting
  /\ opening' = [p \in Proposals |-> 0]
  /\ consenting' = {}
  /\ UNCHANGED <<proposals, rounds, votes, peers, consents, policyVars, frameworks>>

-----------------------------------------------------------------------------
(* Policies *)

Step(c, from, record) == creation[c].pc = from /\ creation' = [creation EXCEPT ![c] = record]

Created == {k \in Policies : policies[k] # "none"}

\* agents: the agents and intents the request names.
InsertPolicy(c, k, agents) ==
  /\ k \notin Created
  /\ \E status \in {"DRAFT", "ACTIVE"} : policies' = [policies EXCEPT ![k] = status]
  /\ Step(c, "new", [pc |-> "find", own |-> k, found |-> NoPolicy, agents |-> agents])
  /\ UNCHANGED <<bindings, proposalVars, peerVars, lost, frameworks>>

\* The last row of a query that names no order; an error leaves no id, and the
\* policy no binding.
FindPolicy(c) ==
  /\ \E k \in Created \cup {NoPolicy} :
       Step(c, "find", [creation[c] EXCEPT !.found = k,
                                           !.pc = IF k = NoPolicy THEN "done" ELSE "bind"])
  /\ UNCHANGED <<policies, bindings, proposalVars, peerVars, lost, frameworks>>

\* Mutant: the policy is looked up again for every agent.
BindAgent_LookedUp(c, a) ==
  /\ a \in creation[c].agents
  /\ Step(c, "bind", [creation[c] EXCEPT !.agents = @ \ {a}])
  /\ \E k \in Created : bindings' = bindings \cup {[policy |-> k, agent |-> a, by |-> c]}
  /\ UNCHANGED <<policies, proposalVars, peerVars, lost, frameworks>>

BindAgent(c, a) ==
  /\ a \in creation[c].agents
  /\ Step(c, "bind", [creation[c] EXCEPT !.agents = @ \ {a}])
  /\ \/ bindings' = bindings \cup {[policy |-> creation[c].found, agent |-> a, by |-> c]}
     \/ UNCHANGED bindings
  /\ UNCHANGED <<policies, proposalVars, peerVars, lost, frameworks>>

UpdatePolicy(k, status) ==
  /\ k \in Created
  /\ policies' = [policies EXCEPT ![k] = status]
  /\ UNCHANGED <<creation, bindings, proposalVars, peerVars, lost, frameworks>>

-----------------------------------------------------------------------------
(* Frameworks: GET .../regulatory-frameworks and .../obligations *)

ListGRARegulatoryFrameworks(country) ==
  {f \in Frameworks : \/ country = NoCountry
                      \/ frameworks[f].jurisdiction \in {NoCountry, country}}

\* One obligation per template, or one for the framework itself.
ListGRAComplianceObligations(country) ==
  LET skipped(f) == /\ country # NoCountry
                    /\ frameworks[f].jurisdiction \notin {NoCountry, country}
      last(f) == IF frameworks[f].templates = 0 THEN 0 ELSE frameworks[f].templates - 1
  IN {o \in [framework : Frameworks, index : 0..1] :
        ~skipped(o.framework) /\ o.index <= last(o.framework)}

-----------------------------------------------------------------------------

ProposalsNext == \E p \in Proposals :
  \/ CreateGovernanceProposal(p) \/ DeleteGovernanceProposal(p)
  \/ \E s \in ProposalStatuses : UpdateGovernanceProposal(p, s)
  \/ OpenRound(p) \/ PodStops
  \/ \E v \in Voters, vote \in {"for", "against"} : CastGovernanceVote(p, v, vote)

PeersNext == \E p \in Peers :
  \/ CreateFederationPeer(p) \/ RecordConsent(p) \/ DeleteFederationPeer(p) \/ PodStops
  \/ \E s \in PeerStatuses : UpdateFederationPeer(p, s)

PoliciesNext ==
  \/ \E k \in Policies, s \in PolicyStatuses : UpdatePolicy(k, s)
  \/ \E c \in Creations :
     \/ \E k \in Policies, agents \in SUBSET Agents : InsertPolicy(c, k, agents)
     \/ FindPolicy(c) \/ \E a \in Agents : BindAgent(c, a)

GovNext == ProposalsNext \/ PeersNext \/ PoliciesNext
GovSpec == GovInit /\ [][GovNext]_govVars

-----------------------------------------------------------------------------
(* Properties *)

\* A proposal that is being voted on has a round, unless the goroutine that
\* opens it has not run yet or was lost: no order of PATCHes skips it.
VotingHasRound ==
  \A p \in Proposals : proposals[p] = "VOTING" =>
    rounds[p] > 0 \/ opening[p] > 0 \/ p \in lost

\* A peer, in whatever state, has a consent on record, unless its goroutine
\* has not run yet or was lost.
PeerHasConsent ==
  \A p \in Peers : peers[p].status # "none" => p \in consents \cup consenting \cup lost

\* The bindings of one request are all on one policy, even if others are
\* created while it binds.
BindingsTogether ==
  \A b, d \in bindings : b.by = d.by => b.policy = d.policy

\* The two lists agree: a tenant has an obligation under a framework exactly
\* if the framework is listed for its country.
ObligationsMatchFrameworks ==
  \A country \in Countries \cup {NoCountry} :
    ListGRARegulatoryFrameworks(country) =
      {o.framework : o \in ListGRAComplianceObligations(country)}

\* Rows that belong together and are written or read apart agree, as the four
\* above say.
RowsApartAgree ==
  VotingHasRound /\ PeerHasConsent /\ BindingsTogether /\ ObligationsMatchFrameworks
=============================================================================
