---------------------------- MODULE EvidencePolicy ----------------------------
(* The decision which assessments may be published: a pure account of        *)
(* evidence/contracts.ts and evidence/policy.ts. An assessment is            *)
(*   [schema, id, scope, probe, outcome, claim, claimVersion, refs,          *)
(*    evidenceVersion, known, author, mode, verification, execution,         *)
(*    observation]                                                           *)
(* where scope is its subject and obligation, probe its probe identity with  *)
(* both digests, refs a set of [ref, sha] and known says that its provenance *)
(* is KNOWN and verified. A record that fails a schema is NONE or has        *)
(* another schema; reasons of a denial are left out.                         *)
EXTENDS Promotion

IsAssessment(a) == a.schema = "assessment"

EvidenceVersion(refs) == Digest(refs)
ClaimVersion(a) ==
  Digest([id |-> a.id, scope |-> a.scope, probe |-> a.probe, outcome |-> a.outcome, claim |-> a.claim])

HasValidEvidence(a) ==
  /\ a.refs # {}
  /\ \A r, s \in a.refs : r.ref = s.ref => r = s
  /\ a.known
  /\ a.evidenceVersion = EvidenceVersion(a.refs)
  /\ a.claimVersion = ClaimVersion(a)

\* Common to both paths: a violation with evidence that was verified, in scope.
Publishable(i) ==
  /\ IsAssessment(i.record)
  /\ i.record.outcome = "violation"
  /\ i.record.refs \subseteq i.receipts
  /\ HasValidEvidence(i.record)
  /\ i.scope.applicable
  /\ i.scope.scope = i.record.scope

\* An execution is what a system run of that probe left, in agreement with the record.
Executed(a, run) ==
  /\ run # NONE
  /\ a.author = "system"
  /\ run.author = "system"
  /\ run.id = a.execution
  /\ run.probe = a.probe
  /\ run.scope = a.scope
  /\ run.outcome = a.outcome
  /\ run.known
  /\ run.evidenceVersion = a.evidenceVersion

AutomaticPath(i) ==
  /\ i.entry # NONE
  /\ i.current # NONE
  /\ TrustedEligible(i.entry, i.current)
  /\ i.entry.review.reviewer \in i.reviewers
  /\ Digest(i.entry.review) \in i.reviews
  /\ i.record.probe = i.current
  /\ i.record.claim = i.entry.claim
  /\ i.record.verification # "unreviewed"
  /\ Executed(i.record, i.execution)

HumanPath(i) ==
  /\ i.observation # NONE
  /\ i.observation.fresh
  /\ i.observation.id = i.record.observation
  /\ i.observation.scope = i.record.scope
  /\ i.observation.evidenceVersion = i.record.evidenceVersion
  /\ i.adjudication # NONE
  /\ ~i.adjudication.synthetic
  /\ i.adjudication.reviewer \in i.reviewers
  /\ Digest(i.adjudication) \in i.reviews
  /\ i.adjudication.decision = "approve_finding"
  /\ i.record.verification = "human_adjudicated"
  /\ i.adjudication.id = i.record.id
  /\ i.adjudication.claimVersion = i.record.claimVersion
  /\ i.adjudication.evidenceVersion = i.record.evidenceVersion

DecidePublication(i) ==
  CASE ~Publishable(i)                                      -> "internal_only"
    [] Publishable(i) /\ i.record.mode = "automated"        ->
         IF AutomaticPath(i) THEN "automatic" ELSE "internal_only"
    [] OTHER ->
         IF HumanPath(i) THEN "reviewer_approved" ELSE "internal_only"
=============================================================================
