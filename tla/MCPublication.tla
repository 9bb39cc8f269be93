---- MODULE MCPublication ----
EXTENDS Publication, TLC

A(id, how, what, sha, version) ==
  LET refs == {[ref |-> "shot", sha |-> sha]}
      prb == IF how = "automated"
               THEN [entry |-> Digest([claim |-> "claim", version |-> 1]), implementation |-> Digest(1)]
               ELSE NONE
      named == [id |-> id, scope |-> "page/check", probe |-> prb, outcome |-> "violation", claim |-> what]
  IN [schema |-> "assessment", id |-> id, scope |-> "page/check", probe |-> prb, outcome |-> "violation",
      claim |-> what, claimVersion |-> IF version = "own" THEN ClaimVersion(named) ELSE version,
      refs |-> refs, evidenceVersion |-> EvidenceVersion(refs), known |-> TRUE,
      author |-> "system", mode |-> how, execution |-> IF how = "automated" THEN "run" ELSE NONE,
      observation |-> "seen",
      verification |-> IF how = "automated" THEN "replay_verified" ELSE "human_adjudicated"]

C(cid, a) ==
  [cid |-> cid, record |-> a, entry |-> NONE, adjudication |-> NONE,
   observation |-> [id |-> "seen", scope |-> a.scope, fresh |-> TRUE, evidenceVersion |-> a.evidenceVersion],
   execution |-> IF a.mode = "automated"
                 THEN [id |-> "run", probe |-> a.probe, scope |-> a.scope, outcome |-> a.outcome, known |-> TRUE,
                       author |-> "system", evidenceVersion |-> a.evidenceVersion]
                 ELSE NONE]

Plain == A("a1", "manual", "no focus", "s1", "own")
Reworded == A("a1", "manual", "no focus, no name", "s1", "own")
Stale == A("a1", "manual", "no name", "s1", Plain.claimVersion)
Automated == A("a2", "automated", "claim", "s1", "own")
Hypothesis == [Plain EXCEPT !.schema = "hypothesis"]
\* The producer speaks for the reviewer.
SelfApproved(c) == [c EXCEPT !.adjudication =
  [id |-> c.record.id, reviewer |-> "r1", decision |-> "approve_finding", synthetic |-> FALSE,
   claimVersion |-> c.record.claimVersion, evidenceVersion |-> c.record.evidenceVersion]]

CONSTANTS rep1, rep2
MCReports == {rep1, rep2}
MCSymmetry == Permutations(MCReports)
MCCandidateSets ==
  {<<C("c1", Plain), C("c2", Plain), C("c3", Hypothesis)>>,
   <<SelfApproved(C("c1", Reworded))>>,
   <<SelfApproved(C("c1", Stale)), C("c2", Automated)>>}
MCRefs == {"shot"}
MCContents == {"s1"}
MCReviewers == {"r1"}
MCModes == {"approved", "integrity", "authority"}

Challenge(c) == [id |-> c, category |-> c, expected |-> Oracles[c], actual |-> Oracles[c],
                 supported |-> TRUE, fresh |-> TRUE, independent |-> TRUE]
Full == {Challenge(c) : c \in DOMAIN Oracles}
Wrong == {[c EXCEPT !.actual = "violation"] : c \in Full}
MCValidations == {Full, Full \ {Challenge("malformed_fragment")}, Wrong}
====
