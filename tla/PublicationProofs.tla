--------------------------- MODULE PublicationProofs ---------------------------
(***************************************************************************)
(* Proofs about Publication, for all files, candidates, people, validation *)
(* records and bounds: that trust in a probe is earned, that an            *)
(* acknowledged approval stays readable, and that what is published is     *)
(* authorized.                                                             *)
(***************************************************************************)
EXTENDS Publication, TLAPS

(* A gate result that is kept as eligible is one that was given. *)
GateIsOnRecord ==
    gate # NONE /\ gate.result.verdict = "eligible_for_review"
        => gate.result.digests \in passed

(* An entry counts as trusted through its own review, of what passed and was approved. *)
TrustIsReviewed ==
    entry.maturity = "trusted" =>
        /\ entry.review.decision = "approve_trusted"
        /\ ~entry.review.synthetic
        /\ entry.review.digests \in passed \cap vouched

TrustInv == GateIsOnRecord /\ TrustIsReviewed

----------------------------------------------------------------------------
(* The gate's answer names the digests it was given for. *)
LEMMA GateNamesDigests ==
    ASSUME NEW e, NEW v, NEW d
    PROVE  /\ EvaluateGate(e, v, d).digests = d
           /\ EvaluateGate(e, v, d).verdict = Verdict(e, v, d)
BY DEF EvaluateGate

(* A decision makes an entry trusted only if it was applicable, approving and not
   synthetic, and the gate had found the very digests it names eligible. *)
LEMMA DecisionsThatTrust ==
    ASSUME NEW e, NEW r, NEW d, NEW g,
           r.decision \in {"approve_trusted", "reject", "needs_changes"},
           ApplyDecision(e, r, d, g).maturity = "trusted",
           ApplyDecision(e, r, d, g) # e
    PROVE  /\ ApplyDecision(e, r, d, g).review = r
           /\ r.decision = "approve_trusted" /\ ~r.synthetic /\ r.digests = d
           /\ g # NONE /\ g.result.verdict = "eligible_for_review" /\ g.result.digests = d
<1>1. Applicable(e, r, d, g)
    BY DEF ApplyDecision
<1> DEFINE m == CASE r.decision = "approve_trusted" -> "trusted"
                  [] r.decision = "reject" -> "retired"
                  [] r.decision = "needs_changes" -> "candidate"
<1>2. ApplyDecision(e, r, d, g)
        = [claim |-> e.claim, version |-> e.version, review |-> r, maturity |-> m]
    BY <1>1 DEF ApplyDecision
<1>3. m = "trusted"
    <2>1. ApplyDecision(e, r, d, g).maturity = m
        <3> HIDE DEF m
        <3> QED BY <1>2
    <2> QED BY <2>1
<1>4. r.decision = "approve_trusted"
    BY <1>3
<1>5. g.result = EvaluateGate(e, g.record, d)
    BY <1>1, <1>4 DEF Applicable
<1> QED BY <1>1, <1>2, <1>4, <1>5, GateNamesDigests DEF Applicable

----------------------------------------------------------------------------
(* A catalogue starts with nothing trusted or with a probe that went the whole way. *)
LEMMA TrustInitially == Init => TrustInv
<1> SUFFICES ASSUME Init PROVE TrustInv
    OBVIOUS
<1> DEFINE fresh == [claim |-> "claim", version |-> 1, maturity |-> "candidate", review |-> NONE]
<1>1. CASE entry = fresh /\ gate = NONE
    BY <1>1 DEF TrustInv, GateIsOnRecord, TrustIsReviewed
<1>2. CASE \E who \in Reviewers, cases \in Validations : Promoted(who, cases)
    <2>1. PICK who \in Reviewers, cases \in Validations : Promoted(who, cases)
        BY <1>2
    <2> DEFINE d == [entry |-> EntryDigest(fresh), implementation |-> Digest(impl)]
               v == [entry |-> d.entry, implementation |-> d.implementation, cases |-> cases]
               r == [reviewer |-> who, decision |-> "approve_trusted", synthetic |-> FALSE, digests |-> d]
    <2>2. /\ gate = [result |-> EvaluateGate(fresh, v, d), record |-> v]
          /\ entry = ApplyDecision(fresh, r, d, gate)
          /\ passed = {d} /\ vouched = {d}
        BY <2>1 DEF Promoted
    <2>3. GateIsOnRecord
        <3> HIDE DEF d, v, r, fresh
        <3>1. gate.result.digests = d
            BY <2>2, GateNamesDigests
        <3> QED BY <2>2, <3>1 DEF GateIsOnRecord
    <2>4. entry = fresh => entry.maturity = "candidate"
        OBVIOUS
    <2>5. TrustIsReviewed
        <3> SUFFICES ASSUME entry.maturity = "trusted"
                     PROVE  /\ entry.review.decision = "approve_trusted"
                            /\ ~entry.review.synthetic
                            /\ entry.review.digests \in passed \cap vouched
            BY DEF TrustIsReviewed
        <3>1. entry # fresh
            BY <2>4
        <3>2. r.decision = "approve_trusted" /\ r.digests = d
            OBVIOUS
        <3> HIDE DEF d, v, r, fresh
        <3> QED BY <2>2, <3>1, <3>2, DecisionsThatTrust
    <2> QED BY <2>3, <2>5 DEF TrustInv
<1> QED BY <1>1, <1>2 DEF Init

(* Steps that leave the probe alone leave its trust alone. *)
LEMMA TrustUntouched ==
    ASSUME TrustInv, UNCHANGED probe PROVE TrustInv'
BY DEF TrustInv, GateIsOnRecord, TrustIsReviewed, probe

(* An edited entry keeps its maturity and its review, whose digests no longer fit. *)
LEMMA TrustAfterEdit ==
    ASSUME TrustInv, EditEntry PROVE TrustInv'
<1>1. /\ entry'.maturity = entry.maturity /\ entry'.review = entry.review
      /\ UNCHANGED <<gate, passed, vouched>>
    BY DEF EditEntry
<1> QED BY <1>1 DEF TrustInv, GateIsOnRecord, TrustIsReviewed

(* A new gate result is on record when it is eligible. *)
LEMMA TrustAfterGate ==
    ASSUME TrustInv, RunGate PROVE TrustInv'
<1>1. PICK cases \in Validations :
        LET v == [entry |-> CurrentDigests.entry, implementation |-> CurrentDigests.implementation, cases |-> cases]
            r == EvaluateGate(entry, v, CurrentDigests)
        IN  /\ gate' = [result |-> r, record |-> v]
            /\ passed' = passed \cup {d \in {CurrentDigests} : r.verdict = "eligible_for_review"}
    BY DEF RunGate
<1> DEFINE v == [entry |-> CurrentDigests.entry, implementation |-> CurrentDigests.implementation, cases |-> cases]
<1>2. UNCHANGED <<entry, vouched>>
    BY DEF RunGate
<1>3. gate'.result = EvaluateGate(entry, v, CurrentDigests)
    BY <1>1
<1>4. gate'.result.digests = CurrentDigests
    BY <1>3, GateNamesDigests
<1>5. gate'.result.verdict = "eligible_for_review" => CurrentDigests \in passed'
    BY <1>1, <1>3
<1>6. GateIsOnRecord'
    BY <1>4, <1>5 DEF GateIsOnRecord
<1>7. passed \subseteq passed'
    BY <1>1
<1>8. TrustIsReviewed'
    BY <1>2, <1>7 DEF TrustInv, TrustIsReviewed
<1> QED BY <1>6, <1>8 DEF TrustInv

(* A review makes an entry trusted only for digests on record, which it vouches for. *)
LEMMA TrustAfterReview ==
    ASSUME TrustInv, NEW who \in Reviewers, ReviewProbe(who) PROVE TrustInv'
<1>1. PICK d \in {"approve_trusted", "reject", "needs_changes"}, synthetic \in BOOLEAN,
           seen \in {CurrentDigests} \cup passed :
        LET r == [reviewer |-> who, decision |-> d, synthetic |-> synthetic, digests |-> seen]
        IN  /\ entry' = ApplyDecision(entry, r, CurrentDigests, gate)
            /\ vouched' = vouched \cup {x \in {seen} : d = "approve_trusted" /\ ~synthetic}
    BY DEF ReviewProbe
<1> DEFINE r == [reviewer |-> who, decision |-> d, synthetic |-> synthetic, digests |-> seen]
<1>2. UNCHANGED <<gate, passed>> /\ vouched \subseteq vouched'
    BY <1>1 DEF ReviewProbe
<1>3. GateIsOnRecord'
    BY <1>2 DEF TrustInv, GateIsOnRecord
<1>4. ASSUME entry' = entry PROVE TrustIsReviewed'
    BY <1>2, <1>4 DEF TrustInv, TrustIsReviewed
<1>5. ASSUME entry' # entry PROVE TrustIsReviewed'
    <2> SUFFICES ASSUME entry'.maturity = "trusted"
                 PROVE  /\ entry'.review.decision = "approve_trusted"
                        /\ ~entry'.review.synthetic
                        /\ entry'.review.digests \in passed' \cap vouched'
        BY DEF TrustIsReviewed
    <2>1. entry' = ApplyDecision(entry, r, CurrentDigests, gate)
        BY <1>1
    <2>2. /\ entry'.review = r
          /\ r.decision = "approve_trusted" /\ ~r.synthetic /\ r.digests = CurrentDigests
          /\ gate # NONE /\ gate.result.verdict = "eligible_for_review"
          /\ gate.result.digests = CurrentDigests
        <3>1. r.decision \in {"approve_trusted", "reject", "needs_changes"}
            OBVIOUS
        <3> HIDE DEF r
        <3> QED BY <1>5, <2>1, <3>1, DecisionsThatTrust
    <2>3. CurrentDigests \in passed
        BY <2>2 DEF TrustInv, GateIsOnRecord
    <2>4. seen = CurrentDigests /\ d = "approve_trusted" /\ ~synthetic
        BY <2>2
    <2>5. CurrentDigests \in vouched'
        BY <1>1, <2>4
    <2> QED BY <1>2, <2>2, <2>3, <2>5
<1>6. TrustIsReviewed'
    BY <1>4, <1>5 DEF TrustInv
<1> QED BY <1>3, <1>6 DEF TrustInv

(* Only a promotion's steps touch the probe. *)
LEMMA TrustPreserved ==
    ASSUME TrustInv, [Next]_vars PROVE TrustInv'
<1>1. CASE UNCHANGED vars
    BY <1>1, TrustUntouched DEF vars
<1>2. ASSUME NEW p \in Procs, ReadInput(p) \/ VerifyArtifact(p) PROVE TrustInv'
    BY <1>2, TrustUntouched DEF ReadInput, VerifyArtifact
<1>3. ASSUME NEW c \in Names, NEW who \in Reviewers, StartReview(c, who) PROVE TrustInv'
    BY <1>3, TrustUntouched DEF StartReview
<1>4. CASE StopReview \/ StopExport
    BY <1>4, TrustUntouched DEF StopReview, StopExport
<1>5. CASE PrepareRequest \/ VerifyRequest \/ AppendApproval \/ TearApproval
    BY <1>5, TrustUntouched DEF PrepareRequest, VerifyRequest, AppendApproval, TearApproval
<1>6. ASSUME NEW who \in Reviewers, Sign(who) PROVE TrustInv'
    BY <1>6, TrustUntouched DEF Sign
<1>7. ASSUME NEW m \in Modes, StartExport(m) PROVE TrustInv'
    BY <1>7, TrustUntouched DEF StartExport
<1>8. CASE ReadStore \/ VerifyLine \/ AuthorizeApproved \/ AuthorizeIntegrity \/ Publish
    BY <1>8, TrustUntouched DEF ReadStore, VerifyLine, AuthorizeApproved, AuthorizeIntegrity, Publish
<1>9. CASE Others
    <2>1. CASE ReplaceReport \/ ReplaceCandidates \/ ReplaceArtifact \/ ChangeSigners
        BY <2>1, TrustUntouched DEF ReplaceReport, ReplaceCandidates, ReplaceArtifact, ChangeSigners
    <2>2. CASE AlterRequest \/ ForgeLine \/ RepairStore \/ WriteAuthority
        BY <2>2, TrustUntouched DEF AlterRequest, ForgeLine, RepairStore, WriteAuthority
    <2>3. CASE EditEntry
        BY <2>3, TrustAfterEdit
    <2>4. CASE EditImplementation
        BY <2>4 DEF EditImplementation, TrustInv, GateIsOnRecord, TrustIsReviewed
    <2>5. CASE RunGate
        BY <2>5, TrustAfterGate
    <2>6. ASSUME NEW who \in Reviewers, ReviewProbe(who) PROVE TrustInv'
        BY <2>6, TrustAfterReview
    <2> QED BY <1>9, <2>1, <2>2, <2>3, <2>4, <2>5, <2>6 DEF Others
<1> QED BY <1>1, <1>2, <1>3, <1>4, <1>5, <1>6, <1>7, <1>8, <1>9 DEF Next

(* The bookkeeping of trust always holds: what is trusted passed the gate and was vouched for. *)
THEOREM TrustInvariant == Spec => []TrustInv
<1> QED BY TrustInitially, TrustPreserved, PTL DEF Spec

(* A probe counts as trusted for what it is now only if exactly that entry and that
   implementation passed the gate and a person approved them (promotion/gate.ts,
   catalogue/contracts.ts): TrustedIsEarned, after any number of edits and decisions. *)
THEOREM TrustIsEarned == Spec => []TrustedIsEarned
<1>1. TrustInv => TrustedIsEarned
    BY DEF TrustInv, TrustIsReviewed, TrustedIsEarned, TrustedEligible
<1> QED BY <1>1, TrustInvariant, PTL

----------------------------------------------------------------------------
(* No step takes an envelope out of the store. *)
LEMMA AppendKeepsLines ==
    ASSUME NEW s, NEW l PROVE s.envelopes \subseteq AppendLine(s, l).envelopes
BY DEF AppendLine

(* Recording acknowledges only what it has written as a line of its own. *)
LEMMA ReadablePreserved ==
    ASSUME AcknowledgedIsReadable, [Next]_vars PROVE AcknowledgedIsReadable'
<1>1. ASSUME UNCHANGED review PROVE AcknowledgedIsReadable'
    BY <1>1 DEF AcknowledgedIsReadable, review
<1>2. ASSUME recorded' = recorded, store.envelopes \subseteq store'.envelopes
      PROVE  AcknowledgedIsReadable'
    BY <1>2 DEF AcknowledgedIsReadable
<1>3. CASE UNCHANGED vars
    BY <1>1, <1>3 DEF vars
<1>4. ASSUME NEW p \in Procs, ReadInput(p) \/ VerifyArtifact(p) PROVE AcknowledgedIsReadable'
    BY <1>1, <1>4 DEF ReadInput, VerifyArtifact
<1>5. ASSUME NEW c \in Names, NEW who \in Reviewers, StartReview(c, who) PROVE AcknowledgedIsReadable'
    BY <1>2, <1>5 DEF StartReview
<1>6. CASE StopReview \/ PrepareRequest \/ VerifyRequest
    BY <1>1, <1>2, <1>6 DEF StopReview, PrepareRequest, VerifyRequest
<1>7. ASSUME NEW who \in Reviewers, Sign(who) PROVE AcknowledgedIsReadable'
    BY <1>2, <1>7 DEF Sign
<1>8. CASE AppendApproval
    <2> DEFINE l == [request |-> signature.bytes, signature |-> signature]
    <2>1. /\ store'.envelopes = store.envelopes \cup {l}
          /\ recorded' = recorded \cup {signature.bytes}
        BY <1>8 DEF AppendApproval, AppendLine
    <2>2. l.request = signature.bytes
        OBVIOUS
    <2> HIDE DEF l
    <2> QED BY <2>1, <2>2 DEF AcknowledgedIsReadable
<1>9. CASE TearApproval
    BY <1>2, <1>9 DEF TearApproval
<1>10. CASE StopExport \/ (\E m \in Modes : StartExport(m)) \/ ReadStore \/ VerifyLine
            \/ AuthorizeApproved \/ AuthorizeIntegrity \/ Publish
    BY <1>1, <1>10 DEF StopExport, StartExport, ReadStore, VerifyLine, AuthorizeApproved,
                       AuthorizeIntegrity, Publish
<1>11. CASE Others
    <2>1. CASE ReplaceReport \/ ReplaceCandidates \/ ReplaceArtifact \/ ChangeSigners \/ WriteAuthority
        BY <1>1, <2>1 DEF ReplaceReport, ReplaceCandidates, ReplaceArtifact, ChangeSigners, WriteAuthority
    <2>2. CASE AlterRequest \/ RepairStore
        BY <1>2, <2>2 DEF AlterRequest, RepairStore
    <2>3. CASE ForgeLine
        <3>1. recorded' = recorded /\ store.envelopes \subseteq store'.envelopes
            BY <2>3, AppendKeepsLines DEF ForgeLine
        <3> QED BY <1>2, <3>1
    <2>4. CASE EditEntry \/ EditImplementation \/ RunGate \/ \E who \in Reviewers : ReviewProbe(who)
        BY <1>1, <2>4 DEF EditEntry, EditImplementation, RunGate, ReviewProbe
    <2> QED BY <1>11, <2>1, <2>2, <2>3, <2>4 DEF Others
<1> QED BY <1>3, <1>4, <1>5, <1>6, <1>7, <1>8, <1>9, <1>10, <1>11 DEF Next

(* An approval whose recording was acknowledged stays a readable line of the store, however
   often recordings are torn, others forge lines and people repair the file
   (report/local-approval.ts): AcknowledgedIsReadable. *)
THEOREM ApprovalsStayReadable == Spec => []AcknowledgedIsReadable
<1>1. Init => AcknowledgedIsReadable
    BY DEF Init, AcknowledgedIsReadable
<1> QED BY <1>1, ReadablePreserved, PTL DEF Spec

----------------------------------------------------------------------------
(* PublishedIsAuthorized. What an export works with is sound by the time it     *)
(* publishes, however the files change between the two times it reads them:     *)
(* PublicationInv says what each of its steps has established.                  *)

(* Functions have their domains, and each process is somewhere in its program. *)
Shape ==
  /\ DOMAIN disk = Inputs
  /\ pc \in [Procs -> {"idle", "load", "append", "approvals", "reread"}]
  /\ DOMAIN load = Procs /\ (\A p \in Procs : DOMAIN load[p] = Inputs)
  /\ DOMAIN receipts = Procs

(* The references of the candidates on disk, and of those read, name artifacts. *)
Named(cs) ==
  \A c \in Assessed(cs) : \A r \in c.record.refs :
    r = [ref |-> r.ref, sha |-> r.sha] /\ r.ref \in Refs /\ r.sha # ABSENT

RefsAreNamed ==
  /\ Named(disk.cands)
  /\ \A p \in Procs : load[p].cands # NONE => Named(load[p].cands)

(* Every signature in use was made. *)
SignaturesAreMade ==
  /\ signature # NONE => signature \in signed
  /\ pc["review"] = "append" => signature # NONE
  /\ \A l \in store.envelopes \cup due \cup held : l.signature \in signed

(* An approval in an authority is somebody's signed one, or the review by which a
   probe that passed the gate was promoted. *)
ReviewsAreEarned(ds) ==
  \A d \in ds :
    \/ \E s \in signed : s.key = s.bytes.reviewer /\ d = Digest(Adjudication(s.bytes))
    \/ \E r \in {d[2]} : /\ d = Digest(r) /\ r.decision = "approve_trusted"
                         /\ r.digests \in passed \cap vouched

AuthorityIsEarned == authority # NONE => ReviewsAreEarned(authority.reviews)

(* Which step leads to which, and what is empty until then. *)
Phases ==
  /\ pc["review"] \in {"idle", "load", "append"}
  /\ pc["export"] \in {"idle", "load", "approvals", "reread"}
  /\ pc["export"] # "idle" => mode \in {"approved", "integrity", "authority"}
  /\ pc["export"] = "approvals" => mode = "approved"
  /\ pc["export"] # "approvals" => due = {}
  /\ pc["export"] \in {"idle", "load"} => held = {}
  /\ held \cap due = {}
  /\ out # NONE => out.mode \in {"approved", "integrity", "authority"}

(* What the export relies on was so at some moment since it began. *)
SeenDuring ==
  /\ DOMAIN artifact = Refs
  /\ pc["export"] # "idle" =>
    /\ signers \subseteq during.keys
    /\ Present \cup receipts["export"] \subseteq during.artifacts

HeldLinesHold ==
  \A l \in held :
    /\ l.signature.key = l.request.reviewer /\ l.signature.bytes = l.request
    /\ l.signature.key \in during.keys

(* An applicable context is of a candidate somebody approved for this report. *)
ApprovedContext(x) ==
  /\ x.current = NONE
  /\ x.scope.applicable =>
       /\ x.receipts \subseteq during.artifacts
       /\ \E s \in signed :
            /\ s.key = s.bytes.reviewer /\ s.key \in during.keys
            /\ s.bytes.report = trusted.report
            /\ x.cid = s.bytes.cid /\ x.record = Digest(s.bytes.record)

TrustedIsSound ==
  pc["export"] = "reread" =>
    /\ mode = "approved" => \A x \in trusted.contexts : ApprovedContext(x)
    /\ mode = "integrity" => \A x \in trusted.contexts : ~x.scope.applicable
    /\ mode = "authority" => ReviewsAreEarned(trusted.reviews)

PublicationInv ==
  /\ Shape /\ RefsAreNamed /\ SignaturesAreMade /\ AuthorityIsEarned
  /\ Phases /\ SeenDuring /\ HeldLinesHold /\ TrustedIsSound
  /\ PublishedIsAuthorized

----------------------------------------------------------------------------
(* A digest stands for one value. *)
LEMMA DigestsAreInjective ==
    ASSUME NEW x, NEW y, Digest(x) = Digest(y) PROVE x = y
BY DEF Digest

(* What is let out is a violation the context is applicable to, its evidence among
   the receipts, and has taken the automatic or the human path. *)
LEMMA DecisionsThatPublish ==
    ASSUME NEW i, DecidePublication(i) # "internal_only"
    PROVE  /\ i.record.refs \subseteq i.receipts /\ i.scope.applicable
           /\ \/ DecidePublication(i) = "automatic" /\ AutomaticPath(i)
              \/ DecidePublication(i) = "reviewer_approved" /\ HumanPath(i)
<1>1. Publishable(i)
    BY DEF DecidePublication
<1>2. CASE i.record.mode = "automated"
    <2>1. DecidePublication(i) = IF AutomaticPath(i) THEN "automatic" ELSE "internal_only"
        BY <1>1, <1>2 DEF DecidePublication
    <2> QED BY <1>1, <2>1 DEF Publishable
<1>3. CASE i.record.mode # "automated"
    <2>1. DecidePublication(i) = IF HumanPath(i) THEN "reviewer_approved" ELSE "internal_only"
        BY <1>1, <1>3 DEF DecidePublication
    <2> QED BY <1>1, <2>1 DEF Publishable
<1> QED BY <1>2, <1>3

(* A finding is a candidate with a context that is exactly its own. *)
LEMMA FindingsHaveContexts ==
    ASSUME NEW cs, NEW t, NEW f \in Findings(cs, t)
    PROVE  \E k \in DOMAIN cs : \E x \in t.contexts :
             /\ f.cid = cs[k].cid /\ f.record = cs[k].record
             /\ Exact(cs[k], x) /\ f.eligibility = Eligibility(cs[k], x, t)
             /\ f.eligibility # "internal_only"
<1>1. PICK k \in Included(cs, t) :
        f = [cid |-> cs[k].cid, eligibility |-> CHOOSE e \in Outcomes(cs[k], t) : TRUE,
             record |-> cs[k].record]
    BY DEF Findings
<1>2. k \in DOMAIN cs /\ Outcomes(cs[k], t) # {}
    BY DEF Included
<1>3. f.eligibility \in Outcomes(cs[k], t) /\ f.cid = cs[k].cid /\ f.record = cs[k].record
    BY <1>1, <1>2
<1>4. PICK x \in t.contexts : Exact(cs[k], x) /\ f.eligibility = Eligibility(cs[k], x, t)
    BY <1>3 DEF Outcomes
<1> QED BY <1>2, <1>3, <1>4 DEF Outcomes

(* What a published finding says of its context. *)
LEMMA ContextsThatPublish ==
    ASSUME NEW c, NEW x, NEW t, Eligibility(c, x, t) # "internal_only"
    PROVE  /\ c.record.refs \subseteq x.receipts /\ x.scope.applicable
           /\ \/ /\ Eligibility(c, x, t) = "automatic"
                 /\ x.current # NONE /\ Digest(c.entry.review) \in t.reviews
                 /\ c.entry.review.decision = "approve_trusted"
                 /\ c.record.probe = c.entry.review.digests
              \/ /\ Eligibility(c, x, t) = "reviewer_approved"
                 /\ \E a : /\ Digest(a) \in t.reviews /\ a.decision = "approve_finding"
                           /\ a.id = c.record.id /\ a.claimVersion = c.record.claimVersion
                           /\ a.evidenceVersion = c.record.evidenceVersion
<1> DEFINE i == [record |-> c.record, entry |-> c.entry, current |-> x.current,
                 execution |-> c.execution, observation |-> c.observation,
                 adjudication |-> IF x.adjudication # NONE THEN x.adjudication ELSE c.adjudication,
                 receipts |-> x.receipts, scope |-> x.scope, reviewers |-> t.reviewers,
                 reviews |-> t.reviews]
<1>1. Eligibility(c, x, t) = DecidePublication(i)
    BY DEF Eligibility
<1>2. /\ i.record = c.record /\ i.entry = c.entry /\ i.current = x.current
      /\ i.receipts = x.receipts /\ i.scope = x.scope /\ i.reviews = t.reviews
    OBVIOUS
<1> HIDE DEF i
<1>3. /\ i.record.refs \subseteq i.receipts /\ i.scope.applicable
      /\ \/ Eligibility(c, x, t) = "automatic" /\ AutomaticPath(i)
         \/ Eligibility(c, x, t) = "reviewer_approved" /\ HumanPath(i)
    BY <1>1, DecisionsThatPublish
<1>4. CASE Eligibility(c, x, t) = "automatic" /\ AutomaticPath(i)
    BY <1>2, <1>3, <1>4 DEF AutomaticPath, TrustedEligible
<1>5. CASE Eligibility(c, x, t) = "reviewer_approved" /\ HumanPath(i)
    <2>1. /\ Digest(i.adjudication) \in t.reviews /\ i.adjudication.decision = "approve_finding"
          /\ i.adjudication.id = c.record.id
          /\ i.adjudication.claimVersion = c.record.claimVersion
          /\ i.adjudication.evidenceVersion = c.record.evidenceVersion
        BY <1>2, <1>5 DEF HumanPath
    <2> QED BY <1>2, <1>3, <1>5, <2>1
<1> QED BY <1>3, <1>4, <1>5

(* A sound authority lets out only what is authorized. *)
LEMMA SoundIsAuthorized ==
    ASSUME NEW cs, NEW f \in Findings(cs, trusted), TrustedIsSound, Phases, pc["export"] = "reread"
    PROVE  /\ mode # "integrity"
           /\ mode = "approved" =>
                /\ f.eligibility = "reviewer_approved"
                /\ f.record.refs \subseteq during.artifacts
                /\ \E s \in signed :
                     /\ s.key = s.bytes.reviewer /\ s.key \in during.keys
                     /\ s.bytes.cid = f.cid /\ s.bytes.record = f.record
                     /\ s.bytes.report = trusted.report
           /\ mode = "authority" /\ f.eligibility = "automatic"
                => f.record.probe \in passed \cap vouched
           /\ mode = "authority" /\ f.eligibility # "automatic" => SignedVersions(f)
<1>1. PICK k \in DOMAIN cs, x \in trusted.contexts :
        /\ f.cid = cs[k].cid /\ f.record = cs[k].record
        /\ Exact(cs[k], x) /\ f.eligibility = Eligibility(cs[k], x, trusted)
        /\ f.eligibility # "internal_only"
    BY FindingsHaveContexts
<1> DEFINE c == cs[k]
<1>2. /\ c.record.refs \subseteq x.receipts /\ x.scope.applicable
      /\ \/ /\ f.eligibility = "automatic"
            /\ x.current # NONE /\ Digest(c.entry.review) \in trusted.reviews
            /\ c.entry.review.decision = "approve_trusted"
            /\ c.record.probe = c.entry.review.digests
         \/ /\ f.eligibility = "reviewer_approved"
            /\ \E a : /\ Digest(a) \in trusted.reviews /\ a.decision = "approve_finding"
                      /\ a.id = c.record.id /\ a.claimVersion = c.record.claimVersion
                      /\ a.evidenceVersion = c.record.evidenceVersion
    BY <1>1, ContextsThatPublish
<1>3. mode # "integrity"
    BY <1>2 DEF TrustedIsSound
<1>4. ASSUME mode = "approved"
      PROVE  /\ f.eligibility = "reviewer_approved"
             /\ f.record.refs \subseteq during.artifacts
             /\ \E s \in signed :
                  /\ s.key = s.bytes.reviewer /\ s.key \in during.keys
                  /\ s.bytes.cid = f.cid /\ s.bytes.record = f.record
                  /\ s.bytes.report = trusted.report
    <2>1. ApprovedContext(x)
        BY <1>4 DEF TrustedIsSound
    <2>2. PICK s \in signed :
            /\ s.key = s.bytes.reviewer /\ s.key \in during.keys
            /\ s.bytes.report = trusted.report
            /\ x.cid = s.bytes.cid /\ x.record = Digest(s.bytes.record)
        BY <1>2, <2>1 DEF ApprovedContext
    <2>3. s.bytes.record = f.record
        BY <1>1, <2>2, DigestsAreInjective DEF Exact
    <2>4. s.bytes.cid = f.cid
        BY <1>1, <2>2 DEF Exact
    <2>5. f.eligibility = "reviewer_approved" /\ f.record.refs \subseteq during.artifacts
        BY <1>1, <1>2, <2>1 DEF ApprovedContext
    <2> QED BY <2>2, <2>3, <2>4, <2>5
<1>5. ASSUME mode = "authority", f.eligibility = "automatic"
      PROVE  f.record.probe \in passed \cap vouched
    <2> DEFINE r == c.entry.review
    <2>1. /\ Digest(r) \in trusted.reviews /\ r.decision = "approve_trusted"
          /\ f.record.probe = r.digests
        BY <1>1, <1>2, <1>5
    <2> HIDE DEF r
    <2>2. \/ \E s \in signed : Digest(r) = Digest(Adjudication(s.bytes))
          \/ \E q : Digest(r) = Digest(q) /\ q.digests \in passed \cap vouched
        BY <1>5, <2>1 DEF TrustedIsSound, ReviewsAreEarned
    <2>3. ASSUME NEW s \in signed, Digest(r) = Digest(Adjudication(s.bytes)) PROVE FALSE
        BY <2>1, <2>3, DigestsAreInjective DEF Adjudication
    <2> QED BY <2>1, <2>2, <2>3, DigestsAreInjective
<1>6. ASSUME mode = "authority", f.eligibility # "automatic" PROVE SignedVersions(f)
    <2>1. PICK a : /\ Digest(a) \in trusted.reviews /\ a.decision = "approve_finding"
                   /\ a.id = f.record.id /\ a.claimVersion = f.record.claimVersion
                   /\ a.evidenceVersion = f.record.evidenceVersion
        BY <1>1, <1>2, <1>6
    <2>2. \/ \E s \in signed : s.key = s.bytes.reviewer /\ Digest(a) = Digest(Adjudication(s.bytes))
          \/ \E q : Digest(a) = Digest(q) /\ q.decision = "approve_trusted"
        BY <1>6, <2>1 DEF TrustedIsSound, ReviewsAreEarned
    <2>3. PICK s \in signed : s.key = s.bytes.reviewer /\ a = Adjudication(s.bytes)
        BY <2>1, <2>2, DigestsAreInjective
    <2>4. /\ s.bytes.record.id = f.record.id
          /\ s.bytes.record.claimVersion = f.record.claimVersion
          /\ s.bytes.record.evidenceVersion = f.record.evidenceVersion
        BY <2>1, <2>3 DEF Adjudication
    <2> QED BY <2>3, <2>4 DEF SignedVersions
<1> QED BY <1>3, <1>4, <1>5, <1>6

(* The last step of an export: what it writes is authorized. *)
LEMMA PublishAuthorizes ==
    ASSUME PublicationInv, Publish PROVE PublishedIsAuthorized'
<1> DEFINE cs == load["export"].cands
           report == load["export"].report
<1>1. /\ pc["export"] = "reread" /\ trusted.report = Digest(report)
      /\ out' = [mode |-> mode, report |-> report, findings |-> Findings(cs, trusted), during |-> during]
      /\ UNCHANGED <<signed, passed, vouched>>
    BY DEF Publish, review, probe
<1> HIDE DEF cs, report
<1>2. out'.mode = mode /\ out'.report = report /\ out'.findings = Findings(cs, trusted)
      /\ out'.during = during
    BY <1>1
<1> SUFFICES ASSUME NEW f \in out'.findings
             PROVE  CASE out'.mode = "approved"  -> /\ f.eligibility = "reviewer_approved"
                                                   /\ SignedExactly(f, out.report)'
                                                   /\ VouchedDuring(f)'
                      [] out'.mode = "integrity" -> FALSE
                      [] out'.mode = "authority" -> IF f.eligibility = "automatic"
                                                    THEN f.record.probe \in passed' \cap vouched'
                                                    ELSE SignedVersions(f)'
    BY DEF PublishedIsAuthorized
<1>3. f \in Findings(cs, trusted)
    BY <1>2
<1>4. mode \in {"approved", "authority"}
    BY <1>1, <1>3, SoundIsAuthorized DEF PublicationInv, Phases
<1>5. CASE mode = "approved"
    <2>1. /\ f.eligibility = "reviewer_approved"
          /\ f.record.refs \subseteq during.artifacts
          /\ \E s \in signed :
               /\ s.key = s.bytes.reviewer /\ s.key \in during.keys
               /\ s.bytes.cid = f.cid /\ s.bytes.record = f.record
               /\ s.bytes.report = trusted.report
        BY <1>1, <1>3, <1>5, SoundIsAuthorized DEF PublicationInv
    <2>2. SignedExactly(f, out.report)'
        BY <1>1, <1>2, <2>1 DEF SignedExactly
    <2>3. VouchedDuring(f)'
        BY <1>1, <1>2, <2>1 DEF VouchedDuring
    <2> QED BY <1>2, <1>5, <2>1, <2>2, <2>3
<1>6. CASE mode = "authority"
    <2>1. /\ f.eligibility = "automatic" => f.record.probe \in passed \cap vouched
          /\ f.eligibility # "automatic" => SignedVersions(f)
        BY <1>1, <1>3, <1>6, SoundIsAuthorized DEF PublicationInv
    <2>2. SignedVersions(f) => SignedVersions(f)'
        BY <1>1 DEF SignedVersions
    <2> QED BY <1>1, <1>2, <1>6, <2>1, <2>2
<1> QED BY <1>4, <1>5, <1>6

----------------------------------------------------------------------------
(* Approvals are only added, and so are the people and probes they speak for. *)
MoreIsEarned == signed \subseteq signed' /\ passed \subseteq passed' /\ vouched \subseteq vouched'

(* Reviews that were earned stay earned. *)
LEMMA EarnedStays ==
    ASSUME NEW ds, ReviewsAreEarned(ds), MoreIsEarned PROVE ReviewsAreEarned(ds)'
BY DEF ReviewsAreEarned, MoreIsEarned

(* An export on disk stays authorized. *)
LEMMA ExportStays ==
    ASSUME PublicationInv, out' = out, MoreIsEarned PROVE PublishedIsAuthorized'
<1> SUFFICES ASSUME out # NONE, NEW f \in out.findings
             PROVE  CASE out.mode = "approved"  -> /\ f.eligibility = "reviewer_approved"
                                                  /\ SignedExactly(f, out.report)'
                                                  /\ VouchedDuring(f)'
                      [] out.mode = "integrity" -> FALSE
                      [] out.mode = "authority" -> IF f.eligibility = "automatic"
                                                   THEN f.record.probe \in passed' \cap vouched'
                                                   ELSE SignedVersions(f)'
    BY DEF PublishedIsAuthorized
<1>1. /\ SignedExactly(f, out.report) => SignedExactly(f, out.report)'
      /\ VouchedDuring(f) => VouchedDuring(f)'
      /\ SignedVersions(f) => SignedVersions(f)'
    BY DEF SignedExactly, VouchedDuring, SignedVersions, MoreIsEarned
<1>2. out.mode \in {"approved", "integrity", "authority"}
    BY DEF PublicationInv, Phases
<1>3. CASE out.mode = "approved"
    BY <1>1, <1>3 DEF PublicationInv, PublishedIsAuthorized
<1>4. CASE out.mode = "integrity"
    BY <1>4 DEF PublicationInv, PublishedIsAuthorized
<1>5. CASE out.mode = "authority"
    BY <1>1, <1>5 DEF PublicationInv, PublishedIsAuthorized, MoreIsEarned
<1> QED BY <1>2, <1>3, <1>4, <1>5

(* The parts that a step leaves alone. *)
LEMMA Untouched ==
    ASSUME PublicationInv
    PROVE  /\ UNCHANGED <<disk, procs>> => Shape'
           /\ UNCHANGED <<disk, load>> => RefsAreNamed'
           /\ UNCHANGED <<signature, signed, pc, store, due, held>> => SignaturesAreMade'
           /\ UNCHANGED authority /\ MoreIsEarned => AuthorityIsEarned'
           /\ UNCHANGED <<signed, passed, vouched>> => MoreIsEarned
           /\ UNCHANGED artifact => Present' = Present
<1>1. UNCHANGED authority /\ MoreIsEarned => AuthorityIsEarned'
    BY EarnedStays DEF PublicationInv, AuthorityIsEarned
<1>2. UNCHANGED <<disk, load>> => RefsAreNamed'
    BY DEF PublicationInv, RefsAreNamed, Named, Assessed
<1>3. UNCHANGED <<disk, procs>> => Shape'
    BY DEF PublicationInv, Shape, procs
<1> QED BY <1>1, <1>2, <1>3 DEF PublicationInv, SignaturesAreMade, MoreIsEarned, Present

(* A step that is none of the export's leaves it as sound as it was, when what it
   may have seen in the meantime is noted. *)
LEMMA ExportUntouched ==
    ASSUME PublicationInv, UNCHANGED <<out, due, held, trusted, mode>>, MoreIsEarned,
           pc'["export"] = pc["export"], receipts'["export"] = receipts["export"],
           pc'["review"] \in {"idle", "load", "append"}, DOMAIN artifact' = DOMAIN artifact,
           pc["export"] # "idle" =>
             /\ during.keys \subseteq during'.keys /\ during.artifacts \subseteq during'.artifacts
             /\ signers' \subseteq during'.keys /\ Present' \subseteq during'.artifacts
    PROVE  Phases' /\ SeenDuring' /\ HeldLinesHold' /\ TrustedIsSound' /\ PublishedIsAuthorized'
<1>1. Phases'
    BY DEF PublicationInv, Phases
<1>2. SeenDuring'
    BY DEF PublicationInv, SeenDuring
<1>3. HeldLinesHold'
    BY DEF PublicationInv, HeldLinesHold, Phases
<1>4. TrustedIsSound'
    <2> SUFFICES ASSUME pc["export"] = "reread"
                 PROVE  /\ mode = "approved" => \A x \in trusted.contexts : ApprovedContext(x)'
                        /\ mode = "integrity" => \A x \in trusted.contexts : ~x.scope.applicable
                        /\ mode = "authority" => ReviewsAreEarned(trusted.reviews)'
        BY DEF TrustedIsSound
    <2>1. ASSUME mode = "approved", NEW x \in trusted.contexts PROVE ApprovedContext(x)'
        <3>1. ApprovedContext(x)
            BY <2>1 DEF PublicationInv, TrustedIsSound
        <3> QED BY <3>1 DEF ApprovedContext, MoreIsEarned
    <2>2. mode = "authority" => ReviewsAreEarned(trusted.reviews)'
        BY EarnedStays DEF PublicationInv, TrustedIsSound
    <2> QED BY <2>1, <2>2 DEF PublicationInv, TrustedIsSound
<1>5. PublishedIsAuthorized'
    BY ExportStays
<1> QED BY <1>1, <1>2, <1>3, <1>4, <1>5

(* A process that goes elsewhere has read and verified nothing yet. *)
LEMMA GoesTo ==
    ASSUME PublicationInv, NEW p \in Procs, UNCHANGED disk,
           NEW l \in {"idle", "load", "append", "approvals", "reread"}, GoTo(p, l)
    PROVE  /\ Shape' /\ RefsAreNamed'
           /\ pc'[p] = l /\ receipts'[p] = {}
           /\ \A q \in Procs : q # p => pc'[q] = pc[q] /\ receipts'[q] = receipts[q]
<1>1. Unread.cands = NONE /\ DOMAIN Unread = Inputs
    BY DEF Unread, Inputs
<1>2. /\ pc' = [pc EXCEPT ![p] = l]
      /\ load' = [load EXCEPT ![p] = Unread]
      /\ receipts' = [receipts EXCEPT ![p] = {}]
    BY DEF GoTo
<1>3. Shape'
    BY <1>1, <1>2 DEF PublicationInv, Shape
<1>4. RefsAreNamed'
    BY <1>1, <1>2 DEF PublicationInv, Shape, RefsAreNamed, Named, Assessed
<1> QED BY <1>2, <1>3, <1>4 DEF PublicationInv, Shape

(* The same for a step that touches neither the evidence nor the signers. *)
LEMMA ExportAside ==
    ASSUME PublicationInv, UNCHANGED <<out, due, held, trusted, mode, during, signers, artifact>>,
           MoreIsEarned, pc'["export"] = pc["export"], receipts'["export"] = receipts["export"],
           pc'["review"] \in {"idle", "load", "append"}
    PROVE  Phases' /\ SeenDuring' /\ HeldLinesHold' /\ TrustedIsSound' /\ PublishedIsAuthorized'
<1>1. pc["export"] # "idle" => signers \subseteq during.keys /\ Present' \subseteq during.artifacts
    BY Untouched DEF PublicationInv, SeenDuring
<1> QED BY <1>1, ExportUntouched

(* The review is somewhere in its own program. *)
LEMMA ReviewHere == ASSUME PublicationInv PROVE pc["review"] \in {"idle", "load", "append"}
BY DEF PublicationInv, Phases

----------------------------------------------------------------------------
(* Reading and verifying, the same for both commands. *)
LEMMA ReadInputKeeps ==
    ASSUME PublicationInv, NEW p \in Procs, ReadInput(p) PROVE PublicationInv'
<1>1. PICK f \in Inputs : load' = [load EXCEPT ![p] = [@ EXCEPT ![f] = disk[f]]]
    BY DEF ReadInput
<1>2. UNCHANGED <<files, review, export, probe, pc, receipts>>
    BY DEF ReadInput
<1>3. Shape'
    BY <1>1, <1>2 DEF PublicationInv, Shape, files
<1>4. \A q \in Procs : load'[q].cands \in {load[q].cands, disk.cands}
    BY <1>1 DEF PublicationInv, Shape, Inputs
<1>5. RefsAreNamed'
    BY <1>2, <1>4 DEF PublicationInv, RefsAreNamed, Named, Assessed, files
<1>6. SignaturesAreMade' /\ AuthorityIsEarned' /\ MoreIsEarned
    BY <1>2, Untouched DEF files, review, export, probe
<1>7. Phases' /\ SeenDuring' /\ HeldLinesHold' /\ TrustedIsSound' /\ PublishedIsAuthorized'
    BY <1>2, <1>6, ExportAside, ReviewHere DEF files, export
<1> QED BY <1>3, <1>5, <1>6, <1>7 DEF PublicationInv

(* An artifact that is verified is on file at that moment. *)
LEMMA VerifyArtifactKeeps ==
    ASSUME PublicationInv, NEW p \in Procs, VerifyArtifact(p) PROVE PublicationInv'
<1>1. PICK r \in Required(p) : /\ artifact[r.ref] = r.sha
                               /\ receipts' = [receipts EXCEPT ![p] = @ \cup {r}]
    BY DEF VerifyArtifact
<1>2. pc[p] = "load" /\ load[p].cands # NONE /\ UNCHANGED <<files, review, export, probe, pc, load>>
    BY DEF VerifyArtifact, Loaded, AllRead, Inputs
<1>3. r \in Present
    <2>1. Named(load[p].cands)
        BY <1>2 DEF PublicationInv, RefsAreNamed
    <2>2. r = [ref |-> r.ref, sha |-> r.sha] /\ r.ref \in Refs /\ r.sha # ABSENT
        BY <2>1 DEF Named, Required
    <2>3. r.ref \in {x \in Refs : artifact[x] # ABSENT}
        BY <1>1, <2>2
    <2> QED BY <1>1, <2>2, <2>3 DEF Present
<1>4. Shape' /\ receipts'[p] = receipts[p] \cup {r}
      /\ \A q \in Procs : q # p => receipts'[q] = receipts[q]
    BY <1>1, <1>2 DEF PublicationInv, Shape, files
<1>5. RefsAreNamed' /\ SignaturesAreMade' /\ AuthorityIsEarned' /\ MoreIsEarned
    BY <1>2, Untouched DEF files, review, export, probe
<1>6. CASE p # "export"
    <2>1. receipts'["export"] = receipts["export"]
        BY <1>4, <1>6 DEF Procs
    <2>2. Phases' /\ SeenDuring' /\ HeldLinesHold' /\ TrustedIsSound' /\ PublishedIsAuthorized'
        BY <1>2, <1>5, <2>1, ExportAside, ReviewHere DEF files, export
    <2> QED BY <1>4, <1>5, <2>2 DEF PublicationInv
<1>7. CASE p = "export"
    <2>1. SeenDuring'
        <3>1. Present' = Present
            BY <1>2, Untouched DEF files
        <3> QED BY <1>2, <1>3, <1>4, <1>7, <3>1 DEF PublicationInv, SeenDuring, files, export
    <2>2. PublishedIsAuthorized'
        BY <1>2, <1>5, ExportStays DEF export
    <2>3. Phases' /\ HeldLinesHold' /\ TrustedIsSound'
        BY <1>2, <1>7 DEF PublicationInv, Phases, HeldLinesHold, TrustedIsSound, export
    <2> QED BY <1>4, <1>5, <2>1, <2>2, <2>3 DEF PublicationInv
<1> QED BY <1>6, <1>7

----------------------------------------------------------------------------
(* The review: it leaves the export alone, and makes signatures only by signing. *)
LEMMA ReviewGoes ==
    ASSUME PublicationInv, NEW l \in {"idle", "load"}, GoTo("review", l),
           UNCHANGED <<files, export, probe, store, signed>>, signature' \in {signature, NONE}
    PROVE  PublicationInv'
<1>1. Shape' /\ RefsAreNamed' /\ pc'["review"] = l
      /\ pc'["export"] = pc["export"] /\ receipts'["export"] = receipts["export"]
    BY GoesTo DEF Procs, files
<1>2. MoreIsEarned /\ AuthorityIsEarned'
    BY Untouched DEF probe, files
<1>3. SignaturesAreMade'
    BY <1>1 DEF PublicationInv, SignaturesAreMade, export
<1>4. Phases' /\ SeenDuring' /\ HeldLinesHold' /\ TrustedIsSound' /\ PublishedIsAuthorized'
    BY <1>1, <1>2, ExportAside DEF files, export
<1> QED BY <1>1, <1>2, <1>3, <1>4 DEF PublicationInv

(* A step of the review that reads no file. *)
LEMMA ReviewMoves ==
    ASSUME PublicationInv, NEW l \in {"idle", "append"}, pc' = [pc EXCEPT !["review"] = l],
           UNCHANGED <<files, export, probe, load, receipts, signature, signed>>,
           l = "append" => signature # NONE,
           \A x \in store'.envelopes : x.signature \in signed
    PROVE  PublicationInv'
<1>1. Shape' /\ pc'["review"] = l /\ pc'["export"] = pc["export"]
    BY DEF PublicationInv, Shape, files, Procs
<1>2. RefsAreNamed' /\ MoreIsEarned /\ AuthorityIsEarned'
    BY Untouched DEF probe, files
<1>3. SignaturesAreMade'
    BY <1>1 DEF PublicationInv, SignaturesAreMade, export
<1>4. Phases' /\ SeenDuring' /\ HeldLinesHold' /\ TrustedIsSound' /\ PublishedIsAuthorized'
    BY <1>1, <1>2, ExportAside DEF files, export
<1> QED BY <1>1, <1>2, <1>3, <1>4 DEF PublicationInv

(* No step of the review but signing makes a signature. *)
LEMMA ReviewStepsKeep ==
    ASSUME PublicationInv,
           \/ \E c \in Names, who \in Reviewers : StartReview(c, who)
           \/ StopReview \/ PrepareRequest
           \/ VerifyRequest \/ AppendApproval \/ TearApproval
    PROVE  PublicationInv'
<1>1. ASSUME NEW c \in Names, NEW who \in Reviewers, StartReview(c, who) PROVE PublicationInv'
    BY <1>1, ReviewGoes DEF StartReview
<1>2. CASE StopReview \/ PrepareRequest
    BY <1>2, ReviewGoes DEF StopReview, PrepareRequest
<1>3. \A x \in store.envelopes : x.signature \in signed
    BY DEF PublicationInv, SignaturesAreMade
<1>4. CASE VerifyRequest
    BY <1>3, <1>4, ReviewMoves DEF VerifyRequest, review
<1>5. CASE AppendApproval
    <2> DEFINE x == [request |-> signature.bytes, signature |-> signature]
    <2>1. x.signature \in signed
        BY <1>5 DEF AppendApproval, PublicationInv, SignaturesAreMade
    <2> HIDE DEF x
    <2>2. store'.envelopes \subseteq store.envelopes \cup {x}
        BY <1>5 DEF AppendApproval, AppendLine, x
    <2> QED BY <1>3, <1>5, <2>1, <2>2, ReviewMoves DEF AppendApproval
<1>6. CASE TearApproval
    BY <1>3, <1>6, ReviewMoves DEF TearApproval
<1> QED BY <1>1, <1>2, <1>4, <1>5, <1>6

(* A signature more takes no approval away. *)
LEMMA SignKeeps == ASSUME PublicationInv, NEW who \in Reviewers, Sign(who) PROVE PublicationInv'
<1>1. /\ signed' = signed \cup {signature'} /\ signature = NONE
      /\ UNCHANGED <<files, export, probe, procs, store>>
    BY DEF Sign
<1>2. MoreIsEarned
    BY <1>1 DEF MoreIsEarned, probe
<1>3. Shape' /\ RefsAreNamed' /\ AuthorityIsEarned'
    BY <1>1, <1>2, Untouched DEF files, procs
<1>4. SignaturesAreMade'
    BY <1>1 DEF PublicationInv, SignaturesAreMade, export, procs
<1>5. Phases' /\ SeenDuring' /\ HeldLinesHold' /\ TrustedIsSound' /\ PublishedIsAuthorized'
    BY <1>1, <1>2, ExportAside, ReviewHere DEF files, export, procs
<1> QED BY <1>3, <1>4, <1>5 DEF PublicationInv

----------------------------------------------------------------------------
(* The export. An approval it works with is of a line whose key held when it was
   verified; its receipts are of artifacts that were on file when it looked. *)
LEMMA StopExportKeeps == ASSUME PublicationInv, StopExport PROVE PublicationInv'
<1>1. GoTo("export", "idle") /\ Forget /\ UNCHANGED <<files, review, out, probe>>
    BY DEF StopExport
<1>2. Shape' /\ RefsAreNamed' /\ pc'["export"] = "idle" /\ pc'["review"] = pc["review"]
    BY <1>1, GoesTo DEF Procs, files
<1>3. MoreIsEarned /\ AuthorityIsEarned' /\ PublishedIsAuthorized'
    BY <1>1, Untouched, ExportStays DEF probe, files, review
<1>4. SignaturesAreMade'
    BY <1>1, <1>2 DEF PublicationInv, SignaturesAreMade, review, Forget
<1>5. Phases' /\ SeenDuring' /\ HeldLinesHold' /\ TrustedIsSound'
    BY <1>1, <1>2 DEF PublicationInv, Phases, SeenDuring, HeldLinesHold, TrustedIsSound, Forget, files
<1> QED BY <1>2, <1>3, <1>4, <1>5 DEF PublicationInv

(* An export that starts has seen the signers and the evidence of that moment. *)
LEMMA StartExportKeeps ==
    ASSUME PublicationInv, NEW m \in Modes, StartExport(m) PROVE PublicationInv'
<1>1. /\ mode' = m /\ due' = {} /\ held' = {}
      /\ during' = [keys |-> signers, artifacts |-> Present]
      /\ UNCHANGED <<files, review, probe, out>>
    BY DEF StartExport
<1>2. PICK l \in {"load", "reread"} :
        /\ GoTo("export", l)
        /\ l = "reread" => m = "authority" /\ authority # NONE /\ trusted' = authority
    BY DEF StartExport
<1>3. Shape' /\ RefsAreNamed' /\ pc'["export"] = l /\ pc'["review"] = pc["review"]
      /\ receipts'["export"] = {}
    BY <1>1, <1>2, GoesTo DEF Procs, files
<1>4. MoreIsEarned /\ AuthorityIsEarned' /\ PublishedIsAuthorized' /\ Present' = Present
    BY <1>1, Untouched, ExportStays DEF probe, files, review
<1>5. SignaturesAreMade'
    BY <1>1, <1>3 DEF PublicationInv, SignaturesAreMade, review
<1>6. Phases' /\ HeldLinesHold'
    BY <1>1, <1>3, PublicationAssumption DEF PublicationInv, Phases, HeldLinesHold
<1>7. SeenDuring'
    BY <1>1, <1>3, <1>4 DEF PublicationInv, SeenDuring, files
<1>8. TrustedIsSound'
    <2>1. authority' = authority
        BY <1>1 DEF files
    <2>2. ASSUME l = "reread" PROVE ReviewsAreEarned(authority.reviews)'
        BY <1>2, <1>4, <2>1, <2>2 DEF AuthorityIsEarned
    <2> QED BY <1>1, <1>2, <1>3, <2>1, <2>2 DEF TrustedIsSound
<1> QED BY <1>3, <1>4, <1>5, <1>6, <1>7, <1>8 DEF PublicationInv

(* The lines of the store carry signatures that were made. *)
LEMMA ReadStoreKeeps == ASSUME PublicationInv, ReadStore PROVE PublicationInv'
<1>1. /\ pc["export"] = "load" /\ mode = "approved" /\ due' = store.envelopes
      /\ pc' = [pc EXCEPT !["export"] = "approvals"]
      /\ UNCHANGED <<files, review, out, held, trusted, mode, during, probe, load, receipts>>
    BY DEF ReadStore, Verified, Loaded
<1>2. Shape' /\ pc'["export"] = "approvals" /\ pc'["review"] = pc["review"]
    BY <1>1 DEF PublicationInv, Shape, Procs, files
<1>3. RefsAreNamed' /\ MoreIsEarned /\ AuthorityIsEarned' /\ PublishedIsAuthorized' /\ Present' = Present
    BY <1>1, Untouched, ExportStays DEF probe, files, review
<1>4. SignaturesAreMade'
    BY <1>1, <1>2 DEF PublicationInv, SignaturesAreMade, review
<1>5. held = {}
    BY <1>1 DEF PublicationInv, Phases
<1>6. Phases' /\ HeldLinesHold' /\ TrustedIsSound'
    BY <1>1, <1>2, <1>5 DEF PublicationInv, Phases, HeldLinesHold, TrustedIsSound
<1>7. SeenDuring'
    BY <1>1, <1>2, <1>3 DEF PublicationInv, SeenDuring, files
<1> QED BY <1>2, <1>3, <1>4, <1>6, <1>7 DEF PublicationInv

(* A line is held once its reviewer's key was allowed and had signed exactly that request. *)
LEMMA VerifyLineKeeps == ASSUME PublicationInv, VerifyLine PROVE PublicationInv'
<1>1. PICK l \in due : /\ SignatureHolds(l.request, l.signature)
                       /\ due' = due \ {l} /\ held' = held \cup {l}
    BY DEF VerifyLine
<1>2. /\ pc["export"] = "approvals"
      /\ UNCHANGED <<files, review, out, trusted, mode, during, probe, procs>>
    BY DEF VerifyLine
<1>3. Shape' /\ RefsAreNamed' /\ MoreIsEarned /\ AuthorityIsEarned' /\ PublishedIsAuthorized'
      /\ Present' = Present
    BY <1>2, Untouched, ExportStays DEF probe, files, review, procs
<1>4. SignaturesAreMade'
    BY <1>1, <1>2 DEF PublicationInv, SignaturesAreMade, review, procs
<1>5. /\ l.signature.key = l.request.reviewer /\ l.signature.bytes = l.request
      /\ l.signature.key \in during.keys
    BY <1>1, <1>2 DEF SignatureHolds, PublicationInv, SeenDuring
<1>6. HeldLinesHold'
    BY <1>1, <1>2, <1>5 DEF PublicationInv, HeldLinesHold
<1>7. Phases' /\ TrustedIsSound'
    BY <1>1, <1>2 DEF PublicationInv, Phases, TrustedIsSound, procs
<1>8. SeenDuring'
    BY <1>2, <1>3 DEF PublicationInv, SeenDuring, files, procs
<1> QED BY <1>3, <1>4, <1>6, <1>7, <1>8 DEF PublicationInv

(* The authority of an approved export: only a signed approval of this candidate
   for this report makes its context applicable. *)
LEMMA ApprovedIsSound ==
    ASSUME PublicationInv, pc["export"] = "approvals",
           NEW in, NEW x \in ApprovedAuthority(held, in, receipts["export"]).contexts
    PROVE  /\ x.current = NONE
           /\ x.scope.applicable =>
                /\ x.receipts \subseteq during.artifacts
                /\ \E s \in signed :
                     /\ s.key = s.bytes.reviewer /\ s.key \in during.keys
                     /\ s.bytes.report = Digest(in.report)
                     /\ x.cid = s.bytes.cid /\ x.record = Digest(s.bytes.record)
<1> DEFINE matched(c) == Matching(held, c, in.report)
           approval(c) == (CHOOSE l \in matched(c) : TRUE).request
           verified == receipts["export"]
<1>1. \/ \E c : matched(c) # {} /\ x = Context(c, TRUE, Adjudication(approval(c)), verified, NONE)
      \/ \E c : x = Context(c, FALSE, NONE, verified, NONE)
    BY DEF ApprovedAuthority
<1>2. CASE \E c : x = Context(c, FALSE, NONE, verified, NONE)
    BY <1>2 DEF Context
<1>3. CASE \E c : matched(c) # {} /\ x = Context(c, TRUE, Adjudication(approval(c)), verified, NONE)
    <2>1. PICK c : matched(c) # {} /\ x = Context(c, TRUE, Adjudication(approval(c)), verified, NONE)
        BY <1>3
    <2>2. PICK l \in held : Matches(l.request, c, in.report)
        BY <2>1 DEF Matching
    <2>3. /\ x.current = NONE /\ x.cid = c.cid /\ x.record = Digest(c.record)
          /\ x.receipts \subseteq verified
        BY <2>1 DEF Context
    <2>4. verified \subseteq during.artifacts
        BY DEF PublicationInv, SeenDuring
    <2>5. /\ l.signature \in signed /\ l.signature.key = l.request.reviewer
          /\ l.signature.bytes = l.request /\ l.signature.key \in during.keys
        BY <2>2 DEF PublicationInv, SignaturesAreMade, HeldLinesHold
    <2>6. /\ l.request.cid = c.cid /\ l.request.report = Digest(in.report)
          /\ Digest(l.request.record) = Digest(c.record)
        BY <2>2 DEF Matches
    <2> HIDE DEF verified
    <2> QED BY <2>3, <2>4, <2>5, <2>6
<1> QED BY <1>1, <1>2, <1>3

(* So the authority an approved export goes on with is sound. *)
LEMMA AuthorizeApprovedKeeps == ASSUME PublicationInv, AuthorizeApproved PROVE PublicationInv'
<1> DEFINE t == ApprovedAuthority(held, load["export"], receipts["export"])
<1>1. /\ pc["export"] = "approvals" /\ due = {} /\ trusted' = t /\ GoTo("export", "reread")
      /\ UNCHANGED <<files, review, out, due, held, mode, during, probe>>
    BY DEF AuthorizeApproved
<1>2. Shape' /\ RefsAreNamed' /\ pc'["export"] = "reread" /\ pc'["review"] = pc["review"]
      /\ receipts'["export"] = {}
    BY <1>1, GoesTo DEF Procs, files
<1>3. MoreIsEarned /\ AuthorityIsEarned' /\ PublishedIsAuthorized' /\ Present' = Present
    BY <1>1, Untouched, ExportStays DEF probe, files, review
<1>4. SignaturesAreMade'
    BY <1>1, <1>2 DEF PublicationInv, SignaturesAreMade, review
<1>5. mode = "approved"
    BY <1>1 DEF PublicationInv, Phases
<1>6. ASSUME NEW x \in t.contexts PROVE ApprovedContext(x)'
    <2>1. t.report = Digest(load["export"].report)
        BY DEF ApprovedAuthority
    <2>2. /\ x.current = NONE
          /\ x.scope.applicable =>
               /\ x.receipts \subseteq during.artifacts
               /\ \E s \in signed :
                    /\ s.key = s.bytes.reviewer /\ s.key \in during.keys
                    /\ s.bytes.report = Digest(load["export"].report)
                    /\ x.cid = s.bytes.cid /\ x.record = Digest(s.bytes.record)
        BY <1>1, <1>6, ApprovedIsSound
    <2> HIDE DEF t
    <2> QED BY <1>1, <2>1, <2>2 DEF ApprovedContext, review
<1> HIDE DEF t
<1>7. TrustedIsSound'
    BY <1>1, <1>2, <1>5, <1>6 DEF TrustedIsSound
<1>8. Phases' /\ HeldLinesHold'
    BY <1>1, <1>2, <1>5 DEF PublicationInv, Phases, HeldLinesHold
<1>9. SeenDuring'
    BY <1>1, <1>2, <1>3 DEF PublicationInv, SeenDuring, files
<1> QED BY <1>2, <1>3, <1>4, <1>7, <1>8, <1>9 DEF PublicationInv

(* An integrity export goes on with contexts that apply to nothing. *)
LEMMA AuthorizeIntegrityKeeps == ASSUME PublicationInv, AuthorizeIntegrity PROVE PublicationInv'
<1> DEFINE t == IntegrityAuthority(load["export"], receipts["export"])
<1>1. /\ pc["export"] = "load" /\ mode = "integrity" /\ trusted' = t /\ GoTo("export", "reread")
      /\ UNCHANGED <<files, review, out, due, held, mode, during, probe>>
    BY DEF AuthorizeIntegrity, Verified, Loaded
<1>2. Shape' /\ RefsAreNamed' /\ pc'["export"] = "reread" /\ pc'["review"] = pc["review"]
      /\ receipts'["export"] = {}
    BY <1>1, GoesTo DEF Procs, files
<1>3. MoreIsEarned /\ AuthorityIsEarned' /\ PublishedIsAuthorized' /\ Present' = Present
    BY <1>1, Untouched, ExportStays DEF probe, files, review
<1>4. SignaturesAreMade'
    BY <1>1, <1>2 DEF PublicationInv, SignaturesAreMade, review
<1>5. ASSUME NEW x \in t.contexts PROVE ~x.scope.applicable
    BY <1>5 DEF IntegrityAuthority, Context
<1> HIDE DEF t
<1>6. TrustedIsSound'
    BY <1>1, <1>2, <1>5 DEF TrustedIsSound
<1>7. Phases' /\ HeldLinesHold'
    BY <1>1, <1>2 DEF PublicationInv, Phases, HeldLinesHold
<1>8. SeenDuring'
    BY <1>1, <1>2, <1>3 DEF PublicationInv, SeenDuring, files
<1> QED BY <1>2, <1>3, <1>4, <1>6, <1>7, <1>8 DEF PublicationInv

(* What is written is authorized, and the export starts over. *)
LEMMA PublishKeeps == ASSUME PublicationInv, Publish PROVE PublicationInv'
<1>1. /\ pc["export"] = "reread" /\ GoTo("export", "idle") /\ Forget
      /\ out'.mode = mode
      /\ UNCHANGED <<files, review, probe>>
    BY DEF Publish
<1>2. Shape' /\ RefsAreNamed' /\ pc'["export"] = "idle" /\ pc'["review"] = pc["review"]
    BY <1>1, GoesTo DEF Procs, files
<1>3. MoreIsEarned /\ AuthorityIsEarned' /\ PublishedIsAuthorized'
    BY <1>1, Untouched, PublishAuthorizes DEF probe, files, review
<1>4. SignaturesAreMade'
    BY <1>1, <1>2 DEF PublicationInv, SignaturesAreMade, review, Forget
<1>5. Phases' /\ SeenDuring' /\ HeldLinesHold' /\ TrustedIsSound'
    BY <1>1, <1>2 DEF PublicationInv, Phases, SeenDuring, HeldLinesHold, TrustedIsSound, Forget, files
<1> QED BY <1>2, <1>3, <1>4, <1>5 DEF PublicationInv

----------------------------------------------------------------------------
(* Everyone else: whatever is put on file while an export is under way is noted,
   and a trusted authority speaks for signed approvals and promoted probes. *)
LEMMA CandidatesKeep ==
    ASSUME PublicationInv, ReplaceReport \/ ReplaceCandidates PROVE PublicationInv'
<1>1. UNCHANGED <<artifact, signers, authority, review, export, probe, procs>>
    BY DEF ReplaceReport, ReplaceCandidates
<1>2. MoreIsEarned /\ AuthorityIsEarned' /\ SignaturesAreMade'
    BY <1>1, Untouched DEF review, export, probe, procs
<1>3. Phases' /\ SeenDuring' /\ HeldLinesHold' /\ TrustedIsSound' /\ PublishedIsAuthorized'
    BY <1>1, <1>2, ExportAside, ReviewHere DEF export, procs
<1>4. Shape' /\ Named(disk'.cands)
    <2>1. CASE ReplaceReport
        <3>1. PICK r : disk' = [disk EXCEPT !.report = r]
            BY <2>1 DEF ReplaceReport
        <3> QED BY <1>1, <3>1 DEF PublicationInv, Shape, RefsAreNamed, Inputs, procs
    <2>2. CASE ReplaceCandidates
        <3>1. PICK cs \in CandidateSets, e \in {entry, Forged} :
                disk' = [disk EXCEPT !.cands = Stamped(cs, e)]
            BY <2>2 DEF ReplaceCandidates
        <3>2. disk'.cands = Stamped(cs, e) /\ Shape'
            BY <1>1, <3>1 DEF PublicationInv, Shape, Inputs, procs
        <3>3. \A k \in DOMAIN cs : Stamped(cs, e)[k].record = cs[k].record
            <4> TAKE k \in DOMAIN cs
            <4>1. "record" \in DOMAIN cs[k]
                BY CandidateAssumption
            <4> QED BY <4>1 DEF Stamped
        <3>4. Named(Stamped(cs, e))
            BY <3>3, CandidateAssumption DEF Named, Assessed, ABSENT, Stamped
        <3> QED BY <3>2, <3>4
    <2> QED BY <2>1, <2>2
<1>5. RefsAreNamed'
    BY <1>1, <1>4 DEF PublicationInv, RefsAreNamed, Named, Assessed, procs
<1> QED BY <1>2, <1>3, <1>4, <1>5 DEF PublicationInv

(* An artifact put on file and a key allowed during an export are noted. *)
LEMMA EvidenceKeeps ==
    ASSUME PublicationInv, ReplaceArtifact \/ ChangeSigners PROVE PublicationInv'
<1>1. UNCHANGED <<disk, authority, review, out, due, held, trusted, mode, probe, procs>>
    BY DEF ReplaceArtifact, ChangeSigners
<1>2. MoreIsEarned /\ AuthorityIsEarned' /\ SignaturesAreMade' /\ Shape' /\ RefsAreNamed'
    BY <1>1, Untouched DEF review, probe, procs
<1>3. ASSUME pc["export"] # "idle"
      PROVE  /\ during.keys \subseteq during'.keys /\ during.artifacts \subseteq during'.artifacts
             /\ signers' \subseteq during'.keys /\ Present' \subseteq during'.artifacts
    <2>1. signers \subseteq during.keys /\ Present \subseteq during.artifacts
        BY <1>3 DEF PublicationInv, SeenDuring
    <2>2. CASE ReplaceArtifact
        <3>1. PICK r \in Refs, c \in Contents \cup {ABSENT} :
               /\ artifact' = [artifact EXCEPT ![r] = c]
               /\ Witness({}, IF c = ABSENT THEN {} ELSE {[ref |-> r, sha |-> c]})
            BY <2>2 DEF ReplaceArtifact
        <3> DEFINE new == IF c = ABSENT THEN {} ELSE {[ref |-> r, sha |-> c]}
        <3>2. during' = [keys |-> during.keys, artifacts |-> during.artifacts \cup new]
            BY <1>3, <3>1 DEF Witness, Active
        <3>3. Present' \subseteq Present \cup new
            <4> SUFFICES ASSUME NEW x \in Refs, artifact'[x] # ABSENT
                         PROVE  [ref |-> x, sha |-> artifact'[x]] \in Present \cup new
                BY DEF Present
            <4>1. CASE x = r
                BY <3>1, <4>1 DEF PublicationInv, SeenDuring
            <4>2. CASE x # r
                BY <3>1, <4>2 DEF Present
            <4> QED BY <4>1, <4>2
        <3>4. signers' = signers
            BY <2>2 DEF ReplaceArtifact
        <3> HIDE DEF new
        <3> QED BY <2>1, <3>2, <3>3, <3>4
    <2>3. CASE ChangeSigners
        <3>1. PICK ks : signers' = ks /\ Witness(ks, {})
            BY <2>3 DEF ChangeSigners
        <3>2. during' = [keys |-> during.keys \cup ks, artifacts |-> during.artifacts \cup {}]
            BY <1>3, <3>1 DEF Witness, Active
        <3>3. Present' = Present
            BY <2>3, Untouched DEF ChangeSigners
        <3> QED BY <2>1, <3>1, <3>2, <3>3
    <2> QED BY <2>2, <2>3
<1>4. Phases' /\ SeenDuring' /\ HeldLinesHold' /\ TrustedIsSound' /\ PublishedIsAuthorized'
    <2>1. DOMAIN artifact' = DOMAIN artifact
        BY DEF ReplaceArtifact, ChangeSigners
    <2> QED BY <1>1, <1>2, <1>3, <2>1, ExportUntouched, ReviewHere DEF procs
<1> QED BY <1>2, <1>4 DEF PublicationInv

(* Who edits the store or the request makes no signature. *)
LEMMA StoreKeeps ==
    ASSUME PublicationInv, AlterRequest \/ ForgeLine \/ RepairStore PROVE PublicationInv'
<1>1. UNCHANGED <<files, signature, signed, export, probe, procs>>
    BY DEF AlterRequest, ForgeLine, RepairStore
<1>2. MoreIsEarned /\ AuthorityIsEarned' /\ Shape' /\ RefsAreNamed'
    BY <1>1, Untouched DEF files, probe, procs
<1>3. \A x \in store'.envelopes : x.signature \in signed
    <2>1. \A x \in store.envelopes : x.signature \in signed
        BY DEF PublicationInv, SignaturesAreMade
    <2>2. CASE AlterRequest \/ RepairStore
        BY <2>1, <2>2 DEF AlterRequest, RepairStore
    <2>3. CASE ForgeLine
        <3>1. PICK s \in signed :
                \E q : store' = AppendLine(store, [request |-> q, signature |-> s])
            BY <2>3 DEF ForgeLine
        <3>2. PICK q : store' = AppendLine(store, [request |-> q, signature |-> s])
            BY <3>1
        <3> QED BY <2>1, <3>2 DEF AppendLine
    <2> QED BY <2>2, <2>3
<1>4. SignaturesAreMade'
    BY <1>1, <1>3 DEF PublicationInv, SignaturesAreMade, export, procs
<1>5. Phases' /\ SeenDuring' /\ HeldLinesHold' /\ TrustedIsSound' /\ PublishedIsAuthorized'
    BY <1>1, <1>2, ExportAside, ReviewHere DEF files, export, procs
<1> QED BY <1>2, <1>4, <1>5 DEF PublicationInv

(* An authority file speaks for signed approvals and, if trusted, for the probe's own review. *)
LEMMA WriteAuthorityKeeps ==
    ASSUME PublicationInv, TrustInv, WriteAuthority PROVE PublicationInv'
<1>1. UNCHANGED <<disk, artifact, signers, review, export, probe, procs>>
    BY DEF WriteAuthority
<1>2. MoreIsEarned /\ SignaturesAreMade' /\ Shape' /\ RefsAreNamed'
    BY <1>1, Untouched DEF review, export, probe, procs
<1>3. Phases' /\ SeenDuring' /\ HeldLinesHold' /\ TrustedIsSound' /\ PublishedIsAuthorized'
    BY <1>1, <1>2, ExportAside, ReviewHere DEF export, procs
<1> DEFINE ds == {Digest(Adjudication(s.bytes)) : s \in {s \in signed : s.key = s.bytes.reviewer}}
                 \cup {Digest(e.review) : e \in {e \in {entry} : e.maturity = "trusted"}}
<1>4. authority'.reviews = ds
    BY DEF WriteAuthority
<1>5. ReviewsAreEarned(ds)
    <2> SUFFICES ASSUME NEW d \in ds
                 PROVE  \/ \E s \in signed : s.key = s.bytes.reviewer /\ d = Digest(Adjudication(s.bytes))
                        \/ \E r \in {d[2]} : /\ d = Digest(r) /\ r.decision = "approve_trusted"
                                             /\ r.digests \in passed \cap vouched
        BY DEF ReviewsAreEarned
    <2>1. CASE \E s \in signed : s.key = s.bytes.reviewer /\ d = Digest(Adjudication(s.bytes))
        BY <2>1
    <2>2. CASE entry.maturity = "trusted" /\ d = Digest(entry.review)
        <3>1. d[2] = entry.review
            BY <2>2 DEF Digest
        <3> QED BY <2>2, <3>1 DEF TrustInv, TrustIsReviewed
    <2> QED BY <2>1, <2>2
<1> HIDE DEF ds
<1>6. AuthorityIsEarned'
    <2>1. ReviewsAreEarned(ds)'
        BY <1>1, <1>5 DEF ReviewsAreEarned, review, probe, ds
    <2> QED BY <1>1, <1>4, <2>1 DEF AuthorityIsEarned, ReviewsAreEarned, review, probe, ds
<1> QED BY <1>2, <1>3, <1>6 DEF PublicationInv

(* A promotion only adds to what passed and was approved. *)
LEMMA TrialKeeps ==
    ASSUME PublicationInv,
           \/ EditEntry \/ EditImplementation \/ RunGate
           \/ \E who \in Reviewers : ReviewProbe(who)
    PROVE  PublicationInv'
<1>1. UNCHANGED <<files, review, export, procs>>
    BY DEF EditEntry, EditImplementation, RunGate, ReviewProbe
<1>2. MoreIsEarned
    <2>1. signed' = signed
        BY <1>1 DEF review
    <2>2. passed \subseteq passed' /\ vouched \subseteq vouched'
        BY DEF EditEntry, EditImplementation, RunGate, ReviewProbe
    <2> QED BY <2>1, <2>2 DEF MoreIsEarned
<1>3. SignaturesAreMade' /\ Shape' /\ RefsAreNamed' /\ AuthorityIsEarned'
    BY <1>1, <1>2, Untouched DEF files, review, export, procs
<1>4. Phases' /\ SeenDuring' /\ HeldLinesHold' /\ TrustedIsSound' /\ PublishedIsAuthorized'
    BY <1>1, <1>2, ExportAside, ReviewHere DEF files, export, procs
<1> QED BY <1>3, <1>4 DEF PublicationInv

(* Nothing was read, signed or exported yet. *)
LEMMA PublicationInitially == Init => PublicationInv
<1> SUFFICES ASSUME Init PROVE PublicationInv
    OBVIOUS
<1>1. DOMAIN disk = Inputs /\ disk.cands \in CandidateSets
    BY DEF Init, Inputs
<1>2. DOMAIN Unread = Inputs /\ Unread.cands = NONE
    BY DEF Unread, Inputs
<1>3. Shape
    BY <1>1, <1>2 DEF Init, Shape
<1>4. RefsAreNamed
    BY <1>1, <1>2, CandidateAssumption DEF Init, RefsAreNamed, Named, Assessed, ABSENT
<1>5. SignaturesAreMade /\ AuthorityIsEarned /\ PublishedIsAuthorized
    BY DEF Init, SignaturesAreMade, AuthorityIsEarned, PublishedIsAuthorized, Procs
<1>6. Phases /\ SeenDuring /\ HeldLinesHold /\ TrustedIsSound
    BY DEF Init, Phases, SeenDuring, HeldLinesHold, TrustedIsSound, Procs
<1> QED BY <1>3, <1>4, <1>5, <1>6 DEF PublicationInv

(* Every step, whoever takes it, keeps what an export works with sound. *)
LEMMA PublicationPreserved ==
    ASSUME PublicationInv, TrustInv, [Next]_vars PROVE PublicationInv'
<1>1. CASE UNCHANGED vars
    <2>1. UNCHANGED <<files, review, export, probe, procs>>
        BY <1>1 DEF vars
    <2>2. MoreIsEarned /\ SignaturesAreMade' /\ Shape' /\ RefsAreNamed' /\ AuthorityIsEarned'
        BY <2>1, Untouched DEF files, review, export, probe, procs
    <2> QED BY <2>1, <2>2, ExportAside, ReviewHere DEF PublicationInv, files, export, procs
<1>2. ASSUME NEW p \in Procs, ReadInput(p) \/ VerifyArtifact(p) PROVE PublicationInv'
    BY <1>2, ReadInputKeeps, VerifyArtifactKeeps
<1>3. CASE \/ \E c \in Names, who \in Reviewers : StartReview(c, who)
           \/ StopReview \/ PrepareRequest \/ VerifyRequest \/ AppendApproval \/ TearApproval
    BY <1>3, ReviewStepsKeep
<1>4. ASSUME NEW who \in Reviewers, Sign(who) PROVE PublicationInv'
    BY <1>4, SignKeeps
<1>5. ASSUME NEW m \in Modes, StartExport(m) PROVE PublicationInv'
    BY <1>5, StartExportKeeps
<1>6. CASE StopExport \/ ReadStore \/ VerifyLine \/ AuthorizeApproved \/ AuthorizeIntegrity \/ Publish
    BY <1>6, StopExportKeeps, ReadStoreKeeps, VerifyLineKeeps, AuthorizeApprovedKeeps,
       AuthorizeIntegrityKeeps, PublishKeeps
<1>7. CASE Others
    BY <1>7, CandidatesKeep, EvidenceKeeps, StoreKeeps, WriteAuthorityKeeps, TrialKeeps DEF Others
<1> QED BY <1>1, <1>2, <1>3, <1>4, <1>5, <1>6, <1>7 DEF Next

(* What an export works with is sound at every one of its steps: what it read names
   artifacts, what it verified was on file, what it holds was signed with a key that
   was allowed, and its authority speaks for approvals somebody gave. *)
THEOREM PublicationInvariant == Spec => []PublicationInv
<1>1. PublicationInv /\ TrustInv /\ [Next]_vars => PublicationInv'
    BY PublicationPreserved
<1> QED BY <1>1, PublicationInitially, TrustInvariant, PTL DEF Spec

(* Whatever the files become between the two times an export reads them, every
   finding it lets out is authorized: by a signature over exactly its record and the
   report, with a key that was allowed and evidence that was on file during that very
   export; by a signed approval of its versions; or by a probe whose digests passed
   the gate and a person approved. An integrity export lets nothing out. *)
THEOREM PublicationIsAuthorized == Spec => []PublishedIsAuthorized
<1>1. PublicationInv => PublishedIsAuthorized
    BY DEF PublicationInv
<1> QED BY <1>1, PublicationInvariant, PTL

----------------------------------------------------------------------------
(* TypeOK: what the invariant does not say of the files, the probe and the bounds. *)
FilesAreTyped ==
  /\ disk.report \in Reports
  /\ artifact \in [Refs -> Contents \cup {ABSENT}]
  /\ signers \subseteq Reviewers
  /\ store.garbage \in BOOLEAN /\ store.torn \in BOOLEAN

EntryIsTyped == entry.maturity \in {"candidate", "trusted", "retired"}

BoundsAreKept ==
  /\ edits \in 0..MaxEdits /\ trials \in 0..MaxTrials
  /\ requests \in 0..MaxRequests /\ exports \in 0..MaxExports

(* Nobody writes to a file what does not belong there. *)
LEMMA FilesStayTyped ==
    ASSUME PublicationInv, FilesAreTyped, [Next]_vars PROVE FilesAreTyped'
<1>1. ASSUME UNCHANGED <<files, store>> PROVE FilesAreTyped'
    BY <1>1 DEF FilesAreTyped, files
<1>2. CASE UNCHANGED vars
    BY <1>1, <1>2 DEF vars, review
<1>3. ASSUME NEW p \in Procs, ReadInput(p) \/ VerifyArtifact(p) PROVE FilesAreTyped'
    BY <1>1, <1>3 DEF ReadInput, VerifyArtifact, review
<1>4. CASE \/ \E c \in Names, who \in Reviewers : StartReview(c, who)
           \/ StopReview \/ PrepareRequest \/ VerifyRequest
    BY <1>1, <1>4 DEF StartReview, StopReview, PrepareRequest, VerifyRequest, review
<1>5. ASSUME NEW who \in Reviewers, Sign(who) PROVE FilesAreTyped'
    BY <1>1, <1>5 DEF Sign
<1>6. ASSUME UNCHANGED files, store'.garbage \in BOOLEAN, store'.torn \in BOOLEAN
      PROVE  FilesAreTyped'
    BY <1>6 DEF FilesAreTyped, files
<1>7. CASE AppendApproval \/ TearApproval \/ ForgeLine \/ RepairStore
    <2>1. store.garbage \in BOOLEAN /\ store.torn \in BOOLEAN
        BY DEF FilesAreTyped
    <2>2. \A l : AppendLine(store, l).garbage \in BOOLEAN /\ AppendLine(store, l).torn \in BOOLEAN
        BY <2>1 DEF AppendLine
    <2>3. UNCHANGED files /\ \/ \E l : store' = AppendLine(store, l)
                             \/ store'.garbage = store.garbage /\ store'.torn \in BOOLEAN
        <3>1. CASE AppendApproval \/ ForgeLine
            BY <3>1 DEF AppendApproval, ForgeLine
        <3>2. CASE TearApproval \/ RepairStore
            <4>1. PICK b \in BOOLEAN :
                    store' = [envelopes |-> store.envelopes, garbage |-> store.garbage, torn |-> b]
                BY <3>2 DEF TearApproval, RepairStore
            <4>2. store'.garbage = store.garbage /\ store'.torn \in BOOLEAN
                BY <4>1
            <4> QED BY <3>2, <4>2 DEF TearApproval, RepairStore
        <3> QED BY <1>7, <3>1, <3>2
    <2> QED BY <1>6, <2>1, <2>2, <2>3
<1>8. CASE StopExport \/ (\E m \in Modes : StartExport(m)) \/ ReadStore \/ VerifyLine
           \/ AuthorizeApproved \/ AuthorizeIntegrity \/ Publish
    BY <1>1, <1>8 DEF StopExport, StartExport, ReadStore, VerifyLine, AuthorizeApproved,
                      AuthorizeIntegrity, Publish, review
<1>9. CASE AlterRequest \/ EditEntry \/ EditImplementation \/ RunGate
           \/ \E who \in Reviewers : ReviewProbe(who)
    BY <1>1, <1>9 DEF AlterRequest, EditEntry, EditImplementation, RunGate, ReviewProbe, review
<1>10. CASE WriteAuthority
    BY <1>10 DEF WriteAuthority, FilesAreTyped, review
<1>11. CASE ReplaceReport
    <2>1. PICK r \in Reports : disk' = [disk EXCEPT !.report = r]
        BY <1>11 DEF ReplaceReport
    <2>2. disk'.report = r
        BY <2>1 DEF PublicationInv, Shape, Inputs
    <2> QED BY <1>11, <2>2 DEF ReplaceReport, FilesAreTyped, review
<1>12. CASE ReplaceCandidates
    <2>1. PICK cs : disk' = [disk EXCEPT !.cands = cs]
        BY <1>12 DEF ReplaceCandidates
    <2>2. disk'.report = disk.report
        BY <2>1 DEF PublicationInv, Shape, Inputs
    <2> QED BY <1>12, <2>2 DEF ReplaceCandidates, FilesAreTyped, review
<1>13. CASE ReplaceArtifact \/ ChangeSigners
    BY <1>13 DEF ReplaceArtifact, ChangeSigners, FilesAreTyped, review
<1> QED BY <1>2, <1>3, <1>4, <1>5, <1>7, <1>8, <1>9, <1>10, <1>11, <1>12, <1>13 DEF Next, Others

(* A decision leaves an entry in one of the maturities. *)
LEMMA DecisionsAreTyped ==
    ASSUME NEW e, NEW r, NEW d, NEW g,
           e.maturity \in {"candidate", "trusted", "retired"},
           r.decision \in {"approve_trusted", "reject", "needs_changes"}
    PROVE  ApplyDecision(e, r, d, g).maturity \in {"candidate", "trusted", "retired"}
<1> DEFINE m == CASE r.decision = "approve_trusted" -> "trusted"
                  [] r.decision = "reject" -> "retired"
                  [] r.decision = "needs_changes" -> "candidate"
<1>1. m \in {"candidate", "trusted", "retired"}
    OBVIOUS
<1>2. CASE Applicable(e, r, d, g)
    <2>1. ApplyDecision(e, r, d, g)
            = [claim |-> e.claim, version |-> e.version, review |-> r, maturity |-> m]
        BY <1>2 DEF ApplyDecision
    <2> HIDE DEF m
    <2> QED BY <1>1, <2>1
<1>3. CASE ~Applicable(e, r, d, g)
    BY <1>3 DEF ApplyDecision
<1> QED BY <1>2, <1>3

(* Only edits and decisions touch the entry. *)
LEMMA EntryStaysTyped ==
    ASSUME EntryIsTyped, [Next]_vars PROVE EntryIsTyped'
<1>1. ASSUME UNCHANGED entry PROVE EntryIsTyped'
    BY <1>1 DEF EntryIsTyped
<1>2. CASE EditEntry
    BY <1>2 DEF EditEntry, EntryIsTyped
<1>3. ASSUME NEW who \in Reviewers, ReviewProbe(who) PROVE EntryIsTyped'
    <2>1. PICK d \in {"approve_trusted", "reject", "needs_changes"}, synthetic \in BOOLEAN,
               seen \in {CurrentDigests} \cup passed :
            entry' = ApplyDecision(entry, [reviewer |-> who, decision |-> d, synthetic |-> synthetic,
                                           digests |-> seen], CurrentDigests, gate)
        BY <1>3 DEF ReviewProbe
    <2> DEFINE r == [reviewer |-> who, decision |-> d, synthetic |-> synthetic, digests |-> seen]
    <2>2. r.decision \in {"approve_trusted", "reject", "needs_changes"}
        OBVIOUS
    <2>3. entry' = ApplyDecision(entry, r, CurrentDigests, gate)
        BY <2>1
    <2> HIDE DEF r
    <2> QED BY <2>2, <2>3, DecisionsAreTyped DEF EntryIsTyped
<1>4. ASSUME ~(EditEntry \/ \E who \in Reviewers : ReviewProbe(who)) PROVE UNCHANGED entry
    BY <1>4 DEF Next, Others, vars, probe, ReadInput, VerifyArtifact, StartReview, StopReview,
       StopExport, PrepareRequest, VerifyRequest, AppendApproval, TearApproval, Sign, StartExport,
       ReadStore, VerifyLine, AuthorizeApproved, AuthorizeIntegrity, Publish, ReplaceReport,
       ReplaceCandidates, ReplaceArtifact, ChangeSigners, AlterRequest, ForgeLine, RepairStore,
       WriteAuthority, EditImplementation, RunGate
<1> QED BY <1>1, <1>2, <1>3, <1>4

(* Whatever is counted is counted below its bound. *)
LEMMA BoundsStayKept ==
    ASSUME BoundsAreKept, [Next]_vars PROVE BoundsAreKept'
<1>1. ASSUME UNCHANGED bounds PROVE BoundsAreKept'
    BY <1>1 DEF BoundsAreKept, bounds
<1>2. ASSUME Edit PROVE BoundsAreKept'
    BY <1>2, PublicationAssumption DEF Edit, BoundsAreKept
<1>3. ASSUME Trial PROVE BoundsAreKept'
    BY <1>3, PublicationAssumption DEF Trial, BoundsAreKept
<1>4. ASSUME NEW c \in Names, NEW who \in Reviewers, StartReview(c, who) PROVE BoundsAreKept'
    BY <1>4, PublicationAssumption DEF StartReview, BoundsAreKept
<1>5. ASSUME NEW m \in Modes, StartExport(m) PROVE BoundsAreKept'
    BY <1>5, PublicationAssumption DEF StartExport, BoundsAreKept
<1>6. CASE Others
    BY <1>2, <1>3, <1>6 DEF Others, ReplaceReport, ReplaceCandidates, ReplaceArtifact,
       ChangeSigners, AlterRequest, ForgeLine, RepairStore, WriteAuthority, EditEntry,
       EditImplementation, RunGate, ReviewProbe
<1>7. ASSUME ~Others, ~(\E c \in Names, who \in Reviewers : StartReview(c, who)),
             ~(\E m \in Modes : StartExport(m))
      PROVE  UNCHANGED bounds
    BY <1>7 DEF Next, vars, ReadInput, VerifyArtifact, StopReview, StopExport, PrepareRequest,
       VerifyRequest, AppendApproval, TearApproval, Sign, ReadStore, VerifyLine,
       AuthorizeApproved, AuthorizeIntegrity, Publish
<1> QED BY <1>1, <1>4, <1>5, <1>6, <1>7

(* Every file and process holds what its writers may have put there, and no bound is
   overrun. *)
THEOREM PublicationTypes == Spec => []TypeOK
<1> DEFINE Typed == FilesAreTyped /\ EntryIsTyped /\ BoundsAreKept
<1>1. Init => Typed
    <2> SUFFICES ASSUME Init PROVE Typed
        OBVIOUS
    <2>1. FilesAreTyped
        BY DEF Init, FilesAreTyped
    <2>2. BoundsAreKept
        BY PublicationAssumption DEF Init, BoundsAreKept
    <2>3. EntryIsTyped
        <3>1. CASE entry = [claim |-> "claim", version |-> 1, maturity |-> "candidate", review |-> NONE]
            BY <3>1 DEF EntryIsTyped
        <3>2. ASSUME NEW who \in Reviewers, NEW cases \in Validations, Promoted(who, cases)
              PROVE  EntryIsTyped
            <4> DEFINE e == [claim |-> "claim", version |-> 1, maturity |-> "candidate", review |-> NONE]
            <4>1. PICK d : entry = ApplyDecision(e, [reviewer |-> who, decision |-> "approve_trusted",
                                                     synthetic |-> FALSE, digests |-> d], d, gate)
                BY <3>2 DEF Promoted
            <4> DEFINE r == [reviewer |-> who, decision |-> "approve_trusted", synthetic |-> FALSE,
                             digests |-> d]
            <4>2. r.decision = "approve_trusted" /\ e.maturity = "candidate"
                OBVIOUS
            <4>3. entry = ApplyDecision(e, r, d, gate)
                BY <4>1
            <4> HIDE DEF e, r
            <4> QED BY <4>2, <4>3, DecisionsAreTyped DEF EntryIsTyped
        <3> QED BY <3>1, <3>2 DEF Init
    <2> QED BY <2>1, <2>2, <2>3
<1>2. Typed /\ PublicationInv /\ [Next]_vars => Typed'
    BY FilesStayTyped, EntryStaysTyped, BoundsStayKept
<1>3. Typed /\ PublicationInv => TypeOK
    <2> SUFFICES ASSUME Typed, PublicationInv PROVE TypeOK
        OBVIOUS
    <2>1. /\ pc["review"] \in {"idle", "load", "append"}
          /\ pc["export"] \in {"idle", "load", "approvals", "reread"}
          /\ pc["export"] # "approvals" => due = {}
          /\ held \cap due = {}
        BY DEF PublicationInv, Phases
    <2>2. /\ signature # NONE => signature \in signed
          /\ \A l \in store.envelopes \cup due \cup held : l.signature \in signed
        BY DEF PublicationInv, SignaturesAreMade
    <2> QED BY <2>1, <2>2 DEF TypeOK, FilesAreTyped, EntryIsTyped, BoundsAreKept
<1> HIDE DEF Typed
<1> QED BY <1>1, <1>2, <1>3, PublicationInvariant, PTL DEF Spec
=============================================================================
