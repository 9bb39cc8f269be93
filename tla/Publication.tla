----------------------------- MODULE Publication -----------------------------
(* How a finding gets out of the house: report/publication.ts,               *)
(* report/local-approval.ts and report/local-integrity.ts over files that    *)
(* other programs replace while a command runs. A reviewer prepares a        *)
(* request for a candidate, signs it and records it; an exporter verifies    *)
(* evidence and approvals, reads the report and the candidates a second time *)
(* and writes what the policy lets through. The catalogue's probe goes       *)
(* through its gate alongside. Paths are fixed, so that no output aliases an *)
(* input; ids and dates of a request are left out.                           *)
EXTENDS EvidencePolicy, Integers, Sequences

CONSTANTS
  Reports,        \* contents of the report file
  CandidateSets,  \* contents of the candidates file: sequences of candidates
  Refs,           \* names of evidence artifacts
  Contents,       \* digests of what an artifact's path may hold
  Reviewers,      \* people with a signing key
  Validations,    \* what a validation record's cases may be
  Modes,          \* export commands: "approved", "integrity", "authority"
  MaxEdits,       \* bound on changes others make to files
  MaxTrials,      \* bound on steps of the probe's promotion
  MaxRequests,    \* bound on review requests
  MaxExports      \* bound on exports

ASSUME PublicationAssumption ==
  /\ Modes \subseteq {"approved", "integrity", "authority"}
  /\ {MaxEdits, MaxTrials, MaxRequests, MaxExports} \subseteq Nat

\* What an artifact reference of a candidate says of its file: a name and a digest.
ASSUME CandidateAssumption ==
  \A cs \in CandidateSets : \A k \in DOMAIN cs :
    /\ "record" \in DOMAIN cs[k]
    /\ IsAssessment(cs[k].record) =>
         \A r \in cs[k].record.refs :
           r = [ref |-> r.ref, sha |-> r.sha] /\ r.ref \in Refs /\ r.sha # "absent"

Procs == {"review", "export"}
Inputs == {"report", "cands"}
ABSENT == "absent"    \* unbound, or no regular file of bounded size inside the evidence root

VARIABLES
  disk,        \* the files every command reads: report and cands
  artifact,    \* what each evidence path holds
  signers,     \* the allowed signers
  request,     \* the request file of the current review, or NONE
  signature,   \* its signature file, or NONE
  store,       \* the approval store: its envelopes, whether a line is garbage,
               \* and whether the last line lacks its newline
  authority,   \* the trusted authority file, or NONE
  out,         \* the export, or NONE
  entry,       \* the catalogue's entry of the probe
  impl,        \* the probe's implementation
  gate,        \* the last gate result with its validation record, or NONE
  pc, load, receipts,   \* per process: where it is, what it read, what it verified
  choice,      \* the review's candidate and reviewer
  due, held,   \* envelopes the exporter has to verify, and has verified
  trusted,     \* the authority an export works with
  mode,        \* the export's command
  signed,      \* every signature ever made
  recorded,    \* every request whose recording was acknowledged
  during,      \* keys allowed and artifacts present since the export began
  passed, vouched, \* digests that passed the gate; digests a person approved
  edits, trials, requests, exports

files == <<disk, artifact, signers, authority>>
review == <<request, signature, store, choice, signed, recorded>>
export == <<out, due, held, trusted, mode, during>>
probe == <<entry, impl, gate, passed, vouched>>
procs == <<pc, load, receipts>>
bounds == <<edits, trials, requests, exports>>
vars == <<files, review, export, probe, procs, bounds>>

Assessed(cs) == {c \in {cs[k] : k \in DOMAIN cs} : IsAssessment(c.record)}
CurrentDigests == [entry |-> EntryDigest(entry), implementation |-> Digest(impl)]
Present == {[ref |-> r, sha |-> artifact[r]] : r \in {x \in Refs : artifact[x] # ABSENT}}
Nothing == [keys |-> {}, artifacts |-> {}]
Unread == [f \in Inputs |-> NONE]
AllRead(p) == \A f \in Inputs : load[p][f] # NONE

\* A catalogue whose probe went through the gate and the hands of a reviewer.
Promoted(who, cases) ==
  LET e == [claim |-> "claim", version |-> 1, maturity |-> "candidate", review |-> NONE]
      d == [entry |-> EntryDigest(e), implementation |-> Digest(impl)]
      v == [entry |-> d.entry, implementation |-> d.implementation, cases |-> cases]
      decision == [reviewer |-> who, decision |-> "approve_trusted", synthetic |-> FALSE, digests |-> d]
  IN /\ Verdict(e, v, d) = "eligible_for_review"
     /\ gate = [result |-> EvaluateGate(e, v, d), record |-> v]
     /\ entry = ApplyDecision(e, decision, d, gate)
     /\ passed = {d} /\ vouched = {d}

Init ==
  /\ disk \in [report : Reports, cands : CandidateSets]
  /\ artifact \in [Refs -> Contents]
  /\ signers = Reviewers
  /\ request = NONE /\ signature = NONE /\ store = [envelopes |-> {}, garbage |-> FALSE, torn |-> FALSE]
  /\ authority = NONE /\ out = NONE
  /\ impl = 1
  /\ \/ /\ entry = [claim |-> "claim", version |-> 1, maturity |-> "candidate", review |-> NONE]
        /\ gate = NONE /\ passed = {} /\ vouched = {}
     \/ \E who \in Reviewers, cases \in Validations : Promoted(who, cases)
  /\ pc = [p \in Procs |-> "idle"]
  /\ load = [p \in Procs |-> Unread]
  /\ receipts = [p \in Procs |-> {}]
  /\ choice = NONE
  /\ due = {} /\ held = {} /\ trusted = NONE /\ mode = NONE
  /\ signed = {} /\ recorded = {} /\ during = Nothing
  /\ edits = 0 /\ trials = 0 /\ requests = 0 /\ exports = 0

-----------------------------------------------------------------------------
(* loadCandidateInputs, the same for both commands *)

GoTo(p, l) ==
  /\ pc' = [pc EXCEPT ![p] = l]
  /\ load' = [load EXCEPT ![p] = Unread]
  /\ receipts' = [receipts EXCEPT ![p] = {}]

\* The files are read side by side, in no order.
ReadInput(p) ==
  /\ pc[p] \in {"load", "reread"}
  /\ \E f \in Inputs :
       /\ load[p][f] = NONE
       /\ load' = [load EXCEPT ![p] = [@ EXCEPT ![f] = disk[f]]]
  /\ UNCHANGED <<files, review, export, probe, pc, receipts, bounds>>

Required(p) == UNION {c.record.refs : c \in Assessed(load[p].cands)}
Conflicting(refs) == \E r, s \in refs : r.ref = s.ref /\ r # s
Loaded(p) == pc[p] = "load" /\ AllRead(p) /\ ~Conflicting(Required(p))
Verified(p) == Loaded(p) /\ receipts[p] = Required(p)

\* One artifact at a time; one that is unbound, out of place or different ends the command.
VerifyArtifact(p) ==
  /\ Loaded(p)
  /\ \E r \in Required(p) \ receipts[p] :
       /\ artifact[r.ref] = r.sha
       /\ receipts' = [receipts EXCEPT ![p] = @ \cup {r}]
  /\ UNCHANGED <<files, review, export, probe, pc, load, bounds>>

\* An error at any point, or a kill: nothing was written.
StopReview ==
  /\ pc["review"] # "idle"
  /\ GoTo("review", "idle")
  /\ choice' = NONE
  /\ UNCHANGED <<files, request, signature, store, signed, recorded, export, probe, bounds>>

Forget == due' = {} /\ held' = {} /\ trusted' = NONE /\ mode' = NONE /\ during' = Nothing

(* A mutated stop: the lines to verify outlive the command. *)
StopExportOnly ==
  /\ pc["export"] # "idle"
  /\ GoTo("export", "idle")
  /\ UNCHANGED <<files, review, export, probe, bounds>>

StopExport ==
  /\ pc["export"] # "idle"
  /\ GoTo("export", "idle")
  /\ Forget
  /\ UNCHANGED <<files, review, out, probe, bounds>>

-----------------------------------------------------------------------------
(* The review: request, signature, record *)

\* A review works on a fresh path: writing a request never replaces one.
StartReview(cid, who) ==
  /\ pc["review"] = "idle"
  /\ requests < MaxRequests /\ trials = 0
  /\ requests' = requests + 1
  /\ GoTo("review", "load")
  /\ choice' = [cid |-> cid, reviewer |-> who]
  /\ request' = NONE /\ signature' = NONE
  /\ UNCHANGED <<files, export, probe, store, signed, recorded, edits, trials, exports>>

Reviewable(c) ==
  /\ c.cid = choice.cid
  /\ c.record.mode # "automated"
  /\ c.record.verification = "human_adjudicated"
  /\ c.observation # NONE

RequestFor(c, who, report) ==
  [reviewer |-> who, cid |-> c.cid, report |-> Digest(report),
   record |-> c.record, observation |-> c.observation, execution |-> c.execution]

PrepareRequest ==
  /\ Verified("review")
  /\ \E c \in Assessed(load["review"].cands) :
       /\ Reviewable(c)
       /\ request' = RequestFor(c, choice.reviewer, load["review"].report)
  /\ GoTo("review", "idle")
  /\ choice' = NONE
  /\ UNCHANGED <<files, export, probe, bounds, signature, store, signed, recorded>>

\* A person signs the bytes the request file holds.
Sign(who) ==
  /\ request # NONE /\ signature = NONE
  /\ signature' = [key |-> who, bytes |-> request]
  /\ signed' = signed \cup {signature'}
  /\ UNCHANGED <<files, export, probe, procs, bounds, request, store, choice, recorded>>

\* ssh-keygen: the named reviewer's key is allowed and signed exactly these bytes.
SignatureHolds(q, s) == q.reviewer \in signers /\ s.key = q.reviewer /\ s.bytes = q

\* A line written after an unfinished one becomes part of it.
AppendLine(s, l) ==
  [envelopes |-> IF s.torn THEN s.envelopes ELSE s.envelopes \cup {l}, garbage |-> s.garbage \/ s.torn, torn |-> FALSE]

VerifyRequest ==
  /\ pc["review"] = "idle"
  /\ request # NONE /\ signature # NONE
  /\ SignatureHolds(request, signature)
  /\ pc' = [pc EXCEPT !["review"] = "append"]
  /\ UNCHANGED <<files, review, export, probe, load, receipts, bounds>>

(* A mutated recording: without the look at the store's last byte. *)
AppendBlindly ==
  /\ pc["review"] = "append"
  /\ store' = AppendLine(store, [request |-> signature.bytes, signature |-> signature])
  /\ recorded' = recorded \cup {signature.bytes}
  /\ pc' = [pc EXCEPT !["review"] = "idle"]
  /\ UNCHANGED <<files, export, probe, load, receipts, bounds, request, signature, choice, signed>>

\* The store is extended only after a newline.
AppendApproval ==
  /\ pc["review"] = "append"
  /\ ~store.torn
  /\ store' = AppendLine(store, [request |-> signature.bytes, signature |-> signature])
  /\ recorded' = recorded \cup {signature.bytes}
  /\ pc' = [pc EXCEPT !["review"] = "idle"]
  /\ UNCHANGED <<files, export, probe, load, receipts, bounds, request, signature, choice, signed>>

\* Killed, or out of space, in the middle of the line.
TearApproval ==
  /\ pc["review"] = "append"
  /\ ~store.torn
  /\ store' = [envelopes |-> store.envelopes, garbage |-> store.garbage, torn |-> TRUE]
  /\ pc' = [pc EXCEPT !["review"] = "idle"]
  /\ UNCHANGED <<files, export, probe, load, receipts, bounds, request, signature, choice, signed, recorded>>

-----------------------------------------------------------------------------
(* The export *)

StartExport(m) ==
  /\ pc["export"] = "idle"
  /\ exports < MaxExports /\ trials <= 1
  /\ exports' = exports + 1
  /\ mode' = m
  /\ during' = [keys |-> signers, artifacts |-> Present]
  /\ IF m = "authority"
     THEN authority # NONE /\ trusted' = authority /\ GoTo("export", "reread")
     ELSE trusted' = NONE /\ GoTo("export", "load")
  /\ due' = {} /\ held' = {}
  /\ UNCHANGED <<files, review, probe, out, edits, trials, requests>>

\* The whole store is read, then verified line by line against the signers of the
\* moment; one line that is garbage or not vouched for ends the command.
ReadStore ==
  /\ Verified("export")
  /\ mode = "approved"
  /\ ~store.garbage /\ ~store.torn
  /\ due' = store.envelopes
  /\ pc' = [pc EXCEPT !["export"] = "approvals"]
  /\ UNCHANGED <<files, review, out, held, trusted, mode, during, probe, load, receipts, bounds>>

VerifyLine ==
  /\ pc["export"] = "approvals"
  /\ \E l \in due :
       /\ SignatureHolds(l.request, l.signature)
       /\ due' = due \ {l} /\ held' = held \cup {l}
  /\ UNCHANGED <<files, review, out, trusted, mode, during, probe, procs, bounds>>

Matches(q, c, report) ==
  /\ q.cid = c.cid
  /\ q.report = Digest(report)
  /\ Digest(q.record) = Digest(c.record)
  /\ Digest(q.observation) = Digest(c.observation)
  /\ Digest(q.execution) = Digest(c.execution)

Matching(ls, c, report) == {l \in ls : Matches(l.request, c, report)}

Adjudication(q) ==
  [id |-> q.record.id, reviewer |-> q.reviewer, decision |-> "approve_finding", synthetic |-> FALSE,
   claimVersion |-> q.record.claimVersion, evidenceVersion |-> q.record.evidenceVersion]

\* Digests of what was read, receipts, and applicability, which only an approval establishes.
Context(c, approved, adjudication, verified, current) ==
  [cid |-> c.cid, record |-> Digest(c.record), observation |-> Digest(c.observation),
   execution |-> Digest(c.execution), receipts |-> c.record.refs \cap verified,
   scope |-> [scope |-> c.record.scope, applicable |-> approved],
   adjudication |-> adjudication, current |-> current]

ApprovedAuthority(ls, in, verified) ==
  LET matched(c) == Matching(ls, c, in.report)
      approval(c) == (CHOOSE l \in matched(c) : TRUE).request
      current == {c \in Assessed(in.cands) : matched(c) # {}}
  IN [report |-> Digest(in.report),
      reviewers |-> {approval(c).reviewer : c \in current},
      reviews |-> {Digest(Adjudication(approval(c))) : c \in current},
      contexts |-> {Context(c, TRUE, Adjudication(approval(c)), verified, NONE) : c \in current}
                   \cup {Context(c, FALSE, NONE, verified, NONE) : c \in Assessed(in.cands) \ current}]

IntegrityAuthority(in, verified) ==
  [report |-> Digest(in.report), reviewers |-> {}, reviews |-> {},
   contexts |-> {Context(c, FALSE, NONE, verified, NONE) : c \in Assessed(in.cands)}]

AuthorizeApproved ==
  /\ pc["export"] = "approvals"
  /\ due = {}
  /\ trusted' = ApprovedAuthority(held, load["export"], receipts["export"])
  /\ GoTo("export", "reread")
  /\ UNCHANGED <<files, review, out, due, held, mode, during, probe, bounds>>

AuthorizeIntegrity ==
  /\ Verified("export")
  /\ mode = "integrity"
  /\ trusted' = IntegrityAuthority(load["export"], receipts["export"])
  /\ GoTo("export", "reread")
  /\ UNCHANGED <<files, review, out, due, held, mode, during, probe, bounds>>

\* The candidate, read a second time, is still the one the context was built for.
Exact(c, x) ==
  /\ x.cid = c.cid
  /\ x.record = Digest(c.record)
  /\ x.observation = Digest(c.observation)
  /\ x.execution = Digest(c.execution)

Eligibility(c, x, t) ==
  DecidePublication(
    [record |-> c.record, entry |-> c.entry, current |-> x.current, execution |-> c.execution,
     observation |-> c.observation,
     adjudication |-> IF x.adjudication # NONE THEN x.adjudication ELSE c.adjudication,
     receipts |-> x.receipts, scope |-> x.scope, reviewers |-> t.reviewers, reviews |-> t.reviews])

Outcomes(c, t) == {Eligibility(c, x, t) : x \in {x \in t.contexts : Exact(c, x)}} \ {"internal_only"}

\* In file order, each assessment at most once.
Included(cs, t) ==
  {k \in DOMAIN cs :
     /\ Outcomes(cs[k], t) # {}
     /\ \A j \in 1..(k - 1) : Outcomes(cs[j], t) # {} => cs[j].record.id # cs[k].record.id}
Findings(cs, t) ==
  {[cid |-> cs[k].cid, eligibility |-> CHOOSE e \in Outcomes(cs[k], t) : TRUE, record |-> cs[k].record] :
     k \in Included(cs, t)}

(* A mutated export: the report is not compared with the authority's. *)
PublishAnyReport ==
  /\ pc["export"] = "reread"
  /\ AllRead("export")
  /\ out' = [mode |-> mode, report |-> load["export"].report,
             findings |-> Findings(load["export"].cands, trusted), during |-> during]
  /\ GoTo("export", "idle")
  /\ Forget
  /\ UNCHANGED <<files, review, probe, bounds>>

\* Written beside the target and renamed over it: readers see the old export or the new.
Publish ==
  /\ pc["export"] = "reread"
  /\ AllRead("export")
  /\ trusted.report = Digest(load["export"].report)
  /\ out' = [mode |-> mode, report |-> load["export"].report,
             findings |-> Findings(load["export"].cands, trusted), during |-> during]
  /\ GoTo("export", "idle")
  /\ Forget
  /\ UNCHANGED <<files, review, probe, bounds>>

-----------------------------------------------------------------------------
(* Everyone else *)

Edit == trials <= 1 /\ edits < MaxEdits /\ edits' = edits + 1 /\ UNCHANGED <<trials, requests, exports>>
\* An export reads neither the entry nor the implementation: a promotion happens before
\* everything else, and a long one alone.
Trial ==
  /\ trials < MaxTrials /\ trials' = trials + 1
  /\ edits + requests + exports = 0
  /\ UNCHANGED <<edits, requests, exports>>

Active == pc["export"] # "idle"
\* What an export under way may have seen.
Witness(keys, artifacts) ==
  during' = IF Active THEN [keys |-> during.keys \cup keys, artifacts |-> during.artifacts \cup artifacts]
            ELSE during

\* A candidate for an automatic finding carries a copy of the catalogue's entry, or one made up.
Forged == [claim |-> entry.claim, version |-> entry.version, maturity |-> "trusted",
           review |-> [reviewer |-> CHOOSE r \in Reviewers : TRUE, decision |-> "approve_trusted",
                                    synthetic |-> FALSE, digests |-> CurrentDigests]]
Stamped(cs, e) ==
  [k \in DOMAIN cs |-> IF cs[k].record.mode = "automated" THEN [cs[k] EXCEPT !.entry = e] ELSE cs[k]]

ReplaceReport ==
  /\ Edit
  /\ \E r \in Reports \ {disk.report} : disk' = [disk EXCEPT !.report = r]
  /\ UNCHANGED <<artifact, signers, authority, review, export, probe, procs>>

ReplaceCandidates ==
  /\ Edit
  /\ \E cs \in CandidateSets, e \in {entry, Forged} : disk' = [disk EXCEPT !.cands = Stamped(cs, e)]
  /\ UNCHANGED <<artifact, signers, authority, review, export, probe, procs>>

ReplaceArtifact ==
  /\ Edit
  /\ \E r \in Refs : \E c \in (Contents \cup {ABSENT}) \ {artifact[r]} :
       /\ artifact' = [artifact EXCEPT ![r] = c]
       /\ Witness({}, IF c = ABSENT THEN {} ELSE {[ref |-> r, sha |-> c]})
  /\ UNCHANGED <<disk, signers, authority, review, out, due, held, trusted, mode, probe, procs>>

ChangeSigners ==
  /\ Edit
  /\ \E ks \in SUBSET Reviewers \ {signers} : signers' = ks /\ Witness(ks, {})
  /\ UNCHANGED <<disk, artifact, authority, review, out, due, held, trusted, mode, probe, procs>>

\* The request is altered before or after it was signed.
AlterRequest ==
  /\ Edit
  /\ request # NONE
  /\ \/ \E r \in Reports : request' = [request EXCEPT !.report = Digest(r)]
     \/ \E c \in Assessed(disk.cands) : request' = [request EXCEPT !.record = c.record]
  /\ request' # request
  /\ UNCHANGED <<files, signature, store, choice, signed, recorded, export, probe, procs>>

\* A line made of an old signature and another request: whoever edits the
\* store can also write the digest the line carries of its request.
ForgeLine ==
  /\ Edit
  /\ ~store.torn
  /\ \E s \in signed : \E r \in {r \in Reports : Digest(r) # s.bytes.report} : store' =
       AppendLine(store, [request |-> [s.bytes EXCEPT !.report = Digest(r)], signature |-> s])
  /\ UNCHANGED <<files, request, signature, choice, signed, recorded, export, probe, procs>>

RepairStore ==
  /\ Edit
  /\ store.torn
  /\ store' = [envelopes |-> store.envelopes, garbage |-> store.garbage, torn |-> FALSE]
  /\ UNCHANGED <<files, request, signature, choice, signed, recorded, export, probe, procs>>

\* The trusted authority of publication-export: what its writer verified and whom it trusts.
WriteAuthority ==
  /\ Edit
  /\ authority' =
       [report |-> Digest(disk.report), reviewers |-> Reviewers,
        reviews |-> {Digest(Adjudication(s.bytes)) : s \in {s \in signed : s.key = s.bytes.reviewer}}
                    \cup {Digest(e.review) : e \in {e \in {entry} : e.maturity = "trusted"}},
        contexts |-> {Context(c, TRUE, NONE, Present, CurrentDigests) : c \in Assessed(disk.cands)}]
  /\ UNCHANGED <<disk, artifact, signers, review, export, probe, procs>>

EditEntry ==
  /\ Trial
  /\ entry' = [claim |-> entry.claim, version |-> 3 - entry.version, maturity |-> entry.maturity, review |-> entry.review]
  /\ UNCHANGED <<files, review, export, impl, gate, passed, vouched, procs>>

EditImplementation ==
  /\ Trial
  /\ impl' = 3 - impl
  /\ UNCHANGED <<files, review, export, entry, gate, passed, vouched, procs>>

RunGate ==
  /\ Trial
  /\ \E cases \in Validations :
       LET v == [entry |-> CurrentDigests.entry, implementation |-> CurrentDigests.implementation, cases |-> cases]
           r == EvaluateGate(entry, v, CurrentDigests)
       IN /\ gate' = [result |-> r, record |-> v]
          /\ passed' = passed \cup {d \in {CurrentDigests} : r.verdict = "eligible_for_review"}
  /\ UNCHANGED <<files, review, export, entry, impl, vouched, procs>>

\* A person reviews what they saw, then or now; the decision is applied to what there is.
ReviewProbe(who) ==
  /\ Trial
  /\ \E d \in {"approve_trusted", "reject", "needs_changes"}, synthetic \in BOOLEAN,
        seen \in {CurrentDigests} \cup passed :
       LET r == [reviewer |-> who, decision |-> d, synthetic |-> synthetic, digests |-> seen]
       IN /\ entry' = ApplyDecision(entry, r, CurrentDigests, gate)
          /\ vouched' = vouched \cup {x \in {seen} : d = "approve_trusted" /\ ~synthetic}
  /\ UNCHANGED <<files, review, export, impl, gate, passed, procs>>

Others ==
  \/ ReplaceReport \/ ReplaceCandidates \/ ReplaceArtifact \/ ChangeSigners
  \/ AlterRequest \/ ForgeLine \/ RepairStore \/ WriteAuthority
  \/ EditEntry \/ EditImplementation \/ RunGate
  \/ \E who \in Reviewers : ReviewProbe(who)

Names == UNION {{c.cid : c \in Assessed(cs)} : cs \in CandidateSets}

Next ==
  \/ \E p \in Procs : ReadInput(p) \/ VerifyArtifact(p)
  \/ \E cid \in Names, who \in Reviewers : StartReview(cid, who)
  \/ StopReview \/ StopExport
  \/ PrepareRequest \/ VerifyRequest \/ AppendApproval \/ TearApproval
  \/ \E who \in Reviewers : Sign(who)
  \/ \E m \in Modes : StartExport(m)
  \/ ReadStore \/ VerifyLine \/ AuthorizeApproved \/ AuthorizeIntegrity \/ Publish
  \/ Others

Spec == Init /\ [][Next]_vars

-----------------------------------------------------------------------------
(* Properties *)

\* Every file and process holds what its writers may have put there.
TypeOK ==
  /\ disk.report \in Reports
  /\ artifact \in [Refs -> Contents \cup {ABSENT}]
  /\ signers \subseteq Reviewers
  /\ pc["review"] \in {"idle", "load", "append"}
  /\ pc["export"] \in {"idle", "load", "approvals", "reread"}
  /\ pc["export"] # "approvals" => due = {}
  /\ held \cap due = {}
  /\ signature # NONE => signature \in signed
  /\ \A l \in store.envelopes \cup due \cup held : l.signature \in signed
  /\ {store.garbage, store.torn} \subseteq BOOLEAN
  /\ entry.maturity \in {"candidate", "trusted", "retired"}
  /\ edits \in 0..MaxEdits /\ trials \in 0..MaxTrials /\ requests \in 0..MaxRequests /\ exports \in 0..MaxExports

\* Somebody signed, with their own key, the approval of exactly this finding for exactly this report.
SignedExactly(f, report) ==
  \E s \in signed :
    /\ s.key = s.bytes.reviewer
    /\ s.bytes.cid = f.cid /\ s.bytes.record = f.record /\ s.bytes.report = Digest(report)

\* Somebody signed an approval of these versions of the claim and its evidence.
SignedVersions(f) ==
  \E s \in signed :
    /\ s.key = s.bytes.reviewer
    /\ s.bytes.record.id = f.record.id
    /\ s.bytes.record.claimVersion = f.record.claimVersion
    /\ s.bytes.record.evidenceVersion = f.record.evidenceVersion

\* f rests on a key that was allowed and on evidence that was on file at some moment of
\* that very export: a key revoked or an artifact replaced before it started carries nothing.
VouchedDuring(f) ==
  /\ f.record.refs \subseteq out.during.artifacts
  /\ \E s \in signed : s.key \in out.during.keys /\ s.bytes.record = f.record

\* A finding of publication-export-approved was approved by a signature over exactly its
\* record and the report of the export, whose key was allowed and whose evidence was on file
\* during that very export, publication-export-local publishes nothing, and
\* under an authority file a manual finding has a signed approval of its versions and an
\* automatic one a probe whose current digests passed the gate and a person approved -
\* although every file may change between the two times it is read.
PublishedIsAuthorized ==
  out # NONE =>
    \A f \in out.findings :
      CASE out.mode = "approved"  -> /\ f.eligibility = "reviewer_approved"
                                     /\ SignedExactly(f, out.report)
                                     /\ VouchedDuring(f)
        [] out.mode = "integrity" -> FALSE
        [] out.mode = "authority" -> IF f.eligibility = "automatic"
                                     THEN f.record.probe \in passed \cap vouched
                                     ELSE SignedVersions(f)

\* An approval whose recording was acknowledged stays a readable line of the store,
\* although a recording may be killed in the middle of its line.
AcknowledgedIsReadable ==
  \A q \in recorded :
    \E l \in store.envelopes : l.request = q

\* A probe counts as trusted for what it is now only if exactly that entry and that
\* implementation passed the gate and a person, not a synthetic record, approved them.
TrustedIsEarned == TrustedEligible(entry, CurrentDigests) => CurrentDigests \in passed \cap vouched
=============================================================================
