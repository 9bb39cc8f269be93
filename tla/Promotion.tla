------------------------------ MODULE Promotion ------------------------------
(* The catalogue's probe entries and the gate through which one becomes     *)
(* trusted: a pure account of promotion/gate.ts and catalogue/contracts.ts. *)
(* A digest is the value it was taken of, tagged: SHA-256 is taken to be    *)
(* injective, and a digest is never equal to a record.                      *)
EXTENDS FiniteSets

CONSTANT NONE      \* an absent field or file

Digest(x) == <<"sha256", x>>

\* The claim of an entry is its content without review and maturity.
EntryDigest(e) == Digest([claim |-> e.claim, version |-> e.version])

\* Categories a validation record must cover, and the reviewed answer to each.
Oracles == [missing_target |-> "violation", working_main |-> "pass",
            no_recognizable_link |-> "inapplicable", non_main_target |-> "incomplete",
            malformed_fragment |-> "incomplete", independent_structure |-> "pass"]

FalsePositive(c) == c.actual = "violation" /\ c.expected # "violation"
FalseNegative(c) == c.expected = "violation" /\ c.actual # "violation"
Unsupported(c) ==
  \/ ~c.supported
  \/ c.expected # c.actual /\ "violation" \notin {c.expected, c.actual}

\* Both definite answers are shown, every category is covered with the reviewed
\* expectation, and every challenge ran on its own, in a fresh context.
Sufficient(cases) ==
  /\ \A c \in cases : /\ c.expected = Oracles[c.category]
                      /\ ~Unsupported(c)
                      /\ c.fresh
  /\ \A o \in {"violation", "pass"} : \E c \in cases : c.expected = o /\ c.actual = o
  /\ DOMAIN Oracles \subseteq {c.category : c \in cases}
  /\ \A c, d \in cases : c.id = d.id => c = d
  /\ \E c \in cases : c.category = "independent_structure" /\ c.independent

Verdict(e, v, digests) ==
  IF \/ digests.entry # EntryDigest(e)
     \/ <<v.entry, v.implementation>> # <<digests.entry, digests.implementation>>
     \/ \E c \in v.cases : FalsePositive(c) \/ FalseNegative(c)
  THEN "rejected"
  ELSE IF Sufficient(v.cases) THEN "eligible_for_review" ELSE "insufficient_evidence"

\* The verdict bound to the digests and the record it was given for.
EvaluateGate(e, v, digests) ==
  [verdict |-> Verdict(e, v, digests), digests |-> digests, record |-> Digest(v)]

(* A mutated gate check: the verdict is believed, whatever it was given for. *)
ApplicableOnVerdict(e, review, digests, gate) ==
  /\ ~review.synthetic
  /\ digests.entry = EntryDigest(e)
  /\ review.digests = digests
  /\ review.decision = "approve_trusted"
       => gate # NONE /\ gate.result.verdict = "eligible_for_review"

Applicable(e, review, digests, gate) ==
  /\ ~review.synthetic
  /\ digests.entry = EntryDigest(e)
  /\ review.digests = digests
  /\ review.decision = "approve_trusted"
       => /\ gate # NONE
          /\ gate.result.verdict = "eligible_for_review"
          /\ gate.result = EvaluateGate(e, gate.record, digests)

ApplyDecision(e, review, digests, gate) ==
  IF Applicable(e, review, digests, gate)
  THEN [claim |-> e.claim, version |-> e.version, review |-> review,
        maturity |-> CASE review.decision = "approve_trusted" -> "trusted"
                       [] review.decision = "reject" -> "retired"
                       [] review.decision = "needs_changes" -> "candidate"]
  ELSE e

TrustedEligible(e, digests) ==
  /\ e.maturity = "trusted"
  /\ e.review # NONE
  /\ e.review.decision = "approve_trusted"
  /\ ~e.review.synthetic
  /\ e.review.digests = digests
  /\ digests.entry = EntryDigest(e)
=============================================================================
