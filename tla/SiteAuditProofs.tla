--------------------------- MODULE SiteAuditProofs ---------------------------
(***************************************************************************)
(* Proofs about SiteAudit, for any sites, settings, policies, limits and   *)
(* bounds.  The inductive invariant for the pace is PaceInv: which attempt *)
(* of a navigation is at hand, and that the backoff slept before it is at  *)
(* least what the host asked for, up to the cap.  That for the files is    *)
(* SiteInv: every report, line and summary, wherever it lies, is tied to   *)
(* the scans of the command that wrote it, whose number it carries.  For   *)
(* the types it is TypeInv, beside both.                                   *)
(***************************************************************************)
EXTENDS SiteAudit, FiniteSetTheorems, SequenceTheorems, WellFoundedInduction, TLAPS

IsPolicy(p) ==
    /\ {p.delay, p.maxRetries, p.base, p.maxBackoff} \subseteq Nat
    /\ \A a \in 0..p.maxRetries : p.base * 2 ^ a \in Nat

(* The attempt at hand, and the backoff slept before it. *)
Retrying(t, p) ==
    /\ t.attempt \in 0..p.maxRetries /\ t.wait \in Nat /\ t.asked \in Nat
    /\ t.wait >= Least(t.asked, p.maxBackoff)

Pacing(q, p) ==
    /\ q.gap >= p.delay
    /\ q.gap >= Least(q.asked, p.maxBackoff)
    /\ q.tries <= p.maxRetries + 1

PaceInv ==
    /\ pc = "idle" => cmd = NONE /\ pace = NONE /\ tries = First
    /\ pc # "idle" =>
         /\ "policy" \in DOMAIN cmd /\ "site" \in DOMAIN cmd
         /\ cmd.policy = NONE => pace = NONE
         /\ cmd.policy # NONE =>
              IsPolicy(cmd.policy) /\ Retrying(tries, cmd.policy) /\ (pace # NONE => Pacing(pace, cmd.policy))

(* What a backoff comes to. *)
LEMMA BackoffBounds ==
    ASSUME NEW p, IsPolicy(p), NEW n \in 0..p.maxRetries, NEW asked \in RetryAfters
    PROVE  /\ Backoff(p, n, asked) \in Nat
           /\ asked # NONE => asked \in Nat /\ Backoff(p, n, asked) >= Least(asked, p.maxBackoff)
<1>1. CASE asked = NONE
    BY <1>1 DEF IsPolicy, Backoff, Least, Most
<1>2. CASE asked # NONE
    <2>1. asked \in Nat
        BY <1>2, SettingsAssumption
    <2> QED BY <1>2, <2>1 DEF IsPolicy, Backoff, Least, Most
<1> QED BY <1>1, <1>2

(* The first attempt of a navigation waits for nothing but the delay. *)
LEMMA FirstRetrying == ASSUME NEW p, IsPolicy(p) PROVE Retrying(First, p)
BY DEF IsPolicy, Retrying, First, Least

(* A request is as far from the one before as policy and host want it. *)
LEMMA RequestedPaced ==
    ASSUME cmd.policy # NONE, IsPolicy(cmd.policy), Retrying(tries, cmd.policy), Requested
    PROVE  Pacing(pace', cmd.policy)
<1> DEFINE p == cmd.policy
<1>1. /\ pace'.gap = tries.wait + p.delay /\ pace'.asked = tries.asked /\ pace'.tries = tries.attempt + 1
    BY DEF Requested, Slept
<1>2. p.delay \in Nat /\ p.maxRetries \in Nat /\ p.maxBackoff \in Nat
    BY DEF IsPolicy
<1> QED BY <1>1, <1>2 DEF Retrying, Pacing, Least

LEMMA GotoOK ==
    ASSUME PaceInv, pc # "idle", NEW u, NEW a, Goto(u, a), UNCHANGED cmd, pc' # "idle"
    PROVE  PaceInv'
<1>1. tries' = First /\ (UNCHANGED pace \/ Requested)
    BY DEF Goto
<1>2. cmd.policy = NONE => pace' = NONE
    BY <1>1 DEF PaceInv, Requested
<1>3. cmd.policy # NONE =>
        /\ IsPolicy(cmd.policy) /\ Retrying(tries', cmd.policy)
        /\ pace' # NONE => Pacing(pace', cmd.policy)
    BY <1>1, FirstRetrying, RequestedPaced DEF PaceInv
<1> QED BY <1>2, <1>3 DEF PaceInv

LEMMA ThrottledOK ==
    ASSUME PaceInv, pc # "idle", Throttled, UNCHANGED <<cmd, pc>>
    PROVE  PaceInv'
<1> DEFINE p == cmd.policy
<1>1. p # NONE /\ IsPolicy(p) /\ Retrying(tries, p) /\ tries.attempt < p.maxRetries
    BY DEF Throttled, PaceInv
<1>2. Pacing(pace', p)
    BY <1>1, RequestedPaced DEF Throttled
<1>3. PICK asked \in RetryAfters :
        tries' = [attempt |-> tries.attempt + 1, wait |-> Backoff(p, tries.attempt, asked),
                  asked |-> IF asked = NONE THEN 0 ELSE asked]
    BY DEF Throttled
<1>4. /\ tries'.attempt = tries.attempt + 1 /\ tries'.wait = Backoff(p, tries.attempt, asked)
      /\ tries'.asked = IF asked = NONE THEN 0 ELSE asked
    BY <1>3
<1>5. Backoff(p, tries.attempt, asked) \in Nat
      /\ (asked # NONE => asked \in Nat /\ Backoff(p, tries.attempt, asked) >= Least(asked, p.maxBackoff))
    BY <1>1, BackoffBounds DEF Retrying
<1>6. p.maxBackoff \in Nat /\ p.maxRetries \in Nat
    BY <1>1 DEF IsPolicy
<1>7. Retrying(tries', p)
    BY <1>1, <1>4, <1>5, <1>6 DEF Retrying, Least
<1> QED BY <1>1, <1>2, <1>7 DEF PaceInv

(* A step of the running command that asks the host for nothing. *)
LEMMA QuietOK ==
    ASSUME PaceInv, pc # "idle", pc' # "idle", UNCHANGED <<tries, pace>>,
           UNCHANGED cmd \/ \E s : cmd' = [cmd EXCEPT !.site = s]
    PROVE  PaceInv'
<1>1. cmd'.policy = cmd.policy /\ "policy" \in DOMAIN cmd' /\ "site" \in DOMAIN cmd'
    BY DEF PaceInv
<1> QED BY <1>1 DEF PaceInv

LEMMA EndOK == ASSUME NEW v, End(v) PROVE PaceInv'
BY DEF End, PaceInv

LEMMA StartCommandOK == PaceInv /\ StartCommand => PaceInv'
<1> SUFFICES ASSUME PaceInv, StartCommand PROVE PaceInv'
    OBVIOUS
<1>1. PICK o \in Settings, d \in Dirs, s \in Sites : cmd' = Aimed(o, d, s)
    BY DEF StartCommand
<1>2. DOMAIN cmd' = DOMAIN o /\ cmd'.policy = o.policy /\ "policy" \in DOMAIN o /\ "site" \in DOMAIN o
    BY <1>1, SettingsAssumption DEF Aimed
<1>3. pc' = "site" /\ pace' = NONE /\ tries' = First
    BY DEF StartCommand, net, PaceInv
<1>4. cmd'.policy # NONE => IsPolicy(cmd'.policy) /\ Retrying(tries', cmd'.policy)
    BY <1>2, <1>3, FirstRetrying, SettingsAssumption DEF IsPolicy
<1> QED BY <1>2, <1>3, <1>4 DEF PaceInv

LEMMA StartSiteOK == PaceInv /\ StartSite => PaceInv'
<1> SUFFICES ASSUME PaceInv, StartSite PROVE PaceInv'
    OBVIOUS
<1>1. pc = "site" /\ pc' \in {"robots", "failed"} /\ pace' = NONE /\ tries' = First /\ UNCHANGED cmd
    BY DEF StartSite
<1> QED BY <1>1, FirstRetrying DEF PaceInv

LEMMA DoScoutOK == PaceInv /\ DoScout => PaceInv'
<1> SUFFICES ASSUME PaceInv, DoScout PROVE PaceInv'
    OBVIOUS
<1>1. CASE ReadRobots
    BY <1>1, GotoOK DEF ReadRobots
<1>2. CASE VisitSitemap
    BY <1>2, GotoOK DEF VisitSitemap
<1>3. CASE BrokenSitemap
    BY <1>3, QuietOK DEF BrokenSitemap, net
<1>4. CASE SeedQueue
    BY <1>4, QuietOK DEF SeedQueue, net
<1>5. CASE Visit
    BY <1>5, GotoOK DEF Visit, Visiting
<1>6. CASE TooDeep
    BY <1>6, QuietOK DEF TooDeep, Visiting, net
<1>7. CASE ThrottledFetch
    BY <1>7, ThrottledOK DEF ThrottledFetch, Visiting
<1> QED BY <1>1, <1>2, <1>3, <1>4, <1>5, <1>6, <1>7 DEF DoScout, Scouting

LEMMA AuditingOK == PaceInv /\ Auditing => PaceInv'
<1> SUFFICES ASSUME PaceInv, Auditing PROVE PaceInv'
    OBVIOUS
<1>1. CASE WriteSurface
    BY <1>1, QuietOK DEF WriteSurface, Scouted, net
<1>2. CASE Scan
    BY <1>2, GotoOK DEF Scan
<1>3. CASE Journey
    BY <1>3, GotoOK DEF Journey
<1>4. CASE ThrottledPage
    BY <1>4, ThrottledOK DEF ThrottledPage
<1>5. CASE Triage
    BY <1>5, QuietOK DEF Triage, net
<1>6. CASE WriteManifest
    BY <1>6, QuietOK DEF WriteManifest, net
<1>7. CASE WriteReport
    BY <1>7, QuietOK DEF WriteReport, net
<1>8. CASE WriteHtml
    BY <1>8, QuietOK DEF WriteHtml, net
<1>9. CASE AuditThrows
    BY <1>9, QuietOK DEF AuditThrows, Scouted
<1> QED BY <1>1, <1>2, <1>3, <1>4, <1>5, <1>6, <1>7, <1>8, <1>9 DEF Auditing

LEMMA StepOK == PaceInv /\ [Next]_vars => PaceInv'
<1> SUFFICES ASSUME PaceInv, [Next]_vars PROVE PaceInv'
    OBVIOUS
<1>1. CASE SitePasses
    BY <1>1, QuietOK DEF SitePasses, NextSite, net
<1>2. CASE SiteFails
    BY <1>2, QuietOK DEF SiteFails, NextSite, net
<1>3. CASE WriteSummary \/ EndAudit \/ Crash
    BY <1>3, EndOK DEF WriteSummary, EndAudit, Crash
<1>4. CASE Watch \/ Learn \/ EditSite \/ Reconfigure \/ UNCHANGED vars
    BY <1>4 DEF Watch, Learn, EditSite, Reconfigure, vars, net, PaceInv
<1> QED
    BY <1>1, <1>2, <1>3, <1>4, StartCommandOK, StartSiteOK, DoScoutOK, AuditingOK
    DEF Next, Running

(* However a navigation is answered, throttled and tried again, and whatever
   command and site it belongs to, requests are as far apart as the policy
   and, up to its cap, the host demand, and a URL is tried no more often than
   the policy says (network-policy.ts gotoWithPolicy, execution-policy.ts
   backoffDecision). *)
THEOREM RequestsArePaced == Spec => []Paced
<1>1. Init => PaceInv
    BY DEF Init, PaceInv
<1>2. PaceInv => Paced
    BY DEF PaceInv, Paced, Pacing
<1> QED BY <1>1, <1>2, StepOK, PTL DEF Spec

-----------------------------------------------------------------------------
(* What the files say.  Everything said of a command's scans of a site is said
   of the set of those scans, M; once the command has moved on, it is fixed. *)

IsSeq(s) == s \in Seq(ToSet(s))

Of(S, by, s) == {c \in S : c.by = by /\ c.site = s}
Shows(results, k) == \E r \in results : r.outcome \in Reported /\ Key(r) = k
SawIn(M, k) == \E c \in M : Shows(c.results, k)
SeenIn(M, k) == {c.id : c \in {x \in M : Shows(x.results, k)}}
KeysOf(M) == {Key(r) : r \in {q \in UNION {c.results : c \in M} : q.outcome \in Reported}}

(* Grouped findings, and the report that quotes them, say what was seen by the
   scanner installed then. *)
FindingsTrue(f, M, with) ==
    /\ DOMAIN f = KeysOf(M)
    /\ \A k \in DOMAIN f : f[k].affectedSurfaces = Cardinality(SeenIn(M, k)) /\ f[k].version = with.version

ReportTrue(r, M, with) == r.profile = with.profile /\ FindingsTrue(r.findings, M, with)

(* The probe files read back: those of the first m surfaces. *)
Copies(M) == {[id |-> c.id, by |-> c.by, results |-> c.results] : c \in M}
ProbesTrue(probes, M, m) == {p \in probes : p.id \in 1..m} = Copies(M)

PassedIn(entries) == {e.site : e \in {x \in ToSet(entries) : x.status = "PASS"}}

WatchTrue(ch, M, N, before, after) ==
    /\ DOMAIN ch = KeysOf(M) \cup KeysOf(N)
    /\ \A k \in DOMAIN ch :
         ch[k] = IF before.profile # after.profile THEN "NOT_COMPARABLE"
                 ELSE IF ~SawIn(M, k) THEN "NEW"
                 ELSE IF ~SawIn(N, k) THEN "RESOLVED"
                 ELSE IF before.version # after.version THEN "RULE_CHANGED" ELSE "PERSISTING"

FileNames == {"surface", "probes", "journeys", "findings", "manifest", "report", "html"}
Early == {"site", "robots", "sitemaps", "visit"}
Unreported == Early \cup {"scan", "journey", "manifest", "report"}

Shapes ==
    /\ DOMAIN disk = Dirs /\ DOMAIN summary = Dirs
    /\ \A d \in Dirs : DOMAIN disk[d] = Folders /\ \A h \in Folders : DOMAIN disk[d][h] = FileNames
    /\ IsSeq(story) /\ \A i \in 1..By : story[i].dir \in Dirs /\ DOMAIN story[i] = {"kind", "dir", "setup", "ended"}
    /\ \A c \in scans : c.by \in 1..By

(* The command under way, and the last entry of the history. *)
Commanded ==
    /\ cmd \in Commands /\ By > 0
    /\ story[By].kind = cmd.kind /\ story[By].dir = cmd.dir
    /\ story[By].setup = setup /\ story[By].ended = "start"

(* How far a cohort has come: one entry for each site behind it. *)
Progress ==
    LET n == Len(books.entries)
    IN  /\ IsSeq(books.entries)
        /\ \A k \in 1..n : /\ k \in 1..Len(Cohort) /\ books.entries[k].site = k
                           /\ books.entries[k].status \in {"PASS", "ERROR"}
        /\ IF pc = "summary" THEN n = Len(Cohort) ELSE n < Len(Cohort) /\ cmd.site = n + 1

(* No report of site s by the command under way, wherever two sites share a directory. *)
Unwritten(s) == \A d \in Dirs, h \in Folders : ~(disk[d][h].report.by = By /\ disk[d][h].report.site = s)
Unbegun(s) == Of(scans, By, s) = {} /\ Unwritten(s)

(* Sites not yet come to, or not yet scanned or reported. *)
ToCome ==
    /\ cmd.kind = "cohort" => \A k \in 1..Len(Cohort) : k > Len(books.entries) + 1 => Unbegun(k)
    /\ pc \in Early => Of(scans, By, cmd.site) = {}
    /\ pc \in Unreported => Unwritten(cmd.site)

(* The surfaces of the site at hand, and the files of those scanned. *)
Listed ==
    /\ DOMAIN scout = DOMAIN NewScout /\ DOMAIN audit = DOMAIN NewAudit /\ DOMAIN books = DOMAIN NewBooks
    /\ IsSeq(scout.pages)
    /\ pc \in {"robots", "sitemaps", "visit"} => audit.runs = <<>>
    /\ IsSeq(audit.surfaces) /\ \A k \in 1..Len(audit.surfaces) : audit.surfaces[k].id = k
    /\ IsSeq(audit.runs) /\ \A k \in 1..Len(audit.runs) : audit.runs[k].id = k
    /\ Len(audit.runs) <= Len(audit.surfaces)
    /\ pc = "journey" => Len(audit.runs) < Len(audit.surfaces)

Filing ==
    pc \in {"scan", "journey"} =>
      ProbesTrue(disk[cmd.dir][Cohort[cmd.site]].probes, Of(scans, By, cmd.site),
                 Len(audit.runs) + (IF pc = "journey" THEN 1 ELSE 0))

Written ==
    LET own == disk[cmd.dir][Cohort[cmd.site]]
    IN  /\ pc \in {"scan", "journey", "manifest", "report"} => own.surface.site = cmd.site
        /\ pc \in {"manifest", "report"} => FindingsTrue(own.findings.findings, Of(scans, By, cmd.site), setup)
        /\ pc = "html" \/ (pc = "return" /\ cmd.report = TRUE) => own.report.by = By /\ own.report.site = cmd.site
        /\ pc = "return" /\ cmd.report = TRUE => own.html.by = By

(* What a site that passed links: a report and a page of command i, of its own id. *)
Linked(own, i, id) == own.report.by = i /\ own.html.by = i /\ Cohort[own.report.site] = id

(* The books of a cohort: the sites that passed, and one line for each key seen on one of them. *)
Booked ==
    LET passed == PassedIn(books.entries)
    IN  /\ passed \subseteq Sites
        /\ \A s \in passed : Linked(disk[cmd.dir][Cohort[s]], By, Cohort[s])
        /\ \A l \in books.issues : l.site \in passed /\ l.name = Name[l.site] /\ SawIn(Of(scans, By, l.site), l.key)
        /\ \A s \in passed : \A k \in KeysOf(Of(scans, By, s)) : \E l \in books.issues : l.site = s /\ l.key = k

Underway ==
    pc # "idle" =>
      /\ Commanded /\ ToCome /\ Filing /\ Written
      /\ cmd.kind = "cohort" => Progress /\ Booked
      /\ pc = "summary" => cmd.kind = "cohort"

Reports ==
    \A d \in Dirs, h \in Folders :
      LET r == disk[d][h].report
      IN  r # Absent => r.by \in 1..By /\ ReportTrue(r, Of(scans, r.by, r.site), story[r.by].setup)

Summaries ==
    \A d \in Dirs : summary[d] # Absent =>
      \A f \in summary[d].issues : \A m \in f.municipalities :
        \E s \in Sites : m = Name[s] /\ SawIn(Of(scans, summary[d].by, s), f.key)

(* A cohort that ended, and had its directory to itself since. *)
CohortTrue(i, sum) ==
    LET passed == PassedIn(sum.entries)
    IN  /\ sum.by = i /\ [k \in DOMAIN sum.entries |-> sum.entries[k].site] = [k \in Sites |-> k]
        /\ story[i].ended = "end" <=> passed = Sites
        /\ passed \subseteq Sites
        /\ \A s \in passed : Linked(disk[story[i].dir][Cohort[s]], i, Cohort[s])
        /\ {f.key : f \in sum.issues} = UNION {KeysOf(Of(scans, i, s)) : s \in passed}
        /\ \A f \in sum.issues : f.municipalities = {Name[s] : s \in {x \in passed : SawIn(Of(scans, i, x), f.key)}}

Finished ==
    \A i \in 1..By :
      story[i].kind = "cohort" /\ story[i].ended # "start" /\ LastIn(story[i].dir, i) =>
        CohortTrue(i, summary[story[i].dir])

Past(i) == i \in 1..By /\ (pc # "idle" => i < By)

Watched ==
    change # NONE =>
      /\ Past(change.previous.by) /\ Past(change.current.by)
      /\ WatchTrue(change.changes, Of(scans, change.previous.by, change.previous.site),
                   Of(scans, change.current.by, change.current.site),
                   story[change.previous.by].setup, story[change.current.by].setup)

Mined ==
    learned # NONE => \A c \in learned.candidates : c.source # "journey_gap" =>
      \E T \in SUBSET {Name[s] : s \in {x \in Sites : SawIn(Of(scans, learned.by, x), c.key)}} :
        Cardinality(T) >= MinMunicipalities

SiteInv == Shapes /\ Listed /\ Underway /\ Reports /\ Summaries /\ Finished /\ Watched /\ Mined

(* Sequences. *)
LEMMA SeqFacts ==
    ASSUME NEW s, IsSeq(s)
    PROVE  /\ Len(s) \in Nat /\ DOMAIN s = 1..Len(s) /\ s \in Seq(ToSet(s))
           /\ \A x : /\ IsSeq(Append(s, x)) /\ Len(Append(s, x)) = Len(s) + 1
                     /\ DOMAIN Append(s, x) = 1..(Len(s) + 1)
                     /\ \A i \in 1..Len(s) : Append(s, x)[i] = s[i]
                     /\ Append(s, x)[Len(s) + 1] = x
<1>1. s \in Seq(ToSet(s)) /\ Len(s) \in Nat /\ DOMAIN s = 1..Len(s)
    BY DEF IsSeq
<1>2. ASSUME NEW x
      PROVE  /\ IsSeq(Append(s, x)) /\ Len(Append(s, x)) = Len(s) + 1
             /\ DOMAIN Append(s, x) = 1..(Len(s) + 1)
             /\ \A i \in 1..Len(s) : Append(s, x)[i] = s[i]
             /\ Append(s, x)[Len(s) + 1] = x
    <2>1. /\ Len(Append(s, x)) = Len(s) + 1 /\ DOMAIN Append(s, x) = 1..(Len(s) + 1)
          /\ \A i \in 1..Len(s) : Append(s, x)[i] = s[i]
          /\ Append(s, x)[Len(s) + 1] = x
        BY <1>1
    <2>2. ToSet(Append(s, x)) = ToSet(s) \cup {x}
        BY <1>1, <2>1 DEF ToSet
    <2>3. Append(s, x) \in Seq(ToSet(s) \cup {x})
        BY <1>1
    <2> QED BY <2>1, <2>2, <2>3 DEF IsSeq
<1> QED BY <1>1, <1>2

LEMMA SeqIsSeq == ASSUME NEW S, NEW s \in Seq(S) PROVE IsSeq(s)
<1>1. s \in [1..Len(s) -> ToSet(s)] /\ Len(s) \in Nat
    BY DEF ToSet
<1> QED BY <1>1 DEF IsSeq

LEMMA FunctionIsSeq ==
    ASSUME NEW n \in Nat, NEW t, t = [i \in 1..n |-> t[i]]
    PROVE  IsSeq(t) /\ Len(t) = n /\ DOMAIN t = 1..n
<1>1. t \in [1..n -> ToSet(t)]
    BY DEF ToSet
<1>2. t \in Seq(ToSet(t))
    BY <1>1
<1> QED BY <1>1, <1>2 DEF IsSeq

LEMMA EmptyIsSeq == IsSeq(<<>>) /\ Len(<<>>) = 0
<1>1. <<>> \in Seq({}) /\ Len(<<>>) = 0
    OBVIOUS
<1> QED BY <1>1, SeqIsSeq

(* What is left of a cohort. *)
LEMMA TailFacts ==
    ASSUME NEW s, IsSeq(s), s # <<>>
    PROVE  /\ Len(s) > 0 /\ Head(s) = s[1] /\ IsSeq(Tail(s)) /\ Len(Tail(s)) = Len(s) - 1
           /\ \A j \in 1..Len(Tail(s)) : Tail(s)[j] = s[j + 1]
<1>1. s \in Seq(ToSet(s)) /\ Len(s) \in Nat /\ Len(s) > 0
    BY SeqFacts
<1>2. Tail(s) \in Seq(ToSet(s)) /\ Len(Tail(s)) = Len(s) - 1 /\ Head(s) = s[1]
    BY <1>1
<1>3. \A j \in 1..Len(Tail(s)) : Tail(s)[j] = s[j + 1]
    BY <1>1, <1>2
<1> QED BY <1>1, <1>2, <1>3, SeqIsSeq

(* What the properties say of a command and a site, they say of its scans. *)
LEMMA KeysAre == ASSUME NEW M PROVE \A k : k \in KeysOf(M) <=> SawIn(M, k)
BY DEF KeysOf, SawIn, Shows

LEMMA SawIsSawIn ==
    \A by, s : /\ \A k : Saw(by, s, k) <=> SawIn(Of(scans, by, s), k)
               /\ {k \in AllKeys : Saw(by, s, k)} = KeysOf(Of(scans, by, s))
<1> SUFFICES ASSUME NEW by, NEW s
             PROVE  /\ \A k : Saw(by, s, k) <=> SawIn(Of(scans, by, s), k)
                    /\ {k \in AllKeys : Saw(by, s, k)} = KeysOf(Of(scans, by, s))
    OBVIOUS
<1>1. \A k : Saw(by, s, k) <=> SawIn(Of(scans, by, s), k)
    BY DEF Saw, SawIn, Shows, Of
<1>2. \A k : Saw(by, s, k) => k \in AllKeys
    BY DEF Saw, AllKeys
<1> QED BY <1>1, <1>2, KeysAre

LEMMA SeenIsSeenIn ==
    \A by, s, k : SeenOn(by, s, k) = SeenIn(Of(scans, by, s), k)
BY DEF SeenOn, SeenIn, Shows, Of

(* Grouping the probe files read back loses nothing and adds nothing. *)
LEMMA GroupedTrue ==
    ASSUME NEW M
    PROVE  FindingsTrue(Grouped(Copies(M)), M, setup)
<1> DEFINE loaded == Copies(M)
           real == Hits(loaded)
           mine(key) == {h \in real : Key(h.result) = key}
           G == [key \in {Key(h.result) : h \in real} |->
                   [impact |-> Worst(mine(key)).result.impact, version |-> setup.version,
                    affectedSurfaces |-> Cardinality({h.id : h \in mine(key)}),
                    occurrenceCount |-> Occurrences(mine(key))]]
<1>1. Grouped(loaded) = G
    BY Zenon DEF Grouped
<1>2. ASSUME NEW c \in M, NEW r \in c.results, r.outcome \in Reported
      PROVE  \E h \in real : h.id = c.id /\ h.result = r
    <2> DEFINE p == [id |-> c.id, by |-> c.by, results |-> c.results]
               h == [id |-> p.id, result |-> r]
    <2>1. p \in loaded /\ r \in p.results /\ p.id = c.id
        BY DEF Copies
    <2> HIDE DEF p, loaded
    <2>2. h \in [id : {p.id}, result : {q \in p.results : q.outcome \in Reported}]
        BY <1>2, <2>1
    <2>3. h \in real /\ h.id = p.id /\ h.result = r
        BY <2>1, <2>2 DEF Hits
    <2> QED BY <2>1, <2>3
<1>3. ASSUME NEW h \in real
      PROVE  h.result.outcome \in Reported /\ \E c \in M : c.id = h.id /\ h.result \in c.results
    <2>1. PICK p \in loaded : h \in [id : {p.id}, result : {q \in p.results : q.outcome \in Reported}]
        BY DEF Hits
    <2>2. PICK c \in M : p = [id |-> c.id, by |-> c.by, results |-> c.results]
        BY DEF Copies
    <2> QED BY <2>1, <2>2
<1> HIDE DEF loaded, real
<1>4. {Key(h.result) : h \in real} = KeysOf(M)
    BY <1>2, <1>3 DEF KeysOf
<1>5. ASSUME NEW k PROVE {h.id : h \in mine(k)} = SeenIn(M, k)
    BY <1>2, <1>3 DEF SeenIn, Shows
<1>6. DOMAIN G = KeysOf(M)
    BY <1>4
<1>7. ASSUME NEW k \in DOMAIN G
      PROVE  G[k].affectedSurfaces = Cardinality(SeenIn(M, k)) /\ G[k].version = setup.version
    <2>1. k \in {Key(h.result) : h \in real}
        OBVIOUS
    <2> QED BY <1>5, <2>1
<1> HIDE DEF G
<1> QED BY <1>1, <1>6, <1>7 DEF FindingsTrue, loaded

(* Two true reports compared. *)
LEMMA ComparedTrue ==
    ASSUME NEW p, NEW c, NEW M, NEW N, NEW a, NEW b, ReportTrue(p, M, a), ReportTrue(c, N, b)
    PROVE  WatchTrue([k \in DOMAIN p.findings \cup DOMAIN c.findings |-> StateOf(p, c, k)], M, N, a, b)
<1> DEFINE ch == [k \in DOMAIN p.findings \cup DOMAIN c.findings |-> StateOf(p, c, k)]
<1>1. DOMAIN p.findings = KeysOf(M) /\ DOMAIN c.findings = KeysOf(N)
    BY DEF ReportTrue, FindingsTrue
<1>2. ASSUME NEW k \in DOMAIN ch
      PROVE  ch[k] = IF a.profile # b.profile THEN "NOT_COMPARABLE"
                     ELSE IF ~SawIn(M, k) THEN "NEW"
                     ELSE IF ~SawIn(N, k) THEN "RESOLVED"
                     ELSE IF a.version # b.version THEN "RULE_CHANGED" ELSE "PERSISTING"
    <2>1. (k \in DOMAIN p.findings <=> SawIn(M, k)) /\ (k \in DOMAIN c.findings <=> SawIn(N, k))
        BY <1>1, KeysAre
    <2>2. k \in DOMAIN p.findings \/ k \in DOMAIN c.findings
        OBVIOUS
    <2>3. ch[k] = StateOf(p, c, k)
        OBVIOUS
    <2> HIDE DEF ch
    <2>4. /\ p.profile = a.profile /\ c.profile = b.profile
          /\ k \in DOMAIN p.findings => p.findings[k].version = a.version
          /\ k \in DOMAIN c.findings => c.findings[k].version = b.version
        BY DEF ReportTrue, FindingsTrue
    <2> QED BY <2>1, <2>2, <2>3, <2>4 DEF StateOf
<1> QED BY <1>1, <1>2 DEF WatchTrue

-----------------------------------------------------------------------------
(* What a step of the command under way leaves as it is. *)

LEMMA CommandFields ==
    ASSUME NEW c \in Commands
    PROVE  /\ c.dir \in Dirs /\ c.site \in Sites /\ Cohort[c.site] \in Folders /\ c.maxSurfaces \in Nat \cup {NONE}
           /\ c.kind = "cohort" => c.report = TRUE
           /\ \A t \in Sites : LET e == [c EXCEPT !.site = t]
                                 IN  /\ e \in Commands /\ e.site = t
                                     /\ e.kind = c.kind /\ e.dir = c.dir /\ e.report = c.report
<1>1. PICK o \in Settings, d \in Dirs, s \in Sites : c = Aimed(o, d, s)
    BY DEF Commands
<1>2. DOMAIN o = {"kind", "policy", "journeys", "report", "maxDepth", "maxSurfaces", "dir", "site"}
    BY SettingsAssumption
<1>3. /\ DOMAIN c = DOMAIN o /\ c.dir = d /\ c.site = s
      /\ c.kind = o.kind /\ c.report = o.report /\ c.maxSurfaces = o.maxSurfaces
    BY <1>1, <1>2 DEF Aimed
<1>4. ASSUME NEW t \in Sites, NEW e, e = [c EXCEPT !.site = t]
      PROVE  e \in Commands /\ e.site = t /\ e.kind = c.kind /\ e.dir = c.dir /\ e.report = c.report
    <2>1. e.site = t /\ e.kind = c.kind /\ e.dir = c.dir /\ e.report = c.report
        BY <1>2, <1>3, <1>4
    <2>2. e = Aimed(o, d, t)
        BY <1>1, <1>2, <1>4 DEF Aimed
    <2>3. e \in Commands
        BY <2>2 DEF Commands
    <2> QED BY <2>1, <2>3
<1> QED BY <1>3, <1>4, SettingsAssumption DEF Folders

LEMMA WriteFacts ==
    ASSUME Shapes, cmd.dir \in Dirs, Cohort[cmd.site] \in Folders, NEW f \in FileNames, NEW v, Write(f, v)
    PROVE  /\ DOMAIN disk' = Dirs
           /\ \A d \in Dirs : /\ DOMAIN disk'[d] = Folders /\ \A h \in Folders : DOMAIN disk'[d][h] = FileNames
                              /\ d # cmd.dir => disk'[d] = disk[d]
                              /\ \A h \in Folders : h # Cohort[cmd.site] => disk'[d][h] = disk[d][h]
           /\ disk'[cmd.dir][Cohort[cmd.site]][f] = v
           /\ \A g \in FileNames \ {f} : \A d \in Dirs : disk'[d][Cohort[cmd.site]][g] = disk[d][Cohort[cmd.site]][g]
BY DEF Write, Shapes

Proceeds ==
    /\ pc # "idle" /\ pc' # "idle" /\ UNCHANGED <<story, summary, change, learned, setup>>
    /\ DOMAIN disk' = Dirs
    /\ \A d \in Dirs : /\ DOMAIN disk'[d] = Folders /\ \A h \in Folders : DOMAIN disk'[d][h] = FileNames
                       /\ d # cmd.dir => disk'[d] = disk[d]
                       /\ \A h \in Folders : h # Cohort[cmd.site] => disk'[d][h] = disk[d][h]
    /\ \A d \in Dirs, h \in Folders :
         /\ \/ disk'[d][h].report = disk[d][h].report
            \/ h = Cohort[cmd.site] /\ disk'[d][h].report.by = By /\ disk'[d][h].report.site = cmd.site
         /\ disk'[d][h].html = disk[d][h].html \/ disk'[d][h].html.by = By
    /\ scans \subseteq scans'
    /\ \A c \in scans' : c \in scans \/ (c.by = By /\ c.site = cmd.site)

LEMMA OthersKeptTheirScans ==
    ASSUME Proceeds
    PROVE  \A i, s : i # By \/ s # cmd.site => Of(scans', i, s) = Of(scans, i, s)
BY DEF Proceeds, Of

LEMMA SawMore == ASSUME NEW M, NEW N, M \subseteq N PROVE \A k : SawIn(M, k) => SawIn(N, k)
BY DEF SawIn

LEMMA ProceedsHistory ==
    ASSUME SiteInv, Proceeds
    PROVE  Shapes' /\ Summaries' /\ Finished' /\ Watched' /\ Mined'
<1>1. pc # "idle" /\ pc' # "idle" /\ UNCHANGED <<story, summary, change, learned, setup>> /\ By' = By
    BY DEF Proceeds, By
<1>2. Commanded /\ By \in Nat
    BY <1>1, SeqFacts DEF SiteInv, Underway, Shapes, By
<1>3. Shapes'
    BY <1>1, <1>2 DEF SiteInv, Shapes, Proceeds, Commanded
<1>4. \A i, s : Of(scans, i, s) \subseteq Of(scans', i, s)
    BY DEF Proceeds, Of
<1>5. Summaries'
    <2>1. \A i, s, k : SawIn(Of(scans, i, s), k) => SawIn(Of(scans', i, s), k)
        BY <1>4, SawMore
    <2> QED BY <1>1, <2>1 DEF SiteInv, Summaries
<1>6. Mined'
    <2>1. \A i, s, k : SawIn(Of(scans, i, s), k) => SawIn(Of(scans', i, s), k)
        BY <1>4, SawMore
    <2>2. SUFFICES ASSUME learned' # NONE, NEW c \in learned'.candidates, c.source # "journey_gap"
          PROVE \E T \in SUBSET {Name[s] : s \in {x \in Sites : SawIn(Of(scans', learned'.by, x), c.key)}} :
                   Cardinality(T) >= MinMunicipalities
        BY DEF Mined
    <2>3. PICK T \in SUBSET {Name[s] : s \in {x \in Sites : SawIn(Of(scans, learned.by, x), c.key)}} :
             Cardinality(T) >= MinMunicipalities
        BY <1>1, <2>2 DEF SiteInv, Mined
    <2>4. T \subseteq {Name[s] : s \in {x \in Sites : SawIn(Of(scans', learned'.by, x), c.key)}}
        BY <1>1, <2>1, <2>3
    <2> QED BY <2>3, <2>4
<1>7. \A i \in 1..By : i # By => \A s : Of(scans', i, s) = Of(scans, i, s)
    BY OthersKeptTheirScans
<1>8. Watched'
    BY <1>1, <1>2, <1>7 DEF SiteInv, Watched, Past
<1>9. Finished'
    <2> SUFFICES ASSUME NEW i \in 1..By, story[i].kind = "cohort", story[i].ended # "start", LastIn(story[i].dir, i)'
                 PROVE  CohortTrue(i, summary[story[i].dir])'
        BY <1>1 DEF Finished
    <2>1. LastIn(story[i].dir, i)
        BY <1>1 DEF LastIn
    <2>2. CohortTrue(i, summary[story[i].dir])
        BY <2>1 DEF SiteInv, Finished
    <2>3. i # By
        BY <1>2 DEF Commanded
    <2>4. By \in (i + 1)..By
        BY <1>2, <2>3
    <2>5. story[i].dir # cmd.dir
        BY <1>2, <2>1, <2>4 DEF LastIn, Commanded
    <2>6. \A s : Of(scans', i, s) = Of(scans, i, s)
        BY <1>7, <2>3
    <2>7. story[i].dir \in Dirs => disk'[story[i].dir] = disk[story[i].dir]
        BY <2>5 DEF Proceeds
    <2>8. story[i].dir \in Dirs
        BY DEF SiteInv, Shapes
    <2> QED BY <1>1, <2>2, <2>6, <2>7, <2>8 DEF CohortTrue
<1> QED BY <1>3, <1>5, <1>6, <1>8, <1>9

(* Reports that stay as they are stay true. *)
LEMMA ReportsSame ==
    ASSUME SiteInv, Proceeds, \A d \in Dirs, h \in Folders : disk'[d][h].report = disk[d][h].report,
           scans' = scans \/ Unwritten(cmd.site)
    PROVE  Reports'
<1>1. UNCHANGED story /\ By' = By
    BY DEF Proceeds, By
<1> SUFFICES ASSUME NEW d \in Dirs, NEW h \in Folders, disk'[d][h].report # Absent
             PROVE  LET r == disk'[d][h].report
                    IN  r.by \in 1..By /\ ReportTrue(r, Of(scans', r.by, r.site), story[r.by].setup)
    BY <1>1 DEF Reports
<1> DEFINE r == disk[d][h].report
<1>2. disk'[d][h].report = r /\ r.by \in 1..By /\ ReportTrue(r, Of(scans, r.by, r.site), story[r.by].setup)
    BY DEF SiteInv, Reports
<1>3. Of(scans', r.by, r.site) = Of(scans, r.by, r.site)
    <2>1. CASE scans' = scans
        BY <2>1
    <2>2. CASE r.by # By \/ r.site # cmd.site
        BY <2>2, OthersKeptTheirScans
    <2> QED BY <2>1, <2>2 DEF Unwritten
<1> HIDE DEF r
<1> QED BY <1>2, <1>3

(* While a command stays with its site, what is known of the others stands. *)
Others ==
    /\ Commanded
    /\ cmd.kind = "cohort" => Progress /\ Booked /\
                              \A k \in 1..Len(Cohort) : k > Len(books.entries) + 1 => Unbegun(k)

LEMMA CohortFacts == Len(Cohort) \in Nat /\ Len(Cohort) > 0 /\ Sites = 1..Len(Cohort)
BY CohortAssumption DEF Sites

LEMMA PassedAre ==
    ASSUME NEW e, IsSeq(e)
    PROVE  /\ \A s : s \in PassedIn(e) <=> \E k \in 1..Len(e) : e[k].status = "PASS" /\ e[k].site = s
           /\ \A x : PassedIn(Append(e, x)) = PassedIn(e) \cup (IF x.status = "PASS" THEN {x.site} ELSE {})
<1>1. DOMAIN e = 1..Len(e) /\ Len(e) \in Nat
    BY SeqFacts
<1>2. \A s : s \in PassedIn(e) <=> \E k \in 1..Len(e) : e[k].status = "PASS" /\ e[k].site = s
    BY <1>1 DEF PassedIn, ToSet
<1>3. ASSUME NEW x PROVE PassedIn(Append(e, x)) = PassedIn(e) \cup (IF x.status = "PASS" THEN {x.site} ELSE {})
    <2>1. ToSet(Append(e, x)) = ToSet(e) \cup {x}
        <3> DEFINE u == Append(e, x)
        <3>1. /\ DOMAIN u = 1..(Len(e) + 1) /\ \A i \in 1..Len(e) : u[i] = e[i]
              /\ u[Len(e) + 1] = x
            BY SeqFacts
        <3> HIDE DEF u
        <3> QED BY <1>1, <3>1 DEF ToSet
    <2> QED BY <2>1 DEF PassedIn
<1> QED BY <1>2, <1>3

LEMMA SameSite ==
    ASSUME SiteInv, Proceeds, UNCHANGED <<cmd, books>>, pc # "summary", pc' # "summary"
    PROVE  Others'
<1>1. pc # "idle" /\ By' = By /\ story' = story /\ setup' = setup
    BY DEF Proceeds, By
<1>2. Commanded'
    BY <1>1 DEF SiteInv, Underway, Commanded
<1>3. ASSUME cmd.kind = "cohort"
      PROVE  /\ Progress' /\ Booked'
             /\ \A k \in 1..Len(Cohort) : k > Len(books.entries) + 1 => Unbegun(k)'
    <2> DEFINE n == Len(books.entries)
    <2>1. Commanded /\ Progress /\ Booked /\ IsSeq(books.entries) /\ n \in Nat /\ cmd.dir \in Dirs
        BY <1>1, <1>3, SeqFacts, CommandFields DEF SiteInv, Underway, Progress, Commanded
    <2>2. Progress'
        BY <2>1 DEF Progress
    <2>a. cmd.site = n + 1 /\ \A k \in 1..n : books.entries[k].site = k
        BY <2>1 DEF Progress
    <2> HIDE DEF n
    <2>4. ASSUME NEW k, k # cmd.site PROVE Of(scans', By, k) = Of(scans, By, k)
        BY <2>4, OthersKeptTheirScans
    <2>5. ASSUME NEW k \in 1..Len(Cohort), k > n + 1 PROVE Unbegun(k)'
        <3>1. Unbegun(k) /\ k # cmd.site
            BY <1>1, <1>3, <2>1, <2>a, <2>5, CohortFacts DEF SiteInv, Underway, ToCome, n
        <3>2. Unwritten(k)'
            BY <1>1, <3>1 DEF Unbegun, Unwritten, Proceeds
        <3> QED BY <1>1, <2>4, <3>1, <3>2 DEF Unbegun
    <2>6. ASSUME NEW s \in PassedIn(books.entries)
          PROVE  /\ Of(scans', By, s) = Of(scans, By, s)
                 /\ Linked(disk'[cmd.dir][Cohort[s]], By, Cohort[s])
        <3>1. PICK k \in 1..n : books.entries[k].status = "PASS" /\ books.entries[k].site = s
            BY <2>1, PassedAre DEF n
        <3>2. s \in 1..n /\ s # cmd.site
            BY <2>1, <2>a, <3>1
        <3>3. Linked(disk[cmd.dir][Cohort[s]], By, Cohort[s]) /\ Cohort[s] \in Folders
            BY <2>1 DEF Booked, Folders
        <3>4. Linked(disk'[cmd.dir][Cohort[s]], By, Cohort[s])
            BY <2>1, <3>3 DEF Linked, Proceeds
        <3> QED BY <2>4, <3>2, <3>4
    <2>7. Booked'
        BY <1>1, <2>1, <2>6 DEF Booked
    <2> QED BY <1>1, <2>2, <2>5, <2>7 DEF n
<1> QED BY <1>1, <1>2, <1>3 DEF Others

(* Together with what concerns the site at hand. *)
LEMMA Assembled ==
    ASSUME SiteInv, Proceeds, Others', Reports', Listed', Filing', Written', pc' = "summary" => cmd'.kind = "cohort",
           pc' \in Early => Of(scans', By', cmd'.site) = {},
           pc' \in Unreported => Unwritten(cmd.site)'
    PROVE  SiteInv'
<1>1. Shapes' /\ Summaries' /\ Finished' /\ Watched' /\ Mined'
    BY ProceedsHistory
<1>2. ToCome'
    BY DEF ToCome, Others
<1>3. Underway'
    BY <1>2 DEF Underway, Others
<1> QED BY <1>1, <1>3 DEF SiteInv

(* A step of the site at hand that leaves the reports alone. *)
LEMMA SiteStep ==
    ASSUME SiteInv, Proceeds, UNCHANGED <<cmd, books>>, pc # "summary", pc' # "summary",
           \A d \in Dirs, h \in Folders : disk'[d][h].report = disk[d][h].report,
           scans' = scans \/ pc \in Unreported,
           pc' \in Early => pc \in Early /\ scans' = scans,
           pc' \in Unreported => pc \in Unreported,
           Listed', Filing', Written'
    PROVE  SiteInv'
<1>1. pc # "idle" /\ By' = By
    BY DEF Proceeds, By
<1>2. Underway /\ ToCome /\ cmd.site \in Sites
    BY <1>1, CommandFields DEF SiteInv, Underway, Commanded
<1>3. Reports'
    BY <1>2, ReportsSame DEF ToCome
<1>4. Others'
    BY SameSite
<1>5. pc' \in Unreported => Unwritten(cmd.site)'
    BY <1>1, <1>2 DEF ToCome, Unwritten
<1> QED BY <1>1, <1>2, <1>3, <1>4, <1>5, Assembled DEF ToCome

-----------------------------------------------------------------------------
(* The steps of an audit. *)

LEMMA UnderwayFacts ==
    ASSUME SiteInv, pc # "idle"
    PROVE  /\ Commanded /\ cmd \in Commands /\ cmd.dir \in Dirs /\ cmd.site \in Sites /\ Cohort[cmd.site] \in Folders /\ By \in Nat
           /\ Underway /\ ToCome
BY CommandFields, SeqFacts DEF SiteInv, Underway, Commanded, Shapes, By

LEMMA QuietProceeds ==
    ASSUME SiteInv, pc # "idle", pc' # "idle", UNCHANGED <<files, setup, story, scans>>
    PROVE  Proceeds /\ \A d \in Dirs, h \in Folders : disk'[d][h].report = disk[d][h].report
BY DEF SiteInv, Shapes, Proceeds, files

LEMMA WriteProceeds ==
    ASSUME SiteInv, pc # "idle", pc' # "idle", NEW f \in FileNames, NEW v, Write(f, v),
           UNCHANGED <<story, summary, change, learned, setup>>,
           f = "report" => v.by = By /\ v.site = cmd.site, f = "html" => v.by = By,
           scans \subseteq scans', \A c \in scans' : c \in scans \/ (c.by = By /\ c.site = cmd.site)
    PROVE  /\ Proceeds
           /\ f # "report" => \A d \in Dirs, h \in Folders : disk'[d][h].report = disk[d][h].report
           /\ disk'[cmd.dir][Cohort[cmd.site]][f] = v
           /\ \A g \in FileNames \ {f} : \A d \in Dirs : disk'[d][Cohort[cmd.site]][g] = disk[d][Cohort[cmd.site]][g]
<1>1. Shapes /\ cmd.dir \in Dirs /\ Cohort[cmd.site] \in Folders
    BY UnderwayFacts DEF SiteInv
<1>2. /\ DOMAIN disk' = Dirs
      /\ \A d \in Dirs : /\ DOMAIN disk'[d] = Folders /\ \A h \in Folders : DOMAIN disk'[d][h] = FileNames
                         /\ d # cmd.dir => disk'[d] = disk[d]
                         /\ \A h \in Folders : h # Cohort[cmd.site] => disk'[d][h] = disk[d][h]
      /\ disk'[cmd.dir][Cohort[cmd.site]][f] = v
      /\ \A g \in FileNames \ {f} : \A d \in Dirs : disk'[d][Cohort[cmd.site]][g] = disk[d][Cohort[cmd.site]][g]
    BY <1>1, WriteFacts
<1>4. (f # "report" => "report" \in FileNames \ {f}) /\ (f # "html" => "html" \in FileNames \ {f})
    BY DEF FileNames
<1>5. ASSUME f # "report", NEW d \in Dirs, NEW h \in Folders PROVE disk'[d][h].report = disk[d][h].report
    BY <1>2, <1>4, <1>5
<1>6. ASSUME f # "html", NEW d \in Dirs, NEW h \in Folders PROVE disk'[d][h].html = disk[d][h].html
    BY <1>2, <1>4, <1>6
<1>7. ASSUME NEW d \in Dirs, NEW h \in Folders
      PROVE  /\ \/ disk'[d][h].report = disk[d][h].report
                \/ h = Cohort[cmd.site] /\ disk'[d][h].report.by = By /\ disk'[d][h].report.site = cmd.site
             /\ disk'[d][h].html = disk[d][h].html \/ disk'[d][h].html.by = By
    <2>1. CASE d = cmd.dir /\ h = Cohort[cmd.site]
        BY <1>2, <1>5, <1>6, <2>1
    <2>2. CASE d # cmd.dir \/ h # Cohort[cmd.site]
        BY <1>2, <2>2
    <2> QED BY <2>1, <2>2
<1>3. Proceeds
    BY <1>2, <1>7 DEF Proceeds
<1> QED BY <1>2, <1>3, <1>5

LEMMA StartSiteKeeps == SiteInv /\ StartSite => SiteInv'
<1> SUFFICES ASSUME SiteInv, StartSite PROVE SiteInv'
    OBVIOUS
<1>1. /\ pc = "site" /\ pc' \in {"robots", "failed"} /\ scout' = NewScout /\ audit' = NewAudit
      /\ UNCHANGED <<cmd, books, files, setup, story, scans>>
    BY DEF StartSite, ghosts
<1>2. Proceeds /\ \A d \in Dirs, h \in Folders : disk'[d][h].report = disk[d][h].report
    BY <1>1, QuietProceeds
<1>3. Listed'
    BY <1>1, EmptyIsSeq DEF SiteInv, Listed, NewAudit, NewScout
<1>4. Filing' /\ Written'
    BY <1>1 DEF Filing, Written
<1> QED BY <1>1, <1>2, <1>3, <1>4, SiteStep DEF Early, Unreported

(* Scouting keeps a list of the pages seen, and touches nothing else. *)
LEMMA PagesKept ==
    ASSUME SiteInv, DoScout
    PROVE  DOMAIN scout' = DOMAIN NewScout /\ IsSeq(scout'.pages)
<1>1. DOMAIN scout = DOMAIN NewScout /\ IsSeq(scout.pages)
    BY DEF SiteInv, Listed
<1>2. DOMAIN NewScout = {"pending", "visited", "found", "queue", "queued", "pages", "final"}
    BY DEF NewScout
<1>3. CASE ReadRobots
    BY <1>1, <1>2, <1>3 DEF ReadRobots
<1>4. CASE VisitSitemap
    BY <1>1, <1>2, <1>4 DEF VisitSitemap
<1>5. CASE BrokenSitemap \/ ThrottledFetch
    BY <1>1, <1>5 DEF BrokenSitemap, ThrottledFetch
<1>6. CASE SeedQueue
    BY <1>1, <1>2, <1>6 DEF SeedQueue
<1>7. CASE Visit
    <2>1. DOMAIN scout' = DOMAIN scout /\ (scout'.pages = scout.pages \/ \E x : scout'.pages = Append(scout.pages, x))
        <3>1. PICK next \in Foremost : \E a \in {Served(next.url), FAILED} :
                scout' = IF ~a.ok \/ (a.ok /\ a.page.at = OFF) THEN [scout EXCEPT !.queue = @ \ {next}]
                         ELSE Inspected(next, a.page)
            BY <1>7 DEF Visit
        <3>2. PICK a : scout' = IF ~a.ok \/ (a.ok /\ a.page.at = OFF) THEN [scout EXCEPT !.queue = @ \ {next}]
                                ELSE Inspected(next, a.page)
            BY <3>1
        <3>3. CASE scout' = [scout EXCEPT !.queue = @ \ {next}]
            BY <1>1, <1>2, <3>3
        <3>4. CASE scout' = Inspected(next, a.page)
            BY <1>1, <1>2, <3>4 DEF Inspected
        <3> QED BY <3>2, <3>3, <3>4
    <2>2. \A x : IsSeq(Append(scout.pages, x))
        BY <1>1, SeqFacts
    <2> QED BY <1>1, <2>1, <2>2
<1>8. CASE TooDeep
    <2>1. PICK next \in Foremost : scout' = [scout EXCEPT !.queue = @ \ {next}]
        BY <1>8 DEF TooDeep
    <2> QED BY <1>1, <1>2, <2>1
<1> QED BY <1>3, <1>4, <1>5, <1>6, <1>7, <1>8 DEF DoScout, Scouting

LEMMA DoScoutKeeps == SiteInv /\ DoScout => SiteInv'
<1> SUFFICES ASSUME SiteInv, DoScout PROVE SiteInv'
    OBVIOUS
<1>1. /\ pc \in {"robots", "sitemaps", "visit"} /\ pc' \in {"robots", "sitemaps", "visit", "failed"}
      /\ UNCHANGED cmd
    BY DEF DoScout, Scouting, ReadRobots, VisitSitemap, BrokenSitemap, SeedQueue, Visit, TooDeep, ThrottledFetch, Visiting
<1>2. UNCHANGED <<audit, books, files, setup, story, scans>>
    BY DEF DoScout, mem, ghosts
<1>3. Proceeds /\ \A d \in Dirs, h \in Folders : disk'[d][h].report = disk[d][h].report
    BY <1>1, <1>2, QuietProceeds
<1>4. Listed'
    BY <1>1, <1>2, PagesKept DEF SiteInv, Listed
<1>5. Filing' /\ Written'
    BY <1>1 DEF Filing, Written
<1> QED BY <1>1, <1>2, <1>3, <1>4, <1>5, SiteStep DEF Early, Unreported

LEMMA RepresentativesAre ==
    ASSUME NEW pages, IsSeq(pages)
    PROVE  \E n \in Nat : DOMAIN Representatives(pages) = 1..n
<1>1. Sampled(pages) \subseteq 1..Len(pages) /\ Len(pages) \in Nat
    BY SeqFacts DEF Sampled
<1>2. Cardinality(Sampled(pages)) \in Nat
    <2>1. IsFiniteSet(1..Len(pages))
        BY <1>1, FS_Interval
    <2>2. IsFiniteSet(Sampled(pages))
        BY <1>1, <2>1, FS_Subset
    <2> QED BY <2>2, FS_CardinalityType
<1>3. DOMAIN Representatives(pages) = 1..Cardinality(Sampled(pages))
    BY DEF Representatives
<1> QED BY <1>2, <1>3

(* The surfaces an audit goes on with are numbered from one. *)
LEMMA CappedAre ==
    ASSUME cmd.maxSurfaces \in Nat \cup {NONE}, NEW n \in Nat, NEW s, DOMAIN s = 1..n, s = [k \in 1..n |-> s[k]],
           \A k \in 1..n : s[k].id = k
    PROVE  IsSeq(Capped(s)) /\ \A k \in 1..Len(Capped(s)) : Capped(s)[k].id = k
<1>1. IsSeq(s) /\ Len(s) = n /\ s \in Seq(ToSet(s))
    BY FunctionIsSeq DEF IsSeq
<1>2. CASE cmd.maxSurfaces = NONE
    BY <1>1, <1>2 DEF Capped
<1>3. CASE cmd.maxSurfaces # NONE
    <2> DEFINE m == IF Len(s) < cmd.maxSurfaces THEN Len(s) ELSE cmd.maxSurfaces
    <2>1. m \in Nat /\ m <= n /\ Capped(s) = SubSeq(s, 1, m)
        BY <1>1, <1>3 DEF Capped, UpTo
    <2> HIDE DEF m
    <2>2. 1 \in Int /\ m \in Int /\ \A i \in 1..m : s[i] \in ToSet(s)
        BY <1>1, <2>1 DEF ToSet
    <2>3. /\ SubSeq(s, 1, m) \in Seq(ToSet(s)) /\ Len(SubSeq(s, 1, m)) = (IF 1 <= m THEN m - 1 + 1 ELSE 0)
          /\ \A i \in 1..(m - 1 + 1) : SubSeq(s, 1, m)[i] = s[1 + i - 1]
        BY <2>2, SubSeqProperties
    <2> DEFINE t == SubSeq(s, 1, m)
    <2>a. Capped(s) = t /\ t \in Seq(ToSet(s)) /\ Len(t) = (IF 1 <= m THEN m - 1 + 1 ELSE 0)
          /\ \A i \in 1..(m - 1 + 1) : t[i] = s[1 + i - 1]
        BY <2>1, <2>3
    <2> HIDE DEF t
    <2>b. m - 1 + 1 = m /\ (~(1 <= m) => m = 0) /\ \A i \in 1..m : 1 + i - 1 = i
        BY <2>1
    <2>4. Capped(s) = t /\ t \in Seq(ToSet(s)) /\ Len(t) = m /\ \A i \in 1..m : t[i] = s[i]
        BY <2>a, <2>b
    <2>5. \A i \in 1..m : t[i].id = i
        BY <2>1, <2>4
    <2> QED BY <2>4, <2>5, SeqIsSeq
<1> QED BY <1>2, <1>3

LEMMA WriteSurfaceKeeps == SiteInv /\ WriteSurface => SiteInv'
<1> SUFFICES ASSUME SiteInv, WriteSurface PROVE SiteInv'
    OBVIOUS
<1> DEFINE all == Representatives(scout.pages)
           surfaces == [k \in DOMAIN all |-> [id |-> SurfaceId(k), url |-> all[k].url]]
           file == [by |-> By, site |-> cmd.site, final |-> scout.final, surfaces |-> surfaces]
<1>1. /\ pc = "visit" /\ pc' = "scan" /\ scout' = NewScout
      /\ UNCHANGED <<cmd, books, story, summary, change, learned, setup, scans>>
      /\ Write("surface", file) /\ audit' = [audit EXCEPT !.surfaces = Capped(surfaces)]
    BY Zenon DEF WriteSurface, Scouted, ghosts
<1>a. "surface" \in FileNames /\ "surface" \notin {"report", "html"} /\ "probes" \in FileNames /\ file.site = cmd.site
    BY DEF FileNames
<1> HIDE DEF file
<1>2. /\ Proceeds /\ \A d \in Dirs, h \in Folders : disk'[d][h].report = disk[d][h].report
      /\ disk'[cmd.dir][Cohort[cmd.site]].surface = file
    BY <1>1, <1>a, WriteProceeds
<1>3. /\ IsSeq(Capped(surfaces)) /\ \A k \in 1..Len(Capped(surfaces)) : Capped(surfaces)[k].id = k
    <2>1. PICK n \in Nat : DOMAIN all = 1..n
        BY RepresentativesAre DEF SiteInv, Listed
    <2> HIDE DEF all
    <2>2. /\ DOMAIN surfaces = 1..n /\ surfaces = [k \in 1..n |-> surfaces[k]]
          /\ \A k \in 1..n : surfaces[k].id = k
        BY <2>1 DEF SurfaceId
    <2>3. cmd.maxSurfaces \in Nat \cup {NONE}
        BY <1>1, UnderwayFacts, CommandFields
    <2> HIDE DEF surfaces
    <2> QED BY <2>2, <2>3, CappedAre
<1> HIDE DEF surfaces
<1>4. Listed'
    <2>1. /\ audit'.surfaces = Capped(surfaces) /\ audit'.runs = <<>> /\ DOMAIN audit' = DOMAIN NewAudit
        BY <1>1 DEF SiteInv, Listed, NewAudit
    <2>2. Len(<<>>) = 0 /\ IsSeq(<<>>) /\ Len(Capped(surfaces)) \in Nat
        BY <1>3, EmptyIsSeq, SeqFacts
    <2>3. DOMAIN scout' = DOMAIN NewScout /\ IsSeq(scout'.pages)
        BY <1>1, EmptyIsSeq DEF NewScout
    <2> QED BY <1>1, <1>3, <2>1, <2>2, <2>3 DEF SiteInv, Listed
<1>5. Filing'
    <2>1. audit'.runs = <<>> /\ Len(<<>>) = 0 /\ By' = By
        BY <1>1, EmptyIsSeq DEF SiteInv, Listed, NewAudit, By
    <2>2. Of(scans, By, cmd.site) = {}
        BY <1>1, UnderwayFacts DEF ToCome, Early
    <2> QED BY <1>1, <2>1, <2>2 DEF Filing, ProbesTrue, Copies
<1>6. Written'
    BY <1>1, <1>2, <1>a DEF Written
<1> QED BY <1>1, <1>2, <1>4, <1>5, <1>6, SiteStep DEF Early, Unreported

(* One more probe file, and the scan it is of. *)
LEMMA OneMoreProbe ==
    ASSUME NEW probes, NEW M, NEW m \in Nat, ProbesTrue(probes, M, m), NEW c, c.id = m + 1
    PROVE  ProbesTrue(Replaced(probes, [id |-> c.id, by |-> c.by, results |-> c.results]), M \cup {c}, m + 1)
<1> DEFINE file == [id |-> c.id, by |-> c.by, results |-> c.results]
<1>1. file.id = m + 1 /\ m + 1 \in 1..(m + 1)
    OBVIOUS
<1>2. Copies(M \cup {c}) = Copies(M) \cup {file}
    BY DEF Copies
<1> HIDE DEF file
<1>3. {p \in Replaced(probes, file) : p.id \in 1..(m + 1)} = {p \in probes : p.id \in 1..m} \cup {file}
    <2>1. ASSUME NEW x PROVE x \in 1..(m + 1) /\ x # m + 1 <=> x \in 1..m
        OBVIOUS
    <2>2. ASSUME NEW p PROVE p \in Replaced(probes, file) <=> (p \in probes /\ p.id # m + 1) \/ p = file
        BY <1>1 DEF Replaced
    <2>3. ASSUME NEW p \in probes PROVE p.id # m + 1 /\ p.id \in 1..(m + 1) <=> p.id \in 1..m
        BY <2>1
    <2> QED BY <1>1, <2>2, <2>3
<1> QED BY <1>2, <1>3 DEF ProbesTrue, file

LEMMA ScanKeeps == SiteInv /\ Scan => SiteInv'
<1> SUFFICES ASSUME SiteInv, Scan PROVE SiteInv'
    OBVIOUS
<1> DEFINE n == Len(audit.runs)
<1>1. PICK a \in {Served(Current.url), FAILED} :
        IF OnHost(a)
        THEN /\ Write("probes", Replaced(disk[cmd.dir][Cohort[cmd.site]].probes,
                        [id |-> Current.id, by |-> By, results |-> a.page.results]))
             /\ scans' = scans \cup {[by |-> By, site |-> cmd.site, id |-> Current.id, at |-> a.page.at,
                                      results |-> a.page.results]}
             /\ IF cmd.journeys THEN pc' = "journey" /\ UNCHANGED audit
                ELSE pc' = pc /\ audit' = [audit EXCEPT !.runs = Append(@, Current)]
        ELSE pc' = "failed" /\ UNCHANGED <<disk, scans, audit>>
    BY DEF Scan, Own
<1>2. pc = "scan" /\ Pending /\ UNCHANGED <<cmd, scout, books, summary, change, learned, setup, story>>
    BY DEF Scan
<1>3. Listed /\ By' = By
    BY <1>2 DEF SiteInv, By
<1>4. /\ n \in Nat /\ n + 1 \in 1..Len(audit.surfaces) /\ Current.id = n + 1 /\ Len(audit.surfaces) \in Nat
      /\ IsSeq(audit.runs) /\ IsSeq(audit.surfaces)
    BY <1>2, <1>3, SeqFacts DEF Listed, Pending, Current
<1>5. CASE ~OnHost(a)
    <2>1. pc' = "failed" /\ UNCHANGED <<disk, scans, audit>>
        BY <1>1, <1>5
    <2>2. Proceeds /\ \A d \in Dirs, h \in Folders : disk'[d][h].report = disk[d][h].report
        BY <1>2, <2>1, QuietProceeds DEF files
    <2>3. Listed' /\ Filing' /\ Written'
        BY <1>2, <1>3, <2>1 DEF Listed, Filing, Written
    <2> QED BY <1>2, <2>1, <2>2, <2>3, SiteStep DEF Early, Unreported
<1>6. CASE OnHost(a)
    <2> DEFINE c == [by |-> By, site |-> cmd.site, id |-> Current.id, at |-> a.page.at, results |-> a.page.results]
               file == [id |-> c.id, by |-> c.by, results |-> c.results]
               old == disk[cmd.dir][Cohort[cmd.site]].probes
    <2>0. c.id = Current.id /\ c.by = By /\ c.site = cmd.site /\ c.results = a.page.results
        OBVIOUS
    <2>1. /\ Write("probes", Replaced(old, file)) /\ scans' = scans \cup {c}
          /\ \/ pc' = "journey" /\ audit' = audit
             \/ pc' = "scan" /\ audit' = [audit EXCEPT !.runs = Append(@, Current)]
        BY <1>1, <1>2, <1>6, <2>0
    <2> HIDE DEF file, old
    <2>2. "probes" \in FileNames /\ "probes" \notin {"report", "html"} /\ "surface" \in FileNames \ {"probes"}
        BY DEF FileNames
    <2> HIDE DEF c
    <2>3. /\ Proceeds /\ \A d \in Dirs, h \in Folders : disk'[d][h].report = disk[d][h].report
          /\ disk'[cmd.dir][Cohort[cmd.site]].probes = Replaced(old, file)
          /\ \A d \in Dirs : disk'[d][Cohort[cmd.site]].surface = disk[d][Cohort[cmd.site]].surface
        BY <1>2, <2>0, <2>1, <2>2, WriteProceeds
    <2>4. Listed' /\ (pc' = "scan" => Len(audit'.runs) = n + 1) /\ (pc' = "journey" => Len(audit'.runs) = n)
        <3>1. CASE audit' = audit /\ pc' = "journey"
            BY <1>2, <1>3, <1>4, <3>1 DEF Listed
        <3>2. CASE pc' = "scan" /\ audit' = [audit EXCEPT !.runs = Append(@, Current)]
            <4>1. /\ audit'.runs = Append(audit.runs, Current) /\ audit'.surfaces = audit.surfaces
                  /\ DOMAIN audit' = DOMAIN NewAudit
                BY <1>3, <3>2 DEF Listed, NewAudit
            <4> DEFINE u == Append(audit.runs, Current)
            <4>2. /\ IsSeq(u) /\ Len(u) = n + 1 /\ \A i \in 1..n : u[i] = audit.runs[i]
                  /\ u[n + 1] = Current
                BY <1>4, SeqFacts
            <4> HIDE DEF u
            <4>3. audit'.runs = u
                BY <4>1 DEF u
            <4>4. \A k \in 1..Len(u) : u[k].id = k
                BY <1>3, <1>4, <4>2 DEF Listed
            <4> QED BY <1>2, <1>3, <1>4, <3>2, <4>1, <4>2, <4>3, <4>4 DEF Listed
        <3> QED BY <2>1, <3>1, <3>2
    <2>5. Filing'
        <3>1. Of(scans', By, cmd.site) = Of(scans, By, cmd.site) \cup {c}
            BY <2>0, <2>1 DEF Of
        <3>2. ProbesTrue(old, Of(scans, By, cmd.site), n)
            BY <1>2, <1>4, UnderwayFacts DEF Underway, Filing, old
        <3>3. ProbesTrue(Replaced(old, file), Of(scans, By, cmd.site) \cup {c}, n + 1)
            BY <1>4, <2>0, <3>2, OneMoreProbe DEF file
        <3>4. Len(audit'.runs) + (IF pc' = "journey" THEN 1 ELSE 0) = n + 1
            <4>1. pc' = "journey" \/ pc' = "scan"
                BY <2>1
            <4>2. n \in Nat
                BY <1>4
            <4>3. CASE pc' = "journey"
                <5>1. Len(audit'.runs) = n
                    BY <2>4, <4>3
                <5> QED BY <4>2, <4>3, <5>1
            <4>4. CASE pc' = "scan"
                <5>1. Len(audit'.runs) = n + 1
                    BY <2>4, <4>4
                <5> QED BY <4>2, <4>4, <5>1
            <4> QED BY <4>1, <4>3, <4>4
        <3> QED BY <1>2, <1>3, <2>3, <3>1, <3>3, <3>4 DEF Filing
    <2>6. Written'
        BY <1>2, <2>1, <2>3, UnderwayFacts DEF Underway, Written
    <2> QED BY <1>2, <2>1, <2>3, <2>4, <2>5, <2>6, SiteStep DEF Early, Unreported
<1> QED BY <1>5, <1>6

LEMMA JourneyKeeps == SiteInv /\ Journey => SiteInv'
<1> SUFFICES ASSUME SiteInv, Journey PROVE SiteInv'
    OBVIOUS
<1> DEFINE n == Len(audit.runs)
<1>1. pc = "journey" /\ UNCHANGED <<cmd, scout, books, summary, change, learned, setup, story, scans>>
    BY DEF Journey
<1>2. \/ pc' = "failed" /\ UNCHANGED <<disk, audit>>
      \/ \E v, r : /\ Write("journeys", v) /\ pc' = "scan"
                   /\ audit' = [audit EXCEPT !.runs = Append(@, Current), !.journeyRuns = @ \cup {r}]
    BY DEF Journey
<1>3. Listed /\ By' = By
    BY <1>1 DEF SiteInv, By
<1>4. /\ n \in Nat /\ n + 1 \in 1..Len(audit.surfaces) /\ Current.id = n + 1 /\ Len(audit.surfaces) \in Nat
      /\ IsSeq(audit.runs) /\ IsSeq(audit.surfaces)
    BY <1>1, <1>3, SeqFacts DEF Listed, Current
<1>5. CASE pc' = "failed" /\ UNCHANGED <<disk, audit>>
    <2>1. Proceeds /\ \A d \in Dirs, h \in Folders : disk'[d][h].report = disk[d][h].report
        BY <1>1, <1>5, QuietProceeds DEF files
    <2>2. Listed' /\ Filing' /\ Written'
        BY <1>1, <1>3, <1>5 DEF Listed, Filing, Written
    <2> QED BY <1>1, <1>5, <2>1, <2>2, SiteStep DEF Early, Unreported
<1>6. ASSUME NEW v, NEW r, Write("journeys", v), pc' = "scan",
             audit' = [audit EXCEPT !.runs = Append(@, Current), !.journeyRuns = @ \cup {r}]
      PROVE  SiteInv'
    <2>1. "journeys" \in FileNames /\ "journeys" \notin {"report", "html"} /\ {"probes", "surface"} \subseteq FileNames \ {"journeys"}
        BY DEF FileNames
    <2>2. /\ Proceeds /\ \A d \in Dirs, h \in Folders : disk'[d][h].report = disk[d][h].report
          /\ \A d \in Dirs : /\ disk'[d][Cohort[cmd.site]].probes = disk[d][Cohort[cmd.site]].probes
                             /\ disk'[d][Cohort[cmd.site]].surface = disk[d][Cohort[cmd.site]].surface
        BY <1>1, <1>6, <2>1, WriteProceeds
    <2>3. Listed' /\ Len(audit'.runs) = n + 1
        <3>1. /\ audit'.runs = Append(audit.runs, Current) /\ audit'.surfaces = audit.surfaces
              /\ DOMAIN audit' = DOMAIN NewAudit
            BY <1>3, <1>6 DEF Listed, NewAudit
        <3> DEFINE u == Append(audit.runs, Current)
        <3>2. /\ IsSeq(u) /\ Len(u) = n + 1 /\ \A i \in 1..n : u[i] = audit.runs[i]
              /\ u[n + 1] = Current
            BY <1>4, SeqFacts
        <3> HIDE DEF u
        <3>3. audit'.runs = u
            BY <3>1 DEF u
        <3>4. \A k \in 1..Len(u) : u[k].id = k
            BY <1>3, <1>4, <3>2 DEF Listed
        <3> QED BY <1>1, <1>3, <1>4, <1>6, <3>1, <3>2, <3>3, <3>4 DEF Listed
    <2>4. Filing'
        <3>1. ProbesTrue(disk[cmd.dir][Cohort[cmd.site]].probes, Of(scans, By, cmd.site), n + 1)
            BY <1>1, <1>4, UnderwayFacts DEF Underway, Filing
        <3>2. cmd.dir \in Dirs
            BY <1>1, UnderwayFacts
        <3>3. Len(audit'.runs) + 0 = n + 1
            BY <1>4, <2>3
        <3> QED BY <1>1, <1>3, <1>6, <2>2, <3>1, <3>2, <3>3 DEF Filing
    <2>5. Written'
        BY <1>1, <1>6, <2>2, UnderwayFacts DEF Underway, Written
    <2> QED BY <1>1, <1>6, <2>2, <2>3, <2>4, <2>5, SiteStep DEF Early, Unreported
<1> QED BY <1>2, <1>5, <1>6

LEMMA ThrottledPageKeeps == SiteInv /\ ThrottledPage => SiteInv'
<1> SUFFICES ASSUME SiteInv, ThrottledPage PROVE SiteInv'
    OBVIOUS
<1>1. pc \in {"scan", "journey"} /\ UNCHANGED <<pc, cmd, scout, audit, books, files, setup, story, scans>>
    BY DEF ThrottledPage, mem, ghosts
<1>2. Proceeds /\ \A d \in Dirs, h \in Folders : disk'[d][h].report = disk[d][h].report
    BY <1>1, QuietProceeds
<1>3. Listed' /\ Filing' /\ Written'
    BY <1>1, UnderwayFacts DEF SiteInv, Underway, Listed, Filing, Written, files, By
<1> QED BY <1>1, <1>2, <1>3, SiteStep DEF Early, Unreported

LEMMA TriageKeeps == SiteInv /\ Triage => SiteInv'
<1> SUFFICES ASSUME SiteInv, Triage PROVE SiteInv'
    OBVIOUS
<1> DEFINE M == Of(scans, By, cmd.site)
           file == [by |-> By, total |-> Len(audit.runs), findings |-> Grouped(Loaded)]
<1>1. /\ pc = "scan" /\ pc' = "manifest" /\ Write("findings", file)
      /\ UNCHANGED <<cmd, scout, audit, books, summary, change, learned, setup, story, scans>>
    BY DEF Triage, mem, ghosts
<1>2. Listed /\ By' = By
    BY <1>1 DEF SiteInv, By
<1>3. /\ "findings" \in FileNames /\ "findings" \notin {"report", "html"} /\ file.findings = Grouped(Loaded)
      /\ "surface" \in FileNames \ {"findings"}
    BY DEF FileNames
<1>4. FindingsTrue(Grouped(Loaded), M, setup)
    <2>1. /\ Len(audit.runs) \in Nat /\ DOMAIN audit.runs = 1..Len(audit.runs)
          /\ \A k \in 1..Len(audit.runs) : audit.runs[k].id = k
        BY <1>2, SeqFacts DEF Listed
    <2>2. Loaded = {p \in disk[cmd.dir][Cohort[cmd.site]].probes : p.id \in 1..Len(audit.runs)}
        BY <2>1 DEF Loaded, Own
    <2>3. ProbesTrue(disk[cmd.dir][Cohort[cmd.site]].probes, M, Len(audit.runs))
        BY <1>1, <2>1, UnderwayFacts DEF Underway, Filing
    <2>4. Loaded = Copies(M)
        BY <2>2, <2>3 DEF ProbesTrue
    <2> QED BY <2>4, GroupedTrue
<1> HIDE DEF file
<1>5. /\ Proceeds /\ \A d \in Dirs, h \in Folders : disk'[d][h].report = disk[d][h].report
      /\ disk'[cmd.dir][Cohort[cmd.site]].findings = file
      /\ \A d \in Dirs : disk'[d][Cohort[cmd.site]].surface = disk[d][Cohort[cmd.site]].surface
    BY <1>1, <1>3, WriteProceeds
<1>6. Listed' /\ Filing'
    BY <1>1, <1>2 DEF Listed, Filing
<1>7. Written'
    BY <1>1, <1>2, <1>3, <1>4, <1>5, UnderwayFacts DEF Underway, Written
<1> QED BY <1>1, <1>5, <1>6, <1>7, SiteStep DEF Early, Unreported

LEMMA WriteManifestKeeps == SiteInv /\ WriteManifest => SiteInv'
<1> SUFFICES ASSUME SiteInv, WriteManifest PROVE SiteInv'
    OBVIOUS
<1>1. PICK v : Write("manifest", v)
    BY DEF WriteManifest
<1>2. /\ pc = "manifest" /\ pc' = (IF cmd.report THEN "report" ELSE "return")
      /\ UNCHANGED <<cmd, scout, audit, books, summary, change, learned, setup, story, scans>>
    BY DEF WriteManifest, mem, ghosts
<1>3. "manifest" \in FileNames /\ "manifest" \notin {"report", "html"} /\ {"findings", "surface"} \subseteq FileNames \ {"manifest"}
    BY DEF FileNames
<1>4. /\ Proceeds /\ \A d \in Dirs, h \in Folders : disk'[d][h].report = disk[d][h].report
      /\ \A d \in Dirs : /\ disk'[d][Cohort[cmd.site]].findings = disk[d][Cohort[cmd.site]].findings
                         /\ disk'[d][Cohort[cmd.site]].surface = disk[d][Cohort[cmd.site]].surface
    BY <1>1, <1>2, <1>3, WriteProceeds
<1>5. Listed' /\ Filing'
    BY <1>2 DEF SiteInv, Listed, Filing
<1>6. Written'
    BY <1>2, <1>4, UnderwayFacts DEF Underway, Written, By
<1> QED BY <1>2, <1>4, <1>5, <1>6, SiteStep DEF Early, Unreported

LEMMA WriteHtmlKeeps == SiteInv /\ WriteHtml => SiteInv'
<1> SUFFICES ASSUME SiteInv, WriteHtml PROVE SiteInv'
    OBVIOUS
<1> DEFINE file == [by |-> By]
<1>1. /\ pc = "html" /\ pc' = "return" /\ Write("html", file)
      /\ UNCHANGED <<cmd, scout, audit, books, summary, change, learned, setup, story, scans>>
    BY DEF WriteHtml, mem, ghosts
<1>2. "html" \in FileNames /\ "html" # "report" /\ "report" \in FileNames \ {"html"} /\ file.by = By
    BY DEF FileNames
<1> HIDE DEF file
<1>3. /\ Proceeds /\ \A d \in Dirs, h \in Folders : disk'[d][h].report = disk[d][h].report
      /\ disk'[cmd.dir][Cohort[cmd.site]].html = file
    BY <1>1, <1>2, WriteProceeds
<1>4. Listed' /\ Filing'
    BY <1>1 DEF SiteInv, Listed, Filing
<1>5. Written'
    BY <1>1, <1>2, <1>3, UnderwayFacts DEF Underway, Written, By
<1> QED BY <1>1, <1>3, <1>4, <1>5, SiteStep DEF Early, Unreported

LEMMA WriteReportKeeps == SiteInv /\ WriteReport => SiteInv'
<1> SUFFICES ASSUME SiteInv, WriteReport PROVE SiteInv'
    OBVIOUS
<1> DEFINE M == Of(scans, By, cmd.site)
           triage == disk[cmd.dir][Cohort[cmd.site]].findings
           file == [by |-> By, site |-> disk[cmd.dir][Cohort[cmd.site]].surface.site,
                    profile |-> setup.profile, totalSurfaces |-> triage.total,
                    findings |-> triage.findings, repeated |-> Cardinality(Repeated(triage.findings)),
                    needsReview |-> Cardinality(NeedsReview(triage.findings))]
<1>1. /\ pc = "report" /\ pc' = "html" /\ Write("report", file)
      /\ UNCHANGED <<cmd, scout, audit, books, summary, change, learned, setup, story, scans>>
    BY DEF WriteReport, Own, mem, ghosts
<1>2. By' = By /\ Commanded /\ By \in 1..By /\ cmd.dir \in Dirs /\ Cohort[cmd.site] \in Folders
    BY <1>1, UnderwayFacts DEF By, Commanded
<1>3. "report" \in FileNames /\ file.by = By /\ file.site = cmd.site /\ ReportTrue(file, M, setup)
    <2>1. FindingsTrue(triage.findings, M, setup) /\ file.site = cmd.site
        BY <1>1, UnderwayFacts DEF Underway, Written
    <2> QED BY <2>1 DEF FileNames, ReportTrue
<1> HIDE DEF file
<1>4. Proceeds /\ disk'[cmd.dir][Cohort[cmd.site]].report = file
    BY <1>1, <1>3, WriteProceeds
<1>5. Listed' /\ Filing'
    BY <1>1 DEF SiteInv, Listed, Filing
<1>6. Written'
    BY <1>1, <1>2, <1>3, <1>4 DEF Written
<1>7. Reports'
    <2> SUFFICES ASSUME NEW d \in Dirs, NEW h \in Folders, disk'[d][h].report # Absent
                 PROVE  LET r == disk'[d][h].report
                        IN  r.by \in 1..By /\ ReportTrue(r, Of(scans, r.by, r.site), story[r.by].setup)
        BY <1>1, <1>2 DEF Reports
    <2>1. CASE d = cmd.dir /\ h = Cohort[cmd.site]
        BY <1>2, <1>3, <1>4, <2>1 DEF Commanded
    <2>2. CASE d # cmd.dir \/ h # Cohort[cmd.site]
        <3>1. disk'[d][h] = disk[d][h]
            BY <1>4, <2>2 DEF Proceeds
        <3> QED BY <3>1 DEF SiteInv, Reports
    <2> QED BY <2>1, <2>2
<1>8. Others'
    BY <1>1, <1>4, SameSite
<1> QED BY <1>1, <1>4, <1>5, <1>6, <1>7, <1>8, Assembled DEF Early, Unreported

LEMMA AuditThrowsKeeps == SiteInv /\ AuditThrows => SiteInv'
<1> SUFFICES ASSUME SiteInv, AuditThrows PROVE SiteInv'
    OBVIOUS
<1>1. /\ pc \in {"visit", "scan", "manifest", "report", "html"} /\ pc' = "failed"
      /\ UNCHANGED <<cmd, scout, audit, books, files, setup, story, scans>>
    BY DEF AuditThrows, Scouted, mem, ghosts
<1>2. Proceeds /\ \A d \in Dirs, h \in Folders : disk'[d][h].report = disk[d][h].report
    BY <1>1, QuietProceeds
<1>3. Listed' /\ Filing' /\ Written'
    BY <1>1 DEF SiteInv, Listed, Filing, Written
<1> QED BY <1>1, <1>2, <1>3, SiteStep DEF Early, Unreported

LEMMA AuditingKeeps == SiteInv /\ Auditing => SiteInv'
BY WriteSurfaceKeeps, ScanKeeps, JourneyKeeps, ThrottledPageKeeps, TriageKeeps, WriteManifestKeeps,
   WriteReportKeeps, WriteHtmlKeeps, AuditThrowsKeeps DEF Auditing

-----------------------------------------------------------------------------
(* From one site of a cohort to the next. *)

LEMMA NextSiteFacts ==
    ASSUME SiteInv, pc \notin {"idle", "summary"}, cmd.kind = "cohort", NextSite, IsSeq(books'.entries),
           NEW e, books'.entries = Append(books.entries, e), e.site = cmd.site,
           e.status \in {"PASS", "ERROR"}, UNCHANGED <<disk, story, scans, setup>>
    PROVE  /\ Commanded' /\ Progress' /\ ToCome' /\ cmd'.kind = "cohort" /\ cmd'.dir = cmd.dir
           /\ pc' \in {"site", "summary"}
<1> DEFINE n == Len(books.entries)
           u == Append(books.entries, e)
<1>1. Commanded /\ Progress /\ ToCome /\ IsSeq(books.entries) /\ n \in Nat
    BY UnderwayFacts, SeqFacts DEF Underway, Progress
<1>2. /\ n < Len(Cohort) /\ cmd.site = n + 1
      /\ \A k \in 1..n : books.entries[k].site = k /\ books.entries[k].status \in {"PASS", "ERROR"}
    BY <1>1 DEF Progress
<1>3. Len(Cohort) \in Nat
    BY CohortFacts
<1>4. /\ Len(u) = n + 1 /\ \A k \in 1..n : u[k] = books.entries[k]
      /\ u[n + 1] = e /\ IsSeq(u)
    BY <1>1, SeqFacts
<1> HIDE DEF u
<1>5. books'.entries = u /\ By' = By
    BY DEF u, By
<1>b. \A k \in 1..Len(Cohort) : k > n + 1 => Unbegun(k)
    BY <1>1 DEF ToCome
<1> HIDE DEF n
<1>a. \A k \in 1..(n + 1) : k \in 1..Len(Cohort) /\ u[k].site = k /\ u[k].status \in {"PASS", "ERROR"}
    <2> SUFFICES ASSUME NEW k \in 1..(n + 1)
                 PROVE k \in 1..Len(Cohort) /\ u[k].site = k /\ u[k].status \in {"PASS", "ERROR"}
        OBVIOUS
    <2>1. CASE k = n + 1
        BY <1>1, <1>2, <1>3, <1>4, <2>1
    <2>2. CASE k # n + 1
        <3>1. k \in 1..n /\ k \in 1..Len(Cohort)
            BY <1>1, <1>2, <1>3, <2>2
        <3> QED BY <1>2, <1>4, <3>1
    <2> QED BY <2>1, <2>2
<1>6. CASE cmd.site = Len(Cohort)
    <2>1. pc' = "summary" /\ cmd' = cmd
        BY <1>6 DEF NextSite
    <2>2. Len(u) = Len(Cohort)
        BY <1>2, <1>4, <1>6
    <2>3. Progress'
        BY <1>2, <1>4, <1>5, <1>6, <1>a, <2>1, <2>2 DEF Progress
    <2>4. Commanded'
        BY <1>1, <1>5, <2>1 DEF Commanded
    <2>5. ToCome'
        BY <1>5, <2>1, <2>2, <1>3 DEF ToCome, Early, Unreported
    <2> QED BY <2>1, <2>3, <2>4, <2>5
<1>7. CASE cmd.site # Len(Cohort)
    <2>1. pc' = "site" /\ cmd' = [cmd EXCEPT !.site = n + 2] /\ n + 2 \in 1..Len(Cohort) /\ n + 1 < Len(Cohort)
        <3>1. pc' = "site" /\ cmd' = [cmd EXCEPT !.site = cmd.site + 1]
            BY <1>7 DEF NextSite
        <3>2. cmd.site + 1 = n + 2 /\ n + 2 \in 1..Len(Cohort) /\ n + 1 < Len(Cohort)
            BY <1>1, <1>2, <1>3, <1>7
        <3> QED BY <3>1, <3>2
    <2>5. cmd' \in Commands /\ cmd'.site = n + 2 /\ cmd'.kind = cmd.kind /\ cmd'.dir = cmd.dir
        BY <1>1, <2>1, CohortFacts, CommandFields DEF Commanded
    <2>6. Progress'
        <3>1. Len(u) = n + 1 /\ (n + 1) + 1 = n + 2
            BY <1>1, <1>4
        <3> QED BY <1>4, <1>5, <1>a, <2>1, <2>5, <3>1 DEF Progress
    <2>7. Commanded'
        BY <1>1, <1>5, <2>5 DEF Commanded
    <2>8. ToCome'
        <3>2. n + 2 > n + 1 /\ \A k \in 1..Len(Cohort) : k > (n + 1) + 1 => k > n + 1
            BY <1>1, <1>3
        <3>3. Unbegun(n + 2)
            BY <1>b, <2>1, <3>2
        <3>4. \A k \in 1..Len(Cohort) : k > Len(books'.entries) + 1 => Unbegun(k)'
            BY <1>4, <1>5, <1>b, <3>2 DEF Unbegun, Unwritten
        <3>5. Of(scans, By, n + 2) = {} /\ Unwritten(cmd.site)'
            BY <1>5, <2>5, <3>3 DEF Unbegun, Unwritten
        <3> QED BY <1>5, <2>5, <3>4, <3>5 DEF ToCome, Unwritten
    <2> QED BY <2>1, <2>5, <2>6, <2>7, <2>8
<1> QED BY <1>6, <1>7

LEMMA SitePassesKeeps == SiteInv /\ SitePasses => SiteInv'
<1> SUFFICES ASSUME SiteInv, SitePasses PROVE SiteInv'
    OBVIOUS
<1> DEFINE report == disk[cmd.dir][Cohort[cmd.site]].report
           M == Of(scans, By, cmd.site)
           e == Pass(report)
<1>1. /\ pc = "return" /\ cmd.kind = "cohort" /\ NextSite /\ audit' = NewAudit
      /\ UNCHANGED <<scout, disk, summary, change, learned, setup, story, scans>>
      /\ books' = [entries |-> Append(books.entries, e),
                   issues |-> books.issues \cup IssueLines(report), journeys |-> books.journeys \cup JourneyLines]
    BY DEF SitePasses, Own, files, ghosts
<1>2. /\ Commanded /\ Progress /\ Booked /\ Written /\ cmd.dir \in Dirs /\ cmd.site \in Sites /\ By \in Nat
      /\ cmd.report = TRUE /\ Cohort[cmd.site] \in Folders
    BY <1>1, UnderwayFacts, CommandFields DEF Underway
<1>3. e.site = cmd.site /\ e.status = "PASS"
    BY DEF Pass
<1> HIDE DEF e
<1>4. /\ books'.entries = Append(books.entries, e)
      /\ books'.issues = books.issues \cup IssueLines(report) /\ DOMAIN books' = DOMAIN NewBooks
    BY <1>1 DEF NewBooks
<1>5. IsSeq(books.entries) /\ IsSeq(books'.entries)
    BY <1>2, <1>4, SeqFacts DEF Progress
<1>6. /\ Commanded' /\ Progress' /\ ToCome' /\ cmd'.kind = "cohort" /\ cmd'.dir = cmd.dir
      /\ pc' \in {"site", "summary"}
    BY <1>1, <1>3, <1>4, <1>5, NextSiteFacts
<1>7. Proceeds /\ \A d \in Dirs, h \in Folders : disk'[d][h].report = disk[d][h].report
    BY <1>1, <1>6, QuietProceeds DEF files
<1>8. Reports'
    BY <1>1, <1>7, ReportsSame
<1>9. Listed'
    BY <1>1, <1>4, <1>6, EmptyIsSeq DEF SiteInv, Listed, NewAudit
<1>10. Filing' /\ Written'
    BY <1>6 DEF Filing, Written
<1>11. report.by = By /\ report.site = cmd.site /\ disk[cmd.dir][Cohort[cmd.site]].html.by = By
    BY <1>1, <1>2 DEF Written
<1>12. DOMAIN report.findings = KeysOf(M)
    <2>1. By \in 1..By /\ Absent.by = 0
        BY <1>2 DEF Commanded, Absent
    <2>2. report # Absent
        BY <1>11, <2>1
    <2>3. ReportTrue(report, Of(scans, report.by, report.site), story[report.by].setup)
        BY <1>2, <2>2 DEF SiteInv, Reports
    <2> QED BY <1>11, <2>3 DEF ReportTrue, FindingsTrue
<1>13. Booked'
    <2> HIDE DEF report, M
    <2> DEFINE passed == PassedIn(books.entries)
    <2>1. PassedIn(books'.entries) = passed \cup {cmd.site}
        BY <1>3, <1>4, <1>5, PassedAre
    <2>2. ASSUME NEW l \in IssueLines(report) PROVE l.site = cmd.site /\ l.name = Name[cmd.site] /\ l.key \in KeysOf(M)
        BY <1>12 DEF IssueLines, Lines
    <2>3. ASSUME NEW k \in KeysOf(M) PROVE \E l \in IssueLines(report) : l.site = cmd.site /\ l.key = k
        <3>1. Lines(k, report.findings[k].occurrenceCount) \in IssueLines(report)
            BY <1>12 DEF IssueLines
        <3> QED BY <3>1 DEF Lines
    <2>4. ASSUME NEW l \in books'.issues
          PROVE  /\ l.site \in passed \cup {cmd.site} /\ l.name = Name[l.site]
                 /\ SawIn(Of(scans, By, l.site), l.key)
        <3>1. CASE l \in books.issues
            BY <1>2, <3>1 DEF Booked
        <3>2. CASE l \in IssueLines(report)
            BY <2>2, <3>2, KeysAre DEF M
        <3> QED BY <1>4, <3>1, <3>2
    <2>5. ASSUME NEW s \in passed \cup {cmd.site}, NEW k \in KeysOf(Of(scans, By, s))
          PROVE  \E l \in books'.issues : l.site = s /\ l.key = k
        <3>1. CASE s \in passed
            BY <1>2, <1>4, <3>1 DEF Booked
        <3>2. CASE s = cmd.site
            BY <1>4, <2>3, <3>2 DEF M
        <3> QED BY <3>1, <3>2
    <2>6. /\ \A s \in passed \cup {cmd.site} : Linked(disk[cmd.dir][Cohort[s]], By, Cohort[s])
          /\ passed \cup {cmd.site} \subseteq Sites
        BY <1>2, <1>11 DEF Booked, Linked, report
    <2>7. By' = By
        BY <1>1 DEF By
    <2> HIDE DEF passed
    <2> QED BY <1>1, <1>6, <2>1, <2>4, <2>5, <2>6, <2>7 DEF Booked
<1>14. Others'
    BY <1>6, <1>13 DEF Others, ToCome
<1> QED BY <1>6, <1>7, <1>8, <1>9, <1>10, <1>14, Assembled DEF ToCome

LEMMA SiteFailsKeeps == SiteInv /\ SiteFails => SiteInv'
<1> SUFFICES ASSUME SiteInv, SiteFails PROVE SiteInv'
    OBVIOUS
<1> DEFINE e == [site |-> cmd.site, status |-> "ERROR"]
<1>1. /\ pc = "failed" /\ cmd.kind = "cohort" /\ NextSite /\ audit' = NewAudit /\ scout' = NewScout
      /\ UNCHANGED <<disk, summary, change, learned, setup, story, scans>>
      /\ books' = [books EXCEPT !.entries = Append(@, e)]
    BY DEF SiteFails, files, ghosts
<1>2. /\ Commanded /\ Progress /\ Booked /\ cmd.dir \in Dirs /\ cmd.site \in Sites /\ By \in Nat
    BY <1>1, UnderwayFacts DEF Underway
<1>3. e.site = cmd.site /\ e.status = "ERROR"
    OBVIOUS
<1> HIDE DEF e
<1>4. /\ books'.entries = Append(books.entries, e)
      /\ books'.issues = books.issues /\ DOMAIN books' = DOMAIN NewBooks
    BY <1>1 DEF SiteInv, Listed, NewBooks
<1>5. IsSeq(books.entries) /\ IsSeq(books'.entries)
    BY <1>2, <1>4, SeqFacts DEF Progress
<1>6. /\ Commanded' /\ Progress' /\ ToCome' /\ cmd'.kind = "cohort" /\ cmd'.dir = cmd.dir
      /\ pc' \in {"site", "summary"}
    BY <1>1, <1>3, <1>4, <1>5, NextSiteFacts
<1>7. Proceeds /\ \A d \in Dirs, h \in Folders : disk'[d][h].report = disk[d][h].report
    BY <1>1, <1>6, QuietProceeds DEF files
<1>8. Reports'
    BY <1>1, <1>7, ReportsSame
<1>9. Listed'
    BY <1>1, <1>4, <1>6, EmptyIsSeq DEF SiteInv, Listed, NewAudit, NewScout
<1>10. Filing' /\ Written'
    BY <1>6 DEF Filing, Written
<1>11. Booked'
    <2>1. PassedIn(books'.entries) = PassedIn(books.entries)
        <3>1. \A x : PassedIn(Append(books.entries, x)) = PassedIn(books.entries) \cup (IF x.status = "PASS" THEN {x.site} ELSE {})
            BY <1>5, PassedAre
        <3>2. PassedIn(Append(books.entries, e)) = PassedIn(books.entries) \cup {}
            BY <1>3, <3>1
        <3> QED BY <1>4, <3>2
    <2>2. By' = By
        BY <1>1 DEF By
    <2> QED BY <1>1, <1>2, <1>4, <1>6, <2>1, <2>2 DEF Booked
<1>12. Others'
    BY <1>6, <1>11 DEF Others, ToCome
<1> QED BY <1>6, <1>7, <1>8, <1>9, <1>10, <1>12, Assembled DEF ToCome

-----------------------------------------------------------------------------
(* The end of a command, and its start. *)

LEMMA StoryEnds ==
    ASSUME SiteInv, pc # "idle", NEW v, story' = [story EXCEPT ![By].ended = v]
    PROVE  /\ IsSeq(story') /\ By' = By
           /\ \A i \in 1..By : /\ story'[i].kind = story[i].kind /\ story'[i].dir = story[i].dir
                               /\ story'[i].setup = story[i].setup
                               /\ DOMAIN story'[i] = {"kind", "dir", "setup", "ended"}
                               /\ i # By => story'[i] = story[i]
           /\ story'[By].ended = v
<1>1. /\ IsSeq(story) /\ By \in Nat /\ By \in 1..By /\ DOMAIN story = 1..By
      /\ \A i \in 1..By : DOMAIN story[i] = {"kind", "dir", "setup", "ended"}
    BY UnderwayFacts, SeqFacts DEF SiteInv, Shapes, By, Commanded
<1>2. story' = [i \in 1..By |-> story'[i]]
    BY <1>1
<1>3. IsSeq(story') /\ Len(story') = By
    BY <1>1, <1>2, FunctionIsSeq
<1> QED BY <1>1, <1>3 DEF By

LEMMA Ends ==
    ASSUME SiteInv, pc # "idle", NEW v, End(v), UNCHANGED <<disk, change, learned, setup, scans>>,
           NEW here, here = cmd.dir, DOMAIN summary' = Dirs, \A d \in Dirs : d # cmd.dir => summary'[d] = summary[d], Summaries',
           cmd.kind = "cohort" /\ v # "start" /\ story'[By].ended = v => CohortTrue(By, summary[here])'
    PROVE  SiteInv'
<1>1. /\ pc' = "idle" /\ scout' = NewScout /\ audit' = NewAudit /\ books' = NewBooks
      /\ story' = [story EXCEPT ![By].ended = v]
    BY DEF End
<1>2. /\ IsSeq(story') /\ By' = By
      /\ \A i \in 1..By : /\ story'[i].kind = story[i].kind /\ story'[i].dir = story[i].dir
                          /\ story'[i].setup = story[i].setup
                          /\ DOMAIN story'[i] = {"kind", "dir", "setup", "ended"}
                          /\ i # By => story'[i] = story[i]
      /\ story'[By].ended = v
    BY <1>1, StoryEnds
<1>3. Commanded /\ By \in Nat /\ By \in 1..By /\ cmd.dir \in Dirs
    BY UnderwayFacts DEF Commanded
<1>4. Shapes'
    BY <1>2 DEF SiteInv, Shapes
<1>5. Listed'
    BY <1>1, EmptyIsSeq DEF Listed, NewScout, NewAudit
<1>6. Underway'
    BY <1>1 DEF Underway
<1>7. Reports'
    BY <1>2 DEF SiteInv, Reports
<1>8. Watched'
    BY <1>1, <1>2 DEF SiteInv, Watched, Past
<1>9. Mined'
    BY DEF SiteInv, Mined
<1>10. Finished'
    <2> SUFFICES ASSUME NEW i \in 1..By, story'[i].kind = "cohort", story'[i].ended # "start",
                        \A j \in (i + 1)..By : story'[j].dir # story'[i].dir
                 PROVE  CohortTrue(i, summary[story[i].dir])'
        BY <1>2 DEF Finished, LastIn
    <2>1. CASE i = By
        <3>1. cmd.kind = "cohort" /\ v # "start" /\ story'[By].dir = cmd.dir
            BY <1>2, <1>3, <2>1 DEF Commanded
        <3>2. CohortTrue(By, summary[here])'
            BY <1>2, <3>1
        <3>3. i = By' /\ story'[i].dir = here
            BY <1>2, <2>1, <3>1
        <3> QED BY <3>2, <3>3
    <2>2. CASE i # By
        <3>1. story'[i] = story[i] /\ By \in (i + 1)..By
            BY <1>2, <1>3, <2>2
        <3>2. story'[By].dir # story'[i].dir
            BY <1>2, <3>1
        <3>3. story[i].dir # cmd.dir /\ story[i].dir \in Dirs
            BY <1>2, <1>3, <3>1, <3>2 DEF Commanded, SiteInv, Shapes
        <3>4. LastIn(story[i].dir, i)
            <4>1. ASSUME NEW j \in (i + 1)..By PROVE story[j].dir # story[i].dir
                <5>1. j \in 1..By
                    BY <1>3
                <5>2. story'[j].dir # story'[i].dir
                    OBVIOUS
                <5> QED BY <1>2, <3>1, <5>1, <5>2
            <4> QED BY <4>1 DEF LastIn
        <3>5. CohortTrue(i, summary[story[i].dir])
            BY <3>1, <3>4 DEF SiteInv, Finished
        <3>6. summary'[story'[i].dir] = summary[story[i].dir]
            BY <3>1, <3>3
        <3> QED BY <3>1, <3>5, <3>6 DEF CohortTrue
    <2> QED BY <2>1, <2>2
<1> QED BY <1>4, <1>5, <1>6, <1>7, <1>8, <1>9, <1>10 DEF SiteInv

LEMMA EndAuditKeeps == SiteInv /\ (EndAudit \/ Crash) => SiteInv'
<1> SUFFICES ASSUME SiteInv, EndAudit \/ Crash PROVE SiteInv'
    OBVIOUS
<1>1. PICK v : /\ pc # "idle" /\ End(v) /\ UNCHANGED <<disk, summary, change, learned, setup, scans>>
               /\ cmd.kind = "cohort" => v = "start"
    BY DEF EndAudit, Crash, files
<1>2. Summaries' /\ DOMAIN summary' = Dirs
    BY <1>1 DEF SiteInv, Summaries, Shapes
<1> QED BY <1>1, <1>2, Ends

(* The families formed from the lines of a cohort. *)
LinesTrue(lines, by, passed) ==
    /\ \A l \in lines : l.site \in passed /\ l.name = Name[l.site] /\ SawIn(Of(scans, by, l.site), l.key)
    /\ \A s \in passed : \A k : SawIn(Of(scans, by, s), k) => \E l \in lines : l.site = s /\ l.key = k

FamiliesTrue(families, by, passed) ==
    /\ \A k : k \in {f.key : f \in families} <=> \E s \in passed : SawIn(Of(scans, by, s), k)
    /\ \A f \in families : f.municipalities = {Name[s] : s \in {x \in passed : SawIn(Of(scans, by, x), f.key)}}

LEMMA FamiliesAre ==
    ASSUME NEW lines, NEW by, NEW passed, LinesTrue(lines, by, passed)
    PROVE  FamiliesTrue(Families(lines), by, passed)
<1> DEFINE Mine(k) == {x \in lines : x.key = k}
           Family(k) == [key |-> k, municipalities |-> {l.name : l \in Mine(k)}, count |-> Total(Mine(k))]
           keys == {l.key : l \in lines}
<1>1. Families(lines) = {Family(k) : k \in keys}
    BY Zenon DEF Families
<1>2. \A k : Family(k).key = k /\ Family(k).municipalities = {l.name : l \in Mine(k)}
    OBVIOUS
<1> HIDE DEF Family, keys
<1>3. \A f \in Families(lines) : f.key \in keys /\ f.municipalities = {l.name : l \in Mine(f.key)}
    BY <1>1, <1>2
<1>4. \A k \in keys : \E f \in Families(lines) : f.key = k
    BY <1>1, <1>2
<1>5. ASSUME NEW k PROVE k \in keys <=> \E s \in passed : SawIn(Of(scans, by, s), k)
    BY DEF keys, LinesTrue
<1>6. ASSUME NEW k
      PROVE {l.name : l \in Mine(k)} = {Name[s] : s \in {x \in passed : SawIn(Of(scans, by, x), k)}}
    BY DEF LinesTrue
<1> HIDE DEF Mine
<1>7. \A k : k \in {f.key : f \in Families(lines)} <=> \E s \in passed : SawIn(Of(scans, by, s), k)
    BY <1>3, <1>4, <1>5
<1>8. ASSUME NEW f \in Families(lines)
      PROVE  f.municipalities = {Name[s] : s \in {x \in passed : SawIn(Of(scans, by, x), f.key)}}
    <2> DEFINE k == f.key
    <2>1. {l.name : l \in Mine(k)} = {Name[s] : s \in {x \in passed : SawIn(Of(scans, by, x), k)}}
        <3> HIDE DEF k
        <3> QED BY <1>6
    <2> QED BY <1>3, <2>1
<1> QED BY <1>7, <1>8 DEF FamiliesTrue

LEMMA WriteSummaryKeeps == SiteInv /\ WriteSummary => SiteInv'
<1> SUFFICES ASSUME SiteInv, WriteSummary PROVE SiteInv'
    OBVIOUS
<1> DEFINE sum == [by |-> By, entries |-> books.entries, issues |-> Families(books.issues),
                   journeys |-> Families(books.journeys)]
           v == IF \E k \in DOMAIN books.entries : books.entries[k].status = "ERROR" THEN "partial" ELSE "end"
           passed == PassedIn(books.entries)
           n == Len(books.entries)
<1>1. /\ pc = "summary" /\ End(v) /\ UNCHANGED <<disk, change, learned, setup, scans>>
      /\ summary' = [summary EXCEPT ![cmd.dir] = sum]
    BY DEF WriteSummary
<1>2. /\ Commanded /\ cmd.dir \in Dirs /\ By \in Nat /\ By \in 1..By /\ cmd.kind = "cohort" /\ Progress /\ Booked
    BY <1>1, UnderwayFacts DEF Underway, Commanded
<1>3. /\ IsSeq(books.entries) /\ n = Len(Cohort) /\ DOMAIN books.entries = 1..n /\ n \in Nat
      /\ \A k \in 1..n : books.entries[k].site = k /\ books.entries[k].status \in {"PASS", "ERROR"}
    BY <1>1, <1>2, SeqFacts DEF Progress
<1>4. \A s : s \in passed <=> s \in 1..n /\ books.entries[s].status = "PASS"
    BY <1>3, PassedAre
<1>5. passed \subseteq Sites
    BY <1>3, <1>4, CohortFacts
<1>6. v = "end" <=> passed = Sites
    <2>1. ASSUME NEW k \in 1..n, books.entries[k].status = "ERROR" PROVE passed # Sites
        <3>1. k \in Sites /\ k \notin passed
            BY <1>3, <1>4, <2>1, CohortFacts
        <3> QED BY <3>1
    <2>2. ASSUME \A k \in 1..n : books.entries[k].status # "ERROR" PROVE passed = Sites
        <3>1. \A k \in 1..n : books.entries[k].status = "PASS"
            BY <1>3, <2>2
        <3>2. ASSUME NEW s \in Sites PROVE s \in passed
            BY <1>3, <1>4, <3>1, CohortFacts
        <3> HIDE DEF passed
        <3> QED BY <1>5, <3>2
    <2> QED BY <1>3, <2>1, <2>2
<1>7. v \in {"partial", "end"}
    OBVIOUS
<1>8. /\ sum.by = By /\ sum.entries = books.entries /\ sum.issues = Families(books.issues)
    OBVIOUS
<1> HIDE DEF sum, v
<1>9. [k \in DOMAIN books.entries |-> books.entries[k].site] = [k \in Sites |-> k]
    BY <1>3, CohortFacts
<1>10. \A s, k : k \in KeysOf(Of(scans, By, s)) <=> SawIn(Of(scans, By, s), k)
    BY KeysAre
<1>11. /\ \A l \in books.issues : l.site \in passed /\ l.name = Name[l.site] /\ SawIn(Of(scans, By, l.site), l.key)
       /\ \A s \in passed : \A k : SawIn(Of(scans, By, s), k) => \E l \in books.issues : l.site = s /\ l.key = k
       /\ \A s \in passed : Linked(disk[cmd.dir][Cohort[s]], By, Cohort[s])
    BY <1>2, <1>10 DEF Booked
<1> HIDE DEF passed, n
<1>12. /\ \A k : k \in {f.key : f \in Families(books.issues)} <=> \E s \in passed : SawIn(Of(scans, By, s), k)
       /\ \A f \in Families(books.issues) :
            f.municipalities = {Name[s] : s \in {x \in passed : SawIn(Of(scans, By, x), f.key)}}
    <2>1. LinesTrue(books.issues, By, passed)
        BY <1>11 DEF LinesTrue
    <2>2. FamiliesTrue(Families(books.issues), By, passed)
        BY <2>1, FamiliesAre
    <2> QED BY <2>2 DEF FamiliesTrue
<1>13. {f.key : f \in Families(books.issues)} = UNION {KeysOf(Of(scans, By, s)) : s \in passed}
    BY <1>10, <1>12
<1>14. /\ DOMAIN summary' = Dirs /\ summary'[cmd.dir] = sum
       /\ \A d \in Dirs : d # cmd.dir => summary'[d] = summary[d]
    BY <1>1, <1>2 DEF SiteInv, Shapes
<1>15. Summaries'
    <2> SUFFICES ASSUME NEW d \in Dirs, summary'[d] # Absent, NEW f \in summary'[d].issues, NEW m \in f.municipalities
                 PROVE  \E s \in Sites : m = Name[s] /\ SawIn(Of(scans, summary'[d].by, s), f.key)
        BY <1>1 DEF Summaries
    <2>1. CASE d = cmd.dir
        BY <1>5, <1>8, <1>12, <1>14, <2>1
    <2>2. CASE d # cmd.dir
        BY <1>14, <2>2 DEF SiteInv, Summaries
    <2> QED BY <2>1, <2>2
<1> PICK here : here = cmd.dir
    OBVIOUS
<1>16. ASSUME story'[By].ended = v PROVE CohortTrue(By, summary[here])'
    <2>1. story' = [story EXCEPT ![By].ended = v] /\ story'[By].dir = cmd.dir
        <3>1. story' = [story EXCEPT ![By].ended = v]
            BY <1>1 DEF End
        <3> QED BY <1>1, <1>2, <3>1, StoryEnds DEF Commanded
    <2>2. summary'[cmd.dir] = sum /\ passed = PassedIn(sum.entries)
        BY <1>8, <1>14 DEF passed
    <2>3. /\ sum.by = By /\ [k \in DOMAIN sum.entries |-> sum.entries[k].site] = [k \in Sites |-> k]
          /\ story'[By].ended = "end" <=> passed = Sites
        BY <1>6, <1>8, <1>9, <1>16
    <2>4. \A s \in passed : Linked(disk'[cmd.dir][Cohort[s]], By, Cohort[s])
        BY <1>1, <1>11
    <2>5. /\ {f.key : f \in sum.issues} = UNION {KeysOf(Of(scans', By, s)) : s \in passed}
          /\ \A f \in sum.issues : f.municipalities = {Name[s] : s \in {x \in passed : SawIn(Of(scans', By, x), f.key)}}
        <3>1. scans' = scans
            BY <1>1
        <3> QED BY <3>1, <1>8, <1>12, <1>13
    <2>6. By' = By
        BY <1>1, <1>2, <2>1, StoryEnds
    <2> QED BY <1>5, <2>1, <2>2, <2>3, <2>4, <2>5, <2>6 DEF CohortTrue
<1> QED BY <1>1, <1>14, <1>15, <1>16, Ends

-----------------------------------------------------------------------------
(* Between two commands. *)

LEMMA RestKept ==
    ASSUME SiteInv, UNCHANGED <<pc, scout, audit, books, disk, summary, story, scans>>,
           pc = "idle" \/ UNCHANGED <<cmd, setup>>
    PROVE  Shapes' /\ Listed' /\ Underway' /\ Reports' /\ Summaries' /\ Finished'
<1>1. By' = By
    BY DEF By
<1>2. Shapes' /\ Reports' /\ Summaries'
    BY <1>1 DEF SiteInv, Shapes, Reports, Summaries
<1>3. Listed'
    BY DEF SiteInv, Listed
<1>4. Finished'
    BY <1>1 DEF SiteInv, Finished, CohortTrue, LastIn
<1>5. Underway'
    <2>1. CASE pc = "idle"
        BY <2>1 DEF Underway
    <2>2. CASE UNCHANGED <<cmd, setup>>
        <3>1. Underway
            BY DEF SiteInv
        <3>2. pc' # "idle" => Commanded' /\ ToCome' /\ Filing' /\ Written'
            BY <1>1, <2>2, <3>1 DEF Underway, Commanded, ToCome, Unbegun, Unwritten, Filing, Written
        <3>3. pc' # "idle" /\ cmd'.kind = "cohort" => Progress' /\ Booked'
            BY <1>1, <2>2, <3>1 DEF Underway, Progress, Booked
        <3> QED BY <2>2, <3>1, <3>2, <3>3 DEF Underway
    <2> QED BY <2>1, <2>2
<1> QED BY <1>2, <1>3, <1>4, <1>5

LEMMA WatchKeeps == SiteInv /\ Watch => SiteInv'
<1> SUFFICES ASSUME SiteInv, Watch PROVE SiteInv'
    OBVIOUS
<1>1. /\ pc = "idle" /\ UNCHANGED <<pc, scout, audit, books, disk, summary, story, scans, cmd, setup, learned>>
    BY DEF Watch, mem, ghosts
<1>2. PICK d \in Dirs, e \in Dirs, f \in Folders :
        /\ disk[d][f].report # Absent /\ disk[d][f].report.by < disk[e][f].report.by
        /\ change' = [previous |-> [by |-> disk[d][f].report.by, site |-> disk[d][f].report.site],
                      current |-> [by |-> disk[e][f].report.by, site |-> disk[e][f].report.site],
                      changes |-> [k \in DOMAIN disk[d][f].report.findings \cup DOMAIN disk[e][f].report.findings |->
                                     StateOf(disk[d][f].report, disk[e][f].report, k)]]
    BY Zenon DEF Watch
<1>3. PICK p, c : p = disk[d][f].report /\ c = disk[e][f].report
    OBVIOUS
<1>4. By \in Nat
    BY SeqFacts DEF SiteInv, Shapes, By
<1>5. p.by \in 1..By /\ ReportTrue(p, Of(scans, p.by, p.site), story[p.by].setup)
    BY <1>2, <1>3 DEF SiteInv, Reports
<1>6. c # Absent
    BY <1>2, <1>3, <1>4, <1>5 DEF Absent
<1>7. c.by \in 1..By /\ ReportTrue(c, Of(scans, c.by, c.site), story[c.by].setup)
    BY <1>3, <1>6 DEF SiteInv, Reports
<1> DEFINE ch == [k \in DOMAIN p.findings \cup DOMAIN c.findings |-> StateOf(p, c, k)]
<1>8. WatchTrue(ch, Of(scans, p.by, p.site), Of(scans, c.by, c.site), story[p.by].setup, story[c.by].setup)
    BY <1>5, <1>7, ComparedTrue
<1>9. change' = [previous |-> [by |-> p.by, site |-> p.site], current |-> [by |-> c.by, site |-> c.site], changes |-> ch]
    BY <1>2, <1>3
<1> HIDE DEF ch
<1>10. /\ change'.previous.by = p.by /\ change'.previous.site = p.site /\ change'.changes = ch
       /\ change'.current.by = c.by /\ change'.current.site = c.site
    BY <1>9
<1>11. Watched'
    <2>1. By' = By
        BY <1>1 DEF By
    <2>2. Past(change.previous.by)' /\ Past(change.current.by)'
        BY <1>1, <1>5, <1>7, <1>10, <2>1 DEF Past
    <2> QED BY <1>1, <1>8, <1>10, <2>2 DEF Watched
<1>12. Mined'
    BY <1>1 DEF SiteInv, Mined
<1> QED BY <1>1, <1>11, <1>12, RestKept DEF SiteInv

LEMMA LearnKeeps == SiteInv /\ Learn => SiteInv'
<1> SUFFICES ASSUME SiteInv, Learn PROVE SiteInv'
    OBVIOUS
<1>1. /\ pc = "idle" /\ UNCHANGED <<pc, scout, audit, books, disk, summary, story, scans, cmd, setup, change>>
    BY DEF Learn, mem, ghosts
<1>2. PICK d \in Dirs : /\ summary[d] # Absent
                        /\ learned' = [by |-> summary[d].by, candidates |-> Candidates(summary[d])]
    BY Zenon DEF Learn
<1>3. PICK sum : sum = summary[d]
    OBVIOUS
<1>4. learned'.by = sum.by /\ learned'.candidates = Candidates(sum)
    BY <1>2, <1>3
<1>5. \A f \in sum.issues : \A m \in f.municipalities : \E s \in Sites : m = Name[s] /\ SawIn(Of(scans, sum.by, s), f.key)
    BY <1>2, <1>3 DEF SiteInv, Summaries
<1>6. ASSUME NEW c \in Candidates(sum), c.source # "journey_gap"
      PROVE  \E T \in SUBSET {Name[s] : s \in {x \in Sites : SawIn(Of(scans, sum.by, x), c.key)}} :
               Cardinality(T) >= MinMunicipalities
    <2>1. PICK f \in sum.issues : c.key = f.key /\ Recurring(f)
        BY <1>6 DEF Candidates
    <2>2. f.municipalities \subseteq {Name[s] : s \in {x \in Sites : SawIn(Of(scans, sum.by, x), c.key)}}
        BY <1>5, <2>1
    <2> QED BY <2>1, <2>2 DEF Recurring
<1>7. Mined'
    BY <1>1, <1>4, <1>6 DEF Mined
<1>8. Watched'
    <2>1. By' = By
        BY <1>1 DEF By
    <2> QED BY <1>1, <2>1 DEF SiteInv, Watched, Past
<1> QED BY <1>1, <1>7, <1>8, RestKept DEF SiteInv

LEMMA OtherKeeps == SiteInv /\ (EditSite \/ Reconfigure \/ UNCHANGED vars) => SiteInv'
<1> SUFFICES ASSUME SiteInv, EditSite \/ Reconfigure \/ UNCHANGED vars PROVE SiteInv'
    OBVIOUS
<1>1. /\ UNCHANGED <<pc, cmd, scout, audit, books, disk, summary, change, learned, story, scans>>
      /\ pc = "idle" \/ UNCHANGED <<cmd, setup>>
    BY DEF EditSite, Reconfigure, vars, mem, files, ghosts
<1>2. By' = By
    BY <1>1 DEF By
<1>3. Watched' /\ Mined'
    BY <1>1, <1>2 DEF SiteInv, Watched, Past, Mined
<1> QED BY <1>1, <1>3, RestKept DEF SiteInv

LEMMA StartCommandKeeps == SiteInv /\ StartCommand => SiteInv'
<1> SUFFICES ASSUME SiteInv, StartCommand PROVE SiteInv'
    OBVIOUS
<1>1. /\ pc = "idle" /\ pc' = "site" /\ books' = NewBooks
      /\ UNCHANGED <<scout, audit, disk, summary, change, learned, setup, scans>>
    BY DEF StartCommand, files
<1>2. PICK o \in Settings, d \in Dirs, s \in Sites :
        /\ o.kind = "cohort" => s = 1
        /\ cmd' = Aimed(o, d, s)
        /\ story' = Append(story, [kind |-> o.kind, dir |-> d, setup |-> setup, ended |-> "start"])
    BY DEF StartCommand
<1> DEFINE entry == [kind |-> o.kind, dir |-> d, setup |-> setup, ended |-> "start"]
<1>3. /\ entry.kind = o.kind /\ entry.dir = d /\ entry.setup = setup /\ entry.ended = "start"
      /\ DOMAIN entry = {"kind", "dir", "setup", "ended"}
    OBVIOUS
<1> HIDE DEF entry
<1>4. /\ IsSeq(story) /\ By \in Nat /\ IsSeq(story') /\ By' = By + 1
      /\ \A i \in 1..By : story'[i] = story[i]
      /\ story'[By'] = entry
    <2>1. IsSeq(story)
        BY DEF SiteInv, Shapes
    <2>2. story' = Append(story, entry)
        BY <1>2 DEF entry
    <2> QED BY <2>1, <2>2, SeqFacts DEF By
<1>5. /\ cmd' \in Commands /\ cmd'.kind = o.kind /\ cmd'.dir = d /\ cmd'.site = s
    <2>1. DOMAIN o = {"kind", "policy", "journeys", "report", "maxDepth", "maxSurfaces", "dir", "site"}
        BY SettingsAssumption
    <2>2. Aimed(o, d, s) \in Commands
        BY DEF Commands
    <2>3. PICK c : c = Aimed(o, d, s)
        OBVIOUS
    <2>4. c.kind = o.kind /\ c.dir = d /\ c.site = s
        BY <2>1, <2>3 DEF Aimed
    <2> QED BY <1>2, <2>2, <2>3, <2>4
<1>6. Shapes'
    <2>1. \A i \in 1..By' : story'[i].dir \in Dirs /\ DOMAIN story'[i] = {"kind", "dir", "setup", "ended"}
        <3> SUFFICES ASSUME NEW i \in 1..By'
                     PROVE  story'[i].dir \in Dirs /\ DOMAIN story'[i] = {"kind", "dir", "setup", "ended"}
            OBVIOUS
        <3>1. i \in 1..By \/ i = By'
            BY <1>4
        <3> QED BY <1>3, <1>4, <3>1 DEF SiteInv, Shapes
    <2>2. \A c \in scans' : c.by \in 1..By'
        BY <1>1, <1>4 DEF SiteInv, Shapes
    <2> QED BY <1>1, <1>4, <2>1, <2>2 DEF SiteInv, Shapes
<1>7. /\ \A i \in 1..By : Of(scans', i, s) = Of(scans, i, s)
      /\ \A t : Of(scans', By', t) = {}
      /\ \A e \in Dirs, h \in Folders : disk'[e][h].report.by # By'
    <2>1. \A t : Of(scans', By', t) = {}
        BY <1>1, <1>4 DEF SiteInv, Shapes, Of
    <2>2. ASSUME NEW e \in Dirs, NEW h \in Folders PROVE disk'[e][h].report.by # By'
        <3>1. disk[e][h].report.by \in 0..By
            BY <1>4 DEF SiteInv, Reports, Absent
        <3> QED BY <1>1, <1>4, <3>1
    <2> QED BY <1>1, <2>1, <2>2 DEF Of
<1>8. Listed'
    <2>1. DOMAIN books' = DOMAIN NewBooks
        BY <1>1
    <2> QED BY <1>1, <2>1 DEF SiteInv, Listed
<1>9. Underway'
    <2>1. Commanded'
        BY <1>1, <1>3, <1>4, <1>5 DEF Commanded
    <2>2. ToCome'
        BY <1>1, <1>5, <1>7 DEF ToCome, Unbegun, Unwritten, Early, Unreported
    <2>3. Filing' /\ Written'
        BY <1>1 DEF Filing, Written
    <2>4. ASSUME o.kind = "cohort" PROVE Progress' /\ Booked'
        <3>1. books'.entries = <<>> /\ books'.issues = {}
            BY <1>1 DEF NewBooks
        <3>2. IsSeq(<<>>) /\ Len(<<>>) = 0 /\ ToSet(<<>>) = {}
            BY EmptyIsSeq DEF ToSet
        <3>4. cmd'.site = 1
            BY <1>2, <1>5, <2>4
        <3>5. Progress'
            BY <1>1, <3>1, <3>2, <3>4, CohortFacts DEF Progress
        <3>6. Booked'
            BY <3>1, <3>2 DEF Booked, PassedIn
        <3> QED BY <3>5, <3>6
    <2> QED BY <1>1, <1>5, <2>1, <2>2, <2>3, <2>4 DEF Underway
<1>10. Reports'
    <2> SUFFICES ASSUME NEW e \in Dirs, NEW h \in Folders, disk'[e][h].report # Absent
                 PROVE  LET r == disk'[e][h].report
                        IN  r.by \in 1..By' /\ ReportTrue(r, Of(scans', r.by, r.site), story'[r.by].setup)
        BY DEF Reports
    <2>1. PICK r : r = disk[e][h].report
        OBVIOUS
    <2>2. r.by \in 1..By /\ ReportTrue(r, Of(scans, r.by, r.site), story[r.by].setup)
        BY <1>1, <2>1 DEF SiteInv, Reports
    <2>3. r.by \in 1..By' /\ story'[r.by] = story[r.by]
        BY <1>4, <2>2
    <2> QED BY <1>1, <2>1, <2>2, <2>3
<1>11. Summaries'
    BY <1>1 DEF SiteInv, Summaries
<1>12. Finished'
    <2> SUFFICES ASSUME NEW i \in 1..By', story'[i].kind = "cohort", story'[i].ended # "start",
                        \A j \in (i + 1)..By' : story'[j].dir # story'[i].dir
                 PROVE  CohortTrue(i, summary[story[i].dir])'
        BY DEF Finished, LastIn
    <2>1. i \in 1..By /\ story'[i] = story[i]
        BY <1>3, <1>4
    <2>2. ASSUME NEW j \in (i + 1)..By PROVE story[j].dir # story[i].dir
        <3>1. j \in 1..By /\ j \in (i + 1)..By'
            BY <1>4, <2>1
        <3> QED BY <1>4, <2>1, <3>1
    <2>3. CohortTrue(i, summary[story[i].dir])
        BY <2>1, <2>2 DEF SiteInv, Finished, LastIn
    <2> QED BY <1>1, <2>1, <2>3 DEF CohortTrue
<1>13. Watched'
    <2> SUFFICES ASSUME change # NONE
                 PROVE  /\ Past(change.previous.by)' /\ Past(change.current.by)'
                        /\ WatchTrue(change.changes, Of(scans, change.previous.by, change.previous.site),
                                     Of(scans, change.current.by, change.current.site),
                                     story[change.previous.by].setup, story[change.current.by].setup)'
        BY <1>1 DEF Watched
    <2>1. PICK p, c : p = change.previous /\ c = change.current
        OBVIOUS
    <2>2. p.by \in 1..By /\ c.by \in 1..By
        BY <2>1 DEF SiteInv, Watched, Past
    <2>3. p.by \in 1..By' /\ c.by \in 1..By' /\ p.by < By' /\ c.by < By' /\ story'[p.by] = story[p.by] /\ story'[c.by] = story[c.by]
        BY <1>4, <2>2
    <2>4. WatchTrue(change.changes, Of(scans, p.by, p.site), Of(scans, c.by, c.site), story[p.by].setup, story[c.by].setup)
        BY <2>1 DEF SiteInv, Watched
    <2> QED BY <1>1, <2>1, <2>3, <2>4 DEF Past
<1>14. Mined'
    BY <1>1 DEF SiteInv, Mined
<1> QED BY <1>6, <1>8, <1>9, <1>10, <1>11, <1>12, <1>13, <1>14 DEF SiteInv

-----------------------------------------------------------------------------
(* Every command, and what its files say. *)

LEMMA InitKeeps == Init => SiteInv
<1> SUFFICES ASSUME Init PROVE SiteInv
    OBVIOUS
<1>1. By = 0 /\ IsSeq(story) /\ scans = {} /\ pc = "idle" /\ change = NONE /\ learned = NONE
    BY EmptyIsSeq DEF Init, By
<1>2. /\ DOMAIN disk = Dirs /\ DOMAIN summary = Dirs
      /\ \A d \in Dirs : /\ DOMAIN disk[d] = Folders /\ summary[d] = Absent
                         /\ \A h \in Folders : disk[d][h] = EmptyDir
    BY DEF Init
<1>3. DOMAIN EmptyDir = FileNames /\ EmptyDir.report = Absent
    BY DEF EmptyDir, FileNames
<1>4. Shapes
    BY <1>1, <1>2, <1>3 DEF Shapes
<1>5. Listed
    BY <1>1, EmptyIsSeq DEF Init, Listed, NewScout, NewAudit
<1> QED BY <1>1, <1>2, <1>3, <1>4, <1>5
    DEF SiteInv, Underway, Reports, Summaries, Finished, Watched, Mined

LEMMA StepKeeps == SiteInv /\ [Next]_vars => SiteInv'
BY StartSiteKeeps, DoScoutKeeps, AuditingKeeps, SitePassesKeeps, SiteFailsKeeps, WriteSummaryKeeps, EndAuditKeeps,
   StartCommandKeeps, WatchKeeps, LearnKeeps, OtherKeeps DEF Next, Running

(* At every moment the files of each directory are those of the commands that
   wrote them: a report quotes exactly what its own command's scans saw,
   wherever later commands, failures or a kill left the directory half
   rewritten, and a cohort's books cover the sites behind it and no others
   (audit-site.ts auditSite, cohort.ts runCohort). *)
THEOREM FilesTellTheirOrigin == Spec => []SiteInv
<1> QED BY InitKeeps, StepKeeps, PTL DEF Spec

LEMMA WatchFollows == SiteInv => WatchIsHonest
<1> SUFFICES ASSUME SiteInv, change # NONE PROVE WatchIsHonest
    BY DEF WatchIsHonest
<1>1. PICK p, c : p = change.previous /\ c = change.current
    OBVIOUS
<1>2. WatchTrue(change.changes, Of(scans, p.by, p.site), Of(scans, c.by, c.site), story[p.by].setup, story[c.by].setup)
    BY <1>1 DEF SiteInv, Watched
<1>3. /\ \A k : Saw(p.by, p.site, k) <=> SawIn(Of(scans, p.by, p.site), k)
      /\ \A k : Saw(c.by, c.site, k) <=> SawIn(Of(scans, c.by, c.site), k)
      /\ {k \in AllKeys : Saw(p.by, p.site, k)} = KeysOf(Of(scans, p.by, p.site))
      /\ {k \in AllKeys : Saw(c.by, c.site, k)} = KeysOf(Of(scans, c.by, c.site))
    BY SawIsSawIn
<1>5. DOMAIN change.changes = {k \in AllKeys : Saw(p.by, p.site, k) \/ Saw(c.by, c.site, k)}
    BY <1>2, <1>3 DEF WatchTrue
<1>6. \A k \in DOMAIN change.changes : change.changes[k] = Verdict(p, c, k)
    BY <1>2, <1>3 DEF WatchTrue, Verdict
<1> QED BY <1>1, <1>5, <1>6 DEF WatchIsHonest

(* WATCH compares two files; whatever commands ran in those directories since,
   what it calls new, resolved, persisting or a changed rule is exactly what
   the scans of the two commands saw and the scanners they ran with, and it
   declines to compare exactly when the profile changed
   (watch/compare.ts compareSiteReports). *)
THEOREM WatchFollowsTheScans == Spec => []WatchIsHonest
<1> QED BY InitKeeps, StepKeeps, WatchFollows, PTL DEF Spec

LEMMA FilesAgree ==
    ASSUME SiteInv, NEW d \in Dirs, NEW h \in Folders, NEW i \in 1..By, Linked(disk[d][h], i, h)
    PROVE  ReportOfRun(d, h, i)
<1>1. PICK r, s : r = disk[d][h].report /\ s = r.site
    OBVIOUS
<1>2. r.by = i /\ r # Absent /\ disk[d][h].html.by = i /\ Cohort[s] = h
    BY <1>1 DEF Absent, Linked
<1>3. FindingsTrue(r.findings, Of(scans, i, s), story[i].setup)
    BY <1>1, <1>2 DEF SiteInv, Reports, ReportTrue
<1>4. DOMAIN r.findings = {k \in AllKeys : Saw(i, s, k)}
    BY <1>3, SawIsSawIn DEF FindingsTrue
<1>5. \A k \in DOMAIN r.findings : r.findings[k].affectedSurfaces = Cardinality(SeenOn(i, s, k))
    BY <1>3, SeenIsSeenIn DEF FindingsTrue
<1> QED BY <1>1, <1>2, <1>4, <1>5 DEF ReportOfRun

LEMMA CohortFollows ==
    ASSUME SiteInv, NEW i \in 1..By, story[i].kind = "cohort", story[i].ended # "start", LastIn(story[i].dir, i)
    PROVE  LET d == story[i].dir
               s == summary[d]
               passed == {e.site : e \in {x \in ToSet(s.entries) : x.status = "PASS"}}
           IN /\ s.by = i
              /\ [k \in DOMAIN s.entries |-> s.entries[k].site] = [k \in Sites |-> k]
              /\ (story[i].ended = "end") = (passed = Sites)
              /\ \A site \in passed : ReportOfRun(d, Cohort[site], i)
              /\ {f.key : f \in s.issues} = {k \in AllKeys : \E site \in passed : Saw(i, site, k)}
              /\ \A f \in s.issues : f.municipalities = {Name[site] : site \in {x \in passed : Saw(i, x, f.key)}}
<1>1. PICK d, s : d = story[i].dir /\ s = summary[d]
    OBVIOUS
<1> DEFINE passed == PassedIn(s.entries)
<1>2. CohortTrue(i, s) /\ d \in Dirs
    BY <1>1 DEF SiteInv, Finished, Shapes
<1>3. /\ s.by = i /\ [k \in DOMAIN s.entries |-> s.entries[k].site] = [k \in Sites |-> k]
      /\ (story[i].ended = "end") = (passed = Sites) /\ passed \subseteq Sites
    BY <1>2 DEF CohortTrue
<1>4. \A site \in passed : ReportOfRun(d, Cohort[site], i)
    BY <1>1, <1>2, <1>3, FilesAgree DEF CohortTrue, Folders
<1>5. \A site, k : Saw(i, site, k) <=> SawIn(Of(scans, i, site), k)
    BY SawIsSawIn
<1>6. {f.key : f \in s.issues} = {k \in AllKeys : \E site \in passed : Saw(i, site, k)}
    <2>1. {f.key : f \in s.issues} = UNION {KeysOf(Of(scans, i, site)) : site \in passed}
        BY <1>2 DEF CohortTrue
    <2>2. \A site : KeysOf(Of(scans, i, site)) = {k \in AllKeys : Saw(i, site, k)}
        BY SawIsSawIn
    <2> HIDE DEF passed
    <2> QED BY <2>1, <2>2
<1>7. \A f \in s.issues : f.municipalities = {Name[site] : site \in {x \in passed : Saw(i, x, f.key)}}
    <2> SUFFICES ASSUME NEW f \in s.issues
                 PROVE  f.municipalities = {Name[site] : site \in {x \in passed : Saw(i, x, f.key)}}
        OBVIOUS
    <2>1. f.municipalities = {Name[site] : site \in {x \in passed : SawIn(Of(scans, i, x), f.key)}}
        BY <1>2 DEF CohortTrue
    <2> HIDE DEF passed
    <2> QED BY <1>5, <2>1
<1> QED BY <1>1, <1>3, <1>4, <1>6, <1>7 DEF PassedIn

LEMMA FiniteImage == ASSUME NEW X, IsFiniteSet(X), NEW f PROVE IsFiniteSet({f[x] : x \in X})
<1> DEFINE Y == {f[x] : x \in X}
           g == [x \in X |-> f[x]]
<1>1. g \in Surjection(X, Y)
    BY DEF Surjection
<1> HIDE DEF g
<1> QED BY <1>1, FS_Surjection

LEMMA CandidatesRecur ==
    ASSUME SiteInv, learned # NONE, NEW c \in learned.candidates, c.source # "journey_gap"
    PROVE  Cardinality({Name[s] : s \in {x \in Sites : Saw(learned.by, x, c.key)}}) >= MinMunicipalities
<1> DEFINE N == {Name[s] : s \in {x \in Sites : Saw(learned.by, x, c.key)}}
<1>1. PICK T \in SUBSET {Name[s] : s \in {x \in Sites : SawIn(Of(scans, learned.by, x), c.key)}} :
        Cardinality(T) >= MinMunicipalities
    BY DEF SiteInv, Mined
<1>2. N = {Name[s] : s \in {x \in Sites : SawIn(Of(scans, learned.by, x), c.key)}}
    BY SawIsSawIn
<1>3. IsFiniteSet(Sites)
    <2>1. 1 \in Int /\ Len(Cohort) \in Int /\ Sites = 1..Len(Cohort)
        BY CohortFacts
    <2> QED BY <2>1, FS_Interval
<1>4. IsFiniteSet(N)
    <2> DEFINE X == {x \in Sites : Saw(learned.by, x, c.key)}
    <2>1. IsFiniteSet(X)
        BY <1>3, FS_Subset
    <2> HIDE DEF X
    <2>2. IsFiniteSet({Name[s] : s \in X})
        BY <2>1, FiniteImage
    <2> QED BY <2>2 DEF X
<1> HIDE DEF N
<1>5. T \subseteq N
    BY <1>2
<1>6. Cardinality(T) <= Cardinality(N) /\ Cardinality(T) \in Nat /\ Cardinality(N) \in Nat
    BY <1>4, <1>5, FS_Subset, FS_CardinalityType
<1>7. Cardinality(N) >= MinMunicipalities
    BY <1>1, <1>6, CohortAssumption
<1> QED BY <1>7 DEF N

(* However many sites a cohort has, whichever share an id and wherever they
   fail, its summary has one entry for each, says `end` exactly when every site
   passed, links reports this very run made in the directory of that id, and
   its families name exactly the municipalities where this run saw the finding;
   a candidate mined from a summary recurs in as many as the threshold asks
   (cohort/run.ts runCohort, learning/mine.ts mineCandidates). *)
THEOREM AggregatesFollowTheScans == Spec => []AggregatesAreHonest
<1>1. SiteInv => AggregatesAreHonest
    BY CohortFollows, CandidatesRecur DEF AggregatesAreHonest
<1> QED BY InitKeeps, StepKeeps, <1>1, PTL DEF Spec

-----------------------------------------------------------------------------
(* Types. What the surfaces of a site are is the delicate part: the sample is
   ranked by an order, and that each rank is taken needs that the order is
   strict and total, and that as many ranks as pages leaves none over. *)

(* A page that was kept: its numbers are numbers. *)
Numbered(p) == p.url \in Nat /\ p.depth \in Nat /\ p.internalLinks \in Nat
IsNumbered(pages) == \A i \in 1..Len(pages) : Numbered(pages[i])

(* Kinds have places of their own. *)
LEMMA PlaceIs ==
    /\ \A k \in ToSet(Priority) : Place(k) \in Nat
    /\ \A j, k \in ToSet(Priority) : Place(j) = Place(k) => j = k
<1>1. DOMAIN Priority = 1..7
    BY DEF Priority
<1>2. ASSUME NEW k \in ToSet(Priority) PROVE Place(k) \in 1..7 /\ Priority[Place(k)] = k
    <2>1. \E i \in DOMAIN Priority : Priority[i] = k
        BY DEF ToSet
    <2> QED BY <1>1, <2>1 DEF Place
<1>3. \A k \in ToSet(Priority) : Place(k) \in Nat
    BY <1>2
<1> QED BY <1>2, <1>3

(* The sample is strictly and totally ordered. *)
LEMMA AheadOrders ==
    ASSUME NEW pages, IsSeq(pages), IsNumbered(pages)
    PROVE  LET S == Sampled(pages)
           IN  /\ S \subseteq 1..Len(pages)
               /\ \A i \in S : ~Ahead(pages, i, i)
               /\ \A i, j \in S : i # j => Ahead(pages, i, j) \/ Ahead(pages, j, i)
               /\ \A i, j, k \in S : Ahead(pages, i, j) /\ Ahead(pages, j, k) => Ahead(pages, i, k)
<1> DEFINE S == Sampled(pages)
           T == {i \in 1..Len(pages) : pages[i].kind \in ToSet(Priority)}
<1>1. DOMAIN pages = 1..Len(pages) /\ Len(pages) \in Nat
    BY SeqFacts
<1>2. S \subseteq T
    BY <1>1 DEF Sampled
<1>3. ASSUME NEW i \in T
      PROVE  /\ i \in Nat /\ Place(pages[i].kind) \in Nat
             /\ pages[i].url \in Nat /\ pages[i].depth \in Nat /\ pages[i].internalLinks \in Nat
    BY <1>1, PlaceIs DEF IsNumbered, Numbered
<1>4. ASSUME NEW i \in T, NEW j \in T
      PROVE  pages[i].kind = pages[j].kind <=> Place(pages[i].kind) = Place(pages[j].kind)
    BY PlaceIs
<1> HIDE DEF S, T
<1>5. ASSUME NEW i \in T PROVE ~Ahead(pages, i, i)
    BY <1>3 DEF Ahead, Ranked
<1>6. ASSUME NEW i \in T, NEW j \in T, i # j PROVE Ahead(pages, i, j) \/ Ahead(pages, j, i)
    BY <1>3, <1>6 DEF Ahead
<1>7. ASSUME NEW i \in T, NEW j \in T, NEW k \in T, Ahead(pages, i, j), Ahead(pages, j, k) PROVE Ahead(pages, i, k)
    <2> DEFINE A(x) == Place(pages[x].kind)
               D(x) == pages[x].depth
               L(x) == pages[x].internalLinks
               U(x) == pages[x].url
    <2>1. ASSUME NEW x \in T, NEW y \in T
          PROVE  Ranked(pages[x], pages[y]) <=>
                   \/ A(x) < A(y)
                   \/ A(x) = A(y) /\ (\/ D(x) < D(y)
                                      \/ D(x) = D(y) /\ L(x) > L(y)
                                      \/ D(x) = D(y) /\ L(x) = L(y) /\ U(x) < U(y))
        BY <1>4 DEF Ranked
    <2>2. \A x \in {i, j, k} : x \in Nat /\ A(x) \in Nat /\ D(x) \in Nat /\ L(x) \in Nat /\ U(x) \in Nat
        BY <1>3
    <2> HIDE DEF A, D, L, U
    <2>3. \A x, y \in {i, j, k} : Ahead(pages, x, y) <=>
            \/ Ranked(pages[x], pages[y])
            \/ ~Ranked(pages[y], pages[x]) /\ x < y
        BY DEF Ahead
    <2>4. \A x, y \in {i, j, k} : Ranked(pages[x], pages[y]) <=>
                   \/ A(x) < A(y)
                   \/ A(x) = A(y) /\ (\/ D(x) < D(y)
                                      \/ D(x) = D(y) /\ L(x) > L(y)
                                      \/ D(x) = D(y) /\ L(x) = L(y) /\ U(x) < U(y))
        BY <2>1
    <2> QED BY <1>7, <2>2, <2>3, <2>4
<1>8. \A i, j \in S : i # j => Ahead(pages, i, j) \/ Ahead(pages, j, i)
    BY <1>2, <1>6
<1>9. \A i, j, k \in S : Ahead(pages, i, j) /\ Ahead(pages, j, k) => Ahead(pages, i, k)
    BY <1>2, <1>7
<1>10. S \subseteq 1..Len(pages)
    BY <1>2 DEF T
<1> QED BY <1>2, <1>5, <1>8, <1>9, <1>10 DEF S

(* Each rank is some page's: the representatives are pages of the sample. *)
LEMMA RanksAreTaken ==
    ASSUME NEW pages, IsSeq(pages), IsNumbered(pages)
    PROVE  LET S == Sampled(pages)
           IN  \A k \in 1..Cardinality(S) : \E i \in S : Cardinality({j \in S : Ahead(pages, j, i)}) = k - 1
<1> DEFINE S == Sampled(pages)
           preds(i) == {j \in S : Ahead(pages, j, i)}
           n == Cardinality(S)
           rank == [i \in S |-> Cardinality(preds(i))]
<1>1. /\ S \subseteq 1..Len(pages)
      /\ \A i \in S : ~Ahead(pages, i, i)
      /\ \A i, j \in S : i # j => Ahead(pages, i, j) \/ Ahead(pages, j, i)
      /\ \A i, j, k \in S : Ahead(pages, i, j) /\ Ahead(pages, j, k) => Ahead(pages, i, k)
    BY AheadOrders
<1> HIDE DEF S
<1>2. IsFiniteSet(S) /\ n \in Nat
    <2>1. Len(pages) \in Nat
        BY SeqFacts
    <2>2. IsFiniteSet(1..Len(pages))
        BY <2>1, FS_Interval
    <2>3. IsFiniteSet(S)
        BY <1>1, <2>2, FS_Subset
    <2> QED BY <2>3, FS_CardinalityType
<1>3. ASSUME NEW i \in S
      PROVE  IsFiniteSet(preds(i)) /\ Cardinality(preds(i)) \in 0..(n - 1)
    <2>1. preds(i) \subseteq S /\ i \notin preds(i)
        BY <1>1
    <2>2. IsFiniteSet(preds(i)) /\ Cardinality(preds(i)) <= n /\ (Cardinality(preds(i)) = n => preds(i) = S)
        BY <1>2, <2>1, FS_Subset
    <2>3. Cardinality(preds(i)) \in Nat
        BY <2>2, FS_CardinalityType
    <2> QED BY <1>2, <2>1, <2>2, <2>3
<1>4. ASSUME NEW i \in S, NEW j \in S, Ahead(pages, i, j) PROVE Cardinality(preds(i)) < Cardinality(preds(j))
    <2>1. preds(i) \subseteq preds(j) /\ i \in preds(j) /\ i \notin preds(i)
        BY <1>1, <1>4
    <2>2. Cardinality(preds(i)) <= Cardinality(preds(j))
          /\ (Cardinality(preds(i)) = Cardinality(preds(j)) => preds(i) = preds(j))
        BY <1>3, <2>1, FS_Subset
    <2>3. Cardinality(preds(i)) \in Nat /\ Cardinality(preds(j)) \in Nat
        BY <1>3
    <2> QED BY <2>1, <2>2, <2>3
<1>5. rank \in Injection(S, 0..(n - 1))
    <2>1. rank \in [S -> 0..(n - 1)]
        BY <1>3
    <2>2. ASSUME NEW i \in S, NEW j \in S, rank[i] = rank[j] PROVE i = j
        <3>1. rank[i] = Cardinality(preds(i)) /\ rank[j] = Cardinality(preds(j))
            OBVIOUS
        <3>2. Cardinality(preds(i)) \in Nat /\ Cardinality(preds(j)) \in Nat
            BY <1>3
        <3>a. Cardinality(preds(i)) = Cardinality(preds(j))
            BY <2>2, <3>1
        <3> HIDE DEF rank
        <3>3. Ahead(pages, i, j) => Cardinality(preds(i)) < Cardinality(preds(j))
            BY <1>4
        <3>4. Ahead(pages, j, i) => Cardinality(preds(j)) < Cardinality(preds(i))
            BY <1>4
        <3> HIDE DEF preds
        <3>5. ~Ahead(pages, i, j) /\ ~Ahead(pages, j, i)
            BY <3>a, <3>2, <3>3, <3>4
        <3> QED BY <1>1, <3>5
    <2> HIDE DEF rank
    <2> QED BY <2>1, <2>2 DEF Injection, IsInjective
<1>6. IsFiniteSet(0..(n - 1)) /\ Cardinality(0..(n - 1)) = n
    <2>1. 0 \in Int /\ n - 1 \in Int
        BY <1>2
    <2>2. IsFiniteSet(0..(n - 1)) /\ Cardinality(0..(n - 1)) = IF 0 > n - 1 THEN 0 ELSE n - 1 - 0 + 1
        BY <2>1, FS_Interval
    <2> QED BY <1>2, <2>2
<1>7. rank \in Surjection(S, 0..(n - 1))
    BY <1>5, <1>6, FS_Injection
<1>8. ASSUME NEW k \in 1..n PROVE \E i \in S : Cardinality(preds(i)) = k - 1
    <2>1. k - 1 \in 0..(n - 1)
        BY <1>2
    <2>2. PICK i \in S : rank[i] = k - 1
        BY <1>7, <2>1 DEF Surjection
    <2> QED BY <2>2
<1> QED BY <1>8 DEF S

(* The page of each rank. *)
LEMMA RepresentativesArePages ==
    ASSUME NEW pages, IsSeq(pages), IsNumbered(pages), NEW k \in DOMAIN Representatives(pages)
    PROVE  k \in Nat /\ Numbered(Representatives(pages)[k])
<1> DEFINE S == Sampled(pages)
           first(i) == Cardinality({j \in S : Ahead(pages, j, i)}) = k - 1
<1>1. k \in 1..Cardinality(S) /\ Representatives(pages)[k] = pages[CHOOSE i \in S : first(i)]
    BY DEF Representatives
<1>2. S \subseteq 1..Len(pages)
    BY AheadOrders
<1>a. k \in Nat
    <2>1. \E n \in Nat : DOMAIN Representatives(pages) = 1..n
        BY RepresentativesAre
    <2> QED BY <2>1
<1>3. \E i \in S : first(i)
    BY <1>1, RanksAreTaken
<1> HIDE DEF S
<1>4. (CHOOSE i \in S : first(i)) \in S
    BY <1>3
<1> HIDE DEF first
<1> QED BY <1>1, <1>2, <1>4, <1>a DEF IsNumbered

(* The numbers are well founded. *)
LEMMA NatLess == IsWellFoundedOn({ss \in Nat \X Nat : ss[1] < ss[2]}, Nat)
BY NatLessThanWellFounded DEF OpToRel

(* A set of numbers has a least one. *)
LEMMA LeastOf == ASSUME NEW T, T \subseteq Nat, T # {} PROVE \E x \in T : \A y \in T : x <= y
<1>1. PICK x \in T : \A y \in T : ~ (<<y, x>> \in {ss \in Nat \X Nat : ss[1] < ss[2]})
    BY NatLess, WFMin
<1>2. ASSUME NEW y \in T PROVE x <= y
    <2>1. x \in Nat /\ y \in Nat
        OBVIOUS
    <2>2. <<y, x>> \in Nat \X Nat /\ <<y, x>>[1] = y /\ <<y, x>>[2] = x
        BY <2>1
    <2>3. y < x => <<y, x>> \in {ss \in Nat \X Nat : ss[1] < ss[2]}
        BY <2>2
    <2> QED BY <1>1, <2>1, <2>3
<1> QED BY <1>2

(* Results of probes: finitely many, with impacts of the table and counts of nodes. *)
ResultsOK(results) == IsFiniteSet(results) /\ \A r \in results : r.impact \in DOMAIN ImpactRank /\ r.nodes \in Nat
HitsOK(hits) == IsFiniteSet(hits) /\ \A h \in hits : h.result.impact \in DOMAIN ImpactRank /\ h.result.nodes \in Nat

(* Impacts are ranked by a table, so one of several hits is the worst. *)
LEMMA WorstIs ==
    ASSUME NEW hits, hits # {}, HitsOK(hits)
    PROVE  Worst(hits) \in hits
<1> DEFINE rank(h) == ImpactRank[h.result.impact]
           T == {5 - rank(h) : h \in hits}
<1>1. \A h \in hits : rank(h) \in 1..5
    BY ContentsAssumption DEF HitsOK
<1> HIDE DEF rank
<1>2. T \subseteq Nat /\ T # {}
    BY <1>1
<1>3. PICK x \in T : \A y \in T : x <= y
    BY <1>2, LeastOf
<1>4. PICK h \in hits : x = 5 - rank(h)
    BY <1>3
<1>5. ASSUME NEW o \in hits PROVE rank(h) >= rank(o)
    <2>1. 5 - rank(o) \in T
        OBVIOUS
    <2> QED BY <1>1, <1>3, <1>4, <2>1
<1>6. \E w \in hits : \A o \in hits : ImpactRank[w.result.impact] >= ImpactRank[o.result.impact]
    BY <1>5 DEF rank
<1> QED BY <1>6 DEF Worst

(* A finding has finitely many nodes. *)
LEMMA OccurrencesCounted ==
    ASSUME NEW hits, HitsOK(hits)
    PROVE  Occurrences(hits) \in Nat
<1> DEFINE nodes == [h \in hits |-> {h} \X (1..h.result.nodes)]
           U == {nodes[h] : h \in hits}
           V == {{h} \X (1..h.result.nodes) : h \in hits}
<1>1. U = V
    OBVIOUS
<1>2. ASSUME NEW h \in hits PROVE IsFiniteSet(nodes[h])
    <2>1. IsFiniteSet({h})
        BY FS_Singleton
    <2>2. h.result.nodes \in Int /\ 1 \in Int
        BY DEF HitsOK
    <2>3. IsFiniteSet(1..h.result.nodes)
        BY <2>2, FS_Interval
    <2>4. IsFiniteSet({h} \X (1..h.result.nodes))
        BY <2>1, <2>3, FS_Product
    <2> QED BY <2>4
<1> HIDE DEF nodes
<1>3. IsFiniteSet(U)
    BY FiniteImage DEF HitsOK
<1>4. \A T \in U : IsFiniteSet(T)
    BY <1>2
<1> HIDE DEF U
<1>5. IsFiniteSet(UNION U)
    BY <1>3, <1>4, FS_UNION
<1>6. Cardinality(UNION U) \in Nat
    BY <1>5, FS_CardinalityType
<1>7. Occurrences(hits) = Cardinality(UNION V)
    BY DEF Occurrences
<1> HIDE DEF V
<1> QED BY <1>1, <1>6, <1>7

(* What the probe files read back amount to. *)
LEMMA HitsAreOK ==
    ASSUME NEW loaded, IsFiniteSet(loaded), \A p \in loaded : ResultsOK(p.results)
    PROVE  HitsOK(Hits(loaded))
<1> DEFINE told(p) == {r \in p.results : r.outcome \in Reported}
           of == [p \in loaded |-> [id : {p.id}, result : told(p)]]
           U == {of[p] : p \in loaded}
<1>1. Hits(loaded) = UNION {[id : {p.id}, result : told(p)] : p \in loaded}
    BY DEF Hits
<1>2. {[id : {p.id}, result : told(p)] : p \in loaded} = U
    OBVIOUS
<1>3. Hits(loaded) = UNION U
    BY <1>1, <1>2
<1>4. ASSUME NEW p \in loaded PROVE IsFiniteSet(of[p])
    <2> DEFINE R == told(p)
               f == [r \in R |-> [id |-> p.id, result |-> r]]
    <2>1. IsFiniteSet(R)
        BY FS_Subset DEF ResultsOK
    <2> HIDE DEF R
    <2>2. [id : {p.id}, result : R] = {f[r] : r \in R}
        <3>1. ASSUME NEW x \in [id : {p.id}, result : R] PROVE x.result \in R /\ f[x.result] = x
            OBVIOUS
        <3>2. ASSUME NEW r \in R PROVE f[r] \in [id : {p.id}, result : R]
            OBVIOUS
        <3> HIDE DEF f
        <3> QED BY <3>1, <3>2
    <2> HIDE DEF f
    <2>3. IsFiniteSet({f[r] : r \in R})
        BY <2>1, FiniteImage
    <2>4. of[p] = [id : {p.id}, result : R]
        BY DEF R
    <2> HIDE DEF of
    <2> QED BY <2>2, <2>3, <2>4
<1>5. ASSUME NEW h \in Hits(loaded) PROVE h.result.impact \in DOMAIN ImpactRank /\ h.result.nodes \in Nat
    <2>1. PICK p \in loaded : h \in [id : {p.id}, result : told(p)]
        BY <1>1
    <2>2. h.result \in p.results
        BY <2>1
    <2> QED BY <2>2 DEF ResultsOK
<1> HIDE DEF of
<1>6. IsFiniteSet(U)
    BY FiniteImage
<1>7. \A T \in U : IsFiniteSet(T)
    BY <1>4
<1> HIDE DEF U
<1>8. IsFiniteSet(Hits(loaded))
    BY <1>3, <1>6, <1>7, FS_UNION
<1> QED BY <1>5, <1>8 DEF HitsOK

(* Each group is a finding. *)
LEMMA GroupedTyped ==
    ASSUME NEW loaded, IsFiniteSet(loaded), \A p \in loaded : ResultsOK(p.results), setup.version \in Versions,
           NEW k \in DOMAIN Grouped(loaded)
    PROVE  Grouped(loaded)[k] \in Finding
<1> DEFINE real == Hits(loaded)
           mine(key) == {h \in real : Key(h.result) = key}
           G == [key \in {Key(h.result) : h \in real} |->
                   [impact |-> Worst(mine(key)).result.impact, version |-> setup.version,
                    affectedSurfaces |-> Cardinality({h.id : h \in mine(key)}),
                    occurrenceCount |-> Occurrences(mine(key))]]
           M == mine(k)
<1>1. Grouped(loaded) = G
    BY Zenon DEF Grouped
<1>2. HitsOK(real)
    BY HitsAreOK
<1> HIDE DEF real
<1>3. k \in {Key(h.result) : h \in real}
    BY <1>1
<1>4. G[k] = [impact |-> Worst(M).result.impact, version |-> setup.version,
              affectedSurfaces |-> Cardinality({h.id : h \in M}), occurrenceCount |-> Occurrences(M)]
    BY <1>3
<1>5. M \subseteq real /\ M # {}
    BY <1>3
<1> HIDE DEF M, G
<1>6. HitsOK(M)
    BY <1>2, <1>5, FS_Subset DEF HitsOK
<1>7. Worst(M).result.impact \in DOMAIN ImpactRank
    BY <1>5, <1>6, WorstIs DEF HitsOK
<1>8. Cardinality({h.id : h \in M}) \in Nat
    <2> DEFINE id == [h \in M |-> h.id]
    <2>1. {h.id : h \in M} = {id[h] : h \in M}
        OBVIOUS
    <2> HIDE DEF id
    <2>2. IsFiniteSet({id[h] : h \in M})
        BY <1>6, FiniteImage DEF HitsOK
    <2> QED BY <2>1, <2>2, FS_CardinalityType
<1>9. Occurrences(M) \in Nat
    BY <1>6, OccurrencesCounted
<1>10. G[k] \in Finding
    BY <1>4, <1>7, <1>8, <1>9 DEF Finding
<1> QED BY <1>1, <1>10

(* The stages of a command. *)
StageNames == {"idle", "site", "robots", "sitemaps", "visit", "scan", "journey", "manifest", "report", "html",
               "return", "failed", "summary"}

Stages ==
    /\ web \in [Sites -> DOMAIN Contents]
    /\ pc \in StageNames
    /\ mishaps \in 0..MaxMishaps
    /\ By <= MaxCommands
    /\ setup.version \in Versions

(* The memory of discovery: its limits hold although the queue, the sitemaps and the pages come from the site. *)
Discovery ==
    /\ scout.final \in Nat /\ IsNumbered(scout.pages) /\ Len(scout.pages) <= MaxPages
    /\ IsFiniteSet(scout.visited) /\ Cardinality(scout.visited) <= MaxSitemaps
    /\ \A q \in scout.queue : q.depth \in Nat

(* The files of a directory, of whatever age. *)
FilesTyped(own) ==
    /\ own.surface # Absent => own.surface \in SurfaceFile
    /\ own.findings # Absent => \A k \in DOMAIN own.findings.findings : own.findings.findings[k] \in Finding
    /\ IsFiniteSet(own.probes) /\ \A p \in own.probes : ResultsOK(p.results)

TypeInv == Stages /\ Discovery /\ \A d \in Dirs, h \in Folders : FilesTyped(disk[d][h])

(* The limits are numbers. *)
LEMMA Bounds == MaxPages \in Nat /\ MaxSitemaps \in Nat /\ MaxMishaps \in Nat /\ MaxCommands \in Nat
BY ContentsAssumption

(* Commands are counted. *)
LEMMA ByIs == ASSUME SiteInv PROVE By \in Nat
BY SeqFacts DEF SiteInv, Shapes, By

(* What goes wrong is counted. *)
LEMMA MishapsCounted ==
    ASSUME mishaps \in 0..MaxMishaps,
           \/ \E u, a : Goto(u, a)
           \/ Throttled
           \/ UNCHANGED mishaps
           \/ mishaps < MaxMishaps /\ mishaps' = mishaps + 1
    PROVE  mishaps' \in 0..MaxMishaps
<1>1. ASSUME NEW u, NEW a, Goto(u, a) PROVE mishaps' \in 0..MaxMishaps
    <2>1. mishaps' = mishaps + (IF a = Served(u) THEN 0 ELSE 1) /\ mishaps' <= MaxMishaps
        BY <1>1 DEF Goto
    <2> QED BY <2>1, Bounds
<1>2. CASE Throttled
    BY <1>2, Bounds DEF Throttled
<1> QED BY <1>1, <1>2, Bounds

(* Stages while a site is scouted, *)
LEMMA ScoutStages ==
    ASSUME SiteInv, DoScout, Stages
    PROVE  Stages'
<1>1. /\ pc' \in {"robots", "sitemaps", "visit", "failed"} /\ UNCHANGED <<web, story, setup>>
      /\ (\E u, a : Goto(u, a)) \/ Throttled \/ UNCHANGED mishaps
    <2>1. UNCHANGED <<story, setup>>
        BY DEF DoScout, ghosts
    <2>2. CASE ReadRobots
        BY <2>1, <2>2 DEF ReadRobots
    <2>3. CASE VisitSitemap
        <3>1. pc = "sitemaps" /\ pc' \in {"failed", pc} /\ UNCHANGED web
            BY <2>3 DEF VisitSitemap
        <3>2. \E u, a : Goto(u, a)
            BY <2>3 DEF VisitSitemap
        <3> QED BY <2>1, <3>1, <3>2
    <2>4. CASE BrokenSitemap
        BY <2>1, <2>4 DEF BrokenSitemap, net
    <2>5. CASE SeedQueue
        BY <2>1, <2>5 DEF SeedQueue, net
    <2>6. CASE Visit
        <3>1. pc = "visit" /\ UNCHANGED <<web, pc>>
            BY <2>6 DEF Visit, Visiting
        <3>2. \E u, a : Goto(u, a)
            BY <2>6 DEF Visit
        <3> QED BY <2>1, <3>1, <3>2
    <2>7. CASE TooDeep
        BY <2>1, <2>7 DEF TooDeep, Visiting, net
    <2>8. CASE ThrottledFetch
        BY <2>1, <2>8 DEF ThrottledFetch, Visiting
    <2> QED BY <2>2, <2>3, <2>4, <2>5, <2>6, <2>7, <2>8 DEF DoScout, Scouting
<1>2. mishaps' \in 0..MaxMishaps
    BY <1>1, MishapsCounted DEF Stages
<1> QED BY <1>1, <1>2 DEF Stages, StageNames, By

(* while its surfaces are scanned and its files written, *)
LEMMA AuditStages ==
    ASSUME SiteInv, Auditing, Stages
    PROVE  Stages'
<1>1. /\ pc' \in StageNames /\ UNCHANGED <<web, story, setup>>
      /\ (\E u, a : Goto(u, a)) \/ Throttled \/ UNCHANGED mishaps \/ (mishaps < MaxMishaps /\ mishaps' = mishaps + 1)
    <2>1. CASE WriteSurface
        BY <2>1 DEF WriteSurface, StageNames, net, ghosts
    <2>2. CASE Scan
        <3>1. \E u, a : Goto(u, a)
            BY <2>2 DEF Scan
        <3>2. pc' \in {"journey", "failed", pc} /\ UNCHANGED <<web, story, setup>>
            BY <2>2 DEF Scan
        <3> QED BY <3>1, <3>2 DEF StageNames, Stages
    <2>3. CASE Journey
        <3>1. \E u, a : Goto(u, a)
            BY <2>3 DEF Journey
        <3>2. pc' \in {"scan", "failed"} /\ UNCHANGED <<web, story, setup>>
            BY <2>3 DEF Journey
        <3> QED BY <3>1, <3>2 DEF StageNames
    <2>4. CASE ThrottledPage
        BY <2>4 DEF ThrottledPage, Stages, ghosts
    <2>5. CASE Triage
        BY <2>5 DEF Triage, StageNames, net, ghosts
    <2>6. CASE WriteManifest
        BY <2>6 DEF WriteManifest, StageNames, net, ghosts
    <2>7. CASE WriteReport
        BY <2>7 DEF WriteReport, StageNames, net, ghosts
    <2>8. CASE WriteHtml
        BY <2>8 DEF WriteHtml, StageNames, net, ghosts
    <2>9. CASE AuditThrows
        BY <2>9 DEF AuditThrows, StageNames, ghosts
    <2> QED BY <2>1, <2>2, <2>3, <2>4, <2>5, <2>6, <2>7, <2>8, <2>9 DEF Auditing
<1>2. mishaps' \in 0..MaxMishaps
    BY <1>1, MishapsCounted DEF Stages
<1> QED BY <1>1, <1>2 DEF Stages, By

(* and at every step. *)
LEMMA StagesKept == SiteInv /\ Stages /\ [Next]_vars => Stages'
<1> SUFFICES ASSUME SiteInv, Stages, [Next]_vars PROVE Stages'
    OBVIOUS
<1>1. CASE DoScout
    BY <1>1, ScoutStages
<1>2. CASE Auditing
    BY <1>2, AuditStages
<1>3. CASE StartSite
    <2>1. mishaps' \in 0..MaxMishaps
        BY <1>3, MishapsCounted DEF StartSite, Stages
    <2> QED BY <1>3, <2>1 DEF StartSite, Stages, StageNames, By, ghosts
<1>4. CASE SitePasses
    BY <1>4 DEF SitePasses, NextSite, Stages, StageNames, By, net, ghosts
<1>5. CASE SiteFails
    BY <1>5 DEF SiteFails, NextSite, Stages, StageNames, By, net, ghosts
<1>6. CASE WriteSummary \/ EndAudit \/ Crash
    <2>1. \E v : End(v)
        BY <1>6 DEF WriteSummary, EndAudit, Crash
    <2>a. PICK v : End(v)
        BY <2>1
    <2>2. pc # "idle" /\ UNCHANGED <<web, setup>>
        <3>1. CASE WriteSummary
            BY <3>1 DEF WriteSummary
        <3>2. CASE EndAudit
            BY <3>2 DEF EndAudit
        <3>3. CASE Crash
            BY <3>3 DEF Crash
        <3> QED BY <1>6, <3>1, <3>2, <3>3
    <2>3. By' = By
        BY <2>a, <2>2, StoryEnds DEF End
    <2>4. mishaps' \in 0..MaxMishaps
        BY <1>6, MishapsCounted DEF WriteSummary, EndAudit, Crash, Stages
    <2> QED BY <2>a, <2>2, <2>3, <2>4 DEF End, Stages, StageNames
<1>7. CASE StartCommand
    <2>1. By < MaxCommands /\ pc' = "site" /\ UNCHANGED <<web, mishaps, setup>> /\ \E x : story' = Append(story, x)
        BY <1>7 DEF StartCommand, net
    <2>2. By' = By + 1
        BY <2>1, SeqFacts DEF SiteInv, Shapes, By
    <2>3. By' <= MaxCommands
        BY <2>1, <2>2, ByIs, Bounds
    <2> QED BY <2>1, <2>3 DEF Stages, StageNames
<1>8. CASE Watch \/ Learn \/ UNCHANGED vars
    BY <1>8 DEF Watch, Learn, Stages, By, vars, net, ghosts
<1>9. CASE EditSite
    <2>1. UNCHANGED <<pc, setup, story>> /\ mishaps' \in 0..MaxMishaps
        BY <1>9, MishapsCounted DEF EditSite, Stages, ghosts
    <2>2. PICK s \in Sites : \E c \in Serves[s] : web' = [web EXCEPT ![s] = c]
        BY <1>9 DEF EditSite
    <2>a. PICK c \in Serves[s] : web' = [web EXCEPT ![s] = c]
        BY <2>2
    <2>3. c \in DOMAIN Contents
        BY ContentsAssumption
    <2>4. web' \in [Sites -> DOMAIN Contents]
        BY <2>a, <2>3 DEF Stages
    <2> QED BY <2>1, <2>4 DEF Stages, By
<1>10. CASE Reconfigure
    <2>1. UNCHANGED <<web, pc, story>> /\ mishaps' \in 0..MaxMishaps
        BY <1>10, MishapsCounted DEF Reconfigure, Stages, ghosts
    <2>2. setup'.version \in Versions
        BY <1>10 DEF Reconfigure
    <2> QED BY <2>1, <2>2 DEF Stages, By
<1> QED BY <1>1, <1>2, <1>3, <1>4, <1>5, <1>6, <1>7, <1>8, <1>9, <1>10 DEF Next, Running

(* A page that was reached is one of those the site serves. *)
LEMMA ServedIsPage ==
    ASSUME pc \notin {"robots", "sitemaps"}, web \in [Sites -> DOMAIN Contents], cmd.site \in Sites,
           NEW u, NEW a \in {Served(u), FAILED}, a.ok
    PROVE  IsPage(a.page)
<1>1. ~TimedOut
    BY DEF TimedOut
<1>2. FAILED.ok = FALSE
    BY DEF FAILED
<1>3. a = Served(u) /\ u \in DOMAIN Here.pages /\ a = [ok |-> TRUE, page |-> Here.pages[u]]
    <2>1. a = Served(u) /\ a # FAILED
        BY <1>2
    <2>2. Served(u) = IF u \in DOMAIN Here.pages THEN [ok |-> TRUE, page |-> Here.pages[u]] ELSE FAILED
        BY <1>1 DEF Served
    <2> QED BY <2>1, <2>2
<1>4. Here = Contents[web[cmd.site]] /\ web[cmd.site] \in DOMAIN Contents
    BY DEF Here
<1>5. IsPage(Here.pages[u])
    BY <1>3, <1>4, ContentsAssumption
<1> QED BY <1>3, <1>5

(* Its links are counted. *)
LEMMA LinksCounted ==
    ASSUME NEW page, IsPage(page)
    PROVE  Cardinality(InternalLinks(page)) \in Nat
<1>1. DOMAIN page.links = 1..Len(page.links) /\ Len(page.links) \in Nat
    BY DEF IsPage
<1>2. IsFiniteSet(1..Len(page.links)) /\ InternalLinks(page) \subseteq 1..Len(page.links)
    BY <1>1, FS_Interval DEF InternalLinks
<1>3. IsFiniteSet(InternalLinks(page))
    BY <1>2, FS_Subset
<1> QED BY <1>3, FS_CardinalityType

(* A site is scouted with an empty memory. *)
LEMMA NewScoutTyped ==
    ASSUME scout' = NewScout
    PROVE  Discovery'
<1>1. IsFiniteSet({}) /\ Cardinality({}) = 0
    BY FS_EmptySet
<1>2. Len(<<>>) = 0
    BY EmptyIsSeq
<1>3. scout'.final = 1 /\ scout'.pages = <<>> /\ scout'.visited = {} /\ scout'.queue = {}
    BY DEF NewScout, ENTRY
<1> QED BY <1>1, <1>2, <1>3, Bounds DEF Discovery, IsNumbered

(* The memory of scoutSite. *)
LEMMA ScoutFields ==
    ASSUME SiteInv
    PROVE  DOMAIN scout = {"pending", "visited", "found", "queue", "queued", "pages", "final"} /\ IsSeq(scout.pages)
BY DEF SiteInv, Listed, NewScout

(* Nothing but the seeds' memory and the queue. *)
LEMMA SamePages ==
    ASSUME Discovery, UNCHANGED <<scout.final, scout.pages>>,
           IsFiniteSet(scout'.visited), Cardinality(scout'.visited) <= MaxSitemaps,
           \A q \in scout'.queue : q.depth \in Nat
    PROVE  Discovery'
BY DEF Discovery, IsNumbered

(* A page is kept while there are fewer than MaxPages. *)
LEMMA OneMorePage ==
    ASSUME SiteInv, Stages, Discovery, Visiting, NEW next \in scout.queue, NEW page, IsPage(page),
           scout' = Inspected(next, page)
    PROVE  Discovery'
<1> DEFINE p == [url |-> page.at, depth |-> next.depth, kind |-> IF next.depth = 0 THEN "home" ELSE page.kind,
                 fingerprint |-> page.fingerprint, internalLinks |-> Cardinality(InternalLinks(page))]
           new == Links(next, page).new
           n == Cardinality(scout.queued)
<1>1. /\ scout'.queue = (scout.queue \ {next}) \cup Queued(new, next.depth + 1, n, 0)
      /\ scout'.final = IF next.depth = 0 THEN page.at ELSE scout.final
      /\ scout'.pages = Append(scout.pages, p) /\ scout'.visited = scout.visited
    BY ScoutFields DEF Inspected
<1>2. next.depth \in Nat /\ page.at \in Nat
    BY DEF Discovery, IsPage
<1>3. Numbered(p)
    BY <1>2, LinksCounted DEF Numbered
<1> HIDE DEF p, new, n
<1>4. \A q \in Queued(new, next.depth + 1, n, 0) : q.depth = next.depth + 1
    BY DEF Queued
<1>5. \A q \in scout'.queue : q.depth \in Nat
    BY <1>1, <1>2, <1>4 DEF Discovery
<1>6. IsNumbered(scout'.pages) /\ Len(scout'.pages) <= MaxPages
    <2> DEFINE s == Append(scout.pages, p)
               m == Len(scout.pages)
    <2>1. /\ m \in Nat /\ Len(s) = m + 1 /\ \A i \in 1..m : s[i] = scout.pages[i]
          /\ s[m + 1] = p
        BY ScoutFields, SeqFacts
    <2>2. m < MaxPages
        BY DEF Visiting
    <2>3. scout'.pages = s
        BY <1>1
    <2> HIDE DEF s
    <2>4. \A i \in 1..m : Numbered(s[i])
        BY <2>1 DEF Discovery, IsNumbered
    <2>5. \A i \in 1..Len(s) : Numbered(s[i])
        BY <1>3, <2>1, <2>4
    <2>6. Len(s) <= MaxPages
        BY <2>1, <2>2, Bounds
    <2> QED BY <2>3, <2>5, <2>6 DEF IsNumbered
<1>7. scout'.final \in Nat
    BY <1>1, <1>2 DEF Discovery
<1> QED BY <1>1, <1>5, <1>6, <1>7 DEF Discovery

(* Each step of discovery keeps its memory in bounds. *)
LEMMA ScoutTyped ==
    ASSUME SiteInv, Stages, Discovery, DoScout
    PROVE  Discovery'
<1>0. cmd.site \in Sites
    <2>1. pc # "idle"
        BY DEF DoScout, Scouting, ReadRobots, VisitSitemap, BrokenSitemap, SeedQueue, Visit, TooDeep, ThrottledFetch, Visiting
    <2> QED BY <2>1, UnderwayFacts
<1>1. CASE ReadRobots
    <2>1. PICK v : scout' = [scout EXCEPT !.pending = v]
        BY <1>1 DEF ReadRobots
    <2>2. UNCHANGED <<scout.final, scout.pages, scout.visited, scout.queue>>
        BY <2>1, ScoutFields
    <2> QED BY <2>2, SamePages DEF Discovery
<1>2. CASE VisitSitemap
    <2> DEFINE u == Head(scout.pending).url
               V == scout.visited \cup {u}
    <2>1. PICK v, f : scout' = [scout EXCEPT !.pending = v, !.visited = V, !.found = f]
        BY <1>2, Zenon DEF VisitSitemap
    <2>2. Cardinality(scout.visited) < MaxSitemaps
        BY <1>2 DEF VisitSitemap, SeedsWanted
    <2>3. IsFiniteSet(scout.visited) /\ Cardinality(scout.visited) \in Nat
        BY FS_CardinalityType DEF Discovery
    <2>4. IsFiniteSet(V) /\ (Cardinality(V) = Cardinality(scout.visited) \/ Cardinality(V) = Cardinality(scout.visited) + 1)
        BY <2>3, FS_AddElement
    <2> HIDE DEF V
    <2>5. Cardinality(V) <= MaxSitemaps
        BY <2>2, <2>3, <2>4, Bounds
    <2>6. UNCHANGED <<scout.final, scout.pages, scout.queue>> /\ scout'.visited = V
        BY <2>1, ScoutFields
    <2> QED BY <2>4, <2>5, <2>6, SamePages DEF Discovery
<1>3. CASE BrokenSitemap \/ ThrottledFetch
    <2>1. UNCHANGED scout
        BY <1>3 DEF BrokenSitemap, ThrottledFetch
    <2> QED BY <2>1 DEF Discovery, IsNumbered
<1>4. CASE SeedQueue
    <2> DEFINE seeds == SelectSeq(scout.found, LAMBDA u : u # ENTRY)
    <2>1. scout' = [scout EXCEPT
              !.queue = {[url |-> ENTRY, depth |-> 0, score |-> 1000, order |-> 0]} \cup Queued(seeds, 1, 0, SeedBonus),
              !.queued = {ENTRY} \cup ToSet(seeds), !.pending = <<>>, !.found = <<>>, !.visited = {}]
        BY <1>4, Zenon DEF SeedQueue
    <2> HIDE DEF seeds
    <2>2. /\ UNCHANGED <<scout.final, scout.pages>> /\ scout'.visited = {}
          /\ scout'.queue = {[url |-> ENTRY, depth |-> 0, score |-> 1000, order |-> 0]} \cup Queued(seeds, 1, 0, SeedBonus)
        BY <2>1, ScoutFields
    <2>3. \A q \in scout'.queue : q.depth \in Nat
        BY <2>2 DEF Queued
    <2>4. IsFiniteSet({}) /\ Cardinality({}) = 0
        BY FS_EmptySet
    <2> QED BY <2>2, <2>3, <2>4, SamePages, Bounds
<1>5. CASE Visit
    <2>1. pc = "visit" /\ Visiting
        BY <1>5 DEF Visit, Visiting
    <2>2. PICK next \in Foremost : \E a \in {Served(next.url), FAILED} :
            scout' = IF ~a.ok \/ (a.ok /\ a.page.at = OFF) THEN [scout EXCEPT !.queue = @ \ {next}]
                     ELSE Inspected(next, a.page)
        BY <1>5 DEF Visit
    <2>3. PICK a \in {Served(next.url), FAILED} :
            scout' = IF ~a.ok \/ (a.ok /\ a.page.at = OFF) THEN [scout EXCEPT !.queue = @ \ {next}]
                     ELSE Inspected(next, a.page)
        BY <2>2
    <2>4. CASE scout' = [scout EXCEPT !.queue = @ \ {next}]
        <3>1. UNCHANGED <<scout.final, scout.pages, scout.visited>> /\ scout'.queue \subseteq scout.queue
            BY <2>4, ScoutFields
        <3> QED BY <3>1, SamePages DEF Discovery
    <2>5. CASE a.ok /\ scout' = Inspected(next, a.page)
        <3>1. IsPage(a.page)
            BY <1>0, <2>1, <2>5, ServedIsPage DEF Stages
        <3>2. next \in scout.queue
            BY DEF Foremost
        <3> QED BY <2>1, <2>5, <3>1, <3>2, OneMorePage
    <2> QED BY <2>3, <2>4, <2>5
<1>6. CASE TooDeep
    <2>1. PICK next \in Foremost : scout' = [scout EXCEPT !.queue = @ \ {next}]
        BY <1>6 DEF TooDeep
    <2>2. UNCHANGED <<scout.final, scout.pages, scout.visited>> /\ scout'.queue \subseteq scout.queue
        BY <2>1, ScoutFields
    <2> QED BY <2>2, SamePages DEF Discovery
<1> QED BY <1>1, <1>2, <1>3, <1>4, <1>5, <1>6 DEF DoScout, Scouting

(* So does every other step. *)
LEMMA ScoutKept == SiteInv /\ Stages /\ Discovery /\ [Next]_vars => Discovery'
<1> SUFFICES ASSUME SiteInv, Stages, Discovery, [Next]_vars PROVE Discovery'
    OBVIOUS
<1>1. ASSUME UNCHANGED scout PROVE Discovery'
    BY <1>1 DEF Discovery, IsNumbered
<1>2. CASE DoScout
    BY <1>2, ScoutTyped
<1>3. CASE StartSite \/ WriteSurface \/ SiteFails
    BY <1>3, NewScoutTyped DEF StartSite, WriteSurface, SiteFails
<1>4. CASE WriteSummary \/ EndAudit \/ Crash
    BY <1>4, NewScoutTyped DEF WriteSummary, EndAudit, Crash, End
<1>5. CASE Auditing
    <2>1. CASE WriteSurface
        BY <1>3, <2>1
    <2>2. CASE Scan \/ Journey \/ ThrottledPage
        <3>1. UNCHANGED scout
            BY <2>2 DEF Scan, Journey, ThrottledPage
        <3> QED BY <1>1, <3>1
    <2>3. CASE Triage \/ WriteManifest \/ WriteReport \/ WriteHtml \/ AuditThrows
        <3>1. UNCHANGED scout
            BY <2>3 DEF Triage, WriteManifest, WriteReport, WriteHtml, AuditThrows
        <3> QED BY <1>1, <3>1
    <2> QED BY <1>5, <2>1, <2>2, <2>3 DEF Auditing
<1>6. CASE SitePasses \/ StartCommand \/ Watch \/ Learn \/ EditSite \/ Reconfigure \/ UNCHANGED vars
    <2>1. UNCHANGED scout
        BY <1>6 DEF SitePasses, StartCommand, Watch, Learn, EditSite, Reconfigure, vars
    <2> QED BY <1>1, <2>1
<1> QED BY <1>2, <1>3, <1>4, <1>5, <1>6 DEF Next, Running

(* Files a step leaves alone. *)
LEMMA FilesUntouched ==
    ASSUME By \in Nat, By' \in Nat, By' >= By, UNCHANGED disk, \A d \in Dirs, h \in Folders : FilesTyped(disk[d][h])
    PROVE  \A d \in Dirs, h \in Folders : FilesTyped(disk[d][h])'
<1>1. SurfaceFile \subseteq SurfaceFile'
    BY DEF SurfaceFile
<1> SUFFICES ASSUME NEW d \in Dirs, NEW h \in Folders PROVE FilesTyped(disk[d][h])'
    OBVIOUS
<1>2. disk'[d][h] = disk[d][h] /\ FilesTyped(disk[d][h])
    OBVIOUS
<1> QED BY <1>1, <1>2 DEF FilesTyped, Finding

(* A step writes one file of the site at hand. *)
LEMMA FileWritten ==
    ASSUME SiteInv, pc # "idle", UNCHANGED story, \A d \in Dirs, h \in Folders : FilesTyped(disk[d][h]),
           NEW f \in FileNames, NEW v, Write(f, v),
           f = "surface" => v \in SurfaceFile,
           f = "findings" => \A k \in DOMAIN v.findings : v.findings[k] \in Finding,
           f = "probes" => IsFiniteSet(v) /\ \A p \in v : ResultsOK(p.results)
    PROVE  \A d \in Dirs, h \in Folders : FilesTyped(disk[d][h])'
<1>1. By' = By
    BY DEF By
<1>2. SurfaceFile' = SurfaceFile
    BY <1>1 DEF SurfaceFile
<1>3. Shapes /\ cmd.dir \in Dirs /\ Cohort[cmd.site] \in Folders
    BY UnderwayFacts DEF SiteInv, Folders
<1>4. /\ \A d \in Dirs : /\ d # cmd.dir => disk'[d] = disk[d]
                         /\ \A h \in Folders : h # Cohort[cmd.site] => disk'[d][h] = disk[d][h]
      /\ disk'[cmd.dir][Cohort[cmd.site]][f] = v
      /\ \A g \in FileNames \ {f} : \A d \in Dirs : disk'[d][Cohort[cmd.site]][g] = disk[d][Cohort[cmd.site]][g]
    BY <1>3, WriteFacts
<1> SUFFICES ASSUME NEW d \in Dirs, NEW h \in Folders PROVE FilesTyped(disk[d][h])'
    OBVIOUS
<1>5. FilesTyped(disk[d][h])
    OBVIOUS
<1>6. CASE d # cmd.dir \/ h # Cohort[cmd.site]
    <2>1. disk'[d][h] = disk[d][h]
        BY <1>4, <1>6
    <2> QED BY <1>2, <1>5, <2>1 DEF FilesTyped, Finding
<1>7. CASE d = cmd.dir /\ h = Cohort[cmd.site]
    <2> DEFINE own == disk[d][h]
               new == disk'[d][h]
    <2>1. "surface" \in FileNames /\ "findings" \in FileNames /\ "probes" \in FileNames
        BY DEF FileNames
    <2>2. new[f] = v /\ \A g \in FileNames : g # f => new[g] = own[g]
        BY <1>4, <1>7
    <2> HIDE DEF own, new
    <2>3. new.surface # Absent => new.surface \in SurfaceFile
        <3>1. CASE f = "surface"
            BY <2>2, <3>1
        <3>2. CASE f # "surface"
            <4>1. new.surface = own.surface
                BY <2>1, <2>2, <3>2
            <4> QED BY <1>5, <4>1 DEF FilesTyped, own
        <3> QED BY <3>1, <3>2
    <2>4. new.findings # Absent => \A k \in DOMAIN new.findings.findings : new.findings.findings[k] \in Finding
        <3>1. CASE f = "findings"
            BY <2>2, <3>1
        <3>2. CASE f # "findings"
            <4>1. new.findings = own.findings
                BY <2>1, <2>2, <3>2
            <4> QED BY <1>5, <4>1 DEF FilesTyped, own
        <3> QED BY <3>1, <3>2
    <2>5. IsFiniteSet(new.probes) /\ \A p \in new.probes : ResultsOK(p.results)
        <3>1. CASE f = "probes"
            BY <2>2, <3>1
        <3>2. CASE f # "probes"
            <4>1. new.probes = own.probes
                BY <2>1, <2>2, <3>2
            <4> QED BY <1>5, <4>1 DEF FilesTyped, own
        <3> QED BY <3>1, <3>2
    <2>6. Finding' = Finding
        BY DEF Finding
    <2> QED BY <1>2, <2>3, <2>4, <2>5, <2>6 DEF FilesTyped, new
<1> QED BY <1>6, <1>7

(* surface.json lists pages that were seen. *)
LEMMA SurfaceWritten ==
    ASSUME SiteInv, TypeInv, WriteSurface
    PROVE  \A d \in Dirs, h \in Folders : FilesTyped(disk[d][h])'
<1> DEFINE all == Representatives(scout.pages)
           surfaces == [k \in DOMAIN all |-> [id |-> SurfaceId(k), url |-> all[k].url]]
           file == [by |-> By, site |-> cmd.site, final |-> scout.final, surfaces |-> surfaces]
<1>1. pc = "visit" /\ UNCHANGED story /\ Write("surface", file)
    BY Zenon DEF WriteSurface, Scouted, ghosts
<1>2. By \in 1..By
    BY <1>1, UnderwayFacts DEF Commanded
<1>b. cmd.site \in Sites
    BY <1>1, UnderwayFacts
<1>3. IsSeq(scout.pages) /\ IsNumbered(scout.pages)
    BY ScoutFields DEF TypeInv, Discovery
<1>4. PICK n \in Nat : DOMAIN all = 1..n
    BY <1>3, RepresentativesAre
<1>5. \A k \in 1..n : k \in Nat /\ Numbered(all[k])
    BY <1>3, <1>4, RepresentativesArePages
<1> HIDE DEF all
<1>6. surfaces \in [1..n -> [id : Nat, url : Nat]]
    BY <1>4, <1>5 DEF Numbered, SurfaceId
<1> HIDE DEF surfaces
<1>7. surfaces \in Seq([id : Nat, url : Nat])
    <2> DEFINE R == [id : Nat, url : Nat]
    <2>1. n \in Nat /\ surfaces \in [1..n -> R]
        BY <1>6
    <2> HIDE DEF R
    <2>2. surfaces \in Seq(R)
        BY <2>1
    <2> QED BY <2>2 DEF R
<1>8. file \in SurfaceFile
    BY <1>2, <1>7, <1>b DEF SurfaceFile, TypeInv, Discovery
<1>9. "surface" \in FileNames
    BY DEF FileNames
<1> HIDE DEF file
<1> QED BY <1>1, <1>8, <1>9, FileWritten DEF TypeInv

(* Probe files hold what a page of the site yields. *)
LEMMA ProbesWritten ==
    ASSUME SiteInv, TypeInv, Scan
    PROVE  \A d \in Dirs, h \in Folders : FilesTyped(disk[d][h])'
<1>1. pc = "scan" /\ UNCHANGED story /\ cmd.dir \in Dirs /\ cmd.site \in Sites /\ Cohort[cmd.site] \in Folders /\ By \in Nat
    BY UnderwayFacts DEF Scan, Folders
<1>a. By' = By
    BY <1>1 DEF By
<1>2. PICK a \in {Served(Current.url), FAILED} :
        IF OnHost(a)
        THEN Write("probes", Replaced(disk[cmd.dir][Cohort[cmd.site]].probes,
                        [id |-> Current.id, by |-> By, results |-> a.page.results]))
        ELSE UNCHANGED disk
    BY DEF Scan, Own
<1>3. CASE ~OnHost(a)
    BY <1>1, <1>a, <1>2, <1>3, FilesUntouched DEF TypeInv
<1>4. CASE OnHost(a)
    <2> DEFINE old == disk[cmd.dir][Cohort[cmd.site]].probes
               p == [id |-> Current.id, by |-> By, results |-> a.page.results]
               new == Replaced(old, p)
    <2>1. ResultsOK(a.page.results)
        <3>1. IsPage(a.page)
            BY <1>1, <1>4, ServedIsPage DEF OnHost, TypeInv, Stages
        <3> QED BY <3>1 DEF IsPage, ResultsOK
    <2>2. IsFiniteSet(old) /\ \A q \in old : ResultsOK(q.results)
        BY <1>1 DEF TypeInv, FilesTyped
    <2>3. p.results = a.page.results
        OBVIOUS
    <2>4. Write("probes", new)
        BY <1>2, <1>4
    <2> HIDE DEF old, p
    <2>5. {q \in old : q.id # p.id} \subseteq old
        OBVIOUS
    <2>6. IsFiniteSet({q \in old : q.id # p.id})
        BY <2>2, <2>5, FS_Subset
    <2>7. IsFiniteSet(new)
        BY <2>6, FS_AddElement DEF Replaced
    <2>8. \A q \in new : ResultsOK(q.results)
        BY <2>1, <2>2, <2>3 DEF Replaced
    <2> HIDE DEF new
    <2>9. "probes" \in FileNames
        BY DEF FileNames
    <2> QED BY <1>1, <2>4, <2>7, <2>8, <2>9, FileWritten DEF TypeInv
<1> QED BY <1>3, <1>4

(* findings.json. *)
LEMMA FindingsWritten ==
    ASSUME SiteInv, TypeInv, Triage
    PROVE  \A d \in Dirs, h \in Folders : FilesTyped(disk[d][h])'
<1> DEFINE file == [by |-> By, total |-> Len(audit.runs), findings |-> Grouped(Loaded)]
<1>1. pc = "scan" /\ UNCHANGED story /\ Write("findings", file)
    BY DEF Triage, ghosts
<1>2. cmd.dir \in Dirs /\ Cohort[cmd.site] \in Folders
    BY <1>1, UnderwayFacts DEF Folders
<1>3. IsFiniteSet(Loaded) /\ \A p \in Loaded : ResultsOK(p.results)
    <2> DEFINE probes == disk[cmd.dir][Cohort[cmd.site]].probes
    <2>1. IsFiniteSet(probes) /\ \A p \in probes : ResultsOK(p.results)
        BY <1>2 DEF TypeInv, FilesTyped
    <2>2. Loaded \subseteq probes
        BY DEF Loaded, Own
    <2> HIDE DEF probes
    <2> QED BY <2>1, <2>2, FS_Subset
<1>4. \A k \in DOMAIN Grouped(Loaded) : Grouped(Loaded)[k] \in Finding
    BY <1>3, GroupedTyped DEF TypeInv, Stages
<1>5. file.findings = Grouped(Loaded) /\ "findings" \in FileNames
    BY DEF FileNames
<1> HIDE DEF file
<1> QED BY <1>1, <1>4, <1>5, FileWritten DEF TypeInv

(* Every file of every directory keeps its type. *)
LEMMA FilesKept ==
    SiteInv /\ TypeInv /\ [Next]_vars => \A d \in Dirs, h \in Folders : FilesTyped(disk[d][h])'
<1> SUFFICES ASSUME SiteInv, TypeInv, [Next]_vars
             PROVE  \A d \in Dirs, h \in Folders : FilesTyped(disk[d][h])'
    OBVIOUS
<1>a. By \in Nat
    BY ByIs
<1>0. ASSUME UNCHANGED disk, By' = By \/ By' = By + 1 PROVE \A d \in Dirs, h \in Folders : FilesTyped(disk[d][h])'
    BY <1>a, <1>0, FilesUntouched DEF TypeInv
<1>1. CASE WriteSurface \/ Scan \/ Triage
    BY <1>1, SurfaceWritten, ProbesWritten, FindingsWritten
<1>2. CASE Journey
    <2>1. pc # "idle" /\ UNCHANGED story /\ "journeys" \in FileNames
        BY <1>2 DEF Journey, FileNames
    <2>2. UNCHANGED disk \/ \E v : Write("journeys", v)
        BY <1>2 DEF Journey
    <2>3. By' = By
        BY <2>1 DEF By
    <2>4. ASSUME NEW v, Write("journeys", v) PROVE \A d \in Dirs, h \in Folders : FilesTyped(disk[d][h])'
        BY <2>1, <2>4, FileWritten DEF TypeInv
    <2> QED BY <1>0, <2>2, <2>3, <2>4
<1>3. CASE WriteManifest \/ WriteReport \/ WriteHtml
    <2>1. pc # "idle" /\ UNCHANGED story
        BY <1>3 DEF WriteManifest, WriteReport, WriteHtml, ghosts
    <2>2. PICK f \in {"manifest", "report", "html"} : \E v : Write(f, v)
        BY <1>3 DEF WriteManifest, WriteReport, WriteHtml
    <2>3. PICK v : Write(f, v)
        BY <2>2
    <2>4. f \in FileNames /\ f # "surface" /\ f # "findings" /\ f # "probes"
        BY DEF FileNames
    <2> QED BY <2>1, <2>3, <2>4, FileWritten DEF TypeInv
<1>4. CASE DoScout \/ ThrottledPage \/ StartSite \/ AuditThrows \/ SitePasses \/ SiteFails
    <2>1. UNCHANGED <<disk, story>>
        BY <1>4 DEF DoScout, ThrottledPage, StartSite, AuditThrows, SitePasses, SiteFails, files, ghosts
    <2> QED BY <1>0, <2>1 DEF By
<1>5. CASE WriteSummary \/ EndAudit \/ Crash
    <2>1. UNCHANGED disk
        BY <1>5 DEF WriteSummary, EndAudit, Crash, files
    <2>2. pc # "idle"
        <3>1. CASE EndAudit
            BY <3>1 DEF EndAudit
        <3>2. CASE WriteSummary \/ Crash
            BY <3>2 DEF WriteSummary, Crash
        <3> QED BY <1>5, <3>1, <3>2
    <2>3. \E v : End(v)
        BY <1>5 DEF WriteSummary, EndAudit, Crash
    <2>4. By' = By
        BY <2>2, <2>3, StoryEnds DEF End
    <2> QED BY <1>0, <2>1, <2>4
<1>6. CASE StartCommand
    <2>1. UNCHANGED disk /\ \E x : story' = Append(story, x)
        BY <1>6 DEF StartCommand, files
    <2>2. By' = By + 1
        BY <2>1, SeqFacts DEF SiteInv, Shapes, By
    <2> QED BY <1>0, <2>1, <2>2
<1>7. CASE Watch \/ Learn \/ EditSite \/ Reconfigure \/ UNCHANGED vars
    <2>1. UNCHANGED <<disk, story>>
        BY <1>7 DEF Watch, Learn, EditSite, Reconfigure, vars, files, ghosts
    <2> QED BY <1>0, <2>1 DEF By
<1> QED BY <1>1, <1>2, <1>3, <1>4, <1>5, <1>6, <1>7 DEF Next, Running, Auditing

(* The types hold at first, *)
LEMMA TypesBegin == Init => TypeInv
<1> SUFFICES ASSUME Init PROVE TypeInv
    OBVIOUS
<1>1. By = 0 /\ scout = NewScout
    BY EmptyIsSeq DEF Init, By
<1>2. Stages
    <2>1. setup.version \in Versions
        BY ContentsAssumption DEF Init
    <2>2. web \in [Sites -> DOMAIN Contents] /\ pc = "idle" /\ mishaps = 0
        BY ContentsAssumption DEF Init
    <2> QED BY <1>1, <2>1, <2>2, Bounds DEF Stages, StageNames
<1>3. Discovery
    <2>1. IsFiniteSet({}) /\ Cardinality({}) = 0 /\ Len(<<>>) = 0
        BY FS_EmptySet, EmptyIsSeq
    <2>2. scout.final = 1 /\ scout.pages = <<>> /\ scout.visited = {} /\ scout.queue = {}
        BY <1>1 DEF NewScout, ENTRY
    <2> QED BY <2>1, <2>2, Bounds DEF Discovery, IsNumbered
<1>4. ASSUME NEW d \in Dirs, NEW h \in Folders PROVE FilesTyped(disk[d][h])
    <2>1. disk[d][h].surface = Absent /\ disk[d][h].findings = Absent /\ disk[d][h].probes = {}
        BY DEF Init, EmptyDir
    <2> QED BY <2>1, FS_EmptySet DEF FilesTyped
<1> QED BY <1>2, <1>3, <1>4 DEF TypeInv

(* at every step, *)
LEMMA TypesKept == SiteInv /\ TypeInv /\ [Next]_vars => TypeInv'
<1> SUFFICES ASSUME SiteInv, TypeInv, [Next]_vars PROVE TypeInv'
    OBVIOUS
<1>1. Stages'
    BY StagesKept DEF TypeInv
<1>2. Discovery'
    BY ScoutKept DEF TypeInv
<1>3. \A d \in Dirs, h \in Folders : FilesTyped(disk[d][h])'
    BY FilesKept
<1> QED BY <1>1, <1>2, <1>3 DEF TypeInv

(* and with the two other invariants they are TypeOK. *)
LEMMA TypesFollow == PaceInv /\ SiteInv /\ TypeInv => TypeOK
<1> SUFFICES ASSUME PaceInv, SiteInv, TypeInv PROVE TypeOK
    OBVIOUS
<1>1. pc = "idle" <=> cmd = NONE
    BY UnderwayFacts, SettingsAssumption DEF PaceInv
<1>2. (pc = "idle") = (cmd = NONE)
    BY <1>1
<1>3. Len(audit.runs) <= Len(audit.surfaces)
    BY DEF SiteInv, Listed
<1>4. ASSUME NEW d \in Dirs, NEW h \in Folders
      PROVE  /\ disk[d][h].surface # Absent => disk[d][h].surface \in SurfaceFile
             /\ disk[d][h].findings # Absent =>
                  \A k \in DOMAIN disk[d][h].findings.findings : disk[d][h].findings.findings[k] \in Finding
    BY DEF TypeInv, FilesTyped
<1>5. Stages /\ Discovery
    BY DEF TypeInv
<1> QED BY <1>2, <1>3, <1>4, <1>5 DEF TypeOK, Stages, StageNames, Discovery

(* Whatever sites serve, redirect to and change to, and wherever commands fail,
   no more sitemaps and pages are taken than the limits say, each surface of
   surface.json is a page that was seen, and each finding of findings.json has
   an impact, a version and counts of its surfaces and nodes
   (scout.ts scoutSite, sample.ts selectRepresentativeSurfaces, triage.ts). *)
THEOREM AuditTypes == Spec => []TypeOK
<1>1. Spec => []TypeInv
    BY FilesTellTheirOrigin, TypesBegin, TypesKept, PTL DEF Spec
<1>2. Spec => []PaceInv
    <2>1. Init => PaceInv
        BY DEF Init, PaceInv
    <2> QED BY <2>1, StepOK, PTL DEF Spec
<1> QED BY <1>1, <1>2, FilesTellTheirOrigin, TypesFollow, PTL
=============================================================================
