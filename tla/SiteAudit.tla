------------------------------ MODULE SiteAudit ------------------------------
(* The commands of cli.ts that look at sites: an audit of one site, a cohort *)
(* of sites, the comparison of two reports and the mining of a cohort's      *)
(* summary. An audit scouts, scans the selected surfaces one after the other,*)
(* groups what the probes saw, and writes a manifest and a report; any       *)
(* exception ends it and leaves the files of its directory as they are, new  *)
(* ones beside those of an earlier command.                                  *)
EXTENDS Scout, Journeys

CONSTANTS
  Cohort,           \* the ids of the cohort's sites, in order, not necessarily distinct
  Name,             \* the name of a site, not necessarily its own
  Dirs,             \* output directories
  Starts,           \* what each site serves at first
  Serves,           \* what each site may come to serve
  Settings,         \* options a command may be given
  Profiles,         \* requirement profiles
  Versions,         \* versions of the scanner
  ImpactRank,
  MinMunicipalities, MinOccurrences,
  MaxCommands       \* bound on commands

\* A site is an entry of the cohort; its files lie in a directory named by its id.
Sites == DOMAIN Cohort
Folders == {Cohort[s] : s \in Sites}
Aimed(o, d, s) == [o EXCEPT !.dir = d, !.site = s]
Commands == {Aimed(o, d, s) : o \in Settings, d \in Dirs, s \in Sites}

\* Nothing keeps two entries of a cohort from having the same id.
ASSUME CohortAssumption == Cohort \in Seq(Folders) /\ Cohort # <<>> /\ MinMunicipalities \in Nat

\* The options of a command, and that what a policy or a host asks for are natural numbers, doubled as often as retries allow.
ASSUME SettingsAssumption ==
  /\ \A o \in Settings :
       /\ {"kind", "policy", "journeys", "report", "maxDepth", "maxSurfaces", "dir", "site"} = DOMAIN o
       /\ o.kind = "cohort" => o.report = TRUE
       /\ o.maxSurfaces \in Nat \cup {NONE}
  /\ \A p \in {o.policy : o \in Settings} \ {NONE} :
       /\ {p.delay, p.maxRetries, p.base, p.maxBackoff} \subseteq Nat
       /\ \A a \in 0..p.maxRetries : p.base * 2 ^ a \in Nat
  /\ RetryAfters \ {NONE} \subseteq Nat
  /\ NONE \notin Commands

IsPage(p) ==
  /\ p.at \in Nat /\ p.links \in Seq(ToSet(p.links))
  /\ IsFiniteSet(p.results) /\ \A r \in p.results : r.impact \in DOMAIN ImpactRank /\ r.nodes \in Nat

\* What sites serve, the table of impactRank, and the bounds.
ASSUME ContentsAssumption ==
  /\ Starts \in [Sites -> DOMAIN Contents] /\ Serves \in [Sites -> SUBSET DOMAIN Contents]
  /\ \A c \in DOMAIN Contents : \A u \in DOMAIN Contents[c].pages : IsPage(Contents[c].pages[u])
  /\ ImpactRank \in [DOMAIN ImpactRank -> 1..5] /\ Versions # {}
  /\ {MaxPages, MaxSitemaps, MaxMishaps, MaxCommands} \subseteq Nat

VARIABLES
  audit,     \* the memory of auditSite
  books,     \* the memory of runCohort
  disk,      \* the files of each site's directory, by id
  summary,   \* summary.json of each directory
  change,    \* the last WATCH result, or NONE
  learned,   \* the last candidate catalogue, or NONE
  setup,     \* the installed scanner and the profile in use
  story,     \* history: what became of each command
  scans,     \* history: what each scan saw
  touched    \* history: the elements the journeys acted on

mem == <<audit, books>>
files == <<disk, summary, change, learned>>
ghosts == <<story, scans, touched>>
vars == <<web, pc, cmd, net, scout, mem, files, setup, ghosts>>

\* A file no command wrote.
Absent == [by |-> 0]
EmptyDir == [surface |-> Absent, probes |-> {}, journeys |-> {}, findings |-> Absent, manifest |-> Absent,
             report |-> Absent, html |-> Absent]
NewAudit == [surfaces |-> <<>>, runs |-> <<>>, journeyRuns |-> {}]
NewBooks == [entries |-> <<>>, issues |-> {}, journeys |-> {}]
By == Len(story)

Init ==
  /\ web = Starts
  /\ pc = "idle" /\ cmd = NONE /\ scout = NewScout /\ audit = NewAudit /\ books = NewBooks
  /\ mishaps = 0 /\ tries = First /\ pace = NONE
  /\ disk = [d \in Dirs |-> [f \in Folders |-> EmptyDir]]
  /\ summary = [d \in Dirs |-> Absent] /\ change = NONE /\ learned = NONE
  /\ setup = [version |-> CHOOSE v \in Versions : TRUE, profile |-> CHOOSE p \in Profiles : TRUE]
  /\ story = <<>> /\ scans = {} /\ touched = {}

Own == disk[cmd.dir][Cohort[cmd.site]]
Write(file, value) == disk' = [disk EXCEPT ![cmd.dir][Cohort[cmd.site]][file] = value]

-----------------------------------------------------------------------------
(* Commands *)

StartCommand ==
  /\ pc = "idle" /\ By < MaxCommands
  /\ \E o \in Settings, d \in Dirs, s \in Sites :
       /\ d <= By + 1
       /\ o.kind = "cohort" => s = 1
       /\ cmd' = Aimed(o, d, s)
       /\ story' = Append(story, [kind |-> o.kind, dir |-> d, setup |-> setup, ended |-> "start"])
  /\ pc' = "site" /\ books' = NewBooks
  /\ UNCHANGED <<web, net, scout, audit, files, setup, scans, touched>>

\* The start URL must resolve to a public address before anything is requested.
StartSite ==
  /\ pc = "site"
  /\ scout' = NewScout /\ audit' = NewAudit /\ pace' = NONE /\ tries' = First
  /\ \/ pc' = "robots" /\ UNCHANGED mishaps
     \/ pc' = "failed" /\ mishaps < MaxMishaps /\ mishaps' = mishaps + 1
  /\ UNCHANGED <<web, cmd, books, files, setup, ghosts>>

DoScout == Scouting /\ UNCHANGED <<mem, files, setup, ghosts>>

-----------------------------------------------------------------------------
(* auditSite *)

Capped(s) == IF cmd.maxSurfaces = NONE THEN s ELSE UpTo(s, cmd.maxSurfaces)
SurfaceId(k) == k

\* The end of scoutSite: surface.json, which names the site by its entry URL, and the
\* surfaces the audit goes on with.
WriteSurface ==
  /\ Scouted
  /\ LET all == Representatives(scout.pages)
         surfaces == [k \in DOMAIN all |-> [id |-> SurfaceId(k), url |-> all[k].url]]
     IN /\ Write("surface", [by |-> By, site |-> cmd.site, final |-> scout.final, surfaces |-> surfaces])
        /\ audit' = [audit EXCEPT !.surfaces = Capped(surfaces)]
  /\ pc' = "scan" /\ scout' = NewScout
  /\ UNCHANGED <<web, cmd, net, books, summary, change, learned, setup, ghosts>>

Pending == Len(audit.runs) < Len(audit.surfaces)
Current == audit.surfaces[Len(audit.runs) + 1]
OnHost(a) == a.ok /\ a.page.at # OFF

Replaced(set, record) == {x \in set : x.id # record.id} \cup {record}

\* scanUrl, its files written together at the end; an exception ends the audit.
Scan ==
  /\ pc = "scan" /\ Pending
  /\ \E a \in {Served(Current.url), FAILED} :
       /\ Goto(Current.url, a)
       /\ IF OnHost(a)
          THEN /\ Write("probes", Replaced(Own.probes,
                          [id |-> Current.id, by |-> By, results |-> a.page.results]))
               /\ scans' = scans \cup {[by |-> By, site |-> cmd.site, id |-> Current.id, at |-> a.page.at,
                                        results |-> a.page.results]}
               /\ IF cmd.journeys THEN pc' = "journey" /\ UNCHANGED audit
                  ELSE pc' = pc /\ audit' = [audit EXCEPT !.runs = Append(@, Current)]
          ELSE pc' = "failed" /\ UNCHANGED <<disk, scans, audit>>
  /\ UNCHANGED <<web, cmd, scout, books, summary, change, learned, setup, story, touched>>

\* runSafeJourneys on the page as it is loaded now. Once a journey left the page
\* its later steps may find nothing to act on and throw.
Journey ==
  /\ pc = "journey"
  /\ \E a \in {Served(Current.url), FAILED} :
       /\ Goto(Current.url, a)
       /\ IF OnHost(a)
          THEN LET run == RunSafeJourneys(a.page.dom)
               IN \E threw \in (IF run.left THEN BOOLEAN ELSE {FALSE}) :
                    /\ touched' = touched \cup {a.page.dom[i] : i \in run.acted}
                    /\ IF threw THEN pc' = "failed" /\ UNCHANGED <<disk, audit>>
                       ELSE /\ Write("journeys", Replaced(Own.journeys,
                                       [id |-> Current.id, by |-> By, results |-> run.results]))
                            /\ audit' = [audit EXCEPT !.runs = Append(@, Current),
                                 !.journeyRuns = @ \cup {[id |-> Current.id, results |-> run.results]}]
                            /\ pc' = "scan"
          ELSE pc' = "failed" /\ UNCHANGED <<disk, audit, touched>>
  /\ UNCHANGED <<web, cmd, scout, books, summary, change, learned, setup, story, scans>>

ThrottledPage ==
  /\ \/ pc = "scan" /\ Pending
     \/ pc = "journey"
  /\ Throttled
  /\ UNCHANGED <<web, pc, cmd, scout, mem, files, setup, ghosts>>

-----------------------------------------------------------------------------
(* triageSurfaceRuns *)

Reported == {"violation", "incomplete"}
Key(r) == <<r.probe, r.outcome>>

(* A mutated Loaded: every probe file of the output directory is read. *)
LoadedAll == Own.probes

\* Read back from the directories of the surfaces scanned.
Loaded == {p \in Own.probes : \E k \in DOMAIN audit.runs : audit.runs[k].id = p.id}

Hits(loaded) == UNION {[id : {p.id}, result : {r \in p.results : r.outcome \in Reported}] : p \in loaded}
Worst(hits) == CHOOSE h \in hits : \A o \in hits : ImpactRank[h.result.impact] >= ImpactRank[o.result.impact]
Occurrences(hits) == Cardinality(UNION {{h} \X (1..h.result.nodes) : h \in hits})

Grouped(loaded) ==
  [key \in {Key(h.result) : h \in Hits(loaded)} |->
    LET mine == {h \in Hits(loaded) : Key(h.result) = key}
    IN [impact |-> Worst(mine).result.impact, version |-> setup.version,
        affectedSurfaces |-> Cardinality({h.id : h \in mine}), occurrenceCount |-> Occurrences(mine)]]

Triage ==
  /\ pc = "scan" /\ ~Pending
  /\ Write("findings", [by |-> By, total |-> Len(audit.runs), findings |-> Grouped(Loaded)])
  /\ pc' = "manifest"
  /\ UNCHANGED <<web, cmd, net, scout, mem, summary, change, learned, setup, ghosts>>

\* audit-manifest.json and execution-policy.json
WriteManifest ==
  /\ pc = "manifest"
  /\ Write("manifest", [by |-> By, selectedSurfaces |-> Len(audit.runs),
                        findings |-> Cardinality(DOMAIN Own.findings.findings)])
  /\ pc' = IF cmd.report THEN "report" ELSE "return"
  /\ UNCHANGED <<web, cmd, net, scout, mem, summary, change, learned, setup, ghosts>>

\* buildSiteReport reads surface.json and findings.json back. The audit hands it no
\* journey runs, so its list of journeys is empty.
Repeated(fs) == {k \in DOMAIN fs : fs[k].affectedSurfaces > 1}
NeedsReview(fs) == {k \in DOMAIN fs : k[2] = "incomplete"}

WriteReport ==
  /\ pc = "report"
  /\ LET triage == Own.findings
     IN Write("report", [by |-> By, site |-> Own.surface.site,
          profile |-> setup.profile, totalSurfaces |-> triage.total,
          findings |-> triage.findings, repeated |-> Cardinality(Repeated(triage.findings)),
          needsReview |-> Cardinality(NeedsReview(triage.findings))])
  /\ pc' = "html"
  /\ UNCHANGED <<web, cmd, net, scout, mem, summary, change, learned, setup, ghosts>>

WriteHtml ==
  /\ pc = "html"
  /\ Write("html", [by |-> By])
  /\ pc' = "return"
  /\ UNCHANGED <<web, cmd, net, scout, mem, summary, change, learned, setup, ghosts>>

\* A probe file, the profile or the sources registry cannot be read, or a file not be
\* written: the files before it stay as they are.
AuditThrows ==
  /\ Scouted \/ (pc = "scan" /\ ~Pending) \/ pc \in {"manifest", "report", "html"}
  /\ mishaps < MaxMishaps /\ mishaps' = mishaps + 1
  /\ pc' = "failed"
  /\ UNCHANGED <<web, cmd, tries, pace, scout, mem, files, setup, ghosts>>

-----------------------------------------------------------------------------
(* runCohort, and the end of a command *)

\* One line per family key and site; families of the summary are formed from them.
Lines(key, n) == [key |-> key, name |-> Name[cmd.site], site |-> cmd.site, n |-> n]
IssueLines(report) == {Lines(k, report.findings[k].occurrenceCount) : k \in DOMAIN report.findings}
JourneyLines ==
  LET keys == {<<j, r.results[j]>> : r \in audit.journeyRuns, j \in {"keyboard_focus", "skip_link", "expandable", "dialog"}}
      real == {k \in keys : \E r \in audit.journeyRuns : r.results[k[1]] = k[2]}
  IN {Lines(k, Cardinality({r \in audit.journeyRuns : r.results[k[1]] = k[2]})) : k \in real}

Pass(report) == [site |-> cmd.site, status |-> "PASS", findings |-> Cardinality(DOMAIN report.findings),
                 selectedSurfaces |-> Len(audit.runs)]

NextSite ==
  IF cmd.site = Len(Cohort) THEN pc' = "summary" /\ UNCHANGED cmd
  ELSE pc' = "site" /\ cmd' = [cmd EXCEPT !.site = @ + 1]

SitePasses ==
  /\ pc = "return" /\ cmd.kind = "cohort"
  /\ LET report == Own.report
     IN books' = [entries |-> Append(books.entries, Pass(report)),
                  issues |-> books.issues \cup IssueLines(report), journeys |-> books.journeys \cup JourneyLines]
  /\ NextSite
  /\ audit' = NewAudit
  /\ UNCHANGED <<web, net, scout, files, setup, ghosts>>

\* A site's failure must not fail the cohort.
SiteFails ==
  /\ pc = "failed" /\ cmd.kind = "cohort"
  /\ books' = [books EXCEPT !.entries = Append(@, [site |-> cmd.site, status |-> "ERROR"])]
  /\ NextSite
  /\ scout' = NewScout /\ audit' = NewAudit
  /\ UNCHANGED <<web, net, files, setup, ghosts>>

Total(lines) == MapThenSumSet(LAMBDA l : l.n, lines)
Families(lines) ==
  {[key |-> k, municipalities |-> {l.name : l \in {x \in lines : x.key = k}},
    count |-> Total({x \in lines : x.key = k})] : k \in {l.key : l \in lines}}

End(verdict) ==
  /\ pc' = "idle" /\ cmd' = NONE /\ scout' = NewScout /\ audit' = NewAudit /\ books' = NewBooks
  /\ tries' = First /\ pace' = NONE
  /\ story' = [story EXCEPT ![By].ended = verdict]

\* summary.json last; `partial` when a site failed.
WriteSummary ==
  /\ pc = "summary"
  /\ summary' = [summary EXCEPT ![cmd.dir] =
       [by |-> By, entries |-> books.entries, issues |-> Families(books.issues), journeys |-> Families(books.journeys)]]
  /\ End(IF \E k \in DOMAIN books.entries : books.entries[k].status = "ERROR" THEN "partial" ELSE "end")
  /\ UNCHANGED <<web, mishaps, disk, change, learned, setup, scans, touched>>

EndAudit ==
  /\ cmd # NONE /\ cmd.kind = "audit"
  /\ \/ pc = "return" /\ End("end")
     \/ pc = "failed" /\ End("partial")
  /\ UNCHANGED <<web, mishaps, files, setup, scans, touched>>

\* The process is killed: its last event is the one it started with.
Crash ==
  /\ pc # "idle" /\ mishaps < MaxMishaps
  /\ mishaps' = mishaps + 1
  /\ End("start")
  /\ UNCHANGED <<web, files, setup, scans, touched>>

-----------------------------------------------------------------------------
(* compareSiteReports: findings by probe and outcome *)

(* A mutated StateOf: a finding that got worse is reported as new. *)
StateOfWorse(p, c, k) ==
  LET before == k \in DOMAIN p.findings
      after == k \in DOMAIN c.findings
  IN IF p.profile # c.profile THEN "NOT_COMPARABLE"
     ELSE IF before /\ after
          THEN IF p.findings[k].occurrenceCount < c.findings[k].occurrenceCount THEN "NEW" ELSE "PERSISTING"
     ELSE IF after THEN "NEW" ELSE "RESOLVED"

StateOf(p, c, k) ==
  LET before == k \in DOMAIN p.findings
      after == k \in DOMAIN c.findings
  IN IF p.profile # c.profile THEN "NOT_COMPARABLE"
     ELSE IF before /\ after THEN IF p.findings[k].version # c.findings[k].version THEN "RULE_CHANGED" ELSE "PERSISTING"
     ELSE IF after THEN "NEW" ELSE "RESOLVED"

Watch ==
  /\ pc = "idle" /\ change = NONE
  /\ \E d, e \in Dirs, f \in Folders :
       LET p == disk[d][f].report
           c == disk[e][f].report
       IN /\ d # e /\ p # Absent /\ p.by < c.by
          /\ change' = [previous |-> [by |-> p.by, site |-> p.site], current |-> [by |-> c.by, site |-> c.site],
                        changes |-> [k \in DOMAIN p.findings \cup DOMAIN c.findings |-> StateOf(p, c, k)]]
  /\ UNCHANGED <<web, pc, cmd, net, scout, mem, disk, summary, learned, setup, ghosts>>

(* mineCandidates *)
Recurring(family) == Cardinality(family.municipalities) >= MinMunicipalities
Candidates(s) ==
  {[source |-> IF f.key[2] = "incomplete" THEN "repeated_incomplete" ELSE "remediation_pattern", key |-> f.key] :
     f \in {g \in s.issues : Recurring(g) /\ g.count >= MinOccurrences}}
  \cup {[source |-> "journey_gap", key |-> f.key] :
     f \in {g \in s.journeys : g.key[2] = "incomplete" /\ Recurring(g) /\ g.count >= MinMunicipalities}}

Learn ==
  /\ pc = "idle" /\ learned = NONE
  /\ \E d \in Dirs :
       /\ summary[d] # Absent
       /\ learned' = [by |-> summary[d].by, candidates |-> Candidates(summary[d])]
  /\ UNCHANGED <<web, pc, cmd, net, scout, mem, disk, summary, change, setup, ghosts>>

-----------------------------------------------------------------------------
(* What changes around the commands *)

EditSite ==
  /\ mishaps < MaxMishaps /\ By < MaxCommands + (IF pc = "idle" THEN 0 ELSE 1)
  /\ mishaps' = mishaps + 1
  /\ \E s \in Sites : \E c \in Serves[s] \ {web[s]} : web' = [web EXCEPT ![s] = c]
  /\ UNCHANGED <<pc, cmd, tries, pace, scout, mem, files, setup, ghosts>>

\* A new scanner is installed, or another profile chosen, between two commands.
Reconfigure ==
  /\ pc = "idle" /\ By = 1 /\ mishaps < MaxMishaps
  /\ mishaps' = mishaps + 1
  /\ \E v \in Versions, p \in Profiles : setup' = [version |-> v, profile |-> p] /\ setup' # setup
  /\ UNCHANGED <<web, pc, cmd, tries, pace, scout, mem, files, ghosts>>

Auditing == WriteSurface \/ Scan \/ Journey \/ ThrottledPage \/ Triage \/ WriteManifest \/ WriteReport \/ WriteHtml
            \/ AuditThrows
Running == StartSite \/ DoScout \/ Auditing \/ SitePasses \/ SiteFails \/ WriteSummary \/ EndAudit

Next == Running \/ StartCommand \/ Crash \/ Watch \/ Learn \/ EditSite \/ Reconfigure

Spec == Init /\ [][Next]_vars

-----------------------------------------------------------------------------
(* Properties *)

SurfaceFile == [by : 1..By, site : Sites, final : Nat, surfaces : Seq([id : Nat, url : Nat])]
Finding == [impact : DOMAIN ImpactRank, version : Versions, affectedSurfaces : Nat, occurrenceCount : Nat]

\* Stages, options and files have their types; at most MaxPages pages are kept.
TypeOK ==
  /\ web \in [Sites -> DOMAIN Contents]
  /\ pc \in {"idle", "site", "robots", "sitemaps", "visit", "scan", "journey", "manifest", "report", "html",
              "return", "failed", "summary"}
  /\ (pc = "idle") = (cmd = NONE)
  /\ mishaps \in 0..MaxMishaps /\ By <= MaxCommands
  /\ Len(scout.pages) <= MaxPages /\ Cardinality(scout.visited) <= MaxSitemaps
  /\ Len(audit.runs) <= Len(audit.surfaces)
  /\ \A d \in Dirs, f \in Folders :
       /\ disk[d][f].surface # Absent => disk[d][f].surface \in SurfaceFile
       /\ disk[d][f].findings # Absent =>
            \A k \in DOMAIN disk[d][f].findings.findings : disk[d][f].findings.findings[k] \in Finding

Saw(by, s, k) == \E c \in scans : c.by = by /\ c.site = s /\ \E r \in c.results : r.outcome \in Reported /\ Key(r) = k
SeenOn(by, s, k) == {c.id : c \in {x \in scans : /\ x.by = by /\ x.site = s
                                                /\ \E r \in x.results : r.outcome \in Reported /\ Key(r) = k}}
AllKeys == {Key(r) : r \in {q \in UNION {c.results : c \in scans} : q.outcome \in Reported}}

\* Nothing was started in the directory since command `by`.
LastIn(d, by) == \A i \in (by + 1)..By : story[i].dir # d

\* What the directory of an id holds is a report command `by` made there, of one of the
\* sites of that id, and what it says is what the scans of that site saw.
ReportOfRun(d, id, by) ==
  LET own == disk[d][id]
      site == own.report.site
  IN /\ own.report.by = by /\ own.html.by = by /\ Cohort[site] = id
     /\ DOMAIN own.report.findings = {k \in AllKeys : Saw(by, site, k)}
     /\ \A k \in DOMAIN own.report.findings :
          own.report.findings[k].affectedSurfaces = Cardinality(SeenOn(by, site, k))

\* What a cohort says is what its own scans saw, although its directories hold files
\* of earlier and of interrupted commands: every site has one entry, a site that
\* passed links a report of this run and of its own id, the families name exactly the
\* municipalities where this run saw the finding, also where two sites share an id and
\* with it a directory, and a candidate mined from them recurs.
AggregatesAreHonest ==
  /\ \A i \in 1..By : story[i].kind = "cohort" /\ story[i].ended # "start" /\ LastIn(story[i].dir, i) =>
       LET d == story[i].dir
           s == summary[d]
           passed == {e.site : e \in {x \in ToSet(s.entries) : x.status = "PASS"}}
       IN /\ s.by = i
          /\ [k \in DOMAIN s.entries |-> s.entries[k].site] = [k \in Sites |-> k]
          /\ (story[i].ended = "end") = (passed = Sites)
          /\ \A site \in passed : ReportOfRun(d, Cohort[site], i)
          /\ {f.key : f \in s.issues} = {k \in AllKeys : \E site \in passed : Saw(i, site, k)}
          /\ \A f \in s.issues : f.municipalities = {Name[site] : site \in {x \in passed : Saw(i, x, f.key)}}
  /\ learned # NONE => \A c \in learned.candidates : c.source # "journey_gap" =>
       Cardinality({Name[s] : s \in {x \in Sites : Saw(learned.by, x, c.key)}}) >= MinMunicipalities

\* What two runs tell of a finding, by what they saw and what they ran with.
Verdict(p, c, k) ==
  LET before == story[p.by].setup
      after == story[c.by].setup
  IN IF before.profile # after.profile THEN "NOT_COMPARABLE"
     ELSE IF ~Saw(p.by, p.site, k) THEN "NEW"
     ELSE IF ~Saw(c.by, c.site, k) THEN "RESOLVED"
     ELSE IF before.version # after.version THEN "RULE_CHANGED" ELSE "PERSISTING"

\* WATCH follows the scans behind the two reports and the scanner and profile they ran
\* with: what either run saw is listed, as new when only the later one saw it, as
\* resolved when only the earlier one did, as a changed rule when both saw it with
\* different scanners, and as not comparable exactly when the profile was another one.
WatchIsHonest ==
  change # NONE =>
    LET p == change.previous
        c == change.current
    IN /\ DOMAIN change.changes = {k \in AllKeys : Saw(p.by, p.site, k) \/ Saw(c.by, c.site, k)}
       /\ \A k \in DOMAIN change.changes : change.changes[k] = Verdict(p, c, k)

\* Requests to a host are the policy's delay apart, across seeds, scouting, scanning and
\* journeys and also where the cap on a backoff is below that delay; what the host
\* asked for is slept up to the cap; a URL is tried maxRetries + 1 times at most.
Paced ==
  pace # NONE =>
    /\ pace.gap >= cmd.policy.delay
    /\ pace.gap >= Least(pace.asked, cmd.policy.maxBackoff)
    /\ pace.tries <= cmd.policy.maxRetries + 1

\* No journey acts on anything but a safe target.
JourneysStaySafe == \A e \in touched : Safe(e)
=============================================================================
