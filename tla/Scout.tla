-------------------------------- MODULE Scout --------------------------------
(* Discovery of one site (scout/seeds.ts, scout.ts, sample.ts) and the host  *)
(* policy every navigation of an audit obeys (network-policy.ts,             *)
(* control-center/execution-policy.ts). URLs are numbers, compared as        *)
(* numbers; 0 is any URL of another host. What a site serves is a record of  *)
(* robots.txt, sitemaps and pages; a location in them is [type, url], type   *)
(* "page", "xml", "pdf", "off" (not eligible) or "broken" (eligible, but     *)
(* normalizing or scoring it throws). Classification is the page's kind.     *)
EXTENDS Naturals, FiniteSets, SequencesExt, FiniteSetsExt

CONSTANTS
  NONE,
  Contents,       \* what a site may serve, by name
  Score,          \* candidateScore of a URL
  Sitemaps,       \* the two default sitemap locations
  MaxPages,
  MaxSitemaps,    \* 12
  MaxSeeds,
  MaxPerKind,     \* 2
  FetchTimeout,   \* after how long a fetch of robots.txt or a sitemap is aborted
  RetryAfters,    \* what a Retry-After header may ask for; NONE: no header
  MaxMishaps      \* bound on everything that goes wrong or changes

ROBOTS == 10
ENTRY == 1
OFF == 0
FAILED == [ok |-> FALSE]   \* an exception, no response, or a status of 400 and more

VARIABLES
  web,      \* the name of what each site serves now
  mishaps,
  pc,
  cmd,      \* the command's options and the site at hand, or NONE
  tries,    \* the attempt of the navigation at hand and the backoff slept before it
  pace,     \* the time slept before the last request, and what the host had asked for
  scout     \* the memory of scoutSite

net == <<mishaps, tries, pace>>
Here == Contents[web[cmd.site]]

-----------------------------------------------------------------------------
(* The host policy *)

Least(a, b) == IF a < b THEN a ELSE b
Most(a, b) == IF a > b THEN a ELSE b

\* backoffDecision: the cap is applied last.
Backoff(policy, attempt, asked) ==
  Least(policy.maxBackoff,
        Most(policy.delay, IF asked # NONE THEN asked ELSE policy.base * 2 ^ attempt))

First == [attempt |-> 0, wait |-> 0, asked |-> 0]
(* A mutated Slept: a retry sleeps the backoff only. *)
SleptBackoff == IF tries.attempt = 0 THEN cmd.policy.delay ELSE tries.wait
Slept == tries.wait + cmd.policy.delay
Requested == pace' = IF cmd.policy = NONE THEN pace ELSE [gap |-> Slept, asked |-> tries.asked, tries |-> tries.attempt + 1]

\* The timer of a fetch runs while the policy's delay is slept.
TimedOut == pc \in {"robots", "sitemaps"} /\ cmd.policy # NONE /\ cmd.policy.delay >= FetchTimeout

Served(u) ==
  IF TimedOut THEN FAILED
  ELSE IF pc = "robots" THEN [ok |-> TRUE, text |-> Here.robots]
  ELSE IF pc = "sitemaps" THEN (IF u \in DOMAIN Here.sitemaps THEN [ok |-> TRUE, text |-> Here.sitemaps[u]] ELSE FAILED)
  ELSE IF u \in DOMAIN Here.pages THEN [ok |-> TRUE, page |-> Here.pages[u]] ELSE FAILED

\* A navigation or fetch that ends with answer a, for good.
Goto(u, a) ==
  /\ mishaps' = mishaps + (IF a = Served(u) THEN 0 ELSE 1)
  /\ mishaps' <= MaxMishaps
  /\ tries' = First
  /\ IF TimedOut THEN UNCHANGED pace ELSE Requested

\* 429 or 503 while the retry budget lasts.
Throttled ==
  /\ cmd.policy # NONE /\ ~TimedOut
  /\ tries.attempt < cmd.policy.maxRetries
  /\ mishaps < MaxMishaps
  /\ mishaps' = mishaps + 1
  /\ Requested
  /\ \E asked \in RetryAfters :
       tries' = [attempt |-> tries.attempt + 1, wait |-> Backoff(cmd.policy, tries.attempt, asked),
                 asked |-> IF asked = NONE THEN 0 ELSE asked]

-----------------------------------------------------------------------------
(* discoverSeedUrls *)

AddNew(s, x) == IF Contains(s, x) THEN s ELSE Append(s, x)
Eligible(locs) == SelectSeq(locs, LAMBDA l : l.type # "off")
NewScout == [pending |-> <<>>, visited |-> {}, found |-> <<>>, queue |-> {}, queued |-> {}, pages |-> <<>>, final |-> ENTRY]

ReadRobots ==
  /\ pc = "robots"
  /\ \E a \in {Served(ROBOTS), FAILED} :
       /\ Goto(ROBOTS, a)
       /\ scout' = [scout EXCEPT !.pending =
            FoldLeft(AddNew, <<>>, Eligible((IF a.ok THEN a.text ELSE <<>>) \o Sitemaps))]
  /\ pc' = "sitemaps"
  /\ UNCHANGED <<web, cmd>>

SeedsWanted == scout.pending # <<>> /\ Cardinality(scout.visited) < MaxSitemaps /\ Len(scout.found) < MaxSeeds

\* One location of a sitemap; acc.threw ends discoverSeedUrls, acc.full this sitemap.
TakeLocation(acc, l) ==
  IF acc.threw \/ acc.full THEN acc
  ELSE CASE l.type = "broken" -> [acc EXCEPT !.threw = TRUE]
         [] l.type = "xml" -> IF l.url \in acc.visited THEN acc ELSE [acc EXCEPT !.pending = AddNew(@, l)]
         [] l.type = "page" -> IF Len(acc.found) >= MaxSeeds THEN [acc EXCEPT !.full = TRUE]
                              ELSE [acc EXCEPT !.found = AddNew(@, l.url)]
         [] OTHER -> acc

VisitSitemap ==
  /\ pc = "sitemaps" /\ SeedsWanted
  /\ Head(scout.pending).type # "broken"
  /\ LET u == Head(scout.pending).url
         rest == [pending |-> Tail(scout.pending), visited |-> scout.visited \cup {u}, found |-> scout.found,
                  threw |-> FALSE, full |-> FALSE]
     IN \E a \in {Served(u), FAILED} :
          /\ Goto(u, a)
          /\ LET r == FoldLeft(TakeLocation, rest, IF a.ok THEN Eligible(a.text) ELSE <<>>)
             IN /\ scout' = [scout EXCEPT !.pending = r.pending, !.visited = rest.visited, !.found = r.found]
                /\ pc' = IF r.threw THEN "failed" ELSE pc
  /\ UNCHANGED <<web, cmd>>

\* A sitemap robots.txt advertised with an address that cannot be normalized.
BrokenSitemap ==
  /\ pc = "sitemaps" /\ SeedsWanted
  /\ Head(scout.pending).type = "broken"
  /\ pc' = "failed"
  /\ UNCHANGED <<web, cmd, net, scout>>

-----------------------------------------------------------------------------
(* scoutSite *)

\* A seed is worth more than a link.
SeedBonus == 3

Queued(urls, depth, from, bonus) ==
  {[url |-> urls[k], depth |-> depth, score |-> Score[urls[k]] + bonus, order |-> from + k] : k \in DOMAIN urls}

SeedQueue ==
  /\ pc = "sitemaps" /\ ~SeedsWanted
  /\ LET seeds == SelectSeq(scout.found, LAMBDA u : u # ENTRY)
     IN scout' = [scout EXCEPT
          !.queue = {[url |-> ENTRY, depth |-> 0, score |-> 1000, order |-> 0]} \cup Queued(seeds, 1, 0, SeedBonus),
          !.queued = {ENTRY} \cup ToSet(seeds), !.pending = <<>>, !.found = <<>>, !.visited = {}]
  /\ pc' = "visit"
  /\ UNCHANGED <<web, cmd, net>>

Before(a, b) == \/ a.score > b.score
                \/ a.score = b.score /\ a.depth < b.depth
                \/ a.score = b.score /\ a.depth = b.depth /\ a.order < b.order
\* What the sorted queue begins with.
Foremost == {q \in scout.queue : \A o \in scout.queue : ~Before(o, q)}
(* A mutated Visiting: the bound on pages is off by one. *)
VisitingOneMore == pc = "visit" /\ scout.queue # {} /\ Len(scout.pages) <= MaxPages
Visiting == pc = "visit" /\ scout.queue # {} /\ Len(scout.pages) < MaxPages

\* Links of a page, up to one whose score throws: that one counts as queued and never is.
TakeLink(acc, l) ==
  IF acc.threw \/ l.url \in acc.queued THEN acc
  ELSE IF l.type = "broken" THEN [acc EXCEPT !.threw = TRUE, !.queued = @ \cup {l.url}]
  ELSE [acc EXCEPT !.new = Append(@, l.url), !.queued = @ \cup {l.url}]

Links(q, page) ==
  IF q.depth < cmd.maxDepth
  THEN FoldLeft(TakeLink, [new |-> <<>>, queued |-> scout.queued, threw |-> FALSE], Eligible(page.links))
  ELSE [new |-> <<>>, queued |-> scout.queued, threw |-> FALSE]

InternalLinks(page) == {k \in DOMAIN page.links : page.links[k].type # "off"}

\* A page that was reached: its links are queued, and it is kept.
Inspected(next, page) ==
  LET taken == Links(next, page)
  IN [scout EXCEPT
       !.queue = (@ \ {next}) \cup Queued(taken.new, next.depth + 1, Cardinality(scout.queued), 0),
       !.queued = taken.queued,
       !.final = IF next.depth = 0 THEN page.at ELSE @,
       !.pages = Append(@, [url |-> page.at, depth |-> next.depth,
         kind |-> IF next.depth = 0 THEN "home" ELSE page.kind,
         fingerprint |-> page.fingerprint, internalLinks |-> Cardinality(InternalLinks(page))])]

\* A queued URL was never seen before: that test of the loop is left out.
\* A page that fails, or ends on another host, is passed over in silence.
Visit ==
  /\ Visiting
  /\ \E next \in Foremost : \E a \in {Served(next.url), FAILED} :
       /\ next.depth <= cmd.maxDepth
       /\ Goto(next.url, a)
       /\ scout' = IF ~a.ok \/ (a.ok /\ a.page.at = OFF) THEN [scout EXCEPT !.queue = @ \ {next}]
                   ELSE Inspected(next, a.page)
  /\ UNCHANGED <<web, pc, cmd>>

\* A seed of a scan that may not leave the entry page.
TooDeep ==
  /\ Visiting
  /\ \E next \in Foremost : next.depth > cmd.maxDepth /\ scout' = [scout EXCEPT !.queue = @ \ {next}]
  /\ UNCHANGED <<web, pc, cmd, net>>

ThrottledFetch ==
  /\ \/ pc = "robots"
     \/ pc = "sitemaps" /\ SeedsWanted /\ Head(scout.pending).type # "broken"
     \/ Visiting /\ \E next \in Foremost : next.depth <= cmd.maxDepth
  /\ Throttled
  /\ UNCHANGED <<web, pc, cmd, scout>>

Scouting == ReadRobots \/ VisitSitemap \/ BrokenSitemap \/ SeedQueue \/ Visit \/ TooDeep \/ ThrottledFetch
Scouted == pc = "visit" /\ ~Visiting

-----------------------------------------------------------------------------
(* selectRepresentativeSurfaces *)

Priority == <<"home", "form", "search", "directory", "service", "article", "unknown">>

Place(kind) == CHOOSE i \in DOMAIN Priority : Priority[i] = kind

\* By kind, then as within a kind.
Ranked(p, q) ==
  \/ Place(p.kind) < Place(q.kind)
  \/ /\ p.kind = q.kind
     /\ \/ p.depth < q.depth
        \/ p.depth = q.depth /\ p.internalLinks > q.internalLinks
        \/ p.depth = q.depth /\ p.internalLinks = q.internalLinks /\ p.url < q.url

\* The sort is stable.
Ahead(pages, i, j) == Ranked(pages[i], pages[j]) \/ (~Ranked(pages[j], pages[i]) /\ i < j)

\* At most MaxPerKind pages of a kind, the first of each fingerprint within the kind.
Sampled(pages) ==
  LET listed == {i \in DOMAIN pages : pages[i].kind \in ToSet(Priority)}
      rivals(i) == {j \in listed : pages[j].kind = pages[i].kind /\ Ahead(pages, j, i)}
      first == {i \in listed : \A j \in rivals(i) : pages[j].fingerprint # pages[i].fingerprint}
  IN {i \in first : Cardinality(rivals(i) \cap first) < MaxPerKind}

Representatives(pages) ==
  LET chosen == Sampled(pages)
  IN [k \in 1..Cardinality(chosen) |->
       pages[CHOOSE i \in chosen : Cardinality({j \in chosen : Ahead(pages, j, i)}) = k - 1]]
=============================================================================
