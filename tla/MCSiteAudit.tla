----------------------------- MODULE MCSiteAudit -----------------------------
EXTENDS SiteAudit

L(type, url) == [type |-> type, url |-> url]
R(probe, outcome, impact, nodes) == [probe |-> probe, outcome |-> outcome, impact |-> impact, nodes |-> nodes]
E(kind, form, focusable, expanded, to, dialog, target) ==
  [kind |-> kind, form |-> form, focusable |-> focusable, shows |-> TRUE, expanded |-> expanded,
   toggles |-> expanded # "none", to |-> to, dialog |-> dialog, target |-> target]
P(at, kind, fingerprint, links, results, dom) ==
  [at |-> at, kind |-> kind, fingerprint |-> fingerprint, links |-> links, results |-> results, dom |-> dom]

\* A page whose widgets keep the focus to themselves, and one with a menu button that
\* moves the focus to its first entry, a link.
Tame == <<E("fragment", FALSE, TRUE, "none", 0, "none", "main"), E("button", FALSE, TRUE, "false", 0, "none", "none"),
          E("button", FALSE, TRUE, "none", 0, "managed", "none"), E("submit", TRUE, TRUE, "none", 0, "none", "none")>>
Menu == <<E("button", FALSE, TRUE, "false", 2, "none", "none"), E("link", FALSE, TRUE, "none", 0, "none", "none")>>
Bare == <<E("widget", FALSE, FALSE, "none", 0, "silent", "none")>>

Contrast == R("contrast", "violation", "serious", 2)
Home(links, results, dom) == P(1, "unknown", "f1", links, results, dom)

Rich == [robots |-> <<L("xml", 11), L("off", 0)>>,
         sitemaps |-> [u \in {11, 12} |-> IF u = 12 THEN <<L("page", 4)>>
                                          ELSE <<L("page", 2), L("pdf", 9), L("xml", 12)>>],
         pages |-> [u \in 1..5 |->
           CASE u = 1 -> Home(<<L("page", 2), L("page", 3), L("page", 5)>>, {Contrast, R("alt", "pass", "minor", 3)}, Tame)
             [] u = 2 -> P(2, "service", "f2", <<>>, {R("contrast", "violation", "minor", 1), R("alt", "incomplete", "minor", 1)}, Bare)
             [] u = 3 -> P(OFF, "unknown", "f3", <<>>, {}, <<>>)
             [] OTHER -> P(u, "service", IF u = 4 THEN "f2" ELSE "f5", <<>>, {R("alt", "incomplete", "minor", 1)}, <<>>)]]
\* Page 2 redirects to the entry page.
Plain == [robots |-> <<>>, sitemaps |-> [u \in {} |-> <<>>],
          pages |-> [u \in {1, 2} |-> Home(<<L("page", 2), L("broken", 5), L("page", 6)>>,
                                            {Contrast, R("alt", "incomplete", "minor", 2)}, Bare)]]
Broken == [robots |-> <<L("broken", 13)>>, sitemaps |-> [u \in {11} |-> <<>>],
           pages |-> [u \in {1} |-> Home(<<>>, {}, Bare)]]
Misprint == [Plain EXCEPT !.sitemaps = [u \in {11} |-> <<L("broken", 7)>>]]
Wild == [Plain EXCEPT !.pages = [u \in {1} |-> Home(<<>>, {}, Menu)]]

MCContents == [rich |-> Rich, plain |-> Plain, broken |-> Broken, misprint |-> Misprint, wild |-> Wild]
MCStarts == <<"rich", "broken", "plain">>
MCServes == <<{"rich", "misprint"}, {"broken", "wild"}, {"plain", "broken"}>>
MCWildStarts == <<"wild", "wild", "wild">>
MCScore == [u \in 0..20 |-> IF u = 3 THEN 8 ELSE 0]
MCSitemaps == <<L("xml", 11)>>
MCCohort == <<"x", "y", "x">>
MCName == <<"A", "B", "C">>
MCImpactRank == [minor |-> 2, moderate |-> 3, serious |-> 4]
MCRetryAfters == {NONE, 3}
MCDirs == {1, 2}

Slow == [delay |-> 2, maxRetries |-> 1, base |-> 1, maxBackoff |-> 1]
VerySlow == [delay |-> 5, maxRetries |-> 0, base |-> 1, maxBackoff |-> 9]
O(kind, policy, journeys, report, depth, surfaces) ==
  [kind |-> kind, policy |-> policy, journeys |-> journeys, report |-> report, maxDepth |-> depth,
   maxSurfaces |-> surfaces, dir |-> 0, site |-> 1]
MCSettings == {O("cohort", NONE, TRUE, TRUE, 1, 2), O("audit", Slow, FALSE, TRUE, 1, NONE),
               O("audit", VerySlow, FALSE, FALSE, 1, NONE), O("audit", NONE, TRUE, FALSE, 0, NONE)}
MCWildSettings == {O("audit", NONE, TRUE, TRUE, 1, NONE)}
=============================================================================
