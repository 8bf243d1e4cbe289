------------------------- MODULE MCAcquisitionRouter -------------------------
(* Small instances of AcquisitionRouter: the sources' collectors and pages. *)
EXTENDS AcquisitionRouter

\* A source read over HTTP only (SpiceJet): homepage and, here, a second page.
HttpChain == <<"html", "json">>
HttpUrls  == [c \in {"html", "json"} |-> <<"home", "route">>]

\* A source with a feed and a browser session (Akasa), without the embedded
\* JSON, which requests what the HTML does.
KindsChain == <<"feed", "html", "network", "dom">>
KindsUrls  == [c \in {"feed", "html"} |-> IF c = "feed" THEN <<"sitemap">> ELSE <<"home">>]

\* The paths of robots.txt, "/" being every page.
MCMatches == [p \in {"/", "/route", "/home"} |->
                CASE p = "/"      -> Urls
                  [] p = "/route" -> {"route"} \cap Urls
                  [] p = "/home"  -> {"home"}]

\* One that forbids nothing; one that lists a page; two that forbid a page
\* without listing it, to us alone or to several agents; and one that forbids
\* everything.
OpenRobots    == Readable(<<Agent("*")>>)
ListedRobots  == Readable(<<Agent("*"), Disallow("/route")>>)
OursRobots    == Readable(<<Agent("us"), Disallow("/home"), Agent("*")>>)
SharedRobots  == Readable(<<Agent("*"), Agent("other"), Disallow("/home")>>)
ClosedRobots  == Readable(<<Agent("*"), Disallow("/")>>)
HttpRobots    == {OpenRobots, ListedRobots, Unreadable}
KindsRobots   == {OpenRobots, OursRobots, SharedRobots, ClosedRobots}

\* The egress: the direct node alone, as seeded; or two proxies before it, with
\* a sticky session.
DirectOnly   == <<"direct">>
ProxiesFirst == <<"direct", "east", "west">>
MCRegion     == [n \in NodeIds |-> n]
SeededPolicy == [enabled |-> TRUE, mode |-> "direct", sticky |-> FALSE, preferred |-> "",
                 allowed |-> {}, strategy |-> "none"]
StickyPolicy == [enabled |-> TRUE, mode |-> "proxy_pool", sticky |-> TRUE, preferred |-> "",
                 allowed |-> {"east", "west"}, strategy |-> "least_loaded"]

\* The circuits at the start: all closed, or that of the HTTP collector that
\* reads the homepage opened by its errors in earlier runs.
NoneOpen == {{}}
HtmlOpen == {{}, {"html"}}

\* One of each that the collectors treat differently.
FewReplies ==
  {[code |-> 200, text |-> "fares"], [code |-> 200, text |-> "plain"],
   [code |-> 403, text |-> "plain"], [code |-> 429, text |-> "plain"],
   [code |-> 503, text |-> "plain"], [code |-> 503, text |-> "challenge"]}

\* And refusals that only the text, or only the code, tells.
MoreReplies ==
  FewReplies \union {[code |-> 200, text |-> "challenge"], [code |-> 404, text |-> "denial"],
                     [code |-> 429, text |-> "denial"]}
=============================================================================
