-------------------------- MODULE AcquisitionRouter --------------------------
(***************************************************************************)
(* Runs of the acquisition router against one live source, one after the   *)
(* other: the ranked collectors, each with bounded retries, their requests *)
(* to the source through the page cache and the browser session, egress    *)
(* failover, the circuit breaker, and the release of the lease.            *)
(*                                                                         *)
(* The source answers each request as it likes, or not at all; the lease   *)
(* may expire at any moment; a collector may raise.  Within a browser      *)
(* session the responses arrive through a callback, in any order with the  *)
(* session's own steps.  A run is one job: it has a container of its own,  *)
(* and with it an empty page cache and no browser capture, and it begins   *)
(* by reading robots.txt anew, whatever is known of the source.            *)
(***************************************************************************)
EXTENDS SourcePages, RobotsRules, AdapterCircuit, EgressPool, FiniteSets

CONSTANTS
  Chain,              \* the source's collectors, in default modality order
  Preferred,          \* the source's preferred_adapter
  UrlsOf,             \* the pages of each HTTP collector, in order
  StartUrl,           \* the page a browser session starts on
  SeededPaths,        \* blocked_paths of the source's policy, as seeded
  RobotsFiles,        \* what its robots.txt may be read as
  Replies,            \* pages the source may answer with
  MaxAdapterRetries,  \* max_adapter_retries
  OpenAtFirst,        \* sets of collectors whose circuits earlier runs may have opened
  MaxRuns             \* bound on the runs explored

\* Collectors by what they do; "feed" reads its page differently.
Collectors == {Chain[i] : i \in DOMAIN Chain}
Browsers   == {"network", "dom"}

ASSUME RouterAssumption ==
  /\ Chain \in Seq({"feed", "html", "json", "network", "dom"})
  /\ \A i, j \in DOMAIN Chain : Chain[i] = Chain[j] => i = j
  /\ Preferred \in Collectors
  /\ \A c \in Collectors \ Browsers : \A i, j \in DOMAIN UrlsOf[c] :
       UrlsOf[c][i] = UrlsOf[c][j] => i = j    \* landing_urls drops repetitions
  /\ UrlsOf \in [Collectors \ Browsers -> Seq(Urls) \ {<<>>}]
  /\ StartUrl \in Urls /\ Matches \in [DOMAIN Matches -> SUBSET Urls]
  /\ SeededPaths \subseteq DOMAIN Matches
  /\ \A robots \in RobotsFiles : DisallowPaths(robots.lines) \subseteq DOMAIN Matches
  /\ Replies \subseteq {p \in Page : p.code # 0}
  /\ MaxAdapterRetries \in Nat
  /\ OpenAtFirst \subseteq SUBSET Collectors
  /\ MaxRuns \in Nat

VARIABLES
  pc,          \* where the run is
  queue,       \* collectors still to try; the head is being tried
  retries,     \* retries of the head so far
  lease,       \* the compliance lease is valid
  blockedPaths, \* blocked_paths of the source's policy
  disallowed,  \* URLs the run's robots snapshot and the path policy exclude
  pages,       \* the HTTP client's page cache
  landing,     \* URLs the current attempt has still to read
  lastStop,    \* last_stop: the last page error of the attempt, or NoStop
  browse,      \* the open browser session
  capture,     \* the browser capture of this query, or NoCapture
  egress,      \* the egress selection: its node and failover_count
  pool,        \* the egress nodes
  session,     \* the node of the source's active egress session, or NoNode
  result,      \* what the last run returned
  profile,     \* the circuits as the run's profile has them
  circuit,     \* source_adapter_stats
  lastSuccess, \* last_successful_adapter
  restricted,  \* sources.temporarily_blocked
  cooldown,    \* the rate window's cooldown after a 429 is in the future
  inFlight,    \* in_flight of the rate window
  runs,        \* runs started (bounded by MaxRuns)
  refused,     \* history: the source has rejected automated access
  limited,     \* history: it has answered 429 in this run
  asks,        \* history: requests per URL in this run
  opened,      \* history: browser sessions opened in this run
  seen,        \* history: what the current attempt's requests met
  listed,      \* history: URLs that robots.txt has ever listed for every agent
  streak       \* history: runs in a row that ended an adapter with a failure

attempt == <<landing, lastStop, browse>>
history == <<refused, limited, asks, opened, seen>>
stored  == <<circuit, lastSuccess, restricted, cooldown, inFlight, pool, session, blockedPaths,
             listed>>
kept    == <<queue, retries, disallowed, egress, result, profile, stored, runs, streak>>
vars    == <<pc, lease, kept, pages, attempt, capture, history>>

-----------------------------------------------------------------------------

NoStop    == Outcome("ok", "none")
NoCapture == [status |-> "none", json |-> FALSE, html |-> FALSE]

NoEgress  == [node |-> NoNode, failovers |-> 0]

\* http_status starts at 200 in a session that has heard nothing yet.
NoSession == [phase |-> "closed", http |-> 200, blocked |-> FALSE]

Statuses == {"success", "unsupported", "no_results", "temporary_failure",
             "network_error", "rate_limited", "blocked", "captcha_blocked",
             "policy_denied"}
Stop     == {"blocked", "captcha_blocked", "policy_denied"}
Fallback == {"unsupported", "no_results"}
Retry    == {"temporary_failure", "network_error"}

\* The HTTP collectors that request a page.
Readers(u) == {c \in Collectors \ Browsers : \E i \in DOMAIN UrlsOf[c] : UrlsOf[c][i] = u}

Running == pc # "idle"
Tried   == Head(queue)

Init ==
  /\ pc = "idle" /\ queue = <<>> /\ retries = 0 /\ lease = FALSE
  /\ blockedPaths = SeededPaths /\ disallowed = {} /\ listed = {} /\ pages = [u \in {} |-> Unreachable]
  /\ landing = <<>> /\ lastStop = NoStop
  /\ browse = NoSession /\ capture = NoCapture
  /\ egress = NoEgress /\ result = "unsupported"
  /\ pool = AllHealthy /\ session = NoNode
  /\ \E open \in OpenAtFirst :
       /\ circuit = [c \in Collectors |-> IF c \in open THEN Opened ELSE Closed]
       /\ streak  = [c \in Collectors |-> IF c \in open THEN FailureThreshold ELSE 0]
  /\ profile = circuit
  /\ lastSuccess = "none"
  /\ restricted = FALSE /\ cooldown = FALSE /\ inFlight = 0
  /\ runs = 0
  /\ refused = FALSE /\ limited = FALSE
  /\ asks = [u \in Urls |-> 0] /\ opened = 0 /\ seen = {}

-----------------------------------------------------------------------------
\* A job begins: robots.txt is read and its paths are kept.
ReadRobots(robots) ==
  /\ ~Running /\ runs < MaxRuns
  /\ runs' = runs + 1
  /\ blockedPaths' = Merged(blockedPaths, robots)
  /\ disallowed' = BlockedUrls(blockedPaths') \union Denied(robots.lines)
  /\ listed' = listed \union BlockedUrls(DisallowPaths(robots.lines))
  /\ retries' = 0
  /\ pages' = [u \in {} |-> Unreachable] /\ capture' = NoCapture
  /\ limited' = FALSE /\ asks' = [u \in Urls |-> 0] /\ opened' = 0 /\ seen' = {}
  /\ UNCHANGED <<attempt, circuit, lastSuccess, restricted, cooldown, refused, streak>>

\* The governor's decision.
Permitted(robots) ==
  RobotsStatus(robots) = "allowed" /\ ~restricted /\ ~cooldown /\ inFlight = 0

DenyRun(robots) ==
  /\ ReadRobots(robots) /\ ~Permitted(robots)
  /\ result' = "policy_denied"
  /\ UNCHANGED <<pc, lease, queue, egress, profile, inFlight, pool, session>>

\* The governor issues the lease and takes the in-flight slot; the collectors
\* are ranked and an egress node is acquired.
StartRun(robots) ==
  /\ ReadRobots(robots) /\ Permitted(robots)
  /\ profile' = [c \in Collectors |-> Probed(circuit[c])]
  /\ queue' = Ranked(Chain, circuit, Preferred, lastSuccess)
  /\ IF queue' = <<>>
     THEN /\ result' = "unsupported"          \* NO_COLLECTOR: released at once
          /\ egress' = NoEgress
          /\ UNCHANGED <<pc, lease, inFlight, pool, session>>
     ELSE /\ pc' = "attempt" /\ lease' = TRUE /\ inFlight' = 1
          /\ LET got == Acquire(pool, session, FALSE)
             IN  /\ egress' = [node |-> got.node, failovers |-> 0]
                 /\ pool' = got.pool /\ session' = got.session
          /\ UNCHANGED result

\* The source's egress session outlives its time to live.
SessionExpires ==
  /\ session # NoNode
  /\ session' = NoNode
  /\ UNCHANGED <<pc, lease, queue, retries, disallowed, egress, result, profile, circuit, lastSuccess,
                 restricted, cooldown, inFlight, pool, blockedPaths, listed, runs, streak, pages,
                 attempt, capture, history>>

LeaseExpires ==
  /\ Running /\ lease
  /\ lease' = FALSE
  /\ UNCHANGED <<pc, kept, pages, attempt, capture, history>>

\* Time passes between the runs: the 429 cooldown or a circuit's one ends.
CooldownEnds ==
  /\ ~Running
  /\ \/ cooldown /\ cooldown' = FALSE /\ UNCHANGED circuit
     \/ \E c \in Collectors :
          /\ circuit[c].cooling
          /\ circuit' = [circuit EXCEPT ![c].cooling = FALSE]
          /\ UNCHANGED cooldown
  /\ UNCHANGED <<pc, lease, queue, retries, disallowed, egress, result, profile, lastSuccess,
                 restricted, inFlight, pool, session, blockedPaths, listed, runs, streak, pages,
                 attempt, capture, history>>

-----------------------------------------------------------------------------
\* Mutated: a challenge does not restrict the source.
RecordOutcomeChallenge(c, status) ==
  /\ circuit' = [circuit EXCEPT ![c] = Recorded(circuit[c], profile[c], status)]
  /\ lastSuccess' = IF status = "success" THEN c ELSE lastSuccess
  /\ restricted' = (restricted \/ status = "blocked")

\* record_outcome: the circuit row, the last successful adapter, the restriction.
RecordOutcome(c, status) ==
  /\ circuit' = [circuit EXCEPT ![c] = Recorded(circuit[c], profile[c], status)]
  /\ lastSuccess' = IF status = "success" THEN c ELSE lastSuccess
  /\ restricted' = (restricted \/ status \in {"blocked", "captcha_blocked"})

\* How the run's last outcome for an adapter counts in the history of failures.
Counted(c, status) ==
  streak' = [streak EXCEPT ![c] = CASE status = "success"   -> 0
                                    [] status \in Neutral   -> @
                                    [] OTHER                -> OneMore(@)]

\* Mutated: the release after a 429 passes no cooldown on.
EndRunWarm(status) ==
  /\ pc' = "idle"
  /\ result' = status
  /\ lease' = FALSE
  /\ inFlight' = inFlight - 1
  /\ cooldown' = cooldown
  /\ queue' = <<>> /\ retries' = 0

\* Mutated: a stopped run returns without the release.
EndRunKept(status) ==
  /\ pc' = "idle"
  /\ result' = status
  /\ lease' = FALSE
  /\ inFlight' = IF status \in Stop THEN inFlight ELSE inFlight - 1
  /\ cooldown' = (cooldown \/ status = "rate_limited")
  /\ queue' = <<>> /\ retries' = 0

\* A return from collect(): the lease and the slot are released, after a 429
\* with its cooldown.
EndRun(status) ==
  /\ pc' = "idle"
  /\ result' = status
  /\ lease' = FALSE
  /\ inFlight' = inFlight - 1
  /\ cooldown' = (cooldown \/ status = "rate_limited")
  /\ queue' = <<>> /\ retries' = 0

\* The next collector's turn, or the run's end when there is none.
NextCollector(status) ==
  IF Len(queue) = 1 THEN EndRun(status)
  ELSE /\ queue' = Tail(queue) /\ retries' = 0 /\ pc' = "attempt"
       /\ UNCHANGED <<result, lease, inFlight, cooldown>>

\* Mutated: one retry too many.
RetryOrMoveOnBeyond(status) ==
  IF retries <= MaxAdapterRetries
  THEN /\ retries' = retries + 1 /\ pc' = "attempt"
       /\ UNCHANGED <<queue, result, lease, inFlight, cooldown, streak>>
  ELSE NextCollector(status) /\ Counted(Tried, status)

\* Mutated: retries are not counted.
RetryOrMoveOnUncounted(status) ==
  IF retries < MaxAdapterRetries
  THEN /\ retries' = retries /\ pc' = "attempt"
       /\ UNCHANGED <<queue, result, lease, inFlight, cooldown, streak>>
  ELSE NextCollector(status) /\ Counted(Tried, status)

\* A retryable result: the same collector again, or the next one.
RetryOrMoveOn(status) ==
  IF retries < MaxAdapterRetries
  THEN /\ retries' = retries + 1 /\ pc' = "attempt"
       /\ UNCHANGED <<queue, result, lease, inFlight, cooldown, streak>>
  ELSE NextCollector(status) /\ Counted(Tried, status)

\* Mutated: any retry changes the egress node.
MayFailoverAlways(category) == category # "restriction"

\* may_failover_egress: network and infrastructure failures only.
MayFailover(category) == category = "network"

\* The router's handling of a collector's result.
Settle(o) ==
  /\ RecordOutcome(Tried, o.status)
  /\ IF o.status \in Retry /\ MayFailover(o.category)
     THEN LET got == Failover(pool, session, egress.node)
          IN  /\ egress' = [node |-> got.node, failovers |-> egress.failovers + 1]
              /\ pool' = got.pool /\ session' = got.session
     ELSE UNCHANGED <<egress, pool, session>>
  /\ \/ /\ o.status \in Stop \union {"success", "rate_limited"}
        /\ EndRun(o.status) /\ Counted(Tried, o.status)
     \/ /\ o.status \in Fallback
        /\ NextCollector(o.status) /\ Counted(Tried, o.status)
     \/ /\ o.status \in Retry
        /\ RetryOrMoveOn(o.status)
  /\ landing' = <<>> /\ lastStop' = NoStop /\ browse' = NoSession
  /\ UNCHANGED <<profile, blockedPaths, disallowed, listed, runs>>

\* Parsing the capture: JSON payloads first for "network", else the document.
CaptureOutcome(c, cap) ==
  IF cap.status # "no_results" THEN Outcome(cap.status, "none")
  ELSE Outcome(IF cap.html \/ (c = "network" /\ cap.json) THEN "success" ELSE "no_results",
               "none")

-----------------------------------------------------------------------------
\* A collector's attempt starts with the lease check.
LeaseInvalid ==
  /\ pc = "attempt" /\ ~lease
  /\ seen' = {}
  /\ Settle(Outcome("policy_denied", "restriction"))
  /\ UNCHANGED <<pages, capture, refused, limited, asks, opened>>

BeginHttp ==
  /\ pc = "attempt" /\ lease /\ Tried \notin Browsers
  /\ pc' = "fetch"
  /\ landing' = UrlsOf[Tried] /\ lastStop' = NoStop
  /\ seen' = {}
  /\ UNCHANGED <<lease, kept, pages, browse, capture, refused, limited, asks, opened>>

Url == Head(landing)

\* What the attempt makes of a page, and whether it goes on to the next one.
ReadPage(p) ==
  LET error == LandingError(p)
      stop  == IF error = "ok" THEN lastStop ELSE Outcome(error, Category(p))
  IN  IF Tried = "feed" THEN Settle(FeedOutcome(p))
      ELSE IF error \in EndsLanding THEN Settle(Outcome(error, Category(p)))
      ELSE IF error = "ok" /\ p.text = "fares" THEN Settle(Outcome("success", "none"))
      ELSE IF Len(landing) > 1
           THEN /\ landing' = Tail(landing) /\ lastStop' = stop
                /\ UNCHANGED <<pc, lease, kept, browse>>
           ELSE Settle(IF stop.status \in Retry THEN stop
                       ELSE Outcome("no_results", "none"))

ReadCached ==
  /\ pc = "fetch" /\ Url \in DOMAIN pages
  /\ ReadPage(pages[Url])
  /\ UNCHANGED <<pages, capture, history>>

SkipDisallowed ==
  /\ pc = "fetch" /\ Url \notin DOMAIN pages /\ Url \in disallowed
  /\ Settle(Outcome("policy_denied", "restriction"))
  /\ UNCHANGED <<pages, capture, history>>

\* What the HTTP client keeps.
Cacheable(p) == p.code # 0

\* A request goes out; only a request without a response is not cached.
Ask(p) ==
  /\ pc = "fetch" /\ Url \notin DOMAIN pages /\ Url \notin disallowed
  /\ asks' = [asks EXCEPT ![Url] = @ + 1]
  /\ pages' = IF Cacheable(p)
              THEN [u \in DOMAIN pages \union {Url} |-> IF u = Url THEN p ELSE pages[u]]
              ELSE pages
  /\ seen' = seen \union {IF p.code = 0 THEN "unreachable" ELSE "answer"}
  /\ refused' = (refused \/ Refusal(p))
  /\ limited' = (limited \/ p.code = 429)
  /\ ReadPage(p)
  /\ UNCHANGED <<capture, opened>>

\* The collector raises while it requests a page (too many redirects, a body
\* that cannot be decoded): the router turns that into TEMPORARY_FAILURE.
Crash ==
  /\ pc = "fetch" /\ Url \notin DOMAIN pages /\ Url \notin disallowed
  /\ asks' = [asks EXCEPT ![Url] = @ + 1]
  /\ seen' = seen \union {"answer"}
  /\ Settle(Outcome("temporary_failure", "none"))
  /\ UNCHANGED <<pages, capture, refused, limited, opened>>

-----------------------------------------------------------------------------
\* The browser collectors share one capture per query, whatever its status.
ReadCapture ==
  /\ pc = "attempt" /\ lease /\ Tried \in Browsers /\ capture # NoCapture
  /\ seen' = {}
  /\ Settle(CaptureOutcome(Tried, capture))
  /\ UNCHANGED <<pages, capture, refused, limited, asks, opened>>

\* Playwright is not installed, which is captured; or the browser cannot be
\* launched, which raises and is not.
NoBrowser ==
  /\ pc = "attempt" /\ lease /\ Tried \in Browsers /\ capture = NoCapture
  /\ seen' = {}
  /\ \E status \in {"unsupported", "temporary_failure"} :
       /\ capture' = IF status = "unsupported" THEN [capture EXCEPT !.status = status]
                     ELSE capture
       /\ Settle(Outcome(status, "none"))
  /\ UNCHANGED <<pages, refused, limited, asks, opened>>

\* A start URL that is not allowed is not requested; the refusal is captured.
BrowserDenied ==
  /\ pc = "attempt" /\ lease /\ Tried \in Browsers /\ capture = NoCapture
  /\ StartUrl \in disallowed
  /\ seen' = {}
  /\ capture' = [NoCapture EXCEPT !.status = "policy_denied"]
  /\ Settle(CaptureOutcome(Tried, capture'))
  /\ UNCHANGED <<pages, refused, limited, asks, opened>>

\* The start URL is requested (page.goto is called).
OpenBrowser ==
  /\ pc = "attempt" /\ lease /\ Tried \in Browsers /\ capture = NoCapture
  /\ StartUrl \notin disallowed
  /\ pc' = "browse"
  /\ browse' = [NoSession EXCEPT !.phase = "loading"]
  /\ seen' = {"answer"} /\ opened' = opened + 1
  /\ UNCHANGED <<lease, kept, pages, landing, lastStop, capture, refused, limited, asks>>

\* _on_response: a 403 for a (frame's) document, or a 429 for anything.
OnResponse(code) ==
  /\ pc = "browse" /\ code \in {403, 429}
  /\ browse' = [browse EXCEPT !.http = code, !.blocked = @ \/ code = 403]
  /\ refused' = (refused \/ code = 403)
  /\ limited' = (limited \/ code = 429)
  /\ UNCHANGED <<pc, lease, kept, pages, landing, lastStop, capture, asks, opened, seen>>

\* goto returns with the main document's response.
Loaded(code) ==
  /\ pc = "browse" /\ browse.phase = "loading" /\ code # 0
  /\ browse' = [phase |-> "loaded", http |-> code, blocked |-> browse.blocked \/ code = 403]
  /\ refused' = (refused \/ code = 403)
  /\ limited' = (limited \/ code = 429)
  /\ UNCHANGED <<pc, lease, kept, pages, landing, lastStop, capture, asks, opened, seen>>

\* _fill_search: the form of a page that has one is filled in and submitted.
FillSearch ==
  /\ pc = "browse" /\ browse.phase = "loaded" /\ ~browse.blocked
  /\ browse' = [browse EXCEPT !.phase = "searched"]
  /\ UNCHANGED <<pc, lease, kept, pages, landing, lastStop, capture, history>>

EndSession(cap) ==
  /\ capture' = cap
  /\ Settle(CaptureOutcome(Tried, cap))
  /\ UNCHANGED <<pages, asks, opened, seen>>

\* The session ends by reading the page; search failures are swallowed.
Captured(text, json) ==
  /\ pc = "browse" /\ browse.phase \in {"loaded", "searched"}
  /\ refused' = (refused \/ Refusal([code |-> browse.http, text |-> text]))
  /\ limited' = limited
  /\ EndSession([status |-> CaptureStatus(browse.http, browse.blocked, text),
                 json |-> json, html |-> text = "fares"])

\* The session raises: a timeout, or anything else.
BrowserFails(status) ==
  /\ pc = "browse" /\ status \in {"network_error", "temporary_failure"}
  /\ UNCHANGED <<refused, limited>>
  /\ EndSession([status |-> status, json |-> FALSE, html |-> FALSE])

-----------------------------------------------------------------------------
\* What the run itself does; its requests are answered, or time out.
Proceed ==
  \/ LeaseInvalid
  \/ BeginHttp
  \/ ReadCached
  \/ SkipDisallowed
  \/ \E p \in Replies \union {Unreachable} : Ask(p)
  \/ Crash
  \/ ReadCapture
  \/ NoBrowser
  \/ BrowserDenied
  \/ OpenBrowser
  \/ \E p \in Replies : Loaded(p.code)
  \/ FillSearch
  \/ \E text \in Texts, json \in BOOLEAN : Captured(text, json)
  \/ \E status \in Retry : BrowserFails(status)

Environment ==
  \/ LeaseExpires
  \/ SessionExpires
  \/ CooldownEnds
  \/ \E code \in {403, 429} : OnResponse(code)

Next ==
  \/ \E robots \in RobotsFiles : DenyRun(robots) \/ StartRun(robots)
  \/ Proceed
  \/ Environment

Spec     == Init /\ [][Next]_vars
FairSpec == Spec /\ WF_vars(Proceed)

-----------------------------------------------------------------------------

\* The step contacts the source (robots.txt apart, which every job reads): a
\* page is requested, the browser opened on the
\* start URL, or the search form submitted.
Contacts ==
  \/ \E u \in Urls : asks'[u] > asks[u]
  \/ browse.phase = "closed" /\ browse'.phase = "loading"
  \/ browse.phase = "loaded" /\ browse'.phase = "searched"

\* Once the source has rejected automated access it is never contacted again,
\* in this run or a later one.
NoContactAfterRefusal == [][refused => ~Contacts]_vars

\* A page that robots.txt has once listed for every agent is not requested in
\* any later run, whatever later robots.txt say, or if none can be read.
ListedStays ==
  [][\A u \in listed : asks'[u] <= asks[u]]_vars

\* A rejection is never lost: at the end of the run the source is restricted.
RefusalRestricts == refused /\ ~Running => restricted

\* A 429 is never lost: the run that met one ends with its cooldown, or with
\* the source restricted, unless the cooldown has since passed.
LimitBacksOff ==
  [][limited' /\ Running /\ ~Running' => cooldown' \/ restricted']_vars

\* Retries and fallbacks stay bounded: a page is requested at most once per
\* attempt of the collectors that read it, and the browser is opened on the
\* source once, whatever its session ended with: both browser collectors, and
\* all their retries, share what it captured.
AskBudget ==
  /\ \A u \in Urls : asks[u] <= Cardinality(Readers(u)) * (MaxAdapterRetries + 1)
  /\ opened <= 1

\* Egress changes only after a request that got no response, and never once
\* the source has refused or limited the run.
EgressForNetworkOnly ==
  [][egress'.failovers > egress.failovers => "unreachable" \in seen' /\ ~refused' /\ ~limited']_vars

\* A failover leaves the node that failed for a healthy one wherever the
\* source's policy knows one, whatever sessions say, and the node that failed
\* is not chosen again while another would do.
FailoverMoves ==
  [][egress'.failovers > egress.failovers /\ EffectiveMode \notin {"direct", "static_proxy"}
       /\ PoolCandidates(pool') # {}
     => egress'.node # egress.node /\ pool'[egress'.node].healthy]_vars

\* The in-flight slot is given back on every way out of the run.
SlotReturned == inFlight = IF Running THEN 1 ELSE 0

\* An adapter that failed in as many runs in a row as the threshold is open.
BreakerTrips ==
  [][\A c \in Collectors :
       streak'[c] > streak[c] /\ streak'[c] = FailureThreshold
         => circuit'[c].state = "open"]_vars

\* Every run ends, whatever the source answers.
RunEnds == Running ~> ~Running
=============================================================================
