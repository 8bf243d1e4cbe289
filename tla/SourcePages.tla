----------------------------- MODULE SourcePages -----------------------------
(***************************************************************************)
(* What one page of a source means to the collectors: the status the       *)
(* governed HTTP client gives it, and the result a collector makes of it.  *)
(*                                                                         *)
(* A page is its HTTP status code and what its text shows: dated fares,    *)
(* nothing of use, a human-verification challenge or an access denial.     *)
(* Code 0 is a request that got no response.                               *)
(***************************************************************************)
EXTENDS Naturals

Texts == {"fares", "plain", "challenge", "denial"}
Page  == [code : {0, 200, 403, 404, 429, 503}, text : Texts]

\* A request that met a timeout, a dead connection or a TLS failure.
Unreachable == [code |-> 0, text |-> "plain"]

\* The source has explicitly rejected automated access: docs/compliance.md's
\* CAPTCHA or 403, or an error page that says so.  A 429 only asks to slow down.
Refusal(p) == \/ p.code = 403
              \/ p.text = "challenge"
              \/ p.text = "denial" /\ p.code >= 400 /\ p.code # 429

\* FetchedPage.collection_status; "ok" stands for None.
PageStatus(p) ==
  CASE p.code = 0    -> "network_error"
    [] p.code = 403  -> "blocked"
    [] p.code = 429  -> "rate_limited"
    [] p.code >= 500 -> "temporary_failure"
    [] p.code = 404  -> "no_results"
    [] OTHER         -> "ok"

\* What the error of a page with that status is; "ok" when it has none.
PageError(p, status) ==
  CASE status = "ok"                          -> "ok"
    [] status # "ok" /\ p.text = "challenge"  -> "captcha_blocked"
    [] status # "ok" /\ p.text = "denial" /\ p.code # 200 -> "blocked"
    [] OTHER                                  -> status

\* The NetworkFailureCategory: did the network fail, or the source say no?
Category(p) ==
  CASE p.code = 0            -> "network"
    [] p.code \in {403, 429} -> "restriction"
    [] OTHER                 -> "none"

Outcome(status, category) == [status |-> status, category |-> category]

\* Parsing an answered page.
Parsed(p) == Outcome(IF p.text = "fares" THEN "success" ELSE "no_results", "none")

\* The structured feed: a feed that cannot be had is not supported.
FeedOutcome(p) ==
  IF PageStatus(p) \in {"temporary_failure", "network_error", "no_results"}
  THEN Outcome("unsupported", "none")
  ELSE IF PageError(p, PageStatus(p)) # "ok"
       THEN Outcome(PageError(p, PageStatus(p)), Category(p))
       ELSE Parsed(p)

\* Mutated: only an error page is looked at for a challenge.
LandingStatusByCode(p) == PageStatus(p)

\* Landing pages: a challenge is recognised whatever the status code.
LandingStatus(p) == IF p.text = "challenge" THEN "captcha_blocked" ELSE PageStatus(p)
LandingError(p)  == PageError(p, LandingStatus(p))

\* The errors of a landing page that end the collector at once.
EndsLanding == {"blocked", "captcha_blocked", "policy_denied", "rate_limited"}

\* What a browser session that ran to its end captured, by the last http_status
\* its callbacks left, whether one of them saw a 403, and the final text.
CaptureStatus(http, blockedHit, text) ==
  CASE text = "challenge"                       -> "captcha_blocked"
    [] text # "challenge" /\ http = 429         -> "rate_limited"
    [] text # "challenge" /\ http # 429
         /\ (blockedHit \/ http = 403 \/ (text = "denial" /\ http >= 400))
                                                -> "blocked"
    [] OTHER                                    -> "no_results"
=============================================================================
