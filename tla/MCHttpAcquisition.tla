------------------------- MODULE MCHttpAcquisition -------------------------
(* Instances of HttpAcquisition for TLC. *)
EXTENDS HttpAcquisition

CONSTANTS S1, S2, k

Url(scheme, authority, path) ==
  [scheme |-> scheme, authority |-> authority, path |-> path]

Home  == Url("https", "home", "1")
Home2 == Url("https", "home", "2")
Away  == Url("https", "away", "1")
Ftp   == Url("ftp", "home", "1")

AllUrls == {Home, Home2, Away, Ftp}

\* A source's request: two attempts, two redirects, headers of every kind.
Deep ==
  [method |-> "POST", url |-> Home, body |-> TRUE, key |-> k,
   headers |-> {"accept", "host", "authorization", "x-key"},
   sensitive |-> {"x-key"},
   maxAttempts |-> 2, maxRedirects |-> 2,
   retryFailures |-> TRUE, retryStatuses |-> {503}]

\* Keyless, no redirects, 302 and 503 named retryable.
Plain ==
  [Deep EXCEPT !.method = "GET", !.body = FALSE, !.key = None,
               !.maxAttempts = 2, !.maxRedirects = 0,
               !.retryFailures = FALSE, !.retryStatuses = {302, 503}]

\* Two attempts, no redirects.
Keyed ==
  [Deep EXCEPT !.method = "GET", !.body = FALSE, !.maxRedirects = 0]

DeepRequests  == {Deep, Plain}
KeyedRequests == {Keyed}

DeepAnswers ==
  {Response(status, "missing", None) : status \in {200, 503}}
  \cup {Response(302, "url", u) : u \in AllUrls}
  \cup {Response(303, "url", Home2)}
  \cup {Response(307, l, None) : l \in Locations \ {"url"}}
  \cup {Failure("connect"), Failure("body_write"), Broken}

KeyedAnswers ==
  {Response(200, "missing", None), Response(503, "missing", None),
   Failure("connect"), Broken}

One1 == {S1}
Two  == {S1, S2}
Keys1 == {k}
NoSessions == {}
=============================================================================
