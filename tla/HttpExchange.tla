---------------------------- MODULE HttpExchange ----------------------------
(***************************************************************************)
(* The pure part of lexicon-core's HTTP engine: what a request asks for    *)
(* (request.rs, policy.rs), what a server may answer (transport.rs), which *)
(* headers are protected (sensitivity.rs) and the request that follows a   *)
(* redirect (redirect_request_from in context.rs).  A URL keeps its scheme,*)
(* its authority and a path; a header is its lower-case name.              *)
(***************************************************************************)
EXTENDS Naturals, FiniteSets

CONSTANTS
  Urls,     \* the URLs requests and Location headers name
  Keys,     \* logical request keys
  None      \* "no key", "no parent": Option::None

\* A URL without a scheme the client speaks is a legal Location value.
ASSUME UrlsAssumption ==
  /\ Urls # {}
  /\ \A u \in Urls : {"scheme", "authority", "path"} \subseteq DOMAIN u

ASSUME NoneAssumption == None \notin Keys

-----------------------------------------------------------------------------
(* Protected headers                                                       *)

\* MANDATORY_SENSITIVE_HEADERS: the closed set.
MandatorySensitive ==
  {"authorization", "proxy-authorization", "cookie", "set-cookie"}

\* must_redact_header: mandatory, or marked sensitive by the source.
MustRedact(name, explicit) == name \in MandatorySensitive \cup explicit

\* same_origin: scheme, host and port agree.
SameOrigin(u, v) == u.scheme = v.scheme /\ u.authority = v.authority

-----------------------------------------------------------------------------
(* Requests and policies                                                   *)

\* The methods HttpRequest has a constructor for, and any other token.
Methods == {"GET", "POST", "PUT", "PATCH", "DELETE", "HEAD", "other"}

\* HttpRequest: what a source fills in.
HttpRequests ==
  [method : Methods, url : Urls, body : BOOLEAN, key : Keys \cup {None},
   headers : SUBSET STRING, sensitive : SUBSET STRING,
   maxAttempts : Nat, maxRedirects : Nat,
   retryFailures : BOOLEAN, retryStatuses : SUBSET Nat]

\* The redirect statuses of is_redirect_status.
RedirectStatus == {301, 302, 303, 307, 308}

\* HttpRedirectPolicy::None is a maximum of 0; follow rejects a maximum of 0.
Follows(request) == request.maxRedirects > 0

\* finalize: what makes a request sendable.  The headers marked sensitive
\* become the request's set of explicitly sensitive names.
Finalizable(request) ==
  /\ request.maxAttempts > 0
  /\ request.url.scheme \in {"http", "https"}

\* should_retry_status
RetryStatus(request, status) == status \in request.retryStatuses

\* HttpTransportFailure and its retryable
FailureClasses ==
  {"configuration", "request_build", "connect", "timeout", "body_write",
   "exchange_io"}
RetryableFailures == {"connect", "timeout", "exchange_io"}

-----------------------------------------------------------------------------
(* Answers                                                                 *)

\* HttpLocationHeader; "unjoinable" is a text url::Url::join refuses.
Locations == {"missing", "garbled", "unjoinable", "url"}

Response(status, location, target) ==
  [kind |-> "response", status |-> status, class |-> "none",
   location |-> location, target |-> target]

Failure(class) ==
  [kind |-> "failure", status |-> 0, class |-> class,
   location |-> "missing", target |-> None]

\* The stream of the body breaks off after the headers arrived.
Broken ==
  [kind |-> "broken", status |-> 0, class |-> "none",
   location |-> "missing", target |-> None]

HttpAnswers ==
  { answer \in [kind : {"response", "failure", "broken"}, status : Nat,
                class : FailureClasses \cup {"none"}, location : Locations,
                target : Urls \cup {None}] :
      answer.location = "url" => answer.target \in Urls }

-----------------------------------------------------------------------------
(* Following a redirect: redirect_request_from                             *)

\* A refusal, or "none".  A garbled and a missing Location are refused by
\* execute_impl before the join.
RedirectRefusal(answer) ==
  CASE answer.location = "garbled"    -> "invalid_location_encoding"
    [] answer.location = "missing"    -> "missing_location"
    [] answer.location = "unjoinable" -> "invalid_target"
    [] OTHER -> IF answer.target.scheme \in {"http", "https"} THEN "none"
                ELSE "unsupported_scheme"

\* A mutant: the headers are dropped at the first hop of the chain only when
\* the scheme changes, as a comparison by domain of IP literals would do.
ForwardAcrossHosts(request, target) ==
  IF request.url.scheme = target.scheme THEN request.headers
  ELSE { h \in request.headers : ~ MustRedact(h, request.sensitive) }

\* Across origins the mandatory names, Host and the names the source marked
\* are dropped; otherwise every header goes along.
ForwardedHeaders(request, target) ==
  IF SameOrigin(request.url, target) THEN request.headers
  ELSE { h \in request.headers :
           /\ ~ MustRedact(h, request.sensitive)
           /\ h # "host" }

RedirectedRequest(request, status, target) ==
  [request EXCEPT
     !.url     = target,
     !.headers = ForwardedHeaders(request, target),
     !.method  = IF status = 303
                   THEN (IF request.method = "HEAD" THEN "HEAD" ELSE "GET")
                   ELSE request.method,
     !.body    = status # 303 /\ request.body]

-----------------------------------------------------------------------------
(* What execute_impl does with a recorded answer.  `retried' attempts were *)
(* made at this URL after the first, `followed' redirects were followed,   *)
(* `seen' holds the caller's URL and every redirect target so far.         *)

\* A mutant: one retry too many.
MayRetryOnce(request, retried) == retried < request.maxAttempts

MayRetryAgain(request, retried) == retried + 1 < request.maxAttempts

\* The policy asks for a retry of this answer.
WantsRetry(request, answer) ==
  IF answer.kind = "failure"
    THEN answer.class \in RetryableFailures /\ request.retryFailures
    ELSE RetryStatus(request, answer.status)

\* Only a response whose status is no redirect is judged by its status.
IsRedirect(answer) ==
  answer.kind = "response" /\ answer.status \in RedirectStatus

RetryVerdict(request, retried, answer, otherwise) ==
  IF ~ WantsRetry(request, answer) THEN otherwise
  ELSE IF MayRetryAgain(request, retried) THEN "retry"
  ELSE IF request.maxAttempts > 1 THEN "retry_exhausted"
  ELSE otherwise

RedirectVerdict(request, followed, seen, answer) ==
  LET refusal == RedirectRefusal(answer)
  IN  IF ~ Follows(request) THEN "ok"
      ELSE IF followed >= request.maxRedirects THEN "maximum_exceeded"
      ELSE IF refusal # "none" THEN refusal
      ELSE IF answer.target \in seen THEN "loop_detected"
      ELSE "redirect"

Verdict(request, retried, followed, seen, answer) ==
  IF answer.kind = "failure"
    THEN RetryVerdict(request, retried, answer, "transport_failure")
  ELSE IF IsRedirect(answer)
    THEN RedirectVerdict(request, followed, seen, answer)
  ELSE RetryVerdict(request, retried, answer, "ok")

=============================================================================
