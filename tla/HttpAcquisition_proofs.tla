----------------------- MODULE HttpAcquisition_proofs -----------------------
(***************************************************************************)
(* Proofs about HttpAcquisition, for any number of sessions, requests and  *)
(* answers, and any of the sessions killable and fault prone.              *)
(***************************************************************************)
EXTENDS HttpAcquisition, FiniteSetTheorems, WellFoundedInduction, TLAPS

-----------------------------------------------------------------------------
(* The inductive invariant                                                 *)

Active == {"exchange", "publish", "progress", "revalidate", "write", "decide"}
Reported == {"publish", "progress", "revalidate", "write", "decide"}
Recording == {"progress", "revalidate", "write", "decide"}
Committing == {"commit", "store"}

PCs == Executing \cup Committing \cup {"off", "idle", "ended", "dead"}

Engines ==
  [pc : PCs, caller : HttpRequests \cup {None},
   request : HttpRequests \cup {None},
   physical : Nat, followed : Nat, retried : Nat, parent : TxIds \cup {None},
   seen : SUBSET Urls, tx : TxIds \cup {None}, answer : HttpAnswers,
   base : Progresses, key : Keys \cup {None}, stamp : Nat]

Sendings == [tx : TxIds, url : Urls, headers : SUBSET STRING]

RawTyped == \E n \in 0 .. MaxTransactions : raw \in [1 .. n -> Transactions]

\* Partial functions from keys.
RegistryTyped ==
  /\ registry = [s \in Sessions |-> registry[s]]
  /\ \A s \in Sessions :
       /\ DOMAIN registry[s] \subseteq Keys
       /\ \A k \in DOMAIN registry[s] : registry[s][k] \in TxIds

CheckpointsTyped ==
  /\ checkpoints = [s \in Sessions |-> checkpoints[s]]
  /\ \A s \in Sessions :
       /\ DOMAIN checkpoints[s] \subseteq Keys
       /\ \A k \in DOMAIN checkpoints[s] : checkpoints[s][k] \in Checkpoints

Types ==
  /\ clock \in [Sessions -> Nat]
  /\ view \in [Sessions -> SessionViews]
  /\ lease \in [Sessions -> {"free", "supervisor", "reconciler"}]
  /\ ending \in [Sessions -> Nat]
  /\ orphaned \subseteq Sessions
  /\ RawTyped
  /\ progress \in [Sessions -> Progresses]
  /\ CheckpointsTyped
  /\ engine \in [Sessions -> Engines]
  /\ RegistryTyped
  /\ outcome = [s \in Sessions |-> outcome[s]]
  /\ returned \subseteq TxIds
  /\ exchanges \in [Sessions -> SUBSET Sendings]

\* Who looks after a session, and that its stamps lie in the past.
Life(s) ==
  /\ engine[s].pc = "off" <=> view[s].state = "absent"
  /\ view[s].state = "absent" => lease[s] = "free"
  /\ view[s].state # "absent" =>
       0 < view[s].started /\ view[s].started <= clock[s]
  /\ view[s].state # "ended" => view[s].finished = 0
  /\ s \notin orphaned =>
       /\ lease[s] # "reconciler"
       /\ view[s].state = "running" => lease[s] = "supervisor"
       /\ view[s].state = "ended" => engine[s].pc \in {"ended", "dead"}

Answered(t) == t.outcome \in {"response", "failure"}

\* An attempt, published or not.
Attempt(id) ==
  LET t == raw[id]
      s == t.session
      p == t.parent
  IN  /\ AttemptIdentity(t.physical, t.redirect, t.retry)
      /\ view[s].state # "absent"
      /\ 0 < t.created /\ view[s].started <= t.created /\ t.created <= clock[s]
      /\ Answered(t) => t.created <= t.completed /\ t.completed <= clock[s]
      /\ Answered(t) /\ s \notin orphaned /\ view[s].finished # 0 =>
           t.completed <= view[s].finished
      /\ t.final => Answered(t)
      /\ t.physical = 1 => p = None
      /\ p # id
      /\ t.physical > 1 =>
           /\ p \in Finalized(raw)
           /\ raw[p].session = s /\ raw[p].key = t.key
           /\ raw[p].physical + 1 = t.physical
           /\ raw[p].completed <= t.created

Attempts(s) == \A id \in DOMAIN raw : raw[id].session = s => Attempt(id)

\* The request at hand descends from the caller's, within its policies.
Policies(s) ==
  LET e == engine[s]
  IN  e.pc \in Executing =>
        /\ e.caller \in HttpRequests /\ e.request \in HttpRequests
        /\ e.request.key = e.caller.key
        /\ e.request.sensitive = e.caller.sensitive
        /\ e.request.maxAttempts = e.caller.maxAttempts
        /\ e.request.maxRedirects = e.caller.maxRedirects
        /\ e.retried < e.caller.maxAttempts
        /\ e.followed <= e.caller.maxRedirects
        /\ e.request.url \in e.seen
        /\ IsFiniteSet(e.seen)
        /\ Cardinality(e.seen) = e.followed + 1
        /\ outcome[s] = NoOutcome

\* Headers that may go to a URL on behalf of a request.
Harmless(url, headers, caller) ==
  ~ SameOrigin(url, caller.url) =>
    \A h \in headers : ~ MustRedact(h, caller.sensitive)

SentTo(s, u) == { x \in exchanges[s] : x.url = u }

\* What was sent so far, to the URLs seen before and to the one at hand.
Sent(s) ==
  LET e == engine[s]
  IN  e.pc \in Executing =>
        /\ IsFiniteSet(exchanges[s])
        /\ Harmless(e.request.url, e.request.headers, e.caller)
        /\ \A x \in exchanges[s] :
             x.url \in e.seen /\ Harmless(x.url, x.headers, e.caller)
        /\ \A u \in e.seen : Cardinality(SentTo(s, u)) <= e.caller.maxAttempts
        /\ Cardinality(SentTo(s, e.request.url))
             <= e.retried + One(e.pc \in Reported)

\* The attempt at hand and the one before it.
Current(s) ==
  LET e == engine[s]
      t == raw[e.tx]
      p == raw[e.parent]
  IN  /\ e.pc = "attempt" =>
           IF e.physical = 0 THEN e.parent = None
           ELSE /\ e.parent \in Finalized(raw)
                /\ p.session = s /\ p.key = e.request.key
                /\ p.physical = e.physical
      /\ e.pc \in Active =>
           /\ e.tx \in DOMAIN raw
           /\ t.session = s /\ t.key = e.request.key
           /\ t.physical = e.physical /\ t.retry = e.retried
           /\ t.final <=> e.pc \in Recording
      /\ e.pc \in Reported =>
           e.answer.kind \in {"response", "failure"} /\ t.outcome = e.answer.kind
      /\ e.pc \in {"revalidate", "write"} => e.base = progress[s]
      /\ e.pc = "decide" => progress[s].last = e.tx

Mine(s) == { id \in Finalized(raw) : raw[id].session = s }
Failures(s) == { id \in Mine(s) : raw[id].outcome = "failure" }
Retries(s) == { id \in Mine(s) : raw[id].retry > 0 }

\* Published, but not yet in the progress document.
Uncounted(s) ==
  IF engine[s].pc \in {"progress", "revalidate", "write"} THEN {engine[s].tx}
                                                          ELSE {}

Counts(s) ==
  LET doc == progress[s]
  IN  /\ ProgressValid(doc)
      /\ doc.last \in Mine(s) \cup {None}
      /\ doc.completed <= Cardinality(Mine(s) \ Uncounted(s))
      /\ doc.failures <= Cardinality(Failures(s) \ Uncounted(s))
      /\ doc.retries <= Cardinality(Retries(s) \ Uncounted(s))

\* A transaction execute returned for a key.
Good(s, k, id) ==
  /\ id \in returned
  /\ Admitted(raw, id)
  /\ raw[id].session = s /\ raw[id].key = k /\ raw[id].outcome = "response"

Registered(s) ==
  \A k \in DOMAIN registry[s] : Good(s, k, registry[s][k])

Commits(s) ==
  LET e == engine[s]
  IN  e.pc \in Committing =>
        /\ e.key \in Keys
        /\ Good(s, e.key, e.tx)
        /\ raw[e.tx].completed <= e.stamp /\ e.stamp <= clock[s]

Committed(s) ==
  \A k \in DOMAIN checkpoints[s] :
    LET c == checkpoints[s][k]
        t == raw[c.tx]
    IN  /\ Good(s, k, c.tx)
        /\ <<t.physical, t.redirect, t.retry>>
             = <<c.physical, c.redirect, c.retry>>
        /\ t.completed <= c.committed /\ c.committed <= clock[s]
        /\ s \notin orphaned /\ view[s].finished # 0 =>
             c.committed <= view[s].finished

Answer(s) ==
  outcome[s].kind = "ok" =>
    /\ Admitted(raw, outcome[s].tx)
    /\ raw[outcome[s].tx].outcome = "response"
    /\ progress[s].last = outcome[s].tx

SessionInv(s) ==
  /\ Life(s) /\ Attempts(s)
  /\ Policies(s) /\ Sent(s) /\ Current(s)
  /\ Counts(s)
  /\ Registered(s) /\ Commits(s) /\ Committed(s)
  /\ Answer(s)

IInv == Types /\ \A s \in Sessions : SessionInv(s)

-----------------------------------------------------------------------------
(* What the helpers do                                                     *)

LEMMA Constructors ==
  /\ NewProgress \in Progresses
  /\ Broken \in HttpAnswers
  /\ Idle \in Engines
  /\ \A pc \in PCs : [Idle EXCEPT !.pc = pc] \in Engines
<1>1. NewProgress \in Progresses
  BY DEF NewProgress, Progresses
<1>2. Broken \in HttpAnswers
  BY DEF Broken, HttpAnswers, Locations
<1>3. \A pc \in PCs : [Idle EXCEPT !.pc = pc] \in Engines
  BY <1>1, <1>2 DEF Idle, Engines
<1>4. Idle \in Engines
  BY <1>1, <1>2 DEF Idle, Engines, PCs
<1>5. QED
  BY <1>1, <1>2, <1>3, <1>4

LEMMA StepEffect ==
  ASSUME engine \in [Sessions -> Engines], NEW s \in Sessions,
         NEW e \in Engines, Step(s, e)
  PROVE  /\ engine' \in [Sessions -> Engines]
         /\ engine'[s] = e
         /\ \A t \in Sessions \ {s} : engine'[t] = engine[t]
  BY DEF Step

LEMMA ReturnEffect ==
  ASSUME engine \in [Sessions -> Engines],
         outcome = [t \in Sessions |-> outcome[t]], returned \subseteq TxIds,
         NEW s \in Sessions, NEW kind, Return(s, kind),
         kind = "ok" => engine[s].tx \in TxIds
  PROVE  /\ engine' \in [Sessions -> Engines]
         /\ engine'[s] = Idle
         /\ \A t \in Sessions \ {s} : engine'[t] = engine[t]
         /\ outcome' = [t \in Sessions |-> outcome'[t]]
         /\ outcome'[s].kind = kind
         /\ kind = "ok" => outcome'[s].tx = engine[s].tx
         /\ \A t \in Sessions \ {s} : outcome'[t] = outcome[t]
         /\ returned' \subseteq TxIds
         /\ returned \subseteq returned'
         /\ kind = "ok" => engine[s].tx \in returned'
<1> DEFINE id == IF kind = "recorder" THEN None ELSE engine[s].tx
           result == [kind |-> kind, tx |-> id]
<1>1. kind = "ok" => id = engine[s].tx
  OBVIOUS
<1>2. /\ Step(s, Idle) /\ outcome' = [outcome EXCEPT ![s] = result]
      /\ returned' = IF kind = "ok" THEN returned \cup {id} ELSE returned
  BY DEF Return
<1>3. Idle \in Engines
  BY Constructors
<1>4. result.kind = kind /\ result.tx = id
  OBVIOUS
<1> HIDE DEF id, result
<1>5. QED
  BY <1>1, <1>2, <1>3, <1>4, StepEffect

\* The raw root is numbered without gaps.
LEMMA Numbered ==
  ASSUME RawTyped
  PROVE  /\ Used \in Nat
         /\ raw \in [1 .. Used -> Transactions]
         /\ DOMAIN raw \subseteq TxIds
         /\ IsFiniteSet(DOMAIN raw)
<1>1. PICK n \in 0 .. MaxTransactions : raw \in [1 .. n -> Transactions]
  BY DEF RawTyped
<1>2. n \in Nat /\ n <= MaxTransactions
  BY MaxTransactionsAssumption
<1>3. DOMAIN raw = 1 .. n
  BY <1>1
<1>4. IsFiniteSet(1 .. n) /\ Cardinality(1 .. n) = n
  BY <1>2, FS_Interval
<1>5. QED
  BY <1>1, <1>2, <1>3, <1>4, MaxTransactionsAssumption DEF Used, TxIds

-----------------------------------------------------------------------------
(* Typing                                                                  *)

LEMMA StagedTyped ==
  ASSUME RawTyped, NEW t \in Transactions, Used + 1 \in TxIds,
         raw' = [i \in DOMAIN raw \cup {Used + 1} |->
                   IF i = Used + 1 THEN t ELSE raw[i]]
  PROVE  /\ RawTyped'
         /\ Used + 1 \notin DOMAIN raw
         /\ DOMAIN raw' = DOMAIN raw \cup {Used + 1}
         /\ raw'[Used + 1] = t
         /\ \A i \in DOMAIN raw : raw'[i] = raw[i]
<1> DEFINE n == Used
<1>1. n \in Nat /\ raw \in [1 .. n -> Transactions]
  BY Numbered
<1>2. raw' = [i \in DOMAIN raw \cup {n + 1} |-> IF i = n + 1 THEN t ELSE raw[i]]
      /\ n + 1 \in TxIds
  OBVIOUS
<1> HIDE DEF n
<1>3. DOMAIN raw = 1 .. n /\ (1 .. n) \cup {n + 1} = 1 .. (n + 1)
  BY <1>1
<1>4. raw' \in [1 .. (n + 1) -> Transactions]
  BY <1>1, <1>2, <1>3
<1>5. n + 1 \in 0 .. MaxTransactions
  BY <1>1, <1>2, MaxTransactionsAssumption DEF TxIds
<1>6. RawTyped'
  BY <1>4, <1>5 DEF RawTyped
<1>7. n + 1 \notin DOMAIN raw
  BY <1>1, <1>3
<1>8. /\ DOMAIN raw' = DOMAIN raw \cup {n + 1}
      /\ raw'[n + 1] = t
      /\ \A i \in DOMAIN raw : raw'[i] = raw[i]
  BY <1>2, <1>7
<1>9. QED
  BY <1>6, <1>7, <1>8 DEF n

LEMMA NewTransactionTyped ==
  ASSUME Types, NEW s \in Sessions, Policies(s), engine[s].pc = "attempt"
  PROVE  NewTransaction(s) \in Transactions
<1>1. engine[s].request \in HttpRequests
  BY DEF Policies, Executing
<1>2. /\ engine[s].request.key \in Keys \cup {None}
      /\ engine[s].parent \in TxIds \cup {None}
      /\ engine[s].physical + 1 \in Nat /\ engine[s].followed \in Nat
      /\ engine[s].retried \in Nat /\ clock[s] + 1 \in Nat
  BY <1>1 DEF Types, Engines, HttpRequests
<1>3. QED
  BY <1>2 DEF NewTransaction, Transactions, Outcomes, Now

LEMMA UpdateTyped ==
  ASSUME RawTyped, NEW id \in DOMAIN raw, NEW t \in Transactions,
         raw' = [raw EXCEPT ![id] = t]
  PROVE  /\ RawTyped'
         /\ DOMAIN raw' = DOMAIN raw
         /\ raw'[id] = t
         /\ \A i \in DOMAIN raw \ {id} : raw'[i] = raw[i]
<1>1. PICK n \in 0 .. MaxTransactions : raw \in [1 .. n -> Transactions]
  BY DEF RawTyped
<1>2. raw' \in [1 .. n -> Transactions] /\ DOMAIN raw' = DOMAIN raw
  BY <1>1
<1>3. RawTyped'
  BY <1>2 DEF RawTyped
<1>4. QED
  BY <1>1, <1>2, <1>3

LEMMA RawElement ==
  ASSUME RawTyped, NEW id \in DOMAIN raw
  PROVE  raw[id] \in Transactions /\ id \in TxIds
  BY Numbered

LEMMA RecordedTyped ==
  ASSUME Types, NEW s \in Sessions, engine[s].tx \in DOMAIN raw,
         NEW answer \in HttpAnswers
  PROVE  LET r == Recorded(s, answer)
             t == raw[engine[s].tx]
         IN  /\ r \in Transactions
             /\ r.session = t.session /\ r.key = t.key /\ r.parent = t.parent
             /\ r.physical = t.physical /\ r.redirect = t.redirect
             /\ r.retry = t.retry /\ r.created = t.created
             /\ r.final = t.final
             /\ answer.kind # "broken" =>
                  r.outcome = answer.kind /\ r.completed = Now(s)
             /\ answer.kind = "broken" => r.outcome = "incomplete"
<1> DEFINE t == raw[engine[s].tx]
<1>1. t \in Transactions
  BY RawElement DEF Types
<1>2. Now(s) \in Nat
  BY DEF Types, Now
<1>3. answer.kind \in {"response", "failure", "broken"}
  BY DEF HttpAnswers
<1>4. Recorded(s, answer) =
        IF answer.kind = "response"
          THEN [t EXCEPT !.outcome = "response", !.completed = Now(s)]
        ELSE IF answer.kind = "failure"
          THEN [t EXCEPT !.outcome = "failure", !.completed = Now(s)]
        ELSE [t EXCEPT !.outcome = "incomplete"]
  BY <1>3 DEF Recorded
<1> HIDE DEF t
<1>5. CASE answer.kind = "response"
  BY <1>1, <1>2, <1>4, <1>5 DEF Transactions, Outcomes, t
<1>6. CASE answer.kind = "failure"
  BY <1>1, <1>2, <1>4, <1>6 DEF Transactions, Outcomes, t
<1>7. CASE answer.kind = "broken"
  BY <1>1, <1>2, <1>4, <1>7 DEF Transactions, Outcomes, t
<1>8. QED
  BY <1>3, <1>5, <1>6, <1>7

LEMMA RedirectedTyped ==
  ASSUME NEW request \in HttpRequests, NEW status, NEW target \in Urls
  PROVE  LET r == RedirectedRequest(request, status, target)
         IN  /\ r \in HttpRequests
             /\ r.url = target /\ r.headers = ForwardedHeaders(request, target)
             /\ r.key = request.key /\ r.sensitive = request.sensitive
             /\ r.maxAttempts = request.maxAttempts
             /\ r.maxRedirects = request.maxRedirects
<1> DEFINE headers == ForwardedHeaders(request, target)
           method == IF status = 303
                       THEN (IF request.method = "HEAD" THEN "HEAD" ELSE "GET")
                       ELSE request.method
           body == status # 303 /\ request.body
<1>1. headers \subseteq request.headers
  BY DEF ForwardedHeaders
<1>2. headers \in SUBSET STRING
  BY <1>1 DEF HttpRequests
<1>3. method \in Methods
  BY DEF HttpRequests, Methods
<1>4. body \in BOOLEAN
  BY DEF HttpRequests
<1>5. RedirectedRequest(request, status, target) =
        [request EXCEPT !.url = target, !.headers = headers, !.method = method,
                        !.body = body]
  BY DEF RedirectedRequest
<1> HIDE DEF headers, method, body
<1>6. QED
  <2>1. LET r == [request EXCEPT !.url = target, !.headers = headers,
                                 !.method = method, !.body = body]
        IN  /\ r \in HttpRequests
            /\ r.url = target /\ r.headers = headers
            /\ r.key = request.key /\ r.sensitive = request.sensitive
            /\ r.maxAttempts = request.maxAttempts
            /\ r.maxRedirects = request.maxRedirects
    BY <1>2, <1>3, <1>4 DEF HttpRequests
  <2>2. QED
    BY <2>1, <1>5 DEF headers

\* A redirect is followed to a URL not seen yet, within the policy.
LEMMA Redirecting ==
  ASSUME NEW request, NEW retried, NEW followed, NEW seen,
         NEW answer \in HttpAnswers, answer.kind # "broken",
         Verdict(request, retried, followed, seen, answer) = "redirect"
  PROVE  /\ answer.kind = "response"
         /\ answer.target \in Urls \ seen
         /\ ~ followed >= request.maxRedirects
<1>1. answer.kind \in {"response", "failure"}
  BY DEF HttpAnswers
<1>2. answer.kind # "failure"
  BY DEF Verdict, RetryVerdict
<1>3. IsRedirect(answer)
  BY <1>2 DEF Verdict, RetryVerdict
<1>4. RedirectVerdict(request, followed, seen, answer) = "redirect"
  BY <1>2, <1>3 DEF Verdict
<1>5. RedirectRefusal(answer) = "none" /\ ~ followed >= request.maxRedirects
      /\ answer.target \notin seen
  <2>1. RedirectRefusal(answer) # "redirect"
    BY DEF RedirectRefusal
  <2>2. QED
    BY <1>4, <2>1 DEF RedirectVerdict
<1>6. answer.location \in Locations
  BY DEF HttpAnswers
<1>7. answer.location = "url"
  BY <1>5, <1>6 DEF RedirectRefusal, Locations
<1>8. answer.target \in Urls
  BY <1>7 DEF HttpAnswers
<1>9. QED
  BY <1>1, <1>2, <1>5, <1>8

LEMMA Retrying ==
  ASSUME NEW request, NEW retried, NEW followed, NEW seen, NEW answer,
         Verdict(request, retried, followed, seen, answer) = "retry"
  PROVE  retried + 1 < request.maxAttempts
<1>1. RedirectRefusal(answer) # "retry"
  BY DEF RedirectRefusal
<1>2. RedirectVerdict(request, followed, seen, answer) # "retry"
  BY <1>1 DEF RedirectVerdict
<1>3. RetryVerdict(request, retried, answer, "ok") = "retry"
      \/ RetryVerdict(request, retried, answer, "transport_failure") = "retry"
  BY <1>2 DEF Verdict
<1>4. QED
  BY <1>3 DEF RetryVerdict, MayRetryAgain

LEMMA Accepting ==
  ASSUME NEW request, NEW retried, NEW followed, NEW seen, NEW answer,
         Verdict(request, retried, followed, seen, answer) = "ok"
  PROVE  answer.kind # "failure"
  BY DEF Verdict, RetryVerdict

\* The engine's records, step by step.
LEMMA ExecuteEngine ==
  ASSUME NEW request \in HttpRequests
  PROVE  LET e == [Idle EXCEPT !.pc = "attempt", !.caller = request,
                               !.request = request, !.seen = {request.url}]
         IN  /\ e \in Engines
             /\ e.pc = "attempt" /\ e.caller = request /\ e.request = request
             /\ e.seen = {request.url} /\ e.physical = 0 /\ e.parent = None
             /\ e.followed = 0 /\ e.retried = 0
<1>1. {request.url} \subseteq Urls
  BY DEF HttpRequests
<1>2. Idle \in Engines
  BY Constructors
<1>3. Idle.physical = 0 /\ Idle.parent = None /\ Idle.followed = 0
      /\ Idle.retried = 0
  BY DEF Idle
<1>4. "attempt" \in PCs /\ request \in HttpRequests \cup {None}
      /\ {request.url} \in SUBSET Urls
  BY <1>1 DEF PCs, Executing
<1> DEFINE url == request.url
<1> HIDE DEF url
<1>5. LET e == [Idle EXCEPT !.pc = "attempt", !.caller = request,
                            !.request = request, !.seen = {url}]
      IN  /\ e \in Engines
          /\ e.pc = "attempt" /\ e.caller = request /\ e.request = request
          /\ e.seen = {url} /\ e.physical = Idle.physical
          /\ e.parent = Idle.parent /\ e.followed = Idle.followed
          /\ e.retried = Idle.retried
  BY <1>2, <1>4 DEF Engines, url
<1>6. QED
  BY <1>3, <1>5 DEF url

LEMMA StageEngine ==
  ASSUME NEW e \in Engines, NEW id \in TxIds
  PROVE  LET f == [e EXCEPT !.pc = "exchange", !.tx = id, !.physical = @ + 1]
         IN  /\ f \in Engines
             /\ f.pc = "exchange" /\ f.tx = id /\ f.physical = e.physical + 1
             /\ f.caller = e.caller /\ f.request = e.request
             /\ f.followed = e.followed /\ f.retried = e.retried
             /\ f.seen = e.seen
<1>1. "exchange" \in PCs
  BY DEF PCs, Executing
<1>2. e.physical + 1 \in Nat /\ id \in TxIds \cup {None}
  BY DEF Engines
<1>3. QED
  BY <1>1, <1>2 DEF Engines

LEMMA PublishEngine ==
  ASSUME NEW e \in Engines, NEW answer \in HttpAnswers
  PROVE  LET f == [e EXCEPT !.pc = "publish", !.answer = answer]
         IN  /\ f \in Engines
             /\ f.pc = "publish" /\ f.tx = e.tx /\ f.physical = e.physical
             /\ f.caller = e.caller /\ f.request = e.request
             /\ f.followed = e.followed /\ f.retried = e.retried
             /\ f.seen = e.seen /\ f.answer = answer
<1>1. "publish" \in PCs
  BY DEF PCs, Executing
<1>2. QED
  BY <1>1 DEF Engines

LEMMA ReadEngine ==
  ASSUME NEW e \in Engines, NEW doc \in Progresses
  PROVE  LET f == [e EXCEPT !.pc = "revalidate", !.base = doc]
         IN  /\ f \in Engines
             /\ f.pc = "revalidate" /\ f.tx = e.tx /\ f.physical = e.physical
             /\ f.caller = e.caller /\ f.request = e.request
             /\ f.followed = e.followed /\ f.retried = e.retried
             /\ f.seen = e.seen /\ f.answer = e.answer /\ f.base = doc
<1>1. "revalidate" \in PCs
  BY DEF PCs, Executing
<1>2. QED
  BY <1>1 DEF Engines

LEMMA GotoEngine ==
  ASSUME NEW e \in Engines, NEW pc \in PCs
  PROVE  LET f == [e EXCEPT !.pc = pc]
         IN  /\ f \in Engines
             /\ f.pc = pc /\ f.tx = e.tx /\ f.physical = e.physical
             /\ f.caller = e.caller /\ f.request = e.request
             /\ f.followed = e.followed /\ f.retried = e.retried
             /\ f.seen = e.seen /\ f.answer = e.answer /\ f.base = e.base
             /\ f.key = e.key /\ f.stamp = e.stamp
  BY DEF Engines

LEMMA GotoEffect ==
  ASSUME engine \in [Sessions -> Engines], NEW s \in Sessions,
         NEW pc \in PCs, Goto(s, pc)
  PROVE  LET e == engine[s]
             f == engine'[s]
         IN  /\ engine' \in [Sessions -> Engines]
             /\ \A t \in Sessions \ {s} : engine'[t] = engine[t]
             /\ f.pc = pc /\ f.tx = e.tx /\ f.physical = e.physical
             /\ f.caller = e.caller /\ f.request = e.request
             /\ f.followed = e.followed /\ f.retried = e.retried
             /\ f.seen = e.seen /\ f.answer = e.answer /\ f.base = e.base
             /\ f.key = e.key /\ f.stamp = e.stamp
<1> DEFINE f == [engine[s] EXCEPT !.pc = pc]
<1>1. engine[s] \in Engines
  OBVIOUS
<1>2. LET e == engine[s]
      IN  /\ f \in Engines
          /\ f.pc = pc /\ f.tx = e.tx /\ f.physical = e.physical
          /\ f.caller = e.caller /\ f.request = e.request
          /\ f.followed = e.followed /\ f.retried = e.retried
          /\ f.seen = e.seen /\ f.answer = e.answer /\ f.base = e.base
          /\ f.key = e.key /\ f.stamp = e.stamp
  BY <1>1, GotoEngine
<1>3. Step(s, f)
  BY DEF Goto
<1> HIDE DEF f
<1>4. /\ engine' \in [Sessions -> Engines] /\ engine'[s] = f
      /\ \A t \in Sessions \ {s} : engine'[t] = engine[t]
  BY <1>2, <1>3, StepEffect
<1>5. QED
  BY <1>2, <1>4

LEMMA RetryEngine ==
  ASSUME NEW e \in Engines
  PROVE  LET f == [e EXCEPT !.pc = "attempt", !.parent = e.tx, !.retried = @ + 1]
         IN  /\ f \in Engines
             /\ f.pc = "attempt" /\ f.parent = e.tx /\ f.physical = e.physical
             /\ f.caller = e.caller /\ f.request = e.request
             /\ f.followed = e.followed /\ f.retried = e.retried + 1
             /\ f.seen = e.seen
<1>1. "attempt" \in PCs
  BY DEF PCs, Executing
<1>2. e.retried + 1 \in Nat /\ e.tx \in TxIds \cup {None}
  BY DEF Engines
<1>3. QED
  BY <1>1, <1>2 DEF Engines

\* The engine after a redirect.
Redirected(e, status, target) ==
  [e EXCEPT !.pc = "attempt", !.parent = e.tx, !.retried = 0,
            !.followed = @ + 1, !.seen = @ \cup {target},
            !.request = RedirectedRequest(@, status, target)]

LEMMA RedirectEngine ==
  ASSUME NEW e \in Engines, e.request \in HttpRequests, NEW status,
         NEW target \in Urls
  PROVE  LET f == Redirected(e, status, target)
         IN  /\ f \in Engines
             /\ f.pc = "attempt" /\ f.parent = e.tx /\ f.physical = e.physical
             /\ f.caller = e.caller
             /\ f.request = RedirectedRequest(e.request, status, target)
             /\ f.followed = e.followed + 1 /\ f.retried = 0
             /\ f.seen = e.seen \cup {target}
<1> DEFINE request == RedirectedRequest(e.request, status, target)
<1>1. request \in HttpRequests
  BY RedirectedTyped
<1>2. e.seen \cup {target} \in SUBSET Urls
  BY DEF Engines
<1>3. "attempt" \in PCs
  BY DEF PCs, Executing
<1>4. /\ e.seen \cup {target} \in SUBSET Urls
      /\ request \in HttpRequests \cup {None}
      /\ e.tx \in TxIds \cup {None} /\ e.followed + 1 \in Nat
  BY <1>1, <1>2 DEF Engines
<1> HIDE DEF request
<1>5. LET f == [e EXCEPT
                  !.pc = "attempt", !.parent = e.tx, !.retried = 0,
                  !.followed = @ + 1, !.seen = @ \cup {target},
                  !.request = request]
      IN  /\ f \in Engines
          /\ f.pc = "attempt" /\ f.parent = e.tx /\ f.physical = e.physical
          /\ f.caller = e.caller /\ f.request = request
          /\ f.followed = e.followed + 1 /\ f.retried = 0
          /\ f.seen = e.seen \cup {target}
  BY <1>3, <1>4 DEF Engines
<1>6. QED
  BY <1>5 DEF request, Redirected

\* The engine that begins to commit.
AboutToCommit(key, id, stamp) ==
  [Idle EXCEPT !.pc = "commit", !.key = key, !.tx = id, !.stamp = stamp]

LEMMA CommitEngine ==
  ASSUME NEW key \in Keys, NEW id \in TxIds, NEW stamp \in Nat
  PROVE  LET f == AboutToCommit(key, id, stamp)
         IN  /\ f \in Engines
             /\ f.pc = "commit" /\ f.key = key /\ f.tx = id /\ f.stamp = stamp
<1>1. Idle \in Engines
  BY Constructors
<1>2. "commit" \in PCs /\ key \in Keys \cup {None} /\ id \in TxIds \cup {None}
  BY DEF PCs, Committing
<1>3. QED
  BY <1>1, <1>2 DEF Engines, AboutToCommit

LEMMA IdleEngine ==
  /\ Idle.pc = "idle"
  /\ \A pc \in PCs : [Idle EXCEPT !.pc = pc].pc = pc
  BY DEF Idle

-----------------------------------------------------------------------------
(* Steps of one session and what they leave alone                          *)

\* Directories are only added, and changed only before they are published, by
\* the session they belong to.
RawStep(s) ==
  /\ \A id \in DOMAIN raw :
       /\ id \in DOMAIN raw'
       /\ \/ raw'[id] = raw[id]
          \/ ~ raw[id].final /\ raw[id].session = s /\ raw'[id].session = s
  /\ \A id \in DOMAIN raw' \ DOMAIN raw : raw'[id].session = s

\* Nothing of another session changes.
Apart(s) ==
  /\ \A t \in Sessions \ {s} :
       /\ clock'[t] = clock[t] /\ view'[t] = view[t] /\ lease'[t] = lease[t]
       /\ t \in orphaned' <=> t \in orphaned
       /\ progress'[t] = progress[t] /\ checkpoints'[t] = checkpoints[t]
       /\ engine'[t] = engine[t] /\ registry'[t] = registry[t]
       /\ outcome'[t] = outcome[t] /\ exchanges'[t] = exchanges[t]
  /\ returned \subseteq returned'
  /\ RawStep(s)

\* What is published stays as it is.
Kept == \A id \in Finalized(raw) : id \in DOMAIN raw' /\ raw'[id] = raw[id]

\* The session's own time: it is not forgotten, its clock does not run
\* backwards, and it ends after everything it stamped, unless it is orphaned.
Later(s) ==
  /\ view[s].state # "absent" =>
       view'[s].state # "absent" /\ view'[s].started = view[s].started
  /\ clock[s] <= clock'[s]
  /\ s \notin orphaned' =>
       /\ s \notin orphaned
       /\ view'[s].finished # 0 =>
            view'[s].finished = view[s].finished \/ clock[s] <= view'[s].finished

LEMMA SessionTypes ==
  ASSUME Types, NEW s \in Sessions
  PROVE  /\ clock[s] \in Nat
         /\ view[s] \in SessionViews
         /\ view[s].state \in {"absent", "running", "ended"}
         /\ view[s].started \in Nat /\ view[s].finished \in Nat
         /\ progress[s] \in Progresses
         /\ engine[s] \in Engines
         /\ exchanges[s] \in SUBSET Sendings
         /\ DOMAIN registry[s] \subseteq Keys
         /\ DOMAIN checkpoints[s] \subseteq Keys
  BY DEF Types, SessionViews, RegistryTyped, CheckpointsTyped

LEMMA RawStepKept ==
  ASSUME NEW s \in Sessions, RawStep(s)
  PROVE  Kept /\ Finalized(raw) \subseteq Finalized(raw')
  BY DEF RawStep, Kept, Finalized

LEMMA AdmittedKept ==
  ASSUME Kept, NEW id, Admitted(raw, id)
  PROVE  /\ Admitted(raw', id)
         /\ id \in DOMAIN raw /\ id \in DOMAIN raw' /\ raw'[id] = raw[id]
<1>1. id \in Finalized(raw)
  BY DEF Admitted, DirectoryComplete, ResponseAdmitted, Finalized
<1>2. id \in DOMAIN raw /\ id \in DOMAIN raw' /\ raw'[id] = raw[id]
  BY <1>1 DEF Kept, Finalized
<1>3. QED
  BY <1>2 DEF Admitted, DirectoryComplete, ResponseAdmitted, AttemptIdentity

LEMMA GoodKept ==
  ASSUME Kept, returned \subseteq returned',
         NEW s \in Sessions, NEW k, NEW id, Good(s, k, id)
  PROVE  Good(s, k, id)' /\ raw'[id] = raw[id]
<1>1. Admitted(raw, id)
  BY DEF Good
<1>2. Admitted(raw', id) /\ raw'[id] = raw[id]
  BY <1>1, AdmittedKept
<1>3. QED
  BY <1>2 DEF Good

\* The attempts another session made are none of this step's business.
LEMMA AttemptsElsewhere ==
  ASSUME NEW s \in Sessions, NEW t \in Sessions \ {s}, Attempts(t), Apart(s)
  PROVE  Attempts(t)'
<1>1. SUFFICES ASSUME NEW id \in DOMAIN raw', raw'[id].session = t
               PROVE  Attempt(id)'
  BY DEF Attempts
<1>2. id \in DOMAIN raw /\ raw'[id] = raw[id]
  BY <1>1 DEF Apart, RawStep
<1>3. Attempt(id)
  BY <1>1, <1>2 DEF Attempts
<1>4. Kept /\ Finalized(raw) \subseteq Finalized(raw')
  BY RawStepKept DEF Apart
<1>5. clock'[t] = clock[t] /\ view'[t] = view[t]
      /\ (t \in orphaned' <=> t \in orphaned)
  BY DEF Apart
<1>6. raw[id].parent \in Finalized(raw) =>
        /\ raw[id].parent \in Finalized(raw')
        /\ raw'[raw[id].parent] = raw[raw[id].parent]
  BY <1>4 DEF Kept
<1>7. QED
  BY <1>1, <1>2, <1>3, <1>5, <1>6 DEF Attempt, Answered

LEMMA MineElsewhere ==
  ASSUME NEW s \in Sessions, NEW t \in Sessions \ {s}, RawStep(s)
  PROVE  Mine(t)' = Mine(t) /\ Failures(t)' = Failures(t)
         /\ Retries(t)' = Retries(t)
         /\ \A id \in DOMAIN raw : raw[id].session = t => raw'[id] = raw[id]
<1>1. \A id \in DOMAIN raw : raw[id].session = t =>
        id \in DOMAIN raw' /\ raw'[id] = raw[id]
  BY DEF RawStep
<1>2. \A id \in DOMAIN raw' : raw'[id].session = t =>
        id \in DOMAIN raw /\ raw'[id] = raw[id]
  BY DEF RawStep
<1>3. Mine(t)' = Mine(t)
  BY <1>1, <1>2 DEF Mine, Finalized
<1>4. \A id \in Mine(t) : raw'[id] = raw[id]
  BY <1>1 DEF Mine, Finalized
<1>5. Failures(t)' = Failures(t) /\ Retries(t)' = Retries(t)
  BY <1>3, <1>4 DEF Failures, Retries
<1>6. QED
  BY <1>1, <1>3, <1>5

LEMMA Elsewhere ==
  ASSUME NEW s \in Sessions, NEW t \in Sessions \ {s}, SessionInv(t), Apart(s)
  PROVE  SessionInv(t)'
<1>1. /\ clock'[t] = clock[t] /\ view'[t] = view[t] /\ lease'[t] = lease[t]
      /\ t \in orphaned' <=> t \in orphaned
      /\ progress'[t] = progress[t] /\ checkpoints'[t] = checkpoints[t]
      /\ engine'[t] = engine[t] /\ registry'[t] = registry[t]
      /\ outcome'[t] = outcome[t] /\ exchanges'[t] = exchanges[t]
      /\ returned \subseteq returned'
      /\ RawStep(s)
  BY DEF Apart
<1>2. Kept /\ Finalized(raw) \subseteq Finalized(raw')
  BY <1>1, RawStepKept
<1>3. \A k, id : Good(t, k, id) => Good(t, k, id)' /\ raw'[id] = raw[id]
  BY <1>1, <1>2, GoodKept
<1>4. \A id : Admitted(raw, id) => Admitted(raw', id) /\ raw'[id] = raw[id]
  BY <1>2, AdmittedKept
<1>5. Life(t)'
  BY <1>1 DEF SessionInv, Life
<1>6. Attempts(t)'
  BY AttemptsElsewhere DEF SessionInv
<1>7. Policies(t)'
  BY <1>1 DEF SessionInv, Policies
<1>8. Sent(t)'
  BY <1>1 DEF SessionInv, Sent, SentTo
<1>9. Current(t)'
  <2>1. \A id \in DOMAIN raw : raw[id].session = t =>
          id \in DOMAIN raw' /\ raw'[id] = raw[id]
    BY <1>1 DEF RawStep
  <2>2. \A id \in Finalized(raw) : id \in Finalized(raw') /\ raw'[id] = raw[id]
    BY <1>2 DEF Kept
  <2>3. Current(t)
    BY DEF SessionInv
  <2>4. engine'[t] = engine[t] /\ progress'[t] = progress[t]
    BY <1>1
  <2>5. engine[t].pc = "attempt" /\ engine[t].physical # 0 =>
          /\ engine[t].parent \in Finalized(raw')
          /\ raw'[engine[t].parent] = raw[engine[t].parent]
    BY <2>2, <2>3 DEF Current
  <2>6. engine[t].pc \in Active =>
          /\ engine[t].tx \in DOMAIN raw'
          /\ raw'[engine[t].tx] = raw[engine[t].tx]
    BY <2>1, <2>3 DEF Current
  <2>7. engine[t].pc \in Reported => engine[t].pc \in Active
    BY DEF Reported, Active
  <2>8. QED
    BY <2>3, <2>4, <2>5, <2>6, <2>7 DEF Current
<1>10. Counts(t)'
  <2>1. Mine(t)' = Mine(t) /\ Failures(t)' = Failures(t)
        /\ Retries(t)' = Retries(t)
    BY <1>1, MineElsewhere
  <2>2. Uncounted(t)' = Uncounted(t)
    BY <1>1 DEF Uncounted
  <2>3. QED
    BY <1>1, <2>1, <2>2 DEF SessionInv, Counts
<1>11. Registered(t)' /\ Commits(t)' /\ Committed(t)' /\ Answer(t)'
  <2>1. Registered(t)'
    BY <1>1, <1>3 DEF SessionInv, Registered
  <2>2. Commits(t)'
    BY <1>1, <1>3 DEF SessionInv, Commits
  <2>3. Committed(t)'
    BY <1>1, <1>3 DEF SessionInv, Committed
  <2>4. Answer(t)'
    BY <1>1, <1>4 DEF SessionInv, Answer
  <2>5. QED
    BY <2>1, <2>2, <2>3, <2>4
<1>12. QED
  BY <1>5, <1>6, <1>7, <1>8, <1>9, <1>10, <1>11 DEF SessionInv

-----------------------------------------------------------------------------
(* What a step of a session keeps of its own                               *)

FinitelyMany ==
  \A s \in Sessions : /\ IsFiniteSet(Mine(s)) /\ IsFiniteSet(Failures(s))
                      /\ IsFiniteSet(Retries(s))

LEMMA MineFinite == RawTyped => FinitelyMany
<1>1. SUFFICES ASSUME RawTyped, NEW s \in Sessions
               PROVE  /\ IsFiniteSet(Mine(s)) /\ IsFiniteSet(Failures(s))
                      /\ IsFiniteSet(Retries(s))
  BY DEF FinitelyMany
<1>2. IsFiniteSet(DOMAIN raw)
  BY <1>1, Numbered
<1>3. Mine(s) \subseteq DOMAIN raw /\ Failures(s) \subseteq DOMAIN raw
      /\ Retries(s) \subseteq DOMAIN raw
  BY DEF Mine, Failures, Retries, Finalized
<1>4. QED
  BY <1>2, <1>3, FS_Subset

LEMMA AttemptKept ==
  ASSUME Types, Types', NEW s \in Sessions, Later(s), Kept,
         NEW id \in DOMAIN raw, raw[id].session = s, raw'[id] = raw[id],
         Attempt(id)
  PROVE  Attempt(id)'
<1> DEFINE t == raw[id]
           p == raw[id].parent
<1>1. t \in Transactions
  BY RawElement DEF Types
<1>2. /\ t.created \in Nat /\ t.completed \in Nat /\ clock[s] \in Nat
      /\ clock'[s] \in Nat /\ view'[s].finished \in Nat /\ view[s].finished \in Nat
  BY <1>1, SessionTypes DEF Types, Transactions, SessionViews
<1>3. /\ AttemptIdentity(t.physical, t.redirect, t.retry)
      /\ view[s].state # "absent"
      /\ 0 < t.created /\ view[s].started <= t.created /\ t.created <= clock[s]
      /\ Answered(t) => t.created <= t.completed /\ t.completed <= clock[s]
      /\ Answered(t) /\ s \notin orphaned /\ view[s].finished # 0 =>
           t.completed <= view[s].finished
      /\ t.final => Answered(t)
      /\ t.physical = 1 => p = None
      /\ p # id
      /\ t.physical > 1 =>
           /\ p \in Finalized(raw)
           /\ raw[p].session = s /\ raw[p].key = t.key
           /\ raw[p].physical + 1 = t.physical
           /\ raw[p].completed <= t.created
  BY DEF Attempt
<1>4. p \in Finalized(raw) => p \in Finalized(raw') /\ raw'[p] = raw[p]
  BY DEF Kept, Finalized
<1>5. view'[s].state # "absent" /\ view'[s].started = view[s].started
      /\ t.created <= clock'[s] /\ (Answered(t) => t.completed <= clock'[s])
  BY <1>2, <1>3 DEF Later
<1>6. Answered(t) /\ s \notin orphaned' /\ view'[s].finished # 0 =>
        t.completed <= view'[s].finished
  BY <1>2, <1>3 DEF Later
<1>7. raw'[id] = t /\ raw'[id].session = s /\ raw'[id].parent = p
  OBVIOUS
<1>8. Answered(raw'[id]) <=> Answered(t)
  BY <1>7 DEF Answered
<1> HIDE DEF t, p
<1>9. QED
  BY <1>3, <1>4, <1>5, <1>6, <1>7, <1>8 DEF Attempt, Answered

LEMMA AttemptsKept ==
  ASSUME Types, Types', NEW s \in Sessions, Later(s), Attempts(s), raw' = raw
  PROVE  Attempts(s)' /\ Kept
<1>1. Kept
  BY DEF Kept, Finalized
<1>2. \A id \in DOMAIN raw : raw[id].session = s => Attempt(id)'
  BY <1>1, AttemptKept DEF Attempts
<1>3. QED
  BY <1>1, <1>2 DEF Attempts

LEMMA CommittedKept ==
  ASSUME Types, Types', NEW s \in Sessions, Later(s), Kept,
         returned \subseteq returned', checkpoints'[s] = checkpoints[s],
         Committed(s)
  PROVE  Committed(s)'
<1>1. SUFFICES ASSUME NEW k \in DOMAIN checkpoints[s]
               PROVE  LET c == checkpoints[s][k]
                          t == raw'[c.tx]
                      IN  /\ Good(s, k, c.tx)'
                          /\ <<t.physical, t.redirect, t.retry>>
                               = <<c.physical, c.redirect, c.retry>>
                          /\ t.completed <= c.committed /\ c.committed <= clock'[s]
                          /\ s \notin orphaned' /\ view'[s].finished # 0 =>
                               c.committed <= view'[s].finished
  BY DEF Committed
<1> DEFINE c == checkpoints[s][k]
<1>2. c \in Checkpoints
  BY DEF Types, CheckpointsTyped
<1>3. c.committed \in Nat /\ clock[s] \in Nat /\ clock'[s] \in Nat
      /\ view'[s].finished \in Nat /\ view[s].finished \in Nat
  BY <1>2, SessionTypes DEF Types, Checkpoints, SessionViews
<1>4. /\ Good(s, k, c.tx)
      /\ <<raw[c.tx].physical, raw[c.tx].redirect, raw[c.tx].retry>>
           = <<c.physical, c.redirect, c.retry>>
      /\ raw[c.tx].completed <= c.committed /\ c.committed <= clock[s]
      /\ s \notin orphaned /\ view[s].finished # 0 =>
           c.committed <= view[s].finished
  BY DEF Committed
<1>5. Good(s, k, c.tx)' /\ raw'[c.tx] = raw[c.tx]
  BY <1>4, GoodKept
<1>6. s \notin orphaned' /\ view'[s].finished # 0 => c.committed <= view'[s].finished
  BY <1>3, <1>4 DEF Later
<1>7. c.committed <= clock'[s]
  BY <1>3, <1>4 DEF Later
<1> HIDE DEF c
<1>8. QED
  BY <1>4, <1>5, <1>6, <1>7 DEF c

LEMMA RegisteredKept ==
  ASSUME NEW s \in Sessions, Kept, returned \subseteq returned',
         registry'[s] = registry[s], Registered(s)
  PROVE  Registered(s)'
  BY GoodKept DEF Registered

LEMMA AnswerKept ==
  ASSUME NEW s \in Sessions, Kept, outcome'[s] = outcome[s],
         progress'[s] = progress[s], Answer(s)
  PROVE  Answer(s)'
<1>1. \A id : Admitted(raw, id) => Admitted(raw', id) /\ raw'[id] = raw[id]
  BY AdmittedKept
<1>2. QED
  BY <1>1 DEF Answer

LEMMA CountsKept ==
  ASSUME Types, Types', NEW s \in Sessions, Kept, progress'[s] = progress[s],
         Mine(s) \cap Uncounted(s)' \subseteq Uncounted(s), Counts(s)
  PROVE  Counts(s)'
<1>1. \A id \in Mine(s) : id \in Mine(s)' /\ raw'[id] = raw[id]
  BY DEF Mine, Kept, Finalized
<1>2. /\ Mine(s) \ Uncounted(s) \subseteq Mine(s)' \ Uncounted(s)'
      /\ Failures(s) \ Uncounted(s) \subseteq Failures(s)' \ Uncounted(s)'
      /\ Retries(s) \ Uncounted(s) \subseteq Retries(s)' \ Uncounted(s)'
  BY <1>1 DEF Failures, Retries
<1>3. /\ IsFiniteSet(Mine(s)') /\ IsFiniteSet(Failures(s)')
      /\ IsFiniteSet(Retries(s)')
  <2>1. RawTyped' => FinitelyMany'
    BY MineFinite, PTL
  <2>2. QED
    BY <2>1 DEF Types, FinitelyMany
<1>4. /\ IsFiniteSet(Mine(s)' \ Uncounted(s)')
      /\ IsFiniteSet(Failures(s)' \ Uncounted(s)')
      /\ IsFiniteSet(Retries(s)' \ Uncounted(s)')
  BY <1>3, FS_Subset
<1> DEFINE m == Mine(s) \ Uncounted(s)
           f == Failures(s) \ Uncounted(s)
           r == Retries(s) \ Uncounted(s)
           mm == Mine(s)' \ Uncounted(s)'
           ff == Failures(s)' \ Uncounted(s)'
           rr == Retries(s)' \ Uncounted(s)'
<1>5. /\ Cardinality(m) <= Cardinality(mm) /\ Cardinality(f) <= Cardinality(ff)
      /\ Cardinality(r) <= Cardinality(rr)
  BY <1>2, <1>4, FS_Subset
<1>6. /\ Cardinality(m) \in Nat /\ Cardinality(mm) \in Nat
      /\ Cardinality(f) \in Nat /\ Cardinality(ff) \in Nat
      /\ Cardinality(r) \in Nat /\ Cardinality(rr) \in Nat
  BY <1>2, <1>4, FS_Subset, FS_CardinalityType
<1>7. LET doc == progress[s]
      IN  /\ ProgressValid(doc) /\ doc.last \in Mine(s) \cup {None}
          /\ doc.completed <= Cardinality(m) /\ doc.failures <= Cardinality(f)
          /\ doc.retries <= Cardinality(r)
          /\ doc.completed \in Nat /\ doc.failures \in Nat /\ doc.retries \in Nat
  BY SessionTypes DEF Counts, Progresses
<1> HIDE DEF m, f, r, mm, ff, rr
<1>8. LET doc == progress'[s]
      IN  /\ ProgressValid(doc) /\ doc.last \in Mine(s)' \cup {None}
          /\ doc.completed <= Cardinality(mm) /\ doc.failures <= Cardinality(ff)
          /\ doc.retries <= Cardinality(rr)
  BY <1>1, <1>5, <1>6, <1>7
<1>9. QED
  BY <1>8 DEF Counts, mm, ff, rr, ProgressValid

\* The engine stops, whatever it was at: nothing is left to hold about a
\* request, and what was published is counted or not.
LEMMA Leaving ==
  ASSUME Types, Types', NEW s \in Sessions, SessionInv(s), Later(s), Kept,
         engine'[s].pc \notin Executing,
         engine'[s].pc \in Committing => Commits(s)',
         returned \subseteq returned',
         progress'[s] = progress[s] \/ Counts(s)',
         registry'[s] = registry[s] \/ Registered(s)',
         checkpoints'[s] = checkpoints[s] \/ Committed(s)',
         Life(s)', Attempts(s)', Answer(s)'
  PROVE  SessionInv(s)'
<1>1. Policies(s)' /\ Sent(s)' /\ Current(s)' /\ Commits(s)'
  <2>1. Active \subseteq Executing /\ Reported \subseteq Executing
        /\ {"revalidate", "write", "decide", "attempt"} \subseteq Executing
    BY DEF Active, Reported, Executing
  <2>2. QED
    BY <2>1 DEF Policies, Sent, Current, Commits
<1>2. Uncounted(s)' = {}
  BY DEF Uncounted, Executing
<1>3. Counts(s)'
  BY <1>2, CountsKept DEF SessionInv
<1>4. Registered(s)' /\ Committed(s)'
  BY RegisteredKept, CommittedKept DEF SessionInv
<1>5. QED
  BY <1>1, <1>3, <1>4 DEF SessionInv

\* The engine goes on with its request.
LEMMA Working ==
  ASSUME Types, Types', NEW s \in Sessions, SessionInv(s), Later(s), Kept,
         engine'[s].pc \in Executing,
         returned \subseteq returned', registry'[s] = registry[s],
         checkpoints'[s] = checkpoints[s],
         Life(s)', Attempts(s)', Policies(s)', Sent(s)', Current(s)', Counts(s)'
  PROVE  SessionInv(s)'
<1>1. Commits(s)'
  BY DEF Commits, Executing, Committing
<1>2. outcome'[s] = NoOutcome
  BY DEF Policies
<1>3. Answer(s)'
  BY <1>2 DEF Answer, NoOutcome
<1>4. Registered(s)' /\ Committed(s)'
  BY RegisteredKept, CommittedKept DEF SessionInv
<1>5. QED
  BY <1>1, <1>3, <1>4 DEF SessionInv

\* A step of the engine does not concern the session's record and lease.
LEMMA LifeKept ==
  ASSUME Types, NEW s \in Sessions, SessionInv(s),
         view' = view, lease' = lease, orphaned' = orphaned,
         clock'[s] \in Nat, clock[s] <= clock'[s],
         engine[s].pc \notin {"off", "ended", "dead"},
         engine'[s].pc \notin {"off", "ended", "dead"}
  PROVE  /\ Life(s)' /\ Later(s)
         /\ view[s].state # "absent"
         /\ s \notin orphaned => view[s].finished = 0
<1>1. clock[s] \in Nat /\ view[s].started \in Nat
  BY SessionTypes
<1>2. Life(s)
  BY DEF SessionInv
<1>3. view[s].state # "absent" /\ (s \notin orphaned => view[s].finished = 0)
  BY <1>2 DEF Life
<1>4. Later(s)
  BY <1>3 DEF Later
<1>5. Life(s)'
  BY <1>1, <1>2, <1>3 DEF Life
<1>6. QED
  BY <1>3, <1>4, <1>5

-----------------------------------------------------------------------------
(* The session around the engine                                           *)

\* A step that concerns the session's record and lease only.
LEMMA Around ==
  ASSUME Types, NEW s \in Sessions, SessionInv(s),
         UNCHANGED <<raw, progress, checkpoints, engine, registry, outcome,
                     returned, exchanges>>,
         clock' \in [Sessions -> Nat], view' \in [Sessions -> SessionViews],
         lease' \in [Sessions -> {"free", "supervisor", "reconciler"}],
         ending' \in [Sessions -> Nat], orphaned' \subseteq Sessions,
         \A t \in Sessions \ {s} :
           /\ clock'[t] = clock[t] /\ view'[t] = view[t] /\ lease'[t] = lease[t]
           /\ t \in orphaned' <=> t \in orphaned,
         Later(s), Life(s)'
  PROVE  Types' /\ Apart(s) /\ SessionInv(s)'
<1>1. /\ raw' = raw /\ progress' = progress /\ checkpoints' = checkpoints
      /\ engine' = engine /\ registry' = registry /\ outcome' = outcome
      /\ returned' = returned /\ exchanges' = exchanges
  OBVIOUS
<1>2. Types'
  BY <1>1 DEF Types, RawTyped, RegistryTyped, CheckpointsTyped
<1>3. Apart(s)
  BY <1>1 DEF Apart, RawStep
<1>4. Attempts(s)' /\ Kept
  BY <1>1, <1>2, AttemptsKept DEF SessionInv
<1>5. Policies(s)' /\ Sent(s)' /\ Current(s)'
  <2>1. Policies(s)'
    BY <1>1 DEF SessionInv, Policies
  <2>2. Sent(s)'
    BY <1>1 DEF SessionInv, Sent, SentTo
  <2>3. Finalized(raw') = Finalized(raw)
    BY <1>1
  <2>4. Current(s)'
    BY <1>1, <2>3 DEF SessionInv, Current
  <2>5. QED
    BY <2>1, <2>2, <2>4
<1>6. Counts(s)'
  <2>1. Uncounted(s)' = Uncounted(s)
    BY <1>1 DEF Uncounted
  <2>2. QED
    BY <1>1, <1>2, <1>4, <2>1, CountsKept DEF SessionInv
<1>7. Registered(s)' /\ Committed(s)' /\ Answer(s)'
  BY <1>1, <1>2, <1>4, RegisteredKept, CommittedKept, AnswerKept DEF SessionInv
<1>8. Commits(s)'
  <2>1. Good(s, engine[s].key, engine[s].tx) =>
          Good(s, engine[s].key, engine[s].tx)'
        /\ raw'[engine[s].tx] = raw[engine[s].tx]
    BY <1>1, <1>4, GoodKept
  <2>2. Commits(s)
    BY DEF SessionInv
  <2>3. SUFFICES ASSUME engine[s].pc \in Committing
                 PROVE  /\ engine[s].key \in Keys
                        /\ Good(s, engine[s].key, engine[s].tx)'
                        /\ raw'[engine[s].tx].completed <= engine[s].stamp
                        /\ engine[s].stamp <= clock'[s]
    BY <1>1 DEF Commits
  <2>4. engine[s].stamp \in Nat /\ clock[s] \in Nat /\ clock'[s] \in Nat
    BY SessionTypes DEF Engines
  <2>5. QED
    BY <2>1, <2>2, <2>3, <2>4 DEF Commits, Later
<1>9. QED
  BY <1>2, <1>3, <1>4, <1>5, <1>6, <1>7, <1>8 DEF SessionInv

LEMMA Ticks ==
  ASSUME Types, NEW s \in Sessions, Tick(s)
  PROVE  /\ clock' \in [Sessions -> Nat]
         /\ clock'[s] = clock[s] + 1 /\ Now(s) = clock[s] + 1
         /\ Now(s) \in Nat
         /\ \A t \in Sessions \ {s} : clock'[t] = clock[t]
  BY DEF Types, Tick, Now

\* The record becomes terminal, unless it is already.
LEMMA Ending ==
  ASSUME Types, NEW s \in Sessions, NEW at \in Nat,
         view' = IF view[s].state = "running"
                   THEN [view EXCEPT ![s].state = "ended", ![s].finished = at]
                   ELSE view
  PROVE  /\ view' \in [Sessions -> SessionViews]
         /\ \A t \in Sessions \ {s} : view'[t] = view[t]
         /\ view'[s].started = view[s].started
         /\ view[s].state = "running" =>
              view'[s].state = "ended" /\ view'[s].finished = at
         /\ view[s].state # "running" => view'[s] = view[s]
  BY DEF Types, SessionViews

LEMMA RecordDeathStep ==
  ASSUME Types, NEW s \in Sessions, SessionInv(s), RecordDeath(s)
  PROVE  Types' /\ Apart(s) /\ SessionInv(s)'
<1>1. /\ Tick(s) /\ lease' = [lease EXCEPT ![s] = "free"]
      /\ view' = IF view[s].state = "running"
                   THEN [view EXCEPT ![s].state = "ended", ![s].finished = Now(s)]
                   ELSE view
      /\ UNCHANGED <<ending, orphaned, raw, progress, checkpoints, engine,
                     registry, outcome, returned, exchanges>>
      /\ engine[s].pc = "dead"
  BY DEF RecordDeath
<1>2. /\ clock' \in [Sessions -> Nat] /\ clock'[s] = clock[s] + 1
      /\ Now(s) = clock[s] + 1 /\ Now(s) \in Nat
      /\ \A t \in Sessions \ {s} : clock'[t] = clock[t]
  BY <1>1, Ticks
<1>3. /\ view' \in [Sessions -> SessionViews]
      /\ \A t \in Sessions \ {s} : view'[t] = view[t]
      /\ view'[s].started = view[s].started
      /\ view[s].state = "running" =>
           view'[s].state = "ended" /\ view'[s].finished = Now(s)
      /\ view[s].state # "running" => view'[s] = view[s]
  BY <1>1, <1>2, Ending
<1>4. /\ lease' \in [Sessions -> {"free", "supervisor", "reconciler"}]
      /\ lease'[s] = "free" /\ \A t \in Sessions \ {s} : lease'[t] = lease[t]
  BY <1>1 DEF Types
<1>5. /\ clock[s] \in Nat /\ view[s].started \in Nat
      /\ view[s].state \in {"absent", "running", "ended"}
  BY SessionTypes
<1>6. Later(s)
  BY <1>1, <1>2, <1>3, <1>5 DEF Later
<1>7. Life(s)'
  BY <1>1, <1>2, <1>3, <1>4, <1>5 DEF SessionInv, Life
<1>8. ending' \in [Sessions -> Nat] /\ orphaned' \subseteq Sessions
      /\ orphaned' = orphaned
  BY <1>1 DEF Types
<1>9. QED
  BY <1>1, <1>2, <1>3, <1>4, <1>6, <1>7, <1>8, Around

LEMMA KillSupervisorStep ==
  ASSUME Types, NEW s \in Sessions, SessionInv(s), KillSupervisor(s)
  PROVE  Types' /\ Apart(s) /\ SessionInv(s)'
<1>1. /\ lease[s] = "supervisor" /\ lease' = [lease EXCEPT ![s] = "free"]
      /\ orphaned' = orphaned \cup {s}
      /\ UNCHANGED <<clock, view, ending, raw, progress, checkpoints, engine,
                     registry, outcome, returned, exchanges>>
  BY DEF KillSupervisor
<1>2. /\ lease' \in [Sessions -> {"free", "supervisor", "reconciler"}]
      /\ lease'[s] = "free" /\ \A t \in Sessions \ {s} : lease'[t] = lease[t]
      /\ clock' \in [Sessions -> Nat] /\ view' \in [Sessions -> SessionViews]
      /\ ending' \in [Sessions -> Nat] /\ orphaned' \subseteq Sessions
  BY <1>1 DEF Types
<1>3. clock[s] \in Nat
  BY SessionTypes
<1>4. Later(s)
  BY <1>1, <1>3 DEF Later
<1>5. Life(s)'
  BY <1>1, <1>2 DEF SessionInv, Life
<1>6. \A t \in Sessions \ {s} :
        /\ clock'[t] = clock[t] /\ view'[t] = view[t] /\ lease'[t] = lease[t]
        /\ t \in orphaned' <=> t \in orphaned
  BY <1>1, <1>2
<1>7. QED
  BY <1>1, <1>2, <1>4, <1>5, <1>6, Around

LEMMA BeginReconcileStep ==
  ASSUME Types, NEW s \in Sessions, SessionInv(s), BeginReconcile(s)
  PROVE  Types' /\ Apart(s) /\ SessionInv(s)'
<1>1. /\ lease[s] = "free" /\ view[s].state = "running" /\ Tick(s)
      /\ lease' = [lease EXCEPT ![s] = "reconciler"]
      /\ ending' = [ending EXCEPT ![s] = Now(s)]
      /\ UNCHANGED <<view, orphaned, raw, progress, checkpoints, engine,
                     registry, outcome, returned, exchanges>>
  BY DEF BeginReconcile
<1>2. /\ clock' \in [Sessions -> Nat] /\ clock'[s] = clock[s] + 1
      /\ Now(s) = clock[s] + 1 /\ Now(s) \in Nat
      /\ \A t \in Sessions \ {s} : clock'[t] = clock[t]
  BY <1>1, Ticks
<1>3. /\ lease' \in [Sessions -> {"free", "supervisor", "reconciler"}]
      /\ lease'[s] = "reconciler"
      /\ \A t \in Sessions \ {s} : lease'[t] = lease[t]
      /\ view' \in [Sessions -> SessionViews] /\ ending' \in [Sessions -> Nat]
      /\ orphaned' \subseteq Sessions
  BY <1>1, <1>2 DEF Types
<1>4. clock[s] \in Nat /\ view[s].started \in Nat
  BY SessionTypes
<1>5. Later(s)
  BY <1>1, <1>2, <1>4 DEF Later
<1>6. Life(s)'
  BY <1>1, <1>2, <1>3, <1>4 DEF SessionInv, Life
<1>7. \A t \in Sessions \ {s} :
        /\ clock'[t] = clock[t] /\ view'[t] = view[t] /\ lease'[t] = lease[t]
        /\ t \in orphaned' <=> t \in orphaned
  BY <1>1, <1>2, <1>3
<1>8. QED
  BY <1>1, <1>2, <1>3, <1>5, <1>6, <1>7, Around

LEMMA EndReconcileStep ==
  ASSUME Types, NEW s \in Sessions, SessionInv(s), EndReconcile(s)
  PROVE  Types' /\ Apart(s) /\ SessionInv(s)'
<1>1. /\ lease[s] = "reconciler" /\ lease' = [lease EXCEPT ![s] = "free"]
      /\ view' = IF view[s].state = "running"
                   THEN [view EXCEPT ![s].state = "ended",
                                     ![s].finished = ending[s]]
                   ELSE view
      /\ UNCHANGED <<clock, ending, orphaned, raw, progress, checkpoints, engine,
                     registry, outcome, returned, exchanges>>
  BY DEF EndReconcile
<1>2. ending[s] \in Nat /\ clock[s] \in Nat /\ view[s].started \in Nat
      /\ view[s].state \in {"absent", "running", "ended"}
  BY SessionTypes DEF Types
<1>3. /\ view' \in [Sessions -> SessionViews]
      /\ \A t \in Sessions \ {s} : view'[t] = view[t]
      /\ view'[s].started = view[s].started
      /\ view[s].state = "running" =>
           view'[s].state = "ended" /\ view'[s].finished = ending[s]
      /\ view[s].state # "running" => view'[s] = view[s]
  BY <1>1, <1>2, Ending
<1>4. /\ lease' \in [Sessions -> {"free", "supervisor", "reconciler"}]
      /\ lease'[s] = "free" /\ \A t \in Sessions \ {s} : lease'[t] = lease[t]
      /\ clock' \in [Sessions -> Nat] /\ ending' \in [Sessions -> Nat]
      /\ orphaned' \subseteq Sessions
  BY <1>1 DEF Types
\* Only the lease of an orphaned session is ever a reconciler's.
<1>5. s \in orphaned /\ orphaned' = orphaned
  BY <1>1 DEF SessionInv, Life
<1>6. Later(s)
  BY <1>1, <1>2, <1>3, <1>5 DEF Later
<1>7. Life(s)'
  BY <1>1, <1>2, <1>3, <1>4, <1>5 DEF SessionInv, Life
<1>8. \A t \in Sessions \ {s} :
        /\ clock'[t] = clock[t] /\ view'[t] = view[t] /\ lease'[t] = lease[t]
        /\ t \in orphaned' <=> t \in orphaned
  BY <1>1, <1>3, <1>4
<1>9. QED
  BY <1>1, <1>3, <1>4, <1>6, <1>7, <1>8, Around

\* A step that leaves the engine with nothing to do, and the disk as it is.
LEMMA Stops ==
  ASSUME Types, NEW s \in Sessions, SessionInv(s),
         UNCHANGED <<raw, progress, checkpoints, registry, outcome, returned,
                     exchanges>>,
         clock' \in [Sessions -> Nat], view' \in [Sessions -> SessionViews],
         lease' \in [Sessions -> {"free", "supervisor", "reconciler"}],
         ending' \in [Sessions -> Nat], orphaned' \subseteq Sessions,
         engine' \in [Sessions -> Engines],
         engine'[s].pc \notin Executing \cup Committing,
         \A t \in Sessions \ {s} :
           /\ clock'[t] = clock[t] /\ view'[t] = view[t] /\ lease'[t] = lease[t]
           /\ t \in orphaned' <=> t \in orphaned
           /\ engine'[t] = engine[t],
         Later(s), Life(s)'
  PROVE  Types' /\ Apart(s) /\ SessionInv(s)'
<1>1. /\ raw' = raw /\ progress' = progress /\ checkpoints' = checkpoints
      /\ registry' = registry /\ outcome' = outcome
      /\ returned' = returned /\ exchanges' = exchanges
  OBVIOUS
<1>2. Types'
  BY <1>1 DEF Types, RawTyped, RegistryTyped, CheckpointsTyped
<1>3. Apart(s)
  BY <1>1 DEF Apart, RawStep
<1>4. Attempts(s)' /\ Kept
  BY <1>1, <1>2, AttemptsKept DEF SessionInv
<1>5. Answer(s)'
  BY <1>1, <1>4, AnswerKept DEF SessionInv
<1>6. QED
  BY <1>1, <1>2, <1>3, <1>4, <1>5, Leaving

LEMMA OpenStep ==
  ASSUME Types, NEW s \in Sessions, SessionInv(s), Open(s)
  PROVE  Types' /\ Apart(s) /\ SessionInv(s)'
<1> DEFINE opened == [state |-> "running", started |-> Now(s), finished |-> 0]
<1>1. /\ engine[s].pc = "off" /\ view[s].state = "absent" /\ Tick(s)
      /\ view' = [view EXCEPT ![s] = opened]
      /\ lease' = [lease EXCEPT ![s] = "supervisor"]
      /\ Goto(s, "idle")
      /\ UNCHANGED <<ending, orphaned, raw, progress, checkpoints, registry,
                     outcome, returned, exchanges>>
  BY DEF Open
<1>2. /\ clock' \in [Sessions -> Nat] /\ clock'[s] = clock[s] + 1
      /\ Now(s) = clock[s] + 1 /\ Now(s) \in Nat
      /\ \A t \in Sessions \ {s} : clock'[t] = clock[t]
  BY <1>1, Ticks
<1>3. opened \in SessionViews
  BY <1>2 DEF SessionViews
<1>4. /\ view' \in [Sessions -> SessionViews] /\ view'[s] = opened
      /\ \A t \in Sessions \ {s} : view'[t] = view[t]
      /\ lease' \in [Sessions -> {"free", "supervisor", "reconciler"}]
      /\ lease'[s] = "supervisor"
      /\ \A t \in Sessions \ {s} : lease'[t] = lease[t]
      /\ ending' \in [Sessions -> Nat] /\ orphaned' \subseteq Sessions
      /\ orphaned' = orphaned
  BY <1>1, <1>3 DEF Types
<1>5. /\ engine' \in [Sessions -> Engines]
      /\ engine'[s].pc = "idle"
      /\ \A t \in Sessions \ {s} : engine'[t] = engine[t]
  <2>1. "idle" \in PCs
    BY DEF PCs
  <2>2. QED
    BY <1>1, <2>1, GotoEffect DEF Types
<1>6. clock[s] \in Nat
  BY SessionTypes
<1>7. Later(s)
  BY <1>1, <1>2, <1>4, <1>6 DEF Later
<1>8. Life(s)'
  BY <1>1, <1>2, <1>4, <1>5, <1>6 DEF Life
<1>9. engine'[s].pc \notin Executing \cup Committing
  BY <1>5 DEF Executing, Committing
<1>10. QED
  BY <1>1, <1>2, <1>4, <1>5, <1>7, <1>8, <1>9, Stops

LEMMA FinishStep ==
  ASSUME Types, NEW s \in Sessions, SessionInv(s), Finish(s)
  PROVE  Types' /\ Apart(s) /\ SessionInv(s)'
<1>1. /\ engine[s].pc = "idle" /\ Tick(s) /\ Goto(s, "ended")
      /\ view' = IF view[s].state = "running"
                   THEN [view EXCEPT ![s].state = "ended", ![s].finished = Now(s)]
                   ELSE view
      /\ lease' = IF lease[s] = "supervisor" THEN [lease EXCEPT ![s] = "free"]
                  ELSE lease
      /\ UNCHANGED <<ending, orphaned, raw, progress, checkpoints, registry,
                     outcome, returned, exchanges>>
  BY DEF Finish
<1>2. /\ clock' \in [Sessions -> Nat] /\ clock'[s] = clock[s] + 1
      /\ Now(s) = clock[s] + 1 /\ Now(s) \in Nat
      /\ \A t \in Sessions \ {s} : clock'[t] = clock[t]
  BY <1>1, Ticks
<1>3. /\ view' \in [Sessions -> SessionViews]
      /\ \A t \in Sessions \ {s} : view'[t] = view[t]
      /\ view'[s].started = view[s].started
      /\ view[s].state = "running" =>
           view'[s].state = "ended" /\ view'[s].finished = Now(s)
      /\ view[s].state # "running" => view'[s] = view[s]
  BY <1>1, <1>2, Ending
<1>4. /\ lease' \in [Sessions -> {"free", "supervisor", "reconciler"}]
      /\ lease'[s] = IF lease[s] = "supervisor" THEN "free" ELSE lease[s]
      /\ \A t \in Sessions \ {s} : lease'[t] = lease[t]
      /\ ending' \in [Sessions -> Nat] /\ orphaned' \subseteq Sessions
      /\ orphaned' = orphaned
  BY <1>1 DEF Types
<1>5. /\ engine' \in [Sessions -> Engines]
      /\ engine'[s].pc = "ended"
      /\ \A t \in Sessions \ {s} : engine'[t] = engine[t]
  <2>1. "ended" \in PCs
    BY DEF PCs
  <2>2. QED
    BY <1>1, <2>1, GotoEffect DEF Types
<1>6. clock[s] \in Nat /\ view[s].started \in Nat
      /\ view[s].state \in {"absent", "running", "ended"}
  BY SessionTypes
<1>7. Later(s)
  BY <1>1, <1>2, <1>3, <1>4, <1>6 DEF Later
<1>8. Life(s)'
  BY <1>1, <1>2, <1>3, <1>4, <1>5, <1>6 DEF SessionInv, Life
<1>9. engine'[s].pc \notin Executing \cup Committing
  BY <1>5 DEF Executing, Committing
<1>10. QED
  BY <1>1, <1>2, <1>3, <1>4, <1>5, <1>7, <1>8, <1>9, Stops

LEMMA KillRuntimeStep ==
  ASSUME Types, NEW s \in Sessions, SessionInv(s), KillRuntime(s)
  PROVE  Types' /\ Apart(s) /\ SessionInv(s)'
<1>1. /\ engine[s].pc \notin {"off", "ended", "dead"}
      /\ Step(s, [Idle EXCEPT !.pc = "dead"])
      /\ UNCHANGED <<clock, view, lease, ending, orphaned, progress, checkpoints,
                     raw, registry, outcome, returned, exchanges>>
  BY DEF KillRuntime, disk
<1>2. /\ engine' \in [Sessions -> Engines]
      /\ engine'[s].pc = "dead"
      /\ \A t \in Sessions \ {s} : engine'[t] = engine[t]
  <2>1. "dead" \in PCs
    BY DEF PCs
  <2>2. [Idle EXCEPT !.pc = "dead"] \in Engines
        /\ [Idle EXCEPT !.pc = "dead"].pc = "dead"
    BY <2>1, Constructors, IdleEngine
  <2>3. QED
    BY <1>1, <2>2, StepEffect DEF Types
<1>3. clock[s] \in Nat
  BY SessionTypes
<1>4. Later(s)
  BY <1>1, <1>3 DEF Later
<1>5. Life(s)'
  BY <1>1, <1>2 DEF SessionInv, Life
<1>6. /\ clock' \in [Sessions -> Nat] /\ view' \in [Sessions -> SessionViews]
      /\ lease' \in [Sessions -> {"free", "supervisor", "reconciler"}]
      /\ ending' \in [Sessions -> Nat] /\ orphaned' \subseteq Sessions
      /\ clock' = clock /\ view' = view /\ lease' = lease /\ orphaned' = orphaned
  BY <1>1 DEF Types
<1>7. engine'[s].pc \notin Executing \cup Committing
  BY <1>2 DEF Executing, Committing
<1>8. QED
  BY <1>1, <1>2, <1>4, <1>5, <1>6, <1>7, Stops

-----------------------------------------------------------------------------
(* execute                                                                 *)

LEMMA ExecuteStep ==
  ASSUME Types, NEW s \in Sessions, SessionInv(s), NEW request \in Requests,
         Execute(s, request)
  PROVE  Types' /\ Apart(s) /\ SessionInv(s)'
<1> DEFINE e == [Idle EXCEPT !.pc = "attempt", !.caller = request,
                             !.request = request, !.seen = {request.url}]
<1>1. /\ engine[s].pc = "idle" /\ RunningSession(s) /\ Finalizable(request)
      /\ Step(s, e)
      /\ outcome' = [outcome EXCEPT ![s] = NoOutcome]
      /\ exchanges' = [exchanges EXCEPT ![s] = {}]
      /\ UNCHANGED <<clock, view, lease, ending, orphaned, progress, checkpoints,
                     raw, registry, returned>>
  BY DEF Execute, disk
<1>2. request \in HttpRequests
  BY AcquisitionAssumption
<1>3. /\ e \in Engines
      /\ e.pc = "attempt" /\ e.caller = request /\ e.request = request
      /\ e.seen = {request.url} /\ e.physical = 0 /\ e.parent = None
      /\ e.followed = 0 /\ e.retried = 0
  BY <1>2, ExecuteEngine
<1> HIDE DEF e
<1>4. /\ engine' \in [Sessions -> Engines] /\ engine'[s] = e
      /\ \A t \in Sessions \ {s} : engine'[t] = engine[t]
  BY <1>1, <1>3, StepEffect DEF Types
<1>5. /\ outcome' = [t \in Sessions |-> outcome'[t]] /\ outcome'[s] = NoOutcome
      /\ \A t \in Sessions \ {s} : outcome'[t] = outcome[t]
  BY <1>1 DEF Types
<1>6. /\ exchanges' \in [Sessions -> SUBSET Sendings] /\ exchanges'[s] = {}
      /\ \A t \in Sessions \ {s} : exchanges'[t] = exchanges[t]
  BY <1>1 DEF Types
<1>7. Types'
  BY <1>1, <1>4, <1>5, <1>6
  DEF Types, RawTyped, RegistryTyped, CheckpointsTyped
<1>8. Apart(s)
  BY <1>1, <1>4, <1>5, <1>6 DEF Apart, RawStep
<1>9. Life(s)' /\ Later(s)
  BY <1>1, <1>3, <1>4, SessionTypes, LifeKept
<1>10. Attempts(s)' /\ Kept
  BY <1>1, <1>7, <1>9, AttemptsKept DEF SessionInv
<1>11. Policies(s)'
  <2>1. request.maxAttempts \in Nat /\ request.maxRedirects \in Nat
        /\ request.maxAttempts > 0
    BY <1>1, <1>2 DEF Finalizable, HttpRequests
  <2>2. IsFiniteSet({request.url}) /\ Cardinality({request.url}) = 1
    BY FS_Singleton
  <2>3. LET f == engine'[s]
        IN  /\ f.caller = request /\ f.request = request /\ f.retried = 0
            /\ f.followed = 0 /\ f.seen = {request.url}
    BY <1>3, <1>4
  <2>4. request.url \in {request.url} /\ 0 + 1 = 1 /\ 0 < request.maxAttempts
        /\ 0 <= request.maxRedirects
    BY <2>1
  <2>5. QED
    BY <1>2, <1>5, <2>2, <2>3, <2>4 DEF Policies
<1>12. Sent(s)'
  <2>1. IsFiniteSet({}) /\ Cardinality({}) = 0
    BY FS_EmptySet
  <2>2. \A u : SentTo(s, u)' = {}
    BY <1>6 DEF SentTo
  <2>3. request.maxAttempts \in Nat
    BY <1>2 DEF HttpRequests
  <2>4. Harmless(request.url, request.headers, request)
    BY DEF Harmless, SameOrigin
  <2>5. One("attempt" \in Reported) = 0
    BY DEF One, Reported
  <2>6. QED
    BY <1>3, <1>4, <1>6, <2>1, <2>2, <2>3, <2>4, <2>5 DEF Sent
<1>13. Current(s)'
  BY <1>3, <1>4 DEF Current, Active, Reported
<1>14. Counts(s)'
  <2>1. Uncounted(s)' = {}
    BY <1>3, <1>4 DEF Uncounted
  <2>2. QED
    BY <1>1, <1>7, <1>10, <2>1, CountsKept DEF SessionInv
<1>15. engine'[s].pc \in Executing
  BY <1>3, <1>4 DEF Executing
<1>16. QED
  BY <1>1, <1>7, <1>8, <1>9, <1>10, <1>11, <1>12, <1>13, <1>14, <1>15, Working

\* A fresh staging directory is an attempt like the others.
LEMMA StagedAttempt ==
  ASSUME Types, Types', NEW s \in Sessions, SessionInv(s), Later(s),
         engine[s].pc = "attempt", Tick(s), view' = view,
         AttemptIdentity(engine[s].physical + 1, engine[s].followed,
                         engine[s].retried),
         NEW id \in TxIds, id = Used + 1,
         raw' = [i \in DOMAIN raw \cup {id} |->
                   IF i = id THEN NewTransaction(s) ELSE raw[i]]
  PROVE  /\ RawStep(s) /\ Kept /\ Attempts(s)'
         /\ id \in DOMAIN raw' /\ raw'[id] = NewTransaction(s)
<1> DEFINE t == NewTransaction(s)
           e == engine[s]
<1>1. t \in Transactions
  BY NewTransactionTyped DEF SessionInv
<1>2. /\ id \notin DOMAIN raw /\ DOMAIN raw' = DOMAIN raw \cup {id}
      /\ raw'[id] = t /\ \A i \in DOMAIN raw : raw'[i] = raw[i]
  BY <1>1, StagedTyped DEF Types
<1>3. /\ t.session = s /\ t.key = e.request.key /\ t.parent = e.parent
      /\ t.physical = e.physical + 1 /\ t.redirect = e.followed
      /\ t.retry = e.retried /\ t.created = Now(s) /\ t.outcome = "none"
      /\ t.final = FALSE
  BY DEF NewTransaction
<1>4. e.physical \in Nat /\ e.parent \in TxIds \cup {None}
      /\ clock[s] \in Nat /\ view[s].started \in Nat
  BY SessionTypes DEF Engines
<1>5. Now(s) = clock[s] + 1 /\ clock'[s] = clock[s] + 1
  BY Ticks
<1>6. id \in TxIds /\ AttemptIdentity(e.physical + 1, e.followed, e.retried)
      /\ e.pc = "attempt"
  OBVIOUS
<1> HIDE DEF t, e
<1>7. RawStep(s)
  BY <1>2, <1>3 DEF RawStep
<1>8. Kept /\ Finalized(raw) \subseteq Finalized(raw')
  BY <1>7, RawStepKept
<1>9. Attempt(id)'
  <2>1. Current(s) /\ Life(s) /\ Attempts(s)
    BY DEF SessionInv
  <2>2. view[s].state # "absent" /\ 0 < view[s].started
        /\ view[s].started <= clock[s]
    BY <1>6, <2>1 DEF Life, e
  <2>3. IF e.physical = 0 THEN e.parent = None
        ELSE /\ e.parent \in Finalized(raw)
             /\ raw[e.parent].session = s /\ raw[e.parent].key = e.request.key
             /\ raw[e.parent].physical = e.physical
    BY <1>6, <2>1 DEF Current, e
  <2>4. CASE e.physical = 0
    BY <1>2, <1>3, <1>4, <1>5, <1>6, <2>2, <2>3, <2>4, MaxTransactionsAssumption
    DEF Attempt, Answered
  <2>5. CASE e.physical # 0
    <3>1. /\ e.parent \in Finalized(raw) /\ e.parent \in DOMAIN raw
          /\ raw[e.parent].session = s /\ raw[e.parent].key = e.request.key
          /\ raw[e.parent].physical = e.physical
      BY <2>3, <2>5 DEF Finalized
    <3>2. Attempt(e.parent) /\ raw[e.parent].final
      BY <2>1, <3>1 DEF Attempts, Finalized
    <3>3. raw[e.parent].completed <= clock[s]
      BY <3>1, <3>2 DEF Attempt
    <3>4. raw[e.parent].completed \in Nat
      BY <3>1, RawElement DEF Types, Transactions
    <3>5. raw[e.parent].completed <= clock[s] + 1
      BY <1>4, <3>3, <3>4
    <3>6. e.parent \in Finalized(raw') /\ raw'[e.parent] = raw[e.parent]
      BY <1>2, <1>8, <3>1
    <3>7. e.parent # id
      BY <1>2, <3>1
    <3>8. QED
      BY <1>2, <1>3, <1>4, <1>5, <1>6, <2>2, <2>5, <3>1, <3>5, <3>6, <3>7
      DEF Attempt, Answered
  <2>6. QED
    BY <2>4, <2>5
<1>10. \A i \in DOMAIN raw : raw[i].session = s => Attempt(i)'
  BY <1>2, <1>8, AttemptKept DEF SessionInv, Attempts
<1>11. Attempts(s)'
  BY <1>2, <1>9, <1>10 DEF Attempts
<1>12. QED
  BY <1>2, <1>7, <1>8, <1>11 DEF t

\* execute gives up: what it recorded stays, and nothing else is claimed.
LEMMA GivesUp ==
  ASSUME Types, Types', NEW s \in Sessions, SessionInv(s),
         engine[s].pc \in Executing, NEW kind, Return(s, kind), kind # "ok",
         Kept, Attempts(s)', view' = view, lease' = lease, orphaned' = orphaned,
         clock[s] <= clock'[s], registry' = registry, checkpoints' = checkpoints,
         progress' = progress \/ Counts(s)'
  PROVE  SessionInv(s)'
<1>1. /\ engine'[s] = Idle /\ outcome'[s].kind = kind
      /\ returned \subseteq returned'
  BY ReturnEffect DEF Types
<1>2. engine'[s].pc = "idle"
  BY <1>1, IdleEngine
<1>3. clock'[s] \in Nat
  BY DEF Types
<1>4. Life(s)' /\ Later(s)
  BY <1>2, <1>3, LifeKept DEF Executing
<1>5. Answer(s)'
  BY <1>1 DEF Answer
<1>6. engine'[s].pc \notin Executing /\ engine'[s].pc \notin Committing
  BY <1>2 DEF Executing, Committing
<1>7. QED
  BY <1>1, <1>4, <1>5, <1>6, Leaving

LEMMA ReturnTyped ==
  ASSUME Types, NEW s \in Sessions, NEW kind, Return(s, kind), kind # "ok"
  PROVE  /\ engine' \in [Sessions -> Engines]
         /\ outcome' = [t \in Sessions |-> outcome'[t]]
         /\ returned' \subseteq TxIds /\ returned \subseteq returned'
         /\ \A t \in Sessions \ {s} :
              engine'[t] = engine[t] /\ outcome'[t] = outcome[t]
         /\ engine'[s].pc = "idle"
  BY ReturnEffect, IdleEngine DEF Types

LEMMA Abandons ==
  ASSUME Types, NEW s \in Sessions, SessionInv(s), engine[s].pc \in Executing,
         NEW kind, Return(s, kind), kind # "ok",
         UNCHANGED <<view, lease, ending, orphaned, raw, progress, checkpoints,
                     registry>>,
         clock' \in [Sessions -> Nat], clock[s] <= clock'[s],
         exchanges' \in [Sessions -> SUBSET Sendings],
         \A t \in Sessions \ {s} :
           clock'[t] = clock[t] /\ exchanges'[t] = exchanges[t]
  PROVE  Types' /\ Apart(s) /\ SessionInv(s)'
<1>1. /\ engine' \in [Sessions -> Engines]
      /\ outcome' = [t \in Sessions |-> outcome'[t]]
      /\ returned' \subseteq TxIds /\ returned \subseteq returned'
      /\ \A t \in Sessions \ {s} :
           engine'[t] = engine[t] /\ outcome'[t] = outcome[t]
      /\ engine'[s].pc = "idle"
  BY ReturnTyped
<1>2. Types'
  BY <1>1 DEF Types, RawTyped, RegistryTyped, CheckpointsTyped
<1>3. Later(s)
  BY <1>1, LifeKept DEF Executing
<1>4. Attempts(s)' /\ Kept
  BY <1>2, <1>3, AttemptsKept DEF SessionInv
<1>5. Apart(s)
  BY <1>1 DEF Apart, RawStep
<1>6. SessionInv(s)'
  BY <1>2, <1>4, GivesUp
<1>7. QED
  BY <1>2, <1>5, <1>6

LEMMA StageStep ==
  ASSUME Types, NEW s \in Sessions, SessionInv(s), Stage(s)
  PROVE  Types' /\ Apart(s) /\ SessionInv(s)'
<1> DEFINE staged(id) == [i \in DOMAIN raw \cup {id} |->
                            IF i = id THEN NewTransaction(s) ELSE raw[i]]
<1>1. PICK id : id = Used + 1
  OBVIOUS
<1>2. /\ engine[s].pc = "attempt" /\ id \in TxIds
      /\ AttemptIdentity(engine[s].physical + 1, engine[s].followed,
                         engine[s].retried)
      /\ UNCHANGED <<view, lease, ending, orphaned, progress, checkpoints,
                     registry, exchanges>>
  BY <1>1 DEF Stage, disk
<1>3. \/ /\ raw' = staged(id) /\ Tick(s)
         /\ Step(s, [engine[s] EXCEPT !.pc = "exchange", !.tx = id,
                                      !.physical = @ + 1])
         /\ outcome' = outcome /\ returned' = returned
      \/ raw' = staged(id) /\ Tick(s) /\ Return(s, "recorder")
      \/ raw' = raw /\ clock' = clock /\ Return(s, "recorder")
  BY <1>1 DEF Stage
<1>4. NewTransaction(s) \in Transactions
  BY <1>2, NewTransactionTyped DEF SessionInv
<1>5. raw' = staged(id) => RawTyped'
  BY <1>1, <1>2, <1>4, StagedTyped DEF Types
<1>6. engine[s].pc \in Executing
      /\ engine[s].pc \notin {"off", "ended", "dead"}
  BY <1>2 DEF Executing
<1>7. clock[s] \in Nat
  BY SessionTypes
<1>8. CASE /\ raw' = staged(id) /\ Tick(s)
           /\ Step(s, [engine[s] EXCEPT !.pc = "exchange", !.tx = id,
                                        !.physical = @ + 1])
           /\ outcome' = outcome /\ returned' = returned
  <2> DEFINE e == engine[s]
             f == [e EXCEPT !.pc = "exchange", !.tx = id, !.physical = @ + 1]
  <2>1. e \in Engines
    BY SessionTypes
  <2>2. /\ f \in Engines
        /\ f.pc = "exchange" /\ f.tx = id /\ f.physical = e.physical + 1
        /\ f.caller = e.caller /\ f.request = e.request
        /\ f.followed = e.followed /\ f.retried = e.retried
        /\ f.seen = e.seen
    BY <1>2, <2>1, StageEngine
  <2>3. Step(s, f)
    BY <1>8
  <2> HIDE DEF f
  <2>4. /\ engine' \in [Sessions -> Engines] /\ engine'[s] = f
        /\ \A t \in Sessions \ {s} : engine'[t] = engine[t]
    BY <2>2, <2>3, StepEffect DEF Types
  <2>5. /\ clock' \in [Sessions -> Nat] /\ clock'[s] = clock[s] + 1
        /\ \A t \in Sessions \ {s} : clock'[t] = clock[t]
    BY <1>8, Ticks
  <2>6. Types'
    BY <1>2, <1>5, <1>8, <2>4, <2>5
    DEF Types, RegistryTyped, CheckpointsTyped
  <2>7. Life(s)' /\ Later(s)
    BY <1>2, <1>6, <1>7, <2>2, <2>4, <2>5, LifeKept
  <2>8. /\ RawStep(s) /\ Kept /\ Attempts(s)'
        /\ id \in DOMAIN raw' /\ raw'[id] = NewTransaction(s)
    BY <1>1, <1>2, <1>8, <2>6, <2>7, StagedAttempt
  <2>9. Apart(s)
    BY <1>2, <1>8, <2>4, <2>5, <2>8 DEF Apart
  <2>10. Policies(s)'
    BY <1>2, <1>6, <1>8, <2>2, <2>4 DEF SessionInv, Policies
  <2>11. Sent(s)'
    <3>1. One("exchange" \in Reported) = 0 /\ One("attempt" \in Reported) = 0
      BY DEF One, Reported
    <3>2. Sent(s)
      BY DEF SessionInv
    <3>3. /\ engine'[s].pc = "exchange" /\ engine'[s].request = e.request
          /\ engine'[s].caller = e.caller /\ engine'[s].seen = e.seen
          /\ engine'[s].retried = e.retried /\ exchanges' = exchanges
          /\ e.pc = "attempt"
      BY <1>2, <2>2, <2>4
    <3>4. QED
      BY <1>6, <3>1, <3>2, <3>3 DEF Sent, SentTo
  <2>12. Current(s)'
    <3>1. LET t == raw'[id]
          IN  /\ t.session = s /\ t.key = e.request.key
              /\ t.physical = e.physical + 1 /\ t.retry = e.retried
              /\ t.final = FALSE
      BY <2>8 DEF NewTransaction
    <3>2. "exchange" \notin Recording /\ "exchange" \notin Reported
      BY DEF Recording, Reported
    <3>3. /\ engine'[s].pc = "exchange" /\ engine'[s].tx = id
          /\ engine'[s].request = e.request /\ engine'[s].retried = e.retried
          /\ engine'[s].physical = e.physical + 1
      BY <2>2, <2>4
    <3>4. QED
      BY <2>8, <3>1, <3>2, <3>3 DEF Current
  <2>13. Counts(s)'
    <3>1. Uncounted(s)' = {}
      BY <2>2, <2>4 DEF Uncounted
    <3>2. QED
      BY <1>2, <2>6, <2>8, <3>1, CountsKept DEF SessionInv
  <2>14. engine'[s].pc \in Executing
    BY <2>2, <2>4 DEF Executing
  <2>15. SessionInv(s)'
    BY <1>2, <1>8, <2>6, <2>7, <2>8, <2>10, <2>11, <2>12, <2>13, <2>14, Working
  <2>16. QED
    BY <2>6, <2>9, <2>15
<1>9. CASE raw' = staged(id) /\ Tick(s) /\ Return(s, "recorder")
  <2>1. /\ clock' \in [Sessions -> Nat] /\ clock'[s] = clock[s] + 1
        /\ \A t \in Sessions \ {s} : clock'[t] = clock[t]
    BY <1>9, Ticks
  <2>2. /\ engine' \in [Sessions -> Engines]
        /\ outcome' = [t \in Sessions |-> outcome'[t]]
        /\ returned' \subseteq TxIds /\ returned \subseteq returned'
        /\ \A t \in Sessions \ {s} :
             engine'[t] = engine[t] /\ outcome'[t] = outcome[t]
        /\ engine'[s].pc = "idle"
    BY <1>9, ReturnTyped
  <2>3. Types'
    BY <1>2, <1>5, <1>9, <2>1, <2>2 DEF Types, RegistryTyped, CheckpointsTyped
  <2>4. Life(s)' /\ Later(s)
    BY <1>2, <1>6, <1>7, <2>1, <2>2, LifeKept
  <2>5. RawStep(s) /\ Kept /\ Attempts(s)'
    BY <1>1, <1>2, <1>9, <2>3, <2>4, StagedAttempt
  <2>6. Apart(s)
    BY <1>2, <2>1, <2>2, <2>5 DEF Apart
  <2>7. SessionInv(s)'
    BY <1>2, <1>6, <1>7, <1>9, <2>1, <2>3, <2>5, GivesUp
  <2>8. QED
    BY <2>3, <2>6, <2>7
<1>10. CASE raw' = raw /\ clock' = clock /\ Return(s, "recorder")
  BY <1>2, <1>6, <1>7, <1>10, Abandons DEF Types
<1>11. QED
  BY <1>3, <1>8, <1>9, <1>10

\* What the transport left behind makes the attempt no worse.
LEMMA RecordedAttempt ==
  ASSUME Types, Types', NEW s \in Sessions, SessionInv(s), Later(s),
         engine[s].pc = "exchange", Tick(s),
         s \notin orphaned' => view'[s].finished = 0,
         NEW answer \in HttpAnswers, NEW id, id = engine[s].tx,
         raw' = [raw EXCEPT ![id] = Recorded(s, answer)]
  PROVE  /\ RawStep(s) /\ Kept /\ Attempts(s)'
         /\ id \in DOMAIN raw' /\ raw'[id] = Recorded(s, answer)
<1> DEFINE r == Recorded(s, answer)
           t == raw[id]
<1>1. Current(s) /\ Attempts(s)
  BY DEF SessionInv
<1>2. id \in DOMAIN raw /\ t.session = s /\ ~ t.final
  BY <1>1 DEF Current, Active, Recording
<1>3. /\ r \in Transactions
      /\ r.session = t.session /\ r.key = t.key /\ r.parent = t.parent
      /\ r.physical = t.physical /\ r.redirect = t.redirect
      /\ r.retry = t.retry /\ r.created = t.created /\ r.final = t.final
      /\ answer.kind # "broken" =>
           r.outcome = answer.kind /\ r.completed = Now(s)
      /\ answer.kind = "broken" => r.outcome = "incomplete"
  BY <1>2, RecordedTyped
<1>4. /\ DOMAIN raw' = DOMAIN raw /\ raw'[id] = r
      /\ \A i \in DOMAIN raw \ {id} : raw'[i] = raw[i]
  BY <1>2, <1>3, UpdateTyped DEF Types
<1>5. /\ t.created \in Nat /\ clock[s] \in Nat /\ Now(s) = clock[s] + 1
      /\ clock'[s] = clock[s] + 1 /\ view[s].started \in Nat
  BY <1>2, RawElement, SessionTypes, Ticks DEF Types, Transactions
<1>6. Attempt(id)
  BY <1>1, <1>2 DEF Attempts
<1> HIDE DEF r
<1>7. RawStep(s)
  BY <1>2, <1>3, <1>4 DEF RawStep
<1>8. Kept /\ Finalized(raw) \subseteq Finalized(raw')
  BY <1>7, RawStepKept
<1>9. Attempt(id)'
  <2>1. /\ AttemptIdentity(r.physical, r.redirect, r.retry)
        /\ view'[s].state # "absent" /\ view'[s].started = view[s].started
        /\ 0 < r.created /\ view[s].started <= r.created
        /\ r.created <= clock[s]
    BY <1>2, <1>3, <1>6 DEF Attempt, Later
  <2>2. r.created <= clock[s] + 1
    BY <1>3, <1>5, <2>1
  <2>3. Answered(r) => r.completed = Now(s)
    BY <1>3 DEF Answered
  <2>4. /\ r.physical = 1 => r.parent = None
        /\ r.parent # id
        /\ r.physical > 1 =>
             /\ r.parent \in Finalized(raw') /\ raw'[r.parent] = raw[r.parent]
             /\ raw[r.parent].session = s /\ raw[r.parent].key = r.key
             /\ raw[r.parent].physical + 1 = r.physical
             /\ raw[r.parent].completed <= r.created
    BY <1>2, <1>3, <1>6, <1>8 DEF Attempt, Kept
  <2>5. raw'[id] = r /\ r.session = s /\ r.final = FALSE
    <3>1. t.final \in BOOLEAN
      BY <1>2, RawElement DEF Types, Transactions
    <3>2. QED
      BY <1>2, <1>3, <1>4, <3>1
  <2>6. QED
    BY <1>5, <2>1, <2>2, <2>3, <2>4, <2>5 DEF Attempt, Answered
<1>10. \A i \in DOMAIN raw \ {id} : raw[i].session = s => Attempt(i)'
  BY <1>1, <1>4, <1>8, AttemptKept DEF Attempts
<1>11. Attempts(s)'
  BY <1>2, <1>4, <1>9, <1>10 DEF Attempts
<1>12. QED
  BY <1>2, <1>4, <1>7, <1>8, <1>11 DEF r

\* One more exchange with the URL at hand.
LEMMA SentOnce ==
  ASSUME Types, NEW s \in Sessions, SessionInv(s), engine[s].pc = "exchange",
         NEW url, url = engine[s].request.url,
         exchanges' = [exchanges EXCEPT ![s] = @ \cup
           {[tx |-> engine[s].tx, url |-> url,
             headers |-> engine[s].request.headers]}]
  PROVE  LET e == engine[s]
         IN  /\ exchanges' \in [Sessions -> SUBSET Sendings]
             /\ \A t \in Sessions \ {s} : exchanges'[t] = exchanges[t]
             /\ IsFiniteSet(exchanges'[s])
             /\ \A x \in exchanges'[s] :
                  x.url \in e.seen /\ Harmless(x.url, x.headers, e.caller)
             /\ \A u \in e.seen :
                  Cardinality(SentTo(s, u)') <= e.caller.maxAttempts
             /\ Cardinality(SentTo(s, url)') <= e.retried + 1
             /\ Harmless(url, e.request.headers, e.caller)
<1> DEFINE e == engine[s]
           x == [tx |-> e.tx, url |-> url, headers |-> e.request.headers]
<1>1. Policies(s) /\ Sent(s) /\ Current(s) /\ e.pc \in Executing
  BY DEF SessionInv, Executing
<1>2. /\ e.request \in HttpRequests /\ e.caller \in HttpRequests
      /\ e.retried < e.caller.maxAttempts /\ url \in e.seen
  BY <1>1 DEF Policies
<1>3. e.retried \in Nat /\ e.caller.maxAttempts \in Nat
  BY <1>2, SessionTypes DEF Engines, HttpRequests
<1>4. e.tx \in TxIds
  BY <1>1, Numbered DEF Current, Active, Types
<1>5. x \in Sendings /\ x.url = url /\ x.headers = e.request.headers
  BY <1>2, <1>4 DEF Sendings, HttpRequests
<1>6. exchanges' = [exchanges EXCEPT ![s] = @ \cup {x}]
  OBVIOUS
<1>7. One(e.pc \in Reported) = 0
  BY DEF Reported, One
<1> HIDE DEF x
<1>8. /\ exchanges' \in [Sessions -> SUBSET Sendings]
      /\ exchanges'[s] = exchanges[s] \cup {x}
      /\ \A t \in Sessions \ {s} : exchanges'[t] = exchanges[t]
  BY <1>5, <1>6 DEF Types
<1>9. /\ IsFiniteSet(exchanges[s])
      /\ Harmless(url, e.request.headers, e.caller)
      /\ \A y \in exchanges[s] :
           y.url \in e.seen /\ Harmless(y.url, y.headers, e.caller)
      /\ \A u \in e.seen : Cardinality(SentTo(s, u)) <= e.caller.maxAttempts
      /\ Cardinality(SentTo(s, url)) <= e.retried + 0
  BY <1>1, <1>7 DEF Sent
<1>10. IsFiniteSet(exchanges'[s])
  BY <1>8, <1>9, FS_AddElement
<1>11. \A y \in exchanges'[s] :
         y.url \in e.seen /\ Harmless(y.url, y.headers, e.caller)
  BY <1>2, <1>5, <1>8, <1>9
<1>12. Cardinality(SentTo(s, url)') <= e.retried + 1
  <2>1. SentTo(s, url)' = SentTo(s, url) \cup {x}
    BY <1>5, <1>8 DEF SentTo
  <2>2. IsFiniteSet(SentTo(s, url))
    BY <1>9, FS_Subset DEF SentTo
  <2>3. Cardinality(SentTo(s, url)) \in Nat
    BY <2>2, FS_CardinalityType
  <2>4. Cardinality(SentTo(s, url) \cup {x})
          = IF x \in SentTo(s, url) THEN Cardinality(SentTo(s, url))
            ELSE Cardinality(SentTo(s, url)) + 1
    BY <2>2, FS_AddElement
  <2>5. QED
    BY <1>3, <1>9, <2>1, <2>3, <2>4
<1>13. \A u \in e.seen : Cardinality(SentTo(s, u)') <= e.caller.maxAttempts
  <2>1. TAKE u \in e.seen
  <2>2. CASE u = url
    <3>1. IsFiniteSet(SentTo(s, url)')
      BY <1>10, FS_Subset DEF SentTo
    <3>2. Cardinality(SentTo(s, url)') \in Nat
      BY <3>1, FS_CardinalityType
    <3>3. QED
      BY <1>2, <1>3, <1>12, <2>2, <3>2
  <2>3. CASE u # url
    <3>1. SentTo(s, u)' = SentTo(s, u)
      BY <1>5, <1>8, <2>3 DEF SentTo
    <3>2. QED
      BY <1>9, <2>1, <3>1
  <2>4. QED
    BY <2>2, <2>3
<1>14. QED
  BY <1>8, <1>9, <1>10, <1>11, <1>12, <1>13

LEMMA ExchangeStep ==
  ASSUME Types, NEW s \in Sessions, SessionInv(s), NEW answer \in Answers,
         Exchange(s, answer)
  PROVE  Types' /\ Apart(s) /\ SessionInv(s)'
<1>1. PICK id, url : id = engine[s].tx /\ url = engine[s].request.url
  OBVIOUS
<1>2. /\ engine[s].pc = "exchange" /\ Tick(s)
      /\ exchanges' = [exchanges EXCEPT ![s] = @ \cup
           {[tx |-> engine[s].tx, url |-> url,
             headers |-> engine[s].request.headers]}]
      /\ UNCHANGED <<view, lease, ending, orphaned, progress, checkpoints,
                     registry>>
  BY <1>1 DEF Exchange, disk
<1>3. \/ /\ raw' = [raw EXCEPT ![id] = Recorded(s, answer)]
         /\ answer.kind # "broken"
         /\ Step(s, [engine[s] EXCEPT !.pc = "publish", !.answer = answer])
         /\ outcome' = outcome /\ returned' = returned
      \/ /\ raw' = [raw EXCEPT ![id] = Recorded(s, answer)]
         /\ Return(s, "recorder")
      \/ raw' = raw /\ Return(s, "recorder")
  BY <1>1 DEF Exchange
<1>4. answer \in HttpAnswers
  BY AcquisitionAssumption
<1>5. /\ exchanges' \in [Sessions -> SUBSET Sendings]
      /\ \A t \in Sessions \ {s} : exchanges'[t] = exchanges[t]
      /\ IsFiniteSet(exchanges'[s])
      /\ \A x \in exchanges'[s] :
           x.url \in engine[s].seen /\ Harmless(x.url, x.headers, engine[s].caller)
      /\ \A u \in engine[s].seen :
           Cardinality(SentTo(s, u)') <= engine[s].caller.maxAttempts
      /\ Cardinality(SentTo(s, url)') <= engine[s].retried + 1
      /\ Harmless(url, engine[s].request.headers, engine[s].caller)
  BY <1>1, <1>2, SentOnce
<1>6. /\ clock' \in [Sessions -> Nat] /\ clock'[s] = clock[s] + 1
      /\ \A t \in Sessions \ {s} : clock'[t] = clock[t]
  BY <1>2, Ticks
<1>7. clock[s] \in Nat
  BY SessionTypes
<1>8. engine[s].pc \in Executing
      /\ engine[s].pc \notin {"off", "ended", "dead"}
  BY <1>2 DEF Executing
<1>9. id \in DOMAIN raw
  BY <1>1, <1>2 DEF SessionInv, Current, Active
<1>10. Recorded(s, answer) \in Transactions
  BY <1>1, <1>4, <1>9, RecordedTyped
<1>11. raw' = [raw EXCEPT ![id] = Recorded(s, answer)] => RawTyped'
  BY <1>9, <1>10, UpdateTyped DEF Types
<1>12. CASE /\ raw' = [raw EXCEPT ![id] = Recorded(s, answer)]
            /\ answer.kind # "broken"
            /\ Step(s, [engine[s] EXCEPT !.pc = "publish", !.answer = answer])
            /\ outcome' = outcome /\ returned' = returned
  <2> DEFINE e == engine[s]
             f == [e EXCEPT !.pc = "publish", !.answer = answer]
  <2>1. e \in Engines
    BY SessionTypes
  <2>2. /\ f \in Engines
        /\ f.pc = "publish" /\ f.tx = e.tx /\ f.physical = e.physical
        /\ f.caller = e.caller /\ f.request = e.request
        /\ f.followed = e.followed /\ f.retried = e.retried
        /\ f.seen = e.seen /\ f.answer = answer
    BY <1>4, <2>1, PublishEngine
  <2>3. Step(s, f)
    BY <1>12
  <2> HIDE DEF f
  <2>4. /\ engine' \in [Sessions -> Engines] /\ engine'[s] = f
        /\ \A t \in Sessions \ {s} : engine'[t] = engine[t]
    BY <2>2, <2>3, StepEffect DEF Types
  <2>5. Types'
    BY <1>2, <1>5, <1>6, <1>11, <1>12, <2>4
    DEF Types, RegistryTyped, CheckpointsTyped
  <2>6. Life(s)' /\ Later(s) /\ (s \notin orphaned => view[s].finished = 0)
    BY <1>2, <1>6, <1>7, <1>8, <2>2, <2>4, LifeKept
  <2>7. /\ RawStep(s) /\ Kept /\ Attempts(s)'
        /\ id \in DOMAIN raw' /\ raw'[id] = Recorded(s, answer)
    BY <1>1, <1>2, <1>4, <1>12, <2>5, <2>6, RecordedAttempt
  <2>8. Apart(s)
    BY <1>2, <1>5, <1>6, <1>12, <2>4, <2>7 DEF Apart
  <2>9. Policies(s)'
    BY <1>8, <1>12, <2>2, <2>4 DEF SessionInv, Policies
  <2>10. Sent(s)'
    <3>1. /\ engine'[s].pc = "publish" /\ engine'[s].caller = e.caller
          /\ engine'[s].request = e.request /\ engine'[s].seen = e.seen
          /\ engine'[s].retried = e.retried /\ engine'[s].request.url = url
      BY <1>1, <2>2, <2>4
    <3>2. One("publish" \in Reported) = 1
      BY DEF One, Reported
    <3>3. QED
      BY <1>5, <3>1, <3>2 DEF Sent
  <2>11. Current(s)'
    <3>1. LET t == raw[id]
          IN  /\ t.session = s /\ t.key = e.request.key
              /\ t.physical = e.physical /\ t.retry = e.retried
              /\ t.final <=> FALSE
      BY <1>1, <1>2 DEF SessionInv, Current, Active, Recording
    <3>2. LET t == raw'[id]
          IN  /\ t.session = s /\ t.key = e.request.key
              /\ t.physical = e.physical /\ t.retry = e.retried
              /\ t.final <=> FALSE
              /\ t.outcome = answer.kind
      BY <1>1, <1>4, <1>9, <1>12, <2>7, <3>1, RecordedTyped
    <3>3. "publish" \notin Recording
      BY DEF Recording
    <3>4. answer.kind \in {"response", "failure"}
      BY <1>4, <1>12 DEF HttpAnswers
    <3>5. /\ engine'[s].pc = "publish" /\ engine'[s].tx = id
          /\ engine'[s].request = e.request /\ engine'[s].retried = e.retried
          /\ engine'[s].physical = e.physical /\ engine'[s].answer = answer
      BY <1>1, <2>2, <2>4
    <3>6. QED
      BY <2>7, <3>2, <3>3, <3>4, <3>5 DEF Current
  <2>12. Counts(s)'
    <3>1. Uncounted(s)' = {}
      BY <2>2, <2>4 DEF Uncounted
    <3>2. QED
      BY <1>2, <2>5, <2>7, <3>1, CountsKept DEF SessionInv
  <2>13. engine'[s].pc \in Executing
    BY <2>2, <2>4 DEF Executing
  <2>14. SessionInv(s)'
    BY <1>2, <1>12, <2>5, <2>6, <2>7, <2>9, <2>10, <2>11, <2>12, <2>13, Working
  <2>15. QED
    BY <2>5, <2>8, <2>14
<1>13. CASE /\ raw' = [raw EXCEPT ![id] = Recorded(s, answer)]
            /\ Return(s, "recorder")
  <2>1. /\ engine' \in [Sessions -> Engines]
        /\ outcome' = [t \in Sessions |-> outcome'[t]]
        /\ returned' \subseteq TxIds /\ returned \subseteq returned'
        /\ \A t \in Sessions \ {s} :
             engine'[t] = engine[t] /\ outcome'[t] = outcome[t]
        /\ engine'[s].pc = "idle"
    BY <1>13, ReturnTyped
  <2>2. Types'
    BY <1>2, <1>5, <1>6, <1>11, <1>13, <2>1
    DEF Types, RegistryTyped, CheckpointsTyped
  <2>3. Later(s) /\ (s \notin orphaned => view[s].finished = 0)
    BY <1>2, <1>6, <1>7, <1>8, <2>1, LifeKept
  <2>4. RawStep(s) /\ Kept /\ Attempts(s)'
    BY <1>1, <1>2, <1>4, <1>13, <2>2, <2>3, RecordedAttempt
  <2>5. Apart(s)
    BY <1>2, <1>5, <1>6, <2>1, <2>4 DEF Apart
  <2>6. SessionInv(s)'
    BY <1>2, <1>6, <1>7, <1>8, <1>13, <2>2, <2>4, GivesUp
  <2>7. QED
    BY <2>2, <2>5, <2>6
<1>14. CASE raw' = raw /\ Return(s, "recorder")
  BY <1>2, <1>5, <1>6, <1>7, <1>8, <1>14, Abandons
<1>15. QED
  BY <1>3, <1>12, <1>13, <1>14

\* Publishing changes nothing but the name of the directory.
LEMMA PublishedAttempt ==
  ASSUME Types, Types', NEW s \in Sessions, SessionInv(s), Later(s),
         engine[s].pc = "publish", NEW id, id = engine[s].tx,
         raw' = [raw EXCEPT ![id].final = TRUE]
  PROVE  /\ RawStep(s) /\ Kept /\ Attempts(s)'
         /\ id \in DOMAIN raw /\ id \in DOMAIN raw' /\ id \notin Finalized(raw)
         /\ raw'[id] = [raw[id] EXCEPT !.final = TRUE]
<1> DEFINE r == [raw[id] EXCEPT !.final = TRUE]
           t == raw[id]
<1>1. Current(s) /\ Attempts(s)
  BY DEF SessionInv
<1>2. id \in DOMAIN raw /\ t.session = s /\ ~ t.final /\ Answered(t)
  BY <1>1 DEF Current, Active, Recording, Reported, Answered
<1>3. t \in Transactions
  BY <1>2, RawElement DEF Types
<1>4. /\ r \in Transactions
      /\ r.session = t.session /\ r.key = t.key /\ r.parent = t.parent
      /\ r.physical = t.physical /\ r.redirect = t.redirect
      /\ r.retry = t.retry /\ r.created = t.created
      /\ r.completed = t.completed /\ r.outcome = t.outcome /\ r.final = TRUE
  BY <1>3 DEF Transactions
<1>5. raw' = [raw EXCEPT ![id] = r]
  OBVIOUS
<1> HIDE DEF r
<1>6. /\ DOMAIN raw' = DOMAIN raw /\ raw'[id] = r
      /\ \A i \in DOMAIN raw \ {id} : raw'[i] = raw[i]
  BY <1>2, <1>4, <1>5, UpdateTyped DEF Types
<1>7. Attempt(id)
  BY <1>1, <1>2 DEF Attempts
<1>8. RawStep(s)
  BY <1>2, <1>4, <1>6 DEF RawStep
<1>9. Kept /\ Finalized(raw) \subseteq Finalized(raw')
  BY <1>8, RawStepKept
<1>10. Attempt(id)'
  <2>1. /\ t.created \in Nat /\ t.completed \in Nat /\ clock[s] \in Nat
        /\ clock'[s] \in Nat /\ view'[s].finished \in Nat
    BY <1>3, SessionTypes DEF Types, Transactions, SessionViews
  <2>2. /\ AttemptIdentity(r.physical, r.redirect, r.retry)
        /\ view'[s].state # "absent" /\ view'[s].started = view[s].started
        /\ 0 < r.created /\ view[s].started <= r.created
        /\ r.created <= clock[s] /\ r.created <= r.completed
        /\ r.completed <= clock[s]
        /\ s \notin orphaned /\ view[s].finished # 0 =>
             r.completed <= view[s].finished
    BY <1>2, <1>4, <1>7 DEF Attempt, Later, Answered
  <2>3. r.created <= clock'[s] /\ r.completed <= clock'[s]
    BY <1>4, <2>1, <2>2 DEF Later
  <2>4. s \notin orphaned' /\ view'[s].finished # 0 =>
          r.completed <= view'[s].finished
    BY <1>4, <2>1, <2>2 DEF Later
  <2>5. /\ r.physical = 1 => r.parent = None
        /\ r.parent # id
        /\ r.physical > 1 =>
             /\ r.parent \in Finalized(raw') /\ raw'[r.parent] = raw[r.parent]
             /\ raw[r.parent].session = s /\ raw[r.parent].key = r.key
             /\ raw[r.parent].physical + 1 = r.physical
             /\ raw[r.parent].completed <= r.created
    BY <1>2, <1>4, <1>7, <1>9 DEF Attempt, Kept
  <2>6. raw'[id] = r /\ r.session = s /\ Answered(r)
    BY <1>2, <1>4, <1>6 DEF Answered
  <2>7. QED
    BY <2>2, <2>3, <2>4, <2>5, <2>6 DEF Attempt, Answered
<1>11. \A i \in DOMAIN raw \ {id} : raw[i].session = s => Attempt(i)'
  BY <1>1, <1>6, <1>9, AttemptKept DEF Attempts
<1>12. Attempts(s)'
  BY <1>2, <1>6, <1>10, <1>11 DEF Attempts
<1>13. QED
  BY <1>2, <1>6, <1>8, <1>9, <1>12 DEF r, Finalized

LEMMA PublishStep ==
  ASSUME Types, NEW s \in Sessions, SessionInv(s), Publish(s)
  PROVE  Types' /\ Apart(s) /\ SessionInv(s)'
<1>1. PICK id : id = engine[s].tx
  OBVIOUS
<1>2. /\ engine[s].pc = "publish"
      /\ UNCHANGED <<clock, view, lease, ending, orphaned, progress, checkpoints,
                     registry, exchanges>>
  BY DEF Publish, disk
<1>3. \/ /\ raw' = [raw EXCEPT ![id].final = TRUE]
         /\ Goto(s, "progress")
         /\ outcome' = outcome /\ returned' = returned
      \/ raw' = [raw EXCEPT ![id].final = TRUE] /\ Return(s, "recorder")
      \/ raw' = raw /\ Return(s, "recorder")
  BY <1>1 DEF Publish
<1>4. clock[s] \in Nat
  BY SessionTypes
<1>5. engine[s].pc \in Executing
      /\ engine[s].pc \notin {"off", "ended", "dead"}
  BY <1>2 DEF Executing
<1>6. id \in DOMAIN raw
  BY <1>1, <1>2 DEF SessionInv, Current, Active
<1>7. raw' = [raw EXCEPT ![id].final = TRUE] => RawTyped'
  <2>1. raw[id] \in Transactions
    BY <1>6, RawElement DEF Types
  <2>2. [raw[id] EXCEPT !.final = TRUE] \in Transactions
    BY <2>1 DEF Transactions
  <2>3. QED
    BY <1>6, <2>2, UpdateTyped DEF Types
<1>8. CASE /\ raw' = [raw EXCEPT ![id].final = TRUE]
           /\ Goto(s, "progress")
           /\ outcome' = outcome /\ returned' = returned
  <2> DEFINE e == engine[s]
             f == engine'[s]
  <2>1. /\ engine' \in [Sessions -> Engines]
        /\ \A t \in Sessions \ {s} : engine'[t] = engine[t]
        /\ f.pc = "progress" /\ f.tx = e.tx /\ f.physical = e.physical
        /\ f.caller = e.caller /\ f.request = e.request
        /\ f.followed = e.followed /\ f.retried = e.retried
        /\ f.seen = e.seen /\ f.answer = e.answer
    <3>1. "progress" \in PCs
      BY DEF PCs, Executing
    <3>2. QED
      BY <1>8, <3>1, GotoEffect DEF Types
  <2>2. Types'
    BY <1>2, <1>7, <1>8, <2>1 DEF Types, RegistryTyped, CheckpointsTyped
  <2>3. Life(s)' /\ Later(s)
    BY <1>2, <1>4, <1>5, <2>1, LifeKept
  <2>4. /\ RawStep(s) /\ Kept /\ Attempts(s)'
        /\ id \in DOMAIN raw /\ id \in DOMAIN raw' /\ id \notin Finalized(raw)
        /\ raw'[id] = [raw[id] EXCEPT !.final = TRUE]
    BY <1>1, <1>2, <1>8, <2>2, <2>3, PublishedAttempt
  <2>5. Apart(s)
    BY <1>2, <1>8, <2>1, <2>4 DEF Apart
  <2>6. Policies(s)'
    BY <1>5, <1>8, <2>1 DEF SessionInv, Policies
  <2>7. Sent(s)'
    <3>1. One("publish" \in Reported) = 1 /\ One("progress" \in Reported) = 1
      BY DEF One, Reported
    <3>2. Sent(s)
      BY DEF SessionInv
    <3>3. exchanges' = exchanges /\ e.pc = "publish"
      BY <1>2
    <3>4. QED
      BY <1>5, <2>1, <3>1, <3>2, <3>3 DEF Sent, SentTo
  <2>8. Current(s)'
    <3>1. LET t == raw[id]
          IN  /\ t.session = s /\ t.key = e.request.key
              /\ t.physical = e.physical /\ t.retry = e.retried
              /\ e.answer.kind \in {"response", "failure"}
              /\ t.outcome = e.answer.kind
      BY <1>1, <1>2 DEF SessionInv, Current, Active, Reported
    <3>2. raw[id] \in Transactions
      BY <1>6, RawElement DEF Types
    <3>3. LET t == raw'[id]
          IN  /\ t.session = s /\ t.key = e.request.key
              /\ t.physical = e.physical /\ t.retry = e.retried
              /\ t.outcome = e.answer.kind /\ t.final = TRUE
      BY <2>4, <3>1, <3>2 DEF Transactions
    <3>4. "progress" \in Recording
      BY DEF Recording
    <3>5. QED
      BY <1>1, <2>1, <2>4, <3>1, <3>3, <3>4 DEF Current
  <2>9. Counts(s)'
    <3>1. Uncounted(s)' = {id}
      BY <1>1, <2>1 DEF Uncounted
    <3>2. id \notin Mine(s)
      BY <2>4 DEF Mine
    <3>3. QED
      BY <1>2, <2>2, <2>4, <3>1, <3>2, CountsKept DEF SessionInv
  <2>10. f.pc \in Executing
    BY <2>1 DEF Executing
  <2>11. SessionInv(s)'
    BY <1>2, <1>8, <2>2, <2>3, <2>4, <2>6, <2>7, <2>8, <2>9, <2>10, Working
  <2>12. QED
    BY <2>2, <2>5, <2>11
<1>9. CASE raw' = [raw EXCEPT ![id].final = TRUE] /\ Return(s, "recorder")
  <2>1. /\ engine' \in [Sessions -> Engines]
        /\ outcome' = [t \in Sessions |-> outcome'[t]]
        /\ returned' \subseteq TxIds /\ returned \subseteq returned'
        /\ \A t \in Sessions \ {s} :
             engine'[t] = engine[t] /\ outcome'[t] = outcome[t]
        /\ engine'[s].pc = "idle"
    BY <1>9, ReturnTyped
  <2>2. Types'
    BY <1>2, <1>7, <1>9, <2>1 DEF Types, RegistryTyped, CheckpointsTyped
  <2>3. Later(s)
    BY <1>2, <1>4, <1>5, <2>1, LifeKept
  <2>4. RawStep(s) /\ Kept /\ Attempts(s)'
    BY <1>1, <1>2, <1>9, <2>2, <2>3, PublishedAttempt
  <2>5. Apart(s)
    BY <1>2, <2>1, <2>4 DEF Apart
  <2>6. SessionInv(s)'
    BY <1>2, <1>4, <1>5, <1>9, <2>2, <2>4, GivesUp
  <2>7. QED
    BY <2>2, <2>5, <2>6
<1>10. CASE raw' = raw /\ Return(s, "recorder")
  BY <1>2, <1>4, <1>5, <1>10, Abandons DEF Types
<1>11. QED
  BY <1>3, <1>8, <1>9, <1>10

-----------------------------------------------------------------------------
(* persist_progress                                                        *)

\* A step within persist_progress before the document is renamed.
LEMMA Proceeds ==
  ASSUME Types, NEW s \in Sessions, SessionInv(s),
         engine[s].pc \in {"progress", "revalidate"},
         engine' \in [Sessions -> Engines],
         \A t \in Sessions \ {s} : engine'[t] = engine[t],
         LET e == engine[s]
             f == engine'[s]
         IN  /\ f.pc \in {"revalidate", "write"}
             /\ f.tx = e.tx /\ f.physical = e.physical
             /\ f.caller = e.caller /\ f.request = e.request
             /\ f.followed = e.followed /\ f.retried = e.retried
             /\ f.seen = e.seen /\ f.answer = e.answer
             /\ f.base = progress[s],
         UNCHANGED <<clock, view, lease, ending, orphaned, progress, checkpoints,
                     raw, registry, outcome, returned, exchanges>>
  PROVE  Types' /\ Apart(s) /\ SessionInv(s)'
<1> DEFINE e == engine[s]
           f == engine'[s]
<1>1. Types'
  BY DEF Types, RawTyped, RegistryTyped, CheckpointsTyped
<1>2. Apart(s)
  BY DEF Apart, RawStep
<1>3. e.pc \in Executing /\ f.pc \in Executing
  BY DEF Executing
<1>4. clock[s] \in Nat
  BY SessionTypes
<1>5. Life(s)' /\ Later(s)
  BY <1>4, LifeKept
<1>6. Attempts(s)' /\ Kept
  BY <1>1, <1>5, AttemptsKept DEF SessionInv
<1>7. Policies(s)'
  BY <1>3 DEF SessionInv, Policies
<1>8. Sent(s)'
  <2>1. One(e.pc \in Reported) = 1 /\ One(f.pc \in Reported) = 1
    BY DEF One, Reported
  <2>2. Sent(s)
    BY DEF SessionInv
  <2>3. QED
    BY <1>3, <2>1, <2>2 DEF Sent, SentTo
<1>9. Current(s)'
  <2>1. LET t == raw[e.tx]
        IN  /\ e.tx \in DOMAIN raw
            /\ t.session = s /\ t.key = e.request.key
            /\ t.physical = e.physical /\ t.retry = e.retried
            /\ t.final <=> TRUE
            /\ e.answer.kind \in {"response", "failure"}
            /\ t.outcome = e.answer.kind
    BY DEF SessionInv, Current, Active, Reported, Recording
  <2>2. f.pc \in Recording
    BY DEF Recording
  <2>3. QED
    BY <2>1, <2>2 DEF Current
<1>10. Counts(s)'
  <2>1. Uncounted(s)' = Uncounted(s)
    BY DEF Uncounted
  <2>2. QED
    BY <1>1, <1>6, <2>1, CountsKept DEF SessionInv
<1>11. QED
  BY <1>1, <1>2, <1>3, <1>5, <1>6, <1>7, <1>8, <1>9, <1>10, Working

LEMMA ReadProgressStep ==
  ASSUME Types, NEW s \in Sessions, SessionInv(s), ReadProgress(s)
  PROVE  Types' /\ Apart(s) /\ SessionInv(s)'
<1> DEFINE e == engine[s]
           f == [e EXCEPT !.pc = "revalidate", !.base = progress[s]]
<1>1. /\ e.pc = "progress"
      /\ UNCHANGED <<clock, view, lease, ending, orphaned, progress, checkpoints,
                     raw, registry, exchanges>>
  BY DEF ReadProgress, disk
<1>2. e \in Engines /\ progress[s] \in Progresses /\ clock[s] \in Nat
  BY SessionTypes
<1>3. CASE Step(s, f) /\ outcome' = outcome /\ returned' = returned
  <2>1. /\ f \in Engines
        /\ f.pc = "revalidate" /\ f.tx = e.tx /\ f.physical = e.physical
        /\ f.caller = e.caller /\ f.request = e.request
        /\ f.followed = e.followed /\ f.retried = e.retried
        /\ f.seen = e.seen /\ f.answer = e.answer /\ f.base = progress[s]
    BY <1>2, ReadEngine
  <2> HIDE DEF f
  <2>2. /\ engine' \in [Sessions -> Engines] /\ engine'[s] = f
        /\ \A t \in Sessions \ {s} : engine'[t] = engine[t]
    BY <1>3, <2>1, StepEffect DEF Types
  <2>3. QED
    BY <1>1, <1>3, <2>1, <2>2, Proceeds
<1>4. CASE Return(s, "partial_commit")
  <2>1. e.pc \in Executing
    BY <1>1 DEF Executing
  <2>2. QED
    BY <1>1, <1>2, <1>4, <2>1, Abandons DEF Types
<1>5. QED
  BY <1>3, <1>4 DEF ReadProgress

LEMMA RevalidateProgressStep ==
  ASSUME Types, NEW s \in Sessions, SessionInv(s), RevalidateProgress(s)
  PROVE  Types' /\ Apart(s) /\ SessionInv(s)'
<1>1. /\ engine[s].pc = "revalidate"
      /\ UNCHANGED <<clock, view, lease, ending, orphaned, progress, checkpoints,
                     raw, registry, exchanges>>
  BY DEF RevalidateProgress, disk
<1>2. CASE Goto(s, "write") /\ outcome' = outcome /\ returned' = returned
  <2>1. engine[s].base = progress[s]
    BY <1>1 DEF SessionInv, Current
  <2>2. "write" \in PCs
    BY DEF PCs, Executing
  <2>3. LET e == engine[s]
            f == engine'[s]
        IN  /\ engine' \in [Sessions -> Engines]
            /\ \A t \in Sessions \ {s} : engine'[t] = engine[t]
            /\ f.pc = "write" /\ f.tx = e.tx /\ f.physical = e.physical
            /\ f.caller = e.caller /\ f.request = e.request
            /\ f.followed = e.followed /\ f.retried = e.retried
            /\ f.seen = e.seen /\ f.answer = e.answer /\ f.base = e.base
    BY <1>2, <2>2, GotoEffect DEF Types
  <2>4. QED
    BY <1>1, <1>2, <2>1, <2>3, Proceeds
<1>3. CASE Return(s, "partial_commit")
  <2>1. engine[s].pc \in Executing /\ clock[s] \in Nat
    BY <1>1, SessionTypes DEF Executing
  <2>2. QED
    BY <1>1, <1>3, <2>1, Abandons DEF Types
<1>4. QED
  BY <1>2, <1>3 DEF RevalidateProgress

\* The document the rename puts in place counts the transaction at hand, once.
LEMMA CountedOnce ==
  ASSUME Types, NEW s \in Sessions, SessionInv(s), engine[s].pc = "write",
         raw' = raw, Uncounted(s)' = {},
         LET e == engine[s]
         IN  progress' = [progress EXCEPT ![s] =
               Advance(e.base, e.tx, e.answer.kind = "failure",
                       IsRedirect(e.answer), e.retried > 0)]
  PROVE  /\ progress' \in [Sessions -> Progresses]
         /\ \A t \in Sessions \ {s} : progress'[t] = progress[t]
         /\ progress'[s].last = engine[s].tx
         /\ Counts(s)'
<1> DEFINE e == engine[s]
           id == e.tx
           doc == progress[s]
           fail == e.answer.kind = "failure"
           redirect == IsRedirect(e.answer)
           retry == e.retried > 0
           next == Advance(doc, id, fail, redirect, retry)
<1>1. LET t == raw[id]
      IN  /\ id \in DOMAIN raw /\ t.session = s /\ t.retry = e.retried
          /\ t.final /\ t.outcome = e.answer.kind
          /\ e.base = doc
  BY DEF SessionInv, Current, Active, Reported, Recording
<1>2. id \in TxIds /\ doc \in Progresses
  BY <1>1, Numbered, SessionTypes DEF Types
<1>3. progress' = [progress EXCEPT ![s] = next]
  BY <1>1
<1>4. fail \in BOOLEAN /\ redirect \in BOOLEAN /\ retry \in BOOLEAN
  BY DEF IsRedirect
<1>5. /\ id \in Mine(s)
      /\ fail => id \in Failures(s)
      /\ retry => id \in Retries(s)
  BY <1>1 DEF Mine, Failures, Retries, Finalized
<1> HIDE DEF fail, redirect, retry
<1>6. /\ next \in Progresses
      /\ next.completed = doc.completed + 1
      /\ next.failures = doc.failures + One(fail)
      /\ next.redirects = doc.redirects + One(redirect)
      /\ next.retries = doc.retries + One(retry)
      /\ next.last = id
      /\ next.revision = doc.revision + 1
  <2>1. One(fail) \in {0, 1} /\ One(redirect) \in {0, 1} /\ One(retry) \in {0, 1}
    BY DEF One
  <2> DEFINE nf == One(fail)
             nd == One(redirect)
             nr == One(retry)
  <2>2. next = [completed |-> doc.completed + 1, failures |-> doc.failures + nf,
                redirects |-> doc.redirects + nd, retries |-> doc.retries + nr,
                last |-> id, revision |-> doc.revision + 1]
    BY DEF Advance
  <2> HIDE DEF nf, nd, nr, next
  <2>3. nf \in Nat /\ nd \in Nat /\ nr \in Nat
    BY <2>1 DEF nf, nd, nr
  <2>4. /\ next \in Progresses
        /\ next.completed = doc.completed + 1
        /\ next.failures = doc.failures + nf
        /\ next.redirects = doc.redirects + nd
        /\ next.retries = doc.retries + nr
        /\ next.last = id
        /\ next.revision = doc.revision + 1
    BY <1>2, <2>2, <2>3 DEF Progresses
  <2>5. QED
    BY <2>4 DEF nf, nd, nr
<1> HIDE DEF next
<1>7. /\ progress' \in [Sessions -> Progresses] /\ progress'[s] = next
      /\ \A t \in Sessions \ {s} : progress'[t] = progress[t]
  BY <1>3, <1>6 DEF Types
<1>8. /\ ProgressValid(doc)
      /\ doc.completed <= Cardinality(Mine(s) \ {id})
      /\ doc.failures <= Cardinality(Failures(s) \ {id})
      /\ doc.retries <= Cardinality(Retries(s) \ {id})
  BY DEF SessionInv, Counts, Uncounted
<1>9. /\ IsFiniteSet(Mine(s)) /\ IsFiniteSet(Failures(s))
      /\ IsFiniteSet(Retries(s))
  BY MineFinite DEF Types, FinitelyMany
<1>10. /\ doc.completed \in Nat /\ doc.failures \in Nat /\ doc.redirects \in Nat
       /\ doc.retries \in Nat /\ doc.revision \in Nat
  BY <1>2 DEF Progresses
<1>11. next.completed <= Cardinality(Mine(s))
  <2>1. Cardinality(Mine(s) \ {id}) = Cardinality(Mine(s)) - 1
    BY <1>5, <1>9, FS_RemoveElement
  <2>2. Cardinality(Mine(s)) \in Nat
    BY <1>9, FS_CardinalityType
  <2>3. QED
    BY <1>6, <1>8, <1>10, <2>1, <2>2
<1>12. next.failures <= Cardinality(Failures(s))
  <2>1. Cardinality(Failures(s) \ {id})
          = IF id \in Failures(s) THEN Cardinality(Failures(s)) - 1
            ELSE Cardinality(Failures(s))
    BY <1>9, FS_RemoveElement
  <2>2. Cardinality(Failures(s)) \in Nat
    BY <1>9, FS_CardinalityType
  <2>3. CASE fail
    BY <1>5, <1>6, <1>8, <1>10, <2>1, <2>2, <2>3 DEF One
  <2>4. CASE ~ fail
    BY <1>6, <1>8, <1>10, <2>1, <2>2, <2>4 DEF One
  <2>5. QED
    BY <2>3, <2>4
<1>13. next.retries <= Cardinality(Retries(s))
  <2>1. Cardinality(Retries(s) \ {id})
          = IF id \in Retries(s) THEN Cardinality(Retries(s)) - 1
            ELSE Cardinality(Retries(s))
    BY <1>9, FS_RemoveElement
  <2>2. Cardinality(Retries(s)) \in Nat
    BY <1>9, FS_CardinalityType
  <2>3. CASE retry
    BY <1>5, <1>6, <1>8, <1>10, <2>1, <2>2, <2>3 DEF One
  <2>4. CASE ~ retry
    BY <1>6, <1>8, <1>10, <2>1, <2>2, <2>4 DEF One
  <2>5. QED
    BY <2>3, <2>4
<1>14. ProgressValid(next)
  <2>1. One(fail) \in {0, 1} /\ One(redirect) \in {0, 1} /\ One(retry) \in {0, 1}
    BY DEF One
  <2>2. id # None
    BY <1>2, MaxTransactionsAssumption
  <2>3. QED
    BY <1>6, <1>8, <1>10, <2>1, <2>2 DEF ProgressValid
<1>15. Mine(s)' = Mine(s) /\ Failures(s)' = Failures(s) /\ Retries(s)' = Retries(s)
  BY DEF Mine, Failures, Retries, Finalized
<1>16. Counts(s)'
  <2>1. /\ Mine(s) \ {} = Mine(s) /\ Failures(s) \ {} = Failures(s)
        /\ Retries(s) \ {} = Retries(s)
    OBVIOUS
  <2>2. next.last \in Mine(s) \cup {None}
    BY <1>5, <1>6
  <2>3. QED
    BY <1>7, <1>11, <1>12, <1>13, <1>14, <1>15, <2>1, <2>2
    DEF Counts, ProgressValid
<1>17. QED
  BY <1>6, <1>7, <1>16

LEMMA WriteProgressStep ==
  ASSUME Types, NEW s \in Sessions, SessionInv(s), WriteProgress(s)
  PROVE  Types' /\ Apart(s) /\ SessionInv(s)'
<1> DEFINE e == engine[s]
           f == engine'[s]
           next == Advance(e.base, e.tx, e.answer.kind = "failure",
                           IsRedirect(e.answer), e.retried > 0)
           written == progress' = [progress EXCEPT ![s] = next]
<1>1. /\ e.pc = "write"
      /\ UNCHANGED <<clock, view, lease, ending, orphaned, checkpoints, raw,
                     registry, exchanges>>
  BY DEF WriteProgress
<1>2. \/ written /\ Goto(s, "decide") /\ outcome' = outcome /\ returned' = returned
      \/ written /\ Return(s, "partial_commit")
      \/ progress' = progress /\ Return(s, "partial_commit")
  BY DEF WriteProgress
<1>3. e.pc \in Executing /\ e.pc \notin {"off", "ended", "dead"}
      /\ clock[s] \in Nat
  BY <1>1, SessionTypes DEF Executing
<1>4. CASE written /\ Goto(s, "decide") /\ outcome' = outcome
           /\ returned' = returned
  <2>1. /\ engine' \in [Sessions -> Engines]
        /\ \A t \in Sessions \ {s} : engine'[t] = engine[t]
        /\ f.pc = "decide" /\ f.tx = e.tx /\ f.physical = e.physical
        /\ f.caller = e.caller /\ f.request = e.request
        /\ f.followed = e.followed /\ f.retried = e.retried
        /\ f.seen = e.seen /\ f.answer = e.answer
    <3>1. "decide" \in PCs
      BY DEF PCs, Executing
    <3>2. QED
      BY <1>4, <3>1, GotoEffect DEF Types
  <2>2. Uncounted(s)' = {}
    BY <2>1 DEF Uncounted
  <2>3. /\ progress' \in [Sessions -> Progresses]
        /\ \A t \in Sessions \ {s} : progress'[t] = progress[t]
        /\ progress'[s].last = e.tx /\ Counts(s)'
    BY <1>1, <1>4, <2>2, CountedOnce
  <2>4. Types'
    BY <1>1, <1>4, <2>1, <2>3 DEF Types, RawTyped, RegistryTyped, CheckpointsTyped
  <2>5. Life(s)' /\ Later(s)
    BY <1>1, <1>3, <2>1, LifeKept
  <2>6. Attempts(s)' /\ Kept
    BY <1>1, <2>4, <2>5, AttemptsKept DEF SessionInv
  <2>7. Apart(s)
    BY <1>1, <1>4, <2>1, <2>3 DEF Apart, RawStep
  <2>8. Policies(s)'
    BY <1>3, <1>4, <2>1 DEF SessionInv, Policies
  <2>9. Sent(s)'
    <3>1. One("write" \in Reported) = 1 /\ One("decide" \in Reported) = 1
      BY DEF One, Reported
    <3>2. Sent(s)
      BY DEF SessionInv
    <3>3. exchanges' = exchanges /\ e.pc = "write"
      BY <1>1
    <3>4. QED
      BY <1>3, <2>1, <3>1, <3>2, <3>3 DEF Sent, SentTo
  <2>10. Current(s)'
    <3>1. LET t == raw[e.tx]
          IN  /\ e.tx \in DOMAIN raw
              /\ t.session = s /\ t.key = e.request.key
              /\ t.physical = e.physical /\ t.retry = e.retried
              /\ t.final <=> TRUE
              /\ e.answer.kind \in {"response", "failure"}
              /\ t.outcome = e.answer.kind
      BY <1>1 DEF SessionInv, Current, Active, Reported, Recording
    <3>2. "decide" \in Recording
      BY DEF Recording
    <3>3. raw' = raw
      BY <1>1
    <3>4. QED
      BY <2>1, <2>3, <3>1, <3>2, <3>3 DEF Current
  <2>11. f.pc \in Executing
    BY <2>1 DEF Executing
  <2>12. SessionInv(s)'
    BY <1>1, <1>4, <2>3, <2>4, <2>5, <2>6, <2>8, <2>9, <2>10, <2>11, Working
  <2>13. QED
    BY <2>4, <2>7, <2>12
<1>5. CASE written /\ Return(s, "partial_commit")
  <2>1. /\ engine' \in [Sessions -> Engines]
        /\ outcome' = [t \in Sessions |-> outcome'[t]]
        /\ returned' \subseteq TxIds /\ returned \subseteq returned'
        /\ \A t \in Sessions \ {s} :
             engine'[t] = engine[t] /\ outcome'[t] = outcome[t]
        /\ engine'[s].pc = "idle"
    BY <1>5, ReturnTyped
  <2>2. Uncounted(s)' = {}
    BY <2>1 DEF Uncounted
  <2>3. /\ progress' \in [Sessions -> Progresses]
        /\ \A t \in Sessions \ {s} : progress'[t] = progress[t]
        /\ Counts(s)'
    BY <1>1, <1>5, <2>2, CountedOnce
  <2>4. Types'
    BY <1>1, <2>1, <2>3 DEF Types, RawTyped, RegistryTyped, CheckpointsTyped
  <2>5. Later(s)
    BY <1>1, <1>3, <2>1, LifeKept
  <2>6. Attempts(s)' /\ Kept
    BY <1>1, <2>4, <2>5, AttemptsKept DEF SessionInv
  <2>7. Apart(s)
    BY <1>1, <2>1, <2>3 DEF Apart, RawStep
  <2>8. SessionInv(s)'
    BY <1>1, <1>3, <1>5, <2>3, <2>4, <2>6, GivesUp
  <2>9. QED
    BY <2>4, <2>7, <2>8
<1>6. CASE progress' = progress /\ Return(s, "partial_commit")
  BY <1>1, <1>3, <1>6, Abandons DEF Types
<1>7. QED
  BY <1>2, <1>4, <1>5, <1>6

-----------------------------------------------------------------------------
(* What a recorded answer leads to                                         *)

\* The request a redirect leads to carries no secret where the one before it
\* carried none.
LEMMA ForwardedHarmless ==
  ASSUME NEW request, NEW caller, NEW target,
         request.sensitive = caller.sensitive,
         Harmless(request.url, request.headers, caller)
  PROVE  Harmless(target, ForwardedHeaders(request, target), caller)
<1>1. SUFFICES ASSUME ~ SameOrigin(target, caller.url),
                      NEW h \in ForwardedHeaders(request, target)
               PROVE  ~ MustRedact(h, caller.sensitive)
  BY DEF Harmless
<1>2. CASE SameOrigin(request.url, target)
  <2>1. ~ SameOrigin(request.url, caller.url)
    BY <1>1, <1>2 DEF SameOrigin
  <2>2. h \in request.headers
    BY <1>1, <1>2 DEF ForwardedHeaders
  <2>3. QED
    BY <2>1, <2>2 DEF Harmless
<1>3. CASE ~ SameOrigin(request.url, target)
  BY <1>1, <1>3 DEF ForwardedHeaders
<1>4. QED
  BY <1>2, <1>3

\* An attempt that was recorded may be the parent of the next.
LEMMA NextAttempt ==
  ASSUME Types, NEW s \in Sessions, SessionInv(s), engine[s].pc = "decide"
  PROVE  LET e == engine[s]
             t == raw[e.tx]
         IN  /\ e.tx \in Finalized(raw) /\ e.tx \in TxIds
             /\ t.session = s /\ t.key = e.request.key
             /\ t.physical = e.physical /\ e.physical # 0
             /\ e.answer.kind \in {"response", "failure"}
             /\ t.outcome = e.answer.kind
             /\ progress[s].last = e.tx
             /\ Attempt(e.tx)
<1> DEFINE e == engine[s]
           t == raw[e.tx]
<1>1. /\ e.tx \in DOMAIN raw /\ t.final
      /\ t.session = s /\ t.key = e.request.key /\ t.physical = e.physical
      /\ e.answer.kind \in {"response", "failure"}
      /\ t.outcome = e.answer.kind
      /\ progress[s].last = e.tx
  BY DEF SessionInv, Current, Active, Reported, Recording
<1>2. Attempt(e.tx)
  BY <1>1 DEF SessionInv, Attempts
<1>3. e.physical # 0
  <2>1. e.physical \in Nat
    BY SessionTypes DEF Engines
  <2>2. QED
    BY <1>1, <1>2, <2>1 DEF Attempt, AttemptIdentity
<1>4. e.tx \in TxIds
  BY <1>1, Numbered DEF Types
<1>5. QED
  BY <1>1, <1>2, <1>3, <1>4 DEF Finalized

\* Another attempt begins: what both kinds have in common.
LEMMA TriesAgain ==
  ASSUME Types, NEW s \in Sessions, SessionInv(s), engine[s].pc = "decide",
         engine' \in [Sessions -> Engines],
         \A t \in Sessions \ {s} : engine'[t] = engine[t],
         LET e == engine[s]
             f == engine'[s]
         IN  /\ f.pc = "attempt" /\ f.parent = e.tx /\ f.physical = e.physical
             /\ f.request.key = e.request.key,
         UNCHANGED <<clock, view, lease, ending, orphaned, progress, checkpoints,
                     raw, registry, outcome, returned, exchanges>>,
         Policies(s)', Sent(s)'
  PROVE  Types' /\ Apart(s) /\ SessionInv(s)'
<1> DEFINE e == engine[s]
           f == engine'[s]
<1>1. Types'
  BY DEF Types, RawTyped, RegistryTyped, CheckpointsTyped
<1>2. Apart(s)
  BY DEF Apart, RawStep
<1>3. e.pc \in Executing /\ f.pc \in Executing
  BY DEF Executing
<1>4. clock[s] \in Nat
  BY SessionTypes
<1>5. Life(s)' /\ Later(s)
  BY <1>4, LifeKept
<1>6. Attempts(s)' /\ Kept
  BY <1>1, <1>5, AttemptsKept DEF SessionInv
<1>7. Current(s)'
  <2>1. LET t == raw[e.tx]
        IN  /\ e.tx \in Finalized(raw)
            /\ t.session = s /\ t.key = e.request.key
            /\ t.physical = e.physical /\ e.physical # 0
    BY NextAttempt
  <2>2. "attempt" \notin Active /\ "attempt" \notin Reported
    BY DEF Active, Reported
  <2>3. Finalized(raw') = Finalized(raw) /\ raw' = raw
    OBVIOUS
  <2>4. QED
    BY <2>1, <2>2, <2>3 DEF Current
<1>8. Counts(s)'
  <2>1. Uncounted(s)' = {}
    BY DEF Uncounted
  <2>2. QED
    BY <1>1, <1>6, <2>1, CountsKept DEF SessionInv
<1>9. QED
  BY <1>1, <1>2, <1>3, <1>5, <1>6, <1>7, <1>8, Working

LEMMA RetryStep ==
  ASSUME Types, NEW s \in Sessions, SessionInv(s), engine[s].pc = "decide",
         LET e == engine[s]
         IN  /\ Verdict(e.request, e.retried, e.followed, e.seen, e.answer)
                  = "retry"
             /\ Step(s, [e EXCEPT !.pc = "attempt", !.parent = e.tx,
                                  !.retried = @ + 1]),
         UNCHANGED <<clock, view, lease, ending, orphaned, progress, checkpoints,
                     raw, registry, outcome, returned, exchanges>>
  PROVE  Types' /\ Apart(s) /\ SessionInv(s)'
<1> DEFINE e == engine[s]
           f == [e EXCEPT !.pc = "attempt", !.parent = e.tx, !.retried = @ + 1]
<1>1. e \in Engines
  BY SessionTypes
<1>2. /\ f \in Engines
      /\ f.pc = "attempt" /\ f.parent = e.tx /\ f.physical = e.physical
      /\ f.caller = e.caller /\ f.request = e.request
      /\ f.followed = e.followed /\ f.retried = e.retried + 1
      /\ f.seen = e.seen
  BY <1>1, RetryEngine
<1> HIDE DEF f
<1>3. /\ engine' \in [Sessions -> Engines] /\ engine'[s] = f
      /\ \A t \in Sessions \ {s} : engine'[t] = engine[t]
  BY <1>2, StepEffect DEF Types, f
<1>4. e.pc \in Executing /\ f.pc \in Executing
  BY <1>2 DEF Executing
<1>5. Policies(s) /\ Sent(s)
  BY DEF SessionInv
<1>6. e.retried + 1 < e.caller.maxAttempts
  <2>1. e.retried + 1 < e.request.maxAttempts
    BY Retrying
  <2>2. QED
    BY <1>4, <1>5, <2>1 DEF Policies
<1>7. Policies(s)'
  BY <1>2, <1>3, <1>4, <1>5, <1>6 DEF Policies
<1>8. Sent(s)'
  <2>1. One("decide" \in Reported) = 1 /\ One("attempt" \in Reported) = 0
    BY DEF One, Reported
  <2>2. e.retried \in Nat
    BY <1>1 DEF Engines
  <2>3. e.retried + 1 = e.retried + 1 + 0
    BY <2>2
  <2>4. QED
    BY <1>2, <1>3, <1>4, <1>5, <2>1, <2>3 DEF Sent, SentTo
<1>9. QED
  BY <1>2, <1>3, <1>7, <1>8, TriesAgain

LEMMA RedirectStep ==
  ASSUME Types, NEW s \in Sessions, SessionInv(s), engine[s].pc = "decide",
         LET e == engine[s]
         IN  /\ Verdict(e.request, e.retried, e.followed, e.seen, e.answer)
                  = "redirect"
             /\ Step(s, [e EXCEPT
                  !.pc = "attempt", !.parent = e.tx, !.retried = 0,
                  !.followed = @ + 1, !.seen = @ \cup {e.answer.target},
                  !.request = RedirectedRequest(@, e.answer.status,
                                                e.answer.target)]),
         UNCHANGED <<clock, view, lease, ending, orphaned, progress, checkpoints,
                     raw, registry, outcome, returned, exchanges>>
  PROVE  Types' /\ Apart(s) /\ SessionInv(s)'
<1> DEFINE e == engine[s]
<1>1. e \in Engines /\ e.answer \in HttpAnswers
  BY SessionTypes DEF Engines
<1>2. e.pc \in Executing /\ Policies(s) /\ Sent(s)
  BY DEF SessionInv, Executing
<1>3. PICK target : target = e.answer.target
  OBVIOUS
<1>4. e.answer.kind # "broken"
  BY NextAttempt
<1>5. target \in Urls /\ target \notin e.seen
      /\ ~ e.followed >= e.request.maxRedirects
  BY <1>1, <1>3, <1>4, Redirecting
<1>6. /\ e.request \in HttpRequests /\ e.caller \in HttpRequests
      /\ e.request.key = e.caller.key
      /\ e.request.sensitive = e.caller.sensitive
      /\ e.request.maxAttempts = e.caller.maxAttempts
      /\ e.request.maxRedirects = e.caller.maxRedirects
      /\ e.retried < e.caller.maxAttempts
      /\ IsFiniteSet(e.seen) /\ Cardinality(e.seen) = e.followed + 1
      /\ outcome[s] = NoOutcome
  BY <1>2 DEF Policies
<1>7. /\ e.retried \in Nat /\ e.followed \in Nat
      /\ e.caller.maxAttempts \in Nat /\ e.caller.maxRedirects \in Nat
  BY <1>1, <1>6 DEF Engines, HttpRequests
<1> DEFINE r == RedirectedRequest(e.request, e.answer.status, target)
           f == Redirected(e, e.answer.status, target)
<1>8. /\ r \in HttpRequests
      /\ r.url = target /\ r.headers = ForwardedHeaders(e.request, target)
      /\ r.key = e.request.key /\ r.sensitive = e.request.sensitive
      /\ r.maxAttempts = e.request.maxAttempts
      /\ r.maxRedirects = e.request.maxRedirects
  BY <1>5, <1>6, RedirectedTyped
<1>9. /\ f \in Engines
      /\ f.pc = "attempt" /\ f.parent = e.tx /\ f.physical = e.physical
      /\ f.caller = e.caller /\ f.request = r
      /\ f.followed = e.followed + 1 /\ f.retried = 0
      /\ f.seen = e.seen \cup {target}
  BY <1>1, <1>5, <1>6, RedirectEngine
<1>10. Step(s, f)
  BY <1>3 DEF Redirected
<1> HIDE DEF f, r
<1>11. /\ engine' \in [Sessions -> Engines] /\ engine'[s] = f
       /\ \A t \in Sessions \ {s} : engine'[t] = engine[t]
  BY <1>9, <1>10, StepEffect DEF Types
<1>12. f.pc \in Executing
  BY <1>9 DEF Executing
<1>13. Policies(s)'
  <2>1. IsFiniteSet(e.seen \cup {target})
        /\ Cardinality(e.seen \cup {target}) = e.followed + 1 + 1
    <3>1. PICK seen : seen = e.seen
      OBVIOUS
    <3>2. IsFiniteSet(seen) /\ target \notin seen
          /\ Cardinality(seen) = e.followed + 1
      BY <1>5, <1>6, <3>1
    <3>3. IsFiniteSet(seen \cup {target})
          /\ Cardinality(seen \cup {target}) = Cardinality(seen) + 1
      BY <3>2, FS_AddElement
    <3>4. QED
      BY <3>1, <3>2, <3>3
  <2>2. e.followed + 1 <= e.caller.maxRedirects /\ 0 < e.caller.maxAttempts
    BY <1>5, <1>6, <1>7
  <2>3. outcome'[s] = NoOutcome
    BY <1>6
  <2>4. QED
    BY <1>6, <1>8, <1>9, <1>11, <2>1, <2>2, <2>3 DEF Policies
<1>14. Sent(s)'
  <2>1. /\ IsFiniteSet(exchanges[s])
        /\ Harmless(e.request.url, e.request.headers, e.caller)
        /\ \A x \in exchanges[s] :
             x.url \in e.seen /\ Harmless(x.url, x.headers, e.caller)
        /\ \A u \in e.seen : Cardinality(SentTo(s, u)) <= e.caller.maxAttempts
    BY <1>2 DEF Sent
  <2>2. exchanges'[s] = exchanges[s] /\ \A u : SentTo(s, u)' = SentTo(s, u)
    BY DEF SentTo
  <2>3. SentTo(s, target) = {}
    BY <1>5, <2>1 DEF SentTo
  <2>4. Cardinality({}) = 0
    BY FS_EmptySet
  <2>5. Harmless(target, r.headers, e.caller)
    BY <1>6, <1>8, <2>1, ForwardedHarmless
  <2>6. \A u \in e.seen \cup {target} :
          Cardinality(SentTo(s, u)) <= e.caller.maxAttempts
    BY <1>7, <2>1, <2>3, <2>4
  <2>7. One("attempt" \in Reported) = 0
    BY DEF One, Reported
  <2>8. /\ engine'[s].pc = "attempt" /\ engine'[s].caller = e.caller
        /\ engine'[s].request = r /\ engine'[s].request.url = target
        /\ engine'[s].seen = e.seen \cup {target} /\ engine'[s].retried = 0
    BY <1>8, <1>9, <1>11
  <2>9. \A x \in exchanges'[s] :
          /\ x.url \in e.seen \cup {target} /\ Harmless(x.url, x.headers, e.caller)
    BY <2>1, <2>2
  <2>10. \A u \in e.seen \cup {target} :
           Cardinality(SentTo(s, u)') <= e.caller.maxAttempts
    BY <2>2, <2>6
  <2>11. Cardinality(SentTo(s, target)') <= 0 + 0
    BY <2>2, <2>3, <2>4
  <2>12. QED
    BY <2>1, <2>2, <2>5, <2>7, <2>8, <2>9, <2>10, <2>11 DEF Sent
<1>15. QED
  BY <1>8, <1>9, <1>11, <1>13, <1>14, TriesAgain

\* A good answer: the transaction stays admissible and is the one a key leads
\* to.
LEMMA AcceptedStep ==
  ASSUME Types, NEW s \in Sessions, SessionInv(s), engine[s].pc = "decide",
         LET e == engine[s]
         IN  /\ Verdict(e.request, e.retried, e.followed, e.seen, e.answer) = "ok"
             /\ Return(s, "ok")
             /\ registry' =
                  IF e.request.key # None
                    THEN [registry EXCEPT ![s] =
                            [k \in DOMAIN @ \cup {e.request.key} |->
                               IF k = e.request.key THEN e.tx ELSE @[k]]]
                    ELSE registry,
         UNCHANGED <<clock, view, lease, ending, orphaned, progress, checkpoints,
                     raw, exchanges>>
  PROVE  Types' /\ Apart(s) /\ SessionInv(s)'
<1> DEFINE e == engine[s]
           t == raw[e.tx]
<1>1. PICK id, key : id = e.tx /\ key = e.request.key
  OBVIOUS
<1>2. /\ id \in Finalized(raw) /\ id \in TxIds
      /\ t.session = s /\ t.key = key
      /\ e.answer.kind \in {"response", "failure"}
      /\ t.outcome = e.answer.kind
      /\ progress[s].last = id
      /\ Attempt(id)
  BY <1>1, NextAttempt
<1>3. t.outcome = "response"
  BY <1>2, Accepting
<1>4. Admitted(raw, id)
  <2>1. id \in DOMAIN raw /\ t.final /\ id = e.tx
    BY <1>1, <1>2 DEF Finalized
  <2>2. /\ AttemptIdentity(t.physical, t.redirect, t.retry)
        /\ 0 < t.created /\ t.created <= t.completed
        /\ t.physical = 1 => t.parent = None
        /\ t.parent # id
    BY <1>2, <1>3, <2>1 DEF Attempt, Answered
  <2>3. t.created \in Nat /\ t.completed \in Nat
    BY <2>1, RawElement DEF Types, Transactions
  <2>4. QED
    BY <1>3, <2>1, <2>2, <2>3 DEF Admitted, DirectoryComplete, ResponseAdmitted
<1>5. /\ engine' \in [Sessions -> Engines] /\ engine'[s] = Idle
      /\ \A x \in Sessions \ {s} : engine'[x] = engine[x] /\ outcome'[x] = outcome[x]
      /\ outcome' = [x \in Sessions |-> outcome'[x]]
      /\ outcome'[s].kind = "ok" /\ outcome'[s].tx = id
      /\ returned' \subseteq TxIds /\ returned \subseteq returned'
      /\ id \in returned'
  BY <1>1, <1>2, ReturnEffect DEF Types
<1>6. engine'[s].pc = "idle"
  BY <1>5, IdleEngine
<1>7. key \in Keys \cup {None}
  <2>1. e.request \in HttpRequests
    BY DEF SessionInv, Policies, Executing
  <2>2. QED
    BY <1>1, <2>1 DEF HttpRequests
<1>8. registry' = IF key # None
                    THEN [registry EXCEPT ![s] =
                            [k \in DOMAIN registry[s] \cup {key} |->
                               IF k = key THEN id ELSE registry[s][k]]]
                    ELSE registry
  BY <1>1
<1>9. /\ registry' = [x \in Sessions |-> registry'[x]]
      /\ \A x \in Sessions \ {s} : registry'[x] = registry[x]
      /\ DOMAIN registry'[s] \subseteq DOMAIN registry[s] \cup (Keys \cap {key})
      /\ \A k \in DOMAIN registry'[s] :
           \/ k = key /\ registry'[s][k] = id
           \/ k \in DOMAIN registry[s] /\ registry'[s][k] = registry[s][k]
  <2>1. registry = [x \in Sessions |-> registry[x]]
    BY DEF Types, RegistryTyped
  <2>2. CASE key # None
    <3>1. key \in Keys
      BY <1>7, <2>2
    <3> DEFINE entry == [k \in DOMAIN registry[s] \cup {key} |->
                           IF k = key THEN id ELSE registry[s][k]]
    <3>2. /\ DOMAIN entry = DOMAIN registry[s] \cup {key}
          /\ \A k \in DOMAIN entry :
               \/ k = key /\ entry[k] = id
               \/ k \in DOMAIN registry[s] /\ entry[k] = registry[s][k]
      OBVIOUS
    <3>3. registry' = [registry EXCEPT ![s] = entry]
      BY <1>8, <2>2
    <3> HIDE DEF entry
    <3>4. /\ registry' = [x \in Sessions |-> registry'[x]]
          /\ registry'[s] = entry
          /\ \A x \in Sessions \ {s} : registry'[x] = registry[x]
      BY <2>1, <3>3
    <3>5. QED
      BY <3>1, <3>2, <3>4
  <2>3. CASE key = None
    BY <1>8, <2>1, <2>3
  <2>4. QED
    BY <2>2, <2>3
<1>10. RegistryTyped'
  <2>1. \A x \in Sessions \ {s} :
          /\ DOMAIN registry'[x] \subseteq Keys
          /\ \A k \in DOMAIN registry'[x] : registry'[x][k] \in TxIds
    BY <1>9 DEF Types, RegistryTyped
  <2>2. DOMAIN registry[s] \subseteq Keys
        /\ \A k \in DOMAIN registry[s] : registry[s][k] \in TxIds
    BY DEF Types, RegistryTyped
  <2>3. DOMAIN registry'[s] \subseteq Keys
        /\ \A k \in DOMAIN registry'[s] : registry'[s][k] \in TxIds
    BY <1>2, <1>9, <2>2
  <2>4. QED
    BY <1>9, <2>1, <2>3 DEF RegistryTyped
<1>11. Types'
  BY <1>5, <1>10 DEF Types, RawTyped, CheckpointsTyped
<1>12. Apart(s)
  BY <1>5, <1>9 DEF Apart, RawStep
<1>13. clock[s] \in Nat /\ e.pc \notin {"off", "ended", "dead"}
  BY SessionTypes
<1>14. Life(s)' /\ Later(s)
  BY <1>6, <1>13, LifeKept
<1>15. Attempts(s)' /\ Kept
  BY <1>11, <1>14, AttemptsKept DEF SessionInv
<1>16. Registered(s)'
  <2>1. SUFFICES ASSUME NEW k \in DOMAIN registry'[s],
                        NEW good, good = registry'[s][k]
                 PROVE  Good(s, k, good)'
    BY DEF Registered, Good
  <2>2. CASE k = key /\ registry'[s][k] = id
    <3>1. Admitted(raw', id)
      BY <1>4
    <3>2. raw'[id].session = s /\ raw'[id].key = k
          /\ raw'[id].outcome = "response"
      BY <1>1, <1>2, <1>3, <2>2
    <3>3. QED
      BY <1>5, <2>1, <2>2, <3>1, <3>2 DEF Good
  <2>3. CASE k \in DOMAIN registry[s] /\ registry'[s][k] = registry[s][k]
    <3>1. Good(s, k, registry[s][k])
      BY <2>3 DEF SessionInv, Registered
    <3>2. QED
      BY <1>5, <1>15, <2>1, <2>3, <3>1, GoodKept
  <2>4. QED
    BY <1>9, <2>2, <2>3
<1>17. Answer(s)'
  <2>1. Admitted(raw', id) /\ raw'[id].outcome = "response"
        /\ progress'[s].last = id
    BY <1>1, <1>2, <1>3, <1>4
  <2>2. QED
    BY <1>5, <2>1 DEF Answer
<1>18. engine'[s].pc \notin Executing /\ engine'[s].pc \notin Committing
  BY <1>6 DEF Executing, Committing
<1>19. QED
  BY <1>5, <1>11, <1>12, <1>14, <1>15, <1>16, <1>17, <1>18, Leaving

LEMMA DecideStep ==
  ASSUME Types, NEW s \in Sessions, SessionInv(s), Decide(s)
  PROVE  Types' /\ Apart(s) /\ SessionInv(s)'
<1> DEFINE e == engine[s]
           verdict == Verdict(e.request, e.retried, e.followed, e.seen, e.answer)
<1>1. /\ e.pc = "decide"
      /\ UNCHANGED <<clock, view, lease, ending, orphaned, progress, checkpoints,
                     raw, exchanges>>
  BY DEF Decide, disk
<1>2. CASE /\ verdict = "retry"
           /\ Step(s, [e EXCEPT !.pc = "attempt", !.parent = e.tx,
                                !.retried = @ + 1])
           /\ UNCHANGED <<outcome, returned, registry>>
  BY <1>1, <1>2, RetryStep
<1>3. CASE /\ verdict = "redirect"
           /\ Step(s, [e EXCEPT
                !.pc = "attempt", !.parent = e.tx, !.retried = 0,
                !.followed = @ + 1, !.seen = @ \cup {e.answer.target},
                !.request = RedirectedRequest(@, e.answer.status,
                                              e.answer.target)])
           /\ UNCHANGED <<outcome, returned, registry>>
  BY <1>1, <1>3, RedirectStep
<1>4. CASE /\ verdict = "ok" /\ Return(s, verdict)
           /\ registry' =
                IF verdict = "ok" /\ e.request.key # None
                  THEN [registry EXCEPT ![s] =
                          [k \in DOMAIN @ \cup {e.request.key} |->
                             IF k = e.request.key THEN e.tx ELSE @[k]]]
                  ELSE registry
  BY <1>1, <1>4, AcceptedStep
<1>5. CASE /\ verdict # "ok" /\ Return(s, verdict)
           /\ registry' = registry
  <2>1. e.pc \in Executing /\ clock[s] \in Nat
    BY <1>1, SessionTypes DEF Executing
  <2> HIDE DEF verdict
  <2>2. QED
    BY <1>1, <1>5, <2>1, Abandons DEF Types
<1>6. QED
  BY <1>2, <1>3, <1>4, <1>5 DEF Decide

-----------------------------------------------------------------------------
(* commit_checkpoint                                                       *)

LEMMA BeginCommitStep ==
  ASSUME Types, NEW s \in Sessions, SessionInv(s), NEW key \in Keys,
         BeginCommit(s, key)
  PROVE  Types' /\ Apart(s) /\ SessionInv(s)'
<1>1. PICK id, stamp : id = registry[s][key] /\ stamp = Now(s)
  OBVIOUS
<1> DEFINE f == AboutToCommit(key, id, stamp)
<1>2. /\ engine[s].pc = "idle" /\ key \in DOMAIN registry[s]
      /\ stamp >= raw[id].completed /\ Tick(s) /\ Step(s, f)
      /\ UNCHANGED <<view, lease, ending, orphaned, progress, checkpoints, raw,
                     registry, outcome, returned, exchanges>>
  BY <1>1 DEF BeginCommit, disk, AboutToCommit
<1>3. id \in TxIds
  BY <1>1, <1>2 DEF Types, RegistryTyped
<1>4. /\ clock' \in [Sessions -> Nat] /\ clock'[s] = clock[s] + 1
      /\ stamp = clock[s] + 1 /\ stamp \in Nat
      /\ \A t \in Sessions \ {s} : clock'[t] = clock[t]
  BY <1>1, <1>2, Ticks
<1>5. f \in Engines /\ f.pc = "commit" /\ f.key = key /\ f.tx = id
      /\ f.stamp = stamp
  BY <1>3, <1>4, CommitEngine
<1> HIDE DEF f
<1>6. /\ engine' \in [Sessions -> Engines] /\ engine'[s] = f
      /\ \A t \in Sessions \ {s} : engine'[t] = engine[t]
  BY <1>2, <1>5, StepEffect DEF Types
<1>7. Types'
  BY <1>2, <1>4, <1>6 DEF Types, RawTyped, RegistryTyped, CheckpointsTyped
<1>8. Apart(s)
  BY <1>2, <1>4, <1>6 DEF Apart, RawStep
<1>9. clock[s] \in Nat
  BY SessionTypes
<1>10. Life(s)' /\ Later(s)
  BY <1>2, <1>4, <1>5, <1>6, <1>9, LifeKept
<1>11. Attempts(s)' /\ Kept
  BY <1>2, <1>7, <1>10, AttemptsKept DEF SessionInv
<1>12. Answer(s)'
  BY <1>2, <1>11, AnswerKept DEF SessionInv
<1>13. Commits(s)'
  <2>1. Good(s, key, id)
    BY <1>1, <1>2 DEF SessionInv, Registered
  <2>2. Good(s, key, id)' /\ raw'[id] = raw[id]
    BY <1>2, <1>11, <2>1, GoodKept
  <2>3. id \in DOMAIN raw
    BY <2>1 DEF Good, Admitted, DirectoryComplete, ResponseAdmitted
  <2>4. raw[id].completed \in Nat
    BY <2>3, RawElement DEF Types, Transactions
  <2>5. raw'[id].completed <= stamp /\ stamp <= clock'[s]
    BY <1>2, <1>4, <2>2, <2>4
  <2>6. engine'[s].key = key /\ engine'[s].tx = id /\ engine'[s].stamp = stamp
    BY <1>5, <1>6
  <2>7. QED
    BY <2>2, <2>5, <2>6 DEF Commits, Good
<1>14. engine'[s].pc \notin Executing
  BY <1>5, <1>6 DEF Executing
<1>15. QED
  BY <1>2, <1>7, <1>8, <1>10, <1>11, <1>12, <1>13, <1>14, Leaving

LEMMA RevalidateCommitStep ==
  ASSUME Types, NEW s \in Sessions, SessionInv(s), RevalidateCommit(s)
  PROVE  Types' /\ Apart(s) /\ SessionInv(s)'
<1>1. /\ engine[s].pc = "commit"
      /\ UNCHANGED <<clock, view, lease, ending, orphaned, progress, checkpoints,
                     raw, registry, outcome, returned, exchanges>>
  BY DEF RevalidateCommit, disk
<1>2. Goto(s, "store") \/ Step(s, Idle)
  BY DEF RevalidateCommit
<1>3. /\ engine' \in [Sessions -> Engines]
      /\ \A t \in Sessions \ {s} : engine'[t] = engine[t]
      /\ engine'[s].pc \in {"store", "idle"}
      /\ engine'[s].pc = "store" =>
           /\ engine'[s].key = engine[s].key /\ engine'[s].tx = engine[s].tx
           /\ engine'[s].stamp = engine[s].stamp
  <2>1. CASE Goto(s, "store")
    <3>1. "store" \in PCs
      BY DEF PCs, Committing
    <3>2. QED
      BY <2>1, <3>1, GotoEffect DEF Types
  <2>2. CASE Step(s, Idle)
    BY <2>2, Constructors, IdleEngine, StepEffect DEF Types
  <2>3. QED
    BY <1>2, <2>1, <2>2
<1>4. Types'
  BY <1>1, <1>3 DEF Types, RawTyped, RegistryTyped, CheckpointsTyped
<1>5. Apart(s)
  BY <1>1, <1>3 DEF Apart, RawStep
<1>6. clock[s] \in Nat
  BY SessionTypes
<1>7. Life(s)' /\ Later(s)
  BY <1>1, <1>3, <1>6, LifeKept
<1>8. Attempts(s)' /\ Kept
  BY <1>1, <1>4, <1>7, AttemptsKept DEF SessionInv
<1>9. Answer(s)'
  BY <1>1, <1>8, AnswerKept DEF SessionInv
<1>10. engine'[s].pc \in Committing => Commits(s)'
  <2>1. SUFFICES ASSUME engine'[s].pc = "store"
                 PROVE  Commits(s)'
    BY <1>3 DEF Committing
  <2>2. PICK key, id : key = engine[s].key /\ id = engine[s].tx
    OBVIOUS
  <2>3. /\ key \in Keys /\ Good(s, key, id)
        /\ raw[id].completed <= engine[s].stamp /\ engine[s].stamp <= clock[s]
    BY <1>1, <2>2 DEF SessionInv, Commits, Committing
  <2>4. Good(s, key, id)' /\ raw'[id] = raw[id]
    BY <1>1, <1>8, <2>3, GoodKept
  <2>5. engine'[s].key = key /\ engine'[s].tx = id
        /\ engine'[s].stamp = engine[s].stamp /\ clock'[s] = clock[s]
    BY <1>1, <1>3, <2>1, <2>2
  <2>6. QED
    BY <2>3, <2>4, <2>5 DEF Commits, Good
<1>11. engine'[s].pc \notin Executing
  BY <1>3 DEF Executing
<1>12. QED
  BY <1>1, <1>4, <1>5, <1>7, <1>8, <1>9, <1>10, <1>11, Leaving

LEMMA StoreCheckpointStep ==
  ASSUME Types, NEW s \in Sessions, SessionInv(s), StoreCheckpoint(s)
  PROVE  Types' /\ Apart(s) /\ SessionInv(s)'
<1>1. PICK id, key, stamp :
        id = engine[s].tx /\ key = engine[s].key /\ stamp = engine[s].stamp
  OBVIOUS
<1> DEFINE t == raw[id]
           document == [tx |-> id, physical |-> t.physical,
                        redirect |-> t.redirect, retry |-> t.retry,
                        committed |-> stamp]
           stored == [k \in DOMAIN checkpoints[s] \cup {key} |->
                        IF k = key THEN document ELSE checkpoints[s][k]]
<1>2. /\ engine[s].pc = "store" /\ Step(s, Idle)
      /\ UNCHANGED <<clock, view, lease, ending, orphaned, raw, progress,
                     registry, outcome, returned, exchanges>>
  BY DEF StoreCheckpoint
<1>3. checkpoints' = [checkpoints EXCEPT ![s] = stored] \/ checkpoints' = checkpoints
  BY <1>1 DEF StoreCheckpoint
<1>4. /\ key \in Keys /\ Good(s, key, id)
      /\ t.completed <= stamp /\ stamp <= clock[s]
  BY <1>1, <1>2 DEF SessionInv, Commits, Committing
<1>5. id \in DOMAIN raw /\ id \in TxIds /\ t \in Transactions
  BY <1>4, RawElement DEF Good, Admitted, DirectoryComplete, ResponseAdmitted, Types
<1>6. stamp \in Nat
  BY <1>1, SessionTypes DEF Engines
<1>7. /\ document \in Checkpoints /\ document.tx = id
      /\ document.physical = t.physical /\ document.redirect = t.redirect
      /\ document.retry = t.retry /\ document.committed = stamp
  BY <1>5, <1>6 DEF Checkpoints, Transactions
<1> HIDE DEF document
<1>8. /\ DOMAIN stored = DOMAIN checkpoints[s] \cup {key}
      /\ \A k \in DOMAIN stored :
           \/ k = key /\ stored[k] = document
           \/ k \in DOMAIN checkpoints[s] /\ stored[k] = checkpoints[s][k]
  OBVIOUS
<1> HIDE DEF stored
<1>9. /\ checkpoints' = [x \in Sessions |-> checkpoints'[x]]
      /\ \A x \in Sessions \ {s} : checkpoints'[x] = checkpoints[x]
      /\ DOMAIN checkpoints'[s] \subseteq DOMAIN checkpoints[s] \cup {key}
      /\ \A k \in DOMAIN checkpoints'[s] :
           \/ k = key /\ checkpoints'[s][k] = document
           \/ k \in DOMAIN checkpoints[s] /\ checkpoints'[s][k] = checkpoints[s][k]
  <2>1. checkpoints = [x \in Sessions |-> checkpoints[x]]
    BY DEF Types, CheckpointsTyped
  <2>2. CASE checkpoints' = [checkpoints EXCEPT ![s] = stored]
    <3>1. /\ checkpoints' = [x \in Sessions |-> checkpoints'[x]]
          /\ checkpoints'[s] = stored
          /\ \A x \in Sessions \ {s} : checkpoints'[x] = checkpoints[x]
      BY <2>1, <2>2
    <3>2. QED
      BY <1>8, <3>1
  <2>3. CASE checkpoints' = checkpoints
    BY <2>1, <2>3
  <2>4. QED
    BY <1>3, <2>2, <2>3
<1>10. CheckpointsTyped'
  <2>1. \A x \in Sessions \ {s} :
          /\ DOMAIN checkpoints'[x] \subseteq Keys
          /\ \A k \in DOMAIN checkpoints'[x] : checkpoints'[x][k] \in Checkpoints
    BY <1>9 DEF Types, CheckpointsTyped
  <2>2. DOMAIN checkpoints[s] \subseteq Keys
        /\ \A k \in DOMAIN checkpoints[s] : checkpoints[s][k] \in Checkpoints
    BY DEF Types, CheckpointsTyped
  <2>3. DOMAIN checkpoints'[s] \subseteq Keys
        /\ \A k \in DOMAIN checkpoints'[s] : checkpoints'[s][k] \in Checkpoints
    BY <1>4, <1>7, <1>9, <2>2
  <2>4. QED
    BY <1>9, <2>1, <2>3 DEF CheckpointsTyped
<1>11. /\ engine' \in [Sessions -> Engines]
       /\ \A x \in Sessions \ {s} : engine'[x] = engine[x]
       /\ engine'[s].pc = "idle"
  BY <1>2, Constructors, IdleEngine, StepEffect DEF Types
<1>12. Types'
  BY <1>2, <1>10, <1>11 DEF Types, RawTyped, RegistryTyped
<1>13. Apart(s)
  BY <1>2, <1>9, <1>11 DEF Apart, RawStep
<1>14. clock[s] \in Nat
  BY SessionTypes
<1>15. /\ Life(s)' /\ Later(s)
       /\ s \notin orphaned => view[s].finished = 0
  BY <1>2, <1>11, <1>14, LifeKept
<1>16. Attempts(s)' /\ Kept
  BY <1>2, <1>12, <1>15, AttemptsKept DEF SessionInv
<1>17. Answer(s)'
  BY <1>2, <1>16, AnswerKept DEF SessionInv
<1>18. Committed(s)'
  <2>1. SUFFICES ASSUME NEW k \in DOMAIN checkpoints'[s]
                 PROVE  LET c == checkpoints'[s][k]
                            u == raw[c.tx]
                        IN  /\ Good(s, k, c.tx)
                            /\ <<u.physical, u.redirect, u.retry>>
                                 = <<c.physical, c.redirect, c.retry>>
                            /\ u.completed <= c.committed
                            /\ c.committed <= clock[s]
                            /\ s \notin orphaned /\ view[s].finished # 0 =>
                                 c.committed <= view[s].finished
    BY <1>2 DEF Committed, Good
  <2>2. CASE k = key /\ checkpoints'[s][k] = document
    BY <1>4, <1>7, <1>15, <2>2
  <2>3. CASE k \in DOMAIN checkpoints[s] /\ checkpoints'[s][k] = checkpoints[s][k]
    <3>1. Committed(s)
      BY DEF SessionInv
    <3>2. QED
      BY <2>3, <3>1 DEF Committed
  <2>4. QED
    BY <1>9, <2>2, <2>3
<1>19. engine'[s].pc \notin Executing /\ engine'[s].pc \notin Committing
  BY <1>11 DEF Executing, Committing
<1>20. QED
  BY <1>2, <1>12, <1>13, <1>15, <1>16, <1>17, <1>18, <1>19, Leaving

-----------------------------------------------------------------------------
(* The newest transaction                                                  *)

\* The least-element principle.
LEMMA LeastNatural ==
  ASSUME NEW T \in SUBSET Nat, T # {}
  PROVE  \E m \in T : \A n \in T : m <= n
<1>1. \E m \in T : \A n \in T : ~ (<<n, m>> \in OpToRel(<, Nat))
  BY NatLessThanWellFounded, WFMin
<1>2. \E m \in T : \A n \in T : ~ n < m
  BY <1>1 DEF OpToRel
<1>3. QED
  BY <1>2

\* is_newer_transaction is a strict total order.
LEMMA NewerOrders ==
  ASSUME RawTyped, NEW i \in DOMAIN raw, NEW j \in DOMAIN raw,
         NEW k \in DOMAIN raw
  PROVE  /\ ~ Newer(raw, i, i)
         /\ Newer(raw, i, j) => ~ Newer(raw, j, i)
         /\ i # j => Newer(raw, i, j) \/ Newer(raw, j, i)
         /\ Newer(raw, i, j) /\ Newer(raw, j, k) => Newer(raw, i, k)
<1>1. /\ i \in Nat /\ j \in Nat /\ k \in Nat
      /\ raw[i].created \in Nat /\ raw[j].created \in Nat /\ raw[k].created \in Nat
      /\ raw[i].physical \in Nat /\ raw[j].physical \in Nat
      /\ raw[k].physical \in Nat
  BY RawElement, MaxTransactionsAssumption DEF Transactions, TxIds
<1>2. QED
  BY <1>1 DEF Newer

LEMMA Newest ==
  ASSUME RawTyped, NEW C \in SUBSET DOMAIN raw, C # {}
  PROVE  \E n \in C : \A other \in C \ {n} : Newer(raw, n, other)
<1> DEFINE upTo(n) == C \cap (1 .. n)
           isNewest(n, m) == m \in upTo(n)
             /\ \A other \in upTo(n) \ {m} : Newer(raw, m, other)
           T == { n \in Nat : upTo(n) # {} /\ ~ \E m \in C : isNewest(n, m) }
<1>1. C \subseteq TxIds
  BY Numbered
<1>2. MaxTransactions \in Nat /\ upTo(MaxTransactions) = C
  BY <1>1, MaxTransactionsAssumption DEF TxIds
<1>3. T = {}
  <2>1. SUFFICES ASSUME T # {} PROVE FALSE
    OBVIOUS
  <2>2. PICK n \in T : \A m \in T : n <= m
    BY <2>1, LeastNatural
  <2>3. n \in Nat /\ upTo(n) # {} /\ n # 0
    BY <2>2
  <2>4. n - 1 \in Nat /\ n - 1 \notin T
    BY <2>2, <2>3
  <2>5. upTo(n) \subseteq upTo(n - 1) \cup {n} /\ upTo(n - 1) \subseteq upTo(n)
    BY <2>3
  <2>6. CASE n \notin C
    <3>1. upTo(n) = upTo(n - 1)
      BY <2>5, <2>6
    <3>2. PICK m \in C : isNewest(n - 1, m)
      BY <2>3, <2>4, <3>1
    <3>3. isNewest(n, m)
      BY <3>1, <3>2
    <3>4. QED
      BY <2>2, <3>3
  <2>7. CASE n \in C /\ upTo(n - 1) = {}
    <3>1. isNewest(n, n)
      BY <2>3, <2>5, <2>7
    <3>2. QED
      BY <2>2, <2>7, <3>1
  <2>8. CASE n \in C /\ upTo(n - 1) # {}
    <3>1. PICK m \in C : isNewest(n - 1, m)
      BY <2>4, <2>8
    <3>2. m # n /\ m \in upTo(n) /\ n \in upTo(n)
      BY <2>3, <2>5, <2>8, <3>1
    <3>3. CASE Newer(raw, m, n)
      <4>1. isNewest(n, m)
        BY <2>5, <3>1, <3>2, <3>3
      <4>2. QED
        BY <2>2, <4>1
    <3>4. CASE Newer(raw, n, m)
      <4>1. \A other \in upTo(n) \ {n} : Newer(raw, n, other)
        BY <2>5, <2>8, <3>1, <3>4, NewerOrders
      <4>2. isNewest(n, n)
        BY <3>2, <4>1
      <4>3. QED
        BY <2>2, <2>8, <4>2
    <3>5. QED
      BY <2>8, <3>2, <3>3, <3>4, NewerOrders
  <2>9. QED
    BY <2>6, <2>7, <2>8
<1>4. PICK m \in C : isNewest(MaxTransactions, m)
  BY <1>2, <1>3
<1>5. QED
  BY <1>2, <1>4

\* What latest_transaction finds is a candidate no other is newer than.
LEMMA LatestFound ==
  ASSUME RawTyped, NEW key, NEW id \in Candidates(raw, key)
  PROVE  /\ LatestTransaction(raw, key) # None
         /\ ~ Newer(raw, id, LatestTransaction(raw, key))
<1> DEFINE C == Candidates(raw, key)
           latest == LatestTransaction(raw, key)
           best(n) == \A other \in C \ {n} : Newer(raw, n, other)
<1>1. C \subseteq DOMAIN raw /\ C # {}
  BY DEF Candidates, Finalized
<1>2. \E n \in C : best(n)
  BY <1>1, Newest
<1>3. latest = CHOOSE n \in C : best(n)
  BY <1>1 DEF LatestTransaction
<1>4. latest \in C /\ best(latest)
  BY <1>2, <1>3
<1> HIDE DEF latest
<1>5. latest # None
  BY <1>1, <1>4, Numbered, MaxTransactionsAssumption
<1>6. ~ Newer(raw, id, latest)
  BY <1>1, <1>4, NewerOrders
<1>7. QED
  BY <1>5, <1>6 DEF latest

-----------------------------------------------------------------------------
(* The invariant holds                                                     *)

LEMMA InitInv == Init => IInv
<1> SUFFICES ASSUME Init PROVE IInv
  OBVIOUS
<1>1. Idle \in Engines /\ [Idle EXCEPT !.pc = "off"] \in Engines
      /\ [Idle EXCEPT !.pc = "off"].pc = "off" /\ NewProgress \in Progresses
  BY Constructors, IdleEngine DEF PCs
<1>2. Types
  <2>1. raw \in [1 .. 0 -> Transactions] /\ 0 \in 0 .. MaxTransactions
    BY MaxTransactionsAssumption DEF Init
  <2>2. RawTyped
    BY <2>1 DEF RawTyped
  <2>3. RegistryTyped /\ CheckpointsTyped
    BY DEF Init, RegistryTyped, CheckpointsTyped
  <2>4. NoSession \in SessionViews
    BY DEF NoSession, SessionViews
  <2>5. QED
    BY <1>1, <2>2, <2>3, <2>4 DEF Init, Types
<1>3. ASSUME NEW s \in Sessions PROVE SessionInv(s)
  <2>1. /\ engine[s].pc = "off" /\ view[s] = NoSession /\ lease[s] = "free"
        /\ clock[s] = 0 /\ s \notin orphaned /\ DOMAIN raw = {}
        /\ progress[s] = NewProgress /\ DOMAIN checkpoints[s] = {}
        /\ DOMAIN registry[s] = {} /\ outcome[s].kind = "none"
    <3>1. raw \in [1 .. 0 -> Transactions]
      BY DEF Init
    <3>2. DOMAIN raw = {}
      BY <3>1
    <3>3. QED
      BY <1>1, <3>2 DEF Init, NoOutcome
  <2>2. Life(s)
    BY <2>1 DEF Life, NoSession
  <2>3. Attempts(s) /\ Registered(s) /\ Committed(s) /\ Answer(s)
    BY <2>1 DEF Attempts, Registered, Committed, Answer
  <2>4. Policies(s) /\ Sent(s) /\ Current(s) /\ Commits(s)
    BY <2>1 DEF Policies, Sent, Current, Commits, Executing, Committing, Active,
                Reported
  <2>5. Counts(s)
    <3>1. /\ Mine(s) \ Uncounted(s) = {} /\ Failures(s) \ Uncounted(s) = {}
          /\ Retries(s) \ Uncounted(s) = {}
      BY <2>1 DEF Mine, Failures, Retries, Finalized
    <3>2. Cardinality({}) = 0
      BY FS_EmptySet
    <3>3. ProgressValid(NewProgress) /\ NewProgress.last = None
          /\ NewProgress.completed = 0 /\ NewProgress.failures = 0
          /\ NewProgress.retries = 0
      BY DEF NewProgress, ProgressValid
    <3>4. progress[s] = NewProgress
      BY <2>1
    <3> HIDE <2>1
    <3>5. QED
      BY <3>1, <3>2, <3>3, <3>4 DEF Counts
  <2>6. QED
    BY <2>2, <2>3, <2>4, <2>5 DEF SessionInv
<1>4. QED
  BY <1>2, <1>3 DEF IInv

LEMMA InductiveStep == IInv /\ [Next]_vars => IInv'
<1> SUFFICES ASSUME IInv, [Next]_vars PROVE IInv'
  OBVIOUS
<1>1. Types /\ \A s \in Sessions : SessionInv(s)
  BY DEF IInv
<1>2. ASSUME NEW s \in Sessions, Types' /\ Apart(s) /\ SessionInv(s)'
      PROVE  IInv'
  <2>1. \A t \in Sessions \ {s} : SessionInv(t)'
    BY <1>1, <1>2, Elsewhere
  <2>2. QED
    BY <1>2, <2>1 DEF IInv
<1>3. ASSUME NEW s \in Sessions, Open(s) PROVE IInv'
  BY <1>1, <1>2, <1>3, OpenStep
<1>4. ASSUME NEW s \in Sessions, SourceStep(s) PROVE IInv'
  <2>1. ASSUME NEW request \in Requests, Execute(s, request) PROVE IInv'
    BY <1>1, <1>2, <1>4, <2>1, ExecuteStep
  <2>2. ASSUME NEW key \in Keys, BeginCommit(s, key) PROVE IInv'
    BY <1>1, <1>2, <1>4, <2>2, BeginCommitStep
  <2>3. CASE Finish(s)
    BY <1>1, <1>2, <1>4, <2>3, FinishStep
  <2>4. QED
    BY <1>4, <2>1, <2>2, <2>3 DEF SourceStep
<1>5. ASSUME NEW s \in Sessions, EngineStep(s) PROVE IInv'
  <2>1. CASE Stage(s)
    BY <1>1, <1>2, <1>5, <2>1, StageStep
  <2>2. CASE Publish(s)
    BY <1>1, <1>2, <1>5, <2>2, PublishStep
  <2>3. ASSUME NEW answer \in Answers, Exchange(s, answer) PROVE IInv'
    BY <1>1, <1>2, <1>5, <2>3, ExchangeStep
  <2>4. CASE ReadProgress(s)
    BY <1>1, <1>2, <1>5, <2>4, ReadProgressStep
  <2>5. CASE RevalidateProgress(s)
    BY <1>1, <1>2, <1>5, <2>5, RevalidateProgressStep
  <2>6. CASE WriteProgress(s)
    BY <1>1, <1>2, <1>5, <2>6, WriteProgressStep
  <2>7. CASE Decide(s)
    BY <1>1, <1>2, <1>5, <2>7, DecideStep
  <2>8. CASE RevalidateCommit(s)
    BY <1>1, <1>2, <1>5, <2>8, RevalidateCommitStep
  <2>9. CASE StoreCheckpoint(s)
    BY <1>1, <1>2, <1>5, <2>9, StoreCheckpointStep
  <2>10. QED
    BY <1>5, <2>1, <2>2, <2>3, <2>4, <2>5, <2>6, <2>7, <2>8, <2>9 DEF EngineStep
<1>6. ASSUME NEW s \in Sessions,
             \/ KillRuntime(s) \/ RecordDeath(s) \/ KillSupervisor(s)
             \/ BeginReconcile(s) \/ EndReconcile(s)
      PROVE  IInv'
  <2>1. CASE KillRuntime(s)
    BY <1>1, <1>2, <1>6, <2>1, KillRuntimeStep
  <2>2. CASE RecordDeath(s)
    BY <1>1, <1>2, <1>6, <2>2, RecordDeathStep
  <2>3. CASE KillSupervisor(s)
    BY <1>1, <1>2, <1>6, <2>3, KillSupervisorStep
  <2>4. CASE BeginReconcile(s)
    BY <1>1, <1>2, <1>6, <2>4, BeginReconcileStep
  <2>5. CASE EndReconcile(s)
    BY <1>1, <1>2, <1>6, <2>5, EndReconcileStep
  <2>6. QED
    BY <1>6, <2>1, <2>2, <2>3, <2>4, <2>5
<1>7. CASE UNCHANGED vars
  <2>1. UNCHANGED <<clock, view, lease, ending, orphaned, raw, progress, checkpoints,
                    engine, registry, outcome, returned, exchanges>>
    BY <1>7 DEF vars
  <2>2. Types'
    BY <1>1, <2>1 DEF Types, RawTyped, RegistryTyped, CheckpointsTyped
  <2>3. ASSUME NEW s \in Sessions PROVE SessionInv(s)'
    <3>1. clock[s] \in Nat
      BY <1>1, SessionTypes
    <3>2. Later(s)
      BY <2>1, <3>1 DEF Later
    <3>3. Life(s)'
      BY <1>1, <2>1 DEF SessionInv, Life
    <3>4. QED
      BY <1>1, <2>1, <3>2, <3>3, Around DEF Types
  <2>4. QED
    BY <2>2, <2>3 DEF IInv
<1>8. QED
  BY <1>3, <1>4, <1>5, <1>6, <1>7 DEF Next

LEMMA Invariance == Spec => []IInv
  BY InitInv, InductiveStep, PTL DEF Spec

-----------------------------------------------------------------------------
(* What follows from the invariant                                         *)

\* Whatever is published is admitted by the readers, and its session began.
LEMMA PublishedAdmitted ==
  ASSUME IInv, NEW id \in Finalized(raw)
  PROVE  /\ raw[id].session \in Sessions
         /\ Attempt(id) /\ Admitted(raw, id)
         /\ raw[id].created \in Nat /\ raw[id].completed \in Nat
<1>1. id \in DOMAIN raw /\ raw[id].final /\ Types
  BY DEF Finalized, IInv
<1>2. raw[id] \in Transactions
  BY <1>1, RawElement DEF Types
<1>3. raw[id].session \in Sessions
      /\ raw[id].created \in Nat /\ raw[id].completed \in Nat
  BY <1>2 DEF Transactions
<1>4. Attempt(id)
  BY <1>1, <1>3 DEF IInv, SessionInv, Attempts
<1>5. Answered(raw[id])
  BY <1>1, <1>4 DEF Attempt
<1>6. Admitted(raw, id)
  BY <1>1, <1>3, <1>4, <1>5 DEF Attempt, Admitted, DirectoryComplete, ResponseAdmitted, Answered
<1>7. QED
  BY <1>3, <1>4, <1>6

\* One logical request goes to one URL at most maximum_attempts times, and to
\* no more URLs than its redirect policy allows, for any policy and any answers
\* (the nested loops of execute_impl).
THEOREM ExchangesStayBounded == Spec => []ExchangesBounded
<1>1. IInv => ExchangesBounded
  <2>1. SUFFICES ASSUME IInv, NEW s \in Sessions, engine[s].pc \in Executing
                 PROVE  LET c == engine[s].caller
                            sentTo(u) == { x \in exchanges[s] : x.url = u }
                            asked == { x.url : x \in exchanges[s] }
                        IN  /\ \A u \in asked : Cardinality(sentTo(u)) <= c.maxAttempts
                            /\ Cardinality(asked) <= c.maxRedirects + 1
    BY DEF ExchangesBounded
  <2> DEFINE e == engine[s]
             asked == { x.url : x \in exchanges[s] }
  <2>2. Policies(s) /\ Sent(s) /\ Types
    BY <2>1 DEF IInv, SessionInv
  <2>3. asked \subseteq e.seen
    BY <2>1, <2>2 DEF Sent
  <2>4. \A u \in asked : Cardinality(SentTo(s, u)) <= e.caller.maxAttempts
    BY <2>1, <2>2, <2>3 DEF Sent
  <2>5. IsFiniteSet(e.seen) /\ Cardinality(e.seen) = e.followed + 1
        /\ e.followed <= e.caller.maxRedirects /\ e.caller \in HttpRequests
    BY <2>1, <2>2 DEF Policies
  <2>6. Cardinality(asked) <= e.followed + 1 /\ IsFiniteSet(asked)
    BY <2>3, <2>5, FS_Subset
  <2>7. Cardinality(asked) \in Nat
    BY <2>6, FS_CardinalityType
  <2>8. e.followed \in Nat /\ e.caller.maxRedirects \in Nat
    BY <2>2, <2>5, SessionTypes DEF Engines, HttpRequests
  <2>9. Cardinality(asked) <= e.caller.maxRedirects + 1
    BY <2>5, <2>6, <2>7, <2>8
  <2>10. QED
    BY <2>4, <2>9 DEF SentTo
<1>2. QED
  BY <1>1, Invariance, PTL

\* However many redirects are followed, no protected header and no header the
\* source marked is sent to an origin the caller did not name
\* (redirect_request_from, applied hop by hop).
THEOREM SecretsStay == Spec => []SecretsStayHome
<1>1. IInv => SecretsStayHome
  BY DEF IInv, SessionInv, Sent, Harmless, SecretsStayHome
<1>2. QED
  BY <1>1, Invariance, PTL

\* Every published attempt but the first has a published parent: the one before
\* it, of the same session and key, finished before it began
\* (record_transaction_attempt and the parents execute_impl hands down).
THEOREM AttemptsStayChained == Spec => []AttemptsChained
<1>1. IInv => AttemptsChained
  <2>1. SUFFICES ASSUME IInv, NEW id \in Finalized(raw), raw[id].physical > 1
                 PROVE  LET parent == raw[id].parent
                        IN  /\ parent \in Finalized(raw)
                            /\ raw[parent].session = raw[id].session
                            /\ raw[parent].key = raw[id].key
                            /\ raw[parent].physical + 1 = raw[id].physical
                            /\ raw[parent].completed <= raw[id].created
    BY DEF AttemptsChained
  <2>2. Attempt(id)
    BY <2>1, PublishedAdmitted
  <2>3. QED
    BY <2>1, <2>2 DEF Attempt
<1>2. QED
  BY <1>1, Invariance, PTL

\* The progress document never claims more than is published, through every
\* fault and crash between the rename of an attempt and that of the document;
\* what execute returned is complete, published and counted (persist_progress).
THEOREM ProgressStaysTruthful == Spec => []ProgressTruthful
<1>1. IInv => ProgressTruthful
  <2>1. SUFFICES ASSUME IInv, NEW s \in Sessions
                 PROVE  LET doc == progress[s]
                        IN  /\ ProgressValid(doc)
                            /\ doc.last \in Mine(s) \cup {None}
                            /\ doc.completed <= Cardinality(Mine(s))
                            /\ doc.failures <= Cardinality(Failures(s))
                            /\ doc.retries <= Cardinality(Retries(s))
                            /\ outcome[s].kind = "ok" =>
                                 /\ Admitted(raw, outcome[s].tx)
                                 /\ raw[outcome[s].tx].outcome = "response"
                                 /\ doc.last = outcome[s].tx
    BY DEF ProgressTruthful, Mine, Failures, Retries
  <2>2. Counts(s) /\ Answer(s) /\ Types
    BY <2>1 DEF IInv, SessionInv
  <2>3. /\ IsFiniteSet(Mine(s)) /\ IsFiniteSet(Failures(s))
        /\ IsFiniteSet(Retries(s))
    BY <2>2, MineFinite DEF Types, FinitelyMany
  <2> DEFINE m == Mine(s) \ Uncounted(s)
             f == Failures(s) \ Uncounted(s)
             r == Retries(s) \ Uncounted(s)
  <2>4. /\ Cardinality(m) <= Cardinality(Mine(s)) /\ IsFiniteSet(m)
        /\ Cardinality(f) <= Cardinality(Failures(s)) /\ IsFiniteSet(f)
        /\ Cardinality(r) <= Cardinality(Retries(s)) /\ IsFiniteSet(r)
    BY <2>3, FS_Subset
  <2>5. /\ Cardinality(m) \in Nat /\ Cardinality(Mine(s)) \in Nat
        /\ Cardinality(f) \in Nat /\ Cardinality(Failures(s)) \in Nat
        /\ Cardinality(r) \in Nat /\ Cardinality(Retries(s)) \in Nat
    BY <2>3, <2>4, FS_CardinalityType
  <2>6. LET doc == progress[s]
        IN  /\ ProgressValid(doc) /\ doc.last \in Mine(s) \cup {None}
            /\ doc.completed <= Cardinality(m) /\ doc.completed \in Nat
            /\ doc.failures <= Cardinality(f) /\ doc.failures \in Nat
            /\ doc.retries <= Cardinality(r) /\ doc.retries \in Nat
    BY <2>2, SessionTypes DEF Counts, Progresses
  <2> HIDE DEF m, f, r
  <2>7. QED
    BY <2>2, <2>4, <2>5, <2>6 DEF Answer
<1>2. QED
  BY <1>1, Invariance, PTL

\* No leftover of a fault or a crash makes latest_transaction fail, and it never
\* finds a transaction older than one execute returned for the key.
THEOREM LeftoversArePassedOver == Spec => []LeftoversPassedOver
<1>1. IInv => LeftoversPassedOver
  <2> SUFFICES ASSUME IInv PROVE LeftoversPassedOver
    OBVIOUS
  <2>1. ~ LookupFails(raw, view)
    <3>1. SUFFICES ASSUME NEW id \in Finalized(raw)
                   PROVE  /\ Admitted(raw, id)
                          /\ view[raw[id].session].state # "absent"
      BY DEF LookupFails
    <3>2. QED
      BY PublishedAdmitted DEF Attempt
  <2>2. ASSUME NEW s \in Sessions, NEW k \in DOMAIN registry[s]
        PROVE  LET latest == LatestTransaction(raw, k)
               IN  latest # None /\ ~ Newer(raw, registry[s][k], latest)
    <3>1. Good(s, k, registry[s][k])
      BY <2>2 DEF IInv, SessionInv, Registered
    <3>2. registry[s][k] \in Candidates(raw, k)
      BY <3>1 DEF Good, Admitted, DirectoryComplete, ResponseAdmitted, Candidates, Finalized
    <3>3. RawTyped
      BY DEF IInv, Types
    <3>4. QED
      BY <3>2, <3>3, LatestFound
  <2>3. QED
    BY <2>1, <2>2 DEF LeftoversPassedOver
<1>2. QED
  BY <1>1, Invariance, PTL

\* A checkpoint stands for a transaction execute returned as good for that key
\* in that session (commit_checkpoint, through the transaction registry).
THEOREM CheckpointsAreVouched == Spec => []CheckpointVouched
<1>1. IInv => CheckpointVouched
  BY DEF IInv, SessionInv, Committed, Good, CheckpointVouched
<1>2. QED
  BY <1>1, Invariance, PTL

\* As long as its supervisor lives, what a session published or committed is
\* accepted by processing's discovery and by has_checkpoint, however the session
\* ends (discover_http_transactions_for_processing, admit_http_checkpoint_from_disk).
THEOREM EvidenceStaysAvailable == Spec => []SupervisedEvidenceAvailable
<1>1. IInv => SupervisedEvidenceAvailable
  <2> SUFFICES ASSUME IInv PROVE SupervisedEvidenceAvailable
    OBVIOUS
  <2>1. ASSUME NEW s \in Sessions \ orphaned, NEW id \in Finalized(raw),
               raw[id].session = s
        PROVE  Discoverable(raw, view, id)
    <3>1. Attempt(id) /\ Admitted(raw, id)
      BY PublishedAdmitted
    <3>2. Life(s)
      BY DEF IInv, SessionInv
    <3>3. SessionAccepted(view[s])
      <4>1. view[s].started \in Nat
        BY SessionTypes DEF IInv
      <4>2. QED
        BY <2>1, <3>1, <3>2, <4>1 DEF Attempt, Life, SessionAccepted
    <3>4. WithinSession(view[s], raw[id])
      <4>1. /\ raw[id].created \in Nat /\ raw[id].completed \in Nat
            /\ view[s].started \in Nat
        BY PublishedAdmitted, SessionTypes DEF IInv
      <4>2. Answered(raw[id])
        BY <3>1 DEF Admitted, DirectoryComplete, ResponseAdmitted, Answered
      <4>3. QED
        BY <2>1, <3>1, <4>1, <4>2 DEF Attempt, WithinSession
    <3>5. QED
      BY <2>1, <3>1, <3>3, <3>4 DEF Discoverable
  <2>2. ASSUME NEW s \in Sessions \ orphaned, NEW k \in DOMAIN checkpoints[s]
        PROVE  CheckpointAdmitted(raw, view[s], s, k, checkpoints[s][k])
    <3> DEFINE c == checkpoints[s][k]
               t == raw[c.tx]
    <3>1. /\ Good(s, k, c.tx)
          /\ <<t.physical, t.redirect, t.retry>>
               = <<c.physical, c.redirect, c.retry>>
          /\ t.completed <= c.committed
          /\ view[s].finished # 0 => c.committed <= view[s].finished
      BY <2>2 DEF IInv, SessionInv, Committed
    <3>2. Admitted(raw, c.tx) /\ c.tx \in Finalized(raw) /\ t.session = s
          /\ t.key = k /\ t.outcome = "response"
      BY <3>1 DEF Good, Admitted, DirectoryComplete, ResponseAdmitted, Finalized
    <3>3. Attempt(c.tx) /\ t.created \in Nat /\ t.completed \in Nat
      BY <3>2, PublishedAdmitted
    <3>4. Life(s) /\ view[s].started \in Nat
      BY SessionTypes DEF IInv, SessionInv
    <3>5. view[s].state # "absent" /\ view[s].started # 0
          /\ view[s].started <= t.created
      <4>1. view[t.session].state # "absent" /\ view[t.session].started <= t.created
        BY <3>3 DEF Attempt
      <4>2. view[s].state # "absent" /\ view[s].started <= t.created
        BY <3>2, <4>1
      <4>3. 0 < view[s].started
        BY <3>4, <4>2 DEF Life
      <4>4. QED
        BY <3>4, <4>2, <4>3
    <3>6. c.committed \in Nat
      BY <2>2 DEF IInv, Types, CheckpointsTyped, Checkpoints
    <3>7. t.created <= t.completed
      BY <3>2 DEF Admitted, DirectoryComplete, ResponseAdmitted
    <3>8. c.committed >= t.completed /\ c.committed >= view[s].started
      BY <3>1, <3>3, <3>4, <3>5, <3>6, <3>7
    <3> HIDE DEF c
    <3>9. CheckpointMatches(c, s, k, view[s], t)
      BY <3>1, <3>2, <3>8 DEF CheckpointMatches
    <3>10. QED
      BY <3>2, <3>5, <3>9 DEF CheckpointAdmitted, TransactionFound, c
  <2>3. ASSUME orphaned = {}, NEW k \in Keys
        PROVE  HasCheckpoint(raw, view, checkpoints, k) # "error"
    <3>1. \A s \in { s \in Sessions : k \in DOMAIN checkpoints[s] } :
            CheckpointAdmitted(raw, view[s], s, k, checkpoints[s][k])
      BY <2>2, <2>3
    <3>2. QED
      BY <3>1 DEF HasCheckpoint
  <2>4. QED
    BY <2>1, <2>2, <2>3 DEF SupervisedEvidenceAvailable, EvidenceAvailable
<1>2. QED
  BY <1>1, Invariance, PTL

=============================================================================
