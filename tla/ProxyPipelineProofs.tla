------------------------ MODULE ProxyPipelineProofs ------------------------
(***************************************************************************)
(* The pipeline keeps its promises for any number of users, sessions,      *)
(* URLs, requests, rules and tokens: what it does with bypass tokens is    *)
(* what BypassTokens allows, so that their proofs carry over; BLOCK rules  *)
(* and file scans hold against every token, cached verdict and rule change *)
(* that comes between; and each warning lets at most one request through.  *)
(***************************************************************************)
EXTENDS ProxyPipeline, FiniteSetTheorems, FunctionTheorems, TLAPS

Token == INSTANCE BypassTokensProofs WITH Bindings <- Sessions \X Urls

OnItsWay(q) == q.step \in {"rules", "resolve", "scan", "forward"}

\* What was decided, why and with which answer, at each await.
DecidedInOrder(q) ==
  /\ q.step \in {"new", "rules", "resolve", "scan"} =>
       q.decision = None /\ q.via = None
  /\ q.step # "answered" => q.answer = None
  /\ q.via = None <=> q.decision = None
  /\ q.step = "forward" => q.decision # None

\* A request that is held has seen the BLOCK rule wherever it is parked: in
\* the table, in the rows it has read, or not at all with a bypass token.
BlockRuleSeen(q, R) ==
  q.held =>
    /\ OnItsWay(q) => DomainBlock(R, q.sess, q.url)
    /\ q.step = "resolve" => DomainBlock(q.snap, q.sess, q.url)
    /\ q.step # "scan"
    /\ q.step = "forward" \/ q.answer = "forwarded" => q.via = "bypass"

\* Only a rule takes a malicious file past the decision.
FileSeen(q) ==
  /\ q.step \in {"rules", "resolve", "scan", "forward"} =>
       q.kind \in Kinds /\ q.url \in Urls /\ q.sess \in Sessions
  /\ (q.step = "forward" \/ q.answer = "forwarded") /\ FileOf(q) = "MALICIOUS" =>
       q.via = "rule"

\* A request that was let through by a token holds one signed for its session
\* and URL; since the last restart it is the use that was counted.
TokenSpent(q) ==
  /\ q.boot <= boot
  /\ q.via = "bypass" =>
       /\ q.token \in Tokens
       /\ issued[q.token] # None
       /\ issued[q.token].bound = <<q.sess, q.url>>
       /\ q.boot = boot => uses[q.token] > 0

RequestInv(r) ==
  /\ req[r].decision # None <=> r \in logged
  /\ DecidedInOrder(req[r])
  /\ BlockRuleSeen(req[r], rules)
  /\ FileSeen(req[r])
  /\ TokenSpent(req[r])

\* A cached verdict expires CacheTtl after it was given.
CacheInv ==
  /\ cache \in [Urls -> [verdict: Verdicts, at: Nat, until: Nat] \cup {None}]
  /\ \A u \in Urls : cache[u] # None => cache[u].until = cache[u].at + CacheTtl

\* Nobody is warned about a malicious file: it is blocked.
NoTokenForMalice ==
  \A t \in Tokens, s \in Sessions, u \in Urls :
    issued[t] # None /\ issued[t].bound = <<s, u>> => FileVerdict[u] # "MALICIOUS"

\* No two requests were let through by one token between two restarts.
TokensNotShared ==
  \A r1, r2 \in Requests :
    /\ req[r1].via = "bypass" /\ req[r2].via = "bypass"
    /\ req[r1].boot = req[r2].boot /\ req[r1].token = req[r2].token
    => r1 = r2

Warned(s, u) == {r \in Requests : /\ req[r].answer = "warned"
                                  /\ req[r].sess = s /\ req[r].url = u}

TokensFor(s, u) == {t \in Tokens : issued[t] # None /\ issued[t].bound = <<s, u>>}

\* Finitely many requests were made, and a token is signed only with a warning.
OneTokenPerWarning ==
  /\ IsFiniteSet({r \in Requests : req[r].step # "new"})
  /\ \A s \in Sessions, u \in Urls :
       /\ IsFiniteSet(TokensFor(s, u))
       /\ Cardinality(TokensFor(s, u)) <= Cardinality(Warned(s, u))

IInv ==
  /\ Token!IInv
  /\ TypeOK
  /\ \A r \in Requests : RequestInv(r)
  /\ CacheInv
  /\ NoTokenForMalice
  /\ TokensNotShared
  /\ OneTokenPerWarning

-----------------------------------------------------------------------------
\* What a step of a request on its way may do: p is what becomes of its record.

SameOrigin(p, q) ==
  /\ p.kind = q.kind /\ p.sess = q.sess /\ p.url = q.url /\ p.token = q.token
  /\ p.boot = q.boot /\ p.held = q.held

SignsWithWarning(p) ==
  /\ p.answer = "warned"
  /\ FileVerdict[p.url] # "MALICIOUS"
  /\ \E t \in Tokens : Token!Sign(t, <<p.sess, p.url>>)

Fresh(p, q) ==
  q.via # "scan" /\ p.via = "scan"
    => /\ now - p.at < CacheTtl
       /\ p.verdict = "FAILSAFE" => q.step = "scan"

Moves(r, p) ==
  /\ OnItsWay(req[r])
  /\ Set(r, p)
  /\ p \in Request /\ p.step \notin {"new", "lost"}
  /\ SameOrigin(p, req[r])
  /\ p.via = "bypass" <=> req[r].via = "bypass"
  /\ LogTraffic(r) \/ UNCHANGED logged
  /\ p.decision # None <=> r \in logged'
  /\ DecidedInOrder(p) /\ BlockRuleSeen(p, rules) /\ FileSeen(p)
  /\ Fresh(p, req[r])
  /\ UNCHANGED <<now, rules, boot>>
  /\ UNCHANGED tokenVars \/ SignsWithWarning(p)

\* The constants, as BypassTokens asks for them.
LEMMA TokenConstants == Token!BypassConstants
BY PipelineConstants, NoneIsNoValue DEF Token!BypassConstants

\* The two instances of BypassTokens are the same.
LEMMA SameTokens ==
  /\ Bypass!TypeOK <=> Token!TypeOK
  /\ Bypass!Init <=> Token!Init
  /\ Bypass!Restart <=> Token!Restart
  /\ \A t, b :
       /\ Bypass!Sign(t, b) <=> Token!Sign(t, b)
       /\ Bypass!Accept(t, b) <=> Token!Accept(t, b)
       /\ Bypass!Refuse(t, b) <=> Token!Refuse(t, b)
<1>1. Bypass!TypeOK <=> Token!TypeOK
  BY DEF Bypass!TypeOK, Token!TypeOK
<1>2. Bypass!Init <=> Token!Init
  BY DEF Bypass!Init, Token!Init
<1>3. Bypass!Restart <=> Token!Restart
  BY DEF Bypass!Restart, Token!Restart
<1>4. ASSUME NEW t, NEW b
      PROVE  /\ Bypass!Sign(t, b) <=> Token!Sign(t, b)
             /\ Bypass!Accept(t, b) <=> Token!Accept(t, b)
             /\ Bypass!Refuse(t, b) <=> Token!Refuse(t, b)
  BY DEF Bypass!Sign, Token!Sign, Bypass!Accept, Token!Accept,
         Bypass!Refuse, Token!Refuse, Bypass!Acceptable, Token!Acceptable,
         Bypass!Unexpired, Token!Unexpired, Bypass!Seconds, Token!Seconds,
         Bypass!Remembered, Token!Remembered, Bypass!ForgetAt, Token!ForgetAt
<1>5. QED
  BY <1>1, <1>2, <1>3, <1>4

\* An answered request keeps all but its step and answer.
LEMMA AnsweredFields ==
  ASSUME NEW q \in Request,
         NEW a \in {"forwarded", "blocked", "warned", "error"}
  PROVE  /\ Answered(q, a) \in Request
         /\ Answered(q, a).step = "answered"
         /\ Answered(q, a).answer = a
         /\ SameOrigin(Answered(q, a), q)
         /\ Answered(q, a).snap = q.snap
         /\ Answered(q, a).verdict = q.verdict
         /\ Answered(q, a).at = q.at
         /\ Answered(q, a).via = q.via
         /\ Answered(q, a).decision = q.decision
BY DEF Answered, Request, SameOrigin

\* A request on its way is of a kind, for a session and a URL.
LEMMA OnItsWayFields ==
  ASSUME IInv, NEW r \in Requests, OnItsWay(req[r])
  PROVE  /\ req[r] \in Request
         /\ req[r].kind \in Kinds /\ req[r].sess \in Sessions
         /\ req[r].url \in Urls
         /\ req[r].answer = None
         /\ req[r].step # "forward" => req[r].via = None /\ req[r].decision = None
BY DEF IInv, TypeOK, RequestInv, OnItsWay, DecidedInOrder, FileSeen, Request
-----------------------------------------------------------------------------
\* The steps of a request on its way are moves.

\* The policy decides ALLOW, WARN or BLOCK, and never lets a malicious file by.
LEMMA Decisive ==
  ASSUME NEW f, NEW v \in ScanResults
  PROVE  /\ Decide(f, v) \in Decisions
         /\ f = "MALICIOUS" => Decide(f, v) = "BLOCK"
BY DEF Decide, Decisions

\* What a decision on a scan result writes into a request.
ByScan(q, v, t, d) ==
  [q EXCEPT !.verdict = v, !.at = t, !.via = "scan", !.decision = d]

\* It writes nothing else.
LEMMA DecidedFields ==
  ASSUME NEW q \in Request, NEW v \in ScanResults, NEW t \in Nat,
         NEW d \in Decisions
  PROVE  LET p == ByScan(q, v, t, d) IN
         /\ p \in Request /\ SameOrigin(p, q)
         /\ p.step = q.step /\ p.answer = q.answer /\ p.snap = q.snap
         /\ p.via = "scan" /\ p.verdict = v /\ p.at = t /\ p.decision = d
BY DEF ByScan, Request, SameOrigin

\* A decision on a scan result, where no rule of the user held the request.
LEMMA DecidedMoves ==
  ASSUME IInv, NEW r \in Requests, OnItsWay(req[r]), req[r].step # "forward",
         NEW q \in Request, SameOrigin(q, req[r]), q.answer = None, ~q.held,
         NEW v \in ScanResults, NEW t \in Nat, now - t < CacheTtl,
         v = "FAILSAFE" => req[r].step = "scan",
         UNCHANGED <<now, rules, boot>>, Decided(r, q, v, t)
  PROVE  \E p \in Request : Moves(r, p)
<1> DEFINE d == Decide(FileOf(q), v)
           p == ByScan(q, v, t, d)
<1>1. d \in Decisions /\ (FileOf(q) = "MALICIOUS" => d = "BLOCK")
  BY Decisive
<1>2. /\ q.kind \in Kinds /\ q.sess \in Sessions /\ q.url \in Urls
      /\ req[r].via = None
  BY OnItsWayFields DEF SameOrigin
<1> HIDE DEF d
<1> HIDE DEF p
<1>3. /\ p \in Request /\ SameOrigin(p, q) /\ p.step = q.step
      /\ p.answer = None /\ p.via = "scan" /\ p.verdict = v /\ p.at = t
      /\ p.decision = d /\ FileOf(p) = FileOf(q)
  <2>1. /\ p \in Request /\ SameOrigin(p, q)
        /\ p.step = q.step /\ p.answer = q.answer /\ p.snap = q.snap
        /\ p.via = "scan" /\ p.verdict = v /\ p.at = t /\ p.decision = d
    BY <1>1, DecidedFields DEF p
  <2>2. QED
    BY <2>1 DEF FileOf, SameOrigin
<1>4. ASSUME NEW m \in Request, SameOrigin(m, p), m.via = "scan", m.verdict = v,
             m.at = t, m.decision = d, Set(r, m),
             \/ m.step = "forward" /\ m.answer = None /\ d # "BLOCK"
             \/ m.step = "answered" /\ m.answer \in {"blocked", "warned"},
             UNCHANGED tokenVars \/ SignsWithWarning(m)
      PROVE  Moves(r, m)
  <2>1. /\ SameOrigin(m, req[r]) /\ FileOf(m) = FileOf(q) /\ ~m.held
        /\ m.kind \in Kinds /\ m.sess \in Sessions /\ m.url \in Urls
    BY <1>2, <1>3, <1>4 DEF SameOrigin, FileOf
  <2>2. LogTraffic(r) /\ r \in logged'
    BY DEF Decided, LogTraffic
  <2>3. d # None /\ m.via # None
    BY <1>1, <1>4, NoneIsNoValue DEF Decisions
  <2>4. DecidedInOrder(m)
    BY <1>4, <2>3, NoneIsNoValue DEF DecidedInOrder
  <2>5. BlockRuleSeen(m, rules) /\ FileSeen(m)
    BY <1>1, <1>4, <2>1 DEF BlockRuleSeen, FileSeen
  <2>6. Fresh(m, req[r])
    BY <1>4 DEF Fresh
  <2>7. QED
    BY <1>2, <1>4, <2>1, <2>2, <2>3, <2>4, <2>5, <2>6, NoneIsNoValue DEF Moves
<1>5. CASE d = "ALLOW" /\ Set(r, [p EXCEPT !.step = "forward"])
           /\ UNCHANGED tokenVars
  <2> DEFINE m == [p EXCEPT !.step = "forward"]
  <2>1. /\ m \in Request /\ SameOrigin(m, p) /\ m.via = "scan" /\ m.verdict = v
        /\ m.at = t /\ m.decision = d /\ m.step = "forward" /\ m.answer = None
    BY <1>3 DEF Request, SameOrigin
  <2> HIDE DEF m
  <2>2. Set(r, m)
    BY <1>5 DEF m
  <2>3. QED
    BY <1>4, <1>5, <2>1, <2>2
<1>6. CASE Set(r, Answered(p, "blocked")) /\ UNCHANGED tokenVars
  BY <1>3, <1>4, <1>6, AnsweredFields
<1>7. CASE /\ d = "WARN" /\ q.kind = "http" /\ Set(r, Answered(p, "warned"))
           /\ \/ \E t2 \in Tokens : Bypass!Sign(t2, <<q.sess, q.url>>)
              \/ UNCHANGED tokenVars
  <2> DEFINE m == Answered(p, "warned")
  <2>1. /\ m \in Request /\ SameOrigin(m, p) /\ m.via = "scan" /\ m.verdict = v
        /\ m.at = t /\ m.decision = d /\ m.step = "answered" /\ m.answer = "warned"
    BY <1>3, AnsweredFields
  <2> HIDE DEF m
  <2>2. m.sess = q.sess /\ m.url = q.url
    BY <1>3, <2>1 DEF SameOrigin
  <2>3. FileVerdict[m.url] # "MALICIOUS"
    BY <1>1, <1>7, <2>2 DEF FileOf
  <2>4. UNCHANGED tokenVars \/ SignsWithWarning(m)
    BY <1>7, <2>1, <2>2, <2>3, SameTokens DEF SignsWithWarning
  <2>5. Set(r, m)
    BY <1>7 DEF m
  <2>6. QED
    BY <1>4, <2>1, <2>4, <2>5
<1>8. QED
  BY <1>5, <1>6, <1>7 DEF Decided, d, p, ByScan

\* The request forgets the rules it has read.
Cleared(q) == [q EXCEPT !.snap = {}]

LetThrough(q) == [q EXCEPT !.step = "forward"]

\* None of these writes more than it says.
LEMMA SmallWrites ==
  ASSUME NEW q \in Request, NEW d \in Decisions
  PROVE  /\ Cleared(q) \in Request /\ SameOrigin(Cleared(q), q)
         /\ Cleared(q).answer = q.answer /\ Cleared(q).step = q.step
         /\ Cleared(q).via = q.via
         /\ LetThrough(q) \in Request /\ SameOrigin(LetThrough(q), q)
         /\ LetThrough(q).step = "forward" /\ LetThrough(q).answer = q.answer
         /\ LetThrough(q).via = q.via /\ LetThrough(q).decision = q.decision
         /\ ByRule(q, d) \in Request /\ SameOrigin(ByRule(q, d), q)
         /\ ByRule(q, d).step = q.step /\ ByRule(q, d).answer = q.answer
         /\ ByRule(q, d).via = "rule" /\ ByRule(q, d).decision = d
<1>1. /\ Cleared(q) \in Request /\ SameOrigin(Cleared(q), q)
      /\ Cleared(q).answer = q.answer /\ Cleared(q).step = q.step
      /\ Cleared(q).via = q.via
  BY DEF Cleared, Request, SameOrigin
<1>2. /\ LetThrough(q) \in Request /\ SameOrigin(LetThrough(q), q)
      /\ LetThrough(q).step = "forward" /\ LetThrough(q).answer = q.answer
      /\ LetThrough(q).via = q.via /\ LetThrough(q).decision = q.decision
  BY DEF LetThrough, Request, SameOrigin
<1>3. /\ ByRule(q, d) \in Request /\ SameOrigin(ByRule(q, d), q)
      /\ ByRule(q, d).step = q.step /\ ByRule(q, d).answer = q.answer
      /\ ByRule(q, d).via = "rule" /\ ByRule(q, d).decision = d
  BY DEF ByRule, Request, SameOrigin
<1>4. QED
  BY <1>1, <1>2, <1>3

\* What the purge leaves in the cache is younger than CacheTtl.
LEMMA PurgedIsFresh ==
  ASSUME IInv
  PROVE  /\ cache' = Purged => CacheInv'
         /\ \A u \in Urls : Purged[u] # None =>
              /\ Purged[u].verdict \in Verdicts /\ Purged[u].at \in Nat
              /\ now - Purged[u].at < CacheTtl
<1>1. /\ now \in Nat /\ CacheTtl \in Nat \ {0} /\ CacheInv
  BY PipelineConstants, SameTokens DEF IInv, TypeOK, Token!TypeOK
<1>2. \A u \in Urls :
        \/ Purged[u] = None
        \/ Purged[u] = cache[u] /\ cache[u] # None /\ ~(cache[u].until <= now)
  BY DEF Purged
<1>3. \A u \in Urls : cache[u] # None =>
        /\ cache[u].verdict \in Verdicts
        /\ cache[u].at \in Nat
        /\ cache[u].until = cache[u].at + CacheTtl
  BY <1>1 DEF CacheInv
<1>4. Purged \in [Urls -> [verdict: Verdicts, at: Nat, until: Nat] \cup {None}]
  BY <1>1 DEF CacheInv, Purged
<1>5. QED
  BY <1>1, <1>2, <1>3, <1>4 DEF CacheInv

\* ThreatScanCacheService: a decision from the cache, or a scan is begun.
LEMMA ScanWithCacheMoves ==
  ASSUME IInv, NEW r \in Requests, OnItsWay(req[r]),
         req[r].step \in {"rules", "resolve"}, ~req[r].held,
         UNCHANGED <<now, rules, boot>>, ScanWithCache(r, Cleared(req[r]))
  PROVE  (\E p \in Request : Moves(r, p)) /\ CacheInv'
<1> DEFINE q == Cleared(req[r])
<1>1. /\ q \in Request /\ SameOrigin(q, req[r]) /\ q.answer = None
      /\ q.via = None /\ q.url \in Urls /\ ~q.held
      /\ req[r].via = None /\ req[r].decision = None
      /\ q.kind \in Kinds /\ q.sess \in Sessions
  BY OnItsWayFields, SmallWrites DEF SameOrigin, Decisions
<1>2. CacheInv'
  BY PurgedIsFresh DEF ScanWithCache
<1> HIDE DEF q
<1>3. CASE Purged[q.url] # None
           /\ Decided(r, q, Purged[q.url].verdict, Purged[q.url].at)
  <2>1. /\ Purged[q.url].verdict \in Verdicts /\ Purged[q.url].at \in Nat
        /\ now - Purged[q.url].at < CacheTtl
    BY <1>1, <1>3, PurgedIsFresh
  <2>2. /\ Purged[q.url].verdict \in ScanResults
        /\ Purged[q.url].verdict # "FAILSAFE"
    BY <2>1 DEF ScanResults, Verdicts
  <2>3. QED
    BY <1>1, <1>2, <1>3, <2>1, <2>2, DecidedMoves
<1>4. CASE Set(r, [q EXCEPT !.step = "scan"])
           /\ UNCHANGED <<logged, issued, consumed, uses>>
  <2> DEFINE m == [q EXCEPT !.step = "scan"]
  <2>1. /\ m \in Request /\ SameOrigin(m, q) /\ m.step = "scan"
        /\ m.answer = None /\ m.via = None /\ m.decision = q.decision
    BY <1>1 DEF Request, SameOrigin
  <2>2. q.decision = None
    BY <1>1 DEF q, Cleared, Request
  <2> HIDE DEF m
  <2>3. /\ SameOrigin(m, req[r]) /\ ~m.held
        /\ m.kind \in Kinds /\ m.sess \in Sessions /\ m.url \in Urls
    BY <1>1, <2>1 DEF SameOrigin
  <2>4. DecidedInOrder(m) /\ BlockRuleSeen(m, rules) /\ FileSeen(m)
    BY <2>1, <2>2, <2>3, NoneIsNoValue DEF DecidedInOrder, BlockRuleSeen, FileSeen
  <2>5. Set(r, m) /\ UNCHANGED logged /\ UNCHANGED tokenVars /\ Fresh(m, req[r])
    BY <1>4, <2>1, NoneIsNoValue DEF m, tokenVars, Fresh
  <2>6. m.decision # None <=> r \in logged'
    BY <1>1, <1>4, <2>1, <2>2 DEF IInv, RequestInv
  <2>7. Moves(r, m)
    BY <1>1, <2>1, <2>3, <2>4, <2>5, <2>6, NoneIsNoValue DEF Moves
  <2>8. QED
    BY <1>2, <2>1, <2>7
<1>5. QED
  BY <1>3, <1>4 DEF ScanWithCache, q

\* A request on its way that is neither held by what it read nor let through
\* with a file a rule of the user did not allow.
LEMMA RuleMoves ==
  ASSUME IInv, NEW r \in Requests, OnItsWay(req[r]), req[r].step # "forward",
         NEW p \in Request, SameOrigin(p, req[r]), p.via = "rule",
         p.decision \in Decisions, Set(r, p), LogTraffic(r),
         UNCHANGED <<now, rules, boot, issued, consumed, uses>>,
         \/ p.step = "answered" /\ p.answer = "blocked"
         \/ p.step = "forward" /\ p.answer = None /\ ~p.held
  PROVE  Moves(r, p)
<1>1. /\ p.kind \in Kinds /\ p.sess \in Sessions /\ p.url \in Urls
      /\ req[r].via = None
  BY OnItsWayFields DEF SameOrigin
<1>2. p.decision # None /\ p.via # None
  BY NoneIsNoValue
<1>3. DecidedInOrder(p) /\ FileSeen(p)
  BY <1>1, <1>2, NoneIsNoValue DEF DecidedInOrder, FileSeen
<1>4. BlockRuleSeen(p, rules)
  <2>1. CASE p.step = "answered" /\ p.answer = "blocked"
    BY <2>1 DEF BlockRuleSeen, OnItsWay
  <2>2. CASE ~p.held
    BY <2>2 DEF BlockRuleSeen
  <2>3. QED
    BY <2>1, <2>2
<1>5. UNCHANGED tokenVars /\ UNCHANGED <<now, rules, boot>>
  BY DEF tokenVars
<1>6. r \in logged' /\ Fresh(p, req[r])
  BY DEF LogTraffic, Fresh
<1>7. p.step \notin {"new", "lost"} /\ (p.via = "bypass" <=> req[r].via = "bypass")
  BY <1>1, NoneIsNoValue
<1>8. QED
  BY <1>2, <1>3, <1>4, <1>5, <1>6, <1>7 DEF Moves

\* evaluateRules: the rules R that were read hold the request if the table does.
LEMMA EvaluateMoves ==
  ASSUME IInv, NEW r \in Requests, req[r].step \in {"rules", "resolve"},
         NEW R \in SUBSET RuleRows,
         req[r].held => \E x \in R : /\ x.url = req[r].url /\ x.kind = "DOMAIN"
                                     /\ x.action = "BLOCK",
         NEW resolved \in BOOLEAN,
         UNCHANGED <<now, rules, boot>>, Evaluate(r, R, resolved)
  PROVE  (\E p \in Request : Moves(r, p)) /\ CacheInv'
<1> DEFINE q == Cleared(req[r])
           hits == {x \in R : Matches(x, q.url, resolved)}
<1>0. OnItsWay(req[r]) /\ req[r].step # "forward"
  BY DEF OnItsWay
<1>1. /\ q \in Request /\ SameOrigin(q, req[r]) /\ q.answer = None
      /\ q.url = req[r].url /\ q.held = req[r].held
  BY <1>0, OnItsWayFields, SmallWrites DEF SameOrigin, Decisions
<1>2. /\ "BLOCK" \in Decisions /\ "ALLOW" \in Decisions
      /\ {"BLOCK", "ALLOW"} \subseteq Decisions
  BY DEF Decisions
<1>3. RuleAction(hits) # "BLOCK" => ~req[r].held
  BY <1>1 DEF RuleAction, Matches
<1> HIDE DEF q, hits
<1>4. CASE /\ RuleAction(hits) = "BLOCK"
           /\ Set(r, Answered(ByRule(q, "BLOCK"), "blocked"))
           /\ LogTraffic(r)
           /\ UNCHANGED <<cache, issued, consumed, uses>>
  <2> DEFINE p == Answered(ByRule(q, "BLOCK"), "blocked")
  <2>1. /\ ByRule(q, "BLOCK") \in Request /\ SameOrigin(ByRule(q, "BLOCK"), q)
        /\ ByRule(q, "BLOCK").via = "rule" /\ ByRule(q, "BLOCK").decision = "BLOCK"
    BY <1>1, <1>2, SmallWrites
  <2>2. /\ p \in Request /\ SameOrigin(p, req[r]) /\ p.via = "rule"
        /\ p.decision \in Decisions /\ p.step = "answered" /\ p.answer = "blocked"
    BY <1>1, <1>2, <2>1, AnsweredFields DEF SameOrigin
  <2> HIDE DEF p
  <2>3. Set(r, p)
    BY <1>4 DEF p
  <2>4. Moves(r, p)
    BY <1>0, <1>4, <2>2, <2>3, RuleMoves
  <2>5. CacheInv'
    BY <1>4 DEF IInv, CacheInv
  <2>6. QED
    BY <2>2, <2>4, <2>5
<1>5. CASE /\ RuleAction(hits) = "ALLOW"
           /\ Set(r, LetThrough(ByRule(q, "ALLOW")))
           /\ LogTraffic(r)
           /\ UNCHANGED <<cache, issued, consumed, uses>>
  <2> DEFINE p == LetThrough(ByRule(q, "ALLOW"))
  <2>1. /\ ByRule(q, "ALLOW") \in Request /\ SameOrigin(ByRule(q, "ALLOW"), q)
        /\ ByRule(q, "ALLOW").via = "rule" /\ ByRule(q, "ALLOW").decision = "ALLOW"
        /\ ByRule(q, "ALLOW").answer = None
    BY <1>1, <1>2, SmallWrites
  <2>2. /\ p \in Request /\ SameOrigin(p, req[r]) /\ p.via = "rule"
        /\ p.decision \in Decisions /\ p.step = "forward" /\ p.answer = None
    BY <1>1, <1>2, <2>1, SmallWrites DEF SameOrigin
  <2> HIDE DEF p
  <2>3. Set(r, p) /\ ~p.held
    BY <1>3, <1>5, <2>2 DEF p, SameOrigin
  <2>4. Moves(r, p)
    BY <1>0, <1>5, <2>2, <2>3, RuleMoves
  <2>5. CacheInv'
    BY <1>5 DEF IInv, CacheInv
  <2>6. QED
    BY <2>2, <2>4, <2>5
<1>6. CASE RuleAction(hits) = None /\ ScanWithCache(r, q)
  BY <1>0, <1>3, <1>6, NoneIsNoValue, ScanWithCacheMoves DEF q, Decisions
<1>7. QED
  BY <1>4, <1>5, <1>6 DEF Evaluate, q, hits, Cleared, LetThrough

\* The rules are read: with IP rules a lookup comes first.
LEMMA ReadRulesMoves ==
  ASSUME IInv, NEW r \in Requests, ReadRules(r)
  PROVE  (\E p \in Request : Moves(r, p)) /\ CacheInv'
<1> DEFINE R == {x \in rules : x.user = UserOf[req[r].sess]}
<1>1. /\ R \in SUBSET RuleRows /\ req[r].step = "rules" /\ OnItsWay(req[r])
      /\ UNCHANGED <<now, rules, boot>>
  BY DEF ReadRules, IInv, TypeOK, OnItsWay
<1>2. req[r].held => DomainBlock(R, req[r].sess, req[r].url)
  BY <1>1 DEF IInv, RequestInv, BlockRuleSeen, DomainBlock
<1> HIDE DEF R
<1>3. CASE /\ Set(r, [req[r] EXCEPT !.step = "resolve", !.snap = R])
           /\ UNCHANGED <<cache, logged, issued, consumed, uses>>
  <2> DEFINE m == [req[r] EXCEPT !.step = "resolve", !.snap = R]
  <2>1. req[r] \in Request /\ req[r].answer = None /\ req[r].via = None
        /\ req[r].decision = None
    BY <1>1, OnItsWayFields
  <2>2. /\ m \in Request /\ SameOrigin(m, req[r]) /\ m.step = "resolve"
        /\ m.answer = None /\ m.via = None /\ m.decision = None /\ m.snap = R
    BY <1>1, <2>1 DEF Request, SameOrigin
  <2> HIDE DEF m
  <2>3. m.kind \in Kinds /\ m.sess \in Sessions /\ m.url \in Urls
    BY <1>1, <2>2, OnItsWayFields DEF SameOrigin
  <2>4. DecidedInOrder(m) /\ FileSeen(m)
    BY <2>2, <2>3, NoneIsNoValue DEF DecidedInOrder, FileSeen
  <2>5. BlockRuleSeen(m, rules)
    <3>1. BlockRuleSeen(req[r], rules)
      BY DEF IInv, RequestInv
    <3>2. QED
      BY <1>1, <1>2, <2>2, <3>1, NoneIsNoValue
         DEF BlockRuleSeen, SameOrigin
  <2>6. Set(r, m) /\ UNCHANGED logged /\ UNCHANGED tokenVars /\ Fresh(m, req[r])
    BY <1>3, <2>2, NoneIsNoValue DEF m, tokenVars, Fresh
  <2>7. m.decision # None <=> r \in logged'
    BY <2>1, <2>2, <2>6 DEF IInv, RequestInv
  <2>8. Moves(r, m)
    BY <1>1, <2>1, <2>2, <2>4, <2>5, <2>6, <2>7, NoneIsNoValue DEF Moves
  <2>9. CacheInv'
    BY <1>3 DEF IInv, CacheInv
  <2>10. QED
    BY <2>2, <2>8, <2>9
<1>4. CASE Evaluate(r, R, FALSE)
  BY <1>1, <1>2, <1>4, EvaluateMoves DEF DomainBlock
<1>5. QED
  BY <1>3, <1>4 DEF ReadRules, R

\* The lookup answers, and the rules that were read before are applied.
LEMMA ResolveIpMoves ==
  ASSUME IInv, NEW r \in Requests, ResolveIp(r)
  PROVE  (\E p \in Request : Moves(r, p)) /\ CacheInv'
<1>1. /\ req[r].step = "resolve" /\ UNCHANGED <<now, rules, boot>>
      /\ req[r] \in Request
  BY DEF ResolveIp, IInv, TypeOK
<1>2. req[r].snap \in SUBSET RuleRows
  BY <1>1 DEF Request
<1>3. req[r].held => DomainBlock(req[r].snap, req[r].sess, req[r].url)
  BY <1>1 DEF IInv, RequestInv, BlockRuleSeen
<1>4. QED
  BY <1>1, <1>2, <1>3, EvaluateMoves DEF ResolveIp, DomainBlock

\* An answer that follows the decision, or the failure to read the rules.
LEMMA AnswerMoves ==
  ASSUME IInv, NEW r \in Requests, OnItsWay(req[r]),
         NEW a \in {"forwarded", "blocked", "error"},
         req[r].step = "forward" \/ a = "error",
         Set(r, Answered(req[r], a)),
         UNCHANGED <<now, rules, cache, boot, issued, consumed, uses, logged>>
  PROVE  (\E p \in Request : Moves(r, p)) /\ CacheInv'
<1> DEFINE m == Answered(req[r], a)
<1>1. /\ req[r] \in Request /\ RequestInv(r)
      /\ req[r].kind \in Kinds /\ req[r].sess \in Sessions /\ req[r].url \in Urls
  BY OnItsWayFields DEF IInv
<1>2. /\ m \in Request /\ SameOrigin(m, req[r]) /\ m.step = "answered"
      /\ m.answer = a /\ m.via = req[r].via /\ m.decision = req[r].decision
  BY <1>1, AnsweredFields
<1> HIDE DEF m
<1>3. DecidedInOrder(m)
  BY <1>1, <1>2 DEF DecidedInOrder, RequestInv
<1>4. BlockRuleSeen(m, rules)
  BY <1>1, <1>2 DEF BlockRuleSeen, RequestInv, SameOrigin, OnItsWay
<1>5. FileSeen(m)
  BY <1>1, <1>2 DEF FileSeen, RequestInv, SameOrigin, FileOf
<1>6. /\ Set(r, m) /\ UNCHANGED tokenVars /\ Fresh(m, req[r])
      /\ m.decision # None <=> r \in logged'
  BY <1>1, <1>2 DEF m, tokenVars, Fresh, RequestInv
<1>7. Moves(r, m)
  BY <1>2, <1>3, <1>4, <1>5, <1>6 DEF Moves
<1>8. CacheInv'
  BY DEF IInv, CacheInv
<1>9. QED
  BY <1>2, <1>7, <1>8

\* The scan answers; what it answered is cached unless it failed.
LEMMA ScanAnswerMoves ==
  ASSUME IInv, NEW r \in Requests, ScanAnswer(r)
  PROVE  (\E p \in Request : Moves(r, p)) /\ CacheInv'
<1>1. /\ req[r].step = "scan" /\ OnItsWay(req[r])
      /\ UNCHANGED <<now, rules, boot>>
      /\ now \in Nat /\ CacheTtl \in Nat \ {0}
  BY PipelineConstants, SameTokens
     DEF ScanAnswer, OnItsWay, IInv, TypeOK, Token!TypeOK
<1>2. /\ req[r] \in Request /\ req[r].answer = None /\ ~req[r].held
      /\ req[r].url \in Urls /\ SameOrigin(req[r], req[r])
  BY <1>1, OnItsWayFields DEF IInv, RequestInv, BlockRuleSeen, SameOrigin, Request
<1>3. PICK v \in Answers :
        /\ cache' = IF Cacheable(v) THEN [cache EXCEPT ![req[r].url] = Stored(v)]
                                    ELSE cache
        /\ Decided(r, req[r], v, now)
  BY DEF ScanAnswer
<1>4. v \in ScanResults /\ now - now < CacheTtl
  BY <1>1, PipelineConstants
<1>5. \E p \in Request : Moves(r, p)
  BY <1>1, <1>2, <1>3, <1>4, DecidedMoves
<1>6. CASE Cacheable(v)
  <2>1. /\ Stored(v) \in [verdict: Verdicts, at: Nat, until: Nat]
        /\ Stored(v).until = Stored(v).at + CacheTtl
    BY <1>1, <1>4, <1>6 DEF Stored, Cacheable, ScanResults
  <2>2. cache' = [cache EXCEPT ![req[r].url] = Stored(v)]
    BY <1>3, <1>6
  <2>3. QED
    BY <1>2, <1>5, <2>1, <2>2 DEF IInv, CacheInv
<1>7. CASE ~Cacheable(v)
  BY <1>3, <1>5, <1>7 DEF IInv, CacheInv
<1>8. QED
  BY <1>6, <1>7

\* Every step of a request on its way is a move and keeps the cache sound.
LEMMA ProgressMoves ==
  ASSUME IInv, NEW r \in Requests, Progress(r)
  PROVE  (\E p \in Request : Moves(r, p)) /\ CacheInv'
<1>1. CASE RulesUnavailable(r)
  BY <1>1, AnswerMoves DEF RulesUnavailable, OnItsWay
<1>2. CASE Forward(r) \/ OpenTunnel(r)
  <2>1. \A address \in {"public", "private", "none"} :
          Outcomes(address) \subseteq {"forwarded", "blocked", "error"}
    BY DEF Outcomes
  <2>2. PICK a \in {"forwarded", "blocked", "error"} :
          /\ Set(r, Answered(req[r], a))
          /\ UNCHANGED <<now, rules, cache, boot, issued, consumed, uses, logged>>
    BY <1>2, <2>1 DEF Forward, OpenTunnel, Reach
  <2>3. OnItsWay(req[r]) /\ req[r].step = "forward"
    BY <1>2 DEF Forward, OpenTunnel, OnItsWay
  <2>4. QED
    BY <2>2, <2>3, AnswerMoves
<1>3. QED
  BY <1>1, <1>2, ReadRulesMoves, ResolveIpMoves, ScanAnswerMoves DEF Progress
-----------------------------------------------------------------------------
\* What moves leave true.

Asked == {r \in Requests : req[r].step # "new"}

\* A request that was warned has been made, and there are finitely many.
LEMMA WarnedFinite ==
  ASSUME IInv, NEW s \in Sessions, NEW u \in Urls
  PROVE  /\ IsFiniteSet(Asked) /\ IsFiniteSet(Warned(s, u))
         /\ Cardinality(Warned(s, u)) \in Nat
         /\ IsFiniteSet(TokensFor(s, u)) /\ Cardinality(TokensFor(s, u)) \in Nat
         /\ Cardinality(TokensFor(s, u)) <= Cardinality(Warned(s, u))
<1>1. Warned(s, u) \subseteq Asked
  BY NoneIsNoValue DEF Warned, Asked, IInv, RequestInv, DecidedInOrder
<1>2. IsFiniteSet(Asked)
  BY DEF IInv, OneTokenPerWarning, Asked
<1>3. IsFiniteSet(Warned(s, u))
  BY <1>1, <1>2, FS_Subset
<1>4. IsFiniteSet(TokensFor(s, u))
      /\ Cardinality(TokensFor(s, u)) <= Cardinality(Warned(s, u))
  BY DEF IInv, OneTokenPerWarning
<1>5. QED
  BY <1>2, <1>3, <1>4, FS_CardinalityType

\* Without a new token nothing is owed: those who were warned stay warned.
LEMMA NothingSigned ==
  ASSUME IInv, UNCHANGED issued, IsFiniteSet(Asked'),
         \A x \in Requests :
           /\ req[x].answer = "warned" =>
                /\ req'[x].answer = "warned"
                /\ req'[x].sess = req[x].sess /\ req'[x].url = req[x].url
           /\ req'[x].answer = "warned" => req'[x].step # "new"
  PROVE  OneTokenPerWarning'
<1>1. ASSUME NEW s \in Sessions, NEW u \in Urls
      PROVE  /\ IsFiniteSet(TokensFor(s, u)')
             /\ Cardinality(TokensFor(s, u)') <= Cardinality(Warned(s, u)')
  <2>1. TokensFor(s, u)' = TokensFor(s, u)
    BY DEF TokensFor
  <2>2. Warned(s, u) \subseteq Warned(s, u)' /\ Warned(s, u)' \subseteq Asked'
    BY DEF Warned, Asked
  <2>3. IsFiniteSet(Warned(s, u)')
    BY <2>2, FS_Subset
  <2>4. Cardinality(Warned(s, u)) <= Cardinality(Warned(s, u)')
        /\ Cardinality(Warned(s, u)') \in Nat
    BY <2>2, <2>3, FS_Subset, FS_CardinalityType
  <2>5. QED
    BY <2>1, <2>4, WarnedFinite
<1>2. QED
  BY <1>1 DEF OneTokenPerWarning, Asked

\* A token that is signed is paid for by the warning it comes with.
LEMMA SignedWithWarning ==
  ASSUME IInv, NEW r \in Requests, NEW p \in Request, Moves(r, p),
         SignsWithWarning(p)
  PROVE  OneTokenPerWarning'
<1>1. /\ p.answer = "warned" /\ p.step # "new" /\ req[r].answer = None
      /\ req'[r] = p /\ req[r].step # "new"
      /\ \A x \in Requests \ {r} : req'[x] = req[x]
  BY OnItsWayFields DEF Moves, Set, SignsWithWarning, IInv, TypeOK, OnItsWay
<1>2. PICK t \in Tokens : Token!Sign(t, <<p.sess, p.url>>)
  BY DEF SignsWithWarning
<1>3. /\ issued[t] = None /\ issued'[t] = [bound |-> <<p.sess, p.url>>, at |-> now]
      /\ \A x \in Tokens \ {t} : issued'[x] = issued[x]
      /\ now \in Nat
  BY <1>2, SameTokens DEF Token!Sign, IInv, TypeOK, Token!TypeOK
<1>4. /\ p.sess \in Sessions /\ p.url \in Urls
  BY OnItsWayFields DEF Moves, SameOrigin
<1>5. issued'[t] # None
  <2>1. issued'[t] \in [bound: Sessions \X Urls, at: Nat]
    BY <1>3, <1>4
  <2>2. QED
    BY <2>1, NoneIsNoValue
<1>6. Asked' = Asked
  BY <1>1 DEF Asked
<1>7. ASSUME NEW s \in Sessions, NEW u \in Urls
      PROVE  /\ IsFiniteSet(TokensFor(s, u)')
             /\ Cardinality(TokensFor(s, u)') <= Cardinality(Warned(s, u)')
  <2>1. CASE p.sess = s /\ p.url = u
    <3>1. TokensFor(s, u)' = TokensFor(s, u) \cup {t} /\ t \notin TokensFor(s, u)
      BY <1>3, <1>5, <2>1 DEF TokensFor
    <3>2. Warned(s, u)' = Warned(s, u) \cup {r} /\ r \notin Warned(s, u)
      BY <1>1, <2>1, NoneIsNoValue DEF Warned
    <3>3. /\ IsFiniteSet(TokensFor(s, u)) /\ IsFiniteSet(Warned(s, u))
          /\ Cardinality(TokensFor(s, u)) \in Nat /\ Cardinality(Warned(s, u)) \in Nat
          /\ Cardinality(TokensFor(s, u)) <= Cardinality(Warned(s, u))
      BY WarnedFinite
    <3>4. /\ IsFiniteSet(TokensFor(s, u)')
          /\ Cardinality(TokensFor(s, u)') = Cardinality(TokensFor(s, u)) + 1
      BY <3>1, <3>3, FS_AddElement
    <3>5. Cardinality(Warned(s, u)') = Cardinality(Warned(s, u)) + 1
      BY <3>2, <3>3, FS_AddElement
    <3>6. QED
      BY <3>3, <3>4, <3>5
  <2>2. CASE ~(p.sess = s /\ p.url = u)
    <3>1. TokensFor(s, u)' = TokensFor(s, u)
      BY <1>3, <1>5, <2>2 DEF TokensFor
    <3>2. Warned(s, u)' = Warned(s, u)
      BY <1>1, <2>2, NoneIsNoValue DEF Warned
    <3>3. QED
      BY <3>1, <3>2, WarnedFinite
  <2>3. QED
    BY <2>1, <2>2
<1>8. QED
  BY <1>6, <1>7, WarnedFinite DEF OneTokenPerWarning, Asked, IInv

\* Between restarts what is known of a token stays true.
TokensGrow ==
  \A t \in Tokens :
    /\ issued[t] # None => issued'[t] = issued[t]
    /\ uses[t] > 0 => uses'[t] > 0

\* A request that does not move is not affected by those that do.
LEMMA Unmoved ==
  ASSUME IInv, NEW x \in Requests, req'[x] = req[x],
         x \in logged' <=> x \in logged, UNCHANGED <<rules, boot>>, TokensGrow
  PROVE  RequestInv(x)'
<1>1. RequestInv(x)
  BY DEF IInv
<1>2. TokenSpent(req[x])'
  BY <1>1 DEF RequestInv, TokenSpent, TokensGrow
<1>3. QED
  BY <1>1, <1>2 DEF RequestInv, TokenSpent

\* No token is signed for a malicious file.
LEMMA SignedHarmless ==
  ASSUME IInv, NEW p \in Request, p.sess \in Sessions, p.url \in Urls,
         UNCHANGED issued \/ SignsWithWarning(p)
  PROVE  NoTokenForMalice'
<1>1. CASE UNCHANGED issued
  BY <1>1 DEF IInv, NoTokenForMalice
<1>2. CASE SignsWithWarning(p)
  <2>1. PICK t \in Tokens : Token!Sign(t, <<p.sess, p.url>>)
    BY <1>2 DEF SignsWithWarning
  <2>2. /\ issued'[t].bound = <<p.sess, p.url>>
        /\ \A x \in Tokens \ {t} : issued'[x] = issued[x]
    BY <2>1, SameTokens DEF Token!Sign, IInv, TypeOK, Token!TypeOK
  <2>3. FileVerdict[p.url] # "MALICIOUS"
    BY <1>2 DEF SignsWithWarning
  <2>4. QED
    BY <2>2, <2>3 DEF IInv, NoTokenForMalice
<1>3. QED
  BY <1>1, <1>2

\* A move preserves the invariant.
LEMMA MovesKeep ==
  ASSUME IInv, Token!IInv', CacheInv', NEW r \in Requests, NEW p \in Request,
         Moves(r, p)
  PROVE  IInv'
<1>1. /\ req'[r] = p /\ req' \in [Requests -> Request]
      /\ \A x \in Requests \ {r} : req'[x] = req[x]
      /\ logged' \subseteq Requests
      /\ \A x \in Requests \ {r} : x \in logged' <=> x \in logged
      /\ UNCHANGED <<rules, boot>>
  BY DEF Moves, Set, LogTraffic, IInv, TypeOK
<1>2. SameOrigin(p, req[r]) /\ (p.via = "bypass" <=> req[r].via = "bypass")
  BY DEF Moves
<1>3. /\ p.kind \in Kinds /\ p.sess \in Sessions /\ p.url \in Urls
      /\ req[r].answer = None /\ req[r].step # "new" /\ p.step # "new"
  BY <1>2, OnItsWayFields DEF Moves, SameOrigin, OnItsWay
<1>4. TokensGrow
  BY SameTokens
     DEF Moves, SignsWithWarning, Token!Sign, TokensGrow, tokenVars, IInv, TypeOK,
         Token!TypeOK
<1>5. ASSUME NEW x \in Requests PROVE RequestInv(x)'
  <2>1. CASE x = r
    <3>1. TokenSpent(req[r])
      BY DEF IInv, RequestInv
    <3>2. TokenSpent(p)'
      BY <1>1, <1>2, <1>4, <3>1 DEF TokenSpent, SameOrigin, TokensGrow
    <3>3. QED
      BY <1>1, <2>1, <3>2 DEF Moves, RequestInv, TokenSpent
  <2>2. CASE x # r
    BY <1>1, <1>4, <2>2, Unmoved
  <2>3. QED
    BY <2>1, <2>2
<1>6. NoTokenForMalice'
  BY <1>3, SignedHarmless DEF Moves, tokenVars
<1>7. TokensNotShared'
  BY <1>1, <1>2 DEF IInv, TokensNotShared, SameOrigin
<1>8. OneTokenPerWarning'
  <2>1. CASE SignsWithWarning(p)
    BY <2>1, SignedWithWarning
  <2>2. CASE UNCHANGED tokenVars
    <3>1. Asked' = Asked
      BY <1>1, <1>3 DEF Asked
    <3>2. IsFiniteSet(Asked')
      BY <3>1 DEF IInv, OneTokenPerWarning, Asked
    <3>3. \A x \in Requests \ {r} : req[x].answer = "warned" => req[x].step # "new"
      BY NoneIsNoValue DEF IInv, RequestInv, DecidedInOrder
    <3>4. QED
      BY <1>1, <1>3, <2>2, <3>2, <3>3, NothingSigned, NoneIsNoValue DEF tokenVars
  <2>3. QED
    BY <2>1, <2>2 DEF Moves
<1>9. TypeOK'
  <2>1. Bypass!TypeOK'
    BY DEF Bypass!TypeOK, Token!IInv, Token!TypeOK
  <2>2. QED
    BY <1>1, <2>1 DEF IInv, TypeOK, CacheInv
<1>10. QED
  BY <1>5, <1>6, <1>7, <1>8, <1>9 DEF IInv
-----------------------------------------------------------------------------
\* Arrival.

Arriving(k, s, u, t) ==
  [New EXCEPT !.step = "rules", !.kind = k, !.sess = s, !.url = u, !.token = t,
              !.boot = boot, !.held = DomainBlock(rules, s, u)]

Bypassing(q) == [q EXCEPT !.step = "forward", !.via = "bypass", !.decision = "ALLOW"]

\* The record a request arrives with.
LEMMA ArrivingFields ==
  ASSUME IInv, NEW k \in Kinds, NEW s \in Sessions, NEW u \in Urls,
         NEW t \in Tokens \cup {None}
  PROVE  LET q == Arriving(k, s, u, t) IN
         /\ q \in Request /\ q.step = "rules" /\ q.kind = k /\ q.sess = s
         /\ q.url = u /\ q.token = t /\ q.boot = boot
         /\ q.held = DomainBlock(rules, s, u)
         /\ q.via = None /\ q.decision = None /\ q.answer = None
<1>1. boot \in Nat /\ DomainBlock(rules, s, u) \in BOOLEAN
  BY PipelineConstants DEF IInv, TypeOK, DomainBlock
<1>2. QED
  BY <1>1 DEF Arriving, New, Request

\* A request let in by a token goes straight to its destination.
LEMMA BypassingFields ==
  ASSUME NEW q \in Request
  PROVE  /\ Bypassing(q) \in Request /\ SameOrigin(Bypassing(q), q)
         /\ Bypassing(q).step = "forward" /\ Bypassing(q).via = "bypass"
         /\ Bypassing(q).decision = "ALLOW" /\ Bypassing(q).answer = q.answer
BY DEF Bypassing, Request, SameOrigin, Decisions

\* An arrival preserves the invariant if the new record fits it.
LEMMA ArrivalKeeps ==
  ASSUME IInv, Token!IInv', NEW r \in Requests, NEW p \in Request,
         req[r].step = "new", Set(r, p), p.step # "new", p.answer # "warned",
         LogTraffic(r) \/ UNCHANGED logged, p.decision # None <=> r \in logged',
         DecidedInOrder(p), BlockRuleSeen(p, rules), FileSeen(p), TokenSpent(p)',
         UNCHANGED <<now, rules, cache, boot, issued>>, TokensGrow, TokensNotShared'
  PROVE  IInv'
<1>1. /\ req'[r] = p /\ req' \in [Requests -> Request]
      /\ \A x \in Requests \ {r} : req'[x] = req[x]
      /\ logged' \subseteq Requests
      /\ \A x \in Requests \ {r} : x \in logged' <=> x \in logged
  BY DEF Set, LogTraffic, IInv, TypeOK
<1>2. ASSUME NEW x \in Requests PROVE RequestInv(x)'
  <2>1. CASE x = r
    BY <1>1, <2>1 DEF RequestInv
  <2>2. CASE x # r
    BY <1>1, <2>2, Unmoved
  <2>3. QED
    BY <2>1, <2>2
<1>3. NoTokenForMalice' /\ CacheInv'
  BY DEF IInv, NoTokenForMalice, CacheInv
<1>4. OneTokenPerWarning'
  <2>1. Asked' = Asked \cup {r}
    BY <1>1 DEF Asked
  <2>2. IsFiniteSet(Asked')
    BY <2>1, FS_AddElement DEF IInv, OneTokenPerWarning, Asked
  <2>3. \A x \in Requests : req[x].answer = "warned" => req[x].step # "new"
    BY NoneIsNoValue DEF IInv, RequestInv, DecidedInOrder
  <2>4. QED
    BY <1>1, <2>2, <2>3, NothingSigned
<1>5. TypeOK'
  <2>1. Bypass!TypeOK'
    BY DEF Bypass!TypeOK, Token!IInv, Token!TypeOK
  <2>2. QED
    BY <1>1, <2>1 DEF IInv, TypeOK
<1>6. QED
  BY <1>2, <1>3, <1>4, <1>5 DEF IInv

\* The bypass token is the only thing an arriving request can be let in by; an
\* accepted one was not used since the restart.
LEMMA ArriveKeeps ==
  ASSUME IInv, Token!IInv', NEW r \in Requests, NEW k \in Kinds,
         NEW s \in Sessions, NEW u \in Urls, NEW t \in Tokens \cup {None},
         Arrive(r, k, s, u, t)
  PROVE  IInv'
<1> DEFINE q == Arriving(k, s, u, t)
<1>1. /\ q \in Request /\ q.step = "rules" /\ q.kind = k /\ q.sess = s
      /\ q.url = u /\ q.token = t /\ q.boot = boot
      /\ q.held = DomainBlock(rules, s, u)
      /\ q.via = None /\ q.decision = None /\ q.answer = None
  BY ArrivingFields
<1>2. /\ ArriveUninspectable(r, q) \/ ArriveWithToken(r, q) \/ ArriveWithoutToken(r, q)
      /\ req[r].step = "new" /\ UNCHANGED <<now, rules, cache, boot>>
  BY DEF Arrive, Arriving
<1> HIDE DEF q
<1>3. boot \in Nat /\ req[r].decision = None /\ req[r].via = None /\ r \notin logged
  BY <1>2, PipelineConstants DEF IInv, TypeOK, RequestInv, DecidedInOrder
<1>4. ASSUME NEW p \in Request, Set(r, p), SameOrigin(p, q), p.via = None,
             p.decision = None, UNCHANGED <<logged, issued, uses>>,
             \/ p.step = "rules" /\ p.answer = None
             \/ p.step = "answered" /\ p.answer = "error"
      PROVE  IInv'
  <2>1. p.step # "new" /\ p.answer # "warned" /\ (p.decision # None <=> r \in logged')
    BY <1>3, <1>4, NoneIsNoValue
  <2>2. p.kind = k /\ p.sess = s /\ p.url = u /\ p.boot = boot
        /\ p.held = DomainBlock(rules, s, u)
    BY <1>1, <1>4 DEF SameOrigin
  <2>3. DecidedInOrder(p) /\ BlockRuleSeen(p, rules) /\ FileSeen(p)
    BY <1>4, <2>2, NoneIsNoValue DEF DecidedInOrder, BlockRuleSeen, FileSeen
  <2>4. TokenSpent(p)' /\ TokensGrow
    BY <1>2, <1>3, <1>4, <2>2, NoneIsNoValue DEF TokenSpent, TokensGrow
  <2>5. TokensNotShared'
    BY <1>3, <1>4, NoneIsNoValue DEF IInv, TypeOK, TokensNotShared, Set
  <2>6. QED
    BY <1>2, <1>4, <2>1, <2>3, <2>4, <2>5, ArrivalKeeps
<1>5. CASE ArriveUninspectable(r, q)
  <2> DEFINE p == Answered(q, "error")
  <2>1. /\ p \in Request /\ SameOrigin(p, q) /\ p.step = "answered"
        /\ p.answer = "error" /\ p.via = None /\ p.decision = None
    BY <1>1, AnsweredFields
  <2>2. Set(r, p) /\ UNCHANGED <<logged, issued, uses>>
    BY <1>5 DEF ArriveUninspectable
  <2> HIDE DEF p
  <2>3. QED
    BY <1>4, <2>1, <2>2
<1>6. CASE Set(r, q) /\ UNCHANGED <<logged, issued, uses>>
  BY <1>1, <1>4, <1>6 DEF SameOrigin
<1>7. CASE /\ q.token # None /\ Bypass!Accept(q.token, <<q.sess, q.url>>)
           /\ Set(r, Bypassing(q)) /\ LogTraffic(r)
  <2>1. PICK p \in Request :
          /\ p = Bypassing(q) /\ SameOrigin(p, q) /\ p.step = "forward"
          /\ p.via = "bypass" /\ p.decision = "ALLOW" /\ p.answer = None
    BY <1>1, BypassingFields
  <2>2. Set(r, p)
    BY <1>7, <2>1
  <2>3. /\ p.kind = k /\ p.sess = s /\ p.url = u /\ p.boot = boot /\ p.token = t
        /\ p.held = DomainBlock(rules, s, u) /\ t \in Tokens
    BY <1>1, <1>7, <2>1 DEF SameOrigin
  <2>4. /\ issued[t] # None /\ issued[t].bound = <<s, u>> /\ UNCHANGED issued
        /\ uses' = [uses EXCEPT ![t] = @ + 1] /\ uses \in [Tokens -> Nat]
    BY <1>1, <1>7, SameTokens
       DEF Token!Accept, Token!Acceptable, Token!Unexpired, IInv, TypeOK, Token!TypeOK
  <2>5. uses'[t] = uses[t] + 1 /\ uses[t] = 0
    <3>1. uses'[t] <= 1
      BY <2>3 DEF Token!IInv, Token!SingleUse
    <3>2. QED
      BY <2>3, <2>4, <3>1
  <2>6. TokensGrow
    BY <2>4 DEF TokensGrow
  <2>7. TokenSpent(p)'
    BY <1>2, <1>3, <2>3, <2>4, <2>5 DEF TokenSpent
  <2>8. FileVerdict[u] # "MALICIOUS"
    BY <2>3, <2>4 DEF IInv, NoTokenForMalice
  <2>9. DecidedInOrder(p) /\ BlockRuleSeen(p, rules) /\ FileSeen(p)
    <3>1. FileOf(p) # "MALICIOUS"
      BY <2>3, <2>8, NoneIsNoValue DEF FileOf, ScanResults, Verdicts
    <3>2. QED
      BY <2>1, <2>3, <3>1, NoneIsNoValue
         DEF DecidedInOrder, BlockRuleSeen, FileSeen, Decisions
  <2>10. \A x \in Requests \ {r} :
           ~(req[x].via = "bypass" /\ req[x].boot = boot /\ req[x].token = t)
    BY <2>5 DEF IInv, RequestInv, TokenSpent
  <2>11. TokensNotShared'
    BY <2>1, <2>2, <2>3, <2>10 DEF IInv, TypeOK, TokensNotShared, Set
  <2>12. p.step # "new" /\ p.answer # "warned" /\ p.decision # None /\ r \in logged'
    BY <1>7, <2>1, NoneIsNoValue DEF LogTraffic, Decisions
  <2>13. QED
    BY <1>2, <1>7, <2>1, <2>2, <2>4, <2>6, <2>7, <2>9, <2>11, <2>12, ArrivalKeeps
<1>8. QED
  <2>1. CASE ArriveWithToken(r, q)
    <3>1. Bypass!Refuse(q.token, <<q.sess, q.url>>) => UNCHANGED <<issued, uses>>
      BY SameTokens DEF Token!Refuse
    <3>2. QED
      BY <1>6, <1>7, <2>1, <3>1 DEF ArriveWithToken, Bypassing
  <2>2. CASE ArriveWithoutToken(r, q)
    BY <1>6, <2>2 DEF ArriveWithoutToken
  <2>3. QED
    BY <1>2, <1>5, <2>1, <2>2
-----------------------------------------------------------------------------
\* The rest of the system.

\* What a rule change and a restart leave of a request.
SameStory(p, q) ==
  /\ p \in Request
  /\ p.kind = q.kind /\ p.sess = q.sess /\ p.url = q.url /\ p.token = q.token
  /\ p.boot = q.boot /\ p.via = q.via /\ p.decision = q.decision
  /\ p.answer = q.answer /\ p.snap = q.snap
  /\ p.step = "new" <=> q.step = "new"

WithHeld(q, b) == [q EXCEPT !.held = b]

\* A change of "held" is no part of the story.
LEMMA HeldFields ==
  ASSUME NEW q \in Request, NEW b \in BOOLEAN
  PROVE  /\ WithHeld(q, b) \in Request /\ SameStory(WithHeld(q, b), q)
         /\ WithHeld(q, b).step = q.step
         /\ WithHeld(q, b).held = b
BY DEF WithHeld, SameStory, Request

\* Requests whose story stays the same keep tokens and warnings in balance.
LEMMA SameStories ==
  ASSUME IInv, req' \in [Requests -> Request], UNCHANGED issued,
         \A x \in Requests : SameStory(req'[x], req[x])
  PROVE  NoTokenForMalice' /\ TokensNotShared' /\ OneTokenPerWarning'
<1>1. NoTokenForMalice' /\ TokensNotShared'
  BY DEF IInv, NoTokenForMalice, TokensNotShared, SameStory
<1>2. Asked' = Asked
  BY DEF Asked, SameStory
<1>3. IsFiniteSet(Asked')
  BY <1>2 DEF IInv, OneTokenPerWarning, Asked
<1>4. \A x \in Requests : req[x].answer = "warned" => req[x].step # "new"
  BY NoneIsNoValue DEF IInv, RequestInv, DecidedInOrder
<1>5. QED
  BY <1>1, <1>3, <1>4, NothingSigned DEF SameStory

\* Disabling or changing a rule: those it no longer holds are marked.
LEMMA RulesBecomeKeeps ==
  ASSUME IInv, Token!IInv', NEW R \in SUBSET RuleRows, RulesBecome(R)
  PROVE  IInv'
<1>1. UNCHANGED <<now, cache, boot, issued, consumed, uses, logged>> /\ rules' = R
  BY DEF RulesBecome
<1>2. ASSUME NEW x \in Requests, req[x].step \notin {"new", "answered", "lost"}
      PROVE  LET q == req[x]  p == StillHeld(q, R) IN
             /\ req'[x] = p /\ SameStory(p, q) /\ p.step = q.step
             /\ p.held => q.held /\ DomainBlock(R, q.sess, q.url)
  <2>1. req[x] \in Request /\ req'[x] = StillHeld(req[x], R)
    BY <1>2 DEF RulesBecome, IInv, TypeOK
  <2> DEFINE b == req[x].held /\ DomainBlock(R, req[x].sess, req[x].url)
  <2>2. StillHeld(req[x], R) = WithHeld(req[x], b)
    BY DEF StillHeld, WithHeld
  <2>3. b \in BOOLEAN
    BY DEF DomainBlock
  <2>4. b => req[x].held /\ DomainBlock(R, req[x].sess, req[x].url)
    OBVIOUS
  <2> HIDE DEF b
  <2>5. QED
    BY <2>1, <2>2, <2>3, <2>4, HeldFields
<1>3. ASSUME NEW x \in Requests, req[x].step \in {"new", "answered", "lost"}
      PROVE  req'[x] = req[x] /\ SameStory(req'[x], req[x])
  BY <1>3 DEF RulesBecome, IInv, TypeOK, SameStory
<1>4. ASSUME NEW x \in Requests PROVE RequestInv(x)'
  <2>1. RequestInv(x)
    BY DEF IInv
  <2>2. CASE req[x].step \in {"new", "answered", "lost"}
    <3>1. BlockRuleSeen(req[x], R)
      BY <2>1, <2>2 DEF RequestInv, BlockRuleSeen, OnItsWay
    <3>2. QED
      BY <1>1, <1>3, <2>1, <2>2, <3>1 DEF RequestInv, TokenSpent
  <2>3. CASE req[x].step \notin {"new", "answered", "lost"}
    <3>1. PICK p : /\ p = req'[x] /\ SameStory(p, req[x]) /\ p.step = req[x].step
                   /\ p.held => req[x].held /\ DomainBlock(R, req[x].sess, req[x].url)
      BY <1>2, <2>3
    <3>2. DecidedInOrder(p) /\ FileSeen(p)
      BY <2>1, <3>1 DEF RequestInv, DecidedInOrder, FileSeen, SameStory, FileOf
    <3>3. BlockRuleSeen(p, R)
      BY <2>1, <3>1 DEF RequestInv, BlockRuleSeen, SameStory
    <3>4. TokenSpent(p)'
      BY <1>1, <2>1, <3>1 DEF RequestInv, TokenSpent, SameStory
    <3>5. QED
      BY <1>1, <2>1, <3>1, <3>2, <3>3, <3>4 DEF RequestInv, SameStory
  <2>4. QED
    BY <2>2, <2>3
<1>5. \A x \in Requests : SameStory(req'[x], req[x])
  BY <1>2, <1>3
<1>6. req' \in [Requests -> Request]
  BY <1>5 DEF RulesBecome, SameStory
<1>7. NoTokenForMalice' /\ TokensNotShared' /\ OneTokenPerWarning'
  BY <1>1, <1>5, <1>6, SameStories
<1>8. TypeOK' /\ CacheInv'
  <2>1. Bypass!TypeOK'
    BY DEF Bypass!TypeOK, Token!IInv, Token!TypeOK
  <2>2. QED
    BY <1>1, <1>6, <2>1 DEF IInv, TypeOK, CacheInv
<1>9. QED
  BY <1>4, <1>7, <1>8 DEF IInv

\* A rule that is added lets no one go.
LEMMA EnableRuleKeeps ==
  ASSUME IInv, Token!IInv', NEW x \in RuleRows, EnableRule(x)
  PROVE  IInv'
<1>1. /\ rules' = rules \cup {x}
      /\ UNCHANGED <<now, cache, boot, issued, consumed, uses, req, logged>>
  BY DEF EnableRule
<1>2. ASSUME NEW r \in Requests PROVE RequestInv(r)'
  <2>1. RequestInv(r)
    BY DEF IInv
  <2>2. BlockRuleSeen(req[r], rules')
    BY <1>1, <2>1 DEF RequestInv, BlockRuleSeen, DomainBlock
  <2>3. QED
    BY <1>1, <2>1, <2>2 DEF RequestInv, TokenSpent
<1>3. QED
  <2>1. Bypass!TypeOK'
    BY DEF Bypass!TypeOK, Token!IInv, Token!TypeOK
  <2>2. TypeOK' /\ CacheInv'
    BY <1>1, <2>1 DEF IInv, TypeOK, CacheInv
  <2>3. NoTokenForMalice' /\ TokensNotShared' /\ OneTokenPerWarning'
    BY <1>1 DEF IInv, NoTokenForMalice, TokensNotShared, OneTokenPerWarning,
                TokensFor, Warned
  <2>4. QED
    BY <1>2, <2>2, <2>3 DEF IInv

\* The clock.
LEMMA TickKeeps ==
  ASSUME IInv, Token!IInv', UNCHANGED <<rules, cache, boot, issued, consumed, uses,
                                        req, logged>>
  PROVE  IInv'
<1>1. Bypass!TypeOK'
  BY DEF Bypass!TypeOK, Token!IInv, Token!TypeOK
<1>2. TypeOK' /\ CacheInv'
  BY <1>1 DEF IInv, TypeOK, CacheInv
<1>3. ASSUME NEW r \in Requests PROVE RequestInv(r)'
  BY DEF IInv, RequestInv, TokenSpent
<1>4. NoTokenForMalice' /\ TokensNotShared' /\ OneTokenPerWarning'
  BY DEF IInv, NoTokenForMalice, TokensNotShared, OneTokenPerWarning, TokensFor, Warned
<1>5. QED
  BY <1>2, <1>3, <1>4 DEF IInv

\* After a restart no request counts as let in since.
LEMMA RestartKeeps ==
  ASSUME IInv, Token!IInv', Restart
  PROVE  IInv'
<1>1. /\ boot' = boot + 1 /\ boot' \in 0 .. MaxBoots /\ boot \in Nat
      /\ cache' = [u \in Urls |-> None] /\ UNCHANGED <<rules, logged, issued>>
  BY SameTokens, PipelineConstants DEF Restart, Token!Restart, IInv, TypeOK
<1>2. ASSUME NEW x \in Requests
      PROVE  /\ SameStory(req'[x], req[x])
             /\ \/ req'[x] = req[x] /\ req[x].step \in {"new", "answered", "lost"}
                \/ req'[x].step = "lost"
  BY DEF Restart, IInv, TypeOK, SameStory, Request
<1>3. req' \in [Requests -> Request]
  BY <1>2 DEF Restart, SameStory
<1>4. NoTokenForMalice' /\ TokensNotShared' /\ OneTokenPerWarning'
  BY <1>1, <1>2, <1>3, SameStories
<1>5. ASSUME NEW x \in Requests PROVE RequestInv(x)'
  <2>1. RequestInv(x) /\ req[x] \in Request
    BY DEF IInv, TypeOK
  <2>2. PICK p \in Request :
          /\ p = req'[x] /\ SameStory(p, req[x])
          /\ \/ p = req[x] /\ req[x].step \in {"new", "answered", "lost"}
             \/ p.step = "lost"
    BY <1>2, <1>3
  <2>3. DecidedInOrder(p)
    <3>1. CASE p.step = "lost"
      <4>1. req[x].step # "answered" \/ p = req[x]
        BY <1>2, <2>2 DEF Restart, IInv, TypeOK
      <4>2. QED
        BY <2>1, <2>2, <3>1, <4>1 DEF RequestInv, DecidedInOrder, SameStory
    <3>2. CASE p = req[x]
      BY <2>1, <3>2 DEF RequestInv
    <3>3. QED
      BY <2>2, <3>1, <3>2
  <2>4. BlockRuleSeen(p, rules) /\ FileSeen(p)
    <3>1. CASE p.step = "lost"
      <4>1. p.answer = None
        BY <2>3, <3>1 DEF DecidedInOrder
      <4>2. QED
        BY <3>1, <4>1, NoneIsNoValue DEF BlockRuleSeen, FileSeen, OnItsWay
    <3>2. CASE p = req[x]
      BY <2>1, <3>2 DEF RequestInv
    <3>3. QED
      BY <2>2, <3>1, <3>2
  <2>5. TokenSpent(p)'
    <3>1. p.boot \in Nat /\ p.boot <= boot
      BY <2>1, <2>2 DEF RequestInv, TokenSpent, SameStory, Request
    <3>2. p.boot <= boot' /\ p.boot # boot'
      BY <1>1, <3>1
    <3>3. QED
      BY <1>1, <2>1, <2>2, <3>2 DEF RequestInv, TokenSpent, SameStory
  <2>6. QED
    BY <1>1, <2>1, <2>2, <2>3, <2>4, <2>5 DEF RequestInv, SameStory
<1>6. Bypass!TypeOK'
  BY DEF Bypass!TypeOK, Token!IInv, Token!TypeOK
<1>7. TypeOK' /\ CacheInv'
  BY <1>1, <1>3, <1>6 DEF Restart, IInv, TypeOK, CacheInv
<1>8. QED
  BY <1>4, <1>5, <1>7 DEF IInv
-----------------------------------------------------------------------------
\* The pipeline does with its tokens what BypassTokens allows.

\* Every step of the pipeline is a step of BypassTokens or leaves it alone.
LEMMA StepRefines ==
  ASSUME IInv, [Next]_vars
  PROVE  [Token!Next]_(Token!vars)
<1>1. UNCHANGED <<now, issued, consumed, uses>> => UNCHANGED Token!vars
  BY DEF Token!vars
<1>2. ASSUME NEW s \in Sessions, NEW u \in Urls, NEW t \in Tokens, UNCHANGED now,
             \/ Token!Sign(t, <<s, u>>)
             \/ Token!Accept(t, <<s, u>>)
             \/ Token!Refuse(t, <<s, u>>)
      PROVE  Token!Next
  <2>1. <<s, u>> \in Sessions \X Urls
    OBVIOUS
  <2>2. QED
    BY <1>2, <2>1 DEF Token!Next
<1>3. CASE Tick
  BY <1>3 DEF Tick, Token!Next, Token!Tick, Token!tokenVars
<1>4. CASE Restart
  BY <1>4, SameTokens DEF Restart, Token!Next
<1>5. CASE \E x \in RuleRows : EnableRule(x) \/ DisableRule(x)
  BY <1>1, <1>5 DEF EnableRule, DisableRule, RulesBecome
<1>6. CASE \E x, y \in RuleRows : UpdateRule(x, y)
  BY <1>1, <1>6 DEF UpdateRule, RulesBecome
<1>7. ASSUME NEW r \in Requests, Progress(r)
      PROVE  [Token!Next]_(Token!vars)
  <2>1. PICK p \in Request : Moves(r, p)
    BY <1>7, ProgressMoves
  <2>2. p.sess \in Sessions /\ p.url \in Urls /\ UNCHANGED now
    BY <2>1, OnItsWayFields DEF Moves, SameOrigin
  <2>3. CASE UNCHANGED tokenVars
    BY <1>1, <2>2, <2>3 DEF tokenVars
  <2>4. CASE SignsWithWarning(p)
    BY <1>2, <2>2, <2>4 DEF SignsWithWarning
  <2>5. QED
    BY <2>1, <2>3, <2>4 DEF Moves
<1>8. ASSUME NEW r \in Requests, NEW k \in Kinds, NEW s \in Sessions, NEW u \in Urls,
             NEW t \in Tokens \cup {None}, Arrive(r, k, s, u, t)
      PROVE  [Token!Next]_(Token!vars)
  <2> DEFINE q == Arriving(k, s, u, t)
  <2>1. q.sess = s /\ q.url = u /\ q.token = t
    BY ArrivingFields
  <2>2. /\ ArriveUninspectable(r, q) \/ ArriveWithToken(r, q) \/ ArriveWithoutToken(r, q)
        /\ UNCHANGED now
    BY <1>8 DEF Arrive, Arriving
  <2> HIDE DEF q
  <2>3. CASE ArriveUninspectable(r, q) \/ ArriveWithoutToken(r, q)
    BY <1>1, <2>2, <2>3 DEF ArriveUninspectable, ArriveWithoutToken
  <2>4. CASE ArriveWithToken(r, q)
    <3>1. Token!Accept(t, <<s, u>>) \/ Token!Refuse(t, <<s, u>>)
      BY <2>1, <2>4, SameTokens DEF ArriveWithToken
    <3>2. t \in Tokens
      BY <2>1, <2>4 DEF ArriveWithToken
    <3>3. QED
      BY <1>2, <2>2, <3>1, <3>2
  <2>5. QED
    BY <2>2, <2>3, <2>4
<1>9. CASE UNCHANGED vars
  BY <1>1, <1>9 DEF vars
<1>10. QED
  BY <1>3, <1>4, <1>5, <1>6, <1>7, <1>8, <1>9 DEF Next

\* The invariant holds when the process starts for the first time.
LEMMA Initially == Init => IInv
<1> SUFFICES ASSUME Init PROVE IInv
  OBVIOUS
<1>1. Token!IInv
  BY TokenConstants, SameTokens, Token!Initially DEF Init
<1>2. /\ rules = {} /\ cache = [u \in Urls |-> None] /\ boot = 0
      /\ req = [r \in Requests |-> New] /\ logged = {}
      /\ issued = [t \in Tokens |-> None]
  BY SameTokens DEF Init, Token!Init
<1>3. New \in Request
  BY DEF New, Request
<1>4. /\ New.step = "new" /\ New.decision = None /\ New.via = None
      /\ New.answer = None /\ New.held = FALSE /\ New.boot = 0
  BY DEF New
<1>5. TypeOK /\ CacheInv
  BY <1>1, <1>2, <1>3, PipelineConstants
     DEF TypeOK, CacheInv, Bypass!TypeOK, Token!IInv, Token!TypeOK
<1>6. \A r \in Requests : RequestInv(r)
  BY <1>2, <1>4, NoneIsNoValue
     DEF RequestInv, DecidedInOrder, BlockRuleSeen, FileSeen, TokenSpent
<1>7. NoTokenForMalice /\ TokensNotShared
  BY <1>2, <1>4, NoneIsNoValue DEF NoTokenForMalice, TokensNotShared
<1>8. OneTokenPerWarning
  <2>1. {r \in Requests : req[r].step # "new"} = {}
    BY <1>2, <1>4
  <2>2. ASSUME NEW s \in Sessions, NEW u \in Urls
        PROVE  TokensFor(s, u) = {} /\ Warned(s, u) = {}
    BY <1>2, <1>4, NoneIsNoValue DEF TokensFor, Warned
  <2>3. QED
    BY <2>1, <2>2, FS_EmptySet DEF OneTokenPerWarning
<1>9. QED
  BY <1>1, <1>5, <1>6, <1>7, <1>8 DEF IInv

\* Every step preserves the invariant.
LEMMA Invariance == IInv /\ [Next]_vars => IInv'
<1> SUFFICES ASSUME IInv, [Next]_vars PROVE IInv'
  OBVIOUS
<1>1. Token!IInv'
  BY StepRefines, TokenConstants, Token!Invariance DEF IInv
<1>2. CASE Tick
  BY <1>1, <1>2, TickKeeps DEF Tick
<1>3. CASE Restart
  BY <1>1, <1>3, RestartKeeps
<1>4. ASSUME NEW x \in RuleRows, EnableRule(x) \/ DisableRule(x)
      PROVE  IInv'
  <2>1. rules \ {x} \in SUBSET RuleRows
    BY DEF IInv, TypeOK
  <2>2. QED
    BY <1>1, <1>4, <2>1, EnableRuleKeeps, RulesBecomeKeeps DEF DisableRule
<1>5. ASSUME NEW x \in RuleRows, NEW y \in RuleRows, UpdateRule(x, y)
      PROVE  IInv'
  <2>1. (rules \ {x}) \cup {y} \in SUBSET RuleRows
    BY DEF IInv, TypeOK
  <2>2. QED
    BY <1>1, <1>5, <2>1, RulesBecomeKeeps DEF UpdateRule
<1>6. ASSUME NEW r \in Requests, Progress(r)
      PROVE  IInv'
  BY <1>1, <1>6, ProgressMoves, MovesKeep
<1>7. CASE \E r \in Requests, k \in Kinds, s \in Sessions, u \in Urls,
              t \in Tokens \cup {None} : Arrive(r, k, s, u, t)
  BY <1>1, <1>7, ArriveKeeps
<1>8. CASE UNCHANGED vars
  BY <1>1, <1>8, TickKeeps DEF vars
<1>9. QED
  BY <1>2, <1>3, <1>4, <1>5, <1>6, <1>7, <1>8 DEF Next

\* The invariant holds throughout.
LEMMA Inductive == Spec => []IInv
BY Initially, Invariance, PTL DEF Spec
-----------------------------------------------------------------------------
\* The theorems.

\* Requests, rules, cache and tokens keep their types.
THEOREM TypeCorrect == Spec => []TypeOK
BY Inductive, PTL DEF IInv

\* The pipeline implements the bypass tokens: whatever it does between two
\* awaits is one step of BypassTokens, for the bindings (session, URL).
THEOREM ImplementsBypassTokens == Spec => Bypass!Spec
<1>1. Init => Token!Init
  BY SameTokens DEF Init
<1>2. IInv /\ [Next]_vars => [Token!Next]_(Token!vars)
  BY StepRefines
<1>3. Spec => Token!Spec
  BY <1>1, <1>2, Inductive, PTL DEF Spec, Token!Spec
<1>4. Token!Init <=> Bypass!Init
  BY SameTokens
<1>5. [Token!Next]_(Token!vars) => [Bypass!Next]_(Bypass!vars)
  <2>1. Token!Tick => Bypass!Tick
    BY DEF Token!Tick, Bypass!Tick, Token!tokenVars, Bypass!tokenVars
  <2>2. UNCHANGED Token!vars => UNCHANGED Bypass!vars
    BY DEF Token!vars, Bypass!vars
  <2>3. Token!Next => Bypass!Next
    BY <2>1, SameTokens DEF Token!Next, Bypass!Next
  <2>4. QED
    BY <2>2, <2>3
<1>6. QED
  BY <1>3, <1>4, <1>5, PTL DEF Token!Spec, Bypass!Spec

\* So a token of the pipeline lets one request through between two restarts.
THEOREM PipelineTokensAreSingleUse == Spec => []Bypass!SingleUse
<1>1. IInv => Bypass!SingleUse
  BY DEF IInv, Token!IInv, Token!SingleUse, Bypass!SingleUse
<1>2. QED
  BY <1>1, Inductive, PTL

\* Nor does the pipeline keep a used token longer than two lifetimes once another
\* is verified.
THEOREM PipelineForgetsTokensInTime == Spec => Bypass!ForgottenInTime
<1>1. Token!Spec => Token!ForgottenInTime
  BY TokenConstants, Token!TokensAreForgottenInTime
<1>2. Spec => Token!Spec
  <2>1. Init => Token!Init
    BY SameTokens DEF Init
  <2>2. IInv /\ [Next]_vars => [Token!Next]_(Token!vars)
    BY StepRefines
  <2>3. QED
    BY <2>1, <2>2, Inductive, PTL DEF Spec, Token!Spec
<1>3. Token!ForgottenInTime => Bypass!ForgottenInTime
  BY PTL DEF Token!ForgottenInTime, Bypass!ForgottenInTime, Token!vars, Bypass!vars
<1>4. QED
  BY <1>1, <1>2, <1>3, PTL

\* A log row was begun exactly for the requests that were decided.
THEOREM DecidedAreLogged == Spec => []LoggedIffDecided
<1>1. IInv => LoggedIffDecided
  BY DEF IInv, RequestInv, LoggedIffDecided
<1>2. QED
  BY <1>1, Inductive, PTL

\* Only a bypass token passes a domain's BLOCK rule that is enabled throughout.
THEOREM BlockRulesHold == Spec => []BlockRuleHolds
<1>1. IInv => BlockRuleHolds
  BY DEF IInv, RequestInv, BlockRuleSeen, BlockRuleHolds
<1>2. QED
  BY <1>1, Inductive, PTL

\* Only the user's own rule downloads a file the scan calls malicious.
THEOREM MaliciousFilesAreStopped == Spec => []MaliciousFilesStayOut
<1>1. IInv => MaliciousFilesStayOut
  BY DEF IInv, RequestInv, FileSeen, MaliciousFilesStayOut
<1>2. QED
  BY <1>1, Inductive, PTL

\* The requests let in by tokens for a session and a URL between two restarts
\* are no more than the warnings: each has a token of its own, signed with one.
THEOREM WarningsBoundBypasses == Spec => []OneRequestPerWarning
<1>1. IInv => OneRequestPerWarning
  <2> SUFFICES ASSUME IInv, NEW s \in Sessions, NEW u \in Urls,
                      NEW b \in 0 .. MaxBoots
               PROVE  Cardinality({r \in Requests :
                                     /\ req[r].via = "bypass" /\ req[r].boot = b
                                     /\ req[r].sess = s /\ req[r].url = u})
                        <= Cardinality(Warned(s, u))
    BY DEF OneRequestPerWarning, Warned
  <2> DEFINE Let == {r \in Requests : /\ req[r].via = "bypass" /\ req[r].boot = b
                                      /\ req[r].sess = s /\ req[r].url = u}
             token == [r \in Let |-> req[r].token]
  <2>1. token \in Injection(Let, TokensFor(s, u))
    <3>1. \A r \in Let : req[r].token \in TokensFor(s, u)
      BY DEF IInv, RequestInv, TokenSpent, TokensFor
    <3>2. \A r1, r2 \in Let : req[r1].token = req[r2].token => r1 = r2
      BY DEF IInv, TokensNotShared
    <3>3. QED
      BY <3>1, <3>2 DEF Injection, IsInjective
  <2>2. IsFiniteSet(Let) /\ Cardinality(Let) <= Cardinality(TokensFor(s, u))
    <3> HIDE DEF Let, token
    <3>1. IsFiniteSet(TokensFor(s, u))
      BY WarnedFinite
    <3>2. QED
      BY <2>1, <3>1, FS_Injection
  <2>3. Cardinality(Let) \in Nat
    BY <2>2, FS_CardinalityType
  <2>4. QED
    <3> HIDE DEF Let
    <3>1. Cardinality(Let) <= Cardinality(Warned(s, u))
      BY <2>2, <2>3, WarnedFinite
    <3>2. QED
      BY <3>1 DEF Let
<1>2. QED
  BY <1>1, Inductive, PTL

\* No decision rests on an expired verdict or on another request's failed scan.
THEOREM VerdictsStayFresh == Spec => VerdictsAreFresh
<1> DEFINE FreshStep ==
      \A r \in Requests :
        req[r].via # "scan" /\ req'[r].via = "scan"
          => /\ now - req'[r].at < CacheTtl
             /\ req'[r].verdict = "FAILSAFE" => req[r].step = "scan"
<1>1. IInv /\ [Next]_vars => [FreshStep]_vars
  <2> SUFFICES ASSUME IInv, [Next]_vars PROVE [FreshStep]_vars
    OBVIOUS
  <2>1. ASSUME NEW x \in Requests, Progress(x) PROVE FreshStep
    <3>1. PICK p \in Request : Moves(x, p)
      BY <2>1, ProgressMoves
    <3>2. /\ req'[x] = p /\ Fresh(p, req[x])
          /\ \A r \in Requests \ {x} : req'[r] = req[r]
      BY <3>1 DEF Moves, Set, IInv, TypeOK
    <3>3. QED
      BY <3>2 DEF Fresh
  <2>2. ASSUME NEW x \in Requests, NEW k \in Kinds, NEW s \in Sessions,
               NEW u \in Urls, NEW t \in Tokens \cup {None}, Arrive(x, k, s, u, t)
        PROVE  FreshStep
    <3> DEFINE q == Arriving(k, s, u, t)
    <3>1. q \in Request /\ q.via = None
      BY ArrivingFields
    <3>2. ArriveUninspectable(x, q) \/ ArriveWithToken(x, q) \/ ArriveWithoutToken(x, q)
      BY <2>2 DEF Arrive, Arriving
    <3> HIDE DEF q
    <3>3. /\ Answered(q, "error").via # "scan"
          /\ Bypassing(q).via # "scan" /\ q.via # "scan"
      BY <3>1, AnsweredFields, BypassingFields, NoneIsNoValue
    <3>4. Set(x, Answered(q, "error")) \/ Set(x, Bypassing(q)) \/ Set(x, q)
      BY <3>2 DEF ArriveUninspectable, ArriveWithToken, ArriveWithoutToken, Bypassing
    <3>5. req'[x].via # "scan" /\ \A r \in Requests \ {x} : req'[r] = req[r]
      BY <3>3, <3>4 DEF Set, IInv, TypeOK
    <3>6. QED
      BY <3>5
  <2>3. ASSUME NEW R \in SUBSET RuleRows, RulesBecome(R) PROVE FreshStep
    <3>1. ASSUME NEW x \in Requests PROVE req'[x].via = req[x].via
      <4>1. req'[x] = req[x] \/ req'[x] = StillHeld(req[x], R)
        BY <2>3 DEF RulesBecome
      <4>2. StillHeld(req[x], R).via = req[x].via
        BY DEF StillHeld, IInv, TypeOK, Request
      <4>3. QED
        BY <4>1, <4>2
    <3>2. QED
      BY <3>1
  <2>4. CASE Restart
    <3>1. ASSUME NEW x \in Requests PROVE req'[x].via = req[x].via
      BY <2>4 DEF Restart, IInv, TypeOK, Request
    <3>2. QED
      BY <3>1
  <2>5. CASE UNCHANGED req
    BY <2>5
  <2>6. CASE Tick \/ \E x \in RuleRows : EnableRule(x)
    BY <2>5, <2>6 DEF Tick, EnableRule
  <2>7. ASSUME NEW x \in RuleRows, DisableRule(x) PROVE FreshStep
    BY <2>3, <2>7 DEF DisableRule, IInv, TypeOK
  <2>8. ASSUME NEW x \in RuleRows, NEW y \in RuleRows, UpdateRule(x, y)
        PROVE  FreshStep
    <3>1. (rules \ {x}) \cup {y} \in SUBSET RuleRows
      BY DEF IInv, TypeOK
    <3>2. QED
      BY <2>3, <2>8, <3>1 DEF UpdateRule
  <2> HIDE DEF FreshStep
  <2>9. CASE Next
    BY <2>1, <2>2, <2>4, <2>6, <2>7, <2>8, <2>9 DEF Next
  <2>10. QED
    BY <2>9
<1>2. QED
  BY <1>1, Inductive, PTL DEF Spec, VerdictsAreFresh
=============================================================================
