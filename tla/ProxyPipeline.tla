--------------------------- MODULE ProxyPipeline ---------------------------
(***************************************************************************)
(* What the forward proxy does with a request whose user it has            *)
(* authenticated: inspection, bypass token, the user's firewall rules, the *)
(* threat scan with its cache, the policy decision, the traffic log and    *)
(* the forwarding, for plain HTTP requests and for CONNECT tunnels.        *)
(*                                                                         *)
(* Each request of Requests is made once.  Its record keeps, after the     *)
(* answer, what was decided and why.  "step" is the await it is parked at. *)
(***************************************************************************)
EXTENDS Integers, FiniteSets

CONSTANTS
  Users, Sessions, Urls, Requests,
  Tokens,        \* ids of bypass tokens; bounds the warnings shown
  UserOf,        \* the user of each session
  Inspectable,   \* URLs that pass inspection (scheme, host not private)
  FileVerdict,   \* what simulateFileScan says of each URL, None for no file
  RuleRows,      \* the rules users may enable: [user, url, kind, action]
  Answers,       \* what a scan may return
  FailClosed,    \* THREAT_FAIL_STRATEGY = closed
  CacheTtl,      \* THREAT_CACHE_TTL_MS, in ticks
  Second, Lifetime, MaxTime,   \* see BypassTokens
  MaxBoots,      \* bound on restarts
  None

Kinds     == {"http", "connect"}
Verdicts  == {"MALICIOUS", "SUSPICIOUS", "SAFE", "UNVERIFIED"}
\* FAILSAFE is UNVERIFIED with metadata.failSafe: the scan itself failed.
ScanResults == Verdicts \cup {"FAILSAFE"}
Decisions == {"ALLOW", "WARN", "BLOCK"}

ASSUME PipelineConstants ==
  /\ UserOf \in [Sessions -> Users]
  /\ Inspectable \subseteq Urls
  /\ FileVerdict \in [Urls -> {"MALICIOUS", "SUSPICIOUS", "SAFE", None}]
  /\ RuleRows \subseteq [user: Users, url: Urls, kind: {"DOMAIN", "IP"},
                         action: {"ALLOW", "BLOCK"}]
  /\ Answers \subseteq ScanResults
  /\ FailClosed \in BOOLEAN
  /\ CacheTtl \in Nat \ {0} /\ MaxTime \in Nat /\ MaxBoots \in Nat
  /\ Second \in Nat \ {0} /\ Lifetime \in Nat \ {0}

\* None is none of the values it stands beside.
ASSUME NoneIsNoValue ==
  /\ None \notin Int
  /\ None \notin [bound: Sessions \X Urls, at: Nat]
  /\ None \notin [verdict: Verdicts, at: Nat, until: Nat]
  /\ None \notin Kinds \cup ScanResults \cup Decisions
  /\ None \notin {"bypass", "rule", "scan", "forwarded", "blocked", "warned", "error"}

VARIABLES
  now,
  rules,      \* the enabled rows of firewall_rules
  cache,      \* ThreatScanCacheService.cache
  issued, consumed, uses,   \* BypassTokenService: see BypassTokens
  boot,       \* how often the process was restarted
  req,        \* the requests
  logged      \* the requests whose traffic log row was begun

tokenVars == <<issued, consumed, uses>>
vars == <<now, rules, cache, issued, consumed, uses, boot, req, logged>>

Bypass == INSTANCE BypassTokens WITH Bindings <- Sessions \X Urls

\* "at" is when the verdict used was given; "held" is a history field: a BLOCK
\* rule for the URL's domain was enabled on arrival and ever since.
Request == [step: {"new", "rules", "resolve", "scan", "forward", "answered", "lost"},
            kind: Kinds \cup {None}, sess: Sessions \cup {None},
            url: Urls \cup {None}, token: Tokens \cup {None},
            snap: SUBSET RuleRows, verdict: ScanResults \cup {None},
            at: Nat, via: {"bypass", "rule", "scan", None},
            decision: Decisions \cup {None},
            answer: {"forwarded", "blocked", "warned", "error", None},
            held: BOOLEAN, boot: Nat]

New == [step |-> "new", kind |-> None, sess |-> None, url |-> None,
        token |-> None, snap |-> {}, verdict |-> None, at |-> 0, via |-> None,
        decision |-> None, answer |-> None, held |-> FALSE, boot |-> 0]

TypeOK ==
  /\ Bypass!TypeOK
  /\ rules \subseteq RuleRows
  /\ cache \in [Urls -> [verdict: Verdicts, at: Nat, until: Nat] \cup {None}]
  /\ boot \in 0 .. MaxBoots
  /\ req \in [Requests -> Request]
  /\ logged \subseteq Requests

Init ==
  /\ Bypass!Init
  /\ rules = {}
  /\ cache = [u \in Urls |-> None]
  /\ boot = 0
  /\ req = [r \in Requests |-> New]
  /\ logged = {}

-----------------------------------------------------------------------------
\* Records of requests on their way.

Set(r, q)      == req' = [req EXCEPT ![r] = q]
Answered(q, a) == [q EXCEPT !.step = "answered", !.answer = a]

\* Mutant of LogTraffic: the row is left to a later turn that may never come.
LogTrafficLater(r) == UNCHANGED logged

LogTraffic(r) == logged' = logged \cup {r}

\* Mutant of Decide: a suspicious URL warns before its file is looked at.
DecideThreatFirst(file, v) ==
  IF v = "SUSPICIOUS" THEN "WARN"
  ELSE IF file = "MALICIOUS" \/ v = "MALICIOUS" THEN "BLOCK" ELSE "ALLOW"

\* decideFromFileScan comes before decideFromThreatScan.
Decide(file, v) ==
  IF file = "MALICIOUS" THEN "BLOCK"
  ELSE IF file = "SUSPICIOUS" THEN "WARN"
  ELSE IF v = "MALICIOUS" \/ (v = "FAILSAFE" /\ FailClosed) THEN "BLOCK"
  ELSE IF v = "SUSPICIOUS" THEN "WARN"
  ELSE "ALLOW"

\* A CONNECT has no file to scan.
FileOf(q) == IF q.kind = "http" THEN FileVerdict[q.url] ELSE None

Matches(x, u, resolved) == x.url = u /\ (x.kind = "DOMAIN" \/ resolved)

DomainBlock(R, s, u) ==
  \E x \in R : x.user = UserOf[s] /\ x.url = u /\ x.kind = "DOMAIN"
                                  /\ x.action = "BLOCK"

-----------------------------------------------------------------------------
\* Arrival: inspection and bypass token run before the first await.

ArriveUninspectable(r, q) ==
  /\ q.url \notin Inspectable
  /\ Set(r, Answered(q, "error"))
  /\ UNCHANGED <<logged, issued, consumed, uses>>

\* Mutant of ArriveWithToken: the token is verified but not consumed.
ArriveTokenKept(r, q) ==
  /\ q.url \in Inspectable /\ q.token # None /\ q.kind = "http"
  /\ Bypass!Acceptable(q.token, <<q.sess, q.url>>)
  /\ Set(r, [q EXCEPT !.step = "forward", !.via = "bypass", !.decision = "ALLOW"])
  /\ LogTraffic(r)
  /\ UNCHANGED tokenVars

ArriveWithToken(r, q) ==
  /\ q.url \in Inspectable /\ q.token # None /\ q.kind = "http"
  /\ \/ /\ Bypass!Accept(q.token, <<q.sess, q.url>>)
        /\ Set(r, [q EXCEPT !.step = "forward", !.via = "bypass",
                            !.decision = "ALLOW"])
        /\ LogTraffic(r)
     \/ /\ Bypass!Refuse(q.token, <<q.sess, q.url>>)
        /\ Set(r, q)
        /\ UNCHANGED logged

ArriveWithoutToken(r, q) ==
  /\ q.url \in Inspectable /\ (q.token = None \/ q.kind = "connect")
  /\ Set(r, q)
  /\ UNCHANGED <<logged, issued, consumed, uses>>

Arrive(r, k, s, u, t) ==
  /\ req[r].step = "new"
  /\ k = "connect" => t = None
  /\ t # None => issued[t] # None
  /\ LET q == [New EXCEPT !.step = "rules", !.kind = k, !.sess = s, !.url = u,
                          !.token = t, !.boot = boot,
                          !.held = DomainBlock(rules, s, u)] IN
     ArriveUninspectable(r, q) \/ ArriveWithToken(r, q) \/ ArriveWithoutToken(r, q)
  /\ UNCHANGED <<now, rules, cache, boot>>

-----------------------------------------------------------------------------
\* The policy decision on a scan result v given at time t.

Decided(r, q, v, t) ==
  LET d == Decide(FileOf(q), v)
      p == [q EXCEPT !.verdict = v, !.at = t, !.via = "scan", !.decision = d] IN
  /\ LogTraffic(r)
  /\ \/ d = "ALLOW" /\ Set(r, [p EXCEPT !.step = "forward"])
        /\ UNCHANGED tokenVars
     \/ d = "BLOCK" /\ Set(r, Answered(p, "blocked"))
        /\ UNCHANGED tokenVars
     \/ /\ d = "WARN" /\ q.kind = "connect"
        /\ Set(r, Answered(p, "blocked"))
        /\ UNCHANGED tokenVars
     \/ /\ d = "WARN" /\ q.kind = "http"
        /\ Set(r, Answered(p, "warned"))
        /\ \/ \E t2 \in Tokens : Bypass!Sign(t2, <<q.sess, q.url>>)
           \/ (\A t2 \in Tokens : issued[t2] # None) /\ UNCHANGED tokenVars

\* Mutant of Purged: expired entries are served.
UnpurgedCache == cache

\* ThreatScanCacheService.get purges what has expired.
Purged == [u \in Urls |-> IF cache[u] # None /\ cache[u].until <= now
                          THEN None ELSE cache[u]]

ScanWithCache(r, q) ==
  /\ cache' = Purged
  /\ \/ /\ Purged[q.url] # None
        /\ Decided(r, q, Purged[q.url].verdict, Purged[q.url].at)
     \/ /\ Purged[q.url] = None
        /\ Set(r, [q EXCEPT !.step = "scan"])
        /\ UNCHANGED <<logged, issued, consumed, uses>>

\* Mutant of RuleAction: ALLOW rules win.
RuleActionAllowFirst(hits) ==
  IF \E x \in hits : x.action = "ALLOW" THEN "ALLOW"
  ELSE IF hits # {} THEN "BLOCK" ELSE None

\* The first BLOCK rule that matches, else the first ALLOW rule.
RuleAction(hits) ==
  IF \E x \in hits : x.action = "BLOCK" THEN "BLOCK"
  ELSE IF hits # {} THEN "ALLOW" ELSE None

\* What a matching rule decides: the scan is skipped.
ByRule(q, d) == [q EXCEPT !.via = "rule", !.decision = d]

\* evaluateRules on the rules R it has read, and what follows a match.
Evaluate(r, R, resolved) ==
  LET q == [req[r] EXCEPT !.snap = {}]
      hits == {x \in R : Matches(x, q.url, resolved)} IN
  \/ /\ RuleAction(hits) = "BLOCK"
     /\ Set(r, Answered(ByRule(q, "BLOCK"), "blocked"))
     /\ LogTraffic(r)
     /\ UNCHANGED <<cache, issued, consumed, uses>>
  \/ /\ RuleAction(hits) = "ALLOW"
     /\ Set(r, [ByRule(q, "ALLOW") EXCEPT !.step = "forward"])
     /\ LogTraffic(r)
     /\ UNCHANGED <<cache, issued, consumed, uses>>
  \/ RuleAction(hits) = None /\ ScanWithCache(r, q)

\* firewallRule.findMany resolves.
ReadRules(r) ==
  /\ req[r].step = "rules"
  /\ LET R == {x \in rules : x.user = UserOf[req[r].sess]} IN
     \/ /\ \E x \in R : x.kind = "IP"
        /\ Set(r, [req[r] EXCEPT !.step = "resolve", !.snap = R])
        /\ UNCHANGED <<cache, logged, issued, consumed, uses>>
     \/ /\ \A x \in R : x.kind # "IP"
        /\ Evaluate(r, R, FALSE)
  /\ UNCHANGED <<now, rules, boot>>

\* ... or rejects: the request is answered with the error page.
RulesUnavailable(r) ==
  /\ req[r].step = "rules"
  /\ Set(r, Answered(req[r], "error"))
  /\ UNCHANGED <<now, rules, cache, boot, issued, consumed, uses, logged>>

\* Mutant of ResolveIp: only HTTP requests come with a lookup.
ResolveForHttpOnly(r) ==
  /\ req[r].step = "resolve" /\ req[r].kind = "http"
  /\ \E resolved \in BOOLEAN : Evaluate(r, req[r].snap, resolved)
  /\ UNCHANGED <<now, rules, boot>>

\* The DNS lookup for IP rules: to the rule's address, or elsewhere or not at all.
ResolveIp(r) ==
  /\ req[r].step = "resolve"
  /\ \E resolved \in BOOLEAN : Evaluate(r, req[r].snap, resolved)
  /\ UNCHANGED <<now, rules, boot>>

\* Mutant of Cacheable: failures are remembered too.
CacheableAlways(v) == TRUE

Cacheable(v) == v # "FAILSAFE"

Stored(v) == [verdict |-> v, at |-> now, until |-> now + CacheTtl]

\* The scan answers; failures are not cached.
ScanAnswer(r) ==
  /\ req[r].step = "scan"
  /\ \E v \in Answers :
       /\ cache' = IF Cacheable(v) THEN [cache EXCEPT ![req[r].url] = Stored(v)]
                                   ELSE cache
       /\ Decided(r, req[r], v, now)
  /\ UNCHANGED <<now, rules, boot>>

\* resolveAllowedDestination finds a public address, a private one, or none
\* in time; what is then contacted answers or fails.
Outcomes(address) ==
  CASE address = "public"  -> {"forwarded", "error"}
    [] address = "private" -> {"blocked"}
    [] address = "none"    -> {"error"}

Reach(r) ==
  /\ \E address \in {"public", "private", "none"} :
       \E a \in Outcomes(address) : Set(r, Answered(req[r], a))
  /\ UNCHANGED <<now, rules, cache, boot, issued, consumed, uses, logged>>

\* The destination is resolved again, then contacted.
Forward(r) == req[r].step = "forward" /\ req[r].kind = "http" /\ Reach(r)

\* So is that of an allowed CONNECT; its tunnel is open, or both sockets closed.
OpenTunnel(r) == req[r].step = "forward" /\ req[r].kind = "connect" /\ Reach(r)

Progress(r) == \/ ReadRules(r) \/ RulesUnavailable(r) \/ ResolveIp(r)
               \/ ScanAnswer(r) \/ Forward(r) \/ OpenTunnel(r)

-----------------------------------------------------------------------------
\* The rest of the system.

\* RulesService, seen from here: a rule becomes or stops being enabled.
EnableRule(x) ==
  /\ x \notin rules
  /\ rules' = rules \cup {x}
  /\ UNCHANGED <<now, cache, boot, issued, consumed, uses, req, logged>>

StillHeld(q, R) ==
  [q EXCEPT !.held = @ /\ DomainBlock(R, q.sess, q.url)]

\* What the requests on their way have seen of the rules changes to R.
RulesBecome(R) ==
  /\ rules' = R
  /\ req' = [r \in Requests |-> IF req[r].step \in {"new", "answered", "lost"}
                                THEN req[r] ELSE StillHeld(req[r], R)]
  /\ UNCHANGED <<now, cache, boot, issued, consumed, uses, logged>>

DisableRule(x) == x \in rules /\ RulesBecome(rules \ {x})

\* A rule gets another type, pattern or action at once.
UpdateRule(x, y) ==
  /\ x \in rules /\ y \notin rules /\ y.user = x.user
  /\ RulesBecome((rules \ {x}) \cup {y})

Tick ==
  /\ now < MaxTime
  /\ now' = now + 1
  /\ UNCHANGED <<rules, cache, boot, issued, consumed, uses, req, logged>>

\* Caches, consumed token ids and unfinished work are lost; rules and stored
\* rows are not.
Restart ==
  /\ boot < MaxBoots
  /\ boot' = boot + 1
  /\ cache' = [u \in Urls |-> None]
  /\ Bypass!Restart
  /\ req' = [r \in Requests |->
       IF req[r].step \in {"new", "answered", "lost"} THEN req[r]
       ELSE [req[r] EXCEPT !.step = "lost"]]
  /\ UNCHANGED <<rules, logged>>

Next ==
  \/ Tick
  \/ Restart
  \/ \E x \in RuleRows : EnableRule(x) \/ DisableRule(x)
  \/ \E x, y \in RuleRows : UpdateRule(x, y)
  \/ \E r \in Requests : Progress(r)
  \/ \E r \in Requests, k \in Kinds, s \in Sessions, u \in Urls,
        t \in Tokens \cup {None} : Arrive(r, k, s, u, t)

Spec == Init /\ [][Next]_vars

\* Database, DNS, provider and upstream calls all end by themselves.
FairSpec == Spec /\ \A r \in Requests : WF_vars(Progress(r))
-----------------------------------------------------------------------------
\* Properties.

\* Between two restarts the "proceed anyway" link lets through at most one
\* request for each warning its session was shown for that URL, whatever
\* tokens are replayed, swapped between URLs and sessions, or raced.
OneRequestPerWarning ==
  \A s \in Sessions, u \in Urls, b \in 0 .. MaxBoots :
    Cardinality({r \in Requests : /\ req[r].via = "bypass" /\ req[r].boot = b
                                  /\ req[r].sess = s /\ req[r].url = u})
      <= Cardinality({r \in Requests : /\ req[r].answer = "warned"
                                       /\ req[r].sess = s /\ req[r].url = u})

\* A file the scan calls malicious is downloaded over HTTP only on the user's
\* own ALLOW rule: no verdict on its URL and no bypass token lets it through.
MaliciousFilesStayOut ==
  \A r \in Requests :
    req[r].answer = "forwarded" /\ FileOf(req[r]) = "MALICIOUS" =>
      req[r].via = "rule"

\* While a BLOCK rule for the domain is enabled from before the request arrives
\* until it is answered, nothing but a bypass token (which is looked at before
\* the rules) forwards it: not an ALLOW rule, not a cached verdict.
BlockRuleHolds ==
  \A r \in Requests :
    req[r].answer = "forwarded" /\ req[r].held => req[r].via = "bypass"

\* A row is logged exactly for the requests that were decided, before they are
\* forwarded or answered.  (The row is written by a detached promise: what
\* becomes of it is the concern of SiemService.)
LoggedIffDecided ==
  \A r \in Requests : req[r].decision # None <=> r \in logged

\* No decision rests on a verdict that was given CacheTtl ago or longer, and a
\* failed scan decides only the request whose scan it was: an outage is never
\* answered from the cache after the provider is back.
VerdictsAreFresh ==
  [][\A r \in Requests :
       req[r].via # "scan" /\ req'[r].via = "scan"
         => /\ now - req'[r].at < CacheTtl
            /\ req'[r].verdict = "FAILSAFE" => req[r].step = "scan"]_vars

\* Every request is answered, or lost in a restart.
RequestsAnswered ==
  \A r \in Requests :
    req[r].step # "new" ~> req[r].step \in {"answered", "lost"}
=============================================================================
