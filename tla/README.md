# GuardMe in TLA+

This directory specifies the GuardMe gateway (`apps/gateway-backend`) and its
dashboard (`apps/dashboard-frontend`): TLA+ modules translated from the source, the
TLC instances that check them, and proofs of the central theorems checked by TLAPS.

    tlc -workers 2 -config X.cfg M      model-check an instance
    tlapm M.tla                         check the proofs of a module

`PROJECT.json` lists every run with its module and configuration, maps each
definition to its lines of source, and names the hazard each property is for.

All modules share one view of the program. The backend is one Node.js process:
between two awaits a handler runs alone, at an await any other may run. A unit
of work (a request, a listener, a scan) is a record whose field `step` names the
await it is parked at, and an action is the code from one await to the next.
The database survives a restart; maps held in memory and work in flight do not.
Guards that run as consecutive microtasks are separate steps, so a few more
interleavings are checked than the event loop allows.

The dashboard is one page in one browser tab. Its actions are what the user does, what
the gateway makes of a call, and the arrival of an answer or a socket message at the
effects and reducers, which then run to the end before anything else.

## 1. Inventory

| Component | State it keeps | Operations | Talks to | What makes it correct |
|---|---|---|---|---|
| Accounts and sessions (`auth`, `users`, `sessions`) | `users.lastAuthAt`, `sessions` rows | register, login, logout, me, verify-password; JWT validation with device fingerprint | vault key cache, SIEM | an ended session is never served; strict mode binds a session to its device |
| Vault (`vault`) | `vault_credentials`, derived keys in memory | unlock, lock, list, reveal, create, update, delete behind two guards | sessions, re-authentication window | plaintext reaches the owner only; rows are sealed with their owner's key; a key enters memory on its owner's password only |
| Bypass tokens (`proxy/bypass-token.service`) | consumed token ids, in memory | sign, verify and consume, purge | proxy pipeline, warning page | one request per token; used ids are forgotten |
| Proxy pipeline (`proxy`) | threat cache, traffic rows | inspect, bypass, rules, scan with cache, decide, log, forward | rules, threat, SIEM, DNS, upstream | block rules and malicious files hold; every request is decided, logged and answered |
| Firewall rules (`rules`) | `firewall_rules` | CRUD; evaluate with DNS for IP rules | proxy pipeline | BLOCK wins over ALLOW; a rule in force is applied |
| Threat scanning (`threat`) | none of its own; requests and timers in flight | scan: report, submit, poll under one deadline | VirusTotal | answered in time; does not give up early; bounded requests |
| Behaviour analytics (`ueba`) | `behavior_baselines`, time of the last alert per user, in memory | listener per traffic row; get and refresh of baselines | SIEM events | one alert per cooldown; baselines rest on enough rows of their user |
| SIEM (`siem`) | `traffic_logs`, `security_events` | log and announce; history queries | everyone | failures are swallowed and never block the caller |
| Proxy authentication and rate limit (`proxy/proxy-auth`) | failure window per address, in memory | session cookie, Basic credentials | sessions, users | failures per window stay bounded; nobody is let through without a live session of theirs |
| Status and health (`health`) | cached status, calls being probed | probes of database, VirusTotal, sockets | VirusTotal quota | probes are spaced by the time to live |
| Realtime gateway, notifications (`websocket`, `notifications`) | sockets and rooms | connect, broadcast to a user's room | SIEM events, dashboard | a user's events reach that user only |
| Dashboard stores (`store/*`) | session, vault, rules, analytics, behavior, traffic, events, notifications | effects: requests and their answers, socket messages, the re-authentication interval | HTTP API, socket | what is shown belongs to the session in force |
| Pages, bootstrap, schema | - | presentation, wiring, declarations | - | - |

Communication: HTTP calls between dashboard and gateway; the forward proxy on
a port of its own; in-process events (`traffic.log.created`,
`security.event.created`) from SIEM to analytics, notifications and the realtime gateway;
detached promises for logging; a Socket.IO room per user.

Hard behaviours: checks separated from their use by an await (vault key, cooldown,
status cache, rate limit); snapshots of rules and rows used later; two clocks,
seconds in a JWT and milliseconds in memory; state lost in a restart while signed
tokens stay good; one deadline shared by a sequence of requests and sleeps; answers
of one session that arrive in the next. `PROJECT.json` says which property covers which; section 7 what is left.

## 2. Modules

| Module | Extends or instantiates | Role |
|---|---|---|
| `AccessPromise` | - | abstract: sessions open once, end once; keys only for users who logged in |
| `AccessControl` | implements `AccessPromise` | handlers of the auth and vault controllers |
| `BypassTokens` | - | signing, consuming and purging of tokens |
| `ProxyPipeline` | instantiates `BypassTokens` | a proxied request from inspection to forwarding |
| `UebaAlerts` | - | listeners, cooldown, score, baselines |
| `ThreatScan` | - | report, submission and polling under one deadline |
| `AttemptLimit` | - | abstract: a password is looked at below the limit only; a count goes down only by starting anew |
| `ProxyAuth` | implements `AttemptLimit` | who a proxied request comes from; failures per address |
| `SystemStatus` | - | the cached answer about database and VirusTotal, overlapping probes |
| `RealtimeGateway` | extends `SystemStatus` | rows announced to the room of a user; admission of a socket |
| `RealtimeFeed` | extends `RealtimeGateway` | the dashboard's socket and its three live stores |
| `Dashboard` | - | the session, the calls and the page of a browser tab |
| `MC*` | the module named | sets and symmetry for TLC |
| `*Proofs` | the module named, `TLAPS` | theorems and their lemmas |

### AccessControl

| Model | Code |
|---|---|
| `registered`, `lastAuthAt` | `users` rows and their `lastAuthAt` |
| `session[j]` | the row whose JWT id is `j`; `device` stands for the fingerprint (address and user agent) |
| `cred[c]` | the row; `seal` is the user whose key encrypted it, all the properties need of a ciphertext |
| `unlocked` | the users with an entry in `VaultKeyCacheService` |
| `Login`, `Logout`, `Call` | arrival at a controller; `Call` is any endpoint behind `JwtSessionGuard` |
| `FindActiveByJwtId`, `FingerprintMismatch`, `TouchSession` | `JwtStrategy.validate` and `verifySessionForRequest` |
| `CheckPassword`, `TouchAuth`, `CreateSession`, `LogoutRevoke`, `ClearKey` | `AuthService` |
| `DeriveKey`, `VaultUnlockGuard`, `ReAuthGuard`, `FindOwnedCredential`, `UseKey`, `WriteCredential`, `Reply` | vault service and guards |
| `Fail` | a rejected query or hash: the handler ends, what it wrote stays |
| `Restart` | keys and requests are gone |

A password is the account it belongs to. The token's own expiry never comes before the
row's `expiresAt`, so the row decides. The re-authentication window is kept per
account, as in the code: a password given in one session refreshes it for all.
`lastVerifiedAt` is written and read by nothing in this module.

`AccessPromise` is implemented under the mapping `Status`, the holder of each
session, and `unlocked`: several sessions may expire in one tick (`End(S)`), and a
restart is `Lock(unlocked)`.

### BypassTokens and ProxyPipeline

`consumed[t]` is the entry of `consumedTokenIds` and when it is forgotten, `issued[t]` what
was signed and when. `Unexpired` rounds to whole seconds as the JWT library does; the purge
compares milliseconds. `Second` ticks make a second. Only a verification purges, so an id may stay as long as no
other page is confirmed; `ForgottenInTime` is about the map a verification leaves behind.

`ProxyPipeline` composes it: a `warned` answer signs a token for the session and URL, an
arriving request may present any token ever signed. `Arrive` is everything before the
first await (inspection and token), `ReadRules` the query and, without IP rules, everything
up to the scan or the decision; `ResolveIp` the DNS lookup of IP rules, `ScanAnswer` the
end of a scan, `Forward` the outcome of forwarding (a second lookup may find a private
address) and `OpenTunnel` that of a CONNECT. A rule is `[user, url, kind, action]`; a URL is a model value with a
file verdict. `held` and `at` are history fields for the properties.

`RulesService` is the environment: `EnableRule`, `DisableRule` and `UpdateRule`, which
changes type, pattern or action in one write.

### UebaAlerts

A task is the listener of a stored row or a dashboard call. A baseline is the set of rows it was
computed from; which signals fire is left open among `SignalSets`, and `Score` adds their
weights. `ScoreTraffic` ends with the cooldown check, `RecordAnomaly` is the turn after the
alert's write, where `lastAlertAt` is set: the gap between the two is the code's.

### ThreatScan

A scan is parked at an HTTP request (`report`, `submit`, `poll`) or a sleep, each with the timer
`until`. An answer may come at any moment up to it, or never. `Remaining`,
`GiveUp` and `Pause` are the three computations of the polling loop. The clock does not pass a timer
that is due: delays of the event loop itself are outside the model.

### ProxyAuth

| Model | Code |
|---|---|
| `attempt[r]` | a call of `ProxyAuthService.authenticate`; "token", "password", "latest", "mismatch", "user" are its awaits |
| `failures[a]` | `ProxyRateLimitService.failures`: count and start of the window of an address |
| `session[s]` | the rows, in the order of `createdAt`, because Basic credentials borrow the newest |
| `ArriveWithCookie`, `ArriveWithBasic`, `ArriveWithNothing` | up to the first await; `ArriveWithBasic` includes `isBlocked`, which may delete a window |
| `CheckToken`, `CheckPassword`, `FindLatest`, `HandleMismatch`, `Authorise` | what runs after each await, `recordFailure` and `recordSuccess` included |
| `CreateSession`, `EndSession` | login and logout, as `AccessControl` has them |

The module keeps sessions of its own and not those of `AccessControl`: all it needs from there is that
rows are created once and end once, which `AccessPromise` states and `AccessControl` is shown to implement;
here it is what the environment does. `good` is what an attempt has shown, and `live` records whether
the row was active when it was looked up, whatever the code has looked at.

### SystemStatus, RealtimeGateway, RealtimeFeed

Composed by EXTENDS, from the gateway to the browser: a step of the gateway leaves the
feed alone, and `StartProbe` and `FinishProbe` are part of the gateway's `Admit`, `Welcome`,
`BeginBroadcast` and `EndBroadcast`. Ages take the place of a clock: all that is ever
asked of a time is whether it is at least `Ttl` ago.

| Model | Code |
|---|---|
| `age`, `probing` | `cached` of `SystemStatusService`, callers between its check and its write |
| `row[r]` | a row of `SiemService`: being written, announced, or its write failed; `r` is the order of the timestamps |
| `conn` | the socket at the gateway: the awaits of `WsAuthService.authenticateSocket`, then in its rooms |
| `wire` | messages under way to the tab, in order |
| `socket` | the socket of `SocketRealtimeApi`; "refused" when the server disconnected it, after which it does not reconnect |
| `store[k]` | rows of the traffic, security and notification reducers |
| `moved` | another tab has changed the cookie that a reconnection uses |

`got` and `greeted` are history fields.

### Dashboard

A call is `[session, answer]`: the session of the cookie it was sent with, and what the gateway has
answered. `Serve` is the gateway, guards included, `Deliver` the arrival at interceptor, effect and
reducer. Calls of a kind follow their operator: `exhaustMap` drops the second
(`Exhausts`), `switchMap` forgets the answer to the first. No effect of vault, rules, analytics or
behavior stops when the session ends; only the history pages unsubscribe
(`Unsubscribed`). A row is its owner, which is all `PageShowsOwn` asks of it.

The stores of vault and rules start anew when a session ends; those of analytics and behavior hold what
they held (`Keeps`, `Cleared`). What their pages hide is therefore all there is between one user and the next: a summary or a
period is hidden while it loads and by its error (`Rendered`, `SummaryFailed`), the baseline of the behavior page,
which is a call, a flag and an error of its own (`InsightCalls`, `OpenBehavior`, `BehaviorFailed`), is
hidden while it loads only (`BaselineRendered`). `InsightsAreOwn` is what the pages do keep to, `BaselineIsOwn`
what they do not (section 5). Not in the store's rows: the line with the dates of the period held, which both
pages print whatever loads or fails (`behavior.component.html:9-14`, `analytics.component.html:9-14`); it can be the period
of the user before.

The gateway side is what `AccessControl` shows of it from outside: a call is served for the session it
carries, and may be refused for a sealed vault, a passed window or a wrong password. Answers of
the two are not bound together more tightly than that, so the dashboard is checked against a
gateway that may refuse at any time.

## 3. What the runs check

| Run | Instance | Shows |
|---|---|---|
| `access_races` | 2 users, 2 sessions, 2 devices, 1 credential, 2 concurrent requests, strict | `EndedSessionsStayOut`, `BoundToDevice`, `SessionHasAuthTime`, `CredentialsSealedByOwner`, `PlaintextGoesToOwner`, `VaultOpenedByOwner`, `KeepsPromise` (refinement) |
| `access_lenient` | every endpoint, lenient fingerprints, a clock, fairness | `KeepsPromise`, `RequestsFinish` |
| `bypass_tokens` | 2 tokens, 2 bindings, 2 ticks a second, lifetime 2.5 s | `SingleUse`, `ForgottenInTime` |
| `proxy_bypass` | 3 requests, 2 sessions, 2 tokens, 1 restart | `OneRequestPerWarning`, `MaliciousFilesStayOut` |
| `proxy_flow` | 2 requests, rules of both kinds, cache, fail-closed, fairness | `BlockRuleHolds`, `LoggedIffDecided`, `VerdictsAreFresh`, `RequestsAnswered` |
| `ueba_alerts` | 2 users, 2 rows, 1 call, restart | `CloseAlertsOverlapped`, `SilenceHasAnAlert`, `BaselinesAreGrounded` |
| `ueba_cooldown` | 1 user, 2 rows | `CooldownHolds` **violated** (finding) |
| `threat_scan` | 2 scans, with and without a key, fairness | `AnsweredInTime`, `NeverGivesUpEarly`, `QuotaPerScan`, `ScansAnswered` |
| `proxy_auth` | 1 user, 2 sessions, 2 devices behind one address, 2 attempts at a time, restarts, both modes | `FailuresBounded`, `AuthorisedBySession`, `BlockLasts`, `OnlyOwnersEndSessions`, `KeepsLimit` (refinement) |
| `realtime` | 2 users, 2 rows of every kind, stores of one row, failing network, another tab, fairness | `FeedIsOwn`, `FeedHoldsNewest`, `ProbesSpaced`, `GreetedMissesNothing`, `FeedComesUp` |
| `dashboard` | 2 sign-ins of different users, 5 pages, 2 calls in flight and the dialog's, fairness | `PageShowsOwn`, `InsightsAreOwn`, `RevealedIsOwn`, `LiveSessionKept`, `ReauthEnds` |
| `dashboard_baseline` | the same | `BaselineIsOwn` **violated** (finding) |

Every module with handlers also has one `TypeOK`: it is proved for all of them, and an invariant of
`proxy_flow` besides. Each checked property is paired with a mutant, a definition in
the module next to the one it stands for, under which TLC finds it violated.

### Bounds

- Two requests (three where tokens are replayed) are what the races need: one parked at
  an await, the other changing what it has read. The proofs lift the bound for the
  properties they cover.
- Ids (`Jtis`, `Tokens`, `Creds`) are finite; when they run out a login creates no
  session, a warning signs no token, a create stores nothing. These outcomes are marked
  in the actions and exist only because of the bound.
- Durations are positive, as `parsePositiveNumber` makes them.
- `MaxTime`, `MaxStart`, `MaxDelay`, `MaxBoots` bound clock and restarts. Clocks reach past
  every lifetime that matters in the run: `access_lenient` passes an expiry, `bypass_tokens` reaches
  twice the lifetime, `proxy_flow` passes the cache's time to live, `ueba_alerts` a
  cooldown and a window, `threat_scan` both deadlines.
- `access_races` holds the clock still: two requests race through revocation, restarts and the vault, and
  expiry under a waiting request is the business of `access_lenient`; the proofs have both at once. `lock` is left
  to `access_lenient` too: what it does is the end of a logout.
- In `threat_scan` the interval is larger than the least sleep and the timeout is a
  multiple of the interval, so the last sleep can be cut by the deadline, end at it, or be denied.
- `proxy_auth`: both devices share an address, so attempts meet in one window; the limit of 2
  and a window of one tick let a block begin, be exceeded by an attempt in flight, and end. One user
  is enough for the newest of two sessions to be the wrong one; the proofs cover several.
- `realtime`: one tab, hence one connection at a time; a store of one row overflows at
  the second; two rows are written in an order other than that of their timestamps. Ages are cut off at
  `Ttl`, where they stop to matter.
- `dashboard`: the page a tab visits is fixed in each behaviour, all five being initial
  states, because the stores of two pages do not read each other. Sign-ins
  alternate between two users, so every answer that outlives its sign-in is somebody
  else's. Of the calls of page and session, `MaxCalls` are in flight at a time; the dialog's comes
  on top.
- Symmetry is used in safety runs only, over sets the module never tells apart.
- `CHECK_DEADLOCK FALSE` where every request, row or scan is made once and the clock is bounded:
  the system of such a run does end.

### Fairness

Fairness is assumed of the steps the process itself owes, never of outside answers being good, and of
a user only where a dialog waits for one.

- `AccessControl`: `WF(Progress(r))`. Each step waits for a database query or a hash, which
  settles one way or the other; `Fail` is the other way.
- `ProxyPipeline`: `WF(Progress(r))`. The rule query settles; the DNS lookup is cut off after
  2 s, the scan after its deadline (that is `ScansAnswered`), forwarding after 30 s.
- `ThreatScan`: `WF(Tick)` and `WF(TimerFires(s))`: time passes and timers fire. VirusTotal is under
  no fairness: it may never answer.
- `RealtimeFeed`: weak fairness of the handshake, whose queries settle (a rejected one refuses the
  socket), of `Welcome`, whose probes are cut off, of `Reconnect`, because the client
  retries for ever, and of `Receive`. That the network is stable in the end is a premise of
  `FeedComesUp`, not an assumption.
- `Dashboard`: weak fairness of the interval (`Prompt`), of the dialog's call being served and delivered,
  and of the user sending it; strong fairness of the right password, that is, of a user who keeps typing until
  it is right. No other call need ever be answered.

## 4. What is proved

For every value of the constants allowed by the module's assumptions, from an inductive
invariant `IInv` with `Init => IInv`, `IInv /\ [Next]_vars => IInv'`.

| Theorem | Property |
|---|---|
| `AccessControlProofs!TypeCorrect`, `EndedSessionsNeverServed`, `DeviceBinding`, `SessionsFollowAuthTime`, `SealedByOwner`, `PlaintextConfined`, `KeysOpenedByOwner`, `PromiseKept` | all safety properties of `AccessControl`, and the refinement of `AccessPromise` |
| `BypassTokensProofs!TypeCorrect`, `TokensAreSingleUse`, `GoodTokensAreRemembered`, `TokensAreForgottenInTime` | all of `BypassTokens` |
| `ProxyPipelineProofs!TypeCorrect`, `DecidedAreLogged`, `BlockRulesHold`, `MaliciousFilesAreStopped`, `WarningsBoundBypasses`, `VerdictsStayFresh` | all safety properties of `ProxyPipeline` |
| `ProxyPipelineProofs!ImplementsBypassTokens`, `PipelineTokensAreSingleUse`, `PipelineForgetsTokensInTime` | `Spec => Bypass!Spec`, and what `BypassTokens` promises within the pipeline |
| `UebaAlertsProofs!TypeCorrect`, `OnlyOverlapBreaksCooldown`, `NoSilenceWithoutAlert`, `BaselinesStayGrounded` | all of `UebaAlerts` that holds |
| `ThreatScanProofs!TypeCorrect`, `ScansKeepTheirDeadline`, `ScansUseTheirTime`, `ScansKeepTheirQuota` | all safety properties of `ThreatScan` |
| `ProxyAuthProofs!AuthTypeCorrect`, `AttemptsAuthorised`, `OwnersEndSessions`, `FailuresStayBounded`, `BlocksLast`, `LimitKept` | all of `ProxyAuth`, and the refinement of `AttemptLimit` |
| `RealtimeFeedProofs!StatusTypeCorrect`, `CacheIsYoungest`, `ProbesAreSpaced` | the status cache by itself, as `StatusSpec` |
| `RealtimeFeedProofs!TypeCorrect`, `FeedIsUsersOwn`, `StoresHoldNewest`, `NothingMissed` | all safety properties of `RealtimeFeed` |
| `RealtimeFeedProofs!ImplementsStatus`, `FeedProbesAreSpaced` | `Spec => StatusSpec`: what is proved of the status cache holds in the composition |
| `DashboardProofs!TypeCorrect`, `PagesShowOwn`, `InsightsStayOwn`, `RevealedStaysOwn`, `LiveSessionsAreKept` | all safety properties of `Dashboard` |

The assumptions name what the constants stand for: durations and limits are positive, users,
ids and steps are sets of their own, and `None` is none of the values it takes the place of
(`NoneIsNoValue`, `NoneIsNoRecord`, and the last conjuncts of `GatewayConstants`), as no value in the code
is its own absence. The sets of users, requests, tokens and URLs may
be infinite; only what is counted is assumed finite, the attempts of `ProxyAuth`, as those in flight in a process
are, and the `Logs` of `UebaAlerts`, rows of a table.

Why the invariants need strengthening:

- `AccessControl`: what a request carries must be tied to the tables it was read from.
  `StepFitsOp` says which endpoints reach which await, `TokenIssued` that the token belongs to the
  request's user, `LiveOnArrival` that a request at the lookup whose session is still
  active had a live session on arrival (ended is final), `RowIsOwn` that a row read
  earlier is still the user's although it may be gone. The tables change under a parked request only as
  `Rely` allows; one lemma shows that the invariant of every parked request survives
  that, so each action is proved for its own request alone.
- `BypassTokens`: single use rests on memory. A used token that is still good is
  remembered, because it is forgotten a lifetime after its use, and its expiry,
  rounded down to seconds, is at most a lifetime and less than a second after its signing.
- `ProxyPipeline`: the invariant of `BypassTokensProofs` is part of it, for the bindings of session and URL,
  and `Moves` states once what a step of a request may do, so that each await is
  proved to be a move and each conjunct to survive one. A held request has seen the BLOCK rule
  wherever it is parked, in the table or in the rows it read (`BlockRuleSeen`); a token belongs to the session
  and URL of its request and no two requests share one (`TokenSpent`, `TokensNotShared`), which makes the
  requests let in an injection into the tokens, and tokens are no more than warnings
  (`OneTokenPerWarning`). That finitely many requests were made is part of the invariant.
- `UebaAlerts`: `lastAlertAt` is the time of the latest alert of this process, and a
  listener between check and alert passed its check before the later alerts
  or a cooldown after the earlier ones (`Checked`).
- `ThreatScan`: a timer lies in reach of the deadline, and only a submission may be
  given the one tick more (`TimerInReach`); the timeout of a request ends no
  earlier than the deadline; a poll has cost a gap of time each (`PollsArePaid`).
- `ProxyAuth`: the count of an address says nothing of the attempts that passed the
  check and will count later. `Budget` bounds both together: counted plus pending is at most the limit less
  one plus the number of attempts. A check lets an attempt in only below the limit, a failure moves one from
  pending to counted. `AttemptInv` ties what an attempt holds to the row it was read from.
  Under `AttemptLimit` the window of an address is its count; an entry that `isBlocked`, `pruneExpired` or a
  success deletes is a count that starts anew.
- `RealtimeFeed`: a message on the wire was sent while its reader was in the rooms (`WireFits`), and the
  connection is that of the user shown while no other tab has changed the cookie (`ConnFits`). That inserting and
  trimming keeps the newest rows whatever the order of arrival is `InsertKeepsNewest`, over finite sets, with the
  existence of the newest from the well-foundedness of the naturals.
- `Dashboard`: who is shown holds the cookie, and nobody is shown while the app starts or signs in
  (`SignedIn`), so an answer to either changes hands only when the stores are as `Cleared` left them. The stores that are
  emptied and those that are not need invariants of their own (`ClearedStore`, `KeptStore`, `HistoryStore`): of
  what analytics and behavior hold, only what was loaded since the page was opened is the user's, and of the
  baseline also what was loaded without an error since (`KeptBaseline`). A
  call answered "expired" carries a session that is not live (`CallFits`), and no session becomes live twice.
- `SystemStatus`: the cached answer is never older than the rest of any caller
  (`CacheYoungest`), because a late probe only makes it younger; a caller that probes
  has found it expired.

Only model-checked: liveness under fairness (`RequestsFinish`, `RequestsAnswered`, `ScansAnswered`,
`FeedComesUp`, `ReauthEnds`), which needs ENABLED, out of this prover's reach. Every safety and action property of a
passing run is also a theorem.

One proof changed the model: `Messages` chose among the rooms of a row by guards that overlapped for a row
of nobody, where the value of a CASE is left open; TLC took the first. A row of nobody now sends
nothing, as the early return of the listeners does.

## 5. Findings

`ueba_cooldown`: `.env.example:107` promises a minimum time between alerts of a user. Listeners
that overlap all pass the check. `CloseAlertsOverlapped` is what holds instead.

`dashboard_baseline`: the behavior page is headed "Behavioral baseline and anomaly detection for your account."
(`behavior.component.html:4`). Nothing clears its store, a failed load keeps the baseline
(`behavior.reducer.ts:40-44`), and the page prints it under the error (`behavior.component.html:156-161`): user A looks at the
page and signs out, user B signs in in the same tab, B's baseline fails to load, and B reads A's. `InsightsAreOwn`
is what holds instead: without an error above it the baseline is B's.

Smaller divergences met on the way, with no run of their own:

- The table "My rules" (`rules.component.html:57`) can list another user's. The answer to a list or a save of
  the session before enters the store whenever it comes (`rules.effects.ts:13-47`), and stays there if the list of
  the next user fails. `PageShowsOwn` is what holds, until such an answer comes.
- "Your session has expired. Please sign in again." (`auth-error.util.ts:39`) is also told to users whose
  session is live: the interceptor takes every 401 but two for the end of the session
  (`auth-error.interceptor.ts:19-33`), that of a vault locked elsewhere (`vault-unlock.guard.ts:27`) and that of a call of an
  earlier session among them. `vault-error.util.ts:15` has a text for the former that nobody gets to read.
  `LiveSessionKept` says that these are the only two cases.
- The design says vault keys are "re-derived after authentication"
  (`Resources/project-specification.txt:137`). The cache has no expiry (`vault-key-cache.service.ts:11`): after
  a session expires and its user logs in again, the vault is open with the earlier session's key.
- The rules page lists "Threat verdict is MALICIOUS" as BLOCK (`policy.config.ts:29`). `decide` looks at the
  file first (`policy.service.ts:15`), so a URL that ends in an archive name is only warned about,
  whatever its verdict.
- A failed logout signs out all the same (`auth.effects.ts:77`), but the cookie stays, and
  so may the session: a reload of the page is signed in again (`LogoutArrives`, `Reload`).
- The re-authentication dialog stays open over the login page when its session ends; only a reload closes
  it, since the effect that opened it is not told (`ReauthEnds`).
- `Documentation/api-spec.md:89` says every proxied request is logged; a request that
  fails inspection, or whose rule query fails, is answered without a row. `LoggedIffDecided` states what holds.
- `Resources/project-specification.txt:115` has the proxy continue "in limited logging mode" when
  the database is unavailable; a request whose rule query fails is answered with an error page.
- `Documentation/security-events-testing.md:374` expects `new_host` and `volume_spike` to
  reach a score of 60; their weights add up to 55 (`Score`).

## 6. Plan

Done, in this order: `AccessControl` with `AccessPromise`; `BypassTokens`; `ProxyPipeline`; `UebaAlerts`;
`ThreatScan`; `ProxyAuth` with `AttemptLimit`; `SystemStatus`, `RealtimeGateway` and `RealtimeFeed`; `Dashboard`; and the proofs
of section 4.

Next: what an update of a rule may do between reading and writing its row.

## 7. Not modelled

- Cryptography: Argon2, AES-GCM, JWT signatures. A password or a key is its owner; a
  signed token cannot be forged, but any token ever signed may be presented.
- The statistics of baselines, and the thresholds of each signal.
- Sockets, streams and headers of forwarded traffic, rendering of pages, DNS itself.
- Validation of DTOs, paging of the history and the aggregates of the analytics: they only read. Two
  queries of one page may disagree about rows stored in between.
- What becomes of a detached log write of the proxy: `RealtimeGateway` shows rows that are lost.
- The stale socket: a connection outlives the session it was authenticated with. `RealtimeGateway` has it (only
  the dashboard or the network ends a connection), but nothing in the code says it should not.
- Read and dismissed marks of notifications, charts, filters and forms of the dashboard; a
  delete in vault or rules, which moves no row from one user to another.
- Splicing of the two sockets of a tunnel once it is open.
- Database schema, migrations and container files: the tables appear as variables.
