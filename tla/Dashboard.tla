----------------------------- MODULE Dashboard -----------------------------
(***************************************************************************)
(* The dashboard in a browser tab: the session its store shows, the calls  *)
(* it has in flight, the re-authentication dialog, and a page whose store  *)
(* is filled by answers.  A call is sent with the cookie of that moment,   *)
(* served by the gateway and delivered in steps of its own; calls of       *)
(* different kinds overtake each other, and nothing cancels an answer when *)
(* the session changes.                                                    *)
(*                                                                         *)
(* Whose rows a store holds is what is followed, so rows are their owner.  *)
(***************************************************************************)
EXTENDS Integers, FiniteSets

CONSTANTS
  MaxSessions,   \* bound on the sign-ins
  OwnerOf,       \* the user of a session
  MaxCalls,      \* bound on the calls in flight
  None

Sessions == 1 .. MaxSessions
Users    == {OwnerOf[s] : s \in Sessions}

ASSUME DashboardConstants ==
  /\ MaxSessions \in Nat /\ MaxCalls \in Nat
  /\ OwnerOf = [s \in Sessions |-> OwnerOf[s]]
  /\ None \notin Sessions \cup Users

Pages     == {"vault", "rules", "analytics", "behavior", "history"}
AuthCalls == {"me", "login", "logout", "verify"}

\* "history" is the page of the traffic logs or of the security events.  "list"
\* is loadCredentials, loadRules, loadSummary, loadPeriod, getTrafficLogs or
\* getSecurityEvents, "baseline" is loadBaseline; "save" is a create or an
\* update.  A delete moves no row from one user to another.
VaultCalls   == {"status", "unlock", "lock", "list", "save", "reveal"}
RulesCalls   == {"list", "save"}
SummaryCalls == {"list"}
InsightCalls == {"list", "baseline"}
HistoryCalls == {"list"}

Kinds == AuthCalls \cup VaultCalls \cup RulesCalls \cup SummaryCalls \cup InsightCalls
           \cup HistoryCalls

\* The calls behind the ReAuthGuard, and those behind the VaultUnlockGuard.
Guarded  == {"save", "reveal"}
Unlocked == {"list", "save", "reveal"}

\* "expired", "sealed", "reauth" and "invalid" are the 401s of the gateway: no
\* session, VaultUnlockGuard, ReAuthGuard, a wrong password of the vault; "fail"
\* is everything else that is no answer.
Answers == {"pending", "ok", "locked", "fail", "expired", "sealed", "reauth", "invalid"}

VARIABLES
  page,        \* the page the tab visits; fixed, a bound on the behaviours
  created,     \* the number of sessions the gateway has created
  live,        \* those that are neither revoked nor expired
  cookie,      \* the session in the browser's cookie
  call,        \* the call in flight of each kind
  shown,       \* the session of the user in the auth store
  stale,       \* the user's lastAuthAt in the store is older than the timeout
  prompting,   \* the interval of promptReAuthWhenStale is running
  verifying,   \* verifyPasswordLoading
  dialog,      \* the ReauthDialogComponent is open
  store,       \* the store of the page; the view of a history component
  outlived     \* history: has the page's store taken an answer meant for another
               \* sign-in, and not been emptied or listed anew since?

vars == <<page, created, live, cookie, call, shown, stale, prompting, verifying,
          dialog, store, outlived>>

authVars == <<shown, stale, prompting, verifying, dialog>>
pageVars == <<store, outlived>>

Call  == [session: Sessions \cup {None}, answer: Answers]

\* "loaded" is statusLoaded or loaded, elsewhere that there are rows and no error;
\* the behavior page holds a baseline besides, with a loading flag and an error of
\* its own.
Store == [rows: SUBSET Users, loading: BOOLEAN, loaded: BOOLEAN, locked: BOOLEAN,
          opened: BOOLEAN, baseline: SUBSET Users, baselineLoading: BOOLEAN,
          baselineError: BOOLEAN]

TypeOK ==
  /\ page \in Pages
  /\ created \in 0 .. MaxSessions
  /\ live \in SUBSET (1 .. created)
  /\ cookie \in 1 .. created \cup {None}
  /\ call \in [Kinds -> Call \cup {None}]
  /\ shown \in 1 .. created \cup {None}
  /\ {stale, prompting, verifying, dialog, outlived} \subseteq BOOLEAN
  /\ store \in Store

\* initialVaultState, initialRulesState, initialAnalyticsState, initialBehaviorState.
EmptyStore == [rows |-> {}, loading |-> FALSE, loaded |-> FALSE, locked |-> TRUE,
               opened |-> FALSE, baseline |-> {}, baselineLoading |-> FALSE,
               baselineError |-> FALSE]

NoCalls == [k \in Kinds |-> None]

\* The app starts by asking for the profile (appInit).
Fresh(c) == [NoCalls EXCEPT !["me"] = [session |-> c, answer |-> "pending"]]

Init ==
  /\ page \in Pages
  /\ created = 0 /\ live = {} /\ cookie = None
  /\ call = Fresh(None)
  /\ shown = None /\ stale = FALSE
  /\ prompting = FALSE /\ verifying = FALSE /\ dialog = FALSE
  /\ store = EmptyStore /\ outlived = FALSE

-----------------------------------------------------------------------------
\* Sending a call.

InFlight(k) == call[k] # None

\* The bound MaxCalls on what is in flight once the calls K are out; the one call
\* of the dialog does not count.
Room(K) == Cardinality((K \cup {j \in Kinds : InFlight(j)}) \ {"verify"}) <= MaxCalls

\* exhaustMap ignores a call while one is in flight; switchMap forgets the
\* answer to the earlier one.
Exhausts(k) == k \in {"me", "login", "logout"}

New     == [session |-> cookie, answer |-> "pending"]
Sent(k) == [call EXCEPT ![k] = New]

Send(k) ==
  /\ Room({k})
  /\ call' = IF Exhausts(k) /\ InFlight(k) THEN call ELSE Sent(k)

\* authInitialized: the guards let the router go on.
Initialized == ~InFlight("me")

\* The re-authentication dialog covers everything else.
OnScreen == Initialized /\ ~dialog

Gateway == <<page, created, live, cookie>>

Login ==
  /\ OnScreen /\ shown = None /\ ~InFlight("login")
  /\ Send("login")
  /\ UNCHANGED <<Gateway, authVars, pageVars>>

\* logout closes the vault store at once, the other stores when it is over.
Logout ==
  /\ OnScreen /\ shown # None
  /\ Send("logout")
  /\ store' = IF page = "vault" THEN [EmptyStore EXCEPT !.opened = store.opened]
                                ELSE store
  /\ UNCHANGED <<Gateway, authVars, outlived>>

\* The dialog sends one password at a time.
Verify ==
  /\ dialog /\ ~verifying
  /\ Send("verify")
  /\ verifying' = TRUE
  /\ UNCHANGED <<Gateway, shown, stale, prompting, dialog, pageVars>>

\* ngOnInit of the page, or its filters: the first call goes out.  On the behavior
\* page this is a change of the filters, or of the page of the anomalies.
First == IF page = "vault" THEN "status" ELSE "list"

OpenPage ==
  /\ OnScreen /\ shown # None /\ page # "history"
  /\ page = "behavior" => store.opened
  /\ Send(First)
  /\ store' = [store EXCEPT !.opened = TRUE, !.loading = TRUE]
  /\ UNCHANGED <<Gateway, authVars, outlived>>

\* ngOnInit of the behavior page sends two calls, and forgets the errors but not
\* what is held.
OpenBehavior ==
  /\ OnScreen /\ shown # None /\ page = "behavior"
  /\ Room(InsightCalls)
  /\ call' = [k \in Kinds |-> IF k \in InsightCalls THEN New ELSE call[k]]
  /\ store' = [store EXCEPT !.opened = TRUE, !.loading = TRUE,
                            !.baselineLoading = TRUE, !.baselineError = FALSE]
  /\ UNCHANGED <<Gateway, authVars, outlived>>

\* The view of a history component follows its filters, page and refreshes: each
\* change drops the rows and the call before it.
OpenHistory ==
  /\ OnScreen /\ shown # None /\ page = "history"
  /\ Send("list")
  /\ store' = [EmptyStore EXCEPT !.opened = TRUE, !.loading = TRUE]
  /\ UNCHANGED <<Gateway, authVars, outlived>>

\* What the template of the page renders rows from.  The analytics and behavior
\* pages print one thing more, and always: from when to when the numbers held are.
Rendered ==
  /\ shown # None /\ store.opened /\ store.loaded /\ ~store.loading
  /\ page = "vault" => ~store.locked

\* The card of the baseline: an error is printed above what is held.
BaselineRendered ==
  shown # None /\ page = "behavior" /\ store.opened /\ ~store.baselineLoading

\* The buttons of a page, whether or not they are disabled while it saves.
Use(k) ==
  /\ OnScreen /\ shown # None /\ store.opened
  /\ Send(k)
  /\ UNCHANGED <<Gateway, authVars, pageVars>>

UseVault ==
  /\ page = "vault"
  /\ \/ store.locked /\ Use("unlock")
     \/ ~store.locked /\ Use("lock")
     \/ Rendered /\ Use("save")
     \/ Rendered /\ store.rows # {} /\ Use("reveal")

\* The button "Add rule" is there while the list loads, or has failed to.
UseRules == page = "rules" /\ Use("save")

\* The user reloads the page: everything but the cookie is gone.
Reload ==
  /\ call' = Fresh(cookie)
  /\ shown' = None /\ stale' = FALSE
  /\ prompting' = FALSE /\ verifying' = FALSE /\ dialog' = FALSE
  /\ store' = EmptyStore /\ outlived' = FALSE
  /\ UNCHANGED Gateway

-----------------------------------------------------------------------------
\* The gateway.

Answer(k, a) == call' = [call EXCEPT ![k].answer = a]
Waiting(k)   == InFlight(k) /\ call[k].answer = "pending"
Valid(k)     == call[k].session \in live

\* Network, server or database fail, or the call is refused with another status.
ServeFails(k) ==
  /\ Waiting(k) /\ Answer(k, "fail")
  /\ UNCHANGED <<Gateway, authVars, pageVars>>

\* The password is right: a new session, for the cookie in the answer.
ServeLogin ==
  /\ Waiting("login") /\ created < MaxSessions
  /\ created' = created + 1
  /\ live' = live \cup {created'}
  /\ call' = [call EXCEPT !["login"] = [session |-> created', answer |-> "ok"]]
  /\ UNCHANGED <<page, cookie, authVars, pageVars>>

\* The session of the cookie is revoked; the answer may still be lost.
ServeLogout ==
  /\ Waiting("logout")
  /\ live' = live \ {call["logout"].session}
  /\ Answer("logout", "ok") \/ Answer("logout", "fail")
  /\ UNCHANGED <<page, created, cookie, authVars, pageVars>>

\* getProfile or verifyPassword with the right password.
ServeProfile(k) ==
  /\ k \in {"me", "verify"} /\ Waiting(k) /\ Valid(k)
  /\ Answer(k, "ok")
  /\ UNCHANGED <<Gateway, authVars, pageVars>>

\* A call of the page, behind the guards of its controller.
ServePage(k) ==
  /\ k \notin AuthCalls /\ Waiting(k)
  /\ \/ ~Valid(k) /\ Answer(k, "expired")
     \/ Valid(k) /\ page = "vault" /\ k \in Unlocked /\ Answer(k, "sealed")
     \/ Valid(k) /\ Answer(k, "ok")
     \/ Valid(k) /\ k = "status" /\ Answer(k, "locked")
     \/ Valid(k) /\ k \in Guarded /\ Answer(k, "reauth")
     \/ Valid(k) /\ k = "unlock" /\ Answer(k, "invalid")
  /\ UNCHANGED <<Gateway, authVars, pageVars>>

\* A session expires, or is revoked elsewhere.
SessionEnds ==
  \E s \in live :
    /\ live' = live \ {s}
    /\ UNCHANGED <<page, created, cookie, call, authVars, pageVars>>

-----------------------------------------------------------------------------
\* The session of the store.

Arrived(k) == InFlight(k) /\ call[k].answer # "pending"
Settle(k)  == call' = [call EXCEPT ![k] = None]

\* loginSuccess and loadProfileSuccess.
Begin(s) ==
  /\ shown' = s /\ prompting' = TRUE
  /\ UNCHANGED <<verifying, dialog>>

\* The pages whose stores nothing clears.
Keeps == page \in {"analytics", "behavior"}

\* Mutant of Cleared: the rows stay.
ClearedButRows(st) == IF Keeps THEN [st EXCEPT !.opened = FALSE]
                      ELSE [EmptyStore EXCEPT !.rows = st.rows]

\* The router leaves the page: a history component unsubscribes, the effects of
\* the others do not.
Unsubscribed(calls) ==
  IF page = "history" THEN [calls EXCEPT !["list"] = None] ELSE calls

\* logoutSuccess and sessionExpired: the router leaves the page, and the stores
\* of vault and rules start anew; analytics and behavior keep what they hold.
Cleared(st) == IF Keeps THEN [st EXCEPT !.opened = FALSE] ELSE EmptyStore

ProfileArrives ==
  /\ Arrived("me") /\ Settle("me")
  /\ \/ /\ call["me"].answer = "ok"
        /\ Begin(call["me"].session)
        /\ stale' = FALSE
     \/ /\ call["me"].answer = "fail"
        /\ shown' = None
        /\ UNCHANGED <<stale, prompting, verifying, dialog>>
  /\ UNCHANGED <<Gateway, pageVars>>

LoginArrives ==
  /\ Arrived("login") /\ Settle("login")
  /\ \/ /\ call["login"].answer = "ok"
        /\ cookie' = call["login"].session
        /\ Begin(cookie') /\ stale' = FALSE
     \/ call["login"].answer = "fail" /\ UNCHANGED <<cookie, authVars>>
  /\ UNCHANGED <<page, created, live, pageVars>>

\* Even a failed logout signs out; only a successful one removes the cookie.
LogoutArrives ==
  /\ Arrived("logout")
  /\ call' = Unsubscribed([call EXCEPT !["logout"] = None])
  /\ cookie' = IF call["logout"].answer = "ok" THEN None ELSE cookie
  /\ shown' = None /\ prompting' = FALSE
  /\ store' = Cleared(store) /\ outlived' = FALSE
  /\ UNCHANGED <<page, created, live, stale, verifying, dialog>>

\* Mutant of VerifyFails: the button stays disabled.
VerifyFailsLoading == UNCHANGED authVars

VerifyFails ==
  /\ verifying' = FALSE
  /\ UNCHANGED <<shown, stale, prompting, dialog>>

\* verifyPasswordSuccess closes the dialog and starts the interval anew,
\* whoever is signed in by now.
VerifyArrives ==
  /\ Arrived("verify") /\ Settle("verify")
  /\ \/ /\ call["verify"].answer = "ok"
        /\ verifying' = FALSE /\ stale' = FALSE /\ dialog' = FALSE /\ prompting' = TRUE
        /\ UNCHANGED shown
     \/ call["verify"].answer = "fail" /\ VerifyFails
  /\ UNCHANGED <<Gateway, pageVars>>

\* The re-authentication window passes, or had passed when the profile came.
WindowPasses ==
  /\ shown # None /\ stale' = TRUE
  /\ UNCHANGED <<Gateway, call, shown, prompting, verifying, dialog, pageVars>>

\* The interval, every 30 s, or the chip of the shell.
Prompt ==
  /\ prompting /\ shown # None /\ stale /\ ~dialog
  /\ dialog' = TRUE
  /\ UNCHANGED <<Gateway, call, shown, stale, prompting, verifying, pageVars>>

-----------------------------------------------------------------------------
\* The answers to the page.

\* A status that is not locked, or an unlock, is followed by the list.
Follows(k, a) == k \in {"status", "unlock"} /\ a = "ok"

\* The reducers of the success actions; u is the owner of what the answer holds.
VaultSucceeded(k, a, st, u) ==
  CASE k = "status" /\ a = "locked" ->
         [st EXCEPT !.loading = FALSE, !.loaded = TRUE, !.locked = TRUE, !.rows = {}]
    [] k = "status" /\ a = "ok" ->
         [st EXCEPT !.loading = TRUE, !.loaded = TRUE, !.locked = FALSE]
    [] k = "unlock" -> [st EXCEPT !.loading = TRUE, !.locked = FALSE]
    [] k = "lock"   -> [st EXCEPT !.locked = TRUE, !.rows = {}]
    [] k = "list"   -> [st EXCEPT !.loading = FALSE, !.rows = {u}]
    [] k = "save"   -> [st EXCEPT !.rows = @ \cup {u}]
    [] k = "reveal" -> st

RulesSucceeded(k, st, u) ==
  IF k = "list" THEN [st EXCEPT !.loading = FALSE, !.loaded = TRUE, !.rows = {u}]
                ELSE [st EXCEPT !.rows = @ \cup {u}]

SummarySucceeded(st, u) ==
  [st EXCEPT !.loading = FALSE, !.loaded = TRUE, !.rows = {u}]

BehaviorSucceeded(k, st, u) ==
  IF k = "list" THEN SummarySucceeded(st, u)
  ELSE [st EXCEPT !.baselineLoading = FALSE, !.baseline = {u}, !.baselineError = FALSE]

HistorySucceeded(st, u) ==
  [st EXCEPT !.loading = FALSE, !.loaded = TRUE, !.rows = {u}]

Succeeded(k, a, st, u) ==
  CASE page = "vault"     -> VaultSucceeded(k, a, st, u)
    [] page = "rules"     -> RulesSucceeded(k, st, u)
    [] page = "analytics" -> SummarySucceeded(st, u)
    [] page = "behavior"  -> BehaviorSucceeded(k, st, u)
    [] page = "history"   -> HistorySucceeded(st, u)

\* The reducers of the failure actions.
VaultFailed(k, st) ==
  CASE k = "status" -> [st EXCEPT !.loading = FALSE, !.loaded = TRUE]
    [] k = "list"   -> [st EXCEPT !.loading = FALSE]
    [] OTHER        -> st

RulesFailed(k, st) == IF k = "list" THEN [st EXCEPT !.loading = FALSE] ELSE st

\* Mutant of SummaryFailed: a failed summary or period leaves no error.
SummaryFailedQuietly(st) == [st EXCEPT !.loading = FALSE]

\* The error of a summary, or of a period, takes the place of what is held.
SummaryFailed(st) == [st EXCEPT !.loading = FALSE, !.loaded = FALSE]

BehaviorFailed(k, st) ==
  IF k = "list" THEN SummaryFailed(st)
  ELSE [st EXCEPT !.baselineLoading = FALSE, !.baselineError = TRUE]

HistoryFailed(st) == [st EXCEPT !.loading = FALSE]

Failed(k, st) ==
  CASE page = "vault"     -> VaultFailed(k, st)
    [] page = "rules"     -> RulesFailed(k, st)
    [] page = "analytics" -> SummaryFailed(st)
    [] page = "behavior"  -> BehaviorFailed(k, st)
    [] page = "history"   -> HistoryFailed(st)

\* Mutant of Shows: the password is shown without a look at the rows.
ShowsAlways(u) == TRUE

\* showRevealedPasswordDialog finds the credential among the rows.
Shows(u) == u \in store.rows

\* Every query of the gateway is for rows of the session's user.
Queried(s) == OwnerOf[s]

\* The answer is a success, whoever is signed in by now.
PageAnswerArrives(k) ==
  /\ k \notin AuthCalls /\ Arrived(k)
  /\ LET c == call[k]
         u == Queried(c.session) IN
     /\ c.answer \in {"ok", "locked"}
     /\ call' = IF Follows(k, c.answer)
                THEN [call EXCEPT ![k] = None, !["list"] = New]
                ELSE [call EXCEPT ![k] = None]
     /\ store' = Succeeded(k, c.answer, store, u)
     /\ outlived' = IF c.session = shown THEN outlived /\ k # "list" ELSE TRUE
  /\ UNCHANGED <<Gateway, authVars>>

\* Mutant of EndsSession: a wrong password of the vault is an expired session.
EndsSessionAnyway(a) == a \in {"expired", "sealed", "invalid"}

\* What the interceptor takes for the end of the session: every 401 but two.
EndsSession(a) == a \in {"expired", "sealed"}

\* The answer is a failure: the interceptor acts first, then the reducer.
PageCallFails(k) ==
  /\ k \notin AuthCalls /\ Arrived(k)
  /\ call[k].answer \in {"fail", "expired", "sealed", "reauth", "invalid"}
  /\ IF EndsSession(call[k].answer)
     THEN /\ call' = Unsubscribed([call EXCEPT ![k] = None])
          /\ shown' = None /\ prompting' = FALSE /\ verifying' = FALSE
          /\ store' = Failed(k, Cleared(store)) /\ outlived' = FALSE
          /\ UNCHANGED <<stale, dialog>>
     ELSE /\ Settle(k)
          /\ dialog' = (dialog \/ call[k].answer = "reauth")
          /\ store' = Failed(k, store)
          /\ UNCHANGED <<shown, stale, prompting, verifying, outlived>>
  /\ UNCHANGED Gateway

-----------------------------------------------------------------------------
Serve(k) ==
  \/ ServeFails(k) \/ ServeProfile(k) \/ ServePage(k)
  \/ k = "login" /\ ServeLogin
  \/ k = "logout" /\ ServeLogout

Deliver(k) ==
  \/ k = "me" /\ ProfileArrives
  \/ k = "login" /\ LoginArrives
  \/ k = "logout" /\ LogoutArrives
  \/ k = "verify" /\ VerifyArrives
  \/ PageAnswerArrives(k) \/ PageCallFails(k)

Next ==
  \/ Login \/ Logout \/ Verify \/ Reload
  \/ OpenPage \/ OpenBehavior \/ OpenHistory \/ UseVault \/ UseRules
  \/ SessionEnds \/ WindowPasses \/ Prompt
  \/ \E k \in Kinds : Serve(k) \/ Deliver(k)

\* The interval fires, the call of the dialog ends, and the user goes on typing
\* the password until it is the right one.
Fairness ==
  /\ WF_vars(Prompt)
  /\ WF_vars(Verify) /\ WF_vars(Serve("verify")) /\ WF_vars(Deliver("verify"))
  /\ SF_vars(ServeProfile("verify"))

Spec == Init /\ [][Next]_vars /\ Fairness

-----------------------------------------------------------------------------
\* Properties.

Owner == OwnerOf[shown]

\* What the pages of vault and rules render is of the user signed in, from the
\* moment a list of that user has arrived, until an answer arrives that was meant
\* for another sign-in: the effects of the two do not stop at the end of a session
\* (vault.effects.ts:74-86, vault.reducer.ts:175-177, rules.reducer.ts:100).
PageShowsOwn ==
  Rendered /\ page \in {"vault", "rules"} /\ ~outlived => store.rows \subseteq {Owner}

\* The analytics and behavior stores are never cleared and late answers enter
\* them, yet the numbers of a period, and a baseline without an error above it,
\* are those of the user signed in: opening loads anew, which cancels older calls,
\* and an error hides the numbers held.  A history page takes no late answer at
\* all (analytics.reducer.ts:23-43, analytics.component.ts:98-100,
\* behavior.reducer.ts:30-63, traffic.component.ts:142-168).
InsightsAreOwn ==
  /\ Rendered /\ (Keeps \/ page = "history") => store.rows \subseteq {Owner}
  /\ BaselineRendered /\ ~store.baselineError => store.baseline \subseteq {Owner}
  /\ page = "history" => ~outlived

\* A revealed password is of a row in the store: an answer that comes after a
\* logout or to somebody else opens no dialog, unless rows came late as well
\* (vault.effects.ts:146-171).
RevealedIsOwn ==
  LET c == call["reveal"] IN
  /\ ~outlived /\ Arrived("reveal")
  /\ c.answer = "ok" /\ Shows(OwnerOf[c.session])
  => shown # None /\ OwnerOf[c.session] = Owner

\* The dashboard drops a session that is live at the gateway only for a logout,
\* a reload, the 401 of a call that was sent in an earlier session, or the 401 of
\* a locked vault (auth-error.interceptor.ts:19-33).
LiveSessionKept ==
  [][shown # None /\ shown' = None /\ shown \in live =>
       \/ Arrived("logout") /\ ~InFlight("logout")'
       \/ call' = Fresh(cookie)
       \/ \E k \in Kinds :
            /\ Arrived(k) /\ ~InFlight(k)'
            /\ \/ call[k].answer = "expired" /\ call[k].session # shown
               \/ call[k].answer = "sealed" /\ page = "vault"]_vars

\* The behavior page says that it shows the baseline of "your account"
\* (behavior.component.html:4).  It does not: a baseline that fails to load leaves
\* the one held on the page, which may be that of the user before
\* (behavior.reducer.ts:40-44, behavior.component.html:156-161).
BaselineIsOwn == BaselineRendered => store.baseline \subseteq {Owner}

\* A user whose last authentication is too old, or whom the gateway told so, is
\* asked for the password, and the dialog closes once the right one is typed: no
\* failure leaves it unable to send another.  Over the login page nothing but a
\* reload closes it (auth.effects.ts:83-143, auth.reducer.ts:55-72).
ReauthEnds ==
  dialog \/ (shown # None /\ stale) ~> (~dialog /\ ~stale) \/ shown \notin live
=============================================================================
