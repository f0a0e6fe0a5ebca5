-------------------------- MODULE DashboardProofs --------------------------
(***************************************************************************)
(* The dashboard for any number of sign-ins, of calls in flight and of     *)
(* users: whose rows and whose numbers its pages show, to whom a password  *)
(* is revealed, and for what a live session is dropped.                    *)
(***************************************************************************)
EXTENDS Dashboard, TLAPS

-----------------------------------------------------------------------------
\* The inductive invariant.

\* The calls a page makes.
CallsOf(p) == CASE p = "vault"     -> VaultCalls
                [] p = "rules"     -> RulesCalls
                [] p = "analytics" -> SummaryCalls
                [] p = "behavior"  -> InsightCalls
                [] p = "history"   -> HistoryCalls

\* What is known of the call c of kind k: it was sent with a session that exists
\* or with none; only a session is answered with rows, an expired one stays
\* expired, and only the vault is ever locked.
CallFits(k, c) ==
  /\ c.session \in 1 .. created \cup {None}
  /\ c.answer \in {"ok", "locked"} /\ k # "logout" => c.session \in 1 .. created
  /\ c.answer = "expired" => c.session \notin live
  /\ c.answer = "sealed" => page = "vault"
  /\ k \in AuthCalls \cup CallsOf(page)

CallsFit == \A k \in Kinds : InFlight(k) => CallFits(k, call[k])

\* Who is shown holds the cookie, and nobody is shown while the app starts or
\* signs in.
SignedIn ==
  /\ shown # None => cookie = shown
  /\ InFlight("login") => shown = None
  /\ InFlight("me") => /\ shown = None /\ call["me"].session = cookie
                       /\ ~InFlight("login") /\ ~InFlight("logout")

\* The rows a page may hold: of nobody unless somebody is shown.
OwnRows == {u \in Users : shown # None /\ u = Owner}

\* The call k in flight is one of the user shown.
LoadIsOwn(k) == InFlight(k) => shown # None /\ call[k].session = shown

\* Vault, rules and history are emptied at the end of a session.
ClearedStore == ~Keeps /\ ~outlived => store.rows \subseteq OwnRows

\* Analytics and behavior are not: what was loaded since the page was opened is
\* of the user shown, and the page is never open for nobody.
KeptStore ==
  Keeps /\ store.opened =>
    /\ shown # None /\ LoadIsOwn("list")
    /\ store.loaded /\ ~store.loading => store.rows \subseteq OwnRows

\* Nor is the baseline, which is of the user shown once it has loaded without an
\* error.
KeptBaseline ==
  page = "behavior" /\ store.opened =>
    /\ LoadIsOwn("baseline")
    /\ ~store.baselineLoading /\ ~store.baselineError => store.baseline \subseteq OwnRows

\* No answer reaches a history page after its session.
HistoryStore == page = "history" => ~outlived /\ LoadIsOwn("list")

StoresFit == ClearedStore /\ KeptStore /\ KeptBaseline /\ HistoryStore

IInv == TypeOK /\ CallsFit /\ SignedIn /\ StoresFit

-----------------------------------------------------------------------------
\* The operators the actions are built from.

\* A Boolean that is chosen is one.
LEMMA BooleanOr == ASSUME NEW b, NEW c \in BOOLEAN PROVE (b \/ c) \in BOOLEAN
OBVIOUS

\* The fields of an empty store.
LEMMA EmptyStoreLaws ==
  /\ EmptyStore \in Store
  /\ EmptyStore.rows = {} /\ EmptyStore.opened = FALSE
BY DEF EmptyStore, Store

\* What is left of a store at the end of a session.
LEMMA ClearedLaws ==
  ASSUME NEW st \in Store
  PROVE  /\ Cleared(st) \in Store
         /\ Cleared(st).opened = FALSE
         /\ ~Keeps => Cleared(st).rows = {}
BY EmptyStoreLaws DEF Cleared, Store

\* A failure moves no rows and opens nothing.  On the analytics and behavior pages
\* it hides the numbers held; that of a baseline hides nothing, but is seen.
LEMMA FailedLaws ==
  ASSUME page \in Pages, NEW st \in Store, NEW k \in CallsOf(page)
  PROVE  /\ Failed(k, st) \in Store
         /\ Failed(k, st).rows = st.rows
         /\ Failed(k, st).opened = st.opened
         /\ Keeps => \/ Failed(k, st).loaded = FALSE
                     \/ /\ Failed(k, st).loaded = st.loaded
                        /\ Failed(k, st).loading = st.loading
         /\ page = "behavior" =>
              \/ Failed(k, st).baselineError = TRUE
              \/ /\ Failed(k, st).baselineError = st.baselineError
                 /\ Failed(k, st).baselineLoading = st.baselineLoading
                 /\ Failed(k, st).baseline = st.baseline
<1>1. CASE page = "vault"
  <2>1. VaultFailed(k, st) \in Store /\ VaultFailed(k, st).rows = st.rows
        /\ VaultFailed(k, st).opened = st.opened
    BY DEF VaultFailed, Store
  <2> QED
    BY <1>1, <2>1 DEF Failed, Keeps
<1>2. CASE page = "rules"
  <2>1. RulesFailed(k, st) \in Store /\ RulesFailed(k, st).rows = st.rows
        /\ RulesFailed(k, st).opened = st.opened
    BY DEF RulesFailed, Store
  <2> QED
    BY <1>2, <2>1 DEF Failed, Keeps
<1>3. /\ SummaryFailed(st) \in Store /\ SummaryFailed(st).rows = st.rows
      /\ SummaryFailed(st).opened = st.opened /\ SummaryFailed(st).loaded = FALSE
      /\ SummaryFailed(st).baselineError = st.baselineError
      /\ SummaryFailed(st).baselineLoading = st.baselineLoading
      /\ SummaryFailed(st).baseline = st.baseline
  BY DEF SummaryFailed, Store
<1>4. CASE page = "analytics"
  BY <1>3, <1>4 DEF Failed
<1>5. CASE page = "behavior"
  <2>1. CASE k = "list"
    BY <1>3, <1>5, <2>1 DEF Failed, BehaviorFailed
  <2>2. CASE k # "list"
    <3>1. /\ BehaviorFailed(k, st) \in Store /\ BehaviorFailed(k, st).rows = st.rows
          /\ BehaviorFailed(k, st).opened = st.opened
          /\ BehaviorFailed(k, st).loaded = st.loaded
          /\ BehaviorFailed(k, st).loading = st.loading
          /\ BehaviorFailed(k, st).baselineError = TRUE
      BY <2>2 DEF BehaviorFailed, Store
    <3> QED
      BY <1>5, <3>1 DEF Failed
  <2> QED
    BY <2>1, <2>2
<1>6. CASE page = "history"
  <2>1. HistoryFailed(st) \in Store /\ HistoryFailed(st).rows = st.rows
        /\ HistoryFailed(st).opened = st.opened
    BY DEF HistoryFailed, Store
  <2> QED
    BY <1>6, <2>1 DEF Failed, Keeps
<1> QED
  BY <1>1, <1>2, <1>4, <1>5, <1>6 DEF Pages

\* A success brings rows of the owner of the answer and of nobody else, and opens
\* nothing.
LEMMA SucceededLaws ==
  ASSUME page \in Pages, NEW st \in Store, NEW u \in Users,
         NEW k \in CallsOf(page), NEW a \in {"ok", "locked"}
  PROVE  /\ Succeeded(k, a, st, u) \in Store
         /\ Succeeded(k, a, st, u).rows \subseteq st.rows \cup {u}
         /\ Succeeded(k, a, st, u).opened = st.opened
         /\ k = "list" => Succeeded(k, a, st, u).rows = {u}
         /\ k # "list" => /\ Succeeded(k, a, st, u).loaded = st.loaded \/ ~Keeps
                          /\ Succeeded(k, a, st, u).loading = st.loading \/ ~Keeps
                          /\ Succeeded(k, a, st, u).rows = st.rows \/ ~Keeps
         /\ page = "behavior" =>
              \/ k = "baseline" /\ Succeeded(k, a, st, u).baseline = {u}
              \/ /\ Succeeded(k, a, st, u).baselineError = st.baselineError
                 /\ Succeeded(k, a, st, u).baselineLoading = st.baselineLoading
                 /\ Succeeded(k, a, st, u).baseline = st.baseline
<1>1. CASE page = "vault"
  <2>1. k \in VaultCalls
    BY <1>1 DEF CallsOf
  <2>2. /\ VaultSucceeded(k, a, st, u) \in Store
        /\ VaultSucceeded(k, a, st, u).rows \subseteq st.rows \cup {u}
        /\ VaultSucceeded(k, a, st, u).opened = st.opened
        /\ k = "list" => VaultSucceeded(k, a, st, u).rows = {u}
    <3>1. CASE k = "status"
      BY <3>1 DEF VaultSucceeded, Store
    <3>2. CASE k = "unlock"
      BY <3>2 DEF VaultSucceeded, Store
    <3>3. CASE k = "lock"
      BY <3>3 DEF VaultSucceeded, Store
    <3>4. CASE k = "list"
      BY <3>4 DEF VaultSucceeded, Store
    <3>5. CASE k = "save"
      BY <3>5 DEF VaultSucceeded, Store
    <3>6. CASE k = "reveal"
      BY <3>6 DEF VaultSucceeded
    <3> QED
      BY <2>1, <3>1, <3>2, <3>3, <3>4, <3>5, <3>6 DEF VaultCalls
  <2> QED
    BY <1>1, <2>2 DEF Succeeded, Keeps
<1>2. CASE page = "rules"
  <2>1. /\ RulesSucceeded(k, st, u) \in Store
        /\ RulesSucceeded(k, st, u).rows \subseteq st.rows \cup {u}
        /\ RulesSucceeded(k, st, u).opened = st.opened
        /\ k = "list" => RulesSucceeded(k, st, u).rows = {u}
    BY DEF RulesSucceeded, Store
  <2> QED
    BY <1>2, <2>1 DEF Succeeded, Keeps
<1>3. /\ SummarySucceeded(st, u) \in Store
      /\ SummarySucceeded(st, u).rows = {u}
      /\ SummarySucceeded(st, u).opened = st.opened
      /\ SummarySucceeded(st, u).baselineError = st.baselineError
      /\ SummarySucceeded(st, u).baselineLoading = st.baselineLoading
      /\ SummarySucceeded(st, u).baseline = st.baseline
  BY DEF SummarySucceeded, Store
<1>4. CASE page = "analytics"
  <2>1. k = "list"
    BY <1>4 DEF CallsOf, SummaryCalls
  <2> QED
    BY <1>3, <1>4, <2>1 DEF Succeeded
<1>5. CASE page = "behavior"
  <2>1. CASE k = "list"
    BY <1>3, <1>5, <2>1 DEF Succeeded, BehaviorSucceeded
  <2>2. CASE k = "baseline"
    <3>1. /\ BehaviorSucceeded(k, st, u) \in Store
          /\ BehaviorSucceeded(k, st, u).rows = st.rows
          /\ BehaviorSucceeded(k, st, u).opened = st.opened
          /\ BehaviorSucceeded(k, st, u).loaded = st.loaded
          /\ BehaviorSucceeded(k, st, u).loading = st.loading
          /\ BehaviorSucceeded(k, st, u).baseline = {u}
      BY <2>2 DEF BehaviorSucceeded, Store
    <3> QED
      BY <1>5, <2>2, <3>1 DEF Succeeded
  <2> QED
    BY <1>5, <2>1, <2>2 DEF CallsOf, InsightCalls
<1>6. CASE page = "history"
  <2>1. /\ HistorySucceeded(st, u) \in Store
        /\ HistorySucceeded(st, u).rows = {u}
        /\ HistorySucceeded(st, u).opened = st.opened
    BY DEF HistorySucceeded, Store
  <2>2. k = "list"
    BY <1>6 DEF CallsOf, HistoryCalls
  <2> QED
    BY <1>6, <2>1, <2>2 DEF Succeeded
<1> QED
  BY <1>1, <1>2, <1>4, <1>5, <1>6 DEF Pages

-----------------------------------------------------------------------------
\* The calls in flight.

CallsTyped == call \in [Kinds -> Call \cup {None}]

\* The cookie, and who is shown, are sessions that exist.
LEMMA TypesOfIt ==
  ASSUME TypeOK
  PROVE  /\ created \in Nat /\ created \in 0 .. MaxSessions /\ MaxSessions \in Nat
         /\ 1 .. created \subseteq Sessions
         /\ cookie \in Sessions \cup {None} /\ shown \in Sessions \cup {None}
         /\ live \subseteq Sessions
         /\ None \notin Sessions /\ None \notin 1 .. created
         /\ CallsTyped /\ store \in Store /\ page \in Pages
<1>1. created \in Nat /\ created \in 0 .. MaxSessions /\ MaxSessions \in Nat
  BY DashboardConstants DEF TypeOK
<1>2. 1 .. created \subseteq Sessions
  BY <1>1 DEF Sessions
<1> QED
  BY <1>1, <1>2, DashboardConstants DEF TypeOK, CallsTyped

\* What is known of a call stays known while sessions end and new ones begin.
LEMMA FitsStill ==
  ASSUME TypeOK, page' = page, created' \in created .. MaxSessions,
         live' \subseteq live \cup (created + 1 .. created'),
         NEW k, NEW c, CallFits(k, c)
  PROVE  CallFits(k, c)'
<1>1. created \in Nat /\ MaxSessions \in Nat /\ created' \in Nat /\ created <= created'
  BY TypesOfIt
<1>2. 1 .. created \subseteq 1 .. created'
  BY <1>1
<1>3. c.session \notin created + 1 .. created'
  <2>1. c.session \in 1 .. created \cup {None}
    BY DEF CallFits
  <2>2. CASE c.session \in 1 .. created
    BY <1>1, <2>2
  <2>3. CASE c.session = None
    <3>1. created + 1 .. created' \subseteq Sessions
      BY <1>1 DEF Sessions
    <3> QED
      BY <2>3, <3>1, TypesOfIt
  <2> QED
    BY <2>1, <2>2, <2>3
<1> QED
  BY <1>2, <1>3 DEF CallFits

\* Sending a call replaces the one of its kind, or is ignored.
LEMMA SendLaws ==
  ASSUME TypeOK, CallsFit, NEW k \in Kinds, k \in AuthCalls \cup CallsOf(page), Send(k),
         UNCHANGED <<page, created, live>>
  PROVE  /\ CallsTyped' /\ CallsFit'
         /\ \A j \in Kinds \ {k} : call'[j] = call[j]
         /\ \/ call'[k] = call[k] /\ Exhausts(k) /\ InFlight(k)
            \/ call'[k].session = cookie
<1>1. CASE call' = call
  <2>1. CallsTyped' /\ CallsFit'
    BY <1>1, TypesOfIt DEF CallsTyped, CallsFit, InFlight, CallFits
  <2>2. \A j \in Kinds : call'[j] = call[j]
    BY <1>1
  <2>3. (Exhausts(k) /\ InFlight(k)) \/ call'[k].session = cookie
    <3>1. CASE Exhausts(k) /\ InFlight(k)
      BY <3>1
    <3>2. CASE ~(Exhausts(k) /\ InFlight(k))
      BY <3>2, TypesOfIt DEF Send, Sent, New, CallsTyped
    <3> QED
      BY <3>1, <3>2
  <2> QED
    BY <2>1, <2>2, <2>3
<1>2. CASE call' = Sent(k)
  <2> PICK c : c = [session |-> cookie, answer |-> "pending"]
    OBVIOUS
  <2>1. c \in Call /\ c.session = cookie /\ c.answer = "pending"
    BY TypesOfIt DEF Call, Answers
  <2>2. CallsTyped' /\ call'[k] = c /\ \A j \in Kinds \ {k} : call'[j] = call[j]
    BY <1>2, <2>1, TypesOfIt DEF Sent, New, CallsTyped
  <2>3. CallFits(k, c)'
    BY <2>1 DEF CallFits, TypeOK
  <2>4. ASSUME NEW j \in Kinds, InFlight(j)'
        PROVE  CallFits(j, call[j])'
    <3>1. CASE j = k
      BY <3>1, <2>2, <2>3
    <3>2. CASE j # k
      BY <2>2, <2>4, <3>2 DEF CallsFit, InFlight, CallFits
    <3> QED
      BY <3>1, <3>2
  <2>5. CallsFit'
    BY <2>4 DEF CallsFit
  <2> QED
    BY <2>1, <2>2, <2>5
<1> QED
  BY <1>1, <1>2 DEF Send

\* An answer changes the answer of its call and nothing else.
LEMMA AnswerLaws ==
  ASSUME TypeOK, NEW k \in Kinds, InFlight(k), NEW a \in Answers, Answer(k, a)
  PROVE  /\ CallsTyped'
         /\ \A j \in Kinds \ {k} : call'[j] = call[j]
         /\ call'[k].session = call[k].session /\ call'[k].answer = a
<1>1. call[k] \in Call
  BY TypesOfIt DEF InFlight, CallsTyped
<1> PICK c : c = [call[k] EXCEPT !.answer = a]
  OBVIOUS
<1>2. c \in Call /\ c.session = call[k].session /\ c.answer = a
  BY <1>1 DEF Call
<1>3. call' = [call EXCEPT ![k] = c]
  BY DEF Answer
<1> QED
  BY <1>2, <1>3, TypesOfIt DEF CallsTyped

\* Calls that end leave what is known of the others.
LEMMA DropLaws ==
  ASSUME CallsFit, UNCHANGED <<page, created, live>>,
         \A j \in Kinds : call'[j] \in {call[j], None}
  PROVE  CallsFit'
BY DEF CallsFit, InFlight, CallFits

\* A call that is settled is gone, and no other.
LEMMA SettleLaws ==
  ASSUME TypeOK, CallsFit, UNCHANGED <<page, created, live>>, NEW k \in Kinds, Settle(k)
  PROVE  /\ CallsTyped' /\ CallsFit' /\ call'[k] = None
         /\ \A j \in Kinds \ {k} : call'[j] = call[j]
<1>1. /\ CallsTyped' /\ call'[k] = None
      /\ \A j \in Kinds \ {k} : call'[j] = call[j]
  BY TypesOfIt DEF Settle, CallsTyped
<1> QED
  BY <1>1, DropLaws

\* At the end of a session its last call is gone, and the list of a history page.
LEMMA UnsubscribedLaws ==
  ASSUME TypeOK, CallsFit, UNCHANGED <<page, created, live>>, NEW k \in Kinds,
         call' = Unsubscribed([call EXCEPT ![k] = None])
  PROVE  /\ CallsTyped' /\ CallsFit' /\ call'[k] = None
         /\ \A j \in Kinds \ {k, "list"} : call'[j] = call[j]
         /\ call'["list"] \in {call["list"], None}
         /\ page = "history" => call'["list"] = None
<1>1. "list" \in Kinds
  BY DEF Kinds, HistoryCalls
<1>2. /\ CallsTyped' /\ call'[k] = None
      /\ \A j \in Kinds \ {k, "list"} : call'[j] = call[j]
      /\ call'["list"] \in {call["list"], None}
      /\ page = "history" => call'["list"] = None
  BY <1>1, TypesOfIt DEF Unsubscribed, CallsTyped
<1> QED
  BY <1>2, DropLaws

\* A session that exists is of somebody.
LEMMA OwnersAreUsers ==
  ASSUME NEW s \in Sessions
  PROVE  OwnerOf[s] \in Users
BY DEF Users

\* The rows of the user shown are own rows.
LEMMA OwnRowsLaws ==
  ASSUME NEW s \in Sessions, shown = s, s # None
  PROVE  OwnerOf[s] \in OwnRows
BY OwnersAreUsers DEF OwnRows, Owner

\* The calls of a page are no calls of the session.
LEMMA KindsLaws ==
  ASSUME page \in Pages
  PROVE  /\ AuthCalls \subseteq Kinds /\ CallsOf(page) \subseteq Kinds
         /\ CallsOf(page) \cap AuthCalls = {}
         /\ "list" \in CallsOf(page)
         /\ {"list", "baseline"} \subseteq Kinds \ AuthCalls
         /\ {"me", "login", "logout", "verify"} = AuthCalls
BY DEF Pages, CallsOf, Kinds, AuthCalls, VaultCalls, RulesCalls, SummaryCalls,
       InsightCalls, HistoryCalls

\* Who is signed in depends on the cookie, on who is shown, and on the calls of
\* the session that are in flight.
LEMMA SignedInStill ==
  ASSUME SignedIn, UNCHANGED <<cookie, shown>>,
         \A k \in {"me", "login", "logout"} : InFlight(k)' => InFlight(k),
         InFlight("me") => call'["me"].session = call["me"].session
  PROVE  SignedIn'
BY DEF SignedIn, InFlight

\* Whose rows a page holds depends on its store, on who is shown, and on the
\* session of the loads in flight.
LEMMA StoreStill ==
  ASSUME StoresFit, UNCHANGED <<page, shown, pageVars>>,
         \A k \in {"list", "baseline"} :
           InFlight(k)' => InFlight(k) /\ call'[k].session = call[k].session
  PROVE  StoresFit'
<1>1. UNCHANGED <<store, outlived>>
  BY DEF pageVars
<1>2. OwnRows' = OwnRows
  BY DEF OwnRows, Owner
<1>3. \A k \in {"list", "baseline"} : LoadIsOwn(k) => LoadIsOwn(k)'
  BY DEF LoadIsOwn, InFlight
<1> QED
  BY <1>1, <1>2, <1>3
  DEF StoresFit, ClearedStore, KeptStore, KeptBaseline, HistoryStore, Keeps

-----------------------------------------------------------------------------
\* What the user does.

LEMMA LoginStep == IInv /\ Login => IInv'
<1> SUFFICES ASSUME IInv, Login
             PROVE  IInv'
  OBVIOUS
<1>1. TypeOK /\ page \in Pages /\ UNCHANGED <<page, created, live, cookie, authVars, pageVars>>
  BY TypesOfIt DEF IInv, Login, Gateway
<1>2. "login" \in Kinds /\ "login" \in AuthCalls
  BY <1>1, KindsLaws
<1>3. CallsTyped' /\ CallsFit' /\ \A j \in Kinds \ {"login"} : call'[j] = call[j]
  BY <1>1, <1>2, SendLaws DEF IInv, Login
<1>4. {"me", "logout", "list", "baseline"} \subseteq Kinds \ {"login"}
  BY <1>1, KindsLaws
<1>5. TypeOK'
  BY <1>1, <1>3 DEF TypeOK, CallsTyped, authVars, pageVars
<1>6. SignedIn'
  BY <1>1, <1>3, <1>4 DEF IInv, SignedIn, InFlight, Login, OnScreen, Initialized, authVars
<1>7. StoresFit'
  BY <1>1, <1>3, <1>4, StoreStill DEF IInv, InFlight, authVars
<1> QED
  BY <1>3, <1>5, <1>6, <1>7 DEF IInv

LEMMA LogoutStep == IInv /\ Logout => IInv'
<1> SUFFICES ASSUME IInv, Logout
             PROVE  IInv'
  OBVIOUS
<1>1. TypeOK /\ page \in Pages /\ UNCHANGED <<page, created, live, cookie, authVars, outlived>>
  BY TypesOfIt DEF IInv, Logout, Gateway
<1>2. "logout" \in Kinds /\ "logout" \in AuthCalls
  BY <1>1, KindsLaws
<1>3. CallsTyped' /\ CallsFit' /\ \A j \in Kinds \ {"logout"} : call'[j] = call[j]
  BY <1>1, <1>2, SendLaws DEF IInv, Logout
<1>4. {"me", "login", "list", "baseline"} \subseteq Kinds \ {"logout"}
  BY <1>1, KindsLaws
<1>5. (store' \in Store /\ page = "vault" /\ store'.rows = {}) \/ store' = store
  BY <1>1, TypesOfIt, EmptyStoreLaws DEF Logout, Store
<1>6. TypeOK'
  BY <1>1, <1>3, <1>5 DEF TypeOK, CallsTyped, authVars
<1>7. SignedIn'
  BY <1>1, <1>3, <1>4 DEF IInv, SignedIn, InFlight, Logout, OnScreen, Initialized, authVars
<1>8. StoresFit'
  <2>1. CASE store' = store
    BY <1>1, <1>3, <1>4, <2>1, StoreStill DEF IInv, InFlight, authVars, pageVars
  <2>2. CASE page = "vault" /\ store'.rows = {}
    BY <1>1, <2>2 DEF StoresFit, ClearedStore, KeptStore, KeptBaseline, HistoryStore, Keeps
  <2> QED
    BY <1>5, <2>1, <2>2
<1> QED
  BY <1>3, <1>6, <1>7, <1>8 DEF IInv

LEMMA VerifyStep == IInv /\ Verify => IInv'
<1> SUFFICES ASSUME IInv, Verify
             PROVE  IInv'
  OBVIOUS
<1>1. TypeOK /\ page \in Pages
      /\ UNCHANGED <<page, created, live, cookie, shown, stale, prompting, dialog, pageVars>>
  BY TypesOfIt DEF IInv, Verify, Gateway
<1>2. "verify" \in Kinds /\ "verify" \in AuthCalls
  BY <1>1, KindsLaws
<1>3. CallsTyped' /\ CallsFit' /\ \A j \in Kinds \ {"verify"} : call'[j] = call[j]
  BY <1>1, <1>2, SendLaws DEF IInv, Verify
<1>4. {"me", "login", "logout", "list", "baseline"} \subseteq Kinds \ {"verify"}
  BY <1>1, KindsLaws
<1>5. TypeOK'
  BY <1>1, <1>3 DEF TypeOK, CallsTyped, pageVars, Verify
<1>6. SignedIn'
  BY <1>1, <1>3, <1>4, SignedInStill DEF IInv, InFlight
<1>7. StoresFit'
  BY <1>1, <1>3, <1>4, StoreStill DEF IInv, InFlight
<1> QED
  BY <1>3, <1>5, <1>6, <1>7 DEF IInv

\* Opening a page sends a list for the user shown, or a status.
LEMMA OpenPageStep == IInv /\ OpenPage => IInv'
<1> SUFFICES ASSUME IInv, OpenPage
             PROVE  IInv'
  OBVIOUS
<1>1. TypeOK /\ page \in Pages /\ page # "history" /\ shown # None
      /\ UNCHANGED <<page, created, live, cookie, authVars, outlived>>
  BY TypesOfIt DEF IInv, OpenPage, Gateway
<1>2. First \in CallsOf(page) /\ First \in Kinds
  BY <1>1, KindsLaws DEF First, CallsOf, VaultCalls
<1>3. /\ CallsTyped' /\ CallsFit' /\ \A j \in Kinds \ {First} : call'[j] = call[j]
      /\ call'[First].session = cookie
  <2>1. ~Exhausts(First)
    BY DEF First, Exhausts
  <2> QED
    BY <1>1, <1>2, <2>1, SendLaws DEF IInv, OpenPage
<1>4. {"me", "login", "logout"} \subseteq Kinds \ {First}
  BY <1>1, <1>2, KindsLaws
<1>5. /\ store' \in Store /\ store'.rows = store.rows /\ store'.loading = TRUE
      /\ store'.opened = TRUE /\ page = "behavior" => store.opened
      /\ store'.baseline = store.baseline /\ store'.baselineError = store.baselineError
      /\ store'.baselineLoading = store.baselineLoading
  BY <1>1, TypesOfIt DEF OpenPage, Store
<1>6. TypeOK'
  BY <1>1, <1>3, <1>5 DEF TypeOK, CallsTyped, authVars
<1>7. SignedIn'
  BY <1>1, <1>3, <1>4, SignedInStill DEF IInv, InFlight, authVars
<1>8. OwnRows' = OwnRows /\ UNCHANGED shown
  BY <1>1 DEF OwnRows, Owner, authVars
<1>9. ClearedStore'
  BY <1>1, <1>5, <1>8 DEF IInv, StoresFit, ClearedStore, Keeps
<1>10. KeptStore'
  <2>1. CASE Keeps
    <3>1. call'["list"].session = shown'
      BY <1>1, <1>3, <1>8, <2>1 DEF IInv, SignedIn, First, Keeps
    <3> QED
      BY <1>1, <1>5, <1>8, <3>1 DEF KeptStore, LoadIsOwn
  <2> QED
    BY <1>1, <2>1 DEF KeptStore, Keeps
<1>11. KeptBaseline'
  <2>1. CASE page = "behavior"
    <3>1. call'["baseline"] = call["baseline"]
      BY <1>1, <1>3, <2>1, KindsLaws DEF First
    <3> QED
      BY <1>1, <1>5, <1>8, <2>1, <3>1
      DEF IInv, StoresFit, KeptBaseline, LoadIsOwn, InFlight
  <2> QED
    BY <1>1, <2>1 DEF KeptBaseline
<1>12. HistoryStore'
  BY <1>1 DEF HistoryStore
<1> QED
  BY <1>3, <1>6, <1>7, <1>9, <1>10, <1>11, <1>12 DEF IInv, StoresFit

\* Opening the behavior page asks anew for all that it kept.
LEMMA OpenBehaviorStep == IInv /\ OpenBehavior => IInv'
<1> SUFFICES ASSUME IInv, OpenBehavior
             PROVE  IInv'
  OBVIOUS
<1>1. TypeOK /\ page \in Pages /\ page = "behavior" /\ shown # None
      /\ UNCHANGED <<page, created, live, cookie, authVars, outlived>>
  BY TypesOfIt DEF IInv, OpenBehavior, Gateway
<1>2. InsightCalls = CallsOf(page) /\ {"list", "baseline"} = InsightCalls
  BY <1>1 DEF CallsOf, InsightCalls
<1>3. New \in Call /\ New.session = cookie /\ New.answer = "pending"
  BY <1>1, TypesOfIt DEF New, Call, Answers
<1>4. /\ \A j \in InsightCalls : call'[j] = New
      /\ \A j \in Kinds \ InsightCalls : call'[j] = call[j]
      /\ CallsTyped'
  BY <1>1, <1>2, <1>3, TypesOfIt, KindsLaws DEF OpenBehavior, CallsTyped
<1>5. CallsFit'
  <2> SUFFICES ASSUME NEW j \in Kinds, InFlight(j)'
               PROVE  CallFits(j, call[j])'
    BY DEF CallsFit
  <2>1. CASE j \in InsightCalls
    <3> PICK c : c = New
      OBVIOUS
    <3>1. CallFits(j, c)'
      BY <1>1, <1>2, <1>3, <2>1 DEF CallFits, TypeOK
    <3> QED
      BY <1>4, <2>1, <3>1
  <2>2. CASE j \notin InsightCalls
    BY <1>1, <1>4, <2>2 DEF IInv, CallsFit, InFlight, CallFits
  <2> QED
    BY <2>1, <2>2
<1>6. {"me", "login", "logout"} \subseteq Kinds \ InsightCalls
  BY <1>1, <1>2, KindsLaws
<1>7. /\ store' \in Store /\ store'.loading = TRUE /\ store'.baselineLoading = TRUE
  BY <1>1, TypesOfIt DEF OpenBehavior, Store
<1>8. TypeOK'
  BY <1>1, <1>4, <1>7 DEF TypeOK, CallsTyped, authVars
<1>9. SignedIn'
  BY <1>1, <1>4, <1>6, SignedInStill DEF IInv, InFlight, authVars
<1>10. \A k \in {"list", "baseline"} : LoadIsOwn(k)'
  BY <1>1, <1>2, <1>3, <1>4 DEF IInv, SignedIn, LoadIsOwn, authVars
<1>11. StoresFit'
  BY <1>1, <1>7, <1>10
  DEF StoresFit, ClearedStore, KeptStore, KeptBaseline, HistoryStore, Keeps, authVars
<1> QED
  BY <1>5, <1>8, <1>9, <1>11 DEF IInv

LEMMA OpenHistoryStep == IInv /\ OpenHistory => IInv'
<1> SUFFICES ASSUME IInv, OpenHistory
             PROVE  IInv'
  OBVIOUS
<1>1. TypeOK /\ page \in Pages /\ page = "history" /\ shown # None
      /\ UNCHANGED <<page, created, live, cookie, authVars, outlived>>
  BY TypesOfIt DEF IInv, OpenHistory, Gateway
<1>2. "list" \in CallsOf(page) /\ "list" \in Kinds
  BY <1>1, KindsLaws
<1>3. /\ CallsTyped' /\ CallsFit' /\ \A j \in Kinds \ {"list"} : call'[j] = call[j]
      /\ call'["list"].session = cookie
  <2>1. ~Exhausts("list")
    BY DEF Exhausts
  <2> QED
    BY <1>1, <1>2, <2>1, SendLaws DEF IInv, OpenHistory
<1>4. {"me", "login", "logout"} \subseteq Kinds \ {"list"}
  BY <1>1, KindsLaws
<1>5. store' \in Store /\ store'.rows = {}
  BY EmptyStoreLaws DEF OpenHistory, Store
<1>6. TypeOK'
  BY <1>1, <1>3, <1>5 DEF TypeOK, CallsTyped, authVars
<1>7. SignedIn'
  BY <1>1, <1>3, <1>4, SignedInStill DEF IInv, InFlight, authVars
<1>8. ClearedStore' /\ KeptStore' /\ KeptBaseline'
  BY <1>1, <1>5 DEF ClearedStore, KeptStore, KeptBaseline, Keeps
<1>9. HistoryStore'
  BY <1>1, <1>3 DEF IInv, StoresFit, HistoryStore, LoadIsOwn, SignedIn, authVars
<1> QED
  BY <1>3, <1>6, <1>7, <1>8, <1>9 DEF IInv, StoresFit

\* The buttons of a page send calls other than the loads.
LEMMA UseKeeps ==
  ASSUME IInv, NEW k \in CallsOf(page) \ {"list", "baseline"}, Use(k)
  PROVE  IInv'
<1>1. TypeOK /\ page \in Pages /\ UNCHANGED <<page, created, live, cookie, authVars, pageVars>>
  BY TypesOfIt DEF IInv, Use, Gateway
<1>2. k \in Kinds
  BY <1>1, KindsLaws
<1>3. CallsTyped' /\ CallsFit' /\ \A j \in Kinds \ {k} : call'[j] = call[j]
  BY <1>1, <1>2, SendLaws DEF IInv, Use
<1>4. {"me", "login", "logout", "list", "baseline"} \subseteq Kinds \ {k}
  BY <1>1, KindsLaws
<1>5. TypeOK'
  BY <1>1, <1>3 DEF TypeOK, CallsTyped, authVars, pageVars
<1>6. SignedIn'
  BY <1>1, <1>3, <1>4, SignedInStill DEF IInv, InFlight, authVars
<1>7. StoresFit'
  BY <1>1, <1>3, <1>4, StoreStill DEF IInv, InFlight, authVars
<1> QED
  BY <1>3, <1>5, <1>6, <1>7 DEF IInv

LEMMA UseStep == IInv /\ (UseVault \/ UseRules) => IInv'
<1> SUFFICES ASSUME IInv, UseVault \/ UseRules
             PROVE  IInv'
  OBVIOUS
<1>1. \E k \in CallsOf(page) \ {"list", "baseline"} : Use(k)
  BY DEF UseVault, UseRules, CallsOf, VaultCalls, RulesCalls
<1> QED
  BY <1>1, UseKeeps

LEMMA ReloadStep == IInv /\ Reload => IInv'
<1> SUFFICES ASSUME IInv, Reload
             PROVE  IInv'
  OBVIOUS
<1>1. TypeOK /\ page \in Pages /\ UNCHANGED <<page, created, live, cookie>>
      /\ call' = Fresh(cookie) /\ shown' = None /\ store' = EmptyStore /\ outlived' = FALSE
  BY TypesOfIt DEF IInv, Reload, Gateway
<1> PICK c : c = [session |-> cookie, answer |-> "pending"]
  OBVIOUS
<1>2. c \in Call /\ c.session = cookie /\ c.answer = "pending"
  BY <1>1, TypesOfIt DEF Call, Answers
<1>3. /\ CallsTyped' /\ call'["me"] = c
      /\ \A j \in Kinds \ {"me"} : call'[j] = None
  BY <1>1, <1>2, KindsLaws DEF Fresh, NoCalls, CallsTyped
<1>4. CallFits("me", c)'
  BY <1>1, <1>2, KindsLaws DEF CallFits, TypeOK
<1>5. CallsFit'
  BY <1>3, <1>4 DEF CallsFit, InFlight, CallFits
<1>6. TypeOK'
  BY <1>1, <1>3, EmptyStoreLaws DEF TypeOK, CallsTyped, Reload
<1>7. SignedIn'
  BY <1>1, <1>2, <1>3, KindsLaws DEF SignedIn, InFlight
<1>8. StoresFit'
  BY <1>1, <1>3, EmptyStoreLaws, KindsLaws
  DEF StoresFit, ClearedStore, KeptStore, KeptBaseline, HistoryStore, LoadIsOwn, InFlight
<1> QED
  BY <1>5, <1>6, <1>7, <1>8 DEF IInv

-----------------------------------------------------------------------------
\* What the gateway does.

\* An answer keeps the invariant if it is one the call can get.
LEMMA AnswerKeeps ==
  ASSUME IInv, NEW k \in Kinds, Waiting(k), NEW a \in Answers, Answer(k, a),
         UNCHANGED <<page, created, cookie, authVars, pageVars>>, live' \subseteq live,
         a \in {"ok", "locked"} /\ k # "logout" => call[k].session \in 1 .. created,
         a = "expired" => call[k].session \notin live',
         a = "sealed" => page = "vault"
  PROVE  IInv'
<1>1. TypeOK /\ InFlight(k) /\ page \in Pages
  BY TypesOfIt DEF IInv, Waiting
<1>2. /\ CallsTyped' /\ \A j \in Kinds \ {k} : call'[j] = call[j]
      /\ call'[k].session = call[k].session /\ call'[k].answer = a
  BY <1>1, AnswerLaws
<1>3. created' \in created .. MaxSessions /\ live' \subseteq live \cup (created + 1 .. created')
  BY <1>1, TypesOfIt
<1>4. CallsFit'
  <2> SUFFICES ASSUME NEW j \in Kinds, InFlight(j)'
               PROVE  CallFits(j, call[j])'
    BY DEF CallsFit
  <2>1. CASE j = k
    <3>1. CallFits(k, call[k])
      BY <1>1 DEF IInv, CallsFit
    <3> QED
      BY <1>2, <2>1, <3>1 DEF CallFits
  <2>2. CASE j # k
    <3>1. CallFits(j, call[j]) /\ call'[j] = call[j]
      BY <1>2, <2>2 DEF IInv, CallsFit, InFlight
    <3> QED
      BY <1>2, <3>1 DEF CallFits
  <2> QED
    BY <2>1, <2>2
<1>5. TypeOK'
  BY <1>1, <1>2 DEF TypeOK, CallsTyped, authVars, pageVars
<1>6. \A j \in Kinds : (InFlight(j)' => InFlight(j)) /\ call'[j].session = call[j].session
  BY <1>1, <1>2 DEF InFlight
<1>7. {"me", "login", "logout", "list", "baseline"} \subseteq Kinds
  BY <1>1, KindsLaws
<1>8. SignedIn'
  BY <1>6, <1>7, SignedInStill DEF IInv, authVars
<1>9. StoresFit'
  BY <1>6, <1>7, StoreStill DEF IInv, authVars
<1> QED
  BY <1>4, <1>5, <1>8, <1>9 DEF IInv

\* A session that is live exists.
LEMMA ValidExists ==
  ASSUME TypeOK, NEW k, Valid(k)
  PROVE  call[k].session \in 1 .. created
BY DEF Valid, TypeOK

LEMMA ServeLoginStep == IInv /\ ServeLogin => IInv'
<1> SUFFICES ASSUME IInv, ServeLogin
             PROVE  IInv'
  OBVIOUS
<1>1. /\ TypeOK /\ page \in Pages /\ InFlight("login") /\ "login" \in Kinds
      /\ UNCHANGED <<page, cookie, authVars, pageVars>>
  BY TypesOfIt, KindsLaws DEF IInv, ServeLogin, Waiting
<1>2. /\ created' = created + 1 /\ created' \in Sessions /\ created' \in 1 .. created'
      /\ created' \in created .. MaxSessions /\ live' = live \cup {created'}
      /\ created' \in 0 .. MaxSessions
  BY <1>1, TypesOfIt DEF ServeLogin, Sessions
<1> PICK c : c = [session |-> created', answer |-> "ok"]
  OBVIOUS
<1>3. c \in Call /\ c.session = created' /\ c.answer = "ok"
  BY <1>2 DEF Call, Answers
<1>4. CallsTyped' /\ call'["login"] = c /\ \A j \in Kinds \ {"login"} : call'[j] = call[j]
  BY <1>1, <1>3, TypesOfIt DEF ServeLogin, CallsTyped
<1>5. ASSUME NEW j \in Kinds, InFlight(j)'
      PROVE  CallFits(j, call[j])'
  <2>1. CASE j = "login"
    BY <1>1, <1>2, <1>3, <1>4, <2>1, KindsLaws DEF CallFits
  <2>2. CASE j # "login"
    <3>1. CallFits(j, call[j]) /\ call'[j] = call[j]
      BY <1>4, <1>5, <2>2 DEF IInv, CallsFit, InFlight
    <3>2. created + 1 .. created' = {created'}
      BY <1>2, TypesOfIt, <1>1
    <3> PICK d : d = call[j]
      OBVIOUS
    <3>3. CallFits(j, d)'
      BY <1>1, <1>2, <3>1, <3>2, FitsStill
    <3> QED
      BY <3>1, <3>3
  <2> QED
    BY <2>1, <2>2
<1>6. TypeOK'
  <2>1. 1 .. created \subseteq 1 .. created'
    BY <1>1, <1>2, TypesOfIt
  <2> QED
    BY <1>1, <1>2, <1>4, <2>1 DEF TypeOK, CallsTyped, authVars, pageVars
<1>7. {"me", "logout", "list", "baseline"} \subseteq Kinds \ {"login"}
  BY <1>1, KindsLaws
<1>8. SignedIn'
  BY <1>1, <1>4, <1>7, SignedInStill DEF IInv, InFlight, authVars
<1>9. StoresFit'
  BY <1>1, <1>4, <1>7, StoreStill DEF IInv, InFlight, authVars
<1> QED
  BY <1>5, <1>6, <1>8, <1>9 DEF IInv, CallsFit

LEMMA ServeStep ==
  ASSUME IInv, NEW k \in Kinds, Serve(k)
  PROVE  IInv'
<1>1. TypeOK /\ page \in Pages
  BY TypesOfIt DEF IInv
<1> USE DEF Answers
<1>2. CASE ServeFails(k)
  BY <1>2, AnswerKeeps DEF ServeFails, Gateway
<1>3. CASE ServeProfile(k)
  BY <1>1, <1>3, AnswerKeeps, ValidExists DEF ServeProfile, Gateway
<1>4. CASE ServePage(k)
  <2>1. Waiting(k) /\ UNCHANGED <<page, created, cookie, live, authVars, pageVars>>
    BY <1>4 DEF ServePage, Gateway
  <2>2. CASE ~Valid(k) /\ Answer(k, "expired")
    BY <2>1, <2>2, AnswerKeeps DEF Valid
  <2>3. CASE Valid(k) /\ page = "vault" /\ Answer(k, "sealed")
    BY <2>1, <2>3, AnswerKeeps
  <2>4. CASE Valid(k) /\ (Answer(k, "ok") \/ Answer(k, "locked"))
    BY <1>1, <2>1, <2>4, AnswerKeeps, ValidExists
  <2>5. CASE Valid(k) /\ (Answer(k, "reauth") \/ Answer(k, "invalid"))
    BY <2>1, <2>5, AnswerKeeps
  <2> QED
    BY <1>4, <2>2, <2>3, <2>4, <2>5 DEF ServePage
<1>5. CASE k = "login" /\ ServeLogin
  BY <1>5, ServeLoginStep
<1>6. CASE k = "logout" /\ ServeLogout
  BY <1>6, AnswerKeeps DEF ServeLogout
<1> QED
  BY <1>2, <1>3, <1>4, <1>5, <1>6 DEF Serve

LEMMA SessionEndsStep == IInv /\ SessionEnds => IInv'
<1> SUFFICES ASSUME IInv, SessionEnds
             PROVE  IInv'
  OBVIOUS
<1>1. live' \subseteq live /\ UNCHANGED <<page, created, cookie, call, authVars, pageVars>>
  BY DEF SessionEnds
<1>2. TypeOK'
  BY <1>1 DEF IInv, TypeOK, authVars, pageVars
<1>3. CallsFit'
  BY <1>1 DEF IInv, CallsFit, CallFits, InFlight
<1>4. SignedIn'
  BY <1>1 DEF IInv, SignedIn, InFlight, authVars
<1>5. StoresFit'
  BY <1>1, StoreStill DEF IInv, InFlight, authVars
<1> QED
  BY <1>2, <1>3, <1>4, <1>5 DEF IInv

-----------------------------------------------------------------------------
\* The answers to the calls of the session.

\* While nobody is shown the page holds nothing that would become wrong when
\* somebody is.
LEMMA BeginKeeps ==
  ASSUME IInv, shown = None, UNCHANGED <<page, pageVars>>, call'["list"] = call["list"]
  PROVE  StoresFit'
<1>1. UNCHANGED <<store, outlived>>
  BY DEF pageVars
<1>2. ~Keeps /\ ~outlived => store.rows = {}
  BY DEF IInv, StoresFit, ClearedStore, OwnRows
<1>3. Keeps => ~store.opened
  BY DEF IInv, StoresFit, KeptStore
<1>4. page = "behavior" => Keeps
  BY DEF Keeps
<1>5. page = "history" => ~outlived /\ call["list"] = None
  BY DEF IInv, StoresFit, HistoryStore, LoadIsOwn, InFlight
<1> QED
  BY <1>1, <1>2, <1>3, <1>4, <1>5
  DEF StoresFit, ClearedStore, KeptStore, KeptBaseline, HistoryStore, Keeps, LoadIsOwn,
      InFlight

LEMMA ProfileArrivesStep == IInv /\ ProfileArrives => IInv'
<1> SUFFICES ASSUME IInv, ProfileArrives
             PROVE  IInv'
  OBVIOUS
<1>1. TypeOK /\ page \in Pages /\ UNCHANGED <<page, created, live, cookie, pageVars>>
  BY TypesOfIt DEF IInv, ProfileArrives, Gateway
<1>2. /\ InFlight("me") /\ shown = None /\ call["me"].session = cookie
      /\ ~InFlight("login") /\ ~InFlight("logout")
  BY DEF IInv, SignedIn, ProfileArrives, Arrived
<1>3. {"me", "login", "logout", "list", "baseline"} \subseteq Kinds
  BY <1>1, KindsLaws
<1>4. /\ CallsTyped' /\ CallsFit' /\ call'["me"] = None
      /\ \A j \in Kinds \ {"me"} : call'[j] = call[j]
  BY <1>1, <1>3, SettleLaws DEF IInv, ProfileArrives
<1>5. shown' \in {None, cookie} /\ shown' \in 1 .. created \cup {None}
  <2>1. CallFits("me", call["me"])
    BY <1>2, <1>3 DEF IInv, CallsFit
  <2> QED
    BY <1>2, <2>1 DEF ProfileArrives, Begin, CallFits
<1>6. {stale', prompting', verifying', dialog'} \subseteq BOOLEAN
  BY <1>1 DEF TypeOK, ProfileArrives, Begin
<1>7. TypeOK'
  BY <1>1, <1>4, <1>5, <1>6 DEF TypeOK, CallsTyped, pageVars
<1>8. SignedIn'
  BY <1>1, <1>2, <1>3, <1>4, <1>5 DEF SignedIn, InFlight
<1>9. StoresFit'
  BY <1>1, <1>2, <1>3, <1>4, BeginKeeps
<1> QED
  BY <1>4, <1>7, <1>8, <1>9 DEF IInv

LEMMA LoginArrivesStep == IInv /\ LoginArrives => IInv'
<1> SUFFICES ASSUME IInv, LoginArrives
             PROVE  IInv'
  OBVIOUS
<1>1. TypeOK /\ page \in Pages /\ UNCHANGED <<page, created, live, pageVars>>
  BY TypesOfIt DEF IInv, LoginArrives
<1>2. InFlight("login") /\ shown = None /\ ~InFlight("me")
  BY DEF IInv, SignedIn, LoginArrives, Arrived
<1>3. {"me", "login", "logout", "list", "baseline"} \subseteq Kinds
  BY <1>1, KindsLaws
<1>4. /\ CallsTyped' /\ CallsFit' /\ call'["login"] = None
      /\ \A j \in Kinds \ {"login"} : call'[j] = call[j]
  BY <1>1, <1>3, SettleLaws DEF IInv, LoginArrives
<1>5. \/ cookie' \in 1 .. created /\ shown' = cookie'
      \/ cookie' = cookie /\ shown' = shown
  <2>1. CallFits("login", call["login"])
    BY <1>2, <1>3 DEF IInv, CallsFit
  <2> QED
    BY <2>1 DEF LoginArrives, Begin, CallFits, authVars
<1>6. {stale', prompting', verifying', dialog'} \subseteq BOOLEAN
  BY <1>1 DEF TypeOK, LoginArrives, Begin, authVars
<1>7. TypeOK'
  BY <1>1, <1>4, <1>5, <1>6 DEF TypeOK, CallsTyped, pageVars
<1>8. SignedIn'
  BY <1>1, <1>2, <1>3, <1>4, <1>5 DEF SignedIn, InFlight
<1>9. StoresFit'
  BY <1>1, <1>2, <1>3, <1>4, BeginKeeps
<1> QED
  BY <1>4, <1>7, <1>8, <1>9 DEF IInv

LEMMA LogoutArrivesStep == IInv /\ LogoutArrives => IInv'
<1> SUFFICES ASSUME IInv, LogoutArrives
             PROVE  IInv'
  OBVIOUS
<1>1. /\ TypeOK /\ page \in Pages /\ shown' = None /\ store' = Cleared(store)
      /\ UNCHANGED <<page, created, live, stale, verifying, dialog>> /\ outlived' = FALSE
      /\ cookie' \in {cookie, None} /\ prompting' = FALSE
  BY TypesOfIt DEF IInv, LogoutArrives
<1>2. InFlight("logout") /\ ~InFlight("me")
  BY DEF IInv, SignedIn, LogoutArrives, Arrived
<1>3. {"me", "login", "logout", "list", "baseline"} \subseteq Kinds
  BY <1>1, KindsLaws
<1>4. /\ CallsTyped' /\ CallsFit'
      /\ \A j \in Kinds \ {"logout", "list"} : call'[j] = call[j]
      /\ page = "history" => call'["list"] = None
  BY <1>1, <1>3, UnsubscribedLaws DEF IInv, LogoutArrives
<1>5. /\ store' \in Store /\ store'.opened = FALSE
      /\ ~Keeps => store'.rows = {}
  BY <1>1, TypesOfIt, ClearedLaws
<1>6. TypeOK'
  BY <1>1, <1>4, <1>5 DEF TypeOK, CallsTyped
<1>7. SignedIn'
  BY <1>1, <1>2, <1>3, <1>4 DEF SignedIn, InFlight
<1>8. StoresFit'
  BY <1>1, <1>4, <1>5
  DEF StoresFit, ClearedStore, KeptStore, KeptBaseline, HistoryStore, Keeps, LoadIsOwn, InFlight
<1> QED
  BY <1>4, <1>6, <1>7, <1>8 DEF IInv

LEMMA VerifyArrivesStep == IInv /\ VerifyArrives => IInv'
<1> SUFFICES ASSUME IInv, VerifyArrives
             PROVE  IInv'
  OBVIOUS
<1>1. TypeOK /\ page \in Pages /\ UNCHANGED <<page, created, live, cookie, shown, pageVars>>
  BY TypesOfIt DEF IInv, VerifyArrives, Gateway, VerifyFails
<1>2. {"me", "login", "logout", "verify", "list", "baseline"} \subseteq Kinds
  BY <1>1, KindsLaws
<1>3. /\ CallsTyped' /\ CallsFit' /\ \A j \in Kinds \ {"verify"} : call'[j] = call[j]
  BY <1>1, <1>2, SettleLaws DEF IInv, VerifyArrives
<1>4. {stale', prompting', verifying', dialog'} \subseteq BOOLEAN
  BY <1>1 DEF TypeOK, VerifyArrives, VerifyFails
<1>5. TypeOK'
  BY <1>1, <1>3, <1>4 DEF TypeOK, CallsTyped, pageVars
<1>6. SignedIn'
  BY <1>1, <1>2, <1>3, SignedInStill DEF IInv, InFlight
<1>7. StoresFit'
  BY <1>1, <1>2, <1>3, StoreStill DEF IInv, InFlight
<1> QED
  BY <1>3, <1>5, <1>6, <1>7 DEF IInv

\* The window and the interval touch neither calls nor rows.
LEMMA PromptStep == IInv /\ (WindowPasses \/ Prompt) => IInv'
<1> SUFFICES ASSUME IInv, WindowPasses \/ Prompt
             PROVE  IInv'
  OBVIOUS
<1>1. UNCHANGED <<page, created, live, cookie, call, shown, prompting, verifying, pageVars>>
  BY DEF WindowPasses, Prompt, Gateway
<1>2. {stale', dialog'} \subseteq BOOLEAN
  BY DEF IInv, TypeOK, WindowPasses, Prompt
<1>3. TypeOK'
  BY <1>1, <1>2 DEF IInv, TypeOK, pageVars
<1>4. CallsFit'
  BY <1>1 DEF IInv, CallsFit, CallFits, InFlight
<1>5. SignedIn'
  BY <1>1 DEF IInv, SignedIn, InFlight
<1>6. StoresFit'
  BY <1>1, StoreStill DEF IInv, InFlight
<1> QED
  BY <1>3, <1>4, <1>5, <1>6 DEF IInv

-----------------------------------------------------------------------------
\* The answers to the page.

\* What is known of a call of the page that arrives.
LEMMA ArrivedLaws ==
  ASSUME IInv, NEW k \in Kinds, k \notin AuthCalls, Arrived(k)
  PROVE  /\ InFlight(k) /\ CallFits(k, call[k]) /\ k \in CallsOf(page)
         /\ {"me", "login", "logout"} \subseteq Kinds \ {k, "list"}
<1>1. InFlight(k) /\ CallFits(k, call[k])
  BY DEF Arrived, IInv, CallsFit
<1>2. k \in CallsOf(page)
  BY <1>1 DEF CallFits
<1>3. page \in Pages
  BY TypesOfIt DEF IInv
<1> QED
  BY <1>1, <1>2, <1>3, KindsLaws

\* The list that follows a status or an unlock goes out with the cookie.
LEMMA FollowLaws ==
  ASSUME IInv, NEW k \in Kinds, k \notin AuthCalls, Arrived(k),
         call[k].answer \in {"ok", "locked"},
         UNCHANGED <<page, created, live, cookie, authVars>>,
         call' = IF Follows(k, call[k].answer)
                 THEN [call EXCEPT ![k] = None, !["list"] = New]
                 ELSE [call EXCEPT ![k] = None]
  PROVE  /\ CallsTyped' /\ CallsFit'
         /\ \A j \in Kinds \ {k, "list"} : call'[j] = call[j]
         /\ page # "vault" => call'[k] = None /\ \A j \in Kinds \ {k} : call'[j] = call[j]
<1>1. TypeOK /\ page \in Pages /\ "list" \in Kinds /\ "list" \in CallsOf(page)
  BY TypesOfIt, KindsLaws DEF IInv
<1>2. k \in CallsOf(page)
  BY ArrivedLaws
<1>3. CASE Follows(k, call[k].answer)
  <2>1. page = "vault" /\ k # "list"
    BY <1>1, <1>2, <1>3
    DEF Follows, Pages, CallsOf, VaultCalls, RulesCalls, SummaryCalls, InsightCalls,
        HistoryCalls
  <2> PICK c : c = New
    OBVIOUS
  <2>2. c \in Call /\ c.session = cookie /\ c.answer = "pending"
    BY <1>1, TypesOfIt DEF New, Call, Answers
  <2>3. call' = [call EXCEPT ![k] = None, !["list"] = c]
    BY <1>3
  <2>4. /\ CallsTyped' /\ call'["list"] = c /\ call'[k] = None
        /\ \A j \in Kinds \ {k, "list"} : call'[j] = call[j]
    BY <1>1, <2>1, <2>2, <2>3, TypesOfIt DEF CallsTyped
  <2>5. CallFits("list", c)'
    BY <1>1, <2>2 DEF CallFits, TypeOK
  <2>6. ASSUME NEW j \in Kinds, InFlight(j)'
        PROVE  CallFits(j, call[j])'
    <3>1. CASE j = "list"
      BY <2>4, <2>5, <3>1
    <3>2. CASE j # "list"
      <4>1. InFlight(j) /\ call'[j] = call[j]
        BY <2>4, <2>6, <3>2 DEF InFlight
      <4> QED
        BY <4>1 DEF IInv, CallsFit, CallFits
    <3> QED
      BY <3>1, <3>2
  <2>7. CallsFit'
    BY <2>6 DEF CallsFit
  <2> QED
    BY <2>1, <2>4, <2>7
<1>4. CASE ~Follows(k, call[k].answer)
  <2>1. Settle(k)
    BY <1>4 DEF Settle
  <2> QED
    BY <1>1, <2>1, SettleLaws DEF IInv
<1> QED
  BY <1>3, <1>4

LEMMA PageAnswerArrivesStep ==
  ASSUME IInv, NEW k \in Kinds, PageAnswerArrives(k)
  PROVE  IInv'
<1> PICK c, u : c = call[k] /\ u = Queried(c.session)
  OBVIOUS
<1>1. /\ TypeOK /\ page \in Pages /\ store \in Store
      /\ UNCHANGED <<page, created, live, cookie, authVars>>
  BY TypesOfIt DEF IInv, PageAnswerArrives, Gateway
<1>2. /\ k \notin AuthCalls /\ Arrived(k) /\ c.answer \in {"ok", "locked"}
      /\ store' = Succeeded(k, c.answer, store, u)
      /\ outlived' = IF c.session = shown THEN outlived /\ k # "list" ELSE TRUE
  BY DEF PageAnswerArrives
<1>3. /\ k \in CallsOf(page) /\ c.session \in 1 .. created
      /\ {"me", "login", "logout"} \subseteq Kinds \ {k, "list"}
  BY <1>1, <1>2, ArrivedLaws, KindsLaws DEF CallFits
<1>4. /\ CallsTyped' /\ CallsFit'
      /\ \A j \in Kinds \ {k, "list"} : call'[j] = call[j]
      /\ page # "vault" => call'[k] = None /\ \A j \in Kinds \ {k} : call'[j] = call[j]
  BY <1>1, <1>2, FollowLaws DEF PageAnswerArrives
<1>5. u \in Users /\ u = OwnerOf[c.session]
  BY <1>1, <1>3, TypesOfIt, OwnersAreUsers DEF Queried
<1>6. /\ store' \in Store /\ store'.rows \subseteq store.rows \cup {u}
      /\ store'.opened = store.opened
      /\ k = "list" => store'.rows = {u}
      /\ Keeps /\ k # "list" => /\ store'.loaded = store.loaded
                                /\ store'.loading = store.loading
                                /\ store'.rows = store.rows
      /\ page = "behavior" =>
           \/ k = "baseline" /\ store'.baseline = {u}
           \/ /\ store'.baselineError = store.baselineError
              /\ store'.baselineLoading = store.baselineLoading
              /\ store'.baseline = store.baseline
  BY <1>1, <1>2, <1>3, <1>5, SucceededLaws
<1>7. TypeOK'
  <2>1. outlived' \in BOOLEAN
    <3>1. (outlived /\ k # "list") \in BOOLEAN
      OBVIOUS
    <3> QED
      BY <1>2, <3>1
  <2> QED
    BY <1>1, <1>4, <1>6, <2>1 DEF TypeOK, CallsTyped, authVars
<1>8. SignedIn'
  BY <1>1, <1>3, <1>4, SignedInStill DEF IInv, InFlight, authVars
<1>9. OwnRows' = OwnRows /\ UNCHANGED shown
  BY <1>1 DEF OwnRows, Owner, authVars
<1>10. c.session = shown => shown # None /\ u \in OwnRows
  BY <1>1, <1>3, <1>5, TypesOfIt, OwnRowsLaws
<1>11. ClearedStore'
  BY <1>1, <1>2, <1>6, <1>9, <1>10 DEF IInv, StoresFit, ClearedStore, Keeps
<1>12. \A j \in {"list", "baseline"} : page # "vault" => call'[j] \in {call[j], None}
  BY <1>1, <1>4, KindsLaws
<1>13. KeptStore'
  <2> SUFFICES ASSUME Keeps, store.opened
               PROVE  KeptStore'
    BY <1>1, <1>6 DEF KeptStore, Keeps
  <2>1. page # "vault" /\ shown # None /\ LoadIsOwn("list")
    BY DEF IInv, StoresFit, KeptStore, Keeps
  <2>2. LoadIsOwn("list")'
    BY <1>9, <1>12, <2>1 DEF LoadIsOwn, InFlight
  <2>3. CASE k = "list"
    <3>1. c.session = shown
      BY <1>2, <2>1, <2>3 DEF LoadIsOwn, Arrived
    <3> QED
      BY <1>6, <1>9, <1>10, <2>1, <2>2, <2>3, <3>1 DEF KeptStore
  <2>4. CASE k # "list"
    BY <1>6, <1>9, <2>1, <2>2, <2>4 DEF IInv, StoresFit, KeptStore
  <2> QED
    BY <2>3, <2>4
<1>14. KeptBaseline'
  <2> SUFFICES ASSUME page = "behavior", store.opened
               PROVE  KeptBaseline'
    BY <1>1, <1>6 DEF KeptBaseline
  <2>1. LoadIsOwn("baseline")
    BY DEF IInv, StoresFit, KeptBaseline
  <2>2. LoadIsOwn("baseline")'
    BY <1>9, <1>12, <2>1 DEF LoadIsOwn, InFlight
  <2>3. CASE k = "baseline" /\ store'.baseline = {u}
    <3>1. c.session = shown
      BY <1>2, <2>1, <2>3 DEF LoadIsOwn, Arrived
    <3> QED
      BY <1>9, <1>10, <2>2, <2>3, <3>1 DEF KeptBaseline
  <2>4. CASE /\ store'.baselineError = store.baselineError
             /\ store'.baselineLoading = store.baselineLoading
             /\ store'.baseline = store.baseline
    BY <1>9, <2>2, <2>4 DEF IInv, StoresFit, KeptBaseline
  <2> QED
    BY <1>6, <2>3, <2>4
<1>15. HistoryStore'
  <2> SUFFICES ASSUME page = "history"
               PROVE  HistoryStore'
    BY <1>1 DEF HistoryStore
  <2>1. k = "list"
    BY <1>3 DEF CallsOf, HistoryCalls
  <2>2. ~outlived /\ c.session = shown /\ call'["list"] = None
    BY <1>2, <1>4, <2>1, ArrivedLaws DEF IInv, StoresFit, HistoryStore, LoadIsOwn
  <2> QED
    BY <1>2, <2>2 DEF HistoryStore, LoadIsOwn, InFlight
<1> QED
  BY <1>4, <1>7, <1>8, <1>11, <1>13, <1>14, <1>15 DEF IInv, StoresFit

LEMMA PageCallFailsStep ==
  ASSUME IInv, NEW k \in Kinds, PageCallFails(k)
  PROVE  IInv'
<1>1. /\ TypeOK /\ page \in Pages /\ store \in Store
      /\ UNCHANGED <<page, created, live, cookie, stale>>
  BY TypesOfIt DEF IInv, PageCallFails, Gateway
<1>2. k \notin AuthCalls /\ Arrived(k)
  BY DEF PageCallFails
<1>3. /\ k \in CallsOf(page) /\ "list" \in Kinds
      /\ {"me", "login", "logout"} \subseteq Kinds \ {k, "list"}
  BY <1>1, <1>2, ArrivedLaws, KindsLaws
<1>4. CASE EndsSession(call[k].answer)
  <2>1. /\ call' = Unsubscribed([call EXCEPT ![k] = None])
        /\ shown' = None /\ prompting' = FALSE /\ verifying' = FALSE
        /\ store' = Failed(k, Cleared(store)) /\ dialog' = dialog /\ outlived' = FALSE
    BY <1>4 DEF PageCallFails
  <2>2. /\ CallsTyped' /\ CallsFit' /\ \A j \in Kinds \ {k, "list"} : call'[j] = call[j]
        /\ page = "history" => call'["list"] = None
    BY <1>1, <2>1, UnsubscribedLaws DEF IInv
  <2>3. /\ store' \in Store /\ store'.opened = FALSE
        /\ ~Keeps => store'.rows = {}
    BY <1>1, <1>3, <2>1, ClearedLaws, FailedLaws
  <2>4. TypeOK'
    BY <1>1, <2>1, <2>2, <2>3 DEF TypeOK, CallsTyped
  <2>5. SignedIn'
    BY <1>1, <1>3, <2>1, <2>2 DEF IInv, SignedIn, InFlight
  <2>6. StoresFit'
    BY <1>1, <2>1, <2>2, <2>3
    DEF StoresFit, ClearedStore, KeptStore, KeptBaseline, HistoryStore, Keeps, LoadIsOwn, InFlight
  <2> QED
    BY <2>2, <2>4, <2>5, <2>6 DEF IInv
<1>5. CASE ~EndsSession(call[k].answer)
  <2>1. /\ Settle(k) /\ store' = Failed(k, store)
        /\ dialog' = (dialog \/ call[k].answer = "reauth")
        /\ UNCHANGED <<shown, stale, prompting, verifying, outlived>>
    BY <1>5 DEF PageCallFails
  <2>2. /\ CallsTyped' /\ CallsFit' /\ call'[k] = None
        /\ \A j \in Kinds \ {k} : call'[j] = call[j]
    BY <1>1, <2>1, SettleLaws DEF IInv
  <2>3. /\ store' \in Store /\ store'.rows = store.rows /\ store'.opened = store.opened
        /\ Keeps => \/ store'.loaded = FALSE
                    \/ store'.loaded = store.loaded /\ store'.loading = store.loading
        /\ page = "behavior" =>
             \/ store'.baselineError = TRUE
             \/ /\ store'.baselineError = store.baselineError
                /\ store'.baselineLoading = store.baselineLoading
                /\ store'.baseline = store.baseline
    BY <1>1, <1>3, <2>1, FailedLaws
  <2>4. dialog' \in BOOLEAN
    BY <1>1, <2>1, BooleanOr DEF TypeOK
  <2>5. TypeOK'
    BY <1>1, <2>1, <2>2, <2>3, <2>4 DEF TypeOK, CallsTyped
  <2>6. SignedIn'
    BY <1>1, <1>3, <2>1, <2>2, SignedInStill DEF IInv, InFlight
  <2>7. OwnRows' = OwnRows
    BY <2>1 DEF OwnRows, Owner
  <2>8. \A j \in {"list", "baseline"} : LoadIsOwn(j) => LoadIsOwn(j)'
    <3>1. \A j \in {"list", "baseline"} : call'[j] \in {call[j], None}
      BY <1>1, <2>2, KindsLaws
    <3> QED
      BY <2>1, <3>1 DEF LoadIsOwn, InFlight
  <2>9. ClearedStore' /\ HistoryStore'
    BY <1>1, <2>1, <2>3, <2>7, <2>8 DEF IInv, StoresFit, ClearedStore, HistoryStore, Keeps
  <2>10. KeptStore' /\ KeptBaseline'
    BY <1>1, <2>1, <2>3, <2>7, <2>8 DEF IInv, StoresFit, KeptStore, KeptBaseline, Keeps
  <2> QED
    BY <2>2, <2>5, <2>6, <2>9, <2>10 DEF IInv, StoresFit
<1> QED
  BY <1>4, <1>5

LEMMA DeliverStep ==
  ASSUME IInv, NEW k \in Kinds, Deliver(k)
  PROVE  IInv'
BY ProfileArrivesStep, LoginArrivesStep, LogoutArrivesStep, VerifyArrivesStep,
   PageAnswerArrivesStep, PageCallFailsStep
DEF Deliver

-----------------------------------------------------------------------------
\* The theorems.

LEMMA InitIInv == Init => IInv
<1> SUFFICES ASSUME Init
             PROVE  IInv
  OBVIOUS
<1>1. page \in Pages /\ MaxSessions \in Nat
  BY DashboardConstants DEF Init
<1> PICK c : c = [session |-> None, answer |-> "pending"]
  OBVIOUS
<1>2. c \in Call /\ c.session = None /\ c.answer = "pending"
  BY DEF Call, Answers
<1>3. CallsTyped /\ call["me"] = c /\ \A j \in Kinds \ {"me"} : call[j] = None
  BY <1>1, <1>2, KindsLaws DEF Init, Fresh, NoCalls, CallsTyped
<1>4. TypeOK
  <2>1. created \in 0 .. MaxSessions /\ live \subseteq 1 .. created
    BY <1>1 DEF Init
  <2>2. {stale, prompting, verifying, dialog, outlived} \subseteq BOOLEAN
    BY DEF Init
  <2>3. cookie = None /\ shown = None /\ store \in Store
    BY EmptyStoreLaws DEF Init
  <2> QED
    BY <1>1, <1>3, <2>1, <2>2, <2>3 DEF TypeOK, CallsTyped
<1>5. CallsFit
  BY <1>1, <1>2, <1>3, KindsLaws DEF CallsFit, CallFits, InFlight
<1>6. SignedIn
  BY <1>1, <1>2, <1>3, KindsLaws DEF Init, SignedIn, InFlight
<1>7. StoresFit
  BY <1>1, <1>3, EmptyStoreLaws, KindsLaws
  DEF Init, StoresFit, ClearedStore, KeptStore, KeptBaseline, HistoryStore, LoadIsOwn, InFlight
<1> QED
  BY <1>4, <1>5, <1>6, <1>7 DEF IInv

LEMMA NextIInv == IInv /\ [Next]_vars => IInv'
<1> SUFFICES ASSUME IInv, [Next]_vars
             PROVE  IInv'
  OBVIOUS
<1>1. CASE Login \/ Logout \/ Verify \/ OpenPage \/ OpenBehavior \/ OpenHistory
  BY <1>1, LoginStep, LogoutStep, VerifyStep, OpenPageStep, OpenBehaviorStep,
     OpenHistoryStep
<1>2. CASE UseVault \/ UseRules \/ Reload
  BY <1>2, UseStep, ReloadStep
<1>3. CASE SessionEnds \/ WindowPasses \/ Prompt
  BY <1>3, SessionEndsStep, PromptStep
<1>4. CASE \E k \in Kinds : Serve(k) \/ Deliver(k)
  BY <1>4, ServeStep, DeliverStep
<1>5. CASE UNCHANGED vars
  <2> USE <1>5 DEF vars
  <2>1. TypeOK'
    BY DEF IInv, TypeOK
  <2>2. CallsFit' /\ SignedIn'
    BY DEF IInv, CallsFit, CallFits, SignedIn, InFlight
  <2>3. StoresFit'
    BY StoreStill DEF IInv, InFlight, pageVars
  <2> QED
    BY <2>1, <2>2, <2>3 DEF IInv
<1> QED
  BY <1>1, <1>2, <1>3, <1>4, <1>5 DEF Next

LEMMA AlwaysIInv == Spec => []IInv
BY InitIInv, NextIInv, PTL DEF Spec

\* Every variable keeps its type: no answer fills a store that it does not fit.
THEOREM TypeCorrect == Spec => []TypeOK
<1>1. IInv => TypeOK
  BY DEF IInv
<1> QED
  BY <1>1, AlwaysIInv, PTL

\* The pages of vault and rules show rows of the user signed in, unless an answer
\* has outlived its sign-in (vault.effects.ts:74-86, vault.reducer.ts:175-177,
\* rules.reducer.ts:100).
THEOREM PagesShowOwn == Spec => []PageShowsOwn
<1>1. IInv => PageShowsOwn
  BY DEF IInv, StoresFit, ClearedStore, PageShowsOwn, Rendered, OwnRows, Keeps
<1> QED
  BY <1>1, AlwaysIInv, PTL

\* The stores of analytics and behavior are never cleared, yet nobody is shown the
\* numbers of somebody else, nor a baseline but under an error; and a history page
\* takes no late answer at all (analytics.reducer.ts:23-43,
\* analytics.component.ts:98-100, behavior.reducer.ts:30-63,
\* traffic.component.ts:142-168).
THEOREM InsightsStayOwn == Spec => []InsightsAreOwn
<1>1. IInv => InsightsAreOwn
  BY DEF IInv, StoresFit, ClearedStore, KeptStore, KeptBaseline, HistoryStore,
         InsightsAreOwn, Rendered, BaselineRendered, OwnRows, Keeps
<1> QED
  BY <1>1, AlwaysIInv, PTL

\* A password is revealed to its user only, unless rows came late as well
\* (vault.effects.ts:146-171).
THEOREM RevealedStaysOwn == Spec => []RevealedIsOwn
<1>1. IInv => RevealedIsOwn
  <2> SUFFICES ASSUME IInv, ~outlived, Arrived("reveal"), Shows(OwnerOf[call["reveal"].session])
               PROVE  shown # None /\ OwnerOf[call["reveal"].session] = Owner
    BY DEF RevealedIsOwn
  <2>1. ~Keeps
    <3>1. "reveal" \in Kinds /\ "reveal" \notin AuthCalls
      BY DEF Kinds, VaultCalls, AuthCalls
    <3>2. "reveal" \in CallsOf(page)
      BY <3>1, ArrivedLaws
    <3> QED
      BY <3>2 DEF CallsOf, SummaryCalls, InsightCalls, Keeps
  <2> QED
    BY <2>1 DEF IInv, StoresFit, ClearedStore, OwnRows, Shows
<1> QED
  BY <1>1, AlwaysIInv, PTL

\* The reasons to drop a session that is live at the gateway: a logout, a reload,
\* the 401 of a call of an earlier session, the 401 of a locked vault
\* (auth-error.interceptor.ts:19-33).
THEOREM LiveSessionsAreKept == Spec => LiveSessionKept
<1>1. ASSUME IInv, [Next]_vars, shown # None, shown' = None, shown \in live
      PROVE  \/ Arrived("logout") /\ ~InFlight("logout")'
             \/ call' = Fresh(cookie)
             \/ \E k \in Kinds :
                  /\ Arrived(k) /\ ~InFlight(k)'
                  /\ \/ call[k].answer = "expired" /\ call[k].session # shown
                     \/ call[k].answer = "sealed" /\ page = "vault"
  <2> USE <1>1
  <2>1. TypeOK /\ page \in Pages
    BY TypesOfIt DEF IInv
  <2>2. shown' # shown
    OBVIOUS
  <2>3. CASE \/ Login \/ Logout \/ Verify \/ OpenPage \/ OpenBehavior \/ OpenHistory
             \/ UseVault \/ UseRules
    BY <2>2, <2>3
    DEF Login, Logout, Verify, OpenPage, OpenBehavior, OpenHistory, UseVault, UseRules,
        Use, authVars
  <2>4. CASE Reload
    BY <2>4 DEF Reload
  <2>5. CASE SessionEnds \/ WindowPasses \/ Prompt
    BY <2>2, <2>5 DEF SessionEnds, WindowPasses, Prompt, authVars
  <2>6. ASSUME NEW k \in Kinds, Serve(k)
        PROVE  FALSE
    BY <2>2, <2>6
    DEF Serve, ServeFails, ServeProfile, ServePage, ServeLogin, ServeLogout, authVars
  <2>7. ASSUME NEW k \in Kinds, Deliver(k)
        PROVE  \/ Arrived("logout") /\ ~InFlight("logout")'
               \/ /\ Arrived(k) /\ ~InFlight(k)'
                  /\ \/ call[k].answer = "expired" /\ call[k].session # shown
                     \/ call[k].answer = "sealed" /\ page = "vault"
    <3>1. ~ProfileArrives /\ ~LoginArrives
      BY DEF IInv, SignedIn, ProfileArrives, LoginArrives, Arrived
    <3>2. ~VerifyArrives /\ ~PageAnswerArrives(k)
      BY <2>2 DEF VerifyArrives, VerifyFails, PageAnswerArrives, authVars
    <3>3. CASE LogoutArrives
      <4>1. "logout" \in Kinds
        BY <2>1, KindsLaws
      <4>2. call'["logout"] = None
        BY <2>1, <3>3, <4>1, UnsubscribedLaws DEF IInv, LogoutArrives
      <4> QED
        BY <3>3, <4>2 DEF LogoutArrives, InFlight
    <3>4. CASE PageCallFails(k)
      <4>1. k \notin AuthCalls /\ Arrived(k) /\ EndsSession(call[k].answer)
        BY <2>2, <3>4 DEF PageCallFails
      <4>2. call'[k] = None
        BY <2>1, <3>4, <4>1, UnsubscribedLaws DEF IInv, PageCallFails, Gateway
      <4>3. CallFits(k, call[k])
        BY <4>1, ArrivedLaws
      <4> QED
        BY <4>1, <4>2, <4>3 DEF CallFits, EndsSession, InFlight
    <3> QED
      BY <2>7, <3>1, <3>2, <3>3, <3>4 DEF Deliver
  <2>8. CASE UNCHANGED vars
    BY <2>2, <2>8 DEF vars
  <2> QED
    BY <2>3, <2>4, <2>5, <2>6, <2>7, <2>8 DEF Next
<1> QED
  BY <1>1, AlwaysIInv, PTL DEF Spec, LiveSessionKept

=============================================================================
