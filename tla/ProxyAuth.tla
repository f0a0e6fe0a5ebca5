----------------------------- MODULE ProxyAuth -----------------------------
(***************************************************************************)
(* How the forward proxy decides who a request comes from: the session     *)
(* cookie if there is one, otherwise Basic credentials, which are checked  *)
(* under a limit of failures per client address and then borrow the newest *)
(* dashboard session of the user.                                          *)
(*                                                                         *)
(* An attempt is one call of ProxyAuthService.authenticate.  Its field     *)
(* "step" names the await it is parked at; between two awaits it runs      *)
(* alone.  The windows of failures live in memory, the sessions in the     *)
(* database.                                                               *)
(***************************************************************************)
EXTENDS Integers, FiniteSets

CONSTANTS
  Users,
  MaxSessions,   \* bound on the dashboard sessions ever created
  Devices,       \* (IP address, user agent) pairs
  AddressOf,     \* the IP address of a device: the key of the rate limit
  Attempts,      \* attempts in flight at a time
  AuthLimit,     \* THROTTLE_AUTH_LIMIT
  AuthTtl,       \* THROTTLE_TTL_MS, in ticks
  SessionTtl,    \* JWT_EXPIRES_IN, in ticks
  MaxTime,       \* bound on the clock
  None

Sessions  == 1 .. MaxSessions     \* in the order of createdAt
Addresses == {AddressOf[d] : d \in Devices}

ASSUME ProxyAuthConstants ==
  /\ MaxSessions \in Nat /\ MaxTime \in Nat
  /\ AuthLimit \in Nat \ {0} /\ AuthTtl \in Nat /\ SessionTtl \in Nat \ {0}
  /\ IsFiniteSet(Attempts)
  /\ AddressOf = [d \in Devices |-> AddressOf[d]]
  /\ None \notin Users \cup Sessions \cup Devices

SessionRow == [user: Users, device: Devices, expires: Nat, revoked: BOOLEAN]
Window     == [count: Nat \ {0}, first: 0 .. MaxTime]

ASSUME NoneIsNoRecord == None \notin SessionRow \cup Window \cup {"cookie", "basic"}

VARIABLES
  strict,    \* SESSION_FINGERPRINT_STRICT; the environment is fixed
  now,       \* Date.now()
  session,   \* the sessions table, None for a row not created yet
  failures,  \* ProxyRateLimitService.failures
  attempt    \* the attempts; of an answered one the answer is left

vars == <<strict, now, session, failures, attempt>>

\* The awaits of an attempt; "user" covers findById and updateLastVerifiedAt.
Parked == {"token", "password", "latest", "mismatch", "user"}

\* What the client gets: the pipeline's answer, or a status of main.ts.
Answers == {"authorised", "407", "429", "500"}

\* "user" is the one named by the credentials, None for an unknown name;
\* "good" says that the password is that user's.  "live" is a history field:
\* was the session of the row live when the row was looked up?
Attempt == [step: {"idle"} \cup Parked \cup Answers,
            kind: {"cookie", "basic", None}, device: Devices \cup {None},
            user: Users \cup {None}, good: BOOLEAN,
            row: Sessions \cup {None}, live: BOOLEAN]

Idle == [step |-> "idle", kind |-> None, device |-> None, user |-> None,
         good |-> FALSE, row |-> None, live |-> FALSE]

TypeOK ==
  /\ strict \in BOOLEAN
  /\ now \in 0 .. MaxTime
  /\ session \in [Sessions -> SessionRow \cup {None}]
  /\ failures \in [Addresses -> Window \cup {None}]
  /\ attempt \in [Attempts -> Attempt]

Init ==
  /\ strict \in BOOLEAN
  /\ now = 0
  /\ session = [s \in Sessions |-> None]
  /\ failures = [a \in Addresses |-> None]
  /\ attempt = [r \in Attempts |-> Idle]

-----------------------------------------------------------------------------
\* The sessions, as the rest of the gateway changes them (AccessControl).

Active(s) == session[s] # None /\ ~session[s].revoked /\ session[s].expires > now

\* POST /auth/login creates the next row.
CreateSession ==
  \E s \in Sessions, u \in Users, d \in Devices :
    /\ session[s] = None
    /\ \A t \in Sessions : t < s => session[t] # None
    /\ session' = [session EXCEPT ![s] = [user |-> u, device |-> d,
                                          expires |-> now + SessionTtl,
                                          revoked |-> FALSE]]
    /\ UNCHANGED <<strict, now, failures, attempt>>

\* POST /auth/logout, or a request of another device in strict mode.
EndSession ==
  \E s \in Sessions :
    /\ session[s] # None
    /\ session' = [session EXCEPT ![s].revoked = TRUE]
    /\ UNCHANGED <<strict, now, failures, attempt>>

-----------------------------------------------------------------------------
\* The limit of failures.

\* Mutant of Expired: a window ends one tick early.
ExpiredEarly(a) == now - failures[a].first >= AuthTtl

Expired(a) == now - failures[a].first > AuthTtl

\* Mutant of Blocked: the limit may be exceeded by one.
BlockedAboveLimit(a) ==
  /\ failures[a] # None /\ ~Expired(a) /\ failures[a].count > AuthLimit

\* isBlocked, which also deletes a window that has expired.
Blocked(a) == failures[a] # None /\ ~Expired(a) /\ failures[a].count >= AuthLimit

ForgetIfExpired(a) ==
  failures' = IF failures[a] # None /\ Expired(a)
              THEN [failures EXCEPT ![a] = None] ELSE failures

\* recordFailure prunes every window that has expired, then counts.
RecordFailure(a) ==
  failures' = [b \in Addresses |->
    LET w == IF failures[b] # None /\ Expired(b) THEN None ELSE failures[b]
    IN  IF b # a THEN w
        ELSE IF w = None THEN [count |-> 1, first |-> now]
        ELSE [w EXCEPT !.count = @ + 1]]

\* Mutant of RecordSuccess: a success makes up for one failure.
ForgiveOne(a) ==
  failures' = [failures EXCEPT ![a] = IF @ = None \/ @.count = 1 THEN None
                                      ELSE [@ EXCEPT !.count = @ - 1]]

RecordSuccess(a) == failures' = [failures EXCEPT ![a] = None]

-----------------------------------------------------------------------------
\* An attempt.

Address(r)    == AddressOf[attempt[r].device]
Park(r, s)    == attempt' = [attempt EXCEPT ![r].step = s]
Set(r, t)     == attempt' = [attempt EXCEPT ![r] = t]
Answer(r, c)  == Set(r, [Idle EXCEPT !.step = c])
At(r, s)      == attempt[r].step = s
InFlight(r)   == attempt[r].step \in Parked

NewAttempt(kind, d, u, good, s) ==
  [step |-> IF kind = "cookie" THEN "token" ELSE "password", kind |-> kind,
   device |-> d, user |-> u, good |-> good, row |-> s, live |-> FALSE]

\* A request with the cookie of a session, or with one that is not the
\* gateway's; the token names the user.
ArriveWithCookie(r) ==
  /\ ~InFlight(r)
  /\ \E d \in Devices, s \in {t \in Sessions : session[t] # None} \cup {None} :
       Set(r, NewAttempt("cookie", d, IF s = None THEN None ELSE session[s].user,
                           FALSE, s))
  /\ UNCHANGED <<strict, now, session, failures>>

\* A request with Basic credentials, right, wrong or of nobody.
ArriveWithBasic(r) ==
  /\ ~InFlight(r)
  /\ \E d \in Devices, u \in Users \cup {None}, good \in BOOLEAN :
       /\ u = None => ~good
       /\ LET t == NewAttempt("basic", d, u, good, None) IN
            \/ ~Blocked(AddressOf[d]) /\ Set(r, t)
            \/ Blocked(AddressOf[d]) /\ Answer(r, "429")
       /\ ForgetIfExpired(AddressOf[d])
  /\ UNCHANGED <<strict, now, session>>

\* A request with neither.
ArriveWithNothing(r) ==
  /\ ~InFlight(r)
  /\ Answer(r, "407")
  /\ UNCHANGED <<strict, now, session, failures>>

\* The fingerprint of row s agrees with the device of the attempt.
Matches(r, s) == session[s].device = attempt[r].device

\* Mutant of Verify: a mismatch is logged and let through.
VerifyLeniently(r, s) ==
  attempt' = [attempt EXCEPT ![r].row = s, ![r].live = Active(s), ![r].step = "user"]

\* The start of verifySessionForRequest, with the row just looked up.
Verify(r, s) ==
  attempt' = [attempt EXCEPT ![r].row = s, ![r].live = Active(s),
                             ![r].step = IF Matches(r, s) THEN "user" ELSE "mismatch"]

\* Mutant of CheckToken: a row is enough, whether its session has ended or not.
CheckTokenAlone(r) ==
  /\ At(r, "token")
  /\ LET s == attempt[r].row IN
       \/ s # None /\ Verify(r, s)
       \/ s = None /\ Answer(r, "407")
  /\ UNCHANGED <<strict, now, session, failures>>

\* The token is verified and its row looked up, active or not.
CheckToken(r) ==
  /\ At(r, "token")
  /\ LET s == attempt[r].row IN
       \/ s # None /\ Active(s) /\ Verify(r, s)
       \/ ~(s # None /\ Active(s)) /\ Answer(r, "407")
  /\ UNCHANGED <<strict, now, session, failures>>

\* Mutant of CheckPassword: the session is looked up whatever the password.
LookUpAnyway(r) ==
  /\ At(r, "password") /\ attempt[r].user # None
  /\ Park(r, "latest")
  /\ UNCHANGED <<strict, now, session, failures>>

\* findByUsername and the verification of the password are over.
CheckPassword(r) ==
  /\ At(r, "password")
  /\ \/ attempt[r].good /\ Park(r, "latest") /\ UNCHANGED failures
     \/ ~attempt[r].good /\ Answer(r, "407") /\ RecordFailure(Address(r))
  /\ UNCHANGED <<strict, now, session>>

ActiveOf(u)  == {s \in Sessions : Active(s) /\ session[s].user = u}

\* findLatestActiveForUser: the newest row, or no row and no failure counted.
FindLatest(r) ==
  /\ At(r, "latest")
  /\ \/ /\ ActiveOf(attempt[r].user) = {} /\ Answer(r, "407")
        /\ UNCHANGED failures
     \/ \E s \in ActiveOf(attempt[r].user) :
          /\ \A t \in ActiveOf(attempt[r].user) : t <= s
          /\ Verify(r, s)
          /\ IF Matches(r, s) THEN RecordSuccess(Address(r)) ELSE UNCHANGED failures
  /\ UNCHANGED <<strict, now, session>>

\* The actor of the mismatch has been read and logged.  Strict: the row is
\* revoked and the attempt refused; lenient: it goes on.
HandleMismatch(r) ==
  /\ At(r, "mismatch")
  /\ \/ /\ strict
        /\ session' = [session EXCEPT ![attempt[r].row].revoked = TRUE]
        /\ Answer(r, "407") /\ UNCHANGED failures
     \/ /\ ~strict /\ Park(r, "user") /\ UNCHANGED session
        /\ IF attempt[r].kind = "basic" THEN RecordSuccess(Address(r))
                                        ELSE UNCHANGED failures
  /\ UNCHANGED <<strict, now>>

\* findById and updateLastVerifiedAt: the request goes on as this user.
Authorise(r) ==
  /\ At(r, "user")
  /\ Answer(r, "authorised")
  /\ UNCHANGED <<strict, now, session, failures>>

\* The database fails at an await: proxyErrorStatus turns it into a 500.
DatabaseFails(r) ==
  /\ InFlight(r)
  /\ Answer(r, "500")
  /\ UNCHANGED <<strict, now, session, failures>>

\* The process restarts: the windows and the attempts in flight are gone.
Restart ==
  /\ failures' = [a \in Addresses |-> None]
  /\ attempt' = [r \in Attempts |-> Idle]
  /\ UNCHANGED <<strict, now, session>>

Tick ==
  /\ now < MaxTime /\ now' = now + 1
  /\ UNCHANGED <<strict, session, failures, attempt>>

\* The next step of an attempt, whichever await it is parked at.
Proceed(r) ==
  \/ CheckToken(r) \/ CheckPassword(r) \/ FindLatest(r) \/ HandleMismatch(r)
  \/ Authorise(r)

Next ==
  \/ CreateSession \/ EndSession \/ Restart \/ Tick
  \/ \E r \in Attempts : \/ ArriveWithCookie(r) \/ ArriveWithBasic(r)
                         \/ ArriveWithNothing(r) \/ Proceed(r) \/ DatabaseFails(r)

Spec == Init /\ [][Next]_vars

-----------------------------------------------------------------------------
\* Properties.

\* Attempts that passed the check of the limit and have not counted yet.
Pending(a) == {r \in Attempts : At(r, "password") /\ Address(r) = a}

\* The check of the limit comes before the password is verified and the count
\* after it: concurrent attempts exceed the limit, but by fewer than there are
\* attempts in flight (proxy-auth.service.ts:87 and 98-104).
FailuresBounded ==
  \A a \in Addresses :
    failures[a] # None => failures[a].count < AuthLimit + Cardinality(Attempts)

\* Whoever is let through borrows a session of the user named that was live when
\* it was looked up, whatever is awaited and changed after that; with Basic the
\* password was right; in strict mode the device is the one that signed in
\* (proxy-auth.service.ts:57-71 and 114-131).
AuthorisedBySession ==
  \A r \in Attempts :
    At(r, "user") =>
      LET t == attempt[r] IN
      /\ t.row # None /\ t.live /\ session[t.row].user = t.user
      /\ t.kind = "basic" => t.good
      /\ strict => session[t.row].device = t.device

\* A blocked address stays blocked until its window is over, a valid password
\* of an attempt let in before the block deletes the window, or the process
\* restarts (proxy-rate-limit.service.ts:39).
BlockLasts ==
  [][\A a \in Addresses :
       Blocked(a) /\ ~Blocked(a)' =>
         \/ now' - failures[a].first > AuthTtl
         \/ \E r \in Attempts : /\ At(r, "latest") \/ At(r, "mismatch")
                                /\ attempt[r].good /\ Address(r) = a
                                /\ At(r, "user")'
         \/ \A r \in Attempts : attempt'[r] = Idle]_vars

\* An attempt that ends a session showed its token or the password of its user,
\* from another device, in strict mode (proxy-auth.service.ts:125,
\* sessions.service.ts:89): a stranger cannot sign anybody out.
OnlyOwnersEndSessions ==
  [][attempt' # attempt /\ session' # session =>
       \E r \in Attempts :
         LET t == attempt[r] IN
         /\ InFlight(r) /\ t.row # None /\ strict
         /\ t.kind = "cookie" \/ (t.good /\ t.user = session[t.row].user)
         /\ t.device # session[t.row].device
         /\ session' = [session EXCEPT ![t.row].revoked = TRUE]]_vars

\* The limit is what AttemptLimit promises: passwords are verified only for an
\* address below the limit, an attempt counts at most once, and a count goes down
\* only by starting anew, whatever expires, succeeds, fails or is pruned while
\* others wait (proxy-rate-limit.service.ts:13-53, proxy-auth.service.ts:82-130).
Limited == INSTANCE AttemptLimit
             WITH count <- [a \in Addresses |->
                    IF failures[a] = None THEN 0 ELSE failures[a].count],
                  checking <- [a \in Addresses |-> Pending(a)]

KeepsLimit == Limited!Spec
=============================================================================
