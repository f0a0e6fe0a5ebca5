--------------------------- MODULE AccessControl ---------------------------
(***************************************************************************)
(* Who may do what in the GuardMe gateway: accounts, dashboard sessions,   *)
(* the re-authentication window and the in-memory vault keys, together     *)
(* with every HTTP handler of the auth and vault controllers that touches  *)
(* them.                                                                   *)
(*                                                                         *)
(* A handler is an async function.  Between two awaits it runs alone; at   *)
(* an await any other handler may run.  A request is therefore a record    *)
(* whose field "step" names the await it is parked at, and every action    *)
(* below is the code from one await to the next.  Rows of the database     *)
(* survive a restart, the key cache and the requests in flight do not.     *)
(***************************************************************************)
EXTENDS Integers

CONSTANTS
  Users,          \* accounts that may register
  Jtis,           \* JWT ids; bounds the sessions ever created
  Devices,        \* (IP address, user agent) pairs a request can come from
  Creds,          \* vault credential ids; bounds the rows ever created
  Requests,       \* requests in flight at a time
  Ops,            \* the endpoints a configuration exercises
  SessionTtl,     \* JWT_EXPIRES_IN, in ticks
  ReAuthTimeout,  \* REAUTH_TIMEOUT_MINUTES, in ticks
  Strict,         \* SESSION_FINGERPRINT_STRICT
  MaxTime,        \* bound on the clock
  Unused, Deleted,\* a credential id with no row yet, and one whose row is gone
  None            \* no value

AuthOps  == {"me", "verifyPassword"}
VaultOps == {"unlock", "lock", "list", "reveal", "create", "update", "delete"}
\* The endpoints behind VaultUnlockGuard, those behind ReAuthGuard, and those
\* that name a credential.
UnlockGuarded == {"list", "reveal", "create", "update"}
ReAuthGuarded == {"reveal", "create", "update", "delete"}
NamesCred     == {"reveal", "update", "delete"}
AsksPassword  == {"verifyPassword", "unlock"}

Never      == -1
Time       == 0 .. MaxTime
SessionRow == [user: Users, device: Devices, expires: Nat,
               revoked: BOOLEAN, verified: Time]
CredRow    == [owner: Users, seal: Users]

AllOps == {"login", "logout"} \cup AuthOps \cup VaultOps

ASSUME ConstantsOK ==
  /\ Ops \subseteq AllOps
  /\ SessionTtl \in Nat \ {0} /\ ReAuthTimeout \in Nat /\ MaxTime \in Nat
  /\ Strict \in BOOLEAN
  /\ None \notin Users \cup Jtis \cup Devices \cup Creds \cup AllOps
                 \cup CredRow \cup SessionRow
  /\ Unused # Deleted
  /\ {Unused, Deleted} \cap CredRow = {}

VARIABLES
  now,         \* the clock
  registered,  \* accounts with a row
  lastAuthAt,  \* users.lastAuthAt, Never while null
  session,     \* the sessions table, None for a JWT id not issued yet
  cred,        \* the vault_credentials table
  unlocked,    \* VaultKeyCacheService.keys: the users whose key is in memory
  req          \* requests in flight

vars == <<now, registered, lastAuthAt, session, cred, unlocked, req>>

Steps == {"idle", "lookup", "mismatch", "touchSession", "checkPassword",
          "deriveKey", "touchAuth", "createSession", "revoke", "clearKey",
          "vaultGuard", "reAuthGuard", "findOwned", "useKey", "write", "reply"}

\* "live" is a history field: had the presented session not ended on arrival?
Request == [step: Steps, op: Ops \cup {None}, user: Users \cup {None},
            jti: Jtis \cup {None}, device: Devices \cup {None},
            pw: Users \cup {None}, cred: Creds \cup {None},
            row: CredRow \cup {None}, live: BOOLEAN]

Idle == [step |-> "idle", op |-> None, user |-> None, jti |-> None,
         device |-> None, pw |-> None, cred |-> None, row |-> None,
         live |-> FALSE]

TypeOK ==
  /\ now \in Time
  /\ registered \subseteq Users
  /\ lastAuthAt \in [Users -> Time \cup {Never}]
  /\ session \in [Jtis -> SessionRow \cup {None}]
  /\ cred \in [Creds -> CredRow \cup {Unused, Deleted}]
  /\ unlocked \subseteq Users
  /\ req \in [Requests -> Request]

Init ==
  /\ now = 0
  /\ registered = {}
  /\ lastAuthAt = [u \in Users |-> Never]
  /\ session = [j \in Jtis |-> None]
  /\ cred = [c \in Creds |-> Unused]
  /\ unlocked = {}
  /\ req = [r \in Requests |-> Idle]

-----------------------------------------------------------------------------
\* Mutant of Active: the WHERE clause forgets revokedAt.
ActiveIfUnexpired(j) == session[j] # None /\ session[j].expires > now

\* findActiveByJwtId's WHERE clause: not revoked and expiring later than now.
Active(j) == /\ session[j] # None
             /\ ~session[j].revoked
             /\ session[j].expires > now

\* What "ended" means to the properties, whatever the query above says.
Ended(j) == session[j].revoked \/ session[j].expires <= now

Stored(c) == cred[c] \in CredRow

\* Continue request r at the await s, or answer it (with a result or an error).
Advance(r, s) == req' = [req EXCEPT ![r].step = s]
Finish(r)     == req' = [req EXCEPT ![r] = Idle]

\* Argon2 verification: every account has a password of its own, named by it.
PasswordValid(q) == q.user \in registered /\ q.pw = q.user

ReAuthFresh(u) == lastAuthAt[u] # Never /\ now - lastAuthAt[u] <= ReAuthTimeout

-----------------------------------------------------------------------------
\* Arrival of requests.

\* POST /auth/login with any username, any password, from any device.
Login(r, u, p, d) ==
  /\ "login" \in Ops
  /\ req[r].step = "idle"
  /\ req' = [req EXCEPT ![r] = [Idle EXCEPT !.step = "checkPassword",
               !.op = "login", !.user = u, !.pw = p, !.device = d]]
  /\ UNCHANGED <<now, registered, lastAuthAt, session, cred, unlocked>>

\* POST /auth/logout has no guard: the cookie's token is verified with its
\* expiry ignored, so an expired or revoked session may log out too.
Logout(r, j) ==
  /\ "logout" \in Ops
  /\ req[r].step = "idle"
  /\ session[j] # None
  /\ req' = [req EXCEPT ![r] = [Idle EXCEPT !.step = "revoke",
               !.op = "logout", !.user = session[j].user, !.jti = j,
               !.live = ~Ended(j)]]
  /\ UNCHANGED <<now, registered, lastAuthAt, session, cred, unlocked>>

\* A request to an endpoint behind JwtSessionGuard, presenting a signed token
\* (its sub is the session's user) from any device.
Call(r, op, j, d, p, c) ==
  /\ op \in Ops \ {"login", "logout"}
  /\ req[r].step = "idle"
  /\ session[j] # None
  /\ (op \in AsksPassword) <=> (p # None)
  /\ (op \in NamesCred) <=> (c # None)
  /\ req' = [req EXCEPT ![r] = [step |-> "lookup", op |-> op,
               user |-> session[j].user, jti |-> j, device |-> d, pw |-> p,
               cred |-> c, row |-> None, live |-> ~Ended(j)]]
  /\ UNCHANGED <<now, registered, lastAuthAt, session, cred, unlocked>>

-----------------------------------------------------------------------------
\* JwtStrategy.validate, in front of every guarded endpoint.

FindActiveByJwtId(r) ==
  /\ req[r].step = "lookup"
  /\ LET j == req[r].jti IN
     \/ ~Active(j) /\ Finish(r)
     \/ /\ Active(j)
        /\ session[j].device = req[r].device
        /\ Advance(r, "touchSession")
     \/ /\ Active(j)
        /\ session[j].device # req[r].device
        /\ Advance(r, "mismatch")
  /\ UNCHANGED <<now, registered, lastAuthAt, session, cred, unlocked>>

RevokeByJwtId(j) == session' = [session EXCEPT ![j].revoked = TRUE]

\* Mutants of FingerprintMismatch: the strict branch revokes but does not throw;
\* only the strict branch ever continues.
RevokeWithoutThrow(r) ==
  /\ req[r].step = "mismatch"
  /\ RevokeByJwtId(req[r].jti) /\ Advance(r, "touchSession")
  /\ UNCHANGED <<now, registered, lastAuthAt, cred, unlocked>>
StrictBranchOnly(r) ==
  /\ req[r].step = "mismatch"
  /\ Strict /\ RevokeByJwtId(req[r].jti) /\ Finish(r)
  /\ UNCHANGED <<now, registered, lastAuthAt, cred, unlocked>>

\* The rest of verifySessionForRequest, after the actor's name was loaded.
FingerprintMismatch(r) ==
  /\ req[r].step = "mismatch"
  /\ \/ Strict /\ RevokeByJwtId(req[r].jti) /\ Finish(r)
     \/ ~Strict /\ Advance(r, "touchSession") /\ UNCHANGED session
  /\ UNCHANGED <<now, registered, lastAuthAt, cred, unlocked>>

\* Where a request goes once it is authenticated; GET /auth/me only reads.
EnterHandler(r) ==
  LET op == req[r].op IN
  \/ op = "me" /\ Finish(r)
  \/ op = "lock" /\ Advance(r, "clearKey")
  \/ op \in AsksPassword /\ Advance(r, "checkPassword")
  \/ op \in UnlockGuarded /\ Advance(r, "vaultGuard")
  \/ op = "delete" /\ Advance(r, "reAuthGuard")

\* Mutants of TouchSession: the row is written back as it was read, not revoked;
\* sliding sessions, every request renews the expiry.
TouchRevives(r) ==
  /\ req[r].step = "touchSession"
  /\ session' = [session EXCEPT ![req[r].jti].verified = now,
                                ![req[r].jti].revoked = FALSE]
  /\ EnterHandler(r)
  /\ UNCHANGED <<now, registered, lastAuthAt, cred, unlocked>>
SlidingTouch(r) ==
  /\ req[r].step = "touchSession"
  /\ session' = [session EXCEPT ![req[r].jti].verified = now,
                                ![req[r].jti].expires = now + SessionTtl]
  /\ EnterHandler(r)
  /\ UNCHANGED <<now, registered, lastAuthAt, cred, unlocked>>

\* updateLastVerifiedAt writes the row by id, whatever became of the session.
TouchSession(r) ==
  /\ req[r].step = "touchSession"
  /\ session' = [session EXCEPT ![req[r].jti].verified = now]
  /\ EnterHandler(r)
  /\ UNCHANGED <<now, registered, lastAuthAt, cred, unlocked>>

-----------------------------------------------------------------------------
\* AuthService and UsersService.

\* UsersService.create: the unique index turns a second registration away.
Register(u) ==
  /\ u \notin registered
  /\ registered' = registered \cup {u}
  /\ UNCHANGED <<now, lastAuthAt, session, cred, unlocked, req>>

\* Mutant of CheckPassword: login creates the session before touching lastAuthAt.
CheckPasswordSessionFirst(r) ==
  /\ req[r].step = "checkPassword"
  /\ Advance(r, IF req[r].op = "login" THEN "createSession" ELSE "touchAuth")
  /\ PasswordValid(req[r])
  /\ UNCHANGED <<now, registered, lastAuthAt, session, cred, unlocked>>

\* Another: unlock derives the key before the comparison has come back.
DeriveBeforeCheck(r) ==
  /\ req[r].step = "checkPassword"
  /\ \/ req[r].op = "unlock" /\ Advance(r, "deriveKey")
     \/ req[r].op # "unlock" /\ ~PasswordValid(req[r]) /\ Finish(r)
     \/ req[r].op # "unlock" /\ PasswordValid(req[r]) /\ Advance(r, "touchAuth")
  /\ UNCHANGED <<now, registered, lastAuthAt, session, cred, unlocked>>

\* The password check of login, verifyPassword and vault unlock.
CheckPassword(r) ==
  /\ req[r].step = "checkPassword"
  /\ \/ ~PasswordValid(req[r]) /\ Finish(r)
     \/ PasswordValid(req[r]) /\ req[r].op = "unlock" /\ Advance(r, "deriveKey")
     \/ PasswordValid(req[r]) /\ req[r].op # "unlock" /\ Advance(r, "touchAuth")
  /\ UNCHANGED <<now, registered, lastAuthAt, session, cred, unlocked>>

\* updateLastAuthAt: the last write of verifyPassword and unlock, and the one
\* before the session row in login.
TouchAuth(r) ==
  /\ req[r].step = "touchAuth"
  /\ lastAuthAt' = [lastAuthAt EXCEPT ![req[r].user] = now]
  /\ \/ req[r].op = "login" /\ Advance(r, "createSession")
     \/ req[r].op # "login" /\ Finish(r)
  /\ UNCHANGED <<now, registered, session, cred, unlocked>>

\* issueSessionCookie: a fresh JWT id bound to the caller's fingerprint.
\* (With every id of Jtis issued the login ends: the bound of the model.)
CreateSession(r) ==
  /\ req[r].step = "createSession"
  /\ \/ \E j \in Jtis :
          /\ session[j] = None
          /\ session' = [session EXCEPT ![j] =
               [user |-> req[r].user, device |-> req[r].device,
                expires |-> now + SessionTtl, revoked |-> FALSE,
                verified |-> now]]
     \/ (\A j \in Jtis : session[j] # None) /\ UNCHANGED session
  /\ Finish(r)
  /\ UNCHANGED <<now, registered, lastAuthAt, cred, unlocked>>

LogoutRevoke(r) ==
  /\ req[r].step = "revoke"
  /\ RevokeByJwtId(req[r].jti)
  /\ Advance(r, "clearKey")
  /\ UNCHANGED <<now, registered, lastAuthAt, cred, unlocked>>

\* VaultKeyCacheService.clearKey, the end of logout and of POST /vault/lock.
ClearKey(r) ==
  /\ req[r].step = "clearKey"
  /\ unlocked' = unlocked \ {req[r].user}
  /\ Finish(r)
  /\ UNCHANGED <<now, registered, lastAuthAt, session, cred>>

-----------------------------------------------------------------------------
\* VaultService.

\* unlock: deriveVaultKey resolves and setKey replaces the cached key.
DeriveKey(r) ==
  /\ req[r].step = "deriveKey"
  /\ unlocked' = unlocked \cup {req[r].user}
  /\ Advance(r, "touchAuth")
  /\ UNCHANGED <<now, registered, lastAuthAt, session, cred>>

VaultUnlockGuard(r) ==
  /\ req[r].step = "vaultGuard"
  /\ \/ (req[r].user \notin unlocked \/ req[r].op = "list") /\ Finish(r)
     \/ /\ req[r].user \in unlocked
        /\ req[r].op # "list"
        /\ Advance(r, "reAuthGuard")
  /\ UNCHANGED <<now, registered, lastAuthAt, session, cred, unlocked>>

ReAuthGuard(r) ==
  /\ req[r].step = "reAuthGuard"
  /\ \/ ~ReAuthFresh(req[r].user) /\ Finish(r)
     \/ /\ ReAuthFresh(req[r].user)
        /\ Advance(r, IF req[r].op = "create" THEN "useKey" ELSE "findOwned")
  /\ UNCHANGED <<now, registered, lastAuthAt, session, cred, unlocked>>

\* Mutant of Owns: the query filters by id alone.
AnyOwner(u, c) == Stored(c)

\* Does the query WHERE id = c AND userId = u return a row?
Owns(u, c) == Stored(c) /\ cred[c].owner = u

FindOwnedCredential(r) ==
  /\ req[r].step = "findOwned"
  /\ LET q == req[r] IN
     \/ ~Owns(q.user, q.cred) /\ Finish(r)
     \/ /\ Owns(q.user, q.cred)
        /\ req' = [req EXCEPT ![r].row = cred[q.cred],
                     ![r].step = IF q.op = "delete" THEN "write" ELSE "useKey"]
  /\ UNCHANGED <<now, registered, lastAuthAt, session, cred, unlocked>>

\* requireVaultKey and, in the same turn of the event loop, decrypt (reveal)
\* or encrypt (create, update).  Decryption authenticates: a row sealed with
\* another key is answered 422.
KeyUsable(q) ==
  /\ q.user \in unlocked
  /\ q.op = "reveal" => q.row.seal = q.user

UseKey(r) ==
  /\ req[r].step = "useKey"
  /\ \/ ~KeyUsable(req[r]) /\ Finish(r)
     \/ /\ KeyUsable(req[r])
        /\ Advance(r, IF req[r].op = "reveal" THEN "reply" ELSE "write")
  /\ UNCHANGED <<now, registered, lastAuthAt, session, cred, unlocked>>

\* The row as the statement leaves it.  UPDATE and DELETE address it by id
\* alone and fail when it is gone; an update without a new password keeps the
\* ciphertext it has.
Written(q, c) ==
  \/ q.op = "create" /\ cred[c] = Unused
     /\ cred' = [cred EXCEPT ![c] = [owner |-> q.user, seal |-> q.user]]
  \/ q.op = "update" /\ c = q.cred /\ Stored(c)
     /\ cred' = [cred EXCEPT ![c].seal = q.user]
  \/ q.op = "delete" /\ c = q.cred /\ Stored(c)
     /\ cred' = [cred EXCEPT ![c] = Deleted]

WriteCredential(r) ==
  /\ req[r].step = "write"
  /\ (\E c \in Creds : Written(req[r], c)) \/ UNCHANGED cred
  /\ Finish(r)
  /\ UNCHANGED <<now, registered, lastAuthAt, session, unlocked>>

\* The plaintext leaves the process.
Reply(r) ==
  /\ req[r].step = "reply"
  /\ Finish(r)
  /\ UNCHANGED <<now, registered, lastAuthAt, session, cred, unlocked>>

-----------------------------------------------------------------------------
\* The environment.

\* A rejected database call (or hash) ends the handler where it stands (500);
\* what it has already written stays.  These steps await nothing of their own.
Synchronous == {"idle", "vaultGuard", "useKey", "reply"}

Fail(r) ==
  /\ req[r].step \notin Synchronous
  /\ Finish(r)
  /\ UNCHANGED <<now, registered, lastAuthAt, session, cred, unlocked>>

Tick ==
  /\ now < MaxTime
  /\ now' = now + 1
  /\ UNCHANGED <<registered, lastAuthAt, session, cred, unlocked, req>>

\* The process restarts: keys and requests were only in memory.
Restart ==
  /\ unlocked' = {}
  /\ req' = [r \in Requests |-> Idle]
  /\ UNCHANGED <<now, registered, lastAuthAt, session, cred>>

\* The steps a request takes once it has arrived.
Progress(r) ==
  \/ FindActiveByJwtId(r) \/ FingerprintMismatch(r) \/ TouchSession(r)
  \/ CheckPassword(r) \/ TouchAuth(r) \/ CreateSession(r)
  \/ LogoutRevoke(r) \/ ClearKey(r) \/ DeriveKey(r)
  \/ VaultUnlockGuard(r) \/ ReAuthGuard(r) \/ FindOwnedCredential(r)
  \/ UseKey(r) \/ WriteCredential(r) \/ Reply(r)

Arrive(r) ==
  \/ \E u, p \in Users, d \in Devices : Login(r, u, p, d)
  \/ \E j \in Jtis : Logout(r, j)
  \/ \E op \in Ops, j \in Jtis, d \in Devices, p \in Users \cup {None},
       c \in Creds \cup {None} : Call(r, op, j, d, p, c)

Next ==
  \/ Tick
  \/ Restart
  \/ \E u \in Users : Register(u)
  \/ \E r \in Requests : Arrive(r) \/ Progress(r) \/ Fail(r)

Spec == Init /\ [][Next]_vars

\* The event loop resumes every handler whose await has settled.
FairSpec == Spec /\ \A r \in Requests : WF_vars(Progress(r))
-----------------------------------------------------------------------------
\* Properties.

\* A guarded request that got past the session lookup.
Authorised(q) == /\ q.op \in AuthOps \cup VaultOps
                 /\ q.step \notin {"idle", "lookup", "mismatch"}

\* A session that was revoked or had expired when a request arrived never
\* carries that request past JwtStrategy.validate, however long the request
\* waits and whatever other requests do to the table meanwhile.
EndedSessionsStayOut ==
  \A r \in Requests : Authorised(req[r]) => req[r].live

\* With strict fingerprints no request is served under a session that was
\* created from another IP address or user agent.
BoundToDevice ==
  Strict => \A r \in Requests :
    Authorised(req[r]) => session[req[r].jti].device = req[r].device

\* A session row exists only for an account whose lastAuthAt is set: login
\* writes lastAuthAt first, so a crash between its two writes never leaves a
\* session for which ReAuthGuard and the profile have no authentication time.
SessionHasAuthTime ==
  \A j \in Jtis : session[j] # None => lastAuthAt[session[j].user] # Never

\* Every ciphertext in the table is sealed with its owner's key, so nobody
\* loses a credential to a write made under another account.
CredentialsSealedByOwner ==
  \A c \in Creds : Stored(c) => cred[c].seal = cred[c].owner

\* A plaintext about to be sent belongs to the session's user, was decrypted
\* with that user's key, and answers a request whose session was live.
PlaintextGoesToOwner ==
  \A r \in Requests : req[r].step = "reply" =>
    /\ req[r].row = [owner |-> req[r].user, seal |-> req[r].user]
    /\ req[r].live

\* A key enters memory only for a request that arrived with a live session of
\* that user and gave that user's password: an unlock waits for the session, the
\* password and the derivation, while logouts, locks and restarts go on
\* (vault.service.ts:44-75).
VaultOpenedByOwner ==
  [][\A u \in unlocked' \ unlocked :
       \E r \in Requests : /\ req[r].op = "unlock"
                           /\ req[r].live
                           /\ req[r].user = u
                           /\ req[r].pw = u]_vars

\* Every request is answered: no guard or handler parks one forever.
RequestsFinish ==
  \A r \in Requests : req[r].step # "idle" ~> req[r].step = "idle"

\* The abstract contract: see AccessPromise.
Status(j) == IF session[j] = None THEN "unused"
             ELSE IF Active(j) THEN "active" ELSE "ended"

Promise == INSTANCE AccessPromise
             WITH status <- [j \in Jtis |-> Status(j)],
                  holder <- [j \in Jtis |->
                    IF session[j] = None THEN None ELSE session[j].user]

KeepsPromise == Promise!Spec
=============================================================================
