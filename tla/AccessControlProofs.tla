------------------------ MODULE AccessControlProofs ------------------------
(***************************************************************************)
(* The invariants of AccessControl hold for any number of users, sessions, *)
(* devices, credentials and requests, any durations, either fingerprint    *)
(* mode and any set of endpoints.                                          *)
(***************************************************************************)
EXTENDS AccessControl, TLAPS

GuardedOps == AuthOps \cup VaultOps

\* Which endpoints can be parked at which await, and what they carry there.
StepFitsOp(q) ==
  /\ q.step = "idle" <=> q.op = None
  /\ q.op # None => q.user \in Users
  /\ q.op \in {"login"} \cup GuardedOps => q.device \in Devices
  /\ q.op \in NamesCred => q.cred \in Creds
  /\ q.step \in {"lookup", "mismatch", "touchSession"} => q.op \in GuardedOps
  /\ q.step = "checkPassword" => q.op \in {"login"} \cup AsksPassword
  /\ q.step = "touchAuth" => q.op \in {"login"} \cup AsksPassword
  /\ q.step = "createSession" => q.op = "login"
  /\ q.step = "deriveKey" => q.op = "unlock" /\ q.pw = q.user
  /\ q.step = "revoke" => q.op = "logout"
  /\ q.step = "clearKey" => q.op \in {"logout", "lock"}
  /\ q.step = "vaultGuard" => q.op \in UnlockGuarded
  /\ q.step = "reAuthGuard" => q.op \in ReAuthGuarded
  /\ q.step = "findOwned" => q.op \in NamesCred
  /\ q.step = "useKey" => q.op \in {"reveal", "create", "update"}
  /\ q.step = "write" => q.op \in {"create", "update", "delete"}
  /\ q.step = "reply" => q.op = "reveal"

\* The token a request presents was issued to the request's user.
TokenIssued(q) ==
  q.op \notin {None, "login"} =>
    /\ q.jti \in Jtis
    /\ session[q.jti] # None
    /\ session[q.jti].user = q.user

\* Past the lookup a request is live; before it, it is live if its session is.
LiveOnArrival(q) ==
  q.op \in GuardedOps /\ (q.step # "lookup" \/ Active(q.jti)) => q.live

DeviceMatches(q) ==
  Strict /\ Authorised(q) => session[q.jti].device = q.device

LoginWroteAuthTime(q) ==
  q.step = "createSession" => lastAuthAt[q.user] # Never

\* The row a request read is the user's own, and its id is never another's.
RowIsOwn(q) ==
  q.op \in NamesCred /\ q.step \in {"useKey", "write", "reply"} =>
    /\ q.row = [owner |-> q.user, seal |-> q.user]
    /\ cred[q.cred] # Unused
    /\ Stored(q.cred) => cred[q.cred].owner = q.user

RequestInv(q) ==
  /\ StepFitsOp(q) /\ TokenIssued(q) /\ LiveOnArrival(q) /\ DeviceMatches(q)
  /\ LoginWroteAuthTime(q) /\ RowIsOwn(q)

IInv ==
  /\ TypeOK
  /\ SessionHasAuthTime
  /\ CredentialsSealedByOwner
  /\ \A r \in Requests : RequestInv(req[r])
-----------------------------------------------------------------------------
\* What every step leaves true of the tables for the requests that do not move.
Rely ==
  /\ now \in Nat /\ now' \in Nat /\ now <= now'
  /\ \A j \in Jtis : session[j] # None =>
       /\ session'[j] # None
       /\ session'[j].user = session[j].user
       /\ session'[j].device = session[j].device
       /\ Active(j)' => Active(j)
  /\ \A u \in Users : lastAuthAt[u] # Never => lastAuthAt'[u] # Never
  /\ \A c \in Creds : cred[c] # Unused =>
       /\ cred'[c] # Unused
       /\ Stored(c)' => Stored(c) /\ cred'[c].owner = cred[c].owner

\* The fields of rows and requests, and that None is none of them.
LEMMA NoneIsNoValue ==
  /\ None \notin Users /\ None \notin Jtis /\ None \notin SessionRow
  /\ None \notin CredRow /\ Unused \notin CredRow /\ Deleted \notin CredRow
  /\ Unused # Deleted
  /\ None \notin {"login", "logout"} \cup GuardedOps
BY ConstantsOK DEF AllOps, GuardedOps

\* Steps that leave the tables alone satisfy Rely.
LEMMA RelyOnUnchanged ==
  ASSUME TypeOK, UNCHANGED <<now, lastAuthAt, session, cred>>
  PROVE  Rely
BY DEF Rely, TypeOK, Active, Stored, Time

\* Revoking a session or recording its last verification keeps what others
\* rely on.
LEMMA RelyOnSession ==
  ASSUME TypeOK, UNCHANGED <<now, lastAuthAt, cred>>, NEW j \in Jtis,
         session[j] # None,
         \/ session' = [session EXCEPT ![j].revoked = TRUE]
         \/ session' = [session EXCEPT ![j].verified = now]
  PROVE  /\ Rely
         /\ session' \in [Jtis -> SessionRow \cup {None}]
<1>1. session[j] \in SessionRow
  BY DEF TypeOK
<1>2. /\ session'[j] \in SessionRow
      /\ session'[j].user = session[j].user
      /\ session'[j].device = session[j].device
      /\ session'[j].expires = session[j].expires
      /\ session[j].revoked => session'[j].revoked
  <2>1. CASE session' = [session EXCEPT ![j].revoked = TRUE]
    <3>1. session'[j] = [session[j] EXCEPT !.revoked = TRUE]
      BY <2>1 DEF TypeOK
    <3>2. QED
      BY <1>1, <3>1 DEF SessionRow
  <2>2. CASE session' = [session EXCEPT ![j].verified = now]
    <3>1. session'[j] = [session[j] EXCEPT !.verified = now]
      BY <2>2 DEF TypeOK
    <3>2. QED
      BY <1>1, <3>1 DEF SessionRow, TypeOK
  <2>3. QED
    BY <2>1, <2>2
<1>3. \A k \in Jtis : k # j => session'[k] = session[k]
  BY DEF TypeOK
<1>4. session' \in [Jtis -> SessionRow \cup {None}]
  BY <1>2, <1>3 DEF TypeOK
<1>5. \A k \in Jtis : session[k] # None =>
        /\ session'[k] # None
        /\ session'[k].user = session[k].user
        /\ session'[k].device = session[k].device
        /\ Active(k)' => Active(k)
  BY <1>1, <1>2, <1>3, NoneIsNoValue DEF Active
<1>6. QED
  BY <1>4, <1>5 DEF Rely, TypeOK, Stored, Time

\* A request that does not move keeps its invariant.
LEMMA Stable ==
  ASSUME IInv, Rely, NEW r \in Requests, req'[r] = req[r]
  PROVE  RequestInv(req[r])'
<1> DEFINE q == req[r]
<1>1. /\ req[r]' = req[r]
      /\ RequestInv(q)
      /\ q \in Request
  BY DEF IInv, TypeOK
<1>2. StepFitsOp(req[r])'
  BY <1>1 DEF RequestInv, StepFitsOp
<1>3. TokenIssued(req[r])'
  BY <1>1 DEF RequestInv, TokenIssued, Rely
<1>4. LiveOnArrival(req[r])'
  BY <1>1, NoneIsNoValue
     DEF RequestInv, LiveOnArrival, TokenIssued, Rely, GuardedOps, AuthOps,
         VaultOps
<1>5. DeviceMatches(req[r])'
  BY <1>1, NoneIsNoValue
     DEF RequestInv, DeviceMatches, TokenIssued, Rely, Authorised, StepFitsOp,
         GuardedOps, AuthOps, VaultOps
<1>6. LoginWroteAuthTime(req[r])'
  BY <1>1 DEF RequestInv, LoginWroteAuthTime, StepFitsOp, Rely
<1>7. RowIsOwn(req[r])'
  BY <1>1 DEF RequestInv, RowIsOwn, StepFitsOp, Rely, Stored
<1>8. QED
  BY <1>2, <1>3, <1>4, <1>5, <1>6, <1>7 DEF RequestInv
-----------------------------------------------------------------------------
\* How a request record moves.

\* An idle slot is a request record.
LEMMA IdleType == Idle \in Request /\ Idle.step = "idle" /\ Idle.op = None
BY DEF Idle, Request, Steps

\* Answering a request frees its slot and leaves the other slots alone.
LEMMA Finished ==
  ASSUME TypeOK, NEW r \in Requests, Finish(r)
  PROVE  /\ req' \in [Requests -> Request]
         /\ RequestInv(req[r])'
         /\ \A s \in Requests \ {r} : req'[s] = req[s]
<1>1. /\ req' \in [Requests -> Request]
      /\ req'[r] = Idle
      /\ \A s \in Requests \ {r} : req'[s] = req[s]
  BY IdleType DEF Finish, TypeOK
<1>2. req[r]'.step = "idle" /\ req[r]'.op = None
  BY <1>1, IdleType
<1>3. StepFitsOp(req[r])'
  BY <1>2, NoneIsNoValue DEF StepFitsOp, NamesCred, GuardedOps, AuthOps, VaultOps
<1>4. /\ TokenIssued(req[r])' /\ LiveOnArrival(req[r])'
      /\ DeviceMatches(req[r])' /\ LoginWroteAuthTime(req[r])'
      /\ RowIsOwn(req[r])'
  BY <1>2, NoneIsNoValue
     DEF TokenIssued, LiveOnArrival, DeviceMatches, LoginWroteAuthTime, RowIsOwn,
         Authorised, GuardedOps
<1>5. QED
  BY <1>1, <1>3, <1>4 DEF RequestInv

\* Continuing a request at another await changes its step and nothing else.
LEMMA Advanced ==
  ASSUME TypeOK, NEW r \in Requests, NEW s \in Steps, Advance(r, s)
  PROVE  /\ req' \in [Requests -> Request]
         /\ req'[r].step = s
         /\ req'[r].op = req[r].op /\ req'[r].user = req[r].user
         /\ req'[r].jti = req[r].jti /\ req'[r].device = req[r].device
         /\ req'[r].pw = req[r].pw /\ req'[r].cred = req[r].cred
         /\ req'[r].row = req[r].row /\ req'[r].live = req[r].live
         /\ \A t \in Requests \ {r} : req'[t] = req[t]
<1>1. req[r] \in Request
  BY DEF TypeOK
<1>2. req'[r] = [req[r] EXCEPT !.step = s]
  BY DEF Advance, TypeOK
<1>3. /\ req'[r] \in Request
      /\ req'[r].step = s
      /\ req'[r].op = req[r].op /\ req'[r].user = req[r].user
      /\ req'[r].jti = req[r].jti /\ req'[r].device = req[r].device
      /\ req'[r].pw = req[r].pw /\ req'[r].cred = req[r].cred
      /\ req'[r].row = req[r].row /\ req'[r].live = req[r].live
  BY <1>1, <1>2 DEF Request
<1>4. \A t \in Requests \ {r} : req'[t] = req[t]
  BY DEF Advance, TypeOK
<1>5. req' \in [Requests -> Request]
  BY <1>3, <1>4 DEF Advance, TypeOK
<1>6. QED
  BY <1>3, <1>4, <1>5

\* The invariant after a step of request r follows from that of the tables, of
\* r itself, and from Rely for everybody else.
LEMMA Combine ==
  ASSUME IInv, Rely, NEW r \in Requests,
         TypeOK', SessionHasAuthTime', CredentialsSealedByOwner',
         \A s \in Requests \ {r} : req'[s] = req[s],
         RequestInv(req[r])'
  PROVE  IInv'
<1>1. ASSUME NEW s \in Requests \ {r}
      PROVE  RequestInv(req[s])'
  BY Stable
<1>2. \A s \in Requests : RequestInv(req[s])'
  BY <1>1
<1>3. QED
  BY <1>2 DEF IInv

\* The case of a step that changes the request and, at most, the key cache.
LEMMA QuietStep ==
  ASSUME IInv, NEW r \in Requests,
         UNCHANGED <<now, registered, lastAuthAt, session, cred>>,
         unlocked' \subseteq Users,
         req' \in [Requests -> Request],
         \A s \in Requests \ {r} : req'[s] = req[s],
         RequestInv(req[r])'
  PROVE  IInv'
<1>1. TypeOK' /\ SessionHasAuthTime' /\ CredentialsSealedByOwner'
  BY DEF IInv, TypeOK, SessionHasAuthTime, CredentialsSealedByOwner, Stored
<1>2. Rely
  BY RelyOnUnchanged DEF IInv
<1>3. QED
  BY <1>1, <1>2, Combine

\* The case of a request that moves to another await and changes no table.
LEMMA QuietAdvance ==
  ASSUME IInv, NEW r \in Requests, NEW s \in Steps, Advance(r, s),
         UNCHANGED <<now, registered, lastAuthAt, session, cred>>,
         unlocked' \subseteq Users,
         s # "createSession",
         StepFitsOp(req[r])',
         req[r].op \in GuardedOps => req[r].live,
         Strict /\ req[r].op \in GuardedOps /\ s # "mismatch"
           => session[req[r].jti].device = req[r].device,
         s \in {"useKey", "write", "reply"} /\ req[r].op \in NamesCred
           => req[r].step = "useKey"
  PROVE  IInv'
<1>1. /\ req' \in [Requests -> Request]
      /\ req'[r].step = s
      /\ req'[r].op = req[r].op /\ req'[r].user = req[r].user
      /\ req'[r].jti = req[r].jti /\ req'[r].device = req[r].device
      /\ req'[r].pw = req[r].pw /\ req'[r].cred = req[r].cred
      /\ req'[r].row = req[r].row /\ req'[r].live = req[r].live
      /\ \A t \in Requests \ {r} : req'[t] = req[t]
  BY Advanced DEF IInv
<1>2. RequestInv(req[r])
  BY DEF IInv
<1>3. TokenIssued(req[r])'
  BY <1>1, <1>2 DEF RequestInv, TokenIssued
<1>4. LiveOnArrival(req[r])'
  BY <1>1 DEF LiveOnArrival
<1>5. DeviceMatches(req[r])'
  BY <1>1 DEF DeviceMatches, Authorised, GuardedOps
<1>6. LoginWroteAuthTime(req[r])'
  BY <1>1 DEF LoginWroteAuthTime
<1>7. RowIsOwn(req[r])'
  BY <1>1, <1>2 DEF RequestInv, RowIsOwn, Stored
<1>8. RequestInv(req[r])'
  BY <1>3, <1>4, <1>5, <1>6, <1>7 DEF RequestInv
<1>9. QED
  BY <1>1, <1>8, QuietStep

\* The case of an answer that changes no table.
LEMMA QuietFinish ==
  ASSUME IInv, NEW r \in Requests, Finish(r),
         UNCHANGED <<now, registered, lastAuthAt, session, cred>>,
         unlocked' \subseteq Users
  PROVE  IInv'
BY Finished, QuietStep DEF IInv

-----------------------------------------------------------------------------
\* One lemma per action.

\* A request that arrives starts with its invariant.
LEMMA ArriveStep ==
  ASSUME IInv, NEW r \in Requests, Arrive(r)
  PROVE  IInv'
<1>1. ASSUME NEW u \in Users, NEW p \in Users, NEW d \in Devices, Login(r, u, p, d)
      PROVE  IInv'
  <2>1. /\ req'[r] = [step |-> "checkPassword", op |-> "login", user |-> u,
                      jti |-> None, device |-> d, pw |-> p, cred |-> None,
                      row |-> None, live |-> FALSE]
        /\ \A s \in Requests \ {r} : req'[s] = req[s]
        /\ req' = [req EXCEPT ![r] = req'[r]]
    BY <1>1 DEF Login, IInv, TypeOK, Idle
  <2>2. "login" \in Ops
    BY <1>1 DEF Login
  <2>3. req'[r] \in Request
    BY <2>1, <2>2 DEF Request, Steps
  <2>4. req' \in [Requests -> Request]
    BY <2>1, <2>3 DEF IInv, TypeOK
  <2>5. RequestInv(req[r])'
    BY <2>1, NoneIsNoValue
       DEF RequestInv, StepFitsOp, TokenIssued, LiveOnArrival, DeviceMatches,
           LoginWroteAuthTime, RowIsOwn, Authorised, GuardedOps, AuthOps,
           VaultOps, NamesCred, AsksPassword
  <2>6. QED
    BY <1>1, <2>1, <2>4, <2>5, QuietStep DEF Login, IInv, TypeOK
<1>2. ASSUME NEW j \in Jtis, Logout(r, j)
      PROVE  IInv'
  <2>1. /\ req'[r] = [step |-> "revoke", op |-> "logout",
                      user |-> session[j].user, jti |-> j, device |-> None,
                      pw |-> None, cred |-> None, row |-> None,
                      live |-> ~Ended(j)]
        /\ \A s \in Requests \ {r} : req'[s] = req[s]
        /\ req' = [req EXCEPT ![r] = req'[r]]
        /\ session[j] # None /\ "logout" \in Ops
    BY <1>2 DEF Logout, IInv, TypeOK, Idle
  <2>2. session[j] \in SessionRow /\ session[j].user \in Users
    BY <2>1 DEF IInv, TypeOK, SessionRow
  <2>3. (~Ended(j)) \in BOOLEAN
    BY DEF Ended
  <2>4. req'[r] \in Request
    BY <2>1, <2>2, <2>3 DEF Request, Steps
  <2>5. req' \in [Requests -> Request]
    BY <2>1, <2>4 DEF IInv, TypeOK
  <2>6. RequestInv(req[r])'
    BY <1>2, <2>1, <2>2, NoneIsNoValue
       DEF RequestInv, StepFitsOp, TokenIssued, LiveOnArrival, DeviceMatches,
           LoginWroteAuthTime, RowIsOwn, Authorised, GuardedOps, AuthOps,
           VaultOps, NamesCred, AsksPassword, Logout
  <2>7. QED
    BY <1>2, <2>1, <2>5, <2>6, QuietStep DEF Logout, IInv, TypeOK
<1>3. ASSUME NEW op \in Ops, NEW j \in Jtis, NEW d \in Devices,
             NEW p \in Users \cup {None}, NEW c \in Creds \cup {None},
             Call(r, op, j, d, p, c)
      PROVE  IInv'
  <2>1. /\ req'[r] = [step |-> "lookup", op |-> op, user |-> session[j].user,
                      jti |-> j, device |-> d, pw |-> p, cred |-> c,
                      row |-> None, live |-> ~Ended(j)]
        /\ \A s \in Requests \ {r} : req'[s] = req[s]
        /\ req' = [req EXCEPT ![r] = req'[r]]
        /\ session[j] # None
        /\ op \in NamesCred => c \in Creds
    BY <1>3 DEF Call, IInv, TypeOK
  <2>2. session[j] \in SessionRow /\ session[j].user \in Users
    BY <2>1 DEF IInv, TypeOK, SessionRow
  <2>3. op \in GuardedOps
    BY <1>3, ConstantsOK DEF Call, GuardedOps, AllOps
  <2>4. (~Ended(j)) \in BOOLEAN
    BY DEF Ended
  <2>5. req'[r] \in Request
    BY <2>1, <2>2, <2>4 DEF Request, Steps
  <2>6. req' \in [Requests -> Request]
    BY <2>1, <2>5 DEF IInv, TypeOK
  <2>7. StepFitsOp(req[r])'
    BY <2>1, <2>2, <2>3, NoneIsNoValue DEF StepFitsOp
  <2>8. TokenIssued(req[r])' /\ LiveOnArrival(req[r])'
    <3>1. Active(j)' => ~Ended(j)
      BY <1>3, <2>2 DEF Active, Ended, Call, IInv, TypeOK, SessionRow, Time
    <3>2. req'[r].step = "lookup" /\ req'[r].jti = j /\ req'[r].live = ~Ended(j)
      BY <2>1
    <3>3. TokenIssued(req[r])'
      BY <1>3, <2>1, <3>2 DEF TokenIssued, Call
    <3>4. LiveOnArrival(req[r])'
      BY <3>1, <3>2 DEF LiveOnArrival, Active, Authorised
    <3>5. QED
      BY <3>3, <3>4
  <2>9. DeviceMatches(req[r])' /\ LoginWroteAuthTime(req[r])' /\ RowIsOwn(req[r])'
    BY <2>1 DEF DeviceMatches, Authorised, LoginWroteAuthTime, RowIsOwn
  <2>10. QED
    BY <1>3, <2>1, <2>6, <2>7, <2>8, <2>9, QuietStep
       DEF Call, IInv, TypeOK, RequestInv
<1>4. QED
  BY <1>1, <1>2, <1>3 DEF Arrive

\* findActiveByJwtId lets only a live session through, to the fingerprint check.
LEMMA LookupStep ==
  ASSUME IInv, NEW r \in Requests, FindActiveByJwtId(r)
  PROVE  IInv'
<1> DEFINE q == req[r]
<1>1. /\ q.step = "lookup"
      /\ RequestInv(q)
      /\ UNCHANGED <<now, registered, lastAuthAt, session, cred, unlocked>>
      /\ unlocked' \subseteq Users
  BY DEF FindActiveByJwtId, IInv, TypeOK
<1>2. q.op \in GuardedOps /\ (Active(q.jti) => q.live)
  BY <1>1 DEF RequestInv, StepFitsOp, LiveOnArrival
<1>3. CASE Finish(r)
  BY <1>1, <1>3, QuietFinish
<1>4. ASSUME NEW s \in {"touchSession", "mismatch"}, Advance(r, s), q.live,
             s = "touchSession" => session[q.jti].device = q.device
      PROVE  IInv'
  <2>1. s \in Steps
    BY DEF Steps
  <2>2. /\ req'[r].step = s
        /\ req'[r].op = q.op /\ req'[r].user = q.user
        /\ req'[r].device = q.device /\ req'[r].cred = q.cred
        /\ req'[r].pw = q.pw
    BY <1>4, <2>1, Advanced DEF IInv
  <2>3. StepFitsOp(req[r])'
    BY <1>1, <1>2, <2>2, NoneIsNoValue DEF RequestInv, StepFitsOp
  <2>4. QED
    BY <1>1, <1>2, <1>4, <2>1, <2>3, QuietAdvance
<1>5. QED
  BY <1>1, <1>2, <1>3, <1>4 DEF FindActiveByJwtId

\* A fingerprint mismatch never continues in strict mode.
LEMMA MismatchStep ==
  ASSUME IInv, NEW r \in Requests, FingerprintMismatch(r)
  PROVE  IInv'
<1> DEFINE q == req[r]
<1>1. /\ q.step = "mismatch"
      /\ RequestInv(q)
      /\ UNCHANGED <<now, registered, lastAuthAt, cred, unlocked>>
      /\ unlocked' \subseteq Users
  BY DEF FingerprintMismatch, IInv, TypeOK
<1>2. q.op \in GuardedOps /\ q.live /\ q.jti \in Jtis /\ session[q.jti] # None
  BY <1>1, NoneIsNoValue
     DEF RequestInv, StepFitsOp, LiveOnArrival, TokenIssued, GuardedOps, AuthOps,
         VaultOps
<1>3. CASE RevokeByJwtId(q.jti) /\ Finish(r)
  <2>1. Rely /\ session' \in [Jtis -> SessionRow \cup {None}]
    BY <1>1, <1>2, <1>3, RelyOnSession DEF RevokeByJwtId, IInv
  <2>2. /\ req' \in [Requests -> Request]
        /\ RequestInv(req[r])'
        /\ \A s \in Requests \ {r} : req'[s] = req[s]
    BY <1>3, Finished DEF IInv
  <2>3. TypeOK'
    BY <1>1, <2>1, <2>2 DEF IInv, TypeOK
  <2>4. SessionHasAuthTime'
    BY <1>1, <1>2, <1>3, NoneIsNoValue
       DEF IInv, TypeOK, SessionHasAuthTime, RevokeByJwtId, SessionRow
  <2>5. CredentialsSealedByOwner'
    BY <1>1 DEF IInv, CredentialsSealedByOwner, Stored
  <2>6. QED
    BY <2>1, <2>2, <2>3, <2>4, <2>5, Combine
<1>4. CASE ~Strict /\ Advance(r, "touchSession") /\ UNCHANGED session
  <2>1. "touchSession" \in Steps
    BY DEF Steps
  <2>2. /\ req'[r].step = "touchSession"
        /\ req'[r].op = q.op /\ req'[r].user = q.user
        /\ req'[r].device = q.device /\ req'[r].cred = q.cred
        /\ req'[r].pw = q.pw
    BY <1>4, <2>1, Advanced DEF IInv
  <2>3. StepFitsOp(req[r])'
    BY <1>1, <1>2, <2>2, NoneIsNoValue DEF RequestInv, StepFitsOp
  <2>4. QED
    BY <1>1, <1>2, <1>4, <2>1, <2>3, QuietAdvance
<1>5. QED
  BY <1>3, <1>4 DEF FingerprintMismatch

\* updateLastVerifiedAt changes no field another request relies on.
LEMMA TouchSessionStep ==
  ASSUME IInv, NEW r \in Requests, TouchSession(r)
  PROVE  IInv'
<1> DEFINE q == req[r]
<1>1. /\ q.step = "touchSession"
      /\ RequestInv(q)
      /\ UNCHANGED <<now, registered, lastAuthAt, cred, unlocked>>
      /\ session' = [session EXCEPT ![q.jti].verified = now]
  BY DEF TouchSession, IInv
<1>2. q.op \in GuardedOps /\ q.live /\ q.jti \in Jtis /\ session[q.jti] # None
  BY <1>1, NoneIsNoValue
     DEF RequestInv, StepFitsOp, LiveOnArrival, TokenIssued, GuardedOps, AuthOps,
         VaultOps
<1>3. Rely /\ session' \in [Jtis -> SessionRow \cup {None}]
  BY <1>1, <1>2, RelyOnSession DEF IInv
<1>4. /\ req' \in [Requests -> Request]
      /\ RequestInv(req[r])'
      /\ \A s \in Requests \ {r} : req'[s] = req[s]
  <2>1. CASE Finish(r)
    BY <2>1, Finished DEF IInv
  <2>2. ASSUME NEW s \in {"clearKey", "checkPassword", "vaultGuard", "reAuthGuard"},
               Advance(r, s),
               \/ s = "clearKey" /\ q.op = "lock"
               \/ s = "checkPassword" /\ q.op \in AsksPassword
               \/ s = "vaultGuard" /\ q.op \in UnlockGuarded
               \/ s = "reAuthGuard" /\ q.op = "delete"
        PROVE  <1>4!1 /\ <1>4!2 /\ <1>4!3
    <3>1. s \in Steps
      BY DEF Steps
    <3>2. /\ req' \in [Requests -> Request]
          /\ req'[r].step = s
          /\ req'[r].op = q.op /\ req'[r].user = q.user /\ req'[r].jti = q.jti
          /\ req'[r].device = q.device /\ req'[r].cred = q.cred
          /\ req'[r].pw = q.pw /\ req'[r].live = q.live
          /\ \A t \in Requests \ {r} : req'[t] = req[t]
      BY <2>2, <3>1, Advanced DEF IInv
    <3>3. StepFitsOp(req[r])'
      BY <1>1, <1>2, <2>2, <3>2, NoneIsNoValue
         DEF RequestInv, StepFitsOp, ReAuthGuarded
    <3>4. TokenIssued(req[r])' /\ LiveOnArrival(req[r])'
      BY <1>1, <1>2, <1>3, <3>2
         DEF RequestInv, TokenIssued, LiveOnArrival, Rely
    <3>5. DeviceMatches(req[r])'
      BY <1>1, <1>2, <1>3, <3>2
         DEF RequestInv, DeviceMatches, Authorised, Rely, GuardedOps
    <3>6. LoginWroteAuthTime(req[r])' /\ RowIsOwn(req[r])'
      BY <2>2, <3>2 DEF LoginWroteAuthTime, RowIsOwn
    <3>7. QED
      BY <3>2, <3>3, <3>4, <3>5, <3>6 DEF RequestInv
  <2>3. QED
    BY <2>1, <2>2 DEF TouchSession, EnterHandler
<1>5. TypeOK'
  BY <1>1, <1>3, <1>4 DEF IInv, TypeOK
<1>6. SessionHasAuthTime'
  BY <1>1, <1>2, NoneIsNoValue DEF IInv, TypeOK, SessionHasAuthTime, SessionRow
<1>7. CredentialsSealedByOwner'
  BY <1>1 DEF IInv, CredentialsSealedByOwner, Stored
<1>8. QED
  BY <1>3, <1>4, <1>5, <1>6, <1>7, Combine

\* The awaits whose resumption only moves or answers the request: the password
\* check, the key derivation, the vault guards and the use of the key.
LEMMA GuardStep ==
  ASSUME IInv, NEW r \in Requests,
         \/ CheckPassword(r) \/ DeriveKey(r) \/ VaultUnlockGuard(r)
         \/ ReAuthGuard(r) \/ UseKey(r)
  PROVE  IInv'
<1> DEFINE q == req[r]
<1>1. /\ RequestInv(q)
      /\ q.step \in {"checkPassword", "deriveKey", "vaultGuard", "reAuthGuard",
                     "useKey"}
      /\ UNCHANGED <<now, registered, lastAuthAt, session, cred>>
  BY DEF CheckPassword, DeriveKey, VaultUnlockGuard, ReAuthGuard, UseKey, IInv
<1>2. unlocked' \subseteq Users
  BY <1>1 DEF CheckPassword, DeriveKey, VaultUnlockGuard, ReAuthGuard, UseKey,
              IInv, TypeOK, RequestInv, StepFitsOp
<1>3. CASE Finish(r)
  BY <1>1, <1>2, <1>3, QuietFinish
<1>4. ASSUME NEW s \in {"deriveKey", "touchAuth", "reAuthGuard", "useKey",
                        "findOwned", "reply", "write"},
             Advance(r, s),
             \/ s = "deriveKey" /\ q.op = "unlock" /\ q.pw = q.user
             \/ s = "touchAuth" /\ q.op \in {"login"} \cup AsksPassword
             \/ s = "reAuthGuard" /\ q.op \in ReAuthGuarded
             \/ s = "useKey" /\ q.op = "create"
             \/ s = "findOwned" /\ q.op \in NamesCred
             \/ s = "reply" /\ q.op = "reveal" /\ q.step = "useKey"
             \/ s = "write" /\ q.op \in {"create", "update"} /\ q.step = "useKey"
      PROVE  IInv'
  <2>1. s \in Steps
    BY DEF Steps
  <2>2. /\ req'[r].step = s
        /\ req'[r].op = q.op /\ req'[r].user = q.user
        /\ req'[r].device = q.device /\ req'[r].cred = q.cred
        /\ req'[r].pw = q.pw
    BY <1>4, <2>1, Advanced DEF IInv
  <2>3. StepFitsOp(req[r])'
    BY <1>1, <1>4, <2>2, NoneIsNoValue DEF RequestInv, StepFitsOp
  <2>4. q.op \in GuardedOps => q.live
    BY <1>1 DEF RequestInv, LiveOnArrival
  <2>5. Strict /\ q.op \in GuardedOps => session[q.jti].device = q.device
    BY <1>1 DEF RequestInv, DeviceMatches, Authorised, GuardedOps
  <2>6. s \in {"useKey", "write", "reply"} /\ q.op \in NamesCred
          => q.step = "useKey"
    BY <1>4 DEF NamesCred
  <2>7. QED
    BY <1>1, <1>2, <1>4, <2>1, <2>3, <2>4, <2>5, <2>6, QuietAdvance
<1>5. CASE CheckPassword(r)
  BY <1>1, <1>3, <1>4, <1>5
     DEF CheckPassword, RequestInv, StepFitsOp, PasswordValid, AsksPassword
<1>6. CASE DeriveKey(r)
  BY <1>1, <1>4, <1>6 DEF DeriveKey, RequestInv, StepFitsOp, AsksPassword
<1>7. CASE VaultUnlockGuard(r)
  BY <1>1, <1>3, <1>4, <1>7
     DEF VaultUnlockGuard, RequestInv, StepFitsOp, UnlockGuarded, ReAuthGuarded
<1>8. CASE ReAuthGuard(r)
  BY <1>1, <1>3, <1>4, <1>8
     DEF ReAuthGuard, RequestInv, StepFitsOp, ReAuthGuarded, NamesCred
<1>9. CASE UseKey(r)
  BY <1>1, <1>3, <1>4, <1>9 DEF UseKey, RequestInv, StepFitsOp
<1>10. QED
  BY <1>5, <1>6, <1>7, <1>8, <1>9

\* updateLastAuthAt only ever sets the field.
LEMMA TouchAuthStep ==
  ASSUME IInv, NEW r \in Requests, TouchAuth(r)
  PROVE  IInv'
<1> DEFINE q == req[r]
<1>1. /\ q.step = "touchAuth" /\ q.op \in {"login"} \cup AsksPassword
      /\ q.user \in Users
      /\ RequestInv(q)
      /\ lastAuthAt' = [lastAuthAt EXCEPT ![q.user] = now]
      /\ UNCHANGED <<now, registered, session, cred, unlocked>>
  BY NoneIsNoValue
     DEF TouchAuth, IInv, RequestInv, StepFitsOp, GuardedOps, AuthOps, VaultOps,
         AsksPassword
<1>2. now \in Nat /\ now # Never
  BY DEF IInv, TypeOK, Time, Never
<1>3. /\ lastAuthAt' \in [Users -> Time \cup {Never}]
      /\ lastAuthAt'[q.user] # Never
      /\ \A u \in Users : lastAuthAt[u] # Never => lastAuthAt'[u] # Never
  BY <1>1, <1>2 DEF IInv, TypeOK
<1>4. Rely
  BY <1>1, <1>2, <1>3 DEF Rely, Active, Stored, IInv, TypeOK
<1>5. /\ req' \in [Requests -> Request]
      /\ RequestInv(req[r])'
      /\ \A s \in Requests \ {r} : req'[s] = req[s]
  <2>1. CASE Finish(r)
    BY <2>1, Finished DEF IInv
  <2>2. CASE q.op = "login" /\ Advance(r, "createSession")
    <3>1. "createSession" \in Steps
      BY DEF Steps
    <3>2. /\ req' \in [Requests -> Request]
          /\ req'[r].step = "createSession"
          /\ req'[r].op = "login" /\ req'[r].user = q.user
          /\ req'[r].device = q.device
          /\ \A t \in Requests \ {r} : req'[t] = req[t]
      BY <2>2, <3>1, Advanced DEF IInv
    <3>3. StepFitsOp(req[r])'
      BY <1>1, <2>2, <3>2, NoneIsNoValue
         DEF RequestInv, StepFitsOp, NamesCred
    <3>4. /\ TokenIssued(req[r])' /\ LiveOnArrival(req[r])'
          /\ DeviceMatches(req[r])' /\ RowIsOwn(req[r])'
      BY <3>2 DEF TokenIssued, LiveOnArrival, DeviceMatches, RowIsOwn, Authorised,
                  GuardedOps, AuthOps, VaultOps
    <3>5. LoginWroteAuthTime(req[r])'
      BY <1>3, <3>2 DEF LoginWroteAuthTime
    <3>6. QED
      BY <3>2, <3>3, <3>4, <3>5 DEF RequestInv
  <2>3. QED
    BY <2>1, <2>2 DEF TouchAuth
<1>6. TypeOK'
  BY <1>1, <1>3, <1>5 DEF IInv, TypeOK
<1>7. SessionHasAuthTime'
  BY <1>1, <1>3 DEF IInv, TypeOK, SessionHasAuthTime, SessionRow
<1>8. CredentialsSealedByOwner'
  BY <1>1 DEF IInv, CredentialsSealedByOwner, Stored
<1>9. QED
  BY <1>4, <1>5, <1>6, <1>7, <1>8, Combine

\* A new session has an unused id and a user with an authentication time.
LEMMA CreateSessionStep ==
  ASSUME IInv, NEW r \in Requests, CreateSession(r)
  PROVE  IInv'
<1> DEFINE q == req[r]
<1>1. /\ q.step = "createSession" /\ q.op = "login"
      /\ q.user \in Users /\ q.device \in Devices
      /\ lastAuthAt[q.user] # Never
      /\ Finish(r)
      /\ UNCHANGED <<now, registered, lastAuthAt, cred, unlocked>>
  BY NoneIsNoValue
     DEF CreateSession, IInv, RequestInv, StepFitsOp, LoginWroteAuthTime
<1>2. CASE UNCHANGED session
  BY <1>1, <1>2, QuietFinish DEF IInv, TypeOK
<1>3. ASSUME NEW j \in Jtis, session[j] = None,
             session' = [session EXCEPT ![j] =
               [user |-> q.user, device |-> q.device,
                expires |-> now + SessionTtl, revoked |-> FALSE,
                verified |-> now]]
      PROVE  IInv'
  <2>1. /\ session'[j] \in SessionRow
        /\ session'[j].user = q.user
    <3>1. now \in Nat /\ now + SessionTtl \in Nat
      BY ConstantsOK DEF IInv, TypeOK, Time
    <3>2. QED
      BY <1>1, <1>3, <3>1 DEF IInv, TypeOK, SessionRow
  <2>2. \A k \in Jtis : k # j => session'[k] = session[k]
    BY <1>3 DEF IInv, TypeOK
  <2>3. Rely
    BY <1>1, <1>3, <2>2 DEF Rely, Active, Stored, IInv, TypeOK, Time
  <2>4. /\ req' \in [Requests -> Request]
        /\ RequestInv(req[r])'
        /\ \A s \in Requests \ {r} : req'[s] = req[s]
    BY <1>1, Finished DEF IInv
  <2>5. TypeOK'
    BY <1>1, <1>3, <2>1, <2>2, <2>4 DEF IInv, TypeOK
  <2>6. SessionHasAuthTime'
    BY <1>1, <2>1, <2>2 DEF IInv, SessionHasAuthTime
  <2>7. CredentialsSealedByOwner'
    BY <1>1 DEF IInv, CredentialsSealedByOwner, Stored
  <2>8. QED
    BY <2>3, <2>4, <2>5, <2>6, <2>7, Combine
<1>4. QED
  BY <1>2, <1>3 DEF CreateSession

\* Revoking a session keeps what other requests rely on.
LEMMA LogoutRevokeStep ==
  ASSUME IInv, NEW r \in Requests, LogoutRevoke(r)
  PROVE  IInv'
<1> DEFINE q == req[r]
<1>1. /\ q.step = "revoke" /\ q.op = "logout"
      /\ RequestInv(q)
      /\ q.jti \in Jtis /\ session[q.jti] # None
      /\ session' = [session EXCEPT ![q.jti].revoked = TRUE]
      /\ Advance(r, "clearKey")
      /\ UNCHANGED <<now, registered, lastAuthAt, cred, unlocked>>
  BY NoneIsNoValue
     DEF LogoutRevoke, RevokeByJwtId, IInv, RequestInv, StepFitsOp, TokenIssued
<1>2. Rely /\ session' \in [Jtis -> SessionRow \cup {None}]
  BY <1>1, RelyOnSession DEF IInv
<1>3. "clearKey" \in Steps
  BY DEF Steps
<1>4. /\ req' \in [Requests -> Request]
      /\ req'[r].step = "clearKey"
      /\ req'[r].op = "logout" /\ req'[r].user = q.user /\ req'[r].jti = q.jti
      /\ \A t \in Requests \ {r} : req'[t] = req[t]
  BY <1>1, <1>3, Advanced DEF IInv
<1>5. RequestInv(req[r])'
  BY <1>1, <1>2, <1>4, NoneIsNoValue
     DEF RequestInv, StepFitsOp, TokenIssued, LiveOnArrival, DeviceMatches,
         LoginWroteAuthTime, RowIsOwn, Authorised, GuardedOps, AuthOps, VaultOps,
         NamesCred, Rely
<1>6. TypeOK'
  BY <1>1, <1>2, <1>4 DEF IInv, TypeOK
<1>7. SessionHasAuthTime'
  BY <1>1, NoneIsNoValue DEF IInv, TypeOK, SessionHasAuthTime, SessionRow
<1>8. CredentialsSealedByOwner'
  BY <1>1 DEF IInv, CredentialsSealedByOwner, Stored
<1>9. QED
  BY <1>2, <1>4, <1>5, <1>6, <1>7, <1>8, Combine

\* The answers that change at most the key cache.
LEMMA AnswerStep ==
  ASSUME IInv, NEW r \in Requests, ClearKey(r) \/ Reply(r) \/ Fail(r)
  PROVE  IInv'
BY QuietFinish DEF ClearKey, Reply, Fail, IInv, TypeOK

\* The row a request reads is its own and sealed by it.
LEMMA FindOwnedStep ==
  ASSUME IInv, NEW r \in Requests, FindOwnedCredential(r)
  PROVE  IInv'
<1> DEFINE q == req[r]
<1>1. /\ q.step = "findOwned" /\ q.op \in NamesCred /\ q.cred \in Creds
      /\ RequestInv(q) /\ q \in Request
      /\ unlocked' \subseteq Users
      /\ UNCHANGED <<now, registered, lastAuthAt, session, cred, unlocked>>
  BY DEF FindOwnedCredential, IInv, TypeOK, RequestInv, StepFitsOp
<1>2. CASE Finish(r)
  BY <1>1, <1>2, QuietFinish
<1>3. ASSUME NEW s \in {"write", "useKey"}, Owns(q.user, q.cred),
             req' = [req EXCEPT ![r] = [req[r] EXCEPT !.row = cred[q.cred],
                                                      !.step = s]],
             s = IF q.op = "delete" THEN "write" ELSE "useKey"
      PROVE  IInv'
  <2>1. /\ cred[q.cred] \in CredRow
        /\ cred[q.cred].owner = q.user /\ cred[q.cred].seal = q.user
    BY <1>1, <1>3 DEF Owns, Stored, IInv, CredentialsSealedByOwner
  <2>2. cred[q.cred] = [owner |-> q.user, seal |-> q.user]
    BY <2>1 DEF CredRow
  <2>3. req'[r] = [req[r] EXCEPT !.row = cred[q.cred], !.step = s]
    BY <1>3 DEF IInv, TypeOK
  <2>4. /\ req'[r] \in Request
        /\ req'[r].step = s /\ req'[r].row = cred[q.cred]
        /\ req'[r].op = q.op /\ req'[r].user = q.user /\ req'[r].jti = q.jti
        /\ req'[r].device = q.device /\ req'[r].pw = q.pw
        /\ req'[r].cred = q.cred /\ req'[r].live = q.live
    BY <1>1, <2>1, <2>3 DEF Request, Steps
  <2>5. /\ req' \in [Requests -> Request]
        /\ \A t \in Requests \ {r} : req'[t] = req[t]
    BY <1>3, <2>3, <2>4 DEF IInv, TypeOK
  <2>6. StepFitsOp(req[r])'
    BY <1>1, <1>3, <2>4, NoneIsNoValue DEF RequestInv, StepFitsOp, NamesCred
  <2>7. /\ TokenIssued(req[r])' /\ LiveOnArrival(req[r])'
        /\ DeviceMatches(req[r])' /\ LoginWroteAuthTime(req[r])'
    BY <1>1, <2>4
       DEF RequestInv, TokenIssued, LiveOnArrival, DeviceMatches, Authorised,
           LoginWroteAuthTime
  <2>8. RowIsOwn(req[r])'
    BY <1>1, <2>1, <2>2, <2>4, NoneIsNoValue DEF RowIsOwn, Stored
  <2>9. QED
    BY <1>1, <2>5, <2>6, <2>7, <2>8, QuietStep DEF RequestInv
<1>4. QED
  BY <1>1, <1>2, <1>3 DEF FindOwnedCredential

\* Only the table of credentials moves: ids are never reused and an update
\* keeps the owner.
LEMMA WriteStep ==
  ASSUME IInv, NEW r \in Requests, WriteCredential(r)
  PROVE  IInv'
<1> DEFINE q == req[r]
<1>1. /\ q.step = "write" /\ q.op \in {"create", "update", "delete"}
      /\ q.user \in Users
      /\ RequestInv(q)
      /\ Finish(r)
      /\ UNCHANGED <<now, registered, lastAuthAt, session, unlocked>>
  BY NoneIsNoValue
     DEF WriteCredential, IInv, RequestInv, StepFitsOp, GuardedOps, VaultOps
<1>2. CASE UNCHANGED cred
  BY <1>1, <1>2, QuietFinish DEF IInv, TypeOK
<1>3. ASSUME NEW c \in Creds, Written(q, c)
      PROVE  IInv'
  <2>1. /\ cred' \in [Creds -> CredRow \cup {Unused, Deleted}]
        /\ \A k \in Creds : k # c => cred'[k] = cred[k]
        /\ cred[c] # Unused =>
             /\ cred'[c] # Unused
             /\ cred'[c] \in CredRow => /\ cred[c] \in CredRow
                                        /\ cred'[c].owner = cred[c].owner
        /\ cred'[c] \in CredRow => cred'[c].seal = cred'[c].owner
    <3>1. CASE q.op = "create"
      <4>1. cred[c] = Unused
        BY <1>3, <3>1 DEF Written
      <4>2. cred' = [cred EXCEPT ![c] = [owner |-> q.user, seal |-> q.user]]
        BY <1>3, <3>1 DEF Written
      <4>3. QED
        BY <1>1, <4>1, <4>2 DEF IInv, TypeOK, CredRow
    <3>2. CASE q.op = "update"
      <4>1. /\ c = q.cred /\ cred[c] \in CredRow
            /\ cred' = [cred EXCEPT ![c].seal = q.user]
        BY <1>3, <3>2 DEF Written, Stored
      <4>2. cred[c].owner = q.user
        BY <1>1, <3>2, <4>1 DEF RequestInv, RowIsOwn, NamesCred, Stored
      <4>3. /\ cred'[c] = [cred[c] EXCEPT !.seal = q.user]
            /\ \A k \in Creds : k # c => cred'[k] = cred[k]
        BY <4>1 DEF IInv, TypeOK
      <4>4. /\ cred'[c] \in CredRow
            /\ cred'[c].seal = q.user /\ cred'[c].owner = q.user
        BY <1>1, <4>1, <4>2, <4>3 DEF CredRow
      <4>5. QED
        BY <4>1, <4>2, <4>3, <4>4, NoneIsNoValue DEF IInv, TypeOK
    <3>3. CASE q.op = "delete"
      BY <1>3, <3>3, NoneIsNoValue DEF Written, IInv, TypeOK, Stored
    <3>4. QED
      BY <1>1, <3>1, <3>2, <3>3
  <2>2. Rely
    BY <1>1, <2>1 DEF Rely, Active, Stored, IInv, TypeOK, Time
  <2>3. /\ req' \in [Requests -> Request]
        /\ RequestInv(req[r])'
        /\ \A s \in Requests \ {r} : req'[s] = req[s]
    BY <1>1, Finished DEF IInv
  <2>4. TypeOK'
    BY <1>1, <2>1, <2>3 DEF IInv, TypeOK
  <2>5. SessionHasAuthTime'
    BY <1>1 DEF IInv, SessionHasAuthTime
  <2>6. CredentialsSealedByOwner'
    BY <2>1 DEF IInv, CredentialsSealedByOwner, Stored
  <2>7. QED
    BY <1>1, <2>2, <2>3, <2>4, <2>5, <2>6, Combine
<1>4. QED
  BY <1>2, <1>3 DEF WriteCredential

\* The steps above, together.
LEMMA ProgressStep ==
  ASSUME IInv, NEW r \in Requests, Progress(r)
  PROVE  IInv'
BY LookupStep, MismatchStep, TouchSessionStep, GuardStep, TouchAuthStep,
   CreateSessionStep, LogoutRevokeStep, AnswerStep, FindOwnedStep, WriteStep
   DEF Progress

\* Steps of the environment that move no request, and the restart.
LEMMA EnvironmentStep ==
  ASSUME IInv, Tick \/ Restart \/ (\E u \in Users : Register(u))
  PROVE  IInv'
<1>1. CASE UNCHANGED req /\ (Tick \/ \E u \in Users : Register(u))
  <2>1. Rely
    <3>1. /\ now \in Nat /\ now' \in Nat /\ now <= now'
          /\ UNCHANGED <<lastAuthAt, session, cred>>
      BY <1>1 DEF Tick, Register, IInv, TypeOK, Time
    <3>2. \A j \in Jtis : session[j] # None => (Active(j)' => Active(j))
      <4>1. \A j \in Jtis : session[j] # None => session[j].expires \in Nat
        BY DEF IInv, TypeOK, SessionRow
      <4>2. QED
        BY <3>1, <4>1 DEF Active
    <3>3. QED
      BY <3>1, <3>2 DEF Rely, Stored
  <2>2. TypeOK' /\ SessionHasAuthTime' /\ CredentialsSealedByOwner'
    BY <1>1, ConstantsOK
       DEF Tick, Register, IInv, TypeOK, Time, SessionHasAuthTime,
           CredentialsSealedByOwner, Stored
  <2>3. \A r \in Requests : RequestInv(req[r])'
    BY <1>1, <2>1, Stable
  <2>4. QED
    BY <2>2, <2>3 DEF IInv
<1>2. CASE Restart
  <2>1. TypeOK' /\ SessionHasAuthTime' /\ CredentialsSealedByOwner'
    BY <1>2, IdleType
       DEF Restart, IInv, TypeOK, SessionHasAuthTime, CredentialsSealedByOwner,
           Stored
  <2>2. ASSUME NEW r \in Requests
        PROVE  RequestInv(req[r])'
    <3>1. req[r]'.step = "idle" /\ req[r]'.op = None
      BY <1>2, IdleType DEF Restart
    <3>2. QED
      BY <3>1, NoneIsNoValue
         DEF RequestInv, StepFitsOp, TokenIssued, LiveOnArrival, DeviceMatches,
             LoginWroteAuthTime, RowIsOwn, Authorised, GuardedOps, AuthOps,
             VaultOps, NamesCred
  <2>3. QED
    BY <2>1, <2>2 DEF IInv
<1>3. QED
  BY <1>1, <1>2 DEF Tick, Register
-----------------------------------------------------------------------------
\* Every step preserves the inductive invariant.
LEMMA Invariance == IInv /\ [Next]_vars => IInv'
<1> SUFFICES ASSUME IInv, [Next]_vars
             PROVE  IInv'
  OBVIOUS
<1>1. CASE Tick \/ Restart \/ \E u \in Users : Register(u)
  BY <1>1, EnvironmentStep
<1>2. ASSUME NEW r \in Requests, Arrive(r) \/ Progress(r) \/ Fail(r)
      PROVE  IInv'
  BY <1>2, ArriveStep, ProgressStep, AnswerStep
<1>3. CASE UNCHANGED vars
  <2>1. Rely
    BY <1>3, RelyOnUnchanged DEF vars, IInv
  <2>2. \A r \in Requests : RequestInv(req[r])'
    BY <1>3, <2>1, Stable DEF vars
  <2>3. QED
    BY <1>3, <2>2
       DEF vars, IInv, TypeOK, SessionHasAuthTime, CredentialsSealedByOwner,
           Stored
<1>4. QED
  BY <1>1, <1>2, <1>3 DEF Next

\* The invariant holds initially.
LEMMA Initially == Init => IInv
<1> SUFFICES ASSUME Init
             PROVE  IInv
  OBVIOUS
<1>1. TypeOK
  BY ConstantsOK, IdleType DEF Init, TypeOK, Time
<1>2. SessionHasAuthTime /\ CredentialsSealedByOwner
  BY NoneIsNoValue
     DEF Init, SessionHasAuthTime, CredentialsSealedByOwner, Stored
<1>3. ASSUME NEW r \in Requests
      PROVE  RequestInv(req[r])
  <2>1. req[r].step = "idle" /\ req[r].op = None
    BY IdleType DEF Init
  <2>2. QED
    BY <2>1, NoneIsNoValue
       DEF RequestInv, StepFitsOp, TokenIssued, LiveOnArrival, DeviceMatches,
           LoginWroteAuthTime, RowIsOwn, Authorised, GuardedOps, AuthOps,
           VaultOps, NamesCred
<1>4. QED
  BY <1>1, <1>2, <1>3 DEF IInv

\* The inductive invariant holds throughout.
LEMMA InductiveInvariant == Spec => []IInv
BY Initially, Invariance, PTL DEF Spec

\* The variables always have their types.
THEOREM TypeCorrect == Spec => []TypeOK
BY InductiveInvariant, PTL DEF IInv

\* A session that was revoked or expired when a request arrived never carries
\* it past JwtStrategy.validate, for any number of concurrent requests.
THEOREM EndedSessionsNeverServed == Spec => []EndedSessionsStayOut
<1>1. IInv => EndedSessionsStayOut
  BY DEF IInv, RequestInv, LiveOnArrival, EndedSessionsStayOut, Authorised,
         GuardedOps
<1>2. QED
  BY <1>1, InductiveInvariant, PTL

\* In strict mode every request served comes from the session's own device.
THEOREM DeviceBinding == Spec => []BoundToDevice
<1>1. IInv => BoundToDevice
  BY DEF IInv, RequestInv, DeviceMatches, BoundToDevice
<1>2. QED
  BY <1>1, InductiveInvariant, PTL

\* No crash or failure inside login leaves a session without lastAuthAt.
THEOREM SessionsFollowAuthTime == Spec => []SessionHasAuthTime
BY InductiveInvariant, PTL DEF IInv

\* Every stored credential can be decrypted with its owner's key.
THEOREM SealedByOwner == Spec => []CredentialsSealedByOwner
BY InductiveInvariant, PTL DEF IInv

\* Plaintext is only ever sent to the owner, under a session live on arrival.
THEOREM PlaintextConfined == Spec => []PlaintextGoesToOwner
<1>1. IInv => PlaintextGoesToOwner
  BY DEF IInv, RequestInv, StepFitsOp, LiveOnArrival, RowIsOwn,
         PlaintextGoesToOwner, NamesCred, GuardedOps, VaultOps
<1>2. QED
  BY <1>1, InductiveInvariant, PTL
-----------------------------------------------------------------------------
\* Action properties.

\* Which steps put a key into memory.
LEMMA OnlyDeriveUnlocks ==
  ASSUME IInv, [Next]_vars, unlocked' \ unlocked # {}
  PROVE  \E r \in Requests : DeriveKey(r)
<1>1. PICK r \in Requests : Arrive(r) \/ Progress(r) \/ Fail(r)
  BY DEF Next, vars, Tick, Register, Restart
<1>2. ~Arrive(r) /\ ~Fail(r)
  BY DEF Arrive, Login, Logout, Call, Fail
<1>3. ~FindActiveByJwtId(r) /\ ~FingerprintMismatch(r) /\ ~TouchSession(r)
  BY DEF FindActiveByJwtId, FingerprintMismatch, TouchSession
<1>4. /\ ~CheckPassword(r) /\ ~TouchAuth(r) /\ ~CreateSession(r)
      /\ ~LogoutRevoke(r) /\ ~ClearKey(r)
  BY DEF CheckPassword, TouchAuth, CreateSession, LogoutRevoke, ClearKey
<1>5. /\ ~VaultUnlockGuard(r) /\ ~ReAuthGuard(r) /\ ~FindOwnedCredential(r)
      /\ ~UseKey(r) /\ ~WriteCredential(r) /\ ~Reply(r)
  BY DEF VaultUnlockGuard, ReAuthGuard, FindOwnedCredential, UseKey,
         WriteCredential, Reply
<1>6. QED
  BY <1>1, <1>2, <1>3, <1>4, <1>5 DEF Progress

\* A key enters memory only on the owner's password, under a session of the owner
\* that was live when the request arrived (vault.service.ts:44-75).
THEOREM KeysOpenedByOwner == Spec => VaultOpenedByOwner
<1>1. ASSUME IInv, [Next]_vars, NEW u \in unlocked' \ unlocked
      PROVE  \E r \in Requests : /\ req[r].op = "unlock" /\ req[r].live
                                 /\ req[r].user = u /\ req[r].pw = u
  <2>1. PICK r \in Requests : DeriveKey(r)
    BY <1>1, OnlyDeriveUnlocks
  <2>2. req[r].user = u /\ req[r].step = "deriveKey"
    BY <1>1, <2>1 DEF DeriveKey
  <2>3. /\ req[r].op = "unlock" /\ req[r].pw = u /\ req[r].live
    BY <1>1, <2>2
       DEF IInv, RequestInv, StepFitsOp, LiveOnArrival, GuardedOps, VaultOps
  <2>4. QED
    BY <2>2, <2>3
<1>2. IInv /\ [Next]_vars =>
        [\A u \in unlocked' \ unlocked :
           \E r \in Requests : /\ req[r].op = "unlock"
                               /\ req[r].live
                               /\ req[r].user = u
                               /\ req[r].pw = u]_vars
  BY <1>1
<1>3. QED
  BY <1>2, InductiveInvariant, PTL DEF Spec, VaultOpenedByOwner
-----------------------------------------------------------------------------
\* The detailed specification keeps the abstract promise.

\* A step that opens no session and touches no key ends some sessions or none.
LEMMA EndsOrStutters ==
  ASSUME IInv, Rely, UNCHANGED unlocked,
         \A j \in Jtis : session[j] = None => session'[j] = None
  PROVE  [Promise!Next]_(Promise!promiseVars)
<1> DEFINE S == {j \in Jtis : Status(j) = "active" /\ Status(j)' = "ended"}
<1>1. ASSUME NEW j \in Jtis
      PROVE  Status(j)' = IF j \in S THEN "ended" ELSE Status(j)
  BY DEF Rely, Status
<1>2. [j \in Jtis |-> Status(j)]'
        = [j \in Jtis |-> IF j \in S THEN "ended"
                                     ELSE [k \in Jtis |-> Status(k)][j]]
  BY <1>1
<1>3. [j \in Jtis |-> IF session[j] = None THEN None ELSE session[j].user]'
        = [j \in Jtis |-> IF session[j] = None THEN None ELSE session[j].user]
  BY DEF Rely
<1>4. \A j \in S : [k \in Jtis |-> Status(k)][j] = "active"
  OBVIOUS
<1>5. S \in SUBSET Jtis
  OBVIOUS
<1>6. Promise!End(S)
  BY <1>2, <1>3, <1>4, <1>5 DEF Promise!End
<1>7. QED
  BY <1>5, <1>6 DEF Promise!Next

\* A step that leaves the sessions and the clock alone and shrinks the cache
\* locks some vaults.
LEMMA LocksOrStutters ==
  ASSUME IInv, UNCHANGED <<now, session>>, unlocked' \subseteq unlocked
  PROVE  [Promise!Next]_(Promise!promiseVars)
<1>1. unlocked' = unlocked \ (Users \ unlocked')
  BY DEF IInv, TypeOK
<1>2. /\ [j \in Jtis |-> Status(j)]' = [j \in Jtis |-> Status(j)]
      /\ [j \in Jtis |-> IF session[j] = None THEN None ELSE session[j].user]'
           = [j \in Jtis |-> IF session[j] = None THEN None ELSE session[j].user]
  BY DEF Status, Active
<1>3. Promise!Lock(Users \ unlocked')
  BY <1>1, <1>2 DEF Promise!Lock
<1>4. (Users \ unlocked') \in SUBSET Users
  OBVIOUS
<1>5. QED
  BY <1>3, <1>4 DEF Promise!Next

\* The login's row is a session opened once.
LEMMA CreateOpens ==
  ASSUME IInv, NEW r \in Requests, CreateSession(r), session' # session
  PROVE  Promise!Next
<1> DEFINE q == req[r]
<1>1. q.user \in Users
  BY NoneIsNoValue DEF CreateSession, IInv, RequestInv, StepFitsOp
<1>2. PICK j \in Jtis :
        /\ session[j] = None
        /\ session' = [session EXCEPT ![j] =
             [user |-> q.user, device |-> q.device, expires |-> now + SessionTtl,
              revoked |-> FALSE, verified |-> now]]
  BY DEF CreateSession
<1>3. /\ session'[j] # None /\ session'[j].user = q.user
      /\ ~session'[j].revoked /\ session'[j].expires > now
      /\ \A k \in Jtis : k # j => session'[k] = session[k]
      /\ UNCHANGED <<now, unlocked>>
  <2>1. session'[j] = [user |-> q.user, device |-> q.device,
                       expires |-> now + SessionTtl, revoked |-> FALSE,
                       verified |-> now]
    BY <1>2 DEF IInv, TypeOK
  <2>2. now + SessionTtl \in Nat /\ now + SessionTtl > now /\ now \in Time
    BY ConstantsOK DEF IInv, TypeOK, Time
  <2>3. q.device \in Devices
    BY NoneIsNoValue DEF CreateSession, IInv, RequestInv, StepFitsOp
  <2>4. session'[j] \in SessionRow
    BY <1>1, <2>1, <2>2, <2>3 DEF SessionRow
  <2>5. session'[j] # None
    BY <2>4, NoneIsNoValue
  <2>6. \A k \in Jtis : k # j => session'[k] = session[k]
    BY <1>2 DEF IInv, TypeOK
  <2>7. UNCHANGED <<now, unlocked>>
    BY DEF CreateSession
  <2>8. QED
    BY <2>1, <2>2, <2>5, <2>6, <2>7
<1>4. Status(j) = "unused" /\ Status(j)' = "active"
  BY <1>2, <1>3 DEF Status, Active
<1>5. \A k \in Jtis : k # j => Status(k)' = Status(k)
  BY <1>3 DEF Status, Active
<1>6. [k \in Jtis |-> Status(k)]'
        = [[k \in Jtis |-> Status(k)] EXCEPT ![j] = "active"]
  BY <1>4, <1>5
<1>7. [k \in Jtis |-> IF session[k] = None THEN None ELSE session[k].user]'
        = [[k \in Jtis |-> IF session[k] = None THEN None ELSE session[k].user]
             EXCEPT ![j] = q.user]
  BY <1>3
<1>8. PICK u \in Users : u = q.user
  BY <1>1
<1>9. Promise!Open(j, u)
  BY <1>3, <1>4, <1>6, <1>7, <1>8 DEF Promise!Open
<1>10. QED
  BY <1>9 DEF Promise!Next

\* A derived key belongs to somebody with a session.
LEMMA DeriveUnlocks ==
  ASSUME IInv, NEW r \in Requests, DeriveKey(r)
  PROVE  Promise!Next
<1> DEFINE q == req[r]
           H == [j \in Jtis |-> IF session[j] = None THEN None ELSE session[j].user]
<1>1. /\ q.op = "unlock" /\ RequestInv(q)
      /\ unlocked' = unlocked \cup {q.user}
      /\ UNCHANGED <<now, session>>
  BY DEF DeriveKey, IInv, RequestInv, StepFitsOp
<1>2. /\ q.user \in Users /\ q.jti \in Jtis
      /\ session[q.jti] # None /\ session[q.jti].user = q.user
  BY <1>1, NoneIsNoValue
     DEF RequestInv, StepFitsOp, TokenIssued, GuardedOps, VaultOps
<1>3. H[q.jti] = q.user
  BY <1>2
<1>4. [j \in Jtis |-> Status(j)]' = [j \in Jtis |-> Status(j)] /\ H' = H
  BY <1>1 DEF Status, Active
<1>5. Promise!Unlock(q.user)
  BY <1>1, <1>2, <1>3, <1>4 DEF Promise!Unlock
<1>6. QED
  BY <1>2, <1>5 DEF Promise!Next

\* AccessControl implements AccessPromise: a session that has ended stays
\* ended, no JWT id is opened twice, and only users who logged in have keys.
THEOREM PromiseKept == Spec => KeepsPromise
<1>1. Init => Promise!Init
  BY DEF Init, Promise!Init, Status
<1>2. IInv /\ [Next]_vars => [Promise!Next]_(Promise!promiseVars)
  <2> SUFFICES ASSUME IInv, [Next]_vars
               PROVE  [Promise!Next]_(Promise!promiseVars)
    OBVIOUS
  <2>1. CASE UNCHANGED <<now, session>> /\ unlocked' \subseteq unlocked
    BY <2>1, LocksOrStutters
  <2>2. CASE Tick
    <3>1. Rely
      <4>1. /\ now \in Nat /\ now' \in Nat /\ now <= now'
            /\ UNCHANGED <<lastAuthAt, session, cred>>
        BY <2>2 DEF Tick, IInv, TypeOK, Time
      <4>2. \A j \in Jtis : session[j] # None => (Active(j)' => Active(j))
        <5>1. \A j \in Jtis : session[j] # None => session[j].expires \in Nat
          BY DEF IInv, TypeOK, SessionRow
        <5>2. QED
          BY <4>1, <5>1 DEF Active
      <4>3. QED
        BY <4>1, <4>2 DEF Rely, Stored
    <3>2. QED
      BY <2>2, <3>1, EndsOrStutters DEF Tick
  <2>3. ASSUME NEW r \in Requests,
               \/ FingerprintMismatch(r) /\ RevokeByJwtId(req[r].jti)
               \/ TouchSession(r) \/ LogoutRevoke(r)
        PROVE  [Promise!Next]_(Promise!promiseVars)
    <3>1. /\ RequestInv(req[r])
          /\ req[r].step \in {"mismatch", "touchSession", "revoke"}
          /\ UNCHANGED <<now, lastAuthAt, cred, unlocked>>
          /\ \/ session' = [session EXCEPT ![req[r].jti].revoked = TRUE]
             \/ session' = [session EXCEPT ![req[r].jti].verified = now]
      BY <2>3 DEF FingerprintMismatch, TouchSession, LogoutRevoke, RevokeByJwtId,
                  IInv
    <3>2. req[r].jti \in Jtis /\ session[req[r].jti] # None
      BY <3>1, NoneIsNoValue
         DEF RequestInv, StepFitsOp, TokenIssued, GuardedOps, AuthOps, VaultOps
    <3>3. Rely
      BY <3>1, <3>2, RelyOnSession DEF IInv
    <3>4. \A j \in Jtis : session[j] = None => session'[j] = None
      BY <3>1, <3>2 DEF IInv, TypeOK
    <3>5. QED
      BY <3>1, <3>3, <3>4, EndsOrStutters
  <2>4. ASSUME NEW r \in Requests, CreateSession(r)
        PROVE  [Promise!Next]_(Promise!promiseVars)
    BY <2>1, <2>4, CreateOpens DEF CreateSession
  <2>5. ASSUME NEW r \in Requests, DeriveKey(r)
        PROVE  [Promise!Next]_(Promise!promiseVars)
    BY <2>5, DeriveUnlocks
  <2>6. CASE UNCHANGED vars \/ Restart \/ (\E u \in Users : Register(u))
    BY <2>1, <2>6 DEF vars, Restart, Register
  <2>7. ASSUME NEW r \in Requests, Arrive(r) \/ Progress(r) \/ Fail(r)
        PROVE  [Promise!Next]_(Promise!promiseVars)
    <3>1. CASE Arrive(r) \/ Fail(r)
      BY <2>1, <3>1 DEF Arrive, Login, Logout, Call, Fail
    <3>2. CASE \/ FindActiveByJwtId(r) \/ CheckPassword(r) \/ TouchAuth(r)
               \/ ClearKey(r) \/ VaultUnlockGuard(r) \/ ReAuthGuard(r)
               \/ FindOwnedCredential(r) \/ UseKey(r) \/ WriteCredential(r)
               \/ Reply(r)
      BY <2>1, <3>2 DEF FindActiveByJwtId, CheckPassword, TouchAuth, ClearKey,
           VaultUnlockGuard, ReAuthGuard, FindOwnedCredential, UseKey,
           WriteCredential, Reply
    <3>3. CASE FingerprintMismatch(r) /\ UNCHANGED session
      BY <2>1, <3>3 DEF FingerprintMismatch
    <3>4. QED
      BY <2>3, <2>4, <2>5, <2>7, <3>1, <3>2, <3>3
         DEF Progress, FingerprintMismatch
  <2>8. QED
    BY <2>2, <2>6, <2>7 DEF Next
<1>3. QED
  BY <1>1, <1>2, InductiveInvariant, PTL DEF Spec, KeepsPromise, Promise!Spec
=============================================================================
