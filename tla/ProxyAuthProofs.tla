-------------------------- MODULE ProxyAuthProofs --------------------------
(***************************************************************************)
(* ProxyAuth for every set of users, devices and attempts, every limit and *)
(* every lifetime.  The limit is the delicate part: what is counted and    *)
(* what is still pending must be bounded together (Budget), because an     *)
(* attempt that passed the check will count only later.                    *)
(***************************************************************************)
EXTENDS ProxyAuth, TLAPS, FiniteSetTheorems

\* The row an attempt holds exists and is the named user's.
RowIsNamed(r) ==
  attempt[r].row # None =>
    /\ session[attempt[r].row] # None
    /\ session[attempt[r].row].user = attempt[r].user

\* What an attempt has shown by the time it is parked somewhere.
Shown(r) ==
  LET t == attempt[r] IN
  /\ InFlight(r) => t.device \in Devices
  /\ t.step = "token" => t.kind = "cookie"
  /\ t.step \in {"password", "latest"} => t.kind = "basic"
  /\ t.step = "latest" => t.good
  /\ t.step \in {"mismatch", "user"} =>
       /\ t.row # None /\ t.live
       /\ t.kind \in {"cookie", "basic"}
       /\ t.kind = "basic" => t.good
  /\ t.step = "mismatch" => session[t.row].device # t.device
  /\ t.step = "user" /\ strict => session[t.row].device = t.device

AttemptInv == \A r \in Attempts : RowIsNamed(r) /\ Shown(r)

\* Failures counted and failures still possible, together.
Within(a) ==
  failures[a] # None =>
    failures[a].count + Cardinality(Pending(a))
      <= AuthLimit - 1 + Cardinality(Attempts)

Budget == \A a \in Addresses : Within(a)

-----------------------------------------------------------------------------
\* Types.

\* A new attempt is one (what authenticate makes of a request).
LEMMA NewAttemptType ==
  ASSUME TypeOK, NEW kind \in {"cookie", "basic"}, NEW d \in Devices,
         NEW u \in Users \cup {None}, NEW good \in BOOLEAN,
         NEW s \in Sessions \cup {None}
  PROVE  NewAttempt(kind, d, u, good, s) \in Attempt
BY DEF NewAttempt, Attempt, Parked, Answers, Active

\* An attempt that is over is one.
LEMMA IdleType ==
  ASSUME NEW c \in {"idle"} \cup Answers
  PROVE  [Idle EXCEPT !.step = c] \in Attempt
BY DEF Idle, Attempt, Parked, Answers

\* Answering keeps the type of the attempts.
LEMMA AnswerType ==
  ASSUME TypeOK, NEW r \in Attempts, NEW c \in Answers, Answer(r, c)
  PROVE  attempt' \in [Attempts -> Attempt]
<1>1. [Idle EXCEPT !.step = c] \in Attempt
  BY IdleType
<1> QED
  BY <1>1 DEF TypeOK, Answer, Set

\* Parking keeps the type of the attempts.
LEMMA ParkType ==
  ASSUME TypeOK, NEW r \in Attempts, NEW s \in Parked, Park(r, s)
  PROVE  attempt' \in [Attempts -> Attempt]
BY DEF TypeOK, Park, Attempt

\* verifySessionForRequest keeps the type of the attempts.
LEMMA VerifyType ==
  ASSUME TypeOK, NEW r \in Attempts, NEW s \in Sessions, Verify(r, s)
  PROVE  attempt' \in [Attempts -> Attempt]
<1>1. attempt[r] \in Attempt
  BY DEF TypeOK
<1>2. \A p \in {"user", "mismatch"} :
        [attempt[r] EXCEPT !.row = s, !.live = Active(s), !.step = p] \in Attempt
  BY <1>1 DEF Attempt, Parked, Active
<1>3. \E p \in {"user", "mismatch"} :
        attempt' = [attempt EXCEPT ![r] = [@ EXCEPT !.row = s,
                                               !.live = Active(s), !.step = p]]
  BY DEF Verify
<1> QED
  BY <1>2, <1>3 DEF TypeOK

\* Counting a failure keeps the type of the windows.
LEMMA RecordFailureType ==
  ASSUME TypeOK, NEW a \in Addresses, RecordFailure(a)
  PROVE  failures' \in [Addresses -> Window \cup {None}]
<1>1. [count |-> 1, first |-> now] \in Window
  BY DEF TypeOK, Window
<1>2. \A w \in Window : [w EXCEPT !.count = @ + 1] \in Window
  BY DEF Window
<1> QED
  BY <1>1, <1>2 DEF TypeOK, RecordFailure

\* So do a success and the end of a window.
LEMMA ForgetType ==
  ASSUME TypeOK, NEW a \in Addresses, RecordSuccess(a) \/ ForgetIfExpired(a)
  PROVE  failures' \in [Addresses -> Window \cup {None}]
BY DEF TypeOK, RecordSuccess, ForgetIfExpired

\* The address of an attempt in flight is one.
LEMMA AddressType ==
  ASSUME NEW r \in Attempts, InFlight(r), AttemptInv
  PROVE  Address(r) \in Addresses
BY DEF AttemptInv, Shown, Address, Addresses

-----------------------------------------------------------------------------
\* Sessions are created and revoked, never given to somebody else.
RowsKept ==
  \A s \in Sessions :
    session[s] # None =>
      /\ session'[s] # None
      /\ session'[s].user = session[s].user
      /\ session'[s].device = session[s].device

\* Revoking a row keeps its user and its device (sessions.service.ts:104-113).
LEMMA RevokedRowsKept ==
  ASSUME TypeOK, NEW s \in Sessions, session[s] # None,
         session' = [session EXCEPT ![s].revoked = TRUE]
  PROVE  RowsKept
<1>1. session[s] \in SessionRow
  BY DEF TypeOK
<1>2. session'[s] = [session[s] EXCEPT !.revoked = TRUE]
  BY DEF TypeOK
<1>3. session'[s] \in SessionRow
  BY <1>1, <1>2 DEF SessionRow
<1>4. session'[s].user = session[s].user /\ session'[s].device = session[s].device
  BY <1>1, <1>2 DEF SessionRow
<1>5. session'[s] # None
  BY <1>3, NoneIsNoRecord
<1> QED
  BY <1>4, <1>5 DEF RowsKept, TypeOK

\* No step takes a row away or changes whose it is.
LEMMA StepKeepsRows == TypeOK /\ AttemptInv /\ [Next]_vars => RowsKept /\ strict' = strict
<1> SUFFICES ASSUME TypeOK, AttemptInv, [Next]_vars
             PROVE  RowsKept /\ strict' = strict
  OBVIOUS
<1>1. CASE UNCHANGED <<session, strict>>
  BY <1>1 DEF RowsKept
<1>2. CASE CreateSession
  BY <1>2 DEF CreateSession, RowsKept, TypeOK
<1>3. CASE EndSession
  BY <1>3, RevokedRowsKept DEF EndSession
<1>4. ASSUME NEW r \in Attempts, HandleMismatch(r)
      PROVE  RowsKept /\ strict' = strict
  <2>1. attempt[r].row # None /\ session[attempt[r].row] # None
    BY <1>4 DEF HandleMismatch, AttemptInv, Shown, RowIsNamed, At
  <2>2. attempt[r].row \in Sessions
    BY <2>1 DEF TypeOK, Attempt
  <2> QED
    BY <1>1, <1>4, <2>1, <2>2, RevokedRowsKept DEF HandleMismatch
<1> QED
  BY <1>1, <1>2, <1>3, <1>4
  DEF Next, Proceed, Restart, Tick, ArriveWithCookie, ArriveWithBasic,
      ArriveWithNothing, CheckToken, CheckPassword, FindLatest, Authorise,
      DatabaseFails, vars

\* An attempt the step leaves alone keeps what it has shown.
LEMMA OthersKeep ==
  ASSUME TypeOK, AttemptInv, RowsKept, strict' = strict,
         NEW q \in Attempts, attempt'[q] = attempt[q]
  PROVE  RowIsNamed(q)' /\ Shown(q)'
<1>1. attempt[q].row \in Sessions \cup {None}
  BY DEF TypeOK, Attempt
<1>2. RowIsNamed(q)'
  BY <1>1 DEF RowIsNamed, RowsKept, AttemptInv
<1>3. attempt[q].step \in {"mismatch", "user"} => attempt[q].row # None
  BY DEF AttemptInv, Shown
<1>4. Shown(q)'
  BY <1>1, <1>2, <1>3 DEF Shown, RowIsNamed, RowsKept, AttemptInv, InFlight
<1> QED
  BY <1>2, <1>4

\* An attempt that has its answer has nothing left to show.
LEMMA AnswerKeeps ==
  ASSUME TypeOK, AttemptInv, RowsKept, strict' = strict,
         NEW r \in Attempts, NEW c \in Answers, Answer(r, c)
  PROVE  AttemptInv'
<1>1. attempt'[r] = [Idle EXCEPT !.step = c]
  BY DEF Answer, Set, TypeOK
<1>2. attempt'[r].step = c /\ attempt'[r].row = None
  BY <1>1 DEF Idle
<1>3. RowIsNamed(r)' /\ Shown(r)'
  BY <1>2 DEF RowIsNamed, Shown, InFlight, Parked, Answers
<1>4. \A q \in Attempts \ {r} : attempt'[q] = attempt[q]
  BY DEF Answer, Set, TypeOK
<1> QED
  BY <1>3, <1>4, OthersKeep DEF AttemptInv

\* One attempt moves: what it has shown is all there is to prove.
LEMMA OneMoves ==
  ASSUME TypeOK, AttemptInv, RowsKept, strict' = strict, NEW r \in Attempts,
         \A q \in Attempts \ {r} : attempt'[q] = attempt[q],
         RowIsNamed(r)', Shown(r)'
  PROVE  AttemptInv'
BY OthersKeep DEF AttemptInv

\* The start of verifySessionForRequest, with a row of the user named.
LEMMA VerifyKeeps ==
  ASSUME TypeOK, AttemptInv, NEW r \in Attempts, NEW s \in Sessions,
         Active(s), session[s].user = attempt[r].user,
         InFlight(r), attempt[r].kind \in {"cookie", "basic"},
         attempt[r].kind = "basic" => attempt[r].good,
         Verify(r, s), UNCHANGED <<strict, session>>
  PROVE  AttemptInv'
<1>1. RowsKept
  BY DEF RowsKept
<1>2. attempt[r] \in Attempt
  BY DEF TypeOK
<1>3. attempt'[r] = [attempt[r] EXCEPT !.row = s, !.live = Active(s),
                       !.step = IF Matches(r, s) THEN "user" ELSE "mismatch"]
  BY DEF Verify, TypeOK
<1>4. /\ attempt'[r].row = s /\ attempt'[r].live
      /\ attempt'[r].step = IF Matches(r, s) THEN "user" ELSE "mismatch"
      /\ attempt'[r].kind = attempt[r].kind /\ attempt'[r].good = attempt[r].good
      /\ attempt'[r].user = attempt[r].user /\ attempt'[r].device = attempt[r].device
  BY <1>2, <1>3 DEF Attempt
<1>5. s # None
  BY ProxyAuthConstants
<1>6. RowIsNamed(r)'
  BY <1>4 DEF RowIsNamed, Active
<1>7. attempt[r].device \in Devices
  BY DEF AttemptInv, Shown
<1>8. Shown(r)'
  BY <1>4, <1>5, <1>7 DEF Shown, Matches
<1>9. \A q \in Attempts \ {r} : attempt'[q] = attempt[q]
  BY DEF Verify, TypeOK
<1> QED
  BY <1>1, <1>6, <1>8, <1>9, OneMoves

\* Every step keeps what the attempts have shown.
LEMMA StepKeepsAttempts == TypeOK /\ AttemptInv /\ [Next]_vars => AttemptInv'
<1> SUFFICES ASSUME TypeOK, AttemptInv, [Next]_vars
             PROVE  AttemptInv'
  OBVIOUS
<1>0. RowsKept /\ strict' = strict
  BY StepKeepsRows
<1>1. CASE UNCHANGED attempt
  <2>1. \A q \in Attempts : attempt'[q] = attempt[q]
    BY <1>1
  <2> QED
    BY <1>0, <2>1, OthersKeep DEF AttemptInv
<1>2. CASE Restart
  BY <1>2 DEF Restart, AttemptInv, RowIsNamed, Shown, InFlight, Parked, Idle
<1>3. ASSUME NEW r \in Attempts, ArriveWithCookie(r)
      PROVE  AttemptInv'
  <2>1. PICK d \in Devices,
             s \in {t \in Sessions : session[t] # None} \cup {None} :
          Set(r, NewAttempt("cookie", d, IF s = None THEN None ELSE session[s].user,
                            FALSE, s))
    BY <1>3 DEF ArriveWithCookie
  <2>2. attempt'[r] = NewAttempt("cookie", d,
                                 IF s = None THEN None ELSE session[s].user, FALSE, s)
    BY <2>1 DEF Set, TypeOK
  <2>3. /\ attempt'[r].step = "token" /\ attempt'[r].kind = "cookie"
        /\ attempt'[r].row = s /\ attempt'[r].device = d
        /\ attempt'[r].user = IF s = None THEN None ELSE session[s].user
    BY <2>2 DEF NewAttempt
  <2>4. RowIsNamed(r)'
    BY <2>3, <1>3 DEF RowIsNamed, ArriveWithCookie
  <2>5. Shown(r)'
    BY <2>3 DEF Shown
  <2>6. \A q \in Attempts \ {r} : attempt'[q] = attempt[q]
    BY <2>1 DEF Set, TypeOK
  <2> QED
    BY <1>0, <2>4, <2>5, <2>6, OneMoves
<1>4. ASSUME NEW r \in Attempts, ArriveWithBasic(r)
      PROVE  AttemptInv'
  <2>1. PICK d \in Devices, u \in Users \cup {None}, good \in BOOLEAN :
          \/ Set(r, NewAttempt("basic", d, u, good, None))
          \/ Answer(r, "429")
    BY <1>4 DEF ArriveWithBasic
  <2>2. CASE Answer(r, "429")
    BY <1>0, <2>2, AnswerKeeps DEF Answers
  <2>3. CASE Set(r, NewAttempt("basic", d, u, good, None))
    <3>1. attempt'[r] = NewAttempt("basic", d, u, good, None)
      BY <2>3 DEF Set, TypeOK
    <3>2. /\ attempt'[r].step = "password" /\ attempt'[r].kind = "basic"
          /\ attempt'[r].row = None /\ attempt'[r].device = d
      BY <3>1 DEF NewAttempt
    <3>3. RowIsNamed(r)' /\ Shown(r)'
      BY <3>2 DEF RowIsNamed, Shown
    <3>4. \A q \in Attempts \ {r} : attempt'[q] = attempt[q]
      BY <2>3 DEF Set, TypeOK
    <3> QED
      BY <1>0, <3>3, <3>4, OneMoves
  <2> QED
    BY <2>1, <2>2, <2>3
<1>5. ASSUME NEW r \in Attempts, \E c \in Answers : Answer(r, c)
      PROVE  AttemptInv'
  BY <1>0, <1>5, AnswerKeeps
<1>6. ASSUME NEW r \in Attempts, CheckToken(r)
      PROVE  AttemptInv'
  <2>1. CASE attempt[r].row # None /\ Active(attempt[r].row) /\ Verify(r, attempt[r].row)
    <3>1. attempt[r].row \in Sessions
      BY <2>1 DEF TypeOK, Attempt
    <3>2. session[attempt[r].row] # None /\ session[attempt[r].row].user = attempt[r].user
      BY <2>1 DEF AttemptInv, RowIsNamed
    <3>3. attempt[r].kind = "cookie" /\ InFlight(r)
      BY <1>6 DEF CheckToken, AttemptInv, Shown, At, InFlight, Parked
    <3> QED
      BY <1>6, <2>1, <3>1, <3>2, <3>3, VerifyKeeps DEF CheckToken
  <2> QED
    BY <1>5, <1>6, <2>1 DEF CheckToken, Answers
<1>7. ASSUME NEW r \in Attempts, CheckPassword(r)
      PROVE  AttemptInv'
  <2>1. CASE attempt[r].good /\ Park(r, "latest")
    <3>1. attempt[r] \in Attempt
      BY DEF TypeOK
    <3>2. attempt'[r] = [attempt[r] EXCEPT !.step = "latest"]
      BY <2>1 DEF Park, TypeOK
    <3>3. /\ attempt'[r].step = "latest" /\ attempt'[r].kind = attempt[r].kind
          /\ attempt'[r].row = attempt[r].row /\ attempt'[r].good = attempt[r].good
          /\ attempt'[r].user = attempt[r].user /\ attempt'[r].device = attempt[r].device
      BY <3>1, <3>2 DEF Attempt
    <3>4. attempt[r].kind = "basic" /\ attempt[r].device \in Devices
      BY <1>7 DEF CheckPassword, AttemptInv, Shown, At, InFlight, Parked
    <3>5. RowIsNamed(r)' /\ Shown(r)'
      BY <1>7, <2>1, <3>3, <3>4
      DEF CheckPassword, AttemptInv, RowIsNamed, Shown
    <3>6. \A q \in Attempts \ {r} : attempt'[q] = attempt[q]
      BY <2>1 DEF Park, TypeOK
    <3> QED
      BY <1>0, <3>5, <3>6, OneMoves
  <2> QED
    BY <1>5, <1>7, <2>1 DEF CheckPassword, Answers
<1>8. ASSUME NEW r \in Attempts, FindLatest(r)
      PROVE  AttemptInv'
  <2>1. CASE \E s \in ActiveOf(attempt[r].user) : Verify(r, s)
    <3>1. PICK s \in Sessions :
            /\ Active(s) /\ session[s].user = attempt[r].user
            /\ Verify(r, s)
      BY <2>1 DEF ActiveOf
    <3>2. attempt[r].kind = "basic" /\ attempt[r].good /\ InFlight(r)
      BY <1>8 DEF FindLatest, AttemptInv, Shown, At, InFlight, Parked
    <3> QED
      BY <1>8, <3>1, <3>2, VerifyKeeps DEF FindLatest
  <2> QED
    BY <1>5, <1>8, <2>1 DEF FindLatest, Answers
<1>9. ASSUME NEW r \in Attempts, HandleMismatch(r)
      PROVE  AttemptInv'
  <2>1. CASE ~strict /\ Park(r, "user") /\ UNCHANGED session
    <3>1. attempt[r] \in Attempt
      BY DEF TypeOK
    <3>2. attempt'[r] = [attempt[r] EXCEPT !.step = "user"]
      BY <2>1 DEF Park, TypeOK
    <3>3. /\ attempt'[r].step = "user" /\ attempt'[r].kind = attempt[r].kind
          /\ attempt'[r].row = attempt[r].row /\ attempt'[r].good = attempt[r].good
          /\ attempt'[r].user = attempt[r].user /\ attempt'[r].device = attempt[r].device
          /\ attempt'[r].live = attempt[r].live
      BY <3>1, <3>2 DEF Attempt
    <3>4. /\ attempt[r].row # None /\ attempt[r].live
          /\ attempt[r].kind \in {"cookie", "basic"}
          /\ attempt[r].kind = "basic" => attempt[r].good
          /\ attempt[r].device \in Devices
      BY <1>9 DEF HandleMismatch, AttemptInv, Shown, At, InFlight, Parked
    <3>5. RowIsNamed(r)'
      BY <1>9, <2>1, <3>3 DEF AttemptInv, RowIsNamed
    <3>6. Shown(r)'
      BY <1>0, <2>1, <3>3, <3>4 DEF Shown
    <3>7. \A q \in Attempts \ {r} : attempt'[q] = attempt[q]
      BY <2>1 DEF Park, TypeOK
    <3> QED
      BY <1>0, <3>5, <3>6, <3>7, OneMoves
  <2> QED
    BY <1>5, <1>9, <2>1 DEF HandleMismatch, Answers
<1> QED
  BY <1>1, <1>2, <1>3, <1>4, <1>5, <1>6, <1>7, <1>8, <1>9
  DEF Next, Proceed, CreateSession, EndSession, Tick, ArriveWithNothing, Authorise,
      DatabaseFails, Answers, vars

\* Every step keeps the types (one case per await of authenticate).
LEMMA StepKeepsTypes == TypeOK /\ AttemptInv /\ [Next]_vars => TypeOK'
<1> SUFFICES ASSUME TypeOK, AttemptInv, [Next]_vars
             PROVE  TypeOK'
  OBVIOUS
<1>1. CASE CreateSession
  <2>1. PICK s \in Sessions, u \in Users, d \in Devices :
          session' = [session EXCEPT ![s] = [user |-> u, device |-> d,
                                             expires |-> now + SessionTtl,
                                             revoked |-> FALSE]]
    BY <1>1 DEF CreateSession
  <2>2. now + SessionTtl \in Nat
    BY ProxyAuthConstants DEF TypeOK
  <2>3. [user |-> u, device |-> d, expires |-> now + SessionTtl,
         revoked |-> FALSE] \in SessionRow
    BY <2>2 DEF SessionRow
  <2> QED
    BY <1>1, <2>1, <2>3 DEF CreateSession, TypeOK
<1>2. CASE EndSession
  <2>1. PICK s \in Sessions : session[s] # None /\
          session' = [session EXCEPT ![s].revoked = TRUE]
    BY <1>2 DEF EndSession
  <2>2. session[s] \in SessionRow
    BY <2>1 DEF TypeOK
  <2>3. [session[s] EXCEPT !.revoked = TRUE] \in SessionRow
    BY <2>2 DEF SessionRow
  <2> QED
    BY <1>2, <2>1, <2>3 DEF EndSession, TypeOK
<1>3. CASE Restart
  <2>1. Idle \in Attempt
    BY DEF Idle, Attempt, Parked, Answers
  <2> QED
    BY <1>3, <2>1 DEF Restart, TypeOK
<1>4. CASE Tick
  BY <1>4, ProxyAuthConstants DEF Tick, TypeOK
<1>5. ASSUME NEW r \in Attempts, ArriveWithCookie(r)
      PROVE  TypeOK'
  <2>1. PICK d \in Devices,
             s \in {t \in Sessions : session[t] # None} \cup {None} :
          Set(r, NewAttempt("cookie", d, IF s = None THEN None ELSE session[s].user,
                            FALSE, s))
    BY <1>5 DEF ArriveWithCookie
  <2>2. (IF s = None THEN None ELSE session[s].user) \in Users \cup {None}
    BY <2>1 DEF TypeOK, SessionRow
  <2>3. NewAttempt("cookie", d, IF s = None THEN None ELSE session[s].user,
                   FALSE, s) \in Attempt
    BY <2>2, NewAttemptType
  <2>4. attempt' \in [Attempts -> Attempt]
    BY <2>1, <2>3 DEF Set, TypeOK
  <2> QED
    BY <1>5, <2>4 DEF ArriveWithCookie, TypeOK
<1>6. ASSUME NEW r \in Attempts, ArriveWithBasic(r)
      PROVE  TypeOK'
  <2>1. PICK d \in Devices, u \in Users \cup {None}, good \in BOOLEAN :
          /\ \/ Set(r, NewAttempt("basic", d, u, good, None))
             \/ Answer(r, "429")
          /\ ForgetIfExpired(AddressOf[d])
    BY <1>6 DEF ArriveWithBasic
  <2>2. failures' \in [Addresses -> Window \cup {None}]
    BY <2>1, ForgetType DEF Addresses
  <2>3. attempt' \in [Attempts -> Attempt]
    <3>1. CASE Set(r, NewAttempt("basic", d, u, good, None))
      <4>1. NewAttempt("basic", d, u, good, None) \in Attempt
        BY NewAttemptType
      <4> QED
        BY <3>1, <4>1 DEF Set, TypeOK
    <3>2. CASE Answer(r, "429")
      BY <3>2, AnswerType DEF Answers
    <3> QED
      BY <2>1, <3>1, <3>2
  <2> QED
    BY <1>6, <2>2, <2>3 DEF ArriveWithBasic, TypeOK
<1>7. ASSUME NEW r \in Attempts, ArriveWithNothing(r)
      PROVE  TypeOK'
  <2>1. attempt' \in [Attempts -> Attempt]
    BY <1>7, AnswerType DEF ArriveWithNothing, Answers
  <2> QED
    BY <1>7, <2>1 DEF ArriveWithNothing, TypeOK
<1>8. ASSUME NEW r \in Attempts, CheckToken(r)
      PROVE  TypeOK'
  <2>1. attempt' \in [Attempts -> Attempt]
    <3>1. CASE Answer(r, "407")
      BY <3>1, AnswerType DEF Answers
    <3>2. CASE attempt[r].row # None /\ Verify(r, attempt[r].row)
      <4>1. attempt[r].row \in Sessions
        BY <3>2 DEF TypeOK, Attempt
      <4> QED
        BY <3>2, <4>1, VerifyType
    <3> QED
      BY <1>8, <3>1, <3>2 DEF CheckToken
  <2> QED
    BY <1>8, <2>1 DEF CheckToken, TypeOK
<1>9. ASSUME NEW r \in Attempts, CheckPassword(r)
      PROVE  TypeOK'
  <2>1. CASE Park(r, "latest") /\ UNCHANGED failures
    <3>1. attempt' \in [Attempts -> Attempt]
      BY <2>1, ParkType DEF Parked
    <3> QED
      BY <1>9, <2>1, <3>1 DEF CheckPassword, TypeOK
  <2>2. CASE Answer(r, "407") /\ RecordFailure(Address(r))
    <3>1. attempt' \in [Attempts -> Attempt]
      BY <2>2, AnswerType DEF Answers
    <3>2. Address(r) \in Addresses
      BY <1>9, AddressType DEF CheckPassword, At, InFlight, Parked
    <3>3. failures' \in [Addresses -> Window \cup {None}]
      BY <2>2, <3>2, RecordFailureType
    <3> QED
      BY <1>9, <3>1, <3>3 DEF CheckPassword, TypeOK
  <2> QED
    BY <1>9, <2>1, <2>2 DEF CheckPassword
<1>10. ASSUME NEW r \in Attempts, FindLatest(r)
       PROVE  TypeOK'
  <2>0. Address(r) \in Addresses
    BY <1>10, AddressType DEF FindLatest, At, InFlight, Parked
  <2>1. CASE Answer(r, "407") /\ UNCHANGED failures
    <3>1. attempt' \in [Attempts -> Attempt]
      BY <2>1, AnswerType DEF Answers
    <3> QED
      BY <1>10, <2>1, <3>1 DEF FindLatest, TypeOK
  <2>2. CASE \E s \in ActiveOf(attempt[r].user) :
               /\ Verify(r, s)
               /\ IF Matches(r, s) THEN RecordSuccess(Address(r)) ELSE UNCHANGED failures
    <3>1. attempt' \in [Attempts -> Attempt]
      BY <2>2, VerifyType DEF ActiveOf
    <3>2. failures' \in [Addresses -> Window \cup {None}]
      BY <2>0, <2>2, ForgetType DEF TypeOK
    <3> QED
      BY <1>10, <3>1, <3>2 DEF FindLatest, TypeOK
  <2> QED
    BY <1>10, <2>1, <2>2 DEF FindLatest
<1>11. ASSUME NEW r \in Attempts, HandleMismatch(r)
       PROVE  TypeOK'
  <2>0. Address(r) \in Addresses
    BY <1>11, AddressType DEF HandleMismatch, At, InFlight, Parked
  <2>1. CASE /\ session' = [session EXCEPT ![attempt[r].row].revoked = TRUE]
             /\ Answer(r, "407") /\ UNCHANGED failures
    <3>1. attempt' \in [Attempts -> Attempt]
      BY <2>1, AnswerType DEF Answers
    <3>2. attempt[r].row # None
      BY <1>11 DEF HandleMismatch, AttemptInv, Shown, At
    <3>3. attempt[r].row \in Sessions
      BY <3>2 DEF TypeOK, Attempt
    <3>4. session[attempt[r].row] \in SessionRow
      BY <3>2, <3>3 DEF TypeOK, AttemptInv, RowIsNamed
    <3>5. [session[attempt[r].row] EXCEPT !.revoked = TRUE] \in SessionRow
      BY <3>4 DEF SessionRow
    <3>6. session' \in [Sessions -> SessionRow \cup {None}]
      BY <2>1, <3>3, <3>5 DEF TypeOK
    <3> QED
      BY <1>11, <2>1, <3>1, <3>6 DEF HandleMismatch, TypeOK
  <2>2. CASE /\ Park(r, "user") /\ UNCHANGED session
             /\ IF attempt[r].kind = "basic" THEN RecordSuccess(Address(r))
                                             ELSE UNCHANGED failures
    <3>1. attempt' \in [Attempts -> Attempt]
      BY <2>2, ParkType DEF Parked
    <3>2. failures' \in [Addresses -> Window \cup {None}]
      BY <2>0, <2>2, ForgetType DEF TypeOK
    <3> QED
      BY <1>11, <2>2, <3>1, <3>2 DEF HandleMismatch, TypeOK
  <2> QED
    BY <1>11, <2>1, <2>2 DEF HandleMismatch
<1>12. ASSUME NEW r \in Attempts, Authorise(r) \/ DatabaseFails(r)
       PROVE  TypeOK'
  <2>1. attempt' \in [Attempts -> Attempt]
    BY <1>12, AnswerType DEF Authorise, DatabaseFails, Answers
  <2> QED
    BY <1>12, <2>1 DEF Authorise, DatabaseFails, TypeOK
<1>13. CASE UNCHANGED vars
  BY <1>13 DEF vars, TypeOK
<1> QED
  BY <1>1, <1>2, <1>3, <1>4, <1>5, <1>6, <1>7, <1>8, <1>9, <1>10, <1>11, <1>12,
     <1>13 DEF Next, Proceed

\* Types and what the attempts have shown are invariant together
\* (proxy-auth.service.ts:26-131).
LEMMA AuthInvariant == Spec => [](TypeOK /\ AttemptInv)
<1>1. Init => TypeOK /\ AttemptInv
  <2> SUFFICES ASSUME Init
               PROVE  TypeOK /\ AttemptInv
    OBVIOUS
  <2>1. Idle \in Attempt
    BY DEF Idle, Attempt, Parked, Answers
  <2>2. TypeOK
    BY <2>1, ProxyAuthConstants DEF Init, TypeOK
  <2>3. AttemptInv
    BY DEF Init, AttemptInv, RowIsNamed, Shown, InFlight, Parked, Idle
  <2> QED
    BY <2>2, <2>3
<1>2. TypeOK /\ AttemptInv /\ [Next]_vars => TypeOK'
  BY StepKeepsTypes
<1>3. TypeOK /\ AttemptInv /\ [Next]_vars => AttemptInv'
  BY StepKeepsAttempts
<1> QED
  BY <1>1, <1>2, <1>3, PTL DEF Spec

-----------------------------------------------------------------------------
\* The theorems.

\* Everything keeps its type: no window starts at zero, no attempt is parked
\* outside the awaits of authenticate (proxy-auth.service.ts:26-131,
\* proxy-rate-limit.service.ts:13-53).
THEOREM AuthTypeCorrect == Spec => []TypeOK
BY AuthInvariant, PTL

\* Whoever is let through borrows a session of the user named, live during the
\* attempt, and of the same device in strict mode (proxy-auth.service.ts:57-71
\* and 114-131).
THEOREM AttemptsAuthorised == Spec => []AuthorisedBySession
<1>1. AttemptInv => AuthorisedBySession
  BY DEF AttemptInv, RowIsNamed, Shown, AuthorisedBySession, At
<1> QED
  BY <1>1, AuthInvariant, PTL

\* Only an attempt that showed the token or the password of the user ends a
\* session, and only from another device in strict mode (sessions.service.ts:89).
THEOREM OwnersEndSessions == Spec => OnlyOwnersEndSessions
<1>1. TypeOK /\ AttemptInv /\ [Next]_vars =>
        [attempt' # attempt /\ session' # session =>
          \E r \in Attempts :
            LET t == attempt[r] IN
            /\ InFlight(r) /\ t.row # None /\ strict
            /\ t.kind = "cookie" \/ (t.good /\ t.user = session[t.row].user)
            /\ t.device # session[t.row].device
            /\ session' = [session EXCEPT ![t.row].revoked = TRUE]]_vars
  <2> SUFFICES ASSUME TypeOK, AttemptInv, Next, attempt' # attempt, session' # session
               PROVE  \E r \in Attempts :
                        LET t == attempt[r] IN
                        /\ InFlight(r) /\ t.row # None /\ strict
                        /\ t.kind = "cookie" \/ (t.good /\ t.user = session[t.row].user)
                        /\ t.device # session[t.row].device
                        /\ session' = [session EXCEPT ![t.row].revoked = TRUE]
    BY DEF vars
  <2>1. PICK r \in Attempts : HandleMismatch(r)
    BY DEF Next, Proceed, CreateSession, EndSession, Restart, Tick, ArriveWithCookie,
           ArriveWithBasic, ArriveWithNothing, CheckToken, CheckPassword, FindLatest,
           Authorise, DatabaseFails
  <2>2. strict /\ session' = [session EXCEPT ![attempt[r].row].revoked = TRUE]
    BY <2>1 DEF HandleMismatch
  <2>3. attempt[r].step = "mismatch" /\ InFlight(r)
    BY <2>1 DEF HandleMismatch, At, InFlight, Parked
  <2>4. /\ attempt[r].row # None
        /\ attempt[r].kind \in {"cookie", "basic"}
        /\ attempt[r].kind = "basic" => attempt[r].good
        /\ attempt[r].device # session[attempt[r].row].device
    BY <2>3 DEF AttemptInv, Shown
  <2>5. attempt[r].user = session[attempt[r].row].user
    BY <2>4 DEF AttemptInv, RowIsNamed
  <2> QED
    BY <2>2, <2>3, <2>4, <2>5
<1> QED
  BY <1>1, AuthInvariant, PTL DEF Spec, OnlyOwnersEndSessions

-----------------------------------------------------------------------------
\* The limit.

\* Pending attempts are attempts, so there are finitely many.
LEMMA PendingCount ==
  ASSUME NEW P \in SUBSET Attempts, NEW Q \in SUBSET P
  PROVE  /\ Cardinality(Q) \in Nat /\ Cardinality(P) \in Nat
         /\ Cardinality(Attempts) \in Nat
         /\ Cardinality(Q) <= Cardinality(P)
         /\ Cardinality(P) <= Cardinality(Attempts)
<1>1. IsFiniteSet(Attempts)
  BY ProxyAuthConstants
<1>2. IsFiniteSet(P)
  BY <1>1, FS_Subset
<1>3. IsFiniteSet(Q)
  BY <1>2, FS_Subset
<1> QED
  BY <1>1, <1>2, <1>3, FS_Subset, FS_CardinalityType

\* One pending attempt fewer leaves room for one failure more.
LEMMA PendingLeaves ==
  ASSUME NEW P \in SUBSET Attempts, NEW r \in P
  PROVE  Cardinality(P \ {r}) = Cardinality(P) - 1
<1>1. IsFiniteSet(P)
  BY ProxyAuthConstants, FS_Subset
<1> QED
  BY <1>1, FS_RemoveElement

\* The type of a window's count.
LEMMA CountType ==
  ASSUME TypeOK, NEW a \in Addresses, failures[a] # None
  PROVE  failures[a].count \in Nat \ {0}
BY DEF TypeOK, Window

\* An attempt that is parked elsewhere, or answered, is pending nowhere.
LEMMA PendingShrinks ==
  ASSUME NEW r \in Attempts, NEW a \in Addresses,
         \A q \in Attempts \ {r} : attempt'[q] = attempt[q],
         attempt'[r].step # "password"
  PROVE  Pending(a)' \in SUBSET (Pending(a) \ {r})
BY DEF Pending, At, Address

\* Where no failure is counted and no attempt arrives, the budget holds.
LEMMA QuietStaysWithin ==
  ASSUME TypeOK, NEW a \in Addresses, Within(a),
         failures'[a] \in {failures[a], None},
         Pending(a)' \in SUBSET Pending(a)
  PROVE  Within(a)'
<1>1. Pending(a) \in SUBSET Attempts
  BY DEF Pending
<1>2. /\ Cardinality(Pending(a)') \in Nat /\ Cardinality(Pending(a)) \in Nat
      /\ Cardinality(Attempts) \in Nat
      /\ Cardinality(Pending(a)') <= Cardinality(Pending(a))
  BY <1>1, PendingCount
<1>3. CASE failures'[a] = None
  BY <1>3 DEF Within
<1>4. CASE failures'[a] = failures[a] /\ failures[a] # None
  <2>1. failures[a].count \in Nat
    BY <1>4, CountType
  <2>2. failures[a].count + Cardinality(Pending(a))
          <= AuthLimit - 1 + Cardinality(Attempts)
    BY <1>4 DEF Within
  <2>3. failures[a].count + Cardinality(Pending(a)')
          <= AuthLimit - 1 + Cardinality(Attempts)
    BY <1>2, <2>1, <2>2, ProxyAuthConstants
  <2> QED
    BY <1>4, <2>3 DEF Within
<1> QED
  BY <1>3, <1>4

\* A step of one attempt that is not parked at the password afterwards, and
\* that counts no failure.
LEMMA QuietStep ==
  ASSUME TypeOK, Budget, NEW r \in Attempts,
         \A q \in Attempts \ {r} : attempt'[q] = attempt[q],
         attempt'[r].step # "password",
         \A a \in Addresses : failures'[a] \in {failures[a], None}
  PROVE  Budget'
BY PendingShrinks, QuietStaysWithin DEF Budget

\* An attempt passes the check of the limit and is pending from now on
\* (proxy-auth.service.ts:87): its address has counted less than the limit.
LEMMA ArrivalStaysWithin ==
  ASSUME TypeOK, Budget, NEW r \in Attempts, ArriveWithBasic(r)
  PROVE  Budget'
<1>1. PICK d \in Devices, u \in Users \cup {None}, good \in BOOLEAN :
        /\ \/ /\ ~Blocked(AddressOf[d])
              /\ Set(r, NewAttempt("basic", d, u, good, None))
           \/ Answer(r, "429")
        /\ ForgetIfExpired(AddressOf[d])
  BY DEF ArriveWithBasic
<1>2. \A a \in Addresses : failures'[a] \in {failures[a], None}
  BY <1>1 DEF ForgetIfExpired, TypeOK
<1>3. CASE Answer(r, "429")
  <2>1. attempt'[r].step = "429"
    BY <1>3 DEF Answer, Set, Idle, TypeOK
  <2>2. \A q \in Attempts \ {r} : attempt'[q] = attempt[q]
    BY <1>3 DEF Answer, Set, TypeOK
  <2> QED
    BY <1>2, <2>1, <2>2, QuietStep
<1>4. CASE /\ ~Blocked(AddressOf[d])
           /\ Set(r, NewAttempt("basic", d, u, good, None))
  <2> SUFFICES ASSUME NEW a \in Addresses
               PROVE  Within(a)'
    BY DEF Budget
  <2>1. /\ \A q \in Attempts \ {r} : attempt'[q] = attempt[q]
        /\ attempt'[r] = NewAttempt("basic", d, u, good, None)
    BY <1>4 DEF Set, TypeOK
  <2>2. attempt'[r].device = d
    BY <2>1 DEF NewAttempt
  <2>3. CASE a # AddressOf[d]
    <3>1. Pending(a)' \in SUBSET Pending(a)
      BY <2>1, <2>2, <2>3 DEF Pending, At, Address
    <3> QED
      BY <1>2, <3>1, QuietStaysWithin DEF Budget
  <2>4. CASE a = AddressOf[d] /\ failures'[a] # None
    <3>1. failures'[a] = failures[a] /\ failures[a] # None /\ ~Expired(a)
      BY <1>1, <1>2, <2>4 DEF ForgetIfExpired, TypeOK
    <3>2. failures[a].count \in Nat
      BY <3>1, CountType
    <3>3. failures[a].count < AuthLimit
      BY <1>4, <2>4, <3>1, <3>2, ProxyAuthConstants DEF Blocked
    <3>4. /\ Cardinality(Pending(a)') \in Nat /\ Cardinality(Attempts) \in Nat
          /\ Cardinality(Pending(a)') <= Cardinality(Attempts)
      <4>1. Pending(a)' \in SUBSET Attempts
        BY DEF Pending
      <4> QED
        BY <4>1, PendingCount
    <3>5. failures[a].count + Cardinality(Pending(a)')
            <= AuthLimit - 1 + Cardinality(Attempts)
      BY <3>2, <3>3, <3>4, ProxyAuthConstants
    <3> QED
      BY <3>1, <3>5 DEF Within
  <2>5. CASE failures'[a] = None
    BY <2>5 DEF Within
  <2> QED
    BY <2>3, <2>4, <2>5
<1> QED
  BY <1>1, <1>3, <1>4

\* A failure is counted, and the attempt that counts it is pending no longer
\* (proxy-auth.service.ts:98-104, proxy-rate-limit.service.ts:27-37).
LEMMA FailureStaysWithin ==
  ASSUME TypeOK, Budget, NEW r \in Attempts, At(r, "password"),
         Address(r) \in Addresses, Answer(r, "407"), RecordFailure(Address(r))
  PROVE  Budget'
<1> SUFFICES ASSUME NEW a \in Addresses
             PROVE  Within(a)'
  BY DEF Budget
<1>1. attempt'[r].step = "407"
  BY DEF Answer, Set, Idle, TypeOK
<1>2. \A q \in Attempts \ {r} : attempt'[q] = attempt[q]
  BY DEF Answer, Set, TypeOK
<1>3. Pending(a)' \in SUBSET (Pending(a) \ {r})
  BY <1>1, <1>2, PendingShrinks
<1>4. CASE a # Address(r)
  <2>1. failures'[a] \in {failures[a], None}
    BY <1>4 DEF RecordFailure
  <2>2. Pending(a)' \in SUBSET Pending(a)
    BY <1>3
  <2> QED
    BY <2>1, <2>2, QuietStaysWithin DEF Budget
<1>5. CASE a = Address(r)
  <2>1. Pending(a) \in SUBSET Attempts /\ r \in Pending(a)
    BY <1>5 DEF Pending
  <2>2. Cardinality(Pending(a) \ {r}) = Cardinality(Pending(a)) - 1
    BY <2>1, PendingLeaves
  <2>3. /\ Pending(a) \ {r} \in SUBSET Attempts
        /\ Pending(a) \ {r} \in SUBSET Pending(a)
    BY <2>1
  <2>4. /\ Cardinality(Pending(a)') \in Nat /\ Cardinality(Pending(a) \ {r}) \in Nat
        /\ Cardinality(Pending(a)') <= Cardinality(Pending(a) \ {r})
    BY <1>3, <2>3, PendingCount
  <2>5. /\ Cardinality(Pending(a)) \in Nat /\ Cardinality(Attempts) \in Nat
        /\ Cardinality(Pending(a)) <= Cardinality(Attempts)
    BY <2>1, PendingCount
  <2>6. CASE failures[a] # None /\ ~Expired(a)
    <3>1. failures[a] \in Window
      BY <2>6 DEF TypeOK
    <3>2. failures'[a] = [failures[a] EXCEPT !.count = @ + 1]
      BY <1>5, <2>6 DEF RecordFailure
    <3>3. failures'[a].count = failures[a].count + 1
      BY <3>1, <3>2 DEF Window
    <3>4. failures[a].count + Cardinality(Pending(a))
            <= AuthLimit - 1 + Cardinality(Attempts)
      BY <2>6 DEF Budget, Within
    <3>5. failures[a].count \in Nat
      BY <2>6, CountType
    <3>6. failures'[a].count + Cardinality(Pending(a)')
            <= AuthLimit - 1 + Cardinality(Attempts)
      BY <2>2, <2>4, <2>5, <3>3, <3>4, <3>5, ProxyAuthConstants
    <3> QED
      BY <3>6 DEF Within
  <2>7. CASE ~(failures[a] # None /\ ~Expired(a))
    <3>1. failures'[a] = [count |-> 1, first |-> now]
      BY <1>5, <2>7, NoneIsNoRecord DEF RecordFailure
    <3>2. failures'[a].count = 1
      BY <3>1
    <3>3. 1 + Cardinality(Pending(a)') <= AuthLimit - 1 + Cardinality(Attempts)
      BY <2>2, <2>4, <2>5, ProxyAuthConstants
    <3> QED
      BY <3>2, <3>3 DEF Within
  <2> QED
    BY <2>6, <2>7
<1> QED
  BY <1>4, <1>5

\* Every step stays within the budget.
LEMMA StepKeepsBudget == TypeOK /\ AttemptInv /\ Budget /\ [Next]_vars => Budget'
<1> SUFFICES ASSUME TypeOK, AttemptInv, Budget, [Next]_vars
             PROVE  Budget'
  OBVIOUS
<1>0. ASSUME NEW r \in Attempts, NEW c \in Answers, Answer(r, c),
             \A a \in Addresses : failures'[a] \in {failures[a], None}
      PROVE  Budget'
  <2>1. attempt'[r].step = c /\ c # "password"
    BY <1>0 DEF Answer, Set, Idle, TypeOK, Answers
  <2>2. \A q \in Attempts \ {r} : attempt'[q] = attempt[q]
    BY <1>0 DEF Answer, Set, TypeOK
  <2> QED
    BY <1>0, <2>1, <2>2, QuietStep
<1>1. ASSUME NEW r \in Attempts, NEW s \in Parked \ {"password"},
             Park(r, s) \/ (\E t \in Sessions : Verify(r, t)),
             \A a \in Addresses : failures'[a] \in {failures[a], None}
      PROVE  Budget'
  <2>1. attempt[r] \in Attempt
    BY DEF TypeOK
  <2>2. attempt'[r].step # "password"
    <3>1. CASE Park(r, s)
      BY <2>1, <3>1 DEF Park, TypeOK, Attempt
    <3>2. ASSUME NEW t \in Sessions, Verify(r, t)
          PROVE  attempt'[r].step \in {"user", "mismatch"}
      <4>1. attempt'[r] = [attempt[r] EXCEPT !.row = t, !.live = Active(t),
                             !.step = IF Matches(r, t) THEN "user" ELSE "mismatch"]
        BY <3>2 DEF Verify, TypeOK
      <4> QED
        BY <2>1, <4>1 DEF Attempt
    <3> QED
      BY <1>1, <3>1, <3>2
  <2>3. \A q \in Attempts \ {r} : attempt'[q] = attempt[q]
    BY <1>1 DEF Park, Verify, TypeOK
  <2> QED
    BY <1>1, <2>2, <2>3, QuietStep
<1>2. CASE UNCHANGED <<attempt, failures>>
  BY <1>2 DEF Budget, Within, Pending, At, Address
<1>3. CASE Restart
  BY <1>3 DEF Restart, Budget, Within
<1>4. ASSUME NEW r \in Attempts, ArriveWithCookie(r)
      PROVE  Budget'
  <2>1. PICK d \in Devices,
             s \in {t \in Sessions : session[t] # None} \cup {None} :
          Set(r, NewAttempt("cookie", d, IF s = None THEN None ELSE session[s].user,
                            FALSE, s))
    BY <1>4 DEF ArriveWithCookie
  <2>2. attempt'[r].step = "token"
    BY <2>1 DEF Set, NewAttempt, TypeOK
  <2>3. \A q \in Attempts \ {r} : attempt'[q] = attempt[q]
    BY <2>1 DEF Set, TypeOK
  <2>4. \A a \in Addresses : failures'[a] \in {failures[a], None}
    BY <1>4 DEF ArriveWithCookie
  <2> QED
    BY <2>2, <2>3, <2>4, QuietStep
<1>5. ASSUME NEW r \in Attempts, ArriveWithBasic(r)
      PROVE  Budget'
  BY <1>5, ArrivalStaysWithin
<1>6. ASSUME NEW r \in Attempts,
             ArriveWithNothing(r) \/ Authorise(r) \/ DatabaseFails(r)
      PROVE  Budget'
  BY <1>0, <1>6 DEF ArriveWithNothing, Authorise, DatabaseFails, Answers
<1>7. ASSUME NEW r \in Attempts, CheckToken(r)
      PROVE  Budget'
  <2>1. \A a \in Addresses : failures'[a] \in {failures[a], None}
    BY <1>7 DEF CheckToken
  <2>2. CASE Answer(r, "407")
    BY <1>0, <2>1, <2>2 DEF Answers
  <2>3. CASE attempt[r].row # None /\ Verify(r, attempt[r].row)
    <3>1. attempt[r].row \in Sessions
      BY <2>3 DEF TypeOK, Attempt
    <3> QED
      BY <1>1, <2>1, <2>3, <3>1 DEF Parked
  <2> QED
    BY <1>7, <2>2, <2>3 DEF CheckToken
<1>8. ASSUME NEW r \in Attempts, CheckPassword(r)
      PROVE  Budget'
  <2>1. CASE Park(r, "latest") /\ UNCHANGED failures
    BY <1>1, <2>1 DEF Parked
  <2>2. CASE Answer(r, "407") /\ RecordFailure(Address(r))
    <3>1. Address(r) \in Addresses
      BY <1>8, AddressType DEF CheckPassword, At, InFlight, Parked
    <3> QED
      BY <1>8, <2>2, <3>1, FailureStaysWithin DEF CheckPassword
  <2> QED
    BY <1>8, <2>1, <2>2 DEF CheckPassword
<1>9. ASSUME NEW r \in Attempts, FindLatest(r)
      PROVE  Budget'
  <2>1. \A a \in Addresses : failures'[a] \in {failures[a], None}
    BY <1>9 DEF FindLatest, RecordSuccess, TypeOK
  <2>2. CASE Answer(r, "407")
    BY <1>0, <2>1, <2>2 DEF Answers
  <2>3. CASE \E s \in Sessions : Verify(r, s)
    BY <1>1, <2>1, <2>3 DEF Parked
  <2> QED
    BY <1>9, <2>2, <2>3 DEF FindLatest, ActiveOf
<1>10. ASSUME NEW r \in Attempts, HandleMismatch(r)
       PROVE  Budget'
  <2>1. \A a \in Addresses : failures'[a] \in {failures[a], None}
    BY <1>10 DEF HandleMismatch, RecordSuccess, TypeOK
  <2>2. CASE Answer(r, "407")
    BY <1>0, <2>1, <2>2 DEF Answers
  <2>3. CASE Park(r, "user")
    BY <1>1, <2>1, <2>3 DEF Parked
  <2> QED
    BY <1>10, <2>2, <2>3 DEF HandleMismatch
<1> QED
  BY <1>2, <1>3, <1>4, <1>5, <1>6, <1>7, <1>8, <1>9, <1>10
  DEF Next, Proceed, CreateSession, EndSession, Tick, vars

\* Concurrent attempts exceed the limit of failures by fewer than there are
\* attempts in flight (proxy-auth.service.ts:87 and 98-104).
THEOREM FailuresStayBounded == Spec => []FailuresBounded
<1>1. Init => Budget
  BY DEF Init, Budget, Within
<1>2. Budget /\ TypeOK => FailuresBounded
  <2> SUFFICES ASSUME Budget, TypeOK, NEW a \in Addresses, failures[a] # None
               PROVE  failures[a].count < AuthLimit + Cardinality(Attempts)
    BY DEF FailuresBounded
  <2>1. Pending(a) \in SUBSET Attempts
    BY DEF Pending
  <2>2. Cardinality(Pending(a)) \in Nat /\ Cardinality(Attempts) \in Nat
    BY <2>1, PendingCount
  <2>3. failures[a].count \in Nat
    BY CountType
  <2>4. failures[a].count + Cardinality(Pending(a))
          <= AuthLimit - 1 + Cardinality(Attempts)
    BY DEF Budget, Within
  <2> QED
    BY <2>2, <2>3, <2>4, ProxyAuthConstants
<1> QED
  BY <1>1, <1>2, AuthInvariant, StepKeepsBudget, PTL DEF Spec

-----------------------------------------------------------------------------
\* The block.

\* What may lift a block.
Lifted(a) ==
  \/ now' - failures[a].first > AuthTtl
  \/ \E r \in Attempts : /\ At(r, "latest") \/ At(r, "mismatch")
                         /\ attempt[r].good /\ Address(r) = a
                         /\ At(r, "user")'
  \/ \A r \in Attempts : attempt'[r] = Idle

\* A window that is neither touched nor over still blocks.
LEMMA UntouchedBlocks ==
  ASSUME NEW a \in Addresses, Blocked(a), failures'[a] = failures[a], now' = now
  PROVE  Blocked(a)'
BY DEF Blocked, Expired

\* Counting or pruning lifts no block (proxy-rate-limit.service.ts:27-53).
LEMMA FailureKeepsBlock ==
  ASSUME TypeOK, NEW a \in Addresses, NEW b \in Addresses, Blocked(a),
         RecordFailure(b), now' = now
  PROVE  Blocked(a)'
<1>1. failures[a] \in Window /\ failures[a] # None /\ ~Expired(a)
  BY DEF Blocked, TypeOK
<1>2. CASE a = b
  <2>1. failures'[a] = [failures[a] EXCEPT !.count = @ + 1]
    BY <1>1, <1>2 DEF RecordFailure
  <2>2. /\ failures'[a].count = failures[a].count + 1
        /\ failures'[a].first = failures[a].first
        /\ failures'[a] \in Window
    BY <1>1, <2>1 DEF Window
  <2>3. failures'[a] # None
    BY <2>2, NoneIsNoRecord
  <2>4. failures[a].count \in Nat /\ failures[a].count >= AuthLimit
    BY <1>1 DEF Blocked, Window
  <2>5. failures'[a].count >= AuthLimit
    BY <2>2, <2>4, ProxyAuthConstants
  <2>6. ~Expired(a)'
    BY <1>1, <2>2 DEF Expired
  <2> QED
    BY <2>3, <2>5, <2>6 DEF Blocked
<1>3. CASE a # b
  <2>1. failures'[a] = failures[a]
    BY <1>1, <1>3 DEF RecordFailure
  <2> QED
    BY <2>1, UntouchedBlocks
<1> QED
  BY <1>2, <1>3

\* One step lifts a block only in the three ways of Lifted.
LEMMA StepKeepsBlock ==
  ASSUME TypeOK, AttemptInv, [Next]_vars, NEW a \in Addresses, Blocked(a), ~Blocked(a)'
  PROVE  Lifted(a)
<1>0. failures'[a] # failures[a] \/ now' # now
  BY UntouchedBlocks
<1>1. CASE Tick
  <2>1. failures'[a] = failures[a]
    BY <1>1 DEF Tick
  <2>2. Expired(a)'
    BY <2>1 DEF Blocked
  <2> QED
    BY <2>1, <2>2 DEF Expired, Lifted
<1>2. CASE Restart
  BY <1>2 DEF Restart, Lifted
<1>3. ASSUME NEW r \in Attempts, ArriveWithBasic(r)
      PROVE  FALSE
  <2>1. PICK d \in Devices : ForgetIfExpired(AddressOf[d])
    BY <1>3 DEF ArriveWithBasic
  <2>2. failures'[a] = failures[a]
    BY <2>1 DEF ForgetIfExpired, Blocked, TypeOK
  <2> QED
    BY <1>0, <1>3, <2>2 DEF ArriveWithBasic
<1>4. ASSUME NEW r \in Attempts, CheckPassword(r)
      PROVE  FALSE
  <2>1. Address(r) \in Addresses
    BY <1>4, AddressType DEF CheckPassword, At, InFlight, Parked
  <2>2. now' = now /\ RecordFailure(Address(r))
    BY <1>0, <1>4 DEF CheckPassword
  <2> QED
    BY <2>1, <2>2, FailureKeepsBlock
<1>5. ASSUME NEW r \in Attempts, FindLatest(r)
      PROVE  Lifted(a)
  <2>1. PICK s \in ActiveOf(attempt[r].user) :
          Verify(r, s) /\ Matches(r, s) /\ RecordSuccess(Address(r))
    BY <1>0, <1>5 DEF FindLatest
  <2>2. Address(r) = a
    BY <1>0, <1>5, <2>1 DEF FindLatest, RecordSuccess, TypeOK
  <2>3. At(r, "latest") /\ attempt[r].good
    BY <1>5 DEF FindLatest, AttemptInv, Shown, At
  <2>4. attempt'[r] = [attempt[r] EXCEPT !.row = s, !.live = Active(s),
                                     !.step = "user"]
    BY <2>1 DEF Verify, TypeOK
  <2>5. attempt[r] \in Attempt
    BY DEF TypeOK
  <2>6. At(r, "user")'
    BY <2>4, <2>5 DEF At, Attempt
  <2> QED
    BY <2>2, <2>3, <2>6 DEF Lifted
<1>6. ASSUME NEW r \in Attempts, HandleMismatch(r)
      PROVE  Lifted(a)
  <2>1. Park(r, "user") /\ attempt[r].kind = "basic" /\ RecordSuccess(Address(r))
    BY <1>0, <1>6 DEF HandleMismatch
  <2>2. Address(r) = a
    BY <1>0, <1>6, <2>1 DEF HandleMismatch, RecordSuccess, TypeOK
  <2>3. At(r, "mismatch") /\ attempt[r].good
    BY <1>6, <2>1 DEF HandleMismatch, AttemptInv, Shown, At
  <2>4. attempt[r] \in Attempt
    BY DEF TypeOK
  <2>5. At(r, "user")'
    BY <2>1, <2>4 DEF Park, At, TypeOK, Attempt
  <2> QED
    BY <2>2, <2>3, <2>5 DEF Lifted
<1> QED
  BY <1>0, <1>1, <1>2, <1>3, <1>4, <1>5, <1>6
  DEF Next, Proceed, CreateSession, EndSession, ArriveWithCookie, ArriveWithNothing,
      CheckToken, Authorise, DatabaseFails, vars

\* A blocked address stays blocked until its window is over, a valid password
\* deletes the window, or the process restarts (proxy-rate-limit.service.ts:39).
THEOREM BlocksLast == Spec => BlockLasts
<1>1. TypeOK /\ AttemptInv /\ [Next]_vars =>
        [\A a \in Addresses :
           Blocked(a) /\ ~Blocked(a)' =>
             \/ now' - failures[a].first > AuthTtl
             \/ \E r \in Attempts : /\ At(r, "latest") \/ At(r, "mismatch")
                                    /\ attempt[r].good /\ Address(r) = a
                                    /\ At(r, "user")'
             \/ \A r \in Attempts : attempt'[r] = Idle]_vars
  BY StepKeepsBlock DEF Lifted
<1> QED
  BY <1>1, AuthInvariant, PTL DEF Spec, BlockLasts

-----------------------------------------------------------------------------
\* ProxyAuth implements AttemptLimit.

Counts   == [a \in Addresses |-> IF failures[a] = None THEN 0 ELSE failures[a].count]
Checking == [a \in Addresses |-> Pending(a)]

\* Windows that are deleted are counts that start anew.
LEMMA WindowsForgotten ==
  ASSUME \A a \in Addresses : failures'[a] \in {failures[a], None}
  PROVE  Counts' = Limited!Anew({a \in Addresses : failures'[a] = None})
BY DEF Counts, Limited!Anew

\* An attempt that is not at its password, before and after, is checked nowhere.
LEMMA CheckingStays ==
  ASSUME NEW r \in Attempts, \A q \in Attempts \ {r} : attempt'[q] = attempt[q],
         ~At(r, "password"), ~At(r, "password")'
  PROVE  Checking' = Checking
<1>1. \A a \in Addresses : Pending(a)' = Pending(a)
  BY DEF Pending, At, Address
<1> QED
  BY <1>1 DEF Checking

\* An attempt that leaves its password leaves the address it came from.
LEMMA CheckingLeaves ==
  ASSUME NEW r \in Attempts, \A q \in Attempts \ {r} : attempt'[q] = attempt[q],
         At(r, "password"), ~At(r, "password")', Address(r) \in Addresses
  PROVE  /\ r \in Checking[Address(r)]
         /\ Checking' = [Checking EXCEPT ![Address(r)] = @ \ {r}]
<1> PICK b \in Addresses : b = Address(r)
  OBVIOUS
<1>1. r \in Pending(b)
  BY DEF Pending
<1>2. \A a \in Addresses :
        Pending(a)' = IF a = b THEN Pending(a) \ {r} ELSE Pending(a)
  BY DEF Pending, At, Address
<1> QED
  BY <1>1, <1>2 DEF Checking

\* An attempt that comes to its password enters the address it comes from.
LEMMA CheckingEnters ==
  ASSUME NEW r \in Attempts, \A q \in Attempts \ {r} : attempt'[q] = attempt[q],
         ~At(r, "password"), At(r, "password")', NEW b \in Addresses, Address(r)' = b
  PROVE  Checking' = [Checking EXCEPT ![b] = @ \cup {r}]
<1>1. \A a \in Addresses :
        Pending(a)' = IF a = b THEN Pending(a) \cup {r} ELSE Pending(a)
  BY DEF Pending, At, Address
<1> QED
  BY <1>1 DEF Checking

\* A step that counts nothing, of an attempt that is not at its password.
LEMMA ForgetsOrStutters ==
  ASSUME \A a \in Addresses : failures'[a] \in {failures[a], None},
         Checking' = Checking
  PROVE  [Limited!Next]_(Limited!limitVars)
<1> PICK F \in SUBSET Addresses : F = {a \in Addresses : failures'[a] = None}
  OBVIOUS
<1>1. Limited!Forget(F)
  BY WindowsForgotten DEF Limited!Forget, Counts, Checking
<1> QED
  BY <1>1 DEF Limited!Next

\* An attempt that leaves its password without a failure.
LEMMA LeavesPassword ==
  ASSUME NEW r \in Attempts, \A q \in Attempts \ {r} : attempt'[q] = attempt[q],
         At(r, "password"), ~At(r, "password")', Address(r) \in Addresses,
         UNCHANGED failures
  PROVE  [Limited!Next]_(Limited!limitVars)
<1>1. Counts' = Counts
  BY DEF Counts
<1>2. Limited!Leave(r, Address(r))
  BY <1>1, CheckingLeaves DEF Limited!Leave, Counts, Checking
<1> QED
  BY <1>2 DEF Limited!Next

\* A wrong password counts once, whatever windows are pruned with it
\* (proxy-rate-limit.service.ts:27-53).
LEMMA MissesPassword ==
  ASSUME TypeOK, NEW r \in Attempts, At(r, "password"), Address(r) \in Addresses,
         Answer(r, "407"), RecordFailure(Address(r))
  PROVE  [Limited!Next]_(Limited!limitVars)
<1> PICK b \in Addresses : b = Address(r)
  OBVIOUS
<1> PICK F \in SUBSET Addresses :
      F = {a \in Addresses : failures[a] # None /\ Expired(a)}
  OBVIOUS
<1>1. attempt'[r].step = "407" /\ \A q \in Attempts \ {r} : attempt'[q] = attempt[q]
  BY DEF Answer, Set, Idle, TypeOK
<1>2. /\ r \in Checking[b]
      /\ Checking' = [Checking EXCEPT ![b] = @ \ {r}]
  BY <1>1, CheckingLeaves DEF At
<1>3. \A a \in Addresses \ {b} : Counts'[a] = Limited!Anew(F)[a]
  BY DEF RecordFailure, Counts, Limited!Anew
<1>4. Counts'[b] = Limited!Anew(F)[b] + 1
  <2>1. CASE failures[b] # None /\ b \notin F
    <3>1. failures[b] \in Window /\ failures[b].count \in Nat
      BY <2>1 DEF TypeOK, Window
    <3>2. failures'[b] = [failures[b] EXCEPT !.count = @ + 1]
      BY <2>1 DEF RecordFailure
    <3>3. failures'[b] \in Window /\ failures'[b].count = failures[b].count + 1
      BY <3>1, <3>2 DEF Window
    <3>4. failures'[b] # None
      BY <3>3, NoneIsNoRecord
    <3> QED
      BY <2>1, <3>3, <3>4 DEF Counts, Limited!Anew
  <2>2. CASE failures[b] = None \/ b \in F
    <3>1. failures'[b] = [count |-> 1, first |-> now]
      BY <2>2, NoneIsNoRecord DEF RecordFailure
    <3>2. failures'[b] # None
      <4>1. [count |-> 1, first |-> now] \in Window
        BY DEF TypeOK, Window
      <4> QED
        BY <3>1, <4>1, NoneIsNoRecord
    <3>3. Counts'[b] = 1 /\ Limited!Anew(F)[b] = 0
      BY <2>2, <3>1, <3>2 DEF Counts, Limited!Anew
    <3> QED
      BY <3>3
  <2> QED
    BY <2>1, <2>2
<1>5. Counts' = [Limited!Anew(F) EXCEPT ![b] = @ + 1]
  <2>1. Limited!Anew(F) = [a \in Addresses |-> Limited!Anew(F)[a]]
    BY DEF Limited!Anew
  <2>2. Counts' = [a \in Addresses |-> Counts'[a]]
    BY DEF Counts
  <2> QED
    BY <1>3, <1>4, <2>1, <2>2
<1>6. Limited!Miss(r, b)
  BY <1>2, <1>5 DEF Limited!Miss, Counts, Checking
<1> QED
  BY <1>6 DEF Limited!Next

\* An attempt is let in below the limit, or answered at once
\* (proxy-auth.service.ts:82-92).
LEMMA ArrivesAtLimit ==
  ASSUME TypeOK, NEW r \in Attempts, ArriveWithBasic(r)
  PROVE  [Limited!Next]_(Limited!limitVars)
<1>1. PICK d \in Devices, u \in Users \cup {None}, good \in BOOLEAN :
        /\ \/ /\ ~Blocked(AddressOf[d])
              /\ Set(r, NewAttempt("basic", d, u, good, None))
           \/ Answer(r, "429")
        /\ ForgetIfExpired(AddressOf[d])
  BY DEF ArriveWithBasic
<1> PICK b \in Addresses : b = AddressOf[d]
  BY DEF Addresses
<1>2. \A a \in Addresses : failures'[a] \in {failures[a], None}
  BY <1>1 DEF ForgetIfExpired, TypeOK
<1>3. ~At(r, "password")
  BY DEF ArriveWithBasic, InFlight, At, Parked
<1>4. CASE Answer(r, "429")
  <2>1. ~At(r, "password")' /\ \A q \in Attempts \ {r} : attempt'[q] = attempt[q]
    BY <1>4 DEF Answer, Set, Idle, TypeOK, At
  <2> QED
    BY <1>2, <1>3, <2>1, CheckingStays, ForgetsOrStutters
<1>5. CASE ~Blocked(b) /\ Set(r, NewAttempt("basic", d, u, good, None))
  <2>1. /\ attempt'[r] = NewAttempt("basic", d, u, good, None)
        /\ \A q \in Attempts \ {r} : attempt'[q] = attempt[q]
    BY <1>5 DEF Set, TypeOK
  <2>2. At(r, "password")' /\ Address(r)' = b
    BY <2>1 DEF NewAttempt, At, Address
  <2>3. Checking' = [Checking EXCEPT ![b] = @ \cup {r}]
    BY <1>3, <2>1, <2>2, CheckingEnters
  <2> PICK F : F = {a \in Addresses : failures'[a] = None}
    OBVIOUS
  <2>4. \A a \in Addresses \ {b} : failures'[a] = failures[a]
    BY <1>1 DEF ForgetIfExpired, TypeOK
  <2>5. Counts' = Limited!Anew(F \cap {b})
    BY <1>2, <2>4 DEF Counts, Limited!Anew
  <2>6. Counts'[b] < AuthLimit
    <3>1. CASE failures'[b] = None
      BY <3>1, ProxyAuthConstants DEF Counts
    <3>2. CASE failures'[b] # None
      <4>1. failures'[b] = failures[b] /\ failures[b] # None /\ ~Expired(b)
        BY <1>1, <1>2, <3>2 DEF ForgetIfExpired, TypeOK
      <4>2. failures[b].count \in Nat
        BY <4>1, CountType
      <4> QED
        BY <1>5, <4>1, <4>2, ProxyAuthConstants DEF Blocked, Counts
    <3> QED
      BY <3>1, <3>2
  <2>7. Limited!Admit(r, b)
    <3>1. F \cap {b} \in SUBSET {b}
      OBVIOUS
    <3> QED
      BY <2>3, <2>5, <2>6, <3>1 DEF Limited!Admit, Counts, Checking
  <2> QED
    BY <2>7 DEF Limited!Next
<1> QED
  BY <1>1, <1>4, <1>5

\* A restart forgets windows and attempts.
LEMMA RestartsLimit ==
  ASSUME Restart
  PROVE  [Limited!Next]_(Limited!limitVars)
<1>1. Counts' = [a \in Addresses |-> 0]
  BY DEF Restart, Counts
<1>2. Checking' = [a \in Addresses |-> {}]
  <2>1. \A a \in Addresses : Pending(a)' = {}
    BY DEF Restart, Pending, At, Idle
  <2> QED
    BY <2>1 DEF Checking
<1>3. Limited!Restart
  BY <1>1, <1>2 DEF Limited!Restart, Counts, Checking
<1> QED
  BY <1>3 DEF Limited!Next

\* A step of an attempt that does not stay at its password, and counts nothing.
LEMMA MovesOn ==
  ASSUME TypeOK, AttemptInv, NEW r \in Attempts,
         \A q \in Attempts \ {r} : attempt'[q] = attempt[q],
         ~At(r, "password")',
         \A a \in Addresses : failures'[a] \in {failures[a], None},
         At(r, "password") => UNCHANGED failures
  PROVE  [Limited!Next]_(Limited!limitVars)
<1>1. CASE At(r, "password")
  <2>1. Address(r) \in Addresses
    BY <1>1, AddressType DEF At, InFlight, Parked
  <2> QED
    BY <1>1, <2>1, LeavesPassword
<1>2. CASE ~At(r, "password")
  BY <1>2, CheckingStays, ForgetsOrStutters
<1> QED
  BY <1>1, <1>2

\* ProxyAuth implements AttemptLimit: no interleaving of arrivals, verifications,
\* pruning and restarts lets a password be looked at above the limit, or counts an
\* attempt twice (proxy-rate-limit.service.ts:13-53, proxy-auth.service.ts:82-130).
THEOREM LimitKept == Spec => KeepsLimit
<1>1. Init => Limited!Init
  <2> SUFFICES ASSUME Init
               PROVE  Limited!Init
    OBVIOUS
  <2>1. Counts = [a \in Addresses |-> 0]
    BY DEF Init, Counts
  <2>2. \A a \in Addresses : Pending(a) = {}
    BY DEF Init, Pending, At, Idle
  <2> QED
    BY <2>1, <2>2 DEF Limited!Init, Counts
<1>2. TypeOK /\ AttemptInv /\ [Next]_vars => [Limited!Next]_(Limited!limitVars)
  <2> SUFFICES ASSUME TypeOK, AttemptInv, [Next]_vars
               PROVE  [Limited!Next]_(Limited!limitVars)
    OBVIOUS
  <2>1. ASSUME NEW r \in Attempts, NEW c \in Answers, Answer(r, c),
               \A a \in Addresses : failures'[a] \in {failures[a], None},
               At(r, "password") => UNCHANGED failures
        PROVE  [Limited!Next]_(Limited!limitVars)
    <3>1. ~At(r, "password")' /\ \A q \in Attempts \ {r} : attempt'[q] = attempt[q]
      BY <2>1 DEF Answer, Set, Idle, TypeOK, Answers, At
    <3> QED
      BY <2>1, <3>1, MovesOn
  <2>2. ASSUME NEW r \in Attempts, NEW s \in Parked \ {"password"},
               Park(r, s) \/ (\E t \in Sessions : Verify(r, t)),
               \A a \in Addresses : failures'[a] \in {failures[a], None},
               At(r, "password") => UNCHANGED failures
        PROVE  [Limited!Next]_(Limited!limitVars)
    <3>1. attempt[r] \in Attempt
      BY DEF TypeOK
    <3>2. attempt'[r].step # "password"
      <4>1. CASE Park(r, s)
        BY <3>1, <4>1 DEF Park, TypeOK, Attempt
      <4>2. ASSUME NEW t \in Sessions, Verify(r, t)
            PROVE  attempt'[r].step \in {"user", "mismatch"}
        <5>1. attempt'[r] = [attempt[r] EXCEPT !.row = t, !.live = Active(t),
                               !.step = IF Matches(r, t) THEN "user" ELSE "mismatch"]
          BY <4>2 DEF Verify, TypeOK
        <5> QED
          BY <3>1, <5>1 DEF Attempt
      <4> QED
        BY <2>2, <4>1, <4>2
    <3>3. \A q \in Attempts \ {r} : attempt'[q] = attempt[q]
      BY <2>2 DEF Park, Verify, TypeOK
    <3> QED
      BY <2>2, <3>2, <3>3, MovesOn DEF At
  <2>3. CASE UNCHANGED <<attempt, failures>>
    <3>1. Checking' = Checking
      BY <2>3 DEF Checking, Pending, At, Address
    <3> QED
      BY <2>3, <3>1, ForgetsOrStutters
  <2>4. CASE Restart
    BY <2>4, RestartsLimit
  <2>5. ASSUME NEW r \in Attempts, ArriveWithCookie(r)
        PROVE  [Limited!Next]_(Limited!limitVars)
    <3>1. PICK d \in Devices,
               s \in {t \in Sessions : session[t] # None} \cup {None} :
            Set(r, NewAttempt("cookie", d, IF s = None THEN None ELSE session[s].user,
                              FALSE, s))
      BY <2>5 DEF ArriveWithCookie
    <3>2. attempt'[r].step = "token" /\ \A q \in Attempts \ {r} : attempt'[q] = attempt[q]
      BY <3>1 DEF Set, NewAttempt, TypeOK
    <3> QED
      BY <2>5, <3>2, MovesOn DEF ArriveWithCookie, At
  <2>6. ASSUME NEW r \in Attempts, ArriveWithBasic(r)
        PROVE  [Limited!Next]_(Limited!limitVars)
    BY <2>6, ArrivesAtLimit
  <2>7. ASSUME NEW r \in Attempts,
               ArriveWithNothing(r) \/ Authorise(r) \/ DatabaseFails(r)
        PROVE  [Limited!Next]_(Limited!limitVars)
    BY <2>1, <2>7 DEF ArriveWithNothing, Authorise, DatabaseFails, Answers
  <2>8. ASSUME NEW r \in Attempts, CheckToken(r)
        PROVE  [Limited!Next]_(Limited!limitVars)
    <3>1. UNCHANGED failures
      BY <2>8 DEF CheckToken
    <3>2. CASE Answer(r, "407")
      BY <2>1, <3>1, <3>2 DEF Answers
    <3>3. CASE attempt[r].row # None /\ Verify(r, attempt[r].row)
      <4>1. attempt[r].row \in Sessions
        BY <3>3 DEF TypeOK, Attempt
      <4> QED
        BY <2>2, <3>1, <3>3, <4>1 DEF Parked
    <3> QED
      BY <2>8, <3>2, <3>3 DEF CheckToken
  <2>9. ASSUME NEW r \in Attempts, CheckPassword(r)
        PROVE  [Limited!Next]_(Limited!limitVars)
    <3>1. CASE Park(r, "latest") /\ UNCHANGED failures
      BY <2>2, <3>1 DEF Parked
    <3>2. CASE Answer(r, "407") /\ RecordFailure(Address(r))
      <4>1. Address(r) \in Addresses
        BY <2>9, AddressType DEF CheckPassword, At, InFlight, Parked
      <4> QED
        BY <2>9, <3>2, <4>1, MissesPassword DEF CheckPassword
    <3> QED
      BY <2>9, <3>1, <3>2 DEF CheckPassword
  <2>10. ASSUME NEW r \in Attempts, FindLatest(r) \/ HandleMismatch(r)
         PROVE  [Limited!Next]_(Limited!limitVars)
    <3>1. /\ \A a \in Addresses : failures'[a] \in {failures[a], None}
          /\ ~At(r, "password")
      BY <2>10 DEF FindLatest, HandleMismatch, RecordSuccess, TypeOK, At
    <3>2. CASE Answer(r, "407")
      BY <2>1, <3>1, <3>2 DEF Answers
    <3>3. CASE Park(r, "user") \/ \E s \in Sessions : Verify(r, s)
      BY <2>2, <3>1, <3>3 DEF Parked
    <3> QED
      BY <2>10, <3>2, <3>3 DEF FindLatest, HandleMismatch, ActiveOf
  <2> QED
    BY <2>3, <2>4, <2>5, <2>6, <2>7, <2>8, <2>9, <2>10
    DEF Next, Proceed, CreateSession, EndSession, Tick, vars
<1> QED
  BY <1>1, <1>2, AuthInvariant, PTL DEF Spec, KeepsLimit, Limited!Spec

=============================================================================
