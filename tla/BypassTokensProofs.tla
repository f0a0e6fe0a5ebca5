------------------------- MODULE BypassTokensProofs -------------------------
(***************************************************************************)
(* A bypass token lets one request through between restarts, for any       *)
(* number of tokens, any lifetime and any resolution of the clock.         *)
(***************************************************************************)
EXTENDS BypassTokens, TLAPS

\* A used token is remembered until its lifetime, counted from the signature,
\* is over: at least as long as it is good.
UsedIsRemembered ==
  \A t \in Tokens : uses[t] > 0 =>
    /\ issued[t] # None
    /\ \/ consumed[t] # None /\ consumed[t] >= issued[t].at + Lifetime
       \/ now >= issued[t].at + Lifetime

\* A used token is remembered at least as long as it is good.
RememberedWhileGood ==
  \A t \in Tokens : uses[t] > 0 /\ Unexpired(t) =>
    consumed[t] # None /\ consumed[t] > now

\* The time at which an id may be forgotten is before two lifetimes are over.
RememberedBriefly ==
  \A t \in Tokens : consumed[t] # None =>
    issued[t] # None /\ consumed[t] < issued[t].at + 2 * Lifetime

\* Tokens are signed in the past.
SignedBefore ==
  \A t \in Tokens : issued[t] # None => issued[t].at <= now

IInv == TypeOK /\ SingleUse /\ UsedIsRemembered /\ SignedBefore /\ RememberedBriefly

\* Rounding both times down to seconds never makes a token live longer than
\* its lifetime.
LEMMA RoundingIsSafe ==
  ASSUME NEW x \in Nat, NEW a \in Nat, NEW l \in Nat, NEW s \in Nat \ {0},
         (x \div s) < (a \div s) + (l \div s)
  PROVE  x < a + l
<1>1. /\ x \div s \in Nat /\ a \div s \in Nat /\ l \div s \in Nat
      /\ x < s * (x \div s) + s
      /\ s * (a \div s) <= a
      /\ s * (l \div s) <= l
  OBVIOUS
<1> DEFINE X == x \div s  A == a \div s  L == l \div s
<1>2. X + 1 <= A + L
  BY <1>1
<1>3. s * (X + 1) <= s * (A + L)
  <2> HIDE DEF X, A, L
  <2>1. ASSUME NEW m \in Nat, NEW k \in Nat PROVE s * m <= s * (m + k)
    <3>1. s * (m + k) = s * m + s * k /\ s * k \in Nat /\ s * m \in Nat
      OBVIOUS
    <3>2. QED
      BY <3>1
  <2>2. X \in Nat /\ A \in Nat /\ L \in Nat
    BY <1>1 DEF X, A, L
  <2>3. PICK k \in Nat : A + L = (X + 1) + k
    <3>1. (A + L) - (X + 1) \in Nat
      BY <2>2, <1>2
    <3>2. A + L = (X + 1) + ((A + L) - (X + 1))
      BY <2>2
    <3>3. QED
      BY <3>1, <3>2
  <2>4. QED
    BY <2>1, <2>2, <2>3
<1>4. s * (X + 1) = s * X + s /\ s * (A + L) = s * A + s * L
  <2> HIDE DEF X, A, L
  <2>1. X \in Nat /\ A \in Nat /\ L \in Nat
    BY <1>1 DEF X, A, L
  <2>2. QED
    BY <2>1
<1>5. QED
  BY <1>1, <1>3, <1>4

\* A token that is still good is younger than its lifetime.
LEMMA GoodIsYoung ==
  ASSUME TypeOK, NEW t \in Tokens, Unexpired(t)
  PROVE  now < issued[t].at + Lifetime
<1>1. issued[t].at \in Nat /\ now \in Nat
  BY DEF TypeOK, Unexpired
<1>2. (now \div Second) < (issued[t].at \div Second) + (Lifetime \div Second)
  BY DEF Unexpired, Seconds
<1>3. QED
  BY <1>1, <1>2, RoundingIsSafe, BypassConstants

\* What the purge leaves.
LEMMA Purged ==
  ASSUME TypeOK
  PROVE  /\ Remembered \in [Tokens -> Nat \cup {None}]
         /\ \A t \in Tokens :
              IF consumed[t] # None /\ consumed[t] <= now
              THEN Remembered[t] = None ELSE Remembered[t] = consumed[t]
BY DEF TypeOK, Remembered

\* No token has been handed out when the process starts.
LEMMA Initially == Init => IInv
BY BypassConstants
   DEF Init, IInv, TypeOK, SingleUse, UsedIsRemembered, SignedBefore,
       RememberedBriefly

\* sign adds an unused token.
LEMMA SignStep ==
  ASSUME IInv, NEW t \in Tokens, NEW b \in Bindings, Sign(t, b), now' = now
  PROVE  IInv'
<1>1. /\ issued[t] = None
      /\ issued'[t] = [bound |-> b, at |-> now]
      /\ \A x \in Tokens \ {t} : issued'[x] = issued[x]
      /\ issued' \in [Tokens -> [bound: Bindings, at: Nat] \cup {None}]
      /\ now \in Nat
  BY DEF Sign, IInv, TypeOK
<1>2. uses[t] = 0 /\ consumed[t] = None
  BY <1>1 DEF IInv, TypeOK, UsedIsRemembered, RememberedBriefly
<1>3. UNCHANGED <<consumed, uses, now>>
  BY DEF Sign
<1>4. TypeOK' /\ SingleUse'
  BY <1>1, <1>3 DEF IInv, TypeOK, SingleUse
<1>5. UsedIsRemembered' /\ SignedBefore' /\ RememberedBriefly'
  BY <1>1, <1>2, <1>3, BypassConstants
     DEF IInv, TypeOK, UsedIsRemembered, SignedBefore, RememberedBriefly
<1>6. QED
  BY <1>4, <1>5 DEF IInv

\* verifyAndConsume accepts a token that was not used: a used one is remembered
\* or expired.
LEMMA AcceptStep ==
  ASSUME IInv, NEW t \in Tokens, NEW b \in Bindings, Accept(t, b), now' = now
  PROVE  IInv'
<1>1. /\ now \in Nat /\ Lifetime \in Nat \ {0}
      /\ issued[t] # None /\ issued[t].at \in Nat /\ issued[t].at <= now
      /\ now < issued[t].at + Lifetime
      /\ Remembered[t] = None
  BY GoodIsYoung, BypassConstants
     DEF Accept, Acceptable, Unexpired, IInv, TypeOK, SignedBefore
<1>2. /\ consumed'[t] = now + Lifetime
      /\ \A x \in Tokens \ {t} : consumed'[x] = Remembered[x]
      /\ consumed' \in [Tokens -> Nat \cup {None}]
  BY <1>1, Purged DEF Accept, ForgetAt, IInv
<1>3. /\ uses' \in [Tokens -> Nat]
      /\ uses'[t] = uses[t] + 1
      /\ \A x \in Tokens \ {t} : uses'[x] = uses[x]
      /\ UNCHANGED <<issued, now>>
  BY DEF Accept, IInv, TypeOK
<1>4. uses[t] = 0
  BY <1>1, Purged DEF IInv, TypeOK, UsedIsRemembered
<1>5. TypeOK' /\ SingleUse' /\ SignedBefore'
  BY <1>2, <1>3, <1>4 DEF IInv, TypeOK, SingleUse, SignedBefore
<1>6. UsedIsRemembered'
  <2>1. ASSUME NEW x \in Tokens, uses'[x] > 0, x # t
        PROVE  /\ issued'[x] # None
               /\ \/ consumed'[x] # None /\ consumed'[x] >= issued'[x].at + Lifetime
                  \/ now' >= issued'[x].at + Lifetime
    <3>1. issued[x] # None /\ issued[x].at \in Nat
      BY <1>3, <2>1 DEF IInv, TypeOK, UsedIsRemembered
    <3>2. CASE now >= issued[x].at + Lifetime
      BY <1>3, <3>1, <3>2
    <3>3. CASE consumed[x] # None /\ consumed[x] >= issued[x].at + Lifetime
      BY <1>1, <1>2, <1>3, <2>1, <3>1, <3>3, Purged DEF IInv, TypeOK
    <3>4. QED
      BY <1>3, <2>1, <3>2, <3>3 DEF IInv, UsedIsRemembered
  <2>2. QED
    BY <1>1, <1>2, <1>3, <2>1, BypassConstants DEF UsedIsRemembered
<1>7. RememberedBriefly'
  BY <1>1, <1>2, <1>3, Purged, BypassConstants DEF IInv, TypeOK, RememberedBriefly
<1>8. QED
  BY <1>5, <1>6, <1>7 DEF IInv

\* A refusal only purges entries that are over.
LEMMA RefuseStep ==
  ASSUME IInv, NEW t \in Tokens, NEW b \in Bindings, Refuse(t, b), now' = now
  PROVE  IInv'
<1>1. /\ consumed' = Remembered
      /\ UNCHANGED <<issued, uses, now>>
      /\ now \in Nat /\ Lifetime \in Nat \ {0}
  BY BypassConstants DEF Refuse, IInv, TypeOK
<1>2. TypeOK' /\ SingleUse' /\ SignedBefore'
  BY <1>1, Purged DEF IInv, TypeOK, SingleUse, SignedBefore
<1>3. UsedIsRemembered'
  <2>1. ASSUME NEW x \in Tokens, uses'[x] > 0
        PROVE  /\ issued'[x] # None
               /\ \/ consumed'[x] # None /\ consumed'[x] >= issued'[x].at + Lifetime
                  \/ now' >= issued'[x].at + Lifetime
    <3>1. issued[x] # None /\ issued[x].at \in Nat
      BY <1>1, <2>1 DEF IInv, TypeOK, UsedIsRemembered
    <3>2. CASE now >= issued[x].at + Lifetime
      BY <1>1, <3>1, <3>2
    <3>3. CASE consumed[x] # None /\ consumed[x] >= issued[x].at + Lifetime
      BY <1>1, <2>1, <3>1, <3>3, Purged DEF IInv, TypeOK
    <3>4. QED
      BY <1>1, <2>1, <3>2, <3>3 DEF IInv, UsedIsRemembered
  <2>2. QED
    BY <2>1 DEF UsedIsRemembered
<1>4. RememberedBriefly'
  BY <1>1, Purged, BypassConstants DEF IInv, TypeOK, RememberedBriefly
<1>5. QED
  BY <1>2, <1>3, <1>4 DEF IInv

\* The clock and a restart.
LEMMA EnvironmentStep ==
  ASSUME IInv, Tick \/ Restart
  PROVE  IInv'
<1>1. CASE Tick
  BY <1>1, BypassConstants
     DEF Tick, tokenVars, IInv, TypeOK, SingleUse, UsedIsRemembered,
         SignedBefore, RememberedBriefly
<1>2. CASE Restart
  BY <1>2, BypassConstants
     DEF Restart, IInv, TypeOK, SingleUse, UsedIsRemembered, SignedBefore,
         RememberedBriefly
<1>3. QED
  BY <1>1, <1>2

\* Every step preserves the inductive invariant.
LEMMA Invariance == IInv /\ [Next]_vars => IInv'
<1> SUFFICES ASSUME IInv, [Next]_vars PROVE IInv'
  OBVIOUS
<1>1. CASE Next
  BY <1>1, SignStep, AcceptStep, RefuseStep, EnvironmentStep DEF Next
<1>2. CASE UNCHANGED vars
  BY <1>2
     DEF vars, IInv, TypeOK, SingleUse, UsedIsRemembered, SignedBefore,
         RememberedBriefly
<1>3. QED
  BY <1>1, <1>2

\* The invariant holds throughout.
LEMMA Inductive == Spec => []IInv
BY Initially, Invariance, PTL DEF Spec

\* The clock, the tokens and the map of consumed ids keep their types.
THEOREM TypeCorrect == Spec => []TypeOK
BY Inductive, PTL DEF IInv

\* No token is accepted twice between two restarts: while it is good, purging
\* never forgets it.
THEOREM TokensAreSingleUse == Spec => []SingleUse
BY Inductive, PTL DEF IInv

\* A used token that is still good is still remembered.
THEOREM GoodTokensAreRemembered == Spec => []RememberedWhileGood
<1>1. IInv => RememberedWhileGood
  <2> SUFFICES ASSUME IInv, NEW t \in Tokens, uses[t] > 0, Unexpired(t)
               PROVE  consumed[t] # None /\ consumed[t] > now
    BY DEF RememberedWhileGood
  <2>1. now < issued[t].at + Lifetime
    BY GoodIsYoung DEF IInv
  <2>2. issued[t] # None /\ issued[t].at \in Nat /\ now \in Nat
    BY DEF IInv, TypeOK, Unexpired
  <2>3. consumed[t] # None /\ consumed[t] >= issued[t].at + Lifetime
    BY <2>1, <2>2, BypassConstants DEF IInv, UsedIsRemembered
  <2>4. QED
    BY <2>1, <2>2, <2>3, BypassConstants DEF IInv, TypeOK
<1>2. QED
  BY <1>1, Inductive, PTL

\* The map changes by a verification, which purges it, or by a restart: what is
\* left is not over yet.
LEMMA ChangedIsPurged ==
  ASSUME IInv, [Next]_vars, consumed' # consumed, NEW t \in Tokens, consumed'[t] # None
  PROVE  now < consumed'[t]
<1>1. now \in Nat /\ Lifetime \in Nat \ {0}
  BY BypassConstants DEF IInv, TypeOK
<1>2. Remembered[t] # None => now < Remembered[t]
  BY <1>1, Purged DEF IInv, TypeOK
<1>3. ~Tick /\ ~Restart
  BY DEF Tick, tokenVars, Restart
<1>4. ASSUME NEW x \in Tokens, NEW b \in Bindings, Sign(x, b) \/ Accept(x, b) \/ Refuse(x, b)
      PROVE  now < consumed'[t]
  <2>1. ~Sign(x, b)
    BY DEF Sign
  <2>2. CASE Refuse(x, b)
    BY <1>2, <2>2 DEF Refuse
  <2>3. CASE Accept(x, b) /\ t = x
    <3>1. consumed'[t] = now + Lifetime
      BY <2>3, Purged DEF Accept, ForgetAt, IInv
    <3> QED
      BY <1>1, <3>1
  <2>4. CASE Accept(x, b) /\ t # x
    <3>1. consumed'[t] = Remembered[t]
      BY <2>4, Purged DEF Accept, IInv
    <3> QED
      BY <1>2, <3>1
  <2> QED
    BY <1>4, <2>1, <2>2, <2>3, <2>4
<1> QED
  BY <1>3, <1>4 DEF Next, vars

\* Whatever is verified, the map of consumed ids then holds none whose token was
\* signed two lifetimes ago (bypass-token.service.ts:63-79).
THEOREM TokensAreForgottenInTime == Spec => ForgottenInTime
<1>1. ASSUME IInv, IInv', [Next]_vars, consumed' # consumed,
             NEW t \in Tokens, consumed'[t] # None
      PROVE  now < issued'[t].at + 2 * Lifetime
  <2>1. now < consumed'[t]
    BY <1>1, ChangedIsPurged
  <2>2. issued'[t] # None /\ consumed'[t] < issued'[t].at + 2 * Lifetime
    BY <1>1 DEF IInv, RememberedBriefly
  <2>3. now \in Nat /\ consumed'[t] \in Nat /\ issued'[t].at \in Nat /\ Lifetime \in Nat
    BY <1>1, <2>2, BypassConstants DEF IInv, TypeOK
  <2> QED
    BY <2>1, <2>2, <2>3
<1>2. IInv /\ IInv' /\ [Next]_vars =>
        [consumed' # consumed =>
           \A t \in Tokens : consumed'[t] # None => now < issued'[t].at + 2 * Lifetime]_vars
  BY <1>1
<1> QED
  BY <1>2, Inductive, PTL DEF Spec, ForgottenInTime
=============================================================================
