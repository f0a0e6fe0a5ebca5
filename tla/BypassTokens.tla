---------------------------- MODULE BypassTokens ----------------------------
(***************************************************************************)
(* The tokens behind the "proceed anyway" link of the warning page.        *)
(* A token is a JWT whose times are whole seconds, while the list of       *)
(* consumed ids, which makes it good for one request only, is kept in      *)
(* memory in milliseconds and purged by the clock.  The clock here ticks   *)
(* "Second" times a second.                                                *)
(***************************************************************************)
EXTENDS Integers

CONSTANTS
  Tokens,     \* token ids; bounds the tokens ever signed
  Bindings,   \* what a token is signed for: (user, session, URL)
  Second,     \* ticks in a second
  Lifetime,   \* PROXY_BYPASS_TOKEN_MINUTES, in ticks
  MaxTime,    \* bound on the clock
  None        \* no value

ASSUME BypassConstants ==
  /\ Second \in Nat \ {0} /\ Lifetime \in Nat \ {0} /\ MaxTime \in Nat
  /\ None \notin Int /\ None \notin [bound: Bindings, at: Nat]

VARIABLES
  now,       \* the clock
  issued,    \* the tokens signed so far; None for an id not signed yet
  consumed,  \* consumedTokenIds: until when an id is remembered, None if not
  uses       \* history: how often each token was accepted since the last restart

tokenVars == <<issued, consumed, uses>>
vars == <<now, issued, consumed, uses>>

TypeOK ==
  /\ now \in 0 .. MaxTime
  /\ issued \in [Tokens -> [bound: Bindings, at: Nat] \cup {None}]
  /\ consumed \in [Tokens -> Nat \cup {None}]
  /\ uses \in [Tokens -> Nat]

Init ==
  /\ now = 0
  /\ issued = [t \in Tokens |-> None]
  /\ consumed = [t \in Tokens |-> None]
  /\ uses = [t \in Tokens |-> 0]

Seconds(x) == x \div Second

\* The JWT library: "exp" is the second of signing plus the lifetime in whole
\* seconds, and a token is good while the current second is before it.
Unexpired(t) ==
  /\ issued[t] # None
  /\ Seconds(now) < Seconds(issued[t].at) + Seconds(Lifetime)

\* sign.
Sign(t, b) ==
  /\ issued[t] = None
  /\ issued' = [issued EXCEPT ![t] = [bound |-> b, at |-> now]]
  /\ UNCHANGED <<consumed, uses>>

\* Mutants of Remembered: no purge at all; a purge whose comparison is the wrong
\* way round.
RememberedForEver == consumed
RememberedTooShort ==
  [t \in Tokens |-> IF consumed[t] # None /\ consumed[t] > now
                    THEN None ELSE consumed[t]]

\* consumedTokenIds after purgeConsumed.
Remembered ==
  [t \in Tokens |-> IF consumed[t] # None /\ consumed[t] <= now
                    THEN None ELSE consumed[t]]

\* When a token consumed at time x may be forgotten.
ForgetAt(x) == x + Lifetime

Acceptable(t, b) ==
  /\ Unexpired(t)
  /\ issued[t].bound = b
  /\ Remembered[t] = None

\* verifyAndConsume, for a token of ours presented under the binding b.
Accept(t, b) ==
  /\ Acceptable(t, b)
  /\ consumed' = [Remembered EXCEPT ![t] = ForgetAt(now)]
  /\ uses' = [uses EXCEPT ![t] = @ + 1]
  /\ UNCHANGED issued

\* A refused token still purges.
Refuse(t, b) ==
  /\ ~Acceptable(t, b)
  /\ consumed' = Remembered
  /\ UNCHANGED <<issued, uses>>

Tick == now < MaxTime /\ now' = now + 1 /\ UNCHANGED tokenVars

\* The process restarts: signed tokens stay good, the consumed ids are gone.
Restart ==
  /\ consumed' = [t \in Tokens |-> None]
  /\ uses' = [t \in Tokens |-> 0]
  /\ UNCHANGED <<now, issued>>

Next ==
  \/ Tick
  \/ Restart
  \/ \E t \in Tokens, b \in Bindings :
       (Sign(t, b) \/ Accept(t, b) \/ Refuse(t, b)) /\ UNCHANGED now

Spec == Init /\ [][Next]_vars
-----------------------------------------------------------------------------
\* Between restarts a token lets one request through, however the purge of
\* consumed ids and the rounding of its expiry to seconds fall.
SingleUse == \A t \in Tokens : uses[t] <= 1

\* Whenever the map of consumed ids has changed it holds none whose token was
\* signed two lifetimes ago: what it can hold is bounded by the warnings of that
\* time, though an id leaves it only when another token is verified
\* (bypass-token.service.ts:63-79).
ForgottenInTime ==
  [][consumed' # consumed =>
       \A t \in Tokens : consumed'[t] # None => now < issued'[t].at + 2 * Lifetime]_vars
=============================================================================
