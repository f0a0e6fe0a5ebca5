---------------------------- MODULE AttemptLimit ----------------------------
(***************************************************************************)
(* What a limit of failed sign-ins per address promises when passwords are *)
(* verified concurrently: a password is looked at only for an address that *)
(* has counted fewer failures than the limit, an attempt counts once at    *)
(* most and only while its password is looked at, and a count goes down    *)
(* only by starting anew.                                                  *)
(***************************************************************************)
EXTENDS Integers

CONSTANTS Addresses, Attempts, AuthLimit

VARIABLES
  count,      \* the failures counted of an address
  checking    \* the attempts of an address whose password is being verified

limitVars == <<count, checking>>

Init == /\ count = [a \in Addresses |-> 0]
        /\ checking = [a \in Addresses |-> {}]

\* The count of an address starts anew.
Anew(F) == [a \in Addresses |-> IF a \in F THEN 0 ELSE count[a]]

Forget(F) == count' = Anew(F) /\ UNCHANGED checking

\* An attempt is let in.  The count may have been forgotten just before.
Admit(r, a) ==
  /\ \E F \in SUBSET {a} : count' = Anew(F)
  /\ count'[a] < AuthLimit
  /\ checking' = [checking EXCEPT ![a] = @ \cup {r}]

\* An attempt is over without a failure.
Leave(r, a) == /\ r \in checking[a]
               /\ checking' = [checking EXCEPT ![a] = @ \ {r}]
               /\ UNCHANGED count

\* An attempt counts as a failure, after some addresses were forgotten.
Miss(r, a) ==
  /\ r \in checking[a]
  /\ checking' = [checking EXCEPT ![a] = @ \ {r}]
  /\ \E F \in SUBSET Addresses : count' = [Anew(F) EXCEPT ![a] = @ + 1]

Restart == /\ count' = [a \in Addresses |-> 0]
           /\ checking' = [a \in Addresses |-> {}]

Next == \/ \E r \in Attempts, a \in Addresses : Admit(r, a) \/ Leave(r, a) \/ Miss(r, a)
        \/ \E F \in SUBSET Addresses : Forget(F)
        \/ Restart

Spec == Init /\ [][Next]_limitVars
=============================================================================
