---------------------------- MODULE SystemStatus ----------------------------
(***************************************************************************)
(* SystemStatusService: one answer about the database and VirusTotal, kept *)
(* for Ttl, and asked for by every socket that connects, by the broadcast  *)
(* of the gateway and by GET /health.  A call that finds no answer young   *)
(* enough probes both itself, whoever else is probing.                     *)
(*                                                                         *)
(* What is asked for is left out of the answer: no property depends on     *)
(* "ok" or "degraded".  Time is the age of things, in ticks, up to Ttl.    *)
(***************************************************************************)
EXTENDS Integers

CONSTANTS
  Callers,   \* whoever may be waiting in getStatus at the same time
  Ttl        \* STATUS_CACHE_TTL_MS, in ticks

ASSUME SystemStatusConstants == Ttl \in Nat \ {0}

VARIABLES
  age,       \* of the cached answer; Ttl when it has expired or there is none
  probing,   \* the callers waiting for the answer of their own probe
  rested     \* history: the time since a caller's last probe was answered

statusVars == <<age, probing, rested>>

StatusTypeOK ==
  /\ age \in 0 .. Ttl
  /\ probing \in SUBSET Callers
  /\ rested \in [Callers -> 0 .. Ttl]

StatusInit ==
  /\ age = Ttl
  /\ probing = {}
  /\ rested = [c \in Callers |-> Ttl]

Cached == age < Ttl

\* getStatus without a cached answer: the two probes are on their way.
StartProbe(c) ==
  /\ c \notin probing /\ ~Cached
  /\ probing' = probing \cup {c}
  /\ UNCHANGED <<age, rested>>

\* Mutant of FinishProbe: the answer is not kept if others are still probing.
FinishProbeLast(c) ==
  /\ c \in probing
  /\ probing' = probing \ {c}
  /\ age' = IF probing = {c} THEN 0 ELSE age
  /\ rested' = [rested EXCEPT ![c] = 0]

\* Both have been answered, or have failed, which is an answer as well.
FinishProbe(c) ==
  /\ c \in probing
  /\ probing' = probing \ {c}
  /\ age' = 0
  /\ rested' = [rested EXCEPT ![c] = 0]

Older(t) == IF t < Ttl THEN t + 1 ELSE t

StatusTick ==
  /\ age' = Older(age)
  /\ rested' = [c \in Callers |-> Older(rested[c])]
  /\ UNCHANGED probing

StatusNext == StatusTick \/ \E c \in Callers : StartProbe(c) \/ FinishProbe(c)

StatusSpec == StatusInit /\ [][StatusNext]_statusVars

\* The age of the cached answer never exceeds the time any caller has rested:
\* a late probe only ever makes the cache younger.
CacheYoungest == \A c \in Callers : age <= rested[c]

\* A caller whose probe was answered probes again only after Ttl, however many
\* others overlap with it and in whatever order they end: as many probes per
\* Ttl as there are callers at a time, to spare the quota of VirusTotal
\* (system-status.service.ts:8-9, 21-43).
ProbesSpaced ==
  [][\A c \in Callers : c \notin probing /\ c \in probing' => rested[c] = Ttl]_statusVars
=============================================================================
