----------------------------- MODULE UebaAlerts -----------------------------
(***************************************************************************)
(* Behaviour analytics: the listener that scores every stored traffic row  *)
(* against its user's baseline and records an anomaly, at most one per     *)
(* cooldown or so the configuration says, and the service that learns the  *)
(* baselines.  Listeners of several rows and the dashboard's calls run     *)
(* concurrently; "step" is the await a task is parked at.                  *)
(***************************************************************************)
EXTENDS Integers, FiniteSets, FiniteSetsExt

CONSTANTS
  Users,
  Logs,         \* ids of traffic rows; each is the task of its listener too
  Calls,        \* ids of GET /ueba/baseline and POST /ueba/baseline/refresh
  Window,       \* BASELINE_WINDOW_DAYS, in ticks
  MinSamples,   \* BASELINE_MIN_SAMPLE_SIZE
  SignalSets,   \* the sets of signals that may fire together
  Threshold,    \* UEBA_ALERT_THRESHOLD
  Cooldown,     \* UEBA_ALERT_COOLDOWN_MS, in ticks
  MaxDelay,     \* bound on the time from a row's timestamp to its storage
  MaxTime, MaxBoots,
  None

Signals == {"new_host", "volume_spike", "off_hours_activity",
            "repeated_blocks", "high_risk_cluster"}

ASSUME UebaConstants ==
  /\ Window \in Nat \ {0} /\ MinSamples \in Nat \ {0}
  /\ SignalSets \subseteq SUBSET Signals
  /\ Threshold \in 0 .. 100 /\ Cooldown \in Nat \ {0}
  /\ MaxDelay \in Nat /\ MaxTime \in Nat /\ MaxBoots \in Nat
  /\ IsFiniteSet(Logs) /\ Logs \cap Calls = {}
  /\ None \notin {"alerted", "suppressed"}

VARIABLES
  now, boot,
  rows,         \* traffic_logs: [user, at], None for an id not stored yet
  baseline,     \* behavior_baselines: the rows a user's snapshot was made of
  lastAlertAt,  \* UebaListener.lastAlertAtByUser
  task          \* the listener of each row, and the calls

vars == <<now, boot, rows, baseline, lastAlertAt, task>>

Tasks == Logs \cup Calls

\* "from" is when the cooldown check was passed, "at" when the anomaly was
\* announced or suppressed.
Task == [step: {"new", "find", "count", "read", "upsert", "context", "alert",
                "done", "lost"},
         user: Users \cup {None}, snap: SUBSET Logs,
         signals: SUBSET Signals, from: Nat, at: Nat, boot: Nat,
         out: {"insufficient", "ready", "normal", "suppressed", "alerted",
               "failed", None}]

NewTask == [step |-> "new", user |-> None, snap |-> {}, signals |-> {},
            from |-> 0, at |-> 0, boot |-> 0, out |-> None]

TypeOK ==
  /\ now \in 1 .. MaxTime + 1 /\ boot \in 0 .. MaxBoots
  /\ rows \in [Logs -> [user: Users, at: Int] \cup {None}]
  /\ baseline \in [Users -> (SUBSET Logs) \cup {None}]
  /\ lastAlertAt \in [Users -> 0 .. now]
  /\ task \in [Tasks -> Task]

\* A missing lastAlertAt and 0 are the same to "if (!lastAlertAt)".
Init ==
  /\ now = 1 /\ boot = 0
  /\ rows = [l \in Logs |-> None]
  /\ baseline = [u \in Users |-> None]
  /\ lastAlertAt = [u \in Users |-> 0]
  /\ task = [x \in Tasks |-> NewTask]

-----------------------------------------------------------------------------
Goto(x, t)    == task' = [task EXCEPT ![x] = t]
Ended(t, out) == [t EXCEPT !.step = "done", !.out = out, !.snap = {}]
Told(t, out)  == [Ended(t, out) EXCEPT !.at = now]

\* The rows of the window, as a query at this moment returns them.
Recent(u) == {l \in Logs : /\ rows[l] # None /\ rows[l].user = u
                           /\ rows[l].at >= now - Window}

\* SiemService.logTraffic: the row is stored under the timestamp taken before
\* the DNS lookup, and its event starts the listener.
StoreLog(l, u) ==
  /\ task[l].step = "new"
  /\ \E d \in 0 .. MaxDelay : rows' = [rows EXCEPT ![l] = [user |-> u, at |-> now - d]]
  /\ Goto(l, [NewTask EXCEPT !.step = "find", !.user = u, !.boot = boot])
  /\ UNCHANGED <<now, boot, baseline, lastAlertAt>>

\* getForUser looks the baseline up first, refreshForUser reads the rows at once.
Call(c, u) ==
  /\ task[c].step = "new"
  /\ \E s \in {"find", "read"} :
       Goto(c, [NewTask EXCEPT !.step = s, !.user = u, !.boot = boot])
  /\ UNCHANGED <<now, boot, rows, baseline, lastAlertAt>>

\* What a task does with a baseline or the lack of one.
WithBaseline(x, t) ==
  Goto(x, IF x \in Logs THEN [t EXCEPT !.step = "context"] ELSE Ended(t, "ready"))
Insufficient(x) == Goto(x, Ended(task[x], "insufficient"))

FindSnapshot(x) ==
  /\ task[x].step = "find"
  /\ LET b == baseline[task[x].user] IN
     IF b # None THEN WithBaseline(x, [task[x] EXCEPT !.snap = b])
                 ELSE Goto(x, [task[x] EXCEPT !.step = "count"])
  /\ UNCHANGED <<now, boot, rows, baseline, lastAlertAt>>

\* ensureBaselineForUser.
CountSamples(x) ==
  /\ task[x].step = "count"
  /\ IF Cardinality(Recent(task[x].user)) < MinSamples
     THEN Insufficient(x)
     ELSE Goto(x, [task[x] EXCEPT !.step = "read"])
  /\ UNCHANGED <<now, boot, rows, baseline, lastAlertAt>>

\* Mutant of ReadSamples: the count made before is relied on.
ReadSamplesUnchecked(x) ==
  /\ task[x].step = "read"
  /\ Goto(x, [task[x] EXCEPT !.step = "upsert", !.snap = Recent(task[x].user)])
  /\ UNCHANGED <<now, boot, rows, baseline, lastAlertAt>>

\* refreshForUser; the sessions it reads next do not matter here.
ReadSamples(x) ==
  /\ task[x].step = "read"
  /\ LET R == Recent(task[x].user) IN
     IF Cardinality(R) < MinSamples
     THEN Insufficient(x)
     ELSE Goto(x, [task[x] EXCEPT !.step = "upsert", !.snap = R])
  /\ UNCHANGED <<now, boot, rows, baseline, lastAlertAt>>

UpsertBaseline(x) ==
  /\ task[x].step = "upsert"
  /\ baseline' = [baseline EXCEPT ![task[x].user] = task[x].snap]
  /\ WithBaseline(x, task[x])
  /\ UNCHANGED <<now, boot, rows, lastAlertAt>>

\* The score is the sum of the weights of the signals, at most 100.
Weight == [new_host |-> 30, volume_spike |-> 25, off_hours_activity |-> 20,
           repeated_blocks |-> 15, high_risk_cluster |-> 25]

\* computeScore.
Score(S) == Min({100, MapThenSumSet(LAMBDA s : Weight[s], S)})

\* Mutant of InCooldown: one cooldown for all users.
InCooldownOfAnyone(u) ==
  \E v \in Users : lastAlertAt[v] # 0 /\ now - lastAlertAt[v] < Cooldown

InCooldown(u) == lastAlertAt[u] # 0 /\ now - lastAlertAt[u] < Cooldown

\* buildScoringContext resolves; scoring and the cooldown check follow at once.
\* Which signals fire is left open.
ScoreTraffic(x) ==
  /\ task[x].step = "context"
  /\ \E S \in SignalSets :
       \/ Score(S) < Threshold /\ Goto(x, Ended(task[x], "normal"))
       \/ /\ Score(S) >= Threshold /\ InCooldown(task[x].user)
          /\ Goto(x, Told(task[x], "suppressed"))
       \/ /\ Score(S) >= Threshold /\ ~InCooldown(task[x].user)
          /\ Goto(x, [task[x] EXCEPT !.step = "alert", !.signals = S,
                                     !.snap = {}, !.from = now])
  /\ UNCHANGED <<now, boot, rows, baseline, lastAlertAt>>

\* Mutant of RecordAnomaly: the cooldown starts when its check is passed.
RecordAnomalyAsOfCheck(x) ==
  /\ task[x].step = "alert"
  /\ Goto(x, Told(task[x], "alerted"))
  /\ lastAlertAt' = [lastAlertAt EXCEPT ![task[x].user] = task[x].from]
  /\ UNCHANGED <<now, boot, rows, baseline>>

\* recordAnomaly: logSecurityEvent writes a row or swallows the failure; either
\* way the anomaly is announced and the cooldown starts.
RecordAnomaly(x) ==
  /\ task[x].step = "alert"
  /\ Goto(x, Told(task[x], "alerted"))
  /\ lastAlertAt' = [lastAlertAt EXCEPT ![task[x].user] = now]
  /\ UNCHANGED <<now, boot, rows, baseline>>

\* A query rejects: the listener logs a warning, a call answers with an error.
QueryFails(x) ==
  /\ task[x].step \in {"find", "count", "read", "upsert", "context"}
  /\ Goto(x, Ended(task[x], "failed"))
  /\ UNCHANGED <<now, boot, rows, baseline, lastAlertAt>>

Progress(x) ==
  \/ FindSnapshot(x) \/ CountSamples(x) \/ ReadSamples(x) \/ UpsertBaseline(x)
  \/ ScoreTraffic(x) \/ RecordAnomaly(x) \/ QueryFails(x)

Tick ==
  /\ now <= MaxTime
  /\ now' = now + 1
  /\ UNCHANGED <<boot, rows, baseline, lastAlertAt, task>>

Restart ==
  /\ boot < MaxBoots
  /\ boot' = boot + 1
  /\ lastAlertAt' = [u \in Users |-> 0]
  /\ task' = [x \in Tasks |-> IF task[x].step \in {"new", "done"} THEN task[x]
                              ELSE [NewTask EXCEPT !.step = "lost"]]
  /\ UNCHANGED <<now, rows, baseline>>

Next ==
  \/ Tick
  \/ Restart
  \/ \E x \in Tasks : Progress(x)
  \/ \E u \in Users : \/ \E l \in Logs : StoreLog(l, u)
                      \/ \E c \in Calls : Call(c, u)

Spec == Init /\ [][Next]_vars
-----------------------------------------------------------------------------
\* Alerts of one user by one process, and the time between two of them.
Alerted(l, m) ==
  /\ l # m /\ task[l].out = "alerted" /\ task[m].out = "alerted"
  /\ task[l].user = task[m].user /\ task[l].boot = task[m].boot
  /\ task[l].at <= task[m].at

\* Two alerts of a user closer than the cooldown come from listeners that
\* overlapped: the later one had passed its check when the earlier one ended.
CloseAlertsOverlapped ==
  \A l, m \in Logs :
    Alerted(l, m) /\ task[m].at - task[l].at < Cooldown
      => task[m].from <= task[l].at

\* A suppressed anomaly is preceded by an announced one of the same user, of
\* the same process, less than a cooldown before.
SilenceHasAnAlert ==
  \A m \in Logs : task[m].out = "suppressed" =>
    \E l \in Logs : /\ task[l].out = "alerted" /\ task[l].user = task[m].user
                    /\ task[l].boot = task[m].boot
                    /\ task[m].at - task[l].at \in 0 .. Cooldown - 1

\* However the window moves between the count and the read, and whichever
\* refreshes overlap, a stored baseline rests on enough rows, all of its user.
BaselinesAreGrounded ==
  \A u \in Users : baseline[u] # None =>
    /\ Cardinality(baseline[u]) >= MinSamples
    /\ \A l \in baseline[u] : rows[l] # None /\ rows[l].user = u

\* "Minimum time between anomaly alerts for the same user" (.env.example).
CooldownHolds ==
  \A l, m \in Logs : Alerted(l, m) => task[m].at - task[l].at >= Cooldown
=============================================================================
