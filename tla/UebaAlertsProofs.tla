------------------------- MODULE UebaAlertsProofs -------------------------
(***************************************************************************)
(* What the cooldown of anomaly alerts does promise although its check and *)
(* its start are separated by the write of the alert: for any number of    *)
(* users, rows and calls, and any cooldown.                                *)
(***************************************************************************)
EXTENDS UebaAlerts, FiniteSetTheorems, TLAPS

Parked == {"find", "count", "read", "upsert", "context", "alert"}

\* A task on its way belongs to the running process and has told nothing yet.
OnItsWay(x) ==
  task[x].step \in Parked =>
    /\ task[x].user \in Users /\ task[x].boot = boot /\ task[x].out = None
    /\ task[x].step \in {"context", "alert"} => x \in Logs
    /\ task[x].from <= now

\* What a task that told or suppressed an anomaly keeps.
Over(x) ==
  task[x].out \in {"alerted", "suppressed"} =>
    /\ task[x].step = "done" /\ task[x].user \in Users
    /\ task[x].from <= task[x].at /\ task[x].at <= now /\ task[x].boot <= boot

TasksInOrder == \A x \in Tasks : OnItsWay(x) /\ Over(x)

AlertedNow(l) == task[l].out = "alerted" /\ task[l].boot = boot

\* lastAlertAt is the time of the latest alert of this process.
LastAlertIsKnown ==
  \A u \in Users : lastAlertAt[u] # 0 =>
    \E l \in Logs : /\ AlertedNow(l) /\ task[l].user = u
                    /\ task[l].at = lastAlertAt[u]
LastAlertIsLatest ==
  \A l \in Logs : AlertedNow(l) =>
    lastAlertAt[task[l].user] # 0 /\ task[l].at <= lastAlertAt[task[l].user]

\* A listener about to alert passed its check before any alert of its user
\* that came since, and a cooldown after those that came earlier.
Checked ==
  \A l, m \in Logs :
    AlertedNow(l) /\ task[m].step = "alert" /\ task[l].user = task[m].user =>
      \/ task[m].from <= task[l].at
      \/ task[m].from - task[l].at >= Cooldown

\* The rows a snapshot was made of, and those not stored yet.
Grounded(S, u) ==
  Cardinality(S) >= MinSamples /\ \A l \in S : rows[l] # None /\ rows[l].user = u
SnapshotsAreGrounded ==
  \A x \in Tasks : task[x].step = "upsert" => Grounded(task[x].snap, task[x].user)
NewAreNotStored == \A l \in Logs : task[l].step = "new" => rows[l] = None

IInv ==
  /\ TypeOK /\ TasksInOrder
  /\ LastAlertIsKnown /\ LastAlertIsLatest /\ Checked
  /\ CloseAlertsOverlapped /\ SilenceHasAnAlert
  /\ SnapshotsAreGrounded /\ NewAreNotStored /\ BaselinesAreGrounded
-----------------------------------------------------------------------------
\* The alerts told so far, and what is promised about them.
Alerts ==
  /\ TasksInOrder /\ LastAlertIsKnown /\ LastAlertIsLatest /\ Checked
  /\ CloseAlertsOverlapped /\ SilenceHasAnAlert

\* The rows and the snapshots made of them.
Samples == SnapshotsAreGrounded /\ NewAreNotStored /\ BaselinesAreGrounded

\* The invariant is the types, what concerns the alerts, and what concerns the
\* samples the baselines are made of.
LEMMA Parts == IInv <=> TypeOK /\ Alerts /\ Samples
  BY DEF IInv, Alerts, Samples

\* A step of a task that tells nothing and does not begin an alert disturbs
\* none of the promises about alerts.
LEMMA QuietStep ==
  ASSUME TypeOK, Alerts, NEW x \in Tasks, NEW t \in Task,
         task[x].step \in Parked \cup {"new"},
         t.out \notin {"alerted", "suppressed"}, t.step # "alert",
         t.step \in Parked => /\ t.user \in Users /\ t.boot = boot /\ t.out = None
                              /\ (t.step = "context" => x \in Logs)
                              /\ t.from <= now,
         task' = [task EXCEPT ![x] = t], UNCHANGED <<now, boot, lastAlertAt>>
  PROVE  Alerts'
<1>1. /\ task \in [Tasks -> Task] /\ task'[x] = t
      /\ \A y \in Tasks : y # x => task'[y] = task[y]
  BY DEF TypeOK
<1> now' = now /\ boot' = boot /\ lastAlertAt' = lastAlertAt
  OBVIOUS
<1>2. task[x].out \notin {"alerted", "suppressed"}
  BY DEF Alerts, TasksInOrder, Over, Parked
<1>3. \A y \in Tasks : /\ task[y].out \in {"alerted", "suppressed"} => y # x
                       /\ task'[y].out \in {"alerted", "suppressed"} => y # x
                       /\ task'[y].step = "alert" => y # x
  BY <1>1, <1>2
<1>4. Logs \subseteq Tasks
  BY DEF Tasks
<1>5. TasksInOrder'
  <2>1. OnItsWay(x)' /\ Over(x)'
    BY <1>1 DEF OnItsWay, Over, Parked
  <2>2. ASSUME NEW y \in Tasks, y # x PROVE OnItsWay(y)' /\ Over(y)'
    BY <1>1, <2>2 DEF Alerts, TasksInOrder, OnItsWay, Over
  <2>3. QED
    BY <2>1, <2>2 DEF TasksInOrder
<1>6. \A l \in Logs : /\ task'[l].out = "alerted" => task'[l] = task[l]
                      /\ task[l].out = "alerted" => task'[l] = task[l]
  BY <1>1, <1>3, <1>4
<1>7. LastAlertIsKnown' /\ LastAlertIsLatest'
  <2>1. LastAlertIsKnown'
    <3> SUFFICES ASSUME NEW u \in Users, lastAlertAt[u] # 0
                 PROVE  \E l \in Logs : /\ AlertedNow(l)' /\ task'[l].user = u
                                        /\ task'[l].at = lastAlertAt[u]
      BY DEF LastAlertIsKnown
    <3>1. PICK l \in Logs : /\ AlertedNow(l) /\ task[l].user = u
                            /\ task[l].at = lastAlertAt[u]
      BY DEF Alerts, LastAlertIsKnown
    <3>2. AlertedNow(l)' /\ task'[l] = task[l]
      BY <1>6, <3>1 DEF AlertedNow
    <3>3. QED
      BY <3>1, <3>2
  <2>2. LastAlertIsLatest'
    BY <1>6 DEF Alerts, LastAlertIsLatest, AlertedNow
  <2>3. QED
    BY <2>1, <2>2
<1>8. Checked'
  <2> SUFFICES ASSUME NEW l \in Logs, NEW m \in Logs,
                      AlertedNow(l)', task'[m].step = "alert",
                      task'[l].user = task'[m].user
               PROVE  \/ task'[m].from <= task'[l].at
                      \/ task'[m].from - task'[l].at >= Cooldown
    BY DEF Checked
  <2>1. /\ AlertedNow(l) /\ task'[l] = task[l] /\ task'[m] = task[m]
    BY <1>1, <1>3, <1>4, <1>6 DEF AlertedNow
  <2>2. QED
    BY <2>1 DEF Alerts, Checked
<1>9. CloseAlertsOverlapped'
  BY <1>1, <1>3, <1>4 DEF Alerts, CloseAlertsOverlapped, Alerted
<1>10. SilenceHasAnAlert'
  BY <1>1, <1>3, <1>4 DEF Alerts, SilenceHasAnAlert
<1>11. QED
  BY <1>5, <1>7, <1>8, <1>9, <1>10 DEF Alerts

\* The check of a listener: it is silenced by an alert it can name, or passes.
LEMMA ScoreKeepsAlerts ==
  ASSUME TypeOK, Alerts, NEW x \in Tasks, ScoreTraffic(x)
  PROVE  Alerts' /\ task' \in [Tasks -> Task]
<1>1. /\ task \in [Tasks -> Task] /\ task[x] \in Task
      /\ now \in Nat /\ boot \in Nat /\ Logs \subseteq Tasks
      /\ lastAlertAt \in [Users -> 0 .. now]
      /\ task[x].step = "context"
      /\ now' = now /\ boot' = boot /\ lastAlertAt' = lastAlertAt
  BY UebaConstants DEF TypeOK, ScoreTraffic, Tasks
<1>0. now' = now /\ boot' = boot /\ lastAlertAt' = lastAlertAt
  BY <1>1
<1> DEFINE u == task[x].user
<1>2. /\ u \in Users /\ task[x].boot = boot /\ task[x].out = None
      /\ x \in Logs /\ task[x].from <= now
  BY <1>1 DEF Alerts, TasksInOrder, OnItsWay, Parked
<1>3. PICK S \in SignalSets :
        \/ Goto(x, Ended(task[x], "normal"))
        \/ InCooldown(u) /\ Goto(x, Told(task[x], "suppressed"))
        \/ ~InCooldown(u) /\ Goto(x, [task[x] EXCEPT !.step = "alert", !.signals = S,
                                                  !.snap = {}, !.from = now])
  BY DEF ScoreTraffic
<1>4. CASE Goto(x, Ended(task[x], "normal"))
  <2> DEFINE t == Ended(task[x], "normal")
  <2>1. t \in Task /\ t.step = "done" /\ t.out = "normal"
    BY <1>1 DEF Task, Ended
  <2>2. task' = [task EXCEPT ![x] = t]
    BY <1>4 DEF Goto
  <2>3. Alerts'
    <3> HIDE DEF t
    <3>1. QED
      BY <1>1, <2>1, <2>2, QuietStep DEF Parked
  <2>4. QED
    BY <1>1, <2>1, <2>2, <2>3
<1>5. CASE InCooldown(u) /\ Goto(x, Told(task[x], "suppressed"))
  <2> DEFINE t == Told(task[x], "suppressed")
  <2>1. /\ t \in Task /\ t.step = "done" /\ t.out = "suppressed" /\ t.at = now
        /\ t.user = u /\ t.boot = boot /\ t.from = task[x].from
    BY <1>1, <1>2 DEF Task, Told, Ended
  <2>2. task' = [task EXCEPT ![x] = t]
    BY <1>5 DEF Goto
  <2> HIDE DEF t
  <2>3. /\ task'[x] = t /\ task' \in [Tasks -> Task]
        /\ \A y \in Tasks : y # x => task'[y] = task[y]
    BY <1>1, <2>1, <2>2
  <2>4. \A l \in Logs : /\ task'[l].out = "alerted" => task'[l] = task[l]
                        /\ task[l].out = "alerted" => task'[l] = task[l]
                        /\ task'[l].step = "alert" => task'[l] = task[l]
                        /\ l # x => task'[l] = task[l]
    BY <1>1, <1>2, <2>1, <2>3, UebaConstants
  <2>5. TasksInOrder'
    <3>1. OnItsWay(x)' /\ Over(x)'
      BY <1>1, <1>2, <2>1, <2>3 DEF OnItsWay, Over, Parked
    <3>2. ASSUME NEW y \in Tasks, y # x PROVE OnItsWay(y)' /\ Over(y)'
      BY <1>1, <2>3, <3>2 DEF Alerts, TasksInOrder, OnItsWay, Over
    <3>3. QED
      BY <3>1, <3>2 DEF TasksInOrder
  <2>6. \A v \in Users : lastAlertAt[v] # 0 =>
          \E l \in Logs : /\ AlertedNow(l)' /\ task'[l] = task[l]
                          /\ task[l].user = v /\ task[l].at = lastAlertAt[v]
    <3> SUFFICES ASSUME NEW v \in Users, lastAlertAt[v] # 0
                 PROVE  \E l \in Logs : /\ AlertedNow(l)' /\ task'[l] = task[l]
                                        /\ task[l].user = v /\ task[l].at = lastAlertAt[v]
      OBVIOUS
    <3>1. PICK l \in Logs : /\ AlertedNow(l) /\ task[l].user = v
                            /\ task[l].at = lastAlertAt[v]
      BY DEF Alerts, LastAlertIsKnown
    <3>2. AlertedNow(l)' /\ task'[l] = task[l]
      BY <1>0, <2>4, <3>1 DEF AlertedNow
    <3>3. QED
      BY <3>1, <3>2
  <2>7. LastAlertIsKnown'
    BY <1>0, <2>6 DEF LastAlertIsKnown
  <2>8. LastAlertIsLatest'
    BY <1>0, <2>4 DEF Alerts, LastAlertIsLatest, AlertedNow
  <2>9. Checked'
    BY <1>0, <2>4 DEF Alerts, Checked, AlertedNow
  <2>10. CloseAlertsOverlapped'
    BY <1>0, <2>4 DEF Alerts, CloseAlertsOverlapped, Alerted
  <2>11. SilenceHasAnAlert'
    <3> SUFFICES ASSUME NEW m \in Logs, task'[m].out = "suppressed"
                 PROVE  \E l \in Logs :
                          /\ task'[l].out = "alerted" /\ task'[l].user = task'[m].user
                          /\ task'[l].boot = task'[m].boot
                          /\ task'[m].at - task'[l].at \in 0 .. Cooldown - 1
      BY DEF SilenceHasAnAlert
    <3>1. CASE m = x
      <4>1. lastAlertAt[u] # 0 /\ now - lastAlertAt[u] < Cooldown
        BY <1>5 DEF InCooldown
      <4>2. PICK l \in Logs : /\ AlertedNow(l)' /\ task'[l] = task[l]
                              /\ task[l].user = u /\ task[l].at = lastAlertAt[u]
        BY <1>2, <2>6, <4>1
      <4>3. now - lastAlertAt[u] \in 0 .. Cooldown - 1
        <5>1. lastAlertAt[u] \in 0 .. now
          BY <1>1, <1>2
        <5>2. QED
          BY <1>1, <4>1, <5>1, UebaConstants
      <4>4. QED
        BY <1>1, <2>1, <2>3, <3>1, <4>2, <4>3 DEF AlertedNow
    <3>2. CASE m # x
      <4>1. PICK l \in Logs :
               /\ task[l].out = "alerted" /\ task[l].user = task[m].user
               /\ task[l].boot = task[m].boot
               /\ task[m].at - task[l].at \in 0 .. Cooldown - 1
        BY <1>1, <2>3, <3>2 DEF Alerts, SilenceHasAnAlert
      <4>2. QED
        BY <2>4, <3>2, <4>1
    <3>3. QED
      BY <3>1, <3>2
  <2>12. QED
    BY <2>3, <2>5, <2>7, <2>8, <2>9, <2>10, <2>11 DEF Alerts
<1> DEFINE begun(Q) == [task[x] EXCEPT !.step = "alert", !.signals = Q,
                                       !.snap = {}, !.from = now]
<1>6. CASE ~InCooldown(u) /\ Goto(x, begun(S))
  <2> DEFINE t == begun(S)
  <2>1. /\ t \in Task /\ t.step = "alert" /\ t.out = None /\ t.user = u
        /\ t.boot = boot /\ t.from = now
    BY <1>1, <1>2, UebaConstants DEF Task
  <2>2. task' = [task EXCEPT ![x] = t]
    BY <1>6 DEF Goto
  <2> HIDE DEF begun
  <2>3. /\ task'[x] = t /\ task' \in [Tasks -> Task]
        /\ \A y \in Tasks : y # x => task'[y] = task[y]
    BY <1>1, <2>1, <2>2
  <2>4. /\ task'[x].step = "alert" /\ task'[x].out = None /\ task'[x].user = u
        /\ task'[x].from = now
        /\ \A l \in Logs : /\ task'[l].out = "alerted" => task'[l] = task[l]
                           /\ task[l].out = "alerted" => task'[l] = task[l]
                           /\ task'[l].out = "suppressed" => task'[l] = task[l]
                           /\ l # x => task'[l] = task[l]
    BY <1>1, <1>2, <2>1, <2>3, UebaConstants
  <2>5. TasksInOrder'
    <3>1. OnItsWay(x)' /\ Over(x)'
      BY <1>0, <1>1, <1>2, <2>1, <2>3, UebaConstants DEF OnItsWay, Over, Parked
    <3>2. ASSUME NEW y \in Tasks, y # x PROVE OnItsWay(y)' /\ Over(y)'
      BY <1>0, <2>3, <3>2 DEF Alerts, TasksInOrder, OnItsWay, Over
    <3>3. QED
      BY <3>1, <3>2 DEF TasksInOrder
  <2>6. LastAlertIsKnown'
    <3> SUFFICES ASSUME NEW v \in Users, lastAlertAt[v] # 0
                 PROVE  \E l \in Logs : /\ AlertedNow(l)' /\ task'[l].user = v
                                        /\ task'[l].at = lastAlertAt[v]
      BY <1>0 DEF LastAlertIsKnown
    <3>1. PICK l \in Logs : /\ AlertedNow(l) /\ task[l].user = v
                            /\ task[l].at = lastAlertAt[v]
      BY DEF Alerts, LastAlertIsKnown
    <3>2. AlertedNow(l)' /\ task'[l] = task[l]
      BY <1>0, <2>4, <3>1 DEF AlertedNow
    <3>3. QED
      BY <3>1, <3>2
  <2>7. LastAlertIsLatest'
    BY <1>0, <2>4 DEF Alerts, LastAlertIsLatest, AlertedNow
  <2>8. Checked'
    <3> SUFFICES ASSUME NEW l \in Logs, NEW m \in Logs,
                        AlertedNow(l)', task'[m].step = "alert",
                        task'[l].user = task'[m].user
                 PROVE  \/ task'[m].from <= task'[l].at
                        \/ task'[m].from - task'[l].at >= Cooldown
      BY DEF Checked
    <3>1. AlertedNow(l) /\ task'[l] = task[l]
      BY <1>0, <2>4 DEF AlertedNow
    <3>2. CASE m # x
      BY <2>4, <3>1, <3>2 DEF Alerts, Checked
    <3>3. CASE m = x
      <4>1. /\ task[l].user = u /\ lastAlertAt[u] # 0
            /\ task[l].at <= lastAlertAt[u]
        BY <2>4, <3>1, <3>3 DEF Alerts, LastAlertIsLatest
      <4>2. now - lastAlertAt[u] >= Cooldown
        BY <1>1, <1>2, <1>6, <4>1, UebaConstants DEF InCooldown
      <4>3. task[l].at \in Nat /\ lastAlertAt[u] \in Nat
        BY <1>1, <1>2 DEF Task
      <4>4. now - task[l].at >= Cooldown
        BY <1>1, <4>1, <4>2, <4>3, UebaConstants
      <4>5. QED
        BY <2>4, <3>1, <3>3, <4>4
    <3>4. QED
      BY <3>2, <3>3
  <2>9. CloseAlertsOverlapped'
    BY <2>4 DEF Alerts, CloseAlertsOverlapped, Alerted
  <2>10. SilenceHasAnAlert'
    <3> SUFFICES ASSUME NEW m \in Logs, task'[m].out = "suppressed"
                 PROVE  \E l \in Logs :
                          /\ task'[l].out = "alerted" /\ task'[l].user = task'[m].user
                          /\ task'[l].boot = task'[m].boot
                          /\ task'[m].at - task'[l].at \in 0 .. Cooldown - 1
      BY DEF SilenceHasAnAlert
    <3>1. PICK l \in Logs :
             /\ task[l].out = "alerted" /\ task[l].user = task[m].user
             /\ task[l].boot = task[m].boot
             /\ task[m].at - task[l].at \in 0 .. Cooldown - 1
      BY <2>4 DEF Alerts, SilenceHasAnAlert
    <3>2. QED
      BY <2>4, <3>1
  <2>11. QED
    BY <2>3, <2>5, <2>6, <2>7, <2>8, <2>9, <2>10 DEF Alerts
<1>7. QED
  BY <1>3, <1>4, <1>5, <1>6

\* The alert itself: whoever passed the check meanwhile did so no later.
LEMMA RecordKeepsAlerts ==
  ASSUME TypeOK, Alerts, NEW x \in Tasks, RecordAnomaly(x)
  PROVE  /\ Alerts' /\ task' \in [Tasks -> Task]
         /\ lastAlertAt' \in [Users -> 0 .. now']
<1>1. /\ task \in [Tasks -> Task] /\ task[x] \in Task
      /\ now \in Nat /\ now >= 1 /\ boot \in Nat /\ Logs \subseteq Tasks
      /\ lastAlertAt \in [Users -> 0 .. now] /\ task[x].step = "alert"
  BY UebaConstants DEF TypeOK, RecordAnomaly, Tasks
<1>0. now' = now /\ boot' = boot
  BY DEF RecordAnomaly
<1> DEFINE u == task[x].user
<1>2. /\ u \in Users /\ task[x].boot = boot /\ task[x].out = None
      /\ x \in Logs /\ task[x].from <= now
  BY <1>1 DEF Alerts, TasksInOrder, OnItsWay, Parked
<1> DEFINE t == Told(task[x], "alerted")
<1>3. /\ t \in Task /\ t.step = "done" /\ t.out = "alerted" /\ t.at = now
      /\ t.user = u /\ t.boot = boot /\ t.from = task[x].from
  BY <1>1, <1>2 DEF Task, Told, Ended
<1>4. task' = [task EXCEPT ![x] = t]
  BY DEF RecordAnomaly, Goto
<1> HIDE DEF t
<1>5. /\ task'[x] = t /\ task' \in [Tasks -> Task]
      /\ \A y \in Tasks : y # x => task'[y] = task[y]
  BY <1>1, <1>3, <1>4
<1>6. /\ lastAlertAt' \in [Users -> 0 .. now] /\ lastAlertAt'[u] = now
      /\ \A v \in Users : v # u => lastAlertAt'[v] = lastAlertAt[v]
  BY <1>1, <1>2 DEF RecordAnomaly
<1>7. /\ task'[x].out = "alerted" /\ task'[x].step = "done" /\ task'[x].at = now
      /\ task'[x].user = u /\ task'[x].boot = boot /\ task'[x].from = task[x].from
      /\ \A l \in Logs : l # x => task'[l] = task[l]
  BY <1>1, <1>3, <1>5
<1>8. \A l \in Logs : /\ task[l] \in Task
                      /\ task[l].out = "alerted" => l # x
                      /\ task[l].out = "alerted" => task[l].at <= now
                      /\ task[l].out = "alerted" => task[l].user \in Users
                      /\ task[l].out = "alerted" => task[l].from <= task[l].at
  BY <1>1, <1>2, UebaConstants DEF Alerts, TasksInOrder, Over
<1>9. TasksInOrder'
  <2>1. OnItsWay(x)' /\ Over(x)'
    BY <1>0, <1>1, <1>2, <1>3, <1>5 DEF OnItsWay, Over, Parked, Task
  <2>2. ASSUME NEW y \in Tasks, y # x PROVE OnItsWay(y)' /\ Over(y)'
    BY <1>0, <1>5, <2>2 DEF Alerts, TasksInOrder, OnItsWay, Over
  <2>3. QED
    BY <2>1, <2>2 DEF TasksInOrder
<1>10. LastAlertIsKnown'
  <2> SUFFICES ASSUME NEW v \in Users, lastAlertAt'[v] # 0
               PROVE  \E l \in Logs : /\ AlertedNow(l)' /\ task'[l].user = v
                                      /\ task'[l].at = lastAlertAt'[v]
    BY DEF LastAlertIsKnown
  <2>1. CASE v = u
    BY <1>0, <1>2, <1>6, <1>7, <2>1 DEF AlertedNow
  <2>2. CASE v # u
    <3>1. PICK l \in Logs : /\ AlertedNow(l) /\ task[l].user = v
                            /\ task[l].at = lastAlertAt[v]
      BY <1>6, <2>2 DEF Alerts, LastAlertIsKnown
    <3>2. AlertedNow(l)' /\ task'[l] = task[l]
      BY <1>0, <1>7, <1>8, <3>1 DEF AlertedNow
    <3>3. QED
      BY <1>6, <2>2, <3>1, <3>2
  <2>3. QED
    BY <2>1, <2>2
<1>11. LastAlertIsLatest'
  <2> SUFFICES ASSUME NEW l \in Logs, AlertedNow(l)'
               PROVE  /\ lastAlertAt'[task'[l].user] # 0
                      /\ task'[l].at <= lastAlertAt'[task'[l].user]
    BY DEF LastAlertIsLatest
  <2>1. CASE l = x
    BY <1>1, <1>6, <1>7, <2>1
  <2>2. CASE l # x
    <3>1. AlertedNow(l) /\ task'[l] = task[l]
      BY <1>0, <1>7, <2>2 DEF AlertedNow
    <3>2. CASE task[l].user = u
      BY <1>1, <1>6, <1>8, <3>1, <3>2 DEF AlertedNow
    <3>3. CASE task[l].user # u
      BY <1>6, <1>8, <3>1, <3>3 DEF Alerts, LastAlertIsLatest, AlertedNow
    <3>4. QED
      BY <3>2, <3>3
  <2>3. QED
    BY <2>1, <2>2
<1>12. Checked'
  <2> SUFFICES ASSUME NEW l \in Logs, NEW m \in Logs,
                      AlertedNow(l)', task'[m].step = "alert",
                      task'[l].user = task'[m].user
               PROVE  \/ task'[m].from <= task'[l].at
                      \/ task'[m].from - task'[l].at >= Cooldown
    BY DEF Checked
  <2>1. m # x /\ task'[m] = task[m] /\ task[m].from <= now
    BY <1>1, <1>7 DEF Alerts, TasksInOrder, OnItsWay, Parked
  <2>2. CASE l = x
    BY <1>7, <2>1, <2>2
  <2>3. CASE l # x
    <3>1. AlertedNow(l) /\ task'[l] = task[l]
      BY <1>0, <1>7, <2>3 DEF AlertedNow
    <3>2. QED
      BY <2>1, <3>1 DEF Alerts, Checked
  <2>4. QED
    BY <2>2, <2>3
<1>13. CloseAlertsOverlapped'
  <2> SUFFICES ASSUME NEW l \in Logs, NEW m \in Logs, Alerted(l, m)',
                      task'[m].at - task'[l].at < Cooldown
               PROVE  task'[m].from <= task'[l].at
    BY DEF CloseAlertsOverlapped
  <2>1. CASE l = x
    <3>1. m # x /\ task'[m] = task[m] /\ task[m].out = "alerted"
      BY <1>7, <2>1 DEF Alerted
    <3>2. task[m].from \in Nat /\ task[m].at \in Nat
      BY <1>8 DEF Task
    <3>3. task[m].from <= now
      BY <1>1, <1>8, <3>1, <3>2
    <3>4. QED
      BY <1>7, <2>1, <3>1, <3>3
  <2>2. CASE m = x
    <3>1. l # x /\ task'[l] = task[l] /\ task[l].out = "alerted"
          /\ task[l].user = u /\ task[l].boot = boot
      BY <1>7, <2>2 DEF Alerted
    <3>2. \/ task[x].from <= task[l].at
          \/ task[x].from - task[l].at >= Cooldown
      BY <1>1, <1>2, <3>1 DEF Alerts, Checked, AlertedNow
    <3>3. task[x].from \in Nat /\ task[l].at \in Nat
      BY <1>1, <1>8 DEF Task
    <3>4. now - task[l].at < Cooldown
      BY <1>7, <2>2, <3>1
    <3>5. task[x].from <= task[l].at
      BY <1>1, <1>2, <3>2, <3>3, <3>4, UebaConstants
    <3>6. QED
      BY <1>7, <2>2, <3>1, <3>5
  <2>3. CASE l # x /\ m # x
    BY <1>7, <2>3 DEF Alerted, Alerts, CloseAlertsOverlapped
  <2>4. QED
    BY <2>1, <2>2, <2>3
<1>14. SilenceHasAnAlert'
  <2> SUFFICES ASSUME NEW m \in Logs, task'[m].out = "suppressed"
               PROVE  \E l \in Logs :
                        /\ task'[l].out = "alerted" /\ task'[l].user = task'[m].user
                        /\ task'[l].boot = task'[m].boot
                        /\ task'[m].at - task'[l].at \in 0 .. Cooldown - 1
    BY DEF SilenceHasAnAlert
  <2>1. m # x /\ task'[m] = task[m]
    BY <1>7
  <2>2. PICK l \in Logs :
           /\ task[l].out = "alerted" /\ task[l].user = task[m].user
           /\ task[l].boot = task[m].boot
           /\ task[m].at - task[l].at \in 0 .. Cooldown - 1
    BY <1>1, <2>1 DEF Alerts, SilenceHasAnAlert
  <2>3. task'[l] = task[l]
    BY <1>7, <1>8, <2>2
  <2>4. QED
    BY <2>1, <2>2, <2>3
<1>15. QED
  BY <1>0, <1>5, <1>6, <1>9, <1>10, <1>11, <1>12, <1>13, <1>14 DEF Alerts

-----------------------------------------------------------------------------
\* Nothing is stored, parked or announced when the process first starts.
LEMMA InitEstablishes == Init => IInv
<1> SUFFICES ASSUME Init PROVE IInv
  OBVIOUS
<1>1. NewTask \in Task
  BY DEF NewTask, Task
<1>2. /\ now = 1 /\ boot = 0 /\ lastAlertAt = [u \in Users |-> 0]
      /\ rows = [l \in Logs |-> None] /\ baseline = [u \in Users |-> None]
      /\ task = [x \in Tasks |-> NewTask] /\ Logs \subseteq Tasks
  BY DEF Init, Tasks
<1>3. \A x \in Tasks : task[x].step = "new" /\ task[x].out = None
  BY <1>2 DEF NewTask
<1>4. TypeOK
  <2>1. now \in 1 .. MaxTime + 1 /\ boot \in 0 .. MaxBoots
    BY <1>2, UebaConstants
  <2>2. lastAlertAt \in [Users -> 0 .. now]
    BY <1>2
  <2>3. task \in [Tasks -> Task]
    BY <1>1, <1>2
  <2>4. QED
    BY <1>2, <2>1, <2>2, <2>3 DEF TypeOK
<1>5. Alerts
  <2>1. \A x \in Tasks : task[x].out \notin {"alerted", "suppressed"}
    BY <1>3, UebaConstants
  <2>2. TasksInOrder
    BY <1>3, <2>1 DEF TasksInOrder, OnItsWay, Over, Parked
  <2>3. LastAlertIsKnown
    BY <1>2 DEF LastAlertIsKnown
  <2>4. LastAlertIsLatest /\ Checked
    BY <1>2, <2>1 DEF LastAlertIsLatest, Checked, AlertedNow
  <2>5. CloseAlertsOverlapped /\ SilenceHasAnAlert
    BY <1>2, <2>1 DEF CloseAlertsOverlapped, SilenceHasAnAlert, Alerted
  <2>6. QED
    BY <2>2, <2>3, <2>4, <2>5 DEF Alerts
<1>6. Samples
  BY <1>2, <1>3 DEF Samples, SnapshotsAreGrounded, NewAreNotStored, BaselinesAreGrounded
<1>7. QED
  BY <1>4, <1>5, <1>6, Parts

\* A set of rows of one window is a finite set of rows of its user.
LEMMA RecentIsGrounded ==
  ASSUME TypeOK, NEW u \in Users, ~(Cardinality(Recent(u)) < MinSamples)
  PROVE  Grounded(Recent(u), u)
<1>1. Cardinality(Recent(u)) \in Nat
  BY FS_Subset, FS_CardinalityType, UebaConstants DEF Recent
<1>2. QED
  BY <1>1, UebaConstants DEF Grounded, Recent

\* A step that stores no row and leaves the snapshots of others alone.
LEMMA SamplesStay ==
  ASSUME TypeOK, Samples, NEW x \in Tasks, NEW t \in Task,
         task' = [task EXCEPT ![x] = t], UNCHANGED <<rows, baseline>>,
         t.step # "new",
         t.step = "upsert" => Grounded(t.snap, t.user)
  PROVE  Samples'
<1>1. /\ task'[x] = t /\ \A y \in Tasks : y # x => task'[y] = task[y]
      /\ Logs \subseteq Tasks /\ rows' = rows /\ baseline' = baseline
  BY DEF TypeOK, Tasks
<1>2. \A y \in Tasks : task'[y].step = "upsert" =>
        Grounded(task'[y].snap, task'[y].user)
  BY <1>1 DEF Samples, SnapshotsAreGrounded
<1>3. SnapshotsAreGrounded'
  BY <1>1, <1>2 DEF SnapshotsAreGrounded, Grounded
<1>4. NewAreNotStored'
  BY <1>1 DEF Samples, NewAreNotStored
<1>5. BaselinesAreGrounded'
  BY <1>1 DEF Samples, BaselinesAreGrounded
<1>6. QED
  BY <1>3, <1>4, <1>5 DEF Samples

\* The samples are safe from whoever only ends or alerts.
LEMMA SamplesIgnoreAlerts ==
  ASSUME TypeOK, Samples, UNCHANGED <<rows, baseline>>,
         \A y \in Tasks : task'[y].step \in {"upsert", "new"} => task'[y] = task[y]
  PROVE  Samples'
<1>1. Logs \subseteq Tasks /\ rows' = rows /\ baseline' = baseline
  BY DEF Tasks
<1>2. SnapshotsAreGrounded'
  BY <1>1 DEF Samples, SnapshotsAreGrounded, Grounded
<1>3. NewAreNotStored'
  BY <1>1 DEF Samples, NewAreNotStored
<1>4. BaselinesAreGrounded'
  BY <1>1 DEF Samples, BaselinesAreGrounded
<1>5. QED
  BY <1>2, <1>3, <1>4 DEF Samples

\* A step of a task that moves on without an alert and writes neither a row nor
\* a baseline.
LEMMA TaskStep ==
  ASSUME IInv, NEW x \in Tasks, NEW t \in Task,
         task[x].step \in Parked \cup {"new"},
         t.out \notin {"alerted", "suppressed"}, t.step \notin {"alert", "new"},
         t.step \in Parked => /\ t.user \in Users /\ t.boot = boot /\ t.out = None
                              /\ (t.step = "context" => x \in Logs)
                              /\ t.from <= now,
         t.step = "upsert" => Grounded(t.snap, t.user),
         Goto(x, t), UNCHANGED <<now, boot, rows, baseline, lastAlertAt>>
  PROVE  IInv'
<1>1. TypeOK /\ Alerts /\ Samples
  BY Parts
<1>2. task' = [task EXCEPT ![x] = t]
  BY DEF Goto
<1>3. TypeOK'
  BY <1>1, <1>2 DEF TypeOK
<1>4. Alerts'
  BY <1>1, <1>2, QuietStep
<1>5. Samples'
  BY <1>1, <1>2, SamplesStay
<1>6. QED
  BY <1>3, <1>4, <1>5 DEF IInv, Alerts, Samples

\* A listener or a call going on from the await it is parked at.
LEMMA ProgressPreserves ==
  ASSUME IInv, NEW x \in Tasks, Progress(x)
  PROVE  IInv'
<1>1. TypeOK /\ Alerts /\ Samples
  BY Parts
<1>2. task[x] \in Task /\ Logs \subseteq Tasks /\ now \in Nat
  BY <1>1 DEF TypeOK, Tasks
<1>3. task[x].step \in Parked
  BY DEF Progress, FindSnapshot, CountSamples, ReadSamples, UpsertBaseline,
         ScoreTraffic, RecordAnomaly, QueryFails, Parked
<1> DEFINE u == task[x].user
<1>4. /\ u \in Users /\ task[x].boot = boot /\ task[x].out = None
      /\ task[x].step \in {"context", "alert"} => x \in Logs
      /\ task[x].from <= now
  BY <1>1, <1>3 DEF Alerts, TasksInOrder, OnItsWay
\* A task that ends without a word.
<1>5. ASSUME NEW out \in {"insufficient", "ready", "normal", "failed"},
             Goto(x, Ended(task[x], out)),
             UNCHANGED <<now, boot, rows, baseline, lastAlertAt>>
      PROVE  IInv'
  <2> DEFINE t == Ended(task[x], out)
  <2>1. t \in Task /\ t.step = "done" /\ t.out = out
    BY <1>2 DEF Ended, Task
  <2> HIDE DEF t
  <2>2. Goto(x, t)
    BY <1>5 DEF t
  <2>3. QED
    BY <1>3, <1>5, <2>1, <2>2, TaskStep DEF Parked
\* A task that goes on.
<1>6. ASSUME NEW s \in {"count", "read", "upsert", "context"}, NEW S \in SUBSET Logs,
             s = "context" => x \in Logs,
             s = "upsert" => Grounded(S, u),
             Goto(x, [task[x] EXCEPT !.step = s, !.snap = S]),
             UNCHANGED <<now, boot, rows, baseline, lastAlertAt>>
      PROVE  IInv'
  <2> DEFINE t == [task[x] EXCEPT !.step = s, !.snap = S]
  <2>1. /\ t \in Task /\ t.step = s /\ t.snap = S /\ t.user = u /\ t.boot = boot
        /\ t.out = None /\ t.from = task[x].from
    BY <1>2, <1>4 DEF Task
  <2> HIDE DEF t
  <2>2. Goto(x, t)
    BY <1>6 DEF t
  <2>3. QED
    BY <1>3, <1>4, <1>6, <2>1, <2>2, TaskStep, UebaConstants DEF Parked
<1>7. /\ task[x].snap \in SUBSET Logs
      /\ \A s : [task[x] EXCEPT !.step = s]
              = [task[x] EXCEPT !.step = s, !.snap = task[x].snap]
  BY <1>2 DEF Task
<1>8. CASE FindSnapshot(x)
  <2>1. CASE baseline[u] # None /\ x \in Logs
    <3>1. baseline[u] \in SUBSET Logs
      BY <1>1, <1>4, <2>1 DEF TypeOK
    <3>2. Goto(x, [task[x] EXCEPT !.step = "context", !.snap = baseline[u]])
      <4>1. Goto(x, [[task[x] EXCEPT !.snap = baseline[u]] EXCEPT !.step = "context"])
        BY <1>8, <2>1 DEF FindSnapshot, WithBaseline
      <4>2. QED
        BY <1>2, <4>1 DEF Task
    <3>3. QED
      BY <1>6, <1>8, <2>1, <3>1, <3>2 DEF FindSnapshot
  <2>2. CASE baseline[u] # None /\ x \notin Logs
    <3>1. Goto(x, Ended([task[x] EXCEPT !.snap = baseline[u]], "ready"))
      BY <1>8, <2>2 DEF FindSnapshot, WithBaseline
    <3>2. Ended([task[x] EXCEPT !.snap = baseline[u]], "ready") = Ended(task[x], "ready")
      BY <1>2 DEF Ended, Task
    <3>3. QED
      BY <1>5, <1>8, <3>1, <3>2 DEF FindSnapshot
  <2>3. CASE baseline[u] = None
    BY <1>6, <1>7, <1>8, <2>3 DEF FindSnapshot
  <2>4. QED
    BY <2>1, <2>2, <2>3
<1>9. CASE CountSamples(x)
  BY <1>5, <1>6, <1>7, <1>9 DEF CountSamples, Insufficient
<1>10. CASE ReadSamples(x)
  <2>1. CASE Cardinality(Recent(u)) < MinSamples
    BY <1>5, <1>10, <2>1 DEF ReadSamples, Insufficient
  <2>2. CASE ~(Cardinality(Recent(u)) < MinSamples)
    <3>1. Grounded(Recent(u), u) /\ Recent(u) \in SUBSET Logs
      BY <1>1, <1>4, <2>2, RecentIsGrounded DEF Recent
    <3>2. QED
      BY <1>6, <1>10, <2>2, <3>1 DEF ReadSamples
  <2>3. QED
    BY <2>1, <2>2
<1>11. CASE UpsertBaseline(x)
  <2> DEFINE t == IF x \in Logs THEN [task[x] EXCEPT !.step = "context"]
                                ELSE Ended(task[x], "ready")
  <2>1. /\ t \in Task /\ t.step \in {"context", "done"} /\ t.user = u
        /\ t.boot = boot /\ t.out \in {None, "ready"} /\ t.from = task[x].from
        /\ t.step = "context" => x \in Logs /\ t.out = None
    BY <1>2, <1>4 DEF Ended, Task
  <2>2. task' = [task EXCEPT ![x] = t]
    BY <1>11 DEF UpsertBaseline, WithBaseline, Goto
  <2> HIDE DEF t
  <2>3. /\ rows' = rows /\ lastAlertAt' = lastAlertAt /\ now' = now /\ boot' = boot
        /\ baseline' = [baseline EXCEPT ![u] = task[x].snap]
        /\ baseline \in [Users -> (SUBSET Logs) \cup {None}]
        /\ Grounded(task[x].snap, u)
    BY <1>1, <1>11 DEF UpsertBaseline, TypeOK, Samples, SnapshotsAreGrounded
  <2>4. TypeOK'
    BY <1>1, <1>4, <1>7, <2>1, <2>2, <2>3 DEF TypeOK
  <2>5. Alerts'
    BY <1>1, <1>3, <1>4, <2>1, <2>2, <2>3, QuietStep, UebaConstants DEF Parked
  <2>6. /\ task'[x] = t /\ \A y \in Tasks : y # x => task'[y] = task[y]
    BY <1>1, <2>2 DEF TypeOK
  <2>7. SnapshotsAreGrounded' /\ NewAreNotStored'
    BY <1>1, <1>2, <2>1, <2>3, <2>6
    DEF Samples, SnapshotsAreGrounded, NewAreNotStored, Grounded
  <2>8. BaselinesAreGrounded'
    <3> SUFFICES ASSUME NEW v \in Users, baseline'[v] # None
                 PROVE  /\ Cardinality(baseline'[v]) >= MinSamples
                        /\ \A l \in baseline'[v] : rows[l] # None /\ rows[l].user = v
      BY <2>3 DEF BaselinesAreGrounded
    <3>1. CASE v = u
      BY <2>3, <3>1 DEF Grounded
    <3>2. CASE v # u
      <4>1. baseline'[v] = baseline[v]
        BY <2>3, <3>2
      <4>2. QED
        BY <1>1, <4>1 DEF Samples, BaselinesAreGrounded
    <3>3. QED
      BY <3>1, <3>2
  <2>9. QED
    BY <2>4, <2>5, <2>7, <2>8 DEF IInv, Alerts, Samples
<1>12. CASE ScoreTraffic(x)
  <2>1. Alerts' /\ task' \in [Tasks -> Task]
    BY <1>1, <1>12, ScoreKeepsAlerts
  <2>2. UNCHANGED <<now, boot, rows, baseline, lastAlertAt>>
    BY <1>12 DEF ScoreTraffic
  <2>3. TypeOK'
    BY <1>1, <2>1, <2>2 DEF TypeOK
  <2>4. \A y \in Tasks : task'[y].step \in {"upsert", "new"} => task'[y] = task[y]
    <3>1. task'[x].step \in {"done", "alert"} /\ \A y \in Tasks : y # x => task'[y] = task[y]
      <4>1. PICK S \in SignalSets :
               \/ Goto(x, Ended(task[x], "normal"))
               \/ Goto(x, Told(task[x], "suppressed"))
               \/ Goto(x, [task[x] EXCEPT !.step = "alert", !.signals = S,
                                          !.snap = {}, !.from = now])
        BY <1>12 DEF ScoreTraffic
      <4>2. task \in [Tasks -> Task] /\ task[x] \in Task
        BY <1>1, <1>2 DEF TypeOK
      <4>3. CASE Goto(x, Ended(task[x], "normal"))
        BY <4>2, <4>3 DEF Goto, Ended, Task
      <4>4. CASE Goto(x, Told(task[x], "suppressed"))
        BY <4>2, <4>4 DEF Goto, Told, Ended, Task
      <4>5. CASE Goto(x, [task[x] EXCEPT !.step = "alert", !.signals = S,
                                         !.snap = {}, !.from = now])
        BY <4>2, <4>5 DEF Goto, Task
      <4>6. QED
        BY <4>1, <4>3, <4>4, <4>5
    <3>2. QED
      BY <3>1
  <2>5. Samples'
    BY <1>1, <2>2, <2>4, SamplesIgnoreAlerts
  <2>6. QED
    BY <2>1, <2>3, <2>5 DEF IInv, Alerts, Samples
<1>13. CASE RecordAnomaly(x)
  <2>1. /\ Alerts' /\ task' \in [Tasks -> Task]
        /\ lastAlertAt' \in [Users -> 0 .. now']
    BY <1>1, <1>13, RecordKeepsAlerts
  <2>2. UNCHANGED <<now, boot, rows, baseline>>
    BY <1>13 DEF RecordAnomaly
  <2>3. TypeOK'
    BY <1>1, <2>1, <2>2 DEF TypeOK
  <2>4. \A y \in Tasks : task'[y].step \in {"upsert", "new"} => task'[y] = task[y]
    BY <1>1, <1>2, <1>13 DEF RecordAnomaly, Goto, Told, Ended, TypeOK, Task
  <2>5. Samples'
    BY <1>1, <2>2, <2>4, SamplesIgnoreAlerts
  <2>6. QED
    BY <2>1, <2>3, <2>5 DEF IInv, Alerts, Samples
<1>14. CASE QueryFails(x)
  BY <1>5, <1>14 DEF QueryFails
<1>15. QED
  BY <1>8, <1>9, <1>10, <1>11, <1>12, <1>13, <1>14 DEF Progress

\* A listener starts with its row, a call with none.
LEMMA StartPreserves ==
  ASSUME IInv, NEW u \in Users,
         (\E l \in Logs : StoreLog(l, u)) \/ (\E c \in Calls : Call(c, u))
  PROVE  IInv'
<1>1. TypeOK /\ Alerts /\ Samples
  BY Parts
<1>2. boot \in Nat /\ now \in Nat /\ Logs \subseteq Tasks /\ Calls \subseteq Tasks
  BY <1>1, UebaConstants DEF TypeOK, Tasks
<1> DEFINE t(s) == [NewTask EXCEPT !.step = s, !.user = u, !.boot = boot]
<1>3. \A s \in {"find", "read"} :
        /\ t(s) \in Task /\ t(s).step = s /\ t(s).user = u /\ t(s).boot = boot
        /\ t(s).out = None /\ t(s).from = 0
  BY <1>2, UebaConstants DEF NewTask, Task
<1> HIDE DEF t
<1>4. CASE \E c \in Calls : Call(c, u)
  <2>1. PICK c \in Calls, s \in {"find", "read"} :
          task[c].step = "new" /\ Goto(c, t(s))
    BY <1>4 DEF Call, t
  <2>2. UNCHANGED <<now, boot, rows, baseline, lastAlertAt>>
    BY <1>4 DEF Call
  <2>3. QED
    BY <1>2, <1>3, <2>1, <2>2, TaskStep, UebaConstants DEF Parked
<1>5. CASE \E l \in Logs : StoreLog(l, u)
  <2>1. PICK l \in Logs : StoreLog(l, u)
    BY <1>5
  <2>2. /\ task[l].step = "new" /\ task' = [task EXCEPT ![l] = t("find")]
        /\ UNCHANGED <<now, boot, baseline, lastAlertAt>>
    BY <2>1 DEF StoreLog, Goto, t
  <2>3. PICK d \in 0 .. MaxDelay : rows' = [rows EXCEPT ![l] = [user |-> u, at |-> now - d]]
    BY <2>1 DEF StoreLog
  <2>4. TypeOK'
    <3>1. rows' \in [Logs -> [user: Users, at: Int] \cup {None}]
      BY <1>1, <1>2, <2>3, UebaConstants DEF TypeOK
    <3>2. QED
      BY <1>1, <1>2, <1>3, <2>2, <3>1 DEF TypeOK
  <2>5. Alerts'
    <3>1. /\ l \in Tasks /\ t("find") \in Task /\ t("find").step = "find"
          /\ t("find").user = u /\ t("find").boot = boot /\ t("find").out = None
          /\ t("find").from <= now
      BY <1>2, <1>3
    <3>2. task[l].step \in Parked \cup {"new"} /\ t("find").out \notin {"alerted", "suppressed"}
      BY <2>2, <3>1, UebaConstants
    <3>3. QED
      BY <1>1, <2>2, <3>1, <3>2, QuietStep
  <2>6. /\ rows[l] = None /\ \A k \in Logs : k # l => rows'[k] = rows[k]
        /\ task'[l].step = "find" /\ \A y \in Tasks : y # l => task'[y] = task[y]
    BY <1>1, <1>2, <1>3, <2>2, <2>3 DEF TypeOK, Samples, NewAreNotStored
  <2>7. \A S \in SUBSET Logs, v \in Users : Grounded(S, v) =>
          /\ Cardinality(S) >= MinSamples
          /\ \A k \in S : rows'[k] # None /\ rows'[k].user = v
    BY <2>6 DEF Grounded
  <2>8. SnapshotsAreGrounded'
    <3> SUFFICES ASSUME NEW y \in Tasks, task'[y].step = "upsert"
                 PROVE  /\ Cardinality(task'[y].snap) >= MinSamples
                        /\ \A k \in task'[y].snap :
                             rows'[k] # None /\ rows'[k].user = task'[y].user
      BY DEF SnapshotsAreGrounded, Grounded
    <3>1. /\ task'[y] = task[y] /\ task[y].snap \in SUBSET Logs
          /\ task[y].user \in Users
      <4>1. task'[y] = task[y]
        BY <2>6
      <4>2. OnItsWay(y) /\ task[y] \in Task
        BY <1>1 DEF TypeOK, TasksInOrder, Alerts
      <4>3. QED
        BY <4>1, <4>2 DEF Task, OnItsWay, Parked
    <3>2. QED
      BY <1>1, <2>7, <3>1 DEF Samples, SnapshotsAreGrounded
  <2>9. NewAreNotStored'
    BY <1>1, <1>2, <2>6 DEF Samples, NewAreNotStored
  <2>10. BaselinesAreGrounded'
    <3> SUFFICES ASSUME NEW v \in Users, baseline[v] # None
                 PROVE  /\ Cardinality(baseline[v]) >= MinSamples
                        /\ \A k \in baseline[v] : rows'[k] # None /\ rows'[k].user = v
      BY <2>2 DEF BaselinesAreGrounded
    <3>1. baseline[v] \in SUBSET Logs /\ Grounded(baseline[v], v)
      BY <1>1 DEF TypeOK, Samples, BaselinesAreGrounded, Grounded
    <3>2. QED
      BY <2>7, <3>1
  <2>11. QED
    BY <2>4, <2>5, <2>8, <2>9, <2>10 DEF IInv, Alerts, Samples
<1>6. QED
  BY <1>4, <1>5

\* Time passes: what is older than a cooldown stays so.
LEMMA TickPreserves == IInv /\ Tick => IInv'
<1> SUFFICES ASSUME IInv, Tick PROVE IInv'
  OBVIOUS
<1>1. /\ now \in Nat /\ now' = now + 1 /\ now <= MaxTime
      /\ UNCHANGED <<boot, rows, baseline, lastAlertAt, task>>
      /\ TypeOK /\ Alerts /\ Samples
  BY Parts DEF IInv, TypeOK, Tick
<1>2. TypeOK'
  <2>1. now' \in 1 .. MaxTime + 1 /\ 0 .. now \subseteq 0 .. now'
    BY <1>1, UebaConstants DEF TypeOK
  <2>2. QED
    BY <1>1, <2>1 DEF TypeOK
<1>3. TasksInOrder'
  <2>1. \A x \in Tasks : task[x].from \in Nat /\ task[x].at \in Nat
    BY <1>1 DEF TypeOK, Task
  <2>2. QED
    BY <1>1, <2>1 DEF Alerts, TasksInOrder, OnItsWay, Over
<1>4. LastAlertIsKnown' /\ LastAlertIsLatest' /\ Checked'
  BY <1>1 DEF Alerts, LastAlertIsKnown, LastAlertIsLatest, Checked, AlertedNow
<1>5. CloseAlertsOverlapped' /\ SilenceHasAnAlert'
  BY <1>1 DEF Alerts, CloseAlertsOverlapped, SilenceHasAnAlert, Alerted
<1>6. Samples'
  BY <1>1 DEF Samples, SnapshotsAreGrounded, NewAreNotStored, BaselinesAreGrounded, Grounded
<1>7. QED
  BY <1>2, <1>3, <1>4, <1>5, <1>6 DEF IInv, Samples

\* A restart forgets lastAlertAt and every parked listener; alerts of the
\* process that ended are no longer AlertedNow.
LEMMA RestartPreserves == IInv /\ Restart => IInv'
<1> SUFFICES ASSUME IInv, Restart PROVE IInv'
  OBVIOUS
<1> DEFINE lost == [NewTask EXCEPT !.step = "lost"]
<1>1. /\ boot \in 0 .. MaxBoots /\ boot < MaxBoots /\ boot' = boot + 1
      /\ lastAlertAt' = [u \in Users |-> 0]
      /\ task' = [x \in Tasks |-> IF task[x].step \in {"new", "done"} THEN task[x] ELSE lost]
      /\ now' = now /\ rows' = rows /\ baseline' = baseline /\ now \in Nat
      /\ TypeOK /\ Alerts /\ Samples /\ Logs \subseteq Tasks
  BY Parts DEF IInv, TypeOK, Restart, Tasks
<1>2. lost \in Task /\ lost.step = "lost" /\ lost.out = None
  BY DEF NewTask, Task
<1> HIDE DEF lost
<1>3. \A x \in Tasks : /\ task'[x] \in {task[x], lost}
                       /\ task'[x].step \notin Parked
                       /\ task'[x].step = "new" => task'[x] = task[x]
                       /\ task[x].step \in {"new", "done"} => task'[x] = task[x]
                       /\ task'[x].out \in {"alerted", "suppressed"} => task'[x] = task[x]
  <2> SUFFICES ASSUME NEW x \in Tasks
               PROVE  /\ task'[x] \in {task[x], lost}
                      /\ task'[x].step \notin Parked
                      /\ task'[x].step = "new" => task'[x] = task[x]
                      /\ task[x].step \in {"new", "done"} => task'[x] = task[x]
                      /\ task'[x].out \in {"alerted", "suppressed"} => task'[x] = task[x]
    OBVIOUS
  <2>1. CASE task[x].step \in {"new", "done"}
    BY <1>1, <2>1 DEF Parked
  <2>2. CASE task[x].step \notin {"new", "done"}
    BY <1>1, <1>2, <2>2, UebaConstants DEF Parked
  <2>3. QED
    BY <2>1, <2>2
<1>4. TypeOK'
  <2>1. boot' \in 0 .. MaxBoots /\ lastAlertAt' \in [Users -> 0 .. now']
    BY <1>1, UebaConstants
  <2>2. task' \in [Tasks -> Task]
    BY <1>1, <1>2 DEF TypeOK
  <2>3. QED
    BY <1>1, <2>1, <2>2 DEF TypeOK
\* No alert is of the new process yet.
<1>5. \A l \in Logs : task'[l].out = "alerted" => task'[l].boot < boot'
  <2> SUFFICES ASSUME NEW l \in Logs, task'[l].out = "alerted"
               PROVE  task'[l].boot < boot'
    OBVIOUS
  <2>1. task'[l] = task[l] /\ task[l].boot \in Nat
    BY <1>1, <1>3 DEF TypeOK, Task
  <2>2. task[l].boot <= boot
    BY <1>1, <2>1 DEF Alerts, TasksInOrder, Over
  <2>3. QED
    BY <1>1, <2>1, <2>2
<1>6. \A l \in Logs : ~AlertedNow(l)'
  <2>1. boot' \in Int
    BY <1>1, UebaConstants
  <2>2. QED
    BY <1>5, <2>1 DEF AlertedNow
<1>7. TasksInOrder'
  <2> SUFFICES ASSUME NEW x \in Tasks PROVE OnItsWay(x)' /\ Over(x)'
    BY DEF TasksInOrder
  <2>1. OnItsWay(x)'
    BY <1>3 DEF OnItsWay
  <2>2. Over(x)'
    <3> SUFFICES ASSUME task'[x].out \in {"alerted", "suppressed"} PROVE Over(x)'
      BY DEF Over
    <3>1. task'[x] = task[x] /\ task[x].boot \in Nat
      BY <1>1, <1>3 DEF TypeOK, Task
    <3>2. QED
      BY <1>1, <3>1 DEF Alerts, TasksInOrder, Over
  <2>3. QED
    BY <2>1, <2>2
<1>8. LastAlertIsKnown' /\ LastAlertIsLatest' /\ Checked'
  BY <1>1, <1>6 DEF LastAlertIsKnown, LastAlertIsLatest, Checked
<1>9. CloseAlertsOverlapped'
  BY <1>1, <1>3 DEF Alerts, CloseAlertsOverlapped, Alerted
<1>10. SilenceHasAnAlert'
  <2> SUFFICES ASSUME NEW m \in Logs, task'[m].out = "suppressed"
               PROVE  \E l \in Logs :
                        /\ task'[l].out = "alerted" /\ task'[l].user = task'[m].user
                        /\ task'[l].boot = task'[m].boot
                        /\ task'[m].at - task'[l].at \in 0 .. Cooldown - 1
    BY DEF SilenceHasAnAlert
  <2>1. task'[m] = task[m]
    BY <1>1, <1>3
  <2>2. PICK l \in Logs :
           /\ task[l].out = "alerted" /\ task[l].user = task[m].user
           /\ task[l].boot = task[m].boot
           /\ task[m].at - task[l].at \in 0 .. Cooldown - 1
    BY <1>1, <2>1 DEF Alerts, SilenceHasAnAlert
  <2>3. task'[l] = task[l]
    BY <1>1, <1>3, <2>2 DEF Alerts, TasksInOrder, Over
  <2>4. QED
    BY <2>1, <2>2, <2>3
<1>11. Samples'
  <2>1. \A y \in Tasks : task'[y].step \in {"upsert", "new"} => task'[y] = task[y]
    BY <1>3 DEF Parked
  <2>2. QED
    BY <1>1, <2>1, SamplesIgnoreAlerts
<1>12. QED
  BY <1>4, <1>7, <1>8, <1>9, <1>10, <1>11 DEF IInv, Samples

\* A step that leaves the variables alone.
LEMMA StutterPreserves == IInv /\ UNCHANGED vars => IInv'
<1> SUFFICES ASSUME IInv, UNCHANGED vars PROVE IInv'
  OBVIOUS
<1>1. /\ now' = now /\ boot' = boot /\ rows' = rows /\ baseline' = baseline
      /\ lastAlertAt' = lastAlertAt /\ task' = task
  BY DEF vars
<1>2. TypeOK' /\ TasksInOrder'
  BY <1>1 DEF IInv, TypeOK, TasksInOrder, OnItsWay, Over
<1>3. LastAlertIsKnown' /\ LastAlertIsLatest' /\ Checked'
  BY <1>1 DEF IInv, LastAlertIsKnown, LastAlertIsLatest, Checked, AlertedNow
<1>4. CloseAlertsOverlapped' /\ SilenceHasAnAlert'
  BY <1>1 DEF IInv, CloseAlertsOverlapped, SilenceHasAnAlert, Alerted
<1>5. SnapshotsAreGrounded' /\ NewAreNotStored' /\ BaselinesAreGrounded'
  BY <1>1 DEF IInv, SnapshotsAreGrounded, NewAreNotStored, BaselinesAreGrounded, Grounded
<1>6. QED
  BY <1>2, <1>3, <1>4, <1>5 DEF IInv

-----------------------------------------------------------------------------
\* The strengthened invariant holds in every reachable state.
THEOREM Invariance == Spec => []IInv
<1>1. IInv /\ [Next]_vars => IInv'
  BY TickPreserves, RestartPreserves, StutterPreserves, ProgressPreserves,
     StartPreserves DEF Next
<1>2. QED
  BY InitEstablishes, <1>1, PTL DEF Spec

\* Rows, baselines, the times of the last alerts and all tasks keep their types,
\* and no time of a last alert lies in the future.
THEOREM TypeCorrect == Spec => []TypeOK
  BY Invariance, PTL DEF IInv

\* Two alerts of a user closer than the cooldown come from listeners that
\* overlapped: the race between isInCooldown and lastAlertAtByUser.set is the
\* only way to break the cooldown within a process.
THEOREM OnlyOverlapBreaksCooldown == Spec => []CloseAlertsOverlapped
  BY Invariance, PTL DEF IInv

\* The listener suppresses an anomaly only when its user was alerted less than
\* a cooldown ago.
THEOREM NoSilenceWithoutAlert == Spec => []SilenceHasAnAlert
  BY Invariance, PTL DEF IInv

\* Every stored baseline was learnt from enough rows of its own user.
THEOREM BaselinesStayGrounded == Spec => []BaselinesAreGrounded
  BY Invariance, PTL DEF IInv
=============================================================================
