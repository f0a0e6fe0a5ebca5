-------------------------- MODULE ThreatScanProofs --------------------------
(***************************************************************************)
(* A scan keeps its deadline and its request quota, for any timeout, poll  *)
(* interval and least sleep, and any number of scans at a time.            *)
(***************************************************************************)
EXTENDS ThreatScan, TLAPS

\* A timer in the future; only a submission may be given the extra tick.
TimerInReach(t) ==
  t.step \in Waiting =>
    /\ t.began <= now /\ now <= t.until
    /\ t.until <= Deadline(t) + (IF t.step = "submit" THEN 1 ELSE 0)

\* The timeout of a request never ends before the deadline.
RequestsGetTheRest(t) == t.step \in Asking => t.until >= Deadline(t)

\* A scan that timed out did so within its last least sleep, or later.
TimeoutIsLate(t) == t.answer = "timeout" => t.ended >= Deadline(t) - MinPollSleep

\* Time spent on n polls, a Gap each.
Spent(n) == n * Gap
PollsArePaid(t) ==
  /\ t.step = "new" => t.asked = 0
  /\ t.step = "report" => t.asked = 1
  /\ t.step = "submit" => t.asked = 2
  /\ t.step = "poll" => t.asked > 2 /\ t.began + Spent(t.asked - 3) <= now
  /\ t.step = "sleep" => t.asked > 2 /\ t.began + Spent(t.asked - 2) <= t.until
  /\ t.asked > 2 => Spent(t.asked - 3) < ScanTimeout

Good(t) ==
  TimerInReach(t) /\ RequestsGetTheRest(t) /\ TimeoutIsLate(t) /\ PollsArePaid(t)

IInv == TypeOK /\ \A s \in Scans : Good(scan[s])
-----------------------------------------------------------------------------
\* Math.max of two integers.
LEMMA MaxOfTwo ==
  ASSUME NEW a \in Int, NEW b \in Int
  PROVE  Max({a, b}) = IF a >= b THEN a ELSE b
<1>1. \E x \in {a, b} : \A y \in {a, b} : x >= y  OBVIOUS
<1> QED  BY <1>1 DEF Max

\* Math.min of two integers.
LEMMA MinOfTwo ==
  ASSUME NEW a \in Int, NEW b \in Int
  PROVE  Min({a, b}) = IF a <= b THEN a ELSE b
<1>1. \E x \in {a, b} : \A y \in {a, b} : x <= y  OBVIOUS
<1> QED  BY <1>1 DEF Min

\* remainingTimeout: what is left until the deadline, or one tick.
LEMMA RemainingValue ==
  ASSUME now \in Nat, NEW t, t.began \in Nat
  PROVE  /\ Remaining(t) \in Nat \ {0}
         /\ Remaining(t) = IF Deadline(t) - now >= 1 THEN Deadline(t) - now ELSE 1
<1>1. Deadline(t) - now \in Int  BY ScanConstants DEF Deadline
<1> QED  BY <1>1, MaxOfTwo DEF Remaining

\* Between two polls at least one tick passes.
LEMMA GapValue ==
  Gap \in Nat \ {0} /\ Gap <= PollInterval /\ Gap <= MinPollSleep + 1
BY ScanConstants, MinOfTwo DEF Gap

\* A sleep ends by the deadline and is at least a Gap long.
LEMMA PauseValue ==
  ASSUME now \in Nat, NEW t, t.began \in Nat, ~GiveUp(t)
  PROVE  /\ Pause(t) \in Nat /\ Gap <= Pause(t)
         /\ now + Pause(t) <= Deadline(t)
<1>1. Max({MinPollSleep, Remaining(t)}) = Remaining(t)
  BY RemainingValue, MaxOfTwo, ScanConstants DEF GiveUp
<1>2. Pause(t) = IF PollInterval <= Remaining(t) THEN PollInterval ELSE Remaining(t)
  <2>1. PollInterval \in Int /\ Remaining(t) \in Int
    BY RemainingValue, ScanConstants
  <2>2. Pause(t) = Min({PollInterval, Remaining(t)})  BY <1>1 DEF Pause
  <2> QED  BY <2>1, <2>2, MinOfTwo
<1>3. Remaining(t) > MinPollSleep  BY RemainingValue, ScanConstants DEF GiveUp
<1>4. Remaining(t) = Deadline(t) - now  BY <1>3, RemainingValue, ScanConstants
<1> QED
  BY <1>2, <1>3, <1>4, RemainingValue, GapValue, ScanConstants DEF Deadline

\* One more poll costs one more Gap.
LEMMA SpentGrows ==
  ASSUME NEW n \in Int
  PROVE  Spent(n) \in Int /\ Spent(n + 1) = Spent(n) + Gap /\ Spent(0) = 0
<1>1. \A g \in Int : n * g \in Int /\ (n + 1) * g = n * g + g /\ 0 * g = 0  OBVIOUS
<1> QED  BY <1>1, GapValue DEF Spent

\* No step changes the price of a poll.
LEMMA SpentStands == \A n \in Int : Spent(n)' = Spent(n)
BY DEF Spent, Gap
-----------------------------------------------------------------------------
\* A step that changes one scan, at a standing clock, keeps the invariant if
\* the scan it leaves is good.
LEMMA SetKeeps ==
  ASSUME IInv, NEW s \in Scans, NEW t \in Scan, Good(t), Set(s, t),
         UNCHANGED <<hasKey, now>>
  PROVE  IInv'
<1>1. TypeOK'  BY DEF IInv, TypeOK, Set
<1>2. ASSUME NEW r \in Scans  PROVE Good(scan[r])'
  <2>1. scan'[r] = IF r = s THEN t ELSE scan[r]  BY DEF IInv, TypeOK, Set
  <2>2. Good(scan'[r])  BY <2>1 DEF IInv
  <2> QED
    BY <2>2 DEF Good, TimerInReach, RequestsGetTheRest, TimeoutIsLate,
                PollsArePaid, Deadline, Spent, Gap
<1> QED  BY <1>1, <1>2 DEF IInv

\* An answer, if the scan has not been answered too soon.
LEMMA AnswerKeeps ==
  ASSUME IInv, NEW s \in Scans, NEW a \in Verdicts \cup {"timeout", "failure"},
         Answer(s, a), UNCHANGED <<hasKey, now>>,
         a = "timeout" => now >= Deadline(scan[s]) - MinPollSleep
  PROVE  IInv'
<1> DEFINE t == [scan[s] EXCEPT !.step = "done", !.ended = now, !.answer = a]
<1>1. scan[s] \in Scan /\ Good(scan[s]) /\ now \in 0 .. MaxTime
  BY DEF IInv, TypeOK
<1>2. t \in Scan  BY <1>1 DEF Scan, Waiting, Asking
<1>3. /\ t.step = "done" /\ t.ended = now /\ t.answer = a
      /\ t.began = scan[s].began /\ t.asked = scan[s].asked
  BY <1>1 DEF Scan
<1>4. Good(t)
  <2>1. Deadline(t) = Deadline(scan[s])  BY <1>3 DEF Deadline
  <2>2. TimerInReach(t) /\ RequestsGetTheRest(t)
    BY <1>3 DEF TimerInReach, RequestsGetTheRest, Waiting, Asking
  <2>3. TimeoutIsLate(t)  BY <1>3, <2>1 DEF TimeoutIsLate
  <2>4. PollsArePaid(t)  BY <1>1, <1>3 DEF Good, PollsArePaid
  <2> QED  BY <2>2, <2>3, <2>4 DEF Good
<1> HIDE DEF t
<1> QED  BY <1>2, <1>4, SetKeeps DEF Answer, t

\* A request is asked before the deadline; only the submission at it.
LEMMA AskKeeps ==
  ASSUME IInv, NEW s \in Scans, NEW t \in Scan, NEW step \in Asking,
         Ask(s, t, step), UNCHANGED <<hasKey, now>>, TimeoutIsLate(t),
         t.began <= now, now <= Deadline(t), step # "submit" => now < Deadline(t),
         step = "report" => t.asked = 0,
         step = "submit" => t.asked = 1,
         step = "poll" => /\ t.asked > 1
                          /\ t.began + Spent(t.asked - 2) <= now
  PROVE  IInv'
<1> DEFINE u == [t EXCEPT !.step = step, !.asked = @ + 1,
                          !.until = now + Remaining(t)]
<1>1. /\ now \in 0 .. MaxTime /\ t.began \in 0 .. MaxStart /\ t.asked \in Nat
      /\ ScanTimeout \in Nat \ {0} /\ MaxTime = MaxStart + ScanTimeout + 1
      /\ MaxStart \in Nat /\ Deadline(t) = t.began + ScanTimeout
  BY ScanConstants DEF IInv, TypeOK, Scan, MaxTime, Deadline
<1>2. /\ Remaining(t) \in Nat \ {0}
      /\ Remaining(t) = IF Deadline(t) - now >= 1 THEN Deadline(t) - now ELSE 1
  BY <1>1, RemainingValue
<1>3. now + Remaining(t) \in 0 .. MaxTime  BY <1>1, <1>2
<1>4. u \in Scan
  <2>1. t.asked + 1 \in Nat /\ step \in {"new", "done"} \cup Waiting
    BY <1>1 DEF Waiting
  <2> QED  BY <1>3, <2>1 DEF Scan
<1>5. /\ u.step = step /\ u.asked = t.asked + 1
      /\ u.answer = t.answer /\ u.ended = t.ended
      /\ u.until = now + Remaining(t) /\ u.began = t.began
  BY DEF Scan
<1>6. Deadline(u) = Deadline(t)  BY <1>5 DEF Deadline
<1>7. TimerInReach(u)  BY <1>1, <1>2, <1>5, <1>6 DEF TimerInReach, Asking
<1>8. RequestsGetTheRest(u)  BY <1>1, <1>2, <1>5, <1>6 DEF RequestsGetTheRest
<1>9. TimeoutIsLate(u)  BY <1>5, <1>6 DEF TimeoutIsLate
<1>10. PollsArePaid(u)
  <2>1. CASE step = "poll"
    <3>1. u.asked - 3 = t.asked - 2  BY <1>1, <1>5
    <3>2. Spent(t.asked - 2) \in Int  BY <1>1, SpentGrows
    <3>3. Spent(t.asked - 2) < ScanTimeout  BY <1>1, <2>1, <3>2
    <3> QED  BY <1>1, <1>5, <2>1, <3>1, <3>3 DEF PollsArePaid
  <2>2. CASE step # "poll"  BY <1>1, <1>5, <2>2 DEF PollsArePaid, Asking
  <2> QED  BY <2>1, <2>2
<1>11. Good(u)  BY <1>7, <1>8, <1>9, <1>10 DEF Good
<1> HIDE DEF u
<1> QED  BY <1>4, <1>11, SetKeeps DEF Ask, u

-----------------------------------------------------------------------------
\* Scans that have not begun are good.
LEMMA IInvInit == Init => IInv
<1> SUFFICES ASSUME Init  PROVE IInv  OBVIOUS
<1>1. NewScan \in Scan /\ 0 \in 0 .. MaxTime
  BY ScanConstants DEF NewScan, Scan, MaxTime
<1>2. Good(NewScan)
  BY ScanConstants DEF NewScan, Good, TimerInReach, RequestsGetTheRest,
     TimeoutIsLate, PollsArePaid, Waiting, Asking
<1> QED  BY <1>1, <1>2 DEF Init, IInv, TypeOK

\* The head of the loop, after the submission or a sleep.
LEMMA LoopKeeps ==
  ASSUME IInv, NEW s \in Scans, PollLoop(s), UNCHANGED <<hasKey, now>>,
         scan[s].began <= now, scan[s].asked > 1,
         scan[s].began + Spent(scan[s].asked - 2) <= now
  PROVE  IInv'
<1>1. /\ scan[s] \in Scan /\ now \in Nat /\ Deadline(scan[s]) \in Nat
      /\ TimeoutIsLate(scan[s])
  BY ScanConstants DEF IInv, TypeOK, Scan, Deadline, Good
<1>2. CASE now < Deadline(scan[s]) /\ Ask(s, scan[s], "poll")
  BY <1>1, <1>2, AskKeeps DEF Asking
<1>3. CASE now >= Deadline(scan[s]) /\ Answer(s, "timeout")
  BY <1>1, <1>3, AnswerKeeps, ScanConstants
<1> QED  BY <1>2, <1>3 DEF PollLoop

\* Each action keeps the invariant.
LEMMA IInvNext == IInv /\ [Next]_vars => IInv'
<1> SUFFICES ASSUME IInv, [Next]_vars  PROVE IInv'  OBVIOUS
<1>1. \A s \in Scans :
        /\ scan[s] \in Scan /\ Good(scan[s]) /\ scan[s].began \in Nat
        /\ Deadline(scan[s]) \in Nat /\ scan[s].asked \in Nat
        /\ scan[s].until \in Nat
  BY ScanConstants DEF IInv, TypeOK, Scan, Deadline
<1>2. now \in 0 .. MaxTime /\ now \in Nat  BY DEF IInv, TypeOK
<1>3. CASE Tick
  <2>1. TypeOK'  BY <1>2, <1>3, ScanConstants DEF Tick, IInv, TypeOK, MaxTime
  <2>2. ASSUME NEW s \in Scans  PROVE Good(scan[s])'
    <3>1. scan'[s] = scan[s] /\ now' = now + 1  BY <1>3 DEF Tick
    <3>2. TimerInReach(scan[s])'
      BY <1>1, <1>2, <1>3, <3>1 DEF Tick, Good, TimerInReach, Deadline
    <3>3. PollsArePaid(scan[s])'
      <4>1. scan[s].step = "poll" => Spent(scan[s].asked - 3) \in Int
        BY <1>1, SpentGrows
      <4> QED
        BY <1>1, <1>2, <3>1, <4>1, SpentStands DEF Good, PollsArePaid
    <3>4. RequestsGetTheRest(scan[s])' /\ TimeoutIsLate(scan[s])'
      BY <1>1, <3>1 DEF Good, RequestsGetTheRest, TimeoutIsLate, Deadline
    <3> QED  BY <3>2, <3>3, <3>4 DEF Good
  <2> QED  BY <2>1, <2>2 DEF IInv
<1>4. ASSUME NEW s \in Scans, StartScan(s)  PROVE IInv'
  <2> DEFINE t == [NewScan EXCEPT !.began = now]
  <2>1. t \in Scan /\ now <= MaxStart
    BY <1>2, <1>4, ScanConstants DEF StartScan, NewScan, Scan, MaxTime
  <2>2. /\ t.step = "new" /\ t.began = now /\ t.asked = 0 /\ t.answer = None
        /\ TimeoutIsLate(t) /\ Deadline(t) = now + ScanTimeout
    BY ScanConstants DEF NewScan, TimeoutIsLate, Deadline
  <2>3. CASE hasKey /\ Ask(s, t, "report")
    <3>1. t.began <= now /\ now < Deadline(t)  BY <1>2, <2>2, ScanConstants
    <3>2. UNCHANGED <<hasKey, now>> /\ "report" \in Asking
      BY <1>4 DEF StartScan, Asking
    <3>3. now <= Deadline(t)  BY <1>2, <2>2, ScanConstants
    <3>4. PICK u : u = t  OBVIOUS
    <3>5. /\ u \in Scan /\ u.asked = 0 /\ TimeoutIsLate(u) /\ u.began <= now
          /\ now <= Deadline(u) /\ now < Deadline(u) /\ Ask(s, u, "report")
      BY <2>1, <2>2, <2>3, <3>1, <3>3, <3>4, Zenon
    <3> HIDE DEF t
    <3> QED  BY ONLY IInv, s \in Scans, <3>2, <3>5, AskKeeps
  <2>4. CASE ~hasKey /\ Set(s, [NewScan EXCEPT !.began = now, !.step = "done",
                                          !.ended = now, !.answer = "failure"])
    <3> DEFINE u == [NewScan EXCEPT !.began = now, !.step = "done",
                                    !.ended = now, !.answer = "failure"]
    <3>1. u \in Scan
      BY <1>2, <2>1, ScanConstants DEF NewScan, Scan, MaxTime
    <3>2. u.step = "done" /\ u.answer = "failure" /\ u.asked = 0
      BY DEF NewScan
    <3>3. Good(u)
      BY <3>2 DEF Good, TimerInReach, RequestsGetTheRest, TimeoutIsLate,
                  PollsArePaid, Waiting, Asking
    <3> QED  BY <1>4, <2>4, <3>1, <3>3, SetKeeps DEF StartScan
  <2> QED  BY <1>4, <2>3, <2>4 DEF StartScan
<1>5. ASSUME NEW s \in Scans, ReportAnswer(s)  PROVE IInv'
  <2>1. CASE \E v \in Verdicts : Answer(s, v)
    BY <1>5, <2>1, AnswerKeeps DEF ReportAnswer, Verdicts
  <2>2. CASE Ask(s, scan[s], "submit")
    <3>1. /\ scan[s].began <= now /\ now <= Deadline(scan[s])
          /\ scan[s].asked = 1 /\ TimeoutIsLate(scan[s])
      BY <1>1, <1>2, <1>5
      DEF ReportAnswer, Good, TimerInReach, PollsArePaid, Waiting, Asking
    <3> QED  BY <1>1, <1>5, <2>2, <3>1, AskKeeps DEF ReportAnswer, Asking
  <2> QED  BY <1>5, <2>1, <2>2 DEF ReportAnswer
<1>6. ASSUME NEW s \in Scans, SubmitAnswer(s)  PROVE IInv'
  <2>1. scan[s].asked = 2  BY <1>1, <1>6 DEF SubmitAnswer, Good, PollsArePaid
  <2>2. scan[s].began <= now
    BY <1>1, <1>6 DEF SubmitAnswer, Good, TimerInReach, Waiting, Asking
  <2>3. scan[s].began + Spent(scan[s].asked - 2) <= now
    BY <1>1, <1>2, <2>1, <2>2, SpentGrows
  <2> QED  BY <1>6, <2>1, <2>2, <2>3, LoopKeeps DEF SubmitAnswer
<1>7. ASSUME NEW s \in Scans, PollAnswer(s)  PROVE IInv'
  <2>1. CASE \E v \in Verdicts \ {"UNVERIFIED"} : Answer(s, v)
    BY <1>7, <2>1, AnswerKeeps DEF PollAnswer, Verdicts
  <2>2. CASE Answer(s, "failure")
    BY <1>7, <2>2, AnswerKeeps DEF PollAnswer
  <2>3. CASE GiveUp(scan[s]) /\ Answer(s, "timeout")
    <3>1. now >= Deadline(scan[s]) - MinPollSleep
      BY <1>1, <1>2, <2>3, RemainingValue, ScanConstants DEF GiveUp
    <3> QED  BY <1>7, <2>3, <3>1, AnswerKeeps DEF PollAnswer
  <2>4. CASE ~GiveUp(scan[s]) /\ Set(s, [scan[s] EXCEPT !.step = "sleep",
                                               !.until = now + Pause(scan[s])])
    <3> DEFINE t == [scan[s] EXCEPT !.step = "sleep",
                                    !.until = now + Pause(scan[s])]
    <3>1. /\ Pause(scan[s]) \in Nat /\ Gap <= Pause(scan[s])
          /\ now + Pause(scan[s]) <= Deadline(scan[s])
      BY <1>1, <1>2, <2>4, PauseValue
    <3>2. Deadline(scan[s]) <= MaxTime
      BY <1>1, ScanConstants DEF Scan, Deadline, MaxTime
    <3>3. now + Pause(scan[s]) \in 0 .. MaxTime
      BY <1>1, <1>2, <3>1, <3>2, ScanConstants DEF MaxTime
    <3>4. t \in Scan  BY <1>1, <3>3 DEF Scan, Waiting
    <3>5. /\ t.step = "sleep" /\ t.until = now + Pause(scan[s])
          /\ t.began = scan[s].began /\ t.asked = scan[s].asked
          /\ t.answer = scan[s].answer /\ t.ended = scan[s].ended
      BY <1>1 DEF Scan
    <3>6. Deadline(t) = Deadline(scan[s])  BY <3>5 DEF Deadline
    <3>7. TimerInReach(t) /\ RequestsGetTheRest(t) /\ TimeoutIsLate(t)
      BY <1>1, <1>2, <1>7, <3>1, <3>5, <3>6
      DEF PollAnswer, Good, TimerInReach, RequestsGetTheRest, TimeoutIsLate,
          Waiting, Asking
    <3>8. PollsArePaid(t)
      <4>1. /\ Spent(scan[s].asked - 3) \in Int
            /\ Spent(scan[s].asked - 2) = Spent(scan[s].asked - 3) + Gap
        <5>1. scan[s].asked - 3 \in Int
              /\ scan[s].asked - 2 = (scan[s].asked - 3) + 1
          BY <1>1
        <5> QED  BY <5>1, SpentGrows
      <4>2. /\ scan[s].asked > 2 /\ scan[s].began + Spent(scan[s].asked - 3) <= now
            /\ Spent(scan[s].asked - 3) < ScanTimeout
        BY <1>1, <1>7 DEF PollAnswer, Good, PollsArePaid
      <4> QED  BY <1>1, <1>2, <3>1, <3>5, <4>1, <4>2, GapValue DEF PollsArePaid
    <3>9. Good(t)  BY <3>7, <3>8 DEF Good
    <3> HIDE DEF t
    <3> QED  BY <1>7, <2>4, <3>4, <3>9, SetKeeps DEF PollAnswer, t
  <2> QED  BY <1>7, <2>1, <2>2, <2>3, <2>4 DEF PollAnswer
<1>8. ASSUME NEW s \in Scans, RequestFails(s)  PROVE IInv'
  BY <1>8, AnswerKeeps DEF RequestFails
<1>9. ASSUME NEW s \in Scans, TimerFires(s)  PROVE IInv'
  <2>1. CASE scan[s].step \in Asking /\ Answer(s, "timeout")
    <3>1. now >= Deadline(scan[s]) - MinPollSleep
      BY <1>1, <1>2, <1>9, <2>1, ScanConstants
      DEF TimerFires, Good, RequestsGetTheRest
    <3> QED  BY <1>9, <2>1, <3>1, AnswerKeeps DEF TimerFires
  <2>2. CASE scan[s].step = "sleep" /\ PollLoop(s)
    <3>1. /\ scan[s].began <= now /\ scan[s].asked > 1
          /\ scan[s].began + Spent(scan[s].asked - 2) <= now
      BY <1>1, <1>9, <2>2
      DEF TimerFires, Good, TimerInReach, PollsArePaid, Waiting
    <3> QED  BY <1>9, <2>2, <3>1, LoopKeeps DEF TimerFires
  <2> QED  BY <1>9, <2>1, <2>2 DEF TimerFires
<1>10. CASE UNCHANGED vars
  BY <1>10 DEF vars, IInv, TypeOK, Good, TimerInReach, RequestsGetTheRest,
     TimeoutIsLate, PollsArePaid, Deadline, Spent, Gap
<1> QED
  BY <1>3, <1>4, <1>5, <1>6, <1>7, <1>8, <1>9, <1>10 DEF Next

\* The invariant holds in every reachable state.
LEMMA IInvAlways == Spec => []IInv
BY IInvInit, IInvNext, PTL DEF Spec
-----------------------------------------------------------------------------
\* The clock and the scans keep their types; no timer is set past MaxTime.
THEOREM TypeCorrect == Spec => []TypeOK
<1>1. IInv => TypeOK  BY DEF IInv
<1> QED  BY <1>1, IInvAlways, PTL

\* scanUrl waits at most one tick beyond its deadline.
THEOREM ScansKeepTheirDeadline == Spec => []AnsweredInTime
<1>1. IInv => AnsweredInTime
  <2> SUFFICES ASSUME IInv, NEW s \in Scans, scan[s].step \in Waiting
               PROVE  now <= Deadline(scan[s]) + 1
    BY DEF AnsweredInTime
  <2>1. now \in Nat /\ scan[s].until \in Nat /\ Deadline(scan[s]) \in Nat
    BY ScanConstants DEF IInv, TypeOK, Scan, Deadline
  <2> QED  BY <2>1 DEF IInv, Good, TimerInReach
<1> QED  BY <1>1, IInvAlways, PTL

\* pollAnalysisResult ends as a timeout only when its time is used up.
THEOREM ScansUseTheirTime == Spec => []NeverGivesUpEarly
<1>1. IInv => NeverGivesUpEarly
  BY DEF IInv, Good, TimeoutIsLate, NeverGivesUpEarly
<1> QED  BY <1>1, IInvAlways, PTL

\* A scan spends a bounded part of the quota of VirusTotal requests.
THEOREM ScansKeepTheirQuota == Spec => []QuotaPerScan
<1>1. IInv => QuotaPerScan
  BY DEF IInv, Good, PollsArePaid, Spent, QuotaPerScan
<1> QED  BY <1>1, IInvAlways, PTL
=============================================================================
