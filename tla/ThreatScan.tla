----------------------------- MODULE ThreatScan -----------------------------
(***************************************************************************)
(* A scan of a URL by VirusTotal: it asks for a report, submits the URL if *)
(* there is none and polls the analysis, all under one deadline.  Several  *)
(* requests of the proxy scan at the same time.                            *)
(*                                                                         *)
(* Every wait has a timer, "until": the timeout of an HTTP request or the  *)
(* end of a sleep.  The clock does not pass a timer that is due; an answer *)
(* may come at any moment until then, or never.                            *)
(***************************************************************************)
EXTENDS Integers, FiniteSetsExt

CONSTANTS
  Scans,         \* calls of ThreatService.scanUrl
  ScanTimeout,   \* THREAT_SCAN_TIMEOUT_MS, in ticks
  PollInterval,  \* THREAT_SCAN_POLL_INTERVAL_MS, in ticks
  MinPollSleep,  \* MIN_POLL_SLEEP_MS, in ticks
  MaxStart,      \* bound on the time scans begin
  None

Verdicts == {"MALICIOUS", "SUSPICIOUS", "SAFE", "UNVERIFIED"}

ASSUME ScanConstants ==
  /\ ScanTimeout \in Nat \ {0} /\ PollInterval \in Nat \ {0}
  /\ MinPollSleep \in Nat \ {0} /\ MaxStart \in Nat
  /\ None \notin Verdicts \cup {"timeout", "failure"}

VARIABLES
  hasKey,  \* VIRUSTOTAL_API_KEY is set; the environment of a process is fixed
  now,     \* Date.now()
  scan     \* the scans, each with the timer it waits for

vars == <<hasKey, now, scan>>

\* The last moment a timer can be due.
MaxTime == MaxStart + ScanTimeout + 1

Asking  == {"report", "submit", "poll"}
Waiting == Asking \cup {"sleep"}

\* "asked" counts the HTTP requests of a scan; "timeout" and "failure" are the
\* two fail-safe answers, UNVERIFIED with metadata.failSafe.
Scan == [step: {"new", "done"} \cup Waiting, began: 0 .. MaxStart,
         until: 0 .. MaxTime, ended: 0 .. MaxTime, asked: Nat,
         answer: Verdicts \cup {"timeout", "failure", None}]

NewScan == [step |-> "new", began |-> 0, until |-> 0, ended |-> 0, asked |-> 0,
            answer |-> None]

TypeOK == hasKey \in BOOLEAN /\ now \in 0 .. MaxTime /\ scan \in [Scans -> Scan]

Init == hasKey \in BOOLEAN /\ now = 0 /\ scan = [s \in Scans |-> NewScan]

-----------------------------------------------------------------------------
Deadline(t) == t.began + ScanTimeout

\* Mutant of Remaining: every request gets the whole timeout.
RemainingFull(t) == ScanTimeout

\* remainingTimeout, at least one tick.
Remaining(t) == Max({Deadline(t) - now, 1})

Set(s, t)    == scan' = [scan EXCEPT ![s] = t]
Answer(s, a) == Set(s, [scan[s] EXCEPT !.step = "done", !.ended = now, !.answer = a])

\* One more HTTP request, in the step it belongs to.
Ask(s, t, step) == Set(s, [t EXCEPT !.step = step, !.asked = @ + 1,
                                    !.until = now + Remaining(t)])

\* scanUrl; without a key the answer is the fail-safe one at once.
StartScan(s) ==
  /\ scan[s].step = "new" /\ now <= MaxStart
  /\ \/ hasKey /\ Ask(s, [NewScan EXCEPT !.began = now], "report")
     \/ ~hasKey /\ Set(s, [NewScan EXCEPT !.began = now, !.step = "done",
                                          !.ended = now, !.answer = "failure"])
  /\ UNCHANGED <<hasKey, now>>

\* tryGetCachedReport: a report, one without statistics, or none (404).
ReportAnswer(s) ==
  /\ scan[s].step = "report"
  /\ (\E v \in Verdicts : Answer(s, v)) \/ Ask(s, scan[s], "submit")
  /\ UNCHANGED <<hasKey, now>>

\* The head of the polling loop.
PollLoop(s) ==
  \/ now < Deadline(scan[s]) /\ Ask(s, scan[s], "poll")
  \/ now >= Deadline(scan[s]) /\ Answer(s, "timeout")

SubmitAnswer(s) ==
  /\ scan[s].step = "submit"
  /\ PollLoop(s)
  /\ UNCHANGED <<hasKey, now>>

\* Mutant of Pause: Math.min in place of the inner Math.max.
PauseShort(t) == Min({PollInterval, MinPollSleep, Remaining(t)})

\* How long to sleep before the next poll.
Pause(t) == Min({PollInterval, Max({MinPollSleep, Remaining(t)})})

\* Mutant of GiveUp: less than an interval is left.
GiveUpInterval(t) == Remaining(t) <= PollInterval + MinPollSleep

GiveUp(t) == Remaining(t) <= MinPollSleep

\* A poll finds the analysis completed with statistics, failed, or neither.
PollAnswer(s) ==
  /\ scan[s].step = "poll"
  /\ \/ \E v \in Verdicts \ {"UNVERIFIED"} : Answer(s, v)
     \/ Answer(s, "failure")
     \/ GiveUp(scan[s]) /\ Answer(s, "timeout")
     \/ ~GiveUp(scan[s]) /\ Set(s, [scan[s] EXCEPT !.step = "sleep",
                                                   !.until = now + Pause(scan[s])])
  /\ UNCHANGED <<hasKey, now>>

\* The request ends in an error, or without an analysis id.  The system's own
\* ETIMEDOUT, which takes minutes, is not told from the timer's.
RequestFails(s) ==
  /\ scan[s].step \in Asking
  /\ Answer(s, "failure")
  /\ UNCHANGED <<hasKey, now>>

\* Mutant of TimerFires: polls are sent without a timeout.
TimerFiresUnlessPolling(s) ==
  /\ scan[s].step \in Waiting \ {"poll"} /\ scan[s].until = now
  /\ scan[s].step # "sleep" => Answer(s, "timeout")
  /\ scan[s].step = "sleep" => PollLoop(s)
  /\ UNCHANGED <<hasKey, now>>

\* The timeout of a request is over, or the sleep is.
TimerFires(s) ==
  /\ scan[s].step \in Waiting /\ scan[s].until = now
  /\ \/ scan[s].step \in Asking /\ Answer(s, "timeout")
     \/ scan[s].step = "sleep" /\ PollLoop(s)
  /\ UNCHANGED <<hasKey, now>>

Tick ==
  /\ now < MaxTime
  /\ \A s \in Scans : scan[s].step \in Waiting => scan[s].until > now
  /\ now' = now + 1
  /\ UNCHANGED <<hasKey, scan>>

Next ==
  \/ Tick
  \/ \E s \in Scans : \/ StartScan(s) \/ ReportAnswer(s) \/ SubmitAnswer(s)
                      \/ PollAnswer(s) \/ RequestFails(s) \/ TimerFires(s)

Spec == Init /\ [][Next]_vars

\* Time passes and timers fire; VirusTotal may never answer.
FairSpec == /\ Spec
            /\ WF_vars(Tick)
            /\ \A s \in Scans : WF_vars(TimerFires(s))
-----------------------------------------------------------------------------
\* Properties.

\* However its requests, polls and sleeps fall, a scan waits at most one tick
\* (the least timeout a request is given) beyond its deadline.
AnsweredInTime ==
  \A s \in Scans : scan[s].step \in Waiting => now <= Deadline(scan[s]) + 1

\* A scan that ends as a timeout has used its time up to the last minimal sleep:
\* no boundary of the loop ends it early.
NeverGivesUpEarly ==
  \A s \in Scans : scan[s].answer = "timeout" =>
    scan[s].ended >= Deadline(scan[s]) - MinPollSleep

\* Polls are spaced, so a scan spends a bounded part of the request quota: the
\* report, the submission, and a poll for every Gap of its timeout.
Gap == Min({PollInterval, MinPollSleep + 1})
QuotaPerScan ==
  \A s \in Scans : scan[s].asked > 2 => (scan[s].asked - 3) * Gap < ScanTimeout

\* Every scan is answered even if VirusTotal never does.
ScansAnswered ==
  \A s \in Scans : scan[s].step \in Waiting ~> scan[s].step = "done"
=============================================================================
