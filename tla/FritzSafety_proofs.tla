------------------------- MODULE FritzSafety_proofs -------------------------
(* Safety of one instance, for every value of the constants: connectivity    *)
(* goes with the missed polls, the poll timer is armed, a running poll is    *)
(* continued until it has no step left, and the picks are kept.              *)
EXTENDS FritzInstance_proofs

-----------------------------------------------------------------------------
(* The link: connectivity, misses and wait.                                  *)

\* What ConnectedMeansAnswering and PollScheduled ask of a link.
Honest(l) ==
    /\ l.connected => l.misses < Strikes
    /\ l.wait = WaitAfter(l.misses)

Scheduled(l) == l.armed /\ l.timer = l.wait

\* No miss, no wait.
LEMMA WaitAtRest == WaitAfter(0) = 0
BY StrikesAssumption DEF WaitAfter

\* An answer and a failure leave an honest link honest: connectivity is lost in
\* the very step in which the last strike is counted, so that no later one has
\* to take it away.
LEMMA HonestGate ==
    ASSUME NEW l \in Link, Honest(l)
    PROVE  Honest(NoteAnswer(l)) /\ Honest(NoteFailure(l))
<1>1. Honest(NoteAnswer(l))
  BY WaitAtRest, StrikesAssumption DEF Honest, NoteAnswer, SetConnected, Arm, Link
<1>2. Honest(NoteFailure(l))
  <2> DEFINE m == Missed(l)
  <2>1. m \in Link
    BY MissedType
  <2>2. m.wait = WaitAfter(m.misses) /\ m.connected = l.connected
    BY DEF Missed, Link
  <2>3. m.connected => m.misses <= Strikes
    BY StrikesAssumption, DelaysAssumption DEF Honest, Missed, Link, MaxMisses
  <2>4. CASE m.misses = Strikes
    <3>1. NoteFailure(l) = Arm(SetConnected(m, FALSE))
      BY <2>4 DEF NoteFailure
    <3>2. /\ SetConnected(m, FALSE).connected = FALSE
          /\ SetConnected(m, FALSE).misses = m.misses
          /\ SetConnected(m, FALSE).wait = m.wait
          /\ SetConnected(m, FALSE) \in Link
      BY <2>1, LinkType DEF SetConnected, Arm, Link
    <3> QED
      BY <2>2, <3>1, <3>2 DEF Honest, Arm, Link
  <2>5. CASE m.misses # Strikes
    <3>1. NoteFailure(l) = Arm(m)
      BY <2>5 DEF NoteFailure
    <3>2. m.connected => m.misses < Strikes
      BY <2>1, <2>3, <2>5, StrikesAssumption, DelaysAssumption DEF Link, MaxMisses
    <3>3. Arm(m).connected = m.connected /\ Arm(m).misses = m.misses /\ Arm(m).wait = m.wait
      BY <2>1 DEF Arm, Link
    <3> QED
      BY <2>2, <3>1, <3>2, <3>3 DEF Honest
  <2> QED
    BY <2>4, <2>5
<1> QED
  BY <1>1, <1>2

\* A link whose misses a new configuration has forgotten is honest, armed or not.
LEMMA HonestFresh ==
    ASSUME NEW l \in Link, l.misses = 0, l.wait = 0
    PROVE  Honest(Arm(l)) /\ Honest(Arm(SetConnected(l, FALSE)))
BY WaitAtRest, StrikesAssumption DEF Honest, SetConnected, Arm, Link

\* Both outcomes of a poll, and arming itself, leave the timer armed with the
\* wait in force.
LEMMA ScheduledGate ==
    ASSUME NEW l \in Link
    PROVE  Scheduled(NoteAnswer(l)) /\ Scheduled(NoteFailure(l)) /\ Scheduled(Arm(l))
<1>1. \A m \in Link : Scheduled(Arm(m))
  BY DEF Scheduled, Arm, Link
<1>2. \E m \in Link : NoteFailure(l) = Arm(m)
  <2>1. Missed(l) \in Link /\ SetConnected(Missed(l), FALSE) \in Link
    BY MissedType, LinkType
  <2> QED
    BY <2>1 DEF NoteFailure
<1>3. \E m \in Link : NoteAnswer(l) = Arm(m)
  <2>0. 0 \in 0 .. MaxMisses /\ 0 \in Wait
    BY StrikesAssumption, DelaysAssumption DEF Wait, MaxMisses
  <2>1. [l EXCEPT !.misses = 0, !.wait = 0] \in Link
    BY <2>0 DEF Link
  <2>2. SetConnected([l EXCEPT !.misses = 0, !.wait = 0], TRUE) \in Link
    BY <2>1, LinkType
  <2> QED
    BY <2>2 DEF NoteAnswer
<1> QED
  BY <1>1, <1>2, <1>3

-----------------------------------------------------------------------------
(* The inductive invariant.                                                  *)

\* An instance that does not run has no call in flight, and one that may come
\* to run has no poll that nothing would continue.
Quiet ==
    /\ lifecycle # "Running" => call = None
    /\ lifecycle \in {"Idle", "Paused"} => ~poll.running

\* The link of a process that has not started is a new one; that of a running
\* instance is honest.
LinkInv ==
    /\ lifecycle = "Idle" => link = InitLink
    /\ lifecycle = "Running" => Honest(link)

SafetyInv == Quiet /\ LinkInv /\ PollAlive /\ PollScheduled

\* A step that leaves the lifecycle alone keeps the invariant when it moves the
\* link as a poll does and leaves a running poll alive.
Polled == link' \in {link, NoteAnswer(link), NoteFailure(link)}

LEMMA SteadyStep ==
    ASSUME TypeOK, SafetyInv, lifecycle' = lifecycle, unsent' = unsent \/ unsent' = TRUE,
           lifecycle # "Running" =>
               call' = None /\ link' = link /\ (poll'.running => poll.running),
           Polled, PollAlive'
    PROVE  SafetyInv'
<1>1. link \in Link
  BY DEF TypeOK
<1>2. Quiet'
  BY DEF Quiet, SafetyInv
<1>3. LinkInv'
  <2>1. CASE lifecycle # "Running"
    BY <2>1 DEF LinkInv, SafetyInv
  <2>2. CASE lifecycle = "Running"
    <3>1. Honest(link)
      BY <2>2 DEF LinkInv, SafetyInv
    <3>2. Honest(link')
      BY <1>1, <3>1, HonestGate DEF Polled
    <3> QED
      BY <2>2, <3>2 DEF LinkInv, Honest
  <2> QED
    BY <2>1, <2>2
<1>4. PollScheduled'
  <2> SUFFICES ASSUME lifecycle = "Running", unsent = FALSE
               PROVE  link'.armed /\ link'.timer = link'.wait
    BY DEF PollScheduled, TypeOK
  <2>1. Scheduled(link)
    BY DEF SafetyInv, PollScheduled, Scheduled
  <2>2. Scheduled(link')
    BY <1>1, <2>1, ScheduledGate DEF Polled
  <2> QED
    BY <2>2 DEF Scheduled
<1> QED
  BY <1>2, <1>3, <1>4 DEF SafetyInv

-----------------------------------------------------------------------------
(* The steps of a poll.                                                      *)

\* A question of a poll is a question of a poll.
LEMMA QuestionKind ==
    ASSUME NEW s \in Step, NEW c, NEW to \in Endpoint
    PROVE  Question(s, c, to) # None /\ Question(s, c, to).kind \in Kind
<1>1. s.kind \in Kind
  BY DEF Step, Kind, Update
<1>2. Question(s, c, to).kind \in Kind
  BY <1>1 DEF Question, Ask, Kind
<1>3. Question(s, c, to) # None
  BY QuestionType, NothingAssumption
<1> QED
  BY <1>2, <1>3

\* runStep() ends the poll, asks the next question, or leaves a shot that will.
LEMMA RunStepSafe ==
    ASSUME TypeOK, NEW busy, NEW left \in Nat, NEW p \in Poll, NEW s, NEW c,
           RunStep(busy, left, p, s, c)
    PROVE  /\ Polled
           /\ poll'.running => \/ call' # None /\ call'.kind \in Kind
                              \/ shots' > 0
<1> DEFINE due == Due(p.todo, cap')
<1>1. due \subseteq Step
  BY DEF Due, Poll
<1>2. CASE FinishPoll(p, s, c)
  <2>1. Polled
    BY <1>2 DEF FinishPoll, Polled
  <2>2. ~poll'.running
    BY <1>2 DEF FinishPoll, Poll
  <2> QED
    BY <2>1, <2>2
<1>3. CASE /\ \E step \in due :
                \/ /\ endpoint # None
                   /\ call' = Question(step, cap', endpoint)
                \/ shots' = StepNotIssued(left)
          /\ link' = link
  <2>1. PICK step \in due : \/ /\ endpoint # None
                               /\ call' = Question(step, cap', endpoint)
                            \/ shots' = StepNotIssued(left)
    BY <1>3
  <2>2. step \in Step /\ (endpoint # None => endpoint \in Endpoint)
    BY <1>1 DEF TypeOK
  <2>3. (call' # None /\ call'.kind \in Kind) \/ shots' > 0
    BY <2>1, <2>2, QuestionKind DEF StepNotIssued
  <2> QED
    BY <1>3, <2>3 DEF Polled
<1> QED
  BY <1>2, <1>3 DEF RunStep

\* The answers of a poll; there are none when the instance does not run.
LEMMA PollReplySafe ==
    ASSUME TypeOK, SafetyInv, PollReply
    PROVE  SafetyInv'
<1>1. PICK out \in {"ok", "invalid", "fault", "none"} :
        InfoReply(out) \/ HostReply(out) \/ BytesReply(out) \/ WlanReply(out) \/ UpdateReply(out)
  BY DEF PollReply
<1>2. PICK kind : Reply(kind, out)
  BY <1>1 DEF InfoReply, HostReply, BytesReply, WlanReply, UpdateReply
<1>3. call \in Call /\ UNCHANGED <<lifecycle, endpoint, sinceSlow, ipc, conf, unsent, up, switch>>
  BY <1>2, ReplyType
<1>4. lifecycle = "Running"
  <2>1. call # None
    BY <1>2 DEF Reply
  <2> QED
    BY <2>1 DEF SafetyInv, Quiet
<1>5. Answered(out) \in Poll
  BY AnsweredType
<1>6. \E p \in Poll : \E ch, v : Continue(p, ch, v)
  <2>1. CASE InfoReply(out)
    BY <1>5, <2>1 DEF InfoReply
  <2>2. CASE HostReply(out)
    <3>1. call.arg \in Mac
      BY <1>3, <2>2 DEF HostReply, Reply, Call
    <3>2. Heard(Answered(out), call.arg, out) \in Poll
      BY <1>5, <3>1 DEF Heard, Poll
    <3> QED
      BY <2>2, <3>2 DEF HostReply
  <2>3. CASE BytesReply(out)
    BY <1>5, <2>3 DEF BytesReply
  <2>4. CASE WlanReply(out)
    BY <1>5, <2>4 DEF WlanReply
  <2>5. CASE UpdateReply(out)
    <3>1. [Answered(out) EXCEPT !.todo = @ \cup {Update}] \in Poll
      BY <1>5 DEF Poll, Step
    <3> QED
      BY <1>5, <2>5, <3>1 DEF UpdateReply
  <2> QED
    BY <1>1, <2>1, <2>2, <2>3, <2>4, <2>5
<1>7. PICK p \in Poll : \E s, c : RunStep(None, shots, p, s, c)
  BY <1>6 DEF Continue
<1>8. Polled /\ (poll'.running => (call' # None /\ call'.kind \in Kind) \/ shots' > 0)
  BY <1>7, RunStepSafe DEF TypeOK
<1>9. PollAlive'
  BY <1>8 DEF PollAlive
<1> QED
  BY <1>3, <1>4, <1>8, <1>9, SteadyStep

\* The shot of a step that could not be issued.
LEMMA ShotFiresSafe ==
    ASSUME TypeOK, SafetyInv, ShotFires
    PROVE  SafetyInv'
<1>1. UNCHANGED <<lifecycle, unsent>> /\ shots - 1 \in Nat /\ poll \in Poll
  BY DEF ShotFires, env, TypeOK
<1>2. CASE lifecycle = "Running" /\ RunStep(call, shots - 1, poll, said, core)
  <2>1. Polled /\ (poll'.running => (call' # None /\ call'.kind \in Kind) \/ shots' > 0)
    BY <1>1, <1>2, RunStepSafe
  <2>2. PollAlive'
    BY <2>1 DEF PollAlive
  <2> QED
    BY <1>1, <1>2, <2>1, <2>2, SteadyStep
<1>3. CASE /\ lifecycle # "Running" /\ poll' = [poll EXCEPT !.running = FALSE]
          /\ UNCHANGED <<call, link>>
  <2>1. ~poll'.running
    BY <1>1, <1>3 DEF Poll
  <2>2. call = None
    BY <1>3 DEF SafetyInv, Quiet
  <2> QED
    BY <1>1, <1>3, <2>1, <2>2, SteadyStep DEF Polled, PollAlive
<1> QED
  BY <1>2, <1>3 DEF ShotFires

-----------------------------------------------------------------------------
(* Timer, configuration and lifecycle.                                       *)

\* beginPoll() leaves a poll that runs alone, counts a failure, or begins a poll
\* with a question in flight.
LEMMA BeginPollSafe ==
    ASSUME TypeOK, NEW l, NEW n, endpoint' \in Endpoint \cup {None}, BeginPoll(l, n),
           shots' = shots
    PROVE  /\ link' \in {l, NoteFailure(l)}
           /\ \/ UNCHANGED <<call, poll>>
              \/ call' # None /\ call'.kind \in Kind
<1>1. CASE UNCHANGED <<call, poll>> /\ link' \in {l, NoteFailure(l)}
  BY <1>1
<1>2. CASE endpoint' # None /\ call' = Ask("Info", None, endpoint') /\ link' = l
  <2>1. call' \in Call
    BY <1>2, FirstQuestionType
  <2>2. call'.kind \in Kind
    BY <1>2 DEF Ask, Kind
  <2> QED
    BY <1>2, <2>1, <2>2, NothingAssumption
<1> QED
  BY <1>1, <1>2 DEF BeginPoll

\* A tick of the poll timer.
LEMMA TimerTickSafe ==
    ASSUME TypeOK, SafetyInv, TimerTick
    PROVE  SafetyInv'
<1>1. UNCHANGED <<lifecycle, unsent, shots>> /\ endpoint' \in Endpoint \cup {None}
  BY DEF TimerTick, env, TypeOK
<1>2. /\ link' \in {link, NoteFailure(link)}
      /\ \/ UNCHANGED <<call, poll>>
         \/ call' # None /\ call'.kind \in Kind
  BY <1>1, BeginPollSafe DEF TimerTick
<1>3. PollAlive'
  BY <1>1, <1>2 DEF PollAlive, SafetyInv
<1>4. lifecycle = "Running"
  BY DEF TimerTick
<1> QED
  BY <1>1, <1>2, <1>3, <1>4, SteadyStep DEF Polled

\* A configuration: a paused instance runs again, with no poll left over from
\* before it was paused.
LEMMA OnConfigChangedSafe ==
    ASSUME TypeOK, SafetyInv, NEW e \in Configs, OnConfigChanged(e)
    PROVE  SafetyInv'
<1> DEFINE fresh == [link EXCEPT !.misses = 0, !.wait = 0]
<1> DEFINE armed == Arm(IF e # endpoint THEN SetConnected(fresh, FALSE) ELSE fresh)
<1>1. lifecycle' = "Running" /\ endpoint' \in Endpoint \cup {None} /\ shots' = shots
  BY ConfigAssumption DEF OnConfigChanged
<1>2. fresh \in Link /\ fresh.misses = 0 /\ fresh.wait = 0
  <2>1. 0 \in 0 .. MaxMisses /\ 0 \in Wait
    BY StrikesAssumption, DelaysAssumption DEF Wait, MaxMisses
  <2> QED
    BY <2>1 DEF Link, TypeOK
<1>3. SetConnected(fresh, FALSE) \in Link
  BY <1>2, LinkType
<1>4. armed \in Link /\ Honest(armed) /\ Scheduled(armed)
  <2>1. Honest(armed)
    BY <1>2, HonestFresh
  <2> QED
    BY <1>2, <1>3, <2>1, LinkType, ScheduledGate
<1>5. BeginPoll(armed, SlowPollEvery)
  BY DEF OnConfigChanged
<1> HIDE DEF armed
<1>6. /\ link' \in {armed, NoteFailure(armed)}
      /\ \/ UNCHANGED <<call, poll>>
         \/ call' # None /\ call'.kind \in Kind
  BY <1>1, <1>5, BeginPollSafe
<1>7. Honest(link') /\ Scheduled(link')
  BY <1>4, <1>6, HonestGate, ScheduledGate
<1>8. LinkInv' /\ PollScheduled'
  BY <1>1, <1>7 DEF LinkInv, PollScheduled, Honest, Scheduled
<1>9. lifecycle = "Paused" => ~poll.running
  BY DEF SafetyInv, Quiet
<1>10. PollAlive'
  BY <1>1, <1>6, <1>9 DEF PollAlive, SafetyInv, OnConfigChanged
<1>11. Quiet'
  BY <1>1 DEF Quiet
<1> QED
  BY <1>8, <1>10, <1>11 DEF SafetyInv

\* The coming and going of the process and of phi-core: what stops the instance
\* takes the call with it, and a new one starts with a new link.
LEMMA LifecycleSafe ==
    ASSUME TypeOK, SafetyInv, Start \/ Stop \/ Crash \/ OnDisconnected \/ CoreGone \/ CoreBack
    PROVE  SafetyInv'
<1>1. CASE Start
  <2>1. Honest(InitLink)
    BY WaitAtRest, StrikesAssumption DEF Honest, InitLink
  <2>2. lifecycle = "Idle" /\ ~poll.running /\ link = InitLink
    BY <1>1 DEF Start, SafetyInv, Quiet, LinkInv
  <2> QED
    BY <1>1, <2>1, <2>2 DEF Start, SafetyInv, Quiet, LinkInv, PollAlive, PollScheduled, Honest
<1>2. CASE Stop
  BY <1>2 DEF Stop, SafetyInv, Quiet, LinkInv, PollAlive, PollScheduled
<1>3. CASE Crash
  <2>1. ~poll'.running
    BY <1>3 DEF Crash, Idle
  <2> QED
    BY <1>3, <2>1 DEF Crash, SafetyInv, Quiet, LinkInv, PollAlive, PollScheduled
<1>4. CASE OnDisconnected
  <2>1. ~poll'.running
    BY <1>4 DEF OnDisconnected, TypeOK, Poll
  <2> QED
    BY <1>4, <2>1 DEF OnDisconnected, SafetyInv, Quiet, LinkInv, PollAlive, PollScheduled
<1>5. CASE CoreGone
  BY <1>5 DEF CoreGone, SafetyInv, Quiet, LinkInv, PollAlive, PollScheduled, Honest
<1>6. CASE CoreBack
  BY <1>6 DEF CoreBack, SafetyInv, Quiet, LinkInv, PollAlive, PollScheduled, Honest
<1> QED
  BY <1>1, <1>2, <1>3, <1>4, <1>5, <1>6

-----------------------------------------------------------------------------
(* The user, the listing and the world.                                      *)

\* What leaves the call and the poll alone, and what takes the session from the
\* poll and says so, keeps the invariant.
LEMMA AsideStep ==
    ASSUME TypeOK, SafetyInv, UNCHANGED <<lifecycle, link, unsent, shots>>,
           lifecycle # "Running" => UNCHANGED <<call, poll>>,
           \/ ~poll'.running
           \/ UNCHANGED <<call, poll>>
           \/ poll' = poll /\ call.kind \notin Kind
    PROVE  SafetyInv'
<1>1. PollAlive'
  BY DEF PollAlive, SafetyInv
<1>2. lifecycle # "Running" => call' = None
  BY DEF SafetyInv, Quiet
<1> QED
  BY <1>1, <1>2, SteadyStep DEF Polled

\* A write and a listing stop the poll they cancel.
LEMMA SessionTakenSafe ==
    ASSUME TypeOK, SafetyInv, NEW k, NEW b, NEW on, OnChannelInvoke(k, b, on) \/ OnPairingStart
    PROVE  SafetyInv'
<1>1. UNCHANGED <<lifecycle, link, unsent, shots>>
  BY DEF OnChannelInvoke, OnPairingStart, env
<1>2. \/ UNCHANGED <<call, poll>>
      \/ lifecycle = "Running" /\ poll' = [poll EXCEPT !.running = FALSE]
  BY DEF OnChannelInvoke, OnPairingStart, Serving
<1>3. [poll EXCEPT !.running = FALSE].running = FALSE
  BY DEF TypeOK, Poll
<1> QED
  BY <1>1, <1>2, <1>3, AsideStep

\* The answer of a write or a listing is no question of a poll: a poll that is
\* marked running has a shot that will continue it.
LEMMA OtherReplySafe ==
    ASSUME TypeOK, SafetyInv,
           (\E out \in {"ok", "invalid", "none"} : SetEnableReply(out)) \/ TableReply
    PROVE  SafetyInv'
<1>1. PICK kind, out : Reply(kind, out) /\ kind \notin Kind /\ UNCHANGED <<poll, shots, link>>
  BY DEF SetEnableReply, TableReply, ListPathReply, DocReply, CountReply, EntryReply,
         TableUnchanged, Kind
<1>2. call # None /\ call.kind \notin Kind /\ UNCHANGED <<lifecycle, unsent>>
  BY <1>1 DEF Reply, env
<1>3. lifecycle = "Running"
  BY <1>2 DEF SafetyInv, Quiet
<1> QED
  BY <1>1, <1>2, <1>3, AsideStep

\* Picks, boxes and switches do not touch the poll.
LEMMA ElsewhereSafe ==
    ASSUME TypeOK, SafetyInv,
           \/ \E m \in Mac : OnPairCandidate(m) \/ OnDeviceRemoved(m)
           \/ BoxSwitches \/ BoxGoesDown \/ BoxComesUp \/ SwitchThrown
    PROVE  SafetyInv'
<1>1. UNCHANGED <<lifecycle, link, unsent, shots, call, poll>>
  BY DEF OnPairCandidate, OnDeviceRemoved, BoxSwitches, BoxGoesDown, BoxComesUp,
         SwitchThrown, world, env
<1> QED
  BY <1>1, AsideStep

-----------------------------------------------------------------------------
(* The theorems.                                                             *)

\* A new process is safe.
LEMMA InitSafe == Init => SafetyInv
BY DEF Init, SafetyInv, Quiet, LinkInv, PollAlive, PollScheduled, Idle

\* Every step keeps it so.
LEMMA NextSafe == TypeOK /\ SafetyInv /\ [Next]_vars => SafetyInv'
<1> SUFFICES ASSUME TypeOK, SafetyInv, [Next]_vars PROVE SafetyInv'
  OBVIOUS
<1>1. CASE Start \/ Stop \/ Crash \/ OnDisconnected \/ CoreGone \/ CoreBack
  BY <1>1, LifecycleSafe
<1>2. CASE \E e \in Configs : OnConfigChanged(e)
  BY <1>2, OnConfigChangedSafe
<1>3. CASE TimerTick \/ ShotFires \/ PollReply
  BY <1>3, TimerTickSafe, ShotFiresSafe, PollReplySafe
<1>4. CASE \E k \in Cmd, b \in Band, on \in BOOLEAN : OnChannelInvoke(k, b, on)
  BY <1>4, SessionTakenSafe
<1>5. CASE OnPairingStart
  BY <1>5, SessionTakenSafe
<1>6. CASE (\E out \in {"ok", "invalid", "none"} : SetEnableReply(out)) \/ TableReply
  BY <1>6, OtherReplySafe
<1>7. CASE \/ \E m \in Mac : OnPairCandidate(m) \/ OnDeviceRemoved(m)
          \/ BoxSwitches \/ BoxGoesDown \/ BoxComesUp \/ SwitchThrown
  BY <1>7, ElsewhereSafe
<1>8. CASE UNCHANGED vars
  BY <1>8, AsideStep DEF vars, env
<1> QED
  BY <1>1, <1>2, <1>3, <1>4, <1>5, <1>6, <1>7, <1>8 DEF Next

\* The invariant of all reachable states.
THEOREM SafetyInvariant == Spec => []SafetyInv
<1>1. Init => SafetyInv
  BY InitSafe
<1>2. TypeOK /\ SafetyInv /\ [Next]_vars => SafetyInv'
  BY NextSafe
<1> QED
  BY <1>1, <1>2, TypeCorrect, PTL DEF Spec

\* A running poll always has a question of its own in flight or a shot that
\* continues it (runStep, stepIssued, and every handler that cancels a poll).
THEOREM PollAliveTheorem == Spec => []PollAlive
<1>1. SafetyInv => PollAlive
  BY DEF SafetyInv
<1> QED
  BY <1>1, SafetyInvariant, PTL

\* A configured, running instance has its poll timer armed with the delay the
\* gate asked for last (armPollTimer).
THEOREM PollScheduledTheorem == Spec => []PollScheduled
<1>1. SafetyInv => PollScheduled
  BY DEF SafetyInv
<1> QED
  BY <1>1, SafetyInvariant, PTL

\* Connectivity is reported only below the last strike, and the wait is the one
\* that goes with the misses (noteFailure, setConnected), for any number of
\* strikes and delays.
THEOREM ConnectedTheorem == Spec => []ConnectedMeansAnswering
<1>1. SafetyInv => ConnectedMeansAnswering
  BY DEF SafetyInv, LinkInv, Honest, ConnectedMeansAnswering
<1> QED
  BY <1>1, SafetyInvariant, PTL

-----------------------------------------------------------------------------
(* The picks.                                                                *)

\* A snapshot moves nobody in or out of the picks.
Kept == tracker'.tracked = tracker.tracked /\ core'.meta = core.meta

\* What phi-core shows is not what it keeps: neither a value, a flush nor a
\* descriptor touches the adapter meta.
LEMMA MetaKept ==
    ASSUME NEW c \in Core, NEW s
    PROVE  /\ Flush(s, c).meta = c.meta
           /\ DescriptorThenValues(s, c).meta = c.meta
           /\ \A ch, v : Show(c, ch, v).meta = c.meta
<1>1. \A d : DOMAIN d = {"device", "value", "meta"} => Flush(s, d).meta = d.meta
  BY DEF Flush
<1>2. DOMAIN c = {"device", "value", "meta"}
  BY DEF Core
<1>3. /\ DOMAIN CoreAnnounced(s, c) = {"device", "value", "meta"}
      /\ CoreAnnounced(s, c).meta = c.meta
  BY <1>2 DEF CoreAnnounced
<1>4. DescriptorThenValues(s, c).meta = c.meta
  BY <1>1, <1>3 DEF DescriptorThenValues
<1>5. \A ch, v : Show(c, ch, v).meta = c.meta
  BY <1>2 DEF Show
<1> QED
  BY <1>1, <1>2, <1>4, <1>5

\* A sighting keeps the picks.
LEMMA SightedKept ==
    ASSUME NEW t \in Tracker, NEW macs
    PROVE  Sighted(t, macs).tracked = t.tracked
BY DEF Sighted, Tracker

\* A step of a poll keeps picks and meta.
LEMMA RunStepKept ==
    ASSUME TypeOK, NEW busy, NEW left, NEW p, NEW s, NEW c \in Core, c.meta = core.meta,
           RunStep(busy, left, p, s, c)
    PROVE  Kept
<1>1. tracker \in Tracker
  BY DEF TypeOK
<1>2. CASE FinishPoll(p, s, c)
  <2>1. core'.meta = core.meta
    BY <1>2, MetaKept DEF FinishPoll
  <2>2. tracker'.tracked = tracker.tracked
    BY <1>1, <1>2, SightedKept DEF FinishPoll
  <2> QED
    BY <2>1, <2>2 DEF Kept
<1>3. CASE core' = c /\ tracker' = tracker
  BY <1>3 DEF Kept
<1> QED
  BY <1>2, <1>3 DEF RunStep

\* So does the reply of a step.
LEMMA ContinueKept ==
    ASSUME TypeOK, NEW p, NEW ch \in Channel, NEW v \in Reading \cup {None}, Continue(p, ch, v)
    PROVE  Kept
<1>1. core \in Core /\ said \in Said
  BY DEF TypeOK
<1>2. CASE v = None
  BY <1>1, <1>2, RunStepKept DEF Continue
<1>3. CASE v # None
  <2> DEFINE c == IF SentAtOnce(said, ch, v, poll.running) THEN Show(core, ch, v) ELSE core
  <2>1. c \in Core
    BY <1>1, <1>3, CoreType
  <2>2. c.meta = core.meta
    BY <1>1, MetaKept
  <2>3. RunStep(None, shots, p, Record(said, ch, v, poll.running), c)
    BY <1>3 DEF Continue
  <2> HIDE DEF c
  <2> QED
    BY <2>1, <2>2, <2>3, RunStepKept
<1> QED
  BY <1>2, <1>3

\* So do the answers of a poll.
LEMMA PollReplyKept ==
    ASSUME TypeOK, PollReply
    PROVE  Kept /\ UNCHANGED <<lifecycle, unsent>>
<1>1. PICK out \in {"ok", "invalid", "fault", "none"} :
        InfoReply(out) \/ HostReply(out) \/ BytesReply(out) \/ WlanReply(out) \/ UpdateReply(out)
  BY DEF PollReply
<1>2. PICK kind : Reply(kind, out) /\ kind \in Kind
  BY <1>1 DEF InfoReply, HostReply, BytesReply, WlanReply, UpdateReply, Kind
<1>3. call \in Call /\ UNCHANGED <<lifecycle, endpoint, sinceSlow, ipc, conf, unsent, up, switch>>
  BY <1>2, ReplyType
<1>4. call.to \in Endpoint
  BY <1>3 DEF Call
<1>5. "uptime" \in Channel /\ "update" \in Channel /\ Rate \subseteq Channel /\ Band \subseteq Channel
  BY DEF Channel
<1>6. \E p : \E ch \in Channel, v \in Reading \cup {None} : Continue(p, ch, v)
  <2>1. CASE InfoReply(out)
    <3>1. PICK u : /\ u = [box |-> call.to, on |-> IF said.value["uptime"] = None THEN FALSE
                                                   ELSE ~said.value["uptime"].on]
                   /\ Continue(Answered(out), "uptime", IF out = "ok" THEN u ELSE None)
      BY <2>1 DEF InfoReply
    <3>2. u \in Reading
      BY <1>4, <3>1 DEF Reading
    <3>3. (IF out = "ok" THEN u ELSE None) \in Reading \cup {None}
      BY <3>2
    <3> QED
      BY <1>5, <3>1, <3>3
  <2>2. CASE HostReply(out)
    BY <1>5, <2>2 DEF HostReply
  <2>3. CASE BytesReply(out)
    <3>1. call.arg \in Rate
      BY <1>3, <2>3 DEF BytesReply, Reply, Call
    <3>2. PICK v \in Reading \cup {None} : Continue(Answered(out), call.arg, v)
      BY <1>4, <2>3, <3>1 DEF BytesReply, Reading
    <3> QED
      BY <1>5, <3>1, <3>2
  <2>4. CASE WlanReply(out)
    <3>1. call.arg \in Band
      BY <1>3, <2>4 DEF WlanReply, Reply, Call
    <3>2. switch[call.to][call.arg] \in BOOLEAN
      BY <1>4, <3>1 DEF TypeOK
    <3>3. [box |-> call.to, on |-> switch[call.to][call.arg]] \in Reading
      BY <1>4, <3>2 DEF Reading
    <3> QED
      BY <1>5, <2>4, <3>1, <3>3 DEF WlanReply
  <2>5. CASE UpdateReply(out)
    <3>1. [box |-> call.to, on |-> TRUE] \in Reading
      BY <1>4 DEF Reading
    <3> QED
      BY <1>5, <2>5, <3>1 DEF UpdateReply
  <2> QED
    BY <1>1, <2>1, <2>2, <2>3, <2>4, <2>5
<1> QED
  BY <1>3, <1>6, ContinueKept

\* The picks agree with the meta after every step: only a pick and a
\* configuration move a client, and both move the other side with it.
LEMMA NextPicks == TypeOK /\ PicksSaved /\ [Next]_vars => PicksSaved'
<1> SUFFICES ASSUME TypeOK, PicksSaved, [Next]_vars PROVE PicksSaved'
  OBVIOUS
<1>0. tracker \in Tracker /\ core \in Core /\ said \in Said
  BY DEF TypeOK
<1>a. ASSUME Kept, UNCHANGED <<lifecycle, unsent>> PROVE PicksSaved'
  BY <1>a DEF Kept, PicksSaved
<1>1. CASE Start \/ Stop \/ Crash \/ OnDisconnected \/ CoreGone \/ CoreBack
  <2>1. CASE CoreGone
    BY <1>0, <2>1 DEF CoreGone, PicksSaved, Core
  <2> QED
    BY <1>1, <2>1 DEF Start, Stop, Crash, OnDisconnected, CoreBack, PicksSaved
<1>2. CASE \E e \in Configs : OnConfigChanged(e)
  <2>1. tracker' = SetTracked(tracker, core.meta) /\ core' = core
    BY <1>2 DEF OnConfigChanged
  <2> QED
    BY <1>0, <2>1 DEF SetTracked, Tracker, PicksSaved
<1>3. CASE TimerTick
  BY <1>3, <1>a DEF TimerTick, Kept, env
<1>4. CASE ShotFires
  <2>1. Kept
    BY <1>0, <1>4, RunStepKept DEF ShotFires, Kept
  <2> QED
    BY <1>4, <1>a, <2>1 DEF ShotFires, env
<1>5. CASE PollReply
  BY <1>5, <1>a, PollReplyKept
<1>6. CASE \E k \in Cmd, b \in Band, on \in BOOLEAN : OnChannelInvoke(k, b, on)
  BY <1>6, <1>a DEF OnChannelInvoke, Kept, env
<1>7. CASE \E out \in {"ok", "invalid", "none"} : SetEnableReply(out)
  <2>1. core'.meta = core.meta
    BY <1>0, <1>7, MetaKept DEF SetEnableReply
  <2> QED
    BY <1>7, <1>a, <2>1 DEF SetEnableReply, Reply, Kept, env
<1>8. CASE OnPairingStart \/ BoxSwitches \/ BoxGoesDown \/ BoxComesUp \/ SwitchThrown
  BY <1>8, <1>a DEF OnPairingStart, BoxSwitches, BoxGoesDown, BoxComesUp, SwitchThrown, Kept,
                    world, env
<1>9. CASE TableReply
  <2>1. tracker' = tracker \/ \E hosts : tracker' = Sighted(tracker, hosts)
    BY <1>9 DEF TableReply, ListPathReply, DocReply, CountReply, EntryReply, Complete
  <2>2. tracker'.tracked = tracker.tracked
    BY <1>0, <2>1, SightedKept
  <2>3. UNCHANGED <<core, lifecycle, unsent>>
    BY <1>9 DEF TableReply, ListPathReply, DocReply, CountReply, EntryReply, TableUnchanged,
                Reply, env
  <2> QED
    BY <1>a, <2>2, <2>3 DEF Kept
<1>10. CASE \E m \in Mac : OnPairCandidate(m) \/ OnDeviceRemoved(m)
  <2>1. PICK macs : SaveTracked(SetTracked(tracker, macs))
    BY <1>10 DEF OnPairCandidate, OnDeviceRemoved
  <2> QED
    BY <1>0, <2>1 DEF SaveTracked, Core, PicksSaved
<1>11. CASE UNCHANGED vars
  BY <1>11 DEF vars, env, PicksSaved
<1> QED
  BY <1>1, <1>2, <1>3, <1>4, <1>5, <1>6, <1>7, <1>8, <1>9, <1>10, <1>11 DEF Next

\* The picks of a configured instance are those phi-core keeps for the next
\* configuration (saveTracked), whoever restarted in between.
THEOREM PicksTheorem == Spec => []PicksSaved
<1>1. Init => PicksSaved
  BY DEF Init, PicksSaved
<1>2. TypeOK /\ PicksSaved /\ [Next]_vars => PicksSaved'
  BY NextPicks
<1> QED
  BY <1>1, <1>2, TypeCorrect, PTL DEF Spec

-----------------------------------------------------------------------------
(* A poll comes to its end.                                                  *)

\* The call in flight while a poll runs is a question of a poll; once it is the
\* last one, for the update state, no step is left.
OwnCall ==
    call # None /\ poll.running =>
        call.kind \in Kind /\ (call.kind = "Update" => poll.todo = {})

\* What PollShrinks says of a step of a running instance.
Shrinks ==
    poll.running /\ poll'.running =>
        \/ UNCHANGED <<call, poll>>
        \/ /\ poll'.todo \subseteq poll.todo
           /\ poll'.todo # poll.todo \/ (NewerPlace /\ ~NewerPlace')

\* The update state is asked for last.
LEMMA UpdateLast ==
    ASSUME NEW s \in Step, Rank(Update) <= Rank(s)
    PROVE  s = Update
<1>1. Rank(Update) = 6
  <2>1. Update.kind = "Update" /\ Update.arg = None
    BY DEF Update
  <2>2. None \notin {"tx", "rx", "Wlan24", "Wlan5"}
    BY NoneAssumption DEF Channel, Rate
  <2> QED
    BY <2>1, <2>2 DEF Rank
<1>2. ASSUME s \in [kind : {"Host"}, arg : Mac] PROVE Rank(s) \in {1, 2, 3, 4, 5}
  <2>1. s.kind = "Host"
    BY <1>2
  <2> QED
    BY <2>1 DEF Rank
<1>3. ASSUME s \in [kind : {"Bytes"}, arg : Rate] PROVE Rank(s) \in {2, 3}
  BY <1>3 DEF Rank, Rate
<1>4. ASSUME s \in [kind : {"Wlan"}, arg : Band] PROVE Rank(s) \in {4, 5}
  BY <1>4, BandAssumption DEF Rank
<1> QED
  BY <1>1, <1>2, <1>3, <1>4 DEF Step

\* runStep() that does not end the poll takes one of its steps.
LEMMA RunStepShrinks ==
    ASSUME TypeOK, NEW busy, NEW left, NEW p \in Poll, NEW s, NEW c,
           RunStep(busy, left, p, s, c), poll'.running
    PROVE  /\ p.running /\ poll'.todo \subseteq p.todo /\ poll'.todo # p.todo
           /\ \/ call' = busy
              \/ /\ call'.kind \in Kind
                 /\ call'.kind = "Update" =>
                       poll'.todo = {} /\ call' = Question(Update, cap', endpoint)
<1> DEFINE due == Due(p.todo, cap')
<1>1. due \subseteq p.todo /\ p.todo \subseteq Step
  BY DEF Due, Poll
<1>2. ~FinishPoll(p, s, c)
  BY DEF FinishPoll, Poll
<1>3. PICK step \in due :
        /\ \A other \in due : Rank(step) <= Rank(other)
        /\ poll' = [p EXCEPT !.todo = due \ {step}]
        /\ \/ endpoint # None /\ call' = Question(step, cap', endpoint)
           \/ call' = busy
  BY <1>2 DEF RunStep, Advanced
<1> HIDE DEF due
<1>4. p.running = poll'.running /\ poll'.todo = due \ {step}
  BY <1>3 DEF Poll
<1>5. ASSUME endpoint # None, call' = Question(step, cap', endpoint)
      PROVE  /\ call'.kind \in Kind
             /\ call'.kind = "Update" => poll'.todo = {} /\ step = Update
  <2>1. step \in Step /\ endpoint \in Endpoint
    BY <1>1, <1>3, <1>5 DEF TypeOK
  <2>2. call'.kind \in Kind
    BY <1>5, <2>1, QuestionKind
  <2>3. call'.kind = "Update" => step = Update
    BY <1>5, <2>1 DEF Question, Ask, Step, Update
  <2>4. step = Update => due \ {step} = {}
    BY <1>1, <1>3, UpdateLast
  <2> QED
    BY <1>4, <2>2, <2>3, <2>4
<1> QED
  BY <1>1, <1>3, <1>4, <1>5

\* The steps an answer leaves to runStep(): those there were, and the update
\* state once more if the newer place is not implemented.
LEMMA PollReplyTodo ==
    ASSUME TypeOK, PollReply
    PROVE  /\ call # None
           /\ \E p \in Poll : \E s, c :
                 /\ p.running = poll.running /\ RunStep(None, shots, p, s, c)
                 /\ \/ p.todo = poll.todo
                    \/ /\ call.kind = "Update" /\ call.arg = "UserInterfaceInfo"
                       /\ cap' = MarkAbsent(cap, "UserInterfaceInfo")
                       /\ p.todo = poll.todo \cup {Update}
<1>1. PICK out \in {"ok", "invalid", "fault", "none"} :
        InfoReply(out) \/ HostReply(out) \/ BytesReply(out) \/ WlanReply(out) \/ UpdateReply(out)
  BY DEF PollReply
<1>2. PICK kind : Reply(kind, out)
  BY <1>1 DEF InfoReply, HostReply, BytesReply, WlanReply, UpdateReply
<1>3. call # None /\ call \in Call
  BY <1>2, ReplyType DEF Reply
<1> DEFINE q == Answered(out)
<1>4. q \in Poll /\ q.running = poll.running /\ q.todo = poll.todo
  BY AnsweredType DEF Answered, TypeOK, Poll
<1> HIDE DEF q
<1>5. \E p \in Poll : \E ch, v :
        /\ p.running = poll.running /\ Continue(p, ch, v)
        /\ \/ p.todo = poll.todo
           \/ /\ call.kind = "Update" /\ call.arg = "UserInterfaceInfo"
              /\ cap' = MarkAbsent(cap, "UserInterfaceInfo")
              /\ p.todo = poll.todo \cup {Update}
  <2>1. CASE InfoReply(out)
    BY <1>4, <2>1 DEF InfoReply, q
  <2>2. CASE HostReply(out)
    <3>1. call.arg \in Mac
      BY <1>3, <2>2 DEF HostReply, Reply, Call
    <3>2. /\ Heard(q, call.arg, out) \in Poll /\ Heard(q, call.arg, out).running = poll.running
          /\ Heard(q, call.arg, out).todo = poll.todo
      BY <1>4, <3>1 DEF Heard, Poll
    <3> QED
      BY <2>2, <3>2 DEF HostReply, q
  <2>3. CASE BytesReply(out)
    BY <1>4, <2>3 DEF BytesReply, q
  <2>4. CASE WlanReply(out)
    BY <1>4, <2>4 DEF WlanReply, q
  <2>5. CASE UpdateReply(out)
    <3> DEFINE w == [q EXCEPT !.todo = @ \cup {Update}]
    <3>1. w \in Poll /\ w.running = poll.running /\ w.todo = poll.todo \cup {Update}
      BY <1>4 DEF Poll, Step
    <3>2. PICK v : Continue(IF Legacy(call, out) THEN w ELSE q, "update", v)
      BY <2>5 DEF UpdateReply, q
    <3> HIDE DEF w
    <3>3. CASE Legacy(call, out)
      <4>1. call.kind = "Update" /\ cap' = MarkAbsent(cap, "UserInterfaceInfo")
            /\ call.arg = "UserInterfaceInfo"
        BY <2>5, <3>3 DEF UpdateReply, Reply, Learn, Legacy
      <4> QED
        BY <3>1, <3>2, <3>3, <4>1
    <3>4. CASE ~Legacy(call, out)
      BY <1>4, <3>2, <3>4
    <3> QED
      BY <3>3, <3>4
  <2> QED
    BY <1>1, <2>1, <2>2, <2>3, <2>4, <2>5
<1> QED
  BY <1>3, <1>5 DEF Continue

LEMMA PollReplyShrinks ==
    ASSUME TypeOK, OwnCall, PollReply
    PROVE  OwnCall' /\ Shrinks
<1> SUFFICES ASSUME poll'.running
             PROVE  OwnCall' /\ Shrinks
  BY DEF OwnCall, Shrinks
<1>1. call # None
  BY PollReplyTodo
<1>2. PICK p \in Poll : \E s, c :
        /\ p.running = poll.running /\ RunStep(None, shots, p, s, c)
        /\ \/ p.todo = poll.todo
           \/ /\ call.kind = "Update" /\ call.arg = "UserInterfaceInfo"
              /\ cap' = MarkAbsent(cap, "UserInterfaceInfo")
              /\ p.todo = poll.todo \cup {Update}
  BY PollReplyTodo
<1>3. /\ p.running /\ poll'.todo \subseteq p.todo /\ poll'.todo # p.todo
      /\ \/ call' = None
         \/ /\ call'.kind \in Kind
            /\ call'.kind = "Update" => poll'.todo = {} /\ call' = Question(Update, cap', endpoint)
  BY <1>2, RunStepShrinks
<1>4. OwnCall'
  BY <1>3 DEF OwnCall
<1>5. CASE p.todo = poll.todo
  BY <1>3, <1>4, <1>5 DEF Shrinks
<1>6. CASE /\ call.kind = "Update" /\ call.arg = "UserInterfaceInfo"
           /\ cap' = MarkAbsent(cap, "UserInterfaceInfo")
           /\ p.todo = poll.todo \cup {Update}
  <2>1. poll.todo = {}
    BY <1>1, <1>2, <1>3, <1>6 DEF OwnCall
  <2>2. poll'.todo = {}
    BY <1>3, <1>6, <2>1
  <2>3. NewerPlace
    BY <1>1, <1>6 DEF NewerPlace
  <2>4. ~NewerPlace'
    <3>1. ~WorthTrying(cap', "UserInterfaceInfo")
      BY <1>6 DEF MarkAbsent, WorthTrying, TypeOK, Feature, UpdateInfo
    <3>2. Question(Update, cap', endpoint).arg = "AutoUpdateInfo"
      BY <3>1 DEF Question, Ask
    <3> QED
      BY <1>3, <3>2 DEF NewerPlace
  <2> QED
    BY <1>4, <2>1, <2>2, <2>3, <2>4 DEF Shrinks
<1> QED
  BY <1>2, <1>5, <1>6

\* A shot takes a step as well, of whichever poll runs, and the last shot of a
\* poll whose last question is in flight ends it.
LEMMA ShotFiresShrinks ==
    ASSUME TypeOK, OwnCall, ShotFires
    PROVE  OwnCall' /\ Shrinks
<1> SUFFICES ASSUME poll'.running
             PROVE  OwnCall' /\ Shrinks
  BY DEF OwnCall, Shrinks
<1>1. poll \in Poll
  BY DEF TypeOK
<1>2. RunStep(call, shots - 1, poll, said, core)
  BY <1>1 DEF ShotFires, Poll
<1>3. /\ poll.running /\ poll'.todo \subseteq poll.todo /\ poll'.todo # poll.todo
      /\ \/ call' = call
         \/ call'.kind \in Kind /\ (call'.kind = "Update" => poll'.todo = {})
  BY <1>1, <1>2, RunStepShrinks
<1>4. OwnCall'
  BY <1>3 DEF OwnCall
<1> QED
  BY <1>3, <1>4 DEF Shrinks

\* beginPoll() leaves a poll that runs as it is.
LEMMA BeginPollShrinks ==
    ASSUME OwnCall, NEW l, NEW n, BeginPoll(l, n)
    PROVE  OwnCall' /\ Shrinks
<1>1. CASE UNCHANGED <<call, poll>>
  BY <1>1 DEF OwnCall, Shrinks
<1>2. CASE ~poll.running /\ call' = Ask("Info", None, endpoint')
  BY <1>2 DEF OwnCall, Shrinks, Ask, Kind
<1> QED
  BY <1>1, <1>2 DEF BeginPoll

\* Every step keeps the call of a poll its own, and takes a poll further.
LEMMA NextShrinks ==
    ASSUME TypeOK, OwnCall, [Next]_vars
    PROVE  OwnCall' /\ (lifecycle' = "Running" => Shrinks)
<1>a. ASSUME ~poll'.running PROVE OwnCall' /\ Shrinks
  BY <1>a DEF OwnCall, Shrinks
<1>b. ASSUME UNCHANGED <<call, poll>> PROVE OwnCall' /\ Shrinks
  BY <1>b DEF OwnCall, Shrinks
<1>c. ASSUME ~poll.running, UNCHANGED poll PROVE OwnCall' /\ Shrinks
  BY <1>a, <1>c
<1>d. [poll EXCEPT !.running = FALSE].running = FALSE
  BY DEF TypeOK, Poll
<1>1. CASE PollReply
  BY <1>1, PollReplyShrinks
<1>2. CASE ShotFires
  BY <1>2, ShotFiresShrinks
<1>3. CASE TimerTick \/ \E e \in Configs : OnConfigChanged(e)
  BY <1>3, BeginPollShrinks DEF TimerTick, OnConfigChanged
<1>4. CASE (\E out \in {"ok", "invalid", "none"} : SetEnableReply(out)) \/ TableReply
  <2>1. call # None /\ call.kind \notin Kind /\ UNCHANGED poll
    BY <1>4 DEF SetEnableReply, TableReply, ListPathReply, DocReply, CountReply, EntryReply,
                TableUnchanged, Reply, Kind
  <2> QED
    BY <1>c, <2>1 DEF OwnCall
<1>5. CASE OnPairingStart \/ OnDisconnected
  BY <1>5, <1>a, <1>d DEF OnPairingStart, OnDisconnected
<1>6. CASE \E k \in Cmd, b \in Band, on \in BOOLEAN : OnChannelInvoke(k, b, on)
  BY <1>6, <1>a, <1>b, <1>d DEF OnChannelInvoke
<1>7. CASE Stop \/ Crash
  <2>1. lifecycle' # "Running" /\ call' = None
    BY <1>7 DEF Stop, Crash
  <2> QED
    BY <2>1 DEF OwnCall
<1>8. CASE \/ Start \/ CoreGone \/ CoreBack
           \/ BoxSwitches \/ BoxGoesDown \/ BoxComesUp \/ SwitchThrown
           \/ \E m \in Mac : OnPairCandidate(m) \/ OnDeviceRemoved(m)
           \/ UNCHANGED vars
  BY <1>8, <1>b DEF Start, CoreGone, CoreBack, BoxSwitches, BoxGoesDown, BoxComesUp,
                    SwitchThrown, world, OnPairCandidate, OnDeviceRemoved, vars
<1> QED
  BY <1>1, <1>2, <1>3, <1>4, <1>5, <1>6, <1>7, <1>8 DEF Next

\* A poll that goes on has fewer steps left, or has asked the newer place for the
\* update state and turns to the older one: whatever cancels, moves or gives up
\* its questions, a poll runs out of steps (runStep).
THEOREM PollShrinksTheorem == Spec => PollShrinks
<1>1. Init => OwnCall
  BY DEF Init, OwnCall
<1>2. TypeOK /\ OwnCall /\ [Next]_vars => OwnCall'
  BY NextShrinks
<1>3. TypeOK /\ OwnCall /\ [Next]_vars =>
        [ lifecycle' = "Running" /\ poll.running /\ poll'.running =>
            \/ UNCHANGED <<call, poll>>
            \/ /\ poll'.todo \subseteq poll.todo
               /\ poll'.todo # poll.todo \/ (NewerPlace /\ ~NewerPlace') ]_vars
  BY NextShrinks DEF Shrinks
<1> QED
  BY <1>1, <1>2, <1>3, TypeCorrect, PTL DEF Spec, PollShrinks
=============================================================================
