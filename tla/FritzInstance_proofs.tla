------------------------ MODULE FritzInstance_proofs ------------------------
(* Theorems about FritzInstance, for every value of its constants.           *)
EXTENDS FritzInstance, TLAPS

-----------------------------------------------------------------------------
(* The operators keep the types of what they are given.                      *)

\* One miss more keeps the gate's counter and wait within their ranges.
LEMMA MissedType ==
    ASSUME NEW l \in Link
    PROVE  Missed(l) \in Link
<1>1. WaitAfter(IF l.misses < MaxMisses THEN l.misses + 1 ELSE MaxMisses) \in Wait
  BY StrikesAssumption, DelaysAssumption DEF WaitAfter, Wait, Link, MaxMisses
<1>2. (IF l.misses < MaxMisses THEN l.misses + 1 ELSE MaxMisses) \in 0 .. MaxMisses
  BY StrikesAssumption, DelaysAssumption DEF Link, MaxMisses
<1> QED
  BY <1>1, <1>2 DEF Missed, Link

\* Whatever happens to the link, it stays one.
LEMMA LinkType ==
    ASSUME NEW l \in Link
    PROVE  /\ Arm(l) \in Link
           /\ \A b \in BOOLEAN : SetConnected(l, b) \in Link
           /\ NoteAnswer(l) \in Link
           /\ NoteFailure(l) \in Link
           /\ Paused(l) \in Link
<1>1. \A m \in Link : Arm(m) \in Link
  BY DEF Arm, Link
<1>2. \A m \in Link, b \in BOOLEAN : SetConnected(m, b) \in Link
  BY <1>1 DEF SetConnected, Link
<1>0. 0 \in 0 .. MaxMisses /\ 0 \in Wait
  BY StrikesAssumption, DelaysAssumption DEF Wait, MaxMisses
<1>3. [l EXCEPT !.misses = 0, !.wait = 0] \in Link
  BY <1>0 DEF Link
<1>4. NoteAnswer(l) \in Link
  BY <1>1, <1>2, <1>3 DEF NoteAnswer
<1>5. NoteFailure(l) \in Link
  BY <1>1, <1>2, MissedType DEF NoteFailure
<1>6. Paused(l) \in Link
  BY <1>0 DEF Paused, Link
<1> QED
  BY <1>1, <1>2, <1>4, <1>5, <1>6

\* A capability table stays one.
LEMMA CapType ==
    ASSUME NEW c \in [Feature -> Availability], NEW f \in Feature
    PROVE  /\ Forget(c) \in [Feature -> Availability]
           /\ MarkPresent(c, f) \in [Feature -> Availability]
           /\ MarkAbsent(c, f) \in [Feature -> Availability]
           /\ PresentMask(c) \in SUBSET Feature
           /\ \A mask : RestorePresent(c, mask) \in [Feature -> Availability]
BY DEF Forget, MarkPresent, MarkAbsent, PresentMask, RestorePresent, Availability

\* What has been said stays a record of readings.
LEMMA SaidType ==
    ASSUME NEW s \in Said
    PROVE  /\ \A ch \in Channel, v \in Reading, b \in BOOLEAN : Record(s, ch, v, b) \in Said
           /\ ForgetValues(s) \in Said
           /\ ForgetReported(s) \in Said
           /\ DropPending(s) \in Said
<1>1. s.value \in Readings /\ s.pending \in Readings
  BY DEF Said
<1>2. \A ch \in Channel, v \in Reading, b \in BOOLEAN : Record(s, ch, v, b) \in Said
  BY <1>1 DEF Record, IsNews, Said, Readings
<1>3. ForgetValues(s) \in Said /\ ForgetReported(s) \in Said /\ DropPending(s) \in Said
  BY <1>1 DEF ForgetValues, ForgetReported, DropPending, Said, Readings
<1> QED
  BY <1>2, <1>3

\* phi-core shows readings of channels only.
LEMMA CoreType ==
    ASSUME NEW c \in Core, NEW s \in Said
    PROVE  /\ \A ch \in Channel, v \in Reading : Show(c, ch, v) \in Core
           /\ Flush(s, c) \in Core
<1>1. c.value \in Readings /\ s.pending \in Readings
  BY DEF Core, Said
<1>2. \A ch \in Channel, v \in Reading : Show(c, ch, v) \in Core
  BY <1>1 DEF Show, Core, Readings
<1>3. Flush(s, c) \in Core
  BY <1>1 DEF Flush, Core, Readings
<1> QED
  BY <1>2, <1>3

\* A snapshot and a list of picks leave a tracker a tracker.
LEMMA TrackerType ==
    ASSUME NEW t \in Tracker, NEW macs \in SUBSET Mac
    PROVE  Sighted(t, macs) \in Tracker /\ SetTracked(t, macs) \in Tracker
BY DEF Sighted, SetTracked, Tracker

-----------------------------------------------------------------------------
(* The poll keeps the types.                                                 *)

\* The state a step of the poll leaves behind.
PollTyped ==
    /\ call' \in Call \cup {None} /\ shots' \in Nat /\ poll' \in Poll
    /\ said' \in Said /\ core' \in Core /\ link' \in Link
    /\ saved' \in Saved /\ tracker' \in Tracker

\* A question put to the box at the endpoint is a call.
LEMMA QuestionType ==
    ASSUME NEW s \in Step, NEW c, NEW to \in Endpoint
    PROVE  Question(s, c, to) \in Call
<1>1. CASE s # Update
  BY <1>1 DEF Question, Ask, Step, Call, Feature
<1>2. CASE s = Update
  BY <1>2 DEF Question, Ask, Call, Feature, UpdateInfo, Kind
<1> QED
  BY <1>1, <1>2

\* finishPoll() with its announcement and its flush.
LEMMA FinishPollType ==
    ASSUME TypeOK, cap' \in [Feature -> Availability], identity' \in Endpoint \cup {None},
           NEW p \in Poll, NEW s \in Said, NEW c \in Core, FinishPoll(p, s, c)
    PROVE  /\ poll' \in Poll /\ said' \in Said /\ core' \in Core /\ link' \in Link
           /\ saved' \in Saved /\ tracker' \in Tracker
<1>1. poll' \in Poll
  BY DEF FinishPoll, Poll
<1>2. link' \in Link
  BY LinkType DEF FinishPoll, TypeOK
<1>3. Offered(cap') \subseteq Channel
  BY DEF Offered, Channel, Rate
<1>4. Descriptor \in Device
  BY <1>3 DEF Descriptor, Device
<1>5. SaidAnnounced(s) \in Said
  <2>1. [s EXCEPT !.descriptor = Descriptor] \in Said
    BY <1>4 DEF Said
  <2> QED
    BY <2>1, SaidType DEF SaidAnnounced
<1>6. CoreAnnounced(s, c) \in Core
  <2>1. c.value \in Readings
    BY DEF Core
  <2>2. [ch \in Channel |-> IF ch \in Descriptor.channels THEN c.value[ch] ELSE None] \in Readings
    BY <2>1 DEF Readings
  <2> QED
    BY <1>4, <2>2 DEF CoreAnnounced, Core
<1>7. SavedAnnounced(s) \in Saved
  BY DEF SavedAnnounced, Saved, PresentMask, TypeOK
<1>8. said' \in Said
  BY <1>5, SaidType DEF FinishPoll
<1>9. core' \in Core
  BY <1>6, CoreType DEF FinishPoll, DescriptorThenValues
<1>10. saved' \in Saved
  BY <1>7 DEF FinishPoll, TypeOK
<1>11. tracker' \in Tracker
  <2>1. p.seen \subseteq Mac
    BY DEF Poll
  <2> QED
    BY <2>1, TrackerType DEF FinishPoll, TypeOK
<1> QED
  BY <1>1, <1>2, <1>8, <1>9, <1>10, <1>11

\* runStep() with what it issues or finishes.
LEMMA RunStepType ==
    ASSUME TypeOK, cap' \in [Feature -> Availability], identity' \in Endpoint \cup {None},
           NEW busy \in Call \cup {None}, NEW left \in Nat,
           NEW p \in Poll, NEW s \in Said, NEW c \in Core, RunStep(busy, left, p, s, c)
    PROVE  PollTyped
<1> DEFINE due == Due(p.todo, cap')
<1>1. due \subseteq Step
  BY DEF Due, Poll
<1>2. CASE FinishPoll(p, s, c) /\ call' = busy /\ shots' = left
  BY <1>2, FinishPollType DEF PollTyped
<1>3. CASE /\ \E step \in due :
                /\ poll' = [p EXCEPT !.todo = Advanced(due, step)]
                /\ \/ /\ endpoint # None
                      /\ call' = Question(step, cap', endpoint) /\ shots' = left
                   \/ call' = busy /\ shots' = StepNotIssued(left)
          /\ said' = s /\ core' = c
          /\ UNCHANGED <<link, saved, tracker>>
  <2>1. PICK step \in due :
          /\ poll' = [p EXCEPT !.todo = Advanced(due, step)]
          /\ \/ /\ endpoint # None
                /\ call' = Question(step, cap', endpoint) /\ shots' = left
             \/ call' = busy /\ shots' = StepNotIssued(left)
    BY <1>3
  <2>2. poll' \in Poll
    BY <1>1, <2>1 DEF Poll, Advanced
  <2>3. call' \in Call \cup {None}
    <3>1. step \in Step
      BY <1>1
    <3>2. endpoint # None => endpoint \in Endpoint
      BY DEF TypeOK
    <3>3. endpoint # None => Question(step, cap', endpoint) \in Call
      BY <3>1, <3>2, QuestionType
    <3> QED
      BY <2>1, <3>3
  <2>4. shots' \in Nat
    BY <2>1 DEF StepNotIssued
  <2> QED
    BY <1>3, <2>2, <2>3, <2>4 DEF PollTyped, TypeOK
<1> QED
  BY <1>2, <1>3 DEF RunStep

-----------------------------------------------------------------------------
(* The answers of a poll keep the types.                                     *)

\* A disturbance leaves the budget a budget.
LEMMA SpendType ==
    ASSUME TypeOK, NEW kind, Spend(kind)
    PROVE  budget' \in 0 .. MaxEvents
BY BoundAssumption DEF Spend, TypeOK

\* What an answer finds, and what it leaves alone.
LEMMA ReplyType ==
    ASSUME TypeOK, NEW kind, NEW out, Reply(kind, out)
    PROVE  /\ call \in Call /\ call.kind = kind
           /\ budget' \in 0 .. MaxEvents
           /\ UNCHANGED <<lifecycle, endpoint, sinceSlow, ipc, conf, unsent, up, switch>>
<1>1. budget' \in 0 .. MaxEvents
  BY SpendType DEF Reply, TypeOK
<1> QED
  BY <1>1 DEF Reply, TypeOK, env

\* What was learned from an answer.
LEMMA LearnType ==
    ASSUME TypeOK, NEW f \in Feature, NEW out, Learn(f, out)
    PROVE  cap' \in [Feature -> Availability]
BY CapType DEF Learn, TypeOK

\* An answer noted leaves a poll a poll.
LEMMA AnsweredType ==
    ASSUME TypeOK, NEW out
    PROVE  Answered(out) \in Poll
BY DEF Answered, Poll, TypeOK

\* The reply of a step, whatever it reports.
LEMMA ContinueType ==
    ASSUME TypeOK, cap' \in [Feature -> Availability], identity' \in Endpoint \cup {None},
           NEW p \in Poll, NEW ch \in Channel, NEW v \in Reading \cup {None},
           Continue(p, ch, v)
    PROVE  PollTyped /\ UNCHANGED <<write, table, cmd>>
<1>1. None \in Call \cup {None} /\ shots \in Nat /\ said \in Said /\ core \in Core
  BY DEF TypeOK
<1>2. CASE v = None
  BY <1>1, <1>2, RunStepType DEF Continue
<1>3. CASE v # None
  <2>1. v \in Reading /\ poll.running \in BOOLEAN
    BY <1>3 DEF TypeOK, Poll
  <2>2. Record(said, ch, v, poll.running) \in Said
    BY <1>1, <2>1, SaidType
  <2>3. (IF SentAtOnce(said, ch, v, poll.running) THEN Show(core, ch, v) ELSE core) \in Core
    BY <1>1, <2>1, CoreType
  <2>4. RunStep(None, shots, p, Record(said, ch, v, poll.running),
                IF SentAtOnce(said, ch, v, poll.running) THEN Show(core, ch, v) ELSE core)
    BY <1>3 DEF Continue
  <2>5. PollTyped
    BY <1>1, <2>2, <2>3, <2>4, RunStepType
  <2> QED
    BY <2>5 DEF Continue
<1> QED
  BY <1>2, <1>3

\* The answers of all five kinds of question.
LEMMA PollReplyType ==
    ASSUME TypeOK, PollReply
    PROVE  TypeOK'
<1>1. PICK out \in {"ok", "invalid", "fault", "none"} :
        InfoReply(out) \/ HostReply(out) \/ BytesReply(out) \/ WlanReply(out) \/ UpdateReply(out)
  BY DEF PollReply
<1>2. Answered(out) \in Poll
  BY AnsweredType
\* What every one of them leaves to be shown.
<1>3. ASSUME NEW kind, Reply(kind, out), cap' \in [Feature -> Availability],
             identity' \in Endpoint \cup {None}, meter' \in [Rate -> Endpoint \cup {None}],
             PollTyped, UNCHANGED <<write, table, cmd>>
      PROVE  TypeOK'
  BY <1>3, ReplyType DEF PollTyped, TypeOK
<1>4. "uptime" \in Channel /\ "update" \in Channel /\ Rate \subseteq Channel /\ Band \subseteq Channel
  BY DEF Channel
<1>5. CASE InfoReply(out)
  <2>1. Reply("Info", out) /\ call \in Call
    BY <1>5, ReplyType DEF InfoReply
  <2>2. call.to \in Endpoint
    BY <2>1 DEF Call
  <2>3. identity' \in Endpoint \cup {None} /\ cap' \in [Feature -> Availability]
        /\ meter' \in [Rate -> Endpoint \cup {None}]
    BY <1>5, <2>2 DEF InfoReply, TypeOK
  <2>4. PICK v : /\ v = IF out = "ok"
                        THEN [box |-> call.to, on |-> IF said.value["uptime"] = None THEN FALSE
                                                      ELSE ~said.value["uptime"].on]
                        ELSE None
                 /\ Continue(Answered(out), "uptime", v)
    BY <1>5 DEF InfoReply
  <2>5. v \in Reading \cup {None}
    BY <2>2, <2>4 DEF Reading
  <2>6. PollTyped /\ UNCHANGED <<write, table, cmd>>
    BY <1>2, <1>4, <2>3, <2>4, <2>5, ContinueType
  <2> QED
    BY <1>3, <2>1, <2>3, <2>6
<1>6. CASE HostReply(out)
  <2>1. Reply("Host", out) /\ call \in Call /\ call.kind = "Host"
    BY <1>6, ReplyType DEF HostReply
  <2>2. call.arg \in Mac
    BY <2>1 DEF Call
  <2>3. identity' \in Endpoint \cup {None} /\ cap' \in [Feature -> Availability]
        /\ meter' \in [Rate -> Endpoint \cup {None}]
    BY <1>6 DEF HostReply, TypeOK
  <2>4. Heard(Answered(out), call.arg, out) \in Poll
    BY <1>2, <2>2 DEF Heard, Poll
  <2>5. Continue(Heard(Answered(out), call.arg, out), "uptime", None)
    BY <1>6 DEF HostReply
  <2>6. PollTyped /\ UNCHANGED <<write, table, cmd>>
    BY <1>4, <2>3, <2>4, <2>5, ContinueType
  <2> QED
    BY <1>3, <2>1, <2>3, <2>6
<1>7. CASE BytesReply(out)
  <2>1. Reply("Bytes", out) /\ call \in Call /\ call.kind = "Bytes"
    BY <1>7, ReplyType DEF BytesReply
  <2>2. call.arg \in Rate /\ call.to \in Endpoint
    BY <2>1 DEF Call
  <2>3. cap' \in [Feature -> Availability]
    BY <1>7, LearnType DEF BytesReply, Feature
  <2>4. identity' \in Endpoint \cup {None} /\ meter' \in [Rate -> Endpoint \cup {None}]
    BY <1>7, <2>2 DEF BytesReply, TypeOK
  <2>5. PICK v \in Reading \cup {None} : Continue(Answered(out), call.arg, v)
    BY <1>7, <2>2 DEF BytesReply, Reading
  <2>6. PollTyped /\ UNCHANGED <<write, table, cmd>>
    BY <1>2, <1>4, <2>2, <2>3, <2>4, <2>5, ContinueType
  <2> QED
    BY <1>3, <2>1, <2>3, <2>4, <2>6
<1>8. CASE WlanReply(out)
  <2>1. Reply("Wlan", out) /\ call \in Call /\ call.kind = "Wlan"
    BY <1>8, ReplyType DEF WlanReply
  <2>2. call.arg \in Band /\ call.to \in Endpoint
    BY <2>1 DEF Call
  <2>3. cap' \in [Feature -> Availability]
    BY <1>8, <2>2, LearnType DEF WlanReply, Feature
  <2>4. identity' \in Endpoint \cup {None} /\ meter' \in [Rate -> Endpoint \cup {None}]
    BY <1>8 DEF WlanReply, TypeOK
  <2>5. PICK v : /\ v = IF out = "ok" THEN [box |-> call.to, on |-> switch[call.to][call.arg]]
                        ELSE None
                 /\ Continue(Answered(out), call.arg, v)
    BY <1>8 DEF WlanReply
  <2>6. switch[call.to][call.arg] \in BOOLEAN
    BY <2>2 DEF TypeOK
  <2>7. v \in Reading \cup {None}
    BY <2>2, <2>5, <2>6 DEF Reading
  <2>8. PollTyped /\ UNCHANGED <<write, table, cmd>>
    BY <1>2, <1>4, <2>2, <2>3, <2>4, <2>5, <2>7, ContinueType
  <2> QED
    BY <1>3, <2>1, <2>3, <2>4, <2>8
<1>9. CASE UpdateReply(out)
  <2>1. Reply("Update", out) /\ call \in Call /\ call.kind = "Update"
    BY <1>9, ReplyType DEF UpdateReply
  <2>2. call.arg \in UpdateInfo /\ call.to \in Endpoint
    BY <2>1 DEF Call
  <2>3. cap' \in [Feature -> Availability]
    BY <1>9, <2>2, LearnType DEF UpdateReply, Feature
  <2>4. identity' \in Endpoint \cup {None} /\ meter' \in [Rate -> Endpoint \cup {None}]
    BY <1>9 DEF UpdateReply, TypeOK
  <2>5. PICK p, v :
          /\ p = IF Legacy(call, out) THEN [Answered(out) EXCEPT !.todo = @ \cup {Update}]
                 ELSE Answered(out)
          /\ v = IF out = "ok" THEN [box |-> call.to, on |-> TRUE] ELSE None
          /\ Continue(p, "update", v)
    BY <1>9 DEF UpdateReply
  <2>6. v \in Reading \cup {None}
    BY <2>2, <2>5 DEF Reading
  <2>7. p \in Poll
    BY <1>2, <2>5 DEF Poll, Step
  <2>8. PollTyped /\ UNCHANGED <<write, table, cmd>>
    BY <1>4, <2>3, <2>4, <2>5, <2>6, <2>7, ContinueType
  <2> QED
    BY <1>3, <2>1, <2>3, <2>4, <2>8
<1> QED
  BY <1>1, <1>5, <1>6, <1>7, <1>8, <1>9

\* The shot of a step that could not be issued.
LEMMA ShotFiresType ==
    ASSUME TypeOK, ShotFires
    PROVE  TypeOK'
<1>1. cap' \in [Feature -> Availability] /\ identity' \in Endpoint \cup {None}
      /\ call \in Call \cup {None} /\ shots - 1 \in Nat
      /\ poll \in Poll /\ said \in Said /\ core \in Core
  BY DEF ShotFires, TypeOK
<1>2. CASE RunStep(call, shots - 1, poll, said, core)
  <2>1. PollTyped
    BY <1>1, <1>2, RunStepType
  <2> QED
    BY <2>1 DEF ShotFires, PollTyped, TypeOK, env
<1>3. CASE /\ poll' = [poll EXCEPT !.running = FALSE]
          /\ shots' = shots - 1
          /\ UNCHANGED <<call, said, core, link, saved, tracker>>
  <2>1. poll' \in Poll
    BY <1>1, <1>3 DEF Poll
  <2> QED
    BY <1>1, <1>3, <2>1 DEF ShotFires, TypeOK, env
<1> QED
  BY <1>2, <1>3 DEF ShotFires

-----------------------------------------------------------------------------
(* The timer, the configuration and the lifecycle keep the types.            *)

\* What a poll is made of is steps.
LEMMA StepsType ==
    ASSUME NEW c, NEW tracked \in SUBSET Mac, NEW slow
    PROVE  Steps(c, tracked, slow) \subseteq Step
<1>1. {[kind |-> "Host", arg |-> m] : m \in tracked} \subseteq Step
  BY DEF Step
<1>2. {[kind |-> "Bytes", arg |-> r] : r \in Rate} \subseteq Step
  BY DEF Step
<1>3. {[kind |-> "Wlan", arg |-> b] : b \in Band} \subseteq Step
  BY DEF Step
<1>4. {Update} \subseteq Step
  BY DEF Step
<1> QED
  BY <1>1, <1>2, <1>3, <1>4 DEF Steps

\* The first question of a poll, which any box may be asked.
LEMMA FirstQuestionType ==
    ASSUME NEW to \in Endpoint
    PROVE  Ask("Info", None, to) \in Call
BY DEF Ask, Call

\* beginPoll(), wherever it is called from.
LEMMA BeginPollType ==
    ASSUME TypeOK, tracker' \in Tracker, endpoint' \in Endpoint \cup {None},
           NEW l \in Link, NEW n \in 0 .. SlowPollEvery, BeginPoll(l, n)
    PROVE  /\ link' \in Link /\ sinceSlow' \in 0 .. SlowPollEvery
           /\ call' \in Call \cup {None} /\ poll' \in Poll
<1>1. CASE UNCHANGED <<call, poll>> /\ sinceSlow' = n /\ (link' = l \/ link' = NoteFailure(l))
  BY <1>1, LinkType DEF TypeOK
<1>2. CASE /\ endpoint' # None
          /\ sinceSlow' = SinceSlow(n)
          /\ poll' = [Idle EXCEPT !.running = TRUE,
                                  !.todo = Steps(cap', tracker'.tracked, Slow(n))]
          /\ call' = Ask("Info", None, endpoint')
          /\ link' = l
  <2>1. sinceSlow' \in 0 .. SlowPollEvery
    BY <1>2, SlowAssumption DEF SinceSlow, Slow
  <2>2. Steps(cap', tracker'.tracked, Slow(n)) \subseteq Step
    BY StepsType DEF Tracker
  <2>3. poll' \in Poll
    BY <1>2, <2>2 DEF Poll, Idle
  <2>4. call' \in Call
    BY <1>2, FirstQuestionType
  <2> QED
    BY <1>2, <2>1, <2>3, <2>4
<1> QED
  BY <1>1, <1>2 DEF BeginPoll

\* A tick of the poll timer.
LEMMA TimerTickType ==
    ASSUME TypeOK, TimerTick
    PROVE  TypeOK'
<1>1. tracker' \in Tracker /\ endpoint' \in Endpoint \cup {None}
      /\ link \in Link /\ sinceSlow \in 0 .. SlowPollEvery
  BY DEF TimerTick, TypeOK
<1>2. /\ link' \in Link /\ sinceSlow' \in 0 .. SlowPollEvery
      /\ call' \in Call \cup {None} /\ poll' \in Poll
  BY <1>1, BeginPollType DEF TimerTick
<1> QED
  BY <1>2 DEF TimerTick, TypeOK, env

\* A configuration, which may move the instance to another box.
LEMMA OnConfigChangedType ==
    ASSUME TypeOK, NEW e \in Configs, OnConfigChanged(e)
    PROVE  TypeOK'
<1> DEFINE fresh == [link EXCEPT !.misses = 0, !.wait = 0]
<1> DEFINE armed == Arm(IF e # endpoint THEN SetConnected(fresh, FALSE) ELSE fresh)
<1>1. budget' \in 0 .. MaxEvents
  BY SpendType DEF OnConfigChanged, TypeOK
<1>2. e \in Endpoint \cup {None} /\ endpoint' = e /\ conf' = e
  BY ConfigAssumption DEF OnConfigChanged
<1>3. tracker' \in Tracker
  BY TrackerType DEF OnConfigChanged, TypeOK, Core
<1>4. cap' \in [Feature -> Availability]
  <2>1. Forget(cap) \in [Feature -> Availability]
    BY DEF Forget, TypeOK, Availability
  <2>2. \A mask : RestorePresent(Forget(cap), mask) \in [Feature -> Availability]
    BY <2>1 DEF RestorePresent, Availability
  <2> QED
    BY <2>2 DEF OnConfigChanged, TypeOK
<1>5. said' \in Said
  BY SaidType DEF OnConfigChanged, TypeOK
<1>6. meter' \in [Rate -> Endpoint \cup {None}]
  BY DEF OnConfigChanged, TypeOK, NoSamples
<1>7. armed \in Link
  <2>1. 0 \in 0 .. MaxMisses /\ 0 \in Wait
    BY StrikesAssumption, DelaysAssumption DEF Wait, MaxMisses
  <2>2. fresh \in Link
    BY <2>1 DEF Link, TypeOK
  <2>3. SetConnected(fresh, FALSE) \in Link
    BY <2>2, LinkType
  <2> QED
    BY <2>2, <2>3, LinkType
<1>8. SlowPollEvery \in 0 .. SlowPollEvery
  BY SlowAssumption
<1>9. BeginPoll(armed, SlowPollEvery)
  BY DEF OnConfigChanged
<1>10. /\ link' \in Link /\ sinceSlow' \in 0 .. SlowPollEvery
       /\ call' \in Call \cup {None} /\ poll' \in Poll
  <2> HIDE DEF armed
  <2> QED
    BY <1>2, <1>3, <1>7, <1>8, <1>9, BeginPollType
<1> QED
  BY <1>1, <1>2, <1>3, <1>4, <1>5, <1>6, <1>10 DEF OnConfigChanged, TypeOK

\* The coming and going of the process and of phi-core.
LEMMA LifecycleType ==
    ASSUME TypeOK, Start \/ Stop \/ Crash \/ OnDisconnected \/ CoreGone \/ CoreBack
    PROVE  TypeOK'
<1>1. NoReadings \in Readings
  BY DEF NoReadings, Readings
<1>2. Forsaken \in [Cmd -> {"new", "waiting", "done", "dropped"}]
  BY DEF Forsaken, TypeOK
<1>3. 0 \in 0 .. MaxMisses /\ 0 \in Wait
  BY StrikesAssumption, DelaysAssumption DEF Wait, MaxMisses
<1>4. CASE Start
  BY <1>4 DEF Start, TypeOK
<1>5. CASE Stop
  <2>1. budget' \in 0 .. MaxEvents
    BY <1>5, SpendType DEF Stop
  <2>2. link' \in Link
    BY <1>3, <1>5 DEF Stop, TypeOK, Link
  <2> QED
    BY <1>5, <2>1, <2>2 DEF Stop, TypeOK, env
<1>6. CASE Crash
  <2>1. budget' \in 0 .. MaxEvents
    BY <1>6, SpendType DEF Crash, TypeOK
  <2>2. cap' \in [Feature -> Availability] /\ meter' \in [Rate -> Endpoint \cup {None}]
    BY <1>6 DEF Crash, TypeOK, Forget, Availability, NoSamples
  <2>3. said' \in Said
    BY <1>1, <1>6 DEF Crash, NothingSaid, Said
  <2>4. link' \in Link
    BY <1>3, <1>6 DEF Crash, InitLink, Link
  <2>5. tracker' \in Tracker
    BY <1>6 DEF Crash, Tracker, TypeOK
  <2>6. poll' \in Poll /\ table' \in Table /\ write' \in Write
    BY <1>6 DEF Crash, Idle, Poll, NoTable, Table, NoWrite, Write
  <2>7. sinceSlow' \in 0 .. SlowPollEvery
    BY <1>6, SlowAssumption DEF Crash
  <2> QED
    BY <1>2, <1>6, <2>1, <2>2, <2>3, <2>4, <2>5, <2>6, <2>7 DEF Crash, TypeOK
<1>7. CASE OnDisconnected
  <2>1. said' \in Said
    <3>1. ForgetReported(said) \in Said
      BY SaidType DEF TypeOK
    <3> QED
      BY <1>7, <3>1, SaidType DEF OnDisconnected
  <2>2. meter' \in [Rate -> Endpoint \cup {None}]
    BY <1>7 DEF OnDisconnected, NoSamples
  <2>3. link' \in Link
    BY <1>7, LinkType DEF OnDisconnected, TypeOK
  <2>4. poll' \in Poll
    BY <1>7 DEF OnDisconnected, TypeOK, Poll
  <2> QED
    BY <1>7, <2>1, <2>2, <2>3, <2>4 DEF OnDisconnected, TypeOK, env
<1>8. CASE CoreGone
  <2>1. budget' \in 0 .. MaxEvents
    BY <1>8, SpendType DEF CoreGone
  <2>2. core' \in Core
    BY <1>1, <1>8 DEF CoreGone, TypeOK, Core
  <2> QED
    BY <1>2, <1>8, <2>1, <2>2 DEF CoreGone, TypeOK
<1>9. CASE CoreBack
  BY <1>9 DEF CoreBack, TypeOK
<1> QED
  BY <1>4, <1>5, <1>6, <1>7, <1>8, <1>9

-----------------------------------------------------------------------------
(* What the user does keeps the types.                                       *)

\* A write issued or answered at once.
LEMMA OnChannelInvokeType ==
    ASSUME TypeOK, NEW k \in Cmd, NEW b \in Band, NEW on \in BOOLEAN, OnChannelInvoke(k, b, on)
    PROVE  TypeOK'
<1>1. cmd' \in [Cmd -> {"new", "waiting", "done", "dropped"}]
  BY DEF OnChannelInvoke, TypeOK
<1>2. call' \in Call \cup {None}
  <2>1. endpoint # None => Ask("SetEnable", b, endpoint) \in Call
    BY DEF Ask, Call, TypeOK
  <2> QED
    BY <2>1 DEF OnChannelInvoke, Serving, TypeOK
<1>3. poll' \in Poll
  BY DEF OnChannelInvoke, TypeOK, Poll
<1>4. write' \in Write
  <2>1. [cmd |-> k, on |-> on, applied |-> FALSE] \in Write
    BY DEF Write
  <2>2. write' = write \/ write' = [cmd |-> k, on |-> on, applied |-> FALSE]
    BY DEF OnChannelInvoke
  <2> QED
    BY <2>1, <2>2 DEF TypeOK
<1> QED
  BY <1>1, <1>2, <1>3, <1>4 DEF OnChannelInvoke, TypeOK, env

\* The box acts on the write in flight.
LEMMA BoxSwitchesType ==
    ASSUME TypeOK, BoxSwitches
    PROVE  TypeOK'
<1>1. call \in Call /\ write.on \in BOOLEAN
  BY DEF BoxSwitches, TypeOK, Write
<1>2. write' \in Write
  BY DEF BoxSwitches, TypeOK, Write
<1>3. switch' \in [Endpoint -> [Band -> BOOLEAN]]
  BY <1>1 DEF BoxSwitches, TypeOK
<1> QED
  BY <1>2, <1>3 DEF BoxSwitches, TypeOK

\* The answer of a write: the value, then the result.
LEMMA SetEnableReplyType ==
    ASSUME TypeOK, NEW out, SetEnableReply(out)
    PROVE  TypeOK'
<1> DEFINE v == [box |-> call.to, on |-> write.on]
<1>1. Reply("SetEnable", out) /\ call \in Call /\ call.kind = "SetEnable"
  BY ReplyType DEF SetEnableReply
<1>2. call.to \in Endpoint /\ call.arg \in Channel
  BY <1>1 DEF Call, Channel
<1>3. v \in Reading /\ poll.running \in BOOLEAN
  BY <1>2 DEF Reading, TypeOK, Write, Poll
<1>4. Record(said, call.arg, v, poll.running) \in Said /\ Show(core, call.arg, v) \in Core
  BY <1>2, <1>3, SaidType, CoreType DEF TypeOK
<1>5. said' \in Said /\ core' \in Core
  BY <1>4 DEF SetEnableReply, TypeOK
<1>6. cmd' \in [Cmd -> {"new", "waiting", "done", "dropped"}]
  BY DEF SetEnableReply, TypeOK
<1> QED
  BY <1>1, <1>5, <1>6, ReplyType DEF SetEnableReply, TypeOK

\* A listing asked for.
LEMMA OnPairingStartType ==
    ASSUME TypeOK, OnPairingStart
    PROVE  TypeOK'
<1>1. call' \in Call
  BY DEF OnPairingStart, Serving, Ask, Call, HostList, TypeOK
<1>2. poll' \in Poll
  BY DEF OnPairingStart, TypeOK, Poll
<1>3. budget' \in 0 .. MaxEvents
  BY SpendType DEF OnPairingStart
<1> QED
  BY <1>1, <1>2, <1>3 DEF OnPairingStart, TypeOK, env

\* A client picked or removed.
LEMMA PickType ==
    ASSUME TypeOK, NEW m \in Mac, OnPairCandidate(m) \/ OnDeviceRemoved(m)
    PROVE  TypeOK'
<1>1. tracker.tracked \subseteq Mac
  BY DEF TypeOK, Tracker
<1>2. PICK macs \in SUBSET Mac : SaveTracked(SetTracked(tracker, macs))
  BY <1>1 DEF OnPairCandidate, OnDeviceRemoved
<1>3. SetTracked(tracker, macs) \in Tracker
  BY TrackerType DEF TypeOK
<1>4. SetTracked(tracker, macs).tracked \subseteq Mac
  BY <1>3 DEF Tracker
<1>5. tracker' \in Tracker /\ core' \in Core
  BY <1>2, <1>3, <1>4 DEF SaveTracked, TypeOK, Core
<1>6. budget' \in 0 .. MaxEvents
  BY SpendType DEF OnPairCandidate, OnDeviceRemoved
<1>7. CASE OnPairCandidate(m)
  BY <1>5, <1>6, <1>7 DEF OnPairCandidate, TypeOK, env
<1>8. CASE OnDeviceRemoved(m)
  BY <1>5, <1>6, <1>8 DEF OnDeviceRemoved, TypeOK, env
<1> QED
  BY <1>7, <1>8

-----------------------------------------------------------------------------
(* The listing and the world keep the types.                                 *)

\* The next call of the chain asks the box at the endpoint.
LEMMA ProceedType ==
    ASSUME TypeOK, NEW kind \in {"Doc", "Count", "Entry"}, Proceed(kind, None)
    PROVE  call' \in Call \cup {None}
BY DEF Proceed, Ask, Call, TypeOK

\* A table read to its end.
LEMMA CompleteType ==
    ASSUME TypeOK, NEW hosts \in SUBSET Mac, NEW complete, Complete(hosts, complete)
    PROVE  tracker' \in Tracker /\ call' = None
BY TrackerType DEF Complete, TypeOK

\* The answers of all four kinds of call of a listing.
LEMMA TableReplyType ==
    ASSUME TypeOK, TableReply
    PROVE  TypeOK'
<1>1. PICK out \in {"ok", "invalid", "none"} :
        ListPathReply(out) \/ DocReply(out) \/ CountReply(out) \/ EntryReply(out)
  BY DEF TableReply
<1>2. Hosts \subseteq SUBSET Mac
  BY DEF Hosts
<1>3. ASSUME NEW kind, Reply(kind, out), call' \in Call \cup {None}, tracker' \in Tracker,
             cap' \in [Feature -> Availability], table' \in Table, TableUnchanged
      PROVE  TypeOK'
  BY <1>3, ReplyType DEF TableUnchanged, TypeOK
<1>4. CASE ListPathReply(out)
  <2>1. Reply("ListPath", out) /\ call \in Call /\ call.kind = "ListPath"
    BY <1>4, ReplyType DEF ListPathReply
  <2>2. call.arg \in Feature
    BY <2>1 DEF Call, Feature
  <2>3. cap' \in [Feature -> Availability]
    BY <1>4, <2>2, LearnType DEF ListPathReply
  <2>4. call' \in Call \cup {None}
    BY <1>4, ProceedType DEF ListPathReply
  <2> QED
    BY <1>3, <1>4, <2>1, <2>3, <2>4 DEF ListPathReply, TypeOK
<1>5. CASE DocReply(out)
  <2>1. PICK hosts \in SUBSET Mac :
          IF hosts = {} THEN Proceed("Count", None) /\ UNCHANGED tracker
          ELSE Complete(hosts, TRUE)
    BY <1>2, <1>5 DEF DocReply
  <2>2. call' \in Call \cup {None} /\ tracker' \in Tracker
    BY <2>1, ProceedType, CompleteType DEF TypeOK
  <2> QED
    BY <1>3, <1>5, <2>2 DEF DocReply, TypeOK
<1>6. CASE CountReply(out)
  <2>1. PICK hosts \in SUBSET Mac :
          /\ table' = [rest |-> hosts, seen |-> {}, complete |-> out = "ok"]
          /\ IF hosts = {} THEN Complete({}, out = "ok")
             ELSE Proceed("Entry", None) /\ UNCHANGED tracker
    BY <1>2, <1>6 DEF CountReply
  <2>2. call' \in Call \cup {None} /\ tracker' \in Tracker
    BY <2>1, ProceedType, CompleteType DEF TypeOK
  <2>3. table' \in Table
    BY <2>1 DEF Table
  <2> QED
    BY <1>3, <1>6, <2>2, <2>3 DEF CountReply, TypeOK
<1>7. CASE EntryReply(out)
  <2>0. PICK m \in table.rest :
          \E seen, complete, rest :
             /\ seen = IF out = "ok" THEN table.seen \cup {m} ELSE table.seen
             /\ complete = (table.complete /\ out = "ok")
             /\ rest = table.rest \ {m}
             /\ table' = [rest |-> rest, seen |-> seen, complete |-> complete]
             /\ IF rest = {} THEN Complete(seen, complete)
                ELSE Proceed("Entry", None) /\ UNCHANGED tracker
    BY <1>7 DEF EntryReply
  <2>1. PICK seen, complete, rest :
          /\ seen = IF out = "ok" THEN table.seen \cup {m} ELSE table.seen
          /\ complete = (table.complete /\ out = "ok")
          /\ rest = table.rest \ {m}
          /\ table' = [rest |-> rest, seen |-> seen, complete |-> complete]
          /\ IF rest = {} THEN Complete(seen, complete)
             ELSE Proceed("Entry", None) /\ UNCHANGED tracker
    BY <2>0
  <2>2. seen \in SUBSET Mac /\ rest \in SUBSET Mac /\ complete \in BOOLEAN
    BY <2>1 DEF TypeOK, Table
  <2>3. call' \in Call \cup {None} /\ tracker' \in Tracker
    BY <2>1, <2>2, ProceedType, CompleteType DEF TypeOK
  <2>4. table' \in Table
    BY <2>1, <2>2 DEF Table
  <2> QED
    BY <1>3, <1>7, <2>3, <2>4 DEF EntryReply, TypeOK
<1> QED
  BY <1>1, <1>4, <1>5, <1>6, <1>7

\* Boxes that go and come back, and a switch thrown at one.
LEMMA WorldType ==
    ASSUME TypeOK, BoxGoesDown \/ BoxComesUp \/ SwitchThrown
    PROVE  TypeOK'
<1>1. CASE BoxGoesDown
  <2>1. budget' \in 0 .. MaxEvents
    BY <1>1, SpendType DEF BoxGoesDown
  <2> QED
    BY <1>1, <2>1 DEF BoxGoesDown, world, TypeOK
<1>2. CASE BoxComesUp
  BY <1>2 DEF BoxComesUp, world, TypeOK
<1>3. CASE SwitchThrown
  <2>1. budget' \in 0 .. MaxEvents
    BY <1>3, SpendType DEF SwitchThrown
  <2>2. switch' \in [Endpoint -> [Band -> BOOLEAN]]
    BY <1>3 DEF SwitchThrown, TypeOK
  <2> QED
    BY <1>3, <2>1, <2>2 DEF SwitchThrown, world, TypeOK
<1> QED
  BY <1>1, <1>2, <1>3

-----------------------------------------------------------------------------
(* Type correctness.                                                         *)

\* A new process has the types.
LEMMA InitType == Init => TypeOK
<1> SUFFICES ASSUME Init PROVE TypeOK
  OBVIOUS
<1>1. NoReadings \in Readings
  BY DEF NoReadings, Readings
<1>2. tracker \in Tracker /\ core \in Core
  BY <1>1 DEF Init, Tracker, Core
<1>3. said \in Said /\ saved \in Saved /\ poll \in Poll /\ table \in Table /\ write \in Write
  BY <1>1 DEF Init, NothingSaid, Said, Saved, Idle, Poll, NoTable, Table, NoWrite, Write
<1>4. link \in Link
  BY StrikesAssumption, DelaysAssumption DEF Init, InitLink, Link, Wait, MaxMisses
<1>5. cap \in [Feature -> Availability] /\ meter \in [Rate -> Endpoint \cup {None}]
  BY DEF Init, Availability, NoSamples
<1>6. sinceSlow \in 0 .. SlowPollEvery /\ budget \in 0 .. MaxEvents
  BY SlowAssumption, BoundAssumption DEF Init
<1>7. conf \in Endpoint \cup {None}
  BY ConfigAssumption DEF Init
<1> QED
  BY <1>2, <1>3, <1>4, <1>5, <1>6, <1>7 DEF Init, TypeOK

\* Every step of the instance, the user, phi-core and the boxes keeps the types.
LEMMA NextType == TypeOK /\ [Next]_vars => TypeOK'
<1> SUFFICES ASSUME TypeOK, [Next]_vars PROVE TypeOK'
  OBVIOUS
<1>1. CASE Start \/ Stop \/ Crash \/ OnDisconnected \/ CoreGone \/ CoreBack
  BY <1>1, LifecycleType
<1>2. CASE \E e \in Configs : OnConfigChanged(e)
  BY <1>2, OnConfigChangedType
<1>3. CASE TimerTick \/ ShotFires \/ PollReply
  BY <1>3, TimerTickType, ShotFiresType, PollReplyType
<1>4. CASE \E k \in Cmd, b \in Band, on \in BOOLEAN : OnChannelInvoke(k, b, on)
  BY <1>4, OnChannelInvokeType
<1>5. CASE BoxSwitches \/ \E out \in {"ok", "invalid", "none"} : SetEnableReply(out)
  BY <1>5, BoxSwitchesType, SetEnableReplyType
<1>6. CASE OnPairingStart \/ TableReply
  BY <1>6, OnPairingStartType, TableReplyType
<1>7. CASE \E m \in Mac : OnPairCandidate(m) \/ OnDeviceRemoved(m)
  BY <1>7, PickType
<1>8. CASE BoxGoesDown \/ BoxComesUp \/ SwitchThrown
  BY <1>8, WorldType
<1>9. CASE UNCHANGED vars
  BY <1>9 DEF vars, env, TypeOK
<1> QED
  BY <1>1, <1>2, <1>3, <1>4, <1>5, <1>6, <1>7, <1>8, <1>9 DEF Next

\* The state always has its types: the bounds of the strikes, the delays and
\* the count to the next slow poll among them.
THEOREM TypeCorrect == Spec => []TypeOK
<1>1. Init => TypeOK
  BY InitType
<1>2. TypeOK /\ [Next]_vars => TypeOK'
  BY NextType
<1> QED
  BY <1>1, <1>2, PTL DEF Spec
=============================================================================
