------------------------- MODULE FritzHosted_proofs -------------------------
(* An instance that always has a host, for every value of the constants: its *)
(* polls are cycles with one outcome each, its one session is either polling *)
(* or serving the user, and nobody who is on the network is counted as       *)
(* leaving.                                                                  *)
EXTENDS FritzSafety_proofs

-----------------------------------------------------------------------------
(* The session of an instance with a host.                                   *)

\* Without a configuration that takes the host away no call can be refused, so
\* that no 0 ms shot is ever due, and a question of a poll is in flight exactly
\* while the poll runs.  A new process has heard nothing.
HostedInv ==
    /\ shots = 0
    /\ lifecycle = "Idle" => ~poll.answered
    /\ link.armed \/ poll.running => endpoint # None
    /\ call # None /\ call.kind \in Kind => poll.running

LEMMA InitHosted == Init => HostedInv
BY DEF Init, HostedInv, InitLink, Idle

\* What the answer of a poll does to it.
Outcome(p) ==
    /\ poll'.answered = p.answered
    /\ \/ /\ p.answered /\ ~poll'.running /\ call' = None /\ link' = NoteAnswer(link)
       \/ /\ ~p.answered /\ ~poll'.running /\ call' = None /\ link' = NoteFailure(link)
       \/ /\ poll'.running /\ link' = link
          /\ call' # None /\ call'.kind \in Kind

LEMMA RunStepHosted ==
    ASSUME TypeOK, HostedInv, endpoint # None, NEW p \in Poll, p.running, NEW s, NEW c,
           RunStep(None, shots, p, s, c)
    PROVE  Outcome(p) /\ shots' = 0
<1> DEFINE due == Due(p.todo, cap')
<1>1. due \subseteq Step
  BY DEF Due, Poll
<1>2. CASE FinishPoll(p, s, c) /\ call' = None /\ shots' = shots
  <2>1. ~poll'.running /\ poll'.answered = p.answered
    BY <1>2 DEF FinishPoll, Poll
  <2> QED
    BY <1>2, <2>1 DEF FinishPoll, Outcome, HostedInv
<1>3. ASSUME NEW step \in due, poll' = [p EXCEPT !.todo = Advanced(due, step)],
             call' = Question(step, cap', endpoint), shots' = shots, link' = link
      PROVE  Outcome(p) /\ shots' = 0
  <2>1. step \in Step /\ endpoint \in Endpoint
    BY <1>1 DEF TypeOK
  <2>2. call' # None /\ call'.kind \in Kind
    BY <1>3, <2>1, QuestionKind
  <2>3. poll'.running /\ poll'.answered = p.answered
    BY <1>3 DEF Poll
  <2> QED
    BY <1>3, <2>2, <2>3 DEF Outcome, HostedInv
<1> QED
  BY <1>2, <1>3 DEF RunStep

\* An answer arrives at a running poll of a running instance, and is noted in it.
LEMMA PollReplyHosted ==
    ASSUME TypeOK, SafetyInv, HostedInv, PollReply
    PROVE  /\ lifecycle = "Running" /\ poll.running /\ shots' = 0
           /\ UNCHANGED <<lifecycle, endpoint>>
           /\ \E p \in Poll : (poll.answered => p.answered) /\ Outcome(p)
<1>1. PICK out \in {"ok", "invalid", "fault", "none"} :
        InfoReply(out) \/ HostReply(out) \/ BytesReply(out) \/ WlanReply(out) \/ UpdateReply(out)
  BY DEF PollReply
<1>2. PICK kind \in Kind : Reply(kind, out)
  BY <1>1 DEF InfoReply, HostReply, BytesReply, WlanReply, UpdateReply, Kind
<1>3. call \in Call /\ UNCHANGED <<lifecycle, endpoint>>
  BY <1>2, ReplyType
<1>4. lifecycle = "Running" /\ poll.running /\ endpoint # None
  BY <1>2 DEF Reply, SafetyInv, Quiet, HostedInv
<1> DEFINE q == Answered(out)
<1>5. q \in Poll /\ q.running /\ (poll.answered => q.answered)
  BY <1>4, AnsweredType DEF Answered, TypeOK, Poll
<1> HIDE DEF q
<1>6. \E p \in Poll : p.running /\ (poll.answered => p.answered) /\ \E ch, v : Continue(p, ch, v)
  <2>1. CASE InfoReply(out)
    BY <1>5, <2>1 DEF InfoReply, q
  <2>2. CASE HostReply(out)
    <3>1. call.arg \in Mac
      BY <1>3, <2>2 DEF HostReply, Reply, Call
    <3>2. /\ Heard(q, call.arg, out) \in Poll /\ Heard(q, call.arg, out).running
          /\ Heard(q, call.arg, out).answered = q.answered
      BY <1>5, <3>1 DEF Heard, Poll
    <3> QED
      BY <1>5, <2>2, <3>2 DEF HostReply, q
  <2>3. CASE BytesReply(out)
    BY <1>5, <2>3 DEF BytesReply, q
  <2>4. CASE WlanReply(out)
    BY <1>5, <2>4 DEF WlanReply, q
  <2>5. CASE UpdateReply(out)
    <3> DEFINE r == [q EXCEPT !.todo = @ \cup {Update}]
    <3>1. r \in Poll /\ r.running /\ r.answered = q.answered
      BY <1>5 DEF Poll, Step
    <3> QED
      BY <1>5, <2>5, <3>1 DEF UpdateReply, q
  <2> QED
    BY <1>1, <2>1, <2>2, <2>3, <2>4, <2>5
<1>7. PICK p \in Poll : /\ p.running /\ (poll.answered => p.answered)
                        /\ \E s, c : RunStep(None, shots, p, s, c)
  BY <1>6 DEF Continue
<1> QED
  BY <1>3, <1>4, <1>7, RunStepHosted

\* beginPoll() of an instance that has a host.
LEMMA BeginPollHosted ==
    ASSUME TypeOK, NEW l, NEW n, endpoint' \in Endpoint, BeginPoll(l, n)
    PROVE  /\ link' = l
           /\ \/ (poll.running \/ call # None) /\ UNCHANGED <<call, poll>>
              \/ /\ ~poll.running /\ call = None
                 /\ call' # None /\ call'.kind = "Info" /\ poll'.running /\ ~poll'.answered
<1>1. CASE (poll.running \/ call # None) /\ link' = l /\ UNCHANGED <<call, poll>>
  BY <1>1
<1>2. CASE /\ ~poll.running /\ call = None /\ link' = l
           /\ poll' = [Idle EXCEPT !.running = TRUE,
                                   !.todo = Steps(cap', tracker'.tracked, Slow(n))]
           /\ call' = Ask("Info", None, endpoint')
  <2>1. call' \in Call /\ call'.kind = "Info"
    BY <1>2, FirstQuestionType DEF Ask
  <2>2. poll'.running /\ ~poll'.answered
    BY <1>2 DEF Idle
  <2> QED
    BY <1>2, <2>1, <2>2, NothingAssumption
<1> QED
  BY <1>1, <1>2, NoneAssumption DEF BeginPoll

LEMMA TimerTickHosted ==
    ASSUME TypeOK, HostedInv, TimerTick
    PROVE  /\ lifecycle = "Running" /\ UNCHANGED <<lifecycle, endpoint, shots, link>>
           /\ \/ UNCHANGED <<call, poll>>
              \/ /\ ~poll.running /\ call = None
                 /\ call' # None /\ call'.kind = "Info" /\ poll'.running /\ ~poll'.answered
<1>1. endpoint' \in Endpoint
  BY DEF TimerTick, HostedInv, TypeOK
<1> QED
  BY <1>1, BeginPollHosted DEF TimerTick

LEMMA OnConfigChangedHosted ==
    ASSUME TypeOK, HostedInv, NEW e \in Configs, None \notin Configs, OnConfigChanged(e)
    PROVE  /\ lifecycle \in {"Running", "Paused"} /\ lifecycle' = "Running"
           /\ endpoint' # None /\ shots' = shots
           /\ link'.misses = 0 /\ link'.connected \in {link.connected, FALSE}
           /\ \/ (poll.running \/ call # None) /\ UNCHANGED <<call, poll>>
              \/ /\ ~poll.running /\ call = None
                 /\ call' # None /\ call'.kind = "Info" /\ poll'.running /\ ~poll'.answered
<1> DEFINE fresh == [link EXCEPT !.misses = 0, !.wait = 0]
<1> DEFINE armed == Arm(IF e # endpoint THEN SetConnected(fresh, FALSE) ELSE fresh)
<1>1. e \in Endpoint /\ endpoint' = e
  BY ConfigAssumption DEF OnConfigChanged
<1>2. armed.misses = 0 /\ armed.connected \in {link.connected, FALSE}
  BY DEF Arm, SetConnected, Link, TypeOK
<1>3. BeginPoll(armed, SlowPollEvery)
  BY DEF OnConfigChanged
<1> HIDE DEF armed
<1> QED
  BY <1>1, <1>2, <1>3, BeginPollHosted, NoneAssumption DEF OnConfigChanged

\* What becomes of the session where neither a poll nor a configuration is
\* concerned.
SessionServes == /\ call' # None /\ call'.kind \notin Kind
                 /\ ~poll'.running /\ poll'.answered = poll.answered
                 /\ UNCHANGED <<lifecycle, endpoint, shots, link>>

LEMMA OnChannelInvokeHosted ==
    ASSUME TypeOK, NEW k, NEW b \in Band, NEW on, OnChannelInvoke(k, b, on)
    PROVE  \/ UNCHANGED <<lifecycle, endpoint, shots, link, call, poll>>
           \/ lifecycle = "Running" /\ SessionServes
<1>1. CASE ~Serving
  BY <1>1 DEF OnChannelInvoke
<1>2. CASE Serving
  <2>1. endpoint \in Endpoint /\ lifecycle = "Running"
    BY <1>2 DEF Serving, TypeOK
  <2>2. call' = Ask("SetEnable", b, endpoint)
    BY <1>2 DEF OnChannelInvoke
  <2>3. call' \in Call /\ call'.kind \notin Kind
    BY <2>1, <2>2 DEF Ask, Call, Kind
  <2>4. ~poll'.running /\ poll'.answered = poll.answered
    BY <1>2 DEF OnChannelInvoke, TypeOK, Poll
  <2> QED
    BY <2>1, <2>3, <2>4, NothingAssumption DEF SessionServes, OnChannelInvoke
<1> QED
  BY <1>1, <1>2

LEMMA OnPairingStartHosted ==
    ASSUME TypeOK, OnPairingStart
    PROVE  lifecycle = "Running" /\ SessionServes
<1>1. lifecycle = "Running" /\ endpoint \in Endpoint
  BY DEF OnPairingStart, Serving, TypeOK
<1>2. PICK f \in HostList : call' = Ask("ListPath", f, endpoint)
  BY DEF OnPairingStart, HostList
<1>3. call' \in Call /\ call'.kind \notin Kind
  BY <1>1, <1>2 DEF Ask, Call, Kind
<1>4. ~poll'.running /\ poll'.answered = poll.answered
  BY DEF OnPairingStart, TypeOK, Poll
<1> QED
  BY <1>1, <1>3, <1>4, NothingAssumption DEF SessionServes, OnPairingStart, env

\* The answer of a write or of a step of a listing, which may go on.
LEMMA OtherReplyHosted ==
    ASSUME TypeOK, SafetyInv, HostedInv,
           (\E out \in {"ok", "invalid", "none"} : SetEnableReply(out)) \/ TableReply
    PROVE  /\ call # None /\ call.kind \notin Kind /\ lifecycle = "Running" /\ ~poll.running
           /\ UNCHANGED <<lifecycle, endpoint, shots, link, poll>>
           /\ call' = None \/ (call' # None /\ call'.kind \notin Kind)
<1>1. PICK kind, out : Reply(kind, out) /\ kind \notin Kind /\ UNCHANGED <<poll, shots, link>>
  BY DEF SetEnableReply, TableReply, ListPathReply, DocReply, CountReply, EntryReply,
         TableUnchanged, Kind
<1>2. call # None /\ call.kind \notin Kind /\ UNCHANGED <<lifecycle, endpoint>>
  BY <1>1, ReplyType DEF Reply
<1>3. lifecycle = "Running"
  BY <1>2 DEF SafetyInv, Quiet
<1>4. ~poll.running
  BY <1>2, <1>3 DEF SafetyInv, PollAlive, HostedInv
<1>5. call' = None \/ (call' # None /\ call'.kind \notin Kind)
  <2>1. call' = None \/ \E next \in {"Doc", "Count", "Entry"} : call' = Ask(next, None, endpoint)
    BY DEF SetEnableReply, TableReply, ListPathReply, DocReply, CountReply, EntryReply,
           Proceed, Complete
  <2>2. ASSUME NEW next \in {"Doc", "Count", "Entry"}, call' = Ask(next, None, endpoint)
        PROVE  call'.kind \notin Kind
    BY <2>2 DEF Ask, Kind
  <2> QED
    BY <2>1, <2>2
<1> QED
  BY <1>1, <1>2, <1>3, <1>4, <1>5

\* phi-core and the process.
LEMMA AwayHosted ==
    ASSUME TypeOK, HostedInv, Stop \/ Crash \/ OnDisconnected
    PROVE  /\ lifecycle' # "Running" /\ call' = None /\ shots' = 0
           /\ lifecycle' = "Idle" => ~poll'.answered
           /\ ~link'.armed /\ ~link'.connected
           /\ poll'.running => poll.running /\ UNCHANGED endpoint
<1>1. CASE Stop
  BY <1>1 DEF Stop, TypeOK, Link
<1>2. CASE Crash
  BY <1>2 DEF Crash, InitLink, Idle
<1>3. CASE OnDisconnected
  BY <1>3 DEF OnDisconnected, Paused, TypeOK, Link, Poll, HostedInv
<1> QED
  BY <1>1, <1>2, <1>3

LEMMA StartHosted ==
    ASSUME SafetyInv, Start
    PROVE  /\ lifecycle = "Idle" /\ lifecycle' = "Running" /\ link.misses = 0
           /\ call = None /\ ~poll.running
           /\ UNCHANGED <<endpoint, call, poll, shots, link>>
BY DEF Start, SafetyInv, Quiet, LinkInv, InitLink

LEMMA AsideHosted ==
    ASSUME \/ CoreGone \/ CoreBack \/ BoxSwitches \/ BoxGoesDown \/ BoxComesUp \/ SwitchThrown
           \/ \E m \in Mac : OnPairCandidate(m) \/ OnDeviceRemoved(m)
           \/ UNCHANGED vars
    PROVE  UNCHANGED <<lifecycle, endpoint, call, poll, shots, link>>
BY DEF CoreGone, CoreBack, BoxSwitches, BoxGoesDown, BoxComesUp, SwitchThrown, world,
       OnPairCandidate, OnDeviceRemoved, vars

\* Every step keeps it so.
LEMMA NextHosted ==
    ASSUME None \notin Configs, TypeOK, SafetyInv, HostedInv, [Next]_vars
    PROVE  HostedInv'
<1>1. CASE PollReply
  BY <1>1, PollReplyHosted DEF HostedInv, Outcome, NoteAnswer, NoteFailure
<1>2. CASE ShotFires
  BY <1>2 DEF ShotFires, HostedInv
<1>3. CASE TimerTick
  BY <1>3, TimerTickHosted DEF HostedInv, TimerTick
<1>4. CASE \E e \in Configs : OnConfigChanged(e)
  BY <1>4, OnConfigChangedHosted DEF HostedInv
<1>5. CASE \E k \in Cmd, b \in Band, on \in BOOLEAN : OnChannelInvoke(k, b, on)
  BY <1>5, OnChannelInvokeHosted DEF HostedInv, SessionServes
<1>6. CASE OnPairingStart
  BY <1>6, OnPairingStartHosted DEF HostedInv, SessionServes
<1>7. CASE (\E out \in {"ok", "invalid", "none"} : SetEnableReply(out)) \/ TableReply
  BY <1>7, OtherReplyHosted DEF HostedInv
<1>8. CASE Stop \/ Crash \/ OnDisconnected
  BY <1>8, AwayHosted DEF HostedInv
<1>9. CASE Start
  BY <1>9, StartHosted DEF HostedInv
<1>10. CASE \/ CoreGone \/ CoreBack \/ BoxSwitches \/ BoxGoesDown \/ BoxComesUp \/ SwitchThrown
            \/ \E m \in Mac : OnPairCandidate(m) \/ OnDeviceRemoved(m)
            \/ UNCHANGED vars
  BY <1>10, AsideHosted DEF HostedInv
<1> QED
  BY <1>1, <1>2, <1>3, <1>4, <1>5, <1>6, <1>7, <1>8, <1>9, <1>10 DEF Next

\* An instance that always has a host never has to give up a question.
THEOREM HostedInvariant ==
    ASSUME None \notin Configs
    PROVE  Spec => []HostedInv
<1>1. TypeOK /\ SafetyInv /\ HostedInv /\ [Next]_vars => HostedInv'
  BY NextHosted
<1> QED
  BY <1>1, InitHosted, TypeCorrect, SafetyInvariant, PTL DEF Spec

-----------------------------------------------------------------------------
(* The polls as cycles.                                                      *)

LEMMA InitCycle == Init => Poller!Init
BY DEF Init, InitLink, Poller!Init, PollPhase, PollHeard, PollMisses

\* Where the session is free, asking or serving.
LEMMA PhaseIs ==
    ASSUME TypeOK, HostedInv
    PROVE  /\ lifecycle # "Running" => PollPhase = "away" /\ PollHeard = FALSE
           /\ lifecycle = "Running" => PollHeard = poll.answered
           /\ lifecycle = "Running" /\ poll.running => PollPhase = "asking"
           /\ lifecycle = "Running" /\ ~poll.running /\ call = None => PollPhase = "idle"
           /\ lifecycle = "Running" /\ ~poll.running /\ call # None => PollPhase = "serving"
           /\ lifecycle = "Running" => PollMisses = link.misses
           /\ lifecycle # "Running" => PollMisses = 0
BY DEF PollPhase, PollHeard, PollMisses, HostedInv, TypeOK, Poll

\* What the poller sees of a step that changes nothing of these.
LEMMA Unseen ==
    ASSUME UNCHANGED <<lifecycle, call, poll, link>>
    PROVE  UNCHANGED Poller!vars
BY DEF Poller!vars, PollPhase, PollHeard, PollMisses

\* A poll that is answered, missed or goes on.
LEMMA PollReplyCycle ==
    ASSUME TypeOK, SafetyInv, HostedInv, HostedInv', PollReply
    PROVE  Poller!Next \/ UNCHANGED Poller!vars
<1>1. /\ lifecycle = "Running" /\ lifecycle' = "Running" /\ poll.running
      /\ PollPhase = "asking" /\ PollMisses = link.misses /\ PollMisses' = link'.misses
      /\ PollHeard = poll.answered
  BY PollReplyHosted, PhaseIs DEF PollMisses
<1>2. PICK p \in Poll : (poll.answered => p.answered) /\ Outcome(p)
  BY PollReplyHosted
<1> poll.answered \in BOOLEAN /\ p.answered \in BOOLEAN /\ PollHeard' = p.answered
  BY <1>1, <1>2 DEF TypeOK, Poll, PollHeard, Outcome
<1>3. CASE p.answered /\ ~poll'.running /\ call' = None /\ link' = NoteAnswer(link)
  <2>1. PollPhase' = "idle" /\ PollHeard' = TRUE
    BY <1>1, <1>3 DEF PollPhase
  <2>2. link'.misses = 0 /\ link'.connected = TRUE
    BY <1>3 DEF NoteAnswer, SetConnected, Arm, TypeOK, Link
  <2> QED
    BY <1>1, <2>1, <2>2 DEF Poller!Next, Poller!Answered
<1>4. CASE ~p.answered /\ ~poll'.running /\ call' = None /\ link' = NoteFailure(link)
  <2>1. PollPhase' = "idle" /\ ~PollHeard'
    BY <1>1, <1>4 DEF PollPhase
  <2>2. ~PollHeard
    BY <1>1, <1>2, <1>4
  <2>3. /\ link'.misses = IF link.misses < MaxMisses THEN link.misses + 1 ELSE link.misses
        /\ link'.connected = (link.connected /\ link'.misses < Strikes)
    <3>1. link \in Link /\ Honest(link)
      BY <1>1 DEF TypeOK, SafetyInv, LinkInv
    <3>2. link.misses \in 0 .. MaxMisses /\ MaxMisses \in Nat /\ Strikes \in Nat
          /\ link.connected \in BOOLEAN /\ Strikes <= MaxMisses
      BY <3>1, StrikesAssumption, DelaysAssumption DEF Link, MaxMisses
    <3>3. /\ Missed(link).misses = IF link.misses < MaxMisses THEN link.misses + 1 ELSE link.misses
          /\ Missed(link).connected = link.connected
      BY <3>1, <3>2 DEF Missed, Link
    <3>4. link'.misses = Missed(link).misses
      BY <1>4, <3>1, MissedType DEF NoteFailure, SetConnected, Arm, Link
    <3>5. CASE Missed(link).misses = Strikes
      <4>1. link'.connected = FALSE
        BY <1>4, <3>1, <3>5, MissedType DEF NoteFailure, SetConnected, Arm, Link
      <4>2. ~(link'.misses < Strikes)
        BY <3>2, <3>4, <3>5
      <4>3. link'.misses = IF link.misses < MaxMisses THEN link.misses + 1 ELSE link.misses
        BY <3>3, <3>4
      <4>4. link'.connected = (link.connected /\ link'.misses < Strikes)
        BY <4>1, <4>2, Zenon
      <4> QED
        BY <4>3, <4>4
    <3>6. CASE Missed(link).misses # Strikes
      <4>1. link'.connected = link.connected
        BY <1>4, <3>1, <3>3, <3>6, MissedType DEF NoteFailure, Arm, Link
      <4>2. link.connected => link'.misses < Strikes
        BY <3>1, <3>2, <3>3, <3>4, <3>6 DEF Honest
      <4> QED
        BY <3>2, <3>3, <3>4, <4>1, <4>2
    <3> QED
      BY <3>5, <3>6
  <2> QED
    BY <1>1, <2>1, <2>2, <2>3 DEF Poller!Next, Poller!Missed
<1>5. CASE poll'.running /\ link' = link
  <2>1. PollPhase' = "asking" /\ PollMisses' = PollMisses /\ link'.connected = link.connected
    BY <1>1, <1>5 DEF PollPhase
  <2>2. CASE p.answered
    <3>1. PollHeard' = TRUE
      BY <2>2
    <3> QED
      BY <1>1, <2>1, <3>1 DEF Poller!Next, Poller!Hear
  <2>3. CASE ~p.answered
    <3>1. PollHeard' = FALSE /\ PollHeard = FALSE
      BY <1>1, <1>2, <2>3
    <3> QED
      BY <1>1, <2>1, <3>1 DEF Poller!vars
  <2> QED
    BY <2>2, <2>3
<1> QED
  BY <1>2, <1>3, <1>4, <1>5 DEF Outcome

\* The first question of a poll.
LEMMA Begun ==
    ASSUME lifecycle' = "Running", poll'.running, ~poll'.answered
    PROVE  PollPhase' = "asking" /\ PollHeard' = FALSE
BY DEF PollPhase, PollHeard

LEMMA TimerTickCycle ==
    ASSUME TypeOK, HostedInv, TimerTick
    PROVE  Poller!Next \/ UNCHANGED Poller!vars
<1>1. CASE UNCHANGED <<call, poll>>
  BY <1>1, TimerTickHosted, Unseen
<1>2. CASE ~poll.running /\ call = None /\ poll'.running /\ ~poll'.answered
  <2>1. lifecycle = "Running" /\ lifecycle' = "Running" /\ link' = link
    BY TimerTickHosted
  <2>2. PollPhase = "idle" /\ PollPhase' = "asking" /\ PollHeard' = FALSE
    BY <1>2, <2>1, PhaseIs, Begun
  <2>3. PollMisses' = PollMisses
    BY <2>1 DEF PollMisses
  <2> QED
    BY <2>1, <2>2, <2>3 DEF Poller!Next, Poller!Begin
<1> QED
  BY <1>1, <1>2, TimerTickHosted

LEMMA OnConfigChangedCycle ==
    ASSUME TypeOK, SafetyInv, HostedInv, NEW e \in Configs, None \notin Configs, OnConfigChanged(e)
    PROVE  Poller!Next
<1>1. /\ lifecycle \in {"Running", "Paused"} /\ lifecycle' = "Running"
      /\ PollMisses' = 0 /\ link'.connected \in {link.connected, FALSE}
  BY OnConfigChangedHosted DEF PollMisses
<1>2. CASE (poll.running \/ call # None) /\ UNCHANGED <<call, poll>>
  <2>1. lifecycle = "Running"
    BY <1>1, <1>2 DEF SafetyInv, Quiet
  <2>2. PollPhase' = PollPhase /\ PollHeard' = PollHeard
    BY <1>1, <1>2, <2>1 DEF PollPhase, PollHeard
  <2> QED
    BY <1>1, <2>2 DEF Poller!Next, Poller!Configured
<1>3. CASE ~poll.running /\ call = None /\ poll'.running /\ ~poll'.answered
  <2>1. PollPhase \in {"away", "idle"}
    BY <1>1, <1>3, PhaseIs
  <2>2. PollPhase' = "asking" /\ PollHeard' = FALSE
    BY <1>1, <1>3, Begun
  <2> QED
    BY <1>1, <2>1, <2>2 DEF Poller!Next, Poller!Configured
<1> QED
  BY <1>2, <1>3, OnConfigChangedHosted

\* A user action that takes the session, from a poll or from another.
LEMMA ServesCycle ==
    ASSUME lifecycle = "Running", SessionServes
    PROVE  Poller!Next
<1>1. PollPhase' = "serving" /\ PollHeard' = PollHeard
  BY DEF SessionServes, PollPhase, PollHeard
<1>2. PollPhase # "away"
  BY DEF PollPhase
<1>3. PollMisses' = PollMisses /\ link'.connected = link.connected
  BY DEF SessionServes, PollMisses
<1> QED
  BY <1>1, <1>2, <1>3 DEF Poller!Next, Poller!Served

LEMMA OtherReplyCycle ==
    ASSUME TypeOK, SafetyInv, HostedInv, HostedInv',
           (\E out \in {"ok", "invalid", "none"} : SetEnableReply(out)) \/ TableReply
    PROVE  Poller!Next \/ UNCHANGED Poller!vars
<1>1. /\ PollPhase = "serving" /\ PollHeard' = PollHeard
      /\ PollMisses' = PollMisses /\ link'.connected = link.connected
  BY OtherReplyHosted DEF PollPhase, PollHeard, PollMisses
<1>2. PollPhase' \in {"idle", "serving"}
  BY OtherReplyHosted DEF PollPhase
<1>3. CASE PollPhase' = "idle"
  BY <1>1, <1>3 DEF Poller!Next, Poller!Released
<1>4. CASE PollPhase' = "serving"
  BY <1>1, <1>4 DEF Poller!vars
<1> QED
  BY <1>2, <1>3, <1>4

LEMMA LifecycleCycle ==
    ASSUME TypeOK, SafetyInv, HostedInv, Start \/ Stop \/ Crash \/ OnDisconnected
    PROVE  Poller!Next
<1>1. CASE Stop \/ Crash \/ OnDisconnected
  <2>1. lifecycle' # "Running" /\ ~link'.connected /\ link' \in Link
    BY <1>1, AwayHosted, LifecycleType DEF TypeOK
  <2>2. PollPhase' = "away" /\ PollHeard' = FALSE /\ PollMisses' = 0
    BY <2>1 DEF PollPhase, PollHeard, PollMisses
  <2>3. link'.connected = FALSE
    BY <2>1 DEF Link
  <2> QED
    BY <2>2, <2>3 DEF Poller!Next, Poller!Paused
<1>2. CASE Start
  <2>1. PollPhase = "away" /\ PollPhase' = "idle" /\ PollHeard' = PollHeard
    BY <1>2, StartHosted DEF PollPhase, PollHeard, HostedInv
  <2>2. PollMisses' = PollMisses /\ link'.connected = link.connected
    BY <1>2, StartHosted DEF PollMisses
  <2> QED
    BY <2>1, <2>2 DEF Poller!Next, Poller!Started
<1> QED
  BY <1>1, <1>2

\* Every step of the instance is a step of the cycle or none that it sees.
LEMMA NextCycle ==
    ASSUME None \notin Configs, TypeOK, SafetyInv, HostedInv, HostedInv', [Next]_vars
    PROVE  Poller!Next \/ UNCHANGED Poller!vars
<1>1. CASE PollReply
  BY <1>1, PollReplyCycle
<1>2. CASE ShotFires
  BY <1>2 DEF ShotFires, HostedInv
<1>3. CASE TimerTick
  BY <1>3, TimerTickCycle
<1>4. CASE \E e \in Configs : OnConfigChanged(e)
  BY <1>4, OnConfigChangedCycle
<1>5. CASE \E k \in Cmd, b \in Band, on \in BOOLEAN : OnChannelInvoke(k, b, on)
  BY <1>5, OnChannelInvokeHosted, ServesCycle, Unseen
<1>6. CASE OnPairingStart
  BY <1>6, OnPairingStartHosted, ServesCycle
<1>7. CASE (\E out \in {"ok", "invalid", "none"} : SetEnableReply(out)) \/ TableReply
  BY <1>7, OtherReplyCycle
<1>8. CASE Start \/ Stop \/ Crash \/ OnDisconnected
  BY <1>8, LifecycleCycle
<1>9. CASE \/ CoreGone \/ CoreBack \/ BoxSwitches \/ BoxGoesDown \/ BoxComesUp \/ SwitchThrown
           \/ \E m \in Mac : OnPairCandidate(m) \/ OnDeviceRemoved(m)
           \/ UNCHANGED vars
  BY <1>9, AsideHosted, Unseen
<1> QED
  BY <1>1, <1>2, <1>3, <1>4, <1>5, <1>6, <1>7, <1>8, <1>9 DEF Next

\* The instance implements the poll cycle as long as it has a host: connectivity
\* changes only with the outcome of a whole poll, a configuration or a pause,
\* whatever cancels polls and whatever answers are lost.
THEOREM PollCycleTheorem ==
    ASSUME None \notin Configs
    PROVE  Spec => PollCycleImplemented
<1>1. Init => Poller!Init
  BY InitCycle
<1>2. TypeOK /\ SafetyInv /\ HostedInv /\ HostedInv' /\ [Next]_vars
      => [Poller!Next]_(Poller!vars)
  BY NextCycle
<1> QED
  BY <1>1, <1>2, HostedInvariant, TypeCorrect, SafetyInvariant, PTL
     DEF Spec, PollCycleImplemented, Poller!Spec

-----------------------------------------------------------------------------
(* The clients of an instance that always has a host and whose picks stay as *)
(* they are: the away delay never starts for a client that is on the network,*)
(* whatever answers are lost and whatever cancels the polls and the listings.*)

\* A configuration brings the picks of the meta, and only a new process is
\* without them.
TrackedAsConfigured == tracker.tracked = IF endpoint = None THEN {} ELSE core.meta

\* A client is seen by a poll, still to be asked for, or asked for just now.
HostStep(m) == [kind |-> "Host", arg |-> m]
InSight(p, m) == m \in p.seen \/ HostStep(m) \in p.todo
AskedFor(m) == call # None /\ call.kind = "Host" /\ call.arg = m

\* A running poll misses no tracked client that is on the network, unless it
\* knows that one of its answers is missing.
PollCovers ==
    lifecycle = "Running" /\ poll.running /\ poll.complete =>
        \A m \in tracker.tracked \ Leavers : InSight(poll, m) \/ AskedFor(m)

\* Nor does a listing that goes through the table entry by entry.
TableCovers ==
    call # None /\ call.kind = "Entry" /\ table.complete =>
        Mac \ Leavers \subseteq table.rest \cup table.seen

ClientInv == NeverAway /\ TrackedAsConfigured /\ PollCovers /\ TableCovers

LEMMA InitClients == Init => ClientInv
BY DEF Init, ClientInv, NeverAway, TrackedAsConfigured, PollCovers, TableCovers, Idle

\* A snapshot with everybody who is on the network starts no other delay.
LEMMA SightedAll ==
    ASSUME NEW t \in Tracker, NEW seen \in SUBSET Mac, t.tracked \ Leavers \subseteq seen
    PROVE  Sighted(t, seen).leaving \subseteq Leavers /\ Sighted(t, seen).tracked = t.tracked
BY DEF Sighted, Tracker

-----------------------------------------------------------------------------
(* The steps of a poll.                                                      *)

\* The end of a poll is a snapshot only when every answer came, and the next
\* question is about the client that leaves the steps.
LEMMA RunStepClients ==
    ASSUME TypeOK, NeverAway, endpoint # None, NEW p \in Poll, NEW s, NEW c,
           p.complete => \A m \in tracker.tracked \ Leavers : InSight(p, m),
           RunStep(None, shots, p, s, c)
    PROVE  NeverAway' /\ PollCovers' /\ tracker'.tracked = tracker.tracked
<1> DEFINE due == Due(p.todo, cap')
<1>0. tracker \in Tracker /\ p.seen \subseteq Mac
  BY DEF TypeOK, Poll
<1>1. due \subseteq Step
  BY DEF Due, Poll
<1>2. \A m \in Mac : HostStep(m) \in p.todo => HostStep(m) \in due
  BY DEF Due, HostStep, Update
<1>3. CASE due = {} /\ FinishPoll(p, s, c)
  <2>1. p.complete => tracker.tracked \ Leavers \subseteq p.seen
    BY <1>0, <1>2, <1>3 DEF InSight, Tracker
  <2>2. tracker' = tracker \/ (p.complete /\ tracker' = Sighted(tracker, p.seen))
    BY <1>3 DEF FinishPoll
  <2>3. NeverAway' /\ tracker'.tracked = tracker.tracked
    BY <1>0, <2>1, <2>2, SightedAll DEF NeverAway
  <2>4. ~poll'.running
    BY <1>3 DEF FinishPoll, Poll
  <2> QED
    BY <2>3, <2>4 DEF PollCovers
<1>4. ASSUME NEW step \in due, poll' = [p EXCEPT !.todo = Advanced(due, step)],
             call' = Question(step, cap', endpoint), tracker' = tracker
      PROVE  NeverAway' /\ PollCovers' /\ tracker'.tracked = tracker.tracked
  <2>1. /\ poll'.todo = due \ {step} /\ poll'.seen = p.seen
        /\ poll'.complete = p.complete
    BY <1>4 DEF Advanced, Poll
  <2>2. ASSUME NEW m \in Mac, step = HostStep(m)
        PROVE  call' # None /\ call'.kind = "Host" /\ call'.arg = m
    <3>1. endpoint \in Endpoint /\ step \in Step
      BY <1>1 DEF TypeOK
    <3>2. call' # None
      BY <1>4, <3>1, QuestionKind
    <3>3. call' = Ask("Host", m, endpoint)
      BY <1>4, <2>2 DEF Question, HostStep, Update
    <3> QED
      BY <3>2, <3>3 DEF Ask
  <2>3. ASSUME p.complete, NEW m \in tracker.tracked \ Leavers
        PROVE  InSight(poll', m) \/ AskedFor(m)'
    <3>1. m \in Mac /\ InSight(p, m)
      BY <1>0, <2>3 DEF Tracker
    <3> QED
      BY <1>2, <2>1, <2>2, <3>1 DEF InSight, AskedFor
  <2> QED
    BY <1>4, <2>1, <2>3 DEF NeverAway, PollCovers, InSight, AskedFor
<1> QED
  BY <1>3, <1>4 DEF RunStep

\* An answer about a client that is on the network says that it is there, or
\* does not come.
LEMMA PollReplyClients ==
    ASSUME TypeOK, SafetyInv, HostedInv, ClientInv, PollReply
    PROVE  NeverAway' /\ PollCovers' /\ tracker'.tracked = tracker.tracked
<1>1. PICK out \in {"ok", "invalid", "fault", "none"} :
        InfoReply(out) \/ HostReply(out) \/ BytesReply(out) \/ WlanReply(out) \/ UpdateReply(out)
  BY DEF PollReply
<1>2. PICK kind \in Kind : Reply(kind, out)
  BY <1>1 DEF InfoReply, HostReply, BytesReply, WlanReply, UpdateReply, Kind
<1>3. call \in Call /\ lifecycle = "Running" /\ poll.running /\ endpoint # None
  BY <1>2, ReplyType DEF Reply, SafetyInv, Quiet, HostedInv
<1> DEFINE q == Answered(out)
<1>4. /\ q \in Poll /\ q.todo = poll.todo /\ q.seen = poll.seen
      /\ q.complete = poll.complete
  BY AnsweredType DEF Answered, TypeOK, Poll
<1>5. ASSUME call.kind # "Host", q.complete, NEW m \in tracker.tracked \ Leavers
      PROVE  InSight(q, m)
  BY <1>3, <1>4, <1>5 DEF ClientInv, PollCovers, InSight, AskedFor
<1> HIDE DEF q
<1>6. \E p \in Poll : /\ p.complete => \A m \in tracker.tracked \ Leavers : InSight(p, m)
                      /\ \E ch, v : Continue(p, ch, v)
  <2>1. CASE InfoReply(out)
    BY <1>4, <1>5, <2>1 DEF InfoReply, Reply, q
  <2>2. CASE HostReply(out)
    <3>1. call.kind = "Host" /\ call.arg \in Mac /\ out \in Answers(call)
      BY <1>3, <2>2 DEF HostReply, Reply, Call
    <3> DEFINE p == Heard(q, call.arg, out)
    <3>2. /\ p \in Poll /\ p.todo = poll.todo
          /\ p.seen = IF out = "ok" THEN poll.seen \cup {call.arg} ELSE poll.seen
          /\ p.complete = (poll.complete /\ out # "none")
      BY <1>4, <3>1 DEF Heard, Poll
    <3>3. Implemented(call)
      BY <3>1 DEF Implemented, Needs
    <3>4. call.arg \notin Leavers => out \in {"ok", "none"}
      BY <3>1, <3>3 DEF Answers
    <3>5. Continue(p, "uptime", None)
      BY <2>2 DEF HostReply, q
    <3> HIDE DEF p
    <3>6. ASSUME p.complete, NEW m \in tracker.tracked \ Leavers
          PROVE  InSight(p, m)
      <4>1. InSight(poll, m) \/ m = call.arg
        BY <1>3, <3>2, <3>6 DEF ClientInv, PollCovers, AskedFor
      <4> QED
        BY <3>2, <3>4, <3>6, <4>1 DEF InSight
    <3> QED
      BY <3>2, <3>5, <3>6
  <2>3. CASE BytesReply(out)
    BY <1>4, <1>5, <2>3 DEF BytesReply, Reply, q
  <2>4. CASE WlanReply(out)
    BY <1>4, <1>5, <2>4 DEF WlanReply, Reply, q
  <2>5. CASE UpdateReply(out)
    <3> DEFINE r == [q EXCEPT !.todo = @ \cup {Update}]
    <3>1. /\ r \in Poll /\ r.seen = q.seen /\ r.complete = q.complete
          /\ q.todo \subseteq r.todo
      BY <1>4 DEF Poll, Step
    <3>2. ASSUME NEW m, InSight(q, m) PROVE InSight(r, m)
      BY <3>1, <3>2 DEF InSight
    <3>3. call.kind = "Update"
      BY <2>5 DEF UpdateReply, Reply
    <3>4. (\E ch, v : Continue(q, ch, v)) \/ (\E ch, v : Continue(r, ch, v))
      BY <2>5 DEF UpdateReply, q
    <3> HIDE DEF r
    <3> QED
      BY <1>4, <1>5, <3>1, <3>2, <3>3, <3>4
  <2> QED
    BY <1>1, <2>1, <2>2, <2>3, <2>4, <2>5
<1>7. PICK p \in Poll : /\ p.complete => \A m \in tracker.tracked \ Leavers : InSight(p, m)
                        /\ \E s, c : RunStep(None, shots, p, s, c)
  BY <1>6 DEF Continue
<1> QED
  BY <1>3, <1>7, RunStepClients DEF ClientInv

-----------------------------------------------------------------------------
(* The listing.                                                              *)

\* The document, and the count with its entries, miss nobody who is on the
\* network either, or the table is not complete.
LEMMA TableReplyClients ==
    ASSUME TypeOK, ClientInv, TableReply
    PROVE  NeverAway' /\ TableCovers' /\ tracker'.tracked = tracker.tracked
<1>1. PICK out \in {"ok", "invalid", "none"} :
        ListPathReply(out) \/ DocReply(out) \/ CountReply(out) \/ EntryReply(out)
  BY DEF TableReply
<1>0. tracker \in Tracker /\ tracker.leaving \subseteq Leavers /\ tracker.tracked \subseteq Mac
      /\ table \in Table
  BY DEF TypeOK, ClientInv, NeverAway, Tracker
<1>a. ASSUME NEW hosts \in SUBSET Mac, NEW complete, Complete(hosts, complete),
             complete => Mac \ Leavers \subseteq hosts
      PROVE  NeverAway' /\ TableCovers' /\ tracker'.tracked = tracker.tracked
  <2>1. complete => /\ Sighted(tracker, hosts).leaving \subseteq Leavers
                    /\ Sighted(tracker, hosts).tracked = tracker.tracked
    BY <1>0, <1>a, SightedAll
  <2> QED
    BY <1>0, <1>a, <2>1 DEF Complete, NeverAway, TableCovers
<1>b. ASSUME NEW kind \in {"Doc", "Count"}, Proceed(kind, None), tracker' = tracker
      PROVE  NeverAway' /\ TableCovers' /\ tracker'.tracked = tracker.tracked
  BY <1>0, <1>b DEF Proceed, Ask, NeverAway, TableCovers
<1>c. ASSUME table'.complete => Mac \ Leavers \subseteq table'.rest \cup table'.seen,
             tracker' = tracker
      PROVE  NeverAway' /\ TableCovers' /\ tracker'.tracked = tracker.tracked
  BY <1>0, <1>c DEF NeverAway, TableCovers
<1>2. CASE ListPathReply(out)
  BY <1>2, <1>b DEF ListPathReply
<1>3. CASE DocReply(out)
  BY <1>3, <1>a, <1>b DEF DocReply, Hosts
<1>4. CASE CountReply(out)
  <2>1. PICK hosts \in SUBSET Mac :
          /\ out = "ok" => Mac \ Leavers \subseteq hosts
          /\ table' = [rest |-> hosts, seen |-> {}, complete |-> out = "ok"]
          /\ \/ hosts = {} /\ Complete({}, out = "ok")
             \/ tracker' = tracker
    BY <1>4 DEF CountReply, Hosts
  <2>2. CASE hosts = {} /\ Complete({}, out = "ok")
    BY <1>a, <2>1, <2>2
  <2>3. CASE tracker' = tracker
    BY <1>c, <2>1, <2>3
  <2> QED
    BY <2>1, <2>2, <2>3
<1>5. CASE EntryReply(out)
  <2>0. call # None /\ call.kind = "Entry"
    BY <1>5 DEF EntryReply, Reply
  <2>1. PICK m \in table.rest :
          LET seen == IF out = "ok" THEN table.seen \cup {m} ELSE table.seen
              complete == table.complete /\ out = "ok"
              rest == table.rest \ {m}
          IN  /\ table' = [rest |-> rest, seen |-> seen, complete |-> complete]
              /\ IF rest = {} THEN Complete(seen, complete)
                 ELSE Proceed("Entry", None) /\ UNCHANGED tracker
    BY <1>5 DEF EntryReply
  <2> DEFINE seen == IF out = "ok" THEN table.seen \cup {m} ELSE table.seen
  <2> DEFINE complete == table.complete /\ out = "ok"
  <2> DEFINE rest == table.rest \ {m}
  <2>2. seen \in SUBSET Mac
    BY <1>0 DEF Table
  <2>3. complete => Mac \ Leavers \subseteq rest \cup seen
    BY <2>0 DEF ClientInv, TableCovers
  <2>4. table' = [rest |-> rest, seen |-> seen, complete |-> complete]
    BY <2>1
  <2>5. \/ rest = {} /\ Complete(seen, complete)
        \/ tracker' = tracker
    BY <2>1
  <2> HIDE DEF seen, complete, rest
  <2>6. CASE rest = {} /\ Complete(seen, complete)
    BY <1>a, <2>2, <2>3, <2>6
  <2>7. CASE tracker' = tracker
    BY <1>c, <2>3, <2>4, <2>7
  <2> QED
    BY <2>5, <2>6, <2>7
<1> QED
  BY <1>1, <1>2, <1>3, <1>4, <1>5

-----------------------------------------------------------------------------
(* The other steps.                                                          *)

\* Where no poll takes a step: the clients stay as they are, and so does what
\* runs, or a poll that is about to begin has everybody among its steps.
LEMMA ElsewhereClients ==
    ASSUME ClientInv, UNCHANGED <<tracker, table>>,
           core'.meta = core.meta, endpoint' = endpoint,
           call' = call \/ (call' # None => call'.kind # "Entry"),
           \/ lifecycle' # "Running"
           \/ ~poll'.running
           \/ UNCHANGED <<lifecycle, call, poll>>
    PROVE  ClientInv'
BY DEF ClientInv, NeverAway, TrackedAsConfigured, PollCovers, InSight, AskedFor, TableCovers

\* beginPoll() asks for every tracked client.
LEMMA BeginPollClients ==
    ASSUME TypeOK, HostedInv, SafetyInv, ClientInv, NEW l, NEW n, endpoint' \in Endpoint,
           tracker'.tracked = tracker.tracked \/ ~poll.running,
           lifecycle = "Running" \/ ~poll.running, BeginPoll(l, n)
    PROVE  /\ PollCovers'
           /\ call' = call \/ call'.kind # "Entry"
<1>1. CASE UNCHANGED <<call, poll>>
  BY <1>1 DEF ClientInv, PollCovers, InSight, AskedFor
<1>2. CASE /\ poll' = [Idle EXCEPT !.running = TRUE,
                                   !.todo = Steps(cap', tracker'.tracked, Slow(n))]
           /\ call' = Ask("Info", None, endpoint')
  <2>1. \A m \in tracker'.tracked : HostStep(m) \in poll'.todo
    BY <1>2 DEF Steps, HostStep, Idle
  <2> QED
    BY <1>2, <2>1 DEF PollCovers, InSight, Ask
<1> QED
  BY <1>1, <1>2, NoneAssumption DEF BeginPoll

LEMMA OnConfigChangedClients ==
    ASSUME TypeOK, SafetyInv, HostedInv, ClientInv, None \notin Configs,
           NEW e \in Configs, OnConfigChanged(e)
    PROVE  ClientInv'
<1>1. endpoint' = e /\ e \in Endpoint /\ e # None
  BY ConfigAssumption, NoneAssumption DEF OnConfigChanged
<1>2. /\ tracker'.tracked = core.meta /\ core'.meta = core.meta
      /\ tracker'.leaving \subseteq tracker.leaving
      /\ table' = table
  BY DEF OnConfigChanged, SetTracked, TypeOK, Tracker
<1>3. poll.running => tracker.tracked = core.meta
  BY DEF HostedInv, ClientInv, TrackedAsConfigured
<1>4. lifecycle = "Running" \/ ~poll.running
  BY DEF OnConfigChanged, SafetyInv, Quiet
<1>5. PICK l, n : BeginPoll(l, n)
  BY DEF OnConfigChanged
<1>6. PollCovers' /\ (call' = call \/ call'.kind # "Entry")
  BY <1>1, <1>2, <1>3, <1>4, <1>5, BeginPollClients
<1> QED
  BY <1>1, <1>2, <1>6 DEF ClientInv, NeverAway, TrackedAsConfigured, TableCovers

\* phi-core and the process.
LEMMA LifecycleClients ==
    ASSUME TypeOK, SafetyInv, HostedInv, ClientInv,
           Start \/ Stop \/ Crash \/ OnDisconnected \/ CoreGone \/ CoreBack
    PROVE  ClientInv'
<1>1. CASE Crash
  BY <1>1 DEF Crash, Idle, ClientInv, NeverAway, TrackedAsConfigured, PollCovers,
              TableCovers, TypeOK, Tracker
<1>2. CASE Start
  <2>1. ~poll'.running
    BY <1>2, StartHosted
  <2> QED
    BY <1>2, <2>1, ElsewhereClients DEF Start
<1>3. CASE CoreGone
  BY <1>3, ElsewhereClients DEF CoreGone, TypeOK, Core
<1> QED
  BY <1>1, <1>2, <1>3, ElsewhereClients DEF Stop, OnDisconnected, CoreBack

\* A write and a listing that take the session.
LEMMA SessionTakenClients ==
    ASSUME TypeOK, ClientInv, NEW k, NEW b, NEW on,
           OnChannelInvoke(k, b, on) \/ OnPairingStart
    PROVE  ClientInv'
<1>1. UNCHANGED <<tracker, table, core, endpoint, lifecycle>>
  BY DEF OnChannelInvoke, OnPairingStart, env
<1>2. \/ UNCHANGED <<call, poll>>
      \/ /\ call'.kind \in {"SetEnable", "ListPath"}
         /\ poll' = [poll EXCEPT !.running = FALSE]
  BY DEF OnChannelInvoke, OnPairingStart, Ask
<1>3. [poll EXCEPT !.running = FALSE].running = FALSE
  BY DEF TypeOK, Poll
<1> QED
  BY <1>1, <1>2, <1>3, ElsewhereClients

\* Every step keeps it so.
LEMMA NextClients ==
    ASSUME None \notin Configs, "pick" \notin Disturbances,
           TypeOK, SafetyInv, HostedInv, ClientInv, [Next]_vars
    PROVE  ClientInv'
<1>1. CASE PollReply
  <2>1. NeverAway' /\ PollCovers' /\ tracker'.tracked = tracker.tracked
    BY <1>1, PollReplyClients
  <2>2. core'.meta = core.meta /\ endpoint' = endpoint
    BY <1>1, PollReplyKept, PollReplyHosted DEF Kept
  <2>3. call' # None => call'.kind # "Entry"
    BY <1>1, PollReplyHosted DEF Outcome, Kind
  <2> QED
    BY <2>1, <2>2, <2>3 DEF ClientInv, TrackedAsConfigured, TableCovers
<1>2. CASE ShotFires
  BY <1>2 DEF ShotFires, HostedInv
<1>3. CASE TimerTick
  <2>1. endpoint' \in Endpoint
    BY <1>3 DEF TimerTick, HostedInv, TypeOK
  <2>2. PollCovers' /\ (call' = call \/ call'.kind # "Entry")
    BY <1>3, <2>1, BeginPollClients DEF TimerTick
  <2> QED
    BY <1>3, <2>2 DEF TimerTick, ClientInv, NeverAway, TrackedAsConfigured, TableCovers
<1>4. CASE \E e \in Configs : OnConfigChanged(e)
  BY <1>4, OnConfigChangedClients
<1>5. CASE \E k \in Cmd, b \in Band, on \in BOOLEAN : OnChannelInvoke(k, b, on)
  BY <1>5, SessionTakenClients
<1>6. CASE OnPairingStart
  BY <1>6, SessionTakenClients
<1>7. CASE \E out \in {"ok", "invalid", "none"} : SetEnableReply(out)
  <2>0. core \in Core
    BY DEF TypeOK
  <2>1. core'.meta = core.meta
    BY <1>7, <2>0, MetaKept DEF SetEnableReply
  <2>2. UNCHANGED <<tracker, table, endpoint>> /\ call' = None
    BY <1>7 DEF SetEnableReply, Reply
  <2>3. ~poll'.running
    BY <1>7, OtherReplyHosted
  <2> QED
    BY <2>1, <2>2, <2>3, ElsewhereClients
<1>8. CASE TableReply
  <2>1. NeverAway' /\ TableCovers' /\ tracker'.tracked = tracker.tracked
    BY <1>8, TableReplyClients
  <2>2. core' = core
    BY <1>8 DEF TableReply, ListPathReply, DocReply, CountReply, EntryReply, TableUnchanged
  <2>3. endpoint' = endpoint /\ ~poll'.running
    BY <1>8, OtherReplyHosted
  <2> QED
    BY <2>1, <2>2, <2>3 DEF ClientInv, TrackedAsConfigured, PollCovers
<1>9. CASE Start \/ Stop \/ Crash \/ OnDisconnected \/ CoreGone \/ CoreBack
  BY <1>9, LifecycleClients
<1>10. CASE \E m \in Mac : OnPairCandidate(m) \/ OnDeviceRemoved(m)
  BY <1>10 DEF OnPairCandidate, OnDeviceRemoved, Spend
<1>11. CASE BoxSwitches \/ BoxGoesDown \/ BoxComesUp \/ SwitchThrown \/ UNCHANGED vars
  BY <1>11, ElsewhereClients DEF BoxSwitches, BoxGoesDown, BoxComesUp, SwitchThrown, world, vars
<1> QED
  BY <1>1, <1>2, <1>3, <1>4, <1>5, <1>6, <1>7, <1>8, <1>9, <1>10, <1>11 DEF Next

\* The away delay never starts for a client that has not left the network,
\* however many answers are lost (stepHost, completeHostTable, finishPoll), as
\* long as there is a host and nobody picks clients during a poll.
THEOREM NeverAwayTheorem ==
    ASSUME None \notin Configs, "pick" \notin Disturbances
    PROVE  Spec => []NeverAway
<1>1. TypeOK /\ SafetyInv /\ HostedInv /\ ClientInv /\ [Next]_vars => ClientInv'
  BY NextClients
<1>2. ClientInv => NeverAway
  BY DEF ClientInv
<1> QED
  BY <1>1, <1>2, InitClients, TypeCorrect, SafetyInvariant, HostedInvariant, PTL DEF Spec
=============================================================================
