------------------------- MODULE FritzTruth_proofs --------------------------
(* What the adapter holds to be true is true, for every value of the         *)
(* constants: of the box what was learned, and of phi-core what was reported.*)
EXTENDS FritzHosted_proofs

-----------------------------------------------------------------------------
(* What is known of the box.                                                 *)

TrueOf(c, b) ==
    \A f \in Feature :
        /\ c[f] = "Present" => f \in Implements[b]
        /\ c[f] = "Absent" => f \notin Implements[b]

\* An instance that has only ever had the box b asks nobody else, and what
\* router.json keeps is of b as well.
OneBox(b) ==
    /\ endpoint \in {b, None}
    /\ call # None => call.to = b
    /\ TrueOf(cap, b)
    /\ saved.present \subseteq Implements[b]

LEMMA InitOneBox ==
    ASSUME NEW b, Init
    PROVE  OneBox(b)
BY DEF Init, OneBox, TrueOf

\* Forgetting is never wrong, and neither is restoring what was true.
LEMMA TrueTable ==
    ASSUME NEW b, NEW c \in [Feature -> Availability], NEW mask, mask \subseteq Implements[b]
    PROVE  /\ TrueOf(Forget(c), b)
           /\ TrueOf(c, b) => TrueOf(RestorePresent(c, mask), b)
           /\ TrueOf(c, b) => PresentMask(c) \subseteq Implements[b]
BY DEF TrueOf, Forget, RestorePresent, PresentMask, Availability

\* What an answer says of the feature the question needs.
LEMMA TrueLearn ==
    ASSUME TypeOK, NEW b, OneBox(b), NEW kind, NEW out, Reply(kind, out), NEW f \in Feature,
           Implemented(call) <=> f \in Implements[b], Learn(f, out)
    PROVE  TrueOf(cap', b)
<1>1. (out = "ok" => Implemented(call)) /\ (out = "invalid" => ~Implemented(call))
  BY DEF Reply, Answers
<1>2. CASE out = "ok"
  BY <1>1, <1>2 DEF Learn, MarkPresent, TrueOf, OneBox, TypeOK
<1>3. CASE out = "invalid"
  BY <1>1, <1>3 DEF Learn, MarkAbsent, TrueOf, OneBox, TypeOK
<1>4. CASE out \notin {"ok", "invalid"}
  BY <1>4 DEF Learn, OneBox
<1> QED
  BY <1>2, <1>3, <1>4

\* The questions that need a feature.
LEMMA ImplementedIs ==
    ASSUME NEW b, call # None, call.to = b
    PROVE  /\ call.kind \in {"Wlan", "Update", "ListPath"} =>
                 (Implemented(call) <=> call.arg \in Implements[b])
           /\ call.kind = "Bytes" => (Implemented(call) <=> "ByteCounters" \in Implements[b])
<1>1. CASE call.kind \in {"Wlan", "Update", "ListPath"}
  BY <1>1 DEF Implemented, Needs
<1>2. CASE call.kind = "Bytes"
  BY <1>2 DEF Implemented, Needs
<1> QED
  BY <1>1, <1>2

\* runStep() asks the endpoint, and saves what is known.
LEMMA RunStepOneBox ==
    ASSUME TypeOK, NEW b, OneBox(b), TrueOf(cap', b), cap' \in [Feature -> Availability],
           NEW busy, busy # None => busy.to = b,
           NEW left, NEW p, NEW s, NEW c, RunStep(busy, left, p, s, c)
    PROVE  (call' # None => call'.to = b) /\ saved'.present \subseteq Implements[b]
<1>1. ASSUME FinishPoll(p, s, c), call' = busy
      PROVE  saved'.present \subseteq Implements[b]
  <2>1. PresentMask(cap') \subseteq Implements[b]
    BY TrueTable
  <2>2. saved' = saved \/ saved' = [box |-> endpoint, present |-> PresentMask(cap')]
    BY <1>1 DEF FinishPoll, SavedAnnounced
  <2> QED
    BY <2>1, <2>2 DEF OneBox
<1>2. ASSUME NEW step, endpoint # None, call' = Question(step, cap', endpoint)
      PROVE  call'.to = b
  <2>1. endpoint = b
    BY <1>2 DEF OneBox
  <2> QED
    BY <1>2, <2>1 DEF Question, Ask
<1>3. CASE FinishPoll(p, s, c) /\ call' = busy
  BY <1>1, <1>3
<1>4. CASE UNCHANGED saved /\ \E step \in Due(p.todo, cap') :
             \/ endpoint # None /\ call' = Question(step, cap', endpoint)
             \/ call' = busy
  BY <1>2, <1>4 DEF OneBox
<1> QED
  BY <1>3, <1>4 DEF RunStep

LEMMA PollReplyOneBox ==
    ASSUME TypeOK, NEW b \in Endpoint, OneBox(b), PollReply
    PROVE  OneBox(b)'
<1>1. PICK out \in {"ok", "invalid", "fault", "none"} :
        InfoReply(out) \/ HostReply(out) \/ BytesReply(out) \/ WlanReply(out) \/ UpdateReply(out)
  BY DEF PollReply
<1>2. PICK kind : Reply(kind, out)
  BY <1>1 DEF InfoReply, HostReply, BytesReply, WlanReply, UpdateReply
<1>3. call # None /\ call.to = b /\ call \in Call /\ UNCHANGED endpoint
  BY <1>2, ReplyType DEF OneBox, Reply
<1>4. TrueOf(cap', b)
  <2>1. CASE InfoReply(out) \/ HostReply(out)
    BY <2>1 DEF InfoReply, HostReply, OneBox
  <2>2. CASE BytesReply(out)
    BY <1>3, <2>2, ImplementedIs, TrueLearn DEF BytesReply, Reply, Feature
  <2>3. CASE WlanReply(out)
    <3>1. Reply("Wlan", out) /\ Learn(call.arg, out) /\ call.kind = "Wlan"
      BY <2>3 DEF WlanReply, Reply
    <3>2. call.arg \in Feature
      BY <1>3, <3>1 DEF Call, Feature
    <3> QED
      BY <1>3, <3>1, <3>2, ImplementedIs, TrueLearn
  <2>4. CASE UpdateReply(out)
    <3>1. Reply("Update", out) /\ Learn(call.arg, out) /\ call.kind = "Update"
      BY <2>4 DEF UpdateReply, Reply
    <3>2. call.arg \in Feature
      BY <1>3, <3>1 DEF Call, Feature
    <3> QED
      BY <1>3, <3>1, <3>2, ImplementedIs, TrueLearn
  <2> QED
    BY <1>1, <2>1, <2>2, <2>3, <2>4
<1>5. cap' \in [Feature -> Availability]
  BY PollReplyType DEF TypeOK
<1>6. PICK p, s, c : RunStep(None, shots, p, s, c)
  <2>1. \E p, ch, v : Continue(p, ch, v)
    BY <1>1 DEF InfoReply, HostReply, BytesReply, WlanReply, UpdateReply
  <2> QED
    BY <2>1 DEF Continue
<1>7. (call' # None => call'.to = b) /\ saved'.present \subseteq Implements[b]
  BY <1>4, <1>5, <1>6, RunStepOneBox
<1> QED
  BY <1>3, <1>4, <1>7 DEF OneBox

LEMMA ShotFiresOneBox ==
    ASSUME TypeOK, NEW b, OneBox(b), ShotFires
    PROVE  OneBox(b)'
<1>1. UNCHANGED <<endpoint, cap>> /\ TrueOf(cap', b) /\ cap' \in [Feature -> Availability]
  BY DEF ShotFires, OneBox, TypeOK
<1>2. CASE RunStep(call, shots - 1, poll, said, core)
  <2>1. call # None => call.to = b
    BY DEF OneBox
  <2>2. (call' # None => call'.to = b) /\ saved'.present \subseteq Implements[b]
    BY <1>1, <1>2, <2>1, RunStepOneBox
  <2> QED
    BY <1>1, <2>2 DEF OneBox
<1>3. CASE UNCHANGED <<call, saved>>
  BY <1>1, <1>3 DEF OneBox
<1> QED
  BY <1>2, <1>3 DEF ShotFires

\* beginPoll() asks the endpoint.
LEMMA BeginPollOneBox ==
    ASSUME NEW b, OneBox(b), endpoint' \in {b, None}, NEW l, NEW n, BeginPoll(l, n)
    PROVE  call' # None => call'.to = b
BY DEF BeginPoll, OneBox, Ask

LEMMA OnConfigChangedOneBox ==
    ASSUME TypeOK, NEW b, OneBox(b), NEW e \in {b, None}, OnConfigChanged(e)
    PROVE  OneBox(b)'
<1>1. endpoint' = e /\ UNCHANGED saved
  BY DEF OnConfigChanged
<1>2. call' # None => call'.to = b
  BY <1>1, BeginPollOneBox DEF OnConfigChanged
<1>3. TrueOf(cap', b)
  <2> DEFINE mask == IF saved.box = e THEN saved.present ELSE {}
  <2>1. mask \subseteq Implements[b]
    BY DEF OneBox
  <2>2. cap \in [Feature -> Availability] /\ Forget(cap) \in [Feature -> Availability]
    BY DEF TypeOK, Forget, Availability
  <2>3. TrueOf(RestorePresent(Forget(cap), mask), b)
    BY <2>1, <2>2, TrueTable
  <2>4. cap' = cap \/ cap' = RestorePresent(Forget(cap), mask)
    BY DEF OnConfigChanged
  <2> QED
    BY <2>3, <2>4 DEF OneBox
<1> QED
  BY <1>1, <1>2, <1>3 DEF OneBox

\* The calls of a listing.
LEMMA TableReplyOneBox ==
    ASSUME TypeOK, NEW b, OneBox(b), TableReply
    PROVE  OneBox(b)'
<1>1. PICK out \in {"ok", "invalid", "none"} :
        ListPathReply(out) \/ DocReply(out) \/ CountReply(out) \/ EntryReply(out)
  BY DEF TableReply
<1>2. PICK kind : Reply(kind, out)
  BY <1>1 DEF ListPathReply, DocReply, CountReply, EntryReply
<1>3. call # None /\ call.to = b /\ call \in Call /\ UNCHANGED endpoint
  BY <1>2, ReplyType DEF OneBox, Reply
<1>4. UNCHANGED saved
  BY <1>1 DEF ListPathReply, DocReply, CountReply, EntryReply, TableUnchanged
<1>5. TrueOf(cap', b)
  <2>1. CASE ListPathReply(out)
    <3>1. Reply("ListPath", out) /\ Learn(call.arg, out) /\ call.kind = "ListPath"
      BY <2>1 DEF ListPathReply, Reply
    <3>2. call.arg \in Feature
      BY <1>3, <3>1 DEF Call, Feature
    <3> QED
      BY <1>3, <3>1, <3>2, ImplementedIs, TrueLearn
  <2>2. CASE UNCHANGED cap
    BY <2>2 DEF OneBox
  <2> QED
    BY <1>1, <2>1, <2>2 DEF DocReply, CountReply, EntryReply
<1>6. call' = None \/ \E next : Proceed(next, None)
  BY <1>1 DEF ListPathReply, DocReply, CountReply, EntryReply, Complete
<1>7. call' # None => call'.to = b
  BY <1>6 DEF Proceed, Ask, OneBox
<1> QED
  BY <1>3, <1>4, <1>5, <1>7 DEF OneBox

\* The user takes the session, and gives it back.
LEMMA UserOneBox ==
    ASSUME NEW b, OneBox(b),
           \/ \E k \in Cmd, band \in Band, on \in BOOLEAN : OnChannelInvoke(k, band, on)
           \/ \E out \in {"ok", "invalid", "none"} : SetEnableReply(out)
           \/ OnPairingStart
    PROVE  OneBox(b)'
<1>1. UNCHANGED <<endpoint, cap, saved>>
  BY DEF OnChannelInvoke, SetEnableReply, Reply, OnPairingStart
<1>2. call' \in {call, None} \/ \E kind, arg : endpoint # None /\ call' = Ask(kind, arg, endpoint)
  BY DEF OnChannelInvoke, SetEnableReply, OnPairingStart, Serving
<1> QED
  BY <1>1, <1>2 DEF OneBox, Ask

LEMMA LifecycleOneBox ==
    ASSUME TypeOK, NEW b, OneBox(b), Start \/ Stop \/ Crash \/ OnDisconnected \/ CoreGone \/ CoreBack
    PROVE  OneBox(b)'
<1>1. CASE Crash
  <2>1. TrueOf(Forget(cap), b)
    BY DEF TypeOK, TrueOf, Forget
  <2> QED
    BY <1>1, <2>1 DEF Crash, OneBox, TrueOf
<1>2. CASE Start \/ Stop \/ OnDisconnected \/ CoreGone \/ CoreBack
  BY <1>2 DEF Start, Stop, OnDisconnected, CoreGone, CoreBack, OneBox, TrueOf
<1> QED
  BY <1>1, <1>2

LEMMA NextOneBox ==
    ASSUME NEW b \in Endpoint, Configs \subseteq {b, None}, TypeOK, OneBox(b), [Next]_vars
    PROVE  OneBox(b)'
<1>1. CASE PollReply
  BY <1>1, PollReplyOneBox
<1>2. CASE ShotFires
  BY <1>2, ShotFiresOneBox
<1>3. CASE TimerTick
  BY <1>3, BeginPollOneBox DEF TimerTick, OneBox, TrueOf
<1>4. CASE \E e \in Configs : OnConfigChanged(e)
  BY <1>4, OnConfigChangedOneBox
<1>5. CASE TableReply
  BY <1>5, TableReplyOneBox
<1>6. CASE \/ \E k \in Cmd, band \in Band, on \in BOOLEAN : OnChannelInvoke(k, band, on)
           \/ \E out \in {"ok", "invalid", "none"} : SetEnableReply(out)
           \/ OnPairingStart
  BY <1>6, UserOneBox
<1>7. CASE Start \/ Stop \/ Crash \/ OnDisconnected \/ CoreGone \/ CoreBack
  BY <1>7, LifecycleOneBox
<1>8. CASE \/ BoxSwitches \/ BoxGoesDown \/ BoxComesUp \/ SwitchThrown
           \/ \E m \in Mac : OnPairCandidate(m) \/ OnDeviceRemoved(m)
           \/ UNCHANGED vars
  BY <1>8 DEF BoxSwitches, BoxGoesDown, BoxComesUp, SwitchThrown, world, OnPairCandidate,
              OnDeviceRemoved, vars, OneBox, TrueOf
<1> QED
  BY <1>1, <1>2, <1>3, <1>4, <1>5, <1>6, <1>7, <1>8 DEF Next

\* What is recorded of the box is true of it, whatever got lost and whoever
\* restarted, of an instance that is only ever configured for that box.
THEOREM CapTruthTheorem ==
    ASSUME NEW b \in Endpoint, Configs \subseteq {b, None}
    PROVE  Spec => []CapTruth
<1>1. Init => OneBox(b)
  BY InitOneBox
<1>2. TypeOK /\ OneBox(b) /\ [Next]_vars => OneBox(b)'
  BY NextOneBox
<1>3. OneBox(b) => CapTruth
  BY DEF OneBox, CapTruth, TrueOf
<1> QED
  BY <1>1, <1>2, <1>3, TypeCorrect, PTL DEF Spec

-----------------------------------------------------------------------------
(* What is on offer.                                                         *)

\* What is present stays present.
PresentKept == PresentMask(cap) \subseteq PresentMask(cap')

\* What is offered goes with the features that are present.
ChannelsOf(present) ==
    {"uptime"}
    \cup (IF UpdateInfo \cap present # {} THEN {"update"} ELSE {})
    \cup (Band \cap present)
    \cup (IF "ByteCounters" \in present THEN Rate ELSE {})

LEMMA OfferedIs ==
    ASSUME NEW c \in [Feature -> Availability]
    PROVE  Offered(c) = ChannelsOf(PresentMask(c))
<1>1. UpdateInfo \subseteq Feature /\ Band \subseteq Feature /\ "ByteCounters" \in Feature
  BY DEF Feature
<1>2. \A f \in Feature : f \in PresentMask(c) <=> IsPresent(c, f)
  BY DEF PresentMask, IsPresent
<1>3. (UpdateInfo \cap PresentMask(c) # {}) <=> \E f \in UpdateInfo : IsPresent(c, f)
  BY <1>1, <1>2
<1>4. Band \cap PresentMask(c) = {b \in Band : IsPresent(c, b)}
  BY <1>1, <1>2
<1>5. "ByteCounters" \in PresentMask(c) <=> IsPresent(c, "ByteCounters")
  BY <1>1, <1>2
<1> QED
  BY <1>3, <1>4, <1>5 DEF Offered, ChannelsOf

LEMMA ChannelsGrow ==
    ASSUME NEW few, NEW many, few \subseteq many
    PROVE  ChannelsOf(few) \subseteq ChannelsOf(many)
BY DEF ChannelsOf

LEMMA OfferedGrows ==
    ASSUME NEW c \in [Feature -> Availability], NEW d \in [Feature -> Availability],
           PresentMask(c) \subseteq PresentMask(d)
    PROVE  Offered(c) \subseteq Offered(d)
BY OfferedIs, ChannelsGrow

\* A feature the box has is never taken for absent.
LEMMA LearnKeeps ==
    ASSUME TypeOK, NEW b, OneBox(b), NEW kind, NEW out, Reply(kind, out), NEW f \in Feature,
           Implemented(call) <=> f \in Implements[b], Learn(f, out)
    PROVE  PresentKept
<1>1. out = "invalid" => ~Implemented(call)
  BY DEF Reply, Answers
<1>2. CASE out = "ok"
  BY <1>2 DEF Learn, MarkPresent, PresentMask, PresentKept, TypeOK
<1>3. CASE out = "invalid"
  <2>1. cap[f] # "Present"
    BY <1>1, <1>3 DEF OneBox, TrueOf
  <2> QED
    BY <1>3, <2>1 DEF Learn, MarkAbsent, PresentMask, PresentKept, TypeOK
<1>4. CASE out \notin {"ok", "invalid"}
  BY <1>4 DEF Learn, PresentKept
<1> QED
  BY <1>2, <1>3, <1>4

LEMMA PollReplyKeeps ==
    ASSUME TypeOK, NEW b \in Endpoint, OneBox(b), PollReply
    PROVE  PresentKept
<1>1. PICK out \in {"ok", "invalid", "fault", "none"} :
        InfoReply(out) \/ HostReply(out) \/ BytesReply(out) \/ WlanReply(out) \/ UpdateReply(out)
  BY DEF PollReply
<1>2. CASE InfoReply(out) \/ HostReply(out)
  BY <1>2 DEF InfoReply, HostReply, PresentKept
<1>3. CASE BytesReply(out)
  <2>1. Reply("Bytes", out) /\ call # None /\ call.to = b
    BY <1>3 DEF BytesReply, Reply, OneBox
  <2> QED
    BY <1>3, <2>1, ImplementedIs, LearnKeeps DEF BytesReply, Reply, Feature
<1>4. CASE WlanReply(out) \/ UpdateReply(out)
  <2>1. PICK kind \in {"Wlan", "Update"} : Reply(kind, out)
    BY <1>4 DEF WlanReply, UpdateReply
  <2>2. Learn(call.arg, out)
    BY <1>4 DEF WlanReply, UpdateReply
  <2>3. call # None /\ call.to = b /\ call.kind = kind /\ call.arg \in Feature
    BY <2>1, ReplyType DEF Reply, OneBox, Call, Feature
  <2> QED
    BY <2>1, <2>2, <2>3, ImplementedIs, LearnKeeps
<1> QED
  BY <1>1, <1>2, <1>3, <1>4

LEMMA TableReplyKeeps ==
    ASSUME TypeOK, NEW b \in Endpoint, OneBox(b), TableReply
    PROVE  PresentKept
<1>1. PICK out \in {"ok", "invalid", "none"} :
        ListPathReply(out) \/ DocReply(out) \/ CountReply(out) \/ EntryReply(out)
  BY DEF TableReply
<1>2. CASE ListPathReply(out)
  <2>1. Reply("ListPath", out) /\ Learn(call.arg, out)
    BY <1>2 DEF ListPathReply
  <2>2. call # None /\ call.to = b /\ call.kind = "ListPath" /\ call.arg \in Feature
    BY <2>1, ReplyType DEF Reply, OneBox, Call, Feature
  <2> QED
    BY <2>1, <2>2, ImplementedIs, LearnKeeps
<1>3. CASE UNCHANGED cap
  BY <1>3 DEF PresentKept
<1> QED
  BY <1>1, <1>2, <1>3 DEF DocReply, CountReply, EntryReply

\* What an answer of a poll brings: no reading, or one of a channel that is on
\* offer from now on, in a poll that counts as answered.
LEMMA PollReplyReads ==
    ASSUME TypeOK, SafetyInv, HostedInv, PollReply
    PROVE  \E p \in Poll :
             /\ p.running /\ (poll.answered => p.answered)
             /\ \/ RunStep(None, shots, p, said, core)
                \/ /\ p.answered
                   /\ \E ch \in Channel \cap Offered(cap'), v \in Reading :
                          RunStep(None, shots, p, Record(said, ch, v, TRUE), core)
<1>1. PICK out \in {"ok", "invalid", "fault", "none"} :
        InfoReply(out) \/ HostReply(out) \/ BytesReply(out) \/ WlanReply(out) \/ UpdateReply(out)
  BY DEF PollReply
<1>2. PICK kind : Reply(kind, out)
  BY <1>1 DEF InfoReply, HostReply, BytesReply, WlanReply, UpdateReply
<1>3. call \in Call /\ call.to \in Endpoint
  BY <1>2, ReplyType DEF Call
<1>4. poll.running = TRUE
  BY PollReplyHosted DEF TypeOK, Poll
<1> DEFINE q == Answered(out)
<1>5. q \in Poll /\ q.running /\ (poll.answered => q.answered) /\ (out = "ok" => q.answered)
  BY <1>4, AnsweredType DEF Answered, TypeOK, Poll
<1> HIDE DEF q
<1>a. ASSUME NEW p \in Poll, p.running, poll.answered => p.answered,
             NEW ch \in Channel, NEW v \in Reading \cup {None},
             v # None => p.answered /\ ch \in Offered(cap'), Continue(p, ch, v)
      PROVE  \/ RunStep(None, shots, p, said, core)
             \/ p.answered /\ \E c \in Channel \cap Offered(cap'), r \in Reading :
                    RunStep(None, shots, p, Record(said, c, r, TRUE), core)
  <2>1. CASE v = None
    BY <1>a, <2>1 DEF Continue
  <2>2. CASE v # None
    <3>1. ~SentAtOnce(said, ch, v, TRUE)
      BY DEF SentAtOnce
    <3>2. RunStep(None, shots, p, Record(said, ch, v, TRUE), core)
      BY <1>4, <1>a, <2>2, <3>1 DEF Continue
    <3> QED
      BY <1>a, <2>2, <3>2
  <2> QED
    BY <2>1, <2>2
<1>6. \E p \in Poll : \E ch \in Channel : \E v \in Reading \cup {None} :
          /\ p.running /\ (poll.answered => p.answered)
          /\ v # None => p.answered /\ ch \in Offered(cap')
          /\ Continue(p, ch, v)
  <2>1. CASE InfoReply(out)
    <3> DEFINE last == said.value["uptime"]
    <3> DEFINE u == [box |-> call.to, on |-> IF last = None THEN FALSE ELSE ~last.on]
    <3>1. last = None \/ last \in Reading
      BY DEF TypeOK, Said, Readings, Channel
    <3>2. u \in Reading
      <4>1. (IF last = None THEN FALSE ELSE ~last.on) \in BOOLEAN
        BY <3>1 DEF Reading
      <4> QED
        BY <1>3, <4>1 DEF Reading
    <3>3. Continue(q, "uptime", IF out = "ok" THEN u ELSE None)
      BY <2>1 DEF InfoReply, q
    <3>4. "uptime" \in Channel /\ "uptime" \in Offered(cap')
      BY DEF Channel, Offered
    <3> HIDE DEF u
    <3> QED
      BY <1>5, <3>2, <3>3, <3>4
  <2>2. CASE HostReply(out)
    <3>1. call.arg \in Mac
      BY <1>3, <2>2 DEF HostReply, Reply, Call
    <3>2. /\ Heard(q, call.arg, out) \in Poll /\ Heard(q, call.arg, out).running
          /\ Heard(q, call.arg, out).answered = q.answered
      BY <1>5, <3>1 DEF Heard, Poll
    <3>3. Continue(Heard(q, call.arg, out), "uptime", None) /\ "uptime" \in Channel
      BY <2>2 DEF HostReply, Channel, q
    <3> QED
      BY <1>5, <3>2, <3>3
  <2>3. CASE BytesReply(out)
    <3>1. call.kind = "Bytes"
      BY <2>3 DEF BytesReply, Reply
    <3>2. call.arg \in Rate /\ call.arg \in Channel
      BY <1>3, <3>1 DEF Call, Channel
    <3> DEFINE r == [box |-> call.to, on |-> meter[call.arg] = call.to]
    <3>3. r \in Reading
      BY <1>3 DEF Reading
    <3>4. PICK v \in {None, r} : Continue(q, call.arg, v) /\ (v # None => out = "ok")
      BY <2>3, <3>3, NothingAssumption DEF BytesReply, q
    <3>5. out = "ok" => call.arg \in Offered(cap')
      <4>1. out = "ok" => cap' = MarkPresent(cap, "ByteCounters")
        BY <2>3 DEF BytesReply, Learn
      <4>2. out = "ok" => IsPresent(cap', "ByteCounters")
        BY <4>1 DEF MarkPresent, IsPresent, TypeOK, Feature
      <4> QED
        BY <3>2, <4>2 DEF Offered
    <3> HIDE DEF r
    <3> QED
      BY <1>5, <3>2, <3>3, <3>4, <3>5
  <2>4. CASE WlanReply(out)
    <3>1. call.kind = "Wlan"
      BY <2>4 DEF WlanReply, Reply
    <3>2. call.arg \in Band /\ call.arg \in Channel /\ call.arg \in Feature
      BY <1>3, <3>1 DEF Call, Channel, Feature
    <3> DEFINE r == [box |-> call.to, on |-> switch[call.to][call.arg]]
    <3>3. r \in Reading
      BY <1>3, <3>2 DEF TypeOK, Reading
    <3>4. Continue(q, call.arg, IF out = "ok" THEN r ELSE None)
      BY <2>4 DEF WlanReply, q
    <3>5. out = "ok" => call.arg \in Offered(cap')
      <4>1. out = "ok" => cap' = MarkPresent(cap, call.arg)
        BY <2>4 DEF WlanReply, Learn
      <4>2. out = "ok" => IsPresent(cap', call.arg)
        BY <3>2, <4>1 DEF MarkPresent, IsPresent, TypeOK
      <4> QED
        BY <3>2, <4>2 DEF Offered
    <3> HIDE DEF r
    <3> QED
      BY <1>5, <3>2, <3>3, <3>4, <3>5
  <2>5. CASE UpdateReply(out)
    <3>1. call.kind = "Update"
      BY <2>5 DEF UpdateReply, Reply
    <3>2. call.arg \in UpdateInfo /\ call.arg \in Feature /\ "update" \in Channel
      BY <1>3, <3>1 DEF Call, Channel, Feature
    <3> DEFINE r == [box |-> call.to, on |-> TRUE]
    <3>3. r \in Reading
      BY <1>3 DEF Reading
    <3> DEFINE w == [q EXCEPT !.todo = @ \cup {Update}]
    <3>4. w \in Poll /\ w.running = q.running /\ w.answered = q.answered
      BY <1>5 DEF Poll, Step
    <3>5. PICK p \in {q, w} : Continue(p, "update", IF out = "ok" THEN r ELSE None)
      BY <2>5 DEF UpdateReply, q
    <3>6. out = "ok" => "update" \in Offered(cap')
      <4>1. out = "ok" => cap' = MarkPresent(cap, call.arg)
        BY <2>5 DEF UpdateReply, Learn
      <4>2. out = "ok" => IsPresent(cap', call.arg)
        BY <3>2, <4>1 DEF MarkPresent, IsPresent, TypeOK
      <4> QED
        BY <3>2, <4>2 DEF Offered
    <3>7. p \in Poll /\ p.running /\ p.answered = q.answered
      BY <1>5, <3>4, <3>5
    <3> HIDE DEF r, w
    <3> QED
      BY <1>5, <3>2, <3>3, <3>5, <3>6, <3>7
  <2> QED
    BY <1>1, <2>1, <2>2, <2>3, <2>4, <2>5
<1> QED
  BY <1>6, <1>a

-----------------------------------------------------------------------------
(* What has been reported.                                                   *)

\* A report that still waits is the last one of its channel.
LastPending(s) ==
    \A ch \in Channel : s.pending[ch] = None \/ s.value[ch] \in {None, s.pending[ch]}

\* What counts as reported is shown, or waits.
Shown(s, c) ==
    \A ch \in Channel :
        Knows(c, ch) /\ s.value[ch] # None => s.value[ch] \in {c.value[ch], s.pending[ch]}

\* Without commands only polls report, and all they report waits for their end;
\* a process that starts, or comes back from a pause, has forgotten it all.
ReportInv ==
    /\ call # None => call.kind # "SetEnable"
    /\ lifecycle \in {"Idle", "Paused"} => said.value = NoReadings
    /\ LastPending(said)
    /\ ipc => Shown(said, core)

LEMMA InitReport == Init => ReportInv
BY DEF Init, ReportInv, NothingSaid, NoReadings, LastPending, Shown

\* A reading recorded while a poll runs.
LEMMA RecordReport ==
    ASSUME NEW s \in Said, NEW c, NEW ch \in Channel, NEW v \in Reading, LastPending(s)
    PROVE  /\ LastPending(Record(s, ch, v, TRUE))
           /\ Shown(s, c) => Shown(Record(s, ch, v, TRUE), c)
<1>1. v # None
  BY NothingAssumption
<1> DEFINE r == Record(s, ch, v, TRUE)
<1>2. /\ r.value[ch] = v
      /\ r.pending[ch] = IF s.value[ch] # v THEN v ELSE s.pending[ch]
      /\ \A other \in Channel \ {ch} : r.value[other] = s.value[other]
                                      /\ r.pending[other] = s.pending[other]
  BY DEF Record, IsNews, Said, Readings
<1> HIDE DEF r
<1>3. LastPending(r)
  BY <1>1, <1>2 DEF LastPending
<1>4. Shown(s, c) => Shown(r, c)
  BY <1>1, <1>2 DEF Shown
<1> QED
  BY <1>3, <1>4 DEF r

\* Forgetting, and the end of what waits.
LEMMA ForgetReport ==
    ASSUME NEW s \in Said
    PROVE  /\ ForgetReported(s).value = NoReadings /\ ForgetValues(s).value = NoReadings
           /\ ForgetReported(s).pending = s.pending /\ ForgetValues(s).pending = s.pending
           /\ DropPending(s).value = s.value /\ DropPending(s).pending = NoReadings
BY DEF ForgetReported, ForgetValues, DropPending, NoReadings, Said, Readings

LEMMA EmptyReport ==
    ASSUME NEW s, s.value = NoReadings
    PROVE  LastPending(s) /\ \A c : Shown(s, c)
BY DEF LastPending, Shown, NoReadings

\* What waited is sent.
LEMMA FlushReport ==
    ASSUME NEW s \in Said, NEW c \in Core, LastPending(s), ipc, Shown(s, c)
    PROVE  Shown(DropPending(s), Flush(s, c))
<1> DEFINE d == Flush(s, c)
<1>1. /\ d.device = c.device
      /\ \A ch \in Channel : d.value[ch] = IF s.pending[ch] # None /\ Knows(c, ch)
                                           THEN s.pending[ch] ELSE c.value[ch]
  BY DEF Flush, Core, Readings, Knows
<1>2. \A ch : Knows(d, ch) <=> Knows(c, ch)
  BY <1>1 DEF Knows
<1> HIDE DEF d
<1>3. DropPending(s).value = s.value /\ DropPending(s).pending = NoReadings
  BY ForgetReport
<1>4. ASSUME NEW ch \in Channel, Knows(d, ch), s.value[ch] # None
      PROVE  s.value[ch] = d.value[ch]
  BY <1>1, <1>2, <1>4 DEF LastPending, Shown
<1> QED
  BY <1>3, <1>4 DEF Shown, d

LEMMA FinishPollReport ==
    ASSUME NEW s \in Said, NEW c \in Core, NEW p, LastPending(s), ipc => Shown(s, c),
           FinishPoll(p, s, c)
    PROVE  LastPending(said') /\ (ipc => Shown(said', core'))
<1>1. CASE said' = DropPending(s) /\ core' = Flush(s, c)
  <2>1. said'.pending = NoReadings
    BY <1>1, ForgetReport
  <2> QED
    BY <1>1, <2>1, FlushReport DEF LastPending, NoReadings
<1>2. CASE said' = DropPending(SaidAnnounced(s)) /\ core' = DescriptorThenValues(s, c)
  <2>1. CASE s.descriptor = Descriptor
    BY <1>1, <1>2, <2>1 DEF SaidAnnounced, DescriptorThenValues, CoreAnnounced
  <2>2. CASE s.descriptor # Descriptor
    <3> DEFINE recorded == [s EXCEPT !.descriptor = Descriptor]
    <3>1. /\ recorded.pending = s.pending /\ recorded.value = s.value
          /\ DOMAIN s.value = Channel /\ DOMAIN s.pending = Channel
      BY DEF Said, Readings
    <3>2. CASE ipc
      <4>1. said' = DropPending(ForgetValues(recorded))
        BY <1>2, <2>2, <3>2 DEF SaidAnnounced
      <4>2. said'.value = NoReadings
        <5>1. ForgetValues(recorded).value = NoReadings
          BY <3>1 DEF ForgetValues, NoReadings, Said
        <5> QED
          BY <4>1, <5>1 DEF DropPending, ForgetValues, Said
      <4> QED
        BY <4>2, EmptyReport
    <3>3. CASE ~ipc
      <4>1. said' = DropPending(recorded)
        BY <1>2, <2>2, <3>3 DEF SaidAnnounced
      <4>2. said'.pending = NoReadings
        BY <3>1, <4>1 DEF DropPending, NoReadings, Said
      <4> QED
        BY <3>3, <4>2 DEF LastPending, NoReadings
    <3> QED
      BY <3>2, <3>3
  <2> QED
    BY <2>1, <2>2
<1> QED
  BY <1>1, <1>2 DEF FinishPoll

LEMMA RunStepReport ==
    ASSUME NEW busy, NEW left, NEW p, NEW s \in Said, NEW c \in Core,
           LastPending(s), ipc => Shown(s, c), RunStep(busy, left, p, s, c)
    PROVE  LastPending(said') /\ (ipc => Shown(said', core'))
<1>1. CASE FinishPoll(p, s, c)
  BY <1>1, FinishPollReport
<1>2. CASE said' = s /\ core' = c
  BY <1>2
<1> QED
  BY <1>1, <1>2 DEF RunStep

\* Every answer of a poll finds it running, so that its reading waits.
LEMMA PollReplyReport ==
    ASSUME TypeOK, SafetyInv, HostedInv, ReportInv, PollReply
    PROVE  ReportInv'
<1>1. lifecycle = "Running" /\ UNCHANGED <<lifecycle, ipc>>
  <2>1. \E kind, out : Reply(kind, out)
    BY DEF PollReply, InfoReply, HostReply, BytesReply, WlanReply, UpdateReply
  <2> QED
    BY <2>1, ReplyType, PollReplyHosted
<1>2. call' # None => call'.kind # "SetEnable"
  BY PollReplyHosted DEF Outcome, Kind
<1>3. PICK p \in Poll : \/ RunStep(None, shots, p, said, core)
                        \/ \E ch \in Channel, v \in Reading :
                               RunStep(None, shots, p, Record(said, ch, v, TRUE), core)
  BY PollReplyReads
<1>4. ASSUME NEW ch \in Channel, NEW v \in Reading
      PROVE  /\ Record(said, ch, v, TRUE) \in Said
             /\ LastPending(Record(said, ch, v, TRUE))
             /\ ipc => Shown(Record(said, ch, v, TRUE), core)
  BY RecordReport, SaidType DEF ReportInv, TypeOK
<1>5. \E s \in Said : LastPending(s) /\ (ipc => Shown(s, core)) /\ RunStep(None, shots, p, s, core)
  BY <1>3, <1>4 DEF ReportInv, TypeOK
<1>6. LastPending(said') /\ (ipc => Shown(said', core'))
  BY <1>5, RunStepReport DEF TypeOK
<1> QED
  BY <1>1, <1>2, <1>6 DEF ReportInv

\* beginPoll() asks for the device information.
LEMMA BeginPollReport ==
    ASSUME ReportInv, NEW l, NEW n, BeginPoll(l, n)
    PROVE  call' # None => call'.kind # "SetEnable"
BY DEF BeginPoll, Ask, ReportInv

LEMMA OnConfigChangedReport ==
    ASSUME TypeOK, ReportInv, NEW e, OnConfigChanged(e)
    PROVE  ReportInv'
<1>1. lifecycle' = "Running" /\ UNCHANGED <<ipc, core>>
  BY DEF OnConfigChanged
<1>2. call' # None => call'.kind # "SetEnable"
  BY BeginPollReport DEF OnConfigChanged
<1>3. said' = said \/ said' = ForgetReported(said)
  BY DEF OnConfigChanged
<1>4. ForgetReported(said).value = NoReadings
  BY ForgetReport DEF TypeOK
<1> QED
  BY <1>1, <1>2, <1>3, <1>4, EmptyReport DEF ReportInv

LEMMA LifecycleReport ==
    ASSUME TypeOK, ReportInv, Start \/ Stop \/ Crash \/ OnDisconnected \/ CoreGone \/ CoreBack
    PROVE  ReportInv'
<1>1. CASE Start
  BY <1>1, EmptyReport DEF Start, ReportInv
<1>2. CASE Stop
  BY <1>2 DEF Stop, env, ReportInv
<1>3. CASE Crash
  <2>1. said'.value = NoReadings
    BY <1>3 DEF Crash, NothingSaid
  <2> QED
    BY <1>3, <2>1, EmptyReport DEF Crash, ReportInv
<1>4. CASE OnDisconnected
  <2>1. said'.value = NoReadings
    <3>1. ForgetReported(said) \in Said /\ ForgetReported(said).value = NoReadings
      BY SaidType, ForgetReport DEF TypeOK
    <3> QED
      BY <1>4, <3>1, ForgetReport DEF OnDisconnected
  <2> QED
    BY <1>4, <2>1, EmptyReport DEF OnDisconnected, ReportInv
<1>5. CASE CoreGone
  BY <1>5 DEF CoreGone, ReportInv
<1>6. CASE CoreBack
  BY <1>6, EmptyReport DEF CoreBack, ReportInv
<1> QED
  BY <1>1, <1>2, <1>3, <1>4, <1>5, <1>6

\* Picks change the meta phi-core keeps, and nothing it shows.
LEMMA PickReport ==
    ASSUME TypeOK, ReportInv, NEW m, OnPairCandidate(m) \/ OnDeviceRemoved(m)
    PROVE  ReportInv'
<1>1. core'.device = core.device /\ core'.value = core.value
  BY DEF OnPairCandidate, OnDeviceRemoved, SaveTracked, TypeOK, Core
<1>2. UNCHANGED <<lifecycle, call, said, ipc>>
  BY DEF OnPairCandidate, OnDeviceRemoved, env
<1> QED
  BY <1>1, <1>2 DEF ReportInv, Shown, LastPending, Knows

LEMMA NextReport ==
    ASSUME None \notin Configs, Cmd = {}, TypeOK, SafetyInv, HostedInv, ReportInv, [Next]_vars
    PROVE  ReportInv'
<1>1. CASE PollReply
  BY <1>1, PollReplyReport
<1>2. CASE ShotFires
  BY <1>2 DEF ShotFires, HostedInv
<1>3. CASE TimerTick
  BY <1>3 DEF TimerTick, BeginPoll, Ask, env, ReportInv
<1>4. CASE \E e \in Configs : OnConfigChanged(e)
  BY <1>4, OnConfigChangedReport
<1>5. CASE TableReply \/ OnPairingStart
  <2>1. UNCHANGED <<lifecycle, said, core, ipc>>
    BY <1>5, ReplyType DEF TableReply, ListPathReply, DocReply, CountReply, EntryReply,
           TableUnchanged, OnPairingStart, env
  <2>2. call' = None \/ \E kind \in {"ListPath", "Doc", "Count", "Entry"} : \E arg :
                            call' = Ask(kind, arg, endpoint)
    BY <1>5 DEF TableReply, ListPathReply, DocReply, CountReply, EntryReply, Proceed, Complete,
           OnPairingStart
  <2> QED
    BY <2>1, <2>2 DEF ReportInv, Ask
<1>6. CASE \E out \in {"ok", "invalid", "none"} : SetEnableReply(out)
  BY <1>6 DEF SetEnableReply, Reply, ReportInv
<1>7. CASE Start \/ Stop \/ Crash \/ OnDisconnected \/ CoreGone \/ CoreBack
  BY <1>7, LifecycleReport
<1>8. CASE \E m \in Mac : OnPairCandidate(m) \/ OnDeviceRemoved(m)
  BY <1>8, PickReport
<1>9. CASE BoxSwitches \/ BoxGoesDown \/ BoxComesUp \/ SwitchThrown \/ UNCHANGED vars
  BY <1>9 DEF BoxSwitches, BoxGoesDown, BoxComesUp, SwitchThrown, world, vars, env, ReportInv
<1> QED
  BY <1>1, <1>2, <1>3, <1>4, <1>5, <1>6, <1>7, <1>8, <1>9 DEF Next

\* Where the user does not write, isNews() swallows a reading only because
\* phi-core shows it or is about to: across polls that are cancelled, pauses,
\* crashes and moves, as long as every configuration has a host.
THEOREM CoreFreshTheorem ==
    ASSUME None \notin Configs, Cmd = {}
    PROVE  Spec => []CoreFresh
<1>1. TypeOK /\ SafetyInv /\ HostedInv /\ ReportInv /\ [Next]_vars => ReportInv'
  BY NextReport
<1>2. ReportInv => CoreFresh
  BY DEF ReportInv, CoreFresh, Shown
<1> QED
  BY <1>1, <1>2, InitReport, TypeCorrect, SafetyInvariant, HostedInvariant, PTL DEF Spec

-----------------------------------------------------------------------------
(* The device phi-core shows.                                                *)

\* A descriptor that counts as announced is the device of the phi-core that is
\* there.
DescriptorSent ==
    /\ lifecycle \in {"Idle", "Paused"} => said.descriptor = None
    /\ ipc /\ said.descriptor # None => core.device = said.descriptor

\* What phi-core was shown of the box is in router.json, and what is there is
\* known again of a box that is configured: a device is announced and saved in
\* the same step, and restored before the first question.
DeviceSaved(b) ==
    /\ saved.box \in {b, None}
    /\ core.device # None =>
          saved.box = b /\ core.device.channels \subseteq ChannelsOf(saved.present)
    /\ saved.box = b /\ endpoint = b => saved.present \subseteq PresentMask(cap)

\* A value waits only for a channel that the next descriptor offers.
PendingOffered ==
    /\ endpoint = None => said.pending = NoReadings
    /\ \A ch \in Channel : said.pending[ch] # None => ch \in Offered(cap)

DeviceInv(b) == OneBox(b) /\ DescriptorSent /\ DeviceSaved(b) /\ PendingOffered

LEMMA InitDevice ==
    ASSUME NEW b \in Endpoint, Init
    PROVE  DeviceInv(b)
<1>1. \A ch \in Channel : said.pending[ch] = None
  BY DEF Init, NothingSaid, NoReadings
<1>2. said.pending = NoReadings /\ said.descriptor = None /\ core.device = None
  BY DEF Init, NothingSaid
<1>3. OneBox(b) /\ saved.box = None /\ endpoint = None
  BY InitOneBox DEF Init
<1> QED
  BY <1>1, <1>2, <1>3, NoneAssumption DEF DeviceInv, DescriptorSent, DeviceSaved, PendingOffered

\* No device loses a channel.
Grown == core.device # None /\ core'.device # None =>
             core.device.channels \subseteq core'.device.channels

\* What this section shows of a step.
DeviceStep(b) ==
    /\ DeviceInv(b)'
    /\ Grown
    /\ ipc /\ lifecycle' = "Running" /\ poll'.answered => SentDescribed

LEMMA DescriptorType ==
    ASSUME identity' \in Endpoint \cup {None}
    PROVE  Descriptor \in Device /\ Descriptor # None
<1>1. Offered(cap') \subseteq Channel
  BY DEF Offered, Channel
<1> QED
  BY <1>1, NothingAssumption DEF Descriptor, Device

\* What a flush shows.
LEMMA FlushShows ==
    ASSUME NEW s, NEW c \in Core
    PROVE  /\ Flush(s, c).device = c.device
           /\ ipc /\ c.device # None =>
                 \A ch \in Channel : s.pending[ch] # None /\ ch \in c.device.channels =>
                     Flush(s, c).value[ch] # None
BY DEF Flush, Core, Readings, Knows

\* A poll that ends without a new descriptor to send.
LEMMA FinishPollSame ==
    ASSUME TypeOK, NEW b, DeviceInv(b), PresentKept, endpoint' = endpoint,
           NEW s \in Said, NEW c \in Core, c.device = core.device,
           core' = Flush(s, c), saved' = saved
    PROVE  DeviceSaved(b)' /\ core'.device = core.device /\ Grown
<1>1. core'.device = core.device
  BY FlushShows
<1> QED
  BY <1>1 DEF DeviceInv, DeviceSaved, Grown, PresentKept

\* The end of a poll announces what there is now, which is no less than before.
LEMMA FinishPollDevice ==
    ASSUME TypeOK, TypeOK', NEW b \in Endpoint, DeviceInv(b), PresentKept,
           endpoint = b, UNCHANGED <<endpoint, lifecycle, ipc>>, lifecycle = "Running",
           NEW p \in Poll, NEW s \in Said, NEW c \in Core,
           c.device = core.device, s.descriptor = said.descriptor,
           \A ch \in Channel : s.pending[ch] # None => ch \in Offered(cap'),
           FinishPoll(p, s, c)
    PROVE  /\ DescriptorSent' /\ DeviceSaved(b)' /\ Grown
           /\ said'.pending = NoReadings
           /\ ipc /\ p.answered =>
                 \A ch \in Channel : s.pending[ch] # None => core'.value[ch] # None
<1>1. Descriptor \in Device /\ Descriptor # None /\ Descriptor.channels = Offered(cap')
  BY DescriptorType DEF TypeOK, Descriptor
<1> DEFINE recorded == [s EXCEPT !.descriptor = Descriptor]
<1>2. /\ recorded \in Said /\ recorded.descriptor = Descriptor
      /\ recorded.pending = s.pending
  BY <1>1 DEF Said
<1>3. \A r \in Said : /\ DropPending(r).descriptor = r.descriptor
                      /\ DropPending(r).pending = NoReadings
                      /\ ForgetValues(r) \in Said
                      /\ ForgetValues(r).descriptor = r.descriptor
  BY SaidType DEF DropPending, ForgetValues, NoReadings, Said, Readings
<1>4. ipc /\ s.descriptor # None => c.device = s.descriptor
  BY DEF DeviceInv, DescriptorSent
<1> HIDE DEF recorded
<1>5. CASE ~p.answered
  <2>1. said' = DropPending(s) /\ core' = Flush(s, c) /\ saved' = saved
    BY <1>5 DEF FinishPoll
  <2>2. said'.descriptor = said.descriptor /\ said'.pending = NoReadings
    BY <1>3, <2>1
  <2> QED
    BY <1>5, <2>1, <2>2, FinishPollSame DEF DeviceInv, DescriptorSent
<1>6. CASE p.answered /\ ~ipc
  <2>1. /\ said' \in {DropPending(s), DropPending(recorded)}
        /\ core' = Flush(s, c) /\ saved' = saved
    BY <1>6 DEF FinishPoll, SaidAnnounced, DescriptorThenValues, CoreAnnounced,
                SavedAnnounced, recorded
  <2>2. said'.pending = NoReadings
    BY <1>2, <1>3, <2>1
  <2> QED
    BY <1>6, <2>1, <2>2, FinishPollSame DEF DescriptorSent
<1>7. CASE p.answered /\ ipc /\ s.descriptor = Descriptor
  <2>1. said' = DropPending(s) /\ core' = Flush(s, c) /\ saved' = saved
    BY <1>7 DEF FinishPoll, SaidAnnounced, DescriptorThenValues, CoreAnnounced, SavedAnnounced
  <2>2. said'.descriptor = said.descriptor /\ said'.pending = NoReadings
    BY <1>3, <2>1
  <2>3. c.device = Descriptor
    BY <1>1, <1>4, <1>7
  <2>4. \A ch \in Channel : s.pending[ch] # None => core'.value[ch] # None
    BY <1>1, <1>7, <2>1, <2>3, FlushShows
  <2> QED
    BY <2>1, <2>2, <2>4, FinishPollSame DEF DeviceInv, DescriptorSent
<1>8. CASE p.answered /\ ipc /\ s.descriptor # Descriptor
  <2> DEFINE d == [c EXCEPT !.device = Descriptor,
                            !.value = [ch \in Channel |->
                                IF ch \in Descriptor.channels THEN @[ch] ELSE None]]
  <2>1. /\ said' = DropPending(ForgetValues(recorded)) /\ core' = Flush(s, d)
        /\ saved' = [box |-> endpoint, present |-> PresentMask(cap')]
    BY <1>8 DEF FinishPoll, SaidAnnounced, DescriptorThenValues, CoreAnnounced,
                SavedAnnounced, recorded
  <2>2. d \in Core /\ d.device = Descriptor
    BY <1>1 DEF Core, Readings
  <2> HIDE DEF d
  <2>3. said'.descriptor = Descriptor /\ said'.pending = NoReadings
    BY <1>2, <1>3, <2>1
  <2>4. core'.device = Descriptor
    BY <2>1, <2>2, FlushShows
  <2>5. \A ch \in Channel : s.pending[ch] # None => core'.value[ch] # None
    BY <1>1, <1>8, <2>1, <2>2, FlushShows
  <2>6. Descriptor.channels = ChannelsOf(PresentMask(cap'))
    BY <1>1, OfferedIs DEF TypeOK
  <2>7. core.device # None => core.device.channels \subseteq Descriptor.channels
    <3>1. core.device # None => saved.present \subseteq PresentMask(cap')
      BY DEF DeviceInv, DeviceSaved, PresentKept
    <3>2. core.device # None => core.device.channels \subseteq ChannelsOf(saved.present)
      BY DEF DeviceInv, DeviceSaved
    <3> QED
      BY <2>6, <3>1, <3>2, ChannelsGrow
  <2> QED
    BY <2>1, <2>3, <2>4, <2>5, <2>6, <2>7 DEF DescriptorSent, DeviceSaved, Grown
<1> QED
  BY <1>5, <1>6, <1>7, <1>8

\* An answer of a poll.
LEMMA PollReplyDevice ==
    ASSUME TypeOK, TypeOK', SafetyInv, HostedInv, NEW b \in Endpoint, DeviceInv(b), PollReply
    PROVE  DeviceStep(b)
<1>1. /\ lifecycle = "Running" /\ UNCHANGED <<endpoint, lifecycle, ipc>>
      /\ endpoint = b /\ poll.running
  <2>1. \E kind, out : Reply(kind, out)
    BY DEF PollReply, InfoReply, HostReply, BytesReply, WlanReply, UpdateReply
  <2>2. lifecycle = "Running" /\ UNCHANGED <<endpoint, lifecycle, ipc>> /\ poll.running
    BY <2>1, ReplyType, PollReplyHosted
  <2> QED
    BY <2>2 DEF HostedInv, DeviceInv, OneBox
<1>2. PresentKept /\ OneBox(b)'
  BY PollReplyKeeps, PollReplyOneBox DEF DeviceInv
<1>3. Offered(cap) \subseteq Offered(cap')
  BY <1>2, OfferedGrows DEF TypeOK, PresentKept
<1>4. PICK p \in Poll, s \in Said :
        /\ s.descriptor = said.descriptor
        /\ \A ch \in Channel : said.pending[ch] # None => s.pending[ch] # None
        /\ \A ch \in Channel : s.pending[ch] # None => ch \in Offered(cap')
        /\ RunStep(None, shots, p, s, core)
  <2>1. PICK p \in Poll : \/ RunStep(None, shots, p, said, core)
                          \/ \E ch \in Channel \cap Offered(cap'), v \in Reading :
                                 RunStep(None, shots, p, Record(said, ch, v, TRUE), core)
    BY PollReplyReads
  <2>2. said \in Said /\ \A ch \in Channel : said.pending[ch] # None => ch \in Offered(cap')
    BY <1>3 DEF TypeOK, DeviceInv, PendingOffered
  <2>3. ASSUME NEW ch \in Channel \cap Offered(cap'), NEW v \in Reading
        PROVE  /\ Record(said, ch, v, TRUE) \in Said
               /\ Record(said, ch, v, TRUE).descriptor = said.descriptor
               /\ \A c \in Channel : said.pending[c] # None =>
                      Record(said, ch, v, TRUE).pending[c] # None
               /\ \A c \in Channel : Record(said, ch, v, TRUE).pending[c] # None =>
                      c \in Offered(cap')
    <3>1. v # None /\ Record(said, ch, v, TRUE) \in Said
      BY <2>2, SaidType, NothingAssumption
    <3> QED
      BY <2>2, <3>1 DEF Record, Said, Readings
  <2> QED
    BY <2>1, <2>2, <2>3
<1>5. CASE FinishPoll(p, s, core)
  <2>1. /\ DescriptorSent' /\ DeviceSaved(b)' /\ Grown /\ said'.pending = NoReadings
        /\ ipc /\ p.answered => \A ch \in Channel : s.pending[ch] # None => core'.value[ch] # None
    BY <1>1, <1>2, <1>4, <1>5, FinishPollDevice DEF TypeOK
  <2>2. poll'.answered = p.answered
    BY <1>5 DEF FinishPoll, Poll
  <2>3. PendingOffered'
    BY <2>1 DEF PendingOffered, NoReadings
  <2> QED
    BY <1>2, <1>4, <2>1, <2>2, <2>3 DEF DeviceStep, DeviceInv, SentDescribed
<1>6. CASE said' = s /\ core' = core /\ saved' = saved
  <2>1. DescriptorSent' /\ DeviceSaved(b)' /\ Grown
    BY <1>1, <1>2, <1>4, <1>6 DEF DeviceInv, DescriptorSent, DeviceSaved, PresentKept, Grown
  <2>2. PendingOffered' /\ SentDescribed
    BY <1>1, <1>4, <1>6, NoneAssumption DEF PendingOffered, SentDescribed
  <2> QED
    BY <1>2, <2>1, <2>2 DEF DeviceStep, DeviceInv
<1> QED
  BY <1>4, <1>5, <1>6 DEF RunStep

\* A step that neither reports a descriptor nor touches what waits.
LEMMA AsideDevice ==
    ASSUME TypeOK, TypeOK', NEW b, DeviceInv(b), OneBox(b)', PresentKept,
           UNCHANGED <<endpoint, lifecycle, ipc, saved>>, core'.device = core.device,
           said'.descriptor = said.descriptor, said'.pending = said.pending
    PROVE  DeviceStep(b)
<1>1. Offered(cap) \subseteq Offered(cap')
  BY OfferedGrows DEF TypeOK, PresentKept
<1>2. DescriptorSent' /\ DeviceSaved(b)' /\ Grown
  BY DEF DeviceInv, DescriptorSent, DeviceSaved, PresentKept, Grown
<1>3. PendingOffered' /\ SentDescribed
  BY <1>1 DEF DeviceInv, PendingOffered, SentDescribed
<1> QED
  BY <1>2, <1>3 DEF DeviceStep, DeviceInv

\* The answer of a write: no poll runs, so that the value does not wait.
LEMMA SetEnableReplyDevice ==
    ASSUME TypeOK, TypeOK', SafetyInv, HostedInv, NEW b, DeviceInv(b), OneBox(b)',
           \E out \in {"ok", "invalid", "none"} : SetEnableReply(out)
    PROVE  DeviceStep(b)
<1>1. PICK out \in {"ok", "invalid", "none"} : SetEnableReply(out)
  OBVIOUS
<1>2. ~poll.running
  BY OtherReplyHosted
<1>3. UNCHANGED <<endpoint, lifecycle, ipc, saved, cap>>
  BY <1>1, ReplyType DEF SetEnableReply
<1>4. \A ch, v : /\ Record(said, ch, v, poll.running).descriptor = said.descriptor
                 /\ Record(said, ch, v, poll.running).pending = said.pending
  BY <1>2 DEF Record, TypeOK, Said, Readings
<1>5. \A ch, v : Show(core, ch, v).device = core.device
  BY DEF Show, TypeOK, Core
<1>6. /\ core'.device = core.device
      /\ said'.descriptor = said.descriptor /\ said'.pending = said.pending
  BY <1>1, <1>4, <1>5 DEF SetEnableReply
<1>7. PresentKept
  BY <1>3 DEF PresentKept
<1> QED
  BY <1>3, <1>6, <1>7, AsideDevice

\* The configuration of the one box: nothing was said before it, and what was
\* saved is present from the first question on.
LEMMA OnConfigChangedDevice ==
    ASSUME TypeOK, NEW b \in Endpoint, DeviceInv(b), OneBox(b)', OnConfigChanged(b)
    PROVE  DeviceStep(b)
<1>1. endpoint' = b /\ lifecycle' = "Running" /\ UNCHANGED <<ipc, core, saved>>
  BY DEF OnConfigChanged
<1>2. CASE endpoint = b
  <2>1. said' = said /\ cap' = cap /\ lifecycle \in {"Running", "Paused"}
    BY <1>2 DEF OnConfigChanged
  <2> QED
    BY <1>1, <1>2, <2>1 DEF DeviceStep, DeviceInv, DescriptorSent, DeviceSaved, PendingOffered,
                            Grown, SentDescribed
<1>3. CASE endpoint # b
  <2>1. endpoint = None /\ said.pending = NoReadings
    BY <1>3 DEF DeviceInv, OneBox, PendingOffered
  <2>2. said'.descriptor = None /\ said'.pending = NoReadings
    <3>1. said' = ForgetReported(said)
      BY <1>3 DEF OnConfigChanged
    <3> QED
      BY <2>1, <3>1, ForgetReport DEF ForgetReported, ForgetValues, TypeOK, Said
  <2>3. saved.box = b => saved.present \subseteq PresentMask(cap')
    <3>1. saved.box = b => cap' = RestorePresent(Forget(cap), saved.present)
      BY <1>3 DEF OnConfigChanged
    <3> QED
      BY <3>1 DEF RestorePresent, Forget, PresentMask, TypeOK, Saved
  <2> QED
    BY <1>1, <2>1, <2>2, <2>3 DEF DeviceStep, DeviceInv, DescriptorSent, DeviceSaved,
                                  PendingOffered, Grown, SentDescribed, NoReadings
<1> QED
  BY <1>2, <1>3

\* phi-core and the process: whoever is new has been told nothing.
LEMMA LifecycleDevice ==
    ASSUME TypeOK, NEW b \in Endpoint, DeviceInv(b), OneBox(b)',
           Start \/ Stop \/ Crash \/ OnDisconnected \/ CoreGone \/ CoreBack
    PROVE  DeviceStep(b)
<1>1. CASE Crash
  <2>1. said'.pending = NoReadings /\ said'.descriptor = None /\ core' = core
    BY <1>1 DEF Crash, NothingSaid
  <2>2. endpoint' = None /\ lifecycle' = "Idle" /\ saved' = saved
    BY <1>1 DEF Crash
  <2> QED
    BY <2>1, <2>2, NoneAssumption DEF DeviceStep, DeviceInv, DescriptorSent, DeviceSaved,
           PendingOffered, Grown, NoReadings
<1>2. CASE OnDisconnected
  <2>1. said'.pending = NoReadings /\ said'.descriptor = None
    <3>1. ForgetReported(said) \in Said /\ ForgetReported(said).descriptor = None
      BY SaidType DEF ForgetReported, TypeOK, Said, ForgetValues
    <3> QED
      BY <1>2, <3>1, ForgetReport DEF OnDisconnected, DropPending, Said
  <2>2. lifecycle' = "Paused" /\ UNCHANGED <<endpoint, saved, cap, core>>
    BY <1>2 DEF OnDisconnected
  <2> QED
    BY <2>1, <2>2 DEF DeviceStep, DeviceInv, DescriptorSent, DeviceSaved, PendingOffered,
           Grown, NoReadings
<1>3. CASE CoreGone
  <2>1. core'.device = None /\ ~ipc' /\ UNCHANGED <<endpoint, lifecycle, saved, cap, said>>
    BY <1>3 DEF CoreGone, TypeOK, Core
  <2> QED
    BY <2>1 DEF DeviceStep, DeviceInv, DescriptorSent, DeviceSaved, PendingOffered, Grown,
           SentDescribed
<1>4. CASE Start \/ Stop \/ CoreBack
  BY <1>4 DEF Start, Stop, CoreBack, env, DeviceStep, DeviceInv, DescriptorSent, DeviceSaved,
           PendingOffered, Grown, SentDescribed
<1> QED
  BY <1>1, <1>2, <1>3, <1>4

LEMMA NextDevice ==
    ASSUME NEW b \in Endpoint, Configs \subseteq {b},
           TypeOK, TypeOK', SafetyInv, HostedInv, DeviceInv(b), [Next]_vars
    PROVE  DeviceStep(b)
<1>0. OneBox(b)'
  BY NextOneBox DEF DeviceInv
<1>1. CASE PollReply
  BY <1>1, PollReplyDevice
<1>2. CASE ShotFires
  BY <1>2 DEF ShotFires, HostedInv
<1>3. CASE \E e \in Configs : OnConfigChanged(e)
  BY <1>0, <1>3, OnConfigChangedDevice
<1>4. CASE TableReply
  <2>1. PresentKept
    BY <1>4, TableReplyKeeps DEF DeviceInv
  <2>2. UNCHANGED <<endpoint, lifecycle, ipc, saved, core, said>>
    BY <1>4, ReplyType DEF TableReply, ListPathReply, DocReply, CountReply, EntryReply,
                           TableUnchanged
  <2> QED
    BY <1>0, <2>1, <2>2, AsideDevice
<1>5. CASE \E out \in {"ok", "invalid", "none"} : SetEnableReply(out)
  BY <1>0, <1>5, SetEnableReplyDevice
<1>6. CASE Start \/ Stop \/ Crash \/ OnDisconnected \/ CoreGone \/ CoreBack
  BY <1>0, <1>6, LifecycleDevice
<1>7. CASE \E m \in Mac : OnPairCandidate(m) \/ OnDeviceRemoved(m)
  <2>1. core'.device = core.device
    BY <1>7 DEF OnPairCandidate, OnDeviceRemoved, SaveTracked, TypeOK, Core
  <2>2. UNCHANGED <<endpoint, lifecycle, ipc, saved, said, cap>>
    BY <1>7 DEF OnPairCandidate, OnDeviceRemoved, env
  <2> QED
    BY <1>0, <2>1, <2>2, AsideDevice DEF PresentKept
<1>8. CASE \/ TimerTick \/ OnPairingStart
           \/ \E k \in Cmd, band \in Band, on \in BOOLEAN : OnChannelInvoke(k, band, on)
           \/ BoxSwitches \/ BoxGoesDown \/ BoxComesUp \/ SwitchThrown \/ UNCHANGED vars
  <2>1. UNCHANGED <<endpoint, lifecycle, ipc, saved, core, said, cap>>
    BY <1>8 DEF TimerTick, OnPairingStart, OnChannelInvoke, BoxSwitches, BoxGoesDown,
                BoxComesUp, SwitchThrown, world, vars, env
  <2> QED
    BY <1>0, <2>1, AsideDevice DEF PresentKept
<1> QED
  BY <1>1, <1>2, <1>3, <1>4, <1>5, <1>6, <1>7, <1>8 DEF Next

LEMMA DeviceInvariant ==
    ASSUME NEW b \in Endpoint, Configs \subseteq {b}
    PROVE  Spec => [](TypeOK /\ SafetyInv /\ HostedInv /\ DeviceInv(b))
<1>1. Init => DeviceInv(b)
  BY InitDevice
<1>2. TypeOK /\ TypeOK' /\ SafetyInv /\ HostedInv /\ DeviceInv(b) /\ [Next]_vars => DeviceInv(b)'
  BY NextDevice DEF DeviceStep
<1>3. None \notin Configs
  BY NoneAssumption
<1>4. Spec => []HostedInv
  BY <1>3, HostedInvariant
<1> QED
  BY <1>1, <1>2, <1>4, TypeCorrect, SafetyInvariant, PTL DEF Spec

\* Reports never shrink: across lost answers, restarts and repeated
\* configurations of the one box no descriptor withdraws a channel that the box
\* supplies (announceRouter, restorePresent).
THEOREM NeverShrinksTheorem ==
    ASSUME NEW b \in Endpoint, Configs \subseteq {b}
    PROVE  Spec => NeverShrinks
<1>1. TypeOK /\ TypeOK' /\ SafetyInv /\ HostedInv /\ DeviceInv(b) /\ [Next]_vars
      => [Grown]_vars
  BY NextDevice DEF DeviceStep
<1>2. [Grown]_vars => [NothingWithdrawn]_vars
  BY DEF Grown, NothingWithdrawn
<1> QED
  BY <1>1, <1>2, DeviceInvariant, TypeCorrect, PTL DEF Spec, NeverShrinks

\* An answered poll sends every value that waits after the descriptor that
\* offers its channel, whoever cancelled the poll that read it (finishPoll).
THEOREM AnsweredDescriptorFirstTheorem ==
    ASSUME NEW b \in Endpoint, Configs \subseteq {b}
    PROVE  Spec => AnsweredDescriptorFirst
<1>1. TypeOK /\ TypeOK' /\ SafetyInv /\ HostedInv /\ DeviceInv(b) /\ [Next]_vars
      => [ ipc /\ lifecycle' = "Running" /\ poll'.answered => SentDescribed ]_vars
  BY NextDevice DEF DeviceStep
<1> QED
  BY <1>1, DeviceInvariant, TypeCorrect, PTL DEF Spec, AnsweredDescriptorFirst

-----------------------------------------------------------------------------
(* Nobody cancels a poll.                                                    *)

\* Without listings and writes only a poll that was answered has values that
\* wait: each came with an answer, and the poll goes on.
PendingHeard == said.pending # NoReadings => poll.running /\ poll.answered

LEMMA FinishPollDrops ==
    ASSUME NEW p, NEW s \in Said, NEW c, FinishPoll(p, s, c)
    PROVE  said'.pending = NoReadings
<1> DEFINE recorded == [s EXCEPT !.descriptor = Descriptor]
<1>1. said' \in {DropPending(s), DropPending(recorded), DropPending(ForgetValues(recorded))}
  BY DEF FinishPoll, SaidAnnounced
<1>2. recorded.pending = s.pending /\ ForgetValues(recorded).pending = s.pending
  BY DEF ForgetValues, Said
<1> HIDE DEF recorded
<1>3. ASSUME NEW r, r.pending = s.pending, said' = DropPending(r)
      PROVE  said'.pending = NoReadings
  <2>1. /\ DOMAIN ForgetValues(recorded) = DOMAIN recorded
        /\ DOMAIN recorded = DOMAIN s /\ "pending" \in DOMAIN s
    BY DEF ForgetValues, recorded, Said
  <2> QED
    BY <1>3, <2>1 DEF DropPending, NoReadings, Said, Readings
<1> QED
  BY <1>1, <1>2, <1>3

LEMMA PollReplyHeard ==
    ASSUME TypeOK, SafetyInv, HostedInv, PendingHeard, PollReply,
           ipc /\ poll'.answered => SentDescribed
    PROVE  PendingHeard' /\ (ipc => SentDescribed)
<1>1. said \in Said /\ \A ch \in Channel, v \in Reading : Record(said, ch, v, TRUE) \in Said
  BY SaidType DEF TypeOK
<1>2. PICK p \in Poll, s \in Said :
        /\ p.running /\ (poll.answered => p.answered)
        /\ s = said \/ p.answered
        /\ RunStep(None, shots, p, s, core)
  BY <1>1, PollReplyReads
<1>3. CASE FinishPoll(p, s, core)
  <2>1. said'.pending = NoReadings /\ poll'.answered = p.answered
    BY <1>3, FinishPollDrops DEF FinishPoll, Poll
  <2>2. ~p.answered => said.pending = NoReadings
    BY <1>2 DEF PendingHeard
  <2> QED
    BY <2>1, <2>2 DEF PendingHeard, SentDescribed, NoReadings
<1>4. CASE said' = s /\ \E todo : poll' = [p EXCEPT !.todo = todo]
  <2>1. poll'.running /\ poll'.answered = p.answered
    BY <1>2, <1>4 DEF Poll
  <2> QED
    BY <1>2, <1>4, <2>1 DEF PendingHeard, SentDescribed
<1> QED
  BY <1>2, <1>3, <1>4 DEF RunStep

LEMMA NextHeard ==
    ASSUME NEW b \in Endpoint, Configs \subseteq {b}, Cmd = {}, "list" \notin Disturbances,
           TypeOK, TypeOK', SafetyInv, HostedInv, DeviceInv(b), PendingHeard, [Next]_vars
    PROVE  /\ PendingHeard'
           /\ ipc /\ lifecycle' = "Running" => SentDescribed
<1>0. None \notin Configs
  BY NoneAssumption
<1>a. ASSUME said'.pending = said.pending, UNCHANGED poll \/ ~poll.running
      PROVE  PendingHeard' /\ SentDescribed
  BY <1>a DEF PendingHeard, SentDescribed
<1>1. CASE PollReply
  <2>1. lifecycle = "Running" /\ lifecycle' = "Running"
    BY <1>1, PollReplyHosted
  <2>2. ipc /\ poll'.answered => SentDescribed
    BY <2>1, NextDevice DEF DeviceStep
  <2> QED
    BY <1>1, <2>2, PollReplyHeard
<1>2. CASE ShotFires
  BY <1>2 DEF ShotFires, HostedInv
<1>3. CASE TimerTick
  BY <1>3, <1>a, TimerTickHosted DEF TimerTick
<1>4. CASE \E e \in Configs : OnConfigChanged(e)
  <2>1. said'.pending = said.pending
    BY <1>4, ForgetReport DEF OnConfigChanged, TypeOK
  <2> QED
    BY <1>0, <1>4, <1>a, <2>1, OnConfigChangedHosted
<1>5. CASE TableReply \/ \E out \in {"ok", "invalid", "none"} : SetEnableReply(out)
  <2>1. ~poll.running
    BY <1>5, OtherReplyHosted
  <2>2. \A ch, v : Record(said, ch, v, poll.running).pending = said.pending
    BY <2>1 DEF Record, TypeOK, Said, Readings
  <2>3. said'.pending = said.pending
    BY <1>5, <2>2 DEF TableReply, ListPathReply, DocReply, CountReply, EntryReply,
                      TableUnchanged, SetEnableReply
  <2> QED
    BY <1>a, <2>1, <2>3
<1>6. CASE \/ \E k \in Cmd, band \in Band, on \in BOOLEAN : OnChannelInvoke(k, band, on)
           \/ OnPairingStart
  BY <1>6 DEF OnPairingStart, Spend
<1>7. CASE Crash \/ OnDisconnected
  <2>1. said'.pending = NoReadings /\ lifecycle' # "Running"
    <3>1. ForgetReported(said) \in Said
      BY SaidType DEF TypeOK
    <3> QED
      BY <1>7, <3>1, ForgetReport DEF Crash, OnDisconnected, NothingSaid
  <2> QED
    BY <2>1 DEF PendingHeard
<1>8. CASE Start \/ Stop \/ CoreGone \/ CoreBack
  BY <1>8, <1>a DEF Start, Stop, CoreGone, CoreBack
<1>9. CASE \/ BoxSwitches \/ BoxGoesDown \/ BoxComesUp \/ SwitchThrown
           \/ \E m \in Mac : OnPairCandidate(m) \/ OnDeviceRemoved(m)
           \/ UNCHANGED vars
  BY <1>9, <1>a DEF BoxSwitches, BoxGoesDown, BoxComesUp, SwitchThrown, world,
                    OnPairCandidate, OnDeviceRemoved, vars
<1> QED
  BY <1>1, <1>2, <1>3, <1>4, <1>5, <1>6, <1>7, <1>8, <1>9 DEF Next

\* The descriptor comes first, of an instance that neither lists nor writes: no
\* poll then leaves values behind for one that fails (finishPoll).
THEOREM DescriptorFirstTheorem ==
    ASSUME NEW b \in Endpoint, Configs \subseteq {b}, Cmd = {}, "list" \notin Disturbances
    PROVE  Spec => DescriptorFirst
<1>1. Init => PendingHeard
  BY DEF Init, PendingHeard, NothingSaid
<1>2. TypeOK /\ TypeOK' /\ SafetyInv /\ HostedInv /\ DeviceInv(b) /\ PendingHeard /\ [Next]_vars
      => PendingHeard' /\ [ ipc /\ lifecycle' = "Running" => SentDescribed ]_vars
  BY NextHeard
<1> QED
  BY <1>1, <1>2, DeviceInvariant, TypeCorrect, PTL DEF Spec, DescriptorFirst
=============================================================================
