--------------------------- MODULE FritzInstance ----------------------------
(* One instance of the FRITZ!Box adapter (fritz_instance.cpp): a poll of the *)
(* router made of one TR-064 call after the other, the user's writes and     *)
(* listings that cancel it, the configuration that redirects it, and what    *)
(* phi-core comes to know through the reports.                               *)
(*                                                                           *)
(* Every handler runs to its end on one loop, so an action is one handler:   *)
(* a call from phi-core, a timer, a 0 ms shot, or the answer of the call in  *)
(* flight with everything up to the next call it issues.                     *)
EXTENDS Naturals, Capabilities, Reachability, Reported

CONSTANTS
    Endpoint,      \* the boxes an address may lead to
    Mac,           \* addresses of network clients
    Leavers,       \* the clients a host table may be without
    Band,          \* the WLANs that are asked: "Wlan24", "Wlan5"
    Implements,    \* the features each box has
    Configs,       \* the endpoints a user may configure; None is no host
    Cmd,           \* channel.invoke commands
    SlowPollEvery, \* every how many polls is a slow one: 12
    Disturbances,  \* bound: the kinds of disturbance that may happen, see Spend
    MaxEvents      \* bound: how many of them in a behaviour

Rate == {"tx", "rx"}
Channel == {"uptime", "update"} \cup Rate \cup Band
HostList == {"AvmHostListPath", "StandardHostListPath"}
UpdateInfo == {"UserInterfaceInfo", "AutoUpdateInfo"}
Feature == HostList \cup UpdateInfo \cup {"ByteCounters"} \cup Band

ASSUME BandAssumption == Band \subseteq {"Wlan24", "Wlan5"}
ASSUME NoneAssumption ==
    None \notin Endpoint \cup Mac \cup Cmd \cup Channel \cup Feature \cup {"Wlan24", "Wlan5"}
ASSUME BoxAssumption == Implements \in [Endpoint -> SUBSET Feature]
ASSUME ConfigAssumption == Configs \subseteq Endpoint \cup {None}
ASSUME LeaverAssumption == Leavers \subseteq Mac
ASSUME SlowAssumption == SlowPollEvery \in Nat \ {0}
ASSUME BoundAssumption == MaxEvents \in Nat

VARIABLES
    lifecycle,  \* m_lifecycle
    endpoint,   \* endpoint(), and the session's base URL; None when empty
    identity,   \* m_routerName, m_routerFirmware: the box they came from
    call,       \* the call in flight
    write,      \* what SetEnable's callback holds, and whether the box has acted
    table,      \* what the host table's callbacks hold
    shots,      \* pending 0 ms calls of runStep()
    poll,       \* m_pollRunning, m_steps from m_stepIndex, m_pollAnswered, sightings
    sinceSlow,  \* m_pollsSinceSlow
    cap,        \* m_capabilities
    meter,      \* per rate, the box of the previous sample
    said,       \* m_reported and m_pendingReports
    link,       \* m_connected, m_router, m_nextPollMs, m_pollTimer
    tracker,    \* m_tracker
    saved,      \* router.json
    core,       \* phi-core: the device and values it shows, the tracked list
    ipc,        \* phi-core is connected
    conf,       \* the endpoint the user has configured
    unsent,     \* phi-core still owes the configuration
    cmd,        \* the commands
    up,         \* the boxes that answer
    switch,     \* the WLAN switches of the boxes
    budget      \* disturbances left

env == <<ipc, conf, unsent, up, switch>>
vars == <<lifecycle, endpoint, identity, call, write, table, shots, poll, sinceSlow,
          cap, meter, said, link, tracker, saved, core, cmd, budget, env>>

-----------------------------------------------------------------------------
(* The shape of the state.                                                   *)

\* A reading: the box it is of, and for a switch its position, for a rate
\* whether both samples are of that box, for the uptime a later one.
Reading == [box : Endpoint, on : BOOLEAN]
NoReadings == [ch \in Channel |-> None]
Readings == [Channel -> Reading \cup {None}]

Device == [name : Endpoint \cup {None}, channels : SUBSET Channel]

\* The questions of a poll, and what each asks about.
Kind == {"Info", "Host", "Bytes", "Wlan", "Update"}
Update == [kind |-> "Update", arg |-> None]
Step ==
    [kind : {"Host"}, arg : Mac] \cup [kind : {"Bytes"}, arg : Rate]
    \cup [kind : {"Wlan"}, arg : Band] \cup {Update}
Call ==
    [kind : {"Info", "Doc", "Count", "Entry"}, arg : {None}, to : Endpoint]
    \cup [kind : {"Host"}, arg : Mac, to : Endpoint]
    \cup [kind : {"Bytes"}, arg : Rate, to : Endpoint]
    \cup [kind : {"Wlan", "SetEnable"}, arg : Band, to : Endpoint]
    \cup [kind : {"Update"}, arg : UpdateInfo, to : Endpoint]
    \cup [kind : {"ListPath"}, arg : HostList, to : Endpoint]

ASSUME NothingAssumption == None \notin Call \cup Reading \cup Device

Poll == [running : BOOLEAN, todo : SUBSET Step, answered : BOOLEAN,
         seen : SUBSET Mac, complete : BOOLEAN]
Idle == [running |-> FALSE, todo |-> {}, answered |-> FALSE, seen |-> {},
         complete |-> TRUE]

Table == [rest : SUBSET Mac, seen : SUBSET Mac, complete : BOOLEAN]
Write == [cmd : Cmd \cup {None}, on : BOOLEAN, applied : BOOLEAN]
Said == [value : Readings, descriptor : Device \cup {None}, pending : Readings]
Tracker == [tracked : SUBSET Mac, known : SUBSET Mac, leaving : SUBSET Mac]
Saved == [box : Endpoint \cup {None}, present : SUBSET Feature]
Core == [device : Device \cup {None}, value : Readings, meta : SUBSET Mac]

NoTable == [rest |-> {}, seen |-> {}, complete |-> TRUE]
NoWrite == [cmd |-> None, on |-> FALSE, applied |-> FALSE]
NoSamples == [r \in Rate |-> None]
NothingSaid == [value |-> NoReadings, descriptor |-> None, pending |-> NoReadings]

TypeOK ==
    /\ lifecycle \in {"Idle", "Running", "Paused", "Stopped"}
    /\ endpoint \in Endpoint \cup {None}
    /\ identity \in Endpoint \cup {None}
    /\ call \in Call \cup {None}
    /\ write \in Write
    /\ table \in Table
    /\ shots \in Nat
    /\ poll \in Poll
    /\ sinceSlow \in 0 .. SlowPollEvery
    /\ cap \in [Feature -> Availability]
    /\ meter \in [Rate -> Endpoint \cup {None}]
    /\ said \in Said
    /\ link \in Link
    /\ tracker \in Tracker
    /\ saved \in Saved
    /\ core \in Core
    /\ ipc \in BOOLEAN
    /\ conf \in Endpoint \cup {None}
    /\ unsent \in BOOLEAN
    /\ cmd \in [Cmd -> {"new", "waiting", "done", "dropped"}]
    /\ up \in SUBSET Endpoint
    /\ switch \in [Endpoint -> [Band -> BOOLEAN]]
    /\ budget \in 0 .. MaxEvents

Init ==
    /\ lifecycle = "Idle" /\ endpoint = None /\ identity = None
    /\ call = None /\ write = NoWrite /\ table = NoTable /\ shots = 0
    /\ poll = Idle /\ sinceSlow = 0
    /\ cap = [f \in Feature |-> "Unknown"] /\ meter = NoSamples
    /\ said = NothingSaid /\ link = InitLink
    /\ \E picked \in SUBSET Mac :
          /\ tracker = [tracked |-> {}, known |-> picked, leaving |-> {}]
          /\ core = [device |-> None, value |-> NoReadings, meta |-> picked]
    /\ saved = [box |-> None, present |-> {}]
    /\ ipc = FALSE /\ unsent = TRUE /\ conf \in Configs
    /\ cmd = [k \in Cmd |-> "new"]
    /\ up = Endpoint
    /\ switch \in [Endpoint -> [Band -> BOOLEAN]]
    /\ budget = MaxEvents

\* One disturbance from outside: an answer is lost ("loss"), a box goes down
\* ("box"), its switch is thrown ("switch"), the user edits the
\* configuration ("edit"), lists the clients ("list") or picks and removes one
\* ("pick"), phi-core or the process goes away ("restart").
Spend(kind) == kind \in Disturbances /\ budget > 0 /\ budget' = budget - 1

-----------------------------------------------------------------------------
(* phi-core, as far as the adapter relies on it: a value for a channel it    *)
(* does not know is rejected, and nothing arrives while it is gone.          *)

Knows(c, ch) == c.device # None /\ ch \in c.device.channels

Show(c, ch, v) ==
    IF ipc /\ Knows(c, ch) THEN [c EXCEPT !.value[ch] = v] ELSE c

\* flushPendingReports().
Discard(s, c) == c
Flush(s, c) ==
    [c EXCEPT !.value = [ch \in Channel |->
        IF s.pending[ch] # None /\ ipc /\ Knows(c, ch) THEN s.pending[ch] ELSE @[ch]]]

\* ClientTracker: a complete snapshot starts the away delay of every tracked
\* client that is not in it.
Sighted(t, seen) ==
    [t EXCEPT !.known = @ \cup seen, !.leaving = t.tracked \ seen]

SetTracked(t, macs) == [t EXCEPT !.tracked = macs, !.leaving = @ \cap macs]

-----------------------------------------------------------------------------
(* What the box answers.                                                     *)

\* What a box has to implement to answer a question.
Needs(q) ==
    CASE q.kind \in {"Wlan", "SetEnable", "Update", "ListPath"} -> {q.arg}
      [] q.kind = "Bytes" -> {"ByteCounters"}
      [] OTHER -> {}

Implemented(q) == Needs(q) \subseteq Implements[q.to]

\* "invalid": Invalid Action. "none": no answer. "fault": no such entry, which a
\* box is assumed to say only of a client that may be missing from its table.
Answers(q) ==
    IF q.to \notin up THEN {"none"}
    ELSE {"none"} \cup IF ~Implemented(q) THEN {"invalid"}
                       ELSE IF q.kind = "Host" /\ q.arg \in Leavers THEN {"ok", "fault"}
                       ELSE {"ok"}

\* The call in flight comes back; a box that is up answers unless it is disturbed.
Reply(kind, out) ==
    /\ call # None /\ call.kind = kind /\ out \in Answers(call)
    /\ IF out = "none" /\ call.to \in up THEN Spend("loss") ELSE UNCHANGED budget
    /\ UNCHANGED <<lifecycle, endpoint, sinceSlow, env>>

-----------------------------------------------------------------------------
(* The poll.                                                                 *)

Ask(kind, arg, to) == [kind |-> kind, arg |-> arg, to |-> to]

\* m_steps after the first, in the order they are pushed: the tracked clients
\* (in any order), the counters, the WLANs, the update state.
Rank(s) ==
    CASE s.kind = "Host" -> 1
      [] s.arg = "tx" -> 2
      [] s.arg = "rx" -> 3
      [] s.arg = "Wlan24" -> 4
      [] s.arg = "Wlan5" -> 5
      [] OTHER -> 6

WorthAsking(c) == \E f \in UpdateInfo : WorthTrying(c, f)

\* The steps beginPoll() pushes after stepDeviceInfo.
Steps(c, tracked, slow) ==
    {[kind |-> "Host", arg |-> m] : m \in tracked}
    \cup (IF WorthTrying(c, "ByteCounters")
          THEN {[kind |-> "Bytes", arg |-> r] : r \in Rate} ELSE {})
    \cup (IF slow THEN {[kind |-> "Wlan", arg |-> b] : b \in Band} ELSE {})
    \cup (IF slow /\ WorthAsking(c) THEN {Update} ELSE {})

\* stepUpdateState() asks the newer place first and goes on without a call when
\* neither is worth asking; being the last step, it can be left out then.
Due(todo, c) == IF WorthAsking(c) THEN todo ELSE todo \ {Update}

Question(s, c, to) ==
    IF s # Update THEN Ask(s.kind, s.arg, to)
    ELSE Ask("Update", IF WorthTrying(c, "UserInterfaceInfo") THEN "UserInterfaceInfo"
                       ELSE "AutoUpdateInfo", to)

\* m_pollsSinceSlow once a poll has begun; every SlowPollEvery-th is a slow one.
Slow(n) == n + 1 >= SlowPollEvery
NeverReset(n) == n + 1
AlwaysReset(n) == 0
SinceSlow(n) == IF Slow(n) THEN 0 ELSE n + 1

\* beginPoll() at link l, with m_pollsSinceSlow = n.
BeginPoll(l, n) ==
    \/ /\ poll.running \/ call # None
       /\ link' = l /\ sinceSlow' = n
       /\ UNCHANGED <<call, poll>>
    \/ /\ ~poll.running /\ call = None /\ endpoint' = None
       /\ link' = NoteFailure(l) /\ sinceSlow' = n
       /\ UNCHANGED <<call, poll>>
    \/ /\ ~poll.running /\ call = None /\ endpoint' # None
       /\ sinceSlow' = SinceSlow(n)
       /\ poll' = [Idle EXCEPT !.running = TRUE,
                               !.todo = Steps(cap', tracker'.tracked, Slow(n))]
       /\ call' = Ask("Info", None, endpoint')
       /\ link' = l

\* The channels of buildRouterChannels(), from what is known of the box.
Offered(c) ==
    {"uptime"}
    \cup (IF \E f \in UpdateInfo : IsPresent(c, f) THEN {"update"} ELSE {})
    \cup {b \in Band : IsPresent(c, b)}
    \cup (IF IsPresent(c, "ByteCounters") THEN Rate ELSE {})

Descriptor == [name |-> identity', channels |-> Offered(cap')]

ValuesKept(s) == [s EXCEPT !.descriptor = Descriptor]

\* announceRouter(): the descriptor is recorded before it is sent, and only a
\* sent one makes the values news again and is saved.
SaidAnnounced(s) ==
    LET recorded == [s EXCEPT !.descriptor = Descriptor]
    IN  IF s.descriptor = Descriptor THEN s
        ELSE IF ipc THEN ForgetValues(recorded) ELSE recorded

CoreAnnounced(s, c) ==
    IF s.descriptor = Descriptor \/ ~ipc THEN c
    ELSE [c EXCEPT !.device = Descriptor,
                   !.value = [ch \in Channel |->
                       IF ch \in Descriptor.channels THEN @[ch] ELSE None]]

SavedAnnounced(s) ==
    IF s.descriptor = Descriptor \/ ~ipc THEN saved
    ELSE [box |-> endpoint, present |-> PresentMask(cap')]

\* The descriptor first, then the values that waited for it.
ValuesFirst(s, c) == CoreAnnounced(s, Flush(s, c))
DescriptorThenValues(s, c) == Flush(s, CoreAnnounced(s, c))

\* finishPoll().
FinishPoll(p, s, c) ==
    /\ poll' = [p EXCEPT !.running = FALSE, !.todo = {}]
    /\ \/ /\ p.answered
          /\ link' = NoteAnswer(link)
          /\ said' = DropPending(SaidAnnounced(s))
          /\ core' = DescriptorThenValues(s, c)
          /\ saved' = SavedAnnounced(s)
          /\ tracker' = IF p.complete THEN Sighted(tracker, p.seen) ELSE tracker
       \/ /\ ~p.answered
          /\ link' = NoteFailure(link)
          /\ said' = DropPending(s)
          /\ core' = Flush(s, c)
          /\ UNCHANGED <<saved, tracker>>

\* m_stepIndex++: what is left of the steps once one of them is taken.
NotAdvanced(todo, s) == todo
Advanced(todo, s) == todo \ {s}

\* stepIssued(false): a 0 ms shot stands in for the reply.
StepDropped(left) == left
StepNotIssued(left) == left + 1

\* runStep() of a running instance, with the call `busy` in flight and `left`
\* shots pending.  A step is given up when it cannot be issued.
RunStep(busy, left, p, s, c) ==
    LET due == Due(p.todo, cap')
    IN  \/ /\ due = {}
           /\ FinishPoll(p, s, c)
           /\ call' = busy /\ shots' = left
        \/ /\ \E step \in due :
                 /\ \A other \in due : Rank(step) <= Rank(other)
                 /\ poll' = [p EXCEPT !.todo = Advanced(due, step)]
                 /\ \/ /\ busy = None /\ endpoint # None
                       /\ call' = Question(step, cap', endpoint) /\ shots' = left
                    \/ /\ busy # None \/ endpoint = None
                       /\ call' = busy /\ shots' = StepNotIssued(left)
           /\ said' = s /\ core' = c
           /\ UNCHANGED <<link, saved, tracker>>

\* The reply of a step, with the reading it reports, None for no report.
Continue(p, ch, v) ==
    /\ IF v = None THEN RunStep(None, shots, p, said, core)
       ELSE RunStep(None, shots, p, Record(said, ch, v, poll.running),
                    IF SentAtOnce(said, ch, v, poll.running) THEN Show(core, ch, v) ELSE core)
    /\ UNCHANGED <<write, table, cmd>>

Answered(out) == [poll EXCEPT !.answered = @ \/ out = "ok"]

\* A feature is recorded from the answer of a question that needs it.
SilenceIsAbsence(f, out) ==
    cap' = IF out = "ok" THEN MarkPresent(cap, f) ELSE MarkAbsent(cap, f)
Learn(f, out) ==
    cap' = CASE out = "ok" -> MarkPresent(cap, f)
             [] out = "invalid" -> MarkAbsent(cap, f)
             [] OTHER -> cap

\* stepDeviceInfo: a later uptime is never the one reported before.
InfoReply(out) ==
    /\ Reply("Info", out)
    /\ identity' = IF out = "ok" THEN call.to ELSE identity
    /\ UNCHANGED <<cap, meter>>
    /\ LET last == said.value["uptime"]
           uptime == [box |-> call.to, on |-> IF last = None THEN FALSE ELSE ~last.on]
       IN  Continue(Answered(out), "uptime", IF out = "ok" THEN uptime ELSE None)

\* stepHost: a fault says the client is not in the table, no answer says nothing.
SilenceIsFault(p, m, out) ==
    [p EXCEPT !.seen = IF out = "ok" THEN @ \cup {m} ELSE @]
Heard(p, m, out) ==
    [p EXCEPT !.seen = IF out = "ok" THEN @ \cup {m} ELSE @,
              !.complete = @ /\ out # "none"]

HostReply(out) ==
    /\ Reply("Host", out)
    /\ UNCHANGED <<identity, cap, meter>>
    /\ Continue(Heard(Answered(out), call.arg, out), "uptime", None)

\* stepBytes: a rate needs two samples, and a counter that went backwards or a
\* clock that did not move gives none.
BytesReply(out) ==
    /\ Reply("Bytes", out)
    /\ Learn("ByteCounters", out)
    /\ meter' = IF out = "ok" THEN [meter EXCEPT ![call.arg] = call.to] ELSE meter
    /\ UNCHANGED identity
    /\ LET last == meter[call.arg]
           rates == IF out # "ok" \/ last = None THEN {None}
                    ELSE {None, [box |-> call.to, on |-> last = call.to]}
       IN  \E v \in rates : Continue(Answered(out), call.arg, v)

\* stepWlan.
WlanReply(out) ==
    /\ Reply("Wlan", out)
    /\ Learn(call.arg, out)
    /\ UNCHANGED <<identity, meter>>
    /\ Continue(Answered(out), call.arg,
                IF out = "ok" THEN [box |-> call.to, on |-> switch[call.to][call.arg]]
                ELSE None)

\* stepUpdateState and stepLegacyUpdateInfo: Invalid Action from the newer
\* place sends the question to the older one.
Legacy(q, out) == q.arg = "UserInterfaceInfo" /\ out = "invalid"

UpdateReply(out) ==
    /\ Reply("Update", out)
    /\ Learn(call.arg, out)
    /\ UNCHANGED <<identity, meter>>
    /\ LET p == Answered(out)
       IN  Continue(IF Legacy(call, out) THEN [p EXCEPT !.todo = @ \cup {Update}] ELSE p,
                    "update",
                    IF out = "ok" THEN [box |-> call.to, on |-> TRUE] ELSE None)

PollReply == \E out \in {"ok", "invalid", "fault", "none"} :
    InfoReply(out) \/ HostReply(out) \/ BytesReply(out) \/ WlanReply(out) \/ UpdateReply(out)

\* The lambda of stepIssued(): a step that could not be issued goes on.
ShotFires ==
    /\ shots > 0
    /\ UNCHANGED <<lifecycle, endpoint, sinceSlow, env, budget, identity, cap, meter,
                   write, table, cmd>>
    /\ \/ /\ lifecycle = "Running"
          /\ RunStep(call, shots - 1, poll, said, core)
       \/ /\ lifecycle # "Running"
          /\ poll' = [poll EXCEPT !.running = FALSE]
          /\ shots' = shots - 1
          /\ UNCHANGED <<call, said, core, link, saved, tracker>>

\* The poll timer.
TimerTick ==
    /\ lifecycle = "Running" /\ link.armed
    /\ UNCHANGED <<lifecycle, endpoint, identity, write, table, shots, cap, meter, said,
                   tracker, saved, core, cmd, budget, env>>
    /\ BeginPoll(link, sinceSlow)

-----------------------------------------------------------------------------
(* Configuration and lifecycle.                                              *)

\* onConfigChanged with applyConfig: phi-core owes the configuration to an
\* instance that connects, and sends it again whenever the user edits it.  Only
\* another endpoint forgets; the call in flight and the running poll go on.
OnConfigChanged(e) ==
    /\ ipc /\ lifecycle \in {"Running", "Paused"}
    /\ IF unsent THEN e = conf /\ UNCHANGED budget ELSE Spend("edit")
    /\ conf' = e /\ unsent' = FALSE
    /\ lifecycle' = "Running" /\ endpoint' = e
    /\ tracker' = SetTracked(tracker, core.meta)
    /\ LET moved == e # endpoint
           mask == IF saved.box = e THEN saved.present ELSE {}
           fresh == [link EXCEPT !.misses = 0, !.wait = 0]
       IN  /\ cap' = IF moved THEN RestorePresent(Forget(cap), mask) ELSE cap
           /\ said' = IF moved THEN ForgetReported(said) ELSE said
           /\ meter' = IF moved THEN NoSamples ELSE meter
           /\ BeginPoll(Arm(IF moved THEN SetConnected(fresh, FALSE) ELSE fresh),
                        SlowPollEvery)
    /\ UNCHANGED <<identity, write, table, shots, saved, core, ipc, cmd, up, switch>>

\* start() of a new process, which phi-core finds connected.
Start ==
    /\ lifecycle = "Idle"
    /\ lifecycle' = "Running" /\ ipc' = TRUE /\ unsent' = TRUE
    /\ UNCHANGED <<endpoint, identity, call, write, table, shots, poll, sinceSlow, cap, meter,
                   said, link, tracker, saved, core, conf, cmd, up, switch, budget>>

\* onDisconnected().
OnDisconnected ==
    /\ ~ipc /\ lifecycle = "Running"
    /\ lifecycle' = "Paused"
    /\ call' = None /\ poll' = [poll EXCEPT !.running = FALSE]
    /\ said' = DropPending(ForgetReported(said))
    /\ meter' = NoSamples
    /\ link' = Paused(link)
    /\ UNCHANGED <<endpoint, identity, write, table, shots, sinceSlow, cap, tracker, saved,
                   core, cmd, budget, env>>

\* stop() and releaseLoopResources(): nothing runs any more.
Stop ==
    /\ Spend("restart")
    /\ lifecycle \in {"Running", "Paused"}
    /\ lifecycle' = "Stopped"
    /\ call' = None /\ shots' = 0
    /\ link' = [link EXCEPT !.connected = FALSE, !.armed = FALSE, !.timer = 0]
    /\ UNCHANGED <<endpoint, identity, write, table, poll, sinceSlow, cap, meter, said,
                   tracker, saved, core, cmd, env>>

Forsaken == [k \in Cmd |-> IF cmd[k] = "waiting" THEN "dropped" ELSE cmd[k]]

\* The process dies, or ends after stop(); router.json and what the tracker
\* has seen are on disk.
Crash ==
    /\ IF lifecycle = "Stopped" THEN UNCHANGED budget ELSE lifecycle # "Idle" /\ Spend("restart")
    /\ lifecycle' = "Idle" /\ endpoint' = None /\ identity' = None
    /\ call' = None /\ write' = NoWrite /\ table' = NoTable /\ shots' = 0
    /\ poll' = Idle /\ sinceSlow' = 0
    /\ cap' = Forget(cap) /\ meter' = NoSamples
    /\ said' = NothingSaid /\ link' = InitLink
    /\ tracker' = [tracker EXCEPT !.tracked = {}]
    /\ ipc' = FALSE /\ cmd' = Forsaken
    /\ UNCHANGED <<saved, core, conf, unsent, up, switch>>

\* phi-core goes away, and with it what it shows; until onDisconnected runs,
\* what the adapter sends is lost.
CoreGone ==
    /\ ipc /\ Spend("restart")
    /\ ipc' = FALSE /\ cmd' = Forsaken
    /\ core' = [core EXCEPT !.device = None, !.value = NoReadings]
    /\ UNCHANGED <<lifecycle, endpoint, identity, call, write, table, shots, poll, sinceSlow,
                   cap, meter, said, link, tracker, saved, conf, unsent, up, switch>>

\* phi-core comes back; a 0 ms shot is due long before a connection is.
CoreBack ==
    /\ ~ipc /\ lifecycle = "Paused" /\ shots = 0
    /\ ipc' = TRUE /\ unsent' = TRUE
    /\ UNCHANGED <<lifecycle, endpoint, identity, call, write, table, shots, poll, sinceSlow,
                   cap, meter, said, link, tracker, saved, core, conf, cmd, up, switch, budget>>

-----------------------------------------------------------------------------
(* What the user does.                                                       *)

\* phi-core speaks to an instance it has configured.
Addressed == ipc /\ ~unsent /\ lifecycle # "Idle"

Serving == lifecycle = "Running" /\ endpoint # None

\* onChannelInvoke: a write takes the session from whatever uses it.
OnChannelInvoke(k, b, on) ==
    /\ Addressed /\ cmd[k] = "new" /\ Knows(core, b)
    /\ \/ /\ ~Serving
          /\ cmd' = [cmd EXCEPT ![k] = "done"]
          /\ UNCHANGED <<call, poll, write>>
       \/ /\ Serving
          /\ call' = Ask("SetEnable", b, endpoint)
          /\ poll' = [poll EXCEPT !.running = FALSE]
          /\ write' = [cmd |-> k, on |-> on, applied |-> FALSE]
          /\ cmd' = [cmd EXCEPT ![k] = "waiting"]
    /\ UNCHANGED <<lifecycle, endpoint, identity, table, shots, sinceSlow, cap, meter, said,
                   link, tracker, saved, core, budget, env>>

\* The box acts on SetEnable before it answers.
BoxSwitches ==
    /\ call # None /\ call.kind = "SetEnable" /\ ~write.applied
    /\ call.to \in up /\ Implemented(call)
    /\ write' = [write EXCEPT !.applied = TRUE]
    /\ switch' = [switch EXCEPT ![call.to][call.arg] = write.on]
    /\ UNCHANGED <<lifecycle, endpoint, identity, call, table, shots, poll, sinceSlow, cap, meter,
                   said, link, tracker, saved, core, cmd, budget, ipc, conf, unsent, up>>

\* The callback of SetEnable: the value is recorded and sent, then the result.
SetEnableReply(out) ==
    /\ Reply("SetEnable", out)
    /\ out = "ok" => write.applied
    /\ LET v == [box |-> call.to, on |-> write.on]
           ch == call.arg
       IN  IF out = "ok"
           THEN /\ said' = Record(said, ch, v, poll.running)
                /\ core' = IF SentAtOnce(said, ch, v, poll.running)
                           THEN Show(core, ch, v) ELSE core
           ELSE UNCHANGED <<said, core>>
    /\ cmd' = [cmd EXCEPT ![write.cmd] = "done"]
    /\ call' = None
    /\ UNCHANGED <<identity, write, table, shots, poll, cap, meter, link, tracker, saved>>

\* onPairingStart and readHostTable: the listing takes the session as a write does.
OnPairingStart ==
    /\ Addressed /\ Serving /\ Spend("list")
    /\ call' = Ask("ListPath", IF WorthTrying(cap, "AvmHostListPath") THEN "AvmHostListPath"
                               ELSE "StandardHostListPath", endpoint)
    /\ poll' = [poll EXCEPT !.running = FALSE]
    /\ UNCHANGED <<lifecycle, endpoint, identity, write, table, shots, sinceSlow, cap, meter, said,
                   link, tracker, saved, core, cmd, env>>

\* Picks are saved to the adapter meta, where the next configuration has them.
TrackOnly(t) == tracker' = t /\ UNCHANGED core
SaveTracked(t) == tracker' = t /\ core' = [core EXCEPT !.meta = t.tracked]

\* onPairCandidate, of a client the tracker has seen.
OnPairCandidate(m) ==
    /\ Addressed /\ Spend("pick") /\ m \in tracker.known \ tracker.tracked
    /\ SaveTracked(SetTracked(tracker, tracker.tracked \cup {m}))
    /\ UNCHANGED <<lifecycle, endpoint, identity, call, write, table, shots, poll, sinceSlow,
                   cap, meter, said, link, saved, cmd, env>>

\* onDeviceRemoved.
OnDeviceRemoved(m) ==
    /\ Addressed /\ Spend("pick") /\ m \in tracker.tracked
    /\ SaveTracked(SetTracked(tracker, tracker.tracked \ {m}))
    /\ UNCHANGED <<lifecycle, endpoint, identity, call, write, table, shots, poll, sinceSlow,
                   cap, meter, said, link, saved, cmd, env>>

-----------------------------------------------------------------------------
(* The host table of a listing, one call after the other.                    *)

\* The next call of the chain; without an endpoint the chain ends unheard.
Proceed(kind, arg) == call' = IF endpoint = None THEN None ELSE Ask(kind, arg, endpoint)

TableUnchanged == UNCHANGED <<identity, write, shots, poll, meter, said, link, saved, core, cmd>>

\* completeHostTable(): only a complete table is a snapshot for the tracker.
Complete(hosts, complete) ==
    /\ call' = None
    /\ tracker' = IF complete THEN Sighted(tracker, hosts) ELSE tracker

Hosts == {hosts \in SUBSET Mac : Mac \ Leavers \subseteq hosts}

ListPathReply(out) ==
    /\ Reply("ListPath", out)
    /\ Learn(call.arg, out)
    /\ Proceed(IF out = "ok" THEN "Doc" ELSE "Count", None)
    /\ UNCHANGED <<table, tracker>> /\ TableUnchanged

\* fetchHostList: a document without hosts is no document.
DocReply(out) ==
    /\ Reply("Doc", out)
    /\ \E hosts \in IF out = "ok" THEN Hosts ELSE {{}} :
          IF hosts = {} THEN Proceed("Count", None) /\ UNCHANGED tracker
          ELSE Complete(hosts, TRUE)
    /\ UNCHANGED <<cap, table>> /\ TableUnchanged

\* enumerateHosts: no count is a count of 0, of a table that is not complete.
CountReply(out) ==
    /\ Reply("Count", out)
    /\ \E hosts \in IF out = "ok" THEN Hosts ELSE {{}} :
          /\ table' = [rest |-> hosts, seen |-> {}, complete |-> out = "ok"]
          /\ IF hosts = {} THEN Complete({}, out = "ok")
             ELSE Proceed("Entry", None) /\ UNCHANGED tracker
    /\ UNCHANGED cap /\ TableUnchanged

\* enumerateHostAt: the entry of one index, and the next index.
EntryReply(out) ==
    /\ Reply("Entry", out)
    /\ \E m \in table.rest :
          LET seen == IF out = "ok" THEN table.seen \cup {m} ELSE table.seen
              complete == table.complete /\ out = "ok"
              rest == table.rest \ {m}
          IN  /\ table' = [rest |-> rest, seen |-> seen, complete |-> complete]
              /\ IF rest = {} THEN Complete(seen, complete)
                 ELSE Proceed("Entry", None) /\ UNCHANGED tracker
    /\ UNCHANGED cap /\ TableUnchanged

TableReply == \E out \in {"ok", "invalid", "none"} :
    ListPathReply(out) \/ DocReply(out) \/ CountReply(out) \/ EntryReply(out)

-----------------------------------------------------------------------------
(* The world around.                                                         *)

world == <<lifecycle, endpoint, identity, call, write, table, shots, poll, sinceSlow, cap,
           meter, said, link, tracker, saved, core, cmd, ipc, conf, unsent>>

BoxGoesDown == \E b \in up : up' = up \ {b} /\ Spend("box") /\ UNCHANGED <<world, switch>>

BoxComesUp == \E b \in Endpoint \ up : up' = up \cup {b} /\ UNCHANGED <<world, switch, budget>>

\* Somebody throws the switch at the box itself.
SwitchThrown ==
    \E e \in Endpoint, b \in Band :
        /\ switch' = [switch EXCEPT ![e][b] = ~@]
        /\ Spend("switch") /\ UNCHANGED <<world, up>>

-----------------------------------------------------------------------------
Next ==
    \/ Start \/ Stop \/ Crash \/ OnDisconnected \/ CoreGone \/ CoreBack
    \/ \E e \in Configs : OnConfigChanged(e)
    \/ TimerTick \/ ShotFires \/ PollReply
    \/ \E k \in Cmd, b \in Band, on \in BOOLEAN : OnChannelInvoke(k, b, on)
    \/ BoxSwitches
    \/ \E out \in {"ok", "invalid", "none"} : SetEnableReply(out)
    \/ OnPairingStart \/ TableReply
    \/ \E m \in Mac : OnPairCandidate(m) \/ OnDeviceRemoved(m)
    \/ BoxGoesDown \/ BoxComesUp \/ SwitchThrown

Spec == Init /\ [][Next]_vars

\* The loop runs what is due: a call is answered or times out, timers and shots
\* fire, phi-core delivers the configuration it owes and comes back.
Fairness ==
    /\ WF_vars(Start) /\ WF_vars(OnDisconnected) /\ WF_vars(CoreBack)
    /\ WF_vars(unsent /\ \E e \in Configs : OnConfigChanged(e))
    /\ WF_vars(TimerTick) /\ WF_vars(ShotFires) /\ WF_vars(BoxSwitches)
    /\ WF_vars(PollReply)
    /\ WF_vars(\E out \in {"ok", "invalid", "none"} : SetEnableReply(out))
    /\ WF_vars(TableReply)

FairSpec == Spec /\ Fairness

-----------------------------------------------------------------------------
(* What must hold.                                                           *)

\* A running poll always has something that will continue it: a question of its
\* own in flight, or a 0 ms shot (stepIssued).  Without one, beginPoll() would
\* refuse every later poll and the instance would be silent for good.
PollAlive ==
    lifecycle = "Running" /\ poll.running =>
        \/ call # None /\ call.kind \in Kind
        \/ shots > 0

\* A poll cannot go on for ever: whatever is answered or given up, by a reply or
\* by the shot of a cancelled poll, a poll that goes on has fewer steps left, or
\* has asked the newer place for the update state and turns to the older one
\* (runStep, stepUpdateState), which it does once.
NewerPlace == call # None /\ call.kind = "Update" /\ call.arg = "UserInterfaceInfo"
PollShrinks ==
    [][ lifecycle' = "Running" /\ poll.running /\ poll'.running =>
          \/ UNCHANGED <<call, poll>>
          \/ /\ poll'.todo \subseteq poll.todo
             /\ poll'.todo # poll.todo \/ (NewerPlace /\ ~NewerPlace') ]_vars

\* A configured, running instance has its poll timer armed with the delay the
\* gate asked for last: armPollTimer() is called from three places and returns
\* early from two.
PollScheduled ==
    lifecycle = "Running" /\ ~unsent => link.armed /\ link.timer = link.wait

\* Connectivity is reported only below the last strike, and the wait is the one
\* that goes with the misses, across configurations and pauses.
ConnectedMeansAnswering ==
    lifecycle = "Running" =>
        /\ link.connected => link.misses < Strikes
        /\ link.wait = WaitAfter(link.misses)

\* What is recorded of the box at the endpoint is true of that box: "Present" of
\* something it has, "Absent" of something it has not, whatever got lost and
\* whoever restarted (markPresent, markAbsent, restorePresent).
CapTruth ==
    endpoint # None => \A f \in Feature :
        /\ cap[f] = "Present" => f \in Implements[endpoint]
        /\ cap[f] = "Absent" => f \notin Implements[endpoint]

\* isNews() may swallow a reading only because phi-core shows it already: for
\* every channel phi-core knows, what is recorded as reported is what it shows
\* or what is on its way in m_pendingReports.
CoreFresh ==
    ipc => \A ch \in Channel :
        Knows(core, ch) /\ said.value[ch] # None =>
            said.value[ch] \in {core.value[ch], said.pending[ch]}

\* The away delay never starts for a client that has not left the network: a
\* host that could not be asked is not a host that left.
NeverAway == tracker.leaving \subseteq Leavers

\* The instance's picks and the adapter meta agree once it is configured
\* (saveTracked): the next configuration takes no pick back.
PicksSaved == lifecycle = "Running" /\ ~unsent => tracker.tracked = core.meta

\* "there is no backlog to answer" (answerPending): a command that waits for its
\* answer is the one whose SetEnable is in flight.
NoBacklog ==
    \A k \in Cmd : cmd[k] = "waiting" =>
        call # None /\ call.kind = "SetEnable" /\ write.cmd = k

\* "An action that comes back Invalid Action is recorded as absent and not
\* issued again": no question in flight needs a feature recorded as absent, a
\* byte counter or anything else (worthTrying).
AbsentNotAsked ==
    call # None /\ call.kind # "SetEnable" => \A f \in Needs(call) : WorthTrying(cap, f)

\* What a box supplies.
Supplies(b, ch) ==
    CASE ch = "uptime" -> TRUE
      [] ch = "update" -> UpdateInfo \cap Implements[b] # {}
      [] ch \in Rate -> "ByteCounters" \in Implements[b]
      [] OTHER -> ch \in Implements[b]

\* Reports never shrink: a descriptor withdraws no channel that the box it names
\* supplies, across lost answers, restarts and repeated configurations.
NothingWithdrawn ==
    \A b \in Endpoint :
        core.device # None /\ core'.device # None /\ {core.device.name, core'.device.name} = {b}
        => \A ch \in core.device.channels \ core'.device.channels : ~Supplies(b, ch)
NeverShrinks == [][NothingWithdrawn]_vars

\* The descriptor first, then the values it describes: when the deferred values
\* are sent, every one of their channels has a value, so that none was dropped
\* as the value of a channel phi-core had not been told of yet (finishPoll).
SentDescribed ==
    \A ch \in Channel :
        said.pending[ch] # None /\ said'.pending[ch] = None => core'.value[ch] # None
DescriptorFirst == [][ ipc /\ lifecycle' = "Running" => SentDescribed ]_vars

\* A poll that was answered sends no value phi-core has no channel for, not even
\* one that a cancelled poll has left behind in m_pendingReports (finishPoll).
AnsweredDescriptorFirst ==
    [][ ipc /\ lifecycle' = "Running" /\ poll'.answered => SentDescribed ]_vars

\* The instance as a poller.  Whatever the gate or a cancelled poll still holds
\* while phi-core is away is forgotten before it counts again.
PollPhase ==
    IF lifecycle # "Running" THEN "away"
    ELSE IF poll.running THEN "asking"
    ELSE IF call # None /\ call.kind \notin Kind THEN "serving"
    ELSE "idle"
PollHeard == lifecycle = "Running" /\ poll.answered
PollMisses == IF lifecycle = "Running" THEN link.misses ELSE 0

Poller == INSTANCE PollCycle WITH
    phase <- PollPhase, heard <- PollHeard, misses <- PollMisses, connected <- link.connected

\* As long as there is a host, connectivity follows the outcomes of whole polls:
\* answered if anything in it was, missed if nothing was, one outcome a poll, and
\* none for a poll that was cancelled (runStep, finishPoll, noteFailure).
PollCycleImplemented == Poller!Spec

\* A poll that has begun ends, answered or not (runStep, stepIssued).
PollEnds == poll.running ~> ~poll.running

Configured == lifecycle = "Running" /\ endpoint # None

\* A box that stays reachable is reported connected in the end and for good.
Recovers == <>[](Configured /\ endpoint \in up) => <>[]link.connected

\* A box that stays unreachable is reported disconnected in the end.
GivesUp == <>[](Configured /\ endpoint \notin up) => <>[]~link.connected

\* In the end phi-core shows the WLAN switches as they are at the box, once they
\* are no longer thrown there, whatever was lost, cancelled by a listing or asked
\* of another box on the way.  Without writes: one that cancels a poll can leave
\* the old position shown for good (SetEnable, flushPendingReports).
Converges ==
    <>[](Configured /\ endpoint \in up) => \A b \in Band :
        <>[](Configured /\ Knows(core, b) =>
                core.value[b] = [box |-> endpoint, on |-> switch[endpoint][b]])

\* In the end the descriptor offers exactly what the box supplies, and every
\* offered channel carries a value, rates excepted: they need a moving counter.
AllOffered ==
    <>[](Configured /\ endpoint \in up) => <>[](
        /\ Configured /\ core.device # None
        /\ core.device.channels = {ch \in Channel : Supplies(endpoint, ch)}
        /\ \A ch \in core.device.channels \ Rate : core.value[ch] # None)
=============================================================================
