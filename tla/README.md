# Verification of phi-adapter-fritz

TLA+ modules of the FRITZ!Box adapter, the TLC configurations that check them,
and proofs for the TLA+ proof system. Line numbers are those of
`src/fritz_instance.cpp` unless another file is named.

## The system

The adapter is a sidecar process that reads one router over TR-064 and reports
what it finds to phi-core. Each configured router has one instance, and each
instance one thread with one event loop. Handlers run to their end: what can
interleave is whole handlers.

| Part | State it keeps | Operations | What makes it correct |
| --- | --- | --- | --- |
| instance, poll | `m_steps`, `m_stepIndex`, `m_pollRunning`, `m_pollAnswered`, sightings, `m_pollsSinceSlow` | `beginPoll`, `runStep`, `stepIssued`, `finishPoll`, five kinds of step | every poll that begins ends; none blocks the next; a gap is not taken for knowledge |
| instance, lifecycle and configuration | `m_lifecycle`, endpoint, `m_info`, `m_meta` | `start`, `stop`, `onDisconnected`, `onConfigChanged` | nothing known of one box is taken for another; a restart loses nothing that was promised |
| instance, user actions | the callback of the write in flight | `onChannelInvoke`, `onPairingStart` and the host table, `onPairCandidate`, `onDeviceRemoved` | a command is answered; a write is not undone by an older reading; picks are kept |
| reports (`ReportedValues`, `m_pendingReports`) | last value per channel, descriptor fingerprint, deferred sends | `isNews`, `forget`, `forgetValues`, `report`, `defer`, `flushPendingReports`, `announceRouter` | what is not sent again is what phi-core has |
| capabilities (`fritz_capabilities.h`, `router.json`) | Unknown, Present or Absent per feature | mark, forget, mask, restore | what is recorded is true of the box at the endpoint |
| reachability (`sdk::Reachability`, poll timer) | missed polls, wait, timer, `m_connected` | `answered`, `missed`, `forget`, `armPollTimer`, `setConnected` | connectivity and the polling rhythm agree with what was missed |
| session (`fritz_session.cpp`) | one call in flight, base URL | `call`, `get`, `cancel`, `setEndpoint` | one call at a time; a cancelled one has no callback |
| rate meter (`fritz_state.cpp`) | previous sample | `sample`, `forget` | a rate is of one box and never negative |
| client tracker (`sdk::ClientTracker`) | tracked list, clients seen, away delays | `update`, `setTracked`, `track`, `untrack` | the away delay runs only for a client that left |
| probe, factory (`fritz_probe.cpp`, `main.cpp`) | a session of its own | `runProbe`, `probeTargetFromParams` | every probe is answered, of the box and login the user means |
| SOAP and TR-064 data (`fritz_soap.cpp`, `fritz_tr064.cpp`) | none | `buildSoapEnvelope`, `soapValue`, `parseHostList` | what is written is read back, whatever it contains; half an item is no host |
| JSON, schema | none | pure functions of text | - |

How they interact. phi-core calls the instance's handlers over IPC and takes
its reports in the order they are sent. The instance issues one TR-064 call at
a time through its session and goes on in the callback. A user action cancels
whatever call is in flight. A step that cannot be issued goes on through a 0 ms
shot. A configuration redirects the session while a call may still be in flight
at the old address. Reports made while a poll runs wait for the poll's
descriptor. `router.json` and the adapter meta outlive the process. The factory
tests connections of a dialog through one session of its own, which no instance
shares.

What is hard here: handlers of phi-core, of timers and of answers in any order;
deferred reports and 0 ms shots that outlive the poll they belong to; answers of
a box the instance has left; lost answers; phi-core and the process going away
between any two handlers; readings that are suppressed as already said; the
waits and counters that must be reset at the right places. `PROJECT.json` lists
each of these hazards at its line with the properties that cover it.

## The modules

| Module | Models |
| --- | --- |
| `Capabilities` | `RouterCapabilities`, as operators on a function from features to what is known |
| `Reachability` | the gate under `routerPolicy()`, `armPollTimer`, `setConnected`, `noteFailure`, as operators on a record |
| `Reported` | `ReportedValues` and the queue of deferred reports, as operators on a record |
| `FritzInstance` | the instance: state, one action per handler or callback, the boxes and phi-core around it, the properties |
| `PollCycle` | abstract: what the polling of a router promises, whatever a poll asks |
| `MCFritzInstance` | two boxes for TLC: `boxA` implements what the README of the repository measured, less the second WLAN, `boxB` the older actions and no byte counters |
| `HostTable` | the listing of candidates, by index against a table that changes between two calls |
| `RateMeter` | `RateMeter` on a counter that wraps and a clock that is set |
| `Tr064Session` | the session's endpoint and login, and the challenge its HTTP client keeps, as operators on a record |
| `FritzFactory` | the factory's "Test connection": the merge of dialog, candidate and meta, `runProbe`, its callback and the answer |
| `SoapText` | the envelope of a request and the host list document, on texts of symbols |
| `MCParts` | the last five, side by side for TLC, with the dialogs and texts it is given |
| `FritzInstance_proofs` | type correctness of the instance |
| `FritzSafety_proofs` | its safety theorems |
| `FritzHosted_proofs` | an instance with a host implements `PollCycle`, and counts nobody on the network as leaving |
| `FritzTruth_proofs` | what it holds to be true is true, what phi-core shows is what was said |
| `RateMeter_proofs`, `HostTable_proofs`, `FritzFactory_proofs` | types and the safety properties of each |
| `SoapText_proofs` | what is written is read back, in requests and lists of any length |

`FritzInstance` uses `Capabilities`, `Reachability` and `Reported`, and relates
itself to `PollCycle` through an instance of it, `Poller`. `FritzFactory` uses
`Tr064Session`. `FritzInstance` and `HostTable` model the same handlers of a
listing: the first what they do to the poll, the writes and the tracker, with a
table that stands still; the second what the list they end with is worth when
it does not.

### State

| Variable | Code |
| --- | --- |
| `lifecycle`, `endpoint`, `identity` | `m_lifecycle`; `endpoint()` and the session's base URL; `m_routerName` with `m_routerFirmware`, as the box they are of |
| `call`, `write`, `table` | the call in flight with what its callback captured: for `SetEnable` the command, for the host table the hosts read so far |
| `shots` | `m_shots`: pending 0 ms calls of `runStep()` |
| `poll`, `sinceSlow` | `m_pollRunning`, the part of `m_steps` from `m_stepIndex` on, `m_pollAnswered`, `m_sightings`, `m_sightingsComplete`; `m_pollsSinceSlow` |
| `cap`, `saved` | `m_capabilities`; `router.json` |
| `said` | `m_reported`, and `m_pendingReports` as the last deferred report per channel: the queue is sent in one handler, so only that one can be observed |
| `link` | `m_router`, `m_nextPollMs`, `m_pollTimer`, `m_pollTimerInterval`, `m_connected` |
| `meter` | `m_txMeter`, `m_rxMeter`: the box of the previous sample |
| `tracker` | `m_tracker`: tracked, seen, and clients whose away delay runs |
| `core`, `ipc`, `conf`, `unsent`, `cmd` | phi-core: what it shows and keeps, whether it is there, the configuration it has and whether it still owes it, its commands |
| `up`, `switch` | the boxes: which answer, and the positions of their WLAN switches |
| `budget` | the disturbances left, a bound of the model |

A reading is abstracted to the box it is of and one bit: for a switch its
position, for the uptime a bit that flips with every reading (a later uptime
never equals the one reported before), for a rate whether both samples are of
that box. The steps of a poll are a set taken in the order of `Rank`.

In the other modules: `RateMeter` keeps the counter and the clock, the meter's
previous sample, and as history what has passed since then; `HostTable` the
table, the listing's captures, and who was there all the while; `FritzFactory`
the session, the call in flight with what its callback captured, what each
command asked for and the last answer; `SoapText` a request as it is put
together, the hosts a router lists and its document as it arrived. A text there
is a sequence of symbols, of which the characters that are escaped and the
references are told apart and all else is a run.

### Actions

| Action | Code |
| --- | --- |
| `Start`, `Stop`, `OnDisconnected`, `OnConfigChanged` | `start` (78), `stop` (114), `onDisconnected` (122), `onConfigChanged` with `applyConfig`, `restoreState` and `beginPoll` (141) |
| `TimerTick` | the poll timer's `beginPoll` (353, 385) |
| `InfoReply`, `HostReply`, `BytesReply`, `WlanReply`, `UpdateReply` | the callbacks of `stepDeviceInfo` to `stepLegacyUpdateInfo` (518-665), each with `runStep` and, after the last step, `finishPoll` with `announceRouter`, the tracker's snapshot, the flush and the timer |
| `ShotFires` | the shot of `stepIssued` (455) |
| `OnChannelInvoke`, `SetEnableReply` | a write (175) and its callback (213) |
| `OnPairingStart`, `ListPathReply`, `DocReply`, `CountReply`, `EntryReply` | the host table (236, 836-935) |
| `OnPairCandidate`, `OnDeviceRemoved` | picks, with `saveTracked` (252, 265, 939) |
| `Crash`, `CoreGone`, `CoreBack`, `BoxSwitches`, `BoxGoesDown`, `BoxComesUp`, `SwitchThrown` | the world: the process ends, phi-core goes and comes, the box acts on `SetEnable` (before it answers, or without its answer arriving), goes down, comes up, is operated by hand |
| `Sample`, `Forget` (`RateMeter`) | `RateMeter::sample`, `forget` (`fritz_state.cpp` 60-88) |
| `ReadHostTable` to `EntryReply`, `HostCallCancelled` (`HostTable`) | 836-935, per call and index |
| `OnFactoryActionInvoke`, `ProbeReply`, `OnFactoryStopping` (`FritzFactory`) | `main.cpp` 77-120 with `runProbe` and `probeTargetFromParams` |

### The refinement

`PollCycle` knows four phases: away, idle, asking, serving. `PollPhase` in
`FritzInstance` computes them: away unless the instance runs, asking while a
poll runs, serving while a call of the user is in flight. `PollHeard` is
`m_pollAnswered` of the latest poll, kept when the poll ends, so that
`Answered` is a poll in which something was heard and `Missed` one in which
nothing was, up to the last question. `PollHeard` and `PollMisses` hide what a
poll or the gate still holds from before a pause, as it is forgotten before it
counts again. A step of a poll that is not the last is `Hear` or no step; the
last one is `Answered` or `Missed`; a cancelled poll goes to serving without
either. The mapping needs a host in every configuration: without one, a poll is
missed before it begins, steps go on by 0 ms shots, and the shot of a cancelled
poll can move the next one on (455), or end it while its own call is still to
be answered.

### What is assumed of code outside the repository

- `net::HttpClient::cancel()` drops the callback of the call in flight.
  `fritz_instance.cpp` relies on it: it clears `m_pollRunning` after `cancel()`
  and expects no `runStep()` from the cancelled call, and the repository's README
  says that no callback runs inside another.
- `sdk::Reachability` counts missed polls, gives up at the third, and waits as
  `routerPolicy()` says; `forget()` and a new gate start at no miss. This is
  taken from the policy, the verdict fields that are read, and the README's
  account of the states. The count stops at `MaxMisses`, where the wait no
  longer changes.
- `sdk::ClientTracker` takes a snapshot as the whole of the tracked clients:
  one that is not in it begins its away delay. `setTracked` replaces the list.
- phi-core rejects a value for a channel it does not know (479-482), and what it
  shows and the commands it has open end with the connection. It hands over the
  configuration when an instance connects and whenever the user edits it, and
  addresses an instance only after that. Messages arrive in order; what is sent
  while it is gone is lost.
- phi-core comes back only after a 0 ms shot that was pending has run.
- `net::HttpClient` keeps the challenge of the router that answered last, until
  `forgetAuthentication()`, and answers it in advance; a router does not accept
  an answer to another's challenge. `setEndpoint` relies on it (41-43 of
  `fritz_session.cpp`).
- A host that joins the router's table gets the last index, and the hosts behind
  one that leaves move up. With a router that puts newcomers elsewhere, joins
  alone could hide a client from a listing.
- A router answers with a fault for a tracked client only if the client is not in
  its table (of the model: it is one of `Leavers`). The code takes any fault that
  has a description for "not in its table any more" (553-560): a router that
  answered one for another reason, busy or out of memory, would start the away
  delay of a client that is there, and `NeverAway` says nothing of it.
- The router escapes the names in its host list; a MAC address needs none.
- A reading of a switch is taken at the moment of its answer.
- A refused password or an https endpoint counts as no answer.

## The runs

Every disturbance a run allows is taken from one budget, `MaxEvents`, and can
strike at any moment: `loss` (an answer is lost), `box` (a box goes down),
`switch` (thrown at the box), `edit` (the user saves a configuration), `list` (a
candidate listing), `pick` (a client picked or removed), `restart` (crash, stop,
phi-core gone). A box that is down may always come up again.

| Run | Checks | Instance |
| --- | --- | --- |
| `listing` | `TypeOK`, `CapTruth`, `NeverAway`, `CoreFresh`, `PollCycleImplemented`, `AnsweredDescriptorFirst` | one box, one WLAN, one client that stays; loss, list, switch, box; 2 |
| `restart` | `CoreFresh`, `PicksSaved`, `PollCycleImplemented`, `NeverShrinks`, `DescriptorFirst` | one box, one WLAN, two clients of which one may leave; loss, edit, switch, pick, restart; 2 |
| `commands` | `PollAlive`, `PollShrinks`, `PollScheduled`, `ConnectedMeansAnswering` | one box or no host, one command; edit, restart, list; 2 |
| `liveness` | `PollEnds`, `GivesUp`, `AllOffered` | either box, a WLAN that only `boxB` has, no move; loss, list, box; 2 |
| `moves` | `Recovers`, `Converges` | two boxes, one WLAN; loss, edit, switch, list, restart; 2 |
| `parts` | `RateTypeOK`, `RateHonest`, `RateResumes`; `HostTypeOK`, `SteadyListed`, `Listed`; `FactoryTypeOK`, `RightBox`, `NoFalseRefusal`, `ProbeAnswered`; `ReadBack`, `HostsAsListed` | below |

Bounds common to all: 2 strikes instead of 3, 2 retry delays instead of 4, a slow
poll every 2nd instead of every 12th. Two strikes are the fewest with a miss that
is not the last one, two delays the fewest with a first and a last, and a slow
poll every 2nd the fewest with a fast poll between. The theorems hold for all
values. Two disturbances are enough for what the properties are about: one that
cancels or loses and one that makes the loss matter; the counterexamples below
need at most two. The polls themselves are unbounded.

`parts` runs the modules that stand alone side by side; a behaviour is one of
one part only. The counter wraps at 4, which bursts of 3 pass after one or two
and up to 6 bytes pass between two readings: one wrap, and a wrap and a half.
Three clients and one nameless host join and leave in any order: one behind, at
and before the index. The five dialogs cover a typed box over a discovered one,
a wrong password, the discovered and the saved one, and none; two commands let
two probes overlap. The texts are those that look like what the scanner looks
for: an entity, half of one, an escaped one, one above ASCII, an `&`
with a `;` behind more text, an element of the name that is read next, the end of an
item; two parameters and two hosts let the first be misread as the second, and a
list is cut off at every symbol.

The properties, in a sentence each:

- `CapTruth`: what is recorded Present or Absent is so at the box at the endpoint.
- `NeverAway`: no away delay starts for a client that did not leave.
- `CoreFresh`: what is recorded as reported is what phi-core shows or is on its way.
- `PicksSaved`: the picks are those the next configuration will bring.
- `NeverShrinks`: a descriptor withdraws no channel its box supplies.
- `DescriptorFirst`: deferred values are sent when phi-core knows their channels;
  `AnsweredDescriptorFirst`: they are by every poll that was answered, also those
  that a cancelled poll has left behind.
- `PollCycleImplemented`: connectivity follows the outcomes of whole polls, one
  outcome a poll, answered if anything in it was and missed if nothing was, and
  none for a cancelled one.
- `PollAlive`, `PollEnds`: a running poll is continued by something, and ends.
- `PollShrinks`: a poll that goes on has fewer steps left, by a reply or by a shot
  of whichever poll; only the update state may be asked for twice.
- `PollScheduled`: the timer is armed with the wait in force.
- `ConnectedMeansAnswering`: connectivity and wait go with the misses.
- `Recovers`, `GivesUp`: a box that stays is connected for good, one that stays
  away is given up.
- `Converges`: phi-core shows the switches as they are, in the end, after
  switches thrown at the box, lost answers, moves, restarts and listings that
  cancel a slow poll, which has reset `m_pollsSinceSlow` by then (395-398).
- `AllOffered`: in the end what the box supplies is offered and carries values.
- `RateHonest`: a rate never exceeds the traffic there was, over wraps, restarts
  and clocks that are set; it is exact when nothing of the kind happened.
- `RateResumes`: a reading that was dropped is not compared with for ever.
- `SteadyListed`: a complete list has every client that was there all the while.
- `Listed`: a listing ends, however the table grows meanwhile.
- `RightBox`: a success is of the box the user means and the login that was tried.
- `NoFalseRefusal`: no challenge kept of one router makes the next refuse a login
  that is right.
- `ProbeAnswered`: one probe after the other, each is answered.
- `ReadBack`: a parameter is read out of the envelope as it was given.
- `HostsAsListed`: the hosts read are the ones listed, or the first of them if
  the list was cut off; none is made up.

Each has at least one mutant in `PROJECT.json`: a plausible slip in a modelled
definition under which TLC finds the property violated.

### What the code does not do

Six runs check a sentence of the repository that the code breaks.

- `lost_command`: two writes in a row. The second cancels the call of the first,
  and a cancelled call has no callback: the first command is never answered,
  although "there is no backlog to answer" (981-983). A listing does the same.
- `switch_put_back`: a poll has read a switch and deferred the report; a
  write cancels the poll and reports the new position at once; the end of the
  next poll flushes the old one after it. "cannot put the switch back" (223-225)
  fails, and as the new position counts as reported, nothing corrects it until
  the switch moves again.
- `stale_box`: the instance moves to another box while a call is in flight at
  the old one. Its answer is recorded of the new box (152-155). If it is Invalid
  Action, the new box is not asked for that feature until it is moved or restarted.
- `absent_asked`: on a box without byte counters, the second one is asked although
  the first came back Invalid Action (418), against "An action that comes back
  Invalid Action is recorded as absent and not issued again" (`README.md:99-100`).
  `AbsentNotAsked` looks at what each question needs (`Needs`); on a box with one
  WLAN it finds the other one asked again on the next slow poll as well, as those
  steps are pushed without asking `worthTrying` (427-428).
- `host_not_asked`: the host is taken out of the configuration during a poll; the
  clients' steps cannot be issued, and the poll hands the tracker a snapshot
  without them, against "A host that could not be asked is not a host that
  left" (484-485).
- `probe_unanswered`: a second probe while the first is in flight. `runProbe`
  moves `done` into the callback of a call that the session refuses, and finds it
  empty where "Another request is already in flight" is to be said
  (`fritz_probe.cpp:94-109`): the command is never answered.

These cases bound the passing runs: `CoreFresh` is checked without writes,
`CapTruth` without moves, `AllOffered` without moves, `NeverAway` with a host.
`Converges` is checked without writes: a write that cancels a poll can leave
the old position shown for good, which is the case of `switch_put_back`.
`NeverShrinks` too is checked with configurations that keep a host: taking the
host out during a poll lets the poll end on what little is known since the
move, and a smaller descriptor is sent and saved under the empty endpoint.
`DescriptorFirst` is checked without listings and writes: either cancels a
poll, the next one fails, and the deferred values are sent before any
descriptor of their channels. (A write does it on a box with two WLANs: the
first poll misses the one, a later poll reads it, a write to the other cancels
that poll, and the box stays away.) phi-core rejects them; they are said again
because `announceRouter` forgets the values. `AllOffered` shows that: its run
has the two disturbances it takes, a listing that cancels the first poll and an
outage that fails the next, and its mutant, which keeps the values over a new
descriptor, survives with either alone. Only a poll without any answer does so:
`AnsweredDescriptorFirst` holds whatever is cancelled, and is checked with
listings.

### Fairness

`FairSpec` adds weak fairness to what the loop and the process are bound to do:
an answer arrives or times out (`kRequestTimeout`), due timers and shots fire,
the disconnect is noticed, phi-core delivers the configuration it owes, a
crashed process is started again and phi-core comes back. Nothing is assumed of
the user, of answers being good, or of the box coming up: the properties say
"a box that stays up". An answer of a box that is up is lost only by a
disturbance, of which there are finitely many; that is the assumption under
which the liveness properties are stated.

## What is proved

For every value of the constants that meets the named assumptions (boxes,
clients, commands, strikes, delays, slow-poll period, any bound on the
disturbances):

| Theorem | States | Where |
| --- | --- | --- |
| `TypeCorrect` | `Spec => []TypeOK` | `FritzInstance_proofs` |
| `SafetyInvariant`, `PollAliveTheorem`, `PollScheduledTheorem`, `ConnectedTheorem` | `Spec => []` of `SafetyInv` and of the three properties | `FritzSafety_proofs` |
| `PollShrinksTheorem` | `Spec => PollShrinks` | `FritzSafety_proofs` |
| `PicksTheorem` | `Spec => []PicksSaved` | `FritzSafety_proofs` |
| `NeverAwayTheorem` | a host, no picks: `Spec => []NeverAway` | `FritzHosted_proofs` |
| `HostedInvariant`, `PollCycleTheorem` | every configuration has a host: `Spec => []HostedInv`, `Spec => PollCycleImplemented` | `FritzHosted_proofs` |
| `CapTruthTheorem` | one box, or no host: `Spec => []CapTruth` | `FritzTruth_proofs` |
| `CoreFreshTheorem` | a host, no writes: `Spec => []CoreFresh` | `FritzTruth_proofs` |
| `NeverShrinksTheorem`, `AnsweredDescriptorFirstTheorem` | one box: `Spec => NeverShrinks`, `Spec => AnsweredDescriptorFirst` | `FritzTruth_proofs` |
| `DescriptorFirstTheorem` | one box, no writes, no listings: `Spec => DescriptorFirst` | `FritzTruth_proofs` |
| `RateTypeCorrect`, `RateHonestHolds`, `RateResumesHolds` | `RateSpec => []` of each | `RateMeter_proofs` |
| `HostTypeCorrect`, `SteadyListedHolds` | `HostSpec => []` of each | `HostTable_proofs` |
| `FactoryTypeCorrect`, `RightBoxTheorem`, `NoFalseRefusalTheorem` | `FactorySpec => []` of each | `FritzFactory_proofs` |
| `UnescapeTrimmed` | `UnescapeXml(Trim(EscapeXml(v))) = Trim(v)` for every text | `SoapText_proofs` |
| `ReadBackTheorem`, `HostsAsListedTheorem` | `SoapSpec => []` of each | `SoapText_proofs` |

The conditions are those under which the code does it: a move between boxes
breaks `CapTruth` (run `stale_box`), a write breaks `CoreFresh` (run
`switch_put_back`), and a configuration without a host is no poll of `PollCycle`
and breaks `NeverAway` (run `host_not_asked`), as a pick during a poll does. A
move to another box, or to none, withdraws what the old one supplied, which
`NeverShrinks` and `AnsweredDescriptorFirst` would call a loss; and a poll
cancelled by a listing or a write breaks `DescriptorFirst`. `CoreFreshTheorem`
needs its host as well: a 0 ms shot left over from the time without one can ask
a question for a poll that was cancelled, whose reading is then sent at once,
before an older one that still waits. It takes a configuration without a host,
two with one, three listings and a thrown switch while that shot waits, more
than the runs allow; the loop would hardly let a 0 ms shot wait as long.

The arguments.

- `PollAlive` is not inductive alone: a configuration turns a paused instance
  into a running one, and a poll left over from before would then have nothing
  to continue it. `Quiet` adds that an instance that does not run has no call in
  flight and one that may come to run has no running poll.
  `ConnectedMeansAnswering` needs that a process that has not started has a new
  link, and that connectivity is lost in the very step that counts the last
  strike (`HonestGate`): `noteFailure` takes it away only when the verdict
  changes, so an honest link is one that never passes the last strike connected.
  `PollScheduled` needs no more than that both outcomes of a poll end with the
  timer armed (`ScheduledGate`). The proof that a step keeps the invariant splits
  by action; the answers of a poll share `RunStepSafe`. `PicksSaved` is inductive
  given the types.
- `OwnCall`: `PollShrinks` needs that the call in flight while a poll runs is a
  question of a poll, and that no step is left once it is the one for the update
  state. That holds because the update state has the highest rank
  (`UpdateLast`), and it makes the step that is pushed again the only one there
  is, for a place that is Absent by then. With `PollAlive` it is the part of
  `PollEnds` that can be proved: something always continues a running poll, and
  it can be continued finitely often.
- `HostedInv`: an armed timer or a running poll means an endpoint, so every
  question is issued, no shot is ever pending, and a question of a poll is in
  flight only while the poll runs; and a process that has not started has heard
  nothing. That is what makes a callback of a step the
  end of a step of the poll that runs, and every action of the instance a step
  of `PollCycle` or no step of it.
- `OneBox(b)`: with a single box, the endpoint is `b` or none, whatever is in
  flight is asked of `b`, and `router.json` too holds only what `b` has.
- `ReportInv`: `CoreFresh` is not inductive, as a deferred value may be overtaken
  by a later one. It adds that a deferred value of a channel is the last one
  recorded of it (`LastPending`), and that a recorded value that is not deferred
  is shown (`Shown`). Writes break the first part, which is the finding of
  `switch_put_back`.
- `ClientInv`: a snapshot is harmless when it has every tracked client that is on
  the network. While a poll runs and has missed no answer, each of them is seen
  already, still among the steps, or the one that is asked for just now
  (`PollCovers`); while a table is read entry by entry and none was lost, each is
  read or still to be read (`TableCovers`). The tracked clients do not change in
  between, as without picks a configuration brings the ones there are
  (`TrackedAsConfigured`).
- `DeviceInv(b)`: what is recorded as the descriptor is what phi-core shows
  (`DescriptorSent`); what it shows is no more than `router.json` holds, which is
  no more than what is recorded Present of a configured box (`DeviceSaved`); and a
  value waits only for a channel that the next descriptor offers
  (`PendingOffered`). The last is why a poll that was answered flushes after a
  descriptor with every channel it flushes. It says nothing of a poll without
  answers, which sends no descriptor: `PendingHeard`, that values wait only
  while a poll runs that has been answered, does, and only where no poll is
  cancelled.
- `FactoryInv`: the probe in flight carries the box and the login of the command
  it answers, whatever the session has been set to since (`RightBox`); as long as
  no probe overlaps another, the session stays set up for the box that is asked,
  and any challenge it keeps is of that box, because `SetEndpoint` forgets it on a
  move (`NoFalseRefusal`). `FormFirst` is the lemma about the dialog.
- `RateHonest`: a counter that has not been disturbed is the previous sample plus
  the traffic (`Since`); one that has wrapped or begun again is at most the
  traffic, so whatever it is above the previous sample is as well.
- `SteadyListed`: as long as nobody has left, the clients below the index are
  read and the others are below the count. When somebody has left and nobody
  came, the table is shorter than the count, so that the last index will not be
  answered and the list will not count as complete (`OnItsWay`).
- The texts. The scanners `UnescapeXml` and `ParseHostList` are recursive
  functions over positions. Induction is done by hand: a position where the claim
  fails would be the first one, or the last one, and there is one because `<` is
  well-founded on the naturals (`Least`).
- `UnescapeTrimmed`: `Encodes(text, v, off)` says that `text` is `v` escaped,
  symbol `v[j]` being what follows `off[j]`. A text that encodes `v` is read as
  `v`, from the last symbol back to the first (`UnescapeEncoded`); an escaped text
  encodes the text it was made of; and what is left of it after a trim encodes the
  trimmed text (`TrimEncoded`), as no blank is escaped and no escape is blank.
- `ReadBack`: the parameters of a request are named differently (`RequestInv`).
  In the envelope a `<` is only where a tag begins (`TagsOfElement`), since an
  escaped value has none; the first tag of a parameter's name is therefore its
  own, and the first closing tag after it too (`SoapValueOfElement`).
- `HostsAsListed`: what has arrived is a beginning of the document of the hosts
  listed (`HostListInv`). The places where an item starts and ends are known
  (`ItemStandsThere`); from behind an item that arrived whole the scanner finds
  the next one, if it arrived whole too, and nothing otherwise (`NextWhole`,
  `NextCutOff`); and so what it returns from there on is the hosts of the items
  left that arrived whole (`ListRead`), the last of them first.

The assumptions on the constants say that they are what they are named for:
numbers of strikes, delays and slow polls are positive, configurations lead to
boxes or nowhere, `None` is none of the values it stands beside (nor a dialog),
a burst is no more than the modulus, a nameless host is no client. Of the texts:
a reference of one character reaches its `;` within the window, a parameter is
named by a name, which is not that of the action, and an address has nothing in it
that would be escaped or trimmed. Text itself is any sequence of strings. TLC
evaluates the assumptions on the runs of their modules.

With these, every invariant and every safety property of the passing runs is a
theorem. Only model-checked: liveness (`PollEnds`, `GivesUp`, `AllOffered`,
`Recovers`, `Converges`, `Listed`, `ProbeAnswered`), because reasoning about
fairness and `ENABLED` is outside what the proof system does here; `PollAlive`
and `PollShrinks` are the part of `PollEnds` that is proved. `CoreFresh` and `Converges` with
writes, `CapTruth` with moves and `NeverAway` without a host are false, which the
runs that expect a violation show.

## Remarks

Behaviour met while modelling that no run asserts, most of it because it only
bounds a property or because no sentence of the repository denies it:

- A host table in which a client leaves before the index and another joins before
  the last index is read: the one that moved up is skipped, the count is met, and
  the list counts as complete. The comment of `completeHostTable` denies this one:
  "`complete`: every host the router has is in `hosts`. Only then is it a snapshot
  the tracker may take as the whole network" (916-918). `SteadyListed` leaves the
  case out; without its last condition TLC finds it within one listing.
- A client picked while a poll runs was not asked for in it; the snapshot at its
  end starts the client's away delay, which the next poll stops. `NeverAway` is
  therefore checked without picks.
- "The form wins as a whole" (`fritz_probe.cpp:47-52`) is so per group of keys, in
  the code as in its test: a host typed in, with a port found by discovery, is
  probed at that port.
- `fritz_probe.h` and the repository's README describe the probe as shared by the
  factory and the instance; only the factory calls it. The meta of a candidate
  has no say in the flags.
- A list document that ends after a whole item is taken for a complete table
  (`fritz_tr064.cpp:121`), and a count that cannot be read for an empty one
  (881-888).
- Taking the host out of the configuration during a poll lets the poll end on
  what little is known since the move.

## Not modelled

- JSON text and the form (`fritz_json`, `fritz_schema`): stateless accessors and
  constant text. `FritzFactory` takes a dialog after them.
- `parseHostEntry`, numbers and truth values in text, and how a fault is told
  from an answer: the instance sees their result as one of the outcomes of a
  call. Quotes, attributes and prefixes of elements are left out of `SoapText`.
- The instance's own host table stands still while it is read; `HostTable` has
  the other case.
- The tracker's own time, its devices and its candidates: the SDK's.
- A router that changes its firmware, and with it what it implements, under the
  same endpoint. The code has no notion of it: what is Absent stays so until the
  endpoint changes or the process starts again.
- The adapter meta and a configuration that cross on their way to each other.
- A crash between the descriptor that was sent and `router.json`: both are in one
  handler, and a crash falls between handlers.
- The length of `m_pendingReports`, of which the last per channel is kept.
- Digest authentication as such, the number of milliseconds of an interval.

## Plan

Done, in this order: the operator modules, the instance with its runs, type
correctness, the inductive safety invariant; the rate meter, the host table, the
session and the factory, the texts; the refinement to `PollCycle`; the theorems
on what is true of the box, of phi-core, of the clients and of a probe; the
theorems on the texts.

Left, in order:

1. The adapter meta as messages that cross a configuration (`saveTracked`), and a
   firmware that changes what a box implements.
2. `SteadyListed` lifted to the instance: a table that changes between two
   indexes, with the tracker that takes the list.
