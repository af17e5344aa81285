---------------------------- MODULE Reachability ----------------------------
(* The gate of phi-adapter-sdk that counts missed polls, with the policy the *)
(* adapter gives it (routerPolicy), and the poll timer armed from what it    *)
(* says.  The gate is a library: it is modelled from the policy, from the    *)
(* verdict fields the adapter reads and from the README's account of it.     *)
(*                                                                           *)
(* A link is [connected, misses, wait, armed, timer]:                        *)
(*   connected  m_connected                                                  *)
(*   misses     polls missed in a row, counted up to Strikes + Delays        *)
(*   wait       m_nextPollMs: 0 the poll interval, k the k-th retry delay    *)
(*   armed      m_pollTimer runs                                             *)
(*   timer      m_pollTimerInterval, coded as wait is                        *)
EXTENDS Naturals

CONSTANTS
    Strikes,   \* missed polls in a row before the router counts as gone: 3
    Delays     \* retry delays there are: 4 (1, 2, 3 and 6 retry intervals)

ASSUME StrikesAssumption == Strikes \in Nat \ {0}
ASSUME DelaysAssumption == Delays \in Nat \ {0}

MaxMisses == Strikes + Delays

Wait == 0 .. Delays

Link == [connected : BOOLEAN, misses : 0 .. MaxMisses,
         wait : Wait, armed : BOOLEAN, timer : Wait]

InitLink == [connected |-> FALSE, misses |-> 0, wait |-> 0, armed |-> FALSE, timer |-> 0]

\* The delay after n missed polls: the interval up to the last strike but one,
\* then the retry delays in order, the last of them for ever.
WaitAfter(n) ==
    IF n < Strikes THEN 0
    ELSE IF n - Strikes + 1 < Delays THEN n - Strikes + 1 ELSE Delays

\* armPollTimer() of an instance that is running.
Arm(link) == [link EXCEPT !.armed = TRUE, !.timer = link.wait]

\* setConnected(): the timer is armed again only when connectivity changes.
SetConnected(link, up) ==
    IF link.connected = up THEN link ELSE Arm([link EXCEPT !.connected = up])

\* The gate and the timer after a poll that something answered.
OnlyAfterLoss(link) ==
    Arm([link EXCEPT !.misses = 0, !.wait = 0, !.connected = @ \/ link.misses >= Strikes])
NoteAnswer(link) ==
    Arm(SetConnected([link EXCEPT !.misses = 0, !.wait = 0], TRUE))

\* noteFailure(): one more miss; connectivity is lost at the last strike.
Missed(link) ==
    LET misses == IF link.misses < MaxMisses THEN link.misses + 1 ELSE MaxMisses
    IN  [link EXCEPT !.misses = misses, !.wait = WaitAfter(misses)]

TimerForgotten(link) ==
    IF Missed(link).misses = Strikes THEN SetConnected(Missed(link), FALSE) ELSE Missed(link)
OneStrikeMore(link) ==
    Arm(IF Missed(link).misses = Strikes + 1 THEN SetConnected(Missed(link), FALSE)
        ELSE Missed(link))
NeverGone(link) == Arm(Missed(link))
NoteFailure(link) ==
    Arm(IF Missed(link).misses = Strikes THEN SetConnected(Missed(link), FALSE)
        ELSE Missed(link))

\* m_pollTimer.reset() and m_router.forget(); the wait stays what it was.
StillConnected(link) == [link EXCEPT !.misses = 0, !.armed = FALSE]
Paused(link) == [link EXCEPT !.connected = FALSE, !.misses = 0, !.armed = FALSE]
=============================================================================
