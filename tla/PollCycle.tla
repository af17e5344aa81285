----------------------------- MODULE PollCycle ------------------------------
(* What the polling of a router promises, whatever a poll asks: connectivity *)
(* follows the outcomes of whole polls.  A poll that begins has one outcome, *)
(* or is cancelled and has none; nothing between two outcomes changes what   *)
(* is said of the router but a new configuration or a pause.                 *)
(*                                                                           *)
(* FritzInstance implements it (PollCycleImplemented there).                 *)
EXTENDS Naturals

CONSTANTS
    Strikes,    \* missed polls in a row before the router counts as gone
    MaxMisses   \* where the count of missed polls stops

VARIABLES
    phase,      \* "away" without phi-core, "asking" while a poll runs, "serving"
                \* while the user has the session, else "idle"
    heard,      \* something has answered in the latest poll
    misses,     \* missed polls in a row
    connected   \* what is said of the router

vars == <<phase, heard, misses, connected>>

Init == phase = "away" /\ heard = FALSE /\ misses = 0 /\ connected = FALSE

Begin ==
    /\ phase = "idle"
    /\ phase' = "asking" /\ heard' = FALSE
    /\ UNCHANGED <<misses, connected>>

Hear ==
    /\ phase = "asking"
    /\ heard' = TRUE
    /\ UNCHANGED <<phase, misses, connected>>

\* Something has answered, the last question it may be.
Answered ==
    /\ phase = "asking" /\ phase' = "idle" /\ heard' = TRUE
    /\ misses' = 0 /\ connected' = TRUE

\* Nothing has, up to the last question.
Missed ==
    /\ phase = "asking" /\ phase' = "idle" /\ ~heard /\ ~heard'
    /\ misses' = IF misses < MaxMisses THEN misses + 1 ELSE misses
    /\ connected' = (connected /\ misses' < Strikes)

\* A user action takes the session; the poll it cancels has no outcome.
Served ==
    /\ phase # "away"
    /\ phase' = "serving"
    /\ UNCHANGED <<heard, misses, connected>>

Released ==
    /\ phase = "serving" /\ phase' = "idle"
    /\ UNCHANGED <<heard, misses, connected>>

\* A configuration counts from the start again.  A poll that runs goes on, and
\* one begins if the session is free.
Configured ==
    /\ \/ phase' = phase /\ heard' = heard
       \/ phase \in {"away", "idle"} /\ phase' = "asking" /\ heard' = FALSE
    /\ misses' = 0 /\ connected' \in {connected, FALSE}

\* A new process has phi-core, and waits for its configuration.
Started ==
    /\ phase = "away" /\ phase' = "idle"
    /\ UNCHANGED <<heard, misses, connected>>

\* phi-core has gone, or the process has ended.
Paused == phase' = "away" /\ heard' = FALSE /\ misses' = 0 /\ connected' = FALSE

Next ==
    \/ Begin \/ Hear \/ Answered \/ Missed
    \/ Served \/ Released \/ Configured \/ Started \/ Paused

Spec == Init /\ [][Next]_vars
=============================================================================
