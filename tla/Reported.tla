------------------------------ MODULE Reported ------------------------------
(* ReportedValues (fritz_state.cpp) and the queue of reports that wait for   *)
(* the end of a poll (m_pendingReports).                                     *)
(*                                                                           *)
(* said = [value, descriptor, pending]: the value and the descriptor last    *)
(* recorded as reported, and per channel the last report still deferred.     *)
(* flushPendingReports() sends the whole queue in one handler, so of several *)
(* deferred reports of a channel only the last can be observed.              *)
CONSTANT
    None       \* no value, no device, no call, no host configured

\* isNews(): a reading that differs from the one recorded for the channel.
IsNews(said, ch, v) == said.value[ch] # v

\* report() records the reading, and defers the report while a poll runs.
Record(said, ch, v, polling) ==
    [said EXCEPT !.value[ch] = v,
                 !.pending[ch] = IF polling /\ IsNews(said, ch, v) THEN v ELSE @]

\* Whether report() sends at once.
SentAtOnce(said, ch, v, polling) == IsNews(said, ch, v) /\ ~polling

\* forgetValues(): the values are said again, the descriptor is not.
ForgetValues(said) == [said EXCEPT !.value = [ch \in DOMAIN said.value |-> None]]

\* forget(): values and descriptor; the deferred reports are not its business.
ForgetReported(said) == [ForgetValues(said) EXCEPT !.descriptor = None]

\* m_pendingReports empty: cleared, or swapped out by flushPendingReports().
DropPending(said) == [said EXCEPT !.pending = [ch \in DOMAIN said.pending |-> None]]
=============================================================================
