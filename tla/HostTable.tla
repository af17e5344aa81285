----------------------------- MODULE HostTable ------------------------------
(* The host table of a listing (readHostTable to completeHostTable) while    *)
(* the network does not stand still: the table is read by index, one call    *)
(* per host, and clients join and leave between two calls.                   *)
(*                                                                           *)
(* FritzInstance has the session such a listing takes and what it learns;    *)
(* here is only what the list it ends with is worth.                         *)
EXTENDS Naturals, SequencesExt

CONSTANTS
    Client,     \* hosts with a MAC address
    Nameless    \* hosts without one, as a VPN peer; never listed

ASSUME HostAssumption == Client \cap Nameless = {}

Host == Client \cup Nameless

VARIABLES
    hostTable,  \* the table of the router, in the order of its indexes
    listing,    \* what the callbacks hold: where the chain is, NewIndex, the
                \* total asked for, complete, and the hosts read
    steady,     \* clients in the table ever since its reading began
    changed     \* what has happened to the table since: "join", "leave"

network == <<hostTable, steady, changed>>
hostVars == <<network, listing>>

Stage == {"none", "path", "doc", "count", "entry", "done"}
Listing == [stage : Stage, index : Nat, total : Nat, complete : BOOLEAN,
            hosts : SUBSET Client]
NotListing == [stage |-> "none", index |-> 0, total |-> 0, complete |-> FALSE, hosts |-> {}]

\* Every host has one entry.
HostTypeOK ==
    /\ hostTable \in Seq(Host)
    /\ \A i, j \in 1 .. Len(hostTable) : hostTable[i] = hostTable[j] => i = j
    /\ listing \in Listing
    /\ steady \in SUBSET Client
    /\ changed \in SUBSET {"join", "leave"}

HostInit ==
    /\ hostTable = <<>> /\ listing = NotListing
    /\ steady = {} /\ changed = {}

-----------------------------------------------------------------------------
(* The listing.                                                              *)

\* The clients of the table as it is now; the reading of it begins.
ReadsFrom(now) == steady' = now /\ changed' = {} /\ UNCHANGED hostTable

At(stage) == listing.stage = stage
GoTo(stage) == listing' = [NotListing EXCEPT !.stage = stage]

Everybody(hosts) == hosts
\* A host without an address is left out of every list.
WithAddress(hosts) == hosts \cap Client

\* completeHostTable(): the list is given, and it is a snapshot of the network
\* for the tracker if it is complete.
CompleteHostTable(hosts, complete) ==
    listing' = [NotListing EXCEPT !.stage = "done", !.complete = complete, !.hosts = hosts]

\* readHostTable(), from onPairingStart; a listing that runs is cancelled.
ReadHostTable == GoTo("path") /\ UNCHANGED network

\* A write, a pause or a stop cancels the call; nobody hears of the listing.
HostCallCancelled ==
    /\ listing.stage \in {"path", "doc", "count", "entry"}
    /\ listing' = NotListing /\ UNCHANGED network

\* The router names a list document, or does not.
PathReply ==
    /\ At("path")
    /\ GoTo("doc") \/ GoTo("count")
    /\ UNCHANGED network

\* fetchHostList(): a document without hosts is no document.
FetchHostList ==
    /\ At("doc")
    /\ LET hosts == WithAddress(ToSet(hostTable))
       IN  \/ hosts # {} /\ CompleteHostTable(hosts, TRUE) /\ ReadsFrom(hosts)
           \/ GoTo("count") /\ UNCHANGED network

\* enumerateHostAt(): the entry of this index, or the end.
EnumerateHostAt(index, total, complete, hosts) ==
    IF index >= total THEN CompleteHostTable(hosts, complete)
    ELSE listing' = [stage |-> "entry", index |-> index, total |-> total,
                     complete |-> complete, hosts |-> hosts]

\* enumerateHosts(): without a count, nothing is read and nothing is complete.
EnumerateHosts ==
    /\ At("count")
    /\ \/ EnumerateHostAt(0, Len(hostTable), TRUE, {})
       \/ EnumerateHostAt(0, 0, FALSE, {})
    /\ ReadsFrom(ToSet(hostTable) \cap Client)

LostIsSkipped(complete) == complete
\* Without an answer the table is not complete any more.
LostIsGap(complete) == FALSE

AskedAgain(index, answered) == IF answered THEN index + 1 ELSE index
\* Either way the next index is asked for.
NextIndex(index, answered) == index + 1

\* The answer of GetGenericHostEntry: a fault when the table has no such index
\* any more, and any may be lost.
EntryReply ==
    /\ At("entry")
    /\ \/ /\ listing.index < Len(hostTable)
          /\ EnumerateHostAt(NextIndex(listing.index, TRUE), listing.total, listing.complete,
                 listing.hosts \cup WithAddress({hostTable[listing.index + 1]}))
       \/ EnumerateHostAt(NextIndex(listing.index, FALSE), listing.total,
                          LostIsGap(listing.complete), listing.hosts)
    /\ UNCHANGED network

ListingReply == PathReply \/ FetchHostList \/ EnumerateHosts \/ EntryReply

-----------------------------------------------------------------------------
(* The network.                                                              *)

\* A new host takes the next index.
Join(h) ==
    /\ h \notin ToSet(hostTable)
    /\ hostTable' = Append(hostTable, h)
    /\ changed' = changed \cup {"join"}
    /\ UNCHANGED <<steady, listing>>

\* The hosts behind one that leaves move up.
Leave(i) ==
    /\ hostTable' = RemoveAt(hostTable, i)
    /\ steady' = steady \ {hostTable[i]}
    /\ changed' = changed \cup {"leave"}
    /\ UNCHANGED listing

HostNext ==
    \/ ReadHostTable \/ HostCallCancelled \/ ListingReply
    \/ \E h \in Host : Join(h)
    \/ \E i \in 1 .. Len(hostTable) : Leave(i)

HostSpec == HostInit /\ [][HostNext]_hostVars

\* A call is answered or times out.
HostFairSpec == HostSpec /\ WF_hostVars(ListingReply)

-----------------------------------------------------------------------------
(* What must hold.                                                           *)

\* A list taken as a snapshot of the network has every client that was there
\* all the while, although clients joined, or left, between two indexes: an
\* index beyond a table that has shrunk is a gap, and one beyond the count is
\* only a newcomer.  Not with both: "every host the router has is in `hosts`",
\* the comment at completeHostTable() says of a complete list, yet a client that
\* moves up past the index is missing from one whose count is met.
SteadyListed ==
    At("done") /\ listing.complete /\ changed # {"join", "leave"} =>
        steady \subseteq listing.hosts

\* A listing comes to its end however the table grows meanwhile: the indexes
\* are those of the count, and a lost answer does not ask again.
Listed == At("entry") ~> ~At("entry")
=============================================================================
