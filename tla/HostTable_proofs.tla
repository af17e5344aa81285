-------------------------- MODULE HostTable_proofs --------------------------
(* HostTable for any clients and a table of any length: what a listing takes *)
(* for the whole network has every client that stayed.                       *)
EXTENDS HostTable, SequenceTheorems, TLAPS

LEMMA RemoveAtProperties ==
  ASSUME NEW S, NEW s \in Seq(S), NEW k \in 1 .. Len(s)
  PROVE  /\ RemoveAt(s, k) \in Seq(S)
         /\ Len(RemoveAt(s, k)) = Len(s) - 1
         /\ \A i \in 1 .. Len(s) - 1 :
               RemoveAt(s, k)[i] = IF i < k THEN s[i] ELSE s[i + 1]
<1> DEFINE front == SubSeq(s, 1, k - 1)
           back == SubSeq(s, k + 1, Len(s))
<1>1. Len(s) \in Nat /\ k \in Nat /\ 1 <= k /\ k <= Len(s)
  BY LenProperties
<1>2. /\ front \in Seq(S) /\ Len(front) = k - 1
      /\ \A i \in 1 .. k - 1 : front[i] = s[i]
  BY <1>1, SubSeqProperties, Z3
<1>3. /\ back \in Seq(S) /\ Len(back) = Len(s) - k
      /\ \A i \in 1 .. Len(s) - k : back[i] = s[i + k]
  BY <1>1, SubSeqProperties, Z3
<1>4. RemoveAt(s, k) = front \o back
  BY DEF RemoveAt
<1> HIDE DEF front, back
<1>5. /\ front \o back \in Seq(S) /\ Len(front \o back) = Len(s) - 1
      /\ \A i \in 1 .. Len(s) - 1 :
            (front \o back)[i] = IF i <= k - 1 THEN front[i] ELSE back[i - (k - 1)]
  <2>1. Len(front) + Len(back) = Len(s) - 1
    BY <1>1, <1>2, <1>3
  <2>2. /\ front \o back \in Seq(S) /\ Len(front \o back) = Len(front) + Len(back)
        /\ \A i \in 1 .. Len(front) + Len(back) :
              (front \o back)[i] = IF i <= Len(front) THEN front[i] ELSE back[i - Len(front)]
    BY <1>2, <1>3, ConcatProperties, Zenon
  <2>3. QED
    BY <1>2, <2>1, <2>2
<1>6. ASSUME NEW i \in 1 .. Len(s) - 1
      PROVE  RemoveAt(s, k)[i] = IF i < k THEN s[i] ELSE s[i + 1]
  <2>1. CASE i < k
    BY <1>1, <1>2, <1>4, <1>5, <2>1
  <2>2. CASE i >= k
    <3>1. i - (k - 1) \in 1 .. Len(s) - k
      BY <1>1, <2>2
    <3>2. back[i - (k - 1)] = s[i + 1]
      BY <1>1, <1>3, <3>1
    <3>3. QED
      BY <1>1, <1>4, <1>5, <2>2, <3>2, SMTT(30)
  <2>3. QED
    BY <1>1, <2>1, <2>2
<1>7. QED
  BY <1>4, <1>5, <1>6

-----------------------------------------------------------------------------
\* Where a reading by index stands.  As long as nobody has left, the steady
\* clients are below the count and those below the index are read; when
\* somebody has left and nobody came, the table has become shorter than the
\* count, so that its last index will not be answered.
OnItsWay ==
    At("entry") =>
        /\ listing.index < listing.total
        /\ "leave" \notin changed =>
              /\ listing.total <= Len(hostTable)
              /\ \A c \in steady : \E i \in 1 .. listing.total : hostTable[i] = c
              /\ listing.complete => \A i \in 1 .. listing.index :
                    hostTable[i] \in Client => hostTable[i] \in listing.hosts
        /\ "join" \notin changed =>
              /\ Len(hostTable) <= listing.total
              /\ "leave" \in changed => Len(hostTable) < listing.total

HostInv == HostTypeOK /\ OnItsWay /\ SteadyListed

LEMMA HostInitInv == HostInit => HostInv
  BY EmptySeq DEF HostInit, HostInv, HostTypeOK, OnItsWay, SteadyListed, At,
     NotListing, Listing, Stage

\* What a stage other than the reading by index, and an end that is not
\* complete, leave to be shown.
LEMMA ElsewhereInv ==
  ASSUME HostTypeOK', ~At("entry")', At("done")' => ~listing.complete'
  PROVE  HostInv'
  BY DEF HostInv, OnItsWay, SteadyListed, At

LEMMA GoToInv ==
  ASSUME HostInv, NEW stage \in {"path", "doc", "count"}, GoTo(stage), UNCHANGED network
  PROVE  HostInv'
<1>1. HostTypeOK'
  BY DEF HostInv, HostTypeOK, GoTo, NotListing, Listing, Stage, network
<1>2. listing'.stage = stage
  BY DEF GoTo, NotListing
<1>3. QED
  BY <1>1, <1>2, ElsewhereInv DEF At

LEMMA ReadHostTableInv == HostInv /\ ReadHostTable => HostInv'
  BY GoToInv DEF ReadHostTable

LEMMA CancelledInv == HostInv /\ HostCallCancelled => HostInv'
<1> SUFFICES ASSUME HostInv, HostCallCancelled PROVE HostInv'
  OBVIOUS
<1>1. HostTypeOK' /\ listing'.stage = "none"
  BY DEF HostInv, HostTypeOK, HostCallCancelled, NotListing, Listing, Stage, network
<1>2. QED
  BY <1>1, ElsewhereInv DEF At

LEMMA PathReplyInv == HostInv /\ PathReply => HostInv'
  BY GoToInv DEF PathReply

LEMMA FetchHostListInv == HostInv /\ FetchHostList => HostInv'
<1> SUFFICES ASSUME HostInv, FetchHostList PROVE HostInv'
  OBVIOUS
<1> DEFINE hosts == WithAddress(ToSet(hostTable))
<1>1. CASE CompleteHostTable(hosts, TRUE) /\ ReadsFrom(hosts)
  <2> HIDE DEF hosts
  <2>1. hosts \in SUBSET Client
    BY DEF hosts, WithAddress
  <2>2. HostTypeOK'
    BY <1>1, <2>1 DEF HostInv, HostTypeOK, CompleteHostTable, ReadsFrom, NotListing, Listing, Stage
  <2>3. listing'.stage = "done" /\ listing'.hosts = hosts /\ steady' = hosts
    BY <1>1 DEF CompleteHostTable, ReadsFrom, NotListing
  <2>4. QED
    BY <2>2, <2>3 DEF HostInv, OnItsWay, SteadyListed, At
<1>2. CASE GoTo("count") /\ UNCHANGED network
  BY <1>2, GoToInv
<1>3. QED
  BY <1>1, <1>2 DEF FetchHostList

LEMMA EnumerateHostsInv == HostInv /\ EnumerateHosts => HostInv'
<1> SUFFICES ASSUME HostInv, EnumerateHosts PROVE HostInv'
  OBVIOUS
<1> DEFINE hosts == ToSet(hostTable) \cap Client
<1>1. /\ steady' = hosts /\ changed' = {} /\ hostTable' = hostTable
      /\ hosts \in SUBSET Client
  BY DEF EnumerateHosts, ReadsFrom
<1>2. Len(hostTable) \in Nat
  BY LenProperties DEF HostInv, HostTypeOK
<1>3. ASSUME NEW c \in hosts PROVE \E i \in 1 .. Len(hostTable) : hostTable[i] = c
  BY LenProperties DEF ToSet, HostInv, HostTypeOK
<1> HIDE DEF hosts
<1>4. ASSUME EnumerateHostAt(0, Len(hostTable), TRUE, {}) PROVE HostInv'
  <2>1. CASE Len(hostTable) = 0
    <3>1. listing' = [NotListing EXCEPT !.stage = "done", !.complete = TRUE, !.hosts = {}]
      BY <1>4, <2>1 DEF EnumerateHostAt, CompleteHostTable
    <3>2. HostTypeOK'
      BY <1>1, <3>1 DEF HostInv, HostTypeOK, NotListing, Listing, Stage
    <3>3. hosts = {}
      BY <1>3, <2>1
    <3>4. QED
      BY <1>1, <3>1, <3>2, <3>3 DEF HostInv, OnItsWay, SteadyListed, At, NotListing
  <2>2. CASE Len(hostTable) # 0
    <3>1. listing' = [stage |-> "entry", index |-> 0, total |-> Len(hostTable),
                      complete |-> TRUE, hosts |-> {}]
      <4>1. ~(0 >= Len(hostTable))
        BY <1>2, <2>2
      <4>2. QED
        BY <1>4, <4>1, Zenon DEF EnumerateHostAt
    <3>2. HostTypeOK'
      BY <1>1, <1>2, <3>1 DEF HostInv, HostTypeOK, Listing, Stage
    <3>3. \A c \in steady' : \E i \in 1 .. listing'.total : hostTable'[i] = c
      BY <1>1, <1>3, <3>1
    <3>4. OnItsWay'
      <4>1. listing'.index < listing'.total /\ listing'.total = Len(hostTable')
        BY <1>1, <1>2, <2>2, <3>1
      <4>2. \A i \in 1 .. listing'.index : hostTable'[i] \in listing'.hosts
        BY <3>1
      <4>3. Len(hostTable') \in Nat /\ changed' = {}
        BY <1>1, <1>2
      <4>4. QED
        BY <3>3, <4>1, <4>2, <4>3 DEF OnItsWay
    <3>5. QED
      BY <3>1, <3>2, <3>4 DEF HostInv, SteadyListed, At
  <2>3. QED
    BY <2>1, <2>2
<1>5. ASSUME EnumerateHostAt(0, 0, FALSE, {}) PROVE HostInv'
  <2>1. listing' = [NotListing EXCEPT !.stage = "done", !.complete = FALSE, !.hosts = {}]
    BY <1>5 DEF EnumerateHostAt, CompleteHostTable
  <2>2. HostTypeOK'
    BY <1>1, <2>1 DEF HostInv, HostTypeOK, NotListing, Listing, Stage
  <2>3. QED
    BY <2>1, <2>2, ElsewhereInv DEF At, NotListing
<1>6. QED
  BY <1>4, <1>5 DEF EnumerateHosts

LEMMA EntryReplyInv == HostInv /\ EntryReply => HostInv'
<1> SUFFICES ASSUME HostInv, EntryReply PROVE HostInv'
  OBVIOUS
<1> DEFINE index == listing.index
           total == listing.total
           read == WithAddress({hostTable[index + 1]})
<1>1. /\ index \in Nat /\ total \in Nat /\ index < total
      /\ listing.complete \in BOOLEAN /\ listing.hosts \in SUBSET Client
      /\ Len(hostTable) \in Nat /\ hostTable \in Seq(Host)
  BY LenProperties DEF HostInv, HostTypeOK, OnItsWay, EntryReply, Listing
<1>2. UNCHANGED <<hostTable, steady, changed>>
  BY DEF EntryReply, network
<1>3. At("entry")
  BY DEF EntryReply
\* The reading ends, or goes on, with what it holds then.
<1>4. ASSUME NEW complete \in BOOLEAN, NEW hosts \in SUBSET Client,
             EnumerateHostAt(index + 1, total, complete, hosts),
             complete => index < Len(hostTable) /\ listing.complete
                         /\ hosts = listing.hosts \cup read
      PROVE  HostInv'
  <2>1. CASE index + 1 >= total
    <3>1. listing' = [NotListing EXCEPT !.stage = "done", !.complete = complete, !.hosts = hosts]
      BY <1>4, <2>1, Zenon DEF EnumerateHostAt, CompleteHostTable
    <3>2. HostTypeOK'
      BY <1>2, <3>1 DEF HostInv, HostTypeOK, NotListing, Listing, Stage
    <3>3. CASE "leave" \in changed
      <4>1. complete => "join" \in changed
        BY <1>1, <1>3, <1>4, <2>1, <3>3 DEF HostInv, OnItsWay
      <4>2. complete => changed' = {"join", "leave"}
        BY <1>2, <3>3, <4>1 DEF HostInv, HostTypeOK
      <4>3. QED
        BY <3>1, <3>2, <4>2 DEF HostInv, OnItsWay, SteadyListed, At, NotListing
    <3>4. CASE "leave" \notin changed /\ complete
      <4>1. ASSUME NEW c \in steady PROVE c \in hosts
        <5>1. PICK i \in 1 .. total : hostTable[i] = c
          BY <1>3, <3>4 DEF HostInv, OnItsWay
        <5>2. c \in Client
          BY DEF HostInv, HostTypeOK
        <5>3. i \in 1 .. index \/ i = index + 1
          BY <1>1, <2>1
        <5>4. i \in 1 .. index => c \in listing.hosts
          BY <1>3, <1>4, <3>4, <5>1, <5>2 DEF HostInv, OnItsWay
        <5>5. i = index + 1 => c \in read
          BY <5>1, <5>2 DEF WithAddress
        <5>6. QED
          BY <1>4, <3>4, <5>3, <5>4, <5>5
      <4>2. steady' \subseteq listing'.hosts
        BY <1>2, <3>1, <4>1 DEF NotListing
      <4>3. QED
        BY <3>1, <3>2, <4>2 DEF HostInv, OnItsWay, SteadyListed, At, NotListing
    <3>5. CASE ~complete
      BY <3>1, <3>2, <3>5, ElsewhereInv DEF At, NotListing
    <3>6. QED
      BY <3>3, <3>4, <3>5
  <2>2. CASE ~(index + 1 >= total)
    <3>1. listing' = [stage |-> "entry", index |-> index + 1, total |-> total,
                      complete |-> complete, hosts |-> hosts]
      BY <1>4, <2>2, Zenon DEF EnumerateHostAt
    <3>2. HostTypeOK'
      BY <1>1, <1>2, <3>1 DEF HostInv, HostTypeOK, Listing, Stage
    <3>3. ASSUME "leave" \notin changed, complete, NEW i \in 1 .. index + 1, hostTable[i] \in Client
          PROVE  hostTable[i] \in hosts
      <4>1. CASE i \in 1 .. index
        BY <1>3, <1>4, <3>3, <4>1 DEF HostInv, OnItsWay
      <4>2. CASE i = index + 1
        BY <1>4, <3>3, <4>2 DEF WithAddress
      <4>3. QED
        BY <1>1, <4>1, <4>2
    <3>4. /\ index + 1 < total
          /\ "leave" \notin changed =>
                /\ total <= Len(hostTable)
                /\ \A c \in steady : \E i \in 1 .. total : hostTable[i] = c
          /\ "join" \notin changed =>
                /\ Len(hostTable) <= total
                /\ "leave" \in changed => Len(hostTable) < total
      BY <1>1, <1>3, <2>2 DEF HostInv, OnItsWay
    <3>5. OnItsWay'
      <4>1. /\ listing'.index = index + 1 /\ listing'.total = total
            /\ listing'.complete = complete /\ listing'.hosts = hosts
        BY <3>1
      <4>2. QED
        BY <1>2, <3>3, <3>4, <4>1 DEF OnItsWay
    <3>6. QED
      BY <3>1, <3>2, <3>5 DEF HostInv, SteadyListed, At
  <2>3. QED
    BY <2>1, <2>2
<1>5. read \in SUBSET Client
  BY DEF WithAddress
<1>6. CASE /\ index < Len(hostTable)
            /\ EnumerateHostAt(index + 1, total, listing.complete, listing.hosts \cup read)
  <2>1. listing.hosts \cup read \in SUBSET Client
    BY <1>1, <1>5
  <2> HIDE DEF read
  <2>2. QED
    BY <1>1, <1>4, <1>6, <2>1
<1>7. CASE EnumerateHostAt(index + 1, total, FALSE, listing.hosts)
  BY <1>1, <1>4, <1>7
<1>8. QED
  BY <1>6, <1>7 DEF EntryReply, NextIndex, LostIsGap

LEMMA JoinInv == ASSUME HostInv, NEW h \in Host, Join(h) PROVE HostInv'
<1>1. /\ hostTable \in Seq(Host) /\ Len(hostTable) \in Nat
      /\ hostTable' \in Seq(Host) /\ Len(hostTable') = Len(hostTable) + 1
      /\ \A i \in 1 .. Len(hostTable) : hostTable'[i] = hostTable[i]
      /\ hostTable'[Len(hostTable) + 1] = h
  BY AppendProperties, LenProperties DEF HostInv, HostTypeOK, Join
<1>2. /\ listing' = listing /\ steady' = steady /\ changed' = changed \cup {"join"}
  BY DEF Join
<1>3. \A i \in 1 .. Len(hostTable) : hostTable[i] # h
  BY <1>1, LenProperties DEF Join, ToSet
<1>4. HostTypeOK'
  <2>1. ASSUME NEW i \in 1 .. Len(hostTable'), NEW j \in 1 .. Len(hostTable'),
               hostTable'[i] = hostTable'[j]
        PROVE  i = j
    <3>1. (i \in 1 .. Len(hostTable) \/ i = Len(hostTable) + 1)
          /\ (j \in 1 .. Len(hostTable) \/ j = Len(hostTable) + 1)
      BY <1>1
    <3>2. QED
      BY <1>1, <1>3, <2>1, <3>1 DEF HostInv, HostTypeOK
  <2>2. QED
    BY <1>1, <1>2, <2>1 DEF HostInv, HostTypeOK
<1>5. CASE At("entry")
  <2>1. listing.index \in Nat /\ listing.total \in Nat /\ listing.index < listing.total
    BY <1>5 DEF HostInv, HostTypeOK, OnItsWay, Listing
  <2>2. ASSUME "leave" \notin changed
        PROVE  /\ listing.total <= Len(hostTable')
               /\ \A c \in steady : \E i \in 1 .. listing.total : hostTable'[i] = c
               /\ listing.complete => \A i \in 1 .. listing.index :
                     hostTable'[i] \in Client => hostTable'[i] \in listing.hosts
    <3>1. listing.total <= Len(hostTable)
      BY <1>5, <2>2 DEF HostInv, OnItsWay
    <3>2. \A i \in 1 .. listing.total : hostTable'[i] = hostTable[i]
      BY <1>1, <2>1, <3>1
    <3>3. \A i \in 1 .. listing.index : hostTable'[i] = hostTable[i]
      BY <2>1, <3>2
    <3>4. QED
      BY <1>1, <1>5, <2>1, <2>2, <3>1, <3>2, <3>3 DEF HostInv, OnItsWay
  <2>3. QED
    BY <1>2, <1>4, <1>5, <2>1, <2>2 DEF HostInv, OnItsWay, SteadyListed, At
<1>6. CASE ~At("entry")
  BY <1>2, <1>4, <1>6 DEF HostInv, HostTypeOK, OnItsWay, SteadyListed, At
<1>7. QED
  BY <1>5, <1>6

LEMMA LeaveInv == ASSUME HostInv, NEW k \in 1 .. Len(hostTable), Leave(k) PROVE HostInv'
<1>1. /\ hostTable \in Seq(Host) /\ Len(hostTable) \in Nat
      /\ hostTable' \in Seq(Host) /\ Len(hostTable') = Len(hostTable) - 1
      /\ \A i \in 1 .. Len(hostTable) - 1 :
            hostTable'[i] = IF i < k THEN hostTable[i] ELSE hostTable[i + 1]
  BY RemoveAtProperties, LenProperties DEF HostInv, HostTypeOK, Leave
<1>2. /\ listing' = listing /\ steady' \subseteq steady
      /\ changed' = changed \cup {"leave"}
  BY DEF Leave
<1>3. HostTypeOK'
  <2>1. ASSUME NEW i \in 1 .. Len(hostTable'), NEW j \in 1 .. Len(hostTable'),
               hostTable'[i] = hostTable'[j]
        PROVE  i = j
    <3> DEFINE old(n) == IF n < k THEN n ELSE n + 1
    <3>1. /\ old(i) \in 1 .. Len(hostTable) /\ hostTable'[i] = hostTable[old(i)]
          /\ old(j) \in 1 .. Len(hostTable) /\ hostTable'[j] = hostTable[old(j)]
      BY <1>1, SMTT(30)
    <3>2. old(i) = old(j)
      BY <2>1, <3>1 DEF HostInv, HostTypeOK
    <3>3. QED
      BY <1>1, <3>2
  <2>2. QED
    BY <1>1, <1>2, <2>1 DEF HostInv, HostTypeOK
<1>4. OnItsWay'
  BY <1>1, <1>2 DEF HostInv, HostTypeOK, OnItsWay, At, Listing
<1>5. SteadyListed'
  BY <1>2 DEF HostInv, HostTypeOK, SteadyListed, At
<1>6. QED
  BY <1>3, <1>4, <1>5 DEF HostInv

LEMMA HostStepInv == HostInv /\ [HostNext]_hostVars => HostInv'
<1>1. HostInv /\ UNCHANGED hostVars => HostInv'
  BY DEF HostInv, HostTypeOK, OnItsWay, SteadyListed, At, hostVars, network
<1>2. QED
  BY <1>1, ReadHostTableInv, CancelledInv, PathReplyInv, FetchHostListInv, EnumerateHostsInv,
     EntryReplyInv, JoinInv, LeaveInv DEF HostNext, ListingReply

LEMMA HostInvHolds == HostSpec => []HostInv
  BY HostInitInv, HostStepInv, PTL DEF HostSpec

\* The listing and the table have their types, and no host has two entries.
THEOREM HostTypeCorrect == HostSpec => []HostTypeOK
<1>1. HostInv => HostTypeOK
  BY DEF HostInv
<1>2. QED
  BY HostInvHolds, <1>1, PTL

\* A complete listing has every client that stayed, for tables of any length,
\* unless clients both joined and left while it was read.
THEOREM SteadyListedHolds == HostSpec => []SteadyListed
<1>1. HostInv => SteadyListed
  BY DEF HostInv
<1>2. QED
  BY HostInvHolds, <1>1, PTL
=============================================================================
