------------------------- MODULE FritzFactory_proofs ------------------------
(* "Test connection", for every dialog, router and account: a success is of  *)
(* the box the user means, and no login is refused for the challenge of      *)
(* another router as long as probes come one at a time.                      *)
EXTENDS FritzFactory, TLAPS

-----------------------------------------------------------------------------
(* The dialog.                                                               *)

\* The first of two and of three texts.
LEMMA FirstOfTwo ==
    ASSUME NEW texts, DOMAIN texts = 1 .. 2
    PROVE  FirstOf(texts) = IF texts[1] # None THEN texts[1] ELSE texts[2]
<1> DEFINE said == {i \in 1 .. 2 : texts[i] # None}
<1>1. FirstOf(texts) = IF said = {} THEN None ELSE texts[Min(said)]
  BY DEF FirstOf
<1>2. 1 \in 1 .. 2 /\ 2 \in 1 .. 2 /\ \A i \in 1 .. 2 : i = 1 \/ i = 2
  OBVIOUS
<1>3. CASE texts[1] # None
  <2>1. 1 \in said /\ \A i \in said : i = 1 \/ i = 2
    BY <1>2, <1>3
  <2>2. Min(said) = 1
    BY <2>1 DEF Min
  <2> QED
    BY <1>1, <1>3, <2>1, <2>2
<1>4. CASE texts[1] = None /\ texts[2] # None
  <2>1. said = {2}
    BY <1>2, <1>4
  <2>2. Min(said) = 2
    BY <2>1 DEF Min
  <2> QED
    BY <1>1, <1>4, <2>1, <2>2
<1>5. CASE texts[1] = None /\ texts[2] = None
  <2>1. said = {}
    BY <1>2, <1>5
  <2> QED
    BY <1>1, <1>5, <2>1
<1> QED
  BY <1>3, <1>4, <1>5

LEMMA FirstOfThree ==
    ASSUME NEW texts, DOMAIN texts = 1 .. 3, texts[1] # None
    PROVE  FirstOf(texts) = texts[1]
<1> DEFINE said == {i \in 1 .. 3 : texts[i] # None}
<1>1. FirstOf(texts) = IF said = {} THEN None ELSE texts[Min(said)]
  BY DEF FirstOf
<1>2. 1 \in said /\ \A i \in said : i \in Nat /\ 1 <= i
  OBVIOUS
<1>3. Min(said) = 1
  BY <1>2 DEF Min
<1> QED
  BY <1>1, <1>2, <1>3

\* What is typed into the form under one of two keys is what is picked.
LEMMA FormFirst ==
    ASSUME NEW d, NEW key, NEW other, {d.form[key], d.form[other]} # {None}
    PROVE  Pick(d, <<key, other>>) \in {d.form[key], d.form[other]}
<1> DEFINE keys == <<key, other>>
<1> DEFINE In(layer) == FirstOf([i \in DOMAIN keys |-> layer[keys[i]]])
<1>1. DOMAIN keys = 1 .. 2 /\ keys[1] = key /\ keys[2] = other
  OBVIOUS
<1> DEFINE typed == [i \in DOMAIN keys |-> d.form[keys[i]]]
<1>2. DOMAIN typed = 1 .. 2 /\ typed[1] = d.form[key] /\ typed[2] = d.form[other]
  BY <1>1
<1>3. In(d.form) = IF d.form[key] # None THEN d.form[key] ELSE d.form[other]
  <2> HIDE DEF typed
  <2>1. FirstOf(typed) = IF typed[1] # None THEN typed[1] ELSE typed[2]
    BY <1>2, FirstOfTwo
  <2> QED
    BY <1>2, <2>1 DEF typed
<1>4. In(d.form) # None /\ In(d.form) \in {d.form[key], d.form[other]}
  BY <1>3
<1> DEFINE layers == <<In(d.form), In(d.candidate), In(d.meta)>>
<1>5. Pick(d, keys) = FirstOf(layers)
  BY DEF Pick
<1>6. DOMAIN layers = 1 .. 3 /\ layers[1] = In(d.form)
  OBVIOUS
<1> HIDE DEF layers, In
<1> QED
  BY <1>4, <1>5, <1>6, FirstOfThree

-----------------------------------------------------------------------------
(* The inductive invariant.                                                  *)

\* The probe in flight is of the command it answers, and of a session; as long
\* as no other came in between, the session is still set up for its box, and a
\* challenge that is kept or sent is of that box.
FactoryInv ==
    /\ flight # None =>
          /\ session \in Session(Address, Login)
          /\ asked[flight.cmd] \in Dialog
          /\ flight.to = Endpoint(ProbeTarget(asked[flight.cmd]))
          /\ flight.login = ProbeTarget(asked[flight.cmd]).login
    /\ ~overlapped /\ session # None => session.challenge \in {None, session.base}
    /\ ~overlapped /\ flight # None =>
          /\ session.base = flight.to
          /\ flight.challenge \in {None, flight.to}

Sound == FactoryTypeOK /\ FactoryInv /\ RightBox /\ NoFalseRefusal

LEMMA FactoryInitSound == FactoryInit => Sound
<1> SUFFICES ASSUME FactoryInit PROVE Sound
  OBVIOUS
<1>1. NoAnswer \in Answer /\ NoAnswer.status = "none"
  BY DEF NoAnswer, Answer
<1>2. FactoryTypeOK
  BY <1>1 DEF FactoryInit, FactoryTypeOK
<1>3. FactoryInv
  BY DEF FactoryInit, FactoryInv
<1>4. RightBox /\ NoFalseRefusal
  BY <1>1 DEF FactoryInit, RightBox, NoFalseRefusal
<1> QED
  BY <1>2, <1>3, <1>4 DEF Sound

LEMMA TargetType ==
    ASSUME NEW d \in Dialog
    PROVE  Endpoint(ProbeTarget(d)) \in Address /\ ProbeTarget(d).login \in Login
BY DEF Address, Login

\* A session that is set up for a box keeps no challenge of another.
LEMMA SetUpSession ==
    ASSUME FactoryTypeOK, NEW d \in Dialog
    PROVE  LET t == ProbeTarget(d)
               s == SetUp(t)
           IN  /\ s \in Session(Address, Login)
               /\ s.base = Endpoint(t)
               /\ (session # None => session.challenge \in {None, session.base})
                     => s.challenge \in {None, s.base}
<1> DEFINE to == Endpoint(ProbeTarget(d))
<1> DEFINE login == ProbeTarget(d).login
<1>1. to \in Address /\ login \in Login
  BY TargetType
<1>2. SetUp(ProbeTarget(d)) = SetCredentials(SetEndpoint(SessionOf, to), login)
  BY DEF SetUp
<1> HIDE DEF to, login
<1>3. SessionOf \in Session(Address, Login)
  BY DEF SessionOf, NewSession, Session, FactoryTypeOK
<1>4. (session # None => session.challenge \in {None, session.base})
         => SessionOf.challenge \in {None, SessionOf.base}
  BY DEF SessionOf, NewSession
<1>5. ASSUME NEW s \in Session(Address, Login)
      PROVE  /\ SetEndpoint(s, to) \in Session(Address, Login)
             /\ SetEndpoint(s, to).base = to
             /\ s.challenge \in {None, s.base} => SetEndpoint(s, to).challenge \in {None, to}
  BY <1>1 DEF SetEndpoint, ForgetAuthentication, Session
<1>6. ASSUME NEW s \in Session(Address, Login)
      PROVE  /\ SetCredentials(s, login) \in Session(Address, Login)
             /\ SetCredentials(s, login).base = s.base
             /\ SetCredentials(s, login).challenge \in {None, s.challenge}
  BY <1>1 DEF SetCredentials, ForgetAuthentication, Session
<1> QED
  BY <1>2, <1>3, <1>4, <1>5, <1>6 DEF to

-----------------------------------------------------------------------------
(* The steps.                                                                *)

LEMMA RefuseSound ==
    ASSUME Sound, NEW d \in Dialog \cup {None}, NEW status \in {"unsupported", "invalid"},
           Refuse(d, status)
    PROVE  Sound'
BY DEF Refuse, Sound, FactoryTypeOK, FactoryInv, RightBox, NoFalseRefusal, Answer

\* A probe: the call goes to the box of its own dialog, or the one in flight
\* stays what it is and counts as overlapped.
LEMMA RunProbeSound ==
    ASSUME Sound, NEW c \in ProbeCmd, NEW d \in Dialog, asked[c] = None, RunProbe(c, d)
    PROVE  Sound'
<1> DEFINE t == ProbeTarget(d)
<1>1. Endpoint(t) \in Address /\ t.login \in Login
  BY TargetType
<1>2. /\ session' \in Session(Address, Login) /\ session'.base = Endpoint(t)
      /\ (session # None => session.challenge \in {None, session.base})
            => session'.challenge \in {None, session'.base}
  BY SetUpSession DEF RunProbe, Sound
<1>3. asked' = [asked EXCEPT ![c] = d] /\ asked \in [ProbeCmd -> Dialog \cup {None}]
      /\ answer' = answer /\ overlapped' = (overlapped \/ flight # None)
  BY DEF RunProbe, Sound, FactoryTypeOK
<1>4. \/ flight' = flight
      \/ /\ flight = None
         /\ flight' = [cmd |-> c, to |-> Endpoint(t), login |-> t.login,
                       challenge |-> session'.challenge]
  BY DEF RunProbe, Issued
<1> HIDE DEF t
<1>5. FactoryTypeOK'
  <2>1. session'.challenge \in Address \cup {None}
    BY <1>2 DEF Session
  <2> QED
    BY <1>1, <1>2, <1>3, <1>4, <2>1 DEF Sound, FactoryTypeOK
<1>6. RightBox' /\ NoFalseRefusal'
  BY <1>3 DEF Sound, RightBox, NoFalseRefusal
<1>7. FactoryInv'
  <2>1. CASE flight' = flight
    <3>1. flight # None => flight.cmd \in ProbeCmd /\ flight.cmd # c
      BY DialogAssumption DEF Sound, FactoryInv, FactoryTypeOK
    <3> QED
      BY <1>2, <1>3, <2>1, <3>1 DEF Sound, FactoryInv
  <2>2. CASE /\ flight = None
             /\ flight' = [cmd |-> c, to |-> Endpoint(t), login |-> t.login,
                           challenge |-> session'.challenge]
    BY <1>2, <1>3, <2>2 DEF Sound, FactoryInv, t
  <2> QED
    BY <1>4, <2>1, <2>2
<1> QED
  BY <1>5, <1>6, <1>7 DEF Sound

\* The answer is of the box the dialog means: what the callback holds is what
\* the call was made with.
LEMMA ProbeReplySound ==
    ASSUME Sound, ProbeReply
    PROVE  Sound'
<1>1. PICK out \in Outcomes(flight) :
        /\ answer' = [to |-> asked[flight.cmd], status |-> out,
                      named |-> IF out = "ok" THEN Named(flight) ELSE None]
        /\ asked' = Settled(flight.cmd, out)
        /\ session' = IF out = "failed" THEN session ELSE Challenged(session, flight.to)
  BY DEF ProbeReply
<1> DEFINE d == asked[flight.cmd]
<1> DEFINE t == ProbeTarget(d)
<1>2. flight # None /\ flight' = None /\ overlapped' = overlapped
  BY DEF ProbeReply
<1>3. /\ d \in Dialog /\ flight.to = Endpoint(t) /\ flight.login = t.login
      /\ flight.cmd \in ProbeCmd /\ flight.to \in Address
  BY <1>2 DEF Sound, FactoryInv, FactoryTypeOK
<1> HIDE DEF d, t
<1>4. out \in {"ok", "refused", "failed"}
  BY DEF Outcomes
<1>5. FactoryTypeOK'
  <2>1. answer' \in Answer
    BY <1>1, <1>3, <1>4 DEF Answer, Named, d
  <2>2. asked' \in [ProbeCmd -> Dialog \cup {None}]
    BY <1>1, <1>3 DEF Settled, Sound, FactoryTypeOK
  <2>3. session' \in Session(Address, Login) \cup {None}
    <3>1. session \in Session(Address, Login)
      BY <1>2 DEF Sound, FactoryInv
    <3> QED
      BY <1>1, <1>3, <3>1 DEF Challenged, Session
  <2> QED
    BY <1>2, <2>1, <2>2, <2>3 DEF Sound, FactoryTypeOK
<1>6. FactoryInv'
  BY <1>1, <1>2 DEF Sound, FactoryInv, FactoryTypeOK, Challenged, Session
<1>7. RightBox'
  <2> SUFFICES ASSUME out = "ok"
               PROVE  /\ answer'.named = Endpoint(t)
                      /\ [at |-> answer'.named, login |-> t.login] \in Account
                      /\ {d.form.ip, d.form.host} # {None} =>
                             answer'.named.host \in {d.form.ip, d.form.host}
    BY <1>1 DEF RightBox, d, t
  <2>1. answer'.named = Endpoint(t)
    BY <1>1, <1>3 DEF Named
  <2>2. [at |-> flight.to, login |-> flight.login] \in Account
    BY <1>1 DEF Outcomes
  <2>3. Endpoint(t).host = Pick(d, <<"ip", "host">>)
    BY DEF Endpoint, ProbeTarget, t
  <2>4. {d.form["ip"], d.form["host"]} # {None} =>
            Endpoint(t).host \in {d.form["ip"], d.form["host"]}
    BY <2>3, FormFirst
  <2> QED
    BY <1>3, <2>1, <2>2, <2>4
<1>8. NoFalseRefusal'
  <2> SUFFICES ASSUME out = "refused", ~overlapped
               PROVE  [at |-> Endpoint(t), login |-> t.login] \notin Account
    BY <1>1, <1>2 DEF NoFalseRefusal, d, t
  <2>1. ~Misled(flight.challenge, flight.to)
    BY <1>2 DEF Sound, FactoryInv, Misled
  <2> QED
    BY <1>1, <1>3, <2>1 DEF Outcomes
<1> QED
  BY <1>5, <1>6, <1>7, <1>8 DEF Sound

LEMMA OnFactoryStoppingSound ==
    ASSUME Sound, OnFactoryStopping
    PROVE  Sound'
BY DEF OnFactoryStopping, NoAnswer, Answer, Sound, FactoryTypeOK, FactoryInv, RightBox,
       NoFalseRefusal

LEMMA FactoryNextSound == Sound /\ [FactoryNext]_probeVars => Sound'
<1> SUFFICES ASSUME Sound, [FactoryNext]_probeVars PROVE Sound'
  OBVIOUS
<1>1. CASE \E c \in ProbeCmd, d \in Dialog : OnFactoryActionInvoke(c, d)
  BY <1>1, RefuseSound, RunProbeSound DEF OnFactoryActionInvoke
<1>2. CASE ProbeReply
  BY <1>2, ProbeReplySound
<1>3. CASE OnFactoryStopping
  BY <1>3, OnFactoryStoppingSound
<1>4. CASE UNCHANGED probeVars
  BY <1>4 DEF probeVars, Sound, FactoryTypeOK, FactoryInv, RightBox, NoFalseRefusal
<1> QED
  BY <1>1, <1>2, <1>3, <1>4 DEF FactoryNext

LEMMA FactorySound == FactorySpec => []Sound
BY FactoryInitSound, FactoryNextSound, PTL DEF FactorySpec

\* The types.
THEOREM FactoryTypeCorrect == FactorySpec => []FactoryTypeOK
<1>1. Sound => FactoryTypeOK
  BY DEF Sound
<1> QED
  BY <1>1, FactorySound, PTL

\* A success is of the box the user means and of the login that was tried,
\* whatever a candidate carries and whatever other probe has redirected the
\* session in the meantime (pick, runProbe).
THEOREM RightBoxTheorem == FactorySpec => []RightBox
<1>1. Sound => RightBox
  BY DEF Sound
<1> QED
  BY <1>1, FactorySound, PTL

\* A login is called invalid only by a box that does not accept it, as long as
\* probes come one at a time (setEndpoint, setCredentials).
THEOREM NoFalseRefusalTheorem == FactorySpec => []NoFalseRefusal
<1>1. Sound => NoFalseRefusal
  BY DEF Sound
<1> QED
  BY <1>1, FactorySound, PTL
=============================================================================
