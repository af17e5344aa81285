---------------------------- MODULE FritzFactory ----------------------------
(* "Test connection" at factory scope (main.cpp, fritz_probe.cpp): the box   *)
(* and the login are taken from a dialog, asked for its device information   *)
(* through the factory's one session, and phi-core is told what came of it.  *)
EXTENDS FiniteSetsExt, Tr064Session

CONSTANTS
    ProbeCmd,   \* commands phi-core may have open
    Dialog,     \* the parameters of a probe: form, candidate and its meta
    Router,     \* the endpoints at which a router listens
    Account,    \* the logins routers accept, as [at, login]
    DefaultPort \* kDefaultTr064Port

ASSUME DialogAssumption == None \notin Dialog

VARIABLES
    session,    \* m_session; None before the first probe
    flight,     \* the probe whose call is in flight
    asked,      \* per command, what it asks for until it is answered
    answer,     \* the last answer, and what had been asked
    overlapped  \* a probe came while another was in flight

probeVars == <<session, flight, asked, answer, overlapped>>

-----------------------------------------------------------------------------
(* The dialog.                                                               *)

\* The first that says something.
FirstOf(texts) ==
    LET said == {i \in DOMAIN texts : texts[i] # None}
    IN  IF said = {} THEN None ELSE texts[Min(said)]

KeyFirst(d, keys) ==
    LET Of(key) == FirstOf(<<d.form[key], d.candidate[key], d.meta[key]>>)
    IN  FirstOf([i \in DOMAIN keys |-> Of(keys[i])])
\* pick(): what the form says under any of the keys comes before the candidate
\* and its meta.
Pick(d, keys) ==
    LET In(layer) == FirstOf([i \in DOMAIN keys |-> layer[keys[i]]])
    IN  FirstOf(<<In(d.form), In(d.candidate), In(d.meta)>>)

\* probeTargetFromParams().  A port out of range is none (normalizedPort); the
\* meta has no say in the flags.
ProbeTarget(d) ==
    LET port == Pick(d, <<"tr064Port">>)
        flags == FirstOf(<<d.form.flags, d.candidate.flags>>)
    IN  [host |-> Pick(d, <<"ip", "host">>),
         port |-> IF port = None THEN DefaultPort ELSE port,
         tls |-> flags = "tls",
         login |-> [user |-> Pick(d, <<"user", "username">>),
                    password |-> Pick(d, <<"password", "pw", "token">>)]]

Endpoint(t) == [host |-> t.host, port |-> t.port, tls |-> t.tls]

Address == {Endpoint(ProbeTarget(d)) : d \in Dialog}
Login == {ProbeTarget(d).login : d \in Dialog}
Answer == [to : Dialog \cup {None},
           status : {"none", "unsupported", "invalid", "ok", "refused", "failed"},
           named : Address \cup {None}]
NoAnswer == [to |-> None, status |-> "none", named |-> None]

FactoryTypeOK ==
    /\ session \in Session(Address, Login) \cup {None}
    /\ flight \in [cmd : ProbeCmd, to : Address, login : Login,
                   challenge : Address \cup {None}] \cup {None}
    /\ asked \in [ProbeCmd -> Dialog \cup {None}]
    /\ answer \in Answer
    /\ overlapped \in BOOLEAN

FactoryInit ==
    /\ session = None /\ flight = None /\ asked = [c \in ProbeCmd |-> None]
    /\ answer = NoAnswer /\ overlapped = FALSE

-----------------------------------------------------------------------------
(* The factory.                                                              *)

\* An answer at once, of the kinds that ask no router.
Refuse(d, status) ==
    /\ answer' = [to |-> d, status |-> status, named |-> None]
    /\ UNCHANGED <<session, flight, asked, overlapped>>

\* The session is made for the first probe; each sets it up for its own box.
SessionOf == IF session = None THEN NewSession ELSE session
SetUp(t) == SetCredentials(SetEndpoint(SessionOf, Endpoint(t)), t.login)

\* runProbe(): the callback is given away with the call.
RunProbe(c, d) ==
    LET t == ProbeTarget(d)
    IN  /\ session' = SetUp(t)
        /\ asked' = [asked EXCEPT ![c] = d]
        /\ flight' = IF Issued(session', flight)
                     THEN [cmd |-> c, to |-> Endpoint(t), login |-> t.login,
                           challenge |-> session'.challenge]
                     ELSE flight
        /\ overlapped' = (overlapped \/ flight # None)
        /\ UNCHANGED answer

\* onFactoryActionInvoke().
OnFactoryActionInvoke(c, d) ==
    /\ asked[c] = None
    /\ \/ Refuse(None, "unsupported")
       \/ ProbeTarget(d).host = None /\ Refuse(d, "invalid")
       \/ ProbeTarget(d).host # None /\ RunProbe(c, d)

\* How the router takes the call: it may stay away, and it does not see through
\* an answer to the challenge of another.
Outcomes(f) ==
    {"failed"} \cup
        IF f.to \notin Router THEN {}
        ELSE IF [at |-> f.to, login |-> f.login] \in Account /\ ~Misled(f.challenge, f.to)
        THEN {"ok"} ELSE {"refused"}

NamesTheBase(f) == session.base
PortForgotten(f) == [f.to EXCEPT !.port = 0]
\* The endpoint a success names: the callback holds the one of its own probe.
Named(f) == f.to

SaysNothingOfARefusal(c, out) == IF out = "refused" THEN asked ELSE [asked EXCEPT ![c] = None]
\* What is still to be answered after the answer of a probe, a failure as well.
Settled(c, out) == [asked EXCEPT ![c] = None]

ProbeReply ==
    /\ flight # None
    /\ \E out \in Outcomes(flight) :
          /\ answer' = [to |-> asked[flight.cmd], status |-> out,
                        named |-> IF out = "ok" THEN Named(flight) ELSE None]
          /\ asked' = Settled(flight.cmd, out)
          /\ session' = IF out = "failed" THEN session ELSE Challenged(session, flight.to)
    /\ flight' = None
    /\ UNCHANGED overlapped

\* onFactoryStopping(): the session goes, and what it had in flight; phi-core
\* gives up what it has asked of a process that is gone.
OnFactoryStopping ==
    /\ session' = None /\ flight' = None
    /\ asked' = [c \in ProbeCmd |-> None] /\ overlapped' = FALSE
    /\ answer' = NoAnswer

FactoryNext ==
    \/ \E c \in ProbeCmd, d \in Dialog : OnFactoryActionInvoke(c, d)
    \/ ProbeReply \/ OnFactoryStopping

FactorySpec == FactoryInit /\ [][FactoryNext]_probeVars

\* A call is answered or times out.
FactoryFairSpec == FactorySpec /\ WF_probeVars(ProbeReply)

-----------------------------------------------------------------------------
(* What must hold.                                                           *)

\* A success is of the box the user means and of the login that was tried: the
\* endpoint it names accepts that login, and its host is the one typed into the
\* form, when there is one, whatever a discovered candidate still carries and
\* whatever other probe has redirected the session in the meantime.
RightBox ==
    answer.status = "ok" =>
        LET t == ProbeTarget(answer.to)
            form == answer.to.form
        IN  /\ answer.named = Endpoint(t)
            /\ [at |-> answer.named, login |-> t.login] \in Account
            /\ {form.ip, form.host} # {None} => answer.named.host \in {form.ip, form.host}

\* "A challenge from the old one would come back refused and read as bad
\* credentials" (setEndpoint): as long as probes come one at a time, only a
\* login the box does not accept is called invalid.
NoFalseRefusal ==
    answer.status = "refused" /\ ~overlapped =>
        LET t == ProbeTarget(answer.to)
        IN  [at |-> Endpoint(t), login |-> t.login] \notin Account

\* A user who tests one connection after the other gets an answer each time.
ProbeAnswered ==
    \A c \in ProbeCmd :
        asked[c] # None /\ ~overlapped ~> asked[c] = None \/ overlapped

\* "Another request is already in flight" (runProbe) is the answer of a probe
\* that comes while another runs: no probe waits without a call of its own.
NoProbeLost ==
    \A c \in ProbeCmd : asked[c] # None => flight # None /\ flight.cmd = c
=============================================================================
