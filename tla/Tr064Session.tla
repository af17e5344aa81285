---------------------------- MODULE Tr064Session ----------------------------
(* Tr064Session (fritz_session.cpp): the address, the login and the HTTP     *)
(* client of one user of TR-064.  The client remembers the challenge of the  *)
(* router it last spoke to and answers it in advance.                        *)
CONSTANTS
    None        \* no address, no login, no challenge

Session(addresses, logins) ==
    [base : addresses \cup {None}, login : logins \cup {None},
     challenge : addresses \cup {None}]

NewSession == [base |-> None, login |-> None, challenge |-> None]

ForgetAuthentication(s) == [s EXCEPT !.challenge = None]

Redirected(s, to) == [s EXCEPT !.base = to]
\* setEndpoint(): another endpoint is another device.
SetEndpoint(s, to) ==
    IF s.base = to THEN s ELSE ForgetAuthentication([s EXCEPT !.base = to])

\* setCredentials().
SetCredentials(s, login) ==
    IF s.login = login THEN s ELSE ForgetAuthentication([s EXCEPT !.login = login])

Addressable(s) == s.base # None

\* call(), with `flight` under way: refused when busy or without an endpoint,
\* and then nobody is told.
Issued(s, flight) == Addressable(s) /\ flight = None

\* The client, once a router has answered, and what it makes of a challenge of
\* another router.
Challenged(s, by) == [s EXCEPT !.challenge = by]
Misled(challenge, to) == challenge \notin {None, to}
=============================================================================
