---------------------------- MODULE RelayService ----------------------------
(***************************************************************************)
(* What exact promises the mail server, whatever the database's format:    *)
(* hosts that log in are sessions, each with the time of its last login,   *)
(* and the relay list is the set of hosts that have one.  The list lags    *)
(* behind the sessions only while a single login is being published; a     *)
(* session ends at a clean, at least Timeout and less than Timeout + Flush *)
(* seconds after its last login.                                           *)
(***************************************************************************)
EXTENDS Integers

CONSTANTS
  Hosts,    \* addresses that may log in
  Timeout,  \* a session's promised life
  Flush     \* time between two cleans

VARIABLES
  now,      \* the clock
  up,       \* the daemon serves
  session,  \* time of each host's last login; Never: it has no session
  relay     \* the hosts the mail server may relay for

vars == <<now, up, session, relay>>

Never == 0
NoSessions == [h \in Hosts |-> Never]
Sessions(s) == {h \in Hosts : s[h] # Never}
Published == relay = Sessions(session)

TypeOK ==
  /\ now \in Nat
  /\ up \in BOOLEAN
  /\ session \in [Hosts -> Nat]
  /\ relay \subseteq Hosts

Init ==
  /\ now = Timeout + Flush
  /\ up = FALSE
  /\ session = NoSessions
  /\ relay = {}

\* A daemon that is starting takes down the list of the one before it.
Withdraw ==
  /\ ~up
  /\ relay' = {}
  /\ UNCHANGED <<now, up, session>>

\* The daemon has started.
Boot ==
  /\ ~up
  /\ up' = TRUE
  /\ relay' = {}
  /\ UNCHANGED <<now, session>>

\* h logs in at time t; until the list is published the next host waits.
Login(h) ==
  /\ up
  /\ Published
  /\ session' = [session EXCEPT ![h] = now]
  /\ UNCHANGED <<now, up, relay>>

Publish ==
  /\ up
  /\ relay' = Sessions(session)
  /\ UNCHANGED <<now, up, session>>

\* A clean: exactly the sessions whose time is up end, and the list follows,
\* with the login that was being published.
Expire ==
  /\ up
  /\ session' = [h \in Hosts |-> IF now - session[h] < Timeout THEN session[h] ELSE Never]
  /\ relay' = Sessions(session')
  /\ UNCHANGED <<now, up>>

\* The daemon stops, leaving its list behind.
Stop ==
  /\ up
  /\ up' = FALSE
  /\ session' = NoSessions
  /\ UNCHANGED <<now, relay>>

\* While the daemon serves, no session outlives Timeout + Flush.
Tick ==
  /\ up => \A h \in Sessions(session) : now + 1 - session[h] < Timeout + Flush
  /\ now' = now + 1
  /\ UNCHANGED <<up, session, relay>>

Next == Withdraw \/ Boot \/ (\E h \in Hosts : Login(h)) \/ Publish \/ Expire \/ Stop \/ Tick

\* A login that was taken is published.
Spec == Init /\ [][Next]_vars /\ WF_vars(Publish)
=============================================================================
