------------------------------ MODULE Lifecycle ------------------------------
(***************************************************************************)
(* The life of an exact process, from the checks main makes before it      *)
(* becomes a daemon to the exit_handler that SIGTERM runs, and what the    *)
(* processes that run at the same or at different times do to the two      *)
(* files they share, the pid file and the relay file.                      *)
(*                                                                         *)
(* The authentication table is the set of hosts in it, and publishing it   *)
(* is one step: AuthText says what that step is made of.                   *)
(***************************************************************************)
EXTENDS Integers

CONSTANTS
  Pids,     \* process numbers
  Hosts,    \* addresses that may log in
  Mishaps,  \* what may go wrong
  Absent    \* "there is no file of that name"

Empty == 0   \* a pid file without a number in it; no process has number 0

ASSUME LifecycleConstantsOK ==
  /\ Pids \subseteq Nat \ {Empty}
  /\ Absent \notin Nat
  /\ Mishaps \subseteq {"crash", "fail", "reuse", "overlap"}

VARIABLES
  pc,        \* where each process is in main or in exit_handler
  preserve,  \* its command line option -p
  opid,      \* the number checkpid read
  linked,    \* whether its open pid file is still the one of that name
  table,     \* the hosts in its authentication table
  pidfile,   \* the pid file: Absent, Empty or a number
  relay,     \* the relay file: Absent, or whose it is and which hosts it lists
  alien      \* numbers that processes of other programs have

vars == <<pc, preserve, opid, linked, table, pidfile, relay, alien>>

Starting == {"readpid", "killzero", "daemonize", "auth_init"}
\* Past auth_init; from here on SIGALRM is expected.
Initialised == {"openpid", "closepid", "signals", "tail_open", "loop"}
\* From here on SIGTERM runs exit_handler.
Terminable == {"tail_open", "loop"}
Exiting == {"unlinkpid", "unlinkauth", "exit"}
Stages == {"none"} \cup Starting \cup Initialised \cup Exiting

Alive(p) == pc[p] # "none" \/ p \in alien

\* Mutants: kill's answer is not looked at.
FoundAnyway(o) == TRUE
FoundNever(o) == FALSE

\* kill(o,0) finds a process of that number.
Found(o) == o \in Pids /\ Alive(o)

\* Mutant: opid is not set to 0 before the file is scanned.
ScannedRaw(text) == text

\* What checkpid's fopen and fscanf leave in opid.
Scanned(text) == IF text \in Pids THEN text ELSE 0

\* A number for a new process, as a rule not one from a pid file left behind.
Free(p) == ~Alive(p) /\ (p = pidfile => "reuse" \in Mishaps)

\* Unless starts and stops overlap, each is over before the next begins.
Orderly(p, stages) == "overlap" \notin Mishaps => \A q \in Pids \ {p} : pc[q] \in stages

Goto(p, stage) == pc' = [pc EXCEPT ![p] = stage]

-----------------------------------------------------------------------------

Init ==
  /\ pc = [p \in Pids |-> "none"]
  /\ preserve = [p \in Pids |-> FALSE]
  /\ opid = [p \in Pids |-> 0]
  /\ linked = [p \in Pids |-> FALSE]
  /\ table = [p \in Pids |-> {}]
  /\ pidfile = Absent
  /\ relay = Absent
  /\ alien = {}

\* Someone starts exact, with or without -p.
Invoke(p) ==
  /\ Free(p)
  /\ Orderly(p, {"none", "loop"})
  /\ Goto(p, "readpid")
  /\ \E b \in BOOLEAN : preserve' = [preserve EXCEPT ![p] = b]
  /\ opid' = [opid EXCEPT ![p] = 0]
  /\ linked' = [linked EXCEPT ![p] = FALSE]
  /\ table' = [table EXCEPT ![p] = {}]
  /\ UNCHANGED <<pidfile, relay, alien>>

ReadPid(p) ==
  /\ pc[p] = "readpid"
  /\ opid' = [opid EXCEPT ![p] = Scanned(pidfile)]
  /\ Goto(p, "killzero")
  /\ UNCHANGED <<preserve, linked, table, pidfile, relay, alien>>

\* The rest of checkpid: exit(41) if there is a process of that number.
KillZero(p) ==
  /\ pc[p] = "killzero"
  /\ Goto(p, IF opid[p] # 0 /\ Found(opid[p]) THEN "none" ELSE "daemonize")
  /\ UNCHANGED <<preserve, opid, linked, table, pidfile, relay, alien>>

\* With -f the process stays what it is; without, it goes on as a grandchild.
Daemonize(p) ==
  /\ pc[p] = "daemonize"
  /\ \/ Goto(p, "auth_init") /\ UNCHANGED preserve
     \/ \E q \in Pids :
          /\ Free(q)
          /\ pc' = [pc EXCEPT ![p] = "none", ![q] = "auth_init"]
          /\ preserve' = [preserve EXCEPT ![q] = preserve[p]]
  /\ opid' = [opid EXCEPT ![p] = 0]
  /\ table' = [r \in Pids |-> IF pc'[r] = "auth_init" THEN {} ELSE table[r]]
  /\ UNCHANGED <<linked, pidfile, relay, alien>>

\* Mutant: auth_init does not create the relay file.
CreatedNot(p) == relay

Created(p) == [by |-> p, hosts |-> {}]

AuthInit(p) ==
  /\ pc[p] = "auth_init"
  /\ relay' = Created(p)
  /\ Goto(p, "openpid")
  /\ UNCHANGED <<preserve, opid, linked, table, pidfile, alien>>

\* writepid's fopen truncates the file or creates it.
OpenPid(p) ==
  /\ pc[p] = "openpid"
  /\ pidfile' = Empty
  /\ linked' = [linked EXCEPT ![p] = TRUE]
  /\ Goto(p, "closepid")
  /\ UNCHANGED <<preserve, opid, table, relay, alien>>

\* Its fclose writes the number, to the file that was opened.
ClosePid(p) ==
  /\ pc[p] = "closepid"
  /\ pidfile' = IF linked[p] THEN p ELSE pidfile
  /\ linked' = [linked EXCEPT ![p] = FALSE]
  /\ Goto(p, "signals")
  /\ UNCHANGED <<preserve, opid, table, relay, alien>>

Signals(p) ==
  /\ pc[p] = "signals"
  /\ Goto(p, "tail_open")
  /\ UNCHANGED <<preserve, opid, linked, table, pidfile, relay, alien>>

TailOpen(p) ==
  /\ pc[p] = "tail_open"
  /\ Goto(p, "loop")
  /\ UNCHANGED <<preserve, opid, linked, table, pidfile, relay, alien>>

Publish(p, hosts) ==
  /\ table' = [table EXCEPT ![p] = hosts]
  /\ relay' = [by |-> p, hosts |-> hosts]

\* auth_add, for a host that has logged in and is not in the table yet; for one
\* that is, only its time is new.
Serve(p) ==
  /\ pc[p] = "loop"
  /\ \E h \in Hosts \ table[p] : Publish(p, table[p] \cup {h})
  /\ UNCHANGED <<pc, preserve, opid, linked, pidfile, alien>>

\* SIGALRM: auth_clean drops the hosts whose time is up and publishes the rest.
\* Nothing holds it back while exit_handler runs.
Clean(p) ==
  /\ pc[p] \in Initialised \cup Exiting
  /\ \E kept \in SUBSET table[p] : Publish(p, kept)
  /\ UNCHANGED <<pc, preserve, opid, linked, pidfile, alien>>

\* SIGTERM: the handler runs, if it has been installed.
Term(p) ==
  /\ pc[p] \in (Stages \ {"none"}) \ Exiting
  /\ Orderly(p, {"none"})
  /\ Goto(p, IF pc[p] \in Terminable THEN "unlinkpid" ELSE "none")
  /\ UNCHANGED <<preserve, opid, linked, table, pidfile, relay, alien>>

\* exit_handler's first unlink, of the pid file.
UnlinkPid(p) ==
  /\ pc[p] = "unlinkpid"
  /\ pidfile' = Absent
  /\ linked' = [q \in Pids |-> FALSE]
  /\ Goto(p, "unlinkauth")
  /\ UNCHANGED <<preserve, opid, table, relay, alien>>

\* The relay file after exit_handler's second unlink.
Remains(p) == IF preserve[p] THEN relay ELSE Absent

UnlinkAuth(p) ==
  /\ pc[p] = "unlinkauth"
  /\ relay' = Remains(p)
  /\ Goto(p, "exit")
  /\ UNCHANGED <<preserve, opid, linked, table, pidfile, alien>>

ExitZero(p) ==
  /\ pc[p] = "exit"
  /\ Goto(p, "none")
  /\ UNCHANGED <<preserve, opid, linked, table, pidfile, relay, alien>>

\* main gives up: exit(4), (5) or (40), before checkpid; exit(61) to (67), in
\* daemonize; exit(21) or (22), in auth_init; exit(100), for a wrong logging
\* parameter, or exit(42), in writepid; return 2, when there is no log.  None
\* of them removes a file.
Fail(p) ==
  /\ "fail" \in Mishaps
  /\ pc[p] \in {"readpid", "daemonize", "auth_init", "openpid", "tail_open"}
  /\ Goto(p, "none")
  /\ UNCHANGED <<preserve, opid, linked, table, pidfile, relay, alien>>

-----------------------------------------------------------------------------
(* The rest of the machine.                                                *)

\* SIGKILL, a crash, or one of auth_write_text's exits.
Crash(p) ==
  /\ "crash" \in Mishaps
  /\ pc[p] # "none"
  /\ Goto(p, "none")
  /\ UNCHANGED <<preserve, opid, linked, table, pidfile, relay, alien>>

\* A process of some other program starts, or ends.
Others(p) ==
  /\ \/ Free(p) /\ alien' = alien \cup {p}
     \/ p \in alien /\ alien' = alien \ {p}
  /\ UNCHANGED <<pc, preserve, opid, linked, table, pidfile, relay>>

Next ==
  \E p \in Pids :
    \/ Invoke(p)
    \/ ReadPid(p) \/ KillZero(p) \/ Daemonize(p) \/ AuthInit(p)
    \/ OpenPid(p) \/ ClosePid(p) \/ Signals(p) \/ TailOpen(p) \/ Fail(p)
    \/ Serve(p) \/ Clean(p)
    \/ Term(p) \/ UnlinkPid(p) \/ UnlinkAuth(p) \/ ExitZero(p)
    \/ Crash(p) \/ Others(p)

Spec == Init /\ [][Next]_vars

-----------------------------------------------------------------------------

Relays == [by : Pids, hosts : SUBSET Hosts]

TypeOK ==
  /\ pc \in [Pids -> Stages]
  /\ preserve \in [Pids -> BOOLEAN]
  /\ opid \in [Pids -> Pids \cup {0}]
  /\ linked \in [Pids -> BOOLEAN]
  /\ table \in [Pids -> SUBSET Hosts]
  /\ pidfile \in Pids \cup {Empty, Absent}
  /\ relay \in Relays \cup {Absent}
  /\ alien \subseteq Pids

\* Two processes never write the relay file at the same time: whatever died
\* on the way and whatever it left behind, checkpid tells a start that would
\* be the second.
OneDaemon ==
  \A p, q \in Pids :
    pc[p] \in Initialised \cup Exiting /\ pc[q] \in Initialised \cup Exiting => p = q

\* What the mail server reads is what the process in its loop published last,
\* and `kill `cat pidfile`` reaches that process.
FilesAreTheDaemons ==
  \A p \in Pids : pc[p] = "loop" => pidfile = p /\ relay = [by |-> p, hosts |-> table[p]]

\* exact.8 on SIGTERM: "The daemon will terminate, removing the relay and pid
\* files."  The relay file, when it was not told to keep it: SIGALRM between
\* exit_handler's last unlink and its exit makes auth_clean write a new one.
RelayRemoved ==
  [][\A p \in Pids : ExitZero(p) /\ ~preserve[p] => relay' = Absent]_vars

\* exact refuses to start only if it is running already, and lets on only a
\* start that is the first.
RefusedRightly ==
  [][\A p \in Pids : KillZero(p) =>
       (pc'[p] = "none" <=> \E q \in Pids \ {p} : pc[q] = "loop")]_vars
=============================================================================
