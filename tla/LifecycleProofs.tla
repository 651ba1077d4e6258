--------------------------- MODULE LifecycleProofs ---------------------------
(***************************************************************************)
(* Proofs about Lifecycle, for every set of process numbers and hosts: as  *)
(* long as starts and stops do not overlap there is one daemon, and the    *)
(* two files are its own, whatever crashes, gives up or takes over a       *)
(* number.                                                                 *)
(***************************************************************************)
EXTENDS Lifecycle, TLAPS

LEMMA TypeStep == TypeOK /\ [Next]_vars => TypeOK'
<1> SUFFICES ASSUME TypeOK, [Next]_vars PROVE TypeOK'
  OBVIOUS
<1> USE DEF TypeOK, Goto, Stages, Starting, Initialised, Exiting
<1>1. CASE UNCHANGED vars
  BY <1>1 DEF vars
<1>2. ASSUME NEW p \in Pids,
             Invoke(p) \/ ReadPid(p) \/ KillZero(p) \/ TailOpen(p) \/ Signals(p) \/ Fail(p)
      PROVE  TypeOK'
  <2>1. CASE Invoke(p)
    BY <2>1 DEF Invoke
  <2>2. CASE ReadPid(p)
    <3>1. Scanned(pidfile) \in Pids \cup {0}
      BY DEF Scanned
    <3> QED
      BY <2>2, <3>1 DEF ReadPid
  <2>3. CASE KillZero(p) \/ TailOpen(p) \/ Signals(p) \/ Fail(p)
    BY <2>3 DEF KillZero, TailOpen, Signals, Fail
  <2> QED
    BY <1>2, <2>1, <2>2, <2>3
<1>3. ASSUME NEW p \in Pids, Daemonize(p) PROVE TypeOK'
  <2>1. pc' \in [Pids -> Stages] /\ preserve' \in [Pids -> BOOLEAN]
    BY <1>3 DEF Daemonize
  <2> QED
    BY <1>3, <2>1 DEF Daemonize
<1>4. ASSUME NEW p \in Pids, AuthInit(p) \/ OpenPid(p) \/ ClosePid(p) PROVE TypeOK'
  <2>1. CASE AuthInit(p)
    <3>1. Created(p) \in Relays
      BY DEF Created, Relays
    <3> QED
      BY <2>1, <3>1 DEF AuthInit
  <2>2. CASE OpenPid(p)
    BY <2>2 DEF OpenPid
  <2>3. CASE ClosePid(p)
    BY <2>3 DEF ClosePid
  <2> QED
    BY <1>4, <2>1, <2>2, <2>3
<1>5. ASSUME NEW p \in Pids, Serve(p) \/ Clean(p) PROVE TypeOK'
  <2>1. PICK hosts \in SUBSET Hosts : Publish(p, hosts)
    BY <1>5 DEF Serve, Clean
  <2>2. UNCHANGED <<pc, preserve, opid, linked, pidfile, alien>>
    BY <1>5 DEF Serve, Clean
  <2> QED
    BY <2>1, <2>2 DEF Publish, Relays
<1>6. ASSUME NEW p \in Pids,
             Term(p) \/ UnlinkPid(p) \/ UnlinkAuth(p) \/ ExitZero(p) \/ Crash(p) \/ Others(p)
      PROVE  TypeOK'
  BY <1>6 DEF Term, UnlinkPid, UnlinkAuth, Remains, ExitZero, Crash, Others
<1> QED
  BY <1>1, <1>2, <1>3, <1>4, <1>5, <1>6 DEF Next

\* Every variable has its type.
THEOREM TypeCorrect == Spec => []TypeOK
<1>1. Init => TypeOK
  BY DEF Init, TypeOK, Stages
<1> QED
  BY <1>1, TypeStep, PTL DEF Spec

-----------------------------------------------------------------------------
(* The invariant.  Of two processes one is in its loop and the other one   *)
(* has still to look at the pid file or at its number; that number is the  *)
(* first one's, since the pid file is the daemon's from its fclose on.     *)

Watched(p, q) == pc[p] = "loop" /\ pc[q] \in {"readpid", "killzero"}

Alone ==
  \A p, q \in Pids :
    p # q /\ pc[p] # "none" /\ pc[q] # "none" => Watched(p, q) \/ Watched(q, p)

Seen == \A p, q \in Pids : p # q /\ pc[p] = "loop" /\ pc[q] = "killzero" => opid[q] = p

OwnPidfile ==
  \A p \in Pids :
    /\ pc[p] = "closepid" => linked[p]
    /\ pc[p] \in {"signals", "tail_open", "loop"} => pidfile = p

OwnRelay ==
  \A p \in Pids : pc[p] \in Initialised => relay = [by |-> p, hosts |-> table[p]]

\* auth_init finds the table empty.
Fresh == \A p \in Pids : pc[p] = "auth_init" => table[p] = {}

Inv == TypeOK /\ Alone /\ Seen /\ OwnPidfile /\ OwnRelay /\ Fresh

\* A process has ended and nothing else has changed.
LEMMA Gone ==
  ASSUME Inv, NEW p \in Pids, pc' = [pc EXCEPT ![p] = "none"],
         UNCHANGED <<preserve, opid, linked, table, pidfile, relay, alien>>
  PROVE  Alone' /\ Seen' /\ OwnPidfile' /\ OwnRelay' /\ Fresh'
<1> USE DEF Inv, TypeOK
<1>1. \A q \in Pids : pc'[q] = "none" \/ pc'[q] = pc[q]
  OBVIOUS
<1>2. Alone'
  BY <1>1 DEF Alone, Watched
<1>3. Seen'
  BY <1>1 DEF Seen
<1>4. OwnPidfile'
  BY <1>1 DEF OwnPidfile
<1>5. OwnRelay'
  BY <1>1 DEF OwnRelay, Initialised
<1>6. Fresh'
  BY <1>1 DEF Fresh
<1> QED
  BY <1>2, <1>3, <1>4, <1>5, <1>6

LEMMA InvStep ==
  ASSUME "overlap" \notin Mishaps, Inv, [Next]_vars
  PROVE  Alone' /\ Seen' /\ OwnPidfile' /\ OwnRelay' /\ Fresh'
<1> USE DEF Inv, TypeOK, Goto
<1>1. CASE UNCHANGED vars
  BY <1>1 DEF vars, Alone, Watched, Seen, OwnPidfile, OwnRelay, Fresh
<1>2. ASSUME NEW p \in Pids, Invoke(p)
      PROVE  Alone' /\ Seen' /\ OwnPidfile' /\ OwnRelay' /\ Fresh'
  <2>1. \A q \in Pids \ {p} : pc[q] \in {"none", "loop"} /\ pc'[q] = pc[q] /\ table'[q] = table[q]
    BY <1>2 DEF Invoke, Orderly
  <2>2. pc'[p] = "readpid" /\ UNCHANGED <<pidfile, relay>>
    BY <1>2 DEF Invoke
  <2> QED
    BY <2>1, <2>2 DEF Alone, Watched, Seen, OwnPidfile, OwnRelay, Fresh, Initialised
<1>3. ASSUME NEW p \in Pids, ReadPid(p)
      PROVE  Alone' /\ Seen' /\ OwnPidfile' /\ OwnRelay' /\ Fresh'
  <2>1. pc[p] = "readpid" /\ pc' = [pc EXCEPT ![p] = "killzero"]
        /\ opid' = [opid EXCEPT ![p] = Scanned(pidfile)]
        /\ UNCHANGED <<table, pidfile, relay, linked>>
    BY <1>3 DEF ReadPid
  <2>2. Alone'
    BY <2>1 DEF Alone, Watched
  <2>3. Seen'
    BY <2>1 DEF Seen, OwnPidfile, Scanned
  <2>4. OwnPidfile' /\ OwnRelay' /\ Fresh'
    BY <2>1 DEF OwnPidfile, OwnRelay, Fresh, Initialised
  <2> QED
    BY <2>2, <2>3, <2>4
<1>4. ASSUME NEW p \in Pids, KillZero(p)
      PROVE  Alone' /\ Seen' /\ OwnPidfile' /\ OwnRelay' /\ Fresh'
  <2>1. CASE pc' = [pc EXCEPT ![p] = "none"]
    BY <1>4, <2>1, Gone DEF KillZero
  <2>2. CASE pc' = [pc EXCEPT ![p] = "daemonize"] /\ ~(opid[p] # 0 /\ Found(opid[p]))
    <3>1. pc[p] = "killzero" /\ UNCHANGED <<opid, table, pidfile, relay, linked>>
      BY <1>4 DEF KillZero
    <3>2. \A q \in Pids \ {p} : pc[q] # "loop"
      BY <2>2, <3>1, LifecycleConstantsOK DEF Seen, Found, Alive, Empty
    <3>3. \A q \in Pids \ {p} : pc[q] = "none"
      BY <3>1, <3>2 DEF Alone, Watched
    <3> QED
      BY <2>2, <3>1, <3>3 DEF Alone, Watched, Seen, OwnPidfile, OwnRelay, Fresh, Initialised
  <2> QED
    BY <1>4, <2>1, <2>2 DEF KillZero
<1>5. ASSUME NEW p \in Pids, Daemonize(p)
      PROVE  Alone' /\ Seen' /\ OwnPidfile' /\ OwnRelay' /\ Fresh'
  <2>1. pc[p] = "daemonize" /\ \A q \in Pids \ {p} : pc[q] = "none"
    BY <1>5 DEF Daemonize, Alone, Watched
  <2>2. PICK r \in Pids : pc' = [q \in Pids |-> IF q = r THEN "auth_init" ELSE "none"]
    <3>1. CASE pc' = [pc EXCEPT ![p] = "auth_init"]
      BY <2>1, <3>1
    <3>2. CASE \E q \in Pids : Free(q) /\ pc' = [pc EXCEPT ![p] = "none", ![q] = "auth_init"]
      <4>1. PICK q \in Pids : Free(q) /\ pc' = [pc EXCEPT ![p] = "none", ![q] = "auth_init"]
        BY <3>2
      <4>2. pc' = [r \in Pids |-> IF r = q THEN "auth_init" ELSE "none"]
        BY <2>1, <4>1
      <4> QED
        BY <4>2
    <3> QED
      BY <1>5, <3>1, <3>2 DEF Daemonize
  <2>3. table'[r] = {}
    BY <1>5, <2>2 DEF Daemonize
  <2> QED
    BY <2>2, <2>3 DEF Alone, Watched, Seen, OwnPidfile, OwnRelay, Fresh, Initialised
<1>6. ASSUME NEW p \in Pids, AuthInit(p) \/ OpenPid(p) \/ ClosePid(p) \/ Signals(p) \/ TailOpen(p)
      PROVE  Alone' /\ Seen' /\ OwnPidfile' /\ OwnRelay' /\ Fresh'
  <2>1. pc[p] \in {"auth_init", "openpid", "closepid", "signals", "tail_open"}
    BY <1>6 DEF AuthInit, OpenPid, ClosePid, Signals, TailOpen
  <2>2. \A q \in Pids \ {p} : pc[q] = "none" /\ pc'[q] = "none"
    BY <1>6, <2>1 DEF Alone, Watched, AuthInit, OpenPid, ClosePid, Signals, TailOpen
  <2>3. Alone' /\ Seen'
    BY <2>2 DEF Alone, Watched, Seen
  <2>4. OwnPidfile'
    BY <1>6, <2>2 DEF OwnPidfile, AuthInit, OpenPid, ClosePid, Signals, TailOpen
  <2>5. OwnRelay'
    BY <1>6, <2>2 DEF OwnRelay, Initialised, Fresh, Created,
       AuthInit, OpenPid, ClosePid, Signals, TailOpen
  <2>6. Fresh'
    BY <1>6, <2>2 DEF Fresh, AuthInit, OpenPid, ClosePid, Signals, TailOpen
  <2> QED
    BY <2>3, <2>4, <2>5, <2>6
<1>7. ASSUME NEW p \in Pids, Serve(p) \/ Clean(p)
      PROVE  Alone' /\ Seen' /\ OwnPidfile' /\ OwnRelay' /\ Fresh'
  <2>1. /\ pc[p] \in Initialised \cup Exiting
        /\ UNCHANGED <<pc, opid, linked, pidfile>>
    BY <1>7 DEF Serve, Clean, Initialised
  <2>2. PICK hosts : Publish(p, hosts)
    BY <1>7 DEF Serve, Clean
  <2>3. \A q \in Pids \ {p} : pc[q] \notin Initialised \cup {"auth_init"}
    BY <2>1 DEF Alone, Watched, Initialised, Exiting
  <2>4. Alone' /\ Seen' /\ OwnPidfile'
    BY <2>1 DEF Alone, Watched, Seen, OwnPidfile
  <2>5. OwnRelay'
    BY <2>1, <2>2, <2>3 DEF OwnRelay, Publish
  <2>6. Fresh'
    BY <2>1, <2>2, <2>3 DEF Fresh, Publish, Initialised, Exiting
  <2> QED
    BY <2>4, <2>5, <2>6
<1>8. ASSUME NEW p \in Pids, Term(p)
      PROVE  Alone' /\ Seen' /\ OwnPidfile' /\ OwnRelay' /\ Fresh'
  <2>1. \A q \in Pids \ {p} : pc[q] = "none" /\ pc'[q] = "none"
    BY <1>8 DEF Term, Orderly
  <2>2. pc'[p] \in {"none", "unlinkpid"}
    BY <1>8 DEF Term
  <2> QED
    BY <2>1, <2>2 DEF Alone, Watched, Seen, OwnPidfile, OwnRelay, Fresh, Initialised
<1>9. ASSUME NEW p \in Pids, UnlinkPid(p) \/ UnlinkAuth(p)
      PROVE  Alone' /\ Seen' /\ OwnPidfile' /\ OwnRelay' /\ Fresh'
  <2>1. pc[p] \in {"unlinkpid", "unlinkauth"} /\ pc'[p] \in {"unlinkauth", "exit"}
    BY <1>9 DEF UnlinkPid, UnlinkAuth
  <2>2. \A q \in Pids \ {p} : pc[q] = "none" /\ pc'[q] = "none"
    BY <1>9, <2>1 DEF Alone, Watched, UnlinkPid, UnlinkAuth
  <2> QED
    BY <2>1, <2>2 DEF Alone, Watched, Seen, OwnPidfile, OwnRelay, Fresh, Initialised
<1>10. ASSUME NEW p \in Pids, ExitZero(p) \/ Fail(p) \/ Crash(p)
       PROVE  Alone' /\ Seen' /\ OwnPidfile' /\ OwnRelay' /\ Fresh'
  BY <1>10, Gone DEF ExitZero, Fail, Crash
<1>11. ASSUME NEW p \in Pids, Others(p)
       PROVE  Alone' /\ Seen' /\ OwnPidfile' /\ OwnRelay' /\ Fresh'
  BY <1>11 DEF Others, Alone, Watched, Seen, OwnPidfile, OwnRelay, Fresh
<1> QED
  BY <1>1, <1>2, <1>3, <1>4, <1>5, <1>6, <1>7, <1>8, <1>9, <1>10, <1>11 DEF Next

LEMMA Invariant == ASSUME "overlap" \notin Mishaps PROVE Spec => []Inv
<1>1. Init => Inv
  BY DEF Init, Inv, TypeOK, Stages, Alone, Seen, OwnPidfile, OwnRelay, Initialised, Fresh
<1>2. Inv /\ [Next]_vars => Inv'
  BY TypeStep, InvStep DEF Inv
<1> QED
  BY <1>1, <1>2, PTL DEF Spec

\* As long as starts and stops do not overlap no two processes write the
\* relay file, although anything may crash, give up, or be given the number
\* of a process that did.
THEOREM OneAtATime == ASSUME "overlap" \notin Mishaps PROVE Spec => []OneDaemon
<1>1. Inv => OneDaemon
  BY DEF Inv, Alone, Watched, OneDaemon, Initialised, Exiting
<1> QED
  BY <1>1, Invariant, PTL

\* Under the same condition the pid file and the relay file are those of the
\* process that is in its loop.
THEOREM OwnFiles == ASSUME "overlap" \notin Mishaps PROVE Spec => []FilesAreTheDaemons
<1>1. Inv => FilesAreTheDaemons
  BY DEF Inv, OwnPidfile, OwnRelay, FilesAreTheDaemons, Initialised
<1> QED
  BY <1>1, Invariant, PTL

-----------------------------------------------------------------------------
(* checkpid.                                                               *)

\* The number in the pid file is nobody else's than the daemon's that wrote it,
\* and it is what checkpid has read for as long as checkpid looks at it.
Unshared ==
  /\ \A p \in Pids : pc[p] # "none" => p \notin alien
  /\ pidfile \notin alien
  /\ \A p \in Pids : pc[p] \in {"readpid", "killzero"} => pidfile # p
  /\ \A p \in Pids : pc[p] = "killzero" => opid[p] = Scanned(pidfile)

LEMMA UnsharedStep ==
  ASSUME "overlap" \notin Mishaps, "reuse" \notin Mishaps, Inv, Unshared, [Next]_vars
  PROVE  Unshared'
<1> USE DEF Inv, TypeOK, Goto
<1>1. CASE UNCHANGED vars
  BY <1>1 DEF vars, Unshared, Scanned
<1>2. ASSUME NEW p \in Pids, Invoke(p) PROVE Unshared'
  <2>1. p \notin alien /\ p # pidfile
    BY <1>2 DEF Invoke, Free, Alive
  <2> QED
    BY <1>2, <2>1 DEF Invoke, Unshared, Scanned
<1>3. ASSUME NEW p \in Pids, ReadPid(p) PROVE Unshared'
  BY <1>3 DEF ReadPid, Unshared, Scanned
<1>4. ASSUME NEW p \in Pids, Daemonize(p) PROVE Unshared'
  <2>1. \A q \in Pids : pc'[q] # "none" => (pc'[q] = "auth_init" /\ q \notin alien)
                                           \/ (pc'[q] = pc[q] /\ q # p)
    BY <1>4 DEF Daemonize, Free, Alive, Unshared
  <2>2. \A q \in Pids \ {p} : opid'[q] = opid[q]
    BY <1>4 DEF Daemonize
  <2> QED
    BY <1>4, <2>1, <2>2 DEF Daemonize, Unshared, Scanned
<1>5. ASSUME NEW p \in Pids, OpenPid(p) \/ ClosePid(p) \/ UnlinkPid(p) PROVE Unshared'
  <2>1. pidfile' \in {Empty, Absent, p, pidfile} /\ alien' = alien
    BY <1>5 DEF OpenPid, ClosePid, UnlinkPid
  <2>2. pc[p] \in {"openpid", "closepid", "unlinkpid"}
        /\ pc'[p] \in {"closepid", "signals", "unlinkauth"}
        /\ \A q \in Pids \ {p} : pc'[q] = pc[q]
    BY <1>5 DEF OpenPid, ClosePid, UnlinkPid
  <2>3. \A q \in Pids \ {p} : pc'[q] = "none"
    BY <2>2 DEF Alone, Watched
  <2>4. Empty \notin alien /\ Absent \notin alien
    BY LifecycleConstantsOK
  <2> QED
    BY <2>1, <2>2, <2>3, <2>4 DEF Unshared
<1>6. ASSUME NEW p \in Pids,
             KillZero(p) \/ AuthInit(p) \/ Signals(p) \/ TailOpen(p) \/ UnlinkAuth(p)
             \/ ExitZero(p) \/ Fail(p) \/ Crash(p) \/ Term(p) \/ Serve(p) \/ Clean(p)
      PROVE  Unshared'
  <2>1. UNCHANGED <<opid, pidfile, alien>>
    BY <1>6 DEF KillZero, AuthInit, Signals, TailOpen, UnlinkAuth, ExitZero, Fail, Crash, Term,
       Serve, Clean
  <2>2. \A q \in Pids : pc'[q] = pc[q] \/ pc'[q] = "none"
                        \/ (pc[q] # "none" /\ pc'[q] \notin {"readpid", "killzero"})
    BY <1>6 DEF KillZero, AuthInit, Signals, TailOpen, UnlinkAuth, ExitZero, Fail, Crash, Term,
       Serve, Clean
  <2> QED
    BY <2>1, <2>2 DEF Unshared, Scanned
<1>7. ASSUME NEW p \in Pids, Others(p) PROVE Unshared'
  BY <1>7 DEF Others, Free, Alive, Unshared, Scanned
<1> QED
  BY <1>1, <1>2, <1>3, <1>4, <1>5, <1>6, <1>7 DEF Next

\* checkpid refuses a start if, and only if, another exact is in its loop, as
\* long as the number in a pid file that was left behind is not given away.
THEOREM RefusesRightly ==
  ASSUME "overlap" \notin Mishaps, "reuse" \notin Mishaps
  PROVE  Spec => RefusedRightly
<1>1. Init => Unshared
  BY DEF Init, Unshared
<1>2. Inv /\ Unshared /\ [Next]_vars => Unshared'
  BY UnsharedStep
<1>3. Inv /\ Unshared =>
        [\A p \in Pids : KillZero(p) =>
           (pc'[p] = "none" <=> \E q \in Pids \ {p} : pc[q] = "loop")]_vars
  <2> SUFFICES ASSUME Inv, Unshared, NEW p \in Pids, KillZero(p)
               PROVE  pc'[p] = "none" <=> \E q \in Pids \ {p} : pc[q] = "loop"
    OBVIOUS
  <2>1. pc[p] = "killzero" /\ pc'[p] = IF opid[p] # 0 /\ Found(opid[p]) THEN "none" ELSE "daemonize"
    BY DEF KillZero, Goto, Inv, TypeOK
  <2>2. ASSUME pc'[p] = "none" PROVE \E q \in Pids \ {p} : pc[q] = "loop"
    <3>1. opid[p] \in Pids /\ Alive(opid[p])
      BY <2>1, <2>2 DEF Found
    <3>2. opid[p] = pidfile
      BY <2>1, <3>1, LifecycleConstantsOK DEF Unshared, Scanned, Empty
    <3>3. opid[p] # p /\ pc[opid[p]] # "none"
      BY <2>1, <3>1, <3>2 DEF Unshared, Alive
    <3> QED
      BY <2>1, <3>1, <3>3 DEF Inv, Alone, Watched
  <2>3. ASSUME NEW q \in Pids \ {p}, pc[q] = "loop" PROVE pc'[p] = "none"
    <3>1. opid[p] = q
      BY <2>1, <2>3 DEF Inv, Seen
    <3>2. q # 0
      BY LifecycleConstantsOK DEF Empty
    <3> QED
      BY <2>1, <2>3, <3>1, <3>2 DEF Found, Alive
  <2> QED
    BY <2>2, <2>3
<1> QED
  BY <1>1, <1>2, <1>3, Invariant, PTL DEF Spec, RefusedRightly
=============================================================================
