----------------------- MODULE AuthTextServiceProofs -----------------------
(***************************************************************************)
(* The text database implements RelayService, step by step, until SIGALRM  *)
(* has come at a moment main does not bear or a write was cut short.       *)
(*                                                                         *)
(* A session is an entry that counts.  A login is where its time is put    *)
(* on record, the publishing is main's rename, the expiry is the handler;  *)
(* every other statement is a stutter of the service.                      *)
(***************************************************************************)
EXTENDS AuthTextCalmProofs

USE DEF NoHost, Never

Serving == Running /\ ~Booting

\* The points of main between which nothing it has counted is unpublished.
Settled == {"nap"} \cup (AddPoints \ {"count", "sort"})

\* The hosts of the entries that stand for sessions.
Listed == {buf[auth][i].hostname : i \in 0..(Counted - 1)}

\* What the mapping comes to: the sessions are the logins of the hosts listed,
\* and they are published when the relay file lists the table, as it does whenever
\* main has no table to write.
Mapping ==
  /\ \A h \in Hosts : SessionOf(h) = IF Serving /\ h \in Listed THEN lastLogin[h] ELSE Never
  /\ Serving => \A h \in Listed : h \in Hosts /\ lastLogin[h] # Never
  /\ pc \in Settled \/ (Running /\ pc # "count" /\ authfile = Listing(auth, auth_cur)) =>
       Relayed = Listed

LEMMA MappingHolds ==
  ASSUME TypeInv, TableInv, MirrorInv, Calm, "cut" \notin upset
  PROVE  Mapping
<1>1. ASSUME NEW h \in Hosts
      PROVE  SessionOf(h) = IF Serving /\ h \in Listed THEN lastLogin[h] ELSE Never
  <2> DEFINE entries == {i \in 0..(Counted - 1) : buf[auth][i].hostname = h}
  <2>1. SessionOf(h) = IF Running /\ ~Booting /\ entries # {}
                         THEN buf[auth][CHOOSE i \in entries : TRUE].t
                         ELSE Never
    BY DEF SessionOf
  <2>2. h \in Listed <=> entries # {}
    BY DEF Listed
  <2>3. CASE Serving /\ h \in Listed
    <3>1. (CHOOSE i \in entries : TRUE) \in entries
      BY <2>2, <2>3
    <3>2. \A i \in entries : buf[auth][i].t = lastLogin[h]
      BY <2>3 DEF TableInv, Whole, Dated, Serving
    <3> HIDE DEF entries
    <3> QED
      BY <2>1, <2>2, <2>3, <3>1, <3>2 DEF Serving
  <2>4. CASE ~(Serving /\ h \in Listed)
    BY <2>1, <2>2, <2>4 DEF Serving
  <2> QED
    BY <2>3, <2>4
<1>2. Serving => \A h \in Listed : h \in Hosts /\ lastLogin[h] # Never
  BY DEF TableInv, Whole, Dated, Serving, Listed
<1>3. /\ pc \in Settled => authfile = Listing(auth, auth_cur)
      /\ pc \in Settled => Running /\ pc # "count"
  BY DEF MirrorInv, Mirror, AddPoints, Settled, Running, Stopped
<1>4. ASSUME Running, pc # "count", authfile = Listing(auth, auth_cur)
      PROVE  Relayed = Listed
  <2>1. auth_cur \in Nat /\ Whole /\ Counted = auth_cur
    BY <1>4, TableTypes DEF TableInv, Counted
  <2>2. /\ \A k \in 1..auth_cur : k - 1 \in 0..(auth_cur - 1)
        /\ \A i \in 0..(auth_cur - 1) : i + 1 \in 1..auth_cur /\ (i + 1) - 1 = i
    BY <2>1
  <2>3. authfile # Absent
    <3>1. authfile \in [1..auth_cur -> Hosts \cup {NoHost, Fragment}]
      BY <1>4, <2>1, <2>2 DEF Whole, Dated, Listing
    <3>2. authfile \in Seq(Hosts \cup {NoHost, Fragment})
      BY <2>1, <3>1, LinesAreText
    <3> QED
      BY <3>2, LinesOK
  <2>4. Relayed = {authfile[i] : i \in DOMAIN authfile}
    BY <2>3 DEF Relayed
  <2>5. /\ DOMAIN authfile = 1..auth_cur
        /\ \A k \in 1..auth_cur : authfile[k] = buf[auth][k - 1].hostname
    BY <1>4 DEF Listing
  <2>6. Listed = {buf[auth][i].hostname : i \in 0..(auth_cur - 1)}
    BY <2>1 DEF Listed
  <2>7. Relayed = {authfile[k] : k \in 1..auth_cur}
    BY <2>4, <2>5
  <2>8. ASSUME NEW k \in 1..auth_cur
        PROVE  authfile[k] \in Listed
    BY <2>2, <2>5, <2>6
  <2>9. ASSUME NEW i \in 0..(auth_cur - 1)
        PROVE  buf[auth][i].hostname \in Relayed
    <3>1. i + 1 \in 1..auth_cur /\ authfile[i + 1] = buf[auth][i].hostname
      BY <2>2, <2>5
    <3> QED
      BY <2>7, <3>1
  <2>10. Relayed \subseteq Listed
    BY <2>7, <2>8
  <2>11. Listed \subseteq Relayed
    BY <2>6, <2>9
  <2> QED
    BY <2>10, <2>11
<1> QED
  BY <1>1, <1>2, <1>3, <1>4 DEF Mapping

-----------------------------------------------------------------------------
(* The service's actions in terms of what is listed.                       *)

\* A process that does not serve shows in its relay file only.
LEMMA Idle ==
  ASSUME ~Serving, ~Serving', now' = now
  PROVE  /\ Relayed' = Relayed => UNCHANGED Service!vars
         /\ Relayed' = {} => Service!Withdraw
<1>1. \A h \in Hosts : SessionOf(h) = Never /\ SessionOf(h)' = Never
  BY DEF SessionOf, Serving
<1>2. [h \in Hosts |-> SessionOf(h)]' = [h \in Hosts |-> SessionOf(h)]
  BY <1>1
<1>3. (Running /\ ~Booting)' = (Running /\ ~Booting)
  BY DEF Serving
<1> QED
  BY <1>2, <1>3 DEF Service!vars, Service!Withdraw, Serving

\* A statement that neither lists a host nor moves the relay file.
LEMMA Stutters ==
  ASSUME Mapping, Mapping', UNCHANGED <<now, Relayed>>,
         Serving, Serving', UNCHANGED <<Listed, lastLogin>>
  PROVE  UNCHANGED Service!vars
<1>1. \A h \in Hosts : SessionOf(h)' = SessionOf(h)
  BY DEF Mapping
<1>2. [h \in Hosts |-> SessionOf(h)]' = [h \in Hosts |-> SessionOf(h)]
  BY <1>1
<1>3. (Running /\ ~Booting)' = (Running /\ ~Booting)
  BY DEF Serving
<1> QED
  BY <1>2, <1>3 DEF Service!vars

\* The service's sessions are those of the hosts listed.
LEMMA SessionsListed ==
  ASSUME Mapping
  PROVE  /\ Serving => Service!Sessions([h \in Hosts |-> SessionOf(h)]) = Listed
         /\ ~Serving => [h \in Hosts |-> SessionOf(h)] = Service!NoSessions
<1>1. CASE Serving
  <2>1. \A h \in Hosts : SessionOf(h) # Never <=> h \in Listed
    BY <1>1 DEF Mapping
  <2>2. \A h \in Listed : h \in Hosts
    BY <1>1 DEF Mapping
  <2> QED
    BY <1>1, <2>1, <2>2 DEF Service!Sessions, Service!Never
<1>2. CASE ~Serving
  <2>1. \A h \in Hosts : SessionOf(h) = Never
    BY <1>2 DEF Mapping
  <2> QED
    BY <1>2, <2>1 DEF Service!NoSessions, Service!Never
<1> QED
  BY <1>1, <1>2

\* A login.
LEMMA LogsIn ==
  ASSUME TypeInv, Mapping, Mapping', NEW g \in Hosts,
         Serving, Serving', Relayed = Listed, UNCHANGED <<now, Relayed>>,
         Listed' = Listed \cup {g}, lastLogin' = [lastLogin EXCEPT ![g] = now]
  PROVE  Service!Login(g)
<1>1. lastLogin \in [Hosts -> Nat]
  BY TableTypes
<1>2. \A h \in Hosts : SessionOf(h)' = IF h = g THEN now ELSE SessionOf(h)
  BY <1>1 DEF Mapping
<1>3. [h \in Hosts |-> SessionOf(h)]' = [[h \in Hosts |-> SessionOf(h)] EXCEPT ![g] = now]
  BY <1>2
<1> QED
  BY <1>3, SessionsListed DEF Service!Login, Service!Published, Serving

\* The end of the process.
LEMMA Stops ==
  ASSUME Serving, ~Serving', UNCHANGED <<now, Relayed>>
  PROVE  Service!Stop
<1>1. \A h \in Hosts : SessionOf(h)' = Never
  BY DEF SessionOf, Serving
<1>2. [h \in Hosts |-> SessionOf(h)]' = Service!NoSessions
  BY <1>1 DEF Service!NoSessions, Service!Never
<1> QED
  BY <1>2 DEF Service!Stop, Serving

\* The relay file comes to list the table.
LEMMA Publishes ==
  ASSUME Mapping, Mapping', Serving', UNCHANGED <<now, lastLogin>>, Relayed' = Listed', Listed' = Listed,
         ~Serving => Listed = {}
  PROVE  Service!Boot \/ Service!Publish
<1>1. \A h \in Hosts : SessionOf(h)' = SessionOf(h)
  <2>1. CASE Serving
    BY <2>1 DEF Mapping
  <2>2. CASE ~Serving
    BY <2>2 DEF Mapping
  <2> QED
    BY <2>1, <2>2
<1>2. [h \in Hosts |-> SessionOf(h)]' = [h \in Hosts |-> SessionOf(h)]
  BY <1>1
<1>3. CASE Serving
  <2>1. Relayed' = Service!Sessions([h \in Hosts |-> SessionOf(h)])
    BY <1>3, SessionsListed
  <2> QED
    BY <1>2, <1>3, <2>1 DEF Service!Publish, Serving
<1>4. CASE ~Serving
  BY <1>2, <1>4 DEF Service!Boot, Serving
<1> QED
  BY <1>3, <1>4

\* A clean ends the sessions whose time is up, and no others.
LEMMA Expires ==
  ASSUME TypeInv, TableInv, Mapping, Mapping', Serving, Serving', UNCHANGED <<now, lastLogin>>,
         Relayed' = Listed',
         Listed' = {h \in Listed : now - lastLogin[h] < Timeout}
  PROVE  Service!Expire
<1>1. /\ now \in Nat /\ Timeout \in Nat /\ Flush \in Nat \ {0} /\ now >= Timeout + Flush
      /\ lastLogin \in [Hosts -> Nat]
  BY TableTypes DEF TableInv
<1>2. \A h \in Hosts : SessionOf(h)' = IF now - SessionOf(h) < Timeout THEN SessionOf(h) ELSE Never
  <2> SUFFICES ASSUME NEW h \in Hosts
               PROVE  SessionOf(h)' = IF now - SessionOf(h) < Timeout THEN SessionOf(h) ELSE Never
    OBVIOUS
  <2>1. CASE h \in Listed
    BY <2>1 DEF Mapping
  <2>2. CASE h \notin Listed
    <3>1. SessionOf(h) = Never /\ SessionOf(h)' = Never
      BY <2>2 DEF Mapping
    <3> QED
      BY <3>1
  <2> QED
    BY <2>1, <2>2
<1>3. [h \in Hosts |-> SessionOf(h)]' =
        [h \in Hosts |-> IF now - [g \in Hosts |-> SessionOf(g)][h] < Timeout
                           THEN [g \in Hosts |-> SessionOf(g)][h] ELSE Service!Never]
  BY <1>2 DEF Service!Never
<1>4. Relayed' = Service!Sessions([h \in Hosts |-> SessionOf(h)]')
  <2>1. \A h \in Hosts : SessionOf(h)' # Never <=> h \in Listed'
    BY DEF Mapping
  <2>2. \A h \in Listed' : h \in Hosts
    BY DEF Mapping
  <2> QED
    BY <2>1, <2>2 DEF Service!Sessions, Service!Never
<1> QED
  BY <1>3, <1>4, SessionsListed DEF Service!Expire, Serving

\* Time passes; no session gets too old.
LEMMA Ticks ==
  ASSUME TypeInv, TableInv, Mapping, Mapping', Calm, Tick
  PROVE  Service!Tick
<1>1. /\ now' = now + 1 /\ (Running => alarm > 0)
      /\ UNCHANGED <<pc, auth, buf, auth_cur, hostname, authfile, lastLogin>>
  BY DEF Tick, tableVars, frameVars, fileVars, histVars
<1>2. /\ now \in Nat /\ alarm \in Nat /\ Timeout \in Nat /\ Flush \in Nat /\ lastLogin \in [Hosts -> Nat]
  BY TableTypes
<1>3. Serving' = Serving /\ Listed' = Listed /\ Relayed' = Relayed
  BY <1>1 DEF Serving, Running, Booting, Listed, Counted, Relayed
<1>4. \A h \in Hosts : SessionOf(h)' = SessionOf(h)
  BY <1>1, <1>3 DEF Mapping
<1>5. [h \in Hosts |-> SessionOf(h)]' = [h \in Hosts |-> SessionOf(h)]
  BY <1>4
<1>6. ASSUME Serving, NEW h \in Listed
      PROVE  now + 1 - [g \in Hosts |-> SessionOf(g)][h] < Timeout + Flush
  <2>1. h \in Hosts /\ SessionOf(h) = lastLogin[h]
    BY <1>6 DEF Mapping
  <2>2. PICK i \in 0..(Counted - 1) : buf[auth][i].hostname = h
    BY DEF Listed
  <2>3. now - lastLogin[h] + alarm < Timeout + Flush /\ alarm > 0
    BY <1>1, <1>6, <2>2 DEF TableInv, Whole, Dated, Fresh, Serving
  <2>4. now + 1 - lastLogin[h] < Timeout + Flush
    <3>1. lastLogin[h] \in Nat
      BY <1>2, <2>1
    <3> QED
      BY <1>2, <2>3, <3>1
  <2> QED
    BY <2>1, <2>4
<1>7. (Running /\ ~Booting)' = (Running /\ ~Booting)
  BY <1>3 DEF Serving
<1>8. (Running /\ ~Booting) =>
        \A h \in Service!Sessions([g \in Hosts |-> SessionOf(g)]) :
          now + 1 - [g \in Hosts |-> SessionOf(g)][h] < Timeout + Flush
  BY <1>6, SessionsListed DEF Serving
<1> QED
  BY <1>1, <1>3, <1>5, <1>7, <1>8 DEF Service!Tick

-----------------------------------------------------------------------------
(* What each statement of the database is to the service.                  *)

\* The statements that leave the table as it is.
LEMMA SameListed ==
  ASSUME UNCHANGED <<buf, auth>>, Counted' = Counted
  PROVE  Listed' = Listed
  BY DEF Listed

\* Update and Stamp are the two places where a login is put on record.
LEMMA RefreshIsLogin ==
  ASSUME TypeInv, SizeInv, TableInv, Mapping, Mapping', Calm, Update
  PROVE  Service!Login(hostname)
<1>1. /\ pc = "update" /\ pc' = "nap" /\ UNCHANGED <<now, auth, auth_cur, authfile>>
      /\ lastLogin' = [lastLogin EXCEPT ![hostname] = now]
      /\ hostname \in Hosts
  BY DEF Update, timeVars, fileVars, TypeInv, TypeOK, AddPoints
<1>2. Serving /\ Serving' /\ AtPoint /\ Counted = auth_cur /\ Counted' = auth_cur
  BY <1>1 DEF TableInv, Whole, Serving, Running, Stopped, Booting, WritePoints, Counted
<1>3. \A i \in 0..(auth_cur - 1) : buf'[auth][i].hostname = buf[auth][i].hostname
  BY <1>2, UpdateEffect
<1>4. Listed' = Listed /\ hostname \in Listed
  BY <1>1, <1>2, <1>3 DEF Listed, AtPoint
<1>5. Relayed' = Relayed /\ Relayed = Listed
  BY <1>1 DEF Relayed, Mapping, Settled, AddPoints
<1>6. Listed' = Listed \cup {hostname}
  BY <1>4
<1> QED
  BY <1>1, <1>2, <1>5, <1>6, LogsIn

LEMMA StampIsLogin ==
  ASSUME TypeInv, TableInv, Mapping, Mapping', Calm, Stamp
  PROVE  Service!Login(hostname)
<1>1. /\ pc = "stamp" /\ pc' = "count" /\ UNCHANGED <<now, auth, auth_cur, authfile>>
      /\ lastLogin' = [lastLogin EXCEPT ![hostname] = now]
      /\ hostname \in Hosts
  BY DEF Stamp, timeVars, fileVars, TypeInv, TypeOK, AddPoints
<1>2. Serving /\ Serving' /\ AtPoint /\ Counted = auth_cur /\ Counted' = auth_cur + 1
  BY <1>1 DEF TableInv, Whole, Serving, Running, Stopped, Booting, WritePoints, Counted
<1>3. /\ \A i \in 0..(auth_cur - 1) : buf'[auth][i] = buf[auth][i]
      /\ buf'[auth][auth_cur].hostname = hostname
  BY <1>1, <1>2, SlotEffect DEF AtPoint
<1>4. 0..((auth_cur + 1) - 1) = 0..(auth_cur - 1) \cup {auth_cur}
  BY TableTypes
<1>5. Listed' = Listed \cup {hostname}
  BY <1>1, <1>2, <1>3, <1>4 DEF Listed
<1>6. Relayed' = Relayed /\ Relayed = Listed
  BY <1>1 DEF Relayed, Mapping, Settled, AddPoints
<1> QED
  BY <1>1, <1>2, <1>5, <1>6, LogsIn

\* The other statements of auth_text_add stutter.
LEMMA AddStutters ==
  ASSUME TypeInv, SizeInv, TableInv, Mapping, Mapping', Calm,
         \/ \E h \in Hosts : Login(h)
         \/ Present \/ Test \/ Raise \/ Realloc \/ Assign \/ Fill \/ Count \/ SortSwap \/ SortDone
  PROVE  UNCHANGED Service!vars
<1>1. /\ UNCHANGED <<now, auth, authfile, lastLogin>>
      /\ pc \in {"nap"} \cup AddPoints
      /\ pc' \in AddPoints \cup {"open"}
      /\ pc \in AddPoints => hostname' = hostname
      /\ pc = "nap" => pc' = "present"
  BY DEF Login, Present, Test, Raise, Realloc, Assign, Dangling, Fill, Count, SortSwap, SortDone,
     timeVars, tableVars, frameVars, fileVars, histVars, AddPoints
<1>2. Serving /\ Serving' /\ Whole
  <2>1. pc' = "open" => hostname' # NoHost
    BY <1>1, ConstantsOK DEF TypeInv, TypeOK, AddPoints
  <2> QED
    BY <1>1, <2>1 DEF TableInv, Serving, Running, Stopped, Booting, WritePoints, AddPoints
<1>3. Listed' = Listed
  <2>1. CASE (\E h \in Hosts : Login(h)) \/ Present \/ Test \/ Raise \/ Assign \/ SortDone
    <3>1. UNCHANGED <<buf, auth>> /\ Counted' = Counted
      BY <2>1 DEF Login, Present, Test, Raise, Assign, Dangling, SortDone, tableVars, Counted
    <3> QED
      BY <3>1, SameListed
  <2>2. CASE Count
    <3>1. UNCHANGED <<buf, auth>> /\ Counted' = Counted
      BY <1>2, <2>2 DEF Count, Counted, Whole, AtPoint
    <3> QED
      BY <3>1, SameListed
  <2>3. CASE Realloc \/ Fill
    <3>1. Counted = auth_cur /\ Counted' = auth_cur
      BY <2>3 DEF Realloc, Fill, Counted
    <3>2. \A i \in 0..(auth_cur - 1) : buf'[auth][i] = buf[auth][i]
      BY <2>3, <3>1, ReallocEffect, SlotEffect
    <3> QED
      BY <1>1, <3>1, <3>2 DEF Listed
  <2>4. CASE SortSwap
    <3>1. Counted = auth_cur /\ Counted' = auth_cur
      BY <2>4 DEF SortSwap, Counted
    <3>2. PICK k, l \in 0..(auth_cur - 1) :
            \A i \in 0..(auth_cur - 1) :
              buf'[auth][i] = IF i = k THEN buf[auth][l]
                              ELSE IF i = l THEN buf[auth][k] ELSE buf[auth][i]
      BY <1>2, <2>4, SwapEffect DEF Whole
    <3>3. ASSUME NEW i \in 0..(auth_cur - 1)
          PROVE  \E j \in 0..(auth_cur - 1) : buf'[auth][i].hostname = buf[auth][j].hostname
      BY <3>2
    <3>4. ASSUME NEW j \in 0..(auth_cur - 1)
          PROVE  \E i \in 0..(auth_cur - 1) : buf'[auth][i].hostname = buf[auth][j].hostname
      BY <3>2
    <3>5. /\ Listed = {buf[auth][i].hostname : i \in 0..(auth_cur - 1)}
          /\ Listed' = {buf'[auth][i].hostname : i \in 0..(auth_cur - 1)}
      BY <1>1, <3>1 DEF Listed
    <3>6. Listed' \subseteq Listed
      BY <3>3, <3>5
    <3>7. Listed \subseteq Listed'
      BY <3>4, <3>5
    <3> QED
      BY <3>6, <3>7
  <2> QED
    BY <2>1, <2>2, <2>3, <2>4
<1>4. Relayed' = Relayed
  BY <1>1 DEF Relayed
<1> QED
  BY <1>1, <1>2, <1>3, <1>4, Stutters

\* A step that ends the process, or leaves it ended, and the relay file alone.
LEMMA StopsOrIdles ==
  ASSUME UNCHANGED <<now, authfile>>, ~Serving'
  PROVE  Service!Stop \/ UNCHANGED Service!vars
<1>1. Relayed' = Relayed
  BY DEF Relayed
<1> QED
  BY <1>1, Stops, Idle

\* A statement of auth_write_text that is not the last.
LEMMA WriteStutters ==
  ASSUME Mapping, Mapping', UNCHANGED <<now, authfile, buf, auth, auth_cur, lastLogin>>,
         pc # "count", pc' # "count", Serving' = Serving
  PROVE  UNCHANGED Service!vars
<1>1. Relayed' = Relayed
  BY DEF Relayed
<1>2. Counted' = Counted
  BY DEF Counted
<1>3. Listed' = Listed
  BY <1>2, SameListed
<1>4. CASE Serving
  BY <1>1, <1>3, <1>4, Stutters
<1>5. CASE ~Serving
  BY <1>1, <1>5, Idle
<1> QED
  BY <1>4, <1>5

\* main's rename publishes the table.
LEMMA RenamePublishes ==
  ASSUME TypeInv, TableInv, Mapping, Mapping', Calm, Rename, pc' # "exited"
  PROVE  Service!Boot \/ Service!Publish
<1>1. /\ pc = "rename" /\ pc' = "nap" /\ UNCHANGED <<now, auth, buf, auth_cur, lastLogin>>
  BY DEF Rename, Exit, timeVars, tableVars
<1>2. Serving' /\ Counted = auth_cur /\ Counted' = auth_cur /\ AtPoint
  BY <1>1 DEF Serving, Running, Stopped, Booting, WritePoints, Counted, TableInv, Whole
<1>3. Listed' = Listed
  BY <1>1, <1>2, SameListed
<1>4. Relayed' = Listed'
  BY <1>1 DEF Mapping, Settled
<1>5. ~Serving => Listed = {}
  <2>1. ~Serving => auth_cur = 0
    BY <1>1, <1>2 DEF Serving, Running, Stopped, AtPoint
  <2> QED
    BY <1>2, <2>1 DEF Listed
<1> QED
  BY <1>1, <1>2, <1>3, <1>4, <1>5, Publishes

\* The handler is the service's expiry, or withdraws the list of the process
\* before when it comes in the middle of a start.
LEMMA CleanExpires ==
  ASSUME TypeInv, SizeInv, TableInv, Mapping, Mapping', Calm, auth_clean,
         Calm', "cut" \notin upset', pc' \notin {"exited", "corrupt"}
  PROVE  Service!Expire \/ Service!Withdraw
<1>1. /\ pc \in CalmPoints /\ pc' = pc /\ UNCHANGED <<now, lastLogin, hostname>>
      /\ authfile' = Listing(auth, auth_cur)'
  BY CleanEffect
<1>2. PICK pick \in [0..(auth_cur' - 1) -> Live] :
        /\ Enumerates(pick, auth_cur', Live)
        /\ \A i \in 0..(auth_cur' - 1) : buf'[auth'][i] = buf[auth][pick[i]]
  BY CleanEffect
<1>3. Running /\ Running' /\ Whole /\ Whole' /\ Serving' = Serving
  BY <1>1, CleanWhole DEF TableInv, Serving, Running, Stopped, CalmPoints, Booting
<1>4. Counted = auth_cur /\ Counted' = auth_cur' /\ Relayed' = Listed'
  BY <1>1, <1>3 DEF Counted, CalmPoints, Mapping
<1>5. CASE Serving
  <2>1. /\ \A i \in 0..(auth_cur' - 1) : pick[i] \in Live
        /\ \A i \in Live : \E k \in 0..(auth_cur' - 1) : pick[k] = i
    BY <1>2 DEF Enumerates
  <2>2. Listed' = {buf[auth][i].hostname : i \in Live}
    BY <1>2, <1>4, <2>1 DEF Listed
  <2>3. \A i \in 0..(auth_cur - 1) : i \in Live <=> now - lastLogin[buf[auth][i].hostname] < Timeout
    BY <1>3, <1>4 DEF Whole, Dated, Live
  <2>4. Listed' = {h \in Listed : now - lastLogin[h] < Timeout}
    <3>1. Live \subseteq 0..(auth_cur - 1)
      BY DEF Live
    <3> QED
      BY <1>4, <2>2, <2>3, <3>1 DEF Listed
  <2> QED
    BY <1>1, <1>3, <1>4, <1>5, <2>4, Expires
<1>6. CASE ~Serving
  <2>1. Booting'
    BY <1>3, <1>6 DEF Serving
  <2>2. auth_cur' = 0
    BY <1>3, <2>1 DEF Whole, AtPoint
  <2>3. Relayed' = {}
    BY <1>4, <2>2 DEF Listed
  <2> QED
    BY <1>1, <1>3, <1>6, <2>3, Idle
<1> QED
  BY <1>5, <1>6

LEMMA ServiceStep ==
  ASSUME TypeInv, SizeInv, TempInv, TableInv, Mapping, Mapping', Calm, Calm',
         "cut" \notin upset', [Next]_vars, ~Start
  PROVE  [Service!Next]_(Service!vars)
<1>1. authfile' # authfile => \/ pc = "rename" /\ Rename /\ pc' = "nap"
                              \/ auth_clean /\ pc' \notin {"exited", "corrupt"}
  BY ReplacedStep
<1>2. CASE \/ \E h \in Hosts : Login(h)
           \/ Present \/ Test \/ Raise \/ Realloc \/ Assign \/ Fill \/ Count \/ SortSwap \/ SortDone
  BY <1>2, AddStutters
<1>3. CASE Update
  <2>1. hostname \in Hosts
    BY <1>3 DEF Update, TypeInv, TypeOK, AddPoints
  <2> QED
    BY <1>3, <2>1, RefreshIsLogin DEF Service!Next
<1>4. CASE Stamp
  <2>1. hostname \in Hosts
    BY <1>4 DEF Stamp, TypeInv, TypeOK, AddPoints
  <2> QED
    BY <1>4, <2>1, StampIsLogin DEF Service!Next
<1>5. CASE (Open \/ Rename) /\ pc' = "exited"
  <2>1. now' = now /\ authfile' = authfile
    BY <1>1, <1>5 DEF Open, Rename, timeVars, auth_clean
  <2>2. ~Serving'
    BY <1>5 DEF Serving, Running, Stopped
  <2> QED
    BY <2>1, <2>2, StopsOrIdles DEF Service!Next
<1>6. CASE (Open \/ Fprintf \/ Close) /\ pc' # "exited"
  <2>1. /\ UNCHANGED <<now, authfile, buf, auth, auth_cur, lastLogin, hostname>>
        /\ pc \in {"open", "print"} /\ pc' \in {"print", "rename"}
    <3>1. /\ UNCHANGED <<now, buf, auth, auth_cur, lastLogin, hostname>>
          /\ pc \in {"open", "print"} /\ pc' \in {"print", "rename"}
      BY <1>6 DEF Open, Fprintf, Close, Exit, timeVars, tableVars, frameVars, histVars
    <3>2. auth_clean => pc' \notin {"print", "rename"} \/ pc' \in {"exited", "corrupt"}
      BY CleanEffect DEF CalmPoints
    <3> QED
      BY <1>1, <3>1, <3>2
  <2>2. Serving' = Serving
    BY <2>1 DEF Serving, Running, Stopped, Booting, WritePoints
  <2> QED
    BY <2>1, <2>2, WriteStutters
<1>7. CASE Rename /\ pc' # "exited"
  BY <1>7, RenamePublishes DEF Service!Next
<1>8. CASE auth_clean
  <2>1. CASE pc' \in {"exited", "corrupt"}
    <3>1. UNCHANGED <<now, authfile>> /\ ~Serving'
      BY <1>8, <2>1, CalmClean DEF Serving, Running, Stopped
    <3> QED
      BY <3>1, StopsOrIdles DEF Service!Next
  <2>2. CASE pc' \notin {"exited", "corrupt"}
    BY <1>8, <2>2, CleanExpires DEF Service!Next
  <2> QED
    BY <2>1, <2>2
<1>9. CASE Tick
  BY <1>9, Ticks DEF Service!Next
<1>10. CASE RaiseSigalrm \/ UNCHANGED vars
  <2>1. UNCHANGED <<now, authfile, buf, auth, auth_cur, lastLogin, pc, hostname>>
    BY <1>10 DEF RaiseSigalrm, vars, timeVars, tableVars, frameVars, fileVars, histVars
  <2>2. Serving' = Serving /\ Listed' = Listed /\ Relayed' = Relayed
    BY <2>1 DEF Serving, Running, Booting, Listed, Counted, Relayed
  <2> QED
    BY <2>1, <2>2, Stutters, Idle
<1>11. CASE Kill \/ Overreach
  <2>1. UNCHANGED <<now, authfile>> /\ ~Serving'
    BY <1>11 DEF Kill, Overreach, Corrupt, timeVars, Serving, Running, Stopped
  <2> QED
    BY <2>1, StopsOrIdles DEF Service!Next
<1>12. Fprintf \/ Close => pc' # "exited"
  BY DEF Fprintf, Close
<1> QED
  BY <1>2, <1>3, <1>4, <1>5, <1>6, <1>7, <1>8, <1>9, <1>10, <1>11, <1>12 DEF Next, Step

\* What the mapping holds under is itself kept.
MappingInv == Calm /\ "cut" \notin upset => Mapping

LEMMA MappingKept ==
  ASSUME TypeInv, TableInv, MirrorInv
  PROVE  MappingInv
BY MappingHolds DEF MappingInv

\* Until SIGALRM has come at a bad moment or a write was cut short, whatever
\* else goes wrong, each step of the text database is one that RelayService
\* allows: a login, a publishing, an expiry, a start or an end, the withdrawal
\* of an old list, or none that shows.
THEOREM ImplementsService == Spec => ServiceSafety
<1>1. TypeInv /\ TableInv /\ MirrorInv => MappingInv
  BY MappingKept
<1>2. TypeInv /\ SizeInv /\ TempInv /\ TableInv /\ MappingInv /\ MappingInv' /\ [Next]_vars =>
        [upset' \subseteq {"failed"} => [Service!Next]_(Service!vars)]_vars
  <2> SUFFICES ASSUME TypeInv, SizeInv, TempInv, TableInv, MappingInv, MappingInv', [Next]_vars,
                      upset' \subseteq {"failed"}
               PROVE  [Service!Next]_(Service!vars)
    OBVIOUS
  <2>1. CASE Start
    <3>1. UNCHANGED <<now, authfile>> /\ ~Serving'
      BY <2>1 DEF Start, FirstPoint, fileVars, Serving, Booting, WritePoints
    <3> QED
      BY <3>1, StopsOrIdles DEF Service!Next
  <2>2. CASE ~Start
    <3>1. Calm' /\ "cut" \notin upset' /\ Calm /\ "cut" \notin upset
      BY <2>2, MarksGrow DEF Calm
    <3>2. Mapping /\ Mapping'
      BY <3>1 DEF MappingInv
    <3> QED
      BY <2>2, <3>1, <3>2, ServiceStep
  <2> QED
    BY <2>1, <2>2
<1>3. Init => Service!Init
  <2> SUFFICES ASSUME Init PROVE Service!Init
    OBVIOUS
  <2>1. pc = "down" /\ now = Timeout + Flush /\ authfile = Absent
    BY DEF Init
  <2>2. ~(Running /\ ~Booting) /\ \A h \in Hosts : SessionOf(h) = Never
    BY <2>1 DEF Running, Stopped, SessionOf
  <2>3. [h \in Hosts |-> SessionOf(h)] = Service!NoSessions
    BY <2>2 DEF Service!NoSessions, Service!Never
  <2>4. Relayed = {}
    BY <2>1 DEF Relayed
  <2> QED
    BY <2>1, <2>2, <2>3, <2>4 DEF Service!Init
<1> QED
  BY <1>1, <1>2, <1>3, TypeInvariant, SizeInvariant, TempInvariant, TableInvariant, MirrorInvariant,
     PTL DEF Spec, ServiceSafety
=============================================================================
