------------------------------ MODULE ExactProofs ------------------------------
(***************************************************************************)
(* Proofs about Exact, for all configuration files, definitions, log lines *)
(* and every choice of the points at which signals arrive.  They rest on   *)
(* ConfInv: what the parameter table holds at each program point, in terms *)
(* of the lines of the file that was opened last.  To it come Listed for   *)
(* the dump, TypeInv for where values come from, and StanzaInv for the two *)
(* entries that server_check adds.                                         *)
(***************************************************************************)
EXTENDS Exact, ApconfProofs, TLAPS

\* From the second half of server_check to the next reload.
Settled == {"verify", "init", "logging", "pid", "loop", "dump", "free"}

\* The entries are the lines of the file, as far as they have been read, and then
\* two literals.
Table ==
  /\ param \in Seq(Range(param))
  /\ pc = "open" => param = <<>>
  /\ pc = "open" /\ hup => read.conf \in Seq(Range(read.conf))
  /\ pc \notin {"open", "exited"} =>
       /\ read.conf \in Seq(Range(read.conf))
       /\ \A k \in 1..Len(param) : k <= Len(read.conf) => param[k] = Entry(read.conf[k])
  /\ pc = "read" => i = Len(param) /\ i <= Len(read.conf)
  /\ pc \in {"check", "servers"} => Len(param) = Len(read.conf)
  /\ pc \in Settled =>
       /\ Len(param) = Len(read.conf) + 2
       /\ param[Len(param) - 1].name = "order"
       /\ param[Len(param)].name = "match"

\* What has been checked by then.
Checked ==
  /\ pc \in {"servers"} \cup Settled => ~Missing
  /\ pc \in Settled \ {"verify"} => conffile_param("authtype") \in {"db", "text"}

ConfInv ==
  /\ pc \in Points
  /\ FileOK(conf)
  /\ DOMAIN read = {"conf", "defs"}
  /\ i \in Nat
  /\ now \in Nat \ {0}
  /\ DOMAIN relay = Paths
  /\ table \in [Names -> Nat]
  /\ Table
  /\ Checked

-----------------------------------------------------------------------------
(* Sequences and the first entry of a name.                                *)

\* A sequence is a sequence over its own elements.
LEMMA SeqOverRange ==
  ASSUME NEW S, NEW q \in Seq(S)
  PROVE  q \in Seq(Range(q))
  BY DEF Range

\* A parameter that is there is what the file says, at every point of a reload.
LEMMA PresentIsDeclared ==
  ASSUME Table, pc \in Points \ {"exited"}, i \in Nat,
         NEW name, name \notin {"order", "match"}, conffile_param(name) # NULL
  PROVE  conffile_param(name) = Declared(read.conf, name)
<1> DEFINE A == {k \in DOMAIN param : param[k].name = name}
           B == {k \in DOMAIN read.conf : read.conf[k].name = name}
<1>1. A # {}
  BY DEF conffile_param
<1>2. pc # "open"
  BY <1>1 DEF Table
<1>3. read.conf \in Seq(Range(read.conf)) /\ param \in Seq(Range(param))
  BY <1>2 DEF Table
<1>4. DOMAIN param = 1..Len(param) /\ DOMAIN read.conf = 1..Len(read.conf)
      /\ Len(param) \in Nat /\ Len(read.conf) \in Nat
  BY <1>3
<1>5. \A k \in A : k <= Len(read.conf)
  <2>1. CASE pc \in {"read", "check", "servers"}
    <3>1. Len(param) <= Len(read.conf)
      <4>1. CASE pc = "read"
        BY <4>1 DEF Table
      <4>2. CASE pc \in {"check", "servers"}
        <5>1. Len(param) = Len(read.conf)
          BY <4>2 DEF Table
        <5> QED
          BY <5>1, <1>4
      <4> QED
        BY <2>1, <4>1, <4>2
    <3> QED
      BY <3>1, <1>4
  <2>2. CASE pc \in Settled
    <3>3. Len(param) = Len(read.conf) + 2
      BY <2>2 DEF Table
    <3>1. \A k \in 1..Len(param) : k <= Len(read.conf) \/ k = Len(param) - 1 \/ k = Len(param)
      BY <3>3, <1>4
    <3>2. Len(param) - 1 \notin A /\ Len(param) \notin A
      BY <2>2 DEF Table
    <3> QED
      BY <3>1, <3>2, <1>4
  <2> QED
    BY <2>1, <2>2, <1>2 DEF Points, ReloadPoints, Settled
<1>6. \A k \in A : k \in B /\ param[k].value = read.conf[k].value
  <2> SUFFICES ASSUME NEW k \in A PROVE k \in B /\ param[k].value = read.conf[k].value
    OBVIOUS
  <2>1. k \in 1..Len(param) /\ k <= Len(read.conf) /\ param[k].name = name
    BY <1>4, <1>5
  <2>2. param[k] = Entry(read.conf[k])
    BY <2>1, <1>2 DEF Table
  <2> QED
    BY <2>1, <2>2, <1>4 DEF Entry
<1>7. \A k \in B : k <= Len(param) => k \in A
  <2> SUFFICES ASSUME NEW k \in B, k <= Len(param) PROVE k \in A
    OBVIOUS
  <2>1. k \in 1..Len(param) /\ k <= Len(read.conf) /\ read.conf[k].name = name
    BY <1>4
  <2>2. param[k] = Entry(read.conf[k])
    BY <2>1, <1>2 DEF Table
  <2> QED
    BY <2>1, <2>2, <1>4 DEF Entry
<1>8. Min(A) = Min(B) /\ Min(A) \in A
  <2>1. A \in SUBSET Nat /\ B \in SUBSET Nat /\ A \subseteq B /\ \A k \in A : k <= Len(param)
    BY <1>4, <1>6
  <2> HIDE DEF A, B
  <2> QED
    BY <2>1, <1>1, <1>4, <1>7, FirstIsFirst
<1>9. B # {}
  BY <1>1, <1>6
<1> QED
  BY <1>1, <1>6, <1>8, <1>9 DEF conffile_param, Declared

\* Once the whole file has been read every setting in it is the parameter's value.
LEMMA DeclaredIsPresent ==
  ASSUME Table, pc \in {"check", "servers"} \cup Settled \/ (pc = "read" /\ Len(param) = Len(read.conf)),
         NEW name, \E k \in DOMAIN read.conf : read.conf[k].name = name
  PROVE  conffile_param(name) = Declared(read.conf, name)
<1> DEFINE A == {k \in DOMAIN read.conf : read.conf[k].name = name}
           B == {k \in DOMAIN param : param[k].name = name}
<1>1. A # {}
  OBVIOUS
<1>2. pc \notin {"open", "exited"}
  BY DEF Settled
<1>3. read.conf \in Seq(Range(read.conf)) /\ param \in Seq(Range(param))
  BY <1>2 DEF Table
<1>4. DOMAIN param = 1..Len(param) /\ DOMAIN read.conf = 1..Len(read.conf)
      /\ Len(param) \in Nat /\ Len(read.conf) \in Nat
  BY <1>3
<1>5. Len(read.conf) <= Len(param)
  <2>1. Len(param) = Len(read.conf) \/ Len(param) = Len(read.conf) + 2
    BY DEF Table
  <2>2. CASE Len(param) = Len(read.conf)
    BY <2>2, <1>4
  <2>3. CASE Len(param) = Len(read.conf) + 2
    BY <2>3, <1>4
  <2> QED
    BY <2>1, <2>2, <2>3
<1>6. \A k \in 1..Len(read.conf) : k \in 1..Len(param) /\ param[k] = Entry(read.conf[k])
  <2> SUFFICES ASSUME NEW k \in 1..Len(read.conf)
               PROVE  k \in 1..Len(param) /\ param[k] = Entry(read.conf[k])
    OBVIOUS
  <2>1. k \in 1..Len(param) /\ k <= Len(read.conf)
    BY <1>4, <1>5
  <2> QED
    BY <2>1, <1>2 DEF Table
<1>7. /\ A \in SUBSET Nat /\ B \in SUBSET Nat /\ A \subseteq B
      /\ \A k \in A : k <= Len(read.conf) /\ param[k].value = read.conf[k].value
      /\ \A k \in B : k <= Len(read.conf) => k \in A
  <2>1. \A k \in 1..Len(read.conf) :
          param[k].name = read.conf[k].name /\ param[k].value = read.conf[k].value
    <3> SUFFICES ASSUME NEW k \in 1..Len(read.conf)
                 PROVE  param[k].name = read.conf[k].name /\ param[k].value = read.conf[k].value
      OBVIOUS
    <3>1. param[k] = Entry(read.conf[k])
      BY <1>6
    <3> QED
      BY <3>1 DEF Entry
  <2> QED
    BY <1>4, <1>6, <2>1
<1>8. Min(A) = Min(B) /\ Min(A) \in A
  <2> HIDE DEF A, B
  <2> QED
    BY <1>1, <1>4, <1>7, FirstIsFirst
<1>9. B # {}
  BY <1>1, <1>7
<1> QED
  BY <1>1, <1>7, <1>8, <1>9 DEF conffile_param, Declared

-----------------------------------------------------------------------------
(* The invariant.                                                          *)

LEMMA Ends ==
  ASSUME Table, UNCHANGED param, pc' = "exited"
  PROVE  Table' /\ Checked'
  BY DEF Table, Checked, Settled

LEMMA Serves ==
  ASSUME Table, Checked, UNCHANGED <<read, param>>,
         pc \in Settled \ {"verify"}, pc' \in Settled \ {"verify"}
  PROVE  Table' /\ Checked'
<1>1. UNCHANGED <<Missing, conffile_param("authtype")>>
  BY DEF Missing, conffile_param, conffile_param_int
<1> QED
  BY <1>1 DEF Table, Checked, Settled

LEMMA Interrupted ==
  ASSUME Table, Checked, UNCHANGED <<read, param, i, hup, pc>>
  PROVE  Table' /\ Checked'
<1>1. UNCHANGED <<Missing, conffile_param("authtype")>>
  BY DEF Missing, conffile_param, conffile_param_int
<1> QED
  BY <1>1 DEF Table, Checked, Settled

LEMMA OpenStep == ConfInv /\ Open => Table' /\ Checked'
<1> SUFFICES ASSUME ConfInv, Open PROVE Table' /\ Checked'
  OBVIOUS
<1>1. CASE ~Openable
  BY <1>1, Ends DEF Open, Die, Fail, ConfInv
<1>2. CASE Openable
  <2>1. param' = <<>> /\ i' = 0 /\ pc' = "read" /\ read'.conf = conf /\ conf \in Seq(Range(conf))
    <3>1. read' = [read EXCEPT !.conf = conf] /\ conf # Absent
      BY <1>2 DEF Open, Openable
    <3> QED
      BY <3>1, <1>2 DEF Open, ConfInv, Table, Goto, FileOK
  <2> QED
    BY <2>1 DEF Table, Checked, Settled
<1> QED
  BY <1>1, <1>2

\* The next line becomes the next entry.
LEMMA ReadLineStep == ConfInv /\ ReadLine => Table' /\ Checked'
<1> SUFFICES ASSUME ConfInv, ReadLine PROVE Table' /\ Checked'
  OBVIOUS
<1> DEFINE e == Entry(read.conf[i + 1])
<1>1. /\ pc = "read" /\ pc' = "read" /\ i' = i + 1 /\ read' = read
      /\ param' = Append(param, e)
      /\ param \in Seq(Range(param)) /\ read.conf \in Seq(Range(read.conf))
      /\ i = Len(param) /\ i < Len(read.conf) /\ i \in Nat
      /\ \A k \in 1..i : k <= Len(read.conf) => param[k] = Entry(read.conf[k])
  BY DEF ReadLine, ConfInv, Table, mainVars
<1> HIDE DEF e
<1>2. param' \in Seq(Range(param) \cup {e}) /\ Len(param') = i + 1 /\ param'[i + 1] = e
      /\ \A k \in 1..i : param'[k] = param[k]
  BY <1>1
<1>3. param' \in Seq(Range(param'))
  BY <1>2, SeqOverRange
<1>4. \A k \in 1..Len(param') : k <= Len(read.conf) => param'[k] = Entry(read.conf[k])
  <2> SUFFICES ASSUME NEW k \in 1..(i + 1), k <= Len(read.conf)
               PROVE  param'[k] = Entry(read.conf[k])
    BY <1>2
  <2>1. k = i + 1 \/ k \in 1..i
    BY <1>1
  <2> QED
    BY <2>1, <1>1, <1>2 DEF e
<1>5. i + 1 <= Len(read.conf)
  <2>1. Len(read.conf) \in Nat
    BY <1>1
  <2> QED
    BY <2>1, <1>1
<1> QED
  BY <1>1, <1>2, <1>3, <1>4, <1>5 DEF Table, Checked, Settled

\* Two more entries leave the first entries of the other names where they are.
LEMMA TwoMore ==
  ASSUME NEW S, param \in Seq(S), NEW a \in S, NEW b \in S,
         param' = param \o <<a, b>>,
         NEW name, conffile_param(name) # NULL
  PROVE  conffile_param(name)' = conffile_param(name)
<1> DEFINE A == {k \in DOMAIN param : param[k].name = name}
           B == {k \in DOMAIN param' : param'[k].name = name}
<1>1. /\ Len(param) \in Nat /\ DOMAIN param = 1..Len(param)
      /\ DOMAIN param' = 1..(Len(param) + 2)
      /\ \A k \in 1..Len(param) : param'[k] = param[k]
  OBVIOUS
<1>2. A # {}
  BY DEF conffile_param
<1>3. /\ A \in SUBSET Nat /\ B \in SUBSET Nat /\ A \subseteq B
      /\ \A k \in A : k <= Len(param)
      /\ \A k \in B : k <= Len(param) => k \in A
  BY <1>1
<1>4. Min(A) = Min(B) /\ Min(A) \in A
  <2> HIDE DEF A, B
  <2> QED
    BY <1>1, <1>2, <1>3, FirstIsFirst
<1>5. B # {}
  BY <1>2, <1>3
<1> QED
  BY <1>1, <1>2, <1>4, <1>5 DEF conffile_param

\* server_check's two entries come after those of the file; what conffile_check has
\* found is still there.
LEMMA ServersStep == ConfInv /\ Servers => Table' /\ Checked'
<1> SUFFICES ASSUME ConfInv, Servers PROVE Table' /\ Checked'
  OBVIOUS
<1>1. \/ UNCHANGED param /\ pc' = "exited"
      \/ \E a : /\ param' = param \o <<LiteralEntry("order", a.order), LiteralEntry("match", a.match)>>
               /\ pc' = "verify"
  <2>1. CASE defs = Absent
    BY <2>1 DEF Servers, Die, Fail
  <2>2. CASE defs # Absent
    BY <2>2 DEF Servers, Die, Fail, Goto
  <2> QED
    BY <2>1, <2>2
<1>2. CASE UNCHANGED param /\ pc' = "exited"
  BY <1>2, Ends DEF ConfInv
<1>3. ASSUME NEW a,
             param' = param \o <<LiteralEntry("order", a.order), LiteralEntry("match", a.match)>>,
             pc' = "verify"
      PROVE  Table' /\ Checked'
  <2> DEFINE x == LiteralEntry("order", a.order)
             y == LiteralEntry("match", a.match)
             S == Range(param) \cup {x, y}
  <2>1. /\ pc = "servers" /\ read'.conf = read.conf /\ ~Missing
        /\ param \in Seq(Range(param)) /\ read.conf \in Seq(Range(read.conf))
        /\ Len(param) = Len(read.conf)
        /\ \A k \in 1..Len(param) : k <= Len(read.conf) => param[k] = Entry(read.conf[k])
    BY DEF Servers, ConfInv, Table, Checked
  <2>2. x.name = "order" /\ y.name = "match"
    BY DEF LiteralEntry
  <2>3. param' = param \o <<x, y>>
    BY <1>3
  <2> HIDE DEF x, y
  <2>4. x \in S /\ y \in S /\ param \in Seq(S)
    BY <2>1
  <2> HIDE DEF S
  <2>5. /\ param' \in Seq(S) /\ Len(param') = Len(param) + 2
        /\ param'[Len(param) + 1] = x /\ param'[Len(param) + 2] = y
        /\ \A k \in 1..Len(param) : param'[k] = param[k]
    BY <2>3, <2>4
  <2>6. param' \in Seq(Range(param'))
    BY <2>5, SeqOverRange
  <2>7. \A k \in 1..Len(param') : k <= Len(read.conf) => param'[k] = Entry(read.conf[k])
    <3> SUFFICES ASSUME NEW k \in 1..Len(param'), k <= Len(read.conf)
                 PROVE  param'[k] = Entry(read.conf[k])
      OBVIOUS
    <3>1. k \in 1..Len(param)
      BY <2>1, <2>5
    <3> QED
      BY <3>1, <2>1, <2>5
  <2>8. Len(param') - 1 = Len(param) + 1 /\ Len(param') = Len(param) + 2 /\ Len(param') = Len(read.conf) + 2
    <3>1. Len(param) \in Nat
      BY <2>1
    <3> QED
      BY <3>1, <2>1, <2>5
  <2>9. Table'
    <3>1. param'[Len(param') - 1] = x /\ param'[Len(param')] = y
      BY <2>5, <2>8
    <3> QED
      BY <3>1, <1>3, <2>1, <2>2, <2>6, <2>7, <2>8 DEF Table, Settled
  <2>10. ~Missing'
    <3>1. ASSUME NEW name, conffile_param(name) # NULL
          PROVE  conffile_param(name)' = conffile_param(name)
      BY <3>1, <2>3, <2>4, TwoMore
    <3>2. \A name \in required_s \cup required_i :
            conffile_param(name) # NULL /\ conffile_param(name)' = conffile_param(name)
      BY <2>1, <3>1 DEF Missing
    <3> QED
      BY <2>1, <3>2 DEF Missing, conffile_param_int
  <2> QED
    BY <1>3, <2>9, <2>10 DEF Checked, Settled
<1> QED
  BY <1>1, <1>2, <1>3

LEMMA VerifyStep == ConfInv /\ Verify => Table' /\ Checked'
<1> SUFFICES ASSUME ConfInv, Verify PROVE Table' /\ Checked'
  OBVIOUS
<1>1. UNCHANGED <<read, param>> /\ pc = "verify"
  BY DEF Verify
<1>2. CASE pc' = "exited"
  BY <1>1, <1>2, Ends DEF ConfInv
<1>3. CASE pc' # "exited"
  <2>1. pc' \in {"loop", "init"} /\ conffile_param("authtype") \in {"db", "text"}
    BY <1>3 DEF Verify, Goto, Die, Fail
  <2>2. UNCHANGED <<Missing, conffile_param("authtype")>>
    BY <1>1 DEF Missing, conffile_param, conffile_param_int
  <2> QED
    BY <1>1, <2>1, <2>2 DEF ConfInv, Table, Checked, Settled
<1> QED
  BY <1>2, <1>3

\* Every step keeps what is said of the table and of what has been checked.
LEMMA TableStep == ConfInv /\ [Next]_vars => Table' /\ Checked'
<1> SUFFICES ASSUME ConfInv, [Next]_vars PROVE Table' /\ Checked'
  OBVIOUS
<1>0. CASE UNCHANGED vars
  BY <1>0, Interrupted DEF vars, confVars, mainVars, ConfInv
<1>1. CASE conffile_reload
  BY <1>1, Serves DEF conffile_reload, Goto, ConfInv, Settled
<1>2. CASE Free
  <2>1. CASE pc' = "exited"
    BY <2>1, <1>2, Ends DEF Free, Goto, ConfInv
  <2>2. CASE pc' # "exited"
    <3>1. pc = "free" /\ pc' = "open" /\ param' = <<>> /\ read' = read
      BY <2>2, <1>2 DEF Free, Goto, Die, Fail, Freed
    <3> QED
      BY <3>1 DEF ConfInv, Table, Checked, Settled
  <2> QED
    BY <2>1, <2>2
<1>3. CASE Open
  BY <1>3, OpenStep
<1>4. CASE ReadLine
  BY <1>4, ReadLineStep
<1>5. CASE ReadDone
  BY <1>5 DEF ReadDone, Goto, ConfInv, Table, Checked, Settled
<1>6. CASE conffile_check
  <2>1. UNCHANGED <<read, param, i>> /\ pc = "check"
    BY <1>6 DEF conffile_check, confVars
  <2>2. CASE pc' = "exited"
    BY <2>1, <2>2, Ends DEF ConfInv
  <2>3. CASE pc' # "exited"
    <3>1. ~Missing /\ pc' = "servers"
      BY <1>6, <2>3 DEF conffile_check, Goto, Die, Fail
    <3>2. UNCHANGED Missing
      BY <2>1 DEF Missing, conffile_param, conffile_param_int
    <3> QED
      BY <2>1, <3>1, <3>2 DEF ConfInv, Table, Checked, Settled
  <2> QED
    BY <2>2, <2>3
<1>7. CASE Servers
  BY <1>7, ServersStep
<1>8. CASE Verify
  BY <1>8, VerifyStep
<1>9. CASE SetUp \/ Logging \/ writepid \/ auth_dump \/ auth_text_dump \/ Dumped
           \/ \E l \in LogLines : Line(l)
  <2>1. UNCHANGED <<read, param>> /\ pc \in Settled \ {"verify"}
    BY <1>9 DEF SetUp, Logging, writepid, auth_dump, auth_text_dump, Dumped, Line, confVars, Settled
  <2>2. pc' \in {"exited"} \cup (Settled \ {"verify"})
    BY <1>9 DEF SetUp, Logging, writepid, auth_dump, auth_text_dump, Dumped, Line, Goto, Die, Fail,
                auth_init, opendb, auth_write_text, logger_init, auth_add, auth_db_add, auth_text_add,
                auth_db_dump, mainVars, Settled
  <2> QED
    BY <2>1, <2>2, Ends, Serves DEF ConfInv
<1>10. CASE auth_clean
  <2>1. UNCHANGED <<read, param, i, hup>>
    BY <1>10 DEF auth_clean, confVars
  <2>2. pc' = pc \/ pc' = "exited"
    BY <1>10 DEF auth_clean, Goto, Die, Fail, auth_write_text, auth_text_clean, auth_db_clean
  <2> QED
    BY <2>1, <2>2, Ends, Interrupted DEF ConfInv
<1>11. CASE exit_handler
  BY <1>11, Ends DEF exit_handler, auth_exit, Die, Fail, confVars, ConfInv
<1>12. CASE Edit \/ Tick
  BY <1>12, Interrupted DEF Edit, Tick, confVars, mainVars, ConfInv
<1> QED
  BY <1>0, <1>1, <1>2, <1>3, <1>4, <1>5, <1>6, <1>7, <1>8, <1>9, <1>10, <1>11, <1>12 DEF Next

LEMMA ConfInit == Init => ConfInv
<1> SUFFICES ASSUME Init PROVE ConfInv
  OBVIOUS
<1>1. PICK files \in Boots : conf = files[1]
  BY DEF Init
<1>2. FileOK(conf)
  BY <1>1, ExactFilesOK
<1>3. Table /\ Checked
  <2>1. pc = "open" /\ ~hup /\ param = <<>>
    BY DEF Init
  <2> QED
    BY <2>1 DEF Table, Checked, Settled
<1> QED
  BY <1>2, <1>3 DEF Init, ConfInv, Points, ReloadPoints, None, Never

LEMMA WriteType ==
  ASSUME DOMAIN relay = Paths, NEW hosts, NEW point, auth_write_text(hosts, point)
  PROVE  DOMAIN relay' = Paths
  BY DEF auth_write_text

LEMMA AddType ==
  ASSUME DOMAIN relay = Paths, table \in [Names -> Nat], now \in Nat, NEW h, auth_add(h)
  PROVE  DOMAIN relay' = Paths /\ table' \in [Names -> Nat]
  BY WriteType DEF auth_add, auth_db_add, auth_text_add

LEMMA CleanType ==
  ASSUME ConfInv, auth_clean
  PROVE  DOMAIN relay' = Paths /\ table' \in [Names -> Nat]
<1>1. CASE UNCHANGED <<table, relay>>
  BY <1>1 DEF ConfInv
<1>2. CASE auth_text_clean
  BY <1>2, WriteType DEF auth_text_clean, ConfInv, Never
<1> QED
  BY <1>1, <1>2 DEF auth_clean, auth_db_clean

LEMMA ServiceStep ==
  ConfInv /\ [Next]_vars =>
    DOMAIN relay' = Paths /\ table' \in [Names -> Nat] /\ now' \in Nat \ {0}
<1> SUFFICES ASSUME ConfInv, [Next]_vars
             PROVE  DOMAIN relay' = Paths /\ table' \in [Names -> Nat] /\ now' \in Nat \ {0}
  OBVIOUS
<1>1. CASE UNCHANGED <<now, table, relay>>
  BY <1>1 DEF ConfInv
<1>2. CASE Tick
  BY <1>2 DEF Tick, ConfInv
<1>3. CASE SetUp
  <2>1. DOMAIN relay' = Paths
    BY <1>3, WriteType DEF SetUp, auth_init, opendb, ConfInv
  <2> QED
    BY <2>1, <1>3 DEF SetUp, ConfInv
<1>4. ASSUME NEW l \in LogLines, Line(l)
      PROVE  DOMAIN relay' = Paths /\ table' \in [Names -> Nat] /\ now' \in Nat \ {0}
  <2>1. now' = now
    BY <1>4 DEF Line
  <2>2. CASE UNCHANGED <<table, relay>>
    BY <2>1, <2>2 DEF ConfInv
  <2>3. CASE auth_add(Matched(l).hostname)
    BY <2>1, <2>3, AddType DEF ConfInv
  <2> QED
    BY <1>4, <2>2, <2>3 DEF Line
<1>5. CASE auth_clean
  BY <1>5, CleanType DEF auth_clean, ConfInv
<1>6. CASE exit_handler
  BY <1>6 DEF exit_handler, ConfInv
<1>7. CASE UNCHANGED vars
  BY <1>1, <1>7 DEF vars, serviceVars
<1>8. CASE conffile_reload \/ Free \/ Open \/ ReadLine \/ ReadDone \/ conffile_check \/ Servers
           \/ Verify \/ Logging \/ writepid \/ auth_dump \/ auth_text_dump \/ Dumped \/ Edit
  BY <1>1, <1>8 DEF conffile_reload, Free, Open, ReadLine, ReadDone, conffile_check, Servers, Verify,
                    Logging, writepid, auth_dump, auth_text_dump, Dumped, Edit, serviceVars
<1> QED
  BY <1>2, <1>3, <1>4, <1>5, <1>6, <1>7, <1>8 DEF Next

LEMMA ConfStep == ConfInv /\ [Next]_vars => ConfInv'
<1> SUFFICES ASSUME ConfInv, [Next]_vars PROVE ConfInv'
  OBVIOUS
<1>1. Table' /\ Checked'
  BY TableStep
<1>2. DOMAIN relay' = Paths /\ table' \in [Names -> Nat] /\ now' \in Nat \ {0}
  BY ServiceStep
<1>3. FileOK(conf')
  <2>1. CASE Edit
    <3>1. PICK files \in Edits : conf' = files[1]
      BY <2>1 DEF Edit
    <3> QED
      BY <3>1, ExactFilesOK
  <2>2. CASE ~Edit
    <3>1. conf' = conf
      BY <2>2 DEF Next, vars, worldVars, conffile_reload, Free, Open, ReadLine, ReadDone, conffile_check,
                  Servers, Verify, SetUp, Logging, writepid, Line, auth_clean, auth_dump, auth_text_dump,
                  Dumped, exit_handler, Tick
    <3> QED
      BY <3>1 DEF ConfInv
  <2> QED
    BY <2>1, <2>2
<1>4. DOMAIN read' = {"conf", "defs"}
  <2>1. CASE Open
    BY <2>1 DEF Open, ConfInv
  <2>2. CASE Servers
    BY <2>2 DEF Servers, ConfInv
  <2>3. CASE ~Open /\ ~Servers
    <3>1. read' = read
      BY <2>3 DEF Next, vars, confVars, conffile_reload, Free, ReadLine, ReadDone, conffile_check,
                  Verify, SetUp, Logging, writepid, Line, auth_clean, auth_dump, auth_text_dump,
                  Dumped, exit_handler, Edit, Tick
    <3> QED
      BY <3>1 DEF ConfInv
  <2> QED
    BY <2>1, <2>2, <2>3
<1>5. i' \in Nat
  <2>1. CASE ReadLine \/ ReadDone \/ Open \/ auth_text_dump \/ Dumped
    BY <2>1 DEF ReadLine, ReadDone, Open, auth_text_dump, Dumped, ConfInv
  <2>2. CASE ~(ReadLine \/ ReadDone \/ Open \/ auth_text_dump \/ Dumped)
    <3>1. i' = i
      BY <2>2 DEF Next, vars, confVars, conffile_reload, Free, conffile_check, Servers,
                  Verify, SetUp, Logging, writepid, Line, auth_clean, auth_dump, exit_handler, Edit, Tick
    <3> QED
      BY <3>1 DEF ConfInv
  <2> QED
    BY <2>1, <2>2
<1>6. pc' \in Points
  <2> USE DEF ConfInv, Points, ReloadPoints, Goto, Die, Fail
  <2>1. CASE UNCHANGED pc
    BY <2>1
  <2>2. CASE conffile_reload \/ Free \/ Open \/ ReadDone \/ conffile_check \/ Verify
    BY <2>2 DEF conffile_reload, Free, Open, ReadDone, conffile_check, Verify
  <2>3. CASE Servers
    BY <2>3 DEF Servers
  <2>4. CASE SetUp \/ Logging \/ writepid \/ auth_dump \/ Dumped \/ exit_handler
    BY <2>4 DEF SetUp, Logging, writepid, auth_dump, Dumped, exit_handler, auth_exit, auth_init, opendb,
                auth_write_text, logger_init, auth_db_dump
  <2>5. CASE \E l \in LogLines : Line(l)
    BY <2>5 DEF Line, auth_add, auth_db_add, auth_text_add, auth_write_text
  <2>6. CASE auth_clean
    BY <2>6 DEF auth_clean, auth_text_clean, auth_db_clean, auth_write_text
  <2>7. CASE UNCHANGED vars \/ ReadLine \/ auth_text_dump \/ Edit \/ Tick
    BY <2>1, <2>7 DEF vars, mainVars, ReadLine, auth_text_dump, Edit, Tick
  <2> QED
    BY <2>2, <2>3, <2>4, <2>5, <2>6, <2>7 DEF Next
<1> QED
  BY <1>1, <1>2, <1>3, <1>4, <1>5, <1>6 DEF ConfInv

LEMMA Invariant == Spec => []ConfInv
  BY ConfInit, ConfStep, PTL DEF Spec

-----------------------------------------------------------------------------
(* What follows from it.                                                   *)

\* While exact serves, the table is the file, and what conffile_check looks for is
\* in it.
LEMMA TableIsFile ==
  ASSUME ConfInv, pc \in {"loop", "dump"}
  PROVE  ParametersAreTheFile
<1>1. Table /\ pc \in Settled /\ pc \in Points \ {"exited"} /\ i \in Nat
  BY DEF ConfInv, Settled
<1>2. ~Missing /\ conffile_param("authtype") \in {"db", "text"}
  BY DEF ConfInv, Checked, Settled
<1>3. \A name \in Needed \cup NeededNumbers : conffile_param(name) # NULL
  BY <1>2 DEF Missing, required_s, required_i, Needed, NeededNumbers
<1>4. \A name \in Needed \cup NeededNumbers \cup {"authtype"} : name \notin {"order", "match"}
  BY DEF Needed, NeededNumbers
<1>5. \A name \in Needed \cup NeededNumbers : conffile_param(name) = Declared(read.conf, name)
  BY <1>1, <1>3, <1>4, PresentIsDeclared
<1>6. \A name \in NeededNumbers : atoi(Declared(read.conf, name)) # 0
  <2>1. \A name \in NeededNumbers : atoi(conffile_param(name)) # 0
    BY <1>2 DEF Missing, conffile_param_int, required_i, NeededNumbers
  <2> QED
    BY <2>1, <1>5
<1>7. Declared(read.conf, "authtype") \in {"db", "text"}
  <2>1. conffile_param("authtype") # NULL
    BY <1>2, ExactNullOK
  <2> QED
    BY <2>1, <1>1, <1>2, <1>4, PresentIsDeclared
<1>8. Filled(read)
  BY <1>3, <1>5, <1>6, <1>7 DEF Filled
<1>9. ASSUME NEW k \in DOMAIN read.conf
      PROVE  conffile_param(read.conf[k].name) = Declared(read.conf, read.conf[k].name)
  BY <1>1, DeclaredIsPresent
<1> QED
  BY <1>8, <1>9 DEF ParametersAreTheFile

\* Once exact serves, after however many reloads and edits, every parameter is what
\* the file read last says, and the six names and three numbers that conffile_check
\* looks for are there.  Nothing is claimed of authtemp, logging and logfile.
THEOREM FileGoverns == Spec => []ParametersAreTheFile
<1>1. ConfInv => ParametersAreTheFile
  BY TableIsFile DEF ParametersAreTheFile
<1> QED
  BY <1>1, Invariant, PTL

LEMMA WriteStep ==
  ASSUME ConfInv, pc # "exited", NEW hosts, NEW point, auth_write_text(hosts, point),
         NEW p \in Paths, relay'[p] # relay[p]
  PROVE  p = Declared(read.conf, "authfile")
<1>1. p = conffile_param("authfile") /\ conffile_param("authfile") # NULL
  BY DEF auth_write_text, ConfInv
<1> QED
  BY <1>1, PresentIsDeclared DEF ConfInv

LEMMA PublishStep ==
  ASSUME ConfInv, [Next]_vars, NEW p \in Paths, relay'[p] # relay[p]
  PROVE  p = Declared(read.conf, "authfile")
<1>1. CASE SetUp
  <2>1. pc # "exited"
    BY <1>1 DEF SetUp
  <2>2. CASE UsesDb /\ opendb
    <3>1. p = conffile_param("authfile") /\ conffile_param("authfile") # NULL
      BY <2>2, ExactNullOK DEF opendb, ConfInv
    <3> QED
      BY <2>1, <3>1, PresentIsDeclared DEF ConfInv
  <2> QED
    BY <1>1, <2>1, <2>2, WriteStep DEF SetUp, auth_init
<1>2. ASSUME NEW l \in LogLines, Line(l) PROVE p = Declared(read.conf, "authfile")
  BY <1>2, WriteStep DEF Line, auth_add, auth_db_add, auth_text_add
<1>3. CASE auth_clean
  <2>1. pc # "exited"
    BY <1>3, ExactConstantsOK DEF auth_clean, Delivered, ReloadPoints
  <2> QED
    BY <1>3, <2>1, WriteStep DEF auth_clean, auth_db_clean, auth_text_clean
<1>4. CASE exit_handler
  <2>1. pc # "exited"
    BY <1>4, ExactConstantsOK DEF exit_handler, Delivered, ReloadPoints
  <2>2. p = conffile_param("authfile") /\ conffile_param("authfile") # NULL
    BY <1>4, ExactConstantsOK, ExactNullOK DEF exit_handler
  <2> QED
    BY <2>1, <2>2, PresentIsDeclared DEF ConfInv
<1>5. relay' # relay
  OBVIOUS
<1> QED
  BY <1>1, <1>2, <1>3, <1>4, <1>5
     DEF Next, vars, serviceVars, conffile_reload, Free, Open, ReadLine, ReadDone, conffile_check, Servers,
         Verify, Logging, writepid, auth_dump, auth_text_dump, Dumped, Edit, Tick

\* Whatever step touches a relay file touches the one that the file read last names,
\* amid a reload too.
THEOREM PublishesThere == Spec => PublishesWhereItSays
<1>1. ConfInv /\ [Next]_vars =>
        [\A p \in Paths : relay'[p] # relay[p] => p = Declared(read.conf, "authfile")]_vars
  BY PublishStep
<1> QED
  BY <1>1, Invariant, PTL DEF Spec, PublishesWhereItSays

LEMMA TimeoutStep ==
  ASSUME ConfInv, [Next]_vars, NEW h \in Names, table[h] # Never, table'[h] = Never
  PROVE  now - table[h] >= atoi(Declared(read.conf, "timeout"))
<1>1. ASSUME NEW l \in LogLines, Line(l) PROVE FALSE
  <2>1. table' = table \/ \E x : table' = [table EXCEPT ![x] = now]
    BY <1>1 DEF Line, auth_add, auth_db_add, auth_text_add
  <2> QED
    BY <2>1 DEF ConfInv, Never
<1>2. CASE auth_clean
  <2>1. pc # "exited"
    BY <1>2, ExactConstantsOK DEF auth_clean, Delivered, ReloadPoints
  <2>2. auth_text_clean /\ conffile_param("timeout") # NULL
    BY <1>2 DEF auth_clean, auth_db_clean
  <2>3. h \in TextExpired(conffile_param_int("timeout"))
    BY <2>2 DEF auth_text_clean
  <2>4. conffile_param("timeout") = Declared(read.conf, "timeout")
    BY <2>1, <2>2, PresentIsDeclared DEF ConfInv
  <2> QED
    BY <2>3, <2>4 DEF TextExpired, conffile_param_int
<1>3. table' # table
  OBVIOUS
<1> QED
  BY <1>1, <1>2, <1>3
     DEF Next, vars, serviceVars, conffile_reload, Free, Open, ReadLine, ReadDone, conffile_check, Servers,
         Verify, SetUp, Logging, writepid, auth_dump, auth_text_dump, Dumped, exit_handler, Edit, Tick

\* No clean, amid a reload or not, drops a host before the time that the file read
\* last gives it.
THEOREM TimeoutIsTheFiles == Spec => TimeoutAsConfigured
<1>1. ConfInv /\ [Next]_vars =>
        [\A h \in Names : table[h] # Never /\ table'[h] = Never =>
           now - table[h] >= atoi(Declared(read.conf, "timeout"))]_vars
  BY TimeoutStep
<1> QED
  BY <1>1, Invariant, PTL DEF Spec, TimeoutAsConfigured

-----------------------------------------------------------------------------
(* The table is made of one file.                                          *)

LEMMA OneFileStep ==
  ASSUME ConfInv, ConfInv', TableOfOneFile, [Next]_vars
  PROVE  TableOfOneFile'
<1>1. CASE pc' = "exited"
  <2>1. param' = param /\ read'.conf = read.conf
    <3>1. CASE Servers
      BY <1>1, <3>1 DEF Servers, Goto, ConfInv
    <3>2. CASE ~Servers
      BY <1>1, <3>2 DEF Next, vars, confVars, mainVars, conffile_reload, Free, Open, ReadLine, ReadDone,
                    conffile_check, Verify, SetUp, Logging, writepid, Line, auth_clean, auth_dump,
                    auth_text_dump, Dumped, exit_handler, Edit, Tick, Goto
    <3> QED
      BY <3>1, <3>2
  <2> QED
    BY <2>1 DEF TableOfOneFile
<1>2. CASE pc' = "open"
  BY <1>2 DEF ConfInv, Table, TableOfOneFile
<1>3. CASE pc' \in Points \ {"open", "exited"}
  <2>1. /\ param' \in Seq(Range(param')) /\ read'.conf \in Seq(Range(read'.conf))
        /\ \A k \in 1..Len(param') : k <= Len(read'.conf) => param'[k] = Entry(read'.conf[k])
    BY <1>3 DEF ConfInv, Table
  <2>2. DOMAIN param' = 1..Len(param') /\ Len(param') \in Nat /\ Len(read'.conf) \in Nat
    BY <2>1
  <2>3. \/ Len(param') <= Len(read'.conf)
        \/ Len(param') = Len(read'.conf)
        \/ Len(param') = Len(read'.conf) + 2
    BY <1>3 DEF ConfInv, Table, Points, ReloadPoints, Settled
  <2>4. Len(param') <= Len(read'.conf) + 2
    <3> DEFINE m == Len(param')
               l == Len(read'.conf)
    <3>1. m \in Nat /\ l \in Nat /\ (m <= l \/ m = l \/ m = l + 2)
      BY <2>2, <2>3
    <3> HIDE DEF m, l
    <3>2. m <= l + 2
      BY <3>1
    <3> QED
      BY <3>2 DEF m, l
  <2> QED
    BY <2>1, <2>2, <2>4 DEF TableOfOneFile
<1> QED
  BY <1>1, <1>2, <1>3 DEF ConfInv

\* However many lines the files have and however often they are read, the table is
\* the lines of one of them, as far as they have been read, and at most two entries
\* more.
THEOREM TableKept == Spec => []TableOfOneFile
<1>1. Init => TableOfOneFile
  BY DEF Init, TableOfOneFile
<1>2. ConfInv /\ ConfInv' /\ TableOfOneFile /\ [Next]_vars => TableOfOneFile'
  BY OneFileStep
<1> QED
  BY <1>1, <1>2, Invariant, PTL DEF Spec

-----------------------------------------------------------------------------
(* Only hosts are let through.                                             *)

\* What is cut of a name is its beginning, all of it or as much as fits.
LEMMA CutIsPrefix ==
  ASSUME NEW name \in Seq(Nat)
  PROVE  /\ IsPrefix(Cut(name), name)
         /\ Cut(name) = name \/ Len(Cut(name)) = MATCH_LOGIN_MAX
<1>1. CASE Len(name) < MATCH_LOGIN_MAX
  <2>1. Cut(name) = SubSeq(name, 1, Len(name))
    BY <1>1 DEF Cut
  <2>2. SubSeq(name, 1, Len(name)) = name
    OBVIOUS
  <2> QED
    BY <2>1, <2>2 DEF IsPrefix
<1>2. CASE ~(Len(name) < MATCH_LOGIN_MAX)
  <2>1. Cut(name) = SubSeq(name, 1, MATCH_LOGIN_MAX) /\ MATCH_LOGIN_MAX \in 1..Len(name)
    BY <1>2, MatchLoginMaxOK DEF Cut
  <2>2. Len(Cut(name)) = MATCH_LOGIN_MAX /\ Cut(name) \in Seq(Nat)
    BY <2>1
  <2>3. SubSeq(Cut(name), 1, MATCH_LOGIN_MAX) = Cut(name)
    BY <2>2
  <2> QED
    BY <2>1, <2>2, <2>3 DEF IsPrefix
<1> QED
  BY <1>1, <1>2

\* If order fits the expression, the group taken for the host holds it.
LEMMA HostIsHost ==
  ASSUME NEW l \in LogLines, patbuf = l.by, OrderFits
  PROVE  Matched(l).hostname = Cut(l.host)
<1> DEFINE r == [k \in 2..3 |-> l[Captures[patbuf][k - 1]]]
           order == conffile_param("order")
<1>1. Captures[patbuf] \in {<<"user", "host">>, <<"host", "user">>}
  BY ExactConstantsOK
<1>2. r[Positions(order).hostname] = l.host
  <2>1. CASE order = "username,address"
    <3>1. Captures[patbuf] = <<"user", "host">> /\ Positions(order).hostname = 3
      BY <2>1 DEF OrderFits, Positions
    <3>2. r[3] = l["host"]
      BY <3>1
    <3> QED
      BY <3>1, <3>2
  <2>2. CASE order # "username,address"
    <3>1. Captures[patbuf] = <<"host", "user">> /\ Positions(order).hostname = 2
      BY <1>1, <2>2 DEF OrderFits, Positions
    <3>2. r[2] = l["host"]
      BY <3>1
    <3> QED
      BY <3>1, <3>2
  <2> QED
    BY <2>1, <2>2
<1>3. Matched(l).hostname = Cut(r[Positions(order).hostname])
  BY DEF Matched, match_line
<1> QED
  BY <1>2, <1>3

LEMMA HostsStep ==
  ASSUME ConfInv, [Next]_vars, NEW h \in Names, table'[h] # table[h], table'[h] # Never, OrderFits
  PROVE  \E l \in LogLines :
           /\ l.by = patbuf
           /\ IsPrefix(h, l.host)
           /\ h = l.host \/ Len(h) = MATCH_LOGIN_MAX
<1>1. ASSUME NEW l \in LogLines, Line(l) PROVE l.by = patbuf /\ h = Cut(l.host)
  <2>1. table' # table
    OBVIOUS
  <2>2. patbuf = l.by /\ table' = [table EXCEPT ![Matched(l).hostname] = now]
    BY <1>1, <2>1 DEF Line, auth_add, auth_db_add, auth_text_add
  <2>3. h = Matched(l).hostname
    BY <2>2 DEF ConfInv
  <2> QED
    BY <2>2, <2>3, HostIsHost
<1>2. CASE auth_clean
  <2>1. auth_text_clean
    BY <1>2 DEF auth_clean, auth_db_clean
  <2> QED
    BY <2>1 DEF auth_text_clean
<1>3. CASE \E l \in LogLines : Line(l)
  <2>1. PICK l \in LogLines : Line(l)
    BY <1>3
  <2>2. l.by = patbuf /\ h = Cut(l.host)
    BY <2>1, <1>1
  <2>3. l.host \in Seq(Nat)
    BY ExactConstantsOK DEF Character
  <2> QED
    BY <2>2, <2>3, CutIsPrefix
<1>4. table' # table
  OBVIOUS
<1> QED
  BY <1>2, <1>3, <1>4
     DEF Next, vars, serviceVars, conffile_reload, Free, Open, ReadLine, ReadDone, conffile_check, Servers,
         Verify, SetUp, Logging, writepid, auth_dump, auth_text_dump, Dumped, exit_handler, Edit, Tick

\* Whatever is let through is the host of a line of the mail log, as much of it as
\* fits, and no user's name, as long as order fits the expression compiled.
THEOREM OnlyHosts == Spec => HostsOnly
<1>1. ConfInv /\ [Next]_vars =>
        [\A h \in Names : table'[h] # table[h] /\ table'[h] # Never /\ OrderFits =>
           \E l \in LogLines :
             /\ l.by = patbuf
             /\ IsPrefix(h, l.host)
             /\ h = l.host \/ Len(h) = MATCH_LOGIN_MAX]_vars
  BY HostsStep
<1> QED
  BY <1>1, Invariant, PTL DEF Spec, HostsOnly

-----------------------------------------------------------------------------
(* The order of names.                                                     *)

LEMMA CharIs ==
  ASSUME NEW a \in Seq(Character), NEW k \in Nat \ {0}
  PROVE  /\ CharAt(a, k) \in Nat
         /\ CharAt(a, k) = 0 <=> k > Len(a)
         /\ k <= Len(a) => CharAt(a, k) = a[k]
  BY DEF CharAt, Character

\* The first place where two names differ may be any: what lies behind an end is 0.
LEMMA BeforeIs ==
  ASSUME NEW a \in Seq(Character), NEW b \in Seq(Character)
  PROVE  Before(a, b) <=>
           \E k \in Nat \ {0} : CharAt(a, k) < CharAt(b, k) /\ \A j \in 1..(k - 1) : CharAt(a, j) = CharAt(b, j)
<1>1. ASSUME NEW k \in Nat \ {0}, CharAt(a, k) < CharAt(b, k) PROVE k \in 1..Len(b)
  <2>1. CharAt(a, k) \in Nat /\ CharAt(b, k) \in Nat
    BY CharIs
  <2>2. CharAt(b, k) # 0
    BY <1>1, <2>1
  <2>3. ~(k > Len(b))
    BY <2>2, CharIs
  <2> QED
    BY <2>3
<1> QED
  BY <1>1 DEF Before

LEMMA BeforeIrreflexive ==
  ASSUME NEW a \in Seq(Character)
  PROVE  ~Before(a, a)
<1>1. \A k \in Nat \ {0} : CharAt(a, k) \in Nat
  BY CharIs
<1> QED
  BY <1>1, BeforeIs

LEMMA BeforeTransitive ==
  ASSUME NEW a \in Seq(Character), NEW b \in Seq(Character), NEW c \in Seq(Character),
         Before(a, b), Before(b, c)
  PROVE  Before(a, c)
<1>1. \A k \in Nat \ {0} : CharAt(a, k) \in Nat /\ CharAt(b, k) \in Nat /\ CharAt(c, k) \in Nat
  BY CharIs
<1>2. PICK k \in Nat \ {0} : CharAt(a, k) < CharAt(b, k) /\ \A j \in 1..(k - 1) : CharAt(a, j) = CharAt(b, j)
  BY BeforeIs
<1>3. PICK m \in Nat \ {0} : CharAt(b, m) < CharAt(c, m) /\ \A j \in 1..(m - 1) : CharAt(b, j) = CharAt(c, j)
  BY BeforeIs
<1>4. ASSUME NEW x \in Nat \ {0}, x <= k, x <= m, x = k \/ x = m
      PROVE  Before(a, c)
  <2>1. \A j \in 1..(x - 1) : CharAt(a, j) = CharAt(c, j)
    <3> SUFFICES ASSUME NEW j \in 1..(x - 1) PROVE CharAt(a, j) = CharAt(c, j)
      OBVIOUS
    <3>1. j \in 1..(k - 1) /\ j \in 1..(m - 1)
      BY <1>4
    <3> QED
      BY <1>2, <1>3, <3>1
  <2>2. CharAt(a, x) < CharAt(c, x)
    <3>1. CASE k < m
      <4>1. x = k /\ k \in 1..(m - 1)
        BY <1>4, <3>1
      <4> QED
        BY <1>2, <1>3, <4>1
    <3>2. CASE m < k
      <4>1. x = m /\ m \in 1..(k - 1)
        BY <1>4, <3>2
      <4> QED
        BY <1>2, <1>3, <4>1
    <3>3. CASE k = m
      BY <1>1, <1>2, <1>3, <1>4, <3>3
    <3> QED
      BY <3>1, <3>2, <3>3
  <2> QED
    BY <2>1, <2>2, BeforeIs
<1>5. CASE k <= m
  BY <1>4, <1>5
<1>6. CASE m <= k
  BY <1>4, <1>6
<1> QED
  BY <1>5, <1>6

LEMMA BeforeTotal ==
  ASSUME NEW a \in Seq(Character), NEW b \in Seq(Character), ~Before(a, b), ~Before(b, a)
  PROVE  a = b
<1> DEFINE D == {k \in Nat \ {0} : CharAt(a, k) # CharAt(b, k)}
<1>1. \A k \in Nat \ {0} : CharAt(a, k) \in Nat /\ CharAt(b, k) \in Nat
  BY CharIs
<1>2. CASE D # {}
  <2>1. PICK d \in D : \A k \in D : d <= k
    <3>1. D \in SUBSET Nat
      OBVIOUS
    <3> HIDE DEF D
    <3> QED
      BY <1>2, <3>1, LeastOf
  <2>2. \A j \in 1..(d - 1) : CharAt(a, j) = CharAt(b, j)
    <3> SUFFICES ASSUME NEW j \in 1..(d - 1), CharAt(a, j) # CharAt(b, j) PROVE FALSE
      OBVIOUS
    <3>1. j \in D /\ j < d
      OBVIOUS
    <3>2. d <= j
      BY <2>1, <3>1
    <3> QED
      BY <3>1, <3>2
  <2>3. CharAt(a, d) < CharAt(b, d) \/ CharAt(b, d) < CharAt(a, d)
    BY <1>1
  <2> QED
    BY <2>2, <2>3, BeforeIs
<1>3. CASE D = {}
  <2>1. \A k \in Nat \ {0} : CharAt(a, k) = CharAt(b, k)
    BY <1>3
  <2>2. \A k \in Nat \ {0} : k > Len(a) <=> k > Len(b)
    BY <2>1, CharIs
  <2>3. Len(a) = Len(b)
    <3>1. Len(a) \in Nat /\ Len(b) \in Nat
      OBVIOUS
    <3>2. Len(a) + 1 > Len(b) /\ Len(b) + 1 > Len(a)
      BY <2>2, <3>1
    <3> QED
      BY <3>1, <3>2
  <2>4. \A k \in 1..Len(a) : a[k] = b[k]
    <3> SUFFICES ASSUME NEW k \in 1..Len(a) PROVE a[k] = b[k]
      OBVIOUS
    <3>1. CharAt(a, k) = CharAt(b, k) /\ CharAt(a, k) = a[k] /\ CharAt(b, k) = b[k]
      BY <2>1, <2>3, CharIs
    <3> QED
      BY <3>1
  <2> QED
    BY <2>3, <2>4
<1> QED
  BY <1>2, <1>3

-----------------------------------------------------------------------------
(* The dump.                                                               *)

\* The name of rank i is behind the i names dumped so far, some of which may be gone:
\* otherwise it and all before it were among those dumped and those missed.
LEMMA NextIsBehind ==
  ASSUME NEW K \in SUBSET Seq(Character), IsFiniteSet(K),
         NEW D \in SUBSET Seq(Character), IsFiniteSet(D),
         NEW last \in D, \A d \in D : d = last \/ Before(d, last),
         Cardinality({g \in K \ D : Before(g, last)}) <= Cardinality(D \ K),
         NEW h \in K, Cardinality({g \in K : Before(g, h)}) = Cardinality(D)
  PROVE  Before(last, h)
<1> DEFINE missed == {g \in K \ D : Before(g, last)}
           ahead == {g \in K : Before(g, h)}
<1> SUFFICES ASSUME ~Before(last, h) PROVE FALSE
  OBVIOUS
<1>1. h = last \/ Before(h, last)
  BY BeforeTotal
<1>2. ahead \cup {h} \subseteq (D \cap K) \cup missed
  <2> SUFFICES ASSUME NEW g \in K, g = h \/ Before(g, h) PROVE g \in D \/ Before(g, last)
    OBVIOUS
  <2>1. CASE h = last
    BY <2>1
  <2>2. CASE Before(h, last)
    BY <2>2, BeforeTransitive
  <2> QED
    BY <1>1, <2>1, <2>2
<1>3. /\ IsFiniteSet(ahead) /\ IsFiniteSet(missed) /\ IsFiniteSet(D \cap K) /\ IsFiniteSet(D \ K)
      /\ Cardinality(D \ K) = Cardinality(D) - Cardinality(D \cap K)
  <2>1. ahead \in SUBSET K /\ missed \in SUBSET K
    OBVIOUS
  <2> QED
    BY <2>1, FS_Subset, FS_Intersection, FS_Difference
<1>4. h \notin ahead
  BY BeforeIrreflexive
<1>5. Cardinality(missed) <= Cardinality(D \ K) /\ Cardinality(ahead) = Cardinality(D)
  OBVIOUS
<1> HIDE DEF ahead, missed
<1>6. Cardinality(ahead \cup {h}) = Cardinality(ahead) + 1
  BY <1>3, <1>4, FS_AddElement
<1>7. (D \cap K) \cap missed \in SUBSET missed /\ IsFiniteSet((D \cap K) \cap missed)
  BY <1>3, FS_Intersection
<1>8. Cardinality((D \cap K) \cup missed) <= Cardinality(D \cap K) + Cardinality(missed)
  <2>1. Cardinality((D \cap K) \cup missed) =
          Cardinality(D \cap K) + Cardinality(missed) - Cardinality((D \cap K) \cap missed)
    BY <1>3, FS_Union
  <2>2. Cardinality((D \cap K) \cap missed) \in Nat /\ Cardinality(D \cap K) \in Nat /\ Cardinality(missed) \in Nat
    BY <1>3, <1>7, FS_CardinalityType
  <2> QED
    BY <2>1, <2>2
<1>9. Cardinality(ahead \cup {h}) <= Cardinality((D \cap K) \cup missed)
  <2>1. IsFiniteSet((D \cap K) \cup missed)
    BY <1>3, FS_Union
  <2> QED
    BY <1>2, <2>1, FS_Subset
<1>10. Cardinality(D) \in Nat /\ Cardinality(D \cap K) \in Nat /\ Cardinality(missed) \in Nat
  BY <1>3, FS_CardinalityType
<1>11. Cardinality(D) + 1 <= Cardinality((D \cap K) \cup missed)
  BY <1>5, <1>6, <1>9
<1>12. IsFiniteSet((D \cap K) \cup missed)
  BY <1>3, FS_Union
<1>13. Cardinality((D \cap K) \cup missed) \in Nat
  BY <1>12, FS_CardinalityType
<1> QED
  BY <1>3, <1>5, <1>8, <1>10, <1>11, <1>13

\* Of the names before that one, as many are missed as dumped ones are gone.
LEMMA MissesOneForOne ==
  ASSUME NEW K \in SUBSET Seq(Character), IsFiniteSet(K),
         NEW D \in SUBSET Seq(Character), IsFiniteSet(D),
         NEW h \in K, Cardinality({g \in K : Before(g, h)}) = Cardinality(D),
         \A d \in D : Before(d, h)
  PROVE  Cardinality({g \in K \ (D \cup {h}) : Before(g, h)}) <= Cardinality((D \cup {h}) \ K)
<1> DEFINE missed == {g \in K \ (D \cup {h}) : Before(g, h)}
           ahead == {g \in K : Before(g, h)}
<1>1. (D \cup {h}) \ K = D \ K
  OBVIOUS
<1>2. ahead = (D \cap K) \cup missed /\ (D \cap K) \cap missed = {}
  BY BeforeIrreflexive
<1>3. /\ IsFiniteSet(missed) /\ IsFiniteSet(D \cap K)
      /\ Cardinality(D \ K) = Cardinality(D) - Cardinality(D \cap K)
  <2>1. missed \in SUBSET K
    OBVIOUS
  <2> QED
    BY <2>1, FS_Subset, FS_Intersection, FS_Difference
<1>4. Cardinality(ahead) = Cardinality(D)
  OBVIOUS
<1> HIDE DEF ahead, missed
<1>5. Cardinality(ahead) = Cardinality(D \cap K) + Cardinality(missed)
  <2>1. Cardinality((D \cap K) \cup missed) =
          Cardinality(D \cap K) + Cardinality(missed) - Cardinality((D \cap K) \cap missed)
    BY <1>3, FS_Union
  <2>2. Cardinality((D \cap K) \cap missed) = 0
    BY <1>2, FS_EmptySet
  <2>3. Cardinality(D \cap K) \in Nat /\ Cardinality(missed) \in Nat
    BY <1>3, FS_CardinalityType
  <2> QED
    BY <1>2, <2>1, <2>2, <2>3
<1>6. Cardinality(D) \in Nat /\ Cardinality(D \cap K) \in Nat /\ Cardinality(missed) \in Nat
  BY <1>3, FS_CardinalityType
<1>7. Cardinality(missed) <= Cardinality((D \cup {h}) \ K)
  <2>1. Cardinality((D \cup {h}) \ K) = Cardinality(D \ K)
    BY <1>1
  <2>2. Cardinality(missed) = Cardinality(D) - Cardinality(D \cap K)
    BY <1>4, <1>5, <1>6
  <2> QED
    BY <1>3, <1>6, <2>1, <2>2
<1> QED
  BY <1>7 DEF missed

\* What has been dumped, up to its last name.
Listed ==
  /\ IsFiniteSet(Known(table))
  /\ dump \in Seq(Names)
  /\ pc \in ({"check", "servers"} \cup Settled) \ {"dump"} => i = 0
  /\ pc \notin {"dump", "exited"} => dump = <<>>
  /\ pc = "dump" => i = Len(dump)
  /\ IsFiniteSet(ToSet(dump)) /\ \A h \in ToSet(dump) : h = Last(dump) \/ Before(h, Last(dump))
  /\ DumpMissesOneForOne

LEMMA NamesAreStrings == Names \in SUBSET Seq(Character)
<1>1. ASSUME NEW name \in Seq(Character) PROVE Cut(name) \in Seq(Character)
  BY MatchLoginMaxOK DEF Cut
<1>2. \A l \in LogLines : l.user \in Seq(Character) /\ l.host \in Seq(Character)
  BY ExactConstantsOK
<1> QED
  BY <1>1, <1>2 DEF Names

LEMMA DumpStep == ConfInv /\ Listed /\ auth_text_dump => Listed'
<1> SUFFICES ASSUME ConfInv, Listed, auth_text_dump PROVE Listed'
  OBVIOUS
<1> DEFINE K == Known(table)
           D == ToSet(dump)
<1>1. PICK h \in K : Rank(table, h) = i /\ dump' = Append(dump, h)
  BY DEF auth_text_dump
<1>2. pc = "dump" /\ pc' = "dump" /\ i' = i + 1 /\ table' = table /\ i = Len(dump) /\ dump \in Seq(Names)
  BY DEF auth_text_dump, mainVars, Listed
<1>3. K \in SUBSET Names /\ D \in SUBSET Names
  BY <1>2 DEF Known, ToSet
<1>4. K \in SUBSET Seq(Character) /\ D \in SUBSET Seq(Character) /\ h \in Names
  BY <1>3, NamesAreStrings
<1>5. IsFiniteSet(K) /\ IsFiniteSet(D) /\ Cardinality(D) = i
  BY <1>2 DEF Listed, DumpMissesOneForOne
<1>6. /\ dump' \in Seq(Names) /\ Len(dump') = i + 1 /\ dump'[i + 1] = h
      /\ \A k \in 1..i : dump'[k] = dump[k]
  BY <1>1, <1>2, <1>4
<1>7. ToSet(dump') = D \cup {h} /\ Last(dump') = h /\ dump' # <<>>
  <2>1. DOMAIN dump' = 1..(i + 1) /\ DOMAIN dump = 1..i /\ i \in Nat
    BY <1>2, <1>6
  <2>2. 1..(i + 1) = (1..i) \cup {i + 1}
    BY <2>1
  <2>3. ToSet(dump') = {dump'[k] : k \in (1..i) \cup {i + 1}}
    BY <2>1, <2>2 DEF ToSet
  <2>4. D = {dump[k] : k \in 1..i}
    BY <2>1 DEF ToSet
  <2> QED
    BY <1>6, <2>1, <2>3, <2>4 DEF Last
<1>8. Cardinality({g \in K : Before(g, h)}) = Cardinality(D)
  BY <1>1, <1>5 DEF Rank
<1>9. \A d \in D : Before(d, h)
  <2>1. CASE dump = <<>>
    BY <2>1 DEF ToSet
  <2>2. CASE dump # <<>>
    <3>1. Last(dump) \in D
      BY <1>2, <2>2 DEF Last, ToSet
    <3>2. \A d \in D : d = Last(dump) \/ Before(d, Last(dump))
      BY DEF Listed
    <3>3. Cardinality({g \in K \ D : Before(g, Last(dump))}) <= Cardinality(D \ K)
      BY <1>2, <2>2 DEF Listed, DumpMissesOneForOne
    <3>4. Before(Last(dump), h)
      BY <1>1, <1>4, <1>5, <1>8, <3>1, <3>2, <3>3, NextIsBehind
    <3> QED
      BY <1>4, <3>1, <3>2, <3>4, BeforeTransitive
  <2> QED
    BY <2>1, <2>2
<1>10. Cardinality({g \in K \ (D \cup {h}) : Before(g, h)}) <= Cardinality((D \cup {h}) \ K)
  BY <1>1, <1>4, <1>5, <1>8, <1>9, MissesOneForOne
<1>11. IsFiniteSet(D \cup {h}) /\ Cardinality(D \cup {h}) = i + 1
  <2>1. h \notin D
    BY <1>4, <1>9, BeforeIrreflexive
  <2> QED
    BY <1>5, <2>1, FS_AddElement
<1>12. DumpMissesOneForOne'
  <2>1. K = Known(table')
    BY <1>2
  <2> QED
    BY <1>2, <1>6, <1>7, <1>10, <1>11, <2>1 DEF DumpMissesOneForOne
<1>13. \A g \in ToSet(dump') : g = Last(dump') \/ Before(g, Last(dump'))
  BY <1>7, <1>9
<1>14. IsFiniteSet(Known(table'))
  BY <1>2, <1>5
<1> QED
  BY <1>2, <1>6, <1>7, <1>11, <1>12, <1>13, <1>14 DEF Listed

\* Names that go in the middle of a dump are not missed; those dumped that go are counted.
LEMMA CleanKeepsListed ==
  ASSUME ConfInv, Listed, dump' = dump, pc' = pc, i' = i,
         Known(table') \subseteq Known(table)
  PROVE  Listed'
<1> DEFINE D == ToSet(dump)
           X == {h \in Known(table) \ D : Before(h, Last(dump))}
           Y == {h \in Known(table') \ D : Before(h, Last(dump))}
<1>1. IsFiniteSet(Known(table)) /\ IsFiniteSet(D)
  BY DEF Listed
<1>2. IsFiniteSet(Known(table'))
  BY <1>1, FS_Subset
<1>3. Cardinality(Y) <= Cardinality(X)
  <2>1. X \in SUBSET Known(table) /\ Y \in SUBSET X
    OBVIOUS
  <2> HIDE DEF X, Y
  <2> QED
    BY <1>1, <2>1, FS_Subset
<1>4. Cardinality(D \ Known(table)) <= Cardinality(D \ Known(table'))
  <2>1. IsFiniteSet(D \ Known(table'))
    BY <1>1, FS_Difference
  <2>2. D \ Known(table) \in SUBSET (D \ Known(table'))
    OBVIOUS
  <2> QED
    BY <2>1, <2>2, FS_Subset
<1>5. /\ Cardinality(X) \in Nat /\ Cardinality(Y) \in Nat
      /\ Cardinality(D \ Known(table)) \in Nat /\ Cardinality(D \ Known(table')) \in Nat
  <2>1. X \in SUBSET Known(table) /\ Y \in SUBSET Known(table')
        /\ D \ Known(table) \in SUBSET D /\ D \ Known(table') \in SUBSET D
    OBVIOUS
  <2> HIDE DEF X, Y
  <2> QED
    BY <1>1, <1>2, <2>1, FS_Subset, FS_CardinalityType
<1>6. pc = "dump" /\ dump # <<>> => Cardinality(X) <= Cardinality(D \ Known(table))
  BY DEF Listed, DumpMissesOneForOne
<1>7. pc = "dump" /\ dump # <<>> => Cardinality(Y) <= Cardinality(D \ Known(table'))
  BY <1>3, <1>4, <1>5, <1>6
<1>8. DumpMissesOneForOne'
  BY <1>7 DEF Listed, DumpMissesOneForOne
<1> QED
  BY <1>2, <1>8 DEF Listed

\* Where nothing is being dumped, only the table and the index matter.
LEMMA Idle ==
  ASSUME Listed, UNCHANGED dump, IsFiniteSet(Known(table')), pc' # "dump",
         pc' = "exited" \/ dump = <<>>,
         pc' \in {"check", "servers"} \cup Settled => i' = 0
  PROVE  Listed'
  BY DEF Listed, DumpMissesOneForOne

LEMMA AddFinite ==
  ASSUME table \in [Names -> Nat], IsFiniteSet(Known(table)), NEW h, auth_text_add(h)
  PROVE  IsFiniteSet(Known(table'))
<1>1. IsFiniteSet(Known(table) \cup {h})
  BY FS_AddElement
<1>2. Known(table') \subseteq Known(table) \cup {h}
  BY DEF auth_text_add, Known
<1> QED
  BY <1>1, <1>2, FS_Subset

LEMMA ListedStep == ConfInv /\ Listed /\ [Next]_vars => Listed'
<1> SUFFICES ASSUME ConfInv, Listed, [Next]_vars PROVE Listed'
  OBVIOUS
<1>1. CASE UNCHANGED <<table, dump, pc, i>>
  <2>1. Known(table') = Known(table)
    BY <1>1
  <2> QED
    BY <1>1, <2>1, CleanKeepsListed
<1>2. CASE auth_text_dump
  BY <1>2, DumpStep
<1>3. CASE UNCHANGED <<table, dump>> /\ pc' = "exited"
  <2>1. IsFiniteSet(Known(table'))
    BY <1>3 DEF Listed
  <2> QED
    BY <1>3, <2>1, Idle DEF Settled
<1>4. CASE conffile_reload \/ Free \/ Open \/ ReadDone \/ conffile_check \/ Servers \/ Verify
           \/ SetUp \/ Logging \/ writepid
  <2>1. UNCHANGED <<table, dump>> /\ pc \notin {"dump", "exited"}
    BY <1>4 DEF conffile_reload, Free, Open, ReadDone, conffile_check, Servers, Verify, SetUp, Logging, writepid,
                serviceVars
  <2>2. dump = <<>> /\ IsFiniteSet(Known(table'))
    BY <2>1 DEF Listed
  <2>3. pc' # "dump"
    BY <1>4 DEF conffile_reload, Free, Open, ReadDone, conffile_check, Servers, Verify, SetUp, Logging, writepid,
                Goto, Die, Fail, auth_init, opendb, auth_write_text, logger_init
  <2>4. pc' \in {"check", "servers"} \cup Settled => i' = 0
    <3>1. CASE Free \/ Open
      BY <3>1 DEF Free, Open, Goto, Die, Fail, Settled
    <3>2. CASE ReadDone
      BY <3>2 DEF ReadDone
    <3>3. CASE conffile_reload \/ conffile_check \/ Servers \/ Verify \/ SetUp \/ Logging \/ writepid
      <4>1. i' = i /\ pc \in ({"check", "servers"} \cup Settled) \ {"dump"}
        BY <3>3 DEF conffile_reload, conffile_check, Servers, Verify, SetUp, Logging, writepid, confVars, Settled
      <4> QED
        BY <4>1 DEF Listed
    <3> QED
      BY <1>4, <3>1, <3>2, <3>3
  <2> QED
    BY <2>1, <2>2, <2>3, <2>4, Idle
<1>5. CASE ReadLine
  <2>1. UNCHANGED <<table, dump>> /\ pc = "read" /\ pc' = "read"
    BY <1>5 DEF ReadLine, mainVars, serviceVars
  <2>2. dump = <<>> /\ IsFiniteSet(Known(table'))
    BY <2>1 DEF Listed
  <2> QED
    BY <2>1, <2>2, Idle DEF Settled
<1>6. ASSUME NEW l \in LogLines, Line(l) PROVE Listed'
  <2>1. UNCHANGED <<dump, i>> /\ pc = "loop" /\ i = 0 /\ dump = <<>>
    BY <1>6 DEF Line, confVars, Listed, Settled
  <2>2. pc' \in {"loop", "exited"}
    BY <1>6 DEF Line, Die, Fail, Goto, auth_add, auth_db_add, auth_text_add, auth_write_text
  <2>3. IsFiniteSet(Known(table'))
    <3>1. CASE UNCHANGED table
      BY <3>1 DEF Listed
    <3>2. CASE auth_text_add(Matched(l).hostname)
      BY <3>2, AddFinite DEF Listed, ConfInv
    <3> QED
      BY <1>6, <3>1, <3>2 DEF Line, auth_add, auth_db_add
  <2> QED
    BY <2>1, <2>2, <2>3, Idle
<1>7. CASE auth_clean
  <2>1. UNCHANGED <<dump, i>>
    BY <1>7 DEF auth_clean, confVars
  <2>2. pc' = pc \/ pc' = "exited"
    BY <1>7 DEF auth_clean, Goto, Die, Fail, auth_write_text, auth_text_clean, auth_db_clean
  <2>3. Known(table') \subseteq Known(table)
    <3>1. CASE UNCHANGED table
      BY <3>1
    <3>2. CASE auth_text_clean
      BY <3>2 DEF auth_text_clean, Known
    <3> QED
      BY <1>7, <3>1, <3>2 DEF auth_clean, auth_db_clean
  <2>4. IsFiniteSet(Known(table'))
    BY <2>3, FS_Subset DEF Listed
  <2>5. CASE pc' = pc
    BY <2>1, <2>3, <2>5, CleanKeepsListed
  <2>6. CASE pc' = "exited"
    BY <2>1, <2>4, <2>6, Idle DEF Settled
  <2> QED
    BY <2>2, <2>5, <2>6
<1>8. CASE auth_dump
  <2>1. UNCHANGED <<table, dump, i>> /\ pc = "loop" /\ i = 0 /\ dump = <<>>
    BY <1>8 DEF auth_dump, confVars, serviceVars, Listed, Settled
  <2>2. CASE pc' = "exited"
    BY <1>3, <2>1, <2>2
  <2>3. CASE pc' = "dump"
    BY <2>1, <2>3 DEF Listed, DumpMissesOneForOne
  <2> QED
    BY <1>8, <2>2, <2>3 DEF auth_dump, auth_db_dump, Goto, Die, Fail
<1>9. CASE Dumped
  <2>1. table' = table /\ pc' = "loop" /\ i' = 0 /\ dump' = <<>>
    BY <1>9 DEF Dumped, Goto
  <2>2. ToSet(dump') = {} /\ Len(dump') = 0
    BY <2>1 DEF ToSet
  <2>3. IsFiniteSet({}) /\ Cardinality({}) = 0
    BY FS_EmptySet
  <2>4. IsFiniteSet(Known(table')) /\ IsFiniteSet(ToSet(dump')) /\ Cardinality(ToSet(dump')) = Len(dump')
    BY <2>1, <2>2, <2>3 DEF Listed
  <2>5. dump' \in Seq(Names) /\ DumpMissesOneForOne'
    BY <2>1, <2>4 DEF DumpMissesOneForOne
  <2> QED
    BY <2>1, <2>2, <2>4, <2>5 DEF Listed, Settled
<1>10. CASE exit_handler
  BY <1>3, <1>10 DEF exit_handler, auth_exit, Die, Fail
<1>11. CASE Edit \/ Tick \/ UNCHANGED vars
  BY <1>1, <1>11 DEF Edit, Tick, vars, confVars, mainVars, serviceVars
<1> QED
  BY <1>2, <1>4, <1>5, <1>6, <1>7, <1>8, <1>9, <1>10, <1>11 DEF Next

LEMMA ListedInvariant == Spec => []Listed
<1>1. Init => Listed
  <2> SUFFICES ASSUME Init PROVE Listed
    OBVIOUS
  <2>1. dump = <<>> /\ Known(table) = {} /\ pc = "open"
    BY DEF Init, Known, None
  <2>2. ToSet(dump) = {} /\ Len(dump) = 0
    BY <2>1 DEF ToSet
  <2>3. IsFiniteSet({}) /\ Cardinality({}) = 0
    BY FS_EmptySet
  <2>4. IsFiniteSet(Known(table)) /\ IsFiniteSet(ToSet(dump)) /\ Cardinality(ToSet(dump)) = Len(dump)
    BY <2>1, <2>2, <2>3
  <2>5. dump \in Seq(Names) /\ DumpMissesOneForOne
    BY <2>1, <2>4 DEF DumpMissesOneForOne
  <2> QED
    BY <2>1, <2>2, <2>4, <2>5 DEF Listed, Settled
<1>2. ConfInv /\ Listed /\ [Next]_vars => Listed'
  BY ListedStep
<1> QED
  BY <1>1, <1>2, Invariant, PTL DEF Spec

\* Whatever a clean does to the table in the middle of a dump, the dump lists nobody
\* twice and misses no more of those whose turn has been than it lists who have gone.
THEOREM DumpMisses == Spec => []DumpMissesOneForOne
<1>1. Listed => DumpMissesOneForOne
  BY DEF Listed
<1> QED
  BY <1>1, ListedInvariant, PTL

-----------------------------------------------------------------------------
(* Types.                                                                  *)

FileValues(file) == file # Absent => \A k \in DOMAIN file : file[k].value \in Values

\* The files are some of those there may be, as are those read.
Sourced ==
  /\ DefsOK(defs) /\ DefsOK(read.defs)
  /\ FileValues(conf) /\ FileValues(read.conf)
  /\ pc \notin {"open", "exited"} => read.conf # Absent

LEMMA ValuesOfFiles == \A files \in Boots \cup Edits : FileValues(files[1])
<1> SUFFICES ASSUME NEW files \in Boots \cup Edits, files[1] # Absent, NEW k \in DOMAIN files[1]
             PROVE  files[1][k].value \in Values
  BY DEF FileValues
<1>1. files \in {g \in Boots \cup Edits : g[1] # Absent} /\ files[1][k] \in Range(files[1])
  BY DEF Range
<1> QED
  BY <1>1 DEF Values

\* The steps that leave conf, defs and read alone are all but three.
LEMMA SourcedStep == ConfInv /\ Sourced /\ [Next]_vars => Sourced'
<1> SUFFICES ASSUME ConfInv, Sourced, [Next]_vars PROVE Sourced'
  OBVIOUS
<1>1. CASE Edit
  <2>1. PICK files \in Edits : conf' = files[1] /\ defs' = files[2]
    BY <1>1 DEF Edit
  <2>2. DefsOK(defs') /\ FileValues(conf')
    BY <2>1, ExactFilesOK, ValuesOfFiles
  <2> QED
    BY <1>1, <2>2 DEF Edit, confVars, mainVars, Sourced
<1>2. CASE Open
  <2>1. conf' = conf /\ defs' = defs
    BY <1>2 DEF Open, worldVars
  <2>2. CASE Openable
    <3>1. read' = [read EXCEPT !.conf = conf] /\ conf # Absent
      BY <1>2, <2>2 DEF Open, Openable
    <3>2. read'.conf = conf /\ read'.defs = read.defs
      BY <3>1 DEF ConfInv
    <3> QED
      BY <2>1, <3>1, <3>2 DEF Sourced
  <2>3. CASE ~Openable
    BY <1>2, <2>1, <2>3 DEF Open, Die, Fail, Sourced
  <2> QED
    BY <2>2, <2>3
<1>3. CASE Servers
  <2>1. conf' = conf /\ defs' = defs /\ read' = [read EXCEPT !.defs = defs] /\ pc = "servers"
    BY <1>3 DEF Servers, worldVars
  <2>2. read'.conf = read.conf /\ read'.defs = defs
    BY <2>1 DEF ConfInv
  <2> QED
    BY <2>1, <2>2 DEF Sourced
<1>4. CASE ~Edit /\ ~Open /\ ~Servers
  <2>1. UNCHANGED <<conf, defs, read>>
    BY <1>4 DEF Next, vars, worldVars, confVars, conffile_reload, Free, ReadLine, ReadDone, conffile_check, Verify,
                SetUp, Logging, writepid, Line, auth_clean, auth_dump, auth_text_dump, Dumped, exit_handler, Tick
  <2>2. pc \in {"open", "exited"} => pc' \in {"open", "exited"}
    BY <1>4, ExactConstantsOK
       DEF Next, vars, mainVars, conffile_reload, Free, ReadLine, ReadDone, conffile_check, Verify,
           SetUp, Logging, writepid, Line, auth_clean, auth_dump, auth_text_dump, Dumped, exit_handler,
           Tick, Delivered, Goto, Die, Fail, auth_write_text, auth_text_clean, auth_db_clean, auth_exit
  <2> QED
    BY <2>1, <2>2 DEF Sourced
<1> QED
  BY <1>1, <1>2, <1>3, <1>4

\* A parameter that is there is a value of some file or a text of some definitions.
ParamValues == \A k \in DOMAIN param : param[k].value \in Values \cup Texts

LEMMA DefsTyped ==
  ASSUME NEW file, DefsOK(file), file # Absent
  PROVE  file \in DefsFile(Texts)
  BY DEF DefsOK, DefsFile

LEMMA ParamValuesStep ==
  ASSUME ConfInv, Sourced, ParamValues, s \in Sections(Texts), [Next]_vars
  PROVE  ParamValues' /\ s' \in Sections(Texts)
<1>1. CASE Free
  BY <1>1 DEF Free, Freed, ParamValues
<1>2. CASE ReadLine
  <2> DEFINE e == Entry(read.conf[i + 1])
  <2>1. /\ param' = Append(param, e) /\ s' = s /\ pc = "read"
        /\ i \in Nat /\ i < Len(read.conf)
    BY <1>2 DEF ReadLine, ConfInv
  <2>2. param \in Seq(Range(param)) /\ read.conf \in Seq(Range(read.conf))
    BY <2>1 DEF ConfInv, Table
  <2>3. i + 1 \in DOMAIN read.conf
    BY <2>1, <2>2
  <2>4. e.value \in Values
    BY <2>1, <2>3 DEF Sourced, FileValues, Entry
  <2> HIDE DEF e
  <2>5. DOMAIN param' = 1..(Len(param) + 1) /\ DOMAIN param = 1..Len(param) /\ Len(param) \in Nat
        /\ param'[Len(param) + 1] = e /\ \A k \in 1..Len(param) : param'[k] = param[k]
    BY <2>1, <2>2
  <2>6. \A k \in DOMAIN param' : k \in DOMAIN param \/ k = Len(param) + 1
    BY <2>5
  <2> QED
    BY <2>1, <2>4, <2>5, <2>6 DEF ParamValues
<1>3. CASE Servers /\ defs # Absent
  <2> DEFINE parse == apconf_read(defs, s)
             a == apconf_getsec(parse.sections, conffile_param("server"))
             x == LiteralEntry("order", a.order)
             y == LiteralEntry("match", a.match)
  <2>1. defs \in DefsFile(Texts)
    BY <1>3, DefsTyped DEF Sourced
  <2>2. parse \in Parses(Texts)
    BY <2>1, ReadType
  <2>3. s' = parse.s /\ s' \in Sections(Texts)
    BY <1>3, <2>2 DEF Servers, Parses
  <2>4. \/ UNCHANGED param
        \/ /\ parse.at = "top" /\ a # NULL /\ NULL \notin {a.order, a.match}
           /\ param' = param \o <<x, y>>
    BY <1>3 DEF Servers
  <2>5. CASE UNCHANGED param
    BY <2>3, <2>5 DEF ParamValues
  <2>6. CASE /\ parse.at = "top" /\ a # NULL /\ NULL \notin {a.order, a.match}
             /\ param' = param \o <<x, y>>
    <3>1. WellFormed(defs)
      BY <2>1, <2>6, AcceptsWellFormed
    <3>2. a \in Sections(Texts)
      <4>1. NULL \notin Sections(Texts)
        BY ExactNullOK
      <4>2. a \in Sections(Texts) \cup {NULL}
        BY <2>1, <3>1, <4>1, FindsWritten
      <4> QED
        BY <2>6, <4>2
    <3>3. a.order \in Texts /\ a.match \in Texts
      BY <2>6, <3>2 DEF Sections
    <3>4. x.value \in Texts /\ y.value \in Texts
      BY <3>3 DEF LiteralEntry
    <3>5. param \in Seq(Range(param)) /\ param' = param \o <<x, y>>
      BY <1>3, <2>6 DEF ConfInv, Table
    <3> HIDE DEF x, y
    <3>6. DOMAIN param' = 1..(Len(param) + 2) /\ DOMAIN param = 1..Len(param) /\ Len(param) \in Nat
          /\ param'[Len(param) + 1] = x /\ param'[Len(param) + 2] = y
          /\ \A k \in 1..Len(param) : param'[k] = param[k]
      BY <3>5
    <3>7. \A k \in DOMAIN param' : k \in DOMAIN param \/ k = Len(param) + 1 \/ k = Len(param) + 2
      BY <3>6
    <3> QED
      BY <2>3, <3>4, <3>6, <3>7 DEF ParamValues
  <2> QED
    BY <2>4, <2>5, <2>6
<1>4. CASE Servers /\ defs = Absent
  BY <1>4 DEF Servers, ParamValues
<1>5. CASE ~Free /\ ~ReadLine /\ ~Servers
  <2>1. UNCHANGED <<param, s>>
    BY <1>5 DEF Next, vars, confVars, conffile_reload, Open, ReadDone, conffile_check, Verify, SetUp, Logging,
                writepid, Line, auth_clean, auth_dump, auth_text_dump, Dumped, exit_handler, Edit, Tick
  <2> QED
    BY <2>1 DEF ParamValues
<1> QED
  BY <1>1, <1>2, <1>3, <1>4, <1>5

\* What the service's variables hold.
ServiceTypes ==
  /\ now \in 1..MaxNow
  /\ table \in [Names -> 0..MaxNow] /\ stored \in [Names -> 0..MaxNow]
  /\ relay \in [Paths -> (SUBSET Names) \cup {Absent, DbFile}]

LEMMA WriteTypes ==
  ASSUME ServiceTypes, NEW hosts \in SUBSET Names, NEW point, auth_write_text(hosts, point)
  PROVE  relay' \in [Paths -> (SUBSET Names) \cup {Absent, DbFile}]
<1> DEFINE R == (SUBSET Names) \cup {Absent, DbFile}
<1>1. hosts \in R /\ relay \in [Paths -> R]
  BY DEF ServiceTypes
<1> HIDE DEF R
<1>2. relay' \in [Paths -> R]
  BY <1>1 DEF auth_write_text
<1> QED
  BY <1>2 DEF R

LEMMA ServiceTypesStep == ServiceTypes /\ [Next]_vars => ServiceTypes'
<1> SUFFICES ASSUME ServiceTypes, [Next]_vars PROVE ServiceTypes'
  OBVIOUS
<1> DEFINE R == (SUBSET Names) \cup {Absent, DbFile}
<1>0. MaxNow \in Nat \ {0} /\ now \in 0..MaxNow
  BY ExactConstantsOK DEF ServiceTypes
<1>8. relay \in [Paths -> R] /\ DbFile \in R /\ Absent \in R
  <2>1. relay \in [Paths -> R]
    BY DEF ServiceTypes
  <2>2. DbFile \in R /\ Absent \in R
    OBVIOUS
  <2> QED
    BY <2>1, <2>2
<1>1. CASE UNCHANGED <<now, table, stored, relay>>
  BY <1>1 DEF ServiceTypes
<1>2. CASE SetUp
  <2>1. UNCHANGED <<now, table, stored>>
    BY <1>2 DEF SetUp
  <2>2. relay' \in [Paths -> R]
    <3>1. CASE auth_write_text({}, "logging")
      BY <3>1, WriteTypes
    <3>2. CASE UNCHANGED relay
      BY <3>2 DEF ServiceTypes
    <3>3. CASE relay' = [relay EXCEPT ![conffile_param("authfile")] = DbFile]
      <4> HIDE DEF R
      <4> QED
        BY <1>8, <3>3
    <3> QED
      BY <1>2, <3>1, <3>2, <3>3 DEF SetUp, auth_init, opendb
  <2> QED
    BY <2>1, <2>2 DEF ServiceTypes
<1>3. ASSUME NEW l \in LogLines, Line(l) PROVE ServiceTypes'
  <2> DEFINE h == Matched(l).hostname
  <2>1. now' = now
    BY <1>3 DEF Line
  <2>2. CASE UNCHANGED <<table, stored, relay>>
    BY <2>1, <2>2 DEF ServiceTypes
  <2>3. CASE auth_text_add(h)
    <3>1. table' = [table EXCEPT ![h] = now] /\ stored' = stored
      BY <2>3 DEF auth_text_add
    <3>2. Known(table') \in SUBSET Names
      BY DEF Known
    <3>3. relay' \in [Paths -> R]
      <4>1. CASE UNCHANGED relay
        BY <4>1 DEF ServiceTypes
      <4>2. CASE auth_write_text(Known(table'), "loop")
        BY <3>2, <4>2, WriteTypes
      <4> QED
        BY <2>3, <4>1, <4>2 DEF auth_text_add
    <3>4. table' \in [Names -> 0..MaxNow]
      BY <1>0, <3>1 DEF ServiceTypes
    <3> QED
      BY <2>1, <3>1, <3>3, <3>4 DEF ServiceTypes
  <2>4. CASE auth_db_add(h)
    <3>1. stored' = stored \/ stored' = [stored EXCEPT ![h] = now]
      BY <2>4 DEF auth_db_add
    <3>2. stored' \in [Names -> 0..MaxNow]
      BY <1>0, <3>1 DEF ServiceTypes
    <3> QED
      BY <2>1, <2>4, <3>2 DEF auth_db_add, ServiceTypes
  <2> QED
    BY <1>3, <2>2, <2>3, <2>4 DEF Line, auth_add
<1>4. CASE auth_clean
  <2>1. now' = now
    BY <1>4 DEF auth_clean
  <2>2. CASE UNCHANGED <<table, stored, relay>>
    BY <2>1, <2>2 DEF ServiceTypes
  <2>3. CASE auth_text_clean
    <3>1. table' = [h \in Names |-> IF h \in TextExpired(conffile_param_int("timeout")) THEN Never ELSE table[h]]
          /\ stored' = stored
      BY <2>3 DEF auth_text_clean
    <3>2. table' \in [Names -> 0..MaxNow]
      BY <1>0, <3>1 DEF ServiceTypes, Never
    <3>3. Known(table') \in SUBSET Names
      BY DEF Known
    <3>4. relay' \in [Paths -> R]
      BY <2>3, <3>3, WriteTypes DEF auth_text_clean
    <3> QED
      BY <2>1, <3>1, <3>2, <3>4 DEF ServiceTypes
  <2>4. CASE auth_db_clean
    <3>1. None \in [Names -> 0..MaxNow]
      BY <1>0 DEF None, Never
    <3>2. stored' = stored \/ stored' = None
      BY <2>4 DEF auth_db_clean
    <3> QED
      BY <2>1, <2>4, <3>1, <3>2 DEF auth_db_clean, ServiceTypes
  <2> QED
    BY <1>4, <2>2, <2>3, <2>4 DEF auth_clean
<1>5. CASE exit_handler
  <2>1. UNCHANGED <<now, table, stored>>
    BY <1>5 DEF exit_handler
  <2>2. relay' \in [Paths -> R]
    <3>1. relay' = [p \in Paths |-> IF p = conffile_param("authfile") /\ status' = "0" THEN Absent ELSE relay[p]]
      BY <1>5 DEF exit_handler
    <3> HIDE DEF R
    <3> QED
      BY <1>8, <3>1
  <2> QED
    BY <2>1, <2>2 DEF ServiceTypes
<1>6. CASE Tick
  BY <1>0, <1>6 DEF Tick, ServiceTypes
<1>7. CASE UNCHANGED vars \/ conffile_reload \/ Free \/ Open \/ ReadLine \/ ReadDone \/ conffile_check \/ Servers
           \/ Verify \/ Logging \/ writepid \/ auth_dump \/ auth_text_dump \/ Dumped \/ Edit
  BY <1>1, <1>7 DEF vars, conffile_reload, Free, Open, ReadLine, ReadDone, conffile_check, Servers, Verify,
                    Logging, writepid, auth_dump, auth_text_dump, Dumped, Edit, serviceVars
<1> QED
  BY <1>2, <1>3, <1>4, <1>5, <1>6, <1>7 DEF Next

\* What the rest holds.
ProcessTypes ==
  /\ withdb \in BOOLEAN /\ relative \in BOOLEAN /\ hup \in BOOLEAN
  /\ patbuf \in DOMAIN Captures \cup {NULL}
  /\ status \in {"running", "0", "4", "5", "21", "22", "23", "52", "100", "SIGSEGV", "SIGABRT"}
  /\ pc = "exited" <=> status # "running"
  /\ failed \in Faults \cup {"none"}
  /\ dbopen \in BOOLEAN
  /\ pidfiles \subseteq Values

\* The pid file's name is in the configuration file.
LEMMA PidfileNamed ==
  ASSUME ConfInv, Sourced, pc = "pid"
  PROVE  conffile_param("pidfile") \in Values
<1>1. Table /\ Checked /\ pc \in Settled
  BY DEF ConfInv, Settled
<1>2. conffile_param("pidfile") # NULL
  BY <1>1 DEF Checked, Missing, required_s
<1>3. conffile_param("pidfile") = Declared(read.conf, "pidfile")
  BY <1>1, <1>2, PresentIsDeclared DEF ConfInv
<1> DEFINE hits == {k \in DOMAIN read.conf : read.conf[k].name = "pidfile"}
<1>4. hits # {} /\ Declared(read.conf, "pidfile") = read.conf[Min(hits)].value
  BY <1>2, <1>3 DEF Declared
<1>5. read.conf \in Seq(Range(read.conf))
  BY DEF ConfInv, Table
<1>6. hits \in SUBSET Nat
  BY <1>5
<1>7. Min(hits) \in hits
  <2> HIDE DEF hits
  <2> QED
    BY <1>4, <1>6, LeastOf
<1>8. read.conf # Absent
  BY DEF Sourced
<1> QED
  BY <1>3, <1>4, <1>7, <1>8 DEF Sourced, FileValues

LEMMA ProcessTypesStep == ConfInv /\ Sourced /\ ProcessTypes /\ [Next]_vars => ProcessTypes'
<1> SUFFICES ASSUME ConfInv, Sourced, ProcessTypes, [Next]_vars PROVE ProcessTypes'
  OBVIOUS
<1>1. withdb' \in BOOLEAN /\ relative' \in BOOLEAN
  <2>1. UNCHANGED <<withdb, relative>>
    BY DEF Next, vars, worldVars, conffile_reload, Free, Open, ReadLine, ReadDone, conffile_check, Servers, Verify,
           SetUp, Logging, writepid, Line, auth_clean, auth_dump, auth_text_dump, Dumped, exit_handler, Edit, Tick
  <2> QED
    BY <2>1 DEF ProcessTypes
<1>2. hup' \in BOOLEAN
  <2>1. hup' \in {hup, TRUE, FALSE}
    BY DEF Next, vars, confVars, conffile_reload, Free, Open, ReadLine, ReadDone, conffile_check, Servers, Verify,
           SetUp, Logging, writepid, Line, auth_clean, auth_dump, auth_text_dump, Dumped, exit_handler, Edit, Tick
  <2> QED
    BY <2>1 DEF ProcessTypes
<1>3. patbuf' \in DOMAIN Captures \cup {NULL}
  <2>1. patbuf' = patbuf \/ patbuf' = match_init
    BY DEF Next, vars, mainVars, conffile_reload, Free, Open, ReadLine, ReadDone, conffile_check, Servers, Verify,
           SetUp, Logging, writepid, Line, auth_clean, auth_dump, auth_text_dump, Dumped, exit_handler, Edit, Tick
  <2> QED
    BY <2>1 DEF ProcessTypes, match_init
<1>4. dbopen' \in BOOLEAN
  <2>1. dbopen' \in {dbopen, TRUE, FALSE}
    BY DEF Next, vars, serviceVars, conffile_reload, Free, Open, ReadLine, ReadDone, conffile_check, Servers, Verify,
           SetUp, Logging, writepid, Line, auth_clean, auth_dump, auth_text_dump, Dumped, exit_handler, Edit, Tick,
           auth_init, opendb, auth_exit
  <2> QED
    BY <2>1 DEF ProcessTypes
<1>5. pidfiles' \subseteq Values
  <2>1. CASE writepid
    BY <2>1, PidfileNamed DEF writepid, ProcessTypes
  <2>2. CASE exit_handler
    BY <2>2 DEF exit_handler, ProcessTypes
  <2>3. CASE ~writepid /\ ~exit_handler
    <3>1. pidfiles' = pidfiles
      BY <2>3 DEF Next, vars, serviceVars, conffile_reload, Free, Open, ReadLine, ReadDone, conffile_check, Servers,
           Verify, SetUp, Logging, Line, auth_clean, auth_dump, auth_text_dump, Dumped, Edit, Tick
    <3> QED
      BY <3>1 DEF ProcessTypes
  <2> QED
    BY <2>1, <2>2, <2>3
<1>6. /\ status' \in {"running", "0", "4", "5", "21", "22", "23", "52", "100", "SIGSEGV", "SIGABRT"}
      /\ pc' = "exited" <=> status' # "running"
  <2> USE DEF ProcessTypes, Goto, Die, Fail
  <2>1. CASE UNCHANGED <<pc, status>>
    BY <2>1
  <2>2. CASE conffile_reload \/ Free \/ Open \/ ReadDone \/ conffile_check \/ Verify
    BY <2>2 DEF conffile_reload, Free, Open, ReadDone, conffile_check, Verify
  <2>3. CASE Servers
    BY <2>3 DEF Servers
  <2>4. CASE SetUp \/ Logging \/ writepid \/ auth_dump \/ Dumped \/ exit_handler
    BY <2>4 DEF SetUp, Logging, writepid, auth_dump, Dumped, exit_handler, auth_exit, auth_init, opendb,
                auth_write_text, logger_init, auth_db_dump
  <2>5. CASE \E l \in LogLines : Line(l)
    BY <2>5 DEF Line, auth_add, auth_db_add, auth_text_add, auth_write_text
  <2>6. CASE auth_clean
    <3>1. pc # "exited"
      BY <2>6, ExactConstantsOK DEF auth_clean, Delivered, ReloadPoints
    <3> QED
      BY <2>6, <3>1 DEF auth_clean, auth_text_clean, auth_db_clean, auth_write_text
  <2>7. CASE UNCHANGED vars \/ ReadLine \/ auth_text_dump \/ Edit \/ Tick
    BY <2>1, <2>7 DEF vars, mainVars, ReadLine, auth_text_dump, Edit, Tick
  <2> QED
    BY <2>2, <2>3, <2>4, <2>5, <2>6, <2>7 DEF Next
<1>7. failed' \in Faults \cup {"none"}
  <2>1. failed' = failed \/ failed' \in Faults
    BY DEF Next, vars, mainVars, conffile_reload, Free, Open, ReadLine, ReadDone, conffile_check, Servers, Verify,
           SetUp, Logging, writepid, Line, auth_clean, auth_dump, auth_text_dump, Dumped, exit_handler, Edit, Tick,
           Goto, Die, Fail, auth_init, opendb, auth_write_text, logger_init, auth_add, auth_db_add, auth_text_add,
           auth_db_dump, auth_text_clean, auth_db_clean, auth_exit
  <2> QED
    BY <2>1 DEF ProcessTypes
<1> QED
  BY <1>1, <1>2, <1>3, <1>4, <1>5, <1>6, <1>7 DEF ProcessTypes

TypeInv == Sourced /\ ParamValues /\ s \in Sections(Texts) /\ ServiceTypes /\ ProcessTypes

LEMMA TypeInit == Init => TypeInv
<1> SUFFICES ASSUME Init PROVE TypeInv
  OBVIOUS
<1>1. PICK files \in Boots : conf = files[1] /\ defs = files[2] /\ relative = files[3]
  BY DEF Init
<1>2. Sourced
  <2>1. DefsOK(defs) /\ FileValues(conf)
    BY <1>1, ExactFilesOK, ValuesOfFiles
  <2>2. read = [conf |-> Absent, defs |-> Absent] /\ pc = "open"
    BY DEF Init
  <2> QED
    BY <2>1, <2>2 DEF Sourced, DefsOK, FileValues
<1>3. ParamValues /\ s \in Sections(Texts)
  BY DEF Init, ParamValues, Section0, Sections
<1>4. ServiceTypes
  <2>1. MaxNow \in Nat \ {0}
    BY ExactConstantsOK
  <2>2. None \in [Names -> 0..MaxNow]
    BY <2>1 DEF None, Never
  <2>3. now \in 1..MaxNow
    BY <2>1 DEF Init
  <2>4. relay \in [Paths -> (SUBSET Names) \cup {Absent, DbFile}]
    BY DEF Init
  <2> QED
    BY <2>2, <2>3, <2>4 DEF Init, ServiceTypes
<1>5. ProcessTypes
  <2>1. withdb \in BOOLEAN /\ relative \in BOOLEAN
    BY <1>1, ExactConstantsOK, ExactFilesOK DEF Init
  <2> QED
    BY <2>1 DEF Init, ProcessTypes
<1> QED
  BY <1>2, <1>3, <1>4, <1>5 DEF TypeInv

LEMMA TypeStep == ConfInv /\ TypeInv /\ [Next]_vars => TypeInv'
  BY SourcedStep, ParamValuesStep, ServiceTypesStep, ProcessTypesStep DEF TypeInv

LEMMA TypeInvariant == Spec => []TypeInv
  BY TypeInit, TypeStep, Invariant, PTL DEF Spec

\* The variables keep their types: nothing but values of configuration files and texts
\* of definitions ever gets into the parameters, the section and the pid files.
THEOREM TypeCorrect == Spec => []TypeOK
<1>1. ConfInv /\ TypeInv /\ Listed => TypeOK
  BY DEF ConfInv, TypeInv, ParamValues, ServiceTypes, ProcessTypes, Listed, TypeOK
<1> QED
  BY <1>1, Invariant, TypeInvariant, ListedInvariant, PTL

-----------------------------------------------------------------------------
(* The definitions: what is parsed, and what of it the parameters say.     *)

\* The parser, with whatever the parses before have left in its section, accepts the
\* files of whole stanzas and finds in them what is written.
THEOREM ParsesAsWritten == Spec => []ParsedAsWritten
<1>1. ASSUME TypeInv, defs # Absent
      PROVE  LET parse == apconf_read(defs, s) IN
               /\ parse.at = "top" <=> WellFormed(defs)
               /\ parse.at = "top" =>
                    \A name \in Texts :
                      LET a == apconf_getsec(parse.sections, name) IN
                        /\ a = NULL <=> Opening(defs, name) = 0
                        /\ a # NULL =>
                             /\ Setting(defs, name, TOKEN_ORDER) \in {NULL, a.order}
                             /\ Setting(defs, name, TOKEN_MATCH) \in {NULL, a.match}
  <2>1. defs \in DefsFile(Texts) /\ s \in Sections(Texts) /\ NULL \notin Sections(Texts)
    BY <1>1, DefsTyped, ExactNullOK DEF TypeInv, Sourced
  <2> DEFINE parse == apconf_read(defs, s)
  <2>2. parse.at = "top" <=> WellFormed(defs)
    BY <2>1, AcceptsWellFormed
  <2>3. ASSUME parse.at = "top", NEW name, NEW a, a = apconf_getsec(parse.sections, name)
        PROVE  /\ a = NULL <=> Opening(defs, name) = 0
               /\ a # NULL =>
                    /\ Setting(defs, name, TOKEN_ORDER) \in {NULL, a.order}
                    /\ Setting(defs, name, TOKEN_MATCH) \in {NULL, a.match}
    BY <2>1, <2>2, <2>3, FindsWritten
  <2> QED
    BY <2>2, <2>3
<1>2. TypeInv => ParsedAsWritten
  BY <1>1 DEF ParsedAsWritten
<1> QED
  BY <1>2, TypeInvariant, PTL

\* The last two entries are what the stanza asked for says, if it says it.
StanzaInv ==
  LET server == Declared(read.conf, "server") IN
    pc \in Settled /\ Complete(read.defs, server) =>
      /\ param[Len(param) - 1].value = Setting(read.defs, server, TOKEN_ORDER)
      /\ param[Len(param)].value = Setting(read.defs, server, TOKEN_MATCH)

\* What conffile_check has found, PresentIsDeclared takes to the file.
LEMMA ServerNamed ==
  ASSUME ConfInv, pc = "servers"
  PROVE  conffile_param("server") = Declared(read.conf, "server")
<1>1. conffile_param("server") # NULL
  BY DEF ConfInv, Checked, Missing, required_s
<1> QED
  BY <1>1, PresentIsDeclared DEF ConfInv

\* A complete stanza is found, with both settings.
LEMMA CompleteFound ==
  ASSUME TypeInv, defs # Absent, NEW name, Complete(defs, name),
         NEW a, a = apconf_getsec(apconf_read(defs, s).sections, name)
  PROVE  /\ apconf_read(defs, s).at = "top"
         /\ a # NULL
         /\ NULL \notin {a.order, a.match}
         /\ a.order = Setting(defs, name, TOKEN_ORDER)
         /\ a.match = Setting(defs, name, TOKEN_MATCH)
<1>1. defs \in DefsFile(Texts) /\ s \in Sections(Texts) /\ NULL \notin Sections(Texts)
  BY DefsTyped, ExactNullOK DEF TypeInv, Sourced
<1>2. WellFormed(defs) /\ Opening(defs, name) # 0
      /\ Setting(defs, name, TOKEN_ORDER) # NULL /\ Setting(defs, name, TOKEN_MATCH) # NULL
  BY DEF Complete
<1>3. apconf_read(defs, s).at = "top"
  BY <1>1, <1>2, AcceptsWellFormed
<1>4. /\ a = NULL <=> Opening(defs, name) = 0
      /\ a # NULL =>
           /\ Setting(defs, name, TOKEN_ORDER) \in {NULL, a.order}
           /\ Setting(defs, name, TOKEN_MATCH) \in {NULL, a.match}
  BY <1>1, <1>2, FindsWritten
<1> QED
  BY <1>2, <1>3, <1>4

LEMMA StanzaStep == ConfInv /\ TypeInv /\ StanzaInv /\ [Next]_vars => StanzaInv'
<1> SUFFICES ASSUME ConfInv, TypeInv, StanzaInv, [Next]_vars, (pc \in Settled)',
                    Complete(read.defs, Declared(read.conf, "server"))'
             PROVE  /\ param'[Len(param') - 1].value = Setting(read.defs, Declared(read.conf, "server"), TOKEN_ORDER)'
                    /\ param'[Len(param')].value = Setting(read.defs, Declared(read.conf, "server"), TOKEN_MATCH)'
  BY DEF StanzaInv
<1>1. CASE Servers
  <2> DEFINE parse == apconf_read(defs, s)
             name == Declared(read.conf, "server")
             a == apconf_getsec(parse.sections, name)
             x == LiteralEntry("order", a.order)
             y == LiteralEntry("match", a.match)
  <2>1. pc = "servers" /\ read' = [read EXCEPT !.defs = defs]
    BY <1>1 DEF Servers
  <2>2. read'.conf = read.conf /\ read'.defs = defs
    BY <2>1 DEF ConfInv
  <2>3. conffile_param("server") = name
    BY <2>1, ServerNamed
  <2>4. defs # Absent /\ param' = param \o <<x, y>>
    BY <1>1, <2>3 DEF Servers, Die, Fail, Settled
  <2>5. Declared(read.conf, "server")' = name
    BY <2>2 DEF Declared
  <2>6. Complete(defs, name)
    BY <2>2, <2>5
  <2>7. x.value = Setting(defs, name, TOKEN_ORDER) /\ y.value = Setting(defs, name, TOKEN_MATCH)
    <3>1. a.order = Setting(defs, name, TOKEN_ORDER) /\ a.match = Setting(defs, name, TOKEN_MATCH)
      BY <2>4, <2>6, CompleteFound
    <3> QED
      BY <3>1 DEF LiteralEntry
  <2>8. param \in Seq(Range(param))
    BY <2>1 DEF ConfInv, Table
  <2> HIDE DEF x, y
  <2>9. param'[Len(param') - 1] = x /\ param'[Len(param')] = y
    <3>1. Len(param') = Len(param) + 2 /\ Len(param) \in Nat
          /\ param'[Len(param) + 1] = x /\ param'[Len(param) + 2] = y
      BY <2>4, <2>8
    <3>2. Len(param') - 1 = Len(param) + 1
      BY <3>1
    <3> QED
      BY <3>1, <3>2
  <2> QED
    BY <2>2, <2>5, <2>7, <2>9
<1>2. CASE ~Servers
  <2>1. pc \in Settled /\ UNCHANGED <<read, param>>
    BY <1>2, ExactConstantsOK
       DEF Next, vars, mainVars, confVars, conffile_reload, Free, Open, ReadLine, ReadDone, conffile_check, Verify,
           SetUp, Logging, writepid, Line, auth_clean, auth_dump, auth_text_dump, Dumped, exit_handler,
           Edit, Tick, Goto, Die, Fail, Settled, auth_write_text, auth_text_clean, auth_db_clean, auth_exit
  <2>2. Complete(read.defs, Declared(read.conf, "server"))
    BY <2>1
  <2> QED
    BY <2>1, <2>2 DEF StanzaInv
<1> QED
  BY <1>1, <1>2

LEMMA LowerPart == \A m, n \in Nat : \A k \in 1..m : k <= n => k \in 1..n
  OBVIOUS

\* A name that is not in the file is looked up in the two entries behind it.
LEMMA BehindTheFile ==
  ASSUME Table, pc \in Settled, NEW name, Declared(read.conf, name) = NULL,
         \A k \in DOMAIN read.conf : read.conf[k].name = name => read.conf[k].value # NULL,
         NEW n \in {Len(param) - 1, Len(param)}, param[n].name = name,
         \A k \in {Len(param) - 1, Len(param)} : param[k].name = name => k = n
  PROVE  conffile_param(name) = param[n].value
<1> DEFINE A == {k \in DOMAIN read.conf : read.conf[k].name = name}
           B == {k \in DOMAIN param : param[k].name = name}
<1>1. pc \notin {"open", "exited"}
  BY DEF Settled
<1>2. read.conf \in Seq(Range(read.conf)) /\ param \in Seq(Range(param)) /\ Len(param) = Len(read.conf) + 2
  BY <1>1 DEF Table
<1>3. DOMAIN param = 1..Len(param) /\ DOMAIN read.conf = 1..Len(read.conf)
      /\ Len(param) \in Nat /\ Len(read.conf) \in Nat
  BY <1>2
<1>4. A = {}
  <2> SUFFICES ASSUME A # {} PROVE FALSE
    OBVIOUS
  <2>1. \A k \in 1..Len(read.conf) : k \in Nat
    OBVIOUS
  <2>2. A \in SUBSET Nat
    BY <1>3, <2>1
  <2>3. Min(A) \in A
    <3> HIDE DEF A
    <3> QED
      BY <2>2, LeastOf
  <2> QED
    BY <2>3 DEF Declared
<1>5. B = {n}
  <2>1. ASSUME NEW k \in B PROVE k = n
    <3>1. k \in 1..Len(param) /\ param[k].name = name
      BY <1>3
    <3>2. CASE k <= Len(read.conf)
      <4>1. param[k] = Entry(read.conf[k])
        BY <1>1, <3>1, <3>2 DEF Table
      <4>2. k \in DOMAIN read.conf
        BY <1>3, <3>1, <3>2, LowerPart, Zenon
      <4>3. read.conf[k].name = name
        BY <3>1, <4>1 DEF Entry
      <4> QED
        BY <1>4, <4>2, <4>3
    <3>3. CASE ~(k <= Len(read.conf))
      <4>1. k \in {Len(param) - 1, Len(param)}
        BY <1>2, <1>3, <3>1, <3>3
      <4> QED
        BY <3>1, <4>1
    <3> QED
      BY <3>2, <3>3
  <2>2. n \in B
    BY <1>2, <1>3
  <2> QED
    BY <2>1, <2>2
<1>6. Min(B) = n
  <2>1. B \in SUBSET Nat /\ B # {}
    BY <1>2, <1>3, <1>5
  <2>2. Min(B) \in B
    <3> HIDE DEF B
    <3> QED
      BY <2>1, LeastOf
  <2> QED
    BY <1>5, <2>2
<1> QED
  BY <1>5, <1>6 DEF conffile_param

\* Both settings of the stanza, unless the file has entries of these names.
LEMMA LookedUp ==
  ASSUME ConfInv, TypeInv, StanzaInv, pc \in Settled,
         Complete(read.defs, Declared(read.conf, "server"))
  PROVE  /\ conffile_param("order") = Chosen(read, "order", TOKEN_ORDER)
         /\ conffile_param("match") = Chosen(read, "match", TOKEN_MATCH)
<1> DEFINE server == Declared(read.conf, "server")
<1>1. Table /\ read.conf # Absent /\ pc \notin {"open", "exited"}
  BY DEF ConfInv, TypeInv, Sourced, Settled
<1>2. \A k \in DOMAIN read.conf : read.conf[k].value # NULL
  BY <1>1, ExactNullOK DEF TypeInv, Sourced, FileValues
<1>3. ASSUME NEW name, Declared(read.conf, name) # NULL
      PROVE  conffile_param(name) = Declared(read.conf, name)
  <2>1. \E k \in DOMAIN read.conf : read.conf[k].name = name
    BY <1>3 DEF Declared
  <2> QED
    BY <1>1, <2>1, DeclaredIsPresent
<1>4. /\ Len(param) \in Nat
      /\ param[Len(param) - 1].name = "order" /\ param[Len(param)].name = "match"
      /\ param[Len(param) - 1].value = Setting(read.defs, server, TOKEN_ORDER)
      /\ param[Len(param)].value = Setting(read.defs, server, TOKEN_MATCH)
  <2>1. param \in Seq(Range(param))
    BY <1>1 DEF Table
  <2> QED
    BY <1>1, <2>1 DEF Table, StanzaInv
<1>5. conffile_param("order") = Chosen(read, "order", TOKEN_ORDER)
  <2>1. CASE Declared(read.conf, "order") # NULL
    BY <1>3, <2>1 DEF Chosen
  <2>2. CASE Declared(read.conf, "order") = NULL
    <3>1. conffile_param("order") = param[Len(param) - 1].value
      BY <1>1, <1>2, <1>4, <2>2, BehindTheFile
    <3> QED
      BY <1>4, <2>2, <3>1 DEF Chosen
  <2> QED
    BY <2>1, <2>2
<1>6. conffile_param("match") = Chosen(read, "match", TOKEN_MATCH)
  <2>1. CASE Declared(read.conf, "match") # NULL
    BY <1>3, <2>1 DEF Chosen
  <2>2. CASE Declared(read.conf, "match") = NULL
    <3>1. conffile_param("match") = param[Len(param)].value
      BY <1>1, <1>2, <1>4, <2>2, BehindTheFile
    <3> QED
      BY <1>4, <2>2, <3>1 DEF Chosen
  <2> QED
    BY <2>1, <2>2
<1> QED
  BY <1>5, <1>6

LEMMA StanzaInvariant == Spec => []StanzaInv
<1>1. Init => StanzaInv
  BY DEF Init, StanzaInv, Settled
<1> QED
  BY <1>1, StanzaStep, Invariant, TypeInvariant, PTL DEF Spec

\* By way of two files, a parser that remembers, and a table whose first entry of a
\* name counts, order and match are those of the stanza of the server's name.
THEOREM StanzaKept == Spec => []StanzaHolds
<1>1. ConfInv /\ TypeInv /\ StanzaInv => StanzaHolds
  BY LookedUp DEF StanzaHolds, Settled
<1> QED
  BY <1>1, Invariant, TypeInvariant, StanzaInvariant, PTL

-----------------------------------------------------------------------------
(* Why exact ends.                                                         *)

\* A name that conffile_param does not know is not in the file.
LEMMA AbsentIsUndeclared ==
  ASSUME ConfInv, pc \in {"check", "servers"} \cup Settled, NEW name, conffile_param(name) = NULL
  PROVE  Declared(read.conf, name) = NULL
<1> SUFFICES ASSUME Declared(read.conf, name) # NULL PROVE FALSE
  OBVIOUS
<1>1. \E k \in DOMAIN read.conf : read.conf[k].name = name
  BY DEF Declared
<1> QED
  BY <1>1, DeclaredIsPresent DEF ConfInv

\* What conffile_check misses is missing in the file.
LEMMA MissingIsUnfilled ==
  ASSUME ConfInv, pc = "check", Missing
  PROVE  ~Filled(read)
<1> SUFFICES ASSUME Filled(read) PROVE FALSE
  OBVIOUS
<1>1. \A name \in Needed \cup NeededNumbers : conffile_param(name) = Declared(read.conf, name)
  <2> SUFFICES ASSUME NEW name \in Needed \cup NeededNumbers
               PROVE  conffile_param(name) = Declared(read.conf, name)
    OBVIOUS
  <2>1. Declared(read.conf, name) # NULL
    BY DEF Filled
  <2>2. conffile_param(name) # NULL
    BY <2>1, AbsentIsUndeclared
  <2> QED
    BY <2>1, <2>2, PresentIsDeclared DEF ConfInv, Points, ReloadPoints, Needed, NeededNumbers
<1>2. required_s = Needed /\ required_i = NeededNumbers
  BY DEF required_s, required_i, Needed, NeededNumbers
<1> QED
  BY <1>1, <1>2 DEF Missing, Filled, conffile_param_int

\* server_check gives up only on definitions without a complete stanza of that name.
LEMMA ServersCause == ConfInv /\ TypeInv /\ Servers /\ pc' = "exited" => EndsForCause'
<1> SUFFICES ASSUME ConfInv, TypeInv, Servers, pc' = "exited" PROVE EndsForCause'
  OBVIOUS
<1> DEFINE name == Declared(read.conf, "server")
           a == apconf_getsec(apconf_read(defs, s).sections, name)
<1>1. pc = "servers" /\ read' = [read EXCEPT !.defs = defs] /\ status' \in {"4", "SIGSEGV"}
  BY DEF Servers, Die, Fail, Goto
<1>2. read'.conf = read.conf /\ read'.defs = defs
  BY <1>1 DEF ConfInv
<1>3. Declared(read.conf, "server")' = name
  BY <1>2 DEF Declared
<1>4. ~(defs # Absent /\ Complete(defs, name))
  <2> SUFFICES ASSUME defs # Absent, Complete(defs, name) PROVE FALSE
    OBVIOUS
  <2>1. apconf_read(defs, s).at = "top" /\ a # NULL /\ NULL \notin {a.order, a.match}
    BY CompleteFound
  <2>2. conffile_param("server") = name
    BY <1>1, ServerNamed
  <2> QED
    BY <2>1, <2>2 DEF Servers, Goto
<1>5. ~Sufficient(read)'
  BY <1>2, <1>3, <1>4 DEF Sufficient
<1> QED
  BY <1>1, <1>5 DEF EndsForCause

LEMMA VerifyCause ==
  ConfInv /\ TypeInv /\ StanzaInv /\ Verify /\ pc' = "exited" => EndsForCause'
<1> SUFFICES ASSUME ConfInv, TypeInv, StanzaInv, Verify, pc' = "exited" PROVE EndsForCause'
  OBVIOUS
<1> DEFINE order == conffile_param("order")
           authtype == conffile_param("authtype")
<1>1. /\ pc = "verify" /\ read' = read /\ status' \in {"4", "SIGSEGV"}
      /\ order \notin Orders \/ authtype \notin {"db", "text"}
  BY ExactNullOK DEF Verify, Die, Fail, Goto
<1>2. ~Sufficient(read)
  <2> SUFFICES ASSUME Sufficient(read) PROVE FALSE
    OBVIOUS
  <2>1. order \in Orders
    <3>1. order = Chosen(read, "order", TOKEN_ORDER)
      BY <1>1, LookedUp DEF Sufficient, Settled
    <3> QED
      BY <3>1 DEF Sufficient
  <2>2. authtype \in {"db", "text"}
    <3>1. Declared(read.conf, "authtype") \in {"db", "text"}
      BY DEF Sufficient, Filled
    <3>2. authtype # NULL
      BY <1>1, <3>1, ExactNullOK, AbsentIsUndeclared DEF Settled
    <3>3. authtype = Declared(read.conf, "authtype")
      BY <1>1, <3>2, PresentIsDeclared DEF ConfInv, Points, ReloadPoints
    <3> QED
      BY <3>1, <3>3
  <2> QED
    BY <1>1, <2>1, <2>2
<1>3. ~Sufficient(read)'
  BY <1>1, <1>2
<1> QED
  BY <1>1, <1>3 DEF EndsForCause

\* What a handler misses is not in the file, or has not been read yet.
LEMMA UnreadOrAbsent ==
  ASSUME ConfInv, TypeInv, pc # "exited", hup \/ pc \in Settled, NEW name, conffile_param(name) = NULL
  PROVE  HalfRead \/ Declared(read.conf, name) = NULL
<1>1. CASE pc \in {"check", "servers"} \cup Settled
  BY <1>1, AbsentIsUndeclared
<1>2. CASE pc = "read"
  <2>1. hup /\ Len(param) \in Nat /\ Len(read.conf) \in Nat /\ Len(param) <= Len(read.conf)
    BY <1>2 DEF ConfInv, Table, Settled
  <2>2. CASE Len(param) < Len(read.conf)
    BY <2>1, <2>2 DEF HalfRead
  <2>3. CASE Len(param) = Len(read.conf)
    <3> SUFFICES ASSUME Declared(read.conf, name) # NULL PROVE FALSE
      OBVIOUS
    <3>1. \E k \in DOMAIN read.conf : read.conf[k].name = name
      BY DEF Declared
    <3> QED
      BY <1>2, <2>3, <3>1, DeclaredIsPresent DEF ConfInv
  <2> QED
    BY <2>1, <2>2, <2>3
<1>3. CASE pc = "open"
  <2>1. hup /\ param = <<>> /\ read.conf \in Seq(Range(read.conf))
    BY <1>3 DEF ConfInv, Table, Settled
  <2>2. CASE read.conf = <<>>
    BY <2>2 DEF Declared
  <2>3. CASE read.conf # <<>>
    <3>1. Len(param) < Len(read.conf)
      BY <2>1, <2>3
    <3> QED
      BY <2>1, <3>1 DEF HalfRead
  <2> QED
    BY <2>2, <2>3
<1> QED
  BY <1>1, <1>2, <1>3 DEF ConfInv, Points, ReloadPoints, Settled

\* A reload begins in the loop, and the loop behind writepid.
StageInv ==
  /\ pc = "free" => hup
  /\ pc # "exited" /\ (hup \/ pc \in {"loop", "dump"}) => pidfiles # {}

LEMMA StageStep == ConfInv /\ StageInv /\ [Next]_vars => StageInv'
<1> SUFFICES ASSUME ConfInv, StageInv, [Next]_vars PROVE StageInv'
  OBVIOUS
<1> USE DEF StageInv, Goto, Die, Fail
<1>1. CASE UNCHANGED <<hup, pc, pidfiles>>
  BY <1>1
<1>2. CASE conffile_reload \/ Free \/ Open \/ ReadDone \/ conffile_check \/ Verify
  BY <1>2 DEF conffile_reload, Free, Open, ReadDone, conffile_check, Verify, confVars, serviceVars
<1>3. CASE Servers
  BY <1>3 DEF Servers, serviceVars
<1>4. CASE SetUp \/ Logging \/ auth_dump \/ Dumped
  BY <1>4 DEF SetUp, Logging, auth_dump, Dumped, auth_init, opendb, auth_write_text, logger_init,
              auth_db_dump, confVars, serviceVars
<1>5. CASE writepid
  BY <1>5 DEF writepid, confVars
<1>6. CASE exit_handler
  BY <1>6 DEF exit_handler, auth_exit
<1>7. CASE \E l \in LogLines : Line(l)
  BY <1>7 DEF Line, auth_add, auth_db_add, auth_text_add, auth_write_text, confVars
<1>8. CASE auth_clean
  <2>1. pc' \in {pc, "exited"} /\ UNCHANGED <<hup, pidfiles>>
    BY <1>8 DEF auth_clean, auth_text_clean, auth_db_clean, auth_write_text, confVars
  <2> QED
    BY <2>1
<1>9. CASE UNCHANGED vars \/ ReadLine \/ auth_text_dump \/ Edit \/ Tick
  BY <1>1, <1>9 DEF vars, mainVars, confVars, serviceVars, ReadLine, auth_text_dump, Edit, Tick
<1> QED
  BY <1>2, <1>3, <1>4, <1>5, <1>6, <1>7, <1>8, <1>9 DEF Next

LEMMA StageInvariant == Spec => []StageInv
<1>1. Init => StageInv
  BY DEF Init, StageInv
<1> QED
  BY <1>1, StageStep, Invariant, PTL DEF Spec

\* auth_write_text fails on a name that the file does not give, or amid a reload.
LEMMA WriteCause ==
  ASSUME ConfInv, TypeInv, pc # "exited", pc \in Settled \/ hup, NEW hosts, NEW point, point # "exited",
         auth_write_text(hosts, point), pc' = "exited", UNCHANGED <<read, param, hup>>
  PROVE  EndsForCause'
<1>1. CASE conffile_param("authtemp") = NULL /\ Die("21")
  <2>1. HalfRead \/ Declared(read.conf, "authtemp") = NULL
    BY <1>1, UnreadOrAbsent
  <2>2. HalfRead' \/ Declared(read.conf, "authtemp")' = NULL
    BY <2>1 DEF HalfRead
  <2> QED
    BY <1>1, <2>2 DEF EndsForCause, Die
<1>2. CASE conffile_param("authfile") = NULL /\ Die("22")
  <2>1. hup
    BY <1>2 DEF ConfInv, Checked, Missing, required_s
  <2>2. HalfRead \/ Declared(read.conf, "authfile") = NULL
    BY <1>2, UnreadOrAbsent
  <2>3. HalfRead' \/ (hup /\ Declared(read.conf, "authfile") = NULL)'
    BY <2>1, <2>2 DEF HalfRead
  <2> QED
    BY <1>2, <2>3 DEF EndsForCause, Die
<1> QED
  BY <1>1, <1>2 DEF auth_write_text, Goto

\* Every step that ends exact has its cause.
LEMMA CauseStep ==
  ASSUME ConfInv, TypeInv, StanzaInv, StageInv, [Next]_vars, pc # "exited", pc' = "exited"
  PROVE  EndsForCause'
<1>1. CASE Free
  <2>1. hup' /\ status' = "SIGABRT"
    BY <1>1 DEF Free, Goto, Die, StageInv
  <2> QED
    BY <2>1 DEF EndsForCause
<1>2. CASE Open
  <2>1. ~Openable /\ status' = "5" /\ UNCHANGED <<conf, relative, hup>>
    BY <1>2 DEF Open, Goto, Die, Fail, worldVars
  <2> QED
    BY <2>1 DEF Openable, EndsForCause
<1>3. CASE conffile_check
  <2>1. pc = "check" /\ Missing /\ status' = "4" /\ read' = read
    BY <1>3 DEF conffile_check, Goto, Die, Fail, confVars
  <2>2. ~Sufficient(read)
    BY <2>1, MissingIsUnfilled DEF Sufficient
  <2>3. ~Sufficient(read)'
    BY <2>1, <2>2
  <2> QED
    BY <2>1, <2>3 DEF EndsForCause
<1>4. CASE Servers
  BY <1>4, ServersCause
<1>5. CASE Verify
  BY <1>5, VerifyCause
<1>6. CASE SetUp
  <2>1. pc \in Settled /\ UNCHANGED <<read, param, hup>>
    BY <1>6 DEF SetUp, Settled, confVars
  <2>2. CASE auth_write_text({}, "logging")
    BY <2>1, <2>2, WriteCause
  <2>3. CASE opendb
    BY <2>3 DEF opendb, Goto, Die, Fail, EndsForCause
  <2> QED
    BY <1>6, <2>2, <2>3 DEF SetUp, auth_init
<1>7. CASE Logging
  <2>1. pc \in Settled /\ read' = read
    BY <1>7 DEF Logging, Settled, confVars
  <2>2. \/ status' = "100" /\ failed' = "logfile"
        \/ status' = "100" /\ conffile_param("logging") \notin {NULL, "syslog", "internal"}
        \/ status' = "SIGSEGV" /\ conffile_param("logging") = NULL
    BY <1>7 DEF Logging, logger_init, Goto, Die, Fail
  <2>3. CASE status' = "100" /\ failed' = "logfile"
    BY <2>3 DEF EndsForCause
  <2>5. CASE status' = "100" /\ conffile_param("logging") \notin {NULL, "syslog", "internal"}
    <3>1. conffile_param("logging") = Declared(read.conf, "logging")
      BY <2>1, <2>5, PresentIsDeclared DEF ConfInv
    <3>2. Declared(read.conf, "logging")' \notin {NULL, "syslog", "internal"}
      BY <2>1, <2>5, <3>1
    <3> QED
      BY <2>5, <3>2 DEF EndsForCause
  <2>4. CASE status' = "SIGSEGV" /\ conffile_param("logging") = NULL
    <3>1. Declared(read.conf, "logging") = NULL
      BY <2>1, <2>4, AbsentIsUndeclared
    <3>2. Declared(read.conf, "logging")' = NULL
      BY <2>1, <3>1
    <3> QED
      BY <2>4, <3>2 DEF EndsForCause
  <2> QED
    BY <2>2, <2>3, <2>4, <2>5
<1>8. ASSUME NEW l \in LogLines, Line(l) PROVE EndsForCause'
  <2>1. pc \in Settled /\ UNCHANGED <<read, param, hup, withdb, dbopen, patbuf>> /\ pidfiles' # {}
    BY <1>8 DEF Line, Settled, confVars, worldVars, StageInv
  <2> DEFINE h == Matched(l).hostname
  <2>2. CASE patbuf = NULL /\ Die("SIGSEGV")
    BY <2>1, <2>2 DEF Die, Fail, EndsForCause
  <2>3. CASE UsesDb /\ auth_db_add(h)
    BY <2>1, <2>3 DEF UsesDb, auth_db_add, Goto, Die, Fail, EndsForCause
  <2>4. CASE auth_text_add(h)
    <3>1. auth_write_text(Known(table'), "loop")
      BY <2>4 DEF auth_text_add, Goto
    <3> QED
      BY <2>1, <3>1, WriteCause
  <2> QED
    BY <1>8, <2>2, <2>3, <2>4 DEF Line, auth_add
<1>9. CASE auth_clean
  <2>1. (hup \/ pc \in {"loop", "dump"}) /\ UNCHANGED <<read, param, hup, withdb, dbopen>>
    BY <1>9 DEF auth_clean, Delivered, confVars, worldVars
  <2>2. pc \in {"loop", "dump"} =>
          /\ pc \in Settled
          /\ conffile_param("authtype") # NULL
          /\ conffile_param("timeout") # NULL
    BY ExactNullOK DEF ConfInv, Checked, Missing, required_i, Settled
  <2>3. CASE NoAuthtype /\ Die("SIGSEGV")
    <3>1. withdb /\ (HalfRead \/ Declared(read.conf, "authtype") = NULL)
      BY <2>1, <2>2, <2>3, UnreadOrAbsent DEF NoAuthtype
    <3>2. Declared(read.conf, "authtype") = NULL => ~Sufficient(read)
      BY ExactNullOK DEF Sufficient, Filled
    <3>3. withdb' /\ (HalfRead' \/ ~Sufficient(read)')
      BY <2>1, <3>1, <3>2 DEF HalfRead
    <3> QED
      BY <2>3, <3>3 DEF Die, EndsForCause
  <2>4. CASE conffile_param("timeout") = NULL /\ Die("52")
    <3>1. hup /\ (HalfRead \/ Declared(read.conf, "timeout") = NULL)
      BY <2>1, <2>2, <2>4, UnreadOrAbsent
    <3>2. HalfRead' \/ (hup /\ Declared(read.conf, "timeout") = NULL)'
      BY <2>1, <3>1 DEF HalfRead
    <3> QED
      BY <2>4, <3>2 DEF Die, EndsForCause
  <2>5. CASE UsesDb /\ auth_db_clean
    BY <2>1, <2>5 DEF UsesDb, auth_db_clean, Goto, Die, Fail, EndsForCause
  <2>6. CASE auth_text_clean
    <3>1. auth_write_text(Known(table'), pc)
      BY <2>6 DEF auth_text_clean
    <3> QED
      BY <2>1, <2>2, <3>1, WriteCause
  <2> QED
    BY <1>9, <2>3, <2>4, <2>5, <2>6 DEF auth_clean
<1>10. CASE auth_dump
  <2>1. UNCHANGED <<withdb, dbopen>>
    BY <1>10 DEF auth_dump, worldVars, serviceVars
  <2> QED
    BY <1>10, <2>1 DEF auth_dump, UsesDb, auth_db_dump, Goto, Die, Fail, EndsForCause
<1>11. CASE exit_handler
  BY <1>11 DEF exit_handler, auth_exit, Die, Fail, worldVars, EndsForCause
<1>12. CASE conffile_reload \/ ReadLine \/ ReadDone \/ writepid \/ auth_text_dump \/ Dumped \/ Edit \/ Tick
            \/ UNCHANGED vars
  BY <1>12 DEF conffile_reload, ReadLine, ReadDone, writepid, auth_text_dump, Dumped, Edit, Tick, vars,
               mainVars, Goto
<1> QED
  BY <1>1, <1>2, <1>3, <1>4, <1>5, <1>6, <1>7, <1>8, <1>9, <1>10, <1>11, <1>12 DEF Next

\* Nothing happens to exact once it has ended.
LEMMA EndIsEnd ==
  ASSUME [Next]_vars, pc = "exited"
  PROVE  UNCHANGED vars
  BY ExactConstantsOK
     DEF Next, conffile_reload, Free, Open, ReadLine, ReadDone, conffile_check, Servers, Verify, SetUp, Logging,
         writepid, Line, auth_clean, auth_dump, auth_text_dump, Dumped, exit_handler, Edit, Tick, Delivered,
         ReloadPoints

\* Whatever ends exact, but SIGTERM, there is a cause for it that goes with its exit
\* status: in the file it has read, in a call that has failed, or in one of the
\* defects that the property names.
THEOREM EndsWithCause == Spec => []EndsForCause
<1>1. Init => EndsForCause
  BY DEF Init, EndsForCause
<1>2. ConfInv /\ TypeInv /\ TypeInv' /\ StanzaInv /\ StageInv /\ EndsForCause /\ [Next]_vars => EndsForCause'
  <2> SUFFICES ASSUME ConfInv, TypeInv, TypeInv', StanzaInv, StageInv, EndsForCause, [Next]_vars
               PROVE  EndsForCause'
    OBVIOUS
  <2>1. CASE pc = "exited"
    <3>1. UNCHANGED vars
      BY <2>1, EndIsEnd
    <3>2. UNCHANGED <<Sufficient(read), HalfRead, Declared(read.conf, "authtemp"), Declared(read.conf, "logging"),
                      Declared(read.conf, "authfile"), Declared(read.conf, "timeout")>>
      BY <3>1 DEF vars, confVars, HalfRead
    <3> QED
      BY <3>1, <3>2 DEF EndsForCause, vars, worldVars, confVars, mainVars, serviceVars
  <2>2. CASE pc' # "exited"
    BY <2>2 DEF TypeInv, ProcessTypes, EndsForCause
  <2>3. CASE pc # "exited" /\ pc' = "exited"
    BY <2>3, CauseStep
  <2> QED
    BY <2>1, <2>2, <2>3
<1> QED
  BY <1>1, <1>2, Invariant, TypeInvariant, StanzaInvariant, StageInvariant, PTL DEF Spec
=============================================================================
