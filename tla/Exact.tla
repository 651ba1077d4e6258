--------------------------------- MODULE Exact ---------------------------------
(***************************************************************************)
(* The daemon seen from its configuration: main, conffile.c with the       *)
(* parser of Apconf, the matcher, and what reads the parameters while it   *)
(* runs - logins, the clean (SIGALRM), the dump (SIGUSR1), the reload      *)
(* (SIGHUP) and the exit (SIGTERM), for both kinds of database.            *)
(*                                                                         *)
(* A reload happens inside main's loop, one step per statement, and other  *)
(* signals may be delivered between these steps.  What module AuthText     *)
(* takes apart - auth_text_add, auth_text_clean - is one step here.        *)
(*                                                                         *)
(* A configuration file is the sequence of the lines that zap_comments     *)
(* leaves, each a name and a value.                                        *)
(***************************************************************************)
EXTENDS Apconf, Matcher

CONSTANTS
  Builds,     \* possible values of WITH_DB
  Boots,      \* contents exact may start with, and whether exact.conf's name is
              \* relative: <<exact.conf, server definitions, relative>>
  Edits,      \* contents they may be given later: <<exact.conf, server definitions>>
  LogLines,   \* lines of the mail log: [by, user, host]
  Captures,   \* for each expression, what its second and third group capture
  Atoi,       \* the number a string denotes, where it denotes one
  Paths,      \* file names given for authfile
  PARAMS,     \* entries of param (16 in the source)
  Address,    \* where Berkeley DB returns the data of a record
  Signalled,  \* program points at which SIGALRM and SIGTERM are delivered
  Faults,     \* "logfile", "db": calls that fail
  MaxNow,     \* bound on the clock
  Absent,     \* no file of that name
  DbFile      \* stands for the contents of a Berkeley database

Never == 0
Character == Nat \ {0}  \* what a string may hold; 0 is its end
ReloadPoints == {"free", "open", "read", "check", "servers", "verify"}
Points == ReloadPoints \cup {"init", "logging", "pid", "loop", "dump", "exited"}

\* The values that configuration files give, and the texts captured in definitions.
Values == {L.value : L \in UNION {Range(f[1]) : f \in {g \in Boots \cup Edits : g[1] # Absent}}}
Texts == {L.text : L \in UNION {Range(f[2]) : f \in {g \in Boots \cup Edits : g[2] # Absent}}}

\* A configuration file is a sequence, of whatever lines.
FileOK(file) == file = Absent \/ file \in Seq(Range(file))

\* So is a file of definitions, of lines that some of the expressions match.
DefsOK(file) == file = Absent \/ file \in Seq([has : SUBSET TokenStrings, text : Texts])

ASSUME ExactFilesOK ==
  /\ \A files \in Boots \cup Edits : FileOK(files[1]) /\ DefsOK(files[2])
  /\ \A files \in Boots : files[3] \in BOOLEAN

ASSUME ExactNullOK ==
  NULL \notin Paths \cup Values \cup Texts \cup Sections(Texts)
           \cup {"db", "text", "username,address", "address,username"}

ASSUME ExactConstantsOK ==
  /\ Builds \subseteq BOOLEAN
  /\ PARAMS \in Nat /\ MaxNow \in Nat \ {0} /\ Address \in Int
  /\ Signalled \subseteq ReloadPoints \cup {"loop", "dump"}
  /\ Faults \subseteq {"logfile", "db"}
  /\ \A e \in DOMAIN Captures : Captures[e] \in {<<"user", "host">>, <<"host", "user">>}
  /\ \A l \in LogLines :
       l.by \in DOMAIN Captures /\ l.user \in Seq(Character) /\ l.host \in Seq(Character)

VARIABLES
  withdb,    \* how exact was built
  conf,      \* the configuration file
  defs,      \* the server definitions
  relative,  \* -c was given a relative name
  read,      \* both files, as they were when they were last opened
  param,     \* the parameters; param_max is its length
  s,         \* parse_rule_section's static section
  i,         \* loop index of conffile_read and of auth_text_dump
  hup,       \* inside conffile_reload
  patbuf,    \* the expression compiled by match_init
  pc,
  status,    \* how the process ended
  failed,    \* history: the kind of call whose failure ended it, if one did
  now,
  table,     \* the text database: when each name was added, or Never
  dbopen,    \* db is open
  stored,    \* the records of the file db was opened on
  relay,     \* the file of each name: Absent, names, or DbFile
  pidfiles,  \* names of the pid files there are
  dump       \* the hosts written to the dump file so far, during a dump

worldVars   == <<withdb, conf, defs, relative>>
confVars    == <<read, param, s, i, hup>>
mainVars    == <<patbuf, pc, status, failed>>
serviceVars == <<now, table, dbopen, stored, relay, pidfiles, dump>>
vars == <<worldVars, confVars, mainVars, serviceVars>>

Names == {Cut(l.user) : l \in LogLines} \cup {Cut(l.host) : l \in LogLines}
Known(times) == {h \in Names : times[h] # Never}
None == [h \in Names |-> Never]

Goto(point) == pc' = point /\ UNCHANGED <<status, failed>>
Die(code) == pc' = "exited" /\ status' = code /\ UNCHANGED failed
Fail(call, code) == call \in Faults /\ pc' = "exited" /\ status' = code /\ failed' = call

-----------------------------------------------------------------------------
(* conffile.c                                                              *)

\* Mutant: the last setting of a name counts.
conffile_param_last(name) ==
  LET hits == {k \in DOMAIN param : param[k].name = name}
  IN  IF hits = {} THEN NULL ELSE param[Max(hits)].value

\* The first entry of that name.
conffile_param(name) ==
  LET hits == {k \in DOMAIN param : param[k].name = name}
  IN  IF hits = {} THEN NULL ELSE param[Min(hits)].value

atoi(value) == IF value \in DOMAIN Atoi THEN Atoi[value] ELSE 0
conffile_param_int(name) == atoi(conffile_param(name))

Entry(line) == [name |-> line.name, value |-> line.value, literal |-> FALSE]
LiteralEntry(name, value) == [name |-> name, value |-> value, literal |-> TRUE]

Init ==
  /\ withdb \in Builds
  /\ \E files \in Boots : conf = files[1] /\ defs = files[2] /\ relative = files[3]
  /\ read = [conf |-> Absent, defs |-> Absent]
  /\ param = <<>>
  /\ s = Section0
  /\ i = 0
  /\ hup = FALSE
  /\ patbuf = NULL
  /\ pc = "open"
  /\ status = "running"
  /\ failed = "none"
  /\ now = 1
  /\ table = None
  /\ dbopen = FALSE
  /\ stored = None
  /\ relay = [p \in Paths |-> Absent]
  /\ pidfiles = {}
  /\ dump = <<>>

\* SIGHUP, while main is in its loop.
conffile_reload ==
  /\ pc = "loop"
  /\ Goto("free")
  /\ hup' = TRUE
  /\ UNCHANGED <<worldVars, read, param, s, i, patbuf, serviceVars>>

\* Mutant: param_max keeps its value.
FreedNot == param

\* What conffile_free leaves.
Freed == <<>>

\* conffile_free; the names server_check has added are literals, which free may
\* answer with an abort or ignore.
Free ==
  /\ pc = "free"
  /\ \/ Goto("open") /\ param' = Freed
     \/ /\ \E k \in DOMAIN param : param[k].literal
        /\ Die("SIGABRT")
        /\ UNCHANGED param
  /\ UNCHANGED <<worldVars, read, s, i, hup, patbuf, serviceVars>>

\* daemonize has changed to the root directory by the time of a reload.
Openable == conf # Absent /\ ~(relative /\ hup)

\* conffile_read opens the file, or exit(5).
Open ==
  /\ pc = "open"
  /\ \/ Openable /\ Goto("read") /\ read' = [read EXCEPT !.conf = conf]
     \/ ~Openable /\ Die("5") /\ UNCHANGED read
  /\ i' = 0
  /\ UNCHANGED <<worldVars, param, s, hup, patbuf, serviceVars>>

\* One line becomes an entry, whatever their number.
ReadLine ==
  /\ pc = "read"
  /\ i < Len(read.conf)
  /\ param' = Append(param, Entry(read.conf[i + 1]))
  /\ i' = i + 1
  /\ UNCHANGED <<worldVars, read, s, hup, mainVars, serviceVars>>

ReadDone ==
  /\ pc = "read"
  /\ i = Len(read.conf)
  /\ Goto("check")
  /\ i' = 0
  /\ UNCHANGED <<worldVars, read, param, s, hup, patbuf, serviceVars>>

\* Mutant: the pid file's name is not looked for.
required_s_five == {"maillog", "serverdefs", "server", "authfile", "dumpfile"}

\* Only the first six of the nine names in required_s are looked for.
required_s == {"pidfile", "maillog", "serverdefs", "server", "authfile", "dumpfile"}
required_i == {"timeout", "flush", "suspicious"}

\* Mutant: numbers are not looked at.
MissingNames == \E name \in required_s : conffile_param(name) = NULL

Missing ==
  \/ \E name \in required_s \cup required_i : conffile_param(name) = NULL
  \/ \E name \in required_i : conffile_param_int(name) = 0

conffile_check ==
  /\ pc = "check"
  /\ \/ ~Missing /\ Goto("servers")
     \/ Missing /\ Die("4")
  /\ UNCHANGED <<worldVars, confVars, patbuf, serviceVars>>

\* The first half of server_check: read the definitions and add two parameters.
\* strdup fails on a setting no stanza has had so far.
Servers ==
  /\ pc = "servers"
  /\ read' = [read EXCEPT !.defs = defs]
  /\ IF defs = Absent THEN Die("4") /\ UNCHANGED <<param, s>>
     ELSE LET parse == apconf_read(defs, s)
              a == apconf_getsec(parse.sections, conffile_param("server"))
          IN  /\ s' = parse.s
              /\ \/ parse.at = "crash" /\ Die("SIGSEGV") /\ UNCHANGED param
                 \/ parse.at = "error" /\ Die("4") /\ UNCHANGED param
                 \/ parse.at = "top" /\ a = NULL /\ Die("4") /\ UNCHANGED param
                 \/ /\ parse.at = "top" /\ a # NULL
                    /\ NULL \in {a.order, a.match}
                    /\ Die("SIGSEGV") /\ UNCHANGED param
                 \/ /\ parse.at = "top" /\ a # NULL
                    /\ NULL \notin {a.order, a.match}
                    /\ param' = param \o <<LiteralEntry("order", a.order), LiteralEntry("match", a.match)>>
                    /\ Goto("verify")
  /\ UNCHANGED <<worldVars, i, hup, patbuf, serviceVars>>

Orders == {"username,address", "address,username"}

\* The second half; strcmp fails on an authtype that is not there.  Then main goes
\* on to its next call, or conffile_reload returns into main's loop.
Verify ==
  /\ pc = "verify"
  /\ LET order == conffile_param("order")
         authtype == conffile_param("authtype")
     IN  \/ /\ order \in Orders /\ authtype \in {"db", "text"}
            /\ Goto(IF hup THEN "loop" ELSE "init")
            /\ hup' = FALSE
         \/ /\ order \notin Orders \/ authtype \notin {NULL, "db", "text"}
            /\ Die("4")
            /\ hup' = hup
         \/ order \in Orders /\ authtype = NULL /\ Die("SIGSEGV") /\ hup' = hup
  /\ UNCHANGED <<worldVars, read, param, s, i, patbuf, serviceVars>>

-----------------------------------------------------------------------------
(* The databases.                                                          *)

UsesDb == withdb /\ conffile_param("authtype") = "db"
NoAuthtype == withdb /\ conffile_param("authtype") = NULL

\* auth_write_text, after which control is at point.  fopen and rename fail on
\* a null name.
auth_write_text(hosts, point) ==
  \/ conffile_param("authtemp") = NULL /\ Die("21") /\ UNCHANGED relay
  \/ /\ conffile_param("authtemp") # NULL
     /\ conffile_param("authfile") = NULL
     /\ Die("22") /\ UNCHANGED relay
  \/ /\ NULL \notin {conffile_param("authtemp"), conffile_param("authfile")}
     /\ relay' = [relay EXCEPT ![conffile_param("authfile")] = hosts]
     /\ Goto(point)

auth_text_add(h) ==
  /\ table' = [table EXCEPT ![h] = now]
  /\ \/ table[h] # Never /\ Goto("loop") /\ UNCHANGED relay
     \/ table[h] = Never /\ auth_write_text(Known(table'), "loop")
  /\ UNCHANGED stored

\* put, which may end in exit(22), and sync, which may end in exit(23).
auth_db_add(h) ==
  /\ \/ ~dbopen /\ Die("SIGSEGV") /\ UNCHANGED stored
     \/ dbopen /\ Fail("db", "22") /\ UNCHANGED stored
     \/ /\ dbopen
        /\ stored' = [stored EXCEPT ![h] = now]
        /\ Goto("loop") \/ Fail("db", "23")
  /\ UNCHANGED <<table, relay>>

\* Mutant: an entry goes a second early.
TextExpiredEarly(timeout) == {h \in Known(table) : now - table[h] >= timeout - 1}

TextExpired(timeout) == {h \in Known(table) : now - table[h] >= timeout}

auth_text_clean ==
  /\ table' = [h \in Names |->
                 IF h \in TextExpired(conffile_param_int("timeout")) THEN Never ELSE table[h]]
  /\ auth_write_text(Known(table'), pc)
  /\ UNCHANGED stored

\* The age of a record is taken from the address of its data.
auth_db_clean ==
  /\ \/ ~dbopen /\ Die("SIGSEGV") /\ UNCHANGED stored
     \/ dbopen /\ Fail("db", "22") /\ UNCHANGED stored
     \/ /\ dbopen
        /\ stored' = IF now - Address > conffile_param_int("timeout") THEN None ELSE stored
        /\ Goto(pc)
  /\ UNCHANGED <<table, relay>>

opendb ==
  \/ Fail("db", "22") /\ UNCHANGED <<relay, dbopen>>
  \/ /\ dbopen' = TRUE
     /\ relay' = [relay EXCEPT ![conffile_param("authfile")] = DbFile]
     /\ Goto("logging")

auth_init ==
  \/ ~UsesDb /\ auth_write_text({}, "logging") /\ UNCHANGED dbopen
  \/ UsesDb /\ opendb

auth_add(h) ==
  \/ UsesDb /\ auth_db_add(h)
  \/ ~UsesDb /\ auth_text_add(h)

\* Closes db, open or not, in a build that has it.
auth_exit ==
  \/ withdb /\ ~dbopen /\ Die("SIGSEGV") /\ UNCHANGED dbopen
  \/ (withdb => dbopen) /\ Die("0") /\ dbopen' = FALSE

-----------------------------------------------------------------------------
(* main                                                                    *)

\* The expression compiled, if it can be.
match_init == IF conffile_param("match") \in DOMAIN Captures THEN conffile_param("match") ELSE NULL

\* match_init, whose result nobody looks at, daemonize, auth_init.
SetUp ==
  /\ pc = "init"
  /\ patbuf' = match_init
  /\ auth_init
  /\ UNCHANGED <<worldVars, confVars, now, table, stored, pidfiles, dump>>

logger_init(use_syslog) ==
  \/ Goto("pid")
  \/ ~use_syslog /\ conffile_param("logfile") # NULL /\ Fail("logfile", "100")

\* Where the log goes; strcmp fails on a parameter that is not there.
Logging ==
  /\ pc = "logging"
  /\ LET logging == conffile_param("logging") IN
       \/ logging \in {"syslog", "internal"} /\ logger_init(logging = "syslog")
       \/ logging \notin {NULL, "syslog", "internal"} /\ Die("100")
       \/ logging = NULL /\ Die("SIGSEGV")
  /\ UNCHANGED <<worldVars, confVars, patbuf, serviceVars>>

\* writepid, the handlers for SIGHUP, SIGUSR1 and SIGTERM, and tail_open.
writepid ==
  /\ pc = "pid"
  /\ pidfiles' = pidfiles \cup {conffile_param("pidfile")}
  /\ Goto("loop")
  /\ UNCHANGED <<worldVars, confVars, patbuf, now, table, dbopen, stored, relay, dump>>

\* match_line's answer to a line that the compiled expression matches.
Matched(l) == match_line(conffile_param("order"), [k \in 2..3 |-> l[Captures[patbuf][k - 1]]])

\* onepass has a line: match_line, and auth_add if it matches.  An expression that
\* did not compile is not there to match with.
Line(l) ==
  /\ pc = "loop"
  /\ \/ patbuf = NULL /\ Die("SIGSEGV") /\ UNCHANGED <<table, stored, relay>>
     \/ patbuf = l.by /\ auth_add(Matched(l).hostname)
  /\ UNCHANGED <<worldVars, confVars, patbuf, now, dbopen, pidfiles, dump>>

-----------------------------------------------------------------------------
(* The other handlers.  SIGALRM and SIGTERM may interrupt the reload and   *)
(* the dump.                                                               *)

Delivered == pc \in Signalled /\ (hup \/ pc \in {"loop", "dump"})

auth_clean ==
  /\ Delivered
  /\ \/ NoAuthtype /\ Die("SIGSEGV") /\ UNCHANGED <<table, stored, relay>>
     \/ /\ ~NoAuthtype /\ conffile_param("timeout") = NULL
        /\ Die("52") /\ UNCHANGED <<table, stored, relay>>
     \/ conffile_param("timeout") # NULL /\ UsesDb /\ auth_db_clean
     \/ conffile_param("timeout") # NULL /\ ~NoAuthtype /\ ~UsesDb /\ auth_text_clean
  /\ UNCHANGED <<worldVars, confVars, patbuf, now, dbopen, pidfiles, dump>>

\* strcmp's order of names: the first character that differs decides, 0 being the end.
CharAt(a, k) == IF k <= Len(a) THEN a[k] ELSE 0
Before(a, b) ==
  \E k \in 1..Len(b) :
    CharAt(a, k) < CharAt(b, k) /\ \A j \in 1..(k - 1) : CharAt(a, j) = CharAt(b, j)

\* Mutant: the table is sorted the other way round.
RankReversed(times, h) == Cardinality({g \in Known(times) : Before(h, g)})

\* The index of h in the table, which is sorted whenever main is in its loop.
Rank(times, h) == Cardinality({g \in Known(times) : Before(g, h)})

\* What can happen to exact when it lists db.
auth_db_dump ==
  \/ ~dbopen /\ Die("SIGSEGV")
  \/ dbopen /\ Fail("db", "22")

\* SIGUSR1, while main is in its loop: the dump file is opened and emptied.  A file
\* that cannot be opened is given up.
auth_dump ==
  /\ pc = "loop"
  /\ \/ UsesDb /\ auth_db_dump
     \/ ~UsesDb /\ Goto("dump")
  /\ UNCHANGED <<worldVars, confVars, patbuf, serviceVars>>

\* One turn of auth_text_dump's loop, over the table as it is by then.
auth_text_dump ==
  /\ pc = "dump"
  /\ \E h \in Known(table) : Rank(table, h) = i /\ dump' = Append(dump, h)
  /\ i' = i + 1
  /\ UNCHANGED <<worldVars, read, param, s, hup, mainVars, now, table, dbopen, stored, relay, pidfiles>>

\* The dump file is closed; exact does not look at it again.
Dumped ==
  /\ pc = "dump"
  /\ i >= Cardinality(Known(table))
  /\ Goto("loop")
  /\ i' = 0
  /\ dump' = <<>>
  /\ UNCHANGED <<worldVars, read, param, s, hup, patbuf, now, table, dbopen, stored, relay, pidfiles>>

\* SIGTERM.
exit_handler ==
  /\ Delivered
  /\ pidfiles' = pidfiles \ {conffile_param("pidfile")}
  /\ auth_exit
  /\ relay' = [p \in Paths |-> IF p = conffile_param("authfile") /\ status' = "0" THEN Absent ELSE relay[p]]
  /\ UNCHANGED <<worldVars, confVars, patbuf, now, table, stored, dump>>

\* The administrator edits the files.  What they hold shows when they are opened:
\* any edit since the last time is this one.
Edit ==
  /\ pc = "open" /\ hup
  /\ \E files \in Edits : conf' = files[1] /\ defs' = files[2]
  /\ UNCHANGED <<withdb, relative, confVars, mainVars, serviceVars>>

Tick ==
  /\ pc = "loop"
  /\ now < MaxNow
  /\ now' = now + 1
  /\ UNCHANGED <<worldVars, confVars, mainVars, table, dbopen, stored, relay, pidfiles, dump>>

Next ==
  \/ conffile_reload \/ Free \/ Open \/ ReadLine \/ ReadDone \/ conffile_check \/ Servers \/ Verify
  \/ SetUp \/ Logging \/ writepid
  \/ \E l \in LogLines : Line(l)
  \/ auth_clean \/ auth_dump \/ auth_text_dump \/ Dumped \/ exit_handler
  \/ Edit \/ Tick

Spec == Init /\ [][Next]_vars

\* auth_alarm is never 0, so there is always a next SIGALRM.
CleaningSpec == Spec /\ WF_vars(auth_clean)

-----------------------------------------------------------------------------
(* What the files say, without reading them the way exact does.            *)

\* The value of the first line of that name.
Declared(file, name) ==
  LET hits == {k \in DOMAIN file : file[k].name = name}
  IN  IF hits = {} THEN NULL ELSE file[Min(hits)].value

\* What order or match, token t of the definitions, is set to.
Chosen(files, name, t) ==
  IF Declared(files.conf, name) # NULL THEN Declared(files.conf, name)
  ELSE Setting(files.defs, Declared(files.conf, "server"), t)

\* What conffile_check looks for, of the nine names it lists and three numbers.
Needed == {"pidfile", "maillog", "serverdefs", "server", "authfile", "dumpfile"}
NeededNumbers == {"timeout", "flush", "suspicious"}

\* Everything conffile_check asks of the configuration file alone is there.
Filled(files) ==
  /\ \A name \in Needed \cup NeededNumbers : Declared(files.conf, name) # NULL
  /\ \A name \in NeededNumbers : atoi(Declared(files.conf, name)) # 0
  /\ Declared(files.conf, "authtype") \in {"db", "text"}

\* The files leave nothing open.
Sufficient(files) ==
  /\ Absent \notin {files.conf, files.defs}
  /\ Filled(files)
  /\ Complete(files.defs, Declared(files.conf, "server"))
  /\ Chosen(files, "order", TOKEN_ORDER) \in Orders

-----------------------------------------------------------------------------
(* Properties.                                                             *)

\* The type of the state.
TypeOK ==
  /\ withdb \in BOOLEAN /\ relative \in BOOLEAN /\ hup \in BOOLEAN
  /\ s \in Sections(Texts)
  /\ \A k \in DOMAIN param : param[k].value \in Values \cup Texts
  /\ i \in Nat /\ now \in 1..MaxNow
  /\ patbuf \in DOMAIN Captures \cup {NULL}
  /\ pc \in Points
  /\ status \in {"running", "0", "4", "5", "21", "22", "23", "52", "100", "SIGSEGV", "SIGABRT"}
  /\ pc = "exited" <=> status # "running"
  /\ failed \in Faults \cup {"none"}
  /\ table \in [Names -> 0..MaxNow] /\ stored \in [Names -> 0..MaxNow]
  /\ dbopen \in BOOLEAN
  /\ relay \in [Paths -> (SUBSET Names) \cup {Absent, DbFile}]
  /\ pidfiles \subseteq Values
  /\ dump \in Seq(Names)

\* conffile.c:45 makes room for PARAMS parameters; lines 177 and 99 to 104, which
\* add one, do not look.
TableBound == Len(param) <= PARAMS

\* However often the files are read again, and whatever interrupts it, the table holds
\* the lines of a single configuration file, in order, and behind them no more
\* than the two entries of server_check: nothing of an earlier file, and no line twice.
TableOfOneFile ==
  param # <<>> =>
    /\ \A k \in DOMAIN param : k <= Len(read.conf) => param[k] = Entry(read.conf[k])
    /\ Len(param) <= Len(read.conf) + 2

\* The parser with its state between calls accepts the files that consist of
\* whole stanzas, and finds in the stanza asked for what is written in it, however
\* many there are before it and whatever an earlier file has left (apconf.c:119).
ParsedAsWritten ==
  pc = "servers" /\ defs # Absent =>
    LET parse == apconf_read(defs, s) IN
      /\ parse.at = "top" <=> WellFormed(defs)
      /\ parse.at = "top" =>
           \A name \in Texts :
             LET a == apconf_getsec(parse.sections, name) IN
               /\ a = NULL <=> Opening(defs, name) = 0
               /\ a # NULL =>
                    /\ Setting(defs, name, TOKEN_ORDER) \in {NULL, a.order}
                    /\ Setting(defs, name, TOKEN_MATCH) \in {NULL, a.match}

\* Once exact serves, again after each reload, every parameter is what the file
\* read last says, and what conffile_check looks for is there, the numbers not 0
\* (conffile.c:70, 123, 192).  It does not look for authtemp and logging, which
\* the code needs as well: those may be missing (see EndsForCause).
ParametersAreTheFile ==
  pc \in {"loop", "dump"} =>
    /\ Filled(read)
    /\ \A name \in {read.conf[k].name : k \in DOMAIN read.conf} :
         conffile_param(name) = Declared(read.conf, name)

\* order and match come from the first stanza of the server's name, by way of two
\* files and the two entries that server_check adds, unless the configuration file
\* has entries of these names before them (conffile.c:99 to 104).
StanzaHolds ==
  pc \in {"loop", "dump"} /\ Complete(read.defs, Declared(read.conf, "server")) =>
    /\ conffile_param("order") = Chosen(read, "order", TOKEN_ORDER)
    /\ conffile_param("match") = Chosen(read, "match", TOKEN_MATCH)

\* A handler may find less in the table than the file has.
HalfRead == hup /\ Len(param) < Len(read.conf)

\* Every way exact ends, but for SIGTERM's exit(0), has its cause in the files, in a
\* call that failed, or in one of five defects of the code: settings that are
\* never checked (authtemp, logging), a handler that finds the table of a
\* reload half read, a database that was never opened, an expression that
\* did not compile, and literals given to free.
EndsForCause ==
  /\ status = "4" => ~Sufficient(read)
  /\ status = "5" => conf = Absent \/ (relative /\ hup)
  /\ status = "21" => HalfRead \/ Declared(read.conf, "authtemp") = NULL
  /\ status = "22" => HalfRead \/ (hup /\ Declared(read.conf, "authfile") = NULL) \/ failed = "db"
  /\ status = "23" => failed = "db"
  /\ status = "52" => HalfRead \/ (hup /\ Declared(read.conf, "timeout") = NULL)
  /\ status = "100" =>
       failed = "logfile" \/ Declared(read.conf, "logging") \notin {NULL, "syslog", "internal"}
  /\ status = "SIGABRT" => hup
  /\ status = "SIGSEGV" =>
       \/ ~Sufficient(read) \/ Declared(read.conf, "logging") = NULL
       \/ withdb /\ (HalfRead \/ ~dbopen)
       \/ patbuf = NULL /\ pidfiles # {}

\* The relay file that a clean, a login or the exit touches is the one the file read
\* last names, also amid a reload (auth.c:194, exact.c:177).
PublishesWhereItSays ==
  [][\A p \in Paths : relay'[p] # relay[p] => p = Declared(read.conf, "authfile")]_vars

\* No clean drops a host before the time the file read last gives it (auth.c:361),
\* also amid a reload.
TimeoutAsConfigured ==
  [][\A h \in Names : table[h] # Never /\ table'[h] = Never =>
       now - table[h] >= atoi(Declared(read.conf, "timeout"))]_vars

\* order tells the groups of the compiled expression apart.
OrderFits ==
  conffile_param("order") = "username,address" <=> Captures[patbuf] = <<"user", "host">>

\* What is let through is the host of a line, as much of it as fits, and never the
\* user, as long as order fits the compiled expression (match.c:45, 80).
HostsOnly ==
  [][\A h \in Names : table'[h] # table[h] /\ table'[h] # Never /\ OrderFits =>
       \E l \in LogLines :
         /\ l.by = patbuf
         /\ IsPrefix(h, l.host)
         /\ h = l.host \/ Len(h) = MATCH_LOGIN_MAX]_vars

\* A clean amid a dump moves the rest of the table up under the loop index
\* (auth.c:98): the dump misses live hosts, but no more than it has listed hosts
\* that are gone, and lists none twice.
DumpMissesOneForOne ==
  /\ Cardinality(ToSet(dump)) = Len(dump)
  /\ pc = "dump" /\ dump # <<>> =>
       Cardinality({h \in Known(table) \ ToSet(dump) : Before(h, Last(dump))})
         <= Cardinality(ToSet(dump) \ Known(table))

\* exact.8 says of SIGHUP that exact reads its configuration files again: files that
\* leave nothing open do not end it.
HupRereads ==
  pc = "exited" /\ hup /\ ~relative => ~Sufficient([conf |-> conf, defs |-> defs])

\* exact.conf says that timeout is the number of seconds before an address is
\* removed: one that is older goes, unless it is used again or exact ends.
ExpiredRemoved ==
  \A h \in Names :
    /\ pc = "loop" /\ dbopen
    /\ stored[h] # Never /\ now - stored[h] > atoi(Declared(read.conf, "timeout"))
    ~> stored[h] = Never \/ pc # "loop"
=============================================================================
