# A TLA+ model of EXACT

EXACT is a POP-before-SMTP daemon.  It follows the log of a POP or IMAP
server; when a line tells of a successful login it puts the client's address
into a *relay file*, from which the mail server learns for whom it may relay,
and it takes the address out again some time after its last login.

This directory holds TLA+ modules that follow the C code of the daemon, TLC
configurations that check them on small instances, and TLAPS proofs of what they
say, but for liveness, for every instance.

## 1. The system

| component | code | state it keeps | operations |
|---|---|---|---|
| text authentication database | `auth.c` | two arrays `auth`/`shadow_auth` of (host, time), `auth_cur`, `auth_max`, the temporary and the relay file | `auth_init`, `auth_add` → `auth_text_add`, `auth_clean` (SIGALRM), `auth_exit` |
| log follower | `tail.c`, `onepass` in `exact.c` | open log `f` and its offset, the nap `paws`, time of last growth `last`, the buffer | `tail_open`, `tail_read`, `tail_reopen`, the line loop of `onepass` |
| process life cycle | `exact.c`, `daemon.c` | pid file, installed handlers, `-p` | `main`, `checkpid`, `daemonize`, `writepid`, `exit_handler` (SIGTERM) |
| dump | `auth.c` | the dump file, the loop index of `auth_text_dump` | `auth_dump` (SIGUSR1) |
| line matcher | `match.c` | compiled expression `patbuf`, static `match_login` | `match_init`, `match_line` |
| configuration | `conffile.c` | table of 16 name/value pairs | `conffile_read`, `conffile_check`, `conffile_reload` (SIGHUP), lookups |
| server definitions | `apconf.c` | table of stanzas, the static section a stanza is collected in | `apconf_read`, `apconf_getsec` |
| Berkeley DB database | `auth.c` under `WITH_DB` | `db`, a table kept by the library | `opendb`, `auth_db_add`, `auth_db_clean`, `auth_db_dump`, `auth_exit` |
| logging | `logger.c` | syslog or a file | `logger_init`, `logger` |

How they meet.  `main` sets everything up and then calls `onepass` for ever:
`tail_read` naps, reads what the log has grown by, `match_line` looks at each
line, `auth_add` takes the host.  There are no threads.  What makes the program
hard is that four signal handlers run *inside* this loop, wherever it is, and
share its globals without any protection: the clean (SIGALRM, every `flush`
seconds) exchanges the two arrays and rewrites the relay file; the reload
frees the configuration; the dump reads the table; the exit handler removes
files.  The rest of the difficulty is outside: a log that others write, rotate,
remove and truncate; two files shared with the mail server and with other
processes of the same program; writes that fail; processes that die.

What has to be right:

* **database**: the relay file lists exactly the hosts that logged in within
  the last `timeout` seconds (give or take a flush period); it is replaced as a
  whole; it never names a host that has not logged in; the table stays sorted,
  because `bsearch` is used on it; nothing is written past the arrays; the daemon
  does not end because of its own signal.
* **log follower**: every line is seen once and in order, across rotations;
  the daemon survives whatever is done to the log; it does not poll in a
  busy loop.
* **life cycle**: one daemon at a time; the pid file leads to it; a crash does
  not prevent the next start; after SIGTERM there is no relay file.
* **configuration, matcher, parser**: what governs the daemon is what the files
  say, also after a reload and for a handler that interrupts one; files that will
  not do are refused at the start and not found out later; names are cut to the
  size of their arrays; a stanza's fields are its own; a faultless reload does not
  end the daemon.
* **dump**: it lists each host in the table once.

`PROJECT.json` lists the hazards one by one, each at its line.

## 2. Modules

    RelayService          what the mail server is promised (abstract)
      ^ implemented by
    AuthText              text database + SIGALRM handler, statement by statement
      AuthTextService       the refinement mapping
        MCAuthText            instances for TLC
      AuthTextProofs        types, memory safety, relay file = table
        AuthTextServedProofs  only hosts that logged in are relayed for
        AuthTextCalmProofs    until the signal has come at a bad moment: who is
                              relayed for, atomic replacement; what ends exact
          AuthTextServiceProofs the refinement, step by step
    Tail                  log follower + the world that writes and rotates the log
      TailProofs            no line twice or late, none missed
    Lifecycle             processes, pid file, relay file, SIGTERM
      LifecycleProofs       one daemon, its files, checkpid
    Exact                 one process and its configuration: main, conffile.c, the
                          reload, logins, clean, dump, exit, both databases
      Apconf                the parser of the server definitions
        ApconfProofs          what it accepts and finds, for files of any length
      Matcher               from sub-expressions to names
      MCExact               files and log lines for TLC
      ExactProofs           what the parameters are and govern, the dump, the exits

### AuthText

One action for every statement of `auth_text_add`, `auth_init_mem` and
`auth_write_text` that touches shared state: `Present` (bsearch), `Update`
(`e->t=`), `Test` (`auth_cur==auth_max`), `Raise` (`auth_max+=`), `Realloc` and
`Assign` (a call of realloc and the assignment of its result, for each of the
two arrays), `Fill` (strncpy), `Stamp`, `Count`, `SortSwap`/`SortDone` (qsort),
`Open`, `Fprintf` (one turn of the loop each), `Close`, `Rename`.  `auth_clean` is
the whole handler in one action: it copies the live entries to the shadow array,
exchanges the arrays, runs `auth_write_text` to its end (`auth_text_clean`) and
re-arms the alarm.  It may be taken at every program point in the constant
`Interruptible`.

Points that need explaining:

* `auth_text_add` re-reads the globals in every statement; only what a compiler
  keeps across statements is in a local: `e`, the count handed to qsort (`n`),
  its base (`base`), and `auth_cur++`, which may or may not have loaded its
  operand before the signal (`Count` allows both).
* Each array has a `size` of its own.  The second realloc takes whatever array
  `shadow_auth` points to by then: if the handler has exchanged them in between,
  one is grown twice and the other not at all.  Between a realloc's return and
  the assignment the pointer dangles.  An access past an array, or through a
  dangling pointer, leads to `pc = "corrupt"`, from where there is only a restart
  (`Overreach`, `Corrupt`).
* A relay text fits into one stdio buffer, so that `fprintf` only fills `out`
  and `fclose` (or `exit`) writes.  `stream` is the *name* the file main has
  open goes by at the moment: the handler's `rename` turns "temp" into "auth",
  a second one into "gone".  What is flushed then goes over the start of
  that file.  The handler's own stream lives and dies within its action.
* Names differ in length, and files are written by bytes.  A write that is cut
  short (`Flushed`) may end inside a line; text written over a longer one
  (`Overlays`) may end inside one of the old lines, any number of which it may have
  covered, and leaves the end of that line (`Remnants`).  Such a piece of a line is a
  `Fragment`: it may be another host's address.
* `upset` is a history variable, the set of what has gone wrong since the start:
  SIGALRM while the arrays are being reallocated ("growth": from the first realloc to
  the assignment of the second's result), between finding or filling an entry and
  the end of the sort ("entry"), or between fopen and rename ("write"); a text
  "cut" short; a file operation that "failed".  `Calm` is the absence of the
  first three.
* The array main sorts stays the one it passed to qsort (`base`); qsort is
  taken to exchange out-of-order pairs in any order.
* `bsearch` on an unsorted array may miss (`auth_present`).
* `Faults`: `fopen` or `rename` fail, a write is cut short anywhere, the process
  is killed.  `Start` is a new process in any of these cases, and after
  exit(21), exit(22) and a corruption.
* Names are numbers in strcmp's order; 0 is the empty string of a fresh slot: arrays of
  this size (some four megabytes) come as zeroed pages, at first and when they grow.
* `lastLogin` is a history variable: when main last served each host.

### RelayService and the refinement

`RelayService` has sessions (host → time of last login) and a relay set.  A
login must be published before the next one; a clean ends exactly the sessions
older than `Timeout` and publishes what is left; time does not pass when a session
would become `Timeout + Flush` old.  A daemon that is starting may take down the list
of the one before it even before it serves: a clean may come to that before
auth_init does.  `AuthTextService` maps a session to the entry of its host in the
current array (counting the one whose `auth_cur++` is under way) and the relay set
to the lines of the file.

### Tail

A log file is a sequence of pieces, a line's number for its text and `NL` for
its newline, so that a torn line is two writes.  `disk` holds all files, `maillog`
says which one has the configured name, `writer` which one syslogd has open.
exact's actions are the stretches of `tail_read` between which the world can
make a difference: `Nap`, `Measure` (fseek/ftell, suspicion), `Reopen`, `Retry`
(no file open), `Read` (fread and the new nap), `GiveUp` (exit 30 and 31), and
`onepass`'s loop over the buffer, a `Line` at a time until `PassOver`.  `bufflen` may
be negative: this is where the code's unsigned `tail_bufflen` wraps to some four
gigabytes.  The world may log, rotate
(with or without a gap), recreate, move syslogd over late, truncate; `Mishaps`
names what it may do against the assumptions of section 3.

### Lifecycle

Processes are their numbers.  Each goes through `main`: `ReadPid`, `KillZero`
(checkpid), `Daemonize` (staying itself with `-f`, going on under a free
number otherwise), `AuthInit` (empties the relay file), `OpenPid`, `ClosePid`
(writepid; the number is in the file from the fclose on), `Signals`, `TailOpen`,
then `Serve` and `Clean` until `Term`.  SIGTERM kills a process that has not
installed its handler; otherwise `UnlinkPid`, `UnlinkAuth`, `ExitZero`, with `Clean`
possible before, between and after them.  `Fail`
is every exit on the way, none of which cleans up.  The database is reduced to
the set of its hosts and its publication.  `linked` remembers whether a pid file
that is being written still has its name.

### Exact, Apconf, Matcher

The daemon seen from its configuration.  `main` is a chain of steps, from
`Open` to `writepid`, and then its loop, in which it takes a line of the log
(`Line`).  SIGHUP (`conffile_reload`) takes it back through the same functions,
one step for each: `Free` (conffile_free), `Open`, `ReadLine` for each line,
`ReadDone`, `conffile_check`, `Servers` and `Verify` (the halves of
server_check).  `hup` tells the reload from the start.  SIGALRM
(`auth_clean`) and SIGTERM (`exit_handler`) may be delivered at each point in
`Signalled`, that is between any two of these steps and within a dump; SIGHUP and
SIGUSR1 only in main's loop.  `read` is a history variable: the two files as they
were when they were last opened; `failed` is another, the kind of call whose
failure ended exact (`Fail`), if one did.  The properties compare what the code looks up
in `param` with what `read` says.

* A configuration file is a sequence of lines, a line the name and the value that
  zap_comments and the expression leave of it.  `Absent` is no file.
* `param` is a sequence; the second and third copy of a name stay in it, as in the
  code, and the first one counts.  If it outgrows `PARAMS` the model goes on with
  a longer table, and `TableBound` is violated.
* `literal` marks the two entries whose names are string literals.  `Free` may end in
  SIGABRT when there is one (glibc) or ignore it (other libraries), so that
  everything after a reload is checked as well.  conffile_free is one step: what a
  handler reads from a half-freed table is undefined.
* A null pointer that the code follows ends in `SIGSEGV`, one that it hands to
  fopen or rename in an error.
* A line of the definitions is the *set* of token expressions that match it, since
  they are not anchored and the first in `token_regex` wins: `#<server uw>` opens a
  stanza.  `Parsed` is the parse after each line, a recursive function that starts
  from the static section, and `apconf_read` what it comes to at the end of the file; `at = "crash"` is the null pointer followed in the caller,
  `"error"` the one that gets to server_check.  `WellFormed`, `Opening` and
  `Setting` say what a file means without parsing it.
* Names in log lines are sequences of characters, cut to `MATCH_LOGIN_MAX`.
* The text database is a map from names to times.  `auth_text_add`,
  `auth_text_clean` and `auth_write_text` are one step each; AuthText takes them
  apart.  `auth_text_dump` is one step per host, because SIGALRM in between moves the
  table under its index; `dump` holds what it has written so far.  The index of a host
  in the sorted table is the number of those before it (`Rank`), by strcmp's order
  (`Before`).
* The Berkeley database is a map from names to times as well, and `stored` what is
  in its file.  `Address` is where the library returns a record's data.
* `-c` with a relative name (`relative`) fails at the reload: daemonize has changed
  the directory.
* The administrator edits the files at any time; since an edit shows only when they
  are opened, `Edit` happens just before.

## 3. What TLC checks

| run | distinct states | shows |
|---|---|---|
| `auth_service` | 211 thousand | SIGALRM wherever main bears it, failing fopen and rename, crashes anywhere: `ServiceSpec` (RelayService is implemented, publishing included), every login served, nobody relayed for beyond timeout + flush |
| `auth_async` | 4.9 million | SIGALRM anywhere, writes cut at any byte: types, memory safety, only served hosts, relay file = table whenever main is back in its loop, exits; and until a bad moment: sorted table, active hosts kept, atomic replacement |
| `tail_follow` | 12 thousand | a well-treated log: nothing skipped, no exit, every line delivered, naps lengthen again |
| `tail_mishaps` | 1.2 million | an ill-treated log: no line twice or out of order |
| `lifecycle_orderly` | 540 thousand | one daemon, its files, checkpid's verdict |
| `exact_reload` | 980 thousand | some 2800 pairs of files to start with, edits and reloads without end, SIGALRM and SIGTERM amid them: the parser against what a file says, the parameters against the files, what they govern, what may end exact, the dump |
| `auth_torn`, `lifecycle_term`, `tail_torn`, `conf_shipped`, `conf_hup`, `db_timeout` | violations | section 4 |

**Bounds.**  *Database*: the arrays start with one slot and grow by one (the
source has 16384 and 1024), so that two hosts already force growth, and an entry of
the same host twice, which SIGALRM can bring about, forces it again; two hosts are
enough for an inversion, a swap, an entry that is kept while another one is
dropped, and a text that is cut, or written over, inside each of its lines;
`MaxNow` lets a host log in, expire after timeout + flush and log in again;
`MaxEntries` stops logins when the lost-and-found entries of the asynchronous
case would make the table grow for ever.  `MCUpsets` in `auth_async` stops where three of
the five kinds of upset have come together: each property speaks of what one or two of
them break.  *Log*: three files give two rotations,
so that a line can be missed in the middle one; eight lines with a backlog of
three let a new file stay shorter than the old one and still hold two lines;
`PAWS_MAX = 3` microseconds-in-small lets `paws/lines` reach 0.  *Life cycle*:
three numbers give one process that runs, one that starts and one number that
was left behind or belongs to another program; the state space has no other
bound.  *Exact*: all definition files of up to four lines of seven kinds (a stanza,
a commented one, its two settings, its end, a comment, a torn line) and eight chosen
ones, among them one stanza more than `SECTION_MAX = 2` allows, a stanza that
leaves out what another one set, an order that does not exist, an expression
that does not compile; a configuration with all that is needed, ten that lack
something or have it twice, and eleven edits, among them one that takes out
`authtemp` and one that takes out `logging`; hosts of one and of three characters
with `MATCH_LOGIN_MAX = 2`, so that two lines differ in the user and one is cut;
`PARAMS = 16` as in the source; `MaxNow = 2` and timeouts of 1 and 2, so that an edit
decides whether a host is old enough to go.  A start with a Berkeley database is
combined with a relative name, which lets every reload of it fail: an edit to
`authtype = db` is what brings the two databases together.  States with `pc = "exited"` in the runs of `Tail` with mishaps and of `Exact` are the end of
the daemon, so deadlock is not checked there.

**Signals.**  A handler is never interrupted by its own signal and stays
installed (glibc's `signal`, which has BSD semantics).  Nothing in the code holds
SIGALRM back anywhere.  `auth_async` and the proofs therefore let it in everywhere,
and state what it spares (types, memory safety but for the growth, who is relayed for,
relay file = table) and, for the rest, the stretches in which it does harm:
`Growing`, `Entering`, `Writing`.  `auth_service` lets it in at all other points
(`MCHarmless`): with liveness the question is not what holds until the first
harm, and a login that is lost to SIGALRM is not published.

**Time.**  A pending SIGALRM is served before the next second passes.  Without
an assumption of this kind no bound on an entry's life could hold.

**Fairness.**  *AuthText*: weak fairness of main's own statements (`Step`) and of
`auth_clean`: the process is scheduled, and a pending signal is delivered.
Nothing makes hosts log in, time pass, or anybody signal or restart the process.
*RelayService*: weak fairness of publishing, which the refinement has to
justify.  *Tail*: weak fairness of exact's loop, which never blocks longer than a
nap, and strong fairness of a nap that crosses a second: a nap of a few
microseconds rarely does, but the clock goes on.  The world is under no
obligation, not even to end a torn line.  *Exact*: `CleaningSpec`, used by
`db_timeout` alone, has weak fairness of `auth_clean`: conffile_check refuses a
`flush` of 0, so that there is always a next SIGALRM.

**A well-treated log** (`Mishaps = {}`): lines reach the file whole; syslogd
turns to the new file at once; a rotation waits for exact to have followed the
one before, and does not fall between exact's measuring the file and closing it;
and a new file is shorter than the old one for as long as exact has
the old one open.  Each of these is needed, and `Mishaps` can take
each away.

**Orderly starts and stops** (`"overlap" \notin Mishaps`): a start waits until
the start or stop before it is over.  A start while another process runs is
allowed, that is what checkpid is for.

## 4. Where the code does not do what it or its manual says

* `auth_torn` (`RelayReplacedWhole`): SIGALRM between `fopen` and `rename` of
  `auth_write_text`.  The handler uses the same temporary file and
  renames it; main's text is then written into the relay file in place, and
  main's rename ends the daemon with exit(22).  `exact.conf.in:57` promises an
  atomic move.
* `lifecycle_term` (`RelayRemoved`): SIGALRM after `exit_handler` has removed the relay
  file writes it again, and the process is gone before it could be removed.
  `exact.8.in:35` promises the removal.
* `tail_torn` (`NothingSkipped`): a line that is read before its newline was
  written is dropped.  `onepass` looks for the `'\0'` that `tail_read` puts
  behind the buffer "so it can be matched", but stops one byte before it.
* `conf_shipped` (`TableBound`): `param` has 16 entries, `exact.conf.in` sets 15
  parameters, and server_check adds two.  Nothing counts.
* `conf_hup` (`HupRereads`): the reload frees the names of all parameters, two of
  which are string literals.  With glibc SIGHUP ends the daemon, whatever the
  files say, and leaves the relay and the pid file behind.
* `db_timeout` (`ExpiredRemoved`): auth_db_clean takes the pointer to a record's time
  for the time.  With addresses beyond any time nothing is ever removed.

The following have no run of their own; each takes a change of one line of a
configuration.

* `AuthTextAsync.cfg` with `ActiveKept` without `Calm`: SIGALRM between
  `auth_present` and `e->t=`, or between strncpy and `auth_cur++`.  The host that
  has just logged in is forgotten, until it logs in again.
* the same with `pc # "corrupt"` as an invariant: SIGALRM between the two reallocs of
  auth_init_mem exchanges the arrays, so that the second call grows the same one
  again, and the next entry is written past the other one.
* the same with `Fragment \notin Relayed`: main's text, written over the longer one the
  handler has published, or cut by a full disk, leaves a part of a line, which
  may be the address of a host that never logged in.
* `TailFollow.cfg` with `Mishaps = {"outgrown"}` (`NothingSkipped`): rotation is
  recognised by size alone.  A new file that has outgrown the offset in the old
  one is read from there.

Some properties of `Exact` say what holds under a condition that the code does not
ensure.  `HostsOnly` needs `OrderFits`: a reload takes over the new `order` but
does not compile the new `match`, and until exact is started anew users are let
through as hosts if the two differ.  `DumpMissesOneForOne` bounds what a clean
amid a dump makes it miss.  `StanzaHolds` and `ParsedAsWritten` are about settings that
are written; one that a stanza lacks may be left over from another.
`ParametersAreTheFile` promises what conffile_check looks for, which is the first six of
the nine names in `required_s`: without `authtemp` or `logging` exact starts, or
goes on after a reload.

`EndsForCause` is a diagnosis, not a promise of good behaviour: each of the exits 4, 5,
21, 22, 23, 52 and 100, a null pointer and an abort has its cause in the files, in a
call that failed (`failed`), or in one of five defects: `authtemp` or `logging` missing;
a handler that finds the table of a reload half read (`HalfRead`: exit(52), exit(21),
exit(22), a null pointer); `auth_exit` or a reload to `authtype = db` with a
database that was never opened, in a build with Berkeley DB that uses text tables; an
expression that does not compile; literals given to free.  A relative name after
daemonize is one more cause of exit(5).

With `"overlap"` in `Mishaps` the properties of `Lifecycle` fail as well: checkpid and
writepid are far apart, so two simultaneous starts both succeed, and a daemon
that is still in `exit_handler` removes the files of its successor.

## 5. What is proved

All proofs are checked by TLAPS, for every value of the constants
that satisfies the modules' `ASSUME`s.

**AuthTextProofs**: `TypeCorrect`, `NeverOutOfBounds`, `RelayMirrors`, with SIGALRM at
any points and any faults.  `TypeOK` is inductive together with `StreamBound` (main has
a stream only while it prints, and the file that stream names exists) and `SlotBound`
(only the array under qsort may have fewer slots than are counted).  `MemorySafe` needs
`SizeInv`: as long as the upset "growth" has not come, both arrays have
`auth_max` slots whenever they are not being reallocated, and the slot main is
filling and the elements it sorts are inside them.  That is not obvious because main
fills a slot in three statements and reads `auth` and `auth_cur` anew in each: it
rests on the fact that a clean never raises `auth_cur`, and exchanges arrays of equal
size, so that a slot found free stays within the array.  SIGALRM before `auth_max+=`, or
right after it, is harmless, and so the proof shows; from the first realloc to
the last assignment it is not.
`RelayMirrors` is about writes that are not cut short, and assumes nothing about the
signal.  Its invariant `MirrorInv` says, for each point of `auth_write_text`,
what is in the buffer and in the temporary file as long as main's stream is
still the temporary file, and that there is no temporary file once the handler
has taken it, so that main's rename can only fail; the one way
back to the loop is then a rename of a file that lists the table.

**AuthTextServedProofs**: `OnlyServedRelayed`, for every fault and every point
of interruption.  `ServedInv` extends the claim to everything that can reach
the relay file: the temporary file, main's buffer, and every slot of
both arrays, counted or not, because a late `auth_cur++` may count slots of the
array that was the shadow.  The exception is the name main is adding, which is
in the array one statement before its login is on record, in a slot that is not
counted.

**AuthTextCalmProofs**: `ExitCaused`, `ReplacedWhole`, `Searchable`, `ActiveRelayed`,
`FreshRelayed`, for every `Interruptible` and all `Faults`: nothing is assumed
of the signal, the history variable `upset` tells how far the promise goes.
`MarksGrow` says that an upset stays on record until the next start, and that a clean which
leaves the process `Calm` has come at a point of `CalmPoints`.  `ExitCaused`
rests on `TempInv`: the temporary file main has opened is there until main renames
it, unless SIGALRM has struck in between.  `TableInv` says what a whole table is: no
host twice (`Different`), each entry with the time of its host's last login
(`Dated`), an entry for everybody who logged in lately (`Complete`), none that the
next clean will find too old (`Fresh`: age plus time left to the alarm is less than
timeout + flush, which no tick changes), and what main may rely on at each point
(`AtPoint`).  The entry whose login is on record but whose count is not yet stored is taken
as counted (`Counted`); with the signal let in there, this is what breaks.  Order is
not preserved by the statements between `Fill` and `SortDone`, so there the invariant
has `Different` in its place, which every exchange of qsort keeps.  A clean before
`Fill`, while the arrays have yet to grow, or between `SortDone` and `Open` leaves a
whole table, and main goes on with the other array.

**AuthTextServiceProofs**: `ImplementsService`, the safety part of the refinement
(`ServiceSafety`): with SIGALRM anywhere and all faults, every step that leaves nothing
but failed operations on record maps to one of RelayService.  The mapping
eliminates the CHOOSE from the mapped sessions: they are the last logins of the hosts
listed, and the relay set is the hosts listed wherever main has nothing to write.  Then
`Update` and `Stamp` are logins, `Rename` is the publishing or the boot, `auth_clean`
the expiry, which publishes as well when it comes between a login's sort and its
fopen or restarts the list during a start, and `Tick` is allowed because of `Fresh`.

**LifecycleProofs**: `OneAtATime`, `OwnFiles`, `RefusesRightly`,
all without overlap, the last also without reuse of a number that stands in a pid
file; `TypeCorrect` without either.  The invariant: of two
processes one is in its loop and the other has still to
look at the pid file or at its number (`Alone`), that number is the first one's
(`Seen`), because from the fclose in writepid on the pid file is the daemon's
(`OwnPidfile`).  `Unshared` adds that nobody else has the number in the pid file.

**TailProofs**: `TypeCorrect`, `NeverTwice` (InOrderOnce) whatever is done to the log,
and `NothingLost` (NothingSkipped) and `GoesOn` (NeverGivesUp) for a well-treated
one, for any backlog, number of lines and of files.  `Shape` says which files hold anything.  `OrderInv`
adds that the files hold the lines in order, and that everything exact may still
come to read (`MayRead`) comes after all it has delivered or has in its buffer:
behind the offset in the open file, or all of that file if it has become shorter than
the offset, which is how tail_reopen recognises a rotation, and all newer files.  No
step but a write widens that set.  `KeptInv` counts: the buffer,
the rest of the open file and the file under the name hold consecutive lines up to
the last one logged (`Follows`), and a file that exact has yet to change over to is
shorter than the offset exact will have by then.

**ExactProofs**: the parameters first, `FileGoverns`, `PublishesThere`, `TimeoutIsTheFiles`,
`TableKept`, `OnlyHosts`, for any files, edits, log lines and points of interruption, both
builds and all faults.  They rest on `ConfInv`, whose parts `Table` and `Checked` say what the table holds at
each point of a reload: the entries are the lines of the file that was opened
last, in order, as far as they have been read, and from `Servers` on two more that
are called order and match; and `Missing` is false from the check on.  The properties alone are not
inductive, because they speak of what is looked up and the steps change the table.
`FirstIsFirst` (of ApconfProofs) is the fact that carries a lookup over: the first entry of a name
in a prefix of the file is the first in the file, so that a handler that
interrupts a reload finds either nothing or what the file says
(`PresentIsDeclared`).  A clean that finds no timeout ends in exit(52) before it
drops anybody, and an auth_write_text that finds no authfile before it renames.
`TableKept` (TableOfOneFile) assumes nothing of the files either: that a table never holds
more than the lines of one of them and two entries is what a reload must ensure;
whether these fit into 16 entries is the files' business, and the shipped one's do not.

The dump: `DumpMisses`. `Listed` adds to the property that the index is the number of
hosts listed, that the last one listed is behind the others, that those listed and
those known are finitely many, and that outside of a dump none is under way. The index
says how many hosts of the table are before the one whose turn it is. Some of those
listed may have gone, so it is behind all of them (`NextIsBehind`), and none is listed
twice; and of the hosts before it no more have been passed over than listed ones are
gone (`MissesOneForOne`). A clean lets some of either go (`CleanKeepsListed`). All
this needs strcmp's order to be one (`BeforeIrreflexive`, `BeforeTransitive`,
`BeforeTotal`), which is proved from the comparison of characters.

Types: `TypeCorrect`.  `Sourced` follows the files, `ParamValues` what comes out of them
into `param`, by way of the parser where it is an entry of server_check's, and
`ServiceTypes` and `ProcessTypes` the rest.

The definitions: `ParsesAsWritten` takes the theorems of ApconfProofs to every state in
which server_check calls the parser.  `StanzaKept` rests on `StanzaInv`: the last two
entries hold the stanza's settings.  The property does not say so, as a lookup finds
them only if the configuration file has no entry of these names before them
(`BehindTheFile`).

The exits: `EndsWithCause`.  No step follows an exit (`EndIsEnd`), so what counts is the
step that ends exact.  `MissingIsUnfilled` takes what conffile_check misses to the
file, `CompleteFound` what server_check does not find to the definitions, and
`UnreadOrAbsent` a null pointer to a line that has not been read yet or is not there, which is
where `HalfRead` comes from.  `StageInv` says that a process which serves or reloads has
written its pid file, so that a signal amid the start is told from one amid a reload.

**ApconfProofs**: `AcceptsWellFormed` and `FindsWritten`, about the parser alone: for files of
any length, any `SECTION_MAX`, and whatever an earlier parse has left in the section.
The claim about a file is proved for its first k lines, from k to k + 1 (`ShapeStep`,
`ContentStep`): where the parse is, in terms of how many stanzas are open and closed so
far; and of the first stanza of a given name whether it is still to come, under way
or in the table, and with which settings.  Since an induction theorem cannot be applied
to these operators, the step is carried to all lines by looking at the first
one at which the claim would fail (`UpTo`).

What is assumed of the constants is what the files are: sequences of lines, with whatever names
and values (`ExactFilesOK`), none of whose texts is the null pointer (`ExactNullOK`);
signals arrive at points of a reload, the loop or the dump; log names have no character
0 (`ExactConstantsOK`).

**Only model-checked**: liveness under fairness, which is out of the proof system's reach.
These are that a login is published (the liveness part of `ServiceSpec`), `LoginServed`,
`EveryLineDelivered` and `BacksOff`.

## 6. Not modelled

* Signals inside library calls: `realloc`, stdio and syslog are not
  async-signal-safe, and a handler that interrupts them may do anything.  The
  models take each library call as one step (but qsort in exchanges).
  `realloc`'s call and the assignment of its result are two steps, the evaluation
  of strncpy's arguments and its copying are one.
* Running out of memory (exit 20), and a stdio buffer that is written out before
  `fclose` because the text is longer: what two streams may then leave of each
  other's text is more than a fragment at a seam.
* An `fopen` in tail_reopen (tail.c:86-93) that fails although the log is there: any
  failure is taken as a missing log.  The code takes it so too, and would then read
  from its start a log of which it has read a part.
* The expressions: regcomp and regexec decide what matches and what is captured;
  the models start from the answer.  How `zap_comments` takes a line apart, and
  that the last character of a last line without newline is cut off.
* `malloc(sizeof(a))` in apconf.c:158, a pointer's worth for a table, whose count is
  then read uninitialised: the model takes the table to be there and empty.
* A dump that interrupts a clean or a login; the listing of a Berkeley database
  host by host.  `auth_db_delete` is not called by anything.
* What is logged, and where to.  getopt (vendored), the build files, the manual
  pages.
* `fseek` failing on a regular file (exit 71 and 72); kill's EPERM.
* A log that is moved away and the same file moved back.

## 7. Plan

Done, in order of importance: RelayService, AuthText and its refinement, Tail,
Lifecycle, Exact with Apconf and Matcher; proofs for AuthText, Tail, Lifecycle and
Exact.  What would come next:

1. Tail and RelayService composed: a line in a log to an address in the relay file.
2. A dump inside a clean and inside a login, in AuthText.
