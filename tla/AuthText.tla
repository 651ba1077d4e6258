------------------------------ MODULE AuthText ------------------------------
(***************************************************************************)
(* The text-format authentication database of auth.c, one C statement (or  *)
(* library call) per action, together with the SIGALRM handler auth_clean  *)
(* that may run between any two of them.                                   *)
(*                                                                         *)
(* The main program naps, is handed a host that has just logged in, and    *)
(* runs auth_text_add on it.  The handler copies the entries that are      *)
(* still live to the shadow array, swaps the two arrays and rewrites the   *)
(* relay file.  The relay file (authfile) is what the mail server reads.   *)
(***************************************************************************)
EXTENDS Integers, Sequences

CONSTANTS
  Hosts,          \* addresses that may log in; < stands for strcmp's order
  AuthMax,        \* auth_max when the process starts (16384 in the source)
  AuthGrow,       \* slots added when the array is full (1024 in the source)
  Timeout,        \* configuration parameter timeout, in seconds
  Flush,          \* configuration parameter flush, in seconds
  Interruptible,  \* program points of main at which SIGALRM is delivered
  Faults,         \* what may go wrong: a file operation, or a "crash"
  MaxNow,         \* bound on the clock
  MaxEntries,     \* bound on auth_cur when another login is accepted
  Absent,         \* "there is no file of that name"
  Fragment        \* a line of which only a part was written, or is left

NoHost == 0                                \* the empty string
Never == 0                                 \* long before the process started
NULL == <<0, 0>>
Blank == [hostname |-> NoHost, t |-> Never] \* memory as the allocator returns it

\* Of a process that has used memory that is not its own nothing more can be said.
Stopped == {"down", "exited", "corrupt"}
AddPoints ==
  {"present", "update", "test", "raise", "grow", "grown", "regrow", "regrown",
   "fill", "stamp", "count", "sort"}
WritePoints == {"open", "print", "rename"}
Points == {"nap"} \cup AddPoints \cup WritePoints

\* realloc has returned, and its result is not assigned yet.
Dangling == {"grown", "regrown"}

\* The stretches of main that do not bear SIGALRM: from the first realloc to
\* the assignment of the second's result, from finding or filling a slot to
\* the end of the sort, and from fopen to rename.
Growing == Dangling \cup {"regrow"}
Entering == {"update", "stamp", "count", "sort"}
Writing == {"print", "rename"}

ASSUME ConstantsOK ==
  /\ Hosts \subseteq Nat \ {NoHost}
  /\ AuthMax \in Nat \ {0}
  /\ AuthGrow \in Nat \ {0}
  /\ Timeout \in Nat \ {0}
  /\ Flush \in Nat \ {0}
  /\ Interruptible \subseteq Points
  /\ Faults \subseteq {"fopen", "write", "rename", "crash"}
  /\ MaxNow \in Nat
  /\ MaxEntries \in Nat

\* No text is mistaken for a file that is not there, no fragment for a name.
ASSUME LinesOK ==
  /\ Fragment \notin Hosts \cup {NoHost}
  /\ Absent \notin Seq(Hosts \cup {NoHost, Fragment})

VARIABLES
  now,        \* time(NULL)
  alarm,      \* seconds until SIGALRM; 0: it is pending
  pc,         \* next statement of main
  auth,       \* which of the two arrays `auth' points to; shadow_auth is the other
  buf,        \* the two arrays of entries
  size,       \* the number of slots allocated for each
  auth_cur,
  auth_max,
  hostname,   \* argument of auth_text_add; NoHost outside it
  e,          \* result of auth_present, a pointer <<array, index>>
  n,          \* register copy of auth_cur + 1, later qsort's element count
  base,       \* array whose address was passed to qsort
  stream,     \* the name main's open output file has now
  out,        \* lines buffered in that stream
  authtemp,   \* the temporary file: Absent or its lines
  authfile,   \* the relay file: Absent or its lines
  lastLogin,  \* history: when main last served each host, since the start
  upset       \* history: what has gone wrong since the start

timeVars  == <<now, alarm>>
tableVars == <<auth, buf, size, auth_cur, auth_max>>
frameVars == <<hostname, e, n, base>>
fileVars  == <<stream, out, authtemp, authfile>>
histVars  == <<lastLogin, upset>>
vars == <<timeVars, pc, tableVars, frameVars, fileVars, histVars>>

Running == pc \notin Stopped
shadow_auth == 3 - auth

\* auth_init's call of auth_write_text is the one made on no host's behalf.
Booting == pc \in WritePoints /\ hostname = NoHost

-----------------------------------------------------------------------------
(* The table.                                                              *)

\* The first k entries of array b are in auth_cmp's order, without duplicates.
SortedTo(b, k) ==
  \A i, j \in 0..(k - 1) : i < j => buf[b][i].hostname < buf[b][j].hostname

\* Mutants: a comparison that never, or always, says that two names are equal.
PresentNever(h) == {NULL}
PresentAny(h) == IF auth_cur > 0 THEN {<<auth, 0>>} ELSE {NULL}

\* bsearch promises an answer for a sorted table only: on any other it may
\* also miss.
auth_present(h) ==
  LET found == {<<auth, i>> : i \in {k \in 0..(auth_cur - 1) : buf[auth][k].hostname = h}}
  IN  IF found # {} /\ SortedTo(auth, auth_cur) THEN found ELSE found \cup {NULL}

\* Mutant: the arrays are only grown once the count has passed the allocation.
FullLate == auth_cur > auth_max

Full == auth_cur = auth_max

\* Mutant: the result of the realloc is dropped.
GrownNot(b) == buf

\* The two arrays after array b has been given auth_max slots.
Grown(b) ==
  [buf EXCEPT ![b] = [i \in 0..(auth_max - 1) |-> IF i < size[b] THEN buf[b][i] ELSE Blank]]

\* Mutant: e->t is left as it was.
RefreshedNot(p) == buf

\* The arrays after the entry p points to has got the current time.
Refreshed(p) == [buf EXCEPT ![p[1]][p[2]].t = now]

\* Mutant: <= for <.
LiveLonger == {i \in 0..(auth_cur - 1) : now - buf[auth][i].t <= Timeout}

\* Indices of the entries auth_text_clean keeps.
Live == {i \in 0..(auth_cur - 1) : now - buf[auth][i].t < Timeout}

\* pick lists the members of S in increasing order.
Enumerates(pick, m, S) ==
  /\ \A i \in S : \E k \in 0..(m - 1) : pick[k] = i
  /\ \A k, l \in 0..(m - 1) : k < l => pick[k] < pick[l]

-----------------------------------------------------------------------------
(* Files.                                                                  *)

\* What may reach the disk of a text: all of it, or as much as was written
\* before the disk was full, the last line perhaps cut.
Flushed(text) ==
  IF "write" \in Faults
    THEN {SubSeq(text, 1, k) : k \in 0..Len(text)}
           \cup {Append(SubSeq(text, 1, k - 1), Fragment) : k \in 1..Len(text)}
    ELSE {text}

\* What may be left of a text after something is written over its start.  Names
\* differ in length: any number of lines, but at least a part of one, is written
\* over, and of the last of them the end may stay.
Remnants(old) ==
  IF old = <<>>
    THEN {<<>>}
    ELSE {SubSeq(old, k, Len(old)) : k \in 2..(Len(old) + 1)}
           \cup {<<Fragment>> \o SubSeq(old, k, Len(old)) : k \in 2..(Len(old) + 1)}

\* A file that holds old, after text is written over its start.
Overlays(text, old) ==
  IF text = <<>> THEN {old} ELSE {text \o rest : rest \in Remnants(old)}

\* What is recorded of a text of which this was saved.
CutShort(saved, text) == IF saved = text THEN {} ELSE {"cut"}

\* What is recorded of SIGALRM.
Strike ==
  CASE pc \in Growing  -> {"growth"}
    [] pc \in Entering -> {"entry"}
    [] pc \in Writing  -> {"write"}
    [] OTHER           -> {}

\* fclose, or exit's flush, of the stream main has open, when the temporary
\* file holds temp: the text goes to whatever file the stream's inode is by now.
FlushStream(temp, marks) ==
  \E text \in Flushed(out) :
    /\ authtemp' \in IF stream = "temp" THEN Overlays(text, temp) ELSE {temp}
    /\ authfile' \in IF stream = "auth" THEN Overlays(text, authfile) ELSE {authfile}
    /\ stream' = "none"
    /\ out' = <<>>
    /\ upset' = upset \cup marks \cup CutShort(text, out)

\* exit(21) or exit(22), taken while the temporary file holds temp.
Exit(temp, marks) == pc' = "exited" /\ FlushStream(temp, marks)

\* Mutant: auth_text_clean leaves the relay file to the next login.
NestedWriteNot(lines) == UNCHANGED <<pc, fileVars, upset>>

\* auth_write_text run to its end inside the signal handler.  The fopen
\* truncates the file main may be writing, and the rename carries main's open
\* stream along to the relay file.
NestedWrite(lines) ==
  \/ \E saved \in Flushed(lines) :
       /\ authtemp' = Absent
       /\ authfile' = saved
       /\ stream' = CASE stream = "temp" -> "auth"
                      [] stream = "auth" -> "gone"
                      [] OTHER -> stream
       /\ upset' = upset \cup Strike \cup CutShort(saved, lines)
       /\ UNCHANGED <<pc, out>>
  \/ "fopen" \in Faults /\ Exit(authtemp, Strike \cup {"failed"})
  \/ "rename" \in Faults /\ \E saved \in Flushed(lines) : Exit(saved, Strike \cup {"failed"})

\* An access past the end of an array, or through a pointer to one that
\* realloc has freed.
Corrupt(marks) ==
  /\ pc' = "corrupt"
  /\ stream' = "none"
  /\ out' = <<>>
  /\ upset' = upset \cup marks
  /\ UNCHANGED <<timeVars, tableVars, frameVars, authtemp, authfile, lastLogin>>

-----------------------------------------------------------------------------
(* The main program.                                                       *)

Init ==
  /\ now = Timeout + Flush
  /\ alarm = Flush
  /\ pc = "down"
  /\ auth = 1
  /\ buf = [b \in 1..2 |-> [i \in 0..(AuthMax - 1) |-> Blank]]
  /\ size = [b \in 1..2 |-> AuthMax]
  /\ auth_cur = 0
  /\ auth_max = AuthMax
  /\ hostname = NoHost
  /\ e = NULL
  /\ n = 0
  /\ base = 0
  /\ stream = "none"
  /\ out = <<>>
  /\ authtemp = Absent
  /\ authfile = Absent
  /\ lastLogin = [h \in Hosts |-> Never]
  /\ upset = {}

\* Mutant: auth_init leaves the relay file of the process before.
FirstPointNap == "nap"

\* auth_init goes on to write the empty relay file.
FirstPoint == "open"

\* A new process runs auth_init up to its call of auth_write_text.
Start ==
  /\ ~Running
  /\ pc' = FirstPoint
  /\ alarm' = Flush
  /\ auth' = 1
  /\ buf' = [b \in 1..2 |-> [i \in 0..(AuthMax - 1) |-> Blank]]
  /\ size' = [b \in 1..2 |-> AuthMax]
  /\ auth_cur' = 0
  /\ auth_max' = AuthMax
  /\ hostname' = NoHost
  /\ e' = NULL
  /\ n' = 0
  /\ base' = 0
  /\ lastLogin' = [h \in Hosts |-> Never]
  /\ upset' = {}
  /\ UNCHANGED <<now, fileVars>>

\* main's loop has matched a line: auth_add(username, h).
Login(h) ==
  /\ pc = "nap"
  /\ auth_cur < MaxEntries
  /\ pc' = "present"
  /\ hostname' = h
  /\ UNCHANGED <<timeVars, tableVars, e, n, base, fileVars, histVars>>

\* e=auth_present(hostname); if(e) ... else ...
Present ==
  /\ pc = "present"
  /\ e' \in auth_present(hostname)
  /\ pc' = IF e' = NULL THEN "test" ELSE "update"
  /\ UNCHANGED <<timeVars, tableVars, hostname, n, base, fileVars, histVars>>

\* e->t=time(NULL), and the return to the main loop.
Update ==
  /\ pc = "update"
  /\ buf' = Refreshed(e)
  /\ lastLogin' = [lastLogin EXCEPT ![hostname] = now]
  /\ pc' = "nap"
  /\ hostname' = NoHost
  /\ e' = NULL
  /\ UNCHANGED <<timeVars, auth, size, auth_cur, auth_max, n, base, fileVars, upset>>

\* if(auth_cur==auth_max)
Test ==
  /\ pc = "test"
  /\ pc' = IF Full THEN "raise" ELSE "fill"
  /\ UNCHANGED <<timeVars, tableVars, frameVars, fileVars, histVars>>

\* auth_max+=1024
Raise ==
  /\ pc = "raise"
  /\ auth_max' = auth_max + AuthGrow
  /\ pc' = "grow"
  /\ UNCHANGED <<timeVars, auth, buf, size, auth_cur, frameVars, fileVars, histVars>>

\* auth_init_mem: realloc(auth, ...), later realloc(shadow_auth, ...).
Realloc ==
  /\ pc \in {"grow", "regrow"}
  /\ LET b == IF pc = "grow" THEN auth ELSE shadow_auth
     IN  buf' = Grown(b) /\ size' = [size EXCEPT ![b] = auth_max]
  /\ pc' = IF pc = "grow" THEN "grown" ELSE "regrown"
  /\ UNCHANGED <<timeVars, auth, auth_cur, auth_max, frameVars, fileVars, histVars>>

\* The assignment of its result to the pointer it was called with.
Assign ==
  /\ pc \in Dangling
  /\ pc' = IF pc = "grown" THEN "regrow" ELSE "fill"
  /\ UNCHANGED <<timeVars, tableVars, frameVars, fileVars, histVars>>

\* strncpy(auth[auth_cur].hostname, hostname, ...)
Fill ==
  /\ pc = "fill"
  /\ auth_cur < size[auth]
  /\ buf' = [buf EXCEPT ![auth][auth_cur].hostname = hostname]
  /\ pc' = "stamp"
  /\ UNCHANGED <<timeVars, auth, size, auth_cur, auth_max, frameVars, fileVars, histVars>>

\* auth[auth_cur].t=time(NULL); auth_cur++ may already have loaded auth_cur.
Stamp ==
  /\ pc = "stamp"
  /\ auth_cur < size[auth]
  /\ buf' = [buf EXCEPT ![auth][auth_cur].t = now]
  /\ n' = auth_cur + 1
  /\ lastLogin' = [lastLogin EXCEPT ![hostname] = now]
  /\ pc' = "count"
  /\ UNCHANGED <<timeVars, auth, size, auth_cur, auth_max, hostname, e, base, fileVars, upset>>

\* The rest of auth_cur++, from the register or on the variable itself, and
\* the evaluation of qsort's arguments.
Count ==
  /\ pc = "count"
  /\ auth_cur' \in {n, auth_cur + 1}
  /\ n' = auth_cur'
  /\ base' = auth
  /\ pc' = "sort"
  /\ UNCHANGED <<timeVars, auth, buf, size, auth_max, hostname, e, fileVars, histVars>>

\* Mutant: the qsort is left out.
InversionsNone == {}

\* Positions of the array under qsort that are out of order.
Inversions ==
  {p \in (0..(n - 1)) \X (0..(n - 1)) :
     p[1] < p[2] /\ buf[base][p[2]].hostname < buf[base][p[1]].hostname}

\* qsort exchanges two elements that are out of order, as long as there are any.
SortSwap ==
  /\ pc = "sort"
  /\ n <= size[base]
  /\ \E p \in Inversions :
       buf' = [buf EXCEPT ![base][p[1]] = buf[base][p[2]], ![base][p[2]] = buf[base][p[1]]]
  /\ UNCHANGED <<timeVars, pc, auth, size, auth_cur, auth_max, frameVars, fileVars, histVars>>

\* qsort has no more to exchange and auth_write_text is called.
SortDone ==
  /\ pc = "sort"
  /\ n <= size[base]
  /\ Inversions = {}
  /\ pc' = "open"
  /\ n' = 0
  /\ base' = 0
  /\ UNCHANGED <<timeVars, tableVars, hostname, e, fileVars, histVars>>

\* A slot is filled or stamped, or an array sorted, that has not so many slots.
Overreach ==
  /\ \/ pc \in {"fill", "stamp"} /\ auth_cur >= size[auth]
     \/ pc = "sort" /\ n > size[base]
  /\ Corrupt({})

\* Mutant: the relay file is written in place, and still renamed.
OpenDirect ==
  /\ pc = "open"
  /\ authfile' = <<>>
  /\ stream' = "auth"
  /\ out' = <<>>
  /\ pc' = "print"
  /\ UNCHANGED <<timeVars, tableVars, frameVars, authtemp, histVars>>

\* f = fopen(authtemp,"w"), or exit(21).
Open ==
  /\ pc = "open"
  /\ \/ /\ authtemp' = <<>>
        /\ stream' = "temp"
        /\ out' = <<>>
        /\ pc' = "print"
        /\ UNCHANGED <<authfile, upset>>
     \/ "fopen" \in Faults /\ Exit(authtemp, {"failed"})
  /\ UNCHANGED <<timeVars, tableVars, frameVars, lastLogin>>

\* Mutant: the loop stops one entry short.
WrittenShort == Len(out) >= auth_cur - 1

Written == Len(out) >= auth_cur

\* One turn of the loop: fprintf(f,"%s\n",auth[i].hostname) with i = Len(out).
Fprintf ==
  /\ pc = "print"
  /\ ~Written
  /\ out' = Append(out, buf[auth][Len(out)].hostname)
  /\ UNCHANGED <<timeVars, pc, tableVars, frameVars, stream, authtemp, authfile, histVars>>

\* The loop ends: fclose(f), whose result nobody looks at.
Close ==
  /\ pc = "print"
  /\ Written
  /\ FlushStream(authtemp, {})
  /\ pc' = "rename"
  /\ UNCHANGED <<timeVars, tableVars, frameVars, lastLogin>>

\* rename(authtemp,authfile), or exit(22).
Rename ==
  /\ pc = "rename"
  /\ \/ /\ authtemp # Absent
        /\ authfile' = authtemp
        /\ authtemp' = Absent
        /\ pc' = "nap"
        /\ hostname' = NoHost
        /\ UNCHANGED <<stream, out, upset>>
     \/ /\ \/ authtemp = Absent /\ Exit(authtemp, {})
           \/ "rename" \in Faults /\ Exit(authtemp, {"failed"})
        /\ UNCHANGED hostname
  /\ UNCHANGED <<timeVars, tableVars, e, n, base, lastLogin>>

-----------------------------------------------------------------------------
(* The signal handler and the environment.                                 *)

Deliverable == pc \in Interruptible \ Stopped

\* auth_text_clean, when pick lists the m entries that are still live: they are
\* copied to the shadow array, the arrays are swapped, the relay file rewritten.
auth_text_clean(m, pick) ==
  \/ m > size[shadow_auth] /\ Corrupt(Strike)
  \/ /\ m <= size[shadow_auth]
     /\ buf' = [buf EXCEPT ![shadow_auth] =
                  [i \in 0..(size[shadow_auth] - 1) |->
                     IF i < m THEN buf[auth][pick[i]] ELSE buf[shadow_auth][i]]]
     /\ auth' = shadow_auth
     /\ auth_cur' = m
     /\ NestedWrite([k \in 1..m |-> buf[auth][pick[k - 1]].hostname])
     /\ alarm' = Flush
     /\ UNCHANGED <<now, size, auth_max, frameVars, lastLogin>>

\* SIGALRM is delivered; the handler ends with a call of alarm().
auth_clean ==
  /\ Deliverable
  /\ alarm = 0
  /\ \/ (pc \in Dangling \/ auth_cur > size[auth]) /\ Corrupt(Strike)
     \/ /\ pc \notin Dangling /\ auth_cur <= size[auth]
        /\ \E m \in 0..auth_cur : \E pick \in [0..(m - 1) -> Live] :
             Enumerates(pick, m, Live) /\ auth_text_clean(m, pick)

\* A second passes.  A SIGALRM that is pending is served before the next one does.
Tick ==
  /\ now < MaxNow
  /\ Running => alarm > 0
  /\ now' = now + 1
  /\ alarm' = IF Running THEN alarm - 1 ELSE alarm
  /\ UNCHANGED <<pc, tableVars, frameVars, fileVars, histVars>>

\* The administrator sends SIGALRM by hand.
RaiseSigalrm ==
  /\ Running
  /\ alarm' = 0
  /\ UNCHANGED <<now, pc, tableVars, frameVars, fileVars, histVars>>

\* SIGKILL or a crash: what the stream holds in memory is lost.
Kill ==
  /\ "crash" \in Faults
  /\ Running
  /\ pc' = "down"
  /\ stream' = "none"
  /\ out' = <<>>
  /\ UNCHANGED <<timeVars, tableVars, frameVars, authtemp, authfile, histVars>>

\* One statement of main, once it has started on something.
Step ==
  \/ Present \/ Update \/ Test \/ Raise \/ Realloc \/ Assign \/ Fill \/ Stamp \/ Count
  \/ SortSwap \/ SortDone \/ Overreach \/ Open \/ Fprintf \/ Close \/ Rename

Next ==
  \/ Start
  \/ \E h \in Hosts : Login(h)
  \/ Step
  \/ auth_clean
  \/ Tick
  \/ RaiseSigalrm
  \/ Kill

\* main's statements and the handler are the process's own; nothing makes
\* hosts log in, the clock advance or anyone send a signal or restart it.
Spec == Init /\ [][Next]_vars /\ WF_vars(Step) /\ WF_vars(auth_clean)

-----------------------------------------------------------------------------
(* What is expected of it.                                                 *)

Hostnames == Hosts \cup {NoHost}
Files == {Absent} \cup Seq(Hostnames \cup {Fragment})
Entries == [hostname : Hostnames, t : Nat]
Upsets == {"growth", "entry", "write", "cut", "failed"}

\* The lines auth_write_text makes of array b's first k entries.
Listing(b, k) == [i \in 1..k |-> buf[b][i - 1].hostname]

\* The lines the mail server finds in the relay file.
Relayed == IF authfile = Absent THEN {} ELSE {authfile[i] : i \in DOMAIN authfile}

\* SIGALRM has come at no bad moment so far.
Calm == upset \cap {"growth", "entry", "write"} = {}

\* Every variable has the type its C declaration gives it; the pointers auth,
\* e and qsort's base point into the two arrays, whatever their sizes.
TypeOK ==
  /\ now \in Nat
  /\ alarm \in 0..Flush
  /\ pc \in Points \cup Stopped
  /\ auth \in 1..2
  /\ auth_max \in Nat \ {0}
  /\ size \in [1..2 -> 1..auth_max]
  /\ buf = [b \in 1..2 |-> buf[b]]
  /\ \A b \in 1..2 : buf[b] \in [0..(size[b] - 1) -> Entries]
  /\ auth_cur \in Nat
  /\ hostname \in Hostnames
  /\ (pc \in AddPoints => hostname \in Hosts)
  /\ e = NULL \/ (e \in (1..2) \X Nat /\ e[2] < size[e[1]])
  /\ (pc = "update" => e # NULL)
  /\ n \in Nat
  /\ base \in 0..2
  /\ (pc = "sort" => base # 0)
  /\ stream \in {"none", "temp", "auth", "gone"}
  /\ out \in Seq(Hostnames)
  /\ authtemp \in Files
  /\ authfile \in Files
  /\ lastLogin \in [Hosts -> Nat]
  /\ upset \subseteq Upsets

\* auth.c leaves its arrays only if SIGALRM has struck while they were being
\* reallocated: the handler then exchanges them, so that the same one is grown
\* twice, or finds one that has been freed.  Everywhere else main may be
\* interrupted: it re-reads auth and auth_cur for each field of an entry.
MemorySafe == pc = "corrupt" => "growth" \in upset

\* No whole line of the relay file names a host that has not logged in since
\* the process started, whatever the handler does to a half-added entry.  A
\* line of which a part is missing may name anybody: there is one only after a
\* write that was cut short, or SIGALRM between fopen and rename.
RelayOnlyServed ==
  Running /\ ~Booting =>
    /\ \A h \in Relayed \ {NoHost, Fragment} : lastLogin[h] # Never
    /\ Fragment \in Relayed => upset \cap {"cut", "write"} # {}

\* bsearch gets what it needs whenever auth_present is about to call it: the
\* table in strictly increasing order, so that no host is listed twice.
TableSearchable == pc \in {"nap", "present"} /\ Calm => SortedTo(auth, auth_cur)

\* Between two lines of the log the relay file lists the table, entry for
\* entry, wherever SIGALRM has struck.
RelayMirrorsTable == pc = "nap" /\ "cut" \notin upset => authfile = Listing(auth, auth_cur)

\* A host whose last login is at least timeout + flush seconds old is not
\* relayed for: it was dropped at the latest by the clean after its timeout.
RelayFresh ==
  Running /\ ~Booting /\ Calm =>
    \A h \in Relayed \ {NoHost, Fragment} : now - lastLogin[h] < Timeout + Flush

\* Once its login is served a host stays in the relay file for timeout seconds.
ActiveKept ==
  pc = "nap" /\ Calm /\ "cut" \notin upset =>
    \A h \in Hosts : now - lastLogin[h] < Timeout => h \in Relayed

\* The relay file goes from one whole listing of the table to the next: the
\* mail server never reads one that is being written.
Replaced == authfile' # authfile => authfile' = Listing(auth, auth_cur)'
RelayReplacedWhole == [][Replaced]_vars

\* It does as long as SIGALRM has not come at a bad moment, this one included,
\* and no write has been cut short.
ReplacedWholeInCalm == [][(Calm /\ "cut" \notin upset)' => Replaced]_vars

\* The daemon gives up only if a file operation has failed or SIGALRM has
\* struck between fopen and rename.
ExitsForCause == pc = "exited" => upset \cap {"failed", "write"} # {}

\* A login that reaches auth_add gets its host into the relay file, unless the
\* process dies first, or stands still until the login's time is up.
LoginServed ==
  \A h \in Hosts :
    (pc = "present" /\ hostname = h) ~>
       \/ ~Running
       \/ pc = "nap" /\ (h \in Relayed \/ now - lastLogin[h] >= Timeout)
=============================================================================
