-------------------------------- MODULE Tail --------------------------------
(***************************************************************************)
(* Following the mail log: tail.c, and the loop of exact.c's onepass that  *)
(* cuts what was read into lines.  The log is written by syslogd and       *)
(* rotated by someone else, at any moment between two of exact's steps.    *)
(*                                                                         *)
(* A file is a sequence of pieces: the number of a line stands for its     *)
(* text, and NL for the newline that ends it.                              *)
(***************************************************************************)
EXTENDS Integers, SequencesExt

CONSTANTS
  PAWS_MAX,    \* longest nap, one second
  Suspicious,  \* configuration parameter suspicious, in seconds
  Mishaps,     \* what the log's writer and its rotation may do wrong
  Backlog,     \* lines in the log when exact opens it
  MaxLines,    \* bound on the lines ever logged
  MaxFiles     \* bound on the files the log is rotated through

NL == 0
NULL == 0
Missing == 0
Files == 1..MaxFiles
Texts == 1..MaxLines

ASSUME TailConstantsOK ==
  /\ PAWS_MAX \in Nat \ {0}
  /\ Suspicious \in Nat
  /\ Mishaps \subseteq {"torn", "late", "raced", "hasty", "outgrown", "truncate"}
  /\ Backlog \in 0..MaxLines
  /\ MaxLines \in Nat
  /\ MaxFiles \in Nat \ {0}

VARIABLES
  disk,      \* contents of each file, named or not
  maillog,   \* the file the configured path names, or Missing
  writer,    \* the file syslogd has open, or Missing
  files,     \* files created so far
  lines,     \* lines logged so far
  pc,        \* next step of exact
  f,         \* the file exact has open, or NULL
  pos,       \* its offset in it
  bufflen,   \* end - current, before its conversion to tail_bufflen
  idle,      \* time(NULL) - last, up to Suspicious + 1
  paws,
  buff,      \* tail_buff, from onepass's start on
  delivered  \* history: the lines handed to match_line, in order

logVars  == <<disk, maillog, writer, files, lines>>
tailVars == <<pc, f, pos, bufflen, idle, paws, buff>>
vars == <<logVars, tailVars, delivered>>

Least(a, b) == IF a < b THEN a ELSE b

\* syslogd has written the text of a line and not yet its newline.
MidLine == writer # Missing /\ disk[writer] # <<>> /\ Last(disk[writer]) # NL

-----------------------------------------------------------------------------
(* exact.                                                                  *)

\* tail_open: the log is followed from its end.
Init ==
  /\ disk = [i \in Files |->
               IF i = 1 THEN [j \in 1..(2 * Backlog) |-> IF j % 2 = 0 THEN NL ELSE (j + 1) \div 2]
               ELSE <<>>]
  /\ maillog = 1
  /\ writer = 1
  /\ files = 1
  /\ lines = Backlog
  /\ pc = "nap"
  /\ f = 1
  /\ pos = 2 * Backlog
  /\ bufflen = 0
  /\ idle = 0
  /\ paws = PAWS_MAX
  /\ buff = <<>>
  /\ delivered = <<>>

\* Mutant: any file found under the name is taken for a new one.
ResumeAtStart(end, current) == 0

\* Mutant: the check that the file is no shorter than before is left out.
ResumeAnyway(end, current) == current

\* Where tail_reopen goes on reading in a file of size end.
Resume(end, current) == IF end < current THEN 0 ELSE current

\* tail_reopen(current), after which last is the current time.
tail_reopen(current) ==
  /\ f' = maillog
  /\ pos' = IF maillog = Missing THEN 0 ELSE Resume(Len(disk[maillog]), current)

\* nap(paws) lasts at most a second, and less if a signal cuts it short.
nap(since) == idle' \in {since, Least(since + 1, Suspicious + 1)}

\* tail_read with no file open: try the name again, and return nothing.
Retry ==
  /\ pc = "nap"
  /\ f = NULL
  /\ tail_reopen(0)
  /\ nap(0)
  /\ UNCHANGED <<logVars, pc, bufflen, paws, buff, delivered>>

Nap ==
  /\ pc = "nap"
  /\ f # NULL
  /\ nap(idle)
  /\ pc' = "measure"
  /\ UNCHANGED <<logVars, f, pos, bufflen, paws, buff, delivered>>

\* Mutant: last is not brought up to date when the file has grown.
GrownNever(end) == FALSE

Grown(end) == end > pos

\* Mutant: the file under the name is never compared with the one that is open.
SuspectNever(t) == FALSE

\* Nothing new for t seconds: has the log been rotated?
Suspect(t) == t > Suspicious

\* The file's size is found, and with it whether to be suspicious.
Measure ==
  /\ pc = "measure"
  /\ LET end == Len(disk[f]) IN
       /\ idle' = IF Grown(end) THEN 0 ELSE idle
       /\ bufflen' = end - pos
       /\ pc' = IF Suspect(idle') THEN "reopen" ELSE "read"
  /\ UNCHANGED <<logVars, f, pos, paws, buff, delivered>>

Reopen ==
  /\ pc = "reopen"
  /\ tail_reopen(pos)
  /\ idle' = 0
  /\ pc' = "nap"
  /\ UNCHANGED <<logVars, bufflen, paws, buff, delivered>>

linecount(b) == Cardinality({k \in DOMAIN b : b[k] = NL})

\* Mutant: integer division may leave a nap of no length, which stays so.
PawsUnguarded(n) == IF n > 0 THEN paws \div n ELSE Least(paws * 2, PAWS_MAX)

\* The next nap, after n lines were read.
Paws(n) ==
  IF n = 0 THEN Least(paws * 2, PAWS_MAX)
  ELSE IF paws \div n = 0 THEN 1 ELSE paws \div n

\* A size that does not fit tail_bufflen, or more than the file holds by now.
Unreadable == bufflen < 0 \/ Len(disk[f]) - pos < bufflen

\* The rest of tail_read.
Read ==
  /\ pc = "read"
  /\ ~Unreadable
  /\ buff' = SubSeq(disk[f], pos + 1, pos + bufflen)
  /\ pos' = pos + bufflen
  /\ paws' = Paws(linecount(buff'))
  /\ pc' = "lines"
  /\ UNCHANGED <<logVars, f, bufflen, idle, delivered>>

\* onepass has found the end of a line, k, and hands match_line what there is
\* before it.  Anything else may happen before it looks for the next one.
Line ==
  /\ pc = "lines"
  /\ \E k \in DOMAIN buff :
       /\ buff[k] = NL
       /\ \A j \in 1..(k - 1) : buff[j] # NL
       /\ delivered' = delivered \o SubSeq(buff, 1, k - 1)
       /\ buff' = SubSeq(buff, k + 1, Len(buff))
  /\ UNCHANGED <<logVars, pc, f, pos, bufflen, idle, paws>>

\* No more newlines: a text without one is dropped, and onepass is over.
PassOver ==
  /\ pc = "lines"
  /\ linecount(buff) = 0
  /\ buff' = <<>>
  /\ pc' = "nap"
  /\ UNCHANGED <<logVars, f, pos, bufflen, idle, paws, delivered>>

\* realloc of some four gigabytes fails, exit(30), or fread falls short, exit(31).
GiveUp ==
  /\ pc = "read"
  /\ Unreadable
  /\ pc' = "exited"
  /\ UNCHANGED <<logVars, f, pos, bufflen, idle, paws, buff, delivered>>

-----------------------------------------------------------------------------
(* The log's writer and its rotation.                                      *)

\* syslogd writes more of the log.  Unless the log is outgrown, a new file is
\* shorter than the one before it for as long as exact has that one open.
Write(pieces) ==
  /\ writer # Missing
  /\ "outgrown" \notin Mishaps /\ f \notin {writer, NULL} /\ disk[f] # <<>> =>
       Len(disk[writer] \o pieces) < Len(disk[f])
  /\ disk' = [disk EXCEPT ![writer] = @ \o pieces]
  /\ UNCHANGED <<maillog, writer, files, tailVars, delivered>>

Log ==
  /\ ~MidLine
  /\ lines < MaxLines
  /\ lines' = lines + 1
  /\ \/ Write(<<lines', NL>>)
     \/ "torn" \in Mishaps /\ Write(<<lines'>>)

EndLine == MidLine /\ Write(<<NL>>) /\ UNCHANGED lines

\* The log gets another name, and its own goes to a new file or to none; syslogd
\* is told at once, unless it is late.  Only a hasty rotation comes before exact
\* has followed the last one, and only a raced one while exact is between
\* measuring the file and closing it.
Rotate ==
  /\ maillog # Missing
  /\ ~MidLine
  /\ pc = "reopen" => "raced" \in Mishaps
  /\ f # maillog => "hasty" \in Mishaps
  /\ \/ files < MaxFiles /\ files' = files + 1 /\ maillog' = files'
     \/ files < MaxFiles /\ files' = files /\ maillog' = Missing
  /\ \/ writer' = maillog'
     \/ "late" \in Mishaps /\ writer' = writer
  /\ UNCHANGED <<disk, lines, tailVars, delivered>>

Create ==
  /\ maillog = Missing
  /\ files' = files + 1
  /\ maillog' = files'
  /\ \/ writer' = maillog' /\ ~MidLine
     \/ "late" \in Mishaps /\ writer' = writer
  /\ UNCHANGED <<disk, lines, tailVars, delivered>>

\* The late syslogd turns to the new file.
Hup ==
  /\ writer # maillog
  /\ ~MidLine
  /\ writer' = maillog
  /\ UNCHANGED <<disk, maillog, files, lines, tailVars, delivered>>

\* The log is copied elsewhere and emptied in place.
Truncate ==
  /\ "truncate" \in Mishaps
  /\ maillog # Missing
  /\ disk[maillog] # <<>>
  /\ disk' = [disk EXCEPT ![maillog] = <<>>]
  /\ UNCHANGED <<maillog, writer, files, lines, tailVars, delivered>>

-----------------------------------------------------------------------------

Exact == Retry \/ Nap \/ Measure \/ Reopen \/ Read \/ Line \/ PassOver \/ GiveUp
World == Log \/ EndLine \/ Rotate \/ Create \/ Hup \/ Truncate

\* exact's loop never blocks for longer than a nap; however short the naps are,
\* a second passes in the end.
Spec ==
  /\ Init
  /\ [][Exact \/ World]_vars
  /\ WF_vars(Exact)
  /\ SF_vars(Nap /\ idle' > idle)

-----------------------------------------------------------------------------

TypeOK ==
  /\ disk \in [Files -> Seq(Texts \cup {NL})]
  /\ maillog \in Files \cup {Missing}
  /\ writer \in Files \cup {Missing}
  /\ files \in Files
  /\ lines \in 0..MaxLines
  /\ pc \in {"nap", "measure", "read", "lines", "reopen", "exited"}
  /\ f \in Files \cup {NULL}
  /\ pos \in Nat
  /\ bufflen \in Int
  /\ idle \in 0..(Suspicious + 1)
  /\ paws \in 1..PAWS_MAX
  /\ buff \in Seq(Texts \cup {NL})
  /\ delivered \in Seq(Texts)

\* However the log is written and rotated, a line is handed to match_line at
\* most once and never after a later one, so that an old login cannot renew
\* a host's time in the relay file.
InOrderOnce == \A i, j \in DOMAIN delivered : i < j => delivered[i] < delivered[j]

\* No line that was logged since exact opened the log is passed over.
NothingSkipped == delivered = [i \in DOMAIN delivered |-> Backlog + i]

\* The daemon does not give up on its log.
NeverGivesUp == pc # "exited"

\* Every line that is logged gets to match_line, through any number of rotations.
EveryLineDelivered ==
  \A k \in (Backlog + 1)..MaxLines : lines >= k ~> k \in ToSet(delivered)

\* Once the log is quiet exact polls it at its slowest, and not in a busy loop.
BacksOff == <>[](paws = PAWS_MAX \/ f = NULL)
=============================================================================
