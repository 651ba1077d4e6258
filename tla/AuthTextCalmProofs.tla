------------------------- MODULE AuthTextCalmProofs -------------------------
(***************************************************************************)
(* What holds of the text database until SIGALRM has come at a moment that *)
(* main does not bear: the table can be searched, whoever logged in lately *)
(* is relayed for and nobody else is, and the relay file is replaced as a  *)
(* whole.  SIGALRM may come at every point and everything may fail; the    *)
(* history variable upset tells whether a bad moment has been among them.  *)
(*                                                                         *)
(* The handler may rely on the table being whole, and main on the handler  *)
(* having left it whole.  The invariant says what "whole" means for the    *)
(* counted entries, the one that is being added included as soon as its    *)
(* login is on record, and what main holds at each point.                  *)
(***************************************************************************)
EXTENDS AuthTextProofs, AuthTextService

USE DEF NoHost, Never

-----------------------------------------------------------------------------
(* The marks.                                                              *)

\* Where main bears SIGALRM.
CalmPoints == {"nap", "present", "test", "raise", "grow", "fill", "open"}

\* What has gone wrong stays on record until the next start.
LEMMA MarksGrow ==
  ASSUME TypeInv, [Next]_vars, ~Start
  PROVE  /\ upset \subseteq upset'
         /\ auth_clean /\ Calm' => pc \in CalmPoints
<1>1. CASE auth_clean
  <2>1. upset \subseteq upset' /\ Strike \subseteq upset' /\ Running
    BY <1>1, CleanMarks, CleanCases
  <2>2. ASSUME Calm' PROVE pc \in CalmPoints
    <3>1. Strike \cap {"growth", "entry", "write"} = {}
      BY <2>1, <2>2 DEF Calm
    <3>2. pc \notin Growing /\ pc \notin Entering /\ pc \notin Writing
      BY <3>1, StrikeType
    <3> QED
      BY <2>1, <3>2 DEF TypeInv, TypeOK, Points, AddPoints, WritePoints, Growing, Dangling,
         Entering, Writing, CalmPoints, Running
  <2> QED
    BY <2>1, <2>2
<1>2. CASE ~auth_clean
  BY <1>2 DEF Next, Step, vars, histVars, Login, Present, Update, Test, Raise, Realloc, Assign,
     Fill, Stamp, Count, SortSwap, SortDone, Overreach, Corrupt, Open, Fprintf, Close, Rename,
     Exit, FlushStream, Tick, RaiseSigalrm, Kill
<1> QED
  BY <1>1, <1>2

-----------------------------------------------------------------------------
(* The temporary file.                                                     *)

\* Unless SIGALRM has come between fopen and rename main's temporary file is
\* there to be renamed, and nothing else is written to.
TempInv ==
  /\ pc = "exited" => upset \cap {"failed", "write"} # {}
  /\ pc \in Writing /\ "write" \notin upset =>
       /\ authtemp \in Seq(Lines(Hostnames))
       /\ pc = "print" => stream = "temp"

LEMMA TempStep == TypeInv /\ TempInv /\ [Next]_vars => TempInv'
<1> SUFFICES ASSUME TypeInv, TempInv, [Next]_vars PROVE TempInv'
  OBVIOUS
<1>0. \A text \in Seq(Lines(Hostnames)) : text # Absent
  <2>1. Lines(Hostnames) = Hosts \cup {NoHost, Fragment}
    BY DEF Lines, Hostnames
  <2> QED
    BY <2>1, LinesOK
<1>1. CASE auth_clean
  <2>1. CASE Corrupt(Strike)
    BY <2>1 DEF Corrupt, TempInv, Writing
  <2>2. CASE \E m, pick : CleanKeeps(m, pick)
    <3>1. PICK lines : NestedWrite(lines)
      BY <2>2 DEF CleanKeeps
    <3>2. CASE pc' = "exited"
      <4>1. Running
        BY <1>1, CleanCases
      <4>2. "failed" \in upset'
        BY <3>1, <3>2, <4>1 DEF NestedWrite, Exit, FlushStream, Running, Stopped
      <4> QED
        BY <3>2, <4>2 DEF TempInv, Writing
    <3>3. CASE pc' # "exited"
      <4>1. pc' = pc
        BY <3>1, <3>3 DEF NestedWrite, Exit
      <4>2. pc \in Writing => "write" \in upset'
        <5>1. pc \in Writing => Strike = {"write"}
          BY StrikeType DEF Writing, Growing, Dangling, Entering
        <5> QED
          BY <1>1, <5>1, CleanMarks
      <4> QED
        BY <3>3, <4>1, <4>2 DEF TempInv
    <3> QED
      BY <3>2, <3>3
  <2> QED
    BY <1>1, <2>1, <2>2, CleanCases
<1>2. CASE Open
  <2>1. CASE pc' = "exited"
    BY <1>2, <2>1 DEF Open, Exit, FlushStream, TempInv, Writing
  <2>2. CASE pc' # "exited"
    <3>1. authtemp' = <<>> /\ stream' = "temp" /\ pc' = "print"
      BY <1>2, <2>2 DEF Open, Exit
    <3> QED
      BY <3>1, EmptySeq DEF TempInv
  <2> QED
    BY <2>1, <2>2
<1>3. CASE Close
  <2>1. /\ pc = "print" /\ pc' = "rename"
        /\ FlushStream(authtemp, {})
    BY <1>3 DEF Close
  <2>2. PICK text \in Flushed(out) :
          /\ authtemp' \in IF stream = "temp" THEN Overlays(text, authtemp) ELSE {authtemp}
          /\ upset' = upset \cup {} \cup CutShort(text, out)
    BY <2>1 DEF FlushStream
  <2>3. ASSUME "write" \notin upset' PROVE authtemp' \in Seq(Lines(Hostnames))
    <3>1. stream = "temp" /\ authtemp \in Seq(Lines(Hostnames))
      BY <2>1, <2>2, <2>3 DEF TempInv, Writing
    <3>2. text \in Seq(Lines(Hostnames))
      BY <2>2, FlushedIsText DEF TypeInv, TypeOK
    <3> QED
      BY <2>2, <3>1, <3>2, OverlayIsText
  <2> QED
    BY <2>1, <2>3 DEF TempInv
<1>4. CASE Rename
  <2>1. CASE pc' = "exited"
    <3>1. pc = "rename" /\ upset \subseteq upset' /\ (authtemp = Absent \/ "failed" \in upset')
      BY <1>4, <2>1 DEF Rename, Exit, FlushStream
    <3>2. "write" \in upset \/ authtemp # Absent
      BY <1>0, <3>1 DEF TempInv, Writing
    <3> QED
      BY <2>1, <3>1, <3>2 DEF TempInv, Writing
  <2>2. CASE pc' # "exited"
    BY <1>4, <2>2 DEF Rename, Exit, TempInv, Writing
  <2> QED
    BY <2>1, <2>2
<1>5. CASE Start
  BY <1>5 DEF Start, FirstPoint, TempInv, Writing
<1>6. CASE Kill \/ Overreach
  BY <1>6 DEF Kill, Overreach, Corrupt, TempInv, Writing
<1>7. CASE Fprintf \/ Tick \/ RaiseSigalrm \/ UNCHANGED vars
  <2>1. UNCHANGED <<pc, stream, authtemp, upset>>
    BY <1>7 DEF Fprintf, Tick, RaiseSigalrm, vars, fileVars, histVars
  <2> QED
    BY <2>1 DEF TempInv
<1>8. CASE (\E h \in Hosts : Login(h)) \/ Present \/ Update \/ Test \/ Raise \/ Realloc \/ Assign
           \/ Fill \/ Stamp \/ Count \/ SortSwap \/ SortDone
  <2>1. pc' \in Points \ Writing
    BY <1>8 DEF Login, Present, Update, Test, Raise, Realloc, Assign, Fill, Stamp, Count,
       SortSwap, SortDone, Points, AddPoints, WritePoints, Writing
  <2> QED
    BY <2>1 DEF TempInv, Points, AddPoints, WritePoints
<1> QED
  BY <1>1, <1>2, <1>3, <1>4, <1>5, <1>6, <1>7, <1>8 DEF Next, Step

THEOREM TempInvariant == Spec => []TempInv
<1>1. Init => TempInv
  BY DEF Init, TempInv, Writing
<1> QED
  BY <1>1, TempStep, TypeInvariant, PTL DEF Spec

\* The daemon gives up only if a file operation has failed or SIGALRM has struck
\* between fopen and rename: anywhere else main's rename finds what it renames.
THEOREM ExitCaused == Spec => []ExitsForCause
<1>1. TempInv => ExitsForCause
  BY DEF TempInv, ExitsForCause
<1> QED
  BY <1>1, TempInvariant, PTL

\* A clean at a moment main bears publishes what it keeps, or ends the process.
LEMMA CalmClean ==
  ASSUME TypeInv, auth_clean, Calm'
  PROVE  /\ stream = "none" /\ stream' = "none"
         /\ pc' \in {"exited", "corrupt"} => authfile' = authfile /\ now' = now
<1>1. stream = "none"
  BY MarksGrow DEF Next, Start, auth_clean, Deliverable, Running, TypeInv, StreamBound, CalmPoints
<1>2. CASE Corrupt(Strike)
  BY <1>1, <1>2 DEF Corrupt, timeVars
<1>3. CASE \E m, pick : CleanKeeps(m, pick)
  <2>1. PICK lines : NestedWrite(lines) /\ now' = now
    BY <1>3 DEF CleanKeeps
  <2>2. Running
    BY CleanCases
  <2> QED
    BY <1>1, <2>1, <2>2 DEF NestedWrite, Exit, FlushStream, Running, Stopped
<1> QED
  BY <1>1, <1>2, <1>3, CleanCases

\* The relay file changes by main's rename and by the handler's.
LEMMA ReplacedStep ==
  ASSUME TypeInv, TempInv, [Next]_vars, Calm', authfile' # authfile
  PROVE  \/ pc = "rename" /\ Rename /\ pc' = "nap"
         \/ auth_clean /\ pc' \notin {"exited", "corrupt"}
<1>1. ~Start
  BY DEF Start, fileVars
<1>2. "write" \notin upset
  BY <1>1, MarksGrow DEF Calm
<1>3. (pc = "print" => stream = "temp") /\ (pc # "print" => stream = "none")
  BY <1>2 DEF TempInv, Writing, TypeInv, StreamBound
<1>4. ASSUME NEW temp, NEW marks, FlushStream(temp, marks) PROVE authfile' = authfile
  BY <1>3, <1>4 DEF FlushStream
<1>5. ~(Open \/ Close)
  BY <1>4 DEF Open, Close, Exit
<1>6. CASE Rename
  BY <1>4, <1>6 DEF Rename, Exit
<1>7. CASE auth_clean
  BY <1>7, CalmClean
<1> QED
  BY <1>1, <1>5, <1>6, <1>7 DEF Next, Step, Login, Present, Update, Test, Raise, Realloc, Assign,
     Fill, Stamp, Count, SortSwap, SortDone, Overreach, Corrupt, Fprintf, Tick, RaiseSigalrm, Kill,
     vars, fileVars

\* As long as SIGALRM has come at no bad moment and no write was cut short, the
\* mail server never reads a relay file that is being written.
THEOREM ReplacedWhole == Spec => ReplacedWholeInCalm
<1>1. TypeInv /\ TempInv /\ MirrorInv' /\ [Next]_vars
        => [(Calm /\ "cut" \notin upset)' => Replaced]_vars
  <2> SUFFICES ASSUME TypeInv, TempInv, MirrorInv', [Next]_vars, Calm', "cut" \notin upset',
                      authfile' # authfile
               PROVE  authfile' = Listing(auth, auth_cur)'
    BY DEF Replaced
  <2>1. CASE pc' = "nap"
    BY <2>1 DEF MirrorInv, Mirror
  <2>2. CASE auth_clean /\ pc' \notin {"exited", "corrupt"}
    <3>1. auth_cur <= size[auth] /\ \E m, pick : CleanKeeps(m, pick)
      BY <2>2, CleanCases DEF Corrupt
    <3>2. PICK m, pick : CleanKeeps(m, pick)
      BY <3>1
    <3>3. Kept(m, pick) = Listing(auth, auth_cur)'
      BY <3>1, <3>2, CleanText
    <3>4. \E saved \in Flushed(Kept(m, pick)) :
            authfile' = saved /\ upset' = upset \cup Strike \cup CutShort(saved, Kept(m, pick))
      BY <2>2, <3>2 DEF CleanKeeps, NestedWrite, Exit
    <3> QED
      BY <3>3, <3>4 DEF CutShort
  <2> QED
    BY <2>1, <2>2, ReplacedStep
<1> QED
  BY <1>1, TypeInvariant, TempInvariant, MirrorInvariant, PTL DEF Spec, ReplacedWholeInCalm

-----------------------------------------------------------------------------
(* The table.                                                              *)

\* No host is listed twice.
Different ==
  \A i, j \in 0..(Counted - 1) : i # j => buf[auth][i].hostname # buf[auth][j].hostname

\* An entry bears the time of its host's last login.
Dated ==
  \A i \in 0..(Counted - 1) :
    /\ buf[auth][i].hostname \in Hosts
    /\ buf[auth][i].t = lastLogin[buf[auth][i].hostname]
    /\ buf[auth][i].t # Never

\* A host that has logged in lately has an entry.
Complete ==
  \A h \in Hosts : now - lastLogin[h] < Timeout =>
    \E i \in 0..(Counted - 1) : buf[auth][i].hostname = h

\* The alarm goes off before an entry is too old.
Fresh == \A i \in 0..(Counted - 1) : now - buf[auth][i].t + alarm < Timeout + Flush

\* The points between auth_present's answer and the time stamp of a new entry.
Slotting == {"test", "raise", "grow", "grown", "regrow", "regrown", "fill", "stamp"}

\* What main can rely on at each point of auth_text_add.
AtPoint ==
  /\ pc \notin {"count", "sort"} => SortedTo(auth, auth_cur)
  /\ pc \in Slotting => \A i \in 0..(auth_cur - 1) : buf[auth][i].hostname # hostname
  /\ pc = "stamp" => buf[auth][auth_cur].hostname = hostname
  /\ pc = "update" => /\ e[1] = auth
                      /\ e[2] \in 0..(auth_cur - 1)
                      /\ buf[auth][e[2]].hostname = hostname
  /\ pc = "count" => n = auth_cur + 1
  /\ pc = "sort" => n = auth_cur /\ base = auth
  /\ Booting => auth_cur = 0

Whole == Different /\ Dated /\ Complete /\ Fresh /\ AtPoint

TableInv ==
  /\ now >= Timeout + Flush
  /\ Running /\ Calm => Whole

\* The types of what the table consists of.
LEMMA TableTypes ==
  ASSUME TypeInv
  PROVE  /\ auth \in 1..2 /\ auth_cur \in Nat /\ Counted \in Nat
         /\ \A b \in 1..2 : size[b] \in Nat /\ buf[b] \in [0..(size[b] - 1) -> Entries]
         /\ buf = [b \in 1..2 |-> buf[b]]
         /\ now \in Nat /\ alarm \in 0..Flush /\ Timeout \in Nat \ {0} /\ Flush \in Nat \ {0}
         /\ lastLogin \in [Hosts -> Nat]
<1>1. /\ auth \in 1..2 /\ auth_cur \in Nat
      /\ buf = [b \in 1..2 |-> buf[b]]
      /\ now \in Nat /\ alarm \in 0..Flush /\ Timeout \in Nat \ {0} /\ Flush \in Nat \ {0}
      /\ lastLogin \in [Hosts -> Nat]
  BY ConstantsOK DEF TypeInv, TypeOK
<1>2. \A b \in 1..2 : size[b] \in Nat /\ buf[b] \in [0..(size[b] - 1) -> Entries]
  BY DEF TypeInv, TypeOK
<1>3. Counted \in Nat
  BY <1>1 DEF Counted
<1> QED
  BY <1>1, <1>2, <1>3

\* The counted entries are in their array.
LEMMA CountedSlots ==
  ASSUME TypeInv, SizeInv, Calm, Running
  PROVE  /\ Counted <= size[auth]
         /\ \A i \in 0..(Counted - 1) : i \in 0..(size[auth] - 1) /\ buf[auth][i] \in Entries
<1>1. auth \in 1..2 /\ auth_cur \in Nat /\ auth_max \in Nat /\ AuthGrow \in Nat /\ size[auth] \in Nat
  BY ConstantsOK DEF TypeInv, TypeOK
<1>2. SizeBound
  BY DEF SizeInv, Calm
<1>3. Counted <= size[auth]
  <2>1. CASE pc = "grow"
    BY <1>1, <1>2, <2>1 DEF SizeBound, Counted
  <2>2. CASE pc \in {"grown", "regrow"}
    BY <1>1, <1>2, <2>2 DEF SizeBound, Counted
  <2>3. CASE pc \notin {"grow", "grown", "regrow"}
    BY <1>1, <1>2, <2>3 DEF SizeBound, Counted
  <2> QED
    BY <2>1, <2>2, <2>3
<1>4. 0..(Counted - 1) \subseteq 0..(size[auth] - 1)
  BY <1>1, <1>3, MoreSlots, TableTypes
<1> QED
  BY <1>1, <1>3, <1>4, TableTypes

\* A statement that leaves the counted entries alone.
LEMMA SameTable ==
  ASSUME UNCHANGED <<now, alarm, auth, auth_cur, lastLogin>>,
         Counted' = Counted,
         \A i \in 0..(Counted - 1) : buf'[auth][i] = buf[auth][i],
         Different, Dated, Complete, Fresh
  PROVE  Different' /\ Dated' /\ Complete' /\ Fresh'
  BY DEF Different, Dated, Complete, Fresh

\* Update refreshes one entry.
LEMMA UpdateEffect ==
  ASSUME TypeInv, SizeInv, Calm, AtPoint, Update
  PROVE  \A i \in 0..(auth_cur - 1) :
           /\ buf'[auth][i].hostname = buf[auth][i].hostname
           /\ buf'[auth][i].t = IF i = e[2] THEN now ELSE buf[auth][i].t
<1>1. /\ buf' = [buf EXCEPT ![e[1]][e[2]].t = now]
      /\ e[1] = auth /\ e[2] \in 0..(auth_cur - 1)
      /\ Running /\ Counted = auth_cur
  BY DEF Update, Refreshed, AtPoint, Running, Stopped, Counted
<1>2. /\ auth \in 1..2 /\ buf = [b \in 1..2 |-> buf[b]]
      /\ buf[auth] \in [0..(size[auth] - 1) -> Entries]
      /\ \A i \in 0..(auth_cur - 1) : i \in 0..(size[auth] - 1) /\ buf[auth][i] \in Entries
  BY <1>1, TableTypes, CountedSlots
<1>3. buf'[auth] = [buf[auth] EXCEPT ![e[2]] = [@ EXCEPT !.t = now]]
  BY <1>1, <1>2
<1>4. \A i \in 0..(auth_cur - 1) :
        buf'[auth][i] = IF i = e[2] THEN [buf[auth][i] EXCEPT !.t = now] ELSE buf[auth][i]
  BY <1>2, <1>3
<1> QED
  BY <1>2, <1>4 DEF Entries

\* Growing an array leaves the counted entries in it.
LEMMA ReallocEffect ==
  ASSUME TypeInv, SizeInv, Calm, Realloc
  PROVE  \A i \in 0..(Counted - 1) : buf'[auth][i] = buf[auth][i]
<1>1. \A i \in 0..(Counted - 1) : i \in 0..(size[auth] - 1)
  BY CountedSlots DEF Realloc, Running, Stopped
<1>2. auth \in 1..2
  BY TableTypes
<1>3. PICK b \in 1..2 : buf' = Grown(b)
  BY <1>2, ShadowType DEF Realloc
<1>4. \A i \in 0..(size[auth] - 1) : buf'[auth][i] = buf[auth][i]
  BY <1>2, <1>3, GrownType DEF TypeInv
<1> QED
  BY <1>1, <1>4

\* Fill fills the slot behind the counted ones, and Stamp dates it.
LEMMA SlotEffect ==
  ASSUME TypeInv, Fill \/ Stamp
  PROVE  /\ \A i \in 0..(auth_cur - 1) : buf'[auth][i] = buf[auth][i]
         /\ Fill => buf'[auth][auth_cur].hostname = hostname
         /\ Stamp => /\ buf'[auth][auth_cur].hostname = buf[auth][auth_cur].hostname
                     /\ buf'[auth][auth_cur].t = now
<1>0. /\ auth \in 1..2 /\ auth_cur \in Nat /\ size[auth] \in Nat /\ auth_cur < size[auth]
      /\ buf = [b \in 1..2 |-> buf[b]]
      /\ buf[auth] \in [0..(size[auth] - 1) -> Entries]
  BY TableTypes DEF Fill, Stamp
<1>1. auth_cur \in 0..(size[auth] - 1) /\ \A i \in 0..(auth_cur - 1) : i # auth_cur
  BY <1>0
<1>2. CASE Fill
  <2>1. buf' = [buf EXCEPT ![auth][auth_cur].hostname = hostname] /\ pc = "fill"
    BY <1>2 DEF Fill
  <2>2. buf'[auth] = [buf[auth] EXCEPT ![auth_cur] = [@ EXCEPT !.hostname = hostname]]
    BY <1>0, <2>1
  <2>3. ~Stamp
    BY <2>1 DEF Stamp
  <2> QED
    BY <1>0, <1>1, <2>2, <2>3 DEF Entries
<1>3. CASE Stamp
  <2>1. buf' = [buf EXCEPT ![auth][auth_cur].t = now] /\ pc = "stamp"
    BY <1>3 DEF Stamp
  <2>2. buf'[auth] = [buf[auth] EXCEPT ![auth_cur] = [@ EXCEPT !.t = now]]
    BY <1>0, <2>1
  <2>3. ~Fill
    BY <2>1 DEF Fill
  <2> QED
    BY <1>0, <1>1, <2>2, <2>3 DEF Entries
<1> QED
  BY <1>2, <1>3

\* SortSwap exchanges two entries.
LEMMA SwapEffect ==
  ASSUME TypeInv, SizeInv, Calm, AtPoint, SortSwap
  PROVE  \E k, l \in 0..(auth_cur - 1) :
           /\ k # l
           /\ \A i \in 0..(auth_cur - 1) :
                buf'[auth][i] = IF i = k THEN buf[auth][l]
                                ELSE IF i = l THEN buf[auth][k] ELSE buf[auth][i]
<1>0. Running /\ Counted = auth_cur
  BY DEF SortSwap, Running, Stopped, Counted
<1>1. /\ n = auth_cur /\ base = auth
      /\ auth \in 1..2 /\ auth_cur \in Nat /\ buf = [b \in 1..2 |-> buf[b]]
      /\ buf[auth] \in [0..(size[auth] - 1) -> Entries]
      /\ \A i \in 0..(auth_cur - 1) : i \in 0..(size[auth] - 1)
  BY <1>0, TableTypes, CountedSlots DEF SortSwap, AtPoint
<1>2. PICK p \in Inversions :
        buf' = [buf EXCEPT ![base][p[1]] = buf[base][p[2]], ![base][p[2]] = buf[base][p[1]]]
  BY DEF SortSwap
<1>3. p[1] \in 0..(auth_cur - 1) /\ p[2] \in 0..(auth_cur - 1) /\ p[1] # p[2]
  BY <1>1 DEF Inversions
<1>4. buf'[auth] = [buf[auth] EXCEPT ![p[1]] = buf[auth][p[2]], ![p[2]] = buf[auth][p[1]]]
  BY <1>1, <1>2
<1>5. \A i \in 0..(auth_cur - 1) :
        buf'[auth][i] = IF i = p[1] THEN buf[auth][p[2]]
                        ELSE IF i = p[2] THEN buf[auth][p[1]] ELSE buf[auth][i]
  BY <1>1, <1>3, <1>4
<1> QED
  BY <1>3, <1>5

\* A clean that comes to its end keeps the live entries in their order.
LEMMA CleanEffect ==
  ASSUME TypeInv, auth_clean, Calm', pc' \notin {"exited", "corrupt"}
  PROVE  /\ pc \in CalmPoints /\ pc' = pc /\ alarm' = Flush
         /\ UNCHANGED <<now, lastLogin, hostname>>
         /\ auth_cur' \in 0..auth_cur
         /\ \E pick \in [0..(auth_cur' - 1) -> Live] :
              /\ Enumerates(pick, auth_cur', Live)
              /\ \A i \in 0..(auth_cur' - 1) :
                   /\ pick[i] \in 0..(auth_cur - 1)
                   /\ buf'[auth'][i] = buf[auth][pick[i]]
              /\ authfile' \in Flushed(Listing(auth, auth_cur)')
              /\ "cut" \notin upset' => authfile' = Listing(auth, auth_cur)'
<1>1. pc \in CalmPoints
  BY MarksGrow DEF Next, Start, auth_clean, Deliverable, Running
<1>2. auth_cur <= size[auth] /\ \E m, pick : CleanKeeps(m, pick)
  BY CleanCases DEF Corrupt
<1>3. PICK m, pick : CleanKeeps(m, pick)
  BY <1>2
<1>4. /\ m \in Nat /\ m <= auth_cur /\ auth_cur' = m /\ alarm' = Flush
      /\ UNCHANGED <<now, lastLogin, hostname>>
      /\ pick \in [0..(m - 1) -> Live]
      /\ Enumerates(pick, m, Live)
      /\ NestedWrite(Kept(m, pick))
  BY <1>3 DEF CleanKeeps, frameVars
<1>5. /\ Kept(m, pick) = Listing(auth, auth_cur)'
      /\ \A i \in 0..(m - 1) : /\ pick[i] \in 0..(auth_cur - 1)
                               /\ buf'[auth'][i] = buf[auth][pick[i]]
  BY <1>2, <1>3, CleanText
<1>6. PICK saved \in Flushed(Kept(m, pick)) :
        /\ authfile' = saved
        /\ upset' = upset \cup Strike \cup CutShort(saved, Kept(m, pick))
        /\ pc' = pc
  BY <1>4 DEF NestedWrite, Exit
<1>7. "cut" \notin upset' => saved = Kept(m, pick)
  BY <1>6 DEF CutShort
<1>8. auth_cur' \in 0..auth_cur
  BY <1>4, TableTypes
<1> QED
  BY <1>1, <1>4, <1>5, <1>6, <1>7, <1>8

-----------------------------------------------------------------------------
(* The table stays whole.                                                  *)

\* A new process has an empty table, and nobody has logged in.
LEMMA StartWhole ==
  ASSUME TypeInv, TableInv, Start
  PROVE  Whole'
<1>1. /\ auth_cur' = 0 /\ pc' = "open" /\ now' = now /\ lastLogin' = [h \in Hosts |-> Never]
      /\ Counted' = 0 /\ now >= Timeout + Flush
  BY DEF Start, FirstPoint, Counted, TableInv
<1>2. now \in Nat /\ Timeout \in Nat /\ Flush \in Nat \ {0}
  BY TableTypes
<1>3. Complete'
  BY <1>1, <1>2 DEF Complete
<1> QED
  BY <1>1, <1>3 DEF Whole, Different, Dated, Fresh, AtPoint, SortedTo, Slotting

\* Update keeps it whole: the entry it refreshes is its host's.
LEMMA UpdateWhole ==
  ASSUME TypeInv, SizeInv, TableInv, Calm, Update
  PROVE  Whole'
<1>0. Whole
  BY DEF TableInv, Update, Running, Stopped
<1>1. /\ pc = "update" /\ pc' = "nap" /\ UNCHANGED <<now, alarm, auth, auth_cur>>
      /\ lastLogin' = [lastLogin EXCEPT ![hostname] = now]
      /\ Running
  BY DEF Update, timeVars, Running, Stopped
<1>3. Counted = auth_cur /\ Counted' = auth_cur
  BY <1>1 DEF Counted
<1>2. /\ auth_cur \in Nat /\ now \in Nat /\ alarm \in 0..Flush /\ lastLogin \in [Hosts -> Nat]
      /\ Timeout \in Nat \ {0} /\ Flush \in Nat \ {0}
      /\ \A i \in 0..(auth_cur - 1) : buf[auth][i].hostname \in Hosts /\ buf[auth][i].t \in Nat
  BY <1>0, <1>1, <1>3, TableTypes, CountedSlots DEF Whole, Dated, Entries
<1>4. /\ e[2] \in 0..(auth_cur - 1) /\ buf[auth][e[2]].hostname = hostname
      /\ \A i \in 0..(auth_cur - 1) : i # e[2] => buf[auth][i].hostname # hostname
  BY <1>0, <1>1, <1>3 DEF Whole, AtPoint, Different
<1>5. \A i \in 0..(auth_cur - 1) :
           /\ buf'[auth][i].hostname = buf[auth][i].hostname
           /\ buf'[auth][i].t = IF i = e[2] THEN now ELSE buf[auth][i].t
  BY <1>0, UpdateEffect DEF Whole
<1>6. Different' /\ SortedTo(auth, auth_cur)'
  BY <1>0, <1>1, <1>3, <1>5 DEF Whole, Different, AtPoint, SortedTo
<1>7. Dated'
  <2>1. now # Never
    BY <1>2 DEF TableInv
  <2> QED
    BY <1>0, <1>1, <1>2, <1>3, <1>4, <1>5, <2>1 DEF Whole, Dated
<1>8. Complete'
  BY <1>0, <1>1, <1>2, <1>3, <1>4, <1>5 DEF Whole, Complete
<1>9. Fresh'
  BY <1>0, <1>1, <1>2, <1>3, <1>5 DEF Whole, Fresh
<1> QED
  BY <1>1, <1>6, <1>7, <1>8, <1>9 DEF Whole, AtPoint, Booting, WritePoints, Slotting

\* auth_present finds the host's entry, or there is none: the table is in order.
LEMMA PresentWhole ==
  ASSUME TypeInv, TableInv, Calm, Present
  PROVE  Whole'
<1>0. Whole
  BY DEF TableInv, Present, Running, Stopped
<1>1. /\ pc = "present" /\ pc' \in {"test", "update"}
      /\ UNCHANGED <<now, alarm, auth, buf, auth_cur, lastLogin, hostname>>
      /\ e' \in auth_present(hostname)
      /\ pc' = IF e' = NULL THEN "test" ELSE "update"
  BY DEF Present, timeVars, tableVars, histVars
<1>2. auth \in 1..2 /\ auth_cur \in Nat
  BY TableTypes
<1>3. Counted' = Counted
  BY <1>1 DEF Counted
<1>4. Different' /\ Dated' /\ Complete' /\ Fresh' /\ SortedTo(auth, auth_cur)'
  BY <1>0, <1>1, <1>3, SameTable DEF Whole, AtPoint, SortedTo
<1> DEFINE found == {<<auth, i>> : i \in {k \in 0..(auth_cur - 1) : buf[auth][k].hostname = hostname}}
<1>5. IF found # {} THEN e' \in found ELSE e' = NULL
  BY <1>0, <1>1 DEF Whole, AtPoint, auth_present
<1>6. CASE e' = NULL
  <2>1. NULL \notin found
    BY <1>2 DEF NULL
  <2>2. \A i \in 0..(auth_cur - 1) : buf[auth][i].hostname # hostname
    BY <1>5, <1>6, <2>1
  <2> QED
    BY <1>1, <1>4, <1>6, <2>2 DEF Whole, AtPoint, Booting, WritePoints
<1>7. CASE e' # NULL
  <2>1. PICK i \in 0..(auth_cur - 1) : buf[auth][i].hostname = hostname /\ e' = <<auth, i>>
    BY <1>5, <1>7
  <2> QED
    BY <1>1, <1>4, <1>7, <2>1 DEF Whole, AtPoint, Booting, WritePoints, Slotting
<1> QED
  BY <1>6, <1>7

\* Making room for an entry, and writing its name into a slot that is not counted.
LEMMA RoomWhole ==
  ASSUME TypeInv, SizeInv, TableInv, Calm, Test \/ Raise \/ Realloc \/ Assign \/ Fill
  PROVE  Whole'
<1>0. Whole
  BY DEF TableInv, Test, Raise, Realloc, Assign, Fill, Dangling, Running, Stopped
<1>1. /\ pc \in Slotting \ {"stamp"}
      /\ pc' \in Slotting
      /\ Fill \/ pc' # "stamp"
      /\ UNCHANGED <<now, alarm, auth, auth_cur, lastLogin, hostname>>
  BY DEF Test, Raise, Realloc, Assign, Fill, Dangling, Slotting, timeVars, tableVars, frameVars, histVars
<1>2. Counted = auth_cur /\ Counted' = auth_cur
  BY <1>1 DEF Counted, Slotting
<1>3. /\ \A i \in 0..(auth_cur - 1) : buf'[auth][i] = buf[auth][i]
      /\ Fill => buf'[auth][auth_cur].hostname = hostname
  <2>1. CASE Test \/ Raise \/ Assign
    <3>1. buf' = buf /\ pc # "fill"
      BY <2>1 DEF Test, Raise, Assign, Dangling, tableVars
    <3> QED
      BY <3>1 DEF Fill
  <2>2. CASE Realloc
    <3>1. pc # "fill"
      BY <2>2 DEF Realloc
    <3> QED
      BY <1>2, <2>2, <3>1, ReallocEffect DEF Fill
  <2>3. CASE Fill
    BY <2>3, SlotEffect
  <2> QED
    BY <2>1, <2>2, <2>3
<1>4. Different' /\ Dated' /\ Complete' /\ Fresh'
  BY <1>0, <1>1, <1>2, <1>3, SameTable DEF Whole
<1>5. /\ SortedTo(auth, auth_cur)'
      /\ \A i \in 0..(auth_cur - 1) : buf'[auth][i].hostname # hostname
  BY <1>0, <1>1, <1>3 DEF Whole, AtPoint, SortedTo, Slotting
<1>6. AtPoint'
  BY <1>1, <1>3, <1>5 DEF AtPoint, Booting, WritePoints, Slotting
<1> QED
  BY <1>4, <1>6 DEF Whole

\* With its time on record the new entry is one of the table: as good as counted.
LEMMA StampWhole ==
  ASSUME TypeInv, TableInv, Calm, Stamp
  PROVE  Whole'
<1>0. Whole
  BY DEF TableInv, Stamp, Running, Stopped
<1>1. /\ pc = "stamp" /\ pc' = "count" /\ n' = auth_cur + 1
      /\ UNCHANGED <<now, alarm, auth, auth_cur, hostname>>
      /\ lastLogin' = [lastLogin EXCEPT ![hostname] = now]
  BY DEF Stamp, timeVars
<1>2. /\ auth_cur \in Nat /\ now \in Nat /\ alarm \in 0..Flush /\ lastLogin \in [Hosts -> Nat]
      /\ Timeout \in Nat \ {0} /\ Flush \in Nat \ {0}
      /\ hostname \in Hosts
  BY <1>1, TableTypes DEF TypeInv, TypeOK, AddPoints
<1>3. Counted = auth_cur /\ Counted' = auth_cur + 1
  BY <1>1 DEF Counted
<1>4. \A i \in 0..(Counted' - 1) : i \in 0..(auth_cur - 1) \/ i = auth_cur
  BY <1>2, <1>3
<1>5. /\ \A i \in 0..(auth_cur - 1) : buf'[auth][i] = buf[auth][i] /\ buf'[auth][i].hostname # hostname
      /\ buf'[auth][auth_cur].hostname = hostname
      /\ buf'[auth][auth_cur].t = now
  BY <1>0, <1>1, SlotEffect DEF Whole, AtPoint, Slotting
<1>6. Different'
  <2>1. \A i, j \in 0..(auth_cur - 1) : i # j => buf[auth][i].hostname # buf[auth][j].hostname
    BY <1>0, <1>3 DEF Whole, Different
  <2> QED
    BY <1>1, <1>4, <1>5, <2>1 DEF Different
<1>7. Dated'
  <2>1. now # Never
    BY <1>2 DEF TableInv
  <2>2. \A i \in 0..(auth_cur - 1) :
          /\ buf[auth][i].hostname \in Hosts
          /\ buf[auth][i].t = lastLogin[buf[auth][i].hostname]
          /\ buf[auth][i].t # Never
    BY <1>0, <1>3 DEF Whole, Dated
  <2> QED
    BY <1>1, <1>2, <1>4, <1>5, <2>1, <2>2 DEF Dated
<1>8. Complete'
  <2>1. auth_cur \in 0..(Counted' - 1) /\ 0..(auth_cur - 1) \subseteq 0..(Counted' - 1)
    BY <1>2, <1>3
  <2>2. \A h \in Hosts : now - lastLogin[h] < Timeout =>
          \E i \in 0..(auth_cur - 1) : buf[auth][i].hostname = h
    BY <1>0, <1>3 DEF Whole, Complete
  <2>3. \A h \in Hosts \ {hostname} : lastLogin'[h] = lastLogin[h]
    BY <1>1, <1>2
  <2> QED
    BY <1>1, <1>5, <2>1, <2>2, <2>3 DEF Complete
<1>9. Fresh'
  <2>1. \A i \in 0..(auth_cur - 1) : now - buf[auth][i].t + alarm < Timeout + Flush
    BY <1>0, <1>3 DEF Whole, Fresh
  <2>2. now - now + alarm < Timeout + Flush
    BY <1>2
  <2> QED
    BY <1>1, <1>4, <1>5, <2>1, <2>2 DEF Fresh
<1> QED
  BY <1>1, <1>6, <1>7, <1>8, <1>9 DEF Whole, AtPoint, Booting, WritePoints, Slotting

\* Counting it changes nothing, and leaves all of the table to qsort.
LEMMA CountWhole ==
  ASSUME TypeInv, TableInv, Calm, Count
  PROVE  Whole'
<1>0. Whole
  BY DEF TableInv, Count, Running, Stopped
<1>1. /\ pc = "count" /\ pc' = "sort" /\ auth_cur' \in {n, auth_cur + 1} /\ n' = auth_cur'
      /\ base' = auth /\ UNCHANGED <<now, alarm, auth, buf, lastLogin>>
  BY DEF Count, timeVars, histVars
<1>2. auth_cur' = auth_cur + 1
  BY <1>0, <1>1 DEF Whole, AtPoint
<1>3. Counted' = Counted
  BY <1>1, <1>2 DEF Counted
<1>4. Different' /\ Dated' /\ Complete' /\ Fresh'
  BY <1>0, <1>1, <1>3 DEF Whole, Different, Dated, Complete, Fresh
<1> QED
  BY <1>1, <1>4 DEF Whole, AtPoint, Booting, WritePoints, Slotting

\* qsort exchanges entries and never loses one.
LEMMA SwapWhole ==
  ASSUME TypeInv, SizeInv, TableInv, Calm, SortSwap
  PROVE  Whole'
<1>0. Whole
  BY DEF TableInv, SortSwap, Running, Stopped
<1>1. /\ pc = "sort" /\ pc' = "sort"
      /\ UNCHANGED <<now, alarm, auth, auth_cur, lastLogin, n, base>>
  BY DEF SortSwap, timeVars, frameVars, histVars
<1>2. Counted = auth_cur /\ Counted' = auth_cur
  BY <1>1 DEF Counted
<1>3. PICK k, l \in 0..(auth_cur - 1) :
        /\ k # l
        /\ \A i \in 0..(auth_cur - 1) :
             buf'[auth][i] = IF i = k THEN buf[auth][l]
                             ELSE IF i = l THEN buf[auth][k] ELSE buf[auth][i]
  BY <1>0, SwapEffect DEF Whole
<1> DEFINE from(i) == IF i = k THEN l ELSE IF i = l THEN k ELSE i
<1>4. /\ \A i \in 0..(auth_cur - 1) : /\ from(i) \in 0..(auth_cur - 1)
                                      /\ from(from(i)) = i
                                      /\ buf'[auth][i] = buf[auth][from(i)]
      /\ \A i, j \in 0..(auth_cur - 1) : i # j => from(i) # from(j)
  BY <1>3
<1> HIDE DEF from
<1>5. Different'
  BY <1>0, <1>1, <1>2, <1>4 DEF Whole, Different
<1>6. Dated'
  BY <1>0, <1>1, <1>2, <1>4 DEF Whole, Dated
<1>7. Complete'
  <2>1. \A i \in 0..(auth_cur - 1) : buf'[auth][from(i)] = buf[auth][i]
    BY <1>4
  <2> QED
    BY <1>0, <1>1, <1>2, <1>4, <2>1 DEF Whole, Complete
<1>8. Fresh'
  BY <1>0, <1>1, <1>2, <1>4 DEF Whole, Fresh
<1> QED
  BY <1>0, <1>1, <1>5, <1>6, <1>7, <1>8 DEF Whole, AtPoint, Booting, WritePoints, Slotting

\* When nothing is out of order, and no host is listed twice, the table is sorted.
LEMMA SortedWhole ==
  ASSUME TypeInv, TableInv, Calm, SortDone
  PROVE  Whole'
<1>0. Whole
  BY DEF TableInv, SortDone, Running, Stopped
<1>1. /\ pc = "sort" /\ pc' = "open" /\ Inversions = {} /\ hostname' = hostname
      /\ UNCHANGED <<now, alarm, auth, buf, auth_cur, lastLogin>>
  BY DEF SortDone, timeVars, tableVars, histVars
<1>2. Counted = auth_cur /\ Counted' = auth_cur
  BY <1>1 DEF Counted
<1>3. Different' /\ Dated' /\ Complete' /\ Fresh'
  BY <1>0, <1>1, <1>2, SameTable DEF Whole
<1>4. SortedTo(auth, auth_cur)
  <2>1. n = auth_cur /\ base = auth
    BY <1>0, <1>1 DEF Whole, AtPoint
  <2> SUFFICES ASSUME NEW i \in 0..(auth_cur - 1), NEW j \in 0..(auth_cur - 1), i < j
               PROVE  buf[auth][i].hostname < buf[auth][j].hostname
    BY DEF SortedTo
  <2>2. ~(buf[auth][j].hostname < buf[auth][i].hostname)
    <3>1. <<i, j>> \notin Inversions
      BY <1>1
    <3> QED
      BY <2>1, <3>1 DEF Inversions
  <2>3. buf[auth][i].hostname # buf[auth][j].hostname
    BY <1>0, <1>2 DEF Whole, Different
  <2>4. buf[auth][i].hostname \in Nat /\ buf[auth][j].hostname \in Nat
    BY <1>0, <1>2, ConstantsOK DEF Whole, Dated
  <2> QED
    BY <2>2, <2>3, <2>4
<1>5. hostname # NoHost
  BY <1>1, ConstantsOK DEF TypeInv, TypeOK, AddPoints
<1> QED
  BY <1>1, <1>3, <1>4, <1>5 DEF Whole, AtPoint, Booting, WritePoints, SortedTo, Slotting

\* A clean keeps whom it must, and nobody else, in order.
LEMMA CleanWhole ==
  ASSUME TypeInv, SizeInv, TableInv, auth_clean, Calm', pc' \notin {"exited", "corrupt"}
  PROVE  Whole'
<1>0. Whole /\ Calm /\ Running
  BY CleanMarks, CleanCases DEF TableInv, Calm
<1>1. /\ pc \in CalmPoints /\ pc' = pc /\ alarm' = Flush /\ auth_cur' \in 0..auth_cur
      /\ UNCHANGED <<now, lastLogin, hostname>>
  BY CleanEffect
<1>2. PICK pick \in [0..(auth_cur' - 1) -> Live] :
        /\ Enumerates(pick, auth_cur', Live)
        /\ \A i \in 0..(auth_cur' - 1) :
             /\ pick[i] \in 0..(auth_cur - 1)
             /\ buf'[auth'][i] = buf[auth][pick[i]]
  BY CleanEffect
<1>4. Counted = auth_cur /\ Counted' = auth_cur'
  BY <1>1 DEF Counted, CalmPoints
<1>3. /\ auth_cur \in Nat /\ auth_cur' \in Nat /\ now \in Nat /\ Timeout \in Nat /\ Flush \in Nat
      /\ \A i \in 0..(auth_cur - 1) : buf[auth][i].t \in Nat
  BY <1>0, <1>1, <1>4, TableTypes, CountedSlots DEF Entries
<1>5. /\ \A i \in 0..(auth_cur' - 1) : pick[i] \in Live
      /\ \A i \in Live : \E k \in 0..(auth_cur' - 1) : pick[k] = i
      /\ \A k, l \in 0..(auth_cur' - 1) : k < l => pick[k] < pick[l]
  BY <1>2 DEF Enumerates
<1>6. SortedTo(auth, auth_cur)'
  <2>1. SortedTo(auth, auth_cur)
    BY <1>0, <1>1 DEF Whole, AtPoint, CalmPoints
  <2> QED
    BY <1>2, <1>5, <2>1 DEF SortedTo
<1>7. Different'
  <2>1. \A k, l \in 0..(auth_cur' - 1) : k # l => pick[k] # pick[l]
    <3>1. \A k, l \in 0..(auth_cur' - 1) : k # l => k < l \/ l < k
      BY <1>3
    <3>2. \A i, j \in 0..(auth_cur - 1) : i < j => i # j
      BY <1>3
    <3> QED
      BY <1>2, <1>5, <3>1, <3>2
  <2> QED
    BY <1>0, <1>2, <1>4, <2>1 DEF Whole, Different
<1>8. Dated'
  <2>1. \A i \in 0..(auth_cur - 1) :
          /\ buf[auth][i].hostname \in Hosts
          /\ buf[auth][i].t = lastLogin[buf[auth][i].hostname]
          /\ buf[auth][i].t # Never
    BY <1>0, <1>4 DEF Whole, Dated
  <2>2. \A i \in 0..(auth_cur' - 1) :
          /\ buf'[auth'][i].hostname \in Hosts
          /\ buf'[auth'][i].t = lastLogin[buf'[auth'][i].hostname]
          /\ buf'[auth'][i].t # Never
    BY <1>2, <2>1
  <2> QED
    BY <1>1, <1>4, <2>2 DEF Dated
<1>9. Complete'
  <2> SUFFICES ASSUME NEW h \in Hosts, now - lastLogin[h] < Timeout
               PROVE  \E k \in 0..(auth_cur' - 1) : buf'[auth'][k].hostname = h
    BY <1>1, <1>4 DEF Complete
  <2>1. PICK i \in 0..(auth_cur - 1) : buf[auth][i].hostname = h
    BY <1>0, <1>4 DEF Whole, Complete
  <2>2. i \in Live
    BY <1>0, <1>4, <2>1 DEF Whole, Dated, Live
  <2> QED
    BY <1>2, <1>5, <2>1, <2>2
<1>10. Fresh'
  <2>1. \A i \in Live : now - buf[auth][i].t < Timeout /\ buf[auth][i].t \in Nat
    BY <1>3 DEF Live
  <2>2. \A i \in Live : now - buf[auth][i].t + Flush < Timeout + Flush
    BY <1>3, <2>1
  <2> QED
    BY <1>1, <1>2, <1>4, <1>5, <2>2 DEF Fresh
<1>11. pc \in Slotting => \A i \in 0..(auth_cur' - 1) : buf'[auth'][i].hostname # hostname
  BY <1>0, <1>2 DEF Whole, AtPoint
<1>12. Booting => auth_cur' = 0
  BY <1>0, <1>1, <1>3 DEF Whole, AtPoint
<1>13. AtPoint'
  BY <1>1, <1>6, <1>11, <1>12 DEF AtPoint, CalmPoints, Slotting, Booting
<1> QED
  BY <1>7, <1>8, <1>9, <1>10, <1>13 DEF Whole

\* Main's statements that leave the table and the clock alone.
LEMMA RestWhole ==
  ASSUME TableInv, Calm, Running,
         UNCHANGED <<now, alarm, auth, buf, auth_cur, lastLogin>>,
         \/ (pc = "nap" /\ pc' = "present")
         \/ (pc \in WritePoints /\ pc' \in WritePoints /\ hostname' = hostname)
         \/ (pc \in WritePoints /\ pc' = "nap")
         \/ (pc' = pc /\ UNCHANGED <<hostname, e, n, base>>)
  PROVE  Whole'
<1>1. Whole
  BY DEF TableInv
<1>2. Counted' = Counted
  BY DEF Counted, WritePoints
<1>3. Different' /\ Dated' /\ Complete' /\ Fresh' /\ SortedTo(auth, auth_cur)' = SortedTo(auth, auth_cur)
  BY <1>1, <1>2, SameTable DEF Whole, SortedTo
<1> QED
  BY <1>1, <1>3 DEF Whole, AtPoint, Booting, WritePoints, Slotting

\* A second makes every entry a second older, and the alarm a second nearer; a
\* signal that comes early keeps the table fresh all the more.
LEMMA TimeWhole ==
  ASSUME TypeInv, TableInv, Calm, Running, Tick \/ RaiseSigalrm
  PROVE  Whole'
<1>1. /\ Whole
      /\ now' \in {now, now + 1}
      /\ UNCHANGED <<pc, auth, buf, auth_cur, hostname, e, n, base, lastLogin>>
      /\ \/ now' = now + 1 /\ alarm > 0 /\ alarm' = alarm - 1
         \/ now' = now /\ alarm' = 0
  BY DEF TableInv, Tick, RaiseSigalrm, tableVars, frameVars, histVars
<1>2. /\ now \in Nat /\ alarm \in Nat /\ lastLogin \in [Hosts -> Nat]
      /\ Timeout \in Nat /\ Flush \in Nat
  BY TableTypes
<1>3. Counted' = Counted
  BY <1>1 DEF Counted
<1>4. Different' /\ Dated'
  BY <1>1, <1>3 DEF Whole, Different, Dated
<1>5. Complete'
  <2> SUFFICES ASSUME NEW h \in Hosts, now' - lastLogin'[h] < Timeout
               PROVE  \E i \in 0..(Counted - 1) : buf[auth][i].hostname = h
    BY <1>1, <1>3 DEF Complete
  <2>1. now - lastLogin[h] < Timeout
    <3>1. now' - lastLogin[h] < Timeout /\ lastLogin[h] \in Nat
      BY <1>1, <1>2
    <3> QED
      BY <1>1, <1>2, <3>1
  <2> QED
    BY <1>1, <2>1 DEF Whole, Complete
<1>6. Fresh'
  <2>1. \A i \in 0..(Counted - 1) : buf[auth][i].t \in Nat
    BY <1>1, <1>2 DEF Whole, Dated
  <2>2. now' + alarm' <= now + alarm /\ now' \in Nat /\ alarm' \in Nat
    BY <1>1, <1>2
  <2>3. \A t \in Nat : now' - t + alarm' <= now - t + alarm
    <3>1. \A t \in Nat : (now + 1) - t + (alarm - 1) = now - t + alarm
      BY <1>2
    <3>2. \A t \in Nat : now - t + 0 <= now - t + alarm
      BY <1>2
    <3>3. \A t \in Nat : now - t + alarm <= now - t + alarm
      BY <1>2
    <3> QED
      BY <1>1, <3>1, <3>2, <3>3
  <2>4. \A i \in 0..(Counted - 1) : now' - buf[auth][i].t + alarm' < Timeout + Flush
    BY <1>1, <1>2, <2>1, <2>2, <2>3 DEF Whole, Fresh
  <2> QED
    BY <1>1, <1>3, <2>4 DEF Fresh
<1> QED
  BY <1>1, <1>4, <1>5, <1>6 DEF Whole, AtPoint, Booting, SortedTo

LEMMA TableStep == TypeInv /\ SizeInv /\ TableInv /\ [Next]_vars => TableInv'
<1> SUFFICES ASSUME TypeInv, SizeInv, TableInv, [Next]_vars PROVE TableInv'
  OBVIOUS
<1>1. now' \in Nat /\ now' >= now
  <2>1. CASE auth_clean
    <3>1. now' = now
      BY <2>1, CleanCases DEF CleanKeeps, Corrupt, timeVars
    <3> QED
      BY <3>1, TableTypes
  <2>2. CASE ~auth_clean
    <3>1. now' = now \/ now' = now + 1
      BY <2>2 DEF Next, Step, Start, Login, Present, Update, Test, Raise, Realloc, Assign, Fill,
         Stamp, Count, SortSwap, SortDone, Overreach, Corrupt, Open, Fprintf, Close, Rename, Tick,
         RaiseSigalrm, Kill, vars, timeVars
    <3> QED
      BY <3>1, TableTypes
  <2> QED
    BY <2>1, <2>2
<1>2. now' >= Timeout + Flush
  BY <1>1, TableTypes DEF TableInv
<1> SUFFICES ASSUME Running', Calm' PROVE Whole'
  BY <1>2 DEF TableInv
<1>3. CASE Start
  BY <1>3, StartWhole
<1> SUFFICES ASSUME ~Start PROVE Whole'
  BY <1>3
<1>4. Calm
  BY MarksGrow DEF Calm
<1>5. CASE \E h \in Hosts : Login(h)
  BY <1>4, <1>5, RestWhole DEF Login, Running, Stopped, timeVars, tableVars, histVars
<1>6. CASE Present
  BY <1>4, <1>6, PresentWhole
<1>7. CASE Update
  BY <1>4, <1>7, UpdateWhole
<1>8. CASE Test \/ Raise \/ Realloc \/ Assign \/ Fill
  BY <1>4, <1>8, RoomWhole
<1>9. CASE Stamp
  BY <1>4, <1>9, StampWhole
<1>10. CASE Count
  BY <1>4, <1>10, CountWhole
<1>11. CASE SortSwap
  BY <1>4, <1>11, SwapWhole
<1>12. CASE SortDone
  BY <1>4, <1>12, SortedWhole
<1>13. CASE Open \/ Fprintf \/ Close \/ Rename
  <2>1. /\ pc \in WritePoints
        /\ UNCHANGED <<now, alarm, auth, buf, auth_cur, lastLogin>>
        /\ \/ pc' = "exited"
           \/ pc' \in WritePoints /\ hostname' = hostname
           \/ pc' = "nap"
    BY <1>13 DEF Open, Fprintf, Close, Rename, Exit, WritePoints, timeVars, tableVars, frameVars, histVars
  <2> QED
    BY <1>4, <2>1, RestWhole DEF Running, Stopped, WritePoints
<1>14. CASE auth_clean
  BY <1>14, CleanWhole DEF Running, Stopped
<1>15. CASE Tick \/ RaiseSigalrm
  <2>1. pc' = pc
    BY <1>15 DEF Tick, RaiseSigalrm
  <2> QED
    BY <1>4, <1>15, <2>1, TimeWhole DEF Running
<1>16. CASE Kill \/ Overreach
  BY <1>16 DEF Kill, Overreach, Corrupt, Running, Stopped
<1>17. CASE UNCHANGED vars
  <2>1. /\ pc' = pc /\ UNCHANGED <<hostname, e, n, base>>
        /\ UNCHANGED <<now, alarm, auth, buf, auth_cur, lastLogin>>
    BY <1>17 DEF vars, timeVars, tableVars, frameVars, histVars
  <2> QED
    BY <1>4, <2>1, RestWhole DEF Running
<1> QED
  BY <1>5, <1>6, <1>7, <1>8, <1>9, <1>10, <1>11, <1>12, <1>13, <1>14, <1>15,
     <1>16, <1>17 DEF Next, Step

THEOREM TableInvariant == Spec => []TableInv
<1>1. Init => TableInv
  BY ConstantsOK DEF Init, TableInv, Running, Stopped
<1> QED
  BY <1>1, TableStep, TypeInvariant, SizeInvariant, PTL DEF Spec

\* Until SIGALRM comes between finding or filling a slot and the end of the
\* sort, the table can be searched whenever auth_present is about to do so,
\* whatever goes wrong with the files.
THEOREM Searchable == Spec => []TableSearchable
<1>1. TableInv => TableSearchable
  BY DEF TableInv, Whole, AtPoint, TableSearchable, Running, Stopped
<1> QED
  BY <1>1, TableInvariant, PTL

\* If no write has been cut short either, whoever has logged in within the last
\* timeout seconds is in the relay file whenever main is in its loop.
THEOREM ActiveRelayed == Spec => []ActiveKept
<1>1. TypeInv /\ TableInv /\ RelayMirrorsTable => ActiveKept
  <2> SUFFICES ASSUME TypeInv, TableInv, RelayMirrorsTable, pc = "nap", Calm, "cut" \notin upset,
                      NEW h \in Hosts, now - lastLogin[h] < Timeout
               PROVE  h \in Relayed
    BY DEF ActiveKept
  <2>1. PICK i \in 0..(auth_cur - 1) : buf[auth][i].hostname = h
    BY DEF TableInv, Whole, Complete, Counted, Running, Stopped
  <2>2. authfile = [k \in 1..auth_cur |-> buf[auth][k - 1].hostname]
    BY DEF RelayMirrorsTable, Listing
  <2>3. auth_cur \in Nat
    BY TableTypes
  <2>4. i + 1 \in 1..auth_cur /\ (i + 1) - 1 = i
    BY <2>3
  <2>5. authfile[i + 1] = h /\ i + 1 \in DOMAIN authfile
    BY <2>1, <2>2, <2>4
  <2>6. authfile # Absent
    <3>1. authfile \in [1..auth_cur -> Hosts]
      <4>1. \A k \in 1..auth_cur : k - 1 \in 0..(auth_cur - 1)
        BY <2>3
      <4>2. \A k \in 1..auth_cur : buf[auth][k - 1].hostname \in Hosts
        BY <4>1 DEF TableInv, Whole, Dated, Counted, Running, Stopped
      <4> QED
        BY <2>2, <4>2
    <3>2. authfile \in [1..auth_cur -> Hosts \cup {NoHost, Fragment}]
      BY <3>1
    <3>3. authfile \in Seq(Hosts \cup {NoHost, Fragment})
      BY <3>2, LinesAreText, <2>3
    <3> QED
      BY <3>3, LinesOK
  <2> QED
    BY <2>5, <2>6 DEF Relayed
<1> QED
  BY <1>1, TypeInvariant, TableInvariant, RelayMirrors, PTL

-----------------------------------------------------------------------------
(* What is on its way to the relay file.                                   *)

\* The hosts whose entry will be cleaned out in time.
FreshNames == {h \in Hosts : now - lastLogin[h] + alarm < Timeout + Flush}

\* Nothing but fresh names, a line cut short perhaps, is in the stream, in the
\* temporary file when it is about to be renamed, and in the relay file once
\* the process has put its own in place.
Publish ==
  /\ pc = "print" => authtemp = <<>> /\ out \in Seq(FreshNames)
  /\ pc = "rename" => authtemp \in Seq(Lines(FreshNames))
  /\ ~Booting => authfile \in {Absent} \cup Seq(Lines(FreshNames))

PublishInv == Running /\ Calm => Publish

\* The names in a whole table are fresh.
LEMMA ListedFresh ==
  ASSUME Whole
  PROVE  \A i \in 0..(Counted - 1) : buf[auth][i].hostname \in FreshNames
  BY DEF Whole, Dated, Fresh, FreshNames

\* Texts and files that held fresh names still do when more names are fresh.
LEMMA PublishKept ==
  ASSUME Publish, FreshNames \subseteq FreshNames',
         UNCHANGED <<out, authtemp, authfile>>,
         \/ pc' = pc
         \/ pc \notin Writing /\ pc' \notin Writing,
         Booting => Booting'
  PROVE  Publish'
<1>1. Lines(FreshNames) \subseteq Lines(FreshNames')
  BY DEF Lines
<1>2. Seq(FreshNames) \subseteq Seq(FreshNames')
  BY SeqMonotonic
<1>3. Seq(Lines(FreshNames)) \subseteq Seq(Lines(FreshNames'))
  BY <1>1, SeqMonotonic
<1> HIDE DEF FreshNames, Lines
<1> QED
  BY <1>2, <1>3 DEF Publish, Writing

\* As time passes and hosts log in no name stops being fresh.
LEMMA FreshGrows ==
  ASSUME TypeInv
  PROVE  /\ UNCHANGED <<now, alarm, lastLogin>> => FreshNames' = FreshNames
         /\ Update \/ Stamp \/ (Running /\ Tick) \/ RaiseSigalrm => FreshNames \subseteq FreshNames'
<1>1. /\ now \in Nat /\ alarm \in 0..Flush /\ Timeout \in Nat \ {0} /\ Flush \in Nat \ {0}
      /\ lastLogin \in [Hosts -> Nat]
  BY TableTypes
<1>2. ASSUME Update \/ Stamp PROVE FreshNames \subseteq FreshNames'
  <2>1. /\ now' = now /\ alarm' = alarm
        /\ lastLogin' = [lastLogin EXCEPT ![hostname] = now]
    BY <1>2 DEF Update, Stamp, timeVars
  <2>2. \A h \in Hosts : lastLogin'[h] \in {lastLogin[h], now}
    BY <1>1, <2>1
  <2>3. now - now + alarm < Timeout + Flush
    BY <1>1
  <2> QED
    BY <2>1, <2>2, <2>3 DEF FreshNames
<1>3. ASSUME Running, Tick PROVE FreshNames \subseteq FreshNames'
  <2>1. now' = now + 1 /\ alarm' = alarm - 1 /\ lastLogin' = lastLogin
    BY <1>3 DEF Tick, histVars
  <2>2. \A h \in Hosts : (now + 1) - lastLogin[h] + (alarm - 1) = now - lastLogin[h] + alarm
    BY <1>1
  <2> QED
    BY <2>1, <2>2 DEF FreshNames
<1>4. ASSUME RaiseSigalrm PROVE FreshNames \subseteq FreshNames'
  <2>1. now' = now /\ alarm' = 0 /\ lastLogin' = lastLogin
    BY <1>4 DEF RaiseSigalrm, histVars
  <2>2. \A h \in Hosts : now - lastLogin[h] + alarm < Timeout + Flush =>
                         now - lastLogin[h] + 0 < Timeout + Flush
    BY <1>1
  <2> QED
    BY <2>1, <2>2 DEF FreshNames
<1> QED
  BY <1>2, <1>3, <1>4 DEF FreshNames

\* auth_write_text, as far as it goes.
LEMMA WritePublishes ==
  ASSUME TypeInv, SizeInv, TempInv, TableInv, PublishInv, Open \/ Fprintf \/ Close \/ Rename,
         Calm, Calm', pc' # "exited"
  PROVE  Publish'
<1>1. /\ pc \in WritePoints /\ Running
      /\ UNCHANGED <<now, alarm, auth, buf, auth_cur, lastLogin>>
  BY DEF Open, Fprintf, Close, Rename, Running, Stopped, WritePoints,
     timeVars, tableVars, histVars
<1>2. FreshNames' = FreshNames
  BY <1>1, FreshGrows
<1>3. Whole /\ Publish /\ Counted = auth_cur
  BY <1>1 DEF TableInv, PublishInv, Counted, WritePoints
<1>4. <<>> \in Seq(FreshNames) /\ <<>> \in Seq(Lines(FreshNames))
  BY EmptySeq
<1>5. CASE Open
  <2>1. /\ pc = "open" /\ pc' = "print" /\ authtemp' = <<>> /\ out' = <<>>
        /\ authfile' = authfile /\ hostname' = hostname
    BY <1>5 DEF Open, Exit, frameVars
  <2> HIDE DEF FreshNames
  <2> QED
    BY <1>2, <1>3, <1>4, <2>1 DEF Publish, Booting, WritePoints
<1>6. CASE Fprintf
  <2>1. /\ pc = "print" /\ pc' = "print" /\ hostname' = hostname
        /\ UNCHANGED <<stream, authtemp, authfile>>
        /\ Len(out) < auth_cur /\ Len(out) \in Nat
        /\ out' = Append(out, buf[auth][Len(out)].hostname)
    BY <1>6, TableTypes, LenProperties DEF Fprintf, Written, frameVars, TypeInv, TypeOK
  <2>2. buf[auth][Len(out)].hostname \in FreshNames
    <3>1. Len(out) \in 0..(auth_cur - 1)
      BY <2>1, TableTypes
    <3> QED
      BY <1>3, <3>1, ListedFresh
  <2>3. out' \in Seq(FreshNames)
    BY <1>3, <2>1, <2>2, AppendProperties DEF Publish
  <2> QED
    BY <1>2, <1>3, <2>1, <2>3 DEF Publish, Booting
<1>7. CASE Close
  <2>1. /\ pc = "print" /\ pc' = "rename" /\ hostname' = hostname
        /\ stream = "temp" /\ authtemp = <<>> /\ out \in Seq(FreshNames)
    BY <1>3, <1>7 DEF Close, Publish, TempInv, Calm, Writing, frameVars
  <2>2. PICK text \in Flushed(out) :
          authtemp' \in Overlays(text, authtemp) /\ authfile' = authfile
    BY <1>7, <2>1 DEF Close, FlushStream
  <2>3. text \in Seq(Lines(FreshNames))
    BY <2>1, <2>2, FlushedIsText
  <2>4. authtemp' \in Seq(Lines(FreshNames))
    BY <1>4, <2>1, <2>2, <2>3, OverlayIsText
  <2> QED
    BY <1>2, <1>3, <2>1, <2>2, <2>4 DEF Publish, Booting, WritePoints
<1>8. CASE Rename
  <2>1. pc = "rename" /\ pc' = "nap" /\ authfile' = authtemp
    BY <1>8 DEF Rename, Exit
  <2> QED
    BY <1>2, <1>3, <2>1 DEF Publish
<1> QED
  BY <1>5, <1>6, <1>7, <1>8

\* Lines are counted from 1, entries from 0.
LEMMA FromOneOrZero ==
  ASSUME NEW m \in Nat
  PROVE  \A k \in 1..m : k - 1 \in 0..(m - 1)
  OBVIOUS

\* A clean publishes what it keeps.
LEMMA CleanPublishes ==
  ASSUME TypeInv, SizeInv, TableInv, auth_clean, Calm', pc' \notin {"exited", "corrupt"}
  PROVE  Publish'
<1>1. TypeInv' /\ Whole' /\ pc' \in CalmPoints
  BY CleanType, CleanWhole, CleanEffect
<1>2. Counted' = auth_cur' /\ auth_cur' \in Nat
  BY <1>1 DEF Counted, CalmPoints, TypeInv, TypeOK
<1>3. \A i \in 0..(auth_cur' - 1) : buf'[auth'][i].hostname \in FreshNames'
  BY <1>1, <1>2 DEF Whole, Dated, Fresh, FreshNames
<1>4. \A k \in 1..auth_cur' : k - 1 \in 0..(auth_cur' - 1)
  BY <1>2, FromOneOrZero
<1>5. Listing(auth, auth_cur)' \in [1..auth_cur' -> FreshNames']
  BY <1>3, <1>4 DEF Listing
<1>6. Listing(auth, auth_cur)' \in Seq(FreshNames')
  BY <1>2, <1>5, LinesAreText
<1>7. authfile' \in Flushed(Listing(auth, auth_cur)')
  BY CleanEffect
<1>8. authfile' \in Seq(Lines(FreshNames'))
  BY <1>6, <1>7, FlushedIsText
<1> QED
  BY <1>1, <1>8 DEF Publish, CalmPoints

LEMMA PublishStep ==
  TypeInv /\ SizeInv /\ TempInv /\ TableInv /\ PublishInv /\ [Next]_vars => PublishInv'
<1> SUFFICES ASSUME TypeInv, SizeInv, TempInv, TableInv, PublishInv, [Next]_vars, Running', Calm'
             PROVE  Publish'
  BY DEF PublishInv
<1>1. CASE Start
  BY <1>1 DEF Start, FirstPoint, Publish, Booting, WritePoints
<1> SUFFICES ASSUME ~Start PROVE Publish'
  BY <1>1
<1>2. Calm
  BY MarksGrow DEF Calm
<1>3. CASE (\E h \in Hosts : Login(h)) \/ Present \/ Test \/ Raise \/ Realloc \/ Assign \/ Fill
           \/ Count \/ SortSwap \/ SortDone
  <2>1. /\ pc \in {"nap"} \cup AddPoints /\ pc' \in AddPoints \cup {"open"}
        /\ UNCHANGED <<now, alarm, lastLogin, out, authtemp, authfile>>
    BY <1>3 DEF Login, Present, Test, Raise, Realloc, Assign, Dangling, Fill, Count, SortSwap,
       SortDone, timeVars, fileVars, histVars, AddPoints
  <2>2. Publish /\ ~Booting /\ pc \notin Writing /\ pc' \notin Writing
    BY <1>2, <2>1 DEF PublishInv, Running, Stopped, Booting, WritePoints, AddPoints, Writing
  <2> QED
    BY <2>1, <2>2, FreshGrows, PublishKept
<1>4. CASE Update \/ Stamp
  <2>1. /\ pc \in AddPoints /\ pc' \in AddPoints \cup {"nap"}
        /\ UNCHANGED <<out, authtemp, authfile>>
    BY <1>4 DEF Update, Stamp, fileVars, AddPoints
  <2>2. Publish /\ ~Booting /\ pc \notin Writing /\ pc' \notin Writing
    BY <1>2, <2>1 DEF PublishInv, Running, Stopped, Booting, WritePoints, AddPoints, Writing
  <2> QED
    BY <1>4, <2>1, <2>2, FreshGrows, PublishKept
<1>5. CASE Open \/ Fprintf \/ Close \/ Rename
  BY <1>2, <1>5, WritePublishes DEF Running, Stopped
<1>6. CASE auth_clean
  BY <1>6, CleanPublishes DEF Running, Stopped
<1>7. CASE Tick \/ RaiseSigalrm
  <2>1. UNCHANGED <<pc, hostname, out, authtemp, authfile>>
    BY <1>7 DEF Tick, RaiseSigalrm, frameVars, fileVars
  <2> QED
    BY <1>2, <1>7, <2>1, FreshGrows, PublishKept DEF Booting, PublishInv, Running
<1>8. CASE Kill \/ Overreach
  BY <1>8 DEF Kill, Overreach, Corrupt, Running, Stopped
<1>9. CASE UNCHANGED vars
  <2>1. UNCHANGED <<now, alarm, lastLogin, pc, hostname, out, authtemp, authfile>>
    BY <1>9 DEF vars, timeVars, frameVars, fileVars, histVars
  <2> QED
    BY <1>2, <2>1, FreshGrows, PublishKept DEF Booting, PublishInv, Running
<1> QED
  BY <1>3, <1>4, <1>5, <1>6, <1>7, <1>8, <1>9 DEF Next, Step

\* Until SIGALRM has come at a bad moment no host is relayed for whose last
\* login is timeout + flush seconds old, whatever goes wrong with the files.
THEOREM FreshRelayed == Spec => []RelayFresh
<1>1. Init => PublishInv
  BY DEF Init, PublishInv, Running, Stopped
<1>2. TypeInv /\ PublishInv => RelayFresh
  <2> SUFFICES ASSUME TypeInv, PublishInv, Running, ~Booting, Calm,
                      NEW h \in Relayed \ {NoHost, Fragment}
               PROVE  now - lastLogin[h] < Timeout + Flush
    BY DEF RelayFresh
  <2>1. authfile \in Seq(Lines(FreshNames)) /\ h \in {authfile[i] : i \in DOMAIN authfile}
    BY DEF PublishInv, Publish, Relayed
  <2>2. h \in FreshNames
    <3>1. PICK i \in DOMAIN authfile : h = authfile[i]
      BY <2>1
    <3>2. DOMAIN authfile = 1..Len(authfile)
      BY <2>1, LenProperties
    <3>3. h \in Lines(FreshNames)
      BY <2>1, <3>1, <3>2, ElementOfSeq
    <3> QED
      BY <3>3 DEF Lines
  <2> QED
    BY <2>2, TableTypes DEF FreshNames
<1> QED
  BY <1>1, <1>2, PublishStep, TypeInvariant, SizeInvariant, TempInvariant, TableInvariant, PTL DEF Spec
=============================================================================
