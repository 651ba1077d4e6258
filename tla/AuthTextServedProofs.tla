------------------------ MODULE AuthTextServedProofs ------------------------
(***************************************************************************)
(* Only hosts that have logged in are ever relayed for: the proof, for     *)
(* SIGALRM delivered at any point and for every fault.                     *)
(*                                                                         *)
(* RelayOnlyServed alone is not inductive: what reaches the relay file     *)
(* comes from the temporary file, from main's stream and from slots of     *)
(* either array, counted or not, since a late auth_cur++ may count slots   *)
(* of the array that was the shadow.  The one host that is written down    *)
(* before its login is on record is the one main is adding, between the    *)
(* strncpy and the time stamp; it is then in a slot that is not counted.   *)
(***************************************************************************)
EXTENDS AuthTextProofs

\* The names that may appear in the relay file.
Served == {h \in Hosts : lastLogin[h] # Never} \cup {NoHost}

\* The names that may be found in the two arrays.
Recorded == IF pc = "stamp" THEN Served \cup {hostname} ELSE Served

SlotsServed ==
  /\ \A b \in 1..2 : \A i \in 0..(size[b] - 1) : buf[b][i].hostname \in Recorded
  /\ \A i \in 0..(size[auth] - 1) : i < auth_cur => buf[auth][i].hostname \in Served

\* A line may be there in part.
Torn == upset \cap {"cut", "write"} # {}

\* The lines that may appear in the relay file.
Legible == IF Torn THEN Lines(Served) ELSE Served

LegibleFiles == {Absent} \cup Seq(Legible)

FilesServed ==
  /\ out \in Seq(Served)
  /\ pc \in {"print", "rename"} => authtemp \in LegibleFiles
  /\ stream = "temp" => authtemp \in Seq(Legible)
  /\ stream \in {"auth", "gone"} => Torn
  /\ ~Booting => authfile \in LegibleFiles
  /\ ~Booting /\ stream = "auth" => authfile \in Seq(Legible)

ServedInv ==
  /\ now # Never
  /\ ~Running => out = <<>>
  /\ Running => SlotsServed /\ FilesServed

-----------------------------------------------------------------------------

\* What is on record stays on record while the process runs.
LEMMA ServedGrows ==
  ASSUME TypeInv, now # Never, NEW h \in Hosts,
         lastLogin' = [lastLogin EXCEPT ![h] = now]
  PROVE  Served \subseteq Served' /\ h \in Served'
  BY DEF Served, TypeInv, TypeOK

\* Lines that were legible before are, in texts and in files.
LEMMA ServedTexts ==
  ASSUME Served \subseteq Served', upset \subseteq upset'
  PROVE  /\ Seq(Served) \subseteq Seq(Served')
         /\ Seq(Served) \subseteq Seq(Legible')
         /\ Seq(Legible) \subseteq Seq(Legible')
         /\ LegibleFiles \subseteq LegibleFiles'
         /\ Torn => Torn'
<1>1. Torn => Torn'
  BY DEF Torn
<1>2. Legible \subseteq Legible' /\ Served \subseteq Legible'
  BY <1>1 DEF Legible, Lines
<1>3. /\ Seq(Served) \subseteq Seq(Served')
      /\ Seq(Served) \subseteq Seq(Legible')
      /\ Seq(Legible) \subseteq Seq(Legible')
  BY <1>2, SeqMonotonic
<1> QED
  BY <1>1, <1>3 DEF LegibleFiles

\* Closing the stream leaves only legible lines in the files that had only those.
LEMMA FlushServed ==
  ASSUME TypeInv, MirrorInv, FilesServed, pc = "print", FlushStream(authtemp, {}),
         lastLogin' = lastLogin
  PROVE  /\ out' = <<>>
         /\ stream' = "none"
         /\ authtemp' \in LegibleFiles'
         /\ ~Booting => authfile' \in LegibleFiles'
<1>1. PICK text \in Flushed(out) :
        /\ authtemp' \in IF stream = "temp" THEN Overlays(text, authtemp) ELSE {authtemp}
        /\ authfile' \in IF stream = "auth" THEN Overlays(text, authfile) ELSE {authfile}
        /\ stream' = "none"
        /\ out' = <<>>
        /\ upset' = upset \cup {} \cup CutShort(text, out)
  BY DEF FlushStream
<1>2. Served' = Served
  BY DEF Served
<1>3. LegibleFiles \subseteq LegibleFiles'
  BY <1>1, <1>2, ServedTexts
<1>4. CASE Torn'
  <2>1. Legible' = Lines(Served) /\ LegibleFiles' = {Absent} \cup Seq(Lines(Served))
    BY <1>2, <1>4 DEF Legible, LegibleFiles
  <2>2. text \in Seq(Lines(Served))
    BY <1>1, FlushedIsText DEF FilesServed
  <2>3. Seq(Legible) \subseteq Seq(Lines(Served))
    BY <1>1, <1>2, <2>1, ServedTexts
  <2>4. stream = "temp" => Overlays(text, authtemp) \subseteq Seq(Lines(Served))
    BY <2>2, <2>3, OverlayIsText DEF FilesServed
  <2>5. stream = "auth" /\ ~Booting => Overlays(text, authfile) \subseteq Seq(Lines(Served))
    BY <2>2, <2>3, OverlayIsText DEF FilesServed
  <2> QED
    BY <1>1, <1>3, <2>1, <2>4, <2>5 DEF FilesServed
<1>5. CASE ~Torn'
  <2>1. "cut" \notin upset /\ text = out /\ ~Torn
    BY <1>1, <1>5 DEF Torn, CutShort
  <2>2. stream \notin {"auth", "gone"}
    BY <2>1 DEF FilesServed
  <2>3. stream = "temp" => authtemp = <<>>
    BY <2>1 DEF MirrorInv, Mirror
  <2>4. stream = "temp" => authtemp' = out
    BY <1>1, <2>1, <2>3, OverlayEmpty DEF TypeInv, TypeOK
  <2>5. out \in LegibleFiles'
    BY <1>1, <1>2, ServedTexts DEF FilesServed, LegibleFiles
  <2> QED
    BY <1>1, <1>3, <2>2, <2>4, <2>5 DEF FilesServed
<1> QED
  BY <1>4, <1>5

\* Nothing of what ServedInv speaks about has changed but the point main is at,
\* and the slots, which may have got more names that are served.
LEMMA ServedKept ==
  ASSUME ServedInv, Running, Running', SlotsServed',
         now' = now, Served \subseteq Served', upset' = upset,
         UNCHANGED <<out, stream, authtemp, authfile>>,
         pc' \in {"print", "rename"} => pc \in {"print", "rename"},
         ~Booting' => ~Booting
  PROVE  ServedInv'
<1>1. FilesServed'
  BY ServedTexts DEF ServedInv, FilesServed
<1> QED
  BY <1>1 DEF ServedInv

\* The slots are the same.
LEMMA SlotsKept ==
  ASSUME SlotsServed, pc # "stamp", UNCHANGED <<buf, size, auth, auth_cur, lastLogin>>
  PROVE  SlotsServed' /\ Served' = Served
  BY DEF SlotsServed, Recorded, Served

\* The handler copies, lists and publishes only counted entries.
LEMMA CleanServed ==
  ASSUME TypeInv, ServedInv, auth_clean
  PROVE  ServedInv'
<1>1. Running /\ SlotsServed /\ FilesServed
  BY CleanCases DEF ServedInv
<1>2. CASE Corrupt(Strike)
  BY <1>2 DEF Corrupt, ServedInv, Running, Stopped, timeVars
<1>3. CASE auth_cur <= size[auth] /\ \E m, pick : CleanKeeps(m, pick)
  <2>1. PICK m, pick : CleanKeeps(m, pick)
    BY <1>3
  <2>2. /\ m \in Nat /\ m <= size[shadow_auth] /\ m <= auth_cur
        /\ auth \in 1..2 /\ shadow_auth \in 1..2 /\ shadow_auth # auth
        /\ auth_cur \in Nat /\ size \in [1..2 -> Nat] /\ size' = size
        /\ auth' = shadow_auth /\ auth_cur' = m
        /\ now' = now /\ lastLogin' = lastLogin /\ hostname' = hostname
        /\ NestedWrite(Kept(m, pick))
    BY <2>1, ShadowType DEF CleanKeeps, TypeInv, TypeOK, frameVars
  <2>3. \A i \in 0..(m - 1) :
          pick[i] \in 0..(auth_cur - 1) /\ buf'[auth'][i] = buf[auth][pick[i]]
    BY <1>3, <2>1, CleanText
  <2>4. Served' = Served
    BY <2>2 DEF Served
  <2>5. \A i \in 0..(m - 1) : buf[auth][pick[i]].hostname \in Served
    <3>1. \A i \in 0..(auth_cur - 1) : i \in 0..(size[auth] - 1) /\ i < auth_cur
      BY <1>3, <2>2
    <3> QED
      BY <1>1, <2>3, <3>1 DEF SlotsServed
  <2>6. Kept(m, pick) \in Seq(Served)
    <3>1. \A k \in 1..m : k - 1 \in 0..(m - 1)
      BY <2>2
    <3>2. Kept(m, pick) \in [1..m -> Served]
      BY <2>5, <3>1 DEF Kept
    <3> QED
      BY <2>2, <3>2, LinesAreText
  <2>7. CASE pc' = "exited"
    <3>1. out' = <<>>
      BY <1>1, <2>2, <2>7 DEF NestedWrite, Exit, FlushStream, Running, Stopped
    <3> QED
      BY <2>2, <2>7, <3>1 DEF ServedInv, Running, Stopped
  <2>8. CASE pc' # "exited"
    <3>1. PICK saved \in Flushed(Kept(m, pick)) :
            /\ authtemp' = Absent
            /\ authfile' = saved
            /\ stream' = CASE stream = "temp" -> "auth"
                           [] stream = "auth" -> "gone"
                           [] OTHER -> stream
            /\ upset' = upset \cup Strike \cup CutShort(saved, Kept(m, pick))
            /\ UNCHANGED <<pc, out>>
      BY <2>2, <2>8 DEF NestedWrite, Exit
    <3>2. authfile' \in Seq(Legible')
      <4>1. CASE Torn'
        BY <2>4, <2>6, <3>1, <4>1, FlushedIsText DEF Legible
      <4>2. CASE ~Torn'
        <5>1. saved = Kept(m, pick)
          BY <3>1, <4>2 DEF Torn, CutShort
        <5> QED
          BY <2>4, <2>6, <3>1, <4>2, <5>1 DEF Legible
      <4> QED
        BY <4>1, <4>2
    <3>3. stream' # "temp"
      BY <3>1 DEF TypeInv, TypeOK
    <3>4. stream' \in {"auth", "gone"} => Torn'
      <4>1. CASE stream = "none"
        BY <3>1, <4>1
      <4>2. CASE stream # "none"
        <5>1. pc \in Writing
          BY <4>2 DEF TypeInv, StreamBound, Writing
        <5>2. "write" \in Strike
          BY <5>1, StrikeType DEF Writing, Growing, Dangling, Entering
        <5> QED
          BY <3>1, <5>2 DEF Torn
      <4> QED
        BY <4>1, <4>2
    <3>5. FilesServed'
      <4>1. out' \in Seq(Served')
        BY <1>1, <2>4, <3>1 DEF FilesServed
      <4>2. authtemp' \in LegibleFiles' /\ authfile' \in LegibleFiles'
        BY <3>1, <3>2 DEF LegibleFiles
      <4> QED
        BY <3>2, <3>3, <3>4, <4>1, <4>2 DEF FilesServed
    <3>6. /\ buf' = [b \in 1..2 |-> buf'[b]]
          /\ \A i \in 0..(size[auth] - 1) : buf'[auth][i] = buf[auth][i]
          /\ \A i \in 0..(size[shadow_auth] - 1) :
               buf'[shadow_auth][i] = IF i < m THEN buf[auth][pick[i]] ELSE buf[shadow_auth][i]
      BY <2>1, <2>2 DEF CleanKeeps, TypeInv, TypeOK
    <3>7. Recorded' = Recorded /\ Served \subseteq Recorded
      BY <2>2, <2>4, <3>1 DEF Recorded
    <3>8. \A i \in 0..(size[shadow_auth] - 1) :
            /\ buf'[shadow_auth][i].hostname \in Recorded
            /\ i < m => buf'[shadow_auth][i].hostname \in Served
      <4> SUFFICES ASSUME NEW i \in 0..(size[shadow_auth] - 1)
                   PROVE  /\ buf'[shadow_auth][i].hostname \in Recorded
                          /\ i < m => buf'[shadow_auth][i].hostname \in Served
        OBVIOUS
      <4>1. CASE i < m
        <5>1. i \in 0..(m - 1)
          BY <2>2, <4>1
        <5> QED
          BY <2>5, <3>6, <3>7, <4>1, <5>1
      <4>2. CASE ~(i < m)
        BY <1>1, <2>2, <3>6, <4>2 DEF SlotsServed
      <4> QED
        BY <4>1, <4>2
    <3>9. \A i \in 0..(size[auth] - 1) : buf'[auth][i].hostname \in Recorded
      BY <1>1, <2>2, <3>6 DEF SlotsServed
    <3>10. \A b \in 1..2 : b = auth \/ b = shadow_auth
      BY <2>2 DEF shadow_auth
    <3>11. SlotsServed'
      BY <2>2, <2>4, <3>7, <3>8, <3>9, <3>10 DEF SlotsServed
    <3> QED
      BY <1>1, <2>2, <3>1, <3>5, <3>11 DEF ServedInv, Running
  <2> QED
    BY <2>7, <2>8
<1> QED
  BY <1>2, <1>3, CleanCases

\* Main's statements on the table.
LEMMA SlotsServedStep ==
  ASSUME TypeInv, ServedInv, Update \/ Realloc \/ Fill \/ Stamp \/ Count \/ SortSwap
  PROVE  SlotsServed' /\ Served \subseteq Served'
<1>0. /\ auth \in 1..2 /\ auth_cur \in Nat
      /\ buf = [b \in 1..2 |-> buf[b]]
      /\ \A b \in 1..2 : size[b] \in Nat /\ buf[b] \in [0..(size[b] - 1) -> Entries]
      /\ now # Never
      /\ (pc \in AddPoints => hostname \in Hosts)
  BY DEF TypeInv, TypeOK, ServedInv
<1>1. Running /\ SlotsServed
  BY DEF Update, Realloc, Fill, Stamp, Count, SortSwap, Running, Stopped, ServedInv
<1>2. CASE Update \/ Stamp
  <2>1. /\ pc \in {"update", "stamp"} /\ pc' \in {"nap", "count"}
        /\ auth' = auth /\ auth_cur' = auth_cur /\ size' = size
        /\ lastLogin' = [lastLogin EXCEPT ![hostname] = now]
    BY <1>2 DEF Update, Stamp
  <2>2. PICK b \in 1..2, i \in Nat :
          i < size[b] /\ buf' = [buf EXCEPT ![b][i].t = now]
    <3>1. CASE Update
      <4>1. e[1] \in 1..2 /\ e[2] \in Nat /\ e[2] < size[e[1]]
        BY <3>1 DEF Update, TypeInv, TypeOK
      <4> QED
        BY <3>1, <4>1 DEF Update, Refreshed
    <3>2. CASE Stamp
      BY <1>0, <3>2 DEF Stamp
    <3> QED
      BY <1>2, <3>1, <3>2
  <2>3. \A c \in 1..2 : \A j \in 0..(size[c] - 1) : buf'[c][j].hostname = buf[c][j].hostname
    BY <1>0, <2>2 DEF Entries
  <2>4. Served \subseteq Served' /\ hostname \in Served'
    BY <1>0, <2>1, ServedGrows DEF AddPoints
  <2> QED
    BY <1>0, <1>1, <2>1, <2>3, <2>4 DEF SlotsServed, Recorded
<1>3. CASE Realloc \/ Fill \/ Count \/ SortSwap
  <2>1. /\ pc \in {"grow", "regrow", "fill", "count", "sort"}
        /\ auth' = auth /\ lastLogin' = lastLogin
        /\ hostname' = hostname
    BY <1>3 DEF Realloc, Fill, Count, SortSwap, frameVars, histVars
  <2>2. Served' = Served /\ Recorded = Served /\ Served \subseteq Recorded'
    BY <2>1 DEF Served, Recorded
  <2>3. CASE Realloc
    <3>1. PICK b \in 1..2 :
            buf' = Grown(b) /\ size' = [size EXCEPT ![b] = auth_max] /\ auth_cur' = auth_cur
      BY <1>0, <2>3, ShadowType DEF Realloc
    <3>2. /\ size'[b] = auth_max
          /\ \A c \in 1..2 : c # b => size'[c] = size[c] /\ buf'[c] = buf[c]
      BY <3>1, GrownType DEF TypeInv, TypeOK
    <3>3. \A i \in 0..(auth_max - 1) : buf'[b][i].hostname \in Served
      <4> SUFFICES ASSUME NEW i \in 0..(auth_max - 1)
                   PROVE  buf'[b][i].hostname \in Served
        OBVIOUS
      <4>1. buf'[b][i] = IF i < size[b] THEN buf[b][i] ELSE Blank
        BY <1>0, <3>1 DEF Grown
      <4>2. CASE i < size[b]
        BY <1>0, <1>1, <2>2, <4>1, <4>2 DEF SlotsServed
      <4> QED
        BY <4>1, <4>2 DEF Blank, Served
    <3>4. \A c \in 1..2 : \A i \in 0..(size'[c] - 1) : buf'[c][i].hostname \in Served
      BY <1>1, <2>2, <3>2, <3>3 DEF SlotsServed
    <3> QED
      BY <1>0, <2>1, <2>2, <3>1, <3>4 DEF SlotsServed
  <2>4. CASE Fill
    <3>1. /\ pc' = "stamp" /\ auth_cur' = auth_cur /\ size' = size /\ auth_cur < size[auth]
          /\ buf' = [buf EXCEPT ![auth][auth_cur].hostname = hostname]
      BY <2>4 DEF Fill
    <3>2. \A b \in 1..2 : \A i \in 0..(size[b] - 1) :
            buf'[b][i].hostname = IF b = auth /\ i = auth_cur THEN hostname ELSE buf[b][i].hostname
      BY <1>0, <3>1 DEF Entries
    <3>3. Recorded' = Served \cup {hostname}
      BY <2>1, <2>2, <3>1 DEF Recorded
    <3>4. \A i \in 0..(size[auth] - 1) : i < auth_cur => buf'[auth][i].hostname \in Served
      BY <1>0, <1>1, <3>2 DEF SlotsServed
    <3> QED
      BY <1>1, <2>1, <2>2, <3>1, <3>2, <3>3, <3>4 DEF SlotsServed
  <2>5. CASE Count
    <3>1. buf' = buf /\ size' = size
      BY <2>5 DEF Count
    <3> QED
      BY <1>0, <1>1, <2>1, <2>2, <3>1 DEF SlotsServed
  <2>6. CASE SortSwap
    <3>1. PICK p \in Inversions :
            buf' = [buf EXCEPT ![base][p[1]] = buf[base][p[2]], ![base][p[2]] = buf[base][p[1]]]
      BY <2>6 DEF SortSwap
    <3>2. /\ pc = "sort" /\ n <= size[base] /\ n \in Nat /\ base \in 1..2
          /\ auth_cur' = auth_cur /\ size' = size
      BY <2>6 DEF SortSwap, TypeInv, TypeOK
    <3>3. p[1] \in 0..(size[base] - 1) /\ p[2] \in 0..(size[base] - 1)
      BY <1>0, <3>1, <3>2 DEF Inversions
    <3>4. \A b \in 1..2 : \A i \in 0..(size[b] - 1) :
            \E j \in 0..(size[b] - 1) : buf'[b][i] = buf[b][j]
      BY <1>0, <3>1, <3>2, <3>3
    <3>5. \A b \in 1..2 : \A i \in 0..(size[b] - 1) : buf'[b][i].hostname \in Served
      BY <1>1, <2>2, <3>4 DEF SlotsServed
    <3> QED
      BY <1>0, <2>1, <2>2, <3>2, <3>5 DEF SlotsServed
  <2> QED
    BY <1>3, <2>2, <2>3, <2>4, <2>5, <2>6
<1> QED
  BY <1>2, <1>3

\* Main's statements and what happens to it.
LEMMA ServedStep == TypeInv /\ MirrorInv /\ ServedInv /\ [Next]_vars => ServedInv'
<1> SUFFICES ASSUME TypeInv, MirrorInv, ServedInv, [Next]_vars PROVE ServedInv'
  OBVIOUS
<1>0. now \in Nat /\ now # Never
  BY DEF TypeInv, TypeOK, ServedInv
<1> USE DEF Running, Stopped
<1>1. CASE Start
  <2>1. /\ pc' = "open" /\ auth_cur' = 0 /\ auth' = 1 /\ now' = now
        /\ size' = [b \in 1..2 |-> AuthMax]
        /\ out' = <<>> /\ stream' = "none" /\ hostname' = NoHost
        /\ buf' = [b \in 1..2 |-> [i \in 0..(AuthMax - 1) |-> Blank]]
    BY <1>1 DEF Start, FirstPoint, fileVars, ServedInv, TypeInv, StreamBound
  <2>2. SlotsServed'
    BY <2>1, ConstantsOK DEF SlotsServed, Recorded, Served, Blank
  <2>3. FilesServed'
    BY <2>1, EmptySeq DEF FilesServed, Booting, WritePoints
  <2> QED
    BY <1>0, <2>1, <2>2, <2>3 DEF ServedInv
<1>2. CASE (\E h \in Hosts : Login(h)) \/ Present \/ Test \/ Raise \/ Assign \/ SortDone
  <2>1. /\ pc \in {"nap"} \cup (AddPoints \ {"stamp"})
        /\ pc' \in (AddPoints \ {"stamp"}) \cup {"open"}
        /\ now' = now /\ upset' = upset
        /\ UNCHANGED <<buf, size, auth, auth_cur, lastLogin, out, stream, authtemp, authfile>>
    BY <1>2 DEF Login, Present, Test, Raise, Assign, SortDone, AddPoints, Dangling,
       timeVars, tableVars, fileVars, histVars
  <2>2. Running /\ Running' /\ pc # "stamp" /\ pc' \notin {"print", "rename"} /\ ~Booting
    BY <2>1 DEF AddPoints, Booting, WritePoints
  <2>3. SlotsServed
    BY <2>2 DEF ServedInv
  <2>4. SlotsServed' /\ Served' = Served
    BY <2>1, <2>2, <2>3, SlotsKept
  <2> QED
    BY <2>1, <2>2, <2>4, ServedKept
<1>3. CASE Update \/ Realloc \/ Fill \/ Stamp \/ Count \/ SortSwap
  <2>1. /\ pc \in AddPoints /\ pc' \in {"nap"} \cup AddPoints
        /\ now' = now /\ upset' = upset
        /\ UNCHANGED <<out, stream, authtemp, authfile>>
    BY <1>3 DEF Update, Realloc, Fill, Stamp, Count, SortSwap, AddPoints, timeVars, fileVars, histVars
  <2>2. Running /\ Running' /\ pc' \notin {"print", "rename"} /\ ~Booting
    BY <2>1 DEF AddPoints, Booting, WritePoints
  <2>3. SlotsServed' /\ Served \subseteq Served'
    BY <1>3, SlotsServedStep
  <2> QED
    BY <2>1, <2>2, <2>3, ServedKept
<1>4. CASE Overreach \/ Kill
  <2>1. /\ now' = now /\ out' = <<>>
        /\ pc' \in {"down", "corrupt"}
    BY <1>4 DEF Overreach, Corrupt, Kill, timeVars
  <2> QED
    BY <1>0, <2>1 DEF ServedInv
<1>5. CASE (Open \/ Rename) /\ pc' = "exited"
  <2>1. now' = now /\ out' = <<>>
    BY <1>5 DEF Open, Rename, Exit, FlushStream, timeVars
  <2> QED
    BY <1>0, <1>5, <2>1 DEF ServedInv
<1>6. CASE (Open \/ Fprintf \/ Close \/ Rename) /\ pc' # "exited"
  <2>1. /\ pc \in WritePoints /\ pc' \in {"nap", "print", "rename"} /\ now' = now
        /\ pc' = "nap" \/ hostname' = hostname
        /\ UNCHANGED <<buf, size, auth, auth_cur, lastLogin>>
        /\ upset \subseteq upset'
    BY <1>6 DEF Open, Fprintf, Close, Rename, Exit, FlushStream, WritePoints,
       timeVars, tableVars, frameVars, histVars
  <2>2. Running /\ Running' /\ pc # "stamp" /\ SlotsServed /\ FilesServed
    BY <2>1 DEF WritePoints, ServedInv
  <2>3. SlotsServed' /\ Served' = Served
    BY <2>1, <2>2, SlotsKept
  <2>4. /\ Seq(Served) \subseteq Seq(Served')
        /\ Seq(Served) \subseteq Seq(Legible')
        /\ Seq(Legible) \subseteq Seq(Legible')
        /\ LegibleFiles \subseteq LegibleFiles'
        /\ Torn => Torn'
    BY <2>1, <2>3, ServedTexts
  <2>5. <<>> \in Seq(Served') /\ <<>> \in Seq(Legible')
    BY EmptySeq
  <2>6. CASE Open
    <3>1. /\ pc = "open" /\ hostname' = hostname
          /\ authtemp' = <<>> /\ stream' = "temp" /\ out' = <<>> /\ pc' = "print"
          /\ authfile' = authfile
      BY <1>6, <2>6 DEF Open, Exit, frameVars
    <3>2. FilesServed'
      BY <2>2, <2>4, <2>5, <3>1 DEF FilesServed, LegibleFiles, Booting, WritePoints
    <3> QED
      BY <1>0, <2>1, <2>2, <2>3, <3>2 DEF ServedInv
  <2>7. CASE Fprintf
    <3>1. /\ pc = "print" /\ pc' = "print" /\ hostname' = hostname
          /\ UNCHANGED <<stream, authtemp, authfile>>
          /\ ~(Len(out) >= auth_cur)
          /\ out' = Append(out, buf[auth][Len(out)].hostname)
      BY <2>7 DEF Fprintf, Written, frameVars
    <3>2. out' \in Seq(Served)
      <4>1. out \in Seq(Served) /\ Len(out) \in Nat
        BY <2>2, LenProperties DEF FilesServed
      <4>2. auth_cur \in Nat /\ auth_cur <= size[auth] /\ size[auth] \in Nat
        BY <2>2, <3>1 DEF TypeInv, TypeOK, SlotBound
      <4>3. Len(out) \in 0..(size[auth] - 1) /\ Len(out) < auth_cur
        BY <3>1, <4>1, <4>2
      <4>4. buf[auth][Len(out)].hostname \in Served
        BY <2>2, <4>3 DEF SlotsServed
      <4> QED
        BY <3>1, <4>1, <4>4, AppendProperties
    <3>3. FilesServed'
      BY <2>2, <2>3, <2>4, <3>1, <3>2 DEF FilesServed, Booting, WritePoints
    <3> QED
      BY <1>0, <2>1, <2>2, <2>3, <3>3 DEF ServedInv
  <2>8. CASE Close
    <3>1. /\ pc = "print" /\ pc' = "rename" /\ hostname' = hostname
          /\ FlushStream(authtemp, {})
      BY <2>8 DEF Close, frameVars
    <3>2. /\ out' = <<>> /\ stream' = "none" /\ authtemp' \in LegibleFiles'
          /\ ~Booting => authfile' \in LegibleFiles'
      BY <2>1, <2>2, <3>1, FlushServed
    <3>3. FilesServed'
      BY <2>5, <3>1, <3>2 DEF FilesServed, Booting, WritePoints
    <3> QED
      BY <1>0, <2>1, <2>2, <2>3, <3>3 DEF ServedInv
  <2>9. CASE Rename
    <3>1. /\ pc = "rename" /\ authfile' = authtemp /\ pc' = "nap"
          /\ UNCHANGED <<stream, out>>
      BY <1>6, <2>9 DEF Rename, Exit
    <3>2. stream = "none"
      BY <3>1 DEF TypeInv, StreamBound
    <3>3. FilesServed'
      BY <2>2, <2>4, <3>1, <3>2 DEF FilesServed
    <3> QED
      BY <1>0, <2>1, <2>2, <2>3, <3>3 DEF ServedInv
  <2> QED
    BY <1>6, <2>6, <2>7, <2>8, <2>9
<1>7. CASE auth_clean
  BY <1>7, CleanServed
<1>8. CASE Tick \/ RaiseSigalrm \/ UNCHANGED vars
  <2>1. /\ now' \in {now, now + 1}
        /\ UNCHANGED <<pc, hostname, buf, size, auth, auth_cur, lastLogin, upset, out, stream,
                       authtemp, authfile>>
    BY <1>8 DEF Tick, RaiseSigalrm, vars, timeVars, tableVars, frameVars, fileVars, histVars
  <2>2. now' # Never
    <3>1. now \in Nat /\ now # 0 /\ now' \in {now, now + 1}
      BY <1>0, <2>1 DEF Never
    <3> QED
      BY <3>1 DEF Never
  <2>3. Served' = Served
    BY <2>1 DEF Served
  <2>4. /\ Recorded' = Recorded /\ Torn' = Torn /\ Legible' = Legible
        /\ LegibleFiles' = LegibleFiles /\ Booting' = Booting
    BY <2>1, <2>3 DEF Recorded, Torn, Legible, LegibleFiles, Booting
  <2>5. SlotsServed => SlotsServed'
    BY <2>1, <2>3, <2>4 DEF SlotsServed
  <2>6. FilesServed => FilesServed'
    BY <2>1, <2>3, <2>4 DEF FilesServed
  <2> QED
    BY <2>1, <2>2, <2>5, <2>6 DEF ServedInv
<1>9. Fprintf \/ Close => pc' # "exited"
  BY DEF Fprintf, Close
<1> QED
  BY <1>1, <1>2, <1>3, <1>4, <1>5, <1>6, <1>7, <1>8, <1>9 DEF Next, Step

\* No whole line of the relay file names a host that has not logged in since
\* the process started, wherever SIGALRM strikes and whatever fails; and a line
\* of which a part is missing is there only after a write that was cut short
\* or SIGALRM between fopen and rename.
THEOREM OnlyServedRelayed == Spec => []RelayOnlyServed
<1>1. Init => ServedInv
  <2> SUFFICES ASSUME Init PROVE ServedInv
    OBVIOUS
  <2>1. now = Timeout + Flush /\ pc = "down" /\ out = <<>>
    BY DEF Init
  <2>2. now # Never
    BY <2>1, ConstantsOK DEF Never
  <2> QED
    BY <2>1, <2>2 DEF ServedInv, Running, Stopped
<1>2. TypeInv /\ MirrorInv /\ ServedInv /\ [Next]_vars => ServedInv'
  BY ServedStep
<1>3. ServedInv => RelayOnlyServed
  <2> SUFFICES ASSUME ServedInv, Running, ~Booting, NEW h \in Relayed
               PROVE  /\ h \notin {NoHost, Fragment} => lastLogin[h] # Never
                      /\ h = Fragment => upset \cap {"cut", "write"} # {}
    BY DEF RelayOnlyServed
  <2>1. authfile \in Seq(Legible)
    BY DEF ServedInv, FilesServed, LegibleFiles, Relayed
  <2>2. h \in Legible
    BY <2>1, ElementOfSeq, LenProperties DEF Relayed
  <2>3. Fragment \notin Served
    BY LinesOK DEF Served
  <2> QED
    BY <2>2, <2>3 DEF Legible, Lines, Served, Torn
<1> QED
  BY <1>1, <1>2, <1>3, TypeInvariant, MirrorInvariant, PTL DEF Spec
=============================================================================
