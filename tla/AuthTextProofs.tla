--------------------------- MODULE AuthTextProofs ---------------------------
(***************************************************************************)
(* Theorems about the text database, for every set of hosts, array size,   *)
(* timeout and flush period, for SIGALRM delivered at any set of points    *)
(* and for every set of faults.                                            *)
(***************************************************************************)
EXTENDS AuthText, SequenceTheorems, TLAPS

USE DEF NoHost, Never

\* The lines there may be of a file whose whole lines are names of S.
Lines(S) == S \cup {Fragment}

\* The files main's open stream can name, and when it can have one at all.
StreamBound ==
  /\ stream = "temp" => authtemp \in Seq(Lines(Hostnames))
  /\ stream = "auth" => authfile \in Seq(Lines(Hostnames))
  /\ stream # "none" => pc = "print"

\* Only the array under qsort may hold fewer slots than are counted.
SlotBound ==
  /\ Running /\ pc # "sort" => auth_cur <= size[auth]
  /\ pc = "sort" => auth_cur <= size[auth] \/ (base = auth /\ n = auth_cur)

TypeInv == TypeOK /\ SlotBound /\ StreamBound

-----------------------------------------------------------------------------
(* Text and files.                                                         *)

\* The first lines of a text are a text.
LEMMA StartIsText ==
  ASSUME NEW S, NEW text \in Seq(S), NEW k \in 0..Len(text)
  PROVE  SubSeq(text, 1, k) \in Seq(S)
<1>1. \A i \in 1..k : text[i] \in S
  BY ElementOfSeq, LenProperties
<1> QED
  BY <1>1, LenProperties, SubSeqProperties

\* The last lines of a text are a text.
LEMMA EndIsText ==
  ASSUME NEW S, NEW text \in Seq(S), NEW k \in 2..(Len(text) + 1)
  PROVE  SubSeq(text, k, Len(text)) \in Seq(S)
<1>1. Len(text) \in Nat
  BY LenProperties
<1>2. \A i \in k..Len(text) : text[i] \in S
  BY <1>1, ElementOfSeq
<1> QED
  BY <1>1, <1>2, SubSeqProperties

\* A text of names is a text of lines.
LEMMA NamesAreLines ==
  ASSUME NEW S, NEW text \in Seq(S)
  PROVE  text \in Seq(Lines(S))
<1>1. S \subseteq Lines(S)
  BY DEF Lines
<1>2. Len(text) \in Nat /\ text = [i \in 1..Len(text) |-> text[i]]
  BY LenProperties
<1>3. \A i \in 1..Len(text) : text[i] \in Lines(S)
  BY <1>1, ElementOfSeq
<1> QED
  BY <1>2, <1>3, SeqDef

\* What reaches the disk of a text is a text, the last line perhaps cut.
LEMMA FlushedIsText ==
  ASSUME NEW S, NEW text \in Seq(S), NEW saved \in Flushed(text)
  PROVE  saved \in Seq(Lines(S))
<1>1. text \in Seq(Lines(S)) /\ Len(text) \in Nat
  BY NamesAreLines, LenProperties
<1>2. CASE saved = text
  BY <1>1, <1>2
<1>3. CASE \E k \in 0..Len(text) : saved = SubSeq(text, 1, k)
  BY <1>1, <1>3, StartIsText
<1>4. CASE \E k \in 1..Len(text) : saved = Append(SubSeq(text, 1, k - 1), Fragment)
  <2>1. PICK k \in 1..Len(text) : saved = Append(SubSeq(text, 1, k - 1), Fragment)
    BY <1>4
  <2>2. k - 1 \in 0..Len(text)
    BY <1>1
  <2>3. SubSeq(text, 1, k - 1) \in Seq(Lines(S))
    BY <1>1, <2>2, StartIsText
  <2> QED
    BY <2>1, <2>3, AppendProperties DEF Lines
<1> QED
  BY <1>2, <1>3, <1>4 DEF Flushed

\* The other array is one of the two.
LEMMA ShadowType ==
  ASSUME auth \in 1..2
  PROVE  shadow_auth \in 1..2 /\ shadow_auth # auth
  BY DEF shadow_auth

\* So many lines are a text.
LEMMA LinesAreText ==
  ASSUME NEW S, NEW k \in Nat, NEW lines \in [1..k -> S]
  PROVE  lines \in Seq(S)
  BY SeqDef

\* What is left of a text is a text.
LEMMA RemnantIsText ==
  ASSUME NEW S, NEW old \in Seq(Lines(S)), NEW rest \in Remnants(old)
  PROVE  rest \in Seq(Lines(S))
<1>1. <<>> \in Seq(Lines(S)) /\ <<Fragment>> \in Seq(Lines(S))
  BY EmptySeq DEF Lines
<1>2. CASE rest = <<>>
  BY <1>1, <1>2
<1>3. CASE \E k \in 2..(Len(old) + 1) : rest = SubSeq(old, k, Len(old))
  BY <1>3, EndIsText
<1>4. CASE \E k \in 2..(Len(old) + 1) : rest = <<Fragment>> \o SubSeq(old, k, Len(old))
  BY <1>1, <1>4, EndIsText, ConcatProperties
<1> QED
  BY <1>2, <1>3, <1>4 DEF Remnants

\* A file written over from its start still holds a text.
LEMMA OverlayIsText ==
  ASSUME NEW S, NEW text \in Seq(Lines(S)), NEW old \in Seq(Lines(S)), NEW file \in Overlays(text, old)
  PROVE  file \in Seq(Lines(S))
<1>1. \A rest \in Remnants(old) : text \o rest \in Seq(Lines(S))
  BY RemnantIsText, ConcatProperties
<1> QED
  BY <1>1 DEF Overlays

\* Flushing a stream leaves both files well-formed and the stream closed.
LEMMA FlushStreamType ==
  ASSUME TypeOK, StreamBound, NEW temp \in Files, NEW marks \in SUBSET Upsets,
         stream = "temp" => temp \in Seq(Lines(Hostnames)),
         FlushStream(temp, marks)
  PROVE  /\ authtemp' \in Files
         /\ authfile' \in Files
         /\ stream' = "none"
         /\ out' = <<>>
         /\ upset' \subseteq Upsets
<1>1. PICK text \in Flushed(out) :
        /\ authtemp' \in IF stream = "temp" THEN Overlays(text, temp) ELSE {temp}
        /\ authfile' \in IF stream = "auth" THEN Overlays(text, authfile) ELSE {authfile}
        /\ stream' = "none"
        /\ out' = <<>>
        /\ upset' = upset \cup marks \cup CutShort(text, out)
  BY DEF FlushStream
<1>2. text \in Seq(Lines(Hostnames))
  BY <1>1, FlushedIsText DEF TypeOK
<1>3. authtemp' \in Files
  BY <1>1, <1>2, OverlayIsText DEF Files, Lines
<1>4. authfile' \in Files
  BY <1>1, <1>2, OverlayIsText DEF TypeOK, StreamBound, Files, Lines
<1>5. upset' \subseteq Upsets
  BY <1>1 DEF TypeOK, CutShort, Upsets
<1> QED
  BY <1>1, <1>3, <1>4, <1>5

\* SIGALRM leaves one of the marks there are, and the one that fits.
LEMMA StrikeType ==
  /\ Strike \subseteq Upsets
  /\ Strike = IF pc \in Growing THEN {"growth"}
              ELSE IF pc \in Entering THEN {"entry"}
              ELSE IF pc \in Writing THEN {"write"}
              ELSE {}
<1>1. Strike = IF pc \in Growing THEN {"growth"}
               ELSE IF pc \in Entering THEN {"entry"}
               ELSE IF pc \in Writing THEN {"write"}
               ELSE {}
  BY DEF Strike, Growing, Dangling, Entering, Writing
<1> QED
  BY <1>1 DEF Upsets

-----------------------------------------------------------------------------
(* The type invariant.                                                     *)

\* The slots of an array are slots of a larger one.
LEMMA MoreSlots ==
  ASSUME NEW few \in Nat, NEW many \in Nat, few <= many
  PROVE  0..(few - 1) \subseteq 0..(many - 1)
  OBVIOUS

\* Growing an array keeps what it holds and blanks the rest.
LEMMA GrownType ==
  ASSUME TypeOK, NEW b \in 1..2
  PROVE  /\ Grown(b) = [c \in 1..2 |-> Grown(b)[c]]
         /\ Grown(b)[b] \in [0..(auth_max - 1) -> Entries]
         /\ \A i \in 0..(size[b] - 1) : Grown(b)[b][i] = buf[b][i]
         /\ \A c \in 1..2 : c # b => Grown(b)[c] = buf[c]
<1>1. /\ size[b] \in Nat /\ auth_max \in Nat /\ size[b] <= auth_max
      /\ buf[b] \in [0..(size[b] - 1) -> Entries]
  BY DEF TypeOK
<1>2. \A i \in 0..(auth_max - 1) :
        (IF i < size[b] THEN buf[b][i] ELSE Blank) \in Entries
  BY <1>1 DEF Blank, Entries, Hostnames
<1>3. \A i \in 0..(size[b] - 1) : i \in 0..(auth_max - 1) /\ i < size[b]
  BY <1>1
<1> QED
  BY <1>1, <1>2, <1>3 DEF Grown, TypeOK

LEMMA TypeInit == Init => TypeInv
<1> SUFFICES ASSUME Init PROVE TypeInv
  OBVIOUS
<1> USE ConstantsOK
<1>1. \A b \in 1..2 : buf[b] \in [0..(size[b] - 1) -> Entries]
  BY DEF Init, Blank, Entries, Hostnames
<1>2. <<>> \in Seq(Hostnames)
  BY EmptySeq
<1> QED
  BY <1>1, <1>2 DEF Init, TypeInv, TypeOK, SlotBound, StreamBound, Hostnames, Files,
     Running, Stopped, Points, AddPoints, NULL, Upsets

\* The lines the handler writes.
Kept(m, pick) == [k \in 1..m |-> buf[auth][pick[k - 1]].hostname]

\* What the handler does unless it corrupts memory.
CleanKeeps(m, pick) ==
  /\ m \in Nat
  /\ m <= auth_cur
  /\ m <= size[shadow_auth]
  /\ pick \in [0..(m - 1) -> Live]
  /\ Enumerates(pick, m, Live)
  /\ buf' = [buf EXCEPT ![shadow_auth] =
               [i \in 0..(size[shadow_auth] - 1) |->
                  IF i < m THEN buf[auth][pick[i]] ELSE buf[shadow_auth][i]]]
  /\ auth' = shadow_auth
  /\ auth_cur' = m
  /\ NestedWrite(Kept(m, pick))
  /\ alarm' = Flush
  /\ UNCHANGED <<now, size, auth_max, frameVars, lastLogin>>

LEMMA CleanCases ==
  ASSUME TypeInv, auth_clean
  PROVE  /\ Running /\ alarm = 0
         /\ \/ /\ Corrupt(Strike)
               /\ \/ pc \in Dangling
                  \/ auth_cur > size[auth]
                  \/ \E m \in 0..auth_cur : m > size[shadow_auth]
            \/ /\ pc \notin Dangling
               /\ auth_cur <= size[auth]
               /\ \E m, pick : CleanKeeps(m, pick)
<1>1. auth_cur \in Nat
  BY DEF TypeInv, TypeOK
<1>2. Running /\ alarm = 0
  BY DEF auth_clean, Deliverable, Running
<1>3. CASE (pc \in Dangling \/ auth_cur > size[auth]) /\ Corrupt(Strike)
  BY <1>2, <1>3
<1>4. CASE /\ pc \notin Dangling /\ auth_cur <= size[auth]
           /\ \E m \in 0..auth_cur : \E pick \in [0..(m - 1) -> Live] :
                Enumerates(pick, m, Live) /\ auth_text_clean(m, pick)
  <2>1. PICK m \in 0..auth_cur : \E pick \in [0..(m - 1) -> Live] :
          Enumerates(pick, m, Live) /\ auth_text_clean(m, pick)
    BY <1>4
  <2>2. PICK pick \in [0..(m - 1) -> Live] :
          Enumerates(pick, m, Live) /\ auth_text_clean(m, pick)
    BY <2>1
  <2>3. m \in Nat /\ m <= auth_cur
    BY <1>1
  <2>4. CASE m > size[shadow_auth] /\ Corrupt(Strike)
    BY <1>2, <2>4
  <2>5. CASE ~(m > size[shadow_auth] /\ Corrupt(Strike))
    <3>1. CleanKeeps(m, pick)
      BY <2>2, <2>3, <2>5 DEF auth_text_clean, CleanKeeps, Kept
    <3> QED
      BY <1>2, <1>4, <3>1
  <2> QED
    BY <2>4, <2>5
<1> QED
  BY <1>3, <1>4 DEF auth_clean

\* The text the handler writes lists the table as it leaves it.
LEMMA CleanText ==
  ASSUME TypeInv, NEW m, NEW pick, CleanKeeps(m, pick), auth_cur <= size[auth]
  PROVE  /\ Kept(m, pick) \in Seq(Hostnames)
         /\ Kept(m, pick) = Listing(auth, auth_cur)'
         /\ \A i \in 0..(m - 1) : /\ pick[i] \in 0..(auth_cur - 1)
                                  /\ buf'[auth'][i] = buf[auth][pick[i]]
         /\ buf' = [b \in 1..2 |-> buf'[b]]
         /\ \A b \in 1..2 : buf'[b] \in [0..(size[b] - 1) -> Entries]
<1>1. /\ m \in Nat /\ m <= size[shadow_auth] /\ size[shadow_auth] \in Nat
      /\ auth \in 1..2 /\ shadow_auth \in 1..2 /\ shadow_auth # auth
      /\ auth_cur \in Nat /\ size[auth] \in Nat
      /\ auth' = shadow_auth /\ auth_cur' = m
      /\ pick \in [0..(m - 1) -> Live]
  BY DEF CleanKeeps, TypeInv, TypeOK, shadow_auth
<1>2. \A i \in 0..(m - 1) : pick[i] \in 0..(auth_cur - 1)
  BY <1>1 DEF Live
<1>3. 0..(auth_cur - 1) \subseteq 0..(size[auth] - 1)
  BY <1>1, MoreSlots
<1>4. \A i \in 0..(m - 1) : buf[auth][pick[i]] \in Entries
  BY <1>1, <1>2, <1>3 DEF TypeInv, TypeOK
<1>5. /\ DOMAIN buf = 1..2
      /\ buf[shadow_auth] \in [0..(size[shadow_auth] - 1) -> Entries]
  BY <1>1 DEF TypeInv, TypeOK
<1>6. buf'[auth'] = [i \in 0..(size[shadow_auth] - 1) |->
                       IF i < m THEN buf[auth][pick[i]] ELSE buf[shadow_auth][i]]
  BY <1>1, <1>5 DEF CleanKeeps
<1>7. \A i \in 0..(m - 1) : i \in 0..(size[shadow_auth] - 1) /\ i < m
  BY <1>1
<1>8. \A i \in 0..(m - 1) : buf'[auth'][i] = buf[auth][pick[i]]
  BY <1>6, <1>7
<1>9. Kept(m, pick) \in Seq(Hostnames)
  <2>1. \A k \in 1..m : k - 1 \in 0..(m - 1)
    BY <1>1
  <2>2. Kept(m, pick) \in [1..m -> Hostnames]
    BY <1>4, <2>1 DEF Entries, Kept
  <2> QED
    BY <2>2, <1>1, LinesAreText
<1>10. Kept(m, pick) = Listing(auth, auth_cur)'
  <2>1. \A k \in 1..m : k - 1 \in 0..(m - 1)
    BY <1>1
  <2>2. \A k \in 1..m : buf[auth][pick[k - 1]].hostname = buf'[auth'][k - 1].hostname
    BY <1>8, <2>1
  <2> QED
    BY <1>1, <2>2 DEF Listing, Kept
<1>11. buf'[shadow_auth] \in [0..(size[shadow_auth] - 1) -> Entries]
  <2>1. \A i \in 0..(size[shadow_auth] - 1) :
          (IF i < m THEN buf[auth][pick[i]] ELSE buf[shadow_auth][i]) \in Entries
    BY <1>1, <1>4, <1>5
  <2> QED
    BY <2>1, <1>1, <1>6
<1>12. buf' = [b \in 1..2 |-> buf'[b]] /\ \A b \in 1..2 : b # shadow_auth => buf'[b] = buf[b]
  BY <1>1 DEF CleanKeeps, TypeInv, TypeOK
<1>13. \A b \in 1..2 : buf'[b] \in [0..(size[b] - 1) -> Entries]
  BY <1>11, <1>12 DEF TypeInv, TypeOK
<1> QED
  BY <1>2, <1>8, <1>9, <1>10, <1>12, <1>13

\* The handler's copy, swap and rewrite.
LEMMA CleanType == TypeInv /\ auth_clean => TypeInv'
<1> SUFFICES ASSUME TypeInv, auth_clean PROVE TypeInv'
  OBVIOUS
<1> USE ConstantsOK, EmptySeq
<1>1. CASE Corrupt(Strike)
  BY <1>1, StrikeType DEF Corrupt, TypeInv, TypeOK, SlotBound, StreamBound, Running, Stopped,
     Points, AddPoints, timeVars, tableVars, frameVars
<1>2. CASE auth_cur <= size[auth] /\ \E m, pick : CleanKeeps(m, pick)
  <2>1. PICK m, pick : CleanKeeps(m, pick)
    BY <1>2
  <2>2. /\ m \in Nat /\ m <= size[shadow_auth] /\ auth' = shadow_auth /\ auth_cur' = m
        /\ shadow_auth \in 1..2 /\ size' = size /\ auth_max' = auth_max
        /\ now' = now /\ alarm' = Flush /\ lastLogin' = lastLogin
        /\ hostname' = hostname /\ e' = e /\ n' = n /\ base' = base
        /\ NestedWrite(Kept(m, pick))
    BY <2>1, ShadowType DEF CleanKeeps, TypeInv, TypeOK, frameVars
  <2>3. /\ Kept(m, pick) \in Seq(Hostnames)
        /\ buf' = [b \in 1..2 |-> buf'[b]]
        /\ \A b \in 1..2 : buf'[b] \in [0..(size[b] - 1) -> Entries]
    BY <1>2, <2>1, CleanText
  <2>4. /\ pc' \in {pc, "exited"}
        /\ authtemp' \in Files /\ authfile' \in Files
        /\ stream' \in {"none", "temp", "auth", "gone"}
        /\ out' \in Seq(Hostnames)
        /\ upset' \subseteq Upsets
        /\ StreamBound'
    <3>1. CASE \E saved \in Flushed(Kept(m, pick)) :
                 /\ authtemp' = Absent
                 /\ authfile' = saved
                 /\ stream' = CASE stream = "temp" -> "auth"
                                [] stream = "auth" -> "gone"
                                [] OTHER -> stream
                 /\ upset' = upset \cup Strike \cup CutShort(saved, Kept(m, pick))
                 /\ UNCHANGED <<pc, out>>
      <4>1. authfile' \in Seq(Lines(Hostnames))
        BY <3>1, <2>3, FlushedIsText
      <4>2. upset' \subseteq Upsets
        BY <3>1, StrikeType DEF CutShort, Upsets, TypeInv, TypeOK
      <4> QED
        BY <3>1, <4>1, <4>2 DEF TypeInv, TypeOK, StreamBound, Files, Lines
    <3>2. CASE \E temp \in {authtemp} \cup Flushed(Kept(m, pick)) : Exit(temp, Strike \cup {"failed"})
      <4>1. PICK temp \in {authtemp} \cup Flushed(Kept(m, pick)) : Exit(temp, Strike \cup {"failed"})
        BY <3>2
      <4>2. temp \in Files /\ (stream = "temp" => temp \in Seq(Lines(Hostnames)))
        BY <2>3, <4>1, FlushedIsText DEF TypeInv, TypeOK, StreamBound, Files, Lines
      <4>3. Strike \cup {"failed"} \in SUBSET Upsets
        BY StrikeType DEF Upsets
      <4>4. FlushStream(temp, Strike \cup {"failed"}) /\ pc' = "exited"
        BY <4>1 DEF Exit
      <4>5. /\ authtemp' \in Files /\ authfile' \in Files
            /\ stream' = "none" /\ out' = <<>> /\ upset' \subseteq Upsets
        BY <4>2, <4>3, <4>4, FlushStreamType DEF TypeInv
      <4> QED
        BY <4>4, <4>5 DEF StreamBound
    <3> QED
      BY <2>2, <3>1, <3>2 DEF NestedWrite
  <2>5. e = NULL \/ (e \in (1..2) \X Nat /\ e[2] < size[e[1]])
    BY DEF TypeInv, TypeOK
  <2>6. TypeOK'
    <3>1. /\ now' \in Nat /\ alarm' \in 0..Flush /\ auth' \in 1..2 /\ auth_cur' \in Nat
          /\ auth_max' \in Nat \ {0} /\ size' \in [1..2 -> 1..auth_max']
          /\ hostname' \in Hostnames /\ n' \in Nat /\ base' \in 0..2
          /\ lastLogin' \in [Hosts -> Nat]
      BY <2>2 DEF TypeInv, TypeOK
    <3>2. /\ pc' \in Points \cup Stopped
          /\ pc' \in AddPoints => hostname' \in Hosts
          /\ pc' = "update" => e' # NULL
          /\ pc' = "sort" => base' # 0
      BY <2>2, <2>4 DEF TypeInv, TypeOK, Stopped, AddPoints
    <3>3. e' = NULL \/ (e' \in (1..2) \X Nat /\ e'[2] < size'[e'[1]])
      BY <2>2, <2>5
    <3> QED
      BY <2>2, <2>3, <2>4, <3>1, <3>2, <3>3 DEF TypeOK
  <2>7. SlotBound'
    BY <2>2 DEF SlotBound
  <2> QED
    BY <2>4, <2>6, <2>7 DEF TypeInv
<1> QED
  BY <1>1, <1>2, CleanCases

\* A new process starts with everything in its place.
LEMMA StartType == TypeInv /\ Start => TypeInv'
<1> SUFFICES ASSUME TypeInv, Start PROVE TypeInv'
  OBVIOUS
<1> USE ConstantsOK
<1>1. \A b \in 1..2 : buf'[b] \in [0..(size'[b] - 1) -> Entries]
  BY DEF Start, FirstPoint, Blank, Entries, Hostnames
<1>2. /\ buf' = [b \in 1..2 |-> buf'[b]]
      /\ size' = [b \in 1..2 |-> AuthMax] /\ auth_max' = AuthMax /\ AuthMax \in Nat \ {0}
      /\ pc' = "open" /\ auth' = 1 /\ auth_cur' = 0 /\ hostname' = NoHost /\ e' = NULL
      /\ n' = 0 /\ base' = 0 /\ alarm' = Flush /\ now' = now /\ upset' = {}
      /\ stream' = stream /\ out' = out /\ authtemp' = authtemp /\ authfile' = authfile
      /\ lastLogin' \in [Hosts -> Nat]
  BY DEF Start, FirstPoint, fileVars
<1>3. pc' \in Points \cup Stopped /\ pc' \notin AddPoints
  BY <1>2 DEF Points, AddPoints, WritePoints
<1>4. TypeOK'
  <2>1. now' \in Nat /\ alarm' \in 0..Flush
    BY <1>2 DEF TypeInv, TypeOK
  <2>2. size' \in [1..2 -> 1..auth_max'] /\ auth_max' \in Nat \ {0}
    BY <1>2
  <2>3. auth' \in 1..2 /\ auth_cur' \in Nat /\ n' \in Nat /\ base' \in 0..2 /\ hostname' \in Hostnames
    BY <1>2 DEF Hostnames
  <2>4. e' = NULL \/ (e' \in (1..2) \X Nat /\ e'[2] < size'[e'[1]])
    BY <1>2
  <2>5. pc' \in Points \cup Stopped /\ (pc' \in AddPoints => hostname' \in Hosts)
        /\ (pc' = "update" => e' # NULL) /\ (pc' = "sort" => base' # 0)
    BY <1>2, <1>3
  <2>6. stream' \in {"none", "temp", "auth", "gone"} /\ out' \in Seq(Hostnames)
        /\ authtemp' \in Files /\ authfile' \in Files
    BY <1>2 DEF TypeInv, TypeOK
  <2>7. lastLogin' \in [Hosts -> Nat] /\ upset' \subseteq Upsets
    BY <1>2
  <2> QED
    BY <1>1, <1>2, <2>1, <2>2, <2>3, <2>4, <2>5, <2>6, <2>7 DEF TypeOK
<1>5. SlotBound'
  BY <1>2 DEF SlotBound
<1>6. StreamBound'
  BY <1>2 DEF Start, TypeInv, StreamBound, Running, Stopped
<1> QED
  BY <1>4, <1>5, <1>6 DEF TypeInv

\* One array is given auth_max slots.
LEMMA ReallocType == TypeInv /\ Realloc => TypeInv'
<1> SUFFICES ASSUME TypeInv, Realloc PROVE TypeInv'
  OBVIOUS
<1>1. PICK b \in 1..2 : buf' = Grown(b) /\ size' = [size EXCEPT ![b] = auth_max]
  BY ShadowType DEF Realloc, TypeInv, TypeOK
<1>2. /\ pc \in {"grow", "regrow"} /\ pc' \in {"grown", "regrown"}
      /\ auth_max' = auth_max /\ auth' = auth /\ auth_cur' = auth_cur
      /\ now' = now /\ alarm' = alarm
      /\ hostname' = hostname /\ e' = e /\ n' = n /\ base' = base
      /\ stream' = stream /\ out' = out /\ authtemp' = authtemp /\ authfile' = authfile
      /\ lastLogin' = lastLogin /\ upset' = upset
  BY DEF Realloc, timeVars, frameVars, fileVars, histVars
<1>3. /\ auth_max \in Nat \ {0} /\ size \in [1..2 -> 1..auth_max]
      /\ auth \in 1..2 /\ auth_cur <= size[auth] /\ auth_cur \in Nat
  BY <1>2 DEF TypeInv, TypeOK, SlotBound, Running, Stopped
<1>4. /\ size' \in [1..2 -> 1..auth_max]
      /\ \A c \in 1..2 : size[c] <= size'[c]
  BY <1>1, <1>3
<1>5. /\ buf' = [c \in 1..2 |-> buf'[c]]
      /\ \A c \in 1..2 : buf'[c] \in [0..(size'[c] - 1) -> Entries]
  <2>1. /\ buf' = [c \in 1..2 |-> buf'[c]]
        /\ buf'[b] \in [0..(auth_max - 1) -> Entries]
        /\ \A c \in 1..2 : c # b => buf'[c] = buf[c]
    BY <1>1, GrownType DEF TypeInv
  <2>2. \A c \in 1..2 : size'[c] = IF c = b THEN auth_max ELSE size[c]
    BY <1>1, <1>3
  <2> QED
    BY <2>1, <2>2 DEF TypeInv, TypeOK
<1>6. e' = NULL \/ (e' \in (1..2) \X Nat /\ e'[2] < size'[e'[1]])
  <2>1. CASE e \in (1..2) \X Nat /\ e[2] < size[e[1]]
    <3>1. e[1] \in 1..2 /\ e[2] \in Nat /\ size[e[1]] <= size'[e[1]]
      BY <2>1, <1>4
    <3>2. size[e[1]] \in Nat /\ size'[e[1]] \in Nat
      BY <3>1, <1>3, <1>4
    <3> QED
      BY <1>2, <2>1, <3>1, <3>2
  <2> QED
    BY <2>1, <1>2 DEF TypeInv, TypeOK
<1>7. TypeOK'
  BY <1>2, <1>3, <1>4, <1>5, <1>6 DEF TypeInv, TypeOK, Points, AddPoints, Stopped
<1>8. SlotBound'
  <2>1. auth_cur <= size'[auth]
    BY <1>3, <1>4
  <2> QED
    BY <1>2, <2>1 DEF SlotBound
<1>9. StreamBound'
  BY <1>2 DEF TypeInv, StreamBound
<1> QED
  BY <1>7, <1>8, <1>9 DEF TypeInv

\* The next slot, when it is allocated, gets the name or the time.
LEMMA SlotType == TypeInv /\ (Fill \/ Stamp) => TypeInv'
<1> SUFFICES ASSUME TypeInv, Fill \/ Stamp PROVE TypeInv'
  OBVIOUS
<1>1. /\ auth \in 1..2 /\ auth_cur \in Nat /\ size[auth] \in Nat /\ auth_cur < size[auth]
      /\ auth_cur \in 0..(size[auth] - 1)
      /\ now \in Nat /\ hostname \in Hosts
      /\ buf[auth] \in [0..(size[auth] - 1) -> Entries]
  BY DEF Fill, Stamp, TypeInv, TypeOK, AddPoints
<1>2. PICK entry \in Entries : buf' = [buf EXCEPT ![auth][auth_cur] = entry]
  <2>1. buf[auth][auth_cur] \in Entries
    BY <1>1
  <2>2. CASE Fill
    <3>1. [buf[auth][auth_cur] EXCEPT !.hostname = hostname] \in Entries
      BY <1>1, <2>1 DEF Entries, Hostnames
    <3> QED
      BY <2>2, <3>1 DEF Fill
  <2>3. CASE Stamp
    <3>1. [buf[auth][auth_cur] EXCEPT !.t = now] \in Entries
      BY <1>1, <2>1 DEF Entries
    <3> QED
      BY <2>3, <3>1 DEF Stamp
  <2> QED
    BY <2>2, <2>3
<1>3. /\ buf' = [b \in 1..2 |-> buf'[b]]
      /\ \A b \in 1..2 : buf'[b] \in [0..(size[b] - 1) -> Entries]
  BY <1>1, <1>2 DEF TypeInv, TypeOK
<1>4. n' \in Nat /\ lastLogin' \in [Hosts -> Nat] /\ size' = size
  <2>1. CASE Fill
    BY <2>1 DEF Fill, TypeInv, TypeOK, frameVars, histVars
  <2>2. CASE Stamp
    <3>1. n' = auth_cur + 1 /\ size' = size /\ lastLogin' = [lastLogin EXCEPT ![hostname] = now]
      BY <2>2 DEF Stamp
    <3>2. lastLogin \in [Hosts -> Nat]
      BY DEF TypeInv, TypeOK
    <3> QED
      BY <1>1, <3>1, <3>2
  <2> QED
    BY <2>1, <2>2
<1>5. /\ pc \in {"fill", "stamp"} /\ pc' \in {"stamp", "count"}
      /\ auth_max' = auth_max /\ auth' = auth /\ auth_cur' = auth_cur
      /\ now' = now /\ alarm' = alarm
      /\ hostname' = hostname /\ e' = e /\ base' = base
      /\ stream' = stream /\ out' = out /\ authtemp' = authtemp /\ authfile' = authfile
      /\ upset' = upset
  BY DEF Fill, Stamp, timeVars, frameVars, fileVars, histVars
<1>6. TypeOK'
  BY <1>3, <1>4, <1>5 DEF TypeInv, TypeOK, Points, AddPoints, Stopped
<1>7. SlotBound' /\ StreamBound'
  BY <1>1, <1>4, <1>5 DEF TypeInv, SlotBound, StreamBound
<1> QED
  BY <1>6, <1>7 DEF TypeInv

\* Finding a host.
LEMMA PresentType == TypeInv /\ Present => TypeInv'
<1> SUFFICES ASSUME TypeInv, Present PROVE TypeInv'
  OBVIOUS
<1>1. /\ auth \in 1..2 /\ auth_cur \in Nat /\ auth_cur <= size[auth] /\ size[auth] \in Nat
      /\ pc = "present"
  BY DEF Present, TypeInv, TypeOK, SlotBound, Running, Stopped
<1>2. e' = NULL \/ (e' \in (1..2) \X Nat /\ e'[2] < size[e'[1]])
  <2>1. ASSUME NEW i \in 0..(auth_cur - 1)
        PROVE  <<auth, i>> \in (1..2) \X Nat /\ i < size[auth]
    BY <1>1
  <2>2. e' = NULL \/ \E i \in 0..(auth_cur - 1) : e' = <<auth, i>>
    BY DEF Present, auth_present
  <2> QED
    BY <2>1, <2>2
<1>3. /\ pc' \in {"test", "update"} /\ (pc' = "update" => e' # NULL)
      /\ auth_max' = auth_max /\ auth' = auth /\ auth_cur' = auth_cur /\ buf' = buf
      /\ size' = size /\ now' = now /\ alarm' = alarm
      /\ hostname' = hostname /\ n' = n /\ base' = base
      /\ stream' = stream /\ out' = out /\ authtemp' = authtemp /\ authfile' = authfile
      /\ lastLogin' = lastLogin /\ upset' = upset
  BY DEF Present, timeVars, tableVars, fileVars, histVars
<1>4. TypeOK'
  BY <1>1, <1>2, <1>3 DEF TypeInv, TypeOK, Points, AddPoints, Stopped
<1> QED
  BY <1>1, <1>3, <1>4 DEF TypeInv, SlotBound, StreamBound

\* An entry e points to gets the current time.
LEMMA UpdateType == TypeInv /\ Update => TypeInv'
<1> SUFFICES ASSUME TypeInv, Update PROVE TypeInv'
  OBVIOUS
<1>1. /\ pc = "update" /\ hostname \in Hosts /\ now \in Nat
      /\ e \in (1..2) \X Nat /\ e[2] < size[e[1]]
  BY DEF Update, TypeInv, TypeOK, AddPoints
<1>2. /\ e[1] \in 1..2 /\ size[e[1]] \in Nat
      /\ buf[e[1]] \in [0..(size[e[1]] - 1) -> Entries]
  BY <1>1 DEF TypeInv, TypeOK
<1>3. e[2] \in 0..(size[e[1]] - 1)
  BY <1>1, <1>2
<1>4. [buf[e[1]][e[2]] EXCEPT !.t = now] \in Entries
  BY <1>1, <1>2, <1>3 DEF Entries
<1>5. /\ buf' = [b \in 1..2 |-> buf'[b]]
      /\ \A b \in 1..2 : buf'[b] \in [0..(size[b] - 1) -> Entries]
  BY <1>2, <1>3, <1>4 DEF Update, Refreshed, TypeInv, TypeOK
<1>6. lastLogin' \in [Hosts -> Nat]
  BY <1>1 DEF Update, TypeInv, TypeOK
<1>7. /\ pc' = "nap" /\ e' = NULL /\ hostname' = NoHost
      /\ auth_max' = auth_max /\ auth' = auth /\ auth_cur' = auth_cur
      /\ size' = size /\ now' = now /\ alarm' = alarm /\ n' = n /\ base' = base
      /\ stream' = stream /\ out' = out /\ authtemp' = authtemp /\ authfile' = authfile
      /\ upset' = upset
  BY DEF Update, timeVars, fileVars
<1>8. TypeOK'
  BY <1>5, <1>6, <1>7 DEF TypeInv, TypeOK, Points, AddPoints, Hostnames
<1> QED
  BY <1>1, <1>7, <1>8 DEF TypeInv, SlotBound, StreamBound, Running, Stopped

\* The steps between an entry and the relay file that touch no array.
LEMMA CountType == TypeInv /\ (Test \/ Raise \/ Assign \/ Count \/ SortDone) => TypeInv'
<1> SUFFICES ASSUME TypeInv, Test \/ Raise \/ Assign \/ Count \/ SortDone PROVE TypeInv'
  OBVIOUS
<1>1. /\ buf' = buf /\ size' = size /\ auth' = auth
      /\ now' = now /\ alarm' = alarm /\ hostname' = hostname /\ e' = e
      /\ stream' = stream /\ out' = out /\ authtemp' = authtemp /\ authfile' = authfile
      /\ lastLogin' = lastLogin /\ upset' = upset
  BY DEF Test, Raise, Assign, Count, SortDone, timeVars, tableVars, frameVars, fileVars, histVars
<1>2. /\ auth \in 1..2 /\ auth_cur \in Nat /\ auth_max \in Nat \ {0} /\ AuthGrow \in Nat
      /\ size \in [1..2 -> 1..auth_max] /\ n \in Nat
  BY ConstantsOK DEF TypeInv, TypeOK
<1>3. /\ auth_max' \in Nat \ {0} /\ size \in [1..2 -> 1..auth_max'] /\ auth_max <= auth_max'
  BY <1>2 DEF Test, Raise, Assign, Count, SortDone, tableVars
<1>4. auth_cur' \in Nat /\ n' \in Nat
  BY <1>2 DEF Test, Raise, Assign, Count, SortDone, tableVars, frameVars
<1>5. base' \in 0..2 /\ (pc' = "sort" => base' # 0)
  BY <1>2 DEF Test, Raise, Assign, Count, SortDone, frameVars, TypeInv, TypeOK
<1>6. /\ pc' \in Points /\ pc' # "update" /\ pc' # "print"
      /\ pc \in AddPoints
  BY DEF Test, Raise, Assign, Count, SortDone, Points, AddPoints, WritePoints, Dangling
<1>7. pc # "print"
  BY DEF Test, Raise, Assign, Count, SortDone, Dangling
<1>8. TypeOK'
  BY <1>1, <1>2, <1>3, <1>4, <1>5, <1>6 DEF TypeInv, TypeOK
<1>9. SlotBound'
  <2>1. CASE Test \/ Raise \/ Assign
    <3>1. pc \notin Stopped \cup {"sort"} /\ pc' # "sort" /\ auth_cur' = auth_cur
      BY <2>1 DEF Test, Raise, Assign, tableVars, Stopped, Dangling
    <3> QED
      BY <1>1, <3>1 DEF TypeInv, SlotBound, Running
  <2>2. CASE Count
    BY <1>1, <2>2 DEF Count, SlotBound
  <2>3. CASE SortDone
    <3>1. /\ pc = "sort" /\ n <= size[base] /\ auth_cur' = auth_cur /\ pc' = "open"
      BY <2>3 DEF SortDone, tableVars
    <3> QED
      BY <1>1, <3>1 DEF TypeInv, SlotBound
  <2> QED
    BY <2>1, <2>2, <2>3
<1>10. StreamBound'
  BY <1>1, <1>6, <1>7 DEF TypeInv, StreamBound
<1> QED
  BY <1>8, <1>9, <1>10 DEF TypeInv

\* qsort exchanges two entries of one array.
LEMMA SwapType == TypeInv /\ SortSwap => TypeInv'
<1> SUFFICES ASSUME TypeInv, SortSwap PROVE TypeInv'
  OBVIOUS
<1>1. PICK p \in Inversions :
        buf' = [buf EXCEPT ![base][p[1]] = buf[base][p[2]], ![base][p[2]] = buf[base][p[1]]]
  BY DEF SortSwap
<1>2. /\ base \in 1..2 /\ n \in Nat /\ size[base] \in Nat /\ n <= size[base] /\ pc = "sort"
      /\ buf[base] \in [0..(size[base] - 1) -> Entries]
  BY DEF SortSwap, TypeInv, TypeOK
<1>3. p[1] \in 0..(n - 1) /\ p[2] \in 0..(n - 1)
  BY <1>1 DEF Inversions
<1>4. p[1] \in 0..(size[base] - 1) /\ p[2] \in 0..(size[base] - 1)
  BY <1>2, <1>3, MoreSlots
<1>5. /\ buf' = [b \in 1..2 |-> buf'[b]]
      /\ \A b \in 1..2 : buf'[b] \in [0..(size[b] - 1) -> Entries]
  BY <1>1, <1>2, <1>4 DEF TypeInv, TypeOK
<1>6. UNCHANGED <<timeVars, pc, auth, size, auth_cur, auth_max, frameVars, fileVars, histVars>>
  BY DEF SortSwap
<1>7. TypeOK'
  BY <1>5, <1>6 DEF TypeInv, TypeOK, timeVars, frameVars, fileVars, histVars
<1> QED
  BY <1>6, <1>7 DEF TypeInv, SlotBound, StreamBound, Running, frameVars, fileVars

\* Main's writing of the relay file.
LEMMA WriteType == TypeInv /\ (Open \/ Fprintf \/ Close \/ Rename) => TypeInv'
<1> SUFFICES ASSUME TypeInv, Open \/ Fprintf \/ Close \/ Rename PROVE TypeInv'
  OBVIOUS
<1> USE EmptySeq
<1>1. /\ pc \in WritePoints
      /\ pc' \in {"nap", "print", "rename", "exited"}
      /\ UNCHANGED <<timeVars, tableVars, e, n, base, lastLogin>>
      /\ hostname' \in {hostname, NoHost}
  BY DEF Open, Fprintf, Close, Rename, Exit, WritePoints, frameVars, histVars
<1>2. /\ stream' \in {"none", "temp", "auth", "gone"}
      /\ out' \in Seq(Hostnames)
      /\ authtemp' \in Files
      /\ authfile' \in Files
      /\ upset' \subseteq Upsets
      /\ StreamBound'
  <2>1. CASE \E marks \in {{}, {"failed"}} : FlushStream(authtemp, marks)
    <3>1. PICK marks \in {{}, {"failed"}} : FlushStream(authtemp, marks)
      BY <2>1
    <3>2. marks \in SUBSET Upsets
      BY <3>1 DEF Upsets
    <3> QED
      BY <3>1, <3>2, FlushStreamType DEF TypeInv, TypeOK, StreamBound
  <2>2. CASE Fprintf
    <3>1. Len(out) \in Nat /\ Len(out) < auth_cur /\ auth_cur <= size[auth]
          /\ auth \in 1..2 /\ size[auth] \in Nat /\ auth_cur \in Nat /\ pc = "print"
      BY <2>2, LenProperties DEF Fprintf, Written, TypeInv, TypeOK, SlotBound, Running, Stopped
    <3>2. Len(out) \in 0..(size[auth] - 1)
      BY <3>1
    <3>3. buf[auth][Len(out)].hostname \in Hostnames
      BY <3>1, <3>2 DEF TypeInv, TypeOK, Entries
    <3>4. out' \in Seq(Hostnames)
      BY <2>2, <3>3, AppendProperties DEF Fprintf, TypeInv, TypeOK
    <3> QED
      BY <2>2, <3>4 DEF Fprintf, TypeInv, TypeOK, StreamBound, histVars
  <2>3. CASE /\ Open
             /\ authtemp' = <<>> /\ stream' = "temp" /\ out' = <<>> /\ pc' = "print"
             /\ UNCHANGED <<authfile, upset>>
    BY <2>3 DEF TypeInv, TypeOK, StreamBound, Files
  <2>4. CASE /\ pc = "rename" /\ authfile' = authtemp /\ authtemp' = Absent
             /\ UNCHANGED <<stream, out, upset>>
    BY <2>4 DEF TypeInv, TypeOK, StreamBound, Files
  <2> QED
    BY <2>1, <2>2, <2>3, <2>4 DEF Open, Close, Rename, Exit
<1>3. pc' \in Points \cup Stopped /\ pc' \notin AddPoints /\ pc' \notin {"update", "sort"}
  BY <1>1 DEF Points, AddPoints, WritePoints, Stopped
<1>4. TypeOK'
  BY <1>1, <1>2, <1>3 DEF TypeInv, TypeOK, timeVars, tableVars, Hostnames
<1>5. SlotBound'
  <2>1. Running /\ pc # "sort"
    BY <1>1 DEF WritePoints, Running, Stopped
  <2> QED
    BY <1>1, <1>3, <2>1 DEF TypeInv, SlotBound, tableVars
<1> QED
  BY <1>2, <1>4, <1>5 DEF TypeInv

\* The end of a process, and the steps that touch only main's place or the clock.
LEMMA OtherType ==
  TypeInv /\ (Overreach \/ Kill \/ Tick \/ RaiseSigalrm \/ UNCHANGED vars) => TypeInv'
<1> SUFFICES ASSUME TypeInv, Overreach \/ Kill \/ Tick \/ RaiseSigalrm \/ UNCHANGED vars
             PROVE  TypeInv'
  OBVIOUS
<1>1. CASE Overreach \/ Kill
  <2>1. /\ pc' \in {"corrupt", "down"} /\ stream' = "none" /\ out' = <<>> /\ upset' = upset
        /\ UNCHANGED <<timeVars, tableVars, frameVars, authtemp, authfile, lastLogin>>
    BY <1>1 DEF Overreach, Corrupt, Kill, histVars
  <2> QED
    BY <2>1, EmptySeq DEF TypeInv, TypeOK, SlotBound, StreamBound, Running, Stopped, Points,
       AddPoints, timeVars, tableVars, frameVars
<1>2. CASE Tick \/ RaiseSigalrm
  <2>1. now' \in Nat /\ alarm' \in 0..Flush
    <3>1. now \in Nat /\ alarm \in 0..Flush /\ Flush \in Nat
      BY ConstantsOK DEF TypeInv, TypeOK
    <3>2. now' \in {now, now + 1}
      BY <1>2 DEF Tick, RaiseSigalrm
    <3>3. alarm' = 0 \/ alarm' = alarm \/ (alarm > 0 /\ alarm' = alarm - 1)
      BY <1>2 DEF Tick, RaiseSigalrm
    <3> QED
      BY <3>1, <3>2, <3>3
  <2>2. UNCHANGED <<pc, tableVars, frameVars, fileVars, histVars>>
    BY <1>2 DEF Tick, RaiseSigalrm
  <2> QED
    BY <2>1, <2>2 DEF TypeInv, TypeOK, SlotBound, StreamBound, Running, tableVars, frameVars,
       fileVars, histVars
<1>3. CASE UNCHANGED vars
  BY <1>3 DEF vars, timeVars, tableVars, frameVars, fileVars, histVars, TypeInv, TypeOK,
     SlotBound, StreamBound, Running
<1> QED
  BY <1>1, <1>2, <1>3

\* A login comes while main naps.
LEMMA LoginType ==
  ASSUME NEW h \in Hosts, TypeInv, Login(h)
  PROVE  TypeInv'
<1>1. hostname' \in Hosts /\ pc = "nap" /\ pc' = "present"
      /\ UNCHANGED <<timeVars, tableVars, e, n, base, fileVars, histVars>>
  BY DEF Login
<1>2. TypeOK'
  BY <1>1 DEF TypeInv, TypeOK, timeVars, tableVars, fileVars, histVars, Points, AddPoints, Hostnames
<1> QED
  BY <1>1, <1>2 DEF TypeInv, SlotBound, StreamBound, Running, Stopped, tableVars, fileVars

\* Every step of main, of the handler and of the environment.
LEMMA TypeStep == TypeInv /\ [Next]_vars => TypeInv'
  BY StartType, LoginType, PresentType, UpdateType, ReallocType, SlotType, CountType, SwapType,
     WriteType, CleanType, OtherType DEF Next, Step

\* The inductive invariant holds in every reachable state.
THEOREM TypeInvariant == Spec => []TypeInv
<1> QED
  BY TypeInit, TypeStep, PTL DEF Spec

\* Every variable keeps its type, wherever SIGALRM strikes and whatever fails.
THEOREM TypeCorrect == Spec => []TypeOK
<1>1. TypeInv => TypeOK
  BY DEF TypeInv
<1> QED
  BY <1>1, TypeInvariant, PTL

-----------------------------------------------------------------------------
(* Memory safety.                                                          *)

\* As long as SIGALRM has not struck while they were being reallocated, both
\* arrays have auth_max slots except during a reallocation; the slot main is
\* filling, which it finds anew for each field, and the elements it sorts are
\* inside them.
SizeBound ==
  /\ pc \in {"grow", "grown", "regrow", "regrown"} => auth_cur + AuthGrow <= auth_max
  /\ pc = "grow" => \A b \in 1..2 : size[b] + AuthGrow = auth_max
  /\ pc \in {"grown", "regrow"} =>
       size[auth] = auth_max /\ size[shadow_auth] + AuthGrow = auth_max
  /\ pc \notin {"grow", "grown", "regrow"} => \A b \in 1..2 : size[b] = auth_max
  /\ pc \in {"fill", "stamp", "count"} => auth_cur < auth_max
  /\ pc \in {"count", "sort"} => n <= auth_max
  /\ auth_cur <= auth_max

SizeInv == "growth" \notin upset => pc # "corrupt" /\ (Running => SizeBound)

\* The handler only adds to what has gone wrong, at least what it does itself.
LEMMA CleanMarks ==
  ASSUME TypeInv, auth_clean
  PROVE  upset \subseteq upset' /\ Strike \subseteq upset'
<1>1. CASE Corrupt(Strike)
  BY <1>1 DEF Corrupt
<1>2. CASE \E m, pick : CleanKeeps(m, pick)
  <2>1. PICK lines : NestedWrite(lines)
    BY <1>2 DEF CleanKeeps
  <2> QED
    BY <2>1 DEF NestedWrite, Exit, FlushStream
<1> QED
  BY <1>1, <1>2, CleanCases

\* The handler, where main is not growing the arrays.
LEMMA CleanSizes == TypeInv /\ SizeInv /\ auth_clean => SizeInv'
<1> SUFFICES ASSUME TypeInv, SizeInv, auth_clean, "growth" \notin upset'
             PROVE  pc' # "corrupt" /\ (Running' => SizeBound')
  BY DEF SizeInv
<1>1. "growth" \notin upset /\ pc \notin Growing /\ Running /\ SizeBound
  <2>1. "growth" \notin upset /\ "growth" \notin Strike
    BY CleanMarks
  <2>2. pc \notin Growing
    BY <2>1, StrikeType
  <2> QED
    BY <2>1, <2>2, CleanCases DEF SizeInv
<1>2. /\ auth \in 1..2 /\ auth_cur \in Nat /\ auth_max \in Nat /\ AuthGrow \in Nat /\ n \in Nat
      /\ size \in [1..2 -> 1..auth_max]
      /\ shadow_auth \in 1..2
  BY ShadowType, ConstantsOK DEF TypeInv, TypeOK
<1>3. /\ pc \notin {"grown", "regrow", "regrown"}
      /\ auth_cur <= size[auth] /\ auth_cur <= size[shadow_auth]
  BY <1>1, <1>2 DEF SizeBound, Growing, Dangling
<1>4. \E m, pick : CleanKeeps(m, pick)
  BY <1>1, <1>2, <1>3, CleanCases DEF Growing
<1>5. PICK m, pick : CleanKeeps(m, pick)
  BY <1>4
<1>6. /\ m \in Nat /\ m <= auth_cur /\ auth_cur' = m /\ size' = size /\ auth_max' = auth_max
      /\ n' = n
      /\ pc' \in {pc, "exited"}
  <2>1. PICK lines : NestedWrite(lines)
    BY <1>5 DEF CleanKeeps
  <2>2. pc' \in {pc, "exited"}
    BY <2>1 DEF NestedWrite, Exit
  <2> QED
    BY <1>5, <2>2 DEF CleanKeeps, frameVars
<1>7. CASE pc' = "exited"
  BY <1>7 DEF Running, Stopped
<1>8. CASE pc' = pc
  BY <1>1, <1>2, <1>3, <1>6, <1>8 DEF SizeBound, Running, Stopped
<1> QED
  BY <1>6, <1>7, <1>8

\* Main and the environment.
LEMMA SizeStep == TypeInv /\ SizeInv /\ [Next]_vars => SizeInv'
<1> SUFFICES ASSUME TypeInv, SizeInv, [Next]_vars PROVE SizeInv'
  OBVIOUS
<1>0. /\ auth \in 1..2 /\ auth_cur \in Nat /\ auth_max \in Nat \ {0} /\ AuthGrow \in Nat \ {0}
      /\ n \in Nat /\ size \in [1..2 -> 1..auth_max]
      /\ shadow_auth \in 1..2 /\ shadow_auth # auth
      /\ base \in 0..2 /\ (pc = "sort" => base # 0)
  BY ShadowType, ConstantsOK DEF TypeInv, TypeOK
<1>1. CASE Start
  <2>1. /\ pc' = "open" /\ size' = [b \in 1..2 |-> AuthMax] /\ auth_max' = AuthMax /\ auth_cur' = 0
    BY <1>1 DEF Start, FirstPoint
  <2> QED
    BY <2>1, ConstantsOK DEF SizeInv, SizeBound
<1>2. CASE auth_clean
  BY <1>2, CleanSizes
<1>3. CASE \E h \in Hosts : Login(h)
  BY <1>3 DEF Login, SizeInv, SizeBound, tableVars, histVars, Running, Stopped, shadow_auth
<1>4. CASE Present \/ Update \/ Open \/ Fprintf \/ Close \/ Rename
  <2>1. /\ pc \in {"present", "update", "open", "print", "rename"}
        /\ pc' \in {"test", "update", "nap", "print", "rename", "exited"}
        /\ UNCHANGED <<size, auth_cur, auth_max>>
        /\ upset \subseteq upset'
    BY <1>4 DEF Present, Update, Open, Fprintf, Close, Rename, Exit, FlushStream, tableVars, histVars
  <2> QED
    BY <2>1 DEF SizeInv, SizeBound, Running, Stopped
<1>5. CASE Test
  <2>1. /\ pc = "test" /\ pc' = IF auth_cur = auth_max THEN "raise" ELSE "fill"
        /\ UNCHANGED <<size, auth_cur, auth_max, upset>>
    BY <1>5 DEF Test, Full, tableVars, histVars
  <2> QED
    BY <1>0, <2>1 DEF SizeInv, SizeBound, Running, Stopped
<1>6. CASE Raise
  <2>1. /\ pc = "raise" /\ pc' = "grow" /\ auth_max' = auth_max + AuthGrow
        /\ UNCHANGED <<size, auth_cur, upset>>
    BY <1>6 DEF Raise, histVars
  <2> QED
    BY <1>0, <2>1 DEF SizeInv, SizeBound, Running, Stopped
<1>7. CASE Realloc
  <2>1. /\ pc \in {"grow", "regrow"}
        /\ pc' = IF pc = "grow" THEN "grown" ELSE "regrown"
        /\ size' = [size EXCEPT ![IF pc = "grow" THEN auth ELSE shadow_auth] = auth_max]
        /\ UNCHANGED <<auth, auth_cur, auth_max, upset>>
        /\ shadow_auth' = shadow_auth
    BY <1>7 DEF Realloc, histVars, shadow_auth
  <2>2. \A b \in 1..2 : b = auth \/ b = shadow_auth
    BY <1>0 DEF shadow_auth
  <2> HIDE DEF shadow_auth
  <2> QED
    BY <1>0, <2>1, <2>2 DEF SizeInv, SizeBound, Running, Stopped
<1>8. CASE Assign
  <2>1. /\ pc \in {"grown", "regrown"}
        /\ pc' = IF pc = "grown" THEN "regrow" ELSE "fill"
        /\ UNCHANGED <<auth, size, auth_cur, auth_max, upset>>
        /\ shadow_auth' = shadow_auth
    BY <1>8 DEF Assign, Dangling, tableVars, histVars, shadow_auth
  <2> QED
    BY <1>0, <2>1 DEF SizeInv, SizeBound, Running, Stopped
<1>9. CASE Fill \/ Stamp
  <2>1. /\ \/ pc = "fill" /\ pc' = "stamp"
           \/ pc = "stamp" /\ pc' = "count" /\ n' = auth_cur + 1
        /\ UNCHANGED <<size, auth_cur, auth_max, upset>>
    BY <1>9 DEF Fill, Stamp, histVars
  <2> QED
    BY <1>0, <2>1 DEF SizeInv, SizeBound, Running, Stopped
<1>10. CASE Count
  <2>1. /\ pc = "count" /\ pc' = "sort" /\ auth_cur' \in {n, auth_cur + 1} /\ n' = auth_cur'
        /\ UNCHANGED <<size, auth_max, upset>>
    BY <1>10 DEF Count, histVars
  <2> QED
    BY <1>0, <2>1 DEF SizeInv, SizeBound, Running, Stopped
<1>11. CASE SortSwap \/ SortDone
  <2>1. /\ pc = "sort" /\ pc' \in {"sort", "open"} /\ (pc' = "sort" => n' = n)
        /\ UNCHANGED <<size, auth_cur, auth_max, upset>>
    BY <1>11 DEF SortSwap, SortDone, tableVars, frameVars, histVars
  <2> QED
    BY <1>0, <2>1 DEF SizeInv, SizeBound, Running, Stopped
<1>12. CASE Overreach
  <2>1. "growth" \in upset
    <3> SUFFICES ASSUME "growth" \notin upset PROVE FALSE
      OBVIOUS
    <3>1. SizeBound
      BY <1>12 DEF SizeInv, Overreach, Running, Stopped
    <3>2. CASE pc \in {"fill", "stamp"} /\ auth_cur >= size[auth]
      BY <1>0, <3>1, <3>2 DEF SizeBound
    <3>3. CASE pc = "sort" /\ n > size[base]
      <4>1. base \in 1..2
        BY <1>0, <3>3
      <4> QED
        BY <1>0, <3>1, <3>3, <4>1 DEF SizeBound
    <3> QED
      BY <1>12, <3>2, <3>3 DEF Overreach
  <2> QED
    BY <1>12, <2>1 DEF Overreach, Corrupt, SizeInv
<1>13. CASE Kill
  BY <1>13 DEF Kill, SizeInv, Running, Stopped
<1>14. CASE Tick \/ RaiseSigalrm \/ UNCHANGED vars
  <2>1. UNCHANGED <<pc, tableVars, frameVars, histVars>>
    BY <1>14 DEF Tick, RaiseSigalrm, vars
  <2> QED
    BY <2>1 DEF SizeInv, SizeBound, Running, tableVars, frameVars, histVars, shadow_auth
<1> QED
  BY <1>1, <1>2, <1>3, <1>4, <1>5, <1>6, <1>7, <1>8, <1>9, <1>10, <1>11, <1>12, <1>13,
     <1>14 DEF Next, Step

THEOREM SizeInvariant == Spec => []SizeInv
<1>1. Init => SizeInv
  BY DEF Init, SizeInv, Running, Stopped
<1> QED
  BY <1>1, SizeStep, TypeInvariant, PTL DEF Spec

\* auth.c leaves its arrays only if SIGALRM has struck while they were being
\* reallocated.  Anywhere else main's re-reading of auth_cur and auth is sloppy
\* about WHICH entry it fills in, but always fills in one that is allocated.
THEOREM NeverOutOfBounds == Spec => []MemorySafe
<1>1. SizeInv => MemorySafe
  BY DEF SizeInv, MemorySafe
<1> QED
  BY <1>1, SizeInvariant, PTL

-----------------------------------------------------------------------------
(* The relay file mirrors the table whenever main is back at its loop.     *)
(*                                                                         *)
(* The handler always leaves a mirror; main breaks it when it counts a new *)
(* entry, and comes back to the loop only through a rename that succeeds,  *)
(* hence of a temporary file no handler has taken away since the fopen.    *)

Mirror ==
  /\ pc \in {"nap"} \cup (AddPoints \ {"sort"}) => authfile = Listing(auth, auth_cur)
  /\ pc = "print" /\ stream = "temp" =>
       /\ authtemp = <<>>
       /\ Len(out) <= auth_cur
       /\ out = Listing(auth, Len(out))
  /\ pc = "print" /\ stream # "temp" => authtemp = Absent
  /\ pc = "rename" => authtemp \in {Absent, Listing(auth, auth_cur)}

MirrorInv == "cut" \notin upset => Mirror

\* A text written to an empty file is the file.
LEMMA OverlayEmpty ==
  ASSUME NEW text \in Seq(Hostnames)
  PROVE  Overlays(text, <<>>) = {text}
<1>1. text \o <<>> = text
  BY ConcatEmptySeq
<1> QED
  BY <1>1 DEF Overlays, Remnants

\* Where neither auth_cur nor the names that are counted change, nor does the listing.
LEMMA SameListing ==
  ASSUME TypeInv, auth' = auth, auth_cur' = auth_cur,
         \A i \in 0..(auth_cur - 1) : buf'[auth][i].hostname = buf[auth][i].hostname
  PROVE  Listing(auth, auth_cur)' = Listing(auth, auth_cur)
<1>1. \A k \in 1..auth_cur : k - 1 \in 0..(auth_cur - 1)
  BY DEF TypeInv, TypeOK
<1> QED
  BY <1>1 DEF Listing

\* The handler's part: it publishes what it keeps, and takes the temporary
\* file away from a main that is writing one.
LEMMA CleanMirrors == TypeInv /\ MirrorInv /\ auth_clean => MirrorInv'
<1> SUFFICES ASSUME TypeInv, MirrorInv, auth_clean, "cut" \notin upset' PROVE Mirror'
  BY DEF MirrorInv
<1>1. CASE pc' \in {"exited", "corrupt"}
  BY <1>1 DEF Mirror, AddPoints
<1>2. CASE pc' \notin {"exited", "corrupt"}
  <2>1. PICK m, pick : CleanKeeps(m, pick)
    BY <1>2, CleanCases DEF Corrupt
  <2>2. Kept(m, pick) = Listing(auth, auth_cur)'
    <3>1. auth_cur <= size[auth]
      BY <1>2, CleanCases DEF Corrupt
    <3> QED
      BY <2>1, <3>1, CleanText
  <2>3. PICK saved \in Flushed(Kept(m, pick)) :
          /\ authtemp' = Absent
          /\ authfile' = saved
          /\ stream' = CASE stream = "temp" -> "auth"
                         [] stream = "auth" -> "gone"
                         [] OTHER -> stream
          /\ upset' = upset \cup Strike \cup CutShort(saved, Kept(m, pick))
          /\ UNCHANGED <<pc, out>>
    BY <2>1, <1>2 DEF CleanKeeps, NestedWrite, Exit
  <2>4. authfile' = Listing(auth, auth_cur)'
    BY <2>2, <2>3 DEF CutShort
  <2>5. stream' # "temp"
    BY <2>3 DEF TypeInv, TypeOK
  <2> QED
    BY <2>3, <2>4, <2>5 DEF Mirror
<1> QED
  BY <1>1, <1>2

\* Main's statements that touch the table or the files.
LEMMA MirrorStep == TypeInv /\ MirrorInv /\ [Next]_vars => MirrorInv'
<1> SUFFICES ASSUME TypeInv, MirrorInv, [Next]_vars, "cut" \notin upset' PROVE Mirror'
  BY DEF MirrorInv
<1>0. /\ auth \in 1..2 /\ auth_cur \in Nat
      /\ size[auth] \in Nat /\ buf[auth] \in [0..(size[auth] - 1) -> Entries]
      /\ out \in Seq(Hostnames) /\ Len(out) \in Nat
      /\ stream # "none" => pc = "print"
  BY LenProperties DEF TypeInv, TypeOK, StreamBound
<1> USE DEF AddPoints
<1>1. CASE Start
  BY <1>1 DEF Start, FirstPoint, Mirror
<1>2. CASE auth_clean
  BY <1>2, CleanMirrors DEF MirrorInv
<1>3. CASE ~Start /\ ~auth_clean
  <2>1. Mirror
    BY <1>3 DEF MirrorInv, Next, Step, vars, histVars, Login, Present, Update, Test, Raise, Realloc,
       Assign, Fill, Stamp, Count, SortSwap, SortDone, Overreach, Corrupt, Open, Fprintf, Close,
       Rename, Exit, FlushStream, Tick, RaiseSigalrm, Kill
  <2>2. CASE \/ \E h \in Hosts : Login(h)
             \/ Present \/ Test \/ Raise \/ Assign \/ Tick \/ RaiseSigalrm \/ UNCHANGED vars
    <3>1. /\ \/ pc' = pc
             \/ pc \in {"nap"} \cup (AddPoints \ {"sort"}) /\ pc' \in AddPoints \ {"sort"}
             \/ pc \in AddPoints \ {"sort"} /\ pc' = "fill"
          /\ UNCHANGED <<buf, auth, auth_cur, stream, out, authtemp, authfile>>
      BY <2>2 DEF Login, Present, Test, Raise, Assign, Dangling, Tick, RaiseSigalrm, vars,
         tableVars, fileVars
    <3> QED
      BY <2>1, <3>1 DEF Mirror, Listing
  <2>3. CASE Update \/ Realloc \/ Fill \/ Stamp
    <3>1. /\ pc \in {"update", "grow", "regrow", "fill", "stamp"}
          /\ pc' \in {"nap", "grown", "regrown", "stamp", "count"}
          /\ auth' = auth /\ auth_cur' = auth_cur /\ authfile' = authfile
      BY <2>3 DEF Update, Realloc, Fill, Stamp, fileVars
    <3>2. auth_cur <= size[auth]
      BY <3>1 DEF TypeInv, SlotBound, Running, Stopped
    <3>3. 0..(auth_cur - 1) \subseteq 0..(size[auth] - 1)
      BY <1>0, <3>2, MoreSlots
    <3>4. \A i \in 0..(auth_cur - 1) : buf'[auth][i].hostname = buf[auth][i].hostname
      <4>1. CASE Update
        <5>1. /\ e \in (1..2) \X Nat /\ e[2] < size[e[1]]
              /\ buf' = [buf EXCEPT ![e[1]][e[2]].t = now]
          BY <4>1 DEF Update, Refreshed, TypeInv, TypeOK
        <5>2. e[1] \in 1..2 /\ e[2] \in 0..(size[e[1]] - 1)
          BY <5>1 DEF TypeInv, TypeOK
        <5>3. \A i \in 0..(size[auth] - 1) : buf'[auth][i].hostname = buf[auth][i].hostname
          BY <1>0, <5>1, <5>2 DEF Entries, TypeInv, TypeOK
        <5> QED
          BY <3>3, <5>3
      <4>2. CASE Realloc
        <5>1. PICK b \in 1..2 : buf' = Grown(b)
          BY <4>2, <1>0, ShadowType DEF Realloc
        <5>2. \A i \in 0..(size[auth] - 1) : buf'[auth][i] = buf[auth][i]
          BY <1>0, <5>1, GrownType DEF TypeInv
        <5> QED
          BY <3>3, <5>2
      <4>3. CASE Fill
        <5>1. \A i \in 0..(auth_cur - 1) : i # auth_cur
          BY <1>0
        <5>2. buf' = [buf EXCEPT ![auth][auth_cur].hostname = hostname]
          BY <4>3 DEF Fill
        <5> QED
          BY <1>0, <3>3, <5>1, <5>2 DEF TypeInv, TypeOK
      <4>4. CASE Stamp
        <5>1. \A i \in 0..(auth_cur - 1) : i # auth_cur
          BY <1>0
        <5>2. buf' = [buf EXCEPT ![auth][auth_cur].t = now]
          BY <4>4 DEF Stamp
        <5> QED
          BY <1>0, <3>3, <5>1, <5>2 DEF TypeInv, TypeOK
      <4> QED
        BY <2>3, <4>1, <4>2, <4>3, <4>4
    <3>5. Listing(auth, auth_cur)' = Listing(auth, auth_cur)
      BY <3>1, <3>4, SameListing
    <3> QED
      BY <2>1, <3>1, <3>5 DEF Mirror
  <2>4. CASE Count \/ SortSwap \/ SortDone \/ Overreach \/ Kill
    BY <2>4 DEF Count, SortSwap, SortDone, Overreach, Corrupt, Kill, Mirror
  <2>5. CASE Open
    <3>1. CASE pc' = "exited"
      BY <3>1 DEF Mirror
    <3>2. CASE pc' # "exited"
      <4>1. /\ authtemp' = <<>> /\ stream' = "temp" /\ out' = <<>> /\ pc' = "print"
            /\ auth_cur' = auth_cur
        BY <2>5, <3>2 DEF Open, Exit, tableVars
      <4>2. Len(out') = 0 /\ out' = Listing(auth, 0)'
        BY <4>1, EmptySeq DEF Listing
      <4> QED
        BY <1>0, <4>1, <4>2 DEF Mirror
    <3> QED
      BY <3>1, <3>2
  <2>6. CASE Fprintf
    <3>1. /\ pc = "print" /\ pc' = "print" /\ stream' = stream /\ authtemp' = authtemp
          /\ auth' = auth /\ auth_cur' = auth_cur /\ buf' = buf
          /\ Len(out) < auth_cur
          /\ out' = Append(out, buf[auth][Len(out)].hostname)
      BY <1>0, <2>6 DEF Fprintf, Written, tableVars
    <3>2. CASE stream = "temp"
      <4>1. out = Listing(auth, Len(out)) /\ authtemp = <<>>
        BY <2>1, <3>1, <3>2 DEF Mirror
      <4>2. buf[auth][Len(out)].hostname \in Hostnames
        <5>1. auth_cur <= size[auth]
          BY <3>1 DEF TypeInv, SlotBound, Running, Stopped
        <5>2. Len(out) \in 0..(size[auth] - 1)
          BY <1>0, <3>1, <5>1
        <5> QED
          BY <1>0, <5>2 DEF Entries
      <4>3. /\ Len(out') = Len(out) + 1
            /\ \A k \in 1..Len(out) : out'[k] = out[k]
            /\ out'[Len(out) + 1] = buf[auth][Len(out)].hostname
            /\ out' \in Seq(Hostnames)
        BY <1>0, <3>1, <4>2, AppendProperties
      <4>4. \A k \in 1..Len(out') : out'[k] = buf[auth][k - 1].hostname
        <5>1. \A k \in 1..Len(out) : out[k] = buf[auth][k - 1].hostname
          BY <4>1 DEF Listing
        <5>2. \A k \in 1..(Len(out) + 1) : k \in 1..Len(out) \/ k = Len(out) + 1
          BY <1>0
        <5>3. (Len(out) + 1) - 1 = Len(out)
          BY <1>0
        <5> QED
          BY <4>3, <5>1, <5>2, <5>3
      <4>5. out' = [k \in 1..Len(out') |-> out'[k]]
        BY <4>3, LenProperties
      <4>6. out' = Listing(auth, Len(out))'
        BY <3>1, <4>4, <4>5 DEF Listing
      <4> QED
        BY <1>0, <3>1, <3>2, <4>1, <4>3, <4>6 DEF Mirror
    <3>3. CASE stream # "temp"
      BY <2>1, <3>1, <3>3 DEF Mirror
    <3> QED
      BY <3>2, <3>3
  <2>7. CASE Close
    <3>1. PICK text \in Flushed(out) :
            /\ authtemp' \in IF stream = "temp" THEN Overlays(text, authtemp) ELSE {authtemp}
            /\ upset' = upset \cup {} \cup CutShort(text, out)
      BY <2>7 DEF Close, FlushStream
    <3>2. text = out
      BY <3>1 DEF CutShort
    <3>3. /\ pc = "print" /\ pc' = "rename" /\ Len(out) >= auth_cur
          /\ auth' = auth /\ auth_cur' = auth_cur /\ buf' = buf
      BY <2>7 DEF Close, Written, tableVars
    <3>4. CASE stream = "temp"
      <4>1. authtemp' = out /\ out = Listing(auth, auth_cur)
        BY <1>0, <2>1, <3>1, <3>2, <3>3, <3>4, OverlayEmpty DEF Mirror
      <4> QED
        BY <3>3, <4>1 DEF Mirror, Listing
    <3>5. CASE stream # "temp"
      BY <2>1, <3>1, <3>3, <3>5 DEF Mirror
    <3> QED
      BY <3>4, <3>5
  <2>8. CASE Rename
    BY <2>1, <2>8 DEF Rename, Exit, Mirror, Listing, tableVars
  <2> QED
    BY <1>3, <2>2, <2>3, <2>4, <2>5, <2>6, <2>7, <2>8 DEF Next, Step
<1> QED
  BY <1>1, <1>2, <1>3

THEOREM MirrorInvariant == Spec => []MirrorInv
<1>1. Init => MirrorInv
  BY DEF Init, MirrorInv, Mirror, AddPoints
<1> QED
  BY <1>1, MirrorStep, TypeInvariant, PTL DEF Spec

\* If no write is cut short, the relay file lists the table whenever main is
\* back at its loop, wherever SIGALRM may strike: what an ill-timed SIGALRM
\* can do is to kill the process, never to let it go on with a wrong file.
THEOREM RelayMirrors == Spec => []RelayMirrorsTable
<1>1. MirrorInv => RelayMirrorsTable
  BY DEF MirrorInv, Mirror, RelayMirrorsTable
<1> QED
  BY <1>1, MirrorInvariant, PTL
=============================================================================
