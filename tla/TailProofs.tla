------------------------------ MODULE TailProofs ------------------------------
(***************************************************************************)
(* Proofs about Tail: whatever becomes of the log, no line is matched      *)
(* twice or late; and from a well-treated log none is missed, and the      *)
(* daemon does not end over it.                                            *)
(***************************************************************************)
EXTENDS Tail, FiniteSetTheorems, TLAPS

Next == Exact \/ World

-----------------------------------------------------------------------------
(* Arithmetic and sequences.                                               *)

\* A quotient is no greater than the dividend.
LEMMA Quotient ==
  ASSUME NEW a \in Nat, NEW n \in Nat, n # 0
  PROVE  a \div n \in Nat /\ a \div n <= a
<1> DEFINE q == a \div n
           r == a % n
<1>1. q \in Int /\ r \in 0..(n - 1)
  OBVIOUS
<1>2. a = n * q + r
  OBVIOUS
<1> HIDE DEF q, r
<1>3. q >= 0
  <2>1. SUFFICES ASSUME q <= -1 PROVE FALSE
    BY <1>1
  <2>2. n * q <= n * (-1)
    BY <2>1, <1>1
  <2> QED
    BY <1>1, <1>2, <2>2
<1>4. n * q >= q
  BY <1>1, <1>3
<1>5. q <= a
  BY <1>1, <1>2, <1>3, <1>4
<1> QED
  BY <1>1, <1>3, <1>5 DEF q

\* linecount counts.
LEMMA LinesCount ==
  ASSUME NEW S, NEW b \in Seq(S)
  PROVE  linecount(b) \in Nat /\ (linecount(b) = 0 <=> \A k \in DOMAIN b : b[k] # NL)
<1> DEFINE hits == {k \in DOMAIN b : b[k] = NL}
<1>1. IsFiniteSet(1..Len(b))
  BY FS_Interval
<1>2. IsFiniteSet(hits)
  BY <1>1, FS_Subset
<1>3. Cardinality(hits) \in Nat /\ (Cardinality(hits) = 0 <=> hits = {})
  BY <1>2, FS_CardinalityType, FS_EmptySet
<1> QED
  BY <1>3 DEF linecount

\* What a concatenation consists of.
LEMMA Concatenated ==
  ASSUME NEW S, NEW q \in Seq(S), NEW r \in Seq(S)
  PROVE  /\ Len(q \o r) = Len(q) + Len(r)
         /\ DOMAIN (q \o r) = 1..(Len(q) + Len(r))
         /\ \A j \in 1..Len(q) : (q \o r)[j] = q[j]
         /\ \A j \in 1..Len(r) : (q \o r)[Len(q) + j] = r[j]
  OBVIOUS

\* The nap stays within its bounds.
LEMMA NapLength ==
  ASSUME NEW n \in Nat, paws \in 1..PAWS_MAX
  PROVE  Paws(n) \in 1..PAWS_MAX
<1>1. PAWS_MAX \in Nat \ {0}
  BY TailConstantsOK
<1>2. CASE n = 0
  BY <1>1, <1>2 DEF Paws, Least
<1>3. CASE n # 0
  <2>1. paws \div n \in Nat /\ paws \div n <= paws
    BY <1>3, Quotient
  <2> QED
    BY <2>1, <1>1, <1>3 DEF Paws
<1> QED
  BY <1>2, <1>3

-----------------------------------------------------------------------------
(* Types, and which files hold something.                                  *)

\* The configured name leads to the newest file, syslogd writes none that is
\* newer, and what is newer than syslogd's is empty.  exact has a file open unless
\* it naps.
Shape ==
  /\ TypeOK
  /\ maillog \in {Missing, files}
  /\ maillog = Missing => files < MaxFiles
  /\ writer <= files
  /\ f <= files
  /\ f = NULL => pc = "nap"
  /\ \A d \in Files : d > files \/ (writer # Missing /\ d > writer) => disk[d] = <<>>

LEMMA ShapeInit == Init => Shape
<1> SUFFICES ASSUME Init PROVE Shape
  OBVIOUS
<1> USE TailConstantsOK DEF Init, TypeOK, Files, Texts, NL, NULL, Missing
<1>1. [j \in 1..(2 * Backlog) |-> IF j % 2 = 0 THEN NL ELSE (j + 1) \div 2] \in Seq(Texts \cup {NL})
  <2>1. \A j \in 1..(2 * Backlog) : j % 2 # 0 => (j + 1) \div 2 \in 1..Backlog
    OBVIOUS
  <2> QED
    BY <2>1
<1>2. <<>> \in Seq(Texts \cup {NL})
  OBVIOUS
<1>3. disk \in [Files -> Seq(Texts \cup {NL})]
  <2> HIDE DEF Texts, Files, NL
  <2> QED
    BY <1>1, <1>2
<1>4. delivered \in Seq(Texts) /\ buff \in Seq(Texts \cup {NL})
  OBVIOUS
<1>5. \A d \in Files : d > files => disk[d] = <<>>
  OBVIOUS
<1>6. PAWS_MAX \in 1..PAWS_MAX /\ 1 \in Files /\ Backlog \in 0..MaxLines /\ 0 \in 0..(Suspicious + 1)
  OBVIOUS
<1>7. TypeOK
  <2> HIDE DEF Texts, Files
  <2> QED
    BY <1>3, <1>4, <1>6
<1> QED
  <2> HIDE DEF TypeOK
  <2> QED
    BY <1>5, <1>7 DEF Shape


\* What a write does to the disk.
LEMMA Written ==
  ASSUME Shape, NEW pieces \in Seq(Texts \cup {NL}), Write(pieces)
  PROVE  /\ writer \in Files
         /\ disk' \in [Files -> Seq(Texts \cup {NL})]
         /\ disk'[writer] = disk[writer] \o pieces
         /\ \A d \in Files : d # writer => disk'[d] = disk[d]
         /\ UNCHANGED <<maillog, writer, files, tailVars, delivered>>
<1> USE DEF Shape, TypeOK, Write, Missing
<1>1. writer \in Files
  OBVIOUS
<1>2. disk[writer] \o pieces \in Seq(Texts \cup {NL})
  BY <1>1
<1> QED
  BY <1>1, <1>2

LEMMA LogStep ==
  ASSUME Shape, Log
  PROVE  /\ lines' = lines + 1 /\ lines' \in Texts
         /\ \E pieces \in {<<lines', NL>>, <<lines'>>} : pieces \in Seq(Texts \cup {NL}) /\ Write(pieces)
<1>1. lines' = lines + 1 /\ lines' \in Texts
  BY TailConstantsOK DEF Log, Shape, TypeOK, Texts
<1>2. <<lines', NL>> \in Seq(Texts \cup {NL}) /\ <<lines'>> \in Seq(Texts \cup {NL})
  BY <1>1
<1> QED
  BY <1>1, <1>2 DEF Log

\* The steps of exact keep the types.
LEMMA ExactShape == Shape /\ Exact => Shape'
<1> SUFFICES ASSUME Shape, Exact PROVE Shape'
  OBVIOUS
<1> USE TailConstantsOK DEF Shape, TypeOK
<1>1. CASE Retry
  BY <1>1 DEF Retry, tail_reopen, Resume, nap, Least, logVars, Files, Missing, NULL
<1>2. CASE Nap
  BY <1>2 DEF Nap, nap, Least, logVars, NULL
<1>3. CASE Measure
  BY <1>3 DEF Measure, Grown, Suspect, logVars, Files, NULL
<1>4. CASE Reopen
  BY <1>4 DEF Reopen, tail_reopen, Resume, logVars, Files, NULL, Missing
<1>5. CASE Read
  <2>1. f \in Files /\ bufflen \in Nat
    BY <1>5 DEF Read, NULL, Unreadable
  <2>2. SubSeq(disk[f], pos + 1, pos + bufflen) \in Seq(Texts \cup {NL})
    BY <2>1, <1>5 DEF Read, Unreadable
  <2>3. Paws(linecount(buff')) \in 1..PAWS_MAX
    BY <2>2, <1>5, LinesCount, NapLength DEF Read
  <2> QED
    BY <1>5, <2>1, <2>2, <2>3 DEF Read, logVars
<1>6. CASE Line
  <2>1. PICK k \in DOMAIN buff :
          /\ buff[k] = NL
          /\ \A j \in 1..(k - 1) : buff[j] # NL
          /\ delivered' = delivered \o SubSeq(buff, 1, k - 1)
          /\ buff' = SubSeq(buff, k + 1, Len(buff))
    BY <1>6 DEF Line
  <2>2. SubSeq(buff, 1, k - 1) \in Seq(Texts) /\ buff' \in Seq(Texts \cup {NL})
    BY <2>1
  <2>3. delivered' \in Seq(Texts)
    BY <2>1, <2>2
  <2> QED
    BY <1>6, <2>2, <2>3 DEF Line, logVars
<1>7. CASE PassOver
  BY <1>7 DEF PassOver, logVars
<1>8. CASE GiveUp
  BY <1>8 DEF GiveUp, logVars
<1> QED
  BY <1>1, <1>2, <1>3, <1>4, <1>5, <1>6, <1>7, <1>8 DEF Exact

\* What becomes of the log keeps them too.
LEMMA WorldShape == Shape /\ World => Shape'
<1> SUFFICES ASSUME Shape, World PROVE Shape'
  OBVIOUS
<1>1. CASE Log \/ EndLine
  <2>1. lines' \in 0..MaxLines
    BY <1>1, LogStep DEF EndLine, Texts, Shape, TypeOK
  <2>2. PICK pieces \in Seq(Texts \cup {NL}) : Write(pieces)
    <3>1. <<NL>> \in Seq(Texts \cup {NL})
      OBVIOUS
    <3> QED
      BY <1>1, <3>1, LogStep DEF EndLine
  <2>3. /\ writer \in Files
        /\ disk' \in [Files -> Seq(Texts \cup {NL})]
        /\ \A d \in Files : d # writer => disk'[d] = disk[d]
        /\ UNCHANGED <<maillog, writer, files, tailVars, delivered>>
    BY <2>2, Written
  <2>4. \A d \in Files : d > files' \/ (writer' # Missing /\ d > writer') => disk'[d] = <<>>
    BY <2>3, TailConstantsOK DEF Shape, TypeOK, Files
  <2> QED
    BY <2>1, <2>3, <2>4 DEF Shape, TypeOK, tailVars
<1> USE TailConstantsOK DEF Shape, TypeOK
<1>2. CASE Rotate
  <2>1. /\ files < MaxFiles
        /\ files' \in {files, files + 1}
        /\ maillog' \in {Missing, files'}
        /\ files' = files + 1 \/ maillog' = Missing
        /\ maillog' = Missing => files' < MaxFiles
        /\ writer' \in {writer, maillog'}
        /\ UNCHANGED <<disk, lines, tailVars, delivered>>
    BY <1>2 DEF Rotate, Missing, Files
  <2> QED
    BY <2>1 DEF tailVars, Files, Missing
<1>3. CASE Create
  <2>1. /\ files < MaxFiles
        /\ files' = files + 1
        /\ maillog' = files'
        /\ writer' \in {writer, maillog'}
        /\ UNCHANGED <<disk, lines, tailVars, delivered>>
    BY <1>3 DEF Create
  <2> QED
    BY <2>1 DEF tailVars, Files, Missing
<1>4. CASE Hup
  BY <1>4 DEF Hup, tailVars, Files, Missing
<1>5. CASE Truncate
  BY <1>5 DEF Truncate, tailVars, Files, Missing
<1> QED
  BY <1>1, <1>2, <1>3, <1>4, <1>5 DEF World

LEMMA ShapeStep == Shape /\ [Next]_vars => Shape'
<1>1. Shape /\ UNCHANGED vars => Shape'
  BY DEF Shape, TypeOK, vars, logVars, tailVars
<1> QED
  BY <1>1, ExactShape, WorldShape DEF Next

LEMMA ShapeAlways == Spec => []Shape
  BY ShapeInit, ShapeStep, PTL DEF Spec, Next

\* The variables of the log follower keep their types, the nap its bounds.
THEOREM TypeCorrect == Spec => []TypeOK
<1>1. Shape => TypeOK
  BY DEF Shape
<1> QED
  BY <1>1, ShapeAlways, PTL

-----------------------------------------------------------------------------
(* No line twice or late.                                                  *)

\* Lines of one sequence of pieces come in order.
Rising(q) == \A j, k \in DOMAIN q : j < k /\ q[j] # NL /\ q[k] # NL => q[j] < q[k]

\* Line x comes after everything that exact has delivered or is about to.
Behind(x) ==
  /\ \A m \in DOMAIN delivered : delivered[m] < x
  /\ \A j \in DOMAIN buff : buff[j] < x

\* The pieces of the log that exact may still come to read: if the file it has open
\* is now shorter than its offset, all of that file.
MayRead(d, k) ==
  /\ d \in Files /\ k \in DOMAIN disk[d] /\ disk[d][k] # NL
  /\ \/ f # NULL /\ d > f
     \/ f # NULL /\ d = f /\ (k > pos \/ Len(disk[f]) < pos)
     \/ f = NULL /\ d = maillog

\* The log's files hold the lines in order, within each of them and from one to
\* the next.
LogOrdered ==
  /\ \A d \in Files : Rising(disk[d])
  /\ \A d, e \in Files : \A j \in DOMAIN disk[d], k \in DOMAIN disk[e] :
       d < e /\ disk[d][j] # NL /\ disk[e][k] # NL => disk[d][j] < disk[e][k]
  /\ \A d \in Files : \A k \in DOMAIN disk[d] : disk[d][k] <= lines

OrderInv ==
  /\ LogOrdered
  /\ Rising(buff)
  /\ \A m \in DOMAIN delivered, j \in DOMAIN buff : buff[j] # NL => delivered[m] < buff[j]
  /\ InOrderOnce
  /\ \A d \in Files : \A k \in DOMAIN disk[d] : MayRead(d, k) => Behind(disk[d][k])
  /\ Behind(lines + 1)

LEMMA OrderInit == Init => OrderInv
<1> SUFFICES ASSUME Init PROVE OrderInv
  OBVIOUS
<1>1. /\ DOMAIN disk[1] = 1..(2 * Backlog)
      /\ Len(disk[1]) = 2 * Backlog
      /\ \A j \in 1..(2 * Backlog) : disk[1][j] = IF j % 2 = 0 THEN NL ELSE (j + 1) \div 2
      /\ \A d \in Files : d # 1 => DOMAIN disk[d] = {}
  BY TailConstantsOK DEF Init, Files
<1>2. \A j, k \in 1..(2 * Backlog) :
        /\ j % 2 # 0 /\ k % 2 # 0 /\ j < k => (j + 1) \div 2 < (k + 1) \div 2
        /\ j % 2 # 0 => (j + 1) \div 2 <= Backlog
  BY TailConstantsOK
<1>3. LogOrdered
  <2>1. \A d \in Files : DOMAIN disk[d] # {} => d = 1
    BY <1>1
  <2>2. \A d \in Files : Rising(disk[d])
    BY <2>1, <1>1, <1>2 DEF Rising, NL
  <2>3. \A d \in Files : \A k \in DOMAIN disk[d] : disk[d][k] <= lines
    BY <2>1, <1>1, <1>2, TailConstantsOK DEF Init, NL
  <2>4. \A d, e \in Files : d < e => DOMAIN disk[d] = {} \/ DOMAIN disk[e] = {}
    BY <2>1
  <2> QED
    BY <2>2, <2>3, <2>4 DEF LogOrdered
<1>4. \A d \in Files : \A k \in DOMAIN disk[d] : ~MayRead(d, k)
  BY <1>1, TailConstantsOK DEF MayRead, Init, NULL, Files
<1>5. DOMAIN buff = {} /\ DOMAIN delivered = {}
  BY DEF Init
<1> QED
  BY <1>3, <1>4, <1>5 DEF OrderInv, Behind, Rising, InOrderOnce

\* A step that neither reads nor writes, and brings nothing into reach that was out
\* of it, changes nothing in the order.
LEMMA Narrower ==
  ASSUME OrderInv, UNCHANGED <<disk, lines, buff, delivered>>,
         \A d \in Files : \A k \in DOMAIN disk[d] : MayRead(d, k)' => MayRead(d, k)
  PROVE  OrderInv'
  BY DEF OrderInv, LogOrdered, Rising, InOrderOnce, Behind

\* The name is looked up only to find a file that was ahead, or the open one at
\* the offset in it.
LEMMA ReopenOrder ==
  ASSUME Shape, OrderInv, Retry \/ Reopen
  PROVE  OrderInv'
<1> SUFFICES ASSUME NEW d \in Files, NEW k \in DOMAIN disk[d], MayRead(d, k)'
             PROVE  MayRead(d, k)
  BY Narrower DEF Retry, Reopen, logVars
<1>1. disk' = disk /\ f' = maillog /\ maillog' = maillog /\ pos \in Nat
  BY DEF Retry, Reopen, tail_reopen, logVars, Shape, TypeOK
<1>2. d = maillog /\ maillog \in Files
  <2>1. maillog # Missing
    BY <1>1 DEF MayRead, NULL, Missing, Files
  <2>2. maillog = files /\ (d > files => disk[d] = <<>>)
    BY <2>1 DEF Shape
  <2>3. maillog \in Files /\ d \in Int
    BY <2>1 DEF Shape, TypeOK, Files
  <2> QED
    BY <2>1, <2>2, <2>3, <1>1 DEF MayRead, NULL, Files
<1>3. CASE Retry
  BY <1>1, <1>2, <1>3 DEF Retry, MayRead, NULL, Files
<1>4. CASE Reopen
  <2>1. f \in Files /\ f <= maillog /\ f # NULL
    BY <1>2, <1>4 DEF Reopen, Shape, TypeOK, NULL, Files, Missing
  <2>2. CASE f = maillog
    <3>1. pos' = IF Len(disk[f]) < pos THEN 0 ELSE pos
      <4>1. maillog # Missing
        BY <1>2 DEF Missing, Files
      <4> QED
        BY <1>4, <2>2, <4>1 DEF Reopen, tail_reopen, Resume
    <3>2. Len(disk[f]) \in Nat
      BY <2>1 DEF Shape, TypeOK
    <3> QED
      BY <3>1, <3>2, <1>1, <1>2, <2>1, <2>2 DEF MayRead, NULL
  <2>3. CASE f < maillog
    BY <1>1, <1>2, <2>1, <2>3 DEF MayRead
  <2> QED
    BY <2>1, <2>2, <2>3, <1>2 DEF Files
<1> QED
  BY <1>3, <1>4

\* What is read is ahead, and leaves behind it what may still be read.
LEMMA ReadOrder ==
  ASSUME Shape, OrderInv, Read
  PROVE  OrderInv'
<1> DEFINE file == disk[f]
<1>1. f \in Files /\ f # NULL /\ file \in Seq(Texts \cup {NL}) /\ pos \in Nat /\ bufflen \in Nat
      /\ pos + bufflen <= Len(file)
  BY DEF Read, Unreadable, Shape, TypeOK, NULL
<1>2. /\ UNCHANGED <<disk, lines, delivered, f, maillog>>
      /\ pos' = pos + bufflen
      /\ DOMAIN buff' = 1..bufflen
      /\ \A j \in 1..bufflen : buff'[j] = file[j + pos] /\ j + pos \in DOMAIN file
  BY <1>1 DEF Read, logVars
<1>3. \A j \in 1..bufflen : buff'[j] # NL => MayRead(f, j + pos)
  BY <1>1, <1>2 DEF MayRead
<1>4. Rising(file) /\ \A j \in DOMAIN file : file[j] <= lines
  BY <1>1 DEF OrderInv, LogOrdered
<1>5. LogOrdered'
  BY <1>2 DEF OrderInv, LogOrdered, Rising
<1>6. Rising(buff')
  <2> SUFFICES ASSUME NEW j \in 1..bufflen, NEW k \in 1..bufflen,
                      j < k, buff'[j] # NL, buff'[k] # NL
               PROVE  buff'[j] < buff'[k]
    BY <1>2 DEF Rising
  <2>1. j + pos < k + pos
    BY <1>1
  <2> QED
    BY <2>1, <1>2, <1>4 DEF Rising
<1>7. \A m \in DOMAIN delivered, j \in 1..bufflen : buff'[j] # NL => delivered[m] < buff'[j]
  BY <1>1, <1>2, <1>3 DEF OrderInv, Behind
<1>8. ASSUME NEW d \in Files, NEW k \in DOMAIN disk[d], MayRead(d, k)'
      PROVE  Behind(disk[d][k])'
  <2>1. MayRead(d, k) /\ (d > f \/ (d = f /\ k > pos + bufflen))
    <3>1. d > f \/ (d = f /\ k > pos + bufflen)
      <4>1. f' = f /\ f' # NULL /\ ~(Len(disk'[f']) < pos')
        BY <1>1, <1>2
      <4>2. d > f' \/ (d = f' /\ k > pos')
        BY <1>8, <4>1 DEF MayRead
      <4> QED
        BY <1>2, <4>1, <4>2
    <3>2. d = f => k \in Nat
      BY <1>1
    <3> QED
      BY <3>1, <3>2, <1>1, <1>2, <1>8 DEF MayRead
  <2>2. Behind(disk[d][k]) /\ disk[d][k] \in Texts
    BY <2>1 DEF OrderInv, MayRead, Shape, TypeOK
  <2>3. \A j \in 1..bufflen : buff'[j] # NL => buff'[j] < disk[d][k]
    <3>1. CASE d > f
      BY <3>1, <1>1, <1>2, <2>1 DEF OrderInv, LogOrdered, MayRead, Files
    <3>2. CASE d = f /\ k > pos + bufflen
      <4>1. \A j \in 1..bufflen : j + pos < k
        BY <3>2, <1>1
      <4> QED
        BY <3>2, <4>1, <1>2, <1>4, <2>1 DEF Rising, MayRead
    <3> QED
      BY <2>1, <3>1, <3>2
  <2>4. \A j \in 1..bufflen : buff'[j] = NL => buff'[j] < disk[d][k]
    BY <2>2, TailConstantsOK DEF NL, Texts
  <2> QED
    BY <1>2, <2>2, <2>3, <2>4 DEF Behind
<1>9. Behind(lines + 1)'
  <2>1. \A j \in 1..bufflen : file[j + pos] < lines + 1
    <3>1. \A j \in 1..bufflen : file[j + pos] \in Nat /\ file[j + pos] <= lines /\ lines \in Nat
      BY <1>1, <1>2, <1>4, TailConstantsOK DEF Shape, TypeOK, Texts, NL
    <3> QED
      BY <3>1
  <2> QED
    BY <1>2, <2>1 DEF OrderInv, Behind
<1> QED
  BY <1>2, <1>5, <1>6, <1>7, <1>8, <1>9 DEF OrderInv, InOrderOnce

\* A line that is delivered comes after those before it and before the rest.
LEMMA LineOrder ==
  ASSUME Shape, OrderInv, Line
  PROVE  OrderInv'
<1>1. PICK k \in DOMAIN buff :
        /\ buff[k] = NL
        /\ \A j \in 1..(k - 1) : buff[j] # NL
        /\ delivered' = delivered \o SubSeq(buff, 1, k - 1)
        /\ buff' = SubSeq(buff, k + 1, Len(buff))
  BY DEF Line
<1>2. buff \in Seq(Texts \cup {NL}) /\ delivered \in Seq(Texts) /\ k \in 1..Len(buff)
  BY <1>1 DEF Shape, TypeOK
<1>3. SubSeq(buff, 1, k - 1) \in Seq(Texts)
  <2>1. \A j \in 1..(k - 1) : buff[j] \in Texts
    <3>1. TAKE j \in 1..(k - 1)
    <3>2. j \in 1..Len(buff)
      BY <1>2
    <3>3. buff[j] \in Texts \cup {NL}
      BY <1>2, <3>2
    <3> QED
      BY <1>1, <3>1, <3>3
  <2> QED
    BY <2>1, <1>2
<1> DEFINE n == Len(delivered)
<1>4. /\ n \in Nat
      /\ DOMAIN delivered = 1..n
      /\ DOMAIN delivered' = 1..(n + k - 1)
      /\ \A m \in 1..n : delivered'[m] = delivered[m]
      /\ \A m \in (n + 1)..(n + k - 1) : /\ delivered'[m] = buff[m - n]
                                         /\ m - n \in DOMAIN buff /\ m - n < k
                                         /\ buff[m - n] # NL
  BY <1>1, <1>2, <1>3
<1>5. /\ DOMAIN buff' = 1..(Len(buff) - k)
      /\ \A j \in DOMAIN buff' : buff'[j] = buff[j + k] /\ j + k \in DOMAIN buff
  <2> DEFINE b == Len(buff)
  <2>1. b \in Nat /\ k \in 1..b /\ buff' = SubSeq(buff, k + 1, b) /\ DOMAIN buff = 1..b
    BY <1>1, <1>2
  <2>2. DOMAIN buff' = 1..(b - k) /\ \A j \in 1..(b - k) : buff'[j] = buff[j + k]
    BY <2>1, <1>2
  <2> QED
    BY <2>1, <2>2
<1> HIDE DEF n
<1>6. UNCHANGED <<disk, lines, f, pos, maillog>>
  BY DEF Line, logVars
<1>7. Rising(buff) /\ (\A m \in 1..n, j \in DOMAIN buff : buff[j] # NL => delivered[m] < buff[j])
  BY <1>4 DEF OrderInv
<1>8. InOrderOnce'
  <2> SUFFICES ASSUME NEW a \in DOMAIN delivered', NEW b \in DOMAIN delivered', a < b
               PROVE  delivered'[a] < delivered'[b]
    BY DEF InOrderOnce
  <2>1. CASE b <= n
    BY <2>1, <1>4 DEF OrderInv, InOrderOnce
  <2>2. CASE a <= n /\ b > n
    BY <2>2, <1>4, <1>7
  <2>3. CASE a > n
    BY <2>3, <1>2, <1>4, <1>7 DEF Rising
  <2> QED
    BY <2>1, <2>2, <2>3, <1>2, <1>4
<1>9. Rising(buff')
  <2> SUFFICES ASSUME NEW a \in DOMAIN buff', NEW b \in DOMAIN buff',
                      a < b, buff'[a] # NL, buff'[b] # NL
               PROVE  buff'[a] < buff'[b]
    BY DEF Rising
  <2>1. a + k < b + k
    BY <1>2, <1>5
  <2> QED
    BY <2>1, <1>5, <1>7 DEF Rising
<1>10. ASSUME NEW m \in DOMAIN delivered', NEW j \in DOMAIN buff', buff'[j] # NL
       PROVE  delivered'[m] < buff'[j]
  <2>1. CASE m <= n
    BY <2>1, <1>4, <1>5, <1>7, <1>10
  <2>2. CASE m > n
    <3>1. m - n < j + k
      BY <2>2, <1>2, <1>4, <1>5
    <3> QED
      BY <2>2, <3>1, <1>4, <1>5, <1>7, <1>10 DEF Rising
  <2> QED
    BY <2>1, <2>2, <1>4
<1>11. \A x : Behind(x) => Behind(x)'
  <2> SUFFICES ASSUME NEW x, Behind(x) PROVE Behind(x)'
    OBVIOUS
  <2>1. \A m \in DOMAIN delivered' : delivered'[m] < x
    <3>1. \A m \in DOMAIN delivered' : m \in 1..n \/ m \in (n + 1)..(n + k - 1)
      BY <1>2, <1>4
    <3> QED
      BY <3>1, <1>4 DEF Behind
  <2> QED
    BY <2>1, <1>5 DEF Behind
<1> QED
  BY <1>6, <1>8, <1>9, <1>10, <1>11 DEF OrderInv, LogOrdered, Rising, MayRead

\* What is written comes last.
LEMMA WriteOrder ==
  ASSUME Shape, OrderInv, Log \/ EndLine
  PROVE  OrderInv'
<1>1. PICK pieces \in Seq(Texts \cup {NL}) :
        /\ Write(pieces)
        /\ \/ pieces = <<lines', NL>> /\ lines' = lines + 1
           \/ pieces = <<lines'>> /\ lines' = lines + 1
           \/ pieces = <<NL>> /\ lines' = lines
  <2>1. <<NL>> \in Seq(Texts \cup {NL})
    OBVIOUS
  <2> QED
    BY <2>1, LogStep DEF EndLine
<1> DEFINE w == writer
           n == Len(disk[w])
<1>2. /\ w \in Files
      /\ disk' \in [Files -> Seq(Texts \cup {NL})]
      /\ disk'[w] = disk[w] \o pieces
      /\ \A d \in Files : d # w => disk'[d] = disk[d]
      /\ UNCHANGED <<maillog, f, pos, buff, delivered>>
  BY <1>1, Written DEF tailVars
<1>3. disk[w] \in Seq(Texts \cup {NL}) /\ n \in Nat /\ lines \in Nat /\ DOMAIN disk[w] = 1..n
  BY <1>2 DEF Shape, TypeOK
<1>4. lines' \in {lines, lines + 1}
  BY <1>1
<1>5. /\ Len(pieces) \in {1, 2}
      /\ \A k \in 1..Len(pieces) :
           pieces[k] = NL \/ (pieces[k] = lines' /\ lines' = lines + 1 /\ k = 1)
  BY <1>1
<1>6. /\ Len(disk'[w]) = n + Len(pieces) /\ DOMAIN disk'[w] = 1..(n + Len(pieces))
      /\ \A k \in 1..n : disk'[w][k] = disk[w][k]
      /\ \A k \in DOMAIN disk'[w] : k > n => disk'[w][k] = pieces[k - n]
  BY <1>1, <1>2, <1>3
<1>7. /\ DOMAIN disk'[w] = 1..(n + Len(pieces))
      /\ \A k \in 1..n : disk'[w][k] = disk[w][k]
      /\ \A k \in DOMAIN disk'[w] : k > n =>
           disk'[w][k] = NL \/ (disk'[w][k] = lines' /\ lines' = lines + 1 /\ k = n + 1)
  <2> SUFFICES ASSUME NEW k \in DOMAIN disk'[w], k > n
               PROVE  disk'[w][k] = NL \/ (disk'[w][k] = lines' /\ lines' = lines + 1 /\ k = n + 1)
    BY <1>6
  <2> HIDE DEF n
  <2>1. k \in 1..(n + Len(pieces)) /\ disk'[w][k] = pieces[k - n]
    BY <1>6
  <2>2. k - n \in 1..Len(pieces)
    BY <2>1, <1>3, <1>5
  <2> QED
    BY <2>1, <2>2, <1>3, <1>5
<1> HIDE DEF w, n
<1>8. \A d \in Files : \A k \in DOMAIN disk'[d] :
        \/ k \in DOMAIN disk[d] /\ disk'[d][k] = disk[d][k]
        \/ /\ d = w /\ k > n
           /\ disk'[d][k] = NL \/ (disk'[d][k] = lines + 1 /\ lines' = lines + 1 /\ k = n + 1)
  <2> SUFFICES ASSUME NEW k \in DOMAIN disk'[w]
               PROVE  \/ k \in 1..n /\ disk'[w][k] = disk[w][k]
                      \/ /\ k > n
                         /\ \/ disk'[w][k] = NL
                            \/ disk'[w][k] = lines + 1 /\ lines' = lines + 1 /\ k = n + 1
    BY <1>2, <1>3
  <2>1. k \in Nat /\ k >= 1
    BY <1>3, <1>7, <1>5
  <2> QED
    BY <2>1, <1>3, <1>7
<1>9. \A d \in Files : \A k \in DOMAIN disk[d] : disk[d][k] <= lines
  BY DEF OrderInv, LogOrdered
<1>10. \A d \in Files : \A k \in DOMAIN disk'[d] : disk'[d][k] <= lines'
  <2> SUFFICES ASSUME NEW d \in Files, NEW k \in DOMAIN disk'[d] PROVE disk'[d][k] <= lines'
    OBVIOUS
  <2>1. CASE k \in DOMAIN disk[d] /\ disk'[d][k] = disk[d][k]
    <3>1. disk[d][k] \in Int /\ disk[d][k] <= lines
      BY <2>1, <1>9, TailConstantsOK DEF Shape, TypeOK, Texts, NL
    <3> QED
      BY <2>1, <3>1, <1>3, <1>4
  <2>2. CASE disk'[d][k] = NL \/ (disk'[d][k] = lines + 1 /\ lines' = lines + 1)
    BY <2>2, <1>3, <1>4 DEF NL
  <2> QED
    BY <2>1, <2>2, <1>8
<1>11. ASSUME NEW d \in Files PROVE Rising(disk'[d])
  <2>1. CASE d # w
    BY <2>1, <1>2 DEF OrderInv, LogOrdered
  <2>2. CASE d = w
    <3> SUFFICES ASSUME NEW j \in DOMAIN disk'[w], NEW k \in DOMAIN disk'[w],
                        j < k, disk'[w][j] # NL, disk'[w][k] # NL
                 PROVE  disk'[w][j] < disk'[w][k]
      BY <2>2 DEF Rising
    <3>1. CASE k <= n
      BY <3>1, <1>2, <1>3, <1>7 DEF OrderInv, LogOrdered, Rising
    <3>2. CASE k > n
      <4>1. disk'[w][k] = lines + 1 /\ k = n + 1
        BY <3>2, <1>7
      <4>2. j \in 1..n
        BY <4>1, <1>3, <1>7
      <4>3. disk[w][j] <= lines /\ disk[w][j] \in Int
        BY <4>2, <1>2, <1>3, <1>9, TailConstantsOK DEF Texts, NL
      <4> QED
        BY <4>1, <4>2, <4>3, <1>3, <1>7
    <3> QED
      BY <3>1, <3>2, <1>3, <1>7
  <2> QED
    BY <2>1, <2>2
<1>12. ASSUME NEW d \in Files, NEW e \in Files, d < e,
              NEW j \in DOMAIN disk'[d], NEW k \in DOMAIN disk'[e],
              disk'[d][j] # NL, disk'[e][k] # NL
       PROVE  disk'[d][j] < disk'[e][k]
  <2>1. d # w
    <3>1. SUFFICES ASSUME d = w PROVE FALSE
      OBVIOUS
    <3>2. disk[e] = <<>> /\ e # w
      BY <3>1, <1>2, <1>12, TailConstantsOK DEF Shape, w, Missing, Files
    <3> QED
      BY <3>2, <1>8, <1>12
  <2>2. disk'[d] = disk[d]
    BY <2>1, <1>2
  <2>3. CASE k \in DOMAIN disk[e] /\ disk'[e][k] = disk[e][k]
    BY <2>2, <2>3, <1>12 DEF OrderInv, LogOrdered
  <2>4. CASE disk'[e][k] = lines + 1
    <3>1. disk[d][j] <= lines /\ disk[d][j] \in Int
      BY <2>2, <1>9, <1>12, TailConstantsOK DEF Shape, TypeOK, Texts, NL
    <3> QED
      BY <3>1, <2>2, <2>4, <1>3
  <2> QED
    BY <2>3, <2>4, <1>8, <1>12
<1>13. LogOrdered'
  BY <1>10, <1>11, <1>12 DEF LogOrdered
<1>14. \A x : Behind(x)' <=> Behind(x)
  BY <1>2 DEF Behind
<1>15. ASSUME NEW d \in Files, NEW k \in DOMAIN disk'[d], MayRead(d, k)'
       PROVE  Behind(disk'[d][k])
  <2>1. CASE k \in DOMAIN disk[d] /\ disk'[d][k] = disk[d][k]
    <3>1. Len(disk'[d]) >= Len(disk[d]) /\ Len(disk'[d]) \in Int /\ Len(disk[d]) \in Int
      <4>1. CASE d = w
        BY <4>1, <1>3, <1>5, <1>6 DEF n
      <4>2. CASE d # w
        BY <4>2, <1>2 DEF Shape, TypeOK
      <4> QED
        BY <4>1, <4>2
    <3>2. MayRead(d, k)
      BY <2>1, <3>1, <1>2, <1>15 DEF MayRead, Shape, TypeOK
    <3> QED
      BY <2>1, <3>2 DEF OrderInv
  <2>2. CASE disk'[d][k] = lines + 1
    BY <2>2 DEF OrderInv
  <2> QED
    BY <2>1, <2>2, <1>8, <1>15 DEF MayRead
<1>16. Behind(lines' + 1)
  <2>1. Behind(lines + 1)
    BY DEF OrderInv
  <2>2. /\ \A m \in DOMAIN delivered : delivered[m] \in Int
        /\ \A j \in DOMAIN buff : buff[j] \in Int
    BY TailConstantsOK DEF Shape, TypeOK, Texts, NL
  <2> QED
    BY <2>1, <2>2, <1>3, <1>4 DEF Behind
<1> QED
  BY <1>2, <1>13, <1>14, <1>15, <1>16 DEF OrderInv, InOrderOnce, Rising

\* Emptying a file in place takes pieces away.
LEMMA TruncateOrder ==
  ASSUME Shape, OrderInv, Truncate
  PROVE  OrderInv'
<1>1. /\ \A d \in Files : disk'[d] \in {disk[d], <<>>}
      /\ UNCHANGED <<maillog, lines, f, pos, buff, delivered>>
  BY DEF Truncate, tailVars, Shape, TypeOK
<1>2. \A d \in Files : DOMAIN disk'[d] # {} => disk'[d] = disk[d]
  BY <1>1
<1>3. LogOrdered'
  BY <1>1, <1>2 DEF OrderInv, LogOrdered, Rising
<1>4. \A x : Behind(x)' <=> Behind(x)
  BY <1>1 DEF Behind
<1>5. ASSUME NEW d \in Files, NEW k \in DOMAIN disk'[d], MayRead(d, k)'
      PROVE  Behind(disk'[d][k])
  <2>1. disk'[d] = disk[d]
    BY <1>2
  <2>2. MayRead(d, k)
    BY <2>1, <1>1, <1>5 DEF MayRead
  <2> QED
    BY <2>1, <2>2 DEF OrderInv
<1> QED
  BY <1>1, <1>3, <1>4, <1>5 DEF OrderInv, InOrderOnce, Rising

LEMMA OrderStep == Shape /\ OrderInv /\ [Next]_vars => OrderInv'
<1> SUFFICES ASSUME Shape, OrderInv, [Next]_vars PROVE OrderInv'
  OBVIOUS
<1>1. CASE Nap \/ Measure \/ GiveUp \/ UNCHANGED vars
  <2>1. UNCHANGED <<disk, lines, buff, delivered, f, pos, maillog>>
    BY <1>1 DEF Nap, Measure, GiveUp, vars, logVars, tailVars
  <2>2. \A d \in Files : \A k \in DOMAIN disk[d] : MayRead(d, k)' => MayRead(d, k)
    BY <2>1 DEF MayRead
  <2> QED
    BY <2>1, <2>2, Narrower
<1>2. CASE PassOver
  <2>1. UNCHANGED <<disk, lines, delivered, f, pos, maillog>> /\ DOMAIN buff' = {}
    BY <1>2 DEF PassOver, logVars
  <2> QED
    BY <2>1 DEF OrderInv, LogOrdered, Rising, InOrderOnce, Behind, MayRead
<1>3. CASE Rotate \/ Create \/ Hup
  <2>1. UNCHANGED <<disk, lines, buff, delivered, f, pos>>
    BY <1>3 DEF Rotate, Create, Hup, tailVars
  <2>2. maillog' \in {maillog, Missing} \/ (maillog' \in Files => disk[maillog'] = <<>>)
    BY <1>3 DEF Rotate, Create, Hup, Shape, TypeOK, Files
  <2>3. \A d \in Files : \A k \in DOMAIN disk[d] : MayRead(d, k)' => MayRead(d, k)
    BY <2>1, <2>2 DEF MayRead, Missing, Files
  <2> QED
    BY <2>1, <2>3, Narrower
<1> QED
  BY <1>1, <1>2, <1>3, ReopenOrder, ReadOrder, LineOrder, WriteOrder, TruncateOrder
  DEF Next, Exact, World

LEMMA OrderAlways == Spec => []OrderInv
<1>1. Spec => [][Next]_vars
  BY PTL DEF Spec, Next
<1> QED
  BY <1>1, OrderInit, OrderStep, ShapeAlways, PTL DEF Spec

\* Whatever happens to the log - torn lines, late daemons, rotations at any moment,
\* truncation - match_line is given no line twice and none after a later one.
THEOREM NeverTwice == Spec => []InOrderOnce
<1>1. OrderInv => InOrderOnce
  BY DEF OrderInv
<1> QED
  BY <1>1, OrderAlways, PTL

-----------------------------------------------------------------------------
(* Of a well-treated log no line is missed.                                *)

\* q is the lines after line a up to line b, each with its newline.
Holds(q, a, b) ==
  /\ a \in Nat /\ b \in Nat /\ a <= b
  /\ Len(q) = 2 * (b - a)
  /\ \A k \in 1..(b - a) : q[2 * k - 1] = a + k /\ q[2 * k] = NL

\* exact has read up to line a; the file it has open begins after line o and ends
\* with line b; what was logged since is in the file under the name.
Follows(a, b, o) ==
  /\ Holds(buff, Backlog + Len(delivered), a)
  /\ a <= b
  /\ f # NULL => Holds(disk[f], o, b) /\ o <= a /\ pos = 2 * (a - o)
  /\ f = NULL => a = b
  /\ maillog \in {f, Missing} => b = lines
  /\ maillog \notin {f, Missing} => Holds(disk[maillog], b, lines)

\* A rotation that exact has yet to follow left a file that is shorter than its
\* offset will be, and is closed by exact only when it is read to its end.
KeptInv ==
  /\ writer = maillog
  /\ pc # "exited"
  /\ pc # "lines" => buff = <<>>
  /\ pc = "read" => \E m \in Nat : bufflen = 2 * m /\ pos + bufflen <= Len(disk[f])
  /\ pc = "reopen" /\ f # maillog => pos = Len(disk[f])
  /\ f # NULL /\ maillog \notin {f, Missing} =>
       disk[f] = <<>> \/ Len(disk[maillog]) < Len(disk[f])
  /\ \E a, b, o \in Nat : Follows(a, b, o)
  /\ NothingSkipped

\* An empty sequence holds no line.
LEMMA HoldsNothing == \A a \in Nat : Holds(<<>>, a, a)
  BY DEF Holds

\* Another line is appended.
LEMMA HoldsMore ==
  ASSUME NEW S, NEW q \in Seq(S), NEW a, NEW b, Holds(q, a, b), b + 1 \in S, NL \in S
  PROVE  Holds(q \o <<b + 1, NL>>, a, b + 1)
<1> DEFINE r == q \o <<b + 1, NL>>
           n == 2 * (b - a)
<1>1. a \in Nat /\ b \in Nat /\ a <= b /\ Len(q) = n
      /\ \A k \in 1..(b - a) : q[2 * k - 1] = a + k /\ q[2 * k] = NL
  BY DEF Holds
<1>2. Len(r) = n + 2 /\ r[n + 1] = b + 1 /\ r[n + 2] = NL /\ \A j \in 1..n : r[j] = q[j]
  BY <1>1
<1>3. ASSUME NEW k \in 1..(b + 1 - a) PROVE r[2 * k - 1] = a + k /\ r[2 * k] = NL
  <2>1. CASE k <= b - a
    <3>1. 2 * k - 1 \in 1..n /\ 2 * k \in 1..n /\ k \in 1..(b - a)
      BY <2>1, <1>1
    <3> QED
      BY <3>1, <1>1, <1>2
  <2>2. CASE k = b + 1 - a
    <3>1. 2 * k - 1 = n + 1 /\ 2 * k = n + 2 /\ a + k = b + 1
      BY <2>2, <1>1
    <3> QED
      BY <3>1, <1>2
  <2> QED
    BY <2>1, <2>2, <1>1
<1> QED
  BY <1>1, <1>2, <1>3 DEF Holds

\* From the end of line a on, m lines are read.
LEMMA HoldsPart ==
  ASSUME NEW S, NEW q \in Seq(S), NEW o, NEW a, NEW b, NEW m \in Nat,
         Holds(q, o, b), a \in Nat, o <= a, a + m <= b
  PROVE  Holds(SubSeq(q, 2 * (a - o) + 1, 2 * (a - o) + 2 * m), a, a + m)
<1> DEFINE p == 2 * (a - o)
           r == SubSeq(q, p + 1, p + 2 * m)
<1>1. o \in Nat /\ b \in Nat /\ o <= b /\ Len(q) = 2 * (b - o) /\ p \in Nat /\ p + 2 * m <= Len(q)
      /\ \A k \in 1..(b - o) : q[2 * k - 1] = o + k /\ q[2 * k] = NL
  BY DEF Holds
<1> HIDE DEF p
<1>2. Len(r) = 2 * m /\ \A j \in 1..(2 * m) : r[j] = q[p + j]
  BY <1>1
<1>3. ASSUME NEW k \in 1..m PROVE r[2 * k - 1] = a + k /\ r[2 * k] = NL
  <2>1. /\ (a - o) + k \in 1..(b - o)
        /\ p + (2 * k - 1) = 2 * ((a - o) + k) - 1
        /\ p + 2 * k = 2 * ((a - o) + k)
        /\ 2 * k - 1 \in 1..(2 * m) /\ 2 * k \in 1..(2 * m)
        /\ o + ((a - o) + k) = a + k
    BY <1>1 DEF p
  <2> HIDE DEF r
  <2> QED
    BY <2>1, <1>1, <1>2
<1> QED
  BY <1>2, <1>3 DEF Holds, p

\* The last piece is a newline.
LEMMA HoldsEnd ==
  ASSUME NEW S, NEW q \in Seq(S), NEW a, NEW b, Holds(q, a, b), q # <<>>
  PROVE  Last(q) = NL
<1>1. Len(q) = 2 * (b - a) /\ Len(q) \in Nat /\ Len(q) # 0 /\ a \in Nat /\ b \in Nat
  BY DEF Holds
<1>2. b - a \in 1..(b - a) /\ 2 * (b - a) = Len(q)
  BY <1>1
<1>3. q[Len(q)] = NL
  BY <1>2 DEF Holds
<1> QED
  BY <1>3 DEF Last

\* The first newline ends the first line, and the others remain.
LEMMA HoldsFirst ==
  ASSUME NEW S, NEW q \in Seq(S), NEW a, NEW b, Holds(q, a, b),
         NEW k \in DOMAIN q, q[k] = NL, \A j \in 1..(k - 1) : q[j] # NL
  PROVE  /\ SubSeq(q, 1, k - 1) \in Seq(S)
         /\ Len(SubSeq(q, 1, k - 1)) = 1
         /\ SubSeq(q, 1, k - 1)[1] = a + 1
         /\ Holds(SubSeq(q, k + 1, Len(q)), a + 1, b)
<1>1. a \in Nat /\ b \in Nat /\ a <= b /\ Len(q) = 2 * (b - a) /\ k \in 1..(2 * (b - a))
      /\ \A j \in 1..(b - a) : q[2 * j - 1] = a + j /\ q[2 * j] = NL
  BY DEF Holds
<1>2. q[1] = a + 1 /\ q[2] = NL /\ 1 <= b - a
  <2>1. 1 \in 1..(b - a) /\ 2 * 1 - 1 = 1 /\ 2 * 1 = 2
    BY <1>1
  <2> QED
    BY <2>1, <1>1
<1>3. k = 2
  <2>1. k # 1
    BY <1>1, <1>2 DEF NL
  <2>2. ~(2 \in 1..(k - 1))
    BY <1>2
  <2> QED
    BY <2>1, <2>2, <1>1
<1>4. /\ SubSeq(q, 1, k - 1) \in Seq(S)
      /\ Len(SubSeq(q, 1, k - 1)) = 1
      /\ SubSeq(q, 1, k - 1)[1] = a + 1
  BY <1>1, <1>2, <1>3
<1> DEFINE c == a + 1
           m == b - c
<1>5. c \in Nat /\ m \in Nat /\ a <= c /\ c + m = b /\ c + m <= b
  BY <1>1, <1>2
<1>6. k + 1 = 2 * (c - a) + 1 /\ Len(q) = 2 * (c - a) + 2 * m
  BY <1>1, <1>3
<1> HIDE DEF c, m
<1>7. Holds(SubSeq(q, 2 * (c - a) + 1, 2 * (c - a) + 2 * m), c, c + m)
  BY <1>5, HoldsPart
<1>8. Holds(SubSeq(q, k + 1, Len(q)), c, b)
  BY <1>5, <1>6, <1>7
<1> QED
  BY <1>4, <1>8 DEF c

LEMMA HoldsNone ==
  ASSUME NEW q, NEW a, NEW b, Holds(q, a, b), \A k \in 1..Len(q) : q[k] # NL
  PROVE  a = b
<1>1. a \in Nat /\ b \in Nat /\ a <= b /\ Len(q) = 2 * (b - a)
  BY DEF Holds
<1>2. SUFFICES ASSUME a < b PROVE FALSE
  BY <1>1
<1>3. 1 \in 1..(b - a) /\ 2 * 1 \in 1..Len(q)
  BY <1>1, <1>2
<1> QED
  BY <1>3 DEF Holds

LEMMA KeptInit == Init => KeptInv
<1> SUFFICES ASSUME Init PROVE KeptInv
  OBVIOUS
<1>1. Backlog \in Nat /\ 1 \in Files
  BY TailConstantsOK DEF Files
<1>2. /\ Len(disk[1]) = 2 * Backlog
      /\ \A j \in 1..(2 * Backlog) : disk[1][j] = IF j % 2 = 0 THEN NL ELSE (j + 1) \div 2
  BY <1>1 DEF Init
<1>3. \A k \in 1..Backlog : disk[1][2 * k - 1] = k /\ disk[1][2 * k] = NL
  <2> SUFFICES ASSUME NEW k \in 1..Backlog
               PROVE  disk[1][2 * k - 1] = k /\ disk[1][2 * k] = NL
    OBVIOUS
  <2>1. /\ 2 * k - 1 \in 1..(2 * Backlog) /\ (2 * k - 1) % 2 # 0 /\ (2 * k - 1 + 1) \div 2 = k
        /\ 2 * k \in 1..(2 * Backlog) /\ (2 * k) % 2 = 0
    BY <1>1
  <2> QED
    BY <2>1, <1>2
<1>4. Holds(disk[1], 0, Backlog)
  BY <1>1, <1>2, <1>3 DEF Holds
<1>5. Follows(Backlog, Backlog, 0)
  BY <1>1, <1>4, HoldsNothing DEF Follows, Init, NULL, Missing
<1> QED
  BY <1>1, <1>5 DEF KeptInv, Init, NothingSkipped, NULL

\* The file under the name is opened, and followed from where the last one was left.
LEMMA ReopenKept ==
  ASSUME Shape, KeptInv, Retry \/ Reopen
  PROVE  KeptInv'
<1>1. PICK a, b, o \in Nat : Follows(a, b, o)
  BY DEF KeptInv
<1>2. /\ UNCHANGED <<disk, maillog, writer, lines, bufflen, buff, delivered>>
      /\ f' = maillog /\ pc' = "nap" /\ pc # "lines"
  BY DEF Retry, Reopen, tail_reopen, logVars
<1>3. lines \in Nat /\ pos \in Nat
  BY TailConstantsOK DEF Shape, TypeOK
<1>4. CASE maillog = f /\ f # NULL
  <2>1. Reopen /\ f \in Files
    BY <1>4 DEF Retry, Shape, TypeOK
  <2>2. Len(disk[f]) = 2 * (b - o) /\ pos = 2 * (a - o) /\ a <= b
    BY <1>1, <1>4 DEF Follows, Holds
  <2>3. pos' = pos /\ f' = f
    BY <2>1, <2>2, <1>2, <1>4 DEF Reopen, tail_reopen, Resume, NULL, Missing
  <2>4. Follows(a, b, o)'
    BY <2>3, <1>1, <1>2, <1>4 DEF Follows
  <2> QED
    BY <2>3, <2>4, <1>2, <1>4 DEF KeptInv, NothingSkipped
<1>5. CASE maillog # f \/ f = NULL
  <2>1. a = b
    <3>1. CASE f = NULL
      BY <3>1, <1>1 DEF Follows
    <3>2. CASE f # NULL
      <4>1. pc = "reopen" /\ f # maillog
        BY <3>2, <1>5 DEF Retry, Reopen
      <4>2. pos = Len(disk[f]) /\ Len(disk[f]) = 2 * (b - o) /\ pos = 2 * (a - o)
        BY <3>2, <4>1, <1>1 DEF KeptInv, Follows, Holds
      <4> QED
        BY <4>2
    <3> QED
      BY <3>1, <3>2
  <2>2. CASE maillog = Missing
    <3>1. b = lines
      BY <2>2, <1>1 DEF Follows
    <3>2. Follows(a, b, o)'
      BY <2>1, <2>2, <3>1, <1>1, <1>2 DEF Follows, NULL, Missing
    <3> QED
      BY <2>2, <3>2, <1>2 DEF KeptInv, NothingSkipped, NULL, Missing
  <2>3. CASE maillog # Missing
    <3>1. maillog \in Files /\ Holds(disk[maillog], b, lines)
      <4>1. maillog # f
        BY <2>3, <1>5 DEF NULL, Missing
      <4> QED
        BY <2>3, <4>1, <1>1 DEF Follows, Shape, TypeOK
    <3>2. pos' = 0
      <4>1. CASE f = NULL
        BY <4>1, <2>3, <3>1 DEF Retry, Reopen, tail_reopen, Resume, Shape
      <4>2. CASE f # NULL
        <5>1. Reopen /\ pc = "reopen" /\ pos = Len(disk[f]) /\ f \in Files /\ maillog \notin {f, Missing}
          BY <4>2, <2>3, <1>5 DEF Retry, Reopen, KeptInv, Shape, TypeOK
        <5>2. disk[f] = <<>> \/ Len(disk[maillog]) < Len(disk[f])
          BY <4>2, <5>1 DEF KeptInv
        <5>3. Len(disk[maillog]) < pos \/ pos = 0
          BY <5>1, <5>2
        <5> QED
          BY <5>1, <5>3 DEF Reopen, tail_reopen, Resume
      <4> QED
        BY <4>1, <4>2
    <3>3. Follows(a, lines, b)'
      <4>1. b <= lines /\ f' # NULL
        BY <2>3, <3>1, <1>2 DEF Holds, NULL, Missing
      <4> QED
        BY <2>1, <2>3, <3>1, <3>2, <4>1, <1>1, <1>2, <1>3 DEF Follows
    <3> QED
      BY <2>3, <3>3, <1>2, <1>3 DEF KeptInv, NothingSkipped
  <2> QED
    BY <2>2, <2>3
<1> QED
  BY <1>4, <1>5

\* Whole lines are measured, and a file is suspected only at its end.
LEMMA MeasureKept ==
  ASSUME Shape, KeptInv, Measure
  PROVE  KeptInv'
<1>1. PICK a, b, o \in Nat : Follows(a, b, o)
  BY DEF KeptInv
<1>2. /\ UNCHANGED <<disk, maillog, writer, lines, f, pos, buff, delivered>>
      /\ pc = "measure" /\ f # NULL
      /\ bufflen' = Len(disk[f]) - pos
      /\ pc' = IF Suspect(idle') THEN "reopen" ELSE "read"
      /\ idle' = IF Grown(Len(disk[f])) THEN 0 ELSE idle
  BY DEF Measure, logVars, Shape
<1>3. Len(disk[f]) = 2 * (b - o) /\ pos = 2 * (a - o) /\ a <= b
  BY <1>1, <1>2 DEF Follows, Holds
<1>4. b - a \in Nat /\ bufflen' = 2 * (b - a) /\ pos' + bufflen' <= Len(disk'[f'])
  BY <1>2, <1>3
<1>5. pc' = "reopen" => pos' = Len(disk'[f'])
  <2>1. pc' = "reopen" => ~Grown(Len(disk[f]))
    BY <1>2, TailConstantsOK DEF Suspect
  <2> QED
    BY <2>1, <1>2, <1>3 DEF Grown
<1>6. Follows(a, b, o)'
  BY <1>1, <1>2 DEF Follows
<1>7. pc' \in {"reopen", "read"}
  BY <1>2
<1> QED
  BY <1>2, <1>4, <1>5, <1>6, <1>7 DEF KeptInv, NothingSkipped

\* Whole lines are read, those after line a.
LEMMA ReadKept ==
  ASSUME Shape, KeptInv, Read
  PROVE  KeptInv'
<1>1. PICK a, b, o \in Nat : Follows(a, b, o)
  BY DEF KeptInv
<1>2. PICK m \in Nat : bufflen = 2 * m /\ pos + bufflen <= Len(disk[f])
  BY DEF KeptInv, Read
<1>3. /\ UNCHANGED <<disk, maillog, writer, lines, f, delivered>>
      /\ f # NULL /\ f \in Files
      /\ buff' = SubSeq(disk[f], pos + 1, pos + bufflen)
      /\ pos' = pos + bufflen
      /\ pc' = "lines"
      /\ buff = <<>>
  BY DEF Read, logVars, Shape, TypeOK, NULL, KeptInv
<1>4. Holds(disk[f], o, b) /\ o <= a /\ pos = 2 * (a - o) /\ Holds(<<>>, Backlog + Len(delivered), a)
  BY <1>1, <1>3 DEF Follows
<1>5. Backlog + Len(delivered) = a
  BY <1>4, HoldsNone
<1>6. a + m <= b
  BY <1>2, <1>4 DEF Holds
<1>7. Holds(SubSeq(disk[f], 2 * (a - o) + 1, 2 * (a - o) + 2 * m), a, a + m)
  <2>1. disk[f] \in Seq(Texts \cup {NL})
    BY <1>3 DEF Shape, TypeOK
  <2> QED
    BY <2>1, <1>4, <1>6, HoldsPart
<1>8. Holds(buff', a, a + m)
  BY <1>2, <1>3, <1>4, <1>7
<1>9. pos' = 2 * ((a + m) - o) /\ o <= a + m /\ a + m \in Nat
  BY <1>2, <1>3, <1>4
<1>10. Follows(a + m, b, o)'
  BY <1>1, <1>3, <1>5, <1>6, <1>8, <1>9 DEF Follows
<1> QED
  BY <1>3, <1>9, <1>10 DEF KeptInv, NothingSkipped

\* The line that is delivered is the next one.
LEMMA LineKept ==
  ASSUME Shape, KeptInv, Line
  PROVE  KeptInv'
<1>1. PICK a, b, o \in Nat : Follows(a, b, o)
  BY DEF KeptInv
<1>2. PICK k \in DOMAIN buff :
        /\ buff[k] = NL
        /\ \A j \in 1..(k - 1) : buff[j] # NL
        /\ delivered' = delivered \o SubSeq(buff, 1, k - 1)
        /\ buff' = SubSeq(buff, k + 1, Len(buff))
  BY DEF Line
<1>3. UNCHANGED <<disk, maillog, writer, lines, pc, f, pos, bufflen>> /\ pc = "lines"
  BY DEF Line, logVars
<1> DEFINE n == Len(delivered)
           next == SubSeq(buff, 1, k - 1)
<1>4. delivered \in Seq(Texts) /\ n \in Nat /\ buff \in Seq(Texts \cup {NL})
  BY DEF Shape, TypeOK
<1>5. /\ next \in Seq(Texts \cup {NL})
      /\ Len(next) = 1
      /\ next[1] = Backlog + n + 1
      /\ Holds(buff', Backlog + n + 1, a)
  <2>1. Holds(buff, Backlog + n, a)
    BY <1>1 DEF Follows
  <2> HIDE DEF n, next
  <2>2. /\ SubSeq(buff, 1, k - 1) \in Seq(Texts \cup {NL})
        /\ Len(SubSeq(buff, 1, k - 1)) = 1
        /\ SubSeq(buff, 1, k - 1)[1] = Backlog + n + 1
        /\ Holds(SubSeq(buff, k + 1, Len(buff)), Backlog + n + 1, a)
    BY <2>1, <1>2, <1>4, HoldsFirst, Zenon
  <2> QED
    BY <2>2, <1>2 DEF next
<1> HIDE DEF next
<1>6. /\ Len(delivered') = n + 1
      /\ DOMAIN delivered' = 1..(n + 1)
      /\ \A j \in 1..n : delivered'[j] = delivered[j]
      /\ delivered'[n + 1] = Backlog + n + 1
  <2>1. delivered' = delivered \o next
    BY <1>2 DEF next
  <2>2. delivered \in Seq(Texts \cup {NL})
    BY <1>4
  <2>3. /\ Len(delivered') = Len(delivered) + Len(next)
        /\ DOMAIN delivered' = 1..(Len(delivered) + Len(next))
        /\ \A j \in 1..Len(delivered) : delivered'[j] = delivered[j]
        /\ \A j \in 1..Len(next) : delivered'[Len(delivered) + j] = next[j]
    <3> DEFINE both == delivered \o next
    <3>1. /\ Len(both) = Len(delivered) + Len(next)
          /\ DOMAIN both = 1..(Len(delivered) + Len(next))
          /\ \A j \in 1..Len(delivered) : both[j] = delivered[j]
          /\ \A j \in 1..Len(next) : both[Len(delivered) + j] = next[j]
      <4>1. next \in Seq(Texts \cup {NL})
        BY <1>5
      <4>2. Len(both) = Len(delivered) + Len(next)
        BY <2>2, <4>1, Concatenated
      <4>3. DOMAIN both = 1..(Len(delivered) + Len(next))
        BY <2>2, <4>1, Concatenated
      <4>4. \A j \in 1..Len(delivered) : both[j] = delivered[j]
        BY <2>2, <4>1, Concatenated
      <4>5. \A j \in 1..Len(next) : both[Len(delivered) + j] = next[j]
        BY <2>2, <4>1, Concatenated
      <4> QED
        BY <4>2, <4>3, <4>4, <4>5
    <3> HIDE DEF both
    <3>2. delivered' = both
      BY <2>1 DEF both
    <3> QED
      BY <3>1, <3>2
  <2>4. 1 \in 1..Len(next) /\ Len(delivered) = n
    BY <1>5
  <2> HIDE DEF n
  <2> QED
    BY <2>3, <2>4, <1>5
<1>7. delivered' = [j \in DOMAIN delivered' |-> Backlog + j]
  <2>1. delivered' \in Seq(Texts)
    BY ExactShape DEF Exact, Shape, TypeOK
  <2>2. \A j \in 1..n : delivered[j] = Backlog + j
    BY <1>4 DEF KeptInv, NothingSkipped
  <2>3. \A j \in 1..(n + 1) : delivered'[j] = Backlog + j
    <3>1. \A j \in 1..(n + 1) : j \in 1..n \/ j = n + 1
      BY <1>4
    <3>2. Backlog + n + 1 = Backlog + (n + 1)
      BY <1>4, TailConstantsOK
    <3> HIDE DEF n
    <3> QED
      BY <3>1, <3>2, <2>2, <1>6
  <2> QED
    BY <2>1, <2>3, <1>6
<1>8. Follows(a, b, o)'
  <2>1. Backlog + Len(delivered') = Backlog + n + 1
    BY <1>4, <1>6, TailConstantsOK
  <2> QED
    BY <2>1, <1>1, <1>3, <1>5 DEF Follows
<1> QED
  BY <1>3, <1>7, <1>8 DEF KeptInv, NothingSkipped

\* A buffer of whole lines is used up.
LEMMA PassOverKept ==
  ASSUME Shape, KeptInv, PassOver
  PROVE  KeptInv'
<1>1. PICK a, b, o \in Nat : Follows(a, b, o)
  BY DEF KeptInv
<1>2. /\ UNCHANGED <<disk, maillog, writer, lines, f, pos, bufflen, delivered>>
      /\ linecount(buff) = 0
      /\ buff' = <<>> /\ pc' = "nap"
  BY DEF PassOver, logVars
<1>3. buff \in Seq(Texts \cup {NL})
  BY DEF Shape, TypeOK
<1>4. \A k \in 1..Len(buff) : buff[k] # NL
  BY <1>2, <1>3, LinesCount
<1>5. Backlog + Len(delivered) = a
  <2>1. Holds(buff, Backlog + Len(delivered), a)
    BY <1>1 DEF Follows
  <2> QED
    BY <2>1, <1>4, HoldsNone
<1>6. Follows(a, b, o)'
  BY <1>1, <1>2, <1>5, HoldsNothing DEF Follows
<1> QED
  BY <1>2, <1>6 DEF KeptInv, NothingSkipped

\* Lines are logged whole, at the end of the newest file.
LEMMA LogKept ==
  ASSUME Mishaps = {}, Shape, KeptInv, Log
  PROVE  KeptInv'
<1>1. PICK a, b, o \in Nat : Follows(a, b, o)
  BY DEF KeptInv
<1>2. lines' = lines + 1 /\ lines' \in Texts /\ Write(<<lines', NL>>)
      /\ <<lines', NL>> \in Seq(Texts \cup {NL})
  <2>1. lines' = lines + 1 /\ lines' \in Texts
    BY LogStep
  <2>2. Write(<<lines', NL>>)
    BY DEF Log
  <2> QED
    BY <2>1, <2>2
<1> DEFINE w == writer
<1>3. /\ w \in Files
      /\ disk' \in [Files -> Seq(Texts \cup {NL})]
      /\ disk'[w] = disk[w] \o <<lines', NL>>
      /\ \A d \in Files : d # w => disk'[d] = disk[d]
      /\ UNCHANGED <<maillog, writer, tailVars, delivered>>
  BY <1>2, Written
<1>4. UNCHANGED <<pc, f, pos, bufflen, buff>>
  BY <1>3 DEF tailVars
<1>5. maillog = w /\ maillog # Missing /\ disk[w] \in Seq(Texts \cup {NL})
  BY <1>3, TailConstantsOK DEF KeptInv, Missing, Files, Shape, TypeOK
<1>6. Len(disk'[w]) = Len(disk[w]) + 2 /\ Len(disk[w]) \in Nat
  BY <1>3, <1>5
<1>7. ASSUME NEW x, Holds(disk[w], x, lines) PROVE Holds(disk'[w], x, lines')
  <2>1. lines + 1 \in Texts \cup {NL} /\ NL \in Texts \cup {NL}
    BY <1>2
  <2>2. Holds(disk[w] \o <<lines + 1, NL>>, x, lines + 1)
    BY <2>1, <1>5, <1>7, HoldsMore
  <2> QED
    BY <2>2, <1>2, <1>3
<1>8. lines \in Nat /\ pos \in Nat
  BY TailConstantsOK DEF Shape, TypeOK
<1>9. CASE f = w
  <2>1. b = lines /\ Holds(disk[f], o, lines) /\ f # NULL
    BY <1>1, <1>5, <1>9 DEF Follows, NULL, Missing
  <2>2. PICK c \in Nat : c = lines'
    BY <1>2, <1>8
  <2>3. Follows(a, c, o)'
    <3>1. a <= c
      BY <2>1, <2>2, <1>1, <1>2, <1>8 DEF Follows
    <3>2. Holds(disk'[f'], o, c)
      BY <2>1, <2>2, <1>4, <1>7, <1>9
    <3>3. /\ Holds(buff', Backlog + Len(delivered'), a)
          /\ f' # NULL /\ o <= a /\ pos' = 2 * (a - o)
          /\ maillog' = f'
      BY <2>1, <1>1, <1>3, <1>4, <1>5, <1>9 DEF Follows
    <3> QED
      BY <2>2, <3>1, <3>2, <3>3 DEF Follows
  <2>4. pc' = "read" => \E m \in Nat : bufflen' = 2 * m /\ pos' + bufflen' <= Len(disk'[f'])
    <3> SUFFICES ASSUME pc = "read"
                 PROVE  \E m \in Nat : bufflen = 2 * m /\ pos + bufflen <= Len(disk'[f])
      BY <1>4
    <3>1. PICK m \in Nat : bufflen = 2 * m /\ pos + bufflen <= Len(disk[f])
      BY DEF KeptInv
    <3> QED
      BY <3>1, <1>6, <1>8, <1>9
  <2>5. f' = maillog' /\ writer' = maillog'
    BY <1>3, <1>4, <1>5, <1>9
  <2> HIDE DEF w
  <2> QED
    BY <2>3, <2>4, <2>5, <1>3, <1>4 DEF KeptInv, NothingSkipped
<1>10. CASE f # w
  <2>1. Holds(disk[w], b, lines)
    BY <1>1, <1>5, <1>10 DEF Follows
  <2>2. f # NULL => disk'[f] = disk[f] /\ f \in Files
    BY <1>3, <1>10 DEF Shape, TypeOK
  <2>3. Follows(a, b, o)'
    BY <2>1, <2>2, <1>1, <1>3, <1>4, <1>5, <1>7, <1>10 DEF Follows
  <2>4. f # NULL => disk[f] = <<>> \/ Len(disk'[w]) < Len(disk[f])
    BY <1>2, <1>3, <1>10 DEF Write
  <2>5. pc \in {"read", "reopen"} => f # NULL
    BY DEF Shape
  <2> QED
    BY <2>2, <2>3, <2>4, <2>5, <1>3, <1>4, <1>5, <1>10 DEF KeptInv, NothingSkipped
<1> QED
  BY <1>9, <1>10

\* A rotation takes the name from a file that exact has open, and lines are whole.
LEMMA RotateKept ==
  ASSUME Mishaps = {}, Shape, KeptInv, Rotate \/ Create
  PROVE  KeptInv'
<1>1. PICK a, b, o \in Nat : Follows(a, b, o)
  BY DEF KeptInv
<1>2. /\ UNCHANGED <<disk, lines, pc, f, pos, bufflen, buff, delivered>>
      /\ maillog' \in {Missing, files + 1}
      /\ writer' = maillog'
  BY DEF Rotate, Create, tailVars
<1>3. f # NULL => maillog \in {f, Missing}
  BY DEF Rotate, Create
<1>4. b = lines /\ (f = NULL => maillog = Missing)
  <2>1. Rotate => f = maillog /\ maillog # Missing
    BY DEF Rotate
  <2> QED
    BY <2>1, <1>1 DEF Create, Follows, NULL, Missing
<1>5. maillog' # Missing => maillog' \in Files /\ disk[maillog'] = <<>> /\ maillog' # f
  <2>1. files < MaxFiles /\ files \in Files
    BY DEF Rotate, Create, Shape, TypeOK
  <2>2. files + 1 \in Files /\ files + 1 > files /\ files + 1 # f
    BY <2>1, TailConstantsOK DEF Files, Shape, TypeOK, NULL
  <2> QED
    BY <2>2, <1>2 DEF Shape
<1>6. Follows(a, b, o)'
  <2>1. Holds(<<>>, b, lines)
    BY <1>4, HoldsNothing
  <2> QED
    BY <2>1, <1>1, <1>2, <1>4, <1>5 DEF Follows
<1>7. pc = "reopen" => pos = Len(disk[f])
  <2>1. pc = "reopen" => Create /\ f # NULL
    BY DEF Rotate, Shape
  <2> QED
    BY <2>1 DEF Create, KeptInv, NULL, Missing
<1>8. f # NULL /\ maillog' # Missing => disk[f] = <<>> \/ Len(disk[maillog']) < Len(disk[f])
  <2> SUFFICES ASSUME f # NULL, maillog' # Missing PROVE disk[f] = <<>> \/ 0 < Len(disk[f])
    BY <1>5
  <2>1. disk[f] \in Seq(Texts \cup {NL})
    BY DEF Shape, TypeOK
  <2> QED
    BY <2>1
<1> QED
  BY <1>2, <1>6, <1>7, <1>8 DEF KeptInv, NothingSkipped

LEMMA KeptStep ==
  ASSUME Mishaps = {}, Shape, KeptInv, [Next]_vars
  PROVE  KeptInv'
<1>1. PICK a, b, o \in Nat : Follows(a, b, o)
  BY DEF KeptInv
<1>2. CASE Nap \/ UNCHANGED vars
  <2>1. UNCHANGED <<disk, maillog, writer, lines, f, pos, bufflen, buff, delivered>>
    BY <1>2 DEF Nap, vars, logVars, tailVars
  <2>2. pc' = pc \/ (pc' = "measure" /\ pc = "nap")
    BY <1>2 DEF Nap, vars, tailVars
  <2>3. Follows(a, b, o)'
    BY <2>1, <1>1 DEF Follows
  <2> QED
    BY <2>1, <2>2, <2>3 DEF KeptInv, NothingSkipped
<1>3. ~GiveUp
  <2>1. pc = "read" => f # NULL /\ bufflen \in Nat /\ pos + bufflen <= Len(disk[f])
    BY DEF KeptInv, Shape
  <2>2. f # NULL => Len(disk[f]) \in Nat /\ pos \in Nat
    BY DEF Shape, TypeOK
  <2> QED
    BY <2>1, <2>2 DEF GiveUp, Unreadable
<1>4. ~EndLine /\ ~Hup /\ ~Truncate
  <2>1. ~MidLine
    <3> SUFFICES ASSUME MidLine PROVE FALSE
      OBVIOUS
    <3>1. writer = maillog /\ maillog # Missing /\ disk[maillog] # <<>> /\ maillog \in Files
      BY DEF MidLine, KeptInv, Shape, TypeOK
    <3>2. PICK x, y \in Nat : Holds(disk[maillog], x, y)
      BY <1>1, <3>1, TailConstantsOK DEF Follows, Shape, TypeOK, NULL, Missing
    <3>3. disk[maillog] \in Seq(Texts \cup {NL})
      BY <3>1 DEF Shape, TypeOK
    <3> QED
      BY <3>1, <3>2, <3>3, HoldsEnd DEF MidLine
  <2> QED
    BY <2>1 DEF EndLine, Hup, Truncate, KeptInv
<1> QED
  BY <1>2, <1>3, <1>4, ReopenKept, MeasureKept, ReadKept, LineKept, PassOverKept, LogKept, RotateKept
  DEF Next, Exact, World

LEMMA KeptAlways ==
  ASSUME Mishaps = {}
  PROVE  Spec => []KeptInv
<1>1. Spec => [][Next]_vars
  BY PTL DEF Spec, Next
<1>2. Shape /\ KeptInv /\ [Next]_vars => KeptInv'
  BY KeptStep
<1> QED
  BY <1>1, <1>2, KeptInit, ShapeAlways, PTL DEF Spec

\* From a well-treated log exact delivers every line, once and in order, up to the
\* one it has read last, through any number of rotations, with or without a gap.
THEOREM NothingLost ==
  ASSUME Mishaps = {}
  PROVE  Spec => []NothingSkipped
<1>1. KeptInv => NothingSkipped
  BY DEF KeptInv
<1> QED
  BY <1>1, KeptAlways, PTL

\* It never reads less than it has measured, so that it goes on (tail.c:147, 154).
THEOREM GoesOn ==
  ASSUME Mishaps = {}
  PROVE  Spec => []NeverGivesUp
<1>1. KeptInv => NeverGivesUp
  BY DEF KeptInv, NeverGivesUp
<1> QED
  BY <1>1, KeptAlways, PTL
=============================================================================
