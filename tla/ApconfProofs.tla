----------------------------- MODULE ApconfProofs -----------------------------
(***************************************************************************)
(* Proofs about the parser of the server definitions: for a file of any    *)
(* length, what apconf_read returns against what the file says.            *)
(*                                                                         *)
(* They go by induction over the lines of the file.  An induction is a set *)
(* that holds 0 and with a number the next one (UpTo).                     *)
(***************************************************************************)
EXTENDS Apconf, FiniteSetTheorems, TLAPS

-----------------------------------------------------------------------------
(* Natural numbers.                                                        *)

\* A set of numbers has a least element, which Min finds.
LEMMA LeastOf ==
  ASSUME NEW A \in SUBSET Nat, A # {}
  PROVE  Min(A) \in A /\ \A k \in A : Min(A) <= k
<1>1. PICK a \in A : \A k \in A : a <= k
  <2> DEFINE less == OpToRel(<, Nat)
  <2>1. \E a \in A : \A k \in A : ~(<<k, a>> \in less)
    <3>1. IsWellFoundedOn(less, Nat)
      BY NatLessThanWellFounded
    <3> HIDE DEF less
    <3> QED
      BY <3>1, WFMin
  <2>2. \A k, m \in Nat : <<k, m>> \in less <=> k < m
    BY DEF OpToRel
  <2> HIDE DEF less
  <2>3. PICK a \in A : \A k \in A : ~(<<k, a>> \in less)
    BY <2>1
  <2>4. \A k \in A : ~(k < a) /\ k \in Nat /\ a \in Nat
    BY <2>2, <2>3
  <2> QED
    BY <2>4
<1>2. \A x \in A : (\A k \in A : x <= k) => x = a
  BY <1>1
<1> QED
  BY <1>1, <1>2 DEF Min

\* What comes after its first elements leaves a set's minimum where it is.
LEMMA FirstIsFirst ==
  ASSUME NEW A \in SUBSET Nat, NEW B \in SUBSET Nat, NEW n \in Nat,
         A # {}, A \subseteq B, \A k \in B : k <= n => k \in A,
         \A k \in A : k <= n
  PROVE  Min(A) = Min(B) /\ Min(A) \in A
<1>1. Min(A) \in A /\ \A k \in A : Min(A) <= k
  BY LeastOf
<1>2. Min(B) \in B /\ \A k \in B : Min(B) <= k
  BY LeastOf
<1> DEFINE a == Min(A)
           b == Min(B)
<1> HIDE DEF a, b
<1>3. a \in A /\ b \in B /\ a \in Nat /\ b \in Nat /\ b <= a /\ a <= n
  BY <1>1, <1>2 DEF a, b
<1>4. b \in A
  BY <1>3
<1>5. a <= b
  BY <1>1, <1>4 DEF a
<1> QED
  BY <1>3, <1>5 DEF a, b

\* A bounded one has a greatest element, which Max finds.
LEMMA GreatestOf ==
  ASSUME NEW n \in Nat, NEW A \in SUBSET (0..n), A # {}
  PROVE  Max(A) \in A /\ \A k \in A : k <= Max(A)
<1> DEFINE B == {n - k : k \in A}
<1>1. B \in SUBSET Nat /\ B # {}
  <2>1. \A k \in 0..n : n - k \in Nat
    OBVIOUS
  <2>2. \A k \in A : n - k \in Nat
    BY <2>1
  <2> QED
    BY <2>2
<1>2. PICK b \in B : \A k \in B : b <= k
  <2> HIDE DEF B
  <2> QED
    BY <1>1, LeastOf
<1>3. PICK a \in A : b = n - a
  BY <1>2
<1>4. \A k \in A : k <= a
  <2> SUFFICES ASSUME NEW k \in A PROVE k <= a
    OBVIOUS
  <2>1. n - a <= n - k
    BY <1>2, <1>3
  <2>2. k \in Int /\ a \in Int
    OBVIOUS
  <2> HIDE DEF B
  <2> QED
    BY <2>1, <2>2
<1>5. \A x \in A : (\A k \in A : k <= x) => x = a
  <2>1. \A x \in A : x \in Int
    OBVIOUS
  <2> HIDE DEF B
  <2> QED
    BY <1>4, <2>1
<1> QED
  BY <1>4, <1>5 DEF Max

\* Induction up to n.
LEMMA UpTo ==
  ASSUME NEW n \in Nat, NEW G, 0 \in G, \A k \in 0..n : k < n /\ k \in G => k + 1 \in G
  PROVE  \A k \in 0..n : k \in G
<1> DEFINE A == {k \in 0..n : k \notin G}
<1> SUFFICES ASSUME A # {} PROVE FALSE
  OBVIOUS
<1>1. A \in SUBSET Nat
  OBVIOUS
<1>2. PICK a \in A : \A k \in A : a <= k
  <2> HIDE DEF A
  <2> QED
    BY <1>1, LeastOf
<1>3. a \in 1..n /\ a - 1 \in 0..n /\ a - 1 < n
  BY <1>2
<1>4. a - 1 \in G
  BY <1>2, <1>3
<1>5. (a - 1) + 1 \in G
  BY <1>3, <1>4
<1> QED
  BY <1>3, <1>5

-----------------------------------------------------------------------------
(* The recursive function.                                                 *)

\* After each line the parse is what parse_line makes of it.
LEMMA ParsedIs ==
  ASSUME NEW n \in Nat, NEW file, Len(file) = n, NEW s
  PROVE  /\ Parsed(file, s)[0] = Parsing(s)
         /\ \A k \in 1..n : Parsed(file, s)[k] = parse_line(Parsed(file, s)[k - 1], file[k])
<1> DEFINE Eq(f, m) == f = [k \in 0..m |-> IF k = 0 THEN Parsing(s) ELSE parse_line(f[k - 1], file[k])]
           G == {m \in 0..n : \E f : Eq(f, m)}
<1>1. 0 \in G
  <2> DEFINE f == [k \in 0..0 |-> Parsing(s)]
  <2>1. Eq(f, 0)
    OBVIOUS
  <2> HIDE DEF f, Eq
  <2> QED
    BY <2>1
<1>2. ASSUME NEW m \in 0..n, m < n, m \in G PROVE m + 1 \in G
  <2>1. PICK f : Eq(f, m)
    BY <1>2
  <2> DEFINE g == [k \in 0..(m + 1) |-> IF k = m + 1 THEN parse_line(f[m], file[m + 1]) ELSE f[k]]
  <2>2. \A k \in 0..m : f[k] = IF k = 0 THEN Parsing(s) ELSE parse_line(f[k - 1], file[k])
    BY <2>1
  <2>3. \A k \in 0..(m + 1) : g[k] = IF k = 0 THEN Parsing(s) ELSE parse_line(g[k - 1], file[k])
    <3> SUFFICES ASSUME NEW k \in 0..(m + 1)
                 PROVE  g[k] = IF k = 0 THEN Parsing(s) ELSE parse_line(g[k - 1], file[k])
      OBVIOUS
    <3>1. CASE k = m + 1
      <4>1. k # 0 /\ k - 1 = m /\ g[k - 1] = f[m]
        BY <3>1
      <4> QED
        BY <3>1, <4>1
    <3>2. CASE k # m + 1
      <4>1. k \in 0..m /\ g[k] = f[k]
        BY <3>2
      <4>2. k # 0 => g[k - 1] = f[k - 1]
        BY <4>1
      <4> QED
        BY <2>2, <4>1, <4>2
    <3> QED
      BY <3>1, <3>2
  <2>4. Eq(g, m + 1)
    <3> DEFINE h == [k \in 0..(m + 1) |-> IF k = 0 THEN Parsing(s) ELSE parse_line(g[k - 1], file[k])]
    <3>1. \A k \in 0..(m + 1) : g[k] = h[k]
      BY <2>3
    <3> QED
      BY <3>1
  <2>5. m + 1 \in 0..n
    BY <1>2
  <2> HIDE DEF g, Eq
  <2> QED
    BY <2>4, <2>5
<1>3. \E f : Eq(f, n)
  <2>1. \A k \in 0..n : k \in G
    <3> HIDE DEF G
    <3> QED
      BY <1>1, <1>2, UpTo
  <2> QED
    BY <2>1
<1>4. Eq(Parsed(file, s), n)
  BY <1>3 DEF Parsed
<1> DEFINE P == Parsed(file, s)
<1> HIDE DEF P
<1>5. P = [k \in 0..n |-> IF k = 0 THEN Parsing(s) ELSE parse_line(P[k - 1], file[k])]
  BY <1>4 DEF P
<1>6. \A k \in 0..n : P[k] = IF k = 0 THEN Parsing(s) ELSE parse_line(P[k - 1], file[k])
  BY <1>5
<1>7. P[0] = Parsing(s) /\ \A k \in 1..n : P[k] = parse_line(P[k - 1], file[k])
  BY <1>6
<1> QED
  BY <1>7 DEF P

-----------------------------------------------------------------------------
(* Lines of a kind.                                                        *)

\* A file of definitions whose lines capture texts of T.
DefsFile(T) == Seq([has : SUBSET TokenStrings, text : T])

LEMMA ScanType ==
  ASSUME NEW T, NEW line \in [has : SUBSET TokenStrings, text : T]
  PROVE  scan_string(line) \in {TOKEN_NONE} \cup TokenStrings
<1>1. CASE line.has = {}
  BY <1>1 DEF scan_string
<1>2. CASE line.has # {}
  <2>1. line.has \in SUBSET Nat
    BY DEF TokenStrings, TOKEN_SERVER, TOKEN_BLANK
  <2>2. Min(line.has) \in line.has
    BY <1>2, <2>1, LeastOf
  <2> QED
    BY <1>2, <2>2 DEF scan_string
<1> QED
  BY <1>1, <1>2

\* One line more.
LEMMA LinesStep ==
  ASSUME NEW file, NEW i \in Nat, NEW t
  PROVE  /\ Lines(file, 0, t) = {}
         /\ IsFiniteSet(Lines(file, i, t))
         /\ Cardinality(Lines(file, i, t)) \in Nat
         /\ Lines(file, i + 1, t) =
              IF scan_string(file[i + 1]) = t THEN Lines(file, i, t) \cup {i + 1} ELSE Lines(file, i, t)
         /\ Cardinality(Lines(file, i + 1, t)) =
              IF scan_string(file[i + 1]) = t THEN Cardinality(Lines(file, i, t)) + 1
              ELSE Cardinality(Lines(file, i, t))
<1>1. Lines(file, 0, t) = {}
  BY DEF Lines
<1>2. IsFiniteSet(Lines(file, i, t))
  <2>1. IsFiniteSet(1..i)
    BY FS_Interval
  <2>2. Lines(file, i, t) \in SUBSET (1..i)
    BY DEF Lines
  <2> QED
    BY <2>1, <2>2, FS_Subset
<1>3. i + 1 \notin Lines(file, i, t)
  BY DEF Lines
<1>4. Lines(file, i + 1, t) =
        IF scan_string(file[i + 1]) = t THEN Lines(file, i, t) \cup {i + 1} ELSE Lines(file, i, t)
  <2>1. 1..(i + 1) = (1..i) \cup {i + 1}
    OBVIOUS
  <2> QED
    BY <2>1 DEF Lines
<1>5. Cardinality(Lines(file, i, t)) \in Nat
  BY <1>2, FS_CardinalityType
<1>6. Cardinality(Lines(file, i, t) \cup {i + 1}) = Cardinality(Lines(file, i, t)) + 1
  BY <1>2, <1>3, FS_AddElement
<1> QED
  BY <1>1, <1>2, <1>4, <1>5, <1>6

\* Whether a line is where it may be.
InPlace(file, i) ==
  \/ Depth(file, i - 1) = 0 /\ scan_string(file[i]) \in {TOKEN_SERVER, TOKEN_COMMENT, TOKEN_BLANK}
  \/ Depth(file, i - 1) = 1 /\ scan_string(file[i]) \in {TOKEN_ORDER, TOKEN_MATCH, TOKEN_CLOSE}

\* Whether nothing is wrong with the first k lines.
Fine(file, k) ==
  /\ \A i \in 1..k : InPlace(file, i)
  /\ Cardinality(Lines(file, k, TOKEN_CLOSE)) <= SECTION_MAX

LEMMA FineStep ==
  ASSUME NEW file, NEW k \in Nat
  PROVE  /\ Fine(file, 0)
         /\ Depth(file, 0) = 0
         /\ Depth(file, k) \in Int
         /\ Depth(file, k + 1) =
              CASE scan_string(file[k + 1]) = TOKEN_SERVER -> Depth(file, k) + 1
                [] scan_string(file[k + 1]) = TOKEN_CLOSE  -> Depth(file, k) - 1
                [] OTHER -> Depth(file, k)
         /\ Fine(file, k + 1) <=>
              /\ Fine(file, k)
              /\ InPlace(file, k + 1)
              /\ scan_string(file[k + 1]) = TOKEN_CLOSE =>
                   Cardinality(Lines(file, k, TOKEN_CLOSE)) + 1 <= SECTION_MAX
<1> DEFINE servers == Cardinality(Lines(file, k, TOKEN_SERVER))
           closes == Cardinality(Lines(file, k, TOKEN_CLOSE))
           t == scan_string(file[k + 1])
<1>1. servers \in Nat /\ closes \in Nat
  BY LinesStep
<1>2. /\ Cardinality(Lines(file, k + 1, TOKEN_SERVER)) = IF t = TOKEN_SERVER THEN servers + 1 ELSE servers
      /\ Cardinality(Lines(file, k + 1, TOKEN_CLOSE)) = IF t = TOKEN_CLOSE THEN closes + 1 ELSE closes
  BY LinesStep
<1>3. Cardinality(Lines(file, 0, TOKEN_SERVER)) = 0 /\ Cardinality(Lines(file, 0, TOKEN_CLOSE)) = 0
  BY LinesStep, FS_EmptySet
<1>4. Depth(file, 0) = 0 /\ Fine(file, 0)
  BY <1>3, SectionMaxOK DEF Depth, Fine
<1>5. Depth(file, k) = servers - closes
  BY DEF Depth
<1>6. Depth(file, k + 1) =
        CASE t = TOKEN_SERVER -> Depth(file, k) + 1
          [] t = TOKEN_CLOSE  -> Depth(file, k) - 1
          [] OTHER -> Depth(file, k)
  <2>1. Depth(file, k + 1) = Cardinality(Lines(file, k + 1, TOKEN_SERVER)) - Cardinality(Lines(file, k + 1, TOKEN_CLOSE))
    BY DEF Depth
  <2> HIDE DEF servers, closes, t
  <2> QED
    BY <1>1, <1>2, <1>5, <2>1 DEF TOKEN_SERVER, TOKEN_CLOSE
<1>7. Fine(file, k + 1) <=> Fine(file, k) /\ InPlace(file, k + 1) /\ (t = TOKEN_CLOSE => closes + 1 <= SECTION_MAX)
  <2>1. (\A i \in 1..(k + 1) : InPlace(file, i)) <=> (\A i \in 1..k : InPlace(file, i)) /\ InPlace(file, k + 1)
    <3>1. 1..(k + 1) = (1..k) \cup {k + 1}
      OBVIOUS
    <3> QED
      BY <3>1
  <2>2. Fine(file, k) <=> (\A i \in 1..k : InPlace(file, i)) /\ closes <= SECTION_MAX
    BY DEF Fine
  <2>3. Fine(file, k + 1) <=>
          (\A i \in 1..(k + 1) : InPlace(file, i)) /\ Cardinality(Lines(file, k + 1, TOKEN_CLOSE)) <= SECTION_MAX
    BY DEF Fine
  <2>4. Cardinality(Lines(file, k + 1, TOKEN_CLOSE)) <= SECTION_MAX <=>
          closes <= SECTION_MAX /\ (t = TOKEN_CLOSE => closes + 1 <= SECTION_MAX)
    <3> HIDE DEF closes, t
    <3> QED
      BY <1>1, <1>2, SectionMaxOK
  <2> QED
    BY <2>1, <2>2, <2>3, <2>4
<1> QED
  BY <1>1, <1>4, <1>5, <1>6, <1>7

-----------------------------------------------------------------------------
(* The parse, line by line.                                                *)

Parses(T) ==
  [at : {"top", "stanza", "error", "crash"}, s : Sections(T), sections : Seq(Sections(T))]

LEMMA LineType ==
  ASSUME NEW T, NEW p \in Parses(T), NEW line \in [has : SUBSET TokenStrings, text : T]
  PROVE  parse_line(p, line) \in Parses(T)
<1> DEFINE t == scan_string(line)
           q == parse_line(p, line)
<1>1. /\ [p EXCEPT !.at = "error"] \in Parses(T)
      /\ [p EXCEPT !.at = "crash"] \in Parses(T)
      /\ [p EXCEPT !.at = "stanza", !.s.name = line.text] \in Parses(T)
      /\ [p EXCEPT !.s.order = line.text] \in Parses(T)
      /\ [p EXCEPT !.s.match = line.text] \in Parses(T)
      /\ [p EXCEPT !.at = "top", !.sections = Append(@, p.s)] \in Parses(T)
  <2> DEFINE A == {"top", "stanza", "error", "crash"}
             N == T \cup {NULL}
             R == [name : N, order : N, match : N]
             Q == [at : A, s : R, sections : Seq(R)]
  <2>1. line.text \in N /\ p \in Q
    BY DEF Parses, Sections
  <2>2. "top" \in A /\ "stanza" \in A /\ "error" \in A /\ "crash" \in A
    OBVIOUS
  <2> HIDE DEF A, N
  <2>3. /\ [p.s EXCEPT !.name = line.text] \in R
        /\ [p.s EXCEPT !.order = line.text] \in R
        /\ [p.s EXCEPT !.match = line.text] \in R
    BY <2>1
  <2> HIDE DEF R
  <2>4. Append(p.sections, p.s) \in Seq(R)
    BY <2>1
  <2>5. /\ [p EXCEPT !.at = "error"] \in Q
        /\ [p EXCEPT !.at = "crash"] \in Q
        /\ [p EXCEPT !.at = "top", !.sections = Append(@, p.s)] \in Q
    BY <2>1, <2>2, <2>4
  <2>6. /\ [p EXCEPT !.at = "stanza", !.s.name = line.text] \in Q
        /\ [p EXCEPT !.s.order = line.text] \in Q
        /\ [p EXCEPT !.s.match = line.text] \in Q
    BY <2>1, <2>2, <2>3
  <2> QED
    BY <2>5, <2>6 DEF Parses, Sections, A, N, R
<1> SUFFICES q \in Parses(T)
  OBVIOUS
<1>2. CASE p.at = "top"
  <2>1. q \in {p, [p EXCEPT !.at = "error"], [p EXCEPT !.at = "stanza", !.s.name = line.text]}
    BY <1>2 DEF parse_line, parse_rule_section
  <2> HIDE DEF q
  <2> QED
    BY <1>1, <2>1
<1>3. CASE p.at = "stanza"
  <2>1. q = parse_rule_apc_param(p, line)
    BY <1>3 DEF parse_line
  <2>2. \/ q \in {[p EXCEPT !.s.order = line.text], [p EXCEPT !.s.match = line.text], [p EXCEPT !.at = "crash"]}
        \/ q = parse_rule_top(p)
    BY <2>1 DEF parse_rule_apc_param
  <2> HIDE DEF q
  <2>3. CASE q = parse_rule_top(p)
    <3>1. q \in {[p EXCEPT !.at = "error"], [p EXCEPT !.at = "top", !.sections = Append(@, p.s)]}
      BY <2>3 DEF parse_rule_top
    <3> QED
      BY <1>1, <3>1
  <2>4. CASE q \in {[p EXCEPT !.s.order = line.text], [p EXCEPT !.s.match = line.text], [p EXCEPT !.at = "crash"]}
    BY <1>1, <2>4
  <2> QED
    BY <2>2, <2>3, <2>4
<1>4. CASE p.at \notin {"top", "stanza"}
  BY <1>4 DEF parse_line
<1> QED
  BY <1>2, <1>3, <1>4

\* Where the parse is after k lines that come to p, and how many stanzas it has.
Shape(file, k, p) ==
  /\ p.at \in {"top", "stanza"} <=> Fine(file, k)
  /\ p.at = "top" => Depth(file, k) = 0
  /\ p.at = "stanza" => Depth(file, k) = 1
  /\ Fine(file, k) => Len(p.sections) = Cardinality(Lines(file, k, TOKEN_CLOSE))

LEMMA ShapeStep ==
  ASSUME NEW T, NEW p \in Parses(T), NEW file, NEW k \in Nat, Shape(file, k, p)
  PROVE  Shape(file, k + 1, parse_line(p, file[k + 1]))
<1> DEFINE t == scan_string(file[k + 1])
           q == parse_line(p, file[k + 1])
           closes == Cardinality(Lines(file, k, TOKEN_CLOSE))
<1> USE DEF TOKEN_SERVER, TOKEN_ORDER, TOKEN_MATCH, TOKEN_CLOSE, TOKEN_COMMENT, TOKEN_BLANK, TOKEN_NONE
<1>1. closes \in Nat
      /\ Cardinality(Lines(file, k + 1, TOKEN_CLOSE)) = IF t = TOKEN_CLOSE THEN closes + 1 ELSE closes
  BY LinesStep
<1>2. /\ Depth(file, k + 1) =
           CASE t = TOKEN_SERVER -> Depth(file, k) + 1
             [] t = TOKEN_CLOSE  -> Depth(file, k) - 1
             [] OTHER -> Depth(file, k)
      /\ Fine(file, k + 1) <=>
           Fine(file, k) /\ InPlace(file, k + 1) /\ (t = TOKEN_CLOSE => closes + 1 <= SECTION_MAX)
  BY FineStep
<1>3. InPlace(file, k + 1) <=>
        \/ Depth(file, k) = 0 /\ t \in {TOKEN_SERVER, TOKEN_COMMENT, TOKEN_BLANK}
        \/ Depth(file, k) = 1 /\ t \in {TOKEN_ORDER, TOKEN_MATCH, TOKEN_CLOSE}
  BY DEF InPlace
<1>4. p.at \in {"top", "stanza", "error", "crash"} /\ Len(p.sections) \in Nat
  BY DEF Parses
<1> HIDE DEF closes
<1>5. CASE p.at = "top"
  <2>1. Fine(file, k) /\ Depth(file, k) = 0 /\ Len(p.sections) = closes
    BY <1>5 DEF Shape, closes
  <2>2. q = parse_rule_section(p, file[k + 1])
    BY <1>5 DEF parse_line
  <2>3. CASE t \in {TOKEN_COMMENT, TOKEN_BLANK}
    <3>1. q = p
      BY <2>2, <2>3 DEF parse_rule_section
    <3> QED
      BY <1>1, <1>2, <1>3, <1>5, <2>1, <2>3, <3>1 DEF Shape
  <2>4. CASE t = TOKEN_SERVER
    <3>1. q.at = "stanza" /\ q.sections = p.sections
      <4>1. q = [p EXCEPT !.at = "stanza", !.s.name = file[k + 1].text]
        BY <2>2, <2>4 DEF parse_rule_section
      <4> QED
        BY <4>1 DEF Parses
    <3> QED
      BY <1>1, <1>2, <1>3, <2>1, <2>4, <3>1 DEF Shape
  <2>5. CASE t \notin {TOKEN_SERVER, TOKEN_COMMENT, TOKEN_BLANK}
    <3>1. q.at = "error"
      BY <2>2, <2>5 DEF parse_rule_section, Parses
    <3> QED
      BY <1>2, <1>3, <2>1, <2>5, <3>1 DEF Shape
  <2> QED
    BY <2>3, <2>4, <2>5
<1>6. CASE p.at = "stanza"
  <2>1. Fine(file, k) /\ Depth(file, k) = 1 /\ Len(p.sections) = closes
    BY <1>6 DEF Shape, closes
  <2>2. q = parse_rule_apc_param(p, file[k + 1])
    BY <1>6 DEF parse_line
  <2>3. CASE t \in {TOKEN_ORDER, TOKEN_MATCH}
    <3>1. q.at = "stanza" /\ q.sections = p.sections
      BY <1>6, <2>2, <2>3 DEF parse_rule_apc_param, Parses
    <3> QED
      BY <1>1, <1>2, <1>3, <2>1, <2>3, <3>1 DEF Shape
  <2>4. CASE t = TOKEN_CLOSE /\ closes = SECTION_MAX
    <3>1. q.at = "error"
      BY <2>1, <2>2, <2>4 DEF parse_rule_apc_param, parse_rule_top, Parses
    <3> QED
      BY <1>1, <1>2, <2>4, <3>1 DEF Shape
  <2>5. CASE t = TOKEN_CLOSE /\ closes # SECTION_MAX
    <3>1. q.at = "top" /\ q.sections = Append(p.sections, p.s)
      <4>1. q = parse_rule_top(p)
        BY <2>2, <2>5 DEF parse_rule_apc_param
      <4>2. q = [p EXCEPT !.at = "top", !.sections = Append(@, p.s)]
        BY <2>1, <2>5, <4>1 DEF parse_rule_top
      <4> QED
        BY <4>2 DEF Parses
    <3>2. Len(q.sections) = closes + 1
      BY <2>1, <3>1 DEF Parses
    <3>3. closes + 1 <= SECTION_MAX
      <4>1. closes <= SECTION_MAX
        BY <2>1 DEF Fine, closes
      <4> QED
        BY <1>1, <2>5, <4>1, SectionMaxOK
    <3>4. InPlace(file, k + 1)
      BY <1>3, <2>1, <2>5
    <3> QED
      BY <1>1, <1>2, <2>1, <2>5, <3>1, <3>2, <3>3, <3>4 DEF Shape
  <2>6. CASE t \notin {TOKEN_ORDER, TOKEN_MATCH, TOKEN_CLOSE}
    <3>1. q.at = "crash"
      BY <2>2, <2>6 DEF parse_rule_apc_param, Parses
    <3> QED
      BY <1>2, <1>3, <2>1, <2>6, <3>1 DEF Shape
  <2> QED
    BY <2>3, <2>4, <2>5, <2>6
<1>7. CASE p.at \notin {"top", "stanza"}
  <2>1. q = p
    BY <1>7 DEF parse_line
  <2> QED
    BY <1>2, <1>7, <2>1 DEF Shape
<1> QED
  BY <1>5, <1>6, <1>7

\* So it is after every line of a file of any length.
LEMMA ShapeHolds ==
  ASSUME NEW T, NEW file \in DefsFile(T), NEW s \in Sections(T)
  PROVE  \A k \in 0..Len(file) : Parsed(file, s)[k] \in Parses(T) /\ Shape(file, k, Parsed(file, s)[k])
<1> DEFINE n == Len(file)
           P == Parsed(file, s)
           G == {k \in 0..n : P[k] \in Parses(T) /\ Shape(file, k, P[k])}
<1>1. n \in Nat /\ \A k \in 1..n : file[k] \in [has : SUBSET TokenStrings, text : T]
  <2> DEFINE R == [has : SUBSET TokenStrings, text : T]
  <2>1. file \in Seq(R)
    BY DEF DefsFile
  <2> HIDE DEF R
  <2>2. n \in Nat /\ \A k \in 1..n : file[k] \in R
    BY <2>1
  <2> QED
    BY <2>2 DEF R
<1>2. P[0] = Parsing(s) /\ \A k \in 1..n : P[k] = parse_line(P[k - 1], file[k])
  BY <1>1, ParsedIs
<1> HIDE DEF n, P
<1>3. 0 \in G
  <2>1. Parsing(s) \in Parses(T)
    BY DEF Parsing, Parses
  <2>2. Cardinality(Lines(file, 0, TOKEN_CLOSE)) = 0
    BY LinesStep, FS_EmptySet
  <2>3. Shape(file, 0, Parsing(s))
    BY <2>2, FineStep DEF Parsing, Shape
  <2> QED
    BY <1>1, <1>2, <2>1, <2>3
<1>4. ASSUME NEW k \in 0..n, k < n, k \in G PROVE k + 1 \in G
  <2>1. P[k] \in Parses(T) /\ Shape(file, k, P[k])
    BY <1>4
  <2>2. k + 1 \in 1..n /\ (k + 1) - 1 = k
    BY <1>1, <1>4
  <2>3. P[k + 1] = parse_line(P[k], file[k + 1])
    BY <1>2, <2>2
  <2>4. P[k + 1] \in Parses(T)
    BY <1>1, <2>1, <2>2, <2>3, LineType
  <2>5. Shape(file, k + 1, P[k + 1])
    BY <2>1, <2>3, ShapeStep
  <2> QED
    BY <2>2, <2>4, <2>5
<1>5. \A k \in 0..n : k \in G
  <2> HIDE DEF G
  <2> QED
    BY <1>1, <1>3, <1>4, UpTo
<1> QED
  BY <1>5 DEF n, P

-----------------------------------------------------------------------------
(* What is in the stanzas.                                                 *)

\* The stanzas of that name so far.
Named(p, name) == {m \in DOMAIN p.sections : p.sections[m].name = name}

\* The ends of stanzas behind line o, among the first k lines.
Closings(file, o, k) == {j \in Lines(file, k, TOKEN_CLOSE) : j > o}

\* If lines behind o, up to k, set t, then the last of them sets it to v.
Gives(file, o, k, t, v) ==
  LET set == {j \in Lines(file, k, t) : j > o}
  IN  set # {} => v = file[Max(set)].text

Fields(file, o, k, section) ==
  Gives(file, o, k, TOKEN_ORDER, section.order) /\ Gives(file, o, k, TOKEN_MATCH, section.match)

\* The stanza that opens in line o, the first of its name: still to come, under way
\* or in the table.
Content(file, name, o, k, p) ==
  /\ o = 0 \/ k < o => Named(p, name) = {} /\ (p.at = "stanza" => p.s.name # name)
  /\ o # 0 /\ o <= k /\ Closings(file, o, k) = {} =>
       p.at = "stanza" /\ p.s.name = name /\ Named(p, name) = {} /\ Fields(file, o, k, p.s)
  /\ o # 0 /\ o <= k /\ Closings(file, o, k) # {} =>
       /\ Named(p, name) # {}
       /\ Fields(file, o, Min(Closings(file, o, k)), p.sections[Min(Named(p, name))])

\* What Opening finds.
Opens(file, n, name, o) ==
  /\ o \in 0..n
  /\ o # 0 => scan_string(file[o]) = TOKEN_SERVER /\ file[o].text = name
  /\ \A i \in 1..n : scan_string(file[i]) = TOKEN_SERVER /\ file[i].text = name => o # 0 /\ o <= i

LEMMA OpeningIs ==
  ASSUME NEW n \in Nat, NEW file, Len(file) = n, NEW name
  PROVE  Opens(file, n, name, Opening(file, name))
<1> DEFINE hits == {i \in Lines(file, Len(file), TOKEN_SERVER) : file[i].text = name}
<1>1. /\ hits \in SUBSET (1..n) /\ hits \in SUBSET Nat
      /\ \A i \in hits : scan_string(file[i]) = TOKEN_SERVER /\ file[i].text = name
      /\ \A i \in 1..n : scan_string(file[i]) = TOKEN_SERVER /\ file[i].text = name => i \in hits
  BY DEF Lines
<1>2. Opening(file, name) = IF hits = {} THEN 0 ELSE Min(hits)
  BY DEF Opening
<1> HIDE DEF hits
<1>3. hits # {} => Min(hits) \in hits /\ \A i \in hits : Min(hits) <= i
  BY <1>1, LeastOf
<1> DEFINE o == Opening(file, name)
<1> HIDE DEF o
<1>4. CASE hits = {}
  <2>1. o = 0
    BY <1>2, <1>4 DEF o
  <2>2. Opens(file, n, name, 0)
    <3>1. \A i \in 1..n : ~(scan_string(file[i]) = TOKEN_SERVER /\ file[i].text = name)
      BY <1>1, <1>4
    <3>2. 0 \in 0..n
      OBVIOUS
    <3> QED
      BY <3>1, <3>2 DEF Opens
  <2> QED
    BY <2>1, <2>2 DEF o
<1>5. CASE hits # {}
  <2>1. o \in hits /\ \A i \in hits : o <= i
    BY <1>2, <1>3, <1>5 DEF o
  <2>2. o \in 1..n
    BY <1>1, <2>1
  <2> QED
    BY <1>1, <2>1, <2>2 DEF Opens, o
<1> QED
  BY <1>4, <1>5

\* A line of another kind sets nothing; one of the kind sets it.
LEMMA GivesStep ==
  ASSUME NEW file, NEW o \in Nat, NEW k \in Nat, NEW t, NEW v
  PROVE  /\ scan_string(file[k + 1]) # t /\ Gives(file, o, k, t, v) => Gives(file, o, k + 1, t, v)
         /\ scan_string(file[k + 1]) = t /\ o <= k => Gives(file, o, k + 1, t, file[k + 1].text)
<1>1. ASSUME scan_string(file[k + 1]) # t, Gives(file, o, k, t, v) PROVE Gives(file, o, k + 1, t, v)
  <2>1. Lines(file, k + 1, t) = Lines(file, k, t)
    <3>1. Lines(file, k + 1, t) =
            IF scan_string(file[k + 1]) = t THEN Lines(file, k, t) \cup {k + 1} ELSE Lines(file, k, t)
      BY LinesStep
    <3> QED
      BY <1>1, <3>1
  <2> QED
    BY <1>1, <2>1 DEF Gives
<1>2. ASSUME scan_string(file[k + 1]) = t, o <= k PROVE Gives(file, o, k + 1, t, file[k + 1].text)
  <2> DEFINE set == {j \in Lines(file, k + 1, t) : j > o}
  <2>1. set \in SUBSET (0..(k + 1)) /\ k + 1 \in set
    BY <1>2 DEF Lines
  <2>2. Max(set) = k + 1
    <3>1. Max(set) \in set /\ \A j \in set : j <= Max(set)
      <4> HIDE DEF set
      <4>1. k + 1 \in Nat
        OBVIOUS
      <4> QED
        BY <2>1, <4>1, GreatestOf
    <3> QED
      BY <2>1, <3>1
  <2> QED
    BY <2>2 DEF Gives
<1> QED
  BY <1>1, <1>2

\* A line that ends no stanza changes no end; one that does adds itself.
LEMMA ClosingsStep ==
  ASSUME NEW file, NEW o \in Nat, NEW k \in Nat
  PROVE  /\ Closings(file, o, k) \in SUBSET Nat
         /\ o >= k => Closings(file, o, k) = {}
         /\ scan_string(file[k + 1]) # TOKEN_CLOSE => Closings(file, o, k + 1) = Closings(file, o, k)
         /\ scan_string(file[k + 1]) = TOKEN_CLOSE /\ o <= k =>
              /\ Closings(file, o, k) = {} => Closings(file, o, k + 1) = {k + 1}
              /\ Closings(file, o, k) # {} =>
                   Closings(file, o, k + 1) # {} /\ Min(Closings(file, o, k + 1)) = Min(Closings(file, o, k))
<1> DEFINE A == Closings(file, o, k)
           B == Closings(file, o, k + 1)
<1>1. A \in SUBSET (1..k) /\ B \in SUBSET (1..(k + 1)) /\ (o >= k => A = {})
  BY DEF Closings, Lines
<1>2. scan_string(file[k + 1]) # TOKEN_CLOSE => B = A
  BY LinesStep DEF Closings
<1>3. ASSUME scan_string(file[k + 1]) = TOKEN_CLOSE, o <= k PROVE B = A \cup {k + 1}
  <2>1. Lines(file, k + 1, TOKEN_CLOSE) = Lines(file, k, TOKEN_CLOSE) \cup {k + 1}
    BY <1>3, LinesStep
  <2> QED
    BY <1>3, <2>1 DEF Closings
<1> HIDE DEF A, B
<1>4. ASSUME B = A \cup {k + 1}, A # {} PROVE Min(B) = Min(A)
  <2>1. A \in SUBSET Nat /\ B \in SUBSET Nat /\ A \subseteq B
        /\ (\A j \in B : j <= k => j \in A) /\ (\A j \in A : j <= k)
    BY <1>1, <1>4
  <2> QED
    BY <1>4, <2>1, FirstIsFirst
<1>5. A \in SUBSET Nat
  BY <1>1
<1> QED
  BY <1>1, <1>2, <1>3, <1>4, <1>5 DEF A, B

\* One line more, when the parse can go on.
LEMMA ContentStep ==
  ASSUME NEW T, NEW n \in Nat, NEW file, NEW name, NEW o, Opens(file, n, name, o),
         NEW k \in Nat, k < n, NEW p \in Parses(T), Content(file, name, o, k, p),
         NEW q, q = parse_line(p, file[k + 1]),
         p.at \in {"top", "stanza"}, q.at \in {"top", "stanza"}
  PROVE  Content(file, name, o, k + 1, q)
<1> DEFINE t == scan_string(file[k + 1])
           text == file[k + 1].text
<1> USE DEF TOKEN_SERVER, TOKEN_ORDER, TOKEN_MATCH, TOKEN_CLOSE, TOKEN_COMMENT, TOKEN_BLANK, TOKEN_NONE
<1>1. /\ o \in Nat
      /\ t = TOKEN_SERVER /\ text = name => o # 0 /\ o <= k + 1
      /\ o = k + 1 => t = TOKEN_SERVER /\ text = name
  BY DEF Opens
<1>2. /\ o >= k + 1 => Closings(file, o, k + 1) = {}
      /\ t # TOKEN_CLOSE => Closings(file, o, k + 1) = Closings(file, o, k)
  BY <1>1, ClosingsStep
<1>3. CASE p.at = "top" /\ t \in {TOKEN_COMMENT, TOKEN_BLANK}
  <2>1. q = p
    BY <1>3 DEF parse_line, parse_rule_section
  <2>2. o # k + 1 /\ Closings(file, o, k + 1) = Closings(file, o, k)
    BY <1>1, <1>2, <1>3
  <2>3. (o = 0 \/ k + 1 < o) => (o = 0 \/ k < o)
    BY <1>1
  <2>4. o # 0 /\ o <= k + 1 => o <= k
    BY <1>1, <2>2
  <2> QED
    BY <1>3, <2>1, <2>2, <2>3, <2>4 DEF Content
<1>4. CASE p.at = "top" /\ t = TOKEN_SERVER
  <2>1. q = [p EXCEPT !.at = "stanza", !.s.name = text]
    BY <1>4 DEF parse_line, parse_rule_section
  <2>2. q.at = "stanza" /\ q.s.name = text /\ q.sections = p.sections
    BY <2>1 DEF Parses, Sections
  <2>3. Named(q, name) = Named(p, name) /\ Closings(file, o, k + 1) = Closings(file, o, k)
    BY <1>2, <1>4, <2>2 DEF Named
  <2>4. CASE o = 0 \/ k + 1 < o
    <3>1. text # name /\ (o = 0 \/ k < o)
      BY <1>1, <1>4, <2>4
    <3>2. ~(o # 0 /\ o <= k + 1)
      BY <1>1, <2>4
    <3> QED
      BY <2>2, <2>3, <3>1, <3>2 DEF Content
  <2>5. CASE o = k + 1
    <3>1. k < o /\ text = name /\ Closings(file, o, k + 1) = {}
      BY <1>1, <1>2, <2>5
    <3>2. \A x : {j \in Lines(file, k + 1, x) : j > o} = {}
      BY <2>5 DEF Lines
    <3>3. Fields(file, o, k + 1, q.s)
      BY <3>2 DEF Fields, Gives
    <3>4. ~(o = 0 \/ k + 1 < o)
      BY <2>5
    <3> QED
      BY <2>2, <2>3, <3>1, <3>3, <3>4 DEF Content
  <2>6. CASE o # 0 /\ o <= k
    <3>1. ~(o = 0 \/ k + 1 < o) /\ Closings(file, o, k) # {}
      BY <1>1, <1>4, <2>6 DEF Content
    <3> QED
      BY <2>2, <2>3, <2>6, <3>1 DEF Content
  <2> QED
    BY <1>1, <2>4, <2>5, <2>6
<1>5. CASE p.at = "stanza" /\ t \in {TOKEN_ORDER, TOKEN_MATCH}
  <2>1. /\ q.at = "stanza" /\ q.s.name = p.s.name /\ q.sections = p.sections
        /\ q.s.order = IF t = TOKEN_ORDER THEN text ELSE p.s.order
        /\ q.s.match = IF t = TOKEN_MATCH THEN text ELSE p.s.match
    <3>1. CASE t = TOKEN_ORDER
      <4>1. q = [p EXCEPT !.s.order = text]
        BY <1>5, <3>1 DEF parse_line, parse_rule_apc_param
      <4> QED
        BY <1>5, <3>1, <4>1 DEF Parses, Sections
    <3>2. CASE t = TOKEN_MATCH
      <4>1. q = [p EXCEPT !.s.match = text]
        BY <1>5, <3>2 DEF parse_line, parse_rule_apc_param
      <4> QED
        BY <1>5, <3>2, <4>1 DEF Parses, Sections
    <3> QED
      BY <1>5, <3>1, <3>2
  <2>2. o # k + 1 /\ Named(q, name) = Named(p, name) /\ Closings(file, o, k + 1) = Closings(file, o, k)
    BY <1>1, <1>2, <1>5, <2>1 DEF Named
  <2>3. CASE o = 0 \/ k + 1 < o
    <3>1. (o = 0 \/ k < o) /\ ~(o # 0 /\ o <= k + 1)
      BY <1>1, <2>3
    <3> QED
      BY <1>5, <2>1, <2>2, <3>1 DEF Content
  <2>4. CASE o # 0 /\ o <= k
    <3>1. ~(o = 0 \/ k + 1 < o)
      BY <1>1, <2>4
    <3>2. ASSUME Fields(file, o, k, p.s) PROVE Fields(file, o, k + 1, q.s)
      <4>1. Gives(file, o, k + 1, TOKEN_ORDER, q.s.order)
        BY <1>1, <1>5, <2>1, <2>4, <3>2, GivesStep DEF Fields
      <4>2. Gives(file, o, k + 1, TOKEN_MATCH, q.s.match)
        BY <1>1, <1>5, <2>1, <2>4, <3>2, GivesStep DEF Fields
      <4> QED
        BY <4>1, <4>2 DEF Fields
    <3> QED
      BY <1>5, <2>1, <2>2, <2>4, <3>1, <3>2 DEF Content
  <2> QED
    BY <1>1, <2>2, <2>3, <2>4
<1>6. CASE p.at = "stanza" /\ t = TOKEN_CLOSE
  <2>1. q.at = "top" /\ q.sections = Append(p.sections, p.s)
    <3>1. q = parse_rule_top(p)
      BY <1>6 DEF parse_line, parse_rule_apc_param
    <3>2. q = [p EXCEPT !.at = "top", !.sections = Append(@, p.s)]
      BY <3>1 DEF parse_rule_top, Parses
    <3> QED
      BY <3>2 DEF Parses
  <2> DEFINE c == Len(p.sections)
  <2>2. /\ c \in Nat /\ DOMAIN p.sections = 1..c
        /\ DOMAIN q.sections = 1..(c + 1) /\ q.sections[c + 1] = p.s
        /\ \A m \in 1..c : q.sections[m] = p.sections[m]
    BY <2>1 DEF Parses
  <2> HIDE DEF c
  <2>3. /\ Named(p, name) \in SUBSET (1..c)
        /\ Named(q, name) \in SUBSET (1..(c + 1))
        /\ \A m \in 1..c : m \in Named(q, name) <=> m \in Named(p, name)
        /\ c + 1 \in Named(q, name) <=> p.s.name = name
    BY <2>2 DEF Named
  <2>4. o # k + 1
    BY <1>1, <1>6
  <2>5. CASE o = 0 \/ k + 1 < o
    <3>1. (o = 0 \/ k < o) /\ ~(o # 0 /\ o <= k + 1)
      BY <1>1, <2>5
    <3>2. Named(p, name) = {} /\ p.s.name # name
      BY <1>6, <3>1 DEF Content
    <3>3. Named(q, name) = {}
      BY <2>2, <2>3, <3>2
    <3> QED
      BY <2>1, <3>1, <3>3 DEF Content
  <2>6. CASE o # 0 /\ o <= k /\ Closings(file, o, k) = {}
    <3>1. p.s.name = name /\ Named(p, name) = {} /\ Fields(file, o, k, p.s)
      BY <2>6 DEF Content
    <3>2. Named(q, name) = {c + 1} /\ Closings(file, o, k + 1) = {k + 1}
      <4>1. Named(q, name) = {c + 1}
        BY <2>2, <2>3, <3>1
      <4> QED
        BY <1>1, <1>6, <2>6, <4>1, ClosingsStep
    <3>3. Min(Named(q, name)) = c + 1 /\ Min(Closings(file, o, k + 1)) = k + 1
      <4>1. {c + 1} \in SUBSET Nat /\ {k + 1} \in SUBSET Nat /\ {c + 1} # {} /\ {k + 1} # {}
        BY <2>2
      <4>2. Min({c + 1}) \in {c + 1} /\ Min({k + 1}) \in {k + 1}
        BY <4>1, LeastOf
      <4> QED
        BY <3>2, <4>2
    <3>4. Fields(file, o, k + 1, p.s)
      BY <1>1, <1>6, <3>1, GivesStep DEF Fields
    <3>5. ~(o = 0 \/ k + 1 < o)
      BY <1>1, <2>6
    <3> QED
      BY <2>2, <3>2, <3>3, <3>4, <3>5 DEF Content
  <2>7. CASE o # 0 /\ o <= k /\ Closings(file, o, k) # {}
    <3>1. Named(p, name) # {} /\ Fields(file, o, Min(Closings(file, o, k)), p.sections[Min(Named(p, name))])
      BY <2>7 DEF Content
    <3>2. Closings(file, o, k + 1) # {} /\ Min(Closings(file, o, k + 1)) = Min(Closings(file, o, k))
      BY <1>1, <1>6, <2>7, ClosingsStep
    <3>3. Named(q, name) # {} /\ Min(Named(q, name)) = Min(Named(p, name)) /\ Min(Named(p, name)) \in 1..c
      <4> DEFINE A == Named(p, name)
                 B == Named(q, name)
      <4>1. A # {} /\ A \in SUBSET Nat /\ B \in SUBSET Nat /\ A \subseteq B
            /\ (\A m \in B : m <= c => m \in A) /\ (\A m \in A : m <= c)
        BY <2>2, <2>3, <3>1
      <4> HIDE DEF A, B
      <4>2. Min(A) = Min(B) /\ Min(A) \in A
        BY <2>2, <4>1, FirstIsFirst
      <4> QED
        BY <2>3, <4>1, <4>2 DEF A, B
    <3>4. ~(o = 0 \/ k + 1 < o)
      BY <1>1, <2>7
    <3> QED
      BY <2>2, <3>1, <3>2, <3>3, <3>4 DEF Content
  <2> QED
    BY <1>1, <2>4, <2>5, <2>6, <2>7
<1>7. CASE \/ p.at = "top" /\ t \notin {TOKEN_SERVER, TOKEN_COMMENT, TOKEN_BLANK}
           \/ p.at = "stanza" /\ t \notin {TOKEN_ORDER, TOKEN_MATCH, TOKEN_CLOSE}
  <2>1. q = [p EXCEPT !.at = "error"] \/ q = [p EXCEPT !.at = "crash"]
    BY <1>7 DEF parse_line, parse_rule_section, parse_rule_apc_param
  <2>2. q.at \in {"error", "crash"}
    BY <2>1 DEF Parses
  <2> QED
    BY <2>2
<1> QED
  BY <1>3, <1>4, <1>5, <1>6, <1>7

\* So it is after every line, as long as nothing is wrong.
LEMMA ContentHolds ==
  ASSUME NEW T, NEW file \in DefsFile(T), NEW s \in Sections(T), NEW name,
         NEW o, Opens(file, Len(file), name, o)
  PROVE  \A k \in 0..Len(file) : Fine(file, k) => Content(file, name, o, k, Parsed(file, s)[k])
<1> DEFINE n == Len(file)
           P == Parsed(file, s)
           G == {k \in 0..n : Fine(file, k) => Content(file, name, o, k, P[k])}
<1>1. n \in Nat /\ o \in Nat
  BY DEF DefsFile, Opens
<1>2. P[0] = Parsing(s) /\ \A k \in 1..n : P[k] = parse_line(P[k - 1], file[k])
  BY <1>1, ParsedIs
<1>3. \A k \in 0..n : P[k] \in Parses(T) /\ Shape(file, k, P[k])
  BY ShapeHolds
<1> HIDE DEF n, P
<1>4. 0 \in G
  <2>1. Named(Parsing(s), name) = {} /\ Parsing(s).at = "top"
    BY DEF Named, Parsing
  <2>2. Content(file, name, o, 0, Parsing(s))
    <3>1. o = 0 \/ 0 < o
      BY <1>1
    <3>2. ~(o # 0 /\ o <= 0)
      BY <1>1
    <3> QED
      BY <2>1, <3>1, <3>2 DEF Content
  <2> QED
    BY <1>1, <1>2, <2>2
<1>5. ASSUME NEW k \in 0..n, k < n, k \in G PROVE k + 1 \in G
  <2>1. k \in Nat /\ k + 1 \in 0..n /\ P[k + 1] = parse_line(P[k], file[k + 1])
    <3>1. k \in Nat /\ k + 1 \in 1..n /\ k + 1 \in 0..n /\ (k + 1) - 1 = k
      BY <1>1, <1>5
    <3> QED
      BY <1>2, <3>1
  <2>2. ASSUME Fine(file, k + 1) PROVE Content(file, name, o, k + 1, P[k + 1])
    <3>1. Fine(file, k)
      BY <2>1, <2>2, FineStep
    <3>2. P[k].at \in {"top", "stanza"} /\ P[k + 1].at \in {"top", "stanza"} /\ P[k] \in Parses(T)
      BY <1>3, <2>1, <2>2, <3>1 DEF Shape
    <3>3. Content(file, name, o, k, P[k])
      BY <1>5, <3>1
    <3>4. Opens(file, n, name, o)
      BY DEF n
    <3> QED
      BY <1>1, <1>5, <2>1, <3>2, <3>3, <3>4, ContentStep
  <2> QED
    BY <2>1, <2>2
<1>6. \A k \in 0..n : k \in G
  <2> HIDE DEF G
  <2> QED
    BY <1>1, <1>4, <1>5, UpTo
<1> QED
  BY <1>6 DEF n, P

-----------------------------------------------------------------------------
(* What apconf_read returns.                                               *)

\* Its types.
LEMMA ReadType ==
  ASSUME NEW T, NEW file \in DefsFile(T), NEW s \in Sections(T)
  PROVE  apconf_read(file, s) \in Parses(T) /\ apconf_read(file, s).at # "stanza"
<1> DEFINE p == Parsed(file, s)[Len(file)]
<1>1. Len(file) \in Nat
  BY DEF DefsFile
<1>2. p \in Parses(T)
  BY <1>1, ShapeHolds
<1> HIDE DEF p
<1>3. p.at # "stanza" => p \in Parses(T) /\ p.at # "stanza"
  BY <1>2
<1>4. [p EXCEPT !.at = "crash"] \in Parses(T) /\ [p EXCEPT !.at = "crash"].at = "crash"
  BY <1>2 DEF Parses
<1> QED
  BY <1>3, <1>4 DEF apconf_read, p

\* For a file of any length, the parser accepts it exactly if it consists of whole
\* stanzas, and not too many.
THEOREM AcceptsWellFormed ==
  ASSUME NEW T, NEW file \in DefsFile(T), NEW s \in Sections(T)
  PROVE  apconf_read(file, s).at = "top" <=> WellFormed(file)
<1> DEFINE n == Len(file)
           p == Parsed(file, s)[n]
<1>1. n \in Nat /\ DOMAIN file = 1..n
  BY DEF DefsFile
<1>2. p \in Parses(T) /\ Shape(file, n, p)
  BY <1>1, ShapeHolds
<1>3. apconf_read(file, s).at = "top" <=> p.at = "top"
  <2>1. p.at = "stanza" => apconf_read(file, s).at = "crash"
    BY <1>2 DEF apconf_read, Parses
  <2>2. p.at # "stanza" => apconf_read(file, s) = p
    BY DEF apconf_read
  <2> QED
    BY <2>1, <2>2
<1> HIDE DEF p, n
<1>4. p.at = "top" <=> Fine(file, n) /\ Depth(file, n) = 0
  BY <1>2 DEF Shape, Parses
<1>5. WellFormed(file) <=> Fine(file, n) /\ Depth(file, n) = 0
  BY <1>1 DEF WellFormed, Fine, InPlace, n
<1> QED
  BY <1>3, <1>4, <1>5

\* In a file that it accepts it finds a stanza of any name exactly if one opens, and
\* the settings of the first of that name are those written in it, as far as they are.
THEOREM FindsWritten ==
  ASSUME NEW T, NULL \notin Sections(T), NEW file \in DefsFile(T), NEW s \in Sections(T),
         WellFormed(file), NEW name,
         NEW a, a = apconf_getsec(apconf_read(file, s).sections, name)
  PROVE  /\ a \in Sections(T) \cup {NULL}
         /\ a = NULL <=> Opening(file, name) = 0
         /\ a # NULL =>
              /\ Setting(file, name, TOKEN_ORDER) \in {NULL, a.order}
              /\ Setting(file, name, TOKEN_MATCH) \in {NULL, a.match}
<1> DEFINE n == Len(file)
           p == Parsed(file, s)[n]
           o == Opening(file, name)
<1>1. n \in Nat /\ DOMAIN file = 1..n
  BY DEF DefsFile
<1>2. p \in Parses(T) /\ Shape(file, n, p)
  BY <1>1, ShapeHolds
<1>3. Opens(file, n, name, o)
  BY <1>1, OpeningIs
<1>4. Fine(file, n) /\ Depth(file, n) = 0
  BY <1>1 DEF WellFormed, Fine, InPlace
<1>5. p.at = "top"
  BY <1>2, <1>4 DEF Shape
<1>6. Content(file, name, o, n, p)
  BY <1>1, <1>3, <1>4, ContentHolds
<1>7. a = IF Named(p, name) = {} THEN NULL ELSE p.sections[Min(Named(p, name))]
  <2>1. apconf_read(file, s) = p
    BY <1>5 DEF apconf_read
  <2> QED
    BY <2>1 DEF apconf_getsec, Named
<1>8. Named(p, name) # {} => p.sections[Min(Named(p, name))] \in Sections(T)
  <2>1. Named(p, name) \in SUBSET (DOMAIN p.sections) /\ Named(p, name) \in SUBSET Nat /\ p.sections \in Seq(Sections(T))
    BY <1>2 DEF Named, Parses
  <2>2. Named(p, name) # {} => Min(Named(p, name)) \in DOMAIN p.sections
    BY <2>1, LeastOf
  <2> QED
    BY <2>1, <2>2
<1>9. Closing(file, o) = Min(Closings(file, o, n))
  BY DEF Closing, Closings
<1>10. \A t : Setting(file, name, t) =
         LET set == {j \in Lines(file, Closing(file, o), t) : j > o}
         IN  IF set = {} THEN NULL ELSE file[Max(set)].text
  BY DEF Setting
<1> HIDE DEF p, n, o
<1>11. CASE o = 0
  <2>1. Named(p, name) = {}
    BY <1>6, <1>11 DEF Content
  <2> QED
    BY <1>7, <1>11, <2>1 DEF o
<1>12. CASE o # 0
  <2>1. o \in Nat /\ o <= n
    BY <1>1, <1>3 DEF Opens
  <2>2. Named(p, name) # {} /\ Fields(file, o, Closing(file, o), p.sections[Min(Named(p, name))])
    BY <1>5, <1>6, <1>9, <1>12, <2>1 DEF Content
  <2>3. a \in Sections(T) /\ Fields(file, o, Closing(file, o), a)
    BY <1>7, <1>8, <2>2
  <2>4. /\ Setting(file, name, TOKEN_ORDER) \in {NULL, a.order}
        /\ Setting(file, name, TOKEN_MATCH) \in {NULL, a.match}
    BY <1>10, <2>3 DEF Fields, Gives
  <2> QED
    BY <1>12, <2>3, <2>4 DEF o
<1> QED
  BY <1>11, <1>12
=============================================================================
