-------------------------------- MODULE Apconf --------------------------------
(***************************************************************************)
(* The parser of the server definitions, apconf.c, as a function of the    *)
(* lines of the file.  A line is the set of the token expressions that     *)
(* match somewhere in it (they are not anchored), and the text that the    *)
(* first of them captures.  A line without its newline matches none.       *)
(***************************************************************************)
EXTENDS Integers, SequencesExt

CONSTANTS
  SECTION_MAX,  \* stanzas a file may have (16 in the source)
  NULL          \* the null pointer

ASSUME SectionMaxOK == SECTION_MAX \in Nat

\* token, in the order of token_regex
TOKEN_SERVER  == 0
TOKEN_ORDER   == 1
TOKEN_MATCH   == 2
TOKEN_CLOSE   == 3
TOKEN_COMMENT == 4
TOKEN_BLANK   == 5
TOKEN_NONE    == -1
TokenStrings  == TOKEN_SERVER..TOKEN_BLANK

\* The first expression that matches decides: a stanza in a comment is a stanza.
scan_string(line) == IF line.has = {} THEN TOKEN_NONE ELSE Min(line.has)

\* A parse under way: where it is, the static section s, and the stanzas so far.
\* "error" is a NULL that reaches server_check, "crash" one that parse_rule_section
\* follows (p->t).
Parsing(s) == [at |-> "top", s |-> s, sections |-> <<>>]

\* A section of the table: pointers to texts.
Sections(texts) ==
  [name : texts \cup {NULL}, order : texts \cup {NULL}, match : texts \cup {NULL}]

Section0 == [name |-> NULL, order |-> NULL, match |-> NULL]

\* A stanza has ended: the static section is copied into the table.
parse_rule_top(p) ==
  IF Len(p.sections) = SECTION_MAX THEN [p EXCEPT !.at = "error"]
  ELSE [p EXCEPT !.at = "top", !.sections = Append(@, p.s)]

\* A line outside a stanza.  A new stanza keeps the order and match of the last one.
parse_rule_section(p, line) ==
  LET t == scan_string(line) IN
  CASE t \in {TOKEN_COMMENT, TOKEN_BLANK} -> p
    [] t = TOKEN_SERVER -> [p EXCEPT !.at = "stanza", !.s.name = line.text]
    [] OTHER -> [p EXCEPT !.at = "error"]

\* Mutant: the first setting of a stanza counts, not the last.
parse_rule_apc_param_once(p, line) ==
  LET t == scan_string(line) IN
  CASE t = TOKEN_ORDER -> IF p.s.order = NULL THEN [p EXCEPT !.s.order = line.text] ELSE p
    [] t = TOKEN_MATCH -> [p EXCEPT !.s.match = line.text]
    [] t = TOKEN_CLOSE -> parse_rule_top(p)
    [] OTHER -> [p EXCEPT !.at = "crash"]

\* A line inside a stanza.
parse_rule_apc_param(p, line) ==
  LET t == scan_string(line) IN
  CASE t = TOKEN_ORDER -> [p EXCEPT !.s.order = line.text]
    [] t = TOKEN_MATCH -> [p EXCEPT !.s.match = line.text]
    [] t = TOKEN_CLOSE -> parse_rule_top(p)
    [] OTHER -> [p EXCEPT !.at = "crash"]

parse_line(p, line) ==
  CASE p.at = "top"    -> parse_rule_section(p, line)
    [] p.at = "stanza" -> parse_rule_apc_param(p, line)
    [] OTHER           -> p

\* What has come of the parse after each line.
Parsed(file, s) ==
  LET p[k \in 0..Len(file)] == IF k = 0 THEN Parsing(s) ELSE parse_line(p[k - 1], file[k])
  IN  p

\* The whole file; the end of it inside a stanza is TOKEN_EOF to parse_rule_apc_param.
apconf_read(file, s) ==
  LET p == Parsed(file, s)[Len(file)]
  IN  IF p.at = "stanza" THEN [p EXCEPT !.at = "crash"] ELSE p

\* Mutant: the last stanza of that name.
apconf_getsec_last(sections, name) ==
  LET hits == {k \in DOMAIN sections : sections[k].name = name}
  IN  IF hits = {} THEN NULL ELSE sections[Max(hits)]

\* The first stanza of that name, or NULL.
apconf_getsec(sections, name) ==
  LET hits == {k \in DOMAIN sections : sections[k].name = name}
  IN  IF hits = {} THEN NULL ELSE sections[Min(hits)]

-----------------------------------------------------------------------------
(* What a file says, without parsing it.                                   *)

\* Lines of file up to line i that are token t.
Lines(file, i, t) == {j \in 1..i : scan_string(file[j]) = t}

\* Inside how many stanzas the line after line i is.
Depth(file, i) ==
  Cardinality(Lines(file, i, TOKEN_SERVER)) - Cardinality(Lines(file, i, TOKEN_CLOSE))

WellFormed(file) ==
  /\ \A i \in DOMAIN file :
       \/ Depth(file, i - 1) = 0 /\ scan_string(file[i]) \in {TOKEN_SERVER, TOKEN_COMMENT, TOKEN_BLANK}
       \/ Depth(file, i - 1) = 1 /\ scan_string(file[i]) \in {TOKEN_ORDER, TOKEN_MATCH, TOKEN_CLOSE}
  /\ Depth(file, Len(file)) = 0
  /\ Cardinality(Lines(file, Len(file), TOKEN_CLOSE)) <= SECTION_MAX

\* The line that opens the first stanza of that name, and the one that closes it.
Opening(file, name) ==
  LET hits == {i \in Lines(file, Len(file), TOKEN_SERVER) : file[i].text = name}
  IN  IF hits = {} THEN 0 ELSE Min(hits)
Closing(file, i) == Min({j \in Lines(file, Len(file), TOKEN_CLOSE) : j > i})

\* The last setting t of the stanza called name; NULL if it has none.
Setting(file, name, t) ==
  LET i == Opening(file, name)
      set == {j \in Lines(file, Closing(file, i), t) : j > i}
  IN  IF set = {} THEN NULL ELSE file[Max(set)].text

\* The stanza is there and gives both settings itself.
Complete(file, name) ==
  /\ WellFormed(file)
  /\ Opening(file, name) # 0
  /\ NULL \notin {Setting(file, name, TOKEN_ORDER), Setting(file, name, TOKEN_MATCH)}
=============================================================================
