-------------------------------- MODULE Matcher --------------------------------
(***************************************************************************)
(* match.c: from the sub-expressions of a matching line to the user's and  *)
(* the host's name.  Names are sequences of characters; the expression     *)
(* itself is regexec's business.                                           *)
(***************************************************************************)
EXTENDS Integers, Sequences

CONSTANT MATCH_LOGIN_MAX  \* size of username and of hostname (255 in the source)

ASSUME MatchLoginMaxOK == MATCH_LOGIN_MAX \in Nat \ {0}

\* As much of a name as is copied.
Cut(name) == SubSeq(name, 1, IF Len(name) < MATCH_LOGIN_MAX THEN Len(name) ELSE MATCH_LOGIN_MAX)

\* Mutant: the two orders exchanged.
PositionsSwapped(order) ==
  IF order = "username,address" THEN [username |-> 3, hostname |-> 2]
                                ELSE [username |-> 2, hostname |-> 3]

\* Which sub-expressions hold the names; the first one is not used.
Positions(order) ==
  IF order = "username,address" THEN [username |-> 2, hostname |-> 3]
                                ELSE [username |-> 3, hostname |-> 2]

\* The names as the caller reads them.  A user's name that fills its array is
\* terminated in the first byte of the host's, which is then written over.
match_line(order, r) ==
  LET user == r[Positions(order).username]
      host == Cut(r[Positions(order).hostname])
  IN  [hostname |-> host,
       username |-> IF Len(user) < MATCH_LOGIN_MAX THEN user ELSE Cut(user) \o host]
=============================================================================
