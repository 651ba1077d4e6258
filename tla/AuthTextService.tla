-------------------------- MODULE AuthTextService ---------------------------
(***************************************************************************)
(* The text database as an implementation of RelayService.                 *)
(***************************************************************************)
EXTENDS AuthText

\* Entries that stand for sessions: those counted, and the one whose count is
\* about to be stored.
Counted == IF pc = "count" THEN auth_cur + 1 ELSE auth_cur

\* The time of h's login, as the table has it.
SessionOf(h) ==
  LET entries == {i \in 0..(Counted - 1) : buf[auth][i].hostname = h}
  IN  IF Running /\ ~Booting /\ entries # {}
        THEN buf[auth][CHOOSE i \in entries : TRUE].t
        ELSE Never

Service == INSTANCE RelayService WITH
  up      <- Running /\ ~Booting,
  session <- [h \in Hosts |-> SessionOf(h)],
  relay   <- Relayed

\* Where main bears SIGALRM and no write is cut short, the text database keeps
\* every promise of RelayService, publishing included.
ServiceSpec == Service!Spec

\* Wherever SIGALRM strikes: every step RelayService would not take is one after
\* SIGALRM has come at a bad moment, or a write was cut short.
ServiceSafety ==
  /\ Service!Init
  /\ [][upset' \subseteq {"failed"} => [Service!Next]_(Service!vars)]_vars
=============================================================================
