----------------------------- MODULE MCAuthText -----------------------------
(***************************************************************************)
(* Instances of the text database for TLC.                                 *)
(***************************************************************************)
EXTENDS AuthTextService, FiniteSets

\* SIGALRM arrives wherever main bears it.
MCHarmless == Points \ (Growing \cup Entering \cup Writing)

\* SIGALRM arrives anywhere, as the code lets it.
MCAsync == Points

\* Nothing is followed any further once three kinds of thing have gone wrong.
MCUpsets == Cardinality(upset) <= 2
=============================================================================
