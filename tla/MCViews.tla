------------------------------- MODULE MCViews -------------------------------
(* An instance of CustomViews for TLC. *)
EXTENDS CustomViews

\* A column of every source, one of phones and one of Local APKs.
AppliesDef == [file |-> {"c"}, device |-> {"c", "d"}, local |-> {"c", "l"}]
=============================================================================
