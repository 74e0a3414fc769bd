--------------------------- MODULE MCTokenGrants ---------------------------
(* TokenGrants on a user and an alias of the user, for TLC. *)
EXTENDS TokenGrants

CONSTANTS user, alias, t1, s1, s2, c1

TwoNames  == {user, alias}
OneToken  == {t1}
TwoWs     == {s1, s2}
OneTcp    == {c1}

\* the socket and the header hold the username, whichever access key was given
ToUser   == [n \in Names |-> user]

Near     == {4, 5}
=============================================================================
