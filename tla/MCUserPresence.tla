--------------------------- MODULE MCUserPresence ---------------------------
(* UserPresence of a user with a desk phone and a second extension, for TLC. *)
EXTENDS UserPresence, TLC

CONSTANTS e1, e2, mobile

TwoExtens == <<e1, e2>>
OneDest   == {mobile}

\* with and without the endpoints; the number a call is forwarded to is the cellphone
\* of the first configuration and no endpoint of the second
BothConfigurations ==
  {[cellphone |-> mobile, voicemail |-> TRUE], [cellphone |-> Off, voicemail |-> FALSE]}

AllChannels == {"always", "busy", "unavailable"}
=============================================================================
