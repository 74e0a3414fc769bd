---------------------------- MODULE CallHistory ----------------------------
(***************************************************************************)
(* Which calls the two queries on the table of the calls return:           *)
(* dbconn_history.js.                                                      *)
(*                                                                         *)
(* A row is a leg of a call: the numbers it joins, its disposition, and    *)
(*   trunkIn, trunkOut  it comes from a trunk, it goes to one;             *)
(*   forwarded          it is the second half of a Local channel, of a     *)
(*                      caller that is not an extension;                   *)
(*   elsewhere          the leg that gives the call its identifier was     *)
(*                      answered, and first when the row is of that leg.   *)
(* The dates and the text the client filters by are left out: they narrow  *)
(* every query.  The history of the groups is that of the switchboard with *)
(* the extensions of the groups: they narrow the internal calls only.      *)
(***************************************************************************)
CONSTANT Cdr            \* the rows of the table

IsAnswered(c) == c.disposition = "ANSWERED"
\* A row that was not answered and stands for no call that was.
Lost(c) == ~IsAnswered(c) /\ ~c.elsewhere
\* Of a call the rows not answered are left out when the first leg was; without
\* a direction only the rows of that leg, and those nobody refused.
Whole(c) == IsAnswered(c) \/ ~c.elsewhere
Distinct(c) == ~(c.disposition = "NO ANSWER" /\ c.first /\ c.elsewhere)

\* The calls of extens in a direction, "any" for all of them; noLost leaves
\* out the calls lost among those that come in.
Comes(c, extens) == c.cnum \notin extens /\ c.dst \in extens
Goes(c, extens) == c.cnum \in extens /\ c.dst \notin extens
getHistoryCallInterval(extens, direction, noLost) ==
  CASE direction = "in" -> {c \in Cdr : Comes(c, extens) /\ (noLost => IsAnswered(c))}
    [] direction = "out" -> {c \in Cdr : Goes(c, extens) /\ Whole(c)}
    [] direction = "lost" -> {c \in Cdr : Comes(c, extens) /\ Lost(c)}
    [] OTHER -> {c \in Cdr : (c.cnum \in extens \/ c.dst \in extens) /\ Distinct(c)}

\* The calls of the exchange.  A call forwarded between extensions counts among
\* those that come in.
Within(c, extens) == c.cnum \in extens /\ c.dst \in extens
ComesIn(c, extens) == c.trunkIn \/ (c.forwarded /\ Within(c, extens))
getHistorySwitchCallInterval(extens, type, noLost) ==
  CASE type = "in" -> {c \in Cdr : ComesIn(c, extens) /\ (noLost => IsAnswered(c))}
    [] type = "out" -> {c \in Cdr : c.trunkOut}
    [] type = "internal" ->
         {c \in Cdr : ~c.trunkIn /\ ~c.trunkOut /\ ~c.forwarded /\ Within(c, extens) /\ Whole(c)}
    [] type = "lost" -> {c \in Cdr : ComesIn(c, extens) /\ Lost(c)}
    [] OTHER -> {c \in Cdr : Distinct(c)}
=============================================================================
