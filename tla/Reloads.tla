------------------------------ MODULE Reloads ------------------------------
(***************************************************************************)
(* The reload of the application: the request received by com_ipc, the     *)
(* reload of each component (reset, the configuration files read again,    *)
(* the event reloaded), the late answer of astproxy, on which the users    *)
(* are read, the barrier of nethcti.js that counts the components and the  *)
(* connections that dbconn opens again.                                    *)
(*                                                                         *)
(* A component is a record: the files its reload reads, whether it is      *)
(* emptied first, and whether it says reloaded even when a file could not  *)
(* be read (most configurations catch their own errors and go on).         *)
(***************************************************************************)
EXTENDS Naturals, FiniteSets

CONSTANTS
  MaxReloads,   \* bound on the requests of a reload
  MaxEdits,     \* bound on the changes of the files by other programs
  MaxOpened     \* bound on the connections opened to a migrated database

ASSUME BoundsAreNaturals ==
  MaxReloads \in Nat /\ MaxEdits \in Nat /\ MaxOpened \in Nat \ {0}

VARIABLES
  broken,     \* files that are missing or cannot be parsed
  edits,      \* how many times a file was changed
  round,      \* 1 at the start, and one more at each request
  conf,       \* component -> round whose files it has, 0 when it is empty
  status,     \* allCompReloadStatus
  last,       \* component -> round of its last event reloaded
  starting,   \* astproxy: starts whose answers have not come
  told,       \* round in which serverReloaded was last sent, 0 if never
  opened,     \* how many connections were opened to a migrated database
  open,       \* those that are open
  current     \* dbConn[name]: the one queries are sent to

brokenVars == <<broken, edits>>
barrierVars == <<conf, status, last, told>>
connVars == <<opened, open, current>>
vars == <<brokenVars, round, barrierVars, starting, connVars>>

\* The components whose service has "on" and EVT_RELOADED.
Lenient(files) == [reads |-> files, emptied |-> TRUE, anyway |-> TRUE]
Strict(files) == [reads |-> files, emptied |-> TRUE, anyway |-> FALSE]

videoconf == Lenient({"video_conf"})
streaming == Lenient({"streaming"})
operator == Lenient({"operator"})
com_nethcti_tcp == Lenient({"winpopup"})
com_nethcti_ws == Lenient({"nethcti"})
config_manager == Lenient({"nethcti", "chat", "phone_urls"})
authorization == Lenient({"users", "profiles", "nethcti"})
customer_card == Lenient({"services", "nethcti"})
logger == [reads |-> {"logger"}, emptied |-> FALSE, anyway |-> TRUE]
dbconn == [reads |-> {"nethcti", "dbstatic"}, emptied |-> FALSE, anyway |-> TRUE]
authentication == Strict({"authentication"})
user == Strict({"users"})
astproxy == Strict({"asterisk"})

Comp == [videoconf |-> videoconf, streaming |-> streaming, operator |-> operator,
         com_nethcti_tcp |-> com_nethcti_tcp, com_nethcti_ws |-> com_nethcti_ws,
         config_manager |-> config_manager, authorization |-> authorization,
         customer_card |-> customer_card, dbconn |-> dbconn, logger |-> logger,
         authentication |-> authentication, user |-> user, astproxy |-> astproxy]
Comps == DOMAIN Comp
Files == UNION {Comp[c].reads : c \in Comps}
Late == {"user", "astproxy"}

\* c could read all that its reload reads, and says so
Reads(c) == Comp[c].reads \cap broken = {}
Says(c) == Reads(c) \/ Comp[c].anyway

\* What c has after its reload in the round n.
ConfAfter(c, n) ==
  IF Reads(c) THEN n ELSE IF Comp[c].emptied THEN 0 ELSE conf[c]

Init ==
  /\ broken = {} /\ edits = 0
  /\ round = 1
  /\ conf = [c \in Comps |-> 1]
  /\ status = [c \in Comps |-> FALSE]
  /\ last = [c \in Comps |-> 0]
  /\ starting = 0
  /\ told = 0
  /\ opened = 1 /\ open = {1} /\ current = 1

\* Another program writes a file, whole or not.
Edit ==
  /\ edits < MaxEdits
  /\ edits' = edits + 1
  /\ \E f \in Files : broken' = IF f \in broken THEN broken \ {f} ELSE broken \cup {f}
  /\ UNCHANGED <<round, barrierVars, starting, connVars>>

initMysqlConnOld(others) ==
  /\ opened' = opened + 1
  /\ open' = others \cup {opened + 1}
  /\ UNCHANGED current

\* initMysqlConn: a connection is made, and it is the one of the database.
initMysqlConn(others) ==
  /\ opened' = opened + 1
  /\ open' = others \cup {opened + 1}
  /\ current' = opened + 1

\* reset of dbconn: the name sequelize is not defined there, so it throws
\* before it ends any connection, and the error is only logged.
resetDbconn == open

resetNoStatus == status

\* resetAllCompReloadStatus, before a request and after serverReloaded
resetAllCompReloadStatus == [c \in Comps |-> FALSE]

compReloadedLate(st, cs) ==
  LET now == [c \in Comps |-> st[c] \/ c \in cs]
  IN IF \A c \in Late : now[c]
     THEN status' = resetAllCompReloadStatus /\ told' = round
     ELSE status' = now /\ UNCHANGED told

\* compReloaded, for the components cs that emit reloaded one after another.
compReloaded(st, cs) ==
  LET now == [c \in Comps |-> st[c] \/ c \in cs]
  IN IF \A c \in Comps : now[c]
     THEN status' = resetAllCompReloadStatus /\ told' = round
     ELSE status' = now /\ UNCHANGED told

\* reloadApp, received by com_ipc: every component but the late ones reloads
\* in this step, customer_card and authentication when dbconn says reloaded;
\* astproxy is emptied and started again, and answers later.
ReloadApp ==
  /\ round <= MaxReloads /\ opened < MaxOpened
  /\ LET prompt == Comps \ Late
         says == {c \in prompt : Says(c)}
     IN /\ round' = round + 1
        /\ conf' = [c \in Comps |->
                      IF c = "user" THEN conf[c] ELSE ConfAfter(c, round + 1)]
        /\ last' = [c \in Comps |-> IF c \in says THEN round + 1 ELSE last[c]]
        /\ compReloaded(resetAllCompReloadStatus, says)
        /\ starting' = IF Reads("astproxy") THEN starting + 1 ELSE starting
  /\ initMysqlConn(resetDbconn)
  /\ UNCHANGED brokenVars

AstProxyAnswersAlone ==
  /\ starting > 0
  /\ starting' = starting - 1
  /\ last' = [last EXCEPT !["astproxy"] = round]
  /\ compReloaded(status, {"astproxy"})
  /\ UNCHANGED <<brokenVars, round, conf, connVars>>

\* astproxy has the state of Asterisk again and emits reloaded: the users are
\* read, and say so first, since their listener is the older one.
AstProxyAnswers ==
  LET says == {c \in Late : c = "astproxy" \/ Says(c)}
  IN /\ starting > 0
     /\ starting' = starting - 1
     /\ conf' = [conf EXCEPT !["user"] = ConfAfter("user", round)]
     /\ last' = [c \in Comps |-> IF c \in says THEN round ELSE last[c]]
     /\ compReloaded(status, says)
     /\ UNCHANGED <<brokenVars, round, connVars>>

\* A connection is lost: whichever it is, the one of the database is replaced.
ConnectionLost(id) ==
  /\ opened < MaxOpened
  /\ initMysqlConn(open \ {id})
  /\ UNCHANGED <<brokenVars, round, barrierVars, starting>>

Next ==
  \/ Edit
  \/ ReloadApp
  \/ AstProxyAnswers
  \/ \E id \in open : ConnectionLost(id)

Spec == Init /\ [][Next]_vars
FairSpec == Spec /\ WF_vars(AstProxyAnswers)
----------------------------------------------------------------------------
(* The state is well typed: a component has the files of a request that was
   made, or none, and the connection of a database is an open one. *)
TypeOK ==
  /\ broken \subseteq Files /\ edits \in 0..MaxEdits
  /\ round \in 1..(MaxReloads + 1)
  /\ conf \in [Comps -> 0..round] /\ last \in [Comps -> 0..round]
  /\ status \in [Comps -> BOOLEAN]
  /\ starting \in 0..MaxReloads /\ told \in 0..round
  /\ opened \in 1..MaxOpened /\ open \subseteq 1..opened /\ current \in open

(* The flags of nethcti.js (compReloaded, resetAllCompReloadStatus) keep the
   promise of ReloadBarrier: a component is behind while its last event is
   older than the last request. *)
Waiting == round > 1 /\ told # round
Behind == IF Waiting THEN {c \in Comps : last[c] < round} ELSE {}
Barrier == INSTANCE ReloadBarrier WITH waiting <- Waiting, behind <- Behind
BarrierKept == Barrier!Spec

(* When serverReloaded is sent, the components that do not hide their errors
   have the files of a time after the last request, however many requests and
   broken files came before the late answers (reload of authentication.js and
   controller_user.js, compReloaded of nethcti.js). *)
ToldAreRead ==
  [][told' # told => \A c \in {"authentication", "user"} : conf'[c] = round]_vars

(* A reload whose files can be read, and that astproxy goes on with, is
   announced, unless another request or a broken file comes between. *)
ReloadIsAnnounced ==
  \A n \in 2..(MaxReloads + 1) :
    (round = n /\ status["authentication"] /\ starting > 0)
      ~> (told = n \/ round > n \/ ~Reads("user"))
============================================================================
