----------------------------- MODULE AutoQueues -----------------------------
(***************************************************************************)
(* The automatic login and logout of an agent: config_manager hears from   *)
(* com_nethcti_ws that a user logged in by websocket or that the last      *)
(* session ended (see WsSessions), and puts the main extension of the user *)
(* into its dynamic queues, or unpauses it and takes it out of them.       *)
(*                                                                         *)
(* What astproxy knows of the queues changes when Asterisk answers, in     *)
(* order, the commands of its one connection.  The two handlers look at it *)
(* when the event comes; the pauses are ended by an async.series, and the  *)
(* logout looks again when the series is over.                             *)
(***************************************************************************)
EXTENDS Integers, Sequences, FiniteSets

CONSTANTS
  QueueIds,     \* getQueueIdsOfExten of the main extension, in their order
  Dynamic,      \* queues where it is a dynamic member
  NoSeries,     \* a command that no series waits for
  MaxEvents,    \* bound: events of the websocket component
  MaxRequests,  \* bound: requests of users about the queues and the settings
  MaxFailures   \* bound: commands Asterisk answers with an error

Queues == {QueueIds[i] : i \in DOMAIN QueueIds}

ASSUME QueuesAreListed == QueueIds \in Seq(Queues) /\ Dynamic \subseteq Queues
ASSUME NoSeriesIsNone == NoSeries \notin Seq(Queues)
ASSUME BoundsAreNaturals == MaxEvents \in Nat /\ MaxRequests \in Nat /\ MaxFailures \in Nat

VARIABLES
  settings,   \* queue_auto_login and queue_auto_logout of the user
  members,    \* queues the extension is logged in, for astproxy
  paused,     \* those it is paused in
  commands,   \* commands sent on the connection and not answered
  present,    \* history: the last event said that the user is there
  clean,      \* history: since it, no other event and no user went against it
  refused,    \* history: since it, the commands Asterisk refused, with their queues
  events, requests, failures  \* counted for the bounds

queuesVars == <<settings, members, paused, commands, present, clean, refused,
               events, requests, failures>>
counters == <<events, requests, failures>>

\* series: the queues that the unpause series goes on with when this one is answered
Names == {"add", "add paused", "remove", "pause", "unpause"}
Command == [name : Names, queues : SUBSET Queues, series : Seq(Queues) \cup {NoSeries}]

QueuesTypeOK ==
  /\ settings \in [login : BOOLEAN, logout : BOOLEAN]
  /\ members \subseteq Queues /\ Queues \ Dynamic \subseteq members
  /\ paused \subseteq members
  /\ commands \in Seq(Command)
  /\ present \in BOOLEAN /\ clean \in BOOLEAN /\ refused \subseteq Names \X Queues
  /\ events \in 0..MaxEvents /\ requests \in 0..MaxRequests /\ failures \in 0..MaxFailures

\* the process starts: the queues are as they were left
QueuesInit ==
  /\ settings \in [login : BOOLEAN, logout : BOOLEAN]
  /\ members \in {S \in SUBSET Queues : Queues \ Dynamic \subseteq S}
  /\ paused \in SUBSET members
  /\ commands = <<>>
  /\ present = FALSE /\ clean = FALSE /\ refused = {}
  /\ events = 0 /\ requests = 0 /\ failures = 0

-----------------------------------------------------------------------------
\* the queues of S, in the order getQueueIdsOfExten has them
InOrder(S) ==
  LET I == {i \in DOMAIN QueueIds : QueueIds[i] \in S}
  IN  [k \in 1..Cardinality(I) |->
         QueueIds[CHOOSE i \in I : Cardinality({j \in I : j <= i}) = k]]

\* one command for each queue of S, in their order
ForEach(name, S) ==
  LET ids == InOrder(S)
  IN  [i \in DOMAIN ids |-> [name |-> name, queues |-> {ids[i]}, series |-> NoSeries]]

\* mutant: the test of isDynMemberLoggedInQueue is inverted
ToLogInAgain == Dynamic \cap members

\* checkQueueAutoLogin: dynamic, and not logged in
ToLogIn == Dynamic \ members

\* logoutAgentFromAllQueues: dynamic, and logged in at that moment
LogoutAgent(M) == ForEach("remove", Dynamic \cap M)

\* the next step of the series of queuesUnpauseAll, then its callback
Unpause(queues, M) ==
  IF queues = <<>> THEN LogoutAgent(M)
  ELSE <<[name |-> "unpause", queues |-> {Head(queues)}, series |-> Tail(queues)]>>

InFlight(names) == {i \in DOMAIN commands : commands[i].name \in names}

\* one more event of the websocket component
Event == events < MaxEvents /\ events' = events + 1 /\ refused' = {}

\* checkQueueAutoLogin on EVT_WS_CLIENT_LOGGEDIN, emitted by every login
CheckQueueAutoLogin ==
  /\ Event
  /\ commands' = commands \o (IF settings.login THEN ForEach("add", ToLogIn) ELSE <<>>)
  /\ present' = TRUE /\ clean' = (InFlight({"remove", "pause", "unpause"}) = {})
  /\ UNCHANGED <<settings, members, paused, requests, failures>>

\* checkQueueAutoLogout on EVT_ALL_WS_CLIENT_DISCONNECTION: the queues that are paused
\* now are unpaused one after the other, then the agent is logged out
CheckQueueAutoLogout ==
  /\ Event
  /\ LET queues == InOrder(paused)
     IN  commands' = commands \o
           (IF settings.logout THEN Unpause(queues, members) ELSE <<>>)
  /\ present' = FALSE /\ clean' = (InFlight({"add", "add paused", "pause"}) = {})
  /\ UNCHANGED <<settings, members, paused, requests, failures>>

\* queuemember_add, queuemember_remove, queuemember_pause and queuemember_unpause of
\* com_astproxy_rest: the user, or another one who may administer the queues; without
\* a queue the pauses are of all of them
Request(name, S) ==
  /\ requests < MaxRequests /\ requests' = requests + 1
  /\ commands' = Append(commands, [name |-> name, queues |-> S, series |-> NoSeries])
  /\ clean' = FALSE
  /\ UNCHANGED <<settings, members, paused, present, refused, events, failures>>

\* setQueueAutoLoginConf and setQueueAutoLogoutConf, when the table has the setting: it
\* is looked at by the next event only
SetQueueAutoConf(name, enable) ==
  /\ requests < MaxRequests /\ requests' = requests + 1
  /\ settings' = [settings EXCEPT ![name] = enable]
  /\ clean' = FALSE
  /\ UNCHANGED <<members, paused, commands, present, refused, events, failures>>

-----------------------------------------------------------------------------
(* The answer to the first command. *)

\* what goes on after it: a series with its next queue, with an error or without one
GoOn(command, M) ==
  commands' = Tail(commands) \o
    (IF command.series = NoSeries THEN <<>> ELSE Unpause(command.series, M))

\* Asterisk: only dynamic members leave, only members are paused, and a member that
\* leaves is not paused any more
Executed(command, M, P) ==
  LET Q == command.queues
  IN  CASE command.name = "add" -> members' = M \cup Q /\ paused' = P
        [] command.name = "add paused" -> members' = M \cup Q /\ paused' = P \cup (Q \ M)
        [] command.name = "remove" -> /\ members' = M \ (Q \cap Dynamic)
                                      /\ paused' = P \ (Q \cap Dynamic)
        [] command.name = "pause" -> members' = M /\ paused' = P \cup (Q \cap M)
        [] command.name = "unpause" -> members' = M /\ paused' = P \ Q

Answered ==
  /\ commands # <<>>
  /\ Executed(Head(commands), members, paused)
  /\ GoOn(Head(commands), members')
  /\ UNCHANGED <<settings, present, clean, refused, counters>>

Denied(command) == {command.name} \X command.queues

\* mutant: the error is passed to the callback, which ends the series
CommandFailedStops ==
  /\ commands # <<>>
  /\ failures < MaxFailures /\ failures' = failures + 1
  /\ commands' = Tail(commands)
  /\ refused' = refused \cup Denied(Head(commands))
  /\ UNCHANGED <<settings, members, paused, present, clean, events, requests>>

\* an error is logged, and unpauseQueue goes on all the same
CommandFailed ==
  /\ commands # <<>>
  /\ failures < MaxFailures /\ failures' = failures + 1
  /\ GoOn(Head(commands), members)
  /\ refused' = refused \cup Denied(Head(commands))
  /\ UNCHANGED <<settings, members, paused, present, clean, events, requests>>

QueuesNext ==
  \/ CheckQueueAutoLogin \/ CheckQueueAutoLogout
  \/ \E name \in Names, q \in Queues : Request(name, {q})
  \/ \E name \in {"pause", "unpause"} : Request(name, Queues)
  \/ \E name \in {"login", "logout"}, enable \in BOOLEAN : SetQueueAutoConf(name, enable)
  \/ Answered \/ CommandFailed

QueuesSpec == QueuesInit /\ [][QueuesNext]_queuesVars

\* Asterisk answers every command
FairQueuesSpec == QueuesSpec /\ WF_queuesVars(Answered \/ CommandFailed)

-----------------------------------------------------------------------------
(* Properties. *)

\* the queues of S but those for which Asterisk refused the command
But(S, name) == {q \in S : <<name, q>> \notin refused}

\* "it does the login of all dynamic extension of the user into their relative
\* queues" (609-613) and the logout (768-771): once everything is answered the agent
\* is where the last event wants it and not paused, whatever was in the queues before
\* and however events of the same kind overlap.  A command that Asterisk refused is
\* missing for its own queue only, the others are dealt with all the same.  What the
\* series of the opposite event that was still running does, or a user, is left out.
AgentFollowsSession ==
  commands = <<>> /\ clean =>
    /\ present /\ settings.login => But(Dynamic \ members, "add") = {}
    /\ ~present /\ settings.logout =>
         But(Dynamic \cap members, "remove") = {} /\ But(paused, "unpause") = {}

\* The series of unpauses (726-750) comes to its end and to the logout after it, even
\* when unpauses are refused: an agent who has gone only stays in the queues that
\* Asterisk did not take it out of.
EndIsActedOn ==
  (~present /\ clean /\ settings.logout) ~>
    (But(Dynamic \cap members, "remove") = {} \/ present \/ ~clean)
=============================================================================
