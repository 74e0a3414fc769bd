----------------------------- MODULE QueueStats -----------------------------
(***************************************************************************)
(* The statistics of the agents of the queues: getAgentsStatsByList of     *)
(* dbconn_ast_proxy.js, which keeps what it read for twenty seconds, and   *)
(* getJSONAllAgentsStats of arch_astproxy.js, which takes what a request   *)
(* may not see out of that very object.                                    *)
(*                                                                         *)
(* A statistic is a pair of an agent and a queue, or of an agent and what  *)
(* is summed up over every queue and call of the agent, asked for or not.  *)
(* An agent has the name of a user.                                        *)
(***************************************************************************)
EXTENDS Authorization

CONSTANTS Members,      \* the agents of every queue
          Log,          \* the rows of the log of the queues
          Callers,      \* the agents that called out today
          Recalls,      \* the agents that called back who a queue had lost
          Expired       \* nothing is kept

ASSUME MembersAssumption == Members \in [Queues -> SUBSET Users]
ASSUME LogAssumption ==
  Log \subseteq [agent : Users, queue : Queues,
                event : {"COMPLETE", "RINGNOANSWER", "ADDMEMBER", "REMOVEMEMBER", "PAUSE", "UNPAUSE"}]
ASSUME CallsAssumption == Callers \subseteq Users /\ Recalls \subseteq Users \X Queues

\* What is kept: got is what the database gave, for the properties, and left
\* what the requests left of it.
VARIABLE cache

----------------------------------------------------------------------------
MembersOf(queues) == UNION {Members[q] : q \in queues}
Overall == {"incomingCalls", "outgoingCalls", "allCalls", "allQueues"}
AgentsOf(stats) == {s[1] : s \in stats}
RowsOf(agents, events) ==
  {<<l.agent, l.queue>> : l \in {x \in Log : x.agent \in agents /\ x.event \in events}}
\* The calls taken, and their times over all the queues.
getAgentsStatsCalls(agents) ==
  LET taken == RowsOf(agents, {"COMPLETE"})
  IN taken \cup (AgentsOf(taken) \X {"incomingCalls"})
getAgentsStatsPauseUnpause(agents) == RowsOf(agents, {"PAUSE", "UNPAUSE"})
getAgentsStatsLoginLogout(agents) == RowsOf(agents, {"ADDMEMBER", "REMOVEMEMBER"})
getAgentsMissedCalls(agents) == RowsOf(agents, {"RINGNOANSWER"})
getAgentsPauseDurations(agents) == RowsOf(agents, {"PAUSE"})
getAgentsLogonDurations(agents) == RowsOf(agents, {"ADDMEMBER"})
getAgentsOutgoingCalls(agents) == (agents \cap Callers) \X {"outgoingCalls"}
getRecallTimeStats == Recalls
\* Those of the queues not asked for are taken out of the list in a loop over
\* it, which passes over the one after each: some are left.
agentsRecallTime(queues) ==
  {s \in SUBSET getRecallTimeStats : \A t \in getRecallTimeStats : t[2] \in queues => t \in s}
\* The totals of the agents found, and the times of the calls back they made.
WithTotals(found, recalls) ==
  LET agents == AgentsOf(found)
  IN found \cup {s \in recalls : s[1] \in agents} \cup (agents \X {"allCalls"})
       \cup (IF recalls = {} THEN {} ELSE agents \X {"allQueues"})

\* A query of the log that fails counts as one that finds nothing.
LogQueries(agents) ==
  {getAgentsStatsCalls(agents), getAgentsStatsPauseUnpause(agents),
   getAgentsStatsLoginLogout(agents), getAgentsMissedCalls(agents),
   getAgentsPauseDurations(agents), getAgentsLogonDurations(agents)}
AllStats(queues) ==
  {WithTotals(UNION good \cup getAgentsOutgoingCalls(MembersOf(Queues)), recalls) :
     good \in SUBSET LogQueries(MembersOf(Queues)), recalls \in agentsRecallTime(queues)}

\* What is kept is given to everybody, whatever the queues asked for.
getAgentsStatsByList(queues) ==
  IF cache # Expired THEN {cache} ELSE {[got |-> s, left |-> s] : s \in AllStats(queues)}

\* A mistake: what is kept is not looked at again.
getJSONAllAgentsStatsKept(queues) == getAgentsStatsByList(queues)
\* The callback deletes, from the object it is given, the agents of no queue
\* asked for and the queues not asked for; what is over every queue stays.
getJSONAllAgentsStats(queues) ==
  {[s EXCEPT !.left = {p \in @ : p[1] \in MembersOf(queues) /\ p[2] \in queues \cup Overall}] :
     s \in getAgentsStatsByList(queues)}

CacheExpires == cache # Expired /\ cache' = Expired
=============================================================================
