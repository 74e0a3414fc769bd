-------------------------- MODULE PersistentTokens --------------------------
(***************************************************************************)
(* The persistent tokens of plugins/authentication/authentication.js: the  *)
(* Map `persistentTokens` held by the process and the MySQL table `auth`   *)
(* behind it.  Every operation is an async function whose queries go over  *)
(* the mysql2 connection that is dbConn['auth'] when they are sent.  One   *)
(* connection runs its queries one after the other, so it is a FIFO queue. *)
(* A reload opens another connection and does not end the old one: reset   *)
(* of dbconn_main.js throws at its first statement.  The queries of the    *)
(* old connection go on, in no order with those of the new one.            *)
(*                                                                         *)
(* The server runs a query in one step, and in another its answer runs the *)
(* continuation of the await that waits for it: that is the grain of       *)
(* atomicity of this module.                                               *)
(*                                                                         *)
(* A key of the Map is a username or "<username>_phone-island".  A token   *)
(* is the number of the login that minted it: the nonce is random, so no   *)
(* two logins compute the same HMAC.                                       *)
(***************************************************************************)
EXTENDS Naturals, Sequences, FiniteSets

CONSTANTS
  Users,      \* usernames
  Kinds,      \* the two kinds of persistent tokens, "no-exp" and "phone-island"
  NoEntry,    \* no row in the table, no entry in the Map
  Undefined,  \* an entry of the Map whose value is the JavaScript undefined
  NoAnswer,   \* the first query of a connection has not run yet
  MaxTokens,  \* bound: logins in a behaviour
  MaxConns,   \* bound: connections opened by one process
  MaxQueue    \* bound: queries waiting when another is sent, on all connections

Keys  == Users \X Kinds
Row   == [id : Nat, token : Nat]

\* what the server answers: the rows the query is about, as it left them
Answers == [Keys -> Row \cup {NoEntry}]

ASSUME EntriesDistinct ==
  /\ NoEntry # Undefined
  /\ NoEntry \notin Row
  /\ Undefined \notin Row
  /\ NoAnswer \notin Answers

ASSUME BoundsAreNaturals ==
  MaxTokens \in Nat /\ MaxConns \in Nat \ {0} /\ MaxQueue \in Nat

Conns == 1..MaxConns

VARIABLES
  table,             \* rows of `auth`: user -> [id, token]
  nextId,            \* AUTO_INCREMENT of `auth`
  persistentTokens,  \* the Map: key -> row, or Undefined, or NoEntry
  current,           \* dbConn['auth']: the connection opened last
  open,              \* connections that are open
  queue,             \* per connection, the queries sent and not answered
  answer,            \* per connection, what its first query gave, or NoAnswer
  unread,            \* the last reload stopped before it read the table
  nextToken,         \* the next token to be minted
  revokedBelow,      \* history: tokens of the key below it were revoked
  lost,              \* history: keys whose last query died with its connection
  crossed            \* history: keys worked on over two connections at once

mapVars == <<table, nextId, persistentTokens>>
connVars == <<current, open, queue, answer>>
vars == <<mapVars, connVars, unread, nextToken, revokedBelow, lost, crossed>>

Replace(k, t)   == [query |-> "replace", key |-> k, token |-> t]
Select(k, i)    == [query |-> "select", key |-> k, id |-> i]
Delete(k, t)    == [query |-> "delete", key |-> k, before |-> t]
SelectAll       == [query |-> "all"]

Query == [query : {"replace"}, key : Keys, token : Nat]
         \cup [query : {"select"}, key : Keys, id : Nat]
         \cup [query : {"delete"}, key : Keys, before : Nat]
         \cup [query : {"all"}]

TypeOK ==
  /\ table \in [Keys -> Row \cup {NoEntry}]
  /\ nextId \in Nat
  /\ persistentTokens \in [Keys -> Row \cup {NoEntry, Undefined}]
  /\ current \in Conns /\ open \subseteq Conns
  /\ queue \in [Conns -> Seq(Query)]
  /\ answer \in [Conns -> Answers \cup {NoAnswer}]
  /\ unread \in BOOLEAN
  /\ nextToken \in Nat
  /\ revokedBelow \in [Keys -> Nat]
  /\ lost \subseteq Keys /\ crossed \subseteq Keys

-----------------------------------------------------------------------------
(* Reading the Map. *)

\* persistentTokenExists: Map.has, whatever the value is
PersistentTokenExists(k) == persistentTokens[k] # NoEntry

\* `persistentTokens.get(k).token === hash` of inPersistentTokens; reading .token of an
\* undefined entry throws, and the catch answers false
Holds(k, t) == persistentTokens[k] \in Row /\ persistentTokens[k].token = t

-----------------------------------------------------------------------------
(* The connections. *)

Touched(q) == IF q.query = "all" THEN Keys ELSE {q.key}

\* a query about k waits on c; one of a login or a logout of k
Touches(qs, k, c)  == \E i \in DOMAIN qs[c] : k \in Touched(qs[c][i])
Operates(qs, k, c) == \E i \in DOMAIN qs[c] : qs[c][i].query # "all" /\ qs[c][i].key = k

Waiting(k) == \E c \in Conns : Touches(queue, k, c)

Places == UNION {{c} \X DOMAIN queue[c] : c \in Conns}
Room == Cardinality(Places) < MaxQueue

\* a query goes over a connection while another about its key waits elsewhere
\* (two reads of the whole table do not disturb each other) ...
CrossedBy(qs, d, q) ==
  {k \in Touched(q) : \E c \in Conns \ {d} :
     IF q.query = "all" THEN Operates(qs, k, c) ELSE Touches(qs, k, c)}

\* ... until a login, a logout or a reload of the Map finds nothing waiting
Settled(qs, q) ==
  {k \in Touched(q) : q.query # "select" /\ \A c \in Conns : ~Touches(qs, k, c)}

\* send q over d, when the queues are qs
Send(qs, d, q) ==
  /\ queue' = [qs EXCEPT ![d] = Append(@, q)]
  /\ crossed' = (crossed \ Settled(qs, q)) \cup CrossedBy(qs, d, q)

Cleared == [k \in Keys |-> NoEntry]

Silent == [c \in Conns |-> NoAnswer]

\* getAllTokens, sent by start() over the first connection
Started == [c \in Conns |-> IF c = 1 THEN <<SelectAll>> ELSE <<>>]

Init ==
  /\ table = Cleared /\ nextId = 1 /\ persistentTokens = Cleared
  /\ current = 1 /\ open = {1} /\ queue = Started /\ answer = Silent
  /\ unread = FALSE
  /\ nextToken = 1
  /\ revokedBelow = [k \in Keys |-> 0]
  /\ lost = {} /\ crossed = {}

\* newPersistentToken up to its first await: reached from getNonceForPersistentToken
\* (login with auth-exp: no-exp) and getPersistentToken (the token_login requests)
NewPersistentToken(k) ==
  /\ Room /\ nextToken <= MaxTokens
  /\ Send(queue, current, Replace(k, nextToken))
  /\ nextToken' = nextToken + 1
  /\ UNCHANGED <<mapVars, current, open, answer, unread, revokedBelow, lost>>

\* removePersistentToken up to its await (logout, persistent_token_remove)
RemovePersistentToken(k) ==
  /\ Room
  /\ Send(queue, current, Delete(k, nextToken))
  /\ UNCHANGED <<mapVars, current, open, answer, unread, nextToken, revokedBelow, lost>>

\* initMysqlConn: one more connection, on which the next queries are sent
Opened == current < MaxConns /\ current' = current + 1

\* mutant: reload does not start again
ReloadOnly ==
  /\ Opened /\ open' = open \cup {current'}
  /\ persistentTokens' = Cleared
  /\ lost' = {} /\ unread' = FALSE
  /\ UNCHANGED <<table, nextId, queue, answer, nextToken, revokedBelow, crossed>>

\* dbconn has reloaded: the Map is cleared and start() reads the table over the
\* new connection
Reload ==
  /\ Opened /\ open' = open \cup {current'}
  /\ persistentTokens' = Cleared
  /\ Send(queue, current', SelectAll)
  /\ lost' = {} /\ unread' = FALSE
  /\ UNCHANGED <<table, nextId, answer, nextToken, revokedBelow>>

\* config() throws on a missing or broken file: the table is not read
ReloadBroken ==
  /\ Opened /\ open' = open \cup {current'}
  /\ persistentTokens' = Cleared
  /\ lost' = {} /\ unread' = TRUE
  /\ UNCHANGED <<table, nextId, queue, answer, nextToken, revokedBelow, crossed>>

-----------------------------------------------------------------------------
(* The server runs the first query of a connection. *)

Ready(c) == queue[c] # <<>> /\ answer[c] = NoAnswer

Ran(c, q, rows) ==
  /\ table' = rows
  /\ answer' = [answer EXCEPT ![c] = [k \in Keys |-> IF k \in Touched(q) THEN rows[k] ELSE NoEntry]]
  /\ UNCHANGED <<persistentTokens, current, open, queue, unread, nextToken, revokedBelow,
                 lost, crossed>>

\* REPLACE on the unique key `user`: the old row goes, the new one has a new id
RunReplace(c) ==
  /\ Ready(c) /\ Head(queue[c]).query = "replace"
  /\ LET q == Head(queue[c])
     IN  Ran(c, q, [table EXCEPT ![q.key] = [id |-> nextId, token |-> q.token]])
  /\ nextId' = nextId + 1

\* mutant: the row stays
RunDeleteOnly(c) ==
  /\ Ready(c) /\ Head(queue[c]).query = "delete"
  /\ Ran(c, Head(queue[c]), table)
  /\ UNCHANGED nextId

RunDelete(c) ==
  /\ Ready(c) /\ Head(queue[c]).query = "delete"
  /\ LET q == Head(queue[c]) IN Ran(c, q, [table EXCEPT ![q.key] = NoEntry])
  /\ UNCHANGED nextId

RunSelects(c) ==
  /\ Ready(c) /\ Head(queue[c]).query \in {"select", "all"}
  /\ Ran(c, Head(queue[c]), table)
  /\ UNCHANGED nextId

Run(c) == RunReplace(c) \/ RunDelete(c) \/ RunSelects(c)

-----------------------------------------------------------------------------
(* The answer to the first query of a connection. *)

Answering(c, kind) ==
  queue[c] # <<>> /\ answer[c] # NoAnswer /\ Head(queue[c]).query = kind

Answered(c) == [queue EXCEPT ![c] = Tail(@)]

\* newPersistentToken goes on to read the row back, by the id of the answer, over the
\* connection of now
ReplaceAnswered(c) ==
  /\ Answering(c, "replace")
  /\ LET k == Head(queue[c]).key IN Send(Answered(c), current, Select(k, answer[c][k].id))
  /\ answer' = [answer EXCEPT ![c] = NoAnswer]
  /\ UNCHANGED <<mapVars, current, open, unread, nextToken, revokedBelow, lost>>

\* mutant: the row is read without its id
InsTokenOnly(row, i) ==
  IF row # NoEntry /\ row.id = i THEN [token |-> row.token] ELSE Undefined

\* `persistentTokens.set(username, insToken[0])`: no row of that id, no [0]
InsToken(row, i) == IF row # NoEntry /\ row.id = i THEN row ELSE Undefined

SelectAnswered(c) ==
  /\ Answering(c, "select")
  /\ LET q == Head(queue[c])
     IN  /\ persistentTokens' =
              [persistentTokens EXCEPT ![q.key] = InsToken(answer[c][q.key], q.id)]
         /\ lost' = lost \ {q.key}
  /\ queue' = Answered(c)
  /\ answer' = [answer EXCEPT ![c] = NoAnswer]
  /\ UNCHANGED <<table, nextId, current, open, unread, nextToken, revokedBelow, crossed>>

\* mutant: the entry of the Map stays
RowOnly(k) == persistentTokens

\* the entry goes after the row
EntryRemoved(k) == [persistentTokens EXCEPT ![k] = NoEntry]

\* the caller is told so: the logout is done, unless its key was worked on elsewhere
DeleteAnswered(c) ==
  /\ Answering(c, "delete")
  /\ LET q == Head(queue[c])
     IN  /\ persistentTokens' = EntryRemoved(q.key)
         /\ revokedBelow' =
              [revokedBelow EXCEPT ![q.key] = IF q.key \in crossed THEN @ ELSE q.before]
         /\ lost' = lost \ {q.key}
  /\ queue' = Answered(c)
  /\ answer' = [answer EXCEPT ![c] = NoAnswer]
  /\ UNCHANGED <<table, nextId, current, open, unread, nextToken, crossed>>

\* start(): one Map.set per row of the answer, the other entries stay
SelectAllAnswered(c) ==
  /\ Answering(c, "all")
  /\ persistentTokens' =
       [k \in Keys |-> IF answer[c][k] = NoEntry THEN persistentTokens[k] ELSE answer[c][k]]
  /\ queue' = Answered(c)
  /\ answer' = [answer EXCEPT ![c] = NoAnswer]
  /\ UNCHANGED <<table, nextId, current, open, unread, nextToken, revokedBelow, lost, crossed>>

DbAnswers(c) ==
  ReplaceAnswered(c) \/ SelectAnswered(c) \/ DeleteAnswered(c) \/ SelectAllAnswered(c)

-----------------------------------------------------------------------------
(* Failures. *)

\* PROTOCOL_CONNECTION_LOST on any open connection: its waiting queries are rejected,
\* the async functions log the error and end, whether the first one has run or not;
\* dbConn['auth'] is replaced, also when the connection is an old one
ConnectionLost(c) ==
  /\ c \in open
  /\ Opened /\ open' = (open \ {c}) \cup {current'}
  /\ queue' = [queue EXCEPT ![c] = <<>>]
  /\ answer' = [answer EXCEPT ![c] = NoAnswer]
  /\ lost' = lost \cup {k \in Keys : Touches(queue, k, c)}
  /\ UNCHANGED <<mapVars, unread, nextToken, revokedBelow, crossed>>

\* the process exits (uncaughtException, SIGTERM) and systemd starts it again; one
\* whose authentication.json is broken at the start is never ready and logs nobody in
Restart ==
  /\ persistentTokens' = Cleared
  /\ current' = 1 /\ open' = {1} /\ queue' = Started /\ answer' = Silent
  /\ unread' = FALSE
  /\ lost' = {} /\ crossed' = {}
  /\ UNCHANGED <<table, nextId, nextToken, revokedBelow>>

Next ==
  \/ \E k \in Keys : NewPersistentToken(k) \/ RemovePersistentToken(k)
  \/ Reload
  \/ ReloadBroken
  \/ \E c \in Conns : Run(c) \/ DbAnswers(c) \/ ConnectionLost(c)
  \/ Restart

Spec == Init /\ [][Next]_vars

\* a server that is up runs the query a connection has, and its answer arrives: the
\* process does not end again and again before the first answer
FairSpec == Spec /\ \A c \in Conns : WF_vars(Run(c)) /\ SF_vars(DbAnswers(c))

-----------------------------------------------------------------------------
(* Properties. *)

\* The Map is a cache of the table (authentication.js:426-433, 764-776, 787-801).
\* Once no query about a key is waiting, none died with its connection and none went
\* over two connections at once, the Map holds exactly the row of the table.  When the
\* table has none, the Map may keep an undefined entry but never a token; when the last
\* reload stopped at the file of the configuration, it may have no entry.
MapFollowsTable ==
  \A k \in Keys :
    ~Waiting(k) /\ k \notin lost \cup crossed =>
      \/ persistentTokens[k] = table[k]
      \/ table[k] = NoEntry /\ persistentTokens[k] = Undefined
      \/ unread /\ persistentTokens[k] = NoEntry

\* A logout or persistent_token_remove that was answered with success while its key was
\* worked on over no other connection is final (authentication.js:787-801): no token
\* minted before the request is accepted again, whatever logins, reloads, connections
\* old and new, losses and restarts follow.
RevokedStaysRevoked ==
  \A k \in Keys, t \in 1..MaxTokens :
    t < revokedBelow[k] => ~Holds(k, t)

\* After a reload that can read its file or a restart the tokens of the table become
\* usable again (authentication.js:426-433), unless the query is lost with its
\* connection or meets a login or a logout that waits on the old one.
StoredTokensComeBack ==
  \A k \in Keys :
    (table[k] # NoEntry /\ persistentTokens[k] = NoEntry)
      ~> \/ persistentTokens[k] # NoEntry \/ table[k] = NoEntry
         \/ k \in lost \cup crossed \/ unread
=============================================================================
