# TLA+ specifications of nethcti-server

nethcti-server is the Node.js daemon behind the NethCTI clients
(`src/root/usr/lib/node/nethcti-server/`, below `NS/`). It is one process with one
event loop. `nethcti.js` starts some thirty components; each is a module with
`config`, `start`, `reload` and an `EventEmitter`, and they call each other directly
through `setComp...` references. What can go wrong is therefore rarely inside one
function: it is what happens between two turns of the event loop, while a query, a
command to Asterisk, a timer or a client is being waited for.

The modules in this directory model that: one TLA+ action is one turn of the event
loop (a handler from its entry, or from the callback or `await` it continues from, up to
the next thing it waits for).

## The system

| Part (`NS/plugins/...` unless said) | State | Operations | Interacts with |
|---|---|---|---|
| `authentication` | `grants` (key → token → expiry), `persistentTokens` (Map), the one-shot shibboleth map, intervals | getNonce, verifyToken, updateTokenExpires, removeToken, sweep, newPersistentToken, removePersistentToken, reload | `dbconn_auth`, `http_proxy`, websocket, TCP |
| `dbconn` | `dbConn` (the last connection opened per database; a reload leaves the others open), the tables | initMysqlConn, reconnection, reset, the queries of the plugins | MySQL |
| `http_proxy` | none | verification of every REST request, rewriting of the user name | `authentication`, the REST servers |
| `com_authentication_rest` | none | login, logout, token_login, 2FA | `authentication` |
| `com_nethcti_ws` | `wsid`, `socket.nethcti`, `takeOverTimeouts`, rooms | connection, login with takeover, disconnection, keep-alive, what is told to whom | socket.io, `authentication`, `authorization`, `user`, `astproxy`, `streaming`, `config_manager` |
| `com_nethcti_tcp` | `sockets`, `socket.username`, `socket.token` | login, disconnection, keep-alive, notifications | `authentication`, `astproxy` |
| `user` (`controller_user.js`) | the users, their endpoints, presence, presence on busy and unavailable, main presence | setPresence*, evtExten*Changed, updateUserPresence*, reload | `astproxy`, `com_user_rest`, `config_manager`, websocket |
| `config_manager` | `userSettings`, the configuration | automatic login and logout of queues, automatic dnd, settings, default extension, reload | websocket events, `astproxy`, `user`, `dbconn` |
| `authorization` | `mapUserProfile`, `profiles` | config, reload, the authorize and verify functions | every REST plugin, websocket |
| `com_*_rest` | none | permission and ownership checks, one command each, the answer | `astproxy`, `user`, `authorization`, ... |
| `phonebook`, `dbconn_phonebook` | table `cti_phonebook`, the centralized phonebook (read only) | create, import, modify, delete, searches | `com_phonebook_rest` |
| `offhour`, `dbconn_offhour` | tables `offhour`, `offhour_files`, the audio files | announcements, off-hours | `com_offhour_rest`, `astproxy`, `authorization` |
| `voicemail`, `history`, `customer_card`, `streaming`, `videoconf` | caches of configuration | queries, subscriptions | `dbconn`, REST, websocket |
| `arch_astproxy`, `dbconn_ast_proxy` | the statistics of agents kept for twenty seconds | statistics of queues and agents, recalls | REST |
| `astproxy` (the rest) | extensions, queues, conversations | commands and events of Asterisk | its code is a git submodule that is not in the repository |
| `nethcti.js`, `com_ipc` | `allCompReloadStatus` | start, reload with a barrier | every component |

### Where it is hard

* **Interleaving of waiting operations.** Two logins, a login and a logout, a reload and
  a login of one user overlap between their awaits (`authentication.js:764-801`); two
  requests run their series of commands at once (`controller_user.js:1748`); a request
  reads whose a contact or an announcement is, and changes it in a later query.
* **Callbacks that look at shared variables later.** The callbacks of a takeover read a
  `var sid` that the loop has moved on (`com_nethcti_ws.js:2196`); a login completes up to
  8 s after its socket was looked at.
* **Caches.** What is kept in memory (settings, statistics, permissions, rooms) is read,
  narrowed and replaced by operations that do not wait for each other.
* **Stores without a transaction.** An announcement is a row, a file and perhaps off-hours.
* **Timers.** Three components renew and remove tokens on intervals derived from one
  expiration, and a reload changes it in one of them only.
* **Failure.** The MySQL connection dies with queries on it, the process is restarted by
  systemd, a command to Asterisk fails in the middle of a series, a query of several fails,
  a configuration file is half written at a reload.
* **Names.** A user is known under a user name, an extension, user@domain or a cookie, and
  each component keeps another of them.

The list with a line for each is in `PROJECT.json` (`hazards`).

### What makes each part correct

* persistent tokens: the Map is a cache of the table; a revoked token stays revoked;
  a stored one comes back after a restart or a reload.
* grants: a connected client never loses its token; an expired or logged out one is gone
  for good; expired ones do not pile up.
* websocket: `wsid` holds connected sockets only (broadcasts rely on it); a login that waits
  has a timer that runs; `config_manager` hears of the end of the last session; a client hears
  what its user may, in the form of its privacy.
* presence: clients are shown what the main extension does; a request takes effect on
  every extension; a series ends.
* automatic queue login: an agent with a session ends up logged in, one without unpaused and
  out, and a session that ended is always acted on.
* settings: what was confirmed is stored and served.
* reload: the clients are told once every component has answered the last request.
* REST: one answer for every request, commands only on what the user may act on, calls and
  statistics only as the user may see them.
* phonebook and off-hours: only owners and administrators change things, a modification
  stores what was sent, the files of announcements are those the rows name.

## Modules

Each component has `X.tla` (the specification), `MCX.tla` (its instance for TLC) and, where
something is proved, `X_proofs.tla`; `Authentication_proofs` is about `PersistentTokens` and
`TokenGrants`, `ConfigManager_proofs` about `AutoQueues` and `UserSettings`, two parts of one
component each. To be extended together with their neighbours, `TokenGrants` and `AutoQueues`
call their specifications `GrantsSpec` and `QueuesSpec`, and the rest alike. Operators under a comment "A mistake" are wrong
variants of the definition that follows them; the specifications do not use them. They
record, for every property, a plausible bug that the property catches.

How they compose:

* `Notifications` EXTENDS `WsSessions`: every login, takeover and disconnection of the
  sessions with what it does to the rooms.
* `RestServer` EXTENDS `AstproxyRest`, `HistoryRest`, `ServicesRest` (the plugins); these
  EXTEND `RestReplies` (what a handler can do), which EXTENDS `Authorization` (who may do it)
  and instantiates `Components` (what components call back with). `QueueStats` and
  `CallHistory` are the two components whose data decide what a user is shown.
* `Reloads` implements `ReloadBarrier` (INSTANCE ... WITH).

### `PersistentTokens` — `authentication.js` 426-468, 757-806, 1177-1223; `dbconn_auth.js`

`persistentTokens` is the Map, `table` the rows of `auth`. `dbConn['auth']` is the connection opened
last (`current`); a reload of `dbconn` opens another one and does not end the old ones (its
`reset` throws, see the observations), nor does one that is lost close the others. Each
connection has a FIFO `queue` and runs its queries one after the other; two connections are in
no order. A query is three moments: it is sent (`NewPersistentToken`, `RemovePersistentToken`,
`Reload` up to their first await), the server runs it (`Run`) and its answer runs the
continuation (`ReplaceAnswered`, `SelectAnswered`, `DeleteAnswered`, `SelectAllAnswered`).
`ReloadBroken` is a reload whose file is missing or broken: the Map is cleared, `config` throws,
and the table is not read. `ConnectionLost` rejects the waiting queries of one connection, the
first of which may have run; one that never opens rejects its queries alike. `Restart` is
systemd starting the process again; with a broken file at the start the component is never ready
and nobody logs in, so there is nothing to model.

History: `revokedBelow`, which tokens were revoked with success; `lost`, which keys had a query
that died with its connection (the code logs the error and leaves the Map as it is); `unread`,
the last reload could not read its file; `crossed`, which keys were worked on over two connections
at once. For a crossed key the code promises nothing: a `SELECT` of a reload may be run before
the `DELETE` of a logout on the old connection and answered after it, and the Map has the revoked
token again until the next reload (observation 7). The properties say so by name, they hold
for every key whose operations were on one connection at a time, however many there are.

A token is the number of the login that minted it (the nonce is random). The Map entry
`Undefined` is real: the row is read back by its id, and when a later login has replaced it
in the meantime `insToken[0]` is undefined and is stored all the same.

### `TokenGrants` — `authentication.js` 573-601, 1020-1175; `http_proxy.js`; the keep-alives of websocket and TCP

A grant carries the time it has left. `Tick` is a unit of time, and no interval may be later
than `Lag`, no takeover longer than `TakeOverWait`; these are what the event loop and the 8 s
timer of the takeover grant. `interval` is computed once by the websocket and TCP components;
`ReloadAuthentication` changes `expires` and not `interval`, as the code does, and when the file
is broken it leaves no interval for the sweep (`sweeping`). `TcpUser` and `LogoutUser` say
which name a TCP session keeps (`com_nethcti_tcp.js:1518-1528`) and which name REST logout is
given (`http_proxy.js:377`) for an access key: for a user name without capitals that key, for an
alias (an extension, user@domain) another one. In the run there is an alias, so a TCP session
that is not kept alive and a logout that removes nothing happen. `TcpTokensLive` speaks of the
sessions that keep the access key, `LogoutIsFinal` of the logouts by clients whose access key is
the one that is looked for (`LeftFor`); the rest is observation 3.

### `WsSessions` — `com_nethcti_ws.js` 1837-1895, 2127-2275, 2373-2500

`wsid` with its insertion order `keys` (the loop of `loginHdlr` depends on it), the sockets,
and one `TakeOver` record for every pass of the loop: its listener, its timer, whether that
timer is still the one stored in `takeOverTimeouts`, and `last`, the value the shared `var sid`
has when its callbacks run. `present` is history: what `config_manager` was last told of a
user. `waiting` is history too: sockets whose client is waiting for its answer. `TokenGrants`
has the same logins and disconnections, with the tokens instead of the takeovers.

### `UserPresence` — `controller_user.js` 374-613, 661-1000, 1035-1735, 1748-1794, 2142-2195, 2373-2475, 2531-2540

One user with several extensions. `jobs` are the running `async.series`, in the order of their
commands on the one connection of astproxy; `at` is the step whose command is in flight. A
step that finds its flag already off sends nothing (`Commands`), which is what makes
interleaved series go wrong. `flags` is what astproxy knows of the extensions; it changes when
a command is answered (`Answered`) or a phone changes its own setting (`Phone*`). `GoOn` takes a
series to its next command, to an error, or to its end with the update of the presence. The
presences always, on busy and on unavailable are three copies of the code, chosen by
`channel`. `bypassed` is history: a series was given up (`Failed`, or no such endpoint) or
`com_astproxy_rest` changed the main extension, and nothing has updated the presence since;
`request` and `overlapped` record the last request and whether something was running beside
it.

### `AutoQueues` — `config_manager.js` 595-668, 726-835, 1381-1412, 1571-1602

The main extension of one user and its queues. `members` and `paused` are what astproxy knows
of it; `commands` are the commands on the one connection, which Asterisk answers in order
(`Answered`, or `CommandFailed` with an error that is logged). `CheckQueueAutoLogin` and
`CheckQueueAutoLogout` are the handlers of the two events of `WsSessions`. The logout is a
series: the queues that are paused when the event comes are unpaused one after the other, each
command carrying the rest of its `series`, and only then `logoutAgentFromAllQueues` looks which
queues to leave. A user without the permission for queues has both settings off. `Request` is
a request of `com_astproxy_rest` on a member, `SetQueueAutoConf` a change of a setting. The
history `present` is the last event; `refused` the commands Asterisk refused since it, by queue;
`clean` says that since it no user asked for something else and that no command against it was
on its way. A refusal counts for its own queue only.

### `Notifications` — `com_nethcti_ws.js` 560-1830, 2250-2370

A handler that only sends to rooms is an operator: the set of the sockets it sends to, with the form
(in clear, with the numbers hidden, or hidden but for the queues). The handlers that send to every
key of `wsid` without looking at the socket (`UntilGone`: the loop stops at a dead one) rely on
`SessionsAreConnected`; of them only the one that changes rooms (the streaming source) is spelled
out, since what the others send has no state. Rooms are entered by `doLogin` with the
permissions of that moment (`RoomsOf`), the handlers of calls ask for the permissions at the
event (`ExtenForm`); `Reload` of authorization comes between. `subscribers` and `steady` are
history: whose last request was to subscribe to the source, and which sockets had one login
since which the permissions are the same. One streaming source is enough: each has a room of
its own.

### `Reloads`, `ReloadBarrier` — `nethcti.js` 20-201, `com_ipc`, the `reload` of each component, `dbconn_main.js` 690-760, 1060-1100

A component is a record: which files its reload reads, whether it is emptied first, and whether
it says `reloaded` when a file is broken (most do). `ReloadApp` reloads all of them in one turn;
astproxy and, on its event, `user` answer later (`AstProxyAnswers`). `last` is the round of the
last `reloaded` of each. `ReloadBarrier` is the promise, with two variables: a request is
waiting, and who is behind. The refinement mapping takes them from `told` and `last`, never from
the flags of the code, so that a flag left from an older round is a violation. `open` are the
connections to a migrated database: `reset` throws before it ends one, or empties anything of `dbconn`.

### `UserSettings` — `config_manager.js` 320-480, 1680-1760, 1931-1976; `dbconn_config_manager.js`; `user.js` 1080-1240 (REST); `controller_user.js` 3223-3340

`table` is `user_settings`, `cache` is `userSettings`. A task is a request or a reload that
waits for the database; `stage` is the query it sent. Sequelize has a pool, so queries of
several tasks are executed and answered in any order: the rows of a user are read by `Select`
and set in memory by `getUserSettings`, a step of their own. Nothing validates a value; one
that begins as JSON and is none (`Broken`) throws in the `then` that parses the rows of its user, and
nobody is called back (`Throws`): the load waits for that user for ever (`Stuck`). `clean` is history: no other task
came between, no query failed, and no reload changed the users while the task loaded their
settings (observation 6 is what happens then).

### `Authorization` — `authorization.js`, `controller_user.js` 355-385, 2760-3200

The profile of every key (name, name at the domain, main extension), and what a profile grants
as a set of pairs; an `authorize...` function of the source is the operator of that name. The
files change (`Configure`), `Reload` reads them for authorization and `ReloadUser` for `user`, at
different moments, as the reload of the server does.

### `RestReplies`, `AstproxyRest`, `HistoryRest`, `ServicesRest`, `Components`, `RestServer` — `com_*_rest`

A REST handler is an operator from the request to the set of its outcomes; an outcome is what its
synchronous part does: the replies, in order, and the commands, each with the outcomes its
callback may have. The checks are in the order of the code, with its early returns and its omissions.
`Components` is, for each function behind the handlers, the set of the sequences in which it may
call back: once, never (a `then` without a handler of errors) or twice. `RestServer` runs them:
`Handle` any request of any route, `Answered` a callback, `AgentsStats` the callback of the
statistics, beside `Configure`, `Reload` and `ReloadUser`. `getUserSettings` never calls back for
a stored value that cannot be parsed: `me` and `settings` are among the requests that may not be
answered. Requests share nothing but the
components' state, so one request under way, in every state of the permissions, is enough. The
routes of phonebook, off-hours and the presence are in their own modules where they keep state.

### `QueueStats`, `CallHistory` — `arch_astproxy.js` 107-204, `dbconn_ast_proxy.js` 630-1438; `dbconn_history.js` 190-540

`QueueStats` is the cache of the statistics of agents: `got` is what the database gave and
`left` what the requests left of it, for `getJSONAllAgentsStats` deletes what its request may not
see from the object that is kept. A statistic is of an agent and a queue, or of an agent over
all queues (`Overall`: incoming, outgoing and all calls, and the times of the recalls), which are
summed up before anything is taken out, and of which only those of agents of other queues are.
The recalls of other queues are removed by a loop that passes over the one after each
(`agentsRecallTime`). `CallHistory` is which rows of the cdr a query selects, by
extensions, direction and outcome.

### `Phonebook` — `phonebook.js`, `dbconn_phonebook.js`, `com_phonebook_rest`

`contacts` is `cti_phonebook`. A request is in a slot with its `stage`; a change first reads the
contact and compares its owner (`Check`), and changes it in a later step. The searches are the
queries with their bounds; they change nothing, and a property of what they find would only
say their clauses again. The columns are five, one for each kind of use. An UPDATE
(`modifyCtiPbContact`) is a set of placeholders and a list of values that find them by their
place: the value at a placeholder is the one whose number is the placeholder's place in the set.
The columns are optional, and there is a value, empty, for each that is missing, but no
placeholder: then values go to other columns, and the id is read in one of them, as a number
(`TextAsId`).

### `OffHour` — `offhour.js`, `dbconn_offhour.js`, `com_offhour_rest`, `authorization.js` 612-690, 1975-2065

`announcements`, `offhours` and `audio` are the three stores; a request goes through its steps
(move or convert, insert, verify, find, delete in three parallel parts), each of which can fail.
`unlinking` are the files that are unlinked behind an answer (the one of an announcement that is not
stored, the temporary ones of a conversion): `Unlinked` may come at any later moment, or never,
when the unlink fails and is only logged. An upload whose conversion from MP3 fails has written its
file into the directory and leaves it there. `enable_announcement` moves the file that is named, which
may be that of another announcement: only its being a string is checked. `astray` is history: files
a failure, or such a move, parted from their rows. Abstractions:
a user makes at most one announcement in a millisecond (the name of a file is the user and the
time); a download is like listening, `list_announcement` like `list`, `audiomsg_voicemail` like
`audiomsg` but for the mailbox; `set_offhour` is always enabled, `always` or with a period; an update
of the row of a redirect may keep or empty its message, as Sequelize chooses.

## Runs

| Run | What it asks | Distinct states |
|---|---|---|
| `PersistentTokens` | `TypeOK`, `MapFollowsTable`, `RevokedStaysRevoked`, `StoredTokensComeBack` | 275,296 |
| `Notifications` | `NTypeOK` (with `TypeOK` of the sessions), `SessionsAreConnected`, `HeardAsAllowed`, `FramesFollowSubscriptions`, `LastEndIsAnnounced` | 534,948 |
| `TokenGrants` | `WsTokensLive`, `TcpTokensLive`, `LogoutIsFinal`, `ExpiredIsFinal`, `ExpiredAreSwept` | 116,896 |
| `UserPresence` | `PresenceFollowsMain`, `RequestTakesEffect`, `SeriesEnd` | 141,210 |
| `AutoQueues` | `AgentFollowsSession`, `EndIsActedOn` | 420,081 |
| `RestServer` | `AnsweredOnce`, `EveryRequestIsAnswered`, `OnlyOwnPhones`, `OnlyOwnMessages`, `PrivacyKept`, `OnlyPermittedShown` | 548,680 |
| `Phonebook` | `OnlyOwnersChange`, `ModifyIsFaithful` | 2,092,675 |
| `OffHour` | `FilesFollowRows`, `OnlyOwnersChange`, `DeletedIsGone` | 1,898,251 |
| `Reloads` | `TypeOK`, `BarrierKept` (the refinement), `ToldAreRead`, `ReloadIsAnnounced` | 66,340 |
| `UserSettings` | `LoadedIsStored`, `DefaultIsServed`, `TasksEnd` | 627,793 |
| `AgentStats` | `OwnStatsShown`: an agent is shown its own statistics | violated |
| `Modifications` | `ModifyIsAsDocumented`: the columns of a modification are optional | violated |

All but the last two hold. The type invariants that no run of this table names are in the modules:
`GrantsTypeOK`, `QueuesTypeOK` and `TypeOK` of `UserPresence`, `OffHour`, `UserSettings` and
`Phonebook`, are proved.

What the properties leave out, they name:

* `PrivacyKept`: `InClear` lists the requests that show calls to a user with the privacy. `opdata`
  never looks at it (`com_astproxy_rest` `astproxy.js:2249`), nor do the recalls of lost calls;
  the history of an interval is in clear for who has `ad_cdr`, and for others the calls their own
  extensions are in; `extension` and `extensions` ask for the name `admin`, `queues` for the permission on
  all queues.
* `OnlyPermittedShown`: a statistic of a queue is shown for a queue that was asked for; those over
  every queue come with the agent (`Overall`).
* `OnlyOwnersChange` and `ModifyIsFaithful` of `Phonebook`: a modification without some columns
  may change the contact whose id one of its values reads as, instead of its own.
* `EveryRequestIsAnswered`, `TasksEnd`: `Forgettable` and `Stuck` name what may wait for ever.
* `AgentFollowsSession`, `LoadedIsStored`, `RequestTakesEffect`: what overlapped (see each `clean`,
  `overlapped`).

### Bounds

* `PersistentTokens`: one key of the Map, since two keys share only the connections, on which a
  query about the other waits like one about the same; two logins, three connections and three
  queries waiting, so that a login, a logout and a reload are on different connections, and one
  of them is lost.
* `Notifications`: two sockets, one of them with the cti user agent, two access keys (a user name
  and an extension of another user), one takeover at a time; two policies that differ in the
  privacy, in the queues and in the notes. `NoUaType`, with which nothing is taken over, is
  always included; one user-agent type is enough because types never mix.
* `TokenGrants`: a user and an alias, one token, two websockets (one may take over the other) and
  one TCP session, expirations of 4 and 5 units, intervals of 2 that are late by 1, takeovers of 1:
  the smallest times where the half interval, its lateness and a takeover together just fit
  (`Timely`). Tokens do not interfere, which is why one is enough.
* `UserPresence`: two extensions, so that the main one and another can disagree; one number,
  which is the cellphone of one configuration and no endpoint of the other; two requests or
  settings on phones, so that two series overlap in every order of their commands. Failures
  and reloads are not bounded.
* `AutoQueues`: two dynamic queues and a static one, from every state of the queues and of the
  settings; three events, so that an end comes between two logins and the other way round, one
  request and two refused commands. The system may stop when the bounds are used up, so
  deadlock is not checked; the same holds for `Reloads`, `UserSettings`, `Phonebook` and
  `OffHour`, whose starts, ids or files are bounded, and for `RestServer`, where a request that
  is never called back leaves nothing under way.
* `RestServer`: two users, one with every permission, and two files of the configuration, the
  second of which gives the extension and the mailbox of one user to the other and switches
  macros off below their permissions; one queue, one source, six phones that differ in what the
  handlers ask of a phone. Every route, every permission and every callback is exercised.
* `Phonebook`: two contacts, two users (one administrator), two requests, so that a contact is
  deleted or modified between the two queries of another request; modifications of every
  column, of some in which a value reads as the id of a contact, and of none; texts that are a
  name, a number and the types. Slots are symmetric. `Modifications` has the same bounds.
* `OffHour`: two users, one with the advanced permission, and one route, the one of the other user,
  which the advanced user may not configure; one announcement and two files (an announcement and
  the temporary file of its conversion, or two requests for the same description); two requests.
  Slots are symmetric; no property of this run is a liveness property.
* `Reloads`: three requests, two changes of the files, five connections.
* `UserSettings`: two users, two extensions that change hands, two tasks, two starts besides the
  load of the start, and one failed query; a post may save a value that cannot be parsed.

For the safety properties of all these modules the proofs below remove the bounds; for the liveness
properties the bounds are all there is.

### Fairness

* `PersistentTokens!FairSpec`: a MySQL server that is up runs the query a connection has (weak
  fairness of `Run`), and its answer reaches the process, which is not restarted again and again
  before it does (strong fairness of `DbAnswers`, for each connection). A lost connection excuses the
  key (`lost`).
* `TokenGrants!FairGrantsSpec`: time goes on and the intervals that are there run. That
  authentication is not reloaded for ever is a hypothesis of `ExpiredAreSwept`, since each reload
  starts the interval afresh.
* `UserPresence!FairSpec`: Asterisk answers every command, with success or an error. Nothing
  is assumed of clients or phones.
* `AutoQueues!FairQueuesSpec`: the same of the commands on queues.
* `RestServer!Spec`: a component answers the commands it was sent, along one of the sequences
  `Components` gives it; a request that is over makes room for the next.
* `Reloads!FairSpec`: Asterisk answers a start of astproxy. Nothing is assumed of who writes the
  files or asks for a reload.
* `UserSettings!Spec`: the database answers the queries of every task, with rows or an error.

Nobody assumes that a client answers a takeover. That a login that waits is completed has no fairness
under which it is true: with an acknowledgement among two takeovers it is lost (observation 2).

## Proofs

TLAPS proves these for every value of the constants; each module lists its assumptions
(`ASSUME`), which TLC evaluates in the runs.

The pattern is the same everywhere: an invariant that says what is still under way (queries,
timers, commands, steps of a request) holds at the start, is kept by each action, and implies the
property; where the property is one of steps, each action is shown to be such a step from a state
in the invariant. TLC checked the invariants before they were proved.

* `Authentication_proofs`, first of `PersistentTokens`: `TypeCorrect`, `MapFollows`,
  `RevocationIsFinal`, for any number of connections. The two safety properties are not inductive:
  what the Map will be depends on the queries on their way. What makes several connections
  manageable is `Together`: the operations of a key that is not crossed wait on one connection, where
  they are in order, and nothing about it waits elsewhere; so an answer that is on its way is what
  the table still holds (`AnswerInv`). The rest of the invariant says where a key on which Map and
  table differ will be read again: by a query about it (`CacheInv`), the last of which does not
  miss its row (`SelectInv`); and that no token below `revokedBelow` is in the Map, in the table,
  in an answer or on its way to either, nor will a logout that is waiting revoke a login sent
  after it (`RevokeInv`, of all keys: that a crossed logout counts for nothing is enough).
* `Authentication_proofs`, then of `TokenGrants`: `GrantsTypeCorrect`,
  `WsSessionsKeepTheirTokens`, `TcpSessionsKeepTheirTokens`, `LogoutsAreFinal`, `ExpirationsAreFinal`. The token of a
  session has at least the time left until its keep-alive must have run,
  `interval + Lag - sinceWs` (`WsInv`, `TcpInv`); that of a login that waits has a whole
  interval and the rest of its wait (`WaitInv`). The theorems on sessions assume `Timely`, that any
  expiration of the configuration covers half of any other, the lateness and a takeover. Nothing
  is assumed of the names: `TcpSessionsKeepTheirTokens` is of the sessions that keep the access key
  and `LogoutsAreFinal` of the logouts under it, for whatever other names there are; a grant is
  under the name it was minted for (`MintedInv`), so a keep-alive or a logout under another name finds
  nothing. `ExpirationsAreFinal` is of all.
* `Notifications_proofs`, in two parts. For the sessions alone (`WsSessions`): `WsTypeCorrect`,
  `SessionsStayConnected`, `EveryLastEndIsAnnounced`. The invariant (`WsInv`) says that `keys`
  lists the sockets of `wsid`, each once, that these are connected and are those with
  `socket.nethcti`, of the same user, and that no two takeovers share a number; that the loop of
  `loginHdlr` visits its sockets in the order of `keys` is why the lemmas on sequences are
  needed. For the sessions with the rooms, streams and permissions (`Notifications`):
  `NotificationsTyped`, `NSessionsStayConnected`, `NLastEndIsAnnounced`,
  `FramesAreSubscribed`, `PrivacyIsKept`. `NInv` adds that only a session is in a room
  or receives a stream (`RoomsInv`), and that a `steady` socket is in exactly the rooms of its
  user's permissions and receives a stream only if its user subscribed (`SteadyInv`). The
  two parts are joined by `NotificationsImplementSessions`: each action of `Notifications` does with the
  sessions what one of `WsSessions` does, or leaves them alone, so what is proved of the sessions
  alone holds with the rooms. `WaitingLoginsAreTimed` is of `SilentSpec`: while
  the clients that are taken over are silent, every login that waits has a timer of its own that
  runs (`LoginsAreTimed`, inductive with `WsInv`: a takeover that is forgotten keeps its timer,
  and one that fires ends the wait of its own login).
* `UserPresence_proofs`: `TypeCorrect`, `PresenceFollows`, `RequestsTakeEffect`.
  `PresenceFollowsMain` is inductive with `TypeOK`; the steps all series share are one lemma
  (`GoOnFollows`), whatever the number of extensions and of series. `RequestTakesEffect` needs
  `RequestInv`: the series of a request that nothing disturbed is the only one, and each of the
  steps it has left behind has brought its extension to what the request wants; a step is an
  extension and a mechanism, so the proof is about the numbering of the steps
  (`StepExt`, `StepMech`) for a list of extensions of any length.
* `ConfigManager_proofs`, first of `AutoQueues`: `QueuesTypeCorrect`, `AgentsFollow`. `AgentFollowsSession` speaks of the
  moment when no command is left; `AInv` says what those that are left still do, as a set, since
  their order only matters for who is asked next. After a login nothing that takes away is on
  its way and every queue the agent is missing from has its command (`LoginGoesOn`); after a logout
  every pause has its end in a command or in the rest of a series, and either a series goes on,
  and will look at the queues when it is over, or each of them has its removal (`LogoutGoesOn`).
* `OffHour_proofs`: `TypeCorrect`, `FilesFollow`, `OwnersOnly`, `DeletedGone`, for any number of
  requests at once. `OInv` says of every request what it has found out so far and that this
  is still so: whose announcement it is (`OwnerInv`), that its user may configure the route
  (`RouteInv`), that the file it makes is no announcement's (`MakingInv`), which of the three parts of
  a delete are done (`DeletingInv`); that no two requests make or remove the same
  file (`FilesApart`); and that a file that is being unlinked is neither an announcement's nor of a
  request under way (`UnlinkingApart`), so that an unlink may come as late as it likes. A file that was
  moved away under a request is `astray`. Ownership survives the requests of others because ids are not given out
  again and no query changes `username`.
* `ConfigManager_proofs`, then of `UserSettings`: `TypeCorrect`, `LoadsServeWhatIsStored`, `DefaultsAreServed`. `UInv`
  says of every task what its stage waits for (`Waits`), that a clean task is the only one
  (`Alone`), and what its queries have done (`Stands`): the keys that are not left to upsert are
  stored, the users that are neither to be read nor to be set have in memory what is stored.
  `LoadedIsStored` as it was first written, with `clean` blind to reloads of the users, passed
  TLC and could not be proved: see observation 6.
* `Reloads_proofs`: `TypeCorrect`, `BarrierImplemented`, `ToldHaveRead`, for any number of requests,
  broken files and lost connections. The invariant relates the flags of the code to the rounds: while the
  clients wait a flag is up exactly for the components whose last event is of the round under way
  (`FlagsFollow`), that of the users only when another component can no longer answer
  (`UsersAlone`), and outside a request no prompt component is flagged (`PromptRest`). `BarrierImplemented` has one step per action: `ReloadApp` is a `Request` of
  `ReloadBarrier` (a `Tell` cannot be in it, since astproxy is never among those who answer at
  once), `AstProxyAnswers` a `Reload`, a `Tell` or a stutter, the others stutter.
* `RestServer_proofs`: `ClientAnsweredOnce`, `MessagesOfOneself`, `PrivacyIsKept`,
  `PermittedAreShown`, `PhonesOfOneself`, `NobodyIsForgotten`, for any users, phones, queues,
  permissions and contents of the files. An outcome contains the outcomes of its callbacks, and a proof by induction on it
  is out of reach; but no handler nests more than three. So what is said of an outcome is said of
  four levels (`Ended`, `Once1` to `Once3` for the answers, `Own0` to `Own3` for the commands),
  each of which a callback brings down by one; there is a lemma for what a handler is built from
  (`AskOnce`, `AskThenOnce`, `AskOwn`, ...) and one for every group of routes, up to `execute`
  (`ExecuteOnce`, `ExecuteOwn`, `ExecuteHides`). The invariants are what holds while a command
  waits: the client was answered or a single callback will do it (`OnceInv`, but for the removal of a
  message, which may answer an error and then 200), nothing waits outside a request (`IdleInv`),
  and the cellphones of the users are those the files may name (`CellphonesInv`). That a
  message is removed only for a user with its mailbox needs the state of the callback
  (`getVmMailboxFromDbId`), when the users may have been read again; what is shown of the history
  and of the statistics follows from the clauses of the query, not from the rows (`PageShows`,
  `HistoryPermitted`, `StatsStep`). `NobodyIsForgotten` is the safe part of
  `EveryRequestIsAnswered`: until it is answered a request waits for a command that may call
  back, but for the requests `Forgettable` names. Its four levels are `Certain0` to `Certain`, on
  which every outcome answers or sends a command that calls back (`CallsBack`: all but those of
  `Dropping`, whose components have a path without a callback) and whose callback is a level
  lower; the commands whose callback depends on the state have a case of their own (`Surely`).
  `SureInv` is inductive with `OnceInv`: what else waits meanwhile answers nothing, so the command
  that is called back is the one that was counted on. That the components do call back is the
  liveness part.
* `Phonebook_proofs`: `TypeCorrect`, `OwnersOnlyChange`, `ModificationsFaithful`, for any number of requests at once. `PInv` says of a request that is about to
  change its contact that what it has found out still holds, or the contact is gone (`MayWrite`):
  ids are not given out again and no query writes `owner_id` (`OwnersKept`), so an administrator's
  delete between the two queries of another request does no harm. Nothing is assumed of
  the columns that are sent: of a modification with all of them the values are shown to be at their
  places, of one without some that the database reads the id in one of the values sent, or in an
  empty one, which is no contact's.

What is assumed of the constants, beyond their types: the value that stands for "none" is none of
the others (`NoneAssumption`, `NoDataIsNone`, `NoSeriesIsNone`), permissions that need another
one are only given with it (`PermissionsAssumption` of `OffHour`, `authorization.js` 612-690), a
user of `users.json` has an extension (`FilesAssumption` of `UserSettings`), a posted setting is not
empty (`PostsAssumption`), the main extension exists (`ExtensAreThere`), what a command is on tells
whether it is an extension (`KindsAssumption` of `RestServer`; the numbers of a mailbox and of its
extension are the same to the exchange, and the code never takes one for the other), names,
extensions and names at the domain are apart (`NamesAssumption` of `Authorization`).

Only model-checked (every safety property of the passing runs is proved):

* Liveness: `StoredTokensComeBack`, `ExpiredAreSwept`, `SeriesEnd`, `EndIsActedOn`,
  `EveryRequestIsAnswered`, `ReloadIsAnnounced`, `TasksEnd`. Fairness and ENABLED are out of the
  prover's reach. What must hold all the while for `EveryRequestIsAnswered` to be
  true is proved (`NobodyIsForgotten`).
* Anything that needs induction over data: what a fold or a recursive function computes.

## Findings

`AgentStats`: an agent asks for its own statistics (`astproxy/queue_astats`, documented as "Gets
statistics about your user agent: the results is cached and updated every 25 seconds",
`com_astproxy_rest/plugins_rest/astproxy.js:615`) after a manager of other queues has asked for
those of its agents. `getJSONAllAgentsStats` (`arch_astproxy.js:184`) deletes what the manager may not
see from the object `getAgentsStatsByList` keeps for twenty seconds, so until then the agent is
shown nothing, though its statistics were read. What is never shown is more than one may see
(`OnlyPermittedShown`).

`Modifications`: the documentation of `phonebook/modify_cticontact` has every column in brackets
("`[name]: the name of the contact`", `com_phonebook_rest/plugins_rest/phonebook.js:590`), and so has the
comment of `modifyCtiPbContact`. The function pushes an empty value for a column that is missing
(`dbconn_phonebook.js:304`) and a placeholder only for those sent, so the values after it go to other
columns and `WHERE id=?` gets one of them. The request is answered 200 though its contact is as
it was; when the value reads as the id of another contact, that one is changed, whoever owns it.

## Observations

Met while reading and modelling. The first five and the seventh were found by TLC, the sixth by a
proof that failed; the formulas are false of the modules and so are not among the runs.

1. Two logins of a user that overlap leave `undefined` in the Map; reading it throws, and the
   phone-island token of the user, which is there, is refused (`authentication.js:1214`, against
   1200).
2. `var sid` (`com_nethcti_ws.js:2196`): the acknowledgement of one takeover clears the timer of
   another, whose login is then never completed.
3. A logout under a name in capitals, or an alias, is answered 200 and removes nothing
   (`authentication.js:1137`); a TCP client that logs in with an alias of its user is not kept alive
   (`com_nethcti_tcp.js:1375`).
4. A login right after a logout turns dnd off while it is still being turned on, and an
   extension stays in dnd (`controller_user.js:674`, against `config_manager.js:672`).
5. A user whose session ends while its automatic login into the queues is on its way is not
   logged out of them (`config_manager.js:817`, against 769).
6. The load of the settings works on the rows it has read, whoever the users are by then: a load
   that is late sets the settings of a user whom a reload has removed meanwhile, and when a second
   reload brings the user back while a later load is under way, that load, which did not read the
   user, leaves the old settings in memory (`config_manager.js` 441-478). It takes
   about seven requests and reloads, more than the run of `UserSettings` starts.
7. A persistent token that is revoked while the server reloads can come back: the reload reads the
   table over the connection it has opened, before the `DELETE` that waits on the old one, and its
   answer is set in the Map after the logout has removed the entry (`authentication.js:787-801`, against
   426-433). The row is gone, so it lasts until the next reload.

Websocket:

* sessions that logged in under an extension never get the call events, which are sent to the
  sessions whose name is the user's; `evtStreamingSourceChanged` sends one copy for every key of
  `wsid`; rooms are not entered or left again after a reload or a second login of the socket;
  `trunkChanged` sends to the rooms of the extensions (1548), not to those of the trunks.

REST:

* Requests that may never be answered (`Forgettable` in `RestServer`): `voicemail/list` when the query
  fails (`voicemail.js:191`), `custom_msg` and `delete_callrec` when an update fails, `tot_users`
  (documented in `profiling.js:162`) and `remotelogin`, which have no handler, `paramurl` of a user
  without a profile, `mobile` of an unknown user, an error of `all_avatars`, a request tancredi
  refuses, a manual click-to-call and a phone that cannot be reached; `me` and the saving of `settings` when a
  stored setting begins as JSON and is none (`dbconn_config_manager.js:601`), since nothing validates
  what is saved; then the settings of that user are not loaded at a start or a reload either.
* With the privacy on, `opdata` shows the calls of the queues in clear (`com_astproxy_rest`
  `astproxy.js:2249`), and the history of an interval those of the extension asked for.
* The statistics of a manager hold what each agent did over all queues (`dbconn_ast_proxy.js` 1252-1397,
  `arch_astproxy.js:190`).
* A removed message is answered 500 and then 200: `task.selectedValues` does not exist
  (`dbconn_voicemail.js:198`). `getHistorySmsInterval` uses it too (`dbconn_history.js:618`).
* The counters of new messages are never updated: `dbconn.getVoicemailNewMsg`
  (`voicemail.js:387,579,620`) is defined by no plugin, against the comment at 590-622.
* `historycall` of a user without extensions is an SQL error; in `histcallsgroups` the extensions of
  the groups narrow the internal calls only.
* `cfcall` and `cfvm` are always refused: `authorizePhoneRedirectUser` is undefined for every
  permission a profile has; `presenceSet` compares with `STATUS.call_forward`, which is undefined.
* The history of calls by half hours fails when there were calls after 23:30
  (`dbconn_ast_proxy.js:529`), and the result of an error is kept for half an hour; a failed query
  of the log is kept for twenty seconds as empty statistics; the filter of the recalls removes
  entries from the array it loops over (1399-1403).
* `getPinExtens` and `setPinExten` of `arch_astproxy.js` catch without calling back;
  `getQueueRecallInfo` calls an undefined `callback` (335).

Settings and reload:

* `saveUserSettings` only logs a failed upsert and the request is answered 200; a failed update of
  `saveUserSetting` has no handler and is never answered; removed settings stay in memory until the
  next load; after a reset `setDefaultUserExtensionConf` throws though the row is saved; the default
  extensions are checked at a reload against the users of before it (`config_manager.js:361`, against
  320-323); users that a reload adds have no settings until the next load.
* `sequelize.close()` in the reset of `dbconn` (1073) throws, no connection is ended, and a reload
  opens another one; an `authentication` whose file is broken leaves its tokens cleared, and the
  interval that removes expired tokens stopped (`authentication.js:445`); `user` leaves
  the users empty and is never announced.

Phonebook and off-hours:

* Some failing searches never call back (`dbconn_phonebook.js:1041,1119`); the count of `searchemail`
  leaves out speed dials that its rows include; an import answers the number of all rows of the file.
* A delete removes the off-hours of its announcement (`dbconn_offhour.js:678-683`); one that is set
  while the delete runs stays, with a file that is gone. A failing conversion throws (`logger.log.erro`, `offhour.js:788`), and the
  uploaded file stays in the directory of the announcements.
* The temporary file of `enable_announcement` is joined to its directory as it is sent
  (`offhour.js:555`): a name that leads elsewhere moves the file of another announcement.
* An announcement that is not stored is answered before its file is unlinked, and an unlink that fails
  is only logged (`offhour.js:615`).

## Not modelled

* `astproxy` (`NS/plugins/astproxy`, apart from `arch_astproxy.js`) is not in the repository; it
  is external, as its callers use it: commands answered in order, flags that follow.
* The credential check (PAM, file), 2FA, proxying, static files, mail, scripts, logging: I/O.
* mysql2 emits the `error` event of a connection only when no query with a callback is
  pending; the model lets `initMysqlConn` reconnect at once in every case.
* The contents of messages to clients, the layout of JSON, vCards, photos and sounds; the
  notifications of the TCP component, which change nothing in the server.
* The main presence derived from the states of the extensions (`controller_user.js` 2205-2360) and the
  recall on busy: their inputs are the states of `astproxy`.
* The counters of new voice messages: no query gives them (see the observations).
* Sorting, offsets and limits of the histories; the texts and templates of customer cards.

## Plan

What would be added next, most important first:

1. `MainPresence`: the presence derived from the states of the extensions, against a reference
   definition over all combinations.
2. An abstraction of `WsSessions` (who was announced) composed with `AutoQueues` and the automatic
   dnd of `UserPresence`.
3. An abstract specification of authentication (a token is accepted from its login until its
   logout or expiry) that `PersistentTokens` and `TokenGrants` implement.
4. Proofs: the safe parts of the other liveness properties (what a series, a task or a reload
   under way waits for), as `WaitingLoginsAreTimed` and `NobodyIsForgotten` are.
