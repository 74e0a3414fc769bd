---------------------------- MODULE UserSettings ----------------------------
(***************************************************************************)
(* The settings of the users: the table user_settings, the copy that       *)
(* config_manager keeps in memory, the requests that change one or both of *)
(* them, and the reload, which checks the default extensions against the   *)
(* users and loads the settings again.                                     *)
(*                                                                         *)
(* A task is a request or a reload that waits for the database.  Sequelize *)
(* has a pool of connections, so the queries of different tasks, and those *)
(* that a task sends together, are executed and answered in any order.     *)
(***************************************************************************)
EXTENDS Naturals

CONSTANTS
  Users, Extens,
  OtherKeys,    \* the settings besides the default extension
  Set,          \* what the other settings are set to,
  Broken,       \* or a text that begins as JSON and is none: nothing validates it
  None,         \* no row, no settings in memory, no task
  NoExten,      \* the empty default extension
  UserFiles,    \* what users.json may hold: users with their extensions
  Posts,        \* what a request may save: settings with their values
  Defaults,     \* what the database may hold at the start: default extensions of users
  MaxTasks,     \* bound on the tasks at once
  MaxStarts,    \* bound on the tasks and the changes of users.json
  MaxErrors     \* bound on the queries that fail

Keys == {"default_extension"} \cup OtherKeys
Values == Extens \cup {NoExten, Set, Broken}
Settings == [Keys -> Values \cup {None}]

Empty == [x \in {} |-> None]
PartOf(X, Y) == UNION {[D -> Y] : D \in SUBSET X}
Slots == 1..MaxTasks

\* The tasks, by what they are about, with the stages they go through.
Ops == {"save", "default", "config"}
Stages == {"upserts", "find", "insert", "update", "saved", "refused", "hung",
           "defaults", "check", "load"}
Tasks ==
  [op : Ops, user : Users \cup {None}, data : PartOf(Keys, Values), stage : Stages,
   todo : SUBSET (Users \cup Keys), rows : PartOf(Users, Settings \cup Values \cup {None}),
   fixes : PartOf(Users, Values), clean : BOOLEAN]

ASSUME FilesAssumption ==
  \A f \in UserFiles : DOMAIN f \subseteq Users /\ DOMAIN f # {}
                         /\ \A u \in DOMAIN f : f[u] \subseteq Extens /\ f[u] # {}
ASSUME PostsAssumption == Posts \subseteq PartOf(Keys, Values) /\ Empty \notin Posts
ASSUME DefaultsAssumption == \A d \in Defaults : \A u \in DOMAIN d : d[u] \in Values
ASSUME NoneAssumption == None \notin Values \cup Settings \cup Tasks
ASSUME BoundsAssumption == MaxTasks \in Nat /\ MaxStarts \in Nat /\ MaxErrors \in Nat

VARIABLES
  file,       \* users.json, as the administration last wrote it
  users,      \* the users component user has read from it
  reading,    \* whether they will be read again when astproxy answers
  table,      \* user -> setting -> value of its row
  cache,      \* userSettings: user -> setting -> value
  tasks,      \* the tasks under way
  starts,     \* how many were started
  errors      \* how many queries failed

userVars == <<file, users, reading>>
vars == <<userVars, table, cache, tasks, starts, errors>>

\* What a task keeps: the query it sent or whose answer it has (stage), the
\* users or settings still to go (todo), the rows read (rows), the default
\* extensions to be saved (fixes); clean while no other task changed or read
\* anything, the users were not read again in the midst of its load, and no
\* query of its own failed.
Task(op, user, data, stage) ==
  [op |-> op, user |-> user, data |-> data, stage |-> stage, todo |-> {}, rows |-> Empty,
   fixes |-> Empty, clean |-> TRUE]

Busy == {i \in Slots : tasks[i] # None}
Overlapped == [i \in Slots |-> IF i \in Busy THEN [tasks[i] EXCEPT !.clean = FALSE] ELSE None]
Start(t) ==
  /\ starts < MaxStarts
  /\ starts' = starts + 1
  /\ Busy # Slots
  /\ LET i == CHOOSE i \in Slots \ Busy : TRUE
     IN tasks' = [Overlapped EXCEPT ![i] = [t EXCEPT !.clean = (Busy = {})]]
Goes(i, t) == tasks' = [tasks EXCEPT ![i] = t]
Ends(i) == tasks' = [tasks EXCEPT ![i] = None]
Failed(t) == [t EXCEPT !.clean = FALSE]
\* A query is executed, or the database answers an error to it.
Query(ok) == errors' = (IF ok THEN errors ELSE errors + 1) /\ errors' <= MaxErrors
At(i, stage) == i \in Busy /\ tasks[i].stage = stage

-----------------------------------------------------------------------------
(* The requests.                                                           *)

settingsPost(u, data) ==
  /\ u \in DOMAIN users
  /\ Start([Task("save", u, data, "upserts") EXCEPT !.todo = DOMAIN data])
  /\ UNCHANGED <<userVars, table, cache, errors>>

setDefaultUserExtensionConf(u, e) ==
  /\ Start(Task("default", u, [k \in {"default_extension"} |-> e], "find"))
  /\ UNCHANGED <<userVars, table, cache, errors>>

\* settingsDelete and setting: the rows go, what is in memory stays.
deleteSettings(u, ks) ==
  /\ u \in DOMAIN users
  /\ starts < MaxStarts /\ starts' = starts + 1
  /\ table' = [table EXCEPT ![u] = [k \in Keys |-> IF k \in ks THEN None ELSE @[k]]]
  /\ tasks' = Overlapped
  /\ UNCHANGED <<userVars, cache, errors>>

-----------------------------------------------------------------------------
(* The queries of saveUserSettings: an error of an upsert is only logged.  *)

loadAllUsersSettings(t) == [t EXCEPT !.stage = "load", !.todo = DOMAIN users, !.rows = Empty]

\* A mistake: the settings are loaded when the first of them is saved.
UpsertedFirst(t) == loadAllUsersSettings(t)
Upserted(t) == IF t.todo = {} THEN loadAllUsersSettings(t) ELSE t

saveUserSettings(i) ==
  /\ At(i, "upserts")
  /\ \E k \in tasks[i].todo, ok \in BOOLEAN :
       LET t == [tasks[i] EXCEPT !.todo = @ \ {k}, !.clean = @ /\ ok]
       IN /\ Query(ok)
          /\ table' = IF ok THEN [table EXCEPT ![t.user][k] = t.data[k]] ELSE table
          /\ Goes(i, Upserted(t))
  /\ UNCHANGED <<userVars, cache, starts>>

-----------------------------------------------------------------------------
(* The queries of saveUserSetting, for the request of a user or for a fix. *)

Fixed(t) == CHOOSE u \in DOMAIN t.fixes : TRUE
UserOf(t) == IF t.op = "default" THEN t.user ELSE Fixed(t)
ExtenOf(t) == IF t.op = "default" THEN t.data["default_extension"] ELSE t.fixes[Fixed(t)]

Refused(t) == IF t.op = "default" THEN [Failed(t) EXCEPT !.stage = "refused"]
              ELSE loadAllUsersSettings(Failed(t))

Find(i) ==
  /\ At(i, "find")
  /\ LET t == tasks[i]
         row == table[UserOf(t)]["default_extension"]
     IN \/ Query(TRUE) /\ Goes(i, [t EXCEPT !.stage = IF row = None THEN "insert" ELSE "update"])
        \/ Query(FALSE) /\ Goes(i, Refused(t))
  /\ UNCHANGED <<userVars, table, cache, starts>>

Stored(t) == [table EXCEPT ![UserOf(t)]["default_extension"] = ExtenOf(t)]

\* The row is made, unless it is there: the settings of a user are unique.
Insert(i) ==
  /\ At(i, "insert")
  /\ LET t == tasks[i]
         free == table[UserOf(t)]["default_extension"] = None
     IN \/ /\ free /\ Query(TRUE)
           /\ table' = Stored(t)
           /\ Goes(i, [t EXCEPT !.stage = "saved"])
        \/ (IF free THEN Query(FALSE) ELSE Query(TRUE)) /\ table' = table /\ Goes(i, Refused(t))
  /\ UNCHANGED <<userVars, cache, starts>>

\* A row that was deleted in the meantime is updated in vain; an error has no
\* handler, and nobody is called back.
Update(i) ==
  /\ At(i, "update")
  /\ LET t == tasks[i]
     IN \/ /\ Query(TRUE)
           /\ table' = IF table[UserOf(t)]["default_extension"] = None THEN table ELSE Stored(t)
           /\ Goes(i, [t EXCEPT !.stage = "saved"])
        \/ Query(FALSE) /\ table' = table /\ Goes(i, [Failed(t) EXCEPT !.stage = "hung"])
  /\ UNCHANGED <<userVars, cache, starts>>

\* A mistake: the settings in memory wait for the next load.
InMemoryFirst(u, e) == cache
\* What is saved is set in memory; without settings in memory that throws.
InMemory(u, e) ==
  IF cache[u] = None THEN cache ELSE [cache EXCEPT ![u]["default_extension"] = e]

\* async.series of configUser: one default extension is saved after the other.
Fixes(t, fixes) ==
  IF fixes = Empty THEN loadAllUsersSettings(t)
  ELSE [t EXCEPT !.stage = "find", !.rows = Empty, !.fixes = fixes]

\* The callback of saveUserDefaultExtension: the answer, or the next fix.
Saved(i) ==
  /\ At(i, "saved")
  /\ LET t == tasks[i]
         rest == [u \in DOMAIN t.fixes \ {Fixed(t)} |-> t.fixes[u]]
     IN IF t.op = "default"
        THEN cache' = InMemory(t.user, ExtenOf(t)) /\ Ends(i)
        ELSE /\ cache' = cache
             /\ Goes(i, Fixes(t, rest))
  /\ UNCHANGED <<userVars, table, starts, errors>>

\* A mistake: the error of a save is not answered.
SaveRefusedSilent(i) == FALSE
SaveRefused(i) == At(i, "refused") /\ Ends(i) /\ UNCHANGED <<userVars, table, cache, starts, errors>>

-----------------------------------------------------------------------------
(* The reload of config_manager, and the users.                            *)

\* reset and configUser; the users are read again when astproxy answers.
Reload ==
  /\ cache' = [u \in Users |-> None]
  /\ reading' = TRUE
  /\ Start(Task("config", None, Empty, "defaults"))
  /\ UNCHANGED <<file, users, table, errors>>

getAllUsersDefaultExtension(i) ==
  /\ At(i, "defaults")
  /\ LET t == tasks[i]
         found == {u \in Users : table[u]["default_extension"] # None}
     IN \/ /\ Query(TRUE)
           /\ Goes(i, [t EXCEPT !.stage = "check",
                                !.rows = [u \in found |-> table[u]["default_extension"]]])
        \/ Query(FALSE) /\ Goes(i, loadAllUsersSettings(Failed(t)))
  /\ UNCHANGED <<userVars, table, cache, starts>>

hasExtensionEndpoint(u, e) == u \in DOMAIN users /\ e \in users[u]

\* The rows whose user does not have the extension, at the time of the check.
WrongDefaults(rows) == {u \in DOMAIN rows : ~hasExtensionEndpoint(u, rows[u])}

checkDefaults(i) ==
  /\ At(i, "check")
  /\ LET t == tasks[i]
         wrong == WrongDefaults(t.rows)
         own(u) == IF u \in DOMAIN users THEN CHOOSE e \in users[u] : TRUE ELSE NoExten
     IN Goes(i, Fixes(t, [u \in wrong |-> own(u)]))
  /\ UNCHANGED <<userVars, table, cache, starts, errors>>

\* The administration writes users.json.
WriteUsers ==
  /\ starts < MaxStarts /\ starts' = starts + 1
  /\ file' \in UserFiles
  /\ UNCHANGED <<users, reading, table, cache, tasks, errors>>

\* astproxy answers, and component user reads its file.
ReloadUsers ==
  /\ reading
  /\ users' = file /\ reading' = FALSE
  /\ tasks' = [i \in Slots |->
                 IF At(i, "load") /\ users # file THEN Failed(tasks[i]) ELSE tasks[i]]
  /\ UNCHANGED <<file, table, cache, starts, errors>>

-----------------------------------------------------------------------------
(* The queries of loadAllUsersSettings, one for each user.                 *)

With(rows, u, row) == [v \in DOMAIN rows \cup {u} |-> IF v = u THEN row ELSE rows[v]]

\* The rows of u are read; None stands for an error.
Select(i) ==
  /\ At(i, "load")
  /\ \E u \in tasks[i].todo, ok \in BOOLEAN :
       Query(ok) /\ Goes(i, [tasks[i] EXCEPT !.todo = @ \ {u}, !.clean = @ /\ ok,
                                !.rows = With(@, u, IF ok THEN table[u] ELSE None)])
  /\ UNCHANGED <<userVars, table, cache, starts>>

\* The values are parsed in the callback of the query: one that is broken throws
\* there, and nobody is called back with the rows of its user.
Throws(row) == row # None /\ \E k \in Keys : row[k] = Broken

\* The rows of u are answered, and set in memory.
getUserSettings(i) ==
  /\ At(i, "load")
  /\ \E u \in DOMAIN tasks[i].rows :
       LET t == tasks[i]
           rest == [v \in DOMAIN t.rows \ {u} |-> t.rows[v]]
       IN /\ ~Throws(t.rows[u])
          /\ cache' = IF t.rows[u] = None THEN cache ELSE [cache EXCEPT ![u] = t.rows[u]]
          /\ IF rest = Empty /\ t.todo = {} THEN Ends(i) ELSE Goes(i, [t EXCEPT !.rows = rest])
  /\ UNCHANGED <<userVars, table, starts, errors>>

-----------------------------------------------------------------------------
\* The server starts: the users are known, and the settings are read as at a
\* reload.
Init ==
  /\ file \in UserFiles /\ users = file /\ reading = FALSE
  /\ \E d \in Defaults :
       table = [u \in Users |-> [k \in Keys |-> IF k = "default_extension" /\ u \in DOMAIN d
                                               THEN d[u] ELSE None]]
  /\ cache = [u \in Users |-> None]
  /\ tasks = [i \in Slots |-> IF i = 1 THEN Task("config", None, Empty, "defaults") ELSE None]
  /\ starts = 0 /\ errors = 0

Requests ==
  \E u \in Users :
    \/ \E p \in Posts : settingsPost(u, p)
    \/ \E e \in Extens : setDefaultUserExtensionConf(u, e)
    \/ deleteSettings(u, Keys)
    \/ \E k \in Keys : deleteSettings(u, {k})

Answers(i) ==
  \/ saveUserSettings(i) \/ Find(i) \/ Insert(i) \/ Update(i) \/ Saved(i) \/ SaveRefused(i)
  \/ getAllUsersDefaultExtension(i) \/ checkDefaults(i) \/ Select(i) \/ getUserSettings(i)

Next == Requests \/ Reload \/ WriteUsers \/ ReloadUsers \/ \E i \in Slots : Answers(i)

\* The database executes what it is sent and answers it, in any order.
Spec == Init /\ [][Next]_vars /\ \A i \in Slots : WF_vars(Answers(i))

-----------------------------------------------------------------------------
(* Properties.                                                             *)

\* The state is well typed, and a task that waits has something to wait for.
TypeOK ==
  /\ file \in UserFiles /\ users \in UserFiles /\ reading \in BOOLEAN
  /\ table \in [Users -> Settings]
  /\ cache \in [Users -> Settings \cup {None}]
  /\ tasks \in [Slots -> Tasks \cup {None}]
  /\ starts \in 0..MaxStarts /\ errors \in 0..MaxErrors
  /\ \A i \in Busy :
       /\ tasks[i].stage = "load" => tasks[i].todo # {} \/ tasks[i].rows # Empty
       /\ tasks[i].stage \in {"find", "insert", "update", "saved"} /\ tasks[i].op = "config"
            => tasks[i].fixes # Empty

\* The task i ends in this step, nobody came between and nothing failed.
EndsWell(i) == i \in Busy /\ tasks[i].clean /\ tasks'[i] = None

\* A save that is answered 200, or a reload that is over, leaves the settings
\* of every user in memory as they are stored, whatever requests left them
\* different before (settingsPost of user.js, loadAllUsersSettings).
LoadedIsStored ==
  [][\A i \in Slots : EndsWell(i) /\ tasks[i].op \in {"save", "config"} =>
       /\ \A k \in DOMAIN tasks[i].data : table'[tasks[i].user][k] = tasks[i].data[k]
       /\ \A u \in Users : cache'[u] # None /\ u \in DOMAIN users => cache'[u] = table'[u]]_vars

\* The default extension a user was answered 200 for is stored and the one the
\* other components take (setDefaultUserExtensionConf, getDefaultUserExtensionConf).
DefaultIsServed ==
  [][\A i \in Slots : EndsWell(i) /\ tasks[i].op = "default" =>
       LET u == tasks[i].user
           e == tasks[i].data["default_extension"]
       IN /\ table'[u]["default_extension"] = e
          /\ cache[u] # None => cache'[u]["default_extension"] = e]_vars

\* Every request is answered and every reload loads the settings, with queries
\* that fail or not, but for two that wait for ever: for the update of a row that
\* failed, and for the settings of a user with a broken value, after those of all
\* the others came to memory.
Stuck(t) ==
  \/ t.stage = "hung"
  \/ t.stage = "load" /\ t.todo = {} /\ \A u \in DOMAIN t.rows : Throws(t.rows[u])
TasksEnd == \A i \in Slots : (tasks[i] # None) ~> (tasks[i] = None \/ Stuck(tasks[i]))
=============================================================================
