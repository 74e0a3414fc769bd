----------------------------- MODULE RestServer -----------------------------
(***************************************************************************)
(* The REST servers of nethcti-server at work: a request at a time, from   *)
(* the proxy to the handler of its plugin and through the callbacks of the *)
(* components, beside the reloads of the authorizations and of the users.  *)
(*                                                                         *)
(* Requests share no state but the components', which other modules model; *)
(* so one request under way, in every state the policy can be in, shows    *)
(* what every request meets.                                               *)
(***************************************************************************)
EXTENDS AstproxyRest, HistoryRest, ServicesRest

CONSTANTS Devices,      \* the phones of the requests that look at the phone
          None          \* no request

ASSUME DevicesAssumption == Devices \subseteq Phones
\* What a command is on tells its kind, though an extension and its mailbox, or
\* a queue, are numbers to the exchange.
ASSUME KindsAssumption ==
  \A e \in Extens :
    /\ e \notin Cellphones \cup Queues \cup Streams \cup Voicemails
    /\ \A some \in (SUBSET Extens) \cup (SUBSET Queues) : e # some

VARIABLES request,      \* the request under way
          waiting,      \* the commands whose callback has not been called
          replies       \* what the client was answered, in order

vars == <<policyVars, cache, request, waiting, replies>>

----------------------------------------------------------------------------
AstproxyApis == AstproxyGet \cup AstproxyPost \cup AstproxyDelete
HistoryApis == HistoryGet \cup HistoryPost
Gets == AstproxyGet \cup HistoryGet \cup ServicesGet
Posts == AstproxyPost \cup HistoryPost \cup ServicesPost
Deletes == AstproxyDelete \cup ServicesDelete
Routes == ({"get"} \X Gets) \cup ({"post"} \X Posts)
            \cup ({"delete"} \X Deletes) \cup ({"patch"} \X ServicesPatch)

\* execute: the handler of the plugin the URL names.
execute(r) ==
  CASE r.api \in AstproxyApis -> astproxy(r)
    [] r.api \in HistoryApis -> history(r)
    [] OTHER -> services(r)

\* Which requests look at what.
OfPhone == {"call", "call_echo", "join_myconf", "start_conf", "toggle_hold", "dtmf", "answer",
            "answer_webrtc"}
TypesOf(api) ==
  CASE api \in {"call", "hangup_channel", "force_hangup", "txfer_tovm"} ->
         {"extension", "cellphone", "other"}
    [] api \in {"cfvm", "cfcall"} -> {"unconditional", "busy", "unavailable", "other"}
    [] api = "historycall_interval" -> {"extension", "user", "other"}
    [] api = "tancredi" -> {"models", "other"}
    [] OTHER -> {"other"}
OfQueue == {"blindtransfer_queue", "start_spy", "intrude", "pickup_qwaitcaller", "qmanager_qstats",
            "qrecall_info", "qmanager_qrecall_info"}
OfStatus == {"presence", "presence_onbusy", "presence_onunavailable"}
OfMessage == {"listen", "download", "delete"}
OfStream == {"image", "open", "subscribe", "unsubscribe"}
OfDest == {"park", "blindtransfer_parking", "start_spy", "intrude", "pickup_conv",
           "pickup_qwaitcaller", "pickup_parking", "start_conf", "end_conf", "hangup_userconf",
           "mute_userconf", "unmute_userconf", "conference"}
Among(api, those, S) == IF api \in those THEN S ELSE {None}

ValidRequests(route) ==
  LET api == route[2]
  IN [method : {route[1]}, api : {api}, user : Users, valid : {TRUE},
      endpoint : Extens \cup (IF api = "call" THEN Cellphones ELSE {}),
      dest : Among(api, OfDest, Extens),
      target : Among(api, {"presence", "historycall_interval"}, Users),
      queue : Among(api, OfQueue, Queues), stream : Among(api, OfStream, Streams),
      mailbox : Among(api, OfMessage, Voicemails),
      status : Among(api, OfStatus, Presences), type : TypesOf(api),
      phone : Among(api, OfPhone, Devices)]
\* Of the requests of a user that are not valid one is enough.
Requests(route) ==
  LET valid == ValidRequests(route)
  IN valid \cup {[(CHOOSE r \in valid : r.user = u) EXCEPT !.valid = FALSE] :
                   u \in {r.user : r \in valid}}
ASSUME NoneAssumption == \A route \in Routes : None \notin Requests(route)

----------------------------------------------------------------------------
Init ==
  /\ PolicyInit
  /\ cache = Expired
  /\ request = None
  /\ waiting = {}
  /\ replies = <<>>

Handle ==
  /\ request = None
  /\ \E route \in Routes : \E r \in Requests(route) : \E o \in execute(r) :
       /\ request' = r
       /\ waiting' = o.commands
       /\ replies' = o.replies
  /\ UNCHANGED <<policyVars, cache>>

\* What the callback of a command may do: one of them looks at the users.
Callback(c) == IF c.send = "getVmIdFromDbId" THEN VmIdFound(request) ELSE c.then

\* A component calls back.
Answered ==
  /\ \E c \in waiting : \E o \in Callback(c) :
       /\ c.send # "getJSONAllAgentsStats"
       /\ waiting' = (waiting \ {c}) \cup o.commands
       /\ replies' = replies \o o.replies
  /\ UNCHANGED <<policyVars, cache, request>>

\* The statistics of the agents, read or kept; when nothing is kept the reading
\* may fail.
AgentsStats ==
  /\ \E c \in waiting :
       /\ c.send = "getJSONAllAgentsStats"
       /\ waiting' = waiting \ {c}
       /\ \/ \E s \in getJSONAllAgentsStats(c.on) :
               /\ cache' = s
               /\ replies' = Append(replies, AgentsStatsReply(request, s.left))
          \/ /\ cache = Expired
             /\ replies' = Append(replies, Reply(500))
             /\ UNCHANGED cache
  /\ UNCHANGED <<policyVars, request>>

\* Nothing of the request is left in the server.
Done ==
  /\ request # None
  /\ waiting = {}
  /\ request' = None
  /\ replies' = <<>>
  /\ UNCHANGED <<policyVars, cache, waiting>>

Policy ==
  /\ Configure \/ Reload \/ ReloadUser
  /\ UNCHANGED <<cache, request, waiting, replies>>

TimePasses == CacheExpires /\ UNCHANGED <<policyVars, request, waiting, replies>>

Next == Handle \/ Answered \/ AgentsStats \/ Done \/ Policy \/ TimePasses

Spec == Init /\ [][Next]_vars /\ WF_vars(Answered \/ AgentsStats) /\ WF_vars(Done)

----------------------------------------------------------------------------
(* Properties.                                                             *)

\* Between the handler, the callbacks of the components and their errors, a
\* client is answered once; only the removal of a message is answered with an
\* error, and then, when the row is gone, again: the server drops that.
AnsweredOnce ==
  \/ Len(replies) <= 1
  \/ request.api = "delete" /\ Len(replies) = 2 /\ replies[1].reply = 500

\* The requests whose answer the code can leave out: the routes without a
\* handler, the user or the profile the component does not find, the settings
\* that cannot be read, one of them when it is stored as no JSON although it
\* begins as such, the proxy that refuses, the orders to a phone the
\* configuration leaves to the user, and the queries without a handler of
\* their errors.
Forgettable(r) ==
  \/ r.api \in {"tot_users", "remotelogin", "paramurl", "mobile", "all_avatars", "tancredi",
                "list", "custom_msg", "delete_callrec", "me"}
  \/ r.api = "settings" /\ r.method = "post"
  \/ r.api \in {"toggle_hold", "dtmf"} /\ r.phone.mode = "manual"
  \/ r.api = "answer" /\ (r.phone.mode = "manual" \/ ~Supported(r))
  \/ r.api \in {"call", "call_echo", "join_myconf", "start_conf"} /\ r.phone.fanvil

\* Every other request is answered in the end, along every path of the
\* callbacks: the components answer what they are asked.
EveryRequestIsAnswered ==
  (request # None /\ ~Forgettable(request)) ~> (replies # <<>>)

\* The commands of a handler, with those of its callbacks.
Then(commands) == commands \cup UNION {o.commands : o \in UNION {c.then : c \in commands}}
Commands(commands) == Then(Then(Then(commands)))

\* What lets a user act on the phones and conversations of others.
OverOthers(u, command) ==
  CASE command \in {"call", "call by phone", "webrtc call", "answer"} -> authorizeAdminPhoneUser(u)
    [] command \in {"hangupConversation", "hangupChannel", "hangupMainExtension"} ->
         authorizeAdminHangupUser(u)
    [] command \in {"attendedTransferConversation", "blindTransferConversation"} ->
         authorizeAdminTransferUser(u)
    [] command \in {"startRecordConversation", "muteRecordConversation",
                    "unmuteRecordConversation"} -> authorizeAdminRecordingUser(u)
    [] command \in {"queueMemberAdd", "queueMemberRemove", "queueMemberPause", "queueMemberUnpause",
                    "inoutDynQueues"} -> authorizeAdminQueuesUser(u)
    [] command = "getHistoryCallInterval" -> authorizeAdminCdrUser(u)
    [] OTHER -> FALSE
\* Requests that name the conversation of somebody else by their nature, and
\* those whose handler asks nothing of the extension they name.
OnAnyPhone == {"unauthe_call", "park", "pickup_conv", "pickup_parking", "start_spy", "intrude",
               "txfer_tovm", "force_hangup", "stop_record", "wakeup", "blindtransfer_parking",
               "mute_userconf", "unmute_userconf"}
\* A handler, with the callbacks it leaves behind, acts on the extensions of
\* its user as the files last read say them, or on those of others with the
\* permission for that very command.
OnlyOwnPhones ==
  [][(request = None /\ request' # None /\ request'.api \notin OnAnyPhone) =>
       \A c \in Commands(waiting') :
         c.on \in Extens => \/ hasExtensionEndpoint(request'.user, c.on)
                            \/ OverOthers(request'.user, c.send)]_vars

\* A message is listened to, saved or deleted only for a user that has its
\* mailbox when that is done, though the request looked its mailbox up before
\* and the users can have been read again in the meantime.
OnlyOwnMessages ==
  [][\A c \in waiting' \ waiting :
       c.send \in OfMessage => hasVoicemailEndpoint(request.user, c.on)]_vars

\* The requests that show the numbers of the calls of others.
ShowsCalls == {"queues", "qmanager_queues", "parkings", "trunks", "extension", "extensions",
               "opdata", "queue_recall", "qmanager_queue_recall", "qrecall_info",
               "qmanager_qrecall_info", "historycall_interval", "histcallswitch_interval",
               "histcallsgroups_interval"}
\* A call shown is one of the extensions the user has.
OwnCall(u, x) == hasExtensionEndpoint(u, x.cnum) \/ hasExtensionEndpoint(u, x.dst)
\* What makes a request show them in clear, the privacy on or not: the requests
\* that never look at it, with the permission each of them asks for, and the
\* two that leave it to the name or the permissions of the user.
InClear(u, api, s) ==
  \/ api = "opdata" /\ authorizeOperatorPanel(u)
  \/ api \in {"queue_recall", "qrecall_info"} /\ authorizeLostQueueCallsUser(u)
  \/ api \in {"qmanager_queue_recall", "qmanager_qrecall_info"} /\ authorizeQManagerUser(u)
  \/ api = "historycall_interval"
       /\ (authorizeAdminCdrUser(u) \/ \A x \in s.shows : OwnCall(u, x))
  \/ api \in {"extension", "extensions"} /\ u = Admin
  \/ api = "queues" /\ authorizeAdminQueuesUser(u)
\* The replies of a handler and of the callbacks it leaves behind.
Of(sequence) == {sequence[i] : i \in DOMAIN sequence}
Shown(sent, commands) ==
  Of(sent) \cup UNION {Of(o.replies) : o \in UNION {c.then : c \in commands}}
\* A reply may be shown to the user u of a request for api.
Hides(u, api, s) ==
  s.reply = 200 /\ isPrivacyEnabled(u)
    => \/ s.hides = "all"
       \/ s.hides = "outside the queues" /\ authorizeAdminQueuesUser(u)
       \/ InClear(u, api, s)
\* With the privacy on, a 200 with the calls of others hides the numbers, but
\* for these: the calls of the operator panel, the calls a queue lost and the
\* history of another user or extension are in clear for who has the permission
\* of the request, and the administrator and that of the queues see more.
PrivacyKept ==
  [][(request = None /\ request' # None /\ request'.api \in ShowsCalls) =>
       \A s \in Shown(replies', waiting') : Hides(request'.user, request'.api, s)]_vars

\* What a handler asks for: without the permission on every call those that one
\* of the own extensions is in; for a manager the queues it manages.
Permitted(r, commands) ==
  /\ r.api = "historycall_interval" /\ ~authorizeAdminCdrUser(r.user) =>
       \A s \in Shown(<<>>, commands) : \A x \in s.shows : OwnCall(r.user, x)
  /\ r.api = "qmanager_astats" =>
       \A c \in commands : c.on \subseteq getAllowedQManagerQueues(r.user)
\* The calls and the statistics a request is shown are those its user may see:
\* the statistics of a queue only if it is one asked for, and those of an agent,
\* which are over every queue, only of the agents of these, though what is kept
\* was read for another request.
OnlyPermittedShown ==
  [][/\ request = None /\ request' # None => Permitted(request', waiting')
     /\ \A c \in waiting \ waiting' : c.send = "getJSONAllAgentsStats" =>
          \A p \in replies'[Len(replies')].shows :
            p[2] \in c.on \cup Overall /\ p[1] \in MembersOf(c.on)]_vars

\* What the documentation of queue_astats says: an agent is shown its own
\* statistics, all those that were read.
OwnStatsShown ==
  [][(Len(replies') > Len(replies) /\ request'.api = "queue_astats"
        /\ replies'[Len(replies')].reply = 200)
       => replies'[Len(replies')].shows = {p \in cache'.got : p[1] = request'.user}]_vars
=============================================================================
