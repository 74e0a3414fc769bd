---------------------------- MODULE AstproxyRest ----------------------------
(***************************************************************************)
(* The handlers of the REST requests on phones, conversations, queues,     *)
(* parkings and conferences: com_astproxy_rest/plugins_rest/astproxy.js.   *)
(*                                                                         *)
(* In a request r, endpoint is the extension (or cellphone) of the request *)
(* and dest the second one it names: the destination, the owner of the     *)
(* conference or the applicant.  phone says what the device of the         *)
(* endpoint is and how click to call works:                                *)
(*   webrtc, online, urls (those its model has), fanvil, mode ("automatic",*)
(*   "cloud" or "manual"), tcp (a desktop client of the user is connected).*)
(***************************************************************************)
EXTENDS RestReplies, QueueStats

PhoneUrls == {"call", "answer", "hold_unhold", "dtmf"}
\* In the file of the URLs every known model has one for calls and answers.
Phones == [webrtc : BOOLEAN, online : BOOLEAN, fanvil : BOOLEAN, tcp : BOOLEAN,
           urls : {{}, {"call", "answer"}, PhoneUrls}, mode : {"automatic", "cloud", "manual"}]
Supported(r) == r.phone.urls # {}

----------------------------------------------------------------------------
(* Calls and phones.                                                       *)
asteriskCall(r) == Ask("call", r.endpoint)
fallbackAjaxPhoneCall(r) == asteriskCall(r)

\* An HTTP request to the phone; what it answers is passed on to the client.
AjaxPhone(r, url) ==
  IF url \in r.phone.urls THEN Ask(url, r.endpoint) ELSE Http(500)
ajaxPhoneDtmf(r) == AjaxPhone(r, "dtmf")
ajaxPhoneHoldUnhold(r) == AjaxPhone(r, "hold_unhold")
ajaxPhoneAnswer(r) == AjaxPhone(r, "answer")

\* A phone that refuses makes Asterisk call; an unreachable one of the model
\* fanvil is taken to have accepted, and nobody answers the client.
ajaxPhoneCall(r) ==
  IF "call" \notin r.phone.urls THEN fallbackAjaxPhoneCall(r)
  ELSE {Send("call by phone", r.endpoint,
             Http(200) \cup fallbackAjaxPhoneCall(r)
                       \cup (IF r.phone.fanvil THEN {Silence} ELSE {}))}

\* The client on the desktop of the user makes the HTTP request, or nobody.
ByTcp(r, url) == IF url \in r.phone.urls THEN Send(url, r.endpoint, {Silence}) ELSE Silence
sendPhoneAnswerToTcp(r) == ByTcp(r, "answer")
sendPhoneHoldToTcp(r) == ByTcp(r, "hold_unhold")
sendPhoneDtmfToTcp(r) == ByTcp(r, "dtmf")
sendPhoneCallToTcp(r) ==
  IF "call" \in r.phone.urls THEN {ByTcp(r, "call")} ELSE fallbackAjaxPhoneCall(r)

call(r) ==
  IF r.phone.webrtc
  THEN IF r.phone.online THEN Tell("webrtc call", r.endpoint) ELSE Http(500)
  ELSE IF Supported(r) /\ r.phone.mode = "automatic" THEN ajaxPhoneCall(r)
  ELSE IF Supported(r) /\ r.phone.mode = "cloud" /\ r.phone.tcp
       THEN {AndReply(c, 200) : c \in sendPhoneCallToTcp(r)}
  ELSE asteriskCall(r)

\* With click to call manual, hold and tones of a supported phone end without
\* an answer.
toggle_hold(r) ==
  Checked(r, Owns(r),
          IF ~Supported(r) THEN Http(500)
          ELSE CASE r.phone.mode = "automatic" -> ajaxPhoneHoldUnhold(r)
                 [] r.phone.mode = "cloud" -> {AndReply(sendPhoneHoldToTcp(r), 200)}
                 [] OTHER -> {Silence})
dtmf(r) ==
  Checked(r, Owns(r),
          IF "dtmf" \notin r.phone.urls THEN Http(500)
          ELSE CASE r.phone.mode = "automatic" -> ajaxPhoneDtmf(r)
                 [] r.phone.mode = "cloud" -> {AndReply(sendPhoneDtmfToTcp(r), 200)}
                 [] OTHER -> {Silence})
\* And so does the answer of a call by a phone that is not supported.
answer(r) ==
  Checked(r, authorizeAdminPhoneUser(r.user) \/ Owns(r),
          IF Supported(r) /\ r.phone.mode = "automatic" THEN ajaxPhoneAnswer(r)
          ELSE IF Supported(r) /\ r.phone.mode = "cloud"
          THEN {AndReply(sendPhoneAnswerToTcp(r), 200)}
          ELSE {Silence})
\* The permission on all the phones is looked up, and not used.
answer_webrtc(r) ==
  Checked(r, Owns(r), IF r.phone.webrtc THEN Tell("webrtc answer", r.endpoint) ELSE Http(500))

unauthe_call(r) == Checked(r, TRUE, asteriskCall(r))
call_api(r) ==
  CASE r.valid /\ r.type = "extension" ->
         Checked(r, authorizeAdminPhoneUser(r.user) \/ Owns(r), call(r))
    [] r.valid /\ r.type = "cellphone" ->
         Checked(r, authorizeAdminPhoneUser(r.user)
                      \/ verifyUserEndpointCellphone(r.user, r.endpoint), asteriskCall(r))
    [] OTHER -> BadRequest
call_echo(r) == Checked(r, Owns(r), call(r))
phone_reload(r) == Checked(r, Owns(r), Tell("reload phone", r.endpoint))
recall_on_busy(r) ==
  IF r.valid /\ Owns(r)                 \* and its own recall on busy is enabled
  THEN Forbidden \cup Ask("recallOnBusy", r.endpoint)
  ELSE Checked(r, FALSE, {})
\* The audio is played on an extension of the user that is in a conversation.
incall_audio(r) ==
  Checked(r, authorizeAdminQueuesUser(r.user),
          Http(500) \cup UNION {Ask("inCallAudio", e) : e \in getAllEndpointsExtension(r.user)})

----------------------------------------------------------------------------
(* Settings of the phones.                                                 *)
cwget(r) == Checked(r, Owns(r), Ask("cwGet", r.endpoint))
cwset(r) == Checked(r, Owns(r), Ask("cwSet", r.endpoint))
cw(r) == IF r.method = "get" THEN cwget(r) ELSE cwset(r)

dndget(r) == Checked(r, authorizeDndUser(r.user) /\ Owns(r), Ask("dndGet", r.endpoint))
dndset(r) == Checked(r, authorizeDndUser(r.user) /\ Owns(r), Ask("setDnd", r.endpoint))
dnd(r) == IF r.method = "get" THEN dndget(r) ELSE dndset(r)

cfvmGetUnconditional(r) == Ask("cfVmGet", r.endpoint)
cfvmGetBusy(r) == Ask("cfbVmGet", r.endpoint)
cfvmGetUnavailable(r) == Ask("cfuVmGet", r.endpoint)
cfvmSetUnconditional(r) == Ask("setUnconditionalCfVm", r.endpoint)
cfvmSetBusy(r) == Ask("cfbVmSet", r.endpoint)
cfvmSetUnavailable(r) == Ask("cfuVmSet", r.endpoint)
cfcallGetUnconditional(r) == Ask("cfGet", r.endpoint)
cfcallGetBusy(r) == Ask("cfbGet", r.endpoint)
cfcallGetUnavailable(r) == Ask("cfuGet", r.endpoint)
cfcallSetUnconditional(r) == Ask("setUnconditionalCf", r.endpoint)
cfcallSetBusy(r) == Ask("cfbSet", r.endpoint)
cfcallSetUnavailable(r) == Ask("cfuSet", r.endpoint)

ByCfType(r, unconditional, busy, unavailable) ==
  Checked(r, authorizePhoneRedirectUser(r.user) /\ Owns(r),
          CASE r.type = "unconditional" -> unconditional
            [] r.type = "busy" -> busy
            [] r.type = "unavailable" -> unavailable
            [] OTHER -> BadRequest)
cfvmGet(r) == ByCfType(r, cfvmGetUnconditional(r), cfvmGetBusy(r), cfvmGetUnavailable(r))
cfvmSet(r) == ByCfType(r, cfvmSetUnconditional(r), cfvmSetBusy(r), cfvmSetUnavailable(r))
cfcallGet(r) == ByCfType(r, cfcallGetUnconditional(r), cfcallGetBusy(r), cfcallGetUnavailable(r))
cfcallSet(r) == ByCfType(r, cfcallSetUnconditional(r), cfcallSetBusy(r), cfcallSetUnavailable(r))
cfvm(r) == IF r.method = "get" THEN cfvmGet(r) ELSE cfvmSet(r)
cfcall(r) == IF r.method = "get" THEN cfcallGet(r) ELSE cfcallSet(r)

\* The PINs of the extensions of the user that are not webrtc.
pinget(r) == Ask("getPinExtens", r.user)
pinset(r) == Checked(r, hasExtensionEndpoint(r.user, r.endpoint), Ask("setPinExten", r.endpoint))
pin(r) == IF r.method = "get" THEN pinget(r) ELSE pinset(r)
\* A mistake: the error is answered, and the request then goes on.
pinstatusGoingOn(r) ==
  AskThen("isPinEnabledAtLeastOneRoute", r.user,
          [a \in Arguments |-> IF a = "error" THEN {Outcome(<<Reply(500), Reply(200)>>, {})}
                                             ELSE Http(200)])
\* The error is not looked at.
pinstatus(r) == AskThen("isPinEnabledAtLeastOneRoute", r.user, [a \in Arguments |-> Http(200)])

wakeupGet(r) == Ask("getAlarms", r.user)
wakeupPost(r) == Checked(r, TRUE, Ask("createAlarm", r.endpoint))
wakeupDelete(r) == Checked(r, TRUE, Ask("deleteAlarm", r.endpoint))
wakeup(r) == CASE r.method = "get" -> wakeupGet(r)
               [] r.method = "post" -> wakeupPost(r)
               [] OTHER -> wakeupDelete(r)

----------------------------------------------------------------------------
(* Conversations.                                                          *)
park(r) ==
  Checked(r, authorizeAdminParkingsUser(r.user) \/ OwnsDest(r), Ask("parkConversation", r.endpoint))
\* A mistake: the permission looked up is another's.
hangupPicking(r) ==
  Checked(r, authorizeAdminPickupUser(r.user) \/ Owns(r), Ask("hangupConversation", r.endpoint))
hangup(r) ==
  Checked(r, authorizeAdminHangupUser(r.user) \/ Owns(r), Ask("hangupConversation", r.endpoint))
hangup_channel(r) ==
  IF r.valid /\ r.type # "extension" THEN BadRequest
  ELSE Checked(r, authorizeAdminHangupUser(r.user) \/ Owns(r), Ask("hangupChannel", r.endpoint))
hangup_mainexten(r) ==
  Checked(r, authorizeAdminHangupUser(r.user) \/ Owns(r), Ask("hangupMainExtension", r.endpoint))
force_hangup(r) ==
  IF r.valid /\ r.type # "extension" THEN BadRequest
  ELSE Checked(r, TRUE, Ask("forceHangupConversation", r.endpoint))
mute(r) == Checked(r, Owns(r), Ask("muteConversation", r.endpoint))
unmute(r) == Checked(r, Owns(r), Ask("unmuteConversation", r.endpoint))
atxfer(r) ==
  Checked(r, Owns(r) \/ authorizeAdminTransferUser(r.user),
          Ask("attendedTransferConversation", r.endpoint))
blindtransfer(r) ==
  Checked(r, authorizeAdminTransferUser(r.user) \/ Owns(r),
          Ask("blindTransferConversation", r.endpoint))
blindtransfer_queue(r) ==
  Checked(r, \/ authorizeAdminTransferUser(r.user)
             \/ authorizeQManagerUser(r.user) /\ r.queue \in getAllowedQManagerQueues(r.user),
          Ask("redirectWaitingCaller", r.queue))
blindtransfer_parking(r) ==
  Checked(r, authorizeAdminTransferUser(r.user), Ask("redirectParking", r.dest))
\* The endpoint and the mailbox are looked up for the user the request names.
txfer_tovm(r) ==
  IF ~r.valid \/ r.type # "extension" THEN BadRequest
  ELSE UNION {IF verifyUserEndpointExten(u, r.endpoint)
                 /\ (\E v \in Voicemails : verifyUserEndpointVoicemail(u, v))
              THEN Forbidden \cup Ask("transferConversationToVoicemail", r.endpoint)
              ELSE Forbidden : u \in Users}

\* A supervisor of a queue of the extension needs no other permission.
OnSpying(r, permitted, cmd) ==
  Checked(r, (permitted \/ r.queue \in getAllowedQManagerQueues(r.user)) /\ OwnsDest(r),
          Ask(cmd, r.endpoint))
start_spy(r) == OnSpying(r, authorizeSpyUser(r.user), "startSpyListenConversation")
intrude(r) == OnSpying(r, authorizeIntrudeUser(r.user), "startSpySpeakConversation")

pickup_conv(r) ==
  Checked(r, authorizeAdminPickupUser(r.user) /\ OwnsDest(r), Ask("pickupConversation", r.endpoint))
pickup_qwaitcaller(r) ==
  Checked(r, authorizeAdminPickupUser(r.user) /\ OwnsDest(r),
          Ask("pickupQueueWaitingCaller", r.queue))
pickup_parking(r) ==
  Checked(r, \/ authorizeAdminParkingsUser(r.user)
             \/ authorizeOpParkingsUser(r.user) /\ OwnsDest(r),
          Ask("pickupParking", r.dest))

MayRecord(r) == \/ authorizeAdminRecordingUser(r.user)
                \/ authorizeRecordingUser(r.user) /\ Owns(r)
start_record(r) == Checked(r, MayRecord(r), Ask("startRecordConversation", r.endpoint))
mute_record(r) == Checked(r, MayRecord(r), Ask("muteRecordConversation", r.endpoint))
unmute_record(r) == Checked(r, MayRecord(r), Ask("unmuteRecordConversation", r.endpoint))
stop_record(r) == Checked(r, TRUE, Ask("stopRecordConversation", r.endpoint))

----------------------------------------------------------------------------
(* Conferences: a conference has the extension of its owner as identifier. *)

\* An owner that is already in a conference leaves it, and calls the guest.
start_conf(r) ==
  Checked(r, OwnsDest(r),
          Ask("startMeetmeConference", r.dest)
          \cup {Send("hangupConversation", r.dest,
                     call([r EXCEPT !.endpoint = r.dest]) \cup Http(500))})
join_myconf(r) == Checked(r, Owns(r), call(r))
end_conf(r) == Checked(r, OwnsDest(r), Ask("endMeetmeConf", r.dest))
hangup_userconf(r) == Checked(r, OwnsDest(r), Ask("hangupUserMeetmeConf", r.dest))
mute_userconf(r) == Checked(r, Owns(r) \/ OwnsDest(r), Ask("muteUserMeetmeConf", r.dest))
unmute_userconf(r) == Checked(r, Owns(r) \/ OwnsDest(r), Ask("unmuteUserMeetmeConf", r.dest))
conference(r) == Checked(r, OwnsDest(r), Http(200))

----------------------------------------------------------------------------
(* Queues.                                                                 *)
MayActAsAgent(r) ==
  \/ authorizeAdminQueuesUser(r.user)
  \/ authorizeQueuesUser(r.user) /\ Owns(r)
queuemember_add(r) == Checked(r, MayActAsAgent(r), Ask("queueMemberAdd", r.endpoint))
queuemember_remove(r) == Checked(r, MayActAsAgent(r), Ask("queueMemberRemove", r.endpoint))
inout_dyn_queues(r) == Checked(r, MayActAsAgent(r), Ask("inoutDynQueues", r.endpoint))
queueMemberPauseUnpause(r, cmd) == Checked(r, MayActAsAgent(r), Ask(cmd, r.endpoint))
queuemember_pause(r) == queueMemberPauseUnpause(r, "queueMemberPause")
queuemember_unpause(r) == queueMemberPauseUnpause(r, "queueMemberUnpause")

queues(r) ==
  Checked(r, authorizeAdminQueuesUser(r.user) \/ authorizeQueuesUser(r.user),
          Show(IF authorizeAdminQueuesUser(r.user) THEN "nothing" ELSE Hidden(r.user)))
qmanager_queues(r) == Checked(r, authorizeQManagerUser(r.user), Show(Hidden(r.user)))
qmanager_qcalls(r) == Checked(r, authorizeQManagerUser(r.user), Ask("getJSONAllQueuesStats", r.user))
qmanager_qcalls_hist(r) ==
  Checked(r, authorizeQManagerUser(r.user), Ask("getQCallsStatsHist", r.user))
qmanager_qstats(r) == Checked(r, authorizeQManagerUser(r.user), Ask("getJSONQueueStats", r.queue))
\* What the callback of these does is AgentsStats: it needs what is kept then.
AskAgentsStats(qs) == {Send("getJSONAllAgentsStats", qs, {Silence})}
qmanager_astats(r) ==
  Checked(r, authorizeQManagerUser(r.user), AskAgentsStats(getAllowedQManagerQueues(r.user)))
queue_astats(r) ==
  Checked(r, authorizeAdminQueuesUser(r.user) \/ authorizeQueuesUser(r.user), AskAgentsStats(Queues))
\* A queue manager is shown what is left, an agent what is left of it.
AgentsStatsReply(r, stats) ==
  IF r.api = "qmanager_astats" THEN [Reply(200) EXCEPT !.shows = stats]
  ELSE IF r.user \notin DOMAIN users THEN Reply(500)
  ELSE [Reply(200) EXCEPT !.shows = {p \in stats : p[1] = r.user}]
qalarms(r) == Checked(r, authorizeQManagerUser(r.user), Http(200))
\* No queue asked for, or none of the user's: an empty list.
queue_recall(r) ==
  Checked(r, authorizeLostQueueCallsUser(r.user), Http(200) \cup Ask("getRecallData", r.user))
qmanager_queue_recall(r) ==
  Checked(r, authorizeQManagerUser(r.user),
          Http(200) \cup (IF getAllowedQManagerQueues(r.user) = {} THEN {}
                          ELSE Ask("getRecallData", r.user)))
qrecall_check(r) ==
  Checked(r, authorizeLostQueueCallsUser(r.user), Ask("checkQueueRecallingStatus", r.user))
qrecall_info(r) ==
  Checked(r, authorizeLostQueueCallsUser(r.user), Ask("getQueueRecallInfo", r.queue))
qmanager_qrecall_info(r) ==
  Checked(r, authorizeQManagerUser(r.user), Ask("getQueueRecallInfo", r.queue))

----------------------------------------------------------------------------
(* The operator panel, and what is shown of the exchange.                  *)
\* The calls waiting in two queues of the panel, in clear for every user of it.
opdata(r) == Checked(r, authorizeOperatorPanel(r.user), Show("nothing"))
op_wait_conv(r) ==
  Checked(r, authorizeOperatorPanel(r.user),
          IF getAllEndpointsExtension(r.user) = {} THEN Http(500) ELSE Ask("opWaitConv", r.user))
opgroups(r) == Http(200)
sip_webrtc(r) == Http(200)
prefix(r) == Http(200)
\* A mistake: the privacy of the user is not looked at.
parkingsShown(r) == Checked(r, authorizeOpParkingsUser(r.user), Show("nothing"))
parkings(r) == Checked(r, authorizeOpParkingsUser(r.user), Show(Hidden(r.user)))
trunks(r) == Checked(r, r.user = Admin \/ authorizeOpTrunksUser(r.user), Show(Hidden(r.user)))
\* The administrator of the queues sees the callers of the queues.
HiddenOfExtensions(k) ==
  IF k = Admin \/ ~isPrivacyEnabled(k) THEN "nothing"
  ELSE IF authorizeAdminQueuesUser(k) THEN "outside the queues" ELSE "all"
extensions(r) == Show(HiddenOfExtensions(r.user))
extension(r) == Checked(r, TRUE, Show(HiddenOfExtensions(r.user)))

----------------------------------------------------------------------------
(* The requests of the plugin, by method, and the handler of each.         *)
AstproxyGet ==
  {"queues", "trunks", "prefix", "wakeup", "opgroups", "parkings",
   "qmanager_qcalls_hist", "extension", "extensions", "sip_webrtc", "conference",
   "qmanager_astats", "queue_astats", "qmanager_qcalls", "qmanager_qstats",
   "queue_recall", "qmanager_queue_recall", "qrecall_info",
   "qmanager_qrecall_info", "qrecall_check", "cw", "dnd", "cfvm", "cfcall",
   "qmanager_queues", "opdata", "qalarms", "pin", "pinstatus"}
AstproxyPost ==
  {"cw", "dnd", "park", "call", "mute", "dtmf", "cfvm", "wakeup", "unmute",
   "cfcall", "atxfer", "answer", "hangup", "intrude", "end_conf", "call_echo",
   "start_spy", "txfer_tovm", "start_conf", "toggle_hold", "pickup_conv",
   "stop_record", "join_myconf", "mute_record", "start_record", "force_hangup",
   "unauthe_call", "op_wait_conv", "pin", "incall_audio", "phone_reload",
   "mute_userconf", "answer_webrtc", "blindtransfer", "unmute_record",
   "hangup_channel", "pickup_parking", "unmute_userconf", "hangup_userconf",
   "queuemember_add", "hangup_mainexten", "inout_dyn_queues", "queuemember_pause",
   "pickup_qwaitcaller", "queuemember_remove", "queuemember_unpause",
   "blindtransfer_queue", "blindtransfer_parking", "recall_on_busy"}
AstproxyDelete == {"wakeup"}

astproxy(r) ==
  CASE r.api = "answer" -> answer(r) [] r.api = "answer_webrtc" -> answer_webrtc(r)
    [] r.api = "atxfer" -> atxfer(r) [] r.api = "blindtransfer" -> blindtransfer(r)
    [] r.api = "blindtransfer_parking" -> blindtransfer_parking(r)
    [] r.api = "blindtransfer_queue" -> blindtransfer_queue(r) [] r.api = "call" -> call_api(r)
    [] r.api = "call_echo" -> call_echo(r) [] r.api = "cfcall" -> cfcall(r)
    [] r.api = "cfvm" -> cfvm(r) [] r.api = "conference" -> conference(r)
    [] r.api = "cw" -> cw(r) [] r.api = "dnd" -> dnd(r)
    [] r.api = "dtmf" -> dtmf(r) [] r.api = "end_conf" -> end_conf(r)
    [] r.api = "extension" -> extension(r) [] r.api = "extensions" -> extensions(r)
    [] r.api = "force_hangup" -> force_hangup(r) [] r.api = "hangup" -> hangup(r)
    [] r.api = "hangup_channel" -> hangup_channel(r)
    [] r.api = "hangup_mainexten" -> hangup_mainexten(r)
    [] r.api = "hangup_userconf" -> hangup_userconf(r)
    [] r.api = "incall_audio" -> incall_audio(r)
    [] r.api = "inout_dyn_queues" -> inout_dyn_queues(r) [] r.api = "intrude" -> intrude(r)
    [] r.api = "join_myconf" -> join_myconf(r) [] r.api = "mute" -> mute(r)
    [] r.api = "mute_record" -> mute_record(r) [] r.api = "mute_userconf" -> mute_userconf(r)
    [] r.api = "op_wait_conv" -> op_wait_conv(r) [] r.api = "opdata" -> opdata(r)
    [] r.api = "opgroups" -> opgroups(r) [] r.api = "park" -> park(r)
    [] r.api = "parkings" -> parkings(r) [] r.api = "phone_reload" -> phone_reload(r)
    [] r.api = "pickup_conv" -> pickup_conv(r) [] r.api = "pickup_parking" -> pickup_parking(r)
    [] r.api = "pickup_qwaitcaller" -> pickup_qwaitcaller(r) [] r.api = "pin" -> pin(r)
    [] r.api = "pinstatus" -> pinstatus(r) [] r.api = "prefix" -> prefix(r)
    [] r.api = "qalarms" -> qalarms(r) [] r.api = "qmanager_astats" -> qmanager_astats(r)
    [] r.api = "qmanager_qcalls" -> qmanager_qcalls(r)
    [] r.api = "qmanager_qcalls_hist" -> qmanager_qcalls_hist(r)
    [] r.api = "qmanager_qrecall_info" -> qmanager_qrecall_info(r)
    [] r.api = "qmanager_qstats" -> qmanager_qstats(r)
    [] r.api = "qmanager_queue_recall" -> qmanager_queue_recall(r)
    [] r.api = "qmanager_queues" -> qmanager_queues(r)
    [] r.api = "qrecall_check" -> qrecall_check(r) [] r.api = "qrecall_info" -> qrecall_info(r)
    [] r.api = "queue_astats" -> queue_astats(r) [] r.api = "queue_recall" -> queue_recall(r)
    [] r.api = "queuemember_add" -> queuemember_add(r)
    [] r.api = "queuemember_pause" -> queuemember_pause(r)
    [] r.api = "queuemember_remove" -> queuemember_remove(r)
    [] r.api = "queuemember_unpause" -> queuemember_unpause(r) [] r.api = "queues" -> queues(r)
    [] r.api = "recall_on_busy" -> recall_on_busy(r) [] r.api = "sip_webrtc" -> sip_webrtc(r)
    [] r.api = "start_conf" -> start_conf(r) [] r.api = "start_record" -> start_record(r)
    [] r.api = "start_spy" -> start_spy(r) [] r.api = "stop_record" -> stop_record(r)
    [] r.api = "toggle_hold" -> toggle_hold(r) [] r.api = "trunks" -> trunks(r)
    [] r.api = "txfer_tovm" -> txfer_tovm(r) [] r.api = "unauthe_call" -> unauthe_call(r)
    [] r.api = "unmute" -> unmute(r) [] r.api = "unmute_record" -> unmute_record(r)
    [] r.api = "unmute_userconf" -> unmute_userconf(r) [] r.api = "wakeup" -> wakeup(r)
=============================================================================
