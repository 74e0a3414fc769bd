---------------------------- MODULE ServicesRest ----------------------------
(***************************************************************************)
(* The handlers of the REST requests of com_user_rest,                     *)
(* com_streaming_rest, com_voicemail_rest, com_customer_card_rest,         *)
(* com_videoconf_rest, com_profiling_rest and com_dbconn_rest, and the     *)
(* requests http_proxy passes to the provisioning of the phones.           *)
(*                                                                         *)
(* In a request r, target is a user, status a presence, stream a source of *)
(* video and mailbox the voicemail of the message that r names.            *)
(***************************************************************************)
EXTENDS RestReplies

Presences == {"online", "cellphone", "voicemail", "dnd", "callforward"}

----------------------------------------------------------------------------
(* com_user_rest.                                                          *)

\* The settings are added by the callback, which looks at no error.
me(r) ==
  IF r.user \notin DOMAIN users \/ ~userHasProfile(r.user) THEN Http(500)
  ELSE AskThen("getUserSettings", r.user, [a \in Arguments |-> Http(200)])
\* Without a profile the component throws, and the request has no answer.
paramurl(r) == IF userHasProfile(r.user) THEN Ask("getParamUrl", r.user) ELSE {Silence}
endpoints(r) == Http(200)

\* The presences the client is offered.
PresencesListed(k) ==
  Presences \ ((IF authorizeDndUser(k) THEN {} ELSE {"dnd"})
               \cup (IF authorizeCfUser(k) THEN {} ELSE {"callforward", "voicemail", "cellphone"}))
presencelist(r) == Http(200)
presencelist_onbusy(r) == Http(200)
presencelist_onunavailable(r) == Http(200)

presenceGet(r) == Http(200)
presenceOnBusyGet(r) == Http(200)
presenceOnUnavailableGet(r) == Http(200)

\* The code looks for the name call_forward, which the table of the presences
\* does not have: callforward is not among those that need the permission.
NeedCf == {"voicemail", "cellphone"}
presenceSet(r) ==
  Checked(r, /\ r.status = "dnd" => authorizeDndUser(r.user)
             /\ r.status \in NeedCf => authorizeCfUser(r.user),
          Ask("setPresence", IF r.user = Admin THEN r.target ELSE r.user))
presenceOnBusySet(r) ==
  Checked(r, r.status \in NeedCf => authorizeCfUser(r.user), Ask("setPresenceOnBusy", r.user))
presenceOnUnavailableSet(r) ==
  Checked(r, r.status \in NeedCf => authorizeCfUser(r.user),
          Ask("setPresenceOnUnavailable", r.user))
presence(r) == IF r.method = "get" THEN presenceGet(r) ELSE presenceSet(r)
presence_onbusy(r) == IF r.method = "get" THEN presenceOnBusyGet(r) ELSE presenceOnBusySet(r)
presence_onunavailable(r) ==
  IF r.method = "get" THEN presenceOnUnavailableGet(r) ELSE presenceOnUnavailableSet(r)

\* The number of a user the component does not know is dropped, unanswered.
mobile(r) == IF r.user \in DOMAIN users THEN Ask("setMobilePhoneNumber", r.user) ELSE {Silence}

settingsDelete(r) == Ask("deleteSettings", r.user)
settingsPost(r) ==
  IF ~r.valid THEN BadRequest
  ELSE {Send("saveSettings", r.user, Http(500) \cup Ask("loadAllUsersSettings", r.user))}
settings(r) == IF r.method = "post" THEN settingsPost(r) ELSE settingsDelete(r)
setting(r) == Ask("deleteSetting", r.user)
default_device(r) == Checked(r, TRUE, Ask("setDefaultUserExtensionConf", r.user))
\* The component calls back with the settings, and not at all on an error.
all_avatars(r) == {Send("retrieveUsersSettings", r.user, Http(200) \cup {Silence})}

----------------------------------------------------------------------------
(* com_streaming_rest.                                                     *)
OnSource(r, outcomes) ==
  IF r.stream \in getAllowedStreamingSources(r.user) THEN outcomes ELSE Forbidden
sources(r) == Ask("getAllStreamingSources", r.user)
image(r) == OnSource(r, Ask("getVideoSample", r.stream))
open(r) == OnSource(r, Ask("open", r.stream))
\* An error would have two replies, but there is none.
AskTwice(cmd, r) ==
  AskThen(cmd, r.stream,
          [a \in Arguments |-> IF a = "error" THEN {Outcome(<<Reply(500), Reply(200)>>, {})}
                                             ELSE Http(200)])
subscribe(r) == OnSource(r, AskTwice("subscribeSource", r))
unsubscribe(r) == OnSource(r, AskTwice("unsubscribeSource", r))

----------------------------------------------------------------------------
(* com_voicemail_rest.                                                     *)
list(r) == Ask("getVoiceMessagesByUser", r.user)
new_counters(r) ==
  IF ~authorizePresencePanelUser(r.user) THEN Forbidden
  ELSE Ask("getAllNewVoiceMessageCount", r.user)

\* The mailbox of the message is asked of the database first, and whose it is
\* is looked at in the callback (VmIdFound).
OnMessage(r) == {Send("getVmIdFromDbId", r.mailbox, {Silence})}
listen(r) == OnMessage(r)
download(r) == OnMessage(r)
delete(r) == OnMessage(r)

\* A mistake: whose the mailbox is, is not looked at.
VmIdFoundOfAny(r) == Http(500) \cup Ask(r.api, r.mailbox)

\* The callback of getVmIdFromDbId, with the users of that moment.
VmIdFound(r) ==
  Http(500)
  \cup (IF hasVoicemailEndpoint(r.user, r.mailbox) THEN Ask(r.api, r.mailbox) ELSE Forbidden)

\* The greetings of the own mailbox: without it an error.
OnOwnMailbox(r, cmd, after) ==
  IF ~r.valid THEN BadRequest
  ELSE IF ~\E v \in Voicemails : hasVoicemailEndpoint(r.user, v) THEN Http(500)
  ELSE UNION {AskThen(cmd, v, after) : v \in {x \in Voicemails : hasVoicemailEndpoint(r.user, x)}}
OrNotFound ==
  [a \in Arguments |-> CASE a = "error" -> Http(500) [] a = "nothing" -> Http(404)
                          [] OTHER -> Http(200)]
listen_custom_msg(r) == OnOwnMailbox(r, "listenCustomMessage", OrNotFound)
\* Nothing to download makes a file all the same.
download_custom_msg(r) ==
  OnOwnMailbox(r, "listenCustomMessage", OkOrError)
customMsgPost(r) == OnOwnMailbox(r, "setCustomVmAudioMsg", OrNotFound)
customMsgDelete(r) == OnOwnMailbox(r, "deleteCustomMessage", OrNotFound)
custom_msg(r) == IF r.method = "post" THEN customMsgPost(r) ELSE customMsgDelete(r)

----------------------------------------------------------------------------
(* The other plugins.                                                      *)
getbynum(r) == Checked(r, TRUE, Ask("getAllCustomerCards", r.user))
custcard_list(r) == Ask("getCustomerCardsList", r.user)
preview(r) == Checked(r, TRUE, Ask("getCustomerCardPreview", r.user))

newroom(r) ==
  IF ~authorizeVideoconf(r.user) THEN Forbidden
  ELSE Http(500) \cup Http(200)       \* with or without a URL of the service
send_emails(r) ==
  Checked(r, authorizeVideoconf(r.user), {Send("sendToList", r.user, Http(200))})

profiling_all(r) == Ask("getCtiPackageRelease", r.user)
proc_mem(r) == Http(200)
conn_clients(r) == Http(200)
db_stats(r) == Http(200)
\* A mistake: a failure is logged and not answered.
testSilent(r) == Checked(r, TRUE, {Send("testConnection", r.user, Http(200) \cup {Silence})})
\* The connection to the database is tried.
test(r) == Checked(r, TRUE, {Send("testConnection", r.user, Http(200) \cup Http(503))})

\* A request for the provisioning of a phone goes through for the phone of the
\* user; without the permission the proxy neither passes it nor answers it.
tancredi(r) ==
  IF ~authorizePhoneButtonsUser(r.user) THEN {Silence}
  ELSE CASE r.method = "get" /\ r.type = "models" -> Ask("tancredi model", r.user)
         [] r.method \in {"get", "patch"} /\ Owns(r) -> Ask("tancredi phone", r.endpoint)
         [] OTHER -> Forbidden

----------------------------------------------------------------------------
\* Two requests have a route and no handler: the server throws, unanswered.
tot_users(r) == {Silence}
remotelogin(r) == {Silence}

ServicesGet ==
  {"me", "paramurl", "endpoints", "presencelist", "presencelist_onbusy",
   "presencelist_onunavailable", "presence", "presence_onbusy",
   "presence_onunavailable", "all_avatars", "sources", "image", "getbynum",
   "custcard_list", "profiling_all", "proc_mem", "conn_clients", "db_stats",
   "tot_users", "tancredi", "list", "new_counters", "listen", "download",
   "listen_custom_msg", "download_custom_msg"}
ServicesPost ==
  {"presence", "presence_onbusy", "presence_onunavailable", "mobile", "settings",
   "default_device", "open", "subscribe", "unsubscribe", "preview", "newroom",
   "send_emails", "test", "remotelogin", "custom_msg", "delete"}
ServicesPatch == {"tancredi"}
ServicesDelete == {"settings", "setting", "custom_msg"}

services(r) ==
  CASE r.api = "me" -> me(r) [] r.api = "paramurl" -> paramurl(r)
    [] r.api = "endpoints" -> endpoints(r) [] r.api = "presencelist" -> presencelist(r)
    [] r.api = "presencelist_onbusy" -> presencelist_onbusy(r)
    [] r.api = "presencelist_onunavailable" -> presencelist_onunavailable(r)
    [] r.api = "presence" -> presence(r) [] r.api = "presence_onbusy" -> presence_onbusy(r)
    [] r.api = "presence_onunavailable" -> presence_onunavailable(r)
    [] r.api = "mobile" -> mobile(r) [] r.api = "settings" -> settings(r)
    [] r.api = "setting" -> setting(r) [] r.api = "default_device" -> default_device(r)
    [] r.api = "all_avatars" -> all_avatars(r) [] r.api = "sources" -> sources(r)
    [] r.api = "image" -> image(r) [] r.api = "open" -> open(r)
    [] r.api = "subscribe" -> subscribe(r) [] r.api = "unsubscribe" -> unsubscribe(r)
    [] r.api = "getbynum" -> getbynum(r) [] r.api = "custcard_list" -> custcard_list(r)
    [] r.api = "preview" -> preview(r) [] r.api = "newroom" -> newroom(r)
    [] r.api = "send_emails" -> send_emails(r) [] r.api = "profiling_all" -> profiling_all(r)
    [] r.api = "proc_mem" -> proc_mem(r) [] r.api = "conn_clients" -> conn_clients(r)
    [] r.api = "db_stats" -> db_stats(r) [] r.api = "test" -> test(r)
    [] r.api = "tot_users" -> tot_users(r) [] r.api = "remotelogin" -> remotelogin(r)
    [] r.api = "tancredi" -> tancredi(r) [] r.api = "list" -> list(r)
    [] r.api = "new_counters" -> new_counters(r) [] r.api = "listen" -> listen(r)
    [] r.api = "download" -> download(r) [] r.api = "delete" -> delete(r)
    [] r.api = "listen_custom_msg" -> listen_custom_msg(r)
    [] r.api = "download_custom_msg" -> download_custom_msg(r)
    [] r.api = "custom_msg" -> custom_msg(r)
=============================================================================
