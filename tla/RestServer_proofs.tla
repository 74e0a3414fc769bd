-------------------------- MODULE RestServer_proofs --------------------------
(***************************************************************************)
(* Proofs about RestServer, for any users, permissions, phones, queues and *)
(* contents of the files: a request is answered once, is not forgotten,    *)
(* acts on what its user may act on, and shows what its user may see.      *)
(***************************************************************************)
EXTENDS RestServer, SequenceTheorems, TLAPS

-----------------------------------------------------------------------------
(* Outcomes that answer at most once, whatever is called back: the reply   *)
(* is in the synchronous part (Ended), or in the callback of the only      *)
(* command, after one, two or three of them (Once1, Once2, Once3).         *)

\* The commands whose callback is looked at by itself.
Looked == OfMessage \cup {"getVmIdFromDbId", "getJSONAllAgentsStats"}

Notice(c) == c.send \notin Looked /\ \A o \in c.then : o = Silence
Short(s) == s = <<>> \/ \E x : s = <<x>>
Ended(o) == Short(o.replies) /\ \A c \in o.commands : Notice(c)
Awaits(c, o) == o.replies = <<>> /\ o.commands = {c} /\ c.send \notin Looked
Once1(o) == Ended(o) \/ \E c : Awaits(c, o) /\ \A p \in c.then : Ended(p)
Once2(o) == Ended(o) \/ \E c : Awaits(c, o) /\ \A p \in c.then : Once1(p)
Once3(o) == Ended(o) \/ \E c : Awaits(c, o) /\ \A p \in c.then : Once2(p)
Single(outcomes) == \A o \in outcomes : Once3(o)

OneCall == {<<>>} \cup {<<a>> : a \in Arguments}

(* What a component calls back with: only the removal of a message may call back twice. *)
LEMMA CallsShort ==
  ASSUME NEW cmd, cmd # "delete"
  PROVE  C!Calls(cmd) \subseteq OneCall
<1> DEFINE some == {<<>>, <<"error">>, <<"done">>, <<"nothing">>}
<1>1. some \subseteq OneCall BY DEF OneCall, Arguments
<1>2. C!Answers \subseteq some BY DEF C!Answers
<1>3. C!Update \subseteq some BY DEF C!Update
<1>4. \A found : found \subseteq some => C!Query(found) \subseteq some BY DEF C!Query
<1>5. {<<"done">>} \subseteq some /\ {<<"error">>} \subseteq some /\ {<<"nothing">>} \subseteq some OBVIOUS
<1> HIDE DEF some
<1>6. /\ C!getVoicemailMsg \subseteq some /\ C!getVmMailboxFromDbId \subseteq some
      /\ C!getVmIdFromDbId \subseteq some /\ C!listenVoiceMessage \subseteq some
      /\ C!listenCustomMessage \subseteq some /\ C!isAtLeastExtenInCall \subseteq some
      /\ C!getCallRecordingFileData \subseteq some /\ C!getCustomerCardByNum \subseteq some
      /\ C!getRecall \subseteq some /\ C!getQCallsStatsHist \subseteq some
      /\ C!setPinExten \subseteq some
      /\ C!isPinEnabledAtLeastOneRoute \subseteq some /\ C!getParamUrl \subseteq some
  <2> DEFINE a == {<<"done">>, <<"error">>}
             b == {<<"done">>, <<"nothing">>}
  <2>1. a \subseteq some /\ b \subseteq some BY <1>5
  <2>2. /\ C!Query({<<"done">>}) \subseteq some /\ C!Query(a) \subseteq some
        /\ C!Query(b) \subseteq some
    BY <1>4, <1>5, <2>1
  <2> QED BY <2>2 DEF C!getVoicemailMsg, C!getVmMailboxFromDbId, C!getVmIdFromDbId,
        C!listenVoiceMessage, C!listenCustomMessage, C!isAtLeastExtenInCall,
        C!getCallRecordingFileData, C!getCustomerCardByNum, C!getRecall, C!getQCallsStatsHist,
        C!setPinExten, C!isPinEnabledAtLeastOneRoute, C!getParamUrl
<1>7. /\ C!getAllNewVoiceMessageCount \subseteq some /\ C!getCallRecordingContent \subseteq some
      /\ C!getCustomerCardsList \subseteq some
  BY <1>2 DEF C!getAllNewVoiceMessageCount, C!getCallRecordingContent, C!getCustomerCardsList
<1>8. C!getVoiceMessagesByUser \subseteq some
  <2>1. <<>> \in some BY DEF some
  <2> QED BY <1>5, <1>6, <2>1 DEF C!getVoiceMessagesByUser
<1>9. C!setCustomVmAudioMsg \subseteq some
  <2>1. C!Answers \cup C!Update \subseteq some BY <1>2, <1>3
  <2> QED BY <1>4, <2>1 DEF C!setCustomVmAudioMsg
<1>10. C!deleteCustomMessage \subseteq some /\ C!deleteCallRecording \subseteq some
  <2>1. (C!Update \cup {<<"nothing">>} \subseteq some) /\ (C!Update \cup {<<"error">>} \subseteq some)
    BY <1>3, <1>5
  <2>2. /\ C!Query(C!Update \cup {<<"nothing">>}) \subseteq some
        /\ C!Query(C!Update \cup {<<"error">>}) \subseteq some
    BY <1>4, <2>1
  <2> QED BY <1>5, <2>2 DEF C!deleteCustomMessage, C!deleteCallRecording, C!EmptyRecordingFile
<1>11. /\ C!getCustomerCardPreview \subseteq some /\ C!getRecallData \subseteq some
       /\ C!getPinExtens \subseteq some /\ C!deleteSettings \subseteq some
       /\ C!deleteSetting \subseteq some
  <2>1. C!Query({<<"done">>}) \subseteq some BY <1>4, <1>5
  <2> QED BY <1>5, <1>6, <2>1 DEF C!getCustomerCardPreview, C!getRecallData, C!getPinExtens,
        C!deleteSettings, C!deleteSetting
<1>12. /\ C!open \subseteq some /\ C!getVideoSample \subseteq some
       /\ C!getJSONQueueStats \subseteq some /\ C!getAllStreamingSources \subseteq some
       /\ C!subscribeSource \subseteq some /\ C!unsubscribeSource \subseteq some
       /\ C!getQueueRecallInfo \subseteq some /\ C!getAllCustomerCards \subseteq some
  BY <1>2, <1>5 DEF C!open, C!getVideoSample, C!getJSONQueueStats, C!getQueueStats,
       C!getAllStreamingSources, C!subscribeSource, C!unsubscribeSource, C!getQueueRecallInfo,
       C!getAllCustomerCards
<1>13. C!isAtLeastExtenInCallRecording \subseteq some
  BY <1>6 DEF C!isAtLeastExtenInCallRecording
<1>14. C!getUserSettings \subseteq some /\ C!loadAllUsersSettings \subseteq some
  <2>1. {<<"done">>, <<>>} \subseteq some /\ C!loadAllUsersSettings \subseteq some
    BY <1>5 DEF some, C!loadAllUsersSettings
  <2> QED BY <1>4, <2>1 DEF C!getUserSettings
<1>15. C!Calls(cmd) \subseteq some
  BY <1>2, <1>6, <1>7, <1>8, <1>9, <1>10, <1>11, <1>12, <1>13, <1>14 DEF C!Calls
<1> QED BY <1>1, <1>15

LEMMA EndedIsOnce ==
  ASSUME NEW o, Ended(o)
  PROVE  Once1(o) /\ Once2(o) /\ Once3(o)
  BY DEF Once1, Once2, Once3

LEMMA OnceGrows ==
  ASSUME NEW o
  PROVE  (Once1(o) => Once2(o)) /\ (Once2(o) => Once3(o))
<1>1. \A p : Ended(p) => Once1(p) BY DEF Once1
<1>2. Once1(o) => Once2(o) BY <1>1 DEF Once1, Once2
<1>3. \A p : Once1(p) => Once2(p) BY <1>1 DEF Once1, Once2
<1>4. Once2(o) => Once3(o) BY <1>3 DEF Once2, Once3
<1> QED BY <1>2, <1>4

LEMMA HttpEnds ==
  ASSUME NEW c
  PROVE  \A o \in Http(c) : Ended(o)
BY DEF Http, Outcome, Ended, Short

LEMMA SilenceEnds == Ended(Silence)
BY DEF Silence, Outcome, Ended, Short

LEMMA SendTwo ==
  ASSUME NEW cmd, cmd \notin Looked, NEW on, NEW then
  PROVE  /\ (\A o \in then : Ended(o)) => Once1(Send(cmd, on, then))
         /\ (\A o \in then : Once1(o)) => Once2(Send(cmd, on, then))
         /\ (\A o \in then : Once2(o)) => Once3(Send(cmd, on, then))
<1> DEFINE c == [send |-> cmd, on |-> on, then |-> then]
<1>1. c.send = cmd /\ c.then = then OBVIOUS
<1>2. Awaits(c, Send(cmd, on, then)) BY <1>1 DEF Awaits, Send, Outcome
<1> HIDE DEF c
<1> QED BY <1>1, <1>2 DEF Once1, Once2, Once3

LEMMA CalledOnce ==
  ASSUME NEW calls \in OneCall, NEW after
  PROVE  Called(calls, after) = {Silence} \/ \E a \in Arguments : Called(calls, after) = after[a]
<1>1. CASE calls = <<>> BY <1>1 DEF Called
<1>2. CASE calls # <<>>
  <2>1. PICK a \in Arguments : calls = <<a>> BY <1>2 DEF OneCall
  <2>2. Len(calls) = 1 /\ calls[1] = a BY <2>1
  <2> QED BY <1>2, <2>2 DEF Called
<1> QED BY <1>1, <1>2

LEMMA AskThenOutcomes ==
  ASSUME NEW cmd, cmd # "delete", NEW on, NEW after
  PROVE  \E then : /\ AskThen(cmd, on, after) = {Send(cmd, on, then)}
                   /\ \A o \in then : o = Silence \/ \E a \in Arguments : o \in after[a]
<1> DEFINE then == UNION {Called(calls, after) : calls \in C!Calls(cmd)}
<1>1. AskThen(cmd, on, after) = {Send(cmd, on, then)} BY DEF AskThen
<1>2. \A calls \in C!Calls(cmd) : calls \in OneCall BY CallsShort
<1>3. \A calls \in C!Calls(cmd) : \A o \in Called(calls, after) :
         o = Silence \/ \E a \in Arguments : o \in after[a]
  BY <1>2, CalledOnce
<1>4. \A o \in then : o = Silence \/ \E a \in Arguments : o \in after[a] BY <1>3
<1> HIDE DEF then
<1> QED BY <1>1, <1>4

LEMMA AskThenOnce ==
  ASSUME NEW cmd, cmd \notin Looked, NEW on, NEW after
  PROVE  /\ (\A a \in Arguments : \A o \in after[a] : Ended(o))
              => \A o \in AskThen(cmd, on, after) : Once1(o)
         /\ (\A a \in Arguments : \A o \in after[a] : Once1(o))
              => \A o \in AskThen(cmd, on, after) : Once2(o)
         /\ (\A a \in Arguments : \A o \in after[a] : Once2(o))
              => \A o \in AskThen(cmd, on, after) : Once3(o)
<1>1. cmd # "delete" BY DEF Looked, OfMessage
<1>2. PICK then : /\ AskThen(cmd, on, after) = {Send(cmd, on, then)}
                  /\ \A o \in then : o = Silence \/ \E a \in Arguments : o \in after[a]
  BY <1>1, AskThenOutcomes
<1>3. Ended(Silence) /\ Once1(Silence) /\ Once2(Silence) BY SilenceEnds, EndedIsOnce
<1> QED BY <1>2, <1>3, SendTwo

LEMMA AskOnce ==
  ASSUME NEW cmd, cmd \notin Looked, NEW on
  PROVE  \A o \in Ask(cmd, on) : Once1(o)
<1>1. \A a \in Arguments : \A o \in OkOrError[a] : Ended(o) BY HttpEnds DEF OkOrError
<1> QED BY <1>1, AskThenOnce DEF Ask

LEMMA TellEnds ==
  ASSUME NEW cmd, cmd \notin Looked, NEW on
  PROVE  \A o \in Tell(cmd, on) : Ended(o)
BY DEF Tell, AndReply, Send, Outcome, Silence, Ended, Short, Notice

(* The facts the lemmas about the handlers use. *)
LEMMA Refusals == Single(BadRequest) /\ Single(Forbidden) /\ Single({Silence}) /\ \A c : Single(Http(c))
BY HttpEnds, SilenceEnds, EndedIsOnce DEF BadRequest, Forbidden, Single

LEMMA Asks == \A cmd, on : cmd \notin Looked => Single(Ask(cmd, on))
BY AskOnce, OnceGrows DEF Single

LEMMA Tells == \A cmd, on : cmd \notin Looked => Single(Tell(cmd, on))
BY TellEnds, EndedIsOnce DEF Single

LEMMA Shows == \A hides : Single(Show(hides))
<1>1. \A hides : \A o \in Show(hides) : Ended(o) BY DEF Show, Outcome, Ended, Short
<1> QED BY <1>1, EndedIsOnce DEF Single


-----------------------------------------------------------------------------
(* The handlers of com_astproxy_rest.                                      *)

LEMMA PhoneSettingsOnce ==
  ASSUME NEW r
  PROVE  /\ Single(cw(r)) /\ Single(dnd(r)) /\ Single(cfvm(r)) /\ Single(cfcall(r))
         /\ Single(pin(r)) /\ Single(wakeup(r))
<1>1. Single(cw(r)) /\ Single(dnd(r))
  BY Asks, Refusals DEF Single, Checked, Looked, OfMessage, cw, cwget, cwset, dnd, dndget, dndset
<1>2. Single(cfvm(r))
  BY Asks, Refusals
  DEF Single, Checked, Looked, OfMessage, cfvm, cfvmGet, cfvmSet, ByCfType, cfvmGetUnconditional,
      cfvmGetBusy, cfvmGetUnavailable, cfvmSetUnconditional, cfvmSetBusy, cfvmSetUnavailable
<1>3. Single(cfcall(r))
  BY Asks, Refusals
  DEF Single, Checked, Looked, OfMessage, cfcall, cfcallGet, cfcallSet, ByCfType,
      cfcallGetUnconditional, cfcallGetBusy, cfcallGetUnavailable, cfcallSetUnconditional,
      cfcallSetBusy, cfcallSetUnavailable
<1>4. Single(pin(r)) /\ Single(wakeup(r))
  BY Asks, Refusals
  DEF Single, Checked, Looked, OfMessage, pin, pinget, pinset, wakeup, wakeupGet, wakeupPost,
      wakeupDelete
<1> QED BY <1>1, <1>2, <1>3, <1>4

(* The error of the routes with a PIN is not looked at. *)
LEMMA PinStatusOnce ==
  ASSUME NEW r
  PROVE  Single(pinstatus(r))
<1> DEFINE after == [a \in Arguments |-> Http(200)]
<1>1. \A a \in Arguments : \A o \in after[a] : Ended(o) BY HttpEnds
<1>2. "isPinEnabledAtLeastOneRoute" \notin Looked BY DEF Looked, OfMessage
<1> HIDE DEF after
<1>3. \A o \in AskThen("isPinEnabledAtLeastOneRoute", r.user, after) : Once1(o)
  BY <1>1, <1>2, AskThenOnce
<1> QED BY <1>3, OnceGrows DEF pinstatus, after, Single

(* A call is made by Asterisk, by the phone, or by the client on the desktop. *)
LEMMA CallOnce ==
  ASSUME NEW r, r.phone \in Phones
  PROVE  \A o \in call(r) : Once2(o)
<1>1. \A o \in asteriskCall(r) : Once1(o) BY AskOnce DEF asteriskCall, Looked, OfMessage
<1>2. \A o \in ajaxPhoneCall(r) : Once2(o)
  <2> DEFINE then == Http(200) \cup fallbackAjaxPhoneCall(r)
                       \cup (IF r.phone.fanvil THEN {Silence} ELSE {})
  <2>1. \A o \in then : Once1(o)
    BY <1>1, HttpEnds, SilenceEnds, EndedIsOnce DEF fallbackAjaxPhoneCall
  <2>2. "call by phone" \notin Looked BY DEF Looked, OfMessage
  <2> HIDE DEF then
  <2>3. Once2(Send("call by phone", r.endpoint, then)) BY <2>1, <2>2, SendTwo
  <2>4. ajaxPhoneCall(r) = IF "call" \notin r.phone.urls THEN fallbackAjaxPhoneCall(r)
                           ELSE {Send("call by phone", r.endpoint, then)}
    BY DEF ajaxPhoneCall, then
  <2> QED BY <1>1, <2>3, <2>4, OnceGrows DEF fallbackAjaxPhoneCall
<1>3. Supported(r) => \A c \in sendPhoneCallToTcp(r) : Ended(AndReply(c, 200))
  <2>1. Supported(r) => "call" \in r.phone.urls BY DEF Supported, Phones, PhoneUrls
  <2> QED BY <2>1 DEF sendPhoneCallToTcp, ByTcp, AndReply, Send, Silence, Outcome, Ended, Short,
                      Notice, Looked, OfMessage
<1>4. /\ \A o \in Tell("webrtc call", r.endpoint) : Once2(o)
      /\ \A o \in Http(500) : Once2(o)
  BY TellEnds, HttpEnds, EndedIsOnce DEF Looked, OfMessage
<1>5. \A o : (Once1(o) => Once2(o)) /\ (Ended(o) => Once2(o)) BY OnceGrows, EndedIsOnce
<1>6. \/ call(r) = Tell("webrtc call", r.endpoint) \/ call(r) = Http(500)
      \/ call(r) = ajaxPhoneCall(r)
      \/ Supported(r) /\ call(r) = {AndReply(c, 200) : c \in sendPhoneCallToTcp(r)}
      \/ call(r) = asteriskCall(r)
  BY DEF call
<1>7. CASE Supported(r) /\ call(r) = {AndReply(c, 200) : c \in sendPhoneCallToTcp(r)}
  BY <1>3, <1>5, <1>7
<1>8. CASE call(r) = asteriskCall(r) BY <1>1, <1>5, <1>8
<1>9. CASE call(r) = ajaxPhoneCall(r) BY <1>2, <1>9
<1>10. CASE call(r) = Tell("webrtc call", r.endpoint) BY <1>4, <1>10
<1>11. CASE call(r) = Http(500) BY <1>4, <1>11
<1> QED BY <1>6, <1>7, <1>8, <1>9, <1>10, <1>11

LEMMA PhonesOnce ==
  ASSUME NEW r
  PROVE  /\ Single(unauthe_call(r)) /\ Single(phone_reload(r)) /\ Single(recall_on_busy(r))
         /\ Single(incall_audio(r))
<1>1. /\ "call" \notin Looked /\ "reload phone" \notin Looked /\ "recallOnBusy" \notin Looked
      /\ "inCallAudio" \notin Looked
  BY DEF Looked, OfMessage
<1>2. Single(unauthe_call(r)) /\ Single(phone_reload(r)) /\ Single(recall_on_busy(r))
  <2>1. \A e : /\ Single(Ask("call", e)) /\ Single(Tell("reload phone", e))
              /\ Single(Ask("recallOnBusy", e))
    BY <1>1, Asks, Tells
  <2>2. Single(Forbidden \cup Ask("recallOnBusy", r.endpoint)) BY <2>1, Refusals DEF Single
  <2> QED
    BY <2>1, <2>2, Refusals DEF Checked, unauthe_call, asteriskCall, phone_reload, recall_on_busy
<1>3. Single(incall_audio(r))
  <2>1. \A e : Single(Ask("inCallAudio", e)) BY <1>1, Asks
  <2>2. Single(Http(500) \cup UNION {Ask("inCallAudio", e) : e \in getAllEndpointsExtension(r.user)})
    BY <2>1, Refusals DEF Single
  <2> QED BY <2>2, Refusals DEF Checked, incall_audio
<1> QED BY <1>2, <1>3

LEMMA CallsOnce ==
  ASSUME NEW r, r.phone \in Phones
  PROVE  Single(call_api(r)) /\ Single(call_echo(r)) /\ Single(join_myconf(r))
<1>1. Single(call(r)) BY CallOnce, OnceGrows DEF Single
<1> QED
  BY <1>1, Asks, Refusals
  DEF Single, Checked, Looked, OfMessage, call_api, call_echo, join_myconf, asteriskCall

LEMMA PhoneKeysOnce ==
  ASSUME NEW r
  PROVE  /\ Single(toggle_hold(r)) /\ Single(dtmf(r)) /\ Single(answer(r))
         /\ Single(answer_webrtc(r))
<1>1. \A url \in PhoneUrls : Ended(AndReply(ByTcp(r, url), 200))
  BY DEF ByTcp, AndReply, Send, Silence, Outcome, Ended, Short, Notice, Looked, OfMessage, PhoneUrls
<1>2. \A url \in PhoneUrls : Single({AndReply(ByTcp(r, url), 200)})
  BY <1>1, EndedIsOnce DEF Single
<1>3. \A url \in PhoneUrls : url \notin Looked BY DEF PhoneUrls, Looked, OfMessage
<1>4. \A url \in PhoneUrls : Single(AjaxPhone(r, url))
  BY <1>3, Asks, Refusals DEF AjaxPhone
<1>5. {"answer", "hold_unhold", "dtmf"} \subseteq PhoneUrls BY DEF PhoneUrls
<1>6. Single(toggle_hold(r))
  BY <1>2, <1>4, <1>5, Refusals
  DEF Single, Checked, toggle_hold, ajaxPhoneHoldUnhold, sendPhoneHoldToTcp
<1>7. Single(dtmf(r))
  BY <1>2, <1>4, <1>5, Refusals DEF Single, Checked, dtmf, ajaxPhoneDtmf, sendPhoneDtmfToTcp
<1>8. Single(answer(r))
  BY <1>2, <1>4, <1>5, Refusals DEF Single, Checked, answer, ajaxPhoneAnswer, sendPhoneAnswerToTcp
<1>9. Single(answer_webrtc(r))
  BY Tells, Refusals DEF Single, Checked, Looked, OfMessage, answer_webrtc
<1> QED BY <1>6, <1>7, <1>8, <1>9

LEMMA ConversationsOnce ==
  ASSUME NEW r
  PROVE  /\ Single(park(r)) /\ Single(hangup(r)) /\ Single(hangup_channel(r))
         /\ Single(hangup_mainexten(r)) /\ Single(force_hangup(r)) /\ Single(mute(r))
         /\ Single(unmute(r)) /\ Single(atxfer(r)) /\ Single(blindtransfer(r))
         /\ Single(blindtransfer_queue(r)) /\ Single(blindtransfer_parking(r))
         /\ Single(txfer_tovm(r)) /\ Single(start_spy(r)) /\ Single(intrude(r))
         /\ Single(pickup_conv(r)) /\ Single(pickup_qwaitcaller(r)) /\ Single(pickup_parking(r))
         /\ Single(start_record(r)) /\ Single(mute_record(r)) /\ Single(unmute_record(r))
         /\ Single(stop_record(r))
<1>1. /\ Single(park(r)) /\ Single(hangup(r)) /\ Single(hangup_channel(r))
      /\ Single(hangup_mainexten(r)) /\ Single(force_hangup(r)) /\ Single(mute(r))
      /\ Single(unmute(r))
  BY Asks, Refusals
  DEF Single, Checked, Looked, OfMessage, park, hangup, hangup_channel, hangup_mainexten,
      force_hangup, mute, unmute
<1>2. /\ Single(atxfer(r)) /\ Single(blindtransfer(r)) /\ Single(blindtransfer_queue(r))
      /\ Single(blindtransfer_parking(r)) /\ Single(txfer_tovm(r))
  BY Asks, Refusals
  DEF Single, Checked, Looked, OfMessage, atxfer, blindtransfer, blindtransfer_queue,
      blindtransfer_parking, txfer_tovm
<1>3. /\ Single(start_spy(r)) /\ Single(intrude(r)) /\ Single(pickup_conv(r))
      /\ Single(pickup_qwaitcaller(r)) /\ Single(pickup_parking(r))
  BY Asks, Refusals
  DEF Single, Checked, Looked, OfMessage, OnSpying, start_spy, intrude, pickup_conv,
      pickup_qwaitcaller, pickup_parking
<1>4. /\ Single(start_record(r)) /\ Single(mute_record(r)) /\ Single(unmute_record(r))
      /\ Single(stop_record(r))
  BY Asks, Refusals
  DEF Single, Checked, Looked, OfMessage, start_record, mute_record, unmute_record, stop_record
<1> QED BY <1>1, <1>2, <1>3, <1>4

LEMMA ConferencesOnce ==
  ASSUME NEW r, r.phone \in Phones
  PROVE  Single(start_conf(r))
<1> DEFINE q == [r EXCEPT !.endpoint = r.dest]
           then == call(q) \cup Http(500)
<1>1. q.phone = r.phone OBVIOUS
<1> HIDE DEF q
<1>2. \A o \in then : Once2(o) BY <1>1, CallOnce, HttpEnds, EndedIsOnce
<1>3. "hangupConversation" \notin Looked BY DEF Looked, OfMessage
<1> HIDE DEF then
<1>4. Once3(Send("hangupConversation", r.dest, then)) BY <1>2, <1>3, SendTwo
<1>5. start_conf(r) = Checked(r, OwnsDest(r), Ask("startMeetmeConference", r.dest)
                              \cup {Send("hangupConversation", r.dest, then)})
  BY DEF start_conf, then, q
<1> QED BY <1>4, <1>5, Asks, Refusals DEF Single, Checked, Looked, OfMessage

LEMMA InConferenceOnce ==
  ASSUME NEW r
  PROVE  /\ Single(end_conf(r)) /\ Single(hangup_userconf(r)) /\ Single(mute_userconf(r))
         /\ Single(unmute_userconf(r)) /\ Single(conference(r))
BY Asks, Refusals
DEF Single, Checked, Looked, OfMessage, end_conf, hangup_userconf, mute_userconf,
    unmute_userconf, conference

LEMMA QueuesOnce ==
  ASSUME NEW r
  PROVE  /\ Single(queuemember_add(r)) /\ Single(queuemember_remove(r))
         /\ Single(inout_dyn_queues(r)) /\ Single(queuemember_pause(r))
         /\ Single(queuemember_unpause(r)) /\ Single(queues(r)) /\ Single(qmanager_queues(r))
         /\ Single(qmanager_qcalls(r)) /\ Single(qmanager_qcalls_hist(r))
         /\ Single(qmanager_qstats(r)) /\ Single(qalarms(r)) /\ Single(queue_recall(r))
         /\ Single(qmanager_queue_recall(r)) /\ Single(qrecall_check(r)) /\ Single(qrecall_info(r))
         /\ Single(qmanager_qrecall_info(r))
<1>1. /\ Single(queuemember_add(r)) /\ Single(queuemember_remove(r))
      /\ Single(inout_dyn_queues(r)) /\ Single(queuemember_pause(r))
      /\ Single(queuemember_unpause(r))
  BY Asks, Refusals
  DEF Single, Checked, Looked, OfMessage, queuemember_add, queuemember_remove, inout_dyn_queues,
      queueMemberPauseUnpause, queuemember_pause, queuemember_unpause
<1>2. /\ Single(queues(r)) /\ Single(qmanager_queues(r)) /\ Single(qmanager_qcalls(r))
      /\ Single(qmanager_qcalls_hist(r)) /\ Single(qmanager_qstats(r)) /\ Single(qalarms(r))
  BY Asks, Shows, Refusals
  DEF Single, Checked, Looked, OfMessage, queues, qmanager_queues, qmanager_qcalls,
      qmanager_qcalls_hist, qmanager_qstats, qalarms
<1>3. /\ Single(queue_recall(r)) /\ Single(qmanager_queue_recall(r)) /\ Single(qrecall_check(r))
      /\ Single(qrecall_info(r)) /\ Single(qmanager_qrecall_info(r))
  BY Asks, Refusals
  DEF Single, Checked, Looked, OfMessage, queue_recall, qmanager_queue_recall, qrecall_check,
      qrecall_info, qmanager_qrecall_info
<1> QED BY <1>1, <1>2, <1>3

LEMMA ShownOnce ==
  ASSUME NEW r
  PROVE  /\ Single(opdata(r)) /\ Single(op_wait_conv(r)) /\ Single(opgroups(r))
         /\ Single(sip_webrtc(r)) /\ Single(prefix(r)) /\ Single(parkings(r)) /\ Single(trunks(r))
         /\ Single(extensions(r)) /\ Single(extension(r))
BY Asks, Shows, Refusals
DEF Single, Checked, Looked, OfMessage, opdata, op_wait_conv, opgroups, sip_webrtc, prefix,
    parkings, trunks, extensions, extension

-----------------------------------------------------------------------------
(* The handlers of com_history_rest.                                       *)

(* The last step of a request on a recording may read it and copy it. *)
LEMMA LastStepsOnce ==
  ASSUME NEW r
  PROVE  \A o \in deleteCallRecording(r) \cup listenCallRecording(r) \cup downCallRecording(r) :
           Once2(o)
<1>1. \A o \in deleteCallRecording(r) \cup listenCallRecording(r) : Once1(o)
  BY AskOnce DEF deleteCallRecording, listenCallRecording, Looked, OfMessage
<1> DEFINE then == Http(500) \cup Ask("copyFile", r.user)
<1>2. \A o \in then : Once1(o) BY AskOnce, HttpEnds, EndedIsOnce DEF Looked, OfMessage
<1>3. "getCallRecordingContent" \notin Looked BY DEF Looked, OfMessage
<1>4. downCallRecording(r) = {Send("getCallRecordingContent", r.user, then)}
  BY DEF downCallRecording
<1> HIDE DEF then
<1>5. Once2(Send("getCallRecordingContent", r.user, then)) BY <1>2, <1>3, SendTwo
<1> QED BY <1>1, <1>4, <1>5, OnceGrows

LEMMA OnRecordingOnce ==
  ASSUME NEW r, NEW outcomes, \A o \in outcomes : Once2(o)
  PROVE  Single(OnRecording(r, outcomes))
<1> DEFINE all == [a \in Arguments |-> IF a = "done" THEN outcomes ELSE Http(500)]
           own == [a \in Arguments |-> CASE a = "done" -> outcomes [] a = "error" -> Http(500)
                                         [] OTHER -> Forbidden]
<1>1. \A c : \A o \in Http(c) : Once2(o) BY HttpEnds, EndedIsOnce
<1>2. \A a \in Arguments : \A o \in all[a] : Once2(o) BY <1>1
<1>3. \A a \in Arguments : \A o \in own[a] : Once2(o) BY <1>1 DEF Forbidden, Arguments
<1>4. "getCallRecordingFileData" \notin Looked /\ "isAtLeastExtenInCallRecording" \notin Looked
  BY DEF Looked, OfMessage
<1>5. OnRecording(r, outcomes) \in {AskThen("getCallRecordingFileData", r.user, all), Forbidden,
                                    AskThen("isAtLeastExtenInCallRecording", r.user, own)}
  BY DEF OnRecording
<1> HIDE DEF all, own
<1>6. /\ Single(AskThen("getCallRecordingFileData", r.user, all))
      /\ Single(AskThen("isAtLeastExtenInCallRecording", r.user, own))
  BY <1>2, <1>3, <1>4, AskThenOnce DEF Single
<1> QED BY <1>5, <1>6, Refusals

LEMMA AskPageOnce ==
  ASSUME NEW cmd, cmd \notin Looked, NEW on, NEW calls, NEW hides
  PROVE  Single(AskPage(cmd, on, calls, hides))
<1> DEFINE after == [a \in Arguments |-> IF a = "error" THEN Http(500) ELSE Page(calls, hides)]
<1>1. \A o \in Page(calls, hides) : Ended(o) BY DEF Page, Outcome, Ended, Short
<1>2. \A a \in Arguments : \A o \in after[a] : Ended(o) BY <1>1, HttpEnds
<1>3. AskPage(cmd, on, calls, hides) = AskThen(cmd, on, after) BY DEF AskPage
<1> HIDE DEF after
<1> QED BY <1>2, <1>3, AskThenOnce, OnceGrows DEF Single

LEMMA Pages == \A cmd, on, calls, hides : cmd \notin Looked => Single(AskPage(cmd, on, calls, hides))
BY AskPageOnce

LEMMA HistoryOnce ==
  ASSUME NEW r, r.api \in HistoryApis
  PROVE  Single(history(r))
<1>1. Single(delete_callrec(r)) /\ Single(listen_callrec(r)) /\ Single(down_callrec(r))
  BY LastStepsOnce, OnRecordingOnce DEF delete_callrec, listen_callrec, down_callrec
<1>2. Single(historycall_interval(r))
  <2> DEFINE none == {Send("getHistoryCallInterval", {}, Http(500))}
             extens == IF r.type = "extension" THEN {r.endpoint}
                       ELSE getAllEndpointsExtension(r.target)
             pages == UNION {AskPage("getHistoryCallInterval", extens,
                                     getHistoryCallInterval(extens, d, noLost), "nothing") :
                               d \in Directions, noLost \in BOOLEAN}
  <2>1. "getHistoryCallInterval" \notin Looked BY DEF Looked, OfMessage
  <2>2. Single(none) BY <2>1, SendTwo, HttpEnds, OnceGrows DEF Single
  <2>3. Single(pages) BY <2>1, Pages DEF Single
  <2>4. historycall_interval(r) \in {BadRequest, none, pages, Forbidden}
    BY DEF historycall_interval
  <2> HIDE DEF none, pages
  <2> QED BY <2>2, <2>3, <2>4, Refusals
<1>3. \A cmd, k, extens : cmd \notin Looked => Single(OfSwitch(cmd, k, extens))
  BY Pages DEF OfSwitch, Single
<1>4. Single(histcallswitch_interval(r)) /\ Single(histcallsgroups_interval(r))
  <2>1. \A k, extens : /\ Single(OfSwitch("getHistorySwitchCallInterval", k, extens))
                       /\ Single(OfSwitch("getHistoryGroupsCallInterval", k, extens))
    BY <1>3 DEF Looked, OfMessage
  <2>2. Single(histcallswitch_interval(r))
    BY <2>1, Refusals DEF histcallswitch_interval
  <2> DEFINE some == UNION {OfSwitch("getHistoryGroupsCallInterval", r.user,
                                     UNION {getAllEndpointsExtension(u) : u \in group}) :
                              group \in {{}} \cup {g \in SUBSET Users : r.user \in g}}
  <2>3. Single(some) BY <2>1 DEF Single
  <2>4. histcallsgroups_interval(r) \in {Forbidden, some} BY DEF histcallsgroups_interval
  <2> HIDE DEF some
  <2> QED BY <2>2, <2>3, <2>4, Refusals
<1> QED BY <1>1, <1>2, <1>4 DEF history, HistoryApis, HistoryGet, HistoryPost

-----------------------------------------------------------------------------
(* The handlers of the other plugins.                                      *)

LEMMA UsersOnce ==
  ASSUME NEW r
  PROVE  /\ Single(me(r)) /\ Single(paramurl(r)) /\ Single(endpoints(r)) /\ Single(presencelist(r))
         /\ Single(presencelist_onbusy(r)) /\ Single(presencelist_onunavailable(r))
         /\ Single(presence(r)) /\ Single(presence_onbusy(r)) /\ Single(presence_onunavailable(r))
         /\ Single(mobile(r)) /\ Single(setting(r)) /\ Single(default_device(r))
         /\ Single(settings(r)) /\ Single(all_avatars(r))
<1>1. Single(me(r))
  <2> DEFINE after == [a \in Arguments |-> Http(200)]
  <2>1. \A a \in Arguments : \A o \in after[a] : Ended(o) BY HttpEnds
  <2>2. "getUserSettings" \notin Looked BY DEF Looked, OfMessage
  <2>3. me(r) \in {Http(500), AskThen("getUserSettings", r.user, after)} BY DEF me
  <2> HIDE DEF after
  <2>4. Single(AskThen("getUserSettings", r.user, after))
    BY <2>1, <2>2, AskThenOnce, OnceGrows DEF Single
  <2> QED BY <2>3, <2>4, Refusals
<1>2. /\ Single(paramurl(r)) /\ Single(endpoints(r)) /\ Single(presencelist(r))
      /\ Single(presencelist_onbusy(r)) /\ Single(presencelist_onunavailable(r))
      /\ Single(mobile(r)) /\ Single(setting(r)) /\ Single(default_device(r))
  BY Asks, Refusals
  DEF Single, Checked, Looked, OfMessage, paramurl, endpoints, presencelist, presencelist_onbusy,
      presencelist_onunavailable, mobile, setting, default_device
<1>3. Single(presence(r)) /\ Single(presence_onbusy(r)) /\ Single(presence_onunavailable(r))
  BY Asks, Refusals
  DEF Single, Checked, Looked, OfMessage, presence, presenceGet, presenceSet, presence_onbusy,
      presenceOnBusyGet, presenceOnBusySet, presence_onunavailable, presenceOnUnavailableGet,
      presenceOnUnavailableSet
<1>4. Single(settings(r))
  <2> DEFINE then == Http(500) \cup Ask("loadAllUsersSettings", r.user)
  <2>1. \A o \in then : Once1(o) BY AskOnce, HttpEnds, EndedIsOnce DEF Looked, OfMessage
  <2>2. "saveSettings" \notin Looked BY DEF Looked, OfMessage
  <2>3. settings(r) \in {BadRequest, {Send("saveSettings", r.user, then)},
                         Ask("deleteSettings", r.user)}
    BY DEF settings, settingsPost, settingsDelete
  <2> HIDE DEF then
  <2>4. Single({Send("saveSettings", r.user, then)}) BY <2>1, <2>2, SendTwo, OnceGrows DEF Single
  <2>5. Single(Ask("deleteSettings", r.user)) BY Asks DEF Looked, OfMessage
  <2> QED BY <2>3, <2>4, <2>5, Refusals
<1>5. Single(all_avatars(r))
  <2> DEFINE then == Http(200) \cup {Silence}
  <2>1. \A o \in then : Ended(o) BY HttpEnds, SilenceEnds
  <2>2. "retrieveUsersSettings" \notin Looked BY DEF Looked, OfMessage
  <2>3. all_avatars(r) = {Send("retrieveUsersSettings", r.user, then)} BY DEF all_avatars
  <2> HIDE DEF then
  <2> QED BY <2>1, <2>2, <2>3, SendTwo, OnceGrows DEF Single
<1> QED BY <1>1, <1>2, <1>3, <1>4, <1>5

(* A subscription is never called back with an error, which would be answered twice. *)
LEMMA AskTwiceOnce ==
  ASSUME NEW r, NEW cmd \in {"subscribeSource", "unsubscribeSource"}
  PROVE  Single(AskTwice(cmd, r))
<1> DEFINE after == [a \in Arguments |-> IF a = "error" THEN {Outcome(<<Reply(500), Reply(200)>>, {})}
                                                        ELSE Http(200)]
           then == UNION {Called(calls, after) : calls \in C!Calls(cmd)}
<1>1. C!Calls(cmd) = {<<"done">>}
  <2>1. CASE cmd = "subscribeSource" BY <2>1 DEF C!Calls, C!subscribeSource
  <2>2. CASE cmd = "unsubscribeSource" BY <2>2 DEF C!Calls, C!unsubscribeSource
  <2> QED BY <2>1, <2>2
<1>2. Called(<<"done">>, after) = after["done"]
  <2>1. <<"done">> # <<>> /\ Len(<<"done">>) = 1 /\ <<"done">>[1] = "done" OBVIOUS
  <2> HIDE DEF after
  <2> QED BY <2>1 DEF Called
<1>3. after["done"] = Http(200) BY DEF Arguments
<1>4. then = Http(200) BY <1>1, <1>2, <1>3
<1>5. AskTwice(cmd, r) = {Send(cmd, r.stream, then)} BY DEF AskTwice, AskThen
<1>6. cmd \notin Looked BY DEF Looked, OfMessage
<1> HIDE DEF then
<1> QED BY <1>4, <1>5, <1>6, HttpEnds, SendTwo, OnceGrows DEF Single

LEMMA StreamsOnce ==
  ASSUME NEW r
  PROVE  /\ Single(sources(r)) /\ Single(image(r)) /\ Single(open(r)) /\ Single(subscribe(r))
         /\ Single(unsubscribe(r))
<1>1. Single(sources(r)) /\ Single(image(r)) /\ Single(open(r))
  BY Asks, Refusals DEF Looked, OfMessage, OnSource, sources, image, open
<1>2. Single(subscribe(r)) /\ Single(unsubscribe(r))
  BY AskTwiceOnce, Refusals DEF OnSource, subscribe, unsubscribe
<1> QED BY <1>1, <1>2

LEMMA OwnMailboxOnce ==
  ASSUME NEW r, NEW cmd, cmd \notin Looked, NEW after,
         \A a \in Arguments : \A o \in after[a] : Ended(o)
  PROVE  Single(OnOwnMailbox(r, cmd, after))
<1>1. \A v : Single(AskThen(cmd, v, after)) BY AskThenOnce, OnceGrows DEF Single
<1> DEFINE some == UNION {AskThen(cmd, v, after) :
                            v \in {x \in Voicemails : hasVoicemailEndpoint(r.user, x)}}
<1>2. Single(some) BY <1>1 DEF Single
<1>3. OnOwnMailbox(r, cmd, after) \in {BadRequest, Http(500), some} BY DEF OnOwnMailbox
<1> HIDE DEF some
<1> QED BY <1>2, <1>3, Refusals

LEMMA VoicemailsOnce ==
  ASSUME NEW r
  PROVE  /\ Single(list(r)) /\ Single(new_counters(r)) /\ Single(listen_custom_msg(r))
         /\ Single(download_custom_msg(r)) /\ Single(custom_msg(r))
<1>1. Single(list(r)) /\ Single(new_counters(r))
  BY Asks, Refusals DEF Looked, OfMessage, list, new_counters
<1>2. \A a \in Arguments : \A o \in OkOrError[a] \cup OrNotFound[a] : Ended(o)
  BY HttpEnds DEF OkOrError, OrNotFound
<1>3. {"listenCustomMessage", "setCustomVmAudioMsg", "deleteCustomMessage"} \cap Looked = {}
  BY DEF Looked, OfMessage
<1>4. \A cmd \in {"listenCustomMessage", "setCustomVmAudioMsg", "deleteCustomMessage"} :
        Single(OnOwnMailbox(r, cmd, OkOrError)) /\ Single(OnOwnMailbox(r, cmd, OrNotFound))
  BY <1>2, <1>3, OwnMailboxOnce
<1>5. Single(listen_custom_msg(r)) /\ Single(download_custom_msg(r)) /\ Single(custom_msg(r))
  BY <1>4
  DEF listen_custom_msg, download_custom_msg, custom_msg, customMsgPost, customMsgDelete
<1> QED BY <1>1, <1>5

LEMMA OthersOnce ==
  ASSUME NEW r
  PROVE  /\ Single(getbynum(r)) /\ Single(custcard_list(r)) /\ Single(preview(r))
         /\ Single(newroom(r)) /\ Single(send_emails(r)) /\ Single(profiling_all(r))
         /\ Single(proc_mem(r)) /\ Single(conn_clients(r)) /\ Single(db_stats(r)) /\ Single(test(r))
         /\ Single(tot_users(r)) /\ Single(remotelogin(r)) /\ Single(tancredi(r))
<1>1. /\ Single(getbynum(r)) /\ Single(custcard_list(r)) /\ Single(preview(r))
      /\ Single(newroom(r)) /\ Single(profiling_all(r)) /\ Single(proc_mem(r))
      /\ Single(conn_clients(r)) /\ Single(db_stats(r)) /\ Single(tot_users(r))
      /\ Single(remotelogin(r)) /\ Single(tancredi(r))
  <2>1. \A cmd \in {"getAllCustomerCards", "getCustomerCardsList", "getCustomerCardPreview",
                    "getCtiPackageRelease", "tancredi model", "tancredi phone"} :
          \A on : Single(Ask(cmd, on))
    BY Asks DEF Looked, OfMessage
  <2>2. Single(Http(500) \cup Http(200)) BY Refusals DEF Single
  <2>3. Single(getbynum(r)) /\ Single(custcard_list(r)) /\ Single(preview(r))
          /\ Single(profiling_all(r)) /\ Single(tancredi(r))
    BY <2>1, Refusals DEF Checked, getbynum, custcard_list, preview, profiling_all, tancredi
  <2>4. Single(newroom(r)) /\ Single(proc_mem(r)) /\ Single(conn_clients(r))
          /\ Single(db_stats(r)) /\ Single(tot_users(r)) /\ Single(remotelogin(r))
    BY <2>2, Refusals DEF newroom, proc_mem, conn_clients, db_stats, tot_users, remotelogin
  <2> QED BY <2>3, <2>4
<1>2. \A cmd, on, S : cmd \notin Looked /\ (\A o \in S : Ended(o)) => Single({Send(cmd, on, S)})
  BY SendTwo, OnceGrows DEF Single
<1>3. /\ \A o \in Http(200) : Ended(o)
      /\ \A o \in Http(200) \cup Http(503) : Ended(o)
  BY HttpEnds
<1>4. "sendToList" \notin Looked /\ "testConnection" \notin Looked BY DEF Looked, OfMessage
<1>5. /\ Single({Send("sendToList", r.user, Http(200))})
      /\ Single({Send("testConnection", r.user, Http(200) \cup Http(503))})
  BY <1>2, <1>3, <1>4
<1>6. Single(send_emails(r)) /\ Single(test(r))
  BY <1>5, Refusals DEF Checked, send_emails, test
<1> QED BY <1>1, <1>6

(* The requests whose command is looked at by itself. *)
OneLooked(o, cmd) == o.replies = <<>> /\ \E c : o.commands = {c} /\ c.send = cmd
Handled(r, o) ==
  \/ Once3(o)
  \/ OneLooked(o, "getJSONAllAgentsStats") /\ r.api \in {"qmanager_astats", "queue_astats"}
  \/ OneLooked(o, "getVmIdFromDbId") /\ r.api \in OfMessage

LEMMA LookedAt ==
  ASSUME NEW r, NEW o
  PROVE  /\ r.api = "qmanager_astats" /\ o \in qmanager_astats(r) => Handled(r, o)
         /\ r.api = "queue_astats" /\ o \in queue_astats(r) => Handled(r, o)
         /\ r.api \in OfMessage /\ o \in OnMessage(r) => Handled(r, o)
<1>1. ASSUME NEW cmd, NEW on, NEW then
      PROVE  OneLooked(Send(cmd, on, then), cmd)
  <2> DEFINE c == [send |-> cmd, on |-> on, then |-> then]
  <2>1. c.send = cmd OBVIOUS
  <2>2. Send(cmd, on, then) = Outcome(<<>>, {c}) BY DEF Send
  <2> HIDE DEF c
  <2> QED BY <2>1, <2>2 DEF OneLooked, Outcome
<1>2. \A p \in BadRequest \cup Forbidden : Once3(p) BY Refusals DEF Single
<1>3. r.api = "qmanager_astats" /\ o \in qmanager_astats(r) => Handled(r, o)
  BY <1>1, <1>2 DEF qmanager_astats, Checked, AskAgentsStats, Handled
<1>4. r.api = "queue_astats" /\ o \in queue_astats(r) => Handled(r, o)
  BY <1>1, <1>2 DEF queue_astats, Checked, AskAgentsStats, Handled
<1>5. r.api \in OfMessage /\ o \in OnMessage(r) => Handled(r, o)
  BY <1>1 DEF OnMessage, Handled
<1> QED BY <1>3, <1>4, <1>5

(* What the fields of a request are, valid or not. *)
FieldsOf(route, q) ==
  /\ q.method = route[1] /\ q.api = route[2] /\ q.user \in Users /\ q.valid \in BOOLEAN
  /\ "endpoint" \in DOMAIN q /\ q.endpoint \in Extens \cup Cellphones
  /\ q.api # "call" => q.endpoint \in Extens
  /\ q.api \in OfPhone => q.phone \in Phones
  /\ q.api \in OfQueue => q.queue \in Queues
  /\ q.api \in OfMessage => q.mailbox \in Voicemails
  /\ q.api = "presence" => q.target \in Users

LEMMA RequestFields ==
  ASSUME NEW route \in Routes, NEW r \in Requests(route)
  PROVE  FieldsOf(route, r)
<1> DEFINE valid == ValidRequests(route)
<1>1. ASSUME NEW q \in valid PROVE FieldsOf(route, q)
  <2>1. /\ q.method = route[1] /\ q.api = route[2] /\ q.user \in Users /\ q.valid \in BOOLEAN
        /\ q.api \in OfPhone => q.phone \in Phones
    BY DevicesAssumption DEF ValidRequests, Among
  <2>2. /\ "endpoint" \in DOMAIN q /\ q.endpoint \in Extens \cup Cellphones
        /\ (q.api # "call" => q.endpoint \in Extens)
    BY DEF ValidRequests
  <2>3. /\ q.api \in OfQueue => q.queue \in Queues
        /\ q.api \in OfMessage => q.mailbox \in Voicemails
        /\ q.api = "presence" => q.target \in Users
    BY DEF ValidRequests, Among
  <2> QED BY <2>1, <2>2, <2>3 DEF FieldsOf
<1>2. CASE r \in valid BY <1>1, <1>2
<1>3. CASE r \notin valid
  <2>1. PICK u \in {q.user : q \in valid} :
          r = [(CHOOSE q \in valid : q.user = u) EXCEPT !.valid = FALSE]
    BY <1>3 DEF Requests
  <2> DEFINE q == CHOOSE q \in valid : q.user = u
  <2>2. q \in valid OBVIOUS
  <2>3. DOMAIN q = {"method", "api", "user", "valid", "endpoint", "dest", "target", "queue",
                    "stream", "mailbox", "status", "type", "phone"}
    BY <2>2 DEF ValidRequests
  <2>4. r = [q EXCEPT !.valid = FALSE] BY <2>1
  <2> HIDE DEF q, valid
  <2>5. /\ r.method = q.method /\ r.api = q.api /\ r.user = q.user /\ r.valid = FALSE
        /\ r.endpoint = q.endpoint /\ r.phone = q.phone /\ r.queue = q.queue
        /\ r.mailbox = q.mailbox /\ r.target = q.target /\ "endpoint" \in DOMAIN r
    BY <2>3, <2>4
  <2>6. FieldsOf(route, q) BY <1>1, <2>2
  <2> QED BY <2>5, <2>6 DEF FieldsOf
<1> QED BY <1>2, <1>3

LEMMA AstproxyOnce ==
  ASSUME NEW r, r.api \in AstproxyApis, r.api \in OfPhone => r.phone \in Phones,
         NEW o \in astproxy(r)
  PROVE  Handled(r, o)
<1>1. CASE r.api \in OfPhone
  <2>1. Single(astproxy(r))
    BY <1>1, CallsOnce, PhoneKeysOnce, ConferencesOnce DEF OfPhone, astproxy
  <2> QED BY <2>1 DEF Single, Handled
<1>2. CASE r.api = "qmanager_astats" \/ r.api = "queue_astats"
  BY <1>2, LookedAt DEF astproxy
<1>3. CASE r.api \in {"cw", "dnd", "cfvm", "cfcall", "pin", "wakeup", "pinstatus"}
  <2>1. Single(astproxy(r)) BY <1>3, PhoneSettingsOnce, PinStatusOnce DEF astproxy
  <2> QED BY <2>1 DEF Single, Handled
<1>4. CASE r.api \in {"park", "hangup", "hangup_channel", "hangup_mainexten", "force_hangup", "mute",
                      "unmute", "atxfer", "blindtransfer", "blindtransfer_queue",
                      "blindtransfer_parking", "txfer_tovm"}
  <2>1. Single(astproxy(r)) BY <1>4, ConversationsOnce DEF astproxy
  <2> QED BY <2>1 DEF Single, Handled
<1>5. CASE r.api \in {"start_spy", "intrude", "pickup_conv", "pickup_qwaitcaller",
                      "pickup_parking", "start_record", "mute_record", "unmute_record",
                      "stop_record"}
  <2>1. Single(astproxy(r)) BY <1>5, ConversationsOnce DEF astproxy
  <2> QED BY <2>1 DEF Single, Handled
<1>6. CASE r.api \in {"end_conf", "hangup_userconf", "mute_userconf", "unmute_userconf",
                      "conference", "unauthe_call", "phone_reload", "recall_on_busy",
                      "incall_audio"}
  <2>1. Single(astproxy(r)) BY <1>6, InConferenceOnce, PhonesOnce DEF astproxy
  <2> QED BY <2>1 DEF Single, Handled
<1>7. CASE r.api \in {"queuemember_add", "queuemember_remove", "inout_dyn_queues",
                      "queuemember_pause", "queuemember_unpause", "queues", "qmanager_queues",
                      "qmanager_qcalls", "qmanager_qcalls_hist", "qmanager_qstats", "qalarms",
                      "queue_recall", "qmanager_queue_recall", "qrecall_check", "qrecall_info",
                      "qmanager_qrecall_info"}
  <2>1. Single(astproxy(r)) BY <1>7, QueuesOnce DEF astproxy
  <2> QED BY <2>1 DEF Single, Handled
<1>8. CASE r.api \in {"opdata", "op_wait_conv", "opgroups", "sip_webrtc", "prefix", "parkings",
                      "trunks", "extensions", "extension"}
  <2>1. Single(astproxy(r)) BY <1>8, ShownOnce DEF astproxy
  <2> QED BY <2>1 DEF Single, Handled
<1> QED
  BY <1>1, <1>2, <1>3, <1>4, <1>5, <1>6, <1>7, <1>8
  DEF OfPhone, AstproxyApis, AstproxyGet, AstproxyPost, AstproxyDelete

LEMMA ServicesOnce ==
  ASSUME NEW r, r.api \in ServicesGet \cup ServicesPost \cup ServicesPatch \cup ServicesDelete,
         NEW o \in services(r)
  PROVE  Handled(r, o)
<1>1. CASE r.api \in OfMessage
  BY <1>1, LookedAt DEF OfMessage, services, listen, download, delete
<1>2. CASE r.api \in {"me", "paramurl", "endpoints", "presencelist", "presencelist_onbusy",
                      "presencelist_onunavailable", "presence", "presence_onbusy",
                      "presence_onunavailable", "mobile", "setting", "default_device",
                      "settings", "all_avatars"}
  <2>1. Single(services(r)) BY <1>2, UsersOnce DEF services
  <2> QED BY <2>1 DEF Single, Handled
<1>3. CASE r.api \in {"sources", "image", "open", "subscribe", "unsubscribe", "list", "new_counters",
                      "listen_custom_msg", "download_custom_msg", "custom_msg"}
  <2>1. Single(services(r)) BY <1>3, StreamsOnce, VoicemailsOnce DEF services
  <2> QED BY <2>1 DEF Single, Handled
<1>4. CASE r.api \in {"getbynum", "custcard_list", "preview", "newroom", "send_emails",
                      "profiling_all", "proc_mem", "conn_clients", "db_stats", "test",
                      "tot_users", "remotelogin", "tancredi"}
  <2>1. Single(services(r)) BY <1>4, OthersOnce DEF services
  <2> QED BY <2>1 DEF Single, Handled
<1> QED
  BY <1>1, <1>2, <1>3, <1>4
  DEF OfMessage, ServicesGet, ServicesPost, ServicesPatch, ServicesDelete

LEMMA ExecuteOnce ==
  ASSUME NEW route \in Routes, NEW r \in Requests(route), NEW o \in execute(r)
  PROVE  Handled(r, o)
<1>1. r.api = route[2] /\ (r.api \in OfPhone => r.phone \in Phones)
  BY RequestFields DEF FieldsOf
<1>2. ~(r.api \in AstproxyApis /\ r.api \in HistoryApis)
  BY DEF HistoryApis, HistoryGet, HistoryPost, AstproxyApis, AstproxyGet, AstproxyPost,
         AstproxyDelete
<1>3. CASE r.api \in AstproxyApis
  BY <1>1, <1>2, <1>3, AstproxyOnce DEF execute
<1>4. CASE r.api \in HistoryApis
  BY <1>2, <1>4, HistoryOnce DEF execute, Single, Handled
<1>5. CASE r.api \notin AstproxyApis \cup HistoryApis
  <2>1. r.api \in ServicesGet \cup ServicesPost \cup ServicesPatch \cup ServicesDelete
    BY <1>1, <1>5 DEF Routes, Gets, Posts, Deletes, AstproxyApis, HistoryApis
  <2> QED BY <1>5, <2>1, ServicesOnce DEF execute
<1> QED BY <1>3, <1>4, <1>5

-----------------------------------------------------------------------------
(* A request is answered once.  The invariant: it is answered, and what is *)
(* waited for is called back to no effect; or it is not, and one command   *)
(* is waited for, whose callbacks leave it answered at most once; or it    *)
(* asked for the removal of a message, was answered twice, and is over.    *)

TwoReplies(s) == \E x, y : s = <<x, y>> /\ x.reply = 500
Kept(c, r) ==
  \/ c.send \notin Looked /\ \A o \in c.then : Once2(o)
  \/ c.send = "getJSONAllAgentsStats"
  \/ c.send = "getVmIdFromDbId" /\ r.api \in OfMessage
  \/ c.send \in {"listen", "download"} /\ \A o \in c.then : Ended(o)
  \/ /\ c.send = "delete" /\ r.api = "delete"
     /\ \A o \in c.then : o.commands = {} /\ (Short(o.replies) \/ TwoReplies(o.replies))
OnceIn(r, commands, sent) ==
  \/ Short(sent) /\ \A c \in commands : Notice(c)
  \/ sent = <<>> /\ \E c : commands = {c} /\ Kept(c, r)
  \/ r.api = "delete" /\ commands = {} /\ TwoReplies(sent)
OnceInv == OnceIn(request, waiting, replies)

LEMMA HandledOnce ==
  ASSUME NEW r, NEW o, Handled(r, o)
  PROVE  OnceIn(r, o.commands, o.replies)
<1>1. CASE Ended(o) BY <1>1 DEF Ended, OnceIn
<1>2. CASE Once3(o) /\ ~Ended(o)
  <2>1. PICK c : Awaits(c, o) /\ \A p \in c.then : Once2(p) BY <1>2 DEF Once3
  <2>2. Kept(c, r) BY <2>1 DEF Awaits, Kept
  <2> QED BY <2>1, <2>2 DEF Awaits, OnceIn
<1>3. CASE OneLooked(o, "getJSONAllAgentsStats")
  <2>1. PICK c : o.commands = {c} /\ c.send = "getJSONAllAgentsStats" BY <1>3 DEF OneLooked
  <2>2. Kept(c, r) BY <2>1 DEF Kept
  <2> QED BY <1>3, <2>1, <2>2 DEF OneLooked, OnceIn
<1>4. CASE OneLooked(o, "getVmIdFromDbId") /\ r.api \in OfMessage
  <2>1. PICK c : o.commands = {c} /\ c.send = "getVmIdFromDbId" BY <1>4 DEF OneLooked
  <2>2. Kept(c, r) BY <1>4, <2>1 DEF Kept
  <2> QED BY <1>4, <2>1, <2>2 DEF OneLooked, OnceIn
<1> QED BY <1>1, <1>2, <1>3, <1>4 DEF Handled

LEMMA JoinEmpty ==
  ASSUME NEW s, Short(s) \/ TwoReplies(s)
  PROVE  s \o <<>> = s /\ <<>> \o s = s
<1>1. CASE s = <<>> BY <1>1
<1>2. CASE \E x : s = <<x>> BY <1>2
<1>3. CASE TwoReplies(s) BY <1>3 DEF TwoReplies
<1> QED BY <1>1, <1>2, <1>3 DEF Short

LEMMA JoinTwo ==
  ASSUME NEW x, NEW y
  PROVE  <<x>> \o <<y>> = <<x, y>>
<1> DEFINE S == {x, y}
<1>1. <<x>> \in Seq(S) /\ <<y>> \in Seq(S) /\ <<x, y>> \in Seq(S) OBVIOUS
<1>2. Len(<<x>>) = 1 /\ Len(<<y>>) = 1 /\ Len(<<x, y>>) = 2 OBVIOUS
<1>3. <<x>>[1] = x /\ <<y>>[1] = y /\ <<x, y>>[1] = x /\ <<x, y>>[2] = y OBVIOUS
<1> HIDE DEF S
<1> DEFINE s == <<x>> t == <<y>> w == <<x, y>>
<1>4. s \in Seq(S) /\ t \in Seq(S) /\ w \in Seq(S) /\ Len(s) = 1 /\ Len(t) = 1 /\ Len(w) = 2
  BY <1>1, <1>2
<1>5. s[1] = x /\ t[1] = y /\ w[1] = x /\ w[2] = y BY <1>3
<1> HIDE DEF s, t, w
<1>6. s \o t \in Seq(S) /\ Len(s \o t) = 2 BY <1>4, ConcatProperties
<1>7. (s \o t)[1] = s[1] /\ (s \o t)[2] = t[1] BY <1>4, ConcatProperties
<1>8. s \o t = w BY <1>4, <1>5, <1>6, <1>7, SeqEqual
<1> QED BY <1>8 DEF s, t, w

(* The removal of a message calls back with an error, or with one and again. *)
Removal == UNION {Called(calls, OkOrError) : calls \in C!Calls("delete")}

LEMMA RemovalCalls ==
  Removal # {} /\ \A p \in Removal : /\ p.commands = {}
                                     /\ \/ Short(p.replies) /\ p.replies # <<>>
                                        \/ TwoReplies(p.replies)
<1>1. C!Calls("delete") = C!deleteVoiceMessage BY DEF C!Calls
<1>2. C!deleteVoiceMessage = {<<"error">>, <<"error", "done">>}
  <2>1. <<"error">> \o <<"done">> = <<"error", "done">> BY JoinTwo
  <2>2. <<"error">> \o <<>> = <<"error">> OBVIOUS
  <2> QED BY <2>1, <2>2 DEF C!deleteVoiceMessage, C!Query, C!Update
<1>3. Called(<<"error">>, OkOrError) = Http(500)
  <2>1. <<"error">> # <<>> /\ Len(<<"error">>) = 1 /\ <<"error">>[1] = "error" OBVIOUS
  <2> QED BY <2>1 DEF Called, OkOrError, Arguments
<1> DEFINE both == UNION {{Outcome(e.replies \o f.replies, e.commands \cup f.commands) :
                             f \in Http(200)} : e \in Http(500)}
<1>4. Called(<<"error", "done">>, OkOrError) = both
  <2> DEFINE two == <<"error", "done">>
  <2>1. two # <<>> /\ Len(two) = 2 /\ two[1] = "error" /\ two[2] = "done" OBVIOUS
  <2>2. OkOrError["error"] = Http(500) /\ OkOrError["done"] = Http(200)
    BY DEF OkOrError, Arguments
  <2>3. OkOrError[two[1]] = Http(500) /\ OkOrError[two[2]] = Http(200) BY <2>1, <2>2
  <2> HIDE DEF two
  <2>4. Called(two, OkOrError)
          = UNION {{Outcome(e.replies \o f.replies, e.commands \cup f.commands) :
                      f \in OkOrError[two[2]]} : e \in OkOrError[two[1]]}
    BY <2>1 DEF Called
  <2>5. Called(two, OkOrError)
          = UNION {{Outcome(e.replies \o f.replies, e.commands \cup f.commands) :
                      f \in Http(200)} : e \in Http(500)}
    BY <2>3, <2>4
  <2> QED BY <2>5 DEF two
<1>5. /\ \A p \in Http(500) : p.commands = {} /\ Short(p.replies) /\ p.replies # <<>>
      /\ Http(500) # {}
  BY DEF Http, Outcome, Short
<1>6. ASSUME NEW e \in Http(500), NEW f \in Http(200)
      PROVE  /\ e.commands \cup f.commands = {}
             /\ TwoReplies(e.replies \o f.replies)
  <2>1. e.commands = {} /\ f.commands = {} BY DEF Http, Outcome
  <2>2. e.replies = <<Reply(500)>> /\ f.replies = <<Reply(200)>> BY DEF Http, Outcome
  <2>3. e.replies \o f.replies = <<Reply(500), Reply(200)>> BY <2>2, JoinTwo
  <2>4. Reply(500).reply = 500 BY DEF Reply
  <2> QED BY <2>1, <2>3, <2>4 DEF TwoReplies
<1>7. Removal # {} /\ \A p \in Removal : /\ p.commands = {}
                                         /\ \/ Short(p.replies) /\ p.replies # <<>>
                                            \/ TwoReplies(p.replies)
  <2>1. Removal = Http(500) \cup both
    <3>1. Removal = Called(<<"error">>, OkOrError) \cup Called(<<"error", "done">>, OkOrError)
      BY <1>1, <1>2 DEF Removal
    <3> HIDE DEF both
    <3> QED BY <1>3, <1>4, <3>1
  <2>2. ASSUME NEW p \in Removal, p \notin Http(500)
        PROVE  p.commands = {} /\ TwoReplies(p.replies)
    <3> HIDE DEF both
    <3>0. p \in both BY <2>1, <2>2
    <3> USE DEF both
    <3>1. PICK e \in Http(500), f \in Http(200) :
            p = Outcome(e.replies \o f.replies, e.commands \cup f.commands)
      BY ONLY <3>0
    <3>2. p.replies = e.replies \o f.replies /\ p.commands = e.commands \cup f.commands
      BY <3>1 DEF Outcome
    <3> QED BY <1>6, <3>2
  <2> QED BY <1>5, <2>1, <2>2
<1> QED BY <1>7

(* The mailbox of a message is known: it is listened to, saved or removed. *)
LEMMA VmIdFoundOnce ==
  ASSUME NEW r, r.api \in OfMessage, NEW o \in VmIdFound(r)
  PROVE  OnceIn(r, o.commands, o.replies)
<1>1. CASE o \in Http(500) \cup Forbidden
  BY <1>1, HttpEnds DEF Forbidden, Ended, OnceIn
<1>2. CASE o \in Ask(r.api, r.mailbox) /\ r.api # "delete"
  <2>1. PICK then : /\ o = Send(r.api, r.mailbox, then)
                    /\ \A p \in then : p = Silence \/ \E a \in Arguments : p \in OkOrError[a]
    <3>1. PICK then : /\ AskThen(r.api, r.mailbox, OkOrError) = {Send(r.api, r.mailbox, then)}
                      /\ \A p \in then : p = Silence \/ \E a \in Arguments : p \in OkOrError[a]
      BY <1>2, AskThenOutcomes
    <3>2. o = Send(r.api, r.mailbox, then) BY <1>2, <3>1 DEF Ask
    <3> QED BY <3>1, <3>2
  <2>2. \A a \in Arguments : \A p \in OkOrError[a] : Ended(p) BY HttpEnds DEF OkOrError
  <2>3. \A p \in then : Ended(p) BY <2>1, <2>2, SilenceEnds
  <2> DEFINE c == [send |-> r.api, on |-> r.mailbox, then |-> then]
  <2>4. Kept(c, r) BY <1>2, <2>3 DEF Kept, OfMessage
  <2>5. o.replies = <<>> /\ o.commands = {c} BY <2>1 DEF Send, Outcome
  <2> HIDE DEF c
  <2> QED BY <2>4, <2>5 DEF OnceIn
<1>3. CASE o \in Ask(r.api, r.mailbox) /\ r.api = "delete"
  <2>1. o = Send("delete", r.mailbox, Removal) BY <1>3 DEF Ask, AskThen, Removal
  <2> DEFINE c == [send |-> "delete", on |-> r.mailbox, then |-> Removal]
  <2>2. Kept(c, r) BY <1>3, RemovalCalls DEF Kept
  <2>3. o.replies = <<>> /\ o.commands = {c} BY <2>1 DEF Send, Outcome
  <2> HIDE DEF c
  <2> QED BY <2>2, <2>3 DEF OnceIn
<1> QED BY <1>1, <1>2, <1>3 DEF VmIdFound

LEMMA OnceInit == Init => OnceInv
BY DEF Init, OnceInv, OnceIn, Short

(* What a callback does: nothing, or it goes on with a request not yet answered. *)
LEMMA CallbackOutcomes ==
  ASSUME OnceInv, NEW c \in waiting, c.send # "getJSONAllAgentsStats", NEW o \in Callback(c)
  PROVE  \/ Notice(c) /\ o = Silence /\ Short(replies) /\ replies \o o.replies = replies
            /\ \A d \in waiting : Notice(d)
         \/ /\ replies = <<>> /\ waiting = {c} /\ Kept(c, request)
            /\ OnceIn(request, o.commands, o.replies) /\ replies \o o.replies = o.replies
<1>1. CASE Short(replies) /\ \A d \in waiting : Notice(d)
  <2>1. o = Silence BY <1>1 DEF Notice, Callback, Looked
  <2>2. o.replies = <<>> BY <2>1 DEF Silence, Outcome
  <2> QED BY <1>1, <2>1, <2>2, JoinEmpty
<1>2. CASE replies = <<>> /\ \E d : waiting = {d} /\ Kept(d, request)
  <2>1. waiting = {c} /\ Kept(c, request) BY <1>2
  <2>2. OnceIn(request, o.commands, o.replies)
    <3>1. CASE c.send = "getVmIdFromDbId"
      <4>1. request.api \in OfMessage BY <2>1, <3>1 DEF Kept, Looked, OfMessage
      <4>2. o \in VmIdFound(request) BY <3>1 DEF Callback
      <4> QED BY <4>1, <4>2, VmIdFoundOnce
    <3>2. CASE c.send # "getVmIdFromDbId"
      <4>1. o \in c.then BY <3>2 DEF Callback
      <4>2. CASE Once2(o) \/ Ended(o)
        <5>1. Handled(request, o) BY <4>2, OnceGrows, EndedIsOnce DEF Handled
        <5> QED BY <5>1, HandledOnce
      <4>3. CASE /\ c.send = "delete" /\ request.api = "delete"
                 /\ o.commands = {} /\ (Short(o.replies) \/ TwoReplies(o.replies))
        BY <4>3 DEF OnceIn
      <4> QED BY <2>1, <3>2, <4>1, <4>2, <4>3 DEF Kept
    <3> QED BY <3>1, <3>2
  <2>3. Short(o.replies) \/ TwoReplies(o.replies) BY <2>2 DEF OnceIn, Short
  <2> QED BY <1>2, <2>1, <2>2, <2>3, JoinEmpty
<1>3. CASE request.api = "delete" /\ waiting = {} /\ TwoReplies(replies)
  BY <1>3
<1> QED BY <1>1, <1>2, <1>3 DEF OnceInv, OnceIn

LEMMA AnsweredKeepsOnce ==
  ASSUME OnceInv, Answered
  PROVE  OnceInv'
<1>1. PICK c \in waiting : \E o \in Callback(c) :
        /\ c.send # "getJSONAllAgentsStats"
        /\ waiting' = (waiting \ {c}) \cup o.commands
        /\ replies' = replies \o o.replies
  BY DEF Answered
<1>2. PICK o \in Callback(c) :
        /\ c.send # "getJSONAllAgentsStats"
        /\ waiting' = (waiting \ {c}) \cup o.commands
        /\ replies' = replies \o o.replies
  BY <1>1
<1>3. request' = request BY DEF Answered
<1>4. CASE /\ Notice(c) /\ o = Silence /\ Short(replies) /\ replies \o o.replies = replies
           /\ \A d \in waiting : Notice(d)
  <2>1. waiting' \subseteq waiting /\ replies' = replies BY <1>2, <1>4 DEF Silence, Outcome
  <2> QED BY <1>4, <2>1 DEF OnceInv, OnceIn
<1>5. CASE /\ replies = <<>> /\ waiting = {c} /\ Kept(c, request)
           /\ OnceIn(request, o.commands, o.replies) /\ replies \o o.replies = o.replies
  <2>1. waiting' = o.commands /\ replies' = o.replies BY <1>2, <1>5
  <2> QED BY <1>3, <1>5, <2>1 DEF OnceInv
<1> QED BY <1>2, <1>4, <1>5, CallbackOutcomes

LEMMA AgentsStatsKeepsOnce ==
  ASSUME OnceInv, AgentsStats
  PROVE  OnceInv'
<1>1. PICK c \in waiting : /\ c.send = "getJSONAllAgentsStats"
                           /\ waiting' = waiting \ {c}
                           /\ \E x : replies' = Append(replies, x)
  BY DEF AgentsStats
<1>2. "getJSONAllAgentsStats" \in Looked BY DEF Looked
<1>3. replies = <<>> /\ waiting = {c} BY <1>1, <1>2 DEF OnceInv, OnceIn, Notice
<1>4. Short(replies') /\ waiting' = {} BY <1>1, <1>3 DEF Short
<1> QED BY <1>4 DEF OnceInv, OnceIn

LEMMA OnceStep ==
  ASSUME OnceInv, [Next]_vars
  PROVE  OnceInv'
<1>1. CASE Handle
  <2>0. PICK route \in Routes : \E r \in Requests(route) : \E o \in execute(r) :
          request' = r /\ waiting' = o.commands /\ replies' = o.replies
    BY <1>1 DEF Handle
  <2>r. PICK r \in Requests(route) : \E o \in execute(r) :
          request' = r /\ waiting' = o.commands /\ replies' = o.replies
    BY <2>0
  <2>1. PICK o \in execute(r) : request' = r /\ waiting' = o.commands /\ replies' = o.replies
    BY <2>r
  <2>2. OnceIn(r, o.commands, o.replies) BY ExecuteOnce, HandledOnce
  <2> QED BY <2>1, <2>2 DEF OnceInv
<1>2. CASE Answered BY <1>2, AnsweredKeepsOnce
<1>3. CASE AgentsStats BY <1>3, AgentsStatsKeepsOnce
<1>4. CASE Done BY <1>4 DEF Done, OnceInv, OnceIn, Short
<1>5. CASE UNCHANGED <<request, waiting, replies>> BY <1>5 DEF OnceInv
<1> QED BY <1>1, <1>2, <1>3, <1>4, <1>5 DEF Next, Policy, TimePasses, vars

(* A client is answered once, between the handler, the callbacks of the    *)
(* components and their errors, whatever the policy, the phones, the       *)
(* queues and the files are; but the removal of a message can be answered  *)
(* with an error, and again.                                               *)
THEOREM ClientAnsweredOnce == Spec => []AnsweredOnce
<1>1. OnceInv => AnsweredOnce
  <2>1. ASSUME Short(replies) PROVE Len(replies) <= 1
    <3>1. CASE replies = <<>> BY <3>1
    <3>2. CASE \E x : replies = <<x>>
      <4>1. PICK x : replies = <<x>> BY <3>2
      <4>2. Len(<<x>>) = 1 OBVIOUS
      <4> QED BY <4>1, <4>2
    <3> QED BY <2>1, <3>1, <3>2 DEF Short
  <2>2. ASSUME TwoReplies(replies) PROVE Len(replies) = 2 /\ replies[1].reply = 500
    BY <2>2 DEF TwoReplies
  <2>3. replies = <<>> => Short(replies) BY DEF Short
  <2> QED BY <2>1, <2>2, <2>3 DEF OnceInv, OnceIn, AnsweredOnce
<1>2. OnceInv /\ [Next]_vars => OnceInv' BY OnceStep
<1> QED BY <1>1, <1>2, OnceInit, PTL DEF Spec

-----------------------------------------------------------------------------
(* Nobody is forgotten.  Outcomes that leave the client with an answer,    *)
(* whatever is called back: each of them answers (Certain0), or sends a    *)
(* command whose callback does, after one, two or three commands.          *)

Certain0(S) == S # {} /\ \A o \in S : o.replies # <<>>
Certain1(S) ==
  S # {} /\ \A o \in S : \/ o.replies # <<>>
                         \/ \E c \in o.commands : c.send \notin Looked /\ Certain0(c.then)
Certain2(S) ==
  S # {} /\ \A o \in S : \/ o.replies # <<>>
                         \/ \E c \in o.commands : c.send \notin Looked /\ Certain1(c.then)
Certain(S) ==
  S # {} /\ \A o \in S : \/ o.replies # <<>>
                         \/ \E c \in o.commands : c.send \notin Looked /\ Certain2(c.then)

\* The commands that may never call back, and those whose callback is looked at by itself.
Dropping == {"getVoiceMessagesByUser", "setCustomVmAudioMsg", "deleteCustomMessage",
             "deleteCallRecording", "getUserSettings", "loadAllUsersSettings"}
Quiet == Looked \cup Dropping

ACall == {<<a>> : a \in Arguments}

(* The other commands call back, once (Components). *)
LEMMA CallsBack ==
  ASSUME NEW cmd, cmd \notin Dropping, cmd # "delete"
  PROVE  C!Calls(cmd) # {} /\ C!Calls(cmd) \subseteq ACall
<1> DEFINE some == {<<"error">>, <<"done">>, <<"nothing">>}
           In(S) == S # {} /\ S \subseteq some
<1>1. some \subseteq ACall BY DEF ACall, Arguments
<1>2. <<"error">> \in some /\ <<"done">> \in some /\ <<"nothing">> \in some OBVIOUS
<1> HIDE DEF some
<1>3. In(C!Answers) BY <1>2 DEF C!Answers
<1>4. \A found : found \subseteq some => In(C!Query(found)) BY <1>2 DEF C!Query
<1>5. /\ {<<"done">>} \subseteq some /\ {<<"done">>, <<"error">>} \subseteq some
      /\ {<<"done">>, <<"nothing">>} \subseteq some /\ In({<<"done">>}) /\ {<<"error">>} \subseteq some
  BY <1>2
<1>6. /\ In(C!Query({<<"done">>})) /\ In(C!Query({<<"done">>, <<"error">>}))
      /\ In(C!Query({<<"done">>, <<"nothing">>}))
  BY <1>4, <1>5
<1>7. \A S : In(S) => In({<<"error">>} \cup S) /\ In({<<"done">>} \cup S) BY <1>5
<1> HIDE DEF In
<1>8. /\ In(C!getAllNewVoiceMessageCount) /\ In(C!getVmIdFromDbId) /\ In(C!listenVoiceMessage)
      /\ In(C!listenCustomMessage) /\ In(C!isAtLeastExtenInCallRecording)
      /\ In(C!getCallRecordingFileData) /\ In(C!getCallRecordingContent)
  BY <1>3, <1>6
  DEF C!getAllNewVoiceMessageCount, C!getVmIdFromDbId, C!getVmMailboxFromDbId, C!listenVoiceMessage,
      C!listenCustomMessage, C!isAtLeastExtenInCallRecording, C!isAtLeastExtenInCall,
      C!getCallRecordingFileData, C!getCallRecordingContent
<1>9. /\ In(C!getCustomerCardPreview) /\ In(C!getCustomerCardsList)
      /\ In(C!getAllStreamingSources) /\ In(C!open) /\ In(C!getVideoSample)
      /\ In(C!subscribeSource) /\ In(C!unsubscribeSource)
  BY <1>3, <1>5, <1>6, <1>7
  DEF C!getCustomerCardPreview, C!getCustomerCardsList, C!getAllStreamingSources, C!open,
      C!getVideoSample, C!subscribeSource, C!unsubscribeSource
<1>10. In(C!getAllCustomerCards)
  <2>1. C!getCustomerCardByNum # {} BY <1>6 DEF C!getCustomerCardByNum, In
  <2>2. C!getAllCustomerCards = {<<"done">>} BY <2>1 DEF C!getAllCustomerCards
  <2> QED BY <1>5, <2>2
<1>11. /\ In(C!getQueueRecallInfo) /\ In(C!getRecallData) /\ In(C!getJSONQueueStats)
       /\ In(C!getQCallsStatsHist) /\ In(C!getPinExtens) /\ In(C!setPinExten)
       /\ In(C!isPinEnabledAtLeastOneRoute)
  BY <1>5, <1>6, <1>7
  DEF C!getQueueRecallInfo, C!getRecallData, C!getRecall, C!getJSONQueueStats, C!getQueueStats,
      C!getQCallsStatsHist, C!getPinExtens, C!setPinExten, C!isPinEnabledAtLeastOneRoute
<1>12. In(C!deleteSettings) /\ In(C!deleteSetting) /\ In(C!getParamUrl)
  BY <1>6, <1>7 DEF C!deleteSettings, C!deleteSetting, C!getParamUrl
<1>13. In(C!Calls(cmd))
  BY <1>3, <1>8, <1>9, <1>10, <1>11, <1>12 DEF C!Calls, Dropping
<1> QED BY <1>1, <1>13 DEF In

LEMMA CertainGrows ==
  ASSUME NEW S
  PROVE  /\ Certain0(S) => Certain1(S) /\ Certain2(S) /\ Certain(S)
         /\ Certain1(S) => Certain2(S) /\ Certain(S)
         /\ Certain2(S) => Certain(S)
<1>1. \A T : Certain0(T) => Certain1(T) /\ Certain2(T) /\ Certain(T)
  BY DEF Certain0, Certain1, Certain2, Certain
<1>2. \A T : Certain1(T) => Certain2(T) BY <1>1 DEF Certain1, Certain2
<1>3. \A T : Certain2(T) => Certain(T) BY <1>2 DEF Certain2, Certain
<1> QED BY <1>1, <1>2, <1>3

LEMMA CertainJoins ==
  ASSUME NEW S, NEW T
  PROVE  /\ Certain1(S) /\ Certain1(T) => Certain1(S \cup T)
         /\ Certain2(S) /\ Certain2(T) => Certain2(S \cup T)
         /\ Certain(S) /\ Certain(T) => Certain(S \cup T)
BY DEF Certain1, Certain2, Certain

LEMMA CertainOfMany ==
  ASSUME NEW F, F # {}, \A S \in F : Certain(S)
  PROVE  Certain(UNION F)
BY DEF Certain

LEMMA HttpCertain == \A c : Certain0(Http(c))
BY DEF Http, Outcome, Certain0

(* The callback of a command answers, or asks in its turn. *)
LEMMA SendCertain ==
  ASSUME NEW cmd, cmd \notin Looked, NEW on, NEW then
  PROVE  /\ Certain0(then) => Certain1({Send(cmd, on, then)})
         /\ Certain1(then) => Certain2({Send(cmd, on, then)})
         /\ Certain2(then) => Certain({Send(cmd, on, then)})
<1> DEFINE c == [send |-> cmd, on |-> on, then |-> then]
<1>1. c.send = cmd /\ c.then = then OBVIOUS
<1>2. c \in Send(cmd, on, then).commands BY DEF Send, Outcome
<1> HIDE DEF c
<1> QED BY <1>1, <1>2 DEF Certain1, Certain2, Certain

LEMMA AskThenCertain ==
  ASSUME NEW cmd, cmd \notin Quiet, NEW on, NEW after
  PROVE  /\ (\A a \in Arguments : Certain0(after[a])) => Certain1(AskThen(cmd, on, after))
         /\ (\A a \in Arguments : Certain1(after[a])) => Certain2(AskThen(cmd, on, after))
         /\ (\A a \in Arguments : Certain2(after[a])) => Certain(AskThen(cmd, on, after))
<1> DEFINE then == UNION {Called(calls, after) : calls \in C!Calls(cmd)}
<1>1. cmd \notin Looked /\ cmd \notin Dropping /\ cmd # "delete" BY DEF Quiet, Looked, OfMessage
<1>2. C!Calls(cmd) # {} /\ C!Calls(cmd) \subseteq ACall BY <1>1, CallsBack
<1>3. \A calls \in C!Calls(cmd) : \E a \in Arguments : Called(calls, after) = after[a]
  <2> TAKE calls \in C!Calls(cmd)
  <2>1. PICK a \in Arguments : calls = <<a>> BY <1>2 DEF ACall
  <2>2. calls # <<>> /\ Len(calls) = 1 /\ calls[1] = a BY <2>1
  <2> QED BY <2>2 DEF Called
<1>4. AskThen(cmd, on, after) = {Send(cmd, on, then)} BY DEF AskThen
<1>5. /\ (\A a \in Arguments : Certain0(after[a])) => Certain0(then)
      /\ (\A a \in Arguments : Certain1(after[a])) => Certain1(then)
      /\ (\A a \in Arguments : Certain2(after[a])) => Certain2(then)
  <2>1. (\A a \in Arguments : Certain0(after[a])) => Certain0(then)
    BY <1>2, <1>3 DEF Certain0
  <2>2. (\A a \in Arguments : Certain1(after[a])) => Certain1(then)
    BY <1>2, <1>3 DEF Certain1
  <2>3. (\A a \in Arguments : Certain2(after[a])) => Certain2(then)
    BY <1>2, <1>3 DEF Certain2
  <2> QED BY <2>1, <2>2, <2>3
<1> HIDE DEF then
<1> QED BY <1>1, <1>4, <1>5, SendCertain

LEMMA AskCertain ==
  ASSUME NEW cmd, cmd \notin Quiet, NEW on
  PROVE  Certain1(Ask(cmd, on))
<1>1. \A a \in Arguments : Certain0(OkOrError[a]) BY HttpCertain DEF OkOrError
<1> QED BY <1>1, AskThenCertain DEF Ask

(* The facts the lemmas about the handlers use. *)
LEMMA RefusalsCertain == Certain(BadRequest) /\ Certain(Forbidden) /\ \A c : Certain(Http(c))
BY HttpCertain, CertainGrows DEF BadRequest, Forbidden

LEMMA AsksCertain == \A cmd, on : cmd \notin Quiet => Certain(Ask(cmd, on))
BY AskCertain, CertainGrows

LEMMA ToldCertain ==
  ASSUME NEW o, o.replies = <<>>, NEW c
  PROVE  Certain0({AndReply(o, c)})
BY DEF AndReply, Outcome, Certain0

LEMMA TellsCertain == \A cmd, on : Certain(Tell(cmd, on))
<1>1. \A cmd, on : Send(cmd, on, {Silence}).replies = <<>> BY DEF Send, Outcome
<1> QED BY <1>1, ToldCertain, CertainGrows DEF Tell

LEMMA ShowsCertain == \A hides : Certain(Show(hides))
<1>1. \A hides : Certain0(Show(hides)) BY DEF Show, Outcome, Certain0
<1> QED BY <1>1, CertainGrows

(* The handlers of com_astproxy_rest, but for what Forgettable names. *)
LEMMA PhoneSettingsCertain ==
  ASSUME NEW r
  PROVE  /\ Certain(cw(r)) /\ Certain(dnd(r)) /\ Certain(cfvm(r)) /\ Certain(cfcall(r))
         /\ Certain(pin(r)) /\ Certain(wakeup(r)) /\ Certain(pinstatus(r))
<1>1. Certain(cw(r)) /\ Certain(dnd(r))
  BY AsksCertain, RefusalsCertain
  DEF Checked, Quiet, Dropping, Looked, OfMessage, cw, cwget, cwset, dnd, dndget, dndset
<1>2. Certain(cfvm(r))
  BY AsksCertain, RefusalsCertain
  DEF Checked, Quiet, Dropping, Looked, OfMessage, cfvm, cfvmGet, cfvmSet, ByCfType,
      cfvmGetUnconditional, cfvmGetBusy, cfvmGetUnavailable, cfvmSetUnconditional, cfvmSetBusy,
      cfvmSetUnavailable
<1>3. Certain(cfcall(r))
  BY AsksCertain, RefusalsCertain
  DEF Checked, Quiet, Dropping, Looked, OfMessage, cfcall, cfcallGet, cfcallSet, ByCfType,
      cfcallGetUnconditional, cfcallGetBusy, cfcallGetUnavailable, cfcallSetUnconditional,
      cfcallSetBusy, cfcallSetUnavailable
<1>4. Certain(pin(r)) /\ Certain(wakeup(r))
  BY AsksCertain, RefusalsCertain
  DEF Checked, Quiet, Dropping, Looked, OfMessage, pin, pinget, pinset, wakeup, wakeupGet,
      wakeupPost, wakeupDelete
<1>5. Certain(pinstatus(r))
  <2> DEFINE after == [a \in Arguments |-> Http(200)]
  <2>1. \A a \in Arguments : Certain0(after[a]) BY HttpCertain
  <2>2. "isPinEnabledAtLeastOneRoute" \notin Quiet BY DEF Quiet, Dropping, Looked, OfMessage
  <2> HIDE DEF after
  <2>3. Certain1(AskThen("isPinEnabledAtLeastOneRoute", r.user, after))
    BY <2>1, <2>2, AskThenCertain
  <2> QED BY <2>3, CertainGrows DEF pinstatus, after
<1> QED BY <1>1, <1>2, <1>3, <1>4, <1>5

(* Only an unreachable phone of the model fanvil leaves a call unanswered. *)
LEMMA CallCertain ==
  ASSUME NEW r, ~r.phone.fanvil
  PROVE  Certain2(call(r))
<1>1. Certain1(asteriskCall(r))
  BY AskCertain DEF asteriskCall, Quiet, Dropping, Looked, OfMessage
<1>2. Certain2(ajaxPhoneCall(r))
  <2> DEFINE then == Http(200) \cup fallbackAjaxPhoneCall(r)
                       \cup (IF r.phone.fanvil THEN {Silence} ELSE {})
  <2>1. then = Http(200) \cup asteriskCall(r) BY DEF fallbackAjaxPhoneCall
  <2>2. Certain1(then) BY <1>1, <2>1, HttpCertain, CertainGrows, CertainJoins
  <2>3. "call by phone" \notin Looked BY DEF Looked, OfMessage
  <2> HIDE DEF then
  <2>4. Certain2({Send("call by phone", r.endpoint, then)}) BY <2>2, <2>3, SendCertain
  <2>5. Certain2(fallbackAjaxPhoneCall(r)) BY <1>1, CertainGrows DEF fallbackAjaxPhoneCall
  <2>6. \/ ajaxPhoneCall(r) = fallbackAjaxPhoneCall(r)
        \/ ajaxPhoneCall(r) = {Send("call by phone", r.endpoint, then)}
    BY DEF ajaxPhoneCall, then
  <2> QED BY <2>4, <2>5, <2>6
<1>3. Certain0({AndReply(c, 200) : c \in sendPhoneCallToTcp(r)})
  <2>1. \A c \in sendPhoneCallToTcp(r) : c.replies = <<>>
    BY DEF sendPhoneCallToTcp, ByTcp, fallbackAjaxPhoneCall, asteriskCall, Ask, AskThen, Send,
           Silence, Outcome
  <2>2. sendPhoneCallToTcp(r) # {}
    BY DEF sendPhoneCallToTcp, fallbackAjaxPhoneCall, asteriskCall, Ask, AskThen
  <2>3. \A c \in sendPhoneCallToTcp(r) : AndReply(c, 200).replies # <<>>
    BY <2>1, ToldCertain DEF Certain0
  <2> QED BY <2>2, <2>3 DEF Certain0
<1>4. Certain0(Tell("webrtc call", r.endpoint)) /\ Certain0(Http(500))
  BY HttpCertain, ToldCertain DEF Tell, Send, Outcome
<1> DEFINE byTcp == {AndReply(c, 200) : c \in sendPhoneCallToTcp(r)}
<1>5. \/ call(r) = Tell("webrtc call", r.endpoint) \/ call(r) = Http(500)
      \/ call(r) = ajaxPhoneCall(r) \/ call(r) = byTcp \/ call(r) = asteriskCall(r)
  BY DEF call
<1>6. Certain0(byTcp) BY <1>3
<1> HIDE DEF byTcp
<1>7. /\ Certain2(Tell("webrtc call", r.endpoint)) /\ Certain2(Http(500)) /\ Certain2(byTcp)
      /\ Certain2(asteriskCall(r))
  BY <1>1, <1>4, <1>6, CertainGrows
<1> QED BY <1>2, <1>5, <1>7

LEMMA PhonesCertain ==
  ASSUME NEW r
  PROVE  /\ Certain(unauthe_call(r)) /\ Certain(phone_reload(r)) /\ Certain(recall_on_busy(r))
         /\ Certain(incall_audio(r))
<1>1. \A e : Certain(Ask("call", e)) /\ Certain(Ask("recallOnBusy", e)) /\ Certain(Ask("inCallAudio", e))
  BY AsksCertain DEF Quiet, Dropping, Looked, OfMessage
<1>2. Certain(Forbidden \cup Ask("recallOnBusy", r.endpoint))
  BY <1>1, RefusalsCertain, CertainJoins
<1>3. Certain(unauthe_call(r)) /\ Certain(phone_reload(r)) /\ Certain(recall_on_busy(r))
  BY <1>1, <1>2, TellsCertain, RefusalsCertain
  DEF Checked, unauthe_call, asteriskCall, phone_reload, recall_on_busy
<1>4. Certain(Http(500) \cup UNION {Ask("inCallAudio", e) : e \in getAllEndpointsExtension(r.user)})
  BY <1>1, RefusalsCertain DEF Certain
<1>5. Certain(incall_audio(r)) BY <1>4, RefusalsCertain DEF Checked, incall_audio
<1> QED BY <1>3, <1>5

LEMMA CallsCertain ==
  ASSUME NEW r, ~r.phone.fanvil
  PROVE  /\ Certain(call_api(r)) /\ Certain(call_echo(r)) /\ Certain(join_myconf(r))
         /\ Certain(start_conf(r))
<1>1. Certain(call(r)) BY CallCertain, CertainGrows
<1>2. Certain(call_api(r)) /\ Certain(call_echo(r)) /\ Certain(join_myconf(r))
  BY <1>1, AsksCertain, RefusalsCertain
  DEF Checked, Quiet, Dropping, Looked, OfMessage, call_api, call_echo, join_myconf, asteriskCall
<1>3. Certain(start_conf(r))
  <2> DEFINE q == [r EXCEPT !.endpoint = r.dest]
             then == call(q) \cup Http(500)
  <2>1. q.phone = r.phone OBVIOUS
  <2> HIDE DEF q
  <2>2. Certain2(then) BY <2>1, CallCertain, HttpCertain, CertainGrows, CertainJoins
  <2>3. "hangupConversation" \notin Looked BY DEF Looked, OfMessage
  <2> HIDE DEF then
  <2>4. Certain({Send("hangupConversation", r.dest, then)}) BY <2>2, <2>3, SendCertain
  <2>5. start_conf(r) = Checked(r, OwnsDest(r), Ask("startMeetmeConference", r.dest)
                                \cup {Send("hangupConversation", r.dest, then)})
    BY DEF start_conf, then, q
  <2>6. Certain(Ask("startMeetmeConference", r.dest))
    BY AsksCertain DEF Quiet, Dropping, Looked, OfMessage
  <2> QED BY <2>4, <2>5, <2>6, RefusalsCertain, CertainJoins DEF Checked
<1> QED BY <1>2, <1>3

(* With click to call manual the keys of a phone are left to its user, unanswered. *)
LEMMA PhoneKeysCertain ==
  ASSUME NEW r, r.phone \in Phones, ~Forgettable(r)
  PROVE  /\ r.api = "toggle_hold" => Certain(toggle_hold(r))
         /\ r.api = "dtmf" => Certain(dtmf(r))
         /\ r.api = "answer" => Certain(answer(r))
         /\ Certain(answer_webrtc(r))
<1>1. \A url : Certain({AndReply(ByTcp(r, url), 200)})
  <2>1. \A url : ByTcp(r, url).replies = <<>> BY DEF ByTcp, Send, Silence, Outcome
  <2> QED BY <2>1, ToldCertain, CertainGrows
<1>2. \A url \in PhoneUrls : Certain(AjaxPhone(r, url))
  BY AsksCertain, RefusalsCertain DEF AjaxPhone, PhoneUrls, Quiet, Dropping, Looked, OfMessage
<1>3. {"answer", "hold_unhold", "dtmf"} \subseteq PhoneUrls BY DEF PhoneUrls
<1>4. r.phone.mode \in {"automatic", "cloud", "manual"} BY DEF Phones
<1>5. r.api \in {"toggle_hold", "dtmf", "answer"} => r.phone.mode \in {"automatic", "cloud"}
  BY <1>4 DEF Forgettable
<1>6. r.api = "toggle_hold" => Certain(toggle_hold(r))
  BY <1>1, <1>2, <1>3, <1>5, RefusalsCertain
  DEF Checked, toggle_hold, ajaxPhoneHoldUnhold, sendPhoneHoldToTcp
<1>7. r.api = "dtmf" => Certain(dtmf(r))
  BY <1>1, <1>2, <1>3, <1>5, RefusalsCertain DEF Checked, dtmf, ajaxPhoneDtmf, sendPhoneDtmfToTcp
<1>8. r.api = "answer" => Certain(answer(r))
  <2>1. r.api = "answer" => Supported(r) BY DEF Forgettable
  <2> QED
    BY <1>1, <1>2, <1>3, <1>5, <2>1, RefusalsCertain
    DEF Checked, answer, ajaxPhoneAnswer, sendPhoneAnswerToTcp
<1>9. Certain(answer_webrtc(r)) BY TellsCertain, RefusalsCertain DEF Checked, answer_webrtc
<1> QED BY <1>6, <1>7, <1>8, <1>9

LEMMA ConversationsCertain ==
  ASSUME NEW r
  PROVE  /\ Certain(park(r)) /\ Certain(hangup(r)) /\ Certain(hangup_channel(r))
         /\ Certain(hangup_mainexten(r)) /\ Certain(force_hangup(r)) /\ Certain(mute(r))
         /\ Certain(unmute(r)) /\ Certain(atxfer(r)) /\ Certain(blindtransfer(r))
         /\ Certain(blindtransfer_queue(r)) /\ Certain(blindtransfer_parking(r))
         /\ Certain(txfer_tovm(r)) /\ Certain(start_spy(r)) /\ Certain(intrude(r))
         /\ Certain(pickup_conv(r)) /\ Certain(pickup_qwaitcaller(r)) /\ Certain(pickup_parking(r))
         /\ Certain(start_record(r)) /\ Certain(mute_record(r)) /\ Certain(unmute_record(r))
         /\ Certain(stop_record(r))
<1>1. /\ Certain(park(r)) /\ Certain(hangup(r)) /\ Certain(hangup_channel(r))
      /\ Certain(hangup_mainexten(r)) /\ Certain(force_hangup(r)) /\ Certain(mute(r))
      /\ Certain(unmute(r))
  BY AsksCertain, RefusalsCertain
  DEF Checked, Quiet, Dropping, Looked, OfMessage, park, hangup, hangup_channel, hangup_mainexten,
      force_hangup, mute, unmute
<1>2. /\ Certain(atxfer(r)) /\ Certain(blindtransfer(r)) /\ Certain(blindtransfer_queue(r))
      /\ Certain(blindtransfer_parking(r))
  BY AsksCertain, RefusalsCertain
  DEF Checked, Quiet, Dropping, Looked, OfMessage, atxfer, blindtransfer, blindtransfer_queue,
      blindtransfer_parking
<1>3. /\ Certain(start_spy(r)) /\ Certain(intrude(r)) /\ Certain(pickup_conv(r))
      /\ Certain(pickup_qwaitcaller(r)) /\ Certain(pickup_parking(r))
  BY AsksCertain, RefusalsCertain
  DEF Checked, Quiet, Dropping, Looked, OfMessage, OnSpying, start_spy, intrude, pickup_conv,
      pickup_qwaitcaller, pickup_parking
<1>4. /\ Certain(start_record(r)) /\ Certain(mute_record(r)) /\ Certain(unmute_record(r))
      /\ Certain(stop_record(r))
  BY AsksCertain, RefusalsCertain
  DEF Checked, Quiet, Dropping, Looked, OfMessage, start_record, mute_record, unmute_record,
      stop_record
<1>5. Certain(txfer_tovm(r))
  <2> DEFINE to(u) == IF verifyUserEndpointExten(u, r.endpoint)
                         /\ (\E v \in Voicemails : verifyUserEndpointVoicemail(u, v))
                      THEN Forbidden \cup Ask("transferConversationToVoicemail", r.endpoint)
                      ELSE Forbidden
             some == {to(u) : u \in Users}
  <2>1. Certain(Ask("transferConversationToVoicemail", r.endpoint))
    BY AsksCertain DEF Quiet, Dropping, Looked, OfMessage
  <2>2. \A u \in Users : Certain(to(u)) BY <2>1, RefusalsCertain, CertainJoins
  <2>3. txfer_tovm(r) = IF ~r.valid \/ r.type # "extension" THEN BadRequest ELSE UNION some
    BY DEF txfer_tovm
  <2> HIDE DEF to
  <2>4. some # {} /\ \A S \in some : Certain(S) BY <2>2, AdminAssumption
  <2> HIDE DEF some
  <2> QED BY <2>3, <2>4, CertainOfMany, RefusalsCertain
<1> QED BY <1>1, <1>2, <1>3, <1>4, <1>5

LEMMA InConferenceCertain ==
  ASSUME NEW r
  PROVE  /\ Certain(end_conf(r)) /\ Certain(hangup_userconf(r)) /\ Certain(mute_userconf(r))
         /\ Certain(unmute_userconf(r)) /\ Certain(conference(r))
BY AsksCertain, RefusalsCertain
DEF Checked, Quiet, Dropping, Looked, OfMessage, end_conf, hangup_userconf, mute_userconf,
    unmute_userconf, conference

LEMMA QueuesCertain ==
  ASSUME NEW r
  PROVE  /\ Certain(queuemember_add(r)) /\ Certain(queuemember_remove(r))
         /\ Certain(inout_dyn_queues(r)) /\ Certain(queuemember_pause(r))
         /\ Certain(queuemember_unpause(r)) /\ Certain(queues(r)) /\ Certain(qmanager_queues(r))
         /\ Certain(qmanager_qcalls(r)) /\ Certain(qmanager_qcalls_hist(r))
         /\ Certain(qmanager_qstats(r)) /\ Certain(qalarms(r)) /\ Certain(queue_recall(r))
         /\ Certain(qmanager_queue_recall(r)) /\ Certain(qrecall_check(r)) /\ Certain(qrecall_info(r))
         /\ Certain(qmanager_qrecall_info(r))
<1>1. /\ Certain(queuemember_add(r)) /\ Certain(queuemember_remove(r))
      /\ Certain(inout_dyn_queues(r)) /\ Certain(queuemember_pause(r))
      /\ Certain(queuemember_unpause(r))
  BY AsksCertain, RefusalsCertain
  DEF Checked, Quiet, Dropping, Looked, OfMessage, queuemember_add, queuemember_remove,
      inout_dyn_queues, queueMemberPauseUnpause, queuemember_pause, queuemember_unpause
<1>2. /\ Certain(queues(r)) /\ Certain(qmanager_queues(r)) /\ Certain(qmanager_qcalls(r))
      /\ Certain(qmanager_qcalls_hist(r)) /\ Certain(qmanager_qstats(r)) /\ Certain(qalarms(r))
  BY AsksCertain, ShowsCertain, RefusalsCertain
  DEF Checked, Quiet, Dropping, Looked, OfMessage, queues, qmanager_queues, qmanager_qcalls,
      qmanager_qcalls_hist, qmanager_qstats, qalarms
<1>3. Certain(queue_recall(r)) /\ Certain(qmanager_queue_recall(r))
  <2>1. Certain(Ask("getRecallData", r.user))
    BY AsksCertain DEF Quiet, Dropping, Looked, OfMessage
  <2>2. /\ Certain(Http(200) \cup Ask("getRecallData", r.user))
        /\ Certain(Http(200) \cup {})
    BY <2>1, RefusalsCertain, CertainJoins
  <2>3. /\ queue_recall(r) \in {BadRequest, Forbidden, Http(200) \cup Ask("getRecallData", r.user)}
        /\ qmanager_queue_recall(r) \in {BadRequest, Forbidden, Http(200) \cup {},
                                         Http(200) \cup Ask("getRecallData", r.user)}
    BY DEF Checked, queue_recall, qmanager_queue_recall
  <2> QED BY <2>2, <2>3, RefusalsCertain
<1>4. /\ Certain(qrecall_check(r)) /\ Certain(qrecall_info(r))
      /\ Certain(qmanager_qrecall_info(r))
  BY AsksCertain, RefusalsCertain
  DEF Checked, Quiet, Dropping, Looked, OfMessage, qrecall_check, qrecall_info,
      qmanager_qrecall_info
<1> QED BY <1>1, <1>2, <1>3, <1>4

LEMMA ShownCertain ==
  ASSUME NEW r
  PROVE  /\ Certain(opdata(r)) /\ Certain(op_wait_conv(r)) /\ Certain(opgroups(r))
         /\ Certain(sip_webrtc(r)) /\ Certain(prefix(r)) /\ Certain(parkings(r)) /\ Certain(trunks(r))
         /\ Certain(extensions(r)) /\ Certain(extension(r))
BY AsksCertain, ShowsCertain, RefusalsCertain
DEF Checked, Quiet, Dropping, Looked, OfMessage, opdata, op_wait_conv, opgroups, sip_webrtc, prefix,
    parkings, trunks, extensions, extension

(* The handlers of com_history_rest: a failed removal of a recording is not answered. *)
LEMMA OnRecordingCertain ==
  ASSUME NEW r, NEW outcomes, Certain2(outcomes)
  PROVE  Certain(OnRecording(r, outcomes))
<1> DEFINE all == [a \in Arguments |-> IF a = "done" THEN outcomes ELSE Http(500)]
           own == [a \in Arguments |-> CASE a = "done" -> outcomes [] a = "error" -> Http(500)
                                         [] OTHER -> Forbidden]
<1>1. \A c : Certain2(Http(c)) BY HttpCertain, CertainGrows
<1>2. \A a \in Arguments : Certain2(all[a]) BY <1>1
<1>3. \A a \in Arguments : Certain2(own[a]) BY <1>1 DEF Forbidden, Arguments
<1>4. "getCallRecordingFileData" \notin Quiet /\ "isAtLeastExtenInCallRecording" \notin Quiet
  BY DEF Quiet, Dropping, Looked, OfMessage
<1>5. OnRecording(r, outcomes) \in {AskThen("getCallRecordingFileData", r.user, all), Forbidden,
                                    AskThen("isAtLeastExtenInCallRecording", r.user, own)}
  BY DEF OnRecording
<1> HIDE DEF all, own
<1>6. /\ Certain(AskThen("getCallRecordingFileData", r.user, all))
      /\ Certain(AskThen("isAtLeastExtenInCallRecording", r.user, own))
  BY <1>2, <1>3, <1>4, AskThenCertain
<1> QED BY <1>5, <1>6, RefusalsCertain

LEMMA PagesCertain ==
  \A cmd, on, calls, hides : cmd \notin Quiet => Certain(AskPage(cmd, on, calls, hides))
<1> SUFFICES ASSUME NEW cmd, cmd \notin Quiet, NEW on, NEW calls, NEW hides
             PROVE  Certain(AskPage(cmd, on, calls, hides))
  OBVIOUS
<1> DEFINE after == [a \in Arguments |-> IF a = "error" THEN Http(500) ELSE Page(calls, hides)]
<1>1. Certain0(Page(calls, hides)) BY DEF Page, Outcome, Certain0
<1>2. \A a \in Arguments : Certain0(after[a]) BY <1>1, HttpCertain
<1>3. AskPage(cmd, on, calls, hides) = AskThen(cmd, on, after) BY DEF AskPage
<1> HIDE DEF after
<1> QED BY <1>2, <1>3, AskThenCertain, CertainGrows

LEMMA HistoryCertain ==
  ASSUME NEW r, r.api \in HistoryApis, ~Forgettable(r)
  PROVE  Certain(history(r))
<1>1. Certain(listen_callrec(r)) /\ Certain(down_callrec(r))
  <2>1. Certain2(listenCallRecording(r))
    BY AskCertain, CertainGrows DEF listenCallRecording, Quiet, Dropping, Looked, OfMessage
  <2> DEFINE then == Http(500) \cup Ask("copyFile", r.user)
  <2>2. Certain1(Ask("copyFile", r.user)) BY AskCertain DEF Quiet, Dropping, Looked, OfMessage
  <2>3. Certain1(then) BY <2>2, HttpCertain, CertainGrows, CertainJoins
  <2>4. "getCallRecordingContent" \notin Looked BY DEF Looked, OfMessage
  <2>5. downCallRecording(r) = {Send("getCallRecordingContent", r.user, then)}
    BY DEF downCallRecording
  <2> HIDE DEF then
  <2>6. Certain2(downCallRecording(r)) BY <2>3, <2>4, <2>5, SendCertain
  <2> QED BY <2>1, <2>6, OnRecordingCertain DEF listen_callrec, down_callrec
<1>2. Certain(historycall_interval(r))
  <2> DEFINE none == {Send("getHistoryCallInterval", {}, Http(500))}
             extens == IF r.type = "extension" THEN {r.endpoint}
                       ELSE getAllEndpointsExtension(r.target)
             some == {AskPage("getHistoryCallInterval", extens,
                              getHistoryCallInterval(extens, d, noLost), "nothing") :
                        d \in Directions, noLost \in BOOLEAN}
  <2>1. "getHistoryCallInterval" \notin Quiet BY DEF Quiet, Dropping, Looked, OfMessage
  <2>2. Certain(none) BY <2>1, SendCertain, HttpCertain, CertainGrows DEF Quiet
  <2>3. \E S : S \in some
    <3>1. PICK d \in Directions, noLost \in BOOLEAN : TRUE BY DEF Directions
    <3> QED BY <3>1
  <2>4. \A S \in some : Certain(S) BY <2>1, PagesCertain
  <2>5. historycall_interval(r) \in {BadRequest, none, UNION some, Forbidden}
    BY DEF historycall_interval
  <2> HIDE DEF none, some
  <2> QED BY <2>2, <2>3, <2>4, <2>5, CertainOfMany, RefusalsCertain
<1>3. \A cmd, k, extens : cmd \notin Quiet => Certain(OfSwitch(cmd, k, extens))
  <2> SUFFICES ASSUME NEW cmd, cmd \notin Quiet, NEW k, NEW extens
               PROVE  Certain(OfSwitch(cmd, k, extens))
    OBVIOUS
  <2> DEFINE some == {AskPage(cmd, k, getHistorySwitchCallInterval(extens, t, noLost), Hidden(k)) :
                        t \in SwitchTypes, noLost \in BOOLEAN}
  <2>1. \E S : S \in some
    <3>1. PICK t \in SwitchTypes, noLost \in BOOLEAN : TRUE BY DEF SwitchTypes
    <3> QED BY <3>1
  <2>2. \A S \in some : Certain(S) BY PagesCertain
  <2>3. OfSwitch(cmd, k, extens) = UNION some BY DEF OfSwitch
  <2> HIDE DEF some
  <2> QED BY <2>1, <2>2, <2>3, CertainOfMany
<1>4. Certain(histcallswitch_interval(r)) /\ Certain(histcallsgroups_interval(r))
  <2>1. \A k, extens : /\ Certain(OfSwitch("getHistorySwitchCallInterval", k, extens))
                       /\ Certain(OfSwitch("getHistoryGroupsCallInterval", k, extens))
    BY <1>3 DEF Quiet, Dropping, Looked, OfMessage
  <2>2. Certain(histcallswitch_interval(r))
    BY <2>1, RefusalsCertain DEF histcallswitch_interval
  <2> DEFINE groups == {{}} \cup {g \in SUBSET Users : r.user \in g}
             some == {OfSwitch("getHistoryGroupsCallInterval", r.user,
                               UNION {getAllEndpointsExtension(u) : u \in group}) : group \in groups}
  <2>3. some # {} /\ \A S \in some : Certain(S) BY <2>1
  <2>4. histcallsgroups_interval(r) \in {Forbidden, UNION some} BY DEF histcallsgroups_interval
  <2> HIDE DEF some
  <2> QED BY <2>2, <2>3, <2>4, CertainOfMany, RefusalsCertain
<1>5. r.api # "delete_callrec" BY DEF Forgettable
<1> QED BY <1>1, <1>2, <1>4, <1>5 DEF history, HistoryApis, HistoryGet, HistoryPost

(* The handlers of the other plugins. *)
LEMMA UsersCertain ==
  ASSUME NEW r
  PROVE  /\ Certain(endpoints(r)) /\ Certain(presencelist(r))
         /\ Certain(presencelist_onbusy(r)) /\ Certain(presencelist_onunavailable(r))
         /\ Certain(presence(r)) /\ Certain(presence_onbusy(r))
         /\ Certain(presence_onunavailable(r)) /\ Certain(setting(r)) /\ Certain(default_device(r))
         /\ r.method # "post" => Certain(settings(r))
<1>2. /\ Certain(endpoints(r)) /\ Certain(presencelist(r))
      /\ Certain(presencelist_onbusy(r)) /\ Certain(presencelist_onunavailable(r))
      /\ Certain(setting(r)) /\ Certain(default_device(r))
  BY AsksCertain, RefusalsCertain
  DEF Checked, Quiet, Dropping, Looked, OfMessage, endpoints, presencelist, presencelist_onbusy,
      presencelist_onunavailable, setting, default_device
<1>3. Certain(presence(r)) /\ Certain(presence_onbusy(r)) /\ Certain(presence_onunavailable(r))
  BY AsksCertain, RefusalsCertain
  DEF Checked, Quiet, Dropping, Looked, OfMessage, presence, presenceGet, presenceSet,
      presence_onbusy, presenceOnBusyGet, presenceOnBusySet, presence_onunavailable,
      presenceOnUnavailableGet, presenceOnUnavailableSet
<1>4. r.method # "post" => Certain(settings(r))
  BY AsksCertain DEF Quiet, Dropping, Looked, OfMessage, settings, settingsDelete
<1> QED BY <1>2, <1>3, <1>4

LEMMA StreamsCertain ==
  ASSUME NEW r
  PROVE  /\ Certain(sources(r)) /\ Certain(image(r)) /\ Certain(open(r)) /\ Certain(subscribe(r))
         /\ Certain(unsubscribe(r))
<1>1. Certain(sources(r)) /\ Certain(image(r)) /\ Certain(open(r))
  BY AsksCertain, RefusalsCertain
  DEF Quiet, Dropping, Looked, OfMessage, OnSource, sources, image, open
<1>2. \A cmd : cmd \notin Quiet => Certain(AskTwice(cmd, r))
  <2> SUFFICES ASSUME NEW cmd, cmd \notin Quiet
               PROVE  Certain(AskTwice(cmd, r))
    OBVIOUS
  <2> DEFINE twice == {Outcome(<<Reply(500), Reply(200)>>, {})}
             after == [a \in Arguments |-> IF a = "error" THEN twice ELSE Http(200)]
  <2>1. Certain0(twice) BY DEF Outcome, Certain0
  <2>2. \A a \in Arguments : Certain0(after[a]) BY <2>1, HttpCertain
  <2>3. AskTwice(cmd, r) = AskThen(cmd, r.stream, after) BY DEF AskTwice
  <2> HIDE DEF after
  <2> QED BY <2>2, <2>3, AskThenCertain, CertainGrows
<1>3. Certain(subscribe(r)) /\ Certain(unsubscribe(r))
  <2>1. "subscribeSource" \notin Quiet /\ "unsubscribeSource" \notin Quiet
    BY DEF Quiet, Dropping, Looked, OfMessage
  <2> QED BY <1>2, <2>1, RefusalsCertain DEF OnSource, subscribe, unsubscribe
<1> QED BY <1>1, <1>3

LEMMA VoicemailsCertain ==
  ASSUME NEW r
  PROVE  Certain(new_counters(r)) /\ Certain(listen_custom_msg(r)) /\ Certain(download_custom_msg(r))
<1>1. Certain(new_counters(r))
  BY AsksCertain, RefusalsCertain DEF Quiet, Dropping, Looked, OfMessage, new_counters
<1>2. \A after : (\A a \in Arguments : Certain0(after[a]))
                   => Certain(OnOwnMailbox(r, "listenCustomMessage", after))
  <2> SUFFICES ASSUME NEW after, \A a \in Arguments : Certain0(after[a])
               PROVE  Certain(OnOwnMailbox(r, "listenCustomMessage", after))
    OBVIOUS
  <2> DEFINE own == {x \in Voicemails : hasVoicemailEndpoint(r.user, x)}
             some == {AskThen("listenCustomMessage", v, after) : v \in own}
  <2>1. "listenCustomMessage" \notin Quiet BY DEF Quiet, Dropping, Looked, OfMessage
  <2>2. \A S \in some : Certain(S) BY <2>1, AskThenCertain, CertainGrows
  <2>3. \/ OnOwnMailbox(r, "listenCustomMessage", after) \in {BadRequest, Http(500)}
        \/ own # {} /\ OnOwnMailbox(r, "listenCustomMessage", after) = UNION some
    BY DEF OnOwnMailbox
  <2>4. own # {} => some # {} OBVIOUS
  <2> HIDE DEF own, some
  <2> QED BY <2>2, <2>3, <2>4, CertainOfMany, RefusalsCertain
<1>3. \A a \in Arguments : Certain0(OkOrError[a]) /\ Certain0(OrNotFound[a])
  BY HttpCertain DEF OkOrError, OrNotFound
<1> QED BY <1>1, <1>2, <1>3 DEF listen_custom_msg, download_custom_msg

LEMMA OthersCertain ==
  ASSUME NEW r
  PROVE  /\ Certain(getbynum(r)) /\ Certain(custcard_list(r)) /\ Certain(preview(r))
         /\ Certain(newroom(r)) /\ Certain(send_emails(r)) /\ Certain(profiling_all(r))
         /\ Certain(proc_mem(r)) /\ Certain(conn_clients(r)) /\ Certain(db_stats(r))
         /\ Certain(test(r))
<1>1. /\ Certain(getbynum(r)) /\ Certain(custcard_list(r)) /\ Certain(preview(r))
      /\ Certain(profiling_all(r))
  BY AsksCertain, RefusalsCertain
  DEF Checked, Quiet, Dropping, Looked, OfMessage, getbynum, custcard_list, preview, profiling_all
<1>2. Certain(newroom(r)) /\ Certain(proc_mem(r)) /\ Certain(conn_clients(r)) /\ Certain(db_stats(r))
  BY RefusalsCertain, CertainJoins DEF newroom, proc_mem, conn_clients, db_stats
<1>3. "sendToList" \notin Looked /\ "testConnection" \notin Looked BY DEF Looked, OfMessage
<1>4. Certain0(Http(200)) /\ Certain0(Http(200) \cup Http(503)) BY HttpCertain DEF Certain0
<1>5. /\ Certain({Send("sendToList", r.user, Http(200))})
      /\ Certain({Send("testConnection", r.user, Http(200) \cup Http(503))})
  BY <1>3, <1>4, SendCertain, CertainGrows
<1>6. Certain(send_emails(r)) /\ Certain(test(r))
  BY <1>5, RefusalsCertain DEF Checked, send_emails, test
<1> QED BY <1>1, <1>2, <1>6

(* What a request leaves behind that is not answered at once. *)
Surely(c, r) ==
  \/ c.send \notin Looked /\ Certain2(c.then)
  \/ c.send = "getJSONAllAgentsStats" /\ c.then # {}
  \/ c.send = "getVmIdFromDbId" /\ r.api \in OfMessage
  \/ c.send \in OfMessage /\ Certain0(c.then)
SureIn(r, commands, sent) == sent # <<>> \/ \E c \in commands : Surely(c, r)

LEMMA CertainIsSure ==
  ASSUME NEW r, NEW S, Certain(S), NEW o \in S
  PROVE  SureIn(r, o.commands, o.replies)
BY DEF Certain, SureIn, Surely

LEMMA AstproxySure ==
  ASSUME NEW r, r.api \in AstproxyApis, r.api \in OfPhone => r.phone \in Phones, ~Forgettable(r),
         NEW o \in astproxy(r)
  PROVE  SureIn(r, o.commands, o.replies)
<1> SUFFICES Certain(astproxy(r)) \/ r.api \in {"qmanager_astats", "queue_astats"}
  <2>1. ASSUME r.api \in {"qmanager_astats", "queue_astats"}
        PROVE  SureIn(r, o.commands, o.replies)
    <3>1. astproxy(r) \in {qmanager_astats(r), queue_astats(r)} BY <2>1 DEF astproxy
    <3>2. \A S \in {BadRequest, Forbidden} : \A p \in S : SureIn(r, p.commands, p.replies)
      BY RefusalsCertain, CertainIsSure
    <3>3. ASSUME NEW qs, NEW p \in AskAgentsStats(qs)
          PROVE  SureIn(r, p.commands, p.replies)
      <4> DEFINE c == [send |-> "getJSONAllAgentsStats", on |-> qs, then |-> {Silence}]
      <4>1. c.send = "getJSONAllAgentsStats" /\ c.then # {} OBVIOUS
      <4>2. c \in p.commands BY <3>3 DEF AskAgentsStats, Send, Outcome
      <4> HIDE DEF c
      <4> QED BY <4>1, <4>2 DEF SureIn, Surely
    <3> QED BY <3>1, <3>2, <3>3 DEF qmanager_astats, queue_astats, Checked
  <2> QED BY <2>1, CertainIsSure
<1>1. CASE r.api \in {"call", "call_echo", "join_myconf", "start_conf"}
  <2>1. ~r.phone.fanvil BY <1>1 DEF Forgettable
  <2> QED BY <1>1, <2>1, CallsCertain DEF astproxy
<1>2. CASE r.api \in {"toggle_hold", "dtmf", "answer", "answer_webrtc"}
  BY <1>2, PhoneKeysCertain DEF astproxy, OfPhone
<1>3. CASE r.api \in {"cw", "dnd", "cfvm", "cfcall", "pin", "wakeup", "pinstatus"}
  BY <1>3, PhoneSettingsCertain DEF astproxy
<1>4. CASE r.api \in {"park", "hangup", "hangup_channel", "hangup_mainexten", "force_hangup", "mute",
                      "unmute", "atxfer", "blindtransfer", "blindtransfer_queue",
                      "blindtransfer_parking", "txfer_tovm"}
  BY <1>4, ConversationsCertain DEF astproxy
<1>5. CASE r.api \in {"start_spy", "intrude", "pickup_conv", "pickup_qwaitcaller",
                      "pickup_parking", "start_record", "mute_record", "unmute_record",
                      "stop_record"}
  BY <1>5, ConversationsCertain DEF astproxy
<1>6. CASE r.api \in {"end_conf", "hangup_userconf", "mute_userconf", "unmute_userconf",
                      "conference", "unauthe_call", "phone_reload", "recall_on_busy",
                      "incall_audio"}
  BY <1>6, InConferenceCertain, PhonesCertain DEF astproxy
<1>7. CASE r.api \in {"queuemember_add", "queuemember_remove", "inout_dyn_queues",
                      "queuemember_pause", "queuemember_unpause", "queues", "qmanager_queues",
                      "qmanager_qcalls", "qmanager_qcalls_hist", "qmanager_qstats", "qalarms",
                      "queue_recall", "qmanager_queue_recall", "qrecall_check", "qrecall_info",
                      "qmanager_qrecall_info"}
  BY <1>7, QueuesCertain DEF astproxy
<1>8. CASE r.api \in {"opdata", "op_wait_conv", "opgroups", "sip_webrtc", "prefix", "parkings",
                      "trunks", "extensions", "extension"}
  BY <1>8, ShownCertain DEF astproxy
<1> QED
  BY <1>1, <1>2, <1>3, <1>4, <1>5, <1>6, <1>7, <1>8
  DEF AstproxyApis, AstproxyGet, AstproxyPost, AstproxyDelete

LEMMA ServicesSure ==
  ASSUME NEW r, r.api \in ServicesGet \cup ServicesPost \cup ServicesPatch \cup ServicesDelete,
         ~Forgettable(r), NEW o \in services(r)
  PROVE  SureIn(r, o.commands, o.replies)
<1>1. CASE r.api \in OfMessage
  <2> DEFINE c == [send |-> "getVmIdFromDbId", on |-> r.mailbox, then |-> {Silence}]
  <2>1. o \in OnMessage(r) BY <1>1 DEF OfMessage, services, listen, download, delete
  <2>2. c \in o.commands BY <2>1 DEF OnMessage, Send, Outcome
  <2>3. c.send = "getVmIdFromDbId" OBVIOUS
  <2> HIDE DEF c
  <2> QED BY <1>1, <2>2, <2>3 DEF SureIn, Surely
<1>2. CASE r.api \in {"endpoints", "presencelist", "presencelist_onbusy",
                      "presencelist_onunavailable", "presence", "presence_onbusy",
                      "presence_onunavailable", "setting", "default_device", "settings"}
  <2>0. r.api = "settings" => r.method # "post" BY DEF Forgettable
  <2>1. Certain(services(r)) BY <1>2, <2>0, UsersCertain DEF services
  <2> QED BY <2>1, CertainIsSure
<1>3. CASE r.api \in {"sources", "image", "open", "subscribe", "unsubscribe", "new_counters",
                      "listen_custom_msg", "download_custom_msg"}
  <2>1. Certain(services(r)) BY <1>3, StreamsCertain, VoicemailsCertain DEF services
  <2> QED BY <2>1, CertainIsSure
<1>4. CASE r.api \in {"getbynum", "custcard_list", "preview", "newroom", "send_emails",
                      "profiling_all", "proc_mem", "conn_clients", "db_stats", "test"}
  <2>1. Certain(services(r)) BY <1>4, OthersCertain DEF services
  <2> QED BY <2>1, CertainIsSure
<1>5. r.api \notin {"tot_users", "remotelogin", "paramurl", "mobile", "all_avatars", "tancredi",
                    "list", "custom_msg", "me"}
  BY DEF Forgettable
<1> QED
  BY <1>1, <1>2, <1>3, <1>4, <1>5
  DEF OfMessage, ServicesGet, ServicesPost, ServicesPatch, ServicesDelete

LEMMA ExecuteSure ==
  ASSUME NEW route \in Routes, NEW r \in Requests(route), ~Forgettable(r), NEW o \in execute(r)
  PROVE  SureIn(r, o.commands, o.replies)
<1>1. r.api = route[2] /\ (r.api \in OfPhone => r.phone \in Phones)
  BY RequestFields DEF FieldsOf
<1>2. CASE r.api \in AstproxyApis
  <2>1. r.api \notin HistoryApis
    BY <1>2 DEF HistoryApis, HistoryGet, HistoryPost, AstproxyApis, AstproxyGet, AstproxyPost,
                AstproxyDelete
  <2>2. o \in astproxy(r) BY <1>2, <2>1 DEF execute
  <2> QED BY <1>1, <1>2, <2>2, AstproxySure
<1>3. CASE r.api \notin AstproxyApis /\ r.api \in HistoryApis
  BY <1>3, HistoryCertain, CertainIsSure DEF execute
<1>4. CASE r.api \notin AstproxyApis \cup HistoryApis
  <2>1. r.api \in ServicesGet \cup ServicesPost \cup ServicesPatch \cup ServicesDelete
    BY <1>1, <1>4 DEF Routes, Gets, Posts, Deletes, AstproxyApis, HistoryApis
  <2> QED BY <1>4, <2>1, ServicesSure DEF execute
<1> QED BY <1>2, <1>3, <1>4

(* The mailbox of a message is known: an answer, or what listens to it, saves or removes it. *)
LEMMA VmIdFoundSure ==
  ASSUME NEW r, r.api \in OfMessage, NEW o \in VmIdFound(r)
  PROVE  SureIn(r, o.commands, o.replies)
<1>1. CASE o \in Http(500) \cup Forbidden
  BY <1>1, HttpCertain DEF Forbidden, Certain0, SureIn
<1>2. CASE o \in Ask(r.api, r.mailbox)
  <2> DEFINE then == UNION {Called(calls, OkOrError) : calls \in C!Calls(r.api)}
             c == [send |-> r.api, on |-> r.mailbox, then |-> then]
  <2>1. o = Send(r.api, r.mailbox, then) BY <1>2 DEF Ask, AskThen
  <2>2. Certain0(then)
    <3>1. CASE r.api # "delete"
      <4>1. C!Calls(r.api) # {} /\ C!Calls(r.api) \subseteq ACall
        BY <3>1, CallsBack DEF OfMessage, Dropping
      <4>2. \A a \in Arguments : Certain0(OkOrError[a]) BY HttpCertain DEF OkOrError
      <4>3. \A calls \in C!Calls(r.api) : Certain0(Called(calls, OkOrError))
        <5> TAKE calls \in C!Calls(r.api)
        <5>1. PICK a \in Arguments : calls = <<a>> BY <4>1 DEF ACall
        <5>2. calls # <<>> /\ Len(calls) = 1 /\ calls[1] = a BY <5>1
        <5>3. Called(calls, OkOrError) = OkOrError[a] BY <5>2 DEF Called
        <5> QED BY <4>2, <5>3
      <4> QED BY <4>1, <4>3 DEF Certain0
    <3>2. CASE r.api = "delete"
      <4>1. then = Removal BY <3>2 DEF Removal
      <4> HIDE DEF then
      <4>2. Removal # {} /\ \A p \in Removal : \/ Short(p.replies) /\ p.replies # <<>>
                                            \/ TwoReplies(p.replies)
        BY RemovalCalls
      <4>3. \A s : TwoReplies(s) => s # <<>> BY DEF TwoReplies
      <4> QED BY <4>1, <4>2, <4>3 DEF Certain0
    <3> QED BY <3>1, <3>2
  <2> HIDE DEF then
  <2>3. c.send = r.api /\ c.then = then OBVIOUS
  <2>4. c \in o.commands BY <2>1 DEF Send, Outcome
  <2> HIDE DEF c
  <2> QED BY <2>2, <2>3, <2>4 DEF SureIn, Surely
<1> QED BY <1>1, <1>2 DEF VmIdFound

SureInv == request # None /\ ~Forgettable(request) => SureIn(request, waiting, replies)

LEMMA AnsweredKeepsSure ==
  ASSUME OnceInv, SureInv, Answered, request # None, ~Forgettable(request)
  PROVE  SureIn(request, waiting', replies')
<1>1. PICK c \in waiting : \E o \in Callback(c) :
        /\ c.send # "getJSONAllAgentsStats"
        /\ waiting' = (waiting \ {c}) \cup o.commands
        /\ replies' = replies \o o.replies
  BY DEF Answered
<1>2. PICK o \in Callback(c) :
        /\ c.send # "getJSONAllAgentsStats"
        /\ waiting' = (waiting \ {c}) \cup o.commands
        /\ replies' = replies \o o.replies
  BY <1>1
<1>3. CASE Notice(c) /\ o = Silence /\ replies \o o.replies = replies
  <2>1. waiting' = waiting \ {c} /\ replies' = replies BY <1>2, <1>3 DEF Silence, Outcome
  <2>2. ~Surely(c, request)
    <3>1. c.send \notin Looked /\ \A p \in c.then : p = Silence BY <1>3 DEF Notice
    <3>2. ~Certain2(c.then) BY <3>1 DEF Certain2, Silence, Outcome
    <3> QED BY <3>1, <3>2 DEF Surely, Looked
  <2> QED BY <2>1, <2>2 DEF SureInv, SureIn
<1>4. CASE /\ replies = <<>> /\ waiting = {c} /\ Kept(c, request)
           /\ replies \o o.replies = o.replies
  <2>1. waiting' = o.commands /\ replies' = o.replies BY <1>2, <1>4
  <2>2. Surely(c, request) BY <1>4 DEF SureInv, SureIn
  <2>3. SureIn(request, o.commands, o.replies)
    <3>1. CASE c.send = "getVmIdFromDbId"
      <4>1. request.api \in OfMessage /\ o \in VmIdFound(request)
        BY <1>2, <2>2, <3>1 DEF Surely, Looked, OfMessage, Callback
      <4> QED BY <4>1, VmIdFoundSure
    <3>2. CASE c.send # "getVmIdFromDbId"
      <4>1. o \in c.then BY <1>2, <3>2 DEF Callback
      <4>2. Certain2(c.then) BY <1>2, <2>2, <3>2, CertainGrows DEF Surely
      <4> QED BY <4>1, <4>2, CertainGrows, CertainIsSure
    <3> QED BY <3>1, <3>2
  <2> QED BY <2>1, <2>3
<1> QED BY <1>2, <1>3, <1>4, CallbackOutcomes

LEMMA SureStep ==
  ASSUME OnceInv, SureInv, [Next]_vars
  PROVE  SureInv'
<1>1. CASE Handle
  <2>0. PICK route \in Routes : \E r \in Requests(route) : \E o \in execute(r) :
          request' = r /\ waiting' = o.commands /\ replies' = o.replies
    BY <1>1 DEF Handle
  <2>1. PICK r \in Requests(route) : \E o \in execute(r) :
          request' = r /\ waiting' = o.commands /\ replies' = o.replies
    BY <2>0
  <2>2. PICK o \in execute(r) : request' = r /\ waiting' = o.commands /\ replies' = o.replies
    BY <2>1
  <2>3. ~Forgettable(r) => SureIn(r, o.commands, o.replies) BY ExecuteSure
  <2> QED BY <2>2, <2>3 DEF SureInv
<1>2. CASE Answered
  <2>1. request' = request BY <1>2 DEF Answered
  <2> QED BY <1>2, <2>1, AnsweredKeepsSure DEF SureInv
<1>3. CASE AgentsStats
  <2>1. PICK c \in waiting : c.send = "getJSONAllAgentsStats" /\ \E x : replies' = Append(replies, x)
    BY <1>3 DEF AgentsStats
  <2>2. "getJSONAllAgentsStats" \in Looked BY DEF Looked
  <2>3. replies = <<>> BY <2>1, <2>2 DEF OnceInv, OnceIn, Notice
  <2>4. replies' # <<>> BY <2>1, <2>3
  <2> QED BY <2>4 DEF SureInv, SureIn
<1>4. CASE Done BY <1>4 DEF Done, SureInv
<1>5. CASE UNCHANGED <<request, waiting, replies>> BY <1>5 DEF SureInv
<1> QED BY <1>1, <1>2, <1>3, <1>4, <1>5 DEF Next, Policy, TimePasses, vars

\* Until it is answered a request waits for a component that may call back.
AnswerIsComing ==
  request # None /\ ~Forgettable(request) /\ replies = <<>> =>
    \E c \in waiting : Callback(c) # {}

(* No handler and no callback forgets the client: whatever the policy, the *)
(* phones and the queues are, along every path a request is answered or a  *)
(* component has still to call back, but for the requests Forgettable      *)
(* names.  That the components do, and a request ends, is left to          *)
(* EveryRequestIsAnswered.                                                 *)
THEOREM NobodyIsForgotten == Spec => []AnswerIsComing
<1>1. Init => SureInv BY DEF Init, SureInv
<1>2. OnceInv /\ [Next]_vars => OnceInv' BY OnceStep
<1>3. OnceInv /\ SureInv /\ [Next]_vars => SureInv' BY SureStep
<1>4. SureInv => AnswerIsComing
  <2>1. ASSUME NEW c, Surely(c, request)
        PROVE  Callback(c) # {}
    <3>1. VmIdFound(request) # {} BY DEF VmIdFound, Http
    <3>2. c.send # "getVmIdFromDbId" => c.then # {} BY <2>1 DEF Surely, Certain0, Certain2
    <3> QED BY <3>1, <3>2 DEF Callback
  <2> QED BY <2>1 DEF SureInv, SureIn, AnswerIsComing
<1> QED BY <1>1, <1>2, <1>3, <1>4, OnceInit, PTL DEF Spec

-----------------------------------------------------------------------------
(* What a request acts on and shows.  Between two requests nothing is      *)
(* waited for.                                                             *)
IdleInv == request = None => waiting = {}

LEMMA IdleStep ==
  ASSUME IdleInv, [Next]_vars
  PROVE  IdleInv'
<1>1. CASE Handle
  <2>1. PICK route \in Routes : request' \in Requests(route) BY <1>1 DEF Handle
  <2> QED BY <2>1, NoneAssumption DEF IdleInv
<1>2. CASE Answered
  <2>1. waiting # {} /\ request' = request BY <1>2 DEF Answered
  <2> QED BY <2>1 DEF IdleInv
<1>3. CASE AgentsStats
  <2>1. waiting # {} /\ request' = request BY <1>3 DEF AgentsStats
  <2> QED BY <2>1 DEF IdleInv
<1>4. CASE Done BY <1>4 DEF Done, IdleInv
<1>5. CASE UNCHANGED <<request, waiting>> BY <1>5 DEF IdleInv
<1> QED BY <1>1, <1>2, <1>3, <1>4, <1>5 DEF Next, Policy, TimePasses, vars

RInv == OnceInv /\ IdleInv

LEMMA RInvAlways == Spec => []RInv
<1>1. Init => RInv BY OnceInit DEF Init, RInv, IdleInv
<1>2. RInv /\ [Next]_vars => RInv' BY OnceStep, IdleStep DEF RInv
<1> QED BY <1>1, <1>2, PTL DEF Spec

(* The commands a handler, or a callback that is not looked at by itself,  *)
(* leaves behind.                                                          *)
LEMMA NotOfMessage ==
  ASSUME NEW r, NEW o, Handled(r, o) \/ Once2(o), NEW c \in o.commands
  PROVE  c.send \notin OfMessage
<1>1. Once3(o) => c.send \notin OfMessage BY DEF Once3, Ended, Awaits, Notice, Looked
<1>2. OneLooked(o, "getJSONAllAgentsStats") \/ OneLooked(o, "getVmIdFromDbId")
        => c.send \notin OfMessage
  BY DEF OneLooked, OfMessage
<1> QED BY <1>1, <1>2, OnceGrows DEF Handled

LEMMA OwnMessageStep ==
  ASSUME RInv, [Next]_vars, NEW c \in waiting' \ waiting, c.send \in OfMessage
  PROVE  hasVoicemailEndpoint(request.user, c.on)
<1>1. CASE Handle
  <2>0. PICK route \in Routes : \E r \in Requests(route) : \E o \in execute(r) : waiting' = o.commands
    BY <1>1 DEF Handle
  <2>r. PICK r \in Requests(route) : \E o \in execute(r) : waiting' = o.commands BY <2>0
  <2>1. PICK o \in execute(r) : waiting' = o.commands BY <2>r
  <2> QED BY <2>1, ExecuteOnce, NotOfMessage
<1>2. CASE Answered
  <2>0. PICK d \in waiting : \E o \in Callback(d) :
          d.send # "getJSONAllAgentsStats" /\ waiting' = (waiting \ {d}) \cup o.commands
    BY <1>2 DEF Answered
  <2>1. PICK o \in Callback(d) :
          d.send # "getJSONAllAgentsStats" /\ waiting' = (waiting \ {d}) \cup o.commands
    BY <2>0
  <2>2. c \in o.commands BY <2>1
  <2>3. CASE Short(replies) /\ \A x \in waiting : Notice(x)
    <3>1. o = Silence BY <2>1, <2>3 DEF Notice, Callback, Looked
    <3> QED BY <2>2, <3>1 DEF Silence, Outcome
  <2>4. CASE waiting = {d} /\ Kept(d, request)
    <3>1. CASE d.send = "getVmIdFromDbId"
      <4>1. o \in VmIdFound(request) BY <2>1, <3>1 DEF Callback
      <4>2. \A x : \A p \in Http(x) : p.commands = {} BY DEF Http, Outcome
      <4>3. /\ hasVoicemailEndpoint(request.user, request.mailbox)
            /\ o \in Ask(request.api, request.mailbox)
        BY <2>2, <4>1, <4>2 DEF VmIdFound, Forbidden
      <4>4. c.on = request.mailbox BY <2>2, <4>3 DEF Ask, AskThen, Send, Outcome
      <4> QED BY <4>3, <4>4
    <3>2. CASE d.send # "getVmIdFromDbId"
      <4>1. o \in d.then BY <2>1, <3>2 DEF Callback
      <4>2. Once2(o) \/ Ended(o) \/ o.commands = {} BY <2>1, <2>4, <3>2, <4>1 DEF Kept
      <4> QED BY <2>2, <4>2, EndedIsOnce, NotOfMessage
    <3> QED BY <3>1, <3>2
  <2> QED BY <2>3, <2>4, <2>1 DEF RInv, OnceInv, OnceIn
<1>3. CASE AgentsStats BY <1>3 DEF AgentsStats
<1>4. CASE Done BY <1>4 DEF Done
<1>5. CASE UNCHANGED waiting BY <1>5
<1> QED BY <1>1, <1>2, <1>3, <1>4, <1>5 DEF Next, Policy, TimePasses, vars

(* A message is listened to, saved or deleted only for a user that has its *)
(* mailbox at that moment, though the request came with others read.       *)
THEOREM MessagesOfOneself == Spec => OnlyOwnMessages
<1>1. ASSUME RInv, [Next]_vars
      PROVE  \A c \in waiting' \ waiting :
               c.send \in OfMessage => hasVoicemailEndpoint(request.user, c.on)
  BY <1>1, OwnMessageStep
<1>2. RInv /\ [Next]_vars =>
        [\A c \in waiting' \ waiting :
           c.send \in OfMessage => hasVoicemailEndpoint(request.user, c.on)]_vars
  BY <1>1
<1> QED BY <1>2, RInvAlways, PTL DEF Spec, OnlyOwnMessages

-----------------------------------------------------------------------------
(* What is shown.                                                          *)

\* An outcome, and those of its callbacks.
HidesNow(r, o) == \A s \in Of(o.replies) : Hides(r.user, r.api, s)
HidesAll(r, o) == HidesNow(r, o) /\ \A c \in o.commands : \A p \in c.then : HidesNow(r, p)

LEMMA OfOne ==
  /\ Of(<<>>) = {}
  /\ \A x : Of(<<x>>) = {x}
<1>1. DOMAIN <<>> = {} OBVIOUS
<1>2. \A x : DOMAIN <<x>> = {1} /\ <<x>>[1] = x OBVIOUS
<1> QED BY <1>1, <1>2 DEF Of

LEMMA ErrorsHide ==
  ASSUME NEW r, NEW c, c # 200
  PROVE  \A o \in Http(c) : HidesAll(r, o)
<1>1. Reply(c).reply = c BY DEF Reply
<1>2. Hides(r.user, r.api, Reply(c)) BY <1>1 DEF Hides
<1>3. \A o \in Http(c) : o.replies = <<Reply(c)>> /\ o.commands = {} BY DEF Http, Outcome
<1>4. ASSUME NEW o \in Http(c) PROVE Of(o.replies) = {Reply(c)} /\ o.commands = {}
  BY <1>3, OfOne
<1> QED BY <1>2, <1>4 DEF HidesAll, HidesNow

LEMMA ShowHides ==
  ASSUME NEW r, NEW h,
         isPrivacyEnabled(r.user)
           => \/ h = "all"
              \/ h = "outside the queues" /\ authorizeAdminQueuesUser(r.user)
              \/ \A x : InClear(r.user, r.api, x)
  PROVE  \A o \in Show(h) : HidesAll(r, o)
<1> DEFINE reply == [Reply(200) EXCEPT !.hides = h]
<1>1. reply.hides = h BY DEF Reply
<1>2. Show(h) = {Outcome(<<reply>>, {})} BY DEF Show
<1> HIDE DEF reply
<1>3. Hides(r.user, r.api, reply)
  <2>1. CASE \A x : InClear(r.user, r.api, x) BY <2>1 DEF Hides, InClear
  <2>2. CASE ~\A x : InClear(r.user, r.api, x) BY <1>1, <2>2 DEF Hides
  <2> QED BY <2>1, <2>2
<1>4. ASSUME NEW o \in Show(h) PROVE Of(o.replies) = {reply} /\ o.commands = {}
  <2>1. o = Outcome(<<reply>>, {}) BY <1>2
  <2>2. o.replies = <<reply>> /\ o.commands = {} BY <2>1 DEF Outcome
  <2> QED BY <2>2, OfOne
<1> QED BY <1>3, <1>4 DEF HidesAll, HidesNow

(* The calls of the exchange and of the groups. *)
LEMMA PagesHide ==
  ASSUME NEW r, NEW cmd, cmd # "delete", NEW extens
  PROVE  \A o \in OfSwitch(cmd, r.user, extens) : HidesAll(r, o)
<1>1. ASSUME NEW calls, NEW o \in AskPage(cmd, r.user, calls, Hidden(r.user))
      PROVE  HidesAll(r, o)
  <2> DEFINE h == Hidden(r.user)
             after == [a \in Arguments |-> IF a = "error" THEN Http(500) ELSE Page(calls, h)]
  <2>1. AskPage(cmd, r.user, calls, h) = AskThen(cmd, r.user, after) BY DEF AskPage
  <2>2. \A a \in Arguments : \A p \in after[a] : p \in Http(500) \/ p \in Page(calls, h)
    OBVIOUS
  <2>3. \A p \in Http(500) : HidesNow(r, p) BY ErrorsHide DEF HidesAll
  <2>4. \A p \in Page(calls, h) : HidesNow(r, p)
    <3> DEFINE s == [reply |-> 200, hides |-> h, shows |-> calls]
    <3>1. s.hides = h OBVIOUS
    <3>2. \A p \in Page(calls, h) : p.replies = <<s>> BY DEF Page, Outcome
    <3> HIDE DEF s
    <3>3. isPrivacyEnabled(r.user) => h = "all" BY DEF Hidden
    <3>4. Hides(r.user, r.api, s) BY <3>1, <3>3 DEF Hides
    <3> QED BY <3>2, <3>4, OfOne DEF HidesNow
  <2> HIDE DEF after, h
  <2>5. PICK then : /\ AskThen(cmd, r.user, after) = {Send(cmd, r.user, then)}
                    /\ \A p \in then : p = Silence \/ \E a \in Arguments : p \in after[a]
    BY AskThenOutcomes
  <2>6. HidesNow(r, Silence) BY OfOne DEF HidesNow, Silence, Outcome
  <2>7. \A p \in then : HidesNow(r, p) BY <2>2, <2>3, <2>4, <2>5, <2>6
  <2> DEFINE c == [send |-> cmd, on |-> r.user, then |-> then]
  <2>8. o = Outcome(<<>>, {c}) BY <1>1, <2>1, <2>5 DEF Send, h
  <2>9. c.then = then OBVIOUS
  <2> HIDE DEF c
  <2>10. o.replies = <<>> /\ o.commands = {c} BY <2>8 DEF Outcome
  <2> QED BY <2>7, <2>9, <2>10, OfOne DEF HidesAll, HidesNow
<1> QED BY <1>1 DEF OfSwitch

(* The calls of some extensions have one of them at one end. *)
LEMMA CallsOfExtens ==
  ASSUME NEW extens, NEW direction, NEW noLost
  PROVE  \A x \in getHistoryCallInterval(extens, direction, noLost) :
           x.cnum \in extens \/ x.dst \in extens
BY DEF getHistoryCallInterval, Comes, Goes

OfExtens(extens, S) == \A s \in S : \A x \in s.shows : x.cnum \in extens \/ x.dst \in extens

LEMMA PageShows ==
  ASSUME NEW cmd, cmd # "delete", NEW on, NEW calls, NEW hides, NEW extens,
         \A x \in calls : x.cnum \in extens \/ x.dst \in extens,
         NEW o \in AskPage(cmd, on, calls, hides)
  PROVE  OfExtens(extens, Shown(<<>>, o.commands))
<1> DEFINE after == [a \in Arguments |-> IF a = "error" THEN Http(500) ELSE Page(calls, hides)]
<1>1. AskPage(cmd, on, calls, hides) = AskThen(cmd, on, after) BY DEF AskPage
<1>2. \A a \in Arguments : \A p \in after[a] : p \in Http(500) \/ p \in Page(calls, hides)
  OBVIOUS
<1>3. ASSUME NEW p \in Http(500) PROVE OfExtens(extens, Of(p.replies))
  <2>1. p = Outcome(<<Reply(500)>>, {}) BY DEF Http
  <2>2. p.replies = <<Reply(500)>> BY <2>1 DEF Outcome
  <2>3. Reply(500).shows = {} BY DEF Reply
  <2> QED BY <2>2, <2>3, OfOne DEF OfExtens
<1>4. ASSUME NEW p \in Page(calls, hides) PROVE OfExtens(extens, Of(p.replies))
  <2> DEFINE s == [reply |-> 200, hides |-> hides, shows |-> calls]
  <2>1. p = Outcome(<<s>>, {}) BY DEF Page
  <2>2. s.shows = calls OBVIOUS
  <2> HIDE DEF s
  <2>3. p.replies = <<s>> BY <2>1 DEF Outcome
  <2> QED BY <2>2, <2>3, OfOne DEF OfExtens
<1>5. OfExtens(extens, Of(Silence.replies)) BY OfOne DEF OfExtens, Silence, Outcome
<1> HIDE DEF after
<1>6. PICK then : /\ AskThen(cmd, on, after) = {Send(cmd, on, then)}
                  /\ \A p \in then : p = Silence \/ \E a \in Arguments : p \in after[a]
  BY AskThenOutcomes
<1>7. \A p \in then : OfExtens(extens, Of(p.replies)) BY <1>2, <1>3, <1>4, <1>5, <1>6
<1> DEFINE c == [send |-> cmd, on |-> on, then |-> then]
<1>8. o = Outcome(<<>>, {c}) BY <1>1, <1>6 DEF Send
<1>9. c.then = then OBVIOUS
<1> HIDE DEF c
<1>10. o.commands = {c} BY <1>8 DEF Outcome
<1> QED BY <1>7, <1>9, <1>10, OfOne DEF Shown, OfExtens

LEMMA HistoryPermitted ==
  ASSUME NEW r, r.api = "historycall_interval", NEW o \in execute(r), ~authorizeAdminCdrUser(r.user),
         r.endpoint \in Extens
  PROVE  \A s \in Shown(<<>>, o.commands) : \A x \in s.shows :
           OwnCall(r.user, x)
<1>1. execute(r) = historycall_interval(r)
  <2>1. execute(r) = history(r)
    BY DEF execute, AstproxyApis, AstproxyGet, AstproxyPost, AstproxyDelete, HistoryApis,
           HistoryGet, HistoryPost
  <2>2. history(r) = historycall_interval(r) BY DEF history
  <2> QED BY <2>1, <2>2
<1> DEFINE own == {e \in Extens : hasExtensionEndpoint(r.user, e)}
           extens == IF r.type = "extension" THEN {r.endpoint} ELSE getAllEndpointsExtension(r.target)
           none == {Send("getHistoryCallInterval", {}, Http(500))}
           pages == UNION {AskPage("getHistoryCallInterval", extens,
                                   getHistoryCallInterval(extens, d, noLost), "nothing") :
                             d \in Directions, noLost \in BOOLEAN}
<1>2. \/ o \in BadRequest \cup Forbidden
      \/ o \in none
      \/ o \in pages /\ (IF r.type = "extension" THEN Owns(r) ELSE r.target = r.user)
  <2>1. historycall_interval(r) =
          IF r.type \notin {"extension", "user"} THEN BadRequest
          ELSE IF \/ authorizeAdminCdrUser(r.user)
                  \/ /\ authorizeCdrUser(r.user)
                     /\ IF r.type = "extension" THEN Owns(r) ELSE r.target = r.user
               THEN IF extens = {} THEN none ELSE pages
               ELSE Forbidden
    BY DEF historycall_interval
  <2> HIDE DEF none, pages, extens
  <2> QED BY <1>1, <2>1
<1>3. CASE o \in BadRequest \cup Forbidden
  <2>1. o.commands = {} BY <1>3 DEF BadRequest, Forbidden, Http, Outcome
  <2> QED BY <2>1, OfOne DEF Shown
<1>4. CASE o \in none
  <2> DEFINE c == [send |-> "getHistoryCallInterval", on |-> {}, then |-> Http(500)]
  <2>1. o = Outcome(<<>>, {c}) BY <1>4 DEF Send
  <2>2. c.then = Http(500) OBVIOUS
  <2> HIDE DEF c
  <2>3. o.commands = {c} BY <2>1 DEF Outcome
  <2>4. ASSUME NEW p \in Http(500) PROVE \A s \in Of(p.replies) : s.shows = {}
    <3>1. p = Outcome(<<Reply(500)>>, {}) BY DEF Http
    <3>2. p.replies = <<Reply(500)>> BY <3>1 DEF Outcome
    <3>3. Reply(500).shows = {} BY DEF Reply
    <3> QED BY <3>2, <3>3, OfOne
  <2>5. ASSUME NEW s \in Shown(<<>>, o.commands) PROVE s.shows = {}
    <3>1. PICK p \in Http(500) : s \in Of(p.replies) BY <2>2, <2>3, OfOne DEF Shown
    <3> QED BY <2>4, <3>1
  <2> QED BY <2>5
<1>5. CASE o \in pages /\ (IF r.type = "extension" THEN Owns(r) ELSE r.target = r.user)
  <2>1. extens \subseteq own BY <1>5 DEF Owns, verifyUserEndpointExten, getAllEndpointsExtension
  <2> HIDE DEF extens
  <2>2. \E d \in Directions, noLost \in BOOLEAN :
          o \in AskPage("getHistoryCallInterval", extens,
                        getHistoryCallInterval(extens, d, noLost), "nothing")
    BY <1>5
  <2>3. OfExtens(extens, Shown(<<>>, o.commands)) BY <2>2, CallsOfExtens, PageShows
  <2> QED BY <2>1, <2>3 DEF OfExtens, OwnCall
<1> HIDE DEF none, pages, extens
<1> QED BY <1>2, <1>3, <1>4, <1>5

\* The requests that show calls and never look at the privacy.
LookAtNoPrivacy == {"opdata", "queue_recall", "qmanager_queue_recall", "qrecall_info",
                    "qmanager_qrecall_info"}

LEMMA InClearHides ==
  ASSUME NEW r, \A x : InClear(r.user, r.api, x)
  PROVE  \A o : HidesAll(r, o)
<1>1. \A x : Hides(r.user, r.api, x) BY DEF Hides, InClear
<1> QED BY <1>1 DEF HidesAll, HidesNow

(* The history shows the calls of others to who may see all of them. *)
LEMMA HistoryHides ==
  ASSUME NEW r, r.api = "historycall_interval", r.endpoint \in Extens, NEW o \in execute(r)
  PROVE  HidesAll(r, o)
<1>1. CASE authorizeAdminCdrUser(r.user)
  <2>1. \A s : InClear(r.user, r.api, s) BY <1>1 DEF InClear
  <2> QED BY <2>1, InClearHides
<1>2. CASE ~authorizeAdminCdrUser(r.user)
  <2>1. \A s \in Shown(<<>>, o.commands) : \A x \in s.shows : OwnCall(r.user, x)
    BY <1>2, HistoryPermitted
  <2>2. \A c \in o.commands : \A p \in c.then : HidesNow(r, p)
    <3>1. ASSUME NEW c \in o.commands, NEW p \in c.then, NEW s \in Of(p.replies)
          PROVE  Hides(r.user, r.api, s)
      <4>1. s \in Shown(<<>>, o.commands) BY DEF Shown
      <4>2. \A x \in s.shows : OwnCall(r.user, x) BY <2>1, <4>1
      <4>3. InClear(r.user, r.api, s) BY <4>2, Zenon DEF InClear
      <4> QED BY <4>3, Zenon DEF Hides
    <3> QED BY <3>1 DEF HidesNow
  <2>3. \A p \in BadRequest \cup Forbidden : HidesAll(r, p) BY ErrorsHide DEF BadRequest, Forbidden
  <2>4. o \in BadRequest \cup Forbidden \/ o.replies = <<>>
    <3>1. execute(r) = history(r)
      BY DEF execute, AstproxyApis, AstproxyGet, AstproxyPost, AstproxyDelete, HistoryApis,
             HistoryGet, HistoryPost
    <3>2. history(r) = historycall_interval(r) BY DEF history
    <3>3. \A cmd, on, then : \A p \in {Send(cmd, on, then)} : p.replies = <<>>
      BY DEF Send, Outcome
    <3>4. \A cmd, on, calls, hides : \A p \in AskPage(cmd, on, calls, hides) : p.replies = <<>>
      BY <3>3 DEF AskPage, AskThen
    <3> DEFINE extens == IF r.type = "extension" THEN {r.endpoint}
                         ELSE getAllEndpointsExtension(r.target)
               none == {Send("getHistoryCallInterval", {}, Http(500))}
               pages == UNION {AskPage("getHistoryCallInterval", extens,
                                       getHistoryCallInterval(extens, d, noLost), "nothing") :
                                 d \in Directions, noLost \in BOOLEAN}
    <3>5. historycall_interval(r) \subseteq BadRequest \cup Forbidden \cup none \cup pages
      <4>1. historycall_interval(r) \in {BadRequest, Forbidden, none, pages}
        BY DEF historycall_interval
      <4> HIDE DEF none, pages
      <4> QED BY <4>1
    <3>6. \A p \in none : p.replies = <<>> BY <3>3
    <3>7. \A p \in pages : p.replies = <<>> BY <3>4
    <3> HIDE DEF none, pages
    <3> QED BY <3>1, <3>2, <3>5, <3>6, <3>7
  <2>5. HidesNow(r, o) \/ o \in BadRequest \cup Forbidden BY <2>4, OfOne DEF HidesNow
  <2> QED BY <2>2, <2>3, <2>5 DEF HidesAll
<1> QED BY <1>1, <1>2

LEMMA ExecuteHides ==
  ASSUME NEW r, r.api \in ShowsCalls, r.endpoint \in Extens, NEW o \in execute(r)
  PROVE  HidesAll(r, o)
<1>1. \A p \in BadRequest \cup Forbidden : HidesAll(r, p) BY ErrorsHide DEF BadRequest, Forbidden
<1>2. CASE r.api \in {"histcallswitch_interval", "histcallsgroups_interval"}
  <2>1. execute(r) = history(r)
    BY <1>2 DEF execute, AstproxyApis, AstproxyGet, AstproxyPost, AstproxyDelete, HistoryApis,
                HistoryGet, HistoryPost
  <2>2. history(r) = IF r.api = "histcallswitch_interval" THEN histcallswitch_interval(r)
                     ELSE histcallsgroups_interval(r)
    BY <1>2 DEF history
  <2>3. \A p \in histcallswitch_interval(r) : HidesAll(r, p)
    BY <1>1, PagesHide DEF histcallswitch_interval
  <2>4. \A p \in histcallsgroups_interval(r) : HidesAll(r, p)
    <3>1. \A extens : \A p \in OfSwitch("getHistoryGroupsCallInterval", r.user, extens) :
            HidesAll(r, p)
      BY PagesHide
    <3> QED BY <1>1, <3>1 DEF histcallsgroups_interval
  <2> QED BY <2>1, <2>2, <2>3, <2>4
<1>3. CASE r.api \in {"queues", "qmanager_queues", "parkings", "trunks", "extension", "extensions"}
  <2>1. execute(r) = astproxy(r)
    BY <1>3 DEF execute, AstproxyApis, AstproxyGet, HistoryApis, HistoryGet, HistoryPost
  <2>2. astproxy(r) = CASE r.api = "queues" -> queues(r)
                        [] r.api = "qmanager_queues" -> qmanager_queues(r)
                        [] r.api = "parkings" -> parkings(r) [] r.api = "trunks" -> trunks(r)
                        [] r.api = "extension" -> extension(r)
                        [] r.api = "extensions" -> extensions(r)
    BY <1>3 DEF astproxy
  <2>3. r.api = "queues" => \A p \in queues(r) : HidesAll(r, p)
    BY <1>1, ShowHides DEF queues, Checked, Hidden, InClear
  <2>4. \A p \in Show(Hidden(r.user)) : HidesAll(r, p) BY ShowHides DEF Hidden
  <2>5. \A p \in qmanager_queues(r) \cup parkings(r) \cup trunks(r) : HidesAll(r, p)
    BY <1>1, <2>4 DEF qmanager_queues, parkings, trunks, Checked
  <2>6. r.api \in {"extension", "extensions"}
          => \A p \in Show(HiddenOfExtensions(r.user)) : HidesAll(r, p)
    BY ShowHides DEF HiddenOfExtensions, InClear
  <2>7. r.api \in {"extension", "extensions"}
          => \A p \in extension(r) \cup extensions(r) : HidesAll(r, p)
    BY <1>1, <2>6 DEF extension, extensions, Checked
  <2> QED BY <1>3, <2>1, <2>2, <2>3, <2>5, <2>7
<1>4. CASE r.api \in LookAtNoPrivacy
  <2>1. execute(r) = astproxy(r)
    BY <1>4 DEF LookAtNoPrivacy, execute, AstproxyApis, AstproxyGet, HistoryApis, HistoryGet,
                HistoryPost
  <2>2. astproxy(r) = CASE r.api = "opdata" -> opdata(r)
                        [] r.api = "queue_recall" -> queue_recall(r)
                        [] r.api = "qmanager_queue_recall" -> qmanager_queue_recall(r)
                        [] r.api = "qrecall_info" -> qrecall_info(r)
                        [] r.api = "qmanager_qrecall_info" -> qmanager_qrecall_info(r)
    BY <1>4 DEF LookAtNoPrivacy, astproxy
  <2>3. o \in BadRequest \cup Forbidden \/ \A s : InClear(r.user, r.api, s)
    BY <1>4, <2>1, <2>2 DEF LookAtNoPrivacy, Checked, opdata, queue_recall,
       qmanager_queue_recall, qrecall_info, qmanager_qrecall_info, InClear
  <2> QED BY <1>1, <2>3, InClearHides
<1>5. CASE r.api = "historycall_interval" BY <1>5, HistoryHides
<1> QED BY <1>2, <1>3, <1>4, <1>5 DEF ShowsCalls, LookAtNoPrivacy

(* With the privacy on, a 200 with the calls of others hides the numbers,  *)
(* but for those InClear names: the requests that look at no privacy, for  *)
(* who has their permission, and what the administrator and that of the    *)
(* queues see.                                                             *)
THEOREM PrivacyIsKept == Spec => PrivacyKept
<1>1. ASSUME request = None, request' # None, request'.api \in ShowsCalls, [Next]_vars,
             NEW s \in Shown(replies', waiting')
      PROVE  Hides(request'.user, request'.api, s)
  <2>1. Handle BY <1>1 DEF Next, Answered, AgentsStats, Done, Policy, TimePasses, vars
  <2>p. PICK route \in Routes : \E r \in Requests(route) : \E o \in execute(r) :
                   request' = r /\ waiting' = o.commands /\ replies' = o.replies
    BY <2>1 DEF Handle
  <2>r. PICK r \in Requests(route) : \E o \in execute(r) :
                   request' = r /\ waiting' = o.commands /\ replies' = o.replies
    BY <2>p
  <2>2. PICK o \in execute(r) : request' = r /\ waiting' = o.commands /\ replies' = o.replies
    BY <2>r
  <2>e. r.api # "call" => r.endpoint \in Extens BY RequestFields DEF FieldsOf
  <2>3. HidesAll(r, o)
    <3>1. r.api \in ShowsCalls /\ r.api # "call" BY <1>1, <2>2 DEF ShowsCalls
    <3> QED BY <2>e, <3>1, ExecuteHides
  <2> QED BY <1>1, <2>2, <2>3 DEF Shown, HidesAll, HidesNow
<1>2. [Next]_vars =>
        [(request = None /\ request' # None /\ request'.api \in ShowsCalls) =>
           \A s \in Shown(replies', waiting') : Hides(request'.user, request'.api, s)]_vars
  BY <1>1
<1> QED BY <1>2, PTL DEF Spec, PrivacyKept

(* The managers ask for the queues they manage. *)
LEMMA ManagersPermitted ==
  ASSUME NEW r, r.api = "qmanager_astats", NEW o \in execute(r), NEW c \in o.commands
  PROVE  c.on \subseteq getAllowedQManagerQueues(r.user)
<1>1. execute(r) = astproxy(r)
  BY DEF execute, AstproxyApis, AstproxyGet, HistoryApis, HistoryGet, HistoryPost
<1>2. astproxy(r) = qmanager_astats(r) BY DEF astproxy
<1>3. o \in BadRequest \cup Forbidden \/ o \in AskAgentsStats(getAllowedQManagerQueues(r.user))
  BY <1>1, <1>2 DEF qmanager_astats, Checked
<1>4. o \notin BadRequest \cup Forbidden BY DEF BadRequest, Forbidden, Http, Outcome
<1> QED BY <1>3, <1>4 DEF AskAgentsStats, Send, Outcome

LEMMA PermittedStep ==
  ASSUME RInv, [Next]_vars, request = None, request' # None
  PROVE  Permitted(request', waiting')
<1>1. Handle BY DEF Next, Answered, AgentsStats, Done, Policy, TimePasses, vars
<1>2. PICK route \in Routes : \E r \in Requests(route) : \E o \in execute(r) :
        request' = r /\ waiting' = o.commands
  BY <1>1 DEF Handle
<1>3. PICK r \in Requests(route) : \E o \in execute(r) : request' = r /\ waiting' = o.commands
  BY <1>2
<1>4. PICK o \in execute(r) : request' = r /\ waiting' = o.commands BY <1>3
<1>5. r.api = "historycall_interval" => r.endpoint \in Extens
  BY RequestFields DEF FieldsOf
<1> QED BY <1>4, <1>5, HistoryPermitted, ManagersPermitted DEF Permitted

LEMMA StatsStep ==
  ASSUME RInv, [Next]_vars, NEW c \in waiting \ waiting', c.send = "getJSONAllAgentsStats",
         NEW p \in replies'[Len(replies')].shows
  PROVE  p[2] \in c.on \cup Overall /\ p[1] \in MembersOf(c.on)
<1>1. CASE AgentsStats
  <2>1. PICK d \in waiting :
          /\ d.send = "getJSONAllAgentsStats"
          /\ waiting' = waiting \ {d}
          /\ \/ \E s \in getJSONAllAgentsStats(d.on) :
                    replies' = Append(replies, AgentsStatsReply(request, s.left))
             \/ replies' = Append(replies, Reply(500))
    BY <1>1 DEF AgentsStats
  <2>2. d = c BY <2>1
  <2>3. replies = <<>>
    <3>1. "getJSONAllAgentsStats" \in Looked BY DEF Looked
    <3> QED BY <2>1, <3>1 DEF RInv, OnceInv, OnceIn, Notice
  <2>4. ASSUME NEW x, replies' = Append(replies, x) PROVE replies'[Len(replies')] = x
    BY <2>3, <2>4
  <2>5. Reply(500).shows = {} BY DEF Reply
  <2>6. PICK s \in getJSONAllAgentsStats(c.on) : p \in AgentsStatsReply(request, s.left).shows
    BY <2>1, <2>2, <2>4, <2>5
  <2>7. p \in s.left
    <3>1. [Reply(200) EXCEPT !.shows = s.left].shows = s.left BY DEF Reply
    <3>2. [Reply(200) EXCEPT !.shows = {x \in s.left : x[1] = request.user}].shows \subseteq s.left
      BY DEF Reply
    <3> QED BY <2>5, <2>6, <3>1, <3>2 DEF AgentsStatsReply
  <2>8. PICK t \in getAgentsStatsByList(c.on) :
          s = [t EXCEPT !.left = {x \in t.left : x[1] \in MembersOf(c.on) /\ x[2] \in c.on \cup Overall}]
    BY DEF getJSONAllAgentsStats
  <2> QED BY <2>7, <2>8
<1>2. CASE Answered BY <1>2 DEF Answered
<1>3. CASE Handle BY <1>3 DEF Handle, RInv, IdleInv
<1>4. CASE UNCHANGED waiting BY <1>4
<1> QED BY <1>1, <1>2, <1>3, <1>4 DEF Next, Done, Policy, TimePasses, vars

(* The calls and the statistics a request is shown are those its user may  *)
(* see, though the statistics kept were read for another request.          *)
THEOREM PermittedAreShown == Spec => OnlyPermittedShown
<1>1. RInv /\ [Next]_vars =>
        [/\ request = None /\ request' # None => Permitted(request', waiting')
         /\ \A c \in waiting \ waiting' : c.send = "getJSONAllAgentsStats" =>
              \A p \in replies'[Len(replies')].shows :
                p[2] \in c.on \cup Overall /\ p[1] \in MembersOf(c.on)]_vars
  BY PermittedStep, StatsStep
<1> QED BY <1>1, RInvAlways, PTL DEF Spec, OnlyPermittedShown

-----------------------------------------------------------------------------
(* Whose phones a request acts on.  An outcome is Own when its commands,   *)
(* and those of its callbacks, are on extensions of the user or on those   *)
(* it has the permission for.                                              *)

Allowed(u, cmd, on) == on \in Extens => hasExtensionEndpoint(u, on) \/ OverOthers(u, cmd)
Own0(o) == o.commands = {}
Own1(u, o) == \A c \in o.commands : Allowed(u, c.send, c.on) /\ \A p \in c.then : Own0(p)
Own2(u, o) == \A c \in o.commands : Allowed(u, c.send, c.on) /\ \A p \in c.then : Own1(u, p)
Own3(u, o) == \A c \in o.commands : Allowed(u, c.send, c.on) /\ \A p \in c.then : Own2(u, p)
Own(u, outcomes) == \A o \in outcomes : Own3(u, o)

LEMMA OwnGrows ==
  ASSUME NEW u, NEW o
  PROVE  /\ Own0(o) => Own1(u, o) /\ Own2(u, o) /\ Own3(u, o)
         /\ Own1(u, o) => Own2(u, o) /\ Own3(u, o)
         /\ Own2(u, o) => Own3(u, o)
<1>1. \A p : Own0(p) => Own1(u, p) /\ Own2(u, p) /\ Own3(u, p) BY DEF Own0, Own1, Own2, Own3
<1>2. \A p : Own1(u, p) => Own2(u, p) BY <1>1 DEF Own1, Own2
<1>3. \A p : Own2(u, p) => Own3(u, p) BY <1>2 DEF Own2, Own3
<1> QED BY <1>1, <1>2, <1>3

LEMMA SendOwn ==
  ASSUME NEW u, NEW cmd, NEW on, NEW then, Allowed(u, cmd, on)
  PROVE  /\ (\A o \in then : Own0(o)) => Own1(u, Send(cmd, on, then))
         /\ (\A o \in then : Own1(u, o)) => Own2(u, Send(cmd, on, then))
         /\ (\A o \in then : Own2(u, o)) => Own3(u, Send(cmd, on, then))
<1> DEFINE c == [send |-> cmd, on |-> on, then |-> then]
<1>1. c.send = cmd /\ c.on = on /\ c.then = then OBVIOUS
<1>2. Send(cmd, on, then) = Outcome(<<>>, {c}) BY DEF Send
<1> HIDE DEF c
<1>3. Send(cmd, on, then).commands = {c} BY <1>2 DEF Outcome
<1> QED BY <1>1, <1>3 DEF Own1, Own2, Own3

LEMMA HttpOwn ==
  /\ \A c : \A o \in Http(c) : Own0(o)
  /\ \A h : \A o \in Show(h) : Own0(o)
  /\ Own0(Silence)
BY DEF Http, Show, Silence, Outcome, Own0

LEMMA RefusalsOwn ==
  \A u : /\ Own(u, BadRequest) /\ Own(u, Forbidden) /\ Own(u, {Silence})
         /\ (\A c : Own(u, Http(c))) /\ (\A h : Own(u, Show(h)))
BY HttpOwn, OwnGrows DEF BadRequest, Forbidden, Own

LEMMA AskThenOwn ==
  ASSUME NEW u, NEW cmd, cmd # "delete", NEW on, Allowed(u, cmd, on), NEW after
  PROVE  /\ (\A a \in Arguments : \A o \in after[a] : Own0(o))
              => \A o \in AskThen(cmd, on, after) : Own1(u, o)
         /\ (\A a \in Arguments : \A o \in after[a] : Own1(u, o))
              => \A o \in AskThen(cmd, on, after) : Own2(u, o)
         /\ (\A a \in Arguments : \A o \in after[a] : Own2(u, o))
              => \A o \in AskThen(cmd, on, after) : Own3(u, o)
<1>1. PICK then : /\ AskThen(cmd, on, after) = {Send(cmd, on, then)}
                  /\ \A o \in then : o = Silence \/ \E a \in Arguments : o \in after[a]
  BY AskThenOutcomes
<1>2. Own0(Silence) /\ Own1(u, Silence) /\ Own2(u, Silence) BY HttpOwn, OwnGrows
<1> QED BY <1>1, <1>2, SendOwn

LEMMA AskOwn ==
  ASSUME NEW u, NEW cmd, cmd # "delete", NEW on, Allowed(u, cmd, on)
  PROVE  \A o \in Ask(cmd, on) : Own1(u, o)
<1>1. \A a \in Arguments : \A o \in OkOrError[a] : Own0(o) BY HttpOwn DEF OkOrError
<1> QED BY <1>1, AskThenOwn DEF Ask

LEMMA AsksOwn == \A u, cmd, on : cmd # "delete" /\ Allowed(u, cmd, on) => Own(u, Ask(cmd, on))
BY AskOwn, OwnGrows DEF Own

LEMMA TellOwn ==
  ASSUME NEW u, NEW cmd, NEW on, Allowed(u, cmd, on), NEW o \in Tell(cmd, on)
  PROVE  Own1(u, o)
<1> DEFINE sent == Send(cmd, on, {Silence})
<1>1. o = AndReply(sent, 200) BY DEF Tell
<1>2. Own1(u, sent) BY SendOwn, HttpOwn
<1> HIDE DEF sent
<1>3. o.commands = sent.commands BY <1>1 DEF AndReply, Outcome
<1> QED BY <1>2, <1>3 DEF Own1

LEMMA TellsOwn == \A u, cmd, on : Allowed(u, cmd, on) => Own(u, Tell(cmd, on))
BY TellOwn, OwnGrows DEF Own

(* What is allowed: the user itself, its extensions, what is no extension, *)
(* and the phones of others with the permission.                           *)
LEMMA Allowances ==
  /\ \A u, cmd, on : on \in Users \cup Queues \cup Voicemails \cup Streams => Allowed(u, cmd, on)
  /\ \A u, cmd, on : on \in SUBSET Queues \/ on \in SUBSET Extens => Allowed(u, cmd, on)
  /\ \A u, cmd, on : hasExtensionEndpoint(u, on) => Allowed(u, cmd, on)
  /\ \A u, cmd, on : OverOthers(u, cmd) => Allowed(u, cmd, on)
BY KindsAssumption, NamesAssumption DEF Allowed

LEMMA Permissions ==
  /\ \A u, on : authorizeAdminPhoneUser(u) =>
       Allowed(u, "call", on) /\ Allowed(u, "call by phone", on) /\ Allowed(u, "webrtc call", on)
         /\ Allowed(u, "answer", on)
  /\ \A u, on : authorizeAdminHangupUser(u) =>
       Allowed(u, "hangupConversation", on) /\ Allowed(u, "hangupChannel", on)
         /\ Allowed(u, "hangupMainExtension", on)
  /\ \A u, on : authorizeAdminTransferUser(u) =>
       Allowed(u, "attendedTransferConversation", on)
         /\ Allowed(u, "blindTransferConversation", on)
  /\ \A u, on : authorizeAdminRecordingUser(u) =>
       Allowed(u, "startRecordConversation", on) /\ Allowed(u, "muteRecordConversation", on)
         /\ Allowed(u, "unmuteRecordConversation", on)
  /\ \A u, on : authorizeAdminQueuesUser(u) =>
       \A cmd \in {"queueMemberAdd", "queueMemberRemove", "queueMemberPause",
                    "queueMemberUnpause", "inoutDynQueues"} : Allowed(u, cmd, on)
BY DEF Allowed, OverOthers

LEMMA PhoneSettingsOwn ==
  ASSUME NEW r, r.user \in Users
  PROVE  /\ Own(r.user, cw(r)) /\ Own(r.user, dnd(r)) /\ Own(r.user, cfvm(r))
         /\ Own(r.user, cfcall(r)) /\ Own(r.user, pin(r)) /\ Own(r.user, pinstatus(r))
<1>1. Owns(r) => \A cmd : cmd # "delete" => Own(r.user, Ask(cmd, r.endpoint))
  BY AsksOwn, Allowances DEF Owns, verifyUserEndpointExten
<1>2. \A cmd : cmd # "delete" => Own(r.user, Ask(cmd, r.user)) BY AsksOwn, Allowances
<1>3. Own(r.user, cw(r)) /\ Own(r.user, dnd(r))
  BY <1>1, RefusalsOwn DEF Checked, cw, cwget, cwset, dnd, dndget, dndset
<1>4. Own(r.user, cfvm(r))
  BY <1>1, RefusalsOwn
  DEF Checked, cfvm, cfvmGet, cfvmSet, ByCfType, cfvmGetUnconditional, cfvmGetBusy,
      cfvmGetUnavailable, cfvmSetUnconditional, cfvmSetBusy, cfvmSetUnavailable
<1>5. Own(r.user, cfcall(r))
  BY <1>1, RefusalsOwn
  DEF Checked, cfcall, cfcallGet, cfcallSet, ByCfType, cfcallGetUnconditional, cfcallGetBusy,
      cfcallGetUnavailable, cfcallSetUnconditional, cfcallSetBusy, cfcallSetUnavailable
<1>6. Own(r.user, pin(r))
  BY <1>1, <1>2, RefusalsOwn DEF Checked, Owns, verifyUserEndpointExten, pin, pinget, pinset
<1>7. Own(r.user, pinstatus(r))
  <2> DEFINE after == [a \in Arguments |-> Http(200)]
  <2>1. \A a \in Arguments : \A o \in after[a] : Own0(o) BY HttpOwn
  <2>2. pinstatus(r) = AskThen("isPinEnabledAtLeastOneRoute", r.user, after) BY DEF pinstatus
  <2>3. Allowed(r.user, "isPinEnabledAtLeastOneRoute", r.user) BY Allowances
  <2> HIDE DEF after
  <2> QED BY <2>1, <2>2, <2>3, AskThenOwn, OwnGrows DEF Own
<1> QED BY <1>3, <1>4, <1>5, <1>6, <1>7

(* What the client on the desktop is told for the extension of the request. *)
LEMMA ByTcpOwn ==
  ASSUME NEW u, NEW r, NEW url, Allowed(u, url, r.endpoint), NEW c
  PROVE  Own1(u, ByTcp(r, url)) /\ Own1(u, AndReply(ByTcp(r, url), c))
<1>1. Own1(u, ByTcp(r, url)) BY SendOwn, HttpOwn, OwnGrows DEF ByTcp
<1>2. AndReply(ByTcp(r, url), c).commands = ByTcp(r, url).commands BY DEF AndReply, Outcome
<1> QED BY <1>1, <1>2 DEF Own1

LEMMA PhoneKeysOwn ==
  ASSUME NEW r, r.user \in Users
  PROVE  /\ Own(r.user, toggle_hold(r)) /\ Own(r.user, dtmf(r)) /\ Own(r.user, answer(r))
         /\ Own(r.user, answer_webrtc(r))
<1>1. \A url : url # "delete" /\ Allowed(r.user, url, r.endpoint) =>
        /\ Own(r.user, AjaxPhone(r, url))
        /\ Own(r.user, {AndReply(ByTcp(r, url), 200)})
  <2> SUFFICES ASSUME NEW url, url # "delete", Allowed(r.user, url, r.endpoint)
               PROVE  /\ Own(r.user, AjaxPhone(r, url))
                      /\ Own(r.user, {AndReply(ByTcp(r, url), 200)})
    OBVIOUS
  <2>1. Own(r.user, Ask(url, r.endpoint)) BY AsksOwn
  <2>2. Own1(r.user, AndReply(ByTcp(r, url), 200)) BY ByTcpOwn
  <2>3. Own3(r.user, AndReply(ByTcp(r, url), 200))
    <3> DEFINE p == AndReply(ByTcp(r, url), 200)
    <3>1. Own1(r.user, p) BY <2>2
    <3> HIDE DEF p
    <3>2. Own3(r.user, p) BY <3>1, OwnGrows
    <3> QED BY <3>2 DEF p
  <2>4. Own(r.user, AjaxPhone(r, url)) BY <2>1, RefusalsOwn DEF AjaxPhone
  <2> QED BY <2>3, <2>4 DEF Own
<1>2. Owns(r) => \A url : Allowed(r.user, url, r.endpoint)
  BY Allowances DEF Owns, verifyUserEndpointExten
<1>3. Owns(r) => \A url \in {"hold_unhold", "dtmf"} :
        Own(r.user, AjaxPhone(r, url)) /\ Own(r.user, {AndReply(ByTcp(r, url), 200)})
  BY <1>1, <1>2
<1>4. Own(r.user, toggle_hold(r))
  BY <1>3, RefusalsOwn DEF Checked, toggle_hold, ajaxPhoneHoldUnhold, sendPhoneHoldToTcp
<1>5. Own(r.user, dtmf(r))
  BY <1>3, RefusalsOwn DEF Checked, dtmf, ajaxPhoneDtmf, sendPhoneDtmfToTcp
<1>6. Own(r.user, answer(r))
  <2>1. authorizeAdminPhoneUser(r.user) => Allowed(r.user, "answer", r.endpoint) BY Permissions
  <2> QED
    BY <1>1, <1>2, <2>1, RefusalsOwn
    DEF Checked, answer, ajaxPhoneAnswer, sendPhoneAnswerToTcp
<1>7. Own(r.user, answer_webrtc(r))
  BY <1>2, TellsOwn, RefusalsOwn DEF Checked, answer_webrtc
<1> QED BY <1>4, <1>5, <1>6, <1>7

(* A call to a phone of the user, or of others with the permission. *)
LEMMA CallOwn ==
  ASSUME NEW u, NEW r, \A cmd \in {"call", "call by phone", "webrtc call"} : Allowed(u, cmd, r.endpoint)
  PROVE  \A o \in call(r) : Own2(u, o)
<1>1. \A o \in asteriskCall(r) : Own1(u, o) BY AskOwn DEF asteriskCall
<1>2. \A o \in ajaxPhoneCall(r) : Own2(u, o)
  <2> DEFINE then == Http(200) \cup fallbackAjaxPhoneCall(r)
                       \cup (IF r.phone.fanvil THEN {Silence} ELSE {})
  <2>1. \A o \in then : Own1(u, o) BY <1>1, HttpOwn, OwnGrows DEF fallbackAjaxPhoneCall
  <2> HIDE DEF then
  <2>2. Own2(u, Send("call by phone", r.endpoint, then)) BY <2>1, SendOwn
  <2>3. ajaxPhoneCall(r) = IF "call" \notin r.phone.urls THEN fallbackAjaxPhoneCall(r)
                           ELSE {Send("call by phone", r.endpoint, then)}
    BY DEF ajaxPhoneCall, then
  <2> QED BY <1>1, <2>2, <2>3, OwnGrows DEF fallbackAjaxPhoneCall
<1>3. ASSUME NEW c \in sendPhoneCallToTcp(r) PROVE Own1(u, AndReply(c, 200))
  <2>1. Own1(u, AndReply(ByTcp(r, "call"), 200)) BY ByTcpOwn
  <2>2. Own1(u, c) BY <1>1, <1>3, ByTcpOwn DEF sendPhoneCallToTcp, fallbackAjaxPhoneCall
  <2>3. AndReply(c, 200).commands = c.commands BY DEF AndReply, Outcome
  <2> QED BY <2>2, <2>3 DEF Own1
<1>4. /\ \A o \in Tell("webrtc call", r.endpoint) : Own2(u, o)
      /\ \A o \in Http(500) : Own2(u, o)
  BY TellOwn, HttpOwn, OwnGrows
<1>5. \A o : Own1(u, o) => Own2(u, o) BY OwnGrows
<1>6. \/ call(r) = Tell("webrtc call", r.endpoint) \/ call(r) = Http(500)
      \/ call(r) = ajaxPhoneCall(r)
      \/ call(r) = {AndReply(c, 200) : c \in sendPhoneCallToTcp(r)}
      \/ call(r) = asteriskCall(r)
  BY DEF call
<1>7. CASE call(r) = {AndReply(c, 200) : c \in sendPhoneCallToTcp(r)}
  <2> SUFFICES ASSUME NEW c \in sendPhoneCallToTcp(r) PROVE Own2(u, AndReply(c, 200))
    BY <1>7
  <2> QED BY <1>3, <1>5, Zenon
<1>8. CASE call(r) = asteriskCall(r) BY <1>1, <1>5, <1>8, Zenon
<1>9. CASE call(r) = ajaxPhoneCall(r) BY <1>2, <1>9
<1>10. CASE call(r) = Tell("webrtc call", r.endpoint) BY <1>4, <1>10
<1>11. CASE call(r) = Http(500) BY <1>4, <1>11
<1> QED BY <1>6, <1>7, <1>8, <1>9, <1>10, <1>11

LEMMA CallsOwn ==
  ASSUME NEW r, r.user \in Users
  PROVE  Own(r.user, call_echo(r)) /\ Own(r.user, join_myconf(r))
<1>1. Owns(r) => \A cmd : Allowed(r.user, cmd, r.endpoint)
  BY Allowances DEF Owns, verifyUserEndpointExten
<1>2. Owns(r) => Own(r.user, call(r)) BY <1>1, CallOwn, OwnGrows DEF Own
<1> QED BY <1>2, RefusalsOwn DEF Checked, call_echo, join_myconf

(* A cellphone is no extension, in what the files say and in what was read. *)
CellphonesInv ==
  /\ disk \in Files
  /\ \A u \in DOMAIN users : users[u].cellphone \subseteq Cellphones

LEMMA CallApiOwn ==
  ASSUME NEW r, r.user \in Users, CellphonesInv
  PROVE  Own(r.user, call_api(r))
<1>1. Owns(r) \/ authorizeAdminPhoneUser(r.user) =>
        \A cmd \in {"call", "call by phone", "webrtc call"} : Allowed(r.user, cmd, r.endpoint)
  BY Allowances, Permissions DEF Owns, verifyUserEndpointExten
<1>2. Owns(r) \/ authorizeAdminPhoneUser(r.user) => Own(r.user, call(r))
  BY <1>1, CallOwn, OwnGrows DEF Own
<1>3. verifyUserEndpointCellphone(r.user, r.endpoint) => Allowed(r.user, "call", r.endpoint)
  <2>1. verifyUserEndpointCellphone(r.user, r.endpoint) => r.endpoint \in Cellphones
    BY DEF verifyUserEndpointCellphone, hasCellphoneEndpoint, CellphonesInv
  <2> QED BY <2>1, KindsAssumption DEF Allowed
<1>4. Allowed(r.user, "call", r.endpoint) => Own(r.user, asteriskCall(r))
  BY AsksOwn DEF asteriskCall
<1> QED BY <1>1, <1>2, <1>3, <1>4, RefusalsOwn DEF Checked, call_api

LEMMA StartConfOwn ==
  ASSUME NEW r, r.user \in Users, "endpoint" \in DOMAIN r
  PROVE  Own(r.user, start_conf(r))
<1> DEFINE q == [r EXCEPT !.endpoint = r.dest]
           then == call(q) \cup Http(500)
<1>1. q.endpoint = r.dest OBVIOUS
<1> HIDE DEF q
<1>2. OwnsDest(r) => \A cmd : Allowed(r.user, cmd, r.dest)
  BY Allowances DEF OwnsDest, verifyUserEndpointExten
<1>3. OwnsDest(r) => \A o \in then : Own2(r.user, o)
  <2>1. OwnsDest(r) => \A o \in call(q) : Own2(r.user, o) BY <1>1, <1>2, CallOwn
  <2>2. \A o \in Http(500) : Own2(r.user, o) BY HttpOwn, OwnGrows
  <2> QED BY <2>1, <2>2
<1> HIDE DEF then
<1>4. OwnsDest(r) => Own(r.user, Ask("startMeetmeConference", r.dest)
                                 \cup {Send("hangupConversation", r.dest, then)})
  <2>1. OwnsDest(r) => Own3(r.user, Send("hangupConversation", r.dest, then))
    BY <1>2, <1>3, SendOwn
  <2>2. OwnsDest(r) => Own(r.user, Ask("startMeetmeConference", r.dest)) BY <1>2, AsksOwn
  <2> QED BY <2>1, <2>2 DEF Own
<1>5. start_conf(r) = Checked(r, OwnsDest(r), Ask("startMeetmeConference", r.dest)
                              \cup {Send("hangupConversation", r.dest, then)})
  BY DEF start_conf, then, q
<1> QED BY <1>4, <1>5, RefusalsOwn DEF Checked

LEMMA ConferencesOwn ==
  ASSUME NEW r, r.user \in Users
  PROVE  Own(r.user, end_conf(r)) /\ Own(r.user, hangup_userconf(r)) /\ Own(r.user, conference(r))
<1>1. OwnsDest(r) => \A cmd : cmd # "delete" => Own(r.user, Ask(cmd, r.dest))
  BY AsksOwn, Allowances DEF OwnsDest, verifyUserEndpointExten
<1> QED BY <1>1, RefusalsOwn DEF Checked, end_conf, hangup_userconf, conference

LEMMA ConversationsOwn ==
  ASSUME NEW r, r.user \in Users
  PROVE  /\ Own(r.user, hangup(r)) /\ Own(r.user, hangup_channel(r))
         /\ Own(r.user, hangup_mainexten(r)) /\ Own(r.user, mute(r)) /\ Own(r.user, unmute(r))
         /\ Own(r.user, atxfer(r)) /\ Own(r.user, blindtransfer(r))
         /\ Own(r.user, start_record(r)) /\ Own(r.user, mute_record(r))
         /\ Own(r.user, unmute_record(r)) /\ Own(r.user, phone_reload(r))
         /\ Own(r.user, recall_on_busy(r)) /\ Own(r.user, incall_audio(r))
<1>1. Owns(r) => \A cmd : Allowed(r.user, cmd, r.endpoint)
  BY Allowances DEF Owns, verifyUserEndpointExten
<1>2. \A cmd : cmd # "delete" /\ Allowed(r.user, cmd, r.endpoint) => Own(r.user, Ask(cmd, r.endpoint))
  BY AsksOwn
<1>3. Owns(r) => \A cmd : cmd # "delete" => Own(r.user, Ask(cmd, r.endpoint)) BY <1>1, <1>2
<1>4. authorizeAdminHangupUser(r.user) =>
        /\ Own(r.user, Ask("hangupConversation", r.endpoint))
        /\ Own(r.user, Ask("hangupChannel", r.endpoint))
        /\ Own(r.user, Ask("hangupMainExtension", r.endpoint))
  BY <1>2, Permissions
<1>5. authorizeAdminTransferUser(r.user) =>
        /\ Own(r.user, Ask("attendedTransferConversation", r.endpoint))
        /\ Own(r.user, Ask("blindTransferConversation", r.endpoint))
  BY <1>2, Permissions
<1>6. authorizeAdminRecordingUser(r.user) =>
        /\ Own(r.user, Ask("startRecordConversation", r.endpoint))
        /\ Own(r.user, Ask("muteRecordConversation", r.endpoint))
        /\ Own(r.user, Ask("unmuteRecordConversation", r.endpoint))
  BY <1>2, Permissions
<1>7. Own(r.user, hangup(r)) /\ Own(r.user, hangup_channel(r)) /\ Own(r.user, hangup_mainexten(r))
  BY <1>3, <1>4, RefusalsOwn DEF Checked, hangup, hangup_channel, hangup_mainexten
<1>8. Own(r.user, mute(r)) /\ Own(r.user, unmute(r)) BY <1>3, RefusalsOwn DEF Checked, mute, unmute
<1>9. Own(r.user, atxfer(r)) /\ Own(r.user, blindtransfer(r))
  BY <1>3, <1>5, RefusalsOwn DEF Checked, atxfer, blindtransfer
<1>10. Own(r.user, start_record(r)) /\ Own(r.user, mute_record(r)) /\ Own(r.user, unmute_record(r))
  BY <1>3, <1>6, RefusalsOwn DEF Checked, MayRecord, start_record, mute_record, unmute_record
<1>11. Own(r.user, phone_reload(r))
  BY <1>1, TellsOwn, RefusalsOwn DEF Checked, phone_reload
<1>12. Own(r.user, recall_on_busy(r))
  <2>1. Owns(r) => Own(r.user, Forbidden \cup Ask("recallOnBusy", r.endpoint))
    BY <1>3, RefusalsOwn DEF Own
  <2> QED BY <2>1, RefusalsOwn DEF Checked, recall_on_busy
<1>13. Own(r.user, incall_audio(r))
  <2>1. \A e \in getAllEndpointsExtension(r.user) : Own(r.user, Ask("inCallAudio", e))
    BY AsksOwn, Allowances DEF getAllEndpointsExtension
  <2> DEFINE audio == Http(500) \cup UNION {Ask("inCallAudio", e) : e \in getAllEndpointsExtension(r.user)}
  <2>2. Own(r.user, audio) BY <2>1, RefusalsOwn DEF Own
  <2>3. incall_audio(r) = Checked(r, authorizeAdminQueuesUser(r.user), audio) BY DEF incall_audio
  <2> HIDE DEF audio
  <2> QED BY <2>2, <2>3, RefusalsOwn DEF Checked
<1> QED BY <1>7, <1>8, <1>9, <1>10, <1>11, <1>12, <1>13

LEMMA QueuesOwn ==
  ASSUME NEW r, r.user \in Users, r.api \in OfQueue => r.queue \in Queues
  PROVE  /\ Own(r.user, queuemember_add(r)) /\ Own(r.user, queuemember_remove(r))
         /\ Own(r.user, inout_dyn_queues(r)) /\ Own(r.user, queuemember_pause(r))
         /\ Own(r.user, queuemember_unpause(r)) /\ Own(r.user, queues(r))
         /\ Own(r.user, qmanager_queues(r)) /\ Own(r.user, qmanager_qcalls(r))
         /\ Own(r.user, qmanager_qcalls_hist(r)) /\ Own(r.user, qmanager_astats(r))
         /\ Own(r.user, queue_astats(r)) /\ Own(r.user, qalarms(r)) /\ Own(r.user, queue_recall(r))
         /\ Own(r.user, qmanager_queue_recall(r)) /\ Own(r.user, qrecall_check(r))
         /\ r.api \in OfQueue => /\ Own(r.user, qmanager_qstats(r)) /\ Own(r.user, qrecall_info(r))
                                 /\ Own(r.user, qmanager_qrecall_info(r))
                                 /\ Own(r.user, blindtransfer_queue(r))
                                 /\ Own(r.user, pickup_qwaitcaller(r))
<1>1. MayActAsAgent(r) =>
        /\ Own(r.user, Ask("queueMemberAdd", r.endpoint))
        /\ Own(r.user, Ask("queueMemberRemove", r.endpoint))
        /\ Own(r.user, Ask("inoutDynQueues", r.endpoint))
        /\ Own(r.user, Ask("queueMemberPause", r.endpoint))
        /\ Own(r.user, Ask("queueMemberUnpause", r.endpoint))
  <2>1. Owns(r) => \A cmd : Allowed(r.user, cmd, r.endpoint)
    BY Allowances DEF Owns, verifyUserEndpointExten
  <2> QED BY <2>1, Permissions, AsksOwn DEF MayActAsAgent
<1>2. \A cmd : cmd # "delete" => Own(r.user, Ask(cmd, r.user)) BY AsksOwn, Allowances
<1>3. r.api \in OfQueue => \A cmd : cmd # "delete" => Own(r.user, Ask(cmd, r.queue))
  BY AsksOwn, Allowances
<1>4. /\ Own(r.user, queuemember_add(r)) /\ Own(r.user, queuemember_remove(r))
      /\ Own(r.user, inout_dyn_queues(r)) /\ Own(r.user, queuemember_pause(r))
      /\ Own(r.user, queuemember_unpause(r))
  BY <1>1, RefusalsOwn
  DEF Checked, queuemember_add, queuemember_remove, inout_dyn_queues, queueMemberPauseUnpause,
      queuemember_pause, queuemember_unpause
<1>5. /\ Own(r.user, queues(r)) /\ Own(r.user, qmanager_queues(r))
      /\ Own(r.user, qmanager_qcalls(r)) /\ Own(r.user, qmanager_qcalls_hist(r))
      /\ Own(r.user, qalarms(r)) /\ Own(r.user, qrecall_check(r))
  BY <1>2, RefusalsOwn
  DEF Checked, queues, qmanager_queues, qmanager_qcalls, qmanager_qcalls_hist, qalarms,
      qrecall_check
<1>6. Own(r.user, qmanager_astats(r)) /\ Own(r.user, queue_astats(r))
  <2>1. \A qs \in SUBSET Queues : Own(r.user, AskAgentsStats(qs))
    BY SendOwn, HttpOwn, Allowances, OwnGrows DEF AskAgentsStats, Own
  <2>2. getAllowedQManagerQueues(r.user) \in SUBSET Queues
    BY DEF getAllowedQManagerQueues, ObjectsOf
  <2> QED BY <2>1, <2>2, RefusalsOwn DEF Checked, qmanager_astats, queue_astats
<1>7. Own(r.user, queue_recall(r)) /\ Own(r.user, qmanager_queue_recall(r))
  <2>1. Own(r.user, Http(200) \cup Ask("getRecallData", r.user)) BY <1>2, RefusalsOwn DEF Own
  <2> QED
    BY <2>1, RefusalsOwn DEF Checked, queue_recall, qmanager_queue_recall
<1>8. r.api \in OfQueue =>
        /\ Own(r.user, qmanager_qstats(r)) /\ Own(r.user, qrecall_info(r))
        /\ Own(r.user, qmanager_qrecall_info(r)) /\ Own(r.user, blindtransfer_queue(r))
        /\ Own(r.user, pickup_qwaitcaller(r))
  BY <1>3, RefusalsOwn
  DEF Checked, qmanager_qstats, qrecall_info, qmanager_qrecall_info, blindtransfer_queue,
      pickup_qwaitcaller
<1> QED BY <1>4, <1>5, <1>6, <1>7, <1>8

LEMMA ShownOwn ==
  ASSUME NEW r, r.user \in Users
  PROVE  /\ Own(r.user, opdata(r)) /\ Own(r.user, op_wait_conv(r)) /\ Own(r.user, opgroups(r))
         /\ Own(r.user, sip_webrtc(r)) /\ Own(r.user, prefix(r)) /\ Own(r.user, parkings(r))
         /\ Own(r.user, trunks(r)) /\ Own(r.user, extensions(r)) /\ Own(r.user, extension(r))
<1>1. Own(r.user, Ask("opWaitConv", r.user)) BY AsksOwn, Allowances
<1> QED
  BY <1>1, RefusalsOwn
  DEF Checked, opdata, op_wait_conv, opgroups, sip_webrtc, prefix, parkings, trunks, extensions,
      extension

LEMMA AstproxyOwn ==
  ASSUME NEW r, r.user \in Users, r.api \in AstproxyApis \ OnAnyPhone, "endpoint" \in DOMAIN r,
         r.api \in OfQueue => r.queue \in Queues, CellphonesInv
  PROVE  Own(r.user, astproxy(r))
<1>1. CASE r.api \in {"cw", "dnd", "cfvm", "cfcall", "pin", "pinstatus"}
  BY <1>1, PhoneSettingsOwn DEF astproxy
<1>2. CASE r.api \in {"toggle_hold", "dtmf", "answer", "answer_webrtc", "call_echo", "join_myconf",
                      "call", "start_conf"}
  BY <1>2, PhoneKeysOwn, CallsOwn, CallApiOwn, StartConfOwn DEF astproxy
<1>3. CASE r.api \in {"end_conf", "hangup_userconf", "conference"}
  BY <1>3, ConferencesOwn DEF astproxy
<1>4. CASE r.api \in {"hangup", "hangup_channel", "hangup_mainexten", "mute", "unmute", "atxfer",
                      "blindtransfer", "start_record", "mute_record", "unmute_record",
                      "phone_reload", "recall_on_busy", "incall_audio"}
  BY <1>4, ConversationsOwn DEF astproxy
<1>5. CASE r.api \in {"queuemember_add", "queuemember_remove", "inout_dyn_queues",
                      "queuemember_pause", "queuemember_unpause", "queues", "qmanager_queues",
                      "qmanager_qcalls", "qmanager_qcalls_hist", "qmanager_astats",
                      "queue_astats", "qalarms", "queue_recall", "qmanager_queue_recall",
                      "qrecall_check"}
  BY <1>5, QueuesOwn DEF astproxy
<1>6. CASE r.api \in {"qmanager_qstats", "qrecall_info", "qmanager_qrecall_info",
                      "blindtransfer_queue", "pickup_qwaitcaller"}
  <2>1. r.api \in OfQueue BY <1>6 DEF OfQueue
  <2> QED BY <1>6, <2>1, QueuesOwn DEF astproxy
<1>7. CASE r.api \in {"opdata", "op_wait_conv", "opgroups", "sip_webrtc", "prefix", "parkings",
                      "trunks", "extensions", "extension"}
  BY <1>7, ShownOwn DEF astproxy
<1> QED
  BY <1>1, <1>2, <1>3, <1>4, <1>5, <1>6, <1>7
  DEF OnAnyPhone, AstproxyApis, AstproxyGet, AstproxyPost, AstproxyDelete

(* The history: what is asked for names the user or a set of extensions.   *)
LEMMA AskPageOwn ==
  ASSUME NEW u, NEW cmd, cmd # "delete", NEW on, Allowed(u, cmd, on), NEW calls, NEW hides
  PROVE  Own(u, AskPage(cmd, on, calls, hides))
<1> DEFINE after == [a \in Arguments |-> IF a = "error" THEN Http(500) ELSE Page(calls, hides)]
<1>1. \A o \in Page(calls, hides) : Own0(o) BY DEF Page, Outcome, Own0
<1>2. \A a \in Arguments : \A o \in after[a] : Own0(o) BY <1>1, HttpOwn
<1>3. AskPage(cmd, on, calls, hides) = AskThen(cmd, on, after) BY DEF AskPage
<1> HIDE DEF after
<1> QED BY <1>2, <1>3, AskThenOwn, OwnGrows DEF Own

LEMMA RecordingsOwn ==
  ASSUME NEW r, r.user \in Users
  PROVE  Own(r.user, delete_callrec(r)) /\ Own(r.user, listen_callrec(r))
           /\ Own(r.user, down_callrec(r))
<1>1. \A cmd : Allowed(r.user, cmd, r.user) BY Allowances
<1>2. \A o \in deleteCallRecording(r) : Own2(r.user, o)
  BY <1>1, AskOwn, OwnGrows DEF deleteCallRecording
<1>3. \A o \in listenCallRecording(r) : Own2(r.user, o)
  BY <1>1, AskOwn, OwnGrows DEF listenCallRecording
<1>4. \A o \in downCallRecording(r) : Own2(r.user, o)
  <2>1. \A o \in Http(500) \cup Ask("copyFile", r.user) : Own1(r.user, o)
    BY <1>1, AskOwn, HttpOwn, OwnGrows
  <2>2. Own2(r.user, Send("getCallRecordingContent", r.user, Http(500) \cup Ask("copyFile", r.user)))
    BY <1>1, <2>1, SendOwn
  <2> QED BY <2>2 DEF downCallRecording
<1>5. ASSUME NEW outcomes, \A o \in outcomes : Own2(r.user, o)
      PROVE  Own(r.user, OnRecording(r, outcomes))
  <2> DEFINE found == [a \in Arguments |-> IF a = "done" THEN outcomes ELSE Http(500)]
             within == [a \in Arguments |-> CASE a = "done" -> outcomes [] a = "error" -> Http(500)
                                               [] OTHER -> Forbidden]
  <2>1. \A o \in Http(500) \cup Forbidden : Own2(r.user, o) BY HttpOwn, OwnGrows DEF Forbidden
  <2>2. \A a \in Arguments : \A o \in found[a] : Own2(r.user, o) BY <1>5, <2>1
  <2>3. \A a \in Arguments : \A o \in within[a] : Own2(r.user, o) BY <1>5, <2>1
  <2>4. OnRecording(r, outcomes) =
          IF authorizeAdminRecordingUser(r.user)
          THEN AskThen("getCallRecordingFileData", r.user, found)
          ELSE IF ~authorizeRecordingUser(r.user) THEN Forbidden
          ELSE AskThen("isAtLeastExtenInCallRecording", r.user, within)
    BY DEF OnRecording
  <2> HIDE DEF found, within
  <2>5. Own(r.user, AskThen("getCallRecordingFileData", r.user, found))
    BY <1>1, <2>2, AskThenOwn DEF Own
  <2>6. Own(r.user, AskThen("isAtLeastExtenInCallRecording", r.user, within))
    BY <1>1, <2>3, AskThenOwn DEF Own
  <2> QED BY <2>4, <2>5, <2>6, RefusalsOwn
<1> QED BY <1>2, <1>3, <1>4, <1>5 DEF delete_callrec, listen_callrec, down_callrec

LEMMA SwitchOwn ==
  ASSUME NEW u \in Users, NEW cmd, cmd # "delete", NEW extens
  PROVE  Own(u, OfSwitch(cmd, u, extens))
<1>1. Allowed(u, cmd, u) BY Allowances
<1>2. \A calls, hides : Own(u, AskPage(cmd, u, calls, hides)) BY <1>1, AskPageOwn
<1> QED BY <1>2 DEF OfSwitch, Own

LEMMA HistoryOwn ==
  ASSUME NEW r, r.user \in Users, r.api \in HistoryApis, r.endpoint \in Extens
  PROVE  Own(r.user, history(r))
<1>1. Own(r.user, historycall_interval(r))
  <2> DEFINE extens == IF r.type = "extension" THEN {r.endpoint} ELSE getAllEndpointsExtension(r.target)
             pages == UNION {AskPage("getHistoryCallInterval", extens,
                                     getHistoryCallInterval(extens, d, noLost), "nothing") :
                               d \in Directions, noLost \in BOOLEAN}
             none == {Send("getHistoryCallInterval", {}, Http(500))}
  <2>1. extens \in SUBSET Extens BY DEF getAllEndpointsExtension
  <2>2. \A cmd : Allowed(r.user, cmd, extens) /\ Allowed(r.user, cmd, {}) BY <2>1, Allowances
  <2>3. \A calls, hides : Own(r.user, AskPage("getHistoryCallInterval", extens, calls, hides))
    <3> HIDE DEF extens
    <3> QED BY <2>2, AskPageOwn
  <2>4. Own(r.user, pages) BY <2>3 DEF Own
  <2>5. Own(r.user, none) BY <2>2, SendOwn, HttpOwn, OwnGrows DEF Own
  <2>6. historycall_interval(r) \in {BadRequest, none, pages, Forbidden} BY DEF historycall_interval
  <2> HIDE DEF extens, pages, none
  <2> QED BY <2>4, <2>5, <2>6, RefusalsOwn
<1>2. Own(r.user, histcallswitch_interval(r))
  BY SwitchOwn, RefusalsOwn DEF histcallswitch_interval
<1>3. Own(r.user, histcallsgroups_interval(r))
  <2>1. \A extens : Own(r.user, OfSwitch("getHistoryGroupsCallInterval", r.user, extens)) BY SwitchOwn
  <2> QED BY <2>1, RefusalsOwn DEF histcallsgroups_interval, Own
<1> QED
  BY <1>1, <1>2, <1>3, RecordingsOwn DEF HistoryApis, HistoryGet, HistoryPost, history

(* The services: what is asked for names a user, a source or a mailbox.    *)
LEMMA UsersOwn ==
  ASSUME NEW r, r.user \in Users, r.api = "presence" => r.target \in Users
  PROVE  /\ Own(r.user, me(r)) /\ Own(r.user, paramurl(r)) /\ Own(r.user, endpoints(r))
         /\ Own(r.user, presencelist(r)) /\ Own(r.user, presencelist_onbusy(r))
         /\ Own(r.user, presencelist_onunavailable(r))
         /\ r.api = "presence" => Own(r.user, presence(r))
         /\ Own(r.user, presence_onbusy(r)) /\ Own(r.user, presence_onunavailable(r))
         /\ Own(r.user, mobile(r)) /\ Own(r.user, settings(r)) /\ Own(r.user, setting(r))
         /\ Own(r.user, default_device(r)) /\ Own(r.user, all_avatars(r))
<1>1. \A cmd : Allowed(r.user, cmd, r.user) BY Allowances
<1>2. \A cmd : cmd # "delete" => Own(r.user, Ask(cmd, r.user)) BY <1>1, AsksOwn
<1>3. Own(r.user, me(r))
  <2> DEFINE after == [a \in Arguments |-> Http(200)]
  <2>1. \A a \in Arguments : \A o \in after[a] : Own0(o) BY HttpOwn
  <2> HIDE DEF after
  <2>2. Own(r.user, AskThen("getUserSettings", r.user, after))
    BY <1>1, <2>1, AskThenOwn, OwnGrows DEF Own
  <2> QED BY <2>2, RefusalsOwn DEF me, after
<1>4. /\ Own(r.user, paramurl(r)) /\ Own(r.user, mobile(r)) /\ Own(r.user, setting(r))
      /\ Own(r.user, default_device(r)) /\ Own(r.user, settingsDelete(r))
  BY <1>2, RefusalsOwn DEF Checked, paramurl, mobile, setting, default_device, settingsDelete
<1>5. /\ Own(r.user, endpoints(r)) /\ Own(r.user, presencelist(r))
      /\ Own(r.user, presencelist_onbusy(r)) /\ Own(r.user, presencelist_onunavailable(r))
      /\ Own(r.user, presenceGet(r)) /\ Own(r.user, presenceOnBusyGet(r))
      /\ Own(r.user, presenceOnUnavailableGet(r))
  BY RefusalsOwn
  DEF endpoints, presencelist, presencelist_onbusy, presencelist_onunavailable, presenceGet,
      presenceOnBusyGet, presenceOnUnavailableGet
<1>6. r.api = "presence" => Own(r.user, presence(r))
  <2>1. r.api = "presence" => Own(r.user, Ask("setPresence", r.target)) BY AsksOwn, Allowances
  <2> QED BY <1>2, <1>5, <2>1, RefusalsOwn DEF Checked, presence, presenceSet
<1>7. Own(r.user, presence_onbusy(r)) /\ Own(r.user, presence_onunavailable(r))
  BY <1>2, <1>5, RefusalsOwn
  DEF Checked, presence_onbusy, presence_onunavailable, presenceOnBusySet,
      presenceOnUnavailableSet
<1>8. Own(r.user, settings(r))
  <2>1. \A o \in Http(500) \cup Ask("loadAllUsersSettings", r.user) : Own2(r.user, o)
    BY <1>1, AskOwn, HttpOwn, OwnGrows
  <2>2. Own3(r.user, Send("saveSettings", r.user, Http(500) \cup Ask("loadAllUsersSettings", r.user)))
    BY <1>1, <2>1, SendOwn
  <2> QED BY <1>4, <2>2, RefusalsOwn DEF settings, settingsPost, Own
<1>9. Own(r.user, all_avatars(r))
  <2>1. \A o \in Http(200) \cup {Silence} : Own0(o) BY HttpOwn
  <2> QED BY <1>1, <2>1, SendOwn, OwnGrows DEF all_avatars, Own
<1> QED BY <1>3, <1>4, <1>5, <1>6, <1>7, <1>8, <1>9

LEMMA StreamsOwn ==
  ASSUME NEW r, r.user \in Users
  PROVE  /\ Own(r.user, sources(r)) /\ Own(r.user, image(r)) /\ Own(r.user, open(r))
         /\ Own(r.user, subscribe(r)) /\ Own(r.user, unsubscribe(r))
<1>1. \A outcomes : (r.stream \in Streams => Own(r.user, outcomes)) => Own(r.user, OnSource(r, outcomes))
  BY RefusalsOwn DEF OnSource, getAllowedStreamingSources, ObjectsOf
<1>2. r.stream \in Streams => \A cmd : cmd # "delete" => Own(r.user, Ask(cmd, r.stream))
  BY AsksOwn, Allowances
<1>3. ASSUME NEW cmd, cmd # "delete", r.stream \in Streams PROVE Own(r.user, AskTwice(cmd, r))
  <2> DEFINE after == [a \in Arguments |-> IF a = "error" THEN {Outcome(<<Reply(500), Reply(200)>>, {})}
                                                          ELSE Http(200)]
  <2>1. Own0(Outcome(<<Reply(500), Reply(200)>>, {})) BY DEF Outcome, Own0
  <2>2. \A a \in Arguments : \A o \in after[a] : Own0(o) BY <2>1, HttpOwn
  <2>3. AskTwice(cmd, r) = AskThen(cmd, r.stream, after) BY DEF AskTwice
  <2>4. Allowed(r.user, cmd, r.stream) BY <1>3, Allowances
  <2> HIDE DEF after
  <2> QED BY <1>3, <2>2, <2>3, <2>4, AskThenOwn, OwnGrows DEF Own
<1>4. Own(r.user, sources(r)) BY AsksOwn, Allowances DEF sources
<1> QED BY <1>1, <1>2, <1>3, <1>4 DEF image, open, subscribe, unsubscribe

LEMMA MailboxesOwn ==
  ASSUME NEW r, r.user \in Users
  PROVE  /\ Own(r.user, list(r)) /\ Own(r.user, new_counters(r))
         /\ Own(r.user, listen_custom_msg(r)) /\ Own(r.user, download_custom_msg(r))
         /\ Own(r.user, custom_msg(r))
         /\ r.mailbox \in Voicemails => Own(r.user, OnMessage(r))
<1>1. ASSUME NEW cmd, cmd # "delete", NEW after, \A a \in Arguments : \A o \in after[a] : Own0(o)
      PROVE  Own(r.user, OnOwnMailbox(r, cmd, after))
  <2>1. ASSUME NEW v \in Voicemails PROVE Own(r.user, AskThen(cmd, v, after))
    <3>1. Allowed(r.user, cmd, v) BY Allowances
    <3> QED BY <1>1, <3>1, AskThenOwn, OwnGrows DEF Own
  <2> QED BY <2>1, RefusalsOwn DEF OnOwnMailbox, Own
<1>2. /\ \A a \in Arguments : \A o \in OkOrError[a] : Own0(o)
      /\ \A a \in Arguments : \A o \in OrNotFound[a] : Own0(o)
  BY HttpOwn DEF OkOrError, OrNotFound
<1>3. Own(r.user, list(r)) /\ Own(r.user, new_counters(r))
  BY AsksOwn, Allowances, RefusalsOwn DEF list, new_counters
<1>4. Own(r.user, listen_custom_msg(r)) /\ Own(r.user, download_custom_msg(r))
  BY <1>1, <1>2 DEF listen_custom_msg, download_custom_msg
<1>5. Own(r.user, custom_msg(r)) BY <1>1, <1>2 DEF custom_msg, customMsgPost, customMsgDelete
<1>6. r.mailbox \in Voicemails => Own(r.user, OnMessage(r))
  <2>1. \A o \in {Silence} : Own0(o) BY HttpOwn
  <2> QED BY <2>1, SendOwn, Allowances, OwnGrows DEF OnMessage, Own
<1> QED BY <1>3, <1>4, <1>5, <1>6

LEMMA OthersOwn ==
  ASSUME NEW r, r.user \in Users
  PROVE  /\ Own(r.user, getbynum(r)) /\ Own(r.user, custcard_list(r)) /\ Own(r.user, preview(r))
         /\ Own(r.user, newroom(r)) /\ Own(r.user, send_emails(r)) /\ Own(r.user, profiling_all(r))
         /\ Own(r.user, proc_mem(r)) /\ Own(r.user, conn_clients(r)) /\ Own(r.user, db_stats(r))
         /\ Own(r.user, test(r)) /\ Own(r.user, tot_users(r)) /\ Own(r.user, remotelogin(r))
         /\ Own(r.user, tancredi(r))
<1>1. \A cmd : Allowed(r.user, cmd, r.user) BY Allowances
<1>2. \A cmd : cmd # "delete" => Own(r.user, Ask(cmd, r.user)) BY <1>1, AsksOwn
<1>3. /\ Own(r.user, getbynum(r)) /\ Own(r.user, custcard_list(r)) /\ Own(r.user, preview(r))
      /\ Own(r.user, profiling_all(r))
  BY <1>2, RefusalsOwn DEF Checked, getbynum, custcard_list, preview, profiling_all
<1>4. /\ Own(r.user, newroom(r)) /\ Own(r.user, proc_mem(r)) /\ Own(r.user, conn_clients(r))
      /\ Own(r.user, db_stats(r)) /\ Own(r.user, tot_users(r)) /\ Own(r.user, remotelogin(r))
  <2>1. Own(r.user, Http(500) \cup Http(200)) BY RefusalsOwn DEF Own
  <2> QED
    BY <2>1, RefusalsOwn DEF newroom, proc_mem, conn_clients, db_stats, tot_users, remotelogin
<1>5. Own(r.user, send_emails(r)) /\ Own(r.user, test(r))
  <2>1. \A o \in Http(200) \cup Http(503) : Own0(o) BY HttpOwn
  <2>2. /\ Own(r.user, {Send("sendToList", r.user, Http(200))})
        /\ Own(r.user, {Send("testConnection", r.user, Http(200) \cup Http(503))})
    BY <1>1, <2>1, SendOwn, OwnGrows DEF Own
  <2> QED BY <2>2, RefusalsOwn DEF Checked, send_emails, test
<1>6. Own(r.user, tancredi(r))
  <2>1. Owns(r) => Own(r.user, Ask("tancredi phone", r.endpoint))
    BY AsksOwn, Allowances DEF Owns, verifyUserEndpointExten
  <2> QED BY <1>2, <2>1, RefusalsOwn DEF tancredi
<1> QED BY <1>3, <1>4, <1>5, <1>6

LEMMA ServicesOwn ==
  ASSUME NEW r, r.user \in Users,
         r.api \in ServicesGet \cup ServicesPost \cup ServicesPatch \cup ServicesDelete,
         r.api = "presence" => r.target \in Users, r.api \in OfMessage => r.mailbox \in Voicemails
  PROVE  Own(r.user, services(r))
<1>1. CASE r.api \in OfMessage
  BY <1>1, MailboxesOwn DEF OfMessage, services, listen, download, delete
<1>2. CASE r.api \in {"me", "paramurl", "endpoints", "presencelist", "presencelist_onbusy",
                      "presencelist_onunavailable", "presence", "presence_onbusy",
                      "presence_onunavailable", "mobile", "setting", "default_device",
                      "settings", "all_avatars"}
  BY <1>2, UsersOwn DEF services
<1>3. CASE r.api \in {"sources", "image", "open", "subscribe", "unsubscribe", "list", "new_counters",
                      "listen_custom_msg", "download_custom_msg", "custom_msg"}
  BY <1>3, StreamsOwn, MailboxesOwn DEF services
<1>4. CASE r.api \in {"getbynum", "custcard_list", "preview", "newroom", "send_emails",
                      "profiling_all", "proc_mem", "conn_clients", "db_stats", "test",
                      "tot_users", "remotelogin", "tancredi"}
  BY <1>4, OthersOwn DEF services
<1> QED
  BY <1>1, <1>2, <1>3, <1>4
  DEF OfMessage, ServicesGet, ServicesPost, ServicesPatch, ServicesDelete

LEMMA ExecuteOwn ==
  ASSUME NEW route \in Routes, NEW r \in Requests(route), r.api \notin OnAnyPhone, CellphonesInv
  PROVE  Own(r.user, execute(r))
<1>1. FieldsOf(route, r) BY RequestFields
<1>2. ~(r.api \in AstproxyApis /\ r.api \in HistoryApis)
  BY DEF HistoryApis, HistoryGet, HistoryPost, AstproxyApis, AstproxyGet, AstproxyPost,
         AstproxyDelete
<1>3. CASE r.api \in AstproxyApis
  <2>1. Own(r.user, astproxy(r)) BY <1>1, <1>3, AstproxyOwn DEF FieldsOf
  <2> QED BY <1>2, <1>3, <2>1 DEF execute
<1>4. CASE r.api \in HistoryApis
  <2>1. r.api # "call" BY <1>4 DEF HistoryApis, HistoryGet, HistoryPost
  <2>2. Own(r.user, history(r)) BY <1>1, <1>4, <2>1, HistoryOwn DEF FieldsOf
  <2> QED BY <1>2, <1>4, <2>2 DEF execute
<1>5. CASE r.api \notin AstproxyApis \cup HistoryApis
  <2>1. r.api \in ServicesGet \cup ServicesPost \cup ServicesPatch \cup ServicesDelete
    BY <1>1, <1>5 DEF FieldsOf, Routes, Gets, Posts, Deletes, AstproxyApis, HistoryApis
  <2>2. Own(r.user, services(r)) BY <1>1, <2>1, ServicesOwn DEF FieldsOf
  <2> QED BY <1>5, <2>2 DEF execute
<1> QED BY <1>3, <1>4, <1>5

(* The commands of an own outcome, with those of its callbacks.            *)
LEMMA CommandsOwn ==
  ASSUME NEW u, NEW o, Own3(u, o), NEW c \in Commands(o.commands)
  PROVE  Allowed(u, c.send, c.on)
<1> DEFINE first == Then(o.commands)
           second == Then(first)
<1>1. \A s, d : d \in Then(s) => d \in s \/ \E e \in s : \E p \in e.then : d \in p.commands
  BY DEF Then
<1>2. \A p : Own0(p) => Own1(u, p) /\ Own2(u, p) BY OwnGrows
<1>3. \A d \in first : Allowed(u, d.send, d.on) /\ \A p \in d.then : Own2(u, p)
  <2> SUFFICES ASSUME NEW d \in first
               PROVE  Allowed(u, d.send, d.on) /\ \A p \in d.then : Own2(u, p)
    OBVIOUS
  <2>1. CASE d \in o.commands BY <2>1 DEF Own3
  <2>2. CASE \E e \in o.commands : \E p \in e.then : d \in p.commands
    <3>1. PICK e \in o.commands : \E p \in e.then : d \in p.commands BY <2>2
    <3>2. PICK p \in e.then : d \in p.commands BY <3>1
    <3>3. Own2(u, p) BY DEF Own3
    <3>4. Allowed(u, d.send, d.on) /\ \A q \in d.then : Own1(u, q) BY <3>2, <3>3 DEF Own2
    <3> QED BY <3>4, OwnGrows
  <2> QED BY <1>1, <2>1, <2>2
<1> HIDE DEF first
<1>4. \A d \in second : Allowed(u, d.send, d.on) /\ \A p \in d.then : Own2(u, p)
  <2> SUFFICES ASSUME NEW d \in second
               PROVE  Allowed(u, d.send, d.on) /\ \A p \in d.then : Own2(u, p)
    OBVIOUS
  <2>1. CASE d \in first BY <1>3, <2>1
  <2>2. CASE \E e \in first : \E p \in e.then : d \in p.commands
    <3>1. PICK e \in first : \E p \in e.then : d \in p.commands BY <2>2
    <3>2. PICK p \in e.then : d \in p.commands BY <3>1
    <3>3. Own2(u, p) BY <1>3
    <3>4. Allowed(u, d.send, d.on) /\ \A q \in d.then : Own1(u, q) BY <3>2, <3>3 DEF Own2
    <3> QED BY <3>4, OwnGrows
  <2> QED BY <1>1, <2>1, <2>2
<1> HIDE DEF second
<1>5. c \in second \/ \E e \in second : \E p \in e.then : c \in p.commands
  BY <1>1 DEF Commands, second, first
<1>6. CASE c \in second BY <1>4, <1>6
<1>7. CASE \E e \in second : \E p \in e.then : c \in p.commands
  <2>1. PICK e \in second : \E p \in e.then : c \in p.commands BY <1>7
  <2>2. PICK p \in e.then : c \in p.commands BY <2>1
  <2>3. Own2(u, p) BY <1>4
  <2> QED BY <2>2, <2>3 DEF Own2
<1> QED BY <1>5, <1>6, <1>7

LEMMA EndpointsAre ==
  ASSUME NEW f \in Files, NEW u \in DOMAIN EndpointsByUser(f)
  PROVE  EndpointsByUser(f)[u].cellphone \subseteq Cellphones
<1> DEFINE n == CHOOSE n \in DOMAIN f.users : LowerCase[n] = u
<1>1. \E m \in DOMAIN f.users : LowerCase[m] = u BY DEF EndpointsByUser
<1>2. n \in DOMAIN f.users BY <1>1
<1>3. EndpointsByUser(f)[u] = f.users[n] BY DEF EndpointsByUser
<1> HIDE DEF n
<1>4. f.users[n] \in UserConfig BY <1>2, FilesAssumption
<1> QED BY <1>3, <1>4 DEF UserConfig

LEMMA CellphonesAlways == Spec => []CellphonesInv
<1>1. Init => CellphonesInv BY EndpointsAre DEF Init, PolicyInit, CellphonesInv
<1>2. ASSUME CellphonesInv, [Next]_vars PROVE CellphonesInv'
  <2>1. CASE Configure
    <3>1. disk' \in Files /\ users' = users BY <2>1 DEF Configure
    <3> QED BY <1>2, <3>1 DEF CellphonesInv
  <2>2. CASE ReloadUser
    <3>1. disk' = disk /\ users' = EndpointsByUser(disk) BY <2>2 DEF ReloadUser
    <3>2. disk \in Files BY <1>2 DEF CellphonesInv
    <3>3. \A u \in DOMAIN EndpointsByUser(disk) : EndpointsByUser(disk)[u].cellphone \subseteq Cellphones
      BY <3>2, EndpointsAre
    <3> QED BY <3>1, <3>2, <3>3 DEF CellphonesInv
  <2>3. CASE UNCHANGED <<disk, users>> BY <1>2, <2>3 DEF CellphonesInv
  <2> QED
    BY <1>2, <2>1, <2>2, <2>3
    DEF Next, Handle, Answered, AgentsStats, Done, Policy, Reload, TimePasses, policyVars, vars
<1> QED BY <1>1, <1>2, PTL DEF Spec

LEMMA OwnPhonesStep ==
  ASSUME CellphonesInv, [Next]_vars, request = None, request' # None,
         request'.api \notin OnAnyPhone, NEW c \in Commands(waiting')
  PROVE  Allowed(request'.user, c.send, c.on)
<1>1. Handle BY DEF Next, Answered, AgentsStats, Done, Policy, TimePasses, vars
<1>2. PICK route \in Routes : \E r \in Requests(route) : \E o \in execute(r) :
        request' = r /\ waiting' = o.commands
  BY <1>1 DEF Handle
<1>3. PICK r \in Requests(route) : \E o \in execute(r) : request' = r /\ waiting' = o.commands
  BY <1>2
<1>4. PICK o \in execute(r) : request' = r /\ waiting' = o.commands BY <1>3
<1>5. Own3(r.user, o) BY <1>4, ExecuteOwn DEF Own
<1> QED BY <1>4, <1>5, CommandsOwn

(* A handler, and its callbacks, act on the extensions of the user, or on  *)
(* those of others with the permission for that very command (the checks   *)
(* of plugins_rest/astproxy.js and http_proxy.js).                         *)
THEOREM PhonesOfOneself == Spec => OnlyOwnPhones
<1>1. CellphonesInv /\ [Next]_vars =>
        [(request = None /\ request' # None /\ request'.api \notin OnAnyPhone) =>
           \A c \in Commands(waiting') :
             c.on \in Extens => \/ hasExtensionEndpoint(request'.user, c.on)
                                \/ OverOthers(request'.user, c.send)]_vars
  BY OwnPhonesStep DEF Allowed
<1> QED BY <1>1, CellphonesAlways, PTL DEF Spec, OnlyOwnPhones
=============================================================================
