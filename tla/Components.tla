----------------------------- MODULE Components -----------------------------
(***************************************************************************)
(* What the components behind the REST handlers call back with: voicemail, *)
(* history, customer_card, streaming, the queues of arch_astproxy, and the *)
(* queries of dbconn they rest on.                                         *)
(*                                                                         *)
(* A function takes a callback and may call it once, never or twice; what  *)
(* it does is a sequence of "error", "done" and "nothing" (no error, and   *)
(* nothing found).  An operator is the set of the sequences of a function. *)
(***************************************************************************)
EXTENDS Sequences

Answers == {<<"error">>, <<"done">>}
\* A query has a handler of errors; an update or a removal that its callback
\* makes then has none: when it fails nobody is called back.
Query(found) == {<<"error">>} \cup found
Update == {<<"done">>, <<>>}

----------------------------------------------------------------------------
(* voicemail.js and dbconn_voicemail.js.                                   *)
getVoicemailMsg == Query({<<"done">>})
\* The error of the query is logged.  A user without a mailbox has no message.
getVoiceMessagesByUser ==
  {IF c = <<"error">> THEN <<>> ELSE c : c \in getVoicemailMsg} \cup {<<"done">>}
getAllNewVoiceMessageCount == Answers
getVmMailboxFromDbId == Query({<<"done">>, <<"error">>})
getVmIdFromDbId == getVmMailboxFromDbId
listenVoiceMessage == Query({<<"done">>, <<"error">>})
\* The event of the deletion is emitted with task.selectedValues, which an
\* instance does not have: the exception is an error for the client, and the
\* row goes on being removed and then calls back.
deleteVoiceMessage == Query({<<"error">>} \cup {<<"error">> \o c : c \in Update})
listenCustomMessage == Query({<<"done">>, <<"nothing">>})
deleteCustomMessage == Query(Update \cup {<<"nothing">>})
\* The first greeting of a type is inserted, with a handler of errors.
setCustomVmAudioMsg == Query(Answers \cup Update)

----------------------------------------------------------------------------
(* history.js, dbconn_history.js and dbconn_ast_proxy.js.                  *)
isAtLeastExtenInCall == Query({<<"done">>, <<"nothing">>})
isAtLeastExtenInCallRecording == isAtLeastExtenInCall
getCallRecordingFileData == Query({<<"done">>, <<"nothing">>})
getCallRecordingContent == Answers
\* The file is removed, and its name in the row of the call after it.
EmptyRecordingFile == Query(Update \cup {<<"error">>})
deleteCallRecording == {<<"error">>} \cup EmptyRecordingFile

----------------------------------------------------------------------------
(* customer_card.js and dbconn_customer_card.js.                           *)
getCustomerCardByNum == Query({<<"done">>})
getCustomerCardPreview == {<<"error">>} \cup Query({<<"done">>})
getCustomerCardsList == Answers
\* The cards are asked one by one, and one in error is left out.
getAllCustomerCards == {<<"done">> : c \in getCustomerCardByNum}

----------------------------------------------------------------------------
(* streaming.js.                                                           *)
getAllStreamingSources == {<<"done">>}
\* The source is unknown, or its tones are sent.
open == {<<"error">>} \cup Answers
subscribeSource == {<<"done">>}
unsubscribeSource == {<<"done">>}
getVideoSample == {<<"error">>} \cup Answers

----------------------------------------------------------------------------
(* The queues: arch_astproxy.js and dbconn_ast_proxy.js.                   *)

\* The error of the query is not looked at.
getQueueRecallInfo == {<<"done">>}
\* The results that an error leaves undefined make the callback throw.
getRecall == Query({<<"done">>})
getRecallData == {<<"done">>} \cup getRecall
\* A failure is answered with empty statistics, an unknown queue with an error.
getQueueStats == {<<"done">>}
getJSONQueueStats == {<<"error">>} \cup getQueueStats
\* The statistics of half an hour are kept, those of an error too; the calls
\* after 23:30 belong to no half hour and make the callback throw.
getQCallsStatsHist == Query({<<"done">>, <<"error">>})
getPinExtens == {<<"done">>} \cup Query({<<"done">>})
setPinExten == Query({<<"done">>})
isPinEnabledAtLeastOneRoute == Query({<<"done">>})

----------------------------------------------------------------------------
(* The settings of the users: controller_user.js and                       *)
(* dbconn_config_manager.js.                                               *)
deleteSettings == {<<"error">>} \cup Query({<<"done">>})
deleteSetting == {<<"error">>} \cup Query({<<"done">>})
\* A stored value that begins as JSON does and is not throws in the handler of
\* the rows, and nobody is called back, nor when the settings of one user fail
\* so among those of all.
getUserSettings == Query({<<"done">>, <<>>})
loadAllUsersSettings == {<<"error">>, <<"done">>, <<>>}
getParamUrl == Query({<<"done">>})

\* The functions above by the name of the command a handler sends.
Calls(cmd) ==
  CASE cmd = "getVoiceMessagesByUser" -> getVoiceMessagesByUser
    [] cmd = "getAllNewVoiceMessageCount" -> getAllNewVoiceMessageCount
    [] cmd = "getVmIdFromDbId" -> getVmIdFromDbId
    [] cmd \in {"listen", "download"} -> listenVoiceMessage
    [] cmd = "delete" -> deleteVoiceMessage
    [] cmd = "listenCustomMessage" -> listenCustomMessage
    [] cmd = "setCustomVmAudioMsg" -> setCustomVmAudioMsg
    [] cmd = "deleteCustomMessage" -> deleteCustomMessage
    [] cmd = "isAtLeastExtenInCallRecording" -> isAtLeastExtenInCallRecording
    [] cmd = "getCallRecordingFileData" -> getCallRecordingFileData
    [] cmd = "getCallRecordingContent" -> getCallRecordingContent
    [] cmd = "deleteCallRecording" -> deleteCallRecording
    [] cmd = "getCustomerCardPreview" -> getCustomerCardPreview
    [] cmd = "getCustomerCardsList" -> getCustomerCardsList
    [] cmd = "getAllCustomerCards" -> getAllCustomerCards
    [] cmd = "getAllStreamingSources" -> getAllStreamingSources
    [] cmd = "open" -> open [] cmd = "getVideoSample" -> getVideoSample
    [] cmd = "subscribeSource" -> subscribeSource
    [] cmd = "unsubscribeSource" -> unsubscribeSource
    [] cmd = "getQueueRecallInfo" -> getQueueRecallInfo
    [] cmd = "getRecallData" -> getRecallData
    [] cmd = "getJSONQueueStats" -> getJSONQueueStats
    [] cmd = "getQCallsStatsHist" -> getQCallsStatsHist
    [] cmd = "getPinExtens" -> getPinExtens [] cmd = "setPinExten" -> setPinExten
    [] cmd = "isPinEnabledAtLeastOneRoute" -> isPinEnabledAtLeastOneRoute
    [] cmd = "deleteSettings" -> deleteSettings [] cmd = "deleteSetting" -> deleteSetting
    [] cmd = "getUserSettings" -> getUserSettings [] cmd = "getParamUrl" -> getParamUrl
    [] cmd = "loadAllUsersSettings" -> loadAllUsersSettings
    [] OTHER -> Answers
=============================================================================
