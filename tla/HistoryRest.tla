---------------------------- MODULE HistoryRest ----------------------------
(***************************************************************************)
(* The handlers of the REST requests on the history of calls and on the    *)
(* recordings: the plugins of com_history_rest.                            *)
(*                                                                         *)
(* A user without the permission on all the recordings reaches those of    *)
(* its own extensions: the extensions are taken when the request comes and *)
(* the database says later whether one of them is in the recording.  The   *)
(* command isAtLeastExtenInCallRecording is sent on that set.              *)
(***************************************************************************)
EXTENDS RestReplies, CallHistory

\* The last step of the requests on a recording.
deleteCallRecording(r) == Ask("deleteCallRecording", r.user)
listenCallRecording(r) == Ask("getCallRecordingContent", r.user)
downCallRecording(r) ==
  {Send("getCallRecordingContent", r.user, Http(500) \cup Ask("copyFile", r.user))}

\* A recording that is not found is an error for who may reach every one, and
\* forbidden for who must be in it.
OnRecording(r, outcomes) ==
  IF authorizeAdminRecordingUser(r.user)
  THEN AskThen("getCallRecordingFileData", r.user,
               [a \in Arguments |-> IF a = "done" THEN outcomes ELSE Http(500)])
  ELSE IF ~authorizeRecordingUser(r.user) THEN Forbidden
  ELSE AskThen("isAtLeastExtenInCallRecording", r.user,
               [a \in Arguments |-> CASE a = "done" -> outcomes [] a = "error" -> Http(500)
                                       [] OTHER -> Forbidden])

delete_callrec(r) == OnRecording(r, deleteCallRecording(r))
listen_callrec(r) == OnRecording(r, listenCallRecording(r))
down_callrec(r) == OnRecording(r, downCallRecording(r))

\* A page of calls, with the numbers hidden or not.
Page(calls, hides) == {Outcome(<<[reply |-> 200, hides |-> hides, shows |-> calls]>>, {})}
AskPage(cmd, on, calls, hides) ==
  AskThen(cmd, on, [a \in Arguments |-> IF a = "error" THEN Http(500) ELSE Page(calls, hides)])

\* The calls of a user or of an extension: all of them with the permission on
\* every call, those of the user otherwise.  A user without extensions makes a
\* query the database refuses.
Directions == {"in", "out", "lost", "any"}
historycall_interval(r) ==
  LET extens == IF r.type = "extension" THEN {r.endpoint} ELSE getAllEndpointsExtension(r.target)
  IN IF r.type \notin {"extension", "user"} THEN BadRequest
     ELSE IF \/ authorizeAdminCdrUser(r.user)
             \/ /\ authorizeCdrUser(r.user)
                /\ IF r.type = "extension" THEN Owns(r) ELSE r.target = r.user
     THEN IF extens = {} THEN {Send("getHistoryCallInterval", {}, Http(500))}
          ELSE UNION {AskPage("getHistoryCallInterval", extens,
                              getHistoryCallInterval(extens, d, noLost), "nothing") :
                        d \in Directions, noLost \in BOOLEAN}
     ELSE Forbidden

\* The answers of the two requests hide the numbers with the privacy.
SwitchTypes == {"in", "out", "internal", "lost", "any"}
OfSwitch(cmd, k, extens) ==
  UNION {AskPage(cmd, k, getHistorySwitchCallInterval(extens, t, noLost), Hidden(k)) :
           t \in SwitchTypes, noLost \in BOOLEAN}
histcallswitch_interval(r) ==
  IF authorizeAdminCdrUser(r.user) THEN OfSwitch("getHistorySwitchCallInterval", r.user, Extens)
  ELSE Forbidden
\* The groups are those of the operator panel the user is in.
histcallsgroups_interval(r) ==
  IF ~authorizeGroupCdrUser(r.user) THEN Forbidden
  ELSE UNION {OfSwitch("getHistoryGroupsCallInterval", r.user,
                       UNION {getAllEndpointsExtension(u) : u \in group}) :
                group \in {{}} \cup {g \in SUBSET Users : r.user \in g}}

HistoryGet == {"listen_callrec", "down_callrec", "historycall_interval",
               "histcallswitch_interval", "histcallsgroups_interval"}
HistoryPost == {"delete_callrec"}
history(r) ==
  CASE r.api = "delete_callrec" -> delete_callrec(r)
    [] r.api = "listen_callrec" -> listen_callrec(r)
    [] r.api = "down_callrec" -> down_callrec(r)
    [] r.api = "historycall_interval" -> historycall_interval(r)
    [] r.api = "histcallswitch_interval" -> histcallswitch_interval(r)
    [] r.api = "histcallsgroups_interval" -> histcallsgroups_interval(r)
=============================================================================
