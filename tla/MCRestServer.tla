---------------------------- MODULE MCRestServer ----------------------------
EXTENDS RestServer, TLC

CONSTANTS Ann, Joe, ann, joe, e1, e2, c1, v1, v2, q1, s1, basic, boss, out

MCLowerCase == Ann :> ann @@ Joe :> joe

Own == {<<m, "value">> : m \in {"phonebook", "settings", "queue_agent", "presence_panel", "cdr",
                                "qmanager", "streaming", "operator_panel", "off_hour"}}
       \cup {<<"settings", p>> : p \in {"recording", "privacy", "dnd", "parkings", "phone_buttons",
                                        "video_conference"}}
       \cup {<<"queue_agent", "lost_queue_call">>, <<"cdr", "group_cdr">>}
OfAdmin == {<<"presence_panel", p>> : p \in {"ad_recording", "hangup", "pickup", "spy", "intrude",
                                             "transfer", "trunks", "ad_parking", "ad_phone"}}
           \cup {<<"settings", "call_forward">>, <<"queue_agent", "ad_queue_agent">>,
                 <<"cdr", "ad_cdr">>, <<"qmanager", q1>>, <<"streaming", s1>>}
MCGrants == Own \cup OfAdmin
Half == {<<"presence_panel", p>> : p \in {"ad_recording", "pickup", "spy", "ad_parking"}}
        \cup {<<"cdr", "ad_cdr">>, <<"settings", "call_forward">>}

Config(profile, extens, vms) ==
  [profile_id |-> profile, mainextension |-> extens, extension |-> {}, cellphone |-> {c1},
   voicemail |-> vms]
\* Permissions of macros that are off.
OffMacros == {<<"queue_agent", "value">>, <<"qmanager", "value">>}
Uneven == ((Own \cup Half) \ OffMacros)
            \cup {<<"queue_agent", "ad_queue_agent">>, <<"qmanager", q1>>}
\* The second configuration leaves one user, with the extension and the mailbox
\* of the other.
MCFiles ==
  {[users |-> Ann :> Config(basic, {e1}, {v1}) @@ Joe :> Config(boss, {e2}, {v2}),
    profiles |-> basic :> Own @@ boss :> MCGrants],
   [users |-> Joe :> Config(boss, {e1}, {v1}), profiles |-> boss :> Uneven]}

Phone(webrtc, fanvil, urls, mode) ==
  [webrtc |-> webrtc, online |-> TRUE, fanvil |-> fanvil, tcp |-> TRUE, urls |-> urls,
   mode |-> mode]
MCDevices ==
  {Phone(TRUE, FALSE, {}, "automatic"), Phone(FALSE, TRUE, PhoneUrls, "automatic"),
   Phone(FALSE, FALSE, {"call", "answer"}, "automatic"), Phone(FALSE, FALSE, PhoneUrls, "cloud"),
   Phone(FALSE, FALSE, PhoneUrls, "manual"), Phone(FALSE, FALSE, {}, "cloud")}
MCMembers == q1 :> {ann, joe}
MCRecalls == {<<ann, q1>>, <<joe, q1>>}
MCLog == {[agent |-> ann, queue |-> q1, event |-> "COMPLETE"]}
Call(cnum, dst, disposition, elsewhere) ==
  [cnum |-> cnum, dst |-> dst, disposition |-> disposition, elsewhere |-> elsewhere,
   first |-> TRUE, forwarded |-> FALSE, trunkIn |-> cnum = out, trunkOut |-> dst = out]
MCCdr == {Call(out, e1, "ANSWERED", FALSE), Call(e2, out, "NO ANSWER", FALSE),
          Call(e1, e2, "BUSY", TRUE)}
=============================================================================
