---------------------------- MODULE UserPresence ----------------------------
(***************************************************************************)
(* The presence of one user: plugins/user/controller_user.js, with the     *)
(* requests that reach it from com_user_rest and config_manager, the       *)
(* settings made on a phone, and the requests of com_astproxy_rest that    *)
(* change one extension behind its back.                                   *)
(*                                                                         *)
(* A presence is put into force by an async.series of commands, one after  *)
(* the other, over all extensions of the user.  Series of the same user    *)
(* run at once and nothing serialises them.  All commands go over the one  *)
(* connection of astproxy to Asterisk, which answers them in order; the    *)
(* flags that astproxy keeps of an extension change when the command is    *)
(* answered.  A step whose flag is already off sends no command.           *)
(*                                                                         *)
(* The presences always, on busy and on unavailable are three copies of    *)
(* this code that share no state: `channel` says which one a behaviour is  *)
(* about.                                                                  *)
(***************************************************************************)
EXTENDS Integers, Sequences

CONSTANTS
  Extens,        \* getAllUserExtensions without duplicates: a sequence
  Main,          \* the main extension
  Dests,         \* numbers calls are forwarded to
  Configurations, \* cellphone (one of Dests or Off) and voicemail of the user
  On, Off,       \* a mechanism that is on (and has no number), or off
  NoRequest,
  Channels,      \* channels to look at
  MaxInputs      \* bound: requests and settings on phones in a behaviour

Exts == {Extens[i] : i \in DOMAIN Extens}

ASSUME ExtensAreThere == Extens \in Seq(Exts) /\ Main \in Exts
ASSUME DestsAreNumbers ==
  On \notin Dests /\ Off \notin Dests /\ On # Off
ASSUME ConfigurationsAreEndpoints ==
  Configurations \subseteq [cellphone : Dests \cup {Off}, voicemail : BOOLEAN]
ASSUME ChannelsAreKnown == Channels \subseteq {"always", "busy", "unavailable"}
ASSUME MaxInputsIsNatural == MaxInputs \in Nat

VARIABLES
  endpoints,   \* the configuration of the user: cellphone and voicemail
  channel,     \* which of the three presences this behaviour is about
  flags,       \* what astproxy knows of each extension: mechanism -> Off, On or number
  asterisk,    \* the presence set in Asterisk for the main extension (always)
  presence,    \* users[username].getPresence() and getPresenceCallforwardTo()
  jobs,        \* running series, in the order of their commands in flight
  request,     \* history: the last request, when nothing else interfered since
  inputs,      \* requests and settings so far
  overlapped,  \* history: it was made while something else was running
  bypassed     \* history: the main extension may have changed without an update

vars == <<endpoints, channel, flags, asterisk, presence, jobs, inputs, request,
          overlapped, bypassed>>
settings == <<endpoints, channel>>

-----------------------------------------------------------------------------
Mechanisms == {"dnd", "cf", "vm"}
Values == Dests \cup {On, Off}
ValuesOf(m) == IF m = "cf" THEN Dests \cup {Off} ELSE {On, Off}
Flags == [Exts -> {f \in [Mechanisms -> Values] : \A m \in Mechanisms : f[m] \in ValuesOf(m)}]

\* STATUS, and STATUS_ONBUSY and STATUS_ONUNAVAILABLE
AllStatuses == {"online", "dnd", "callforward", "cellphone", "voicemail"}
Statuses    == IF channel = "always" THEN AllStatuses ELSE AllStatuses \ {"dnd"}

\* the mechanism a status turns on; no mechanism is named "none"
Target(s) ==
  CASE s = "dnd" -> "dnd"
    [] s \in {"callforward", "cellphone"} -> "cf"
    [] s = "voicemail" -> "vm"
    [] OTHER -> "none"

\* the value it is turned on with
Setting(s, to) ==
  CASE s = "callforward" -> to
    [] s = "cellphone" -> endpoints.cellphone
    [] OTHER -> On

\* the presence set in Asterisk at the end of each series
AsteriskPresence(s) ==
  CASE s = "online" -> "AVAILABLE"
    [] s = "dnd" -> "DND"
    [] s = "callforward" -> "AWAY,NUMBER"
    [] s = "cellphone" -> "AWAY,CELLPHONE"
    [] s = "voicemail" -> "XA,VOICEMAIL"

\* a running series: the step `at` has its command in flight
Series == [status : AllStatuses, to : Dests \cup {Off}, exts : Seq(Exts), at : Nat]

TypeOK ==
  /\ endpoints \in Configurations /\ channel \in Channels
  /\ flags \in Flags
  /\ asterisk \in {AsteriskPresence(s) : s \in AllStatuses}
  /\ presence \in [status : AllStatuses, to : Dests \cup {Off}]
  /\ jobs \in Seq(Series)
  /\ request \in [status : AllStatuses, to : Dests \cup {Off}] \cup {NoRequest}
  /\ inputs \in Nat /\ overlapped \in BOOLEAN /\ bypassed \in BOOLEAN

-----------------------------------------------------------------------------
(* The list of functions of a series. *)

\* per extension: what has to be off, in this order, then what has to be on
Order(s) ==
  IF channel = "always"
  THEN CASE Target(s) = "dnd" -> <<"cf", "vm", "dnd">>
         [] Target(s) = "cf" -> <<"dnd", "vm", "cf">>
         [] OTHER -> <<"dnd", "cf", "vm">>
  ELSE IF Target(s) = "cf" THEN <<"vm", "cf">> ELSE <<"cf", "vm">>

Width == IF channel = "always" THEN 3 ELSE 2

\* mutant: the last step for the extensions is missing
ExtenStepsShort(j) == Width * Len(j.exts) - 1

\* steps on the extensions; `always` has one more, that sets the Asterisk presence
ExtenSteps(j) == Width * Len(j.exts)
Steps(j)      == ExtenSteps(j) + (IF channel = "always" THEN 1 ELSE 0)

StepExt(j, i)  == j.exts[((i - 1) \div Width) + 1]
StepMech(j, i) == Order(j.status)[((i - 1) % Width) + 1]
Enables(j, i)  == i <= ExtenSteps(j) /\ StepMech(j, i) = Target(j.status)

\* the steps that send a command: disable*Exten look at the flag first, enable*Exten
\* and setAsteriskPresence do not
Commands(j, fl) ==
  {i \in 1..Steps(j) : \/ i > ExtenSteps(j)
                       \/ Enables(j, i)
                       \/ fl[StepExt(j, i)][StepMech(j, i)] # Off}

\* enable*CellphoneExten, enable*VmExten: an error when there is no such endpoint
HasNoEndpoint(j, i) ==
  /\ Enables(j, i)
  /\ \/ j.status = "cellphone" /\ endpoints.cellphone = Off
     \/ j.status = "voicemail" /\ ~endpoints.voicemail

\* i is the first step from `from` on that does something; the last one, after all
\* commands, is the update of the presence
IsNext(j, from, i, fl) == i >= from /\ \A k \in Commands(j, fl) : k >= from => i <= k

\* what the answer to the command of a series changes
Written(j, fl) ==
  IF j.at > ExtenSteps(j) THEN fl
  ELSE [fl EXCEPT ![StepExt(j, j.at)][StepMech(j, j.at)] =
          IF Enables(j, j.at) THEN Setting(j.status, j.to) ELSE Off]

\* updateUserPresence, updateUserPresenceOnBusy, updateUserPresenceOnUnavailable:
\* what the flags of the main extension say; `to` stays when it does not apply
Derived(fl, cellphone) ==
  LET main == fl[Main]
  IN  CASE main["dnd"] # Off -> "dnd"
        [] main["dnd"] = Off /\ main["cf"] # Off /\ main["cf"] = cellphone -> "cellphone"
        [] main["dnd"] = Off /\ main["cf"] # Off /\ main["cf"] # cellphone -> "callforward"
        [] main["dnd"] = Off /\ main["cf"] = Off /\ main["vm"] # Off -> "voicemail"
        [] OTHER -> "online"

\* `last` is the destination that was shown before: it stays when it does not apply
Update(fl, cellphone, last) ==
  LET status == Derived(fl, cellphone)
  IN  [status |-> status, to |-> IF status = "callforward" THEN fl[Main]["cf"] ELSE last]

Updated(fl) == Update(fl, endpoints.cellphone, presence.to)

-----------------------------------------------------------------------------
\* mutant: a series that has nothing to send ends without the update
GoOnSending(j, from, others, fl) ==
  \E i \in Commands(j, fl) \cup {Steps(j) + 1} :
    /\ IsNext(j, from, i, fl)
    /\ \/ /\ i > Steps(j)
          /\ jobs' = others /\ presence' = (IF from = 1 THEN presence ELSE Updated(fl)) /\ bypassed' = FALSE
       \/ /\ i <= Steps(j) /\ HasNoEndpoint(j, i)
          /\ jobs' = others /\ bypassed' = TRUE /\ UNCHANGED presence
       \/ /\ i <= Steps(j) /\ ~HasNoEndpoint(j, i)
          /\ jobs' = Append(others, [j EXCEPT !.at = i]) /\ UNCHANGED <<presence, bypassed>>

\* mutant: a series that ends in another presence than its own tries its last step again
GoOnTrying(j, from, others, fl) ==
  \E i \in Commands(j, fl) \cup {Steps(j) + 1} :
    /\ IsNext(j, from, i, fl)
    /\ \/ /\ i > Steps(j) /\ Updated(fl).status = j.status
          /\ jobs' = others /\ presence' = Updated(fl) /\ bypassed' = FALSE
       \/ /\ i > Steps(j) /\ Updated(fl).status # j.status
          /\ jobs' = Append(others, [j EXCEPT !.at = Steps(j)]) /\ UNCHANGED <<presence, bypassed>>
       \/ /\ i <= Steps(j) /\ HasNoEndpoint(j, i)
          /\ jobs' = others /\ bypassed' = TRUE /\ UNCHANGED presence
       \/ /\ i <= Steps(j) /\ ~HasNoEndpoint(j, i)
          /\ jobs' = Append(others, [j EXCEPT !.at = i]) /\ UNCHANGED <<presence, bypassed>>

\* the series j goes on from a step: to its end with the update of the presence, to
\* an error that leaves it out, or to the next command
GoOn(j, from, others, fl) ==
  \E i \in Commands(j, fl) \cup {Steps(j) + 1} :
    /\ IsNext(j, from, i, fl)
    /\ \/ /\ i > Steps(j)
          /\ jobs' = others /\ presence' = Updated(fl) /\ bypassed' = FALSE
       \/ /\ i <= Steps(j) /\ HasNoEndpoint(j, i)
          /\ jobs' = others /\ bypassed' = TRUE /\ UNCHANGED presence
       \/ /\ i <= Steps(j) /\ ~HasNoEndpoint(j, i)
          /\ jobs' = Append(others, [j EXCEPT !.at = i]) /\ UNCHANGED <<presence, bypassed>>

NewSeries(s, to, exts) == [status |-> s, to |-> to, exts |-> exts, at |-> 0]

\* getAllUserExtensions without the extension that changed, in the same order
Others(e) ==
  LET at == CHOOSE i \in DOMAIN Extens : Extens[i] = e
  IN  [k \in 1..(Len(Extens) - 1) |-> IF k < at THEN Extens[k] ELSE Extens[k + 1]]

\* one more request or setting on a phone
Input == inputs < MaxInputs /\ inputs' = inputs + 1

\* the users are configured: the flags are whatever the phones were left with; what
\* Asterisk shows of the user is never read
Init ==
  /\ endpoints \in Configurations /\ channel \in Channels
  /\ flags \in {f \in Flags : channel = "always" \/ \A e \in Exts : f[e]["dnd"] = Off}
  /\ asterisk = "AVAILABLE"
  /\ presence = Update(flags, endpoints.cellphone, Off)
  /\ jobs = <<>> /\ inputs = 0
  /\ request = NoRequest /\ overlapped = FALSE /\ bypassed = FALSE

\* setPresence, setPresenceOnBusy, setPresenceOnUnavailable: from com_user_rest, and
\* online and dnd from the automatic settings of config_manager
SetPresence(s, to) ==
  /\ Input /\ s \in Statuses /\ (to # Off <=> s = "callforward")
  /\ GoOn(NewSeries(s, to, Extens), 1, jobs, flags)
  /\ request' = [status |-> s, to |-> to] /\ overlapped' = (jobs # <<>>)
  /\ UNCHANGED <<settings, flags, asterisk>>

\* a phone changed its own flag; the other extensions of the user follow
Follow(e, mech, value, s, to) ==
  LET fl == [flags EXCEPT ![e][mech] = value]
  IN  /\ flags' = fl
      /\ GoOn(NewSeries(s, to, Others(e)), 1, jobs, fl)
      /\ request' = NoRequest /\ overlapped' = FALSE
      /\ UNCHANGED <<settings, asterisk>>

\* evtExtenDndChanged
PhoneDnd(e, value) ==
  /\ Input /\ channel = "always"
  /\ Follow(e, "dnd", value, IF value = On THEN "dnd" ELSE "online", Off)

\* evtExtenCfChanged, evtExtenCfbChanged, evtExtenCfuChanged: cellphoneId is the
\* endpoint object and data.to its number, so they are never the same
PhoneCf(e, value) ==
  /\ Input
  /\ Follow(e, "cf", value, IF value = Off THEN "online" ELSE "callforward", value)

\* evtExtenCfVmChanged; there is no such event on busy and on unavailable
PhoneVm(e, value) ==
  /\ Input /\ channel = "always"
  /\ Follow(e, "vm", value, IF value = On THEN "voicemail" ELSE "online", Off)

\* dndset, cfcallSet* and cfvmSet* of com_astproxy_rest: one command on one extension;
\* nothing follows its answer, so it is one step, taken when Asterisk answers
SetOne(e, mech, value) ==
  /\ Input /\ (mech = "dnd" => channel = "always")
  /\ value \in ValuesOf(mech)
  /\ flags' = [flags EXCEPT ![e][mech] = value]
  /\ request' = NoRequest /\ overlapped' = FALSE
  /\ bypassed' = (bypassed \/ e = Main)
  /\ UNCHANGED <<settings, asterisk, presence, jobs>>

\* the first command in flight is answered
Answered ==
  /\ jobs # <<>>
  /\ LET j  == Head(jobs)
         fl == Written(j, flags)
     IN  /\ flags' = fl
         /\ asterisk' = IF j.at > ExtenSteps(j) THEN AsteriskPresence(j.status) ELSE asterisk
         /\ GoOn(j, j.at + 1, Tail(jobs), fl)
  /\ UNCHANGED <<settings, inputs, request, overlapped>>

\* the first command in flight is answered with an error: its series is given up
Failed ==
  /\ jobs # <<>>
  /\ jobs' = Tail(jobs)
  /\ request' = NoRequest /\ overlapped' = FALSE
  /\ bypassed' = TRUE
  /\ UNCHANGED <<settings, flags, asterisk, presence, inputs>>

\* reload: the users are made again with their endpoints, and their presence is what
\* the flags say; running series go on
Reload ==
  /\ endpoints' \in Configurations
  /\ presence' = Update(flags, endpoints'.cellphone, Off)
  /\ request' = NoRequest /\ overlapped' = FALSE /\ bypassed' = FALSE
  /\ UNCHANGED <<channel, flags, asterisk, jobs, inputs>>

Phones ==
  \E e \in Exts :
    \/ \E value \in {On, Off} : PhoneDnd(e, value) \/ PhoneVm(e, value)
    \/ \E value \in Dests \cup {Off} : PhoneCf(e, value)

Next ==
  \/ \E s \in AllStatuses, to \in Dests \cup {Off} : SetPresence(s, to)
  \/ Phones
  \/ \E e \in Exts, mech \in Mechanisms, value \in Values : SetOne(e, mech, value)
  \/ Answered \/ Failed \/ Reload

Spec == Init /\ [][Next]_vars

\* Asterisk answers every command
FairSpec == Spec /\ WF_vars(Failed \/ Answered)

-----------------------------------------------------------------------------
(* Properties. *)

\* What clients are shown is what the main extension does (updateUserPresence,
\* 2142-2195), however many series, phones and reloads interleave, unless a series
\* is running, one was given up, or com_astproxy_rest went around it.
PresenceFollowsMain ==
  jobs = <<>> /\ ~bypassed => presence = Update(flags, endpoints.cellphone, presence.to)

\* the state a request is meant to bring an extension to
InForce(fl, r) ==
  \A m \in Mechanisms : fl[m] = IF m = Target(r.status) THEN Setting(r.status, r.to) ELSE Off

\* A request that nothing disturbed (1748-1794, 1495-1735) leaves every extension of
\* the user in the state it names, whatever state each of them started from, and
\* Asterisk is told so.
RequestTakesEffect ==
  jobs = <<>> /\ request # NoRequest /\ ~overlapped /\ ~bypassed =>
    /\ \A e \in Exts : InForce(flags[e], request)
    /\ channel = "always" => asterisk = AsteriskPresence(request.status)

\* A request is answered: as long as Asterisk answers commands, no interleaving of
\* series, phones and reloads keeps a series going forever (async.series calls back
\* after the last function or the first error, 1523-1534).
SeriesEnd == (jobs # <<>>) ~> (jobs = <<>>)
=============================================================================
