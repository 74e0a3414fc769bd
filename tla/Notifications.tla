---------------------------- MODULE Notifications ----------------------------
(***************************************************************************)
(* What the websocket clients are told: the rooms a client enters at its   *)
(* login, and the handlers of com_nethcti_ws.js for the events of astproxy *)
(* and streaming, over the sessions of WsSessions.                         *)
(*                                                                         *)
(* A handler that only sends changes nothing in the server, so it is a     *)
(* state function: the set of those it sends to, with what they are sent.  *)
(* The rooms are evaluated at the login, the events to the keys of wsid at *)
(* the event, while the permissions change with a reload of authorization. *)
(***************************************************************************)
EXTENDS WsSessions

CONSTANTS
  Persons,      \* the users of users.json
  KeyUser,      \* access key -> user: a client logs in as a user or an extension
  ExtensOf,     \* user -> extensions
  Policies      \* what authorization may hold: user -> permissions

ASSUME KeysAssumption == KeyUser \in [Users -> Persons]
ASSUME PoliciesAssumption ==
  \A p \in Policies : p \in [Persons -> SUBSET {"presence_panel", "queues", "advanced_queues", "trunks",
                                               "parkings", "qmanager", "privacy", "ad_postit",
                                               "postit", "phonebook"}]

VARIABLES
  policy,       \* the permissions in memory
  rooms,        \* socket -> rooms it has entered
  stream,       \* the room of the source is in WS_ROOM, and who is in it
  subscribers,  \* history: users whose last request is to subscribe to the source
  steady        \* history: sockets with one login since which the permissions are the same

notices == <<policy, rooms, stream, subscribers, steady>>
nvars == <<vars, notices>>

Has(u, permission) == permission \in policy[u]
Topics == {"extensions", "queues", "trunks", "parkings"}
Forms == {"clear", "privacy"}
Rooms == (Topics \X Forms) \cup {<<"qmanager", "clear">>}

-----------------------------------------------------------------------------
(* The login.                                                              *)

\* A mistake: the privacy holds for the extensions only.
FormOfExtensions(u, topic) ==
  IF Has(u, "privacy") /\ topic = "extensions" THEN "privacy" ELSE "clear"

Form(u, topic) ==
  IF Has(u, "privacy") /\ ~(topic = "queues" /\ Has(u, "advanced_queues")) THEN "privacy" ELSE "clear"

Allowed(u, topic) ==
  CASE topic = "extensions" -> Has(u, "presence_panel")
    [] topic = "queues"     -> Has(u, "queues") \/ Has(u, "advanced_queues")
    [] topic = "trunks"     -> Has(u, "trunks")
    [] topic = "parkings"   -> Has(u, "parkings")

\* A mistake: the room of the alarms has a form too.
RoomsOfForms(u) ==
  {<<topic, Form(u, topic)>> : topic \in {t \in Topics : Allowed(u, t)}} \cup
  (IF Has(u, "qmanager") THEN {<<"qmanager", Form(u, "qmanager")>>} ELSE {})

RoomsOf(u) ==
  {<<topic, Form(u, topic)>> : topic \in {t \in Topics : Allowed(u, t)}} \cup
  (IF Has(u, "qmanager") THEN {<<"qmanager", "clear">>} ELSE {})

\* doLogin of the logins of L, after the sessions are recorded.  A socket that
\* has left is in a room as well, but nothing is sent to it.
Joined(L) ==
  /\ rooms' = [s \in Sockets |->
                 IF s \in sockets'
                 THEN rooms[s] \cup UNION {RoomsOf(KeyUser[x.username]) : x \in LoginsOf(L, s)} ELSE {}]
  /\ steady' = {s \in sockets' : IF LoginsOf(L, s) = {} THEN s \in steady
                                 ELSE wsid[s] = NoData /\ \E x \in L : LoginsOf(L, s) = {x}}
  /\ stream' = [stream EXCEPT !.sockets = @ \cap sockets']
  /\ UNCHANGED <<policy, subscribers>>

NotLoggedIn == Joined({})

-----------------------------------------------------------------------------
(* The events.  The loops over wsid that ask nothing of a socket stop at   *)
(* the first that is gone, where emit or join throws.                      *)

Live == {s \in sockets : wsid[s] # NoData}
UntilGone == {keys[i] : i \in {i \in DOMAIN keys : \A j \in 1..i : keys[j] \in sockets}}

\* What of a topic is sent to whom, in which form.
ToRooms(topic) == {r \in sockets \X Forms : <<topic, r[2]>> \in rooms[r[1]]}
queueChanged == ToRooms("queues")
queueMemberChanged == ToRooms("queues")
parkingChanged == ToRooms("parkings")
trunkChanged == ToRooms("extensions")
evtAlarm == {s \in sockets : <<"qmanager", "clear">> \in rooms[s]}

\* In a call of an extension numbers are hidden ("privacy"), but for the calls of
\* a queue ("queues"), or not.
ExtenForm(u, e) ==
  IF ~Has(u, "privacy") \/ e \in ExtensOf[u] THEN "clear"
  ELSE IF Has(u, "advanced_queues") THEN "queues" ELSE "privacy"
ExtenFormOf(key, e) == ExtenForm(KeyUser[key], e)

extenChanged(e) == {<<s, ExtenFormOf(wsid[s], e)>> : s \in Live}

-----------------------------------------------------------------------------
(* What a client is shown of a caller: notes and contacts with their       *)
(* creators, public or not.                                                *)

Things == [creator : Persons, public : BOOLEAN]

NotesOf(u, notes) ==
  IF Has(u, "ad_postit") THEN notes
  ELSE IF Has(u, "postit") THEN {n \in notes : n.creator = u \/ n.public} ELSE {}

\* The first contact of the user; the first central one, which is nobody's; the
\* first that is public.
ContactsOf(u, contacts, central) ==
  IF ~Has(u, "phonebook") THEN {}
  ELSE IF \E c \in contacts : c.creator = u THEN {c \in contacts : c.creator = u}
  ELSE IF central THEN {} ELSE {c \in contacts : c.public}

getFilteredCallerIndentity(u, notes, contacts, central) ==
  NotesOf(u, notes) \cup ContactsOf(u, contacts, central)

-----------------------------------------------------------------------------
(* A streaming source, and a reload of authorization.                      *)

SessionsReached(u) == {s \in UntilGone : wsid[s] = u}

evtStreamingSourceSubscribed(u) ==
  /\ stream' = [named |-> TRUE, sockets |-> stream.sockets \cup SessionsReached(u)]
  /\ subscribers' = subscribers \cup {u}
  /\ UNCHANGED <<vars, policy, rooms, steady>>

\* A mistake: only the first session of the user leaves the room.
evtStreamingSourceUnsubscribedOnce(u) ==
  /\ LET reached == SelectSeq(keys, LAMBDA k : wsid[k] = u)
     IN  stream' = [stream EXCEPT !.sockets = @ \ {reached[i] : i \in DOMAIN reached \cap {1}}]
  /\ subscribers' = subscribers \ {u}
  /\ UNCHANGED <<vars, policy, rooms, steady>>

\* Nobody is in the room before somebody has subscribed.
evtStreamingSourceUnsubscribed(u) ==
  /\ stream' = [stream EXCEPT !.sockets = @ \ SessionsReached(u)]
  /\ subscribers' = subscribers \ {u}
  /\ UNCHANGED <<vars, policy, rooms, steady>>

\* One emit to the room for every key of wsid.
evtStreamingSourceChanged ==
  [s \in Sockets |-> IF stream.named /\ s \in stream.sockets THEN Len(keys) ELSE 0]

Reload ==
  /\ policy' \in Policies \ {policy} /\ steady' = {}
  /\ UNCHANGED <<vars, rooms, stream, subscribers>>

-----------------------------------------------------------------------------
NInit ==
  /\ Init
  /\ policy \in Policies /\ rooms = [s \in Sockets |-> {}]
  /\ stream = [named |-> FALSE, sockets |-> {}] /\ subscribers = {} /\ steady = {}

Logins ==
  \/ \E s \in Sockets, u \in Users, t \in Types :
       \/ /\ LoginAlone(s, u, t)
          /\ Joined({[id |-> 0, socket |-> s, username |-> u, uaType |-> t]})
       \/ LoginTakesOver(s, u, t) /\ NotLoggedIn
  \/ \E m \in Sockets : TakeOverAck(m) /\ Joined({x \in takeOvers : x.on = m /\ x.listening})
  \/ \E id \in 1..MaxTakeOvers : TimerFires(id) /\ Joined({x \in takeOvers : x.id = id})

Connections ==
  \E s \in Sockets : (WsConnHdlr(s) \/ LoginRefused(s) \/ DisconnHdlr(s)) /\ NotLoggedIn

Streams ==
  \E u \in Users : evtStreamingSourceSubscribed(u) \/ evtStreamingSourceUnsubscribed(u)

NNext == Logins \/ Connections \/ Streams \/ Reload

NSpec == NInit /\ [][NNext]_nvars

-----------------------------------------------------------------------------
(* Properties.                                                             *)

\* The rooms and the history are well typed, and nobody is in a room without
\* being there.
NTypeOK ==
  /\ TypeOK
  /\ policy \in Policies
  /\ rooms \in [Sockets -> SUBSET Rooms]
  /\ \A s \in Sockets : rooms[s] # {} => s \in sockets
  /\ stream.named \in BOOLEAN /\ stream.sockets \subseteq sockets
  /\ subscribers \subseteq Users /\ steady \subseteq Live

Heard(s, sent) == {f \in Forms : <<s, f>> \in sent}

\* A client that logged in once hears of queues and parkings exactly what its
\* user is allowed to, once, and in clear only without privacy (2296-2352), and
\* of alarms if it manages queues (899); the events of extensions are hidden as
\* its user's permissions are now (1357), and so are the notes and contacts a
\* call shows, but for an administrator of notes.
HeardAsAllowed ==
  \A s \in Sockets : s \in steady =>
    LET u == KeyUser[wsid[s]]
        Hidden == "privacy" \in policy[u]
        Queues == {"queues", "advanced_queues"} \cap policy[u]
    IN /\ \A sent \in {queueChanged, queueMemberChanged} :
            Heard(s, sent) = IF Queues = {} THEN {}
                             ELSE {IF Hidden /\ "advanced_queues" \notin Queues THEN "privacy" ELSE "clear"}
       /\ Heard(s, parkingChanged) = IF "parkings" \notin policy[u] THEN {}
                                     ELSE {IF Hidden THEN "privacy" ELSE "clear"}
       /\ \A f \in Heard(s, trunkChanged) : Hidden => f = "privacy"
       /\ s \in evtAlarm <=> "qmanager" \in policy[u]
       /\ \A e \in UNION {ExtensOf[v] : v \in Persons}, f \in Forms \cup {"queues"} :
            <<s, f>> \in extenChanged(e) /\ Hidden /\ f = "clear" => e \in ExtensOf[u]
       /\ \A things \in SUBSET Things, central \in BOOLEAN :
            \A x \in getFilteredCallerIndentity(u, things, {}, central) \cup
                     getFilteredCallerIndentity(u, {}, things, central) :
              x.creator = u \/ x.public \/ (Has(u, "ad_postit") /\ x \in NotesOf(u, things))

\* The images of a source are sent to no client whose user, if it logged in once,
\* has unsubscribed, and to nobody before a subscription (1228-1275).
FramesFollowSubscriptions ==
  \A s \in Sockets : evtStreamingSourceChanged[s] > 0 /\ s \in steady => wsid[s] \in subscribers
=============================================================================
