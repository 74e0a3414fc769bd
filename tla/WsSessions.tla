----------------------------- MODULE WsSessions -----------------------------
(***************************************************************************)
(* The websocket sessions of plugins/com_nethcti_ws/com_nethcti_ws.js:     *)
(* connection, login with the takeover of an older client of the same      *)
(* type, disconnection, and the two events that tell config_manager that   *)
(* a user is there or has gone.                                            *)
(*                                                                         *)
(* Every handler runs to its end in one turn of the event loop, so every   *)
(* handler is one action.  socket.io (3.1.2) never reuses a socket id, and *)
(* takes a socket out of sockets.sockets before it runs its 'disconnect'   *)
(* handler.                                                                *)
(***************************************************************************)
EXTENDS Naturals, Sequences, FiniteSets, SequencesExt

CONSTANTS
  Sockets,      \* socket ids
  CtiSockets,   \* those whose user-agent header is USER_AGENT
  Users,        \* usernames
  UaTypes,      \* USER_AGENT_TYPE
  NoUaType,     \* a login without uaType
  NoData,       \* no socket.nethcti, no entry of wsid
  MaxTakeOvers  \* bound: takeover procedures in a behaviour

ASSUME CtiAreSockets == CtiSockets \subseteq Sockets
ASSUME NoUaTypeIsNone == NoUaType \notin UaTypes
ASSUME NoDataIsNone ==
  /\ NoData \notin Users /\ NoData \notin Nat
  /\ NoData \notin [username : Users, uaType : UaTypes \cup {NoUaType}]
ASSUME MaxTakeOversIsNatural == MaxTakeOvers \in Nat

VARIABLES
  sockets,           \* keys of wsServer.sockets.sockets
  nethcti,           \* socket.nethcti of the connected sockets
  wsid,              \* socket id -> username of the session
  keys,              \* keys of wsid in the order of insertion
  takeOvers,         \* takeover procedures with a listener or a timer left
  present,           \* history: users whose last event is EVT_WS_CLIENT_LOGGEDIN
  waiting            \* history: sockets whose client waits for authe_ok or 401

vars == <<sockets, nethcti, wsid, keys, takeOvers, present, waiting>>

Types == UaTypes \cup {NoUaType}

\* One pass of the loop of loginHdlr: `on` is the socket taken over; socket,
\* username and uaType come from the login; `last` is what the variable sid holds
\* when the callbacks run: it is declared with var, so it is the last key of wsid.
\* `listening`: on has its takeOverAck listener; `timer`: the 8 s timer is pending;
\* `stored`: wsServer.takeOverTimeouts[on] is that timer.
TakeOver == [id : 1..MaxTakeOvers, on : Sockets, socket : Sockets, username : Users,
             uaType : UaTypes, last : Sockets,
             listening : BOOLEAN, timer : BOOLEAN, stored : BOOLEAN]

TypeOK ==
  /\ sockets \subseteq Sockets
  /\ nethcti \in [Sockets -> [username : Users, uaType : Types] \cup {NoData}]
  /\ wsid \in [Sockets -> Users \cup {NoData}]
  /\ keys \in Seq(Sockets) /\ ToSet(keys) = {s \in Sockets : wsid[s] # NoData}
  /\ takeOvers \subseteq TakeOver
  /\ present \subseteq Users
  /\ waiting \subseteq sockets

Init ==
  /\ sockets = {}
  /\ nethcti = [s \in Sockets |-> NoData]
  /\ wsid = [s \in Sockets |-> NoData]
  /\ keys = <<>>
  /\ takeOvers = {}
  /\ present = {}
  /\ waiting = {}

-----------------------------------------------------------------------------
\* drop the takeovers that nothing can complete any more
Alive(T) == {x \in T : x.listening \/ x.timer}

\* removeAllListeners('takeOverAck') on the sockets of S
Deafen(T, S) == {[x EXCEPT !.listening = @ /\ x.on \notin S] : x \in T}

\* clearTimeout(takeOverTimeouts[l]) for the l of S
Cleared(T, S) == {[x EXCEPT !.timer = @ /\ ~(x.stored /\ x.on \in S)] : x \in T}

\* takeOverTimeouts[l] is deleted, or becomes another timer, for the l of S
Forgotten(T, S) == {[x EXCEPT !.stored = @ /\ x.on \notin S] : x \in T}

\* the place of s in S, and the elements of S, in the order of the numbers num gives them
Place(S, num, s) == Cardinality({x \in S : num[x] <= num[s]})
InOrder(S, num) == [k \in 1..Cardinality(S) |-> CHOOSE s \in S : Place(S, num, s) = k]

\* mutant: whether the socket is connected or not
RecordedAnyway(L) == {x.socket : x \in L}

\* addWebsocketId: a session is recorded only for a socket that is connected
Recorded(L) == {x.socket : x \in L} \cap sockets

\* doLogin: of the logins of L, those on a socket, and the first and the last of them
LoginsOf(L, s) == {x \in L : x.socket = s}
First(L, s) == CHOOSE x \in LoginsOf(L, s) : \A y \in LoginsOf(L, s) : x.id <= y.id
Latest(L, s) == CHOOSE x \in LoginsOf(L, s) : \A y \in LoginsOf(L, s) : y.id <= x.id

\* the sockets that get an entry of wsid
NewSessions(L) == {s \in Recorded(L) : wsid[s] = NoData}

\* doLogin for every login of L, in the order of their numbers: the user counts as
\* present even when no session is recorded
DoLogins(L) ==
  /\ wsid' = [s \in Sockets |-> IF s \in Recorded(L) THEN Latest(L, s).username ELSE wsid[s]]
  /\ keys' = keys \o InOrder(NewSessions(L), [s \in NewSessions(L) |-> First(L, s).id])
  /\ nethcti' = [s \in Sockets |->
                   IF s \in Recorded(L)
                   THEN [username |-> Latest(L, s).username, uaType |-> Latest(L, s).uaType]
                   ELSE nethcti[s]]
  /\ present' = present \cup {x.username : x \in L}
  /\ waiting' = waiting \ Recorded(L)

\* disconnHdlr: the cti sockets of the user that are still connected
CtiCount(s, u) ==
  Cardinality({x \in CtiSockets \cap sockets : x # s /\ nethcti[x] # NoData /\ nethcti[x].username = u})

\* mutant: only the clients that are cti count
OnlyCti(s, u) == s \in CtiSockets /\ CtiCount(s, u) = 1

\* the condition of disconnHdlr for EVT_ALL_WS_CLIENT_DISCONNECTION
AllClosed(s, u) == CtiCount(s, u) = 0 \/ (s \in CtiSockets /\ CtiCount(s, u) = 1)

\* a socket leaves: socket.io forgets it, then disconnHdlr runs; its client can
\* no longer send takeOverAck
Leave(s) ==
  LET u == wsid[s]
  IN  /\ sockets' = sockets \ {s}
      /\ nethcti' = [nethcti EXCEPT ![s] = NoData]
      /\ present' = present \ (IF u # NoData /\ AllClosed(s, u) THEN {u} ELSE {})
      /\ wsid' = [wsid EXCEPT ![s] = NoData]
      /\ keys' = RemoveFirst(keys, s)
      /\ takeOvers' = Alive(Deafen(takeOvers, {s}))
      /\ waiting' = waiting \ {s}

-----------------------------------------------------------------------------
\* nothing in the process refers to a socket of this id
Unused(s) ==
  /\ s \notin sockets
  /\ \A x \in takeOvers : s \notin {x.on, x.socket, x.last}

\* wsConnHdlr; an id nothing refers to stands for a new one
WsConnHdlr(s) ==
  /\ Unused(s)
  /\ sockets' = sockets \cup {s}
  /\ UNCHANGED <<nethcti, wsid, keys, takeOvers, present, waiting>>

\* the older clients of the same user and type
Older(u, t) ==
  {s \in ToSet(keys) \cap sockets :
     t # NoUaType /\ nethcti[s] # NoData /\ nethcti[s].username = u /\ nethcti[s].uaType = t}

\* the place of s in the order of wsid, among the clients of S
PlaceInKeys(S, s) == Place(S, Inverse(keys, DOMAIN keys, ToSet(keys)), s)

\* loginHdlr, authentication failed: 401, then socket.disconnect()
LoginRefused(s) == s \in sockets /\ Leave(s)

\* loginHdlr, no older client: doLogin at once
LoginAlone(s, u, t) ==
  /\ s \in sockets /\ Older(u, t) = {}
  /\ DoLogins({[id |-> 0, socket |-> s, username |-> u, uaType |-> t]})
  /\ UNCHANGED <<sockets, takeOvers>>

\* loginHdlr, older clients: each is asked to leave, and gets a listener for its
\* answer and a timer of 8 seconds
LoginTakesOver(s, u, t) ==
  LET older == Older(u, t)
      top   == Max({x.id : x \in takeOvers} \cup {0})
  IN  /\ s \in sockets /\ older # {}
      /\ top + Cardinality(older) <= MaxTakeOvers
      /\ takeOvers' = Forgotten(takeOvers, older) \cup
           {[id |-> top + PlaceInKeys(older, o), on |-> o, socket |-> s, username |-> u, uaType |-> t,
             last |-> Last(keys), listening |-> TRUE, timer |-> TRUE, stored |-> TRUE] :
               o \in older}
      /\ waiting' = waiting \cup {s}
      /\ UNCHANGED <<sockets, nethcti, wsid, keys, present>>

\* 'takeOverAck' from the client of m: every listener of m runs; each one looks
\* up the timer and the listeners of its `last`, then logs its own login in
TakeOverAck(m) ==
  LET fired == {x \in takeOvers : x.on = m /\ x.listening}
      lasts == {x.last : x \in fired}
  IN  /\ m \in sockets /\ fired # {}
      /\ takeOvers' = Alive(Deafen(Forgotten(Cleared(takeOvers, lasts), lasts), lasts \cap sockets))
      /\ DoLogins(fired)
      /\ UNCHANGED sockets

\* the timer of the takeover x fires
TakeOverTimeout(x) ==
  /\ x \in takeOvers /\ x.timer
  /\ LET others == (takeOvers \ {x}) \cup {[x EXCEPT !.timer = FALSE, !.stored = FALSE]}
     IN  takeOvers' = Alive(Deafen(Forgotten(others, {x.last}), {x.last} \cap sockets))
  /\ DoLogins({x})
  /\ UNCHANGED sockets

\* disconnHdlr: the client closes, or its transport dies
DisconnHdlr(s) == s \in sockets /\ Leave(s)

TimerFires(id) == \E x \in takeOvers : x.id = id /\ TakeOverTimeout(x)

\* every step but the answers of the clients that are taken over
SilentNext ==
  \/ \E s \in Sockets : WsConnHdlr(s) \/ LoginRefused(s) \/ DisconnHdlr(s)
  \/ \E s \in Sockets, u \in Users, t \in Types : LoginAlone(s, u, t) \/ LoginTakesOver(s, u, t)
  \/ \E id \in 1..MaxTakeOvers : TimerFires(id)

Next == SilentNext \/ \E s \in Sockets : TakeOverAck(s)

Spec == Init /\ [][Next]_vars

\* the clients that are taken over never answer
SilentSpec == Init /\ [][SilentNext]_vars

-----------------------------------------------------------------------------
(* Properties. *)

Sessions(u) == {s \in Sockets : wsid[s] = u}

\* evtUserPresenceChanged, evtUserMainPresenceChanged and evtUserProfileAvatarChanged
\* (com_nethcti_ws.js:1108-1183) send to every key of wsid without asking whether
\* the socket is there: a single dead key would stop the broadcast for the others.
\* The user they filter on is the one disconnHdlr counts (2386-2393).
SessionsAreConnected ==
  \A s \in Sockets : wsid[s] # NoData =>
    s \in sockets /\ nethcti[s] # NoData /\ nethcti[s].username = wsid[s]

\* When the last session of a user ends, EVT_ALL_WS_CLIENT_DISCONNECTION is emitted
\* (2395-2402), so that config_manager can log the user out of the queues; a session
\* that becomes another user's by a new login on the same socket is not an end.
LastEndIsAnnounced ==
  [][\A u \in Users :
       Sessions(u) # {} /\ Sessions(u)' = {} /\ (\A s \in Sessions(u) : wsid'[s] = NoData)
         => u \notin present']_vars
=============================================================================
