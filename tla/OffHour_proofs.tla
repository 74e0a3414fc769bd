--------------------------- MODULE OffHour_proofs ---------------------------
(***************************************************************************)
(* Proofs about OffHour, for any users, permissions, routes and bounds and *)
(* any number of requests at once.                                         *)
(***************************************************************************)
EXTENDS OffHour, TLAPS

-----------------------------------------------------------------------------
(* The inductive invariant: the tables, what every request has found out,  *)
(* and that the file of an announcement being made belongs to one request. *)

Stage(api, stage) ==
  \/ api \in {"list", "record_announcement"} /\ stage = api
  \/ api = "upload_announcement" /\ stage \in {"convert", "check", "save"}
  \/ api = "enable_announcement" /\ stage \in {"move", "check", "save"}
  \/ api = "modify_announcement" /\ stage \in {"verify own", "find row", "update"}
  \/ api = "delete_announcement" /\ stage \in {"verify own", "find row", "delete"}
  \/ api = "listen_announcement" /\ stage \in {"verify listen", "content"}
  \/ api = "set_offhour"
     /\ stage \in {"verify audio", "verify route", "path", "find offhour", "store"}

Making(r) == r.stage \in {"check", "save"}
Held(r) == r.stage \in {"check", "save", "delete"}
PathOf(i) == announcements[i].path

RowsInv ==
  /\ given \in [announcements : Nat, offhours : Nat, files : Nat]
  /\ \A kind \in DOMAIN Most : given[kind] <= Most[kind]
  /\ DOMAIN announcements \subseteq 1..given.announcements
  /\ \A i \in DOMAIN announcements :
       announcements[i] \in Announcement /\ PathOf(i) <= given.files
  /\ \A i, j \in DOMAIN announcements :
       /\ PathOf(i) = PathOf(j) => i = j
       /\ /\ announcements[i].username = announcements[j].username
          /\ announcements[i].description = announcements[j].description
          => i = j
  /\ audio \cup recorded \cup unlinking \cup astray \subseteq 1..given.files

OffhoursInv ==
  /\ offhours \subseteq OffhourRow
  /\ \A o, p \in offhours : o.id = p.id => o = p
  /\ \A o \in offhours : o.id <= given.offhours

\* what the request brought
RequestTyped(r) ==
  /\ r \in Requests /\ Stage(r.api, r.stage)
  /\ r.api \in New \cup {"modify_announcement"} =>
       r.description \in Descriptions /\ r.privacy \in Privacies
  /\ r.api = "set_offhour" => r.route \in Routes

\* whose announcement it found
OwnerInv(r) ==
  /\ r.id # None => r.id <= given.announcements
  /\ r.stage \in {"find row", "update", "delete"} /\ r.id \in DOMAIN announcements =>
       announcements[r.id].username = r.user

\* that its user may configure the route
Entitled(u, route) ==
  \/ u \in adminOffhour
  \/ Direct[route] = u
  \/ u \in advancedOffhour /\ Direct[route] = None
RouteInv(r) == r.stage \in {"path", "find offhour", "store"} => Entitled(r.user, r.route)

\* the file it makes
MakingInv(r) ==
  Making(r) => /\ r.path \in audio \/ r.path \in astray
               /\ \A i \in DOMAIN announcements : PathOf(i) # r.path

\* the announcement it deletes, and what is left of it
DeletingInv(r) ==
  r.stage = "delete" =>
    /\ r.path \in 1..given.files /\ r.left # {}
    /\ \A i \in DOMAIN announcements : PathOf(i) = r.path <=> i = r.id
    /\ \/ "row" \in r.left \/ r.id \notin DOMAIN announcements
       \/ r.path \in astray /\ r.task # None
    /\ \/ "file" \in r.left \/ r.path \notin audio
       \/ r.path \in astray /\ r.task # None

RequestInv(r) ==
  RequestTyped(r) /\ OwnerInv(r) /\ RouteInv(r) /\ MakingInv(r) /\ DeletingInv(r)

FilesApart ==
  \A s, t \in Slots : Live(s) /\ Live(t) /\ Making(requests[s]) /\ Held(requests[t]) /\ s # t
                        => requests[s].path # requests[t].path

\* what is being removed: no announcement's and no request's
HeldPath(s, p) == Live(s) /\ Held(requests[s]) /\ requests[s].path = p
UnlinkingApart ==
  \A p \in unlinking : /\ \A i \in DOMAIN announcements : announcements[i].path # p
                       /\ \A s \in Slots : ~ HeldPath(s, p)

OInv ==
  /\ RowsInv /\ OffhoursInv
  /\ DOMAIN requests = Slots
  /\ \A s \in Slots : Live(s) => RequestInv(requests[s])
  /\ FilesApart /\ UnlinkingApart /\ FilesFollowRows

-----------------------------------------------------------------------------
(* What one request may do to the tables and to the other requests.        *)

OthersKept(s) == DOMAIN requests' = Slots /\ \A t \in Slots \ {s} : requests'[t] = requests[t]
Agree(p) == p \in audio <=> \E i \in DOMAIN announcements : announcements[i].path = p

Onwards(s) ==
  /\ given.announcements <= given'.announcements /\ given.files <= given'.files
  /\ \A i \in DOMAIN announcements' :
       \/ /\ i \in DOMAIN announcements
          /\ announcements'[i].username = announcements[i].username
          /\ announcements'[i].path = announcements[i].path
       \/ /\ i > given.announcements
          /\ Live(s) /\ Making(requests[s]) /\ announcements'[i].path = requests[s].path
  /\ \A i \in DOMAIN announcements \ DOMAIN announcements' : HeldPath(s, announcements[i].path)
  /\ astray \subseteq astray'
  /\ \A p \in audio' : p \in audio \/ p > given.files
  /\ \A p \in audio \ audio' : HeldPath(s, p) \/ p \in astray'
  /\ unlinking \subseteq unlinking'
  /\ \A p \in unlinking' : \/ p \in unlinking \/ p > given.files
                           \/ HeldPath(s, p) /\ Making(requests[s])

LEMMA IdsAreNumbers == Ids \subseteq Nat /\ Paths \subseteq Nat
<1>1. Most.announcements \in Nat /\ Most.files \in Nat BY MostAssumption
<1> QED BY <1>1 DEF Ids, Paths

LEMMA RequestFields ==
  ASSUME NEW r \in Requests
  PROVE  /\ r.api \in Apis /\ r.user \in Users /\ r.left \subseteq Parts
         /\ r.id \in Ids \cup {None} /\ r.path \in Paths \cup {None}
         /\ r.id # None => r.id \in Nat
         /\ r.path # None => r.path \in Nat
<1>1. /\ r.api \in Apis /\ r.user \in Users /\ r.left \subseteq Parts
      /\ r.id \in Ids \cup {None} /\ r.path \in Paths \cup {None}
  BY DEF Requests
<1> QED BY <1>1, IdsAreNumbers

LEMMA LiveIsRequest ==
  ASSUME OInv, NEW s \in Slots, Live(s)
  PROVE  RequestInv(requests[s]) /\ requests[s] \in Requests /\ s \in DOMAIN requests
BY DEF OInv, RequestInv, RequestTyped

LEMMA HeldPathsAreGiven ==
  ASSUME OInv, NEW t \in Slots, Live(t), Held(requests[t])
  PROVE  requests[t].path \in 1..given.files
<1>1. RequestInv(requests[t]) BY LiveIsRequest
<1> QED BY <1>1 DEF RequestInv, MakingInv, DeletingInv, Making, Held, OInv, RowsInv

(* The other requests keep what they know. *)
LEMMA OthersInv ==
  ASSUME OInv, NEW s \in Slots, Onwards(s), RowsInv',
         NEW t \in Slots, t # s, Live(t), requests'[t] = requests[t]
  PROVE  RequestInv(requests[t])'
<1> DEFINE r == requests[t]
<1>1. RequestInv(r) BY DEF OInv
<1>2. RequestTyped(r)' BY <1>1 DEF RequestInv, RequestTyped
<1>3. /\ \A i \in DOMAIN announcements : i \in Nat /\ i <= given.announcements
      /\ given.announcements \in Nat /\ given'.announcements \in Nat
      /\ given.files \in Nat /\ given'.files \in Nat
      /\ \A i \in DOMAIN announcements' : i \in Nat /\ i # None
  BY NoneAssumption DEF OInv, RowsInv
<1>4. r.id # None => r.id \in Nat /\ r.id <= given.announcements
  BY <1>1, RequestFields DEF RequestInv, RequestTyped, OwnerInv
<1>5. OwnerInv(r)'
  <2>1. r.id # None => r.id <= given'.announcements BY <1>3, <1>4 DEF Onwards
  <2>2. ASSUME r.id \in DOMAIN announcements', r.stage \in {"find row", "update", "delete"}
        PROVE  announcements'[r.id].username = r.user
    <3>1. r.id # None BY <1>3, <2>2
    <3>2. r.id \in Nat /\ ~(r.id > given.announcements) BY <1>3, <1>4, <3>1
    <3>3. r.id \in DOMAIN announcements /\ announcements'[r.id].username = announcements[r.id].username
      BY <2>2, <3>2 DEF Onwards
    <3> QED BY <1>1, <2>2, <3>3 DEF RequestInv, OwnerInv
  <2> QED BY <2>1, <2>2 DEF OwnerInv
<1>6. RouteInv(r)' BY <1>1 DEF RequestInv, RouteInv, Entitled
<1>7. \A i \in DOMAIN announcements' : Held(r) /\ announcements'[i].path = r.path =>
        i \in DOMAIN announcements /\ announcements[i].path = r.path
  <2>1. Held(r) /\ Live(s) /\ Making(requests[s]) => requests[s].path # r.path
    BY DEF OInv, FilesApart
  <2> QED BY <2>1 DEF Onwards
<1>8. Making(r) => Held(r) BY DEF Making, Held
<1>9. MakingInv(r)'
  <2> SUFFICES ASSUME Making(r)
               PROVE  /\ r.path \in audio' \/ r.path \in astray'
                      /\ \A i \in DOMAIN announcements' : announcements'[i].path # r.path
    BY DEF MakingInv, PathOf, Making
  <2>1. ~ HeldPath(s, r.path) BY DEF HeldPath, OInv, FilesApart
  <2>2. r.path \in audio \/ r.path \in astray BY <1>1 DEF RequestInv, MakingInv
  <2> QED BY <1>1, <1>7, <1>8, <2>1, <2>2 DEF Onwards, RequestInv, MakingInv, PathOf
<1>10. DeletingInv(r)'
  <2> SUFFICES ASSUME r.stage = "delete"
               PROVE  /\ r.path \in 1..given'.files /\ r.left # {}
                      /\ \A i \in DOMAIN announcements' : announcements'[i].path = r.path <=> i = r.id
                      /\ \/ "row" \in r.left \/ r.id \notin DOMAIN announcements'
                         \/ r.path \in astray' /\ r.task # None
                      /\ \/ "file" \in r.left \/ r.path \notin audio'
                         \/ r.path \in astray' /\ r.task # None
    BY DEF DeletingInv, PathOf
  <2>1. Held(r) BY DEF Held
  <2>2. /\ r.path \in 1..given.files /\ r.left # {}
        /\ \A i \in DOMAIN announcements : announcements[i].path = r.path <=> i = r.id
        /\ \/ "row" \in r.left \/ r.id \notin DOMAIN announcements
           \/ r.path \in astray /\ r.task # None
        /\ \/ "file" \in r.left \/ r.path \notin audio
           \/ r.path \in astray /\ r.task # None
    BY <1>1 DEF RequestInv, DeletingInv, PathOf
  <2>3. r.path \in 1..given'.files BY <1>3, <2>2 DEF Onwards
  <2>4. r.id \in DOMAIN announcements' => r.id \in DOMAIN announcements /\ announcements'[r.id].path = announcements[r.id].path
    <3> SUFFICES ASSUME r.id \in DOMAIN announcements'
                 PROVE  r.id \in DOMAIN announcements /\ announcements'[r.id].path = announcements[r.id].path
      OBVIOUS
    <3>1. r.id # None BY <1>3
    <3> QED BY <1>3, <1>4, <3>1 DEF Onwards
  <2>5. \A i \in DOMAIN announcements' : announcements'[i].path = r.path <=> i = r.id
    BY <1>7, <2>1, <2>2, <2>4
  <2>6. r.path \in audio' => r.path \in audio BY <1>3, <2>2 DEF Onwards
  <2> QED BY <2>2, <2>3, <2>4, <2>5, <2>6 DEF Onwards
<1> QED BY <1>2, <1>5, <1>6, <1>9, <1>10 DEF RequestInv

(* A step of one request that moves the tables onwards keeps the invariant. *)
LEMMA StepInv ==
  ASSUME OInv, NEW s \in Slots, OthersKept(s), Onwards(s), RowsInv', OffhoursInv',
         Live(s)' => RequestInv(requests[s])',
         \A t \in Slots \ {s} :
           Live(t) /\ Held(requests[t]) /\ Live(s)' /\ Held(requests'[s])
             /\ (Making(requests[t]) \/ Making(requests'[s]))
           => requests[t].path # requests'[s].path,
         \A p \in unlinking' : ~ HeldPath(s, p)',
         \A p \in unlinking' \ unlinking :
           \A i \in DOMAIN announcements' : announcements'[i].path # p,
         \A p \in Paths : HeldPath(s, p) \/ p \in audio' \ audio
           => Agree(p)' \/ HeldPath(s, p)' \/ p \in astray' \cup unlinking'
  PROVE  OInv'
<1>1. \A t \in Slots : Live(t)' => RequestInv(requests[t])'
  <2> TAKE t \in Slots
  <2>1. CASE t = s BY <2>1
  <2>2. CASE t # s
    <3>1. requests'[t] = requests[t] BY <2>2 DEF OthersKept
    <3>2. Live(t)' = Live(t) BY <3>1 DEF Live
    <3> QED BY <2>2, <3>1, <3>2, OthersInv
  <2> QED BY <2>1, <2>2
<1>2. FilesApart'
  <2> SUFFICES ASSUME NEW x \in Slots, NEW t \in Slots, Live(x)', Live(t)',
                      Making(requests'[x]), Held(requests'[t]), x # t
               PROVE  requests'[x].path # requests'[t].path
    BY DEF FilesApart, Making, Held
  <2>1. Making(requests'[x]) => Held(requests'[x]) BY DEF Making, Held
  <2>2. CASE x # s /\ t # s
    <3>1. requests'[x] = requests[x] /\ requests'[t] = requests[t] BY <2>2 DEF OthersKept
    <3>2. Live(x) /\ Live(t) BY <3>1 DEF Live
    <3> QED BY <3>1, <3>2 DEF OInv, FilesApart
  <2>3. CASE x = s
    <3>1. requests'[t] = requests[t] BY <2>3 DEF OthersKept
    <3>2. Live(t) BY <3>1 DEF Live
    <3> QED BY <2>1, <2>3, <3>1, <3>2
  <2>4. CASE t = s
    <3>1. requests'[x] = requests[x] BY <2>4 DEF OthersKept
    <3>2. Live(x) BY <3>1 DEF Live
    <3> QED BY <2>1, <2>4, <3>1, <3>2
  <2> QED BY <2>2, <2>3, <2>4
<1>3. UnlinkingApart'
  <2> SUFFICES ASSUME NEW p \in unlinking'
               PROVE  /\ \A i \in DOMAIN announcements' : announcements'[i].path # p
                      /\ \A t \in Slots \ {s} : ~ HeldPath(t, p)'
    BY DEF UnlinkingApart
  <2>1. \A t \in Slots \ {s} : HeldPath(t, p)' => HeldPath(t, p)
    BY DEF OthersKept, HeldPath, Live, Held
  <2>2. CASE p \in unlinking
    <3>1. /\ \A i \in DOMAIN announcements : announcements[i].path # p
          /\ \A t \in Slots : ~ HeldPath(t, p)
      BY <2>2 DEF OInv, UnlinkingApart
    <3>2. ASSUME NEW i \in DOMAIN announcements', announcements'[i].path = p
          PROVE  FALSE
      BY <3>1, <3>2 DEF Onwards, HeldPath, Making, Held
    <3> QED BY <2>1, <3>1, <3>2
  <2>3. CASE p \notin unlinking
    <3>1. ASSUME NEW t \in Slots \ {s}, HeldPath(t, p)
          PROVE  FALSE
      <4>1. p \in 1..given.files /\ given.files \in Nat
        BY <3>1, HeldPathsAreGiven DEF HeldPath, OInv, RowsInv
      <4>2. HeldPath(s, p) /\ Making(requests[s]) BY <2>3, <4>1 DEF Onwards
      <4> QED BY <3>1, <4>2 DEF OInv, FilesApart, HeldPath
    <3> QED BY <2>1, <2>3, <3>1
  <2> QED BY <2>2, <2>3
<1>4. FilesFollowRows'
  <2> SUFFICES ASSUME NEW p \in Paths
               PROVE  Agree(p)' \/ InHand(p)' \/ p \in astray' \/ p \in unlinking'
    BY <1>3 DEF FilesFollowRows, Agree, HasRow, UnlinkingApart
  <2>1. Agree(p) \/ InHand(p) \/ p \in astray \/ p \in unlinking
    BY DEF OInv, FilesFollowRows, Agree, HasRow
  <2>2. CASE p \in astray \/ p \in unlinking BY <2>2 DEF Onwards
  <2>3. CASE HeldPath(s, p) \/ p \in audio' \ audio
    <3>1. Agree(p)' \/ HeldPath(s, p)' \/ p \in astray' \cup unlinking' BY <2>3
    <3> QED BY <3>1 DEF HeldPath, InHand, Held
  <2>4. CASE InHand(p) /\ ~ HeldPath(s, p)
    <3>1. PICK t \in Slots : HeldPath(t, p) BY <2>4 DEF InHand, HeldPath, Held
    <3>2. t # s /\ requests'[t] = requests[t] BY <2>4, <3>1 DEF OthersKept
    <3>3. HeldPath(t, p)' BY <3>1, <3>2 DEF HeldPath, Live, Held
    <3> QED BY <3>3 DEF InHand, HeldPath, Held
  <2>5. CASE Agree(p) /\ ~ HeldPath(s, p) /\ p \notin audio' \ audio
    <3>1. (p \in audio' <=> p \in audio) \/ p \in astray' BY <2>5 DEF Onwards
    <3>2. (\E i \in DOMAIN announcements' : announcements'[i].path = p)
            <=> \E i \in DOMAIN announcements : announcements[i].path = p
      <4>1. ASSUME NEW i \in DOMAIN announcements', announcements'[i].path = p
            PROVE  i \in DOMAIN announcements /\ announcements[i].path = p
        BY <2>5, <4>1 DEF Onwards, HeldPath, Making, Held
      <4>2. ASSUME NEW i \in DOMAIN announcements, announcements[i].path = p
            PROVE  \E j \in DOMAIN announcements' : announcements'[j].path = p
        <5>1. i \in DOMAIN announcements' BY <2>5, <4>2 DEF Onwards
        <5>2. i \in Nat /\ ~(i > given.announcements) BY DEF OInv, RowsInv
        <5> QED BY <4>2, <5>1, <5>2 DEF Onwards
      <4> QED BY <4>1, <4>2
    <3> QED BY <2>5, <3>1, <3>2 DEF Agree
  <2> QED BY <2>1, <2>2, <2>3, <2>4, <2>5
<1> QED BY <1>1, <1>2, <1>3, <1>4 DEF OInv, OthersKept

(* A step on which the tables stay, of a request that holds no file before or after. *)
LEMMA QuietStepInv ==
  ASSUME OInv, NEW s \in Slots, OthersKept(s), UNCHANGED tables,
         ~ (Live(s) /\ Held(requests[s])),
         Live(s)' => RequestInv(requests[s])' /\ ~ Held(requests'[s])
  PROVE  OInv'
<1>1. UNCHANGED <<announcements, offhours, audio, recorded, given, unlinking, astray>> BY DEF tables
<1>2. RowsInv' BY <1>1 DEF OInv, RowsInv, PathOf
<1>3. OffhoursInv' BY <1>1 DEF OInv, OffhoursInv
<1>4. Onwards(s) BY <1>1 DEF Onwards, OInv, RowsInv
<1>5. \A p : ~ HeldPath(s, p) /\ ~ HeldPath(s, p)' BY DEF HeldPath, Held
<1> QED BY <1>1, <1>2, <1>3, <1>4, <1>5, StepInv

-----------------------------------------------------------------------------
(* What a callback changes of its request.                                 *)

Same(q, r) ==
  /\ q \in Requests
  /\ q.api = r.api /\ q.user = r.user /\ q.id = r.id /\ q.description = r.description
  /\ q.privacy = r.privacy /\ q.temp = r.temp /\ q.route = r.route /\ q.action = r.action

LEMMA StageChanged ==
  ASSUME NEW r \in Requests, NEW st \in Stages
  PROVE  LET q == [r EXCEPT !.stage = st]
         IN  Same(q, r) /\ q.stage = st /\ q.path = r.path /\ q.task = r.task /\ q.left = r.left
BY DEF Requests, Same

LEMMA GoOnChanges ==
  ASSUME OInv, NEW s \in Slots, Live(s), NEW st \in Stages, GoOn(s, st)
  PROVE  /\ OthersKept(s) /\ Live(s)' /\ Same(requests'[s], requests[s])
         /\ requests'[s].stage = st /\ requests'[s].path = requests[s].path
         /\ requests'[s].task = requests[s].task /\ requests'[s].left = requests[s].left
<1> DEFINE q == [requests[s] EXCEPT !.stage = st]
<1>1. requests' = [requests EXCEPT ![s] = q] BY DEF GoOn
<1>2. requests[s] \in Requests /\ s \in DOMAIN requests /\ DOMAIN requests = Slots
  BY LiveIsRequest DEF OInv
<1>3. Same(q, requests[s]) /\ q.stage = st /\ q.path = requests[s].path
      /\ q.task = requests[s].task /\ q.left = requests[s].left
  BY <1>2, StageChanged
<1> HIDE DEF q
<1>4. requests'[s] = q /\ OthersKept(s) BY <1>1, <1>2 DEF OthersKept
<1>5. q # None BY <1>3, NoneAssumption DEF Same
<1> QED BY <1>3, <1>4, <1>5 DEF Live

LEMMA AnswerChanges ==
  ASSUME OInv, NEW s \in Slots, NEW code, Answer(s, code)
  PROVE  OthersKept(s) /\ ~ Live(s)' /\ requests'[s] = None /\ answer' = code
BY DEF OInv, Answer, OthersKept, Live

(* What stays of what the request brought. *)
LEMMA MovedTyped ==
  ASSUME OInv, NEW s \in Slots, Live(s), Same(requests'[s], requests[s]),
         Stage(requests[s].api, requests'[s].stage)
  PROVE  RequestTyped(requests[s])'
<1>1. RequestTyped(requests[s]) BY LiveIsRequest DEF RequestInv
<1> QED BY <1>1 DEF RequestTyped, Same

LEMMA GoOnInv ==
  ASSUME OInv, NEW s \in Slots, Live(s), NEW st \in Stages, GoOn(s, st), UNCHANGED tables,
         ~ Held(requests[s]), Stage(requests[s].api, st),
         st \notin {"check", "save", "delete"},
         st \in {"find row", "update"} /\ requests[s].id \in DOMAIN announcements =>
           announcements[requests[s].id].username = requests[s].user,
         st \in {"path", "find offhour", "store"} =>
           Entitled(requests[s].user, requests[s].route)
  PROVE  OInv'
<1> DEFINE q == requests'[s]
<1>1. OthersKept(s) /\ Live(s)' /\ Same(q, requests[s]) /\ q.stage = st BY GoOnChanges
<1>2. UNCHANGED <<announcements, offhours, audio, recorded, given, unlinking, astray>> BY DEF tables
<1>3. RequestInv(requests[s]) BY LiveIsRequest
<1>4. RequestTyped(requests[s])' BY <1>1, MovedTyped
<1>5. OwnerInv(requests[s])' BY <1>1, <1>2, <1>3 DEF RequestInv, OwnerInv, Same
<1>6. RouteInv(requests[s])' BY <1>1 DEF RouteInv, Entitled, Same
<1>7. ~ Held(q) /\ ~ Making(q) /\ q.stage # "delete" BY <1>1 DEF Held, Making
<1>8. MakingInv(requests[s])' /\ DeletingInv(requests[s])'
  BY <1>7 DEF MakingInv, DeletingInv, Making
<1>9. RequestInv(requests[s])' BY <1>4, <1>5, <1>6, <1>8 DEF RequestInv
<1> QED BY <1>1, <1>7, <1>9, QuietStepInv

LEMMA AnswerInv ==
  ASSUME OInv, NEW s \in Slots, NEW code, Answer(s, code), UNCHANGED tables,
         ~ (Live(s) /\ Held(requests[s]))
  PROVE  OInv'
BY AnswerChanges, QuietStepInv

-----------------------------------------------------------------------------
(* The requests arrive and ask.                                            *)

LEMMA InputsAreRequests ==
  ASSUME OInv, NEW api \in Apis, NEW r \in Inputs(api)
  PROVE  /\ r \in Requests /\ r.api = api
         /\ api \in New \cup {"modify_announcement"} =>
              r.description \in Descriptions /\ r.privacy \in Privacies
         /\ api = "set_offhour" => r.route \in Routes
         /\ r.id # None => r.id <= given.announcements
<1>1. DOMAIN announcements \subseteq Ids /\ recorded \cup audio \subseteq Paths
      /\ \A i \in DOMAIN announcements : i <= given.announcements
  <2>1. Most.announcements \in Nat /\ Most.files \in Nat BY MostAssumption
  <2>2. /\ given.announcements \in Nat /\ given.files \in Nat
        /\ given.announcements <= Most.announcements /\ given.files <= Most.files
    BY MostAssumption DEF OInv, RowsInv
  <2>3. DOMAIN announcements \subseteq 1..given.announcements /\ recorded \cup audio \subseteq 1..given.files
    BY DEF OInv, RowsInv
  <2> QED BY <2>1, <2>2, <2>3 DEF Ids, Paths
<1>2. /\ r.id \in Ids \cup {None}
      /\ r.id # None => r.id \in DOMAIN announcements
      /\ r.description \in Descriptions \cup {None} /\ r.privacy \in Privacies \cup {None}
      /\ r.temp \in Paths \cup {None} /\ r.route \in Routes \cup {None}
      /\ r.action \in Actions \cup {None}
  BY <1>1 DEF Inputs, Among
<1>3. r \in [api : {api}, user : Users, stage : {""}, path : {None}, task : {None}, left : {{}},
             id : Ids \cup {None}, description : Descriptions \cup {None},
             privacy : Privacies \cup {None}, temp : Paths \cup {None},
             route : Routes \cup {None}, action : Actions \cup {None}]
  BY <1>2 DEF Inputs
<1>4. r \in Requests
  <2>1. r = [api |-> r.api, user |-> r.user, stage |-> r.stage, path |-> r.path,
             task |-> r.task, left |-> r.left, id |-> r.id, description |-> r.description,
             privacy |-> r.privacy, temp |-> r.temp, route |-> r.route, action |-> r.action]
    BY <1>3
  <2>2. /\ r.api = api /\ r.user \in Users /\ r.stage = "" /\ r.path = None /\ r.task = None
        /\ r.left = {}
    BY <1>3
  <2>3. r.api \in Apis /\ r.stage \in Stages BY <2>2 DEF Stages
  <2>4. r.left \in SUBSET Parts BY <2>2
  <2> QED BY <1>2, <2>1, <2>2, <2>3, <2>4 DEF Requests
<1>5. /\ api \in New \cup {"modify_announcement"} =>
              r.description \in Descriptions /\ r.privacy \in Privacies
      /\ api = "set_offhour" => r.route \in Routes
  BY DEF Inputs, Among
<1> QED BY <1>1, <1>2, <1>3, <1>4, <1>5

LEMMA FirstStages ==
  ASSUME NEW r \in Requests
  PROVE  /\ Stage(r.api, FirstStage(r)) /\ FirstStage(r) \in Stages
         /\ FirstStage(r) \notin {"check", "save", "delete", "find row", "update", "store"}
         /\ FirstStage(r) \in {"path", "find offhour"} => r.user \in adminOffhour
<1>1. r.api \in Apis BY DEF Requests
<1>2. CASE r.api \in {"list", "record_announcement"}
  <2>1. FirstStage(r) = r.api BY <1>2 DEF FirstStage
  <2> QED BY <1>2, <2>1 DEF Stage, Stages
<1>3. CASE r.api = "upload_announcement"
  <2>1. FirstStage(r) = "convert" BY <1>3 DEF FirstStage
  <2> QED BY <1>3, <2>1 DEF Stage, Stages
<1>4. CASE r.api = "enable_announcement"
  <2>1. FirstStage(r) = "move" BY <1>4 DEF FirstStage
  <2> QED BY <1>4, <2>1 DEF Stage, Stages
<1>5. CASE r.api \in {"modify_announcement", "delete_announcement"}
  <2>1. FirstStage(r) = "verify own" BY <1>5 DEF FirstStage
  <2> QED BY <1>5, <2>1 DEF Stage, Stages
<1>6. CASE r.api = "listen_announcement"
  <2>1. FirstStage(r) = IF r.user \in adminOffhour THEN "content" ELSE "verify listen"
    BY <1>6 DEF FirstStage
  <2> QED BY <1>6, <2>1 DEF Stage, Stages
<1>7. CASE r.api = "set_offhour"
  <2>1. FirstStage(r) = IF r.user \in adminOffhour THEN SetStage(r)
                        ELSE IF r.action \in AudioActions THEN "verify audio" ELSE "verify route"
    BY <1>7 DEF FirstStage
  <2> QED BY <1>7, <2>1 DEF SetStage, Stage, Stages
<1> QED BY <1>1, <1>2, <1>3, <1>4, <1>5, <1>6, <1>7 DEF Apis, OnAnnouncement, New

LEMMA ArriveInv ==
  ASSUME OInv, Arrive
  PROVE  OInv'
<1>1. PICK s \in Slots : ~ Live(s) /\ \E api \in Apis : \E r \in Inputs(api) :
         IF Permitted(r)
         THEN requests' = [requests EXCEPT ![s] = [r EXCEPT !.stage = FirstStage(r)]]
         ELSE UNCHANGED requests
  BY DEF Arrive
<1>2. UNCHANGED tables BY DEF Arrive
<1>3. PICK api \in Apis : \E r \in Inputs(api) :
         IF Permitted(r)
         THEN requests' = [requests EXCEPT ![s] = [r EXCEPT !.stage = FirstStage(r)]]
         ELSE UNCHANGED requests
  BY <1>1
<1>4. PICK r \in Inputs(api) :
         IF Permitted(r)
         THEN requests' = [requests EXCEPT ![s] = [r EXCEPT !.stage = FirstStage(r)]]
         ELSE UNCHANGED requests
  BY <1>3
<1>5. CASE ~ Permitted(r)
  <2>1. OthersKept(s) /\ ~ Live(s)' BY <1>1, <1>4, <1>5 DEF OthersKept, Live, OInv
  <2> QED BY <1>1, <1>2, <2>1, QuietStepInv
<1>6. CASE Permitted(r)
  <2> DEFINE q == [r EXCEPT !.stage = FirstStage(r)]
  <2>1. requests' = [requests EXCEPT ![s] = q] BY <1>4, <1>6
  <2>2. /\ r \in Requests /\ r.api = api
        /\ api \in New \cup {"modify_announcement"} =>
              r.description \in Descriptions /\ r.privacy \in Privacies
        /\ api = "set_offhour" => r.route \in Routes
        /\ r.id # None => r.id <= given.announcements
    BY InputsAreRequests
  <2>3. /\ Stage(r.api, FirstStage(r)) /\ FirstStage(r) \in Stages
        /\ FirstStage(r) \notin {"check", "save", "delete", "find row", "update", "store"}
        /\ FirstStage(r) \in {"path", "find offhour"} => r.user \in adminOffhour
    BY <2>2, FirstStages
  <2>4. Same(q, r) /\ q.stage = FirstStage(r) BY <2>2, <2>3, StageChanged
  <2> HIDE DEF q
  <2>5. OthersKept(s) /\ requests'[s] = q BY <2>1 DEF OthersKept, OInv
  <2>6. UNCHANGED <<announcements, offhours, audio, recorded, given, unlinking, astray>> BY <1>2 DEF tables
  <2>7. RequestTyped(requests[s])' BY <2>2, <2>3, <2>4, <2>5 DEF RequestTyped, Same
  <2>8. OwnerInv(requests[s])' BY <2>2, <2>3, <2>4, <2>5, <2>6 DEF OwnerInv, Same
  <2>9. RouteInv(requests[s])' BY <2>3, <2>4, <2>5 DEF RouteInv, Entitled, Same
  <2>10. ~ Held(q) /\ ~ Making(q) /\ q.stage # "delete" BY <2>3, <2>4 DEF Held, Making
  <2>11. MakingInv(requests[s])' /\ DeletingInv(requests[s])'
    BY <2>5, <2>10 DEF MakingInv, DeletingInv, Making
  <2>12. RequestInv(requests[s])' BY <2>7, <2>8, <2>9, <2>11 DEF RequestInv
  <2> QED BY <1>1, <1>2, <2>5, <2>10, <2>12, QuietStepInv
<1> QED BY <1>5, <1>6

(* What is known of the request whose callback runs. *)
LEMMA AtStage ==
  ASSUME OInv, NEW s \in Slots, Live(s)
  PROVE  /\ RequestInv(requests[s]) /\ requests[s] \in Requests
         /\ Stage(requests[s].api, requests[s].stage)
BY LiveIsRequest DEF RequestInv, RequestTyped

LEMMA VerifyInv ==
  ASSUME OInv, NEW s \in Slots, list(s) \/ VerifyListen(s) \/ listenAnnouncement(s) \/ VerifyOwn(s)
  PROVE  OInv'
<1> DEFINE r == requests[s]
<1>1. Live(s) /\ UNCHANGED tables
  BY DEF list, VerifyListen, listenAnnouncement, VerifyOwn, At
<1>2. Stage(r.api, r.stage) BY <1>1, AtStage
<1>3. CASE list(s)
  <2>1. Answer(s, 200) /\ ~ Held(r) BY <1>3 DEF list, At, Held
  <2> QED BY <1>1, <2>1, AnswerInv
<1>4. CASE VerifyListen(s)
  <2>1. r.stage = "verify listen" BY <1>4 DEF VerifyListen, At
  <2>2. Stage(r.api, "content") /\ ~ Held(r) /\ "content" \in Stages
    BY <1>2, <2>1 DEF Stage, Held, Stages
  <2>3. CASE GoOn(s, "content") BY <1>1, <2>2, <2>3, GoOnInv
  <2>4. CASE Answer(s, 403) BY <1>1, <2>2, <2>4, AnswerInv
  <2> QED BY <1>4, <2>3, <2>4 DEF VerifyListen
<1>5. CASE listenAnnouncement(s)
  <2>1. ~ Held(r) /\ \E code : Answer(s, code) BY <1>5 DEF listenAnnouncement, At, Held
  <2> QED BY <1>1, <2>1, AnswerInv
<1>6. CASE VerifyOwn(s)
  <2>1. r.stage = "verify own" BY <1>6 DEF VerifyOwn, At
  <2>2. Stage(r.api, "find row") /\ ~ Held(r) /\ "find row" \in Stages
    BY <1>2, <2>1 DEF Stage, Held, Stages
  <2>3. CASE verifyOffhourUserAnnouncement(r.user, r.id) /\ GoOn(s, "find row")
    <3>1. announcements[r.id].username = r.user BY <2>3 DEF verifyOffhourUserAnnouncement
    <3> QED BY <1>1, <2>2, <2>3, <3>1, GoOnInv
  <2>4. CASE Answer(s, 403) BY <1>1, <2>2, <2>4, AnswerInv
  <2> QED BY <1>6, <2>3, <2>4 DEF VerifyOwn
<1> QED BY <1>3, <1>4, <1>5, <1>6

LEMMA VerifiedIsEntitled ==
  ASSUME NEW u, NEW route, VerifiesRoute(u, route)
  PROVE  Entitled(u, route)
<1>1. CASE IsAdvanced(u)
  <2>1. route \in getAllInboundRoutes(u, "advanced")
    BY <1>1 DEF VerifiesRoute, verifyAdvancedInboundRouteOfUser
  <2>2. Direct[route] \in {None, u} BY <2>1 DEF getAllInboundRoutes
  <2> QED BY <1>1, <2>2 DEF Entitled, IsAdvanced
<1>2. CASE ~ IsAdvanced(u)
  <2>1. route \in getAllInboundRoutes(u, "basic")
    BY <1>2 DEF VerifiesRoute, verifyBasicInboundRouteOfUser
  <2> QED BY <2>1 DEF getAllInboundRoutes, Entitled
<1> QED BY <1>1, <1>2

LEMMA VerifySetInv ==
  ASSUME OInv, NEW s \in Slots, verifyAudioMessagePermission(s) \/ VerifyRoute(s)
  PROVE  OInv'
<1> DEFINE r == requests[s]
<1>1. Live(s) /\ UNCHANGED tables BY DEF verifyAudioMessagePermission, VerifyRoute, At
<1>2. Stage(r.api, r.stage) BY <1>1, AtStage
<1>3. CASE verifyAudioMessagePermission(s)
  <2>1. r.stage = "verify audio" BY <1>3 DEF verifyAudioMessagePermission, At
  <2>2. Stage(r.api, "verify route") /\ ~ Held(r) /\ "verify route" \in Stages
    BY <1>2, <2>1 DEF Stage, Held, Stages
  <2>3. CASE GoOn(s, "verify route") BY <1>1, <2>2, <2>3, GoOnInv
  <2>4. CASE Answer(s, 403) BY <1>1, <2>2, <2>4, AnswerInv
  <2> QED BY <1>3, <2>3, <2>4 DEF verifyAudioMessagePermission
<1>4. CASE VerifyRoute(s)
  <2>1. r.stage = "verify route" BY <1>4 DEF VerifyRoute, At
  <2> DEFINE st == SetStage(r)
  <2>2. st \in {"path", "find offhour"} BY DEF SetStage
  <2>3. Stage(r.api, st) /\ ~ Held(r) /\ st \in Stages
    BY <1>2, <2>1, <2>2 DEF Stage, Held, Stages
  <2>4. CASE VerifiesRoute(r.user, r.route) /\ GoOn(s, st)
    <3>1. Entitled(r.user, r.route) BY <2>4, VerifiedIsEntitled
    <3> QED BY <1>1, <2>2, <2>3, <2>4, <3>1, GoOnInv
  <2>5. CASE Answer(s, 403) BY <1>1, <2>3, <2>5, AnswerInv
  <2> QED BY <1>4, <2>4, <2>5 DEF VerifyRoute
<1> QED BY <1>3, <1>4

(* A request that learns a path or an off-hour. *)
LEMMA RequestReplaced ==
  ASSUME OInv, NEW s \in Slots, Live(s), NEW q \in Requests, requests' = [requests EXCEPT ![s] = q]
  PROVE  OthersKept(s) /\ Live(s)' /\ requests'[s] = q
<1>1. q # None BY NoneAssumption
<1> QED BY <1>1 DEF OthersKept, Live, OInv

LEMMA SetOffhourInv ==
  ASSUME OInv, NEW s \in Slots, setOffhour(s)
  PROVE  OInv'
<1> DEFINE r == requests[s]
<1>1. Live(s) /\ UNCHANGED tables /\ r.stage \in {"path", "find offhour"} BY DEF setOffhour, At
<1>2. RequestInv(r) /\ r \in Requests /\ Stage(r.api, r.stage) BY <1>1, AtStage
<1>3. ~ Held(r) /\ r.api = "set_offhour" BY <1>1, <1>2 DEF Held, Stage
<1>4. CASE Answer(s, 500) BY <1>1, <1>3, <1>4, AnswerInv
<1>5. ASSUME NEW q, requests' = [requests EXCEPT ![s] = q], Same(q, r),
             q.stage \in {"find offhour", "store"}
      PROVE  OInv'
  <2>1. q \in Requests BY <1>5 DEF Same
  <2>2. OthersKept(s) /\ Live(s)' /\ requests'[s] = q BY <1>1, <1>5, <2>1, RequestReplaced
  <2>3. UNCHANGED <<announcements, offhours, audio, recorded, given, unlinking, astray>> BY <1>1 DEF tables
  <2>4. Stage(r.api, q.stage) BY <1>3, <1>5 DEF Stage
  <2>5. RequestTyped(requests[s])' BY <1>1, <1>5, <2>2, <2>4, MovedTyped
  <2>6. OwnerInv(requests[s])' BY <1>2, <1>5, <2>2, <2>3 DEF RequestInv, OwnerInv, Same
  <2>7. RouteInv(requests[s])' BY <1>1, <1>2, <1>5, <2>2 DEF RequestInv, RouteInv, Entitled, Same
  <2>8. ~ Held(q) /\ ~ Making(q) /\ q.stage # "delete" BY <1>5 DEF Held, Making
  <2>9. MakingInv(requests[s])' /\ DeletingInv(requests[s])'
    BY <2>2, <2>8 DEF MakingInv, DeletingInv, Making
  <2> QED BY <1>1, <1>3, <2>2, <2>5, <2>6, <2>7, <2>8, <2>9, QuietStepInv DEF RequestInv
<1>6. CASE r.stage = "path" /\ r.id \in DOMAIN announcements
  <2> DEFINE p == announcements[r.id].path
             q == [r EXCEPT !.path = p, !.stage = "find offhour"]
  <2>1. requests' = [requests EXCEPT ![s] = q] BY <1>6 DEF setOffhour, At
  <2>2. p \in Paths /\ "find offhour" \in Stages
    BY <1>6 DEF OInv, RowsInv, Announcement, Stages
  <2>3. Same(q, r) /\ q.stage = "find offhour" BY <1>2, <2>2 DEF Requests, Same
  <2> HIDE DEF q
  <2> QED BY <1>5, <2>1, <2>3
<1>7. CASE r.stage = "find offhour"
  <2> DEFINE found == {o \in offhours : o.route = r.route}
             tasks == IF found = {} THEN {0} ELSE {o.id : o \in found}
  <2>1. \E task \in tasks : requests' = [requests EXCEPT ![s].task = task, ![s].stage = "store"]
    <3>1. ~ At(s, "path") BY <1>7 DEF At
    <3> QED BY <3>1 DEF setOffhour
  <2>2. tasks \subseteq Nat /\ "store" \in Stages
    <3>1. 1..Most.offhours \subseteq Nat BY MostAssumption
    <3>2. \A o \in OffhourRow : o.id \in 1..Most.offhours BY DEF OffhourRow
    <3>3. found \subseteq OffhourRow BY DEF OInv, OffhoursInv
    <3> HIDE DEF found
    <3>4. \A o \in found : o.id \in Nat BY <3>1, <3>2, <3>3
    <3> QED BY <3>4 DEF Stages
  <2> HIDE DEF tasks
  <2>3. PICK task \in tasks :
          requests' = [requests EXCEPT ![s].task = task, ![s].stage = "store"]
    BY <2>1
  <2> DEFINE q == [r EXCEPT !.task = task, !.stage = "store"]
  <2>5. requests' = [requests EXCEPT ![s] = q] BY <2>3
  <2>6. r \in Requests BY <1>2
  <2>7. task \in Nat /\ "store" \in Stages BY <2>2
  <2> HIDE DEF found, r
  <2>8. q \in Requests BY <2>6, <2>7 DEF Requests
  <2>9. /\ q.api = r.api /\ q.user = r.user /\ q.id = r.id /\ q.description = r.description
        /\ q.privacy = r.privacy /\ q.temp = r.temp /\ q.route = r.route /\ q.action = r.action
        /\ q.stage = "store"
    BY <2>6 DEF Requests
  <2>4. Same(q, r) /\ q.stage = "store" BY <2>8, <2>9 DEF Same
  <2> HIDE DEF q
  <2> QED BY <1>5, <2>4, <2>5
<1> QED BY <1>4, <1>6, <1>7 DEF setOffhour, At

(* A step that adds at most a temporary file, or nothing, and ends its request. *)
LEMMA RecordInv ==
  ASSUME OInv, NEW s \in Slots, recordAnnouncement(s)
  PROVE  OInv'
<1>1. /\ Live(s) /\ requests[s].stage = "record_announcement"
      /\ given' = [given EXCEPT !.files = @ + 1] /\ given.files < Most.files
      /\ UNCHANGED <<announcements, offhours, audio, unlinking, astray>>
  BY DEF recordAnnouncement, At
<1>2. \E code : Answer(s, code) BY DEF recordAnnouncement
<1>3. OthersKept(s) /\ ~ Live(s)' BY <1>2, AnswerChanges
<1>4. /\ given'.announcements = given.announcements /\ given'.offhours = given.offhours
      /\ given'.files = given.files + 1 /\ given.files \in Nat /\ given.announcements \in Nat
      /\ given' \in [announcements : Nat, offhours : Nat, files : Nat]
  BY <1>1 DEF OInv, RowsInv
<1>5. RowsInv'
  <2>1. \A kind \in DOMAIN Most : given'[kind] <= Most[kind]
    BY <1>1, <1>4, MostAssumption DEF OInv, RowsInv
  <2>2. \A i \in DOMAIN announcements : PathOf(i) \in Nat /\ PathOf(i) <= given.files
    BY IdsAreNumbers DEF OInv, RowsInv, Announcement, PathOf
  <2>3. audio \cup recorded \cup unlinking \cup astray \subseteq 1..given.files BY DEF OInv, RowsInv
  <2>4. recorded' \subseteq recorded \cup {given.files + 1} BY DEF recordAnnouncement
  <2>5. audio' \cup recorded' \cup unlinking' \cup astray' \subseteq 1..given'.files
    BY <1>1, <1>4, <2>3, <2>4
  <2>6. \A i \in DOMAIN announcements :
          announcements[i] \in Announcement /\ PathOf(i) <= given.files + 1
    BY <1>4, <2>2 DEF OInv, RowsInv
  <2> QED BY <1>1, <1>4, <2>1, <2>5, <2>6 DEF OInv, RowsInv, PathOf
<1>6. OffhoursInv' BY <1>1, <1>4 DEF OInv, OffhoursInv
<1>7. Onwards(s) BY <1>1, <1>4 DEF Onwards
<1>8. \A p : ~ HeldPath(s, p) /\ ~ HeldPath(s, p)' BY <1>1, <1>3 DEF HeldPath, Held
<1> QED BY <1>1, <1>3, <1>5, <1>6, <1>7, <1>8, StepInv

(* Files are made, after the ones there are. *)
LEMMA MakeFilesChanges ==
  ASSUME OInv, NEW n \in 1..2, MakeFiles(n)
  PROVE  /\ given'.announcements = given.announcements /\ given'.offhours = given.offhours
         /\ given'.files = given.files + n /\ given.files \in Nat /\ given.announcements \in Nat
         /\ given' \in [announcements : Nat, offhours : Nat, files : Nat]
         /\ \A kind \in DOMAIN Most : given'[kind] <= Most[kind]
         /\ given.files + 1 \in Paths
         /\ Made(n) \subseteq 1..given'.files /\ given.files + 1 \in Made(n)
         /\ \A p \in Made(n) : p > given.files
<1>1. given' = [given EXCEPT !.files = @ + n] /\ given.files + n <= Most.files BY DEF MakeFiles
<1>2. /\ given'.announcements = given.announcements /\ given'.offhours = given.offhours
      /\ given'.files = given.files + n /\ given.files \in Nat /\ given.announcements \in Nat
      /\ given' \in [announcements : Nat, offhours : Nat, files : Nat]
  BY <1>1 DEF OInv, RowsInv
<1>3. \A kind \in DOMAIN Most : given'[kind] <= Most[kind]
  BY <1>1, <1>2, MostAssumption DEF OInv, RowsInv
<1>4. given.files + 1 \in Paths BY <1>1, <1>2, MostAssumption DEF Paths
<1>5. /\ Made(n) \subseteq 1..given'.files /\ given.files + 1 \in Made(n)
      /\ \A p \in Made(n) : p > given.files
  BY <1>2 DEF Made
<1> QED BY <1>2, <1>3, <1>4, <1>5

(* Then the tables are whole still. *)
LEMMA MadeRows ==
  ASSUME OInv, NEW n \in 1..2, MakeFiles(n), UNCHANGED announcements,
         recorded' \subseteq recorded, audio' \subseteq audio \cup Made(n),
         unlinking' \subseteq unlinking \cup Made(n), astray' \subseteq astray \cup audio \cup Made(n)
  PROVE  RowsInv'
<1>1. /\ given.files \in Nat /\ given'.files = given.files + n
      /\ given'.announcements = given.announcements /\ Made(n) \subseteq 1..given'.files
      /\ given' \in [announcements : Nat, offhours : Nat, files : Nat]
      /\ \A kind \in DOMAIN Most : given'[kind] <= Most[kind]
  BY MakeFilesChanges
<1>2. audio \cup recorded \cup unlinking \cup astray \subseteq 1..given.files BY DEF OInv, RowsInv
<1>3. 1..given.files \subseteq 1..given'.files BY <1>1
<1>4. audio' \cup recorded' \cup unlinking' \cup astray' \subseteq 1..given'.files
  BY <1>1, <1>2, <1>3
<1>5. \A i \in DOMAIN announcements : PathOf(i) \in Nat /\ PathOf(i) <= given.files
  BY IdsAreNumbers DEF OInv, RowsInv, Announcement, PathOf
<1>6. \A i \in DOMAIN announcements :
        announcements[i] \in Announcement /\ PathOf(i) <= given'.files
  BY <1>1, <1>5 DEF OInv, RowsInv
<1> QED BY <1>1, <1>4, <1>6 DEF OInv, RowsInv, PathOf

LEMMA NewFileInv ==
  ASSUME OInv, NEW s \in Slots, NEW stage \in {"convert", "move"}, At(s, stage),
         NEW n \in 1..2, NewFile(s, n), NEW gone,
         recorded' \subseteq recorded, audio' = (audio \ gone) \cup Made(n),
         astray' = astray \cup (gone \cap audio), unlinking' = unlinking \cup (Made(n) \ Made(1))
  PROVE  OInv'
<1> DEFINE r == requests[s]
           f == given.files + 1
           q == [r EXCEPT !.path = f, !.stage = "check"]
<1>1. /\ Live(s) /\ r.stage = stage /\ MakeFiles(n) /\ UNCHANGED <<announcements, offhours>>
  BY DEF NewFile, At
<1>2. RequestInv(r) /\ r \in Requests /\ Stage(r.api, r.stage) BY <1>1, AtStage
<1>3. /\ given'.announcements = given.announcements /\ given'.offhours = given.offhours
      /\ given'.files = given.files + n /\ given.files \in Nat /\ given.announcements \in Nat
      /\ f \in Paths /\ f \in Made(n) /\ f \notin Made(n) \ Made(1)
      /\ \A p \in Made(n) : p > given.files
  BY <1>1, MakeFilesChanges DEF Made
<1>4. "check" \in Stages BY DEF Stages
<1>5. Same(q, r) /\ q.stage = "check" /\ q.path = f BY <1>2, <1>3, <1>4 DEF Requests, Same
<1>6. requests' = [requests EXCEPT ![s] = q] BY DEF NewFile
<1> HIDE DEF q
<1>7. OthersKept(s) /\ Live(s)' /\ requests'[s] = q
  BY <1>1, <1>5, <1>6, RequestReplaced DEF Same
<1>8. \A i \in DOMAIN announcements : PathOf(i) \in Nat /\ PathOf(i) <= given.files
  BY IdsAreNumbers DEF OInv, RowsInv, Announcement, PathOf
<1>9. RowsInv' BY <1>1, MadeRows
<1>10. OffhoursInv' BY <1>1, <1>3 DEF OInv, OffhoursInv
<1>11. Onwards(s) BY <1>1, <1>3 DEF Onwards
<1>12. RequestInv(requests[s])'
  <2>1. Stage(r.api, "check") BY <1>1, <1>2 DEF Stage
  <2>2. RequestTyped(requests[s])' BY <1>1, <1>5, <1>7, <2>1, MovedTyped
  <2>3. OwnerInv(requests[s])' BY <1>1, <1>2, <1>3, <1>5, <1>7 DEF RequestInv, OwnerInv, Same
  <2>4. RouteInv(requests[s])' /\ DeletingInv(requests[s])'
    BY <1>5, <1>7 DEF RouteInv, DeletingInv
  <2>5. \A i \in DOMAIN announcements : PathOf(i) # f BY <1>3, <1>8
  <2>6. MakingInv(requests[s])' BY <1>1, <1>3, <1>5, <1>7, <2>5 DEF MakingInv, PathOf
  <2> QED BY <2>2, <2>3, <2>4, <2>6 DEF RequestInv
<1>13. \A t \in Slots : Live(t) /\ Held(requests[t]) => requests[t].path # f
  BY <1>3, HeldPathsAreGiven
<1>14. \A p : ~ HeldPath(s, p) BY <1>1 DEF HeldPath, Held
<1>15. unlinking \subseteq 1..given.files BY DEF OInv, RowsInv
<1>16. \A p \in unlinking' : ~ HeldPath(s, p)'
  BY <1>3, <1>5, <1>7, <1>15 DEF HeldPath
<1>17. \A p \in unlinking' \ unlinking : \A i \in DOMAIN announcements' : announcements'[i].path # p
  BY <1>1, <1>3, <1>8 DEF PathOf
<1>18. \A p \in audio' \ audio : HeldPath(s, p)' \/ p \in unlinking'
  <2>1. Made(1) = {f} BY <1>3 DEF Made
  <2> QED BY <1>5, <1>7, <2>1 DEF HeldPath, Held
<1> QED BY <1>5, <1>7, <1>9, <1>10, <1>11, <1>12, <1>13, <1>14, <1>16, <1>17, <1>18, StepInv

(* The file of an upload that is not answered well. *)
LEMMA StoreMp3Inv ==
  ASSUME OInv, NEW s \in Slots, storeMp3Announcement(s)
  PROVE  OInv'
<1>1. Live(s) /\ ~ Held(requests[s]) BY DEF storeMp3Announcement, At, Held
<1>2. CASE Answer(s, 500) /\ UNCHANGED tables BY <1>1, <1>2, AnswerInv
<1>3. CASE /\ MakeFiles(1) /\ audio' = audio \cup Made(1)
           /\ \/ unlinking' = unlinking \cup Made(1) /\ UNCHANGED astray
              \/ astray' = astray \cup Made(1) /\ UNCHANGED unlinking
           /\ \E code : Answer(s, code)
           /\ UNCHANGED <<announcements, offhours, recorded>>
  <2>1. OthersKept(s) /\ ~ Live(s)' BY <1>3, AnswerChanges
  <2>2. /\ given'.announcements = given.announcements /\ given'.offhours = given.offhours
        /\ given'.files = given.files + 1 /\ given.files \in Nat /\ given.announcements \in Nat
        /\ \A p \in Made(1) : p > given.files
    BY <1>3, MakeFilesChanges
  <2>3. RowsInv' BY <1>3, MadeRows
  <2>4. OffhoursInv' BY <1>3, <2>2 DEF OInv, OffhoursInv
  <2>5. Onwards(s) BY <1>3, <2>2 DEF Onwards
  <2>6. \A p : ~ HeldPath(s, p) /\ ~ HeldPath(s, p)' BY <1>1, <2>1 DEF HeldPath
  <2>7. \A i \in DOMAIN announcements : PathOf(i) \in Nat /\ PathOf(i) <= given.files
    BY IdsAreNumbers DEF OInv, RowsInv, Announcement, PathOf
  <2>8. \A p \in unlinking' \ unlinking : \A i \in DOMAIN announcements' : announcements'[i].path # p
    BY <1>3, <2>2, <2>7 DEF PathOf
  <2>9. \A p \in audio' \ audio : p \in astray' \cup unlinking' BY <1>3
  <2> QED BY <2>1, <2>3, <2>4, <2>5, <2>6, <2>8, <2>9, StepInv
<1> QED BY <1>2, <1>3 DEF storeMp3Announcement, Drop

LEMMA MakeInv ==
  ASSUME OInv, NEW s \in Slots,
         storeWavAnnouncement(s) \/ enableAnnouncement(s) \/ storeMp3Announcement(s)
  PROVE  OInv'
<1>1. CASE storeWavAnnouncement(s)
  <2>1. At(s, "convert") /\ UNCHANGED <<recorded, astray>> BY <1>1 DEF storeWavAnnouncement
  <2>2. PICK n \in 1..2 : /\ NewFile(s, n) /\ audio' = audio \cup Made(n)
                          /\ unlinking' = unlinking \cup (Made(n) \ Made(1))
    BY <1>1 DEF storeWavAnnouncement
  <2>3. audio' = (audio \ {}) \cup Made(n) /\ astray' = astray \cup ({} \cap audio)
    BY <2>1, <2>2
  <2> QED BY <2>1, <2>2, <2>3, NewFileInv
<1>2. CASE enableAnnouncement(s)
  <2> DEFINE temp == requests[s].temp
  <2>1. At(s, "move") BY <1>2 DEF enableAnnouncement
  <2>2. CASE /\ NewFile(s, 1) /\ recorded' = recorded \ {temp}
             /\ audio' = (audio \ {temp}) \cup Made(1)
             /\ astray' = astray \cup ({temp} \cap audio) /\ UNCHANGED unlinking
    <3>1. unlinking' = unlinking \cup (Made(1) \ Made(1)) BY <2>2
    <3>2. 1 \in 1..2 OBVIOUS
    <3> QED BY <2>1, <2>2, <3>1, <3>2, NewFileInv
  <2>3. CASE Answer(s, 500) /\ UNCHANGED tables
    <3>1. ~ Held(requests[s]) BY <2>1 DEF At, Held
    <3> QED BY <2>3, <3>1, AnswerInv
  <2> QED BY <1>2, <2>2, <2>3 DEF enableAnnouncement
<1>3. CASE storeMp3Announcement(s) BY <1>3, StoreMp3Inv
<1> QED BY <1>1, <1>2, <1>3

-----------------------------------------------------------------------------
(* An announcement is made of a file, or the file goes.                    *)

LEMMA FailedInv ==
  ASSUME OInv, NEW s \in Slots, Live(s), Making(requests[s]), Failed(s),
         UNCHANGED <<offhours, audio, recorded, astray>>
  PROVE  OInv'
<1> DEFINE r == requests[s]
<1>1. OthersKept(s) /\ ~ Live(s)' BY AnswerChanges DEF Failed
<1>2. /\ unlinking' = unlinking \cup {r.path}
      /\ UNCHANGED <<announcements, offhours, audio, recorded, given, astray>>
  BY DEF Failed
<1>3. HeldPath(s, r.path) BY DEF HeldPath, Making, Held
<1>4. RowsInv'
  <2>1. r.path \in 1..given.files BY <1>3, HeldPathsAreGiven DEF HeldPath
  <2>2. audio' \cup recorded' \cup unlinking' \cup astray' \subseteq 1..given'.files
    BY <1>2, <2>1 DEF OInv, RowsInv
  <2> QED BY <1>2, <2>2 DEF OInv, RowsInv, PathOf
<1>5. OffhoursInv' BY <1>2 DEF OInv, OffhoursInv
<1>6. Onwards(s) BY <1>2, <1>3 DEF Onwards, OInv, RowsInv
<1>7. RequestInv(r) BY LiveIsRequest
<1>8. \A i \in DOMAIN announcements : announcements[i].path # r.path
  BY <1>7 DEF RequestInv, MakingInv, PathOf
<1>9. \A p : HeldPath(s, p) => p = r.path BY DEF HeldPath
<1>10. \A p : ~ HeldPath(s, p)' BY <1>1 DEF HeldPath
<1>11. \A p \in unlinking' \ unlinking : \A i \in DOMAIN announcements' : announcements'[i].path # p
  BY <1>2, <1>8
<1> QED BY <1>1, <1>2, <1>4, <1>5, <1>6, <1>9, <1>10, <1>11, StepInv

LEMMA CheckInv ==
  ASSUME OInv, NEW s \in Slots, At(s, "check"), GoOn(s, "save"), UNCHANGED tables
  PROVE  OInv'
<1> DEFINE r == requests[s]
           q == requests'[s]
<1>1. Live(s) /\ r.stage = "check" /\ "save" \in Stages BY DEF At, Stages
<1>2. RequestInv(r) /\ Stage(r.api, r.stage) BY <1>1, AtStage
<1>3. OthersKept(s) /\ Live(s)' /\ Same(q, r) /\ q.stage = "save" /\ q.path = r.path
  BY <1>1, GoOnChanges
<1>4. UNCHANGED <<announcements, offhours, audio, recorded, given, unlinking, astray>> BY DEF tables
<1>5. RowsInv' BY <1>4 DEF OInv, RowsInv, PathOf
<1>6. OffhoursInv' BY <1>4 DEF OInv, OffhoursInv
<1>7. Onwards(s) BY <1>4 DEF Onwards, OInv, RowsInv
<1>8. RequestInv(requests[s])'
  <2>1. Stage(r.api, "save") BY <1>1, <1>2 DEF Stage
  <2>2. RequestTyped(requests[s])' BY <1>1, <1>3, <2>1, MovedTyped
  <2>3. OwnerInv(requests[s])' BY <1>2, <1>3, <1>4 DEF RequestInv, OwnerInv, Same
  <2>4. RouteInv(requests[s])' /\ DeletingInv(requests[s])' BY <1>3 DEF RouteInv, DeletingInv
  <2>5. MakingInv(requests[s])'
    BY <1>1, <1>2, <1>3, <1>4 DEF RequestInv, MakingInv, PathOf, Making
  <2> QED BY <2>2, <2>3, <2>4, <2>5 DEF RequestInv
<1>9. Making(r) /\ Held(r) /\ Held(q) BY <1>1, <1>3 DEF Making, Held
<1>10. \A p : HeldPath(s, p) => HeldPath(s, p)' BY <1>3, <1>9 DEF HeldPath
<1>11. \A t \in Slots \ {s} : Live(t) /\ Held(requests[t]) => requests[t].path # q.path
  BY <1>1, <1>3, <1>9 DEF OInv, FilesApart
<1>12. \A p \in unlinking : ~ HeldPath(s, p)'
  BY <1>1, <1>3, <1>9 DEF OInv, UnlinkingApart, HeldPath
<1> QED BY <1>3, <1>4, <1>5, <1>6, <1>7, <1>8, <1>10, <1>11, <1>12, StepInv

LEMMA SaveInv ==
  ASSUME OInv, NEW s \in Slots, At(s, "save"), storeAudioFileAnnouncement(s),
         SameDescription(requests[s]) = {}
  PROVE  OInv'
<1> DEFINE r == requests[s]
           n == given.announcements + 1
           row == [username |-> r.user, description |-> r.description,
                   privacy |-> r.privacy, path |-> r.path]
<1>1. Live(s) /\ r.stage = "save" /\ Making(r) /\ Held(r) BY DEF At, Making, Held
<1>2. RequestInv(r) /\ r \in Requests /\ Stage(r.api, r.stage) BY <1>1, AtStage
<1>3. ~ At(s, "check") BY <1>1 DEF At
<1>4. /\ given.announcements < Most.announcements
      /\ announcements' = [i \in DOMAIN announcements \cup {n} |->
                             IF i \in DOMAIN announcements THEN announcements[i] ELSE row]
      /\ given' = [given EXCEPT !.announcements = @ + 1]
      /\ UNCHANGED <<offhours, audio, recorded, unlinking, astray>>
      /\ Answer(s, 200)
  BY <1>3 DEF storeAudioFileAnnouncement
<1>5. OthersKept(s) /\ ~ Live(s)' BY <1>4, AnswerChanges
<1>6. /\ given'.announcements = n /\ given'.offhours = given.offhours
      /\ given'.files = given.files /\ given.files \in Nat /\ given.announcements \in Nat
      /\ given' \in [announcements : Nat, offhours : Nat, files : Nat]
  BY <1>4 DEF OInv, RowsInv
<1>7. DOMAIN announcements \subseteq 1..given.announcements BY DEF OInv, RowsInv
<1>8. n \notin DOMAIN announcements BY <1>6, <1>7
<1>9. /\ DOMAIN announcements' = DOMAIN announcements \cup {n}
      /\ announcements'[n] = row
      /\ \A i \in DOMAIN announcements : announcements'[i] = announcements[i]
  BY <1>4, <1>8
<1>10. r.path \in audio \cup astray /\ \A i \in DOMAIN announcements : announcements[i].path # r.path
  BY <1>1, <1>2 DEF RequestInv, MakingInv, PathOf
<1>11. r.path \in 1..given.files BY <1>10 DEF OInv, RowsInv
<1>12. row \in Announcement
  <2>1. r.api \in New BY <1>1, <1>2 DEF Stage, New
  <2>2. r.description \in Descriptions /\ r.privacy \in Privacies
    BY <1>2, <2>1 DEF RequestInv, RequestTyped
  <2>3. r.path \in Paths BY <1>2, <1>11, NoneAssumption, RequestFields
  <2>4. r.user \in Users BY <1>2, RequestFields
  <2> QED BY <2>2, <2>3, <2>4 DEF Announcement
<1> HIDE DEF n
<1>13. RowsInv'
  <2>1. \A kind \in DOMAIN Most : given'[kind] <= Most[kind]
    BY <1>4, <1>6, MostAssumption DEF OInv, RowsInv, n
  <2>2. DOMAIN announcements' \subseteq 1..given'.announcements
    BY <1>6, <1>7, <1>9 DEF n
  <2>3. \A i \in DOMAIN announcements' : announcements'[i] \in Announcement
    BY <1>9, <1>12 DEF OInv, RowsInv
  <2>4. \A i \in DOMAIN announcements' : announcements'[i].path <= given'.files
    BY <1>6, <1>9, <1>11 DEF OInv, RowsInv, PathOf
  <2>5. \A i, j \in DOMAIN announcements' : announcements'[i].path = announcements'[j].path => i = j
    BY <1>9, <1>10 DEF OInv, RowsInv, PathOf
  <2>6. ASSUME NEW i \in DOMAIN announcements', NEW j \in DOMAIN announcements',
               announcements'[i].username = announcements'[j].username,
               announcements'[i].description = announcements'[j].description
        PROVE  i = j
    <3>1. \A k \in DOMAIN announcements :
            ~ (announcements[k].username = r.user /\ announcements[k].description = r.description)
      BY DEF SameDescription
    <3>2. CASE i = n \/ j = n BY <1>9, <2>6, <3>1, <3>2
    <3>3. CASE i # n /\ j # n
      <4>1. i \in DOMAIN announcements /\ j \in DOMAIN announcements BY <1>9, <3>3
      <4> QED BY <1>9, <2>6, <4>1 DEF OInv, RowsInv
    <3> QED BY <3>2, <3>3
  <2>7. audio' \cup recorded' \cup unlinking' \cup astray' \subseteq 1..given'.files
    BY <1>4, <1>6 DEF OInv, RowsInv
  <2> QED BY <1>6, <2>1, <2>2, <2>3, <2>4, <2>5, <2>6, <2>7 DEF RowsInv, PathOf
<1>14. OffhoursInv' BY <1>4, <1>6 DEF OInv, OffhoursInv
<1>15. Onwards(s) BY <1>1, <1>4, <1>6, <1>9 DEF Onwards, n
<1>16. \A p \in Paths : HeldPath(s, p) \/ p \in audio' \ audio => Agree(p)' \/ p \in astray'
  BY <1>4, <1>9, <1>10 DEF HeldPath, Agree
<1>17. \A p : ~ HeldPath(s, p)' BY <1>5 DEF HeldPath
<1> QED BY <1>4, <1>5, <1>13, <1>14, <1>15, <1>16, <1>17, StepInv

LEMMA StoreFileInv ==
  ASSUME OInv, NEW s \in Slots, storeAudioFileAnnouncement(s)
  PROVE  OInv'
<1>1. Live(s) /\ Making(requests[s]) /\ UNCHANGED <<offhours, audio, recorded, astray>>
  BY DEF storeAudioFileAnnouncement, At, Making
<1>2. CASE Failed(s) BY <1>1, <1>2, FailedInv
<1>3. CASE At(s, "check") /\ GoOn(s, "save") /\ UNCHANGED <<announcements, given, unlinking>>
  BY <1>1, <1>3, CheckInv DEF tables
<1>4. CASE At(s, "save") /\ SameDescription(requests[s]) = {} BY <1>4, SaveInv
<1> QED BY <1>2, <1>3, <1>4 DEF storeAudioFileAnnouncement

-----------------------------------------------------------------------------
(* An announcement changes.                                                *)

(* Its name and its path stay, and its new description is no other's. *)
LEMMA UpdateInv ==
  ASSUME OInv, NEW s \in Slots, At(s, "update"), modifyAnnouncement(s)
  PROVE  OInv'
<1> DEFINE r == requests[s]
<1>1. /\ Live(s) /\ r.stage = "update" /\ ~ Held(r) /\ r.api = "modify_announcement"
      /\ UNCHANGED <<offhours, audio, recorded, given, unlinking, astray>>
  BY DEF At, Held, modifyAnnouncement
<1>2. RequestInv(r) /\ r \in Requests BY <1>1, AtStage
<1>3. ~ At(s, "find row") BY <1>1 DEF At
<1>4. \E code : Answer(s, code) BY <1>3 DEF modifyAnnouncement
<1>5. CASE UNCHANGED announcements
  <2>1. UNCHANGED tables BY <1>1, <1>5 DEF tables
  <2> QED BY <1>1, <1>4, <2>1, AnswerInv
<1>6. CASE /\ ~ (r.id \in DOMAIN announcements /\ SameDescription(r) \ {r.id} # {})
           /\ announcements' = [i \in DOMAIN announcements |->
                IF i # r.id THEN announcements[i]
                ELSE [announcements[i] EXCEPT !.description = r.description, !.privacy = r.privacy]]
  <2>1. OthersKept(s) /\ ~ Live(s)' BY <1>4, AnswerChanges
  <2>2. /\ DOMAIN announcements' = DOMAIN announcements
        /\ \A i \in DOMAIN announcements : i # r.id => announcements'[i] = announcements[i]
    BY <1>6
  <2>3. r.description \in Descriptions /\ r.privacy \in Privacies
    BY <1>1, <1>2 DEF RequestInv, RequestTyped
  <2>4. \A i \in DOMAIN announcements : announcements[i] \in Announcement BY DEF OInv, RowsInv
  <2>5. ASSUME r.id \in DOMAIN announcements
        PROVE  /\ announcements'[r.id] \in Announcement
               /\ announcements'[r.id].username = announcements[r.id].username
               /\ announcements'[r.id].path = announcements[r.id].path
               /\ announcements'[r.id].description = r.description
    <3> DEFINE x == announcements[r.id]
    <3>1. x \in Announcement BY <2>4, <2>5
    <3>2. announcements'[r.id] = [x EXCEPT !.description = r.description, !.privacy = r.privacy]
      BY <1>6, <2>5
    <3> HIDE DEF x
    <3>3. /\ announcements'[r.id] \in Announcement
          /\ announcements'[r.id].username = x.username
          /\ announcements'[r.id].path = x.path
          /\ announcements'[r.id].description = r.description
      BY <2>3, <3>1, <3>2 DEF Announcement
    <3> QED BY <3>3 DEF x
  <2>6. \A i \in DOMAIN announcements :
          /\ announcements'[i] \in Announcement
          /\ announcements'[i].username = announcements[i].username
          /\ announcements'[i].path = announcements[i].path
    BY <2>2, <2>4, <2>5
  <2>7. ASSUME NEW i \in DOMAIN announcements, NEW j \in DOMAIN announcements,
               announcements'[i].username = announcements'[j].username,
               announcements'[i].description = announcements'[j].description
        PROVE  i = j
    <3>1. announcements[i].username = announcements[j].username BY <2>6, <2>7
    <3>2. CASE i # r.id /\ j # r.id BY <2>2, <2>7, <3>1, <3>2 DEF OInv, RowsInv
    <3>3. CASE r.id \in {i, j}
      <4>1. r.id \in DOMAIN announcements BY <3>3
      <4>2. announcements[r.id].username = r.user
        BY <1>1, <1>2, <4>1 DEF RequestInv, OwnerInv
      <4>3. \A k \in DOMAIN announcements :
              announcements[k].username = r.user /\ announcements[k].description = r.description
                => k = r.id
        BY <1>6, <4>1 DEF SameDescription
      <4> QED BY <2>2, <2>5, <2>7, <3>1, <3>3, <4>1, <4>2, <4>3
    <3> QED BY <3>2, <3>3
  <2>8. \A i, j \in DOMAIN announcements' : announcements'[i].path = announcements'[j].path => i = j
    BY <2>2, <2>6 DEF OInv, RowsInv, PathOf
  <2>9. \A i \in DOMAIN announcements' : announcements'[i].path <= given.files
    BY <2>2, <2>6 DEF OInv, RowsInv, PathOf
  <2>10. RowsInv'
    <3>1. given \in [announcements : Nat, offhours : Nat, files : Nat]
      BY DEF OInv, RowsInv
    <3>2. \A kind \in DOMAIN Most : given[kind] <= Most[kind] BY DEF OInv, RowsInv
    <3>3. DOMAIN announcements \subseteq 1..given.announcements
          /\ audio \cup recorded \cup unlinking \cup astray \subseteq 1..given.files
      BY DEF OInv, RowsInv
    <3> QED BY <1>1, <2>2, <2>6, <2>7, <2>8, <2>9, <3>1, <3>2, <3>3 DEF RowsInv, PathOf
  <2>11. OffhoursInv' BY <1>1 DEF OInv, OffhoursInv
  <2>12. Onwards(s) BY <1>1, <2>2, <2>6 DEF Onwards, OInv, RowsInv
  <2>13. \A p : ~ HeldPath(s, p) /\ ~ HeldPath(s, p)' BY <1>1, <2>1 DEF HeldPath
  <2> QED BY <1>1, <2>1, <2>10, <2>11, <2>12, <2>13, StepInv
<1> QED BY <1>3, <1>5, <1>6 DEF modifyAnnouncement

LEMMA ModifyInv ==
  ASSUME OInv, NEW s \in Slots, modifyAnnouncement(s)
  PROVE  OInv'
<1> DEFINE r == requests[s]
<1>1. CASE At(s, "find row")
  <2>1. Live(s) /\ r.stage = "find row" /\ ~ Held(r) /\ r.api = "modify_announcement"
        /\ ~ At(s, "update")
    BY <1>1 DEF At, Held, modifyAnnouncement
  <2>2. RequestInv(r) BY <2>1, AtStage
  <2>3. UNCHANGED tables BY <2>1 DEF modifyAnnouncement, tables
  <2>4. CASE GoOn(s, "update")
    <3>1. Stage(r.api, "update") /\ "update" \in Stages BY <2>1 DEF Stage, Stages
    <3>2. r.id \in DOMAIN announcements => announcements[r.id].username = r.user
      BY <2>1, <2>2 DEF RequestInv, OwnerInv
    <3> QED BY <2>1, <2>3, <2>4, <3>1, <3>2, GoOnInv
  <2>5. CASE Answer(s, 500) BY <2>1, <2>3, <2>5, AnswerInv
  <2> QED BY <2>1, <2>4, <2>5 DEF modifyAnnouncement
<1>2. CASE At(s, "update") BY <1>2, UpdateInv
<1> QED BY <1>1, <1>2 DEF modifyAnnouncement

-----------------------------------------------------------------------------
(* An announcement is deleted, in three parts.                             *)

LEMMA FindDeletedInv ==
  ASSUME OInv, NEW s \in Slots, FindDeleted(s)
  PROVE  OInv'
<1> DEFINE r == requests[s]
<1>1. /\ Live(s) /\ r.stage = "find row" /\ ~ Held(r) /\ r.api = "delete_announcement"
      /\ UNCHANGED tables
  BY DEF FindDeleted, At, Held
<1>2. RequestInv(r) /\ r \in Requests BY <1>1, AtStage
<1>3. CASE Answer(s, 500) BY <1>1, <1>3, AnswerInv
<1>4. CASE r.id \in DOMAIN announcements
  <2> DEFINE p == announcements[r.id].path
             q == [r EXCEPT !.path = p, !.stage = "delete", !.left = Parts]
  <2>1. requests' = [requests EXCEPT ![s] = q] BY <1>4 DEF FindDeleted
  <2>2. p \in Paths /\ p <= given.files /\ "delete" \in Stages
    BY <1>4 DEF OInv, RowsInv, Announcement, PathOf, Stages
  <2>3. Same(q, r) /\ q.stage = "delete" /\ q.path = p /\ q.left = Parts
    BY <1>2, <2>2 DEF Requests, Same
  <2> HIDE DEF q
  <2>4. OthersKept(s) /\ Live(s)' /\ requests'[s] = q
    BY <1>1, <2>1, <2>3, RequestReplaced DEF Same
  <2>5. UNCHANGED <<announcements, offhours, audio, recorded, given, unlinking, astray>>
    BY <1>1 DEF tables
  <2>6. RowsInv' BY <2>5 DEF OInv, RowsInv, PathOf
  <2>7. OffhoursInv' BY <2>5 DEF OInv, OffhoursInv
  <2>8. Onwards(s) BY <2>5 DEF Onwards, OInv, RowsInv
  <2>9. RequestInv(requests[s])'
    <3>1. Stage(r.api, "delete") BY <1>1 DEF Stage
    <3>2. RequestTyped(requests[s])' BY <1>1, <2>3, <2>4, <3>1, MovedTyped
    <3>3. OwnerInv(requests[s])' BY <1>1, <1>2, <2>3, <2>4, <2>5 DEF RequestInv, OwnerInv, Same
    <3>4. RouteInv(requests[s])' /\ MakingInv(requests[s])'
      BY <2>3, <2>4 DEF RouteInv, MakingInv, Making
    <3>5. p \in 1..given.files
      <4>1. Most.files \in Nat /\ given.files \in Nat BY MostAssumption DEF OInv, RowsInv
      <4> QED BY <2>2, <4>1 DEF Paths
    <3>6. q.left # {} /\ "row" \in q.left /\ "file" \in q.left BY <2>3 DEF Parts
    <3>7. \A i \in DOMAIN announcements : announcements[i].path = p <=> i = r.id
      BY <1>4 DEF OInv, RowsInv, PathOf
    <3>8. DeletingInv(requests[s])'
      BY <2>3, <2>4, <2>5, <3>5, <3>6, <3>7 DEF DeletingInv, PathOf, Same
    <3> QED BY <3>2, <3>3, <3>4, <3>8 DEF RequestInv
  <2>10. \A t \in Slots \ {s} : Live(t) /\ Making(requests[t]) => requests[t].path # p
    <3> TAKE t \in Slots \ {s}
    <3>1. Live(t) => RequestInv(requests[t]) BY LiveIsRequest
    <3> QED BY <1>4, <3>1 DEF RequestInv, MakingInv, PathOf
  <2>11. ~ Making(q) BY <2>3 DEF Making
  <2>12. \A x : ~ HeldPath(s, x) BY <1>1 DEF HeldPath
  <2>13. \A x \in unlinking' : ~ HeldPath(s, x)'
    <3>1. p \notin unlinking BY <1>4 DEF OInv, UnlinkingApart
    <3> QED BY <2>3, <2>4, <2>5, <3>1 DEF HeldPath
  <2> QED BY <2>3, <2>4, <2>5, <2>6, <2>7, <2>8, <2>9, <2>10, <2>11, <2>12, <2>13, StepInv
<1> QED BY <1>3, <1>4 DEF FindDeleted

(* A part that ends: the request goes with its last one, and remembers a part *)
(* that failed.                                                               *)
LEMMA PartChanges ==
  ASSUME OInv, NEW s \in Slots, NEW part \in Parts, Deleting(s, part), NEW ok \in BOOLEAN,
         PartDone(s, part, ok)
  PROVE  LET r == requests[s]
             q == requests'[s]
             left == r.left \ {part}
         IN  /\ OthersKept(s)
             /\ left = {} => ~ Live(s)'
             /\ left # {} => /\ Live(s)' /\ Same(q, r) /\ q.stage = "delete" /\ q.path = r.path
                             /\ q.left = left /\ (~ ok \/ r.task # None => q.task # None)
             /\ answer' = 200 => left = {} /\ ok /\ r.task = None
<1> DEFINE r == requests[s]
           left == r.left \ {part}
           was == r.task
           told == ~ ok /\ part # "row" /\ was # "answered"
           is == IF told THEN "answered" ELSE IF ~ ok /\ was = None THEN "silent" ELSE was
           q == [r EXCEPT !.left = left, !.task = is]
<1>1. Live(s) /\ r.stage = "delete" /\ r \in Requests
  BY LiveIsRequest DEF Deleting, At
<1>2. /\ requests' = [requests EXCEPT ![s] = IF left = {} THEN None ELSE q]
      /\ answer' = IF told THEN 500 ELSE IF left = {} /\ is = None THEN 200 ELSE None
  BY DEF PartDone
<1>3. None # "answered" /\ None # "silent" /\ None # 200 BY NoneAssumption
<1>4. was \in Nat \cup {None, "answered", "silent"} /\ r.left \in SUBSET Parts BY <1>1 DEF Requests
<1>5. is \in Nat \cup {None, "answered", "silent"} BY <1>4
<1>6. ~ ok \/ was # None => is # None BY <1>3
<1>7. is = None => ok /\ was = None BY <1>3
<1> HIDE DEF is, told
<1>8. Same(q, r) /\ q.stage = "delete" /\ q.path = r.path /\ q.left = left /\ q.task = is
  <2>1. left \in SUBSET Parts BY <1>4
  <2>2. r \in Requests /\ r.stage = "delete" BY <1>1
  <2> HIDE DEF left, was, r
  <2>3. q \in Requests BY <1>5, <2>1, <2>2 DEF Requests
  <2>4. /\ q.api = r.api /\ q.user = r.user /\ q.id = r.id /\ q.description = r.description
        /\ q.privacy = r.privacy /\ q.temp = r.temp /\ q.route = r.route /\ q.action = r.action
    BY <2>2 DEF Requests
  <2>5. q.stage = r.stage /\ q.path = r.path /\ q.left = left /\ q.task = is
    BY <2>2 DEF Requests
  <2> HIDE DEF q
  <2> QED BY <2>2, <2>3, <2>4, <2>5 DEF Same
<1> HIDE DEF q
<1>9. answer' = 200 => left = {} /\ is = None BY <1>2, <1>3
<1>10. OthersKept(s) BY <1>2 DEF OthersKept, OInv
<1>11. requests'[s] = IF left = {} THEN None ELSE q BY <1>2 DEF OInv
<1>12. q # None BY <1>8, NoneAssumption DEF Same
<1> QED BY <1>6, <1>7, <1>8, <1>9, <1>10, <1>11, <1>12 DEF Live

LEMMA PartInv ==
  ASSUME OInv, NEW s \in Slots, NEW part \in Parts, Deleting(s, part), NEW ok \in BOOLEAN,
         PartDone(s, part, ok), RowsInv', OffhoursInv', UNCHANGED <<given, unlinking>>,
         DOMAIN announcements' \subseteq DOMAIN announcements,
         \A i \in DOMAIN announcements' : announcements'[i] = announcements[i],
         \A i \in DOMAIN announcements \ DOMAIN announcements' : i = requests[s].id,
         audio' \subseteq audio, audio \ audio' \subseteq {requests[s].path},
         astray \subseteq astray',
         part = "row" => \/ requests[s].id \notin DOMAIN announcements'
                         \/ requests[s].path \in astray' /\ ~ ok,
         part = "file" => \/ requests[s].path \notin audio'
                          \/ requests[s].path \in astray' /\ ~ ok
  PROVE  OInv'
<1> DEFINE r == requests[s]
           q == requests'[s]
           left == r.left \ {part}
<1>1. Live(s) /\ r.stage = "delete" /\ part \in r.left /\ Held(r) /\ ~ Making(r)
  BY DEF Deleting, At, Held, Making
<1>2. RequestInv(r) /\ r \in Requests /\ Stage(r.api, "delete") BY <1>1, AtStage
<1>3. /\ OthersKept(s)
      /\ left = {} => ~ Live(s)'
      /\ left # {} => /\ Live(s)' /\ Same(q, r) /\ q.stage = "delete" /\ q.path = r.path
                      /\ q.left = left /\ (~ ok \/ r.task # None => q.task # None)
  BY PartChanges
<1>4. /\ r.path \in 1..given.files
      /\ \A i \in DOMAIN announcements : announcements[i].path = r.path <=> i = r.id
      /\ \/ "row" \in r.left \/ r.id \notin DOMAIN announcements
         \/ r.path \in astray /\ r.task # None
      /\ \/ "file" \in r.left \/ r.path \notin audio
         \/ r.path \in astray /\ r.task # None
  BY <1>1, <1>2 DEF RequestInv, DeletingInv, PathOf
<1>5. HeldPath(s, r.path) BY <1>1 DEF HeldPath
<1>6. Onwards(s)
  <2>1. given.announcements \in Nat /\ given.files \in Nat BY DEF OInv, RowsInv
  <2>2. \A i \in DOMAIN announcements \ DOMAIN announcements' : HeldPath(s, announcements[i].path)
    BY <1>4, <1>5
  <2>3. \A p \in audio \ audio' : HeldPath(s, p) BY <1>5
  <2> QED BY <2>1, <2>2, <2>3 DEF Onwards
<1>7. "row" \notin left => \/ r.id \notin DOMAIN announcements'
                           \/ r.path \in astray' /\ (~ ok \/ r.task # None)
  BY <1>4
<1>8. "file" \notin left => \/ r.path \notin audio'
                            \/ r.path \in astray' /\ (~ ok \/ r.task # None)
  BY <1>4
<1>9. \A i \in DOMAIN announcements' : announcements'[i].path = r.path <=> i = r.id
  BY <1>4
<1> HIDE DEF left
<1>10. ASSUME left # {} PROVE RequestInv(requests[s])'
  <2>1. RequestTyped(requests[s])' BY <1>1, <1>2, <1>3, <1>10, MovedTyped
  <2>2. OwnerInv(requests[s])'
    BY <1>1, <1>2, <1>3, <1>10 DEF RequestInv, OwnerInv, Same
  <2>3. RouteInv(requests[s])' /\ MakingInv(requests[s])'
    BY <1>3, <1>10 DEF RouteInv, MakingInv, Making
  <2>4. DeletingInv(requests[s])'
    BY <1>3, <1>4, <1>7, <1>8, <1>9, <1>10 DEF DeletingInv, PathOf, Same
  <2> QED BY <2>1, <2>2, <2>3, <2>4 DEF RequestInv
<1>11. \A t \in Slots \ {s} :
         Live(t) /\ Held(requests[t]) /\ Live(s)' /\ Held(requests'[s])
           /\ (Making(requests[t]) \/ Making(requests'[s]))
         => requests[t].path # requests'[s].path
  <2>1. Live(s)' => q.path = r.path /\ ~ Making(q) BY <1>3 DEF Making
  <2> QED BY <1>1, <2>1 DEF OInv, FilesApart
<1>12. ASSUME NEW p \in Paths, HeldPath(s, p) \/ p \in audio' \ audio
       PROVE  Agree(p)' \/ HeldPath(s, p)' \/ p \in astray'
  <2>1. p = r.path BY <1>12 DEF HeldPath
  <2>2. CASE left # {}
    BY <1>3, <2>1, <2>2 DEF HeldPath, Held
  <2>3. CASE left = {}
    <3>1. \/ r.path \in astray'
          \/ r.id \notin DOMAIN announcements' /\ r.path \notin audio'
      BY <1>7, <1>8, <2>3
    <3>2. r.id \notin DOMAIN announcements' /\ r.path \notin audio' => Agree(p)'
      BY <1>9, <2>1 DEF Agree
    <3> QED BY <2>1, <3>1, <3>2
  <2> QED BY <2>2, <2>3
<1>13. Live(s)' => RequestInv(requests[s])' BY <1>3, <1>10
<1>14. \A p \in unlinking' : ~ HeldPath(s, p)'
  <2>1. \A p : HeldPath(s, p)' => HeldPath(s, p) BY <1>1, <1>3 DEF HeldPath, Live
  <2> QED BY <2>1 DEF OInv, UnlinkingApart
<1> QED BY <1>3, <1>6, <1>11, <1>12, <1>13, <1>14, StepInv

LEMMA DeleteRowInv ==
  ASSUME OInv, NEW s \in Slots, DeleteRow(s)
  PROVE  OInv'
<1> DEFINE r == requests[s]
<1>1. Deleting(s, "row") /\ UNCHANGED <<offhours, audio, recorded, given, unlinking>> /\ "row" \in Parts
  BY DEF DeleteRow, Parts
<1>2. Live(s) /\ r.stage = "delete" BY <1>1 DEF Deleting, At
<1>3. OffhoursInv' BY <1>1 DEF OInv, OffhoursInv
<1>4. CASE /\ announcements' = [i \in DOMAIN announcements \ {r.id} |-> announcements[i]]
           /\ PartDone(s, "row", TRUE) /\ UNCHANGED astray
  <2>1. /\ DOMAIN announcements' = DOMAIN announcements \ {r.id}
        /\ \A i \in DOMAIN announcements' : announcements'[i] = announcements[i]
    BY <1>4
  <2>2. RowsInv' BY <1>1, <1>4, <2>1 DEF OInv, RowsInv, PathOf
  <2> QED BY <1>1, <1>3, <1>4, <2>1, <2>2, PartInv
<1>5. CASE /\ PartDone(s, "row", FALSE) /\ astray' = astray \cup {r.path}
           /\ UNCHANGED announcements
  <2>1. r.path \in 1..given.files BY <1>2, HeldPathsAreGiven DEF Held
  <2>2. RowsInv'
    <3>1. audio' \cup recorded' \cup unlinking' \cup astray' \subseteq 1..given'.files
      BY <1>1, <1>5, <2>1 DEF OInv, RowsInv
    <3> QED BY <1>1, <1>5, <3>1 DEF OInv, RowsInv, PathOf
  <2> QED BY <1>1, <1>3, <1>5, <2>2, PartInv
<1> QED BY <1>4, <1>5 DEF DeleteRow

LEMMA DeleteFileInv ==
  ASSUME OInv, NEW s \in Slots, DeleteFile(s)
  PROVE  OInv'
<1> DEFINE r == requests[s]
<1>1. /\ Deleting(s, "file") /\ UNCHANGED <<announcements, offhours, recorded, given, unlinking>>
      /\ "file" \in Parts
  BY DEF DeleteFile, Parts
<1>2. Live(s) /\ r.stage = "delete" BY <1>1 DEF Deleting, At
<1>3. OffhoursInv' BY <1>1 DEF OInv, OffhoursInv
<1>4. CASE /\ audio' = audio \ {r.path} /\ PartDone(s, "file", r.path \in audio)
           /\ UNCHANGED astray
  <2>1. RowsInv'
    <3>1. audio' \cup recorded' \cup unlinking' \cup astray' \subseteq 1..given'.files
      BY <1>1, <1>4 DEF OInv, RowsInv
    <3> QED BY <1>1, <1>4, <3>1 DEF OInv, RowsInv, PathOf
  <2>2. r.path \notin audio' /\ audio' \subseteq audio /\ audio \ audio' \subseteq {r.path}
        /\ (r.path \in audio) \in BOOLEAN
    BY <1>4
  <2> QED BY <1>1, <1>3, <1>4, <2>1, <2>2, PartInv
<1>5. CASE /\ PartDone(s, "file", FALSE) /\ astray' = astray \cup {r.path}
           /\ UNCHANGED audio
  <2>1. r.path \in 1..given.files BY <1>2, HeldPathsAreGiven DEF Held
  <2>2. RowsInv'
    <3>1. audio' \cup recorded' \cup unlinking' \cup astray' \subseteq 1..given'.files
      BY <1>1, <1>5, <2>1 DEF OInv, RowsInv
    <3> QED BY <1>1, <1>5, <3>1 DEF OInv, RowsInv, PathOf
  <2> QED BY <1>1, <1>3, <1>5, <2>2, PartInv
<1> QED BY <1>4, <1>5 DEF DeleteFile

LEMMA DeleteOffhoursInv ==
  ASSUME OInv, NEW s \in Slots, deleteOffhourByFilename(s)
  PROVE  OInv'
<1>1. /\ Deleting(s, "offhours") /\ UNCHANGED <<announcements, audio, recorded, given, unlinking, astray>>
      /\ "offhours" \in Parts /\ offhours' \subseteq offhours
  BY DEF deleteOffhourByFilename, Parts
<1>2. RowsInv' BY <1>1 DEF OInv, RowsInv, PathOf
<1>3. OffhoursInv' BY <1>1 DEF OInv, OffhoursInv
<1>4. \E ok \in BOOLEAN : PartDone(s, "offhours", ok) BY DEF deleteOffhourByFilename
<1> QED BY <1>1, <1>2, <1>3, <1>4, PartInv

-----------------------------------------------------------------------------
(* An off-hour is stored.                                                  *)

LEMMA StoreOffhourInv ==
  ASSUME OInv, NEW s \in Slots, StoreOffhour(s)
  PROVE  OInv'
<1> DEFINE r == requests[s]
           Stored(id, message) == [id |-> id, route |-> r.route, message |-> message,
                                   redirects |-> r.action = "redirect"]
           n == given.offhours + 1
<1>1. /\ Live(s) /\ r.stage = "store" /\ ~ Held(r) /\ Answer(s, 200)
      /\ UNCHANGED <<announcements, audio, recorded, unlinking, astray>>
  BY DEF StoreOffhour, At, Held
<1>2. RequestInv(r) /\ r \in Requests /\ Stage(r.api, r.stage) BY <1>1, AtStage
<1>3. OthersKept(s) /\ ~ Live(s)' BY <1>1, AnswerChanges
<1>4. r.route \in Routes /\ r.path \in Paths \cup {None}
  <2>1. r.api = "set_offhour" BY <1>1, <1>2 DEF Stage
  <2> QED BY <1>2, <2>1, RequestFields DEF RequestInv, RequestTyped
<1>5. \A id \in 1..Most.offhours, message \in Paths \cup {None} :
        Stored(id, message) \in OffhourRow /\ Stored(id, message).id = id
  BY <1>4 DEF OffhourRow
<1>6. given \in [announcements : Nat, offhours : Nat, files : Nat] BY DEF OInv, RowsInv
<1>7. CASE /\ given.offhours < Most.offhours
           /\ given' = [given EXCEPT !.offhours = @ + 1]
           /\ offhours' = offhours \cup {Stored(n, r.path)}
  <2>1. /\ given'.announcements = given.announcements /\ given'.files = given.files
        /\ given'.offhours = n /\ n \in Nat /\ given.offhours \in Nat
        /\ given' \in [announcements : Nat, offhours : Nat, files : Nat]
    BY <1>6, <1>7
  <2>2. RowsInv'
    <3>1. \A kind \in DOMAIN Most : given'[kind] <= Most[kind]
      BY <1>6, <1>7, <2>1, MostAssumption DEF OInv, RowsInv
    <3> QED BY <1>1, <2>1, <3>1 DEF OInv, RowsInv, PathOf
  <2>3. n \in 1..Most.offhours BY <1>7, <2>1, MostAssumption
  <2>4. Stored(n, r.path) \in OffhourRow /\ Stored(n, r.path).id = n BY <1>4, <1>5, <2>3
  <2>5. \A o \in offhours : o.id \in Nat /\ o.id <= given.offhours
    BY MostAssumption DEF OInv, OffhoursInv, OffhourRow
  <2> HIDE DEF Stored
  <2>6. \A o \in offhours' : o.id <= given'.offhours /\ o \in OffhourRow
    BY <1>7, <2>1, <2>4, <2>5 DEF OInv, OffhoursInv
  <2>7. \A o, p \in offhours' : o.id = p.id => o = p
    BY <1>7, <2>1, <2>4, <2>5 DEF OInv, OffhoursInv
  <2>8. OffhoursInv' BY <2>6, <2>7 DEF OffhoursInv
  <2>9. Onwards(s) BY <1>1, <1>6, <2>1 DEF Onwards
  <2>10. \A p : ~ HeldPath(s, p) /\ ~ HeldPath(s, p)' BY <1>1, <1>3 DEF HeldPath
  <2> QED BY <1>1, <1>3, <2>2, <2>8, <2>9, <2>10, StepInv
<1>8. CASE /\ \E message \in {r.path} \cup {o.message : o \in {x \in offhours : x.id = r.task}} :
                offhours' = {IF o.id = r.task THEN Stored(o.id, message) ELSE o : o \in offhours}
           /\ UNCHANGED given
  <2>1. PICK message \in {r.path} \cup {o.message : o \in {x \in offhours : x.id = r.task}} :
          offhours' = {IF o.id = r.task THEN Stored(o.id, message) ELSE o : o \in offhours}
    BY <1>8
  <2>2. message \in Paths \cup {None} BY <1>4 DEF OInv, OffhoursInv, OffhourRow
  <2> DEFINE g(o) == IF o.id = r.task THEN Stored(o.id, message) ELSE o
  <2>3. offhours' = {g(o) : o \in offhours} BY <2>1
  <2>4. \A o \in offhours : g(o) \in OffhourRow /\ g(o).id = o.id
    <3> TAKE o \in offhours
    <3>1. o \in OffhourRow /\ o.id \in 1..Most.offhours BY DEF OInv, OffhoursInv, OffhourRow
    <3> QED BY <1>5, <2>2, <3>1
  <2> HIDE DEF g
  <2>5. \A o, p \in offhours' : o.id = p.id => o = p
    <3> SUFFICES ASSUME NEW o \in offhours, NEW p \in offhours, g(o).id = g(p).id
                 PROVE  g(o) = g(p)
      BY <2>3
    <3>1. o.id = p.id BY <2>4
    <3> QED BY <3>1 DEF OInv, OffhoursInv
  <2>6. \A o \in offhours' : o.id <= given'.offhours /\ o \in OffhourRow
    BY <1>8, <2>3, <2>4 DEF OInv, OffhoursInv
  <2>7. OffhoursInv' BY <2>5, <2>6 DEF OffhoursInv
  <2>8. RowsInv' BY <1>1, <1>8 DEF OInv, RowsInv, PathOf
  <2>9. Onwards(s) BY <1>1, <1>6, <1>8 DEF Onwards
  <2>10. \A p : ~ HeldPath(s, p) /\ ~ HeldPath(s, p)' BY <1>1, <1>3 DEF HeldPath
  <2> QED BY <1>1, <1>3, <2>7, <2>8, <2>9, <2>10, StepInv
<1> QED BY <1>7, <1>8 DEF StoreOffhour

LEMMA QueryFailsInv ==
  ASSUME OInv, NEW s \in Slots, QueryFails(s)
  PROVE  OInv'
<1>1. UNCHANGED <<offhours, audio, recorded, astray>> BY DEF QueryFails
<1>2. CASE /\ Live(s) /\ requests[s].stage \in Asks
           /\ \E code : Answer(s, code)
           /\ UNCHANGED <<announcements, given, unlinking>>
  <2>1. ~ Held(requests[s]) BY <1>2 DEF Held, Asks
  <2> QED BY <1>1, <1>2, <2>1, AnswerInv DEF tables
<1>3. CASE (At(s, "check") \/ At(s, "save")) /\ Failed(s)
  <2>1. Live(s) /\ Making(requests[s]) BY <1>3 DEF At, Making
  <2> QED BY <1>1, <1>3, <2>1, FailedInv
<1> QED BY <1>2, <1>3 DEF QueryFails, Drop

(* A removal ends: of what is removed no row and no request is left. *)
LEMMA UnlinkedInv ==
  ASSUME OInv, Unlinked
  PROVE  OInv'
<1>1. UNCHANGED <<announcements, offhours, recorded, given, astray, requests>> BY DEF Unlinked
<1>2. PICK gone \in unlinking : unlinking' = unlinking \ {gone} /\ audio' = audio \ {gone}
  BY DEF Unlinked
<1>3. /\ \A i \in DOMAIN announcements : announcements[i].path # gone
      /\ \A s \in Slots : ~ HeldPath(s, gone)
  BY <1>2 DEF OInv, UnlinkingApart
<1>4. RowsInv'
  <2>1. audio' \cup recorded' \cup unlinking' \cup astray' \subseteq 1..given'.files
    BY <1>1, <1>2 DEF OInv, RowsInv
  <2> QED BY <1>1, <2>1 DEF OInv, RowsInv, PathOf
<1>5. OffhoursInv' BY <1>1 DEF OInv, OffhoursInv
<1>6. ASSUME NEW s \in Slots, Live(s)'
      PROVE  RequestInv(requests[s])'
  <2>1. RequestInv(requests[s]) /\ Live(s) BY <1>1, <1>6, LiveIsRequest DEF Live
  <2>2. RequestTyped(requests[s])' BY <1>1, <2>1 DEF RequestInv, RequestTyped
  <2>3. OwnerInv(requests[s])' BY <1>1, <2>1 DEF RequestInv, OwnerInv
  <2>4. RouteInv(requests[s])' BY <1>1, <2>1 DEF RequestInv, RouteInv, Entitled
  <2>5. Making(requests[s]) => requests[s].path # gone
    BY <1>3, <2>1 DEF HeldPath, Held, Making
  <2>6. MakingInv(requests[s])' BY <1>1, <1>2, <2>1, <2>5 DEF RequestInv, MakingInv, Making, PathOf
  <2>7. DeletingInv(requests[s])' BY <1>1, <1>2, <2>1 DEF RequestInv, DeletingInv, PathOf
  <2> QED BY <2>2, <2>3, <2>4, <2>6, <2>7 DEF RequestInv
<1>7. FilesApart' BY <1>1 DEF OInv, FilesApart, Live, Making, Held
<1>8. UnlinkingApart' BY <1>1, <1>2 DEF OInv, UnlinkingApart, HeldPath, Live, Held
<1>9. FilesFollowRows' BY <1>1, <1>2, <1>3 DEF OInv, FilesFollowRows, InHand, HasRow, Live
<1> QED BY <1>1, <1>4, <1>5, <1>6, <1>7, <1>8, <1>9 DEF OInv

-----------------------------------------------------------------------------
(* The invariant.                                                          *)

Acts(s) ==
  \/ list(s) \/ VerifyListen(s) \/ listenAnnouncement(s) \/ recordAnnouncement(s)
  \/ storeWavAnnouncement(s) \/ enableAnnouncement(s) \/ storeMp3Announcement(s)
  \/ storeAudioFileAnnouncement(s) \/ VerifyOwn(s) \/ modifyAnnouncement(s) \/ FindDeleted(s)
  \/ DeleteRow(s) \/ DeleteFile(s) \/ deleteOffhourByFilename(s)
  \/ verifyAudioMessagePermission(s) \/ VerifyRoute(s) \/ setOffhour(s) \/ StoreOffhour(s)
  \/ QueryFails(s)

LEMMA OInit == Init => OInv
<1> SUFFICES ASSUME Init PROVE OInv
  OBVIOUS
<1>1. RowsInv
  <2>1. given \in [announcements : Nat, offhours : Nat, files : Nat] BY DEF Init
  <2>2. \A kind \in DOMAIN Most : given[kind] <= Most[kind] BY MostAssumption DEF Init
  <2>3. DOMAIN announcements = {} /\ audio \cup recorded \cup unlinking \cup astray = {} BY DEF Init
  <2> QED BY <2>1, <2>2, <2>3 DEF RowsInv
<1>2. OffhoursInv BY DEF Init, OffhoursInv
<1>3. DOMAIN requests = Slots /\ \A s \in Slots : ~ Live(s) BY DEF Init, Live
<1>4. FilesFollowRows BY DEF Init, FilesFollowRows, HasRow
<1>5. UnlinkingApart BY DEF Init, UnlinkingApart
<1> QED BY <1>1, <1>2, <1>3, <1>4, <1>5 DEF OInv, FilesApart

LEMMA StutterInv ==
  ASSUME OInv, UNCHANGED vars
  PROVE  OInv'
<1>1. UNCHANGED <<announcements, offhours, audio, recorded, given, unlinking, astray, requests>> BY DEF vars
<1>2. RowsInv' BY <1>1 DEF OInv, RowsInv, PathOf
<1>3. OffhoursInv' BY <1>1 DEF OInv, OffhoursInv
<1>4. ASSUME NEW s \in Slots, Live(s)'
      PROVE  RequestInv(requests[s])'
  <2>1. RequestInv(requests[s]) BY <1>1, <1>4, LiveIsRequest DEF Live
  <2>2. RequestTyped(requests[s])' BY <1>1, <2>1 DEF RequestInv, RequestTyped
  <2>3. OwnerInv(requests[s])' BY <1>1, <2>1 DEF RequestInv, OwnerInv
  <2>4. RouteInv(requests[s])' BY <1>1, <2>1 DEF RequestInv, RouteInv, Entitled
  <2>5. MakingInv(requests[s])' BY <1>1, <2>1 DEF RequestInv, MakingInv, Making, PathOf
  <2>6. DeletingInv(requests[s])' BY <1>1, <2>1 DEF RequestInv, DeletingInv, PathOf
  <2> QED BY <2>2, <2>3, <2>4, <2>5, <2>6 DEF RequestInv
<1>5. FilesApart' BY <1>1 DEF OInv, FilesApart, Live, Making, Held
<1>6. FilesFollowRows' BY <1>1 DEF OInv, FilesFollowRows, InHand, HasRow, Live
<1>7. UnlinkingApart' BY <1>1 DEF OInv, UnlinkingApart, HeldPath, Live, Held
<1> QED BY <1>1, <1>2, <1>3, <1>4, <1>5, <1>6, <1>7 DEF OInv

LEMMA ONextInv == OInv /\ [Next]_vars => OInv'
<1> SUFFICES ASSUME OInv, [Next]_vars PROVE OInv'
  OBVIOUS
<1>1. CASE UNCHANGED vars BY <1>1, StutterInv
<1>2. CASE Arrive BY <1>2, ArriveInv
<1>4. CASE Unlinked BY <1>4, UnlinkedInv
<1>3. ASSUME NEW s \in Slots, Acts(s)
      PROVE  OInv'
  BY <1>3, VerifyInv, VerifySetInv, SetOffhourInv, RecordInv, MakeInv, StoreFileInv, ModifyInv,
     FindDeletedInv, DeleteRowInv, DeleteFileInv, DeleteOffhoursInv, StoreOffhourInv, QueryFailsInv
     DEF Acts
<1> QED BY <1>1, <1>2, <1>3, <1>4 DEF Next, Acts

LEMMA OInvAlways == Spec => []OInv
BY OInit, ONextInv, PTL DEF Spec

(* The rows of the two tables are whole, have the ids that were given out, *)
(* and no user has two announcements of one description.                   *)
THEOREM TypeCorrect == Spec => []TypeOK
<1>1. OInv => TypeOK
  <2> SUFFICES ASSUME OInv PROVE TypeOK
    OBVIOUS
  <2>1. \A kind \in DOMAIN Most : given[kind] \in 0..Most[kind]
    BY MostAssumption DEF OInv, RowsInv
  <2>2. ASSUME NEW i \in DOMAIN announcements
        PROVE  /\ announcements[i] \in Announcement
               /\ SameDescription([user |-> announcements[i].username,
                                   description |-> announcements[i].description]) = {i}
    BY <2>2 DEF OInv, RowsInv, SameDescription
  <2>3. \A s \in Slots : Live(s) => requests[s].api \in Apis /\ requests[s].path \in Paths \cup {None}
    BY LiveIsRequest, RequestFields
  <2> QED BY <2>1, <2>2, <2>3 DEF OInv, RowsInv, OffhoursInv, TypeOK
<1> QED BY <1>1, OInvAlways, PTL

(* The table of the announcements and their directory agree: every         *)
(* announcement has its file and every file its announcement, except for   *)
(* what requests under way are doing, the files that are being removed,    *)
(* which are no announcement's, and what a failure left or an enable moved.*)
THEOREM FilesFollow == Spec => []FilesFollowRows
<1>1. OInv => FilesFollowRows BY DEF OInv
<1> QED BY <1>1, OInvAlways, PTL

-----------------------------------------------------------------------------
(* Who changes what.                                                       *)

LEMMA WhoChanges ==
  ASSUME NEW s \in Slots, Acts(s)
  PROVE  /\ \/ UNCHANGED announcements
            \/ storeAudioFileAnnouncement(s) \/ modifyAnnouncement(s) \/ DeleteRow(s)
         /\ \/ audio \subseteq audio'
            \/ DeleteFile(s) \/ enableAnnouncement(s)
         /\ UNCHANGED offhours \/ StoreOffhour(s) \/ deleteOffhourByFilename(s)
<1>1. CASE list(s) \/ VerifyListen(s) \/ listenAnnouncement(s) \/ VerifyOwn(s) \/ FindDeleted(s)
  BY <1>1 DEF list, VerifyListen, listenAnnouncement, VerifyOwn, FindDeleted, tables
<1>2. CASE verifyAudioMessagePermission(s) \/ VerifyRoute(s) \/ setOffhour(s)
  BY <1>2 DEF verifyAudioMessagePermission, VerifyRoute, setOffhour, tables
<1>3. CASE recordAnnouncement(s) \/ storeWavAnnouncement(s) \/ enableAnnouncement(s)
           \/ storeMp3Announcement(s)
  BY <1>3 DEF recordAnnouncement, storeWavAnnouncement, enableAnnouncement, storeMp3Announcement,
     NewFile, tables
<1>4. CASE modifyAnnouncement(s) BY <1>4 DEF modifyAnnouncement
<1>5. CASE DeleteRow(s) BY <1>5 DEF DeleteRow
<1>6. CASE DeleteFile(s) BY <1>6 DEF DeleteFile
<1>7. CASE deleteOffhourByFilename(s) BY <1>7 DEF deleteOffhourByFilename
<1>8. CASE StoreOffhour(s) BY <1>8 DEF StoreOffhour
<1>9. CASE QueryFails(s) BY <1>9 DEF QueryFails, Failed
<1>10. CASE storeAudioFileAnnouncement(s) BY <1>10 DEF storeAudioFileAnnouncement
<1> QED BY <1>1, <1>2, <1>3, <1>4, <1>5, <1>6, <1>7, <1>8, <1>9, <1>10 DEF Acts

LEMMA PartChangesRequest ==
  ASSUME OInv, NEW s \in Slots, NEW part \in Parts, Deleting(s, part), NEW ok \in BOOLEAN,
         PartDone(s, part, ok)
  PROVE  requests'[s] # requests[s]
<1> DEFINE left == requests[s].left \ {part}
<1>1. Live(s) /\ part \in requests[s].left BY DEF Deleting, At
<1>2. CASE left = {} BY <1>1, <1>2, PartChanges DEF Live
<1>3. CASE left # {}
  <2>1. requests'[s].left = left BY <1>3, PartChanges
  <2> QED BY <1>1, <2>1
<1> QED BY <1>2, <1>3

LEMMA OwnerChanges ==
  ASSUME OInv, NEW s \in Slots, Acts(s), NEW i \in DOMAIN announcements,
         i \in DOMAIN announcements' => announcements'[i] # announcements[i]
  PROVE  /\ Live(s) /\ requests'[s] # requests[s]
         /\ requests[s].user = announcements[i].username /\ requests[s].id = i
<1> DEFINE r == requests[s]
<1>1. CASE storeAudioFileAnnouncement(s)
  <2>1. i \in DOMAIN announcements' /\ announcements'[i] = announcements[i]
    BY <1>1 DEF storeAudioFileAnnouncement, Failed
  <2> QED BY <2>1
<1>2. CASE modifyAnnouncement(s)
  <2>1. At(s, "update") BY <1>2 DEF modifyAnnouncement
  <2>2. ~ At(s, "find row") /\ Live(s) /\ r.stage = "update" BY <2>1 DEF At
  <2>3. r.id = i BY <1>2, <2>2 DEF modifyAnnouncement
  <2>4. \E code : Answer(s, code) BY <1>2, <2>2 DEF modifyAnnouncement
  <2>5. requests'[s] # requests[s] BY <2>2, <2>4, AnswerChanges DEF Live
  <2>6. RequestInv(r) BY <2>2, LiveIsRequest
  <2> QED BY <2>2, <2>3, <2>5, <2>6 DEF RequestInv, OwnerInv
<1>3. CASE DeleteRow(s)
  <2>1. Deleting(s, "row") /\ "row" \in Parts /\ r.id = i BY <1>3 DEF DeleteRow, Parts
  <2>2. Live(s) /\ r.stage = "delete" BY <2>1 DEF Deleting, At
  <2>3. \E ok \in BOOLEAN : PartDone(s, "row", ok) BY <1>3 DEF DeleteRow
  <2>4. requests'[s] # requests[s] BY <2>1, <2>3, PartChangesRequest
  <2>5. RequestInv(r) BY <2>2, LiveIsRequest
  <2> QED BY <2>1, <2>2, <2>4, <2>5 DEF RequestInv, OwnerInv
<1> QED BY <1>1, <1>2, <1>3, WhoChanges

LEMMA OwnerRemoves ==
  ASSUME OInv, NEW s \in Slots, Acts(s), NEW p \in audio \ audio'
  PROVE  /\ Live(s) /\ requests'[s] # requests[s]
         /\ \/ Moves(s, p)
            \/ /\ requests[s].path = p
               /\ \A i \in DOMAIN announcements :
                    announcements[i].path = p => announcements[i].username = requests[s].user
<1> DEFINE r == requests[s]
<1>1. CASE enableAnnouncement(s)
  <2>1. At(s, "move") /\ Live(s) /\ r.stage = "move" BY <1>1 DEF enableAnnouncement, At
  <2>2. r.temp = p /\ NewFile(s, 1) BY <1>1 DEF enableAnnouncement, tables
  <2>3. requests' = [requests EXCEPT ![s].path = given.files + 1, ![s].stage = "check"]
    BY <2>2 DEF NewFile
  <2>4. s \in DOMAIN requests /\ r \in Requests BY <2>1, LiveIsRequest
  <2>5. requests'[s] = [r EXCEPT !.path = given.files + 1, !.stage = "check"]
    BY <2>3, <2>4
  <2>6. requests'[s].stage = "check" BY <2>4, <2>5 DEF Requests
  <2> QED BY <2>1, <2>2, <2>6 DEF Moves
<1>2. CASE DeleteFile(s)
  <2>1. Deleting(s, "file") /\ "file" \in Parts /\ r.path = p BY <1>2 DEF DeleteFile, Parts
  <2>2. Live(s) /\ r.stage = "delete" BY <2>1 DEF Deleting, At
  <2>3. \E ok \in BOOLEAN : PartDone(s, "file", ok) BY <1>2 DEF DeleteFile
  <2>4. requests'[s] # requests[s] BY <2>1, <2>3, PartChangesRequest
  <2>5. RequestInv(r) BY <2>2, LiveIsRequest
  <2> QED BY <2>1, <2>2, <2>4, <2>5 DEF RequestInv, OwnerInv, DeletingInv, PathOf
<1> QED BY <1>1, <1>2, WhoChanges

(* What a removal nobody waits for takes away is nobody's. *)
LEMMA UnlinkedRemoves ==
  ASSUME OInv, Unlinked, NEW p \in audio \ audio'
  PROVE  p \in unlinking /\ ~ HasRow(p)
<1>1. p \in unlinking BY DEF Unlinked
<1> QED BY <1>1 DEF OInv, UnlinkingApart, HasRow

LEMMA EntitledStores ==
  ASSUME OInv, NEW s \in Slots, Acts(s), NEW o \in offhours' \ offhours
  PROVE  /\ Live(s) /\ requests'[s] = None /\ requests[s].api = "set_offhour"
         /\ Entitled(requests[s].user, o.route)
<1> DEFINE r == requests[s]
<1>1. StoreOffhour(s)
  <2>1. ~ deleteOffhourByFilename(s) BY DEF deleteOffhourByFilename
  <2> QED BY <2>1, WhoChanges
<1>2. Live(s) /\ r.stage = "store" /\ Answer(s, 200) BY <1>1 DEF StoreOffhour, At
<1>3. RequestInv(r) /\ Stage(r.api, r.stage) BY <1>2, AtStage
<1>4. o.route = r.route
  <2>1. \E id, message : o = [id |-> id, route |-> r.route, message |-> message,
                              redirects |-> r.action = "redirect"]
    BY <1>1 DEF StoreOffhour
  <2> QED BY <2>1
<1> QED BY <1>2, <1>3, <1>4, AnswerChanges DEF Stage, RequestInv, RouteInv

LEMMA DeletePlayed ==
  ASSUME OInv, NEW s \in Slots, Acts(s), NEW o \in offhours, \A p \in offhours' : p.id # o.id
  PROVE  /\ Live(s) /\ requests[s].api = "delete_announcement"
         /\ requests[s].path = o.message
<1> DEFINE r == requests[s]
<1>1. CASE StoreOffhour(s)
  <2>1. \E p \in offhours' : p.id = o.id
    <3>1. CASE r.task = 0 BY <1>1, <3>1 DEF StoreOffhour
    <3>2. CASE r.task # 0
      <4> DEFINE Stored(message) == [id |-> o.id, route |-> r.route, message |-> message,
                                     redirects |-> r.action = "redirect"]
      <4>1. \E message : (IF o.id = r.task THEN Stored(message) ELSE o) \in offhours'
        BY <1>1, <3>2 DEF StoreOffhour
      <4>2. \A message : Stored(message).id = o.id OBVIOUS
      <4> QED BY <4>1, <4>2
    <3> QED BY <3>1, <3>2
  <2> QED BY <2>1
<1>2. CASE deleteOffhourByFilename(s)
  <2>1. Live(s) /\ r.stage = "delete" BY <1>2 DEF deleteOffhourByFilename, Deleting, At
  <2>2. Stage(r.api, r.stage) BY <2>1, AtStage
  <2> QED BY <1>2, <2>1, <2>2 DEF Stage, deleteOffhourByFilename
<1> QED BY <1>1, <1>2, WhoChanges

(* Between the query that says whose an announcement is and the one that   *)
(* changes it, whatever the requests of others do, an announcement changes *)
(* or goes only by a request of its owner; a file goes only with its       *)
(* announcement, because there is none of it, or because an enable named   *)
(* it; and an off-hour is set only by a user who may configure its route,  *)
(* and goes only with the announcement it plays.                           *)
THEOREM OwnersOnly == Spec => OnlyOwnersChange
<1> DEFINE A ==
     /\ \A i \in DOMAIN announcements :
          (i \in DOMAIN announcements' => announcements'[i] # announcements[i])
            => \E s \in Slots :
                 /\ Live(s) /\ requests'[s] # requests[s]
                 /\ requests[s].user = announcements[i].username /\ requests[s].id = i
     /\ \A p \in audio \ audio' :
          \/ p \in unlinking /\ ~HasRow(p)
          \/ \E s \in Slots :
               /\ Live(s) /\ requests'[s] # requests[s]
               /\ \/ Moves(s, p)
                  \/ /\ requests[s].path = p
                     /\ \A i \in DOMAIN announcements :
                          announcements[i].path = p => announcements[i].username = requests[s].user
     /\ \A o \in offhours' \ offhours : \E s \in Slots :
          /\ Live(s) /\ requests'[s] = None /\ requests[s].api = "set_offhour"
          /\ LET u == requests[s].user IN
             \/ u \in adminOffhour
             \/ Direct[o.route] = u
             \/ u \in advancedOffhour /\ Direct[o.route] = None
     /\ \A o \in offhours : (\A p \in offhours' : p.id # o.id) =>
          \E s \in Slots : /\ Live(s) /\ requests[s].api = "delete_announcement"
                           /\ requests[s].path = o.message
<1>1. ASSUME OInv, [Next]_vars
      PROVE  [A]_vars
  <2>1. ASSUME UNCHANGED tables
        PROVE  A
    BY <2>1 DEF tables
  <2>2. CASE Arrive BY <2>1, <2>2 DEF Arrive
  <2>3. ASSUME NEW s \in Slots, Acts(s)
        PROVE  A
    BY <1>1, <2>3, OwnerChanges, OwnerRemoves, EntitledStores, DeletePlayed DEF Entitled
  <2>4. CASE Unlinked BY <1>1, <2>4, UnlinkedRemoves DEF Unlinked
  <2> QED BY <1>1, <2>2, <2>3, <2>4 DEF Next, Acts
<1> QED BY <1>1, OInvAlways, PTL DEF Spec, OnlyOwnersChange

LEMMA PartsEnd ==
  ASSUME NEW s \in Slots
  PROVE  /\ DeleteRow(s) => Deleting(s, "row") /\ \E ok \in BOOLEAN : PartDone(s, "row", ok)
         /\ DeleteFile(s) => Deleting(s, "file") /\ \E ok \in BOOLEAN : PartDone(s, "file", ok)
         /\ deleteOffhourByFilename(s) =>
              Deleting(s, "offhours") /\ \E ok \in BOOLEAN : PartDone(s, "offhours", ok)
         /\ "row" \in Parts /\ "file" \in Parts /\ "offhours" \in Parts
<1>1. (requests[s].path \in audio) \in BOOLEAN OBVIOUS
<1>2. DeleteFile(s) => Deleting(s, "file") /\ \E ok \in BOOLEAN : PartDone(s, "file", ok)
  BY <1>1 DEF DeleteFile
<1>3. DeleteRow(s) => Deleting(s, "row") /\ \E ok \in BOOLEAN : PartDone(s, "row", ok)
  BY DEF DeleteRow
<1>4. deleteOffhourByFilename(s) =>
        Deleting(s, "offhours") /\ \E ok \in BOOLEAN : PartDone(s, "offhours", ok)
  BY DEF deleteOffhourByFilename
<1> QED BY <1>2, <1>3, <1>4 DEF Parts

LEMMA ActsOnItsRequest ==
  ASSUME OInv, NEW s \in Slots, Acts(s)
  PROVE  OthersKept(s)
<1>1. CASE DeleteRow(s) \/ DeleteFile(s) \/ deleteOffhourByFilename(s)
  BY <1>1, PartsEnd, PartChanges
<1>2. CASE ~ (DeleteRow(s) \/ DeleteFile(s) \/ deleteOffhourByFilename(s))
  <2> SUFFICES \E q : requests' = [requests EXCEPT ![s] = q]
    BY DEF OthersKept, OInv
  <2>1. CASE list(s) \/ VerifyListen(s) \/ listenAnnouncement(s) \/ VerifyOwn(s)
    BY <2>1 DEF list, VerifyListen, listenAnnouncement, VerifyOwn, GoOn, Answer
  <2>2. CASE recordAnnouncement(s) \/ storeMp3Announcement(s) \/ StoreOffhour(s) \/ QueryFails(s)
    BY <2>2 DEF recordAnnouncement, storeMp3Announcement, StoreOffhour, QueryFails, Failed, Drop,
       Answer
  <2>3. CASE storeWavAnnouncement(s) \/ enableAnnouncement(s)
    BY <2>3 DEF storeWavAnnouncement, enableAnnouncement, NewFile, Answer
  <2>4. CASE storeAudioFileAnnouncement(s)
    BY <2>4 DEF storeAudioFileAnnouncement, Failed, GoOn, Answer
  <2>5. CASE modifyAnnouncement(s)
    BY <2>5 DEF modifyAnnouncement, GoOn, Answer
  <2>6. CASE FindDeleted(s)
    BY <2>6 DEF FindDeleted, Answer
  <2>7. CASE verifyAudioMessagePermission(s) \/ VerifyRoute(s)
    BY <2>7 DEF verifyAudioMessagePermission, VerifyRoute, GoOn, Answer
  <2>8. CASE setOffhour(s)
    BY <2>8 DEF setOffhour, Answer
  <2> QED BY <1>2, <2>1, <2>2, <2>3, <2>4, <2>5, <2>6, <2>7, <2>8 DEF Acts
<1> QED BY <1>1, <1>2

(* Of a delete, only one of the three parts answers 200. *)
LEMMA PartsAnswer ==
  ASSUME OInv, NEW s \in Slots, Acts(s), Live(s), requests[s].api = "delete_announcement",
         answer' = 200
  PROVE  DeleteRow(s) \/ DeleteFile(s) \/ deleteOffhourByFilename(s)
<1> DEFINE r == requests[s]
<1>1. Stage(r.api, r.stage) BY LiveIsRequest DEF RequestInv, RequestTyped
<1>2. r.stage \in {"verify own", "find row", "delete"} BY <1>1 DEF Stage
<1>3. None # 200 BY NoneAssumption
<1>4. ~ list(s) /\ ~ VerifyListen(s) /\ ~ listenAnnouncement(s) /\ ~ recordAnnouncement(s)
  BY <1>2 DEF list, VerifyListen, listenAnnouncement, recordAnnouncement, At
<1>5. ~ storeWavAnnouncement(s) /\ ~ enableAnnouncement(s) /\ ~ storeMp3Announcement(s)
  BY <1>2 DEF storeWavAnnouncement, enableAnnouncement, storeMp3Announcement, At
<1>6. ~ storeAudioFileAnnouncement(s) /\ ~ modifyAnnouncement(s) /\ ~ StoreOffhour(s)
  BY <1>2 DEF storeAudioFileAnnouncement, modifyAnnouncement, StoreOffhour, At
<1>7. ~ verifyAudioMessagePermission(s) /\ ~ VerifyRoute(s) /\ ~ setOffhour(s)
  BY <1>2 DEF verifyAudioMessagePermission, VerifyRoute, setOffhour, At
<1>8. ~ VerifyOwn(s)
  <2>1. VerifyOwn(s) => GoOn(s, "find row") \/ Answer(s, 403) BY DEF VerifyOwn
  <2>2. GoOn(s, "find row") => answer' = None BY DEF GoOn
  <2>3. Answer(s, 403) => answer' = 403 BY DEF Answer
  <2>4. 403 # 200 OBVIOUS
  <2> QED BY <1>3, <2>1, <2>2, <2>3, <2>4
<1>9. ~ FindDeleted(s)
  <2>1. FindDeleted(s) => answer' = None \/ Answer(s, 500) BY DEF FindDeleted
  <2>2. Answer(s, 500) => answer' = 500 BY DEF Answer
  <2> QED BY <1>3, <2>1, <2>2
<1>10. ~ QueryFails(s) BY <1>3 DEF QueryFails, Failed, Drop, Answer
<1> QED BY <1>4, <1>5, <1>6, <1>7, <1>8, <1>9, <1>10 DEF Acts

LEMMA DeletedStep ==
  ASSUME OInv, NEW s \in Slots, Acts(s), Live(s), requests[s].api = "delete_announcement",
         answer' = 200
  PROVE  requests[s].id \notin DOMAIN announcements' /\ requests[s].path \notin audio'
<1> DEFINE r == requests[s]
<1>1. PICK part \in Parts : Deleting(s, part) /\ \E ok \in BOOLEAN : PartDone(s, part, ok)
  BY PartsAnswer, PartsEnd
<1>2. r.left \ {part} = {} /\ r.task = None BY <1>1, PartChanges
<1>3. r.stage = "delete" BY <1>1 DEF Deleting, At
<1>4. RequestInv(r) BY LiveIsRequest
<1>5. /\ "row" \in r.left \/ r.id \notin DOMAIN announcements
      /\ "file" \in r.left \/ r.path \notin audio
  BY <1>2, <1>3, <1>4 DEF RequestInv, DeletingInv
<1>6. CASE DeleteRow(s)
  <2>1. Deleting(s, "row") /\ "row" \in Parts BY <1>6 DEF DeleteRow, Parts
  <2>2. ~ PartDone(s, "row", FALSE) BY <2>1, PartChanges
  <2>3. /\ announcements' = [i \in DOMAIN announcements \ {r.id} |-> announcements[i]]
        /\ audio' = audio /\ PartDone(s, "row", TRUE)
    BY <1>6, <2>2 DEF DeleteRow
  <2>4. r.left \ {"row"} = {} BY <2>1, <2>3, PartChanges
  <2> QED BY <1>5, <2>3, <2>4
<1>7. CASE DeleteFile(s)
  <2>1. Deleting(s, "file") /\ "file" \in Parts BY <1>7 DEF DeleteFile, Parts
  <2>2. ~ PartDone(s, "file", FALSE) BY <2>1, PartChanges
  <2>3. /\ audio' = audio \ {r.path} /\ announcements' = announcements
    BY <1>7, <2>2 DEF DeleteFile
  <2>4. r.left \ {"file"} = {} BY <1>7, PartsEnd, PartChanges
  <2> QED BY <1>5, <2>3, <2>4
<1>8. CASE deleteOffhourByFilename(s)
  <2>1. Deleting(s, "offhours") /\ "offhours" \in Parts /\ UNCHANGED <<announcements, audio>>
    BY <1>8 DEF deleteOffhourByFilename, Parts
  <2>2. \E ok \in BOOLEAN : PartDone(s, "offhours", ok) BY <1>8 DEF deleteOffhourByFilename
  <2>3. r.left \ {"offhours"} = {} BY <2>1, <2>2, PartChanges
  <2> QED BY <1>5, <2>1, <2>3
<1> QED BY <1>6, <1>7, <1>8, PartsAnswer

(* A delete that is answered 200 left neither the announcement nor its     *)
(* file, however its three parts and the requests of others came.          *)
THEOREM DeletedGone == Spec => DeletedIsGone
<1> DEFINE A ==
     \A s \in Slots :
       (Live(s) /\ requests'[s] = None /\ requests[s].api = "delete_announcement" /\ answer' = 200)
         => requests[s].id \notin DOMAIN announcements' /\ requests[s].path \notin audio'
<1>1. ASSUME OInv, [Next]_vars
      PROVE  [A]_vars
  <2>1. CASE UNCHANGED vars BY <2>1
  <2>2. CASE Arrive
    <3>1. ASSUME NEW s \in Slots, Live(s)
          PROVE  requests'[s] # None
      <4>1. PICK t \in Slots : ~ Live(t) /\ \E q : requests' \in {requests, [requests EXCEPT ![t] = q]}
        BY <2>2 DEF Arrive
      <4>2. requests'[s] = requests[s] BY <1>1, <3>1, <4>1 DEF OInv
      <4> QED BY <3>1, <4>2 DEF Live
    <3> QED BY <3>1
  <2>3. ASSUME NEW t \in Slots, Acts(t)
        PROVE  A
    <3> SUFFICES ASSUME NEW s \in Slots, Live(s), requests'[s] = None,
                        requests[s].api = "delete_announcement", answer' = 200
                 PROVE  requests[s].id \notin DOMAIN announcements' /\ requests[s].path \notin audio'
      OBVIOUS
    <3>1. s = t BY <1>1, <2>3, ActsOnItsRequest DEF OthersKept, Live
    <3> QED BY <1>1, <2>3, <3>1, DeletedStep
  <2>4. CASE Unlinked BY <1>1, <2>4 DEF Unlinked, Live
  <2> QED BY <1>1, <2>1, <2>2, <2>3, <2>4 DEF Next, Acts
<1> QED BY <1>1, OInvAlways, PTL DEF Spec, DeletedIsGone
=============================================================================
