------------------------------ MODULE OffHour ------------------------------
(***************************************************************************)
(* The off-hours of the incoming routes and their announcements: the REST  *)
(* requests of com_offhour_rest, the component offhour and the queries of  *)
(* dbconn_offhour on the tables offhour and offhour_files.                 *)
(*                                                                         *)
(* An announcement is a row of offhour_files and an audio file, an         *)
(* off-hour a row of offhour that may play such a file: three stores with  *)
(* no transaction over them.  Requests of several users run beside each    *)
(* other; a query, or an operation on the file system, runs and calls back *)
(* in one step, and the callback asks for the next one.                    *)
(***************************************************************************)
EXTENDS Naturals, FiniteSets

CONSTANTS Users,
          offhourUsers,      \* the users with the macro permission off_hour
          advancedOffhour,   \* those with advanced_off_hour
          adminOffhour,      \* those with ad_off_hour
          Routes,            \* the incoming routes of the exchange
          Direct,            \* the user whose extension a route rings, or None
          VoicemailOf,       \* the users with a mailbox
          Descriptions,
          Slots,             \* the requests under way at once
          Most,              \* bounds on the announcements, the off-hours and the files made
          None

ASSUME PermissionsAssumption ==
  /\ offhourUsers \subseteq Users
  /\ advancedOffhour \subseteq offhourUsers
  /\ adminOffhour \subseteq offhourUsers
ASSUME RoutesAssumption == Direct \in [Routes -> Users \cup {None}] /\ None \notin Users
ASSUME MostAssumption == Most \in [announcements : Nat, offhours : Nat, files : Nat]

\* A file is named after its user and the moment; users have one a millisecond.
Paths == 1..Most.files
Ids == 1..Most.announcements
AudioActions == {"audiomsg", "audiomsg_voicemail"}
Actions == AudioActions \cup {"redirect"}
Privacies == {"public", "private"}
Announcement == [username : Users, description : Descriptions, privacy : Privacies, path : Paths]
OffhourRow == [id : 1..Most.offhours, route : Routes, redirects : BOOLEAN, message : Paths \cup {None}]

VARIABLES announcements,  \* the table offhour_files, by id
          offhours,       \* the table offhour
          audio,          \* the files of announcements
          recorded,       \* the temporary files recorded on the phones
          given,          \* ids and moments given out: of announcements, of off-hours, of files
          unlinking,      \* the files an unlink nobody waits for will remove, or fail to
          astray,         \* the files a failure, or a move, parted from their rows
          requests,       \* the request of every slot, or None
          answer          \* the answer a client has in this step, or None

tables == <<announcements, offhours, audio, recorded, given, unlinking, astray>>
vars == <<announcements, offhours, audio, recorded, given, unlinking, astray, requests, answer>>

Live(s) == requests[s] # None
At(s, stage) == Live(s) /\ requests[s].stage = stage

----------------------------------------------------------------------------
(* The requests, as they are when their parameters are right; they name    *)
(* announcements the lists show, which others may delete in the meantime,  *)
(* and an enable any file: its name is a string that is joined to the      *)
(* directory of the recordings, and nothing looks where it leads.          *)
(* The request download_announcement differs from listen_announcement in   *)
(* what is done with the file that is read, and list_announcement from     *)
(* list in the table.                                                      *)
Parts == {"row", "offhours", "file"}
OnAnnouncement == {"listen_announcement", "modify_announcement", "delete_announcement"}
New == {"enable_announcement", "upload_announcement"}
Apis == OnAnnouncement \cup New
          \cup {"list", "set_offhour", "record_announcement"}
Stages ==
  {"", "list", "record_announcement", "convert", "move", "check", "save", "verify own", "find row",
   "update", "delete", "verify listen", "content", "verify audio", "verify route", "path",
   "find offhour", "store"}
Requests ==
  [api : Apis, user : Users, stage : Stages, path : Paths \cup {None},
   task : Nat \cup {None, "answered", "silent"}, left : SUBSET Parts, id : Ids \cup {None},
   description : Descriptions \cup {None}, privacy : Privacies \cup {None},
   temp : Paths \cup {None}, route : Routes \cup {None}, action : Actions \cup {None}]
ASSUME NoneAssumption == None \notin Nat \cup {"answered", "silent"} /\ None \notin Requests
Among(api, those, S) == IF api \in those THEN S ELSE {None}
Inputs(api) ==
  [api : {api}, user : Users, stage : {""}, path : {None}, task : {None}, left : {{}},
   id : IF api \in OnAnnouncement THEN DOMAIN announcements
        ELSE Among(api, {"set_offhour"}, DOMAIN announcements \cup {None}),
   description : Among(api, New \cup {"modify_announcement"}, Descriptions),
   privacy : Among(api, New \cup {"modify_announcement"}, Privacies),
   temp : Among(api, {"enable_announcement"}, recorded \cup audio),
   route : Among(api, {"set_offhour"}, Routes),
   action : Among(api, {"set_offhour"}, Actions)]
\* An off-hour that redirects names no announcement.
OfAnnouncement(r) == r.api \in OnAnnouncement \/ r.action \in AudioActions

\* The requests on an announcement and on new ones need the macro permission,
\* and so do all: the other two are permissions of the same macro.
SetStage(r) == IF r.action \in AudioActions THEN "path" ELSE "find offhour"
Permitted(r) == r.user \in offhourUsers
FirstStage(r) ==
  CASE r.api \in {"list", "record_announcement"} -> r.api
    [] r.api = "upload_announcement" -> "convert"
    [] r.api = "enable_announcement" -> "move"
    [] r.api \in {"modify_announcement", "delete_announcement"} -> "verify own"
    [] r.api = "listen_announcement" ->
         IF r.user \in adminOffhour THEN "content" ELSE "verify listen"
    [] OTHER ->
         IF r.user \in adminOffhour THEN SetStage(r)
         ELSE IF r.action \in AudioActions THEN "verify audio" ELSE "verify route"

GoOn(s, stage) == requests' = [requests EXCEPT ![s].stage = stage] /\ answer' = None
Answer(s, code) == requests' = [requests EXCEPT ![s] = None] /\ answer' = code
Drop(s) == Answer(s, None)

Init ==
  /\ announcements = [i \in {} |-> None]
  /\ offhours = {}
  /\ audio = {}
  /\ recorded = {}
  /\ given = [announcements |-> 0, offhours |-> 0, files |-> 0]
  /\ unlinking = {}
  /\ astray = {}
  /\ requests = [s \in Slots |-> None]
  /\ answer = None

Arrive ==
  \E s \in Slots :
    /\ ~Live(s)
    /\ \E api \in Apis : \E r \in Inputs(api) :
         /\ r.id # None <=> OfAnnouncement(r)
         /\ IF Permitted(r)
            THEN requests' = [requests EXCEPT ![s] = [r EXCEPT !.stage = FirstStage(r)]] /\ answer' = None
            ELSE UNCHANGED requests /\ answer' = 403
    /\ UNCHANGED tables

----------------------------------------------------------------------------
(* What users see.                                                         *)
IsAdvanced(u) == u \in advancedOffhour
getAllInboundRoutes(u, param) ==
  CASE param = "all" -> Routes
    [] param = "advanced" -> {r \in Routes : Direct[r] \in {None, u}}
    [] param = "basic" -> {r \in Routes : Direct[r] = u}
listAllPublicAndUserPrivateAnnouncement(u) ==
  {i \in DOMAIN announcements : announcements[i].privacy = "public" \/ announcements[i].username = u}

\* The routes with their off-hours; and the announcements of everybody, or
\* those the user may play.
list(s) ==
  /\ At(s, "list")
  /\ Answer(s, 200)
  /\ UNCHANGED tables

\* authorization: a row that is not there is nobody's.
verifyOffhourListenAnnouncement(u, id) == id \in listAllPublicAndUserPrivateAnnouncement(u)
\* A mistake: who may listen to an announcement may change it.
verifyOffhourAnyAnnouncement(u, id) == verifyOffhourListenAnnouncement(u, id)
\* To change one it has to be the user's, the administrator's too.
verifyOffhourUserAnnouncement(u, id) ==
  id \in DOMAIN announcements /\ announcements[id].username = u

VerifyListen(s) ==
  /\ At(s, "verify listen")
  /\ IF verifyOffhourListenAnnouncement(requests[s].user, requests[s].id)
     THEN GoOn(s, "content") ELSE Answer(s, 403)
  /\ UNCHANGED tables
\* The path, and then the file to read or to copy, which may be gone.
listenAnnouncement(s) ==
  /\ At(s, "content")
  /\ \E code \in IF requests[s].id \in DOMAIN announcements THEN {200, 500} ELSE {500} :
       Answer(s, code)
  /\ UNCHANGED tables

----------------------------------------------------------------------------
(* New announcements.                                                      *)

\* Asterisk rings the phone of the user, who speaks, or does not.
recordAnnouncement(s) ==
  /\ At(s, "record_announcement")
  /\ given.files < Most.files
  /\ given' = [given EXCEPT !.files = @ + 1]
  /\ \E file \in {{}, {given.files + 1}} : recorded' = recorded \cup file
  /\ \E code \in {200, 500} : Answer(s, code)
  /\ UNCHANGED <<announcements, offhours, audio, unlinking, astray>>

\* The file of an announcement is made, with the n - 1 temporary ones of its
\* conversion that are not removed yet.
Made(n) == (given.files + 1)..(given.files + n)
MakeFiles(n) == given.files + n <= Most.files /\ given' = [given EXCEPT !.files = @ + n]
NewFile(s, n) ==
  /\ MakeFiles(n)
  /\ requests' = [requests EXCEPT ![s].path = given.files + 1, ![s].stage = "check"]
  /\ answer' = None
  /\ UNCHANGED <<announcements, offhours>>
\* The audio of an upload is converted and written, the file that is named moved,
\* whosever it was.
storeWavAnnouncement(s) ==
  /\ At(s, "convert")
  /\ \E n \in 1..2 :
       /\ NewFile(s, n)
       /\ audio' = audio \cup Made(n)
       /\ unlinking' = unlinking \cup (Made(n) \ Made(1))
  /\ UNCHANGED <<recorded, astray>>
enableAnnouncement(s) ==
  /\ At(s, "move")
  /\ LET temp == requests[s].temp IN
     IF temp \in recorded \cup audio
     THEN /\ NewFile(s, 1)
          /\ recorded' = recorded \ {temp}
          /\ audio' = (audio \ {temp}) \cup Made(1)
          /\ astray' = astray \cup ({temp} \cap audio)
          /\ UNCHANGED unlinking
     ELSE Answer(s, 500) /\ UNCHANGED tables
\* A content that cannot be written, or converted, and then its temporary file
\* goes.  When it is the one in MP3 the file stays and the client hears nothing,
\* because the function that logs the failure throws.
storeMp3Announcement(s) ==
  /\ At(s, "convert")
  /\ \/ Answer(s, 500) /\ UNCHANGED tables
     \/ /\ MakeFiles(1)
        /\ audio' = audio \cup Made(1)
        /\ \/ Answer(s, 500) /\ unlinking' = unlinking \cup Made(1) /\ UNCHANGED astray
           \/ Drop(s) /\ astray' = astray \cup Made(1) /\ UNCHANGED unlinking
        /\ UNCHANGED <<announcements, offhours, recorded>>

SameDescription(r) ==
  {i \in DOMAIN announcements : /\ announcements[i].username = r.user
                                /\ announcements[i].description = r.description}
\* A mistake: the file of a row that is not stored stays.
FailedLeaving(s) == Answer(s, 500) /\ UNCHANGED <<announcements, given, unlinking>>
\* The file of a row that is not stored is going to be removed.
Failed(s) ==
  /\ Answer(s, 500)
  /\ unlinking' = unlinking \cup {requests[s].path}
  /\ UNCHANGED <<announcements, given>>
\* The rows of the user with the description are looked for, and then the row
\* is saved: the key of the table refuses the second of two at once.
storeAudioFileAnnouncement(s) ==
  /\ \/ /\ At(s, "check")
        /\ IF SameDescription(requests[s]) = {}
           THEN GoOn(s, "save") /\ UNCHANGED <<announcements, given, unlinking>>
           ELSE Failed(s)
     \/ /\ At(s, "save")
        /\ LET r == requests[s] IN
           IF SameDescription(r) # {} THEN Failed(s)
           ELSE /\ given.announcements < Most.announcements
                /\ announcements' =
                     [i \in DOMAIN announcements \cup {given.announcements + 1} |->
                        IF i \in DOMAIN announcements THEN announcements[i]
                        ELSE [username |-> r.user, description |-> r.description,
                              privacy |-> r.privacy, path |-> r.path]]
                /\ given' = [given EXCEPT !.announcements = @ + 1]
                /\ UNCHANGED unlinking
                /\ Answer(s, 200)
  /\ UNCHANGED <<offhours, audio, recorded, astray>>

\* An unlink nobody waits for ends, or never does.
Unlinked ==
  /\ \E p \in unlinking : unlinking' = unlinking \ {p} /\ audio' = audio \ {p}
  /\ answer' = None
  /\ UNCHANGED <<announcements, offhours, recorded, given, astray, requests>>

----------------------------------------------------------------------------
(* Announcements that change or go.                                        *)
VerifyOwn(s) ==
  /\ At(s, "verify own")
  /\ IF verifyOffhourUserAnnouncement(requests[s].user, requests[s].id)
     THEN GoOn(s, "find row") ELSE Answer(s, 403)
  /\ UNCHANGED tables

\* The row is found, and what its object says is then written; the key of the
\* table refuses a description the user has already.
modifyAnnouncement(s) ==
  /\ Live(s) /\ requests[s].api = "modify_announcement"
  /\ LET r == requests[s] IN
     \/ /\ At(s, "find row")
        /\ IF r.id \in DOMAIN announcements THEN GoOn(s, "update") ELSE Answer(s, 500)
        /\ UNCHANGED announcements
     \/ /\ At(s, "update")
        /\ IF r.id \in DOMAIN announcements /\ SameDescription(r) \ {r.id} # {}
           THEN Answer(s, 500) /\ UNCHANGED announcements
           ELSE /\ announcements' = [i \in DOMAIN announcements |->
                     IF i # r.id THEN announcements[i]
                     ELSE [announcements[i] EXCEPT !.description = r.description,
                                                   !.privacy = r.privacy]]
                /\ Answer(s, 200)
  /\ UNCHANGED <<offhours, audio, recorded, given, unlinking, astray>>

\* The row, the off-hours that play the file and the file go in parallel.
FindDeleted(s) ==
  /\ At(s, "find row") /\ requests[s].api = "delete_announcement"
  /\ IF requests[s].id \in DOMAIN announcements
     THEN /\ requests' = [requests EXCEPT ![s].path = announcements[requests[s].id].path,
                                          ![s].stage = "delete",
                                          ![s].left = Parts]
          /\ answer' = None
     ELSE Answer(s, 500)
  /\ UNCHANGED tables

\* A mistake: the last part to end answers, whatever the others did.
PartDoneLast(s, part, ok) ==
  LET left == requests[s].left \ {part} IN
  /\ requests' = [requests EXCEPT ![s] = IF left = {} THEN None ELSE [@ EXCEPT !.left = left]]
  /\ answer' = IF left # {} THEN None ELSE IF ok THEN 200 ELSE 500
\* The first error is answered; that of the row is not, its part does not end,
\* and the success of the others is not answered then.  The other parts go on.
PartDone(s, part, ok) ==
  LET left == requests[s].left \ {part}
      was == requests[s].task
      told == ~ok /\ part # "row" /\ was # "answered"
      is == IF told THEN "answered" ELSE IF ~ok /\ was = None THEN "silent" ELSE was
  IN /\ requests' = [requests EXCEPT ![s] =
           IF left = {} THEN None ELSE [@ EXCEPT !.left = left, !.task = is]]
     /\ answer' = IF told THEN 500 ELSE IF left = {} /\ is = None THEN 200 ELSE None
Deleting(s, part) == At(s, "delete") /\ part \in requests[s].left

DeleteRow(s) ==
  /\ Deleting(s, "row")
  /\ \/ /\ announcements' = [i \in DOMAIN announcements \ {requests[s].id} |-> announcements[i]]
        /\ PartDone(s, "row", TRUE)
        /\ UNCHANGED astray
     \/ /\ PartDone(s, "row", FALSE)
        /\ astray' = astray \cup {requests[s].path}
        /\ UNCHANGED announcements
  /\ UNCHANGED <<offhours, audio, recorded, given, unlinking>>
DeleteFile(s) ==
  /\ Deleting(s, "file")
  /\ \/ /\ audio' = audio \ {requests[s].path}
        /\ PartDone(s, "file", requests[s].path \in audio)
        /\ UNCHANGED astray
     \/ /\ PartDone(s, "file", FALSE)
        /\ astray' = astray \cup {requests[s].path}
        /\ UNCHANGED audio
  /\ UNCHANGED <<announcements, offhours, recorded, given, unlinking>>
deleteOffhourByFilename(s) ==
  /\ Deleting(s, "offhours")
  /\ \/ /\ offhours' = {o \in offhours : o.message # requests[s].path}
        /\ PartDone(s, "offhours", TRUE)
     \/ UNCHANGED offhours /\ PartDone(s, "offhours", FALSE)
  /\ UNCHANGED <<announcements, audio, recorded, given, unlinking, astray>>

----------------------------------------------------------------------------
(* Off-hours.                                                              *)
verifyAudioMessagePermission(s) ==
  /\ At(s, "verify audio")
  /\ LET r == requests[s] IN
     IF r.id \notin listAllPublicAndUserPrivateAnnouncement(r.user) THEN Answer(s, 403)
     ELSE IF r.action = "audiomsg_voicemail" /\ ~IsAdvanced(r.user) /\ r.user \notin VoicemailOf
     THEN Answer(s, 403)
     ELSE GoOn(s, "verify route")
  /\ UNCHANGED tables

verifyBasicInboundRouteOfUser(u, route) == route \in getAllInboundRoutes(u, "basic")
verifyAdvancedInboundRouteOfUser(u, route) == route \in getAllInboundRoutes(u, "advanced")
VerifiesRoute(u, route) ==
  IF IsAdvanced(u) THEN verifyAdvancedInboundRouteOfUser(u, route)
  ELSE verifyBasicInboundRouteOfUser(u, route)
VerifyRoute(s) ==
  /\ At(s, "verify route")
  /\ IF VerifiesRoute(requests[s].user, requests[s].route)
     THEN GoOn(s, SetStage(requests[s])) ELSE Answer(s, 403)
  /\ UNCHANGED tables

\* The path of the announcement is read, after the routes again, and then
\* whether the route has an off-hour; the row is updated or inserted then.
setOffhour(s) ==
  /\ LET r == requests[s] IN
     \/ /\ At(s, "path")
        /\ IF r.id \in DOMAIN announcements
           THEN /\ requests' = [requests EXCEPT ![s].path = announcements[r.id].path,
                                                ![s].stage = "find offhour"]
                /\ answer' = None
           ELSE Answer(s, 500)
     \/ /\ At(s, "find offhour")
        /\ LET found == {o \in offhours : o.route = r.route} IN
           /\ \E task \in IF found = {} THEN {0} ELSE {o.id : o \in found} :
                requests' = [requests EXCEPT ![s].task = task, ![s].stage = "store"]
           /\ answer' = None
  /\ UNCHANGED tables
\* Of an off-hour that redirects now the message is not written, or is emptied.
StoreOffhour(s) ==
  /\ At(s, "store")
  /\ LET r == requests[s]
         Stored(id, message) == [id |-> id, route |-> r.route, message |-> message,
                                 redirects |-> r.action = "redirect"]
     IN IF r.task = 0
        THEN /\ given.offhours < Most.offhours
             /\ given' = [given EXCEPT !.offhours = @ + 1]
             /\ offhours' = offhours \cup {Stored(given.offhours + 1, r.path)}
        ELSE /\ \E message \in {r.path} \cup {o.message : o \in {x \in offhours : x.id = r.task}} :
                  /\ r.action \in AudioActions => message = r.path
                  /\ offhours' = {IF o.id = r.task THEN Stored(o.id, message) ELSE o : o \in offhours}
             /\ UNCHANGED given
  /\ Answer(s, 200)
  /\ UNCHANGED <<announcements, audio, recorded, unlinking, astray>>

----------------------------------------------------------------------------
\* A query fails, or a file cannot be moved or written: 500, except for the
\* update of an off-hour, whose failure nobody handles.
Asks == {"list", "record_announcement", "move", "verify own", "verify listen",
         "content", "find row", "update", "verify audio", "verify route", "path", "find offhour",
         "store"}
QueryFails(s) ==
  /\ \/ /\ Live(s) /\ requests[s].stage \in Asks
        /\ IF requests[s].stage = "store" /\ requests[s].task # 0 THEN Drop(s) ELSE Answer(s, 500)
        /\ UNCHANGED <<announcements, given, unlinking>>
     \/ (At(s, "check") \/ At(s, "save")) /\ Failed(s)
  /\ UNCHANGED <<offhours, audio, recorded, astray>>

Next ==
  \/ Arrive \/ Unlinked
  \/ \E s \in Slots :
       \/ list(s) \/ VerifyListen(s) \/ listenAnnouncement(s) \/ recordAnnouncement(s)
       \/ storeWavAnnouncement(s) \/ enableAnnouncement(s) \/ storeMp3Announcement(s)
       \/ storeAudioFileAnnouncement(s) \/ VerifyOwn(s) \/ modifyAnnouncement(s) \/ FindDeleted(s)
       \/ DeleteRow(s) \/ DeleteFile(s) \/ deleteOffhourByFilename(s)
       \/ verifyAudioMessagePermission(s) \/ VerifyRoute(s) \/ setOffhour(s) \/ StoreOffhour(s)
       \/ QueryFails(s)

Spec == Init /\ [][Next]_vars

----------------------------------------------------------------------------
(* Properties.                                                             *)

\* The rows of the two tables are whole and have the ids that were given out,
\* and no user has two announcements of one description.
TypeOK ==
  /\ \A kind \in DOMAIN Most : given[kind] \in 0..Most[kind]
  /\ DOMAIN announcements \subseteq 1..given.announcements
  /\ \A i \in DOMAIN announcements :
       /\ announcements[i] \in Announcement
       /\ SameDescription([user |-> announcements[i].username,
                           description |-> announcements[i].description]) = {i}
  /\ offhours \subseteq OffhourRow
  /\ \A o, p \in offhours : o.id = p.id => o = p /\ o.id <= given.offhours
  /\ audio \cup recorded \cup unlinking \cup astray \subseteq 1..given.files
  /\ \A s \in Slots : Live(s) => requests[s].api \in Apis /\ requests[s].path \in Paths \cup {None}

\* The table and the directory agree: every announcement has its file and every
\* file its announcement, except for what the requests under way are doing, for the
\* files that are being removed, which are no announcement's, and for what a
\* failure left behind or an enable moved away.
InHand(p) == \E s \in Slots : Live(s) /\ requests[s].path = p
               /\ requests[s].stage \in {"check", "save", "delete"}
HasRow(p) == \E i \in DOMAIN announcements : announcements[i].path = p
FilesFollowRows ==
  \A p \in Paths :
    \/ p \in audio <=> HasRow(p)
    \/ InHand(p) \/ p \in astray
    \/ p \in unlinking /\ ~HasRow(p)

\* Between the query that says whose an announcement is and the one that changes
\* it, whatever the requests of others do, an announcement changes or goes only
\* by a request of its owner; and a file goes only with its announcement, because
\* there is no announcement of it, or because an enable named it.  An off-hour is
\* set only by a user who may configure its route: its own, the generic ones with
\* the advanced permission, every one with that of the administrator; and it goes
\* only with the announcement it plays.
Moves(s, p) == At(s, "move") /\ requests[s].temp = p
OnlyOwnersChange ==
  [][/\ \A i \in DOMAIN announcements :
          (i \in DOMAIN announcements' => announcements'[i] # announcements[i])
            => \E s \in Slots :
                 /\ Live(s) /\ requests'[s] # requests[s]
                 /\ requests[s].user = announcements[i].username /\ requests[s].id = i
     /\ \A p \in audio \ audio' :
          \/ p \in unlinking /\ ~HasRow(p)
          \/ \E s \in Slots :
               /\ Live(s) /\ requests'[s] # requests[s]
               /\ \/ Moves(s, p)
                  \/ /\ requests[s].path = p
                     /\ \A i \in DOMAIN announcements :
                          announcements[i].path = p => announcements[i].username = requests[s].user
     /\ \A o \in offhours' \ offhours : \E s \in Slots :
          /\ Live(s) /\ requests'[s] = None /\ requests[s].api = "set_offhour"
          /\ LET u == requests[s].user IN
             \/ u \in adminOffhour
             \/ Direct[o.route] = u
             \/ u \in advancedOffhour /\ Direct[o.route] = None
     /\ \A o \in offhours : (\A p \in offhours' : p.id # o.id) =>
          \E s \in Slots : /\ Live(s) /\ requests[s].api = "delete_announcement"
                           /\ requests[s].path = o.message]_vars

\* A delete that is answered 200 left neither the announcement nor its file,
\* however its three parts and the requests of others came.
DeletedIsGone ==
  [][\A s \in Slots :
       (Live(s) /\ requests'[s] = None /\ requests[s].api = "delete_announcement" /\ answer' = 200)
         => requests[s].id \notin DOMAIN announcements' /\ requests[s].path \notin audio']_vars
=============================================================================
