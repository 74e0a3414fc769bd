------------------------ MODULE UserPresence_proofs ------------------------
(***************************************************************************)
(* Proofs about UserPresence, for any extensions, destinations and         *)
(* configurations and any number of series at once.                        *)
(***************************************************************************)
EXTENDS UserPresence, TLAPS

Presences == [status : AllStatuses, to : Dests \cup {Off}]

(* What updateUserPresence stores is a presence (2142-2195). *)
LEMMA UpdateType ==
  ASSUME NEW fl \in Flags, NEW cellphone, NEW last \in Dests \cup {Off}
  PROVE  Update(fl, cellphone, last) \in Presences
<1>1. Derived(fl, cellphone) \in AllStatuses BY DEF Derived, AllStatuses
<1>2. fl[Main]["cf"] \in Dests \cup {Off}
  BY ExtensAreThere DEF Flags, Mechanisms, ValuesOf
<1> QED BY <1>1, <1>2 DEF Update, Presences

(* A mechanism of an extension set to a value of its own keeps the flags typed. *)
LEMMA FlagType ==
  ASSUME NEW fl \in Flags, NEW e \in Exts, NEW m \in Mechanisms, NEW v \in ValuesOf(m)
  PROVE  [fl EXCEPT ![e][m] = v] \in Flags
<1>1. fl[e] \in [Mechanisms -> Values] /\ \A x \in Mechanisms : fl[e][x] \in ValuesOf(x)
  BY DEF Flags
<1>2. v \in Values BY DEF ValuesOf, Values
<1> DEFINE r == [fl[e] EXCEPT ![m] = v]
<1>3. r \in [Mechanisms -> Values] BY <1>1, <1>2
<1>4. \A x \in Mechanisms : r[x] \in ValuesOf(x) BY <1>1
<1> HIDE DEF r
<1>5. [fl EXCEPT ![e] = r] \in Flags BY <1>3, <1>4 DEF Flags
<1> QED BY <1>5 DEF r

(* What the answer to a command changes leaves well-typed flags (661-1000). *)
LEMMA WrittenType ==
  ASSUME TypeOK, NEW j \in Series, NEW fl \in Flags
  PROVE  Written(j, fl) \in Flags
<1> DEFINE e == StepExt(j, j.at)
           m == StepMech(j, j.at)
           v == IF Enables(j, j.at) THEN Setting(j.status, j.to) ELSE Off
<1>1. CASE j.at > ExtenSteps(j) BY <1>1 DEF Written
<1>2. CASE ~(j.at > ExtenSteps(j)) /\ e \in Exts /\ m \in Mechanisms
  <2>1. j.status \in AllStatuses /\ j.to \in Dests \cup {Off} BY DEF Series
  <2>2. endpoints.cellphone \in Dests \cup {Off} BY ConfigurationsAreEndpoints DEF TypeOK
  <2>3. v \in ValuesOf(m)
    BY <1>2, <2>1, <2>2 DEF Enables, Setting, Target, ValuesOf, AllStatuses, Mechanisms
  <2> HIDE DEF v, e, m
  <2>4. [fl EXCEPT ![e][m] = v] \in Flags BY <1>2, <2>3, FlagType
  <2> QED BY <1>2, <2>4 DEF Written, e, m, v
<1>3. CASE ~(j.at > ExtenSteps(j)) /\ ~(e \in Exts /\ m \in Mechanisms)
  <2>1. CASE e \notin Exts
    <3> DEFINE r == [fl[e] EXCEPT ![m] = v]
    <3>1. Written(j, fl) = [fl EXCEPT ![e] = r] BY <1>3 DEF Written
    <3> HIDE DEF r, e, m, v
    <3>2. [fl EXCEPT ![e] = r] = fl BY <2>1 DEF Flags
    <3> QED BY <3>1, <3>2
  <2>2. CASE e \in Exts /\ m \notin Mechanisms
    <3> DEFINE r == [fl[e] EXCEPT ![m] = v]
    <3>1. Written(j, fl) = [fl EXCEPT ![e] = r] BY <1>3 DEF Written
    <3> HIDE DEF e, m, v
    <3>2. r = fl[e] BY <2>2 DEF Flags
    <3> HIDE DEF r
    <3>3. [fl EXCEPT ![e] = r] = fl BY <3>2, <2>2 DEF Flags
    <3> QED BY <3>1, <3>3
  <2> QED BY <1>3, <2>1, <2>2
<1> QED BY <1>1, <1>2, <1>3

(* A series that goes on leaves well-typed series and presence behind. *)
LEMMA GoOnType ==
  ASSUME TypeOK, NEW j \in Series, NEW from \in Nat, NEW others \in Seq(Series),
         NEW fl \in Flags, GoOn(j, from, others, fl)
  PROVE  jobs' \in Seq(Series) /\ presence' \in Presences /\ bypassed' \in BOOLEAN
<1>1. Steps(j) \in Nat
  <2>1. j.exts \in Seq(Exts) BY DEF Series
  <2>2. Len(j.exts) \in Nat BY <2>1
  <2>3. Width \in {2, 3} BY DEF Width
  <2>4. ExtenSteps(j) \in Nat BY <2>2, <2>3 DEF ExtenSteps
  <2> QED BY <2>4 DEF Steps
<1>2. PICK i \in Commands(j, fl) \cup {Steps(j) + 1} :
        \/ jobs' = others /\ presence' = Updated(fl) /\ bypassed' = FALSE
        \/ jobs' = others /\ bypassed' = TRUE /\ presence' = presence
        \/ jobs' = Append(others, [j EXCEPT !.at = i]) /\ UNCHANGED <<presence, bypassed>>
  BY DEF GoOn
<1>3. i \in Nat BY <1>1, <1>2 DEF Commands
<1> DEFINE jj == [j EXCEPT !.at = i]
<1>4. jj \in Series BY <1>3 DEF Series
<1>5. Updated(fl) \in Presences BY UpdateType DEF Updated, TypeOK, Presences
<1>6. presence \in Presences /\ bypassed \in BOOLEAN BY DEF TypeOK, Presences
<1>7. \/ jobs' = others /\ presence' = Updated(fl) /\ bypassed' = FALSE
      \/ jobs' = others /\ bypassed' = TRUE /\ presence' = presence
      \/ jobs' = Append(others, jj) /\ presence' = presence /\ bypassed' = bypassed
  BY <1>2
<1> HIDE DEF jj, Series
<1>8. Append(others, jj) \in Seq(Series) BY <1>4
<1> QED BY <1>5, <1>6, <1>7, <1>8

LEMMA NewSeriesType ==
  ASSUME NEW s \in AllStatuses, NEW to \in Dests \cup {Off}, NEW exts \in Seq(Exts)
  PROVE  NewSeries(s, to, exts) \in Series
BY DEF NewSeries, Series

(* The extensions other than the changed one are extensions (395-613). *)
LEMMA OthersType == ASSUME NEW e \in Exts PROVE Others(e) \in Seq(Exts)
<1> DEFINE at == CHOOSE i \in DOMAIN Extens : Extens[i] = e
           n  == Len(Extens) - 1
<1>1. Extens \in Seq(Exts) BY ExtensAreThere
<1>2. at \in DOMAIN Extens BY DEF Exts
<1>3. at \in 1..Len(Extens) /\ Len(Extens) \in Nat BY <1>1, <1>2
<1> HIDE DEF at
<1>4. n \in Nat BY <1>3
<1>5. \A k \in 1..n : (IF k < at THEN Extens[k] ELSE Extens[k + 1]) \in Exts BY <1>1, <1>3
<1>6. [k \in 1..n |-> IF k < at THEN Extens[k] ELSE Extens[k + 1]] \in Seq(Exts)
  BY <1>4, <1>5
<1> QED BY <1>6 DEF Others, at

-----------------------------------------------------------------------------
(* Types. *)

(* The rest of the state after a step of a series that leaves flags fl. *)
LEMMA GoOnKeepsTypes ==
  ASSUME TypeOK, NEW j \in Series, NEW from \in Nat, NEW others \in Seq(Series),
         flags' \in Flags, GoOn(j, from, others, flags'), UNCHANGED settings,
         asterisk' \in {AsteriskPresence(s) : s \in AllStatuses},
         request' \in Presences \cup {NoRequest}, inputs' \in Nat, overlapped' \in BOOLEAN
  PROVE  TypeOK'
<1>1. jobs' \in Seq(Series) /\ presence' \in Presences /\ bypassed' \in BOOLEAN
  BY GoOnType
<1>2. endpoints' \in Configurations /\ channel' \in Channels BY DEF TypeOK, settings
<1> QED BY <1>1, <1>2 DEF TypeOK, Presences

LEMMA FollowType ==
  ASSUME TypeOK, NEW e \in Exts, NEW mech \in Mechanisms, NEW value \in ValuesOf(mech),
         NEW s \in AllStatuses, NEW to \in Dests \cup {Off},
         Follow(e, mech, value, s, to), inputs' \in Nat
  PROVE  TypeOK'
<1>1. flags' \in Flags BY FlagType DEF Follow, TypeOK
<1>2. NewSeries(s, to, Others(e)) \in Series BY OthersType, NewSeriesType
<1>3. GoOn(NewSeries(s, to, Others(e)), 1, jobs, flags') BY DEF Follow
<1>4. UNCHANGED settings /\ asterisk' \in {AsteriskPresence(x) : x \in AllStatuses}
  BY DEF Follow, TypeOK
<1>5. request' \in Presences \cup {NoRequest} /\ overlapped' \in BOOLEAN BY DEF Follow
<1>6. jobs \in Seq(Series) BY DEF TypeOK
<1> HIDE DEF NewSeries
<1> QED BY <1>1, <1>2, <1>3, <1>4, <1>5, <1>6, GoOnKeepsTypes

LEMMA InputType == ASSUME TypeOK, Input PROVE inputs' \in Nat
BY DEF TypeOK, Input

LEMMA TypeInit == Init => TypeOK
<1> SUFFICES ASSUME Init PROVE TypeOK OBVIOUS
<1>1. flags \in Flags BY DEF Init
<1>2. presence \in Presences BY <1>1, UpdateType DEF Init
<1>3. asterisk = AsteriskPresence("online") BY DEF Init, AsteriskPresence
<1>4. asterisk \in {AsteriskPresence(s) : s \in AllStatuses} BY <1>3 DEF AllStatuses
<1>5. jobs \in Seq(Series) /\ inputs \in Nat BY DEF Init
<1>6. request \in Presences \cup {NoRequest} /\ overlapped \in BOOLEAN /\ bypassed \in BOOLEAN
  BY DEF Init
<1>7. endpoints \in Configurations /\ channel \in Channels BY DEF Init
<1> QED BY <1>1, <1>2, <1>4, <1>5, <1>6, <1>7 DEF TypeOK, Presences

LEMMA TypeStep == TypeOK /\ [Next]_vars => TypeOK'
<1> SUFFICES ASSUME TypeOK, [Next]_vars PROVE TypeOK' OBVIOUS
<1>1. ASSUME NEW s \in AllStatuses, NEW to \in Dests \cup {Off}, SetPresence(s, to)
      PROVE  TypeOK'
  <2>1. NewSeries(s, to, Extens) \in Series BY ExtensAreThere, NewSeriesType
  <2>2. flags' \in Flags /\ GoOn(NewSeries(s, to, Extens), 1, jobs, flags')
    BY <1>1 DEF SetPresence, TypeOK
  <2>3. UNCHANGED settings /\ asterisk' \in {AsteriskPresence(x) : x \in AllStatuses}
    BY <1>1 DEF SetPresence, TypeOK
  <2>4. request' \in Presences /\ overlapped' \in BOOLEAN BY <1>1 DEF SetPresence, Presences
  <2>5. inputs' \in Nat BY <1>1, InputType DEF SetPresence
  <2>6. jobs \in Seq(Series) BY DEF TypeOK
  <2> QED BY <2>1, <2>2, <2>3, <2>4, <2>5, <2>6, GoOnKeepsTypes
<1>2. ASSUME NEW e \in Exts, NEW value \in {On, Off}, PhoneDnd(e, value) PROVE TypeOK'
  BY <1>2, FollowType, InputType DEF PhoneDnd, ValuesOf, Mechanisms, AllStatuses
<1>3. ASSUME NEW e \in Exts, NEW value \in {On, Off}, PhoneVm(e, value) PROVE TypeOK'
  BY <1>3, FollowType, InputType DEF PhoneVm, ValuesOf, Mechanisms, AllStatuses
<1>4. ASSUME NEW e \in Exts, NEW value \in Dests \cup {Off}, PhoneCf(e, value)
      PROVE  TypeOK'
  BY <1>4, FollowType, InputType DEF PhoneCf, ValuesOf, Mechanisms, AllStatuses
<1>5. ASSUME NEW e \in Exts, NEW mech \in Mechanisms, NEW value \in Values,
             SetOne(e, mech, value)
      PROVE  TypeOK'
  <2>1. flags' \in Flags BY <1>5, FlagType DEF SetOne, TypeOK
  <2> QED BY <1>5, <2>1, InputType DEF SetOne, TypeOK, settings
<1>6. CASE Answered
  <2> DEFINE j == Head(jobs)
  <2>1. j \in Series /\ Tail(jobs) \in Seq(Series) BY <1>6 DEF Answered, TypeOK
  <2>2. flags' \in Flags /\ GoOn(j, j.at + 1, Tail(jobs), flags')
    BY <1>6, <2>1, WrittenType DEF Answered, TypeOK
  <2>3. j.at + 1 \in Nat /\ j.status \in AllStatuses BY <2>1 DEF Series
  <2>4. asterisk' \in {AsteriskPresence(x) : x \in AllStatuses}
    BY <1>6, <2>3 DEF Answered, TypeOK
  <2>5. UNCHANGED <<settings, inputs, request, overlapped>> BY <1>6 DEF Answered
  <2> HIDE DEF j
  <2> QED BY <2>1, <2>2, <2>3, <2>4, <2>5, GoOnKeepsTypes DEF TypeOK, Presences
<1>7. CASE Failed
  <2>1. jobs' \in Seq(Series) BY <1>7 DEF Failed, TypeOK
  <2> QED BY <1>7, <2>1 DEF Failed, TypeOK, settings
<1>8. CASE Reload
  <2>1. endpoints' \in Configurations /\ presence' \in Presences
    BY <1>8, UpdateType DEF Reload, TypeOK
  <2> QED BY <1>8, <2>1 DEF Reload, TypeOK, Presences
<1>9. CASE UNCHANGED vars BY <1>9 DEF vars, TypeOK
<1> QED BY <1>1, <1>2, <1>3, <1>4, <1>5, <1>6, <1>7, <1>8, <1>9 DEF Next, Phones

(* The presence, the flags and the running series of a user are well typed. *)
THEOREM TypeCorrect == Spec => []TypeOK
BY TypeInit, TypeStep, PTL DEF Spec

-----------------------------------------------------------------------------
(* The presence that clients are shown. *)

(* Updating again, with the destination that is shown, changes nothing. *)
LEMMA UpdateAgain ==
  ASSUME NEW fl, NEW cellphone, NEW last
  PROVE  Update(fl, cellphone, last) = Update(fl, cellphone, Update(fl, cellphone, last).to)
BY DEF Update

(* A series ends with the update, ends with an error, or still runs. *)
LEMMA GoOnFollows ==
  ASSUME NEW j, NEW from, NEW others \in Seq(Series), GoOn(j, from, others, flags'),
         endpoints' = endpoints
  PROVE  PresenceFollowsMain'
<1>1. \/ presence' = Updated(flags')
      \/ bypassed' = TRUE
      \/ \E jj : jobs' = Append(others, jj)
  BY DEF GoOn
<1>2. CASE presence' = Updated(flags')
  BY <1>2, UpdateAgain DEF Updated, PresenceFollowsMain
<1>3. CASE bypassed' = TRUE BY <1>3 DEF PresenceFollowsMain
<1>4. CASE \E jj : jobs' = Append(others, jj)
  <2>1. PICK jj : jobs' = Append(others, jj) BY <1>4
  <2>2. Len(jobs') # 0 BY <2>1
  <2> QED BY <2>2 DEF PresenceFollowsMain
<1> QED BY <1>1, <1>2, <1>3, <1>4

LEMMA FollowFollows ==
  ASSUME TypeOK, NEW e, NEW mech, NEW value, NEW s, NEW to, Follow(e, mech, value, s, to)
  PROVE  PresenceFollowsMain'
<1>1. GoOn(NewSeries(s, to, Others(e)), 1, jobs, flags') /\ endpoints' = endpoints
  BY DEF Follow, settings
<1> QED BY <1>1, GoOnFollows DEF TypeOK

LEMMA PresenceStep == TypeOK /\ PresenceFollowsMain /\ [Next]_vars => PresenceFollowsMain'
<1> SUFFICES ASSUME TypeOK, PresenceFollowsMain, [Next]_vars PROVE PresenceFollowsMain'
  OBVIOUS
<1>1. ASSUME NEW s, NEW to, SetPresence(s, to) PROVE PresenceFollowsMain'
  <2>1. GoOn(NewSeries(s, to, Extens), 1, jobs, flags') /\ endpoints' = endpoints
    BY <1>1 DEF SetPresence, settings
  <2> QED BY <2>1, GoOnFollows DEF TypeOK
<1>2. CASE Phones BY <1>2, FollowFollows DEF Phones, PhoneDnd, PhoneCf, PhoneVm
<1>3. ASSUME NEW e \in Exts, NEW mech, NEW value, SetOne(e, mech, value)
      PROVE  PresenceFollowsMain'
  <2>1. CASE e = Main BY <1>3, <2>1 DEF SetOne, PresenceFollowsMain
  <2>2. CASE e # Main
    <3>1. flags'[Main] = flags[Main] BY <1>3, <2>2, ExtensAreThere DEF SetOne, TypeOK, Flags
    <3> QED BY <1>3, <2>2, <3>1
            DEF SetOne, settings, PresenceFollowsMain, Update, Derived
  <2> QED BY <2>1, <2>2
<1>4. CASE Answered
  <2>1. Tail(jobs) \in Seq(Series) BY <1>4 DEF Answered, TypeOK
  <2>2. GoOn(Head(jobs), Head(jobs).at + 1, Tail(jobs), flags') /\ endpoints' = endpoints
    BY <1>4 DEF Answered, settings
  <2> QED BY <2>1, <2>2, GoOnFollows
<1>5. CASE Failed BY <1>5 DEF Failed, PresenceFollowsMain
<1>6. CASE Reload BY <1>6, UpdateAgain DEF Reload, PresenceFollowsMain
<1>7. CASE UNCHANGED vars BY <1>7 DEF vars, PresenceFollowsMain
<1> QED BY <1>1, <1>2, <1>3, <1>4, <1>5, <1>6, <1>7 DEF Next

(* Clients are shown what the main extension does, for any number of extensions,
   series and settings on phones at once (2142-2195). *)
THEOREM PresenceFollows == Spec => []PresenceFollowsMain
<1>1. Init => PresenceFollowsMain BY UpdateAgain DEF Init, PresenceFollowsMain
<1> QED BY <1>1, PresenceStep, TypeCorrect, PTL DEF Spec

-----------------------------------------------------------------------------
(* What a request that nothing disturbed leaves behind. *)

(* The invariant: the series of such a request is the only one, and the steps it has *)
(* left behind have brought every extension to what the request wants of it; on busy *)
(* and on unavailable nobody turns on the do not disturb.                            *)
Carries(j) == j.status = request.status /\ j.to = request.to /\ j.exts = Extens
Wanted(j, m) == IF m = Target(j.status) THEN Setting(j.status, j.to) ELSE Off
DoneBefore(j, n, fl) ==
  \A k \in 1..ExtenSteps(j) :
    k < n => fl[StepExt(j, k)][StepMech(j, k)] = Wanted(j, StepMech(j, k))
NoDnd(fl) == channel # "always" => \A e \in Exts : fl[e]["dnd"] = Off
RequestInv ==
  /\ NoDnd(flags)
  /\ request # NoRequest /\ ~overlapped =>
       /\ request.status \in Statuses
       /\ Len(jobs) <= 1
       /\ jobs # <<>> =>
            LET j == Head(jobs)
            IN  Carries(j) /\ j.at \in 1..Steps(j) /\ DoneBefore(j, j.at, flags)
  /\ RequestTakesEffect

LEMMA StepNumbers ==
  ASSUME NEW j \in Series
  PROVE  /\ ExtenSteps(j) \in Nat /\ Steps(j) \in Nat /\ ExtenSteps(j) <= Steps(j)
         /\ channel = "always" => Steps(j) = ExtenSteps(j) + 1
         /\ channel # "always" => Steps(j) = ExtenSteps(j)
<1>1. Len(j.exts) \in Nat BY DEF Series
<1>2. Width \in {2, 3} BY DEF Width
<1>3. ExtenSteps(j) \in Nat BY <1>1, <1>2 DEF ExtenSteps
<1> QED BY <1>3 DEF Steps

(* Every step on an extension is one on an extension of the series and on a mechanism *)
(* of the channel.                                                                    *)
LEMMA StepIsThere ==
  ASSUME NEW j \in Series, NEW k \in 1..ExtenSteps(j)
  PROVE  /\ StepExt(j, k) \in Exts /\ StepMech(j, k) \in Mechanisms
         /\ channel # "always" => StepMech(j, k) # "dnd"
<1>1. j.exts \in Seq(Exts) /\ Len(j.exts) \in Nat BY DEF Series
<1>2. CASE channel = "always"
  <2>1. Width = 3 /\ ExtenSteps(j) = 3 * Len(j.exts) BY <1>2 DEF Width, ExtenSteps
  <2>2. ((k - 1) \div 3) + 1 \in 1..Len(j.exts) BY <1>1, <2>1
  <2>3. ((k - 1) % 3) + 1 \in {1, 2, 3} BY <1>1, <2>1
  <2>4. StepExt(j, k) \in Exts BY <1>1, <2>1, <2>2 DEF StepExt
  <2>5. \A p \in {1, 2, 3} : Order(j.status)[p] \in Mechanisms BY <1>2 DEF Order, Mechanisms
  <2>6. StepMech(j, k) \in Mechanisms BY <2>1, <2>3, <2>5 DEF StepMech
  <2> QED BY <1>2, <2>4, <2>6
<1>3. CASE channel # "always"
  <2>1. Width = 2 /\ ExtenSteps(j) = 2 * Len(j.exts) BY <1>3 DEF Width, ExtenSteps
  <2>2. ((k - 1) \div 2) + 1 \in 1..Len(j.exts) BY <1>1, <2>1
  <2>3. ((k - 1) % 2) + 1 \in {1, 2} BY <1>1, <2>1
  <2>4. StepExt(j, k) \in Exts BY <1>1, <2>1, <2>2 DEF StepExt
  <2>5. \A p \in {1, 2} : Order(j.status)[p] \in Mechanisms \ {"dnd"} BY <1>3 DEF Order, Mechanisms
  <2>6. StepMech(j, k) \in Mechanisms \ {"dnd"} BY <2>1, <2>3, <2>5 DEF StepMech
  <2> QED BY <2>4, <2>6
<1> QED BY <1>2, <1>3

(* The steps visit every extension with every mechanism of the channel. *)
LEMMA EveryStep ==
  ASSUME NEW j \in Series, j.exts = Extens, NEW e \in Exts, NEW m \in Mechanisms,
         channel # "always" => m # "dnd"
  PROVE  \E k \in 1..ExtenSteps(j) : StepExt(j, k) = e /\ StepMech(j, k) = m
<1>1. PICK x \in DOMAIN Extens : Extens[x] = e BY DEF Exts
<1>2. Extens \in Seq(Exts) BY ExtensAreThere
<1>3. x \in 1..Len(Extens) /\ Len(Extens) \in Nat BY <1>1, <1>2
<1>4. CASE channel = "always"
  <2>1. Width = 3 /\ ExtenSteps(j) = 3 * Len(Extens) BY <1>4 DEF Width, ExtenSteps
  <2>2. PICK p \in {1, 2, 3} : Order(j.status)[p] = m
    <3>1. \/ Order(j.status) = <<"cf", "vm", "dnd">> \/ Order(j.status) = <<"dnd", "vm", "cf">>
          \/ Order(j.status) = <<"dnd", "cf", "vm">>
      BY <1>4 DEF Order
    <3> QED BY <3>1 DEF Mechanisms
  <2> DEFINE k == 3 * (x - 1) + p
  <2>6. p \in {1, 2, 3} BY <2>2
  <2>3. /\ k \in 1..ExtenSteps(j)
        /\ ((k - 1) \div 3) + 1 = x /\ ((k - 1) % 3) + 1 = p
    <3>1. k \in 1..ExtenSteps(j) BY <1>3, <2>1, <2>6
    <3>2. p = 1 => (k - 1) \div 3 = x - 1 /\ (k - 1) % 3 = 0 BY <1>3
    <3>3. p = 2 => (k - 1) \div 3 = x - 1 /\ (k - 1) % 3 = 1 BY <1>3
    <3>4. p = 3 => (k - 1) \div 3 = x - 1 /\ (k - 1) % 3 = 2 BY <1>3
    <3>5. (k - 1) \div 3 = x - 1 /\ (k - 1) % 3 = p - 1 BY <2>6, <3>2, <3>3, <3>4
    <3> HIDE DEF k
    <3> QED BY <1>3, <2>6, <3>1, <3>5
  <2> HIDE DEF k
  <2>4. StepExt(j, k) = e BY <1>1, <1>3, <2>1, <2>3 DEF StepExt
  <2>5. StepMech(j, k) = m BY <2>1, <2>2, <2>3 DEF StepMech
  <2> QED BY <2>3, <2>4, <2>5
<1>5. CASE channel # "always"
  <2>1. Width = 2 /\ ExtenSteps(j) = 2 * Len(Extens) BY <1>5 DEF Width, ExtenSteps
  <2>2. PICK p \in {1, 2} : Order(j.status)[p] = m
    <3>1. Order(j.status) = <<"vm", "cf">> \/ Order(j.status) = <<"cf", "vm">>
      BY <1>5 DEF Order
    <3> QED BY <1>5, <3>1 DEF Mechanisms
  <2> DEFINE k == 2 * (x - 1) + p
  <2>6. p \in {1, 2} BY <2>2
  <2>3. /\ k \in 1..ExtenSteps(j)
        /\ ((k - 1) \div 2) + 1 = x /\ ((k - 1) % 2) + 1 = p
    <3>1. k \in 1..ExtenSteps(j) BY <1>3, <2>1, <2>6
    <3>2. p = 1 => (k - 1) \div 2 = x - 1 /\ (k - 1) % 2 = 0 BY <1>3
    <3>3. p = 2 => (k - 1) \div 2 = x - 1 /\ (k - 1) % 2 = 1 BY <1>3
    <3>4. (k - 1) \div 2 = x - 1 /\ (k - 1) % 2 = p - 1 BY <2>6, <3>2, <3>3
    <3> HIDE DEF k
    <3> QED BY <1>3, <2>6, <3>1, <3>4
  <2> HIDE DEF k
  <2>4. StepExt(j, k) = e BY <1>1, <1>3, <2>1, <2>3 DEF StepExt
  <2>5. StepMech(j, k) = m BY <2>1, <2>2, <2>3 DEF StepMech
  <2> QED BY <2>3, <2>4, <2>5
<1> QED BY <1>4, <1>5

(* The steps that send no command are done already. *)
LEMMA SkippedAreDone ==
  ASSUME NEW j \in Series, NEW from \in Nat, NEW fl, DoneBefore(j, from, fl), from >= 1,
         NEW i \in Commands(j, fl) \cup {Steps(j) + 1}, IsNext(j, from, i, fl)
  PROVE  DoneBefore(j, i, fl)
<1> SUFFICES ASSUME NEW k \in 1..ExtenSteps(j), k < i
             PROVE  fl[StepExt(j, k)][StepMech(j, k)] = Wanted(j, StepMech(j, k))
  BY DEF DoneBefore
<1>1. ExtenSteps(j) \in Nat /\ Steps(j) \in Nat /\ ExtenSteps(j) <= Steps(j) BY StepNumbers
<1>2. i \in Nat BY <1>1 DEF Commands
<1>3. CASE k < from BY <1>3 DEF DoneBefore
<1>4. CASE ~ (k < from)
  <2>1. k \notin Commands(j, fl) BY <1>1, <1>2, <1>4 DEF IsNext
  <2>2. k \in 1..Steps(j) BY <1>1
  <2>3. ~ Enables(j, k) /\ fl[StepExt(j, k)][StepMech(j, k)] = Off BY <2>1, <2>2 DEF Commands
  <2>4. StepMech(j, k) # Target(j.status) BY <1>1, <2>3 DEF Enables
  <2> QED BY <2>3, <2>4 DEF Wanted
<1> QED BY <1>3, <1>4

(* A command that is answered does its step and undoes no other. *)
LEMMA WrittenIsDone ==
  ASSUME NEW j \in Series, NEW fl \in Flags, DoneBefore(j, j.at, fl), j.at >= 1
  PROVE  DoneBefore(j, j.at + 1, Written(j, fl))
<1>1. ExtenSteps(j) \in Nat /\ j.at \in Nat BY StepNumbers DEF Series
<1>2. CASE j.at > ExtenSteps(j)
  <2>1. Written(j, fl) = fl BY <1>2 DEF Written
  <2> QED BY <1>1, <1>2, <2>1 DEF DoneBefore
<1>3. CASE ~ (j.at > ExtenSteps(j))
  <2> DEFINE e == StepExt(j, j.at)
             m == StepMech(j, j.at)
             v == IF Enables(j, j.at) THEN Setting(j.status, j.to) ELSE Off
  <2>1. Written(j, fl) = [fl EXCEPT ![e][m] = v] BY <1>3 DEF Written
  <2>2. j.at \in 1..ExtenSteps(j) BY <1>1, <1>3
  <2>3. e \in Exts /\ m \in Mechanisms BY <2>2, StepIsThere
  <2>4. v = Wanted(j, m) BY <1>1, <1>3 DEF Enables, Wanted
  <2> HIDE DEF e, m, v
  <2>5. \A x \in Exts, y \in Mechanisms :
          Written(j, fl)[x][y] = IF x = e /\ y = m THEN v ELSE fl[x][y]
    BY <2>1, <2>3 DEF Flags
  <2> SUFFICES ASSUME NEW k \in 1..ExtenSteps(j), k < j.at + 1
               PROVE  Written(j, fl)[StepExt(j, k)][StepMech(j, k)] = Wanted(j, StepMech(j, k))
    BY DEF DoneBefore
  <2>6. StepExt(j, k) \in Exts /\ StepMech(j, k) \in Mechanisms BY StepIsThere
  <2>7. CASE k = j.at BY <2>3, <2>4, <2>5, <2>7 DEF e, m
  <2>8. CASE k < j.at
    <3>1. fl[StepExt(j, k)][StepMech(j, k)] = Wanted(j, StepMech(j, k)) BY <2>8 DEF DoneBefore
    <3> QED BY <2>4, <2>5, <2>6, <3>1
  <2> QED BY <1>1, <2>7, <2>8
<1> QED BY <1>2, <1>3

(* How a series goes on: it is given up, it has no command left, or its next one has *)
(* all steps before it done.                                                         *)
LEMMA SeriesGoesOn ==
  ASSUME NEW j \in Series, NEW from \in Nat, from >= 1, NEW others, NEW fl,
         GoOn(j, from, others, fl), DoneBefore(j, from, fl)
  PROVE  \/ jobs' = others /\ bypassed' = TRUE
         \/ /\ jobs' = others /\ \A k \in Commands(j, fl) : k < from
            /\ DoneBefore(j, Steps(j) + 1, fl)
         \/ \E i \in 1..Steps(j) :
              jobs' = Append(others, [j EXCEPT !.at = i]) /\ DoneBefore(j, i, fl)
<1>1. PICK i \in Commands(j, fl) \cup {Steps(j) + 1} :
        /\ IsNext(j, from, i, fl)
        /\ \/ i > Steps(j) /\ jobs' = others
           \/ i <= Steps(j) /\ jobs' = others /\ bypassed' = TRUE
           \/ i <= Steps(j) /\ jobs' = Append(others, [j EXCEPT !.at = i])
  BY DEF GoOn
<1>2. DoneBefore(j, i, fl) BY <1>1, SkippedAreDone
<1>3. Steps(j) \in Nat /\ Commands(j, fl) \subseteq 1..Steps(j) BY StepNumbers DEF Commands
<1>4. CASE i > Steps(j) /\ jobs' = others
  <2>1. i = Steps(j) + 1 BY <1>1, <1>3, <1>4
  <2>2. ASSUME NEW k \in Commands(j, fl), ~ (k < from)
        PROVE  FALSE
    <3>1. i <= k BY <1>1, <1>3, <2>2 DEF IsNext
    <3> QED BY <1>3, <2>1, <2>2, <3>1
  <2> QED BY <1>2, <1>4, <2>1, <2>2
<1>5. CASE i <= Steps(j) /\ jobs' = Append(others, [j EXCEPT !.at = i])
  <2>1. i \in 1..Steps(j) BY <1>3, <1>5
  <2> QED BY <1>2, <1>5, <2>1
<1> QED BY <1>1, <1>4, <1>5

LEMMA UnchangedSettings ==
  ASSUME UNCHANGED settings
  PROVE  /\ \A j : ExtenSteps(j)' = ExtenSteps(j) /\ Steps(j)' = Steps(j)
         /\ \A j, k : StepExt(j, k)' = StepExt(j, k) /\ StepMech(j, k)' = StepMech(j, k)
         /\ \A j, m : Wanted(j, m)' = Wanted(j, m)
         /\ \A s, to : Setting(s, to)' = Setting(s, to)
         /\ Statuses' = Statuses
<1>1. endpoints' = endpoints /\ channel' = channel BY DEF settings
<1>2. Width' = Width BY <1>1 DEF Width
<1>3. \A s : Order(s)' = Order(s) BY <1>1 DEF Order
<1>4. \A s, to : Setting(s, to)' = Setting(s, to) BY <1>1 DEF Setting
<1>5. \A j : ExtenSteps(j)' = ExtenSteps(j) BY <1>2 DEF ExtenSteps
<1>6. \A j : Steps(j)' = Steps(j) BY <1>1, <1>5 DEF Steps
<1>7. \A j, k : StepExt(j, k)' = StepExt(j, k) BY <1>2 DEF StepExt
<1>8. \A j, k : StepMech(j, k)' = StepMech(j, k) BY <1>2, <1>3 DEF StepMech
<1>9. \A j, m : Wanted(j, m)' = Wanted(j, m) BY <1>4 DEF Wanted
<1>10. Statuses' = Statuses BY <1>1 DEF Statuses
<1> QED BY <1>4, <1>5, <1>6, <1>7, <1>8, <1>9, <1>10

(* The number of the command in flight does not change what a step is. *)
LEMMA AtIsNoStep ==
  ASSUME NEW j \in Series, NEW i \in Nat
  PROVE  LET q == [j EXCEPT !.at = i]
         IN  /\ q.status = j.status /\ q.to = j.to /\ q.exts = j.exts /\ q.at = i
             /\ Steps(q) = Steps(j) /\ \A n, fl : DoneBefore(q, n, fl) <=> DoneBefore(j, n, fl)
<1> DEFINE q == [j EXCEPT !.at = i]
<1>1. q.status = j.status /\ q.to = j.to /\ q.exts = j.exts /\ q.at = i BY DEF Series
<1> HIDE DEF q
<1>2. ExtenSteps(q) = ExtenSteps(j) BY <1>1 DEF ExtenSteps
<1>3. Steps(q) = Steps(j) BY <1>2 DEF Steps
<1>4. \A k : StepExt(q, k) = StepExt(j, k) /\ StepMech(q, k) = StepMech(j, k)
  BY <1>1 DEF StepExt, StepMech
<1>5. \A m : Wanted(q, m) = Wanted(j, m) BY <1>1 DEF Wanted
<1>6. \A n, fl : DoneBefore(q, n, fl) <=> DoneBefore(j, n, fl)
  BY <1>2, <1>4, <1>5 DEF DoneBefore
<1> QED BY <1>1, <1>3, <1>6 DEF q

(* A step of the series of a request, which runs alone. *)
LEMMA RequestGoesOn ==
  ASSUME TypeOK, UNCHANGED settings, NEW j \in Series, j.exts = Extens, j.status \in Statuses,
         NEW from \in Nat, from >= 1, GoOn(j, from, <<>>, flags'), DoneBefore(j, from, flags'),
         NoDnd(flags'), request'.status = j.status, request'.to = j.to,
         channel = "always" /\ from > Steps(j) => asterisk' = AsteriskPresence(j.status)
  PROVE  RequestInv'
<1>1. endpoints' = endpoints /\ channel' = channel BY DEF settings
<1>2. /\ ExtenSteps(j) \in Nat /\ Steps(j) \in Nat /\ ExtenSteps(j) <= Steps(j)
      /\ channel = "always" => Steps(j) = ExtenSteps(j) + 1
  BY StepNumbers
<1>3. NoDnd(flags)' BY <1>1 DEF NoDnd
<1>4. request'.status \in Statuses' BY UnchangedSettings
<1>5. CASE jobs' = <<>> /\ bypassed' = TRUE
  <2>1. RequestTakesEffect' BY <1>5 DEF RequestTakesEffect
  <2>2. Len(jobs') <= 1 BY <1>5
  <2> QED BY <1>3, <1>4, <1>5, <2>1, <2>2 DEF RequestInv
<1>6. CASE /\ jobs' = <<>> /\ \A k \in Commands(j, flags') : k < from
           /\ DoneBefore(j, Steps(j) + 1, flags')
  <2>1. ASSUME NEW e \in Exts, NEW m \in Mechanisms
        PROVE  flags'[e][m] = Wanted(j, m)
    <3>1. CASE channel # "always" /\ m = "dnd"
      <4>1. flags'[e][m] = Off BY <3>1 DEF NoDnd
      <4>2. Target(j.status) # "dnd" BY <3>1 DEF Statuses, Target
      <4> QED BY <3>1, <4>1, <4>2 DEF Wanted
    <3>2. CASE ~ (channel # "always" /\ m = "dnd")
      <4>1. PICK k \in 1..ExtenSteps(j) : StepExt(j, k) = e /\ StepMech(j, k) = m
        BY <3>2, EveryStep
      <4>2. k < Steps(j) + 1 BY <1>2
      <4> QED BY <1>6, <4>1, <4>2 DEF DoneBefore
    <3> QED BY <3>1, <3>2
  <2>2. \A e \in Exts, m \in Mechanisms :
          flags'[e][m] = IF m = Target(j.status) THEN Setting(j.status, j.to) ELSE Off
    BY <2>1 DEF Wanted
  <2>3. \A e \in Exts : InForce(flags[e], request)'
    <3>1. Setting(request.status, request.to)' = Setting(j.status, j.to) BY <1>1 DEF Setting
    <3> QED BY <2>2, <3>1 DEF InForce
  <2>4. channel = "always" => asterisk' = AsteriskPresence(request'.status)
    <3> SUFFICES ASSUME channel = "always" PROVE from > Steps(j)
      OBVIOUS
    <3>1. Steps(j) \in Commands(j, flags') BY <1>2 DEF Commands
    <3> QED BY <1>2, <1>6, <3>1
  <2>5. RequestTakesEffect' BY <1>1, <2>3, <2>4 DEF RequestTakesEffect
  <2>6. Len(jobs') <= 1 BY <1>6
  <2> QED BY <1>3, <1>4, <1>6, <2>5, <2>6 DEF RequestInv
<1>7. CASE \E i \in 1..Steps(j) :
             jobs' = Append(<<>>, [j EXCEPT !.at = i]) /\ DoneBefore(j, i, flags')
  <2>1. PICK i \in 1..Steps(j) :
          jobs' = Append(<<>>, [j EXCEPT !.at = i]) /\ DoneBefore(j, i, flags')
    BY <1>7
  <2> DEFINE q == [j EXCEPT !.at = i]
  <2>2. i \in Nat BY <1>2
  <2>3. /\ q.status = j.status /\ q.to = j.to /\ q.exts = j.exts /\ q.at = i
        /\ Steps(q) = Steps(j) /\ DoneBefore(q, i, flags')
    BY <2>1, <2>2, AtIsNoStep
  <2>4. jobs' = Append(<<>>, q) BY <2>1
  <2> HIDE DEF q
  <2>5. Len(jobs') = 1 /\ Head(jobs') = q /\ jobs' # <<>> BY <2>4
  <2>6. Carries(Head(jobs))' BY <2>3, <2>5 DEF Carries
  <2>7. (Head(jobs).at \in 1..Steps(Head(jobs)))'
    <3>1. Steps(q)' = Steps(q) BY UnchangedSettings
    <3> QED BY <2>3, <2>5, <3>1
  <2>8. DoneBefore(Head(jobs), Head(jobs).at, flags)'
    BY <2>3, <2>5, UnchangedSettings DEF DoneBefore
  <2>9. RequestTakesEffect' BY <2>5 DEF RequestTakesEffect
  <2> QED BY <1>3, <1>4, <2>5, <2>6, <2>7, <2>8, <2>9 DEF RequestInv
<1> QED BY <1>5, <1>6, <1>7, SeriesGoesOn

(* A step that forgets the request. *)
LEMMA Forgotten ==
  ASSUME request' = NoRequest, NoDnd(flags)'
  PROVE  RequestInv'
BY DEF RequestInv, RequestTakesEffect

LEMMA FollowRequest ==
  ASSUME TypeOK, RequestInv, NEW e \in Exts, NEW mech \in Mechanisms, NEW value, NEW s, NEW to,
         Follow(e, mech, value, s, to), channel = "always" \/ mech # "dnd"
  PROVE  RequestInv'
<1>1. request' = NoRequest /\ flags' = [flags EXCEPT ![e][mech] = value] /\ channel' = channel
  BY DEF Follow, settings
<1>2. NoDnd(flags)' BY <1>1 DEF NoDnd, RequestInv, TypeOK, Flags, Mechanisms
<1> QED BY <1>1, <1>2, Forgotten

LEMMA AnsweredRequest ==
  ASSUME TypeOK, TypeOK', RequestInv, Answered
  PROVE  RequestInv'
<1> DEFINE j == Head(jobs)
<1>1. /\ jobs # <<>> /\ j \in Series /\ flags' = Written(j, flags)
      /\ GoOn(j, j.at + 1, Tail(jobs), flags')
      /\ asterisk' = IF j.at > ExtenSteps(j) THEN AsteriskPresence(j.status) ELSE asterisk
      /\ UNCHANGED <<settings, inputs, request, overlapped>>
  BY DEF Answered, TypeOK
<1>2. flags \in Flags /\ flags' \in Flags BY DEF TypeOK
<1>3. j.at \in Nat BY <1>1 DEF Series
<1>4. NoDnd(flags')
  <2> SUFFICES ASSUME channel # "always", NEW x \in Exts
               PROVE  flags'[x]["dnd"] = Off
    BY DEF NoDnd
  <2> DEFINE e == StepExt(j, j.at)
             m == StepMech(j, j.at)
             v == IF Enables(j, j.at) THEN Setting(j.status, j.to) ELSE Off
  <2>1. flags[x]["dnd"] = Off BY DEF RequestInv, NoDnd
  <2>2. CASE j.at > ExtenSteps(j) BY <1>1, <2>1, <2>2 DEF Written
  <2>3. CASE ~ (j.at > ExtenSteps(j))
    <3>1. flags' = [flags EXCEPT ![e][m] = v] BY <1>1, <2>3 DEF Written
    <3>2. m # "dnd"
      <4>1. Width = 2 BY DEF Width
      <4>2. ((j.at - 1) % 2) + 1 \in {1, 2} BY <1>3
      <4>3. Order(j.status)[1] # "dnd" /\ Order(j.status)[2] # "dnd" BY DEF Order
      <4> QED BY <4>1, <4>2, <4>3 DEF StepMech
    <3> HIDE DEF e, m, v
    <3>3. flags'[x]["dnd"] = flags[x]["dnd"] BY <1>2, <3>1, <3>2 DEF Flags, Mechanisms
    <3> QED BY <2>1, <3>3
  <2> QED BY <2>2, <2>3
<1>5. CASE request = NoRequest \/ overlapped
  <2>1. NoDnd(flags)' BY <1>1, <1>4 DEF NoDnd, settings
  <2> QED BY <1>1, <1>5, <2>1 DEF RequestInv, RequestTakesEffect
<1>6. CASE request # NoRequest /\ ~ overlapped
  <2>1. /\ request.status \in Statuses /\ Len(jobs) <= 1
        /\ Carries(j) /\ j.at \in 1..Steps(j) /\ DoneBefore(j, j.at, flags)
    BY <1>1, <1>6 DEF RequestInv
  <2>2. Tail(jobs) = <<>> BY <1>1, <2>1 DEF TypeOK
  <2>3. j.status = request.status /\ j.to = request.to /\ j.exts = Extens BY <2>1 DEF Carries
  <2>4. /\ ExtenSteps(j) \in Nat /\ Steps(j) \in Nat
        /\ channel = "always" => Steps(j) = ExtenSteps(j) + 1
    BY <1>1, StepNumbers
  <2>5. j.at >= 1 /\ j.at + 1 \in Nat /\ j.at + 1 >= 1 BY <1>3, <2>1, <2>4
  <2>6. DoneBefore(j, j.at + 1, flags') BY <1>1, <1>2, <2>1, <2>5, WrittenIsDone
  <2>7. channel = "always" /\ j.at + 1 > Steps(j) => asterisk' = AsteriskPresence(j.status)
    BY <1>1, <1>3, <2>4
  <2>8. request' = request /\ UNCHANGED settings BY <1>1
  <2>9. GoOn(j, j.at + 1, <<>>, flags') BY <1>1, <2>2
  <2> HIDE DEF j
  <2> QED BY <1>1, <1>4, <2>1, <2>3, <2>5, <2>6, <2>7, <2>8, <2>9, RequestGoesOn
<1> QED BY <1>5, <1>6

LEMMA SetPresenceRequest ==
  ASSUME TypeOK, RequestInv, NEW s \in AllStatuses, NEW to \in Dests \cup {Off}, SetPresence(s, to)
  PROVE  RequestInv'
<1> DEFINE j == NewSeries(s, to, Extens)
<1>1. /\ s \in Statuses /\ GoOn(j, 1, jobs, flags) /\ request' = [status |-> s, to |-> to]
      /\ overlapped' = (jobs # <<>>) /\ UNCHANGED <<settings, flags, asterisk>>
  BY DEF SetPresence
<1>2. j \in Series BY ExtensAreThere, NewSeriesType
<1>3. j.status = s /\ j.to = to /\ j.exts = Extens BY DEF NewSeries
<1>4. NoDnd(flags') /\ NoDnd(flags)' BY <1>1 DEF RequestInv, NoDnd, settings
<1>5. CASE jobs # <<>>
  BY <1>1, <1>4, <1>5 DEF RequestInv, RequestTakesEffect
<1>6. CASE jobs = <<>>
  <2> HIDE DEF j
  <2>1. GoOn(j, 1, <<>>, flags') BY <1>1, <1>6
  <2>2. DoneBefore(j, 1, flags')
    <3>1. \A k \in 1..ExtenSteps(j) : ~ (k < 1) BY <1>2, StepNumbers
    <3> QED BY <3>1 DEF DoneBefore
  <2>3. ~ (channel = "always" /\ 1 > Steps(j))
    <3>1. /\ ExtenSteps(j) \in Nat
          /\ channel = "always" => Steps(j) = ExtenSteps(j) + 1
      BY <1>2, StepNumbers
    <3> QED BY <3>1
  <2>4. request'.status = j.status /\ request'.to = j.to BY <1>1, <1>3
  <2>5. UNCHANGED settings /\ j.status \in Statuses BY <1>1, <1>3
  <2> QED BY <1>2, <1>3, <1>4, <2>1, <2>2, <2>3, <2>4, <2>5, RequestGoesOn
<1> QED BY <1>5, <1>6

LEMMA RequestStep == TypeOK /\ TypeOK' /\ RequestInv /\ [Next]_vars => RequestInv'
<1> SUFFICES ASSUME TypeOK, TypeOK', RequestInv, [Next]_vars PROVE RequestInv'
  OBVIOUS
<1>1. ASSUME NEW s \in AllStatuses, NEW to \in Dests \cup {Off}, SetPresence(s, to)
      PROVE  RequestInv'
  BY <1>1, SetPresenceRequest
<1>2. CASE Phones
  <2>1. ASSUME NEW e \in Exts, NEW value, PhoneDnd(e, value) \/ PhoneVm(e, value) \/ PhoneCf(e, value)
        PROVE  RequestInv'
    BY <2>1, FollowRequest DEF PhoneDnd, PhoneVm, PhoneCf, Mechanisms
  <2> QED BY <1>2, <2>1 DEF Phones
<1>3. ASSUME NEW e \in Exts, NEW mech \in Mechanisms, NEW value \in Values, SetOne(e, mech, value)
      PROVE  RequestInv'
  <2>1. /\ request' = NoRequest /\ flags' = [flags EXCEPT ![e][mech] = value]
        /\ channel' = channel /\ (mech = "dnd" => channel = "always")
    BY <1>3 DEF SetOne, settings
  <2>2. NoDnd(flags)' BY <2>1 DEF NoDnd, RequestInv, TypeOK, Flags, Mechanisms
  <2> QED BY <2>1, <2>2, Forgotten
<1>4. CASE Answered BY <1>4, AnsweredRequest
<1>5. CASE Failed
  <2>1. NoDnd(flags)' BY <1>5 DEF Failed, settings, NoDnd, RequestInv
  <2> QED BY <1>5, <2>1, Forgotten DEF Failed
<1>6. CASE Reload
  <2>1. NoDnd(flags)' BY <1>6 DEF Reload, NoDnd, RequestInv
  <2> QED BY <1>6, <2>1, Forgotten DEF Reload
<1>7. CASE UNCHANGED vars
  <2>1. UNCHANGED <<settings, flags, asterisk, jobs, request, overlapped, bypassed>>
    BY <1>7 DEF vars, settings
  <2>2. endpoints' = endpoints /\ channel' = channel BY <2>1 DEF settings
  <2>3. RequestTakesEffect' = RequestTakesEffect
    <3>1. \A s, to : Setting(s, to)' = Setting(s, to) BY <2>1, UnchangedSettings
    <3>2. \A e \in Exts : InForce(flags[e], request)' <=> InForce(flags[e], request)
      BY <2>1, <3>1 DEF InForce
    <3> QED BY <2>1, <2>2, <3>2 DEF RequestTakesEffect
  <2>4. NoDnd(flags)' BY <2>1, <2>2 DEF NoDnd, RequestInv
  <2>5. Statuses' = Statuses BY <2>1, UnchangedSettings
  <2>6. /\ Carries(Head(jobs))' <=> Carries(Head(jobs))
        /\ (Head(jobs).at \in 1..Steps(Head(jobs)))' <=> Head(jobs).at \in 1..Steps(Head(jobs))
        /\ DoneBefore(Head(jobs), Head(jobs).at, flags)'
             <=> DoneBefore(Head(jobs), Head(jobs).at, flags)
    BY <2>1, UnchangedSettings DEF Carries, DoneBefore
  <2> QED BY <2>1, <2>3, <2>4, <2>5, <2>6 DEF RequestInv
<1> QED BY <1>1, <1>2, <1>3, <1>4, <1>5, <1>6, <1>7 DEF Next

(* A request that nothing disturbed leaves every extension of the user in the state it *)
(* names, for any number of extensions and from whatever state they start, and         *)
(* Asterisk is told so (1495-1735, 1748-1794).                                         *)
THEOREM RequestsTakeEffect == Spec => []RequestTakesEffect
<1>1. Init => RequestInv
  BY DEF Init, RequestInv, NoDnd, RequestTakesEffect
<1>2. RequestInv => RequestTakesEffect BY DEF RequestInv
<1>3. Spec => []RequestInv BY <1>1, RequestStep, TypeCorrect, PTL DEF Spec
<1> QED BY <1>2, <1>3, PTL
=============================================================================
