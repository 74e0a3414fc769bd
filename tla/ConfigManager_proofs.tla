------------------------- MODULE ConfigManager_proofs -------------------------
(***************************************************************************)
(* What is proved of config_manager: of the automatic login and logout of  *)
(* the agents (AutoQueues), then of the settings of the users              *)
(* (UserSettings).  The two have no state in common.                       *)
(***************************************************************************)
EXTENDS AutoQueues, UserSettings, SequenceTheorems, FiniteSetTheorems, TLAPS

-----------------------------------------------------------------------------
(***************************************************************************)
(* What is proved of AutoQueues, for any queues, events, requests and      *)
(* refused commands: the state is well typed, and once every command is    *)
(* answered an agent whose last event nothing went against is where that   *)
(* event wants him, but in the queues whose command was refused.           *)
(*                                                                         *)
(* The inductive invariant looks at the commands that are not answered, as *)
(* a set.  After a login they only add, and every queue he is missing from *)
(* has its command; after a logout they only unpause and remove, every     *)
(* pause is in a command or in the series of one, and either a series is   *)
(* still running, which will look at the queues when it is over, or every  *)
(* dynamic queue he is in has its removal, or had it refused.              *)
(***************************************************************************)

(* The invariant.                                                          *)

SetOf(s) == {s[i] : i \in DOMAIN s}

\* Only unpauses belong to a series.
SeriesUnpause(cs) == \A c \in cs : c.series # NoSeries => c.name = "unpause"

\* The commands cs after a login, with the settings conf and the refusals R.
LoginGoesOn(cs, M, conf, R) ==
  /\ \A c \in cs : c.name \in {"add", "add paused"}
  /\ conf.login => \A q \in Dynamic \ M :
       <<"add", q>> \in R \/ \E c \in cs : c.name = "add" /\ q \in c.queues

\* The pause of q ends with the command c, or in the series that goes on after it.
EndsPause(c, q) ==
  /\ c.name = "unpause"
  /\ q \in c.queues \/ (c.series # NoSeries /\ q \in SetOf(c.series))

\* The removal of q is among the commands cs, or it was refused.
Removal(cs, R, q) == <<"remove", q>> \in R \/ \E c \in cs : c.name = "remove" /\ q \in c.queues

\* The same after a logout, with the members M, the pauses P and the refusals R.
LogoutGoesOn(cs, M, P, conf, R) ==
  /\ \A c \in cs : c.name \in {"remove", "unpause"}
  /\ conf.logout =>
       /\ \A q \in P : <<"unpause", q>> \in R \/ \E c \in cs : EndsPause(c, q)
       /\ \/ \E c \in cs : c.series # NoSeries
          \/ \A q \in Dynamic \cap M : Removal(cs, R, q)

AInv ==
  /\ QueuesTypeOK
  /\ SeriesUnpause(SetOf(commands))
  /\ clean /\ present => LoginGoesOn(SetOf(commands), members, settings, refused)
  /\ clean /\ ~present => LogoutGoesOn(SetOf(commands), members, paused, settings, refused)

-----------------------------------------------------------------------------
(* Sequences as sets, and the queues in their order.                       *)

LEMMA SetOfEmpty == SetOf(<<>>) = {}
  BY DEF SetOf

LEMMA SetOfConcat ==
  ASSUME NEW S, NEW s \in Seq(S), NEW t \in Seq(S)
  PROVE  s \o t \in Seq(S) /\ SetOf(s \o t) = SetOf(s) \cup SetOf(t)
  <1>1. /\ s \o t \in Seq(S) /\ Len(s \o t) = Len(s) + Len(t)
        /\ \A i \in 1..(Len(s) + Len(t)) : (s \o t)[i] = IF i <= Len(s) THEN s[i] ELSE t[i - Len(s)]
    BY ConcatProperties
  <1>2. /\ DOMAIN s = 1..Len(s) /\ DOMAIN t = 1..Len(t) /\ DOMAIN (s \o t) = 1..(Len(s) + Len(t))
        /\ Len(s) \in Nat /\ Len(t) \in Nat
    BY <1>1, LenProperties
  <1>3. ASSUME NEW c \in SetOf(s \o t) PROVE c \in SetOf(s) \cup SetOf(t)
    <2>1. PICK i \in 1..(Len(s) + Len(t)) : c = (s \o t)[i]
      BY <1>2 DEF SetOf
    <2>2. CASE i <= Len(s)
      BY <1>1, <1>2, <2>1, <2>2 DEF SetOf
    <2>3. CASE i > Len(s)
      <3>1. i - Len(s) \in 1..Len(t) /\ c = t[i - Len(s)]
        BY <1>1, <1>2, <2>1, <2>3
      <3> QED BY <1>2, <3>1 DEF SetOf
    <2> QED BY <1>2, <2>2, <2>3
  <1>4. ASSUME NEW c \in SetOf(s) PROVE c \in SetOf(s \o t)
    <2>1. PICK i \in 1..Len(s) : c = s[i]
      BY <1>2 DEF SetOf
    <2>2. i \in 1..(Len(s) + Len(t)) /\ (s \o t)[i] = c
      BY <1>1, <1>2, <2>1
    <2> QED BY <1>2, <2>2 DEF SetOf
  <1>5. ASSUME NEW c \in SetOf(t) PROVE c \in SetOf(s \o t)
    <2>1. PICK i \in 1..Len(t) : c = t[i]
      BY <1>2 DEF SetOf
    <2>2. Len(s) + i \in 1..(Len(s) + Len(t)) /\ (s \o t)[Len(s) + i] = c
      BY <1>1, <1>2, <2>1
    <2> QED BY <1>2, <2>2 DEF SetOf
  <1> QED BY <1>1, <1>3, <1>4, <1>5

LEMMA SetOfHeadTail ==
  ASSUME NEW S, NEW s \in Seq(S), s # <<>>
  PROVE  /\ Head(s) \in S /\ Tail(s) \in Seq(S)
         /\ SetOf(s) = {Head(s)} \cup SetOf(Tail(s))
  <1>1. /\ Head(s) \in S /\ Tail(s) \in Seq(S) /\ Len(Tail(s)) = Len(s) - 1
        /\ \A i \in 1..Len(Tail(s)) : Tail(s)[i] = s[i + 1]
    BY HeadTailProperties
  <1>2. /\ DOMAIN s = 1..Len(s) /\ DOMAIN Tail(s) = 1..(Len(s) - 1)
        /\ Len(s) \in Nat /\ Len(s) > 0
    <2>1. Len(s) \in Nat /\ DOMAIN s = 1..Len(s) /\ DOMAIN Tail(s) = 1..(Len(s) - 1)
      BY <1>1, LenProperties
    <2>2. Len(s) # 0
      BY EmptySeq
    <2> QED BY <2>1, <2>2
  <1>3. Head(s) = s[1]
    OBVIOUS
  <1>4. ASSUME NEW c \in SetOf(s) PROVE c \in {Head(s)} \cup SetOf(Tail(s))
    <2>1. PICK i \in 1..Len(s) : c = s[i]
      BY <1>2 DEF SetOf
    <2>2. CASE i = 1
      BY <1>3, <2>1, <2>2
    <2>3. CASE i # 1
      <3>1. i - 1 \in 1..(Len(s) - 1) /\ Tail(s)[i - 1] = c
        BY <1>1, <1>2, <2>1, <2>3
      <3> QED BY <1>2, <3>1 DEF SetOf
    <2> QED BY <2>2, <2>3
  <1>5. Head(s) \in SetOf(s)
    <2>1. 1 \in 1..Len(s)
      BY <1>2
    <2> QED BY <1>2, <1>3, <2>1 DEF SetOf
  <1>6. ASSUME NEW c \in SetOf(Tail(s)) PROVE c \in SetOf(s)
    <2>1. PICK i \in 1..(Len(s) - 1) : c = Tail(s)[i]
      BY <1>2 DEF SetOf
    <2>2. i + 1 \in 1..Len(s) /\ s[i + 1] = c
      BY <1>1, <1>2, <2>1
    <2> QED BY <1>2, <2>2 DEF SetOf
  <1> QED BY <1>1, <1>4, <1>5, <1>6

LEMMA SetOfSeq ==
  ASSUME NEW S, NEW s \in Seq(S)
  PROVE  SetOf(s) \subseteq S
  BY ElementOfSeq, LenProperties DEF SetOf

\* A number of a finite set of numbers has a rank in it, another for each.
LEMMA Ranks ==
  ASSUME NEW n \in Nat, NEW I \in SUBSET (1..n)
  PROVE  /\ IsFiniteSet(I) /\ Cardinality(I) \in Nat
         /\ \A i \in I : Cardinality({j \in I : j <= i}) \in 1..Cardinality(I)
         /\ \A i, k \in I : Cardinality({j \in I : j <= i}) = Cardinality({j \in I : j <= k}) => i = k
         /\ \A m \in 1..Cardinality(I) : \E i \in I : Cardinality({j \in I : j <= i}) = m
  <1> DEFINE Upto(i) == {j \in I : j <= i}
  <1>1. IsFiniteSet(I) /\ Cardinality(I) \in Nat
    <2>1. IsFiniteSet(1..n)
      BY FS_Interval
    <2>2. IsFiniteSet(I)
      BY <2>1, FS_Subset
    <2> QED BY <2>2, FS_CardinalityType
  <1>2. ASSUME NEW i \in I
        PROVE  /\ IsFiniteSet(Upto(i)) /\ Cardinality(Upto(i)) \in Nat
               /\ Cardinality(Upto(i)) \in 1..Cardinality(I)
    <2>1. Upto(i) \in SUBSET I /\ Upto(i) # {}
      OBVIOUS
    <2>2. IsFiniteSet(Upto(i)) /\ Cardinality(Upto(i)) <= Cardinality(I)
      BY <1>1, <2>1, FS_Subset
    <2>3. Cardinality(Upto(i)) \in Nat /\ Cardinality(Upto(i)) # 0
      BY <2>1, <2>2, FS_CardinalityType, FS_EmptySet
    <2> QED BY <1>1, <2>2, <2>3
  <1>3. ASSUME NEW i \in I, NEW k \in I, i < k
        PROVE  Cardinality(Upto(i)) # Cardinality(Upto(k))
    <2>1. Upto(i) \in SUBSET Upto(k) /\ k \in Upto(k) /\ k \notin Upto(i)
      <3>1. i \in Int /\ k \in Int /\ \A j \in I : j \in Int
        OBVIOUS
      <3>2. \A j \in I : j <= i => j <= k
        BY <1>3, <3>1
      <3>3. k <= k /\ ~(k <= i)
        BY <1>3, <3>1
      <3> QED BY <3>2, <3>3
    <2>2. Upto(i) # Upto(k)
      BY <2>1
    <2> QED BY <1>2, <2>1, <2>2, FS_Subset
  <1>4. ASSUME NEW i \in I, NEW k \in I, Cardinality(Upto(i)) = Cardinality(Upto(k)) PROVE i = k
    BY <1>3, <1>4
  <1>5. ASSUME NEW m \in 1..Cardinality(I) PROVE \E i \in I : Cardinality(Upto(i)) = m
    <2> DEFINE T == 1..Cardinality(I)
               rank == [i \in I |-> Cardinality(Upto(i))]
    <2>1. rank \in [I -> T]
      BY <1>2
    <2>2. rank \in Injection(I, T)
      BY <1>4, <2>1 DEF Injection, IsInjective
    <2>3. IsFiniteSet(T) /\ Cardinality(T) = Cardinality(I)
      BY <1>1, FS_Interval
    <2>4. rank \in Surjection(I, T)
      BY <2>2, <2>3, FS_Injection
    <2> QED BY <2>4 DEF Surjection
  <1> QED BY <1>1, <1>2, <1>4, <1>5

LEMMA InOrderIs ==
  ASSUME NEW S
  PROVE  InOrder(S) \in Seq(Queues) /\ SetOf(InOrder(S)) = Queues \cap S
  <1> DEFINE I == {i \in DOMAIN QueueIds : QueueIds[i] \in S}
             at(k) == CHOOSE i \in I : Cardinality({j \in I : j <= i}) = k
  <1>1. QueueIds \in Seq(Queues) /\ Len(QueueIds) \in Nat /\ DOMAIN QueueIds = 1..Len(QueueIds)
    BY QueuesAreListed, LenProperties
  <1>2. I \in SUBSET (1..Len(QueueIds))
    BY <1>1
  <1>3. /\ Cardinality(I) \in Nat
        /\ \A i \in I : Cardinality({j \in I : j <= i}) \in 1..Cardinality(I)
        /\ \A i, k \in I : Cardinality({j \in I : j <= i}) = Cardinality({j \in I : j <= k}) => i = k
        /\ \A m \in 1..Cardinality(I) : \E i \in I : Cardinality({j \in I : j <= i}) = m
    BY <1>1, <1>2, Ranks
  <1>4. \A k \in 1..Cardinality(I) : at(k) \in I /\ Cardinality({j \in I : j <= at(k)}) = k
    BY <1>3
  <1>5. InOrder(S) = [k \in 1..Cardinality(I) |-> QueueIds[at(k)]]
    BY DEF InOrder
  <1>6. \A i \in I : QueueIds[i] \in Queues \cap S
    BY <1>1 DEF Queues
  <1> HIDE DEF I, at
  <1>7. \A k \in 1..Cardinality(I) : QueueIds[at(k)] \in Queues \cap S
    BY <1>4, <1>6
  <1>8. InOrder(S) \in [1..Cardinality(I) -> Queues]
    BY <1>5, <1>7
  <1>9. InOrder(S) \in Seq(Queues)
    BY <1>3, <1>8, SeqDef
  <1>10. SetOf(InOrder(S)) \subseteq Queues \cap S
    BY <1>5, <1>7 DEF SetOf
  <1>11. ASSUME NEW q \in Queues \cap S PROVE q \in SetOf(InOrder(S))
    <2>1. PICK i \in DOMAIN QueueIds : q = QueueIds[i]
      BY DEF Queues
    <2>2. i \in I
      BY <2>1 DEF I
    <2> DEFINE k == Cardinality({j \in I : j <= i})
    <2>3. k \in 1..Cardinality(I)
      BY <1>3, <2>2
    <2>4. at(k) \in I /\ Cardinality({j \in I : j <= at(k)}) = k
      BY <1>4, <2>3
    <2>5. at(k) = i
      BY <1>3, <2>2, <2>4
    <2> HIDE DEF k
    <2>6. k \in DOMAIN InOrder(S) /\ InOrder(S)[k] = q
      BY <1>5, <2>1, <2>3, <2>5
    <2> QED BY <2>6 DEF SetOf
  <1> QED BY <1>9, <1>10, <1>11

-----------------------------------------------------------------------------
(* The commands the handlers send.                                         *)

LEMMA ForEachIs ==
  ASSUME NEW name \in Names, NEW S
  PROVE  /\ ForEach(name, S) \in Seq(Command)
         /\ \A c \in SetOf(ForEach(name, S)) : c.name = name /\ c.series = NoSeries
         /\ \A q \in Queues \cap S :
              \E c \in SetOf(ForEach(name, S)) : c.name = name /\ q \in c.queues
  <1> DEFINE ids == InOrder(S)
             command(q) == [name |-> name, queues |-> {q}, series |-> NoSeries]
  <1>1. ids \in Seq(Queues) /\ SetOf(ids) = Queues \cap S
    BY InOrderIs
  <1>2. Len(ids) \in Nat /\ DOMAIN ids = 1..Len(ids) /\ \A i \in 1..Len(ids) : ids[i] \in Queues
    BY <1>1, LenProperties
  <1>3. ForEach(name, S) = [i \in 1..Len(ids) |-> command(ids[i])]
    BY <1>2 DEF ForEach
  <1>4. \A q \in Queues : /\ command(q) \in Command /\ command(q).name = name
                          /\ command(q).series = NoSeries /\ q \in command(q).queues
    BY DEF Command
  <1> HIDE DEF ids, command
  <1>5. ForEach(name, S) \in [1..Len(ids) -> Command]
    BY <1>2, <1>3, <1>4
  <1>6. ForEach(name, S) \in Seq(Command)
    BY <1>2, <1>5, SeqDef
  <1>7. SetOf(ForEach(name, S)) = {command(ids[i]) : i \in 1..Len(ids)}
    BY <1>3 DEF SetOf
  <1>8. \A c \in SetOf(ForEach(name, S)) : c.name = name /\ c.series = NoSeries
    BY <1>2, <1>4, <1>7
  <1>9. ASSUME NEW q \in Queues \cap S
        PROVE  \E c \in SetOf(ForEach(name, S)) : c.name = name /\ q \in c.queues
    <2>1. PICK i \in 1..Len(ids) : q = ids[i]
      BY <1>1, <1>2 DEF SetOf
    <2>2. command(q) \in SetOf(ForEach(name, S))
      BY <1>7, <2>1
    <2> QED BY <1>4, <2>2
  <1> QED BY <1>6, <1>8, <1>9

LEMMA UnpauseIs ==
  ASSUME NEW queues \in Seq(Queues), NEW M
  PROVE  /\ Unpause(queues, M) \in Seq(Command)
         /\ \A c \in SetOf(Unpause(queues, M)) : c.name \in {"remove", "unpause"}
         /\ SeriesUnpause(SetOf(Unpause(queues, M)))
         /\ \A q \in SetOf(queues) : \E c \in SetOf(Unpause(queues, M)) : EndsPause(c, q)
         /\ \/ \E c \in SetOf(Unpause(queues, M)) : c.series # NoSeries
            \/ \A q \in Dynamic \cap M :
                 \E c \in SetOf(Unpause(queues, M)) : c.name = "remove" /\ q \in c.queues
  <1>1. CASE queues = <<>>
    <2>1. Unpause(queues, M) = ForEach("remove", Dynamic \cap M)
      BY <1>1 DEF Unpause, LogoutAgent
    <2>2. Dynamic \cap M \subseteq Queues /\ "remove" \in Names
      BY QueuesAreListed DEF Names
    <2>3. /\ ForEach("remove", Dynamic \cap M) \in Seq(Command)
          /\ \A c \in SetOf(ForEach("remove", Dynamic \cap M)) : c.name = "remove" /\ c.series = NoSeries
          /\ \A q \in Queues \cap (Dynamic \cap M) :
               \E c \in SetOf(ForEach("remove", Dynamic \cap M)) : c.name = "remove" /\ q \in c.queues
      BY <2>2, ForEachIs
    <2>4. SetOf(queues) = {}
      BY <1>1, SetOfEmpty
    <2> QED BY <2>1, <2>2, <2>3, <2>4 DEF SeriesUnpause
  <1>2. CASE queues # <<>>
    <2> DEFINE c == [name |-> "unpause", queues |-> {Head(queues)}, series |-> Tail(queues)]
    <2>1. Unpause(queues, M) = <<c>>
      BY <1>2 DEF Unpause
    <2>2. /\ Head(queues) \in Queues /\ Tail(queues) \in Seq(Queues)
          /\ SetOf(queues) = {Head(queues)} \cup SetOf(Tail(queues))
      BY <1>2, SetOfHeadTail
    <2>3. c \in Command /\ c.name = "unpause" /\ c.queues = {Head(queues)} /\ c.series = Tail(queues)
      BY <2>2 DEF Command, Names
    <2>4. c.series # NoSeries
      BY <2>2, <2>3, NoSeriesIsNone
    <2> HIDE DEF c
    <2>5. <<c>> \in Seq(Command) /\ SetOf(<<c>>) = {c}
      BY <2>3 DEF SetOf
    <2>6. \A q \in SetOf(queues) : EndsPause(c, q)
      BY <2>2, <2>3, <2>4 DEF EndsPause
    <2> QED BY <2>1, <2>3, <2>4, <2>5, <2>6 DEF SeriesUnpause
  <1> QED BY <1>1, <1>2

LEMMA SeriesOfBoth ==
  ASSUME NEW A, NEW B, SeriesUnpause(A), SeriesUnpause(B)
  PROVE  SeriesUnpause(A \cup B)
  BY DEF SeriesUnpause

LEMMA InFlightIs ==
  ASSUME commands \in Seq(Command), NEW names \in SUBSET Names, InFlight(names) = {}
  PROVE  \A c \in SetOf(commands) : c.name \in Names \ names
  BY SetOfSeq DEF InFlight, SetOf, Command

-----------------------------------------------------------------------------
(* The first state, and the events.                                        *)

LEMMA QueuesInitInv ==
  ASSUME QueuesInit
  PROVE  AInv
  <1>1. commands \in Seq(Command) /\ SetOf(commands) = {}
    BY SetOfEmpty, EmptySeq DEF QueuesInit
  <1>2. QueuesTypeOK
    <2>1. members \subseteq Queues /\ Queues \ Dynamic \subseteq members /\ paused \subseteq members
      BY DEF QueuesInit
    <2>2. events \in 0..MaxEvents /\ requests \in 0..MaxRequests /\ failures \in 0..MaxFailures
      BY BoundsAreNaturals DEF QueuesInit
    <2> QED BY <1>1, <2>1, <2>2 DEF QueuesInit, QueuesTypeOK
  <1> QED BY <1>1, <1>2 DEF AInv, QueuesInit, SeriesUnpause

LEMMA LoggedIn ==
  ASSUME AInv, CheckQueueAutoLogin
  PROVE  AInv'
  <1> DEFINE added == IF settings.login THEN ForEach("add", ToLogIn) ELSE <<>>
  <1>1. QueuesTypeOK /\ SeriesUnpause(SetOf(commands))
    BY DEF AInv
  <1>2. /\ commands \in Seq(Command) /\ members \subseteq Queues
    BY <1>1 DEF QueuesTypeOK
  <1>3. /\ commands' = commands \o added /\ present' = TRUE /\ members' = members
        /\ settings' = settings /\ paused' = paused
        /\ clean' = (InFlight({"remove", "pause", "unpause"}) = {})
    BY DEF CheckQueueAutoLogin
  <1>4. /\ added \in Seq(Command)
        /\ \A c \in SetOf(added) : c.name = "add" /\ c.series = NoSeries
        /\ settings.login => \A q \in Queues \cap ToLogIn : \E c \in SetOf(added) : q \in c.queues
    <2>1. "add" \in Names
      BY DEF Names
    <2>2. CASE settings.login
      BY <2>1, <2>2, ForEachIs
    <2>3. CASE ~settings.login
      BY <2>3, SetOfEmpty, EmptySeq
    <2> QED BY <2>2, <2>3
  <1> HIDE DEF added
  <1>5. commands' \in Seq(Command) /\ SetOf(commands') = SetOf(commands) \cup SetOf(added)
    BY <1>2, <1>3, <1>4, SetOfConcat
  <1>6. QueuesTypeOK'
    <2>1. events' \in 0..MaxEvents
      BY <1>1, BoundsAreNaturals DEF QueuesTypeOK, CheckQueueAutoLogin, Event
    <2>2. clean' \in BOOLEAN /\ present' \in BOOLEAN
      BY <1>3
    <2> QED BY <1>1, <1>3, <1>5, <2>1, <2>2 DEF QueuesTypeOK, CheckQueueAutoLogin, Event
  <1>7. SeriesUnpause(SetOf(commands'))
    <2>1. SeriesUnpause(SetOf(added))
      BY <1>4 DEF SeriesUnpause
    <2> QED BY <1>1, <1>5, <2>1, SeriesOfBoth
  <1>8. ASSUME clean' PROVE LoginGoesOn(SetOf(commands'), members', settings', refused')
    <2>1. \A c \in SetOf(commands) : c.name \in {"add", "add paused"}
      <3>1. InFlight({"remove", "pause", "unpause"}) = {} /\ {"remove", "pause", "unpause"} \subseteq Names
        BY <1>3, <1>8 DEF Names
      <3>2. \A c \in SetOf(commands) : c.name \in Names \ {"remove", "pause", "unpause"}
        BY <1>2, <3>1, InFlightIs
      <3> QED BY <3>2 DEF Names
    <2>2. \A c \in SetOf(commands') : c.name \in {"add", "add paused"}
      BY <1>4, <1>5, <2>1
    <2>3. settings.login => \A q \in Dynamic \ members :
            \E c \in SetOf(commands') : c.name = "add" /\ q \in c.queues
      <3>1. Dynamic \ members \subseteq Queues \cap ToLogIn
        BY QueuesAreListed DEF ToLogIn
      <3> QED BY <1>4, <1>5, <3>1
    <2> QED BY <1>3, <2>2, <2>3 DEF LoginGoesOn
  <1> QED BY <1>3, <1>6, <1>7, <1>8 DEF AInv

LEMMA LoggedOut ==
  ASSUME AInv, CheckQueueAutoLogout
  PROVE  AInv'
  <1> DEFINE queues == InOrder(paused)
             added == IF settings.logout THEN Unpause(queues, members) ELSE <<>>
  <1>1. QueuesTypeOK /\ SeriesUnpause(SetOf(commands))
    BY DEF AInv
  <1>2. /\ commands \in Seq(Command) /\ members \subseteq Queues /\ paused \subseteq members
    BY <1>1 DEF QueuesTypeOK
  <1>3. /\ commands' = commands \o added /\ present' = FALSE /\ members' = members
        /\ settings' = settings /\ paused' = paused
        /\ clean' = (InFlight({"add", "add paused", "pause"}) = {})
    BY DEF CheckQueueAutoLogout
  <1>4. queues \in Seq(Queues) /\ SetOf(queues) = Queues \cap paused
    BY InOrderIs
  <1> HIDE DEF queues
  <1>5. /\ added \in Seq(Command) /\ SeriesUnpause(SetOf(added))
        /\ \A c \in SetOf(added) : c.name \in {"remove", "unpause"}
        /\ settings.logout =>
             /\ \A q \in paused : \E c \in SetOf(added) : EndsPause(c, q)
             /\ \/ \E c \in SetOf(added) : c.series # NoSeries
                \/ \A q \in Dynamic \cap members :
                     \E c \in SetOf(added) : c.name = "remove" /\ q \in c.queues
    <2>1. CASE settings.logout
      <3>1. added = Unpause(queues, members)
        BY <2>1
      <3>2. paused = SetOf(queues)
        BY <1>2, <1>4
      <3> HIDE DEF added
      <3> QED BY <1>4, <3>1, <3>2, UnpauseIs
    <2>2. CASE ~settings.logout
      <3>1. added = <<>> /\ SetOf(added) = {}
        BY <2>2, SetOfEmpty
      <3> QED BY <2>2, <3>1, EmptySeq DEF SeriesUnpause
    <2> QED BY <2>1, <2>2
  <1> HIDE DEF added
  <1>6. commands' \in Seq(Command) /\ SetOf(commands') = SetOf(commands) \cup SetOf(added)
    <2>1. added \in Seq(Command)
      BY <1>5
    <2>2. /\ commands \o added \in Seq(Command)
          /\ SetOf(commands \o added) = SetOf(commands) \cup SetOf(added)
      BY <1>2, <2>1, SetOfConcat
    <2> QED BY <1>3, <2>2
  <1>7. QueuesTypeOK'
    <2>1. events' \in 0..MaxEvents
      <3>1. events \in 0..MaxEvents
        BY <1>1 DEF QueuesTypeOK
      <3>2. events < MaxEvents /\ events' = events + 1
        BY DEF CheckQueueAutoLogout, Event
      <3> QED BY <3>1, <3>2, BoundsAreNaturals
    <2>2. clean' \in BOOLEAN /\ present' \in BOOLEAN
      BY <1>3
    <2> QED BY <1>1, <1>3, <1>6, <2>1, <2>2 DEF QueuesTypeOK, CheckQueueAutoLogout, Event
  <1>8. SeriesUnpause(SetOf(commands'))
    BY <1>1, <1>5, <1>6, SeriesOfBoth
  <1>9. ASSUME clean' PROVE LogoutGoesOn(SetOf(commands'), members', paused', settings', refused')
    <2>1. \A c \in SetOf(commands) : c.name \in {"remove", "unpause"}
      <3>1. InFlight({"add", "add paused", "pause"}) = {} /\ {"add", "add paused", "pause"} \subseteq Names
        BY <1>3, <1>9 DEF Names
      <3>2. \A c \in SetOf(commands) : c.name \in Names \ {"add", "add paused", "pause"}
        BY <1>2, <3>1, InFlightIs
      <3> QED BY <3>2 DEF Names
    <2>2. \A c \in SetOf(commands') : c.name \in {"remove", "unpause"}
      BY <1>5, <1>6, <2>1
    <2>3. SetOf(added) \subseteq SetOf(commands')
      BY <1>6
    <2>4. settings.logout =>
            /\ \A q \in paused : \E c \in SetOf(commands') : EndsPause(c, q)
            /\ \/ \E c \in SetOf(commands') : c.series # NoSeries
               \/ \A q \in Dynamic \cap members :
                    \E c \in SetOf(commands') : c.name = "remove" /\ q \in c.queues
      <3>1. SUFFICES ASSUME settings.logout
                     PROVE  /\ \A q \in paused : \E c \in SetOf(commands') : EndsPause(c, q)
                            /\ \/ \E c \in SetOf(commands') : c.series # NoSeries
                               \/ \A q \in Dynamic \cap members :
                                    \E c \in SetOf(commands') : c.name = "remove" /\ q \in c.queues
        OBVIOUS
      <3>2. \A q \in paused : \E c \in SetOf(commands') : EndsPause(c, q)
        BY <1>5, <2>3, <3>1
      <3>3. CASE \E c \in SetOf(added) : c.series # NoSeries
        BY <2>3, <3>2, <3>3
      <3>4. CASE \A q \in Dynamic \cap members :
                   \E c \in SetOf(added) : c.name = "remove" /\ q \in c.queues
        BY <2>3, <3>2, <3>4
      <3> QED BY <1>5, <3>1, <3>3, <3>4
    <2> QED BY <1>3, <2>2, <2>4 DEF LogoutGoesOn, Removal
  <1> QED BY <1>3, <1>7, <1>8, <1>9 DEF AInv

LEMMA Requested ==
  ASSUME AInv, NEW name \in Names, NEW S \in SUBSET Queues, Request(name, S)
  PROVE  AInv'
  <1> DEFINE c == [name |-> name, queues |-> S, series |-> NoSeries]
             new == <<c>>
  <1>1. QueuesTypeOK /\ SeriesUnpause(SetOf(commands))
    BY DEF AInv
  <1>2. c \in Command /\ c.series = NoSeries
    BY DEF Command
  <1>3. commands' = Append(commands, c) /\ clean' = FALSE
    BY DEF Request
  <1> HIDE DEF c
  <1>4. commands \in Seq(Command) /\ new \in Seq(Command) /\ SetOf(new) = {c}
    BY <1>1, <1>2 DEF QueuesTypeOK, SetOf
  <1>5. commands' = commands \o new
    BY <1>2, <1>3, <1>4, AppendIsConcat
  <1> HIDE DEF new
  <1>6. commands' \in Seq(Command) /\ SetOf(commands') = SetOf(commands) \cup {c}
    BY <1>4, <1>5, SetOfConcat
  <1>7. SeriesUnpause(SetOf(commands'))
    <2>1. SeriesUnpause({c})
      BY <1>2 DEF SeriesUnpause
    <2> QED BY <1>1, <1>6, <2>1, SeriesOfBoth
  <1>8. QueuesTypeOK'
    <2>1. requests' \in 0..MaxRequests
      BY <1>1, BoundsAreNaturals DEF QueuesTypeOK, Request
    <2> QED BY <1>1, <1>6, <2>1 DEF QueuesTypeOK, Request
  <1> QED BY <1>3, <1>7, <1>8 DEF AInv

LEMMA SettingChanged ==
  ASSUME AInv, NEW name \in {"login", "logout"}, NEW enable \in BOOLEAN,
         SetQueueAutoConf(name, enable)
  PROVE  AInv'
  <1>1. QueuesTypeOK /\ SeriesUnpause(SetOf(commands))
    BY DEF AInv
  <1>2. commands' = commands /\ clean' = FALSE /\ members' = members /\ paused' = paused
    BY DEF SetQueueAutoConf
  <1>3. QueuesTypeOK'
    <2>1. requests' \in 0..MaxRequests
      BY <1>1, BoundsAreNaturals DEF QueuesTypeOK, SetQueueAutoConf
    <2>2. settings' \in [login : BOOLEAN, logout : BOOLEAN]
      BY <1>1 DEF QueuesTypeOK, SetQueueAutoConf
    <2> QED BY <1>1, <1>2, <2>1, <2>2 DEF QueuesTypeOK, SetQueueAutoConf
  <1> QED BY <1>1, <1>2, <1>3 DEF AInv

-----------------------------------------------------------------------------
(* The answers of Asterisk.                                                *)

LEMMA ExecutedTyped ==
  ASSUME NEW c \in Command, members \subseteq Queues, Queues \ Dynamic \subseteq members,
         paused \subseteq members, Executed(c, members, paused)
  PROVE  members' \subseteq Queues /\ Queues \ Dynamic \subseteq members' /\ paused' \subseteq members'
  <1>1. c.queues \subseteq Queues
    BY DEF Command
  <1>2. c.name \in Names
    BY DEF Command
  <1>3. CASE c.name = "add"
    <2>1. members' = members \cup c.queues /\ paused' = paused
      BY <1>3 DEF Executed
    <2> QED BY <1>1, <2>1
  <1>4. CASE c.name = "add paused"
    <2>1. members' = members \cup c.queues /\ paused' = paused \cup (c.queues \ members)
      BY <1>4 DEF Executed
    <2> QED BY <1>1, <2>1
  <1>5. CASE c.name = "remove"
    <2>1. /\ members' = members \ (c.queues \cap Dynamic)
          /\ paused' = paused \ (c.queues \cap Dynamic)
      BY <1>5 DEF Executed
    <2> QED BY <1>1, <2>1
  <1>6. CASE c.name = "pause"
    <2>1. members' = members /\ paused' = paused \cup (c.queues \cap members)
      BY <1>6 DEF Executed
    <2> QED BY <1>1, <2>1
  <1>7. CASE c.name = "unpause"
    <2>1. members' = members /\ paused' = paused \ c.queues
      BY <1>7 DEF Executed
    <2> QED BY <1>1, <2>1
  <1> QED BY <1>2, <1>3, <1>4, <1>5, <1>6, <1>7 DEF Names

\* The commands added after the answer to h, with the members M: none, or what
\* the series of h goes on with.
Continues(h, added, M) ==
  /\ h.series = NoSeries => added = {}
  /\ h.series # NoSeries =>
       /\ h.name = "unpause"
       /\ \A c \in added : c.name \in {"remove", "unpause"}
       /\ \A q \in SetOf(h.series) : \E c \in added : EndsPause(c, q)
       /\ \/ \E c \in added : c.series # NoSeries
          \/ \A q \in Dynamic \cap M : \E c \in added : c.name = "remove" /\ q \in c.queues

\* What follows an answer: the rest of the commands, and those added.
LEMMA GoOnIs ==
  ASSUME QueuesTypeOK, SeriesUnpause(SetOf(commands)), commands # <<>>, NEW M, GoOn(Head(commands), M)
  PROVE  \E added \in Seq(Command) :
           /\ commands' \in Seq(Command)
           /\ Head(commands) \in Command
           /\ SetOf(commands) = {Head(commands)} \cup SetOf(Tail(commands))
           /\ SetOf(commands') = SetOf(Tail(commands)) \cup SetOf(added)
           /\ SeriesUnpause(SetOf(commands'))
           /\ Continues(Head(commands), SetOf(added), M)
  <1> DEFINE h == Head(commands)
             added == IF h.series = NoSeries THEN <<>> ELSE Unpause(h.series, M)
  <1>1. commands \in Seq(Command)
    BY DEF QueuesTypeOK
  <1>2. /\ h \in Command /\ Tail(commands) \in Seq(Command)
        /\ SetOf(commands) = {h} \cup SetOf(Tail(commands))
    BY <1>1, SetOfHeadTail
  <1>3. commands' = Tail(commands) \o added
    BY DEF GoOn
  <1> HIDE DEF h
  <1>4. h.series \in Seq(Queues) \cup {NoSeries}
    BY <1>2 DEF Command
  <1>5. h.series # NoSeries => h.name = "unpause"
    BY <1>2 DEF SeriesUnpause
  <1>6. /\ added \in Seq(Command) /\ SeriesUnpause(SetOf(added))
        /\ Continues(h, SetOf(added), M)
    <2>1. CASE h.series = NoSeries
      <3>1. added = <<>> /\ SetOf(added) = {}
        BY <2>1, SetOfEmpty
      <3> QED BY <2>1, <3>1, EmptySeq DEF SeriesUnpause, Continues
    <2>2. CASE h.series # NoSeries
      <3>1. added = Unpause(h.series, M) /\ h.series \in Seq(Queues)
        BY <1>4, <2>2
      <3> HIDE DEF added
      <3> QED BY <1>5, <2>2, <3>1, UnpauseIs DEF Continues
    <2> QED BY <2>1, <2>2
  <1> HIDE DEF added
  <1>7. commands' \in Seq(Command) /\ SetOf(commands') = SetOf(Tail(commands)) \cup SetOf(added)
    <2> DEFINE rest == Tail(commands)
    <2>1. rest \in Seq(Command) /\ added \in Seq(Command) /\ commands' = rest \o added
      BY <1>2, <1>3, <1>6
    <2> HIDE DEF rest
    <2>2. commands' \in Seq(Command) /\ SetOf(commands') = SetOf(rest) \cup SetOf(added)
      BY <2>1, SetOfConcat
    <2> QED BY <2>2 DEF rest
  <1>8. SeriesUnpause(SetOf(commands'))
    BY <1>2, <1>6, <1>7 DEF SeriesUnpause
  <1> QED BY <1>2, <1>6, <1>7, <1>8 DEF h

LEMMA AnsweredInv ==
  ASSUME AInv, Answered
  PROVE  AInv'
  <1> DEFINE h == Head(commands)
             rest == SetOf(Tail(commands))
  <1>1. QueuesTypeOK /\ SeriesUnpause(SetOf(commands)) /\ commands # <<>>
    BY DEF AInv, Answered
  <1>2. /\ Executed(h, members, paused) /\ GoOn(h, members')
        /\ settings' = settings /\ present' = present /\ clean' = clean /\ refused' = refused
        /\ events' = events /\ requests' = requests /\ failures' = failures
    BY DEF Answered, counters
  <1>3. PICK added \in Seq(Command) :
          /\ commands' \in Seq(Command) /\ h \in Command
          /\ SetOf(commands) = {h} \cup rest
          /\ SetOf(commands') = rest \cup SetOf(added)
          /\ SeriesUnpause(SetOf(commands'))
          /\ Continues(h, SetOf(added), members')
    <2> DEFINE M == members'
    <2>1. GoOn(Head(commands), M)
      BY <1>2
    <2> HIDE DEF M
    <2>2. \E added \in Seq(Command) :
            /\ commands' \in Seq(Command)
            /\ Head(commands) \in Command
            /\ SetOf(commands) = {Head(commands)} \cup SetOf(Tail(commands))
            /\ SetOf(commands') = SetOf(Tail(commands)) \cup SetOf(added)
            /\ SeriesUnpause(SetOf(commands'))
            /\ Continues(Head(commands), SetOf(added), M)
      BY <1>1, <2>1, GoOnIs
    <2> QED BY <2>2 DEF M
  <1> HIDE DEF h, rest
  <1> DEFINE A == SetOf(added)
  <1>4. QueuesTypeOK'
    <2>1. members \subseteq Queues /\ Queues \ Dynamic \subseteq members /\ paused \subseteq members
      BY <1>1 DEF QueuesTypeOK
    <2>2. members' \subseteq Queues /\ Queues \ Dynamic \subseteq members' /\ paused' \subseteq members'
      BY <1>2, <1>3, <2>1, ExecutedTyped
    <2> QED BY <1>1, <1>2, <1>3, <2>2 DEF QueuesTypeOK
  <1>5. ASSUME clean, present PROVE LoginGoesOn(SetOf(commands'), members', settings', refused')
    <2>1. LoginGoesOn({h} \cup rest, members, settings, refused)
      BY <1>3, <1>5 DEF AInv
    <2>2. h.name \in {"add", "add paused"} /\ \A c \in rest : c.name \in {"add", "add paused"}
      BY <2>1 DEF LoginGoesOn
    <2>3. SetOf(commands') = rest
      BY <1>3, <2>2 DEF Continues
    <2>4. members' = members \cup h.queues
      BY <1>2, <2>2 DEF Executed
    <2>5. settings.login => \A q \in Dynamic \ members' :
            <<"add", q>> \in refused \/ \E c \in rest : c.name = "add" /\ q \in c.queues
      BY <2>1, <2>4 DEF LoginGoesOn
    <2> QED BY <1>2, <2>2, <2>3, <2>5 DEF LoginGoesOn
  <1>6. ASSUME clean, ~present PROVE LogoutGoesOn(SetOf(commands'), members', paused', settings', refused')
    <2>1. LogoutGoesOn({h} \cup rest, members, paused, settings, refused)
      BY <1>3, <1>6 DEF AInv
    <2>2. h.name \in {"remove", "unpause"} /\ \A c \in rest : c.name \in {"remove", "unpause"}
      BY <2>1 DEF LogoutGoesOn
    <2>3. \A c \in rest \cup A : c.name \in {"remove", "unpause"}
      BY <1>3, <2>2 DEF Continues
    <2>4. \/ /\ h.name = "remove" /\ members' = members \ (h.queues \cap Dynamic)
             /\ paused' = paused \ (h.queues \cap Dynamic)
          \/ h.name = "unpause" /\ members' = members /\ paused' = paused \ h.queues
      BY <1>2, <2>2 DEF Executed
    <2>5. ASSUME settings.logout, NEW q \in paused', <<"unpause", q>> \notin refused
          PROVE  \E c \in rest \cup A : EndsPause(c, q)
      <3>1. PICK c \in {h} \cup rest : EndsPause(c, q)
        BY <2>1, <2>4, <2>5 DEF LogoutGoesOn
      <3>2. CASE c \in rest
        BY <3>1, <3>2
      <3>3. CASE c = h
        <4>1. h.name = "unpause" /\ (q \in h.queues \/ (h.series # NoSeries /\ q \in SetOf(h.series)))
          BY <3>1, <3>3 DEF EndsPause
        <4>2. q \notin h.queues
          BY <2>4, <2>5, <4>1
        <4> QED BY <1>3, <4>1, <4>2 DEF Continues
      <3> QED BY <3>2, <3>3
    <2>6. ASSUME settings.logout
          PROVE  \/ \E c \in rest \cup A : c.series # NoSeries
                 \/ \A q \in Dynamic \cap members' : Removal(rest \cup A, refused, q)
      <3>1. \/ \E c \in {h} \cup rest : c.series # NoSeries
            \/ \A q \in Dynamic \cap members : Removal({h} \cup rest, refused, q)
        BY <2>1, <2>6 DEF LogoutGoesOn
      <3>2. CASE h.series # NoSeries
        <4>1. \/ \E c \in A : c.series # NoSeries
              \/ \A q \in Dynamic \cap members' :
                   \E c \in A : c.name = "remove" /\ q \in c.queues
          BY <1>3, <3>2 DEF Continues
        <4> QED BY <4>1 DEF Removal
      <3>3. CASE \E c \in rest : c.series # NoSeries
        BY <3>3
      <3>4. CASE h.series = NoSeries /\ ~\E c \in rest : c.series # NoSeries
        <4>1. \A q \in Dynamic \cap members : Removal({h} \cup rest, refused, q)
          BY <3>1, <3>4
        <4>2. ASSUME NEW q \in Dynamic \cap members', <<"remove", q>> \notin refused
              PROVE  \E c \in rest : c.name = "remove" /\ q \in c.queues
          <5>1. q \in Dynamic \cap members
            BY <2>4, <4>2
          <5>2. PICK c \in {h} \cup rest : c.name = "remove" /\ q \in c.queues
            BY <4>1, <4>2, <5>1 DEF Removal
          <5>3. c # h
            BY <2>4, <4>2, <5>2
          <5> QED BY <5>2, <5>3
        <4> QED BY <4>2 DEF Removal
      <3> QED BY <3>2, <3>3, <3>4
    <2> HIDE DEF A
    <2>7. SetOf(commands') = rest \cup A
      BY <1>3 DEF A
    <2> QED BY <1>2, <2>3, <2>5, <2>6, <2>7 DEF LogoutGoesOn
  <1> QED BY <1>2, <1>3, <1>4, <1>5, <1>6 DEF AInv

LEMMA FailedInv ==
  ASSUME AInv, CommandFailed
  PROVE  AInv'
  <1> DEFINE h == Head(commands)
             rest == SetOf(Tail(commands))
             now == refused \cup Denied(h)
  <1>1. QueuesTypeOK /\ SeriesUnpause(SetOf(commands)) /\ commands # <<>>
    BY DEF AInv, CommandFailed
  <1>2. /\ GoOn(h, members) /\ refused' = now
        /\ settings' = settings /\ present' = present /\ clean' = clean
        /\ members' = members /\ paused' = paused
    BY DEF CommandFailed
  <1>3. PICK added \in Seq(Command) :
          /\ commands' \in Seq(Command) /\ h \in Command
          /\ SetOf(commands) = {h} \cup rest
          /\ SetOf(commands') = rest \cup SetOf(added)
          /\ SeriesUnpause(SetOf(commands'))
          /\ Continues(h, SetOf(added), members)
    BY <1>1, <1>2, GoOnIs
  <1>4. \A name, q : <<name, q>> \in now <=> <<name, q>> \in refused \/ (name = h.name /\ q \in h.queues)
    BY DEF Denied
  <1>5. QueuesTypeOK'
    <2>1. failures' \in 0..MaxFailures
      BY <1>1, BoundsAreNaturals DEF QueuesTypeOK, CommandFailed
    <2>2. refused' \subseteq Names \X Queues
      BY <1>1, <1>2, <1>3 DEF QueuesTypeOK, Denied, Command
    <2> QED BY <1>1, <1>3, <2>1, <2>2 DEF QueuesTypeOK, CommandFailed
  <1> HIDE DEF h, rest, now
  <1> DEFINE A == SetOf(added)
  <1>6. ASSUME clean, present PROVE LoginGoesOn(SetOf(commands'), members', settings', refused')
    <2>1. LoginGoesOn({h} \cup rest, members, settings, refused)
      BY <1>3, <1>6 DEF AInv
    <2>2. h.name \in {"add", "add paused"} /\ \A c \in rest : c.name \in {"add", "add paused"}
      BY <2>1 DEF LoginGoesOn
    <2>3. SetOf(commands') = rest
      BY <1>3, <2>2 DEF Continues
    <2>4. settings.login => \A q \in Dynamic \ members :
            <<"add", q>> \in now \/ \E c \in rest : c.name = "add" /\ q \in c.queues
      BY <1>4, <2>1 DEF LoginGoesOn
    <2> QED BY <1>2, <2>2, <2>3, <2>4 DEF LoginGoesOn
  <1>7. ASSUME clean, ~present PROVE LogoutGoesOn(SetOf(commands'), members', paused', settings', refused')
    <2>1. LogoutGoesOn({h} \cup rest, members, paused, settings, refused)
      BY <1>3, <1>7 DEF AInv
    <2>2. h.name \in {"remove", "unpause"} /\ \A c \in rest : c.name \in {"remove", "unpause"}
      BY <2>1 DEF LogoutGoesOn
    <2>3. \A c \in rest \cup A : c.name \in {"remove", "unpause"}
      BY <1>3, <2>2 DEF Continues
    <2>4. ASSUME settings.logout, NEW q \in paused, <<"unpause", q>> \notin now
          PROVE  \E c \in rest \cup A : EndsPause(c, q)
      <3>1. PICK c \in {h} \cup rest : EndsPause(c, q)
        BY <1>4, <2>1, <2>4 DEF LogoutGoesOn
      <3>2. CASE c \in rest
        BY <3>1, <3>2
      <3>3. CASE c = h
        <4>1. h.series # NoSeries /\ q \in SetOf(h.series)
          BY <1>4, <2>4, <3>1, <3>3 DEF EndsPause
        <4> QED BY <1>3, <4>1 DEF Continues
      <3> QED BY <3>2, <3>3
    <2>5. ASSUME settings.logout
          PROVE  \/ \E c \in rest \cup A : c.series # NoSeries
                 \/ \A q \in Dynamic \cap members : Removal(rest \cup A, now, q)
      <3>1. \/ \E c \in {h} \cup rest : c.series # NoSeries
            \/ \A q \in Dynamic \cap members : Removal({h} \cup rest, refused, q)
        BY <2>1, <2>5 DEF LogoutGoesOn
      <3>2. CASE h.series # NoSeries
        <4>1. \/ \E c \in A : c.series # NoSeries
              \/ \A q \in Dynamic \cap members :
                   \E c \in A : c.name = "remove" /\ q \in c.queues
          BY <1>3, <3>2 DEF Continues
        <4> QED BY <4>1 DEF Removal
      <3>3. CASE \E c \in rest : c.series # NoSeries
        BY <3>3
      <3>4. CASE h.series = NoSeries /\ ~\E c \in rest : c.series # NoSeries
        BY <1>4, <3>1, <3>4 DEF Removal
      <3> QED BY <3>2, <3>3, <3>4
    <2> HIDE DEF A
    <2>6. SetOf(commands') = rest \cup A
      BY <1>3 DEF A
    <2> QED BY <1>2, <2>3, <2>4, <2>5, <2>6 DEF LogoutGoesOn
  <1> QED BY <1>2, <1>3, <1>5, <1>6, <1>7 DEF AInv

LEMMA QueuesStutter ==
  ASSUME AInv, UNCHANGED queuesVars
  PROVE  AInv'
  <1>1. /\ settings' = settings /\ members' = members /\ paused' = paused /\ commands' = commands
        /\ present' = present /\ clean' = clean /\ refused' = refused
        /\ events' = events /\ requests' = requests /\ failures' = failures
    BY DEF queuesVars
  <1>2. QueuesTypeOK'
    BY <1>1 DEF AInv, QueuesTypeOK
  <1> QED BY <1>1, <1>2 DEF AInv

-----------------------------------------------------------------------------
(* The theorems.                                                           *)

LEMMA QueuesStepInv ==
  ASSUME AInv, [QueuesNext]_queuesVars
  PROVE  AInv'
  <1>1. CASE CheckQueueAutoLogin
    BY <1>1, LoggedIn
  <1>2. CASE CheckQueueAutoLogout
    BY <1>2, LoggedOut
  <1>3. CASE \E name \in Names, q \in Queues : Request(name, {q})
    <2>1. PICK name \in Names, q \in Queues : Request(name, {q})
      BY <1>3
    <2>2. {q} \in SUBSET Queues
      OBVIOUS
    <2> QED BY <2>1, <2>2, Requested
  <1>4. CASE \E name \in {"pause", "unpause"} : Request(name, Queues)
    <2>1. PICK name \in {"pause", "unpause"} : Request(name, Queues)
      BY <1>4
    <2>2. name \in Names /\ Queues \in SUBSET Queues
      BY DEF Names
    <2> QED BY <2>1, <2>2, Requested
  <1>5. CASE \E name \in {"login", "logout"}, enable \in BOOLEAN : SetQueueAutoConf(name, enable)
    BY <1>5, SettingChanged
  <1>6. CASE Answered
    BY <1>6, AnsweredInv
  <1>7. CASE CommandFailed
    BY <1>7, FailedInv
  <1>8. CASE UNCHANGED queuesVars
    BY <1>8, QueuesStutter
  <1> QED BY <1>1, <1>2, <1>3, <1>4, <1>5, <1>6, <1>7, <1>8 DEF QueuesNext

\* The inductive invariant holds in every behaviour: what the commands that are not
\* answered still do for the last event (see the head of the module).
THEOREM QueuesInvariant == QueuesSpec => []AInv
  <1>1. QueuesInit => AInv
    BY QueuesInitInv
  <1>2. AInv /\ [QueuesNext]_queuesVars => AInv'
    BY QueuesStepInv
  <1> QED BY <1>1, <1>2, PTL DEF QueuesSpec

\* The queues astproxy knows of, the commands on the connection and the series
\* are well typed, a static member stays one, and only members are paused.
THEOREM QueuesTypeCorrect == QueuesSpec => []QueuesTypeOK
  <1>1. AInv => QueuesTypeOK
    BY DEF AInv
  <1> QED BY <1>1, QueuesInvariant, PTL

\* For any queues, and any number of events, requests and failures: once every
\* command is answered, an agent is where the last event wants him, but in the queues
\* whose command was refused (checkQueueAutoLogin, checkQueueAutoLogout).
THEOREM AgentsFollow == QueuesSpec => []AgentFollowsSession
  <1>1. ASSUME AInv, commands = <<>>, clean
        PROVE  /\ present /\ settings.login => But(Dynamic \ members, "add") = {}
               /\ ~present /\ settings.logout =>
                    But(Dynamic \cap members, "remove") = {} /\ But(paused, "unpause") = {}
    <2>1. SetOf(commands) = {}
      BY <1>1, SetOfEmpty
    <2>2. present => LoginGoesOn({}, members, settings, refused)
      BY <1>1, <2>1 DEF AInv
    <2>3. ~present => LogoutGoesOn({}, members, paused, settings, refused)
      BY <1>1, <2>1 DEF AInv
    <2>4. present /\ settings.login => But(Dynamic \ members, "add") = {}
      BY <2>2 DEF LoginGoesOn, But
    <2>5. ~present /\ settings.logout =>
            But(Dynamic \cap members, "remove") = {} /\ But(paused, "unpause") = {}
      BY <2>3 DEF LogoutGoesOn, Removal, But
    <2> QED BY <2>4, <2>5
  <1>2. AInv => AgentFollowsSession
    BY <1>1 DEF AgentFollowsSession
  <1> QED BY <1>2, QueuesInvariant, PTL

-----------------------------------------------------------------------------
(***************************************************************************)
(* What is proved of UserSettings, for any users, settings and bounds: the *)
(* state is well typed; a save answered 200 and a reload that is over      *)
(* leave in memory what is stored, when nothing came between; and the      *)
(* default extension a user was answered 200 for is stored and served.     *)
(*                                                                         *)
(* The inductive invariant says of every task what its stage still waits   *)
(* for, that a clean task is the only one, and of a clean task what its    *)
(* queries have already done (Stands).                                     *)
(***************************************************************************)

Default == "default_extension"

-----------------------------------------------------------------------------
(* The invariant.                                                          *)

\* What a task t that waits for the database or for a callback keeps.
Waits(t) ==
  /\ t.op = "save" =>
       /\ t.user \in Users /\ t.stage \in {"upserts", "load"}
       /\ t.stage = "upserts" => t.todo \subseteq DOMAIN t.data
  /\ t.op = "default" =>
       /\ t.user \in Users /\ Default \in DOMAIN t.data
       /\ t.stage \in {"find", "insert", "update", "saved", "refused", "hung"}
  /\ t.op = "config" =>
       /\ t.data = Empty /\ t.stage \notin {"upserts", "refused"}
       /\ t.stage \in {"find", "insert", "update", "saved"} => t.fixes # Empty
  /\ t.stage = "check" => t.rows \in PartOf(Users, Values)
  /\ t.stage = "load" =>
       /\ t.todo \subseteq Users /\ t.rows \in PartOf(Users, Settings \cup {None})
       /\ t.todo # {} \/ t.rows # Empty

\* What the queries of a clean task t have done, for the users known, the
\* table and what is in memory.
Stands(t, known, stored, memory) ==
  /\ t.op = "save" =>
       \A k \in DOMAIN t.data :
         (t.stage = "upserts" /\ k \in t.todo) \/ stored[t.user][k] = t.data[k]
  /\ t.op = "default" =>
       /\ t.stage = "update" => stored[t.user][Default] # None
       /\ t.stage = "saved" => stored[t.user][Default] = t.data[Default]
       /\ t.stage # "refused"
  /\ t.stage = "load" =>
       /\ \A u \in DOMAIN known : u \in t.todo \cup DOMAIN t.rows \/ memory[u] = stored[u]
       /\ \A u \in DOMAIN t.rows : t.rows[u] = stored[u]

Alone == \A i, j \in Busy : tasks[i].clean => i = j

UInv ==
  /\ TypeOK
  /\ \A i \in Busy : Waits(tasks[i])
  /\ Alone
  /\ \A i \in Busy : tasks[i].clean => Stands(tasks[i], users, table, cache)

-----------------------------------------------------------------------------
(* Functions on a part of a set, and tasks.                                *)

LEMMA PartIs ==
  ASSUME NEW X, NEW Y, NEW f
  PROVE  f \in PartOf(X, Y) <=> f \in [DOMAIN f -> Y] /\ DOMAIN f \subseteq X
  <1>1. ASSUME f \in PartOf(X, Y) PROVE f \in [DOMAIN f -> Y] /\ DOMAIN f \subseteq X
    <2>1. PICK D \in SUBSET X : f \in [D -> Y]
      BY <1>1 DEF PartOf
    <2> QED BY <2>1
  <1>2. ASSUME f \in [DOMAIN f -> Y], DOMAIN f \subseteq X PROVE f \in PartOf(X, Y)
    <2>1. DOMAIN f \in SUBSET X
      BY <1>2
    <2> QED BY <1>2, <2>1 DEF PartOf
  <1> QED BY <1>1, <1>2

LEMMA EmptyIs ==
  ASSUME NEW X, NEW Y, NEW f \in PartOf(X, Y)
  PROVE  f = Empty <=> DOMAIN f = {}
  <1>1. f \in [DOMAIN f -> Y]
    BY PartIs
  <1>2. DOMAIN Empty = {}
    BY DEF Empty
  <1>3. ASSUME DOMAIN f = {} PROVE f = Empty
    <2>1. f = [x \in {} |-> f[x]]
      BY <1>1, <1>3
    <2>2. [x \in {} |-> f[x]] = [x \in {} |-> None]
      OBVIOUS
    <2> QED BY <2>1, <2>2 DEF Empty
  <1> QED BY <1>2, <1>3

LEMMA EmptyIsPart ==
  ASSUME NEW X, NEW Y
  PROVE  Empty \in PartOf(X, Y)
  <1>1. Empty \in [{} -> Y] /\ DOMAIN Empty = {}
    BY DEF Empty
  <1> QED BY <1>1, PartIs

LEMMA FilesAre ==
  ASSUME NEW f \in UserFiles
  PROVE  /\ DOMAIN f \subseteq Users /\ DOMAIN f # {}
         /\ \A u \in DOMAIN f : f[u] \subseteq Extens /\ f[u] # {}
  BY FilesAssumption

LEMMA NoneIsNoTask ==
  None \notin Values /\ None \notin Settings /\ None \notin Tasks
  BY NoneAssumption

\* Whether a task is clean does not matter for what it waits for.
LEMMA CleanApart ==
  ASSUME NEW t \in Tasks, NEW b \in BOOLEAN, NEW known, NEW stored, NEW memory
  PROVE  /\ [t EXCEPT !.clean = b] \in Tasks
         /\ [t EXCEPT !.clean = b].clean = b
         /\ Waits(t) => Waits([t EXCEPT !.clean = b])
         /\ Stands(t, known, stored, memory)
              => Stands([t EXCEPT !.clean = b], known, stored, memory)
  <1> DEFINE q == [t EXCEPT !.clean = b]
  <1>1. q \in Tasks /\ q.clean = b
    BY DEF Tasks
  <1>2. /\ q.op = t.op /\ q.user = t.user /\ q.data = t.data /\ q.stage = t.stage
        /\ q.todo = t.todo /\ q.rows = t.rows /\ q.fixes = t.fixes
    BY DEF Tasks
  <1> HIDE DEF q
  <1>3. Waits(t) => Waits(q)
    BY <1>2 DEF Waits
  <1>4. Stands(t, known, stored, memory) => Stands(q, known, stored, memory)
    BY <1>2 DEF Stands
  <1> QED BY <1>1, <1>3, <1>4 DEF q

LEMMA BusyAre ==
  ASSUME TypeOK
  PROVE  \A i : i \in Busy <=> i \in Slots /\ tasks[i] # None /\ tasks[i] \in Tasks
  BY DEF TypeOK, Busy

-----------------------------------------------------------------------------
(* The first state.                                                        *)

LEMMA InitInv ==
  ASSUME Init
  PROVE  UInv
  <1> DEFINE t == Task("config", None, Empty, "defaults")
  <1>0. t = Task("config", None, Empty, "defaults")
    OBVIOUS
  <1> HIDE DEF t
  <1>1. /\ t \in Tasks /\ t.op = "config" /\ t.data = Empty /\ t.stage = "defaults"
    <2>1. Empty \in PartOf(Keys, Values)
      BY EmptyIsPart
    <2>2. Empty \in PartOf(Users, Values)
      BY EmptyIsPart
    <2>3. Empty \in PartOf(Users, Settings \cup Values \cup {None})
      BY EmptyIsPart
    <2>4. "config" \in Ops /\ "defaults" \in Stages
      BY DEF Ops, Stages
    <2> QED BY <1>0, <2>1, <2>2, <2>3, <2>4 DEF Task, Tasks
  <1>2. tasks = [i \in Slots |-> IF i = 1 THEN t ELSE None]
    BY DEF Init, t
  <1>3. table \in [Users -> Settings]
    <2>1. PICK d \in Defaults :
            table = [u \in Users |-> [k \in Keys |-> IF k = Default /\ u \in DOMAIN d
                                                     THEN d[u] ELSE None]]
      BY DEF Init, Default
    <2>2. \A u \in DOMAIN d : d[u] \in Values
      BY DefaultsAssumption
    <2> QED BY <2>1, <2>2 DEF Settings
  <1>4. \A i \in Busy : i = 1 /\ tasks[i] = t
    BY <1>2 DEF Busy
  <1>5. TypeOK
    <2>1. tasks \in [Slots -> Tasks \cup {None}]
      BY <1>1, <1>2
    <2>2. cache \in [Users -> Settings \cup {None}]
      BY DEF Init
    <2>3. starts \in 0..MaxStarts /\ errors \in 0..MaxErrors
      BY BoundsAssumption DEF Init
    <2> QED BY <1>1, <1>3, <1>4, <2>1, <2>2, <2>3 DEF TypeOK, Init
  <1>6. Waits(t) /\ \A known, stored, memory : Stands(t, known, stored, memory)
    BY <1>1 DEF Waits, Stands
  <1> QED BY <1>4, <1>5, <1>6 DEF UInv, Alone

-----------------------------------------------------------------------------
(* How tasks start, go on and end.                                         *)

\* The state besides the tasks and their number.
DataOK ==
  /\ file \in UserFiles /\ users \in UserFiles /\ reading \in BOOLEAN
  /\ table \in [Users -> Settings]
  /\ cache \in [Users -> Settings \cup {None}]
  /\ errors \in 0..MaxErrors

\* What the invariant says of one task.
Good(t, known, stored, memory) ==
  Waits(t) /\ (t.clean => Stands(t, known, stored, memory))

LEMMA Parts ==
  ASSUME UInv
  PROVE  /\ DataOK /\ starts \in 0..MaxStarts /\ tasks \in [Slots -> Tasks \cup {None}]
         /\ Alone /\ \A i \in Busy : Good(tasks[i], users, table, cache)
  BY DEF UInv, TypeOK, DataOK, Good

\* The invariant from what it says of every task.
LEMMA Assembled ==
  ASSUME DataOK', starts' \in 0..MaxStarts, tasks' \in [Slots -> Tasks \cup {None}], Alone',
         \A i \in Busy' : Good(tasks'[i], users', table', cache')
  PROVE  UInv'
  <1>1. \A i \in Busy' : tasks'[i] \in Tasks /\ Waits(tasks'[i])
    BY DEF Busy, Good
  <1>2. \A i \in Busy' :
          /\ tasks'[i].stage = "load" => tasks'[i].todo # {} \/ tasks'[i].rows # Empty
          /\ tasks'[i].stage \in {"find", "insert", "update", "saved"} /\ tasks'[i].op = "config"
               => tasks'[i].fixes # Empty
    BY <1>1 DEF Waits
  <1>3. TypeOK'
    BY <1>2 DEF TypeOK, DataOK
  <1>4. \A i \in Busy' : Waits(tasks'[i])
    BY <1>1
  <1>5. \A i \in Busy' : tasks'[i].clean => Stands(tasks'[i], users', table', cache')
    BY DEF Good
  <1> QED BY <1>3, <1>4, <1>5 DEF UInv

LEMMA Going ==
  ASSUME UInv, NEW i \in Busy, NEW t \in Tasks, Goes(i, t), DataOK', starts' = starts,
         t.clean => tasks[i].clean, Good(t, users', table', cache')
  PROVE  UInv' /\ Busy \subseteq Busy'
  <1>1. /\ tasks \in [Slots -> Tasks \cup {None}] /\ starts \in 0..MaxStarts /\ Alone
        /\ \A j \in Busy : Good(tasks[j], users, table, cache)
    BY Parts
  <1>2. i \in Slots /\ Busy \subseteq Slots
    BY DEF Busy
  <1>3. /\ tasks' \in [Slots -> Tasks \cup {None}] /\ tasks'[i] = t
        /\ \A j \in Slots : j # i => tasks'[j] = tasks[j]
    BY <1>1, <1>2 DEF Goes
  <1>4. Busy' = Busy
    BY <1>2, <1>3, NoneIsNoTask DEF Busy
  <1>5. Alone'
    BY <1>1, <1>2, <1>3, <1>4 DEF Alone
  <1>6. ASSUME NEW j \in Busy, j # i PROVE Good(tasks'[j], users', table', cache')
    <2>1. ~tasks[j].clean
      BY <1>1, <1>6 DEF Alone
    <2>2. Waits(tasks[j])
      BY <1>1 DEF Good
    <2> QED BY <1>2, <1>3, <1>6, <2>1, <2>2 DEF Good
  <1>7. \A j \in Busy' : Good(tasks'[j], users', table', cache')
    BY <1>3, <1>4, <1>6
  <1> QED BY <1>1, <1>3, <1>4, <1>5, <1>7, Assembled

LEMMA Ending ==
  ASSUME UInv, NEW i \in Busy, Ends(i), DataOK', starts' = starts
  PROVE  UInv' /\ Busy \ {i} \subseteq Busy'
  <1>1. /\ tasks \in [Slots -> Tasks \cup {None}] /\ starts \in 0..MaxStarts /\ Alone
        /\ \A j \in Busy : Good(tasks[j], users, table, cache)
    BY Parts
  <1>2. i \in Slots /\ Busy \subseteq Slots
    BY DEF Busy
  <1>3. /\ tasks' \in [Slots -> Tasks \cup {None}] /\ tasks'[i] = None
        /\ \A j \in Slots : j # i => tasks'[j] = tasks[j]
    BY <1>1, <1>2 DEF Ends
  <1>4. \A j \in Busy' : j \in Busy /\ j # i
    BY <1>2, <1>3 DEF Busy
  <1>5. Alone'
    BY <1>1, <1>2, <1>3, <1>4 DEF Alone
  <1>6. ASSUME NEW j \in Busy' PROVE Good(tasks'[j], users', table', cache')
    <2>1. ~tasks[j].clean
      BY <1>1, <1>4 DEF Alone
    <2>2. Waits(tasks[j])
      BY <1>1, <1>4 DEF Good
    <2> QED BY <1>2, <1>3, <1>4, <2>1, <2>2 DEF Good
  <1>7. Busy \ {i} \subseteq Busy'
    BY <1>2, <1>3 DEF Busy
  <1> QED BY <1>1, <1>3, <1>5, <1>6, <1>7, Assembled

\* Every task of before is overlapped.
LEMMA Overlapping ==
  ASSUME UInv
  PROVE  /\ Overlapped \in [Slots -> Tasks \cup {None}]
         /\ \A j \in Busy : Overlapped[j] \in Tasks /\ ~Overlapped[j].clean /\ Waits(Overlapped[j])
         /\ \A j \in Slots \ Busy : Overlapped[j] = None
  <1>1. /\ tasks \in [Slots -> Tasks \cup {None}]
        /\ \A j \in Busy : Good(tasks[j], users, table, cache)
    BY Parts
  <1>2. \A j \in Busy : j \in Slots /\ tasks[j] \in Tasks /\ Waits(tasks[j])
    BY <1>1 DEF Busy, Good
  <1>3. \A j \in Busy : /\ [tasks[j] EXCEPT !.clean = FALSE] \in Tasks
                        /\ [tasks[j] EXCEPT !.clean = FALSE].clean = FALSE
                        /\ Waits([tasks[j] EXCEPT !.clean = FALSE])
    BY <1>2, CleanApart
  <1>4. \A j \in Slots : Overlapped[j] = IF j \in Busy THEN [tasks[j] EXCEPT !.clean = FALSE] ELSE None
    BY DEF Overlapped
  <1>5. \A j \in Busy : Overlapped[j] \in Tasks /\ ~Overlapped[j].clean /\ Waits(Overlapped[j])
    BY <1>2, <1>3, <1>4
  <1>6. \A j \in Slots : Overlapped[j] \in Tasks \cup {None}
    BY <1>4, <1>5
  <1>7. Overlapped = [j \in Slots |-> Overlapped[j]]
    BY DEF Overlapped
  <1>8. Overlapped \in [Slots -> Tasks \cup {None}]
    BY <1>6, <1>7
  <1> QED BY <1>4, <1>5, <1>8

LEMMA Deleted ==
  ASSUME UInv, tasks' = Overlapped, DataOK', starts' \in 0..MaxStarts
  PROVE  UInv' /\ Busy \subseteq Busy'
  <1>1. tasks' \in [Slots -> Tasks \cup {None}]
    BY Overlapping
  <1>2. \A j \in Busy' : j \in Slots /\ j \in Busy
    BY Overlapping DEF Busy
  <1>3. \A j \in Busy' : ~tasks'[j].clean /\ Waits(tasks'[j])
    BY <1>2, Overlapping
  <1>4. Alone'
    BY <1>3 DEF Alone
  <1>5. \A j \in Busy' : Good(tasks'[j], users', table', cache')
    BY <1>3 DEF Good
  <1>6. Busy \subseteq Busy'
    BY Overlapping, NoneIsNoTask DEF Busy
  <1> QED BY <1>1, <1>4, <1>5, <1>6, Assembled

LEMMA Starting ==
  ASSUME UInv, NEW t \in Tasks, Start(t), DataOK', Waits(t), Stands(t, users', table', cache')
  PROVE  UInv' /\ Busy \subseteq Busy'
  <1> DEFINE i == CHOOSE i \in Slots \ Busy : TRUE
             b == (Busy = {})
             q == [t EXCEPT !.clean = b]
  <1>1. i \in Slots /\ i \notin Busy
    <2>1. \E j : j \in Slots \ Busy
      BY DEF Start, Busy
    <2> QED BY <2>1
  <1>2. tasks' = [Overlapped EXCEPT ![i] = q] /\ starts' \in 0..MaxStarts
    <2>1. starts \in 0..MaxStarts
      BY Parts
    <2> QED BY <2>1, BoundsAssumption DEF Start
  <1>3. q \in Tasks /\ q.clean = b /\ Waits(q) /\ Stands(q, users', table', cache')
    <2>1. b \in BOOLEAN
      OBVIOUS
    <2> QED BY <2>1, CleanApart
  <1>0. b <=> Busy = {}
    OBVIOUS
  <1> HIDE DEF i, q, b
  <1>4. /\ tasks' \in [Slots -> Tasks \cup {None}] /\ tasks'[i] = q
        /\ \A j \in Slots : j # i => tasks'[j] = Overlapped[j]
    BY <1>1, <1>2, <1>3, Overlapping
  <1>5. \A j \in Busy' : j # i => j \in Busy /\ j \in Slots
    BY <1>1, <1>4, Overlapping DEF Busy
  <1>6. \A j \in Busy' : j # i => ~tasks'[j].clean /\ Waits(tasks'[j])
    BY <1>4, <1>5, Overlapping
  <1>7. Alone'
    <2>1. ASSUME NEW j \in Busy', NEW k \in Busy', tasks'[j].clean PROVE j = k
      <3>1. j = i
        BY <1>6, <2>1
      <3>2. Busy = {}
        BY <1>0, <1>3, <1>4, <2>1, <3>1
      <3> QED BY <1>5, <3>1, <3>2
    <2> QED BY <2>1 DEF Alone
  <1>8. \A j \in Busy' : Good(tasks'[j], users', table', cache')
    BY <1>3, <1>4, <1>6 DEF Good
  <1>9. Busy \subseteq Busy'
    BY <1>1, <1>4, Overlapping, NoneIsNoTask DEF Busy
  <1> QED BY <1>2, <1>4, <1>7, <1>8, <1>9, Assembled

-----------------------------------------------------------------------------
(* The requests, and the users.                                            *)

LEMMA Posted ==
  ASSUME UInv, NEW u \in Users, NEW p \in Posts, settingsPost(u, p)
  PROVE  UInv' /\ Busy \subseteq Busy'
  <1> DEFINE new == Task("save", u, p, "upserts")
             t == [new EXCEPT !.todo = DOMAIN p]
  <1>1. p \in PartOf(Keys, Values) /\ DOMAIN p \subseteq Keys
    <2>1. p \in PartOf(Keys, Values)
      BY PostsAssumption
    <2> QED BY <2>1, PartIs
  <1>2. Empty \in PartOf(Users, Values) /\ Empty \in PartOf(Users, Settings \cup Values \cup {None})
    BY EmptyIsPart
  <1>3. /\ t.op = "save" /\ t.user = u /\ t.data = p /\ t.stage = "upserts" /\ t.todo = DOMAIN p
        /\ t.rows = Empty /\ t.fixes = Empty /\ t.clean = TRUE
    BY DEF Task
  <1>4. t \in Tasks
    <2>1. DOMAIN p \in SUBSET (Users \cup Keys)
      BY <1>1
    <2> QED BY <1>1, <1>2, <2>1 DEF Task, Tasks, Ops, Stages
  <1>5. Start(t)
    BY DEF settingsPost
  <1> HIDE DEF t
  <1>6. DataOK'
    <2>1. DataOK
      BY Parts
    <2> QED BY <2>1 DEF DataOK, settingsPost, userVars
  <1>7. Waits(t)
    BY <1>3 DEF Waits
  <1>8. Stands(t, users', table', cache')
    BY <1>3 DEF Stands
  <1> QED BY <1>4, <1>5, <1>6, <1>7, <1>8, Starting

LEMMA DefaultAsked ==
  ASSUME UInv, NEW u \in Users, NEW e \in Extens, setDefaultUserExtensionConf(u, e)
  PROVE  UInv' /\ Busy \subseteq Busy'
  <1> DEFINE data == [k \in {"default_extension"} |-> e]
             t == Task("default", u, data, "find")
  <1>1. data \in PartOf(Keys, Values) /\ Default \in DOMAIN data
    <2>1. DOMAIN data = {Default} /\ data \in [DOMAIN data -> Values]
      BY DEF Values, Default
    <2>2. {Default} \subseteq Keys
      BY DEF Keys, Default
    <2> QED BY <2>1, <2>2, PartIs
  <1>2. Empty \in PartOf(Users, Values) /\ Empty \in PartOf(Users, Settings \cup Values \cup {None})
    BY EmptyIsPart
  <1> HIDE DEF data
  <1>3. /\ t.op = "default" /\ t.user = u /\ t.data = data /\ t.stage = "find"
    BY DEF Task
  <1>4. t \in Tasks
    BY <1>1, <1>2 DEF Task, Tasks, Ops, Stages
  <1>5. Start(t)
    BY DEF setDefaultUserExtensionConf, data
  <1> HIDE DEF t
  <1>6. DataOK'
    <2>1. DataOK
      BY Parts
    <2> QED BY <2>1 DEF DataOK, setDefaultUserExtensionConf, userVars
  <1>7. Waits(t)
    BY <1>1, <1>3 DEF Waits
  <1>8. Stands(t, users', table', cache')
    BY <1>3 DEF Stands
  <1> QED BY <1>4, <1>5, <1>6, <1>7, <1>8, Starting

LEMMA SettingsDeleted ==
  ASSUME UInv, NEW u \in Users, NEW ks, deleteSettings(u, ks)
  PROVE  UInv' /\ Busy \subseteq Busy'
  <1>1. DataOK /\ starts \in 0..MaxStarts
    BY Parts
  <1>2. table' \in [Users -> Settings]
    <2>1. table \in [Users -> Settings]
      BY <1>1 DEF DataOK
    <2>2. [k \in Keys |-> IF k \in ks THEN None ELSE table[u][k]] \in Settings
      BY <2>1 DEF Settings
    <2>3. table' = [table EXCEPT ![u] = [k \in Keys |-> IF k \in ks THEN None ELSE table[u][k]]]
      BY DEF deleteSettings
    <2> QED BY <2>1, <2>2, <2>3
  <1>3. DataOK'
    BY <1>1, <1>2 DEF DataOK, deleteSettings, userVars
  <1>4. starts' \in 0..MaxStarts /\ tasks' = Overlapped
    BY <1>1, BoundsAssumption DEF deleteSettings
  <1> QED BY <1>3, <1>4, Deleted

LEMMA Reloaded ==
  ASSUME UInv, Reload
  PROVE  UInv' /\ Busy \subseteq Busy'
  <1> DEFINE t == Task("config", None, Empty, "defaults")
  <1>1. /\ Empty \in PartOf(Keys, Values) /\ Empty \in PartOf(Users, Values)
        /\ Empty \in PartOf(Users, Settings \cup Values \cup {None})
    BY EmptyIsPart
  <1>2. t.op = "config" /\ t.data = Empty /\ t.stage = "defaults"
    BY DEF Task
  <1>3. t \in Tasks
    BY <1>1 DEF Task, Tasks, Ops, Stages
  <1>4. Start(t)
    BY DEF Reload
  <1> HIDE DEF t
  <1>5. DataOK'
    <2>1. DataOK
      BY Parts
    <2> QED BY <2>1 DEF DataOK, Reload
  <1>6. Waits(t) /\ Stands(t, users', table', cache')
    BY <1>2 DEF Waits, Stands
  <1> QED BY <1>3, <1>4, <1>5, <1>6, Starting

LEMMA UsersWritten ==
  ASSUME UInv, WriteUsers
  PROVE  UInv' /\ Busy \subseteq Busy'
  <1>1. /\ DataOK /\ starts \in 0..MaxStarts /\ tasks \in [Slots -> Tasks \cup {None}]
        /\ Alone /\ \A i \in Busy : Good(tasks[i], users, table, cache)
    BY Parts
  <1>2. DataOK' /\ starts' \in 0..MaxStarts
    BY <1>1, BoundsAssumption DEF DataOK, WriteUsers
  <1>3. /\ tasks' = tasks /\ users' = users /\ table' = table /\ cache' = cache
    BY DEF WriteUsers
  <1>4. Busy' = Busy /\ Alone'
    BY <1>1, <1>3 DEF Busy, Alone
  <1>5. \A i \in Busy' : Good(tasks'[i], users', table', cache')
    BY <1>1, <1>3, <1>4
  <1> QED BY <1>1, <1>2, <1>3, <1>4, <1>5, Assembled

\* A clean task that does not load yet does not depend on the users known, and
\* one that loads is not clean any more when they change.
LEMMA UsersRead ==
  ASSUME UInv, ReloadUsers
  PROVE  UInv' /\ Busy \subseteq Busy'
  <1>1. /\ DataOK /\ starts \in 0..MaxStarts /\ tasks \in [Slots -> Tasks \cup {None}]
        /\ Alone /\ \A i \in Busy : Good(tasks[i], users, table, cache)
    BY Parts
  <1>2. DataOK' /\ starts' \in 0..MaxStarts
    BY <1>1 DEF DataOK, ReloadUsers
  <1>3. /\ users' = file /\ table' = table /\ cache' = cache
        /\ tasks' = [i \in Slots |->
                       IF At(i, "load") /\ users # file THEN Failed(tasks[i]) ELSE tasks[i]]
    BY DEF ReloadUsers
  <1>4. \A i \in Slots : i \in Busy => /\ Failed(tasks[i]) \in Tasks /\ ~Failed(tasks[i]).clean
                                      /\ Waits(Failed(tasks[i]))
    BY <1>1, CleanApart DEF Failed, Good, Busy
  <1>5. /\ tasks' \in [Slots -> Tasks \cup {None}]
        /\ \A i \in Slots : i \in Busy' => i \in Busy
        /\ \A i \in Busy : tasks'[i] = tasks[i] \/ tasks'[i] = Failed(tasks[i])
    <2>1. \A i \in Slots : tasks'[i] = tasks[i] \/ (i \in Busy /\ tasks'[i] = Failed(tasks[i]))
      BY <1>3 DEF At
    <2>2. \A i \in Slots : tasks'[i] \in Tasks \cup {None}
      BY <1>1, <1>4, <2>1
    <2>3. tasks' \in [Slots -> Tasks \cup {None}]
      BY <1>3, <2>2
    <2> QED BY <2>1, <2>3 DEF Busy
  <1>6. \A i \in Busy' : i \in Slots /\ i \in Busy
    BY <1>5 DEF Busy
  <1>7. Alone'
    BY <1>1, <1>4, <1>5, <1>6 DEF Alone
  <1>8. ASSUME NEW i \in Busy' PROVE Good(tasks'[i], users', table', cache')
    <2>1. i \in Slots /\ i \in Busy /\ Good(tasks[i], users, table, cache)
      BY <1>1, <1>6
    <2>2. CASE tasks'[i] = Failed(tasks[i])
      BY <1>4, <2>1, <2>2 DEF Good
    <2>3. CASE tasks'[i] = tasks[i] /\ users' = users
      BY <1>3, <2>1, <2>3
    <2>4. CASE tasks'[i] = tasks[i] /\ tasks[i].stage # "load"
      BY <1>3, <2>1, <2>4 DEF Good, Stands
    <2>5. tasks'[i] = Failed(tasks[i]) \/ (tasks'[i] = tasks[i] /\ (users' = users \/ tasks[i].stage # "load"))
      BY <1>3, <2>1 DEF At
    <2> QED BY <2>2, <2>3, <2>4, <2>5
  <1>9. Busy \subseteq Busy'
    <2>1. \A i \in Busy : i \in Slots /\ tasks'[i] # None
      BY <1>4, <1>5, NoneIsNoTask DEF Busy
    <2> QED BY <2>1 DEF Busy
  <1> QED BY <1>2, <1>5, <1>7, <1>8, <1>9, Assembled

-----------------------------------------------------------------------------
(* The queries and their answers.                                          *)

LEMMA Counted ==
  ASSUME DataOK, NEW ok \in BOOLEAN, Query(ok)
  PROVE  errors' \in 0..MaxErrors
  BY BoundsAssumption DEF DataOK, Query

LEMMA TaskOf ==
  ASSUME UInv, NEW i, NEW stage, At(i, stage)
  PROVE  /\ i \in Busy /\ tasks[i] \in Tasks /\ tasks[i].stage = stage
         /\ Waits(tasks[i]) /\ (tasks[i].clean => Stands(tasks[i], users, table, cache))
  <1>1. i \in Busy /\ tasks[i].stage = stage
    BY DEF At
  <1>2. Good(tasks[i], users, table, cache) /\ tasks[i] \in Tasks
    BY <1>1, Parts DEF Busy
  <1> QED BY <1>1, <1>2 DEF Good

\* A save or a reload whose queries are over loads the settings of the users.
LEMMA Loading ==
  ASSUME DataOK, NEW t \in Tasks, NEW stored, NEW memory,
         t.op = "save" \/ t.op = "config",
         t.op = "save" => /\ t.user \in Users
                          /\ t.clean => \A k \in DOMAIN t.data : stored[t.user][k] = t.data[k],
         t.op = "config" => t.data = Empty
  PROVE  /\ loadAllUsersSettings(t) \in Tasks
         /\ loadAllUsersSettings(t).clean = t.clean
         /\ Good(loadAllUsersSettings(t), users, stored, memory)
  <1> DEFINE q == loadAllUsersSettings(t)
  <1>1. DOMAIN users \subseteq Users /\ DOMAIN users # {}
    BY FilesAre DEF DataOK
  <1>2. /\ Empty \in PartOf(Users, Settings \cup {None})
        /\ Empty \in PartOf(Users, Settings \cup Values \cup {None})
    BY EmptyIsPart
  <1>3. q \in Tasks
    BY <1>1, <1>2 DEF loadAllUsersSettings, Tasks, Stages
  <1>4. q.op = t.op /\ q.user = t.user /\ q.data = t.data /\ q.clean = t.clean
    BY DEF loadAllUsersSettings, Tasks
  <1>5. q.stage = "load" /\ q.todo = DOMAIN users /\ q.rows = Empty
    BY DEF loadAllUsersSettings, Tasks
  <1> HIDE DEF q
  <1>6. Waits(q)
    BY <1>1, <1>2, <1>4, <1>5 DEF Waits
  <1>7. ASSUME q.clean PROVE Stands(q, users, stored, memory)
    <2>1. DOMAIN q.rows = {}
      BY <1>5 DEF Empty
    <2> QED BY <1>4, <1>5, <1>7, <2>1 DEF Stands
  <1> QED BY <1>3, <1>4, <1>6, <1>7 DEF Good, q

LEMMA Upsert ==
  ASSUME UInv, NEW i, saveUserSettings(i)
  PROVE  UInv' /\ Busy \subseteq Busy'
  <1>1. PICK k \in tasks[i].todo, ok \in BOOLEAN :
          LET t == [tasks[i] EXCEPT !.todo = @ \ {k}, !.clean = @ /\ ok]
          IN  /\ Query(ok)
              /\ table' = IF ok THEN [table EXCEPT ![t.user][k] = t.data[k]] ELSE table
              /\ Goes(i, Upserted(t))
    BY DEF saveUserSettings
  <1> DEFINE r == tasks[i]
             t == [r EXCEPT !.todo = @ \ {k}, !.clean = @ /\ ok]
  <1>2. /\ i \in Busy /\ r \in Tasks /\ r.stage = "upserts"
        /\ Waits(r) /\ (r.clean => Stands(r, users, table, cache))
    BY TaskOf DEF saveUserSettings
  <1>3. DataOK /\ users' = users /\ cache' = cache /\ file' = file /\ reading' = reading /\ starts' = starts
    BY Parts DEF saveUserSettings, userVars
  <1>0. k \in r.todo /\ ok \in BOOLEAN
    OBVIOUS
  <1> HIDE DEF r
  <1>4. r.op = "save" /\ r.user \in Users /\ k \in DOMAIN r.data /\ r.todo \subseteq DOMAIN r.data
    <2>1. r.op \in {"save", "default", "config"}
      BY <1>2 DEF Tasks, Ops
    <2>2. r.op = "save"
      BY <1>2, <2>1 DEF Waits
    <2> QED BY <1>0, <1>2, <2>2 DEF Waits
  <1>5. DOMAIN r.data \subseteq Keys /\ \A x \in DOMAIN r.data : r.data[x] \in Values
    <2>1. r.data \in PartOf(Keys, Values)
      BY <1>2 DEF Tasks
    <2> QED BY <2>1, PartIs
  <1>6. t \in Tasks
    BY <1>2 DEF Tasks
  <1>7. t.op = r.op /\ t.user = r.user /\ t.data = r.data /\ t.stage = r.stage
    BY <1>2 DEF Tasks
  <1>8. t.todo = r.todo \ {k} /\ (t.clean => r.clean /\ ok)
    BY <1>2 DEF Tasks
  <1>9. /\ Query(ok) /\ Goes(i, Upserted(t))
        /\ table' = IF ok THEN [table EXCEPT ![t.user][k] = t.data[k]] ELSE table
    BY <1>1 DEF r
  <1> HIDE DEF t
  <1>10. table \in [Users -> [Keys -> Values \cup {None}]]
    BY <1>3 DEF DataOK, Settings
  <1>11. DataOK'
    <2>1. table' \in [Users -> [Keys -> Values \cup {None}]]
      BY <1>4, <1>5, <1>7, <1>9, <1>10
    <2>2. errors' \in 0..MaxErrors
      BY <1>3, <1>9, Counted
    <2> QED BY <1>3, <2>1, <2>2 DEF DataOK, Settings
  <1>12. ASSUME t.clean, NEW x \in DOMAIN t.data, x \notin t.todo PROVE table'[t.user][x] = t.data[x]
    <2>1. table' = [table EXCEPT ![t.user][k] = t.data[k]] /\ k \in Keys /\ x \in Keys
      BY <1>4, <1>5, <1>7, <1>8, <1>9, <1>12
    <2>2. CASE x = k
      BY <1>4, <1>7, <1>10, <2>1, <2>2
    <2>3. CASE x # k
      <3>1. table[r.user][x] = r.data[x]
        BY <1>2, <1>4, <1>7, <1>8, <1>12, <2>3 DEF Stands
      <3> QED BY <1>4, <1>7, <1>10, <2>1, <2>3, <3>1
    <2> QED BY <2>2, <2>3
  <1>13. CASE t.todo = {}
    <2>1. Goes(i, loadAllUsersSettings(t))
      BY <1>9, <1>13 DEF Upserted
    <2>2. t.clean => \A x \in DOMAIN t.data : table'[t.user][x] = t.data[x]
      BY <1>12, <1>13
    <2>3. /\ loadAllUsersSettings(t) \in Tasks
          /\ loadAllUsersSettings(t).clean = t.clean
          /\ Good(loadAllUsersSettings(t), users, table', cache')
      BY <1>3, <1>4, <1>6, <1>7, <2>2, Loading
    <2>4. Good(loadAllUsersSettings(t), users', table', cache')
      BY <1>3, <2>3
    <2> QED BY <1>2, <1>3, <1>8, <1>11, <2>1, <2>3, <2>4, Going DEF r
  <1>14. CASE t.todo # {}
    <2>1. Goes(i, t)
      BY <1>9, <1>14 DEF Upserted
    <2>2. Waits(t)
      BY <1>2, <1>4, <1>7, <1>8 DEF Waits
    <2>3. t.clean => Stands(t, users', table', cache')
      BY <1>2, <1>4, <1>7, <1>12 DEF Stands
    <2>4. Good(t, users', table', cache')
      BY <2>2, <2>3 DEF Good
    <2> QED BY <1>2, <1>3, <1>6, <1>8, <1>11, <2>1, <2>4, Going DEF r
  <1> QED BY <1>13, <1>14

-----------------------------------------------------------------------------
(* The queries of saveUserSetting.                                         *)

SaveStages == {"find", "insert", "update", "saved"}

LEMMA Staged ==
  ASSUME NEW t \in Tasks, NEW stage \in Stages
  PROVE  /\ [t EXCEPT !.stage = stage] \in Tasks
         /\ [t EXCEPT !.stage = stage].stage = stage
         /\ [t EXCEPT !.stage = stage].op = t.op
         /\ [t EXCEPT !.stage = stage].user = t.user
         /\ [t EXCEPT !.stage = stage].data = t.data
         /\ [t EXCEPT !.stage = stage].todo = t.todo
         /\ [t EXCEPT !.stage = stage].rows = t.rows
         /\ [t EXCEPT !.stage = stage].fixes = t.fixes
         /\ [t EXCEPT !.stage = stage].clean = t.clean
  BY DEF Tasks

LEMMA Spoiled ==
  ASSUME NEW t \in Tasks
  PROVE  /\ Failed(t) \in Tasks /\ Failed(t).clean = FALSE
         /\ Failed(t).op = t.op /\ Failed(t).user = t.user /\ Failed(t).data = t.data
         /\ Failed(t).stage = t.stage /\ Failed(t).todo = t.todo /\ Failed(t).rows = t.rows
         /\ Failed(t).fixes = t.fixes
  BY DEF Tasks, Failed

\* Whose default extension is saved, and which.
LEMMA Target ==
  ASSUME NEW t \in Tasks, Waits(t), t.stage \in SaveStages
  PROVE  /\ t.op = "default" \/ t.op = "config"
         /\ UserOf(t) \in Users /\ ExtenOf(t) \in Values
         /\ t.op = "default" => UserOf(t) = t.user /\ ExtenOf(t) = t.data[Default]
         /\ t.op = "config" => t.fixes # Empty /\ Fixed(t) \in DOMAIN t.fixes
  <1>1. t.op = "default" \/ t.op = "config"
    <2>1. t.op \in {"save", "default", "config"}
      BY DEF Tasks, Ops
    <2>2. t.op # "save"
      BY DEF Waits, SaveStages
    <2> QED BY <2>1, <2>2
  <1>2. CASE t.op = "default"
    <2>1. t.user \in Users /\ Default \in DOMAIN t.data
      BY <1>2 DEF Waits
    <2>2. t.data \in PartOf(Keys, Values)
      BY DEF Tasks
    <2>3. t.data[Default] \in Values
      BY <2>1, <2>2, PartIs
    <2>4. UserOf(t) = t.user /\ ExtenOf(t) = t.data[Default]
      BY <1>2 DEF UserOf, ExtenOf, Default
    <2> QED BY <1>2, <2>1, <2>3, <2>4
  <1>3. CASE t.op = "config"
    <2>1. t.fixes # Empty
      BY <1>3 DEF Waits, SaveStages
    <2>2. t.fixes \in PartOf(Users, Values)
      BY DEF Tasks
    <2>3. DOMAIN t.fixes # {}
      <3>1. \A f \in PartOf(Users, Values) : f # Empty => DOMAIN f # {}
        BY EmptyIs
      <3> QED BY <2>1, <2>2, <3>1
    <2>4. Fixed(t) \in DOMAIN t.fixes
      BY <2>3 DEF Fixed
    <2>5. Fixed(t) \in Users /\ t.fixes[Fixed(t)] \in Values
      BY <2>2, <2>4, PartIs
    <2>6. UserOf(t) = Fixed(t) /\ ExtenOf(t) = t.fixes[Fixed(t)]
      BY <1>3 DEF UserOf, ExtenOf
    <2> QED BY <1>3, <2>1, <2>4, <2>5, <2>6
  <1> QED BY <1>1, <1>2, <1>3

\* A save that is refused is not clean, whatever it goes on with.
LEMMA Refusing ==
  ASSUME DataOK, NEW t \in Tasks, Waits(t), t.stage \in SaveStages, NEW stored, NEW memory
  PROVE  /\ Refused(t) \in Tasks /\ Refused(t).clean = FALSE
         /\ Good(Refused(t), users, stored, memory)
  <1>1. t.op = "default" \/ t.op = "config"
    BY Target
  <1>2. CASE t.op = "default"
    <2> DEFINE x == Failed(t)
               q == [x EXCEPT !.stage = "refused"]
    <2>1. /\ "refused" \in Stages
          /\ x \in Tasks /\ x.op = t.op /\ x.user = t.user /\ x.data = t.data /\ x.clean = FALSE
      BY Spoiled DEF Stages
    <2>2. /\ q \in Tasks /\ q.stage = "refused" /\ q.op = t.op /\ q.user = t.user
          /\ q.data = t.data /\ q.clean = FALSE
      <3> HIDE DEF x
      <3> QED BY <2>1, Staged
    <2>3. Refused(t) = q
      BY <1>2 DEF Refused
    <2> HIDE DEF q
    <2>4. Waits(q)
      BY <1>2, <2>2 DEF Waits
    <2> QED BY <2>2, <2>3, <2>4 DEF Good
  <1>3. CASE t.op = "config"
    <2>1. Refused(t) = loadAllUsersSettings(Failed(t))
      BY <1>3 DEF Refused
    <2>2. Failed(t) \in Tasks /\ Failed(t).op = "config" /\ Failed(t).data = Empty /\ Failed(t).clean = FALSE
      BY <1>3, Spoiled DEF Waits
    <2>3. /\ loadAllUsersSettings(Failed(t)) \in Tasks
          /\ loadAllUsersSettings(Failed(t)).clean = FALSE
          /\ Good(loadAllUsersSettings(Failed(t)), users, stored, memory)
      BY <2>2, Loading
    <2> QED BY <2>1, <2>3
  <1> QED BY <1>1, <1>2, <1>3

LEMMA Found ==
  ASSUME UInv, NEW i, Find(i)
  PROVE  UInv' /\ Busy \subseteq Busy'
  <1> DEFINE t == tasks[i]
             row == table[UserOf(t)]["default_extension"]
             stage == IF row = None THEN "insert" ELSE "update"
             q == [t EXCEPT !.stage = stage]
  <1>1. /\ i \in Busy /\ t \in Tasks /\ t.stage = "find"
        /\ Waits(t) /\ (t.clean => Stands(t, users, table, cache))
    BY TaskOf DEF Find
  <1>2. /\ DataOK /\ users' = users /\ cache' = cache /\ file' = file /\ reading' = reading
        /\ table' = table /\ starts' = starts
    BY Parts DEF Find, userVars
  <1>3. \/ Query(TRUE) /\ Goes(i, q)
        \/ Query(FALSE) /\ Goes(i, Refused(t))
    BY DEF Find
  <1>4. t.stage \in SaveStages
    BY <1>1 DEF SaveStages
  <1>5. DataOK'
    <2>1. errors' \in 0..MaxErrors
      BY <1>2, <1>3, Counted
    <2> QED BY <1>2, <2>1 DEF DataOK
  <1>6. CASE Goes(i, q)
    <2>1. stage \in Stages /\ (stage = "insert" \/ stage = "update")
      BY DEF Stages
    <2>2. stage = "update" => row # None
      OBVIOUS
    <2> HIDE DEF stage
    <2>3. /\ q \in Tasks /\ q.stage = stage /\ q.op = t.op /\ q.user = t.user /\ q.data = t.data
          /\ q.fixes = t.fixes /\ q.clean = t.clean
      BY <1>1, <2>1, Staged
    <2>4. t.op = "default" => UserOf(t) = t.user
      BY <1>1, <1>4, Target
    <2>5. t.op = "default" \/ t.op = "config"
      BY <1>1, <1>4, Target
    <2>6. Goes(i, q)
      BY <1>6
    <2> HIDE DEF q
    <2>7. Waits(q)
      BY <1>1, <2>1, <2>3, <2>5 DEF Waits
    <2>8. q.clean => Stands(q, users', table', cache')
      BY <1>2, <2>1, <2>2, <2>3, <2>4, <2>5 DEF Stands, Default
    <2> QED BY <1>1, <1>2, <1>5, <2>3, <2>6, <2>7, <2>8, Going DEF Good
  <1>7. CASE Goes(i, Refused(t))
    <2>1. /\ Refused(t) \in Tasks /\ Refused(t).clean = FALSE
          /\ Good(Refused(t), users', table', cache')
      BY <1>1, <1>2, <1>4, Refusing
    <2> QED BY <1>1, <1>2, <1>5, <1>7, <2>1, Going
  <1> QED BY <1>3, <1>6, <1>7

\* The table with the default extension a task saves.
LEMMA StoredIs ==
  ASSUME DataOK, NEW t \in Tasks, Waits(t), t.stage \in SaveStages
  PROVE  /\ Stored(t) \in [Users -> Settings]
         /\ Stored(t)[UserOf(t)][Default] = ExtenOf(t)
  <1>1. UserOf(t) \in Users /\ ExtenOf(t) \in Values
    BY Target
  <1>2. table \in [Users -> [Keys -> Values \cup {None}]] /\ Default \in Keys
    BY DEF DataOK, Settings, Keys, Default
  <1>3. Stored(t) = [table EXCEPT ![UserOf(t)][Default] = ExtenOf(t)]
    BY DEF Stored, Default
  <1> HIDE DEF Default
  <1>4. Stored(t) \in [Users -> [Keys -> Values \cup {None}]]
    BY <1>1, <1>2, <1>3
  <1>5. Stored(t)[UserOf(t)][Default] = ExtenOf(t)
    BY <1>1, <1>2, <1>3
  <1> QED BY <1>4, <1>5 DEF Settings

\* The default extension that was saved, by an insert or an update.
LEMMA WasSaved ==
  ASSUME NEW t \in Tasks, Waits(t), t.stage \in SaveStages, NEW known, NEW stored, NEW memory,
         t.op = "default" => stored[UserOf(t)][Default] = ExtenOf(t)
  PROVE  /\ [t EXCEPT !.stage = "saved"] \in Tasks
         /\ [t EXCEPT !.stage = "saved"].clean = t.clean
         /\ Good([t EXCEPT !.stage = "saved"], known, stored, memory)
  <1> DEFINE q == [t EXCEPT !.stage = "saved"]
  <1>1. "saved" \in Stages
    BY DEF Stages
  <1>2. /\ q \in Tasks /\ q.stage = "saved" /\ q.op = t.op /\ q.user = t.user
        /\ q.data = t.data /\ q.fixes = t.fixes /\ q.clean = t.clean
    BY <1>1, Staged
  <1>3. /\ t.op = "default" \/ t.op = "config"
        /\ t.op = "default" => UserOf(t) = t.user /\ ExtenOf(t) = t.data[Default]
    BY Target
  <1> HIDE DEF q
  <1>4. Waits(q)
    BY <1>2, <1>3 DEF Waits, SaveStages
  <1>5. Stands(q, known, stored, memory)
    BY <1>2, <1>3 DEF Stands
  <1> QED BY <1>2, <1>4, <1>5 DEF Good, q

LEMMA Inserted ==
  ASSUME UInv, NEW i, Insert(i)
  PROVE  UInv' /\ Busy \subseteq Busy'
  <1> DEFINE t == tasks[i]
             free == table[UserOf(t)]["default_extension"] = None
             q == [t EXCEPT !.stage = "saved"]
  <1>1. /\ i \in Busy /\ t \in Tasks /\ t.stage = "insert" /\ Waits(t)
    BY TaskOf DEF Insert
  <1>2. /\ DataOK /\ users' = users /\ cache' = cache /\ file' = file /\ reading' = reading
        /\ starts' = starts
    BY Parts DEF Insert, userVars
  <1>3. \/ Query(TRUE) /\ table' = Stored(t) /\ Goes(i, q)
        \/ (Query(TRUE) \/ Query(FALSE)) /\ table' = table /\ Goes(i, Refused(t))
    BY DEF Insert
  <1>4. t.stage \in SaveStages
    BY <1>1 DEF SaveStages
  <1>5. errors' \in 0..MaxErrors
    BY <1>2, <1>3, Counted
  <1>6. CASE table' = Stored(t) /\ Goes(i, q)
    <2>1. table' \in [Users -> Settings] /\ table'[UserOf(t)][Default] = ExtenOf(t)
      BY <1>1, <1>2, <1>4, <1>6, StoredIs
    <2>2. DataOK'
      BY <1>2, <1>5, <2>1 DEF DataOK
    <2>3. q \in Tasks /\ q.clean = t.clean /\ Good(q, users', table', cache')
      BY <1>1, <1>4, <2>1, WasSaved
    <2> QED BY <1>1, <1>2, <1>6, <2>2, <2>3, Going
  <1>7. CASE table' = table /\ Goes(i, Refused(t))
    <2>1. DataOK'
      BY <1>2, <1>5, <1>7 DEF DataOK
    <2>2. /\ Refused(t) \in Tasks /\ Refused(t).clean = FALSE
          /\ Good(Refused(t), users', table', cache')
      BY <1>1, <1>2, <1>4, Refusing
    <2> QED BY <1>1, <1>2, <1>7, <2>1, <2>2, Going
  <1> QED BY <1>3, <1>6, <1>7

LEMMA Updated ==
  ASSUME UInv, NEW i, Update(i)
  PROVE  UInv' /\ Busy \subseteq Busy'
  <1> DEFINE t == tasks[i]
             q == [t EXCEPT !.stage = "saved"]
             h == [Failed(t) EXCEPT !.stage = "hung"]
  <1>1. /\ i \in Busy /\ t \in Tasks /\ t.stage = "update" /\ Waits(t)
        /\ (t.clean => Stands(t, users, table, cache))
    BY TaskOf DEF Update
  <1>2. /\ DataOK /\ users' = users /\ cache' = cache /\ file' = file /\ reading' = reading
        /\ starts' = starts
    BY Parts DEF Update, userVars
  <1>3. \/ /\ Query(TRUE) /\ Goes(i, q)
           /\ table' = IF table[UserOf(t)]["default_extension"] = None THEN table ELSE Stored(t)
        \/ Query(FALSE) /\ table' = table /\ Goes(i, h)
    BY DEF Update
  <1>4. t.stage \in SaveStages
    BY <1>1 DEF SaveStages
  <1>5. errors' \in 0..MaxErrors
    BY <1>2, <1>3, Counted
  <1>6. ASSUME Goes(i, q), table' = table \/ table' = Stored(t),
               table[UserOf(t)][Default] # None => table' = Stored(t)
        PROVE  UInv' /\ Busy \subseteq Busy'
    <2>1. Stored(t) \in [Users -> Settings] /\ Stored(t)[UserOf(t)][Default] = ExtenOf(t)
      BY <1>1, <1>2, <1>4, StoredIs
    <2>2. DataOK'
      BY <1>2, <1>5, <1>6, <2>1 DEF DataOK
    <2>3. t.op = "default" => UserOf(t) = t.user
      BY <1>1, <1>4, Target
    <2>4. t.op = "default" /\ t.clean => table'[UserOf(t)][Default] = ExtenOf(t)
      BY <1>1, <1>6, <2>1, <2>3 DEF Stands
    <2>5. q \in Tasks /\ q.clean = t.clean /\ Waits(q)
      <3>1. "saved" \in Stages
        BY DEF Stages
      <3>2. /\ q \in Tasks /\ q.stage = "saved" /\ q.op = t.op /\ q.user = t.user
            /\ q.data = t.data /\ q.fixes = t.fixes /\ q.clean = t.clean
        BY <1>1, <3>1, Staged
      <3>3. t.op = "default" \/ t.op = "config"
        BY <1>1, <1>4, Target
      <3> HIDE DEF q
      <3>4. Waits(q)
        BY <1>1, <1>4, <3>2, <3>3 DEF Waits, SaveStages
      <3> QED BY <3>2, <3>4
    <2>6. t.clean => Good(q, users', table', cache')
      BY <1>1, <1>4, <2>4, WasSaved
    <2>7. Good(q, users', table', cache')
      BY <2>5, <2>6 DEF Good
    <2> QED BY <1>1, <1>2, <1>6, <2>2, <2>5, <2>7, Going
  <1>7. CASE table' = table /\ Goes(i, h)
    <2>1. DataOK'
      BY <1>2, <1>5, <1>7 DEF DataOK
    <2>2. h \in Tasks /\ h.stage = "hung" /\ h.op = t.op /\ h.user = t.user /\ h.data = t.data
          /\ h.clean = FALSE
      <3> DEFINE x == Failed(t)
      <3>1. /\ "hung" \in Stages
            /\ x \in Tasks /\ x.op = t.op /\ x.user = t.user /\ x.data = t.data /\ x.clean = FALSE
        BY <1>1, Spoiled DEF Stages
      <3> HIDE DEF x
      <3>2. /\ [x EXCEPT !.stage = "hung"] \in Tasks /\ [x EXCEPT !.stage = "hung"].stage = "hung"
            /\ [x EXCEPT !.stage = "hung"].op = t.op /\ [x EXCEPT !.stage = "hung"].user = t.user
            /\ [x EXCEPT !.stage = "hung"].data = t.data /\ [x EXCEPT !.stage = "hung"].clean = FALSE
        BY <3>1, Staged
      <3> QED BY <3>2 DEF x
    <2>3. t.op = "default" \/ t.op = "config"
      BY <1>1, <1>4, Target
    <2> HIDE DEF h
    <2>4. Waits(h)
      BY <1>1, <2>2, <2>3 DEF Waits
    <2>5. Good(h, users', table', cache')
      BY <2>2, <2>4 DEF Good
    <2> QED BY <1>1, <1>2, <1>7, <2>1, <2>2, <2>5, Going
  <1>8. \/ /\ Goes(i, q) /\ (table' = table \/ table' = Stored(t))
           /\ table[UserOf(t)][Default] # None => table' = Stored(t)
        \/ table' = table /\ Goes(i, h)
    BY <1>3 DEF Default
  <1> QED BY <1>6, <1>7, <1>8

\* The fixes of a reload, one after the other, then the load.
LEMMA Fixing ==
  ASSUME DataOK, NEW t \in Tasks, t.op = "config", t.data = Empty,
         NEW f \in PartOf(Users, Values), NEW stored, NEW memory
  PROVE  /\ Fixes(t, f) \in Tasks /\ Fixes(t, f).clean = t.clean
         /\ Good(Fixes(t, f), users, stored, memory)
  <1>1. CASE f = Empty
    <2>1. Fixes(t, f) = loadAllUsersSettings(t)
      BY <1>1 DEF Fixes
    <2>2. /\ loadAllUsersSettings(t) \in Tasks
          /\ loadAllUsersSettings(t).clean = t.clean
          /\ Good(loadAllUsersSettings(t), users, stored, memory)
      BY Loading
    <2> QED BY <2>1, <2>2
  <1>2. CASE f # Empty
    <2> DEFINE q == [t EXCEPT !.stage = "find", !.rows = Empty, !.fixes = f]
    <2>1. Fixes(t, f) = q
      BY <1>2 DEF Fixes
    <2>2. Empty \in PartOf(Users, Settings \cup Values \cup {None})
      BY EmptyIsPart
    <2>3. q \in Tasks
      BY <2>2 DEF Tasks, Stages
    <2>4. q.op = t.op /\ q.data = t.data /\ q.clean = t.clean
      BY DEF Tasks
    <2>5. q.stage = "find" /\ q.fixes = f
      BY DEF Tasks
    <2> HIDE DEF q
    <2>6. Waits(q)
      BY <1>2, <2>4, <2>5 DEF Waits
    <2>7. Stands(q, users, stored, memory)
      BY <2>4, <2>5 DEF Stands
    <2> QED BY <2>1, <2>3, <2>4, <2>6, <2>7 DEF Good
  <1> QED BY <1>1, <1>2

LEMMA SavedIsAnswered ==
  ASSUME UInv, NEW i, Saved(i)
  PROVE  /\ UInv'
         /\ \/ Busy \subseteq Busy'
            \/ /\ Busy \ {i} \subseteq Busy' /\ tasks[i].op = "default"
               /\ cache' = InMemory(tasks[i].user, ExtenOf(tasks[i])) /\ table' = table
  <1> DEFINE t == tasks[i]
             rest == [u \in DOMAIN t.fixes \ {Fixed(t)} |-> t.fixes[u]]
  <1>1. /\ i \in Busy /\ t \in Tasks /\ t.stage = "saved" /\ Waits(t)
    BY TaskOf DEF Saved
  <1>2. /\ DataOK /\ users' = users /\ table' = table /\ file' = file /\ reading' = reading
        /\ starts' = starts /\ errors' = errors
    BY Parts DEF Saved, userVars
  <1>3. t.op = "default" \/ t.op = "config"
    BY <1>1, Target DEF SaveStages
  <1>4. CASE t.op = "default"
    <2>1. cache' = InMemory(t.user, ExtenOf(t)) /\ Ends(i)
      BY <1>4 DEF Saved
    <2>2. t.user \in Users /\ ExtenOf(t) \in Values
      BY <1>1, <1>4, Target DEF SaveStages
    <2>3. cache \in [Users -> Settings \cup {None}]
      BY <1>2 DEF DataOK
    <2>4. cache' \in [Users -> Settings \cup {None}]
      <3>1. CASE cache[t.user] = None
        BY <2>1, <2>3, <3>1 DEF InMemory
      <3>2. CASE cache[t.user] # None
        <4>1. cache[t.user] \in [Keys -> Values \cup {None}]
          BY <2>2, <2>3, <3>2 DEF Settings
        <4>2. [cache[t.user] EXCEPT !["default_extension"] = ExtenOf(t)] \in [Keys -> Values \cup {None}]
          BY <2>2, <4>1
        <4>3. cache' = [cache EXCEPT ![t.user] = [cache[t.user] EXCEPT !["default_extension"] = ExtenOf(t)]]
          BY <2>1, <3>2 DEF InMemory
        <4> QED BY <2>2, <2>3, <4>2, <4>3 DEF Settings
      <3> QED BY <3>1, <3>2
    <2>5. DataOK'
      BY <1>2, <2>4 DEF DataOK
    <2> QED BY <1>1, <1>2, <1>4, <2>1, <2>5, Ending
  <1>5. CASE t.op = "config"
    <2>1. cache' = cache /\ Goes(i, Fixes(t, rest))
      BY <1>5 DEF Saved
    <2>2. rest \in PartOf(Users, Values)
      <3>1. t.fixes \in PartOf(Users, Values)
        BY <1>1 DEF Tasks
      <3>2. DOMAIN t.fixes \subseteq Users /\ \A u \in DOMAIN t.fixes : t.fixes[u] \in Values
        BY <3>1, PartIs
      <3>3. rest \in [DOMAIN rest -> Values] /\ DOMAIN rest \subseteq Users
        BY <3>2
      <3> QED BY <3>3, PartIs
    <2> HIDE DEF rest
    <2>3. t.data = Empty
      BY <1>1, <1>5 DEF Waits
    <2>4. DataOK'
      BY <1>2, <2>1 DEF DataOK
    <2>5. /\ Fixes(t, rest) \in Tasks /\ Fixes(t, rest).clean = t.clean
          /\ Good(Fixes(t, rest), users', table', cache')
      BY <1>1, <1>2, <1>5, <2>2, <2>3, Fixing
    <2> QED BY <1>1, <1>2, <2>1, <2>4, <2>5, Going
  <1> QED BY <1>3, <1>4, <1>5

LEMMA RefusalIsAnswered ==
  ASSUME UInv, NEW i, SaveRefused(i)
  PROVE  UInv' /\ Busy \ {i} \subseteq Busy'
  <1>1. i \in Busy /\ Ends(i) /\ starts' = starts
    BY DEF SaveRefused, At
  <1>2. DataOK'
    BY Parts DEF DataOK, SaveRefused, userVars
  <1> QED BY <1>1, <1>2, Ending

-----------------------------------------------------------------------------
(* The queries of the reload and of the load.                              *)

LEMMA DefaultsRead ==
  ASSUME UInv, NEW i, getAllUsersDefaultExtension(i)
  PROVE  UInv' /\ Busy \subseteq Busy'
  <1> DEFINE t == tasks[i]
             found == {u \in Users : table[u]["default_extension"] # None}
             rows == [u \in found |-> table[u]["default_extension"]]
             q == [t EXCEPT !.stage = "check", !.rows = rows]
             l == loadAllUsersSettings(Failed(t))
  <1>1. /\ i \in Busy /\ t \in Tasks /\ t.stage = "defaults" /\ Waits(t)
    BY TaskOf DEF getAllUsersDefaultExtension
  <1>2. /\ DataOK /\ users' = users /\ table' = table /\ cache' = cache /\ file' = file
        /\ reading' = reading /\ starts' = starts
    BY Parts DEF getAllUsersDefaultExtension, userVars
  <1>3. (Query(TRUE) /\ Goes(i, q)) \/ (Query(FALSE) /\ Goes(i, l))
    BY DEF getAllUsersDefaultExtension
  <1>4. t.op = "config" /\ t.data = Empty
    <2>1. t.op \in {"save", "default", "config"}
      BY <1>1 DEF Tasks, Ops
    <2> QED BY <1>1, <2>1 DEF Waits
  <1>5. DataOK'
    <2>1. errors' \in 0..MaxErrors
      BY <1>2, <1>3, Counted
    <2> QED BY <1>2, <2>1 DEF DataOK
  <1>6. CASE Goes(i, q)
    <2>1. rows \in PartOf(Users, Values)
      <3>1. table \in [Users -> [Keys -> Values \cup {None}]] /\ "default_extension" \in Keys
        BY <1>2 DEF DataOK, Settings, Keys
      <3>2. \A u \in found : u \in Users /\ table[u]["default_extension"] \in Values
        BY <3>1
      <3>3. DOMAIN rows = found /\ rows \in [found -> Values] /\ found \subseteq Users
        BY <3>2
      <3> HIDE DEF rows
      <3> QED BY <3>3, PartIs
    <2>2. rows \in PartOf(Users, Settings \cup Values \cup {None})
      <3>1. rows \in [DOMAIN rows -> Values] /\ DOMAIN rows \subseteq Users
        BY <2>1, PartIs
      <3> HIDE DEF rows
      <3>2. rows \in [DOMAIN rows -> Settings \cup Values \cup {None}]
        BY <3>1
      <3> QED BY <3>1, <3>2, PartIs
    <2> HIDE DEF rows
    <2>3. q \in Tasks
      BY <1>1, <2>2 DEF Tasks, Stages
    <2>4. q.op = t.op /\ q.data = t.data /\ q.clean = t.clean
      BY <1>1 DEF Tasks
    <2>5. q.stage = "check" /\ q.rows = rows
      BY <1>1 DEF Tasks
    <2>6. Goes(i, q)
      BY <1>6
    <2> HIDE DEF q
    <2>7. Waits(q) /\ Stands(q, users', table', cache')
      BY <1>4, <2>1, <2>4, <2>5 DEF Waits, Stands
    <2> QED BY <1>1, <1>2, <1>5, <2>3, <2>4, <2>6, <2>7, Going DEF Good
  <1>7. CASE Goes(i, l)
    <2>1. Failed(t) \in Tasks /\ Failed(t).op = "config" /\ Failed(t).data = Empty /\ Failed(t).clean = FALSE
      BY <1>1, <1>4, Spoiled
    <2>2. l \in Tasks /\ l.clean = FALSE /\ Good(l, users, table', cache')
      BY <1>2, <2>1, Loading
    <2>3. Good(l, users', table', cache')
      BY <1>2, <2>2
    <2>4. Goes(i, l)
      BY <1>7
    <2> HIDE DEF l
    <2> QED BY <1>1, <1>2, <1>5, <2>2, <2>3, <2>4, Going
  <1> QED BY <1>3, <1>6, <1>7

LEMMA DefaultsChecked ==
  ASSUME UInv, NEW i, checkDefaults(i)
  PROVE  UInv' /\ Busy \subseteq Busy'
  <1> DEFINE t == tasks[i]
             wrong == WrongDefaults(t.rows)
             own(u) == IF u \in DOMAIN users THEN CHOOSE e \in users[u] : TRUE ELSE NoExten
             fixes == [u \in wrong |-> own(u)]
  <1>1. /\ i \in Busy /\ t \in Tasks /\ t.stage = "check" /\ Waits(t)
    BY TaskOf DEF checkDefaults
  <1>2. /\ DataOK /\ users' = users /\ table' = table /\ cache' = cache /\ file' = file
        /\ reading' = reading /\ starts' = starts /\ errors' = errors
    BY Parts DEF checkDefaults, userVars
  <1>3. Goes(i, Fixes(t, fixes))
    BY DEF checkDefaults
  <1>4. t.op = "config" /\ t.data = Empty
    <2>1. t.op \in {"save", "default", "config"}
      BY <1>1 DEF Tasks, Ops
    <2> QED BY <1>1, <2>1 DEF Waits
  <1>5. fixes \in PartOf(Users, Values)
    <2>1. wrong \subseteq Users
      <3>1. t.rows \in PartOf(Users, Values)
        BY <1>1 DEF Waits
      <3>2. DOMAIN t.rows \subseteq Users
        BY <3>1, PartIs
      <3> QED BY <3>2 DEF WrongDefaults
    <2>2. \A u \in wrong : own(u) \in Values
      <3>1. \A u \in DOMAIN users : users[u] \subseteq Extens /\ users[u] # {}
        BY <1>2, FilesAre DEF DataOK
      <3>2. \A u \in DOMAIN users : (CHOOSE e \in users[u] : TRUE) \in Extens
        BY <3>1
      <3> QED BY <3>2 DEF Values
    <2> HIDE DEF wrong, own
    <2>3. DOMAIN fixes = wrong /\ fixes \in [wrong -> Values]
      BY <2>2
    <2> HIDE DEF fixes
    <2> QED BY <2>1, <2>3, PartIs
  <1> HIDE DEF fixes
  <1>6. DataOK'
    BY <1>2 DEF DataOK
  <1>7. /\ Fixes(t, fixes) \in Tasks /\ Fixes(t, fixes).clean = t.clean
        /\ Good(Fixes(t, fixes), users', table', cache')
    BY <1>1, <1>2, <1>4, <1>5, Fixing
  <1> QED BY <1>1, <1>2, <1>3, <1>6, <1>7, Going

LEMMA WithIs ==
  ASSUME NEW X, NEW Y, NEW f \in PartOf(X, Y), NEW x \in X, NEW y \in Y
  PROVE  /\ With(f, x, y) \in PartOf(X, Y)
         /\ DOMAIN With(f, x, y) = DOMAIN f \cup {x} /\ With(f, x, y)[x] = y
         /\ \A v \in DOMAIN f : v # x => With(f, x, y)[v] = f[v]
  <1>1. DOMAIN f \subseteq X /\ \A v \in DOMAIN f : f[v] \in Y
    BY PartIs
  <1>2. /\ DOMAIN With(f, x, y) = DOMAIN f \cup {x} /\ With(f, x, y)[x] = y
        /\ \A v \in DOMAIN f : v # x => With(f, x, y)[v] = f[v]
    BY DEF With
  <1>3. With(f, x, y) \in [DOMAIN With(f, x, y) -> Y]
    BY <1>1 DEF With
  <1>4. DOMAIN With(f, x, y) \subseteq X
    BY <1>1, <1>2
  <1> QED BY <1>2, <1>3, <1>4, PartIs

LEMMA RowsRead ==
  ASSUME UInv, NEW i, Select(i)
  PROVE  UInv' /\ Busy \subseteq Busy'
  <1>1. PICK u \in tasks[i].todo, ok \in BOOLEAN :
          /\ Query(ok)
          /\ Goes(i, [tasks[i] EXCEPT !.todo = @ \ {u}, !.clean = @ /\ ok,
                        !.rows = With(@, u, IF ok THEN table[u] ELSE None)])
    BY DEF Select
  <1> DEFINE t == tasks[i]
             row == IF ok THEN table[u] ELSE None
             rows == With(t.rows, u, row)
             q == [t EXCEPT !.todo = @ \ {u}, !.clean = @ /\ ok, !.rows = rows]
  <1>2. /\ i \in Busy /\ t \in Tasks /\ t.stage = "load" /\ Waits(t)
        /\ (t.clean => Stands(t, users, table, cache))
    BY TaskOf DEF Select
  <1>3. /\ DataOK /\ users' = users /\ table' = table /\ cache' = cache /\ file' = file
        /\ reading' = reading /\ starts' = starts
    BY Parts DEF Select, userVars
  <1>4. Query(ok) /\ Goes(i, q) /\ u \in t.todo /\ ok \in BOOLEAN
    BY <1>1
  <1>5. /\ u \in Users /\ t.todo \subseteq Users /\ t.rows \in PartOf(Users, Settings \cup {None})
        /\ t.rows \in PartOf(Users, Settings \cup Values \cup {None})
    BY <1>2, <1>4 DEF Waits, Tasks
  <1>6. row \in Settings \cup {None} /\ (ok => row = table[u])
    BY <1>3, <1>5 DEF DataOK
  <1> HIDE DEF row
  <1>7. /\ rows \in PartOf(Users, Settings \cup {None})
        /\ rows \in PartOf(Users, Settings \cup Values \cup {None})
        /\ DOMAIN rows = DOMAIN t.rows \cup {u} /\ rows[u] = row
        /\ \A v \in DOMAIN t.rows : v # u => rows[v] = t.rows[v]
    <2>1. row \in Settings \cup Values \cup {None}
      BY <1>6
    <2>2. rows \in PartOf(Users, Settings \cup Values \cup {None})
      BY <1>5, <2>1, WithIs
    <2>3. rows \in PartOf(Users, Settings \cup {None})
      BY <1>5, <1>6, WithIs
    <2>4. /\ DOMAIN rows = DOMAIN t.rows \cup {u} /\ rows[u] = row
          /\ \A v \in DOMAIN t.rows : v # u => rows[v] = t.rows[v]
      BY DEF With
    <2> QED BY <2>2, <2>3, <2>4
  <1> HIDE DEF rows
  <1>8. q \in Tasks
    BY <1>2, <1>4, <1>7 DEF Tasks
  <1>9. q.op = t.op /\ q.user = t.user /\ q.data = t.data /\ q.stage = t.stage
    BY <1>2 DEF Tasks
  <1>10. q.todo = t.todo \ {u} /\ (q.clean => t.clean /\ ok) /\ q.rows = rows
    BY <1>2 DEF Tasks
  <1>11. rows # Empty
    <2>1. DOMAIN rows # {}
      BY <1>7
    <2> QED BY <2>1 DEF Empty
  <1>12. DataOK'
    <2>1. errors' \in 0..MaxErrors
      BY <1>3, <1>4, Counted
    <2> QED BY <1>3, <2>1 DEF DataOK
  <1> HIDE DEF q, t
  <1>13. Waits(q)
    BY <1>2, <1>5, <1>7, <1>9, <1>10, <1>11 DEF Waits
  <1>14. ASSUME q.clean PROVE Stands(q, users', table', cache')
    <2>1. t.clean /\ ok /\ Stands(t, users, table, cache) /\ row = table[u]
      BY <1>2, <1>6, <1>10, <1>14
    <2>2. t.op # "default"
      BY <1>2 DEF Waits
    <2>3. \A v \in DOMAIN users : v \in q.todo \cup DOMAIN q.rows \/ cache[v] = table[v]
      BY <1>2, <1>7, <1>10, <2>1 DEF Stands
    <2>4. \A v \in DOMAIN q.rows : q.rows[v] = table[v]
      BY <1>2, <1>7, <1>10, <2>1 DEF Stands
    <2>5. q.op = "save" => \A k \in DOMAIN q.data : table[q.user][k] = q.data[k]
      BY <1>2, <1>9, <2>1 DEF Stands
    <2> QED BY <1>3, <1>9, <2>2, <2>3, <2>4, <2>5 DEF Stands
  <1>15. i \in Busy /\ (q.clean => tasks[i].clean)
    BY <1>2, <1>10 DEF t
  <1> QED BY <1>3, <1>4, <1>8, <1>12, <1>13, <1>14, <1>15, Going DEF Good

\* The settings in memory when the rows of a user are answered.
LEMMA AnswerIs ==
  ASSUME UInv, NEW i, At(i, "load"), NEW u \in DOMAIN tasks[i].rows,
         cache' = IF tasks[i].rows[u] = None THEN cache
                  ELSE [cache EXCEPT ![u] = tasks[i].rows[u]]
  PROVE  /\ u \in Users /\ cache' \in [Users -> Settings \cup {None}]
         /\ \A v \in Users : v # u => cache'[v] = cache[v]
         /\ tasks[i].clean => cache'[u] = table[u]
  <1> DEFINE t == tasks[i]
  <1>1. /\ t \in Tasks /\ t.stage = "load" /\ Waits(t)
        /\ (t.clean => Stands(t, users, table, cache))
    BY TaskOf
  <1>2. DataOK
    BY Parts
  <1>3. u \in DOMAIN t.rows
    OBVIOUS
  <1>4. cache' = IF t.rows[u] = None THEN cache ELSE [cache EXCEPT ![u] = t.rows[u]]
    OBVIOUS
  <1> HIDE DEF t
  <1>5. t.rows \in PartOf(Users, Settings \cup {None})
    BY <1>1 DEF Waits
  <1>6. u \in Users /\ t.rows[u] \in Settings \cup {None}
    BY <1>3, <1>5, PartIs
  <1>7. cache \in [Users -> Settings \cup {None}] /\ table \in [Users -> Settings]
    BY <1>2 DEF DataOK
  <1>8. cache' \in [Users -> Settings \cup {None}] /\ \A v \in Users : v # u => cache'[v] = cache[v]
    BY <1>4, <1>6, <1>7
  <1>9. ASSUME t.clean PROVE cache'[u] = table[u]
    <2>1. t.rows[u] = table[u]
      BY <1>1, <1>3, <1>9 DEF Stands
    <2>2. table[u] # None
      BY <1>6, <1>7, NoneIsNoTask
    <2> QED BY <1>4, <1>6, <1>7, <2>1, <2>2
  <1> QED BY <1>6, <1>8, <1>9 DEF t

LEMMA RowsAnswered ==
  ASSUME UInv, NEW i, getUserSettings(i)
  PROVE  /\ UInv' /\ table' = table /\ users' = users
         /\ \/ Busy \subseteq Busy'
            \/ /\ Busy \ {i} \subseteq Busy'
               /\ tasks[i].clean => \A v \in DOMAIN users : cache'[v] = table[v]
  <1>0. At(i, "load")
    BY DEF getUserSettings
  <1>1. PICK u \in DOMAIN tasks[i].rows :
          LET t == tasks[i]
              rest == [v \in DOMAIN t.rows \ {u} |-> t.rows[v]]
          IN  /\ cache' = IF t.rows[u] = None THEN cache ELSE [cache EXCEPT ![u] = t.rows[u]]
              /\ IF rest = Empty /\ t.todo = {} THEN Ends(i) ELSE Goes(i, [t EXCEPT !.rows = rest])
    BY DEF getUserSettings
  <1> DEFINE t == tasks[i]
             rest == [v \in DOMAIN t.rows \ {u} |-> t.rows[v]]
             q == [t EXCEPT !.rows = rest]
  <1>2. /\ i \in Busy /\ t \in Tasks /\ t.stage = "load" /\ Waits(t)
        /\ (t.clean => Stands(t, users, table, cache))
    BY <1>0, TaskOf
  <1>3. /\ DataOK /\ users' = users /\ table' = table /\ file' = file /\ reading' = reading
        /\ starts' = starts /\ errors' = errors
    BY Parts DEF getUserSettings, userVars
  <1>4. /\ u \in Users /\ cache' \in [Users -> Settings \cup {None}]
        /\ \A v \in Users : v # u => cache'[v] = cache[v]
        /\ t.clean => cache'[u] = table[u]
    BY <1>0, <1>1, AnswerIs
  <1>5. DataOK'
    BY <1>3, <1>4 DEF DataOK
  <1>6. IF rest = Empty /\ t.todo = {} THEN Ends(i) ELSE Goes(i, q)
    BY <1>1
  <1>7. ASSUME Ends(i), rest = Empty, t.todo = {}
        PROVE  /\ UInv' /\ Busy \ {i} \subseteq Busy'
               /\ t.clean => \A v \in DOMAIN users : cache'[v] = table[v]
    <2>1. UInv' /\ Busy \ {i} \subseteq Busy'
      BY <1>2, <1>3, <1>5, <1>7, Ending
    <2>2. DOMAIN t.rows \subseteq {u}
      <3>1. DOMAIN rest = {}
        BY <1>7 DEF Empty
      <3> QED BY <3>1
    <2> HIDE DEF t, rest
    <2>3. ASSUME t.clean, NEW v \in DOMAIN users PROVE cache'[v] = table[v]
      <3>1. DOMAIN users \subseteq Users
        BY <1>3, FilesAre DEF DataOK
      <3>2. v \in DOMAIN t.rows \/ cache[v] = table[v]
        BY <1>2, <1>7, <2>3 DEF Stands
      <3> QED BY <1>4, <2>2, <2>3, <3>1, <3>2
    <2> QED BY <2>1, <2>3
  <1>8. ASSUME Goes(i, q), ~(rest = Empty /\ t.todo = {})
        PROVE  UInv' /\ Busy \subseteq Busy'
    <2>1. t.rows \in PartOf(Users, Settings \cup {None})
      BY <1>2 DEF Waits
    <2>2. t.rows \in [DOMAIN t.rows -> Settings \cup {None}] /\ DOMAIN t.rows \subseteq Users
      BY <2>1, PartIs
    <2>3. /\ DOMAIN rest = DOMAIN t.rows \ {u} /\ rest \in [DOMAIN rest -> Settings \cup {None}]
          /\ \A v \in DOMAIN rest : rest[v] = t.rows[v]
      BY <2>2
    <2> HIDE DEF rest
    <2>4. rest \in PartOf(Users, Settings \cup {None})
      BY <2>2, <2>3, PartIs
    <2>5. rest \in PartOf(Users, Settings \cup Values \cup {None})
      <3>1. rest \in [DOMAIN rest -> Settings \cup Values \cup {None}] /\ DOMAIN rest \subseteq Users
        BY <2>2, <2>3
      <3> QED BY <3>1, PartIs
    <2>6. q \in Tasks
      BY <1>2, <2>5 DEF Tasks
    <2>7. /\ q.op = t.op /\ q.user = t.user /\ q.data = t.data /\ q.stage = t.stage
          /\ q.todo = t.todo /\ q.clean = t.clean
      BY <1>2 DEF Tasks
    <2>8. q.rows = rest
      BY <1>2 DEF Tasks
    <2>9. Goes(i, q) /\ (rest # Empty \/ t.todo # {}) /\ u \in DOMAIN t.rows
      BY <1>8
    <2> HIDE DEF q, t
    <2>10. Waits(q)
      BY <1>2, <2>4, <2>7, <2>8, <2>9 DEF Waits
    <2>11. ASSUME q.clean PROVE Stands(q, users', table', cache')
      <3>1. t.clean /\ Stands(t, users, table, cache) /\ cache'[u] = table[u]
        BY <1>2, <1>4, <2>7, <2>11
      <3>2. t.op # "default"
        BY <1>2 DEF Waits
      <3>3. \A v \in DOMAIN users : v \in q.todo \cup DOMAIN q.rows \/ cache'[v] = table[v]
        <4>1. DOMAIN users \subseteq Users
          BY <1>3, FilesAre DEF DataOK
        <4>2. \A v \in DOMAIN users : v \in t.todo \cup DOMAIN t.rows \/ cache[v] = table[v]
          BY <1>2, <3>1 DEF Stands
        <4> QED BY <1>4, <2>3, <2>7, <2>8, <3>1, <4>1, <4>2
      <3>4. \A v \in DOMAIN q.rows : q.rows[v] = table[v]
        BY <1>2, <2>3, <2>8, <3>1 DEF Stands
      <3>5. q.op = "save" => \A k \in DOMAIN q.data : table[q.user][k] = q.data[k]
        BY <1>2, <2>7, <3>1 DEF Stands
      <3> QED BY <1>2, <1>3, <2>7, <3>2, <3>3, <3>4, <3>5 DEF Stands
    <2>12. i \in Busy /\ (q.clean => tasks[i].clean)
      BY <1>2, <2>7 DEF t
    <2> QED BY <1>3, <1>5, <2>6, <2>9, <2>10, <2>11, <2>12, Going DEF Good
  <1> QED BY <1>3, <1>6, <1>7, <1>8

-----------------------------------------------------------------------------
(* Every step.                                                             *)

\* A step keeps the invariant; the task that ends in it, if any, was refused,
\* or had saved a default extension, or has the last rows of its load.
LEMMA StepInv ==
  ASSUME UInv, Next
  PROVE  /\ UInv'
         /\ \/ Busy \subseteq Busy'
            \/ \E i \in Slots :
                 /\ Busy \ {i} \subseteq Busy'
                 /\ \/ At(i, "refused")
                    \/ /\ At(i, "saved") /\ tasks[i].op = "default"
                       /\ cache' = InMemory(tasks[i].user, ExtenOf(tasks[i])) /\ table' = table
                    \/ /\ At(i, "load") /\ table' = table
                       /\ tasks[i].clean => \A v \in DOMAIN users : cache'[v] = table[v]
  <1>1. CASE Requests
    <2>1. PICK u \in Users :
            \/ \E p \in Posts : settingsPost(u, p)
            \/ \E e \in Extens : setDefaultUserExtensionConf(u, e)
            \/ \E ks : deleteSettings(u, ks)
      BY <1>1 DEF Requests
    <2> QED BY <2>1, Posted, DefaultAsked, SettingsDeleted
  <1>2. CASE Reload
    BY <1>2, Reloaded
  <1>3. CASE WriteUsers
    BY <1>3, UsersWritten
  <1>4. CASE ReloadUsers
    BY <1>4, UsersRead
  <1>5. ASSUME NEW i \in Slots, Answers(i)
        PROVE  /\ UInv'
               /\ \/ Busy \subseteq Busy'
                  \/ /\ Busy \ {i} \subseteq Busy'
                     /\ \/ At(i, "refused")
                        \/ /\ At(i, "saved") /\ tasks[i].op = "default"
                           /\ cache' = InMemory(tasks[i].user, ExtenOf(tasks[i])) /\ table' = table
                        \/ /\ At(i, "load") /\ table' = table
                           /\ tasks[i].clean => \A v \in DOMAIN users : cache'[v] = table[v]
    <2>1. CASE saveUserSettings(i)
      BY <2>1, Upsert
    <2>2. CASE Find(i)
      BY <2>2, Found
    <2>3. CASE Insert(i)
      BY <2>3, Inserted
    <2>4. CASE Update(i)
      BY <2>4, Updated
    <2>5. CASE Saved(i)
      <3>1. At(i, "saved")
        BY <2>5 DEF Saved
      <3> QED BY <2>5, <3>1, SavedIsAnswered
    <2>6. CASE SaveRefused(i)
      <3>1. At(i, "refused")
        BY <2>6 DEF SaveRefused
      <3> QED BY <2>6, <3>1, RefusalIsAnswered
    <2>7. CASE getAllUsersDefaultExtension(i)
      BY <2>7, DefaultsRead
    <2>8. CASE checkDefaults(i)
      BY <2>8, DefaultsChecked
    <2>9. CASE Select(i)
      BY <2>9, RowsRead
    <2>10. CASE getUserSettings(i)
      <3>1. At(i, "load")
        BY <2>10 DEF getUserSettings
      <3> QED BY <2>10, <3>1, RowsAnswered
    <2> QED BY <1>5, <2>1, <2>2, <2>3, <2>4, <2>5, <2>6, <2>7, <2>8, <2>9, <2>10 DEF Answers
  <1> QED BY <1>1, <1>2, <1>3, <1>4, <1>5 DEF Next

LEMMA Stutter ==
  ASSUME UInv, UNCHANGED vars
  PROVE  UInv' /\ Busy' = Busy
  <1>1. /\ file' = file /\ users' = users /\ reading' = reading /\ table' = table /\ cache' = cache
        /\ tasks' = tasks /\ starts' = starts /\ errors' = errors
    BY DEF vars, userVars
  <1>2. Busy' = Busy
    BY <1>1 DEF Busy
  <1>3. TypeOK' /\ Alone'
    BY <1>1, <1>2 DEF UInv, TypeOK, Alone
  <1>4. \A i \in Busy' : Waits(tasks'[i])
    BY <1>1, <1>2 DEF UInv
  <1>5. \A i \in Busy' : tasks'[i].clean => Stands(tasks'[i], users', table', cache')
    BY <1>1, <1>2 DEF UInv
  <1> QED BY <1>2, <1>3, <1>4, <1>5 DEF UInv

\* How a clean task ends.
LEMMA EndIs ==
  ASSUME UInv, [Next]_vars, NEW i \in Slots, EndsWell(i)
  PROVE  /\ tasks[i] \in Tasks /\ Waits(tasks[i]) /\ Stands(tasks[i], users, table, cache)
         /\ table' = table
         /\ \/ /\ tasks[i].stage = "saved" /\ tasks[i].op = "default"
               /\ cache' = InMemory(tasks[i].user, ExtenOf(tasks[i]))
            \/ /\ tasks[i].stage = "load"
               /\ \A v \in DOMAIN users : cache'[v] = table[v]
  <1>1. i \in Busy /\ i \notin Busy' /\ tasks[i].clean
    BY DEF EndsWell, Busy
  <1>2. Next
    BY <1>1, Stutter
  <1>3. PICK j \in Slots :
          /\ Busy \ {j} \subseteq Busy'
          /\ \/ At(j, "refused")
             \/ /\ At(j, "saved") /\ tasks[j].op = "default"
                /\ cache' = InMemory(tasks[j].user, ExtenOf(tasks[j])) /\ table' = table
             \/ /\ At(j, "load") /\ table' = table
                /\ tasks[j].clean => \A v \in DOMAIN users : cache'[v] = table[v]
    BY <1>1, <1>2, StepInv
  <1>4. j = i
    BY <1>1, <1>3
  <1>5. /\ tasks[i] \in Tasks /\ Waits(tasks[i]) /\ Stands(tasks[i], users, table, cache)
    BY <1>1, Parts DEF Good, Busy
  <1>6. ~At(i, "refused")
    <2>1. tasks[i].op \in {"save", "default", "config"}
      BY <1>5 DEF Tasks, Ops
    <2> QED BY <1>5, <2>1 DEF Waits, Stands, At
  <1> QED BY <1>1, <1>3, <1>4, <1>5, <1>6 DEF At

\* The inductive invariant holds in every behaviour: a clean task is alone, and
\* its queries have done what its stage says (saveUserSettings, saveUserSetting,
\* loadAllUsersSettings).
THEOREM Invariant == Spec => []UInv
  <1>1. Init => UInv
    BY InitInv
  <1>2. UInv /\ [Next]_vars => UInv'
    BY StepInv, Stutter
  <1> QED BY <1>1, <1>2, PTL DEF Spec

\* The table, what is in memory and the tasks are well typed, and a task that
\* waits has rows, settings or default extensions to wait for.
THEOREM TypeCorrect == Spec => []TypeOK
  <1>1. UInv => TypeOK
    BY DEF UInv
  <1> QED BY <1>1, Invariant, PTL

\* For any users, settings and number of tasks, a save that is answered and a
\* reload that is over leave in memory what is stored, of every user known.
THEOREM LoadsServeWhatIsStored == Spec => LoadedIsStored
  <1>1. ASSUME UInv, [Next]_vars, NEW i \in Slots, EndsWell(i), tasks[i].op \in {"save", "config"}
        PROVE  /\ \A k \in DOMAIN tasks[i].data : table'[tasks[i].user][k] = tasks[i].data[k]
               /\ \A u \in Users : cache'[u] # None /\ u \in DOMAIN users => cache'[u] = table'[u]
    <2>1. /\ Waits(tasks[i]) /\ Stands(tasks[i], users, table, cache) /\ table' = table
          /\ tasks[i].stage = "load" /\ \A v \in DOMAIN users : cache'[v] = table[v]
      BY <1>1, EndIs
    <2>2. tasks[i].op = "save" =>
            \A k \in DOMAIN tasks[i].data : table'[tasks[i].user][k] = tasks[i].data[k]
      BY <2>1 DEF Stands
    <2>3. tasks[i].op = "config" => DOMAIN tasks[i].data = {}
      BY <2>1 DEF Waits, Empty
    <2> QED BY <1>1, <2>1, <2>2, <2>3
  <1>2. UInv /\ [Next]_vars =>
          [\A i \in Slots : EndsWell(i) /\ tasks[i].op \in {"save", "config"} =>
             /\ \A k \in DOMAIN tasks[i].data : table'[tasks[i].user][k] = tasks[i].data[k]
             /\ \A u \in Users : cache'[u] # None /\ u \in DOMAIN users => cache'[u] = table'[u]]_vars
    BY <1>1
  <1> QED BY <1>2, Invariant, PTL DEF Spec, LoadedIsStored

\* For any users, settings and number of tasks, the default extension a user
\* was answered 200 for is stored, and is the one in memory.
THEOREM DefaultsAreServed == Spec => DefaultIsServed
  <1>1. ASSUME UInv, [Next]_vars, NEW i \in Slots, EndsWell(i), tasks[i].op = "default"
        PROVE  /\ table'[tasks[i].user]["default_extension"] = tasks[i].data["default_extension"]
               /\ cache[tasks[i].user] # None =>
                    cache'[tasks[i].user]["default_extension"] = tasks[i].data["default_extension"]
    <2> DEFINE t == tasks[i]
    <2>1. t \in Tasks /\ Waits(t) /\ Stands(t, users, table, cache) /\ table' = table
      BY <1>1, EndIs
    <2>2. t.stage = "saved" /\ cache' = InMemory(t.user, ExtenOf(t))
      BY <1>1, <2>1, EndIs DEF Waits
    <2>3. t.op = "default"
      BY <1>1
    <2>4. cache \in [Users -> Settings \cup {None}]
      BY <1>1 DEF UInv, TypeOK
    <2> HIDE DEF t
    <2>5. t.user \in Users /\ ExtenOf(t) = t.data["default_extension"]
      BY <2>1, <2>2, <2>3, Target DEF SaveStages, Default
    <2>6. table'[t.user]["default_extension"] = t.data["default_extension"]
      BY <2>1, <2>2, <2>3 DEF Stands, Default
    <2>7. ASSUME cache[t.user] # None
          PROVE  cache'[t.user]["default_extension"] = t.data["default_extension"]
      <3>1. cache[t.user] \in [Keys -> Values \cup {None}] /\ "default_extension" \in Keys
        BY <2>4, <2>5, <2>7 DEF Settings, Keys
      <3>2. cache' = [cache EXCEPT ![t.user] = [cache[t.user] EXCEPT !["default_extension"] = ExtenOf(t)]]
        BY <2>2, <2>7 DEF InMemory
      <3> QED BY <2>4, <2>5, <3>1, <3>2
    <2> QED BY <2>6, <2>7 DEF t
  <1>2. UInv /\ [Next]_vars =>
          [\A i \in Slots : EndsWell(i) /\ tasks[i].op = "default" =>
             LET u == tasks[i].user
                 e == tasks[i].data["default_extension"]
             IN /\ table'[u]["default_extension"] = e
                /\ cache[u] # None => cache'[u]["default_extension"] = e]_vars
    BY <1>1
  <1> QED BY <1>2, Invariant, PTL DEF Spec, DefaultIsServed
=============================================================================
