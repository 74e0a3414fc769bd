-------------------------- MODULE Reloads_proofs ---------------------------
(***************************************************************************)
(* Proofs about the reload of the application: the flags of nethcti.js     *)
(* implement ReloadBarrier, and the components that do not hide their      *)
(* errors have read their files when the clients are told.                 *)
(***************************************************************************)
EXTENDS Reloads, TLAPS

Prompt == Comps \ Late

(* While a request waits a flag says that the component emitted reloaded in
   this round, the flag of the users is up only when another component can
   no longer answer, and outside a request no prompt component is flagged. *)
FlagsFollow == Waiting => \A c \in Comps : status[c] <=> last[c] = round
UsersAlone == Waiting /\ status["user"] => \E c \in Prompt : ~status[c]
PromptRest == ~Waiting => \A c \in Prompt : ~status[c]
StartsOfRounds == starting < round
AuthenticationRead ==
  Waiting /\ status["authentication"] => conf["authentication"] = round

IInv == TypeOK /\ FlagsFollow /\ UsersAlone /\ PromptRest /\ StartsOfRounds
        /\ AuthenticationRead

LEMMA CompFacts ==
  /\ "user" \in Comps /\ "astproxy" \in Comps /\ "authentication" \in Comps
  /\ Late \subseteq Comps /\ "authentication" \in Prompt /\ "user" \notin Prompt
  /\ Comp["authentication"].anyway = FALSE /\ Comp["user"].anyway = FALSE
BY DEF Comps, Comp, Late, Prompt, authentication, user, astproxy, Strict

(* What a component has after its reload is the new round, what it had or
   nothing; a strict one that says reloaded has the new round. *)
LEMMA ConfAfterType ==
  ASSUME NEW c \in Comps, NEW n \in Nat, conf \in [Comps -> 0..round],
         round \in Nat, round <= n
  PROVE  ConfAfter(c, n) \in 0..n
BY DEF ConfAfter

(* The step of the barrier: everything is told and reset, or flagged. *)
LEMMA CompReloaded ==
  ASSUME NEW st, NEW cs, compReloaded(st, cs)
  PROVE  \/ /\ \A c \in Comps : st[c] \/ c \in cs
            /\ status' = [c \in Comps |-> FALSE]
            /\ told' = round
         \/ /\ \E c \in Comps : ~(st[c] \/ c \in cs)
            /\ status' = [c \in Comps |-> st[c] \/ c \in cs]
            /\ told' = told
BY DEF compReloaded, resetAllCompReloadStatus

LEMMA InitIInv == Init => IInv
BY CompFacts, BoundsAreNaturals
DEF Init, IInv, TypeOK, FlagsFollow, UsersAlone, PromptRest, StartsOfRounds,
    AuthenticationRead, Waiting, Prompt

(* What a request does, before and after the barrier is looked at. *)
LEMMA RequestStep ==
  ASSUME IInv, ReloadApp
  PROVE  /\ round' = round + 1 /\ round \in Nat /\ round <= MaxReloads
         /\ status' = [c \in Comps |-> c \in Prompt /\ Says(c)]
         /\ told' = told /\ told <= round
         /\ last' = [c \in Comps |-> IF c \in Prompt /\ Says(c) THEN round + 1 ELSE last[c]]
<1>1. compReloaded(resetAllCompReloadStatus, {c \in Prompt : Says(c)})
  BY DEF ReloadApp, Prompt
<1>2. ~resetAllCompReloadStatus["user"] /\ "user" \notin {c \in Prompt : Says(c)}
  BY CompFacts DEF resetAllCompReloadStatus
<1>3. /\ status' = [c \in Comps |-> resetAllCompReloadStatus[c] \/ c \in {d \in Prompt : Says(d)}]
      /\ told' = told
  BY <1>1, <1>2, CompReloaded, CompFacts
<1>4. \A c \in Comps : resetAllCompReloadStatus[c] = FALSE
  BY DEF resetAllCompReloadStatus
<1>5. status' = [c \in Comps |-> c \in Prompt /\ Says(c)]
  BY <1>3, <1>4
<1> QED BY <1>3, <1>5, BoundsAreNaturals DEF ReloadApp, Prompt, IInv, TypeOK

(* What an answer of astproxy does. *)
LEMMA AnswerStep ==
  ASSUME IInv, AstProxyAnswers
  PROVE  LET says == {c \in Late : c = "astproxy" \/ Says(c)}
         IN /\ compReloaded(status, says)
            /\ says \subseteq Late
            /\ round' = round /\ round > 1
            /\ last' = [c \in Comps |-> IF c \in says THEN round ELSE last[c]]
            /\ conf' = [conf EXCEPT !["user"] = ConfAfter("user", round)]
            /\ starting > 0 /\ starting' = starting - 1
BY BoundsAreNaturals DEF AstProxyAnswers, IInv, StartsOfRounds, TypeOK

LEMMA RequestKeeps == ASSUME IInv, ReloadApp PROVE IInv'
<1> USE DEF IInv
<1>1. TypeOK'
  <2>1. /\ broken' = broken /\ edits' = edits /\ round' = round + 1
        /\ opened < MaxOpened /\ opened' = opened + 1
        /\ open' = open \cup {opened + 1} /\ current' = opened + 1
        /\ starting' = IF Reads("astproxy") THEN starting + 1 ELSE starting
    BY DEF ReloadApp, initMysqlConn, resetDbconn, brokenVars
  <2>2. conf' \in [Comps -> 0..(round + 1)]
    <3>1. conf' = [c \in Comps |-> IF c = "user" THEN conf[c] ELSE ConfAfter(c, round + 1)]
      BY DEF ReloadApp
    <3>2. \A c \in Comps : ConfAfter(c, round + 1) \in 0..(round + 1)
      BY ConfAfterType, RequestStep DEF TypeOK
    <3>3. \A c \in Comps : conf[c] \in 0..(round + 1)
      BY RequestStep DEF TypeOK
    <3> QED BY <3>1, <3>2, <3>3
  <2>3. last' \in [Comps -> 0..(round + 1)]
    BY RequestStep DEF TypeOK
  <2>4. status' \in [Comps -> BOOLEAN]
    BY RequestStep
  <2>5. told' \in 0..(round + 1) /\ round + 1 \in 1..(MaxReloads + 1)
    BY RequestStep, BoundsAreNaturals DEF TypeOK
  <2>6. starting' \in 0..MaxReloads
    BY <2>1, RequestStep, BoundsAreNaturals DEF TypeOK, StartsOfRounds
  <2>7. opened' \in 1..MaxOpened /\ open' \subseteq 1..opened' /\ current' \in open'
    BY <2>1, BoundsAreNaturals DEF TypeOK
  <2> QED BY <2>1, <2>2, <2>3, <2>4, <2>5, <2>6, <2>7 DEF TypeOK
<1>2. FlagsFollow'
  <2> SUFFICES ASSUME NEW c \in Comps
               PROVE  status'[c] <=> last'[c] = round'
    BY DEF FlagsFollow
  <2>1. last[c] # round + 1
    BY RequestStep DEF TypeOK
  <2> QED BY <2>1, RequestStep
<1>3. ~status'["user"]
  BY RequestStep, CompFacts
<1>4. Waiting'
  BY RequestStep DEF Waiting, TypeOK
<1>5. StartsOfRounds'
  BY RequestStep DEF ReloadApp, StartsOfRounds, TypeOK
<1>6. AuthenticationRead'
  <2> SUFFICES ASSUME status'["authentication"]
               PROVE  conf'["authentication"] = round'
    BY DEF AuthenticationRead
  <2>1. Says("authentication")
    BY RequestStep, CompFacts
  <2>2. Reads("authentication")
    BY <2>1, CompFacts DEF Says
  <2> QED BY <2>2, CompFacts, RequestStep DEF ReloadApp, ConfAfter
<1> QED BY <1>1, <1>2, <1>3, <1>4, <1>5, <1>6 DEF UsersAlone, PromptRest

LEMMA AnswerKeeps == ASSUME IInv, AstProxyAnswers PROVE IInv'
<1> USE DEF IInv
<1> DEFINE says == {c \in Late : c = "astproxy" \/ Says(c)}
<1>0. /\ compReloaded(status, says)
      /\ says \subseteq Late /\ says \subseteq Comps
      /\ round' = round /\ round \in Nat /\ round > 1
      /\ last' = [c \in Comps |-> IF c \in says THEN round ELSE last[c]]
      /\ conf' = [conf EXCEPT !["user"] = ConfAfter("user", round)]
      /\ starting > 0 /\ starting' = starting - 1
  BY AnswerStep, CompFacts DEF TypeOK
<1>3. /\ broken' \subseteq Files /\ edits' \in 0..MaxEdits
      /\ opened' \in 1..MaxOpened /\ open' \subseteq 1..opened' /\ current' \in open'
  BY DEF AstProxyAnswers, TypeOK, brokenVars, connVars
<1>4. /\ conf' \in [Comps -> 0..round] /\ last' \in [Comps -> 0..round]
      /\ starting' \in 0..MaxReloads
  <2>1. ConfAfter("user", round) \in 0..round
    BY <1>0, CompFacts, ConfAfterType DEF TypeOK
  <2>2. conf' \in [Comps -> 0..round]
    BY <1>0, <2>1 DEF TypeOK
  <2>3. last' \in [Comps -> 0..round]
    BY <1>0 DEF TypeOK
  <2> QED BY <1>0, <2>2, <2>3, BoundsAreNaturals DEF TypeOK
<1> HIDE DEF says
<1>1. CASE /\ \A c \in Comps : status[c] \/ c \in says
           /\ status' = [c \in Comps |-> FALSE]
           /\ told' = round
  <2>1. TypeOK'
    BY <1>0, <1>1, <1>3, <1>4 DEF TypeOK
  <2>2. ~Waiting'
    BY <1>0, <1>1 DEF Waiting
  <2>3. StartsOfRounds'
    BY <1>0 DEF StartsOfRounds, TypeOK
  <2> QED BY <1>1, <2>1, <2>2, <2>3
      DEF FlagsFollow, UsersAlone, PromptRest, AuthenticationRead, Prompt
<1>2. CASE /\ \E c \in Comps : ~(status[c] \/ c \in says)
           /\ status' = [c \in Comps |-> status[c] \/ c \in says]
           /\ told' = told
  <2>1. TypeOK'
    <3>1. status' \in [Comps -> BOOLEAN]
      BY <1>2 DEF TypeOK
    <3> QED BY <3>1, <1>0, <1>2, <1>3, <1>4 DEF TypeOK
  <2>2. Waiting' <=> Waiting
    BY <1>0, <1>2 DEF Waiting
  <2>3. \A c \in Prompt : status'[c] = status[c]
    BY <1>0, <1>2 DEF Prompt, TypeOK
  <2>4. FlagsFollow'
    <3> SUFFICES ASSUME Waiting, NEW c \in Comps
                 PROVE  status'[c] <=> last'[c] = round
      BY <1>0, <2>2 DEF FlagsFollow
    <3>1. status[c] <=> last[c] = round
      BY DEF FlagsFollow
    <3> QED BY <3>1, <1>0, <1>2
  <2>5. UsersAlone'
    <3> SUFFICES ASSUME status'["user"], \A c \in Prompt : status[c] PROVE FALSE
      BY <2>2, <2>3 DEF UsersAlone
    <3>1. PICK d \in Comps : ~(status[d] \/ d \in says)
      BY <1>2
    <3>2. "astproxy" \in says
      BY DEF says, Late
    <3>3. d = "user"
      BY <3>1, <3>2 DEF Prompt, Late
    <3> QED BY <3>1, <3>3, <1>2
  <2>6. PromptRest'
    BY <2>2, <2>3 DEF PromptRest
  <2>7. StartsOfRounds'
    BY <1>0 DEF StartsOfRounds, TypeOK
  <2>8. AuthenticationRead'
    <3>1. conf'["authentication"] = conf["authentication"]
      BY <1>0, CompFacts DEF TypeOK
    <3> QED BY <3>1, <1>0, <2>2, <2>3, CompFacts DEF AuthenticationRead
  <2> QED BY <2>1, <2>4, <2>5, <2>6, <2>7, <2>8
<1> QED BY <1>0, <1>1, <1>2, CompReloaded

(* The steps that do not touch the barrier. *)
LEMMA OthersKeep ==
  ASSUME IInv, Edit \/ (\E id \in open : ConnectionLost(id)) \/ UNCHANGED vars
  PROVE  IInv'
<1> USE DEF IInv
<1>1. UNCHANGED <<round, barrierVars, starting>>
  BY DEF Edit, ConnectionLost, vars
<1>2. broken' \subseteq Files /\ edits' \in 0..MaxEdits
  <2>1. CASE Edit
    BY <2>1, BoundsAreNaturals DEF Edit, TypeOK
  <2>2. CASE UNCHANGED brokenVars
    BY <2>2 DEF TypeOK, brokenVars
  <2> QED BY <2>1, <2>2 DEF ConnectionLost, vars
<1>3. opened' \in 1..MaxOpened /\ open' \subseteq 1..opened' /\ current' \in open'
  <2>1. CASE \E id \in open : ConnectionLost(id)
    BY <2>1, BoundsAreNaturals DEF ConnectionLost, initMysqlConn, TypeOK
  <2>2. CASE UNCHANGED connVars
    BY <2>2 DEF TypeOK, connVars
  <2> QED BY <2>1, <2>2 DEF Edit, vars
<1>4. TypeOK'
  BY <1>1, <1>2, <1>3 DEF TypeOK, barrierVars
<1> QED BY <1>1, <1>4
    DEF FlagsFollow, UsersAlone, PromptRest, StartsOfRounds, AuthenticationRead,
        Waiting, barrierVars

LEMMA NextKeeps == IInv /\ [Next]_vars => IInv'
BY RequestKeeps, AnswerKeeps, OthersKeep DEF Next

LEMMA Invariance == Spec => []IInv
BY InitIInv, NextKeeps, PTL DEF Spec

(* The state of the reloads is well typed, for every bound (nethcti.js,
   dbconn_main.js). *)
THEOREM TypeCorrect == Spec => []TypeOK
BY Invariance, PTL DEF IInv

(* A request is a request of the barrier. *)
LEMMA RequestRefines == ASSUME IInv, ReloadApp PROVE Barrier!Request
<1>1. Waiting'
  BY RequestStep DEF Waiting, IInv, TypeOK
<1>2. "user" \in Comps /\ last'["user"] < round'
  BY RequestStep, CompFacts DEF IInv, TypeOK
<1> QED BY <1>1, <1>2 DEF Barrier!Request, Behind

(* An answer tells the clients, lets some components catch up or, outside a
   request, is not seen. *)
LEMMA AnswerRefines ==
  ASSUME IInv, AstProxyAnswers PROVE [Barrier!Next]_(Barrier!vars)
<1> USE DEF IInv
<1> DEFINE says == {c \in Late : c = "astproxy" \/ Says(c)}
<1>0. /\ compReloaded(status, says)
      /\ says \subseteq Late
      /\ round' = round /\ round \in Nat /\ round > 1
      /\ last' = [c \in Comps |-> IF c \in says THEN round ELSE last[c]]
  BY AnswerStep, CompFacts DEF TypeOK
<1> HIDE DEF says
<1>1. CASE /\ \A c \in Comps : status[c] \/ c \in says
           /\ told' = round
  <2>1. Waiting
    BY <1>0, <1>1, CompFacts DEF PromptRest, Prompt
  <2>2. ~Waiting'
    BY <1>0, <1>1 DEF Waiting
  <2> QED BY <2>1, <2>2 DEF Barrier!Next, Barrier!Tell, Behind
<1>2. CASE /\ \E c \in Comps : ~(status[c] \/ c \in says)
           /\ told' = told
  <2>1. Waiting' = Waiting
    BY <1>0, <1>2 DEF Waiting
  <2>2. CASE ~Waiting
    BY <2>1, <2>2 DEF Barrier!vars, Behind
  <2>3. CASE Waiting
    <3>1. PICK d \in Comps : ~status[d] /\ d \notin says
      BY <1>2
    <3>2. last[d] < round
      BY <2>3, <3>1, <1>0 DEF FlagsFollow, TypeOK
    <3>3. last'[d] < round'
      BY <3>1, <3>2, <1>0
    <3>4. \A c \in Comps : last'[c] < round' => last[c] < round
      BY <1>0
    <3>5. Behind' \subseteq Behind /\ Behind' # {}
      BY <2>1, <2>3, <3>3, <3>4 DEF Behind
    <3> QED BY <2>1, <2>3, <3>5 DEF Barrier!Next, Barrier!Reload
  <2> QED BY <2>2, <2>3
<1> QED BY <1>0, <1>1, <1>2, CompReloaded

(* The flags of nethcti.js implement ReloadBarrier: one serverReloaded at
   most for a request, and only when every component has reloaded since. *)
THEOREM BarrierImplemented == Spec => BarrierKept
<1>1. Init => Barrier!Init
  BY DEF Init, Barrier!Init, Waiting, Behind
<1>2. IInv /\ [Next]_vars => [Barrier!Next]_(Barrier!vars)
  <2> SUFFICES ASSUME IInv, [Next]_vars PROVE [Barrier!Next]_(Barrier!vars)
    OBVIOUS
  <2>1. CASE ReloadApp
    BY <2>1, RequestRefines DEF Barrier!Next
  <2>2. CASE AstProxyAnswers
    BY <2>2, AnswerRefines
  <2>3. CASE UNCHANGED <<round, barrierVars>>
    BY <2>3 DEF Barrier!vars, Waiting, Behind, barrierVars
  <2> QED BY <2>1, <2>2, <2>3 DEF Next, Edit, ConnectionLost, vars
<1> QED BY <1>1, <1>2, Invariance, PTL DEF Spec, BarrierKept, Barrier!Spec

(* When the clients are told, authentication and the users have the files of
   a time after the last request, however the requests, the broken files and
   the late answers came. *)
THEOREM ToldHaveRead == Spec => ToldAreRead
<1>1. IInv /\ [Next]_vars =>
        [told' # told => \A c \in {"authentication", "user"} : conf'[c] = round]_vars
  <2> SUFFICES ASSUME IInv, [Next]_vars, told' # told
               PROVE  conf'["authentication"] = round /\ conf'["user"] = round
    OBVIOUS
  <2> USE DEF IInv
  <2>1. AstProxyAnswers
    BY RequestStep DEF Next, Edit, ConnectionLost, barrierVars, vars
  <2> DEFINE says == {c \in Late : c = "astproxy" \/ Says(c)}
  <2>2. /\ \A c \in Comps : status[c] \/ c \in says
        /\ conf' = [conf EXCEPT !["user"] = ConfAfter("user", round)]
        /\ round > 1 /\ says \subseteq Late
    BY <2>1, AnswerStep, CompReloaded
  <2>3. \A c \in Prompt : status[c]
    BY <2>2 DEF Prompt
  <2>4. Waiting /\ ~status["user"]
    BY <2>3, CompFacts DEF PromptRest, UsersAlone
  <2>5. Reads("user")
    BY <2>2, <2>4, CompFacts DEF Says
  <2>6. conf["authentication"] = round
    BY <2>3, <2>4, CompFacts DEF AuthenticationRead
  <2> QED BY <2>2, <2>5, <2>6, CompFacts DEF ConfAfter, TypeOK
<1> QED BY <1>1, Invariance, PTL DEF Spec, ToldAreRead
============================================================================
