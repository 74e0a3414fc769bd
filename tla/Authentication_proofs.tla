------------------------ MODULE Authentication_proofs ------------------------
(***************************************************************************)
(* What is proved of the authentication.                                   *)
(*                                                                         *)
(* The persistent tokens, for every set of users and every bound: once     *)
(* nothing of a user is on its way the Map and the table agree, unless     *)
(* queries of two connections crossed, and a token revoked stays so.       *)
(*                                                                         *)
(* The grants, for any names, tokens, sockets and expirations: the tokens  *)
(* of sessions live, a logout is final, and so is an expiration.           *)
(***************************************************************************)
EXTENDS PersistentTokens, TokenGrants, TLAPS

-----------------------------------------------------------------------------
(* The persistent tokens.                                                  *)

\* the i-th query on c is one about k alone
About(k, c, i) == queue[c][i].query # "all" /\ queue[c][i].key = k

\* the Map and the table say the same of k
Agree(k) ==
  \/ persistentTokens[k] = table[k]
  \/ table[k] = NoEntry /\ persistentTokens[k] = Undefined

\* what a login or a logout of a key sends goes over one connection, where nothing
\* else about the key is sent over another
Together(qs, cr) ==
  \A k \in Keys, c, d \in Conns :
    k \notin cr /\ c # d => ~(Operates(qs, k, c) /\ Touches(qs, k, d))

\* so an answer on its way is what the table still holds
AnswerInv ==
  \A c \in Conns : answer[c] # NoAnswer =>
    /\ queue[c] # <<>>
    /\ \A k \in Touched(queue[c][1]) : k \notin crossed => answer[c][k] = table[k]
    /\ \A k \in Keys \ Touched(queue[c][1]) : answer[c][k] = NoEntry
    /\ queue[c][1].query = "replace" => answer[c][queue[c][1].key] \in Row
    /\ queue[c][1].query = "delete" => answer[c][queue[c][1].key] = NoEntry

\* a read-back that will miss the row is followed by another query about its key,
\* or about to be
SelectInv ==
  \A c \in Conns : \A i \in DOMAIN queue[c] :
    LET k == queue[c][i].key
    IN  queue[c][i].query = "select" /\ k \notin crossed /\ table[k] # NoEntry =>
          \/ table[k].id = queue[c][i].id
          \/ \E j \in DOMAIN queue[c] : i < j /\ About(k, c, j)
          \/ answer[c] # NoAnswer /\ queue[c][1].query = "replace" /\ queue[c][1].key = k

\* a key on which the Map and the table differ is going to be read again
CacheInv ==
  \A k \in Keys : k \notin lost \cup crossed =>
    \/ Agree(k)
    \/ \E c \in Conns : Operates(queue, k, c)
    \/ persistentTokens[k] = NoEntry /\ (unread \/ \E c \in Conns : Touches(queue, k, c))

\* no token below revokedBelow is held, stored, on its way or about to be stored
Minted == \A k \in Keys : revokedBelow[k] <= nextToken
HeldInv ==
  \A k \in Keys : persistentTokens[k] \in Row => persistentTokens[k].token >= revokedBelow[k]
StoredInv ==
  \A k \in Keys : table[k] \in Row => table[k].token >= revokedBelow[k]
OnTheWayInv ==
  \A c \in Conns, k \in Keys :
    answer[c] # NoAnswer /\ answer[c][k] \in Row => answer[c][k].token >= revokedBelow[k]
ReplaceInv(qs) ==
  \A c \in Conns : \A i \in DOMAIN qs[c] : qs[c][i].query = "replace" =>
    qs[c][i].token \in revokedBelow[qs[c][i].key]..(nextToken - 1)
DeleteInv(qs) ==
  \A c \in Conns : \A i \in DOMAIN qs[c] : qs[c][i].query = "delete" =>
    qs[c][i].before \in 0..nextToken
\* a login sent after a logout stores a token the logout does not revoke
OrderInv(qs) ==
  \A c \in Conns : \A i, j \in DOMAIN qs[c] :
    i < j /\ qs[c][i].query = "delete" /\ qs[c][j].query = "replace"
      /\ qs[c][i].key = qs[c][j].key => qs[c][j].token >= qs[c][i].before

RevokeInv ==
  /\ Minted /\ HeldInv /\ StoredInv /\ OnTheWayInv
  /\ ReplaceInv(queue) /\ DeleteInv(queue) /\ OrderInv(queue)

IInv ==
  /\ TypeOK /\ Together(queue, crossed) /\ AnswerInv /\ SelectInv /\ CacheInv /\ RevokeInv

Queues == [Conns -> Seq(Query)]

After(qs, d, q) == [qs EXCEPT ![d] = Append(@, q)]

-----------------------------------------------------------------------------
(* The queues. *)

LEMMA QueryFields ==
  ASSUME NEW q \in Query
  PROVE  /\ q.query \in {"replace", "select", "delete", "all"}
         /\ q.query # "all" => q.key \in Keys
         /\ q.query = "replace" => q.token \in Nat
         /\ q.query = "select" => q.id \in Nat
         /\ q.query = "delete" => q.before \in Nat
  BY DEF Query

LEMMA QueryKinds ==
  ASSUME NEW k \in Keys, NEW n \in Nat
  PROVE  /\ Replace(k, n) \in Query
         /\ Select(k, n) \in Query
         /\ Delete(k, n) \in Query
         /\ SelectAll \in Query
  BY DEF Query, Replace, Select, Delete, SelectAll

\* sending keeps every waiting query at its place and puts the new one last
LEMMA AppendFacts ==
  ASSUME NEW S, NEW s \in Seq(S), NEW e \in S
  PROVE  /\ Append(s, e) \in Seq(S)
         /\ DOMAIN s = 1..Len(s)
         /\ Len(s) \in Nat
         /\ DOMAIN Append(s, e) = 1..(Len(s) + 1)
         /\ \A i \in 1..Len(s) : Append(s, e)[i] = s[i]
         /\ Append(s, e)[Len(s) + 1] = e
  OBVIOUS

\* an answer moves every other query one place forward
LEMMA TailFacts ==
  ASSUME NEW S, NEW s \in Seq(S), s # <<>>
  PROVE  /\ Tail(s) \in Seq(S)
         /\ Head(s) = s[1]
         /\ s[1] \in S
         /\ DOMAIN s = 1..Len(s)
         /\ Len(s) \in Nat
         /\ Len(s) >= 1
         /\ DOMAIN Tail(s) = 1..(Len(s) - 1)
         /\ Len(Tail(s)) = Len(s) - 1
         /\ \A i \in 1..(Len(s) - 1) : Tail(s)[i] = s[i + 1]
  OBVIOUS

\* the queues after a query has been sent over d
LEMMA SentFacts ==
  ASSUME NEW qs \in Queues, NEW d \in Conns, NEW q \in Query, NEW rs,
         rs = After(qs, d, q)
  PROVE  /\ rs \in Queues
         /\ \A c \in Conns : c # d => rs[c] = qs[c]
         /\ Len(qs[d]) \in Nat /\ DOMAIN qs[d] = 1..Len(qs[d])
         /\ DOMAIN rs[d] = 1..(Len(qs[d]) + 1)
         /\ \A c \in Conns : \A i \in DOMAIN qs[c] : i \in DOMAIN rs[c] /\ rs[c][i] = qs[c][i]
         /\ rs[d][Len(qs[d]) + 1] = q
         /\ \A c \in Conns : \A i \in DOMAIN rs[c] :
              i \in DOMAIN qs[c] \/ (c = d /\ i = Len(qs[d]) + 1)
<1> DEFINE s == qs[d]
<1>1. s \in Seq(Query) /\ rs[d] = Append(s, q)
  BY DEF Queues, After
<1>2. /\ Append(s, q) \in Seq(Query)
      /\ DOMAIN s = 1..Len(s) /\ Len(s) \in Nat
      /\ DOMAIN Append(s, q) = 1..(Len(s) + 1)
      /\ \A i \in 1..Len(s) : Append(s, q)[i] = s[i]
      /\ Append(s, q)[Len(s) + 1] = q
  BY <1>1, AppendFacts
<1>3. \A c \in Conns : c # d => rs[c] = qs[c]
  BY DEF Queues, After
<1>4. rs \in Queues
  BY <1>1, <1>2 DEF Queues, After
<1>5. \A c \in Conns : \A i \in DOMAIN qs[c] : i \in DOMAIN rs[c] /\ rs[c][i] = qs[c][i]
  BY <1>1, <1>2, <1>3
<1>6. \A c \in Conns : \A i \in DOMAIN rs[c] :
        i \in DOMAIN qs[c] \/ (c = d /\ i = Len(qs[d]) + 1)
  BY <1>1, <1>2, <1>3
<1> QED
  BY <1>1, <1>2, <1>3, <1>4, <1>5, <1>6

\* the queues after the first query of c has been answered
LEMMA AnsweredFacts ==
  ASSUME queue \in Queues, NEW c \in Conns, queue[c] # <<>>, NEW qs, qs = Answered(c)
  PROVE  /\ qs \in Queues
         /\ \A d \in Conns : d # c => qs[d] = queue[d]
         /\ Head(queue[c]) = queue[c][1]
         /\ 1 \in DOMAIN queue[c] /\ queue[c][1] \in Query
         /\ \A i \in DOMAIN queue[c] : i \in Nat /\ i >= 1
         /\ \A i \in DOMAIN qs[c] :
              i \in Nat /\ i >= 1 /\ i + 1 \in DOMAIN queue[c] /\ qs[c][i] = queue[c][i + 1]
         /\ \A i \in DOMAIN queue[c] :
              i # 1 => i - 1 \in DOMAIN qs[c] /\ qs[c][i - 1] = queue[c][i]
<1> DEFINE s == queue[c]
<1>1. s \in Seq(Query) /\ s # <<>> /\ qs[c] = Tail(s)
  BY DEF Queues, Answered
<1>2. /\ Tail(s) \in Seq(Query) /\ Head(s) = s[1] /\ s[1] \in Query
      /\ DOMAIN s = 1..Len(s) /\ Len(s) \in Nat /\ Len(s) >= 1
      /\ DOMAIN Tail(s) = 1..(Len(s) - 1)
      /\ \A i \in 1..(Len(s) - 1) : Tail(s)[i] = s[i + 1]
  BY <1>1, TailFacts
<1>3. qs \in Queues /\ \A d \in Conns : d # c => qs[d] = queue[d]
  BY <1>1, <1>2 DEF Queues, Answered
<1>4. \A i \in DOMAIN qs[c] :
        i \in Nat /\ i >= 1 /\ i + 1 \in DOMAIN queue[c] /\ qs[c][i] = queue[c][i + 1]
  BY <1>1, <1>2
<1>5. \A i \in DOMAIN queue[c] :
        i # 1 => i - 1 \in DOMAIN qs[c] /\ qs[c][i - 1] = queue[c][i]
  <2> SUFFICES ASSUME NEW i \in DOMAIN s, i # 1
               PROVE  i - 1 \in DOMAIN qs[c] /\ qs[c][i - 1] = s[i]
    OBVIOUS
  <2>1. i - 1 \in 1..(Len(s) - 1)
    BY <1>2
  <2> QED
    BY <1>1, <1>2, <2>1
<1>6. 1 \in DOMAIN s /\ \A i \in DOMAIN s : i \in Nat /\ i >= 1
  BY <1>2
<1> QED
  BY <1>2, <1>3, <1>4, <1>5, <1>6

LEMMA TouchesSent ==
  ASSUME NEW qs \in Queues, NEW d \in Conns, NEW q \in Query, NEW rs,
         rs = After(qs, d, q)
  PROVE  \A k \in Keys, c \in Conns :
           /\ Touches(rs, k, c) <=> Touches(qs, k, c) \/ (c = d /\ k \in Touched(q))
           /\ Operates(rs, k, c) <=>
                Operates(qs, k, c) \/ (c = d /\ q.query # "all" /\ q.key = k)
<1> TAKE k \in Keys, c \in Conns
<1>1. /\ \A i \in DOMAIN qs[c] : i \in DOMAIN rs[c] /\ rs[c][i] = qs[c][i]
      /\ rs[d][Len(qs[d]) + 1] = q /\ Len(qs[d]) + 1 \in DOMAIN rs[d]
      /\ \A i \in DOMAIN rs[c] : i \in DOMAIN qs[c] \/ (c = d /\ i = Len(qs[d]) + 1)
  BY SentFacts
<1> QED
  BY <1>1 DEF Touches, Operates

LEMMA TouchesLeft ==
  ASSUME queue \in Queues, NEW c \in Conns, queue[c] # <<>>, NEW qs, qs = Answered(c)
  PROVE  \A k \in Keys, d \in Conns :
           /\ Touches(qs, k, d) => Touches(queue, k, d)
           /\ Operates(qs, k, d) => Operates(queue, k, d)
           /\ Touches(queue, k, d) => Touches(qs, k, d) \/ (d = c /\ k \in Touched(queue[c][1]))
           /\ Operates(queue, k, d) =>
                Operates(qs, k, d)
                \/ (d = c /\ queue[c][1].query # "all" /\ queue[c][1].key = k)
<1> TAKE k \in Keys, d \in Conns
<1>1. /\ d # c => qs[d] = queue[d]
      /\ \A i \in DOMAIN qs[c] : i + 1 \in DOMAIN queue[c] /\ qs[c][i] = queue[c][i + 1]
      /\ \A i \in DOMAIN queue[c] :
           i # 1 => i - 1 \in DOMAIN qs[c] /\ qs[c][i - 1] = queue[c][i]
  BY AnsweredFacts
<1> QED
  BY <1>1 DEF Touches, Operates

LEMMA OperatesTouches ==
  ASSUME NEW qs, NEW k \in Keys, NEW c \in Conns, Operates(qs, k, c)
  PROVE  Touches(qs, k, c)
  BY DEF Operates, Touches, Touched

\* the first query of a connection is one of those that wait
LEMMA HeadTouches ==
  ASSUME queue \in Queues, NEW c \in Conns, queue[c] # <<>>
  PROVE  /\ \A k \in Touched(queue[c][1]) : k \in Keys /\ Touches(queue, k, c)
         /\ queue[c][1].query # "all" =>
              queue[c][1].key \in Keys /\ Operates(queue, queue[c][1].key, c)
<1>1. 1 \in DOMAIN queue[c] /\ queue[c][1] \in Query
  BY AnsweredFacts
<1> QED
  BY <1>1, QueryFields DEF Touches, Operates, Touched

-----------------------------------------------------------------------------
(* What sending and answering keep. *)

LEMMA SendTogether ==
  ASSUME NEW qs \in Queues, NEW d \in Conns, NEW q \in Query, Send(qs, d, q),
         crossed \subseteq Keys, Together(qs, crossed)
  PROVE  Together(queue', crossed')
<1> SUFFICES ASSUME NEW k \in Keys, NEW c \in Conns, NEW e \in Conns, k \notin crossed', c # e,
                    Operates(queue', k, c), Touches(queue', k, e)
             PROVE  FALSE
  BY DEF Together
<1>1. \A x \in Keys, y \in Conns :
        /\ Touches(queue', x, y) <=> Touches(qs, x, y) \/ (y = d /\ x \in Touched(q))
        /\ Operates(queue', x, y) <=>
             Operates(qs, x, y) \/ (y = d /\ q.query # "all" /\ q.key = x)
  <2>1. queue' = After(qs, d, q)
    BY DEF Send, After
  <2> QED
    BY <2>1, TouchesSent
<1>2. /\ Operates(qs, k, c) \/ (c = d /\ q.query # "all" /\ q.key = k)
      /\ Touches(qs, k, e) \/ (e = d /\ k \in Touched(q))
  BY <1>1
<1>3. k \notin CrossedBy(qs, d, q) /\ (k \notin crossed \/ k \in Settled(qs, q))
  BY DEF Send
<1>4. CASE k \in Settled(qs, q)
  BY <1>2, <1>4, OperatesTouches DEF Settled
<1>5. CASE k \notin crossed
  <2>1. CASE Operates(qs, k, c) /\ Touches(qs, k, e)
    BY <1>5, <2>1 DEF Together
  <2>2. CASE c = d /\ q.query # "all" /\ q.key = k /\ Touches(qs, k, e)
    BY <1>3, <2>2 DEF CrossedBy, Touched
  <2>3. CASE Operates(qs, k, c) /\ e = d /\ k \in Touched(q)
    BY <1>3, <2>3, OperatesTouches DEF CrossedBy
  <2> QED
    BY <1>2, <2>1, <2>2, <2>3
<1> QED
  BY <1>3, <1>4, <1>5

LEMMA AnsweredTogether ==
  ASSUME queue \in Queues, NEW c \in Conns, queue[c] # <<>>, Together(queue, crossed)
  PROVE  Together(Answered(c), crossed)
  BY TouchesLeft DEF Together

\* what an answered query leaves behind is still in order
LEMMA AnsweredOrder ==
  ASSUME queue \in Queues, NEW c \in Conns, queue[c] # <<>>, NEW qs, qs = Answered(c),
         ReplaceInv(queue), DeleteInv(queue), OrderInv(queue)
  PROVE  ReplaceInv(qs) /\ DeleteInv(qs) /\ OrderInv(qs)
<1>1. /\ \A d \in Conns : d # c => qs[d] = queue[d]
      /\ \A i \in DOMAIN qs[c] :
           i \in Nat /\ i + 1 \in DOMAIN queue[c] /\ qs[c][i] = queue[c][i + 1]
  BY AnsweredFacts
<1>2. ReplaceInv(qs)
  BY <1>1 DEF ReplaceInv
<1>3. DeleteInv(qs)
  BY <1>1 DEF DeleteInv
<1>4. OrderInv(qs)
  <2> SUFFICES ASSUME NEW d \in Conns, NEW i \in DOMAIN qs[d], NEW j \in DOMAIN qs[d], i < j,
                      qs[d][i].query = "delete", qs[d][j].query = "replace",
                      qs[d][i].key = qs[d][j].key
               PROVE  qs[d][j].token >= qs[d][i].before
    BY DEF OrderInv
  <2>1. CASE d # c
    BY <1>1, <2>1 DEF OrderInv
  <2>2. CASE d = c
    <3>1. /\ i + 1 \in DOMAIN queue[c] /\ j + 1 \in DOMAIN queue[c] /\ i + 1 < j + 1
          /\ qs[c][i] = queue[c][i + 1] /\ qs[c][j] = queue[c][j + 1]
      BY <1>1, <2>2
    <3> QED
      BY <2>2, <3>1 DEF OrderInv
  <2> QED
    BY <2>1, <2>2
<1> QED
  BY <1>2, <1>3, <1>4

\* so is what a new query finds: a login stores a new token, a logout revokes all
LEMMA SendOrder ==
  ASSUME NEW qs \in Queues, NEW d \in Conns, NEW q \in Query, Send(qs, d, q),
         TypeOK, Minted, ReplaceInv(qs), DeleteInv(qs), OrderInv(qs),
         revokedBelow' = revokedBelow, nextToken' \in Nat, nextToken <= nextToken',
         q.query = "replace" => q.token = nextToken /\ nextToken' = nextToken + 1,
         q.query = "delete" => q.before = nextToken
  PROVE  ReplaceInv(queue)' /\ DeleteInv(queue)' /\ OrderInv(queue)'
<1> DEFINE n == Len(qs[d]) + 1
<1>1. /\ queue' \in Queues /\ n \in Nat /\ queue'[d][n] = q
      /\ \A c \in Conns : \A i \in DOMAIN qs[c] :
           i \in DOMAIN queue'[c] /\ queue'[c][i] = qs[c][i] /\ qs[c][i] \in Query
      /\ \A c \in Conns : \A i \in DOMAIN queue'[c] : i \in DOMAIN qs[c] \/ (c = d /\ i = n)
      /\ \A i \in DOMAIN qs[d] : i \in Nat /\ i < n
  <2>1. queue' = After(qs, d, q)
    BY DEF Send, After
  <2>2. \A c \in Conns : \A i \in DOMAIN qs[c] : qs[c][i] \in Query
    BY DEF Queues
  <2>3. /\ queue' \in Queues /\ Len(qs[d]) \in Nat /\ DOMAIN qs[d] = 1..Len(qs[d])
        /\ queue'[d][Len(qs[d]) + 1] = q
        /\ \A c \in Conns : \A i \in DOMAIN qs[c] : i \in DOMAIN queue'[c] /\ queue'[c][i] = qs[c][i]
        /\ \A c \in Conns : \A i \in DOMAIN queue'[c] :
             i \in DOMAIN qs[c] \/ (c = d /\ i = Len(qs[d]) + 1)
    BY <2>1, SentFacts
  <2>4. \A i \in DOMAIN qs[d] : i \in Nat /\ i < n
    BY <2>3
  <2> QED
    BY <2>2, <2>3, <2>4
<1> HIDE DEF n
<1>2. nextToken \in Nat /\ \A k \in Keys : revokedBelow[k] \in Nat /\ revokedBelow[k] <= nextToken
  BY DEF TypeOK, Minted
<1>3. q.query # "all" => q.key \in Keys
  BY QueryFields
<1>4. ReplaceInv(queue)'
  <2> SUFFICES ASSUME NEW c \in Conns, NEW i \in DOMAIN queue'[c], queue'[c][i].query = "replace"
               PROVE  queue'[c][i].token \in revokedBelow[queue'[c][i].key]..(nextToken' - 1)
    BY DEF ReplaceInv
  <2>1. CASE i \in DOMAIN qs[c]
    <3>1. queue'[c][i] = qs[c][i] /\ qs[c][i] \in Query
      BY <1>1, <2>1
    <3>2. qs[c][i].token \in revokedBelow[qs[c][i].key]..(nextToken - 1)
      BY <2>1, <3>1 DEF ReplaceInv
    <3>3. qs[c][i].key \in Keys
      BY <3>1, QueryFields
    <3> QED
      BY <1>2, <3>1, <3>2, <3>3
  <2>2. CASE c = d /\ i = n
    BY <1>1, <1>2, <1>3, <2>2
  <2> QED
    BY <1>1, <2>1, <2>2
<1>5. DeleteInv(queue)'
  <2> SUFFICES ASSUME NEW c \in Conns, NEW i \in DOMAIN queue'[c], queue'[c][i].query = "delete"
               PROVE  queue'[c][i].before \in 0..nextToken'
    BY DEF DeleteInv
  <2>1. CASE i \in DOMAIN qs[c]
    <3>1. qs[c][i].before \in 0..nextToken
      BY <1>1, <2>1 DEF DeleteInv
    <3> QED
      BY <1>1, <1>2, <2>1, <3>1
  <2>2. CASE c = d /\ i = n
    BY <1>1, <1>2, <2>2
  <2> QED
    BY <1>1, <2>1, <2>2
<1>6. OrderInv(queue)'
  <2> SUFFICES ASSUME NEW c \in Conns, NEW i \in DOMAIN queue'[c], NEW j \in DOMAIN queue'[c],
                      i < j, queue'[c][i].query = "delete", queue'[c][j].query = "replace",
                      queue'[c][i].key = queue'[c][j].key
               PROVE  queue'[c][j].token >= queue'[c][i].before
    BY DEF OrderInv
  <2>1. CASE i \in DOMAIN qs[c] /\ j \in DOMAIN qs[c]
    BY <1>1, <2>1 DEF OrderInv
  <2>2. CASE i \in DOMAIN qs[c] /\ c = d /\ j = n
    <3>1. qs[c][i].before \in 0..nextToken
      BY <1>1, <2>2 DEF DeleteInv
    <3> QED
      BY <1>1, <1>2, <2>2, <3>1
  <2>3. CASE c = d /\ i = n
    <3>1. j \in DOMAIN qs[d] => j < i
      BY <1>1, <2>3
    <3>2. j \in DOMAIN qs[d] \/ j = n
      BY <1>1, <2>3
    <3>3. CASE j \in DOMAIN qs[d]
      <4>1. j \in Nat
        BY <1>1, <3>3
      <4> QED
        BY <1>1, <2>3, <3>1, <3>3, <4>1
    <3> QED
      BY <1>1, <2>3, <3>2, <3>3
  <2> QED
    BY <1>1, <2>1, <2>2, <2>3
<1> QED
  BY <1>4, <1>5, <1>6

-----------------------------------------------------------------------------
LEMMA InitHolds == Init => IInv
<1> SUFFICES ASSUME Init PROVE IInv
  OBVIOUS
<1>1. /\ 1 \in Conns /\ queue = Started /\ answer = Silent /\ crossed = {} /\ lost = {}
      /\ table = Cleared /\ persistentTokens = Cleared
  BY BoundsAreNaturals DEF Init, Conns
<1>2. SelectAll \in Query /\ SelectAll.query = "all"
  BY DEF Query, SelectAll
<1>3. queue \in Queues
  BY <1>1, <1>2 DEF Queues, Started
<1>4. \A c \in Conns : \A i \in DOMAIN queue[c] : queue[c][i].query = "all"
  BY <1>1, <1>2 DEF Started
<1>5. \A k \in Keys, c \in Conns : ~Operates(queue, k, c)
  BY <1>4 DEF Operates
<1>6. TypeOK
  BY <1>1, <1>3 DEF Init, TypeOK, Queues, Cleared, Silent
<1>7. Together(queue, crossed)
  BY <1>5 DEF Together
<1>8. AnswerInv
  BY <1>1 DEF AnswerInv, Silent
<1>9. SelectInv
  BY <1>4 DEF SelectInv
<1>10. CacheInv
  BY <1>1 DEF CacheInv, Agree, Cleared
<1>11. RevokeInv
  <2>1. Minted /\ HeldInv /\ StoredInv
    BY <1>1, EntriesDistinct DEF Init, Minted, HeldInv, StoredInv, Cleared
  <2>2. OnTheWayInv
    BY <1>1 DEF OnTheWayInv, Silent
  <2>3. ReplaceInv(queue) /\ DeleteInv(queue) /\ OrderInv(queue)
    BY <1>4 DEF ReplaceInv, DeleteInv, OrderInv
  <2> QED
    BY <2>1, <2>2, <2>3 DEF RevokeInv
<1> QED
  BY <1>6, <1>7, <1>8, <1>9, <1>10, <1>11 DEF IInv

-----------------------------------------------------------------------------
(* One lemma per action: it preserves the inductive invariant.             *)

LEMMA Facts ==
  ASSUME IInv
  PROVE  /\ TypeOK /\ Together(queue, crossed) /\ AnswerInv /\ SelectInv /\ CacheInv
         /\ Minted /\ HeldInv /\ StoredInv /\ OnTheWayInv
         /\ ReplaceInv(queue) /\ DeleteInv(queue) /\ OrderInv(queue)
         /\ queue \in Queues /\ nextToken \in Nat /\ crossed \subseteq Keys
  BY DEF IInv, RevokeInv, TypeOK, Queues

\* a new operation leaves the answers and the read-backs on their way as they are
LEMMA SendKeeps ==
  ASSUME IInv, NEW d \in Conns, NEW q \in Query, Send(queue, d, q), q.query # "select",
         UNCHANGED <<table, answer>>
  PROVE  /\ queue' \in Queues
         /\ crossed' \subseteq Keys
         /\ Together(queue', crossed') /\ AnswerInv' /\ SelectInv'
<1>1. /\ TypeOK /\ Together(queue, crossed) /\ AnswerInv /\ SelectInv
      /\ queue \in Queues /\ crossed \subseteq Keys
  BY Facts
<1>2. queue' = After(queue, d, q)
  BY DEF Send, After
<1>3. /\ queue' \in Queues
      /\ \A c \in Conns : \A i \in DOMAIN queue[c] : i \in DOMAIN queue'[c] /\ queue'[c][i] = queue[c][i]
      /\ queue'[d][Len(queue[d]) + 1] = q
      /\ \A c \in Conns : \A i \in DOMAIN queue'[c] :
           i \in DOMAIN queue[c] \/ (c = d /\ i = Len(queue[d]) + 1)
  BY <1>1, <1>2, SentFacts
<1>4. \A k \in Keys : k \notin crossed' =>
        k \notin crossed \/ \A c \in Conns : ~Touches(queue, k, c)
  BY DEF Send, Settled
<1>5. crossed' \subseteq Keys
  <2>1. Touched(q) \subseteq Keys
    BY QueryFields DEF Touched
  <2> QED
    BY <1>1, <2>1 DEF Send, CrossedBy
<1>6. Together(queue', crossed')
  BY <1>1, SendTogether
<1>7. AnswerInv'
  <2> SUFFICES ASSUME NEW c \in Conns, answer[c] # NoAnswer
               PROVE  /\ queue'[c] # <<>>
                      /\ \A k \in Touched(queue'[c][1]) : k \notin crossed' => answer[c][k] = table[k]
                      /\ \A k \in Keys \ Touched(queue'[c][1]) : answer[c][k] = NoEntry
                      /\ queue'[c][1].query = "replace" => answer[c][queue'[c][1].key] \in Row
                      /\ queue'[c][1].query = "delete" => answer[c][queue'[c][1].key] = NoEntry
    BY DEF AnswerInv
  <2>1. queue[c] # <<>>
    BY <1>1 DEF AnswerInv
  <2>2. 1 \in DOMAIN queue[c]
    BY <1>1, <2>1, AnsweredFacts
  <2>3. 1 \in DOMAIN queue'[c] /\ queue'[c][1] = queue[c][1]
    BY <1>3, <2>2
  <2>4. queue'[c] # <<>>
    BY <2>3
  <2>5. \A k \in Touched(queue[c][1]) : k \in Keys /\ Touches(queue, k, c)
    BY <1>1, <2>1, HeadTouches
  <2> QED
    BY <1>1, <1>4, <2>3, <2>4, <2>5 DEF AnswerInv
<1>8. SelectInv'
  <2> SUFFICES ASSUME NEW c \in Conns, NEW i \in DOMAIN queue'[c], NEW k, k = queue'[c][i].key,
                      queue'[c][i].query = "select", k \notin crossed', table[k] # NoEntry
               PROVE  \/ table[k].id = queue'[c][i].id
                      \/ \E j \in DOMAIN queue'[c] : i < j /\ About(k, c, j)'
                      \/ answer[c] # NoAnswer /\ queue'[c][1].query = "replace" /\ queue'[c][1].key = k
    BY DEF SelectInv, About
  <2>1. i \in DOMAIN queue[c] /\ queue'[c][i] = queue[c][i]
    BY <1>3
  <2>2. queue[c][i] \in Query /\ k \in Keys /\ Touches(queue, k, c)
    <3>1. queue[c][i] \in Query
      BY <1>1, <2>1 DEF Queues
    <3> QED
      BY <2>1, <3>1, QueryFields DEF Touches, Touched
  <2>3. k \notin crossed
    BY <1>4, <2>2
  <2>4. \/ table[k].id = queue[c][i].id
        \/ \E j \in DOMAIN queue[c] : i < j /\ About(k, c, j)
        \/ answer[c] # NoAnswer /\ queue[c][1].query = "replace" /\ queue[c][1].key = k
    BY <1>1, <2>1, <2>3 DEF SelectInv
  <2>5. ASSUME NEW j \in DOMAIN queue[c], i < j, About(k, c, j)
        PROVE  j \in DOMAIN queue'[c] /\ About(k, c, j)'
    BY <1>3, <2>5 DEF About
  <2>6. answer[c] # NoAnswer => queue'[c][1] = queue[c][1]
    <3>1. answer[c] # NoAnswer => 1 \in DOMAIN queue[c]
      BY <1>1, AnsweredFacts DEF AnswerInv
    <3> QED
      BY <1>3, <3>1
  <2> QED
    BY <2>1, <2>4, <2>5, <2>6
<1> QED
  BY <1>3, <1>5, <1>6, <1>7, <1>8

\* while the Map stays, the key of the new operation is going to be read again
LEMMA SendCached ==
  ASSUME IInv, NEW d \in Conns, NEW q \in Query, Send(queue, d, q),
         q.query \notin {"select", "all"},
         UNCHANGED <<table, persistentTokens, lost, unread>>
  PROVE  CacheInv'
<1>1. CacheInv /\ queue \in Queues
  BY Facts
<1>2. \A k \in Keys, c \in Conns :
        /\ Touches(queue, k, c) => Touches(queue', k, c)
        /\ Operates(queue, k, c) => Operates(queue', k, c)
  <2>1. queue' = After(queue, d, q)
    BY DEF Send, After
  <2> QED
    BY <1>1, <2>1, TouchesSent
<1>3. q.key \in Keys /\ Operates(queue', q.key, d)
  <2>1. queue' = After(queue, d, q)
    BY DEF Send, After
  <2>2. q.key \in Keys
    BY QueryFields
  <2> QED
    BY <1>1, <2>1, <2>2, TouchesSent
<1>4. \A k \in Keys : k \notin crossed' => k \notin crossed \/ k = q.key
  BY DEF Send, Settled, Touched
<1> QED
  BY <1>1, <1>2, <1>3, <1>4 DEF CacheInv, Agree

LEMMA NewPersistentTokenStep ==
  ASSUME IInv, NEW k \in Keys, NewPersistentToken(k)
  PROVE  IInv'
<1> DEFINE q == Replace(k, nextToken)
<1>1. /\ TypeOK /\ Minted /\ HeldInv /\ StoredInv /\ OnTheWayInv
      /\ ReplaceInv(queue) /\ DeleteInv(queue) /\ OrderInv(queue)
      /\ queue \in Queues /\ nextToken \in Nat
  BY Facts
<1>2. q \in Query /\ current \in Conns /\ q.query = "replace" /\ q.token = nextToken
  BY <1>1, QueryKinds DEF TypeOK, Replace
<1>3. /\ Send(queue, current, q) /\ nextToken' = nextToken + 1 /\ revokedBelow' = revokedBelow
      /\ UNCHANGED <<table, answer, persistentTokens, lost, unread>>
  BY DEF NewPersistentToken, mapVars
<1> HIDE DEF q
<1>4. /\ queue' \in Queues /\ crossed' \subseteq Keys
      /\ Together(queue', crossed') /\ AnswerInv' /\ SelectInv'
  BY <1>2, <1>3, SendKeeps
<1>5. CacheInv'
  BY <1>2, <1>3, SendCached
<1>6. TypeOK'
  BY <1>1, <1>3, <1>4 DEF TypeOK, Queues, NewPersistentToken, mapVars
<1>7. ReplaceInv(queue)' /\ DeleteInv(queue)' /\ OrderInv(queue)'
  BY <1>1, <1>2, <1>3, SendOrder
<1>8. Minted' /\ HeldInv' /\ StoredInv' /\ OnTheWayInv'
  BY <1>1, <1>3 DEF TypeOK, Minted, HeldInv, StoredInv, OnTheWayInv
<1> QED
  BY <1>4, <1>5, <1>6, <1>7, <1>8 DEF IInv, RevokeInv

LEMMA RemovePersistentTokenStep ==
  ASSUME IInv, NEW k \in Keys, RemovePersistentToken(k)
  PROVE  IInv'
<1> DEFINE q == Delete(k, nextToken)
<1>1. /\ TypeOK /\ Minted /\ HeldInv /\ StoredInv /\ OnTheWayInv
      /\ ReplaceInv(queue) /\ DeleteInv(queue) /\ OrderInv(queue)
      /\ queue \in Queues /\ nextToken \in Nat
  BY Facts
<1>2. q \in Query /\ current \in Conns /\ q.query = "delete" /\ q.before = nextToken
  BY <1>1, QueryKinds DEF TypeOK, Delete
<1>3. /\ Send(queue, current, q) /\ nextToken' = nextToken /\ revokedBelow' = revokedBelow
      /\ UNCHANGED <<table, answer, persistentTokens, lost, unread>>
  BY DEF RemovePersistentToken, mapVars
<1> HIDE DEF q
<1>4. /\ queue' \in Queues /\ crossed' \subseteq Keys
      /\ Together(queue', crossed') /\ AnswerInv' /\ SelectInv'
  BY <1>2, <1>3, SendKeeps
<1>5. CacheInv'
  BY <1>2, <1>3, SendCached
<1>6. TypeOK'
  BY <1>1, <1>3, <1>4 DEF TypeOK, Queues, RemovePersistentToken, mapVars
<1>7. ReplaceInv(queue)' /\ DeleteInv(queue)' /\ OrderInv(queue)'
  BY <1>1, <1>2, <1>3, SendOrder
<1>8. Minted' /\ HeldInv' /\ StoredInv' /\ OnTheWayInv'
  BY <1>1, <1>3 DEF TypeOK, Minted, HeldInv, StoredInv, OnTheWayInv
<1> QED
  BY <1>4, <1>5, <1>6, <1>7, <1>8 DEF IInv, RevokeInv

LEMMA OpenedType == ASSUME TypeOK, Opened PROVE current' \in Conns
  BY BoundsAreNaturals DEF TypeOK, Opened, Conns

LEMMA ReloadStep == IInv /\ Reload => IInv'
<1> SUFFICES ASSUME IInv, Reload PROVE IInv'
  OBVIOUS
<1>1. /\ TypeOK /\ Minted /\ HeldInv /\ StoredInv /\ OnTheWayInv
      /\ ReplaceInv(queue) /\ DeleteInv(queue) /\ OrderInv(queue)
      /\ queue \in Queues /\ nextToken \in Nat
  BY Facts
<1>2. /\ SelectAll \in Query /\ SelectAll.query = "all" /\ Touched(SelectAll) = Keys
      /\ current' \in Conns
  BY <1>1, OpenedType DEF Reload, SelectAll, Query, Touched
<1>3. /\ Send(queue, current', SelectAll) /\ nextToken' = nextToken
      /\ revokedBelow' = revokedBelow /\ persistentTokens' = Cleared
      /\ UNCHANGED <<table, answer>>
  BY DEF Reload
<1>4. /\ queue' \in Queues /\ crossed' \subseteq Keys
      /\ Together(queue', crossed') /\ AnswerInv' /\ SelectInv'
  BY <1>2, <1>3, SendKeeps
<1>5. CacheInv'
  <2>1. queue' = After(queue, current', SelectAll)
    BY <1>3 DEF Send, After
  <2>2. \A k \in Keys : Touches(queue', k, current')
    BY <1>1, <1>2, <2>1, TouchesSent
  <2> QED
    BY <1>2, <1>3, <2>2 DEF CacheInv, Cleared
<1>6. TypeOK'
  BY <1>1, <1>2, <1>3, <1>4 DEF TypeOK, Queues, Reload, Cleared
<1>7. ReplaceInv(queue)' /\ DeleteInv(queue)' /\ OrderInv(queue)'
  BY <1>1, <1>2, <1>3, SendOrder
<1>8. Minted' /\ HeldInv' /\ StoredInv' /\ OnTheWayInv'
  BY <1>1, <1>3, EntriesDistinct DEF TypeOK, Minted, HeldInv, StoredInv, OnTheWayInv, Cleared
<1> QED
  BY <1>4, <1>5, <1>6, <1>7, <1>8 DEF IInv, RevokeInv

LEMMA ReloadBrokenStep == IInv /\ ReloadBroken => IInv'
<1> SUFFICES ASSUME IInv, ReloadBroken PROVE IInv'
  OBVIOUS
<1>1. /\ TypeOK /\ Together(queue, crossed) /\ AnswerInv /\ SelectInv
      /\ Minted /\ HeldInv /\ StoredInv /\ OnTheWayInv
      /\ ReplaceInv(queue) /\ DeleteInv(queue) /\ OrderInv(queue)
  BY Facts
<1>2. /\ persistentTokens' = Cleared /\ unread' = TRUE /\ current' \in Conns
      /\ UNCHANGED <<table, nextId, queue, answer, nextToken, revokedBelow, crossed>>
  BY <1>1, OpenedType DEF ReloadBroken
<1>3. TypeOK'
  BY <1>1, <1>2 DEF TypeOK, ReloadBroken, Cleared
<1>4. Together(queue', crossed') /\ AnswerInv' /\ SelectInv'
  BY <1>1, <1>2 DEF AnswerInv, SelectInv, About
<1>5. CacheInv'
  BY <1>2 DEF CacheInv, Cleared
<1>6. RevokeInv'
  BY <1>1, <1>2, EntriesDistinct
  DEF RevokeInv, Minted, HeldInv, StoredInv, OnTheWayInv, ReplaceInv, DeleteInv, OrderInv, Cleared
<1> QED
  BY <1>3, <1>4, <1>5, <1>6 DEF IInv

\* what one query does to the table, whatever its kind
LEMMA RunFacts ==
  ASSUME IInv, NEW c \in Conns, Run(c)
  PROVE  LET q == queue[c][1]
         IN  /\ queue[c] # <<>> /\ answer[c] = NoAnswer /\ q \in Query
             /\ \A k \in Keys : (q.query \in {"replace", "delete"} => k # q.key) => table'[k] = table[k]
             /\ q.query = "replace" => /\ table'[q.key] \in Row
                                       /\ table'[q.key].token = q.token
             /\ q.query = "delete" => table'[q.key] = NoEntry
             /\ table' \in [Keys -> Row \cup {NoEntry}] /\ nextId' \in Nat
             /\ answer' = [answer EXCEPT ![c] =
                             [k \in Keys |-> IF k \in Touched(q) THEN table'[k] ELSE NoEntry]]
             /\ UNCHANGED <<persistentTokens, current, open, queue, unread, nextToken,
                            revokedBelow, lost, crossed>>
<1> DEFINE q == queue[c][1]
<1>1. TypeOK /\ queue \in Queues
  BY Facts
<1>2. queue[c] # <<>> /\ answer[c] = NoAnswer
  BY DEF Run, RunReplace, RunDelete, RunSelects, Ready
<1>3. q \in Query /\ Head(queue[c]) = q
  BY <1>1, <1>2, AnsweredFacts
<1>4. /\ q.query = "replace" => q.key \in Keys /\ q.token \in Nat
      /\ q.query = "delete" => q.key \in Keys
  BY <1>3, QueryFields
<1>5. table \in [Keys -> Row \cup {NoEntry}] /\ nextId \in Nat
  BY <1>1 DEF TypeOK
<1> HIDE DEF q
<1>6. CASE RunReplace(c)
  <2>1. q.query = "replace" /\ nextId' = nextId + 1
    BY <1>3, <1>6 DEF RunReplace
  <2>2. Ran(c, q, [table EXCEPT ![q.key] = [id |-> nextId, token |-> q.token]])
    BY <1>3, <1>6 DEF RunReplace
  <2>3. [id |-> nextId, token |-> q.token] \in Row
    BY <1>4, <1>5, <2>1 DEF Row
  <2> QED
    BY <1>2, <1>3, <1>4, <1>5, <2>1, <2>2, <2>3 DEF Ran, q
<1>7. CASE RunDelete(c)
  <2>1. q.query = "delete" /\ nextId' = nextId /\ Ran(c, q, [table EXCEPT ![q.key] = NoEntry])
    BY <1>3, <1>7 DEF RunDelete
  <2> QED
    BY <1>2, <1>3, <1>4, <1>5, <2>1 DEF Ran, q
<1>8. CASE RunSelects(c)
  <2>1. q.query \in {"select", "all"} /\ nextId' = nextId /\ Ran(c, q, table)
    BY <1>3, <1>8 DEF RunSelects
  <2> QED
    BY <1>2, <1>3, <1>5, <2>1 DEF Ran, q
<1> QED
  BY <1>6, <1>7, <1>8 DEF Run

LEMMA RunStep ==
  ASSUME IInv, NEW c \in Conns, Run(c)
  PROVE  IInv'
<1> DEFINE q == queue[c][1]
<1>1. /\ TypeOK /\ Together(queue, crossed) /\ AnswerInv /\ SelectInv /\ CacheInv
      /\ Minted /\ HeldInv /\ StoredInv /\ OnTheWayInv
      /\ ReplaceInv(queue) /\ DeleteInv(queue) /\ OrderInv(queue)
      /\ queue \in Queues
  BY Facts
<1>2. /\ queue[c] # <<>> /\ answer[c] = NoAnswer /\ q \in Query
      /\ \A k \in Keys : (q.query \in {"replace", "delete"} => k # q.key) => table'[k] = table[k]
      /\ q.query = "replace" => table'[q.key] \in Row /\ table'[q.key].token = q.token
      /\ q.query = "delete" => table'[q.key] = NoEntry
      /\ table' \in [Keys -> Row \cup {NoEntry}] /\ nextId' \in Nat
      /\ answer' = [answer EXCEPT ![c] =
                      [k \in Keys |-> IF k \in Touched(q) THEN table'[k] ELSE NoEntry]]
      /\ UNCHANGED <<persistentTokens, current, open, queue, unread, nextToken,
                     revokedBelow, lost, crossed>>
  BY RunFacts
<1>3. /\ q.query # "all" => q.key \in Keys /\ Operates(queue, q.key, c)
      /\ \A k \in Touched(q) : k \in Keys
      /\ q.query # "all" => Touched(q) = {q.key}
      /\ 1 \in DOMAIN queue[c] /\ \A i \in DOMAIN queue[c] : i \in Nat /\ i >= 1
      /\ q.query = "replace" => q.token \in revokedBelow[q.key]..(nextToken - 1) /\ q.token \in Nat
  <2>1. 1 \in DOMAIN queue[c] /\ \A i \in DOMAIN queue[c] : i \in Nat /\ i >= 1
    BY <1>1, <1>2, AnsweredFacts
  <2>2. q.query # "all" => q.key \in Keys /\ Operates(queue, q.key, c)
    BY <1>1, <1>2, HeadTouches
  <2>3. \A k \in Touched(q) : k \in Keys
    BY <1>1, <1>2, HeadTouches
  <2>4. q.query = "replace" => q.token \in revokedBelow[q.key]..(nextToken - 1)
    BY <1>1, <2>1 DEF ReplaceInv
  <2>5. q.query = "replace" => q.token \in Nat
    BY <1>2, QueryFields
  <2> QED
    BY <2>1, <2>2, <2>3, <2>4, <2>5 DEF Touched
<1>4. /\ \A d \in Conns : d # c => answer'[d] = answer[d]
      /\ \A k \in Touched(q) : answer'[c][k] = table'[k]
      /\ \A k \in Keys \ Touched(q) : answer'[c][k] = NoEntry
      /\ answer' \in [Conns -> Answers \cup {NoAnswer}] /\ answer'[c] # NoAnswer
  <2> DEFINE new == [k \in Keys |-> IF k \in Touched(q) THEN table'[k] ELSE NoEntry]
  <2>1. new \in Answers
    BY <1>2 DEF Answers
  <2>2. answer \in [Conns -> Answers \cup {NoAnswer}] /\ answer' = [answer EXCEPT ![c] = new]
    BY <1>1, <1>2 DEF TypeOK
  <2>3. /\ \A k \in Touched(q) : new[k] = table'[k]
        /\ \A k \in Keys \ Touched(q) : new[k] = NoEntry
    BY <1>3
  <2> HIDE DEF new
  <2> QED
    BY <2>1, <2>2, <2>3, EntriesDistinct
<1> HIDE DEF q
<1>5. TypeOK'
  BY <1>1, <1>2, <1>4 DEF TypeOK
<1>6. Together(queue', crossed')
  BY <1>1, <1>2
<1>7. AnswerInv'
  <2> SUFFICES ASSUME NEW d \in Conns, answer'[d] # NoAnswer
               PROVE  /\ queue[d] # <<>>
                      /\ \A k \in Touched(queue[d][1]) : k \notin crossed => answer'[d][k] = table'[k]
                      /\ \A k \in Keys \ Touched(queue[d][1]) : answer'[d][k] = NoEntry
                      /\ queue[d][1].query = "replace" => answer'[d][queue[d][1].key] \in Row
                      /\ queue[d][1].query = "delete" => answer'[d][queue[d][1].key] = NoEntry
    BY <1>2 DEF AnswerInv
  <2>1. CASE d = c
    BY <1>2, <1>3, <1>4, <2>1 DEF q
  <2>2. CASE d # c
    <3>1. answer'[d] = answer[d] /\ queue[d] # <<>>
      BY <1>1, <1>4, <2>2 DEF AnswerInv
    <3>2. \A k \in Touched(queue[d][1]) : k \in Keys /\ Touches(queue, k, d)
      BY <1>1, <3>1, HeadTouches
    <3>3. \A k \in Touched(queue[d][1]) : k \notin crossed => table'[k] = table[k]
      BY <1>1, <1>2, <1>3, <2>2, <3>2 DEF Together
    <3> QED
      BY <1>1, <3>1, <3>3 DEF AnswerInv
  <2> QED
    BY <2>1, <2>2
<1>8. SelectInv'
  <2> SUFFICES ASSUME NEW d \in Conns, NEW i \in DOMAIN queue[d], NEW k, k = queue[d][i].key,
                      queue[d][i].query = "select", k \notin crossed, table'[k] # NoEntry
               PROVE  \/ table'[k].id = queue[d][i].id
                      \/ \E j \in DOMAIN queue[d] : i < j /\ About(k, d, j)
                      \/ answer'[d] # NoAnswer /\ queue[d][1].query = "replace" /\ queue[d][1].key = k
    BY <1>2 DEF SelectInv, About
  <2>1. queue[d][i] \in Query /\ k \in Keys /\ Touches(queue, k, d)
    <3>1. queue[d][i] \in Query
      BY <1>1 DEF Queues
    <3> QED
      BY <3>1, QueryFields DEF Touches, Touched
  <2>2. CASE q.query \in {"replace", "delete"} /\ k = q.key
    <3>1. d = c
      BY <1>1, <1>3, <2>1, <2>2 DEF Together
    <3> QED
      BY <1>2, <1>4, <2>2, <3>1 DEF q
  <2>3. CASE ~(q.query \in {"replace", "delete"} /\ k = q.key)
    <3>1. table'[k] = table[k]
      BY <1>2, <2>1, <2>3
    <3>2. \/ table[k].id = queue[d][i].id
          \/ \E j \in DOMAIN queue[d] : i < j /\ About(k, d, j)
          \/ answer[d] # NoAnswer /\ queue[d][1].query = "replace" /\ queue[d][1].key = k
      BY <1>1, <3>1 DEF SelectInv
    <3> QED
      BY <1>4, <3>1, <3>2
  <2> QED
    BY <2>2, <2>3
<1>9. CacheInv'
  <2>1. \A k \in Keys : Operates(queue, k, c) \/ table'[k] = table[k]
    BY <1>2, <1>3
  <2> QED
    BY <1>1, <1>2, <2>1 DEF CacheInv, Agree
<1>10. RevokeInv'
  <2>1. Minted' /\ HeldInv' /\ ReplaceInv(queue)' /\ DeleteInv(queue)' /\ OrderInv(queue)'
    BY <1>1, <1>2 DEF Minted, HeldInv, ReplaceInv, DeleteInv, OrderInv
  <2>2. StoredInv'
    <3> SUFFICES ASSUME NEW k \in Keys, table'[k] \in Row
                 PROVE  table'[k].token >= revokedBelow[k]
      BY <1>2 DEF StoredInv
    <3>1. CASE table'[k] = table[k]
      BY <1>1, <3>1 DEF StoredInv
    <3>2. CASE q.query = "replace" /\ k = q.key
      <4>1. revokedBelow[k] \in Nat /\ nextToken \in Nat
        BY <1>1 DEF TypeOK
      <4> QED
        BY <1>2, <1>3, <3>2, <4>1
    <3>3. CASE q.query = "delete" /\ k = q.key
      BY <1>2, <3>3, EntriesDistinct
    <3> QED
      BY <1>2, <3>1, <3>2, <3>3
  <2>3. OnTheWayInv'
    <3> SUFFICES ASSUME NEW d \in Conns, NEW k \in Keys, answer'[d] # NoAnswer, answer'[d][k] \in Row
                 PROVE  answer'[d][k].token >= revokedBelow[k]
      BY <1>2 DEF OnTheWayInv
    <3>1. CASE d # c
      BY <1>1, <1>4, <3>1 DEF OnTheWayInv
    <3>2. CASE d = c
      <4>1. answer'[c][k] = table'[k]
        BY <1>4, <3>2, EntriesDistinct
      <4> QED
        BY <1>2, <2>2, <3>2, <4>1 DEF StoredInv
    <3> QED
      BY <3>1, <3>2
  <2> QED
    BY <2>1, <2>2, <2>3 DEF RevokeInv
<1> QED
  BY <1>5, <1>6, <1>7, <1>8, <1>9, <1>10 DEF IInv

\* an answer taken off c leaves the others, and what still waits
LEMMA AnsweredKeeps ==
  ASSUME IInv, NEW c \in Conns, queue[c] # <<>>, queue[c][1].query # "replace",
         queue' = Answered(c), answer' = [answer EXCEPT ![c] = NoAnswer],
         UNCHANGED <<table, crossed>>
  PROVE  /\ queue' \in Queues /\ answer' \in [Conns -> Answers \cup {NoAnswer}]
         /\ Together(queue', crossed') /\ AnswerInv' /\ SelectInv'
<1>1. /\ TypeOK /\ Together(queue, crossed) /\ AnswerInv /\ SelectInv /\ queue \in Queues
  BY Facts
<1>2. /\ queue' \in Queues /\ \A d \in Conns : d # c => queue'[d] = queue[d]
      /\ \A i \in DOMAIN queue[c] : i \in Nat /\ i >= 1
      /\ \A i \in DOMAIN queue'[c] :
           i \in Nat /\ i >= 1 /\ i + 1 \in DOMAIN queue[c] /\ queue'[c][i] = queue[c][i + 1]
      /\ \A i \in DOMAIN queue[c] :
           i # 1 => i - 1 \in DOMAIN queue'[c] /\ queue'[c][i - 1] = queue[c][i]
  BY <1>1, AnsweredFacts
<1>3. /\ answer' \in [Conns -> Answers \cup {NoAnswer}] /\ answer'[c] = NoAnswer
      /\ \A d \in Conns : d # c => answer'[d] = answer[d]
  BY <1>1 DEF TypeOK
<1>4. Together(queue', crossed')
  BY <1>1, AnsweredTogether
<1>5. AnswerInv'
  BY <1>1, <1>2, <1>3 DEF AnswerInv
<1>6. SelectInv'
  <2> SUFFICES ASSUME NEW d \in Conns, NEW i \in DOMAIN queue'[d], NEW k, k = queue'[d][i].key,
                      queue'[d][i].query = "select", k \notin crossed, table[k] # NoEntry
               PROVE  \/ table[k].id = queue'[d][i].id
                      \/ \E j \in DOMAIN queue'[d] : i < j /\ About(k, d, j)'
                      \/ answer'[d] # NoAnswer /\ queue'[d][1].query = "replace" /\ queue'[d][1].key = k
    BY DEF SelectInv, About
  <2>1. CASE d # c
    BY <1>1, <1>2, <1>3, <2>1 DEF SelectInv, About
  <2>2. CASE d = c
    <3>1. /\ i \in Nat /\ i + 1 \in DOMAIN queue[c] /\ queue'[c][i] = queue[c][i + 1]
      BY <1>2, <2>2
    <3>2. \/ table[k].id = queue[c][i + 1].id
          \/ \E j \in DOMAIN queue[c] : i + 1 < j /\ About(k, c, j)
      BY <1>1, <2>2, <3>1 DEF SelectInv
    <3>3. ASSUME NEW j \in DOMAIN queue[c], i + 1 < j, About(k, c, j)
          PROVE  j - 1 \in DOMAIN queue'[c] /\ i < j - 1 /\ About(k, c, j - 1)'
      <4>1. j \in Nat /\ j # 1
        BY <1>2, <3>1, <3>3
      <4>2. j - 1 \in DOMAIN queue'[c] /\ queue'[c][j - 1] = queue[c][j]
        BY <1>2, <4>1
      <4> QED
        BY <3>1, <3>3, <4>1, <4>2 DEF About
    <3> QED
      BY <2>2, <3>1, <3>2, <3>3
  <2> QED
    BY <2>1, <2>2
<1> QED
  BY <1>2, <1>3, <1>4, <1>5, <1>6

LEMMA ReplaceAnsweredStep ==
  ASSUME IInv, NEW c \in Conns, ReplaceAnswered(c)
  PROVE  IInv'
<1> DEFINE h == queue[c][1]
           k0 == h.key
           qs == Answered(c)
           q == Select(k0, answer[c][k0].id)
<1>1. /\ TypeOK /\ Together(queue, crossed) /\ AnswerInv /\ SelectInv /\ CacheInv
      /\ Minted /\ HeldInv /\ StoredInv /\ OnTheWayInv
      /\ ReplaceInv(queue) /\ DeleteInv(queue) /\ OrderInv(queue)
      /\ queue \in Queues /\ nextToken \in Nat /\ crossed \subseteq Keys
  BY Facts
<1>2. queue[c] # <<>> /\ answer[c] # NoAnswer /\ Head(queue[c]) = h /\ h.query = "replace"
  <2>1. queue[c] # <<>> /\ answer[c] # NoAnswer /\ Head(queue[c]).query = "replace"
    BY DEF ReplaceAnswered, Answering
  <2> QED
    BY <1>1, <2>1, AnsweredFacts
<1>3. k0 \in Keys /\ Operates(queue, k0, c) /\ Touched(h) = {k0}
  BY <1>1, <1>2, HeadTouches DEF Touched
<1>4. answer[c][k0] \in Row /\ answer[c][k0].id \in Nat
      /\ (k0 \notin crossed => answer[c][k0] = table[k0])
  BY <1>1, <1>2, <1>3 DEF AnswerInv, Row
<1>5. q \in Query /\ current \in Conns /\ q.query = "select" /\ q.key = k0
      /\ q.id = answer[c][k0].id /\ Touched(q) = {k0}
  BY <1>1, <1>3, <1>4, QueryKinds DEF TypeOK, Select, Touched
<1>6. /\ Send(qs, current, q) /\ answer' = [answer EXCEPT ![c] = NoAnswer]
      /\ UNCHANGED <<table, nextId, persistentTokens, current, open, unread, nextToken,
                     revokedBelow, lost>>
  BY <1>2 DEF ReplaceAnswered, mapVars
<1>7. /\ qs \in Queues /\ \A d \in Conns : d # c => qs[d] = queue[d]
      /\ \A i \in DOMAIN queue[c] : i \in Nat /\ i >= 1
      /\ \A i \in DOMAIN qs[c] :
           i \in Nat /\ i >= 1 /\ i + 1 \in DOMAIN queue[c] /\ qs[c][i] = queue[c][i + 1]
      /\ \A i \in DOMAIN queue[c] :
           i # 1 => i - 1 \in DOMAIN qs[c] /\ qs[c][i - 1] = queue[c][i]
  BY <1>1, <1>2, AnsweredFacts
<1>8. /\ Together(qs, crossed) /\ ReplaceInv(qs) /\ DeleteInv(qs) /\ OrderInv(qs)
  BY <1>1, <1>2, AnsweredTogether, AnsweredOrder
<1>9. /\ answer' \in [Conns -> Answers \cup {NoAnswer}] /\ answer'[c] = NoAnswer
      /\ \A d \in Conns : d # c => answer'[d] = answer[d]
  BY <1>1, <1>6 DEF TypeOK
<1>10. \A k \in Keys, d \in Conns :
         /\ Touches(queue, k, d) => Touches(qs, k, d) \/ (d = c /\ k = k0)
         /\ Operates(queue, k, d) => Operates(qs, k, d) \/ (d = c /\ k = k0)
  BY <1>1, <1>2, <1>3, TouchesLeft
<1> HIDE DEF h, k0, qs, q
<1>11. queue' = After(qs, current, q)
  BY <1>6 DEF Send, After
<1>12. /\ queue' \in Queues
       /\ \A d \in Conns : \A i \in DOMAIN qs[d] : i \in DOMAIN queue'[d] /\ queue'[d][i] = qs[d][i]
       /\ Len(qs[current]) \in Nat /\ DOMAIN qs[current] = 1..Len(qs[current])
       /\ DOMAIN queue'[current] = 1..(Len(qs[current]) + 1)
       /\ queue'[current][Len(qs[current]) + 1] = q
       /\ \A d \in Conns : \A i \in DOMAIN queue'[d] :
            i \in DOMAIN qs[d] \/ (d = current /\ i = Len(qs[current]) + 1)
  BY <1>5, <1>7, <1>11, SentFacts
<1>13. \A k \in Keys, d \in Conns :
         /\ Touches(qs, k, d) => Touches(queue', k, d)
         /\ Operates(qs, k, d) \/ (d = current /\ k = k0) => Operates(queue', k, d)
  BY <1>5, <1>7, <1>11, TouchesSent
<1>14. crossed' = crossed \cup CrossedBy(qs, current, q) /\ CrossedBy(qs, current, q) \subseteq Keys
  BY <1>3, <1>5, <1>6 DEF Send, Settled, CrossedBy
<1>15. TypeOK'
  BY <1>1, <1>6, <1>9, <1>12, <1>14 DEF TypeOK, Queues
<1>16. Together(queue', crossed')
  BY <1>1, <1>5, <1>6, <1>7, <1>8, SendTogether
<1>17. AnswerInv'
  <2> SUFFICES ASSUME NEW d \in Conns, answer'[d] # NoAnswer
               PROVE  /\ queue'[d] # <<>>
                      /\ \A k \in Touched(queue'[d][1]) : k \notin crossed' => answer'[d][k] = table[k]
                      /\ \A k \in Keys \ Touched(queue'[d][1]) : answer'[d][k] = NoEntry
                      /\ queue'[d][1].query = "replace" => answer'[d][queue'[d][1].key] \in Row
                      /\ queue'[d][1].query = "delete" => answer'[d][queue'[d][1].key] = NoEntry
    BY <1>6 DEF AnswerInv
  <2>1. d # c /\ answer[d] # NoAnswer /\ answer'[d] = answer[d] /\ qs[d] = queue[d]
    BY <1>7, <1>9
  <2>2. queue[d] # <<>> /\ 1 \in DOMAIN queue[d]
    BY <1>1, <2>1, AnsweredFacts DEF AnswerInv
  <2>3. 1 \in DOMAIN queue'[d] /\ queue'[d][1] = queue[d][1] /\ queue'[d] # <<>>
    BY <1>12, <2>1, <2>2
  <2> QED
    BY <1>1, <1>14, <2>1, <2>3 DEF AnswerInv
<1>18. SelectInv'
  <2> SUFFICES ASSUME NEW d \in Conns, NEW i \in DOMAIN queue'[d], NEW k, k = queue'[d][i].key,
                      queue'[d][i].query = "select", k \notin crossed', table[k] # NoEntry
               PROVE  \/ table[k].id = queue'[d][i].id
                      \/ \E j \in DOMAIN queue'[d] : i < j /\ About(k, d, j)'
                      \/ answer'[d] # NoAnswer /\ queue'[d][1].query = "replace" /\ queue'[d][1].key = k
    BY <1>6 DEF SelectInv, About
  <2>1. CASE d = current /\ i = Len(qs[current]) + 1
    BY <1>4, <1>5, <1>12, <1>14, <2>1
  <2>2. CASE i \in DOMAIN qs[d]
    <3>1. queue'[d][i] = qs[d][i] /\ qs[d][i] \in Query /\ i \in Nat
      <4>1. qs[d] \in Seq(Query)
        BY <1>7 DEF Queues
      <4> QED
        BY <1>12, <2>2, <4>1
    <3>2. k \in Keys /\ Touches(qs, k, d) /\ k \notin crossed
      BY <1>14, <2>2, <3>1, QueryFields DEF Touches, Touched
    <3>3. ASSUME k = k0
          PROVE  \E j \in DOMAIN queue'[d] : i < j /\ About(k, d, j)'
      <4> DEFINE n == Len(qs[current]) + 1
      <4>1. d = current
        BY <1>5, <1>14, <3>2, <3>3 DEF CrossedBy
      <4>2. i < n /\ n \in DOMAIN queue'[d]
        BY <1>12, <2>2, <4>1
      <4>3. queue'[d][n].query # "all" /\ queue'[d][n].key = k
        BY <1>5, <1>12, <3>3, <4>1
      <4> HIDE DEF n
      <4> QED
        BY <4>2, <4>3 DEF About
    <3>4. CASE k # k0 /\ d = c
      <4>1. i + 1 \in DOMAIN queue[c] /\ qs[c][i] = queue[c][i + 1]
        BY <1>7, <2>2, <3>4
      <4>2. \/ table[k].id = queue[c][i + 1].id
            \/ \E j \in DOMAIN queue[c] : i + 1 < j /\ About(k, c, j)
            \/ queue[c][1].key = k
        BY <1>1, <3>1, <3>2, <3>4, <4>1 DEF SelectInv
      <4>3. queue[c][1].key # k
        BY <3>4 DEF k0, h
      <4>4. ASSUME NEW j \in DOMAIN queue[c], i + 1 < j, About(k, c, j)
            PROVE  j - 1 \in DOMAIN queue'[c] /\ i < j - 1 /\ About(k, c, j - 1)'
        <5>1. j \in Nat /\ j # 1
          BY <1>7, <3>1, <4>4
        <5>2. j - 1 \in DOMAIN qs[c] /\ qs[c][j - 1] = queue[c][j]
          BY <1>7, <5>1
        <5>3. j - 1 \in DOMAIN queue'[c] /\ queue'[c][j - 1] = queue[c][j]
          BY <1>12, <5>2
        <5> QED
          BY <3>1, <4>4, <5>1, <5>3 DEF About
      <4> QED
        BY <3>1, <3>4, <4>1, <4>2, <4>3, <4>4
    <3>5. CASE k # k0 /\ d # c
      <4>1. qs[d] = queue[d] /\ answer'[d] = answer[d]
        BY <1>7, <1>9, <3>5
      <4>2. \/ table[k].id = queue[d][i].id
            \/ \E j \in DOMAIN queue[d] : i < j /\ About(k, d, j)
            \/ answer[d] # NoAnswer /\ queue[d][1].query = "replace" /\ queue[d][1].key = k
        BY <1>1, <2>2, <3>1, <3>2, <4>1 DEF SelectInv
      <4>3. ASSUME NEW j \in DOMAIN queue[d], About(k, d, j)
            PROVE  j \in DOMAIN queue'[d] /\ About(k, d, j)'
        BY <1>12, <4>1, <4>3 DEF About
      <4>4. answer[d] # NoAnswer => queue'[d][1] = queue[d][1]
        <5>1. answer[d] # NoAnswer => 1 \in DOMAIN queue[d]
          BY <1>1, AnsweredFacts DEF AnswerInv
        <5> QED
          BY <1>12, <4>1, <5>1
      <4> QED
        BY <3>1, <4>1, <4>2, <4>3, <4>4
    <3> QED
      BY <3>3, <3>4, <3>5
  <2> QED
    BY <1>12, <2>1, <2>2
<1>19. CacheInv'
  <2>1. \A k \in Keys, d \in Conns :
          /\ Touches(queue, k, d) /\ k # k0 => Touches(queue', k, d)
          /\ Operates(queue, k, d) /\ k # k0 => Operates(queue', k, d)
    BY <1>10, <1>13
  <2>2. Operates(queue', k0, current)
    BY <1>3, <1>5, <1>13
  <2>3. \A k \in Keys : k \notin crossed' => k \notin crossed
    BY <1>14
  <2> QED
    BY <1>1, <1>5, <1>6, <2>1, <2>2, <2>3 DEF CacheInv, Agree
<1>20. RevokeInv'
  <2>1. ReplaceInv(queue)' /\ DeleteInv(queue)' /\ OrderInv(queue)'
    BY <1>1, <1>5, <1>6, <1>7, <1>8, SendOrder
  <2>2. Minted' /\ HeldInv' /\ StoredInv' /\ OnTheWayInv'
    BY <1>1, <1>6, <1>9 DEF Minted, HeldInv, StoredInv, OnTheWayInv
  <2> QED
    BY <2>1, <2>2 DEF RevokeInv
<1> QED
  BY <1>15, <1>16, <1>17, <1>18, <1>19, <1>20 DEF IInv

LEMMA SelectAnsweredStep ==
  ASSUME IInv, NEW c \in Conns, SelectAnswered(c)
  PROVE  IInv'
<1> DEFINE h == queue[c][1]
           k0 == h.key
           new == InsToken(answer[c][k0], h.id)
<1>1. /\ TypeOK /\ Together(queue, crossed) /\ AnswerInv /\ SelectInv /\ CacheInv
      /\ Minted /\ HeldInv /\ StoredInv /\ OnTheWayInv
      /\ ReplaceInv(queue) /\ DeleteInv(queue) /\ OrderInv(queue)
      /\ queue \in Queues
  BY Facts
<1>2. queue[c] # <<>> /\ answer[c] # NoAnswer /\ Head(queue[c]) = h /\ h.query = "select"
  <2>1. queue[c] # <<>> /\ answer[c] # NoAnswer /\ Head(queue[c]).query = "select"
    BY DEF SelectAnswered, Answering
  <2> QED
    BY <1>1, <2>1, AnsweredFacts
<1>3. k0 \in Keys /\ Operates(queue, k0, c) /\ Touched(h) = {k0} /\ 1 \in DOMAIN queue[c]
  BY <1>1, <1>2, HeadTouches, AnsweredFacts DEF Touched
<1>4. answer[c][k0] \in Row \cup {NoEntry} /\ (k0 \notin crossed => answer[c][k0] = table[k0])
  <2>1. answer[c] \in Answers
    BY <1>1, <1>2 DEF TypeOK
  <2> QED
    BY <1>1, <1>2, <1>3, <2>1 DEF AnswerInv, Answers
<1>5. /\ queue' = Answered(c) /\ answer' = [answer EXCEPT ![c] = NoAnswer]
      /\ persistentTokens' = [persistentTokens EXCEPT ![k0] = new] /\ lost' = lost \ {k0}
      /\ UNCHANGED <<table, nextId, current, open, unread, nextToken, revokedBelow, crossed>>
  BY <1>2 DEF SelectAnswered
<1>6. new \in Row \cup {Undefined} /\ (new \in Row => answer[c][k0] = new)
  BY <1>4, EntriesDistinct DEF InsToken
<1>7. /\ queue' \in Queues /\ answer' \in [Conns -> Answers \cup {NoAnswer}]
      /\ Together(queue', crossed') /\ AnswerInv' /\ SelectInv'
  BY <1>2, <1>5, AnsweredKeeps
<1>8. \A k \in Keys, d \in Conns :
        /\ Touches(queue, k, d) => Touches(queue', k, d) \/ (d = c /\ k = k0)
        /\ Operates(queue, k, d) => Operates(queue', k, d) \/ (d = c /\ k = k0)
  BY <1>1, <1>2, <1>3, <1>5, TouchesLeft
<1>9. TypeOK'
  BY <1>1, <1>3, <1>5, <1>6, <1>7 DEF TypeOK, Queues
<1>10. ASSUME NEW k \in Keys, k = k0, k \notin crossed
       PROVE  Agree(k)' \/ Operates(queue', k, c)
  <2>1. persistentTokens'[k] = InsToken(table[k], h.id)
    BY <1>1, <1>4, <1>5, <1>10 DEF TypeOK
  <2>2. \/ table[k] = NoEntry
        \/ table[k].id = h.id
        \/ \E j \in DOMAIN queue[c] : 1 < j /\ About(k, c, j)
    BY <1>1, <1>2, <1>3, <1>10 DEF SelectInv
  <2>3. CASE table[k] = NoEntry
    BY <1>5, <2>1, <2>3 DEF Agree, InsToken
  <2>4. CASE table[k] # NoEntry /\ table[k].id = h.id
    BY <1>5, <2>1, <2>4 DEF Agree, InsToken
  <2>5. CASE \E j \in DOMAIN queue[c] : 1 < j /\ About(k, c, j)
    <3>1. PICK j \in DOMAIN queue[c] : 1 < j /\ About(k, c, j)
      BY <2>5
    <3>2. j - 1 \in DOMAIN queue'[c] /\ queue'[c][j - 1] = queue[c][j]
      BY <1>1, <1>2, <1>5, <3>1, AnsweredFacts
    <3> QED
      BY <3>1, <3>2 DEF About, Operates
  <2> QED
    BY <2>2, <2>3, <2>4, <2>5
<1> HIDE DEF h, k0, new
<1>11. CacheInv'
  <2>1. \A k \in Keys : k # k0 => persistentTokens'[k] = persistentTokens[k] /\ (k \in lost <=> k \in lost')
    BY <1>1, <1>5 DEF TypeOK
  <2>2. ASSUME NEW k \in Keys, k # k0, k \notin lost' \cup crossed'
        PROVE  \/ Agree(k)'
               \/ \E d \in Conns : Operates(queue', k, d)
               \/ persistentTokens'[k] = NoEntry /\ (unread' \/ \E d \in Conns : Touches(queue', k, d))
    BY <1>1, <1>5, <1>8, <2>1, <2>2 DEF CacheInv, Agree
  <2> QED
    BY <1>5, <1>10, <2>2 DEF CacheInv
<1>12. RevokeInv'
  <2>1. ReplaceInv(queue)' /\ DeleteInv(queue)' /\ OrderInv(queue)'
    <3>1. ReplaceInv(Answered(c)) /\ DeleteInv(Answered(c)) /\ OrderInv(Answered(c))
      BY <1>1, <1>2, AnsweredOrder
    <3> QED
      BY <1>5, <3>1 DEF ReplaceInv, DeleteInv, OrderInv
  <2>2. HeldInv'
    BY <1>1, <1>2, <1>3, <1>5, <1>6 DEF TypeOK, HeldInv, OnTheWayInv
  <2>3. Minted' /\ StoredInv' /\ OnTheWayInv'
    BY <1>1, <1>5 DEF TypeOK, Minted, StoredInv, OnTheWayInv
  <2> QED
    BY <2>1, <2>2, <2>3 DEF RevokeInv
<1> QED
  BY <1>7, <1>9, <1>11, <1>12 DEF IInv

LEMMA DeleteAnsweredStep ==
  ASSUME IInv, NEW c \in Conns, DeleteAnswered(c)
  PROVE  IInv'
<1> DEFINE h == queue[c][1]
<1>0. PICK k0 \in Keys : k0 = h.key
  <2>1. queue \in Queues /\ queue[c] # <<>> /\ h.query # "all"
    <3>1. queue \in Queues /\ queue[c] # <<>> /\ Head(queue[c]).query = "delete"
      BY Facts DEF DeleteAnswered, Answering
    <3> QED
      BY <3>1, AnsweredFacts
  <2> QED
    BY <2>1, HeadTouches
<1>1. /\ TypeOK /\ Together(queue, crossed) /\ AnswerInv /\ SelectInv /\ CacheInv
      /\ Minted /\ HeldInv /\ StoredInv /\ OnTheWayInv
      /\ ReplaceInv(queue) /\ DeleteInv(queue) /\ OrderInv(queue)
      /\ queue \in Queues /\ nextToken \in Nat
  BY Facts
<1>2. queue[c] # <<>> /\ answer[c] # NoAnswer /\ Head(queue[c]) = h /\ h.query = "delete"
  <2>1. queue[c] # <<>> /\ answer[c] # NoAnswer /\ Head(queue[c]).query = "delete"
    BY DEF DeleteAnswered, Answering
  <2> QED
    BY <1>1, <2>1, AnsweredFacts
<1>3. Operates(queue, k0, c) /\ Touched(h) = {k0} /\ 1 \in DOMAIN queue[c]
  BY <1>0, <1>1, <1>2, HeadTouches, AnsweredFacts DEF Touched
<1>4. answer[c][k0] = NoEntry /\ (k0 \notin crossed => table[k0] = NoEntry)
  BY <1>0, <1>1, <1>2, <1>3 DEF AnswerInv
<1>5. h.before \in 0..nextToken
  BY <1>1, <1>2, <1>3 DEF DeleteInv
<1>6. /\ queue' = Answered(c) /\ answer' = [answer EXCEPT ![c] = NoAnswer]
      /\ persistentTokens' = [persistentTokens EXCEPT ![k0] = NoEntry] /\ lost' = lost \ {k0}
      /\ revokedBelow' = [revokedBelow EXCEPT ![k0] = IF k0 \in crossed THEN @ ELSE h.before]
      /\ UNCHANGED <<table, nextId, current, open, unread, nextToken, crossed>>
  BY <1>0, <1>2 DEF DeleteAnswered, EntryRemoved
<1>7. /\ queue' \in Queues /\ answer' \in [Conns -> Answers \cup {NoAnswer}]
      /\ Together(queue', crossed') /\ AnswerInv' /\ SelectInv'
  BY <1>2, <1>6, AnsweredKeeps
<1>8. \A k \in Keys, d \in Conns :
        /\ Touches(queue, k, d) => Touches(queue', k, d) \/ (d = c /\ k = k0)
        /\ Operates(queue, k, d) => Operates(queue', k, d) \/ (d = c /\ k = k0)
  BY <1>0, <1>1, <1>2, <1>3, <1>6, TouchesLeft
<1>9. /\ persistentTokens' \in [Keys -> Row \cup {NoEntry, Undefined}]
      /\ persistentTokens'[k0] = NoEntry
      /\ \A k \in Keys : k # k0 => persistentTokens'[k] = persistentTokens[k]
                                   /\ revokedBelow'[k] = revokedBelow[k]
      /\ k0 \in crossed => revokedBelow'[k0] = revokedBelow[k0]
      /\ k0 \notin crossed => revokedBelow'[k0] = h.before
      /\ revokedBelow' \in [Keys -> Nat]
  BY <1>1, <1>5, <1>6 DEF TypeOK
<1> HIDE DEF h
<1>10. TypeOK'
  BY <1>1, <1>6, <1>7, <1>9 DEF TypeOK, Queues
<1>11. CacheInv'
  <2>1. k0 \notin crossed' => Agree(k0)'
    BY <1>4, <1>6, <1>9 DEF Agree
  <2>2. ASSUME NEW k \in Keys, k # k0, k \notin lost' \cup crossed'
        PROVE  \/ Agree(k)'
               \/ \E d \in Conns : Operates(queue', k, d)
               \/ persistentTokens'[k] = NoEntry /\ (unread' \/ \E d \in Conns : Touches(queue', k, d))
    BY <1>1, <1>6, <1>8, <1>9, <2>2 DEF CacheInv, Agree
  <2> QED
    BY <2>1, <2>2 DEF CacheInv
<1>12. /\ \A d \in Conns : d # c => queue'[d] = queue[d] /\ answer'[d] = answer[d]
       /\ answer'[c] = NoAnswer
       /\ \A i \in DOMAIN queue'[c] :
            i \in Nat /\ i >= 1 /\ i + 1 \in DOMAIN queue[c] /\ queue'[c][i] = queue[c][i + 1]
  <2>1. answer \in [Conns -> Answers \cup {NoAnswer}]
    BY <1>1 DEF TypeOK
  <2> QED
    BY <1>1, <1>2, <1>6, <2>1, AnsweredFacts
<1>13. k0 \notin crossed => \A d \in Conns : d # c => ~Touches(queue, k0, d)
  BY <1>1, <1>3 DEF Together
<1>14. RevokeInv'
  <2>1. Minted' /\ HeldInv'
    BY <1>1, <1>5, <1>6, <1>9, EntriesDistinct DEF TypeOK, Minted, HeldInv
  <2>2. StoredInv'
    BY <1>1, <1>4, <1>6, <1>9, EntriesDistinct DEF StoredInv
  <2>3. OnTheWayInv'
    <3> SUFFICES ASSUME NEW d \in Conns, NEW k \in Keys, answer'[d] # NoAnswer, answer'[d][k] \in Row
                 PROVE  answer'[d][k].token >= revokedBelow'[k]
      BY DEF OnTheWayInv
    <3>1. d # c /\ answer'[d] = answer[d]
      BY <1>12
    <3>2. CASE k = k0 /\ k0 \notin crossed
      <4>1. queue[d] # <<>> /\ k \in Touched(queue[d][1])
        BY <1>1, <3>1, EntriesDistinct DEF AnswerInv
      <4>2. Touches(queue, k, d)
        BY <1>1, <4>1, HeadTouches
      <4> QED
        BY <1>13, <3>1, <3>2, <4>2
    <3>3. CASE ~(k = k0 /\ k0 \notin crossed)
      BY <1>1, <1>9, <3>1, <3>3 DEF OnTheWayInv
    <3> QED
      BY <3>2, <3>3
  <2>4. DeleteInv(queue)' /\ OrderInv(queue)'
    <3>1. DeleteInv(Answered(c)) /\ OrderInv(Answered(c))
      BY <1>1, <1>2, AnsweredOrder
    <3> QED
      BY <1>6, <3>1 DEF DeleteInv, OrderInv
  <2>5. ReplaceInv(queue)'
    <3> SUFFICES ASSUME NEW d \in Conns, NEW i \in DOMAIN queue'[d], queue'[d][i].query = "replace"
                 PROVE  queue'[d][i].token \in revokedBelow'[queue'[d][i].key]..(nextToken - 1)
      BY <1>6 DEF ReplaceInv
    <3>1. PICK j \in DOMAIN queue[d] : queue'[d][i] = queue[d][j] /\ (d = c => 1 < j)
      <4>1. CASE d = c
        <5>1. i + 1 \in DOMAIN queue[c] /\ queue'[c][i] = queue[c][i + 1] /\ 1 < i + 1
          BY <1>12, <4>1
        <5> QED
          BY <4>1, <5>1
      <4> QED
        BY <1>12, <4>1
    <3>2. queue[d][j] \in Query /\ queue[d][j].key \in Keys /\ queue[d][j].token \in Nat
      <4>1. queue[d][j] \in Query
        BY <1>1, <3>1 DEF Queues
      <4> QED
        BY <3>1, <4>1, QueryFields
    <3>3. queue[d][j].token \in revokedBelow[queue[d][j].key]..(nextToken - 1)
      BY <1>1, <3>1 DEF ReplaceInv
    <3>4. CASE queue[d][j].key = k0 /\ k0 \notin crossed
      <4>1. Touches(queue, k0, d)
        BY <3>1, <3>2, <3>4 DEF Touches, Touched
      <4>2. d = c
        BY <1>13, <3>4, <4>1
      <4>3. queue[c][1].query = "delete" /\ queue[c][1].key = queue[c][j].key
            /\ queue[c][1].before = h.before
        BY <1>0, <1>2, <3>4, <4>2 DEF h
      <4>4. queue[c][j].token >= h.before
        BY <1>1, <1>3, <3>1, <4>2, <4>3 DEF OrderInv
      <4>5. revokedBelow[k0] \in Nat
        BY <1>1 DEF TypeOK
      <4> QED
        BY <1>1, <1>5, <1>9, <3>1, <3>2, <3>3, <3>4, <4>2, <4>4, <4>5
    <3>5. CASE ~(queue[d][j].key = k0 /\ k0 \notin crossed)
      <4>1. revokedBelow'[queue[d][j].key] = revokedBelow[queue[d][j].key]
        BY <1>9, <3>2, <3>5
      <4> QED
        BY <3>1, <3>3, <4>1
    <3> QED
      BY <3>4, <3>5
  <2> QED
    BY <2>1, <2>2, <2>3, <2>4, <2>5 DEF RevokeInv
<1> QED
  BY <1>7, <1>10, <1>11, <1>14 DEF IInv

LEMMA SelectAllAnsweredStep ==
  ASSUME IInv, NEW c \in Conns, SelectAllAnswered(c)
  PROVE  IInv'
<1> DEFINE h == queue[c][1]
<1>1. /\ TypeOK /\ Together(queue, crossed) /\ AnswerInv /\ SelectInv /\ CacheInv
      /\ Minted /\ HeldInv /\ StoredInv /\ OnTheWayInv
      /\ ReplaceInv(queue) /\ DeleteInv(queue) /\ OrderInv(queue)
      /\ queue \in Queues
  BY Facts
<1>2. queue[c] # <<>> /\ answer[c] # NoAnswer /\ h.query = "all" /\ Touched(h) = Keys
  <2>1. queue[c] # <<>> /\ answer[c] # NoAnswer /\ Head(queue[c]).query = "all"
    BY DEF SelectAllAnswered, Answering
  <2> QED
    BY <1>1, <2>1, AnsweredFacts DEF Touched
<1>3. answer[c] \in Answers /\ \A k \in Keys : k \notin crossed => answer[c][k] = table[k]
  BY <1>1, <1>2 DEF TypeOK, AnswerInv
<1>4. /\ queue' = Answered(c) /\ answer' = [answer EXCEPT ![c] = NoAnswer]
      /\ persistentTokens' =
           [k \in Keys |-> IF answer[c][k] = NoEntry THEN persistentTokens[k] ELSE answer[c][k]]
      /\ UNCHANGED <<table, nextId, current, open, unread, nextToken, revokedBelow, lost, crossed>>
  BY DEF SelectAllAnswered
<1>5. /\ queue' \in Queues /\ answer' \in [Conns -> Answers \cup {NoAnswer}]
      /\ Together(queue', crossed') /\ AnswerInv' /\ SelectInv'
  BY <1>2, <1>4, AnsweredKeeps
<1>6. \A k \in Keys, d \in Conns : Operates(queue, k, d) => Operates(queue', k, d)
  BY <1>1, <1>2, <1>4, TouchesLeft
<1> HIDE DEF h
<1>7. persistentTokens' \in [Keys -> Row \cup {NoEntry, Undefined}]
  BY <1>1, <1>3, <1>4 DEF TypeOK, Answers
<1>8. TypeOK'
  BY <1>1, <1>4, <1>5, <1>7 DEF TypeOK, Queues
<1>9. CacheInv'
  <2> SUFFICES ASSUME NEW k \in Keys, k \notin lost \cup crossed
               PROVE  Agree(k)' \/ \E d \in Conns : Operates(queue', k, d)
    BY <1>4 DEF CacheInv
  <2>1. \/ Agree(k)
        \/ \E d \in Conns : Operates(queue, k, d)
        \/ persistentTokens[k] = NoEntry
    BY <1>1 DEF CacheInv
  <2>2. persistentTokens'[k] = IF table[k] = NoEntry THEN persistentTokens[k] ELSE table[k]
    BY <1>3, <1>4
  <2> QED
    BY <1>4, <1>6, <2>1, <2>2 DEF Agree
<1>10. RevokeInv'
  <2>1. ReplaceInv(queue)' /\ DeleteInv(queue)' /\ OrderInv(queue)'
    <3>1. ReplaceInv(Answered(c)) /\ DeleteInv(Answered(c)) /\ OrderInv(Answered(c))
      BY <1>1, <1>2, AnsweredOrder
    <3> QED
      BY <1>4, <3>1 DEF ReplaceInv, DeleteInv, OrderInv
  <2>2. HeldInv'
    BY <1>1, <1>2, <1>4 DEF HeldInv, OnTheWayInv
  <2>3. Minted' /\ StoredInv' /\ OnTheWayInv'
    BY <1>1, <1>4 DEF TypeOK, Minted, StoredInv, OnTheWayInv
  <2> QED
    BY <2>1, <2>2, <2>3 DEF RevokeInv
<1> QED
  BY <1>5, <1>8, <1>9, <1>10 DEF IInv

LEMMA ConnectionLostStep ==
  ASSUME IInv, NEW c \in Conns, ConnectionLost(c)
  PROVE  IInv'
<1>1. /\ TypeOK /\ Together(queue, crossed) /\ AnswerInv /\ SelectInv /\ CacheInv
      /\ Minted /\ HeldInv /\ StoredInv /\ OnTheWayInv
      /\ ReplaceInv(queue) /\ DeleteInv(queue) /\ OrderInv(queue)
      /\ queue \in Queues
  BY Facts
<1>2. /\ current' \in Conns /\ open' \subseteq Conns
      /\ lost' = lost \cup {k \in Keys : Touches(queue, k, c)}
      /\ UNCHANGED <<table, nextId, persistentTokens, unread, nextToken, revokedBelow, crossed>>
  <2>1. Opened /\ current' \in Conns
    BY <1>1, OpenedType DEF ConnectionLost
  <2> QED
    BY <1>1, <2>1 DEF ConnectionLost, TypeOK, mapVars
<1>3. /\ queue' \in Queues /\ queue'[c] = <<>> /\ DOMAIN queue'[c] = {}
      /\ answer' \in [Conns -> Answers \cup {NoAnswer}] /\ answer'[c] = NoAnswer
      /\ \A d \in Conns : d # c => queue'[d] = queue[d] /\ answer'[d] = answer[d]
  <2>1. queue' = [queue EXCEPT ![c] = <<>>] /\ answer' = [answer EXCEPT ![c] = NoAnswer]
    BY DEF ConnectionLost
  <2>2. <<>> \in Seq(Query) /\ DOMAIN <<>> = {}
    OBVIOUS
  <2>3. answer \in [Conns -> Answers \cup {NoAnswer}]
    BY <1>1 DEF TypeOK
  <2> QED
    BY <1>1, <2>1, <2>2, <2>3 DEF Queues
<1>4. \A k \in Keys, d \in Conns :
        /\ d # c => (Touches(queue', k, d) <=> Touches(queue, k, d))
        /\ d # c => (Operates(queue', k, d) <=> Operates(queue, k, d))
        /\ ~Touches(queue', k, c) /\ ~Operates(queue', k, c)
  BY <1>3 DEF Touches, Operates
<1>5. TypeOK'
  BY <1>1, <1>2, <1>3 DEF TypeOK, Queues
<1>6. Together(queue', crossed')
  BY <1>1, <1>2, <1>4 DEF Together
<1>7. AnswerInv'
  BY <1>1, <1>2, <1>3 DEF AnswerInv
<1>8. SelectInv'
  BY <1>1, <1>2, <1>3 DEF SelectInv, About
<1>9. CacheInv'
  <2> SUFFICES ASSUME NEW k \in Keys, k \notin lost' \cup crossed'
               PROVE  \/ Agree(k)'
                      \/ \E d \in Conns : Operates(queue', k, d)
                      \/ persistentTokens'[k] = NoEntry
                         /\ (unread' \/ \E d \in Conns : Touches(queue', k, d))
    BY DEF CacheInv
  <2>1. k \notin lost \cup crossed /\ ~Touches(queue, k, c) /\ ~Operates(queue, k, c)
    BY <1>2, OperatesTouches
  <2> QED
    BY <1>1, <1>2, <1>4, <2>1 DEF CacheInv, Agree
<1>10. RevokeInv'
  <2>1. Minted' /\ HeldInv' /\ StoredInv' /\ OnTheWayInv'
    BY <1>1, <1>2, <1>3 DEF Minted, HeldInv, StoredInv, OnTheWayInv
  <2>2. ReplaceInv(queue)' /\ DeleteInv(queue)' /\ OrderInv(queue)'
    BY <1>1, <1>2, <1>3 DEF ReplaceInv, DeleteInv, OrderInv
  <2> QED
    BY <2>1, <2>2 DEF RevokeInv
<1> QED
  BY <1>5, <1>6, <1>7, <1>8, <1>9, <1>10 DEF IInv

LEMMA RestartStep == IInv /\ Restart => IInv'
<1> SUFFICES ASSUME IInv, Restart PROVE IInv'
  OBVIOUS
<1>1. TypeOK /\ Minted /\ StoredInv
  BY Facts
<1>2. /\ 1 \in Conns /\ queue' = Started /\ answer' = Silent /\ crossed' = {} /\ lost' = {}
      /\ persistentTokens' = Cleared /\ current' = 1 /\ open' = {1} /\ unread' = FALSE
      /\ UNCHANGED <<table, nextId, nextToken, revokedBelow>>
  BY BoundsAreNaturals DEF Restart, Conns
<1>3. SelectAll \in Query /\ SelectAll.query = "all" /\ Touched(SelectAll) = Keys
  BY DEF Query, SelectAll, Touched
<1>4. queue' \in Queues /\ \A c \in Conns : \A i \in DOMAIN queue'[c] : queue'[c][i].query = "all"
  BY <1>2, <1>3 DEF Queues, Started
<1>5. \A k \in Keys : Touches(queue', k, 1)
  BY <1>2, <1>3 DEF Touches, Started
<1>6. \A k \in Keys, c \in Conns : ~Operates(queue', k, c)
  BY <1>4 DEF Operates
<1>7. TypeOK'
  BY <1>1, <1>2, <1>4 DEF TypeOK, Queues, Cleared, Silent
<1>8. Together(queue', crossed')
  BY <1>6 DEF Together
<1>9. AnswerInv'
  BY <1>2 DEF AnswerInv, Silent
<1>10. SelectInv'
  BY <1>4 DEF SelectInv
<1>11. CacheInv'
  BY <1>2, <1>5 DEF CacheInv, Cleared
<1>12. RevokeInv'
  <2>1. Minted' /\ HeldInv' /\ StoredInv'
    BY <1>1, <1>2, EntriesDistinct DEF Minted, HeldInv, StoredInv, Cleared
  <2>2. OnTheWayInv'
    BY <1>2 DEF OnTheWayInv, Silent
  <2>3. ReplaceInv(queue)' /\ DeleteInv(queue)' /\ OrderInv(queue)'
    BY <1>4 DEF ReplaceInv, DeleteInv, OrderInv
  <2> QED
    BY <2>1, <2>2, <2>3 DEF RevokeInv
<1> QED
  BY <1>7, <1>8, <1>9, <1>10, <1>11, <1>12 DEF IInv

-----------------------------------------------------------------------------
LEMMA StutterStep == IInv /\ UNCHANGED vars => IInv'
<1> SUFFICES ASSUME IInv, UNCHANGED vars PROVE IInv'
  OBVIOUS
<1>1. UNCHANGED <<table, nextId, persistentTokens, current, open, queue, answer, unread,
                  nextToken, revokedBelow, lost, crossed>>
  BY DEF vars, mapVars, connVars
<1>2. TypeOK' /\ Together(queue', crossed') /\ AnswerInv' /\ SelectInv' /\ CacheInv'
  BY <1>1 DEF IInv, TypeOK, AnswerInv, SelectInv, CacheInv, About, Agree
<1>3. RevokeInv'
  BY <1>1 DEF IInv, RevokeInv, Minted, HeldInv, StoredInv, OnTheWayInv, ReplaceInv, DeleteInv,
              OrderInv
<1> QED
  BY <1>2, <1>3 DEF IInv

LEMMA NextStep == IInv /\ [Next]_vars => IInv'
<1> SUFFICES ASSUME IInv, Next PROVE IInv'
  BY StutterStep
<1>1. ASSUME NEW k \in Keys, NewPersistentToken(k) \/ RemovePersistentToken(k) PROVE IInv'
  BY <1>1, NewPersistentTokenStep, RemovePersistentTokenStep
<1>2. CASE Reload
  BY <1>2, ReloadStep
<1>3. CASE ReloadBroken
  BY <1>3, ReloadBrokenStep
<1>4. ASSUME NEW c \in Conns, DbAnswers(c) PROVE IInv'
  BY <1>4, ReplaceAnsweredStep, SelectAnsweredStep, DeleteAnsweredStep, SelectAllAnsweredStep
  DEF DbAnswers
<1>5. ASSUME NEW c \in Conns, Run(c) \/ ConnectionLost(c) PROVE IInv'
  BY <1>5, RunStep, ConnectionLostStep
<1>6. CASE Restart
  BY <1>6, RestartStep
<1> QED
  BY <1>1, <1>2, <1>3, <1>4, <1>5, <1>6 DEF Next

\* a key that nothing waits for is not going to be read again, so it agrees
LEMMA CacheFollows == IInv => MapFollowsTable
<1> SUFFICES ASSUME IInv, NEW k \in Keys, ~Waiting(k), k \notin lost \cup crossed
             PROVE  \/ persistentTokens[k] = table[k]
                    \/ table[k] = NoEntry /\ persistentTokens[k] = Undefined
                    \/ unread /\ persistentTokens[k] = NoEntry
  BY DEF MapFollowsTable
<1>1. \A c \in Conns : ~Touches(queue, k, c) /\ ~Operates(queue, k, c)
  BY OperatesTouches DEF Waiting
<1> QED
  BY <1>1 DEF IInv, CacheInv, Agree

LEMMA RevokedGone == IInv => RevokedStaysRevoked
<1> SUFFICES ASSUME IInv, NEW k \in Keys, NEW t \in 1..MaxTokens, t < revokedBelow[k], Holds(k, t)
             PROVE  FALSE
  BY DEF RevokedStaysRevoked
<1>1. persistentTokens[k] \in Row /\ persistentTokens[k].token = t
  BY DEF Holds
<1>2. t >= revokedBelow[k] /\ revokedBelow[k] \in Nat /\ t \in Nat
  BY <1>1, BoundsAreNaturals DEF IInv, RevokeInv, HeldInv, TypeOK
<1> QED
  BY <1>2

\* Rows, entries, queries and answers keep their shape (authentication.js:426-433,
\* 764-801): an entry of the Map is a row of the table, or undefined.
THEOREM TypeCorrect == Spec => []TypeOK
<1>1. IInv => TypeOK
  BY DEF IInv
<1> QED
  BY InitHolds, NextStep, <1>1, PTL DEF Spec

\* The Map is a cache of the table (authentication.js:426-433, 764-801), for every
\* number of users, connections and queries.
THEOREM MapFollows == Spec => []MapFollowsTable
  BY InitHolds, NextStep, CacheFollows, PTL DEF Spec

\* A logout answered while its key was worked on over no other connection is final
\* (authentication.js:787-801).
THEOREM RevocationIsFinal == Spec => []RevokedStaysRevoked
  BY InitHolds, NextStep, RevokedGone, PTL DEF Spec

-----------------------------------------------------------------------------
(* The grants.                                                             *)

\* the grant of c has at least k to live
HasLeft(c, k) == Granted(c.name, c.token) /\ grants[c.token].left >= k

\* what a token must have left when the interval ran d ago, to last until it runs again
Margin(d) == interval + Lag - d

\* the inductive forms of WsTokensLive and TcpTokensLive
WsInv ==
  \A s \in WsSockets : wsid[s] # None /\ ~LeftFor(wsid[s].token) =>
    HasLeft(wsid[s], Margin(sinceWs))
WaitInv ==
  \A s \in WsSockets : waiting[s] # None /\ ~LeftFor(waiting[s].token) =>
    HasLeft(waiting[s], Margin(0) + TakeOverWait - waiting[s].waited)
TcpInv ==
  \A c \in TcpSockets : tcp[c] # None =>
    /\ minted[tcp[c].token] # None
    /\ tcp[c].name = minted[tcp[c].token] /\ ~LeftFor(tcp[c].token) =>
         HasLeft(tcp[c], Margin(sinceTcp))

-----------------------------------------------------------------------------
LEMMA HalfIsNatural == ASSUME NEW e \in Nat PROVE e \div 2 \in Nat
  OBVIOUS

\* the intervals and the expiration, given GrantsTypeOK and Timely
LEMMA Times ==
  ASSUME GrantsTypeOK
  PROVE  /\ expires \in Nat /\ interval \in Nat /\ Lag \in Nat /\ TakeOverWait \in Nat
         /\ Timely => Margin(0) + TakeOverWait <= expires
<1>1. expires \in Nat /\ Lag \in Nat /\ TakeOverWait \in Nat /\ expires \in Expirations
  BY TimesAreNaturals DEF GrantsTypeOK
<1>2. PICK e \in Expirations : interval = e \div 2
  BY DEF GrantsTypeOK
<1>3. interval \in Nat
  BY <1>2, HalfIsNatural, TimesAreNaturals
<1>4. ASSUME Timely PROVE Margin(0) + TakeOverWait <= expires
  <2>1. TakeOverWait + interval + Lag <= expires
    BY <1>1, <1>2, <1>4 DEF Timely
  <2> QED BY <2>1, <1>1, <1>3 DEF Margin
<1> QED BY <1>1, <1>3, <1>4

LEMMA GrantType ==
  ASSUME GrantsTypeOK, NEW t \in Tokens, grants[t] # None
  PROVE  grants[t].name \in Names /\ grants[t].left \in Int /\ grants[t].left >= -1
  BY DEF GrantsTypeOK

\* the operations on grants yield grants
GrantTable == [Tokens -> [name : Names, left : {i \in Int : i >= -1}] \cup {None}]

LEMMA RenewedType == ASSUME GrantsTypeOK, NEW C PROVE Renewed(C) \in GrantTable
<1>1. expires \in Nat BY Times
<1> QED
  BY <1>1, GrantType DEF Renewed, GrantTable, GrantsTypeOK, Granted

LEMMA VerifiedType ==
  ASSUME GrantsTypeOK, NEW n \in Names, NEW t \in Tokens
  PROVE  Verified(n, t) \in GrantTable
<1>1. Removed(n, t) \in GrantTable BY DEF Removed, GrantTable, GrantsTypeOK
<1> QED BY <1>1, RenewedType DEF Verified

\* a grant with enough left keeps it when others, or itself, are renewed
LEMMA RenewedKeeps ==
  ASSUME GrantsTypeOK, NEW C, NEW n \in Names, NEW t \in Tokens, NEW k \in Int,
         k <= expires, Granted(n, t), grants[t].left >= k
  PROVE  Renewed(C)[t] # None /\ Renewed(C)[t].name = n /\ Renewed(C)[t].left >= k
<1>1. grants[t] # None /\ grants[t].name = n BY DEF Granted
<1>2. CASE \E c \in C : c.token = t /\ Granted(c.name, t)
  <2>1. Renewed(C)[t] = [name |-> n, left |-> expires] BY <1>1, <1>2 DEF Renewed
  <2>2. expires \in Nat BY Times
  <2>3. [name |-> n, left |-> expires] # None BY <2>2, NoneIsNothing
  <2> QED BY <2>1, <2>2, <2>3
<1>3. CASE ~(\E c \in C : c.token = t /\ Granted(c.name, t))
  BY <1>1, <1>3 DEF Renewed
<1> QED BY <1>2, <1>3

\* and when some token is verified, if it has not expired
LEMMA VerifiedKeeps ==
  ASSUME GrantsTypeOK, NEW m \in Names, NEW u \in Tokens,
         NEW n \in Names, NEW t \in Tokens, NEW k \in Int,
         0 <= k, k <= expires, Granted(n, t), grants[t].left >= k
  PROVE  Verified(m, u)[t] # None /\ Verified(m, u)[t].name = n /\ Verified(m, u)[t].left >= k
<1>1. CASE Valid(m, u)
  BY <1>1, RenewedKeeps DEF Verified
<1>2. CASE ~Valid(m, u)
  <2>1. Verified(m, u) = Removed(m, u) BY <1>2 DEF Verified
  <2>2. grants[t] # None BY DEF Granted
  <2>3. grants[t].left \in Int BY <2>2, GrantType
  <2>4. ~(Granted(m, u) /\ u = t) BY <1>2, <2>3 DEF Valid
  <2>5. Removed(m, u)[t] = grants[t] BY <2>4 DEF Removed, GrantsTypeOK
  <2> QED BY <2>1, <2>2, <2>5 DEF Granted
<1> QED BY <1>1, <1>2

\* a token that is verified with success has the whole expiration left
LEMMA VerifiedIsFresh ==
  ASSUME GrantsTypeOK, NEW n \in Names, NEW t \in Tokens, Valid(n, t)
  PROVE  Verified(n, t)[t] # None /\ Verified(n, t)[t].name = n
         /\ Verified(n, t)[t].left = expires
<1>1. Verified(n, t)[t] = [name |-> n, left |-> expires]
  BY DEF Verified, Renewed, Valid, Granted
<1>2. [name |-> n, left |-> expires] # None BY Times, NoneIsNothing
<1> QED BY <1>1, <1>2

\* no operation grants a token that was not granted
LEMMA NoneStaysNone ==
  ASSUME GrantsTypeOK, NEW t \in Tokens, grants[t] = None
  PROVE  /\ \A C : Renewed(C)[t] = None
         /\ \A n \in Names, u \in Tokens : Verified(n, u)[t] = None
<1>1. \A C : Renewed(C)[t] = None BY DEF Renewed, Granted
<1>2. \A n \in Names, u \in Tokens : Removed(n, u)[t] = None BY DEF Removed, GrantsTypeOK
<1> QED BY <1>1, <1>2 DEF Verified

-----------------------------------------------------------------------------
(* Types. *)

\* a token is granted to the name it was minted for
MintedInv == \A t \in Tokens : grants[t] # None => grants[t].name = minted[t]

LEMMA InitTypes == GrantsInit => GrantsTypeOK /\ MintedInv
<1> SUFFICES ASSUME GrantsInit PROVE GrantsTypeOK /\ MintedInv OBVIOUS
<1>1. interval \in Nat BY HalfIsNatural, TimesAreNaturals DEF GrantsInit
<1> QED BY <1>1, TimesAreNaturals DEF GrantsInit, GrantsTypeOK, MintedInv

LEMMA ClientTypes ==
  ASSUME GrantsTypeOK, MintedInv, Clients
  PROVE  GrantsTypeOK'
<1>1. expires \in Nat BY Times
<1>2. ASSUME NEW n \in Names, NEW t \in Tokens, GetNonce(n, t) PROVE GrantsTypeOK'
  BY <1>1, <1>2, NoneIsNothing DEF GetNonce, GrantsTypeOK, settings, clocks, sessions
<1>3. ASSUME NEW n \in Names, NEW t \in Tokens, Request(n, t) PROVE GrantsTypeOK'
  BY <1>3, VerifiedType DEF Request, GrantsTypeOK, GrantTable, settings, clocks, sessions
<1>4. ASSUME NEW n \in Names, NEW t \in Tokens, Logout(n, t) PROVE GrantsTypeOK'
  <2>1. grants' \in GrantTable
    BY <1>4, VerifiedType DEF Logout, GrantsTypeOK, GrantTable
  <2>2. minted[t] # None
    BY <1>4, GrantType, NoneIsNothing DEF Logout, Valid, Granted, MintedInv
  <2> QED BY <1>4, <2>1, <2>2 DEF Logout, GrantsTypeOK, GrantTable, settings, clocks, sessions
<1>5. ASSUME NEW n \in Names, NEW t \in Tokens, NEW s \in WsSockets, WsLogin(s, n, t)
      PROVE GrantsTypeOK'
  <2>1. grants' \in GrantTable BY <1>5, VerifiedType DEF WsLogin
  <2>2. wsid' \in [WsSockets -> Credentials \cup {None}]
    BY <1>5 DEF WsLogin, GrantsTypeOK, Credentials
  <2>3. waiting' \in [WsSockets -> [name : Names, token : Tokens, waited : 0..TakeOverWait]
                                    \cup {None}]
    BY <1>5, Times DEF WsLogin, GrantsTypeOK
  <2> QED BY <1>5, <2>1, <2>2, <2>3 DEF WsLogin, GrantsTypeOK, GrantTable, settings, clocks
<1>6. ASSUME NEW n \in Names, NEW t \in Tokens, NEW c \in TcpSockets, TcpLogin(c, n, t)
      PROVE GrantsTypeOK'
  <2>1. grants' \in GrantTable BY <1>6, VerifiedType DEF TcpLogin
  <2>2. tcp' \in [TcpSockets -> Credentials \cup {None}]
    BY <1>6, NamesAreMapped DEF TcpLogin, GrantsTypeOK, Credentials
  <2> QED BY <1>6, <2>1, <2>2 DEF TcpLogin, GrantsTypeOK, GrantTable, settings, clocks
<1>7. ASSUME NEW s \in WsSockets, WsDisconnect(s) PROVE GrantsTypeOK'
  BY <1>7 DEF WsDisconnect, GrantsTypeOK, settings, clocks
<1>8. ASSUME NEW c \in TcpSockets, TcpDisconnect(c) PROVE GrantsTypeOK'
  BY <1>8 DEF TcpDisconnect, GrantsTypeOK, settings, clocks
<1> QED BY <1>2, <1>3, <1>4, <1>5, <1>6, <1>7, <1>8 DEF Clients

LEMMA TimerTypes ==
  ASSUME GrantsTypeOK, Timers \/ ReloadAuthentication
  PROVE  GrantsTypeOK'
<1>1. CASE Sweep
  BY <1>1 DEF Sweep, GrantsTypeOK, settings, sessions
<1>2. CASE WsKeepAlive
  BY <1>2, RenewedType, Times DEF WsKeepAlive, GrantsTypeOK, GrantTable, settings, sessions
<1>3. CASE TcpKeepAlive
  BY <1>3, RenewedType, Times DEF TcpKeepAlive, GrantsTypeOK, GrantTable, settings, sessions
<1>4. CASE Tick
  <2>1. grants' \in GrantTable
    <3> DEFINE aged(t) == [name |-> grants[t].name, left |-> grants[t].left - 1]
               Grant   == [name : Names, left : {i \in Int : i >= -1}]
    <3>1. ASSUME NEW t \in Tokens, grants[t] # None, grants[t].left >= 0
          PROVE  aged(t) \in Grant
      <4>1. grants[t].name \in Names /\ grants[t].left \in Int
        BY <3>1, GrantType
      <4>2. grants[t].left - 1 \in {i \in Int : i >= -1}
        BY <3>1, <4>1
      <4> QED BY <4>1, <4>2
    <3>2. \A t \in Tokens : grants[t] \in Grant \cup {None}
      BY DEF GrantsTypeOK
    <3>3. grants' = [t \in Tokens |-> IF grants[t] # None /\ grants[t].left >= 0
                                     THEN aged(t) ELSE grants[t]]
      BY <1>4 DEF Tick
    <3> HIDE DEF aged, Grant
    <3>4. grants' \in [Tokens -> Grant \cup {None}] BY <3>1, <3>2, <3>3
    <3> QED BY <3>4 DEF Grant, GrantTable
  <2>2. waiting' \in [WsSockets -> [name : Names, token : Tokens, waited : 0..TakeOverWait]
                                    \cup {None}]
    <3>1. ASSUME NEW s \in WsSockets, waiting[s] # None
          PROVE  [name |-> waiting[s].name, token |-> waiting[s].token,
                  waited |-> waiting[s].waited + 1]
                   \in [name : Names, token : Tokens, waited : 0..TakeOverWait]
      <4>1. waiting[s] \in [name : Names, token : Tokens, waited : 0..TakeOverWait]
        BY <3>1 DEF GrantsTypeOK
      <4>2. waiting[s].waited < TakeOverWait BY <1>4, <3>1 DEF Tick
      <4> QED BY <4>1, <4>2, Times
    <3> QED BY <1>4, <3>1 DEF Tick
  <2>3. sinceSweep' \in Nat /\ sinceWs' \in 0..(interval + Lag) /\ sinceTcp' \in 0..(interval + Lag)
    BY <1>4, Times DEF Tick, GrantsTypeOK
  <2> QED BY <1>4, <2>1, <2>2, <2>3 DEF Tick, GrantsTypeOK, GrantTable, settings
<1>5. ASSUME NEW s \in WsSockets, WsLoginCompleted(s) PROVE GrantsTypeOK'
  <2>1. waiting[s] \in [name : Names, token : Tokens, waited : 0..TakeOverWait]
    BY <1>5 DEF WsLoginCompleted, GrantsTypeOK
  <2> QED BY <1>5, <2>1 DEF WsLoginCompleted, GrantsTypeOK, Credentials, settings, clocks
<1>6. CASE ReloadAuthentication
  BY <1>6 DEF ReloadAuthentication, GrantsTypeOK, sessions
<1> QED BY <1>1, <1>2, <1>3, <1>4, <1>5, <1>6 DEF Timers

LEMMA TypeStep == GrantsTypeOK /\ MintedInv /\ [GrantsNext]_grantsVars => GrantsTypeOK'
<1>1. ASSUME GrantsTypeOK, UNCHANGED grantsVars PROVE GrantsTypeOK'
  BY <1>1 DEF grantsVars, GrantsTypeOK
<1> QED BY <1>1, ClientTypes, TimerTypes DEF GrantsNext

\* a token is minted once, and the answer to a logout is not taken back
LEMMA HistoryGrows ==
  ASSUME GrantsTypeOK, [GrantsNext]_grantsVars
  PROVE  /\ \A t \in Tokens : minted[t] # None => minted'[t] = minted[t]
         /\ loggedOut \subseteq loggedOut'
<1>1. ASSUME NEW n \in Names, NEW u \in Tokens, GetNonce(n, u)
      PROVE  /\ \A t \in Tokens : minted[t] # None => minted'[t] = minted[t]
             /\ loggedOut \subseteq loggedOut'
  BY <1>1 DEF GetNonce, GrantsTypeOK
<1> QED
  BY <1>1 DEF GrantsNext, Clients, Timers, grantsVars, Request, Logout, WsLogin, TcpLogin,
         WsDisconnect, TcpDisconnect, Sweep, WsKeepAlive, TcpKeepAlive, Tick,
         WsLoginCompleted, ReloadAuthentication

\* so who has left has left for ever
LEMMA LeftForEver ==
  ASSUME GrantsTypeOK, [GrantsNext]_grantsVars, NEW t \in Tokens, LeftFor(t)
  PROVE  t \in loggedOut' /\ LogoutUser[minted'[t]] = minted'[t]
<1>1. t \in loggedOut' /\ minted'[t] = minted[t]
  BY HistoryGrows DEF LeftFor, GrantsTypeOK
<1> QED BY <1>1 DEF LeftFor

LEMMA MintedStep == GrantsTypeOK /\ MintedInv /\ [GrantsNext]_grantsVars => MintedInv'
<1> SUFFICES ASSUME GrantsTypeOK, MintedInv, [GrantsNext]_grantsVars,
                    NEW t \in Tokens, grants'[t] # None
             PROVE  grants'[t].name = minted'[t]
  BY DEF MintedInv
<1> DEFINE Stays(g) == g[t] # None => grants[t] # None /\ g[t].name = grants[t].name
<1>1. ASSUME Stays(grants') PROVE grants'[t].name = minted'[t]
  <2>1. grants[t] # None /\ grants'[t].name = minted[t] BY <1>1 DEF MintedInv
  <2>2. minted[t] # None BY <2>1, GrantType, NoneIsNothing DEF MintedInv
  <2> QED BY <2>1, <2>2, HistoryGrows
<1>2. ASSUME NEW C PROVE Stays(Renewed(C))
  BY DEF Renewed, Granted
<1>3. ASSUME NEW n \in Names, NEW u \in Tokens PROVE Stays(Verified(n, u))
  <2>1. Stays(Removed(n, u)) BY DEF Removed, GrantsTypeOK
  <2> QED BY <1>2, <2>1 DEF Verified
<1>4. ASSUME NEW n \in Names, NEW u \in Tokens, GetNonce(n, u)
      PROVE  grants'[t].name = minted'[t]
  <2>1. CASE u = t BY <1>4, <2>1 DEF GetNonce, GrantsTypeOK
  <2>2. CASE u # t BY <1>1, <1>4, <2>2 DEF GetNonce, GrantsTypeOK
  <2> QED BY <2>1, <2>2
<1>5. ASSUME NEW n \in Names, NEW u \in Tokens, Logout(n, u) PROVE Stays(grants')
  BY <1>3, <1>5 DEF Logout, GrantsTypeOK
<1>6. ASSUME Tick PROVE Stays(grants') BY <1>6 DEF Tick
<1>7. ASSUME Sweep PROVE Stays(grants') BY <1>7 DEF Sweep
<1> HIDE DEF Stays
<1>8. Stays(grants) BY DEF Stays
<1>9. CASE Clients
  BY <1>1, <1>3, <1>4, <1>5, <1>8, <1>9
  DEF Clients, Request, WsLogin, TcpLogin, WsDisconnect, TcpDisconnect
<1>10. CASE Timers \/ ReloadAuthentication \/ UNCHANGED grantsVars
  <2>1. CASE Sweep BY <1>1, <1>7, <2>1
  <2>2. CASE Tick BY <1>1, <1>6, <2>2
  <2> QED
    BY <1>1, <1>2, <1>8, <1>10, <2>1, <2>2
    DEF Timers, WsKeepAlive, TcpKeepAlive, WsLoginCompleted, ReloadAuthentication, grantsVars
<1> QED BY <1>9, <1>10 DEF GrantsNext

-----------------------------------------------------------------------------
(* The tokens of sessions. *)

\* grants survive with what they have left, up to the expiration, until their logout
Kept ==
  \A n \in Names, t \in Tokens, k \in Int :
    ~LeftFor(t)' /\ 0 <= k /\ k <= expires /\ Granted(n, t) /\ grants[t].left >= k =>
      grants'[t] # None /\ grants'[t].name = n /\ grants'[t].left >= k

\* every step but Tick keeps the grants
LEMMA ClientsKeep == GrantsTypeOK /\ MintedInv /\ Clients => Kept
<1> SUFFICES ASSUME GrantsTypeOK, MintedInv, Clients,
                    NEW n \in Names, NEW t \in Tokens, NEW k \in Int,
                    ~LeftFor(t)', 0 <= k, k <= expires,
                    Granted(n, t), grants[t].left >= k
             PROVE  grants'[t] # None /\ grants'[t].name = n /\ grants'[t].left >= k
  BY DEF Kept
<1> DEFINE Survives == grants'[t] # None /\ grants'[t].name = n /\ grants'[t].left >= k
<1>1. ASSUME NEW m \in Names, NEW u \in Tokens, grants' = Verified(m, u) PROVE Survives
  BY <1>1, VerifiedKeeps
<1>2. ASSUME UNCHANGED grants PROVE Survives
  BY <1>2 DEF Granted
<1>3. ASSUME NEW m \in Names, NEW u \in Tokens, GetNonce(m, u) PROVE Survives
  <2>1. u # t BY <1>3, GrantType, NoneIsNothing DEF GetNonce, MintedInv, Granted
  <2> QED BY <1>3, <2>1 DEF GetNonce, GrantsTypeOK, Granted
<1>4. ASSUME NEW m \in Names, NEW u \in Tokens, Logout(m, u) PROVE Survives
  <2>1. u \in loggedOut' /\ minted'[u] = m
    BY <1>4 DEF Logout, Valid, Granted, MintedInv
  <2>2. CASE LogoutUser[m] = m
    <3>1. u # t BY <2>1, <2>2 DEF LeftFor
    <3> QED BY <1>4, <2>2, <3>1 DEF Logout, GrantsTypeOK, Granted
  <2> QED BY <1>1, <1>4, <2>2 DEF Logout
<1> QED
  BY <1>1, <1>2, <1>3, <1>4 DEF Clients, Request, WsLogin, TcpLogin, WsDisconnect, TcpDisconnect

LEMMA TimersKeep == GrantsTypeOK /\ (Timers \/ ReloadAuthentication) /\ ~Tick => Kept
<1> SUFFICES ASSUME GrantsTypeOK, Timers \/ ReloadAuthentication, ~Tick,
                    NEW n \in Names, NEW t \in Tokens, NEW k \in Int,
                    ~LeftFor(t)', 0 <= k, k <= expires,
                    Granted(n, t), grants[t].left >= k
             PROVE  grants'[t] # None /\ grants'[t].name = n /\ grants'[t].left >= k
  BY DEF Kept
<1> DEFINE Survives == grants'[t] # None /\ grants'[t].name = n /\ grants'[t].left >= k
<1>1. ASSUME NEW C, grants' = Renewed(C) PROVE Survives
  BY <1>1, RenewedKeeps
<1>2. CASE Sweep
  <2>1. grants[t] # None BY DEF Granted
  <2>2. ~(grants[t].left < 0) BY <2>1, GrantType
  <2> QED BY <1>2, <2>2 DEF Sweep, Granted
<1> QED
  BY <1>1, <1>2
  DEF Timers, WsKeepAlive, TcpKeepAlive, WsLoginCompleted, ReloadAuthentication, Granted

\* a Tick takes one unit from each grant that has some left
LEMMA TickAges ==
  ASSUME GrantsTypeOK, Tick, NEW n \in Names, NEW t \in Tokens, NEW k \in Int,
         0 < k, Granted(n, t), grants[t].left >= k
  PROVE  grants'[t] # None /\ grants'[t].name = n /\ grants'[t].left >= k - 1
<1>1. grants[t] # None /\ grants[t].name = n BY DEF Granted
<1>2. grants[t].left \in Int /\ grants[t].left >= 0 BY <1>1, GrantType
<1>3. grants'[t] = [name |-> n, left |-> grants[t].left - 1]
  BY <1>1, <1>2 DEF Tick
<1>4. [name |-> n, left |-> grants[t].left - 1] # None BY <1>2, NoneIsNothing
<1> QED BY <1>2, <1>3, <1>4

\* what sessions must have left never exceeds what a verified token has
LEMMA Margins ==
  ASSUME GrantsTypeOK, Timely
  PROVE  /\ Margin(sinceWs) \in Int /\ 0 <= Margin(sinceWs) /\ Margin(sinceWs) <= expires
         /\ Margin(sinceTcp) \in Int /\ 0 <= Margin(sinceTcp) /\ Margin(sinceTcp) <= expires
         /\ Margin(0) \in Nat /\ Margin(0) <= expires
         /\ \A s \in WsSockets : waiting[s] # None =>
              /\ waiting[s].name \in Names /\ waiting[s].token \in Tokens
              /\ waiting[s].waited \in 0..TakeOverWait
              /\ Margin(0) + TakeOverWait - waiting[s].waited \in Nat
              /\ Margin(0) + TakeOverWait - waiting[s].waited <= expires
<1>1. expires \in Nat /\ interval \in Nat /\ Lag \in Nat /\ TakeOverWait \in Nat
      /\ Margin(0) + TakeOverWait <= expires
  BY Times
<1>2. sinceWs \in 0..(interval + Lag) /\ sinceTcp \in 0..(interval + Lag) BY DEF GrantsTypeOK
<1>3. Margin(0) \in Nat /\ Margin(0) = interval + Lag BY <1>1 DEF Margin
<1>4. ASSUME NEW s \in WsSockets, waiting[s] # None
      PROVE  waiting[s] \in [name : Names, token : Tokens, waited : 0..TakeOverWait]
  BY <1>4 DEF GrantsTypeOK
<1> QED BY <1>1, <1>2, <1>3, <1>4 DEF Margin

\* the sessions that a Kept step leaves as they are
LEMMA WsKept ==
  ASSUME GrantsTypeOK, Timely, WsInv, Kept, [GrantsNext]_grantsVars,
         NEW s \in WsSockets, wsid'[s] # None, wsid'[s] = wsid[s],
         ~LeftFor(wsid[s].token)'
  PROVE  Granted(wsid[s].name, wsid[s].token)' /\ grants'[wsid[s].token].left >= Margin(sinceWs)
<1>1. wsid[s].name \in Names /\ wsid[s].token \in Tokens BY DEF GrantsTypeOK, Credentials
<1>2. ~LeftFor(wsid[s].token) BY <1>1, LeftForEver DEF LeftFor
<1>3. HasLeft(wsid[s], Margin(sinceWs)) BY <1>2 DEF WsInv
<1> QED BY <1>1, <1>3, Margins DEF Kept, HasLeft, Granted

LEMMA WsStep ==
  ASSUME GrantsTypeOK, Timely, MintedInv, WsInv, WaitInv, [GrantsNext]_grantsVars
  PROVE  WsInv'
<1> SUFFICES ASSUME NEW s \in WsSockets, wsid'[s] # None, ~LeftFor(wsid[s].token)'
             PROVE  HasLeft(wsid[s], Margin(sinceWs))'
  BY DEF WsInv
<1>0. ASSUME wsid'[s] = wsid[s] PROVE ~LeftFor(wsid[s].token)
  <2>1. wsid[s].token \in Tokens BY <1>0 DEF GrantsTypeOK, Credentials
  <2> QED BY <1>0, <2>1, LeftForEver DEF LeftFor
<1>1. ASSUME Kept, wsid'[s] = wsid[s], sinceWs' = sinceWs, interval' = interval
      PROVE  HasLeft(wsid[s], Margin(sinceWs))'
  BY <1>1, WsKept DEF HasLeft, Granted, Margin
<1>2. ASSUME NEW m \in Names, NEW t \in Tokens, NEW x \in WsSockets, WsLogin(x, m, t),
             wsid'[s] # wsid[s]
      PROVE  HasLeft(wsid[s], Margin(sinceWs))'
  <2>1. Valid(m, t) /\ wsid'[s] = [name |-> m, token |-> t] BY <1>2 DEF WsLogin, GrantsTypeOK
  <2>2. grants'[t] # None /\ grants'[t].name = m /\ grants'[t].left = expires
    BY <1>2, <2>1, VerifiedIsFresh DEF WsLogin
  <2>3. sinceWs' = sinceWs /\ interval' = interval BY <1>2 DEF WsLogin, clocks, settings
  <2> QED BY <2>1, <2>2, <2>3, Margins DEF HasLeft, Granted, Margin
<1>3. CASE Clients
  <2>1. Kept BY <1>3, ClientsKeep
  <2>2. sinceWs' = sinceWs /\ interval' = interval
    BY <1>3 DEF Clients, GetNonce, Request, Logout, WsLogin, TcpLogin, WsDisconnect,
                TcpDisconnect, clocks, settings
  <2>3. wsid'[s] = wsid[s]
        \/ \E x \in WsSockets, m \in Names, t \in Tokens : WsLogin(x, m, t) /\ wsid'[s] # wsid[s]
    BY <1>3 DEF Clients, GetNonce, Request, Logout, TcpLogin, WsDisconnect, TcpDisconnect,
                sessions, GrantsTypeOK
  <2> QED BY <1>1, <1>2, <2>1, <2>2, <2>3
<1>4. CASE WsKeepAlive
  <2>1. wsid'[s] = wsid[s] /\ sinceWs' = 0 /\ interval' = interval
    BY <1>4 DEF WsKeepAlive, sessions, settings
  <2>2. wsid[s].name \in Names /\ wsid[s].token \in Tokens
    BY <2>1 DEF GrantsTypeOK, Credentials
  <2>3. Granted(wsid[s].name, wsid[s].token) BY <1>0, <2>1 DEF WsInv, HasLeft
  <2>4. wsid[s] \in WsCredentials BY <2>1 DEF WsCredentials
  <2>5. grants'[wsid[s].token] = [name |-> wsid[s].name, left |-> expires]
    BY <1>4, <2>2, <2>3, <2>4 DEF WsKeepAlive, Renewed, Granted
  <2>6. [name |-> wsid[s].name, left |-> expires] # None BY <2>2, Times, NoneIsNothing
  <2> QED BY <2>1, <2>5, <2>6, Margins DEF HasLeft, Granted, Margin
<1>5. CASE Tick
  <2>1. wsid'[s] = wsid[s] /\ sinceWs' = sinceWs + 1 /\ interval' = interval
    BY <1>5 DEF Tick, settings
  <2>2. wsid[s].name \in Names /\ wsid[s].token \in Tokens
    BY <2>1 DEF GrantsTypeOK, Credentials
  <2>3. HasLeft(wsid[s], Margin(sinceWs)) BY <1>0, <2>1 DEF WsInv
  <2>4. Margin(sinceWs) \in Int /\ 0 < Margin(sinceWs)
    BY <1>5, Times DEF Tick, GrantsTypeOK, Margin
  <2>5. Granted(wsid[s].name, wsid[s].token)'
        /\ grants'[wsid[s].token].left >= Margin(sinceWs) - 1
    BY <1>5, <2>1, <2>2, <2>3, <2>4, TickAges DEF HasLeft, Granted
  <2>6. Margin(sinceWs)' = Margin(sinceWs) - 1 BY <2>1, Times DEF Margin, GrantsTypeOK
  <2> QED BY <2>1, <2>5, <2>6 DEF HasLeft
<1>6. ASSUME NEW x \in WsSockets, WsLoginCompleted(x), wsid'[s] # wsid[s]
      PROVE  HasLeft(wsid[s], Margin(sinceWs))'
  <2>1. /\ x = s /\ waiting[s] # None
        /\ wsid'[s] = [name |-> waiting[s].name, token |-> waiting[s].token]
    BY <1>6 DEF WsLoginCompleted, GrantsTypeOK
  <2>2. grants' = grants /\ sinceWs' = sinceWs /\ interval' = interval
    BY <1>6 DEF WsLoginCompleted, settings, clocks
  <2>3. HasLeft(waiting[s], Margin(0) + TakeOverWait - waiting[s].waited)
    <3>1. waiting[s].token \in Tokens BY <2>1, Margins
    <3>2. ~LeftFor(waiting[s].token) BY <2>1, <3>1, LeftForEver DEF LeftFor
    <3> QED BY <2>1, <3>2 DEF WaitInv
  <2>4. grants[waiting[s].token].left \in Int
    BY <2>1, <2>3, Margins, GrantType DEF HasLeft, Granted
  <2>5. Margin(0) + TakeOverWait - waiting[s].waited >= Margin(sinceWs)
    BY <2>1, Margins, Times DEF Margin, GrantsTypeOK
  <2>6. grants[waiting[s].token].left >= Margin(sinceWs)
    BY <2>1, <2>3, <2>4, <2>5, Margins DEF HasLeft
  <2> QED BY <2>1, <2>2, <2>3, <2>6 DEF HasLeft, Granted, Margin
<1>7. CASE Sweep \/ TcpKeepAlive \/ ReloadAuthentication \/ \E x \in WsSockets : WsLoginCompleted(x)
  <2>1. ~Tick \/ Tick OBVIOUS
  <2>2. CASE Tick BY <1>5, <2>2
  <2>3. CASE ~Tick
    <3>1. Kept BY <1>7, <2>3, TimersKeep DEF Timers
    <3>2. sinceWs' = sinceWs /\ interval' = interval
      BY <1>7 DEF Sweep, TcpKeepAlive, ReloadAuthentication, WsLoginCompleted, settings, clocks
    <3>3. wsid'[s] = wsid[s] \/ \E x \in WsSockets : WsLoginCompleted(x) /\ wsid'[s] # wsid[s]
      BY <1>7 DEF Sweep, TcpKeepAlive, ReloadAuthentication, sessions
    <3> QED BY <1>1, <1>6, <3>1, <3>2, <3>3
  <2> QED BY <2>2, <2>3
<1>8. CASE UNCHANGED grantsVars
  <2>1. Kept BY <1>8 DEF grantsVars, Kept, Granted
  <2> QED BY <1>1, <1>8, <2>1 DEF grantsVars
<1> QED BY <1>3, <1>4, <1>5, <1>7, <1>8 DEF GrantsNext, Timers

LEMMA WaitStep ==
  ASSUME GrantsTypeOK, Timely, MintedInv, WaitInv, [GrantsNext]_grantsVars
  PROVE  WaitInv'
<1> DEFINE left(w) == Margin(0) + TakeOverWait - w.waited
<1> SUFFICES ASSUME NEW s \in WsSockets, waiting'[s] # None, ~LeftFor(waiting[s].token)'
             PROVE  HasLeft(waiting[s], left(waiting[s]))'
  BY DEF WaitInv
<1>0. ASSUME waiting[s] # None, waiting'[s].token = waiting[s].token
      PROVE  ~LeftFor(waiting[s].token)
  <2>1. waiting[s].token \in Tokens BY <1>0, Margins
  <2> QED BY <1>0, <2>1, LeftForEver DEF LeftFor
<1>1. ASSUME Kept, waiting'[s] = waiting[s], interval' = interval
      PROVE  HasLeft(waiting[s], left(waiting[s]))'
  <2>1. HasLeft(waiting[s], left(waiting[s])) BY <1>0, <1>1 DEF WaitInv
  <2>2. /\ waiting[s].name \in Names /\ waiting[s].token \in Tokens
        /\ left(waiting[s]) \in Nat /\ left(waiting[s]) <= expires
    BY <1>1, Margins
  <2>3. left(waiting[s])' = left(waiting[s]) BY <1>1 DEF Margin
  <2> QED BY <1>1, <2>1, <2>2, <2>3 DEF Kept, HasLeft, Granted
<1>2. ASSUME NEW m \in Names, NEW t \in Tokens, NEW x \in WsSockets, WsLogin(x, m, t),
             waiting'[s] # waiting[s]
      PROVE  HasLeft(waiting[s], left(waiting[s]))'
  <2>1. Valid(m, t) /\ waiting'[s] = [name |-> m, token |-> t, waited |-> 0]
    BY <1>2 DEF WsLogin, GrantsTypeOK
  <2>2. grants'[t] # None /\ grants'[t].name = m /\ grants'[t].left = expires
    BY <1>2, <2>1, VerifiedIsFresh DEF WsLogin
  <2>3. interval' = interval BY <1>2 DEF WsLogin, settings
  <2> QED BY <2>1, <2>2, <2>3, Times DEF HasLeft, Granted, Margin
<1>3. CASE Clients
  <2>1. Kept BY <1>3, ClientsKeep
  <2>2. interval' = interval
    BY <1>3 DEF Clients, GetNonce, Request, Logout, WsLogin, TcpLogin, WsDisconnect,
                TcpDisconnect, settings
  <2>3. waiting'[s] = waiting[s]
        \/ \E x \in WsSockets, m \in Names, t \in Tokens :
             WsLogin(x, m, t) /\ waiting'[s] # waiting[s]
    BY <1>3 DEF Clients, GetNonce, Request, Logout, TcpLogin, WsDisconnect, TcpDisconnect,
                sessions, GrantsTypeOK
  <2> QED BY <1>1, <1>2, <2>1, <2>2, <2>3
<1>4. CASE Tick
  <2>1. interval' = interval /\ waiting[s] # None
        /\ waiting'[s] = [name |-> waiting[s].name, token |-> waiting[s].token,
                          waited |-> waiting[s].waited + 1]
    BY <1>4 DEF Tick, settings
  <2>2. HasLeft(waiting[s], left(waiting[s])) BY <1>0, <2>1 DEF WaitInv
  <2>3. /\ waiting[s].name \in Names /\ waiting[s].token \in Tokens
        /\ left(waiting[s]) \in Int /\ waiting[s].waited \in Nat /\ Margin(0) \in Nat
    BY <2>1, Margins, Times
  <2>4. 0 < left(waiting[s])
    BY <1>4, <2>1, <2>3, Times DEF Tick
  <2>5. Granted(waiting[s].name, waiting[s].token)'
        /\ grants'[waiting[s].token].left >= left(waiting[s]) - 1
    BY <1>4, <2>1, <2>2, <2>3, <2>4, TickAges DEF HasLeft, Granted
  <2>6. left(waiting[s])' = left(waiting[s]) - 1
    BY <2>1, <2>3, Times DEF Margin
  <2> QED BY <2>1, <2>5, <2>6 DEF HasLeft, Granted
<1>5. CASE (Timers \/ ReloadAuthentication) /\ ~Tick
  <2>1. Kept BY <1>5, TimersKeep
  <2>2. interval' = interval /\ waiting'[s] = waiting[s]
    BY <1>5 DEF Timers, Sweep, WsKeepAlive, TcpKeepAlive, ReloadAuthentication, WsLoginCompleted, settings,
                sessions, GrantsTypeOK
  <2> QED BY <1>1, <2>1, <2>2
<1>6. CASE UNCHANGED grantsVars
  <2>1. Kept BY <1>6 DEF grantsVars, Kept, Granted
  <2> QED BY <1>1, <1>6, <2>1 DEF grantsVars
<1> QED BY <1>3, <1>4, <1>5, <1>6 DEF GrantsNext

LEMMA TcpStep ==
  ASSUME GrantsTypeOK, Timely, MintedInv, TcpInv, [GrantsNext]_grantsVars
  PROVE  TcpInv'
<1>m. ASSUME NEW c \in TcpSockets, tcp'[c] # None PROVE minted'[tcp'[c].token] # None
  <2>1. CASE tcp'[c] = tcp[c]
    <3>1. tcp[c].token \in Tokens /\ minted[tcp[c].token] # None
      BY <1>m, <2>1 DEF TcpInv, GrantsTypeOK, Credentials
    <3> QED BY <2>1, <3>1, HistoryGrows
  <2>2. CASE tcp'[c] # tcp[c]
    <3>1. PICK x \in TcpSockets, m \in Names, t \in Tokens : TcpLogin(x, m, t)
      BY <1>m, <2>2
      DEF GrantsNext, Clients, Timers, GetNonce, Request, Logout, WsLogin, WsDisconnect,
          TcpDisconnect, Sweep, WsKeepAlive, TcpKeepAlive, Tick, ReloadAuthentication,
          WsLoginCompleted, sessions, grantsVars, GrantsTypeOK
    <3> QED BY <1>m, <2>2, <3>1 DEF TcpLogin, GrantsTypeOK
  <2> QED BY <2>1, <2>2
<1> SUFFICES ASSUME NEW c \in TcpSockets, tcp'[c] # None,
                    tcp'[c].name = minted'[tcp'[c].token], ~LeftFor(tcp[c].token)'
             PROVE  HasLeft(tcp[c], Margin(sinceTcp))'
  BY <1>m DEF TcpInv
<1>0. ASSUME tcp'[c] = tcp[c]
      PROVE  tcp[c].name = minted[tcp[c].token] /\ ~LeftFor(tcp[c].token)
  <2>1. tcp[c].token \in Tokens /\ minted[tcp[c].token] # None
    BY <1>0 DEF TcpInv, GrantsTypeOK, Credentials
  <2> QED BY <1>0, <2>1, LeftForEver, HistoryGrows DEF LeftFor
<1>1. ASSUME Kept, tcp'[c] = tcp[c], sinceTcp' = sinceTcp, interval' = interval
      PROVE  HasLeft(tcp[c], Margin(sinceTcp))'
  <2>1. tcp[c].name \in Names /\ tcp[c].token \in Tokens BY <1>1 DEF GrantsTypeOK, Credentials
  <2>2. HasLeft(tcp[c], Margin(sinceTcp)) BY <1>0, <1>1 DEF TcpInv
  <2>3. Margin(sinceTcp)' = Margin(sinceTcp) BY <1>1 DEF Margin
  <2> QED BY <1>1, <2>1, <2>2, <2>3, Margins DEF Kept, HasLeft, Granted
<1>2. ASSUME NEW m \in Names, NEW t \in Tokens, NEW x \in TcpSockets, TcpLogin(x, m, t),
             tcp'[c] # tcp[c]
      PROVE  HasLeft(tcp[c], Margin(sinceTcp))'
  <2>1. Valid(m, t) /\ tcp'[c] = [name |-> TcpUser[m], token |-> t] /\ minted' = minted
    BY <1>2 DEF TcpLogin, GrantsTypeOK
  <2>0. TcpUser[m] = m BY <2>1 DEF Valid, Granted, MintedInv
  <2>2. grants'[t] # None /\ grants'[t].name = m /\ grants'[t].left = expires
    BY <1>2, <2>1, VerifiedIsFresh DEF TcpLogin
  <2>3. sinceTcp' = sinceTcp /\ interval' = interval BY <1>2 DEF TcpLogin, clocks, settings
  <2> QED BY <2>0, <2>1, <2>2, <2>3, Margins DEF HasLeft, Granted, Margin
<1>3. CASE Clients
  <2>1. Kept BY <1>3, ClientsKeep
  <2>2. sinceTcp' = sinceTcp /\ interval' = interval
    BY <1>3 DEF Clients, GetNonce, Request, Logout, WsLogin, TcpLogin, WsDisconnect,
                TcpDisconnect, clocks, settings
  <2>3. tcp'[c] = tcp[c]
        \/ \E x \in TcpSockets, m \in Names, t \in Tokens : TcpLogin(x, m, t) /\ tcp'[c] # tcp[c]
    BY <1>3 DEF Clients, GetNonce, Request, Logout, WsLogin, WsDisconnect, TcpDisconnect,
                sessions, GrantsTypeOK
  <2> QED BY <1>1, <1>2, <2>1, <2>2, <2>3
<1>4. CASE TcpKeepAlive
  <2>1. tcp'[c] = tcp[c] /\ sinceTcp' = 0 /\ interval' = interval
    BY <1>4 DEF TcpKeepAlive, sessions, settings
  <2>2. tcp[c].name \in Names /\ tcp[c].token \in Tokens
    BY <2>1 DEF GrantsTypeOK, Credentials
  <2>3. Granted(tcp[c].name, tcp[c].token) BY <1>0, <2>1 DEF TcpInv, HasLeft
  <2>4. tcp[c] \in TcpCredentials BY <2>1 DEF TcpCredentials
  <2>5. grants'[tcp[c].token] = [name |-> tcp[c].name, left |-> expires]
    BY <1>4, <2>2, <2>3, <2>4 DEF TcpKeepAlive, Renewed, Granted
  <2>6. [name |-> tcp[c].name, left |-> expires] # None BY <2>2, Times, NoneIsNothing
  <2> QED BY <2>1, <2>5, <2>6, Margins DEF HasLeft, Granted, Margin
<1>5. CASE Tick
  <2>1. tcp'[c] = tcp[c] /\ sinceTcp' = sinceTcp + 1 /\ interval' = interval
    BY <1>5 DEF Tick, settings
  <2>2. tcp[c].name \in Names /\ tcp[c].token \in Tokens
    BY <2>1 DEF GrantsTypeOK, Credentials
  <2>3. HasLeft(tcp[c], Margin(sinceTcp)) BY <1>0, <2>1 DEF TcpInv
  <2>4. Margin(sinceTcp) \in Int /\ 0 < Margin(sinceTcp)
    BY <1>5, Times DEF Tick, GrantsTypeOK, Margin
  <2>5. Granted(tcp[c].name, tcp[c].token)'
        /\ grants'[tcp[c].token].left >= Margin(sinceTcp) - 1
    BY <1>5, <2>1, <2>2, <2>3, <2>4, TickAges DEF HasLeft, Granted
  <2>6. Margin(sinceTcp)' = Margin(sinceTcp) - 1 BY <2>1, Times DEF Margin, GrantsTypeOK
  <2> QED BY <2>1, <2>5, <2>6 DEF HasLeft
<1>6. CASE (Timers \/ ReloadAuthentication) /\ ~Tick /\ ~TcpKeepAlive
  <2>1. Kept BY <1>6, TimersKeep
  <2>2. interval' = interval /\ tcp'[c] = tcp[c] /\ sinceTcp' = sinceTcp
    BY <1>6 DEF Timers, Sweep, WsKeepAlive, ReloadAuthentication, WsLoginCompleted, settings, sessions, clocks
  <2> QED BY <1>1, <2>1, <2>2
<1>7. CASE UNCHANGED grantsVars
  <2>1. Kept BY <1>7 DEF grantsVars, Kept, Granted
  <2> QED BY <1>1, <1>7, <2>1 DEF grantsVars
<1> QED BY <1>3, <1>4, <1>5, <1>6, <1>7 DEF GrantsNext

-----------------------------------------------------------------------------
(* Logout and expiration. *)

LEMMA LogoutStep ==
  ASSUME GrantsTypeOK, MintedInv, LogoutIsFinal, [GrantsNext]_grantsVars
  PROVE  LogoutIsFinal'
<1> SUFFICES ASSUME NEW t \in Tokens, t \in loggedOut', LogoutUser[minted'[t]] = minted'[t]
             PROVE  grants'[t] = None
  BY DEF LogoutIsFinal, LeftFor
<1>0. ASSUME t \in loggedOut PROVE grants[t] = None /\ minted[t] # None
  <2>1. minted[t] # None BY <1>0 DEF GrantsTypeOK
  <2> QED BY <1>0, <2>1, HistoryGrows DEF LogoutIsFinal, LeftFor
<1>1. ASSUME NEW n \in Names, NEW u \in Tokens, Logout(n, u) PROVE grants'[t] = None
  <2>1. CASE u = t
    <3>1. minted'[t] = n BY <1>1, <2>1 DEF Logout, Valid, Granted, MintedInv
    <3> QED BY <1>1, <2>1, <3>1 DEF Logout, GrantsTypeOK
  <2>2. CASE u # t
    <3>1. grants[t] = None BY <1>0, <1>1, <2>2 DEF Logout
    <3> QED BY <1>1, <3>1, NoneStaysNone DEF Logout, GrantsTypeOK
  <2> QED BY <2>1, <2>2
<1>2. ASSUME loggedOut' = loggedOut PROVE grants'[t] = None
  <2>1. grants[t] = None /\ minted[t] # None BY <1>0, <1>2
  <2>2. CASE Clients
    BY <1>1, <2>1, <2>2, NoneStaysNone
    DEF Clients, GetNonce, Request, WsLogin, TcpLogin, WsDisconnect, TcpDisconnect, GrantsTypeOK
  <2>3. CASE Timers \/ ReloadAuthentication \/ UNCHANGED grantsVars
    BY <2>1, <2>3, NoneStaysNone
    DEF Timers, Sweep, WsKeepAlive, TcpKeepAlive, Tick, WsLoginCompleted, ReloadAuthentication, grantsVars
  <2> QED BY <2>2, <2>3 DEF GrantsNext
<1>3. loggedOut' = loggedOut \/ \E n \in Names, u \in Tokens : Logout(n, u)
  BY DEF GrantsNext, Clients, Timers, grantsVars, GetNonce, Request, WsLogin, TcpLogin, WsDisconnect,
         TcpDisconnect, Sweep, WsKeepAlive, TcpKeepAlive, Tick, WsLoginCompleted, ReloadAuthentication
<1> QED BY <1>1, <1>2, <1>3

\* no session is left to renew a token that has expired
LEMMA ExpiredStep ==
  ASSUME GrantsTypeOK, Timely, MintedInv, WsInv, TcpInv, LogoutIsFinal, GrantsNext,
         NEW t \in Tokens, grants[t] # None, grants[t].left < 0
  PROVE  grants'[t] = None \/ grants'[t] = grants[t]
<1>1. minted[t] # None /\ grants[t].name = minted[t] /\ ~LeftFor(t)
  BY GrantType, NoneIsNothing DEF MintedInv, LogoutIsFinal
<1>2. ASSUME NEW n \in Names, NEW u \in Tokens
      PROVE  Verified(n, u)[t] = None \/ Verified(n, u)[t] = grants[t]
  <2>1. CASE Valid(n, u)
    <3>1. u # t BY <2>1, GrantType DEF Valid
    <3> QED BY <2>1, <3>1 DEF Verified, Renewed
  <2>2. CASE ~Valid(n, u)
    BY <2>2 DEF Verified, Removed, GrantsTypeOK
  <2> QED BY <2>1, <2>2
<1>3. CASE Clients
  <2>1. ASSUME NEW n \in Names, NEW u \in Tokens, GetNonce(n, u) PROVE grants'[t] = grants[t]
    BY <1>1, <2>1 DEF GetNonce, GrantsTypeOK
  <2>2. ASSUME NEW n \in Names, NEW u \in Tokens, Logout(n, u)
        PROVE  grants'[t] = None \/ grants'[t] = grants[t]
    BY <1>2, <2>2 DEF Logout, GrantsTypeOK
  <2> QED
    BY <1>2, <1>3, <2>1, <2>2 DEF Clients, Request, WsLogin, TcpLogin, WsDisconnect, TcpDisconnect
<1>4. ASSUME NEW C, \A c \in C : ~(c.token = t /\ Granted(c.name, t)) PROVE Renewed(C)[t] = grants[t]
  BY <1>4 DEF Renewed
<1>5. CASE WsKeepAlive
  <2>1. ASSUME NEW s \in WsSockets, wsid[s] # None, wsid[s].token = t PROVE FALSE
    <3>1. HasLeft(wsid[s], Margin(sinceWs)) BY <1>1, <2>1 DEF WsInv
    <3> QED BY <2>1, <3>1, Margins, GrantType DEF HasLeft
  <2> QED BY <1>4, <1>5, <2>1 DEF WsKeepAlive, WsCredentials
<1>6. CASE TcpKeepAlive
  <2>1. ASSUME NEW c \in TcpSockets, tcp[c] # None, tcp[c].token = t, tcp[c].name = minted[t]
        PROVE  FALSE
    <3>1. HasLeft(tcp[c], Margin(sinceTcp)) BY <1>1, <2>1 DEF TcpInv
    <3> QED BY <2>1, <3>1, Margins, GrantType DEF HasLeft
  <2> QED BY <1>1, <1>4, <1>6, <2>1 DEF TcpKeepAlive, TcpCredentials, Granted
<1>7. CASE Sweep \/ Tick \/ ReloadAuthentication \/ \E s \in WsSockets : WsLoginCompleted(s)
  <2>1. ~(grants[t].left >= 0) BY GrantType
  <2> QED BY <1>7, <2>1 DEF Sweep, Tick, ReloadAuthentication, WsLoginCompleted
<1> QED BY <1>3, <1>5, <1>6, <1>7 DEF GrantsNext, Timers

-----------------------------------------------------------------------------
\* Grants, sessions and clocks keep their types (authentication.js:22-31, 695-731).
THEOREM GrantsTypeCorrect == GrantsSpec => [](GrantsTypeOK /\ MintedInv)
<1>1. GrantsTypeOK /\ MintedInv /\ [GrantsNext]_grantsVars => (GrantsTypeOK /\ MintedInv)'
  BY TypeStep, MintedStep
<1> QED BY <1>1, InitTypes, PTL DEF GrantsSpec

\* With every expiration long enough for the interval, the token of a websocket
\* session is valid until its logout (com_nethcti_ws.js:1976-1980, 2017-2024), for
\* any number of sockets, tokens and names, and any mapping of the names.
THEOREM WsSessionsKeepTheirTokens ==
  ASSUME Timely
  PROVE  GrantsSpec => []WsTokensLive
<1> DEFINE I == GrantsTypeOK /\ MintedInv /\ WsInv /\ WaitInv
<1>1. GrantsInit => I
  BY InitTypes DEF GrantsInit, WsInv, WaitInv
<1>2. I /\ [GrantsNext]_grantsVars => I'
  BY TypeStep, MintedStep, WsStep, WaitStep
<1>3. I => WsTokensLive
  <2> SUFFICES ASSUME I, NEW s \in WsSockets, wsid[s] # None, ~LeftFor(wsid[s].token)
               PROVE  Valid(wsid[s].name, wsid[s].token)
    BY DEF WsTokensLive
  <2>1. HasLeft(wsid[s], Margin(sinceWs)) BY DEF WsInv
  <2>2. grants[wsid[s].token].left \in Int
    BY <2>1, GrantType DEF HasLeft, Granted, GrantsTypeOK, Credentials
  <2> QED BY <2>1, <2>2, Margins DEF HasLeft, Valid
<1> QED BY <1>1, <1>2, <1>3, PTL DEF GrantsSpec

\* The same for the TCP sessions (com_nethcti_tcp.js:1353-1355, 1368-1375) kept under
\* the access key of their login, however the names are mapped.
THEOREM TcpSessionsKeepTheirTokens ==
  ASSUME Timely
  PROVE  GrantsSpec => []TcpTokensLive
<1> DEFINE I == GrantsTypeOK /\ MintedInv /\ TcpInv
<1>1. GrantsInit => I
  BY InitTypes DEF GrantsInit, TcpInv
<1>2. I /\ [GrantsNext]_grantsVars => I'
  BY TypeStep, MintedStep, TcpStep
<1>3. I => TcpTokensLive
  <2> SUFFICES ASSUME I, NEW c \in TcpSockets, tcp[c] # None,
                      tcp[c].name = minted[tcp[c].token], ~LeftFor(tcp[c].token)
               PROVE  Valid(tcp[c].name, tcp[c].token)
    BY DEF TcpTokensLive
  <2>1. HasLeft(tcp[c], Margin(sinceTcp)) BY DEF TcpInv
  <2>2. grants[tcp[c].token].left \in Int
    BY <2>1, GrantType DEF HasLeft, Granted, GrantsTypeOK, Credentials
  <2> QED BY <2>1, <2>2, Margins DEF HasLeft, Valid
<1> QED BY <1>1, <1>2, <1>3, PTL DEF GrantsSpec

\* A logout that finds its grant is final (authentication.js:1117-1138), however the
\* names are mapped and whatever the sessions of the token renew.
THEOREM LogoutsAreFinal == GrantsSpec => []LogoutIsFinal
<1> DEFINE I == GrantsTypeOK /\ MintedInv /\ LogoutIsFinal
<1>1. GrantsInit => I
  BY InitTypes DEF GrantsInit, LogoutIsFinal, LeftFor
<1>2. I /\ [GrantsNext]_grantsVars => I'
  BY TypeStep, MintedStep, LogoutStep
<1> QED BY <1>1, <1>2, PTL DEF GrantsSpec

\* Expired tokens are not renewed (authentication.js:1152-1171): a session with one is
\* kept under another name than its grant.
THEOREM ExpirationsAreFinal ==
  ASSUME Timely
  PROVE  GrantsSpec => ExpiredIsFinal
<1> DEFINE I == GrantsTypeOK /\ MintedInv /\ WsInv /\ WaitInv /\ TcpInv /\ LogoutIsFinal
           A == \A t \in Tokens : grants[t] # None /\ grants[t].left < 0 =>
                  grants'[t] = None \/ grants'[t].left < 0
<1>1. GrantsInit => I
  BY InitTypes DEF GrantsInit, WsInv, WaitInv, TcpInv, LogoutIsFinal, LeftFor
<1>2. I /\ [GrantsNext]_grantsVars => I'
  BY TypeStep, MintedStep, WsStep, WaitStep, TcpStep, LogoutStep
<1>3. I /\ [GrantsNext]_grantsVars => [A]_grantsVars
  BY ExpiredStep
<1> HIDE DEF I, A
<1>4. GrantsSpec => [][A]_grantsVars
  BY <1>1, <1>2, <1>3, PTL DEF GrantsSpec
<1> QED BY <1>4 DEF ExpiredIsFinal, A
=============================================================================
