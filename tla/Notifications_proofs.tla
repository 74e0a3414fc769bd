------------------------ MODULE Notifications_proofs ------------------------
(***************************************************************************)
(* Proofs about WsSessions and Notifications, for any sockets, users,      *)
(* types of client and permissions and any number of takeovers.            *)
(***************************************************************************)
EXTENDS Notifications, FiniteSetTheorems, SequenceTheorems, NaturalsInduction,
        WellFoundedInduction, TLAPS

-----------------------------------------------------------------------------
(* Numbers, and the elements of a set in the order of their numbers.       *)

(* A set of numbers that is not empty has a least element. *)
LEMMA LeastNumber ==
  ASSUME NEW T \in SUBSET Nat, T # {}
  PROVE  \E x \in T : \A y \in T : x <= y
<1> DEFINE R == OpToRel(<, Nat)
<1>1. IsWellFoundedOn(R, Nat) BY NatLessThanWellFounded
<1>2. \E x \in T : \A y \in T : ~ (<<y, x>> \in R) BY <1>1, WFMin
<1>3. \A x, y \in Nat : y < x => <<y, x>> \in R BY DEF OpToRel
<1> HIDE DEF R
<1>4. PICK x \in T : \A y \in T : ~ (<<y, x>> \in R) BY <1>2
<1>5. \A y \in T : ~ (y < x) BY <1>3, <1>4
<1> QED BY <1>5

(* A bounded one has a greatest element. *)
LEMMA GreatestNumber ==
  ASSUME NEW N \in Nat, NEW T \in SUBSET (0..N), T # {}
  PROVE  \E x \in T : \A y \in T : x >= y
<1> DEFINE U == {N - x : x \in T}
<1>1. U \in SUBSET Nat /\ U # {}
  <2>1. \A x \in T : x \in Int /\ 0 <= x /\ x <= N OBVIOUS
  <2>2. \A x \in T : N - x \in Nat BY <2>1
  <2> QED BY <2>2
<1>2. PICK u \in U : \A v \in U : u <= v BY <1>1, LeastNumber
<1>3. PICK x \in T : u = N - x BY <1>2
<1>4. \A y \in T : N - x <= N - y BY <1>2, <1>3
<1> QED BY <1>4

(* Elements with different numbers have different places, from 1 to their number. *)
LEMMA PlaceProperties ==
  ASSUME NEW S, IsFiniteSet(S), NEW num, \A s \in S : num[s] \in Nat,
         \A a, b \in S : num[a] = num[b] => a = b
  PROVE  /\ \A s \in S : Place(S, num, s) \in 1..Cardinality(S)
         /\ \A a, b \in S : Place(S, num, a) = Place(S, num, b) => a = b
<1> DEFINE Down(s) == {x \in S : num[x] <= num[s]}
<1>1. \A s \in S : /\ s \in Down(s) /\ Down(s) \in SUBSET S
                   /\ IsFiniteSet(Down(s)) /\ Cardinality(Down(s)) \in 1..Cardinality(S)
  <2> TAKE s \in S
  <2>1. s \in Down(s) /\ Down(s) \in SUBSET S OBVIOUS
  <2>2. IsFiniteSet(Down(s)) /\ Cardinality(Down(s)) <= Cardinality(S)
    BY <2>1, FS_Subset
  <2>3. Cardinality(Down(s)) \in Nat /\ Cardinality(S) \in Nat BY <2>2, FS_CardinalityType
  <2>4. Cardinality(Down(s)) # 0 BY <2>1, <2>2, FS_EmptySet
  <2> QED BY <2>1, <2>2, <2>3, <2>4
<1>2. ASSUME NEW a \in S, NEW b \in S, num[a] < num[b]
      PROVE  Cardinality(Down(a)) # Cardinality(Down(b))
  <2>1. Down(a) \in SUBSET Down(b) BY <1>2
  <2>2. b \in Down(b) /\ b \notin Down(a) BY <1>2
  <2> HIDE DEF Down
  <2> QED BY <1>1, <2>1, <2>2, FS_Subset
<1>3. \A s \in S : Place(S, num, s) = Cardinality(Down(s)) BY DEF Place
<1> HIDE DEF Down
<1>4. \A a, b \in S : Place(S, num, a) = Place(S, num, b) => a = b
  <2> TAKE a, b \in S
  <2> HAVE Place(S, num, a) = Place(S, num, b)
  <2>1. ~(num[a] < num[b]) /\ ~(num[b] < num[a]) BY <1>2, <1>3
  <2> QED BY <2>1
<1> QED BY <1>1, <1>3, <1>4

(* InOrder lists every element once. *)
LEMMA InOrderProperties ==
  ASSUME NEW S, IsFiniteSet(S), NEW num, \A s \in S : num[s] \in Nat,
         \A a, b \in S : num[a] = num[b] => a = b
  PROVE  /\ InOrder(S, num) \in Seq(S)
         /\ ToSet(InOrder(S, num)) = S
         /\ IsInjective(InOrder(S, num))
<1> DEFINE n == Cardinality(S)
           f == [s \in S |-> Place(S, num, s)]
           q == InOrder(S, num)
<1>1. n \in Nat BY FS_CardinalityType
<1>2. f \in [S -> 1..n] /\ \A a, b \in S : f[a] = f[b] => a = b BY PlaceProperties
<1>3. IsFiniteSet(1..n) /\ Cardinality(1..n) = n BY <1>1, FS_Interval
<1>4. f \in Injection(S, 1..n) BY <1>2 DEF Injection, IsInjective
<1>5. f \in Surjection(S, 1..n) BY <1>3, <1>4, FS_Injection
<1>6. \A k \in 1..n : \E s \in S : Place(S, num, s) = k BY <1>5 DEF Surjection
<1>7. q = [k \in 1..n |-> CHOOSE s \in S : Place(S, num, s) = k] BY DEF InOrder
<1> HIDE DEF n, q
<1>8. \A k \in 1..n : q[k] \in S /\ Place(S, num, q[k]) = k BY <1>6, <1>7
<1>9. q \in Seq(S) /\ Len(q) = n /\ DOMAIN q = 1..n BY <1>1, <1>7, <1>8
<1>10. \A s \in S : s = q[f[s]] /\ f[s] \in 1..n
  <2> TAKE s \in S
  <2>1. f[s] \in 1..n BY <1>2
  <2>2. q[f[s]] \in S /\ f[q[f[s]]] = f[s] BY <2>1, <1>8
  <2> QED BY <2>1, <2>2, <1>2
<1>11. ToSet(q) = S BY <1>8, <1>9, <1>10 DEF ToSet
<1>12. IsInjective(q) BY <1>8, <1>9 DEF IsInjective
<1> QED BY <1>9, <1>11, <1>12 DEF q

-----------------------------------------------------------------------------
(* The keys of wsid.                                                       *)

(* New keys are put behind the old ones. *)
LEMMA KeysAdded ==
  ASSUME NEW S, NEW k \in Seq(S), NEW q \in Seq(S), IsInjective(k), IsInjective(q),
         ToSet(k) \cap ToSet(q) = {}
  PROVE  /\ k \o q \in Seq(S)
         /\ ToSet(k \o q) = ToSet(k) \cup ToSet(q)
         /\ IsInjective(k \o q)
<1> DEFINE kq == k \o q
           m == Len(k)
           n == Len(q)
<1>1. m \in Nat /\ n \in Nat /\ DOMAIN k = 1..m /\ DOMAIN q = 1..n BY LenProperties
<1>2. /\ kq \in Seq(S) /\ DOMAIN kq = 1..(m + n)
      /\ \A i \in 1..(m + n) : kq[i] = IF i <= m THEN k[i] ELSE q[i - m]
  BY ConcatProperties, LenProperties
<1> HIDE DEF kq, m, n
<1>3. \A i \in 1..m : i \in 1..(m + n) /\ kq[i] = k[i] BY <1>1, <1>2
<1>4. \A i \in 1..n : i + m \in 1..(m + n) /\ kq[i + m] = q[i] BY <1>1, <1>2
<1>5. \A i \in 1..(m + n) : \/ i \in 1..m /\ kq[i] = k[i]
                            \/ i - m \in 1..n /\ kq[i] = q[i - m]
  BY <1>1, <1>2
<1>6. ToSet(kq) = ToSet(k) \cup ToSet(q)
  <2>1. ToSet(kq) \subseteq ToSet(k) \cup ToSet(q) BY <1>1, <1>2, <1>5 DEF ToSet
  <2>2. ToSet(k) \subseteq ToSet(kq) BY <1>1, <1>2, <1>3 DEF ToSet
  <2>3. ToSet(q) \subseteq ToSet(kq)
    <3>1. \A i \in 1..n : \E j \in 1..(m + n) : kq[j] = q[i] BY <1>4
    <3>2. ToSet(q) = {q[i] : i \in 1..n} BY <1>1 DEF ToSet
    <3>3. ToSet(kq) = {kq[j] : j \in 1..(m + n)} BY <1>2 DEF ToSet
    <3> QED BY <3>1, <3>2, <3>3
  <2> QED BY <2>1, <2>2, <2>3
<1>7. IsInjective(kq)
  <2> SUFFICES ASSUME NEW a \in 1..(m + n), NEW b \in 1..(m + n), kq[a] = kq[b]
               PROVE  a = b
    BY <1>2 DEF IsInjective
  <2>1. \A i \in 1..m, j \in 1..n : k[i] # q[j] BY <1>1 DEF ToSet
  <2>2. CASE a \in 1..m /\ b \in 1..m /\ kq[a] = k[a] /\ kq[b] = k[b]
    BY <1>1, <2>2 DEF IsInjective
  <2>3. CASE a - m \in 1..n /\ b - m \in 1..n /\ kq[a] = q[a - m] /\ kq[b] = q[b - m]
    <3>1. a - m = b - m BY <1>1, <2>3 DEF IsInjective
    <3> QED BY <1>1, <3>1
  <2> QED BY <1>5, <2>1, <2>2, <2>3
<1> QED BY <1>2, <1>6, <1>7 DEF kq

(* A key is removed where it is. *)
LEMMA KeyRemoved ==
  ASSUME NEW S, NEW k \in Seq(S), IsInjective(k), NEW e
  PROVE  /\ RemoveFirst(k, e) \in Seq(S)
         /\ ToSet(RemoveFirst(k, e)) = ToSet(k) \ {e}
         /\ IsInjective(RemoveFirst(k, e))
<1> DEFINE n == Len(k)
           r == RemoveFirst(k, e)
<1>1. n \in Nat /\ DOMAIN k = 1..n /\ \A i \in 1..n : k[i] \in S
  BY LenProperties, ElementOfSeq
<1>2. CASE ~ \E i \in 1..n : k[i] = e
  BY <1>1, <1>2 DEF RemoveFirst, ToSet
<1>3. CASE \E i \in 1..n : k[i] = e
  <2>1. PICK j \in 1..n : k[j] = e BY <1>3
  <2> DEFINE I == {i \in 1..n : k[i] = e}
  <2>2. I = {j} BY <1>1, <2>1 DEF IsInjective
  <2>3. Min(I) = j BY <2>1, <2>2 DEF Min
  <2>4. SelectInSeq(k, LAMBDA v : v = e) = j BY <2>2, <2>3 DEF SelectInSeq
  <2>5. r = SubSeq(k, 1, j - 1) \o SubSeq(k, j + 1, n) BY <1>3, <2>4 DEF RemoveFirst, RemoveAt
  <2> DEFINE a == SubSeq(k, 1, j - 1)
             b == SubSeq(k, j + 1, n)
  <2>6. a \in Seq(S) /\ Len(a) = j - 1 /\ \A i \in 1..(j - 1) : a[i] = k[i]
    <3>1. \A i \in 1..(j - 1) : k[i] \in S BY <1>1, <2>1
    <3>2. j - 1 \in Int /\ j - 1 >= 0 BY <1>1, <2>1
    <3> QED BY <3>1, <3>2, SubSeqProperties
  <2>7. b \in Seq(S) /\ Len(b) = n - j /\ \A i \in 1..(n - j) : b[i] = k[i + j]
    <3>1. \A i \in (j + 1)..n : k[i] \in S BY <1>1, <2>1
    <3>2. j + 1 \in Int /\ n \in Int /\ j <= n BY <1>1, <2>1
    <3> HIDE DEF n
    <3>3. /\ b \in Seq(S) /\ Len(b) = IF j + 1 <= n THEN n - (j + 1) + 1 ELSE 0
          /\ \A i \in 1..(n - (j + 1) + 1) : b[i] = k[j + 1 + i - 1]
      BY <3>1, <3>2, SubSeqProperties
    <3> QED BY <3>2, <3>3
  <2> HIDE DEF a, b, r, n
  <2>8. DOMAIN a = 1..(j - 1) /\ DOMAIN b = 1..(n - j)
    BY <1>1, <2>1, <2>6, <2>7, LenProperties
  <2>9. IsInjective(a) BY <1>1, <2>1, <2>6, <2>8 DEF IsInjective
  <2>10. IsInjective(b)
    <3>1. ASSUME NEW x \in 1..(n - j), NEW y \in 1..(n - j), b[x] = b[y]
          PROVE  x = y
      <4>1. x + j \in 1..n /\ y + j \in 1..n /\ k[x + j] = k[y + j] BY <1>1, <2>1, <2>7, <3>1
      <4>2. x + j = y + j BY <1>1, <4>1 DEF IsInjective
      <4> QED BY <1>1, <2>1, <4>2
    <3> QED BY <2>8, <3>1 DEF IsInjective
  <2>11. \A x \in 1..(j - 1), y \in 1..(n - j) : a[x] # b[y]
    <3> TAKE x \in 1..(j - 1), y \in 1..(n - j)
    <3>1. x \in 1..n /\ y + j \in 1..n /\ x # y + j BY <1>1, <2>1
    <3>2. a[x] = k[x] /\ b[y] = k[y + j] BY <2>6, <2>7
    <3> QED BY <1>1, <3>1, <3>2 DEF IsInjective
  <2>12. ToSet(a) \cap ToSet(b) = {} BY <2>8, <2>11 DEF ToSet
  <2>13. ToSet(a) \cup ToSet(b) = ToSet(k) \ {e}
    <3>1. \A x \in 1..(j - 1) : x \in 1..n /\ a[x] = k[x] /\ a[x] # e
      <4> TAKE x \in 1..(j - 1)
      <4>1. x \in 1..n /\ x # j BY <1>1, <2>1
      <4> QED BY <1>1, <2>1, <2>6, <4>1 DEF IsInjective
    <3>2. \A y \in 1..(n - j) : y + j \in 1..n /\ b[y] = k[y + j] /\ b[y] # e
      <4> TAKE y \in 1..(n - j)
      <4>1. y + j \in 1..n /\ y + j # j BY <1>1, <2>1
      <4> QED BY <1>1, <2>1, <2>7, <4>1 DEF IsInjective
    <3>3. \A i \in 1..n : \/ i = j
                          \/ i \in 1..(j - 1) /\ k[i] = a[i]
                          \/ i - j \in 1..(n - j) /\ k[i] = b[i - j]
      BY <1>1, <2>1, <2>6, <2>7
    <3>4. ToSet(a) \cup ToSet(b) \subseteq ToSet(k) \ {e} BY <1>1, <2>8, <3>1, <3>2 DEF ToSet
    <3>5. ASSUME NEW i \in 1..n, k[i] # e
          PROVE  k[i] \in ToSet(a) \cup ToSet(b)
      BY <2>1, <2>8, <3>3, <3>5 DEF ToSet
    <3> QED BY <1>1, <3>4, <3>5 DEF ToSet
  <2>14. r = a \o b BY <2>5 DEF a, b
  <2>15. a \o b \in Seq(S) /\ ToSet(a \o b) = ToSet(k) \ {e} /\ IsInjective(a \o b)
    BY <2>6, <2>7, <2>9, <2>10, <2>12, <2>13, KeysAdded
  <2> QED BY <2>14, <2>15 DEF r
<1> QED BY <1>2, <1>3 DEF n

-----------------------------------------------------------------------------
(* The inductive invariant of WsSessions: no key of wsid twice, a session  *)
(* for exactly the connected sockets with socket.nethcti, of its user, and *)
(* no number for two takeovers.                                            *)

SessionsInv ==
  /\ sockets \subseteq Sockets
  /\ nethcti \in [Sockets -> [username : Users, uaType : Types] \cup {NoData}]
  /\ wsid \in [Sockets -> Users \cup {NoData}]
  /\ keys \in Seq(Sockets) /\ ToSet(keys) = {s \in Sockets : wsid[s] # NoData}
  /\ IsInjective(keys)
  /\ present \subseteq Users /\ waiting \subseteq sockets
  /\ SessionsAreConnected
  /\ \A s \in Sockets : wsid[s] = NoData => nethcti[s] = NoData

TakeOversOf(T) == T \subseteq TakeOver /\ \A x, y \in T : x.id = y.id => x = y

WsInv == SessionsInv /\ TakeOversOf(takeOvers)

\* what DoLogins may be given
LoginsAre(L) ==
  /\ \A x \in L : /\ x.id \in 0..MaxTakeOvers /\ x.socket \in Sockets
                  /\ x.username \in Users /\ x.uaType \in Types
  /\ \A x, y \in L : x.id = y.id => x = y

LEMMA WsInvImpliesTypeOK == WsInv => TypeOK
  BY DEF WsInv, SessionsInv, TakeOversOf, TypeOK

(* A socket with logins has a first and a last one. *)
LEMMA FirstAndLatest ==
  ASSUME NEW L, LoginsAre(L), NEW s, LoginsOf(L, s) # {}
  PROVE  First(L, s) \in LoginsOf(L, s) /\ Latest(L, s) \in LoginsOf(L, s)
<1> DEFINE T == {x.id : x \in LoginsOf(L, s)}
<1>1. T \in SUBSET (0..MaxTakeOvers) /\ T # {} BY DEF LoginsAre, LoginsOf
<1>2. T \in SUBSET Nat BY <1>1
<1>3. \E i \in T : \A j \in T : i <= j BY <1>1, <1>2, LeastNumber
<1>4. \E i \in T : \A j \in T : i >= j BY <1>1, MaxTakeOversIsNatural, GreatestNumber
<1>5. \E x \in LoginsOf(L, s) : \A y \in LoginsOf(L, s) : x.id <= y.id BY <1>3
<1>6. \E x \in LoginsOf(L, s) : \A y \in LoginsOf(L, s) : y.id <= x.id
  <2>1. PICK i \in T : \A j \in T : i >= j BY <1>4
  <2>2. \A j \in T : j <= i BY <1>1, <2>1
  <2> QED BY <2>1, <2>2
<1> QED BY <1>5, <1>6 DEF First, Latest

(* The sockets that get a session are put in order, each once (doLogin). *)
LEMMA NewKeys ==
  ASSUME NEW L, LoginsAre(L), sockets \subseteq Sockets
  PROVE  LET q == InOrder(NewSessions(L), [s \in NewSessions(L) |-> First(L, s).id])
         IN  q \in Seq(Sockets) /\ ToSet(q) = NewSessions(L) /\ IsInjective(q)
<1> DEFINE N == NewSessions(L)
           f == [s \in N |-> First(L, s).id]
           q == InOrder(N, f)
<1>1. \A s \in N : LoginsOf(L, s) # {} /\ s \in Sockets
  BY DEF NewSessions, Recorded, LoginsOf
<1>2. \A s \in N : First(L, s) \in L /\ First(L, s).socket = s
  BY <1>1, FirstAndLatest DEF LoginsOf
<1>3. \A s \in N : f[s] \in 0..MaxTakeOvers BY <1>2 DEF LoginsAre
<1>4. \A a, b \in N : f[a] = f[b] => a = b BY <1>2 DEF LoginsAre
<1>5. f \in Injection(N, 0..MaxTakeOvers) BY <1>3, <1>4 DEF Injection, IsInjective
<1>6. IsFiniteSet(0..MaxTakeOvers) BY MaxTakeOversIsNatural, FS_Interval
<1>7. IsFiniteSet(N) BY <1>5, <1>6, FS_Injection
<1>8. \A s \in N : f[s] \in Nat BY <1>3
<1> HIDE DEF N, f
<1>9. q \in Seq(N) /\ ToSet(q) = N /\ IsInjective(q) BY <1>4, <1>7, <1>8, InOrderProperties
<1>10. N \subseteq Sockets BY <1>1
<1>11. q \in Seq(Sockets) BY <1>9, <1>10, SeqMonotonic
<1> QED BY <1>9, <1>11 DEF N, f

(* doLogin leaves the sessions as they must be. *)
LEMMA DoLoginsKeepsSessions ==
  ASSUME SessionsInv, NEW L, LoginsAre(L), DoLogins(L), sockets' = sockets
  PROVE  SessionsInv'
<1> DEFINE q == InOrder(NewSessions(L), [s \in NewSessions(L) |-> First(L, s).id])
<1>1. q \in Seq(Sockets) /\ ToSet(q) = NewSessions(L) /\ IsInjective(q)
  BY NewKeys DEF SessionsInv
<1>2. keys' = keys \o q BY DEF DoLogins
<1>3. \A s \in Recorded(L) : /\ s \in sockets /\ s \in Sockets
                             /\ Latest(L, s).username \in Users /\ Latest(L, s).uaType \in Types
  <2> TAKE s \in Recorded(L)
  <2>1. LoginsOf(L, s) # {} BY DEF Recorded, LoginsOf
  <2>2. Latest(L, s) \in L BY <2>1, FirstAndLatest DEF LoginsOf
  <2> QED BY <2>2 DEF LoginsAre, Recorded, SessionsInv
<1> HIDE DEF q
<1>4. wsid' \in [Sockets -> Users \cup {NoData}]
  BY <1>3 DEF DoLogins, SessionsInv
<1>5. nethcti' \in [Sockets -> [username : Users, uaType : Types] \cup {NoData}]
  BY <1>3 DEF DoLogins, SessionsInv
<1>6. \A s \in Sockets : wsid'[s] # NoData <=> s \in Recorded(L) \/ wsid[s] # NoData
  BY <1>3, NoDataIsNone DEF DoLogins, SessionsInv
<1>7. keys' \in Seq(Sockets) /\ ToSet(keys') = ToSet(keys) \cup NewSessions(L) /\ IsInjective(keys')
  <2>1. ToSet(keys) \cap ToSet(q) = {} BY <1>1 DEF NewSessions, SessionsInv
  <2>2. keys \in Seq(Sockets) /\ IsInjective(keys) BY DEF SessionsInv
  <2> QED BY <1>1, <1>2, <2>1, <2>2, KeysAdded
<1>8. ToSet(keys') = {s \in Sockets : wsid'[s] # NoData}
  BY <1>3, <1>6, <1>7 DEF NewSessions, SessionsInv
<1>9. SessionsAreConnected'
  <2> SUFFICES ASSUME NEW s \in Sockets, wsid'[s] # NoData
               PROVE  s \in sockets' /\ nethcti'[s] # NoData /\ nethcti'[s].username = wsid'[s]
    BY DEF SessionsAreConnected
  <2>1. CASE s \in Recorded(L)
    BY <1>3, <2>1, NoDataIsNone DEF DoLogins, Types
  <2>2. CASE s \notin Recorded(L)
    BY <2>2 DEF DoLogins, SessionsInv, SessionsAreConnected
  <2> QED BY <2>1, <2>2
<1>10. \A s \in Sockets : wsid'[s] = NoData => nethcti'[s] = NoData
  BY <1>6 DEF DoLogins, SessionsInv
<1>11. present' \subseteq Users /\ waiting' \subseteq sockets'
  BY DEF DoLogins, SessionsInv, LoginsAre
<1> QED BY <1>4, <1>5, <1>7, <1>8, <1>9, <1>10, <1>11 DEF SessionsInv

(* A socket that leaves takes its session and its key with it (disconnHdlr). *)
LEMMA LeaveKeepsSessions ==
  ASSUME SessionsInv, NEW s \in Sockets, Leave(s)
  PROVE  SessionsInv'
<1>1. keys' = RemoveFirst(keys, s) BY DEF Leave
<1>2. keys' \in Seq(Sockets) /\ ToSet(keys') = ToSet(keys) \ {s} /\ IsInjective(keys')
  BY <1>1, KeyRemoved DEF SessionsInv
<1>3. wsid' \in [Sockets -> Users \cup {NoData}] /\ wsid' = [wsid EXCEPT ![s] = NoData]
  BY DEF Leave, SessionsInv
<1>4. ToSet(keys') = {x \in Sockets : wsid'[x] # NoData}
  BY <1>2, <1>3 DEF SessionsInv
<1>5. nethcti' \in [Sockets -> [username : Users, uaType : Types] \cup {NoData}]
  BY DEF Leave, SessionsInv
<1>6. SessionsAreConnected'
  BY DEF Leave, SessionsInv, SessionsAreConnected
<1>7. \A x \in Sockets : wsid'[x] = NoData => nethcti'[x] = NoData
  BY DEF Leave, SessionsInv
<1>8. sockets' \subseteq Sockets /\ present' \subseteq Users /\ waiting' \subseteq sockets'
  BY DEF Leave, SessionsInv
<1> QED BY <1>2, <1>3, <1>4, <1>5, <1>6, <1>7, <1>8 DEF SessionsInv

(* What the callbacks of a takeover change of the others (2206-2242). *)
LEMMA TakeOversChanged ==
  ASSUME NEW T, TakeOversOf(T), NEW S
  PROVE  /\ TakeOversOf(Alive(T)) /\ TakeOversOf(Deafen(T, S))
         /\ TakeOversOf(Cleared(T, S)) /\ TakeOversOf(Forgotten(T, S))
<1>1. TakeOversOf(Alive(T)) BY DEF TakeOversOf, Alive
<1>2. ASSUME NEW g, \A x \in T : g[x] \in TakeOver /\ g[x].id = x.id
      PROVE  TakeOversOf({g[x] : x \in T})
  BY <1>2 DEF TakeOversOf
<1>3. TakeOversOf(Deafen(T, S))
  <2> DEFINE g == [x \in T |-> [x EXCEPT !.listening = @ /\ x.on \notin S]]
  <2>1. \A x \in T : g[x] \in TakeOver /\ g[x].id = x.id BY DEF TakeOversOf, TakeOver
  <2>2. Deafen(T, S) = {g[x] : x \in T} BY DEF Deafen
  <2> HIDE DEF g
  <2> QED BY <1>2, <2>1, <2>2
<1>4. TakeOversOf(Cleared(T, S))
  <2> DEFINE g == [x \in T |-> [x EXCEPT !.timer = @ /\ ~(x.stored /\ x.on \in S)]]
  <2>1. \A x \in T : g[x] \in TakeOver /\ g[x].id = x.id BY DEF TakeOversOf, TakeOver
  <2>2. Cleared(T, S) = {g[x] : x \in T} BY DEF Cleared
  <2> HIDE DEF g
  <2> QED BY <1>2, <2>1, <2>2
<1>5. TakeOversOf(Forgotten(T, S))
  <2> DEFINE g == [x \in T |-> [x EXCEPT !.stored = @ /\ x.on \notin S]]
  <2>1. \A x \in T : g[x] \in TakeOver /\ g[x].id = x.id BY DEF TakeOversOf, TakeOver
  <2>2. Forgotten(T, S) = {g[x] : x \in T} BY DEF Forgotten
  <2> HIDE DEF g
  <2> QED BY <1>2, <2>1, <2>2
<1> QED BY <1>1, <1>3, <1>4, <1>5

(* The logins of takeovers are what DoLogins may be given. *)
LEMMA TakeOversAreLogins ==
  ASSUME TakeOversOf(takeOvers), NEW L \in SUBSET takeOvers
  PROVE  LoginsAre(L)
<1>1. \A x \in L : x.id \in 1..MaxTakeOvers /\ x.socket \in Sockets /\ x.username \in Users /\ x.uaType \in Types
  BY DEF TakeOversOf, TakeOver, Types
<1>2. 1..MaxTakeOvers \subseteq 0..MaxTakeOvers BY MaxTakeOversIsNatural
<1> QED BY <1>1, <1>2 DEF TakeOversOf, LoginsAre

(* A login alone has the number 0. *)
LEMMA LoginAloneIsLogin ==
  ASSUME NEW s \in Sockets, NEW u \in Users, NEW t \in Types
  PROVE  LoginsAre({[id |-> 0, socket |-> s, username |-> u, uaType |-> t]})
BY MaxTakeOversIsNatural DEF LoginsAre

(* The keys of older clients have different places, from 1 to their number. *)
LEMMA OlderPlaces ==
  ASSUME SessionsInv, NEW O \in SUBSET ToSet(keys)
  PROVE  /\ Cardinality(O) \in Nat
         /\ \A o \in O : PlaceInKeys(O, o) \in 1..Cardinality(O)
         /\ \A a, b \in O : PlaceInKeys(O, a) = PlaceInKeys(O, b) => a = b
<1> DEFINE D == DOMAIN keys
           K == ToSet(keys)
           num == Inverse(keys, D, K)
<1>1. D = 1..Len(keys) /\ Len(keys) \in Nat /\ D \subseteq Nat
  BY LenProperties DEF SessionsInv
<1>2. K = Range(keys) BY DEF ToSet, Range
<1>3. \A o \in K : num[o] \in D /\ keys[num[o]] = o
  BY <1>2 DEF Inverse, Range
<1>4. IsFiniteSet(D) BY <1>1, FS_Interval
<1>5. keys \in Surjection(D, K)
  <2>1. keys = [i \in D |-> keys[i]] BY LenProperties DEF SessionsInv
  <2>2. \A i \in D : keys[i] \in K BY DEF ToSet
  <2>3. \A x \in K : \E i \in D : keys[i] = x BY DEF ToSet
  <2> HIDE DEF D, K
  <2>4. keys \in [D -> K] BY <2>1, <2>2
  <2> QED BY <2>3, <2>4 DEF Surjection
<1>6. IsFiniteSet(K) BY <1>4, <1>5, FS_Surjection
<1>7. IsFiniteSet(O) BY <1>6, FS_Subset
<1> HIDE DEF num, K, D
<1>8. \A o \in O : num[o] \in Nat BY <1>1, <1>3 DEF K
<1>9. \A a, b \in O : num[a] = num[b] => a = b BY <1>3 DEF K
<1>10. \A o \in O : PlaceInKeys(O, o) = Place(O, num, o) BY DEF PlaceInKeys, num, D, K
<1> QED BY <1>7, <1>8, <1>9, <1>10, PlaceProperties, FS_CardinalityType

(* New takeovers get the numbers after the greatest one in use (loginHdlr). *)
LEMMA LoginTakesOverKeepsTakeOvers ==
  ASSUME WsInv, NEW s \in Sockets, NEW u \in Users, NEW t \in Types, LoginTakesOver(s, u, t)
  PROVE  TakeOversOf(takeOvers')
<1> DEFINE O == Older(u, t)
           ids == {x.id : x \in takeOvers} \cup {0}
           top == Max(ids)
           New(o) == [id |-> top + PlaceInKeys(O, o), on |-> o, socket |-> s, username |-> u,
                      uaType |-> t, last |-> Last(keys), listening |-> TRUE, timer |-> TRUE,
                      stored |-> TRUE]
<1>1. O # {} /\ O \in SUBSET ToSet(keys) /\ t \in UaTypes /\ ToSet(keys) \subseteq Sockets
  BY DEF LoginTakesOver, Older, Types, WsInv, SessionsInv
<1>2. /\ top + Cardinality(O) <= MaxTakeOvers
      /\ takeOvers' = Forgotten(takeOvers, O) \cup {New(o) : o \in O}
  BY DEF LoginTakesOver
<1>3. TakeOversOf(takeOvers) BY DEF WsInv
<1>4. top \in 0..MaxTakeOvers /\ \A i \in ids : i <= top
  <2>1. \A x \in takeOvers : x.id \in 1..MaxTakeOvers BY <1>3 DEF TakeOversOf, TakeOver
  <2>2. ids \in SUBSET (0..MaxTakeOvers) /\ ids # {} BY <2>1, MaxTakeOversIsNatural
  <2> HIDE DEF ids
  <2>3. \E i \in ids : \A j \in ids : i >= j BY <2>2, MaxTakeOversIsNatural, GreatestNumber
  <2>4. top \in ids /\ \A j \in ids : top >= j BY <2>3 DEF Max
  <2>5. \A j \in ids : j \in Nat BY <2>2
  <2> QED BY <2>2, <2>4, <2>5
<1> DEFINE P(o) == PlaceInKeys(O, o)
<1>5. /\ Cardinality(O) \in Nat
      /\ \A o \in O : P(o) \in 1..Cardinality(O)
      /\ \A a, b \in O : P(a) = P(b) => a = b
  BY <1>1, OlderPlaces DEF WsInv
<1>6. Last(keys) \in Sockets
  <2>1. keys \in Seq(Sockets) /\ keys # <<>>
    BY <1>1 DEF WsInv, SessionsInv, ToSet
  <2>2. Len(keys) \in 1..Len(keys) BY <2>1, EmptySeq, LenProperties
  <2> QED BY <2>1, <2>2, ElementOfSeq DEF Last
<1> HIDE DEF O, top, P
<1>7. \A o \in O : top + P(o) \in 1..MaxTakeOvers /\ top + P(o) > top
  BY <1>2, <1>4, <1>5, MaxTakeOversIsNatural
<1>8. \A o \in O : New(o) \in TakeOver /\ New(o).id = top + P(o)
  BY <1>1, <1>6, <1>7 DEF TakeOver, P
<1>9. TakeOversOf(Forgotten(takeOvers, O)) BY <1>3, TakeOversChanged
<1>10. \A x \in Forgotten(takeOvers, O) : x.id <= top
  <2> SUFFICES ASSUME NEW y \in takeOvers
               PROVE  [y EXCEPT !.stored = @ /\ y.on \notin O].id <= top
    BY DEF Forgotten
  <2>1. [y EXCEPT !.stored = @ /\ y.on \notin O].id = y.id BY <1>3 DEF TakeOversOf, TakeOver
  <2> QED BY <1>4, <2>1
<1>11. \A a, b \in O : New(a).id = New(b).id => a = b
  <2> TAKE a, b \in O
  <2> HAVE New(a).id = New(b).id
  <2>1. top + P(a) = top + P(b) BY <1>8
  <2>2. top \in Int /\ P(a) \in Int /\ P(b) \in Int BY <1>4, <1>5
  <2>3. P(a) = P(b) BY <2>1, <2>2
  <2> QED BY <1>5, <2>3
<1> DEFINE N == {New(o) : o \in O}
<1>12. N \subseteq TakeOver /\ (\A x \in N : x.id \in Nat /\ x.id > top)
  BY <1>7, <1>8, MaxTakeOversIsNatural
<1>13. \A x, y \in N : x.id = y.id => x = y BY <1>11
<1>14. takeOvers' = Forgotten(takeOvers, O) \cup N BY <1>2
<1> HIDE DEF N
<1>15. \A x \in Forgotten(takeOvers, O), y \in N : x.id # y.id
  <2>1. \A x \in Forgotten(takeOvers, O) : x.id \in Nat BY <1>9 DEF TakeOversOf, TakeOver
  <2> QED BY <1>4, <1>10, <1>12, <2>1
<1> QED BY <1>9, <1>12, <1>13, <1>14, <1>15 DEF TakeOversOf

(* A takeover whose timer fires is no longer pending (2225-2242). *)
LEMMA TimerKeepsTakeOvers ==
  ASSUME TakeOversOf(takeOvers), NEW x \in takeOvers, TakeOverTimeout(x)
  PROVE  TakeOversOf(takeOvers')
<1> DEFINE fired  == [x EXCEPT !.timer = FALSE, !.stored = FALSE]
           others == (takeOvers \ {x}) \cup {fired}
<1>1. fired \in TakeOver /\ fired.id = x.id BY DEF TakeOversOf, TakeOver
<1>2. TakeOversOf(others) BY <1>1 DEF TakeOversOf
<1>3. takeOvers' = Alive(Deafen(Forgotten(others, {x.last}), {x.last} \cap sockets))
  BY DEF TakeOverTimeout
<1> HIDE DEF others
<1> QED BY <1>2, <1>3, TakeOversChanged

-----------------------------------------------------------------------------
(* Every step of WsSessions keeps the invariant.                           *)

LEMMA WsInitInv == Init => WsInv
<1> SUFFICES ASSUME Init PROVE WsInv OBVIOUS
<1>1. keys \in Seq(Sockets) /\ ToSet(keys) = {} /\ IsInjective(keys)
  BY EmptySeq DEF Init, ToSet, IsInjective
<1> QED BY <1>1 DEF Init, WsInv, SessionsInv, SessionsAreConnected, TakeOversOf

LEMMA WsStutterInv ==
  ASSUME WsInv, UNCHANGED vars
  PROVE  WsInv'
BY DEF WsInv, SessionsInv, SessionsAreConnected, TakeOversOf, vars

LEMMA WsConnHdlrInv ==
  ASSUME WsInv, NEW s \in Sockets, WsConnHdlr(s)
  PROVE  WsInv'
BY DEF WsInv, SessionsInv, SessionsAreConnected, TakeOversOf, WsConnHdlr

LEMMA LeaveInv ==
  ASSUME WsInv, NEW s \in Sockets, Leave(s)
  PROVE  WsInv'
<1>1. SessionsInv' BY LeaveKeepsSessions DEF WsInv
<1>2. TakeOversOf(takeOvers)' BY TakeOversChanged DEF WsInv, Leave
<1> QED BY <1>1, <1>2 DEF WsInv

LEMMA LoginAloneInv ==
  ASSUME WsInv, NEW s \in Sockets, NEW u \in Users, NEW t \in Types, LoginAlone(s, u, t)
  PROVE  WsInv'
<1>1. SessionsInv' BY LoginAloneIsLogin, DoLoginsKeepsSessions DEF WsInv, LoginAlone
<1>2. TakeOversOf(takeOvers)' BY DEF WsInv, LoginAlone
<1> QED BY <1>1, <1>2 DEF WsInv

LEMMA LoginTakesOverInv ==
  ASSUME WsInv, NEW s \in Sockets, NEW u \in Users, NEW t \in Types, LoginTakesOver(s, u, t)
  PROVE  WsInv'
<1>1. SessionsInv' BY DEF WsInv, SessionsInv, SessionsAreConnected, LoginTakesOver
<1>2. TakeOversOf(takeOvers)' BY LoginTakesOverKeepsTakeOvers
<1> QED BY <1>1, <1>2 DEF WsInv

LEMMA TakeOverAckInv ==
  ASSUME WsInv, NEW m \in Sockets, TakeOverAck(m)
  PROVE  WsInv'
<1> DEFINE fired == {x \in takeOvers : x.on = m /\ x.listening}
<1>1. DoLogins(fired) /\ UNCHANGED sockets BY DEF TakeOverAck
<1>2. LoginsAre(fired) BY TakeOversAreLogins DEF WsInv
<1> HIDE DEF fired
<1>3. SessionsInv' BY <1>1, <1>2, DoLoginsKeepsSessions DEF WsInv
<1>4. TakeOversOf(takeOvers)' BY TakeOversChanged DEF WsInv, TakeOverAck
<1> QED BY <1>3, <1>4 DEF WsInv

LEMMA TakeOverTimeoutInv ==
  ASSUME WsInv, NEW x \in takeOvers, TakeOverTimeout(x)
  PROVE  WsInv'
<1>1. DoLogins({x}) /\ UNCHANGED sockets BY DEF TakeOverTimeout
<1>2. LoginsAre({x}) BY TakeOversAreLogins DEF WsInv
<1>3. SessionsInv' BY <1>1, <1>2, DoLoginsKeepsSessions DEF WsInv
<1>4. TakeOversOf(takeOvers)' BY TimerKeepsTakeOvers DEF WsInv
<1> QED BY <1>3, <1>4 DEF WsInv

LEMMA WsNextInv ==
  ASSUME WsInv, [Next]_vars
  PROVE  WsInv'
<1>1. CASE \E s \in Sockets : WsConnHdlr(s) BY <1>1, WsConnHdlrInv
<1>2. CASE \E s \in Sockets : LoginRefused(s) \/ DisconnHdlr(s)
  BY <1>2, LeaveInv DEF LoginRefused, DisconnHdlr
<1>3. CASE \E s \in Sockets, u \in Users, t \in Types : LoginAlone(s, u, t) BY <1>3, LoginAloneInv
<1>4. CASE \E s \in Sockets, u \in Users, t \in Types : LoginTakesOver(s, u, t)
  BY <1>4, LoginTakesOverInv
<1>5. CASE \E id \in 1..MaxTakeOvers : TimerFires(id)
  BY <1>5, TakeOverTimeoutInv DEF TimerFires
<1>6. CASE \E s \in Sockets : TakeOverAck(s) BY <1>6, TakeOverAckInv
<1>7. CASE UNCHANGED vars BY <1>7, WsStutterInv
<1> QED BY <1>1, <1>2, <1>3, <1>4, <1>5, <1>6, <1>7 DEF Next, SilentNext

-----------------------------------------------------------------------------
(* Theorems about the sessions.                                            *)

(* The variables of WsSessions are well typed whatever the clients do: in particular
   the keys of wsid are the sessions, and the takeovers of loginHdlr stay in the
   bounds (2195-2244). *)
THEOREM WsTypeCorrect == Spec => []TypeOK
<1>1. Init => WsInv BY WsInitInv
<1>2. WsInv /\ [Next]_vars => WsInv' BY WsNextInv
<1>3. WsInv => TypeOK BY WsInvImpliesTypeOK
<1> QED BY <1>1, <1>2, <1>3, PTL DEF Spec

(* No session is left of a socket that is gone or that belongs to another user: the
   broadcasts of com_nethcti_ws.js:1108-1183 never meet a dead key. *)
THEOREM SessionsStayConnected == Spec => []SessionsAreConnected
<1>1. Init => WsInv BY WsInitInv
<1>2. WsInv /\ [Next]_vars => WsInv' BY WsNextInv
<1>3. WsInv => SessionsAreConnected BY DEF WsInv, SessionsInv
<1> QED BY <1>1, <1>2, <1>3, PTL DEF Spec

(* When the only session of a user ends with its socket, disconnHdlr counts nobody else. *)
LEMMA LeaveAnnounces ==
  ASSUME WsInv, NEW s \in Sockets, Leave(s), NEW u \in Users,
         Sessions(u) # {}, Sessions(u)' = {}
  PROVE  u \notin present'
<1>1. \A x \in Sockets \ {s} : wsid'[x] = wsid[x] BY DEF Leave, WsInv, SessionsInv
<1>2. Sessions(u) = {s} BY <1>1 DEF Sessions
<1>3. wsid[s] = u /\ u # NoData BY <1>2, NoDataIsNone DEF Sessions
<1>4. \A x \in CtiSockets \cap sockets :
        ~ (x # s /\ nethcti[x] # NoData /\ nethcti[x].username = u)
  <2> TAKE x \in CtiSockets \cap sockets
  <2> SUFFICES ASSUME x # s, nethcti[x] # NoData, nethcti[x].username = u PROVE FALSE OBVIOUS
  <2>1. x \in Sockets BY CtiAreSockets
  <2>2. wsid[x] = u BY <2>1 DEF WsInv, SessionsInv, SessionsAreConnected
  <2> QED BY <1>2, <2>1, <2>2 DEF Sessions
<1>5. CtiCount(s, u) = 0
  <2> DEFINE C == {x \in CtiSockets \cap sockets :
                     x # s /\ nethcti[x] # NoData /\ nethcti[x].username = u}
  <2>1. C = {} BY <1>4
  <2> HIDE DEF C
  <2>2. Cardinality(C) = 0 BY <2>1, FS_EmptySet
  <2> QED BY <2>2 DEF C, CtiCount
<1>6. AllClosed(s, u) BY <1>5 DEF AllClosed
<1> QED BY <1>3, <1>6 DEF Leave

(* A login takes no session away without giving another. *)
LEMMA LoginsEndNothing ==
  ASSUME WsInv, NEW L, LoginsAre(L), DoLogins(L), NEW s \in Sockets, wsid[s] # NoData
  PROVE  wsid'[s] # NoData
<1>1. CASE s \in Recorded(L)
  <2>1. LoginsOf(L, s) # {} BY <1>1 DEF Recorded, LoginsOf
  <2>2. Latest(L, s) \in L BY <2>1, FirstAndLatest DEF LoginsOf
  <2> QED BY <1>1, <2>2, NoDataIsNone DEF DoLogins, LoginsAre
<1>2. CASE s \notin Recorded(L) BY <1>2 DEF DoLogins
<1> QED BY <1>1, <1>2

LEMMA EndsAnnounced ==
  ASSUME WsInv, [Next]_vars, NEW u \in Users, Sessions(u) # {}, Sessions(u)' = {},
         \A s \in Sessions(u) : wsid'[s] = NoData
  PROVE  u \notin present'
<1>1. PICK s \in Sockets : s \in Sessions(u) /\ wsid[s] # NoData /\ wsid'[s] = NoData
  BY NoDataIsNone DEF Sessions
<1>2. CASE \E x \in Sockets : LoginRefused(x) \/ DisconnHdlr(x)
  BY <1>2, LeaveAnnounces DEF LoginRefused, DisconnHdlr
<1>3. CASE \E x \in Sockets, v \in Users, t \in Types : LoginAlone(x, v, t)
  BY <1>1, <1>3, LoginAloneIsLogin, LoginsEndNothing DEF LoginAlone
<1>4. CASE \E id \in 1..MaxTakeOvers : TimerFires(id)
  <2>1. PICK x \in takeOvers : DoLogins({x}) BY <1>4 DEF TimerFires, TakeOverTimeout
  <2>2. LoginsAre({x}) BY TakeOversAreLogins DEF WsInv
  <2> QED BY <1>1, <2>1, <2>2, LoginsEndNothing
<1>5. CASE \E m \in Sockets : TakeOverAck(m)
  <2>1. PICK L \in SUBSET takeOvers : DoLogins(L) BY <1>5 DEF TakeOverAck
  <2>2. LoginsAre(L) BY TakeOversAreLogins DEF WsInv
  <2> QED BY <1>1, <2>1, <2>2, LoginsEndNothing
<1>6. CASE UNCHANGED wsid BY <1>1, <1>6
<1>7. CASE UNCHANGED vars BY <1>6, <1>7 DEF vars
<1>8. CASE \E x \in Sockets : WsConnHdlr(x) BY <1>6, <1>8 DEF WsConnHdlr
<1>9. CASE \E x \in Sockets, v \in Users, t \in Types : LoginTakesOver(x, v, t)
  BY <1>6, <1>9 DEF LoginTakesOver
<1> QED BY <1>2, <1>3, <1>4, <1>5, <1>7, <1>8, <1>9 DEF Next, SilentNext

(* EVT_ALL_WS_CLIENT_DISCONNECTION is emitted whenever the last session of a user
   ends (2384-2402), for any number of sockets, whichever of them are cti clients. *)
THEOREM EveryLastEndIsAnnounced == Spec => LastEndIsAnnounced
<1>1. Init => WsInv BY WsInitInv
<1>2. WsInv /\ [Next]_vars => WsInv' BY WsNextInv
<1>3. WsInv /\ [Next]_vars =>
        [\A u \in Users :
           Sessions(u) # {} /\ Sessions(u)' = {} /\ (\A s \in Sessions(u) : wsid'[s] = NoData)
             => u \notin present']_vars
  BY EndsAnnounced
<1> QED BY <1>1, <1>2, <1>3, PTL DEF Spec, LastEndIsAnnounced

-----------------------------------------------------------------------------
(* What completes a login that waits for the clients that are taken over.  *)

\* a takeover of T will log s in after its 8 seconds
TimerFor(T, s) == \E x \in T : x.socket = s /\ x.timer

LoginsAreTimed == \A s \in waiting : TimerFor(takeOvers, s)

(* Clients that leave, and timers that are forgotten in takeOverTimeouts, stop no
   timer (2215-2242): only clearTimeout does. *)
LEMMA TimersRunOn ==
  ASSUME NEW T, TakeOversOf(T), NEW S, NEW s, TimerFor(T, s)
  PROVE  TimerFor(Alive(T), s) /\ TimerFor(Deafen(T, S), s) /\ TimerFor(Forgotten(T, S), s)
<1>1. PICK x \in T : x.socket = s /\ x.timer BY DEF TimerFor
<1>2. x \in TakeOver BY <1>1 DEF TakeOversOf
<1>3. TimerFor(Alive(T), s) BY <1>1 DEF TimerFor, Alive
<1>4. TimerFor(Deafen(T, S), s)
  <2> DEFINE y == [x EXCEPT !.listening = @ /\ x.on \notin S]
  <2>1. y.socket = s /\ y.timer BY <1>1, <1>2 DEF TakeOver
  <2>2. y \in Deafen(T, S) BY <1>1 DEF Deafen
  <2> HIDE DEF y
  <2> QED BY <2>1, <2>2 DEF TimerFor
<1>5. TimerFor(Forgotten(T, S), s)
  <2> DEFINE y == [x EXCEPT !.stored = @ /\ x.on \notin S]
  <2>1. y.socket = s /\ y.timer BY <1>1, <1>2 DEF TakeOver
  <2>2. y \in Forgotten(T, S) BY <1>1 DEF Forgotten
  <2> HIDE DEF y
  <2> QED BY <2>1, <2>2 DEF TimerFor
<1> QED BY <1>3, <1>4, <1>5

(* A login that finds older clients starts a timer before it waits (2196-2245). *)
LEMMA TakingOverIsTimed ==
  ASSUME WsInv, LoginsAreTimed, NEW s \in Sockets, NEW u \in Users, NEW t \in Types,
         LoginTakesOver(s, u, t)
  PROVE  LoginsAreTimed'
<1> DEFINE O == Older(u, t)
<1>1. O # {} /\ waiting' = waiting \cup {s} BY DEF LoginTakesOver
<1>2. \A x \in waiting : TimerFor(takeOvers', x)
  <2> TAKE x \in waiting
  <2>1. TimerFor(Forgotten(takeOvers, O), x) BY TimersRunOn DEF LoginsAreTimed, WsInv
  <2>2. Forgotten(takeOvers, O) \subseteq takeOvers' BY DEF LoginTakesOver
  <2> HIDE DEF O
  <2> QED BY <2>1, <2>2 DEF TimerFor
<1>3. TimerFor(takeOvers', s)
  <2>1. PICK o \in O : TRUE BY <1>1
  <2> DEFINE top == Max({x.id : x \in takeOvers} \cup {0})
             y   == [id |-> top + PlaceInKeys(O, o), on |-> o, socket |-> s, username |-> u,
                     uaType |-> t, last |-> Last(keys), listening |-> TRUE, timer |-> TRUE,
                     stored |-> TRUE]
  <2>2. y.socket = s /\ y.timer OBVIOUS
  <2>3. y \in takeOvers' BY <2>1 DEF LoginTakesOver
  <2> HIDE DEF y
  <2> QED BY <2>2, <2>3 DEF TimerFor
<1> QED BY <1>1, <1>2, <1>3 DEF LoginsAreTimed

(* A timer that fires logs its own client in (2234-2242); the others run on. *)
LEMMA FiringIsTimed ==
  ASSUME WsInv, LoginsAreTimed, NEW x \in takeOvers, TakeOverTimeout(x)
  PROVE  LoginsAreTimed'
<1> DEFINE y      == [x EXCEPT !.timer = FALSE, !.stored = FALSE]
           others == (takeOvers \ {x}) \cup {y}
<1>1. TakeOversOf(takeOvers) /\ waiting \subseteq sockets BY DEF WsInv, SessionsInv
<1>2. y \in TakeOver /\ y.id = x.id BY <1>1 DEF TakeOversOf, TakeOver
<1>3. TakeOversOf(others)
  <2> HIDE DEF y
  <2> QED BY <1>1, <1>2 DEF TakeOversOf
<1>4. waiting' = waiting \ {x.socket}
  <2>1. waiting' = waiting \ Recorded({x}) BY DEF TakeOverTimeout, DoLogins
  <2>2. Recorded({x}) = {x.socket} \cap sockets BY DEF Recorded
  <2> QED BY <1>1, <2>1, <2>2
<1>5. takeOvers' = Alive(Deafen(Forgotten(others, {x.last}), {x.last} \cap sockets))
  BY DEF TakeOverTimeout
<1> HIDE DEF y
<1>6. ASSUME NEW s \in waiting'
      PROVE  TimerFor(takeOvers', s)
  <2>1. PICK z \in takeOvers : z.socket = s /\ z.timer
    BY <1>4, <1>6 DEF LoginsAreTimed, TimerFor
  <2>2. z # x BY <1>4, <1>6, <2>1
  <2>3. TimerFor(others, s) BY <2>1, <2>2 DEF TimerFor
  <2> HIDE DEF others
  <2> DEFINE kept == Forgotten(others, {x.last})
             deaf == Deafen(kept, {x.last} \cap sockets)
  <2>4. TimerFor(kept, s) /\ TakeOversOf(kept) BY <1>3, <2>3, TimersRunOn, TakeOversChanged
  <2>5. takeOvers' = Alive(deaf) BY <1>5
  <2> HIDE DEF kept
  <2>6. TimerFor(deaf, s) /\ TakeOversOf(deaf) BY <2>4, TimersRunOn, TakeOversChanged
  <2> HIDE DEF deaf
  <2> QED BY <2>5, <2>6, TimersRunOn
<1> QED BY <1>6 DEF LoginsAreTimed

(* A client that leaves no longer waits, and stops no timer. *)
LEMMA LeavingIsTimed ==
  ASSUME WsInv, LoginsAreTimed, NEW s \in Sockets, Leave(s)
  PROVE  LoginsAreTimed'
<1> DEFINE deaf == Deafen(takeOvers, {s})
<1>1. waiting' = waiting \ {s} /\ takeOvers' = Alive(deaf) BY DEF Leave
<1>2. TakeOversOf(deaf) BY TakeOversChanged DEF WsInv
<1>3. \A x \in waiting : TimerFor(deaf, x) BY TimersRunOn DEF LoginsAreTimed, WsInv
<1> HIDE DEF deaf
<1> QED BY <1>1, <1>2, <1>3, TimersRunOn DEF LoginsAreTimed

(* "in case takeOverAck event never arrives" (2226): as long as the clients that are
   taken over do not answer, whatever logs in, leaves or fires, a login that waits has a
   timer of its own that runs. *)
THEOREM WaitingLoginsAreTimed == SilentSpec => []LoginsAreTimed
<1>1. Init => WsInv /\ LoginsAreTimed
  BY WsInitInv DEF Init, LoginsAreTimed
<1>2. SilentNext => Next BY DEF Next
<1>3. WsInv /\ [SilentNext]_vars => WsInv' BY <1>2, WsNextInv
<1>4. ASSUME WsInv, LoginsAreTimed, [SilentNext]_vars
      PROVE  LoginsAreTimed'
  <2>1. ASSUME waiting' \subseteq waiting, takeOvers' = takeOvers
        PROVE  LoginsAreTimed'
    BY <1>4, <2>1 DEF LoginsAreTimed
  <2>2. CASE \E s \in Sockets : WsConnHdlr(s) BY <2>1, <2>2 DEF WsConnHdlr
  <2>3. CASE \E s \in Sockets : LoginRefused(s) \/ DisconnHdlr(s)
    BY <1>4, <2>3, LeavingIsTimed DEF LoginRefused, DisconnHdlr
  <2>4. CASE \E s \in Sockets, u \in Users, t \in Types : LoginAlone(s, u, t)
    BY <2>1, <2>4 DEF LoginAlone, DoLogins
  <2>5. CASE \E s \in Sockets, u \in Users, t \in Types : LoginTakesOver(s, u, t)
    BY <1>4, <2>5, TakingOverIsTimed
  <2>6. CASE \E id \in 1..MaxTakeOvers : TimerFires(id)
    BY <1>4, <2>6, FiringIsTimed DEF TimerFires
  <2>7. CASE UNCHANGED vars BY <2>1, <2>7 DEF vars
  <2> QED BY <1>4, <2>2, <2>3, <2>4, <2>5, <2>6, <2>7 DEF SilentNext
<1> QED BY <1>1, <1>3, <1>4, PTL DEF SilentSpec

-----------------------------------------------------------------------------
(* Notifications only adds to WsSessions.                                  *)

(* Every step of Notifications is a step of WsSessions or leaves the sessions alone. *)
LEMMA NStepIsStep ==
  ASSUME [NNext]_nvars
  PROVE  [Next]_vars
<1>1. CASE Logins BY <1>1 DEF Logins, Next, SilentNext
<1>2. CASE Connections BY <1>2 DEF Connections, Next, SilentNext
<1>3. CASE Streams
  BY <1>3 DEF Streams, evtStreamingSourceSubscribed, evtStreamingSourceUnsubscribed
<1>4. CASE Reload BY <1>4 DEF Reload
<1>5. CASE UNCHANGED nvars BY <1>5 DEF nvars
<1> QED BY <1>1, <1>2, <1>3, <1>4, <1>5 DEF NNext

(* Notifications implements WsSessions: rooms, streams, profiles and reloads leave the
   sessions alone, and the handlers that change sessions do with them what WsSessions says,
   so what is proved of Spec holds of NSpec. *)
THEOREM NotificationsImplementSessions == NSpec => Spec
<1>1. NInit => Init BY DEF NInit
<1>2. [NNext]_nvars => [Next]_vars BY NStepIsStep
<1> QED BY <1>1, <1>2, PTL DEF NSpec, Spec

-----------------------------------------------------------------------------
(* The inductive invariant of Notifications: only sessions are in a room,  *)
(* a client that logged in once is in exactly the rooms of its user, and   *)
(* gets the images of a source only if its user has subscribed.            *)

NoticesTyped ==
  /\ policy \in Policies
  /\ rooms \in [Sockets -> SUBSET Rooms]
  /\ stream \in [named : BOOLEAN, sockets : SUBSET Sockets]
  /\ subscribers \subseteq Users

RoomsInv ==
  /\ \A s \in Sockets : wsid[s] = NoData => rooms[s] = {}
  /\ \A s \in stream.sockets : wsid[s] # NoData

SteadyInv ==
  /\ steady \subseteq Live
  /\ \A s \in steady : rooms[s] = RoomsOf(KeyUser[wsid[s]])
  /\ \A s \in steady : s \in stream.sockets => wsid[s] \in subscribers

NInv == WsInv /\ NoticesTyped /\ RoomsInv /\ SteadyInv

LEMMA RoomsOfType ==
  ASSUME NEW u
  PROVE  RoomsOf(u) \subseteq Rooms
<1>1. \A topic \in Topics : Form(u, topic) \in Forms BY DEF Form, Forms
<1> QED BY <1>1 DEF RoomsOf, Rooms, Forms

(* The rooms of a user change with the permissions only. *)
LEMMA RoomsOfKept ==
  ASSUME UNCHANGED policy
  PROVE  \A u : RoomsOf(u)' = RoomsOf(u)
BY DEF RoomsOf, Form, Allowed, Has

(* What a login, or the end of a session, does to the rooms (doLogin, 2286-2360). *)
LEMMA JoinedKeepsNotices ==
  ASSUME NInv, WsInv', NEW L, LoginsAre(L), Joined(L),
         \/ DoLogins(L) /\ sockets' = sockets
         \/ L = {} /\ \A s \in sockets' : s \in Sockets => wsid'[s] = wsid[s]
  PROVE  NInv'
<1>1. /\ sockets' \subseteq Sockets /\ sockets \subseteq Sockets
      /\ \A s \in Sockets : wsid'[s] # NoData => s \in sockets'
      /\ \A s \in Sockets : wsid[s] # NoData => s \in sockets
  BY DEF NInv, WsInv, SessionsInv, SessionsAreConnected
<1>2. \A s \in sockets' : LoginsOf(L, s) = {} => wsid'[s] = wsid[s]
  BY <1>1 DEF DoLogins, Recorded, LoginsOf
<1>3. \A s \in sockets' : LoginsOf(L, s) # {} =>
        wsid'[s] = Latest(L, s).username /\ Latest(L, s) \in LoginsOf(L, s) /\ wsid'[s] # NoData
  <2> SUFFICES ASSUME NEW s \in sockets', LoginsOf(L, s) # {}
               PROVE  wsid'[s] = Latest(L, s).username /\ Latest(L, s) \in LoginsOf(L, s)
                      /\ wsid'[s] # NoData
    OBVIOUS
  <2>1. Latest(L, s) \in LoginsOf(L, s) BY FirstAndLatest
  <2>2. DoLogins(L) /\ s \in Recorded(L) /\ s \in Sockets BY <1>1 DEF LoginsOf, Recorded
  <2>3. wsid'[s] = Latest(L, s).username BY <2>2 DEF DoLogins
  <2> QED BY <2>1, <2>3, NoDataIsNone DEF LoginsAre, LoginsOf
<1>4. /\ policy' = policy /\ subscribers' = subscribers
      /\ rooms' = [s \in Sockets |->
                     IF s \in sockets'
                     THEN rooms[s] \cup UNION {RoomsOf(KeyUser[x.username]) : x \in LoginsOf(L, s)}
                     ELSE {}]
      /\ stream' = [stream EXCEPT !.sockets = @ \cap sockets']
      /\ steady' = {s \in sockets' : IF LoginsOf(L, s) = {} THEN s \in steady
                                     ELSE wsid[s] = NoData /\ \E x \in L : LoginsOf(L, s) = {x}}
  BY DEF Joined
<1>5. \A u : RoomsOf(u)' = RoomsOf(u) BY <1>4, RoomsOfKept
<1>6. NoticesTyped'
  <2>1. rooms' \in [Sockets -> SUBSET Rooms] BY <1>4, RoomsOfType DEF NInv, NoticesTyped
  <2>2. stream' \in [named : BOOLEAN, sockets : SUBSET Sockets] BY <1>4 DEF NInv, NoticesTyped
  <2> QED BY <1>4, <2>1, <2>2 DEF NInv, NoticesTyped
<1>7. stream'.sockets = stream.sockets \cap sockets' BY <1>4 DEF NInv, NoticesTyped
<1>8. RoomsInv'
  <2>1. ASSUME NEW s \in Sockets, wsid'[s] = NoData
        PROVE  rooms'[s] = {}
    <3>1. CASE s \in sockets'
      <4>1. LoginsOf(L, s) = {} BY <1>3, <2>1, <3>1
      <4>2. wsid[s] = NoData BY <1>2, <2>1, <3>1, <4>1
      <4> QED BY <1>4, <4>1, <4>2 DEF NInv, RoomsInv
    <3>2. CASE s \notin sockets' BY <1>4, <3>2
    <3> QED BY <3>1, <3>2
  <2>2. \A s \in stream'.sockets : wsid'[s] # NoData
    BY <1>2, <1>3, <1>7 DEF NInv, RoomsInv
  <2> QED BY <2>1, <2>2 DEF RoomsInv
<1>9. SteadyInv'
  <2>1. ASSUME NEW s \in steady'
        PROVE  /\ s \in sockets' /\ wsid'[s] # NoData
               /\ rooms'[s] = RoomsOf(KeyUser[wsid'[s]])
               /\ s \in stream'.sockets => wsid'[s] \in subscribers'
    <3>1. s \in sockets' /\ s \in Sockets BY <1>1, <1>4
    <3>2. CASE LoginsOf(L, s) = {}
      <4>1. s \in steady /\ wsid'[s] = wsid[s] /\ rooms'[s] = rooms[s]
        BY <1>2, <1>4, <3>1, <3>2
      <4> QED BY <1>4, <1>7, <3>1, <4>1 DEF NInv, SteadyInv, Live
    <3>3. CASE LoginsOf(L, s) # {}
      <4>1. wsid[s] = NoData /\ \E x \in L : LoginsOf(L, s) = {x} BY <1>4, <3>3
      <4>2. PICK x \in L : LoginsOf(L, s) = {x} BY <4>1
      <4>3. wsid'[s] = x.username /\ wsid'[s] # NoData BY <1>3, <3>1, <3>3, <4>2
      <4>4. rooms[s] = {} /\ s \notin stream.sockets BY <3>1, <4>1 DEF NInv, RoomsInv
      <4>5. rooms'[s] = RoomsOf(KeyUser[x.username]) BY <1>4, <3>1, <4>2, <4>4
      <4> QED BY <1>7, <3>1, <4>3, <4>4, <4>5
    <3> QED BY <3>2, <3>3
  <2> QED BY <1>5, <2>1 DEF SteadyInv, Live
<1> QED BY <1>6, <1>8, <1>9 DEF NInv

LEMMA NInitInv == NInit => NInv
<1> SUFFICES ASSUME NInit PROVE NInv OBVIOUS
<1>1. WsInv BY WsInitInv DEF NInit
<1> QED BY <1>1 DEF NInit, NInv, NoticesTyped, RoomsInv, SteadyInv

LEMMA NStutterInv ==
  ASSUME NInv, UNCHANGED nvars
  PROVE  NInv'
<1>1. WsInv' BY WsStutterInv DEF NInv, nvars
<1>2. NoticesTyped' BY DEF NInv, NoticesTyped, nvars, notices
<1>3. RoomsInv' BY DEF NInv, RoomsInv, nvars, notices, vars
<1>4. SteadyInv'
  <2>1. \A u : RoomsOf(u)' = RoomsOf(u) BY RoomsOfKept DEF nvars, notices
  <2> QED BY <2>1 DEF NInv, SteadyInv, Live, nvars, notices, vars
<1> QED BY <1>1, <1>2, <1>3, <1>4 DEF NInv

LEMMA LoginsInv ==
  ASSUME NInv, WsInv', Logins
  PROVE  NInv'
<1>1. ASSUME NEW s \in Sockets, NEW u \in Users, NEW t \in Types, LoginAlone(s, u, t),
             Joined({[id |-> 0, socket |-> s, username |-> u, uaType |-> t]})
      PROVE  NInv'
  BY <1>1, LoginAloneIsLogin, JoinedKeepsNotices DEF LoginAlone
<1>2. ASSUME NEW s \in Sockets, NEW u \in Users, NEW t \in Types, LoginTakesOver(s, u, t), NotLoggedIn
      PROVE  NInv'
  <2>1. LoginsAre({}) BY DEF LoginsAre
  <2> QED BY <1>2, <2>1, JoinedKeepsNotices DEF LoginTakesOver, NotLoggedIn
<1>3. ASSUME NEW m \in Sockets, TakeOverAck(m),
             Joined({x \in takeOvers : x.on = m /\ x.listening})
      PROVE  NInv'
  <2> DEFINE fired == {x \in takeOvers : x.on = m /\ x.listening}
  <2>1. LoginsAre(fired) BY TakeOversAreLogins DEF NInv, WsInv
  <2>2. DoLogins(fired) /\ UNCHANGED sockets /\ Joined(fired) BY <1>3 DEF TakeOverAck
  <2> HIDE DEF fired
  <2> QED BY <2>1, <2>2, JoinedKeepsNotices
<1>4. ASSUME NEW id \in 1..MaxTakeOvers, TimerFires(id), Joined({x \in takeOvers : x.id = id})
      PROVE  NInv'
  <2>1. PICK x \in takeOvers : x.id = id /\ TakeOverTimeout(x) BY <1>4 DEF TimerFires
  <2>2. {y \in takeOvers : y.id = id} = {x} BY <2>1 DEF NInv, WsInv, TakeOversOf
  <2>3. LoginsAre({x}) BY TakeOversAreLogins DEF NInv, WsInv
  <2>4. DoLogins({x}) /\ UNCHANGED sockets BY <2>1 DEF TakeOverTimeout
  <2> QED BY <1>4, <2>2, <2>3, <2>4, JoinedKeepsNotices
<1> QED BY <1>1, <1>2, <1>3, <1>4 DEF Logins

LEMMA ConnectionsInv ==
  ASSUME NInv, WsInv', Connections
  PROVE  NInv'
<1>1. LoginsAre({}) /\ Joined({}) BY DEF LoginsAre, Connections, NotLoggedIn
<1>2. PICK s \in Sockets : WsConnHdlr(s) \/ LoginRefused(s) \/ DisconnHdlr(s) BY DEF Connections
<1>3. \A x \in sockets' : x \in Sockets => wsid'[x] = wsid[x]
  BY <1>2 DEF WsConnHdlr, LoginRefused, DisconnHdlr, Leave, NInv, WsInv, SessionsInv
<1> QED BY <1>1, <1>3, JoinedKeepsNotices

(* Every key of wsid is a connected socket: the loops reach them all. *)
LEMMA NobodyIsGone ==
  ASSUME WsInv
  PROVE  UntilGone = {s \in Sockets : wsid[s] # NoData}
<1>1. \A j \in DOMAIN keys : keys[j] \in sockets
  BY DEF WsInv, SessionsInv, SessionsAreConnected, ToSet
<1>2. \A i \in DOMAIN keys : \A j \in 1..i : j \in DOMAIN keys
  BY LenProperties DEF WsInv, SessionsInv
<1>3. UntilGone = ToSet(keys) BY <1>1, <1>2 DEF UntilGone, ToSet
<1> QED BY <1>3 DEF WsInv, SessionsInv

LEMMA StreamsInv ==
  ASSUME NInv, Streams
  PROVE  NInv'
<1>1. PICK u \in Users : evtStreamingSourceSubscribed(u) \/ evtStreamingSourceUnsubscribed(u)
  BY DEF Streams
<1>2. UNCHANGED <<vars, policy, rooms, steady>>
  BY <1>1 DEF evtStreamingSourceSubscribed, evtStreamingSourceUnsubscribed
<1>3. WsInv' BY <1>2, WsStutterInv DEF NInv
<1>4. SessionsReached(u) = {s \in Sockets : wsid[s] = u}
  BY NobodyIsGone, NoDataIsNone DEF SessionsReached, NInv
<1>5. \A v : RoomsOf(v)' = RoomsOf(v) BY <1>2, RoomsOfKept
<1>6. CASE evtStreamingSourceSubscribed(u)
  <2>1. /\ stream' = [named |-> TRUE, sockets |-> stream.sockets \cup SessionsReached(u)]
        /\ subscribers' = subscribers \cup {u}
    BY <1>6 DEF evtStreamingSourceSubscribed
  <2>2. NoticesTyped' BY <1>2, <1>4, <2>1 DEF NInv, NoticesTyped
  <2>3. RoomsInv' BY <1>2, <1>4, <2>1, NoDataIsNone DEF NInv, RoomsInv, vars
  <2>4. SteadyInv'
    BY <1>2, <1>4, <1>5, <2>1 DEF NInv, SteadyInv, Live, vars
  <2> QED BY <1>3, <2>2, <2>3, <2>4 DEF NInv
<1>7. CASE evtStreamingSourceUnsubscribed(u)
  <2>1. stream' = [stream EXCEPT !.sockets = @ \ SessionsReached(u)]
        /\ subscribers' = subscribers \ {u}
    BY <1>7 DEF evtStreamingSourceUnsubscribed
  <2>2. stream'.sockets = stream.sockets \ SessionsReached(u)
    BY <2>1 DEF NInv, NoticesTyped
  <2>3. NoticesTyped' BY <1>2, <2>1 DEF NInv, NoticesTyped
  <2>4. RoomsInv' BY <1>2, <2>2 DEF NInv, RoomsInv, vars
  <2>5. \A s \in steady : s \in Sockets BY DEF NInv, SteadyInv, Live, WsInv, SessionsInv
  <2>6. SteadyInv'
    BY <1>2, <1>4, <1>5, <2>1, <2>2, <2>5 DEF NInv, SteadyInv, Live, vars
  <2> QED BY <1>3, <2>3, <2>4, <2>6 DEF NInv
<1> QED BY <1>1, <1>6, <1>7

LEMMA ReloadInv ==
  ASSUME NInv, Reload
  PROVE  NInv'
<1>1. UNCHANGED <<vars, rooms, stream, subscribers>> /\ steady' = {} /\ policy' \in Policies
  BY DEF Reload
<1>2. WsInv' BY <1>1, WsStutterInv DEF NInv
<1> QED BY <1>1, <1>2 DEF NInv, NoticesTyped, RoomsInv, SteadyInv, vars

LEMMA NNextInv ==
  ASSUME NInv, [NNext]_nvars
  PROVE  NInv'
<1>1. WsInv' BY NStepIsStep, WsNextInv DEF NInv
<1> QED BY <1>1, LoginsInv, ConnectionsInv, StreamsInv, ReloadInv, NStutterInv DEF NNext

-----------------------------------------------------------------------------
(* Theorems about what the clients are told.                               *)

LEMMA NSafety == NSpec => []NInv
<1>1. NInit => NInv BY NInitInv
<1>2. NInv /\ [NNext]_nvars => NInv' BY NNextInv
<1> QED BY <1>1, <1>2, PTL DEF NSpec

(* Rooms, subscriptions and sessions are well typed, and only a connected socket is in
   a room (doLogin, 2286-2360). *)
THEOREM NotificationsTyped == NSpec => []NTypeOK
<1>1. NInv => NTypeOK
  <2> SUFFICES ASSUME NInv PROVE NTypeOK OBVIOUS
  <2>1. TypeOK BY WsInvImpliesTypeOK DEF NInv
  <2>2. \A s \in Sockets : wsid[s] # NoData => s \in sockets
    BY DEF NInv, WsInv, SessionsInv, SessionsAreConnected
  <2>3. \A s \in Sockets : rooms[s] # {} => s \in sockets BY <2>2 DEF NInv, RoomsInv
  <2>4. stream.named \in BOOLEAN /\ stream.sockets \subseteq Sockets
    BY DEF NInv, NoticesTyped
  <2>5. stream.sockets \subseteq sockets BY <2>2, <2>4 DEF NInv, RoomsInv
  <2> QED BY <2>1, <2>3, <2>4, <2>5 DEF NInv, NoticesTyped, SteadyInv, NTypeOK
<1> QED BY <1>1, NSafety, PTL

(* The broadcasts of com_nethcti_ws.js:1108-1183 never meet the key of a socket that is
   gone, with logins, takeovers and ends of sessions in any order. *)
THEOREM NSessionsStayConnected == NSpec => []SessionsAreConnected
<1>1. NInv => SessionsAreConnected BY DEF NInv, WsInv, SessionsInv
<1> QED BY <1>1, NSafety, PTL

(* The end of the last session of a user is announced while rooms, streams and
   permissions change too (2384-2402). *)
THEOREM NLastEndIsAnnounced == NSpec => LastEndIsAnnounced
BY NotificationsImplementSessions, EveryLastEndIsAnnounced, PTL

(* The images of a source follow the subscriptions (1228-1275). *)
THEOREM FramesAreSubscribed == NSpec => []FramesFollowSubscriptions
<1>1. NInv => FramesFollowSubscriptions
  BY DEF NInv, SteadyInv, FramesFollowSubscriptions, evtStreamingSourceChanged
<1> QED BY <1>1, NSafety, PTL

(* What a client that logged in once hears is in the form its user is allowed now. *)
LEMMA RoomOf ==
  ASSUME NEW u, NEW topic \in Topics, NEW f
  PROVE  <<topic, f>> \in RoomsOf(u) <=> Allowed(u, topic) /\ f = Form(u, topic)
<1>1. topic # "qmanager" BY DEF Topics
<1> QED BY <1>1 DEF RoomsOf

LEMMA SteadyIsHeard ==
  ASSUME NInv
  PROVE  HeardAsAllowed
<1> SUFFICES ASSUME NEW s \in Sockets, s \in steady
             PROVE
    LET u == KeyUser[wsid[s]]
        Hidden == "privacy" \in policy[u]
        Queues == {"queues", "advanced_queues"} \cap policy[u]
    IN /\ \A sent \in {queueChanged, queueMemberChanged} :
            Heard(s, sent) = IF Queues = {} THEN {}
                             ELSE {IF Hidden /\ "advanced_queues" \notin Queues THEN "privacy" ELSE "clear"}
       /\ Heard(s, parkingChanged) = IF "parkings" \notin policy[u] THEN {}
                                     ELSE {IF Hidden THEN "privacy" ELSE "clear"}
       /\ \A f \in Heard(s, trunkChanged) : Hidden => f = "privacy"
       /\ s \in evtAlarm <=> "qmanager" \in policy[u]
       /\ \A e \in UNION {ExtensOf[v] : v \in Persons}, f \in Forms \cup {"queues"} :
            <<s, f>> \in extenChanged(e) /\ Hidden /\ f = "clear" => e \in ExtensOf[u]
       /\ \A things \in SUBSET Things, central \in BOOLEAN :
            \A x \in getFilteredCallerIndentity(u, things, {}, central) \cup
                     getFilteredCallerIndentity(u, {}, things, central) :
              x.creator = u \/ x.public \/ (Has(u, "ad_postit") /\ x \in NotesOf(u, things))
  BY DEF HeardAsAllowed
<1> DEFINE u == KeyUser[wsid[s]]
           Hidden == "privacy" \in policy[u]
           Queues == {"queues", "advanced_queues"} \cap policy[u]
<1>1. s \in sockets /\ rooms[s] = RoomsOf(u) BY DEF NInv, SteadyInv, Live
<1>2. \A topic \in Topics : Heard(s, ToRooms(topic)) =
        IF Allowed(u, topic) THEN {Form(u, topic)} ELSE {}
  <2> TAKE topic \in Topics
  <2>1. \A f \in Forms : <<s, f>> \in ToRooms(topic) <=> <<topic, f>> \in rooms[s]
    BY <1>1 DEF ToRooms
  <2>2. Form(u, topic) \in Forms BY DEF Form, Forms
  <2> HIDE DEF u
  <2> QED BY <1>1, <2>1, <2>2, RoomOf DEF Heard
<1>3. \A sent \in {queueChanged, queueMemberChanged} :
        Heard(s, sent) = IF Queues = {} THEN {}
                         ELSE {IF Hidden /\ "advanced_queues" \notin Queues THEN "privacy" ELSE "clear"}
  <2>1. Heard(s, ToRooms("queues")) = IF Allowed(u, "queues") THEN {Form(u, "queues")} ELSE {}
    BY <1>2 DEF Topics
  <2>2. Allowed(u, "queues") <=> Queues # {} BY DEF Allowed, Has
  <2>3. Form(u, "queues") = IF Hidden /\ "advanced_queues" \notin Queues THEN "privacy" ELSE "clear"
    BY DEF Form, Has
  <2> QED BY <2>1, <2>2, <2>3 DEF queueChanged, queueMemberChanged
<1>4. Heard(s, parkingChanged) = IF "parkings" \notin policy[u] THEN {}
                                 ELSE {IF Hidden THEN "privacy" ELSE "clear"}
  <2>1. Heard(s, ToRooms("parkings")) =
          IF Allowed(u, "parkings") THEN {Form(u, "parkings")} ELSE {}
    BY <1>2 DEF Topics
  <2> QED BY <2>1 DEF parkingChanged, Allowed, Form, Has
<1>5. \A f \in Heard(s, trunkChanged) : Hidden => f = "privacy"
  <2>1. Heard(s, ToRooms("extensions")) =
          IF Allowed(u, "extensions") THEN {Form(u, "extensions")} ELSE {}
    BY <1>2 DEF Topics
  <2> QED BY <2>1 DEF trunkChanged, Form, Has
<1>6. s \in evtAlarm <=> "qmanager" \in policy[u]
  <2>1. s \in evtAlarm <=> <<"qmanager", "clear">> \in RoomsOf(u) BY <1>1 DEF evtAlarm
  <2>2. \A topic \in Topics : topic # "qmanager" BY DEF Topics
  <2> HIDE DEF u
  <2> QED BY <2>1, <2>2 DEF RoomsOf, Has
<1>7. \A e \in UNION {ExtensOf[v] : v \in Persons}, f \in Forms \cup {"queues"} :
        <<s, f>> \in extenChanged(e) /\ Hidden /\ f = "clear" => e \in ExtensOf[u]
  BY DEF extenChanged, ExtenFormOf, ExtenForm, Has
<1>8. \A things \in SUBSET Things, central \in BOOLEAN :
        \A x \in getFilteredCallerIndentity(u, things, {}, central) \cup
                 getFilteredCallerIndentity(u, {}, things, central) :
          x.creator = u \/ x.public \/ (Has(u, "ad_postit") /\ x \in NotesOf(u, things))
  BY DEF getFilteredCallerIndentity, NotesOf, ContactsOf
<1> QED BY <1>3, <1>4, <1>5, <1>6, <1>7, <1>8

(* A client that logged in once hears of queues, parkings and alarms exactly what its
   user is allowed to and in the form its privacy asks for, and is shown no number,
   note or contact that is hidden from it (899, 1357, 2296-2352). *)
THEOREM PrivacyIsKept == NSpec => []HeardAsAllowed
<1>1. NInv => HeardAsAllowed BY SteadyIsHeard
<1> QED BY <1>1, NSafety, PTL
=============================================================================
