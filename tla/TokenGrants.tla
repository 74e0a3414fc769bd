---------------------------- MODULE TokenGrants ----------------------------
(***************************************************************************)
(* The grants of plugins/authentication/authentication.js: tokens that     *)
(* expire, and the three places that keep them alive or take them away:    *)
(* the REST requests through http_proxy, the websocket and TCP sessions    *)
(* with their half-expiration intervals, and the sweep of expired tokens.  *)
(*                                                                         *)
(* Time is discrete.  A grant carries the time it has left instead of the  *)
(* instant it expires, and an interval the time since it last ran; an      *)
(* interval is late by at most Lag (setInterval waits for the event loop). *)
(* Persistent tokens, which never expire, are in PersistentTokens.         *)
(***************************************************************************)
EXTENDS Integers

CONSTANTS
  Names,        \* access keys: username, user@domain, extension, shibboleth cookie
  TcpUser,      \* access key -> socket.username set by the TCP loginHdlr
  LogoutUser,   \* access key -> the header authorization_user of a REST logout
  Tokens,       \* tokens; each is minted at most once, the nonce is random
  WsSockets, TcpSockets,
  None,         \* no grant, no session, no waiting login
  Expirations,  \* values expiration_timeout takes in authentication.json
  Lag,          \* bound: lateness of an interval
  TakeOverWait  \* bound: from verifyToken to doLogin when a takeover is between

ASSUME NamesAreMapped == TcpUser \in [Names -> Names] /\ LogoutUser \in [Names -> Names]
ASSUME TimesAreNaturals ==
  /\ Expirations \subseteq Nat \ {0, 1} /\ Expirations # {}
  /\ Lag \in Nat /\ TakeOverWait \in Nat
ASSUME NoneIsNothing ==
  /\ None \notin Names
  /\ None \notin [name : Names, left : Int]
  /\ None \notin [name : Names, token : Tokens]
  /\ None \notin [name : Names, token : Tokens, waited : Nat]

VARIABLES
  grants,      \* token -> [name, left]: grants[name][token].expires - now
  minted,      \* token -> the access key of the login that calculated it, or None
  expires,     \* expires of authentication.js
  sweeping,    \* intervalRemoveExpiredTokens is there
  interval,    \* updateTokenExpirationInterval, computed once by each of ws and tcp
  sinceSweep,  \* time since intervalRemoveExpiredTokens ran or was started
  sinceWs,     \* time since updateTokenExpirationOfAllWebsocketUsers ran
  sinceTcp,    \* time since updateTokenExpirationOfAllTcpUsers ran
  wsid,        \* websocket -> [name, token] of its session
  waiting,     \* websocket -> [name, token, waited]: login waiting for a takeover
  tcp,         \* TCP socket -> [name, token]: socket.username and socket.token
  loggedOut    \* history: tokens whose logout was answered 200

grantsVars == <<grants, minted, expires, sweeping, interval, sinceSweep, sinceWs, sinceTcp,
          wsid, waiting, tcp, loggedOut>>
clocks   == <<sinceSweep, sinceWs, sinceTcp>>
settings == <<expires, sweeping, interval>>
sessions == <<wsid, waiting, tcp>>

Credentials == [name : Names, token : Tokens]

GrantsTypeOK ==
  /\ grants \in [Tokens -> [name : Names, left : {i \in Int : i >= -1}] \cup {None}]
  /\ minted \in [Tokens -> Names \cup {None}]
  /\ loggedOut \subseteq {t \in Tokens : minted[t] # None}
  /\ expires \in Expirations /\ sweeping \in BOOLEAN
  /\ \E e \in Expirations : interval = e \div 2
  /\ sinceSweep \in Nat
  /\ sinceWs \in 0..(interval + Lag) /\ sinceTcp \in 0..(interval + Lag)
  /\ wsid \in [WsSockets -> Credentials \cup {None}]
  /\ waiting \in [WsSockets -> [name : Names, token : Tokens, waited : 0..TakeOverWait] \cup {None}]
  /\ tcp \in [TcpSockets -> Credentials \cup {None}]

-----------------------------------------------------------------------------
(* The operations on grants; grants[n][t] is there iff Granted(n, t). *)

Granted(n, t) == grants[t] # None /\ grants[t].name = n

\* now <= expires
Valid(n, t) == Granted(n, t) /\ grants[t].left >= 0

\* mutant: a grant is made where none is
RenewedOrMade(C) ==
  [t \in Tokens |-> IF \E c \in C : c.token = t
                    THEN [name |-> (CHOOSE c \in C : c.token = t).name, left |-> expires]
                    ELSE grants[t]]

\* updateTokenExpires for every name and token of C; expired ones are renewed too
Renewed(C) ==
  [t \in Tokens |-> IF \E c \in C : c.token = t /\ Granted(c.name, t)
                    THEN [name |-> grants[t].name, left |-> expires]
                    ELSE grants[t]]

\* removeToken
Removed(n, t) == IF Granted(n, t) THEN [grants EXCEPT ![t] = None] ELSE grants

\* mutants: the token is not renewed; the expiration is not looked at
VerifiedOnly(n, t) == IF Valid(n, t) THEN grants ELSE Removed(n, t)
VerifiedGrant(n, t) ==
  IF Granted(n, t) THEN Renewed({[name |-> n, token |-> t]}) ELSE grants

\* verifyToken, autoUpdateTokenExpires being true: renew, or remove if expired
Verified(n, t) ==
  IF Valid(n, t) THEN Renewed({[name |-> n, token |-> t]}) ELSE Removed(n, t)

-----------------------------------------------------------------------------
\* config and start of the three components, from the same file
GrantsInit ==
  /\ grants = [t \in Tokens |-> None] /\ minted = [t \in Tokens |-> None]
  /\ expires \in Expirations /\ sweeping = TRUE /\ interval = expires \div 2
  /\ sinceSweep = 0 /\ sinceWs = 0 /\ sinceTcp = 0
  /\ wsid = [s \in WsSockets |-> None]
  /\ waiting = [s \in WsSockets |-> None]
  /\ tcp = [c \in TcpSockets |-> None]
  /\ loggedOut = {}

\* REST login: getNonce, newToken
GetNonce(n, t) ==
  /\ minted[t] = None
  /\ minted' = [minted EXCEPT ![t] = n]
  /\ grants' = [grants EXCEPT ![t] = [name |-> n, left |-> expires]]
  /\ UNCHANGED <<settings, clocks, sessions, loggedOut>>

\* a REST request through http_proxy, or the TCP request to reset the commands
Request(n, t) ==
  /\ minted[t] # None
  /\ grants' = Verified(n, t)
  /\ UNCHANGED <<minted, settings, clocks, sessions, loggedOut>>

\* REST logout: http_proxy verifies the token, lower-cases the name, and logout
\* removes it; the answer is 200 as soon as grants[LogoutUser[n]][t] is not there
Logout(n, t) ==
  /\ Valid(n, t)
  /\ grants' = IF LogoutUser[n] = n THEN [grants EXCEPT ![t] = None] ELSE Verified(n, t)
  /\ loggedOut' = loggedOut \cup {t}
  /\ UNCHANGED <<minted, settings, clocks, sessions>>

\* mutant: the comparison is inverted
SweepValid ==
  /\ sweeping /\ sinceSweep >= expires
  /\ grants' = [t \in Tokens |->
                  IF grants[t] # None /\ grants[t].left > 0 THEN None ELSE grants[t]]
  /\ sinceSweep' = 0
  /\ UNCHANGED <<minted, settings, sinceWs, sinceTcp, sessions, loggedOut>>

\* startIntervalRemoveExpiredTokens
Sweep ==
  /\ sweeping /\ sinceSweep >= expires
  /\ grants' = [t \in Tokens |->
                  IF grants[t] # None /\ grants[t].left < 0 THEN None ELSE grants[t]]
  /\ sinceSweep' = 0
  /\ UNCHANGED <<minted, settings, sinceWs, sinceTcp, sessions, loggedOut>>

\* reload of authentication: the interval is cleared and started again with the new
\* value, those of the websocket and TCP components are not.  When the file is missing
\* or broken config() throws: the old value stays and the interval is gone
ReloadAuthentication ==
  /\ \/ expires' \in Expirations /\ sweeping' = TRUE
     \/ UNCHANGED expires /\ sweeping' = FALSE
  /\ sinceSweep' = 0
  /\ UNCHANGED <<grants, minted, interval, sinceWs, sinceTcp, sessions, loggedOut>>

-----------------------------------------------------------------------------
(* com_nethcti_ws. *)

\* loginHdlr: a refused client is disconnected; an accepted one is logged in, at
\* once or after the takeover of older clients (see WsSessions).  Bound: a socket
\* has one login that waits for a takeover
WsLogin(s, n, t) ==
  /\ minted[t] # None
  /\ grants' = Verified(n, t)
  /\ \/ /\ ~Valid(n, t)
        /\ wsid' = [wsid EXCEPT ![s] = None] /\ waiting' = [waiting EXCEPT ![s] = None]
     \/ Valid(n, t) /\ wsid' = [wsid EXCEPT ![s] = [name |-> n, token |-> t]] /\ UNCHANGED waiting
     \/ /\ Valid(n, t) /\ waiting[s] = None
        /\ waiting' = [waiting EXCEPT ![s] = [name |-> n, token |-> t, waited |-> 0]]
        /\ UNCHANGED wsid
  /\ UNCHANGED <<minted, settings, clocks, tcp, loggedOut>>

\* doLogin after the takeover: the token is not verified again
WsLoginCompleted(s) ==
  /\ waiting[s] # None
  /\ wsid' = [wsid EXCEPT ![s] = [name |-> waiting[s].name, token |-> waiting[s].token]]
  /\ waiting' = [waiting EXCEPT ![s] = None]
  /\ UNCHANGED <<grants, minted, settings, clocks, tcp, loggedOut>>

WsDisconnect(s) ==
  /\ wsid' = [wsid EXCEPT ![s] = None]
  /\ waiting' = [waiting EXCEPT ![s] = None]
  /\ UNCHANGED <<grants, minted, settings, clocks, tcp, loggedOut>>

WsCredentials == {wsid[s] : s \in {x \in WsSockets : wsid[x] # None}}

\* updateTokenExpirationOfAllWebsocketUsers
WsKeepAlive ==
  /\ sinceWs >= interval
  /\ grants' = Renewed(WsCredentials)
  /\ sinceWs' = 0
  /\ UNCHANGED <<minted, settings, sinceSweep, sinceTcp, sessions, loggedOut>>

-----------------------------------------------------------------------------
(* com_nethcti_tcp. *)

\* loginHdlr: the token is verified under the access key, and kept with the user
TcpLogin(c, n, t) ==
  /\ minted[t] # None
  /\ grants' = Verified(n, t)
  /\ tcp' = [tcp EXCEPT ![c] = IF Valid(n, t) THEN [name |-> TcpUser[n], token |-> t] ELSE None]
  /\ UNCHANGED <<minted, settings, clocks, wsid, waiting, loggedOut>>

TcpDisconnect(c) ==
  /\ tcp' = [tcp EXCEPT ![c] = None]
  /\ UNCHANGED <<grants, minted, settings, clocks, wsid, waiting, loggedOut>>

\* mutant: the interval of TCP renews the websocket sessions
TcpCredentialsOfWs == WsCredentials

TcpCredentials == {tcp[c] : c \in {x \in TcpSockets : tcp[x] # None}}

\* updateTokenExpirationOfAllTcpUsers
TcpKeepAlive ==
  /\ sinceTcp >= interval
  /\ grants' = Renewed(TcpCredentials)
  /\ sinceTcp' = 0
  /\ UNCHANGED <<minted, settings, sinceSweep, sinceWs, sessions, loggedOut>>

-----------------------------------------------------------------------------
\* one unit of time: no interval and no takeover may be later than its bound; a
\* grant that has expired stays at -1
Tick ==
  /\ sweeping => sinceSweep < expires + Lag
  /\ sinceWs < interval + Lag /\ sinceTcp < interval + Lag
  /\ \A s \in WsSockets : waiting[s] # None => waiting[s].waited < TakeOverWait
  /\ grants' = [t \in Tokens |->
                  IF grants[t] # None /\ grants[t].left >= 0
                  THEN [name |-> grants[t].name, left |-> grants[t].left - 1]
                  ELSE grants[t]]
  /\ sinceSweep' = IF sweeping THEN sinceSweep + 1 ELSE 0
  /\ sinceWs' = sinceWs + 1 /\ sinceTcp' = sinceTcp + 1
  /\ waiting' = [s \in WsSockets |->
                   IF waiting[s] = None THEN None
                   ELSE [name |-> waiting[s].name, token |-> waiting[s].token,
                         waited |-> waiting[s].waited + 1]]
  /\ UNCHANGED <<minted, settings, wsid, tcp, loggedOut>>

Clients ==
  \/ \E n \in Names, t \in Tokens :
       \/ GetNonce(n, t) \/ Request(n, t) \/ Logout(n, t)
       \/ \E s \in WsSockets : WsLogin(s, n, t)
       \/ \E c \in TcpSockets : TcpLogin(c, n, t)
  \/ \E s \in WsSockets : WsDisconnect(s)
  \/ \E c \in TcpSockets : TcpDisconnect(c)

Timers ==
  \/ Sweep \/ WsKeepAlive \/ TcpKeepAlive \/ Tick
  \/ \E s \in WsSockets : WsLoginCompleted(s)

GrantsNext == Clients \/ Timers \/ ReloadAuthentication

GrantsSpec == GrantsInit /\ [][GrantsNext]_grantsVars

\* time goes on and the intervals run
FairGrantsSpec ==
  /\ GrantsSpec
  /\ WF_grantsVars(Tick) /\ WF_grantsVars(Sweep) /\ WF_grantsVars(WsKeepAlive) /\ WF_grantsVars(TcpKeepAlive)
  /\ \A s \in WsSockets : WF_grantsVars(WsLoginCompleted(s))

-----------------------------------------------------------------------------
(* Properties. *)

\* every expiration is long enough for an interval computed from any other
Timely == \A e, f \in Expirations : TakeOverWait + (e \div 2) + Lag <= f

\* logged out by a client whose access key is the name that logout looks for: written
\* without capitals, and no alias
LeftFor(t) == t \in loggedOut /\ LogoutUser[minted[t]] = minted[t]

\* The keep-alive of the websocket sessions (com_nethcti_ws.js:1976-1980,
\* 2017-2024): as long as a client stays logged in by websocket and does not log
\* out, its token is accepted by REST requests, whatever happens to the other
\* holders of the token, even if its login had to wait for a takeover.
WsTokensLive ==
  \A s \in WsSockets : wsid[s] # None /\ ~LeftFor(wsid[s].token) =>
    Valid(wsid[s].name, wsid[s].token)

\* The same for the clients connected by TCP (com_nethcti_tcp.js:1353-1355,
\* 1368-1375) whose socket keeps the access key of the login.  A client that logs in
\* with user@domain or an extension (1522-1530) is kept under another name, which the
\* interval looks for in vain: its token expires, whatever the client does by TCP.
TcpTokensLive ==
  \A c \in TcpSockets :
    tcp[c] # None /\ tcp[c].name = minted[tcp[c].token] /\ ~LeftFor(tcp[c].token) =>
      Valid(tcp[c].name, tcp[c].token)

\* A token that logout answered 200 for (removeToken: "True if the grant removing
\* has been successful", authentication.js:1115) is never granted again, though
\* sessions opened with it go on and their keep-alive still names it.  The answer is
\* 200 too when the header names another key than the grant (1137): nothing is removed
\* then, and LeftFor leaves that logout out.
LogoutIsFinal == \A t \in Tokens : LeftFor(t) => grants[t] = None

\* A grant is only renewed while it is valid: an expired token that waits for the
\* sweep (573-601) does not come back to life by a keep-alive, which does not look
\* at the expiration (1152-1171).
ExpiredIsFinal ==
  [][\A t \in Tokens : grants[t] # None /\ grants[t].left < 0 =>
       grants'[t] = None \/ grants'[t].left < 0]_grantsVars

\* With a configuration that is not reloaded forever the sweep reaches every
\* expired token (573-601), though every reload starts its interval again; only a
\* reload that cannot read its file (458-468) leaves no interval.
ExpiredAreSwept ==
  (<>[][Clients \/ Timers]_grantsVars) =>
    \A t \in Tokens :
      (grants[t] # None /\ grants[t].left < 0)
        ~> (grants[t] = None \/ grants[t].left >= 0 \/ ~sweeping)
=============================================================================
