-------------------------------- MODULE OIDC --------------------------------
(***************************************************************************)
(* dashboard.OIDCMiddleware (internal/dashboard/oidc.go): Wrap routes a     *)
(* request to the callback, login or logout handler, or checks its session *)
(* cookie against the sessions map; handleLogin stores a CSRF state entry  *)
(* under "state:"+state in that same map and redirects with the state in   *)
(* the URL; handleCallback consumes the state entry, exchanges the code    *)
(* and stores a session under a fresh random ID.                           *)
(*                                                                         *)
(* Clients choose their cookies: a browser sends what it was given, or any *)
(* string it knows.  Random values come from the finite set Tokens, and    *)
(* time from a clock of ticks.  The IdP issues codes only to Honest users; *)
(* the token and userinfo calls may fail.                                  *)
(***************************************************************************)
EXTENDS Integers, Sequences

CONSTANTS
  Actors,      \* clients of the dashboard
  Honest,      \* the actors with an account at the IdP
  Tokens,      \* values generateState may return
  StateTTL,    \* 10 minutes, in ticks
  SessionTTL,  \* config.SessionDuration, in ticks
  MaxTime      \* bound on the clock

ASSUME Honest \subseteq Actors

NoUser == "" \* OIDCUser{}: the zero user of a state entry

VARIABLES
  sessions,    \* the sync.Map: key -> [user, exp]
  discovered,  \* the discovery endpoints are cached
  used,        \* tokens generateState has returned
  known,       \* actor -> strings it has seen (redirect URLs, its cookies)
  cookie,      \* actor -> its legator-session cookie ("" when none)
  now,         \* the clock
  served       \* history: [actor, user] of every request passed to next

vars == <<sessions, discovered, used, known, cookie, now, served>>

----------------------------------------------------------------------------
\* "state:" + state
StateKey(s) == "state:" \o s

\* time.Now().After(expiresAt)
Expired(k) == now > sessions[k].exp

\* m.Store(k, v)
Stored(m, k, v) == [x \in DOMAIN m \cup {k} |-> IF x = k THEN v ELSE m[x]]

\* m.Delete(k)
Deleted(m, k) == [x \in DOMAIN m \ {k} |-> m[x]]

\* discover under mu: a cached result, or a fetch that may fail
Discover == discovered' \in IF discovered THEN {TRUE} ELSE BOOLEAN

\* generateState: 32 random bytes, a value not returned before
GenerateState == Tokens \ used

\* exchangeCode posts the code to the token endpoint: only a code the IdP
\* issued, to an actor with an account, is traded for an access token, and
\* the request, a non-200 status or the decoding may fail.
ExchangeCode(a) == IF a \in Honest THEN BOOLEAN ELSE {FALSE}

\* getUserInfo: the request, a non-200 status or the decoding may fail.
GetUserInfo == BOOLEAN

\* handleLogin for actor a: after a successful discovery a fresh state is
\* stored with the zero user and a 10-minute expiry in the map m, and the
\* redirect URL shows it to a.  A failed discovery answers 500 and stores
\* nothing.
Login(a, m) ==
  /\ Discover
  /\ IF discovered'
       THEN \E s \in GenerateState :
              /\ used' = used \cup {s}
              /\ sessions' = Stored(m, StateKey(s), [user |-> NoUser, exp |-> now + StateTTL])
              /\ known' = [known EXCEPT ![a] = @ \cup {s}]
       ELSE /\ sessions' = m
            /\ UNCHANGED <<used, known>>

\* The client visits /auth/login.
HandleLogin(a) ==
  /\ Login(a, sessions)
  /\ UNCHANGED <<cookie, now, served>>

\* handleCallback with a code and a state the actor knows: the state entry
\* is loaded and deleted, rejected when expired; the code is exchanged and
\* the user fetched, and a failure of either answers 500; then a session
\* is stored under a fresh ID and set as the actor's cookie.  (A callback
\* with an error parameter or no code returns before the state lookup and
\* changes nothing.)
HandleCallback(a) ==
  /\ \E s \in known[a] :
       LET m == Deleted(sessions, StateKey(s)) IN
       /\ StateKey(s) \in DOMAIN sessions
       /\ IF Expired(StateKey(s))
            THEN /\ sessions' = m
                 /\ UNCHANGED <<used, known, cookie>>
            ELSE \E token \in ExchangeCode(a), info \in GetUserInfo :
                   IF token /\ info
                     THEN \E id \in GenerateState :
                            /\ used' = used \cup {id}
                            /\ sessions' = Stored(m, id, [user |-> a, exp |-> now + SessionTTL])
                            /\ cookie' = [cookie EXCEPT ![a] = id]
                            /\ known' = [known EXCEPT ![a] = @ \cup {id}]
                     ELSE /\ sessions' = m
                          /\ UNCHANGED <<used, known, cookie>>
  /\ UNCHANGED <<discovered, now, served>>

\* The client sets its own cookie to a string it knows, with or without
\* the "state:" prefix it saw the server use.
ForgeCookie(a) ==
  /\ \E v \in known[a] \cup {StateKey(s) : s \in known[a]} :
       /\ v # cookie[a]
       /\ cookie' = [cookie EXCEPT ![a] = v]
  /\ UNCHANGED <<sessions, discovered, used, known, now, served>>

\* getSession: a cookie is present, its value is a key of the map, and the
\* entry has not expired
ValidSession(v) == v # "" /\ v \in DOMAIN sessions /\ ~Expired(v)

\* Wrap for a protected path: getSession loads the cookie's value from the
\* map; a missing or expired entry (deleted) sends the client to
\* handleLogin; otherwise next runs with the entry's user.
Request(a) ==
  LET v == cookie[a] IN
  IF ValidSession(v)
    THEN /\ served' = served \cup {[actor |-> a, user |-> sessions[v].user]}
         /\ UNCHANGED <<sessions, discovered, used, known, cookie, now>>
    ELSE /\ Login(a, IF v \in DOMAIN sessions THEN Deleted(sessions, v) ELSE sessions)
         /\ UNCHANGED <<cookie, now, served>>

\* handleLogout deletes the cookie's entry and clears the cookie.
HandleLogout(a) ==
  /\ cookie[a] # ""
  /\ sessions' = Deleted(sessions, cookie[a])
  /\ cookie' = [cookie EXCEPT ![a] = ""]
  /\ UNCHANGED <<discovered, used, known, now, served>>

Tick ==
  /\ now < MaxTime
  /\ now' = now + 1
  /\ UNCHANGED <<sessions, discovered, used, known, cookie, served>>

Init ==
  /\ sessions = [x \in {} |-> [user |-> NoUser, exp |-> 0]]
  /\ discovered = FALSE
  /\ used = {}
  /\ known = [a \in Actors |-> {}]
  /\ cookie = [a \in Actors |-> ""]
  /\ now = 0
  /\ served = {}

Next ==
  \/ \E a \in Actors :
       \/ HandleLogin(a) \/ HandleCallback(a) \/ ForgeCookie(a)
       \/ Request(a) \/ HandleLogout(a)
  \/ Tick

Spec == Init /\ [][Next]_vars

----------------------------------------------------------------------------
TypeOK ==
  /\ \A k \in DOMAIN sessions : sessions[k].user \in Honest \cup {NoUser}
  /\ discovered \in BOOLEAN /\ used \subseteq Tokens
  /\ now \in 0..MaxTime

\* Wrap's contract ("Unauthenticated requests are redirected to the OIDC
\* provider"): a request reaches the dashboard only with the session of
\* a user who completed the callback, and only as that user.
OnlyAuthenticated ==
  \A r \in served : r.user \in Honest /\ r.user = r.actor
=============================================================================
