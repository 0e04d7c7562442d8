------------------------------ MODULE Accounts ------------------------------
(***************************************************************************)
(* Accounts, sign-in, bearer tokens and their revocation, the login limit  *)
(* and the deduplicated audit of rejected requests, in multi_user mode     *)
(* (auth/users.py, backend/auth.py, backend/api/auth.py).                  *)
(*                                                                         *)
(* Accounts and revoked tokens are rows of SQLite and survive a restart.   *)
(* Failures of login and the times of audit lines are dictionaries of the  *)
(* process.  A handler runs to its end on the event loop, but the clock    *)
(* goes on while it runs and each check reads it again.                    *)
(*                                                                         *)
(* Time is in half seconds: the expiry of a token is a whole second and is *)
(* compared with the truncated clock, that of a revocation row with the    *)
(* untruncated one.                                                        *)
(***************************************************************************)
EXTENDS Naturals, Sequences, FiniteSets, Functions

CONSTANTS
    Names,         \* user names as typed
    Fold,          \* [Names -> lower-cased names]
    Founders,      \* those with an account when the process first starts
    Hosts,         \* addresses that log in
    Jtis,          \* token identifiers
    NoToken,       \* a header or cookie that is absent, malformed or forged
    Places,        \* (client scope, route) pairs of the audit
    TTL,           \* AUTH_TOKEN_TTL_SECONDS, in seconds
    Limit,         \* _LOGIN_FAILURE_LIMIT
    LoginWindow,   \* _LOGIN_FAILURE_WINDOW_SECONDS, in half seconds
    AuditWindow,   \* AUTH_FAILURE_DEDUPE_SECONDS, in half seconds
    MaxLoginKeys,  \* 512: more keys than these are purged
    MaxAuditKeys,  \* 256: likewise
    MaxTime,       \* bound: half seconds until the model's clock stops
    MaxCalls,      \* bound: requests and changes of accounts
    MaxRestarts    \* bound: restarts of the process

ASSUME AccountsAssumption ==
    /\ NoToken \notin Jtis
    /\ Fold \in [Names -> Names]
    /\ Founders \subseteq Names
    /\ {TTL, Limit, LoginWindow, AuditWindow} \subseteq Nat \ {0}
    /\ {MaxLoginKeys, MaxAuditKeys, MaxTime, MaxCalls, MaxRestarts} \subseteq Nat

VARIABLES
    now,         \* the clock
    accounts,    \* names that have an account
    active,      \* accounts whose row says active
    issued,      \* [jti -> owner and expiry] of the tokens issued
    revoked,     \* [jti -> expiry] of the revocation rows
    failures,    \* _LOGIN_FAILURES: [key -> times], a partial function
    lastLogged,  \* _AUTH_FAILURE_LAST_LOGGED: [place -> time], partial
    outcome,     \* the answer to the last request
    restarts,
    calls,
    \* History that only the properties read.
    loggedOut,   \* tokens that a logout has revoked
    failed,      \* [key -> times of its failed logins in the last window]
    lines        \* [place -> time of its last audit line], partial

database == <<accounts, active, issued, revoked>>
memory == <<failures, lastLogged>>
history == <<loggedOut, failed, lines>>
vars == <<now, database, memory, outcome, restarts, calls, history>>

Keys == Hosts \X Names
Seconds(t) == t \div 2
Empty == [x \in {} |-> x]

TypeOK ==
    /\ now \in 0 .. MaxTime
    /\ active \subseteq accounts /\ accounts \subseteq Names
    /\ DOMAIN issued \subseteq Jtis
    /\ \A j \in DOMAIN issued :
          issued[j] \in [owner : accounts, exp : 0 .. Seconds(MaxTime) + TTL]
    /\ DOMAIN revoked \subseteq DOMAIN issued
    /\ \A j \in DOMAIN revoked : revoked[j] = issued[j].exp
    /\ DOMAIN failures \subseteq Keys
    /\ \A k \in DOMAIN failures : Len(failures[k]) <= Limit
    /\ DOMAIN lastLogged \subseteq Places
    /\ restarts \in 0 .. MaxRestarts /\ calls \in 0 .. MaxCalls

Init ==
    /\ now = 0 /\ restarts = 0 /\ calls = 0
    /\ accounts = Founders /\ active = Founders
    /\ issued = Empty /\ revoked = Empty
    /\ failures = Empty /\ lastLogged = Empty
    /\ outcome = [kind |-> "none"]
    /\ loggedOut = {}
    /\ failed = [k \in Keys |-> << >>]
    /\ lines = Empty

\* f with x mapped to v.
Put(f, x, v) == [y \in DOMAIN f \cup {x} |-> IF y = x THEN v ELSE f[y]]

\* The moments at which a request that begins now may end.
Later == now .. IF now + 2 <= MaxTime THEN now + 2 ELSE MaxTime

\* The times of the last window, in their order.
Within(times, t) ==
    LET kept[i \in 0 .. Len(times)] ==
            IF i = 0 THEN << >>
            ELSE IF t - times[i] < LoginWindow THEN Append(kept[i - 1], times[i])
            ELSE kept[i - 1]
    IN  kept[Len(times)]

\* The history that the property about the login limit needs at t.
LastWindow(t) == [k \in Keys |-> Within(failed[k], t)]

-----------------------------------------------------------------------------
(* The login limit.                                                        *)

Recorded(k) == IF k \in DOMAIN failures THEN failures[k] ELSE << >>

\* _login_rate_limited at t.
Limited(k, t) == Len(Within(Recorded(k), t)) >= Limit

\* Mutant: drops the keys whose first failure is old.
Idle_ByFirst(f, t) ==
    {k \in DOMAIN f : f[k] = << >> \/ t - f[k][1] >= LoginWindow}

\* The keys dropped when there are too many: those without a recent failure.
Idle(f, t) ==
    {k \in DOMAIN f : f[k] = << >> \/ t - f[k][Len(f[k])] >= LoginWindow}

Purged(f, t) ==
    IF Cardinality(DOMAIN f) <= MaxLoginKeys THEN f
    ELSE Restrict(f, DOMAIN f \ Idle(f, t))

\* A login that is not limited and finds no active account of that very name
\* with that password.  The check of the password takes time: the failure is
\* recorded when the check ends.
RecordLoginFailure(k, t) ==
    /\ failures' = Purged(Put(failures, k, Append(Within(Recorded(k), t), t)), t)
    /\ failed' = [LastWindow(t) EXCEPT ![k] = Append(@, t)]

\* The check alone prunes the times of its key, and creates the key.
CheckLogins(k) ==
    /\ failures' = Put(failures, k, Within(Recorded(k), now))
    /\ failed' = LastWindow(now')

\* authenticate: an active account of that very name, and its password.
Authenticates(n, rightPassword) == n \in active /\ rightPassword

\* issue: the token expires TTL seconds after the second in which it is issued.
Token(n, t) == [owner |-> n, exp |-> Seconds(t) + TTL]

\* POST /auth/login.
Login(h, n, rightPassword) ==
    LET k == <<h, Fold[n]>> IN
    /\ UNCHANGED <<accounts, active, revoked, lastLogged, restarts, loggedOut, lines>>
    /\ \/ /\ Limited(k, now)
          /\ now' = now
          /\ CheckLogins(k)
          /\ outcome' = [kind |-> "limited"]
          /\ UNCHANGED issued
       \/ /\ ~Limited(k, now)
          /\ ~Authenticates(n, rightPassword)
          /\ \E t \in Later : now' = t /\ RecordLoginFailure(k, t)
          /\ outcome' = [kind |-> "refused"]
          /\ UNCHANGED issued
       \/ /\ ~Limited(k, now)
          /\ Authenticates(n, rightPassword)
          /\ \E t \in Later, j \in Jtis \ DOMAIN issued :
                /\ now' = t
                /\ issued' = Put(issued, j, Token(n, t))
          /\ CheckLogins(k)
          /\ outcome' = [kind |-> "signed in"]

-----------------------------------------------------------------------------
(* require_access.                                                         *)

\* is_revoked at t: rows count until their expiry.
Revoked(j, t) == j \in DOMAIN revoked /\ 2 * revoked[j] >= t

Expired(j, t) == issued[j].exp <= Seconds(t)

\* TokenManager.verify with its two readings of the clock, and the account.
Accepted(j, t, u) ==
    /\ j \in DOMAIN issued
    /\ ~Expired(j, t)
    /\ ~Revoked(j, u)
    /\ issued[j].owner \in active

\* The bearer token is tried before the cookie.  The clock turns at most once
\* among their four readings: at is its value until reading turn, and after it.
Reading(r, at) == IF r <= at.turn THEN at.first ELSE at.last
ByBearer(c, at) == Accepted(c.bearer, Reading(1, at), Reading(2, at))
ByCookie(c, at) ==
    ~ByBearer(c, at) /\ Accepted(c.cookie, Reading(3, at), Reading(4, at))

Credentials ==
    [bearer : DOMAIN issued \cup {NoToken}, cookie : DOMAIN issued \cup {NoToken}]

\* A request of trusted origin (or a safe method) is needed with a cookie only.
Admits(c, trusted, at) == ByBearer(c, at) \/ (ByCookie(c, at) /\ trusted)
Presented(c, at) == IF ByBearer(c, at) THEN c.bearer ELSE c.cookie

\* _should_audit_auth_failure at t.
Audits(p, t) == p \notin DOMAIN lastLogged \/ t - lastLogged[p] >= AuditWindow

Fresh(f, t) ==
    IF Cardinality(DOMAIN f) <= MaxAuditKeys THEN f
    ELSE Restrict(f, {p \in DOMAIN f : f[p] + AuditWindow >= t})

\* Mutant: a rejection that is not logged postpones the next line as well.
Stamped_Always(p, t) == Fresh(Put(lastLogged, p, t), t)

\* The times that are kept after a rejection at t.
Stamped(p, t) == IF Audits(p, t) THEN Fresh(Put(lastLogged, p, t), t) ELSE lastLogged

RecordRejection(p, t) ==
    /\ lastLogged' = Stamped(p, t)
    /\ lines' = IF Audits(p, t) THEN Put(lines, p, t) ELSE lines

Refusal(c, trusted, at) ==
    IF ByCookie(c, at) /\ ~trusted
    THEN /\ outcome' = [kind |-> "bad origin"]
         /\ UNCHANGED <<lastLogged, lines>>
    ELSE \E p \in Places : /\ outcome' = [kind |-> "rejected", place |-> p, at |-> now']
                          /\ RecordRejection(p, now')

\* A request to any protected route (GET /auth/me is the least of them).
Access(c, trusted, at) ==
    /\ now' = at.last
    /\ IF Admits(c, trusted, at)
       THEN /\ outcome' = [kind |-> "admitted", token |-> Presented(c, at),
                           from |-> at.first, at |-> at.last]
            /\ UNCHANGED <<lastLogged, lines>>
       ELSE Refusal(c, trusted, at)
    /\ failed' = LastWindow(now')
    /\ UNCHANGED <<database, failures, restarts, loggedOut>>

\* Mutant: rows go when their token is about to expire.
Unexpired_Early(t) == {j \in DOMAIN revoked : 2 * revoked[j] > t + 1}

\* revoke_token at t: rows whose token has expired are deleted first.
Unexpired(t) == {j \in DOMAIN revoked : 2 * revoked[j] >= t}

Revoke(j, t) == revoked' = Put(Restrict(revoked, Unexpired(t)), j, issued[j].exp)

\* POST /auth/logout revokes the token that authenticated the request, and no
\* other that it carries.
Logout(c, trusted, at) ==
    /\ now' = at.last
    /\ IF Admits(c, trusted, at)
       THEN LET j == Presented(c, at) IN
            /\ Revoke(j, now')
            /\ loggedOut' = loggedOut \cup {j}
            /\ outcome' = [kind |-> "signed out"]
            /\ UNCHANGED <<lastLogged, lines>>
       ELSE Refusal(c, trusted, at) /\ UNCHANGED <<revoked, loggedOut>>
    /\ failed' = LastWindow(now')
    /\ UNCHANGED <<accounts, active, issued, failures, restarts>>

-----------------------------------------------------------------------------
\* scripts/create_user.py; user names are unique, and case counts.
CreateUser(n) ==
    /\ n \notin accounts
    /\ accounts' = accounts \cup {n} /\ active' = active \cup {n}
    /\ UNCHANGED <<now, issued, revoked, memory, outcome, restarts, history>>

\* An operator switches an account off or on in the database.
SwitchAccount(n) ==
    /\ n \in accounts
    /\ active' = IF n \in active THEN active \ {n} ELSE active \cup {n}
    /\ UNCHANGED <<now, accounts, issued, revoked, memory, outcome, restarts, history>>

Tick ==
    /\ now < MaxTime /\ now' = now + 1
    /\ failed' = LastWindow(now')
    /\ UNCHANGED <<database, memory, outcome, restarts, calls, loggedOut, lines>>

\* The process starts again with empty dictionaries.
Restart ==
    /\ restarts < MaxRestarts
    /\ restarts' = restarts + 1
    /\ failures' = Empty /\ lastLogged' = Empty
    /\ failed' = [k \in Keys |-> << >>]
    /\ lines' = Empty
    /\ outcome' = [kind |-> "none"]
    /\ UNCHANGED <<now, database, calls, loggedOut>>

\* What the clock may show to a request.
Times == [first : {now}, last : Later \ {now}, turn : 1 .. 3]
         \cup [first : {now}, last : {now}, turn : {4}]

Call ==
    /\ calls < MaxCalls
    /\ calls' = calls + 1
    /\ \/ \E h \in Hosts, n \in Names, right \in BOOLEAN : Login(h, n, right)
       \/ \E c \in Credentials, trusted \in BOOLEAN, at \in Times :
             Access(c, trusted, at) \/ Logout(c, trusted, at)
       \/ \E n \in Names : CreateUser(n) \/ SwitchAccount(n)

Next == Call \/ Tick \/ Restart

Spec == Init /\ [][Next]_vars

-----------------------------------------------------------------------------
(* Properties.                                                             *)

(***************************************************************************)
(* A token that a logout revoked never authenticates a request again,      *)
(* across purges of the rows, restarts and accounts switched off and on.   *)
(* Rows are dropped as soon as their tokens expire, by a clock with        *)
(* fractions, and expiry is checked with whole seconds: a request that     *)
(* reads the clock before the expiry and looks for the row after it is the *)
(* one exception: it ends after the token's life.                          *)
(***************************************************************************)
RevokedStaysOut ==
    outcome.kind = "admitted" /\ outcome.token \in loggedOut
        => LET end == 2 * issued[outcome.token].exp
           IN  outcome.from < end /\ end < outcome.at

(***************************************************************************)
(* The limit counts every failed login of its host and folded name in the  *)
(* last window, none older, whatever the purge of other keys and the       *)
(* checks that only look: it refuses exactly when the window holds Limit   *)
(* failures, and the window never holds more.                              *)
(***************************************************************************)
LimitCountsFailures ==
    \A k \in Keys :
        LET recent == Within(failed[k], now)
        IN  /\ Len(recent) <= Limit
            /\ Limited(k, now) <=> Len(recent) = Limit

(***************************************************************************)
(* Deduplication bounds the audit without silencing it: a rejected request *)
(* has a line of its place less than a window old, however long rejections *)
(* go on, and two lines of one place are a window apart.                   *)
(***************************************************************************)
RejectionsAudited ==
    [][\A p \in Places :
          /\ outcome'.kind = "rejected" /\ outcome'.place = p =>
                p \in DOMAIN lines' /\ outcome'.at - lines'[p] < AuditWindow
          /\ p \in DOMAIN lines /\ p \in DOMAIN lines' =>
                lines'[p] = lines[p] \/ lines'[p] - lines[p] >= AuditWindow]_vars

=============================================================================
