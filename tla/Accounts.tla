------------------------------ MODULE Accounts ------------------------------
(***************************************************************************)
(* One account and every way into it (auth.routes.js, users.routes.js,     *)
(* keys.routes.js, session.service.js, totp.service.js): e-mailed links,   *)
(* login sessions, API keys, recovery codes, while its password is reset,  *)
(* changed or replaced by an administrator, and the administrators who     *)
(* promote, demote, ban and delete each other.  One action per statement   *)
(* between which other requests run.                                       *)
(***************************************************************************)
EXTENDS Integers, FiniteSets

CONSTANTS
    Users, Me,          \* the accounts; the one whose credentials are followed
    First,              \* the account the bootstrap made administrator
    Requests,           \* requests in flight
    Tokens, Sessions, Keys,  \* places for live Token, Session and ApiKey rows
    Batches,            \* the recovery codes each 2FA enrolment hands out
    MaxKeys,            \* maxApiKeysPerUser, 0 = unlimited
    Attempts,           \* tries of consumeRecoveryCode
    MaxChanges,         \* bound: passwords set in a behaviour
    Changes,            \* what administrators do to accounts
    None

Codes == UNION Batches

ASSUME AccountAssumption ==
    /\ Me \in Users /\ First \in Users
    /\ Changes \subseteq {"demote", "promote", "ban", "unban", "password", "delete"}
    /\ MaxKeys \in Nat /\ Attempts \in Nat \ {0} /\ MaxChanges \in Nat
    /\ None \notin Users \cup Tokens \cup Sessions \cup Keys \cup Codes
    /\ None \notin Nat /\ \A S \in SUBSET Codes : S # None
    /\ \A b, c \in Batches : b # c => b \cap c = {}

VARIABLES
    role,      \* User.role, "gone" once the row is deleted
    banned,    \* User.banned
    verified,  \* Me: User.emailVerified
    pw,        \* Me: how many times the password was set
    resets,    \* Me: how many of those were resets, the owner's or an administrator's
    totp,      \* Me: User.totpEnabled
    codes,     \* Me: User.recoveryCodes, None for null
    token,     \* live links: type and, of a reset link, the value of pw when issued
    session,   \* live sessions: the value of pw they were last good for
    key,       \* live API keys: the value of resets when made
    accepts,   \* history: how often each recovery code was accepted
    req        \* progress of each request

mine == <<verified, totp, codes>>
vars == <<role, banned, verified, pw, resets, totp, codes, token, session, key, accepts, req>>

\* Where a request stands, and what it uses later: the link it claims, the
\* session it was authenticated with, whether its link was claimed first by another, the code it presents, the code list it
\* read, the tries it has left, what it does when the code is good, and for an
\* administrator who is changed and how.
Stages == {"idle", "resend", "claim", "verify", "killVerify", "start", "code", "reread",
           "disable", "enable", "reset", "change", "adminReset", "revokeSessions",
           "revokeKeys", "killResets", "countKeys", "makeKey", "patch", "patchCount"}
Request == [at : Stages, late : BOOLEAN, link : Tokens \cup {None}, keep : Sessions \cup {None},
            code : Codes \cup {None}, list : SUBSET Codes, tries : Nat,
            next : {"start", "disable", "revokeKeys", "killResets", "none"},
            whom : Users \cup {None}, change : Changes \cup {"none"}]
Idle == [at |-> "idle", late |-> FALSE, link |-> None, keep |-> None, code |-> None, list |-> {}, tries |-> 0,
         next |-> "none", whom |-> None, change |-> "none"]

\* A live account: requireAuth and the handlers read the row and refuse a banned one.
Active(u) == role[u] # "gone" /\ ~banned[u]
Authenticated == /\ Active(Me)
                 /\ (\E s \in Sessions : session[s] # None) \/ (\E k \in Keys : key[k] # None)

\* Init: the first account is the administrator; Me has registered or been
\* created, with the verification link the registration mailed.
Init ==
    /\ role = [u \in Users |-> IF u = First THEN "admin" ELSE "user"]
    /\ banned = [u \in Users |-> FALSE]
    /\ verified = (Me = First) /\ pw = 0 /\ resets = 0 /\ totp = FALSE /\ codes = None
    /\ token \in {f \in [Tokens -> {None, [type |-> "verify", born |-> 0]}] :
                    Cardinality({t \in Tokens : f[t] # None}) = IF Me = First THEN 0 ELSE 1}
    /\ session = [s \in Sessions |-> None]
    /\ key = [k \in Keys |-> None]
    /\ accepts = [c \in Codes |-> 0]
    /\ req = [r \in Requests |-> Idle]

Go(r, at) == req' = [req EXCEPT ![r].at = at]
End(r) == req' = [req EXCEPT ![r] = Idle]
Begin(r, q) == req[r].at = "idle" /\ req' = [req EXCEPT ![r] = q]

\* prisma.token.create: a link nobody holds yet.
Mint(t, type) ==
    /\ token[t] = None /\ \A r \in Requests : req[r].link # t
    /\ token' = [token EXCEPT ![t] = [type |-> type, born |-> IF type = "reset" THEN pw ELSE 0]]

-----------------------------------------------------------------------------
(* Links *)

\* POST /auth/forgot-password
Forgot(t) ==
    /\ role[Me] # "gone" /\ Mint(t, "reset")
    /\ UNCHANGED <<role, banned, mine, pw, resets, session, key, accepts, req>>

\* POST /auth/resend-verification: the account is read, then the link created.
ResendRead(r) ==
    /\ role[Me] # "gone" /\ ~verified /\ Begin(r, [Idle EXCEPT !.at = "resend"])
    /\ UNCHANGED <<role, banned, mine, pw, resets, token, session, key, accepts>>
ResendMint(r, t) ==
    /\ req[r].at = "resend" /\ Mint(t, "verify") /\ End(r)
    /\ UNCHANGED <<role, banned, mine, pw, resets, session, key, accepts>>

Expire(t) ==
    /\ token[t] # None /\ token' = [token EXCEPT ![t] = None]
    /\ UNCHANGED <<role, banned, mine, pw, resets, session, key, accepts, req>>

\* claimToken: the row is found, then claimed where it is still unused.
TokenRead(r, t) ==
    /\ token[t] # None /\ Begin(r, [Idle EXCEPT !.at = "claim", !.link = t])
    /\ UNCHANGED <<role, banned, mine, pw, resets, token, session, key, accepts>>

Purpose(t) == IF token[t].type = "verify" THEN "verify" ELSE "reset"

\* What a claim by r does: the link is spent, and whoever claims it after is late.
Claimed(r, to) ==
    /\ token' = [token EXCEPT ![req[r].link] = None]
    /\ req' = [q \in Requests |->
                 IF q = r THEN [req[q] EXCEPT !.at = to]
                 ELSE [req[q] EXCEPT !.late = @ \/ (req[q].at = "claim" /\ req[q].link = req[r].link)]]

\* Mutation: the row that was found is claimed whoever else has claimed it.
TokenClaimBlind(r) ==
    /\ req[r].at = "claim" /\ \E to \in {"verify", "reset"} : Claimed(r, to)
    /\ UNCHANGED <<role, banned, mine, pw, resets, session, key, accepts>>

TokenClaim(r) ==
    LET t == req[r].link
    IN  /\ req[r].at = "claim"
        /\ \/ token[t] # None /\ Claimed(r, Purpose(t))
           \/ token[t] = None /\ End(r) /\ UNCHANGED token
        /\ UNCHANGED <<role, banned, mine, pw, resets, session, key, accepts>>

\* invalidateTokens
Without(type) == [t \in Tokens |-> IF token[t] # None /\ token[t].type = type THEN None ELSE token[t]]

\* POST /auth/verify-email, once the link is claimed; the account that is
\* banned by then gets no session.
VerifyEmail(r) ==
    /\ req[r].at = "verify" /\ verified' = TRUE
    /\ req' = [req EXCEPT ![r].at = "killVerify", ![r].next = IF banned[Me] THEN "none" ELSE "start"]
    /\ UNCHANGED <<role, banned, pw, resets, totp, codes, token, session, key, accepts>>
VerifyKill(r) ==
    /\ req[r].at = "killVerify" /\ token' = Without("verify")
    /\ IF req[r].next = "start" THEN Go(r, "start") ELSE End(r)
    /\ UNCHANGED <<role, banned, mine, pw, resets, session, key, accepts>>

-----------------------------------------------------------------------------
(* Logging in *)

\* startSession
StartSession(r, s) ==
    /\ req[r].at = "start"
    /\ session[s] = None /\ \A q \in Requests : req[q].keep # s
    /\ session' = [session EXCEPT ![s] = pw]
    /\ End(r)
    /\ UNCHANGED <<role, banned, mine, pw, resets, token, key, accepts>>

\* POST /auth/login with the password the account has now.  With two-factor login
\* on it writes nothing: it hands out a signed token, for VerifyCode.
Login(r) ==
    /\ Active(Me) /\ verified
    /\ ~totp /\ Begin(r, [Idle EXCEPT !.at = "start"])
    /\ UNCHANGED <<role, banned, mine, pw, resets, token, session, key, accepts>>

\* POST /auth/2fa/verify, and POST /auth/2fa/disable by a logged-in user, with a
\* code from the app or a recovery code.
SecondFactor(r, next, c) ==
    /\ Active(Me) /\ totp
    /\ IF c = None THEN Begin(r, [Idle EXCEPT !.at = next])
                   ELSE Begin(r, [Idle EXCEPT !.at = "code", !.code = c, !.list = codes,
                                          !.next = next, !.tries = Attempts])
    /\ UNCHANGED <<role, banned, mine, pw, resets, token, session, key, accepts>>
VerifyCode(r, c) == SecondFactor(r, "start", c)
DisableRead(r, c) == Authenticated /\ SecondFactor(r, "disable", c)

\* consumeRecoveryCode, one try: the list is written back without the code where
\* it is still the list that was read.
\* Mutation: whatever the list is by now.
TakeCodeBlind(r) ==
    LET q == req[r]
    IN  /\ q.at = "code"
        /\ IF q.code \in q.list
             THEN /\ codes' = q.list \ {q.code}
                  /\ accepts' = [accepts EXCEPT ![q.code] = @ + 1]
                  /\ Go(r, q.next)
             ELSE End(r) /\ UNCHANGED <<codes, accepts>>
        /\ UNCHANGED <<role, banned, verified, pw, resets, totp, token, session, key>>

TakeCode(r) ==
    LET q == req[r]
    IN  /\ q.at = "code"
        /\ \/ /\ q.code \in q.list /\ codes = q.list
              /\ codes' = q.list \ {q.code}
              /\ accepts' = [accepts EXCEPT ![q.code] = @ + 1]
              /\ Go(r, q.next)
           \/ /\ q.code \in q.list /\ codes # q.list
              /\ Go(r, "reread") /\ UNCHANGED <<codes, accepts>>
           \/ q.code \notin q.list /\ End(r) /\ UNCHANGED <<codes, accepts>>
        /\ UNCHANGED <<role, banned, verified, pw, resets, totp, token, session, key>>

RereadCodes(r) ==
    /\ req[r].at = "reread"
    /\ IF codes # None /\ req[r].tries > 1
         THEN req' = [req EXCEPT ![r].at = "code", ![r].list = codes, ![r].tries = @ - 1]
         ELSE End(r)
    /\ UNCHANGED <<role, banned, mine, pw, resets, token, session, key, accepts>>

\* POST /auth/2fa/disable, once the code was accepted
Disable(r) ==
    /\ req[r].at = "disable" /\ totp' = FALSE /\ codes' = None /\ End(r)
    /\ UNCHANGED <<role, banned, verified, pw, resets, token, session, key, accepts>>

\* POST /auth/2fa/enable: read as not enabled, then written with fresh codes.
EnableRead(r) ==
    /\ Authenticated /\ ~totp /\ Begin(r, [Idle EXCEPT !.at = "enable"])
    /\ UNCHANGED <<role, banned, mine, pw, resets, token, session, key, accepts>>
Fresh(b) ==
    /\ codes # None => codes \cap b = {}
    /\ \A c \in b : accepts[c] = 0 /\ \A r \in Requests : req[r].code # c /\ c \notin req[r].list
Enable(r, b) ==
    /\ req[r].at = "enable" /\ Fresh(b)
    /\ totp' = TRUE /\ codes' = b /\ End(r)
    /\ UNCHANGED <<role, banned, verified, pw, resets, token, session, key, accepts>>

-----------------------------------------------------------------------------
(* The password *)

\* PATCH /users/me with a password, by a session or (None) by an API key.
ChangeRead(r, s) ==
    /\ Active(Me)
    /\ IF s = None THEN \E k \in Keys : key[k] # None ELSE session[s] # None
    /\ Begin(r, [Idle EXCEPT !.at = "change", !.keep = s])
    /\ UNCHANGED <<role, banned, mine, pw, resets, token, session, key, accepts>>

\* The update of User.password.  A change keeps the session it is made from,
\* which is good for the new password; then come the revocations, for a change
\* without the keys.
SetPassword(r) ==
    LET q == req[r] IN
    /\ q.at \in {"reset", "change", "adminReset"} /\ pw < MaxChanges
    /\ pw' = pw + 1
    /\ resets' = IF q.at = "change" THEN resets ELSE resets + 1
    /\ session' = [s \in Sessions |-> IF s = q.keep /\ session[s] # None THEN pw + 1 ELSE session[s]]
    /\ req' = [req EXCEPT ![r].at = "revokeSessions",
                          ![r].next = IF q.at = "change" THEN "killResets" ELSE "revokeKeys"]
    /\ UNCHANGED <<role, banned, mine, token, key, accepts>>

\* revokeUserSessions, all but the session the request was made from
RevokeSessions(r) ==
    /\ req[r].at = "revokeSessions"
    /\ session' = [s \in Sessions |-> IF s = req[r].keep THEN session[s] ELSE None]
    /\ Go(r, req[r].next)
    /\ UNCHANGED <<role, banned, mine, pw, resets, token, key, accepts>>

\* Mutation: "log out my other devices" was thought to be enough.
RevokeKeysNot(r) ==
    /\ req[r].at = "revokeKeys" /\ Go(r, "killResets")
    /\ UNCHANGED <<role, banned, mine, pw, resets, token, session, key, accepts>>

\* revokeUserApiKeys
RevokeKeys(r) ==
    /\ req[r].at = "revokeKeys" /\ key' = [k \in Keys |-> None] /\ Go(r, "killResets")
    /\ UNCHANGED <<role, banned, mine, pw, resets, token, session, accepts>>

KillResets(r) ==
    /\ req[r].at = "killResets" /\ token' = Without("reset") /\ End(r)
    /\ UNCHANGED <<role, banned, mine, pw, resets, session, key, accepts>>

-----------------------------------------------------------------------------
(* Sessions and keys of a logged-in user *)

\* POST /auth/logout and DELETE /auth/sessions/:id
RevokeOne(s) ==
    /\ Active(Me) /\ session[s] # None /\ session' = [session EXCEPT ![s] = None]
    /\ UNCHANGED <<role, banned, mine, pw, resets, token, key, accepts, req>>

\* POST /auth/sessions/revoke-others
RevokeOthers(s) ==
    /\ Active(Me) /\ session[s] # None
    /\ session' = [t \in Sessions |-> IF t = s THEN session[t] ELSE None]
    /\ UNCHANGED <<role, banned, mine, pw, resets, token, key, accepts, req>>

\* POST /keys: the caller authenticated, then the live keys counted, then the key made.
KeyRead(r) ==
    /\ Authenticated
    /\ Begin(r, [Idle EXCEPT !.at = IF MaxKeys > 0 /\ role[Me] # "admin" THEN "countKeys" ELSE "makeKey"])
    /\ UNCHANGED <<role, banned, mine, pw, resets, token, session, key, accepts>>
KeyCount(r) ==
    /\ req[r].at = "countKeys"
    /\ IF Cardinality({k \in Keys : key[k] # None}) < MaxKeys THEN Go(r, "makeKey") ELSE End(r)
    /\ UNCHANGED <<role, banned, mine, pw, resets, token, session, key, accepts>>
KeyMake(r, k) ==
    /\ req[r].at = "makeKey" /\ key[k] = None
    /\ key' = [key EXCEPT ![k] = resets] /\ End(r)
    /\ UNCHANGED <<role, banned, mine, pw, resets, token, session, accepts>>

\* DELETE /keys/:id
KeyRevoke(k) ==
    /\ Active(Me) /\ key[k] # None /\ key' = [key EXCEPT ![k] = None]
    /\ UNCHANGED <<role, banned, mine, pw, resets, token, session, accepts, req>>

-----------------------------------------------------------------------------
(* Administrators *)

\* PATCH and DELETE /users/:id: an administrator was authenticated and the row read.
AdminRead(r, a, u, change) ==
    /\ Active(a) /\ role[a] = "admin" /\ role[u] # "gone"
    /\ change \in {"ban", "delete"} => u # a
    /\ Begin(r, [Idle EXCEPT !.whom = u, !.change = change,
                             !.at = IF change \in {"demote", "delete"} /\ role[u] = "admin"
                                      THEN "patchCount" ELSE "patch"])
    /\ UNCHANGED <<role, banned, mine, pw, resets, token, session, key, accepts>>

\* The last administrator is neither demoted nor deleted.
Admins == {u \in Users : role[u] = "admin"}
AdminCount(r) ==
    /\ req[r].at = "patchCount"
    /\ IF Cardinality(Admins) <= 1 THEN End(r) ELSE Go(r, "patch")
    /\ UNCHANGED <<role, banned, mine, pw, resets, token, session, key, accepts>>

\* The update, which fails when the row is gone by now.  A new password for Me
\* goes on with SetPassword.
AdminPatch(r) ==
    LET q == req[r] IN
    /\ q.at = "patch" /\ q.change # "delete"
    /\ \/ role[q.whom] = "gone" /\ End(r) /\ UNCHANGED <<role, banned>>
       \/ /\ role[q.whom] # "gone"
          /\ role' = [role EXCEPT ![q.whom] = CASE q.change = "demote" -> "user"
                                                [] q.change = "promote" -> "admin"
                                                [] OTHER -> @]
          /\ banned' = [banned EXCEPT ![q.whom] = q.change = "ban" \/ (@ /\ q.change # "unban")]
          /\ IF q.change = "password" /\ q.whom = Me THEN Go(r, "adminReset") ELSE End(r)
    /\ UNCHANGED <<mine, pw, resets, token, session, key, accepts>>

\* Statements of these requests are about Me's rows.
AboutMe(r) == req[r].at \notin {"idle", "patch", "patchCount"}

\* prisma.user.delete: everything of the account goes with the row, and what
\* requests still do with it finds no rows.
AdminDelete(r) ==
    LET u == req[r].whom IN
    /\ req[r].at = "patch" /\ req[r].change = "delete"
    /\ role' = [role EXCEPT ![u] = "gone"]
    /\ IF u = Me /\ role[Me] # "gone"
         THEN /\ token' = [t \in Tokens |-> None] /\ session' = [s \in Sessions |-> None]
              /\ key' = [k \in Keys |-> None]
              /\ req' = [q \in Requests |-> IF q = r \/ AboutMe(q) THEN Idle ELSE req[q]]
         ELSE End(r) /\ UNCHANGED <<token, session, key>>
    /\ UNCHANGED <<banned, mine, pw, resets, accepts>>

-----------------------------------------------------------------------------
LinkNext ==
    \/ \E t \in Tokens : Forgot(t) \/ Expire(t)
    \/ \E r \in Requests : \/ ResendRead(r) \/ TokenClaim(r) \/ VerifyEmail(r) \/ VerifyKill(r)
                           \/ \E t \in Tokens : ResendMint(r, t) \/ TokenRead(r, t)
LoginNext ==
    \E r \in Requests :
         \/ Login(r) \/ TakeCode(r) \/ RereadCodes(r) \/ Disable(r)
         \/ EnableRead(r)
         \/ \E s \in Sessions : StartSession(r, s)
         \/ \E c \in Codes \cup {None} : VerifyCode(r, c) \/ DisableRead(r, c)
         \/ \E b \in Batches : Enable(r, b)
PasswordNext ==
    \E r \in Requests :
        \/ SetPassword(r) \/ RevokeSessions(r) \/ RevokeKeys(r) \/ KillResets(r)
        \/ \E s \in Sessions \cup {None} : ChangeRead(r, s)
KeyNext ==
    \/ \E s \in Sessions : RevokeOne(s) \/ RevokeOthers(s)
    \/ \E k \in Keys : KeyRevoke(k)
    \/ \E r \in Requests : KeyRead(r) \/ KeyCount(r) \/ \E k \in Keys : KeyMake(r, k)
AdminNext ==
    \E r \in Requests :
        \/ AdminCount(r) \/ AdminPatch(r) \/ AdminDelete(r)
        \/ \E a, u \in Users, change \in Changes :
              AdminRead(r, a, u, change)

Next == LinkNext \/ LoginNext \/ PasswordNext \/ KeyNext \/ AdminNext
Spec == Init /\ [][Next]_vars

-----------------------------------------------------------------------------
(* Properties *)

\* The types; a recovery list exists exactly while two-factor login is on.
TypeOK ==
    /\ role \in [Users -> {"admin", "user", "gone"}] /\ banned \in [Users -> BOOLEAN]
    /\ {verified, totp} \subseteq BOOLEAN
    /\ pw \in 0..MaxChanges /\ resets \in 0..pw
    /\ codes \in {None} \cup SUBSET Codes /\ totp = (codes # None)
    /\ token \in [Tokens -> {None} \cup [type : {"verify", "reset"}, born : 0..pw]]
    /\ session \in [Sessions -> {None} \cup 0..pw]
    /\ key \in [Keys -> {None} \cup 0..resets]
    /\ accepts \in [Codes -> Nat]
    /\ req \in [Requests -> Request]

\* Once no password change is under way, every way in that existed before the
\* last one is closed: each live session was started, or kept, for the present
\* password, each live reset link was mailed since, and each live API key was
\* made since the last reset (a change by the owner keeps the keys).  The comment
\* on invalidateTokens: "after a credential reset, the older ways in stop working".
Settling == {"revokeSessions", "revokeKeys", "killResets"}
Quiet == \A r \in Requests : req[r].at \notin Settling
OlderWaysClosed ==
    Quiet => /\ \A s \in Sessions : session[s] \in {None, pw}
             /\ \A k \in Keys : key[k] \in {None, resets}
             /\ \A t \in Tokens : token[t] # None /\ token[t].type = "reset" => token[t].born = pw

\* A link or a recovery code is accepted once, however many requests present it
\* together, and a code that was accepted is not in the list again.
SpentOnce ==
    /\ \A r \in Requests : req[r].late => req[r].at = "claim"
    /\ \A c \in Codes : accepts[c] <= 1
    /\ codes # None => \A c \in codes : accepts[c] = 0

\* An administrator who can log in is left, so that the routes that approve,
\* ban and delete are never out of reach.
SomeoneAdministers == \E u \in Users : role[u] = "admin" /\ ~banned[u]
=============================================================================
