--------------------------- MODULE AccountsProofs ---------------------------
(***************************************************************************)
(* The older ways into an account are closed once a password change has    *)
(* settled, and what may be spent once is, for any number of requests,     *)
(* sessions, keys, links and batches of recovery codes.                    *)
(*                                                                         *)
(* An old way in that still works has a change under way that will close   *)
(* it (Due); a link or code that was spent has one spender, and a request  *)
(* that has not spent it yet finds it gone (Spent).                        *)
(***************************************************************************)
EXTENDS Accounts, TLAPS

\* A session that is not good for the present password has a change under way
\* that will revoke it, an outdated key has a reset that has not come to the
\* keys yet, an outdated link anything that is still settling.
SessionsDue ==
    \A s \in Sessions : \/ session[s] \in {None, pw}
                        \/ \E r \in Requests : req[r].at = "revokeSessions" /\ req[r].keep # s
ForKeys(r) == \/ req[r].at = "revokeKeys"
              \/ req[r].at = "revokeSessions" /\ req[r].next = "revokeKeys"
KeysDue == \A k \in Keys : key[k] \in {None, resets} \/ \E r \in Requests : ForKeys(r)
Stale(t) == token[t] # None /\ token[t].type = "reset" /\ token[t].born # pw
LinksDue == \A t \in Tokens : Stale(t) => \E r \in Requests : req[r].at \in Settling
Onward == \A r \in Requests : req[r].at = "revokeSessions" => req[r].next \in {"revokeKeys", "killResets"}

\* What of the types the argument needs.
Coded == \A r \in Requests : req[r].at \in {"code", "reread"} => req[r].next \in {"start", "disable"}
Typed == /\ Coded
         /\ req \in [Requests -> Request]
         /\ pw \in Nat /\ resets \in Nat
         /\ codes \in {None} \cup SUBSET Codes /\ totp = (codes # None)
         /\ session \in [Sessions -> Nat \cup {None}] /\ key \in [Keys -> Nat \cup {None}]
         /\ token \in [Tokens -> {None} \cup [type : {"verify", "reset"}, born : Nat]]

Due == Typed /\ SessionsDue /\ KeysDue /\ LinksDue /\ Onward

LEMMA IdleRequest == Idle \in Request
  BY DEF Idle, Request, Stages

\* A step that leaves the password alone, brings back no outdated session, key or
\* link, and takes no request into or out of the revocations, keeps Due.
LEMMA CalmStep ==
  ASSUME Due, Typed',
         pw' = pw, resets' = resets,
         \A s \in Sessions : session'[s] \in {session[s], None, pw},
         \A k \in Keys : key'[k] \in {key[k], None, resets},
         \A t \in Tokens : Stale(t)' => Stale(t),
         \A r \in Requests : req[r].at \in Settling =>
            req'[r].at = req[r].at /\ req'[r].keep = req[r].keep /\ req'[r].next = req[r].next,
         \A r \in Requests : req'[r].at \in Settling => req[r].at \in Settling
  PROVE  Due'
<1>1. SessionsDue'
  BY DEF Due, SessionsDue, Settling
<1>2. KeysDue'
  BY DEF Due, KeysDue, ForKeys, Settling
<1>3. LinksDue'
  BY DEF Due, LinksDue, Settling
<1>4. Onward'
  BY DEF Due, Onward, Settling
<1> QED BY <1>1, <1>2, <1>3, <1>4 DEF Due

\* At the start nothing is outdated.
LEMMA InitDue == Init => Due
<1> SUFFICES ASSUME Init PROVE Due
  OBVIOUS
<1>1. Typed
  <2>1. req \in [Requests -> Request]
    BY IdleRequest DEF Init
  <2>2. token \in [Tokens -> {None} \cup [type : {"verify", "reset"}, born : Nat]]
    <3> DEFINE Mail == {None, [type |-> "verify", born |-> 0]}
    <3>1. token \in [Tokens -> Mail]
      BY DEF Init
    <3>2. [type |-> "verify", born |-> 0] \in [type : {"verify", "reset"}, born : Nat]
      OBVIOUS
    <3> QED BY <3>1, <3>2
  <2>3. session \in [Sessions -> Nat \cup {None}] /\ key \in [Keys -> Nat \cup {None}]
    BY DEF Init
  <2>4. pw \in Nat /\ resets \in Nat /\ codes = None /\ totp = FALSE
    BY DEF Init
  <2>5. Coded
    BY DEF Init, Idle, Coded
  <2> QED BY <2>1, <2>2, <2>3, <2>4, <2>5 DEF Typed
<1>2. SessionsDue /\ KeysDue
  BY DEF Init, SessionsDue, KeysDue
<1>3. LinksDue
  BY DEF Init, LinksDue, Stale
<1>4. Onward
  BY DEF Init, Onward, Idle
<1> QED BY <1>1, <1>2, <1>3, <1>4 DEF Due

\* Requests that only read: a request that was idle starts outside the revocations.
LEMMA Beginning ==
  ASSUME Due, NEW r \in Requests, NEW q \in Request, Begin(r, q), q.at \notin Settling,
         q.at \in {"code", "reread"} => q.next \in {"start", "disable"},
         UNCHANGED <<mine, pw, resets, token, session, key>>
  PROVE  Due'
<1>1. Typed'
  BY DEF Due, Typed, Coded, Begin, mine
<1>2. \A p \in Requests : req[p].at \in Settling => req'[p] = req[p]
  BY DEF Due, Typed, Begin, Settling
<1>3. \A p \in Requests : req'[p].at \in Settling => req[p].at \in Settling
  BY DEF Due, Typed, Begin, Settling
<1> QED BY <1>1, <1>2, <1>3, CalmStep DEF Stale, Due, Typed

\* Statements of a request outside the revocations that move only the request.
LEMMA Moving ==
  ASSUME Due, NEW r \in Requests, NEW q \in Request, req' = [req EXCEPT ![r] = q],
         req[r].at \notin Settling, q.at \notin Settling, Typed',
         pw' = pw, resets' = resets,
         \A s \in Sessions : session'[s] \in {session[s], None, pw},
         \A k \in Keys : key'[k] \in {key[k], None, resets},
         \A t \in Tokens : Stale(t)' => Stale(t)
  PROVE  Due'
<1>2. \A p \in Requests : req[p].at \in Settling => req'[p] = req[p]
  BY DEF Due, Typed
<1>3. \A p \in Requests : req'[p].at \in Settling => req[p].at \in Settling
  BY DEF Due, Typed
<1> QED BY <1>2, <1>3, CalmStep

\* A request that ends.
LEMMA Ending ==
  ASSUME Due, NEW r \in Requests, End(r), req[r].at \notin Settling,
         codes' \in {None} \cup SUBSET Codes, totp' = (codes' # None),
         pw' = pw, resets' = resets,
         session' \in [Sessions -> Nat \cup {None}], key' \in [Keys -> Nat \cup {None}],
         token' \in [Tokens -> {None} \cup [type : {"verify", "reset"}, born : Nat]],
         \A s \in Sessions : session'[s] \in {session[s], None, pw},
         \A k \in Keys : key'[k] \in {key[k], None, resets},
         \A t \in Tokens : Stale(t)' => Stale(t)
  PROVE  Due'
<1>1. Idle \in Request /\ Idle.at \notin Settling /\ Idle.at = "idle"
  BY IdleRequest DEF Idle, Settling
<1>2. Typed'
  BY <1>1 DEF Due, Typed, Coded, End
<1> QED BY <1>1, <1>2, Moving DEF End

\* A request that goes on, or claims a link, outside the revocations.
LEMMA Going ==
  ASSUME Due, NEW r \in Requests, NEW at \in Stages \ Settling, Go(r, at), req[r].at \notin Settling,
         at \in {"code", "reread"} => req[r].at \in {"code", "reread"},
         codes' \in {None} \cup SUBSET Codes, totp' = (codes' # None),
         UNCHANGED <<pw, resets, session, key, token>>
  PROVE  Due'
<1> DEFINE q == [req[r] EXCEPT !.at = at]
<1>1. q \in Request /\ q.at = at /\ q.next = req[r].next
  BY DEF Due, Typed, Request
<1>2. req' = [req EXCEPT ![r] = q]
  BY DEF Go
<1> HIDE DEF q
<1>3. Typed'
  BY <1>1, <1>2 DEF Due, Typed, Coded
<1> QED BY <1>1, <1>2, <1>3, Moving DEF Stale, Due, Typed

LEMMA LinkKeeps == Due /\ LinkNext => Due'
<1> SUFFICES ASSUME Due, LinkNext PROVE Due'
  OBVIOUS
<1>1. ASSUME NEW t \in Tokens, Forgot(t) PROVE Due'
  <2>1. Typed'
    BY <1>1 DEF Forgot, Mint, Due, Typed, Coded, mine
  <2>2. \A u \in Tokens : Stale(u)' => Stale(u)
    BY <1>1 DEF Forgot, Mint, Due, Typed, Stale
  <2> QED BY <1>1, <2>1, <2>2, CalmStep DEF Forgot, Due, Typed
<1>2. ASSUME NEW t \in Tokens, Expire(t) PROVE Due'
  <2>1. Typed'
    BY <1>2 DEF Expire, Due, Typed, Coded, mine
  <2>2. \A u \in Tokens : Stale(u)' => Stale(u)
    BY <1>2 DEF Expire, Due, Typed, Stale
  <2> QED BY <1>2, <2>1, <2>2, CalmStep DEF Expire, Due, Typed
<1>3. ASSUME NEW r \in Requests, ResendRead(r) PROVE Due'
  <2>1. [Idle EXCEPT !.at = "resend"] \in Request
    BY DEF Idle, Request, Stages
  <2> QED BY <1>3, <2>1, Beginning DEF ResendRead, Idle, Settling
<1>4. ASSUME NEW r \in Requests, NEW t \in Tokens, ResendMint(r, t) PROVE Due'
  <2>1. token' \in [Tokens -> {None} \cup [type : {"verify", "reset"}, born : Nat]]
    BY <1>4 DEF ResendMint, Mint, Due, Typed
  <2>2. \A u \in Tokens : Stale(u)' => Stale(u)
    BY <1>4 DEF ResendMint, Mint, Due, Typed, Stale
  <2> QED BY <1>4, <2>1, <2>2, Ending DEF ResendMint, Settling, Due, Typed, mine
<1>5. ASSUME NEW r \in Requests, NEW t \in Tokens, TokenRead(r, t) PROVE Due'
  <2>1. [Idle EXCEPT !.at = "claim", !.link = t] \in Request
    BY DEF Idle, Request, Stages
  <2> QED BY <1>5, <2>1, Beginning DEF TokenRead, Idle, Settling
<1>6. ASSUME NEW r \in Requests, TokenClaim(r) PROVE Due'
  <2>1. CASE token[req[r].link] = None
    BY <1>6, <2>1, Ending DEF TokenClaim, Settling, Due, Typed, mine, Stale
  <2>2. CASE token[req[r].link] # None
    <3>1. PICK to \in {"verify", "reset"} : Claimed(r, to)
      BY <1>6, <2>2 DEF TokenClaim, Purpose
    <3>2. req' \in [Requests -> Request]
      <4>1. \A q \in Requests, b \in BOOLEAN :
               /\ [req[q] EXCEPT !.at = to] \in Request
               /\ [req[q] EXCEPT !.late = b] \in Request
        BY DEF Due, Typed, Request, Stages
      <4>2. \A q \in Requests : req[q].late \in BOOLEAN
        BY DEF Due, Typed, Request
      <4> QED BY <3>1, <4>1, <4>2 DEF Claimed
    <3>3. token' \in [Tokens -> {None} \cup [type : {"verify", "reset"}, born : Nat]]
      BY <3>1 DEF Claimed, Due, Typed
    <3>8. Coded'
      BY <3>1, <1>6 DEF TokenClaim, Claimed, Coded, Due, Typed, Request
    <3>4. Typed'
      BY <1>6, <3>2, <3>3, <3>8 DEF TokenClaim, Due, Typed, mine
    <3>5. \A u \in Tokens : Stale(u)' => Stale(u)
      BY <1>6, <3>1 DEF TokenClaim, Claimed, Due, Typed, Stale
    <3>6. /\ req[r].at = "claim" /\ req'[r].at = to
          /\ \A q \in Requests \ {r} : /\ req'[q].at = req[q].at /\ req'[q].keep = req[q].keep
                                      /\ req'[q].next = req[q].next
      BY <1>6, <3>1 DEF TokenClaim, Claimed, Due, Typed, Request
    <3>7. \A q \in Requests :
            /\ req[q].at \in Settling => /\ req'[q].at = req[q].at /\ req'[q].keep = req[q].keep
                                         /\ req'[q].next = req[q].next
            /\ req'[q].at \in Settling => req[q].at \in Settling
      BY <3>6 DEF Settling
    <3> QED BY <1>6, <3>4, <3>5, <3>7, CalmStep DEF TokenClaim, Due, Typed
  <2> QED BY <2>1, <2>2
<1>7. ASSUME NEW r \in Requests, VerifyEmail(r) PROVE Due'
  <2> DEFINE q == [req[r] EXCEPT !.at = "killVerify", !.next = IF banned[Me] THEN "none" ELSE "start"]
  <2>0. req[r] \in Request
    BY DEF Due, Typed
  <2>1. q \in Request /\ q.at = "killVerify"
    <3>1. \A x \in {"none", "start"} :
            /\ [req[r] EXCEPT !.at = "killVerify", !.next = x] \in Request
            /\ [req[r] EXCEPT !.at = "killVerify", !.next = x].at = "killVerify"
      BY <2>0 DEF Request, Stages
    <3> QED BY <3>1
  <2>3. req' = [req EXCEPT ![r] = q]
    BY <1>7 DEF VerifyEmail
  <2> HIDE DEF q
  <2>2. Typed'
    BY <1>7, <2>1, <2>3 DEF VerifyEmail, Due, Typed, Coded
  <2> QED BY <1>7, <2>1, <2>2, <2>3, Moving DEF VerifyEmail, Settling, Stale, Due, Typed
<1>8. ASSUME NEW r \in Requests, VerifyKill(r) PROVE Due'
  <2>1. token' \in [Tokens -> {None} \cup [type : {"verify", "reset"}, born : Nat]]
    BY <1>8 DEF VerifyKill, Without, Due, Typed
  <2>2. \A u \in Tokens : Stale(u)' => Stale(u)
    BY <1>8 DEF VerifyKill, Without, Due, Typed, Stale
  <2>3. CASE req[r].next = "start"
    <3>1. [req[r] EXCEPT !.at = "start"] \in Request /\ [req[r] EXCEPT !.at = "start"].at = "start"
      BY DEF Due, Typed, Request, Stages
    <3>2. req' = [req EXCEPT ![r] = [req[r] EXCEPT !.at = "start"]]
      BY <1>8, <2>3 DEF VerifyKill, Go
    <3>3. Typed'
      BY <1>8, <2>1, <3>1, <3>2 DEF VerifyKill, Due, Typed, Coded, mine
    <3> QED BY <1>8, <2>2, <3>1, <3>2, <3>3, Moving DEF VerifyKill, Settling, Due, Typed
  <2>4. CASE req[r].next # "start"
    BY <1>8, <2>1, <2>2, <2>4, Ending DEF VerifyKill, Settling, Due, Typed, mine
  <2> QED BY <2>3, <2>4
<1> QED BY <1>1, <1>2, <1>3, <1>4, <1>5, <1>6, <1>7, <1>8 DEF LinkNext

LEMMA LoginKeeps == Due /\ LoginNext => Due'
<1> SUFFICES ASSUME Due, NEW r \in Requests,
                    \/ Login(r) \/ TakeCode(r) \/ RereadCodes(r) \/ Disable(r)
                    \/ EnableRead(r)
                    \/ \E s \in Sessions : StartSession(r, s)
                    \/ \E c \in Codes \cup {None} : VerifyCode(r, c) \/ DisableRead(r, c)
                    \/ \E b \in Batches : Enable(r, b)
             PROVE Due'
  BY DEF LoginNext
<1>1. CASE Login(r)
  <2>1. [Idle EXCEPT !.at = "start"] \in Request
    BY DEF Idle, Request, Stages
  <2> QED BY <1>1, <2>1, Beginning DEF Login, Idle, Settling
<1>2. CASE EnableRead(r)
  <2>1. [Idle EXCEPT !.at = "enable"] \in Request
    BY DEF Idle, Request, Stages
  <2> QED BY <1>2, <2>1, Beginning DEF EnableRead, Idle, Settling
<1>3. ASSUME NEW c \in Codes \cup {None}, NEW next \in {"start", "disable"}, SecondFactor(r, next, c)
      PROVE Due'
  <2>1. CASE c = None
    <3>1. [Idle EXCEPT !.at = next] \in Request
      BY DEF Idle, Request, Stages
    <3>2. [Idle EXCEPT !.at = next].at = next
      BY DEF Idle
    <3> QED BY <1>3, <2>1, <3>1, <3>2, Beginning DEF SecondFactor, Settling
  <2>2. CASE c # None
    <3> DEFINE q == [Idle EXCEPT !.at = "code", !.code = c, !.list = codes,
                                 !.next = next, !.tries = Attempts]
    <3>1. c \in Codes /\ codes \in SUBSET Codes /\ Attempts \in Nat
      BY <1>3, <2>2, AccountAssumption DEF SecondFactor, Due, Typed
    <3>2. q \in Request /\ q.at = "code" /\ q.next = next
      BY <3>1 DEF Idle, Request, Stages
    <3>3. Begin(r, q)
      BY <1>3, <2>2 DEF SecondFactor
    <3> HIDE DEF q
    <3> QED BY <1>3, <3>2, <3>3, Beginning DEF SecondFactor, Settling
  <2> QED BY <2>1, <2>2
<1>4. CASE TakeCode(r)
  <2> DEFINE q == req[r]
  <2>1. q \in Request /\ q.at = "code"
    BY <1>4 DEF TakeCode, Due, Typed
  <2>2. CASE q.code \in q.list /\ codes = q.list
    <3>1. codes' \in SUBSET Codes /\ codes' # None /\ codes # None /\ totp' = totp
      BY <1>4, <2>1, <2>2, AccountAssumption DEF TakeCode, Request
    <3>2. Go(r, q.next)
      BY <1>4, <2>2 DEF TakeCode
    <3>3. UNCHANGED <<pw, resets, session, key, token>>
      BY <1>4 DEF TakeCode
    <3>4. q.next \in {"start", "disable"}
      BY <2>1 DEF Due, Typed, Coded
    <3> QED BY <2>1, <3>1, <3>2, <3>3, <3>4, Going DEF Settling, Stages, Due, Typed
  <2>3. CASE q.code \in q.list /\ codes # q.list
    <3>1. Go(r, "reread") /\ UNCHANGED <<codes, totp, pw, resets, session, key, token>>
      BY <1>4, <2>3 DEF TakeCode
    <3> QED BY <2>1, <3>1, Going DEF Settling, Stages, Due, Typed
  <2>4. CASE q.code \notin q.list
    <3>1. End(r) /\ UNCHANGED <<codes, totp, pw, resets, session, key, token>>
      BY <1>4, <2>4 DEF TakeCode
    <3> QED BY <2>1, <3>1, Ending DEF Settling, Stages, Due, Typed, Stale
  <2> QED BY <1>4, <2>2, <2>3, <2>4 DEF TakeCode
<1>5. CASE RereadCodes(r)
  <2>1. req[r] \in Request /\ req[r].at = "reread" /\ UNCHANGED <<codes, totp, pw, resets, session, key, token>>
    BY <1>5 DEF RereadCodes, mine, Due, Typed
  <2>2. CASE codes # None /\ req[r].tries > 1
    <3> DEFINE q == [req[r] EXCEPT !.at = "code", !.list = codes, !.tries = @ - 1]
    <3>1. codes \in SUBSET Codes /\ req[r].tries - 1 \in Nat
      BY <2>1, <2>2 DEF Due, Typed, Request
    <3>2. q \in Request /\ q.at = "code" /\ q.next = req[r].next
      BY <2>1, <3>1 DEF Request, Stages
    <3>3. req' = [req EXCEPT ![r] = q]
      BY <1>5, <2>2 DEF RereadCodes
    <3> HIDE DEF q
    <3>4. Typed'
      BY <2>1, <3>2, <3>3 DEF Due, Typed, Coded
    <3> QED BY <2>1, <3>2, <3>3, <3>4, Moving DEF Settling, Due, Typed, Stale
  <2>3. CASE ~(codes # None /\ req[r].tries > 1)
    BY <1>5, <2>1, <2>3, Ending DEF RereadCodes, Settling, Due, Typed, Stale
  <2> QED BY <2>2, <2>3
<1>6. CASE Disable(r)
  BY <1>6, Ending DEF Disable, Settling, Due, Typed, Stale
<1>7. ASSUME NEW b \in Batches, Enable(r, b) PROVE Due'
  <2>1. b \in SUBSET Codes /\ b # None
    BY AccountAssumption DEF Codes
  <2> QED BY <1>7, <2>1, Ending DEF Enable, Settling, Due, Typed, Stale
<1>8. ASSUME NEW s \in Sessions, StartSession(r, s) PROVE Due'
  <2>1. session' \in [Sessions -> Nat \cup {None}] /\ \A x \in Sessions : session'[x] \in {session[x], pw}
    BY <1>8 DEF StartSession, Due, Typed
  <2> QED BY <1>8, <2>1, Ending DEF StartSession, Settling, Due, Typed, Stale, mine
<1> QED BY <1>1, <1>2, <1>3, <1>4, <1>5, <1>6, <1>7, <1>8 DEF VerifyCode, DisableRead

LEMMA KeyKeeps == Due /\ KeyNext => Due'
<1> SUFFICES ASSUME Due, KeyNext PROVE Due'
  OBVIOUS
<1>1. ASSUME NEW s \in Sessions, RevokeOne(s) \/ RevokeOthers(s) PROVE Due'
  <2>1. UNCHANGED <<codes, totp, pw, resets, key, token, req>>
    BY <1>1 DEF RevokeOne, RevokeOthers, mine
  <2>2. session' \in [Sessions -> Nat \cup {None}] /\ \A x \in Sessions : session'[x] \in {session[x], None}
    BY <1>1 DEF RevokeOne, RevokeOthers, Due, Typed
  <2>3. Typed'
    BY <2>1, <2>2 DEF Due, Typed, Coded
  <2> QED BY <2>1, <2>2, <2>3, CalmStep DEF Due, Typed, Stale
<1>2. ASSUME NEW k \in Keys, KeyRevoke(k) PROVE Due'
  <2>1. key' \in [Keys -> Nat \cup {None}] /\ \A x \in Keys : key'[x] \in {key[x], None}
    BY <1>2 DEF KeyRevoke, Due, Typed
  <2>2. Typed'
    BY <1>2, <2>1 DEF KeyRevoke, Due, Typed, Coded, mine
  <2> QED BY <1>2, <2>1, <2>2, CalmStep DEF KeyRevoke, Due, Typed, Stale
<1>3. ASSUME NEW r \in Requests, KeyRead(r) PROVE Due'
  <2> DEFINE to == IF MaxKeys > 0 /\ role[Me] # "admin" THEN "countKeys" ELSE "makeKey"
  <2>1. to \in {"countKeys", "makeKey"}
    OBVIOUS
  <2>2. Begin(r, [Idle EXCEPT !.at = to])
    BY <1>3 DEF KeyRead
  <2> HIDE DEF to
  <2>3. [Idle EXCEPT !.at = to] \in Request /\ [Idle EXCEPT !.at = to].at = to
    BY <2>1 DEF Idle, Request, Stages
  <2> QED BY <1>3, <2>1, <2>2, <2>3, Beginning DEF KeyRead, Settling
<1>4. ASSUME NEW r \in Requests, KeyCount(r) PROVE Due'
  BY <1>4, Going, Ending DEF KeyCount, Settling, Stages, Due, Typed, Stale, mine
<1>5. ASSUME NEW r \in Requests, NEW k \in Keys, KeyMake(r, k) PROVE Due'
  <2>1. key' \in [Keys -> Nat \cup {None}] /\ \A x \in Keys : key'[x] \in {key[x], resets}
    BY <1>5 DEF KeyMake, Due, Typed
  <2> QED BY <1>5, <2>1, Ending DEF KeyMake, Settling, Due, Typed, Stale, mine
<1> QED BY <1>1, <1>2, <1>3, <1>4, <1>5 DEF KeyNext

LEMMA PasswordKeeps == Due /\ PasswordNext => Due'
<1> SUFFICES ASSUME Due, NEW r \in Requests,
                    \/ SetPassword(r) \/ RevokeSessions(r) \/ RevokeKeys(r) \/ KillResets(r)
                    \/ \E s \in Sessions \cup {None} : ChangeRead(r, s)
             PROVE Due'
  BY DEF PasswordNext
<1> USE DEF Request
<1>0. /\ req \in [Requests -> Request] /\ req[r] \in Request
      /\ pw \in Nat /\ resets \in Nat /\ pw # None /\ resets # None /\ pw + 1 # None
      /\ session \in [Sessions -> Nat \cup {None}] /\ key \in [Keys -> Nat \cup {None}]
  BY AccountAssumption DEF Due, Typed
<1>1. ASSUME NEW s \in Sessions \cup {None}, ChangeRead(r, s) PROVE Due'
  <2>1. [Idle EXCEPT !.at = "change", !.keep = s] \in Request
    BY DEF Idle, Request, Stages
  <2> QED BY <1>1, <2>1, Beginning DEF ChangeRead, Idle, Settling
<1>2. CASE SetPassword(r)
  <2> DEFINE x == IF req[r].at = "change" THEN "killResets" ELSE "revokeKeys"
             q == [req[r] EXCEPT !.at = "revokeSessions", !.next = x]
  <2>1. x \in {"killResets", "revokeKeys"}
    OBVIOUS
  <2>2. req' = [req EXCEPT ![r] = q]
    BY <1>2 DEF SetPassword
  <2>3. x = "killResets" => resets' = resets
    BY <1>2 DEF SetPassword
  <2> HIDE DEF x
  <2>4. q \in Request /\ q.at = "revokeSessions" /\ q.next = x /\ q.keep = req[r].keep
    BY <1>0, <2>1 DEF Stages
  <2> HIDE DEF q
  <2>5. req'[r] = q /\ \A p \in Requests \ {r} : req'[p] = req[p]
    BY <1>0, <2>2
  <2>6. session' = [s \in Sessions |-> IF s = req[r].keep /\ session[s] # None THEN pw + 1 ELSE session[s]]
    BY <1>2 DEF SetPassword
  <2>7. pw' = pw + 1 /\ resets' \in {resets, resets + 1} /\ UNCHANGED <<codes, totp, token, key>>
    BY <1>2 DEF SetPassword, mine
  <2>8. Typed'
    BY <1>0, <2>2, <2>4, <2>6, <2>7 DEF Due, Typed, Coded
  <2>9. SessionsDue'
    BY <1>0, <2>4, <2>5, <2>6, <2>7 DEF SessionsDue
  <2>10. KeysDue'
    <3>1. CASE x = "revokeKeys"
      BY <2>4, <2>5, <3>1 DEF KeysDue, ForKeys
    <3>2. CASE x = "killResets"
      BY <2>3, <2>5, <2>7, <3>2, <1>2 DEF SetPassword, Due, KeysDue, ForKeys
    <3> QED BY <2>1, <3>1, <3>2
  <2>11. LinksDue'
    BY <2>4, <2>5 DEF LinksDue, Settling
  <2>12. Onward'
    BY <2>1, <2>4, <2>5 DEF Due, Onward
  <2> QED BY <2>8, <2>9, <2>10, <2>11, <2>12 DEF Due
<1>3. CASE RevokeSessions(r)
  <2> DEFINE q == [req[r] EXCEPT !.at = req[r].next]
  <2>1. req[r].at = "revokeSessions" /\ req[r].next \in {"revokeKeys", "killResets"}
    BY <1>3 DEF RevokeSessions, Due, Onward
  <2>2. req' = [req EXCEPT ![r] = q]
    BY <1>3 DEF RevokeSessions, Go
  <2>3. q \in Request /\ q.at = req[r].next /\ q.next = req[r].next
    BY <1>0, <2>1 DEF Stages
  <2> HIDE DEF q
  <2>4. req'[r] = q /\ \A p \in Requests \ {r} : req'[p] = req[p]
    BY <1>0, <2>2
  <2>5. session' = [s \in Sessions |-> IF s = req[r].keep THEN session[s] ELSE None]
    BY <1>3 DEF RevokeSessions
  <2>6. UNCHANGED <<codes, totp, pw, resets, token, key>>
    BY <1>3 DEF RevokeSessions, mine
  <2>7. Typed'
    BY <1>0, <2>1, <2>2, <2>3, <2>5, <2>6 DEF Due, Typed, Coded
  <2>8. SessionsDue'
    BY <2>4, <2>5, <2>6 DEF Due, SessionsDue
  <2>9. KeysDue'
    BY <2>1, <2>3, <2>4, <2>6 DEF Due, KeysDue, ForKeys
  <2>10. LinksDue'
    BY <2>1, <2>3, <2>4 DEF LinksDue, Settling
  <2>11. Onward'
    BY <2>1, <2>3, <2>4 DEF Due, Onward
  <2> QED BY <2>7, <2>8, <2>9, <2>10, <2>11 DEF Due
<1>4. CASE RevokeKeys(r)
  <2> DEFINE q == [req[r] EXCEPT !.at = "killResets"]
  <2>1. req[r].at = "revokeKeys" /\ req' = [req EXCEPT ![r] = q]
    BY <1>4 DEF RevokeKeys, Go
  <2>2. q \in Request /\ q.at = "killResets"
    BY <1>0 DEF Stages
  <2> HIDE DEF q
  <2>3. req'[r] = q /\ \A p \in Requests \ {r} : req'[p] = req[p]
    BY <1>0, <2>1
  <2>4. key' = [k \in Keys |-> None] /\ UNCHANGED <<codes, totp, pw, resets, token, session>>
    BY <1>4 DEF RevokeKeys, mine
  <2>5. Typed'
    BY <1>0, <2>1, <2>2, <2>4 DEF Due, Typed, Coded
  <2>6. SessionsDue'
    BY <2>1, <2>3, <2>4 DEF Due, SessionsDue
  <2>7. KeysDue'
    BY <2>4 DEF KeysDue
  <2>8. LinksDue'
    BY <2>2, <2>3 DEF LinksDue, Settling
  <2>9. Onward'
    BY <2>2, <2>3 DEF Due, Onward
  <2> QED BY <2>5, <2>6, <2>7, <2>8, <2>9 DEF Due
<1>5. CASE KillResets(r)
  <2>1. req[r].at = "killResets" /\ req' = [req EXCEPT ![r] = Idle] /\ Idle \in Request /\ Idle.at = "idle"
    BY <1>5, IdleRequest DEF KillResets, End, Idle
  <2>2. req'[r] = Idle /\ \A p \in Requests \ {r} : req'[p] = req[p]
    BY <1>0, <2>1
  <2>3. token' = Without("reset") /\ UNCHANGED <<codes, totp, pw, resets, key, session>>
    BY <1>5 DEF KillResets, mine
  <2>4. token' \in [Tokens -> {None} \cup [type : {"verify", "reset"}, born : Nat]]
    BY <2>3 DEF Without, Due, Typed
  <2>5. Typed'
    BY <1>0, <2>1, <2>3, <2>4 DEF Due, Typed, Coded
  <2>6. SessionsDue'
    BY <2>1, <2>2, <2>3 DEF Due, SessionsDue
  <2>7. KeysDue'
    BY <2>1, <2>2, <2>3 DEF Due, KeysDue, ForKeys
  <2>8. LinksDue'
    BY <2>3 DEF LinksDue, Stale, Without
  <2>9. Onward'
    BY <2>1, <2>2 DEF Due, Onward
  <2> QED BY <2>5, <2>6, <2>7, <2>8, <2>9 DEF Due
<1> QED BY <1>1, <1>2, <1>3, <1>4, <1>5

LEMMA AdminKeeps == Due /\ AdminNext => Due'
<1> SUFFICES ASSUME Due, NEW r \in Requests,
                    \/ AdminCount(r) \/ AdminPatch(r) \/ AdminDelete(r)
                    \/ \E a, u \in Users, change \in Changes : AdminRead(r, a, u, change)
             PROVE Due'
  BY DEF AdminNext
<1>1. ASSUME NEW a \in Users, NEW u \in Users, NEW change \in Changes, AdminRead(r, a, u, change)
      PROVE Due'
  <2> DEFINE to == IF change \in {"demote", "delete"} /\ role[u] = "admin" THEN "patchCount" ELSE "patch"
             q == [Idle EXCEPT !.whom = u, !.change = change, !.at = to]
  <2>1. to \in {"patchCount", "patch"}
    OBVIOUS
  <2>2. Begin(r, q)
    BY <1>1 DEF AdminRead
  <2> HIDE DEF to
  <2>3. q \in Request /\ q.at = to
    BY <2>1 DEF Idle, Request, Stages
  <2> HIDE DEF q
  <2> QED BY <1>1, <2>1, <2>2, <2>3, Beginning DEF AdminRead, Settling
<1>2. CASE AdminCount(r)
  BY <1>2, Going, Ending DEF AdminCount, Settling, Stages, Due, Typed, Stale, mine
<1>3. CASE AdminPatch(r)
  <2>1. /\ req[r].at = "patch" /\ (Go(r, "adminReset") \/ End(r))
        /\ UNCHANGED <<codes, totp, pw, resets, key, session, token>>
    BY <1>3 DEF AdminPatch, mine
  <2>2. CASE Go(r, "adminReset")
    BY <2>1, <2>2, Going DEF Settling, Stages, Due, Typed
  <2>3. CASE End(r)
    BY <2>1, <2>3, Ending DEF Settling, Due, Typed, Stale
  <2> QED BY <2>1, <2>2, <2>3
<1>4. CASE AdminDelete(r)
  <2>1. req[r].at = "patch" /\ UNCHANGED <<codes, totp, pw, resets>>
    BY <1>4 DEF AdminDelete, mine
  <2>2. CASE ~(req[r].whom = Me /\ role[Me] # "gone")
    BY <1>4, <2>1, <2>2, Ending DEF AdminDelete, Settling, Due, Typed, Stale
  <2>3. CASE req[r].whom = Me /\ role[Me] # "gone"
    <3>1. /\ token' = [t \in Tokens |-> None] /\ session' = [s \in Sessions |-> None]
          /\ key' = [k \in Keys |-> None]
          /\ req' = [q \in Requests |-> IF q = r \/ AboutMe(q) THEN Idle ELSE req[q]]
      BY <1>4, <2>3 DEF AdminDelete
    <3>2. Idle \in Request /\ Idle.at = "idle"
      BY IdleRequest DEF Idle
    <3>3. Typed'
      BY <2>1, <3>1, <3>2 DEF Due, Typed, Coded
    <3>4. SessionsDue' /\ KeysDue' /\ LinksDue'
      BY <3>1 DEF SessionsDue, KeysDue, LinksDue, Stale
    <3>5. Onward'
      BY <3>1, <3>2 DEF Due, Onward, AboutMe
    <3> QED BY <3>3, <3>4, <3>5 DEF Due
  <2> QED BY <2>2, <2>3
<1> QED BY <1>1, <1>2, <1>3, <1>4

\* Every step keeps the invariant.
LEMMA StepDue == Due /\ [Next]_vars => Due'
<1>1. Due /\ UNCHANGED vars => Due'
  BY DEF vars, mine, Due, Typed, Coded, SessionsDue, KeysDue, ForKeys, LinksDue, Stale, Onward
<1> QED BY <1>1, LinkKeeps, LoginKeeps, PasswordKeeps, KeyKeeps, AdminKeeps DEF Next

\* Once no password change is under way, every session, API key and reset link
\* that existed before the last one is closed (auth.routes.js reset-password,
\* users.routes.js PATCH /me and /:id), however the requests interleave.
THEOREM OlderWaysClosedHolds == Spec => []OlderWaysClosed
<1>1. Due => OlderWaysClosed
  BY DEF Due, SessionsDue, KeysDue, ForKeys, LinksDue, Stale, OlderWaysClosed, Quiet, Settling
<1> QED BY <1>1, InitDue, StepDue, PTL DEF Spec

-----------------------------------------------------------------------------
(* Links and recovery codes are spent once *)

\* A request that was too late for its link is still to find that out, and the
\* link is gone; what the list holds has not been accepted yet.
Lates == \A r \in Requests :
            /\ req[r].at = "claim" => req[r].link \in Tokens
            /\ req[r].late => req[r].at = "claim" /\ token[req[r].link] = None
Unspent == /\ accepts \in [Codes -> Nat] /\ \A c \in Codes : accepts[c] <= 1
           /\ codes # None => \A c \in codes : accepts[c] = 0
Spent == Due /\ Lates /\ Unspent

\* No link comes back that a request holds.
NoRevival == \A t \in Tokens : token[t] = None /\ token'[t] # None => \A r \in Requests : req[r].link # t

\* A request moves on without being late.
LEMMA LateMove ==
  ASSUME Due, Lates, NoRevival, NEW r \in Requests, NEW q, req' = [req EXCEPT ![r] = q], ~q.late,
         q.at = "claim" => q.link \in Tokens
  PROVE  Lates'
<1>1. req \in [Requests -> Request]
  BY DEF Due, Typed
<1>2. req'[r] = q /\ \A p \in Requests \ {r} : req'[p] = req[p]
  BY <1>1
<1> QED BY <1>2 DEF Lates, NoRevival

\* Its next statement.
LEMMA LateGo ==
  ASSUME Due, Lates, NoRevival, NEW r \in Requests, NEW at, Go(r, at), req[r].at # "claim", at # "claim"
  PROVE  Lates'
<1> DEFINE q == [req[r] EXCEPT !.at = at]
<1>1. ~q.late /\ q.at # "claim"
  BY DEF Lates, Due, Typed, Request
<1>2. req' = [req EXCEPT ![r] = q]
  BY DEF Go
<1> HIDE DEF q
<1> QED BY <1>1, <1>2, LateMove

\* Its end.
LEMMA LateEnd ==
  ASSUME Due, Lates, NoRevival, NEW r \in Requests, End(r)
  PROVE  Lates'
<1>1. ~Idle.late /\ Idle.at # "claim"
  BY DEF Idle
<1> QED BY <1>1, LateMove DEF End

\* The beginning of another.
LEMMA LateBegin ==
  ASSUME Due, Lates, NoRevival, NEW r \in Requests, NEW q, Begin(r, q), ~q.late,
         q.at = "claim" => q.link \in Tokens
  PROVE  Lates'
  BY LateMove DEF Begin

\* Steps that leave the codes alone.
LEMMA CodesStay ==
  ASSUME Unspent, UNCHANGED <<codes, accepts>>
  PROVE  Unspent'
  BY DEF Unspent

\* Every step of a request leaves the late ones to find their link gone.
LEMMA LinkSpends == Due /\ Lates /\ LinkNext => Lates'
<1> SUFFICES ASSUME Due, Lates, LinkNext PROVE Lates'
  OBVIOUS
<1>0. token \in [Tokens -> {None} \cup [type : {"verify", "reset"}, born : Nat]]
      /\ req \in [Requests -> Request]
  BY DEF Due, Typed
<1>1. ASSUME NEW t \in Tokens, NEW type, Mint(t, type) PROVE NoRevival
  BY <1>0, <1>1 DEF Mint, NoRevival
<1>2. ASSUME NEW type, token' = Without(type) PROVE NoRevival
  BY <1>2 DEF NoRevival, Without
<1>3. UNCHANGED token => NoRevival
  BY DEF NoRevival
<1>4. ASSUME NEW t \in Tokens, Forgot(t) \/ Expire(t) PROVE Lates'
  <2>1. UNCHANGED req /\ NoRevival
    BY <1>0, <1>1, <1>4 DEF Forgot, Expire, NoRevival
  <2> QED BY <2>1 DEF Lates, NoRevival
<1>5. ASSUME NEW r \in Requests, ResendRead(r) PROVE Lates'
  <2>1. LET q == [Idle EXCEPT !.at = "resend"] IN ~q.late /\ q.at # "claim"
    BY DEF Idle
  <2> QED BY <1>3, <1>5, <2>1, LateBegin DEF ResendRead
<1>6. ASSUME NEW r \in Requests, NEW t \in Tokens, ResendMint(r, t) PROVE Lates'
  BY <1>1, <1>6, LateEnd DEF ResendMint
<1>7. ASSUME NEW r \in Requests, NEW t \in Tokens, TokenRead(r, t) PROVE Lates'
  <2>1. LET q == [Idle EXCEPT !.at = "claim", !.link = t] IN ~q.late /\ q.link = t
    BY DEF Idle
  <2> QED BY <1>3, <1>7, <2>1, LateBegin DEF TokenRead
<1>8. ASSUME NEW r \in Requests, TokenClaim(r) PROVE Lates'
  <2>0. Purpose(req[r].link) \in {"verify", "reset"}
    BY DEF Purpose
  <2>1. CASE token[req[r].link] = None /\ End(r) /\ UNCHANGED token
    BY <1>3, <2>1, LateEnd
  <2>2. ASSUME token[req[r].link] # None, NEW to \in {"verify", "reset"}, Claimed(r, to) PROVE Lates'
    <3>1. req[r] \in Request /\ ~req[r].late /\ req[r].link \in Tokens
      BY <1>0, <1>8, <2>2 DEF Lates, TokenClaim
    <3>2. req'[r] = [req[r] EXCEPT !.at = to] /\ ~req'[r].late /\ req'[r].at # "claim"
      BY <2>2, <3>1 DEF Claimed, Request
    <3>3. ASSUME NEW p \in Requests, p # r
          PROVE  /\ req'[p].at = "claim" => req'[p].link \in Tokens
                 /\ req'[p].late => req'[p].at = "claim" /\ token'[req'[p].link] = None
      <4>1. req'[p] = [req[p] EXCEPT !.late = @ \/ (req[p].at = "claim" /\ req[p].link = req[r].link)]
        BY <2>2, <3>3 DEF Claimed
      <4>2. req[p] \in Request
        BY <1>0
      <4>3. req'[p].at = req[p].at /\ req'[p].link = req[p].link
            /\ (req'[p].late => req[p].late \/ (req[p].at = "claim" /\ req[p].link = req[r].link))
        BY <3>3, <4>1, <4>2 DEF Request
      <4>4. token' = [token EXCEPT ![req[r].link] = None]
        BY <2>2 DEF Claimed
      <4>5. CASE req[p].late
        BY <1>0, <4>3, <4>4, <4>5 DEF Lates
      <4>6. CASE req[p].at = "claim" /\ req[p].link = req[r].link
        BY <1>0, <3>1, <4>3, <4>4, <4>6
      <4>7. req'[p].at = "claim" => req'[p].link \in Tokens
        BY <4>3 DEF Lates
      <4> QED BY <4>3, <4>5, <4>6, <4>7
    <3> QED BY <3>2, <3>3 DEF Lates
  <2> QED BY <1>8, <2>0, <2>1, <2>2 DEF TokenClaim
<1>9. ASSUME NEW r \in Requests, VerifyEmail(r) PROVE Lates'
  <2> DEFINE q == [req[r] EXCEPT !.at = "killVerify", !.next = IF banned[Me] THEN "none" ELSE "start"]
  <2>1. ~q.late /\ q.at # "claim"
    BY <1>9, <1>0 DEF Lates, VerifyEmail, Request
  <2>2. req' = [req EXCEPT ![r] = q] /\ UNCHANGED token
    BY <1>9 DEF VerifyEmail
  <2> HIDE DEF q
  <2> QED BY <2>1, <2>2, <1>3, LateMove
<1>10. ASSUME NEW r \in Requests, VerifyKill(r) PROVE Lates'
  BY <1>2, <1>10, LateGo, LateEnd DEF VerifyKill
<1> QED BY <1>4, <1>5, <1>6, <1>7, <1>8, <1>9, <1>10 DEF LinkNext

LEMMA LoginSpends == Due /\ Lates /\ LoginNext => Lates'
<1> SUFFICES ASSUME Due, Lates, NEW r \in Requests,
                    \/ Login(r) \/ TakeCode(r) \/ RereadCodes(r) \/ Disable(r)
                    \/ EnableRead(r)
                    \/ \E s \in Sessions : StartSession(r, s)
                    \/ \E c \in Codes \cup {None} : VerifyCode(r, c) \/ DisableRead(r, c)
                    \/ \E b \in Batches : Enable(r, b)
             PROVE Lates'
  BY DEF LoginNext
<1>0. req[r] \in Request /\ (UNCHANGED token => NoRevival)
  BY DEF Due, Typed, NoRevival
<1>1. ASSUME NEW at, at # "claim", Begin(r, [Idle EXCEPT !.at = at]), UNCHANGED token PROVE Lates'
  <2>1. LET q == [Idle EXCEPT !.at = at] IN ~q.late /\ q.at # "claim"
    BY <1>1 DEF Idle
  <2> QED BY <1>0, <1>1, <2>1, LateBegin
<1>2. CASE Login(r) \/ EnableRead(r)
  BY <1>1, <1>2 DEF Login, EnableRead
<1>3. ASSUME NEW c \in Codes \cup {None}, NEW next \in {"start", "disable"}, SecondFactor(r, next, c)
      PROVE Lates'
  <2>1. CASE c = None
    BY <1>1, <1>3, <2>1 DEF SecondFactor
  <2>2. CASE c # None
    <3> DEFINE q == [Idle EXCEPT !.at = "code", !.code = c, !.list = codes,
                                 !.next = next, !.tries = Attempts]
    <3>1. ~q.late /\ q.at # "claim"
      BY DEF Idle
    <3>2. Begin(r, q) /\ UNCHANGED token
      BY <1>3, <2>2 DEF SecondFactor
    <3> HIDE DEF q
    <3> QED BY <1>0, <3>1, <3>2, LateBegin
  <2> QED BY <2>1, <2>2
<1>4. CASE TakeCode(r)
  <2>1. req[r].at = "code" /\ UNCHANGED token /\ req[r].next # "claim"
    BY <1>0, <1>4 DEF TakeCode, Request
  <2> QED BY <1>0, <1>4, <2>1, LateGo, LateEnd DEF TakeCode
<1>5. CASE RereadCodes(r)
  <2> DEFINE q == [req[r] EXCEPT !.at = "code", !.list = codes, !.tries = @ - 1]
  <2>1. ~q.late /\ q.at # "claim"
    BY <1>0, <1>5 DEF RereadCodes, Lates, Request
  <2>2. UNCHANGED token /\ (End(r) \/ req' = [req EXCEPT ![r] = q])
    BY <1>5 DEF RereadCodes
  <2> HIDE DEF q
  <2> QED BY <1>0, <2>1, <2>2, LateMove, LateEnd
<1>6. CASE Disable(r)
  BY <1>0, <1>6, LateEnd DEF Disable
<1>7. ASSUME NEW b \in Batches, Enable(r, b) PROVE Lates'
  BY <1>0, <1>7, LateEnd DEF Enable
<1>8. ASSUME NEW s \in Sessions, StartSession(r, s) PROVE Lates'
  BY <1>0, <1>8, LateEnd DEF StartSession
<1> QED BY <1>2, <1>3, <1>4, <1>5, <1>6, <1>7, <1>8 DEF VerifyCode, DisableRead

LEMMA PasswordSpends == Due /\ Lates /\ PasswordNext => Lates'
<1> SUFFICES ASSUME Due, Lates, NEW r \in Requests,
                    \/ SetPassword(r) \/ RevokeSessions(r) \/ RevokeKeys(r) \/ KillResets(r)
                    \/ \E s \in Sessions \cup {None} : ChangeRead(r, s)
             PROVE Lates'
  BY DEF PasswordNext
<1>0. req[r] \in Request /\ (UNCHANGED token => NoRevival)
  BY DEF Due, Typed, NoRevival
<1>1. ASSUME NEW s \in Sessions \cup {None}, ChangeRead(r, s) PROVE Lates'
  <2>1. LET q == [Idle EXCEPT !.at = "change", !.keep = s] IN ~q.late /\ q.at # "claim"
    BY DEF Idle
  <2> QED BY <1>0, <1>1, <2>1, LateBegin DEF ChangeRead
<1>2. CASE SetPassword(r)
  <2> DEFINE q == [req[r] EXCEPT !.at = "revokeSessions",
                                 !.next = IF req[r].at = "change" THEN "killResets" ELSE "revokeKeys"]
  <2>1. ~q.late /\ q.at # "claim"
    BY <1>0, <1>2 DEF SetPassword, Lates, Request
  <2>2. UNCHANGED token /\ req' = [req EXCEPT ![r] = q]
    BY <1>2 DEF SetPassword
  <2> HIDE DEF q
  <2> QED BY <1>0, <2>1, <2>2, LateMove
<1>3. CASE RevokeSessions(r)
  <2>1. req[r].at = "revokeSessions" /\ UNCHANGED token /\ req[r].next # "claim"
    BY <1>0, <1>3 DEF RevokeSessions, Request
  <2> QED BY <1>0, <1>3, <2>1, LateGo DEF RevokeSessions
<1>4. CASE RevokeKeys(r)
  BY <1>0, <1>4, LateGo DEF RevokeKeys
<1>5. CASE KillResets(r)
  <2>1. NoRevival
    BY <1>5 DEF KillResets, NoRevival, Without
  <2> QED BY <1>5, <2>1, LateEnd DEF KillResets
<1> QED BY <1>1, <1>2, <1>3, <1>4, <1>5

LEMMA KeySpends == Due /\ Lates /\ KeyNext => Lates'
<1> SUFFICES ASSUME Due, Lates, KeyNext PROVE Lates'
  OBVIOUS
<1>0. UNCHANGED token => NoRevival
  BY DEF NoRevival
<1>1. UNCHANGED <<token, req>> => Lates'
  BY DEF Lates
<1>2. ASSUME NEW r \in Requests, KeyRead(r) PROVE Lates'
  <2> DEFINE q == [Idle EXCEPT !.at = IF MaxKeys > 0 /\ role[Me] # "admin" THEN "countKeys" ELSE "makeKey"]
  <2>1. ~q.late /\ q.at # "claim"
    BY DEF Idle
  <2>2. Begin(r, q) /\ UNCHANGED token
    BY <1>2 DEF KeyRead
  <2> HIDE DEF q
  <2> QED BY <1>0, <2>1, <2>2, LateBegin
<1>3. ASSUME NEW r \in Requests, KeyCount(r) PROVE Lates'
  BY <1>0, <1>3, LateGo, LateEnd DEF KeyCount
<1>4. ASSUME NEW r \in Requests, NEW k \in Keys, KeyMake(r, k) PROVE Lates'
  BY <1>0, <1>4, LateEnd DEF KeyMake
<1> QED BY <1>1, <1>2, <1>3, <1>4 DEF KeyNext, RevokeOne, RevokeOthers, KeyRevoke

LEMMA AdminSpends == Due /\ Lates /\ AdminNext => Lates'
<1> SUFFICES ASSUME Due, Lates, NEW r \in Requests,
                    \/ AdminCount(r) \/ AdminPatch(r) \/ AdminDelete(r)
                    \/ \E a, u \in Users, change \in Changes : AdminRead(r, a, u, change)
             PROVE Lates'
  BY DEF AdminNext
<1>0. UNCHANGED token => NoRevival
  BY DEF NoRevival
<1>1. ASSUME NEW a \in Users, NEW u \in Users, NEW change \in Changes, AdminRead(r, a, u, change)
      PROVE Lates'
  <2> DEFINE q == [Idle EXCEPT !.whom = u, !.change = change,
                      !.at = IF change \in {"demote", "delete"} /\ role[u] = "admin" THEN "patchCount" ELSE "patch"]
  <2>1. ~q.late /\ q.at # "claim"
    BY DEF Idle
  <2>2. Begin(r, q) /\ UNCHANGED token
    BY <1>1 DEF AdminRead
  <2> HIDE DEF q
  <2> QED BY <1>0, <2>1, <2>2, LateBegin
<1>2. CASE AdminCount(r)
  BY <1>0, <1>2, LateGo, LateEnd DEF AdminCount
<1>3. CASE AdminPatch(r)
  <2>1. req[r].at = "patch" /\ UNCHANGED token /\ (Go(r, "adminReset") \/ End(r))
    BY <1>3 DEF AdminPatch
  <2> QED BY <1>0, <2>1, LateGo, LateEnd
<1>4. CASE AdminDelete(r)
  <2>1. CASE ~(req[r].whom = Me /\ role[Me] # "gone")
    BY <1>0, <1>4, <2>1, LateEnd DEF AdminDelete
  <2>2. CASE req[r].whom = Me /\ role[Me] # "gone"
    <3>1. /\ token' = [t \in Tokens |-> None]
          /\ req' = [q \in Requests |-> IF q = r \/ AboutMe(q) THEN Idle ELSE req[q]]
      BY <1>4, <2>2 DEF AdminDelete
    <3>2. ~Idle.late /\ Idle.at # "claim"
      BY DEF Idle
    <3> QED BY <3>1, <3>2 DEF Lates
  <2> QED BY <2>1, <2>2
<1> QED BY <1>1, <1>2, <1>3, <1>4

\* Only an accepted code, a new list and the end of two-factor login touch the books of codes.
LEMMA CodesSpend == Due /\ Unspent /\ Next => Unspent'
<1> SUFFICES ASSUME Due, Unspent, Next PROVE Unspent'
  OBVIOUS
<1>0. UNCHANGED <<codes, accepts>> => Unspent'
  BY CodesStay
<1>1. LinkNext => Unspent'
  BY <1>0 DEF LinkNext, Forgot, Expire, ResendRead, ResendMint, TokenRead, TokenClaim, VerifyEmail,
              VerifyKill, mine
<1>2. PasswordNext => Unspent'
  BY <1>0 DEF PasswordNext, ChangeRead, SetPassword, RevokeSessions, RevokeKeys, KillResets, mine
<1>3. KeyNext => Unspent'
  BY <1>0 DEF KeyNext, RevokeOne, RevokeOthers, KeyRevoke, KeyRead, KeyCount, KeyMake, mine
<1>4. AdminNext => Unspent'
  BY <1>0 DEF AdminNext, AdminRead, AdminCount, AdminPatch, AdminDelete, mine
<1>5. ASSUME NEW r \in Requests, TakeCode(r) PROVE Unspent'
  <2>1. CASE UNCHANGED <<codes, accepts>>
    BY <1>0, <2>1
  <2>2. ASSUME codes = req[r].list, req[r].code \in codes, codes' = codes \ {req[r].code},
               accepts' = [accepts EXCEPT ![req[r].code] = @ + 1]
        PROVE  Unspent'
    <3>1. codes # None /\ codes \subseteq Codes /\ req[r].code \in Codes
      BY <2>2, AccountAssumption DEF Due, Typed, Request
    <3>2. accepts[req[r].code] = 0
      BY <2>2, <3>1 DEF Unspent
    <3> QED BY <2>2, <3>1, <3>2 DEF Unspent
  <2> QED BY <1>5, <2>1, <2>2 DEF TakeCode
<1>6. ASSUME NEW r \in Requests, NEW b \in Batches, Enable(r, b) PROVE Unspent'
  BY <1>6 DEF Enable, Fresh, Unspent, Codes
<1>7. ASSUME NEW r \in Requests, Disable(r) PROVE Unspent'
  BY <1>7 DEF Disable, Unspent
<1>8. LoginNext => Unspent'
  BY <1>0, <1>5, <1>6, <1>7 DEF LoginNext, Login, RereadCodes, EnableRead, StartSession, VerifyCode,
                               DisableRead, SecondFactor, mine
<1> QED BY <1>1, <1>2, <1>3, <1>4, <1>8 DEF Next

LEMMA InitSpent == Init => Spent
<1> SUFFICES ASSUME Init PROVE Spent
  OBVIOUS
<1>1. Due
  BY InitDue
<1>2. Lates
  BY DEF Init, Lates, Idle
<1>3. Unspent
  BY DEF Init, Unspent
<1> QED BY <1>1, <1>2, <1>3 DEF Spent

LEMMA StepSpent == Spent /\ [Next]_vars => Spent'
<1> SUFFICES ASSUME Spent, [Next]_vars PROVE Spent'
  OBVIOUS
<1>1. Due'
  BY StepDue DEF Spent
<1>2. CASE UNCHANGED vars
  <2>1. Lates' /\ Unspent'
    BY <1>2 DEF vars, mine, Spent, Lates, Unspent
  <2> QED BY <1>1, <2>1 DEF Spent
<1>3. CASE Next
  <2>1. Lates'
    BY <1>3, LinkSpends, LoginSpends, PasswordSpends, KeySpends, AdminSpends DEF Next, Spent
  <2> QED BY <1>1, <1>3, <2>1, CodesSpend DEF Spent
<1> QED BY <1>2, <1>3

\* A mailed link is spent by one of the requests that present it, and a recovery
\* code passes once, however many requests race for them (claimToken,
\* consumeRecoveryCode), and an accepted code never comes back into the list.
THEOREM SpentOnceHolds == Spec => []SpentOnce
<1>1. Spent => SpentOnce
  BY DEF Spent, Lates, Unspent, SpentOnce
<1> QED BY <1>1, InitSpent, StepSpent, PTL DEF Spec
=============================================================================
