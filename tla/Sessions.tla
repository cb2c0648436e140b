------------------------------ MODULE Sessions ------------------------------
(***************************************************************************)
(* The sessions of one account: user_handler.go's Login, RefreshToken,     *)
(* UpdatePassword and Delete, the two Redis keys that redis.go keeps       *)
(* (user:session:<uid> holds the valid session id,                         *)
(* user:refresh:<uid>:<sid> the refresh id that may be redeemed), the      *)
(* check every request passes in auth.go, and the chat sockets that were   *)
(* let in by it.  A handler is a sequence of Redis commands, statements    *)
(* and one kick; between any two of them the other handlers run.           *)
(*                                                                         *)
(* Keys of different accounts never meet, so one account is enough.        *)
(* Session and refresh ids are 16 random bytes: here they are numbered in  *)
(* the order in which Redis first stores them.                             *)
(***************************************************************************)
EXTENDS Naturals, FiniteSets

CONSTANTS
    Procs,          \* HTTP requests in flight at the same time
    Sockets,        \* chat connections of the account
    MaxSession,     \* bound: session ids stored
    MaxRefresh,     \* bound: refresh ids stored
    MaxPassword,    \* bound: passwords the account has had
    MaxFailures     \* bound: commands and statements that fail, keys that expire

ASSUME SessionBounds ==
    /\ MaxSession \in Nat /\ MaxRefresh \in Nat
    /\ MaxPassword \in Nat \ {0} /\ MaxFailures \in Nat

VARIABLES
    req,            \* what each request in flight still has to do
    session,        \* user:session:<uid>; 0 when the key is absent
    refresh,        \* user:refresh:<uid>:<sid> for every sid; 0 when absent
    password,       \* the account's password, by number
    exists,         \* FALSE once the account is deleted
    tokens,         \* token pairs handed out: the session and refresh ids signed in them
    conn,           \* how far each socket is: "off", "upgrading", "on"
    via,            \* the session each socket was authenticated with
    lastSid, lastRid, failures,
    \* History, read by the properties only:
    openedWith,         \* the password each session was opened with
    redeemed,       \* exchanges of one refresh id for another
    escaped,        \* sessions that a password change could not reach
    cutOff,         \* sessions whose refresh key or token pair was lost
    missed          \* sockets that the kick did not or will not reach

redis == <<session, refresh>>
database == <<password, exists>>
sockets == <<conn, via>>
ids == <<lastSid, lastRid>>
history == <<openedWith, redeemed, escaped, cutOff, missed>>
sessionVars == <<req, redis, database, tokens, sockets, ids, failures, history>>

Sids == 1..MaxSession
Stages == {"idle", "store", "remember", "login", "watch", "exec", "extend",
           "update", "delete", "sweep", "evict"}

Idle == [stage |-> "idle", sid |-> 0, old |-> 0, new |-> 0, pw |-> 0, overtaken |-> FALSE]

At(p, s) == req[p].stage = s
Go(p, s) == req' = [req EXCEPT ![p].stage = s]
Done(p) == req' = [req EXCEPT ![p] = Idle]
Start(p, r) == At(p, "idle") /\ req' = [req EXCEPT ![p] = r]

\* The requests that watch a refresh key in ks learn that it was written.
Disturb(r, ks) ==
    [q \in Procs |->
        [r[q] EXCEPT !.overtaken = @ \/ (r[q].stage = "exec" /\ r[q].sid \in ks)]]

\* The logins that checked another password than pw, and have not stored their
\* session, will store it too late to be removed.
PassLogins(pw) ==
    [q \in Procs |->
        [req[q] EXCEPT !.overtaken = @ \/ (At(q, "store") /\ req[q].pw # pw)]]

----------------------------------------------------------------------------
(* Login (user_handler.go).  A wrong password, an unknown account and a     *)
(* failing read change nothing and are not modelled.                        *)

Login(p) ==
    /\ exists
    /\ Start(p, [Idle EXCEPT !.stage = "store", !.pw = password])
    /\ UNCHANGED <<redis, database, tokens, sockets, ids, history>>

StoreSession(p) ==
    /\ lastSid < MaxSession
    /\ lastSid' = lastSid + 1
    /\ session' = lastSid + 1
    /\ openedWith' = [openedWith EXCEPT ![lastSid + 1] = req[p].pw]
    /\ escaped' = IF req[p].overtaken THEN escaped \cup {lastSid + 1} ELSE escaped
    /\ UNCHANGED <<refresh, database, tokens, sockets, lastRid, redeemed>>

\* Defect: the tokens are signed before the session has its id.
SignBeforeSession(p) ==
    /\ At(p, "store")
    /\ StoreSession(p)
    /\ Go(p, "remember")
    /\ UNCHANGED <<cutOff, missed>>

SetUserSession(p) ==
    /\ At(p, "store")
    /\ StoreSession(p)
    /\ req' = [req EXCEPT ![p].stage = "remember", ![p].sid = lastSid + 1]
    /\ UNCHANGED <<cutOff, missed>>

StoreRefresh(p) ==
    /\ lastRid < MaxRefresh
    /\ lastRid' = lastRid + 1
    /\ refresh' = [refresh EXCEPT ![req[p].sid] = lastRid + 1]
    /\ UNCHANGED <<session, database, tokens, sockets, lastSid, openedWith, redeemed, escaped>>

SetRefreshTokenID(p) ==
    /\ At(p, "remember")
    /\ StoreRefresh(p)
    /\ req' = [req EXCEPT ![p].stage = "login", ![p].new = lastRid + 1]
    /\ UNCHANGED <<cutOff, missed>>

\* Either command may fail, before or after Redis executed it: the handler
\* answers 500 and neither kicks nor hands out tokens.
LoginFails(p) ==
    /\ \/ /\ At(p, "store")
          /\ \/ StoreSession(p) /\ cutOff' = cutOff \cup {lastSid + 1}
             \/ UNCHANGED <<redis, database, tokens, sockets, ids, openedWith, redeemed, escaped, cutOff>>
       \/ /\ At(p, "remember")
          /\ cutOff' = cutOff \cup {req[p].sid}
          /\ \/ StoreRefresh(p)
             \/ UNCHANGED <<redis, database, tokens, sockets, ids, openedWith, redeemed, escaped>>
    /\ missed' = missed \cup {w \in Sockets : conn[w] # "off"}
    /\ Done(p)

\* Defect: the kick is sent to nobody who is connected already.
KickNobody(p) ==
    /\ missed' = missed \cup {w \in Sockets : conn[w] = "upgrading"}
    /\ UNCHANGED sockets

\* A socket that was authenticated but has not registered is not in the table.
KickUserConnections(p) ==
    /\ conn' = [w \in Sockets |-> IF conn[w] = "on" THEN "off" ELSE conn[w]]
    /\ via' = [w \in Sockets |-> IF conn[w] = "on" THEN 0 ELSE via[w]]
    /\ missed' = {w \in Sockets : conn[w] = "upgrading"}

\* The kick, and then the tokens that were signed before the session was stored.
LoginReturns(p) ==
    /\ At(p, "login")
    /\ KickUserConnections(p)
    /\ tokens' = tokens \cup {[sid |-> req[p].sid, rid |-> req[p].new]}
    /\ Done(p)
    /\ UNCHANGED <<redis, database, ids, openedWith, redeemed, escaped, cutOff>>

----------------------------------------------------------------------------
(* RefreshToken.                                                            *)

\* IsSessionValid; a refused pair leaves no trace.
RefreshToken(p, t) ==
    /\ t \in tokens /\ t.sid = session
    /\ Start(p, [Idle EXCEPT !.stage = "watch", !.sid = t.sid, !.old = t.rid])
    /\ UNCHANGED <<redis, database, tokens, sockets, ids, history>>

\* RotateRefreshTokenID: WATCH and GET, with the comparison ...
CompareRefresh(p) ==
    /\ At(p, "watch")
    /\ IF refresh[req[p].sid] = req[p].old THEN Go(p, "exec") ELSE Done(p)
    /\ UNCHANGED <<redis, database, tokens, sockets, ids, history>>

Rotate(p) ==
    /\ lastRid < MaxRefresh
    /\ lastRid' = lastRid + 1
    /\ refresh' = [refresh EXCEPT ![req[p].sid] = lastRid + 1]
    /\ redeemed' = redeemed \cup {[old |-> req[p].old, new |-> lastRid + 1]}
    /\ UNCHANGED <<session, database, tokens, sockets, lastSid, openedWith, escaped, missed>>

\* Defect: compare and set without WATCH.
ExecUnwatched(p) ==
    /\ At(p, "exec")
    /\ Rotate(p)
    /\ req' = [Disturb(req, {req[p].sid}) EXCEPT ![p].stage = "extend", ![p].new = lastRid + 1]
    /\ UNCHANGED cutOff

\* ... and EXEC, which does nothing when the key was written since.
RotateRefreshTokenID(p) ==
    /\ At(p, "exec")
    /\ \/ /\ ~req[p].overtaken
          /\ Rotate(p)
          /\ req' = [Disturb(req, {req[p].sid})
                        EXCEPT ![p].stage = "extend", ![p].new = lastRid + 1]
       \/ /\ req[p].overtaken
          /\ Done(p)
          /\ UNCHANGED <<redis, database, tokens, sockets, ids, openedWith, redeemed, escaped, missed>>
    /\ UNCHANGED cutOff

\* Defect: the session is stored again to renew its time to live.
SetSessionAgain(p) ==
    /\ At(p, "extend")
    /\ session' = req[p].sid
    /\ tokens' = tokens \cup {[sid |-> req[p].sid, rid |-> req[p].new]}
    /\ Done(p)
    /\ UNCHANGED <<refresh, database, sockets, ids, history>>

\* Defect: the pair that was redeemed is handed out again.
ReturnOldPair(p) ==
    /\ At(p, "extend")
    /\ tokens' = tokens \cup {[sid |-> req[p].sid, rid |-> req[p].old]}
    /\ Done(p)
    /\ UNCHANGED <<redis, database, sockets, ids, history>>

\* EXPIRE renews whatever session the key holds by now, or nothing; then the
\* new pair, of the same session, is handed out.
ExpireUserSession(p) ==
    /\ At(p, "extend")
    /\ tokens' = tokens \cup {[sid |-> req[p].sid, rid |-> req[p].new]}
    /\ Done(p)
    /\ UNCHANGED <<redis, database, sockets, ids, history>>

\* WATCH or GET fails: the answer is 401, as for a wrong token.
RefreshRefused(p) ==
    /\ At(p, "watch")
    /\ Done(p)
    /\ UNCHANGED <<redis, database, tokens, sockets, ids, history>>

\* EXEC may fail although Redis executed it, EXPIRE may fail after the
\* rotation: the client is left with a redeemed refresh token.
RefreshFails(p) ==
    /\ \/ At(p, "exec") /\ ~req[p].overtaken /\ Rotate(p)
       \/ /\ At(p, "extend")
          /\ UNCHANGED <<redis, database, tokens, sockets, ids, openedWith, redeemed, escaped, missed>>
    /\ cutOff' = cutOff \cup {req[p].sid}
    /\ req' = [Disturb(req, {req[p].sid}) EXCEPT ![p] = Idle]

----------------------------------------------------------------------------
(* UpdatePassword and Delete, both behind the authentication middleware.    *)

\* Session and old password are right.
UpdatePassword(p) ==
    /\ exists /\ session # 0
    /\ \E t \in tokens : t.sid = session
    /\ Start(p, [Idle EXCEPT !.stage = "update"])
    /\ UNCHANGED <<redis, database, tokens, sockets, ids, history>>

\* The UPDATE, and the read of the row that has to follow: of an account
\* deleted meanwhile neither touches anything.
StorePassword(p) ==
    /\ At(p, "update")
    /\ \/ /\ exists /\ password < MaxPassword
          /\ password' = password + 1
          /\ Go(p, "delete")
       \/ ~exists /\ UNCHANGED password /\ Done(p)
    /\ UNCHANGED <<redis, exists, tokens, sockets, ids, history>>

\* The read fails: 500, the password is new and the sessions are left alone.
StorePasswordFails(p) ==
    /\ At(p, "update") /\ exists /\ password < MaxPassword
    /\ password' = password + 1
    /\ escaped' = escaped \cup ({session} \ {0})
    /\ req' = [PassLogins(password + 1) EXCEPT ![p] = Idle]
    /\ UNCHANGED <<redis, exists, tokens, sockets, ids, openedWith, redeemed, cutOff, missed>>

\* Defect: only the refresh tokens are withdrawn.
KeepSession(p) ==
    /\ At(p, "delete")
    /\ req' = [PassLogins(password) EXCEPT ![p].stage = "sweep"]
    /\ UNCHANGED <<redis, database, tokens, sockets, ids, history>>

\* DelUserSession: the session key first.  A login that has checked the old
\* password by now will store its session after this.
DelUserSession(p) ==
    /\ At(p, "delete")
    /\ session' = 0
    /\ req' = [PassLogins(password) EXCEPT ![p].stage = "sweep"]
    /\ UNCHANGED <<refresh, database, tokens, sockets, ids, history>>

\* Then SCAN and DEL, which take the refresh keys of newer sessions as well.
SweepRefreshKeys(p) ==
    /\ At(p, "sweep")
    /\ refresh' = [s \in Sids |-> 0]
    /\ cutOff' = cutOff \cup {s \in Sids : refresh[s] # 0}
    /\ req' = [Disturb(req, Sids) EXCEPT ![p].stage = "evict"]
    /\ UNCHANGED <<session, database, tokens, sockets, ids, openedWith, redeemed, escaped, missed>>

\* A failure of either is logged, and the handler goes on.
DelUserSessionFails(p) ==
    /\ \/ /\ At(p, "delete")
          /\ escaped' = escaped \cup ({session} \ {0})
          /\ req' = [PassLogins(password) EXCEPT ![p].stage = "evict"]
       \/ At(p, "sweep") /\ Go(p, "evict") /\ UNCHANGED escaped
    /\ UNCHANGED <<redis, database, tokens, sockets, ids, openedWith, redeemed, cutOff, missed>>

UpdatePasswordReturns(p) ==
    /\ At(p, "evict")
    /\ KickUserConnections(p)
    /\ Done(p)
    /\ UNCHANGED <<redis, database, tokens, ids, openedWith, redeemed, escaped, cutOff>>

\* The rows go in one transaction; session, tokens and sockets stay.
Delete ==
    /\ exists /\ session # 0
    /\ \E t \in tokens : t.sid = session
    /\ exists' = FALSE
    /\ UNCHANGED <<req, redis, password, tokens, sockets, ids, history>>

----------------------------------------------------------------------------
(* Chat sockets, expiry and restart.                                        *)

\* WSAuth looks at the session; the upgrade follows.
Authenticate(w) ==
    /\ conn[w] = "off"
    /\ session # 0 /\ \E t \in tokens : t.sid = session
    /\ conn' = [conn EXCEPT ![w] = "upgrading"]
    /\ via' = [via EXCEPT ![w] = session]
    /\ UNCHANGED <<req, redis, database, tokens, ids, history>>

\* Nothing looks at the session again.
RegisterConnection(w) ==
    /\ conn[w] = "upgrading"
    /\ conn' = [conn EXCEPT ![w] = "on"]
    /\ UNCHANGED <<req, redis, database, tokens, via, ids, history>>

UnregisterConnection(w) ==
    /\ conn[w] # "off"
    /\ conn' = [conn EXCEPT ![w] = "off"]
    /\ via' = [via EXCEPT ![w] = 0]
    /\ missed' = missed \ {w}
    /\ UNCHANGED <<req, redis, database, tokens, ids, openedWith, redeemed, escaped, cutOff>>

\* Keys whose time to live has passed.
SessionExpires ==
    /\ session # 0
    /\ session' = 0
    /\ missed' = missed \cup {w \in Sockets : conn[w] # "off"}
    /\ UNCHANGED <<req, refresh, database, tokens, sockets, ids, openedWith, redeemed, escaped, cutOff>>

RefreshExpires(s) ==
    /\ refresh[s] # 0
    /\ refresh' = [refresh EXCEPT ![s] = 0]
    /\ cutOff' = cutOff \cup {s}
    /\ req' = Disturb(req, {s})
    /\ UNCHANGED <<session, database, tokens, sockets, ids, openedWith, redeemed, escaped, missed>>

\* The process ends, by itself or not: requests and sockets are gone, Redis and
\* the database keep what they have.
Halt ==
    /\ req' = [p \in Procs |-> Idle]
    /\ conn' = [w \in Sockets |-> "off"] /\ via' = [w \in Sockets |-> 0] /\ missed' = {}
    /\ cutOff' = cutOff \cup ({req[p].sid : p \in Procs} \ {0})
    /\ escaped' = IF \E p \in Procs : At(p, "delete") THEN escaped \cup ({session} \ {0})
                  ELSE escaped
    /\ UNCHANGED <<redis, database, tokens, ids, openedWith, redeemed>>

Init ==
    /\ req = [p \in Procs |-> Idle]
    /\ session = 0 /\ refresh = [s \in Sids |-> 0]
    /\ password = 1 /\ exists = TRUE
    /\ tokens = {}
    /\ conn = [w \in Sockets |-> "off"] /\ via = [w \in Sockets |-> 0]
    /\ lastSid = 0 /\ lastRid = 0 /\ failures = 0
    /\ openedWith = [s \in Sids |-> 0]
    /\ redeemed = {} /\ escaped = {} /\ cutOff = {} /\ missed = {}

\* A request that needs nothing from the running handlers.
Arrive(p) ==
    \/ Login(p)
    \/ \E t \in tokens : RefreshToken(p, t)
    \/ UpdatePassword(p)

\* What needs Redis or the database, and fails with them.
Step(p) ==
    \/ SetUserSession(p) \/ SetRefreshTokenID(p)
    \/ CompareRefresh(p) \/ RotateRefreshTokenID(p) \/ ExpireUserSession(p)
    \/ StorePassword(p) \/ DelUserSession(p) \/ SweepRefreshKeys(p)

Return(p) == LoginReturns(p) \/ UpdatePasswordReturns(p)

Fault(p) ==
    \/ LoginFails(p) \/ RefreshRefused(p) \/ RefreshFails(p)
    \/ StorePasswordFails(p) \/ DelUserSessionFails(p)

Listen(w) == Authenticate(w) \/ RegisterConnection(w) \/ UnregisterConnection(w)

Expire == SessionExpires \/ \E s \in Sids : RefreshExpires(s)

Next ==
    \/ /\ \/ \E p \in Procs : Arrive(p) \/ Step(p) \/ Return(p)
          \/ Delete
          \/ \E w \in Sockets : Listen(w)
          \/ Halt
       /\ UNCHANGED failures
    \/ /\ failures < MaxFailures /\ failures' = failures + 1
       /\ Expire \/ \E p \in Procs : Fault(p)

Spec == Init /\ [][Next]_sessionVars

----------------------------------------------------------------------------
(* Properties.                                                              *)

RequestType == [stage : Stages, sid : 0..MaxSession, old : 0..MaxRefresh,
             new : 0..MaxRefresh, pw : 0..MaxPassword, overtaken : BOOLEAN]
PairType == [sid : Sids, rid : 1..MaxRefresh]

\* Every variable keeps its type; a request that handles a session has one.
TypeOK ==
    /\ req \in [Procs -> RequestType]
    /\ session \in 0..MaxSession /\ refresh \in [Sids -> 0..MaxRefresh]
    /\ password \in 1..MaxPassword /\ exists \in BOOLEAN
    /\ tokens \subseteq PairType
    /\ conn \in [Sockets -> {"off", "upgrading", "on"}] /\ via \in [Sockets -> 0..MaxSession]
    /\ lastSid \in 0..MaxSession /\ lastRid \in 0..MaxRefresh /\ failures \in 0..MaxFailures
    /\ openedWith \in [Sids -> 0..MaxPassword]
    /\ redeemed \subseteq [old : 1..MaxRefresh, new : 1..MaxRefresh]
    /\ escaped \subseteq Sids /\ cutOff \subseteq Sids /\ missed \subseteq Sockets
    /\ \A p \in Procs :
          req[p].stage \in {"remember", "login", "watch", "exec", "extend"} => req[p].sid \in Sids

\* RotateRefreshTokenID exchanges a refresh token once, however many requests
\* present it at the same time and whatever fails, expires or restarts.
RefreshRedeemedOnce ==
    \A r1, r2 \in redeemed : r1.old = r2.old => r1 = r2

\* The owner of the valid session can go on: once the requests about it are
\* over, some pair that was handed out is the one Redis would redeem.  Two
\* refreshes with one token leave the winner's pair good.  What takes this away
\* is a lost command or answer, expiry, or the sweep of a password change.
CurrentSessionRefreshable ==
    (/\ session # 0 /\ session \notin cutOff
     /\ \A p \in Procs : req[p].sid = session => At(p, "watch") \/ At(p, "exec"))
    => [sid |-> session, rid |-> refresh[session]] \in tokens

\* A socket in the table that was let in by a session which is no longer valid
\* is about to be kicked, unless it registered after the kick
\* (RegisterConnection does not ask again) or no kick comes: a failed login, expiry.
SocketsFollowSession ==
    \A w \in Sockets :
        conn[w] = "on" /\ via[w] # session /\ w \notin missed
        => \E p \in Procs : req[p].stage \in {"remember", "login", "sweep", "evict"}

\* The valid session was opened with the present password, or the change is
\* still on its way to remove it, except for a login that checked the old
\* password and stored its session after the removal, and for a change that failed.
SessionFollowsPassword ==
    session # 0 /\ openedWith[session] # password /\ session \notin escaped
    => \E p \in Procs : At(p, "delete")

\* A session that was replaced, removed or has expired never becomes valid
\* again: no handler that still works for it puts it back.
NeverRevived ==
    [][session' # session => session' = 0 \/ session' > lastSid]_sessionVars
=============================================================================
