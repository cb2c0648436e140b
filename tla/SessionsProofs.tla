--------------------------- MODULE SessionsProofs ---------------------------
(***************************************************************************)
(* Proofs about Sessions.tla.  IInv, below, is inductive: it adds to the    *)
(* properties                                                               *)
(*   Known        what a request holds was stored or handed out,            *)
(*   Fresh        no pair of a session is out before its login returns,     *)
(*   Chain        a redeemed refresh id is stored nowhere, and EXEC can     *)
(*                succeed only while the key holds what was compared,       *)
(*   Refreshable  of every session, the pair that Redis would redeem is     *)
(*                out, or a request brings it, or something was lost,       *)
(*   Awaited      a login with another password is followed by a removal,   *)
(*   Followed     and a socket of another session by a kick.                *)
(* The first lemmas say what each handler does to the requests: its own     *)
(* moves, the others are at most marked as overtaken (OthersKept).          *)
(***************************************************************************)
EXTENDS Sessions, TLAPS

ReqOK(r) == r.stage \in {"remember", "login", "watch", "exec", "extend"} => r.sid \in Sids

StateType ==
    /\ session \in 0..MaxSession /\ refresh \in [Sids -> 0..MaxRefresh]
    /\ password \in 1..MaxPassword /\ exists \in BOOLEAN
    /\ tokens \subseteq PairType
    /\ conn \in [Sockets -> {"off", "upgrading", "on"}] /\ via \in [Sockets -> 0..MaxSession]
    /\ lastSid \in 0..MaxSession /\ lastRid \in 0..MaxRefresh
    /\ openedWith \in [Sids -> 0..MaxPassword]
    /\ redeemed \subseteq [old : 1..MaxRefresh, new : 1..MaxRefresh]
    /\ escaped \subseteq Sids /\ cutOff \subseteq Sids /\ missed \subseteq Sockets

ReqType == req \in [Procs -> RequestType] /\ \A p \in Procs : ReqOK(req[p])

LEMMA TypesSplit == TypeOK <=> StateType /\ ReqType /\ failures \in 0..MaxFailures
  BY DEF TypeOK, StateType, ReqType, ReqOK

LEMMA IdleFits == Idle \in RequestType /\ Idle.stage = "idle" /\ Idle.sid = 0 /\ ~Idle.overtaken /\ Idle.pw = 0
  BY SessionBounds DEF Idle, RequestType, Stages

LEMMA Moved ==
    ASSUME ReqType, NEW p \in Procs, NEW r \in RequestType, req' = [req EXCEPT ![p] = r]
    PROVE  req' \in [Procs -> RequestType] /\ \A q \in Procs : req'[q] = IF q = p THEN r ELSE req[q]
  BY DEF ReqType

LEMMA StageMoved ==
    ASSUME ReqType, NEW p \in Procs, NEW s \in Stages, Go(p, s)
    PROVE  /\ req' \in [Procs -> RequestType]
           /\ \A q \in Procs \ {p} : req'[q] = req[q]
           /\ req'[p].stage = s /\ req'[p].sid = req[p].sid /\ req'[p].old = req[p].old
           /\ req'[p].new = req[p].new /\ req'[p].pw = req[p].pw
           /\ req'[p].overtaken = req[p].overtaken
  <1> DEFINE r == [req[p] EXCEPT !.stage = s]
  <1>1. r \in RequestType /\ req' = [req EXCEPT ![p] = r]
    BY DEF ReqType, RequestType, Go
  <1>2. r.stage = s /\ r.sid = req[p].sid /\ r.old = req[p].old /\ r.new = req[p].new /\ r.pw = req[p].pw
        /\ r.overtaken = req[p].overtaken
    BY DEF ReqType, RequestType
  <1> HIDE DEF r
  <1> QED
    BY <1>1, <1>2, Moved

LEMMA Disturbed ==
    ASSUME ReqType, NEW ks
    PROVE  /\ Disturb(req, ks) \in [Procs -> RequestType]
           /\ \A q \in Procs :
                /\ Disturb(req, ks)[q].stage = req[q].stage
                /\ Disturb(req, ks)[q].sid = req[q].sid
                /\ Disturb(req, ks)[q].old = req[q].old
                /\ Disturb(req, ks)[q].new = req[q].new
                /\ Disturb(req, ks)[q].pw = req[q].pw
                /\ Disturb(req, ks)[q].overtaken
                      = (req[q].overtaken \/ (req[q].stage = "exec" /\ req[q].sid \in ks))
  <1> DEFINE late(q) == req[q].overtaken \/ (req[q].stage = "exec" /\ req[q].sid \in ks)
             r(q) == [req[q] EXCEPT !.overtaken = late(q)]
  <1>1. \A q \in Procs : late(q) \in BOOLEAN /\ req[q] \in RequestType
    BY DEF ReqType
  <1>2. Disturb(req, ks) = [q \in Procs |-> r(q)]
    BY Zenon DEF Disturb
  <1> HIDE DEF late
  <1>3. \A q \in Procs : r(q) \in RequestType
    BY <1>1 DEF RequestType
  <1>4. \A q \in Procs : r(q).stage = req[q].stage /\ r(q).sid = req[q].sid /\ r(q).old = req[q].old
           /\ r(q).new = req[q].new /\ r(q).pw = req[q].pw /\ r(q).overtaken = late(q)
    BY <1>1 DEF RequestType
  <1> HIDE DEF r
  <1>5. Disturb(req, ks) \in [Procs -> RequestType] /\ \A q \in Procs : Disturb(req, ks)[q] = r(q)
    BY <1>2, <1>3
  <1> QED
    BY <1>4, <1>5 DEF late

LEMMA Passed ==
    ASSUME ReqType, NEW pw
    PROVE  /\ PassLogins(pw) \in [Procs -> RequestType]
           /\ \A q \in Procs :
                /\ PassLogins(pw)[q].stage = req[q].stage
                /\ PassLogins(pw)[q].sid = req[q].sid
                /\ PassLogins(pw)[q].old = req[q].old
                /\ PassLogins(pw)[q].new = req[q].new
                /\ PassLogins(pw)[q].pw = req[q].pw
                /\ PassLogins(pw)[q].overtaken
                      = (req[q].overtaken \/ (req[q].stage = "store" /\ req[q].pw # pw))
  <1> DEFINE late(q) == req[q].overtaken \/ (At(q, "store") /\ req[q].pw # pw)
             r(q) == [req[q] EXCEPT !.overtaken = late(q)]
  <1>1. \A q \in Procs : late(q) \in BOOLEAN /\ req[q] \in RequestType
    BY DEF ReqType
  <1>2. PassLogins(pw) = [q \in Procs |-> r(q)]
    BY Zenon DEF PassLogins
  <1> HIDE DEF late
  <1>3. \A q \in Procs : r(q) \in RequestType
    BY <1>1 DEF RequestType
  <1>4. \A q \in Procs : r(q).stage = req[q].stage /\ r(q).sid = req[q].sid /\ r(q).old = req[q].old
           /\ r(q).new = req[q].new /\ r(q).pw = req[q].pw /\ r(q).overtaken = late(q)
    BY <1>1 DEF RequestType
  <1> HIDE DEF r
  <1>5. PassLogins(pw) \in [Procs -> RequestType] /\ \A q \in Procs : PassLogins(pw)[q] = r(q)
    BY <1>2, <1>3
  <1> QED
    BY <1>4, <1>5 DEF late, At

Kept(q) ==
    /\ req'[q].stage = req[q].stage /\ req'[q].sid = req[q].sid
    /\ req'[q].old = req[q].old /\ req'[q].new = req[q].new /\ req'[q].pw = req[q].pw
    /\ req[q].overtaken => req'[q].overtaken

OthersKept(p) == req' \in [Procs -> RequestType] /\ \A q \in Procs \ {p} : Kept(q)

LEMMA Ends ==
    ASSUME ReqType, NEW p \in Procs, Done(p)
    PROVE  OthersKept(p) /\ req'[p] = Idle
  BY Moved, IdleFits DEF OthersKept, Kept, Done

LEMMA Goes ==
    ASSUME ReqType, NEW p \in Procs, NEW s \in Stages, Go(p, s)
    PROVE  /\ OthersKept(p)
           /\ req'[p].stage = s /\ req'[p].sid = req[p].sid /\ req'[p].old = req[p].old
           /\ req'[p].overtaken = req[p].overtaken
  <1>1. \A q \in Procs \ {p} : req'[q] = req[q]
    BY StageMoved
  <1>2. \A q \in Procs \ {p} : Kept(q)
    BY <1>1 DEF Kept
  <1> QED
    BY <1>2, StageMoved DEF OthersKept

\* A change of p on top of a change that only marks the requests as overtaken.
LEMMA Marks ==
    ASSUME ReqType, NEW p \in Procs, NEW marked \in [Procs -> RequestType],
           NEW r \in RequestType, req' = [marked EXCEPT ![p] = r],
           \A q \in Procs :
              /\ marked[q].stage = req[q].stage /\ marked[q].sid = req[q].sid
              /\ marked[q].old = req[q].old /\ marked[q].new = req[q].new
              /\ marked[q].pw = req[q].pw
              /\ req[q].overtaken => marked[q].overtaken
    PROVE  OthersKept(p) /\ req'[p] = r /\ \A q \in Procs \ {p} : req'[q] = marked[q]
  <1>1. req' \in [Procs -> RequestType] /\ \A q \in Procs : req'[q] = IF q = p THEN r ELSE marked[q]
    OBVIOUS
  <1>2. \A q \in Procs \ {p} : Kept(q)
    BY <1>1 DEF Kept
  <1> QED
    BY <1>1, <1>2 DEF OthersKept

----------------------------------------------------------------------------
LEMMA LoginEffect ==
    ASSUME ReqType, StateType, NEW p \in Procs, Login(p)
    PROVE  /\ OthersKept(p) /\ At(p, "idle")
           /\ req'[p].stage = "store" /\ req'[p].pw = password /\ ~req'[p].overtaken /\ req'[p].sid = 0
  <1> DEFINE r == [Idle EXCEPT !.stage = "store", !.pw = password]
  <1>1. r \in RequestType /\ r.stage = "store" /\ r.pw = password /\ ~r.overtaken /\ r.sid = 0
    <2>1. password \in 0..MaxPassword /\ "store" \in Stages
      BY SessionBounds DEF StateType, Stages
    <2> QED
      BY <2>1, IdleFits DEF RequestType
  <1>2. req' = [req EXCEPT ![p] = r] /\ At(p, "idle")
    BY DEF Login, Start
  <1> HIDE DEF r
  <1> QED
    BY <1>1, <1>2, Moved DEF OthersKept, Kept

LEMMA RefreshTokenEffect ==
    ASSUME ReqType, StateType, NEW p \in Procs, NEW t \in tokens, RefreshToken(p, t)
    PROVE  /\ OthersKept(p) /\ At(p, "idle")
           /\ req'[p].stage = "watch" /\ req'[p].sid = t.sid /\ req'[p].old = t.rid
  <1> DEFINE r == [Idle EXCEPT !.stage = "watch", !.sid = t.sid, !.old = t.rid]
  <1>1. r \in RequestType /\ r.stage = "watch" /\ r.sid = t.sid /\ r.old = t.rid
    <2>1. t.sid \in 0..MaxSession /\ t.rid \in 0..MaxRefresh /\ "watch" \in Stages
      BY SessionBounds DEF StateType, PairType, Sids, Stages
    <2> QED
      BY <2>1, IdleFits DEF RequestType
  <1>2. req' = [req EXCEPT ![p] = r] /\ At(p, "idle")
    BY DEF RefreshToken, Start
  <1> HIDE DEF r
  <1> QED
    BY <1>1, <1>2, Moved DEF OthersKept, Kept

LEMMA UpdatePasswordEffect ==
    ASSUME ReqType, NEW p \in Procs, UpdatePassword(p)
    PROVE  OthersKept(p) /\ At(p, "idle") /\ req'[p].stage = "update"
  <1> DEFINE r == [Idle EXCEPT !.stage = "update"]
  <1>1. r \in RequestType /\ r.stage = "update"
    <2>1. "update" \in Stages
      BY DEF Stages
    <2> QED
      BY <2>1, IdleFits DEF RequestType
  <1>2. req' = [req EXCEPT ![p] = r] /\ At(p, "idle")
    BY DEF UpdatePassword, Start
  <1> HIDE DEF r
  <1> QED
    BY <1>1, <1>2, Moved DEF OthersKept, Kept

LEMMA SetUserSessionEffect ==
    ASSUME ReqType, StateType, NEW p \in Procs, SetUserSession(p)
    PROVE  OthersKept(p) /\ req'[p].stage = "remember" /\ req'[p].sid = lastSid + 1
  <1> DEFINE r == [req[p] EXCEPT !.stage = "remember", !.sid = lastSid + 1]
  <1>1. lastSid + 1 \in 0..MaxSession /\ req[p] \in RequestType
    BY SessionBounds DEF SetUserSession, StoreSession, StateType, ReqType
  <1>2. r \in RequestType /\ r.stage = "remember" /\ r.sid = lastSid + 1
    BY <1>1 DEF RequestType, Stages
  <1>3. req' = [req EXCEPT ![p] = r]
    BY DEF SetUserSession
  <1> HIDE DEF r
  <1> QED
    BY <1>2, <1>3, Moved DEF OthersKept, Kept

LEMMA SetRefreshTokenIDEffect ==
    ASSUME ReqType, StateType, NEW p \in Procs, SetRefreshTokenID(p)
    PROVE  /\ OthersKept(p) /\ req'[p].stage = "login" /\ req'[p].sid = req[p].sid
           /\ req'[p].new = lastRid + 1
  <1> DEFINE r == [req[p] EXCEPT !.stage = "login", !.new = lastRid + 1]
  <1>1. lastRid + 1 \in 0..MaxRefresh /\ req[p] \in RequestType
    BY SessionBounds DEF SetRefreshTokenID, StoreRefresh, StateType, ReqType
  <1>2. r \in RequestType /\ r.stage = "login" /\ r.sid = req[p].sid /\ r.new = lastRid + 1
    BY <1>1 DEF RequestType, Stages
  <1>3. req' = [req EXCEPT ![p] = r]
    BY DEF SetRefreshTokenID
  <1> HIDE DEF r
  <1> QED
    BY <1>2, <1>3, Moved DEF OthersKept, Kept

\* An exchange of the refresh id of p's session overtakes all others of it.
LEMMA RotateEffect ==
    ASSUME ReqType, StateType, NEW p \in Procs, Rotate(p), req[p].sid \in Sids,
           \/ req' = [Disturb(req, {req[p].sid}) EXCEPT ![p].stage = "extend", ![p].new = lastRid + 1]
           \/ req' = [Disturb(req, {req[p].sid}) EXCEPT ![p] = Idle]
    PROVE  /\ OthersKept(p)
           /\ \A q \in Procs \ {p} :
                 req[q].stage = "exec" /\ req[q].sid = req[p].sid => req'[q].overtaken
           /\ \/ req'[p].stage = "extend" /\ req'[p].sid = req[p].sid /\ req'[p].new = lastRid + 1
              \/ req'[p] = Idle
           /\ req' = [Disturb(req, {req[p].sid}) EXCEPT ![p].stage = "extend", ![p].new = lastRid + 1]
                 => req'[p].stage = "extend"
  <1> DEFINE D == Disturb(req, {req[p].sid})
             r == [D[p] EXCEPT !.stage = "extend", !.new = lastRid + 1]
  <1>1. lastRid + 1 \in 0..MaxRefresh
    BY SessionBounds DEF Rotate, StateType
  <1>2. D \in [Procs -> RequestType] /\ \A q \in Procs :
              /\ D[q].stage = req[q].stage /\ D[q].sid = req[q].sid
              /\ D[q].old = req[q].old /\ D[q].new = req[q].new /\ D[q].pw = req[q].pw
              /\ D[q].overtaken = (req[q].overtaken \/ (req[q].stage = "exec" /\ req[q].sid \in {req[p].sid}))
    BY Disturbed
  <1> HIDE DEF D
  <1>3. r \in RequestType /\ r.stage = "extend" /\ r.sid = req[p].sid /\ r.new = lastRid + 1
    BY <1>1, <1>2 DEF RequestType, Stages
  <1>4. req' = [D EXCEPT ![p] = r] \/ req' = [D EXCEPT ![p] = Idle]
    BY DEF D
  <1> HIDE DEF r
  <1>5. OthersKept(p) /\ (req'[p] = r \/ req'[p] = Idle) /\ \A q \in Procs \ {p} : req'[q] = D[q]
    <2>1. CASE req' = [D EXCEPT ![p] = r]
      BY <1>2, <1>3, <2>1, Marks
    <2>2. CASE req' = [D EXCEPT ![p] = Idle]
      BY <1>2, <2>2, IdleFits, Marks
    <2> QED
      BY <1>4, <2>1, <2>2
  <1>6. req' = [D EXCEPT ![p].stage = "extend", ![p].new = lastRid + 1] => req' = [D EXCEPT ![p] = r]
    BY DEF r
  <1>7. req' = [D EXCEPT ![p] = r] => req'[p] = r
    BY <1>2
  <1> QED
    BY <1>2, <1>3, <1>5, <1>6, <1>7 DEF D

LEMMA FailEffect ==
    ASSUME ReqType, NEW p \in Procs, NEW ks, req' = [Disturb(req, ks) EXCEPT ![p] = Idle]
    PROVE  OthersKept(p) /\ req'[p] = Idle
  <1> DEFINE D == Disturb(req, ks)
  <1>1. D \in [Procs -> RequestType] /\ \A q \in Procs :
              /\ D[q].stage = req[q].stage /\ D[q].sid = req[q].sid
              /\ D[q].old = req[q].old /\ D[q].new = req[q].new /\ D[q].pw = req[q].pw
              /\ D[q].overtaken = (req[q].overtaken \/ (req[q].stage = "exec" /\ req[q].sid \in ks))
    BY Disturbed
  <1> HIDE DEF D
  <1>2. req' = [D EXCEPT ![p] = Idle]
    BY DEF D
  <1> QED
    BY <1>1, <1>2, IdleFits, Marks

LEMMA StorePasswordFailsEffect ==
    ASSUME ReqType, NEW p \in Procs, StorePasswordFails(p)
    PROVE  /\ OthersKept(p) /\ req'[p] = Idle
           /\ \A q \in Procs \ {p} :
                 req[q].stage = "store" /\ req[q].pw # password' => req'[q].overtaken
  <1> DEFINE D == PassLogins(password + 1)
  <1>1. D \in [Procs -> RequestType] /\ \A q \in Procs :
              /\ D[q].stage = req[q].stage /\ D[q].sid = req[q].sid
              /\ D[q].old = req[q].old /\ D[q].new = req[q].new /\ D[q].pw = req[q].pw
              /\ D[q].overtaken = (req[q].overtaken \/ (req[q].stage = "store" /\ req[q].pw # password + 1))
    BY Passed
  <1>2. req' = [D EXCEPT ![p] = Idle] /\ password' = password + 1
    BY DEF StorePasswordFails
  <1> HIDE DEF D
  <1>3. OthersKept(p) /\ req'[p] = Idle /\ \A q \in Procs \ {p} : req'[q] = D[q]
    BY <1>1, <1>2, IdleFits, Marks
  <1> QED
    BY <1>1, <1>2, <1>3

\* Both ways in which a change of password leaves "delete".
LEMMA DeleteEffect ==
    ASSUME ReqType, NEW p \in Procs, NEW s \in Stages,
           req' = [PassLogins(password) EXCEPT ![p].stage = s]
    PROVE  /\ OthersKept(p) /\ req'[p].stage = s /\ req'[p].sid = req[p].sid
           /\ \A q \in Procs \ {p} :
                 req[q].stage = "store" /\ req[q].pw # password => req'[q].overtaken
  <1> DEFINE D == PassLogins(password)
             r == [D[p] EXCEPT !.stage = s]
  <1>1. D \in [Procs -> RequestType] /\ \A q \in Procs :
              /\ D[q].stage = req[q].stage /\ D[q].sid = req[q].sid
              /\ D[q].old = req[q].old /\ D[q].new = req[q].new /\ D[q].pw = req[q].pw
              /\ D[q].overtaken = (req[q].overtaken \/ (req[q].stage = "store" /\ req[q].pw # password))
    BY Passed
  <1> HIDE DEF D
  <1>2. r \in RequestType /\ r.stage = s /\ r.sid = req[p].sid
    BY <1>1 DEF RequestType
  <1>3. req' = [D EXCEPT ![p] = r]
    BY DEF D
  <1> HIDE DEF r
  <1>4. OthersKept(p) /\ req'[p] = r /\ \A q \in Procs \ {p} : req'[q] = D[q]
    BY <1>1, <1>2, <1>3, Marks
  <1> QED
    BY <1>1, <1>2, <1>4

LEMMA SweepEffect ==
    ASSUME ReqType, NEW p \in Procs, SweepRefreshKeys(p)
    PROVE  /\ OthersKept(p) /\ req'[p].stage = "evict" /\ req'[p].sid = req[p].sid
           /\ \A q \in Procs \ {p} : req[q].stage = "exec" => req'[q].overtaken
  <1> DEFINE D == Disturb(req, Sids)
             r == [D[p] EXCEPT !.stage = "evict"]
  <1>1. D \in [Procs -> RequestType] /\ \A q \in Procs :
              /\ D[q].stage = req[q].stage /\ D[q].sid = req[q].sid
              /\ D[q].old = req[q].old /\ D[q].new = req[q].new /\ D[q].pw = req[q].pw
              /\ D[q].overtaken = (req[q].overtaken \/ (req[q].stage = "exec" /\ req[q].sid \in Sids))
    BY Disturbed
  <1> HIDE DEF D
  <1>2. r \in RequestType /\ r.stage = "evict" /\ r.sid = req[p].sid
    BY <1>1 DEF RequestType, Stages
  <1>3. req' = [D EXCEPT ![p] = r]
    BY DEF D, SweepRefreshKeys
  <1> HIDE DEF r
  <1>4. OthersKept(p) /\ req'[p] = r /\ \A q \in Procs \ {p} : req'[q] = D[q]
    BY <1>1, <1>2, <1>3, Marks
  <1> QED
    BY <1>1, <1>2, <1>4 DEF ReqType, ReqOK

LEMMA ExpiresEffect ==
    ASSUME ReqType, NEW s \in Sids, RefreshExpires(s)
    PROVE  /\ req' \in [Procs -> RequestType] /\ \A q \in Procs : Kept(q)
           /\ \A q \in Procs : req[q].stage = "exec" /\ req[q].sid = s => req'[q].overtaken
  <1> DEFINE D == Disturb(req, {s})
  <1>1. D \in [Procs -> RequestType] /\ \A q \in Procs :
              /\ D[q].stage = req[q].stage /\ D[q].sid = req[q].sid
              /\ D[q].old = req[q].old /\ D[q].new = req[q].new /\ D[q].pw = req[q].pw
              /\ D[q].overtaken = (req[q].overtaken \/ (req[q].stage = "exec" /\ req[q].sid \in {s}))
    BY Disturbed
  <1>2. req' = D
    BY DEF RefreshExpires
  <1> HIDE DEF D
  <1> QED
    BY <1>1, <1>2 DEF Kept

LEMMA HaltEffect ==
    ASSUME Halt
    PROVE  req' \in [Procs -> RequestType] /\ \A q \in Procs : req'[q] = Idle
  BY IdleFits DEF Halt

----------------------------------------------------------------------------
\* What requests and stored ids know of each other: a request that watches
\* a refresh key was started with a pair that was handed out.
Known ==
    /\ session \in 0..lastSid
    /\ \A s \in Sids : refresh[s] \in 0..lastRid
    /\ \A x \in redeemed : x.old \in 1..lastRid
    /\ \A t \in tokens : t.rid \in 1..lastRid
    /\ \A p \in Procs : req[p].stage \in {"watch", "exec"} =>
          [sid |-> req[p].sid, rid |-> req[p].old] \in tokens
    /\ \A p \in Procs : req[p].stage \in {"login", "extend"} => req[p].new \in 1..lastRid

\* A session whose login has not returned belongs to that login alone.
Fresh ==
    /\ \A t \in tokens : t.sid <= lastSid
    /\ \A p \in Procs : req[p].stage \in {"watch", "exec", "extend"} =>
          \E t \in tokens : t.sid = req[p].sid
    /\ \A p \in Procs : req[p].stage \in {"remember", "login"} =>
          req[p].sid <= lastSid /\ \A t \in tokens : t.sid # req[p].sid
    /\ \A p, q \in Procs : p # q /\ req[p].stage \in {"remember", "login"}
                                 /\ req[q].stage \in {"remember", "login"} => req[p].sid # req[q].sid

\* A redeemed id is stored nowhere, no id is stored twice, and EXEC would
\* succeed only while the key holds what was compared.
Chain ==
    /\ \A x \in redeemed, s \in Sids : refresh[s] # x.old
    /\ \A s, t \in Sids : refresh[s] = refresh[t] /\ refresh[s] # 0 => s = t
    /\ \A p \in Procs : req[p].stage = "exec" /\ ~req[p].overtaken => refresh[req[p].sid] = req[p].old

\* The request p is going to hand out the pair that Redis would redeem.
Brings(p, s) ==
    /\ req[p].sid = s
    /\ \/ req[p].stage = "remember"
       \/ req[p].stage \in {"login", "extend"} /\ req[p].new = refresh[s]

Refreshable ==
    \A s \in 1..lastSid :
        \/ s \in cutOff
        \/ [sid |-> s, rid |-> refresh[s]] \in tokens
        \/ \E p \in Procs : Brings(p, s)

\* A login that has checked another password meets a change that is not over.
Awaited ==
    /\ \A p \in Procs : req[p].stage = "store" /\ req[p].pw # password /\ ~req[p].overtaken =>
          \E q \in Procs : req[q].stage = "delete"
    /\ SessionFollowsPassword

\* A socket of another session will be kicked, also one that has not registered.
Kicking == \E p \in Procs : req[p].stage \in {"remember", "login", "sweep", "evict"}
Followed ==
    \A w \in Sockets : conn[w] # "off" /\ via[w] # session /\ w \notin missed => Kicking

IInv == TypeOK /\ Known /\ Fresh /\ Chain /\ RefreshRedeemedOnce /\ Refreshable /\ Awaited /\ Followed

LEMMA Fits ==
    ASSUME ReqType, NEW p \in Procs, OthersKept(p), ReqOK(req[p])'
    PROVE  ReqType'
  BY DEF ReqType, OthersKept, Kept, ReqOK

LEMMA TypesKept ==
    ASSUME StateType, ReqType, Known, [Next]_sessionVars
    PROVE  StateType' /\ ReqType'
  <1>1. CASE UNCHANGED sessionVars
    BY <1>1 DEF sessionVars, redis, database, sockets, ids, history, StateType, ReqType, ReqOK
  <1>2. ASSUME NEW p \in Procs, Login(p) PROVE StateType' /\ ReqType'
    BY <1>2, LoginEffect, Fits DEF Login, redis, database, sockets, ids, history, StateType, ReqOK
  <1>3. ASSUME NEW p \in Procs, NEW t \in tokens, RefreshToken(p, t) PROVE StateType' /\ ReqType'
    <2>1. t.sid \in Sids
      BY DEF StateType, PairType
    <2> QED
      BY <1>3, <2>1, RefreshTokenEffect, Fits
      DEF RefreshToken, redis, database, sockets, ids, history, StateType, ReqOK
  <1>4. ASSUME NEW p \in Procs, UpdatePassword(p) PROVE StateType' /\ ReqType'
    BY <1>4, UpdatePasswordEffect, Fits
    DEF UpdatePassword, redis, database, sockets, ids, history, StateType, ReqOK
  <1>5. ASSUME NEW p, StoreSession(p), req[p].pw \in 0..MaxPassword
        PROVE  /\ lastSid + 1 \in Sids
               /\ (cutOff' \subseteq Sids /\ missed' \subseteq Sockets => StateType')
    BY <1>5, SessionBounds DEF StoreSession, Sids, database, sockets, StateType
  <1>6. ASSUME NEW p, StoreRefresh(p)
        PROVE  cutOff' \subseteq Sids /\ missed' \subseteq Sockets => StateType'
    <2>1. lastRid + 1 \in 0..MaxRefresh
      BY <1>6, SessionBounds DEF StoreRefresh, StateType
    <2>2. refresh' \in [Sids -> 0..MaxRefresh]
      BY <1>6, <2>1 DEF StoreRefresh, StateType
    <2> QED
      BY <1>6, <2>1, <2>2 DEF StoreRefresh, database, sockets, StateType
  <1>7. ASSUME NEW p \in Procs, SetUserSession(p) PROVE StateType' /\ ReqType'
    <2>1. req[p].pw \in 0..MaxPassword
      BY DEF ReqType, RequestType
    <2>2. lastSid + 1 \in Sids /\ StateType'
      BY <1>5, <1>7, <2>1 DEF SetUserSession, StateType
    <2> QED
      BY <1>7, <2>2, SetUserSessionEffect, Fits DEF ReqOK
  <1>8. ASSUME NEW p \in Procs, SetRefreshTokenID(p) PROVE StateType' /\ ReqType'
    <2>1. req[p].sid \in Sids
      BY <1>8 DEF SetRefreshTokenID, At, ReqType, ReqOK
    <2>2. StateType'
      BY <1>6, <1>8 DEF SetRefreshTokenID, StateType
    <2> QED
      BY <1>8, <2>1, <2>2, SetRefreshTokenIDEffect, Fits DEF ReqOK
  <1>9. ASSUME NEW p \in Procs, Done(p) PROVE ReqType'
    BY <1>9, Ends, Fits, IdleFits DEF ReqOK
  <1>10. ASSUME NEW p \in Procs, LoginFails(p) PROVE StateType' /\ ReqType'
    <2> SUFFICES StateType'
      BY <1>9, <1>10 DEF LoginFails
    <2>1. missed' \subseteq Sockets
      BY <1>10 DEF LoginFails, StateType
    <2>2. req[p].pw \in 0..MaxPassword
      BY DEF ReqType, RequestType
    <2>3. CASE At(p, "store") /\ StoreSession(p) /\ cutOff' = cutOff \cup {lastSid + 1}
      BY <1>5, <2>1, <2>2, <2>3 DEF StateType
    <2>4. CASE UNCHANGED <<redis, database, tokens, sockets, ids, openedWith, redeemed, escaped, cutOff>>
      BY <2>1, <2>4 DEF redis, database, sockets, ids, StateType
    <2>5. CASE At(p, "remember") /\ cutOff' = cutOff \cup {req[p].sid}
      <3>1. cutOff' \subseteq Sids
        BY <2>5 DEF StateType, At, ReqType, ReqOK
      <3>2. CASE StoreRefresh(p)
        BY <1>6, <2>1, <3>1, <3>2
      <3>3. CASE UNCHANGED <<redis, database, tokens, sockets, ids, openedWith, redeemed, escaped>>
        BY <2>1, <3>1, <3>3 DEF redis, database, sockets, ids, StateType
      <3> QED
        BY <1>10, <2>5, <3>2, <3>3 DEF LoginFails, At
    <2> QED
      BY <1>10, <2>3, <2>4, <2>5 DEF LoginFails
  <1>11. ASSUME NEW p, KickUserConnections(p)
         PROVE  /\ conn' \in [Sockets -> {"off", "upgrading", "on"}]
                /\ via' \in [Sockets -> 0..MaxSession] /\ missed' \subseteq Sockets
    <2>1. conn' \in [Sockets -> {"off", "upgrading", "on"}]
      BY <1>11 DEF KickUserConnections, StateType
    <2>2. 0 \in 0..MaxSession /\ via \in [Sockets -> 0..MaxSession]
      BY SessionBounds DEF StateType
    <2>3. via' \in [Sockets -> 0..MaxSession]
      BY <1>11, <2>2 DEF KickUserConnections
    <2> QED
      BY <1>11, <2>1, <2>3 DEF KickUserConnections
  <1>15. ASSUME NEW p \in Procs, req[p].stage \in {"login", "extend"}
         PROVE  [sid |-> req[p].sid, rid |-> req[p].new] \in PairType
    <2>1. req[p].sid \in Sids /\ req[p].new \in 1..lastRid /\ lastRid \in 0..MaxRefresh
      BY <1>15 DEF ReqType, ReqOK, Known, StateType
    <2>2. req[p].new \in 1..MaxRefresh
      BY <2>1, SessionBounds
    <2> QED
      BY <2>1, <2>2 DEF PairType
  <1>12. ASSUME NEW p \in Procs, LoginReturns(p) PROVE StateType' /\ ReqType'
    <2>1. req[p].sid \in Sids
      BY <1>12 DEF LoginReturns, At, ReqType, ReqOK
    <2>2. tokens' \subseteq PairType
      BY <1>12, <1>15, <2>1 DEF LoginReturns, At, StateType
    <2>3. /\ conn' \in [Sockets -> {"off", "upgrading", "on"}]
          /\ via' \in [Sockets -> 0..MaxSession] /\ missed' \subseteq Sockets
      BY <1>11, <1>12 DEF LoginReturns
    <2>4. StateType'
      BY <1>12, <2>2, <2>3 DEF LoginReturns, redis, database, ids, StateType
    <2> QED
      BY <1>9, <1>12, <2>4 DEF LoginReturns
  <1>13. ASSUME NEW p \in Procs, CompareRefresh(p) PROVE StateType' /\ ReqType'
    <2>1. StateType'
      BY <1>13 DEF CompareRefresh, redis, database, sockets, ids, history, StateType
    <2>2. req[p].sid \in Sids
      BY <1>13 DEF CompareRefresh, At, ReqType, ReqOK
    <2>3. CASE Go(p, "exec")
      BY <2>1, <2>2, <2>3, Goes, Fits DEF Stages, ReqOK
    <2> QED
      BY <1>9, <1>13, <2>1, <2>3 DEF CompareRefresh
  <1>14. ASSUME NEW p \in Procs, Rotate(p), req[p].sid \in Sids, req[p].old \in 1..MaxRefresh,
                cutOff' \subseteq Sids
         PROVE  StateType'
    <2>1. lastRid + 1 \in 1..MaxRefresh
      BY <1>14, SessionBounds DEF Rotate, StateType
    <2>2. refresh' \in [Sids -> 0..MaxRefresh]
      BY <1>14, <2>1 DEF Rotate, StateType
    <2>3. redeemed' \subseteq [old : 1..MaxRefresh, new : 1..MaxRefresh]
      BY <1>14, <2>1 DEF Rotate, StateType
    <2> QED
      BY <1>14, <2>1, <2>2, <2>3 DEF Rotate, database, sockets, StateType
  <1>16. ASSUME NEW p \in Procs, req[p].stage = "exec"
         PROVE  req[p].sid \in Sids /\ req[p].old \in 1..MaxRefresh
    BY <1>16 DEF Known, StateType, PairType
  <1>17. ASSUME NEW p \in Procs, RotateRefreshTokenID(p) PROVE StateType' /\ ReqType'
    <2>1. req[p].sid \in Sids /\ req[p].old \in 1..MaxRefresh /\ cutOff' \subseteq Sids
      BY <1>16, <1>17 DEF RotateRefreshTokenID, At, StateType
    <2>2. CASE Rotate(p) /\ req' = [Disturb(req, {req[p].sid})
                                     EXCEPT ![p].stage = "extend", ![p].new = lastRid + 1]
      <3>1. StateType'
        BY <1>14, <2>1, <2>2
      <3>2. OthersKept(p) /\ ReqOK(req[p])'
        BY <2>1, <2>2, RotateEffect, IdleFits DEF ReqOK
      <3> QED
        BY <3>1, <3>2, Fits
    <2>3. CASE Done(p) /\ UNCHANGED <<redis, database, tokens, sockets, ids, openedWith, redeemed, escaped, missed>>
      <3>1. StateType'
        BY <2>1, <2>3 DEF redis, database, sockets, ids, StateType
      <3> QED
        BY <1>9, <2>3, <3>1
    <2> QED
      BY <1>17, <2>2, <2>3 DEF RotateRefreshTokenID
  <1>18. ASSUME NEW p \in Procs, ExpireUserSession(p) PROVE StateType' /\ ReqType'
    <2>1. tokens' \subseteq PairType
      BY <1>15, <1>18 DEF ExpireUserSession, At, StateType
    <2>2. StateType'
      BY <1>18, <2>1 DEF ExpireUserSession, redis, database, sockets, ids, history, StateType
    <2> QED
      BY <1>9, <1>18, <2>2 DEF ExpireUserSession
  <1>19. ASSUME NEW p \in Procs, RefreshRefused(p) PROVE StateType' /\ ReqType'
    BY <1>9, <1>19 DEF RefreshRefused, redis, database, sockets, ids, history, StateType
  <1>20. ASSUME NEW p \in Procs, RefreshFails(p) PROVE StateType' /\ ReqType'
    <2>1. req[p].sid \in Sids /\ cutOff' \subseteq Sids
      BY <1>20 DEF RefreshFails, At, StateType, ReqType, ReqOK
    <2>2. StateType'
      <3>1. CASE At(p, "exec") /\ Rotate(p)
        BY <1>14, <1>16, <2>1, <3>1 DEF At
      <3>2. CASE UNCHANGED <<redis, database, tokens, sockets, ids, openedWith, redeemed, escaped, missed>>
        BY <2>1, <3>2 DEF redis, database, sockets, ids, StateType
      <3> QED
        BY <1>20, <3>1, <3>2 DEF RefreshFails
    <2>3. OthersKept(p) /\ req'[p] = Idle
      BY <1>20, FailEffect DEF RefreshFails
    <2> QED
      BY <2>2, <2>3, Fits, IdleFits DEF ReqOK
  <1>21. ASSUME NEW p \in Procs, StorePassword(p) PROVE StateType' /\ ReqType'
    <2>1. StateType'
      BY <1>21, SessionBounds DEF StorePassword, redis, sockets, ids, history, StateType
    <2>2. CASE Go(p, "delete")
      BY <2>1, <2>2, Goes, Fits DEF Stages, ReqOK
    <2> QED
      BY <1>9, <1>21, <2>1, <2>2 DEF StorePassword
  <1>22. ASSUME NEW p \in Procs, StorePasswordFails(p) PROVE StateType' /\ ReqType'
    <2>1. session # 0 => session \in Sids
      BY SessionBounds DEF StateType, Sids
    <2>2. escaped' \subseteq Sids
      BY <1>22, <2>1 DEF StorePasswordFails, StateType
    <2>3. StateType'
      BY <1>22, <2>2, SessionBounds DEF StorePasswordFails, redis, sockets, ids, StateType
    <2> QED
      BY <1>22, <2>3, StorePasswordFailsEffect, Fits, IdleFits DEF ReqOK
  <1>23. ASSUME NEW p \in Procs, DelUserSession(p) PROVE StateType' /\ ReqType'
    <2>1. StateType'
      BY <1>23, SessionBounds DEF DelUserSession, database, sockets, ids, history, StateType
    <2>2. OthersKept(p) /\ req'[p].stage = "sweep"
      BY <1>23, DeleteEffect DEF DelUserSession, Stages
    <2> QED
      BY <2>1, <2>2, Fits DEF ReqOK
  <1>24. ASSUME NEW p \in Procs, DelUserSessionFails(p) PROVE StateType' /\ ReqType'
    <2>1. session # 0 => session \in Sids
      BY SessionBounds DEF StateType, Sids
    <2>2. StateType'
      BY <1>24, <2>1 DEF DelUserSessionFails, redis, database, sockets, ids, StateType
    <2>3. OthersKept(p) /\ req'[p].stage = "evict"
      BY <1>24, DeleteEffect, Goes DEF DelUserSessionFails, Stages
    <2> QED
      BY <2>2, <2>3, Fits DEF ReqOK
  <1>25. ASSUME NEW p \in Procs, SweepRefreshKeys(p) PROVE StateType' /\ ReqType'
    <2>1. StateType'
      BY <1>25, SessionBounds DEF SweepRefreshKeys, database, sockets, ids, StateType
    <2> QED
      BY <1>25, <2>1, SweepEffect, Fits DEF ReqOK
  <1>26. ASSUME NEW p \in Procs, UpdatePasswordReturns(p) PROVE StateType' /\ ReqType'
    <2>1. /\ conn' \in [Sockets -> {"off", "upgrading", "on"}]
          /\ via' \in [Sockets -> 0..MaxSession] /\ missed' \subseteq Sockets
      BY <1>11, <1>26 DEF UpdatePasswordReturns
    <2>2. StateType'
      BY <1>26, <2>1 DEF UpdatePasswordReturns, redis, database, ids, StateType
    <2> QED
      BY <1>9, <1>26, <2>2 DEF UpdatePasswordReturns
  <1>27. ASSUME UNCHANGED req PROVE ReqType'
    BY <1>27 DEF ReqType, ReqOK
  <1>28. CASE Delete
    BY <1>27, <1>28 DEF Delete, redis, sockets, ids, history, StateType
  <1>29. ASSUME NEW w \in Sockets, Listen(w) PROVE StateType' /\ ReqType'
    BY <1>27, <1>29, SessionBounds DEF Listen, Authenticate, RegisterConnection,
       UnregisterConnection, redis, database, ids, history, StateType
  <1>30. CASE SessionExpires
    BY <1>27, <1>30, SessionBounds DEF SessionExpires, database, sockets, ids, StateType
  <1>31. ASSUME NEW s \in Sids, RefreshExpires(s) PROVE StateType' /\ ReqType'
    <2>1. StateType'
      BY <1>31, SessionBounds DEF RefreshExpires, database, sockets, ids, StateType
    <2> QED
      BY <1>31, <2>1, ExpiresEffect DEF ReqType, ReqOK, Kept
  <1>32. CASE Halt
    <2>1. session # 0 => session \in Sids
      BY SessionBounds DEF StateType, Sids
    <2>2. {req[p].sid : p \in Procs} \ {0} \subseteq Sids
      BY SessionBounds DEF ReqType, RequestType, Sids
    <2>3. cutOff' \subseteq Sids /\ escaped' \subseteq Sids
      BY <1>32, <2>1, <2>2 DEF Halt, StateType
    <2>4. StateType'
      BY <1>32, <2>3, SessionBounds DEF Halt, redis, database, ids, StateType
    <2> QED
      BY <1>32, <2>4, HaltEffect, IdleFits DEF ReqType, ReqOK
  <1> QED
    BY <1>1, <1>2, <1>3, <1>4, <1>7, <1>8, <1>10, <1>12, <1>13, <1>17, <1>18, <1>19, <1>20, <1>21,
       <1>22, <1>23, <1>24, <1>25, <1>26, <1>28, <1>29, <1>30, <1>31, <1>32
    DEF Next, Arrive, Step, Return, Fault, Expire

----------------------------------------------------------------------------
KnownReq(r) ==
    /\ r.stage \in {"watch", "exec"} => [sid |-> r.sid, rid |-> r.old] \in tokens
    /\ r.stage \in {"login", "extend"} => r.new \in 1..lastRid

KnownIds ==
    /\ session \in 0..lastSid
    /\ \A s \in Sids : refresh[s] \in 0..lastRid
    /\ \A x \in redeemed : x.old \in 1..lastRid
    /\ \A t \in tokens : t.rid \in 1..lastRid

Typed == StateType /\ ReqType

LEMMA StaysKnown ==
    ASSUME Typed, Typed', Known, NEW p \in Procs, lastRid <= lastRid', tokens \subseteq tokens',
           KnownIds', \A q \in Procs \ {p} : Kept(q), KnownReq(req[p])'
    PROVE  Known'
  <1>1. ASSUME NEW q \in Procs \ {p} PROVE KnownReq(req[q])'
    <2>1. KnownReq(req[q])
      BY DEF Known, KnownReq
    <2>2. req[q].new \in 1..lastRid => req[q].new \in 1..lastRid'
      BY SessionBounds DEF Typed, StateType
    <2>3. req'[q].stage = req[q].stage /\ req'[q].sid = req[q].sid
          /\ req'[q].old = req[q].old /\ req'[q].new = req[q].new
      BY DEF Kept
    <2> QED
      BY <2>1, <2>2, <2>3 DEF KnownReq
  <1> QED
    BY <1>1 DEF Known, KnownReq, KnownIds

LEMMA KnownKept ==
    ASSUME Typed, Typed', Known, [Next]_sessionVars
    PROVE  Known'
  <1>1. CASE UNCHANGED sessionVars
    BY <1>1 DEF sessionVars, redis, database, sockets, ids, history, Known
  <1>2. KnownIds /\ lastSid \in Nat /\ lastRid \in Nat /\ Idle.stage = "idle"
    BY IdleFits, SessionBounds DEF Known, KnownIds, Typed, StateType
  <1>3. ASSUME UNCHANGED <<redis, ids, redeemed>>, \A t \in tokens' \ tokens : t.rid \in 1..lastRid
        PROVE  KnownIds' /\ lastRid <= lastRid'
    BY <1>2, <1>3 DEF KnownIds, redis, ids
  <1>4. ASSUME NEW p \in Procs, OthersKept(p), req'[p].stage \notin {"watch", "exec", "login", "extend"},
               lastRid <= lastRid', tokens \subseteq tokens', KnownIds'
        PROVE  Known'
    BY <1>4, StaysKnown DEF OthersKept, KnownReq
  <1>5. ASSUME NEW p \in Procs, Login(p) PROVE Known'
    <2>1. KnownIds' /\ lastRid <= lastRid' /\ tokens \subseteq tokens'
      BY <1>3, <1>5 DEF Login, history
    <2> QED
      BY <1>4, <1>5, <2>1, LoginEffect DEF Typed
  <1>6. ASSUME NEW p \in Procs, NEW t \in tokens, RefreshToken(p, t) PROVE Known'
    <2>1. t = [sid |-> t.sid, rid |-> t.rid]
      BY DEF Typed, StateType, PairType
    <2>2. KnownReq(req[p])'
      <3>1. req'[p].stage = "watch" /\ req'[p].sid = t.sid /\ req'[p].old = t.rid /\ t \in tokens'
        BY <1>6, RefreshTokenEffect DEF Typed, RefreshToken
      <3> QED
        BY <2>1, <3>1 DEF KnownReq
    <2> QED
      BY <1>3, <1>6, <2>2, RefreshTokenEffect, StaysKnown DEF OthersKept, RefreshToken, Typed, history
  <1>7. ASSUME NEW p \in Procs, UpdatePassword(p) PROVE Known'
    BY <1>3, <1>4, <1>7, UpdatePasswordEffect DEF UpdatePassword, Typed, history
  <1>8. ASSUME NEW p, StoreSession(p) PROVE KnownIds' /\ lastRid' = lastRid /\ tokens' = tokens
    BY <1>2, <1>8 DEF StoreSession, KnownIds
  <1>9. ASSUME NEW p, StoreRefresh(p)
        PROVE  KnownIds' /\ lastRid' = lastRid + 1 /\ lastRid <= lastRid' /\ tokens' = tokens
    BY <1>2, <1>9 DEF StoreRefresh, KnownIds, Typed, StateType
  <1>10. ASSUME NEW p \in Procs, SetUserSession(p) PROVE Known'
    <2>1. KnownIds' /\ lastRid <= lastRid' /\ tokens \subseteq tokens'
      BY <1>2, <1>8, <1>10 DEF SetUserSession
    <2>2. OthersKept(p) /\ req'[p].stage = "remember"
      BY <1>10, SetUserSessionEffect DEF Typed
    <2> QED
      BY <1>4, <2>1, <2>2
  <1>11. ASSUME NEW p \in Procs, SetRefreshTokenID(p) PROVE Known'
    <2>1. OthersKept(p) /\ req'[p].stage = "login" /\ req'[p].new = lastRid + 1
      BY <1>11, SetRefreshTokenIDEffect DEF Typed
    <2>2. KnownIds' /\ lastRid' = lastRid + 1 /\ lastRid <= lastRid' /\ tokens' = tokens
      BY <1>9, <1>11 DEF SetRefreshTokenID
    <2>3. lastRid + 1 \in 1..(lastRid + 1)
      BY <1>2
    <2>4. KnownReq(req[p])'
      BY <2>1, <2>2, <2>3 DEF KnownReq
    <2> QED
      BY <2>1, <2>2, <2>4, StaysKnown DEF OthersKept
  <1>12. ASSUME NEW p \in Procs, Done(p), lastRid <= lastRid', tokens \subseteq tokens', KnownIds'
         PROVE  Known'
    BY <1>2, <1>4, <1>12, Ends DEF Typed
  <1>13. ASSUME NEW p \in Procs, LoginFails(p) PROVE Known'
    BY <1>2, <1>3, <1>8, <1>9, <1>12, <1>13 DEF LoginFails
  <1>14. ASSUME NEW p \in Procs, LoginReturns(p) PROVE Known'
    <2>1. req[p].new \in 1..lastRid
      BY <1>14 DEF LoginReturns, At, Known
    <2> QED
      BY <1>3, <1>12, <1>14, <2>1 DEF LoginReturns
  <1>15. ASSUME NEW p \in Procs, CompareRefresh(p) PROVE Known'
    <2>1. KnownIds' /\ lastRid <= lastRid' /\ tokens' = tokens
      BY <1>3, <1>15 DEF CompareRefresh, history
    <2>2. CASE Go(p, "exec")
      <3>1. KnownReq(req[p])
        BY DEF Known, KnownReq
      <3>2. req'[p].stage = "exec" /\ req'[p].sid = req[p].sid /\ req'[p].old = req[p].old
            /\ req[p].stage = "watch"
        BY <1>15, <2>2, Goes DEF CompareRefresh, At, Typed, Stages
      <3>3. KnownReq(req[p])'
        BY <2>1, <3>1, <3>2 DEF KnownReq
      <3> QED
        BY <2>1, <2>2, <3>3, Goes, StaysKnown DEF Typed, Stages, OthersKept
    <2> QED
      BY <1>12, <1>15, <2>1, <2>2 DEF CompareRefresh
  <1>16. ASSUME NEW p \in Procs, req[p].stage = "exec", Rotate(p)
         PROVE  KnownIds' /\ lastRid' = lastRid + 1 /\ lastRid <= lastRid' /\ tokens' = tokens
    <2>1. KnownIds
      BY <1>2
    <2>2. req[p].old \in 1..lastRid
      BY <1>16 DEF Known
    <2>3. \A s \in Sids : refresh'[s] \in 0..(lastRid + 1)
      BY <1>2, <1>16, <2>1 DEF Rotate, KnownIds, Typed, StateType
    <2>4. \A x \in redeemed' : x.old \in 1..(lastRid + 1)
      BY <1>2, <1>16, <2>1, <2>2 DEF Rotate, KnownIds
    <2> QED
      BY <1>2, <1>16, <2>1, <2>3, <2>4 DEF Rotate, KnownIds
  <1>17. ASSUME NEW p \in Procs, RotateRefreshTokenID(p) PROVE Known'
    <2>1. CASE Rotate(p) /\ req' = [Disturb(req, {req[p].sid})
                                     EXCEPT ![p].stage = "extend", ![p].new = lastRid + 1]
      <3>1. KnownIds' /\ lastRid' = lastRid + 1 /\ lastRid <= lastRid' /\ tokens' = tokens
        BY <1>16, <1>17, <2>1 DEF RotateRefreshTokenID, At
      <3>2. req[p].sid \in Sids
        BY <1>17 DEF RotateRefreshTokenID, At, Typed, ReqType, ReqOK
      <3>3. OthersKept(p) /\ (\/ req'[p].stage = "extend" /\ req'[p].new = lastRid + 1
                              \/ req'[p] = Idle)
        BY <2>1, <3>2, RotateEffect DEF Typed
      <3>4. KnownReq(req[p])'
        BY <1>2, <3>1, <3>3 DEF KnownReq
      <3> QED
        BY <3>1, <3>3, <3>4, StaysKnown DEF OthersKept
    <2>2. CASE Done(p) /\ UNCHANGED <<redis, database, tokens, sockets, ids, openedWith, redeemed, escaped, missed>>
      BY <1>3, <1>12, <2>2
    <2> QED
      BY <1>17, <2>1, <2>2 DEF RotateRefreshTokenID
  <1>18. ASSUME NEW p \in Procs, ExpireUserSession(p) PROVE Known'
    <2>1. req[p].new \in 1..lastRid
      BY <1>18 DEF ExpireUserSession, At, Known
    <2> QED
      BY <1>3, <1>12, <1>18, <2>1 DEF ExpireUserSession, history
  <1>19. ASSUME NEW p \in Procs, RefreshRefused(p) PROVE Known'
    BY <1>3, <1>12, <1>19 DEF RefreshRefused, history
  <1>20. ASSUME NEW p \in Procs, RefreshFails(p) PROVE Known'
    <2>1. KnownIds' /\ lastRid <= lastRid' /\ tokens' = tokens
      BY <1>3, <1>16, <1>20 DEF RefreshFails, At
    <2> QED
      BY <1>2, <1>4, <1>20, <2>1, FailEffect DEF RefreshFails, Typed
  <1>21. ASSUME NEW p \in Procs, StorePassword(p) PROVE Known'
    BY <1>3, <1>4, <1>12, <1>21, Goes DEF StorePassword, history, Typed, Stages
  <1>22. ASSUME NEW p \in Procs, StorePasswordFails(p) PROVE Known'
    BY <1>2, <1>3, <1>4, <1>22, StorePasswordFailsEffect DEF StorePasswordFails, Typed
  <1>23. ASSUME NEW p \in Procs, DelUserSession(p) PROVE Known'
    <2>1. KnownIds' /\ lastRid <= lastRid' /\ tokens' = tokens
      BY <1>2, <1>23 DEF DelUserSession, KnownIds, ids, history
    <2> QED
      BY <1>4, <1>23, <2>1, DeleteEffect DEF DelUserSession, Typed, Stages
  <1>24. ASSUME NEW p \in Procs, DelUserSessionFails(p) PROVE Known'
    BY <1>3, <1>4, <1>24, DeleteEffect, Goes DEF DelUserSessionFails, Typed, Stages
  <1>25. ASSUME NEW p \in Procs, SweepRefreshKeys(p) PROVE Known'
    <2>1. KnownIds' /\ lastRid <= lastRid' /\ tokens' = tokens
      BY <1>2, <1>25 DEF SweepRefreshKeys, KnownIds, ids
    <2> QED
      BY <1>4, <1>25, <2>1, SweepEffect DEF Typed
  <1>26. ASSUME NEW p \in Procs, UpdatePasswordReturns(p) PROVE Known'
    BY <1>3, <1>12, <1>26 DEF UpdatePasswordReturns
  <1>27. ASSUME UNCHANGED <<req, tokens, lastRid>>, KnownIds' PROVE Known'
    BY <1>27 DEF Known, KnownIds
  <1>28. CASE Delete
    BY <1>3, <1>27, <1>28 DEF Delete, ids, history
  <1>29. ASSUME NEW w \in Sockets, Listen(w) PROVE Known'
    BY <1>3, <1>27, <1>29 DEF Listen, Authenticate, RegisterConnection, UnregisterConnection, ids, history
  <1>30. CASE SessionExpires
    BY <1>2, <1>27, <1>30 DEF SessionExpires, KnownIds, ids
  <1>31. ASSUME NEW s \in Sids, RefreshExpires(s) PROVE Known'
    <2>1. KnownIds' /\ UNCHANGED <<lastRid, tokens>>
      BY <1>2, <1>31 DEF RefreshExpires, KnownIds, ids, Typed, StateType
    <2> QED
      BY <1>2, <1>31, <2>1, ExpiresEffect DEF Typed, Known, KnownIds, Kept
  <1>32. CASE Halt
    BY <1>2, <1>3, <1>32, HaltEffect DEF Halt, Known, KnownIds, ids
  <1> QED
    BY <1>1, <1>5, <1>6, <1>7, <1>10, <1>11, <1>13, <1>14, <1>15, <1>17, <1>18, <1>19, <1>20, <1>21,
       <1>22, <1>23, <1>24, <1>25, <1>26, <1>28, <1>29, <1>30, <1>31, <1>32
    DEF Next, Arrive, Step, Return, Fault, Expire

----------------------------------------------------------------------------
FreshReq(r) ==
    /\ r.stage \in {"watch", "exec", "extend"} => \E t \in tokens : t.sid = r.sid
    /\ r.stage \in {"remember", "login"} => r.sid <= lastSid /\ \A t \in tokens : t.sid # r.sid

LEMMA StaysFresh ==
    ASSUME Typed, Typed', Fresh, NEW p \in Procs, \A q \in Procs \ {p} : Kept(q),
           lastSid <= lastSid', tokens \subseteq tokens', FreshReq(req[p])',
           \A t \in tokens' \ tokens :
              /\ t.sid <= lastSid'
              /\ \A q \in Procs \ {p} : req[q].stage \in {"remember", "login"} => req[q].sid # t.sid,
           req'[p].stage \in {"remember", "login"} =>
              \/ req'[p].sid = lastSid + 1
              \/ req[p].stage \in {"remember", "login"} /\ req'[p].sid = req[p].sid
    PROVE  Fresh'
  <1>1. \A q \in Procs \ {p} : req'[q].stage = req[q].stage /\ req'[q].sid = req[q].sid
    BY DEF Kept
  <1>2. lastSid \in Nat /\ lastSid' \in Nat /\ \A q \in Procs : req[q].sid \in Nat
    BY SessionBounds DEF Typed, StateType, ReqType, RequestType
  <1>3. \A t \in tokens' : t.sid \in Nat
    BY SessionBounds DEF Typed, StateType, PairType, Sids
  <1>4. \A t \in tokens' : t.sid <= lastSid'
    BY <1>2, <1>3 DEF Fresh
  <1>5. ASSUME NEW q \in Procs \ {p} PROVE FreshReq(req[q])'
    <2>1. req[q].stage \in {"watch", "exec", "extend"} => \E t \in tokens' : t.sid = req[q].sid
      BY DEF Fresh
    <2>2. req[q].stage \in {"remember", "login"} =>
             req[q].sid <= lastSid' /\ \A t \in tokens' : t.sid # req[q].sid
      BY <1>2 DEF Fresh
    <2> QED
      BY <1>1, <2>1, <2>2 DEF FreshReq
  <1>6. ASSUME NEW q \in Procs \ {p}, req'[p].stage \in {"remember", "login"},
               req'[q].stage \in {"remember", "login"}
        PROVE  req'[p].sid # req'[q].sid
    <2>1. req'[q].sid = req[q].sid /\ req[q].sid <= lastSid
      BY <1>1, <1>6 DEF Fresh
    <2>2. CASE req'[p].sid = lastSid + 1
      BY <1>2, <2>1, <2>2
    <2>3. CASE req[p].stage \in {"remember", "login"} /\ req'[p].sid = req[p].sid
      BY <1>1, <1>6, <2>1, <2>3 DEF Fresh
    <2> QED
      BY <1>6, <2>2, <2>3
  <1>7. \A q, r \in Procs : q # r /\ req'[q].stage \in {"remember", "login"}
                                 /\ req'[r].stage \in {"remember", "login"} => req'[q].sid # req'[r].sid
    BY <1>1, <1>6 DEF Fresh
  <1>8. \A q \in Procs : FreshReq(req[q])'
    BY <1>5
  <1> QED
    BY <1>4, <1>7, <1>8 DEF Fresh, FreshReq

LEMMA FreshKept ==
    ASSUME Typed, Typed', Fresh, [Next]_sessionVars
    PROVE  Fresh'
  <1>1. CASE UNCHANGED <<req, tokens, lastSid>>
    BY <1>1 DEF Fresh
  <1>2. lastSid \in Nat /\ lastSid <= lastSid
    BY SessionBounds DEF Typed, StateType
  <1>3. ASSUME NEW p \in Procs, OthersKept(p), UNCHANGED tokens, lastSid <= lastSid',
               req'[p].stage \notin {"watch", "exec", "extend", "remember", "login"}
        PROVE  Fresh'
    BY <1>3, StaysFresh DEF OthersKept, FreshReq
  <1>4. ASSUME NEW p \in Procs, UNCHANGED <<tokens, lastSid>>, OthersKept(p),
               req'[p].sid = req[p].sid, req[p].stage \in {"watch", "exec"},
               req'[p].stage \in {"exec", "extend"}
        PROVE  Fresh'
    <2>1. \E t \in tokens : t.sid = req[p].sid
      BY <1>4 DEF Fresh
    <2>2. FreshReq(req[p])'
      BY <1>4, <2>1 DEF FreshReq
    <2> QED
      BY <1>2, <1>4, <2>2, StaysFresh DEF OthersKept
  <1>5. ASSUME NEW p \in Procs, Done(p), UNCHANGED tokens, lastSid <= lastSid' PROVE Fresh'
    BY <1>3, <1>5, Ends, IdleFits DEF Typed
  <1>6. ASSUME NEW p \in Procs, Login(p) PROVE Fresh'
    BY <1>2, <1>3, <1>6, LoginEffect DEF Login, Typed, ids
  <1>7. ASSUME NEW p \in Procs, NEW t \in tokens, RefreshToken(p, t) PROVE Fresh'
    <2>1. OthersKept(p) /\ req'[p].stage = "watch" /\ req'[p].sid = t.sid
      BY <1>7, RefreshTokenEffect DEF Typed
    <2>2. UNCHANGED <<tokens, lastSid>>
      BY <1>7 DEF RefreshToken, ids
    <2>3. FreshReq(req[p])'
      BY <2>1, <2>2 DEF FreshReq
    <2> QED
      BY <1>2, <2>1, <2>2, <2>3, StaysFresh DEF OthersKept
  <1>8. ASSUME NEW p \in Procs, UpdatePassword(p) PROVE Fresh'
    BY <1>2, <1>3, <1>8, UpdatePasswordEffect DEF UpdatePassword, Typed, ids
  <1>9. ASSUME NEW p \in Procs, SetUserSession(p) PROVE Fresh'
    <2>1. OthersKept(p) /\ req'[p].stage = "remember" /\ req'[p].sid = lastSid + 1
      BY <1>9, SetUserSessionEffect DEF Typed
    <2>2. UNCHANGED tokens /\ lastSid' = lastSid + 1
      BY <1>9 DEF SetUserSession, StoreSession
    <2>3. \A t \in tokens : t.sid # lastSid + 1
      <3>1. \A t \in tokens : t.sid <= lastSid /\ t.sid \in Nat
        BY SessionBounds DEF Fresh, Typed, StateType, PairType, Sids
      <3> QED
        BY <1>2, <3>1
    <2>4. FreshReq(req[p])'
      BY <1>2, <2>1, <2>2, <2>3 DEF FreshReq
    <2> QED
      BY <1>2, <2>1, <2>2, <2>4, StaysFresh DEF OthersKept
  <1>10. ASSUME NEW p \in Procs, SetRefreshTokenID(p) PROVE Fresh'
    <2>1. OthersKept(p) /\ req'[p].stage = "login" /\ req'[p].sid = req[p].sid
      BY <1>10, SetRefreshTokenIDEffect DEF Typed
    <2>2. UNCHANGED <<tokens, lastSid>> /\ req[p].stage = "remember"
      BY <1>10 DEF SetRefreshTokenID, StoreRefresh, At
    <2>3. FreshReq(req[p])'
      BY <2>1, <2>2 DEF FreshReq, Fresh
    <2> QED
      BY <1>2, <2>1, <2>2, <2>3, StaysFresh DEF OthersKept
  <1>11. ASSUME NEW p \in Procs, LoginFails(p) PROVE Fresh'
    BY <1>2, <1>5, <1>11 DEF LoginFails, StoreSession, StoreRefresh, ids
  <1>12. ASSUME NEW p \in Procs, LoginReturns(p) PROVE Fresh'
    <2>1. OthersKept(p) /\ req'[p] = Idle
      BY <1>12, Ends DEF LoginReturns, Typed
    <2>2. UNCHANGED lastSid /\ req[p].stage = "login"
          /\ tokens' = tokens \cup {[sid |-> req[p].sid, rid |-> req[p].new]}
      BY <1>12 DEF LoginReturns, ids, At
    <2>3. \A t \in tokens' \ tokens :
              /\ t.sid <= lastSid'
              /\ \A q \in Procs \ {p} : req[q].stage \in {"remember", "login"} => req[q].sid # t.sid
      BY <2>2 DEF Fresh
    <2>4. FreshReq(req[p])'
      BY <2>1, IdleFits DEF FreshReq
    <2> QED
      BY <1>2, <2>1, <2>2, <2>3, <2>4, StaysFresh, IdleFits DEF OthersKept
  <1>13. ASSUME NEW p \in Procs, CompareRefresh(p) PROVE Fresh'
    <2>1. UNCHANGED <<tokens, lastSid>> /\ req[p].stage = "watch"
      BY <1>13 DEF CompareRefresh, ids, At
    <2>2. CASE Go(p, "exec")
      BY <1>4, <2>1, <2>2, Goes DEF Typed, Stages
    <2> QED
      BY <1>2, <1>5, <1>13, <2>1, <2>2 DEF CompareRefresh
  <1>14. ASSUME NEW p \in Procs, RotateRefreshTokenID(p) PROVE Fresh'
    <2>1. req[p].stage = "exec" /\ req[p].sid \in Sids
      BY <1>14 DEF RotateRefreshTokenID, At, Typed, ReqType, ReqOK
    <2>2. CASE Rotate(p) /\ req' = [Disturb(req, {req[p].sid})
                                     EXCEPT ![p].stage = "extend", ![p].new = lastRid + 1]
      <3>1. UNCHANGED <<tokens, lastSid>>
        BY <2>2 DEF Rotate
      <3>2. CASE req'[p].stage = "extend" /\ req'[p].sid = req[p].sid
        BY <1>4, <2>1, <2>2, <3>1, <3>2, RotateEffect DEF Typed
      <3>3. CASE req'[p] = Idle
        BY <1>2, <1>3, <2>1, <2>2, <3>1, <3>3, RotateEffect, IdleFits DEF Typed
      <3> QED
        BY <2>1, <2>2, <3>2, <3>3, RotateEffect DEF Typed
    <2>3. CASE Done(p) /\ UNCHANGED <<redis, database, tokens, sockets, ids, openedWith, redeemed, escaped, missed>>
      BY <1>2, <1>5, <2>3 DEF ids
    <2> QED
      BY <1>14, <2>2, <2>3 DEF RotateRefreshTokenID
  <1>15. ASSUME NEW p \in Procs, ExpireUserSession(p) PROVE Fresh'
    <2>1. OthersKept(p) /\ req'[p] = Idle
      BY <1>15, Ends DEF ExpireUserSession, Typed
    <2>2. UNCHANGED lastSid /\ req[p].stage = "extend"
          /\ tokens' = tokens \cup {[sid |-> req[p].sid, rid |-> req[p].new]}
      BY <1>15 DEF ExpireUserSession, ids, At
    <2>3. \A t \in tokens' \ tokens :
              /\ t.sid <= lastSid'
              /\ \A q \in Procs \ {p} : req[q].stage \in {"remember", "login"} => req[q].sid # t.sid
      BY <2>2 DEF Fresh
    <2>4. FreshReq(req[p])'
      BY <2>1, IdleFits DEF FreshReq
    <2> QED
      BY <1>2, <2>1, <2>2, <2>3, <2>4, StaysFresh, IdleFits DEF OthersKept
  <1>16. ASSUME NEW p \in Procs, RefreshRefused(p) PROVE Fresh'
    BY <1>2, <1>5, <1>16 DEF RefreshRefused, ids
  <1>17. ASSUME NEW p \in Procs, RefreshFails(p) PROVE Fresh'
    <2>1. OthersKept(p) /\ req'[p] = Idle
      BY <1>17, FailEffect DEF RefreshFails, Typed
    <2>2. UNCHANGED <<tokens, lastSid>>
      BY <1>17 DEF RefreshFails, Rotate, ids
    <2> QED
      BY <1>2, <1>3, <2>1, <2>2, IdleFits
  <1>18. ASSUME NEW p \in Procs, StorePassword(p) PROVE Fresh'
    BY <1>2, <1>3, <1>5, <1>18, Goes DEF StorePassword, ids, Typed, Stages
  <1>19. ASSUME NEW p \in Procs, StorePasswordFails(p) PROVE Fresh'
    BY <1>2, <1>3, <1>19, StorePasswordFailsEffect, IdleFits DEF StorePasswordFails, ids, Typed
  <1>20. ASSUME NEW p \in Procs, DelUserSession(p) PROVE Fresh'
    BY <1>2, <1>3, <1>20, DeleteEffect DEF DelUserSession, ids, Typed, Stages
  <1>21. ASSUME NEW p \in Procs, DelUserSessionFails(p) PROVE Fresh'
    BY <1>2, <1>3, <1>21, DeleteEffect, Goes DEF DelUserSessionFails, ids, Typed, Stages
  <1>22. ASSUME NEW p \in Procs, SweepRefreshKeys(p) PROVE Fresh'
    BY <1>2, <1>3, <1>22, SweepEffect DEF SweepRefreshKeys, ids, Typed
  <1>23. ASSUME NEW p \in Procs, UpdatePasswordReturns(p) PROVE Fresh'
    BY <1>2, <1>5, <1>23 DEF UpdatePasswordReturns, ids
  <1>24. CASE Delete \/ SessionExpires
    BY <1>1, <1>24 DEF Delete, SessionExpires, ids
  <1>25. ASSUME NEW w \in Sockets, Listen(w) PROVE Fresh'
    BY <1>1, <1>25 DEF Listen, Authenticate, RegisterConnection, UnregisterConnection, ids
  <1>26. ASSUME NEW s \in Sids, RefreshExpires(s) PROVE Fresh'
    <2>1. \A q \in Procs : req'[q].stage = req[q].stage /\ req'[q].sid = req[q].sid
      BY <1>26, ExpiresEffect DEF Typed, Kept
    <2>2. UNCHANGED <<tokens, lastSid>>
      BY <1>26 DEF RefreshExpires, ids
    <2> QED
      BY <2>1, <2>2 DEF Fresh
  <1>27. CASE Halt
    BY <1>27, HaltEffect, IdleFits DEF Halt, Fresh, ids
  <1>28. CASE UNCHANGED sessionVars
    BY <1>1, <1>28 DEF sessionVars, ids
  <1> QED
    BY <1>6, <1>7, <1>8, <1>9, <1>10, <1>11, <1>12, <1>13, <1>14, <1>15, <1>16, <1>17, <1>18, <1>19,
       <1>20, <1>21, <1>22, <1>23, <1>24, <1>25, <1>26, <1>27, <1>28
    DEF Next, Arrive, Step, Return, Fault, Expire

----------------------------------------------------------------------------
ChainReq(r) == r.stage = "exec" /\ ~r.overtaken => refresh[r.sid] = r.old

ChainIds ==
    /\ \A x \in redeemed, s \in Sids : refresh[s] # x.old
    /\ \A s, t \in Sids : refresh[s] = refresh[t] /\ refresh[s] # 0 => s = t
    /\ RefreshRedeemedOnce

LEMMA StaysChained ==
    ASSUME Chain, NEW p \in Procs, \A q \in Procs \ {p} : Kept(q), ChainIds',
           \A q \in Procs \ {p} : req[q].stage = "exec" =>
              req'[q].overtaken \/ refresh'[req[q].sid] = refresh[req[q].sid],
           ChainReq(req[p])'
    PROVE  Chain' /\ RefreshRedeemedOnce'
  <1>1. ASSUME NEW q \in Procs \ {p}, req'[q].stage = "exec", ~req'[q].overtaken
        PROVE  refresh'[req'[q].sid] = req'[q].old
    <2>1. req[q].stage = "exec" /\ ~req[q].overtaken /\ req'[q].sid = req[q].sid /\ req'[q].old = req[q].old
      BY <1>1 DEF Kept
    <2>2. refresh'[req[q].sid] = refresh[req[q].sid]
      BY <1>1, <2>1
    <2> QED
      BY <2>1, <2>2 DEF Chain
  <1>2. \A q \in Procs : ChainReq(req[q])'
    BY <1>1 DEF ChainReq
  <1> QED
    BY <1>2 DEF Chain, ChainReq, ChainIds

LEMMA ChainKept ==
    ASSUME Typed, Typed', Known, Fresh, Chain, RefreshRedeemedOnce, [Next]_sessionVars
    PROVE  Chain' /\ RefreshRedeemedOnce'
  <1> USE DEF Typed
  <1>1. CASE UNCHANGED <<req, refresh, redeemed>>
    BY <1>1 DEF Chain, RefreshRedeemedOnce
  <1>2. ChainIds
    BY DEF Chain, ChainIds
  <1>3. ASSUME NEW p \in Procs, UNCHANGED <<refresh, redeemed>>, OthersKept(p),
               req'[p].stage # "exec"
        PROVE  Chain' /\ RefreshRedeemedOnce'
    <2>1. ChainIds'
      BY <1>2, <1>3 DEF ChainIds, RefreshRedeemedOnce
    <2>2. ChainReq(req[p])'
      BY <1>3 DEF ChainReq
    <2> QED
      BY <1>3, <2>1, <2>2, StaysChained DEF OthersKept
  <1>4. ASSUME NEW p \in Procs, Done(p), UNCHANGED <<refresh, redeemed>>
        PROVE  Chain' /\ RefreshRedeemedOnce'
    BY <1>3, <1>4, Ends, IdleFits
  <1>5. ASSUME NEW p \in Procs, Login(p) PROVE Chain' /\ RefreshRedeemedOnce'
    BY <1>3, <1>5, LoginEffect DEF Login, redis, history
  <1>6. ASSUME NEW p \in Procs, NEW t \in tokens, RefreshToken(p, t)
        PROVE  Chain' /\ RefreshRedeemedOnce'
    BY <1>3, <1>6, RefreshTokenEffect DEF RefreshToken, redis, history
  <1>7. ASSUME NEW p \in Procs, UpdatePassword(p) PROVE Chain' /\ RefreshRedeemedOnce'
    BY <1>3, <1>7, UpdatePasswordEffect DEF UpdatePassword, redis, history
  <1>8. ASSUME NEW p \in Procs, SetUserSession(p) PROVE Chain' /\ RefreshRedeemedOnce'
    BY <1>3, <1>8, SetUserSessionEffect DEF SetUserSession, StoreSession
  \* A new id is not stored and not redeemed, and nobody watches the key.
  <1>9. ASSUME NEW p \in Procs, StoreRefresh(p), req[p].stage = "remember"
        PROVE  /\ ChainIds'
               /\ \A q \in Procs : req[q].stage = "exec" => refresh'[req[q].sid] = refresh[req[q].sid]
    <2>1. lastRid \in Nat /\ (\A s \in Sids : refresh[s] \in 0..lastRid)
          /\ \A x \in redeemed : x.old \in 1..lastRid
      BY SessionBounds DEF Known, StateType
    <2>2. \A s \in Sids : refresh'[s] = IF s = req[p].sid THEN lastRid + 1 ELSE refresh[s]
      BY <1>9 DEF StoreRefresh, StateType
    <2>3. redeemed' = redeemed
      BY <1>9 DEF StoreRefresh
    <2>4. \A x \in redeemed, s \in Sids : refresh'[s] # x.old
      BY <1>2, <2>1, <2>2 DEF ChainIds
    <2>5. \A s, t \in Sids : refresh'[s] = refresh'[t] /\ refresh'[s] # 0 => s = t
      BY <1>2, <2>1, <2>2 DEF ChainIds
    <2>6. \A q \in Procs : req[q].stage = "exec" => req[q].sid \in Sids /\ req[q].sid # req[p].sid
      BY <1>9 DEF Fresh, ReqType, ReqOK
    <2> QED
      BY <2>2, <2>3, <2>4, <2>5, <2>6 DEF ChainIds, RefreshRedeemedOnce
  <1>10. ASSUME NEW p \in Procs, SetRefreshTokenID(p) PROVE Chain' /\ RefreshRedeemedOnce'
    <2>1. StoreRefresh(p) /\ req[p].stage = "remember"
      BY <1>10 DEF SetRefreshTokenID, At
    <2>2. OthersKept(p) /\ ChainReq(req[p])'
      BY <1>10, SetRefreshTokenIDEffect DEF ChainReq
    <2> QED
      BY <1>9, <2>1, <2>2, StaysChained DEF OthersKept
  <1>11. ASSUME NEW p \in Procs, LoginFails(p) PROVE Chain' /\ RefreshRedeemedOnce'
    <2>1. CASE UNCHANGED <<refresh, redeemed>>
      BY <1>4, <1>11, <2>1 DEF LoginFails
    <2>2. CASE At(p, "remember") /\ StoreRefresh(p)
      <3>1. OthersKept(p) /\ ChainReq(req[p])'
        BY <1>11, Ends, IdleFits DEF LoginFails, ChainReq
      <3> QED
        BY <1>9, <2>2, <3>1, StaysChained DEF OthersKept, At
    <2> QED
      BY <1>11, <2>1, <2>2 DEF LoginFails, StoreSession, redis
  <1>12. ASSUME NEW p \in Procs, LoginReturns(p) PROVE Chain' /\ RefreshRedeemedOnce'
    BY <1>4, <1>12 DEF LoginReturns, redis
  <1>13. ASSUME NEW p \in Procs, CompareRefresh(p) PROVE Chain' /\ RefreshRedeemedOnce'
    <2>1. UNCHANGED <<refresh, redeemed>>
      BY <1>13 DEF CompareRefresh, redis, history
    <2>2. CASE Go(p, "exec") /\ refresh[req[p].sid] = req[p].old
      <3>1. ChainIds'
        BY <1>2, <2>1 DEF ChainIds, RefreshRedeemedOnce
      <3>2. OthersKept(p) /\ req'[p].sid = req[p].sid /\ req'[p].old = req[p].old
        BY <2>2, Goes DEF Stages
      <3>3. ChainReq(req[p])'
        BY <2>1, <2>2, <3>2 DEF ChainReq
      <3> QED
        BY <2>1, <3>1, <3>2, <3>3, StaysChained DEF OthersKept
    <2> QED
      BY <1>4, <1>13, <2>1, <2>2 DEF CompareRefresh
  \* The redeemed id was in the key, so it had not been redeemed before and is
  \* in no other key; it leaves this one.
  <1>14. ASSUME NEW p \in Procs, Rotate(p), req[p].stage = "exec", ~req[p].overtaken
         PROVE  /\ ChainIds'
                /\ \A s \in Sids : s # req[p].sid => refresh'[s] = refresh[s]
    <2> DEFINE s0 == req[p].sid
               x0 == [old |-> req[p].old, new |-> lastRid + 1]
    <2>1. lastRid \in Nat /\ (\A s \in Sids : refresh[s] \in 0..lastRid)
          /\ \A x \in redeemed : x.old \in 1..lastRid
      BY SessionBounds DEF Known, StateType
    <2>2. s0 \in Sids /\ refresh[s0] = req[p].old /\ req[p].old \in 1..lastRid
      <3>1. s0 \in Sids /\ refresh[s0] = req[p].old
        BY <1>14 DEF Chain, ReqType, ReqOK
      <3>2. [sid |-> s0, rid |-> req[p].old] \in tokens
        BY <1>14 DEF Known
      <3> QED
        BY <3>1, <3>2 DEF Known
    <2>3. \A s \in Sids : refresh'[s] = IF s = s0 THEN lastRid + 1 ELSE refresh[s]
      BY <1>14 DEF Rotate, StateType
    <2>4. redeemed' = redeemed \cup {x0} /\ x0.old = req[p].old
      BY <1>14 DEF Rotate
    <2> HIDE DEF s0, x0
    <2>5. \A x \in redeemed : x.old # x0.old
      BY <1>2, <2>2, <2>4 DEF ChainIds
    <2>6. RefreshRedeemedOnce'
      BY <2>4, <2>5 DEF RefreshRedeemedOnce
    <2>7. \A x \in redeemed', s \in Sids : refresh'[s] # x.old
      BY <1>2, <2>1, <2>2, <2>3, <2>4 DEF ChainIds
    <2>8. \A s, t \in Sids : refresh'[s] = refresh'[t] /\ refresh'[s] # 0 => s = t
      BY <1>2, <2>1, <2>3 DEF ChainIds
    <2> QED
      BY <2>3, <2>6, <2>7, <2>8 DEF ChainIds, s0
  <1>15. ASSUME NEW p \in Procs, Rotate(p), req[p].stage = "exec", ~req[p].overtaken,
                \/ req' = [Disturb(req, {req[p].sid})
                              EXCEPT ![p].stage = "extend", ![p].new = lastRid + 1]
                \/ req' = [Disturb(req, {req[p].sid}) EXCEPT ![p] = Idle]
         PROVE  Chain' /\ RefreshRedeemedOnce'
    <2>1. /\ OthersKept(p) /\ req'[p].stage # "exec"
          /\ \A q \in Procs \ {p} :
                req[q].stage = "exec" /\ req[q].sid = req[p].sid => req'[q].overtaken
      BY <1>15, RotateEffect, IdleFits DEF ReqType, ReqOK
    <2>2. ChainIds' /\ \A s \in Sids : s # req[p].sid => refresh'[s] = refresh[s]
      BY <1>14, <1>15
    <2>3. \A q \in Procs \ {p} : req[q].stage = "exec" =>
              req'[q].overtaken \/ refresh'[req[q].sid] = refresh[req[q].sid]
      BY <2>1, <2>2 DEF ReqType, ReqOK
    <2>4. ChainReq(req[p])'
      BY <2>1 DEF ChainReq
    <2> QED
      BY <2>1, <2>2, <2>3, <2>4, StaysChained DEF OthersKept
  <1>16. ASSUME NEW p \in Procs, RotateRefreshTokenID(p) PROVE Chain' /\ RefreshRedeemedOnce'
    BY <1>4, <1>15, <1>16 DEF RotateRefreshTokenID, At, redis
  <1>17. ASSUME NEW p \in Procs, RefreshFails(p) PROVE Chain' /\ RefreshRedeemedOnce'
    <2>1. CASE At(p, "exec") /\ ~req[p].overtaken /\ Rotate(p)
      BY <1>15, <1>17, <2>1 DEF RefreshFails, At
    <2>2. CASE UNCHANGED <<redis, database, tokens, sockets, ids, openedWith, redeemed, escaped, missed>>
      BY <1>3, <1>17, <2>2, FailEffect, IdleFits DEF RefreshFails, redis
    <2> QED
      BY <1>17, <2>1, <2>2 DEF RefreshFails
  <1>18. ASSUME NEW p \in Procs, ExpireUserSession(p) PROVE Chain' /\ RefreshRedeemedOnce'
    BY <1>4, <1>18 DEF ExpireUserSession, redis, history
  <1>19. ASSUME NEW p \in Procs, RefreshRefused(p) PROVE Chain' /\ RefreshRedeemedOnce'
    BY <1>4, <1>19 DEF RefreshRefused, redis, history
  <1>20. ASSUME NEW p \in Procs, StorePassword(p) PROVE Chain' /\ RefreshRedeemedOnce'
    BY <1>3, <1>4, <1>20, Goes DEF StorePassword, redis, history, Stages
  <1>21. ASSUME NEW p \in Procs, StorePasswordFails(p) PROVE Chain' /\ RefreshRedeemedOnce'
    BY <1>3, <1>21, StorePasswordFailsEffect, IdleFits DEF StorePasswordFails, redis
  <1>22. ASSUME NEW p \in Procs, DelUserSession(p) PROVE Chain' /\ RefreshRedeemedOnce'
    BY <1>3, <1>22, DeleteEffect DEF DelUserSession, history, Stages
  <1>23. ASSUME NEW p \in Procs, DelUserSessionFails(p) PROVE Chain' /\ RefreshRedeemedOnce'
    BY <1>3, <1>23, DeleteEffect, Goes DEF DelUserSessionFails, redis, Stages
  <1>24. ASSUME NEW p \in Procs, SweepRefreshKeys(p) PROVE Chain' /\ RefreshRedeemedOnce'
    <2>1. \A s \in Sids : refresh'[s] = 0
      BY <1>24 DEF SweepRefreshKeys
    <2>2. redeemed' = redeemed /\ \A x \in redeemed : x.old # 0
      BY <1>24 DEF SweepRefreshKeys, Known
    <2>3. ChainIds'
      BY <1>2, <2>1, <2>2 DEF ChainIds, RefreshRedeemedOnce
    <2>4. ChainReq(req[p])' /\ OthersKept(p)
      BY <1>24, SweepEffect DEF ChainReq
    <2> QED
      BY <1>24, <2>3, <2>4, SweepEffect, StaysChained DEF OthersKept
  <1>25. ASSUME NEW p \in Procs, UpdatePasswordReturns(p) PROVE Chain' /\ RefreshRedeemedOnce'
    BY <1>4, <1>25 DEF UpdatePasswordReturns, redis
  <1>26. CASE Delete \/ SessionExpires
    BY <1>1, <1>26 DEF Delete, SessionExpires, redis, history
  <1>27. ASSUME NEW w \in Sockets, Listen(w) PROVE Chain' /\ RefreshRedeemedOnce'
    BY <1>1, <1>27 DEF Listen, Authenticate, RegisterConnection, UnregisterConnection, redis, history
  <1>28. ASSUME NEW s \in Sids, RefreshExpires(s) PROVE Chain' /\ RefreshRedeemedOnce'
    <2>1. \A t \in Sids : refresh'[t] = IF t = s THEN 0 ELSE refresh[t]
      BY <1>28 DEF RefreshExpires, StateType
    <2>2. redeemed' = redeemed /\ \A x \in redeemed : x.old # 0
      BY <1>28 DEF RefreshExpires, Known
    <2>3. ChainIds'
      BY <1>2, <2>1, <2>2 DEF ChainIds, RefreshRedeemedOnce
    <2>4. \A q \in Procs : Kept(q) /\ (req[q].stage = "exec" /\ req[q].sid = s => req'[q].overtaken)
      BY <1>28, ExpiresEffect
    <2>5. ASSUME NEW q \in Procs, req'[q].stage = "exec", ~req'[q].overtaken
          PROVE  refresh'[req'[q].sid] = req'[q].old
      <3>1. req[q].stage = "exec" /\ ~req[q].overtaken /\ req[q].sid # s
            /\ req'[q].sid = req[q].sid /\ req'[q].old = req[q].old
        BY <2>4, <2>5 DEF Kept
      <3>2. req[q].sid \in Sids /\ refresh[req[q].sid] = req[q].old
        BY <3>1 DEF Chain, ReqType, ReqOK
      <3> QED
        BY <2>1, <3>1, <3>2
    <2> QED
      BY <2>3, <2>5 DEF Chain, ChainIds
  <1>29. CASE Halt
    BY <1>29, HaltEffect, IdleFits DEF Halt, Chain, RefreshRedeemedOnce, redis
  <1>30. CASE UNCHANGED sessionVars
    BY <1>1, <1>30 DEF sessionVars, redis, history
  <1> QED
    BY <1>5, <1>6, <1>7, <1>8, <1>10, <1>11, <1>12, <1>13, <1>16, <1>17, <1>18, <1>19, <1>20, <1>21,
       <1>22, <1>23, <1>24, <1>25, <1>26, <1>27, <1>28, <1>29, <1>30
    DEF Next, Arrive, Step, Return, Fault, Expire

----------------------------------------------------------------------------
Good(s) ==
    \/ s \in cutOff
    \/ [sid |-> s, rid |-> refresh[s]] \in tokens
    \/ \E p \in Procs : Brings(p, s)

\* p is the only request that moves; what it brought is there, or it still
\* brings it.
LEMMA StaysRefreshable ==
    ASSUME Refreshable, NEW p \in Procs, \A q \in Procs \ {p} : Kept(q),
           cutOff \subseteq cutOff', tokens \subseteq tokens',
           \A s \in 1..lastSid' : Good(s)' \/ (s \in 1..lastSid /\ refresh'[s] = refresh[s]),
           \A s \in 1..lastSid : Brings(p, s) => Good(s)' \/ refresh'[s] # refresh[s]
    PROVE  Refreshable'
  <1> SUFFICES ASSUME NEW s \in 1..lastSid', s \in 1..lastSid, refresh'[s] = refresh[s],
                      ~Brings(p, s)
               PROVE  Good(s)'
    BY DEF Refreshable, Good
  <1>1. CASE s \in cutOff \/ [sid |-> s, rid |-> refresh[s]] \in tokens
    BY <1>1 DEF Good
  <1>2. CASE \E q \in Procs \ {p} : Brings(q, s)
    <2>1. PICK q \in Procs \ {p} : Brings(q, s)
      BY <1>2
    <2>2. Brings(q, s)'
      BY <2>1 DEF Brings, Kept
    <2> QED
      BY <2>2 DEF Good
  <1> QED
    BY <1>1, <1>2 DEF Refreshable

LEMMA RefreshableKept ==
    ASSUME Typed, Typed', Refreshable, [Next]_sessionVars
    PROVE  Refreshable'
  <1> USE DEF Typed
  <1>1. CASE UNCHANGED <<req, refresh, tokens, lastSid, cutOff>>
    BY <1>1 DEF Refreshable, Brings
  <1>2. ASSUME NEW p \in Procs, \A q \in Procs \ {p} : Kept(q),
               UNCHANGED <<refresh, tokens, lastSid>>, cutOff \subseteq cutOff',
               req[p].stage \notin {"remember", "login", "extend"}
        PROVE  Refreshable'
    <2>1. \A s \in 1..lastSid : ~Brings(p, s)
      BY <1>2 DEF Brings
    <2> QED
      BY <1>2, <2>1, StaysRefreshable
  <1>3. ASSUME NEW p \in Procs, Done(p) PROVE (\A q \in Procs \ {p} : Kept(q)) /\ req'[p] = Idle
    BY <1>3, Ends DEF OthersKept
  <1>4. ASSUME NEW p \in Procs, Login(p) PROVE Refreshable'
    BY <1>2, <1>4, LoginEffect DEF Login, OthersKept, At, redis, ids, history
  <1>5. ASSUME NEW p \in Procs, NEW t \in tokens, RefreshToken(p, t) PROVE Refreshable'
    BY <1>2, <1>5, RefreshTokenEffect DEF RefreshToken, OthersKept, At, redis, ids, history
  <1>6. ASSUME NEW p \in Procs, UpdatePassword(p) PROVE Refreshable'
    BY <1>2, <1>6, UpdatePasswordEffect DEF UpdatePassword, OthersKept, At, redis, ids, history
  <1>7. ASSUME NEW p \in Procs, StoreSession(p), req[p].stage = "store",
               \A q \in Procs \ {p} : Kept(q), cutOff \subseteq cutOff',
               \A s \in Sids : s = lastSid + 1 => Good(s)'
        PROVE  Refreshable'
    <2>1. UNCHANGED <<refresh, tokens>> /\ lastSid' = lastSid + 1 /\ lastSid \in Nat
      BY <1>7, SessionBounds DEF StoreSession, StateType
    <2>2. \A s \in 1..lastSid' : s \in Sids /\ (s = lastSid + 1 \/ s \in 1..lastSid)
      BY <2>1, SessionBounds DEF StateType, Sids
    <2>3. \A s \in 1..lastSid : ~Brings(p, s)
      BY <1>7 DEF Brings
    <2> QED
      BY <1>7, <2>1, <2>2, <2>3, StaysRefreshable
  <1>8. ASSUME NEW p \in Procs, SetUserSession(p) PROVE Refreshable'
    <2>1. OthersKept(p) /\ req'[p].stage = "remember" /\ req'[p].sid = lastSid + 1
      BY <1>8, SetUserSessionEffect
    <2>2. \A s \in Sids : s = lastSid + 1 => Good(s)'
      BY <2>1 DEF Good, Brings
    <2> QED
      BY <1>7, <1>8, <2>1, <2>2 DEF SetUserSession, At, OthersKept
  \* Only the refresh key of p's session is written.
  <1>9. ASSUME NEW p \in Procs, req[p].sid \in Sids, StoreRefresh(p) \/ Rotate(p),
               \A q \in Procs \ {p} : Kept(q), cutOff \subseteq cutOff',
               \A s \in Sids : s = req[p].sid => Good(s)'
        PROVE  Refreshable'
    <2>1. UNCHANGED <<tokens, lastSid>>
      BY <1>9 DEF StoreRefresh, Rotate
    <2>2. 1..lastSid \subseteq Sids
      BY SessionBounds DEF StateType, Sids
    <2>3. \A s \in Sids : s # req[p].sid => refresh'[s] = refresh[s]
      BY <1>9 DEF StoreRefresh, Rotate, StateType
    <2>4. \A s \in 1..lastSid : Brings(p, s) => s = req[p].sid
      BY DEF Brings
    <2> QED
      BY <1>9, <2>1, <2>2, <2>3, <2>4, StaysRefreshable
  <1>10. ASSUME NEW p \in Procs, SetRefreshTokenID(p) PROVE Refreshable'
    <2>1. OthersKept(p) /\ req'[p].stage = "login" /\ req'[p].sid = req[p].sid
          /\ req'[p].new = lastRid + 1
      BY <1>10, SetRefreshTokenIDEffect
    <2>2. StoreRefresh(p) /\ UNCHANGED cutOff /\ req[p].sid \in Sids
      BY <1>10 DEF SetRefreshTokenID, At, ReqType, ReqOK
    <2>3. refresh'[req[p].sid] = lastRid + 1
      BY <2>2 DEF StoreRefresh, StateType
    <2>4. \A s \in Sids : s = req[p].sid => Good(s)'
      BY <2>1, <2>3 DEF Good, Brings
    <2> QED
      BY <1>9, <2>1, <2>2, <2>4 DEF OthersKept
  <1>11. ASSUME NEW p \in Procs, LoginFails(p) PROVE Refreshable'
    <2>1. \A q \in Procs \ {p} : Kept(q)
      BY <1>3, <1>11 DEF LoginFails
    <2>2. CASE At(p, "store") /\ StoreSession(p) /\ cutOff' = cutOff \cup {lastSid + 1}
      <3>1. \A s \in Sids : s = lastSid + 1 => Good(s)'
        BY <2>2 DEF Good
      <3> QED
        BY <1>7, <2>1, <2>2, <3>1 DEF At
    <2>3. CASE /\ At(p, "store")
               /\ UNCHANGED <<redis, database, tokens, sockets, ids, openedWith, redeemed, escaped, cutOff>>
      BY <1>2, <2>1, <2>3 DEF At, redis, ids
    <2>4. CASE At(p, "remember") /\ cutOff' = cutOff \cup {req[p].sid}
      <3>1. req[p].sid \in Sids
        BY <2>4 DEF At, ReqType, ReqOK
      <3>2. \A s \in Sids : s = req[p].sid => Good(s)'
        BY <2>4 DEF Good
      <3>3. CASE StoreRefresh(p)
        BY <1>9, <2>1, <2>4, <3>1, <3>2, <3>3
      <3>4. CASE UNCHANGED <<redis, database, tokens, sockets, ids, openedWith, redeemed, escaped>>
        <4>1. 1..lastSid \subseteq Sids
          BY SessionBounds DEF StateType, Sids
        <4>2. \A s \in 1..lastSid : Brings(p, s) => s = req[p].sid
          BY DEF Brings
        <4> QED
          BY <2>1, <2>4, <3>2, <3>4, <4>1, <4>2, StaysRefreshable DEF redis, ids
      <3> QED
        BY <1>11, <2>4, <3>3, <3>4 DEF LoginFails, At
    <2> QED
      BY <1>11, <2>2, <2>3, <2>4 DEF LoginFails
  \* The pair that p brought is handed out.
  <1>12. ASSUME NEW p \in Procs, Done(p), req[p].stage \in {"login", "extend"},
                UNCHANGED <<refresh, lastSid, cutOff>>,
                tokens' = tokens \cup {[sid |-> req[p].sid, rid |-> req[p].new]}
         PROVE  Refreshable'
    <2>1. \A s \in 1..lastSid : Brings(p, s) => [sid |-> s, rid |-> refresh[s]] \in tokens'
      BY <1>12 DEF Brings
    <2>2. \A s \in 1..lastSid : Brings(p, s) => Good(s)'
      BY <1>12, <2>1 DEF Good
    <2> QED
      BY <1>3, <1>12, <2>2, StaysRefreshable
  <1>13. ASSUME NEW p \in Procs, LoginReturns(p) PROVE Refreshable'
    BY <1>12, <1>13 DEF LoginReturns, At, redis, ids
  <1>14. ASSUME NEW p \in Procs, ExpireUserSession(p) PROVE Refreshable'
    BY <1>12, <1>14 DEF ExpireUserSession, At, redis, ids, history
  <1>15. ASSUME NEW p \in Procs, CompareRefresh(p) PROVE Refreshable'
    <2>1. OthersKept(p)
      BY <1>15, Ends, Goes DEF CompareRefresh, Stages
    <2> QED
      BY <1>2, <1>15, <2>1 DEF CompareRefresh, OthersKept, At, redis, ids, history
  <1>16. ASSUME NEW p \in Procs, RotateRefreshTokenID(p) PROVE Refreshable'
    <2>1. req[p].stage = "exec" /\ req[p].sid \in Sids /\ UNCHANGED cutOff
      BY <1>16 DEF RotateRefreshTokenID, At, ReqType, ReqOK
    <2>2. CASE Rotate(p) /\ req' = [Disturb(req, {req[p].sid})
                                     EXCEPT ![p].stage = "extend", ![p].new = lastRid + 1]
      <3>1. OthersKept(p) /\ req'[p].stage = "extend" /\ (req'[p] # Idle => req'[p].sid = req[p].sid
                                                          /\ req'[p].new = lastRid + 1)
        BY <2>1, <2>2, RotateEffect
      <3>2. refresh'[req[p].sid] = lastRid + 1
        BY <2>1, <2>2 DEF Rotate, StateType
      <3>3. \A s \in Sids : s = req[p].sid => Good(s)'
        BY <3>1, <3>2, IdleFits DEF Good, Brings
      <3> QED
        BY <1>9, <2>1, <2>2, <3>1, <3>3 DEF OthersKept
    <2>3. CASE Done(p) /\ UNCHANGED <<redis, database, tokens, sockets, ids, openedWith, redeemed, escaped, missed>>
      BY <1>2, <1>3, <2>1, <2>3 DEF redis, ids
    <2> QED
      BY <1>16, <2>2, <2>3 DEF RotateRefreshTokenID
  <1>17. ASSUME NEW p \in Procs, RefreshFails(p) PROVE Refreshable'
    <2>1. /\ req[p].sid \in Sids /\ cutOff' = cutOff \cup {req[p].sid}
          /\ \A q \in Procs \ {p} : Kept(q)
      BY <1>17, FailEffect DEF RefreshFails, At, OthersKept, ReqType, ReqOK
    <2>2. \A s \in Sids : s = req[p].sid => Good(s)'
      BY <2>1 DEF Good
    <2>3. CASE Rotate(p)
      BY <1>9, <2>1, <2>2, <2>3
    <2>4. CASE UNCHANGED <<redis, database, tokens, sockets, ids, openedWith, redeemed, escaped, missed>>
      <3>1. 1..lastSid \subseteq Sids
        BY SessionBounds DEF StateType, Sids
      <3>2. \A s \in 1..lastSid : Brings(p, s) => s = req[p].sid
        BY DEF Brings
      <3> QED
        BY <2>1, <2>2, <2>4, <3>1, <3>2, StaysRefreshable DEF redis, ids
    <2> QED
      BY <1>17, <2>3, <2>4 DEF RefreshFails
  <1>18. ASSUME NEW p \in Procs, RefreshRefused(p) PROVE Refreshable'
    BY <1>2, <1>3, <1>18 DEF RefreshRefused, At, redis, ids, history
  <1>19. ASSUME NEW p \in Procs, StorePassword(p) PROVE Refreshable'
    <2>1. OthersKept(p)
      BY <1>19, Ends, Goes DEF StorePassword, Stages
    <2> QED
      BY <1>2, <1>19, <2>1 DEF StorePassword, OthersKept, At, redis, ids, history
  <1>20. ASSUME NEW p \in Procs, StorePasswordFails(p) PROVE Refreshable'
    BY <1>2, <1>20, StorePasswordFailsEffect DEF StorePasswordFails, OthersKept, At, redis, ids
  <1>21. ASSUME NEW p \in Procs, DelUserSession(p) PROVE Refreshable'
    BY <1>2, <1>21, DeleteEffect DEF DelUserSession, OthersKept, At, Stages, ids, history
  <1>22. ASSUME NEW p \in Procs, DelUserSessionFails(p) PROVE Refreshable'
    <2>1. OthersKept(p)
      BY <1>22, DeleteEffect, Goes DEF DelUserSessionFails, Stages
    <2> QED
      BY <1>2, <1>22, <2>1 DEF DelUserSessionFails, OthersKept, At, redis, ids
  <1>23. ASSUME NEW p \in Procs, SweepRefreshKeys(p) PROVE Refreshable'
    <2>1. /\ \A q \in Procs \ {p} : Kept(q)
          /\ UNCHANGED <<tokens, lastSid>> /\ cutOff' = cutOff \cup {s \in Sids : refresh[s] # 0}
          /\ \A s \in Sids : refresh'[s] = 0
      BY <1>23, SweepEffect DEF SweepRefreshKeys, OthersKept, ids
    <2>2. 1..lastSid \subseteq Sids
      BY SessionBounds DEF StateType, Sids
    <2>3. \A s \in 1..lastSid : Good(s)' \/ refresh'[s] = refresh[s]
      BY <2>1, <2>2 DEF Good
    <2>4. \A s \in 1..lastSid : ~Brings(p, s)
      BY <1>23 DEF SweepRefreshKeys, At, Brings
    <2> QED
      BY <2>1, <2>3, <2>4, StaysRefreshable
  <1>24. ASSUME NEW p \in Procs, UpdatePasswordReturns(p) PROVE Refreshable'
    BY <1>2, <1>3, <1>24 DEF UpdatePasswordReturns, At, redis, ids
  <1>25. CASE Delete \/ SessionExpires
    BY <1>1, <1>25 DEF Delete, SessionExpires, redis, ids, history
  <1>26. ASSUME NEW w \in Sockets, Listen(w) PROVE Refreshable'
    BY <1>1, <1>26 DEF Listen, Authenticate, RegisterConnection, UnregisterConnection, redis, ids, history
  <1>27. ASSUME NEW s \in Sids, RefreshExpires(s) PROVE Refreshable'
    <2>1. \A q \in Procs : Kept(q)
      BY <1>27, ExpiresEffect
    <2>2. /\ UNCHANGED <<tokens, lastSid>> /\ cutOff' = cutOff \cup {s}
          /\ \A t \in Sids : t # s => refresh'[t] = refresh[t]
      BY <1>27 DEF RefreshExpires, ids, StateType
    <2>3. 1..lastSid \subseteq Sids
      BY SessionBounds DEF StateType, Sids
    <2>4. ASSUME NEW t \in 1..lastSid, t # s PROVE Good(t)'
      <3>1. Good(t)
        BY DEF Refreshable, Good
      <3>2. \A q \in Procs : Brings(q, t) => Brings(q, t)'
        BY <2>1, <2>2, <2>3, <2>4 DEF Brings, Kept
      <3> QED
        BY <2>2, <2>3, <2>4, <3>1, <3>2 DEF Good
    <2>5. Good(s)'
      BY <2>2 DEF Good
    <2> QED
      BY <2>2, <2>4, <2>5 DEF Refreshable, Good
  <1>28. CASE Halt
    <2>1. UNCHANGED <<refresh, tokens, lastSid>>
          /\ cutOff' = cutOff \cup ({req[p].sid : p \in Procs} \ {0})
      BY <1>28 DEF Halt, redis, ids
    <2>2. \A s \in 1..lastSid : (\E p \in Procs : Brings(p, s)) => s \in cutOff'
      BY <2>1 DEF Brings
    <2>3. \A s \in 1..lastSid : Good(s)'
      BY <2>1, <2>2 DEF Refreshable, Good
    <2> QED
      BY <2>1, <2>3 DEF Refreshable, Good
  <1>29. CASE UNCHANGED sessionVars
    BY <1>1, <1>29 DEF sessionVars, redis, ids, history
  <1> QED
    BY <1>4, <1>5, <1>6, <1>8, <1>10, <1>11, <1>13, <1>14, <1>15, <1>16, <1>17, <1>18, <1>19, <1>20,
       <1>21, <1>22, <1>23, <1>24, <1>25, <1>26, <1>27, <1>28, <1>29
    DEF Next, Arrive, Step, Return, Fault, Expire
----------------------------------------------------------------------------
\* The login p checked another password, and nothing has passed it yet.
Late(p) == req[p].stage = "store" /\ req[p].pw # password /\ ~req[p].overtaken
Removing == \E q \in Procs : req[q].stage = "delete"

LEMMA NoneLater ==
    ASSUME Awaited, NEW p \in Procs, \A q \in Procs \ {p} : Kept(q), req[p].stage # "delete",
           password' = password, ~Late(p)'
    PROVE  (\A q \in Procs : Late(q)' => Removing') /\ (Removing => Removing')
  <1>1. \A q \in Procs \ {p} : Late(q)' => Late(q)
    BY DEF Late, Kept
  <1>2. Removing => Removing'
    BY DEF Removing, Kept
  <1> QED
    BY <1>1, <1>2 DEF Awaited, Late, Removing

LEMMA StaysAwaited ==
    ASSUME Awaited, NEW p \in Procs, \A q \in Procs \ {p} : Kept(q), req[p].stage # "delete",
           UNCHANGED <<session, password, openedWith>>, escaped \subseteq escaped', ~Late(p)'
    PROVE  Awaited'
  <1>1. (\A q \in Procs : Late(q)' => Removing') /\ (Removing => Removing')
    BY NoneLater
  <1>2. SessionFollowsPassword'
    BY <1>1 DEF Awaited, SessionFollowsPassword, Removing, At
  <1> QED
    BY <1>1, <1>2 DEF Awaited, Late, Removing

LEMMA AwaitedKept ==
    ASSUME Typed, Typed', Awaited, [Next]_sessionVars
    PROVE  Awaited'
  <1> USE DEF Typed
  <1>1. CASE UNCHANGED <<req, session, password, openedWith, escaped>>
    BY <1>1 DEF Awaited, SessionFollowsPassword, At
  <1>2. ASSUME NEW p \in Procs, Done(p)
        PROVE  (\A q \in Procs \ {p} : Kept(q)) /\ ~Late(p)'
    BY <1>2, Ends, IdleFits DEF OthersKept, Late
  <1>3. ASSUME NEW p \in Procs, Login(p) PROVE Awaited'
    <2>1. ~Late(p)'
      BY <1>3, LoginEffect DEF Late, Login, database
    <2> QED
      BY <1>3, <2>1, LoginEffect, StaysAwaited DEF Login, OthersKept, At, redis, database, history
  <1>4. ASSUME NEW p \in Procs, NEW t \in tokens, RefreshToken(p, t) PROVE Awaited'
    <2>1. ~Late(p)'
      BY <1>4, RefreshTokenEffect DEF Late
    <2> QED
      BY <1>4, <2>1, RefreshTokenEffect, StaysAwaited
         DEF RefreshToken, OthersKept, At, redis, database, history
  <1>5. ASSUME NEW p \in Procs, UpdatePassword(p) PROVE Awaited'
    <2>1. ~Late(p)'
      BY <1>5, UpdatePasswordEffect DEF Late
    <2> QED
      BY <1>5, <2>1, UpdatePasswordEffect, StaysAwaited
         DEF UpdatePassword, OthersKept, At, redis, database, history
  \* The session is stored while a change of password is going to remove it,
  \* or after that: then it has escaped.
  <1>6. ASSUME NEW p \in Procs, StoreSession(p), req[p].stage = "store",
               \A q \in Procs \ {p} : Kept(q), ~Late(p)'
        PROVE  Awaited'
    <2>1. /\ session' = lastSid + 1 /\ password' = password
          /\ openedWith' = [openedWith EXCEPT ![lastSid + 1] = req[p].pw]
          /\ escaped' = IF req[p].overtaken THEN escaped \cup {lastSid + 1} ELSE escaped
      BY <1>6 DEF StoreSession, database
    <2>2. lastSid + 1 \in Sids /\ openedWith \in [Sids -> 0..MaxPassword]
      BY <1>6, SessionBounds DEF StoreSession, StateType, Sids
    <2>3. openedWith'[session'] = req[p].pw
      BY <2>1, <2>2
    <2>4. (\A q \in Procs : Late(q)' => Removing') /\ (Removing => Removing')
      BY <1>6, <2>1, NoneLater
    <2>5. Late(p) => Removing
      BY DEF Awaited, Late, Removing
    <2>6. req[p].overtaken => session' \in escaped'
      BY <2>1
    <2>7. SessionFollowsPassword'
      BY <1>6, <2>1, <2>3, <2>4, <2>5, <2>6 DEF SessionFollowsPassword, Late, Removing, At
    <2> QED
      BY <2>4, <2>7 DEF Awaited, Late, Removing
  <1>7. ASSUME NEW p \in Procs, SetUserSession(p) PROVE Awaited'
    <2>1. OthersKept(p) /\ ~Late(p)'
      BY <1>7, SetUserSessionEffect DEF Late
    <2> QED
      BY <1>6, <1>7, <2>1 DEF SetUserSession, At, OthersKept
  <1>8. ASSUME NEW p \in Procs, SetRefreshTokenID(p) PROVE Awaited'
    <2>1. OthersKept(p) /\ ~Late(p)'
      BY <1>8, SetRefreshTokenIDEffect DEF Late
    <2> QED
      BY <1>8, <2>1, StaysAwaited DEF SetRefreshTokenID, StoreRefresh, OthersKept, At, database
  <1>9. ASSUME NEW p \in Procs, LoginFails(p) PROVE Awaited'
    <2>1. (\A q \in Procs \ {p} : Kept(q)) /\ ~Late(p)'
      BY <1>2, <1>9 DEF LoginFails
    <2>2. CASE At(p, "store") /\ StoreSession(p)
      BY <1>6, <2>1, <2>2 DEF At
    <2>3. CASE req[p].stage # "delete" /\ UNCHANGED <<session, password, openedWith, escaped>>
      BY <2>1, <2>3, StaysAwaited
    <2> QED
      BY <1>9, <2>2, <2>3 DEF LoginFails, StoreRefresh, At, redis, database
  <1>10. ASSUME NEW p \in Procs, Done(p), req[p].stage # "delete",
                UNCHANGED <<session, password, openedWith, escaped>>
         PROVE  Awaited'
    BY <1>2, <1>10, StaysAwaited
  <1>11. ASSUME NEW p \in Procs, LoginReturns(p) PROVE Awaited'
    BY <1>10, <1>11 DEF LoginReturns, At, redis, database
  <1>12. ASSUME NEW p \in Procs, ExpireUserSession(p) PROVE Awaited'
    BY <1>10, <1>12 DEF ExpireUserSession, At, redis, database, history
  <1>13. ASSUME NEW p \in Procs, CompareRefresh(p) PROVE Awaited'
    <2>1. OthersKept(p) /\ ~Late(p)'
      <3>1. CASE Done(p)
        BY <3>1, Ends, IdleFits DEF Late
      <3>2. CASE Go(p, "exec")
        BY <3>2, Goes DEF Late, Stages
      <3> QED
        BY <1>13, <3>1, <3>2 DEF CompareRefresh
    <2> QED
      BY <1>13, <2>1, StaysAwaited DEF CompareRefresh, OthersKept, At, redis, database, history
  <1>14. ASSUME NEW p \in Procs, RotateRefreshTokenID(p) PROVE Awaited'
    <2>1. req[p].stage = "exec" /\ req[p].sid \in Sids
      BY <1>14 DEF RotateRefreshTokenID, At, ReqType, ReqOK
    <2>2. CASE Rotate(p) /\ req' = [Disturb(req, {req[p].sid})
                                     EXCEPT ![p].stage = "extend", ![p].new = lastRid + 1]
      <3>1. OthersKept(p) /\ ~Late(p)'
        BY <2>1, <2>2, RotateEffect DEF Late
      <3> QED
        BY <2>1, <2>2, <3>1, StaysAwaited DEF Rotate, OthersKept, database
    <2>3. CASE Done(p) /\ UNCHANGED <<redis, database, tokens, sockets, ids, openedWith, redeemed, escaped, missed>>
      BY <1>10, <2>1, <2>3 DEF redis, database
    <2> QED
      BY <1>14, <2>2, <2>3 DEF RotateRefreshTokenID
  <1>15. ASSUME NEW p \in Procs, RefreshFails(p) PROVE Awaited'
    <2>1. (\A q \in Procs \ {p} : Kept(q)) /\ ~Late(p)'
      BY <1>15, FailEffect, IdleFits DEF RefreshFails, OthersKept, Late
    <2>2. req[p].stage # "delete" /\ UNCHANGED <<session, password, openedWith, escaped>>
      BY <1>15 DEF RefreshFails, Rotate, At, redis, database
    <2> QED
      BY <2>1, <2>2, StaysAwaited
  <1>16. ASSUME NEW p \in Procs, RefreshRefused(p) PROVE Awaited'
    BY <1>10, <1>16 DEF RefreshRefused, At, redis, database, history
  \* The change goes on to remove the session.
  <1>17. ASSUME NEW p \in Procs, StorePassword(p) PROVE Awaited'
    <2>1. CASE Go(p, "delete")
      <3>1. Removing'
        BY <2>1, Goes DEF Removing, Stages
      <3> QED
        BY <3>1 DEF Removing, Awaited, SessionFollowsPassword, At
    <2>2. CASE ~exists /\ UNCHANGED password /\ Done(p)
      BY <1>10, <1>17, <2>2 DEF StorePassword, At, redis, history
    <2> QED
      BY <1>17, <2>1, <2>2 DEF StorePassword
  <1>18. ASSUME NEW p \in Procs, StorePasswordFails(p) PROVE Awaited'
    <2>1. \A q \in Procs : ~Late(q)'
      BY <1>18, StorePasswordFailsEffect, IdleFits DEF OthersKept, Kept, Late
    <2>2. session' = session /\ escaped' = escaped \cup ({session} \ {0})
      BY <1>18 DEF StorePasswordFails, redis
    <2> QED
      BY <2>1, <2>2 DEF Awaited, SessionFollowsPassword, Late
  <1>19. ASSUME NEW p \in Procs, NEW s \in Stages, s # "store", password' = password,
                req' = [PassLogins(password) EXCEPT ![p].stage = s]
         PROVE  \A q \in Procs : ~Late(q)'
    <2>1. /\ OthersKept(p) /\ req'[p].stage = s
          /\ \A q \in Procs \ {p} :
                req[q].stage = "store" /\ req[q].pw # password => req'[q].overtaken
      BY <1>19, DeleteEffect
    <2> QED
      BY <1>19, <2>1 DEF OthersKept, Kept, Late
  <1>20. ASSUME NEW p \in Procs, DelUserSession(p) PROVE Awaited'
    <2>1. \A q \in Procs : ~Late(q)'
      BY <1>19, <1>20 DEF DelUserSession, Stages, database
    <2>2. session' = 0
      BY <1>20 DEF DelUserSession
    <2> QED
      BY <2>1, <2>2 DEF Awaited, SessionFollowsPassword, Late
  <1>21. ASSUME NEW p \in Procs, DelUserSessionFails(p) PROVE Awaited'
    <2>1. UNCHANGED <<session, password, openedWith>>
      BY <1>21 DEF DelUserSessionFails, redis, database
    <2>2. CASE /\ escaped' = escaped \cup ({session} \ {0})
               /\ req' = [PassLogins(password) EXCEPT ![p].stage = "evict"]
      <3>1. \A q \in Procs : ~Late(q)'
        BY <1>19, <2>1, <2>2 DEF Stages
      <3> QED
        BY <2>1, <2>2, <3>1 DEF Awaited, SessionFollowsPassword, Late
    <2>3. CASE At(p, "sweep") /\ Go(p, "evict") /\ UNCHANGED escaped
      <3>1. OthersKept(p) /\ ~Late(p)'
        BY <2>3, Goes DEF Stages, Late
      <3> QED
        BY <2>1, <2>3, <3>1, StaysAwaited DEF OthersKept, At
    <2> QED
      BY <1>21, <2>2, <2>3 DEF DelUserSessionFails
  <1>22. ASSUME NEW p \in Procs, SweepRefreshKeys(p) PROVE Awaited'
    <2>1. OthersKept(p) /\ ~Late(p)'
      BY <1>22, SweepEffect DEF Late
    <2> QED
      BY <1>22, <2>1, StaysAwaited DEF SweepRefreshKeys, OthersKept, At, database
  <1>23. ASSUME NEW p \in Procs, UpdatePasswordReturns(p) PROVE Awaited'
    BY <1>10, <1>23 DEF UpdatePasswordReturns, At, redis, database
  <1>24. CASE Delete
    BY <1>1, <1>24 DEF Delete, redis, history
  <1>25. ASSUME NEW w \in Sockets, Listen(w) PROVE Awaited'
    BY <1>1, <1>25 DEF Listen, Authenticate, RegisterConnection, UnregisterConnection,
       redis, database, history
  <1>26. CASE SessionExpires
    BY <1>26 DEF SessionExpires, database, Awaited, SessionFollowsPassword
  <1>27. ASSUME NEW s \in Sids, RefreshExpires(s) PROVE Awaited'
    <2>1. \A q \in Procs : Kept(q)
      BY <1>27, ExpiresEffect
    <2>2. UNCHANGED <<session, password, openedWith, escaped>>
      BY <1>27 DEF RefreshExpires, database
    <2> QED
      BY <2>1, <2>2 DEF Awaited, SessionFollowsPassword, Kept, At
  <1>28. CASE Halt
    <2>1. \A q \in Procs : ~Late(q)'
      BY <1>28, HaltEffect, IdleFits DEF Late
    <2>2. UNCHANGED <<session, password, openedWith>>
          /\ escaped' = IF \E p \in Procs : At(p, "delete") THEN escaped \cup ({session} \ {0}) ELSE escaped
      BY <1>28 DEF Halt, redis, database
    <2>3. SessionFollowsPassword'
      BY <2>2 DEF Awaited, SessionFollowsPassword
    <2> QED
      BY <2>1, <2>3 DEF Awaited, Late
  <1>29. CASE UNCHANGED sessionVars
    BY <1>1, <1>29 DEF sessionVars, redis, database, history
  <1> QED
    BY <1>3, <1>4, <1>5, <1>7, <1>8, <1>9, <1>11, <1>12, <1>13, <1>14, <1>15, <1>16, <1>17, <1>18,
       <1>20, <1>21, <1>22, <1>23, <1>24, <1>25, <1>26, <1>27, <1>28, <1>29
    DEF Next, Arrive, Step, Return, Fault, Expire
----------------------------------------------------------------------------
LEMMA StaysFollowed ==
    ASSUME Followed, NEW p \in Procs, \A q \in Procs \ {p} : Kept(q),
           req[p].stage \notin {"remember", "login", "sweep", "evict"},
           UNCHANGED <<session, sockets, missed>>
    PROVE  Followed'
  <1>1. Kicking => Kicking'
    BY DEF Kicking, Kept
  <1> QED
    BY <1>1 DEF Followed, sockets

LEMMA WillBeFollowed ==
    ASSUME NEW p \in Procs, req'[p].stage \in {"remember", "login", "sweep", "evict"}
    PROVE  Followed'
  BY DEF Followed, Kicking

LEMMA FollowedKept ==
    ASSUME Typed, Typed', Followed, [Next]_sessionVars
    PROVE  Followed'
  <1> USE DEF Typed
  <1>1. CASE UNCHANGED <<req, session, sockets, missed>>
    BY <1>1 DEF Followed, Kicking, sockets
  <1>2. ASSUME NEW p \in Procs, Done(p) PROVE \A q \in Procs \ {p} : Kept(q)
    BY <1>2, Ends DEF OthersKept
  <1>3. ASSUME NEW p \in Procs, Login(p) PROVE Followed'
    BY <1>3, LoginEffect, StaysFollowed DEF Login, OthersKept, At, redis, history
  <1>4. ASSUME NEW p \in Procs, NEW t \in tokens, RefreshToken(p, t) PROVE Followed'
    BY <1>4, RefreshTokenEffect, StaysFollowed DEF RefreshToken, OthersKept, At, redis, history
  <1>5. ASSUME NEW p \in Procs, UpdatePassword(p) PROVE Followed'
    BY <1>5, UpdatePasswordEffect, StaysFollowed DEF UpdatePassword, OthersKept, At, redis, history
  <1>6. ASSUME NEW p \in Procs, SetUserSession(p) PROVE Followed'
    BY <1>6, SetUserSessionEffect, WillBeFollowed
  <1>7. ASSUME NEW p \in Procs, SetRefreshTokenID(p) PROVE Followed'
    BY <1>7, SetRefreshTokenIDEffect, WillBeFollowed
  <1>8. ASSUME NEW p \in Procs, LoginFails(p) PROVE Followed'
    <2>1. UNCHANGED sockets /\ missed' = missed \cup {w \in Sockets : conn[w] # "off"}
      BY <1>8 DEF LoginFails, StoreSession, StoreRefresh
    <2> QED
      BY <2>1 DEF Followed, sockets
  \* What is still connected after the kick has not registered yet.
  <1>10. ASSUME NEW p \in Procs, LoginReturns(p) PROVE Followed'
    BY <1>10 DEF LoginReturns, KickUserConnections, Followed, StateType
  <1>11. ASSUME NEW p \in Procs, UpdatePasswordReturns(p) PROVE Followed'
    BY <1>11 DEF UpdatePasswordReturns, KickUserConnections, Followed, StateType
  <1>12. ASSUME NEW p \in Procs, ExpireUserSession(p) PROVE Followed'
    BY <1>2, <1>12, StaysFollowed DEF ExpireUserSession, At, redis, history
  <1>13. ASSUME NEW p \in Procs, CompareRefresh(p) PROVE Followed'
    <2>1. OthersKept(p)
      BY <1>13, Ends, Goes DEF CompareRefresh, Stages
    <2> QED
      BY <1>13, <2>1, StaysFollowed DEF CompareRefresh, OthersKept, At, redis, history
  <1>14. ASSUME NEW p \in Procs, RotateRefreshTokenID(p) PROVE Followed'
    <2>1. req[p].stage = "exec" /\ req[p].sid \in Sids
      BY <1>14 DEF RotateRefreshTokenID, At, ReqType, ReqOK
    <2>2. CASE Rotate(p) /\ req' = [Disturb(req, {req[p].sid})
                                     EXCEPT ![p].stage = "extend", ![p].new = lastRid + 1]
      BY <2>1, <2>2, RotateEffect, StaysFollowed DEF Rotate, OthersKept
    <2>3. CASE Done(p) /\ UNCHANGED <<redis, database, tokens, sockets, ids, openedWith, redeemed, escaped, missed>>
      BY <1>2, <2>1, <2>3, StaysFollowed DEF redis
    <2> QED
      BY <1>14, <2>2, <2>3 DEF RotateRefreshTokenID
  <1>15. ASSUME NEW p \in Procs, RefreshFails(p) PROVE Followed'
    <2>1. \A q \in Procs \ {p} : Kept(q)
      BY <1>15, FailEffect DEF RefreshFails, OthersKept
    <2>2. req[p].stage \in {"exec", "extend"} /\ UNCHANGED <<session, sockets, missed>>
      BY <1>15 DEF RefreshFails, Rotate, At, redis
    <2> QED
      BY <2>1, <2>2, StaysFollowed
  <1>16. ASSUME NEW p \in Procs, RefreshRefused(p) PROVE Followed'
    BY <1>2, <1>16, StaysFollowed DEF RefreshRefused, At, redis, history
  <1>17. ASSUME NEW p \in Procs, StorePassword(p) PROVE Followed'
    <2>1. OthersKept(p)
      BY <1>17, Ends, Goes DEF StorePassword, Stages
    <2> QED
      BY <1>17, <2>1, StaysFollowed DEF StorePassword, OthersKept, At, redis, history
  <1>18. ASSUME NEW p \in Procs, StorePasswordFails(p) PROVE Followed'
    BY <1>18, StorePasswordFailsEffect, StaysFollowed DEF StorePasswordFails, OthersKept, At, redis
  <1>19. ASSUME NEW p \in Procs, DelUserSession(p) PROVE Followed'
    BY <1>19, DeleteEffect, WillBeFollowed DEF DelUserSession, Stages
  <1>20. ASSUME NEW p \in Procs, DelUserSessionFails(p) PROVE Followed'
    BY <1>20, DeleteEffect, Goes, WillBeFollowed DEF DelUserSessionFails, Stages
  <1>21. ASSUME NEW p \in Procs, SweepRefreshKeys(p) PROVE Followed'
    BY <1>21, SweepEffect, WillBeFollowed
  <1>22. CASE Delete
    BY <1>1, <1>22 DEF Delete, redis, history
  <1>23. ASSUME NEW w \in Sockets, Listen(w) PROVE Followed'
    <2>1. Kicking' <=> Kicking
      BY <1>23 DEF Listen, Authenticate, RegisterConnection, UnregisterConnection, Kicking
    <2>2. UNCHANGED session
      BY <1>23 DEF Listen, Authenticate, RegisterConnection, UnregisterConnection, redis
    <2>3. CASE Authenticate(w)
      BY <2>1, <2>2, <2>3 DEF Authenticate, history, Followed, StateType
    <2>4. CASE RegisterConnection(w)
      BY <2>1, <2>2, <2>4 DEF RegisterConnection, history, Followed, StateType
    <2>5. CASE UnregisterConnection(w)
      BY <2>1, <2>2, <2>5 DEF UnregisterConnection, Followed, StateType
    <2> QED
      BY <1>23, <2>3, <2>4, <2>5 DEF Listen
  <1>24. CASE SessionExpires
    BY <1>24 DEF SessionExpires, sockets, Followed
  <1>25. ASSUME NEW s \in Sids, RefreshExpires(s) PROVE Followed'
    <2>1. Kicking' <=> Kicking
      BY <1>25, ExpiresEffect DEF Kicking, Kept
    <2> QED
      BY <1>25, <2>1 DEF RefreshExpires, sockets, Followed
  <1>26. CASE Halt
    BY <1>26 DEF Halt, Followed
  <1>27. CASE UNCHANGED sessionVars
    BY <1>1, <1>27 DEF sessionVars, redis, history
  <1> QED
    BY <1>3, <1>4, <1>5, <1>6, <1>7, <1>8, <1>10, <1>11, <1>12, <1>13, <1>14, <1>15, <1>16, <1>17,
       <1>18, <1>19, <1>20, <1>21, <1>22, <1>23, <1>24, <1>25, <1>26, <1>27
    DEF Next, Arrive, Step, Return, Fault, Expire

----------------------------------------------------------------------------
LEMMA InitInv == Init => IInv
  <1> SUFFICES ASSUME Init PROVE IInv
    OBVIOUS
  <1>1. \A p \in Procs : req[p] = Idle
    BY DEF Init
  <1>2. TypeOK
    BY <1>1, IdleFits, SessionBounds DEF Init, TypeOK
  <1>3. Known /\ Fresh
    BY <1>1, IdleFits DEF Init, Known, Fresh
  <1>4. Chain /\ RefreshRedeemedOnce
    BY <1>1, IdleFits DEF Init, Chain, RefreshRedeemedOnce
  <1>5. Refreshable /\ Awaited /\ Followed
    BY <1>1, IdleFits DEF Init, Refreshable, Awaited, Followed, SessionFollowsPassword
  <1> QED
    BY <1>2, <1>3, <1>4, <1>5 DEF IInv

LEMMA FailuresCounted ==
    ASSUME failures \in 0..MaxFailures, [Next]_sessionVars
    PROVE  failures' \in 0..MaxFailures
  BY SessionBounds DEF Next, sessionVars

LEMMA NextInv == IInv /\ [Next]_sessionVars => IInv'
  <1> SUFFICES ASSUME IInv, [Next]_sessionVars PROVE IInv'
    OBVIOUS
  <1>1. Typed
    BY TypesSplit DEF IInv, Typed
  <1>2. Typed' /\ TypeOK'
    <2>1. StateType' /\ ReqType' /\ failures' \in 0..MaxFailures
      BY <1>1, TypesKept, FailuresCounted DEF IInv, Typed, TypeOK
    <2> QED
      BY <2>1 DEF Typed, TypeOK, StateType, ReqType, ReqOK
  <1>3. Known' /\ Fresh'
    BY <1>1, <1>2, KnownKept, FreshKept DEF IInv
  <1>4. Chain' /\ RefreshRedeemedOnce'
    BY <1>1, <1>2, <1>3, ChainKept DEF IInv
  <1>5. Refreshable' /\ Awaited' /\ Followed'
    BY <1>1, <1>2, RefreshableKept, AwaitedKept, FollowedKept DEF IInv
  <1> QED
    BY <1>2, <1>3, <1>4, <1>5 DEF IInv
\* The invariant holds in every reachable state of the account.
THEOREM InvHolds == Spec => []IInv
  <1> QED
    BY InitInv, NextInv, PTL DEF Spec

----------------------------------------------------------------------------
\* Every variable of the account keeps its type, whatever handlers of
\* user_handler.go run together and whatever fails or expires.
THEOREM SessionTypesHold == Spec => []TypeOK
  <1>1. IInv => TypeOK
    BY DEF IInv
  <1> QED
    BY <1>1, InvHolds, PTL

\* RotateRefreshTokenID's WATCH makes compare and exchange one step: of the
\* requests that present one refresh token, any number at once, one succeeds.
THEOREM TokensRedeemOnce == Spec => []RefreshRedeemedOnce
  <1>1. IInv => RefreshRedeemedOnce
    BY DEF IInv
  <1> QED
    BY <1>1, InvHolds, PTL

\* Login and RefreshToken hand out the pair that Redis would redeem next, so
\* that the valid session can be refreshed unless a command, an answer or a
\* key was lost.
THEOREM ValidSessionRefreshable == Spec => []CurrentSessionRefreshable
  <1>1. IInv => CurrentSessionRefreshable
    <2> SUFFICES ASSUME IInv, session # 0, session \notin cutOff,
                        \A p \in Procs : req[p].sid = session => At(p, "watch") \/ At(p, "exec")
                 PROVE  [sid |-> session, rid |-> refresh[session]] \in tokens
      BY DEF CurrentSessionRefreshable
    <2>1. session \in 1..lastSid
      BY SessionBounds DEF IInv, TypeOK, Known
    <2>2. \A p \in Procs : ~Brings(p, session)
      BY DEF Brings, At
    <2> QED
      BY <2>1, <2>2 DEF IInv, Refreshable
  <1> QED
    BY <1>1, InvHolds, PTL

\* A registered socket of a session that was replaced or removed has a kick of
\* Login or UpdatePassword coming, unless it registered after it.
THEOREM StaleSocketsAreKicked == Spec => []SocketsFollowSession
  <1>1. IInv => SocketsFollowSession
    BY DEF IInv, Followed, Kicking, SocketsFollowSession
  <1> QED
    BY <1>1, InvHolds, PTL

\* UpdatePassword leaves no session that was opened with an older password,
\* except behind a failure or a login that it overtook.
THEOREM PasswordEndsSessions == Spec => []SessionFollowsPassword
  <1>1. IInv => SessionFollowsPassword
    BY DEF IInv, Awaited
  <1> QED
    BY <1>1, InvHolds, PTL

\* A session that Redis has dropped is never stored again: only Login writes
\* the key, and always with a new id.
THEOREM SessionsNeverRevived == Spec => NeverRevived
  <1>1. IInv /\ [Next]_sessionVars =>
           [session' # session => session' = 0 \/ session' > lastSid]_sessionVars
    <2> SUFFICES ASSUME IInv, Next, session' # session
                 PROVE  session' = 0 \/ session' = lastSid + 1
      BY SessionBounds DEF IInv, TypeOK
    <2> QED
      BY DEF Next, Arrive, Step, Return, Fault, Expire, Listen, Login, RefreshToken, UpdatePassword,
         SetUserSession, StoreSession, SetRefreshTokenID, StoreRefresh, CompareRefresh,
         RotateRefreshTokenID, Rotate, ExpireUserSession, StorePassword, DelUserSession,
         SweepRefreshKeys, LoginReturns, UpdatePasswordReturns, LoginFails, RefreshRefused,
         RefreshFails, StorePasswordFails, DelUserSessionFails, Delete, Authenticate,
         RegisterConnection, UnregisterConnection, SessionExpires, RefreshExpires, Halt, redis
  <1> QED
    BY <1>1, InvHolds, PTL DEF Spec, NeverRevived
=============================================================================
