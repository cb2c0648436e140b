----------------------------- MODULE FeedProofs -----------------------------
(* Feed, for any accounts, posts, comments and requests in flight: the      *)
(* counters of a post match its rows.                                       *)
(*                                                                          *)
(* The invariant adds what a request knows of the rows it is going to       *)
(* change: under the lock of the post nobody else writes them, except the   *)
(* deletion of an account, which only takes rows away.                      *)
EXTENDS Feed, FiniteSetTheorems, TLAPS

\* What a request in flight relies on.
Fits(j) ==
    /\ j.stage # "idle" => j.post \in Posts /\ j.user \in Authors
    /\ j.stage = "like" => <<j.post, j.user>> \notin likes
    /\ j.stage \in {"parent", "lock", "remove"} =>
          /\ j.comment \in Comments
          /\ comment[j.comment].post = j.post
          /\ comment[j.comment].state # "none"

\* A comment is under a post.
Attached == \A c \in Comments : comment[c].state = "live" => comment[c].post \in Posts

IInv ==
    /\ FeedTypeOK
    /\ \A p \in Handlers : Fits(job[p])
    /\ Attached
    /\ IsFiniteSet(likes)
    /\ LikesCounted /\ CommentsCounted

Locked ==
    \A p \in Handlers, x \in Posts :
        Holds(p, x) => post[x] = "live" /\ \A q \in Handlers : Holds(q, x) => q = p

RowTypes ==
    /\ post \in [Posts -> {"none", "live", "deleted", "gone"}]
    /\ author \in [Posts -> Authors \cup {None}]
    /\ likes \subseteq Posts \X Authors
    /\ comment \in [Comments -> CommentType]
    /\ likeCount \in [Posts -> Nat] /\ commentCount \in [Posts -> Nat]
    /\ deletions \in 0..MaxDeletions
    /\ sweptLikes \in [Posts -> Nat] /\ sweptComments \in [Posts -> Nat]

rows == <<post, author, likes, comment, counters, swept>>

----------------------------------------------------------------------------
LEMMA TypesSplit == FeedTypeOK <=> RowTypes /\ job \in [Handlers -> JobType] /\ Locked
  BY DEF FeedTypeOK, RowTypes, Locked

LEMMA NoJobFits == NoJob \in JobType /\ Fits(NoJob) /\ NoJob.stage = "idle"
  BY DEF NoJob, JobType, Holding, Fits

LEMMA InitInv == FeedInit => IInv
  <1> SUFFICES ASSUME FeedInit PROVE IInv
    OBVIOUS
  <1>1. \A p \in Handlers : job[p] = NoJob
    BY DEF FeedInit
  <1>2. NoComment \in CommentType
    BY DEF NoComment, CommentType
  <1>3. RowTypes
    BY <1>2, FeedBounds DEF FeedInit, RowTypes
  <1>4. job \in [Handlers -> JobType] /\ Locked /\ \A p \in Handlers : Fits(job[p])
    BY <1>1, NoJobFits DEF FeedInit, Locked, Holds, Holding
  <1>5. Attached
    BY DEF FeedInit, Attached, NoComment
  <1>6. IsFiniteSet(likes) /\ Cardinality({}) = 0
    BY FS_EmptySet DEF FeedInit
  <1>7. \A x \in Posts : LikesOf(x) = {} /\ CommentsOf(x) = {}
    BY DEF FeedInit, LikesOf, CommentsOf, NoComment
  <1>8. LikesCounted /\ CommentsCounted
    BY <1>6, <1>7 DEF FeedInit, LikesCounted, CommentsCounted
  <1> QED
    BY <1>3, <1>4, <1>5, <1>6, <1>8, TypesSplit DEF IInv

----------------------------------------------------------------------------
(* The steps that change no row: one request moves on.                      *)

LEMMA Works ==
    ASSUME IInv, NEW p \in Handlers, NEW j \in JobType, Fits(j),
           job' = [job EXCEPT ![p] = j], UNCHANGED rows,
           j.stage \in Holding =>
              post[j.post] = "live" /\ \A q \in Handlers \ {p} : ~Holds(q, j.post)
    PROVE  IInv'
  <1>1. RowTypes /\ job \in [Handlers -> JobType] /\ Locked
    BY TypesSplit DEF IInv
  <1>2. \A q \in Handlers : job'[q] = IF q = p THEN j ELSE job[q]
    BY <1>1
  <1>3. RowTypes' /\ Attached' /\ IsFiniteSet(likes)'
    BY <1>1 DEF IInv, RowTypes, rows, counters, swept, Attached
  <1>4. job' \in [Handlers -> JobType]
    BY <1>1
  <1>5. Locked'
    <2> SUFFICES ASSUME NEW q \in Handlers, NEW x \in Posts, Holds(q, x)'
                 PROVE  post[x] = "live" /\ \A r \in Handlers : Holds(r, x)' => r = q
      BY DEF Locked, rows
    <2>1. \A r \in Handlers \ {p} : Holds(r, x)' <=> Holds(r, x)
      BY <1>2 DEF Holds
    <2>2. Holds(p, x)' <=> j.stage \in Holding /\ j.post = x
      BY <1>2 DEF Holds
    <2>3. CASE q = p
      BY <2>1, <2>2, <2>3
    <2>4. CASE q # p
      <3>1. Holds(q, x)
        BY <2>1, <2>4
      <3>2. ~Holds(p, x)'
        BY <2>2, <2>4, <3>1
      <3> QED
        BY <1>1, <2>1, <2>4, <3>1, <3>2 DEF Locked
    <2> QED
      BY <2>3, <2>4
  <1>6. \A q \in Handlers : Fits(job[q])'
    BY <1>2 DEF IInv, Fits, rows
  <1>7. LikesCounted' /\ CommentsCounted'
    BY DEF IInv, LikesCounted, CommentsCounted, LikesOf, CommentsOf, rows, counters, swept
  <1>8. FeedTypeOK'
    BY <1>3, <1>4, <1>5 DEF FeedTypeOK, RowTypes, Locked
  <1> QED
    BY <1>3, <1>6, <1>7, <1>8 DEF IInv

LEMMA Ends ==
    ASSUME IInv, NEW p \in Handlers, Finished(p), UNCHANGED rows
    PROVE  IInv'
  <1>1. job' = [job EXCEPT ![p] = NoJob]
    BY DEF Finished
  <1>2. NoJob.stage \notin Holding
    BY NoJobFits DEF Holding
  <1> QED
    BY <1>1, <1>2, NoJobFits, Works

LEMMA LockPostStep ==
    ASSUME IInv, NEW p \in Handlers, NEW u \in Authors, NEW x \in Posts, LockPost(p, u, x)
    PROVE  IInv'
  <1> DEFINE j == [NoJob EXCEPT !.stage = "find", !.user = u, !.post = x]
  <1>1. j \in JobType /\ Fits(j) /\ j.post = x
    BY DEF NoJob, JobType, Holding, Fits
  <1>2. job' = [job EXCEPT ![p] = j] /\ UNCHANGED rows
    BY DEF LockPost, Take, rows
  <1>3. post[j.post] = "live" /\ \A q \in Handlers \ {p} : ~Holds(q, j.post)
    BY <1>1 DEF LockPost, PostFree
  <1> HIDE DEF j
  <1> QED
    BY <1>1, <1>2, <1>3, Works

LEMMA FindLikeStep ==
    ASSUME IInv, NEW p \in Handlers, FindLike(p)
    PROVE  IInv'
  <1> DEFINE s == IF <<job[p].post, job[p].user>> \in likes THEN "unlike" ELSE "like"
             j == [job[p] EXCEPT !.stage = s]
  <1>1. job[p] \in JobType /\ job[p].stage = "find" /\ Fits(job[p])
    BY DEF FindLike, Doing, IInv, FeedTypeOK
  <1>2. s \in {"like", "unlike"} /\ (s = "like" => <<job[p].post, job[p].user>> \notin likes)
    OBVIOUS
  <1>3. job' = [job EXCEPT ![p] = j] /\ UNCHANGED rows
    BY DEF FindLike, Proceed, rows
  <1> HIDE DEF s
  <1>4. j \in JobType /\ Fits(j) /\ j.post = job[p].post /\ j.post \in Posts
    BY <1>1, <1>2 DEF JobType, Holding, Fits
  <1>5. post[j.post] = "live" /\ \A q \in Handlers \ {p} : ~Holds(q, j.post)
    BY <1>1, <1>4 DEF IInv, FeedTypeOK, Holds, Holding
  <1> HIDE DEF j
  <1> QED
    BY <1>3, <1>4, <1>5, Works

LEMMA CreateCommentStep ==
    ASSUME IInv, NEW p \in Handlers, NEW u \in Authors, NEW x \in Posts, CreateComment(p, u, x)
    PROVE  IInv'
  <1> DEFINE j == [NoJob EXCEPT !.stage = "comment", !.user = u, !.post = x]
  <1>1. j \in JobType /\ Fits(j) /\ j.stage \notin Holding
    BY DEF NoJob, JobType, Holding, Fits
  <1>2. job' = [job EXCEPT ![p] = j] /\ UNCHANGED rows
    BY DEF CreateComment, Take, rows
  <1> HIDE DEF j
  <1> QED
    BY <1>1, <1>2, Works

LEMMA DeleteCommentStep ==
    ASSUME IInv, NEW p \in Handlers, NEW u \in Authors, NEW c \in Comments, DeleteComment(p, u, c)
    PROVE  IInv'
  <1> DEFINE j == [NoJob EXCEPT !.stage = "parent", !.user = u, !.post = comment[c].post,
                                !.comment = c]
  <1>1. comment[c].state = "live" /\ comment[c].post \in Posts
    BY DEF DeleteComment, IInv, Attached
  <1>2. j \in JobType /\ Fits(j) /\ j.stage \notin Holding
    BY <1>1 DEF NoJob, JobType, Holding, Fits
  <1>3. job' = [job EXCEPT ![p] = j] /\ UNCHANGED rows
    BY DEF DeleteComment, Take, rows
  <1> HIDE DEF j
  <1> QED
    BY <1>2, <1>3, Works

LEMMA FindParentStep ==
    ASSUME IInv, NEW p \in Handlers, FindParent(p)
    PROVE  IInv'
  <1> DEFINE j == [job[p] EXCEPT !.stage = "lock"]
  <1>1. job[p] \in JobType /\ job[p].stage = "parent" /\ Fits(job[p]) /\ UNCHANGED rows
    BY DEF FindParent, Doing, IInv, FeedTypeOK, rows
  <1>2. CASE Finished(p)
    BY <1>1, <1>2, Ends
  <1>3. CASE Proceed(p, "lock")
    <2>1. j \in JobType /\ Fits(j) /\ j.stage \notin Holding
      BY <1>1 DEF JobType, Holding, Fits
    <2>2. job' = [job EXCEPT ![p] = j]
      BY <1>3 DEF Proceed
    <2> HIDE DEF j
    <2> QED
      BY <1>1, <2>1, <2>2, Works
  <1> QED
    BY <1>2, <1>3 DEF FindParent

\* The comment may be gone by now: Fits says no more than that it has been there.
LEMMA LockParentStep ==
    ASSUME IInv, NEW p \in Handlers, LockParent(p)
    PROVE  IInv'
  <1> DEFINE j == [job[p] EXCEPT !.stage = "remove"]
  <1>1. job[p] \in JobType /\ job[p].stage = "lock" /\ Fits(job[p]) /\ UNCHANGED rows
    BY DEF LockParent, Doing, IInv, FeedTypeOK, rows
  <1>2. CASE Finished(p)
    BY <1>1, <1>2, Ends
  <1>3. CASE Proceed(p, "remove") /\ post[job[p].post] = "live" /\ PostFree(job[p].post)
    <2>1. j \in JobType /\ Fits(j) /\ j.post = job[p].post
      BY <1>1 DEF JobType, Holding, Fits
    <2>2. job' = [job EXCEPT ![p] = j]
      BY <1>3 DEF Proceed
    <2>3. post[j.post] = "live" /\ \A q \in Handlers \ {p} : ~Holds(q, j.post)
      BY <1>3, <2>1 DEF PostFree
    <2> HIDE DEF j
    <2> QED
      BY <1>1, <2>1, <2>2, <2>3, Works
  <1> QED
    BY <1>2, <1>3 DEF LockParent

LEMMA RollbackStep ==
    ASSUME IInv, NEW p \in Handlers, RollbackJob(p)
    PROVE  IInv'
  BY Ends DEF RollbackJob, rows

----------------------------------------------------------------------------
(* The steps that change rows.                                              *)

\* The requests are left as good as they were: `p` is finished or nobody is.
LEMMA JobsStay ==
    ASSUME IInv, NEW p, UNCHANGED job \/ (p \in Handlers /\ Finished(p)),
           \A x \in Posts : post[x] = "live" =>
              post'[x] = "live" \/ \A q \in Handlers : ~Holds(q, x),
           \A c \in Comments : comment[c].state # "none" =>
              comment'[c].state # "none" /\ comment'[c].post = comment[c].post,
           \A q \in Handlers \ {p} : job[q].stage = "like" =>
              (<<job[q].post, job[q].user>> \in likes' => <<job[q].post, job[q].user>> \in likes),
           job' = job => likes' \subseteq likes
    PROVE  job' \in [Handlers -> JobType] /\ Locked' /\ \A q \in Handlers : Fits(job[q])'
  <1>1. job \in [Handlers -> JobType] /\ Locked /\ \A q \in Handlers : Fits(job[q])
    BY TypesSplit DEF IInv
  <1>2. \A q \in Handlers : job'[q] = job[q] \/ (q = p /\ job'[q] = NoJob)
    BY <1>1 DEF Finished
  <1>3. job' \in [Handlers -> JobType]
    BY <1>1, NoJobFits DEF Finished
  <1>4. \A q \in Handlers, x \in Posts : Holds(q, x)' => Holds(q, x)
    BY <1>2, NoJobFits DEF Holds, Holding
  <1>5. Locked'
    BY <1>1, <1>4 DEF Locked
  <1>6. ASSUME NEW q \in Handlers PROVE Fits(job[q])'
    <2>1. CASE job'[q] = NoJob
      BY <2>1, NoJobFits DEF Fits
    <2>2. CASE job'[q] = job[q] /\ (q # p \/ job' = job)
      <3>1. Fits(job[q])
        BY <1>1
      <3>2. job[q].stage = "like" => <<job[q].post, job[q].user>> \notin likes'
        BY <2>2, <3>1 DEF Fits
      <3> QED
        BY <2>2, <3>1, <3>2 DEF Fits
    <2>3. CASE job'[q] = job[q] /\ q = p /\ job' # job
      BY <1>1, <2>1, <2>3 DEF Finished
    <2> QED
      BY <1>2, <2>1, <2>2, <2>3
  <1> QED
    BY <1>3, <1>5, <1>6

LEMMA CreatePostStep ==
    ASSUME IInv, NEW u \in Authors, NEW x \in Posts, CreatePost(u, x)
    PROVE  IInv'
  <1>1. RowTypes /\ Locked
    BY TypesSplit DEF IInv
  <1>2. \A y \in Posts : post'[y] = IF y = x THEN "live" ELSE post[y]
    BY <1>1 DEF CreatePost, RowTypes
  <1>3. RowTypes' /\ Attached' /\ IsFiniteSet(likes)'
    BY <1>1 DEF IInv, CreatePost, RowTypes, counters, swept, Attached
  <1>4. job' \in [Handlers -> JobType] /\ Locked' /\ \A q \in Handlers : Fits(job[q])'
    BY <1>2, JobsStay DEF CreatePost
  <1>5. LikesCounted' /\ CommentsCounted'
    BY <1>2 DEF IInv, CreatePost, LikesCounted, CommentsCounted, LikesOf, CommentsOf,
       counters, swept
  <1>6. FeedTypeOK'
    BY <1>3, <1>4 DEF FeedTypeOK, RowTypes, Locked
  <1> QED
    BY <1>3, <1>4, <1>5, <1>6 DEF IInv

LEMMA DeletePostStep ==
    ASSUME IInv, NEW x \in Posts, DeletePost(x)
    PROVE  IInv'
  <1>1. RowTypes
    BY TypesSplit DEF IInv
  <1>2. \A y \in Posts : post'[y] = IF y = x THEN "deleted" ELSE post[y]
    BY <1>1 DEF DeletePost, RowTypes
  <1>3. RowTypes' /\ Attached' /\ IsFiniteSet(likes)'
    BY <1>1 DEF IInv, DeletePost, RowTypes, counters, swept, Attached
  <1>4. job' \in [Handlers -> JobType] /\ Locked' /\ \A q \in Handlers : Fits(job[q])'
    BY <1>2, JobsStay DEF DeletePost, PostFree
  <1>5. LikesCounted' /\ CommentsCounted'
    BY <1>2 DEF IInv, DeletePost, LikesCounted, CommentsCounted, LikesOf, CommentsOf,
       counters, swept
  <1>6. FeedTypeOK'
    BY <1>3, <1>4 DEF FeedTypeOK, RowTypes, Locked
  <1> QED
    BY <1>3, <1>4, <1>5, <1>6 DEF IInv

\* What JobsStay is for: the rest of the invariant is about rows only.
LEMMA Reassemble ==
    ASSUME RowTypes', Attached', IsFiniteSet(likes)', LikesCounted', CommentsCounted',
           job' \in [Handlers -> JobType], Locked', \A q \in Handlers : Fits(job[q])'
    PROVE  IInv'
  BY DEF IInv, FeedTypeOK, RowTypes, Locked

LEMMA LikesFinite ==
    ASSUME IInv, NEW x \in Posts
    PROVE  IsFiniteSet(LikesOf(x)) /\ Cardinality(LikesOf(x)) \in Nat
  BY FS_Subset, FS_CardinalityType DEF IInv, LikesOf

LEMMA CommentsFinite ==
    ASSUME NEW x \in Posts
    PROVE  IsFiniteSet(CommentsOf(x)) /\ Cardinality(CommentsOf(x)) \in Nat
  BY FeedBounds, FS_Subset, FS_CardinalityType DEF CommentsOf

\* A request that likes is the only one to write likes of its post.
LEMMA LikeStep ==
    ASSUME IInv, NEW p \in Handlers, Like(p)
    PROVE  IInv'
  <1> DEFINE x == job[p].post
             l == <<x, job[p].user>>
  <1>1. job[p].stage = "like" /\ x \in Posts /\ l \in Posts \X Authors /\ l \notin likes
    BY DEF Like, Doing, IInv, Fits
  <1>2. RowTypes /\ Locked /\ IsFiniteSet(likes) /\ Holds(p, x)
    BY <1>1, TypesSplit DEF IInv, Holds, Holding
  <1>3. likes' = likes \cup {l} /\ Finished(p)
    BY DEF Like
  <1>4. \A y \in Posts : likeCount'[y] = IF y = x THEN likeCount[y] + 1 ELSE likeCount[y]
    BY <1>1, <1>2 DEF Like, RowTypes
  <1>5. UNCHANGED <<post, author, comment, commentCount, swept>>
    BY DEF Like
  <1>6. likeCount' \in [Posts -> Nat]
    BY <1>1, <1>2 DEF Like, RowTypes
  <1> HIDE DEF x
  <1>7. RowTypes' /\ Attached' /\ IsFiniteSet(likes)'
    <2>1. IsFiniteSet(likes)'
      BY <1>2, <1>3, FS_AddElement
    <2>2. Attached'
      BY <1>5 DEF IInv, Attached
    <2>3. likes' \subseteq Posts \X Authors
      BY <1>1, <1>2, <1>3 DEF RowTypes
    <2> QED
      BY <1>2, <1>5, <1>6, <2>1, <2>2, <2>3 DEF RowTypes, swept
  <1>8. ASSUME NEW q \in Handlers \ {p}, job[q].stage = "like"
        PROVE  <<job[q].post, job[q].user>> # l
    BY <1>1, <1>2, <1>8 DEF Locked, Holds, Holding
  <1>9. job' \in [Handlers -> JobType] /\ Locked' /\ \A q \in Handlers : Fits(job[q])'
    <2>1. \A q \in Handlers \ {p} : job[q].stage = "like" =>
              (<<job[q].post, job[q].user>> \in likes' => <<job[q].post, job[q].user>> \in likes)
      BY <1>3, <1>8
    <2>2. job' # job
      BY <1>1, <1>3, NoJobFits, TypesSplit DEF Finished, IInv
    <2> QED
      BY <1>3, <1>5, <2>1, <2>2, JobsStay
  <1>10. \A y \in Posts : LikesOf(y)' = IF y = x THEN LikesOf(y) \cup {l} ELSE LikesOf(y)
    BY <1>3 DEF LikesOf
  <1>11. \A y \in Posts : Cardinality(LikesOf(y))'
                            = Cardinality(LikesOf(y)) + (IF y = x THEN 1 ELSE 0)
    <2> SUFFICES ASSUME NEW y \in Posts
                 PROVE  Cardinality(LikesOf(y)') = Cardinality(LikesOf(y)) + (IF y = x THEN 1 ELSE 0)
      OBVIOUS
    <2>1. l \notin LikesOf(y)
      BY <1>1 DEF LikesOf
    <2> QED
      BY <1>10, <2>1, LikesFinite, FS_AddElement
  <1>12. LikesCounted'
    <2> SUFFICES ASSUME NEW y \in Posts, post[y] # "gone"
                 PROVE  likeCount'[y] = Cardinality(LikesOf(y))' + sweptLikes[y]
      BY <1>5 DEF LikesCounted, swept
    <2>1. likeCount[y] = Cardinality(LikesOf(y)) + sweptLikes[y] /\ sweptLikes[y] \in Nat
      BY <1>2 DEF IInv, LikesCounted, RowTypes
    <2> QED
      BY <1>4, <1>11, <2>1, LikesFinite
  <1>13. CommentsCounted'
    BY <1>5 DEF IInv, CommentsCounted, CommentsOf, swept
  <1> QED
    BY <1>7, <1>9, <1>12, <1>13, Reassemble

\* A row that left with its account is not counted off a second time.
LEMMA UnlikeStep ==
    ASSUME IInv, NEW p \in Handlers, Unlike(p)
    PROVE  IInv'
  <1> DEFINE x == job[p].post
             l == <<x, job[p].user>>
  <1>1. job[p].stage = "unlike" /\ x \in Posts /\ l \in Posts \X Authors
    BY DEF Unlike, Doing, IInv, Fits
  <1>2. RowTypes /\ Locked /\ IsFiniteSet(likes) /\ Finished(p)
    BY TypesSplit DEF IInv, Unlike
  <1>3. UNCHANGED <<post, author, comment, commentCount, swept>>
    BY DEF Unlike
  <1>4. CASE UNCHANGED <<likes, likeCount>>
    BY <1>2, <1>3, <1>4, Ends DEF rows, counters
  <1>5. CASE /\ l \in likes /\ likeCount[x] > 0
             /\ likes' = likes \ {l} /\ likeCount' = [likeCount EXCEPT ![x] = @ - 1]
    <2>1. \A y \in Posts : likeCount'[y] = IF y = x THEN likeCount[y] - 1 ELSE likeCount[y]
      BY <1>1, <1>2, <1>5 DEF RowTypes
    <2>2. likeCount' \in [Posts -> Nat]
      <3>1. likeCount[x] - 1 \in Nat
        BY <1>1, <1>2, <1>5 DEF RowTypes
      <3> QED
        BY <1>2, <1>5, <3>1 DEF RowTypes
    <2>3. RowTypes' /\ Attached' /\ IsFiniteSet(likes)'
      <3>1. IsFiniteSet(likes)'
        BY <1>2, <1>5, FS_RemoveElement
      <3>2. Attached'
        BY <1>3 DEF IInv, Attached
      <3>3. likes' \subseteq Posts \X Authors
        BY <1>2, <1>5 DEF RowTypes
      <3> QED
        BY <1>2, <1>3, <2>2, <3>1, <3>2, <3>3 DEF RowTypes, swept
    <2>4. job' \in [Handlers -> JobType] /\ Locked' /\ \A q \in Handlers : Fits(job[q])'
      BY <1>2, <1>3, <1>5, JobsStay
    <2>5. \A y \in Posts : LikesOf(y)' = IF y = x THEN LikesOf(y) \ {l} ELSE LikesOf(y)
      BY <1>5 DEF LikesOf
    <2>6. \A y \in Posts : Cardinality(LikesOf(y)')
                             = Cardinality(LikesOf(y)) - (IF y = x THEN 1 ELSE 0)
      <3> SUFFICES ASSUME NEW y \in Posts
                   PROVE  Cardinality(LikesOf(y)') = Cardinality(LikesOf(y)) - (IF y = x THEN 1 ELSE 0)
        OBVIOUS
      <3>1. y = x => l \in LikesOf(y)
        BY <1>5 DEF LikesOf
      <3> QED
        BY <2>5, <3>1, LikesFinite, FS_RemoveElement
    <2>7. LikesCounted'
      <3> SUFFICES ASSUME NEW y \in Posts, post[y] # "gone"
                   PROVE  likeCount'[y] = Cardinality(LikesOf(y)') + sweptLikes[y]
        BY <1>3 DEF LikesCounted, swept
      <3>1. likeCount[y] = Cardinality(LikesOf(y)) + sweptLikes[y] /\ sweptLikes[y] \in Nat
        BY <1>2 DEF IInv, LikesCounted, RowTypes
      <3> QED
        BY <2>1, <2>6, <3>1, LikesFinite
    <2>8. CommentsCounted'
      BY <1>3 DEF IInv, CommentsCounted, CommentsOf, swept
    <2> QED
      BY <2>3, <2>4, <2>7, <2>8, Reassemble
  <1> QED
    BY <1>4, <1>5 DEF Unlike

LEMMA CreateCommentWithCountStep ==
    ASSUME IInv, NEW p \in Handlers, NEW c \in Comments, CreateCommentWithCount(p, c)
    PROVE  IInv'
  <1> DEFINE x == job[p].post
             row == [state |-> "live", post |-> x, author |-> job[p].user]
  <1>1. x \in Posts /\ job[p].user \in Authors
    BY DEF CreateCommentWithCount, Doing, IInv, Fits
  <1>2. RowTypes /\ Finished(p) /\ comment[c].state = "none"
    BY TypesSplit DEF IInv, CreateCommentWithCount
  <1>3. UNCHANGED <<post, author, likes, likeCount, swept>>
    BY DEF CreateCommentWithCount
  <1>4. CASE UNCHANGED <<comment, commentCount>>
    BY <1>2, <1>3, <1>4, Ends DEF rows, counters
  <1>5. CASE /\ comment' = [comment EXCEPT ![c] = row]
             /\ commentCount' = [commentCount EXCEPT ![x] = @ + 1]
    <2>1. \A y \in Posts : commentCount'[y] = commentCount[y] + (IF y = x THEN 1 ELSE 0)
      BY <1>1, <1>2, <1>5 DEF RowTypes
    <2>2. \A d \in Comments : comment'[d] = IF d = c THEN row ELSE comment[d]
      BY <1>2, <1>5 DEF RowTypes
    <2>3. row \in CommentType /\ row.state = "live" /\ row.post = x
      BY <1>1 DEF CommentType
    <2> HIDE DEF row
    <2>4. comment' \in [Comments -> CommentType] /\ commentCount' \in [Posts -> Nat]
      BY <1>1, <1>2, <1>5, <2>3 DEF RowTypes
    <2>5. RowTypes'
      BY <1>2, <1>3, <2>4 DEF RowTypes, swept
    <2>6. Attached'
      BY <1>1, <2>2, <2>3 DEF IInv, Attached
    <2>7. job' \in [Handlers -> JobType] /\ Locked' /\ \A q \in Handlers : Fits(job[q])'
      BY <1>2, <1>3, <2>2, JobsStay
    <2>8. \A y \in Posts : CommentsOf(y)' = IF y = x THEN CommentsOf(y) \cup {c} ELSE CommentsOf(y)
      BY <1>2, <2>2, <2>3 DEF CommentsOf
    <2>9. ASSUME NEW y \in Posts
          PROVE  Cardinality(CommentsOf(y)') = Cardinality(CommentsOf(y)) + (IF y = x THEN 1 ELSE 0)
      <3>1. c \notin CommentsOf(y)
        BY <1>2 DEF CommentsOf
      <3> QED
        BY <2>8, <3>1, CommentsFinite, FS_AddElement
    <2>10. CommentsCounted'
      <3> SUFFICES ASSUME NEW y \in Posts, post[y] # "gone"
                   PROVE  commentCount'[y] = Cardinality(CommentsOf(y)') + sweptComments[y]
        BY <1>3 DEF CommentsCounted, swept
      <3>1. commentCount[y] = Cardinality(CommentsOf(y)) + sweptComments[y] /\ sweptComments[y] \in Nat
        BY <1>2 DEF IInv, CommentsCounted, RowTypes
      <3> QED
        BY <2>1, <2>9, <3>1, CommentsFinite
    <2>11. LikesCounted' /\ IsFiniteSet(likes)'
      BY <1>3 DEF IInv, LikesCounted, LikesOf, swept
    <2> QED
      BY <2>5, <2>6, <2>7, <2>10, <2>11, Reassemble
  <1> QED
    BY <1>4, <1>5 DEF CreateCommentWithCount

LEMMA DeleteCommentWithCountStep ==
    ASSUME IInv, NEW p \in Handlers, DeleteCommentWithCount(p)
    PROVE  IInv'
  <1> DEFINE x == job[p].post
             c == job[p].comment
  <1>1. x \in Posts /\ c \in Comments /\ comment[c].post = x
    BY DEF DeleteCommentWithCount, Doing, IInv, Fits
  <1>2. RowTypes /\ Finished(p)
    BY TypesSplit DEF IInv, DeleteCommentWithCount
  <1>3. UNCHANGED <<post, author, likes, likeCount, swept>>
    BY DEF DeleteCommentWithCount
  <1>4. CASE UNCHANGED <<comment, commentCount>>
    BY <1>2, <1>3, <1>4, Ends DEF rows, counters
  <1>5. CASE /\ comment[c].state = "live" /\ commentCount[x] > 0
             /\ comment' = [comment EXCEPT ![c].state = "deleted"]
             /\ commentCount' = [commentCount EXCEPT ![x] = @ - 1]
    <2> HIDE DEF x, c
    <2>1. \A y \in Posts : commentCount'[y] = commentCount[y] - (IF y = x THEN 1 ELSE 0)
      BY <1>1, <1>2, <1>5 DEF RowTypes
    <2>2. \A d \in Comments : comment'[d] = IF d = c THEN [comment[c] EXCEPT !.state = "deleted"]
                                                     ELSE comment[d]
      BY <1>1, <1>2, <1>5 DEF RowTypes
    <2>3. comment[c] \in CommentType
      BY <1>1, <1>2 DEF RowTypes
    <2>4. [comment[c] EXCEPT !.state = "deleted"] \in CommentType
      BY <2>3 DEF CommentType
    <2>5. comment'[c].state = "deleted" /\ comment'[c].post = x
      BY <1>1, <2>2, <2>3 DEF CommentType
    <2>6. comment' \in [Comments -> CommentType]
      BY <1>2, <1>5, <2>2, <2>4 DEF RowTypes
    <2>7. commentCount' \in [Posts -> Nat]
      <3>1. commentCount[x] - 1 \in Nat
        BY <1>1, <1>2, <1>5 DEF RowTypes
      <3> QED
        BY <1>2, <1>5, <3>1 DEF RowTypes
    <2>8. RowTypes'
      BY <1>2, <1>3, <2>6, <2>7 DEF RowTypes, swept
    <2>9. Attached'
      BY <1>3, <2>2, <2>5 DEF IInv, Attached
    <2>10. job' \in [Handlers -> JobType] /\ Locked' /\ \A q \in Handlers : Fits(job[q])'
      BY <1>1, <1>2, <1>3, <2>2, <2>5, JobsStay
    <2>11. \A y \in Posts : CommentsOf(y)' = IF y = x THEN CommentsOf(y) \ {c} ELSE CommentsOf(y)
      BY <1>1, <2>2, <2>5 DEF CommentsOf
    <2>12. ASSUME NEW y \in Posts
           PROVE  Cardinality(CommentsOf(y)') = Cardinality(CommentsOf(y)) - (IF y = x THEN 1 ELSE 0)
      <3>1. y = x => c \in CommentsOf(y)
        BY <1>1, <1>5 DEF CommentsOf
      <3> QED
        BY <2>11, <3>1, CommentsFinite, FS_RemoveElement
    <2>13. CommentsCounted'
      <3> SUFFICES ASSUME NEW y \in Posts, post[y] # "gone"
                   PROVE  commentCount'[y] = Cardinality(CommentsOf(y)') + sweptComments[y]
        BY <1>3 DEF CommentsCounted, swept
      <3>1. commentCount[y] = Cardinality(CommentsOf(y)) + sweptComments[y] /\ sweptComments[y] \in Nat
        BY <1>2 DEF IInv, CommentsCounted, RowTypes
      <3> QED
        BY <2>1, <2>12, <3>1, CommentsFinite
    <2>14. LikesCounted' /\ IsFiniteSet(likes)'
      BY <1>3 DEF IInv, LikesCounted, LikesOf, swept
    <2> QED
      BY <2>8, <2>9, <2>10, <2>13, <2>14, Reassemble
  <1> QED
    BY <1>4, <1>5 DEF DeleteCommentWithCount

----------------------------------------------------------------------------
(* The deletion of an account: what it takes from a post is swept.          *)

LEMMA TakenAway ==
    ASSUME NEW S, NEW T, IsFiniteSet(S)
    PROVE  /\ Cardinality(S) = Cardinality(S \ T) + Cardinality(T \cap S)
           /\ Cardinality(S \ T) \in Nat /\ Cardinality(T \cap S) \in Nat
  <1>1. Cardinality(S \ T) = Cardinality(S) - Cardinality(S \cap T)
    BY FS_Difference
  <1>2. T \cap S = S \cap T /\ S \cap T \subseteq S /\ S \ T \subseteq S
    OBVIOUS
  <1>3. IsFiniteSet(S \cap T) /\ IsFiniteSet(S \ T)
    BY <1>2, FS_Subset
  <1>4. Cardinality(S) \in Nat /\ Cardinality(S \cap T) \in Nat /\ Cardinality(S \ T) \in Nat
    BY <1>3, FS_CardinalityType
  <1> QED
    BY <1>1, <1>2, <1>4

LEMMA DeleteAccountStep ==
    ASSUME IInv, NEW u \in Authors, DeleteAccount(u)
    PROVE  IInv'
  <1> DEFINE own == {x \in Posts : post[x] \in {"live", "deleted"} /\ author[x] = u}
             lost(c) == comment[c].post \in own \/ comment[c].author = u
             goneLikes == {l \in likes : l[1] \in own \/ l[2] = u}
             goneComments == {c \in Comments : comment[c].state \in {"live", "deleted"} /\ lost(c)}
  <1>1. RowTypes /\ Locked /\ IsFiniteSet(likes)
    BY TypesSplit DEF IInv
  <1>2. /\ deletions < MaxDeletions /\ deletions' = deletions + 1
        /\ \A x \in own : PostFree(x)
        /\ post' = [x \in Posts |-> IF x \in own THEN "gone" ELSE post[x]]
        /\ likes' = likes \ goneLikes
        /\ comment' = [c \in Comments |-> IF c \in goneComments
                                          THEN [comment[c] EXCEPT !.state = "gone"] ELSE comment[c]]
        /\ sweptLikes' = [x \in Posts |-> sweptLikes[x] + Cardinality(goneLikes \cap LikesOf(x))]
        /\ sweptComments' = [x \in Posts |->
                                sweptComments[x] + Cardinality(goneComments \cap CommentsOf(x))]
        /\ UNCHANGED <<author, counters, job>>
    BY DEF DeleteAccount
  <1>3. goneLikes \subseteq likes /\ goneComments \subseteq Comments
        /\ \A c \in goneComments : comment[c].state # "none"
    OBVIOUS
  <1> HIDE DEF own, goneLikes, goneComments
  <1>4. ASSUME NEW x \in Posts
        PROVE  /\ Cardinality(LikesOf(x))
                    = Cardinality(LikesOf(x)') + Cardinality(goneLikes \cap LikesOf(x))
               /\ Cardinality(LikesOf(x)') \in Nat
               /\ Cardinality(goneLikes \cap LikesOf(x)) \in Nat
    <2>1. LikesOf(x)' = LikesOf(x) \ goneLikes
      BY <1>2 DEF LikesOf
    <2> QED
      BY <2>1, LikesFinite, TakenAway
  <1>5. \A c \in Comments :
            /\ comment'[c].post = comment[c].post
            /\ comment'[c].state = IF c \in goneComments THEN "gone" ELSE comment[c].state
    BY <1>1, <1>2 DEF RowTypes, CommentType
  <1>6. ASSUME NEW x \in Posts
        PROVE  /\ Cardinality(CommentsOf(x))
                    = Cardinality(CommentsOf(x)') + Cardinality(goneComments \cap CommentsOf(x))
               /\ Cardinality(CommentsOf(x)') \in Nat
               /\ Cardinality(goneComments \cap CommentsOf(x)) \in Nat
    <2>1. CommentsOf(x)' = CommentsOf(x) \ goneComments
      BY <1>5 DEF CommentsOf
    <2> QED
      BY <2>1, CommentsFinite, TakenAway
  <1>7. RowTypes'
    <2>1. post' \in [Posts -> {"none", "live", "deleted", "gone"}]
      BY <1>1, <1>2 DEF RowTypes
    <2>2. likes' \subseteq Posts \X Authors
      BY <1>1, <1>2 DEF RowTypes
    <2>3. comment' \in [Comments -> CommentType]
      BY <1>1, <1>2 DEF RowTypes, CommentType
    <2>4. deletions' \in 0..MaxDeletions
      BY <1>1, <1>2, FeedBounds DEF RowTypes
    <2>5. sweptLikes' \in [Posts -> Nat] /\ sweptComments' \in [Posts -> Nat]
      <3> DEFINE takenLikes(x) == Cardinality(goneLikes \cap LikesOf(x))
                 takenComments(x) == Cardinality(goneComments \cap CommentsOf(x))
      <3>1. /\ sweptLikes' = [x \in Posts |-> sweptLikes[x] + takenLikes(x)]
            /\ sweptComments' = [x \in Posts |-> sweptComments[x] + takenComments(x)]
        BY <1>2
      <3>2. \A x \in Posts : takenLikes(x) \in Nat /\ takenComments(x) \in Nat
        BY <1>4, <1>6
      <3>3. \A x \in Posts : sweptLikes[x] \in Nat /\ sweptComments[x] \in Nat
        BY <1>1 DEF RowTypes
      <3> HIDE DEF takenLikes, takenComments
      <3>4. \A x \in Posts : sweptLikes[x] + takenLikes(x) \in Nat
                             /\ sweptComments[x] + takenComments(x) \in Nat
        BY <3>2, <3>3
      <3> QED
        BY <3>1, <3>4
    <2> QED
      BY <1>1, <1>2, <2>1, <2>2, <2>3, <2>4, <2>5 DEF RowTypes, counters
  <1>8. Attached'
    BY <1>5 DEF IInv, Attached
  <1>9. IsFiniteSet(likes)'
    BY <1>1, <1>2, <1>3, FS_Subset
  <1>10. job' \in [Handlers -> JobType] /\ Locked' /\ \A q \in Handlers : Fits(job[q])'
    <2>1. \A x \in Posts : post[x] = "live" =>
              post'[x] = "live" \/ \A q \in Handlers : ~Holds(q, x)
      BY <1>2 DEF PostFree
    <2>2. \A c \in Comments : comment[c].state # "none" =>
              comment'[c].state # "none" /\ comment'[c].post = comment[c].post
      BY <1>5
    <2>3. likes' \subseteq likes
      BY <1>2
    <2> QED
      BY <1>2, <2>1, <2>2, <2>3, JobsStay
  <1>11. \A x \in Posts : post'[x] # "gone" => post[x] # "gone"
    BY <1>2
  <1>12. LikesCounted'
    <2> SUFFICES ASSUME NEW x \in Posts, post'[x] # "gone"
                 PROVE  likeCount'[x] = Cardinality(LikesOf(x)') + sweptLikes'[x]
      BY DEF LikesCounted
    <2>1. likeCount[x] = Cardinality(LikesOf(x)) + sweptLikes[x] /\ sweptLikes[x] \in Nat
      BY <1>1, <1>11 DEF IInv, LikesCounted, RowTypes
    <2>2. sweptLikes'[x] = sweptLikes[x] + Cardinality(goneLikes \cap LikesOf(x))
      BY <1>2
    <2>3. likeCount'[x] = likeCount[x]
      BY <1>2 DEF counters
    <2> QED
      BY <1>4, <2>1, <2>2, <2>3
  <1>13. CommentsCounted'
    <2> SUFFICES ASSUME NEW x \in Posts, post'[x] # "gone"
                 PROVE  commentCount'[x] = Cardinality(CommentsOf(x)') + sweptComments'[x]
      BY DEF CommentsCounted
    <2>1. commentCount[x] = Cardinality(CommentsOf(x)) + sweptComments[x] /\ sweptComments[x] \in Nat
      BY <1>1, <1>11 DEF IInv, CommentsCounted, RowTypes
    <2>2. sweptComments'[x] = sweptComments[x] + Cardinality(goneComments \cap CommentsOf(x))
      BY <1>2
    <2>3. commentCount'[x] = commentCount[x]
      BY <1>2 DEF counters
    <2> QED
      BY <1>6, <2>1, <2>2, <2>3
  <1> QED
    BY <1>7, <1>8, <1>9, <1>10, <1>12, <1>13, Reassemble

----------------------------------------------------------------------------

LEMMA NextInv == IInv /\ [FeedNext]_feedVars => IInv'
  <1> SUFFICES ASSUME IInv, [FeedNext]_feedVars PROVE IInv'
    OBVIOUS
  <1>1. CASE UNCHANGED feedVars
    BY <1>1 DEF feedVars, counters, swept, IInv, FeedTypeOK, Holds, Fits, Attached,
       LikesCounted, CommentsCounted, LikesOf, CommentsOf
  <1>2. ASSUME NEW u \in Authors, NEW x \in Posts, CreatePost(u, x) PROVE IInv'
    BY <1>2, CreatePostStep
  <1>3. ASSUME NEW x \in Posts, DeletePost(x) PROVE IInv'
    BY <1>3, DeletePostStep
  <1>4. ASSUME NEW u \in Authors, DeleteAccount(u) PROVE IInv'
    BY <1>4, DeleteAccountStep
  <1>5. ASSUME NEW p \in Handlers, FeedStep(p) PROVE IInv'
    BY <1>5, LockPostStep, CreateCommentStep, FindLikeStep, LikeStep, UnlikeStep,
       CreateCommentWithCountStep, DeleteCommentStep, FindParentStep, LockParentStep,
       DeleteCommentWithCountStep, RollbackStep DEF FeedStep
  <1> QED
    BY <1>1, <1>2, <1>3, <1>4, <1>5 DEF FeedNext

LEMMA InvHolds == FeedSpec => []IInv
  BY InitInv, NextInv, PTL DEF FeedSpec

\* feed_repo.go: rows, counters and requests keep their types, and the lock on a
\* post keeps every other transaction off it while the post stays live.
THEOREM FeedTypesHold == FeedSpec => []FeedTypeOK
  <1>1. IInv => FeedTypeOK
    BY DEF IInv
  <1> QED
    BY <1>1, InvHolds, PTL

\* ToggleLike: whatever requests run at once, are rolled back or meet a deletion,
\* like_count is the number of likes of the post, and of those that UserRepo.Delete
\* took away without counting them off.
THEOREM LikesAreCounted == FeedSpec => []LikesCounted
  <1>1. IInv => LikesCounted
    BY DEF IInv
  <1> QED
    BY <1>1, InvHolds, PTL

\* CreateCommentWithCount, DeleteCommentWithCount: the same of comment_count, so
\* that a comment which several requests have read and are waiting to remove is
\* counted off once.
THEOREM CommentsAreCounted == FeedSpec => []CommentsCounted
  <1>1. IInv => CommentsCounted
    BY DEF IInv
  <1> QED
    BY <1>1, InvHolds, PTL
=============================================================================
