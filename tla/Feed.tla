-------------------------------- MODULE Feed --------------------------------
(***************************************************************************)
(* Posts, likes and comments: feed_service.go over feed_repo.go, and what  *)
(* user_repo.go's Delete does to their rows.  Each post carries the number *)
(* of its likes and comments, changed in the transaction that changes the  *)
(* rows, under a lock on the post.  Deleting an account removes rows and    *)
(* takes no such lock.                                                     *)
(*                                                                         *)
(* Rows are numbered by the constants; a row of a comment is never reused. *)
(* Contents and media are left out, and so is who may see a post: the      *)
(* friendship CanViewPost looks at may change right after.                 *)
(***************************************************************************)
EXTENDS Naturals, FiniteSets

CONSTANTS
    Authors,        \* accounts
    Handlers,       \* HTTP requests in flight at the same time
    Posts,
    Comments,
    None,
    MaxDeletions    \* bound: accounts deleted

ASSUME FeedBounds == IsFiniteSet(Comments) /\ MaxDeletions \in Nat

VARIABLES
    post,           \* the row of each post: "none", "live", soft-"deleted", "gone"
    author,         \* its user_id
    likes,          \* the rows of feed_like
    comment,        \* the rows of feed_comment
    likeCount, commentCount,
    job,            \* what each request in flight is doing
    deletions,
    \* History, read by the properties only: the rows of each post that the
    \* deletion of an account took away
    sweptLikes, sweptComments

counters == <<likeCount, commentCount>>
swept == <<sweptLikes, sweptComments, deletions>>
feedVars == <<post, author, likes, comment, counters, job, swept>>

NoJob == [stage |-> "idle", user |-> None, post |-> None, comment |-> None]
NoComment == [state |-> "none", post |-> None, author |-> None]

Doing(p, s) == job[p].stage = s
Take(p, j) == Doing(p, "idle") /\ job' = [job EXCEPT ![p] = j]
Proceed(p, s) == job' = [job EXCEPT ![p].stage = s]
Finished(p) == job' = [job EXCEPT ![p] = NoJob]

\* SELECT ... FOR UPDATE: the row of the post belongs to this transaction.
Holding == {"find", "like", "unlike", "remove"}
Holds(p, x) == job[p].stage \in Holding /\ job[p].post = x
PostFree(x) == \A p \in Handlers : ~Holds(p, x)

LikesOf(x) == {l \in likes : l[1] = x}
CommentsOf(x) == {c \in Comments : comment[c].state = "live" /\ comment[c].post = x}

----------------------------------------------------------------------------
(* Posts.                                                                   *)

CreatePost(u, x) ==
    /\ post[x] = "none"
    /\ post' = [post EXCEPT ![x] = "live"]
    /\ author' = [author EXCEPT ![x] = u]
    /\ UNCHANGED <<likes, comment, counters, job, swept>>

\* The author's; the rows that belong to the post stay.
DeletePost(x) ==
    /\ post[x] = "live" /\ PostFree(x)
    /\ post' = [post EXCEPT ![x] = "deleted"]
    /\ UNCHANGED <<author, likes, comment, counters, job, swept>>

----------------------------------------------------------------------------
(* ToggleLike: one transaction that locks the post first.                   *)

\* Defect: the post is read without locking it.
ReadPost(p, u, x) ==
    /\ post[x] = "live"
    /\ Take(p, [NoJob EXCEPT !.stage = "find", !.user = u, !.post = x])
    /\ UNCHANGED <<post, author, likes, comment, counters, swept>>

LockPost(p, u, x) ==
    /\ post[x] = "live" /\ PostFree(x)
    /\ Take(p, [NoJob EXCEPT !.stage = "find", !.user = u, !.post = x])
    /\ UNCHANGED <<post, author, likes, comment, counters, swept>>

FindLike(p) ==
    /\ Doing(p, "find")
    /\ Proceed(p, IF <<job[p].post, job[p].user>> \in likes THEN "unlike" ELSE "like")
    /\ UNCHANGED <<post, author, likes, comment, counters, swept>>

Like(p) ==
    LET x == job[p].post IN
    /\ Doing(p, "like")
    /\ likes' = likes \cup {<<x, job[p].user>>}
    /\ likeCount' = [likeCount EXCEPT ![x] = @ + 1]
    /\ Finished(p)
    /\ UNCHANGED <<post, author, comment, commentCount, swept>>

\* Defect: the number of rows the DELETE removed is not looked at.
UnlikeAnyway(p) ==
    LET x == job[p].post IN
    /\ Doing(p, "unlike") /\ likeCount[x] > 0
    /\ likes' = likes \ {<<x, job[p].user>>}
    /\ likeCount' = [likeCount EXCEPT ![x] = @ - 1]
    /\ Finished(p)
    /\ UNCHANGED <<post, author, comment, commentCount, swept>>

\* The row may have gone with its account; then nothing is committed.
Unlike(p) ==
    LET x == job[p].post IN
    /\ Doing(p, "unlike")
    /\ IF <<x, job[p].user>> \in likes /\ likeCount[x] > 0
       THEN /\ likes' = likes \ {<<x, job[p].user>>}
            /\ likeCount' = [likeCount EXCEPT ![x] = @ - 1]
       ELSE UNCHANGED <<likes, likeCount>>
    /\ Finished(p)
    /\ UNCHANGED <<post, author, comment, commentCount, swept>>

----------------------------------------------------------------------------
(* Comments.                                                                *)

\* CanViewPost.
CreateComment(p, u, x) ==
    /\ post[x] = "live"
    /\ Take(p, [NoJob EXCEPT !.stage = "comment", !.user = u, !.post = x])
    /\ UNCHANGED <<post, author, likes, comment, counters, swept>>

\* One transaction: lock, row and counter; of a post deleted meanwhile, nothing.
CreateCommentWithCount(p, c) ==
    LET x == job[p].post IN
    /\ Doing(p, "comment")
    /\ PostFree(x)
    /\ comment[c].state = "none"
    /\ IF post[x] = "live"
       THEN /\ comment' = [comment EXCEPT ![c] =
                              [state |-> "live", post |-> x, author |-> job[p].user]]
            /\ commentCount' = [commentCount EXCEPT ![x] = @ + 1]
       ELSE UNCHANGED <<comment, commentCount>>
    /\ Finished(p)
    /\ UNCHANGED <<post, author, likes, likeCount, swept>>

\* By the author of the comment, or by that of the post.
DeleteComment(p, u, c) ==
    /\ comment[c].state = "live"
    /\ \/ comment[c].author = u
       \/ post[comment[c].post] = "live" /\ author[comment[c].post] = u
    /\ Take(p, [NoJob EXCEPT !.stage = "parent", !.user = u,
                             !.post = comment[c].post, !.comment = c])
    /\ UNCHANGED <<post, author, likes, comment, counters, swept>>

\* The transaction.  The comment is read, without a lock, to find its post.
FindParent(p) ==
    /\ Doing(p, "parent")
    /\ IF comment[job[p].comment].state = "live" THEN Proceed(p, "lock") ELSE Finished(p)
    /\ UNCHANGED <<post, author, likes, comment, counters, swept>>

\* The lock on the post is waited for; of a post deleted meanwhile, an error.
LockParent(p) ==
    LET x == job[p].post IN
    /\ Doing(p, "lock")
    /\ \/ post[x] = "live" /\ PostFree(x) /\ Proceed(p, "remove")
       \/ post[x] # "live" /\ Finished(p)
    /\ UNCHANGED <<post, author, likes, comment, counters, swept>>

\* Defect: what was read before the lock is trusted.
RemoveReadBefore(p) ==
    LET x == job[p].post IN
    /\ Doing(p, "remove") /\ commentCount[x] > 0
    /\ comment' = [comment EXCEPT ![job[p].comment].state = "deleted"]
    /\ commentCount' = [commentCount EXCEPT ![x] = @ - 1]
    /\ Finished(p)
    /\ UNCHANGED <<post, author, likes, likeCount, swept>>

\* The comment is read again: somebody else may have removed it.
DeleteCommentWithCount(p) ==
    LET x == job[p].post IN
    /\ Doing(p, "remove")
    /\ IF comment[job[p].comment].state = "live" /\ commentCount[x] > 0
       THEN /\ comment' = [comment EXCEPT ![job[p].comment].state = "deleted"]
            /\ commentCount' = [commentCount EXCEPT ![x] = @ - 1]
       ELSE UNCHANGED <<comment, commentCount>>
    /\ Finished(p)
    /\ UNCHANGED <<post, author, likes, likeCount, swept>>

\* A statement fails or the request is cut off: the transaction is rolled back.
RollbackJob(p) ==
    /\ ~Doing(p, "idle")
    /\ Finished(p)
    /\ UNCHANGED <<post, author, likes, comment, counters, swept>>

----------------------------------------------------------------------------
(* Delete of an account: its posts with all that belongs to them, and its   *)
(* likes and comments on other posts, whose counters it leaves alone.       *)

DeleteAccount(u) ==
    LET own == {x \in Posts : post[x] \in {"live", "deleted"} /\ author[x] = u}
        lost(c) == comment[c].post \in own \/ comment[c].author = u
        goneLikes == {l \in likes : l[1] \in own \/ l[2] = u}
        goneComments == {c \in Comments : comment[c].state \in {"live", "deleted"} /\ lost(c)}
    IN
    /\ deletions < MaxDeletions /\ deletions' = deletions + 1
    /\ \A x \in own : PostFree(x)
    /\ post' = [x \in Posts |-> IF x \in own THEN "gone" ELSE post[x]]
    /\ likes' = likes \ goneLikes
    /\ comment' = [c \in Comments |-> IF c \in goneComments
                                      THEN [comment[c] EXCEPT !.state = "gone"] ELSE comment[c]]
    /\ sweptLikes' = [x \in Posts |-> sweptLikes[x] + Cardinality(goneLikes \cap LikesOf(x))]
    /\ sweptComments' = [x \in Posts |->
                            sweptComments[x] + Cardinality(goneComments \cap CommentsOf(x))]
    /\ UNCHANGED <<author, counters, job>>

FeedInit ==
    /\ post = [x \in Posts |-> "none"]
    /\ author = [x \in Posts |-> None]
    /\ likes = {} /\ comment = [c \in Comments |-> NoComment]
    /\ likeCount = [x \in Posts |-> 0] /\ commentCount = [x \in Posts |-> 0]
    /\ job = [p \in Handlers |-> NoJob]
    /\ deletions = 0
    /\ sweptLikes = [x \in Posts |-> 0] /\ sweptComments = [x \in Posts |-> 0]

FeedStep(p) ==
    \/ \E u \in Authors, x \in Posts : LockPost(p, u, x) \/ CreateComment(p, u, x)
    \/ FindLike(p) \/ Like(p) \/ Unlike(p)
    \/ \E c \in Comments : CreateCommentWithCount(p, c)
    \/ \E u \in Authors, c \in Comments : DeleteComment(p, u, c)
    \/ FindParent(p) \/ LockParent(p) \/ DeleteCommentWithCount(p)
    \/ RollbackJob(p)

FeedNext ==
    \/ \E u \in Authors, x \in Posts : CreatePost(u, x)
    \/ \E x \in Posts : DeletePost(x)
    \/ \E u \in Authors : DeleteAccount(u)
    \/ \E p \in Handlers : FeedStep(p)

FeedSpec == FeedInit /\ [][FeedNext]_feedVars

----------------------------------------------------------------------------
(* Properties.                                                              *)

JobType == [stage : Holding \cup {"idle", "comment", "parent", "lock"},
            user : Authors \cup {None}, post : Posts \cup {None}, comment : Comments \cup {None}]
CommentType == [state : {"none", "live", "deleted", "gone"},
                post : Posts \cup {None}, author : Authors \cup {None}]

\* Every row, counter and request is of its type, and a post is locked by one
\* transaction at most, which sees it live.
FeedTypeOK ==
    /\ post \in [Posts -> {"none", "live", "deleted", "gone"}]
    /\ author \in [Posts -> Authors \cup {None}]
    /\ likes \subseteq Posts \X Authors
    /\ comment \in [Comments -> CommentType]
    /\ likeCount \in [Posts -> Nat] /\ commentCount \in [Posts -> Nat]
    /\ job \in [Handlers -> JobType]
    /\ deletions \in 0..MaxDeletions
    /\ sweptLikes \in [Posts -> Nat] /\ sweptComments \in [Posts -> Nat]
    /\ \A p \in Handlers, x \in Posts :
          Holds(p, x) => post[x] = "live" /\ \A q \in Handlers : Holds(q, x) => q = p

\* The like count of a post is the number of its likes, however toggles, also
\* two of one user, rollbacks and deletions meet; but for the likes of deleted
\* accounts, which UserRepo.Delete removes without counting them off.
LikesCounted ==
    \A x \in Posts : post[x] # "gone" =>
        likeCount[x] = Cardinality(LikesOf(x)) + sweptLikes[x]

\* So is the comment count, although its author and the author of the post may
\* remove one comment at once, both having read it before either locked the post.
CommentsCounted ==
    \A x \in Posts : post[x] # "gone" =>
        commentCount[x] = Cardinality(CommentsOf(x)) + sweptComments[x]
=============================================================================
