SPECIFICATION BackendSpec
CONSTANTS
    Procs = {p1, p2}
    Sockets = {w1}
    MaxSession = 2
    MaxRefresh = 3
    MaxPassword = 2
    MaxFailures = 1
    Users = {alice, bob}
    Conns = {s1, s2}
    MaxTimers = 3
    Workers = {t1, t2}
    Authors = {alice, bob}
    Handlers = {h1, h2}
    Posts = {x1}
    Comments = {m1, m2}
    None = None
    MaxDeletions = 1
    log = log
    db = db
    redisClient = redisClient
    Order <- MCOrder
    Owned <- MCOwned
    Requests = {r1, r2}
INVARIANTS
    TypeOK
    RefreshRedeemedOnce
    CurrentSessionRefreshable
    SocketsFollowSession
    SessionFollowsPassword
    GoneIsReported
    ArmedTimersAreKnown
    FriendTypeOK
    FriendsSymmetric
    AcceptedAreFriends
    FeedTypeOK
    LikesCounted
    CommentsCounted
    AppTypeOK
    ServesOnlyWhenOpen
    
    ReturnsWithAllClosed
PROPERTIES
    NeverRevived
    SignalEndsProcess
CHECK_DEADLOCK FALSE
