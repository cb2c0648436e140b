----------------------------- MODULE MCBackend ------------------------------
(* Application, Sessions, Presence, Friends and Feed on small instances.     *)
(* They share no variable: no handler of one reads what a handler of        *)
(* another writes (who may see a post is left open in Feed, which sockets   *)
(* a login kicks is left open in Presence, and a request of Application is  *)
(* any handler, one that serves a WebSocket once it has upgraded).  So a    *)
(* behaviour of this run is one of any of them, the others resting in their *)
(* initial states.                                                          *)
(*                                                                          *)
(* Bootstrap opens three resources; the database was passed in the Options  *)
(* and has no closer.                                                       *)
EXTENDS Sessions, Application, Presence, Friends, Feed

CONSTANTS log, db, redisClient

vars == <<appVars, sessionVars, presenceVars, friendVars, feedVars>>

MCOrder == <<log, db, redisClient>>
MCOwned == {log, redisClient}

BackendInit == AppInit /\ Init /\ PresenceInit /\ FriendInit /\ FeedInit

BackendNext ==
    \/ /\ Init /\ PresenceInit /\ FriendInit /\ FeedInit
       /\ UNCHANGED <<sessionVars, presenceVars, friendVars, feedVars>>
       /\ AppNext
    \/ /\ AppInit /\ PresenceInit /\ FriendInit /\ FeedInit
       /\ UNCHANGED <<appVars, presenceVars, friendVars, feedVars>>
       /\ Next
    \/ /\ AppInit /\ Init /\ FriendInit /\ FeedInit
       /\ UNCHANGED <<appVars, sessionVars, friendVars, feedVars>>
       /\ PresenceNext
    \/ /\ AppInit /\ Init /\ PresenceInit /\ FeedInit
       /\ UNCHANGED <<appVars, sessionVars, presenceVars, feedVars>>
       /\ FriendNext
    \/ /\ AppInit /\ Init /\ PresenceInit /\ FriendInit
       /\ UNCHANGED <<appVars, sessionVars, presenceVars, friendVars>>
       /\ FeedNext

\* Fairness is that of the process; the other parts have none here.
BackendSpec == BackendInit /\ [][BackendNext]_vars /\ Fairness
=============================================================================
