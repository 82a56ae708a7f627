----------------------------- MODULE LockService -----------------------------
(***************************************************************************)
(* The locks of services/lockService.js.  A lock is a key in Redis with a  *)
(* time to live, taken and released by Redlock under a token of its own,   *)
(* or a string in a set of this process, deleted by a timer.  Which of the *)
(* two a request gets depends on the deployment:                           *)
(*   production  Redis is mandatory: an acquisition that fails, throws     *)
(*   optional    Redis is configured: an acquisition that fails for any    *)
(*               reason, the key being held included, tries the set        *)
(*   single      no Redis: the set of the only process                     *)
(* An acquisition that throws ends its request before it has changed       *)
(* anything, and waiting for one changes nothing: neither is a step.       *)
(***************************************************************************)
EXTENDS FiniteSets

CONSTANTS Req,     \* requests in flight
          Key,     \* what is locked
          Free,    \* nobody: a key that is not held in Redis
          Orphan   \* a holder that will not release it any more

ASSUME LockAssumption ==
    IsFiniteSet(Req) /\ {Free, Orphan} \cap Req = {} /\ Free # Orphan

Deployments == {"production", "optional", "single"}

VARIABLES deployment,  \* chosen once
          redis,       \* holder of each key in Redis
          memory,      \* keys in the process' set
          grip         \* what a request holds on each key

locks == <<redis, memory, grip>>

Grips == {"none", "redis", "memory", "lapsed"}

LockTypeOK ==
    /\ deployment \in Deployments
    /\ redis \in [Key -> Req \cup {Free, Orphan}]
    /\ memory \in SUBSET Key
    /\ grip \in [Req -> [Key -> Grips]]

LockInit ==
    /\ deployment \in Deployments
    /\ redis = [k \in Key |-> Free]
    /\ memory = {}
    /\ grip = [r \in Req |-> [k \in Key |-> "none"]]

AcquireRedis(r, k) ==
    /\ deployment # "single" /\ redis[k] = Free
    /\ redis' = [redis EXCEPT ![k] = r]
    /\ grip' = [grip EXCEPT ![r][k] = "redis"]
    /\ UNCHANGED memory

AcquireMemory(r, k) ==
    /\ k \notin memory
    /\ memory' = memory \cup {k}
    /\ grip' = [grip EXCEPT ![r][k] = "memory"]
    /\ UNCHANGED redis

\* The request gets a lock that the ones before it respect.
Acquire(r, k) ==
    \/ AcquireRedis(r, k)
    \/ deployment = "single" /\ AcquireMemory(r, k)

\* Redlock gave up, on a held key or an error of Redis, where Redis is optional.
FallThrough(r, k) == deployment = "optional" /\ AcquireMemory(r, k)

\* Redlock deletes the key under the request's own token; the process' set
\* loses the key whoever added it.
Release(r, k) ==
    /\ redis' = [redis EXCEPT ![k] = IF grip[r][k] = "redis" /\ @ = r THEN Free ELSE @]
    /\ memory' = IF grip[r][k] \in {"memory", "lapsed"} THEN memory \ {k} ELSE memory
    /\ grip' = [grip EXCEPT ![r][k] = "none"]

\* Redlock's release failed: it is logged and forgotten, the key stays.
ReleaseFails(r, k) ==
    /\ grip[r][k] = "redis"
    /\ redis' = [redis EXCEPT ![k] = IF @ = r THEN Orphan ELSE @]
    /\ grip' = [grip EXCEPT ![r][k] = "none"]
    /\ UNCHANGED memory

\* The time to live of the lock a request works under has passed: Redis drops
\* its key; the timer deletes the string whoever added it.
Lapse(r, k) ==
    \/ /\ grip[r][k] = "redis" /\ redis[k] = r
       /\ redis' = [redis EXCEPT ![k] = Free]
       /\ UNCHANGED <<memory, grip>>
    \/ /\ grip[r][k] = "memory"
       /\ memory' = memory \ {k}
       /\ grip' = [grip EXCEPT ![r][k] = "lapsed"]
       /\ UNCHANGED redis

\* The process of the requests S stops: the set dies with its process, a key in
\* Redis stays until its time to live has passed.
Abandon(S) ==
    /\ redis' = [k \in Key |-> IF redis[k] \in S THEN Orphan ELSE redis[k]]
    /\ memory' = IF deployment = "production" THEN memory ELSE {}
    /\ grip' = [r \in Req |-> IF r \in S THEN [k \in Key |-> "none"] ELSE grip[r]]

OrphanLapses(k) ==
    /\ redis[k] = Orphan
    /\ redis' = [redis EXCEPT ![k] = Free]
    /\ UNCHANGED <<memory, grip>>
==============================================================================
