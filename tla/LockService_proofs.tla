-------------------------- MODULE LockService_proofs --------------------------
(***************************************************************************)
(* What the locks guarantee, for any requests and keys: of the requests    *)
(* that think they hold a key, all but one cost the system a lock that     *)
(* lapsed under its holder or was fallen through.  The lemmas compare the  *)
(* number of holders with the key's room: one while the key is held where  *)
(* the deployment keeps it, none otherwise.                                *)
(***************************************************************************)
EXTENDS LockService, Naturals, FiniteSetTheorems, TLAPS

Grippers(k) == {r \in Req : grip[r][k] # "none"}
Held(k) == IF deployment = "single" THEN k \in memory ELSE redis[k] \in Req
Room(k) == IF Held(k) THEN 1 ELSE 0

\* The key in Redis is its holder's, the string in the set is somebody's.
HoldersGrip(k) ==
    /\ \A r \in Req : redis[k] = r => grip[r][k] = "redis"
    /\ k \in memory => \E r \in Req : grip[r][k] = "memory"
    /\ deployment = "production" => k \notin memory

\* What a step may do to the holders of a key: no more of them than room for them,
\* or one more.
NoneExtra(k) ==
    Cardinality(Grippers(k)') + Room(k) <= Cardinality(Grippers(k)) + Room(k)'
OneExtra(k) ==
    Cardinality(Grippers(k)') + Room(k) <= Cardinality(Grippers(k)) + Room(k)' + 1

LEMMA GrippersCounted ==
    ASSUME NEW k
    PROVE  /\ IsFiniteSet(Grippers(k)) /\ IsFiniteSet(Grippers(k)')
           /\ Cardinality(Grippers(k)) \in Nat /\ Cardinality(Grippers(k)') \in Nat
           /\ Room(k) \in {0, 1} /\ Room(k)' \in {0, 1}
           /\ Grippers(k)' \subseteq Grippers(k) =>
                 Cardinality(Grippers(k)') <= Cardinality(Grippers(k))
           /\ \A r \in Req : Grippers(k)' \subseteq Grippers(k) \cup {r} =>
                 Cardinality(Grippers(k)') <= Cardinality(Grippers(k)) + 1
           /\ \A r \in Grippers(k) : Grippers(k)' \subseteq Grippers(k) \ {r} =>
                 Cardinality(Grippers(k)') + 1 <= Cardinality(Grippers(k))
<1> DEFINE S == Grippers(k)
           T == Grippers(k)'
<1>1. S \subseteq Req /\ T \subseteq Req
  BY DEF Grippers
<1>2. Room(k) \in {0, 1} /\ Room(k)' \in {0, 1}
  BY DEF Room
<1> HIDE DEF S, T
<1>3. IsFiniteSet(S) /\ IsFiniteSet(T)
  BY <1>1, LockAssumption, FS_Subset
<1>4. Cardinality(S) \in Nat /\ Cardinality(T) \in Nat
  BY <1>3, FS_CardinalityType
<1>5. T \subseteq S => Cardinality(T) <= Cardinality(S)
  BY <1>3, FS_Subset
<1>6. ASSUME NEW r \in Req, T \subseteq S \cup {r}
      PROVE  Cardinality(T) <= Cardinality(S) + 1
  <2>1. IsFiniteSet(S \cup {r}) /\ Cardinality(S \cup {r}) \in {Cardinality(S), Cardinality(S) + 1}
    BY <1>3, FS_AddElement
  <2>2. Cardinality(T) <= Cardinality(S \cup {r})
    BY <1>6, <2>1, FS_Subset
  <2> QED  BY <1>4, <2>1, <2>2
<1>7. ASSUME NEW r \in S, T \subseteq S \ {r}
      PROVE  Cardinality(T) + 1 <= Cardinality(S)
  <2>1. IsFiniteSet(S \ {r}) /\ Cardinality(S \ {r}) = Cardinality(S) - 1
    BY <1>3, FS_RemoveElement
  <2>2. Cardinality(T) <= Cardinality(S \ {r})
    BY <1>7, <2>1, FS_Subset
  <2> QED  BY <1>4, <2>1, <2>2
<1> QED  BY <1>2, <1>3, <1>4, <1>5, <1>6, <1>7 DEF S, T

------------------------------------------------------------------------------
(* Taking a lock *)

\* The request r gets a grip on k, and nothing else changes hands.
Gripped(r, k) ==
    /\ LockTypeOK'
    /\ grip'[r][k] # "none"
    /\ \A s \in Req, j \in Key : s # r \/ j # k => grip'[s][j] = grip[s][j]

LEMMA AcquireDoes ==
    ASSUME LockTypeOK, NEW r \in Req, NEW k \in Key, Acquire(r, k) \/ FallThrough(r, k),
           UNCHANGED deployment
    PROVE  /\ Gripped(r, k)
           /\ \A j \in Key \ {k} : redis'[j] = redis[j] /\ (j \in memory' <=> j \in memory)
           /\ \/ /\ deployment # "single" /\ redis[k] = Free /\ redis'[k] = r
                 /\ grip'[r][k] = "redis" /\ UNCHANGED memory
              \/ /\ k \notin memory /\ k \in memory' /\ redis'[k] = redis[k]
                 /\ grip'[r][k] = "memory" /\ deployment # "production"
                 /\ deployment = "optional" <=> FallThrough(r, k)
<1>1. CASE AcquireRedis(r, k)
  <2>1. grip' = [grip EXCEPT ![r][k] = "redis"] /\ "redis" \in Grips
    BY <1>1 DEF AcquireRedis, Grips
  <2>2. /\ grip' \in [Req -> [Key -> Grips]] /\ grip'[r][k] = "redis"
        /\ \A s \in Req, j \in Key : s # r \/ j # k => grip'[s][j] = grip[s][j]
    BY <2>1 DEF LockTypeOK
  <2>3. /\ redis' \in [Key -> Req \cup {Free, Orphan}] /\ redis'[k] = r
        /\ \A j \in Key \ {k} : redis'[j] = redis[j]
    BY <1>1 DEF LockTypeOK, AcquireRedis
  <2> QED  BY <1>1, <2>2, <2>3 DEF AcquireRedis, LockTypeOK, Gripped
<1>2. CASE /\ AcquireMemory(r, k) /\ deployment # "production"
           /\ deployment = "optional" <=> FallThrough(r, k)
  <2>1. grip' = [grip EXCEPT ![r][k] = "memory"] /\ "memory" \in Grips
    BY <1>2 DEF AcquireMemory, Grips
  <2>2. /\ grip' \in [Req -> [Key -> Grips]] /\ grip'[r][k] = "memory"
        /\ \A s \in Req, j \in Key : s # r \/ j # k => grip'[s][j] = grip[s][j]
    BY <2>1 DEF LockTypeOK
  <2> QED  BY <1>2, <2>2 DEF AcquireMemory, LockTypeOK, Gripped
<1> QED  BY <1>1, <1>2 DEF Acquire, FallThrough

\* A key that a step does not touch.
KeySame(j) ==
    /\ redis'[j] = redis[j] /\ (j \in memory' <=> j \in memory)
    /\ \A s \in Req : grip'[s][j] = grip[s][j]

LEMMA KeySameRoom ==
    ASSUME NEW j, KeySame(j), UNCHANGED deployment, HoldersGrip(j)
    PROVE  HoldersGrip(j)' /\ NoneExtra(j)
<1>1. Grippers(j)' = Grippers(j) /\ Room(j)' = Room(j)
  BY DEF KeySame, Grippers, Room, Held
<1>2. NoneExtra(j)
  BY <1>1, GrippersCounted DEF NoneExtra
<1> QED  BY <1>2 DEF HoldersGrip, KeySame

\* A free lock: its holder takes the room.
LEMMA AcquireRoom ==
    ASSUME LockTypeOK, NEW r \in Req, NEW k \in Key, Acquire(r, k), UNCHANGED deployment,
           HoldersGrip(k), grip[r][k] = "none"
    PROVE  HoldersGrip(k)' /\ NoneExtra(k)
<1>1. Gripped(r, k)
  BY AcquireDoes
<1>2. Grippers(k)' \subseteq Grippers(k) \cup {r}
  BY <1>1 DEF Gripped, Grippers
<1>3. CASE /\ deployment # "single" /\ redis[k] = Free /\ redis'[k] = r
           /\ grip'[r][k] = "redis" /\ UNCHANGED memory
  <2>1. HoldersGrip(k)'
    BY <1>1, <1>3 DEF HoldersGrip, Gripped
  <2>2. Room(k) = 0 /\ Room(k)' = 1
    BY <1>3, LockAssumption DEF Room, Held
  <2> QED  BY <1>2, <2>1, <2>2, GrippersCounted DEF NoneExtra
<1>4. CASE /\ k \notin memory /\ k \in memory' /\ redis'[k] = redis[k]
           /\ grip'[r][k] = "memory" /\ deployment = "single"
  <2>1. HoldersGrip(k)'
    BY <1>1, <1>4 DEF HoldersGrip, Gripped
  <2>2. Room(k) = 0 /\ Room(k)' = 1
    BY <1>4 DEF Room, Held
  <2> QED  BY <1>2, <2>1, <2>2, GrippersCounted DEF NoneExtra
<1>5. deployment = "optional" /\ FallThrough(r, k) => AcquireRedis(r, k)
  BY DEF Acquire
<1> QED
  BY <1>3, <1>4, <1>5, AcquireDoes DEF AcquireRedis, LockTypeOK, Deployments, Acquire

\* A lock that was fallen through costs one more holder.
LEMMA FallThroughRoom ==
    ASSUME LockTypeOK, NEW r \in Req, NEW k \in Key, FallThrough(r, k), UNCHANGED deployment,
           HoldersGrip(k), grip[r][k] = "none"
    PROVE  HoldersGrip(k)' /\ OneExtra(k)
<1>1. Gripped(r, k) /\ redis'[k] = redis[k] /\ k \in memory' /\ grip'[r][k] = "memory"
  BY AcquireDoes DEF FallThrough, AcquireMemory
<1>2. Grippers(k)' \subseteq Grippers(k) \cup {r}
  BY <1>1 DEF Gripped, Grippers
<1>3. HoldersGrip(k)'
  BY <1>1 DEF HoldersGrip, Gripped, FallThrough
<1>4. Room(k)' = Room(k)
  BY <1>1 DEF Room, Held, FallThrough
<1> QED  BY <1>2, <1>3, <1>4, GrippersCounted DEF OneExtra

------------------------------------------------------------------------------
(* Letting it go *)

\* The request r has no grip on k any more, and nothing else changes hands.
LetGo(r, k) ==
    /\ LockTypeOK'
    /\ grip'[r][k] = "none"
    /\ \A s \in Req, j \in Key : s # r \/ j # k => grip'[s][j] = grip[s][j]
    /\ \A j \in Key \ {k} : redis'[j] = redis[j] /\ (j \in memory' <=> j \in memory)

LEMMA ReleaseDoes ==
    ASSUME LockTypeOK, NEW r \in Req, NEW k \in Key, Release(r, k) \/ ReleaseFails(r, k),
           UNCHANGED deployment
    PROVE  /\ LetGo(r, k)
           /\ redis'[k] = redis[k] \/ (redis[k] = r /\ redis'[k] \in {Free, Orphan})
           /\ redis[k] = r /\ grip[r][k] = "redis" => redis'[k] # r
           /\ k \in memory' <=> k \in memory /\ grip[r][k] \notin {"memory", "lapsed"}
<1>1. /\ redis' \in [Key -> Req \cup {Free, Orphan}]
      /\ redis'[k] = redis[k] \/ (redis[k] = r /\ redis'[k] \in {Free, Orphan})
      /\ redis[k] = r /\ grip[r][k] = "redis" => redis'[k] # r
      /\ \A j \in Key \ {k} : redis'[j] = redis[j]
  BY LockAssumption DEF Release, ReleaseFails, LockTypeOK
<1>2. grip' = [grip EXCEPT ![r][k] = "none"] /\ "none" \in Grips
  BY DEF Release, ReleaseFails, Grips
<1>3. /\ grip' \in [Req -> [Key -> Grips]] /\ grip'[r][k] = "none"
      /\ \A s \in Req, j \in Key : s # r \/ j # k => grip'[s][j] = grip[s][j]
  BY <1>2 DEF LockTypeOK
<1>4. /\ memory' \in SUBSET Key
      /\ k \in memory' <=> k \in memory /\ grip[r][k] \notin {"memory", "lapsed"}
      /\ \A j \in Key \ {k} : j \in memory' <=> j \in memory
  BY DEF Release, ReleaseFails, LockTypeOK
<1> QED  BY <1>1, <1>3, <1>4 DEF LetGo, LockTypeOK

LEMMA ReleaseRoom ==
    ASSUME LockTypeOK, NEW r \in Req, NEW k \in Key, Release(r, k) \/ ReleaseFails(r, k),
           UNCHANGED deployment, HoldersGrip(k)
    PROVE  HoldersGrip(k)' /\ NoneExtra(k)
<1>1. LetGo(r, k)
  BY ReleaseDoes
<1>2. HoldersGrip(k)'
  BY <1>1, ReleaseDoes, LockAssumption DEF HoldersGrip, LetGo
<1>3. CASE grip[r][k] = "none"
  <2>1. KeySame(k)
    BY <1>1, <1>3, ReleaseDoes DEF KeySame, LetGo, HoldersGrip
  <2> QED  BY <2>1, KeySameRoom
<1>4. CASE grip[r][k] # "none"
  <2>1. r \in Grippers(k) /\ Grippers(k)' \subseteq Grippers(k) \ {r}
    BY <1>1, <1>4 DEF LetGo, Grippers
  <2> QED  BY <1>2, <2>1, GrippersCounted DEF NoneExtra
<1> QED  BY <1>3, <1>4

\* A time to live that passes under the holder: its grip stays, the room is free.
LEMMA LapseDoes ==
    ASSUME LockTypeOK, NEW r \in Req, NEW k \in Key, Lapse(r, k), UNCHANGED deployment
    PROVE  /\ LockTypeOK'
           /\ \A s \in Req, j \in Key : (grip'[s][j] = "none") <=> (grip[s][j] = "none")
           /\ \A s \in Req, j \in Key : s # r \/ j # k => grip'[s][j] = grip[s][j]
           /\ \A j \in Key \ {k} : redis'[j] = redis[j] /\ (j \in memory' <=> j \in memory)
           /\ \/ redis'[k] = Free /\ UNCHANGED <<memory, grip>>
              \/ /\ UNCHANGED redis /\ k \notin memory' /\ grip[r][k] = "memory"
<1>1. CASE /\ grip[r][k] = "redis" /\ redis[k] = r
           /\ redis' = [redis EXCEPT ![k] = Free] /\ UNCHANGED <<memory, grip>>
  BY <1>1 DEF LockTypeOK
<1>2. CASE /\ grip[r][k] = "memory" /\ memory' = memory \ {k}
           /\ grip' = [grip EXCEPT ![r][k] = "lapsed"] /\ UNCHANGED redis
  <2>1. "lapsed" \in Grips
    BY DEF Grips
  <2>2. /\ grip' \in [Req -> [Key -> Grips]] /\ grip'[r][k] = "lapsed"
        /\ \A s \in Req, j \in Key : s # r \/ j # k => grip'[s][j] = grip[s][j]
    BY <1>2, <2>1 DEF LockTypeOK
  <2> QED  BY <1>2, <2>2 DEF LockTypeOK
<1> QED  BY <1>1, <1>2 DEF Lapse

LEMMA LapseRoom ==
    ASSUME LockTypeOK, NEW r \in Req, NEW k \in Key, Lapse(r, k), UNCHANGED deployment,
           HoldersGrip(k)
    PROVE  HoldersGrip(k)' /\ OneExtra(k)
<1>1. Grippers(k)' \subseteq Grippers(k)
  BY LapseDoes DEF Grippers
<1>2. HoldersGrip(k)'
  BY LapseDoes, LockAssumption DEF HoldersGrip
<1> QED  BY <1>1, <1>2, GrippersCounted DEF OneExtra

\* A key left behind in Redis is nobody's before its time to live has passed, and after.
LEMMA OrphanRoom ==
    ASSUME LockTypeOK, NEW k \in Key, OrphanLapses(k), UNCHANGED deployment
    PROVE  /\ LockTypeOK' /\ UNCHANGED grip
           /\ \A j \in Key : HoldersGrip(j) => HoldersGrip(j)' /\ NoneExtra(j)
<1>1. LockTypeOK' /\ UNCHANGED <<grip, memory>>
  BY DEF OrphanLapses, LockTypeOK
<1> SUFFICES ASSUME NEW j \in Key, HoldersGrip(j)  PROVE HoldersGrip(j)' /\ NoneExtra(j)
  BY <1>1
<1>2. redis'[j] = redis[j] \/ (redis[j] = Orphan /\ redis'[j] = Free)
  BY DEF OrphanLapses, LockTypeOK
<1>3. HoldersGrip(j)'
  BY <1>1, <1>2, LockAssumption DEF HoldersGrip
<1>4. Grippers(j)' = Grippers(j) /\ Room(j)' = Room(j)
  BY <1>1, <1>2, LockAssumption DEF Grippers, Room, Held
<1> QED  BY <1>3, <1>4, GrippersCounted DEF NoneExtra

\* The requests S of a process that stops: one in production, all of them elsewhere.
LEMMA AbandonDoes ==
    ASSUME LockTypeOK, NEW r \in Req, NEW S,
           S = IF deployment = "production" THEN {r} ELSE Req,
           Abandon(S), UNCHANGED deployment
    PROVE  /\ LockTypeOK'
           /\ \A s \in Req, j \in Key : grip'[s][j] = IF s \in S THEN "none" ELSE grip[s][j]
           /\ \A j \in Key : redis'[j] = IF redis[j] \in S THEN Orphan ELSE redis[j]
           /\ memory' = IF deployment = "production" THEN memory ELSE {}
BY DEF Abandon, LockTypeOK, Grips

LEMMA AbandonRoom ==
    ASSUME LockTypeOK, NEW r \in Req, NEW S,
           S = IF deployment = "production" THEN {r} ELSE Req,
           Abandon(S), UNCHANGED deployment, NEW k \in Key, HoldersGrip(k)
    PROVE  HoldersGrip(k)' /\ NoneExtra(k)
<1>1. HoldersGrip(k)'
  BY AbandonDoes, LockAssumption DEF HoldersGrip
<1>2. Grippers(k)' \subseteq Grippers(k)
  BY AbandonDoes DEF Grippers
<1>3. CASE Room(k)' = Room(k)
  BY <1>1, <1>2, <1>3, GrippersCounted DEF NoneExtra
<1>4. CASE Room(k)' # Room(k)
  <2>1. PICK s \in S : s \in Grippers(k)
    BY <1>4, AbandonDoes, LockAssumption DEF Room, Held, HoldersGrip, Grippers
  <2>2. Grippers(k)' \subseteq Grippers(k) \ {s}
    BY <1>2, <2>1, AbandonDoes DEF Grippers
  <2> QED  BY <1>1, <2>1, <2>2, GrippersCounted DEF NoneExtra
<1> QED  BY <1>3, <1>4
==============================================================================
