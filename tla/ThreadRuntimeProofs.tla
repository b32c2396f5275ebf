------------------------- MODULE ThreadRuntimeProofs -------------------------
(***************************************************************************)
(* Proofs about ThreadRuntime for any number of threads and of mutexes.    *)
(***************************************************************************)
EXTENDS ThreadRuntime, FiniteSetTheorems, TLAPS

Calls == [pc : {"locked++", "unlock", "unprobe", "probe", "reprobe", "wait"}, lock : Mutexes]

Types ==
  /\ probes \in BOOLEAN
  /\ kind \in [Mutexes -> {"none", "nothread", "pthread", "spin"}]
  /\ holder \in [Mutexes -> Tasks \cup {NoTask}]
  /\ count \in [Mutexes -> Nat]
  /\ locked \in [Mutexes -> Int]
  /\ at \in [Tasks -> {Running} \cup Calls]
  /\ depth \in [Tasks -> [Mutexes -> Nat]]
  /\ free \in [Tasks -> BOOLEAN]
  /\ held \in [Tasks -> BOOLEAN]
  /\ said \in [Tasks -> {"nothing", "locked", "unlocked"}]

(* t is at one of these places of a call on l.                             *)
On(t, pcs, l) == at[t].pc \in pcs /\ at[t].lock = l

(* How many times t has the pthread_mutex of l more than it believes.      *)
Extra(t, l) ==
  IF On(t, {"locked++", "unlock", "unprobe"}, l) THEN 1
  ELSE IF On(t, {"wait", "reprobe"}, l) THEN -1
  ELSE 0
Has(t, l) == depth[t][l] + Extra(t, l)

(* The kernel and the tasks agree on who has l, and how many times.        *)
Owned(l) ==
  /\ holder[l] = NoTask <=> count[l] = 0
  /\ \A t \in Tasks : Has(t, l) = IF holder[l] = t THEN count[l] ELSE 0

(* A mutex that is not one of the pthread library, or not yet.             *)
Unowned(l) ==
  /\ holder[l] = NoTask /\ count[l] = 0
  /\ kind[l] = "none" => \A t \in Tasks : depth[t][l] = 0

(* The locks that are believed, one by one, and their number.              *)
Believed(l) == {b \in Tasks \X (Nat \ {0}) : b[2] <= depth[b[1]][l]}
Counted(l) == IsFiniteSet(Believed(l)) /\ locked[l] = Cardinality(Believed(l))

LockInv(l) ==
  /\ kind[l] \in {"pthread", "spin"} => Owned(l)
  /\ kind[l] \in {"none", "nothread"} => Unowned(l)
  /\ kind[l] \in {"none", "pthread"} /\ ~ probes => Counted(l)

Probing == {"unprobe", "probe", "reprobe"}

(* A task is in a call on a mutex of the library only, and while it probes *)
(* one, it will be right whether it finds that it has it or not.           *)
TaskInv(t) ==
  /\ at[t] # Running => kind[at[t].lock] \in {"pthread", "spin"}
  /\ at[t].pc \in {"unprobe", "probe", "reprobe", "wait", "locked++"} => kind[at[t].lock] = "pthread"
  /\ at[t].pc = "locked++" => ~ probes
  /\ at[t].pc \in {"reprobe", "wait"} => depth[t][at[t].lock] > 0
  /\ IF at[t].pc \in Probing THEN IF depth[t][at[t].lock] > 0 THEN held[t] ELSE free[t]
     ELSE /\ said[t] = "unlocked" => free[t]
          /\ said[t] = "locked" => held[t]

LocksInv ==
  /\ Types
  /\ \A l \in Mutexes : LockInv(l)
  /\ \A t \in Tasks : TaskInv(t)
-----------------------------------------------------------------------------
(* What the place of a task is made of.                                    *)
LEMMA Places ==
  ASSUME Types, NEW t \in Tasks
  PROVE  /\ at[t] = Running <=> at[t].pc = "run"
         /\ at[t] # Running => at[t] \in Calls /\ at[t].lock \in Mutexes
         /\ \A pc \in {"locked++", "unlock", "unprobe", "probe", "reprobe", "wait"}, l \in Mutexes :
              Is(t, pc, l) <=> at[t].pc = pc /\ at[t].lock = l
<1>1. at[t] = Running \/ at[t] \in Calls
  BY DEF Types
<1>2. CASE at[t] = Running
  BY <1>2 DEF Running, Is, Doing
<1>3. CASE at[t] \in Calls
  BY <1>3 DEF Running, Is, Doing, Calls
<1> QED BY <1>1, <1>2, <1>3

LEMMA DoingCalls ==
  ASSUME NEW l \in Mutexes,
         NEW pc \in {"locked++", "unlock", "unprobe", "probe", "reprobe", "wait"}
  PROVE  Doing(pc, l) \in Calls /\ Doing(pc, l).pc = pc /\ Doing(pc, l).lock = l
         /\ Doing(pc, l) # Running
BY DEF Doing, Calls, Running

LEMMA ExtraInt ==
  ASSUME NEW t, NEW l
  PROVE  Extra(t, l) \in Int
BY DEF Extra

(* The mutexes that a step does not touch.                                 *)
LEMMA LockKept ==
  ASSUME NEW m \in Mutexes, LockInv(m), UNCHANGED <<probes, kind>>,
         holder'[m] = holder[m], count'[m] = count[m], locked'[m] = locked[m],
         \A u \in Tasks : depth'[u][m] = depth[u][m] /\ Extra(u, m)' = Extra(u, m)
  PROVE  LockInv(m)'
<1>1. Owned(m) => Owned(m)'
  BY DEF Owned, Has
<1>2. Unowned(m) => Unowned(m)'
  BY DEF Unowned
<1>3. Believed(m)' = Believed(m)
  BY DEF Believed
<1>4. Counted(m) => Counted(m)'
  BY <1>3 DEF Counted
<1> QED BY <1>1, <1>2, <1>4 DEF LockInv

LEMMA TaskKept ==
  ASSUME NEW u \in Tasks, TaskInv(u), UNCHANGED <<probes, kind>>, at'[u] = at[u],
         depth'[u] = depth[u], free'[u] = free[u], held'[u] = held[u], said'[u] = said[u]
  PROVE  TaskInv(u)'
BY DEF TaskInv

(* What a step of t on l has to show.                                      *)
LEMMA StepOn ==
  ASSUME TaskConstants, LocksInv, NEW t \in Tasks, NEW l \in Mutexes,
         UNCHANGED <<probes, kind>>,
         at[t] = Running \/ at[t].lock = l, at'[t] = Running \/ at'[t].lock = l,
         \A u \in Tasks \ {t} : /\ at'[u] = at[u] /\ depth'[u] = depth[u]
                                /\ free'[u] = free[u] /\ held'[u] = held[u] /\ said'[u] = said[u],
         \A m \in Mutexes \ {l} : /\ holder'[m] = holder[m] /\ count'[m] = count[m]
                                  /\ locked'[m] = locked[m] /\ depth'[t][m] = depth[t][m],
         Types', LockInv(l)', TaskInv(t)'
  PROVE  LocksInv'
<1>1. ASSUME NEW u \in Tasks PROVE TaskInv(u)'
  BY TaskKept DEF LocksInv
<1>2. ASSUME NEW m \in Mutexes, m # l PROVE LockInv(m)'
  <2>1. Extra(t, m) = 0 /\ Extra(t, m)' = 0
    BY <1>2 DEF Extra, On, Running
  <2>2. \A u \in Tasks \ {t} : Extra(u, m)' = Extra(u, m)
    BY DEF Extra, On
  <2> QED BY <1>2, <2>1, <2>2, LockKept DEF LocksInv
<1> QED BY <1>1, <1>2 DEF LocksInv
-----------------------------------------------------------------------------
(* The other tasks have of l what they had.                                *)
LEMMA OthersKept ==
  ASSUME NEW t \in Tasks, NEW l \in Mutexes, NEW u \in Tasks \ {t},
         at'[u] = at[u], depth'[u] = depth[u]
  PROVE  Has(u, l)' = Has(u, l)
BY DEF Has, Extra, On

LEMMA OwnedKept ==
  ASSUME NEW t \in Tasks, NEW l \in Mutexes, Owned(l),
         \A u \in Tasks \ {t} : at'[u] = at[u] /\ depth'[u] = depth[u],
         holder'[l] = holder[l], count'[l] = count[l], Has(t, l)' = Has(t, l)
  PROVE  Owned(l)'
<1>1. \A u \in Tasks : Has(u, l)' = Has(u, l)
  BY OthersKept
<1> QED BY <1>1 DEF Owned

LEMMA OwnedAcquired ==
  ASSUME TaskConstants, Types, NEW t \in Tasks, NEW l \in Mutexes, Owned(l),
         \A u \in Tasks \ {t} : at'[u] = at[u] /\ depth'[u] = depth[u],
         holder[l] \in {NoTask, t}, holder'[l] = t, count'[l] = count[l] + 1,
         Has(t, l)' = Has(t, l) + 1
  PROVE  Owned(l)'
<1>1. \A u \in Tasks \ {t} : Has(u, l)' = Has(u, l)
  BY OthersKept
<1>2. count[l] \in Nat
  BY DEF Types
<1>3. t # NoTask
  BY DEF TaskConstants
<1>4. Has(t, l) = count[l]
  BY DEF Owned
<1>5. Has(t, l)' = count'[l] /\ count'[l] # 0
  BY <1>2, <1>4
<1>6. \A u \in Tasks \ {t} : Has(u, l)' = 0
  BY <1>1 DEF Owned
<1> QED BY <1>3, <1>5, <1>6 DEF Owned

LEMMA OwnedReleased ==
  ASSUME TaskConstants, Types, NEW t \in Tasks, NEW l \in Mutexes, Owned(l),
         \A u \in Tasks \ {t} : at'[u] = at[u] /\ depth'[u] = depth[u],
         Has(t, l) # 0, Release(l), Has(t, l)' = Has(t, l) - 1
  PROVE  Owned(l)' /\ holder[l] = t
<1>1. \A u \in Tasks \ {t} : Has(u, l)' = Has(u, l)
  BY OthersKept
<1>2. holder[l] = t /\ Has(t, l) = count[l]
  BY DEF Owned
<1>3. count[l] \in Nat /\ count[l] # 0
  BY <1>2 DEF Types
<1>4. count'[l] = count[l] - 1 /\ holder'[l] = IF count[l] = 1 THEN NoTask ELSE holder[l]
  BY DEF Types, Release
<1>5. \A u \in Tasks \ {t} : Has(u, l)' = 0 /\ u # NoTask
  BY <1>1, <1>2 DEF Owned, TaskConstants
<1>6. t # NoTask
  BY DEF TaskConstants
<1>7. CASE count[l] = 1
  <2>1. holder'[l] = NoTask /\ count'[l] = 0 /\ Has(t, l)' = 0
    BY <1>2, <1>4, <1>7
  <2> QED BY <1>2, <1>5, <1>6, <2>1 DEF Owned
<1>8. CASE count[l] # 1
  <2>1. holder'[l] = t /\ count'[l] # 0 /\ Has(t, l)' = count'[l]
    BY <1>2, <1>3, <1>4, <1>8
  <2> QED BY <1>2, <1>5, <1>6, <2>1 DEF Owned
<1> QED BY <1>7, <1>8
-----------------------------------------------------------------------------
LEMMA CountedKept ==
  ASSUME NEW l \in Mutexes, Counted(l), locked'[l] = locked[l],
         \A u \in Tasks : depth'[u][l] = depth[u][l]
  PROVE  Counted(l)'
<1>1. Believed(l)' = Believed(l)
  BY DEF Believed
<1> QED BY <1>1 DEF Counted

LEMMA CountedMore ==
  ASSUME Types, NEW t \in Tasks, NEW l \in Mutexes, Counted(l),
         \A u \in Tasks \ {t} : depth'[u][l] = depth[u][l],
         depth'[t][l] = depth[t][l] + 1, locked'[l] = locked[l] + 1
  PROVE  Counted(l)'
<1> DEFINE b == <<t, depth[t][l] + 1>>
<1>1. depth[t][l] \in Nat
  BY DEF Types
<1>2. b \notin Believed(l)
  BY <1>1 DEF Believed
<1>3. Believed(l)' = Believed(l) \cup {b}
  <2>1. ASSUME NEW u \in Tasks, NEW n \in Nat \ {0}
        PROVE  n <= depth'[u][l] <=> n <= depth[u][l] \/ (u = t /\ n = depth[t][l] + 1)
    BY <1>1
  <2> QED BY <1>1, <2>1 DEF Believed
<1>4. /\ IsFiniteSet(Believed(l) \cup {b})
      /\ Cardinality(Believed(l) \cup {b}) = Cardinality(Believed(l)) + 1
  BY <1>2, FS_AddElement DEF Counted
<1> QED BY <1>3, <1>4 DEF Counted

LEMMA CountedLess ==
  ASSUME Types, NEW t \in Tasks, NEW l \in Mutexes, Counted(l),
         \A u \in Tasks \ {t} : depth'[u][l] = depth[u][l],
         depth[t][l] > 0, depth'[t][l] = depth[t][l] - 1, locked'[l] = locked[l] - 1
  PROVE  Counted(l)'
<1> DEFINE b == <<t, depth[t][l]>>
<1>1. depth[t][l] \in Nat /\ depth[t][l] # 0
  BY DEF Types
<1>2. b \in Believed(l)
  BY <1>1 DEF Believed
<1>3. Believed(l)' = Believed(l) \ {b}
  <2>1. ASSUME NEW u \in Tasks, NEW n \in Nat \ {0}
        PROVE  n <= depth'[u][l] <=> n <= depth[u][l] /\ ~ (u = t /\ n = depth[t][l])
    BY <1>1
  <2> QED BY <1>1, <2>1 DEF Believed
<1>4. /\ IsFiniteSet(Believed(l) \ {b})
      /\ Cardinality(Believed(l) \ {b}) = Cardinality(Believed(l)) - 1
  BY <1>2, FS_RemoveElement DEF Counted
<1> QED BY <1>3, <1>4 DEF Counted

(* The field locked tells whether somebody believes to have the mutex.     *)
LEMMA CountedTaken ==
  ASSUME Types, NEW l \in Mutexes, Counted(l)
  PROVE  locked[l] > 0 <=> Taken(l)
<1>1. Cardinality(Believed(l)) \in Nat /\ (Cardinality(Believed(l)) = 0 <=> Believed(l) = {})
  BY FS_CardinalityType, FS_EmptySet DEF Counted
<1>2. Believed(l) # {} <=> \E t \in Tasks : depth[t][l] > 0
  <2>1. ASSUME NEW t \in Tasks, depth[t][l] > 0 PROVE <<t, depth[t][l]>> \in Believed(l)
    BY <2>1 DEF Believed, Types
  <2>2. ASSUME NEW x \in Believed(l) PROVE x[1] \in Tasks /\ depth[x[1]][l] > 0
    <3>1. x[1] \in Tasks /\ x[2] \in Nat \ {0} /\ x[2] <= depth[x[1]][l]
      BY DEF Believed
    <3>2. depth[x[1]][l] \in Nat
      BY <3>1 DEF Types
    <3> QED BY <3>1, <3>2
  <2> QED BY <2>1, <2>2
<1> QED BY <1>1, <1>2 DEF Counted, Taken
-----------------------------------------------------------------------------
LEMMA Same ==
  ASSUME LocksInv, UNCHANGED lockVars
  PROVE  LocksInv'
<1>1. Types'
  BY DEF LocksInv, Types, lockVars
<1>2. \A l \in Mutexes : LockInv(l)'
  BY LockKept DEF LocksInv, lockVars, Extra, On
<1>3. \A t \in Tasks : TaskInv(t)'
  BY TaskKept DEF LocksInv, lockVars
<1> QED BY <1>1, <1>2, <1>3 DEF LocksInv

LEMMA MakeStep ==
  ASSUME TaskConstants, LocksInv, NEW l \in Mutexes, NEW k \in {"pthread", "spin", "nothread"},
         Make(l, k)
  PROVE  LocksInv'
<1>1. Types'
  BY DEF LocksInv, Types, Make
<1>2. kind[l] = "none" /\ kind'[l] = k /\ \A m \in Mutexes \ {l} : kind'[m] = kind[m]
  BY DEF LocksInv, Types, Make
<1>3. UNCHANGED <<probes, holder, count, locked, at, depth, free, held, said>>
  BY DEF Make
<1>4. \A t \in Tasks : at[t] = Running \/ at[t].lock \in Mutexes \ {l}
  BY <1>2, Places DEF LocksInv, TaskInv
<1>5. ASSUME NEW t \in Tasks PROVE TaskInv(t)'
  <2>1. CASE at[t] = Running
    BY <1>3, <2>1 DEF LocksInv, TaskInv, Running
  <2>2. CASE at[t] # Running
    <3>1. kind'[at[t].lock] = kind[at[t].lock]
      BY <1>2, <1>4, <2>2
    <3> QED BY <1>3, <3>1 DEF LocksInv, TaskInv
  <2> QED BY <2>1, <2>2
<1>6. ASSUME NEW m \in Mutexes PROVE LockInv(m)'
  <2>1. \A t \in Tasks : Extra(t, m)' = Extra(t, m)
    BY <1>3 DEF Extra, On
  <2>2. Counted(m) => Counted(m)'
    BY <1>3, CountedKept
  <2>3. CASE m # l
    <3>1. Owned(m) => Owned(m)'
      BY <1>3, <2>1 DEF Owned, Has
    <3>2. Unowned(m) => Unowned(m)'
      BY <1>2, <1>3, <2>3 DEF Unowned
    <3> QED BY <1>2, <1>3, <2>2, <2>3, <3>1, <3>2 DEF LocksInv, LockInv
  <2>4. CASE m = l
    <3>1. Unowned(l) /\ kind'[l] # "none"
      BY <1>2 DEF LocksInv, LockInv
    <3>2. Unowned(l)'
      BY <1>2, <1>3, <3>1 DEF Unowned
    <3>3. \A t \in Tasks : depth[t][l] = 0 /\ Extra(t, l) = 0 /\ t # NoTask
      BY <1>2, <1>4, <3>1 DEF Unowned, Extra, On, Running, TaskConstants
    <3>4. Owned(l)'
      BY <1>3, <2>1, <2>4, <3>1, <3>3 DEF Owned, Has, Unowned
    <3> QED BY <1>2, <1>3, <2>2, <2>4, <3>2, <3>4 DEF LocksInv, LockInv
  <2> QED BY <2>3, <2>4
<1> QED BY <1>1, <1>5, <1>6 DEF LocksInv

LEMMA RegisterStep ==
  ASSUME LocksInv, BglMutexInitRegister
  PROVE  LocksInv'
<1>1. UNCHANGED <<probes, kind, holder, count, locked, at, depth, free, held, said>>
  BY DEF BglMutexInitRegister
<1>2. Types'
  BY <1>1 DEF LocksInv, Types
<1>3. \A l \in Mutexes : LockInv(l)'
  BY <1>1, LockKept DEF LocksInv, Extra, On
<1>4. \A t \in Tasks : TaskInv(t)'
  BY <1>1, TaskKept DEF LocksInv
<1> QED BY <1>2, <1>3, <1>4 DEF LocksInv

(* What t has of l, by the place where it is.                              *)
LEMMA HasAt ==
  ASSUME Types, NEW t \in Tasks, NEW l \in Mutexes
  PROVE  /\ depth[t][l] \in Nat
         /\ at[t] = Running => Has(t, l) = depth[t][l]
         /\ On(t, {"locked++", "unlock", "unprobe"}, l) => Has(t, l) = depth[t][l] + 1
         /\ On(t, {"wait", "reprobe"}, l) => Has(t, l) = depth[t][l] - 1
         /\ On(t, {"probe"}, l) => Has(t, l) = depth[t][l]
<1>1. depth[t][l] \in Nat
  BY DEF Types
<1>2. at[t] = Running => Extra(t, l) = 0
  BY DEF Running, Extra, On
<1>3. On(t, {"locked++", "unlock", "unprobe"}, l) => Extra(t, l) = 1
  BY DEF Extra
<1>4. On(t, {"wait", "reprobe"}, l) => Extra(t, l) = -1
  BY DEF Extra, On
<1>5. On(t, {"probe"}, l) => Extra(t, l) = 0
  BY DEF Extra, On
<1> QED BY <1>1, <1>2, <1>3, <1>4, <1>5 DEF Has

(* A step of t from place r on, that leaves the fields of mutex-state.     *)
LEMMA Moved ==
  ASSUME Types, NEW t \in Tasks, NEW r, at' = [at EXCEPT ![t] = r]
  PROVE  at'[t] = r /\ \A u \in Tasks \ {t} : at'[u] = at[u]
BY DEF Types

LEMMA Deeper ==
  ASSUME Types, NEW t \in Tasks, NEW l \in Mutexes, NEW d \in Int, Believe(t, l, d)
  PROVE  /\ depth'[t][l] = depth[t][l] + d
         /\ \A u \in Tasks \ {t} : depth'[u] = depth[u]
         /\ \A m \in Mutexes \ {l} : depth'[t][m] = depth[t][m]
         /\ depth[t][l] + d \in Nat => depth' \in [Tasks -> [Mutexes -> Nat]]
BY DEF Types, Believe

LEMMA Acquired ==
  ASSUME TaskConstants, Types, NEW t \in Tasks, NEW l \in Mutexes, Acquire(t, l)
  PROVE  /\ holder'[l] = t /\ count'[l] = count[l] + 1
         /\ \A m \in Mutexes \ {l} : holder'[m] = holder[m] /\ count'[m] = count[m]
         /\ holder' \in [Mutexes -> Tasks \cup {NoTask}] /\ count' \in [Mutexes -> Nat]
BY DEF Types, Acquire

LEMMA Released ==
  ASSUME TaskConstants, Types, NEW l \in Mutexes, Release(l), count[l] # 0
  PROVE  /\ \A m \in Mutexes \ {l} : holder'[m] = holder[m] /\ count'[m] = count[m]
         /\ holder' \in [Mutexes -> Tasks \cup {NoTask}] /\ count' \in [Mutexes -> Nat]
<1>1. count[l] - 1 \in Nat
  BY DEF Types
<1> QED BY <1>1 DEF Types, Release
-----------------------------------------------------------------------------
(* mutex-lock!: t has acquired l.                                          *)
LEMMA LockStep ==
  ASSUME TaskConstants, LocksInv, NEW t \in Tasks, NEW l \in Mutexes,
         Runs(t), kind[l] \in {"pthread", "spin"}, Lockable(t, l), Acquire(t, l), HasLocked(t, l),
         UNCHANGED <<probes, kind, locked, free, held, said>>
  PROVE  LocksInv'
<1>1. Types /\ at[t] = Running /\ Owned(l) /\ TaskInv(t) /\ LockInv(l)
  BY DEF LocksInv, LockInv, Runs
<1>2. holder[l] \in {NoTask, t}
  BY DEF Lockable
<1>3. CASE probes \/ kind[l] = "spin"
  <2>1. Believe(t, l, 1) /\ at' = at
    BY <1>3 DEF HasLocked
  <2>2. depth'[t][l] = depth[t][l] + 1 /\ depth[t][l] + 1 \in Nat
    BY <1>1, <2>1, HasAt, Deeper
  <2>3. Types'
    BY <1>1, <2>1, <2>2, Deeper, Acquired DEF Types
  <2>4. Has(t, l)' = Has(t, l) + 1
    <3>1. Extra(t, l)' = Extra(t, l) /\ Extra(t, l) = 0 /\ depth[t][l] \in Nat
      BY <1>1, <2>1 DEF Extra, On, Running, Types
    <3> QED BY <2>2, <3>1 DEF Has
  <2>5. Owned(l)'
    BY <1>1, <1>2, <2>1, <2>4, Deeper, Acquired, OwnedAcquired
  <2>6. LockInv(l)'
    BY <1>3, <2>5 DEF LockInv
  <2>7. TaskInv(t)'
    BY <1>1, <2>1 DEF TaskInv, Running, Probing
  <2> QED BY <1>1, <2>1, <2>3, <2>6, <2>7, Deeper, Acquired, StepOn
<1>4. CASE ~ probes /\ kind[l] # "spin"
  <2> DEFINE r == Doing("locked++", l)
  <2>1. at' = [at EXCEPT ![t] = r] /\ depth' = depth
    BY <1>4 DEF HasLocked
  <2>2. r \in Calls /\ r.pc = "locked++" /\ r.lock = l /\ r # Running
    BY DoingCalls
  <2> HIDE DEF r
  <2>3. at'[t] = r /\ \A u \in Tasks \ {t} : at'[u] = at[u]
    BY <1>1, <2>1, Moved
  <2>4. Types'
    BY <1>1, <2>1, <2>2, Acquired DEF Types
  <2>5. Has(t, l)' = Has(t, l) + 1
    <3>1. Extra(t, l)' = 1 /\ Extra(t, l) = 0 /\ depth[t][l] \in Nat
      BY <1>1, <2>2, <2>3 DEF Extra, On, Running, Types
    <3> QED BY <2>1, <3>1 DEF Has
  <2>6. Owned(l)'
    BY <1>1, <1>2, <2>1, <2>3, <2>5, Acquired, OwnedAcquired
  <2>7. LockInv(l)'
    BY <1>1, <1>4, <2>1, <2>6, CountedKept DEF LockInv
  <2>8. TaskInv(t)'
    BY <1>1, <1>4, <2>2, <2>3 DEF TaskInv, Running, Probing
  <2> QED BY <1>1, <2>1, <2>2, <2>3, <2>4, <2>7, <2>8, Acquired, StepOn
<1> QED BY <1>3, <1>4

LEMMA IncrementedStep ==
  ASSUME TaskConstants, LocksInv, NEW t \in Tasks, NEW l \in Mutexes, LockedIncremented(t, l)
  PROVE  LocksInv'
<1>1. /\ Types /\ TaskInv(t) /\ at[t].pc = "locked++" /\ at[t].lock = l /\ ~ probes
      /\ kind[l] = "pthread" /\ Owned(l) /\ Counted(l)
  BY Places DEF LocksInv, LockInv, LockedIncremented, TaskInv
<1>2. /\ at' = [at EXCEPT ![t] = Running] /\ Believe(t, l, 1)
      /\ UNCHANGED <<probes, kind, holder, count, free, held, said>>
      /\ locked' = [locked EXCEPT ![l] = @ + 1]
  BY DEF LockedIncremented
<1>3. depth'[t][l] = depth[t][l] + 1 /\ depth[t][l] + 1 \in Nat
  BY <1>1, <1>2, HasAt, Deeper
<1>4. at'[t] = Running /\ \A u \in Tasks \ {t} : at'[u] = at[u]
  BY <1>1, <1>2, Moved
<1>5. Types'
  BY <1>1, <1>2, <1>3, Deeper DEF Types
<1>6. Has(t, l)' = Has(t, l)
  <2>1. Extra(t, l)' = 0 /\ Extra(t, l) = 1 /\ depth[t][l] \in Nat
    BY <1>1, <1>4 DEF Extra, On, Running, Types
  <2> QED BY <1>3, <2>1 DEF Has
<1>7. locked'[l] = locked[l] + 1 /\ \A m \in Mutexes \ {l} : locked'[m] = locked[m]
  BY <1>1, <1>2 DEF Types
<1>8. LockInv(l)'
  BY <1>1, <1>2, <1>3, <1>4, <1>6, <1>7, Deeper, OwnedKept, CountedMore DEF LockInv
<1>9. TaskInv(t)'
  BY <1>1, <1>2, <1>4 DEF TaskInv, Running, Probing
<1> QED BY <1>1, <1>2, <1>4, <1>5, <1>7, <1>8, <1>9, Deeper, StepOn

LEMMA UnlockStep ==
  ASSUME TaskConstants, LocksInv, NEW t \in Tasks, NEW l \in Mutexes, BglpthMutexUnlock(t, l)
  PROVE  LocksInv'
<1> DEFINE r == Doing("unlock", l)
<1>1. /\ Types /\ TaskInv(t) /\ at[t] = Running /\ kind[l] \in {"pthread", "spin"}
      /\ Owned(l) /\ LockInv(l) /\ depth[t][l] > 0
  BY DEF LocksInv, LockInv, BglpthMutexUnlock, Runs
<1>2. /\ at' = [at EXCEPT ![t] = r] /\ Believe(t, l, -1)
      /\ UNCHANGED <<probes, kind, holder, count, free, held, said>>
      /\ locked' = IF probes \/ kind[l] = "spin" THEN locked ELSE [locked EXCEPT ![l] = @ - 1]
  BY DEF BglpthMutexUnlock
<1>3. r \in Calls /\ r.pc = "unlock" /\ r.lock = l /\ r # Running
  BY DoingCalls
<1> HIDE DEF r
<1>4. at'[t] = r /\ \A u \in Tasks \ {t} : at'[u] = at[u]
  BY <1>1, <1>2, Moved
<1>5. depth'[t][l] = depth[t][l] - 1 /\ depth[t][l] - 1 \in Nat /\ depth[t][l] + (-1) \in Nat
  BY <1>1, <1>2, HasAt, Deeper
<1>6. Types'
  BY <1>1, <1>2, <1>3, <1>5, Deeper DEF Types
<1>7. Has(t, l)' = Has(t, l)
  <2>1. Extra(t, l)' = 1 /\ Extra(t, l) = 0 /\ depth[t][l] \in Nat
    BY <1>1, <1>3, <1>4 DEF Extra, On, Running, Types
  <2> QED BY <1>5, <2>1 DEF Has
<1>8. /\ \A m \in Mutexes \ {l} : locked'[m] = locked[m]
      /\ kind[l] = "pthread" /\ ~ probes => locked'[l] = locked[l] - 1
  BY <1>1, <1>2 DEF Types
<1>9. LockInv(l)'
  BY <1>1, <1>2, <1>4, <1>5, <1>7, <1>8, Deeper, OwnedKept, CountedLess DEF LockInv
<1>10. TaskInv(t)'
  BY <1>1, <1>2, <1>3, <1>4 DEF TaskInv, Running, Probing
<1> QED BY <1>1, <1>2, <1>3, <1>4, <1>6, <1>8, <1>9, <1>10, Deeper, StepOn

(* A pthread_mutex is released once: by an unlock, by a probe, or by a     *)
(* wait.  t goes on at r.                                                  *)
LEMMA ReleaseStep ==
  ASSUME TaskConstants, LocksInv, NEW t \in Tasks, NEW l \in Mutexes, NEW r \in {Running} \cup Calls,
         at[t] = Running \/ at[t].lock = l, r = Running \/ r.lock = l,
         at' = [at EXCEPT ![t] = r], Release(l),
         UNCHANGED <<probes, kind, locked, depth, free, held, said>>,
         kind[l] \in {"pthread", "spin"}, Has(t, l) # 0, Has(t, l)' = Has(t, l) - 1, TaskInv(t)'
  PROVE  LocksInv' /\ holder[l] = t
<1>1. Types /\ Owned(l) /\ LockInv(l)
  BY DEF LocksInv, LockInv
<1>2. at'[t] = r /\ \A u \in Tasks \ {t} : at'[u] = at[u]
  BY <1>1, Moved
<1>3. Owned(l)' /\ holder[l] = t
  BY <1>1, <1>2, OwnedReleased
<1>4. count[l] # 0
  BY <1>3, <1>1 DEF Owned, TaskConstants
<1>5. Types'
  BY <1>1, <1>4, Released DEF Types
<1>6. LockInv(l)'
  BY <1>1, <1>3, CountedKept DEF LockInv
<1> QED BY <1>1, <1>2, <1>3, <1>4, <1>5, <1>6, Released, StepOn

(* It is acquired again, by a wait or a probe that ends.                   *)
LEMMA AcquireStep ==
  ASSUME TaskConstants, LocksInv, NEW t \in Tasks, NEW l \in Mutexes, NEW r \in {Running} \cup Calls,
         at[t] = Running \/ at[t].lock = l, r = Running \/ r.lock = l,
         at' = [at EXCEPT ![t] = r], Lockable(t, l), Acquire(t, l),
         UNCHANGED <<probes, kind, locked, depth>>,
         \A u \in Tasks \ {t} : free'[u] = free[u] /\ held'[u] = held[u] /\ said'[u] = said[u],
         free' \in [Tasks -> BOOLEAN], held' \in [Tasks -> BOOLEAN],
         said' \in [Tasks -> {"nothing", "locked", "unlocked"}],
         kind[l] \in {"pthread", "spin"}, Has(t, l)' = Has(t, l) + 1, TaskInv(t)'
  PROVE  LocksInv'
<1>1. Types /\ Owned(l) /\ LockInv(l) /\ holder[l] \in {NoTask, t}
  BY DEF LocksInv, LockInv, Lockable
<1>2. at'[t] = r /\ \A u \in Tasks \ {t} : at'[u] = at[u]
  BY <1>1, Moved
<1>3. Owned(l)'
  BY <1>1, <1>2, Acquired, OwnedAcquired
<1>4. Types'
  BY <1>1, Acquired DEF Types
<1>5. LockInv(l)'
  BY <1>1, <1>3, CountedKept DEF LockInv
<1> QED BY <1>1, <1>2, <1>3, <1>4, <1>5, Acquired, StepOn

(* mutex-state answers, or goes on at r, without a pthread_mutex.          *)
LEMMA AnswerStep ==
  ASSUME TaskConstants, LocksInv, NEW t \in Tasks, NEW l \in Mutexes,
         at[t] = Running \/ at[t].lock = l, at' = [at EXCEPT ![t] = Running],
         UNCHANGED <<probes, kind, holder, count, locked, depth>>,
         \A u \in Tasks \ {t} : free'[u] = free[u] /\ held'[u] = held[u] /\ said'[u] = said[u],
         free' \in [Tasks -> BOOLEAN], held' \in [Tasks -> BOOLEAN],
         said' \in [Tasks -> {"nothing", "locked", "unlocked"}],
         kind[l] \in {"pthread", "spin"}, Has(t, l)' = Has(t, l), TaskInv(t)'
  PROVE  LocksInv'
<1>1. Types /\ Owned(l) /\ LockInv(l)
  BY DEF LocksInv, LockInv
<1>2. at'[t] = Running /\ \A u \in Tasks \ {t} : at'[u] = at[u]
  BY <1>1, Moved
<1>3. Owned(l)'
  BY <1>1, <1>2, OwnedKept
<1>4. Types'
  BY <1>1 DEF Types
<1>5. LockInv(l)'
  BY <1>1, <1>3, CountedKept DEF LockInv
<1> QED BY <1>1, <1>2, <1>4, <1>5, StepOn
-----------------------------------------------------------------------------
LEMMA PthreadUnlockStep ==
  ASSUME TaskConstants, LocksInv, NEW t \in Tasks, NEW l \in Mutexes, PthreadMutexUnlock(t, l)
  PROVE  LocksInv'
<1>1. /\ Types /\ TaskInv(t) /\ at[t].pc = "unlock" /\ at[t].lock = l /\ at[t] # Running
      /\ kind[l] \in {"pthread", "spin"}
  BY Places DEF LocksInv, PthreadMutexUnlock, TaskInv
<1>2. /\ at' = [at EXCEPT ![t] = Running] /\ Release(l)
      /\ UNCHANGED <<probes, kind, locked, depth, free, held, said>>
  BY DEF PthreadMutexUnlock
<1>3. at'[t] = Running
  BY <1>1, <1>2, Moved
<1>4. Has(t, l) # 0 /\ Has(t, l)' = Has(t, l) - 1
  <2>1. Extra(t, l)' = 0 /\ Extra(t, l) = 1 /\ depth[t][l] \in Nat
    BY <1>1, <1>3 DEF Extra, On, Running, Types
  <2> QED BY <1>2, <2>1 DEF Has
<1>5. TaskInv(t)'
  BY <1>1, <1>2, <1>3 DEF TaskInv, Running, Probing
<1> QED BY <1>1, <1>2, <1>4, <1>5, ReleaseStep

LEMMA WaitStep ==
  ASSUME TaskConstants, LocksInv, NEW t \in Tasks, NEW l \in Mutexes, BglpthCondvarWait(t, l)
  PROVE  LocksInv'
<1> DEFINE r == Doing("wait", l)
<1>1. Types /\ TaskInv(t) /\ at[t] = Running /\ kind[l] = "pthread" /\ depth[t][l] > 0
  BY DEF LocksInv, BglpthCondvarWait, Runs
<1>2. /\ at' = [at EXCEPT ![t] = r] /\ Release(l)
      /\ UNCHANGED <<probes, kind, locked, depth, free, held, said>>
  BY DEF BglpthCondvarWait
<1>3. r \in Calls /\ r.pc = "wait" /\ r.lock = l /\ r # Running
  BY DoingCalls
<1> HIDE DEF r
<1>4. at'[t] = r
  BY <1>1, <1>2, Moved
<1>5. Has(t, l) # 0 /\ Has(t, l)' = Has(t, l) - 1
  <2>1. Extra(t, l)' = -1 /\ Extra(t, l) = 0 /\ depth[t][l] \in Nat
    BY <1>1, <1>3, <1>4 DEF Extra, On, Running, Types
  <2> QED BY <1>1, <1>2, <2>1 DEF Has
<1>6. TaskInv(t)'
  BY <1>1, <1>2, <1>3, <1>4 DEF TaskInv, Running, Probing
<1> QED BY <1>1, <1>2, <1>3, <1>5, <1>6, ReleaseStep

LEMMA WokenStep ==
  ASSUME TaskConstants, LocksInv, NEW t \in Tasks, NEW l \in Mutexes, BglpthCondvarWoken(t, l)
  PROVE  LocksInv'
<1>1. /\ Types /\ TaskInv(t) /\ at[t].pc = "wait" /\ at[t].lock = l /\ at[t] # Running
      /\ kind[l] = "pthread" /\ depth[t][l] > 0
  BY Places DEF LocksInv, BglpthCondvarWoken, TaskInv
<1>2. /\ at' = [at EXCEPT ![t] = Running] /\ Lockable(t, l) /\ Acquire(t, l)
      /\ UNCHANGED <<probes, kind, locked, depth, free, held, said>>
  BY DEF BglpthCondvarWoken
<1>3. at'[t] = Running
  BY <1>1, <1>2, Moved
<1>4. Has(t, l)' = Has(t, l) + 1
  <2>1. Extra(t, l)' = 0 /\ Extra(t, l) = -1 /\ depth[t][l] \in Nat
    BY <1>1, <1>3 DEF Extra, On, Running, Types
  <2> QED BY <1>2, <2>1 DEF Has
<1>5. TaskInv(t)'
  BY <1>1, <1>2, <1>3 DEF TaskInv, Running, Probing
<1> QED BY <1>1, <1>2, <1>4, <1>5, AcquireStep DEF Types

(* A mutex that does nothing.                                              *)
LEMMA DefaultStep ==
  ASSUME TaskConstants, LocksInv, NEW t \in Tasks, NEW l \in Mutexes, BglActDefault(t, l)
  PROVE  LocksInv'
<1>1. Types /\ TaskInv(t) /\ at[t] = Running /\ kind[l] = "nothread" /\ LockInv(l)
  BY DEF LocksInv, BglActDefault, Runs
<1>2. UNCHANGED <<probes, kind, holder, count, locked, at, free, held, said>>
  BY DEF BglActDefault
<1>3. PICK d \in Int : Believe(t, l, d) /\ depth[t][l] + d \in Nat
  <2>1. depth[t][l] \in Nat
    BY <1>1, HasAt
  <2>2. CASE Believe(t, l, 1)
    <3>1. 1 \in Int /\ depth[t][l] + 1 \in Nat
      BY <2>1
    <3> QED BY <2>2, <3>1
  <2>3. CASE depth[t][l] > 0 /\ Believe(t, l, -1)
    <3>1. -1 \in Int /\ depth[t][l] + (-1) \in Nat
      BY <2>1, <2>3
    <3> QED BY <2>3, <3>1
  <2> QED BY <2>2, <2>3 DEF BglActDefault
<1>4. Types'
  BY <1>1, <1>2, <1>3, Deeper DEF Types
<1>5. LockInv(l)'
  BY <1>1, <1>2 DEF LockInv, Unowned
<1>6. TaskInv(t)'
  BY <1>1, <1>2 DEF TaskInv, Running, Probing
<1> QED BY <1>1, <1>2, <1>3, <1>4, <1>5, <1>6, Deeper, StepOn
-----------------------------------------------------------------------------
(* mutex-state has answered.                                               *)
LEMMA Answered ==
  ASSUME Types, NEW t \in Tasks, NEW state \in {"locked", "unlocked"}, Answer(t, state)
  PROVE  /\ at' = [at EXCEPT ![t] = Running] /\ at'[t] = Running /\ said'[t] = state
         /\ \A u \in Tasks \ {t} : said'[u] = said[u]
         /\ said' \in [Tasks -> {"nothing", "locked", "unlocked"}]
BY DEF Types, Answer

LEMMA Noted ==
  ASSUME Types, NEW t \in Tasks, NEW f \in BOOLEAN, NEW h \in BOOLEAN,
         free' = [free EXCEPT ![t] = f], held' = [held EXCEPT ![t] = h]
  PROVE  /\ free'[t] = f /\ held'[t] = h
         /\ \A u \in Tasks \ {t} : free'[u] = free[u] /\ held'[u] = held[u]
         /\ free' \in [Tasks -> BOOLEAN] /\ held' \in [Tasks -> BOOLEAN]
BY DEF Types

LEMMA ByCountStep ==
  ASSUME TaskConstants, LocksInv, NEW t \in Tasks, NEW l \in Mutexes, StateByCount(t, l)
  PROVE  LocksInv'
<1> DEFINE state == IF locked[l] > 0 THEN "locked" ELSE "unlocked"
<1>1. /\ Types /\ TaskInv(t) /\ at[t] = Running /\ kind[l] = "pthread" /\ ~ probes /\ Counted(l)
      /\ Answer(t, state) /\ UNCHANGED <<probes, kind, holder, count, locked, depth>>
  BY DEF LocksInv, LockInv, StateByCount, Runs
<1>2. locked[l] > 0 <=> Taken(l)
  BY <1>1, CountedTaken
<1>3. /\ free'[t] = ~ Taken(l) /\ held'[t] = Taken(l)
      /\ \A u \in Tasks \ {t} : free'[u] = free[u] /\ held'[u] = held[u]
      /\ free' \in [Tasks -> BOOLEAN] /\ held' \in [Tasks -> BOOLEAN]
  <2>1. Taken(l) \in BOOLEAN
    BY DEF Taken
  <2> QED BY <1>1, <2>1, Noted DEF StateByCount
<1>4. /\ at' = [at EXCEPT ![t] = Running] /\ at'[t] = Running /\ said'[t] = state
      /\ \A u \in Tasks \ {t} : said'[u] = said[u]
      /\ said' \in [Tasks -> {"nothing", "locked", "unlocked"}]
  BY <1>1, Answered
<1>5. Has(t, l)' = Has(t, l)
  BY <1>1, <1>4 DEF Has, Extra, On, Running
<1>6. TaskInv(t)'
  BY <1>1, <1>2, <1>3, <1>4 DEF TaskInv, Running, Probing
<1> HIDE DEF state
<1> QED BY <1>1, <1>3, <1>4, <1>5, <1>6, AnswerStep

LEMMA StateStep ==
  ASSUME TaskConstants, LocksInv, NEW t \in Tasks, NEW l \in Mutexes, BglpthMutexState(t, l)
  PROVE  LocksInv'
<1>1. /\ Types /\ TaskInv(t) /\ at[t] = Running /\ kind[l] = "pthread" /\ Owned(l)
      /\ UNCHANGED <<probes, kind, locked, depth>>
  BY DEF LocksInv, LockInv, BglpthMutexState, Runs
<1>2. /\ free'[t] = (holder[l] = NoTask) /\ held'[t] = (holder[l] # NoTask)
      /\ \A u \in Tasks \ {t} : free'[u] = free[u] /\ held'[u] = held[u]
      /\ free' \in [Tasks -> BOOLEAN] /\ held' \in [Tasks -> BOOLEAN]
  BY <1>1, Noted DEF BglpthMutexState
<1>3. CASE Lockable(t, l)
  <2> DEFINE r == Doing("unprobe", l)
  <2>1. at' = [at EXCEPT ![t] = r] /\ Acquire(t, l) /\ said' = said
    BY <1>3 DEF BglpthMutexState
  <2>2. r \in Calls /\ r.pc = "unprobe" /\ r.lock = l /\ r # Running
    BY DoingCalls
  <2> HIDE DEF r
  <2>3. at'[t] = r
    BY <1>1, <2>1, Moved
  <2>4. Extra(t, l)' = 1 /\ Extra(t, l) = 0 /\ depth[t][l] \in Nat
    BY <1>1, <2>2, <2>3 DEF Extra, On, Running, Types
  <2>5. Has(t, l)' = Has(t, l) + 1
    BY <1>1, <2>4 DEF Has
  <2>6. IF depth[t][l] > 0 THEN holder[l] # NoTask ELSE holder[l] = NoTask
    <3>1. Has(t, l) = depth[t][l] /\ holder[l] \in {NoTask, t} /\ t # NoTask
      BY <1>3, <2>4 DEF Has, Lockable, TaskConstants
    <3>2. holder[l] = t => depth[t][l] = count[l] /\ count[l] # 0
      BY <1>1, <3>1 DEF Owned
    <3>3. holder[l] = NoTask => depth[t][l] = 0
      BY <1>1, <3>1 DEF Owned
    <3> QED BY <2>4, <3>1, <3>2, <3>3
  <2>7. TaskInv(t)'
    BY <1>1, <1>2, <2>2, <2>3, <2>6 DEF TaskInv, Running, Probing
  <2> QED BY <1>1, <1>2, <1>3, <2>1, <2>2, <2>5, <2>7, AcquireStep DEF Types
<1>4. CASE ~ Lockable(t, l)
  <2>1. Answer(t, "locked") /\ UNCHANGED <<holder, count>> /\ holder[l] # NoTask
    BY <1>4 DEF BglpthMutexState, Lockable
  <2>2. /\ at' = [at EXCEPT ![t] = Running] /\ at'[t] = Running /\ said'[t] = "locked"
        /\ \A u \in Tasks \ {t} : said'[u] = said[u]
        /\ said' \in [Tasks -> {"nothing", "locked", "unlocked"}]
    BY <1>1, <2>1, Answered
  <2>3. Has(t, l)' = Has(t, l)
    BY <1>1, <2>2 DEF Has, Extra, On, Running
  <2>4. TaskInv(t)'
    BY <1>1, <1>2, <2>1, <2>2 DEF TaskInv, Running, Probing
  <2> QED BY <1>1, <1>2, <2>1, <2>2, <2>3, <2>4, AnswerStep
<1> QED BY <1>3, <1>4

LEMMA UnprobeStep ==
  ASSUME TaskConstants, LocksInv, NEW t \in Tasks, NEW l \in Mutexes, StateUnlocks(t, l)
  PROVE  LocksInv'
<1> DEFINE r == Doing("probe", l)
<1>1. /\ Types /\ TaskInv(t) /\ at[t].pc = "unprobe" /\ at[t].lock = l /\ kind[l] = "pthread"
  BY Places DEF LocksInv, StateUnlocks, TaskInv
<1>2. /\ at' = [at EXCEPT ![t] = r] /\ Release(l)
      /\ UNCHANGED <<probes, kind, locked, depth, free, held, said>>
  BY DEF StateUnlocks
<1>3. r \in Calls /\ r.pc = "probe" /\ r.lock = l /\ r # Running
  BY DoingCalls
<1> HIDE DEF r
<1>4. at'[t] = r
  BY <1>1, <1>2, Moved
<1>5. Has(t, l) # 0 /\ Has(t, l)' = Has(t, l) - 1
  <2>1. Extra(t, l)' = 0 /\ Extra(t, l) = 1 /\ depth[t][l] \in Nat
    BY <1>1, <1>3, <1>4 DEF Extra, On, Running, Types
  <2> QED BY <1>1, <1>2, <2>1 DEF Has
<1>6. TaskInv(t)'
  BY <1>1, <1>2, <1>3, <1>4 DEF TaskInv, Running, Probing
<1> QED BY <1>1, <1>2, <1>3, <1>5, <1>6, ReleaseStep

LEMMA ProbeStep ==
  ASSUME TaskConstants, LocksInv, NEW t \in Tasks, NEW l \in Mutexes, StateWaits(t, l)
  PROVE  LocksInv'
<1>1. /\ Types /\ TaskInv(t) /\ at[t].pc = "probe" /\ at[t].lock = l /\ kind[l] = "pthread"
      /\ Owned(l) /\ UNCHANGED <<probes, kind, locked, depth, free, held>>
  BY Places DEF LocksInv, LockInv, StateWaits, TaskInv
<1>2. Extra(t, l) = 0 /\ depth[t][l] \in Nat /\ Has(t, l) = depth[t][l]
  BY <1>1 DEF Extra, On, Types, Has
<1>3. CASE holder[l] = t
  <2> DEFINE r == Doing("reprobe", l)
  <2>1. at' = [at EXCEPT ![t] = r] /\ Release(l) /\ said' = said
    BY <1>3 DEF StateWaits
  <2>2. r \in Calls /\ r.pc = "reprobe" /\ r.lock = l /\ r # Running
    BY DoingCalls
  <2> HIDE DEF r
  <2>3. at'[t] = r
    BY <1>1, <2>1, Moved
  <2>4. depth[t][l] > 0 /\ Has(t, l) # 0
    BY <1>1, <1>2, <1>3 DEF Owned, TaskConstants
  <2>5. Has(t, l)' = Has(t, l) - 1
    <3>1. Extra(t, l)' = -1
      BY <2>2, <2>3 DEF Extra, On
    <3> QED BY <1>1, <1>2, <3>1 DEF Has
  <2>6. TaskInv(t)'
    BY <1>1, <2>1, <2>2, <2>3, <2>4 DEF TaskInv, Running, Probing
  <2> QED BY <1>1, <2>1, <2>2, <2>4, <2>5, <2>6, ReleaseStep
<1>4. CASE holder[l] # t
  <2>1. Answer(t, "unlocked") /\ UNCHANGED <<holder, count>>
    BY <1>4 DEF StateWaits
  <2>2. /\ at' = [at EXCEPT ![t] = Running] /\ at'[t] = Running /\ said'[t] = "unlocked"
        /\ \A u \in Tasks \ {t} : said'[u] = said[u]
        /\ said' \in [Tasks -> {"nothing", "locked", "unlocked"}]
    BY <1>1, <2>1, Answered
  <2>3. Has(t, l)' = Has(t, l)
    BY <1>1, <1>2, <2>2 DEF Has, Extra, On, Running
  <2>4. free[t]
    <3>1. depth[t][l] = 0
      BY <1>1, <1>2, <1>4 DEF Owned
    <3> QED BY <1>1, <3>1 DEF TaskInv, Probing
  <2>5. TaskInv(t)'
    BY <1>1, <2>2, <2>4 DEF TaskInv, Running, Probing
  <2> QED BY <1>1, <2>1, <2>2, <2>3, <2>5, AnswerStep DEF Types
<1> QED BY <1>3, <1>4

LEMMA TimedOutStep ==
  ASSUME TaskConstants, LocksInv, NEW t \in Tasks, NEW l \in Mutexes, StateTimedOut(t, l)
  PROVE  LocksInv'
<1>1. /\ Types /\ TaskInv(t) /\ at[t].pc = "reprobe" /\ at[t].lock = l /\ kind[l] = "pthread"
      /\ depth[t][l] > 0 /\ UNCHANGED <<probes, kind, locked, depth, free, held>>
      /\ Lockable(t, l) /\ Acquire(t, l) /\ Answer(t, "locked")
  BY Places DEF LocksInv, StateTimedOut, TaskInv
<1>2. /\ at' = [at EXCEPT ![t] = Running] /\ at'[t] = Running /\ said'[t] = "locked"
      /\ \A u \in Tasks \ {t} : said'[u] = said[u]
      /\ said' \in [Tasks -> {"nothing", "locked", "unlocked"}]
  BY <1>1, Answered
<1>3. Has(t, l)' = Has(t, l) + 1
  <2>1. Extra(t, l)' = 0 /\ Extra(t, l) = -1 /\ depth[t][l] \in Nat
    BY <1>1, <1>2 DEF Extra, On, Running, Types
  <2> QED BY <1>1, <2>1 DEF Has
<1>4. TaskInv(t)'
  BY <1>1, <1>2 DEF TaskInv, Running, Probing
<1> QED BY <1>1, <1>2, <1>3, <1>4, AcquireStep DEF Types
-----------------------------------------------------------------------------
LEMMA LocksInit ==
  ASSUME TaskConstants, InitLocks
  PROVE  LocksInv
<1>1. Types
  BY DEF InitLocks, Types
<1>2. ASSUME NEW l \in Mutexes PROVE LockInv(l)
  <2>1. kind[l] = "none" /\ holder[l] = NoTask /\ count[l] = 0 /\ locked[l] = 0
        /\ \A t \in Tasks : depth[t][l] = 0
    BY DEF InitLocks
  <2>2. Believed(l) = {}
    <3>1. \A n \in Nat \ {0} : ~ (n <= 0)
      OBVIOUS
    <3> QED BY <2>1, <3>1 DEF Believed
  <2>3. Counted(l)
    BY <2>1, <2>2, FS_EmptySet DEF Counted
  <2> QED BY <2>1, <2>3 DEF LockInv, Unowned
<1>3. \A t \in Tasks : TaskInv(t)
  BY DEF InitLocks, TaskInv, Running, Probing
<1> QED BY <1>1, <1>2, <1>3 DEF LocksInv

LEMMA LocksStep ==
  ASSUME TaskConstants, LocksInv, LockNext
  PROVE  LocksInv'
<1>1. CASE BglMutexInitRegister
  BY <1>1, RegisterStep
<1>2. ASSUME NEW l \in Mutexes, BglMakeMutex(l) \/ BglMakeSpinlock(l) PROVE LocksInv'
  BY <1>2, MakeStep DEF BglMakeMutex, BglMakeSpinlock
<1>3. ASSUME NEW l \in Mutexes, NEW t \in Tasks,
             BglpthMutexLock(t, l) \/ BglpthMutexTimedLock(t, l)
      PROVE  LocksInv'
  <2>1. CASE BglpthMutexLock(t, l)
    BY <2>1, LockStep DEF BglpthMutexLock
  <2>2. CASE BglpthMutexTimedLock(t, l) /\ Lockable(t, l)
    BY <2>2, LockStep DEF BglpthMutexTimedLock
  <2>3. CASE BglpthMutexTimedLock(t, l) /\ ~ Lockable(t, l)
    BY <2>3, Same DEF BglpthMutexTimedLock, lockVars
  <2> QED BY <1>3, <2>1, <2>2, <2>3
<1>4. ASSUME NEW l \in Mutexes, NEW t \in Tasks, LockedIncremented(t, l) PROVE LocksInv'
  BY <1>4, IncrementedStep
<1>5. ASSUME NEW l \in Mutexes, NEW t \in Tasks, BglpthMutexUnlock(t, l) PROVE LocksInv'
  BY <1>5, UnlockStep
<1>6. ASSUME NEW l \in Mutexes, NEW t \in Tasks, PthreadMutexUnlock(t, l) PROVE LocksInv'
  BY <1>6, PthreadUnlockStep
<1>7. ASSUME NEW l \in Mutexes, NEW t \in Tasks, BglActDefault(t, l) PROVE LocksInv'
  BY <1>7, DefaultStep
<1>8. ASSUME NEW l \in Mutexes, NEW t \in Tasks,
             \/ StateByCount(t, l) \/ BglpthMutexState(t, l) \/ StateUnlocks(t, l)
             \/ StateWaits(t, l) \/ StateTimedOut(t, l)
      PROVE  LocksInv'
  BY <1>8, ByCountStep, StateStep, UnprobeStep, ProbeStep, TimedOutStep
<1>9. ASSUME NEW l \in Mutexes, NEW t \in Tasks,
             BglpthCondvarTimedWait(t, l) \/ BglpthCondvarWoken(t, l)
      PROVE  LocksInv'
  BY <1>9, WaitStep, WokenStep, Same DEF BglpthCondvarTimedWait
<1> QED BY <1>1, <1>2, <1>3, <1>4, <1>5, <1>6, <1>7, <1>8, <1>9 DEF LockNext

LEMMA LocksSafe ==
  ASSUME TaskConstants, LocksInv
  PROVE  MutexesExact
<1>1. ASSUME NEW l \in Mutexes, kind[l] # "nothread"
      PROVE  /\ Cardinality({t \in Tasks : Inside(t, l)}) <= 1
             /\ \A t \in Tasks : Inside(t, l) => holder[l] = t
             /\ holder[l] # NoTask /\ Runs(holder[l]) => count[l] = depth[holder[l]][l]
             /\ kind[l] = "pthread" /\ ~ probes => (locked[l] > 0 <=> Taken(l))
  <2>1. Types /\ LockInv(l)
    BY DEF LocksInv
  <2>2. ASSUME NEW t \in Tasks, Inside(t, l) PROVE holder[l] = t
    <3>1. depth[t][l] \in Nat /\ depth[t][l] > 0 /\ Extra(t, l) \in {0, 1}
      BY <2>1, <2>2, Places, HasAt DEF Inside, Extra, On
    <3>2. Has(t, l) # 0 /\ kind[l] # "none"
      BY <2>1, <3>1 DEF Has, LockInv, Unowned
    <3>3. Owned(l)
      BY <1>1, <2>1, <3>2 DEF LockInv, Types
    <3> QED BY <3>2, <3>3 DEF Owned
  <2>3. Cardinality({t \in Tasks : Inside(t, l)}) <= 1
    <3>1. {t \in Tasks : Inside(t, l)} \subseteq {holder[l]}
      BY <2>2
    <3>2. IsFiniteSet({holder[l]}) /\ Cardinality({holder[l]}) = 1
      BY FS_Singleton
    <3> QED BY <3>1, <3>2, FS_Subset
  <2>4. ASSUME holder[l] # NoTask, Runs(holder[l]) PROVE count[l] = depth[holder[l]][l]
    <3>1. holder[l] \in Tasks /\ at[holder[l]] = Running /\ Owned(l)
      BY <1>1, <2>1, <2>4 DEF LockInv, Types, Unowned, Runs
    <3> QED BY <2>1, <3>1, HasAt DEF Owned
  <2>5. kind[l] = "pthread" /\ ~ probes => (locked[l] > 0 <=> Taken(l))
    BY <2>1, CountedTaken DEF LockInv
  <2> QED BY <2>2, <2>3, <2>4, <2>5
<1>2. ASSUME NEW t \in Tasks, Runs(t)
      PROVE  (said[t] = "unlocked" => free[t]) /\ (said[t] = "locked" => held[t])
  BY <1>2 DEF LocksInv, TaskInv, Runs, Running, Probing
<1> QED BY <1>1, <1>2 DEF MutexesExact
-----------------------------------------------------------------------------
Values == EnvValues \cup {Default}
Env == [copied : Values, fresh : Values, thread : Tasks \cup {NoTask}]

(* A thread that was started finds its environment in its structure, which *)
(* is not yet the one it must find in one field, current_thread; and no    *)
(* two threads are given the same one.                                     *)
EnvsInv ==
  /\ heap \in Seq(Env) /\ expected \in [Tasks -> Env]
  /\ given \in [Tasks -> 0 .. Len(heap)] /\ local \in [Tasks -> 0 .. Len(heap)]
  /\ \A t \in Tasks : local[t] # NoEnv => local[t] = given[t] /\ heap[local[t]] = expected[t]
  /\ \A t \in Tasks : given[t] # NoEnv /\ local[t] = NoEnv =>
       expected[t] = [heap[given[t]] EXCEPT !.thread = t]
  /\ \A t, u \in Tasks : given[t] = given[u] /\ given[t] # NoEnv => t = u

LEMMA EnvsInit ==
  ASSUME TaskConstants, InitEnvs
  PROVE  EnvsInv
<1>1. PICK main \in Tasks :
        /\ heap = <<[MakeDynamicEnv EXCEPT !.thread = main]>>
        /\ local = [t \in Tasks |-> IF t = main THEN 1 ELSE NoEnv]
        /\ given = local
        /\ expected = [t \in Tasks |-> heap[1]]
  BY DEF InitEnvs
<1>2. PICK e \in Env : e = [MakeDynamicEnv EXCEPT !.thread = main]
  BY DEF MakeDynamicEnv, Env, Values
<1>3. heap = <<e>> /\ heap[1] = e /\ Len(heap) = 1 /\ heap \in Seq(Env)
  BY <1>1, <1>2
<1>4. expected = [t \in Tasks |-> e]
  BY <1>1, <1>3
<1> QED BY <1>1, <1>3, <1>4 DEF EnvsInv, NoEnv

LEMMA EnvsCreate ==
  ASSUME EnvsInv, NEW c \in Tasks, NEW t \in Tasks, BglpthThreadEnvCreate(c, t)
  PROVE  EnvsInv'
<1>1. PICK o \in Env : o = heap[local[c]] /\ o = expected[c]
  BY DEF EnvsInv, BglpthThreadEnvCreate, NoEnv
<1>2. PICK e : e = BglDupDynamicEnv(o)
  OBVIOUS
<1>3. PICK x : x = [e EXCEPT !.thread = t]
  OBVIOUS
<1>4. e \in Env /\ x \in Env
  BY <1>2, <1>3 DEF BglDupDynamicEnv, MakeDynamicEnv, Env, Values
<1>5. /\ heap' = Append(heap, e) /\ given' = [given EXCEPT ![t] = Len(heap) + 1]
      /\ expected' = [expected EXCEPT ![t] = x] /\ local' = local
      /\ given[t] = NoEnv
  BY <1>1, <1>2, <1>3 DEF BglpthThreadEnvCreate
<1>6. Len(heap) \in Nat /\ Len(heap') = Len(heap) + 1 /\ heap' \in Seq(Env)
      /\ heap'[Len(heap) + 1] = e /\ \A i \in 1 .. Len(heap) : heap'[i] = heap[i]
  BY <1>4, <1>5 DEF EnvsInv
<1>7. local[t] = NoEnv
  BY <1>5 DEF EnvsInv
<1>8. /\ expected'[t] = x /\ given'[t] = Len(heap) + 1
      /\ \A u \in Tasks \ {t} : expected'[u] = expected[u] /\ given'[u] = given[u]
      /\ expected' \in [Tasks -> Env] /\ given' \in [Tasks -> 0 .. Len(heap')]
      /\ local' \in [Tasks -> 0 .. Len(heap')]
  BY <1>4, <1>5, <1>6 DEF EnvsInv
<1>9. \A u \in Tasks : given[u] \in 0 .. Len(heap) /\ local[u] \in 0 .. Len(heap)
  BY DEF EnvsInv
<1>10. ASSUME NEW u \in Tasks, local'[u] # NoEnv
       PROVE  local'[u] = given'[u] /\ heap'[local'[u]] = expected'[u]
  BY <1>5, <1>6, <1>7, <1>8, <1>9, <1>10 DEF EnvsInv, NoEnv
<1>11. ASSUME NEW u \in Tasks, given'[u] # NoEnv, local'[u] = NoEnv
       PROVE  expected'[u] = [heap'[given'[u]] EXCEPT !.thread = u]
  <2>1. CASE u = t
    BY <1>3, <1>6, <1>8, <2>1
  <2>2. CASE u # t
    <3>1. heap'[given'[u]] = heap[given[u]]
      BY <1>6, <1>8, <1>9, <1>11, <2>2 DEF NoEnv
    <3> QED BY <1>5, <1>8, <1>11, <2>2, <3>1 DEF EnvsInv
  <2> QED BY <2>1, <2>2
<1>12. \A u, v \in Tasks : given'[u] = given'[v] /\ given'[u] # NoEnv => u = v
  <2>1. \A u \in Tasks \ {t} : given'[u] # given'[t]
    BY <1>6, <1>8, <1>9
  <2> QED BY <1>8, <2>1, SMTT(40) DEF EnvsInv
<1> QED BY <1>6, <1>8, <1>10, <1>11, <1>12 DEF EnvsInv

(* The environment of t is written, by t.                                  *)
LEMMA EnvsWritten ==
  ASSUME EnvsInv, NEW t \in Tasks, NEW e \in Env, given[t] # NoEnv,
         heap' = [heap EXCEPT ![given[t]] = e], given' = given,
         local' = [local EXCEPT ![t] = given[t]],
         expected' = [expected EXCEPT ![t] = e]
  PROVE  EnvsInv'
<1>1. \A u \in Tasks : given[u] \in 0 .. Len(heap) /\ local[u] \in 0 .. Len(heap)
  BY DEF EnvsInv
<1>2. given[t] \in 1 .. Len(heap) /\ Len(heap) \in Nat /\ heap \in Seq(Env)
  BY <1>1 DEF EnvsInv, NoEnv
<1>3. heap' \in Seq(Env) /\ Len(heap') = Len(heap) /\ heap'[given[t]] = e
      /\ \A i \in 1 .. Len(heap) : i # given[t] => heap'[i] = heap[i]
  BY <1>2
<1>4. /\ expected'[t] = e /\ local'[t] = given[t]
      /\ \A u \in Tasks \ {t} : expected'[u] = expected[u] /\ local'[u] = local[u]
      /\ expected' \in [Tasks -> Env] /\ local' \in [Tasks -> 0 .. Len(heap')]
      /\ given' \in [Tasks -> 0 .. Len(heap')]
  BY <1>1, <1>3 DEF EnvsInv
<1>5. ASSUME NEW u \in Tasks \ {t}, given[u] # NoEnv PROVE heap'[given[u]] = heap[given[u]]
  <2>1. given[u] # given[t] /\ given[u] \in 1 .. Len(heap)
    BY <1>1, <1>5 DEF EnvsInv, NoEnv
  <2> QED BY <1>3, <2>1
<1>6. ASSUME NEW u \in Tasks, local'[u] # NoEnv
      PROVE  local'[u] = given'[u] /\ heap'[local'[u]] = expected'[u]
  <2>1. CASE u = t
    BY <1>3, <1>4, <2>1
  <2>2. CASE u # t
    <3>1. local[u] = given[u] /\ heap[local[u]] = expected[u]
      BY <1>4, <1>6, <2>2 DEF EnvsInv
    <3> QED BY <1>4, <1>5, <1>6, <2>2, <3>1
  <2> QED BY <2>1, <2>2
<1>7. ASSUME NEW u \in Tasks, given'[u] # NoEnv, local'[u] = NoEnv
      PROVE  expected'[u] = [heap'[given'[u]] EXCEPT !.thread = u]
  <2>1. u # t
    BY <1>4, <1>7
  <2>2. expected[u] = [heap[given[u]] EXCEPT !.thread = u]
    BY <1>4, <1>7, <2>1 DEF EnvsInv
  <2> QED BY <1>4, <1>5, <1>7, <2>1, <2>2
<1> QED BY <1>3, <1>4, <1>6, <1>7 DEF EnvsInv

LEMMA EnvsStep ==
  ASSUME EnvsInv, EnvNext
  PROVE  EnvsInv'
<1>1. ASSUME NEW c \in Tasks, NEW t \in Tasks, BglpthThreadEnvCreate(c, t) PROVE EnvsInv'
  BY <1>1, EnvsCreate
<1>2. ASSUME NEW t \in Tasks, BglpthThreadInit(t) PROVE EnvsInv'
  <2>1. given[t] \in 1 .. Len(heap) /\ heap \in Seq(Env)
    BY <1>2 DEF EnvsInv, BglpthThreadInit, NoEnv
  <2>2. PICK e : e = [heap[given[t]] EXCEPT !.thread = t]
    OBVIOUS
  <2>3. heap[given[t]] \in Env
    BY <2>1
  <2>4. e \in Env
    BY <2>2, <2>3 DEF Env
  <2>5. heap' = [heap EXCEPT ![given[t]] = e] /\ local' = [local EXCEPT ![t] = given[t]]
        /\ given' = given /\ given[t] # NoEnv
    BY <1>2, <2>2 DEF BglpthThreadInit
  <2>6. expected[t] = e
    BY <1>2, <2>2 DEF EnvsInv, BglpthThreadInit
  <2>7. expected' = [expected EXCEPT ![t] = e]
    BY <1>2, <2>6 DEF EnvsInv, BglpthThreadInit
  <2> QED BY <2>4, <2>5, <2>7, EnvsWritten
<1>3. ASSUME NEW t \in Tasks, NEW v \in EnvValues, EnvSet(t, v) PROVE EnvsInv'
  <2>1. /\ local[t] = given[t] /\ given[t] # NoEnv /\ heap[local[t]] = expected[t]
        /\ expected[t] \in Env /\ given[t] \in 1 .. Len(heap)
    BY <1>3 DEF EnvsInv, EnvSet, NoEnv
  <2>2. local' = [local EXCEPT ![t] = given[t]] /\ given' = given
    BY <1>3, <2>1 DEF EnvsInv, EnvSet
  <2>3. PICK e \in Env : /\ heap' = [heap EXCEPT ![given[t]] = e]
                         /\ expected' = [expected EXCEPT ![t] = e]
    <3>1. PICK x, y : x = [expected[t] EXCEPT !.copied = v] /\ y = [expected[t] EXCEPT !.fresh = v]
      OBVIOUS
    <3>2. x \in Env /\ y \in Env
      BY <2>1, <3>1 DEF Env, Values
    <3>3. CASE /\ heap' = [heap EXCEPT ![local[t]].copied = v]
               /\ expected' = [expected EXCEPT ![t].copied = v]
      BY <2>1, <3>1, <3>2, <3>3
    <3>4. CASE /\ heap' = [heap EXCEPT ![local[t]].fresh = v]
               /\ expected' = [expected EXCEPT ![t].fresh = v]
      BY <2>1, <3>1, <3>2, <3>4
    <3> QED BY <1>3, <3>3, <3>4 DEF EnvSet
  <2> QED BY <2>1, <2>2, <2>3, EnvsWritten
<1> QED BY <1>1, <1>2, <1>3 DEF EnvNext

(* For any number of threads and of mutexes: two threads are never inside  *)
(* the same mutex of the pthread library or spinlock, mutex-state answers  *)
(* what was true during the call (bglpth_mutex_lock, _unlock, _state,      *)
(* bglpth_condvar_wait), and no thread finds what another stored in its    *)
(* dynamic environment (bgl_dup_dynamic_env, bglpth_thread_env_create).    *)
(* The exemptions of MutexesExact stay: a mutex made before the library    *)
(* was there ("nothread") excludes nobody, and a thread that asks for the  *)
(* state of a mutex it holds is outside of it until its second probe.      *)
THEOREM RuntimeLocks ==
  ASSUME TaskConstants
  PROVE  ThreadSpec => []LocksExact
<1> DEFINE Step == (LockNext /\ UNCHANGED envVars) \/ (EnvNext /\ UNCHANGED lockVars)
           Both == LocksInv /\ EnvsInv
<1>1. InitLocks /\ InitEnvs => Both
  BY LocksInit, EnvsInit
<1>2. Both /\ [Step]_threadVars => Both'
  <2> SUFFICES ASSUME LocksInv, EnvsInv, [Step]_threadVars PROVE LocksInv' /\ EnvsInv'
    OBVIOUS
  <2>1. UNCHANGED envVars => EnvsInv'
    BY DEF EnvsInv, envVars
  <2> QED BY <2>1, LocksStep, EnvsStep, Same DEF threadVars
<1>3. Both => LocksExact
  BY LocksSafe DEF LocksExact, EnvironmentsOwn, EnvsInv
<1> QED BY <1>1, <1>2, <1>3, PTL DEF ThreadSpec
=============================================================================
