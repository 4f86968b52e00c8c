--------------------------- MODULE DevicesProofs ---------------------------
(***************************************************************************)
(* Proofs about Devices: who holds a lock, and what follows for readings,  *)
(* copies and the end of Startup.                                          *)
(***************************************************************************)
EXTENDS Devices, FiniteSetTheorems, TLAPS

USE DEF CacheOf

(* The steps of Next that change something, in the order of the module. *)
LEMMA Steps ==
    ASSUME Next
    PROVE  \/ Change \/ StartNvidia \/ FirstUpdate \/ StartRemote \/ Wait
           \/ \E j \in Jobs : Tick(j) \/ JobLocks(j) \/ JobUnlocks(j) \/ Panic(j)
           \/ RunNvidiaSmi \/ RecordFailure
           \/ \E r \in Remotes : Answer(r) \/ Close(r)
           \/ \E g \in Gpus : Row(g)
           \/ \E r \in Remotes, d \in Domains : Line(r, d)
           \/ \E u \in Readers : \/ Update(u) \/ ReaderLocks(u)
                                 \/ ReaderUnlocks(u) \/ Ranged(u)
           \/ \E u \in Readers, s \in Sensors : Copy(u, s)
           \/ UNCHANGED vars
  BY Zenon DEF Next, Job, Reader

(* Only a panic ends the program, and then nothing happens any more. *)
LEMMA Crash ==
    ASSUME [Next]_vars, main' = "crashed"
    PROVE  (\E j \in Jobs : Panic(j)) \/ UNCHANGED vars
<1>1. CASE main = "crashed"
  BY <1>1, Zenon DEF Next
<1>2. CASE main # "crashed"
  <2>1. StartNvidia \/ FirstUpdate \/ StartRemote \/ Wait => main' # "crashed"
    BY DEF StartNvidia, FirstUpdate, StartRemote, Wait
  <2>2. Change \/ RunNvidiaSmi \/ RecordFailure \/ (\E g \in Gpus : Row(g)) => main' = main
    BY Zenon DEF Change, RunNvidiaSmi, RecordFailure, Row, startup
  <2>3. \A j \in Jobs : Tick(j) \/ JobLocks(j) \/ JobUnlocks(j) => main' = main
    BY Zenon DEF Tick, JobLocks, JobUnlocks, startup
  <2>4. \A r \in Remotes : Answer(r) \/ Close(r) \/ (\E d \in Domains : Line(r, d)) => main' = main
    BY Zenon DEF Answer, Close, Line
  <2>5. \A u \in Readers : \/ Update(u) \/ ReaderLocks(u) \/ ReaderUnlocks(u) \/ Ranged(u)
                           \/ \E s \in Sensors : Copy(u, s)
          => main' = main
    BY Zenon DEF Update, ReaderLocks, ReaderUnlocks, Ranged, Copy, startup
  <2> QED
    BY <1>2, <2>1, <2>2, <2>3, <2>4, <2>5, Steps, Zenon
<1> QED
  BY <1>1, <1>2

(* The steps that write the caches, and those of the readers. *)
LEMMA CacheSteps ==
    ASSUME [Next]_vars, main' # "crashed"
    PROVE  \/ cache' = cache
           \/ \E g \in Gpus : Row(g)
           \/ \E r \in Remotes, d \in Domains : Line(r, d)
<1>1. \/ Change \/ StartNvidia \/ FirstUpdate \/ StartRemote \/ Wait
      \/ RunNvidiaSmi \/ RecordFailure \/ UNCHANGED vars
      => cache' = cache
  BY Zenon DEF Change, StartNvidia, FirstUpdate, StartRemote, Wait, RunNvidiaSmi, RecordFailure, vars
<1>2. (\E j \in Jobs : Tick(j) \/ JobLocks(j) \/ JobUnlocks(j) \/ Panic(j)) => cache' = cache
  BY DEF Tick, JobLocks, JobUnlocks, Panic
<1>3. (\E r \in Remotes : Answer(r) \/ Close(r)) => cache' = cache
  BY Zenon DEF Answer, Close
<1>4. (\E u \in Readers : Update(u) \/ ReaderLocks(u) \/ ReaderUnlocks(u) \/ Ranged(u)) => cache' = cache
  BY Zenon DEF Update, ReaderLocks, ReaderUnlocks, Ranged
<1>5. (\E u \in Readers, s \in Sensors : Copy(u, s)) => cache' = cache
  BY Zenon DEF Copy
<1> QED
  BY <1>1, <1>2, <1>3, <1>4, <1>5, Steps, Zenon

LEMMA ReaderSteps ==
    ASSUME [Next]_vars, main' # "crashed"
    PROVE  \/ UNCHANGED readers
           \/ \E v \in Readers : \/ Update(v) \/ ReaderLocks(v) \/ ReaderUnlocks(v) \/ Ranged(v)
                                 \/ \E t \in Sensors : Copy(v, t)
<1>1. /\ \/ Change \/ StartNvidia \/ FirstUpdate \/ StartRemote \/ Wait
         \/ RunNvidiaSmi \/ RecordFailure \/ (\E g \in Gpus : Row(g)) \/ UNCHANGED vars
         => UNCHANGED readers
      /\ \A j \in Jobs : Tick(j) \/ JobLocks(j) \/ JobUnlocks(j) => UNCHANGED readers
      /\ \A r \in Remotes : Answer(r) \/ Close(r) \/ (\E c \in Domains : Line(r, c)) => UNCHANGED readers
  BY Zenon DEF Change, StartNvidia, FirstUpdate, StartRemote, Wait, RunNvidiaSmi, RecordFailure,
     Row, vars, readers, Tick, JobLocks, JobUnlocks, Answer, Close, Line
<1>2. \A j \in Jobs : ~ Panic(j)
  BY DEF Panic
<1> QED
  BY <1>1, <1>2, Steps

(* What is configured stays so. *)
LEMMA ConfigUnchanged == [Next]_vars => config' = config
<1> USE DEF sources, startup, vars
<1>1. \/ Change \/ StartNvidia \/ FirstUpdate \/ StartRemote \/ Wait
      \/ RunNvidiaSmi \/ RecordFailure \/ UNCHANGED vars \/ (\E g \in Gpus : Row(g))
      => config' = config
  BY Zenon DEF Change, StartNvidia, FirstUpdate, StartRemote, Wait, RunNvidiaSmi, RecordFailure, Row
<1>2. (\E j \in Jobs : Tick(j) \/ JobLocks(j) \/ JobUnlocks(j) \/ Panic(j)) => config' = config
  BY Zenon DEF Tick, JobLocks, JobUnlocks, Panic
<1>3. (\E r \in Remotes : Answer(r) \/ Close(r)) => config' = config
  BY Zenon DEF Answer, Close
<1>4. (\E r \in Remotes, d \in Domains : Line(r, d)) => config' = config
  BY Zenon DEF Line
<1>5. (\E u \in Readers : Update(u) \/ ReaderLocks(u) \/ ReaderUnlocks(u) \/ Ranged(u)) => config' = config
  BY Zenon DEF Update, ReaderLocks, ReaderUnlocks, Ranged
<1>6. (\E u \in Readers, s \in Sensors : Copy(u, s)) => config' = config
  BY Zenon DEF Copy
<1> QED
  BY <1>1, <1>2, <1>3, <1>4, <1>5, <1>6, Steps, Zenon

(* The WaitGroup counts the configured remotes that have not told it; only *)
(* the jobs of configured remotes ever run.                                *)
Counted ==
    /\ \A r \in Remotes : phase[r] # "off" => r \in Configured
    /\ main \in {"wait", "up"} => wg = Cardinality(Configured \ told)
    /\ main \notin {"wait", "up"} => /\ wg = 0 /\ told = {}
                                    /\ \A r \in Remotes : phase[r] = "off"

(* A finite set without one of its elements has one element less. *)
LEMMA OneLess ==
    ASSUME NEW r \in Configured, NEW S, r \notin S
    PROVE  /\ IsFiniteSet(Configured \ S)
           /\ Cardinality(Configured \ S) \in Nat
           /\ Cardinality(Configured \ (S \cup {r})) = Cardinality(Configured \ S) - 1
<1>1. IsFiniteSet(Configured \ S)
  BY DevicesAssumption, FS_Subset DEF Configured
<1>2. r \in Configured \ S /\ Configured \ (S \cup {r}) = (Configured \ S) \ {r}
  OBVIOUS
<1> QED
  BY <1>1, <1>2, FS_RemoveElement, FS_CardinalityType

(* The counter is a number, also in the next state. *)
LEMMA NextCountIsNat == Counted' => wg' \in Nat
<1>1. IsFiniteSet(Configured' \ told')
  BY DevicesAssumption, FS_Subset DEF Configured
<1>2. Cardinality(Configured' \ told') \in Nat
  BY <1>1, FS_CardinalityType
<1>3. Counted' => wg' = 0 \/ wg' = Cardinality(Configured' \ told')
  BY Zenon DEF Counted
<1> QED
  BY <1>2, <1>3

LEMMA TypeInit == Init => DevTypeOK
  BY DevicesAssumption DEF Init, DevTypeOK, Jobs, Sensors, Extensions, Values, Absent, Nothing

LEMMA TypeStep == DevTypeOK /\ Counted /\ wg' \in Nat /\ [Next]_vars => DevTypeOK'
<1> SUFFICES ASSUME DevTypeOK, Counted, wg' \in Nat, [Next]_vars PROVE DevTypeOK'
  OBVIOUS
<1> USE DevicesAssumption
<1>1. CASE Change
  BY <1>1 DEF Change, DevTypeOK, startup, jobs, readers, Configured
<1>2. CASE StartNvidia
  <2>1. /\ main' \in {"remote", "first"}
        /\ updaters' \in {updaters, updaters \cup {"nvidia"}}
        /\ phase' \in {phase, [phase EXCEPT !["nvidia"] = "fetch"]}
    BY <1>2, Zenon DEF StartNvidia
  <2>2. /\ UNCHANGED <<config, now, lock, cache, out, todo, wg, told, refused, doing, ext, left, got>>
        /\ Configured' = Configured
    BY <1>2, Zenon DEF StartNvidia, sources, readers, Configured
  <2> QED
    BY <2>1, <2>2 DEF DevTypeOK, Extensions, Jobs
<1>3. CASE FirstUpdate
  BY <1>3 DEF FirstUpdate, DevTypeOK, sources, jobs, readers, Configured
<1>4. CASE StartRemote
  <2>1. /\ main' \in {"up", "wait"}
        /\ updaters' \in {updaters, updaters \cup {"remote"}}
        /\ phase' \in {phase, [j \in Jobs |-> IF j \in Configured THEN "fetch" ELSE phase[j]]}
    BY <1>4, Zenon DEF StartRemote
  <2>2. /\ UNCHANGED <<config, now, lock, cache, out, todo, told, refused, doing, ext, left, got>>
        /\ Configured' = Configured
    BY <1>4, Zenon DEF StartRemote, sources, readers, Configured
  <2> QED
    BY <2>1, <2>2 DEF DevTypeOK, Extensions
<1>5. CASE Wait
  BY <1>5 DEF Wait, DevTypeOK, sources, jobs, readers, Configured
<1>6. ASSUME NEW j \in Jobs, Tick(j) PROVE DevTypeOK'
  BY <1>6 DEF Tick, DevTypeOK, startup, readers, Configured
<1>7. ASSUME NEW j \in Jobs, JobLocks(j) PROVE DevTypeOK'
  BY <1>7 DEF JobLocks, LockOf, DevTypeOK, startup, readers, Configured, Extensions
<1>8. ASSUME NEW j \in Jobs, JobUnlocks(j) PROVE DevTypeOK'
  BY <1>8 DEF JobUnlocks, LockOf, DevTypeOK, startup, readers, Configured, Extensions
<1>9. CASE RunNvidiaSmi
  BY <1>9 DEF RunNvidiaSmi, DevTypeOK, startup, readers, Configured, Jobs
<1>10. CASE RecordFailure
  BY <1>10 DEF RecordFailure, DevTypeOK, startup, readers, Configured
<1>11. ASSUME NEW r \in Remotes, Answer(r) PROVE DevTypeOK'
  <2>1. /\ phase' \in {[phase EXCEPT ![r] = "lock"], [phase EXCEPT ![r] = "close"]}
        /\ out' \in {out, [out EXCEPT ![r] = now]}
        /\ refused' \in {refused, refused \cup ({r} \ told)}
    BY <1>11, Zenon DEF Answer
  <2>2. /\ UNCHANGED <<config, now, main, updaters, wg, told, lock, cache, todo, doing, ext, left, got>>
        /\ Configured' = Configured
    BY <1>11, Zenon DEF Answer, sources, readers, Configured
  <2>3. phase' \in [Jobs -> {"off", "sleep", "fetch", "fail", "lock", "process", "close"}]
    BY <2>1 DEF DevTypeOK
  <2>4. out' \in [Jobs -> 1 .. MaxReadings]
    BY <2>1 DEF DevTypeOK
  <2>6. r \in Configured
    BY <1>11 DEF Answer, HasUrl, Configured
  <2>5. refused' \subseteq Configured
    BY <2>1, <2>6 DEF DevTypeOK
  <2> QED
    BY <2>2, <2>3, <2>4, <2>5 DEF DevTypeOK
<1>12. ASSUME NEW j \in Jobs, Panic(j) PROVE DevTypeOK'
  BY <1>12 DEF Panic, DevTypeOK, sources, Configured, Values, Absent, Extensions, Nothing
<1>13. ASSUME NEW r \in Remotes, Close(r) PROVE DevTypeOK'
  <2>1. /\ UNCHANGED <<config, now, main, updaters, refused, lock, cache, out, todo, doing, ext, left, got>>
        /\ Configured' = Configured
    BY <1>13, Zenon DEF Close, sources, readers, Configured
  <2>2. told' \subseteq Configured
    BY <1>13 DEF Close, Tell, Counted, DevTypeOK
  <2>3. phase' \in [Jobs -> {"off", "sleep", "fetch", "fail", "lock", "process", "close"}]
    BY <1>13 DEF Close, DevTypeOK
  <2> QED
    BY <2>1, <2>2, <2>3 DEF DevTypeOK
<1>14. ASSUME NEW g \in Gpus, Row(g) PROVE DevTypeOK'
  <2>1. /\ cache' \in [Domains -> [Sensors -> Values]]
        /\ todo' \in [Jobs -> SUBSET (Gpus \cup Domains)]
    BY <1>14 DEF Row, DevTypeOK, Jobs, Sensors, Values, Unparsed
  <2>2. /\ UNCHANGED <<config, now, main, updaters, wg, told, refused, lock, phase, out, doing, ext, left, got>>
        /\ Configured' = Configured
    BY <1>14, Zenon DEF Row, startup, readers, Configured
  <2> QED
    BY <2>1, <2>2 DEF DevTypeOK
<1>15. ASSUME NEW r \in Remotes, NEW d \in Domains, Line(r, d) PROVE DevTypeOK'
  <2>1. /\ cache' \in {cache, [cache EXCEPT ![d][r] = out[r]]}
        /\ refused' \in {refused, refused \cup ({r} \ told)}
        /\ todo' = [todo EXCEPT ![r] = @ \ {d}]
    BY <1>15, Zenon DEF Line
  <2>4. out[r] \in Values /\ r \in Sensors /\ cache \in [Domains -> [Sensors -> Values]]
    BY DEF DevTypeOK, Jobs, Sensors, Values
  <2>7. [cache EXCEPT ![d][r] = out[r]] \in [Domains -> [Sensors -> Values]]
    BY <2>4
  <2>2. cache' \in [Domains -> [Sensors -> Values]]
    BY <2>1, <2>4, <2>7
  <2>3. /\ UNCHANGED <<config, now, main, updaters, wg, told, lock, phase, out, doing, ext, left, got>>
        /\ Configured' = Configured
    BY <1>15, Zenon DEF Line, sources, readers, Configured
  <2>5. refused' \subseteq Configured
    BY <1>15, <2>1 DEF Line, Counted, DevTypeOK
  <2>6. todo' \in [Jobs -> SUBSET (Gpus \cup Domains)]
    BY <2>1 DEF DevTypeOK
  <2> QED
    BY <2>2, <2>3, <2>5, <2>6 DEF DevTypeOK
<1>16. ASSUME NEW u \in Readers, Update(u) PROVE DevTypeOK'
  <2>1. /\ UNCHANGED <<config, now, main, updaters, wg, told, refused, lock, cache, phase, out, todo, left>>
        /\ Configured' = Configured
    BY <1>16, Zenon DEF Update, startup, jobs, Configured
  <2>2. /\ doing' \in [Readers -> {"idle", "lock", "copy", "range"}]
        /\ ext' \in [Readers -> Extensions]
    BY <1>16 DEF Update, Call, DevTypeOK, Extensions
  <2>3. got' \in [Readers -> [Sensors -> Values]]
    BY <1>16 DEF Update, DevTypeOK, Nothing, Values
  <2> QED
    BY <2>1, <2>2, <2>3 DEF DevTypeOK
<1>17. ASSUME NEW u \in Readers, ReaderLocks(u) PROVE DevTypeOK'
  BY <1>17 DEF ReaderLocks, SensorsOf, Sensors, DevTypeOK, startup, jobs, Configured
<1>18. ASSUME NEW u \in Readers, ReaderUnlocks(u) PROVE DevTypeOK'
  <2>1. /\ UNCHANGED <<config, now, main, updaters, wg, told, refused, cache, phase, out, todo, left, got>>
        /\ Configured' = Configured
    BY <1>18, Zenon DEF ReaderUnlocks, startup, jobs, Configured
  <2>2. lock' = [lock EXCEPT ![ext[u]] = Free]
    BY <1>18 DEF ReaderUnlocks
  <2>3. /\ doing' \in [Readers -> {"idle", "lock", "copy", "range"}]
        /\ ext' \in [Readers -> Extensions]
    BY <1>18 DEF ReaderUnlocks, Call, DevTypeOK, Extensions
  <2> QED
    BY <2>1, <2>2, <2>3 DEF DevTypeOK
<1>19. ASSUME NEW u \in Readers, Ranged(u) PROVE DevTypeOK'
  BY <1>19 DEF Ranged, Call, DevTypeOK, startup, jobs, Configured, Extensions
<1>20. ASSUME NEW u \in Readers, NEW s \in Sensors, Copy(u, s) PROVE DevTypeOK'
  BY <1>20 DEF Copy, DevTypeOK, startup, jobs, Configured
<1>21. CASE UNCHANGED vars
  BY <1>21 DEF vars, DevTypeOK, Configured
<1> QED
  BY <1>1, <1>2, <1>3, <1>4, <1>5, <1>6, <1>7, <1>8, <1>9, <1>10, <1>11, <1>12, <1>13,
     <1>14, <1>15, <1>16, <1>17, <1>18, <1>19, <1>20, <1>21, Steps
-----------------------------------------------------------------------------
LEMMA CountedStep == DevTypeOK /\ Counted /\ [Next]_vars => Counted'
<1> SUFFICES ASSUME DevTypeOK, Counted, [Next]_vars PROVE Counted'
  OBVIOUS
<1> DEFINE Kept == /\ main' = main /\ wg' = wg /\ told' = told
                   /\ \A r \in Remotes : phase[r] = "off" => phase'[r] = "off"
<1> USE DevicesAssumption
<1>0. Configured' = Configured /\ Remotes \subseteq Jobs
  BY ConfigUnchanged DEF Configured, Jobs
<1>1. CASE Kept
  <2>1. main \notin {"wait", "up"} => \A r \in Remotes : phase'[r] = "off"
    BY <1>1 DEF Counted
  <2> QED
    BY <1>0, <1>1, <2>1 DEF Counted
<1>2. Change \/ RunNvidiaSmi \/ RecordFailure \/ (\E g \in Gpus : Row(g)) => Kept
  BY <1>0 DEF Change, RunNvidiaSmi, RecordFailure, Row, startup, jobs, DevTypeOK
<1>3. \A j \in Jobs : Tick(j) \/ JobLocks(j) \/ JobUnlocks(j) => Kept
  BY <1>0 DEF Tick, JobLocks, JobUnlocks, startup, DevTypeOK
<1>4. \A q \in Remotes : Answer(q) => Kept
  BY <1>0 DEF Answer, DevTypeOK
<1>5. \A q \in Remotes, d \in Domains : Line(q, d) => Kept
  BY <1>0 DEF Line
<1>6. (\E v \in Readers : \/ Update(v) \/ ReaderLocks(v) \/ ReaderUnlocks(v) \/ Ranged(v)
                           \/ \E t \in Sensors : Copy(v, t))
        => UNCHANGED <<startup, jobs>>
  BY Zenon DEF Update, ReaderLocks, ReaderUnlocks, Ranged, Copy
<1>7. UNCHANGED <<startup, jobs>> \/ UNCHANGED vars => Kept
  BY DEF startup, jobs, vars
<1>8. CASE StartNvidia
  <2>1. \A r \in Remotes : phase'[r] = phase[r]
    BY <1>0, <1>8 DEF StartNvidia, DevTypeOK
  <2>2. main \notin {"wait", "up"} /\ main' \notin {"wait", "up"} /\ wg' = wg /\ told' = told
    BY <1>8 DEF StartNvidia
  <2> QED
    BY <1>0, <2>1, <2>2 DEF Counted
<1>9. CASE FirstUpdate
  BY <1>0, <1>9 DEF FirstUpdate, Counted, jobs
<1>10. CASE Wait
  BY <1>0, <1>10 DEF Wait, Counted, jobs
<1>11. CASE StartRemote
  <2>1. told = {} /\ told' = told /\ wg = 0 /\ \A r \in Remotes : phase[r] = "off"
    BY <1>11 DEF StartRemote, Counted
  <2>2. CASE Configured = {}
    <3>1. main' = "up" /\ wg' = wg /\ phase' = phase
      BY <1>11, <2>2, Zenon DEF StartRemote
    <3>2. Cardinality(Configured \ told) = 0
      BY <2>2, FS_EmptySet
    <3> QED
      BY <1>0, <2>1, <3>1, <3>2 DEF Counted
  <2>3. CASE Configured # {}
    <3>1. main' = "wait" /\ wg' = Cardinality(Configured)
          /\ phase' = [j \in Jobs |-> IF j \in Configured THEN "fetch" ELSE phase[j]]
      BY <1>11, <2>3, Zenon DEF StartRemote
    <3>2. Configured \ told = Configured
      BY <2>1
    <3> QED
      BY <1>0, <2>1, <3>1, <3>2 DEF Counted
  <2> QED
    BY <2>2, <2>3
<1>12. ASSUME NEW q \in Remotes, Close(q) PROVE Counted'
  <2>1. q \in Configured /\ main \in {"wait", "up"} /\ main' = main
    BY <1>12 DEF Close, Counted
  <2>2. \A r \in Remotes : phase'[r] # "off" => phase[r] # "off"
    BY <1>0, <1>12 DEF Close, DevTypeOK
  <2>3. wg' = Cardinality(Configured \ told')
    <3>1. CASE q \in told
      <4>1. wg' = wg /\ told' = told
        BY <1>12, <3>1 DEF Close, Tell
      <4> QED
        BY <2>1, <4>1 DEF Counted
    <3>2. CASE q \notin told
      <4>1. wg' = wg - 1 /\ told' = told \cup {q}
        BY <1>12, <3>2 DEF Close, Tell
      <4> QED
        BY <2>1, <3>2, <4>1, OneLess DEF Counted
    <3> QED
      BY <3>1, <3>2
  <2> QED
    BY <1>0, <2>1, <2>2, <2>3 DEF Counted
<1>13. ASSUME NEW j \in Jobs, Panic(j) PROVE Counted'
  BY <1>0, <1>13 DEF Panic, Counted
<1> HIDE DEF Kept
<1> QED
  BY <1>1, <1>2, <1>3, <1>4, <1>5, <1>6, <1>7, <1>8, <1>9, <1>10, <1>11, <1>12, <1>13, Steps
-----------------------------------------------------------------------------
(* The holder of a lock is the one that works under it. *)
Locked ==
    /\ \A j \in Jobs : phase[j] = "process" => lock[LockOf(j)] = j
    /\ \A u \in Readers : doing[u] = "copy" => lock[ext[u]] = u

LEMMA LockedStep == DevTypeOK /\ Locked /\ [Next]_vars => Locked'
<1> SUFFICES ASSUME DevTypeOK, Locked, [Next]_vars PROVE Locked'
  OBVIOUS
<1> USE DevicesAssumption DEF Locked
<1>1. CASE UNCHANGED <<phase, lock, doing, ext>>
  BY <1>1 DEF Locked, LockOf
<1>2. CASE StartNvidia
  BY <1>2 DEF StartNvidia, readers, LockOf, DevTypeOK
<1>3. CASE StartRemote
  BY <1>3 DEF StartRemote, readers, LockOf, DevTypeOK
<1>4. ASSUME NEW j \in Jobs, Tick(j) PROVE Locked'
  BY <1>4 DEF Tick, readers, LockOf, DevTypeOK
<1>5. ASSUME NEW j \in Jobs, JobLocks(j) PROVE Locked'
  BY <1>5 DEF JobLocks, LockOf, readers, DevTypeOK, Extensions, Jobs
<1>6. ASSUME NEW j \in Jobs, JobUnlocks(j) PROVE Locked'
  BY <1>6 DEF JobUnlocks, LockOf, readers, DevTypeOK, Extensions, Jobs
<1>7. CASE RunNvidiaSmi
  BY <1>7 DEF RunNvidiaSmi, LockOf, readers, DevTypeOK
<1>8. CASE RecordFailure
  BY <1>8 DEF RecordFailure, LockOf, readers, DevTypeOK
<1>9. ASSUME NEW r \in Remotes, Answer(r) PROVE Locked'
  BY <1>9 DEF Answer, LockOf, readers, DevTypeOK
<1>10. ASSUME NEW j \in Jobs, Panic(j) PROVE Locked'
  BY <1>10 DEF Panic
<1>11. ASSUME NEW r \in Remotes, Close(r) PROVE Locked'
  BY <1>11 DEF Close, LockOf, readers, DevTypeOK
<1>12. ASSUME NEW u \in Readers, Update(u) PROVE Locked'
  BY <1>12 DEF Update, Call, LockOf, jobs, DevTypeOK
<1>13. ASSUME NEW u \in Readers, ReaderLocks(u) PROVE Locked'
  BY <1>13 DEF ReaderLocks, LockOf, jobs, DevTypeOK, Extensions, Jobs
<1>14. ASSUME NEW u \in Readers, ReaderUnlocks(u) PROVE Locked'
  <2>1. /\ doing[u] = "copy" /\ lock' = [lock EXCEPT ![ext[u]] = Free]
        /\ phase' = phase
    BY <1>14 DEF ReaderUnlocks, jobs
  <2>2. /\ \A v \in Readers \ {u} : doing'[v] = doing[v] /\ ext'[v] = ext[v]
        /\ doing'[u] # "copy"
    BY <1>14 DEF ReaderUnlocks, Call, DevTypeOK
  <2>3. \A j \in Jobs : phase'[j] = "process" => lock'[LockOf(j)] = j
    BY <2>1 DEF LockOf, DevTypeOK, Extensions, Jobs
  <2>4. \A v \in Readers : doing'[v] = "copy" => lock'[ext'[v]] = v
    <3> SUFFICES ASSUME NEW v \in Readers, doing'[v] = "copy" PROVE lock'[ext'[v]] = v
      OBVIOUS
    <3>1. v # u /\ doing[v] = "copy" /\ ext'[v] = ext[v]
      BY <2>2
    <3>2. lock[ext[v]] = v /\ lock[ext[u]] = u /\ ext[v] # ext[u]
      BY <2>1, <3>1
    <3>3. ext[v] \in Extensions /\ lock \in [Extensions -> Jobs \cup Readers \cup {Free}]
      BY DEF DevTypeOK
    <3> QED
      BY <2>1, <3>1, <3>2, <3>3
  <2> QED
    BY <2>3, <2>4, Zenon DEF LockOf
<1>15. ASSUME NEW u \in Readers, Ranged(u) PROVE Locked'
  BY <1>15 DEF Ranged, Call, LockOf, jobs, DevTypeOK
<1>16. CASE \/ Change \/ FirstUpdate \/ Wait
            \/ \E g \in Gpus : Row(g)
            \/ \E r \in Remotes, d \in Domains : Line(r, d)
            \/ \E u \in Readers, s \in Sensors : Copy(u, s)
            \/ UNCHANGED vars
  BY <1>1, <1>16, Zenon DEF Change, FirstUpdate, Wait, Row, Line, Copy, vars, startup, jobs, readers
<1> QED
  BY <1>2, <1>3, <1>4, <1>5, <1>6, <1>7, <1>8, <1>9, <1>10, <1>11, <1>12, <1>13,
     <1>14, <1>15, <1>16, Steps
-----------------------------------------------------------------------------
(* An updater has still to copy only what is there, and has copied what it *)
(* has not still to copy, as the cache is now.                             *)
Copying ==
    \A u \in Readers : doing[u] = "copy" =>
        /\ \A s \in left[u] : s \in SensorsOf(ext[u]) /\ CacheOf(u)[s] # Absent
        /\ \A s \in SensorsOf(ext[u]) \ left[u] :
              CacheOf(u)[s] # Absent => got[u][s] = CacheOf(u)[s]

(* The caches change only under the lock of the extension they belong to.  *)
LEMMA CacheUnderLock ==
    ASSUME DevTypeOK, Locked, [Next]_vars, main' # "crashed",
           NEW u \in Readers, doing[u] = "copy", NEW s \in SensorsOf(ext[u])
    PROVE  CacheOf(u)'[s] = CacheOf(u)[s]
<1> USE DevicesAssumption
<1>1. s \in Sensors /\ ext[u] \in Extensions
  BY DEF SensorsOf, Sensors, DevTypeOK
<1>2. lock[ext[u]] = u
  BY DEF Locked
<1>3. ASSUME NEW g \in Gpus, Row(g) PROVE CacheOf(u)'[s] = CacheOf(u)[s]
  <2>1. phase["nvidia"] = "process" /\ lock["nvidia"] = "nvidia"
    BY <1>3 DEF Row, Locked, Jobs, LockOf
  <2>2. ext[u] = "remote" /\ s # g
    BY <1>1, <1>2, <2>1 DEF SensorsOf, Extensions
  <2>3. CacheOf(u)'[s] = CacheOf(u)[s]
    BY <1>1, <1>3, <2>2 DEF Row, DevTypeOK
  <2> QED
    BY <2>3
<1>4. ASSUME NEW r \in Remotes, NEW c \in Domains, Line(r, c) PROVE CacheOf(u)'[s] = CacheOf(u)[s]
  <2>1. phase[r] = "process" /\ lock["remote"] = r
    BY <1>4 DEF Line, Locked, Jobs, LockOf
  <2>2. ext[u] = "nvidia" /\ s # r
    BY <1>1, <1>2, <2>1 DEF SensorsOf, Extensions
  <2>3. cache' \in {cache, [cache EXCEPT ![c][r] = out[r]]}
    BY <1>4, Zenon DEF Line
  <2>4. cache \in [Domains -> [Sensors -> Values]]
    BY DEF DevTypeOK
  <2>5. ASSUME cache' = [cache EXCEPT ![c][r] = out[r]] PROVE CacheOf(u)'[s] = CacheOf(u)[s]
    BY <1>1, <2>2, <2>4, <2>5
  <2> QED
    BY <2>3, <2>5
<1> QED
  BY <1>3, <1>4, CacheSteps

(* What a reader has and is copying: Copying' follows from these. *)
LEMMA CopyingStep ==
    DevTypeOK /\ Locked /\ Copying /\ [Next]_vars => Copying'
<1> SUFFICES ASSUME DevTypeOK, Locked, Copying, [Next]_vars, main' # "crashed",
                    NEW u \in Readers, doing'[u] = "copy"
             PROVE  /\ \A s \in left'[u] : s \in SensorsOf(ext'[u]) /\ CacheOf(u)'[s] # Absent
                    /\ \A s \in SensorsOf(ext'[u]) \ left'[u] :
                          CacheOf(u)'[s] # Absent => got'[u][s] = CacheOf(u)'[s]
  <2>1. ASSUME main' = "crashed", [Next]_vars, Copying PROVE Copying'
    <3>1. CASE \E j \in Jobs : Panic(j)
      BY <3>1 DEF Panic, Copying
    <3>2. CASE UNCHANGED vars
      BY <2>1, <3>2, Zenon DEF vars, Copying, SensorsOf
    <3> QED
      BY <2>1, <3>1, <3>2, Crash
  <2> QED
    BY <2>1, Zenon DEF Copying, SensorsOf
<1> USE DevicesAssumption
<1>1. CASE UNCHANGED <<doing, ext, left, got>>
  <2>1. \A s \in left[u] : s \in SensorsOf(ext[u]) /\ CacheOf(u)[s] # Absent
    BY <1>1 DEF Copying
  <2>2. \A s \in SensorsOf(ext[u]) \ left[u] : CacheOf(u)[s] # Absent => got[u][s] = CacheOf(u)[s]
    BY <1>1 DEF Copying
  <2>3. \A s \in SensorsOf(ext[u]) : CacheOf(u)'[s] = CacheOf(u)[s]
    BY <1>1, CacheUnderLock
  <2> QED
    BY <1>1, <2>1, <2>2, <2>3
<1>2. ASSUME NEW v \in Readers, ReaderLocks(v)
      PROVE  /\ \A s \in left'[u] : s \in SensorsOf(ext'[u]) /\ CacheOf(u)'[s] # Absent
             /\ \A s \in SensorsOf(ext'[u]) \ left'[u] :
                   CacheOf(u)'[s] # Absent => got'[u][s] = CacheOf(u)'[s]
  <2>1. UNCHANGED <<cache, got, ext>>
    BY <1>2 DEF ReaderLocks
  <2>2. CASE v = u
    <3>1. left'[u] = {s \in SensorsOf(ext[u]) : CacheOf(u)[s] # Absent}
      BY <1>2, <2>2 DEF ReaderLocks, DevTypeOK
    <3> QED
      BY <2>1, <3>1
  <2>3. CASE v # u
    <3>1. left'[u] = left[u] /\ doing[u] = "copy"
      BY <1>2, <2>3 DEF ReaderLocks, DevTypeOK
    <3> QED
      BY <2>1, <3>1 DEF Copying
  <2> QED
    BY <2>2, <2>3
<1>3. ASSUME NEW v \in Readers, NEW t \in Sensors, Copy(v, t)
      PROVE  /\ \A s \in left'[u] : s \in SensorsOf(ext'[u]) /\ CacheOf(u)'[s] # Absent
             /\ \A s \in SensorsOf(ext'[u]) \ left'[u] :
                   CacheOf(u)'[s] # Absent => got'[u][s] = CacheOf(u)'[s]
  <2>1. UNCHANGED <<cache, doing, ext>>
    BY <1>3 DEF Copy
  <2>2. /\ \A s \in left[u] : s \in SensorsOf(ext[u]) /\ CacheOf(u)[s] # Absent
        /\ \A s \in SensorsOf(ext[u]) \ left[u] : CacheOf(u)[s] # Absent => got[u][s] = CacheOf(u)[s]
    BY <2>1 DEF Copying
  <2>3. /\ left' = [left EXCEPT ![v] = @ \ {t}]
        /\ got' = [got EXCEPT ![v][t] = CacheOf(v)[t]]
        /\ left \in [Readers -> SUBSET Sensors] /\ got \in [Readers -> [Sensors -> Values]]
    BY <1>3 DEF Copy, DevTypeOK
  <2>4. SensorsOf(ext[u]) \subseteq Sensors
    BY DEF SensorsOf, Sensors
  <2>5. left'[u] \subseteq left[u] /\ left[u] \subseteq left'[u] \cup {t}
    BY <2>3
  <2>6. \A s \in Sensors : \/ got'[u][s] = got[u][s] /\ (s \in left[u] => s \in left'[u])
                          \/ got'[u][s] = CacheOf(u)[s]
    BY <2>3
  <2> QED
    BY <2>1, <2>2, <2>4, <2>5, <2>6
<1>4. ASSUME NEW v \in Readers, Update(v) \/ Ranged(v) \/ ReaderUnlocks(v)
      PROVE  doing[u] = "copy" /\ ext'[u] = ext[u] /\ got'[u] = got[u] /\ UNCHANGED <<cache, left>>
  <2>1. v # u
    BY <1>4 DEF Update, Ranged, ReaderUnlocks, Call, DevTypeOK
  <2>2. UNCHANGED <<cache, left>>
    BY <1>4, Zenon DEF Update, Ranged, ReaderUnlocks
  <2>3. got'[u] = got[u]
    BY <1>4, <2>1 DEF Update, Ranged, ReaderUnlocks, DevTypeOK
  <2> QED
    BY <1>4, <2>1, <2>2, <2>3 DEF Update, Ranged, ReaderUnlocks, Call, DevTypeOK
<1>5. (\E v \in Readers : Update(v) \/ Ranged(v) \/ ReaderUnlocks(v))
      => /\ \A s \in left'[u] : s \in SensorsOf(ext'[u]) /\ CacheOf(u)'[s] # Absent
         /\ \A s \in SensorsOf(ext'[u]) \ left'[u] :
               CacheOf(u)'[s] # Absent => got'[u][s] = CacheOf(u)'[s]
  BY <1>4 DEF Copying
<1>6. CASE \E v \in Readers : \/ Update(v) \/ Ranged(v) \/ ReaderUnlocks(v) \/ ReaderLocks(v)
                             \/ \E t \in Sensors : Copy(v, t)
  BY <1>2, <1>3, <1>5, <1>6, Zenon
<1>7. UNCHANGED readers => UNCHANGED <<doing, ext, left, got>>
  BY DEF readers
<1> QED
  BY <1>1, <1>6, <1>7, ReaderSteps
-----------------------------------------------------------------------------
(* How old things are: nothing is newer than now, and what a job has       *)
(* fetched is not older than what the caches and the widgets have of it.   *)
JobOf(s) == IF s \in Gpus THEN "nvidia" ELSE s

Aged(u, s) ==
    /\ CacheOf(u)[s] <= now /\ got[u][s] <= now
    /\ got[u][s] <= CacheOf(u)[s] \/ CacheOf(u)[s] = Unparsed
    /\ phase[JobOf(s)] \in {"lock", "process"} => CacheOf(u)[s] <= out[JobOf(s)] /\ got[u][s] <= out[JobOf(s)]

Ages ==
    /\ \A j \in Jobs : out[j] <= now
    /\ \A u \in Readers, s \in Sensors : Aged(u, s)

(* Ages of the next state. *)
NewAges ==
    /\ \A j \in Jobs : out'[j] <= now'
    /\ \A u \in Readers, s \in Sensors :
        /\ CacheOf(u)'[s] <= now' /\ got'[u][s] <= now'
        /\ got'[u][s] <= CacheOf(u)'[s] \/ CacheOf(u)'[s] = Unparsed
        /\ phase'[JobOf(s)] \in {"lock", "process"} =>
              CacheOf(u)'[s] <= out'[JobOf(s)] /\ got'[u][s] <= out'[JobOf(s)]

(* What a step that changes neither caches nor copies does to the jobs.    *)
JobsGoOn ==
    /\ UNCHANGED <<cache, got, now>>
    /\ \A i \in Jobs :
        /\ out'[i] <= now
        /\ phase'[i] \in {"lock", "process"} =>
              \/ phase[i] \in {"lock", "process"} /\ out'[i] = out[i]
              \/ out'[i] = now

LEMMA JobsGoOnSteps ==
    ASSUME DevTypeOK, Ages
    PROVE  /\ StartNvidia \/ StartRemote \/ RunNvidiaSmi \/ RecordFailure => JobsGoOn
           /\ \A j \in Jobs : Tick(j) \/ JobLocks(j) \/ JobUnlocks(j) => JobsGoOn
           /\ \A r \in Remotes : Answer(r) \/ Close(r) => JobsGoOn
<1> USE DEF JobsGoOn
<1>1. StartNvidia => JobsGoOn
  BY DEF StartNvidia, sources, readers, DevTypeOK, Ages
<1>2. StartRemote => JobsGoOn
  BY DEF StartRemote, sources, readers, DevTypeOK, Ages
<1>3. RunNvidiaSmi => JobsGoOn
  BY DEF RunNvidiaSmi, readers, DevTypeOK, Ages
<1>4. RecordFailure => JobsGoOn
  BY DEF RecordFailure, readers, DevTypeOK, Ages
<1>5. ASSUME NEW j \in Jobs, Tick(j) PROVE JobsGoOn
  BY <1>5 DEF Tick, readers, DevTypeOK, Ages
<1>6. ASSUME NEW j \in Jobs, JobLocks(j) PROVE JobsGoOn
  BY <1>6 DEF JobLocks, readers, DevTypeOK, Ages
<1>7. ASSUME NEW j \in Jobs, JobUnlocks(j) PROVE JobsGoOn
  BY <1>7 DEF JobUnlocks, readers, DevTypeOK, Ages
<1>8. ASSUME NEW r \in Remotes, Answer(r) PROVE JobsGoOn
  BY <1>8 DEF Answer, sources, readers, DevTypeOK, Ages
<1>9. ASSUME NEW r \in Remotes, Close(r) PROVE JobsGoOn
  BY <1>9 DEF Close, sources, readers, DevTypeOK, Ages
<1> QED
  BY <1>1, <1>2, <1>3, <1>4, <1>5, <1>6, <1>7, <1>8, <1>9, Zenon

LEMMA AgesStep == DevTypeOK /\ Ages /\ [Next]_vars => Ages'
<1> SUFFICES ASSUME DevTypeOK, Ages, [Next]_vars PROVE NewAges
  BY DEF NewAges, Ages, Aged, JobOf
<1> USE DevicesAssumption
<1>0. \A s \in Sensors : JobOf(s) \in Jobs
  BY DEF JobOf, Sensors, Jobs
<1>t. /\ cache \in [Domains -> [Sensors -> Values]] /\ got \in [Readers -> [Sensors -> Values]]
      /\ \A u \in Readers, s \in Sensors : CacheOf(u)[s] \in Int /\ got[u][s] \in Int
      /\ out \in [Jobs -> Nat \ {0}] /\ now \in Nat \ {0}
  <2>1. Values \subseteq Int
    BY DEF Values, Absent, Unparsed
  <2>2. out \in [Jobs -> Nat \ {0}] /\ now \in Nat \ {0}
    BY DEF DevTypeOK
  <2>3. cache \in [Domains -> [Sensors -> Values]] /\ got \in [Readers -> [Sensors -> Values]]
    BY DEF DevTypeOK
  <2>4. ASSUME NEW u \in Readers, NEW s \in Sensors PROVE CacheOf(u)[s] \in Int /\ got[u][s] \in Int
    <3>1. CacheOf(u)[s] \in Values /\ got[u][s] \in Values
      BY <2>3
    <3> QED
      BY <2>1, <3>1
  <2> QED
    BY <2>2, <2>3, <2>4
<1>1. CASE UNCHANGED <<cache, got, now, out, phase>>
  <2>1. /\ cache' = cache /\ got' = got /\ now' = now /\ out' = out /\ phase' = phase
    BY <1>1
  <2> QED
    BY <2>1 DEF NewAges, Ages, Aged
<1>2. CASE JobsGoOn
  <2>1. UNCHANGED <<cache, got, now>> /\ \A j \in Jobs : out'[j] <= now
    BY <1>2, Zenon DEF JobsGoOn
  <2>2. ASSUME NEW u \in Readers, NEW s \in Sensors, NEW j \in Jobs, j = JobOf(s),
               phase'[j] \in {"lock", "process"}
        PROVE  CacheOf(u)[s] <= out'[j] /\ got[u][s] <= out'[j]
    <3>1. phase[j] \in {"lock", "process"} => CacheOf(u)[s] <= out[j] /\ got[u][s] <= out[j]
      BY <2>2 DEF Ages, Aged
    <3>2. CacheOf(u)[s] <= now /\ got[u][s] <= now
      BY <2>2 DEF Ages, Aged
    <3>3. (phase[j] \in {"lock", "process"} /\ out'[j] = out[j]) \/ out'[j] = now
      BY <1>2, <2>2, Zenon DEF JobsGoOn
    <3> QED
      BY <3>1, <3>2, <3>3
  <2>3. \A u \in Readers, s \in Sensors :
           /\ CacheOf(u)[s] <= now /\ got[u][s] <= now
           /\ got[u][s] <= CacheOf(u)[s] \/ CacheOf(u)[s] = Unparsed
    BY DEF Ages, Aged
  <2> QED
    BY <1>0, <2>1, <2>2, <2>3 DEF NewAges
<1>3. CASE Change
  <2>1. now' = now + 1 /\ UNCHANGED <<cache, got, out, phase>>
    BY <1>3 DEF Change, jobs, readers
  <2>2. \A j \in Jobs : out[j] <= now + 1
    BY <1>t DEF Ages
  <2>3. ASSUME NEW u \in Readers, NEW s \in Sensors
        PROVE  CacheOf(u)[s] <= now + 1 /\ got[u][s] <= now + 1
    BY <1>t DEF Ages, Aged
  <2> QED
    BY <2>1, <2>2, <2>3 DEF NewAges, Ages, Aged
<1>4. ASSUME NEW g \in Gpus, Row(g) PROVE NewAges
  <2>1. /\ UNCHANGED <<now, out, phase, got>> /\ phase["nvidia"] = "process"
        /\ "nvidia" \in Jobs /\ g \in Sensors /\ JobOf(g) = "nvidia"
    BY <1>4 DEF Row, readers, Jobs, Sensors, JobOf
  <2>2. ASSUME NEW u \in Readers, NEW s \in Sensors
        PROVE  \/ CacheOf(u)'[s] = CacheOf(u)[s]
               \/ JobOf(s) = "nvidia" /\ CacheOf(u)'[s] \in {Unparsed, out["nvidia"]}
    BY <1>4, <1>t, <2>1 DEF Row
  <2> QED
    BY <1>0, <1>t, <2>1, <2>2 DEF NewAges, Ages, Aged, Unparsed
<1>5. ASSUME NEW r \in Remotes, NEW c \in Domains, Line(r, c) PROVE NewAges
  <2>1. /\ UNCHANGED <<now, out, phase, got>> /\ phase[r] = "process"
        /\ r \in Jobs /\ r \in Sensors /\ JobOf(r) = r
    BY <1>5 DEF Line, sources, readers, Jobs, Sensors, JobOf
  <2>2. cache' = cache \/ cache' = [cache EXCEPT ![c][r] = out[r]]
    BY <1>5 DEF Line
  <2>3. ASSUME NEW u \in Readers, NEW s \in Sensors
        PROVE  CacheOf(u)'[s] = CacheOf(u)[s] \/ (s = r /\ CacheOf(u)'[s] = out[r])
    <3>1. CASE cache' = cache
      BY <3>1
    <3>2. CASE cache' = [cache EXCEPT ![c][r] = out[r]]
      BY <1>t, <2>1, <3>2
    <3> QED
      BY <2>2, <3>1, <3>2
  <2> QED
    BY <1>0, <1>t, <2>1, <2>3 DEF NewAges, Ages, Aged, Unparsed
<1>6. ASSUME NEW v \in Readers, NEW t \in Sensors, Copy(v, t) PROVE NewAges
  <2>1. UNCHANGED <<now, out, phase, cache>> /\ got' = [got EXCEPT ![v][t] = CacheOf(v)[t]]
    BY <1>6 DEF Copy, jobs
  <2>2. ASSUME NEW u \in Readers, NEW s \in Sensors
        PROVE  got'[u][s] \in {got[u][s], CacheOf(u)[s]}
    BY <1>t, <2>1
  <2> QED
    BY <1>0, <1>t, <2>1, <2>2 DEF NewAges, Ages, Aged
<1>7. ASSUME NEW j \in Jobs, Panic(j) PROVE NewAges
  BY <1>0, <1>t, <1>7 DEF Panic, sources, NewAges, Ages, Aged, Absent, Nothing
<1>10. ASSUME NEW v \in Readers, Update(v) PROVE NewAges
  <2>1. /\ UNCHANGED <<now, out, phase, cache>>
        /\ got' = got \/ got' = [got EXCEPT ![v] = Nothing]
    BY <1>10 DEF Update, jobs
  <2>2. ASSUME NEW u \in Readers, NEW s \in Sensors
        PROVE  got'[u][s] \in {got[u][s], Absent}
    BY <1>t, <2>1 DEF Nothing
  <2>3. ASSUME NEW u \in Readers, NEW s \in Sensors
        PROVE  CacheOf(u)[s] >= Absent
    <3>1. CacheOf(u)[s] \in Values
      BY <1>t
    <3> QED
      BY <3>1 DEF Values, Absent, Unparsed
  <2> QED
    BY <1>0, <1>t, <2>1, <2>2, <2>3 DEF NewAges, Ages, Aged, Absent
<1>8. FirstUpdate \/ Wait \/ UNCHANGED vars => UNCHANGED <<cache, got, now, out, phase>>
  BY Zenon DEF FirstUpdate, Wait, vars, sources, jobs, readers
<1>9. \A v \in Readers : Ranged(v) \/ ReaderLocks(v) \/ ReaderUnlocks(v)
        => UNCHANGED <<cache, got, now, out, phase>>
  BY Zenon DEF Ranged, ReaderLocks, ReaderUnlocks, jobs
<1> QED
  BY <1>1, <1>2, <1>3, <1>4, <1>5, <1>6, <1>7, <1>8, <1>9, <1>10, Steps, JobsGoOnSteps, Zenon
-----------------------------------------------------------------------------
(* The values of the GPUs are from one output, but while a job stores it.  *)
Output ==
    /\ main = "nvidia" => phase["nvidia"] = "off"
    /\ phase["nvidia"] # "process" =>
          \A d \in Domains, g, h \in Gpus :
              {cache[d][g], cache[d][h]} \subseteq 1 .. MaxReadings => cache[d][g] = cache[d][h]
    /\ phase["nvidia"] = "process" =>
          \A d \in Domains, g \in Gpus \ todo["nvidia"] : cache[d][g] \in {Unparsed, out["nvidia"]}

(* The steps that change nothing Output is about. *)
NotNvidia ==
    /\ main' = "nvidia" => main = "nvidia"
    /\ \/ phase'["nvidia"] = phase["nvidia"] /\ out'["nvidia"] = out["nvidia"]
       \/ phase["nvidia"] \notin {"off", "process"} /\ phase'["nvidia"] # "process"
    /\ todo'["nvidia"] = todo["nvidia"]
    /\ \A d \in Domains, g \in Gpus : cache'[d][g] = cache[d][g]

LEMMA NotNvidiaSteps ==
    ASSUME DevTypeOK
    PROVE  /\ Change \/ FirstUpdate \/ StartRemote \/ Wait \/ RunNvidiaSmi \/ RecordFailure => NotNvidia
           /\ \A j \in Jobs : Tick(j) => NotNvidia
           /\ \A r \in Remotes : JobLocks(r) \/ JobUnlocks(r) \/ Answer(r) \/ Close(r) => NotNvidia
           /\ \A r \in Remotes, d \in Domains : Line(r, d) => NotNvidia
           /\ UNCHANGED vars => NotNvidia
<1> USE DevicesAssumption DEF NotNvidia
<1>1. Change \/ FirstUpdate \/ Wait \/ UNCHANGED vars => NotNvidia
  BY DEF Change, FirstUpdate, Wait, vars, startup, sources, jobs
<1>2. StartRemote => NotNvidia
  BY DEF StartRemote, DevTypeOK, Configured, Jobs
<1>3. RunNvidiaSmi \/ RecordFailure => NotNvidia
  BY DEF RunNvidiaSmi, RecordFailure, startup, DevTypeOK, Jobs
<1>4. ASSUME NEW j \in Jobs, Tick(j) PROVE NotNvidia
  BY <1>4 DEF Tick, startup, DevTypeOK, Jobs
<1>5. ASSUME NEW r \in Remotes, JobLocks(r) PROVE NotNvidia
  BY <1>5 DEF JobLocks, startup, DevTypeOK, Jobs
<1>6. ASSUME NEW r \in Remotes, JobUnlocks(r) PROVE NotNvidia
  BY <1>6 DEF JobUnlocks, startup, DevTypeOK, Jobs
<1>7. ASSUME NEW r \in Remotes, Answer(r) PROVE NotNvidia
  BY <1>7 DEF Answer, DevTypeOK, Jobs
<1>8. ASSUME NEW r \in Remotes, Close(r) PROVE NotNvidia
  BY <1>8 DEF Close, DevTypeOK, Jobs
<1>9. ASSUME NEW r \in Remotes, NEW c \in Domains, Line(r, c) PROVE NotNvidia
  <2>1. cache' = cache \/ cache' = [cache EXCEPT ![c][r] = out[r]]
    BY <1>9 DEF Line
  <2>2. \A d \in Domains, g \in Gpus : g \in Sensors /\ g # r
    BY DEF Sensors
  <2>3. cache \in [Domains -> [Sensors -> Values]]
    BY DEF DevTypeOK
  <2>4. ASSUME NEW d \in Domains, NEW g \in Gpus PROVE cache'[d][g] = cache[d][g]
    <3>1. CASE cache' = cache
      BY <3>1
    <3>2. CASE cache' = [cache EXCEPT ![c][r] = out[r]]
      BY <2>2, <2>3, <3>2
    <3> QED
      BY <2>1, <3>1, <3>2
  <2>5. main' = main /\ phase' = phase /\ out' = out /\ todo'["nvidia"] = todo["nvidia"]
    BY <1>9 DEF Line, DevTypeOK, Jobs
  <2> QED
    BY <2>4, <2>5
<1> QED
  BY <1>1, <1>2, <1>3, <1>4, <1>5, <1>6, <1>7, <1>8, <1>9, Zenon

LEMMA OutputStep == DevTypeOK /\ Output /\ [Next]_vars => Output'
<1> SUFFICES ASSUME DevTypeOK, Output, [Next]_vars PROVE Output'
  OBVIOUS
<1> USE DevicesAssumption DEF Output
<1>0. Jobs = Remotes \cup {"nvidia"} /\ "nvidia" \in Jobs
  BY DEF Jobs
<1>1. CASE NotNvidia
  BY <1>1 DEF NotNvidia
<1>2. CASE StartNvidia
  BY <1>0, <1>2 DEF StartNvidia, DevTypeOK
<1>3. CASE JobLocks("nvidia")
  BY <1>0, <1>3 DEF JobLocks, startup, DevTypeOK
<1>4. CASE JobUnlocks("nvidia")
  <2>1. \A d \in Domains, g \in Gpus : cache[d][g] \in {Unparsed, out["nvidia"]}
    BY <1>4 DEF JobUnlocks
  <2>2. phase'["nvidia"] = "sleep" /\ main' = main /\ cache' = cache /\ phase["nvidia"] = "process"
    BY <1>0, <1>4 DEF JobUnlocks, startup, DevTypeOK
  <2> QED
    BY <2>1, <2>2 DEF Unparsed
<1>5. ASSUME NEW g \in Gpus, Row(g) PROVE Output'
  <2>1. /\ phase["nvidia"] = "process" /\ phase' = phase /\ out' = out /\ main' = main
        /\ todo' = [todo EXCEPT !["nvidia"] = @ \ {g}]
    BY <1>5 DEF Row, startup
  <2>2. ASSUME NEW d \in Domains, NEW h \in Gpus
        PROVE  IF h = g THEN cache'[d][h] \in {Unparsed, out["nvidia"]} ELSE cache'[d][h] = cache[d][h]
    BY <1>5 DEF Row, DevTypeOK, Sensors
  <2>3. ASSUME NEW d \in Domains, NEW h \in Gpus \ todo'["nvidia"]
        PROVE  cache'[d][h] \in {Unparsed, out["nvidia"]}
    <3>1. h = g \/ h \notin todo["nvidia"]
      BY <1>0, <2>1 DEF DevTypeOK
    <3>2. h \notin todo["nvidia"] => cache[d][h] \in {Unparsed, out["nvidia"]}
      BY <2>1
    <3> QED
      BY <2>2, <3>1, <3>2
  <2> QED
    BY <2>1, <2>3
<1>6. ASSUME NEW j \in Jobs, Panic(j) PROVE Output'
  BY <1>6, <1>0 DEF Panic, Absent, Sensors, Nothing
<1>7. \A v \in Readers : \/ Update(v) \/ Ranged(v) \/ ReaderLocks(v) \/ ReaderUnlocks(v)
                         \/ \E s \in Sensors : Copy(v, s)
        => UNCHANGED <<startup, cache, jobs>>
  BY Zenon DEF Update, Ranged, ReaderLocks, ReaderUnlocks, Copy
<1>8. UNCHANGED <<startup, cache, jobs>> => NotNvidia
  BY DEF NotNvidia, startup, jobs
<1> QED
  BY <1>0, <1>1, <1>2, <1>3, <1>4, <1>5, <1>6, <1>7, <1>8, NotNvidiaSteps, Steps

LEMMA OneReadingStep ==
    ASSUME DevTypeOK, Locked, Copying, Ages, Output, OneReading, [Next]_vars
    PROVE  OneReading'
<1> USE DevicesAssumption DEF OneReading
<1>0. "nvidia" \in Jobs
  BY DEF Jobs
<1>1. CASE UNCHANGED readers
  BY <1>1 DEF readers
<1>2. ASSUME NEW v \in Readers, Update(v) \/ Ranged(v) \/ ReaderLocks(v) PROVE OneReading'
  <2>1. got' = got \/ got' = [got EXCEPT ![v] = Nothing]
    BY <1>2, Zenon DEF Update, Ranged, ReaderLocks
  <2>4. /\ \A u \in Readers : u # v => got'[u] = got[u]
        /\ got'[v] = got[v] \/ \A g \in Gpus : got'[v][g] = Absent
    BY <2>1 DEF DevTypeOK, Nothing, Sensors
  <2>5. Absent \notin 1 .. MaxReadings
    BY DEF Absent
  <2>2. \A u \in Readers : u # v => doing'[u] = doing[u] /\ ext'[u] = ext[u]
    BY <1>2 DEF Update, Ranged, ReaderLocks, Call, DevTypeOK
  <2>3. doing[v] # "copy"
    BY <1>2 DEF Update, Ranged, ReaderLocks
  <2>6. ASSUME NEW u \in Readers, ~ (doing'[u] = "copy" /\ ext'[u] = "nvidia"), NEW g \in Gpus, NEW h \in Gpus,
               {got'[u][g], got'[u][h]} \subseteq 1 .. MaxReadings
        PROVE  got'[u][g] = got'[u][h]
    <3>1. got'[u] = got[u]
      BY <2>4, <2>5, <2>6
    <3>2. ~ (doing[u] = "copy" /\ ext[u] = "nvidia")
      BY <2>2, <2>3, <2>6
    <3> QED
      BY <2>6, <3>1, <3>2
  <2> QED
    BY <2>6
<1>3. ASSUME NEW v \in Readers, ReaderUnlocks(v) PROVE OneReading'
  <2>1. got' = got /\ doing[v] = "copy" /\ left[v] = {}
    BY <1>3 DEF ReaderUnlocks
  <2>2. \A u \in Readers : u # v => doing'[u] = doing[u] /\ ext'[u] = ext[u]
    BY <1>3 DEF ReaderUnlocks, Call, DevTypeOK
  <2>3. CASE ext[v] # "nvidia"
    BY <2>1, <2>2, <2>3
  <2>4. CASE ext[v] = "nvidia"
    <3>1. phase["nvidia"] # "process"
      BY <1>0, <2>1, <2>4 DEF Locked, LockOf
    <3>2. ASSUME NEW g \in Gpus, got[v][g] \in 1 .. MaxReadings PROVE got[v][g] = CacheOf(v)[g]
      <4>1. g \in Sensors /\ g \in SensorsOf(ext[v]) \ left[v]
        BY <2>1, <2>4 DEF Sensors, SensorsOf
      <4>2. got[v][g] <= CacheOf(v)[g] \/ CacheOf(v)[g] = Unparsed
        BY <4>1 DEF Ages, Aged
      <4>3. CacheOf(v)[g] # Absent
        BY <3>2, <4>2 DEF Absent, Unparsed
      <4> QED
        BY <2>1, <4>1, <4>3 DEF Copying
    <3>3. \A g, h \in Gpus : {got[v][g], got[v][h]} \subseteq 1 .. MaxReadings => got[v][g] = got[v][h]
      BY <3>1, <3>2 DEF Output
    <3> QED
      BY <2>1, <2>2, <3>3
  <2> QED
    BY <2>3, <2>4
<1>4. ASSUME NEW v \in Readers, NEW t \in Sensors, Copy(v, t) PROVE OneReading'
  <2>1. /\ doing[v] = "copy" /\ t \in left[v] /\ UNCHANGED <<doing, ext>>
        /\ got' = [got EXCEPT ![v][t] = CacheOf(v)[t]]
    BY <1>4 DEF Copy
  <2>2. ext[v] # "nvidia" => t \notin Gpus
    BY <2>1 DEF Copying, SensorsOf
  <2>3. got \in [Readers -> [Sensors -> Values]] /\ Gpus \subseteq Sensors
    BY DEF DevTypeOK, Sensors
  <2>4. ASSUME NEW u \in Readers, ~ (doing[u] = "copy" /\ ext[u] = "nvidia"), NEW g \in Gpus
        PROVE  got'[u][g] = got[u][g]
    BY <2>1, <2>2, <2>3, <2>4
  <2> QED
    BY <2>1, <2>4
<1>5. ASSUME NEW j \in Jobs, Panic(j) PROVE OneReading'
  BY <1>5 DEF Panic, Absent, Sensors, Nothing
<1>6. UNCHANGED vars => UNCHANGED readers
  BY DEF vars, readers
<1> QED
  BY <1>1, <1>2, <1>3, <1>4, <1>5, <1>6, ReaderSteps, Crash
-----------------------------------------------------------------------------
(* What is known of the remotes while Startup waits for them.              *)
Answers ==
    main = "wait" => \A r \in Configured \ refused :
        /\ r \in told \/ phase[r] = "close" => \A d \in Domains : cache[d][r] # Absent
        /\ phase[r] = "process" => \A d \in Domains \ todo[r] : cache[d][r] # Absent

(* Nothing is deleted from a cache.                                        *)
LEMMA NothingIsDeleted ==
    ASSUME DevTypeOK, [Next]_vars, main' # "crashed",
           NEW d \in Domains, NEW s \in Sensors, cache[d][s] # Absent
    PROVE  cache'[d][s] # Absent
<1> USE DevicesAssumption
<1>1. ASSUME NEW g \in Gpus, Row(g) PROVE cache'[d][s] # Absent
  <2>1. out["nvidia"] \in 1 .. MaxReadings
    BY DEF DevTypeOK, Jobs
  <2> QED
    BY <1>1, <2>1 DEF Row, DevTypeOK, Absent, Unparsed
<1>2. ASSUME NEW r \in Remotes, NEW c \in Domains, Line(r, c) PROVE cache'[d][s] # Absent
  <2>1. cache' = cache \/ cache' = [cache EXCEPT ![c][r] = out[r]]
    BY <1>2 DEF Line
  <2>2. out[r] \in 1 .. MaxReadings /\ cache \in [Domains -> [Sensors -> Values]]
    BY DEF DevTypeOK, Jobs
  <2>3. ASSUME cache' = [cache EXCEPT ![c][r] = out[r]] PROVE cache'[d][s] \in {cache[d][s], out[r]}
    BY <2>2, <2>3
  <2> QED
    BY <2>1, <2>2, <2>3 DEF Absent
<1> QED
  BY <1>1, <1>2, CacheSteps

(* Answers of the next state, of one remote. *)
NewAnswer(r) ==
    /\ r \in told' \/ phase'[r] = "close" => \A d \in Domains : cache'[d][r] # Absent
    /\ phase'[r] = "process" => \A d \in Domains \ todo'[r] : cache'[d][r] # Absent

LEMMA AnswersStep ==
    ASSUME DevTypeOK, Counted, Answers, [Next]_vars
    PROVE  Answers'
<1> SUFFICES ASSUME main' = "wait", NEW r \in Configured, r \notin refused'
             PROVE  NewAnswer(r)
  <2>1. Configured' = Configured
    BY ConfigUnchanged DEF Configured
  <2> QED
    BY <2>1 DEF Answers, NewAnswer
<1> DEFINE Kept == /\ main' = main /\ refused \subseteq refused' /\ (r \in told' => r \in told)
                   /\ phase'[r] \in {phase[r], "fetch"} /\ todo'[r] = todo[r]
<1> USE DevicesAssumption DEF NewAnswer
<1>0. r \in Remotes /\ r \in Jobs /\ r \in Sensors /\ r # "nvidia"
  BY DEF Configured, Jobs, Sensors
<1>1. \A d \in Domains : cache[d][r] # Absent => cache'[d][r] # Absent
  BY <1>0, NothingIsDeleted
<1>2. CASE StartRemote
  BY <1>0, <1>2 DEF StartRemote, DevTypeOK, Counted
<1>3. main = "wait" /\ r \notin refused =>
        /\ r \in told \/ phase[r] = "close" => \A d \in Domains : cache[d][r] # Absent
        /\ phase[r] = "process" => \A d \in Domains \ todo[r] : cache[d][r] # Absent
  BY DEF Answers
<1>4. CASE JobLocks(r)
  <2>1. /\ main = "wait" /\ refused' = refused /\ told' = told
        /\ phase'[r] = "process" /\ todo'[r] = Domains
    BY <1>0, <1>4 DEF JobLocks, startup, DevTypeOK
  <2> QED
    BY <1>1, <1>3, <2>1
<1>5. CASE JobUnlocks(r)
  <2>1. /\ main = "wait" /\ refused' = refused /\ told' = told /\ phase[r] = "process" /\ todo[r] = {}
        /\ phase'[r] = "close"
    BY <1>0, <1>5 DEF JobUnlocks, startup, DevTypeOK
  <2> QED
    BY <1>1, <1>3, <2>1
<1>6. CASE Answer(r)
  <2>1. /\ main = "wait" /\ told' = told /\ phase'[r] \in {"lock", "close"}
        /\ refused \subseteq refused'
        /\ phase'[r] = "close" => r \in told
    BY <1>0, <1>6 DEF Answer, DevTypeOK
  <2> QED
    BY <1>1, <1>3, <2>1
<1>7. CASE Close(r)
  <2>1. /\ main = "wait" /\ phase[r] = "close" /\ phase'[r] = "sleep" /\ refused' = refused
    BY <1>0, <1>7 DEF Close, DevTypeOK
  <2> QED
    BY <1>1, <1>3, <2>1
<1>8. ASSUME NEW c \in Domains, Line(r, c) PROVE NewAnswer(r)
  <2>1. /\ main = "wait" /\ told' = told /\ phase' = phase /\ phase[r] = "process"
        /\ refused \subseteq refused' /\ todo'[r] = todo[r] \ {c}
    BY <1>0, <1>8 DEF Line, DevTypeOK
  <2>2. cache'[c][r] # Absent \/ r \in told
    BY <1>0, <1>8 DEF Line, DevTypeOK, Absent
  <2>3. r \in told => \A d \in Domains : cache[d][r] # Absent
    BY <1>3, <2>1
  <2>4. \A d \in Domains \ todo[r] : cache[d][r] # Absent
    BY <1>3, <2>1
  <2> QED
    BY <1>1, <2>1, <2>2, <2>3, <2>4
<1>9. \A j \in Jobs \ {r} : JobLocks(j) \/ JobUnlocks(j) => Kept
  BY <1>0 DEF JobLocks, JobUnlocks, startup, DevTypeOK
<1>10. \A j \in Jobs : Tick(j) => Kept
  BY <1>0 DEF Tick, startup, DevTypeOK
<1>11. \A q \in Remotes \ {r} : Answer(q) => Kept
  BY <1>0 DEF Answer, DevTypeOK
<1>12. \A q \in Remotes \ {r} : Close(q) => Kept
  BY <1>0 DEF Close, Tell, DevTypeOK
<1>13. \A q \in Remotes \ {r}, c \in Domains : Line(q, c) => Kept
  BY <1>0 DEF Line, DevTypeOK
<1>14. Change \/ RunNvidiaSmi \/ RecordFailure \/ (\E g \in Gpus : Row(g)) => Kept
  BY <1>0 DEF Change, RunNvidiaSmi, RecordFailure, Row, startup, jobs, DevTypeOK
<1>15. ~ (StartNvidia \/ FirstUpdate \/ Wait \/ \E j \in Jobs : Panic(j))
  BY DEF StartNvidia, FirstUpdate, Wait, Panic
<1>16. (\E v \in Readers : \/ Update(v) \/ ReaderLocks(v) \/ ReaderUnlocks(v) \/ Ranged(v)
                          \/ \E t \in Sensors : Copy(v, t))
        => UNCHANGED <<startup, jobs>>
  BY Zenon DEF Update, ReaderLocks, ReaderUnlocks, Ranged, Copy
<1>17. UNCHANGED <<startup, jobs>> \/ UNCHANGED vars => Kept
  BY DEF startup, jobs, vars
<1>18. CASE Kept
  BY <1>1, <1>3, <1>18
<1>19. \/ Kept \/ StartRemote \/ JobLocks(r) \/ JobUnlocks(r) \/ Answer(r) \/ Close(r)
       \/ \E c \in Domains : Line(r, c)
  <2> HIDE DEF Kept
  <2> QED
    BY <1>0, <1>9, <1>10, <1>11, <1>12, <1>13, <1>14, <1>15, <1>16, <1>17, Steps
<1> QED
  BY <1>2, <1>18, <1>4, <1>5, <1>6, <1>7, <1>8, <1>19
-----------------------------------------------------------------------------
(* The inductive invariant. *)
DevicesInv ==
    /\ DevTypeOK
    /\ Counted
    /\ Locked
    /\ Copying
    /\ Ages
    /\ Output
    /\ OneReading
    /\ Answers

LEMMA DevicesInvInit == Init => DevicesInv
<1> SUFFICES ASSUME Init PROVE DevicesInv
  OBVIOUS
<1> USE DevicesAssumption
<1>0. /\ main = "nvidia" /\ now = 1
      /\ \A j \in Jobs : phase[j] = "off" /\ out[j] = 1
      /\ \A u \in Readers : doing[u] = "idle"
      /\ \A u \in Readers, s \in Sensors : CacheOf(u)[s] = -1 /\ got[u][s] = -1
  BY DEF Init, Absent, Nothing
<1>1. DevTypeOK
  BY TypeInit
<1>2. Locked /\ Copying /\ Answers
  BY <1>0 DEF Locked, Copying, Answers
<1>5. Counted
  BY <1>0 DEF Init, Counted, Jobs
<1>3. Ages
  <2>1. \A s \in Sensors : JobOf(s) \in Jobs
    BY DEF JobOf, Sensors, Jobs
  <2> QED
    BY <1>0, <2>1 DEF Ages, Aged
<1>4. Output /\ OneReading
  <2>1. "nvidia" \in Jobs /\ Gpus \subseteq Sensors /\ -1 \notin 1 .. MaxReadings
    BY DEF Jobs, Sensors
  <2>2. \A d \in Domains, s \in Sensors : cache[d][s] = -1
    BY DEF Init, Absent, Nothing
  <2> QED
    BY <1>0, <2>1, <2>2 DEF Output, OneReading
<1> QED
  BY <1>1, <1>2, <1>3, <1>4, <1>5 DEF DevicesInv

LEMMA DevicesInvStep == DevicesInv /\ [Next]_vars => DevicesInv'
  BY CountedStep, NextCountIsNat, TypeStep, LockedStep, CopyingStep, AgesStep, OutputStep, OneReadingStep, AnswersStep
     DEF DevicesInv

LEMMA DevicesInvariant == Spec => []DevicesInv
  BY DevicesInvInit, DevicesInvStep, PTL DEF Spec
-----------------------------------------------------------------------------
(* Type correctness of the extensions, their caches and their readers. *)
THEOREM DevicesTypeCorrect == Spec => []DevTypeOK
  BY DevicesInvariant, PTL DEF DevicesInv

(* No widget mixes two runs of nvidia-smi, for any number of GPUs, updates *)
(* and widgets, and whichever fields fail to parse.                        *)
THEOREM ReadingsAreNotMixed == Spec => []OneReading
  BY DevicesInvariant, PTL DEF DevicesInv

(* An updater has copied its whole cache when it unlocks. *)
THEOREM CopiesAreWhole == Spec => []WholeCopy
<1>1. DevicesInv => WholeCopy
  BY DEF DevicesInv, Copying, WholeCopy
<1> QED
  BY <1>1, DevicesInvariant, PTL

(* A widget that keeps its map never shows an older reading of a sensor   *)
(* after a newer one, though other readers and the jobs run in between.    *)
THEOREM ReadingsNeverGoBack == Spec => NeverOlder
<1>1. ASSUME DevicesInv, [Next]_vars, main' # "crashed", NEW u \in Keepers, NEW s \in Sensors
      PROVE  got'[u][s] >= got[u][s] \/ got'[u][s] = Unparsed
  <2>0. u \in Readers
    BY DevicesAssumption
  <2>1. /\ got \in [Readers -> [Sensors -> Values]] /\ got[u][s] \in Int
        /\ got[u][s] <= CacheOf(u)[s] \/ CacheOf(u)[s] = Unparsed
        /\ CacheOf(u)[s] \in Int
    <3>1. got \in [Readers -> [Sensors -> Values]] /\ got[u][s] \in Values /\ CacheOf(u)[s] \in Values
      BY <1>1, <2>0, DevicesAssumption DEF DevicesInv, DevTypeOK
    <3>2. Values \subseteq Int
      BY DevicesAssumption DEF Values, Absent, Unparsed
    <3>3. got[u][s] <= CacheOf(u)[s] \/ CacheOf(u)[s] = Unparsed
      BY <1>1, <2>0 DEF DevicesInv, Ages, Aged
    <3> QED
      BY <3>1, <3>2, <3>3
  <2>2. got'[u][s] \in {got[u][s], CacheOf(u)[s]}
    <3>1. CASE UNCHANGED readers
      BY <3>1 DEF readers
    <3>2. CASE \E v \in Readers : Update(v) \/ ReaderLocks(v) \/ ReaderUnlocks(v) \/ Ranged(v)
      <4>1. got' = got \/ \E v \in Readers \ {u} : got' = [got EXCEPT ![v] = Nothing]
        BY <3>2 DEF Update, ReaderLocks, ReaderUnlocks, Ranged
      <4> QED
        BY <2>0, <2>1, <4>1
    <3>3. ASSUME NEW v \in Readers, NEW t \in Sensors, Copy(v, t)
          PROVE  got'[u][s] \in {got[u][s], CacheOf(u)[s]}
      <4>1. got' = [got EXCEPT ![v][t] = CacheOf(v)[t]]
        BY <3>3 DEF Copy
      <4> QED
        BY <2>0, <2>1, <4>1
    <3> QED
      BY <1>1, <3>1, <3>2, <3>3, ReaderSteps, Zenon
  <2> QED
    BY <2>1, <2>2
<1>2. DevicesInv /\ [Next]_vars
      => [\A u \in Keepers, s \in Sensors :
            main' # "crashed" => got'[u][s] >= got[u][s] \/ got'[u][s] = Unparsed]_vars
  BY <1>1
<1> QED
  BY <1>2, DevicesInvariant, PTL DEF Spec, NeverOlder

(* Startup goes on from its wait with every sensor of the remotes whose    *)
(* first answer was good.                                                  *)
THEOREM SensorsAreKnown == Spec => SensorsKnown
<1>1. ASSUME DevicesInv, [Next]_vars, main = "wait", main' = "up"
      PROVE  Configured \subseteq told
  <2>1. \/ Change \/ RunNvidiaSmi \/ RecordFailure \/ (\E g \in Gpus : Row(g)) \/ UNCHANGED vars
        \/ (\E j \in Jobs : Tick(j) \/ JobLocks(j) \/ JobUnlocks(j))
        \/ (\E u \in Readers : \/ Update(u) \/ ReaderLocks(u) \/ ReaderUnlocks(u) \/ Ranged(u)
                              \/ \E s \in Sensors : Copy(u, s))
        \/ (\E r \in Remotes : Answer(r) \/ Close(r) \/ \E d \in Domains : Line(r, d))
        => main' = main
    BY Zenon DEF Change, RunNvidiaSmi, RecordFailure, Row, vars, Tick, JobLocks, JobUnlocks, Update,
       ReaderLocks, ReaderUnlocks, Ranged, Copy, Answer, Close, Line, startup
  <2>2. ~ (StartNvidia \/ FirstUpdate \/ StartRemote \/ \E j \in Jobs : Panic(j))
    BY <1>1 DEF StartNvidia, FirstUpdate, StartRemote, Panic
  <2>3. Wait
    BY <1>1, <2>1, <2>2, Steps, Zenon
  <2>4. Cardinality(Configured \ told) = 0
    BY <1>1, <2>3 DEF Wait, DevicesInv, Counted
  <2>5. IsFiniteSet(Configured \ told)
    BY DevicesAssumption, FS_Subset DEF Configured
  <2>6. Configured \ told = {}
    BY <2>4, <2>5, FS_EmptySet
  <2> QED
    BY <2>6
<1>2. DevicesInv /\ [Next]_vars
      => [main = "wait" /\ main' = "up" =>
            \A r \in Configured \ refused, d \in Domains : cache[d][r] # Absent]_vars
  BY <1>1 DEF DevicesInv, Answers
<1> QED
  BY <1>2, DevicesInvariant, PTL DEF Spec, SensorsKnown
=============================================================================
