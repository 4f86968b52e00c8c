------------------------------ MODULE Devices ------------------------------
(***************************************************************************)
(* The extensions of devices/: devices.go starts them one after the other, *)
(* nvidia.go and remote.go fetch readings in background jobs and keep them *)
(* in caches, and UpdateCPU, UpdateMem and UpdateTemps, called by the      *)
(* goroutines of the widgets, copy the caches into a map of the caller.    *)
(*                                                                         *)
(* The widgets of memory and temperatures have one goroutine each, which   *)
(* keeps its map; that of the CPU starts a goroutine with a map of its own *)
(* at every tick and waits for none of them.                               *)
(*                                                                         *)
(* A reading is the number of the last change of its source.  A remote has *)
(* one metric per domain.  An nvidia-smi that succeeds lists every GPU.  A *)
(* panic in a goroutine ends the program: main is then "crashed".  The     *)
(* local updaters of gopsutil keep nothing and are left out.               *)
(***************************************************************************)
EXTENDS Integers, FiniteSets

CONSTANTS
    Gpus,          \* what nvidia-smi lists
    Remotes,       \* the names of remotes
    Domains,       \* cpu, mem, temp: each has an updater in each extension
    Readers,       \* the goroutines of the widgets
    DomainOf,      \* of each reader: the domain of its widget
    Keepers,       \* the readers that keep their map from tick to tick
    Configs,       \* what the user may configure
    MaxReadings,   \* bound on the changes of a source
    Free           \* the holder of a lock nobody holds

ASSUME DevicesAssumption ==
    /\ MaxReadings \in Nat \ {0}
    /\ Configs \subseteq [nvidia : BOOLEAN, widgets : SUBSET Readers,
                          remotes : [Remotes -> {"none", "refresh", "url"}]]
    /\ DomainOf \in [Readers -> Domains] /\ Keepers \subseteq Readers
    /\ IsFiniteSet(Remotes)
    /\ Gpus \cap Remotes = {} /\ Remotes \cap Readers = {}
    /\ "nvidia" \notin Remotes \cup Readers
    /\ Free \notin Remotes \cup Readers \cup {"nvidia"}

Extensions == {"nvidia", "remote"}
Jobs == Remotes \cup {"nvidia"}
Sensors == Gpus \cup Remotes
SensorsOf(e) == IF e = "nvidia" THEN Gpus ELSE Remotes

Absent == -1       \* not in the map
Unparsed == 0      \* what strconv.Atoi returns with an error
Values == {Absent, Unparsed} \cup 1 .. MaxReadings

VARIABLES
    config,    \* nvidia, the remotes parseConfig accepts, the layout's widgets
    main,      \* where Startup is; "up" when the widgets run
    updaters,  \* the extensions that registered their updaters
    lock,      \* nvidiaLock and remoteLock: who holds it
    cache,     \* _cpus, _temps, _cpuData, ...: of each domain and sensor
    now,       \* the current reading of the GPUs and of the remotes
    phase,     \* where each job is
    out,       \* of each job: the reading it has fetched, 1 when it has none
    todo,      \* what of its output a job has not processed yet
    wg,        \* the counter of the WaitGroup of startup
    told,      \* the jobs of remotes whose wg is nil: they have told it
    refused,   \* history of Startup: the remotes with a bad first answer
    doing,     \* of each reader: its step in the updater it calls
    ext,       \* of each reader: the extension of that updater
    left,      \* of each reader: what it has not copied yet
    got        \* of each reader: its map

sources == <<config, now>>
startup == <<config, main, updaters, wg, told, refused>>
jobs == <<phase, out, todo>>
readers == <<doing, ext, left, got>>
vars == <<config, main, updaters, lock, cache, now, phase, out, todo,
          wg, told, refused, doing, ext, left, got>>

(* parseConfig: a remote-NAME-url or a valid remote-NAME-refresh makes a   *)
(* remote, the second alone one without a URL; options it rejects make     *)
(* none, and --remote-url makes one more.                                  *)
Configured == {r \in Remotes : config.remotes[r] # "none"}
HasUrl(r) == config.remotes[r] = "url"

Nothing == [s \in Sensors |-> Absent]     \* a map that has just been made

DevTypeOK ==
    /\ config \in Configs
    /\ main \in {"nvidia", "first", "remote", "wait", "up", "crashed"}
    /\ updaters \subseteq Extensions
    /\ lock \in [Extensions -> Jobs \cup Readers \cup {Free}]
    /\ cache \in [Domains -> [Sensors -> Values]]
    /\ now \in 1 .. MaxReadings
    /\ phase \in [Jobs -> {"off", "sleep", "fetch", "fail", "lock", "process", "close"}]
    /\ out \in [Jobs -> 1 .. MaxReadings]
    /\ todo \in [Jobs -> SUBSET (Gpus \cup Domains)]
    /\ wg \in Nat                      \* a negative counter panics
    /\ told \subseteq Configured /\ refused \subseteq Configured
    /\ doing \in [Readers -> {"idle", "lock", "copy", "range"}]
    /\ ext \in [Readers -> Extensions]
    /\ left \in [Readers -> SUBSET Sensors]
    /\ got \in [Readers -> [Sensors -> Values]]

Init ==
    /\ config \in Configs
    /\ main = "nvidia"
    /\ now = 1
    /\ updaters = {}
    /\ lock = [e \in Extensions |-> Free]
    /\ cache = [d \in Domains |-> Nothing]
    /\ phase = [j \in Jobs |-> "off"]
    /\ out = [j \in Jobs |-> 1]
    /\ todo = [j \in Jobs |-> {}]
    /\ wg = 0 /\ told = {} /\ refused = {}
    /\ doing = [u \in Readers |-> "idle"]
    /\ ext = [u \in Readers |-> "nvidia"]
    /\ left = [u \in Readers |-> {}]
    /\ got = [u \in Readers |-> Nothing]

(* What the GPUs and the remotes measure changes. *)
Change ==
    /\ now < MaxReadings
    /\ now' = now + 1
    /\ UNCHANGED <<startup, lock, cache, jobs, readers>>
-----------------------------------------------------------------------------
(* startNVidia: not asked for, or no working nvidia-smi; a bad refresh     *)
(* leaves it registered without a job; else updateNvidia runs once here.   *)
StartNvidia ==
    /\ main = "nvidia"
    /\ \/ main' = "remote" /\ UNCHANGED <<updaters, phase>>
       \/ /\ config.nvidia /\ main' = "remote"
          /\ updaters' = updaters \cup {"nvidia"}
          /\ UNCHANGED phase
       \/ /\ config.nvidia /\ main' = "first"
          /\ updaters' = updaters \cup {"nvidia"}
          /\ phase' = [phase EXCEPT !["nvidia"] = "fetch"]
    /\ UNCHANGED <<sources, lock, cache, out, todo, wg, told, refused, readers>>

FirstUpdate ==
    /\ main = "first" /\ phase["nvidia"] = "sleep"
    /\ main' = "remote"
    /\ UNCHANGED <<sources, updaters, lock, cache, jobs, wg, told, refused, readers>>

(* startup in remote.go: a job for every remote, and a wait for them all. *)
StartRemote ==
    /\ main = "remote"
    /\ IF Configured = {}
       THEN main' = "up" /\ UNCHANGED <<updaters, wg, phase>>
       ELSE /\ main' = "wait"
            /\ updaters' = updaters \cup {"remote"}
            /\ wg' = Cardinality(Configured)
            /\ phase' = [j \in Jobs |-> IF j \in Configured THEN "fetch" ELSE phase[j]]
    /\ UNCHANGED <<sources, lock, cache, out, todo, told, refused, readers>>

Wait ==
    /\ main = "wait" /\ wg = 0
    /\ main' = "up" /\ refused' = {}
    /\ UNCHANGED <<sources, updaters, lock, cache, jobs, wg, told, readers>>
-----------------------------------------------------------------------------
(* The ticker of startNVidia, and the sleep of a remote's job. *)
Tick(j) ==
    /\ phase[j] = "sleep"
    /\ j = "nvidia" => main # "first"
    /\ phase' = [phase EXCEPT ![j] = "fetch"]
    /\ UNCHANGED <<startup, now, lock, cache, out, todo, readers>>

(* updateNvidia runs the tool, whose output may not come or not be CSV... *)
RunNvidiaSmi ==
    /\ phase["nvidia"] = "fetch"
    /\ \/ phase' = [phase EXCEPT !["nvidia"] = "fail"] /\ UNCHANGED out
       \/ /\ phase' = [phase EXCEPT !["nvidia"] = "lock"]
          /\ out' = [out EXCEPT !["nvidia"] = now]
    /\ UNCHANGED <<startup, now, lock, cache, todo, readers>>

(* ... and then records the error without the lock. *)
RecordFailure ==
    /\ phase["nvidia"] = "fail"
    /\ phase' = [phase EXCEPT !["nvidia"] = "sleep"]
    /\ UNCHANGED <<startup, now, lock, cache, out, todo, readers>>

(* Mutant: the status is not looked at; a page of an error is an old body. *)
AnswerAnyStatus(r) ==
    /\ phase[r] = "fetch" /\ HasUrl(r)
    /\ phase' = [phase EXCEPT ![r] = "lock"]
    /\ \/ out' = [out EXCEPT ![r] = now]
       \/ UNCHANGED out
    /\ UNCHANGED <<sources, main, updaters, wg, told, refused, lock, cache, todo, readers>>

(* wg.Done the first time; after that the wg of the goroutine is nil. *)
Tell(r) ==
    /\ wg' = IF r \in told THEN wg ELSE wg - 1
    /\ told' = told \cup {r}

(* Mutant: the WaitGroup is told of the answer before it is processed. *)
AnswerDoneFirst(r) ==
    /\ phase[r] = "fetch" /\ HasUrl(r)
    /\ phase' = [phase EXCEPT ![r] = "lock"]
    /\ out' = [out EXCEPT ![r] = now]
    /\ Tell(r)
    /\ UNCHANGED <<sources, main, updaters, refused, lock, cache, todo, readers>>

(* A remote answers: with the status OK and a body, or with another one.   *)
Answer(r) ==
    /\ phase[r] = "fetch" /\ HasUrl(r)
    /\ \/ /\ phase' = [phase EXCEPT ![r] = "lock"]
          /\ out' = [out EXCEPT ![r] = now]
          /\ UNCHANGED refused
       \/ /\ phase' = [phase EXCEPT ![r] = "close"]
          /\ refused' = refused \cup ({r} \ told)
          /\ UNCHANGED out
    /\ UNCHANGED <<sources, main, updaters, wg, told, lock, cache, todo, readers>>

(* The request fails, and there is no res whose Body could be closed; or   *)
(* process indexes a blank or a short line; or nvidia-smi's rows, all as   *)
(* long as the first, have less than six fields.  The program is gone.     *)
Panic(j) ==
    /\ IF j = "nvidia"
       THEN phase[j] = "process" /\ todo[j] = Gpus /\ Gpus # {}
       ELSE phase[j] \in {"fetch", "process"}
    /\ main' = "crashed"
    /\ updaters' = {}
    /\ lock' = [e \in Extensions |-> Free]
    /\ cache' = [d \in Domains |-> Nothing]
    /\ phase' = [k \in Jobs |-> "off"]
    /\ out' = [k \in Jobs |-> 1]
    /\ todo' = [k \in Jobs |-> {}]
    /\ wg' = 0 /\ told' = {} /\ refused' = {}
    /\ doing' = [u \in Readers |-> "idle"]
    /\ ext' = [u \in Readers |-> "nvidia"]
    /\ left' = [u \in Readers |-> {}]
    /\ got' = [u \in Readers |-> Nothing]
    /\ UNCHANGED sources

(* Mutant: the job writes without waiting for the lock. *)
JobLocksNot(j) ==
    /\ phase[j] = "lock"
    /\ phase' = [phase EXCEPT ![j] = "process"]
    /\ todo' = [todo EXCEPT ![j] = IF j = "nvidia" THEN Gpus ELSE Domains]
    /\ UNCHANGED <<startup, now, cache, lock, out, readers>>

(* A job takes the lock of its extension to write the caches. *)
LockOf(j) == IF j = "nvidia" THEN "nvidia" ELSE "remote"

JobLocks(j) ==
    /\ phase[j] = "lock" /\ lock[LockOf(j)] = Free
    /\ lock' = [lock EXCEPT ![LockOf(j)] = j]
    /\ phase' = [phase EXCEPT ![j] = "process"]
    /\ todo' = [todo EXCEPT ![j] = IF j = "nvidia" THEN Gpus ELSE Domains]
    /\ UNCHANGED <<startup, now, cache, out, readers>>

(* A row of nvidia-smi; a field that is not a number is stored as zero and *)
(* recorded.                                                               *)
Row(g) ==
    /\ phase["nvidia"] = "process" /\ g \in todo["nvidia"]
    /\ \E bad \in SUBSET Domains :
        /\ cache' = [d \in Domains |-> [cache[d] EXCEPT ![g] =
                        IF d \in bad THEN Unparsed ELSE out["nvidia"]]]
    /\ todo' = [todo EXCEPT !["nvidia"] = @ \ {g}]
    /\ UNCHANGED <<startup, now, lock, phase, out, readers>>

(* Mutant: the lock is not released. *)
JobUnlocksNot(j) ==
    /\ phase[j] = "process" /\ todo[j] = {}
    /\ phase' = [phase EXCEPT ![j] = IF j = "nvidia" THEN "sleep" ELSE "close"]
    /\ out' = [out EXCEPT ![j] = 1]
    /\ UNCHANGED <<startup, now, lock, cache, todo, readers>>

(* A line of a remote's body; bad data, or a body that ends early, leaves  *)
(* what was there.                                                         *)
Line(r, d) ==
    /\ phase[r] = "process" /\ d \in todo[r]
    /\ \/ cache' = [cache EXCEPT ![d][r] = out[r]] /\ UNCHANGED refused
       \/ UNCHANGED cache /\ refused' = refused \cup ({r} \ told)
    /\ todo' = [todo EXCEPT ![r] = @ \ {d}]
    /\ UNCHANGED <<sources, main, updaters, wg, told, lock, phase, out, readers>>

JobUnlocks(j) ==
    /\ phase[j] = "process" /\ todo[j] = {}
    /\ lock' = [lock EXCEPT ![LockOf(j)] = Free]
    /\ phase' = [phase EXCEPT ![j] = IF j = "nvidia" THEN "sleep" ELSE "close"]
    /\ out' = [out EXCEPT ![j] = 1]
    /\ UNCHANGED <<startup, now, cache, todo, readers>>

(* Mutant: only a good answer counts for the WaitGroup. *)
CloseUnlessRefused(r) ==
    /\ phase[r] = "close"
    /\ IF r \in refused THEN UNCHANGED <<wg, told>> ELSE Tell(r)
    /\ phase' = [phase EXCEPT ![r] = "sleep"]
    /\ UNCHANGED <<sources, main, updaters, refused, lock, cache, out, todo, readers>>

(* Mutant: every answer is told, as if wg were never set to nil. *)
CloseTellsAgain(r) ==
    /\ phase[r] = "close"
    /\ wg' = wg - 1 /\ told' = told \cup {r}
    /\ phase' = [phase EXCEPT ![r] = "sleep"]
    /\ UNCHANGED <<sources, main, updaters, refused, lock, cache, out, todo, readers>>

(* The body is closed and, the first time, the WaitGroup told. *)
Close(r) ==
    /\ phase[r] = "close"
    /\ Tell(r)
    /\ phase' = [phase EXCEPT ![r] = "sleep"]
    /\ UNCHANGED <<sources, main, updaters, refused, lock, cache, out, todo, readers>>
-----------------------------------------------------------------------------
CacheOf(u) == cache[DomainOf[u]]

(* UpdateCPU, UpdateMem or UpdateTemps goes on with the updaters in rest.  *)
Call(u, rest) ==
    /\ doing' = [doing EXCEPT ![u] = IF rest = {} THEN "idle" ELSE "lock"]
    /\ ext' = [ext EXCEPT ![u] = IF rest = {"remote"} THEN "remote" ELSE "nvidia"]

(* Mutant: the updater copies without the lock. *)
ReaderLocksNot(u) ==
    /\ doing[u] = "lock"
    /\ doing' = [doing EXCEPT ![u] = "copy"]
    /\ left' = [left EXCEPT ![u] = {s \in SensorsOf(ext[u]) : CacheOf(u)[s] # Absent}]
    /\ UNCHANGED <<startup, now, cache, lock, jobs, ext, got>>

(* A tick of a widget of the layout. *)
Update(u) ==
    /\ main = "up" /\ doing[u] = "idle" /\ u \in config.widgets
    /\ Call(u, updaters)
    /\ got' = IF u \in Keepers THEN got ELSE [got EXCEPT ![u] = Nothing]
    /\ UNCHANGED <<startup, now, lock, cache, jobs, left>>

ReaderLocks(u) ==
    /\ doing[u] = "lock" /\ lock[ext[u]] = Free
    /\ lock' = [lock EXCEPT ![ext[u]] = u]
    /\ doing' = [doing EXCEPT ![u] = "copy"]
    /\ left' = [left EXCEPT ![u] = {s \in SensorsOf(ext[u]) : CacheOf(u)[s] # Absent}]
    /\ UNCHANGED <<startup, now, cache, jobs, ext, got>>

Copy(u, s) ==
    /\ doing[u] = "copy" /\ s \in left[u]
    /\ got' = [got EXCEPT ![u][s] = CacheOf(u)[s]]
    /\ left' = [left EXCEPT ![u] = @ \ {s}]
    /\ UNCHANGED <<startup, now, lock, cache, jobs, doing, ext>>

(* The updaters of nvidia.go return the map of errors itself, which the    *)
(* caller ranges over after the unlock; those of remote.go return nil.     *)
ReaderUnlocks(u) ==
    /\ doing[u] = "copy" /\ left[u] = {}
    /\ lock' = [lock EXCEPT ![ext[u]] = Free]
    /\ IF ext[u] = "nvidia"
       THEN doing' = [doing EXCEPT ![u] = "range"] /\ UNCHANGED ext
       ELSE Call(u, {})
    /\ UNCHANGED <<startup, now, cache, jobs, left, got>>

Ranged(u) ==
    /\ doing[u] = "range"
    /\ Call(u, updaters \ {"nvidia"})
    /\ UNCHANGED <<startup, now, lock, cache, jobs, left, got>>
-----------------------------------------------------------------------------
Job ==
    \/ Change
    \/ RunNvidiaSmi
    \/ RecordFailure
    \/ \E g \in Gpus : Row(g)
    \/ \E r \in Remotes : Answer(r) \/ Close(r) \/ \E d \in Domains : Line(r, d)
    \/ \E j \in Jobs : Tick(j) \/ JobLocks(j) \/ JobUnlocks(j) \/ Panic(j)

Reader(u) ==
    \/ Update(u)
    \/ ReaderLocks(u)
    \/ \E s \in Sensors : Copy(u, s)
    \/ ReaderUnlocks(u)
    \/ Ranged(u)

Next ==
    \/ /\ main # "crashed"
       /\ \/ StartNvidia
          \/ FirstUpdate
          \/ StartRemote
          \/ Wait
          \/ Job
          \/ \E u \in Readers : Reader(u)
    \/ main = "crashed" /\ UNCHANGED vars

Running(A) == main # "crashed" /\ A

(* The steps of a goroutine that wait for nothing but a lock: nothing is   *)
(* assumed of nvidia-smi, the remotes and the tickers of the widgets.      *)
StartupRuns == StartNvidia \/ FirstUpdate \/ StartRemote \/ Wait

JobRuns(j) ==
    \/ Tick(j) \/ JobLocks(j) \/ JobUnlocks(j)
    \/ j = "nvidia" /\ (RecordFailure \/ \E g \in Gpus : Row(g))
    \/ j \in Remotes /\ Close(j)

ReaderRuns(u) ==
    ReaderLocks(u) \/ ReaderUnlocks(u) \/ Ranged(u) \/ \E s \in Sensors : Copy(u, s)

(* Goroutines that can run do run, and Go's mutex hands itself to a waiter *)
(* in the end.                                                             *)
Fairness ==
    /\ WF_vars(Running(StartupRuns))
    /\ \A j \in Jobs : SF_vars(Running(JobRuns(j)))
    /\ \A u \in Readers : SF_vars(Running(ReaderRuns(u)))

Spec == Init /\ [][Next]_vars /\ Fairness
-----------------------------------------------------------------------------
(* A widget never mixes two runs of nvidia-smi: once an updater of         *)
(* nvidia.go has returned, the values it copied come from one output,      *)
(* whatever the job writes in between.                                     *)
OneReading ==
    \A u \in Readers : ~ (doing[u] = "copy" /\ ext[u] = "nvidia") =>
        \A g, h \in Gpus :
            {got[u][g], got[u][h]} \subseteq 1 .. MaxReadings => got[u][g] = got[u][h]

(* An updater copies the whole cache of its domain as it is at one moment, *)
(* though jobs for other remotes want to write it at any time.             *)
WholeCopy ==
    \A u \in Readers : doing[u] = "copy" /\ left[u] = {} =>
        \A s \in SensorsOf(ext[u]) : CacheOf(u)[s] # Absent => got[u][s] = CacheOf(u)[s]

(* When Startup returns, the rest of the program can learn the sensors of  *)
(* every remote whose first answer was good: the wait is for answers that  *)
(* have been processed.                                                    *)
SensorsKnown ==
    [][main = "wait" /\ main' = "up" =>
          \A r \in Configured \ refused, d \in Domains : cache[d][r] # Absent]_vars

(* What a widget that keeps its map (memory, temperatures) shows of a      *)
(* sensor never goes back to an older reading.  The widget of the CPU has  *)
(* no such promise: its goroutines append in any order.                    *)
NeverOlder ==
    [][\A u \in Keepers, s \in Sensors :
          main' # "crashed" => got'[u][s] >= got[u][s] \/ got'[u][s] = Unparsed]_vars

(* Startup ends, with a failure of the program at worst, if nvidia-smi     *)
(* ends and the remotes answer, be it with an error status or bad data.    *)
StartupReturns ==
    (\A j \in Jobs : []<>(phase[j] \notin {"fetch", "process"}))
        => <>(main \in {"up", "crashed"})

(* A widget waits for an updater only while a remote sends its body, which *)
(* process reads under the lock; what nvidia-smi or a request takes delays *)
(* no widget.                                                              *)
UpdateReturns ==
    (\A r \in Remotes : []<>(phase[r] # "process"))
        => \A u \in Readers : doing[u] # "idle" ~> (doing[u] = "idle" \/ main = "crashed")

(* What the comment in updateNvidia says it ensures: no cache is modified  *)
(* while it is read.                                                       *)
NoWriteWhileRead ==
    \A u \in Readers : ~ (doing[u] = "range" /\ phase["nvidia"] = "fail")
=============================================================================
