------------------------ MODULE ConstantFoldingProofs ------------------------
(***************************************************************************)
(* Proofs about ConstantFolding, for every set of constants and requests,  *)
(* number of folding threads and memory limit.                             *)
(***************************************************************************)
EXTENDS ConstantFolding, DataTheorems

-----------------------------------------------------------------------------
(***************************************************************************)
(* The invariant that type correctness and the count of the tasks need.    *)
(***************************************************************************)

\* What a task may have been started for; one that did not find the result to
\* extend folds from scratch.
Jobs ==
  [kind : {"fold"}, attr : Attrs, from : Attrs \cup {None}]
  \cup [kind : {"extend", "equivalence"}, attr : Attrs, from : Attrs]

\* The listener waits with a request in its hands.
RequestHeld == listener \in {"check", "blocking", "asleep"} => request \in Requests

\* Where a task can be, by the kind of its request.
JobsFit ==
  /\ DOMAIN job = Tasks /\ DOMAIN victims = Tasks
  /\ \A t \in Tasks :
       /\ pc[t] = "idle" => job[t] = None
       /\ pc[t] # "idle" => job[t] \in Jobs
       /\ pc[t] \in {"replace", "move"} => job[t].kind = "equivalence"
       /\ pc[t] \in {"partial", "extend", "drop", "dropped"} => job[t].kind = "extend"

\* An entry is locked exactly while replaceContentAttr moves it, and nobody
\* erases it meanwhile.
LocksHeld ==
  \A t \in Tasks :
    /\ \A a \in Attrs : locked[a] = t <=> (pc[t] = "move" /\ job[t].from = a)
    /\ pc[t] = "move" => Cached(job[t].from)

\* The tasks that _activeTasks counts.
Busy == {t \in Tasks : pc[t] \notin {"idle", "notify", "done"}}

StateInv == TypeOK /\ RequestHeld /\ JobsFit /\ LocksHeld
FoldingInv == StateInv /\ ActiveTasksBounded

-----------------------------------------------------------------------------
\* There are finitely many tasks, so those _activeTasks counts have a number.
LEMMA BusyIsFinite == IsFiniteSet(Busy) /\ Cardinality(Busy) \in Nat
<1>1. IsFiniteSet(Tasks)
  BY BoundsAssumption, FS_Interval DEF Tasks
<1>2. IsFiniteSet(Busy)
  BY <1>1, FS_Subset DEF Busy
<1> QED BY <1>2, FS_CardinalityType

\* A remainder is a value of the counter.
LEMMA Wraps == \A n \in Int : n % MemoryWrap \in 0 .. MemoryWrap - 1
BY BoundsAssumption

\* What the configurations are assumed to be.
LEMMA ConfigFacts ==
  ASSUME config \in Configs
  PROVE  /\ Requests \subseteq Jobs
         /\ TerminationToken \notin Requests
         /\ \A r \in Requests : r.attr \in Attrs
         /\ MaxConcurrentTasks \in Nat \ {0} /\ MaxLookups \in Nat
         /\ MemoryUsageLimit \in Nat /\ CleanLevel \in 0 .. MemoryUsageLimit
<1>1. Requests \subseteq FoldingRequests
  BY ConfigsAssumption DEF Requests, Tasks
<1>2. FoldingRequests \subseteq Jobs
  BY DEF FoldingRequests, Jobs
<1>3. TerminationToken \notin FoldingRequests
  BY DEF TerminationToken, FoldingRequests
<1>4. \A r \in FoldingRequests : r.attr \in Attrs
  BY DEF FoldingRequests
<1>5. /\ MaxConcurrentTasks \in Nat \ {0} /\ MaxLookups \in Nat
      /\ MemoryUsageLimit \in Nat /\ CleanLevel \in 0 .. MemoryUsageLimit
  BY ConfigsAssumption DEF MaxConcurrentTasks, MaxLookups, MemoryUsageLimit, CleanLevel
<1> QED BY <1>1, <1>2, <1>3, <1>4, <1>5

\* The invariant holds initially.
LEMMA FoldingInit == Init => FoldingInv
<1> SUFFICES ASSUME Init PROVE FoldingInv
  OBVIOUS
<1> USE DEF Init
<1>1. None \notin Tasks
  BY NoneAssumption DEF Tasks
<1>2. TypeOK
  <2>1. config \in Configs /\ MaxLookups \in Nat /\ MaxRequests \in Nat /\ MemoryWrap \in Nat \ {0}
    BY ConfigFacts, BoundsAssumption
  <2>2. \A t \in Tasks : DOMAIN victims[t] \subseteq Attrs
    OBVIOUS
  <2> QED BY <2>1, <2>2 DEF TypeOK, Places
<1>3. RequestHeld /\ JobsFit
  BY DEF RequestHeld, JobsFit
<1>4. LocksHeld
  BY <1>1 DEF LocksHeld
<1>5. ActiveTasksBounded
  <2>1. {t \in Tasks : pc[t] \notin {"idle", "notify", "done"}} = {}
    OBVIOUS
  <2>2. Cardinality({t \in Tasks : pc[t] \notin {"idle", "notify", "done"}}) = 0
    BY <2>1, FS_EmptySet
  <2> QED BY <2>2, ConfigFacts DEF ActiveTasksBounded
<1> QED BY <1>2, <1>3, <1>4, <1>5 DEF FoldingInv, StateInv

\* What a step of the compiling thread, of the listener or a spurious wakeup
\* leaves alone.
LEMMA CompilerNext ==
  ASSUME FoldingInv, UNCHANGED config, CompilerStep \/ SpuriousWakeup \/ \E t \in Tasks : Crash(t)
  PROVE  StateInv'
<1> USE ConfigFacts, BoundsAssumption DEF FoldingInv, StateInv
<1> DEFINE Quiet == /\ UNCHANGED <<config, request, taskVars, active, memory>>
                    /\ listener' = listener \/ (listener = "asleep" /\ listener' = "check")
<1>1. Requests' = Requests /\ MaxLookups' = MaxLookups
  BY DEF Requests, MaxLookups
<1>2. ASSUME Quiet, compiler' \in {"compile", "reading", "join", "check", "blocking", "asleep", "destroyed", "crashed"},
             held' \in Tasks \cup {None}, sent' \in 0 .. MaxRequests, lookups' \in 0 .. MaxLookups,
             queue' \in Seq(Requests \cup {TerminationToken}),
             content' \in [Attrs -> [buffer : Tasks, refCount : Int] \cup {None}],
             \A a \in Attrs : ~Free(a) => content'[a] = content[a],
             locked' = locked, alive' \in BOOLEAN
      PROVE  StateInv'
  <2>1. TypeOK'
    BY <1>1, <1>2 DEF TypeOK, taskVars
  <2>2. RequestHeld' /\ JobsFit'
    BY <1>1, <1>2 DEF RequestHeld, JobsFit, taskVars
  <2>3. LocksHeld'
    <3>1. \A t \in Tasks : pc[t] = "move" => job[t].from \in Attrs /\ locked[job[t].from] = t
      BY DEF LocksHeld, JobsFit, Jobs
    <3>2. \A t \in Tasks : pc[t] = "move" => ~Free(job[t].from)
      BY <3>1, NoneAssumption DEF Free, Tasks
    <3> QED BY <3>1, <3>2, <1>2 DEF LocksHeld, taskVars, Cached
  <2> QED BY <2>1, <2>2, <2>3
<1>3. TypeOK /\ sent \in Int /\ lookups \in Int
  BY DEF TypeOK
<1> HIDE DEF Quiet
<1>4. ASSUME NEW r \in Requests, EnqueueRequest(r) PROVE StateInv'
  BY <1>4, <1>2, <1>3 DEF EnqueueRequest, Quiet, TypeOK, cacheVars
<1>5. ASSUME NEW a \in Attrs, GetContent(a) PROVE StateInv'
  <2>1. content[a] \in [buffer : Tasks, refCount : Int]
    BY <1>3, <1>5 DEF TypeOK, GetContent, Cached
  <2>2. [content[a] EXCEPT !.refCount = @ - 1] \in [buffer : Tasks, refCount : Int]
    BY <2>1
  <2>3. /\ content' \in [Attrs -> [buffer : Tasks, refCount : Int] \cup {None}]
        /\ \A b \in Attrs : ~Free(b) => content'[b] = content[b]
    BY <2>2, <1>3, <1>5 DEF TypeOK, GetContent
  <2>4. held' \in Tasks \cup {None}
    BY <1>5, <2>1 DEF GetContent
  <2>5. lookups' \in 0 .. MaxLookups /\ sent' \in 0 .. MaxRequests
    BY <1>5, <1>3 DEF GetContent, TypeOK
  <2>6. Quiet /\ compiler' = "reading" /\ queue' = queue /\ locked' = locked /\ alive' = alive
    BY <1>5 DEF GetContent, Quiet, listenerVars
  <2>7. queue \in Seq(Requests \cup {TerminationToken}) /\ alive \in BOOLEAN
    BY <1>3 DEF TypeOK
  <2> QED BY <1>2, <2>3, <2>4, <2>5, <2>6, <2>7
<1>6. ASSUME UseContent PROVE StateInv'
  BY <1>6, <1>2, <1>3 DEF UseContent, Quiet, TypeOK, cacheVars, listenerVars
<1>7. ASSUME StopFoldingListener PROVE StateInv'
  BY <1>7, <1>2, <1>3 DEF StopFoldingListener, Quiet, TypeOK, cacheVars
<1>8. ASSUME RemoveCache PROVE StateInv'
  BY <1>8, <1>2, <1>3 DEF RemoveCache, Quiet, TypeOK, listenerVars
<1>9. ASSUME DestructorWait PROVE StateInv'
  BY <1>9, <1>2, <1>3 DEF DestructorWait, Quiet, TypeOK, cacheVars, listenerVars
<1>10. ASSUME SpuriousWakeup PROVE StateInv'
  BY <1>10, <1>2, <1>3 DEF SpuriousWakeup, Quiet, TypeOK, cacheVars
<1>11. ASSUME NEW t \in Tasks, Crash(t) PROVE StateInv'
  BY <1>11, <1>2, <1>3 DEF Crash, Quiet, TypeOK, cacheVars, listenerVars
<1> QED BY <1>4, <1>5, <1>6, <1>7, <1>8, <1>9, <1>10, <1>11 DEF CompilerStep

\* The count of _activeTasks through a step that starts or completes no task.
LEMMA SameTasksCounted ==
  ASSUME FoldingInv, UNCHANGED <<config, active>>,
         \A t \in Tasks : pc'[t] \in {"idle", "notify", "done"} <=> pc[t] \in {"idle", "notify", "done"}
  PROVE  ActiveTasksBounded'
<1>1. {t \in Tasks : pc'[t] \notin {"idle", "notify", "done"}} = Busy
  BY DEF Busy
<1>2. active = Cardinality(Busy) /\ active <= MaxConcurrentTasks
  BY DEF FoldingInv, ActiveTasksBounded, Busy
<1> QED BY <1>1, <1>2 DEF ActiveTasksBounded, MaxConcurrentTasks

\* The listener keeps the invariant: it starts a task only while fewer than
\* _maxConcurrentTasks run, and counts it.
LEMMA ListenerNext ==
  ASSUME FoldingInv, UNCHANGED config, ListenerStep
  PROVE  FoldingInv'
<1> USE ConfigFacts, BoundsAssumption
<1>1. Requests' = Requests /\ MaxLookups' = MaxLookups
  BY DEF Requests, MaxLookups
<1>2. TypeOK /\ RequestHeld /\ JobsFit /\ LocksHeld /\ active \in Nat
  BY DEF FoldingInv, StateInv, TypeOK
<1>3. config \in Configs
  BY <1>2 DEF TypeOK
<1>4. ASSUME GetRequest PROVE FoldingInv'
  <2>1. Head(queue) \in Requests \cup {TerminationToken} /\ Tail(queue) \in Seq(Requests \cup {TerminationToken})
    BY <1>2, <1>4 DEF GetRequest, TypeOK
  <2>2. TypeOK'
    BY <1>1, <1>2, <1>4, <2>1 DEF GetRequest, TypeOK, compilerVars, taskVars, cacheVars
  <2>3. RequestHeld'
    BY <1>1, <1>4, <2>1 DEF GetRequest, RequestHeld
  <2>4. JobsFit' /\ LocksHeld'
    BY <1>2, <1>4 DEF GetRequest, JobsFit, LocksHeld, taskVars, cacheVars, Cached
  <2>5. ActiveTasksBounded'
    BY <1>4, SameTasksCounted DEF GetRequest, taskVars
  <2> QED BY <2>4, <2>5, <2>2, <2>3 DEF FoldingInv, StateInv
<1>5. ASSUME ListenerWait PROVE FoldingInv'
  <2>1. TypeOK'
    BY <1>1, <1>2, <1>5 DEF ListenerWait, TypeOK, compilerVars, taskVars, cacheVars
  <2>2. RequestHeld'
    BY <1>1, <1>2, <1>5 DEF ListenerWait, RequestHeld
  <2>3. JobsFit' /\ LocksHeld'
    BY <1>2, <1>5 DEF ListenerWait, JobsFit, LocksHeld, taskVars, cacheVars, Cached
  <2>4. ActiveTasksBounded'
    BY <1>5, SameTasksCounted DEF ListenerWait, taskVars
  <2> QED BY <2>3, <2>4, <2>1, <2>2 DEF FoldingInv, StateInv
<1>6. ASSUME NEW t \in Tasks, SubmitTask(t) PROVE FoldingInv'
  <2>1. request \in Requests /\ request \in Jobs
    BY <1>2, <1>3, <1>6 DEF SubmitTask, RequestHeld
  <2>2. pc[t] = "idle" /\ pc \in [Tasks -> Places] /\ DOMAIN job = Tasks /\ DOMAIN victims = Tasks
    BY <1>2, <1>6 DEF SubmitTask, TypeOK, JobsFit
  <2> DEFINE place == IF request.kind = "equivalence" THEN "replace" ELSE "look"
  <2>3. pc' = [pc EXCEPT ![t] = place] /\ job' = [job EXCEPT ![t] = request]
    BY <1>6 DEF SubmitTask
  <2>4. place \in {"replace", "look"} /\ (place = "replace" => request.kind = "equivalence")
    OBVIOUS
  <2>5. request' = None /\ listener' = "get" /\ UNCHANGED <<compilerVars, queue, victims, doomed, cacheVars>>
    BY <1>6 DEF SubmitTask
  <2> HIDE DEF place
  <2>6. active' = Cardinality(Busy \cup {t}) /\ active' \in Nat /\ active' <= MaxConcurrentTasks
    <3>1. t \notin Busy
      BY <2>2 DEF Busy
    <3>2. active = Cardinality(Busy)
      BY DEF FoldingInv, ActiveTasksBounded, Busy
    <3>3. Cardinality(Busy \cup {t}) = Cardinality(Busy) + 1
      BY <3>1, BusyIsFinite, FS_AddElement
    <3>4. active' = active + 1 /\ active < MaxConcurrentTasks
      BY <1>6 DEF SubmitTask, MayStartTask
    <3>5. MaxConcurrentTasks \in Nat
      BY <1>2 DEF TypeOK
    <3> QED BY <1>2, <3>2, <3>3, <3>4, <3>5
  <2>7. ActiveTasksBounded'
    <3>1. {u \in Tasks : pc'[u] \notin {"idle", "notify", "done"}} = Busy \cup {t}
      BY <2>2, <2>3, <2>4 DEF Busy
    <3> QED BY <3>1, <2>6 DEF ActiveTasksBounded, MaxConcurrentTasks
  <2>8. \A u \in Tasks \ {t} : pc'[u] = pc[u] /\ job'[u] = job[u]
    BY <2>2, <2>3
  <2>9. pc'[t] = place /\ job'[t] = request /\ DOMAIN job' = Tasks
    BY <2>2, <2>3
  <2>10. TypeOK'
    <3>1. pc' \in [Tasks -> Places]
      BY <2>2, <2>3, <2>4 DEF Places
    <3>2. \A u \in Tasks : job'[u] # None => job'[u].attr \in Attrs
      BY <1>2, <2>1, <2>8, <2>9 DEF TypeOK
    <3> QED BY <1>1, <1>2, <2>5, <2>6, <3>1, <3>2 DEF TypeOK, compilerVars, cacheVars
  <2>11. RequestHeld'
    BY <2>5 DEF RequestHeld
  <2>12. JobsFit'
    BY <1>2, <2>1, <2>2, <2>4, <2>5, <2>8, <2>9 DEF JobsFit
  <2>13. LocksHeld'
    BY <1>2, <2>2, <2>4, <2>5, <2>8, <2>9 DEF LocksHeld, cacheVars, Cached
  <2> QED BY <2>7, <2>10, <2>11, <2>12, <2>13 DEF FoldingInv, StateInv
<1> QED BY <1>4, <1>5, <1>6 DEF ListenerStep

Entries == [buffer : Tasks, refCount : Int]

\* What every step of task t does: it goes to a place that fits its request, and
\* leaves the other threads alone.
TaskMoves(t, place) ==
  /\ pc[t] # "idle" /\ place \in Places \ {"idle"}
  /\ pc' = [pc EXCEPT ![t] = place]
  /\ DOMAIN job' = Tasks /\ DOMAIN victims' = Tasks
  /\ \A u \in Tasks : u # t => job'[u] = job[u]
  /\ job'[t] \in Jobs /\ job'[t].from = job[t].from
  /\ place \in {"replace", "move"} => job'[t].kind = "equivalence"
  /\ place \in {"partial", "extend", "drop", "dropped"} => job'[t].kind = "extend"
  /\ \A u \in Tasks : DOMAIN victims'[u] \subseteq Attrs
  /\ doomed' \in [Tasks -> Attrs \cup {None}]
  /\ content' \in [Attrs -> Entries \cup {None}]
  /\ memory' \in 0 .. MemoryWrap - 1
  /\ alive' = alive

\* A step of a task that leaves the listener alone keeps the types.
LEMMA TaskKeepsTypes ==
  ASSUME FoldingInv, NEW t \in Tasks, NEW place, TaskMoves(t, place),
         UNCHANGED <<config, compilerVars, listenerVars>>,
         active' \in Nat, locked' \in [Attrs -> Tasks \cup {None}]
  PROVE  TypeOK' /\ RequestHeld' /\ JobsFit'
<1>1. TypeOK /\ RequestHeld /\ JobsFit
  BY DEF FoldingInv, StateInv
<1>2. Requests' = Requests /\ MaxLookups' = MaxLookups
  BY DEF Requests, MaxLookups
<1>3. pc \in [Tasks -> Places] /\ pc' = [pc EXCEPT ![t] = place] /\ place \in Places \ {"idle"}
  BY <1>1 DEF TaskMoves, TypeOK
<1>4. pc' \in [Tasks -> Places] /\ pc'[t] = place /\ \A u \in Tasks : u # t => pc'[u] = pc[u]
  BY <1>3
<1>5. \A u \in Tasks : u # t => job'[u] = job[u]
  BY DEF TaskMoves
<1>6. job'[t] \in Jobs /\ job'[t].attr \in Attrs
  BY DEF TaskMoves, Jobs
<1>7. JobsFit'
  BY <1>1, <1>3, <1>4, <1>5, <1>6 DEF TaskMoves, JobsFit
<1>8. RequestHeld'
  BY <1>1, <1>2 DEF RequestHeld, listenerVars
<1>9. \A u \in Tasks : job'[u] # None => job'[u].attr \in Attrs
  BY <1>1, <1>5, <1>6 DEF TypeOK
<1>10. TypeOK'
  BY <1>1, <1>2, <1>4, <1>9 DEF TypeOK, TaskMoves, Entries, compilerVars, listenerVars
<1> QED BY <1>7, <1>8, <1>10

\* A task that neither takes nor gives back a lock, and writes only entries that
\* nobody locks, keeps the locks right.
LEMMA TaskKeepsLocks ==
  ASSUME FoldingInv, NEW t \in Tasks, NEW place, TaskMoves(t, place),
         pc[t] # "move", place # "move", locked' = locked,
         \A a \in Attrs : ~Free(a) => content'[a] = content[a]
  PROVE  LocksHeld'
<1>1. TypeOK /\ JobsFit /\ LocksHeld
  BY DEF FoldingInv, StateInv
<1>2. pc \in [Tasks -> Places] /\ pc' = [pc EXCEPT ![t] = place]
  BY <1>1 DEF TypeOK, TaskMoves
<1>3. \A u \in Tasks : /\ pc'[u] = "move" <=> pc[u] = "move"
                       /\ job'[u].from = job[u].from
  BY <1>2 DEF TaskMoves
<1>4. \A u \in Tasks : pc[u] = "move" => job[u].from \in Attrs
  BY <1>1 DEF JobsFit, Jobs
<1>5. \A u \in Tasks : pc[u] = "move" => ~Free(job[u].from)
  BY <1>1, <1>4, NoneAssumption DEF LocksHeld, Free, Tasks
<1> QED BY <1>1, <1>3, <1>4, <1>5 DEF LocksHeld, Cached

\* A task that stays busy is still counted once.
LEMMA TaskKeepsCount ==
  ASSUME FoldingInv, NEW t \in Tasks, NEW place, TaskMoves(t, place),
         UNCHANGED <<config, active>>,
         pc[t] \in {"notify", "done"} <=> place \in {"notify", "done"}
  PROVE  ActiveTasksBounded'
<1>1. pc \in [Tasks -> Places] /\ pc' = [pc EXCEPT ![t] = place]
  BY DEF TypeOK, TaskMoves, FoldingInv, StateInv
<1>2. \A u \in Tasks : pc'[u] \in {"idle", "notify", "done"} <=> pc[u] \in {"idle", "notify", "done"}
  BY <1>1 DEF TaskMoves
<1> QED BY <1>2, SameTasksCounted

\* What is known of a task that was started.
LEMMA StartedTask ==
  ASSUME FoldingInv, NEW t \in Tasks, pc[t] # "idle"
  PROVE  /\ job[t] \in Jobs /\ job[t].attr \in Attrs
         /\ job[t].kind \in {"extend", "equivalence"} => job[t].from \in Attrs
         /\ DOMAIN job = Tasks /\ DOMAIN victims = Tasks
         /\ \A u \in Tasks : DOMAIN victims[u] \subseteq Attrs
         /\ doomed \in [Tasks -> Attrs \cup {None}]
         /\ content \in [Attrs -> Entries \cup {None}]
         /\ locked \in [Attrs -> Tasks \cup {None}]
         /\ memory \in 0 .. MemoryWrap - 1 /\ memory \in Int
         /\ active \in Nat
BY BoundsAssumption DEF FoldingInv, StateInv, TypeOK, JobsFit, Jobs, Entries

\* The steps that write neither the cache nor the data of the task.
LEMMA QuietTaskSteps ==
  ASSUME FoldingInv, UNCHANGED config, NEW t \in Tasks, NEW place,
         pc[t] # "idle", pc[t] # "move", place \in Places \ {"idle", "replace", "move"},
         place \in {"partial", "extend", "drop", "dropped"} => job[t].kind = "extend",
         pc[t] \in {"notify", "done"} <=> place \in {"notify", "done"},
         pc' = [pc EXCEPT ![t] = place],
         UNCHANGED <<compilerVars, listenerVars, active, locked, alive>>,
         DOMAIN job' = Tasks, \A u \in Tasks : u # t => job'[u] = job[u],
         job'[t] \in Jobs, job'[t].from = job[t].from,
         job'[t].kind = job[t].kind \/ place = "add",
         DOMAIN victims' = Tasks, \A u \in Tasks : DOMAIN victims'[u] \subseteq Attrs,
         doomed' \in [Tasks -> Attrs \cup {None}],
         content' \in [Attrs -> Entries \cup {None}],
         \A a \in Attrs : ~Free(a) => content'[a] = content[a],
         memory' \in 0 .. MemoryWrap - 1
  PROVE  FoldingInv'
<1>1. TaskMoves(t, place)
  BY DEF TaskMoves, JobsFit, StateInv, FoldingInv
<1>2. active' \in Nat /\ locked' \in [Attrs -> Tasks \cup {None}]
  BY StartedTask
<1>3. TypeOK' /\ RequestHeld' /\ JobsFit'
  BY <1>1, <1>2, TaskKeepsTypes
<1>4. LocksHeld'
  BY <1>1, TaskKeepsLocks
<1>5. ActiveTasksBounded'
  BY <1>1, TaskKeepsCount
<1> QED BY <1>3, <1>4, <1>5 DEF FoldingInv, StateInv

\* Looking results up keeps the invariant.
LEMMA LookingKeeps ==
  ASSUME FoldingInv, UNCHANGED config, NEW t \in Tasks,
         LookUp(t) \/ FindPartial(t) \/ TransformPartial(t)
  PROVE  FoldingInv'
<1>1. pc[t] \in {"look", "partial", "extend"}
  BY DEF LookUp, FindPartial, TransformPartial
<1>2. pc[t] \in {"partial", "extend"} => job[t].kind = "extend"
  BY DEF FoldingInv, StateInv, JobsFit
<1> DEFINE a == IF pc[t] = "look" THEN job[t].attr ELSE job[t].from
<1>3. a \in Attrs
  BY <1>1, <1>2, StartedTask
<1>5. CASE LookUp(t)
  <2>1. ASSUME NEW place, pc' = [pc EXCEPT ![t] = place], place \in {"finish", "partial", "add"},
               place = "partial" => job[t].kind = "extend",
               content' \in [Attrs -> Entries \cup {None}],
               \A b \in Attrs : ~Free(b) => content'[b] = content[b]
        PROVE  FoldingInv'
    BY <1>5, <2>1, StartedTask, QuietTaskSteps DEF LookUp, Places, taskVars
  <2>2. CASE Cached(job[t].attr)
    <3>1. /\ content' = [content EXCEPT ![a] = [content[a] EXCEPT !.refCount = content[a].refCount + 1]]
          /\ Free(a) /\ Cached(a)
      BY <1>5, <2>2 DEF LookUp
    <3>2. [content[a] EXCEPT !.refCount = content[a].refCount + 1] \in Entries
      BY <1>1, <1>3, <3>1, StartedTask DEF Entries, Cached
    <3> HIDE DEF a
    <3>4. content' \in [Attrs -> Entries \cup {None}] /\ \A b \in Attrs : ~Free(b) => content'[b] = content[b]
      BY <1>1, <1>3, <3>1, <3>2, StartedTask
    <3>3. pc' = [pc EXCEPT ![t] = "finish"]
      BY <1>5, <2>2 DEF LookUp, Goto
    <3> QED BY <2>1, <3>3, <3>4
  <2>3. CASE ~Cached(job[t].attr)
    <3>1. pc' = [pc EXCEPT ![t] = IF job[t].kind = "extend" THEN "partial" ELSE "add"] /\ content' = content
      BY <1>5, <2>3 DEF LookUp, Goto
    <3> QED BY <1>1, <2>1, <3>1, StartedTask
  <2> QED BY <2>2, <2>3
<1>6. CASE FindPartial(t)
  <2>1. pc[t] = "partial" /\ job[t].kind = "extend" /\ job[t] \in Jobs /\ job[t].from \in Attrs /\ Free(a) /\ a = job[t].from
    BY <1>2, <1>6, StartedTask DEF FindPartial
  <2>2. CASE Cached(a)
    <3>1. content' = [content EXCEPT ![a] = [content[a] EXCEPT !.refCount = content[a].refCount - 1]]
      BY <1>6, <2>1, <2>2 DEF FindPartial
    <3>2. [content[a] EXCEPT !.refCount = content[a].refCount - 1] \in Entries
      BY <1>3, <2>1, <2>2, StartedTask DEF Entries, Cached
    <3>3. content' \in [Attrs -> Entries \cup {None}] /\ \A b \in Attrs : ~Free(b) => content'[b] = content[b]
      BY <1>3, <2>1, <3>1, <3>2, StartedTask
    <3>4. pc' = [pc EXCEPT ![t] = "extend"] /\ job' = job
      BY <1>6, <2>1, <2>2 DEF FindPartial, Goto
    <3>5. UNCHANGED <<compilerVars, listenerVars, active, victims, doomed, locked, memory, alive>>
      BY <1>6 DEF FindPartial
    <3> QED BY <2>1, <3>3, <3>4, <3>5, StartedTask, QuietTaskSteps DEF Places
  <2>3. CASE ~Cached(a)
    <3>1. job' = [job EXCEPT ![t] = [job[t] EXCEPT !.kind = "fold"]]
      BY <1>6, <2>1, <2>3 DEF FindPartial
    <3>2. [job[t] EXCEPT !.kind = "fold"] \in Jobs /\ [job[t] EXCEPT !.kind = "fold"].from = job[t].from
      BY <2>1 DEF Jobs
    <3>3. /\ DOMAIN job' = Tasks /\ \A u \in Tasks : u # t => job'[u] = job[u]
          /\ job'[t] \in Jobs /\ job'[t].from = job[t].from
      BY <3>1, <3>2, <2>1, StartedTask
    <3>4. pc' = [pc EXCEPT ![t] = "add"] /\ content' = content
      BY <1>6, <2>1, <2>3 DEF FindPartial, Goto
    <3>5. UNCHANGED <<compilerVars, listenerVars, active, victims, doomed, locked, memory, alive>>
      BY <1>6 DEF FindPartial
    <3> QED BY <2>1, <3>3, <3>4, <3>5, StartedTask, QuietTaskSteps DEF Places
  <2> QED BY <2>2, <2>3
<1>7. CASE TransformPartial(t)
  BY <1>7, StartedTask, QuietTaskSteps DEF TransformPartial, Goto, Places, cacheVars
<1> QED BY <1>5, <1>6, <1>7

\* Storing a result and accounting for its size keep the invariant.
LEMMA AddingKeeps ==
  ASSUME FoldingInv, UNCHANGED config, NEW t \in Tasks,
         AddContent(t) \/ AddSize(t) \/ CleanUpCache(t)
  PROVE  FoldingInv'
<1>1. pc[t] \in {"add", "account", "limit"}
  BY DEF AddContent, AddSize, CleanUpCache
<1>2. job[t] \in Jobs /\ job[t].attr \in Attrs
  BY <1>1, StartedTask
<1>3. CASE AddContent(t)
  <2> DEFINE a == job[t].attr
             count == IF Cached(a) THEN content[a].refCount ELSE 1
  <2>1. [buffer |-> t, refCount |-> count] \in Entries
    BY <1>1, <1>2, StartedTask DEF Entries, Cached
  <2>2. content' = [content EXCEPT ![a] = [buffer |-> t, refCount |-> count]] /\ Free(a)
    BY <1>3 DEF AddContent
  <2> HIDE DEF a, count
  <2>3. content' \in [Attrs -> Entries \cup {None}] /\ \A b \in Attrs : ~Free(b) => content'[b] = content[b]
    BY <1>1, <1>2, <2>1, <2>2, StartedTask DEF a
  <2> QED BY <1>2, <1>3, <2>3, StartedTask, QuietTaskSteps DEF AddContent, Goto, Places
<1>4. CASE AddSize(t)
  <2>1. memory' \in 0 .. MemoryWrap - 1
    <3>1. memory + Size[job[t].attr] \in Int
      BY <1>1, <1>2, StartedTask, SizeAssumption
    <3> QED BY <1>4, <3>1, Wraps DEF AddSize
  <2> QED BY <1>2, <1>4, <2>1, StartedTask, QuietTaskSteps DEF AddSize, Goto, Places
<1>5. CASE CleanUpCache(t)
  <2>1. CASE IsMemoryLimitReached
    <3>1. /\ victims' = [victims EXCEPT ![t] = [a \in {b \in Attrs : Cached(b)} |-> content[a].refCount]]
          /\ pc' = [pc EXCEPT ![t] = "evict"]
      BY <1>5, <2>1 DEF CleanUpCache, Goto
    <3>2. DOMAIN victims' = Tasks /\ \A u \in Tasks : DOMAIN victims'[u] \subseteq Attrs
      BY <1>1, <3>1, StartedTask
    <3> QED BY <1>2, <1>5, <3>1, <3>2, StartedTask, QuietTaskSteps DEF CleanUpCache, Places, cacheVars
  <2>2. CASE ~IsMemoryLimitReached
    <3>1. UNCHANGED victims /\ pc' = [pc EXCEPT ![t] = AfterAdd(t)]
      BY <1>5, <2>2 DEF CleanUpCache, Goto
    <3>2. AfterAdd(t) \in {"drop", "finish"} /\ (AfterAdd(t) = "drop" => job[t].kind = "extend")
      BY DEF AfterAdd
    <3> QED BY <1>2, <1>5, <3>1, <3>2, StartedTask, QuietTaskSteps DEF CleanUpCache, Places, cacheVars
  <2> QED BY <2>1, <2>2
<1> QED BY <1>3, <1>4, <1>5

\* What removeContent does to the cache.
LEMMA EraseEffect ==
  ASSUME FoldingInv, NEW t \in Tasks, pc[t] # "idle", NEW a \in Attrs, NEW next, Erase(t, a, next)
  PROVE  /\ content' \in [Attrs -> Entries \cup {None}]
         /\ \A b \in Attrs : ~Free(b) => content'[b] = content[b]
         /\ doomed' \in [Tasks -> Attrs \cup {None}]
         /\ pc' = [pc EXCEPT ![t] = next]
BY StartedTask DEF Erase, Goto

\* Removing results from the cache keeps the invariant.
LEMMA RemovingKeeps ==
  ASSUME FoldingInv, UNCHANGED config, NEW t \in Tasks,
         EvictContent(t) \/ DropPartial(t) \/ SubtractSize(t) \/ IsClean(t)
  PROVE  FoldingInv'
<1>1. pc[t] \in {"evict", "drop", "evicted", "dropped", "cleaned"}
  BY DEF EvictContent, DropPartial, SubtractSize, IsClean
<1>2. /\ job[t] \in Jobs /\ job[t].attr \in Attrs
      /\ pc[t] \in {"drop", "dropped"} => job[t].kind = "extend" /\ job[t].from \in Attrs
  BY <1>1, StartedTask DEF FoldingInv, StateInv, JobsFit
<1>3. AfterAdd(t) \in {"drop", "finish"} /\ (AfterAdd(t) = "drop" => job[t].kind = "extend")
  BY DEF AfterAdd
<1>4. CASE EvictContent(t)
  <2>1. ASSUME NEW a \in DOMAIN victims[t],
               victims' = [victims EXCEPT ![t] = [b \in DOMAIN victims[t] \ {a} |-> victims[t][b]]],
               Erase(t, a, "evicted")
        PROVE  FoldingInv'
    <3>1. a \in Attrs
      BY <1>1, <2>1, StartedTask
    <3>2. DOMAIN victims' = Tasks /\ \A u \in Tasks : DOMAIN victims'[u] \subseteq Attrs
      BY <1>1, <2>1, StartedTask
    <3>3. UNCHANGED <<compilerVars, listenerVars, active, job, locked, memory, alive>>
      BY <1>4 DEF EvictContent
    <3>4. /\ content' \in [Attrs -> Entries \cup {None}]
          /\ \A b \in Attrs : ~Free(b) => content'[b] = content[b]
          /\ doomed' \in [Tasks -> Attrs \cup {None}]
          /\ pc' = [pc EXCEPT ![t] = "evicted"]
      BY <1>1, <2>1, <3>1, EraseEffect
    <3>5. pc[t] = "evict"
      BY <1>4 DEF EvictContent
    <3> QED BY <1>2, <3>2, <3>3, <3>4, <3>5, StartedTask, QuietTaskSteps DEF Places
  <2>2. CASE DOMAIN victims[t] = {} /\ Goto(t, AfterAdd(t)) /\ UNCHANGED <<victims, doomed, content>>
    BY <1>2, <1>3, <1>4, <2>2, StartedTask, QuietTaskSteps DEF EvictContent, Goto, Places
  <2> QED BY <1>4, <2>1, <2>2 DEF EvictContent
<1>5. CASE DropPartial(t)
  <2>1. /\ content' \in [Attrs -> Entries \cup {None}]
        /\ \A b \in Attrs : ~Free(b) => content'[b] = content[b]
        /\ doomed' \in [Tasks -> Attrs \cup {None}]
        /\ pc' = [pc EXCEPT ![t] = "dropped"]
    BY <1>2, <1>5, EraseEffect DEF DropPartial
  <2> QED BY <1>2, <1>5, <2>1, StartedTask, QuietTaskSteps DEF DropPartial, Places
<1>6. CASE SubtractSize(t)
  <2> DEFINE place == IF pc[t] = "evicted" THEN "cleaned" ELSE "finish"
  <2>1. doomed' \in [Tasks -> Attrs \cup {None}]
    BY <1>1, <1>6, StartedTask DEF SubtractSize
  <2>2. memory' \in 0 .. MemoryWrap - 1
    <3>1. CASE doomed[t] = None
      BY <1>1, <1>6, <3>1, StartedTask DEF SubtractSize
    <3>2. CASE doomed[t] # None
      <4>1. memory - Size[doomed[t]] \in Int
        BY <1>1, <3>2, StartedTask, SizeAssumption
      <4> QED BY <1>6, <3>2, <4>1, Wraps DEF SubtractSize
    <3> QED BY <3>1, <3>2
  <2>3. pc' = [pc EXCEPT ![t] = place] /\ pc[t] \in {"evicted", "dropped"}
    BY <1>6 DEF SubtractSize, Goto
  <2>4. UNCHANGED <<compilerVars, listenerVars, active, job, victims, content, locked, alive>>
    BY <1>6 DEF SubtractSize
  <2> QED BY <1>2, <2>3, <2>4, <2>1, <2>2, StartedTask, QuietTaskSteps DEF Places
<1>7. CASE IsClean(t)
  <2>1. ASSUME NEW place, pc' = [pc EXCEPT ![t] = place], place \in {"drop", "finish", "evict"},
               place = "drop" => job[t].kind = "extend",
               DOMAIN victims' = Tasks, \A u \in Tasks : DOMAIN victims'[u] \subseteq Attrs
        PROVE  FoldingInv'
    <3>1. pc[t] = "cleaned" /\ UNCHANGED <<compilerVars, listenerVars, active, job, doomed, cacheVars>>
      BY <1>7 DEF IsClean
    <3> QED BY <1>2, <2>1, <3>1, StartedTask, QuietTaskSteps DEF Places, cacheVars
  <2>2. CASE memory <= CleanLevel
    <3>1. victims' = [victims EXCEPT ![t] = << >>] \/ victims' = victims
      BY <1>7 DEF IsClean
    <3>2. DOMAIN victims' = Tasks /\ \A u \in Tasks : DOMAIN victims'[u] \subseteq Attrs
      BY <1>1, <3>1, StartedTask
    <3>3. pc' = [pc EXCEPT ![t] = AfterAdd(t)] \/ pc' = [pc EXCEPT ![t] = "evict"]
      BY <1>7 DEF IsClean, Goto
    <3> QED BY <1>3, <2>1, <3>2, <3>3
  <2>3. CASE ~(memory <= CleanLevel)
    <3>1. victims' = victims /\ pc' = [pc EXCEPT ![t] = "evict"]
      BY <1>7, <2>3 DEF IsClean, Goto
    <3> QED BY <1>1, <2>1, <3>1, StartedTask
  <2> QED BY <2>2, <2>3
<1> QED BY <1>4, <1>5, <1>6, <1>7

\* replaceContentAttr keeps the invariant: the entry it locks is the one it
\* erases, together with the lock.
LEMMA ReplacingKeeps ==
  ASSUME FoldingInv, UNCHANGED config, NEW t \in Tasks, LockOriginal(t) \/ MoveContent(t)
  PROVE  FoldingInv'
<1> DEFINE old == job[t].from
           new == job[t].attr
<1>1. pc[t] \in {"replace", "move"} /\ job[t] \in Jobs /\ job[t].kind = "equivalence"
  BY StartedTask DEF LockOriginal, MoveContent, FoldingInv, StateInv, JobsFit
<1>2. old \in Attrs /\ new \in Attrs
  BY <1>1, StartedTask
<1>3. pc \in [Tasks -> Places] /\ LocksHeld /\ None \notin Tasks
  BY NoneAssumption DEF FoldingInv, StateInv, TypeOK, Tasks
<1>4. UNCHANGED <<compilerVars, listenerVars, active, job, victims, doomed, memory, alive>>
  BY DEF LockOriginal, MoveContent
<1>5. ASSUME NEW place, pc' = [pc EXCEPT ![t] = place], place \in {"move", "look", "finish"},
             content' \in [Attrs -> Entries \cup {None}],
             locked' \in [Attrs -> Tasks \cup {None}], LocksHeld'
      PROVE  FoldingInv'
  <2>1. TaskMoves(t, place)
    BY <1>1, <1>4, <1>5, StartedTask DEF TaskMoves, Places
  <2>2. active' \in Nat
    BY <1>1, <1>4, StartedTask
  <2>3. TypeOK' /\ RequestHeld' /\ JobsFit'
    BY <1>4, <1>5, <2>1, <2>2, TaskKeepsTypes
  <2>4. ActiveTasksBounded'
    BY <1>1, <1>4, <1>5, <2>1, TaskKeepsCount
  <2> QED BY <1>5, <2>3, <2>4 DEF FoldingInv, StateInv
<1>6. \A u \in Tasks : u # t => (pc[u] = "move" => job[u].from \in Attrs /\ ~Free(job[u].from))
  <2> SUFFICES ASSUME NEW u \in Tasks, pc[u] = "move"
               PROVE  job[u].from \in Attrs /\ ~Free(job[u].from)
    OBVIOUS
  <2>1. job[u].from \in Attrs
    BY StartedTask DEF FoldingInv, StateInv, JobsFit
  <2> QED BY <1>3, <2>1 DEF LocksHeld, Free
<1> HIDE DEF old, new
<1>7. CASE LockOriginal(t)
  <2>1. pc[t] = "replace" /\ Free(old) /\ content' = content
    BY <1>7 DEF LockOriginal, old
  <2>2. CASE Cached(old)
    <3>1. locked' = [locked EXCEPT ![old] = t] /\ pc' = [pc EXCEPT ![t] = "move"]
      BY <1>7, <2>2 DEF LockOriginal, Goto, old
    <3>2. locked' \in [Attrs -> Tasks \cup {None}] /\ locked'[old] = t
          /\ \A a \in Attrs : a # old => locked'[a] = locked[a]
      BY <1>1, <1>2, <3>1, StartedTask
    <3>3. pc'[t] = "move" /\ \A u \in Tasks : u # t => pc'[u] = pc[u]
      BY <1>3, <3>1
    <3>4. \A a \in Attrs : locked[a] # t
      BY <1>3, <2>1 DEF LocksHeld
    <3>5. ASSUME NEW u \in Tasks PROVE /\ \A a \in Attrs : locked'[a] = u <=> (pc'[u] = "move" /\ job'[u].from = a)
                                       /\ pc'[u] = "move" => content'[job'[u].from] # None
      <4>1. CASE u = t
        BY <1>4, <2>1, <2>2, <3>2, <3>3, <3>4, <4>1 DEF old, Cached
      <4>2. CASE u # t
        BY <1>3, <1>4, <1>6, <2>1, <3>2, <3>3, <4>2 DEF LocksHeld, Free, Cached
      <4> QED BY <4>1, <4>2
    <3>6. LocksHeld'
      BY <3>5 DEF LocksHeld, Cached
    <3> QED BY <1>1, <1>5, <2>1, <3>1, <3>2, <3>6, StartedTask
  <2>3. CASE ~Cached(old)
    <3>1. locked' = locked /\ pc' = [pc EXCEPT ![t] = "look"]
      BY <1>7, <2>3 DEF LockOriginal, Goto, old
    <3>2. pc'[t] = "look" /\ \A u \in Tasks : u # t => pc'[u] = pc[u]
      BY <1>3, <3>1
    <3>3. LocksHeld'
      BY <1>3, <1>4, <2>1, <3>1, <3>2 DEF LocksHeld, Cached
    <3> QED BY <1>1, <1>5, <2>1, <3>1, <3>3, StartedTask
  <2> QED BY <2>2, <2>3
<1>8. CASE MoveContent(t)
  <2> DEFINE count == IF Cached(new) THEN content[new].refCount ELSE 1
             moved == [buffer |-> content[old].buffer, refCount |-> count]
  <2>1. pc[t] = "move" /\ Free(new) /\ pc' = [pc EXCEPT ![t] = "finish"]
    BY <1>8 DEF MoveContent, Goto, new
  <2>2. content' = [content EXCEPT ![new] = moved, ![old] = None] /\ locked' = [locked EXCEPT ![old] = None]
    BY <1>8 DEF MoveContent, new, old
  <2>3. Cached(old) /\ locked[old] = t
    BY <1>2, <1>3, <2>1 DEF LocksHeld, old
  <2>4. moved \in Entries
    BY <1>1, <1>2, <2>3, StartedTask DEF Entries, Cached
  <2> HIDE DEF moved
  <2>5. /\ content' \in [Attrs -> Entries \cup {None}]
        /\ \A a \in Attrs : a # old /\ a # new => content'[a] = content[a]
    BY <1>1, <1>2, <2>2, <2>4, StartedTask
  <2>6. locked' \in [Attrs -> Tasks \cup {None}] /\ locked'[old] = None
        /\ \A a \in Attrs : a # old => locked'[a] = locked[a]
    BY <1>1, <1>2, <2>2, StartedTask
  <2>7. pc'[t] = "finish" /\ \A u \in Tasks : u # t => pc'[u] = pc[u]
    BY <1>3, <2>1
  <2>8. ASSUME NEW u \in Tasks PROVE /\ \A a \in Attrs : locked'[a] = u <=> (pc'[u] = "move" /\ job'[u].from = a)
                                     /\ pc'[u] = "move" => content'[job'[u].from] # None
    <3>1. CASE u = t
      BY <1>2, <1>3, <1>4, <2>1, <2>6, <2>7, <3>1 DEF LocksHeld, old
    <3>2. CASE u # t
      <4>1. pc[u] = "move" => job[u].from # old /\ job[u].from # new
        BY <1>2, <1>3, <1>6, <2>1, <2>3, <3>2 DEF LocksHeld, Free
      <4> QED BY <1>2, <1>3, <1>4, <1>6, <2>3, <2>5, <2>6, <2>7, <3>2, <4>1 DEF LocksHeld, Cached
    <3> QED BY <3>1, <3>2
  <2>9. LocksHeld'
    BY <2>8 DEF LocksHeld, Cached
  <2> QED BY <1>5, <2>1, <2>5, <2>6, <2>9
<1> QED BY <1>7, <1>8

\* Completion keeps the invariant: the notifier counts the task off once, and
\* wakes whoever waits.
LEMMA CompletingKeeps ==
  ASSUME FoldingInv, UNCHANGED config, NEW t \in Tasks, Decrement(t) \/ NotifyOne(t)
  PROVE  FoldingInv'
<1>1. pc[t] \in {"finish", "notify"} /\ job[t] \in Jobs /\ pc \in [Tasks -> Places]
  BY StartedTask DEF Decrement, NotifyOne, FoldingInv, StateInv, TypeOK
<1>2. UNCHANGED <<held, sent, lookups, queue, request, job, victims, doomed, cacheVars>>
  BY DEF Decrement, NotifyOne, compilerVars, listenerVars
<1> DEFINE place == IF pc[t] = "finish" THEN "notify" ELSE "done"
<1>3. pc' = [pc EXCEPT ![t] = place] /\ place \in {"notify", "done"}
  BY DEF Decrement, NotifyOne, Goto
<1> HIDE DEF place
<1>4. TaskMoves(t, place)
  BY <1>1, <1>2, <1>3, StartedTask DEF TaskMoves, Places, cacheVars
<1>5. LocksHeld'
  BY <1>1, <1>2, <1>3, <1>4, TaskKeepsLocks DEF cacheVars
<1>6. CASE Decrement(t)
  <2>1. pc[t] = "finish" /\ active' = active - 1 /\ UNCHANGED <<compilerVars, listenerVars>>
    BY <1>6 DEF Decrement
  <2>2. active = Cardinality(Busy) /\ active <= MaxConcurrentTasks
    BY DEF FoldingInv, ActiveTasksBounded, Busy
  <2>3. t \in Busy
    BY <2>1 DEF Busy
  <2>4. Cardinality(Busy \ {t}) = active - 1 /\ Cardinality(Busy \ {t}) \in Nat
    <3>1. IsFiniteSet(Busy \ {t}) /\ Cardinality(Busy \ {t}) = Cardinality(Busy) - 1
      BY <2>3, BusyIsFinite, FS_RemoveElement
    <3> QED BY <2>2, <3>1, FS_CardinalityType
  <2>5. {u \in Tasks : pc'[u] \notin {"idle", "notify", "done"}} = Busy \ {t}
    BY <1>1, <1>3 DEF Busy
  <2>6. MaxConcurrentTasks \in Nat
    BY ConfigFacts DEF FoldingInv, StateInv, TypeOK
  <2>7. ActiveTasksBounded'
    <3>1. active' <= MaxConcurrentTasks /\ active' = Cardinality(Busy \ {t})
      BY <2>1, <2>2, <2>4, <2>6, BusyIsFinite
    <3>2. MaxConcurrentTasks' = MaxConcurrentTasks
      BY DEF MaxConcurrentTasks
    <3> QED BY <2>5, <3>1, <3>2 DEF ActiveTasksBounded
  <2>8. TypeOK' /\ RequestHeld' /\ JobsFit'
    BY <1>1, <1>2, <1>4, <2>1, <2>4, TaskKeepsTypes, StartedTask DEF cacheVars
  <2> QED BY <1>5, <2>7, <2>8 DEF FoldingInv, StateInv
<1>7. CASE NotifyOne(t)
  <2>1. pc[t] = "notify" /\ active' = active
        /\ listener' = (IF listener = "asleep" THEN "check" ELSE listener)
        /\ compiler' = (IF compiler = "asleep" THEN "check" ELSE compiler)
    BY <1>7 DEF NotifyOne
  <2>2. ActiveTasksBounded'
    BY <1>3, <1>4, <2>1, TaskKeepsCount
  <2>3. Requests' = Requests /\ MaxLookups' = MaxLookups
    BY DEF Requests, MaxLookups
  <2>4. TypeOK /\ RequestHeld /\ JobsFit
    BY DEF FoldingInv, StateInv
  <2>5. pc' \in [Tasks -> Places] /\ pc'[t] = place /\ \A u \in Tasks : u # t => pc'[u] = pc[u]
    BY <1>1, <1>3 DEF Places
  <2>6. TypeOK'
    BY <1>2, <2>1, <2>3, <2>4, <2>5 DEF TypeOK, cacheVars
  <2>7. RequestHeld'
    BY <1>2, <2>1, <2>3, <2>4 DEF RequestHeld
  <2>8. JobsFit'
    BY <1>1, <1>2, <1>3, <2>4, <2>5 DEF JobsFit
  <2> QED BY <1>5, <2>2, <2>6, <2>7, <2>8 DEF FoldingInv, StateInv
<1> QED BY <1>6, <1>7

\* Every step keeps the invariant.
LEMMA FoldingNext == FoldingInv /\ [Next]_vars => FoldingInv'
<1>1. ASSUME FoldingInv, Next PROVE FoldingInv'
  <2>1. UNCHANGED config
    BY <1>1 DEF Next
  <2>2. CASE CompilerStep \/ SpuriousWakeup \/ \E t \in Tasks : Crash(t)
    <3>1. StateInv'
      BY <1>1, <2>1, <2>2, CompilerNext
    <3>2. UNCHANGED <<pc, active>>
      BY <2>2 DEF CompilerStep, SpuriousWakeup, Crash, EnqueueRequest, GetContent, UseContent,
                  StopFoldingListener, RemoveCache, DestructorWait, taskVars
    <3>3. ActiveTasksBounded'
      BY <1>1, <2>1, <3>2, SameTasksCounted
    <3> QED BY <3>1, <3>3 DEF FoldingInv
  <2>3. CASE ListenerStep
    BY <1>1, <2>1, <2>3, ListenerNext
  <2>4. ASSUME NEW t \in Tasks, TaskStep(t) PROVE FoldingInv'
    BY <1>1, <2>1, <2>4, LookingKeeps, AddingKeeps, RemovingKeeps, ReplacingKeeps, CompletingKeeps
       DEF TaskStep
  <2> QED BY <1>1, <2>2, <2>3, <2>4 DEF Next
<1>2. ASSUME FoldingInv, UNCHANGED vars PROVE FoldingInv'
  BY <1>2 DEF FoldingInv, StateInv, TypeOK, RequestHeld, JobsFit, LocksHeld, ActiveTasksBounded, Cached,
              Requests, MaxConcurrentTasks, MaxLookups, vars, compilerVars, listenerVars, taskVars, cacheVars
<1> QED BY <1>1, <1>2

\* The folding threads and the cache only ever hold the values TypeOK lists.
THEOREM TypeCorrect == Spec => []TypeOK
<1>1. FoldingInv => TypeOK
  BY DEF FoldingInv, StateInv
<1> QED BY <1>1, FoldingInit, FoldingNext, PTL DEF Spec

\* _activeTasks counts the running tasks exactly, and they are never more than
\* _maxConcurrentTasks: whatever the requests, in every interleaving.
THEOREM ActiveCorrect == Spec => []ActiveTasksBounded
<1>1. FoldingInv => ActiveTasksBounded
  BY DEF FoldingInv
<1> QED BY <1>1, FoldingInit, FoldingNext, PTL DEF Spec

-----------------------------------------------------------------------------
(***************************************************************************)
(* _memoryUsedCache with one folding thread.                               *)
(***************************************************************************)
Stored(cache) == {a \in Attrs : cache[a] # None}
StoredSize(cache) == Sum(Size, Stored(cache))

\* The size of the stored constants is a natural, 0 if there are none, and changes by
\* the size of the constant that is stored or removed.
LEMMA StoredSizes ==
  /\ \A c : StoredSize(c) \in Nat /\ (Stored(c) = {} => StoredSize(c) = 0)
  /\ \A c, d : Stored(c) = Stored(d) => StoredSize(c) = StoredSize(d)
  /\ \A c, d, a : (a \in Attrs /\ a \notin Stored(c) /\ Stored(d) = Stored(c) \cup {a})
                    => StoredSize(d) = StoredSize(c) + Size[a]
<1>1. \A c : IsFiniteSet(Stored(c)) /\ Stored(c) \subseteq Attrs
  BY SizeAssumption, FS_Subset DEF Stored
<1>2. \A a \in Attrs : Size[a] \in Nat
  BY SizeAssumption
<1>3. \A c : StoredSize(c) \in Nat
  BY <1>1, <1>2, SumOfNaturals DEF StoredSize
<1>4. \A c : Stored(c) = {} => StoredSize(c) = 0
  BY SumEmpty DEF StoredSize
<1>5. \A c, d : Stored(c) = Stored(d) => StoredSize(c) = StoredSize(d)
  BY DEF StoredSize
<1>6. ASSUME NEW c, NEW d, NEW a \in Attrs, a \notin Stored(c), Stored(d) = Stored(c) \cup {a}
      PROVE  StoredSize(d) = StoredSize(c) + Size[a]
  <2>1. \A x \in Stored(c) \cup {a} : Size[x] \in Int
    BY <1>1, <1>2
  <2>2. Sum(Size, Stored(c) \cup {a}) = Sum(Size, Stored(c)) + Size[a]
    BY <1>1, <1>6, <2>1, SumAdd
  <2> QED BY <1>6, <2>2 DEF StoredSize
<1> QED BY <1>3, <1>4, <1>5, <1>6

\* What the counter of one folding thread depends on: no equivalences, which
\* replaceContentAttr serves without touching _memoryUsedCache (no pass asks for
\* one); a threshold below 1 (the default is 0.8); and a limit that leaves room in a
\* size_t for the constant that exceeds it.
LimitsFit ==
  /\ NoEquivalence
  /\ CleanLevel < MemoryUsageLimit
  /\ \A a \in Attrs : MemoryUsageLimit + Size[a] <= MemoryWrap

\* Only a task that has erased an entry still has a size to subtract.
DoomedWaits == \A t \in Tasks : doomed[t] # None => pc[t] \in {"evicted", "dropped"}

Cleaning == {"evict", "evicted", "cleaned"}

\* Where the counter is behind or ahead of the cache, by the place of the only task.
Accounted(t) ==
  /\ pc[t] \in {"partial", "extend", "add"} => ~Cached(job[t].attr)
  /\ pc[t] = "account" => Cached(job[t].attr) /\ memory + Size[job[t].attr] = StoredSize(content)
  /\ doomed[t] # None => memory = StoredSize(content) + Size[doomed[t]]
  /\ pc[t] # "account" /\ doomed[t] = None => memory = StoredSize(content)
  /\ pc[t] \in Cleaning => \A a \in Attrs : Cached(a) => a \in DOMAIN victims[t]
  /\ pc[t] \notin Cleaning \cup {"limit"} => memory < MemoryUsageLimit

Settled == memory = StoredSize(content) /\ memory < MemoryUsageLimit

OneAccount ==
  (MaxConcurrentTasks = 1 /\ LimitsFit) =>
    /\ \A t \in Tasks : pc[t] # "idle" => job[t].kind # "equivalence"
    /\ \A t \in Tasks : UsesCache(t) => Accounted(t)
    /\ CacheSettled => Settled

AccountInv == FoldingInv /\ DoomedWaits /\ OneAccount

\* With one folding thread, a running task is the only one.
LEMMA OnlyTask ==
  ASSUME FoldingInv, MaxConcurrentTasks = 1, NEW t \in Busy
  PROVE  \A u \in Tasks : u # t => u \notin Busy
<1>1. Cardinality(Busy) <= 1
  BY DEF FoldingInv, ActiveTasksBounded, Busy
<1>2. ASSUME NEW u \in Busy, u # t PROVE FALSE
  <2>1. IsFiniteSet(Busy \ {t}) /\ Cardinality(Busy \ {t}) = Cardinality(Busy) - 1
    BY BusyIsFinite, FS_RemoveElement
  <2>2. Cardinality(Busy \ {t}) = 0
    BY <1>1, <2>1, BusyIsFinite, FS_CardinalityType
  <2>3. Busy \ {t} = {}
    BY <2>1, <2>2, FS_EmptySet
  <2> QED BY <1>2, <2>3
<1> QED BY <1>2

\* The cache starts empty, and so does the counter.
LEMMA AccountInit == Init => AccountInv
<1> SUFFICES ASSUME Init PROVE AccountInv
  OBVIOUS
<1>1. FoldingInv
  BY FoldingInit
<1>2. DoomedWaits /\ \A t \in Tasks : pc[t] = "idle" /\ ~UsesCache(t)
  BY DEF Init, DoomedWaits, UsesCache
<1>3. memory = StoredSize(content)
  <2>1. Stored(content) = {}
    BY DEF Init, Stored
  <2> QED BY <2>1, StoredSizes DEF Init
<1>4. LimitsFit => memory < MemoryUsageLimit
  <2>1. config \in Configs
    BY DEF Init
  <2> QED BY <2>1, ConfigFacts DEF Init, LimitsFit
<1> QED BY <1>1, <1>2, <1>3, <1>4 DEF AccountInv, OneAccount, Settled

\* The settings do not change.
LEMMA SettingsStay ==
  ASSUME UNCHANGED config
  PROVE  /\ LimitsFit' <=> LimitsFit
         /\ MaxConcurrentTasks' = MaxConcurrentTasks
         /\ MemoryUsageLimit' = MemoryUsageLimit /\ CleanLevel' = CleanLevel
BY DEF MaxConcurrentTasks, LimitsFit, NoEquivalence, Requests, CleanLevel, MemoryUsageLimit

\* A step that starts no task, works on no entry and leaves the counter alone.
LEMMA AccountUntouched ==
  ASSUME AccountInv, FoldingInv', UNCHANGED <<config, job, victims, doomed, memory>>,
         \A u \in Tasks : pc'[u] = pc[u] \/ (pc[u] \in {"finish", "notify"} /\ pc'[u] \in {"notify", "done"}),
         \A a \in Attrs : content'[a] # None <=> content[a] # None
  PROVE  AccountInv'
<1>1. Stored(content') = Stored(content)
  BY DEF Stored
<1>2. StoredSize(content') = StoredSize(content)
  BY <1>1, StoredSizes
<1>3. \A u \in Tasks : UsesCache(u)' <=> UsesCache(u)
  BY DEF UsesCache
<1>4. \A u \in Tasks : UsesCache(u) => pc'[u] = pc[u]
  BY DEF UsesCache
<1>5. DoomedWaits'
  BY DEF AccountInv, DoomedWaits
<1>6. ASSUME MaxConcurrentTasks = 1, LimitsFit
      PROVE  /\ \A t \in Tasks : pc'[t] # "idle" => job'[t].kind # "equivalence"
             /\ \A t \in Tasks : UsesCache(t)' => Accounted(t)'
             /\ (CacheSettled => Settled)'
  <2>1. /\ \A t \in Tasks : pc[t] # "idle" => job[t].kind # "equivalence"
        /\ \A t \in Tasks : UsesCache(t) => Accounted(t)
        /\ CacheSettled => Settled
    BY <1>6 DEF AccountInv, OneAccount
  <2>2. \A t \in Tasks : UsesCache(t)' => Accounted(t)'
    <3> SUFFICES ASSUME NEW t \in Tasks, UsesCache(t)' PROVE Accounted(t)'
      OBVIOUS
    <3>1. Accounted(t) /\ pc'[t] = pc[t] /\ job[t].attr \in Attrs
      <4>1. UsesCache(t) /\ pc[t] # "idle"
        BY <1>3 DEF UsesCache
      <4> QED BY <1>4, <2>1, <4>1, StartedTask DEF AccountInv
    <3> QED BY <1>2, <3>1 DEF Accounted, Cached, MemoryUsageLimit
  <2>3. (CacheSettled => Settled)'
    BY <1>2, <1>3, <2>1 DEF CacheSettled, Settled, MemoryUsageLimit
  <2>4. \A t \in Tasks : pc'[t] # "idle" => job'[t].kind # "equivalence"
    BY <2>1
  <2> QED BY <2>2, <2>3, <2>4
<1>7. OneAccount'
  BY <1>6, SettingsStay DEF OneAccount
<1> QED BY <1>5, <1>7 DEF AccountInv

\* The listener starts a task only when no other works on the cache.
LEMMA AccountSubmit ==
  ASSUME AccountInv, FoldingInv', UNCHANGED config, NEW t \in Tasks, SubmitTask(t)
  PROVE  AccountInv'
<1> DEFINE place == IF request.kind = "equivalence" THEN "replace" ELSE "look"
<1>1. /\ pc[t] = "idle" /\ active < MaxConcurrentTasks /\ listener = "check"
      /\ pc' = [pc EXCEPT ![t] = place] /\ job' = [job EXCEPT ![t] = request]
      /\ UNCHANGED <<victims, doomed, content, memory>>
  BY DEF SubmitTask, MayStartTask, cacheVars
<1>2. FoldingInv /\ DoomedWaits /\ OneAccount /\ request \in Requests
  BY <1>1 DEF AccountInv, FoldingInv, StateInv, RequestHeld
<1>3. pc \in [Tasks -> Places] /\ DOMAIN job = Tasks
  BY <1>2 DEF FoldingInv, StateInv, TypeOK, JobsFit
<1> HIDE DEF place
<1>4. /\ pc'[t] = place /\ job'[t] = request
      /\ \A u \in Tasks : u # t => pc'[u] = pc[u] /\ job'[u] = job[u]
  BY <1>1, <1>3
<1>5. doomed[t] = None
  BY <1>1, <1>2 DEF DoomedWaits
<1>6. DoomedWaits'
  BY <1>1, <1>2, <1>4, <1>5 DEF DoomedWaits
<1>7. ASSUME MaxConcurrentTasks = 1, LimitsFit
      PROVE  /\ \A u \in Tasks : pc'[u] # "idle" => job'[u].kind # "equivalence"
             /\ \A u \in Tasks : UsesCache(u)' => Accounted(u)'
             /\ (CacheSettled => Settled)'
  <2>1. Busy = {}
    <3>1. active = Cardinality(Busy)
      BY <1>2 DEF FoldingInv, ActiveTasksBounded, Busy
    <3>2. Cardinality(Busy) = 0
      BY <1>1, <1>7, <3>1, BusyIsFinite
    <3> QED BY <3>2, BusyIsFinite, FS_EmptySet
  <2>2. CacheSettled
    BY <2>1 DEF CacheSettled, UsesCache, Busy
  <2>3. Settled
    BY <1>2, <1>7, <2>2 DEF OneAccount
  <2>4. request.kind # "equivalence" /\ place = "look"
    BY <1>2, <1>7 DEF LimitsFit, NoEquivalence, place
  <2>5. \A u \in Tasks : u # t => ~UsesCache(u)'
    BY <1>4, <2>2 DEF CacheSettled, UsesCache
  <2>6. Accounted(t)'
    BY <1>1, <1>4, <1>5, <2>3, <2>4 DEF Accounted, Settled, Cleaning, MemoryUsageLimit
  <2>7. ~CacheSettled'
    BY <1>4, <2>4 DEF CacheSettled, UsesCache
  <2>8. \A u \in Tasks : pc'[u] # "idle" => job'[u].kind # "equivalence"
    BY <1>2, <1>4, <1>7, <2>4 DEF OneAccount
  <2> QED BY <2>5, <2>6, <2>7, <2>8
<1>8. OneAccount'
  BY <1>7, SettingsStay DEF OneAccount
<1> QED BY <1>6, <1>8 DEF AccountInv

\* A step of a task that works on the cache: only its own account matters.
LEMMA AccountTask ==
  ASSUME AccountInv, FoldingInv', UNCHANGED config, NEW t \in Busy, NEW place,
         pc' = [pc EXCEPT ![t] = place], place # "idle",
         \A u \in Tasks : u # t => job'[u] = job[u],
         job'[t].kind = job[t].kind \/ job'[t].kind = "fold",
         DoomedWaits',
         (MaxConcurrentTasks = 1 /\ LimitsFit) =>
            IF place \in {"finish", "notify", "done"} THEN Settled' ELSE Accounted(t)'
  PROVE  AccountInv'
<1>1. t \in Tasks /\ FoldingInv /\ OneAccount /\ pc \in [Tasks -> Places] /\ pc[t] # "idle"
  BY DEF Busy, AccountInv, FoldingInv, StateInv, TypeOK
<1>2. pc'[t] = place /\ \A u \in Tasks : u # t => pc'[u] = pc[u]
  BY <1>1
<1>3. ASSUME MaxConcurrentTasks = 1, LimitsFit
      PROVE  /\ \A u \in Tasks : pc'[u] # "idle" => job'[u].kind # "equivalence"
             /\ \A u \in Tasks : UsesCache(u)' => Accounted(u)'
             /\ (CacheSettled => Settled)'
  <2>1. \A u \in Tasks : u # t => ~UsesCache(u)'
    BY <1>1, <1>2, <1>3, OnlyTask DEF UsesCache, Busy
  <2>2. \A u \in Tasks : pc[u] # "idle" => job[u].kind # "equivalence"
    BY <1>1, <1>3 DEF OneAccount
  <2>3. \A u \in Tasks : pc'[u] # "idle" => job'[u].kind # "equivalence"
    BY <1>1, <1>2, <2>2
  <2>4. UsesCache(t)' <=> place \notin {"finish", "notify", "done"}
    BY <1>2 DEF UsesCache
  <2>5. UsesCache(t)' => Accounted(t)'
    BY <1>3, <2>4
  <2>6. ~UsesCache(t)' => Settled'
    BY <1>3, <2>4
  <2> QED BY <1>1, <2>1, <2>3, <2>5, <2>6 DEF CacheSettled
<1>4. OneAccount'
  BY <1>3, SettingsStay DEF OneAccount
<1> QED BY <1>4 DEF AccountInv

\* What is known of the only task before it works on the cache.
LEMMA OwnAccount ==
  ASSUME AccountInv, NEW t \in Tasks, pc[t] # "idle"
  PROVE  /\ t \in Busy <=> pc[t] \notin {"notify", "done"}
         /\ job[t] \in Jobs /\ job[t].attr \in Attrs
         /\ job[t].kind = "extend" => job[t].from \in Attrs
         /\ (MaxConcurrentTasks = 1 /\ LimitsFit /\ UsesCache(t)) => Accounted(t)
         /\ memory \in Nat /\ StoredSize(content) \in Nat
         /\ \A a \in Attrs : Size[a] \in Nat
         /\ doomed \in [Tasks -> Attrs \cup {None}]
         /\ pc[t] \notin {"evicted", "dropped"} => doomed[t] = None
<1>1. FoldingInv /\ DoomedWaits /\ OneAccount
  BY DEF AccountInv
<1>2. memory \in Nat
  BY <1>1, StartedTask, BoundsAssumption
<1>3. t \in Busy <=> pc[t] \notin {"notify", "done"}
  BY DEF Busy
<1>4. (MaxConcurrentTasks = 1 /\ LimitsFit /\ UsesCache(t)) => Accounted(t)
  BY <1>1 DEF OneAccount
<1>5. pc[t] \notin {"evicted", "dropped"} => doomed[t] = None
  BY <1>1 DEF DoomedWaits
<1>6. \A a \in Attrs : Size[a] \in Nat
  BY SizeAssumption
<1> QED BY <1>1, <1>2, <1>3, <1>4, <1>5, <1>6, StartedTask, StoredSizes

\* Looking a result up changes nothing that is counted.
LEMMA AccountLook ==
  ASSUME AccountInv, FoldingInv', UNCHANGED config, NEW t \in Tasks,
         LookUp(t) \/ FindPartial(t) \/ TransformPartial(t)
  PROVE  AccountInv'
<1>1. /\ pc[t] \in {"look", "partial", "extend"} /\ UNCHANGED <<victims, doomed, memory>>
  BY DEF LookUp, FindPartial, TransformPartial, cacheVars
<1>2. UsesCache(t) /\ t \in Busy /\ job[t].attr \in Attrs /\ FoldingInv
  BY <1>1, OwnAccount DEF UsesCache, AccountInv
<1>3. /\ pc[t] \in {"partial", "extend"} => job[t].kind = "extend" /\ job[t].from \in Attrs
      /\ DOMAIN job = Tasks /\ content \in [Attrs -> Entries \cup {None}]
      /\ pc \in [Tasks -> Places]
  BY <1>1, <1>2, StartedTask DEF FoldingInv, StateInv, JobsFit, TypeOK
<1>4. \A a \in Attrs : content'[a] # None <=> content[a] # None
  <2>1. content' \in [Attrs -> Entries \cup {None}] /\ None \notin Entries
    BY NoneAssumption DEF FoldingInv, StateInv, TypeOK, Entries, Tasks
  <2>2. CASE LookUp(t) /\ Cached(job[t].attr)
    <3>1. content' = [content EXCEPT ![job[t].attr] = [content[job[t].attr] EXCEPT !.refCount = content[job[t].attr].refCount + 1]]
      BY <2>2 DEF LookUp
    <3>2. content[job[t].attr] \in Entries
      BY <1>2, <1>3, <2>2 DEF Cached
    <3>3. [content[job[t].attr] EXCEPT !.refCount = content[job[t].attr].refCount + 1] \in Entries
      BY <3>2 DEF Entries
    <3> QED BY <1>2, <1>3, <2>1, <3>1, <3>2, <3>3
  <2>3. CASE FindPartial(t) /\ Cached(job[t].from)
    <3>1. content' = [content EXCEPT ![job[t].from] = [content[job[t].from] EXCEPT !.refCount = content[job[t].from].refCount - 1]]
      BY <2>3 DEF FindPartial
    <3>2. content[job[t].from] \in Entries
      BY <1>3, <2>3 DEF Cached, FindPartial
    <3>3. [content[job[t].from] EXCEPT !.refCount = content[job[t].from].refCount - 1] \in Entries
      BY <3>2 DEF Entries
    <3> QED BY <1>2, <1>3, <2>1, <2>3, <3>1, <3>2, <3>3 DEF FindPartial
  <2>4. CASE content' = content
    BY <2>4
  <2> QED BY <2>2, <2>3, <2>4 DEF LookUp, FindPartial, TransformPartial, cacheVars
<1>5. StoredSize(content') = StoredSize(content)
  <2> Stored(content') = Stored(content)
    BY <1>4 DEF Stored
  <2> QED BY StoredSizes
<1>6. PICK place \in {"finish", "partial", "add", "extend"} :
        /\ pc' = [pc EXCEPT ![t] = place]
        /\ pc[t] = "look" => (place = "finish" \/ ~Cached(job[t].attr))
        /\ pc[t] # "look" => place # "finish"
  BY <1>1 DEF LookUp, FindPartial, TransformPartial, Goto
<1>7. /\ \A u \in Tasks : u # t => job'[u] = job[u]
      /\ job'[t].kind = job[t].kind \/ job'[t].kind = "fold"
      /\ job'[t].attr = job[t].attr
  <2>1. job' = job \/ job' = [job EXCEPT ![t] = [job[t] EXCEPT !.kind = "fold"]]
    BY DEF LookUp, FindPartial, TransformPartial
  <2>2. job[t] \in Jobs
    BY <1>1, OwnAccount
  <2>3. [job[t] EXCEPT !.kind = "fold"].kind = "fold" /\ [job[t] EXCEPT !.kind = "fold"].attr = job[t].attr
    BY <2>2 DEF Jobs
  <2> QED BY <1>3, <2>1, <2>3
<1>8. pc'[t] = place /\ \A u \in Tasks : u # t => pc'[u] = pc[u]
  BY <1>3, <1>6
<1>9. DoomedWaits'
  BY <1>1, <1>8 DEF DoomedWaits, AccountInv
<1>10. ASSUME MaxConcurrentTasks = 1, LimitsFit
       PROVE  IF place \in {"finish", "notify", "done"} THEN Settled' ELSE Accounted(t)'
  <2>1. Accounted(t) /\ doomed[t] = None
    BY <1>1, <1>2, <1>10, OwnAccount
  <2>2. memory = StoredSize(content) /\ memory < MemoryUsageLimit
    BY <1>1, <2>1 DEF Accounted, Cleaning
  <2>3. place # "finish" => ~Cached(job[t].attr)
    BY <1>1, <1>6, <2>1 DEF Accounted
  <2>4. Settled'
    BY <1>1, <1>5, <2>2, SettingsStay DEF Settled
  <2>5. place # "finish" => Accounted(t)'
    BY <1>1, <1>2, <1>4, <1>5, <1>7, <1>8, <2>1, <2>2, <2>3, SettingsStay DEF Accounted, Cleaning, Cached
  <2> QED BY <2>4, <2>5
<1> QED BY <1>2, <1>6, <1>7, <1>9, <1>10, AccountTask

\* Storing a result: the entry is ahead of the counter until the size is added, which
\* cannot wrap around.
LEMMA AccountAdd ==
  ASSUME AccountInv, FoldingInv', UNCHANGED config, NEW t \in Tasks,
         AddContent(t) \/ AddSize(t) \/ CleanUpCache(t)
  PROVE  AccountInv'
<1>1. pc[t] \in {"add", "account", "limit"} /\ UNCHANGED <<job, doomed>>
  BY DEF AddContent, AddSize, CleanUpCache
<1>2. /\ t \in Busy /\ UsesCache(t) /\ FoldingInv /\ job[t].attr \in Attrs
      /\ pc \in [Tasks -> Places] /\ doomed[t] = None
  BY <1>1, OwnAccount DEF UsesCache, AccountInv, FoldingInv, StateInv, TypeOK
<1>3. PICK place \in Places \ {"idle"} : pc' = [pc EXCEPT ![t] = place] /\ place \notin {"notify", "done"}
  BY ZenonT(60) DEF AddContent, AddSize, CleanUpCache, Goto, AfterAdd, Places
<1>4. pc'[t] = place /\ \A u \in Tasks : u # t => pc'[u] = pc[u]
  BY <1>2, <1>3
<1>5. DoomedWaits'
  BY <1>1, <1>4 DEF DoomedWaits, AccountInv
<1>6. ASSUME MaxConcurrentTasks = 1, LimitsFit
      PROVE  IF place \in {"finish", "notify", "done"} THEN Settled' ELSE Accounted(t)'
  <2>1. Accounted(t)
    BY <1>1, <1>2, <1>6, OwnAccount
  <2> DEFINE a == job[t].attr
  <2>2. CASE AddContent(t)
    <3>1. pc[t] = "add" /\ place = "account" /\ UNCHANGED <<memory, victims>>
      BY <1>2, <1>3, <2>2 DEF AddContent, Goto
    <3>2. ~Cached(a) /\ memory = StoredSize(content) /\ memory < MemoryUsageLimit
      BY <1>2, <2>1, <3>1 DEF Accounted, Cleaning
    <3>3. content' = [content EXCEPT ![a] = [buffer |-> t, refCount |-> 1]]
      BY <2>2, <3>2 DEF AddContent
    <3>4. content \in [Attrs -> Entries \cup {None}] /\ [buffer |-> t, refCount |-> 1] \in Entries
      BY <1>2 DEF FoldingInv, StateInv, TypeOK, Entries
    <3>5. content'[a] # None /\ \A b \in Attrs : b # a => content'[b] = content[b]
      BY <1>2, <3>3, <3>4, NoneAssumption DEF Entries, Tasks
    <3>6. StoredSize(content') = StoredSize(content) + Size[a]
      <4>1. Stored(content') = Stored(content) \cup {a} /\ a \notin Stored(content)
        BY <1>2, <3>2, <3>5 DEF Stored, Cached
      <4> QED BY <1>2, <4>1, StoredSizes
    <3> QED BY <1>1, <1>2, <1>4, <3>1, <3>2, <3>5, <3>6, SettingsStay DEF Accounted, Cached, Cleaning
  <2>3. CASE AddSize(t)
    <3>1. pc[t] = "account" /\ place = "limit" /\ UNCHANGED <<content, victims>>
      BY <1>2, <1>3, <2>3 DEF AddSize, Goto
    <3>2. memory + Size[a] = StoredSize(content) /\ memory < MemoryUsageLimit
      BY <1>2, <2>1, <3>1 DEF Accounted, Cleaning
    <3>3. memory + Size[a] \in 0 .. MemoryWrap - 1
      <4>1. memory \in Nat /\ Size[a] \in Nat /\ MemoryUsageLimit + Size[a] <= MemoryWrap /\ MemoryUsageLimit \in Nat
        BY <1>1, <1>2, <1>6, OwnAccount, ConfigFacts DEF LimitsFit, FoldingInv, StateInv, TypeOK
      <4> QED BY <3>2, <4>1, BoundsAssumption
    <3>4. memory' = memory + Size[a]
      BY <2>3, <3>3, BoundsAssumption DEF AddSize
    <3> QED BY <1>1, <1>2, <1>4, <3>1, <3>2, <3>4, SettingsStay DEF Accounted, Cached, Cleaning
  <2>4. CASE CleanUpCache(t)
    <3>1. pc[t] = "limit" /\ UNCHANGED <<memory, content>>
      BY <2>4 DEF CleanUpCache, cacheVars
    <3>2. memory = StoredSize(content)
      BY <1>2, <2>1, <3>1 DEF Accounted
    <3>3. CASE IsMemoryLimitReached
      <4>1. /\ victims' = [victims EXCEPT ![t] = [b \in {c \in Attrs : Cached(c)} |-> content[b].refCount]]
            /\ place = "evict"
        BY <1>2, <1>3, <2>4, <3>3 DEF CleanUpCache, Goto
      <4>2. DOMAIN victims'[t] = {c \in Attrs : Cached(c)}
        BY <1>1, <4>1, StartedTask, <1>2
      <4> QED BY <1>1, <1>2, <1>4, <3>1, <3>2, <4>1, <4>2 DEF Accounted, Cached, Cleaning
    <3>4. CASE ~IsMemoryLimitReached
      <4>1. place \in {"drop", "finish"} /\ victims' = victims
        BY <1>2, <1>3, <2>4, <3>4 DEF CleanUpCache, Goto, AfterAdd
      <4>2. memory < MemoryUsageLimit
        BY <1>1, <1>2, <3>4, OwnAccount, ConfigFacts DEF IsMemoryLimitReached, FoldingInv, StateInv, TypeOK
      <4> QED BY <1>1, <1>2, <1>4, <3>1, <3>2, <4>1, <4>2, SettingsStay DEF Accounted, Settled, Cleaning
    <3> QED BY <3>3, <3>4
  <2> QED BY <2>2, <2>3, <2>4 
<1> QED BY <1>1, <1>2, <1>3, <1>5, <1>6, AccountTask

\* What removeContent does to the size of the cache.
LEMMA AccountErase ==
  ASSUME FoldingInv, FoldingInv', NEW t \in Tasks, pc[t] # "idle", NEW a \in Attrs, NEW next, Erase(t, a, next)
  PROVE  /\ \A b \in Attrs : Cached(b)' <=> (Cached(b) /\ b # a)
         /\ doomed'[t] = IF Cached(a) THEN a ELSE None
         /\ \A u \in Tasks : u # t => doomed'[u] = doomed[u]
         /\ a # None
         /\ Cached(a) => StoredSize(content) = StoredSize(content') + Size[a]
         /\ ~Cached(a) => StoredSize(content) = StoredSize(content')
<1>1. /\ content' = [content EXCEPT ![a] = None]
      /\ doomed' = [doomed EXCEPT ![t] = IF Cached(a) THEN a ELSE None]
  BY DEF Erase
<1>2. content \in [Attrs -> Entries \cup {None}] /\ doomed \in [Tasks -> Attrs \cup {None}]
  BY StartedTask
<1>3. \A b \in Attrs : Cached(b)' <=> (Cached(b) /\ b # a)
  BY <1>1, <1>2 DEF Cached
<1>4. Cached(a) => StoredSize(content) = StoredSize(content') + Size[a]
  <2>1. Cached(a) => Stored(content) = Stored(content') \cup {a} /\ a \notin Stored(content')
    BY <1>3 DEF Stored, Cached
  <2> QED BY <2>1, StoredSizes
<1>5. ~Cached(a) => StoredSize(content) = StoredSize(content')
  <2>1. ~Cached(a) => Stored(content) = Stored(content')
    BY <1>3 DEF Stored, Cached
  <2> QED BY <2>1, StoredSizes
<1>6. a # None
  BY NoneAssumption
<1> QED BY <1>1, <1>2, <1>3, <1>4, <1>5, <1>6

\* Removing results: the counter is ahead of the cache until the size is subtracted, and
\* an eviction ends below the limit, with an empty cache at the latest.
LEMMA AccountRemove ==
  ASSUME AccountInv, FoldingInv', UNCHANGED config, NEW t \in Tasks,
         EvictContent(t) \/ DropPartial(t) \/ SubtractSize(t) \/ IsClean(t)
  PROVE  AccountInv'
<1>1. pc[t] \in {"evict", "drop", "evicted", "dropped", "cleaned"} /\ job' = job
  BY DEF EvictContent, DropPartial, SubtractSize, IsClean
<1>2. /\ t \in Busy /\ UsesCache(t) /\ FoldingInv /\ DoomedWaits
      /\ pc \in [Tasks -> Places] /\ doomed \in [Tasks -> Attrs \cup {None}] /\ DOMAIN victims = Tasks
      /\ MemoryUsageLimit \in Nat /\ CleanLevel \in Int
      /\ memory \in 0 .. MemoryWrap - 1 /\ memory \in Nat
  BY <1>1, OwnAccount, StartedTask, ConfigFacts, SMTT(30) DEF UsesCache, AccountInv, FoldingInv, StateInv, TypeOK
<1>3. /\ pc[t] \notin {"evicted", "dropped"} => doomed[t] = None
      /\ pc[t] \in {"drop", "dropped"} => job[t].from \in Attrs
  BY <1>1, <1>2, OwnAccount DEF FoldingInv, StateInv, JobsFit
<1>4. ASSUME MaxConcurrentTasks = 1, LimitsFit
      PROVE  /\ Accounted(t)
             /\ pc[t] # "evict" \/ (\A a \in Attrs : Cached(a) => a \in DOMAIN victims[t])
             /\ doomed[t] # None => memory = StoredSize(content) + Size[doomed[t]]
             /\ doomed[t] = None => memory = StoredSize(content)
             /\ pc[t] \in {"drop", "dropped"} => memory < MemoryUsageLimit
             /\ pc[t] \in Cleaning => \A a \in Attrs : Cached(a) => a \in DOMAIN victims[t]
             /\ CleanLevel < MemoryUsageLimit
  <2>1. Accounted(t) /\ CleanLevel < MemoryUsageLimit
    BY <1>1, <1>2, <1>4, OwnAccount DEF LimitsFit
  <2> QED BY <1>1, <2>1 DEF Accounted, Cleaning
<1>5. ASSUME NEW a \in Attrs, NEW next, Erase(t, a, next), memory' = memory,
             \/ pc[t] = "drop" /\ next = "dropped"
             \/ /\ pc[t] = "evict" /\ next = "evicted"
                /\ DOMAIN victims'[t] = DOMAIN victims[t] \ {a}
      PROVE  AccountInv'
  <2>1. /\ \A b \in Attrs : Cached(b)' <=> (Cached(b) /\ b # a)
        /\ doomed'[t] = IF Cached(a) THEN a ELSE None
        /\ \A u \in Tasks : u # t => doomed'[u] = doomed[u]
        /\ a # None
        /\ Cached(a) => StoredSize(content) = StoredSize(content') + Size[a]
        /\ ~Cached(a) => StoredSize(content) = StoredSize(content')
    BY <1>1, <1>2, <1>5, AccountErase
  <2>2. pc' = [pc EXCEPT ![t] = next]
    BY <1>5 DEF Erase, Goto
  <2>3. pc'[t] = next /\ \A u \in Tasks : u # t => pc'[u] = pc[u]
    BY <1>2, <2>2
  <2>4. DoomedWaits'
    BY <1>2, <1>5, <2>1, <2>3 DEF DoomedWaits
  <2>5. ASSUME MaxConcurrentTasks = 1, LimitsFit PROVE Accounted(t)'
    <3>1. next \in {"evicted", "dropped"} /\ memory = StoredSize(content)
      BY <1>3, <1>4, <1>5, <2>5
    <3>2. (doomed[t] # None => memory = StoredSize(content) + Size[doomed[t]])'
      BY <1>5, <2>1, <3>1
    <3>3. (doomed[t] = None => memory = StoredSize(content))'
      BY <1>5, <2>1, <3>1
    <3>4. pc'[t] \in Cleaning => \A b \in Attrs : Cached(b)' => b \in DOMAIN victims'[t]
      BY <1>4, <1>5, <2>1, <2>3, <2>5 DEF Cleaning
    <3>5. pc'[t] = "dropped" => memory' < MemoryUsageLimit'
      BY <1>4, <1>5, <2>3, <2>5, SettingsStay
    <3> QED BY <2>3, <3>1, <3>2, <3>3, <3>4, <3>5 DEF Accounted, Cleaning
  <2> QED BY <1>1, <1>2, <1>5, <2>2, <2>4, <2>5, AccountTask
<1>6. ASSUME NEW place \in {"drop", "finish", "evict", "cleaned"}, pc' = [pc EXCEPT ![t] = place],
             content' = content, doomed'[t] = None, \A u \in Tasks : u # t => doomed'[u] = doomed[u],
             (MaxConcurrentTasks = 1 /\ LimitsFit) =>
               /\ memory' = StoredSize(content)
               /\ place \in {"drop", "finish"} => memory' < MemoryUsageLimit
               /\ place \in {"evict", "cleaned"} => \A a \in Attrs : Cached(a) => a \in DOMAIN victims'[t]
      PROVE  AccountInv'
  <2>1. pc'[t] = place /\ \A u \in Tasks : u # t => pc'[u] = pc[u]
    BY <1>2, <1>6
  <2>2. DoomedWaits'
    BY <1>2, <1>6, <2>1 DEF DoomedWaits
  <2>3. ASSUME MaxConcurrentTasks = 1, LimitsFit
        PROVE  IF place \in {"finish", "notify", "done"} THEN Settled' ELSE Accounted(t)'
    BY <1>6, <2>1, <2>3, SettingsStay DEF Settled, Accounted, Cached, Cleaning
  <2> QED BY <1>1, <1>2, <1>6, <2>2, <2>3, AccountTask
<1>7. CASE EvictContent(t)
  <2>1. pc[t] = "evict" /\ memory' = memory
    BY <1>7 DEF EvictContent
  <2>2. ASSUME NEW a \in DOMAIN victims[t], Erase(t, a, "evicted"),
               victims' = [victims EXCEPT ![t] = [b \in DOMAIN victims[t] \ {a} |-> victims[t][b]]]
        PROVE  AccountInv'
    <3>1. a \in Attrs /\ DOMAIN victims'[t] = DOMAIN victims[t] \ {a}
      BY <1>1, <1>2, <2>2, StartedTask
    <3> QED BY <1>5, <2>1, <2>2, <3>1
  <2>3. CASE DOMAIN victims[t] = {} /\ Goto(t, AfterAdd(t)) /\ UNCHANGED <<victims, doomed, content>>
    <3>1. ASSUME MaxConcurrentTasks = 1, LimitsFit PROVE memory = StoredSize(content) /\ memory < MemoryUsageLimit
      <4>1. Stored(content) = {}
        BY <1>4, <2>1, <2>3, <3>1 DEF Stored, Cached
      <4>2. memory = StoredSize(content) /\ StoredSize(content) = 0
        BY <1>3, <1>4, <2>1, <3>1, <4>1, StoredSizes
      <4>3. 0 <= CleanLevel
        BY <1>2, ConfigFacts DEF FoldingInv, StateInv, TypeOK
      <4> QED BY <1>2, <1>4, <3>1, <4>2, <4>3
    <3>2. AfterAdd(t) \in {"drop", "finish"}
      BY DEF AfterAdd
    <3> QED BY <1>3, <1>6, <2>1, <2>3, <3>1, <3>2 DEF Goto
  <2> QED BY <1>7, <2>2, <2>3 DEF EvictContent
<1>8. CASE DropPartial(t)
  BY <1>3, <1>5, <1>8 DEF DropPartial
<1>9. CASE SubtractSize(t)
  <2> DEFINE place == IF pc[t] = "evicted" THEN "cleaned" ELSE "finish"
  <2>1. /\ pc[t] \in {"evicted", "dropped"} /\ pc' = [pc EXCEPT ![t] = place]
        /\ content' = content /\ victims' = victims
        /\ memory' = IF doomed[t] = None THEN memory ELSE (memory - Size[doomed[t]]) % MemoryWrap
    BY <1>9 DEF SubtractSize, Goto
  <2>2. doomed'[t] = None /\ \A u \in Tasks : u # t => doomed'[u] = doomed[u]
    BY <1>2, <1>9 DEF SubtractSize
  <2>3. ASSUME MaxConcurrentTasks = 1, LimitsFit PROVE memory' = StoredSize(content) /\ memory' <= memory
    <3>1. CASE doomed[t] = None
      BY <1>2, <1>4, <2>1, <2>3, <3>1
    <3>2. CASE doomed[t] # None
      <4>1. Size[doomed[t]] \in Nat /\ memory = StoredSize(content) + Size[doomed[t]] /\ StoredSize(content) \in Nat
        BY <1>2, <1>4, <2>3, <3>2, StoredSizes, SizeAssumption
      <4>2. memory - Size[doomed[t]] \in 0 .. MemoryWrap - 1
        BY <1>2, <4>1, BoundsAssumption
      <4>3. (memory - Size[doomed[t]]) % MemoryWrap = memory - Size[doomed[t]]
        BY <4>2, BoundsAssumption
      <4> QED BY <2>1, <3>2, <4>1, <4>2, <4>3
    <3> QED BY <3>1, <3>2
  <2>4. place \in {"cleaned", "finish"}
    OBVIOUS
  <2>5. ASSUME MaxConcurrentTasks = 1, LimitsFit
        PROVE  /\ place = "finish" => memory' < MemoryUsageLimit
               /\ place = "cleaned" => \A a \in Attrs : Cached(a) => a \in DOMAIN victims'[t]
    <3>1. memory' \in Int
      BY <2>3, <2>5, StoredSizes
    <3> QED BY <1>2, <1>4, <2>1, <2>3, <2>5, <3>1 DEF Cleaning
  <2> HIDE DEF place
  <2> QED BY <1>6, <2>3, <2>4, <2>5, <2>1, <2>2
<1>10. CASE IsClean(t)
  <2>1. pc[t] = "cleaned" /\ UNCHANGED <<doomed, content, memory>>
    BY <1>10 DEF IsClean, cacheVars
  <2>2. CASE memory <= CleanLevel /\ Goto(t, AfterAdd(t))
    <3>1. AfterAdd(t) \in {"drop", "finish"}
      BY DEF AfterAdd
    <3>2. ASSUME MaxConcurrentTasks = 1, LimitsFit PROVE memory = StoredSize(content) /\ memory < MemoryUsageLimit
      BY <1>2, <1>3, <1>4, <2>1, <2>2, <3>2
    <3>3. doomed[t] = None
      BY <1>3, <2>1
    <3> QED BY <1>6, <2>1, <2>2, <3>1, <3>2, <3>3 DEF Goto
  <2>3. CASE Goto(t, "evict") /\ victims' = victims
    BY <1>3, <1>4, <1>6, <2>1, <2>3 DEF Goto, Cleaning
  <2> QED BY <1>10, <2>2, <2>3 DEF IsClean
<1> QED BY <1>7, <1>8, <1>9, <1>10

\* replaceContentAttr is not called when the counter is exact; it leaves the sizes that
\* are still to subtract alone.
LEMMA AccountReplace ==
  ASSUME AccountInv, FoldingInv', UNCHANGED config, NEW t \in Tasks, LockOriginal(t) \/ MoveContent(t)
  PROVE  AccountInv'
<1>1. pc[t] \in {"replace", "move"} /\ UNCHANGED <<job, doomed>>
  BY DEF LockOriginal, MoveContent
<1>2. t \in Busy /\ job[t].kind = "equivalence" /\ DoomedWaits /\ pc \in [Tasks -> Places]
  BY <1>1, OwnAccount DEF AccountInv, FoldingInv, StateInv, TypeOK, JobsFit
<1>3. PICK place \in {"move", "look", "finish"} : pc' = [pc EXCEPT ![t] = place]
  BY DEF LockOriginal, MoveContent, Goto
<1>4. DoomedWaits'
  BY <1>1, <1>2, <1>3 DEF DoomedWaits
<1>5. ~(MaxConcurrentTasks = 1 /\ LimitsFit)
  BY <1>1, <1>2 DEF AccountInv, OneAccount
<1> QED BY <1>1, <1>2, <1>3, <1>4, <1>5, AccountTask

\* A task that completes leaves the account settled.
LEMMA AccountComplete ==
  ASSUME AccountInv, FoldingInv', UNCHANGED config, NEW t \in Tasks, Decrement(t) \/ NotifyOne(t)
  PROVE  AccountInv'
<1>1. pc \in [Tasks -> Places] /\ DoomedWaits /\ OneAccount /\ FoldingInv
  BY DEF AccountInv, FoldingInv, StateInv, TypeOK
<1>2. CASE Decrement(t)
  <2>1. /\ pc[t] = "finish" /\ pc' = [pc EXCEPT ![t] = "notify"]
        /\ UNCHANGED <<job, doomed, memory, content>>
    BY <1>2 DEF Decrement, Goto, cacheVars
  <2>2. t \in Busy
    BY <2>1 DEF Busy
  <2>3. DoomedWaits'
    BY <1>1, <2>1 DEF DoomedWaits
  <2>4. ASSUME MaxConcurrentTasks = 1, LimitsFit PROVE Settled'
    <3>1. CacheSettled
      BY <1>1, <2>1, <2>2, <2>4, OnlyTask DEF CacheSettled, UsesCache, Busy
    <3>2. Settled
      BY <1>1, <2>4, <3>1 DEF OneAccount
    <3> QED BY <2>1, <3>2, SettingsStay DEF Settled
  <2> QED BY <2>3, <2>4, <2>1, <2>2, AccountTask
<1>3. CASE NotifyOne(t)
  <2>1. /\ pc[t] = "notify" /\ pc' = [pc EXCEPT ![t] = "done"]
        /\ UNCHANGED <<job, victims, doomed, content, memory>>
    BY <1>3 DEF NotifyOne, Goto, cacheVars
  <2>2. \A u \in Tasks : pc'[u] = pc[u] \/ (pc[u] \in {"finish", "notify"} /\ pc'[u] \in {"notify", "done"})
    BY <1>1, <2>1
  <2> QED BY <2>1, <2>2, AccountUntouched
<1> QED BY <1>2, <1>3

\* Every step keeps the account.
LEMMA AccountNext == AccountInv /\ [Next]_vars => AccountInv'
<1>1. ASSUME AccountInv, [Next]_vars PROVE FoldingInv' /\ UNCHANGED config
  BY <1>1, FoldingNext DEF AccountInv, Next, vars
<1>2. ASSUME AccountInv, Next PROVE AccountInv'
  <2>1. FoldingInv' /\ UNCHANGED config /\ FoldingInv
    BY <1>1, <1>2 DEF AccountInv
  <2>2. ASSUME NEW a \in Attrs, GetContent(a) PROVE AccountInv'
    <3>1. /\ Cached(a) /\ UNCHANGED <<pc, job, victims, doomed, memory>>
          /\ content' = [content EXCEPT ![a] = [content[a] EXCEPT !.refCount = content[a].refCount - 1]]
      BY <2>2 DEF GetContent, taskVars
    <3>2. content \in [Attrs -> Entries \cup {None}] /\ content[a] \in Entries /\ None \notin Entries
      BY <2>1, <3>1, NoneAssumption DEF FoldingInv, StateInv, TypeOK, Entries, Cached, Tasks
    <3>3. [content[a] EXCEPT !.refCount = content[a].refCount - 1] \in Entries
      BY <3>2 DEF Entries
    <3>4. \A b \in Attrs : content'[b] # None <=> content[b] # None
      BY <3>1, <3>2, <3>3
    <3> QED BY <1>2, <2>1, <3>1, <3>4, AccountUntouched
  <2>3. ASSUME NEW t \in Tasks, SubmitTask(t) PROVE AccountInv'
    BY <1>2, <2>1, <2>3, AccountSubmit
  <2>4. ASSUME NEW t \in Tasks, TaskStep(t) PROVE AccountInv'
    BY <1>2, <2>1, <2>4, AccountLook, AccountAdd, AccountRemove, AccountReplace, AccountComplete DEF TaskStep
  <2>5. CASE UNCHANGED <<taskVars, content, memory>>
    BY <1>2, <2>1, <2>5, AccountUntouched DEF taskVars
  <2>6. CASE GetRequest \/ ListenerWait \/ SpuriousWakeup \/ \E t \in Tasks : Crash(t)
    BY <2>5, <2>6 DEF GetRequest, ListenerWait, SpuriousWakeup, Crash, cacheVars
  <2>7. CASE CompilerStep
    BY <2>2, <2>5, <2>7 DEF CompilerStep, EnqueueRequest, UseContent, StopFoldingListener, RemoveCache,
                            DestructorWait, cacheVars
  <2> QED BY <1>2, <2>3, <2>4, <2>6, <2>7 DEF Next, ListenerStep
<1>3. ASSUME AccountInv, UNCHANGED vars PROVE AccountInv'
  BY <1>1, <1>3, AccountUntouched DEF vars, taskVars, cacheVars
<1> QED BY <1>2, <1>3

\* With one folding thread, whenever no task works on the cache, _memoryUsedCache is
\* what the cached constants take, and below the limit.  The hypotheses are those
\* under which the counter can be exact at all; LimitsFit says which they are.
THEOREM MemoryCorrect == Spec => [](LimitsFit => MemoryMatchesCache)
<1>1. ASSUME AccountInv, LimitsFit PROVE MemoryMatchesCache
  <2> SUFFICES ASSUME MaxConcurrentTasks = 1, CacheSettled
               PROVE  /\ memory = MapThenSumSet(LAMBDA a : Size[a], {a \in Attrs : Cached(a)})
                      /\ memory < MemoryUsageLimit
    BY DEF MemoryMatchesCache
  <2>1. Settled
    BY <1>1 DEF AccountInv, OneAccount
  <2> QED BY <2>1 DEF Settled, StoredSize, Stored, Sum, Cached
<1>2. AccountInv => (LimitsFit => MemoryMatchesCache)
  BY <1>1
<1> QED BY <1>2, AccountInit, AccountNext, PTL DEF Spec

-----------------------------------------------------------------------------
(***************************************************************************)
(* What a task has folded stays in the cache, with any number of folding   *)
(* threads.                                                                *)
(***************************************************************************)

\* What ContentAttr::get asks for.
FoldOnly == \A r \in Requests : r.kind = "fold"

\* Where a task that only folds can be, from where on its result is cached, and from
\* where on its size is in the counter.
FoldPlaces == {"look", "add", "account", "limit", "finish", "notify", "done"}
StoredPlaces == {"account", "limit", "finish", "notify", "done"}
CountedPlaces == {"limit", "finish", "notify", "done"}

Counted == {t \in Tasks : pc[t] \in CountedPlaces}
LargestSize == Max({Size[a] : a \in Attrs})

\* The counter, which no task sets back, stays below the limit: each request adds at
\* most the largest size.  So cleanUpCache never gets past its test.
FoldsKept ==
  (NothingEvicted /\ FoldOnly) =>
    /\ \A t \in Tasks : pc[t] # "idle" => pc[t] \in FoldPlaces /\ job[t].kind = "fold"
    /\ \A t \in Tasks : pc[t] \in StoredPlaces => Cached(job[t].attr)
    /\ Attrs # {} => memory <= Cardinality(Counted) * LargestSize

KeptInv == FoldingInv /\ FoldsKept

\* The largest size is one, and there are at most MaxRequests sizes to count.
LEMMA LargestSizeBounds ==
  ASSUME Attrs # {}
  PROVE  LargestSize \in Nat /\ \A a \in Attrs : Size[a] <= LargestSize
<1> DEFINE Sizes == {Size[a] : a \in Attrs}
<1>1. \A a \in Attrs : Size[a] \in Nat
  BY SizeAssumption
<1>2. PICK a \in Attrs : \A b \in Attrs : Size[b] <= Size[a]
  BY <1>1, SizeAssumption, LargestValue
<1>3. \E m \in Sizes : \A n \in Sizes : m >= n
  <2>1. \A b \in Attrs : Size[a] >= Size[b]
    BY <1>1, <1>2
  <2> QED BY <2>1
<1>4. LargestSize \in Sizes /\ \A n \in Sizes : LargestSize >= n
  BY <1>3 DEF LargestSize, Max
<1> QED BY <1>1, <1>4

\* The tasks whose sizes are in the counter are no more than the requests.
LEMMA CountedBounds == IsFiniteSet(Counted) /\ Cardinality(Counted) \in 0 .. MaxRequests
<1>1. IsFiniteSet(Tasks) /\ Cardinality(Tasks) = MaxRequests
  BY BoundsAssumption, FS_Interval DEF Tasks
<1>2. Counted \in SUBSET Tasks
  BY DEF Counted
<1>3. IsFiniteSet(Counted) /\ Cardinality(Counted) <= MaxRequests
  BY <1>1, <1>2, FS_Subset
<1> QED BY <1>3, FS_CardinalityType

\* With nothing to evict, the counter is below the limit.
LEMMA LimitNotReached ==
  ASSUME KeptInv, NothingEvicted, FoldOnly, Attrs # {}
  PROVE  ~IsMemoryLimitReached
<1>1. memory <= Cardinality(Counted) * LargestSize /\ Cardinality(Counted) \in 0 .. MaxRequests
  BY CountedBounds DEF KeptInv, FoldsKept
<1>2. LargestSize \in Nat /\ MaxRequests \in Nat /\ memory \in Int /\ MemoryUsageLimit \in Nat
  BY LargestSizeBounds, BoundsAssumption, ConfigFacts DEF KeptInv, FoldingInv, StateInv, TypeOK
<1>3. Cardinality(Counted) * LargestSize <= MaxRequests * LargestSize
  BY <1>1, <1>2
<1>4. MemoryUsageLimit > MaxRequests * LargestSize
  BY DEF NothingEvicted, LargestSize
<1> QED BY <1>1, <1>2, <1>3, <1>4 DEF IsMemoryLimitReached

\* A step that moves one task, or none.
LEMMA KeptStep ==
  ASSUME KeptInv, FoldingInv', UNCHANGED config, NEW t \in Tasks, NEW place,
         pc' = [pc EXCEPT ![t] = place],
         \A u \in Tasks : u # t => job'[u] = job[u],
         (NothingEvicted /\ FoldOnly) =>
           /\ \A a \in Attrs : Cached(a) => content'[a] # None
           /\ place = "idle" \/ (place \in FoldPlaces /\ job'[t].kind = "fold")
           /\ place \in StoredPlaces => content'[job'[t].attr] # None
           /\ pc[t] \in CountedPlaces => place \in CountedPlaces
           /\ \/ memory' = memory
              \/ /\ pc[t] \notin CountedPlaces /\ place \in CountedPlaces
                 /\ \E a \in Attrs : memory' <= memory + Size[a]
  PROVE  KeptInv'
<1>1. NothingEvicted' <=> NothingEvicted
  BY DEF NothingEvicted, MemoryUsageLimit
<1>2. FoldOnly' <=> FoldOnly
  BY DEF FoldOnly, Requests
<1>3. /\ pc \in [Tasks -> Places] /\ memory \in Int /\ memory' \in Int
      /\ FoldsKept /\ FoldingInv
  BY BoundsAssumption DEF KeptInv, FoldingInv, StateInv, TypeOK
<1>4. pc'[t] = place /\ \A u \in Tasks : u # t => pc'[u] = pc[u]
  BY <1>3
<1>5. ASSUME NothingEvicted, FoldOnly
      PROVE  /\ \A u \in Tasks : pc'[u] # "idle" => pc'[u] \in FoldPlaces /\ job'[u].kind = "fold"
             /\ \A u \in Tasks : pc'[u] \in StoredPlaces => content'[job'[u].attr] # None
             /\ Attrs # {} => memory' <= Cardinality(Counted') * LargestSize
  <2>1. \A u \in Tasks : pc'[u] # "idle" => pc'[u] \in FoldPlaces /\ job'[u].kind = "fold"
    BY <1>3, <1>4, <1>5 DEF FoldsKept
  <2>2. ASSUME NEW u \in Tasks, pc'[u] \in StoredPlaces PROVE content'[job'[u].attr] # None
    <3>1. CASE u = t
      BY <1>4, <1>5, <2>2, <3>1
    <3>2. CASE u # t
      <4>1. pc[u] \in StoredPlaces /\ job[u].attr \in Attrs
        BY <1>3, <1>4, <2>2, <3>2, StartedTask DEF StoredPlaces
      <4> QED BY <1>3, <1>5, <3>2, <4>1 DEF FoldsKept
    <3> QED BY <3>1, <3>2
  <2>3. ASSUME Attrs # {} PROVE memory' <= Cardinality(Counted') * LargestSize
    <3>1. LargestSize \in Nat /\ \A a \in Attrs : Size[a] \in Nat /\ Size[a] <= LargestSize
      BY <2>3, LargestSizeBounds, SizeAssumption
    <3>2. memory <= Cardinality(Counted) * LargestSize /\ Cardinality(Counted) \in Nat
      BY <1>3, <1>5, <2>3, CountedBounds DEF FoldsKept
    <3>3. CASE pc[t] \notin CountedPlaces /\ place \in CountedPlaces
      <4>1. Counted' = Counted \cup {t} /\ t \notin Counted
        BY <1>4, <3>3 DEF Counted
      <4>2. Cardinality(Counted') = Cardinality(Counted) + 1
        BY <4>1, CountedBounds, FS_AddElement
      <4>3. memory' <= memory + LargestSize
        <5>1. CASE memory' = memory
          BY <1>3, <3>1, <5>1
        <5>2. CASE \E a \in Attrs : memory' <= memory + Size[a]
          BY <1>3, <3>1, <5>2
        <5> QED BY <1>5, <5>1, <5>2
      <4>4. (Cardinality(Counted) + 1) * LargestSize = Cardinality(Counted) * LargestSize + LargestSize
        BY <3>1, <3>2
      <4>5. Cardinality(Counted) * LargestSize \in Int
        BY <3>1, <3>2
      <4> QED BY <1>3, <3>1, <3>2, <4>2, <4>3, <4>4, <4>5
    <3>4. CASE ~(pc[t] \notin CountedPlaces /\ place \in CountedPlaces)
      <4>1. Counted' = Counted
        BY <1>4, <1>5, <3>4 DEF Counted
      <4> QED BY <1>5, <3>2, <3>4, <4>1
    <3> QED BY <3>3, <3>4
  <2> QED BY <2>1, <2>2, <2>3
<1>6. FoldsKept'
  BY <1>1, <1>2, <1>5 DEF FoldsKept, Cached, LargestSize
<1> QED BY <1>6 DEF KeptInv

\* A step that moves no task.
LEMMA KeptUntouched ==
  ASSUME KeptInv, FoldingInv', UNCHANGED <<config, pc, job, memory>>,
         \A a \in Attrs : Cached(a) => content'[a] # None
  PROVE  KeptInv'
<1>1. Counted' = Counted /\ (NothingEvicted' <=> NothingEvicted) /\ (FoldOnly' <=> FoldOnly)
  BY DEF Counted, NothingEvicted, MemoryUsageLimit, FoldOnly, Requests
<1>2. \A t \in Tasks : pc[t] \in StoredPlaces => job[t].attr \in Attrs
  BY StartedTask DEF KeptInv, StoredPlaces
<1>3. ASSUME NothingEvicted, FoldOnly
      PROVE  /\ \A t \in Tasks : pc'[t] # "idle" => pc'[t] \in FoldPlaces /\ job'[t].kind = "fold"
             /\ \A t \in Tasks : pc'[t] \in StoredPlaces => content'[job'[t].attr] # None
             /\ Attrs # {} => memory' <= Cardinality(Counted') * LargestSize
  BY <1>1, <1>2, <1>3 DEF KeptInv, FoldsKept
<1>4. FoldsKept'
  BY <1>1, <1>3 DEF FoldsKept, Cached, LargestSize
<1> QED BY <1>4 DEF KeptInv

\* The steps of a task that only folds.
LEMMA KeptTask ==
  ASSUME KeptInv, FoldingInv', UNCHANGED config, NEW t \in Tasks, TaskStep(t)
  PROVE  KeptInv'
<1> USE DEF FoldPlaces, StoredPlaces, CountedPlaces
<1>1. FoldingInv /\ FoldsKept /\ pc \in [Tasks -> Places] /\ pc[t] # "idle"
  BY DEF KeptInv, FoldingInv, StateInv, TypeOK, TaskStep, LockOriginal, MoveContent, LookUp, FindPartial,
         TransformPartial, AddContent, AddSize, CleanUpCache, EvictContent, DropPartial, SubtractSize,
         IsClean, Decrement, NotifyOne
<1>2. /\ job[t].attr \in Attrs /\ content \in [Attrs -> Entries \cup {None}] /\ None \notin Entries
      /\ memory \in Nat
  BY <1>1, StartedTask, NoneAssumption DEF Entries, Tasks
<1>3. (NothingEvicted /\ FoldOnly) =>
        pc[t] \in FoldPlaces /\ job[t].kind = "fold" /\ (pc[t] \in StoredPlaces => Cached(job[t].attr))
  BY <1>1 DEF FoldsKept
<1>4. CASE LookUp(t)
  <2>1. pc[t] = "look" /\ UNCHANGED <<job, memory>>
    BY <1>4 DEF LookUp
  <2>2. CASE Cached(job[t].attr)
    <3>1. /\ pc' = [pc EXCEPT ![t] = "finish"]
          /\ content' = [content EXCEPT ![job[t].attr] = [content[job[t].attr] EXCEPT !.refCount = content[job[t].attr].refCount + 1]]
      BY <1>4, <2>2 DEF LookUp, Goto
    <3>2. content[job[t].attr] \in Entries
      BY <1>2, <2>2 DEF Cached
    <3>3. [content[job[t].attr] EXCEPT !.refCount = content[job[t].attr].refCount + 1] \in Entries
      BY <3>2 DEF Entries
    <3>4. content'[job[t].attr] # None /\ \A a \in Attrs : Cached(a) => content'[a] # None
      BY <1>2, <3>1, <3>3 DEF Cached
    <3> QED BY <1>3, <2>1, <3>1, <3>4, KeptStep
  <2>3. CASE ~Cached(job[t].attr)
    <3>1. pc' = [pc EXCEPT ![t] = IF job[t].kind = "extend" THEN "partial" ELSE "add"] /\ content' = content
      BY <1>4, <2>3 DEF LookUp, Goto
    <3> QED BY <1>3, <2>1, <3>1, KeptStep DEF Cached
  <2> QED BY <2>2, <2>3
<1>5. CASE AddContent(t)
  <2> DEFINE a == job[t].attr
             entry == [buffer |-> t, refCount |-> IF Cached(a) THEN content[a].refCount ELSE 1]
  <2>1. /\ pc[t] = "add" /\ pc' = [pc EXCEPT ![t] = "account"] /\ UNCHANGED <<job, memory>>
        /\ content' = [content EXCEPT ![a] = entry]
    BY <1>5 DEF AddContent, Goto
  <2>2. entry \in Entries
    BY <1>2 DEF Entries, Cached
  <2> HIDE DEF entry
  <2>3. content'[a] # None /\ \A b \in Attrs : Cached(b) => content'[b] # None
    BY <1>2, <2>1, <2>2 DEF Cached
  <2> QED BY <1>3, <2>1, <2>3, KeptStep
<1>6. CASE AddSize(t)
  <2>1. /\ pc[t] = "account" /\ pc' = [pc EXCEPT ![t] = "limit"] /\ UNCHANGED <<job, content>>
        /\ memory' = (memory + Size[job[t].attr]) % MemoryWrap
    BY <1>6 DEF AddSize, Goto
  <2>2. memory + Size[job[t].attr] \in Nat /\ MemoryWrap \in Nat \ {0}
    BY <1>2, SizeAssumption, BoundsAssumption
  <2>3. \A n \in Nat : n % MemoryWrap <= n
    BY BoundsAssumption
  <2>4. memory' <= memory + Size[job[t].attr]
    BY <2>1, <2>2, <2>3
  <2> QED BY <1>2, <1>3, <2>1, <2>4, KeptStep DEF Cached
<1>7. CASE CleanUpCache(t)
  <2>1. pc[t] = "limit" /\ UNCHANGED <<job, content, memory>>
    BY <1>7 DEF CleanUpCache, cacheVars
  <2>2. PICK place \in {"evict", "drop", "finish"} : pc' = [pc EXCEPT ![t] = place]
    BY <1>7 DEF CleanUpCache, Goto, AfterAdd
  <2>3. (NothingEvicted /\ FoldOnly) => place = "finish"
    <3> SUFFICES ASSUME NothingEvicted, FoldOnly PROVE place = "finish"
      OBVIOUS
    <3>1. ~IsMemoryLimitReached
      BY <1>2, LimitNotReached
    <3>2. pc' = [pc EXCEPT ![t] = "finish"]
      BY <1>3, <1>7, <3>1 DEF CleanUpCache, Goto, AfterAdd
    <3> QED BY <1>1, <2>2, <3>2
  <2> QED BY <1>3, <2>1, <2>2, <2>3, KeptStep DEF Cached
<1>8. CASE Decrement(t) \/ NotifyOne(t)
  <2>1. PICK place \in {"notify", "done"} : pc' = [pc EXCEPT ![t] = place]
    BY <1>8 DEF Decrement, NotifyOne, Goto
  <2>2. pc[t] \in {"finish", "notify"} /\ UNCHANGED <<job, content, memory>>
    BY <1>8 DEF Decrement, NotifyOne, cacheVars
  <2> QED BY <1>3, <2>1, <2>2, KeptStep DEF Cached
<1>9. CASE pc[t] \notin FoldPlaces
  <2>1. ~(NothingEvicted /\ FoldOnly)
    BY <1>3, <1>9
  <2>2. PICK place : pc' = [pc EXCEPT ![t] = place]
    BY DEF TaskStep, LockOriginal, MoveContent, LookUp, FindPartial, TransformPartial, AddContent, AddSize,
           CleanUpCache, EvictContent, DropPartial, SubtractSize, IsClean, Decrement, NotifyOne, Goto, Erase
  <2>3. \A u \in Tasks : u # t => job'[u] = job[u]
    <3>1. job' = job \/ job' = [job EXCEPT ![t] = [job[t] EXCEPT !.kind = "fold"]]
      BY <1>9 DEF TaskStep, LockOriginal, MoveContent, LookUp, FindPartial, TransformPartial, AddContent, AddSize,
             CleanUpCache, EvictContent, DropPartial, SubtractSize, IsClean, Decrement, NotifyOne
    <3> QED BY <1>1, <3>1, StartedTask
  <2> QED BY <2>1, <2>2, <2>3, KeptStep
<1> QED BY <1>4, <1>5, <1>6, <1>7, <1>8, <1>9 DEF TaskStep, LockOriginal, MoveContent, FindPartial, TransformPartial,
           EvictContent, DropPartial, SubtractSize, IsClean

\* Every step keeps what was folded.
LEMMA KeptNext == KeptInv /\ [Next]_vars => KeptInv'
<1>1. ASSUME KeptInv, [Next]_vars PROVE FoldingInv' /\ UNCHANGED config /\ FoldingInv
  BY <1>1, FoldingNext DEF KeptInv, Next, vars
<1>2. ASSUME KeptInv, Next PROVE KeptInv'
  <2>1. FoldingInv' /\ UNCHANGED config /\ FoldingInv
    BY <1>1, <1>2
  <2>2. ASSUME NEW a \in Attrs, GetContent(a) PROVE KeptInv'
    <3>1. /\ Cached(a) /\ UNCHANGED <<pc, job, memory>>
          /\ content' = [content EXCEPT ![a] = [content[a] EXCEPT !.refCount = content[a].refCount - 1]]
      BY <2>2 DEF GetContent, taskVars
    <3>2. content \in [Attrs -> Entries \cup {None}] /\ content[a] \in Entries /\ None \notin Entries
      BY <2>1, <3>1, NoneAssumption DEF FoldingInv, StateInv, TypeOK, Entries, Cached, Tasks
    <3>3. [content[a] EXCEPT !.refCount = content[a].refCount - 1] \in Entries
      BY <3>2 DEF Entries
    <3>4. \A b \in Attrs : Cached(b) => content'[b] # None
      BY <3>1, <3>2, <3>3 DEF Cached
    <3> QED BY <1>2, <2>1, <3>1, <3>4, KeptUntouched
  <2>3. ASSUME NEW t \in Tasks, SubmitTask(t) PROVE KeptInv'
    <3> DEFINE place == IF request.kind = "equivalence" THEN "replace" ELSE "look"
    <3>1. /\ pc[t] = "idle" /\ pc' = [pc EXCEPT ![t] = place] /\ job' = [job EXCEPT ![t] = request]
          /\ UNCHANGED <<content, memory>> /\ request \in Requests /\ DOMAIN job = Tasks
      BY <2>1, <2>3 DEF SubmitTask, cacheVars, FoldingInv, StateInv, RequestHeld, JobsFit
    <3>2. job'[t] = request /\ \A u \in Tasks : u # t => job'[u] = job[u]
      BY <3>1
    <3>3. FoldOnly => request.kind = "fold" /\ place = "look"
      BY <3>1 DEF FoldOnly
    <3> HIDE DEF place
    <3> QED BY <1>2, <2>1, <3>1, <3>2, <3>3, KeptStep DEF Cached, FoldPlaces, StoredPlaces, CountedPlaces
  <2>4. ASSUME NEW t \in Tasks, TaskStep(t) PROVE KeptInv'
    BY <1>2, <2>1, <2>4, KeptTask
  <2>5. CASE UNCHANGED <<taskVars, content, memory>>
    BY <1>2, <2>1, <2>5, KeptUntouched DEF taskVars, Cached
  <2>6. CASE GetRequest \/ ListenerWait \/ SpuriousWakeup \/ \E t \in Tasks : Crash(t)
    BY <2>5, <2>6 DEF GetRequest, ListenerWait, SpuriousWakeup, Crash, cacheVars
  <2>7. CASE CompilerStep
    BY <2>2, <2>5, <2>7 DEF CompilerStep, EnqueueRequest, UseContent, StopFoldingListener, RemoveCache,
                            DestructorWait, cacheVars
  <2> QED BY <1>2, <2>3, <2>4, <2>6, <2>7 DEF Next, ListenerStep
<1>3. ASSUME KeptInv, UNCHANGED vars PROVE KeptInv'
  BY <1>1, <1>3, KeptUntouched DEF vars, taskVars, cacheVars, Cached
<1> QED BY <1>2, <1>3

\* Nothing is folded yet.
LEMMA KeptInit == Init => KeptInv
<1> SUFFICES ASSUME Init PROVE KeptInv
  OBVIOUS
<1>1. \A t \in Tasks : pc[t] = "idle"
  BY DEF Init
<1>2. Counted = {} /\ Cardinality(Counted) = 0
  <2>1. Counted = {}
    BY <1>1 DEF Counted, CountedPlaces
  <2> QED BY <2>1, FS_EmptySet
<1>3. Attrs # {} => memory <= Cardinality(Counted) * LargestSize
  BY <1>2, LargestSizeBounds DEF Init
<1> QED BY <1>1, <1>3, FoldingInit DEF KeptInv, FoldsKept, StoredPlaces

\* If the limit leaves nothing to evict, what a finished task folded is found in the
\* cache ever after, with any number of folding threads.  Only for the requests that
\* ContentAttr::get makes: an equivalence whose result is itself renamed takes the
\* first constant out of reach of FoldedStaysCached.
THEOREM FoldedCorrect == Spec => [](FoldOnly => FoldedStaysCached)
<1>1. KeptInv => (FoldOnly => FoldedStaysCached)
  BY DEF KeptInv, FoldsKept, FoldedStaysCached, StoredPlaces
<1> QED BY <1>1, KeptInit, KeptNext, PTL DEF Spec
=============================================================================
