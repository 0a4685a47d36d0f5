---------------------------- MODULE ConstantFolding ----------------------------
(***************************************************************************)
(* Constant folding in background (constant_folding_in_background.cpp and  *)
(* constant_folding_cache.cpp).                                            *)
(*                                                                         *)
(* The compiling thread enqueues a request for each constant it creates.   *)
(* A listener takes the requests in order and starts a pool task for each, *)
(* at most _maxConcurrentTasks at a time.  A task folds the constant and    *)
(* stores it in the cache of the MLIRContext, where the compiling thread   *)
(* looks it up.  The destructor of BackgroundConstantFolding stops the     *)
(* listener, removes the cache and waits for the tasks.                    *)
(*                                                                         *)
(* One step is what no other thread can observe the middle of: an atomic   *)
(* operation, or the section in which an accessor of the                   *)
(* tbb::concurrent_hash_map locks one entry.                               *)
(***************************************************************************)
EXTENDS Integers, Sequences, FiniteSetsExt

CONSTANTS
  Attrs,              \* the ContentAttrs, as keys of the cache
  Size,               \* Attrs -> totalAllocSize
  Configs,            \* the ways BackgroundConstantFolding is set up and used
  MemoryWrap,         \* 2 ^ width of _memoryUsedCache
  MaxRequests,        \* bound: requests of a behaviour
  None

(***************************************************************************)
(* A request is to fold attr ("fold"), to fold it starting from the cached *)
(* result of another attribute, the one without the new transformation     *)
(* ("extend"), or to rename a result to an equivalent attribute            *)
(* ("equivalence").  ContentAttr::get only makes the first kind.           *)
(***************************************************************************)
FoldingRequests ==
  [kind : {"fold"}, attr : Attrs, from : {None}]
  \cup [kind : {"extend", "equivalence"}, attr : Attrs, from : Attrs]

TerminationToken == [kind |-> "termination", attr |-> None, from |-> None]

ASSUME NoneAssumption ==
  None \notin Attrs \cup Nat \cup [buffer : Nat, refCount : Int]
ASSUME SizeAssumption == IsFiniteSet(Attrs) /\ Size \in [Attrs -> Nat \ {0}]
ASSUME ConfigsAssumption ==
  \A c \in Configs :
    /\ c.requests \in [1 .. MaxRequests -> SUBSET FoldingRequests]
    /\ c.maxConcurrentTasks \in Nat \ {0}
    /\ c.memoryUsageLimit \in Nat /\ c.cleanLevel \in 0 .. c.memoryUsageLimit
    /\ c.maxLookups \in Nat
ASSUME BoundsAssumption == MaxRequests \in Nat /\ MemoryWrap \in Nat \ {0}

Tasks == 1 .. MaxRequests

VARIABLES
  config,     \* the configuration, which does not change
  compiler,   \* where the compiling thread is
  held,       \* the buffer the compiling thread reads, owned by the cache
  sent,       \* requests made so far
  lookups,    \* cache hits so far
  queue,      \* _requestQueue
  listener,   \* where the listener is
  request,    \* the request the listener holds
  active,     \* _activeTasks
  pc,         \* where each task is
  job,        \* the request each task was started for
  victims,    \* what cleanUpCache of the task has still to remove: attr -> refCount
  doomed,     \* the attribute removeContent of the task is removing
  content,    \* _cache: attr -> [buffer, refCount] or None
  locked,     \* attr -> the task whose accessor locks its entry
  memory,     \* _memoryUsedCache
  alive       \* whether the cache manager still has the cache

\* What the compiling thread may ask for: the n-th request is one of requests[n].
Requests == UNION {config.requests[n] : n \in Tasks}
MaxConcurrentTasks == config.maxConcurrentTasks  \* _maxConcurrentTasks
MemoryUsageLimit == config.memoryUsageLimit      \* _memoryUsageLimit
CleanLevel == config.cleanLevel                  \* _memoryUsageLimit * _cacheCleanThreshold
MaxLookups == config.maxLookups                  \* bound: cache hits of the compiling thread

compilerVars == <<compiler, held, sent, lookups>>
listenerVars == <<queue, listener, request>>
taskVars == <<pc, job, victims, doomed>>
cacheVars == <<content, locked, memory, alive>>
vars == <<config, compilerVars, listenerVars, active, taskVars, cacheVars>>

Init ==
  /\ config \in Configs
  /\ compiler = "compile" /\ held = None /\ sent = 0 /\ lookups = 0
  /\ queue = <<>> /\ listener = "get" /\ request = None
  /\ active = 0
  /\ pc = [t \in Tasks |-> "idle"]
  /\ job = [t \in Tasks |-> None]
  /\ victims = [t \in Tasks |-> << >>]
  /\ doomed = [t \in Tasks |-> None]
  /\ content = [a \in Attrs |-> None]
  /\ locked = [a \in Attrs |-> None]
  /\ memory = 0
  /\ alive = TRUE

Cached(a) == content[a] # None
Free(a) == locked[a] = None

-----------------------------------------------------------------------------
(***************************************************************************)
(* The compiling thread: ContentAttr::get, ContentAttr::fold, and the      *)
(* destructor of BackgroundConstantFolding.                                *)
(***************************************************************************)
EnqueueRequest(r) ==
  /\ compiler = "compile"
  /\ sent < MaxRequests /\ r \in config.requests[sent + 1]
  /\ queue' = Append(queue, r)
  /\ sent' = sent + 1
  /\ UNCHANGED <<compiler, held, lookups, listener, request, active, taskVars, cacheVars>>

\* getContent finds the constant and returns a Content that refers to the
\* buffer of the cache; a miss changes nothing.
GetContent(a) ==
  /\ compiler = "compile"
  /\ lookups < MaxLookups
  /\ Cached(a) /\ Free(a)
  /\ content' = [content EXCEPT ![a].refCount = @ - 1]
  /\ held' = content[a].buffer
  /\ lookups' = lookups + 1
  /\ compiler' = "reading"
  /\ UNCHANGED <<sent, listenerVars, active, taskVars, locked, memory, alive>>

UseContent ==
  /\ compiler = "reading"
  /\ compiler' = "compile"
  /\ held' = None
  /\ UNCHANGED <<sent, lookups, listenerVars, active, taskVars, cacheVars>>

StopFoldingListener ==
  /\ compiler = "compile"
  /\ queue' = Append(queue, TerminationToken)
  /\ compiler' = "join"
  /\ UNCHANGED <<held, sent, lookups, listener, request, active, taskVars, cacheVars>>

RemoveCache ==
  /\ compiler = "join"
  /\ listener = "exited"
  /\ alive' = FALSE
  /\ compiler' = "check"
  /\ UNCHANGED <<held, sent, lookups, listenerVars, active, taskVars, content, locked, memory>>

\* _cv.wait of the destructor: the test, then the sleep, with _mutex held; but
\* a finishing task does not take _mutex.
DestructorWait ==
  /\ \/ compiler = "check" /\ compiler' = IF active = 0 THEN "destroyed" ELSE "blocking"
     \/ compiler = "blocking" /\ compiler' = "asleep"
  /\ UNCHANGED <<held, sent, lookups, listenerVars, active, taskVars, cacheVars>>

-----------------------------------------------------------------------------
(***************************************************************************)
(* The listener: initFoldingListener and processFoldingRequest.            *)
(***************************************************************************)
\* Mutant: the termination token is taken for a request.
GetAnyRequest ==
  /\ listener = "get"
  /\ queue # <<>>
  /\ queue' = Tail(queue)
  /\ listener' = "check"
  /\ request' = Head(queue)
  /\ UNCHANGED <<compilerVars, active, taskVars, cacheVars>>

GetRequest ==
  /\ listener = "get"
  /\ queue # <<>>
  /\ queue' = Tail(queue)
  /\ \/ /\ Head(queue) = TerminationToken
        /\ listener' = "exited"
        /\ UNCHANGED request
     \/ /\ Head(queue) # TerminationToken
        /\ listener' = "check"
        /\ request' = Head(queue)
  /\ UNCHANGED <<compilerVars, active, taskVars, cacheVars>>

\* Mutant: off by one.
MayStartOneMore == active <= MaxConcurrentTasks

MayStartTask == active < MaxConcurrentTasks

\* The wait of processFoldingRequest: as in the destructor, test and sleep are
\* two steps for a finishing task.
ListenerWait ==
  /\ \/ listener = "check" /\ ~MayStartTask /\ listener' = "blocking"
     \/ listener = "blocking" /\ listener' = "asleep"
  /\ UNCHANGED <<compilerVars, queue, request, active, taskVars, cacheVars>>

SubmitTask(t) ==
  /\ listener = "check"
  /\ MayStartTask
  /\ pc[t] = "idle" /\ \A u \in 1 .. t - 1 : pc[u] # "idle"
  /\ active' = active + 1
  /\ pc' = [pc EXCEPT ![t] = IF request.kind = "equivalence" THEN "replace" ELSE "look"]
  /\ job' = [job EXCEPT ![t] = request]
  /\ request' = None
  /\ listener' = "get"
  /\ UNCHANGED <<compilerVars, queue, victims, doomed, cacheVars>>

\* std::condition_variable may wake a waiter without a notification.
SpuriousWakeup ==
  /\ \/ listener = "asleep" /\ listener' = "check" /\ UNCHANGED compiler
     \/ compiler = "asleep" /\ compiler' = "check" /\ UNCHANGED listener
  /\ UNCHANGED <<held, sent, lookups, queue, request, active, taskVars, cacheVars>>

-----------------------------------------------------------------------------
(***************************************************************************)
(* A task.                                                                 *)
(***************************************************************************)
Goto(t, place) == pc' = [pc EXCEPT ![t] = place]

\* Mutant: the accessor of the original entry is not released when it is empty.
LockOriginalForever(t) ==
  LET old == job[t].from
  IN  /\ pc[t] = "replace"
      /\ Free(old)
      /\ locked' = [locked EXCEPT ![old] = t]
      /\ Goto(t, IF Cached(old) THEN "move" ELSE "look")
      /\ UNCHANGED <<compilerVars, listenerVars, active, job, victims, doomed, content, memory, alive>>

\* replaceContentAttr locks the original entry and, with that lock held, the
\* new one.
LockOriginal(t) ==
  LET old == job[t].from
  IN  /\ pc[t] = "replace"
      /\ Free(old)
      /\ \/ /\ Cached(old)
            /\ locked' = [locked EXCEPT ![old] = t]
            /\ Goto(t, "move")
         \/ /\ ~Cached(old)
            /\ Goto(t, "look")
            /\ UNCHANGED locked
      /\ UNCHANGED <<compilerVars, listenerVars, active, job, victims, doomed, content, memory, alive>>

\* Mutant: the original entry is erased, the new one not inserted.
MoveLosesContent(t) ==
  LET old == job[t].from
  IN  /\ pc[t] = "move"
      /\ Free(job[t].attr)
      /\ content' = [content EXCEPT ![old] = None]
      /\ locked' = [locked EXCEPT ![old] = None]
      /\ Goto(t, "finish")
      /\ UNCHANGED <<compilerVars, listenerVars, active, job, victims, doomed, memory, alive>>

MoveContent(t) ==
  LET old == job[t].from
      new == job[t].attr
      count == IF Cached(new) THEN content[new].refCount ELSE 1
  IN  /\ pc[t] = "move"
      /\ Free(new)
      /\ content' = [content EXCEPT ![new] = [buffer |-> content[old].buffer, refCount |-> count],
                                    ![old] = None]
      /\ locked' = [locked EXCEPT ![old] = None]
      /\ Goto(t, "finish")
      /\ UNCHANGED <<compilerVars, listenerVars, active, job, victims, doomed, memory, alive>>

\* Mutant: a constant is folded again although it is in the cache.
AlwaysFold(t) ==
  /\ pc[t] = "look"
  /\ Free(job[t].attr)
  /\ Goto(t, IF job[t].kind = "extend" THEN "partial" ELSE "add")
  /\ UNCHANGED <<compilerVars, listenerVars, active, job, victims, doomed, cacheVars>>

\* hasContent
LookUp(t) ==
  LET a == job[t].attr
  IN  /\ pc[t] = "look"
      /\ Free(a)
      /\ \/ /\ Cached(a)
            /\ content' = [content EXCEPT ![a].refCount = @ + 1]
            /\ Goto(t, "finish")
         \/ /\ ~Cached(a)
            /\ Goto(t, IF job[t].kind = "extend" THEN "partial" ELSE "add")
            /\ UNCHANGED content
      /\ UNCHANGED <<compilerVars, listenerVars, active, job, victims, doomed, locked, memory, alive>>

\* tryFoldingPartially: the task transforms the buffer it found in the cache.
FindPartial(t) ==
  LET a == job[t].from
  IN  /\ pc[t] = "partial"
      /\ Free(a)
      /\ \/ /\ Cached(a)
            /\ content' = [content EXCEPT ![a].refCount = @ - 1]
            /\ Goto(t, "extend")
            /\ UNCHANGED job
         \/ /\ ~Cached(a)
            /\ Goto(t, "add")
            /\ job' = [job EXCEPT ![t].kind = "fold"]
            /\ UNCHANGED content
      /\ UNCHANGED <<compilerVars, listenerVars, active, victims, doomed, locked, memory, alive>>

TransformPartial(t) ==
  /\ pc[t] = "extend"
  /\ Goto(t, "add")
  /\ UNCHANGED <<compilerVars, listenerVars, active, job, victims, doomed, cacheVars>>

\* addContent: the entry first, its size later.
AddContent(t) ==
  LET a == job[t].attr
      count == IF Cached(a) THEN content[a].refCount ELSE 1
  IN  /\ pc[t] = "add"
      /\ Free(a)
      /\ content' = [content EXCEPT ![a] = [buffer |-> t, refCount |-> count]]
      /\ Goto(t, "account")
      /\ UNCHANGED <<compilerVars, listenerVars, active, job, victims, doomed, locked, memory, alive>>

AddSize(t) ==
  /\ pc[t] = "account"
  /\ memory' = (memory + Size[job[t].attr]) % MemoryWrap
  /\ Goto(t, "limit")
  /\ UNCHANGED <<compilerVars, listenerVars, active, job, victims, doomed, content, locked, alive>>

\* What follows addContent: tryFoldingPartially removes the partial result.
AfterAdd(t) == IF job[t].kind = "extend" THEN "drop" ELSE "finish"

IsMemoryLimitReached == memory >= MemoryUsageLimit

\* cleanUpCache takes a snapshot of the entries, then removes the ones with the
\* smallest refCount first, until the memory is below the clean level.
CleanUpCache(t) ==
  /\ pc[t] = "limit"
  /\ \/ /\ IsMemoryLimitReached
        /\ victims' = [victims EXCEPT ![t] =
                         [a \in {b \in Attrs : Cached(b)} |-> content[a].refCount]]
        /\ Goto(t, "evict")
     \/ /\ ~IsMemoryLimitReached
        /\ Goto(t, AfterAdd(t))
        /\ UNCHANGED victims
  /\ UNCHANGED <<compilerVars, listenerVars, active, job, doomed, cacheVars>>

\* removeContent, for an entry of the snapshot or for a partial result.
Erase(t, a, next) ==
  /\ Free(a)
  /\ content' = [content EXCEPT ![a] = None]
  /\ doomed' = [doomed EXCEPT ![t] = IF Cached(a) THEN a ELSE None]
  /\ Goto(t, next)

EvictContent(t) ==
  /\ pc[t] = "evict"
  /\ \/ \E a \in DOMAIN victims[t] :
          /\ \A b \in DOMAIN victims[t] : victims[t][a] <= victims[t][b]
          /\ victims' = [victims EXCEPT ![t] = [b \in DOMAIN victims[t] \ {a} |-> victims[t][b]]]
          /\ Erase(t, a, "evicted")
     \/ /\ DOMAIN victims[t] = {}
        /\ Goto(t, AfterAdd(t))
        /\ UNCHANGED <<victims, doomed, content>>
  /\ UNCHANGED <<compilerVars, listenerVars, active, job, locked, memory, alive>>

DropPartial(t) ==
  /\ pc[t] = "drop"
  /\ Erase(t, job[t].from, "dropped")
  /\ UNCHANGED <<compilerVars, listenerVars, active, job, victims, locked, memory, alive>>

SubtractSize(t) ==
  /\ pc[t] \in {"evicted", "dropped"}
  /\ memory' = IF doomed[t] = None THEN memory ELSE (memory - Size[doomed[t]]) % MemoryWrap
  /\ doomed' = [doomed EXCEPT ![t] = None]
  /\ Goto(t, IF pc[t] = "evicted" THEN "cleaned" ELSE "finish")
  /\ UNCHANGED <<compilerVars, listenerVars, active, job, victims, content, locked, alive>>

IsClean(t) ==
  /\ pc[t] = "cleaned"
  /\ \/ /\ memory <= CleanLevel
        /\ victims' = [victims EXCEPT ![t] = << >>]
        /\ Goto(t, AfterAdd(t))
     \/ /\ memory > CleanLevel
        /\ Goto(t, "evict")
        /\ UNCHANGED victims
  /\ UNCHANGED <<compilerVars, listenerVars, active, job, doomed, cacheVars>>

\* The destructor of TaskCompletionNotifier: two steps, without _mutex.
Decrement(t) ==
  /\ pc[t] = "finish"
  /\ active' = active - 1
  /\ Goto(t, "notify")
  /\ UNCHANGED <<compilerVars, listenerVars, job, victims, doomed, cacheVars>>

NotifyOne(t) ==
  /\ pc[t] = "notify"
  /\ listener' = IF listener = "asleep" THEN "check" ELSE listener
  /\ compiler' = IF compiler = "asleep" THEN "check" ELSE compiler
  /\ Goto(t, "done")
  /\ UNCHANGED <<held, sent, lookups, queue, request, active, job, victims, doomed, cacheVars>>

\* What a task may still touch after it was destroyed.
UsesCache(t) == pc[t] \notin {"idle", "finish", "notify", "done"}
UsesDestroyed(t) ==
  \/ UsesCache(t) /\ ~alive
  \/ pc[t] \in {"finish", "notify"} /\ compiler = "destroyed"

\* Such a task may find its data intact, as the other actions say, or crash.
Crash(t) ==
  /\ UsesDestroyed(t)
  /\ compiler' = "crashed"
  /\ UNCHANGED <<held, sent, lookups, listenerVars, active, taskVars, cacheVars>>

TaskStep(t) ==
  \/ LockOriginal(t) \/ MoveContent(t) \/ LookUp(t)
  \/ FindPartial(t) \/ TransformPartial(t)
  \/ AddContent(t) \/ AddSize(t) \/ CleanUpCache(t)
  \/ EvictContent(t) \/ DropPartial(t) \/ SubtractSize(t) \/ IsClean(t)
  \/ Decrement(t) \/ NotifyOne(t)

CompilerStep ==
  \/ \E r \in Requests : EnqueueRequest(r)
  \/ \E a \in Attrs : GetContent(a)
  \/ UseContent \/ StopFoldingListener \/ RemoveCache \/ DestructorWait

ListenerStep == GetRequest \/ ListenerWait \/ \E t \in Tasks : SubmitTask(t)

Next ==
  /\ compiler # "crashed"
  /\ UNCHANGED config
  /\ \/ CompilerStep \/ ListenerStep \/ SpuriousWakeup
     \/ \E t \in Tasks : TaskStep(t) \/ Crash(t)

Spec == Init /\ [][Next]_vars

\* Threads that can run do run: the pool has a thread besides the listener's
\* (the constructor checks it), and the compiling thread eventually finishes.
\* Nothing makes spurious wakeups happen.
Running(A) == compiler # "crashed" /\ UNCHANGED config /\ A

FairSpec ==
  /\ Spec
  /\ WF_vars(Running(ListenerStep))
  /\ WF_vars(Running(UseContent \/ StopFoldingListener \/ RemoveCache \/ DestructorWait))
  /\ \A t \in Tasks : WF_vars(Running(TaskStep(t)))

-----------------------------------------------------------------------------
(***************************************************************************)
(* Properties.                                                             *)
(***************************************************************************)
Places == {"idle", "replace", "move", "look", "partial", "extend", "add", "account", "limit",
           "evict", "evicted", "cleaned", "drop", "dropped", "finish", "notify", "done"}

\* The values the state of the folding threads and of the cache may hold.
TypeOK ==
  /\ config \in Configs
  /\ compiler \in {"compile", "reading", "join", "check", "blocking", "asleep", "destroyed", "crashed"}
  /\ held \in Tasks \cup {None}
  /\ sent \in 0 .. MaxRequests
  /\ lookups \in 0 .. MaxLookups
  /\ queue \in Seq(Requests \cup {TerminationToken})
  /\ listener \in {"get", "check", "blocking", "asleep", "exited"}
  /\ request \in Requests \cup {None}
  /\ active \in Nat
  /\ pc \in [Tasks -> Places]
  /\ \A t \in Tasks : job[t] # None => job[t].attr \in Attrs
  /\ \A t \in Tasks : DOMAIN victims[t] \subseteq Attrs
  /\ doomed \in [Tasks -> Attrs \cup {None}]
  /\ content \in [Attrs -> [buffer : Tasks, refCount : Int] \cup {None}]
  /\ locked \in [Attrs -> Tasks \cup {None}]
  /\ memory \in 0 .. MemoryWrap - 1
  /\ alive \in BOOLEAN

CacheSettled == \A t \in Tasks : ~UsesCache(t)

\* _activeTasks counts the tasks that have not reported completion, through all
\* interleavings of its increment by the listener and its decrement by tasks,
\* and the pool never holds more than _maxConcurrentTasks of them.
ActiveTasksBounded ==
  /\ active = Cardinality({t \in Tasks : pc[t] \notin {"idle", "notify", "done"}})
  /\ active <= MaxConcurrentTasks

NoEquivalence == \A r \in Requests : r.kind # "equivalence"

\* With one folding thread, the default, and no equivalence among the requests
\* (replaceContentAttr does not touch the counter): whenever no task works on the
\* cache, the memory addContent and removeContent accounted for is what the cached
\* constants take, and below the limit: cleanUpCache frees enough, even for a
\* constant that alone reaches it.
MemoryMatchesCache ==
  (MaxConcurrentTasks = 1 /\ CacheSettled /\ NoEquivalence) =>
    /\ memory = MapThenSumSet(LAMBDA a : Size[a], {a \in Attrs : Cached(a)})
    /\ memory < MemoryUsageLimit

\* The limit is so high that nothing is ever evicted.
NothingEvicted == MemoryUsageLimit > MaxRequests * Max({Size[a] : a \in Attrs})

\* If nothing is evicted, what a finished task was asked to fold can be found in
\* the cache, under its own attribute or under one that an equivalence or a
\* further transformation of it has put in its place.
\* Extensions and equivalences of an instance go
\* the same way: a rename back to what a running extension started from loses both.
FoldedStaysCached ==
  \A t \in Tasks :
    (NothingEvicted /\ pc[t] \in {"finish", "notify", "done"}) =>
      \/ Cached(job[t].attr)
      \/ \E u \in Tasks : /\ pc[u] # "idle"
                          /\ job[u].from = job[t].attr
                          /\ Cached(job[u].attr)

\* The buffer the compiling thread reads after getContent stays in the cache
\* until it is done with it.
ReferencesStayValid ==
  compiler = "reading" => \E a \in Attrs : Cached(a) /\ content[a].buffer = held

\* No task works on the cache after removeCache has destroyed it.
CacheOutlivesTasks == ~alive => CacheSettled

\* Renames that wait for each other: each has locked its original entry and wants
\* the original entry of another one of them.
BlockedRenames ==
  {R \in SUBSET {t \in Tasks : pc[t] = "move"} : \A t \in R : locked[job[t].attr] \in R}

\* The task goes on only when a task of R has released an entry.
WaitsFor(t, R) ==
  \/ pc[t] \in {"move", "look", "add"} /\ locked[job[t].attr] \in R
  \/ pc[t] \in {"replace", "partial", "drop"} /\ locked[job[t].from] \in R
  \/ pc[t] = "evict" /\ \E a \in DOMAIN victims[t] : locked[a] \in R

\* replaceContentAttr inserts the new entry with the original one locked, so renames
\* in opposite directions can wait for each other forever.  Nothing else blocks a
\* task: one that was started completes, unless it is one of such renames or needs
\* an entry that one of them has locked.
EveryTaskFinishes ==
  \A t \in Tasks :
    pc[t] # "idle" ~>
      \/ pc[t] = "done" \/ compiler = "crashed"
      \/ \E R \in BlockedRenames : WaitsFor(t, R)

\* The n-th request is served by the n-th task, and each one is served.
EveryRequestServed ==
  \A n \in Tasks : sent >= n ~> pc[n] = "done" \/ compiler = "crashed"
=============================================================================
