----------------------------- MODULE LuaThreads -----------------------------
(***************************************************************************)
(* The scripts of a game.  Abilities run as Lua coroutines, each on a      *)
(* LuaThread that is taken from a pool and goes back to it at the end; a   *)
(* script that waits is resumed by Lua::Update once its condition is met.  *)
(* An object keeps a pointer to the last thread it took and is busy while  *)
(* that thread is not dead.  All of it happens on the RakNet thread: a     *)
(* script runs until it waits or ends, and what it starts runs inside it.  *)
(* Which Lua states there are is abstracted to whether mThreads finds a    *)
(* thread by the state it has now: a new state is never one it knew.       *)
(***************************************************************************)
EXTENDS Naturals, Sequences, FiniteSets, SequencesExt

CONSTANTS
    Threads,            \* the LuaThreads there can be
    Objects,            \* the objects that have a thread of their own
    Nobody,             \* scripts without one: activation, objectives, nThread.Create
    None,               \* no thread
    MAX_LUA_THREADS,
    MinBuckets,         \* an unordered_set has room for so many at first: 8
    MaxCalls            \* bound: scripts that scripts start in one turn of the server

ASSUME LuaThreadsAssumption ==
    /\ Nobody \notin Objects /\ None \notin Threads
    /\ MaxCalls \in Nat /\ MinBuckets \in Nat

VARIABLES
    script,             \* what became of the coroutine of each thread: "none" is over
    condition,          \* mResumeCondition: "met" (none), "time" or "world"
    known,              \* mThreads has the thread under its present state
    owner,              \* history: who the script of a thread was started for
    mThreadPool,
    mYieldedThreads,
    mLuaThread,         \* of each object
    stack,              \* the scripts that run, the innermost last
    left,               \* the threads Lua::Update has still to look at
    updating,           \* it is inside its loop
    buckets,            \* of mYieldedThreads: they never become fewer
    calls,              \* scripts started by scripts in this turn
    down                \* a thread was used after it was deleted, or erased twice

threadVars == <<script, condition, known, owner>>
updateVars == <<left, updating, buckets>>
vars == <<threadVars, mThreadPool, mYieldedThreads, mLuaThread, stack, updateVars, calls, down>>

TypeOK ==
    /\ script \in [Threads -> {"absent", "none", "running", "waiting", "failed", "deleted"}]
    /\ condition \in [Threads -> {"met", "time", "world"}]
    /\ known \in [Threads -> BOOLEAN]
    /\ owner \in [Threads -> Objects \cup {Nobody}]
    /\ mThreadPool \in Seq(Threads)
    /\ mYieldedThreads \subseteq Threads /\ left \subseteq Threads
    /\ mLuaThread \in [Objects -> Threads \cup {None}]
    /\ \A i \in DOMAIN stack : stack[i].thread \in Threads /\ stack[i].by \in {"call", "resume"}
    /\ updating \in BOOLEAN /\ buckets \in Nat /\ calls \in 0..MaxCalls /\ down \in BOOLEAN

Init ==
    /\ script = [t \in Threads |-> "absent"]
    /\ condition = [t \in Threads |-> "met"]
    /\ known = [t \in Threads |-> FALSE]
    /\ owner = [t \in Threads |-> Nobody]
    /\ mThreadPool = <<>>
    /\ mYieldedThreads = {} /\ left = {}
    /\ mLuaThread = [o \in Objects |-> None]
    /\ stack = <<>>
    /\ updating = FALSE /\ buckets = MinBuckets /\ calls = 0 /\ down = FALSE

Running == Last(stack).thread
ByUpdate == Last(stack).by = "resume"
Waits(t) == script[t] = "waiting"

\* Undefined behaviour: nothing is said of what follows.
Break ==
    /\ down' = TRUE
    /\ UNCHANGED <<threadVars, mThreadPool, mYieldedThreads, mLuaThread, stack, updateVars, calls>>

-----------------------------------------------------------------------------
(* Taking a thread and giving it back                                      *)

\* mThreads keeps an entry of every thread that was not deleted.
Count == Cardinality({t \in Threads : script[t] \notin {"absent", "deleted"}})
\* A deleted thread that no object points to is as good as one that never was.
Fresh == {t \in Threads : \/ script[t] = "absent"
                          \/ script[t] = "deleted" /\ \A o \in Objects : mLuaThread[o] # t}
\* Which of them a new thread is makes no difference.
Made == {t \in Fresh : t = CHOOSE u \in Fresh : TRUE}
Spawned == IF mThreadPool # <<>> THEN {Last(mThreadPool)} ELSE Made
SpawnThread(t) ==
    /\ t \in Spawned
    /\ mThreadPool' = IF mThreadPool # <<>> THEN Front(mThreadPool) ELSE <<>>
    /\ known' = [known EXCEPT ![t] = @ \/ mThreadPool = <<>>]
    /\ condition' = IF mThreadPool # <<>> THEN condition ELSE [condition EXCEPT ![t] = "met"]

\* A thread whose state is not the one it was registered with cannot be erased.
ReturnThreadToPool(t) ==
    IF Count > MAX_LUA_THREADS
    THEN /\ script' = [script EXCEPT ![t] = "deleted"]
         /\ down' = ~known[t]
         /\ UNCHANGED mThreadPool
    ELSE /\ script' = [script EXCEPT ![t] = "none"]
         /\ mThreadPool' = Append(mThreadPool, t)
         /\ UNCHANGED down

-----------------------------------------------------------------------------
(* Starting a script                                                       *)

Alive(t) == script[t] \in {"running", "waiting", "failed"}
Dangling(o) == o # Nobody /\ mLuaThread[o] # None /\ script[mLuaThread[o]] = "deleted"
IsRunning(o) == o # Nobody /\ mLuaThread[o] # None /\ script[mLuaThread[o]] = "running"
    \* Mutant: a thread that waits counts as dead
IsBusy(o) == o # Nobody /\ mLuaThread[o] # None /\ Alive(mLuaThread[o])

Run(t, o) ==
    /\ SpawnThread(t)
    /\ script' = [script EXCEPT ![t] = "running"]
    /\ owner' = [owner EXCEPT ![t] = o]
    /\ mLuaThread' = IF o = Nobody THEN mLuaThread ELSE [mLuaThread EXCEPT ![o] = t]
    /\ stack' = Append(stack, [thread |-> t, by |-> "call"])
    /\ UNCHANGED <<mYieldedThreads, updateVars, down>>

\* A busy object's request is refused: nothing changes.
Tick(o) ==
    IF Dangling(o) THEN Break
    ELSE ~IsBusy(o) /\ \E t \in Threads : Run(t, o) /\ calls' = IF stack = <<>> THEN calls ELSE calls + 1

Idle == stack = <<>> /\ ~updating /\ ~down
UseAbility == Idle /\ \E o \in Objects : Tick(o)
OnTick == Idle /\ \E o \in Objects \cup {Nobody} : Tick(o)

-----------------------------------------------------------------------------
(* What the script that runs does next                                     *)

Scripted == stack # <<>> /\ ~down
ScriptUsesAbility == Scripted /\ calls < MaxCalls /\ \E o \in Objects : Tick(o)
Create == Scripted /\ calls < MaxCalls /\ \E o \in Objects \cup {Nobody} : Tick(o)

\* An insertion leaves the order of the others alone, and Update comes to the new
\* thread or not.  One that needs more buckets orders the set anew: what Update
\* comes to after the thread it is at is anybody's guess.
YieldThread(t) ==
    /\ mYieldedThreads' = mYieldedThreads \cup {t}
    /\ buckets' = IF Cardinality(mYieldedThreads') > buckets THEN 8 * buckets ELSE buckets
    /\ IF ~updating \/ t \in mYieldedThreads THEN UNCHANGED left
       ELSE \/ left' \in {left, left \cup {t}}
            \/ buckets' # buckets /\ left' \in SUBSET (mYieldedThreads' \ {stack[1].thread})

\* The bound on what scripts start begins anew with each turn.
Counted == calls' = IF Len(stack) = 1 /\ ~updating THEN 0 ELSE calls
Suspend ==
    /\ script' = [script EXCEPT ![Running] = "waiting"]
    /\ stack' = Front(stack) /\ Counted
    /\ UNCHANGED <<known, owner, mThreadPool, mLuaThread, updating, down>>

\* nThread.Sleep, WaitForXSeconds, WaitUntilTime; WaitForCallback and the others.
\* Every one of them suspends the script, also when GetThread finds nothing.
WaitFor(kind) ==
    IF known[Running]
    THEN /\ condition' = IF kind = "met" THEN condition ELSE [condition EXCEPT ![Running] = kind]
         /\ YieldThread(Running)
    ELSE UNCHANGED <<condition, mYieldedThreads, left, buckets>>
Wait(kind) == Scripted /\ WaitFor(kind) /\ Suspend
Sleep == Wait("met") \/ Wait("time")
WaitForCallback == Wait("world")

Finish ==
    /\ Scripted
    /\ ReturnThreadToPool(Running)
    /\ mYieldedThreads' = IF ByUpdate THEN mYieldedThreads \ {Running} ELSE mYieldedThreads
    /\ owner' = [owner EXCEPT ![Running] = Nobody]
    /\ stack' = Front(stack) /\ Counted
    /\ UNCHANGED <<condition, known, mLuaThread, updateVars>>

\* An error: the thread is not given back, and Update looks at it for ever, but not
\* at its condition.
Fail ==
    /\ Scripted
    /\ script' = [script EXCEPT ![Running] = "failed"]
    /\ owner' = [owner EXCEPT ![Running] = Nobody]
    /\ stack' = Front(stack) /\ Counted
    /\ condition' = [condition EXCEPT ![Running] = "met"]
    /\ UNCHANGED <<known, mThreadPool, mYieldedThreads, mLuaThread, updateVars, down>>

-----------------------------------------------------------------------------
(* Lua::Update                                                             *)

StartUpdate ==
    /\ Idle
    /\ updating' = TRUE
    /\ left' = mYieldedThreads
    /\ UNCHANGED <<threadVars, mThreadPool, mYieldedThreads, mLuaThread, stack, buckets, calls, down>>

\* resume: a stopped script is over; a failed one, or one that waits, stays.
\* WaitingEnds is a Mutant: the first that has to wait ends the loop.
WaitingEnds(t) == IF Waits(t) /\ condition[t] # "met" THEN {} ELSE left \ {t}
Passed(t) == left \ {t}
Visit(t) ==
    /\ stack = <<>> /\ updating /\ ~down
    /\ t \in left
    /\ left' = Passed(t)
    /\ \/ /\ script[t] = "none"
          /\ mYieldedThreads' = mYieldedThreads \ {t}
          /\ ReturnThreadToPool(t)
          /\ UNCHANGED <<condition, stack>>
       \/ /\ Waits(t) /\ condition[t] = "met"
          /\ script' = [script EXCEPT ![t] = "running"]
          /\ stack' = <<[thread |-> t, by |-> "resume"]>>
          /\ UNCHANGED <<condition, mThreadPool, mYieldedThreads, down>>
       \/ /\ script[t] = "failed" \/ condition[t] # "met"
          /\ script[t] # "none"
          /\ UNCHANGED <<script, condition, mThreadPool, mYieldedThreads, stack, down>>
    /\ UNCHANGED <<known, owner, mLuaThread, updating, buckets, calls>>

EndUpdate ==
    /\ stack = <<>> /\ updating /\ left = {} /\ ~down
    /\ updating' = FALSE /\ calls' = 0
    /\ UNCHANGED <<threadVars, mThreadPool, mYieldedThreads, mLuaThread, stack, left, buckets, down>>

-----------------------------------------------------------------------------
(* From outside                                                            *)

\* The time has come, or the hit points, the projectile, the callback: asked while
\* the script waits only.
Elapse(t) ==
    /\ Waits(t) /\ condition[t] = "time" /\ ~down
    /\ condition' = [condition EXCEPT ![t] = "met"]
    /\ UNCHANGED <<script, known, owner, mThreadPool, mYieldedThreads, mLuaThread, stack,
                   updateVars, calls, down>>
Happen(t) ==
    /\ Waits(t) /\ condition[t] = "world" /\ ~down
    /\ condition' = [condition EXCEPT ![t] = "met"]
    /\ UNCHANGED <<script, known, owner, mThreadPool, mYieldedThreads, mLuaThread, stack,
                   updateVars, calls, down>>

StopAndReturn(t) ==     \* Mutant: a stopped thread goes to the pool at once
    /\ script' = [script EXCEPT ![t] = "none"]
    /\ known' = [known EXCEPT ![t] = FALSE]
    /\ owner' = [owner EXCEPT ![t] = Nobody]
    /\ mThreadPool' = Append(mThreadPool, t)
    /\ UNCHANGED <<condition, mYieldedThreads>>
\* The thread an object has may be in the pool, or another's by now: it is
\* stopped all the same, and gets a state that mThreads does not know.
Stop(t) ==
    /\ script' = [script EXCEPT ![t] = "none"]
    /\ known' = [known EXCEPT ![t] = FALSE]
    /\ owner' = [owner EXCEPT ![t] = Nobody]
    /\ UNCHANGED <<condition, mThreadPool, mYieldedThreads>>
CancelAction(o) ==
    /\ Idle
    /\ mLuaThread[o] # None
    /\ IF Dangling(o) THEN Break
       ELSE Stop(mLuaThread[o]) /\ UNCHANGED <<mLuaThread, stack, updateVars, calls, down>>

-----------------------------------------------------------------------------
Ends == Sleep \/ WaitForCallback \/ Finish \/ Fail
Look == \E t \in Threads : Visit(t)

Next ==
    \/ UseAbility \/ OnTick \/ ScriptUsesAbility \/ Create
    \/ Sleep \/ WaitForCallback \/ Finish \/ Fail
    \/ StartUpdate \/ Look \/ EndUpdate
    \/ \E t \in Threads : Elapse(t) \/ Happen(t)
    \/ \E o \in Objects : CancelAction(o)

Spec == Init /\ [][Next]_vars

\* Instance::Update runs in every turn of the server's loop, whatever packets
\* do in between; scripts end or wait; time passes.
Fairness ==
    /\ WF_vars(Ends) /\ SF_vars(StartUpdate) /\ WF_vars(Look) /\ WF_vars(EndUpdate)
    /\ \A t \in Threads : WF_vars(Elapse(t))
FairSpec == Spec /\ Fairness

-----------------------------------------------------------------------------
(* Properties                                                              *)

\* What SpawnThread takes from the pool is nobody's: it is there once, runs no
\* script, waits for nothing and is not looked at by Update, whatever was
\* cancelled, reused or resumed in between.
PoolIsIdle ==
    ~down =>
        /\ Cardinality(ToSet(mThreadPool)) = Len(mThreadPool)
        /\ \A t \in ToSet(mThreadPool) :
               /\ script[t] = "none"
               /\ t \notin mYieldedThreads
               /\ \A i \in DOMAIN stack : stack[i].thread # t

\* An object never has two scripts at a time: one that waits blocks the next,
\* also when it is started from inside another script or after a cancel.
OneScriptEach ==
    ~down => \A o \in Objects :
        Cardinality({t \in Threads : owner[t] = o /\ script[t] \in {"running", "waiting"}}) <= 1

\* A script that waits for time only is resumed, or stopped, in the end: scripts
\* that wait for ever, fail, or start new ones that wait, whenever Update resumes
\* them, do not keep it waiting, because the set that Update goes through is
\* ordered anew only as often as its buckets grow.  A script on a thread that was
\* stopped before is exempt: it waits for ever, since mThreads does not find it.
Resumed ==
    \A t \in Threads :
        (Waits(t) /\ known[t] /\ condition[t] # "world") ~> (~Waits(t) \/ down)
=============================================================================
