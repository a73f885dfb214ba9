-------------------------- MODULE LuaThreadsProofs ---------------------------
(***************************************************************************)
(* Theorems about LuaThreads for any number of threads and objects, any    *)
(* size of the pool and any depth of scripts that start scripts.           *)
(*                                                                         *)
(* IInv says where a thread can be: in the pool, on the stack of running   *)
(* scripts or in the set that Update goes through, and of which the next   *)
(* step of Update, which reads that set while scripts change it.           *)
(***************************************************************************)
EXTENDS LuaThreads, SequenceLemmas

Frame == [thread : Threads, by : {"call", "resume"}]

StackIsTyped == stack \in Seq(Frame)

\* The pool holds a thread once, and only threads that are at rest.
PoolRests ==
  /\ IsInjective(mThreadPool)
  /\ \A t \in ToSet(mThreadPool) : script[t] = "none" /\ t \notin mYieldedThreads

\* A thread is on the stack once, while its script runs.
StackRuns ==
  /\ \A i \in DOMAIN stack : script[stack[i].thread] = "running"
  /\ \A i, j \in DOMAIN stack : stack[i].thread = stack[j].thread => i = j

\* Update goes through threads that were started and not deleted.
YieldedExist == \A t \in mYieldedThreads : script[t] \notin {"absent", "deleted"}

\* A script that was called has not waited yet.
CalledIsNew == \A i \in DOMAIN stack : stack[i].by = "call" => stack[i].thread \notin mYieldedThreads

\* Update has still to look at threads of the set only, and not again at the one
\* it resumed, which is the outermost script.
UpdateLooksAhead ==
  /\ left \subseteq mYieldedThreads
  /\ \A i \in DOMAIN stack :
       stack[i].by = "resume" => i = 1 /\ updating /\ stack[i].thread \notin left

\* The script of an object is on the thread the object took last.
OwnsLatest ==
  \A t \in Threads : owner[t] \in Objects /\ script[t] \in {"running", "waiting"} =>
    mLuaThread[owner[t]] = t

IInv ==
  /\ TypeOK
  /\ StackIsTyped
  /\ PoolRests
  /\ StackRuns
  /\ YieldedExist
  /\ CalledIsNew
  /\ UpdateLooksAhead
  /\ OwnsLatest

----------------------------------------------------------------------------
USE DEF threadVars, updateVars

LEMMA InitIInv == Init => IInv
<1> SUFFICES ASSUME Init PROVE IInv
  OBVIOUS
<1>1. updating \in BOOLEAN /\ down \in BOOLEAN /\ known \in [Threads -> BOOLEAN]
  BY DEF Init
<1>2. <<>> \in Seq(Threads) /\ <<>> \in Seq(Frame) /\ DOMAIN <<>> = {} /\ ToSet(<<>>) = {}
  BY EmptySeq DEF ToSet
<1>3. TypeOK
  BY <1>1, <1>2, LuaThreadsAssumption DEF Init, TypeOK
<1>4. StackIsTyped /\ PoolRests /\ StackRuns /\ YieldedExist
  BY <1>2 DEF Init, StackIsTyped, PoolRests, StackRuns, YieldedExist, IsInjective
<1>5. CalledIsNew /\ UpdateLooksAhead /\ OwnsLatest
  BY <1>2 DEF Init, CalledIsNew, UpdateLooksAhead, OwnsLatest
<1> QED BY <1>3, <1>4, <1>5 DEF IInv

\* The innermost script and what is left when it waits, ends or fails.
LEMMA Innermost ==
  ASSUME IInv, stack # <<>>
  PROVE  /\ Running \in Threads /\ script[Running] = "running"
         /\ Running \notin ToSet(mThreadPool)
         /\ Front(stack) \in Seq(Frame)
         /\ \A i \in DOMAIN Front(stack) :
              /\ i \in DOMAIN stack /\ Front(stack)[i] = stack[i]
              /\ stack[i].thread # Running
         /\ ByUpdate => Running \notin left
         /\ ~ByUpdate => Running \notin mYieldedThreads
<1>1. stack \in Seq(Frame) /\ Len(stack) \in Nat /\ Len(stack) > 0 /\ DOMAIN stack = 1..Len(stack)
  BY EmptySeq, LenProperties DEF IInv, StackIsTyped
<1>2. Last(stack) = stack[Len(stack)] /\ Len(stack) \in DOMAIN stack /\ stack[Len(stack)] \in Frame
  BY <1>1, ElementOfSeq DEF Last
<1>3. Running \in Threads /\ script[Running] = "running"
  BY <1>1, <1>2 DEF Running, Frame, IInv, StackRuns
<1>4. Running \notin ToSet(mThreadPool)
  BY <1>3 DEF IInv, PoolRests
<1>5. Front(stack) \in Seq(Frame) /\ DOMAIN Front(stack) = 1..(Len(stack) - 1)
      /\ \A i \in 1..(Len(stack) - 1) : Front(stack)[i] = stack[i]
  BY <1>1, FrontLast, LenProperties
<1>6. \A n \in Nat : \A i \in 1..(n - 1) : i # n /\ i \in 1..n
  OBVIOUS
<1>7. \A i \in DOMAIN Front(stack) : i \in DOMAIN stack /\ i # Len(stack)
  BY <1>1, <1>5, <1>6, Zenon
<1>8. \A i \in DOMAIN Front(stack) : stack[i].thread # Running
  BY <1>2, <1>7 DEF IInv, StackRuns, Running
<1>9. ByUpdate => Running \notin left
  BY <1>2 DEF IInv, UpdateLooksAhead, ByUpdate, Running
<1>10. ~ByUpdate => Running \notin mYieldedThreads
  BY <1>2 DEF IInv, CalledIsNew, ByUpdate, Running, Frame
<1> QED BY <1>3, <1>4, <1>5, <1>7, <1>8, <1>9, <1>10

\* A thread that SpawnThread gives is nowhere else.
LEMMA SpawnedIsIdle ==
  ASSUME IInv, NEW t \in Spawned
  PROVE  /\ t \in Threads /\ script[t] \in {"none", "absent", "deleted"}
         /\ t \notin mYieldedThreads /\ t \notin left
         /\ \A i \in DOMAIN stack : stack[i].thread # t
<1>1. t \in Threads /\ script[t] \in {"none", "absent", "deleted"} /\ t \notin mYieldedThreads
  <2>1. CASE mThreadPool # <<>>
    <3>1. mThreadPool \in Seq(Threads) /\ t = Last(mThreadPool)
      BY <2>1 DEF IInv, TypeOK, Spawned
    <3>2. t \in Threads /\ t \in ToSet(mThreadPool)
      BY <2>1, <3>1, FrontLast
    <3> QED BY <3>2 DEF IInv, PoolRests
  <2>2. CASE mThreadPool = <<>>
    BY <2>2 DEF Spawned, Made, Fresh, IInv, YieldedExist
  <2> QED BY <2>1, <2>2
<1> QED BY <1>1 DEF IInv, StackRuns, UpdateLooksAhead

\* Appending a script to the stack.
LEMMA Pushed ==
  ASSUME IInv, NEW f \in Frame
  PROVE  /\ Append(stack, f) \in Seq(Frame)
         /\ \A i \in DOMAIN Append(stack, f) :
              \/ i \in DOMAIN stack /\ Append(stack, f)[i] = stack[i]
              \/ i = Len(stack) + 1 /\ Append(stack, f)[i] = f
<1>1. stack \in Seq(Frame) /\ Len(stack) \in Nat /\ DOMAIN stack = 1..Len(stack)
  BY LenProperties DEF IInv, StackIsTyped
<1>2. /\ Append(stack, f) \in Seq(Frame)
      /\ DOMAIN Append(stack, f) = 1..(Len(stack) + 1)
      /\ \A i \in 1..Len(stack) : Append(stack, f)[i] = stack[i]
      /\ Append(stack, f)[Len(stack) + 1] = f
  BY <1>1, AppendProperties, LenProperties
<1> QED BY <1>1, <1>2

----------------------------------------------------------------------------
LEMMA BreakInv ==
  ASSUME IInv, Break
  PROVE  IInv'
<1>1. TypeOK'
  BY Zenon DEF IInv, TypeOK, Break
<1> QED
  BY <1>1 DEF Break, IInv, StackIsTyped, PoolRests, StackRuns, YieldedExist, CalledIsNew,
    UpdateLooksAhead, OwnsLatest

\* Starting a script is safe for an object whose last thread is not alive.
LEMMA RunInv ==
  ASSUME IInv, NEW o \in Objects \cup {Nobody}, NEW t \in Threads, Run(t, o), ~IsBusy(o),
         calls' \in 0..MaxCalls
  PROVE  IInv'
<1> DEFINE f == [thread |-> t, by |-> "call"]
<1>1. /\ t \in Spawned /\ script' = [script EXCEPT ![t] = "running"]
      /\ mThreadPool' = IF mThreadPool # <<>> THEN Front(mThreadPool) ELSE <<>>
      /\ known' = [known EXCEPT ![t] = known[t] \/ mThreadPool = <<>>]
      /\ owner' = [owner EXCEPT ![t] = o]
      /\ mLuaThread' = IF o = Nobody THEN mLuaThread ELSE [mLuaThread EXCEPT ![o] = t]
      /\ stack' = Append(stack, f)
      /\ condition' = IF mThreadPool # <<>> THEN condition ELSE [condition EXCEPT ![t] = "met"]
      /\ UNCHANGED <<mYieldedThreads, left, updating, buckets, down>>
  BY DEF Run, SpawnThread
<1>2. /\ script[t] \in {"none", "absent", "deleted"} /\ t \notin mYieldedThreads /\ t \notin left
      /\ \A i \in DOMAIN stack : stack[i].thread # t
  BY <1>1, SpawnedIsIdle
<1>3. /\ stack' \in Seq(Frame)
      /\ \A i \in DOMAIN stack' :
           \/ i \in DOMAIN stack /\ stack'[i] = stack[i]
           \/ i = Len(stack) + 1 /\ stack'[i] = f
      /\ \A i \in DOMAIN stack' : stack'[i] \in Frame
  <2>1. f \in Frame
    BY DEF Frame
  <2> QED BY <1>1, <2>1, Pushed, ElementOfSeq, LenProperties
<1>4. /\ mThreadPool' \in Seq(Threads) /\ IsInjective(mThreadPool')
      /\ ToSet(mThreadPool') \subseteq ToSet(mThreadPool) \ {t}
  <2>1. mThreadPool \in Seq(Threads) /\ IsInjective(mThreadPool)
    BY DEF IInv, TypeOK, PoolRests
  <2>2. CASE mThreadPool # <<>>
    BY <1>1, <2>1, <2>2, FrontLast, FrontInjective DEF Spawned
  <2>3. CASE mThreadPool = <<>>
    BY <1>1, <2>1, <2>3 DEF ToSet
  <2> QED BY <2>2, <2>3
<1>5. TypeOK'
  <2>1. known' \in [Threads -> BOOLEAN]
    BY <1>1, Zenon DEF IInv, TypeOK
  <2>2. mLuaThread' \in [Objects -> Threads \cup {None}] /\ owner' \in [Threads -> Objects \cup {Nobody}]
    BY <1>1 DEF IInv, TypeOK
  <2>3. \A i \in DOMAIN stack' : stack'[i].thread \in Threads /\ stack'[i].by \in {"call", "resume"}
    BY <1>3 DEF Frame
  <2>4. updating' \in BOOLEAN /\ down' \in BOOLEAN
    BY <1>1, Zenon DEF IInv, TypeOK
  <2> QED BY <1>1, <1>4, <2>1, <2>2, <2>3, <2>4 DEF IInv, TypeOK
<1>6. PoolRests'
  BY <1>1, <1>4 DEF IInv, TypeOK, PoolRests
<1>7. StackRuns'
  BY <1>1, <1>2, <1>3 DEF IInv, TypeOK, StackRuns
<1>8. YieldedExist'
  BY <1>1 DEF IInv, TypeOK, YieldedExist
<1>9. CalledIsNew'
  BY <1>1, <1>2, <1>3 DEF IInv, CalledIsNew
<1>10. UpdateLooksAhead'
  BY <1>1, <1>2, <1>3 DEF IInv, UpdateLooksAhead
<1>11. OwnsLatest'
  <2>1. script \in [Threads -> {"absent", "none", "running", "waiting", "failed", "deleted"}]
        /\ owner \in [Threads -> Objects \cup {Nobody}]
        /\ mLuaThread \in [Objects -> Threads \cup {None}]
    BY DEF IInv, TypeOK
  <2> SUFFICES ASSUME NEW u \in Threads, owner'[u] \in Objects, script'[u] \in {"running", "waiting"}
               PROVE  mLuaThread'[owner'[u]] = u
    BY DEF OwnsLatest
  <2>2. CASE u = t
    BY <1>1, <2>1, <2>2, LuaThreadsAssumption
  <2>3. CASE u # t
    <3>1. owner'[u] = owner[u] /\ script'[u] = script[u] /\ mLuaThread[owner[u]] = u
      BY <1>1, <2>1, <2>3 DEF IInv, OwnsLatest
    <3>2. owner[u] # o
      BY <2>1, <3>1, LuaThreadsAssumption DEF IsBusy, Alive
    <3> QED BY <1>1, <2>1, <3>1, <3>2
  <2> QED BY <2>2, <2>3
<1>12. StackIsTyped'
  BY <1>3 DEF StackIsTyped
<1> QED BY <1>5, <1>6, <1>7, <1>8, <1>9, <1>10, <1>11, <1>12 DEF IInv

LEMMA TickInv ==
  ASSUME IInv, NEW o \in Objects \cup {Nobody}, Tick(o), stack = <<>> \/ calls < MaxCalls
  PROVE  IInv'
<1>1. CASE Dangling(o)
  BY <1>1, BreakInv DEF Tick
<1>2. CASE ~Dangling(o)
  <2>1. PICK t \in Threads : Run(t, o) /\ ~IsBusy(o) /\ calls' = IF stack = <<>> THEN calls ELSE calls + 1
    BY <1>2 DEF Tick
  <2>2. calls' \in 0..MaxCalls
    BY <2>1, LuaThreadsAssumption DEF IInv, TypeOK
  <2> QED BY <2>1, <2>2, RunInv
<1> QED BY <1>1, <1>2

\* A script that waits while Update goes through the set it is put into.
LEMMA WaitInv ==
  ASSUME IInv, NEW kind \in {"met", "time", "world"}, Wait(kind)
  PROVE  IInv'
<1> DEFINE t == Running
<1>1. /\ stack # <<>> /\ script' = [script EXCEPT ![t] = "waiting"] /\ stack' = Front(stack)
      /\ calls' \in {0, calls}
      /\ UNCHANGED <<known, owner, mThreadPool, mLuaThread, updating, down>>
  BY DEF Wait, Suspend, Scripted, Counted
<1>2. /\ t \in Threads /\ script[t] = "running" /\ t \notin ToSet(mThreadPool)
      /\ Front(stack) \in Seq(Frame)
      /\ \A i \in DOMAIN Front(stack) :
           i \in DOMAIN stack /\ Front(stack)[i] = stack[i] /\ stack[i].thread # t
  BY <1>1, Innermost
<1>3. /\ condition' \in [Threads -> {"met", "time", "world"}]
      /\ mYieldedThreads \subseteq mYieldedThreads' /\ mYieldedThreads' \subseteq mYieldedThreads \cup {t}
      /\ left' \subseteq mYieldedThreads'
      /\ left' \subseteq left \cup {t} \/ stack[1].thread \notin left'
      /\ buckets' \in Nat
  <2>1. CASE known[t]
    <3>1. /\ condition' = IF kind = "met" THEN condition ELSE [condition EXCEPT ![t] = kind]
          /\ YieldThread(t)
      BY <2>1 DEF Wait, WaitFor
    <3> HIDE DEF t
    <3>2. condition' \in [Threads -> {"met", "time", "world"}]
      BY <3>1 DEF IInv, TypeOK
    <3>3. mYieldedThreads' = mYieldedThreads \cup {t}
      BY <3>1 DEF YieldThread
    <3>4. \/ left' \in {left, left \cup {t}}
          \/ left' \in SUBSET (mYieldedThreads' \ {stack[1].thread})
      BY <3>1 DEF YieldThread
    <3>5. buckets' \in Nat
      BY <3>1 DEF YieldThread, IInv, TypeOK
    <3> QED BY <1>2, <3>2, <3>3, <3>4, <3>5 DEF IInv, UpdateLooksAhead
  <2>2. CASE ~known[t]
    <3>1. UNCHANGED <<condition, mYieldedThreads, left, buckets>>
      BY <2>2 DEF Wait, WaitFor
    <3> QED BY <3>1 DEF IInv, TypeOK, UpdateLooksAhead
  <2> QED BY <2>1, <2>2
<1> HIDE DEF t
<1>4. StackIsTyped'
  BY <1>1, <1>2 DEF StackIsTyped
<1>5. TypeOK'
  <2>1. updating' \in BOOLEAN /\ down' \in BOOLEAN /\ known' \in [Threads -> BOOLEAN]
    BY <1>1, Zenon DEF IInv, TypeOK
  <2>2. \A i \in DOMAIN stack' : stack'[i].thread \in Threads /\ stack'[i].by \in {"call", "resume"}
    BY <1>1, <1>2 DEF IInv, TypeOK
  <2>3. mYieldedThreads' \subseteq Threads /\ left' \subseteq Threads
    BY <1>2, <1>3 DEF IInv, TypeOK
  <2>4. calls' \in 0..MaxCalls
    BY <1>1, LuaThreadsAssumption DEF IInv, TypeOK
  <2> QED BY <1>1, <1>2, <1>3, <2>1, <2>2, <2>3, <2>4 DEF IInv, TypeOK
<1>6. PoolRests'
  BY <1>1, <1>2, <1>3 DEF IInv, TypeOK, PoolRests
<1>7. StackRuns'
  BY <1>1, <1>2 DEF IInv, TypeOK, StackRuns
<1>8. YieldedExist'
  BY <1>1, <1>2, <1>3 DEF IInv, TypeOK, YieldedExist
<1>9. CalledIsNew'
  BY <1>1, <1>2, <1>3 DEF IInv, CalledIsNew
<1>10. UpdateLooksAhead'
  BY <1>1, <1>2, <1>3 DEF IInv, UpdateLooksAhead
<1>11. OwnsLatest'
  BY <1>1, <1>2 DEF IInv, TypeOK, OwnsLatest
<1> QED BY <1>4, <1>5, <1>6, <1>7, <1>8, <1>9, <1>10, <1>11 DEF IInv

LEMMA FailInv ==
  ASSUME IInv, Fail
  PROVE  IInv'
<1> DEFINE t == Running
<1>1. /\ stack # <<>> /\ script' = [script EXCEPT ![t] = "failed"] /\ stack' = Front(stack)
      /\ owner' = [owner EXCEPT ![t] = Nobody]
      /\ condition' = [condition EXCEPT ![t] = "met"]
      /\ UNCHANGED <<known, mThreadPool, mYieldedThreads, mLuaThread, left, updating,
                     buckets, down>>
      /\ calls' \in {0, calls}
  BY DEF Fail, Scripted, Counted
<1>2. /\ t \in Threads /\ script[t] = "running" /\ t \notin ToSet(mThreadPool)
      /\ Front(stack) \in Seq(Frame)
      /\ \A i \in DOMAIN Front(stack) :
           i \in DOMAIN stack /\ Front(stack)[i] = stack[i] /\ stack[i].thread # t
  BY <1>1, Innermost
<1> HIDE DEF t
<1>3. TypeOK'
  <2>1. updating' \in BOOLEAN /\ down' \in BOOLEAN /\ known' \in [Threads -> BOOLEAN]
    BY <1>1, Zenon DEF IInv, TypeOK
  <2>2. \A i \in DOMAIN stack' : stack'[i].thread \in Threads /\ stack'[i].by \in {"call", "resume"}
    BY <1>1, <1>2 DEF IInv, TypeOK
  <2>3. calls' \in 0..MaxCalls
    BY <1>1, LuaThreadsAssumption DEF IInv, TypeOK
  <2> QED BY <1>1, <1>2, <2>1, <2>2, <2>3 DEF IInv, TypeOK
<1>4. (StackIsTyped /\ StackRuns)'
  BY <1>1, <1>2 DEF IInv, TypeOK, StackIsTyped, StackRuns
<1>5. (PoolRests /\ YieldedExist)'
  BY <1>1, <1>2 DEF IInv, TypeOK, PoolRests, YieldedExist
<1>6. (CalledIsNew /\ UpdateLooksAhead)'
  BY <1>1, <1>2 DEF IInv, CalledIsNew, UpdateLooksAhead
<1>7. OwnsLatest'
  BY <1>1, <1>2, LuaThreadsAssumption DEF IInv, TypeOK, OwnsLatest
<1> QED BY <1>3, <1>4, <1>5, <1>6, <1>7 DEF IInv

\* Giving a thread back that is in none of the places.
LEMMA ReturnPool ==
  ASSUME IInv, NEW t \in Threads, ReturnThreadToPool(t), t \notin ToSet(mThreadPool),
         t \notin mYieldedThreads', mYieldedThreads' \subseteq mYieldedThreads
  PROVE  /\ \E end \in {"none", "deleted"} : script' = [script EXCEPT ![t] = end]
         /\ mThreadPool' \in Seq(Threads) /\ down' \in BOOLEAN
         /\ PoolRests'
<1>1. /\ mThreadPool \in Seq(Threads) /\ IsInjective(mThreadPool)
      /\ known \in [Threads -> BOOLEAN] /\ down \in BOOLEAN
      /\ script \in [Threads -> {"absent", "none", "running", "waiting", "failed", "deleted"}]
      /\ \A u \in ToSet(mThreadPool) : script[u] = "none" /\ u \notin mYieldedThreads
  BY DEF IInv, TypeOK, PoolRests
<1>2. CASE Count > MAX_LUA_THREADS
  <2>1. script' = [script EXCEPT ![t] = "deleted"] /\ mThreadPool' = mThreadPool /\ down' = ~known[t]
    BY <1>2 DEF ReturnThreadToPool
  <2>2. down' \in BOOLEAN
    BY <2>1, Zenon
  <2> QED BY <1>1, <2>1, <2>2 DEF PoolRests
<1>3. CASE ~(Count > MAX_LUA_THREADS)
  <2>1. /\ script' = [script EXCEPT ![t] = "none"] /\ mThreadPool' = Append(mThreadPool, t)
        /\ down' = down
    BY <1>3 DEF ReturnThreadToPool
  <2>2. /\ mThreadPool' \in Seq(Threads) /\ IsInjective(mThreadPool')
        /\ ToSet(mThreadPool') = ToSet(mThreadPool) \cup {t}
    BY <1>1, <2>1, AppendSet, AppendProperties
  <2>3. down' \in BOOLEAN
    BY <1>1, <2>1, Zenon
  <2> QED BY <1>1, <2>1, <2>2, <2>3 DEF PoolRests
<1> QED BY <1>2, <1>3

LEMMA FinishInv ==
  ASSUME IInv, Finish
  PROVE  IInv'
<1> DEFINE t == Running
<1>1. /\ stack # <<>> /\ ReturnThreadToPool(t) /\ stack' = Front(stack)
      /\ mYieldedThreads' = IF ByUpdate THEN mYieldedThreads \ {t} ELSE mYieldedThreads
      /\ owner' = [owner EXCEPT ![t] = Nobody]
      /\ UNCHANGED <<condition, known, mLuaThread, left, updating, buckets>>
      /\ calls' \in {0, calls}
  BY DEF Finish, Scripted, Counted
<1>2. /\ t \in Threads /\ script[t] = "running" /\ t \notin ToSet(mThreadPool)
      /\ Front(stack) \in Seq(Frame)
      /\ \A i \in DOMAIN Front(stack) :
           i \in DOMAIN stack /\ Front(stack)[i] = stack[i] /\ stack[i].thread # t
      /\ ByUpdate => t \notin left
      /\ ~ByUpdate => t \notin mYieldedThreads
  BY <1>1, Innermost
<1> HIDE DEF t
<1>3. t \notin mYieldedThreads' /\ mYieldedThreads' \subseteq mYieldedThreads
      /\ mYieldedThreads \subseteq mYieldedThreads' \cup {t} /\ left \subseteq mYieldedThreads'
  BY <1>1, <1>2 DEF IInv, UpdateLooksAhead
<1>4. /\ \E end \in {"none", "deleted"} : script' = [script EXCEPT ![t] = end]
      /\ mThreadPool' \in Seq(Threads) /\ down' \in BOOLEAN /\ PoolRests'
  BY <1>1, <1>2, <1>3, ReturnPool
<1>5. PICK end \in {"none", "deleted"} : script' = [script EXCEPT ![t] = end]
  BY <1>4
<1>6. TypeOK'
  <2>1. updating' \in BOOLEAN /\ known' \in [Threads -> BOOLEAN]
    BY <1>1, Zenon DEF IInv, TypeOK
  <2>2. \A i \in DOMAIN stack' : stack'[i].thread \in Threads /\ stack'[i].by \in {"call", "resume"}
    BY <1>1, <1>2 DEF IInv, TypeOK
  <2>3. mYieldedThreads' \subseteq Threads
    BY <1>3 DEF IInv, TypeOK
  <2>4. calls' \in 0..MaxCalls
    BY <1>1, LuaThreadsAssumption DEF IInv, TypeOK
  <2> QED BY <1>1, <1>2, <1>4, <1>5, <2>1, <2>2, <2>3, <2>4 DEF IInv, TypeOK
<1>7. (StackIsTyped /\ StackRuns)'
  BY <1>1, <1>2, <1>5 DEF IInv, TypeOK, StackIsTyped, StackRuns
<1>8. YieldedExist'
  BY <1>2, <1>3, <1>5 DEF IInv, TypeOK, YieldedExist
<1>9. (CalledIsNew /\ UpdateLooksAhead)'
  BY <1>1, <1>2, <1>3 DEF IInv, CalledIsNew, UpdateLooksAhead
<1>10. OwnsLatest'
  BY <1>1, <1>2, <1>5, LuaThreadsAssumption DEF IInv, TypeOK, OwnsLatest
<1> QED BY <1>4, <1>6, <1>7, <1>8, <1>9, <1>10 DEF IInv

LEMMA StartUpdateInv ==
  ASSUME IInv, StartUpdate
  PROVE  IInv'
<1>1. stack = <<>> /\ DOMAIN stack = {}
  BY EmptySeq DEF StartUpdate, Idle
<1>2. TypeOK'
  <2>1. updating' \in BOOLEAN /\ down' \in BOOLEAN /\ known' \in [Threads -> BOOLEAN]
    BY Zenon DEF IInv, TypeOK, StartUpdate
  <2>2. left' \subseteq Threads /\ calls' \in 0..MaxCalls
    BY LuaThreadsAssumption DEF IInv, TypeOK, StartUpdate
  <2> QED BY <2>1, <2>2 DEF IInv, TypeOK, StartUpdate
<1>3. (StackIsTyped /\ PoolRests /\ StackRuns /\ YieldedExist /\ CalledIsNew /\ OwnsLatest)'
  BY DEF IInv, StackIsTyped, PoolRests, StackRuns, YieldedExist, CalledIsNew, OwnsLatest,
    StartUpdate
<1>4. UpdateLooksAhead'
  BY <1>1 DEF UpdateLooksAhead, StartUpdate
<1> QED BY <1>2, <1>3, <1>4 DEF IInv

LEMMA EndUpdateInv ==
  ASSUME IInv, EndUpdate
  PROVE  IInv'
<1>1. stack = <<>> /\ DOMAIN stack = {}
  BY EmptySeq DEF EndUpdate
<1>2. TypeOK'
  <2>1. updating' \in BOOLEAN /\ down' \in BOOLEAN /\ known' \in [Threads -> BOOLEAN]
    BY Zenon DEF IInv, TypeOK, EndUpdate
  <2>2. calls' \in 0..MaxCalls
    BY LuaThreadsAssumption DEF EndUpdate
  <2> QED BY <2>1, <2>2 DEF IInv, TypeOK, EndUpdate
<1>3. (StackIsTyped /\ PoolRests /\ StackRuns /\ YieldedExist /\ CalledIsNew /\ OwnsLatest)'
  BY DEF IInv, StackIsTyped, PoolRests, StackRuns, YieldedExist, CalledIsNew, OwnsLatest,
    EndUpdate
<1>4. UpdateLooksAhead'
  BY <1>1 DEF IInv, UpdateLooksAhead, EndUpdate
<1> QED BY <1>2, <1>3, <1>4 DEF IInv

\* A step of Update: a stopped script's thread is given back, one that waits for
\* nothing more goes on, any other is passed over.
LEMMA VisitInv ==
  ASSUME IInv, NEW t \in Threads, Visit(t)
  PROVE  IInv'
<1>1. /\ stack = <<>> /\ DOMAIN stack = {} /\ updating /\ t \in left /\ left' = left \ {t}
      /\ UNCHANGED <<known, owner, mLuaThread, updating, buckets, calls>>
  BY EmptySeq DEF Visit, Passed
<1>2. t \in mYieldedThreads /\ t \notin ToSet(mThreadPool) /\ left \subseteq mYieldedThreads
  BY <1>1 DEF IInv, UpdateLooksAhead, PoolRests
<1>3. updating' \in BOOLEAN /\ known' \in [Threads -> BOOLEAN] /\ left' \subseteq Threads
  BY <1>1, Zenon DEF IInv, TypeOK
<1>4. CASE script[t] = "none" /\ mYieldedThreads' = mYieldedThreads \ {t}
           /\ ReturnThreadToPool(t) /\ UNCHANGED <<condition, stack>>
  <2>1. /\ \E end \in {"none", "deleted"} : script' = [script EXCEPT ![t] = end]
        /\ mThreadPool' \in Seq(Threads) /\ down' \in BOOLEAN /\ PoolRests'
    BY <1>2, <1>4, ReturnPool
  <2>2. PICK end \in {"none", "deleted"} : script' = [script EXCEPT ![t] = end]
    BY <2>1
  <2>3. TypeOK'
    BY <1>1, <1>3, <1>4, <2>1, <2>2 DEF IInv, TypeOK
  <2>4. (StackIsTyped /\ StackRuns /\ CalledIsNew /\ UpdateLooksAhead)'
    BY <1>1, <1>2, <1>4 DEF IInv, StackIsTyped, StackRuns, CalledIsNew, UpdateLooksAhead
  <2>5. (YieldedExist /\ OwnsLatest)'
    BY <1>1, <1>4, <2>2 DEF IInv, TypeOK, YieldedExist, OwnsLatest
  <2> QED BY <2>1, <2>3, <2>4, <2>5 DEF IInv
<1>5. CASE /\ Waits(t) /\ script' = [script EXCEPT ![t] = "running"]
           /\ stack' = <<[thread |-> t, by |-> "resume"]>>
           /\ UNCHANGED <<condition, mThreadPool, mYieldedThreads, down>>
  <2>1. /\ stack' \in Seq(Frame) /\ DOMAIN stack' = {1}
        /\ stack'[1].thread = t /\ stack'[1].by = "resume"
    BY <1>5 DEF Frame
  <2>2. TypeOK'
    <3>1. down' \in BOOLEAN
      BY <1>5, Zenon DEF IInv, TypeOK
    <3> QED BY <1>1, <1>3, <1>5, <2>1, <3>1 DEF IInv, TypeOK
  <2>3. (StackIsTyped /\ StackRuns /\ CalledIsNew /\ UpdateLooksAhead)'
    BY <1>1, <1>2, <1>5, <2>1 DEF IInv, TypeOK, StackIsTyped, StackRuns, CalledIsNew,
      UpdateLooksAhead
  <2>4. (PoolRests /\ YieldedExist)'
    BY <1>2, <1>5 DEF IInv, TypeOK, PoolRests, YieldedExist
  <2>5. OwnsLatest'
    BY <1>1, <1>5 DEF IInv, TypeOK, OwnsLatest, Waits
  <2> QED BY <2>2, <2>3, <2>4, <2>5 DEF IInv
<1>6. CASE UNCHANGED <<script, condition, mThreadPool, mYieldedThreads, stack, down>>
  <2>1. TypeOK'
    <3>1. down' \in BOOLEAN
      BY <1>6, Zenon DEF IInv, TypeOK
    <3> QED BY <1>1, <1>3, <1>6, <3>1 DEF IInv, TypeOK
  <2> QED
    BY <1>1, <1>2, <1>6, <2>1 DEF IInv, StackIsTyped, StackRuns, PoolRests, YieldedExist,
      CalledIsNew, UpdateLooksAhead, OwnsLatest
<1> QED BY <1>4, <1>5, <1>6 DEF Visit

LEMMA ElapseInv ==
  ASSUME IInv, NEW t \in Threads, Elapse(t) \/ Happen(t)
  PROVE  IInv'
<1>1. condition' = [condition EXCEPT ![t] = "met"]
      /\ UNCHANGED <<script, known, owner, mThreadPool, mYieldedThreads, mLuaThread, stack, left,
                     updating, buckets, calls, down>>
  BY DEF Elapse, Happen
<1>2. TypeOK'
  <2>1. updating' \in BOOLEAN /\ down' \in BOOLEAN /\ known' \in [Threads -> BOOLEAN]
    BY <1>1, Zenon DEF IInv, TypeOK
  <2> QED BY <1>1, <2>1 DEF IInv, TypeOK
<1> QED
  BY <1>1, <1>2 DEF IInv, StackIsTyped, PoolRests, StackRuns, YieldedExist, CalledIsNew,
    UpdateLooksAhead, OwnsLatest

\* Stopping whatever thread the object took last, also one that rests or is
\* another's by now.
LEMMA CancelActionInv ==
  ASSUME IInv, NEW o \in Objects, CancelAction(o)
  PROVE  IInv'
<1>1. CASE Dangling(o)
  BY <1>1, BreakInv DEF CancelAction
<1>2. CASE ~Dangling(o)
  <2> DEFINE t == mLuaThread[o]
  <2>1. /\ t \in Threads /\ script[t] # "deleted" /\ stack = <<>> /\ DOMAIN stack = {}
        /\ script' = [script EXCEPT ![t] = "none"]
        /\ known' = [known EXCEPT ![t] = FALSE] /\ owner' = [owner EXCEPT ![t] = Nobody]
        /\ UNCHANGED <<condition, mThreadPool, mYieldedThreads, mLuaThread, stack, left, updating,
                       buckets, calls, down>>
    <3>1. o # Nobody
      BY LuaThreadsAssumption
    <3> QED BY <1>2, <3>1, EmptySeq DEF CancelAction, Idle, Stop, Dangling, IInv, TypeOK
  <2> HIDE DEF t
  <2>2. TypeOK'
    <3>1. updating' \in BOOLEAN /\ down' \in BOOLEAN /\ known' \in [Threads -> BOOLEAN]
      BY <2>1, Zenon DEF IInv, TypeOK
    <3> QED BY <2>1, <3>1 DEF IInv, TypeOK
  <2>3. (StackIsTyped /\ StackRuns /\ CalledIsNew /\ UpdateLooksAhead)'
    BY <2>1 DEF IInv, StackIsTyped, StackRuns, CalledIsNew, UpdateLooksAhead
  <2>4. (PoolRests /\ YieldedExist)'
    BY <2>1 DEF IInv, TypeOK, PoolRests, YieldedExist
  <2>5. OwnsLatest'
    BY <2>1, LuaThreadsAssumption DEF IInv, TypeOK, OwnsLatest
  <2> QED BY <2>2, <2>3, <2>4, <2>5 DEF IInv
<1> QED BY <1>1, <1>2

LEMMA StepIInv == IInv /\ [Next]_vars => IInv'
<1> SUFFICES ASSUME IInv, [Next]_vars PROVE IInv'
  OBVIOUS
<1>1. CASE UNCHANGED vars
  <2>1. TypeOK'
    BY <1>1, Zenon DEF vars, IInv, TypeOK
  <2> QED
    BY <1>1, <2>1 DEF vars, IInv, StackIsTyped, PoolRests, StackRuns, YieldedExist, CalledIsNew,
      UpdateLooksAhead, OwnsLatest
<1>2. CASE UseAbility \/ OnTick
  BY <1>2, TickInv DEF UseAbility, OnTick, Idle
<1>3. CASE ScriptUsesAbility \/ Create
  BY <1>3, TickInv DEF ScriptUsesAbility, Create
<1>4. CASE Sleep \/ WaitForCallback
  BY <1>4, WaitInv DEF Sleep, WaitForCallback
<1>5. CASE Finish \/ Fail
  BY <1>5, FinishInv, FailInv
<1>6. CASE StartUpdate \/ Look \/ EndUpdate
  BY <1>6, StartUpdateInv, VisitInv, EndUpdateInv DEF Look
<1>7. CASE \E t \in Threads : Elapse(t) \/ Happen(t)
  BY <1>7, ElapseInv
<1>8. CASE \E o \in Objects : CancelAction(o)
  BY <1>8, CancelActionInv
<1> QED BY <1>1, <1>2, <1>3, <1>4, <1>5, <1>6, <1>7, <1>8 DEF Next

----------------------------------------------------------------------------
\* Every state that scripts, Update and the packets between them can reach
\* satisfies the inductive invariant.
THEOREM Inductive == Spec => []IInv
BY InitIInv, StepIInv, PTL DEF Spec

\* The state of the threads, the pool and the objects always has its type.
THEOREM TypeCorrect == Spec => []TypeOK
<1>1. IInv => TypeOK
  BY DEF IInv
<1> QED BY <1>1, Inductive, PTL

\* What SpawnThread takes from the pool is in the pool once and nowhere else,
\* however threads were cancelled, resumed, put aside or given back.
THEOREM PooledThreadsAreIdle == Spec => []PoolIsIdle
<1>1. ASSUME IInv PROVE PoolIsIdle
  <2>1. mThreadPool \in Seq(Threads) /\ IsInjective(mThreadPool)
    BY <1>1 DEF IInv, TypeOK, PoolRests
  <2>2. Cardinality(ToSet(mThreadPool)) = Len(mThreadPool)
    BY <2>1, InjectiveCardinality
  <2>3. \A t \in ToSet(mThreadPool) :
          script[t] = "none" /\ t \notin mYieldedThreads /\ \A i \in DOMAIN stack : stack[i].thread # t
    BY <1>1 DEF IInv, PoolRests, StackRuns
  <2> QED BY <2>2, <2>3 DEF PoolIsIdle
<1> QED BY <1>1, Inductive, PTL

\* An object never has two scripts that run or wait at one time.
THEOREM ObjectsHaveOneScript == Spec => []OneScriptEach
<1>1. ASSUME IInv PROVE OneScriptEach
  <2> SUFFICES ASSUME NEW o \in Objects
               PROVE  Cardinality({t \in Threads : owner[t] = o /\ script[t] \in {"running", "waiting"}}) <= 1
    BY DEF OneScriptEach
  <2> DEFINE S == {t \in Threads : owner[t] = o /\ script[t] \in {"running", "waiting"}}
  <2>1. S \subseteq {mLuaThread[o]}
    BY <1>1 DEF IInv, OwnsLatest
  <2>2. CASE S = {}
    BY <2>2, FS_EmptySet
  <2>3. CASE S # {}
    <3>1. S = {mLuaThread[o]}
      BY <2>1, <2>3
    <3>2. Cardinality({mLuaThread[o]}) = 1
      BY FS_Singleton
    <3> QED BY <3>1, <3>2
  <2> QED BY <2>2, <2>3
<1> QED BY <1>1, Inductive, PTL

\* Lua::Update never comes to a thread that was deleted, although scripts put
\* threads into the set and give threads back while it goes through it.
THEOREM UpdateFindsLiveThreads ==
  Spec => [](\A t \in left \cup mYieldedThreads : script[t] # "deleted")
<1>1. IInv => \A t \in left \cup mYieldedThreads : script[t] # "deleted"
  BY DEF IInv, YieldedExist, UpdateLooksAhead
<1> QED BY <1>1, Inductive, PTL
=============================================================================
