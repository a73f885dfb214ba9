------------------------------- MODULE OctTree --------------------------------
(***************************************************************************)
(* The octree of a game's ObjectManager and the trigger volumes it feeds.  *)
(* New objects wait in a queue; once per Update of the game the tree takes *)
(* them in, drops the objects marked for deletion, drops nodes that were   *)
(* empty for a while, files objects that moved anew, and tells each        *)
(* trigger which objects its box touches.  Then every object ticks, and    *)
(* the marked objects leave the ObjectManager.                             *)
(*                                                                         *)
(* The space has one dimension, so a node has two parts where the code has *)
(* eight: which child, if any, holds a box is all that the code asks of    *)
(* the geometry.  A node is named by the path that leads to it.            *)
(***************************************************************************)
EXTENDS Integers, FiniteSetsExt, SequencesExt

CONSTANTS
  Mobile,    \* objects that are not triggers
  Trigger,   \* trigger volumes; none has an owner
  Extent,    \* half the size of each object; 0 for what the code calls a point
  Place,     \* where the middle of an object may be
  Depth,     \* the root has the extent 2^Depth and the smallest node 1
  FirstLife, \* how many Updates an empty node lives at first, 8 in the code
  MaxLife,   \* the largest lifespan an int8_t holds, 127 in the code
  MaxMoves   \* how often objects move in one behaviour

Object == Mobile \cup Trigger

ASSUME OctTreeAssumption ==
  /\ Mobile \cap Trigger = {}
  /\ Extent \in [Object -> Nat]
  /\ Place \subseteq Int
  /\ Depth \in Nat
  /\ FirstLife \in 0..MaxLife /\ MaxLife \in Nat /\ MaxMoves \in Nat

VARIABLES
  pos,      \* the middle of each object's box
  active,   \* ObjectManager::mActiveObjects
  marked,   \* objects with the flag MarkedForDeletion, for good
  dirty,    \* objects with the flag Dirty
  node,     \* the nodes of the tree by their path
  mQueue,   \* objects not yet in the tree
  mObjectStates,  \* what a trigger remembers of an object
  ticking,  \* whether ObjectManager::Update lets the objects tick
  toTick,   \* triggers still to tick in this Update
  moves     \* how often objects have moved, to bound the behaviours

vars == <<pos, active, marked, dirty, node, mQueue, mObjectStates, ticking, toTick, moves>>

Root == <<>>
Path == UNION {[1..n -> {0, 1}] : n \in 0..Depth}

NodeType ==
  [mObjects : Seq(Object), mBuilt : BOOLEAN,
   mLifespan : -(MaxLife + 1)..MaxLife, mMaxLifespan : -(MaxLife + 1)..MaxLife]

TypeOK ==
  /\ pos \in [Object -> Place]
  /\ active \subseteq Object /\ marked \subseteq Object /\ dirty \subseteq Object
  /\ Root \in DOMAIN node /\ DOMAIN node \subseteq Path
  /\ \A p \in DOMAIN node : node[p] \in NodeType /\ (p # Root => Front(p) \in DOMAIN node)
  /\ mQueue \in Seq(Object)
  /\ mObjectStates \in [Trigger -> [Mobile -> {"none", "seen", "inside"}]]
  /\ ticking \in BOOLEAN /\ toTick \subseteq Trigger
  /\ moves \in 0..MaxMoves

NewNode(objects) ==
  [mObjects |-> objects, mBuilt |-> FALSE, mLifespan |-> -1, mMaxLifespan |-> FirstLife]

Init ==
  /\ pos \in [Object -> {CHOOSE x \in Place : TRUE}]
  /\ active = {} /\ marked = {} /\ dirty = {}
  /\ node = [p \in {Root} |-> NewNode(<<>>)]
  /\ mQueue = <<>>
  /\ mObjectStates = [t \in Trigger |-> [o \in Mobile |-> "none"]]
  /\ ticking = FALSE /\ toTick = {} /\ moves = 0

----------------------------------------------------------------------------
\* Boxes.

Distance(x, y) == IF x < y THEN y - x ELSE x - y

Size(p) == 2 ^ (Depth - Len(p))

Middle(p) ==
  FoldLeftDomain(LAMBDA m, i : m + (2 * p[i] - 1) * 2 ^ (Depth - i), 2 ^ Depth, p)

IsSmallest(p) == Size(p) <= 1
IsPoint(o) == Extent[o] = 0
IsInside(p, o) == Distance(Middle(p), pos[o]) <= Size(p) - Extent[o]
Intersects(o, o2) == Distance(pos[o], pos[o2]) <= Extent[o] + Extent[o2]

\* Mutant: the box is taken for its middle.
ReachesMiddle(o, p) == Distance(pos[o], Middle(p)) <= Size(p)

Reaches(o, p) == Distance(pos[o], Middle(p)) <= Extent[o] + Size(p)

----------------------------------------------------------------------------
\* The tree.  These operators map the nodes N before to the nodes after.

Children(N, p) == {q \in DOMAIN N : Len(q) = Len(p) + 1 /\ IsPrefix(p, q)}
Below(N, p) == {q \in DOMAIN N : IsStrictPrefix(p, q)}
Held(N) == UNION {ToSet(N[p].mObjects) : p \in DOMAIN N}

\* The child that takes the box of o: the first that contains it.
Fits(p, o) == {b \in {0, 1} : IsInside(Append(p, b), o)}
ChildFor(p, o) == Append(p, Min(Fits(p, o)))

\* A new node takes the place of whatever was there.
CreateNode(N, p, objects) ==
  [q \in (DOMAIN N \ Below(N, p)) \cup {p} |-> IF q = p THEN NewNode(objects) ELSE N[q]]

Put(N, p, o) == [N EXCEPT ![p].mObjects = Append(@, o)]
IsVacant(N, p) == N[p].mObjects = <<>> /\ Children(N, p) = {}

\* An object that is outside the root is not filed at all.
RECURSIVE Insert(_, _, _)
Insert(N, p, o) ==
  CASE IsVacant(N, p) \/ IsSmallest(p) -> Put(N, p, o)
    [] OTHER ->
         IF ~IsInside(p, o) THEN IF p = Root THEN N ELSE Insert(N, Front(p), o)
         ELSE IF Fits(p, o) = {} THEN Put(N, p, o)
         ELSE LET q == ChildFor(p, o)
              IN IF q \in DOMAIN N THEN Insert(N, q, o) ELSE CreateNode(N, q, <<o>>)

\* Whether BuildTree leaves the object in the node.  Points always stay.
Stays(p, o) == IsPoint(o) \/ Fits(p, o) = {}

RECURSIVE BuildTree(_, _)
BuildTree(N, p) ==
  LET objects == N[p].mObjects
      Goes(q) == SelectSeq(objects, LAMBDA o : ~Stays(p, o) /\ ChildFor(p, o) = q)
      Grow(M, b) ==
        LET q == Append(p, b)
        IN IF Goes(q) = <<>> THEN M ELSE BuildTree(CreateNode(M, q, Goes(q)), q)
      stay == [N EXCEPT ![p].mObjects = SelectSeq(@, LAMBDA o : Stays(p, o))]
  IN IF IsSmallest(p) \/ (Len(objects) = 1 /\ IsInside(p, objects[1])) THEN N
     ELSE Grow(Grow(stay, 0), 1)

\* What an int8_t holds of x.
Int8(x) ==
  LET y == x % (2 * (MaxLife + 1)) IN IF y > MaxLife THEN y - 2 * (MaxLife + 1) ELSE y

IsChildless(N, p) == Children(N, p) = {}

\* An empty node without children counts down; its next life is twice as long.
Age(n, childless) ==
  IF n.mObjects # <<>>
  THEN [n EXCEPT !.mLifespan = -1,
                 !.mMaxLifespan = IF n.mLifespan # -1 /\ @ <= (MaxLife + 1) \div 2
                                  THEN Int8(2 * @) ELSE @]
  ELSE IF ~childless THEN n
  ELSE [n EXCEPT !.mLifespan = IF @ = -1 THEN n.mMaxLifespan ELSE IF @ > 0 THEN @ - 1 ELSE @]

\* Children whose life is over are deleted, and what is below them with them.
Prune(N, p) ==
  LET ended == {q \in Children(N, p) : N[q].mLifespan = 0}
      gone == {q \in ended : N[q].mObjects = <<>>}
      kept == DOMAIN N \ (gone \cup UNION {Below(N, q) : q \in gone})
  IN [q \in kept |-> IF q \in ended THEN [N[q] EXCEPT !.mLifespan = -1] ELSE N[q]]

\* The node above p, or p itself, that contains the box of o.
RECURSIVE HomeOf(_, _)
HomeOf(p, o) == IF p = Root \/ IsPoint(o) \/ IsInside(p, o) THEN p ELSE HomeOf(Front(p), o)

Drop(N, p, o) == [N EXCEPT ![p].mObjects = SelectSeq(@, LAMBDA x : x # o)]

\* Mutant: an object that moved is filed anew and stays where it was.
RefileCopy(N, p, o) == Insert(N, HomeOf(p, o), o)

\* An object that moved is filed anew, from the node that contains it.
Refile(N, p, o) == Insert(Drop(N, p, o), HomeOf(p, o), o)

\* Mutant: marked objects are not dropped.
Remaining(N, p) == N[p].mObjects
Unmarked(N, p) == SelectSeq(N[p].mObjects, LAMBDA o : o \notin marked)

\* OctTree::Update of the node p, after its queue.  T has the nodes and the
\* dirty objects.  The life of the root is left out: nothing deletes it.
\* Children that are made while the children are updated wait.
RECURSIVE UpdateNode(_, _)
UpdateNode(T, p) ==
  LET built == IF T.node[p].mBuilt THEN T.node
               ELSE [BuildTree(T.node, p) EXCEPT ![p].mBuilt = TRUE]
      aged == [built EXCEPT ![p] = IF p = Root THEN @ ELSE Age(@, IsChildless(built, p))]
      swept == [aged EXCEPT ![p].mObjects = Unmarked(aged, p)]
      movers == SelectSeq(swept[p].mObjects, LAMBDA o : o \in T.dirty)
      pruned == Prune(swept, p)
      Child(U, b) ==
        IF Append(p, b) \in DOMAIN pruned THEN UpdateNode(U, Append(p, b)) ELSE U
      below == Child(Child([node |-> pruned, dirty |-> T.dirty \ ToSet(movers)], 0), 1)
  IN [below EXCEPT !.node = FoldLeft(LAMBDA N, o : Refile(N, p, o), @, movers)]

\* The root takes in its queue: as a whole the first time, then one by one.
TakeIn(N) ==
  IF N[Root].mBuilt THEN FoldLeft(LAMBDA M, o : Insert(M, Root, o), N, mQueue)
  ELSE [N EXCEPT ![Root].mObjects = @ \o mQueue]

----------------------------------------------------------------------------
\* Which objects the tree shows to a trigger.

IsShown(N, p) == \A i \in 0..Len(p) : N[SubSeq(p, 1, i)].mBuilt

GetObjectsInRegion(N, t) ==
  UNION {ToSet(N[p].mObjects) : p \in {q \in DOMAIN N : IsShown(N, q)
                                  /\ \A i \in 1..Len(q) : Reaches(t, SubSeq(q, 1, i))}}

\* A trigger meets the objects of the nodes below its own, built or not, too.
BelowTrigger(N, t) ==
  UNION {ToSet(N[q].mObjects) : q \in {r \in DOMAIN N :
    \E p \in DOMAIN N : t \in ToSet(N[p].mObjects) /\ IsStrictPrefix(p, r)}}

Interactions(N, t) ==
  IF t \notin Held(N) \/ IsPoint(t) THEN {}
  ELSE {o \in Mobile \cap (GetObjectsInRegion(N, t) \cup BelowTrigger(N, t)) : Intersects(t, o)}

AddObject(states, t, seen) ==
  [o \in Mobile |-> IF o \in seen /\ states[t][o] = "none" THEN "seen" ELSE states[t][o]]

----------------------------------------------------------------------------
\* The ObjectManager.  A script may create, move and mark objects while they tick.

Created == active \cup marked

Create(o, x) ==
  /\ o \notin Created
  /\ active' = active \cup {o}
  /\ pos' = [pos EXCEPT ![o] = x]
  /\ dirty' = dirty \cup {o}
  /\ mQueue' = Append(mQueue, o)
  /\ UNCHANGED <<marked, node, mObjectStates, ticking, toTick, moves>>

SetPosition(o, x) ==
  /\ o \in active /\ x # pos[o]
  /\ moves < MaxMoves
  /\ moves' = moves + 1
  /\ pos' = [pos EXCEPT ![o] = x]
  /\ dirty' = dirty \cup {o}
  /\ UNCHANGED <<active, marked, node, mQueue, mObjectStates, ticking, toTick>>

MarkForDeletion(o) ==
  /\ o \in active \ marked
  /\ marked' = marked \cup {o}
  /\ UNCHANGED <<pos, active, dirty, node, mQueue, mObjectStates, ticking, toTick, moves>>

\* ObjectManager::Update begins: the tree is brought up to date.
UpdateTree ==
  /\ ~ticking
  /\ LET T == UpdateNode([node |-> TakeIn(node), dirty |-> dirty], Root)
     IN /\ node' = T.node
        /\ dirty' = T.dirty
        /\ mObjectStates' =
             [t \in Trigger |-> AddObject(mObjectStates, t, Interactions(T.node, t))]
  /\ mQueue' = <<>>
  /\ ticking' = TRUE /\ toTick' = active \cap Trigger
  /\ UNCHANGED <<pos, active, marked, moves>>

IsInRadius(t, o) == Distance(pos[t], pos[o]) <= Extent[t]

\* What becomes of an entry of the trigger when the loop comes to it.
Ticked(t, o) ==
  IF mObjectStates[t][o] = "seen" THEN IF IsInRadius(t, o) THEN "inside" ELSE "seen"
  ELSE IF IsInRadius(t, o) THEN "inside" ELSE "none"

\* The loop skips the entry after one that it erased: at most as many as it
\* erased, in an order that the hash decides.  When the last one is erased the
\* iterator passes the end of the map, and may come round to the entries again.
TickTrigger(t) ==
  /\ t \in toTick
  /\ LET entries == {o \in Mobile : mObjectStates[t][o] # "none"}
         erased == {o \in entries : Ticked(t, o) = "none"}
     IN \E skipped \in SUBSET entries :
          /\ Cardinality(skipped) <= Cardinality(erased \ skipped)
          /\ mObjectStates' = [mObjectStates EXCEPT ![t] =
               [o \in Mobile |-> IF o \in entries \ skipped THEN Ticked(t, o) ELSE @[o]]]
  /\ toTick' = toTick \ {t}
  /\ UNCHANGED <<pos, active, marked, dirty, node, mQueue, ticking, moves>>

\* ObjectManager::Update ends: the marked objects leave it.
EraseMarked ==
  /\ ticking /\ toTick = {}
  /\ active' = active \ marked
  /\ ticking' = FALSE
  /\ UNCHANGED <<pos, marked, dirty, node, mQueue, mObjectStates, toTick, moves>>

Next ==
  \/ \E o \in Object, x \in Place : Create(o, x) \/ (o \in Mobile /\ SetPosition(o, x))
  \/ \E o \in Object : MarkForDeletion(o)
  \/ UpdateTree
  \/ \E t \in Trigger : TickTrigger(t)
  \/ EraseMarked

Spec == Init /\ [][Next]_vars

----------------------------------------------------------------------------
\* Properties.

NodesOf(N, o) == {p \in DOMAIN N : o \in ToSet(N[p].mObjects)}

\* No object is filed twice, in two nodes or twice in one, whatever was moved,
\* rebuilt or dropped; and none is both filed and in the queue.  Were it so, a
\* deleted or moved object would keep a second entry for ever.
FiledAtMostOnce ==
  /\ \A o \in Object : Cardinality(NodesOf(node, o)) <= 1
  /\ \A p \in DOMAIN node : IsInjective(node[p].mObjects)
  /\ Held(node) \cap ToSet(mQueue) = {}

\* After the tree was updated no object marked before is in it: it came
\* through the queue, a rebuilt node or a move, and none of these keeps it.
TreeHoldsNoDeleted == [][UpdateTree => Held(node') \cap marked = {}]_vars

\* A trigger and an object that are both in the tree, not moved or deleted since
\* the last update: when their boxes meet, the trigger knows of the object after
\* this one.  Nothing that is filed anew, and no node that is rebuilt or deleted
\* meanwhile, hides one from the other.  (A point that leaves its node can be
\* filed in a node that does not hold it: so for objects that have an extent.)
Settled(o) == o \in Held(node) \ (dirty \cup marked) /\ ~IsPoint(o)
SettledIsSeen ==
  [][UpdateTree => \A t \in Trigger, o \in Mobile :
       Settled(t) /\ Settled(o) /\ Intersects(t, o) => mObjectStates'[t][o] # "none"]_vars

\* "Add to octree and active list": an object that was created inside the root
\* region is filed by the next update.
CreatedIsFiled ==
  [][UpdateTree => \A o \in ToSet(mQueue) \ marked : IsInside(Root, o) => o \in Held(node')]_vars
=============================================================================
