------------------------- MODULE ReplicationProofs --------------------------
(***************************************************************************)
(* Theorems about Replication for any number of clients and objects and    *)
(* any width of the identifier.                                            *)
(*                                                                         *)
(* IInv adds to the invariants what they rest on: the objects marked for   *)
(* deletion are distinct and in the game, identifiers in use and free are  *)
(* not 0, and the four parts of net agree with each other and with the     *)
(* characters that players still refer to.                                 *)
(***************************************************************************)
EXTENDS Replication, SequenceLemmas

\* What is marked is in the game, and marked once: it is freed once.
MarkedOnce ==
  /\ ToSet(marked) \subseteq active
  /\ IsInjective(marked)

\* 0 means "no object": it is neither in use nor free.
NoZeroId == 0 \notin UsedIds \cup ToSet(mOpenObjectIds)

\* The free identifiers are distinct, and nobody's.
OpenIdsAreFree ==
  /\ IsInjective(mOpenObjectIds)
  /\ ToSet(mOpenObjectIds) \cap UsedIds = {}

UsedOnce == \A o, p \in active : idOf[o] = idOf[p] => o = p

\* The identifiers that are free or in use are those below the counter or, once
\* it has wrapped, all of them.
Issued == ToSet(mOpenObjectIds) \cup UsedIds

NoIdIsLost ==
  \/ sNextId # 0 /\ Issued = 1..(sNextId - 1)
  \/ Issued = 1..MaxId

\* A connection that left holds nothing, a copy can only be stale of an object
\* that is known, and what is stale is still to be sent.
Coherent(n) ==
  /\ n \in NetType
  /\ \A c \in Client \ clients : n.knows[c] = {}
  /\ \A c \in Client : \A p \in n.stale[c] : p[1] \in n.knows[c]
  /\ \A c \in Client : n.stale[c] \subseteq n.dirty

\* A character that a player refers to after it left the game was sent before,
\* or is remembered in unsent.
HeroesRemembered ==
  \A c \in Client : hero[c] # NoObject => hero[c] \in active \cup unsent \cup net.created

IdsInv == MarkedOnce /\ NoZeroId /\ OpenIdsAreFree /\ UsedOnce /\ NoIdIsLost

IInv ==
  /\ TypeOK
  /\ IdsInv
  /\ Coherent(net)
  /\ NoGhosts
  /\ HeroesRemembered

----------------------------------------------------------------------------
\* The operators on net keep it coherent, and what each does to the copies.

LEMMA BornNet ==
  ASSUME NEW n, Coherent(n), NEW o \in Object, NEW parts \in SUBSET Part,
         \A c \in Client : o \notin n.knows[c]
  PROVE  /\ Coherent(Born(n, o, parts))
         /\ Born(n, o, parts).knows = n.knows
         /\ Born(n, o, parts).created = n.created \ {o}
<1> DEFINE b == Born(n, o, parts)
<1>1. n \in NetType
  BY DEF Coherent
<1>2. /\ b = [n EXCEPT !.created = n.created \ {o},
                       !.dirty = (n.dirty \ Parts({o})) \cup ({o} \X parts)]
      /\ b.knows = n.knows /\ b.stale = n.stale
      /\ b.created = n.created \ {o}
      /\ b.dirty = (n.dirty \ Parts({o})) \cup ({o} \X parts)
  BY <1>1 DEF Born, NetType
<1>3. b \in NetType
  BY <1>1, <1>2 DEF NetType, Parts
<1>4. \A c \in Client : n.stale[c] \cap Parts({o}) = {}
  BY <1>1 DEF Coherent, Parts, NetType
<1>5. \A c \in Client : b.stale[c] \subseteq b.dirty
  BY <1>2, <1>4 DEF Coherent
<1> QED BY <1>2, <1>3, <1>5 DEF Coherent

LEMMA ChangedNet ==
  ASSUME NEW n, Coherent(n), NEW o \in Object, NEW parts \in SUBSET Part
  PROVE  /\ Coherent(Changed(n, o, parts))
         /\ Changed(n, o, parts).knows = n.knows
         /\ Changed(n, o, parts).created = n.created
<1> DEFINE b == Changed(n, o, parts)
<1>1. n \in NetType
  BY DEF Coherent
<1>2. /\ b.knows = n.knows /\ b.created = n.created
      /\ b.dirty = n.dirty \cup ({o} \X parts)
      /\ b.stale = [c \in Client |->
           IF o \in n.knows[c] THEN n.stale[c] \cup ({o} \X parts) ELSE n.stale[c]]
      /\ b = [created |-> b.created, dirty |-> b.dirty, knows |-> b.knows, stale |-> b.stale]
  <2> DEFINE stl == [c \in Client |->
               IF o \in n.knows[c] THEN n.stale[c] \cup ({o} \X parts) ELSE n.stale[c]]
  <2>1. b = [n EXCEPT !.dirty = n.dirty \cup ({o} \X parts), !.stale = stl]
    BY DEF Changed
  <2> HIDE DEF b, stl
  <2>2. /\ b.knows = n.knows /\ b.created = n.created
        /\ b.dirty = n.dirty \cup ({o} \X parts) /\ b.stale = stl
        /\ b = [created |-> b.created, dirty |-> b.dirty, knows |-> b.knows, stale |-> b.stale]
    BY <1>1, <2>1 DEF NetType
  <2> QED BY <2>2 DEF stl
<1> HIDE DEF b
<1>3. b \in NetType
  <2>1. {o} \X parts \subseteq Object \X Part
    OBVIOUS
  <2>2. b.dirty \in SUBSET (Object \X Part)
    BY <1>1, <1>2, <2>1 DEF NetType
  <2>3. b.stale \in [Client -> SUBSET (Object \X Part)]
    <3>1. n.stale \in [Client -> SUBSET (Object \X Part)]
      BY <1>1 DEF NetType
    <3> QED BY <1>2, <2>1, <3>1
  <2> QED BY <1>1, <1>2, <2>2, <2>3 DEF NetType
<1>4. \A c \in Client : b.stale[c] \subseteq b.dirty
  BY <1>2 DEF Coherent
<1>5. \A c \in Client : \A p \in b.stale[c] : p[1] \in b.knows[c]
  BY <1>2 DEF Coherent
<1> QED BY <1>2, <1>3, <1>4, <1>5 DEF Coherent, b

LEMMA WithCreatesNet ==
  ASSUME NEW n, Coherent(n), NEW S \in SUBSET Object, NEW started \in BOOLEAN
  PROVE  /\ Coherent(WithCreates(n, S, started))
         /\ \A c \in Client :
              WithCreates(n, S, started).knows[c] \subseteq n.knows[c] \cup (S \ n.created)
         /\ n.created \subseteq WithCreates(n, S, started).created
<1> DEFINE new == IF started THEN S \ n.created ELSE {}
           b == WithCreates(n, S, started)
<1>1. n \in NetType
  BY DEF Coherent
<1>2. /\ b.created = n.created \cup new
      /\ b.dirty = n.dirty \ (new \X {"data"})
      /\ b.knows = [c \in Client |-> IF c \in clients THEN n.knows[c] \cup new ELSE n.knows[c]]
      /\ b.stale = [c \in Client |->
           IF c \in clients
           THEN (n.stale[c] \ (new \X {"data"})) \cup {p \in n.dirty : p[1] \in new /\ p[2] = "parts"}
           ELSE n.stale[c]]
      /\ b = [created |-> b.created, dirty |-> b.dirty, knows |-> b.knows, stale |-> b.stale]
  BY DEF WithCreates, StillDirty
<1> HIDE DEF b
<1>3. new \subseteq Object
  OBVIOUS
<1> HIDE DEF new
<1>4. b \in NetType
  BY <1>1, <1>2, <1>3 DEF NetType
<1>5. \A c \in Client \ clients : n.knows[c] = {} /\ n.stale[c] = {}
  BY <1>1 DEF Coherent, NetType
<1>6. \A p \in n.dirty : p[2] = "parts" => p \notin new \X {"data"}
  OBVIOUS
<1>7. \A c \in Client : b.stale[c] \subseteq b.dirty
  BY <1>2, <1>5, <1>6 DEF Coherent
<1>8. \A c \in Client : \A p \in b.stale[c] : p[1] \in b.knows[c]
  BY <1>2, <1>5 DEF Coherent
<1>9. Coherent(b)
  BY <1>2, <1>4, <1>5, <1>7, <1>8 DEF Coherent
<1>10. \A c \in Client : b.knows[c] \subseteq n.knows[c] \cup new
  BY <1>2
<1>11. new \subseteq S \ n.created
  BY DEF new
<1> QED BY <1>2, <1>9, <1>10, <1>11 DEF b

LEMMA WithUpdatesNet ==
  ASSUME NEW n, Coherent(n), NEW S \in SUBSET Object, NEW started \in BOOLEAN
  PROVE  /\ Coherent(WithUpdates(n, S, started))
         /\ \A c \in Client :
              WithUpdates(n, S, started).knows[c] \subseteq n.knows[c] \cup (S \ n.created)
         /\ n.created \subseteq WithUpdates(n, S, started).created
<1> DEFINE m == WithCreates(n, S, started)
           b == WithUpdates(n, S, started)
<1>1. CASE ~started
  BY <1>1 DEF WithUpdates
<1>2. CASE started
  <2>1. Coherent(m)
    BY WithCreatesNet
  <2>2. m \in NetType
    BY <2>1 DEF Coherent
  <2>3. b = [m EXCEPT
           !.dirty = @ \ IF clients = {} THEN S \X {"data"} ELSE Parts(S),
           !.stale = [c \in Client |-> IF c \in clients THEN @[c] \ Parts(S) ELSE @[c]]]
    BY <1>2 DEF WithUpdates
  <2> HIDE DEF m, b
  <2>4. /\ b.created = m.created /\ b.knows = m.knows
        /\ b.dirty = m.dirty \ IF clients = {} THEN S \X {"data"} ELSE Parts(S)
        /\ b.stale = [c \in Client |->
             IF c \in clients THEN m.stale[c] \ Parts(S) ELSE m.stale[c]]
        /\ b = [created |-> b.created, dirty |-> b.dirty, knows |-> b.knows, stale |-> b.stale]
    BY <2>2, <2>3 DEF NetType
  <2>5. b \in NetType
    BY <2>2, <2>4 DEF NetType
  <2>6. \A c \in Client \ clients : m.knows[c] = {} /\ m.stale[c] = {}
    BY <2>1, <2>2 DEF Coherent, NetType
  <2>7. \A c \in Client : b.stale[c] \subseteq b.dirty
    BY <2>1, <2>4, <2>6 DEF Coherent
  <2>8. Coherent(b)
    BY <2>1, <2>4, <2>5, <2>7 DEF Coherent
  <2>9. /\ \A c \in Client : m.knows[c] \subseteq n.knows[c] \cup (S \ n.created)
        /\ n.created \subseteq m.created
    BY WithCreatesNet DEF m
  <2> QED BY <2>4, <2>8, <2>9 DEF b
<1> QED BY <1>1, <1>2

LEMMA WithDeletesNet ==
  ASSUME NEW n, Coherent(n), NEW S \in SUBSET Object
  PROVE  /\ Coherent(WithDeletes(n, S))
         /\ \A c \in Client : WithDeletes(n, S).knows[c] \subseteq n.knows[c] \ S
         /\ WithDeletes(n, S).created = n.created
<1> DEFINE b == WithDeletes(n, S)
<1>1. n \in NetType
  BY DEF Coherent
<1>2. /\ b.created = n.created /\ b.dirty = n.dirty
      /\ b.knows = [c \in Client |-> {o \in n.knows[c] : idOf[o] \notin DeletedIds(S)}]
      /\ b.stale = [c \in Client |-> {p \in n.stale[c] : idOf[p[1]] \notin DeletedIds(S)}]
      /\ b = [created |-> b.created, dirty |-> b.dirty, knows |-> b.knows, stale |-> b.stale]
  <2> DEFINE kn == [c \in Client |-> {o \in n.knows[c] : idOf[o] \notin DeletedIds(S)}]
             stl == [c \in Client |-> {p \in n.stale[c] : idOf[p[1]] \notin DeletedIds(S)}]
  <2>1. b = [n EXCEPT !.knows = kn, !.stale = stl]
    BY DEF WithDeletes
  <2> HIDE DEF b, kn, stl
  <2>2. /\ b.created = n.created /\ b.dirty = n.dirty /\ b.knows = kn /\ b.stale = stl
        /\ b = [created |-> b.created, dirty |-> b.dirty, knows |-> b.knows, stale |-> b.stale]
    BY <1>1, <2>1 DEF NetType
  <2> QED BY <2>2 DEF kn, stl
<1> HIDE DEF b
<1>3. b \in NetType
  <2>1. /\ n.knows \in [Client -> SUBSET Object]
        /\ n.stale \in [Client -> SUBSET (Object \X Part)]
    BY <1>1 DEF NetType
  <2>2. /\ b.knows \in [Client -> SUBSET Object]
        /\ b.stale \in [Client -> SUBSET (Object \X Part)]
    BY <1>2, <2>1
  <2> QED BY <1>1, <1>2, <2>2 DEF NetType
<1>4. Coherent(b)
  BY <1>2, <1>3 DEF Coherent
<1>5. \A o \in S : idOf[o] \in DeletedIds(S)
  BY DEF DeletedIds
<1> QED BY <1>2, <1>4, <1>5 DEF b

----------------------------------------------------------------------------
\* Identifiers: one that is free is never refused, and drawing one loses none.

LEMMA InitIInv == Init => IInv
<1> SUFFICES ASSUME Init PROVE IInv
  OBVIOUS
<1>1. TypeOK
  <2>1. net \in NetType
    BY DEF Init, NetType
  <2>2. 0 \in 0..MaxId /\ 1 \in 0..MaxId
    BY ReplicationAssumption
  <2>3. mGameStarted \in BOOLEAN
    BY DEF Init
  <2>4. <<>> \in Seq(Object) /\ <<>> \in Seq(0..MaxId)
    BY EmptySeq
  <2> QED BY <2>1, <2>2, <2>3, <2>4 DEF Init, TypeOK
<1>2. ToSet(<<>>) = {} /\ IsInjective(<<>>) /\ UsedIds = {}
  BY DEF Init, ToSet, IsInjective, UsedIds
<1>3. IdsInv
  <2>1. sNextId = 1 /\ Issued = {}
    BY <1>2 DEF Init, Issued
  <2> QED BY <1>2, <2>1 DEF Init, IdsInv, MarkedOnce, NoZeroId, OpenIdsAreFree, UsedOnce, NoIdIsLost
<1>4. Coherent(net)
  BY <1>1 DEF Init, Coherent, TypeOK
<1>5. NoGhosts /\ HeroesRemembered
  BY DEF Init, NoGhosts, HeroesRemembered
<1> QED BY <1>1, <1>3, <1>4, <1>5 DEF IInv

LEMMA OpenIsCreatable ==
  ASSUME IInv, mOpenObjectIds # <<>>
  PROVE  Creatable
<1>1. mOpenObjectIds \in Seq(0..MaxId)
  BY DEF IInv, TypeOK
<1>2. ToSet(mOpenObjectIds) = ToSet(Front(mOpenObjectIds)) \cup {Last(mOpenObjectIds)}
  BY <1>1, FrontLast
<1>3. Last(mOpenObjectIds) \in ToSet(mOpenObjectIds)
  BY <1>2, Zenon
<1> QED
  BY <1>3 DEF IInv, IdsInv, NoZeroId, OpenIdsAreFree, Creatable, NextObjectId

LEMMA AfterIdRange ==
  ASSUME IInv
  PROVE  /\ AfterId \in 0..MaxId
         /\ AfterId = 0 => sNextId = MaxId
         /\ AfterId # 0 => AfterId = sNextId + 1
<1>1. sNextId \in Nat /\ MaxId \in Nat \ {0} /\ sNextId <= MaxId
  BY ReplicationAssumption DEF IInv, TypeOK
<1>2. CASE sNextId = MaxId
  BY <1>1, <1>2 DEF AfterId
<1>3. CASE sNextId < MaxId
  BY <1>1, <1>3 DEF AfterId
<1> QED BY <1>1, <1>2, <1>3

\* Only when every identifier is in use is there none to hand out.
LEMMA RefusedWhenFull ==
  ASSUME IInv, ~Creatable
  PROVE  UsedIds = 1..MaxId /\ mOpenObjectIds = <<>>
<1>1. mOpenObjectIds = <<>>
  BY OpenIsCreatable
<1>2. sNextId = 0 \/ sNextId \in UsedIds
  BY <1>1 DEF Creatable, NextObjectId
<1>3. Issued = UsedIds
  BY <1>1 DEF Issued, ToSet
<1>4. sNextId \in Nat
  BY ReplicationAssumption DEF IInv, TypeOK
<1>5. sNextId \notin 1..(sNextId - 1)
  BY <1>4
<1> QED BY <1>1, <1>2, <1>3, <1>5 DEF IInv, IdsInv, NoIdIsLost

LEMMA CreateNothingInv ==
  ASSUME IInv, CreateNothing
  PROVE  IInv'
<1>1. mOpenObjectIds = <<>> /\ sNextId' = AfterId /\ mOpenObjectIds' = mOpenObjectIds
  BY OpenIsCreatable DEF CreateNothing, TakeId
<1>2. UsedIds = 1..MaxId
  BY RefusedWhenFull DEF CreateNothing
<1>3. UsedIds' = UsedIds
  BY DEF CreateNothing, UsedIds
<1>4. NoIdIsLost'
  BY <1>1, <1>2, <1>3 DEF NoIdIsLost, Issued, ToSet
<1>5. (MarkedOnce /\ NoZeroId /\ OpenIdsAreFree /\ UsedOnce)'
  BY <1>1, <1>3 DEF IInv, IdsInv, MarkedOnce, NoZeroId, OpenIdsAreFree, UsedOnce, CreateNothing
<1>6. TypeOK'
  BY <1>1, AfterIdRange DEF IInv, TypeOK, CreateNothing
<1>7. (Coherent(net) /\ NoGhosts /\ HeroesRemembered)'
  BY DEF IInv, Coherent, NoGhosts, HeroesRemembered, CreateNothing
<1> QED BY <1>4, <1>5, <1>6, <1>7 DEF IInv, IdsInv

LEMMA ConstructIds ==
  ASSUME IInv, NEW o \in Object, Construct(o), marked' = marked
  PROVE  /\ IdsInv'
         /\ active' \subseteq Object /\ idOf' \in [Object -> 0..MaxId]
         /\ mOpenObjectIds' \in Seq(0..MaxId) /\ sNextId' \in 0..MaxId
         /\ unsent' \subseteq Object
<1> DEFINE i == NextObjectId
<1>1. i # 0 /\ i \notin UsedIds /\ o \notin active
  BY DEF Construct, Creatable
<1>2. mOpenObjectIds \in Seq(0..MaxId) /\ idOf \in [Object -> 0..MaxId] /\ active \subseteq Object
  BY DEF IInv, TypeOK
<1>3. idOf' = [idOf EXCEPT ![o] = i] /\ active' = active \cup {o}
  BY DEF Construct
<1>4. /\ mOpenObjectIds' \in Seq(0..MaxId) /\ sNextId' \in 0..MaxId /\ i \in 0..MaxId
      /\ IsInjective(mOpenObjectIds') /\ i \notin ToSet(mOpenObjectIds')
      /\ ToSet(mOpenObjectIds') \subseteq ToSet(mOpenObjectIds)
      /\ \/ sNextId' = sNextId /\ ToSet(mOpenObjectIds') \cup {i} = ToSet(mOpenObjectIds)
         \/ /\ sNextId' = AfterId /\ i = sNextId
            /\ ToSet(mOpenObjectIds) = {} /\ ToSet(mOpenObjectIds') = {}
  <2>1. CASE mOpenObjectIds # <<>>
    <3>1. mOpenObjectIds' = Front(mOpenObjectIds) /\ sNextId' = sNextId /\ i = Last(mOpenObjectIds)
      BY <2>1 DEF Construct, TakeId, NextObjectId
    <3>2. IsInjective(mOpenObjectIds) /\ sNextId \in 0..MaxId
      BY DEF IInv, IdsInv, OpenIdsAreFree, TypeOK
    <3>3. /\ Front(mOpenObjectIds) \in Seq(0..MaxId)
          /\ ToSet(mOpenObjectIds) = ToSet(Front(mOpenObjectIds)) \cup {i}
      BY <1>2, <2>1, <3>1, FrontLast
    <3>4. IsInjective(Front(mOpenObjectIds)) /\ i \notin ToSet(Front(mOpenObjectIds))
      BY <1>2, <2>1, <3>1, <3>2, FrontInjective
    <3>5. i \in 0..MaxId
      BY <1>2, <2>1, <3>1, FrontLast
    <3> QED BY <3>1, <3>2, <3>3, <3>4, <3>5
  <2>2. CASE mOpenObjectIds = <<>>
    <3>1. mOpenObjectIds' = mOpenObjectIds /\ sNextId' = AfterId /\ i = sNextId
      BY <2>2 DEF Construct, TakeId, NextObjectId
    <3>2. ToSet(mOpenObjectIds) = {}
      BY <2>2 DEF ToSet
    <3>3. IsInjective(mOpenObjectIds) /\ sNextId \in 0..MaxId
      BY DEF IInv, IdsInv, OpenIdsAreFree, TypeOK
    <3> QED BY <1>2, <3>1, <3>2, <3>3, AfterIdRange
  <2> QED BY <2>1, <2>2
<1> HIDE DEF i
<1>5. UsedIds' = UsedIds \cup {i}
  BY <1>1, <1>2, <1>3 DEF UsedIds
<1>6. UsedOnce'
  BY <1>1, <1>2, <1>3 DEF IInv, IdsInv, UsedOnce, UsedIds
<1>7. (NoZeroId /\ OpenIdsAreFree)'
  BY <1>1, <1>4, <1>5 DEF IInv, IdsInv, NoZeroId, OpenIdsAreFree
<1>10. NoIdIsLost'
  <2>1. CASE sNextId' = sNextId /\ ToSet(mOpenObjectIds') \cup {i} = ToSet(mOpenObjectIds)
    <3>1. Issued' = Issued
      BY <1>5, <2>1 DEF Issued
    <3> QED BY <2>1, <3>1 DEF IInv, IdsInv, NoIdIsLost
  <2>2. CASE /\ sNextId' = AfterId /\ i = sNextId
             /\ ToSet(mOpenObjectIds) = {} /\ ToSet(mOpenObjectIds') = {}
    <3>1. Issued = UsedIds /\ Issued' = UsedIds \cup {sNextId}
      BY <1>5, <2>2 DEF Issued
    <3>2. sNextId \in 1..MaxId /\ MaxId \in Nat
      BY <1>1, <1>4, <2>2, ReplicationAssumption
    <3>3. UsedIds = 1..(sNextId - 1)
      BY <1>1, <2>2, <3>1, <3>2 DEF IInv, IdsInv, NoIdIsLost
    <3>4. Issued' = 1..sNextId
      BY <3>1, <3>2, <3>3
    <3> QED BY <2>2, <3>2, <3>4, AfterIdRange DEF NoIdIsLost
  <2> QED BY <1>4, <2>1, <2>2
<1>8. MarkedOnce'
  BY <1>3 DEF IInv, IdsInv, MarkedOnce
<1>9. unsent' \subseteq Object
  BY DEF IInv, TypeOK, Construct
<1> QED BY <1>2, <1>3, <1>4, <1>6, <1>7, <1>8, <1>9, <1>10 DEF IdsInv

----------------------------------------------------------------------------
\* The actions, one lemma each.

\* Constructing o forgets only that o was unsent.
LEMMA ConstructNet ==
  ASSUME IInv, NEW o \in Object, Construct(o)
  PROVE  /\ \A c \in Client : o \notin net.knows[c] /\ hero[c] # o
         /\ \A c \in Client : net.knows[c] \subseteq active' \cup unsent'
         /\ \A c \in Client : hero[c] # NoObject =>
              hero[c] \in active' \cup unsent' \cup (net.created \ {o})
BY DEF IInv, Construct, NoGhosts, HeroesRemembered

LEMMA ConnectInv ==
  ASSUME IInv, NEW c \in Client, Connect(c)
  PROVE  IInv'
<1>1. IdsInv'
  BY DEF IInv, IdsInv, MarkedOnce, NoZeroId, OpenIdsAreFree, UsedOnce, NoIdIsLost, Issued, UsedIds,
    Connect, idVars
<1>2. (TypeOK /\ Coherent(net))'
  BY DEF IInv, TypeOK, Coherent, Connect, idVars
<1>3. (NoGhosts /\ HeroesRemembered)'
  BY DEF IInv, TypeOK, NoGhosts, HeroesRemembered, Connect, idVars
<1> QED BY <1>1, <1>2, <1>3 DEF IInv

LEMMA HelloInv ==
  ASSUME IInv, NEW c \in Client, Hello(c)
  PROVE  IInv'
<1>1. IdsInv'
  BY DEF IInv, IdsInv, MarkedOnce, NoZeroId, OpenIdsAreFree, UsedOnce, NoIdIsLost, Issued, UsedIds,
    Hello, idVars
<1>2. (TypeOK /\ Coherent(net))'
  BY DEF IInv, TypeOK, Coherent, Hello, idVars
<1>3. (NoGhosts /\ HeroesRemembered)'
  BY DEF IInv, TypeOK, NoGhosts, HeroesRemembered, Hello, idVars
<1> QED BY <1>1, <1>2, <1>3 DEF IInv

\* The program ends and the next one begins.
LEMMA UsePlayerInv ==
  ASSUME IInv, UsePlayer
  PROVE  IInv'
<1>1. Init'
  BY DEF UsePlayer, Init
<1> QED BY <1>1, InitIInv, PTL

LEMMA LeaveInv ==
  ASSUME IInv, NEW c \in Client, Leave(c)
  PROVE  IInv'
<1>1. IdsInv'
  BY DEF IInv, IdsInv, MarkedOnce, NoZeroId, OpenIdsAreFree, UsedOnce, NoIdIsLost, Issued, UsedIds,
    Leave, idVars
<1>2. net \in NetType
  BY DEF IInv, TypeOK
<1>3. /\ net'.created = net.created /\ net'.dirty = net.dirty
      /\ net'.knows = [net.knows EXCEPT ![c] = {}]
      /\ net'.stale = [net.stale EXCEPT ![c] = {}]
      /\ net' \in NetType
  BY <1>2 DEF Leave, NetType
<1>4. Coherent(net)'
  BY <1>2, <1>3 DEF IInv, Coherent, Leave, NetType
<1>5. TypeOK'
  BY <1>3 DEF IInv, TypeOK, Leave, idVars
<1>6. (NoGhosts /\ HeroesRemembered)'
  BY <1>2, <1>3 DEF IInv, NoGhosts, HeroesRemembered, Leave, NetType
<1> QED BY <1>1, <1>4, <1>5, <1>6 DEF IInv

LEMMA SetSquadInv ==
  ASSUME IInv, NEW c \in Client, NEW o \in Object, SetSquad(c, o)
  PROVE  IInv'
<1>1. Construct(o) /\ marked' = marked /\ clients' = clients /\ Coherent(net)
  BY DEF SetSquad, IInv
<1>2. /\ Coherent(Born(net, o, Part))
      /\ net'.knows = net.knows /\ net'.created = net.created \ {o}
  BY <1>1, ConstructNet, BornNet DEF SetSquad
<1>3. Coherent(net)'
  BY <1>1, <1>2 DEF SetSquad, Coherent
<1>4. TypeOK'
  BY <1>1, <1>3, ConstructIds DEF IInv, TypeOK, SetSquad, Coherent
<1>5. NoGhosts'
  BY <1>1, <1>2, ConstructNet DEF NoGhosts
<1>6. HeroesRemembered'
  <2>1. hero' = [hero EXCEPT ![c] = o] /\ o \in active'
    BY DEF SetSquad, Construct
  <2> QED BY <1>1, <1>2, <2>1, ConstructNet DEF IInv, TypeOK, HeroesRemembered
<1> QED BY <1>1, <1>3, <1>4, <1>5, <1>6, ConstructIds DEF IInv

LEMMA DropInv ==
  ASSUME IInv, NEW o \in Object, Drop(o)
  PROVE  IInv'
<1> DEFINE n1 == Born(net, o, Part)
<1>1. Construct(o) /\ marked' = marked /\ clients' = clients /\ hero' = hero
      /\ o \in active' /\ mGameStarted \in BOOLEAN /\ net' = WithCreates(n1, {o}, mGameStarted)
  BY DEF Drop, Construct, IInv, TypeOK
<1>2. Coherent(n1) /\ n1.knows = net.knows /\ n1.created = net.created \ {o}
  BY <1>1, ConstructNet, BornNet DEF IInv
<1> HIDE DEF n1
<1>3. /\ Coherent(WithCreates(n1, {o}, mGameStarted))
      /\ \A c \in Client : net'.knows[c] \subseteq net.knows[c] \cup {o}
      /\ net.created \ {o} \subseteq net'.created
  <2>1. {o} \in SUBSET Object
    OBVIOUS
  <2> QED BY <1>1, <1>2, <2>1, WithCreatesNet
<1>4. Coherent(net)'
  BY <1>1, <1>3 DEF Coherent
<1>5. TypeOK'
  BY <1>1, <1>4, ConstructIds DEF IInv, TypeOK, Drop, Coherent
<1>6. (NoGhosts /\ HeroesRemembered)'
  BY <1>1, <1>3, ConstructNet DEF NoGhosts, HeroesRemembered
<1> QED BY <1>1, <1>4, <1>5, <1>6, ConstructIds DEF IInv

LEMMA CreateObjectInv ==
  ASSUME IInv, NEW o \in Object, CreateObject(o)
  PROVE  IInv'
<1>1. Construct(o) /\ marked' = marked /\ clients' = clients /\ hero' = hero
      /\ mGameStarted' = mGameStarted /\ o \in active' /\ mGameStarted \in BOOLEAN
      /\ players' = players
  BY DEF CreateObject, Construct, IInv, TypeOK
<1>2. PICK parts \in {{}, {"parts"}} :
        net' = Changed(WithUpdates(Born(net, o, parts), {o}, mGameStarted), o, {"data"})
  BY DEF CreateObject
<1> DEFINE n1 == Born(net, o, parts)
           n2 == WithUpdates(n1, {o}, mGameStarted)
<1>3. parts \in SUBSET Part /\ {"data"} \in SUBSET Part
  BY DEF Part
<1>4. Coherent(n1) /\ n1.knows = net.knows /\ n1.created = net.created \ {o}
  BY <1>1, <1>3, ConstructNet, BornNet DEF IInv
<1> HIDE DEF n1
<1>5. /\ Coherent(n2)
      /\ \A c \in Client : n2.knows[c] \subseteq net.knows[c] \cup {o}
      /\ net.created \ {o} \subseteq n2.created
  <2>1. {o} \in SUBSET Object
    OBVIOUS
  <2> QED BY <1>1, <1>4, <2>1, WithUpdatesNet DEF n2
<1> HIDE DEF n2
<1>6. /\ Coherent(Changed(n2, o, {"data"}))
      /\ net'.knows = n2.knows /\ net'.created = n2.created
      /\ net' = Changed(n2, o, {"data"})
  BY <1>2, <1>3, <1>5, ChangedNet DEF n1, n2
<1>7. Coherent(net)'
  BY <1>1, <1>6 DEF Coherent
<1>8. TypeOK'
  BY <1>1, <1>7, ConstructIds DEF IInv, TypeOK, Coherent
<1>9. (NoGhosts /\ HeroesRemembered)'
  BY <1>1, <1>5, <1>6, ConstructNet DEF NoGhosts, HeroesRemembered
<1> QED BY <1>1, <1>7, <1>8, <1>9, ConstructIds DEF IInv

LEMMA ChangeInv ==
  ASSUME IInv, NEW o \in Object, NEW part \in Part, Change(o, part)
  PROVE  IInv'
<1>1. IdsInv'
  BY DEF IInv, IdsInv, MarkedOnce, NoZeroId, OpenIdsAreFree, UsedOnce, NoIdIsLost, Issued, UsedIds,
    Change, idVars
<1>2. /\ Coherent(Changed(net, o, {part}))
      /\ net'.knows = net.knows /\ net'.created = net.created
  BY ChangedNet DEF IInv, Change
<1>3. Coherent(net)'
  BY <1>2 DEF Change, Coherent
<1>4. TypeOK'
  BY <1>3 DEF IInv, TypeOK, Change, Coherent, idVars
<1>5. (NoGhosts /\ HeroesRemembered)'
  BY <1>2 DEF IInv, NoGhosts, HeroesRemembered, Change
<1> QED BY <1>1, <1>3, <1>4, <1>5 DEF IInv

LEMMA MarkForDeletionInv ==
  ASSUME IInv, NEW o \in Object, MarkForDeletion(o)
  PROVE  IInv'
<1>1. o \notin ToSet(marked) /\ o \in active /\ marked \in Seq(Object)
  BY DEF MarkForDeletion, Markable, Elements, ToSet, IInv, TypeOK
<1>2. marked' = Append(marked, o) /\ marked' \in Seq(Object)
  BY <1>1 DEF MarkForDeletion
<1>3. MarkedOnce'
  BY <1>1, <1>2, AppendSet DEF IInv, IdsInv, MarkedOnce, MarkForDeletion
<1>4. (NoZeroId /\ OpenIdsAreFree /\ UsedOnce /\ NoIdIsLost)'
  BY DEF IInv, IdsInv, NoZeroId, OpenIdsAreFree, UsedOnce, NoIdIsLost, Issued, UsedIds,
    MarkForDeletion, idVars
<1>5. (TypeOK /\ Coherent(net) /\ NoGhosts /\ HeroesRemembered)'
  BY <1>2 DEF IInv, TypeOK, Coherent, NoGhosts, HeroesRemembered, MarkForDeletion, idVars
<1> QED BY <1>3, <1>4, <1>5 DEF IInv, IdsInv

LEMMA PlayerStartInv ==
  ASSUME IInv, NEW c \in Client, NEW level \in {{}} \cup {{o} : o \in Object},
         NEW loaded \in BOOLEAN, PlayerStart(c, level, loaded)
  PROVE  IInv'
<1> DEFINE h == {hero[c]} \cap Object
           n1 == IF level = {} THEN net ELSE Born(net, CHOOSE o \in level : TRUE, {"data"})
           n2 == WithCreates(n1, active', loaded)
           n3 == IF h = {} THEN n2 ELSE Changed(n2, hero[c], Part)
           n4 == WithUpdates(n3, h, loaded)
<1>1. net' = n4 /\ marked' = marked /\ clients' = clients /\ hero' = hero /\ mGameStarted' = loaded
      /\ players' = players
  BY DEF PlayerStart
<1>2. Coherent(net)
  BY DEF IInv
\* The level's objects.
<1>3. /\ Coherent(n1)
      /\ \A d \in Client : n1.knows[d] \subseteq active' \cup unsent'
      /\ \A d \in Client : hero[d] # NoObject => hero[d] \in active' \cup unsent' \cup n1.created
      /\ IdsInv'
      /\ active' \subseteq Object /\ idOf' \in [Object -> 0..MaxId]
      /\ mOpenObjectIds' \in Seq(0..MaxId) /\ sNextId' \in 0..MaxId
      /\ unsent' \subseteq Object
  <2>1. CASE level = {}
    <3>1. n1 = net /\ UNCHANGED <<active, idVars, unsent>>
      BY <2>1 DEF PlayerStart
    <3> HIDE DEF n1
    <3>2. UNCHANGED <<active, idOf, mOpenObjectIds, sNextId, unsent>>
      BY <3>1 DEF idVars
    <3>3. IdsInv'
      BY <1>1, <3>2 DEF IInv, IdsInv, MarkedOnce, NoZeroId, OpenIdsAreFree, UsedOnce,
        NoIdIsLost, Issued, UsedIds
    <3> QED BY <1>2, <3>1, <3>2, <3>3 DEF IInv, TypeOK, NoGhosts, HeroesRemembered
  <2>2. CASE level # {}
    <3>1. PICK o \in level : level = {o} /\ Construct(o)
      BY <2>2 DEF PlayerStart
    <3>2. o \in Object /\ (CHOOSE x \in level : TRUE) = o /\ {"data"} \in SUBSET Part
      BY <3>1 DEF Part
    <3>3. n1 = Born(net, o, {"data"})
      BY <2>2, <3>2
    <3> HIDE DEF n1
    <3>4. Coherent(n1) /\ n1.knows = net.knows /\ n1.created = net.created \ {o}
      BY <1>2, <3>1, <3>2, <3>3, ConstructNet, BornNet
    <3> QED BY <1>1, <3>1, <3>2, <3>4, ConstructNet, ConstructIds
  <2> QED BY <2>1, <2>2
<1> HIDE DEF n1
\* Every object that was not created is.
<1>4. /\ Coherent(n2)
      /\ \A d \in Client : n2.knows[d] \subseteq active' \cup unsent'
      /\ \A d \in Client : hero[d] # NoObject => hero[d] \in active' \cup unsent' \cup n2.created
  BY <1>3, WithCreatesNet
<1> HIDE DEF n2
\* The player's character is placed, and sent even when it left the game.
<1>5. /\ Coherent(n3) /\ n3.knows = n2.knows /\ n3.created = n2.created
  <2>1. CASE h = {}
    BY <1>4, <2>1
  <2>2. CASE h # {}
    <3>1. hero[c] \in Object /\ Part \in SUBSET Part
      BY <2>2
    <3> QED BY <1>4, <2>2, <3>1, ChangedNet
  <2> QED BY <2>1, <2>2
<1> HIDE DEF n3
<1>6. /\ Coherent(n4)
      /\ \A d \in Client : n4.knows[d] \subseteq n3.knows[d] \cup (h \ n3.created)
      /\ n3.created \subseteq n4.created
  <2>1. h \in SUBSET Object
    OBVIOUS
  <2> HIDE DEF h
  <2> QED BY <1>5, <2>1, WithUpdatesNet
<1>7. h \ n3.created \subseteq active' \cup unsent'
  BY <1>4, <1>5, ReplicationAssumption
<1> HIDE DEF n4, h
<1>8. Coherent(net)'
  BY <1>1, <1>6 DEF Coherent
<1>9. TypeOK'
  BY <1>1, <1>3, <1>8 DEF IInv, TypeOK, Coherent
<1>10. (NoGhosts /\ HeroesRemembered)'
  BY <1>1, <1>4, <1>5, <1>6, <1>7 DEF NoGhosts, HeroesRemembered
<1> QED BY <1>3, <1>8, <1>9, <1>10 DEF IInv

\* What is deleted is told to the clients before its identifier is free.
LEMMA UpdateInv ==
  ASSUME IInv, Update
  PROVE  IInv'
<1> DEFINE changed == {o \in active : \E p \in net.dirty : p[1] = o}
           gone == ToSet(marked)
           freed == [i \in DOMAIN marked |-> idOf[marked[i]]]
           n1 == WithUpdates(net, changed, mGameStarted)
<1>1. /\ net' = WithDeletes(n1, gone) /\ active' = active \ gone
      /\ mOpenObjectIds' = mOpenObjectIds \o freed /\ marked' = <<>>
      /\ unsent' = unsent \cup {o \in gone \ net'.created : \E c \in Client : hero[c] = o}
      /\ UNCHANGED <<idOf, sNextId, mGameStarted, clients, players, hero>>
  BY DEF Update, Dirty, Elements, ToSet
<1>2. /\ Coherent(net) /\ mGameStarted \in BOOLEAN /\ active \subseteq Object
      /\ gone \subseteq active /\ idOf \in [Object -> 0..MaxId]
      /\ marked \in Seq(Object) /\ mOpenObjectIds \in Seq(0..MaxId)
  BY DEF IInv, TypeOK, IdsInv, MarkedOnce
<1>3. changed \in SUBSET Object /\ changed \subseteq active /\ gone \in SUBSET Object
  BY <1>2
<1> HIDE DEF changed
<1>4. /\ Coherent(n1)
      /\ \A c \in Client : n1.knows[c] \subseteq net.knows[c] \cup changed
      /\ net.created \subseteq n1.created
  BY <1>2, <1>3, WithUpdatesNet
<1> HIDE DEF n1
<1>5. /\ Coherent(WithDeletes(n1, gone))
      /\ \A c \in Client : net'.knows[c] \subseteq n1.knows[c] \ gone
      /\ net'.created = n1.created
  BY <1>1, <1>3, <1>4, WithDeletesNet
<1>6. Coherent(net)'
  BY <1>1, <1>5 DEF Coherent
<1>7. (NoGhosts /\ HeroesRemembered)'
  <2>1. \A c \in Client : net.knows[c] \subseteq active \cup unsent
    BY DEF IInv, NoGhosts
  <2>2. NoGhosts'
    BY <1>1, <1>3, <1>4, <1>5, <2>1 DEF NoGhosts
  <2>3. HeroesRemembered'
    BY <1>1, <1>4, <1>5 DEF IInv, HeroesRemembered
  <2> QED BY <2>2, <2>3
<1>8. /\ freed \in Seq(0..MaxId)
      /\ ToSet(freed) = {idOf[o] : o \in gone}
      /\ IsInjective(freed)
  <2>1. /\ DOMAIN marked = 1..Len(marked) /\ Len(marked) \in Nat
        /\ \A i \in DOMAIN marked : marked[i] \in gone /\ idOf[marked[i]] \in 0..MaxId
    BY <1>2, LenProperties, ElementOfSeq DEF ToSet
  <2>2. freed \in Seq(0..MaxId)
    BY <2>1, SeqDef
  <2>3. ToSet(freed) = {idOf[o] : o \in gone}
    BY DEF ToSet
  <2>4. IsInjective(freed)
    <3>1. IsInjective(marked) /\ UsedOnce
      BY DEF IInv, IdsInv, MarkedOnce
    <3> QED BY <1>2, <2>1, <3>1 DEF IsInjective, UsedOnce
  <2> QED BY <2>2, <2>3, <2>4
<1> HIDE DEF freed
<1>9. /\ UsedIds = UsedIds' \cup ToSet(freed)
      /\ UsedIds' \cap ToSet(freed) = {}
  <2>1. UsedOnce
    BY DEF IInv, IdsInv
  <2> QED BY <1>1, <1>2, <1>8, <2>1 DEF UsedIds, UsedOnce
<1>10. /\ mOpenObjectIds' \in Seq(0..MaxId)
       /\ ToSet(mOpenObjectIds') = ToSet(mOpenObjectIds) \cup ToSet(freed)
       /\ IsInjective(mOpenObjectIds')
  <2>1. IsInjective(mOpenObjectIds) /\ ToSet(mOpenObjectIds) \cap ToSet(freed) = {}
    BY <1>9 DEF IInv, IdsInv, OpenIdsAreFree
  <2> QED BY <1>1, <1>2, <1>8, <2>1, ConcatProperties, ConcatSet
<1>11. (NoZeroId /\ OpenIdsAreFree /\ NoIdIsLost)'
  <2>1. Issued' = Issued
    BY <1>9, <1>10 DEF Issued
  <2> QED BY <1>1, <1>9, <1>10, <2>1 DEF IInv, IdsInv, NoZeroId, OpenIdsAreFree, NoIdIsLost
<1>12. (MarkedOnce /\ UsedOnce)'
  BY <1>1 DEF IInv, IdsInv, MarkedOnce, UsedOnce, ToSet, IsInjective
<1>13. TypeOK'
  BY <1>1, <1>2, <1>6, <1>10 DEF IInv, TypeOK, Coherent
<1> QED BY <1>6, <1>7, <1>11, <1>12, <1>13 DEF IInv, IdsInv

LEMMA StepIInv == IInv /\ [Next]_vars => IInv'
<1> SUFFICES ASSUME IInv, [Next]_vars PROVE IInv'
  OBVIOUS
<1>1. CASE UNCHANGED vars
  BY <1>1 DEF vars, idVars, IInv, TypeOK, IdsInv, MarkedOnce, NoZeroId, OpenIdsAreFree,
    UsedOnce, NoIdIsLost, Issued, UsedIds, Coherent, NoGhosts, HeroesRemembered
<1>2. CASE Next
  BY <1>2, CreateNothingInv, ConnectInv, HelloInv, UsePlayerInv, LeaveInv, SetSquadInv, PlayerStartInv, DropInv,
    CreateObjectInv, MarkForDeletionInv, ChangeInv, UpdateInv DEF Next
<1> QED BY <1>1, <1>2

----------------------------------------------------------------------------
\* Every state that the object manager and the connections of a game can reach
\* satisfies the inductive invariant.
THEOREM Inductive == Spec => []IInv
BY InitIInv, StepIInv, PTL DEF Spec

\* The object manager's and the connections' state always has its type.
THEOREM TypeCorrect == Spec => []TypeOK
<1>1. IInv => TypeOK
  BY DEF IInv
<1> QED BY <1>1, Inductive, PTL

\* CreateObject and the deletions of Update hand out, free and hand out again
\* without ever giving two objects one identifier, listing an identifier as free
\* twice or while it is in use, or losing one.
THEOREM IdentifiersAreExact == Spec => []IdsAreExact
<1>1. IInv => IdsAreExact
  <2> SUFFICES ASSUME IInv PROVE IdsAreExact
    OBVIOUS
  <2>1. Elements(mOpenObjectIds) = ToSet(mOpenObjectIds)
    BY DEF Elements, ToSet
  <2>2. Elements(mOpenObjectIds) \cup UsedIds \in {1..(sNextId - 1), 1..MaxId}
    BY <2>1 DEF IInv, IdsInv, NoIdIsLost, Issued
  <2>3. Creatable \/ UsedIds = 1..MaxId
    BY RefusedWhenFull
  <2> QED BY <2>1, <2>2, <2>3 DEF IInv, IdsInv, UsedOnce, OpenIdsAreFree, IdsAreExact, IsInjective
<1> QED BY <1>1, Inductive, PTL

\* A client holds no object that left the game, but a player's character that
\* was never sent to anybody before.
THEOREM NothingHaunts == Spec => []NoGhosts
<1>1. IInv => NoGhosts
  BY DEF IInv
<1> QED BY <1>1, Inductive, PTL

\* What a client has not been sent of an object it knows is flagged for the next
\* Update, whoever joined, left or was sent the object since.
THEOREM NoChangeIsLost == Spec => []StaleIsPending
<1>1. IInv => StaleIsPending
  BY DEF IInv, Coherent, StaleIsPending
<1> QED BY <1>1, Inductive, PTL
=============================================================================
