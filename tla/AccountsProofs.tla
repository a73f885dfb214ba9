--------------------------- MODULE AccountsProofs ---------------------------
(***************************************************************************)
(* Theorems about Accounts for any names, files, connections and sessions, *)
(* any templates and upgrades, and any number of user objects.             *)
(*                                                                         *)
(* IInv adds to what the runs check that the creatures of every account,   *)
(* in memory and in a file, have ascending ids: NextCreature follows the   *)
(* last one, which is a new id only because the last is the greatest.      *)
(* Every method is then a function from an account to one that is no       *)
(* worse and no richer (Keeps), and every handler moves accounts between   *)
(* files and objects.                                                      *)
(***************************************************************************)
EXTENDS Accounts, SequenceLemmas

Account ==
    [id : Nat, dna : 0..(Word - 1), rewards : Nat, progress : Nat, level : [Groups -> Nat],
     identify : Nat, creatures : Seq(Creature),
     squads : UNION {[D -> [1..3 -> Nat]] : D \in SUBSET Slots}, parts : Seq(Nat)]
UserObject == [name : Names, token : Nat, current : BOOLEAN, acc : Account]

Good(a) == a \in Account /\ Ascending(a.creatures) /\ Resolves(a)

\* What a method may make of an account.
Keeps(a, b) == Good(b) /\ NoMore(a, b)

Typed ==
    /\ file \in [Names -> Account]
    /\ user \in [Users -> {Free} \cup UserObject]
    /\ registered \in [Names -> {NoUser} \cup Users]
    /\ conn \in [Conns -> {NoUser} \cup Users]
    /\ session \in [Sessions -> {NoUser} \cup Users]

NamesMatch == \A n \in Names : registered[n] # NoUser =>
    Live(registered[n]) /\ user[registered[n]].name = n /\ user[registered[n]].current

PointersLive ==
    /\ \A c \in Conns : conn[c] # NoUser => Live(conn[c])
    /\ \A s \in Sessions : session[s] # NoUser => Live(session[s])

AccountsKept ==
    /\ \A n \in Names : Keeps(Initial[n], file[n])
    /\ \A o \in Users : Live(o) => Keeps(Initial[user[o].name], user[o].acc)

IInv == Typed /\ NamesMatch /\ PointersLive /\ AccountsKept

----------------------------------------------------------------------------
\* Accounts as a set.

LEMMA AccountIs ==
    ASSUME NEW a
    PROVE  IsAccount(a) <=> a \in Account
<1>1. ASSUME IsAccount(a) PROVE a \in Account
  <2>1. a.squads \in UNION {[D -> [1..3 -> Nat]] : D \in SUBSET Slots}
    BY <1>1 DEF IsAccount
  <2> QED BY <1>1, <2>1 DEF IsAccount, Account
<1>2. ASSUME a \in Account PROVE IsAccount(a)
  <2>1. a.squads \in UNION {[D -> [1..3 -> Nat]] : D \in SUBSET Slots}
    BY <1>2 DEF Account
  <2>2. PICK D \in SUBSET Slots : a.squads \in [D -> [1..3 -> Nat]]
    BY <2>1
  <2>3. DOMAIN a.squads = D
    BY <2>2
  <2> QED BY <1>2, <2>2, <2>3 DEF IsAccount, Account
<1> QED BY <1>1, <1>2

LEMMA SquadsAre ==
    ASSUME NEW a \in Account
    PROVE  /\ DOMAIN a.squads \subseteq Slots
           /\ a.squads \in [DOMAIN a.squads -> [1..3 -> Nat]]
           /\ \A s \in [DOMAIN a.squads -> [1..3 -> Nat]] :
                  s \in UNION {[D -> [1..3 -> Nat]] : D \in SUBSET Slots}
<1>1. DOMAIN a.squads \subseteq Slots /\ a.squads \in [DOMAIN a.squads -> [1..3 -> Nat]]
  BY AccountIs DEF IsAccount
<1> QED BY <1>1

----------------------------------------------------------------------------
\* What an account is worth.

LEMMA CostIs == \A id : Cost(id) \in Nat
<1>1. Len(UnlockCost) = 52
  BY DEF UnlockCost
<1>2. \A id \in 1..52 : UnlockCost[id] \in Nat
  BY DEF UnlockCost
<1> QED BY <1>1, <1>2 DEF Cost

LEMMA EffectCases ==
  ASSUME NEW id \in Nat
  PROVE  \/ id \in 1..6 /\ Effect(id) = <<"catalysts", id + 3>>
         \/ id = 7 /\ Effect(id) = <<"diagonal", 1>>
         \/ id \in 8..25 /\ Effect(id) = <<"stats", id - 7>>
         \/ id \in 26..35 /\ Effect(id) = <<"inventory", id - 22>>
         \/ id \in 36..37 /\ Effect(id) = <<"pve", id - 34>>
         \/ id = 38 /\ Effect(id) = <<"pvp", 1>>
         \/ id \in 42..44 /\ Effect(id) = <<"fuel", id - 39>>
         \/ id \in 46..48 /\ Effect(id) = <<"flair", id - 42>>
         \/ id \in 49..51 /\ Effect(id) = <<"inventory", id - 48>>
         \/ id = 52 /\ Effect(id) = <<"inventory", 14>>
         \/ Effect(id) = <<"none", 0>>
<1>1. ASSUME id \in 1..6 PROVE Effect(id) = <<"catalysts", id + 3>>
  BY <1>1 DEF Effect
<1>2. ASSUME id = 7 PROVE Effect(id) = <<"diagonal", 1>>
  BY <1>2 DEF Effect
<1>3. ASSUME id \in 8..25 PROVE Effect(id) = <<"stats", id - 7>>
  BY <1>3 DEF Effect
<1>4. ASSUME id \in 26..35 PROVE Effect(id) = <<"inventory", id - 22>>
  BY <1>4 DEF Effect
<1>5. ASSUME id \in 36..37 PROVE Effect(id) = <<"pve", id - 34>>
  BY <1>5 DEF Effect
<1>6. ASSUME id = 38 PROVE Effect(id) = <<"pvp", 1>>
  BY <1>6 DEF Effect
<1>7. ASSUME id \in 42..44 PROVE Effect(id) = <<"fuel", id - 39>>
  BY <1>7 DEF Effect
<1>8. ASSUME id \in 46..48 PROVE Effect(id) = <<"flair", id - 42>>
  BY <1>8 DEF Effect
<1>9. ASSUME id \in 49..51 PROVE Effect(id) = <<"inventory", id - 48>>
  BY <1>9 DEF Effect
<1>10. ASSUME id = 52 PROVE Effect(id) = <<"inventory", 14>>
  BY <1>10 DEF Effect
<1>11. ASSUME id \notin (1..38) \cup (42..44) \cup (46..52) PROVE Effect(id) = <<"none", 0>>
  BY <1>11 DEF Effect
<1> QED BY <1>1, <1>2, <1>3, <1>4, <1>5, <1>6, <1>7, <1>8, <1>9, <1>10, <1>11

\* The id an effect comes from.
SourceOf(group, level) ==
    CASE group = "catalysts" -> level - 3
      [] group = "diagonal" -> 7
      [] group = "stats" -> level + 7
      [] group = "pve" -> level + 34
      [] group = "pvp" -> 38
      [] group = "fuel" -> level + 39
      [] group = "flair" -> level + 42
      [] OTHER -> IF level < 4 THEN level + 48 ELSE IF level < 14 THEN level + 22 ELSE 52

LEMMA EffectIs ==
  ASSUME NEW id \in Nat, Effect(id)[1] # "none"
  PROVE  /\ id \in 1..52 /\ Effect(id)[1] \in Groups /\ Effect(id)[2] \in Nat
         /\ Effect(id) = <<Effect(id)[1], Effect(id)[2]>>
         /\ \A other \in 1..52 : Effect(other) = Effect(id) => other = id
<1>1. \A x \in Nat : Effect(x)[1] # "none" =>
         /\ x \in 1..52 /\ Effect(x)[1] \in Groups /\ Effect(x)[2] \in Nat
         /\ Effect(x) = <<Effect(x)[1], Effect(x)[2]>>
         /\ x = SourceOf(Effect(x)[1], Effect(x)[2])
  <2>1. ASSUME NEW x \in Nat, Effect(x)[1] # "none",
               NEW g, NEW l, Effect(x) = <<g, l>>, g \in Groups, l \in Nat, x \in 1..52, x = SourceOf(g, l)
        PROVE  /\ x \in 1..52 /\ Effect(x)[1] \in Groups /\ Effect(x)[2] \in Nat
               /\ Effect(x) = <<Effect(x)[1], Effect(x)[2]>>
               /\ x = SourceOf(Effect(x)[1], Effect(x)[2])
    BY <2>1
  <2>2. ASSUME NEW x \in Nat, Effect(x)[1] # "none"
        PROVE  \E g, l : /\ Effect(x) = <<g, l>> /\ g \in Groups /\ l \in Nat
                         /\ x \in 1..52 /\ x = SourceOf(g, l)
    <3>1. CASE x \in 1..6 /\ Effect(x) = <<"catalysts", x + 3>>
      <4>1. "catalysts" \in Groups /\ x + 3 \in Nat /\ x \in 1..52 /\ x = SourceOf("catalysts", x + 3)
        BY <3>1 DEF Groups, SourceOf
      <4> QED BY <3>1, <4>1
    <3>2. CASE x = 7 /\ Effect(x) = <<"diagonal", 1>>
      <4>1. "diagonal" \in Groups /\ 1 \in Nat /\ x \in 1..52 /\ x = SourceOf("diagonal", 1)
        BY <3>2 DEF Groups, SourceOf
      <4> QED BY <3>2, <4>1
    <3>3. CASE x \in 8..25 /\ Effect(x) = <<"stats", x - 7>>
      <4>1. "stats" \in Groups /\ x - 7 \in Nat /\ x \in 1..52 /\ x = SourceOf("stats", x - 7)
        BY <3>3 DEF Groups, SourceOf
      <4> QED BY <3>3, <4>1
    <3>4. CASE x \in 26..35 /\ Effect(x) = <<"inventory", x - 22>>
      <4>1. "inventory" \in Groups /\ x - 22 \in Nat /\ x \in 1..52 /\ x = SourceOf("inventory", x - 22)
        BY <3>4 DEF Groups, SourceOf
      <4> QED BY <3>4, <4>1
    <3>5. CASE x \in 36..37 /\ Effect(x) = <<"pve", x - 34>>
      <4>1. "pve" \in Groups /\ x - 34 \in Nat /\ x \in 1..52 /\ x = SourceOf("pve", x - 34)
        BY <3>5 DEF Groups, SourceOf
      <4> QED BY <3>5, <4>1
    <3>6. CASE x = 38 /\ Effect(x) = <<"pvp", 1>>
      <4>1. "pvp" \in Groups /\ 1 \in Nat /\ x \in 1..52 /\ x = SourceOf("pvp", 1)
        BY <3>6 DEF Groups, SourceOf
      <4> QED BY <3>6, <4>1
    <3>7. CASE x \in 42..44 /\ Effect(x) = <<"fuel", x - 39>>
      <4>1. "fuel" \in Groups /\ x - 39 \in Nat /\ x \in 1..52 /\ x = SourceOf("fuel", x - 39)
        BY <3>7 DEF Groups, SourceOf
      <4> QED BY <3>7, <4>1
    <3>8. CASE x \in 46..48 /\ Effect(x) = <<"flair", x - 42>>
      <4>1. "flair" \in Groups /\ x - 42 \in Nat /\ x \in 1..52 /\ x = SourceOf("flair", x - 42)
        BY <3>8 DEF Groups, SourceOf
      <4> QED BY <3>8, <4>1
    <3>9. CASE x \in 49..51 /\ Effect(x) = <<"inventory", x - 48>>
      <4>1. "inventory" \in Groups /\ x - 48 \in Nat /\ x \in 1..52 /\ x = SourceOf("inventory", x - 48)
        BY <3>9 DEF Groups, SourceOf
      <4> QED BY <3>9, <4>1
    <3>10. CASE x = 52 /\ Effect(x) = <<"inventory", 14>>
      <4>1. "inventory" \in Groups /\ 14 \in Nat /\ x \in 1..52 /\ x = SourceOf("inventory", 14)
        BY <3>10 DEF Groups, SourceOf
      <4> QED BY <3>10, <4>1
    <3> QED BY <2>2, EffectCases, <3>1, <3>2, <3>3, <3>4, <3>5, <3>6, <3>7, <3>8, <3>9, <3>10
  <2> QED BY <2>1, <2>2
<1> QED BY <1>1

LEMMA PaidIs ==
    /\ \A g, l : Paid(g, l) \in Nat
    /\ \A id \in Nat : Effect(id)[1] # "none" => Paid(Effect(id)[1], Effect(id)[2]) = Cost(id)
<1> DEFINE Ids == 1..Len(UnlockCost)
           Of(e) == CHOOSE id \in Ids : Effect(id) = e
<1>1. Ids = 1..52
  BY DEF UnlockCost
<1>2. DOMAIN Prices = {Effect(id) : id \in Ids} /\ \A e \in DOMAIN Prices : Prices[e] = Cost(Of(e))
  BY DEF Prices
<1>3. \A g, l : Paid(g, l) \in Nat
  <2> HIDE DEF Of, Ids
  <2> QED BY <1>2, CostIs DEF Paid
<1>4. ASSUME NEW id \in Nat, Effect(id)[1] # "none"
      PROVE  Paid(Effect(id)[1], Effect(id)[2]) = Cost(id)
  <2>1. id \in Ids /\ Effect(id) = <<Effect(id)[1], Effect(id)[2]>>
    BY <1>1, <1>4, EffectIs
  <2>2. Of(Effect(id)) \in Ids /\ Effect(Of(Effect(id))) = Effect(id)
    BY <2>1
  <2>3. Of(Effect(id)) = id
    BY <1>1, <1>4, <2>2, EffectIs
  <2> HIDE DEF Of, Ids
  <2>4. Effect(id) \in DOMAIN Prices
    BY <1>2, <2>1
  <2> QED BY <1>2, <2>1, <2>3, <2>4 DEF Paid
<1> QED BY <1>3, <1>4

LEMMA WorthIs ==
    ASSUME NEW a \in Account
    PROVE  /\ \A g \in Groups : Held(a, g) \in Nat
           /\ Worth(a) \in Nat
           /\ \A b \in Account :
                /\ a.dna = b.dna /\ (\A g \in Groups : Held(a, g) = Held(b, g)) => Worth(a) = Worth(b)
                /\ a.dna = b.dna /\ a.identify = b.identify
                     /\ (\A g \in Groups \ {"inventory"} : a.level[g] = b.level[g]) => Worth(a) = Worth(b)
<1>1. \A g : Held(a, g) \in Nat
  BY PaidIs DEF Held
<1>2. a.dna \in Nat
  BY AccountsAssumption DEF Account
<1>3. Worth(a) \in Nat
  BY <1>1, <1>2 DEF Worth
<1>4. ASSUME NEW b \in Account, a.dna = b.dna, \A g \in Groups : Held(a, g) = Held(b, g)
      PROVE  Worth(a) = Worth(b)
  <2>1. {"catalysts", "diagonal", "stats", "inventory", "pve", "pvp", "fuel", "flair"} \subseteq Groups
    BY DEF Groups
  <2> QED BY <1>4, <2>1 DEF Worth
<1>5. ASSUME NEW b \in Account, a.identify = b.identify,
             \A g \in Groups \ {"inventory"} : a.level[g] = b.level[g]
      PROVE  \A g \in Groups : Held(a, g) = Held(b, g)
  BY <1>5 DEF Held, Stock
<1> QED BY <1>1, <1>3, <1>4, <1>5

----------------------------------------------------------------------------
\* The methods: what they make of an account keeps it.

LEMMA EarnedIs ==
    ASSUME NEW a \in Account
    PROVE  a.rewards \in Nat /\ Len(a.creatures) \in Nat /\ Earned(a) \in Nat
<1>1. a.rewards \in Nat /\ Len(a.creatures) \in Nat
  BY LenProperties DEF Account
<1> QED BY <1>1 DEF Earned

LEMMA KeepsTrans ==
    ASSUME NEW a \in Account, NEW b \in Account, NEW d \in Account, Keeps(a, b), Keeps(b, d)
    PROVE  Keeps(a, d)
<1>1. Worth(a) \in Nat /\ Worth(b) \in Nat /\ Worth(d) \in Nat
  BY WorthIs
<1>2. Earned(a) \in Nat /\ Earned(b) \in Nat /\ Earned(d) \in Nat
  BY EarnedIs
<1> QED BY <1>1, <1>2 DEF Keeps, NoMore

LEMMA KeepsSelf == ASSUME NEW a, Good(a) PROVE Keeps(a, a)
<1>1. Worth(a) \in Nat /\ Earned(a) \in Nat
  BY WorthIs, EarnedIs DEF Good
<1> QED BY <1>1 DEF Keeps, NoMore

\* As long as creatures and squads stay, and what is worth something, and no
\* reward comes.
LEMMA KeepsRest ==
    ASSUME NEW a, Good(a), NEW b \in Account, b.creatures = a.creatures, b.squads = a.squads,
           b.rewards = a.rewards \/ b.rewards < a.rewards
    PROVE  /\ Good(b)
           /\ a.dna = b.dna /\ a.identify = b.identify
                /\ (\A g \in Groups \ {"inventory"} : a.level[g] = b.level[g]) => Keeps(a, b)
<1>1. a \in Account
  BY DEF Good
<1>2. Good(b)
  BY DEF Good, Ascending, Resolves, CreatureIds
<1>3. ASSUME a.dna = b.dna, a.identify = b.identify,
             \A g \in Groups \ {"inventory"} : a.level[g] = b.level[g]
      PROVE  Keeps(a, b)
  <2>1. Worth(a) = Worth(b) /\ Worth(a) \in Nat
    BY <1>1, <1>3, WorthIs
  <2>2. Earned(b) <= Earned(a)
    BY <1>1, EarnedIs DEF Earned
  <2> QED BY <1>2, <2>1, <2>2 DEF Keeps, NoMore
<1> QED BY <1>2, <1>3

LEMMA MinusIs ==
    ASSUME NEW a \in 0..(Word - 1), NEW b \in Nat, b <= a
    PROVE  Minus(a, b) = a - b /\ a - b \in 0..(Word - 1)
<1>1. Word \in Nat /\ Word > 0
  BY AccountsAssumption
<1>2. a - b \in Nat /\ a - b < Word /\ a - b \in 0..(Word - 1)
  BY <1>1
<1>3. \A w \in Nat \ {0} : \A n \in 0..(w - 1) : n % w = n
  OBVIOUS
<1> QED BY <1>1, <1>2, <1>3 DEF Minus

\* An upgrade is worth what it costs, and takes the place of another.
LEMMA UnlockKeeps ==
    ASSUME NEW a, Good(a), NEW id \in Nat
    PROVE  /\ UnlockUpgrade(a, id) \in Account /\ Keeps(a, UnlockUpgrade(a, id))
           /\ ~Affordable(a, id) => UnlockUpgrade(a, id) = a
<1>1. CASE ~Affordable(a, id)
  <2>1. UnlockUpgrade(a, id) = a
    BY <1>1 DEF UnlockUpgrade, Refused
  <2> QED BY <2>1, KeepsSelf DEF Good
<1>2. CASE Affordable(a, id)
  <2> DEFINE e == Effect(id)
             dna == Minus(a.dna, Cost(id))
             level == [g \in Groups |-> IF g = e[1] THEN e[2] ELSE a.level[g]]
             identify == IF e[1] = "inventory" THEN Identify(e[2]) ELSE a.identify
             b == UnlockUpgrade(a, id)
  <2>1. b = [a EXCEPT !.dna = dna, !.level = level, !.identify = identify]
    BY <1>2 DEF UnlockUpgrade
  <2>2. a \in Account /\ a.dna \in 0..(Word - 1) /\ a.dna \in Nat /\ a.level \in [Groups -> Nat]
        /\ a.identify \in Nat
    BY AccountsAssumption DEF Good, Account
  <2>3. Cost(id) \in Nat /\ Cost(id) <= a.dna
    BY <1>2, CostIs DEF Affordable
  <2>4. dna = a.dna - Cost(id) /\ dna \in 0..(Word - 1)
    BY <2>2, <2>3, MinusIs
  <2>5. e[1] # "none" => e[1] \in Groups /\ e[2] \in Nat /\ Paid(e[1], e[2]) = Cost(id)
    BY EffectIs, PaidIs
  <2>6. "none" \notin Groups
    BY DEF Groups
  <2>7. level \in [Groups -> Nat] /\ \A g \in Groups : level[g] = IF g = e[1] THEN e[2] ELSE a.level[g]
    <3> HIDE DEF e
    <3> QED BY <2>2, <2>5, <2>6
  <2>8. identify \in Nat
    <3> HIDE DEF e
    <3>1. CASE e[1] = "inventory"
      BY <2>5, <3>1 DEF Identify
    <3> QED BY <2>2, <3>1
  <2> HIDE DEF e, dna, level
  <2>9. e[1] = "inventory" =>
          (IF identify < 180 THEN 0 ELSE (identify - 180) \div 30) = e[2]
    BY <2>5 DEF Identify
  <2>10. e[1] # "inventory" => identify = a.identify
    OBVIOUS
  <2> HIDE DEF identify
  <2>11. /\ b \in Account /\ b.dna = dna /\ b.level = level /\ b.identify = identify
         /\ b.creatures = a.creatures /\ b.squads = a.squads /\ b.rewards = a.rewards
    BY <2>1, <2>2, <2>4, <2>7, <2>8 DEF Account
  <2> HIDE DEF b
  <2>12. Good(b) /\ Earned(b) <= Earned(a)
    <3>1. Good(b)
      BY <2>11, KeepsRest
    <3>2. Earned(b) = Earned(a) /\ Earned(a) \in Nat
      BY <2>2, <2>11, EarnedIs DEF Earned
    <3> QED BY <3>1, <3>2
  <2>13. \A g \in Groups : Held(a, g) \in Nat /\ Held(b, g) \in Nat
    BY <2>2, <2>11, WorthIs
  <2>14. ASSUME NEW g \in Groups, g # e[1] PROVE Held(b, g) = Held(a, g)
    BY <2>7, <2>10, <2>11, <2>14 DEF Held, Stock
  <2>15. CASE e[1] = "none"
    <3>1. \A g \in Groups : Held(b, g) = Held(a, g)
      BY <2>6, <2>14, <2>15
    <3>2. {"catalysts", "diagonal", "stats", "inventory", "pve", "pvp", "fuel", "flair"} \subseteq Groups
      BY DEF Groups
    <3>3. Worth(b) <= Worth(a)
      BY <2>2, <2>3, <2>4, <2>11, <2>13, <3>1, <3>2 DEF Worth
    <3> QED BY <2>11, <2>12, <3>3, <1>2 DEF Keeps, NoMore, b
  <2>16. CASE e[1] # "none"
    <3>1. Held(b, e[1]) = Cost(id) /\ e[1] \in Groups
      BY <2>5, <2>7, <2>9, <2>11, <2>16 DEF Held, Stock
    <3> DEFINE g == e[1]
    <3>2. g \in {"catalysts", "diagonal", "stats", "inventory", "pve", "pvp", "fuel", "flair"}
      BY <3>1 DEF Groups
    <3>3. \A h \in {"catalysts", "diagonal", "stats", "inventory", "pve", "pvp", "fuel", "flair"} :
             /\ Held(b, h) = IF h = g THEN Cost(id) ELSE Held(a, h)
             /\ Held(a, h) \in Nat
      BY <2>13, <2>14, <3>1 DEF Groups
    <3> HIDE DEF g
    <3>4. Worth(b) <= Worth(a)
      BY <2>2, <2>3, <2>4, <2>11, <3>2, <3>3 DEF Worth
    <3> QED BY <2>11, <2>12, <3>4, <1>2 DEF Keeps, NoMore, b
  <2> QED BY <2>15, <2>16
<1> QED BY <1>1, <1>2

\* A list of creatures that keeps its ids, or gets a greater one at the end.
LEMMA AddKeeps ==
    ASSUME NEW a, Good(a), NEW template \in Nat
    PROVE  /\ AddCreature(a, template) \in Account /\ Good(AddCreature(a, template))
           /\ Worth(AddCreature(a, template)) <= Worth(a)
           /\ Earned(AddCreature(a, template)) <= Earned(a) + 1
<1>1. CASE template \notin Templates
  <2>1. AddCreature(a, template) = a /\ a \in Account /\ Keeps(a, a)
    BY <1>1, KeepsSelf DEF AddCreature, Good
  <2>2. Earned(a) \in Nat
    BY <2>1, EarnedIs
  <2> QED BY <2>1, <2>2 DEF Keeps, NoMore
<1>2. CASE template \in Templates
  <2> DEFINE cs == a.creatures
             new == [id |-> NextCreature(cs), template |-> template, gear |-> 0]
             ds == Append(cs, new)
             b == AddCreature(a, template)
  <2>1. a \in Account /\ cs \in Seq(Creature) /\ Len(cs) \in Nat
    BY LenProperties DEF Good, Account
  <2>2. NextCreature(cs) \in Nat /\ \A i \in 1..Len(cs) : cs[i].id < NextCreature(cs)
    <3>1. CASE cs = <<>>
      BY <3>1, EmptySeq DEF NextCreature
    <3>2. CASE cs # <<>>
      <4>1. Len(cs) >= 1 /\ Last(cs) = cs[Len(cs)]
        BY <2>1, <3>2, EmptySeq DEF Last
      <4>2. ASSUME NEW i \in 1..Len(cs) PROVE cs[i].id \in Nat
        <5>1. cs[i] \in Creature
          BY <2>1, ElementOfSeq
        <5> QED BY <5>1 DEF Creature
      <4>3. \A i \in 1..(Len(cs) - 1) : cs[i].id < cs[Len(cs)].id
        BY <2>1, <4>1 DEF Good, Ascending
      <4>4. NextCreature(cs) = cs[Len(cs)].id + 1
        BY <3>2, <4>1 DEF NextCreature
      <4> HIDE DEF cs
      <4>5. Len(cs) \in 1..Len(cs)
        BY <2>1, <4>1
      <4>6. cs[Len(cs)].id \in Nat
        BY <4>2, <4>5
      <4>7. ASSUME NEW i \in 1..Len(cs) PROVE cs[i].id < cs[Len(cs)].id + 1
        <5>1. CASE i = Len(cs)
          BY <4>6, <5>1
        <5>2. CASE i # Len(cs)
          <6>1. i \in 1..(Len(cs) - 1)
            BY <2>1, <5>2
          <6>2. cs[i].id < cs[Len(cs)].id /\ cs[i].id \in Nat
            BY <4>2, <4>3, <6>1
          <6> QED BY <4>6, <6>2
        <5> QED BY <5>1, <5>2
      <4> QED BY <4>4, <4>6, <4>7
    <3> QED BY <3>1, <3>2
  <2>3. new \in Creature /\ new.id = NextCreature(cs)
    BY <2>2 DEF Creature
  <2> HIDE DEF cs, new
  <2>4. /\ ds \in Seq(Creature) /\ Len(ds) = Len(cs) + 1 /\ ds[Len(cs) + 1] = new
        /\ \A i \in 1..Len(cs) : ds[i] = cs[i]
    BY <2>1, <2>3, AppendProperties
  <2>5. b = [a EXCEPT !.creatures = ds]
    BY <1>2 DEF AddCreature, ds, cs, new
  <2> HIDE DEF ds
  <2>6. /\ b \in Account /\ b.creatures = ds /\ b.squads = a.squads /\ b.dna = a.dna
        /\ b.level = a.level /\ b.identify = a.identify /\ b.rewards = a.rewards
    BY <2>1, <2>4, <2>5 DEF Account
  <2> HIDE DEF b
  <2>7. Ascending(ds)
    <3>1. Ascending(cs)
      BY DEF Good, cs
    <3>2. ASSUME NEW i \in 1..(Len(cs) + 1), NEW j \in 1..(i - 1) PROVE ds[j].id < ds[i].id
      <4>1. j \in 1..Len(cs) /\ ds[j] = cs[j]
        BY <2>1, <2>4
      <4>2. CASE i = Len(cs) + 1
        BY <2>2, <2>3, <2>4, <4>1, <4>2
      <4>3. CASE i # Len(cs) + 1
        <5>1. i \in 1..Len(cs) /\ ds[i] = cs[i]
          BY <2>1, <2>4, <4>3
        <5> QED BY <3>1, <4>1, <5>1 DEF Ascending
      <4> QED BY <4>2, <4>3
    <3> QED BY <2>4, <3>2 DEF Ascending
  <2>8. CreatureIds(a) \subseteq CreatureIds(b)
    BY <2>1, <2>4, <2>6 DEF CreatureIds, cs
  <2>9. Good(b)
    BY <2>6, <2>7, <2>8 DEF Good, Resolves
  <2>10. Worth(b) = Worth(a) /\ Worth(a) \in Nat
    BY <2>1, <2>6, WorthIs
  <2>11. Earned(b) = Earned(a) + 1
    BY <2>1, <2>4, <2>6, EarnedIs DEF Earned, cs
  <2>12. Earned(b) <= Earned(a) + 1 /\ Worth(b) <= Worth(a)
    BY <2>1, <2>10, <2>11, EarnedIs
  <2> QED BY <2>6, <2>9, <2>12 DEF b
<1> QED BY <1>1, <1>2

LEMMA UnlockCreatureKeeps ==
    ASSUME NEW a, Good(a), NEW template \in Nat
    PROVE  UnlockCreature(a, template) \in Account /\ Keeps(a, UnlockCreature(a, template))
<1>1. CASE a.rewards = 0
  BY <1>1, KeepsSelf DEF UnlockCreature, Good
<1>2. CASE a.rewards # 0
  <2> DEFINE b == [a EXCEPT !.rewards = a.rewards - 1]
  <2>1. a \in Account /\ a.rewards \in Nat /\ a.rewards - 1 \in Nat
    BY <1>2 DEF Good, Account
  <2>2. /\ b \in Account /\ b.creatures = a.creatures /\ b.squads = a.squads /\ b.dna = a.dna
        /\ b.level = a.level /\ b.identify = a.identify /\ b.rewards = a.rewards - 1
    BY <2>1 DEF Account
  <2> DEFINE d == UnlockCreature(a, template)
  <2>3. d = AddCreature(b, template)
    BY <1>2 DEF UnlockCreature
  <2> HIDE DEF b
  <2>4. Good(b) /\ Keeps(a, b)
    BY <2>1, <2>2, KeepsRest
  <2>5. d \in Account /\ Good(d) /\ Worth(d) <= Worth(b) /\ Earned(d) <= Earned(b) + 1
    BY <2>3, <2>4, AddKeeps
  <2> HIDE DEF d
  <2>6. Earned(b) + 1 = Earned(a) /\ Earned(a) \in Nat /\ Earned(b) \in Nat /\ Earned(d) \in Nat
    <3>1. Earned(a) \in Nat /\ Earned(b) \in Nat /\ Earned(d) \in Nat
      BY <2>1, <2>2, <2>5, EarnedIs
    <3>2. Earned(b) + 1 = Earned(a)
      BY <2>1, <2>2, EarnedIs DEF Earned
    <3> QED BY <3>1, <3>2
  <2>7. Worth(a) \in Nat /\ Worth(b) \in Nat /\ Worth(d) \in Nat /\ Worth(b) <= Worth(a)
    BY <2>1, <2>2, <2>4, <2>5, WorthIs DEF Keeps, NoMore
  <2>8. Worth(d) <= Worth(a) /\ Earned(d) <= Earned(a)
    BY <2>5, <2>6, <2>7
  <2> QED BY <2>5, <2>8 DEF Keeps, NoMore, d
<1> QED BY <1>1, <1>2

\* A place that is written gets the id of a creature; the others stay.
LEMMA SquadKeeps ==
    ASSUME NEW a, Good(a), NEW slot, NEW ids \in Seq(Nat)
    PROVE  UpdateSquad(a, slot, ids) \in Account /\ Keeps(a, UpdateSquad(a, slot, ids))
<1>1. CASE slot \notin DOMAIN a.squads
  BY <1>1, KeepsSelf DEF UpdateSquad, Good
<1>2. CASE slot \in DOMAIN a.squads
  <2> DEFINE found == {p \in DOMAIN ids : ids[p] # 0 /\ Known(a, ids[p])}
             nth(i) == {p \in found : Cardinality({q \in found : q <= p}) = i}
             squad == [i \in 1..3 |-> IF nth(i) = {} THEN a.squads[slot][i]
                                      ELSE ids[CHOOSE p \in nth(i) : TRUE]]
             squads == [a.squads EXCEPT ![slot] = squad]
             b == UpdateSquad(a, slot, ids)
  <2>1. a \in Account /\ a.squads \in [DOMAIN a.squads -> [1..3 -> Nat]]
    BY SquadsAre DEF Good
  <2>2. b = [a EXCEPT !.squads = squads]
    BY <1>2 DEF UpdateSquad
  <2>3. \A p \in found : ids[p] \in Nat /\ ids[p] \in CreatureIds(a)
    BY LenProperties, ElementOfSeq DEF Known
  <2>4. \A i : nth(i) \subseteq found
    OBVIOUS
  <2> HIDE DEF found, nth
  <2>5. ASSUME NEW i \in 1..3
        PROVE  squad[i] \in Nat /\ squad[i] \in {0} \cup CreatureIds(a)
    <3>1. a.squads[slot] \in [1..3 -> Nat] /\ a.squads[slot][i] \in {0} \cup CreatureIds(a)
      BY <1>2, <2>1 DEF Good, Resolves
    <3>2. CASE nth(i) = {}
      BY <3>1, <3>2
    <3>3. CASE nth(i) # {}
      BY <2>3, <2>4, <3>3
    <3> QED BY <3>2, <3>3
  <2>6. squad \in [1..3 -> Nat]
    <3>1. squad = [i \in 1..3 |-> squad[i]]
      OBVIOUS
    <3> HIDE DEF squad
    <3> QED BY <2>5, <3>1
  <2> HIDE DEF squad
  <2>7. squads \in [DOMAIN a.squads -> [1..3 -> Nat]]
        /\ \A d \in DOMAIN a.squads : squads[d] = IF d = slot THEN squad ELSE a.squads[d]
    BY <2>1, <2>6
  <2> HIDE DEF squads
  <2>8. squads \in UNION {[D -> [1..3 -> Nat]] : D \in SUBSET Slots}
    BY <2>1, <2>7, SquadsAre
  <2>9. /\ b \in Account /\ b.squads = squads /\ b.creatures = a.creatures /\ b.dna = a.dna
        /\ b.level = a.level /\ b.identify = a.identify /\ b.rewards = a.rewards
    BY <2>1, <2>2, <2>8 DEF Account
  <2> HIDE DEF b
  <2>10. CreatureIds(b) = CreatureIds(a)
    BY <2>9 DEF CreatureIds
  <2>11. DOMAIN squads = DOMAIN a.squads
    BY <2>7
  <2>12. Resolves(b)
    BY <2>5, <2>7, <2>9, <2>10, <2>11 DEF Good, Resolves
  <2>13. Good(b)
    BY <2>9, <2>12 DEF Good
  <2>14. Worth(b) = Worth(a) /\ Worth(a) \in Nat
    BY <2>1, <2>9, WorthIs
  <2>15. Earned(b) = Earned(a) /\ Earned(a) \in Nat
    BY <2>1, <2>9, EarnedIs DEF Earned
  <2> QED BY <2>9, <2>13, <2>14, <2>15 DEF Keeps, NoMore, b
<1> QED BY <1>1, <1>2

\* Gear is put on a creature that keeps its id.
LEMMA GearKeeps ==
    ASSUME NEW a, Good(a), NEW id, NEW gear \in Nat
    PROVE  GearUp(a, id, gear) \in Account /\ Keeps(a, GearUp(a, id, gear))
<1>1. CASE id \notin CreatureIds(a)
  BY <1>1, KeepsSelf DEF GearUp, Good
<1>2. CASE id \in CreatureIds(a)
  <2> DEFINE cs == a.creatures
             at == SelectInSeq(cs, LAMBDA c : c.id = id)
             new == [cs[at] EXCEPT !.gear = gear]
             ds == [cs EXCEPT ![at] = new]
             b == GearUp(a, id, gear)
  <2>1. a \in Account /\ cs \in Seq(Creature) /\ Len(cs) \in Nat /\ DOMAIN cs = 1..Len(cs)
    BY LenProperties DEF Good, Account
  <2>2. b = [a EXCEPT !.creatures = ds]
    BY <1>2 DEF GearUp
  <2> HIDE DEF at, cs
  <2>3. at \in 1..Len(cs) => new \in Creature /\ new.id = cs[at].id
    <3>1. at \in 1..Len(cs) => cs[at] \in Creature
      BY <2>1, ElementOfSeq
    <3> QED BY <3>1 DEF Creature
  <2> HIDE DEF new
  <2>4. /\ ds \in Seq(Creature) /\ Len(ds) = Len(cs)
        /\ \A i \in 1..Len(cs) : ds[i].id = cs[i].id
    <3>1. CASE at \in 1..Len(cs)
      <4>1. ds \in Seq(Creature) /\ Len(ds) = Len(cs)
        BY <2>1, <2>3, <3>1, ExceptSeq
      <4>2. \A i \in 1..Len(cs) : ds[i] = IF i = at THEN new ELSE cs[i]
        BY <2>1
      <4> QED BY <2>3, <3>1, <4>1, <4>2
    <3>2. CASE at \notin 1..Len(cs)
      <4>1. ds = cs
        BY <2>1, <3>2
      <4> QED BY <2>1, <4>1
    <3> QED BY <3>1, <3>2
  <2> HIDE DEF ds
  <2>5. /\ b \in Account /\ b.creatures = ds /\ b.squads = a.squads /\ b.dna = a.dna
        /\ b.level = a.level /\ b.identify = a.identify /\ b.rewards = a.rewards
    BY <2>1, <2>2, <2>4 DEF Account
  <2> HIDE DEF b
  <2>6. CreatureIds(b) = CreatureIds(a)
    BY <2>1, <2>4, <2>5 DEF CreatureIds, cs
  <2>7. Ascending(ds)
    <3>1. Ascending(cs)
      BY DEF Good, cs
    <3>2. ASSUME NEW i \in 1..Len(cs), NEW j \in 1..(i - 1) PROVE ds[j].id < ds[i].id
      <4>1. j \in 1..Len(cs)
        BY <2>1
      <4> QED BY <2>4, <3>1, <4>1 DEF Ascending
    <3> QED BY <2>4, <3>2 DEF Ascending
  <2>8. Good(b)
    BY <2>5, <2>6, <2>7 DEF Good, Resolves
  <2>9. Worth(b) = Worth(a) /\ Worth(a) \in Nat
    BY <2>1, <2>5, WorthIs
  <2>10. Earned(b) = Earned(a) /\ Earned(a) \in Nat
    BY <2>1, <2>4, <2>5, EarnedIs DEF Earned, cs
  <2> QED BY <2>5, <2>8, <2>9, <2>10 DEF Keeps, NoMore, b
<1> QED BY <1>1, <1>2

LEMMA PartsKeep ==
    ASSUME NEW a, Good(a), NEW index \in Nat, index < Len(a.parts), NEW status \in Nat
    PROVE  SetPartStatus(a, index, status) \in Account /\ Keeps(a, SetPartStatus(a, index, status))
<1> DEFINE ps == [a.parts EXCEPT ![index + 1] = status]
           b == SetPartStatus(a, index, status)
<1>1. a \in Account /\ a.parts \in Seq(Nat) /\ index + 1 \in 1..Len(a.parts)
  <2>1. a \in Account /\ a.parts \in Seq(Nat)
    BY DEF Good, Account
  <2>2. Len(a.parts) \in Nat
    BY <2>1, LenProperties
  <2> DEFINE n == Len(a.parts)
  <2> HIDE DEF n
  <2>3. index + 1 \in 1..n
    BY <2>2 DEF n
  <2> QED BY <2>1, <2>3 DEF n
<1>2. ps \in Seq(Nat)
  BY <1>1, ExceptSeq
<1>3. b = [a EXCEPT !.parts = ps]
  BY DEF SetPartStatus
<1> HIDE DEF ps
<1>4. /\ b \in Account /\ b.creatures = a.creatures /\ b.squads = a.squads /\ b.dna = a.dna
      /\ b.level = a.level /\ b.identify = a.identify /\ b.rewards = a.rewards
  BY <1>1, <1>2, <1>3 DEF Account
<1> HIDE DEF b
<1> QED BY <1>4, KeepsRest DEF b

LEMMA ProgressKeeps ==
    ASSUME NEW a, Good(a), NEW progress \in Nat
    PROVE  /\ [a EXCEPT !.progress = progress] \in Account
           /\ Keeps(a, [a EXCEPT !.progress = progress])
<1> DEFINE b == [a EXCEPT !.progress = progress]
<1>1. /\ b \in Account /\ b.creatures = a.creatures /\ b.squads = a.squads /\ b.dna = a.dna
      /\ b.level = a.level /\ b.identify = a.identify /\ b.rewards = a.rewards
  BY DEF Good, Account
<1> HIDE DEF b
<1> QED BY <1>1, KeepsRest DEF b

\* What a file does to the inventory level is made good by the identify count.
LEMMA FileKeeps ==
    ASSUME NEW a, Good(a)
    PROVE  /\ Loaded(a) \in Account /\ Keeps(a, Loaded(a))
           /\ Written(a) \in Account /\ Keeps(a, Written(a))
<1>1. a \in Account /\ a.level \in [Groups -> Nat] /\ a.identify \in Nat
  BY DEF Good, Account
<1>2. ASSUME NEW k \in Nat
      PROVE  /\ [a EXCEPT !.level.inventory = k] \in Account
             /\ Keeps(a, [a EXCEPT !.level.inventory = k])
  <2> DEFINE level == [a.level EXCEPT !["inventory"] = k]
             b == [a EXCEPT !.level.inventory = k]
  <2>1. level \in [Groups -> Nat] /\ \A g \in Groups \ {"inventory"} : a.level[g] = level[g]
    BY <1>1
  <2>2. b = [a EXCEPT !.level = level]
    OBVIOUS
  <2> HIDE DEF level
  <2>3. /\ b \in Account /\ b.creatures = a.creatures /\ b.squads = a.squads /\ b.dna = a.dna
        /\ b.level = level /\ b.identify = a.identify /\ b.rewards = a.rewards
    BY <1>1, <2>1, <2>2 DEF Account
  <2> HIDE DEF b
  <2>4. Keeps(a, b)
    BY <2>1, <2>3, KeepsRest
  <2> QED BY <2>3, <2>4 DEF b
<1> QED BY <1>1, <1>2 DEF Loaded, Written

----------------------------------------------------------------------------
\* Who points to what.

LEMMA FreeIs ==
    /\ Free \notin UserObject
    /\ NoUser \notin Users /\ Users \in SUBSET Nat
<1>1. DOMAIN Free = {"name"}
  BY DEF Free
<1>2. \A u \in UserObject : DOMAIN u = {"name", "token", "current", "acc"}
  BY DEF UserObject
<1>3. NoUser \notin Users /\ Users \in SUBSET Nat
  BY AccountsAssumption DEF NoUser, Users
<1> QED BY <1>1, <1>2, <1>3

LEMMA LiveIs ==
    ASSUME Typed, NEW o \in Users, Live(o)
    PROVE  /\ user[o] \in UserObject /\ user[o].name \in Names /\ user[o].token \in Nat
           /\ user[o].current \in BOOLEAN /\ user[o].acc \in Account /\ user[o].acc.id \in Nat
<1>1. user[o] \in UserObject
  BY DEF Typed, Live
<1>2. /\ user[o].name \in Names /\ user[o].token \in Nat
      /\ user[o].current \in BOOLEAN /\ user[o].acc \in Account
  BY <1>1 DEF UserObject
<1>3. user[o].acc.id \in Nat
  BY <1>2 DEF Account
<1> QED BY <1>1, <1>2, <1>3

LEMMA FreeSlotIs ==
    ASSUME NEW p \in Users, ~Live(p)
    PROVE  FreeSlot \in Users /\ ~Live(FreeSlot)
<1> DEFINE S == {o \in Users : ~Live(o)}
<1>1. S \in SUBSET Nat /\ S # {}
  BY FreeIs
<1>2. \E x \in S : \A y \in S : x <= y
  BY <1>1, Least
<1>3. \E o \in Users : ~Live(o) /\ \A q \in Users : ~Live(q) => o <= q
  BY <1>2
<1> QED BY <1>3 DEF FreeSlot

\* A search finds nobody or a registered object.
LEMMA FirstOfIs ==
    ASSUME NEW S \in SUBSET LoggedIn
    PROVE  FirstOf(S) = NoUser \/ \E n \in S : FirstOf(S) = registered[n]
<1>1. CASE S = {}
  BY <1>1 DEF FirstOf
<1>2. CASE S # {}
  <2>1. S \in SUBSET Nat
    BY AccountsAssumption DEF LoggedIn
  <2>2. \E n \in S : \A k \in S : n <= k
    BY <1>2, <2>1, Least
  <2> QED BY <1>2, <2>2 DEF FirstOf
<1> QED BY <1>1, <1>2

\* Nobody, or an object that is there.
IsFound(o) == o = NoUser \/ (o \in Users /\ Live(o))

LEMMA RegisteredIs ==
    ASSUME IInv, NEW n \in LoggedIn
    PROVE  /\ registered[n] \in Users /\ Live(registered[n]) /\ n \in Names
           /\ user[registered[n]].name = n /\ user[registered[n]].current
BY DEF IInv, Typed, NamesMatch, LoggedIn

LEMMA SearchesFind ==
    ASSUME IInv
    PROVE  /\ \A t : IsFound(GetUserByAuthToken(t))
           /\ \A n \in Names : IsFound(GetUserByEmail(n))
           /\ \A c \in Conns : IsFound(conn[c])
           /\ \A s \in Sessions : IsFound(session[s]) /\ \A t : IsFound(After(s, t))
<1>1. ASSUME NEW t PROVE IsFound(GetUserByAuthToken(t))
  <2> DEFINE S == {n \in LoggedIn : user[registered[n]].token = t}
  <2>1. FirstOf(S) = NoUser \/ \E n \in S : FirstOf(S) = registered[n]
    BY FirstOfIs
  <2>2. \A n \in S : IsFound(registered[n])
    BY RegisteredIs DEF IsFound
  <2>3. IsFound(NoUser)
    BY DEF IsFound
  <2> HIDE DEF S
  <2>4. IsFound(FirstOf(S))
    BY <2>1, <2>2, <2>3
  <2> QED BY <2>4 DEF GetUserByAuthToken, S
<1>2. ASSUME NEW n \in Names PROVE IsFound(GetUserByEmail(n))
  BY RegisteredIs DEF IsFound, GetUserByEmail, LoggedIn
<1>3. \A c \in Conns : IsFound(conn[c])
  BY DEF IInv, Typed, PointersLive, IsFound
<1>4. ASSUME NEW s \in Sessions PROVE IsFound(session[s]) /\ \A t : IsFound(After(s, t))
  <2>1. IsFound(session[s])
    BY DEF IInv, Typed, PointersLive, IsFound
  <2> QED BY <1>1, <2>1 DEF After, Found
<1> QED BY <1>1, <1>2, <1>3, <1>4

----------------------------------------------------------------------------
\* Every handler ends in Assign: it is enough to look at what it is given.

\* The objects u, seen from the names, connections and sessions.
Pointing(u, reg, con, ses) ==
    /\ u \in [Users -> {Free} \cup UserObject]
    /\ reg \in [Names -> {NoUser} \cup Users]
    /\ con \in [Conns -> {NoUser} \cup Users]
    /\ ses \in [Sessions -> {NoUser} \cup Users]
    /\ \A n \in Names : reg[n] # NoUser =>
           u[reg[n]] # Free /\ u[reg[n]].name = n /\ u[reg[n]].current
    /\ \A c \in Conns : con[c] # NoUser => u[con[c]] # Free
    /\ \A s \in Sessions : ses[s] # NoUser => u[ses[s]] # Free
    /\ \A o \in Users : u[o] # Free => Keeps(Initial[u[o].name], u[o].acc)
FilesKept(f) == f \in [Names -> Account] /\ \A n \in Names : Keeps(Initial[n], f[n])

LEMMA IInvIs == IInv <=> FilesKept(file) /\ Pointing(user, registered, conn, session)
BY DEF IInv, Typed, NamesMatch, PointersLive, AccountsKept, Live, FilesKept, Pointing

LEMMA AssignKeeps ==
    ASSUME NEW u, NEW reg, NEW con, NEW ses, Pointing(u, reg, con, ses),
           FilesKept(file'), Assign(u, reg, con, ses)
    PROVE  IInv' /\ \A o \in Users : user'[o] # Free => user'[o] = u[o]
<1>1. /\ registered' = reg /\ conn' = con /\ session' = ses
      /\ user' = [o \in Users |-> IF \/ \E n \in Names : reg[n] = o
                                     \/ \E c \in Conns : con[c] = o
                                     \/ \E s \in Sessions : ses[s] = o
                                  THEN u[o] ELSE Free]
  BY DEF Assign, Collect
<1>2. \A o \in Users : user'[o] = u[o] \/ user'[o] = Free
  BY <1>1
<1>3. user' \in [Users -> {Free} \cup UserObject]
  BY <1>1 DEF Pointing
<1>4. /\ \A n \in Names : reg[n] # NoUser => user'[reg[n]] = u[reg[n]]
      /\ \A c \in Conns : con[c] # NoUser => user'[con[c]] = u[con[c]]
      /\ \A s \in Sessions : ses[s] # NoUser => user'[ses[s]] = u[ses[s]]
  <2>1. ASSUME NEW n \in Names, reg[n] # NoUser PROVE user'[reg[n]] = u[reg[n]]
    <3>1. reg[n] \in Users
      BY <2>1 DEF Pointing
    <3> QED BY <1>1, <3>1
  <2>2. ASSUME NEW c \in Conns, con[c] # NoUser PROVE user'[con[c]] = u[con[c]]
    <3>1. con[c] \in Users
      BY <2>2 DEF Pointing
    <3> QED BY <1>1, <3>1
  <2>3. ASSUME NEW s \in Sessions, ses[s] # NoUser PROVE user'[ses[s]] = u[ses[s]]
    <3>1. ses[s] \in Users
      BY <2>3 DEF Pointing
    <3> QED BY <1>1, <3>1
  <2> QED BY <2>1, <2>2, <2>3
<1>5. Pointing(user', registered', conn', session')
  <2>1. \A n \in Names : reg[n] # NoUser =>
           user'[reg[n]] # Free /\ user'[reg[n]].name = n /\ user'[reg[n]].current
    BY <1>4 DEF Pointing
  <2>2. /\ \A c \in Conns : con[c] # NoUser => user'[con[c]] # Free
        /\ \A s \in Sessions : ses[s] # NoUser => user'[ses[s]] # Free
    BY <1>4 DEF Pointing
  <2>3. \A o \in Users : user'[o] # Free => Keeps(Initial[user'[o].name], user'[o].acc)
    BY <1>2 DEF Pointing
  <2> QED BY <1>1, <1>3, <2>1, <2>2, <2>3 DEF Pointing
<1>6. FilesKept(file)' /\ Pointing(user, registered, conn, session)'
  BY <1>5 DEF FilesKept, Pointing
<1>7. IInv'
  BY <1>6, IInvIs DEF IInv, Typed, NamesMatch, PointersLive, AccountsKept, Live, FilesKept, Pointing
<1> QED BY <1>2, <1>7

----------------------------------------------------------------------------
\* The handlers keep IInv, and change nothing when they fail.

LEMMA InitialIs ==
    /\ Initial \in [Names -> Account]
    /\ \A n \in Names : Good(Initial[n]) /\ Keeps(Initial[n], Initial[n])
<1>1. \A n \in Names : Good(Initial[n]) /\ Initial[n] \in Account
  BY AccountsAssumption, AccountIs DEF Good
<1>2. Initial = [n \in Names |-> Initial[n]]
  BY AccountsAssumption
<1>3. Initial \in [Names -> Account]
  BY <1>1, <1>2
<1>4. \A n \in Names : Keeps(Initial[n], Initial[n])
  BY <1>1, KeepsSelf
<1> QED BY <1>1, <1>3, <1>4

LEMMA KeptIs ==
    ASSUME IInv, NEW o \in Users, Live(o)
    PROVE  /\ user[o].name \in Names /\ Good(user[o].acc)
           /\ \A b : Keeps(user[o].acc, b) => b \in Account /\ Keeps(Initial[user[o].name], b)
<1>1. user[o].name \in Names /\ user[o].acc \in Account
  BY LiveIs DEF IInv
<1>2. Keeps(Initial[user[o].name], user[o].acc)
  BY DEF IInv, AccountsKept
<1>3. Initial[user[o].name] \in Account
  BY <1>1, InitialIs
<1>4. ASSUME NEW b, Keeps(user[o].acc, b) PROVE b \in Account /\ Keeps(Initial[user[o].name], b)
  <2>1. b \in Account
    BY <1>4 DEF Keeps, Good
  <2> QED BY <1>1, <1>2, <1>3, <1>4, <2>1, KeepsTrans
<1> QED BY <1>1, <1>2, <1>4 DEF Keeps

\* The objects stay: only who points to them changes.
LEMMA RepointKeeps ==
    ASSUME IInv, NEW reg, NEW con, NEW ses,
           reg \in [Names -> {NoUser} \cup Users],
           \A n \in Names : reg[n] = NoUser \/ reg[n] = registered[n],
           \A c \in Conns : IsFound(con[c]), con = [c \in Conns |-> con[c]],
           \A s \in Sessions : IsFound(ses[s]), ses = [s \in Sessions |-> ses[s]]
    PROVE  Pointing(user, reg, con, ses)
<1>1. Pointing(user, registered, conn, session)
  BY IInvIs
<1>2. con \in [Conns -> {NoUser} \cup Users] /\ ses \in [Sessions -> {NoUser} \cup Users]
  BY DEF IsFound
<1>3. /\ \A c \in Conns : con[c] # NoUser => user[con[c]] # Free
      /\ \A s \in Sessions : ses[s] # NoUser => user[ses[s]] # Free
  BY DEF IsFound, Live
<1> QED BY <1>1, <1>2, <1>3 DEF Pointing

LEMMA PointersAre ==
    ASSUME IInv
    PROVE  /\ registered \in [Names -> {NoUser} \cup Users]
           /\ conn = [c \in Conns |-> conn[c]] /\ session = [s \in Sessions |-> session[s]]
           /\ \A c \in Conns : IsFound(conn[c])
           /\ \A s \in Sessions : IsFound(session[s])
           /\ FilesKept(file)
<1>1. /\ registered \in [Names -> {NoUser} \cup Users]
      /\ conn = [c \in Conns |-> conn[c]] /\ session = [s \in Sessions |-> session[s]]
  BY DEF IInv, Typed
<1>2. FilesKept(file)
  BY IInvIs
<1> QED BY <1>1, <1>2, SearchesFind

\* One pointer of a table is replaced.
LEMMA ReplaceIs ==
    ASSUME NEW S, NEW t, t = [i \in S |-> t[i]], \A i \in S : IsFound(t[i]),
           NEW k \in S, NEW o, IsFound(o)
    PROVE  /\ [t EXCEPT ![k] = o] = [i \in S |-> [t EXCEPT ![k] = o][i]]
           /\ \A i \in S : IsFound([t EXCEPT ![k] = o][i])
<1> DEFINE v == [t EXCEPT ![k] = o]
<1>1. v = [i \in S |-> IF i = k THEN o ELSE t[i]]
  OBVIOUS
<1>2. v = [i \in S |-> v[i]] /\ \A i \in S : v[i] = IF i = k THEN o ELSE t[i]
  BY <1>1
<1> HIDE DEF v
<1>3. \A i \in S : IsFound(v[i])
  BY <1>2
<1> QED BY <1>2, <1>3 DEF v

\* What all methods that change an account have in common.
LEMMA ChangeKeeps ==
    ASSUME IInv, NEW s \in Sessions, NEW o, IsFound(o), NEW acc, NEW m, NEW a,
           Has(o) => Keeps(user[o].acc, acc),
           a.stat \in {"error", "AUTH_ERR_INVALID_USER"} /\ Has(o) => acc = user[o].acc,
           Change(s, o, acc, m, a)
    PROVE  IInv' /\ FailedSafely
<1> DEFINE u == IF Has(o) THEN [user EXCEPT ![o].acc = acc] ELSE user
           ses == Moved(s, o)
<1>1. /\ Assign(u, registered, conn, ses) /\ answer'.stat = a.stat /\ UNCHANGED file
  BY DEF Change, Answered
<1>2. ses = [i \in Sessions |-> ses[i]] /\ \A i \in Sessions : IsFound(ses[i])
  BY PointersAre, ReplaceIs DEF Moved
<1> HIDE DEF ses
<1>3. Pointing(user, registered, conn, ses)
  <2>1. \A n \in Names : registered[n] = NoUser \/ registered[n] = registered[n]
    OBVIOUS
  <2> QED BY <1>2, <2>1, PointersAre, RepointKeeps
<1>4. Pointing(u, registered, conn, ses)
      /\ \A q \in Users : u[q] = user[q] \/ (q = o /\ Has(o))
  <2>1. CASE ~Has(o)
    BY <1>3, <2>1
  <2>2. CASE Has(o)
    <3>1. o \in Users /\ Live(o)
      BY <2>2 DEF IsFound, Has
    <3>2. user \in [Users -> {Free} \cup UserObject] /\ user[o] \in UserObject
      BY <3>1, LiveIs DEF IInv, Typed
    <3>3. user[o].name \in Names /\ acc \in Account /\ Keeps(Initial[user[o].name], acc)
      BY <2>2, <3>1, KeptIs
    <3> DEFINE b == [user[o] EXCEPT !.acc = acc]
    <3>4. /\ b \in UserObject /\ b.name = user[o].name /\ b.current = user[o].current
          /\ b.acc = acc
      BY <3>2, <3>3 DEF UserObject
    <3>5. u = [user EXCEPT ![o] = b]
      BY <2>2
    <3> HIDE DEF b, u
    <3>6. /\ u \in [Users -> {Free} \cup UserObject]
          /\ \A q \in Users : u[q] = IF q = o THEN b ELSE user[q]
      BY <3>2, <3>4, <3>5
    <3>7. b # Free
      BY <3>4, FreeIs
    <3>8. /\ \A n \in Names : registered[n] # NoUser =>
               u[registered[n]] # Free /\ u[registered[n]].name = n /\ u[registered[n]].current
      <4>1. ASSUME NEW n \in Names, registered[n] # NoUser
            PROVE  u[registered[n]] # Free /\ u[registered[n]].name = n /\ u[registered[n]].current
        <5>1. registered[n] \in Users
          BY <4>1, <1>3 DEF Pointing
        <5>2. user[registered[n]] # Free /\ user[registered[n]].name = n
              /\ user[registered[n]].current
          BY <4>1, <1>3 DEF Pointing
        <5> QED BY <3>4, <3>6, <3>7, <5>1, <5>2
      <4> QED BY <4>1
    <3>9. /\ \A c \in Conns : conn[c] # NoUser => u[conn[c]] # Free
          /\ \A i \in Sessions : ses[i] # NoUser => u[ses[i]] # Free
      BY <1>3, <3>6, <3>7 DEF Pointing
    <3>10. \A q \in Users : u[q] # Free => Keeps(Initial[u[q].name], u[q].acc)
      BY <1>3, <3>3, <3>4, <3>6 DEF Pointing
    <3>11. Pointing(u, registered, conn, ses)
      BY <1>3, <3>6, <3>8, <3>9, <3>10 DEF Pointing
    <3> QED BY <2>2, <3>6, <3>11
  <2> QED BY <2>1, <2>2
<1> HIDE DEF u
<1>5. FilesKept(file')
  BY <1>1, PointersAre
<1>6. IInv' /\ \A q \in Users : user'[q] # Free => user'[q] = u[q]
  BY <1>1, <1>4, <1>5, AssignKeeps
<1>7. ASSUME answer'.stat \in {"error", "AUTH_ERR_INVALID_USER"} PROVE u = user
  <2>1. CASE ~Has(o)
    BY <2>1 DEF u
  <2>2. CASE Has(o)
    <3>1. o \in Users /\ Live(o) /\ acc = user[o].acc
      BY <1>1, <1>7, <2>2 DEF IsFound, Has
    <3>2. user[o] \in UserObject /\ user \in [Users -> {Free} \cup UserObject]
      BY <3>1, LiveIs DEF IInv, Typed
    <3>3. [user[o] EXCEPT !.acc = acc] = user[o]
      BY <3>1, <3>2 DEF UserObject
    <3>4. u = [user EXCEPT ![o] = [user[o] EXCEPT !.acc = acc]]
      BY <2>2 DEF u
    <3> QED BY <3>2, <3>3, <3>4
  <2> QED BY <2>1, <2>2
<1>8. registered' = registered
  BY <1>1 DEF Assign
<1> QED BY <1>1, <1>6, <1>7, <1>8 DEF FailedSafely

\* A handler that only moves pointers fails safely, whatever it answers.
LEMMA RepointSafely ==
    ASSUME IInv, NEW con, NEW ses, Assign(user, registered, con, ses), UNCHANGED file,
           \A c \in Conns : IsFound(con[c]), con = [c \in Conns |-> con[c]],
           \A s \in Sessions : IsFound(ses[s]), ses = [s \in Sessions |-> ses[s]]
    PROVE  IInv' /\ FailedSafely
<1>1. Pointing(user, registered, con, ses)
  <2>1. \A n \in Names : registered[n] = NoUser \/ registered[n] = registered[n]
    OBVIOUS
  <2> QED BY <2>1, PointersAre, RepointKeeps
<1>2. FilesKept(file')
  BY PointersAre
<1>3. IInv' /\ \A q \in Users : user'[q] # Free => user'[q] = user[q]
  BY <1>1, <1>2, AssignKeeps
<1> QED BY <1>3 DEF Assign, FailedSafely

LEMMA LoginKeeps ==
    ASSUME IInv, NEW c \in Conns, NEW n \in Names, NEW right \in BOOLEAN, Login(c, n, right)
    PROVE  IInv' /\ FailedSafely
<1>1. CASE LoginRefused(c, n)
  <2>1. UNCHANGED <<file, user, registered, conn, session>>
    BY <1>1 DEF LoginRefused
  <2>2. IInv'
    BY <2>1 DEF IInv, Typed, NamesMatch, PointersLive, AccountsKept, Live
  <2> QED BY <2>1, <2>2 DEF FailedSafely
<1>2. CASE ~LoginRefused(c, n)
  <2> DEFINE o == FreeSlot
             new == NewUser(n)
             u == [user EXCEPT ![o] = new]
             reg == [registered EXCEPT ![n] = o]
             con == [conn EXCEPT ![c] = o]
  <2>1. /\ registered[n] = NoUser /\ \E p \in Users : ~Live(p)
        /\ Assign(u, reg, con, session) /\ answer'.stat = "reply" /\ UNCHANGED file
    BY <1>2 DEF Login, MayLogin, Answered, Reply
  <2>2. o \in Users /\ ~Live(o)
    BY <2>1, FreeSlotIs
  <2>3. /\ Good(file[n]) /\ Initial[n] \in Account /\ Keeps(Initial[n], file[n])
        /\ file[n] \in Account
    BY InitialIs DEF IInv, AccountsKept, Keeps, Good
  <2>4. Loaded(file[n]) \in Account /\ Keeps(file[n], Loaded(file[n]))
    BY <2>3, FileKeeps
  <2>5. Keeps(Initial[n], Loaded(file[n]))
    BY <2>3, <2>4, KeepsTrans
  <2>6. /\ new \in UserObject /\ new.name = n /\ new.current = TRUE /\ new # Free
        /\ new.acc = Loaded(file[n])
    <3>1. new = [name |-> n, token |-> 0, current |-> TRUE, acc |-> Loaded(file[n])]
      BY DEF NewUser, NoToken
    <3> HIDE DEF new
    <3>2. new \in UserObject /\ new.name = n /\ new.current = TRUE /\ new.acc = Loaded(file[n])
      BY <2>4, <3>1 DEF UserObject
    <3> QED BY <3>2, FreeIs
  <2> HIDE DEF o, new
  <2>7. Pointing(user, registered, conn, session)
    BY IInvIs
  <2>8. /\ u \in [Users -> {Free} \cup UserObject]
        /\ \A q \in Users : u[q] = IF q = o THEN new ELSE user[q]
    BY <2>2, <2>6, <2>7 DEF Pointing
  <2>9. /\ reg \in [Names -> {NoUser} \cup Users]
        /\ \A k \in Names : reg[k] = IF k = n THEN o ELSE registered[k]
    BY <2>2, <2>7 DEF Pointing
  <2>10. /\ con \in [Conns -> {NoUser} \cup Users]
         /\ \A k \in Conns : con[k] = IF k = c THEN o ELSE conn[k]
    BY <2>2, <2>7 DEF Pointing
  <2>11. /\ \A k \in Names : registered[k] # NoUser => registered[k] # o
         /\ \A k \in Conns : conn[k] # NoUser => conn[k] # o
         /\ \A k \in Sessions : session[k] # NoUser => session[k] # o
    BY <2>2, <2>7 DEF Pointing, Live
  <2> HIDE DEF u, reg, con
  <2>12. \A k \in Names : reg[k] # NoUser =>
             u[reg[k]] # Free /\ u[reg[k]].name = k /\ u[reg[k]].current
    <3>1. ASSUME NEW k \in Names, reg[k] # NoUser, k # n
          PROVE  u[reg[k]] # Free /\ u[reg[k]].name = k /\ u[reg[k]].current
      <4>1. reg[k] = registered[k] /\ registered[k] \in Users /\ registered[k] # o
        BY <2>7, <2>9, <2>11, <3>1 DEF Pointing
      <4>2. user[registered[k]] # Free /\ user[registered[k]].name = k
            /\ user[registered[k]].current
        BY <2>7, <3>1, <4>1 DEF Pointing
      <4> QED BY <2>8, <4>1, <4>2
    <3>2. reg[n] = o /\ u[o] = new
      BY <2>2, <2>8, <2>9
    <3> QED BY <2>6, <3>1, <3>2
  <2>13. /\ \A k \in Conns : con[k] # NoUser => u[con[k]] # Free
         /\ \A k \in Sessions : session[k] # NoUser => u[session[k]] # Free
    BY <2>2, <2>6, <2>7, <2>8, <2>10, <2>11 DEF Pointing
  <2>14. \A q \in Users : u[q] # Free => Keeps(Initial[u[q].name], u[q].acc)
    BY <2>5, <2>6, <2>7, <2>8 DEF Pointing
  <2>15. Pointing(u, reg, con, session)
    BY <2>7, <2>8, <2>9, <2>10, <2>12, <2>13, <2>14 DEF Pointing
  <2>16. FilesKept(file')
    BY <2>1, PointersAre
  <2>17. IInv'
    BY <2>1, <2>15, <2>16, AssignKeeps
  <2> QED BY <2>1, <2>17 DEF FailedSafely
<1> QED BY <1>1, <1>2

LEMMA TakeOverKeeps ==
    ASSUME IInv, NEW c \in Conns, NEW o, IsFound(o), NEW m, TakeOver(c, o, m)
    PROVE  IInv' /\ FailedSafely
<1> DEFINE x == IF Has(o) THEN o ELSE conn[c]
           con == [conn EXCEPT ![c] = x]
<1>1. Assign(user, registered, con, session) /\ UNCHANGED file
  BY DEF TakeOver
<1>2. IsFound(x)
  BY SearchesFind
<1> HIDE DEF x
<1>3. con = [k \in Conns |-> con[k]] /\ \A k \in Conns : IsFound(con[k])
  BY <1>2, PointersAre, ReplaceIs
<1> HIDE DEF con
<1> QED BY <1>1, <1>3, PointersAre, RepointSafely

LEMMA GetAuthTokenKeeps ==
    ASSUME IInv, NEW c \in Conns, GetAuthToken(c)
    PROVE  IInv' /\ FailedSafely
<1> DEFINE o == conn[c]
           new == [user[o] EXCEPT !.token = user[o].acc.id]
<1>1. /\ o # NoUser /\ user' = [user EXCEPT ![o] = new] /\ answer'.stat = "reply"
      /\ UNCHANGED <<file, registered, conn, session>>
  BY DEF GetAuthToken, Answered, Reply, Has
<1>2. o \in Users /\ Live(o)
  BY <1>1, SearchesFind DEF IsFound
<1> HIDE DEF o
<1>3. user \in [Users -> {Free} \cup UserObject] /\ user[o] \in UserObject /\ user[o].acc.id \in Nat
  BY <1>2, LiveIs DEF IInv, Typed
<1>4. /\ new \in UserObject /\ new.name = user[o].name /\ new.current = user[o].current
      /\ new.acc = user[o].acc
  BY <1>3 DEF UserObject
<1>5. new # Free
  BY <1>4, FreeIs
<1> HIDE DEF new
<1>6. /\ user' \in [Users -> {Free} \cup UserObject]
      /\ \A q \in Users : user'[q] = IF q = o THEN new ELSE user[q]
  BY <1>1, <1>2, <1>3, <1>4
<1>7. Typed'
  BY <1>1, <1>6 DEF IInv, Typed
<1>8. NamesMatch' /\ PointersLive'
  BY <1>1, <1>4, <1>5, <1>6 DEF IInv, Typed, NamesMatch, PointersLive, Live
<1>9. AccountsKept'
  BY <1>1, <1>2, <1>4, <1>6 DEF IInv, AccountsKept, Live
<1> QED BY <1>1, <1>7, <1>8, <1>9 DEF IInv, FailedSafely

\* A logout saves the object, and drops whichever object its name has.
LEMMA LogoutKeeps ==
    ASSUME IInv, NEW o \in Users, Live(o), NEW con, NEW ses, Logout(o, con, ses),
           \A c \in Conns : IsFound(con[c]), con = [c \in Conns |-> con[c]],
           \A s \in Sessions : IsFound(ses[s]), ses = [s \in Sessions |-> ses[s]]
    PROVE  IInv'
<1> DEFINE name == user[o].name
           u == Saved(o)
           reg == RemoveUser(o)
<1>1. /\ file' = [file EXCEPT ![name] = Written(user[o].acc)] /\ Assign(u, reg, con, ses)
  BY DEF Logout
<1>2. name \in Names /\ Good(user[o].acc)
  BY KeptIs
<1>3. Pointing(user, registered, con, ses)
  <2>1. \A n \in Names : registered[n] = NoUser \/ registered[n] = registered[n]
    OBVIOUS
  <2> QED BY <2>1, PointersAre, RepointKeeps
<1>4. FilesKept(file')
  <2>1. Written(user[o].acc) \in Account /\ Keeps(Initial[name], Written(user[o].acc))
    BY <1>2, KeptIs, FileKeeps
  <2>2. FilesKept(file)
    BY PointersAre
  <2> HIDE DEF name
  <2> QED BY <1>1, <1>2, <2>1, <2>2 DEF FilesKept
<1>5. \A q \in Users :
          /\ user[q] # Free => user[q] \in UserObject
          /\ u[q] = IF user[q] # Free /\ user[q].name = name
                    THEN [user[q] EXCEPT !.current = (q = o)] ELSE user[q]
  BY <1>3 DEF Saved, Live, Pointing
<1>6. \A q \in Users :
          /\ user[q] = Free => u[q] = Free
          /\ user[q] # Free => /\ u[q] \in UserObject /\ u[q] # Free
                               /\ u[q].name = user[q].name /\ u[q].acc = user[q].acc
          /\ user[q] # Free /\ user[q].name # name => u[q] = user[q]
  <2>1. ASSUME NEW q \in Users, user[q] # Free, user[q].name = name
        PROVE  /\ u[q] \in UserObject /\ u[q] # Free
               /\ u[q].name = user[q].name /\ u[q].acc = user[q].acc
    <3>1. (q = o) \in BOOLEAN
      OBVIOUS
    <3> DEFINE k == (q = o)
               b == [user[q] EXCEPT !.current = k]
    <3>2. user[q] \in UserObject /\ u[q] = b
      BY <1>5, <2>1
    <3> HIDE DEF k
    <3>3. b \in UserObject /\ b.name = user[q].name /\ b.acc = user[q].acc
      BY <3>1, <3>2 DEF UserObject, k
    <3> QED BY <3>2, <3>3, FreeIs
  <2>2. ASSUME NEW q \in Users, user[q] # Free, user[q].name # name
        PROVE  u[q] = user[q] /\ u[q] \in UserObject
    BY <1>5, <2>2
  <2>3. \A q \in Users : user[q] = Free => u[q] = Free
    BY <1>5
  <2> QED BY <2>1, <2>2, <2>3
<1>7. u = [q \in Users |-> u[q]]
  BY DEF Saved
<1>8. reg \in [Names -> {NoUser} \cup Users]
      /\ \A n \in Names : reg[n] = IF n = name THEN NoUser ELSE registered[n]
  BY <1>2, <1>3 DEF RemoveUser, Pointing
<1> HIDE DEF u, reg, name
<1>9. u \in [Users -> {Free} \cup UserObject]
  BY <1>6, <1>7
<1>10. \A n \in Names : reg[n] # NoUser =>
           u[reg[n]] # Free /\ u[reg[n]].name = n /\ u[reg[n]].current
  <2>1. ASSUME NEW n \in Names, reg[n] # NoUser
        PROVE  u[reg[n]] # Free /\ u[reg[n]].name = n /\ u[reg[n]].current
    <3>1. n # name /\ reg[n] = registered[n] /\ registered[n] \in Users
      BY <1>3, <1>8, <2>1 DEF Pointing
    <3>2. user[reg[n]] # Free /\ user[reg[n]].name = n /\ user[reg[n]].current
      BY <1>3, <2>1, <3>1 DEF Pointing
    <3>3. u[reg[n]] = user[reg[n]]
      BY <1>6, <3>1, <3>2
    <3> QED BY <3>2, <3>3
  <2> QED BY <2>1
<1>11. /\ \A c \in Conns : con[c] # NoUser => u[con[c]] # Free
       /\ \A s \in Sessions : ses[s] # NoUser => u[ses[s]] # Free
  BY <1>3, <1>6 DEF Pointing
<1>12. \A q \in Users : u[q] # Free => Keeps(Initial[u[q].name], u[q].acc)
  BY <1>3, <1>6 DEF Pointing
<1>13. Pointing(u, reg, con, ses)
  BY <1>3, <1>8, <1>9, <1>10, <1>11, <1>12 DEF Pointing
<1> QED BY <1>1, <1>4, <1>13, AssignKeeps

LEMMA AuthLogoutKeeps ==
    ASSUME IInv, NEW c \in Conns, AuthLogout(c)
    PROVE  IInv' /\ FailedSafely
<1>1. Has(conn[c]) /\ Logout(conn[c], conn, session) /\ answer'.stat = "silent"
  BY DEF AuthLogout, Answered, Silence
<1>2. conn[c] \in Users /\ Live(conn[c])
  BY <1>1, SearchesFind DEF IsFound, Has
<1>3. IInv'
  BY <1>1, <1>2, PointersAre, LogoutKeeps
<1> QED BY <1>1, <1>3 DEF FailedSafely

LEMMA ApiLogoutKeeps ==
    ASSUME IInv, NEW s \in Sessions, NEW t, ApiLogout(s, t)
    PROVE  IInv' /\ FailedSafely
<1> DEFINE o == After(s, t)
           ses == Moved(s, o)
<1>1. IsFound(o)
  BY SearchesFind
<1>2. answer'.stat = "none"
  BY DEF ApiLogout, Answered, Empty, Plain
<1>3. CASE Has(o)
  <2>1. Logout(o, conn, ses)
    BY <1>3 DEF ApiLogout
  <2> HIDE DEF o
  <2>2. o \in Users /\ Live(o)
    BY <1>1, <1>3 DEF IsFound, Has
  <2>3. ses = [i \in Sessions |-> ses[i]] /\ \A i \in Sessions : IsFound(ses[i])
    BY <1>1, PointersAre, ReplaceIs DEF Moved
  <2> HIDE DEF ses
  <2>4. IInv'
    BY <2>1, <2>2, <2>3, PointersAre, LogoutKeeps
  <2> QED BY <1>2, <2>4 DEF FailedSafely
<1>4. CASE ~Has(o)
  <2>1. UNCHANGED <<file, user, registered, conn, session>>
    BY <1>4 DEF ApiLogout
  <2>2. IInv'
    BY <2>1 DEF IInv, Typed, NamesMatch, PointersLive, AccountsKept, Live
  <2> QED BY <2>1, <2>2 DEF FailedSafely
<1> QED BY <1>3, <1>4

LEMMA ApiReadKeeps ==
    ASSUME IInv, NEW s \in Sessions, NEW t, NEW m, NEW post, NEW inc, NEW id, NEW template,
           ApiRead(s, t, m, post, inc, id, template)
    PROVE  IInv' /\ FailedSafely
<1> DEFINE o == After(s, t)
           acc == IF Has(o) THEN user[o].acc ELSE <<>>
           a == ReadOnly(m, o, post, inc, id, template)
<1>1. Change(s, o, acc, m, a) /\ IsFound(o)
  BY SearchesFind DEF ApiRead
<1> HIDE DEF a, o
<1>2. Has(o) => acc = user[o].acc /\ Keeps(user[o].acc, acc)
  BY <1>1, KeptIs, KeepsSelf DEF IsFound, Has
<1> HIDE DEF acc
<1> QED BY <1>1, <1>2, ChangeKeeps

LEMMA ApiAuthKeeps ==
    ASSUME IInv, NEW s \in Sessions, NEW t, NEW key, NEW progress \in Nat, NEW inc,
           ApiAuth(s, t, key, progress, inc)
    PROVE  IInv' /\ FailedSafely
<1> DEFINE first == After(s, t)
           byKey == IF key = NoToken THEN NoUser ELSE GetUserByAuthToken(key)
           o == IF Has(byKey) THEN byKey ELSE first
           acc == IF ~Has(o) THEN <<>> ELSE IF progress = 0 THEN user[o].acc
                  ELSE [user[o].acc EXCEPT !.progress = progress]
           a == Auth(o, inc)
<1>1. Change(s, o, acc, "auth", a)
  BY DEF ApiAuth
<1>2. IsFound(o)
  <2>1. IsFound(first) /\ IsFound(GetUserByAuthToken(key)) /\ IsFound(NoUser)
    BY SearchesFind DEF IsFound
  <2> QED BY <2>1
<1>3. Has(o) => a.stat = "ok"
  BY DEF Auth, Xml
<1> HIDE DEF a, o
<1>4. Has(o) => Keeps(user[o].acc, acc)
  <2>1. Has(o) => Good(user[o].acc)
    BY <1>2, KeptIs DEF IsFound, Has
  <2> QED BY <2>1, KeepsSelf, ProgressKeeps
<1> HIDE DEF acc
<1>5. a.stat \in {"error", "AUTH_ERR_INVALID_USER"} => ~Has(o)
  BY <1>3
<1> QED BY <1>1, <1>2, <1>4, <1>5, ChangeKeeps

LEMMA ApiUnlockKeeps ==
    ASSUME IInv, NEW s \in Sessions, NEW t, NEW id \in Nat, ApiUnlock(s, t, id)
    PROVE  IInv' /\ FailedSafely
<1> DEFINE o == After(s, t)
           paid == Has(o) /\ Affordable(user[o].acc, id)
           acc == IF Has(o) THEN UnlockUpgrade(user[o].acc, id) ELSE <<>>
           a == Xml(paid, If(Has(o), {"account"}))
<1>1. Change(s, o, acc, "unlock", a) /\ IsFound(o)
  BY SearchesFind DEF ApiUnlock
<1>2. a.stat \in {"error", "AUTH_ERR_INVALID_USER"} => ~paid
  BY DEF Xml
<1> HIDE DEF a, o
<1>3. Has(o) => Good(user[o].acc)
  BY <1>1, KeptIs DEF IsFound, Has
<1>4. Has(o) => Keeps(user[o].acc, acc)
                /\ (~Affordable(user[o].acc, id) => acc = user[o].acc)
  BY <1>3, UnlockKeeps
<1>5. a.stat \in {"error", "AUTH_ERR_INVALID_USER"} /\ Has(o) => acc = user[o].acc
  BY <1>2, <1>4
<1> HIDE DEF acc
<1> QED BY <1>1, <1>4, <1>5, ChangeKeeps

\* The other methods report no failure.
LEMMA ApiUnlockCreatureKeeps ==
    ASSUME IInv, NEW s \in Sessions, NEW t, NEW template \in Nat, ApiUnlockCreature(s, t, template)
    PROVE  IInv' /\ FailedSafely
<1> DEFINE o == After(s, t)
           acc == IF Has(o) THEN UnlockCreature(user[o].acc, template) ELSE <<>>
           a == Xml(TRUE, If(Has(o), {"creature_id"}))
<1>1. Change(s, o, acc, "unlockCreature", a) /\ IsFound(o)
  BY SearchesFind DEF ApiUnlockCreature
<1>2. a.stat \notin {"error", "AUTH_ERR_INVALID_USER"}
  BY DEF Xml
<1> HIDE DEF a, o
<1>3. Has(o) => Good(user[o].acc)
  BY <1>1, KeptIs DEF IsFound, Has
<1>4. Has(o) => Keeps(user[o].acc, acc)
  BY <1>3, UnlockCreatureKeeps
<1> HIDE DEF acc
<1> QED BY <1>1, <1>2, <1>4, ChangeKeeps

LEMMA ApiUpdateCreatureKeeps ==
    ASSUME IInv, NEW s \in Sessions, NEW t, NEW id, NEW gear \in Nat,
           ApiUpdateCreature(s, t, id, gear)
    PROVE  IInv' /\ FailedSafely
<1> DEFINE o == After(s, t)
           acc == IF Has(o) THEN GearUp(user[o].acc, id, gear) ELSE <<>>
           a == UpdateCreature(o, id)
<1>1. Change(s, o, acc, "updateCreature", a) /\ IsFound(o)
  BY SearchesFind DEF ApiUpdateCreature
<1>2. a.stat \notin {"error", "AUTH_ERR_INVALID_USER"}
  BY DEF UpdateCreature, CreatureAnswer, Xml
<1> HIDE DEF a, o
<1>3. Has(o) => Good(user[o].acc)
  BY <1>1, KeptIs DEF IsFound, Has
<1>4. Has(o) => Keeps(user[o].acc, acc)
  BY <1>3, GearKeeps
<1> HIDE DEF acc
<1> QED BY <1>1, <1>2, <1>4, ChangeKeeps

LEMMA ApiUpdateDecksKeeps ==
    ASSUME IInv, NEW s \in Sessions, NEW t, NEW pve, NEW pveIds \in Seq(Nat),
           NEW pvp, NEW pvpIds \in Seq(Nat), ApiUpdateDecks(s, t, pve, pveIds, pvp, pvpIds)
    PROVE  IInv' /\ FailedSafely
<1> DEFINE o == After(s, t)
           one == UpdateSquad(user[o].acc, pve, pveIds)
           two == UpdateSquad(one, pvp, pvpIds)
           acc == IF Has(o) THEN two ELSE <<>>
           a == IF Has(o) THEN Xml(TRUE, {}) ELSE Empty
<1>1. Change(s, o, acc, "updateDecks", a) /\ IsFound(o)
  BY SearchesFind DEF ApiUpdateDecks
<1>2. a.stat \notin {"error", "AUTH_ERR_INVALID_USER"}
  BY DEF Xml, Empty, Plain
<1> HIDE DEF a, o
<1>3. Has(o) => Good(user[o].acc)
  BY <1>1, KeptIs DEF IsFound, Has
<1>4. Has(o) => one \in Account /\ Keeps(user[o].acc, one)
  BY <1>3, SquadKeeps
<1> HIDE DEF one
<1>5. Has(o) => Good(one) /\ two \in Account /\ Keeps(one, two) /\ user[o].acc \in Account
  BY <1>3, <1>4, SquadKeeps DEF Keeps, Good
<1> HIDE DEF two
<1>6. Has(o) => Keeps(user[o].acc, acc)
  BY <1>4, <1>5, KeepsTrans
<1> HIDE DEF acc
<1>7. Change(s, o, acc, "updateDecks", a)
  BY <1>1 DEF one, two, acc
<1> QED BY <1>1, <1>2, <1>6, <1>7, ChangeKeeps

LEMMA ApiUpdatePartStatusKeeps ==
    ASSUME IInv, NEW s \in Sessions, NEW t, NEW index \in Nat, NEW status \in Nat,
           ApiUpdatePartStatus(s, t, index, status)
    PROVE  IInv' /\ FailedSafely
<1> DEFINE o == After(s, t)
           inside == index < Len(user[o].acc.parts)
           acc == IF ~Has(o) THEN <<>> ELSE IF inside THEN SetPartStatus(user[o].acc, index, status)
                  ELSE user[o].acc
           a == IF Has(o) THEN Xml(TRUE, {}) ELSE Empty
<1>1. Change(s, o, acc, "updatePartStatus", a) /\ IsFound(o)
  BY SearchesFind DEF ApiUpdatePartStatus
<1>2. a.stat \notin {"error", "AUTH_ERR_INVALID_USER"}
  BY DEF Xml, Empty, Plain
<1> HIDE DEF a, o
<1>3. Has(o) => Good(user[o].acc)
  BY <1>1, KeptIs DEF IsFound, Has
<1>4. Has(o) => Keeps(user[o].acc, acc)
  BY <1>3, PartsKeep, KeepsSelf
<1> HIDE DEF acc
<1> QED BY <1>1, <1>2, <1>4, ChangeKeeps

LEMMA CloseKeeps ==
    ASSUME IInv,
           \/ \E c \in Conns : Disconnect(c)
           \/ \E s \in Sessions : CloseSession(s)
           \/ Restart
    PROVE  IInv' /\ FailedSafely
<1>1. IsFound(NoUser)
  BY DEF IsFound
<1>2. ASSUME NEW c \in Conns, Disconnect(c) PROVE IInv' /\ FailedSafely
  <2> DEFINE con == [conn EXCEPT ![c] = NoUser]
  <2>1. Assign(user, registered, con, session) /\ UNCHANGED file
    BY <1>2 DEF Disconnect
  <2>2. con = [k \in Conns |-> con[k]] /\ \A k \in Conns : IsFound(con[k])
    BY <1>1, PointersAre, ReplaceIs
  <2> HIDE DEF con
  <2> QED BY <2>1, <2>2, PointersAre, RepointSafely
<1>3. ASSUME NEW s \in Sessions, CloseSession(s) PROVE IInv' /\ FailedSafely
  <2> DEFINE ses == Moved(s, NoUser)
  <2>1. Assign(user, registered, conn, ses) /\ UNCHANGED file
    BY <1>3 DEF CloseSession
  <2>2. ses = [k \in Sessions |-> ses[k]] /\ \A k \in Sessions : IsFound(ses[k])
    BY <1>1, PointersAre, ReplaceIs DEF Moved
  <2> HIDE DEF ses
  <2> QED BY <2>1, <2>2, PointersAre, RepointSafely
<1>4. CASE Restart
  <2> DEFINE reg == [n \in Names |-> NoUser]
             con == [c \in Conns |-> NoUser]
             ses == [s \in Sessions |-> NoUser]
  <2>1. Assign(user, reg, con, ses) /\ UNCHANGED file /\ answer'.stat = "silent"
    BY <1>4 DEF Restart, Answered, Silence
  <2>2. /\ con = [c \in Conns |-> con[c]] /\ \A c \in Conns : IsFound(con[c])
        /\ ses = [s \in Sessions |-> ses[s]] /\ \A s \in Sessions : IsFound(ses[s])
    BY <1>1
  <2>3. /\ reg \in [Names -> {NoUser} \cup Users]
        /\ \A n \in Names : reg[n] = NoUser \/ reg[n] = registered[n]
    OBVIOUS
  <2> HIDE DEF reg, con, ses
  <2>4. Pointing(user, reg, con, ses)
    BY <2>2, <2>3, RepointKeeps
  <2>5. IInv'
    BY <2>1, <2>4, PointersAre, AssignKeeps
  <2> QED BY <2>1, <2>5 DEF FailedSafely
<1> QED BY <1>2, <1>3, <1>4

LEMMA InitKeeps == Init => IInv
<1> SUFFICES ASSUME Init PROVE IInv
  OBVIOUS
<1>1. Typed
  BY InitialIs DEF Init, Typed
<1>2. \A o \in Users : ~Live(o)
  BY DEF Init, Live
<1>3. NamesMatch /\ PointersLive
  BY DEF Init, NamesMatch, PointersLive
<1>4. AccountsKept
  BY <1>2, InitialIs DEF Init, AccountsKept
<1> QED BY <1>1, <1>3, <1>4 DEF IInv

LEMMA StepKeeps == IInv /\ [Next]_vars => IInv' /\ (FailedSafely \/ UNCHANGED vars)
<1> SUFFICES ASSUME IInv, [Next]_vars PROVE IInv' /\ (FailedSafely \/ UNCHANGED vars)
  OBVIOUS
<1>1. ASSUME NEW c \in Conns,
             \/ \E n \in Names, right \in BOOLEAN : Login(c, n, right)
             \/ \E t \in Tokens \ {NoToken} : SilentLogin(c, t)
             \/ \E n \in Names : ExpressLogin(c, n)
             \/ GetAuthToken(c)
             \/ AuthLogout(c)
      PROVE  IInv' /\ FailedSafely
  <2>1. ASSUME NEW t, SilentLogin(c, t) PROVE IInv' /\ FailedSafely
    BY <2>1, SearchesFind, TakeOverKeeps DEF SilentLogin
  <2>2. ASSUME NEW n \in Names, ExpressLogin(c, n) PROVE IInv' /\ FailedSafely
    BY <2>2, SearchesFind, TakeOverKeeps DEF ExpressLogin
  <2> QED BY <1>1, <2>1, <2>2, LoginKeeps, GetAuthTokenKeeps, AuthLogoutKeeps
<1>2. CASE ReadNext
  BY <1>2, ApiReadKeeps DEF ReadNext
<1>3. ASSUME NEW s \in Sessions, NEW t \in Tokens,
             \/ \E key \in Tokens : ApiAuth(s, t, key, 1, {"creatures"})
             \/ ApiLogout(s, t)
             \/ \E id \in Upgrades : ApiUnlock(s, t, id)
             \/ \E template \in Templates \cup {0} : ApiUnlockCreature(s, t, template)
             \/ \E id \in {2, 9} : ApiUpdateCreature(s, t, id, 1)
             \/ \E pve \in Slots, a \in IdLists, b \in {<<>>} :
                   ApiUpdateDecks(s, t, pve, a, pve, b)
             \/ \E index \in 0..1, status \in {1} : ApiUpdatePartStatus(s, t, index, status)
      PROVE  IInv' /\ FailedSafely
  <2>1. CASE \E key \in Tokens : ApiAuth(s, t, key, 1, {"creatures"})
    BY <2>1, ApiAuthKeeps
  <2>2. CASE ApiLogout(s, t)
    BY <2>2, ApiLogoutKeeps
  <2>3. CASE \E id \in Upgrades : ApiUnlock(s, t, id)
    BY <2>3, AccountsAssumption, ApiUnlockKeeps
  <2>4. CASE \E template \in Templates \cup {0} : ApiUnlockCreature(s, t, template)
    BY <2>4, AccountsAssumption, ApiUnlockCreatureKeeps
  <2>5. CASE \E id \in {2, 9} : ApiUpdateCreature(s, t, id, 1)
    BY <2>5, ApiUpdateCreatureKeeps
  <2>6. CASE \E pve \in Slots, a \in IdLists, b \in {<<>>} : ApiUpdateDecks(s, t, pve, a, pve, b)
    <3>1. \A a \in IdLists : a \in Seq(Nat)
      <4>1. <<9, 2>> \in Seq(Nat)
        OBVIOUS
      <4> QED BY <4>1 DEF IdLists
    <3>2. <<>> \in Seq(Nat)
      BY EmptySeq
    <3> QED BY <2>6, <3>1, <3>2, ApiUpdateDecksKeeps
  <2>7. CASE \E index \in 0..1, status \in {1} : ApiUpdatePartStatus(s, t, index, status)
    BY <2>7, ApiUpdatePartStatusKeeps
  <2> QED BY <1>3, <2>1, <2>2, <2>3, <2>4, <2>5, <2>6, <2>7
<1>4. CASE UNCHANGED vars
  BY <1>4 DEF vars, IInv, Typed, NamesMatch, PointersLive, AccountsKept, Live
<1> QED BY <1>1, <1>2, <1>3, <1>4, CloseKeeps DEF Next, BlazeNext, ApiNext

----------------------------------------------------------------------------
\* The theorems.

\* The whole of what the handlers keep.
THEOREM Inductive == Spec => []IInv
<1>1. IInv /\ [Next]_vars => IInv'
  BY StepKeeps
<1> QED BY InitKeeps, <1>1, PTL DEF Spec

\* The accounts, files and pointers have their types, nothing points to an
\* object that was destroyed, and UserManager finds under a name an object
\* of that name.
THEOREM TypeCorrect == Spec => []TypeOK
<1>1. IInv => TypeOK
  <2> SUFFICES ASSUME IInv PROVE TypeOK
    OBVIOUS
  <2>1. file = [n \in Names |-> file[n]] /\ \A n \in Names : IsAccount(file[n])
    BY AccountIs DEF IInv, Typed
  <2>2. user = [o \in Users |-> user[o]]
    BY DEF IInv, Typed
  <2>3. ASSUME NEW o \in Users, Live(o) PROVE IsUser(user[o])
    <3>1. user[o] \in UserObject /\ IsAccount(user[o].acc)
      BY <2>3, LiveIs, AccountIs DEF IInv
    <3> QED BY <3>1 DEF IsUser, UserObject
  <2>4. /\ registered \in [Names -> {NoUser} \cup Users]
        /\ conn \in [Conns -> {NoUser} \cup Users]
        /\ session \in [Sessions -> {NoUser} \cup Users]
    BY DEF IInv, Typed
  <2>5. \A n \in LoggedIn : Live(registered[n]) /\ user[registered[n]].name = n
    BY RegisteredIs
  <2>6. /\ \A c \in Conns : Has(conn[c]) => Live(conn[c])
        /\ \A s \in Sessions : Has(session[s]) => Live(session[s])
    BY DEF IInv, PointersLive, Has
  <2> QED BY <2>1, <2>2, <2>3, <2>4, <2>5, <2>6 DEF TypeOK
<1> QED BY <1>1, Inductive, PTL

\* However long a connection or a session keeps an object that was logged
\* out, the object registered for a name is the one whose file is the newest:
\* User::Logout takes the name away from whichever object has it.
THEOREM NewestIsRegistered == Spec => []RegisteredIsCurrent
<1>1. IInv => RegisteredIsCurrent
  BY RegisteredIs DEF RegisteredIsCurrent
<1> QED BY <1>1, Inductive, PTL

\* No sequence of unlocks, saves and loads, of any number of objects of one
\* name, makes an account worth more than the first file: unlockUpgrade sets
\* a level to what was paid for, and a file restores what was saved.
THEOREM NothingIsFree == Spec => []NothingForNothing
<1>1. IInv => NothingForNothing
  BY DEF IInv, AccountsKept, Keeps, NothingForNothing
<1> QED BY <1>1, Inductive, PTL

\* The ids of an account's creatures are distinct.
LEMMA AscendingIds ==
    ASSUME NEW a, Good(a)
    PROVE  Cardinality(CreatureIds(a)) = Len(a.creatures)
<1> DEFINE cs == a.creatures
           ids == [i \in 1..Len(cs) |-> cs[i].id]
<1>1. cs \in Seq(Creature) /\ Len(cs) \in Nat /\ \A i \in 1..Len(cs) : cs[i] \in Creature
  BY LenProperties, ElementOfSeq DEF Good, Account
<1>2. \A i \in 1..Len(cs) : cs[i].id \in Nat
  BY <1>1 DEF Creature
<1>3. ids \in Seq(Nat) /\ Len(ids) = Len(cs) /\ DOMAIN ids = 1..Len(cs)
  <2> HIDE DEF cs
  <2>1. DOMAIN ids = 1..Len(cs) /\ \A i \in 1..Len(cs) : ids[i] \in Nat
    BY <1>2
  <2>2. ids \in [1..Len(cs) -> Nat]
    BY <1>2
  <2> HIDE DEF ids
  <2>3. ids \in Seq(Nat)
    BY <1>1, <2>2, SeqDef
  <2> QED BY <1>1, <2>1, <2>3, LenProperties
<1>4. Ascending(cs)
  BY DEF Good
<1> HIDE DEF cs
<1>5. IsInjective(ids)
  <2>1. ASSUME NEW i \in 1..Len(cs), NEW j \in 1..Len(cs), i # j PROVE ids[i] # ids[j]
    <3>1. CASE i < j
      <4>1. i \in 1..(j - 1)
        BY <1>1, <3>1
      <4>2. cs[i].id < cs[j].id
        BY <1>4, <4>1 DEF Ascending
      <4> QED BY <1>2, <4>2
    <3>2. CASE j < i
      <4>1. j \in 1..(i - 1)
        BY <1>1, <3>2
      <4>2. cs[j].id < cs[i].id
        BY <1>4, <4>1 DEF Ascending
      <4> QED BY <1>2, <4>2
    <3> QED BY <1>1, <2>1, <3>1, <3>2
  <2> QED BY <1>3, <2>1 DEF IsInjective
<1>6. ToSet(ids) = {cs[i].id : i \in 1..Len(cs)}
  BY <1>3 DEF ToSet
<1> HIDE DEF ids
<1>7. Cardinality(ToSet(ids)) = Len(cs)
  BY <1>3, <1>5, InjectiveCardinality
<1> QED BY <1>6, <1>7 DEF CreatureIds, cs

\* In every object and every file the ids of the creatures are distinct, and
\* a place of a squad is empty or names a creature that is there.
THEOREM SquadsNameCreatures == Spec => []SquadsResolve
<1>1. IInv => SquadsResolve
  <2> SUFFICES ASSUME IInv, NEW a \in Accounts
               PROVE  Cardinality(CreatureIds(a)) = Len(a.creatures) /\ Resolves(a)
    BY DEF SquadsResolve
  <2>1. Good(a)
    BY KeptIs DEF Accounts, IInv, AccountsKept, Keeps
  <2> QED BY <2>1, AscendingIds DEF Good
<1> QED BY <1>1, Inductive, PTL

\* What answers with a failure has changed nothing, whichever user the
\* request was moved to, and whoever else has that user.
THEOREM FailuresAreSafe == Spec => FailureChangesNothing
<1>1. IInv /\ [Next]_vars => [FailedSafely]_vars
  BY StepKeeps
<1> QED BY <1>1, Inductive, PTL DEF Spec, FailureChangesNothing
=============================================================================
