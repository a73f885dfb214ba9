------------------------------ MODULE Accounts ------------------------------
(***************************************************************************)
(* The accounts of SporeNet and everything that reads or changes one:      *)
(*   - UserManager: the one registered User object of a name               *)
(*     (sporenet/user.cpp), created by a Blaze login, dropped by a logout; *)
(*   - the file of a name, read by User::Load and written by User::Save;   *)
(*   - the Blaze connections and the HTTP sessions, each of which keeps a  *)
(*     pointer to a User object for as long as it lives;                   *)
(*   - the /game/api methods that work on that object (game/api.cpp).      *)
(* All of it runs on the one io_context thread, so an action is a whole    *)
(* handler.  A User object lives while something points to it, also after  *)
(* its name was logged out and registered again for another object.        *)
(***************************************************************************)
EXTENDS Integers, Sequences, FiniteSets, SequencesExt

CONSTANTS
    Names,        \* user names that have a file, in the order of the map
    Conns,        \* Blaze connections
    Sessions,     \* HTTP sessions (keep-alive connections)
    MaxUsers,     \* bound: User objects alive at one time
    Initial,      \* Initial[n]: what the file of n holds at first
    Templates,    \* creature templates the template database knows
    Upgrades,     \* the unlock ids that are asked for
    Word          \* 2^w of the unsigned words of an account

VARIABLES
    file,         \* file[n]: the account saved under data/user/n.xml
    user,         \* user[o]: a User object, or Free
    registered,   \* sUsersByEmail: registered[n] is an object or NoUser
    conn,         \* conn[c]: Client::mUser of a Blaze connection
    session,      \* session[s]: Session::mUser of an HTTP session
    answer        \* the last answer that was sent

state == <<file, user, registered, conn, session>>
vars == <<file, user, registered, conn, session, answer>>

NoUser == 0
NoToken == 0      \* the empty string: no token was handed out, or none is given
Users == 1..MaxUsers
Free == [name |-> 0]
Live(o) == user[o] # Free

-----------------------------------------------------------------------------
(* Accounts: the unlockable groups, the upgrades and their price.          *)

Groups == {"catalysts", "diagonal", "stats", "inventory", "pve", "pvp",
           "fuel", "flair"}

UnlockCost == <<2000, 6000, 16000, 30000, 80000, 150000, 300000,
    200, 350, 500, 700, 900, 1200, 1600, 4000, 8000, 13000, 19000, 29000,
    42000, 57000, 76000, 100000, 160000, 250000,
    5000, 25000, 50000, 100000, 200000, 400000, 1000000, 2500000, 5000000,
    10000000, 500, 4000, 0, 0, 0, 0, 400, 1200, 4000, 0, 1000, 5000, 10000,
    200, 600, 1200, 20000000>>

MaxUnlock == 63
Cost(id) == IF id \in 1..Len(UnlockCost) THEN UnlockCost[id] ELSE 0

\* The group an upgrade belongs to and the level it sets there.
Effect(id) ==
    CASE id \in 1..6 -> <<"catalysts", id + 3>>
      [] id = 7 -> <<"diagonal", 1>>
      [] id \in 8..25 -> <<"stats", id - 7>>
      [] id \in 26..35 -> <<"inventory", id - 22>>
      [] id \in 36..37 -> <<"pve", id - 34>>
      [] id = 38 -> <<"pvp", 1>>
      [] id \in 42..44 -> <<"fuel", id - 39>>
      [] id \in 46..48 -> <<"flair", id - 42>>
      [] id \in 49..51 -> <<"inventory", id - 48>>
      [] id = 52 -> <<"inventory", 14>>
      [] OTHER -> <<"none", 0>>

Identify(inventory) == 180 + 30 * inventory

\* uint32_t subtraction
Minus(a, b) == (a - b) % Word

AlwaysAffordable(acc, id) == id <= MaxUnlock   \* Mutant: no comparison
Affordable(acc, id) == id <= MaxUnlock /\ Cost(id) <= acc.dna
Charged(acc, id) ==                            \* Mutant: pays before it is refused
    IF Cost(id) > acc.dna THEN [acc EXCEPT !.dna = 0] ELSE acc
Refused(acc, id) == acc
UnlockUpgrade(acc, id) ==
    IF ~Affordable(acc, id) THEN Refused(acc, id)
    ELSE LET e == Effect(id)
         IN [acc EXCEPT !.dna = Minus(@, Cost(id)),
                        !.level = [g \in Groups |-> IF g = e[1] THEN e[2] ELSE @[g]],
                        !.identify = IF e[1] = "inventory" THEN Identify(e[2]) ELSE @]

\* The creature that follows the last one gets the next id.
NextCreature(cs) == IF cs = <<>> THEN 1 ELSE Last(cs).id + 1
CreatureIds(acc) == {acc.creatures[i].id : i \in 1..Len(acc.creatures)}

AddCreature(acc, template) ==
    IF template \notin Templates THEN acc
    ELSE [acc EXCEPT !.creatures =
             Append(@, [id |-> NextCreature(@), template |-> template, gear |-> 0])]

\* The reward is used up before the template is looked up.
UnlockCreature(acc, template) ==
    IF acc.rewards = 0 THEN acc
    ELSE AddCreature([acc EXCEPT !.rewards = @ - 1], template)

\* Only an id the account has is put in a squad, in the order of the list;
\* the places the list does not reach keep what they held.
AnyId(acc, id) == id # 0                       \* Mutant: no lookup
Known(acc, id) == id \in CreatureIds(acc)
UpdateSquad(acc, slot, ids) ==
    LET found == {p \in DOMAIN ids : ids[p] # 0 /\ Known(acc, ids[p])}
        nth(i) == {p \in found : Cardinality({q \in found : q <= p}) = i}
    IN IF slot \notin DOMAIN acc.squads THEN acc
       ELSE [acc EXCEPT !.squads[slot] =
                [i \in 1..3 |-> IF nth(i) = {} THEN @[i] ELSE ids[CHOOSE p \in nth(i) : TRUE]]]

\* The first creature with the id.
GearUp(acc, id, gear) ==
    IF id \notin CreatureIds(acc) THEN acc
    ELSE LET i == SelectInSeq(acc.creatures, LAMBDA c : c.id = id)
         IN [acc EXCEPT !.creatures[i].gear = gear]

SetPartStatus(acc, index, status) == [acc EXCEPT !.parts[index + 1] = status]

\* What an account is made of.  Creatures get ascending ids, and a place of a
\* squad is empty or names one of them.
Slots == UNION {DOMAIN Initial[n].squads : n \in Names}
Creature == [id : Nat, template : Nat, gear : Nat]
IsAccount(a) ==
    /\ DOMAIN a.squads \subseteq Slots
    /\ a \in [id : Nat, dna : 0..(Word - 1), rewards : Nat, progress : Nat,
               level : [Groups -> Nat], identify : Nat, creatures : Seq(Creature),
               squads : [DOMAIN a.squads -> [1..3 -> Nat]], parts : Seq(Nat)]
Ascending(cs) == \A i \in 1..Len(cs) : \A j \in 1..(i - 1) : cs[j].id < cs[i].id
Resolves(acc) ==
    \A d \in DOMAIN acc.squads : \A i \in 1..3 : acc.squads[d][i] \in {0} \cup CreatureIds(acc)

\* The files there are at first are such as the program writes.
ASSUME AccountsAssumption ==
    /\ Names \subseteq Nat /\ Templates \subseteq Nat /\ Upgrades \subseteq Nat
    /\ MaxUsers \in Nat \ {0} /\ Word \in Nat \ {0}
    /\ Initial = [n \in Names |-> Initial[n]]
    /\ \A n \in Names : /\ IsAccount(Initial[n])
                         /\ Ascending(Initial[n].creatures) /\ Resolves(Initial[n])

\* What a load makes of a file: unlockInventory is never read, the value
\* written under its tag goes to unlockInventoryIdentify.
Loaded(saved) == [saved EXCEPT !.level.inventory = 0]

\* A save writes the identify count under both tags.
Written(acc) == [acc EXCEPT !.level.inventory = acc.identify]

-----------------------------------------------------------------------------
(* UserManager and the files                                               *)

\* The user a search by token or by id finds: the first in the map's order.
FirstOf(S) == IF S = {} THEN NoUser
              ELSE registered[CHOOSE n \in S : \A k \in S : n <= k]
LoggedIn == {n \in Names : registered[n] # NoUser}

GetUserByEmail(n) == registered[n]
GetUserByAuthToken(t) ==
    FirstOf({n \in LoggedIn : user[registered[n]].token = t})

\* An object nothing points to is destroyed.
Collect(u, reg, con, ses) ==
    [o \in Users |-> IF \/ \E n \in Names : reg[n] = o
                        \/ \E c \in Conns : con[c] = o
                        \/ \E s \in Sessions : ses[s] = o
                     THEN u[o] ELSE Free]

\* Point the connections and sessions to their new users.
Assign(u, reg, con, ses) ==
    /\ registered' = reg
    /\ conn' = con
    /\ session' = ses
    /\ user' = Collect(u, reg, con, ses)

FreeSlot == CHOOSE o \in Users : ~Live(o) /\ \A p \in Users : ~Live(p) => o <= p

NewUser(n) == [name |-> n, token |-> NoToken, current |-> TRUE, acc |-> Loaded(file[n])]

\* A save makes every other object of the name out of date.
Saved(o) ==
    [p \in Users |-> IF Live(p) /\ user[p].name = user[o].name
                     THEN [user[p] EXCEPT !.current = (p = o)] ELSE user[p]]

\* RemoveUser goes by name: it drops whichever object is registered.
RemoveOwn(o) ==                    \* Mutant: only if it is this object
    [n \in Names |-> IF registered[n] = o THEN NoUser ELSE registered[n]]
RemoveUser(o) == [registered EXCEPT ![user[o].name] = NoUser]

Logout(o, con, ses) ==
    /\ file' = [file EXCEPT ![user[o].name] = Written(user[o].acc)]
    /\ Assign(Saved(o), RemoveUser(o), con, ses)

-----------------------------------------------------------------------------
(* Answers: the stat of the XML response and the parts it has.             *)

Xml(ok, keys) == [stat |-> IF ok THEN "ok" ELSE "error", keys |-> keys]
Plain(keys) == [stat |-> "none", keys |-> keys]
Empty == Plain({})
Has(o) == o # NoUser
If(b, keys) == IF b THEN keys ELSE {}

TemplateKeys(abilities) ==
    {"name_locale_id", "text_locale_id", "name", "type_a", "weapon_min_damage",
     "weapon_max_damage", "gear_score", "class", "creature_parts", "stats_template"}
    \cup If(abilities, {"ability_basic", "ability_special_1", "ability_special_2",
                       "ability_random", "ability_passive", "ability"})
\* With the data of a profile the template's keys, without its stats.
CreatureKeys(profile, abilities, parts) ==
    (IF profile THEN (TemplateKeys(abilities) \ {"stats_template"}) \cup {"creator_id", "stats"}
     ELSE {"id", "name", "png_large_url", "png_thumb_url", "noun_id", "version",
           "gear_score", "item_points"})
    \cup If(parts, {"parts"})

GetStatus(inc) == Xml(TRUE, {"status"} \cup (inc \cap {"broadcasts"}))
GetBroadcastList == Xml(TRUE, {"broadcasts"})
GetPartList(o) == Xml(Has(o), {"parts"})
GetPartOfferList(o) == Xml(Has(o), If(Has(o), {"timestamp", "expires", "parts"}))
VendorParts(o) == IF Has(o) THEN Xml(TRUE, {"parts", "dna"}) ELSE Empty
Auth(o, inc) ==
    Xml(Has(o), If(Has(o), {"timestamp", "account"} \cup
                  (inc \cap {"creatures", "decks", "feed", "settings", "server_tuning"})))
GetAccount(o, post, inc) ==
    LET want == inc \cap {"creatures", "decks", "feed", "stats"}
    IN CASE ~Has(o) -> Empty
         [] Has(o) /\ ~post -> Xml(TRUE, {"account", "decks"})
         [] Has(o) /\ post /\ want # {} -> Xml(TRUE, {"account"} \cup want)
         [] OTHER -> Xml(TRUE, {"blaze_id", "name"})
SearchAccounts(o) == Xml(Has(o), If(Has(o), {"accounts"}))
GetGame == Xml(TRUE, {"game"})
GetRandomGame(o) == Xml(Has(o), {"game"})
ExitGame == Xml(TRUE, {})
SetSettings(o) == Xml(Has(o), {})
CreatureAnswer(o, id, key) ==
    Xml(TRUE, If(Has(o) /\ id \in CreatureIds(user[o].acc), key))
ResetCreature(o, id) == CreatureAnswer(o, id, {"creature"})
GetCreature(o, id, inc) ==
    CreatureAnswer(o, id, CreatureKeys(TRUE, "include_abilities" \in inc, "include_parts" \in inc))
UpdateCreature(o, id) == CreatureAnswer(o, id, {"creature", "version"})
GetTemplate(o, t, inc) ==
    Xml(TRUE, If(Has(o) /\ t \in Templates, TemplateKeys("include_abilities" \in inc)))
GetLeaderboard(o) == Xml(Has(o), If(Has(o), {"stats", "players"}))
GetSurveyList == Xml(TRUE, {"surveys"})
GetConfig(inc) == Xml(TRUE, {"configs", "to_image", "from_image"} \cup
                            (inc \cap {"settings", "patches"}))

\* The methods that change no account, by name.
ReadOnly(m, o, post, inc, id, t) ==
    CASE m = "getStatus" -> GetStatus(inc)
      [] m = "getBroadcastList" -> GetBroadcastList
      [] m = "getPartList" -> GetPartList(o)
      [] m = "getPartOfferList" -> GetPartOfferList(o)
      [] m = "vendorParts" -> VendorParts(o)
      [] m = "getAccount" -> GetAccount(o, post, inc)
      [] m = "setSettings" -> SetSettings(o)
      [] m = "searchAccounts" -> SearchAccounts(o)
      [] m = "getGame" -> GetGame
      [] m = "getRandomGame" -> GetRandomGame(o)
      [] m = "exitGame" -> ExitGame
      [] m = "resetCreature" -> ResetCreature(o, id)
      [] m = "getCreature" -> GetCreature(o, id, inc)
      [] m = "getTemplate" -> GetTemplate(o, t, inc)
      [] m = "getLeaderboard" -> GetLeaderboard(o)
      [] m = "getConfigs" -> GetConfig(inc)
      [] m = "getSurveyList" -> GetSurveyList
      [] OTHER -> Xml(TRUE, {})
ReadMethods == {"getStatus", "getBroadcastList", "getPartList",
    "getPartOfferList", "vendorParts", "getAccount", "setSettings",
    "searchAccounts", "getGame", "getRandomGame", "exitGame", "resetCreature",
    "getCreature", "getTemplate", "getLeaderboard",
    "getConfigs", "getSurveyList", "unknown"}
-----------------------------------------------------------------------------
(* Blaze: AuthComponent                                                    *)

Answered(m, a) == answer' = [method |-> m, stat |-> a.stat, keys |-> a.keys]
Reply == [stat |-> "reply", keys |-> {}]
InvalidUser == [stat |-> "AUTH_ERR_INVALID_USER", keys |-> {}]
Silence == [stat |-> "silent", keys |-> {}]

\* UserManager::Login: a name that is registered, or a password that does not
\* match the file's, is refused; the object made for the check is dropped.
LoginRefused(c, n) ==
    /\ Answered("login", InvalidUser)
    /\ UNCHANGED <<file, user, registered, conn, session>>

MayLogin(n, right) == right /\ registered[n] = NoUser
Login(c, n, right) ==
    \/ ~MayLogin(n, right) /\ LoginRefused(c, n)
    \/ /\ MayLogin(n, right)
       /\ \E o \in Users : ~Live(o)                  \* bound MaxUsers
       /\ Assign([user EXCEPT ![FreeSlot] = NewUser(n)],
                 [registered EXCEPT ![n] = FreeSlot],
                 [conn EXCEPT ![c] = FreeSlot], session)
       /\ Answered("login", Reply)
       /\ UNCHANGED file

\* SilentLogin by token and ExpressLogin by name take a registered object.
TakeOver(c, o, m) ==
    /\ Assign(user, registered, [conn EXCEPT ![c] = IF Has(o) THEN o ELSE @], session)
    /\ Answered(m, IF Has(o) THEN Reply ELSE InvalidUser)
    /\ UNCHANGED file
SilentLogin(c, t) == TakeOver(c, GetUserByAuthToken(t), "silentLogin")
ExpressLogin(c, n) == TakeOver(c, GetUserByEmail(n), "expressLogin")

GetAuthToken(c) ==
    /\ Has(conn[c])
    /\ user' = [user EXCEPT ![conn[c]].token = user[conn[c]].acc.id]
    /\ Answered("getAuthToken", Reply)
    /\ UNCHANGED <<file, registered, conn, session>>

\* The connection keeps the object it logged out, and gets no answer.
AuthLogout(c) ==
    /\ Has(conn[c])
    /\ Logout(conn[c], conn, session)
    /\ Answered("logout", Silence)

\* The socket breaks or is closed: the Client is deleted, nobody is logged out.
Disconnect(c) ==
    /\ Has(conn[c])
    /\ Assign(user, registered, [conn EXCEPT ![c] = NoUser], session)
    /\ UNCHANGED <<file, answer>>

-----------------------------------------------------------------------------
(* HTTP: the /game/api route.  A token in the request or its cookie moves  *)
(* the session to the user who has that token, if there is one.            *)

Found(o, s) == IF Has(o) THEN o ELSE session[s]
After(s, t) == IF t = NoToken THEN session[s] ELSE Found(GetUserByAuthToken(t), s)
Moved(s, o) == [session EXCEPT ![s] = o]

\* What every method that changes an account does: f is the new account.
Change(s, o, acc, m, a) ==
    /\ Assign(IF Has(o) THEN [user EXCEPT ![o].acc = acc] ELSE user,
              registered, conn, Moved(s, o))
    /\ Answered(m, a)
    /\ UNCHANGED file

ApiRead(s, t, m, post, inc, id, template) ==
    LET o == After(s, t)
    IN Change(s, o, IF Has(o) THEN user[o].acc ELSE <<>>, m,
              ReadOnly(m, o, post, inc, id, template))

\* auth and setNewPlayerStats: the key may name another user's token.
ApiAuth(s, t, key, progress, inc) ==
    LET first == After(s, t)
        byKey == IF key = NoToken THEN NoUser ELSE GetUserByAuthToken(key)
        o == IF Has(byKey) THEN byKey ELSE first
    IN Change(s, o, IF ~Has(o) THEN <<>>
                    ELSE IF progress = 0 THEN user[o].acc
                         ELSE [user[o].acc EXCEPT !.progress = progress],
              "auth", Auth(o, inc))

ApiLogout(s, t) ==
    LET o == After(s, t)
    IN IF Has(o) THEN Logout(o, conn, Moved(s, o)) /\ Answered("logout", Empty)
       ELSE Answered("logout", Empty) /\ UNCHANGED <<file, user, registered, conn, session>>

ApiUnlock(s, t, id) ==
    LET o == After(s, t)
        paid == Has(o) /\ Affordable(user[o].acc, id)
    IN Change(s, o, IF Has(o) THEN UnlockUpgrade(user[o].acc, id) ELSE <<>>,
              "unlock", Xml(paid, If(Has(o), {"account"})))

ApiUnlockCreature(s, t, template) ==
    LET o == After(s, t)
    IN Change(s, o, IF Has(o) THEN UnlockCreature(user[o].acc, template) ELSE <<>>,
              "unlockCreature", Xml(TRUE, If(Has(o), {"creature_id"})))

\* The cost in the request is not charged; the version stays what it was.
ApiUpdateCreature(s, t, id, gear) ==
    LET o == After(s, t)
    IN Change(s, o, IF Has(o) THEN GearUp(user[o].acc, id, gear) ELSE <<>>,
              "updateCreature", UpdateCreature(o, id))

\* The decks of both modes are one list of squads, searched by id.
ApiUpdateDecks(s, t, pve, pveIds, pvp, pvpIds) ==
    LET o == After(s, t)
    IN Change(s, o, IF Has(o) THEN UpdateSquad(UpdateSquad(user[o].acc, pve, pveIds),
                                               pvp, pvpIds) ELSE <<>>,
              "updateDecks", IF Has(o) THEN Xml(TRUE, {}) ELSE Empty)

\* The index is not compared with the number of parts: past the end the
\* behaviour is undefined, and ends the program or leaves the account as it is.
ApiUpdatePartStatus(s, t, index, status) ==
    LET o == After(s, t)
        inside == index < Len(user[o].acc.parts)
    IN Change(s, o, IF ~Has(o) THEN <<>>
                    ELSE IF inside THEN SetPartStatus(user[o].acc, index, status)
                         ELSE user[o].acc,
              "updatePartStatus", IF Has(o) THEN Xml(TRUE, {}) ELSE Empty)

\* The stream expired, the client closed it, or a write failed.
CloseSession(s) ==
    /\ Has(session[s])
    /\ Assign(user, registered, conn, Moved(s, NoUser))
    /\ UNCHANGED <<file, answer>>

\* The program ends (nothing is saved on the way out) and is started again.
Restart ==
    /\ Assign(user, [n \in Names |-> NoUser], [c \in Conns |-> NoUser],
              [s \in Sessions |-> NoUser])
    /\ Answered("none", Silence)
    /\ UNCHANGED file

-----------------------------------------------------------------------------
Init ==
    /\ file = Initial
    /\ user = [o \in Users |-> Free]
    /\ registered = [n \in Names |-> NoUser]
    /\ conn = [c \in Conns |-> NoUser]
    /\ session = [s \in Sessions |-> NoUser]
    /\ answer = [method |-> "none", stat |-> "silent", keys |-> {}]

Tokens == {NoToken} \cup {Initial[n].id : n \in Names}

\* The list of a request: a number that is no creature, then one that may be.
IdLists == {<<9, 2>>}

\* A request asks for nothing more with GET, or for more with POST.
Shapes == {[post |-> FALSE, inc |-> {}, id |-> 1],
           [post |-> TRUE, inc |-> {"creatures", "decks", "include_abilities"}, id |-> 9]}

BlazeNext == \E c \in Conns :
    \/ \E n \in Names, right \in BOOLEAN : Login(c, n, right)
    \/ \E t \in Tokens \ {NoToken} : SilentLogin(c, t)
    \/ \E n \in Names : ExpressLogin(c, n)
    \/ GetAuthToken(c)
    \/ AuthLogout(c)
    \/ Disconnect(c)

\* (A token is given with the methods that change something, so that a
\* request moves the session and works on the new user in one step.)
ReadNext == \E s \in Sessions, m \in ReadMethods, r \in Shapes, template \in Templates :
    ApiRead(s, NoToken, m, r.post, r.inc, r.id, template)

ApiNext == \E s \in Sessions, t \in Tokens :
    \/ \E key \in Tokens : ApiAuth(s, t, key, 1, {"creatures"})
    \/ ApiLogout(s, t)
    \/ \E id \in Upgrades : ApiUnlock(s, t, id)
    \/ \E template \in Templates \cup {0} : ApiUnlockCreature(s, t, template)
    \/ \E id \in {2, 9} : ApiUpdateCreature(s, t, id, 1)
    \/ \E pve \in Slots, a \in IdLists, b \in {<<>>} :
          ApiUpdateDecks(s, t, pve, a, pve, b)
    \/ \E index \in 0..1, status \in {1} : ApiUpdatePartStatus(s, t, index, status)
    \/ CloseSession(s)

Next == BlazeNext \/ ReadNext \/ ApiNext \/ Restart

Spec == Init /\ [][Next]_vars

-----------------------------------------------------------------------------
(* Properties                                                              *)

Accounts == {file[n] : n \in Names} \cup {user[o].acc : o \in {p \in Users : Live(p)}}

\* The variables have their types, the pointers lead to live objects, and a
\* name's to an object of that name.
IsUser(u) ==
    IsAccount(u.acc) /\ u \in [name : Names, token : Nat, current : BOOLEAN, acc : {u.acc}]
TypeOK ==
    /\ file = [n \in Names |-> file[n]] /\ \A n \in Names : IsAccount(file[n])
    /\ user = [o \in Users |-> user[o]] /\ \A o \in Users : Live(o) => IsUser(user[o])
    /\ registered \in [Names -> {NoUser} \cup Users]
    /\ conn \in [Conns -> {NoUser} \cup Users]
    /\ session \in [Sessions -> {NoUser} \cup Users]
    /\ \A n \in LoggedIn : Live(registered[n]) /\ user[registered[n]].name = n
    /\ \A c \in Conns : Has(conn[c]) => Live(conn[c])
    /\ \A s \in Sessions : Has(session[s]) => Live(session[s])

\* However many stale objects connections and sessions keep over logouts and
\* new logins (user.cpp: Logout goes by name), the object registered for a
\* name is up to date: no other object saved the file after it was loaded, so
\* a login never continues from an account that was overwritten under it.
RegisteredIsCurrent == \A n \in LoggedIn : user[registered[n]].current

\* The price of what an account holds now; the inventory by its identify
\* count, which survives a reload.
Prices == [e \in {Effect(id) : id \in 1..Len(UnlockCost)} |->
              Cost(CHOOSE id \in 1..Len(UnlockCost) : Effect(id) = e)]
Paid(g, l) == IF <<g, l>> \in DOMAIN Prices THEN Prices[<<g, l>>] ELSE 0
Stock(acc) == IF acc.identify < 180 THEN 0 ELSE (acc.identify - 180) \div 30
Held(acc, g) == Paid(g, IF g = "inventory" THEN Stock(acc) ELSE acc.level[g])
Worth(acc) ==
    acc.dna + Held(acc, "catalysts") + Held(acc, "diagonal") + Held(acc, "stats")
            + Held(acc, "inventory") + Held(acc, "pve") + Held(acc, "pvp")
            + Held(acc, "fuel") + Held(acc, "flair")

\* What creatures an account has and may still ask for.
Earned(acc) == acc.rewards + Len(acc.creatures)
NoMore(before, after) == Worth(after) <= Worth(before) /\ Earned(after) <= Earned(before)

\* No sequence of unlocks, saves, loads and overwrites gives an account, in
\* memory or in a file, more than it had: the dna it has and the price of the
\* upgrades it holds never exceed what the file held at first, and neither do
\* its rewards and its creatures.  It may have less: the reward for an unknown
\* template is gone, and so is what a stale object overwrites.
NothingForNothing ==
    /\ \A n \in Names : NoMore(Initial[n], file[n])
    /\ \A o \in Users : Live(o) => NoMore(Initial[user[o].name], user[o].acc)

\* Creature ids are unique within an account and a place of a squad is empty
\* or names a creature the account has, in every object and every file.
SquadsResolve == \A a \in Accounts :
    Cardinality(CreatureIds(a)) = Len(a.creatures) /\ Resolves(a)

\* A method that answers "error" and a refused login have changed no account, no
\* file and no registration: no step is left half done behind a reported failure.
\* Nothing is said of methods that answer "ok" whatever happens: unlockCreature
\* uses the reward up for a template there is not and reports no failure.
FailedSafely ==
    answer'.stat \in {"error", "AUTH_ERR_INVALID_USER"} =>
        /\ UNCHANGED <<file, registered>>
        /\ \A o \in Users : Live(o) /\ user'[o] # Free => user'[o] = user[o]
FailureChangesNothing == [][FailedSafely]_vars
=============================================================================
