-------------------------- MODULE CatalystCustody ---------------------------
(***************************************************************************)
(* What becomes of the catalysts of a game, without connections, users,    *)
(* objects or update bits.  A catalyst is nowhere, on the ground, or in a  *)
(* slot of a player.  It comes to lie on the ground from nowhere or out of *)
(* a slot, is picked up into the first free slot, trades places within one *)
(* grid, and goes with its player.  A hello deals a player new ones, and a *)
(* drag off the grid overwrites what is in one slot.                       *)
(*                                                                         *)
(* place is a function: to implement it is to never copy a catalyst, and   *)
(* to move no other than the one a request is about.                       *)
(***************************************************************************)
EXTENDS Naturals

CONSTANTS
  Player,    \* the Player instances
  Catalyst,  \* the catalysts
  LastSlot,  \* the last slot of a grid, which no hello fills
  None       \* no player

VARIABLE place

Slot == 0..LastSlot
Dealt == Slot \ {LastSlot}

Nowhere == [at |-> "nowhere", player |-> None, slot |-> 0]
Ground == [at |-> "ground", player |-> None, slot |-> 0]
In(p, s) == [at |-> "slot", player |-> p, slot |-> s]

Carried(t) == place[t].at = "slot"
Taken(p, s) == \E t \in Catalyst : place[t] = In(p, s)

Init == place = [t \in Catalyst |-> Nowhere]

Lay(t) ==
  /\ place[t] = Nowhere
  /\ place' = [place EXCEPT ![t] = Ground]

PickUp(t) ==
  /\ place[t] = Ground
  /\ \E p \in Player, s \in Slot :
       /\ ~Taken(p, s)
       /\ \A r \in Slot : r < s => Taken(p, r)
       /\ place' = [place EXCEPT ![t] = In(p, s)]

PutDown(t) ==
  /\ Carried(t)
  /\ place' = [place EXCEPT ![t] = Ground]

\* t moves to slot r of its grid, and what is there to the slot of t.
Trade(t, r) ==
  /\ Carried(t)
  /\ LET to == In(place[t].player, r) IN
       place' = [u \in Catalyst |->
         IF u = t THEN to ELSE IF place[u] = to THEN place[t] ELSE place[u]]

\* What p has in slot s is overwritten: with None, or with what was nowhere.
Overwrite(p, s, new) ==
  /\ new # None => place[new] = Nowhere
  /\ place' = [t \in Catalyst |->
       IF t = new THEN In(p, s) ELSE IF place[t] = In(p, s) THEN Nowhere ELSE place[t]]

\* Players that nobody refers to any more, with all they carry.
Vanish(P) ==
  place' = [t \in Catalyst |-> IF Carried(t) /\ place[t].player \in P THEN Nowhere ELSE place[t]]

\* New catalysts replace what p has in all slots but the last, while the
\* players of P vanish.
Deal(hand, p, P) ==
  place' = [t \in Catalyst |->
    IF \E s \in Dealt : hand[s] = t THEN In(p, CHOOSE s \in Dealt : hand[s] = t)
    ELSE IF Carried(t) /\ (place[t].player \in P \/ place[t] \in {In(p, s) : s \in Dealt})
         THEN Nowhere
    ELSE place[t]]

Carriers == {place[t].player : t \in {u \in Catalyst : Carried(u)}}

Next ==
  \/ \E P \in SUBSET Carriers : Vanish(P)
  \/ \E t \in Catalyst : Lay(t) \/ PickUp(t) \/ PutDown(t) \/ \E r \in Slot : Trade(t, r)
  \/ \E p \in Player, s \in Slot, new \in Catalyst \cup {None} : Overwrite(p, s, new)
  \/ \E hand \in [Dealt -> Catalyst] :
       /\ \A s \in Dealt : place[hand[s]] = Nowhere
       /\ \A s, r \in Dealt : hand[s] = hand[r] => s = r
       /\ \E p \in Player : \E P \in SUBSET (Player \ {p}) : Deal(hand, p, P)

Spec == Init /\ [][Next]_place
=============================================================================
