---------------------------- MODULE MCAccounts ----------------------------
(***************************************************************************)
(* Two accounts, so that names, tokens and ids can be confused: one with   *)
(* dna for a few of the cheap upgrades, one with a reward for a creature,  *)
(* a creature, a squad and a part.                                         *)
(***************************************************************************)
EXTENDS Accounts, TLC

NoLevels == [g \in Groups |-> 0]

RichAccount == [id |-> 1, dna |-> 500, rewards |-> 0, progress |-> 1,
    level |-> NoLevels, identify |-> 0,
    creatures |-> <<>>, squads |-> <<>>, parts |-> <<>>]

StockedAccount == [id |-> 2, dna |-> 0, rewards |-> 1, progress |-> 0,
    level |-> NoLevels, identify |-> 0,
    creatures |-> <<[id |-> 1, template |-> 1, gear |-> 0]>>,
    squads |-> (1 :> <<0, 0, 0>>), parts |-> <<0>>]

MCInitial == <<RichAccount, StockedAccount>>
===========================================================================
