------------------------------ MODULE MCLobby ------------------------------
(***************************************************************************)
(* Two connections and two accounts, two rooms, categories or games more   *)
(* than there are at the start, and two requests in a read.                *)
(*                                                                         *)
(* What is in the buffers decides nothing, so states are told apart        *)
(* without them; of the requests of a read, by their number.  The second   *)
(* request is then tried after one of those that lead to the same state,   *)
(* which shows what appending does; AnswersMatch is about every sequence.  *)
(* What can happen when no connection is accepted any more can also happen *)
(* when none comes, so accepting is left out as well.                      *)
(***************************************************************************)
EXTENDS Lobby
Seen == <<conn, registered, user, room, category, views, game, reading, Len(asked)>>
Symmetry == Permutations(Conns) \cup Permutations(Ids)
=============================================================================
