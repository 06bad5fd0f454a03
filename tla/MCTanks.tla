--------------------------------- MODULE MCTanks --------------------------------
(* Two tanks with a short meter, for TLC. *)
EXTENDS Tanks, TLC

\* Sessions are interchangeable, tanks are not: they are locked by their ids.
Interchangeable == Permutations(Sessions)

(* Tanks are of their types, and the readings of a journal follow one another up to
   the tank's own, over the turn of the meter (issue_from_tank, adjust_tank).    *)
MeterOK == TanksTypeOK /\ ReadingsChain
=============================================================================
