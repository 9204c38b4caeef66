--------------------------- MODULE MCEODControlPlane ---------------------------
(* Instantiates EODControlPlane for TLC: runner processes are interchangeable. *)
EXTENDS EODControlPlane, TLC

CONSTANT MaxTroubles  \* bound: crashes, failures and lost locks together

Processes == Permutations(Workers)

(* FairSpec with at most MaxTroubles; no trouble is fair. *)
LiveNext == Next /\ crashes' + failures' + lockLosses' <= MaxTroubles

LiveSpec == Init /\ [][LiveNext]_vars /\ Fairness
=============================================================================
