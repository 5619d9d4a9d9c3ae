--------------------------- MODULE MCScrapeQueue ---------------------------
(* Instances of ScrapeQueue for TLC: symmetric workers and properties.     *)
EXTENDS ScrapeQueue, TLC

Symmetry == Permutations(Workers) \cup Permutations(Rids)
=============================================================================
