--------------------------- MODULE MCWatchlistStore ---------------------------
(* Instances of WatchlistStore for TLC.                                      *)
EXTENDS WatchlistStore, TLC

\* Interchangeable values: sound for the runs whose properties are invariants or
\* speak of single steps, and used by those only.
Symmetry == Permutations(Codes) \cup Permutations(Symbols) \cup Permutations(Workers)
=============================================================================
