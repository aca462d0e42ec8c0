------------------------------- MODULE MCSite -------------------------------
(***************************************************************************)
(* Small instances of the panel for TLC.                                    *)
(***************************************************************************)
EXTENDS Site, TLC

\* Workers, websites and customers are interchangeable.
Symmetry == Permutations(Workers) \cup Permutations(Sites) \cup Permutations(Users)
=============================================================================
