------------------------------ MODULE MCMaster ------------------------------
(***************************************************************************)
(* A master with one worker for TLC.  Configurations 2 and 3 have cache      *)
(* helpers; from one to the next sockets and zones are kept, dropped, opened, *)
(* resized and, "fresh", never used again.                                   *)
(***************************************************************************)
EXTENDS Master

Zone(n) == [size |-> n, tag |-> "cache", noreuse |-> FALSE]
Fresh == [size |-> 1, tag |-> "upstream", noreuse |-> TRUE]
MCConfs ==
  << [listen |-> {"http", "old"}, manager |-> FALSE, loader |-> FALSE,
      zones |-> "keep" :> Zone(1) @@ "grow" :> Zone(1) @@ "fresh" :> Fresh],
     [listen |-> {"http", "new"}, manager |-> TRUE, loader |-> TRUE,
      zones |-> "keep" :> Zone(1) @@ "grow" :> Zone(2) @@ "fresh" :> Fresh],
     [listen |-> {"http"}, manager |-> TRUE, loader |-> FALSE, zones |-> "grow" :> Zone(2)],
     [listen |-> {"new"}, manager |-> FALSE, loader |-> FALSE,
      zones |-> "keep" :> Zone(1) @@ "fresh" :> Fresh],
     [listen |-> {"http", "new"}, manager |-> FALSE, loader |-> FALSE,
      zones |-> "keep" :> Zone(1) @@ "grow" :> Zone(2) @@ "fresh" :> Fresh] >>

\* Each of these signals is sent n times.
Times(n, orders) == [s \in FromOperator |-> IF s \in orders THEN n ELSE 0]
Scene(confs, orders, crashes, forks, refused) ==
  [confs |-> confs, orders |-> orders, crashes |-> crashes, forks |-> forks,
   refused |-> refused, failed |-> FALSE, aborted |-> {}, uncounted |-> FALSE]
\* What an operator and the system may do, one set per behaviour: a reload
\* with a crash, the change of the binary and its roll-back, a stop in the
\* middle of a roll-back, reloads in a row, the stops.
MCScenarios ==
  { Scene(<<1, 2>>, Times(1, {"HUP"}), 1, 0, 0),
    Scene(<<1>>, Times(1, {"USR2", "WINCH", "HUP"}), 0, 0, 0),
    Scene(<<1>>, Times(1, {"USR2", "WINCH", "QUIT"}), 1, 0, 0),
    Scene(<<1>>, Times(1, {"USR2", "WINCH", "HUP", "QUIT"}), 0, 0, 0),
    Scene(<<1, 4, 5>>, Times(2, {"HUP"}), 1, 0, 0),
    Scene(<<1>>, Times(1, {"USR2"}), 0, 1, 0),
    Scene(<<2>>, Times(1, {"USR1", "QUIT"}), 0, 0, 1),
    Scene(<<3>>, Times(1, {"TERM"}), 0, 0, 0),
    Scene(<<1, 2>>, Times(1, {"HUP", "QUIT"}), 0, 1, 0),
    Scene(<<1, 4>>, Times(1, {"HUP", "TERM"}), 0, 1, 0) }
=============================================================================
