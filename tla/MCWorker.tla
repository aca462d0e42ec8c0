------------------------------ MODULE MCWorker ------------------------------
(***************************************************************************)
(* Bounds of Worker: one worker without the accept mutex whose connections   *)
(* replace each other within a batch, and two workers that share it.         *)
(***************************************************************************)
EXTENDS Worker
CONSTANTS w1, w2
Base == [mutex |-> FALSE, workers |-> {w1}, clients |-> 2, numbers |-> 4, nofile |-> N,
         crashes |-> 0, quits |-> 0]
MCScenarios ==
  {Base,
   [Base EXCEPT !.mutex = TRUE, !.workers = {w1, w2}, !.numbers = 2, !.crashes = 1, !.clients = 1],
   [Base EXCEPT !.mutex = TRUE, !.workers = {w1, w2}, !.numbers = 2, !.nofile = 1, !.quits = 1],
   [Base EXCEPT !.numbers = 2, !.nofile = 1, !.quits = 1, !.crashes = 1]}
MCWorkers == {w1, w2}
=============================================================================
