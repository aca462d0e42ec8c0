------------------------------- MODULE Lists -------------------------------
(***************************************************************************)
(* The doubly linked lists of core/ngx_queue.h, as sequences, and sums.      *)
(***************************************************************************)
EXTENDS Naturals, Integers, Sequences, FiniteSets, FiniteSetsExt, SequencesExt

\* ngx_queue_remove: an element is in its queue once.
Without(q, e) == IF e \in Range(q) THEN RemoveAt(q, CHOOSE x \in DOMAIN q : q[x] = e) ELSE q

\* The sum of f[1] .. f[n].
Sum(f, n) == LET sum[k \in 0 .. n] == IF k = 0 THEN 0 ELSE sum[k - 1] + f[k] IN sum[n]
=============================================================================
