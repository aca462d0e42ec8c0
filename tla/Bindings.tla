------------------------------ MODULE Bindings ------------------------------
(***************************************************************************)
(* What the panel promises about its book of upgrades, however many PHP     *)
(* processes serve it and however their statements interleave: the          *)
(* committed rows change by one whole operation at a time, a website is     *)
(* bound only to an address of its own customer, and at most v6.site        *)
(* websites are bound to an address when a binding is added.  The panel,    *)
(* module Site, implements it.                                              *)
(***************************************************************************)
EXTENDS Schema

\* The conditions of models/Site.php bindV6 hold together when the row appears.
Bind(v, s) ==
  /\ belong[v] = siteBelong[s]
  /\ BoundCount(v) < quota[v]
  /\ InsertBinding(v, s)

Unbind(v, s) == <<v, s>> \in v6site /\ DeleteBinding(v, s)

Next ==
  \/ \E s \in Sites, u \in Users : InsertSite(s, u)
  \/ \E s \in Sites : DeleteSite(s)
  \/ \E v \in V6, u \in Owners, q \in 0..MaxQuota : InsertV6(v, u, q)
  \/ \E v \in V6 : DeleteV6(v)
  \/ \E v \in V6, u \in Owners : UpdateBelong(v, u)
  \/ \E v \in V6, q \in 0..MaxQuota : UpdateQuota(v, q)
  \/ \E v \in V6, s \in Sites : Bind(v, s) \/ Unbind(v, s)

Spec == BookInit /\ [][Next]_bookVars
=============================================================================
