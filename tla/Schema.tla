------------------------------- MODULE Schema -------------------------------
(***************************************************************************)
(* The tables site, v6 and v6site of src/server/upsite.sql and the          *)
(* statements the panel runs on them.  A statement is what InnoDB makes of  *)
(* it in one atomic step: a DELETE cascades to v6site as the foreign keys   *)
(* fk_v6site_1 and fk_v6site_2 say, and an INSERT into v6site is refused    *)
(* when a parent row is missing or the primary key exists.                  *)
(***************************************************************************)
EXTENDS Naturals, FiniteSets

CONSTANTS Sites,     \* the ids of table site (auto-increment, never reused)
          V6,        \* the ids of table v6
          Users,     \* the customers a row can belong to
          NoUser,    \* SQL's NULL in a belong column, PHP's null on no row
          MaxQuota   \* bound on v6.site, the number of websites of an address

ASSUME NoUserAssumption == NoUser \notin Users
ASSUME SitesAssumption == IsFiniteSet(Sites)
ASSUME QuotaAssumption == MaxQuota \in Nat

VARIABLES siteRow,    \* per site id: "unborn", "live" or "gone"
          siteBelong, \* site.belong, NoUser when there is no row
          v6Row,      \* per v6 id: "unborn", "live" or "gone"
          belong,     \* v6.belong: the customer the address is granted to
          quota,      \* v6.site, 0 when there is no row
          v6site      \* the set of bound pairs <<vid, sid>>

bookVars == <<siteRow, siteBelong, v6Row, belong, quota, v6site>>

Rows == {"unborn", "live", "gone"}
Owners == Users \cup {NoUser}
Pairs == V6 \X Sites

BookTypeOK ==
  /\ siteRow \in [Sites -> Rows]
  /\ siteBelong \in [Sites -> Owners]
  /\ v6Row \in [V6 -> Rows]
  /\ belong \in [V6 -> Owners]
  /\ quota \in [V6 -> 0..MaxQuota]
  /\ v6site \in SUBSET Pairs

\* The websites bound to address v.
BoundTo(v) == {s \in Sites : <<v, s>> \in v6site}
BoundCount(v) == Cardinality(BoundTo(v))

BookInit ==
  /\ siteRow = [s \in Sites |-> "unborn"]
  /\ siteBelong = [s \in Sites |-> NoUser]
  /\ v6Row = [v \in V6 |-> "unborn"]
  /\ belong = [v \in V6 |-> NoUser]
  /\ quota = [v \in V6 |-> 0]
  /\ v6site = {}

InsertSite(s, u) ==
  /\ siteRow[s] = "unborn"
  /\ siteRow' = [siteRow EXCEPT ![s] = "live"]
  /\ siteBelong' = [siteBelong EXCEPT ![s] = u]
  /\ UNCHANGED <<v6Row, belong, quota, v6site>>

DeleteSite(s) ==
  /\ siteRow[s] = "live"
  /\ siteRow' = [siteRow EXCEPT ![s] = "gone"]
  /\ siteBelong' = [siteBelong EXCEPT ![s] = NoUser]
  /\ v6site' = v6site \ (V6 \X {s})
  /\ UNCHANGED <<v6Row, belong, quota>>

InsertV6(v, u, q) ==
  /\ v6Row[v] = "unborn"
  /\ v6Row' = [v6Row EXCEPT ![v] = "live"]
  /\ belong' = [belong EXCEPT ![v] = u]
  /\ quota' = [quota EXCEPT ![v] = q]
  /\ UNCHANGED <<siteRow, siteBelong, v6site>>

DeleteV6(v) ==
  /\ v6Row[v] = "live"
  /\ v6Row' = [v6Row EXCEPT ![v] = "gone"]
  /\ belong' = [belong EXCEPT ![v] = NoUser]
  /\ quota' = [quota EXCEPT ![v] = 0]
  /\ v6site' = v6site \ ({v} \X Sites)
  /\ UNCHANGED <<siteRow, siteBelong>>

UpdateQuota(v, q) ==
  /\ v6Row[v] = "live"
  /\ quota' = [quota EXCEPT ![v] = q]
  /\ UNCHANGED <<siteRow, siteBelong, v6Row, belong, v6site>>

\* Granting the address to a customer, or taking it back (NoUser).
UpdateBelong(v, u) ==
  /\ v6Row[v] = "live"
  /\ belong' = [belong EXCEPT ![v] = u]
  /\ UNCHANGED <<siteRow, siteBelong, v6Row, quota, v6site>>

\* Both parents exist (the foreign keys) and the pair is new (the primary key).
MayInsertBinding(v, s) ==
  siteRow[s] = "live" /\ v6Row[v] = "live" /\ <<v, s>> \notin v6site

\* Mutant: the two columns are swapped.
InsertBindingSwapped(v, s) ==
  /\ MayInsertBinding(v, s)
  /\ v6site' = v6site \cup {<<s, v>>}
  /\ UNCHANGED <<siteRow, siteBelong, v6Row, belong, quota>>

InsertBinding(v, s) ==
  /\ MayInsertBinding(v, s)
  /\ v6site' = v6site \cup {<<v, s>>}
  /\ UNCHANGED <<siteRow, siteBelong, v6Row, belong, quota>>

DeleteBinding(v, s) ==
  /\ v6site' = v6site \ {<<v, s>>}
  /\ UNCHANGED <<siteRow, siteBelong, v6Row, belong, quota>>
=============================================================================
