---------------------------- MODULE MCSubrequest ----------------------------
(***************************************************************************)
(* Pages for Subrequest: includes side by side, one in another, waited for,  *)
(* in the background, each with every kind of handler.                       *)
(***************************************************************************)
EXTENDS Subrequest
Leaf(k, t) == [kind |-> k, items |-> <<Text(t)>>]
Page(k, items) == [kind |-> k, items |-> items]
MCDocs == [
  up |-> Leaf("upstream", "u"), file |-> Leaf("static", "f"), big |-> Leaf("thread", "t"),
  nest |-> Page("upstream", <<Text("n1"), Include("up", "plain"), Include("big", "plain"), Text("n2")>>),
  waits |-> Page("static", <<Include("up", "plain"), Include("up", "waited"), Text("w"), Include("file", "plain")>>),
  p1 |-> Page("static", <<Text("1"), Include("up", "plain"), Text("2"), Include("up", "plain"),
                          Include("big", "plain"), Text("3")>>),
  p2 |-> Page("upstream", <<Include("nest", "plain"), Text("1"), Include("file", "plain"), Text("2")>>),
  p3 |-> Page("static", <<Text("1"), Include("waits", "waited"), Text("2"), Include("up", "background")>>),
  p4 |-> Page("thread", <<Include("big", "waited"), Include("up", "waited"), Text("1")>>)]
MCMains == {"p1", "p2", "p3", "p4"}
=============================================================================
