----------------------------- MODULE MCResolver -----------------------------
(* Zones, requests and faults for Resolver; times are in ticks. *)
EXTENDS Resolver

Ans == [code |-> 0, records |-> TRUE, big |-> FALSE, bad |-> FALSE, addrs |-> {}, cname |-> Nowhere, ttl |-> 1]
Ok(addrs) == [Ans EXCEPT !.addrs = addrs]
Nothing == [Ans EXCEPT !.records = FALSE]
Err(code) == [Nothing EXCEPT !.code = code]
Big(addrs) == [Ok(addrs) EXCEPT !.big = TRUE]
Odd == [Ans EXCEPT !.bad = TRUE]
To(x) == [Ans EXCEPT !.cname = x]
Both(x4, x6) == [t \in {4, 6} |-> IF t = 4 THEN x4 ELSE x6]
Ask1(x) == [name |-> x, second |-> FALSE, then |-> 0]

Plain == [users |-> <<Ask1("a"), Ask1("a")>>, servers |-> 2, ipv6 |-> TRUE, valid |-> 0, malformed |-> {},
          zone |-> "a" :> Both({Ok({"p"})}, {Ok({"q"})}), events |-> {"cancel"}, fails |-> 0]
V4 == [Plain EXCEPT !.ipv6 = FALSE]

MCSetups == {
  \* both families, with errors and sends that fail
  [Plain EXCEPT !.zone = "a" :> Both({Ok({"p"}), Err(2)}, {Ok({"q"})}), !.fails = 1],
  [Plain EXCEPT !.zone = "a" :> Both({Ok({"p", "r"}), Odd}, {Nothing}), !.valid = 2],
  [Plain EXCEPT !.zone = "a" :> Both({Nothing}, {Nothing, Err(1)})],
  \* three requests, one of which is begun by a handler
  [V4 EXCEPT !.users = <<[Ask1("a") EXCEPT !.then = 3], Ask1("a"), [Ask1("a") EXCEPT !.second = TRUE]>>,
             !.zone = "a" :> Both({Ok({"p"}), Err(3)}, {}), !.fails = 1],
  \* two names, kept and forgotten
  [V4 EXCEPT !.users = <<Ask1("a"), Ask1("b"), Ask1("a")>>, !.events = {},
             !.zone = ("a" :> Both({Ok({"p"})}, {})) @@ ("b" :> Both({Ok({"s"})}, {}))],
  \* an alias of a name that another asks for; one that is longer than allowed; a loop; a malformed one
  [Plain EXCEPT !.users = <<Ask1("b"), Ask1("a")>>, !.zone = @ @@ ("b" :> Both({To("a")}, {To("a")})), !.fails = 1],
  [V4 EXCEPT !.users = <<Ask1("b"), Ask1("b")>>,
             !.zone = ("b" :> Both({To("c")}, {})) @@ ("c" :> Both({To("d")}, {})) @@ ("d" :> Both({To("b")}, {})), !.valid = 9],
  [V4 EXCEPT !.zone = "a" :> Both({To("m")}, {}), !.malformed = {"m"}],
  \* TCP: answers that are too long, connections that fail
  [V4 EXCEPT !.zone = "a" :> Both({Big({"p"})}, {}), !.events = {"cancel", "tcp"}, !.fails = 1],
  [Plain EXCEPT !.users = <<Ask1("a")>>, !.zone = "a" :> Both({Big({"p"})}, {Big({"q"}), Err(2)}), !.servers = 1],
  \* answers that answer nothing
  [Plain EXCEPT !.zone = "a" :> Both({Ans}, {Ans})] }
=============================================================================
