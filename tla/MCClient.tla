------------------------------ MODULE MCClient ------------------------------
(***************************************************************************)
(* Small instances of the agent for TLC.                                    *)
(***************************************************************************)
EXTENDS Client, TLC

CONSTANTS a, b, c1, c2, c3, c4

\* Website a is added (c1) and taken away (c2), website b is added with https
\* (c3) and without (c4).  The broker may send these in any order.
MCCmdOf == c1 :> "add" @@ c2 :> "del" @@ c3 :> "add" @@ c4 :> "add"
MCNameOf == c1 :> a @@ c2 :> a @@ c3 :> b @@ c4 :> b
MCHttps == [c \in Commands |-> c = c3]
MCGood == [c \in Commands |-> TRUE]
=============================================================================
