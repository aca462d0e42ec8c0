------------------------------- MODULE MCHttp2 -------------------------------
(***************************************************************************)
(* Setups for Http2: each is one kind of client on one connection.           *)
(***************************************************************************)
EXTENDS Http2

Prio(prio, depend, excl, weight) == [prio |-> prio, depend |-> depend, excl |-> excl, weight |-> weight]
Plain == [sids |-> {1, 3}, up |-> 0, fins |-> {TRUE}, ends |-> {TRUE}, prios |-> {Prio(FALSE, 0, FALSE, 1)}, split |-> FALSE,
          moves |-> 0, kinds |-> {}, settings |-> {}, updates |-> {}, bodies |-> {}, lens |-> {0}, pushes |-> {FALSE},
          rooms |-> {9}, events |-> {}, maxReqs |-> 9]

MCSetups == {
  \* Two answers share the windows, and the client changes them.
  [Plain EXCEPT !.lens = {3}, !.moves = 2, !.kinds = {"SETTINGS", "WINDOW_UPDATE"}, !.settings = {0, 1, 3},
                !.updates = {1}, !.rooms = {1, 9}],
  \* Answers that are cut off while their frames are in the queue, a connection that fails.
  [Plain EXCEPT !.lens = {3}, !.moves = 2, !.kinds = {"RST_STREAM", "WINDOW_UPDATE", "BAD"}, !.updates = {2},
                !.rooms = {-1, 1}, !.events = {"timeouts"}],
  \* A body that is read into a buffer, or not.
  [Plain EXCEPT !.sids = {1}, !.up = 3, !.fins = {TRUE, FALSE}, !.ends = {TRUE, FALSE}, !.split = TRUE, !.bodies = {"buffered"},
                !.rooms = {0, 9}, !.events = {"timeouts"}, !.settings = {1}, !.kinds = {"SETTINGS"}, !.moves = 1],
  [Plain EXCEPT !.sids = {1}, !.up = 4, !.fins = {FALSE}, !.split = TRUE, !.bodies = {"unbuffered"}, !.rooms = {0, 9},
                !.events = {"timeouts"}],
  \* Streams and idle nodes in the dependency tree, with room for two closed ones.
  [Plain EXCEPT !.sids = {1, 3, 5}, !.moves = 2, !.kinds = {"PRIORITY"},
                !.prios = {Prio(TRUE, 0, FALSE, 2), Prio(TRUE, 1, TRUE, 4), Prio(TRUE, 3, FALSE, 3), Prio(TRUE, 5, TRUE, 1)}],
  \* One request pushes another; the connection is to end in one way or another.
  [Plain EXCEPT !.pushes = BOOLEAN, !.lens = {1}, !.maxReqs = 2, !.rooms = {0, 9}, !.moves = 1, !.kinds = {"RST_STREAM"},
                !.events = {"leave", "shutdown"}],
  [Plain EXCEPT !.ends = {TRUE, FALSE}, !.lens = {1}, !.maxReqs = 2, !.rooms = {-1, 9}, !.events = {"shutdown", "abort", "timeouts"}]
}
=============================================================================
