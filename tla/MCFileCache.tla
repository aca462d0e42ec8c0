----------------------------- MODULE MCFileCache -----------------------------
(***************************************************************************)
(* Setups for FileCache: each is one question about the cache, with the      *)
(* requests, answers and files that it takes.                                *)
(***************************************************************************)
EXTENDS FileCache

Good(fs, till, vary) == [kind |-> "good", fs |-> fs, till |-> till, vary |-> vary]
Other(kind, till) == [kind |-> kind, fs |-> 0, till |-> till, vary |-> FALSE]
One == {[key |-> 1, hdr |-> 1]}
Two == {[key |-> 1, hdr |-> 1], [key |-> 2, hdr |-> 1]}
File(fs, till, vary) == [fs |-> fs, till |-> till, vary |-> vary, bad |-> FALSE]
Empty(kinds) == [k \in {x.key : x \in kinds} \union {Variant(x) : x \in kinds} |-> NoFile]

Plain == [kinds |-> One, answers |-> {Good(1, 9, FALSE)}, files |-> {Empty(One)}, cold |-> FALSE, lock |-> FALSE, age |-> 0,
          timeout |-> 0, minUses |-> 1, inactive |-> 9, max |-> 9, useStale |-> FALSE, background |-> FALSE,
          managed |-> FALSE, slots |-> 3, requests |-> 2, faults |-> 0, maxNow |-> 0, full |-> FALSE]

MCSetups == {
  \* Three requests wait for one, which may be killed; its lock runs out or not.
  [Plain EXCEPT !.lock = TRUE, !.age = 9, !.timeout = 1, !.requests = 3, !.faults = 1, !.maxNow = 1, !.slots = 1,
                !.answers = {Good(1, 9, FALSE)}],
  [Plain EXCEPT !.lock = TRUE, !.age = 1, !.timeout = 1, !.requests = 3, !.maxNow = 1, !.slots = 1,
                !.answers = {Good(1, 9, FALSE), Other("error", 0)}, !.full = TRUE],
  \* An old file, renewed in the background or not; the new one may not fit on the disk.
  [Plain EXCEPT !.full = TRUE, !.useStale = TRUE, !.background = TRUE, !.maxNow = 2, !.slots = 1, !.inactive = 1, !.managed = TRUE,
                !.files = {[Empty(One) EXCEPT ![1] = File(2, 0, 0)]}, !.answers = {Good(1, 0, FALSE), Other("same", 2)}],
  [Plain EXCEPT !.full = TRUE, !.maxNow = 2, !.slots = 1, !.useStale = TRUE, !.files = {[Empty(One) EXCEPT ![1] = File(2, 0, 0)]},
                !.answers = {Other("error", 1), Good(1, 1, FALSE)}],
  \* Errors are stored too.
  [Plain EXCEPT !.maxNow = 2, !.requests = 3, !.slots = 1, !.answers = {Other("error", 0), Other("error", 1), Good(1, 0, FALSE)}],
  \* More than there may be, and a zone that is full.
  [Plain EXCEPT !.kinds = Two, !.requests = 3, !.managed = TRUE, !.max = 2, !.slots = 2, !.files = {Empty(Two)},
                !.answers = {Good(1, 9, FALSE), Good(2, 9, FALSE)}],
  [Plain EXCEPT !.kinds = Two, !.requests = 3, !.slots = 1, !.faults = 1, !.files = {Empty(Two)}, !.managed = TRUE],
  \* The second request counts.
  [Plain EXCEPT !.requests = 3, !.minUses = 2, !.cold = TRUE, !.files = {Empty(One), [Empty(One) EXCEPT ![1] = File(1, 9, 0)]}],
  \* After a start.
  [Plain EXCEPT !.kinds = One, !.cold = TRUE, !.slots = 1, !.faults = 1, !.requests = 1, !.managed = TRUE, !.max = 1,
                !.files = {[Empty(One) EXCEPT ![1] = File(1, 9, 0), ![11] = File(1, 9, 0)]}],
  [Plain EXCEPT !.kinds = Two, !.cold = TRUE, !.slots = 2, !.max = 2,
                !.files = {[Empty(Two) EXCEPT ![1] = File(1, 9, 0), ![2] = [File(1, 9, 0) EXCEPT !.bad = TRUE]]}],
  \* Variants.
  [Plain EXCEPT !.kinds = {[key |-> 1, hdr |-> 1], [key |-> 1, hdr |-> 2]}, !.lock = TRUE, !.age = 9, !.requests = 3,
                !.answers = {Good(1, 9, TRUE), Good(1, 9, FALSE)},
                !.files = {Empty({[key |-> 1, hdr |-> 1], [key |-> 1, hdr |-> 2]})}],
  \* An answer that is for all after all comes when its lock has run out and another request has it.
  [Plain EXCEPT !.kinds = {[key |-> 1, hdr |-> 2]}, !.lock = TRUE, !.age = 1, !.timeout = 1, !.slots = 2, !.maxNow = 2,
                !.files = {[Empty({[key |-> 1, hdr |-> 2]}) EXCEPT ![1] = File(1, 9, 11)]}],
  \* After a start, a file of the variant that says that it is for another one.
  [Plain EXCEPT !.cold = TRUE, !.requests = 1, !.slots = 2, !.answers = {Good(1, 9, TRUE), Other("private", 0)},
                !.files = {[Empty(One) EXCEPT ![1] = File(1, 9, 12), ![11] = File(1, 9, 12)]}]
}
=============================================================================
