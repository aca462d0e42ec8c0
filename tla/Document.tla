------------------------------ MODULE Document ------------------------------
(***************************************************************************)
(* What a client is promised of a response that is put together from parts:  *)
(* it grows in the order of the document, and ends well only when it is all  *)
(* there.                                                                    *)
(***************************************************************************)
EXTENDS Sequences, Naturals

CONSTANT Wholes   \* the documents there are, as sequences of their texts

VARIABLES whole, sent, end   \* end: "no", "well" or "broken"

Init == whole \in Wholes /\ sent = <<>> /\ end = "no"

Send ==
  /\ end = "no"
  /\ \E k \in Len(sent) .. Len(whole) : sent' = SubSeq(whole, 1, k)
  /\ UNCHANGED <<whole, end>>

\* The last texts may be sent in the step that ends it.
EndWell == end = "no" /\ end' = "well" /\ sent' = whole /\ UNCHANGED whole
Break == end = "no" /\ end' = "broken" /\ UNCHANGED <<whole, sent>>

Next == Send \/ EndWell \/ Break
Spec == Init /\ [][Next]_<<whole, sent, end>>
=============================================================================
