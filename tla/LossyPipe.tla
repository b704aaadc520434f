----------------------------- MODULE LossyPipe ------------------------------
(***************************************************************************)
(* What one direction of a terminal session promises: bytes, numbered in   *)
(* the order they were sent, arrive in that order, at most once, in runs   *)
(* of consecutive bytes; some may be lost, none is invented.               *)
(***************************************************************************)
EXTENDS Naturals, Sequences

VARIABLES
    sent,       \* number of bytes sent so far
    delivered   \* the runs of bytes that arrived, as [first, last]

Init == sent = 0 /\ delivered = <<>>

Send ==
    /\ sent' \in Nat
    /\ sent' > sent
    /\ UNCHANGED delivered

Deliver ==
    /\ \E f \in 1..sent : \E l \in f..sent :
          /\ \A i \in 1..Len(delivered) : delivered[i].last < f
          /\ delivered' = Append(delivered, [first |-> f, last |-> l])
    /\ UNCHANGED sent

Next == Send \/ Deliver

Spec == Init /\ [][Next]_<<sent, delivered>>

=============================================================================
