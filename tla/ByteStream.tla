----------------------------- MODULE ByteStream -----------------------------
(***************************************************************************)
(* What the ring promises to the two elements it joins: a bounded, loss-   *)
(* free, ordered stream of bytes that a reset starts afresh.  Byte number  *)
(* n is the n-th byte accepted since the last reset.                       *)
(***************************************************************************)
EXTENDS Integers, Sequences

CONSTANT Capacity

VARIABLES
  sent,   \* how many bytes the stream has accepted
  recv    \* the bytes it has delivered, in order

stream == <<sent, recv>>

Init == sent = 0 /\ recv = <<>>

InFlight == sent - Len(recv)

\* Accept n bytes, as many as there is room for at most.
Put(n) ==
  /\ InFlight + n <= Capacity
  /\ sent' = sent + n
  /\ UNCHANGED recv

\* Deliver the oldest n bytes in flight.
Get(n) ==
  /\ n <= InFlight
  /\ recv' = recv \o [i \in 1 .. n |-> Len(recv) + i - 1]
  /\ UNCHANGED sent

Restart == sent' = 0 /\ recv' = <<>>

Next ==
  \/ \E n \in 1 .. Capacity : Put(n) \/ Get(n)
  \/ Restart

Spec == Init /\ [][Next]_stream
=============================================================================
