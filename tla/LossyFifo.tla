----------------------------- MODULE LossyFifo -----------------------------
(***************************************************************************)
(* What proc_channel.rs promises: a first-in first-out queue of messages   *)
(* of bounded total size that refuses, and counts, a message it has no     *)
(* room for, loses nothing it accepted, and reports the end of the stream  *)
(* only when it was closed and is empty.                                   *)
(***************************************************************************)
EXTENDS Integers, Sequences

CONSTANTS Capacity,   \* words the queue holds
          Message,    \* messages
          Cost(_),    \* words a message takes
          Nothing     \* what is offered before the first send

VARIABLES
  queue,     \* messages sent and not received
  used,      \* words they take
  offer,     \* the message offered last
  pending,   \* whether it was accepted and is still being copied
  out,       \* messages received
  refused,   \* number of messages refused
  closed, ended

vars == <<queue, used, offer, pending, out, refused, closed, ended>>

Room(m) == used + Cost(m) <= Capacity

Init ==
  /\ queue = <<>> /\ used = 0 /\ out = <<>> /\ refused = 0
  /\ offer = Nothing /\ pending = FALSE
  /\ closed = FALSE /\ ended = FALSE

\* A message is accepted if there is room for it, and refused if there is none.
Offer(m) ==
  /\ ~closed /\ ~pending
  /\ offer' = m
  /\ pending' = Room(m)
  /\ refused' = IF Room(m) THEN refused ELSE refused + 1
  /\ UNCHANGED <<queue, used, out, closed, ended>>

Send ==
  /\ pending
  /\ queue' = Append(queue, offer)
  /\ used' = used + Cost(offer)
  /\ pending' = FALSE
  /\ UNCHANGED <<offer, out, refused, closed, ended>>

Receive ==
  /\ queue # <<>>
  /\ out' = Append(out, Head(queue))
  /\ queue' = Tail(queue)
  /\ used' = used - Cost(Head(queue))
  /\ UNCHANGED <<offer, pending, refused, closed, ended>>

Close ==
  /\ closed' = TRUE
  /\ UNCHANGED <<queue, used, offer, pending, out, refused, ended>>

End ==
  /\ closed
  /\ queue = <<>>
  /\ ended' = TRUE
  /\ UNCHANGED <<queue, used, offer, pending, out, refused, closed>>

Next == (\E m \in Message : Offer(m)) \/ Send \/ Receive \/ Close \/ End

Spec == Init /\ [][Next]_vars
============================================================================
