--------------------------- MODULE MCProcChannel ---------------------------
(***************************************************************************)
(* ProcChannel model-checked, and shown to implement LossyFifo.  A message *)
(* is stood for by its header word.                                        *)
(***************************************************************************)
EXTENDS ProcChannel

Headers == {Word(id, 0, len) : id \in 1 .. MaxSend, len \in Lengths}

HeaderCost(word) == RecordLen(word.len)

\* The records published and not received.
InFlight ==
  [k \in 1 .. Len(begins) - Len(received) |-> written[begins[Len(received) + k] + 1]]

\* A refusal counts from the decision: nothing undoes it, and the fetch_add on
\* the shared counter is the next step of the same call.
Fifo == INSTANCE LossyFifo WITH
  Capacity <- Size,
  Message  <- Headers,
  Cost     <- HeaderCost,
  Nothing  <- Word(0, 0, 0),
  offer    <- Word(msg.id, 0, msg.len),
  pending  <- spc = "copy",
  queue    <- InFlight,
  used     <- Len(written) - Len(taken),
  out      <- received,
  refused  <- dropped + (IF spc = "drop" THEN 1 ELSE 0),
  closed   <- fin > 0,
  ended    <- last = "none"

\* The shared-memory ring implements the bounded lossy queue: a message is
\* refused only when the room it needs is really taken, and what send_sync
\* publishes is received once, whole and in order.
ImplementsFifo == Fifo!Spec
============================================================================
