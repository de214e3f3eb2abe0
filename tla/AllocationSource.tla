-------------------------- MODULE AllocationSource --------------------------
(***************************************************************************)
(* The profiler's end of the allocation channel                            *)
(* (libprof/src/source/allocations.rs): a worker thread receives packets   *)
(* until it is told to stop, and stop() judges whether the capture is      *)
(* complete.  The channel is the bounded lossy queue ProcChannel           *)
(* implements; packets come from the root process only.                    *)
(***************************************************************************)
EXTENDS Integers, Sequences

VARIABLES
  chan,         \* packets in the channel
  chanDropped,  \* packets the channel refused
  rpc,          \* where the worker is
  stop,         \* the stop flag
  expected, missing,
  outcome       \* what the worker knows of the capture

Outcome0 ==
  [footer |-> FALSE, records |-> <<>>, produced |-> 0, dropped |-> 0, lost |-> 0,
   packets |-> 0, paused |-> 0, invalid |-> FALSE]

Init ==
  /\ rpc = "poll" /\ stop = FALSE
  /\ expected = 1 /\ missing = 0 /\ outcome = Outcome0

\* saturating_sub
Behind(sequence) == IF sequence > expected THEN sequence - expected ELSE 0

\* try_recv gave a packet: the batch replaces the totals and adds its records.
Receive ==
  /\ rpc = "poll"
  /\ chan # <<>>
  /\ LET b == Head(chan) IN
       /\ missing' = missing + Behind(b.sequence)
       /\ expected' = b.sequence + 1
       /\ outcome' = [outcome EXCEPT
            !.invalid = @ \/ b.sequence < expected \/ outcome.footer,
            !.produced = b.produced, !.dropped = b.dropped, !.lost = b.lost,
            !.paused = b.paused, !.footer = b.footer,
            !.records = @ \o b.records]
  /\ chan' = Tail(chan)
  /\ UNCHANGED <<chanDropped, rpc, stop>>

ChannelEmpty ==
  /\ rpc = "poll"
  /\ chan = <<>>
  /\ rpc' = "check"
  /\ UNCHANGED <<chan, chanDropped, stop, expected, missing, outcome>>

\* The flag is looked at after the channel was found empty; without it the
\* worker sleeps and polls again.
CheckStop ==
  /\ rpc = "check"
  /\ rpc' = IF stop THEN "end" ELSE "poll"
  /\ UNCHANGED <<chan, chanDropped, stop, expected, missing, outcome>>

\* Mutant of End: a gap in the sequence is corruption, refused or not.
EndStrict ==
  /\ rpc = "end"
  /\ rpc' = "joined"
  /\ outcome' = [outcome EXCEPT !.packets = chanDropped, !.invalid = @ \/ missing > 0]
  /\ UNCHANGED <<chan, chanDropped, stop, expected, missing>>

End ==
  /\ rpc = "end"
  /\ rpc' = "joined"
  /\ outcome' = [outcome EXCEPT
       !.packets = chanDropped,
       !.invalid = @ \/ missing > chanDropped]
  /\ UNCHANGED <<chan, chanDropped, stop, expected, missing>>

RequestStop ==
  /\ ~stop
  /\ stop' = TRUE
  /\ UNCHANGED <<chan, chanDropped, rpc, expected, missing, outcome>>

Next == Receive \/ ChannelEmpty \/ CheckStop \/ End

\* Mutant of Complete: the footer is not required.
CompleteWithoutFooter ==
  /\ ~outcome.invalid
  /\ outcome.dropped = 0 /\ outcome.lost = 0 /\ outcome.packets = 0
  /\ outcome.paused = 0
  /\ outcome.produced = Len(outcome.records)

\* stop() after the join: the capture's verdict.
Complete ==
  /\ outcome.footer
  /\ ~outcome.invalid
  /\ outcome.dropped = 0 /\ outcome.lost = 0 /\ outcome.packets = 0
  /\ outcome.paused = 0
  /\ outcome.produced = Len(outcome.records)
============================================================================
