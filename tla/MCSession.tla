----------------------------- MODULE MCSession -----------------------------
(***************************************************************************)
(* Small instances of one recording and of the sampling driver it starts   *)
(* and stops, the driver with a sink that takes what it is given.  The two *)
(* are checked side by side and share no state here: a behaviour is one of *)
(* a single part, the subject, and the variables of the other stay as they *)
(* begin.                                                                  *)
(***************************************************************************)
EXTENDS RecordSession, PerfSampling

VARIABLE subject

\* The first group overflows its ring, the second may sample too.
RecordBounds == <<3, 1>>

\* The part that is not the subject begins in one of its initial states only.
MCInit ==
  /\ Init /\ SamplingInit
  /\ \/ /\ subject = "session"
        /\ mode = (CHOOSE m \in Targets : TRUE) /\ fits = [r \in RingIds |-> TRUE]
     \/ /\ subject = "driver"
        /\ scenario = "snapshot" /\ ~attached /\ ~limited

\* The driver is gone.
Dropped == vpc = "dropped" /\ UNCHANGED sampling

MCNext ==
  /\ UNCHANGED subject
  /\ \/ subject = "session" /\ Next /\ UNCHANGED sampling
     \/ subject = "driver" /\ (SamplingNext \/ Dropped) /\ UNCHANGED vars

\* The scheduling that RecordSession assumes, for the behaviours of the session.
MCSpec ==
  /\ MCInit
  /\ [][MCNext]_<<subject, vars, sampling>>
  /\ WF_vars(subject = "session" /\ Session)
  /\ WF_vars(subject = "session" /\ PollLimit)
  /\ \A s \in Sources : WF_vars(subject = "session" /\ WorkerEnds(s))
  /\ WF_vars(subject = "session" /\ WriterEnds)
============================================================================
