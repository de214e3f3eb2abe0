----------------------------- MODULE MCRuntime -----------------------------
(***************************************************************************)
(* Small instances of the two parts of the runtime library that lie around *)
(* the collector's buffers: the channel to the profiler's process, and the *)
(* process-wide collector across forks.  They share no state; a behaviour  *)
(* is one of a single part, the subject, and the variables of the other    *)
(* stay as they begin.                                                     *)
(***************************************************************************)
EXTENDS MCProcChannel, ForkSession

VARIABLE subject

\* The part that is not the subject begins in one of its initial states only.
RuntimeInit ==
  /\ Init /\ ForkInit
  /\ \/ subject = "channel" /\ threads = {CHOOSE t \in Threads : TRUE}
     \/ subject = "fork" /\ mode = (CHOOSE m \in Modes : TRUE)

RuntimeNext ==
  /\ UNCHANGED subject
  /\ \/ subject = "channel" /\ Next /\ UNCHANGED forkVars
     \/ subject = "fork" /\ ForkNext /\ UNCHANGED vars

\* The scheduling that ProcChannel assumes, for the behaviours of the channel.
RuntimeSpec ==
  /\ RuntimeInit
  /\ [][RuntimeNext]_<<subject, vars, forkVars>>
  /\ WF_vars(subject = "channel" /\ SenderStep)
  /\ WF_vars(subject = "channel" /\ ReceiverStep)
  /\ SF_vars(subject = "channel" /\ Wait)
============================================================================
