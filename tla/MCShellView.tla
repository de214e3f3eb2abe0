---------------------------- MODULE MCShellView ----------------------------
(***************************************************************************)
(* Two recordings that offer different views, for model checking.          *)
(***************************************************************************)
EXTENDS ShellView

TwoRecordings == [a |-> <<"Summary", "Hotspots", "Flame">>, b |-> <<"Summary", "Cores">>]

\* Two recordings with the same views.
TwoWithCores == [a |-> <<"Summary", "Cores">>, b |-> <<"Summary", "Cores">>]
============================================================================
