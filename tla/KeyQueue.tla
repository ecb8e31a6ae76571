------------------------------ MODULE KeyQueue ------------------------------
(***************************************************************************)
(* What the remote-control side of the server promises: keys are passed on *)
(* in the order they were taken from the keyboards, each once, in batches  *)
(* that hold everything typed so far.                                      *)
(***************************************************************************)
EXTENDS Sequences

CONSTANT Keys

VARIABLES queue,   \* keys taken and not passed on yet
          out      \* the last batch passed on

qvars == <<queue, out>>

Init == queue = <<>> /\ out = <<>>

Put == \E key \in Keys : queue' = Append(queue, key) /\ out' = out

Flush == queue # <<>> /\ out' = queue /\ queue' = <<>>

Next == Put \/ Flush

Spec == Init /\ [][Next]_qvars

\* Keys do not wait for ever.
FairSpec == Spec /\ WF_qvars(Flush)
=============================================================================
