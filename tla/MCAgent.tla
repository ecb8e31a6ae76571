------------------------------- MODULE MCAgent ------------------------------
(***************************************************************************)
(* Two scenes in one run: the starts and ends of servers and agents on one *)
(* machine (Daemon), and an agent with its server (Agent).                 *)
(***************************************************************************)
EXTENDS Agent, Daemon

VARIABLE scene

mcvars == <<scene, avars, dvars>>

\* Keys of the remote control: single ones, and two joined to one word.
SomeKeys == {<<"power">>, <<"mic">>, <<"power", "power">>}

\* Numbers of one, two and three digits: the lock file is not truncated.
SomePids == {<<7>>, <<1, 2>>, <<3, 4, 5>>}

MCInit == scene \in {"agent", "daemon"} /\ AgentInit /\ DaemonInit

MCNext ==
    /\ UNCHANGED scene
    /\ \/ scene = "agent"  /\ AgentNext  /\ UNCHANGED dvars
       \/ scene = "daemon" /\ DaemonNext /\ UNCHANGED avars

MCSpec == MCInit /\ [][MCNext]_mcvars /\ Fair
=============================================================================
