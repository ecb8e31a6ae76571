--------------------------- MODULE MCPilotRouting ---------------------------
(***************************************************************************)
(* One run for two scenes, chosen in the initial state.  "lines": the      *)
(* threads of GpioLines alone, the key sender toggling line 2 whenever it  *)
(* likes.  "routing": PilotRouting, with connections that log in and       *)
(* leave but set no line themselves.  Every step of PilotRouting is one of *)
(* GpioLines or leaves its variables alone (proved in PilotRoutingProofs), *)
(* so what holds in the first scene holds in the composition.              *)
(***************************************************************************)
EXTENDS PilotRouting

CONSTANTS Scenes,
          LinesConn     \* connections in the scene "lines"

VARIABLE scene

MCvars == <<vars, scene>>

MCInit == Init /\ scene \in Scenes /\ (scene = "routing" => ~auto)

MCNext ==
    /\ scene' = scene
    /\ \/ /\ scene = "lines" /\ LinesNext /\ UNCHANGED <<roles, sender>>
          /\ \A c \in Conn : mode'[c] # mode[c] => mode[c] = 0 \/ pc[c] = "remove"
          /\ \A c \in Conn : mode'[c] # 2 /\ (c > LinesConn => pc'[c] = "none")
       \/ /\ scene = "routing" /\ Next
          /\ \A c \in Conn : pc'[c] \notin {"set", "read"} /\ mode'[c] # 4
          /\ \A c \in Conn : mode'[c] # mode[c] => mode[c] = 0 \/ pc[c] = "remove"

MCSpec == MCInit /\ [][MCNext]_MCvars
=============================================================================
