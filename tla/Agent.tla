-------------------------------- MODULE Agent -------------------------------
(***************************************************************************)
(* The agent in C, service-c/client.c, and the server as the agent sees    *)
(* it: stopped and started again.  The agent connects, logs in as gpio     *)
(* client, obeys keys of the remote control, and connects again when the   *)
(* server has closed the connection.  How both start is module Daemon.     *)
(*                                                                         *)
(* TCP is a stream: recv returns some of what has been sent, with no       *)
(* regard to where a message ends.  Two messages may come at once, one in  *)
(* two parts.  Keys end with NUL, snapshots of the lines do not.           *)
(***************************************************************************)
EXTENDS Lazc

CONSTANTS Pressed,     \* what the remote control may send: sequences of keys
          MaxKeys,     \* keys pressed in this instance
          MaxFds       \* descriptors the agent may have

VARIABLES srv,         \* the server listens
          login,       \* the server knows the agent as gpio client
          apc,         \* the agent: its place
          fds,         \* the sockets the agent has open
          conn,        \* its connection, as the agent's kernel sees it
          stream,      \* what the server has sent and the agent not received
          msg,         \* the agent's buffer
          pressed,     \* keys sent to the agent so far
          obeyed       \* commands the agent has carried out so far

server == <<srv, login>>
agent  == <<apc, fds, msg, obeyed>>
link   == <<apc, fds, conn, stream>>
avars  == <<server, agent, conn, stream, pressed>>

NUL == "0"

\* A key name is two tokens, so that it can be cut in two.
Word == [power |-> <<"key_p", "ower">>, up |-> <<"key_volume_u", "p">>,
         down |-> <<"key_volume_d", "own">>, mic |-> <<"key_m", "ic">>]

Key == DOMAIN Word

\* Nothing is sent if no key is left.
ASSUME PressedAssumption == Pressed \subseteq Seq(Key) \ {<<>>}

Names(keys) == [i \in 1..(2 * Len(keys)) |-> Word[keys[(i + 1) \div 2]][2 - (i % 2)]]

PilotMessage(keys) == <<"pilot", "=">> \o Names(keys) \o <<NUL>>

Snapshot == <<"gpio_status", "=", "1">>

-----------------------------------------------------------------------------
(* The server.                                                             *)

ServerListens ==
    /\ ~srv /\ srv' = TRUE
    /\ UNCHANGED <<login, agent, conn, stream, pressed>>

\* The kernel closes the connections of a process that ends: in order, or with
\* a reset if it had not read all.
ServerStops ==
    /\ srv /\ srv' = FALSE /\ login' = FALSE
    /\ conn' \in IF conn = "open" THEN {"closed", "reset"} ELSE {conn}
    /\ UNCHANGED <<agent, stream, pressed>>

\* The login tryb=gpio is received whole.
TakeLogin ==
    /\ srv /\ conn = "open" /\ ~login /\ apc = "recv"
    /\ login' = TRUE
    /\ UNCHANGED <<srv, agent, conn, stream, pressed>>

\* Received in two parts, neither is a login; the second is taken for a
\* request of an unknown client, and the server ends the connection.
TakeLoginSplit ==
    /\ srv /\ conn = "open" /\ ~login /\ apc = "recv"
    /\ conn' = "closed"
    /\ stream' = stream \o <<"server=terminated", NUL>>
    /\ UNCHANGED <<server, agent, pressed>>

SendKeys(keys) ==
    /\ login /\ conn = "open" /\ Len(pressed) + Len(keys) <= MaxKeys
    /\ stream' = stream \o PilotMessage(keys)
    /\ pressed' = pressed \o keys
    /\ UNCHANGED <<server, agent, conn>>

SendSnapshot ==
    /\ login /\ conn = "open" /\ stream = <<>>
    /\ stream' = Snapshot
    /\ UNCHANGED <<server, agent, conn, pressed>>

-----------------------------------------------------------------------------
(* The agent.                                                              *)

\* gethostbyname may find nothing, and nobody looks.
AgentStarts ==
    /\ apc = "off"
    /\ apc' \in {"socket", "ended"}
    /\ UNCHANGED <<server, fds, msg, obeyed, conn, stream, pressed>>

\* socket fails when descriptors have run out; the loop goes on.
Socket ==
    /\ apc = "socket"
    /\ IF fds < MaxFds THEN fds' = fds + 1 /\ apc' = "connect" ELSE UNCHANGED <<fds, apc>>
    /\ UNCHANGED <<server, msg, obeyed, conn, stream, pressed>>

\* A refused connection goes back to socket, and the socket stays open.
Connect ==
    /\ apc = "connect"
    /\ IF srv THEN conn' = "open" /\ apc' = "recv" /\ stream' = <<>>
              ELSE apc' = "socket" /\ UNCHANGED <<conn, stream>>
    /\ UNCHANGED <<server, fds, msg, obeyed, pressed>>

\* What is obeyed of the text in the buffer.
UpToNul(s) == SubSeq(s, 1, FirstIn({i \in 1..Len(s) : s[i] = NUL}, Len(s) + 1) - 1)

Obey(text) ==
    LET s1 == GetLineToStr(text, 1, "=", <<>>)
        s2 == GetLineToStr(text, 2, "=", <<>>)
    IN CASE s1 = <<"pilot">> /\ s2 = Word["up"] -> <<"up">>
         [] s1 = <<"pilot">> /\ s2 = Word["down"] -> <<"down">>
         [] s1 = <<"pilot">> /\ s2 = Word["power"] -> <<"power">>
         [] OTHER -> <<>>

\* recv returns len of what has arrived.
Receive(len) ==
    /\ apc = "recv"
    /\ stream' = SubSeq(stream, len + 1, Len(stream))
    /\ UNCHANGED <<apc, fds, conn>>

\* recv and the rest of the loop; `end` is what is written behind the text.
RecvEnding(end) ==
    /\ \E len \in 1..Len(stream) :
         /\ Receive(len)
         /\ msg' = SubSeq(stream, 1, len) \o end \o SubSeq(msg, len + Len(end) + 1, Len(msg))
    /\ obeyed' = obeyed \o Obey(UpToNul(msg'))
    /\ UNCHANGED <<server, pressed>>

RecvUnended == RecvEnding(<<>>)                        \* mutant: msg[len] = 0 is missing

Recv == RecvEnding(<<NUL>>)

\* recv returns 0: the loop is left, the socket closed.
RecvEndGoes(l) ==
    /\ apc = "recv" /\ conn = "closed" /\ stream = <<>>
    /\ apc' = l
    /\ UNCHANGED <<server, fds, msg, obeyed, conn, stream, pressed>>

RecvEndIgnored == RecvEndGoes("recv")                  \* mutant: 0 is no end

RecvEnd == RecvEndGoes("close")

\* recv returns -1, before or after what had arrived: the process ends.
RecvFails ==
    /\ apc = "recv" /\ conn = "reset"
    /\ apc' = "ended" /\ fds' = 0
    /\ conn' = "none" /\ stream' = <<>>
    /\ UNCHANGED <<server, msg, obeyed, pressed>>

Close ==
    /\ apc = "close"
    /\ fds' = fds - 1 /\ conn' = "none"
    /\ apc' = "socket"
    /\ UNCHANGED <<server, msg, obeyed, stream, pressed>>

-----------------------------------------------------------------------------
AgentInit ==
    /\ srv = FALSE /\ login = FALSE
    /\ apc = "off" /\ fds = 0 /\ conn = "none" /\ stream = <<>>
    /\ msg = <<>> /\ pressed = <<>> /\ obeyed = <<>>

AgentSteps == Socket \/ Connect \/ Recv \/ RecvEnd \/ RecvFails \/ Close

AgentNext ==
    \/ ServerListens \/ ServerStops \/ TakeLogin \/ TakeLoginSplit
    \/ \E keys \in Pressed : SendKeys(keys)
    \/ SendSnapshot
    \/ AgentStarts \/ AgentSteps

AgentSpec == AgentInit /\ [][AgentNext]_avars

\* The agent is one thread that goes on: what its steps do to the connection.
LinkSteps ==
    \/ Socket \/ Connect \/ RecvEnd \/ RecvFails \/ Close
    \/ \E len \in 1..Len(stream) : Receive(len)

Fair == WF_link(LinkSteps) /\ SF_login(TakeLogin)

AgentFair == AgentSpec /\ Fair

-----------------------------------------------------------------------------
(* Properties.                                                             *)

\* However the stream is cut, the agent carries out only keys that were
\* pressed, each at most once and in their order.
KeysObeyedInOrder ==
    \E f \in [1..Len(obeyed) -> 1..Len(pressed)] :
        /\ \A i, j \in 1..Len(obeyed) : i < j => f[i] < f[j]
        /\ \A i \in 1..Len(obeyed) : obeyed[i] = pressed[f[i]]

\* The agent is connected again after every orderly end of the server, for as
\* long as its attempts have not used up its descriptors: every refused one
\* keeps a socket.
FindsServer ==
    (srv /\ apc \in {"socket", "connect", "recv", "close"})
      ~> (login \/ ~srv \/ apc = "ended" \/ (apc = "socket" /\ fds = MaxFds))
=============================================================================
