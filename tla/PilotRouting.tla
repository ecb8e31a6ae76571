---------------------------- MODULE PilotRouting ----------------------------
(***************************************************************************)
(* Where the keys of the remote control go.  The thread sending_keys_pilot *)
(* takes a word and passes it to the active pilot, to the gpio client, or  *)
(* acts on it itself.  It holds mutex2 all the while, but reads the roles  *)
(* gpio_adresat and pilot_adresat, which logins and departures change      *)
(* under mutex, without mutex, and reads them twice: once to decide, once  *)
(* as the address.  Only the send itself is made under mutex.              *)
(*                                                                         *)
(* How a word comes about is module KeyBuffer; which senders there are one *)
(* after the other does not matter here, so there is one.                  *)
(***************************************************************************)
EXTENDS GpioLines

CONSTANT Words       \* what the remote control can send in this instance

VARIABLES gpio_adresat, pilot_adresat, pilot_full,
          spc, word, to,     \* the sender: place, its s, the address it read
          sent               \* clients its last step sent a key to

roles  == <<gpio_adresat, pilot_adresat, pilot_full>>
sender == <<spc, word, to, sent>>
vars   == <<lvars, roles, sender>>

\* Words the server itself has a command for if there is no gpio client.
Commands == {"key_power", "key_volume_down", "key_volume_up", "key_play_pause",
             "key_back", "key_right", "key_left"}

-----------------------------------------------------------------------------
(* Logins and departures change the roles.                                 *)

LoginGpio(c) ==
    /\ Login(c, 1)
    /\ gpio_adresat' = IF gpio_adresat = None THEN c ELSE gpio_adresat
    /\ UNCHANGED <<pilot_adresat, pilot_full, sender>>

LoginPilot(c) ==
    /\ Login(c, 2)
    /\ pilot_adresat' = IF pilot_adresat = None THEN c ELSE pilot_adresat
    /\ UNCHANGED <<gpio_adresat, pilot_full, sender>>

LoginMonitor(c) == Login(c, 4) /\ UNCHANGED <<roles, sender>>

PilotFull(c, v) ==
    /\ Idle(c) /\ pilot_full' = v
    /\ UNCHANGED <<lvars, gpio_adresat, pilot_adresat, sender>>

ClearRoles(c) ==
    /\ gpio_adresat' = IF gpio_adresat = c THEN None ELSE gpio_adresat
    /\ \/ /\ pilot_adresat = c
          /\ pilot_adresat' = None /\ pilot_full' = 0
          /\ ExitClear(c, "handover")
       \/ /\ pilot_adresat # c
          /\ ExitClear(c, "remove")
          /\ UNCHANGED <<pilot_adresat, pilot_full>>
    /\ UNCHANGED sender

\* The first other pilot in the table: entries are in order of arrival.
Heirs(c) == {d \in Conn \ {c} : InTable(d) /\ mode[d] = 2}

Handover(c) ==
    /\ ExitHandover(c)
    /\ \/ Heirs(c) = {} /\ pilot_adresat' = None
       \/ \E d \in Heirs(c) : (\A e \in Heirs(c) : d <= e) /\ pilot_adresat' = d
    /\ UNCHANGED <<gpio_adresat, pilot_full, sender>>

-----------------------------------------------------------------------------
(* The sender.                                                             *)

\* The next place of the sender; at its end it forgets its word.
SenderGoes(from, l) ==
    /\ spc = from /\ spc' = l
    /\ word' = IF l = "idle" THEN "" ELSE word
    /\ sent' = {}
    /\ UNCHANGED <<roles, to>>

Take(w) ==
    /\ spc = "idle" /\ spc' = "pilot" /\ word' = w /\ sent' = {}
    /\ UNCHANGED <<lvars, roles, to>>

TestPilot ==
    /\ UNCHANGED lvars
    /\ SenderGoes("pilot", IF pilot_adresat = None THEN "alone" ELSE "full")

\* No pilot: a command of the server, or the gpio client.
TestGpio ==
    /\ UNCHANGED lvars
    /\ SenderGoes("alone",
          IF word = "key_push" \/ (word \in Commands /\ gpio_adresat = None) THEN "act"
                                                                             ELSE "to_gpio")

\* A pilot: key2_down goes to the gpio client unless the pilot wants it too.
\* An empty word goes to nobody.
TestFull ==
    /\ UNCHANGED lvars
    /\ SenderGoes("full",
          CASE pilot_full = 0 /\ gpio_adresat # None /\ word = "key2_down" -> "to_gpio"
            [] word = "" -> "idle"
            [] OTHER -> "to_pilot")

\* The role is read again for the address.
Address ==
    /\ \/ spc = "to_gpio" /\ spc' = "send_gpio" /\ to' = gpio_adresat
       \/ spc = "to_pilot" /\ spc' = "send_pilot" /\ to' = pilot_adresat
    /\ UNCHANGED <<lvars, roles, word, sent>>

\* sendtouser: looked up in the table and sent under the mutex.
DeliverWhen(free, holder) ==
    /\ spc \in {"send_gpio", "send_pilot"} /\ free
    /\ sent' = {c \in Conn : c = to /\ InTable(c)}
    /\ spc' = "idle" /\ to' = None /\ word' = ""
    /\ mutex' = holder
    /\ UNCHANGED <<lines, mode, pc, op, snap, out, roles>>

DeliverUnlocked == DeliverWhen(TRUE, mutex)            \* mutant: the mutex is not taken

DeliverLocked == DeliverWhen(mutex = None, Key)        \* mutant: nor given back

Deliver == DeliverWhen(mutex = None, None)

\* The server acts itself: key_power toggles line 2, the rest are programs.
Act ==
    /\ spc = "act"
    /\ \/ word = "key_power" /\ Toggle /\ SenderGoes("act", "toggling")
       \/ word # "key_power" /\ UNCHANGED lvars /\ SenderGoes("act", "idle")

Toggled == Idle(Key) /\ UNCHANGED lvars /\ SenderGoes("toggling", "idle")

SenderNext == TestPilot \/ TestGpio \/ TestFull \/ Address \/ Deliver \/ Act \/ Toggled

-----------------------------------------------------------------------------
Init ==
    /\ LinesInit
    /\ gpio_adresat = None /\ pilot_adresat = None /\ pilot_full = 0
    /\ spc = "idle" /\ word = "" /\ to = None /\ sent = {}

Request(c) ==
    \/ LoginGpio(c) \/ LoginPilot(c) \/ LoginMonitor(c)
    \/ \E v \in {0, 1} : PilotFull(c, v)
    \/ /\ UNCHANGED <<roles, sender>>
       /\ \/ Accept(c) \/ Ask(c) \/ Hangup(c)
          \/ \E l \in Line, v \in {0, 1} : SetLine(c, l, v)

Progress(t) ==
    \/ /\ UNCHANGED <<roles, sender>>
       /\ \/ LineStep(t)
          \/ t \in Conn /\ (Answer(t) \/ ExitLock(t) \/ ExitRemove(t))
    \/ t \in Conn /\ (ClearRoles(t) \/ Handover(t))

Next == (\E c \in Conn : Request(c)) \/ (\E t \in Threads : Progress(t))
        \/ (\E w \in Words : Take(w)) \/ SenderNext

Spec == Init /\ [][Next]_vars

-----------------------------------------------------------------------------
(* Properties.                                                             *)

\* The types of the variables; what the toggle reads of an empty file is any
\* int, and still a line is only ever set to 0 or 1.
TypeOK ==
    /\ LinesTypeOK
    /\ gpio_adresat \in Conn \cup {None} /\ pilot_adresat \in Conn \cup {None}
    /\ pilot_full \in {0, 1} /\ to \in Conn \cup {None} /\ sent \subseteq Conn

\* A word sent to a role reaches the client that holds the role at that very
\* moment, or nobody: the two reads without the mutex cannot send it to a
\* client that has lost the role, because a role is only lost together with
\* the entry in the table.
KeysReachHolder ==
    [][to # None /\ spc \in {"send_gpio", "send_pilot"} /\ spc' = "idle" =>
         (sent' # {} <=> to = (IF spc = "send_gpio" THEN gpio_adresat ELSE pilot_adresat))]_vars
=============================================================================
