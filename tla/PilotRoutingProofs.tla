-------------------------- MODULE PilotRoutingProofs --------------------------
(***************************************************************************)
(* Proofs about PilotRouting, for any number of connections and lines and  *)
(* any words of the remote control.  What is proved of GpioLines carries   *)
(* over by the refinement.                                                 *)
(***************************************************************************)
EXTENDS PilotRouting, GpioLinesProofs

Leaving == {"handover", "remove", "done"}

\* A role belongs to a client that is in the table and not yet past the point
\* where it gives its roles up; nobody is the pilot while the role is handed
\* over.
RoleInv ==
    /\ \A c \in Conn : c \in {gpio_adresat, pilot_adresat} => pc[c] \notin Leaving \cup {"none"}
    /\ \A c \in Conn : pc[c] = "handover" => pilot_adresat = None

\* The address the sender has read still has the role, or has left.
AddressInv ==
    to # None =>
        /\ spc = "send_gpio"  => to = gpio_adresat  \/ pc[to] \in Leaving
        /\ spc = "send_pilot" => to = pilot_adresat \/ pc[to] \in Leaving

RoleTypes ==
    /\ gpio_adresat \in Conn \cup {None} /\ pilot_adresat \in Conn \cup {None}
    /\ pilot_full \in {0, 1} /\ to \in Conn \cup {None} /\ sent \subseteq Conn

RoutingInv == LinesInv /\ RoleTypes /\ RoleInv /\ AddressInv

-----------------------------------------------------------------------------
(* Every step is a step of GpioLines, or leaves its variables alone.       *)

LEMMA StepIsLinesStep == [Next]_vars => [LinesNext]_lvars
<1> SUFFICES ASSUME [Next]_vars PROVE [LinesNext]_lvars
  OBVIOUS
<1>1. ASSUME NEW c \in Conn, Request(c) PROVE [LinesNext]_lvars
  <2>1. CASE PilotFull(c, 0) \/ PilotFull(c, 1)
    BY <2>1 DEF PilotFull
  <2>2. CASE LoginGpio(c) \/ LoginPilot(c) \/ LoginMonitor(c)
    BY <2>2 DEF LoginGpio, LoginPilot, LoginMonitor, LinesNext, ConnStep, Modes
  <2>3. CASE Accept(c) \/ Ask(c) \/ Hangup(c) \/ \E l \in Line, v \in {0, 1} : SetLine(c, l, v)
    BY <2>3 DEF LinesNext, ConnStep
  <2> QED BY <1>1, <2>1, <2>2, <2>3 DEF Request
<1>2. ASSUME NEW t \in Threads, Progress(t) PROVE [LinesNext]_lvars
  <2>1. CASE LineStep(t)
    BY <2>1 DEF LinesNext
  <2>2. CASE t \in Conn /\ (Answer(t) \/ ExitLock(t) \/ ExitRemove(t) \/ ClearRoles(t) \/ Handover(t))
    BY <2>2 DEF ClearRoles, Handover, LinesNext, ConnStep
  <2> QED BY <1>2, <2>1, <2>2 DEF Progress
<1>3. ASSUME NEW w \in Words, Take(w) PROVE [LinesNext]_lvars
  BY <1>3 DEF Take
<1>4. CASE SenderNext
  BY <1>4 DEF SenderNext, TestPilot, TestGpio, TestFull, Address, Act, Toggled, Deliver,
              DeliverWhen, LinesNext, lvars
<1>5. CASE UNCHANGED vars
  BY <1>5 DEF vars
<1> QED BY <1>1, <1>2, <1>3, <1>4, <1>5 DEF Next

\* The roles and the key sender add nothing to what threads do to lines, files
\* and the mutex: a behaviour of PilotRouting is one of GpioLines.
LEMMA RoutingImplementsLines == Spec => LinesSpec
<1>1. Init => LinesInit
  BY DEF Init
<1> QED BY <1>1, StepIsLinesStep, PTL DEF Spec, LinesSpec

\* So the files of locked lines are true, broadcasts are current and the last
\* gpio client leaves line 1 off, also with roles and the key sender.
THEOREM RoutingKeepsLines == Spec => []FilesTrue /\ SetAnnounced /\ LastGpioLeavesDark
BY RoutingImplementsLines, FilesAreTrue, SetsAreAnnounced, LastGpioDark

\* komunikacja.c:11-27 and 202-332: sendtouser, called by the key sender inside
\* mutex2, gives the mutex back like every section of the connections.
THEOREM RoutingGivesMutexBack == Spec => []MutexHeldInSections
BY RoutingImplementsLines, MutexIsHeldInSections, PTL

-----------------------------------------------------------------------------
(* The roles.                                                              *)

LEMMA RoutingInitInv == Init => RoutingInv
BY LinesInitInv, ThreadFacts
   DEF Init, LinesInit, RoutingInv, RoleTypes, RoleInv, AddressInv, Leaving, None

\* A step that leaves roles and sender alone keeps what is said of them, if it
\* sends nobody to where roles are given up.
LEMMA RolesKept ==
    ASSUME RoutingInv, UNCHANGED <<roles, spc, to>>, sent' \subseteq Conn,
           \A c \in Conn : /\ pc'[c] \in Leaving \cup {"none"} => pc[c] \in Leaving \cup {"none"}
                           /\ pc[c] \in Leaving => pc'[c] \in Leaving
                           /\ pc'[c] = "handover" => pc[c] = "handover"
    PROVE  (RoleTypes /\ RoleInv /\ AddressInv)'
<1>1. RoleTypes'
  BY DEF RoutingInv, RoleTypes, roles
<1>2. RoleInv'
  BY DEF RoutingInv, RoleInv, roles
<1>3. AddressInv'
  BY DEF RoutingInv, RoleTypes, AddressInv, roles
<1> QED BY <1>1, <1>2, <1>3

\* Steps of GpioLines that neither clear roles nor hand them over.
LEMMA LinesKeepRoles ==
    ASSUME RoutingInv, UNCHANGED <<roles, sender>>, NEW t \in Threads,
           \/ LineStep(t)
           \/ t \in Conn /\ (Accept(t) \/ Ask(t) \/ Answer(t) \/ Hangup(t) \/ ExitLock(t)
                            \/ ExitRemove(t) \/ \E m \in Modes \ {0} : Login(t, m))
           \/ t \in Conn /\ \E l \in Line, v \in {0, 1} : SetLine(t, l, v)
    PROVE  (RoleTypes /\ RoleInv /\ AddressInv)'
<1> USE ThreadFacts
<1>1. PICK x : /\ pc' = [pc EXCEPT ![t] = x]
               /\ x \in Leaving \cup {"none"} => pc[t] = "remove" /\ x = "done"
               /\ pc[t] \in Leaving => x \in Leaving
  <2>1. CASE Announce(t)
    <3>1. op[t].next \in {"recv", "leave", "clear", "asked"}
      BY DEF RoutingInv, LinesInv, LinesTypeOK
    <3> QED BY <2>1, <3>1 DEF Announce, AnnounceTo, Goto, Leaving
  <2>2. CASE Gpioset(t) \/ WriteFile(t) \/ ReadLines(t)
    BY <2>2 DEF Gpioset, WriteFile, ReadLines, Goto, Leaving
  <2>3. CASE Accept(t) \/ Ask(t) \/ Answer(t) \/ Hangup(t) \/ ExitRemove(t)
    BY <2>3 DEF Accept, Ask, Answer, Hangup, Idle, ExitRemove, Goto, Leaving
  <2>4. CASE ExitLock(t)
    BY <2>4 DEF ExitLock, ExitLockIf, Goto, Leaving
  <2>5. ASSUME NEW m \in Modes \ {0}, Login(t, m)
        PROVE  /\ pc[t] = "recv" /\ pc' \in {[pc EXCEPT ![t] = "set"], [pc EXCEPT ![t] = "recv"]}
    <3>1. pc = [pc EXCEPT ![t] = pc[t]]
      BY DEF RoutingInv, LinesInv, LinesTypeOK
    <3> QED BY <2>5, <3>1 DEF Login, Idle, Goto
  <2>6. CASE \E l \in Line, v \in {0, 1} : SetLine(t, l, v)
    BY <2>6 DEF SetLine, SetHolding, Idle, Goto, Leaving
  <2> QED BY <2>1, <2>2, <2>3, <2>4, <2>5, <2>6 DEF LineStep, Leaving
<1>2. \A c \in Conn : /\ pc'[c] \in Leaving \cup {"none"} => pc[c] \in Leaving \cup {"none"}
                      /\ pc[c] \in Leaving => pc'[c] \in Leaving
                      /\ pc'[c] = "handover" => pc[c] = "handover"
  BY <1>1 DEF RoutingInv, LinesInv, LinesTypeOK, Leaving
<1> QED BY <1>2, RolesKept DEF sender, RoutingInv, RoleTypes

\* A login takes a free role only, and only outside of a handover.
LEMMA LoginKeepsRoles ==
    ASSUME RoutingInv, NEW c \in Conn, LoginGpio(c) \/ LoginPilot(c)
    PROVE  (RoleTypes /\ RoleInv /\ AddressInv)'
<1> USE ThreadFacts DEF RoutingInv
<1>1. /\ pc[c] = "recv" /\ mutex = None
      /\ \A d \in Conn : pc'[d] = pc[d] \/ (d = c /\ pc'[d] = "set")
      /\ UNCHANGED <<pilot_full, spc, to, sent>>
      /\ \/ UNCHANGED pilot_adresat
            /\ gpio_adresat' = IF gpio_adresat = None THEN c ELSE gpio_adresat
         \/ UNCHANGED gpio_adresat
            /\ pilot_adresat' = IF pilot_adresat = None THEN c ELSE pilot_adresat
  BY DEF LoginGpio, LoginPilot, Login, Idle, Goto, sender, LinesInv, LinesTypeOK
<1>2. \A d \in Conn : pc[d] # "handover"
  BY <1>1 DEF LinesInv, HeldInv, Closing
<1>3. RoleTypes'
  BY <1>1 DEF RoleTypes
<1>4. RoleInv'
  BY <1>1, <1>2 DEF RoleInv, Leaving
<1>5. AddressInv'
  BY <1>1 DEF AddressInv, RoleTypes, Leaving
<1> QED BY <1>3, <1>4, <1>5

\* Who gives a role up is leaving from then on.
LEMMA ClearKeepsRoles ==
    ASSUME RoutingInv, NEW c \in Conn, ClearRoles(c)
    PROVE  (RoleTypes /\ RoleInv /\ AddressInv)'
<1> USE ThreadFacts DEF RoutingInv
<1>1. PICK x \in {"handover", "remove"} :
        /\ pc[c] = "clear" /\ pc' = [pc EXCEPT ![c] = x]
        /\ UNCHANGED <<spc, to, sent>>
        /\ gpio_adresat' = IF gpio_adresat = c THEN None ELSE gpio_adresat
        /\ pilot_adresat' = IF pilot_adresat = c THEN None ELSE pilot_adresat
        /\ pilot_full' \in {0, pilot_full}
        /\ x = "handover" <=> pilot_adresat = c
  BY DEF ClearRoles, ExitClear, Goto, sender
<1>2. RoleTypes'
  BY <1>1 DEF RoleTypes
<1>3. RoleInv'
  BY <1>1 DEF RoleInv, RoleTypes, Leaving, LinesInv, LinesTypeOK
<1>4. AddressInv'
  BY <1>1 DEF AddressInv, RoleTypes, Leaving, LinesInv, LinesTypeOK
<1> QED BY <1>2, <1>3, <1>4

\* The heir is in the table, and not leaving, for only one thread leaves at a
\* time.
LEMMA HandoverKeepsRoles ==
    ASSUME RoutingInv, NEW c \in Conn, Handover(c)
    PROVE  (RoleTypes /\ RoleInv /\ AddressInv)'
<1> USE ThreadFacts DEF RoutingInv
<1>1. /\ pc[c] = "handover" /\ pc' = [pc EXCEPT ![c] = "remove"]
      /\ UNCHANGED <<gpio_adresat, pilot_full, spc, to, sent>>
  BY DEF Handover, ExitHandover, Goto, sender
<1>2. pilot_adresat' \in Heirs(c) \cup {None}
  BY DEF Handover
<1>3. \A d \in Heirs(c) : d \in Conn /\ d # c /\ pc[d] \notin Leaving \cup {"none"}
  BY <1>1 DEF Heirs, InTable, Leaving, LinesInv, HeldInv, Closing
<1>4. pilot_adresat = None
  BY <1>1 DEF RoleInv
<1>5. RoleTypes'
  BY <1>1, <1>2, <1>3 DEF RoleTypes
<1>6. RoleInv'
  BY <1>1, <1>2, <1>3 DEF RoleInv, RoleTypes, Leaving, LinesInv, LinesTypeOK, HeldInv, Closing
<1>7. AddressInv'
  BY <1>1, <1>4 DEF AddressInv, RoleTypes, Leaving, LinesInv, LinesTypeOK
<1> QED BY <1>5, <1>6, <1>7

\* The sender reads an address or forgets it.
LEMMA SenderKeepsRoles ==
    ASSUME RoutingInv,
           \/ SenderNext \/ \E w \in Words : Take(w)
           \/ \E c \in Conn, v \in {0, 1} : PilotFull(c, v)
    PROVE  (RoleTypes /\ RoleInv /\ AddressInv)'
<1> USE ThreadFacts DEF RoutingInv
<1>1. CASE TestPilot \/ TestGpio \/ TestFull \/ Act \/ Toggled \/ \E w \in Words : Take(w)
  <2>1. UNCHANGED <<roles, to>> /\ sent' = {} /\ spc \notin {"send_gpio", "send_pilot"}
        /\ spc' \notin {"send_gpio", "send_pilot"}
    BY <1>1 DEF TestPilot, TestGpio, TestFull, Act, Toggled, Take, SenderGoes
  <2>2. \A c \in Conn : pc'[c] = pc[c]
    BY <1>1 DEF TestPilot, TestGpio, TestFull, Act, Toggled, Take, Toggle, ToggleTo, Goto, lvars,
                LinesInv, LinesTypeOK
  <2> QED BY <2>1, <2>2 DEF RoleTypes, RoleInv, AddressInv, roles
<1>2. CASE Address
  BY <1>2 DEF Address, lvars, roles, RoleTypes, RoleInv, AddressInv, Leaving
<1>3. CASE Deliver
  BY <1>3 DEF Deliver, DeliverWhen, roles, RoleTypes, RoleInv, AddressInv
<1>4. ASSUME NEW c \in Conn, NEW v \in {0, 1}, PilotFull(c, v)
      PROVE  (RoleTypes /\ RoleInv /\ AddressInv)'
  BY <1>4 DEF PilotFull, lvars, sender, RoleTypes, RoleInv, AddressInv
<1> QED BY <1>1, <1>2, <1>3, <1>4 DEF SenderNext

LEMMA RoutingStepInv == RoutingInv /\ [Next]_vars => RoutingInv'
<1> SUFFICES ASSUME RoutingInv, [Next]_vars PROVE RoutingInv'
  OBVIOUS
<1> USE ThreadFacts
<1>1. LinesInv'
  BY StepIsLinesStep, LinesStepInv DEF RoutingInv
<1>2. ASSUME NEW c \in Conn, Request(c) PROVE (RoleTypes /\ RoleInv /\ AddressInv)'
  <2>1. CASE LoginGpio(c) \/ LoginPilot(c)
    BY <2>1, LoginKeepsRoles
  <2>2. CASE \E v \in {0, 1} : PilotFull(c, v)
    BY <2>2, SenderKeepsRoles
  <2>3. CASE LoginMonitor(c)
    BY <2>3, LinesKeepRoles DEF LoginMonitor, Modes
  <2>4. CASE UNCHANGED <<roles, sender>> /\ (Accept(c) \/ Ask(c) \/ Hangup(c))
    BY <2>4, LinesKeepRoles
  <2>5. ASSUME UNCHANGED <<roles, sender>>, NEW l \in Line, NEW v \in {0, 1}, SetLine(c, l, v)
        PROVE  (RoleTypes /\ RoleInv /\ AddressInv)'
    <3>1. \E k \in Line, w \in {0, 1} : SetLine(c, k, w)
      BY <2>5
    <3>2. c \in Threads /\ RoutingInv
      OBVIOUS
    <3> QED BY <2>5, <3>1, <3>2, LinesKeepRoles, Zenon
  <2> QED BY <1>2, <2>1, <2>2, <2>3, <2>4, <2>5 DEF Request
<1>3. ASSUME NEW t \in Threads, Progress(t) PROVE (RoleTypes /\ RoleInv /\ AddressInv)'
  BY <1>3, LinesKeepRoles, ClearKeepsRoles, HandoverKeepsRoles DEF Progress
<1>4. CASE SenderNext
  BY <1>1, <1>4, SenderKeepsRoles DEF RoutingInv
<1>5. CASE \E w \in Words : Take(w)
  BY <1>1, <1>5, SenderKeepsRoles DEF RoutingInv
<1>6. CASE UNCHANGED vars
  BY <1>1, <1>6, RolesKept DEF vars, lvars, sender, RoutingInv, RoleTypes
<1> QED BY <1>1, <1>2, <1>3, <1>4, <1>5, <1>6 DEF Next, RoutingInv

LEMMA RoutingAlways == Spec => []RoutingInv
BY RoutingInitInv, RoutingStepInv, PTL DEF Spec

\* Lines are only ever set to 0 and 1, and the roles and the address are
\* connections or nobody.
THEOREM RoutingTypeCorrect == Spec => []TypeOK
<1>1. RoutingInv => TypeOK
  BY DEF RoutingInv, LinesInv, RoleTypes, TypeOK
<1> QED BY <1>1, RoutingAlways, PTL

\* komunikacja.c:217-330: a key is sent to the client that holds the role at
\* that moment or to nobody, although the role is read without the mutex.
THEOREM KeysGoToHolder == Spec => KeysReachHolder
<1> DEFINE Goes ==
      to # None /\ spc \in {"send_gpio", "send_pilot"} /\ spc' = "idle" =>
        (sent' # {} <=> to = (IF spc = "send_gpio" THEN gpio_adresat ELSE pilot_adresat))
<1>1. RoutingInv /\ [Next]_vars => [Goes]_vars
  <2> SUFFICES ASSUME RoutingInv, Next, to # None, spc \in {"send_gpio", "send_pilot"},
                      spc' = "idle"
               PROVE  sent' # {} <=>
                        to = (IF spc = "send_gpio" THEN gpio_adresat ELSE pilot_adresat)
    OBVIOUS
  <2> DEFINE holder == IF spc = "send_gpio" THEN gpio_adresat ELSE pilot_adresat
  <2>1. Deliver
    BY DEF Next, Request, Progress, LoginGpio, LoginPilot, LoginMonitor, PilotFull, ClearRoles,
           Handover, sender, Take, SenderNext, TestPilot, TestGpio, TestFull, Address, Act,
           Toggled, SenderGoes
  <2>2. to \in Conn /\ mutex = None /\ sent' = {c \in Conn : c = to /\ InTable(c)}
    BY <2>1 DEF Deliver, DeliverWhen, RoutingInv, RoleTypes
  <2>3. to = holder \/ pc[to] \in Leaving
    BY DEF RoutingInv, AddressInv
  <2>4. to = holder => pc[to] \notin Leaving \cup {"none"}
    BY <2>2 DEF RoutingInv, RoleInv
  <2>5. pc[to] \in Leaving => pc[to] = "done"
    BY <2>2, ThreadFacts DEF RoutingInv, LinesInv, HeldInv, Closing, Leaving
  <2> QED BY <2>2, <2>3, <2>4, <2>5 DEF InTable, Leaving
<1>2. Spec => [][Goes]_vars
  BY <1>1, RoutingAlways, PTL DEF Spec
<1> QED BY <1>2 DEF KeysReachHolder
=============================================================================
