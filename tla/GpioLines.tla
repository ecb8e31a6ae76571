------------------------------ MODULE GpioLines ------------------------------
(***************************************************************************)
(* The GPIO lines of the server.  A line cannot be read back, so set_GPIO  *)
(* writes what it has set to a value file, and every answer and every      *)
(* status snapshot comes from these files.  A set is two visible steps:    *)
(* gpioset and the fopen that empties the file, then the write.  A         *)
(* snapshot reads the files and is sent later.  Most of this happens under *)
(* `mutex`, but not all: the set of AUTO_ON_OFF at a login, the toggling   *)
(* by the remote control and its snapshot, and the snapshot of `status`    *)
(* do not hold it.                                                         *)
(*                                                                         *)
(* Threads are those of the connections, 1..MaxConn, and Key, the thread   *)
(* that sends the keys of the remote control.  A connection is its socket: *)
(* sockets are never closed, so a number is never used again.  The ninth   *)
(* digit of a snapshot, the laptop, is left out.                           *)
(***************************************************************************)
EXTENDS Integers, Sequences, FiniteSets

CONSTANTS MaxConn,   \* connections over the life of the process
          NLines,    \* GPIO lines, GPIO_NR_1 and following; 8 in the code
          Reverse    \* REVERSE: the relay is on at level 0

ASSUME LinesAssumption == MaxConn \in Nat \ {0} /\ NLines \in Nat \ {0, 1}
                          /\ Reverse \in BOOLEAN

VARIABLES auto,      \* AUTO_ON_OFF_BY_LOGIN, read once
          line,      \* level of each line
          file,      \* content of each value file
          mode,      \* tryb of each connection
          mutex,     \* holder of mutex between two steps, or None
          pc,        \* where each thread is
          op,        \* each thread's set: line, value, where it goes then
          snap,      \* each thread's snapshot, a value per line
          out        \* messages sent by the last step

lines == <<auto, line, file>>
lvars == <<lines, mode, mutex, pc, op, snap, out>>

None    == -1
Key     == 0
Conn    == 1..MaxConn
Threads == 0..MaxConn
Line    == 1..NLines
Modes   == {0, 1, 2, 4}       \* no login, gpio client, pilot, monitor

Absent == -2
Empty  == -1
Junk   == 2                   \* stands for every int that is neither 0 nor 1

NoOp   == [line |-> 1, val |-> 0, next |-> "recv"]
NoSnap == [l \in Line |-> 0]

Idle(t) == pc[t] = "recv"

\* The entry of a client leaves the table with the step "remove".
InTable(c) == pc[c] \notin {"none", "done"}

Goto(t, l) == pc' = [pc EXCEPT ![t] = l]

-----------------------------------------------------------------------------
(* The operations of komunikacja.c.                                        *)

\* get_VALUE: no file is 0, an empty one leaves the local uninitialized.
Readable(f) == CASE f = Absent -> {0}
                 [] f = Empty  -> {0, 1, Junk}
                 [] OTHER      -> {f}

Snapshots == {s \in [Line -> {0, 1, Junk}] : \A l \in Line : s[l] \in Readable(file[l])}

Level(v) == IF Reverse THEN 1 - v ELSE v

\* set_GPIO.
Gpioset(t) ==
    /\ pc[t] = "set"
    /\ line' = [line EXCEPT ![op[t].line] = Level(op[t].val)]
    /\ file' = [file EXCEPT ![op[t].line] = Empty]
    /\ Goto(t, "write")
    /\ out' = {}
    /\ UNCHANGED <<auto, mode, mutex, op, snap>>

WriteFile(t) ==
    /\ pc[t] = "write"
    /\ file' = [file EXCEPT ![op[t].line] = op[t].val]
    /\ Goto(t, "read")
    /\ out' = {}
    /\ UNCHANGED <<auto, line, mode, mutex, op, snap>>

\* The snapshot is read: by a connection that has set a line with the mutex
\* held, which AUTO_ON_OFF takes now; by the others without it.
ReadLines(t) ==
    /\ pc[t] = "read"
    /\ IF t = Key \/ op[t].next = "asked" THEN UNCHANGED mutex
       ELSE mutex \in {None, t} /\ mutex' = t
    /\ \E s \in Snapshots : snap' = [snap EXCEPT ![t] = s]
    /\ Goto(t, "send")
    /\ out' = {}
    /\ UNCHANGED <<lines, mode, op>>

\* sendmessage_status_gpio_all: clients of modes 1 and 4 but the sender.
Watchers(t) == {c \in Conn \ {t} : InTable(c) /\ mode[c] \in {1, 4}}

Snapshot(c, s) == [to |-> c, what |-> "gpio_status", vals |-> s]

\* The snapshot goes out.  Who holds the mutex gives it back, unless the
\* section goes on; who does not waits for it.
AnnounceTo(t, audience) ==
    /\ pc[t] = "send" /\ mutex \in {None, t}
    /\ out' = {Snapshot(c, snap[t]) : c \in audience}
    /\ mutex' = IF op[t].next = "clear" THEN t ELSE None
    /\ snap' = [snap EXCEPT ![t] = NoSnap]
    /\ op' = [op EXCEPT ![t] = NoOp]
    /\ Goto(t, op[t].next)
    /\ UNCHANGED <<lines, mode>>

AnnounceMonitors(t) ==                                 \* mutant: as the comment says
    pc[t] = "send" /\ op[t].next # "asked"
    /\ AnnounceTo(t, {c \in Watchers(t) : mode[c] = 4})

Announce(t) == pc[t] = "send" /\ op[t].next # "asked" /\ AnnounceTo(t, Watchers(t))

-----------------------------------------------------------------------------
(* The connections.                                                        *)

Accept(c) ==
    /\ pc[c] = "none" /\ (c > 1 => pc[c - 1] # "none") /\ mutex = None
    /\ Goto(c, "recv")
    /\ out' = {}
    /\ UNCHANGED <<lines, mode, mutex, op, snap>>

Login(c, m) ==
    /\ Idle(c) /\ mutex = None
    /\ mode' = [mode EXCEPT ![c] = m]
    /\ IF m = 1 /\ auto THEN op' = [op EXCEPT ![c].val = 1] /\ Goto(c, "set")
                        ELSE UNCHANGED <<op, pc>>
    /\ out' = {}
    /\ UNCHANGED <<lines, mutex, snap>>

\* gpio=, gpioN= and set=N=: who may set which line.
MaySet(c, l) == \/ l = 1 /\ mode[c] \in {0, 1}
                \/ l > 1 /\ mode[c] \in {0, 1, 2}
                \/ mode[c] = 4

SetHolding(c, l, v, holder) ==
    /\ Idle(c) /\ mutex = None /\ MaySet(c, l)
    /\ mutex' = holder
    /\ op' = [op EXCEPT ![c] = [line |-> l, val |-> v,
                                next |-> IF mode[c] = 0 THEN "leave" ELSE "recv"]]
    /\ Goto(c, "set")
    /\ out' = {}
    /\ UNCHANGED <<lines, mode, snap>>

SetUnlocked(c, l, v) == SetHolding(c, l, v, None)      \* mutant: no mutex around the set

\* The answer gpio=1 to the client itself is left out.
SetLine(c, l, v) == SetHolding(c, l, v, c)

\* status of a monitor: a snapshot without the mutex, for the asker.
Ask(c) ==
    /\ Idle(c) /\ mode[c] = 4
    /\ op' = [op EXCEPT ![c].next = "asked"]
    /\ Goto(c, "read")
    /\ out' = {}
    /\ UNCHANGED <<lines, mode, mutex, snap>>

Answer(c) ==
    /\ pc[c] = "send" /\ op[c].next = "asked" /\ mutex = None
    /\ out' = {Snapshot(c, snap[c])}
    /\ snap' = [snap EXCEPT ![c] = NoSnap]
    /\ op' = [op EXCEPT ![c] = NoOp]
    /\ Goto(c, "recv")
    /\ UNCHANGED <<lines, mode, mutex>>

Hangup(c) ==
    /\ Idle(c)
    /\ Goto(c, "leave")
    /\ out' = {}
    /\ UNCHANGED <<lines, mode, mutex, op, snap>>

\* The end of recvmg, all of it under the mutex: with AUTO_ON_OFF a gpio
\* client switches line 1 off and tells the others.
ExitLockIf(c, off) ==
    /\ pc[c] = "leave" /\ mutex = None
    /\ mutex' = c
    /\ op' = [op EXCEPT ![c].next = IF off THEN "clear" ELSE "recv"]
    /\ Goto(c, IF off THEN "set" ELSE "clear")
    /\ out' = {}
    /\ UNCHANGED <<lines, mode, snap>>

\* mutant: off only if another gpio client stays
ExitLockOthers(c) == ExitLockIf(c, mode[c] = 1 /\ auto /\ Watchers(c) # {})

ExitLock(c) == ExitLockIf(c, mode[c] = 1 /\ auto)

\* The roles are cleared and handed over; the entry leaves the table.
ExitClear(c, l) ==
    /\ pc[c] = "clear"
    /\ Goto(c, l)
    /\ out' = {}
    /\ UNCHANGED <<lines, mode, mutex, op, snap>>

ExitHandover(c) ==
    /\ pc[c] = "handover"
    /\ Goto(c, "remove")
    /\ out' = {}
    /\ UNCHANGED <<lines, mode, mutex, op, snap>>

ExitRemove(c) ==
    /\ pc[c] = "remove"
    /\ mutex' = None
    /\ mode' = [mode EXCEPT ![c] = 0]
    /\ Goto(c, "done")
    /\ out' = {}
    /\ UNCHANGED <<lines, op, snap>>

\* The remote control toggles line 2: read, then set, without the mutex.
ToggleTo(flip) ==
    /\ Idle(Key)
    /\ \E v \in Readable(file[2]) :
          op' = [op EXCEPT ![Key] = [line |-> 2, val |-> flip[v], next |-> "recv"]]
    /\ Goto(Key, "set")
    /\ out' = {}
    /\ UNCHANGED <<lines, mode, mutex, snap>>

ToggleMinus == ToggleTo([v \in {0, 1, Junk} |-> 1 - v])   \* mutant: 1 - v of any int

Toggle == ToggleTo([v \in {0, 1, Junk} |-> IF v = 0 THEN 1 ELSE 0])

-----------------------------------------------------------------------------
LinesInit ==
    /\ auto \in BOOLEAN
    /\ line = [l \in Line |-> 0] /\ file = [l \in Line |-> Absent]
    /\ mode = [c \in Conn |-> 0] /\ mutex = None
    /\ pc = [t \in Threads |-> IF t = Key THEN "recv" ELSE "none"]
    /\ op = [t \in Threads |-> NoOp] /\ snap = [t \in Threads |-> NoSnap]
    /\ out = {}

LineStep(t) == Gpioset(t) \/ WriteFile(t) \/ ReadLines(t) \/ Announce(t)

ConnStep(c) ==
    \/ Accept(c) \/ Ask(c) \/ Answer(c) \/ Hangup(c)
    \/ \E m \in Modes \ {0} : Login(c, m)
    \/ \E l \in Line, v \in {0, 1} : SetLine(c, l, v)
    \/ ExitLock(c) \/ ExitHandover(c) \/ ExitRemove(c)
    \/ \E l \in {"handover", "remove"} : ExitClear(c, l)

LinesNext == Toggle \/ (\E t \in Threads : LineStep(t)) \/ (\E c \in Conn : ConnStep(c))

LinesSpec == LinesInit /\ [][LinesNext]_lvars

-----------------------------------------------------------------------------
(* Properties.                                                             *)

LinesTypeOK ==
    /\ auto \in BOOLEAN /\ line \in [Line -> {0, 1}]
    /\ file \in [Line -> {Absent, Empty, 0, 1}]
    /\ mode \in [Conn -> Modes]
    /\ mutex \in Conn \cup {None}
    /\ op \in [Threads -> [line : Line, val : {0, 1},
                           next : {"recv", "leave", "clear", "asked"}]]
    /\ pc \in [Threads -> {"none", "recv", "set", "write", "read", "send",
                           "leave", "clear", "handover", "remove", "done"}]
    /\ snap \in [Threads -> [Line -> {0, 1, Junk}]]

\* Lines that are only ever set with the mutex held.
Locked == {l \in Line : l # 2 /\ (l = 1 => ~auto)}

\* README.md:12: what is set is written to a file at the same time and the
\* file is read in its place.  True between two critical sections, for the
\* lines no thread sets outside of one.
FilesTrue ==
    mutex = None => \A l \in Locked : \/ file[l] = Absent
                                      \/ file[l] # Empty /\ line[l] = Level(file[l])

\* A thread that broadcasts with the mutex held tells every gpio client and
\* monitor in the table, but itself, how the locked lines are at that moment.
SetAnnounced ==
    [][\A t \in Conn : pc[t] = "send" /\ pc'[t] # "send" /\ mutex = t =>
         \A c \in Conn \ {t} : InTable(c) /\ mode[c] \in {1, 4} =>
            \E m \in out' : /\ m.to = c
                            /\ \A l \in Locked : file[l] # Absent => m.vals[l] = file[l]]_lvars

\* The holder of the mutex is always on its way to giving it back: between two
\* steps nobody keeps it while waiting for its client or for a key, after its
\* end, or, as the key sender, inside mutex2; and no departure clears roles or
\* takes its entry out without it.
MutexHeldInSections ==
    /\ mutex # None => mutex \in Conn /\ pc[mutex] \in {"set", "write", "read", "send",
                                                       "clear", "handover", "remove"}
    /\ \A c \in Conn : pc[c] \in {"clear", "handover", "remove"} => mutex = c

\* gpio.server:12-13: with AUTO_ON_OFF the line goes off when the gpio client
\* disconnects.  When the last of them is gone it is off, and the file says
\* so, whatever logins and commands ran meanwhile.
LastGpioLeavesDark ==
    [][\A c \in Conn :
         /\ auto /\ mode[c] = 1 /\ pc[c] = "remove" /\ pc'[c] = "done"
         /\ \A d \in Conn \ {c} : InTable(d) => mode[d] # 1
         => file[1] = 0 /\ line[1] = Level(0)]_lvars
=============================================================================
