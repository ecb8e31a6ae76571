---------------------------- MODULE ClientTable ----------------------------
(***************************************************************************)
(* The connection side of the GPIO server: the accept loop of main, one    *)
(* thread recvmg per connection, the table of logged-in clients they share *)
(* under `mutex`, and the two role holders gpio_adresat and pilot_adresat. *)
(*                                                                         *)
(* Connection c is the c-th socket accept returns and the thread created   *)
(* for it.  The server calls shutdown() on a socket but never close(), so  *)
(* a descriptor is never handed out twice and MaxConn is the number of     *)
(* connections the process can accept before accept fails.  The arrays are *)
(* as long as MaxConn; in the code they hold CONST_MAX_CLIENTS = 100, and  *)
(* nothing refuses a client beyond that, so the model is the code's up to  *)
(* MaxConn = 100.                                                          *)
(*                                                                         *)
(* A critical section is one action where nothing inside it can be seen    *)
(* from outside the mutex; the section at the end of recvmg is cut where   *)
(* the remote-control thread, which reads the roles without the mutex,     *)
(* can look in.  What a GPIO command does to the lines is not in this      *)
(* module: here it is only the messages the command makes the server send. *)
(***************************************************************************)
EXTENDS Integers, FiniteSets

CONSTANTS MaxConn,     \* connections accepted before descriptors run out
          Requests,    \* the messages the clients of this instance send
          AutoOnOff    \* AUTO_ON_OFF_BY_LOGIN

ASSUME ConstAssumption == MaxConn \in Nat \ {0} /\ AutoOnOff \in BOOLEAN

VARIABLES up,              \* the process runs
          accepted,        \* connections accepted so far
          cl,              \* main's client_info, passed by address to threads
          slots,           \* clients[], tabs[], shutdown_now[]
          n,               \* entries of the table in use
          mutex,           \* holder of mutex, or None
          pc,              \* where each connection thread is
          sock,            \* each thread's copy of cl.sockno
          tryb,            \* each thread's local mode
          id,              \* each thread's local index into the table, 0 if none
          job,             \* each thread's loop index, addressee and text
          gpio_adresat,    \* client that receives remote-control keys, or None
          pilot_adresat,   \* active pilot client, or None
          pilot_full,      \* pilot takes key2_down as well
          out              \* messages sent by the last step

net   == <<up, accepted, cl>>
table == <<slots, n>>
local == <<sock, tryb, id, job>>
roles == <<gpio_adresat, pilot_adresat, pilot_full>>
vars  == <<net, table, mutex, pc, local, roles, out>>

None  == -1
Conn  == 1..MaxConn
Modes == 0..4        \* 1 gpio client, 2 pilot, 3 laptop, 4 monitor, 0 no login
Texts == {"laptop=shutdown", "laptop=restart", "laptop=login", "laptop=logout",
          "laptop=shutdowning", "laptop=not_shutdown"}
Serving == {"recv", "auto", "status", "scan", "scanread", "scansend", "forward"}
Labels  == Serving \cup {"none", "start", "join", "leave",
                        "clear", "handover", "remove", "done"}

(* The modes in which a request reaches the branch written for it; in any  *)
(* other mode the if/else chain of recvmg takes it into a branch that does *)
(* nothing with it.  The chain tests modes 0, 1 and 2 before it reaches    *)
(* the laptop commands of mode 1 and modes 0 to 4 before the pilot block.  *)
Effective == [gpio_set        |-> {0, 1},
              gpioN_set       |-> {0, 1, 2},
              monitor_set     |-> {4},
              query           |-> {0, 1, 2, 4},
              laptop_status   |-> {4},
              laptop_shutdown |-> {4},
              laptop_restart  |-> {4},
              pilot_active    |-> {}]

EmptySlot == [sock |-> None, tab |-> 0, sd |-> None]
NoJob     == [i |-> 1, to |-> None, msg |-> "laptop=shutdown"]

-----------------------------------------------------------------------------
(* Lookups and sends: sendtouser looks the addressee up in the table, the  *)
(* broadcasts go to the entries of some modes except the sender.           *)

Registered(s) == \E i \in 1..n : slots[i].sock = s

IdSock(s) == IF Registered(s) THEN CHOOSE i \in 1..n : slots[i].sock = s ELSE 0

ToUser(s, m) == IF Registered(s) THEN {<<s, m>>} ELSE {}

ToModes(M, m, from) ==
    {<<slots[i].sock, m>> : i \in {k \in 1..n : /\ slots[k].tab \in M
                                                /\ slots[k].sock # from}}

GetLaptopLogin == \E i \in 1..n : slots[i].tab = 3

GpioStatusAll(from) == ToModes({1, 4}, "gpio_status", from)

Goto(c, l) == pc' = [pc EXCEPT ![c] = l]

-----------------------------------------------------------------------------
(* main: accept, then under the mutex fill cl and the next slot and create *)
(* the thread, which gets the address of cl.                               *)

AcceptAs(k) ==
    /\ up /\ mutex = None /\ accepted < MaxConn
    /\ accepted' = accepted + 1
    /\ cl' = accepted'
    /\ n' = k
    /\ slots' = [slots EXCEPT ![n + 1] = [EmptySlot EXCEPT !.sock = accepted']]
    /\ Goto(accepted', "start")
    /\ out' = {}
    /\ UNCHANGED <<up, mutex, local, roles>>

AcceptUncounted == AcceptAs(n)                         \* mutant: n++ forgotten

Accept == AcceptAs(n + 1)

\* A failing accept (no descriptor left, an aborted connection) ends the
\* process.  So does SIGTERM, at any time, without a look at the threads.
AcceptFails ==
    /\ up
    /\ up' = FALSE
    /\ out' = {}
    /\ UNCHANGED <<accepted, cl, table, mutex, pc, local, roles>>

(* recvmg starts: the copy of *sock is made before the mutex is taken.     *)
ThreadStart(c) ==
    /\ up /\ pc[c] = "start"
    /\ sock' = [sock EXCEPT ![c] = cl]
    /\ Goto(c, "join")
    /\ out' = {}
    /\ UNCHANGED <<net, table, mutex, tryb, id, job, roles>>

\* A socket that is no longer in the table makes this read tabs[-1]: any mode.
Join(c) ==
    /\ up /\ pc[c] = "join" /\ mutex = None
    /\ id' = [id EXCEPT ![c] = IdSock(sock[c])]
    /\ \E m \in Modes : /\ id'[c] # 0 => m = slots[id'[c]].tab
                        /\ tryb' = [tryb EXCEPT ![c] = m]
    /\ Goto(c, "recv")
    /\ out' = {}
    /\ UNCHANGED <<net, table, mutex, sock, job, roles>>

-----------------------------------------------------------------------------
(* Requests.                                                               *)

Receives(c, r) == up /\ pc[c] = "recv" /\ r \in Requests

\* recv returns 0 or an error: the loop ends.
Hangup(c) ==
    /\ up /\ pc[c] = "recv"
    /\ Goto(c, "leave")
    /\ out' = {}
    /\ UNCHANGED <<net, table, mutex, local, roles>>

Exit(c) ==
    /\ Receives(c, "exit")
    /\ out' = ToUser(sock[c], "server=terminated")
    /\ Goto(c, "leave")
    /\ UNCHANGED <<net, table, mutex, local, roles>>

(* The part all logins share: id is looked up again, the mode is stored in *)
(* the thread and in the table.  A socket that left the table meanwhile    *)
(* makes this write tabs[-1], outside the table.                           *)
LoginStale(c, mode) ==                                 \* mutant: id of the last login
    /\ mutex = None
    /\ tryb' = [tryb EXCEPT ![c] = mode]
    /\ slots' = [i \in Conn |-> IF i = id[c] THEN [slots[i] EXCEPT !.tab = mode]
                                             ELSE slots[i]]
    /\ UNCHANGED <<net, n, mutex, sock, id, job>>

LoginAs(c, mode) ==
    /\ mutex = None
    /\ id' = [id EXCEPT ![c] = IdSock(sock[c])]
    /\ tryb' = [tryb EXCEPT ![c] = mode]
    /\ slots' = [i \in Conn |-> IF i = id'[c] THEN [slots[i] EXCEPT !.tab = mode]
                                              ELSE slots[i]]
    /\ UNCHANGED <<net, n, mutex, sock, job>>

LoginGpio(c) ==
    /\ Receives(c, "tryb=gpio")
    /\ LoginAs(c, 1)
    /\ gpio_adresat' = IF gpio_adresat = None THEN sock[c] ELSE gpio_adresat
    /\ Goto(c, IF AutoOnOff THEN "auto" ELSE "recv")
    /\ out' = {}
    /\ UNCHANGED <<pilot_adresat, pilot_full>>

\* AUTO_ON_OFF, second half of the login; set_GPIO comes before the mutex.
AutoOn(c) ==
    /\ up /\ pc[c] = "auto" /\ mutex = None
    /\ out' = {<<sock[c], "gpio=1">>} \cup GpioStatusAll(sock[c])
    /\ Goto(c, "recv")
    /\ UNCHANGED <<net, table, mutex, local, roles>>

LoginPilotTakes(c) ==                                  \* mutant: always takes over
    /\ Receives(c, "tryb=pilot")
    /\ LoginAs(c, 2)
    /\ pilot_adresat' = sock[c]
    /\ out' = ToUser(sock[c], "pilot=active")
    /\ UNCHANGED <<pc, gpio_adresat, pilot_full>>

LoginPilot(c) ==
    /\ Receives(c, "tryb=pilot")
    /\ LoginAs(c, 2)
    /\ \/ /\ pilot_adresat = None
          /\ pilot_adresat' = sock[c]
          /\ out' = ToUser(sock[c], "pilot=active")
       \/ /\ pilot_adresat # None
          /\ pilot_adresat' = pilot_adresat
          /\ out' = ToUser(sock[c], "tryb=pilot")
    /\ UNCHANGED <<pc, gpio_adresat, pilot_full>>

LoginLaptop(c) ==
    /\ Receives(c, "tryb=laptop")
    /\ LoginAs(c, 3)
    /\ out' = ToUser(sock[c], "laptop=active")
                \cup ToModes({1, 4}, "laptop=login", sock[c])
    /\ UNCHANGED <<pc, roles>>

LoginMonitor(c) ==
    /\ Receives(c, "tryb=gpio_monitor")
    /\ LoginAs(c, 4)
    /\ out' = ToUser(sock[c], "monitor_gpio=active")
    /\ UNCHANGED <<pc, roles>>

\* pilot_full is written without the mutex.
PilotFull(c, v) ==
    /\ Receives(c, IF v = 1 THEN "tryb=pilot_full_1" ELSE "tryb=pilot_full_0")
    /\ pilot_full' = v
    /\ out' = {}
    /\ UNCHANGED <<net, table, mutex, pc, local, gpio_adresat, pilot_adresat>>

(* A client that never logged in is served one request and then let go.    *)
Reply(c, sends) ==
    /\ out' = sends \cup (IF tryb[c] = 0 THEN ToUser(sock[c], "server=terminated")
                                         ELSE {})
    /\ Goto(c, IF tryb[c] = 0 THEN "leave" ELSE "recv")
    /\ UNCHANGED <<net, table, mutex, local, roles>>

GpioSet(c, r) ==
    /\ r \in {"gpio_set", "gpioN_set", "monitor_set"}
    /\ Receives(c, r) /\ tryb[c] \in Effective[r]
    /\ mutex = None
    /\ Reply(c, {<<sock[c], "gpio=">>} \cup GpioStatusAll(sock[c]))

\* gpio=status, and in mode 4 status, getworkday, statusday, getcalendar,
\* laptop=start: one answer to the asker.
Query(c) ==
    /\ Receives(c, "query") /\ tryb[c] \in Effective["query"]
    /\ mutex = None
    /\ Reply(c, {<<sock[c], "answer">>})

(* laptop=status of mode 4: the table is searched for a laptop, then the   *)
(* clients of mode 1 are told, both without the mutex.                     *)
StatusRead(c) ==
    /\ Receives(c, "laptop_status") /\ tryb[c] \in Effective["laptop_status"]
    /\ job' = [job EXCEPT ![c].msg = IF GetLaptopLogin THEN "laptop=login"
                                                      ELSE "laptop=logout"]
    /\ Goto(c, "status")
    /\ out' = {}
    /\ UNCHANGED <<net, table, mutex, sock, tryb, id, roles>>

StatusSend(c) ==
    /\ up /\ pc[c] = "status"
    /\ out' = ToModes({1}, job[c].msg, None)
    /\ job' = [job EXCEPT ![c] = NoJob]
    /\ Goto(c, "recv")
    /\ UNCHANGED <<net, table, mutex, sock, tryb, id, roles>>

\* A request that ends in a branch not written for it.  In mode 3 that is the
\* forwarding of n_laptop.c, to a number that is no client's socket.
Ignored(c, r) ==
    /\ r \in DOMAIN Effective
    /\ Receives(c, r) /\ tryb[c] \notin Effective[r]
    /\ Reply(c, {})

-----------------------------------------------------------------------------
(* laptop=shutdown and laptop=restart of mode 4: the table is walked       *)
(* without the mutex, which is taken only around each send; tabs[i] and    *)
(* clients[i] are two reads.                                               *)

ScanStart(c, r) ==
    /\ r \in {"laptop_shutdown", "laptop_restart"}
    /\ Receives(c, r) /\ tryb[c] \in Effective[r]
    /\ job' = [job EXCEPT ![c] =
                 [NoJob EXCEPT !.msg = IF r = "laptop_shutdown" THEN "laptop=shutdown"
                                                                ELSE "laptop=restart"]]
    /\ Goto(c, "scan")
    /\ out' = {}
    /\ UNCHANGED <<net, table, mutex, sock, tryb, id, roles>>

ScanTest(c) ==
    /\ up /\ pc[c] = "scan"
    /\ \/ /\ job[c].i > n
          /\ job' = [job EXCEPT ![c] = NoJob]
          /\ Goto(c, "recv")
       \/ /\ job[c].i \in 1..n /\ slots[job[c].i].tab # 3
          /\ job' = [job EXCEPT ![c].i = @ + 1]
          /\ pc' = pc
       \/ /\ job[c].i \in 1..n /\ slots[job[c].i].tab = 3
          /\ Goto(c, "scanread")
          /\ job' = job
    /\ out' = {}
    /\ UNCHANGED <<net, table, mutex, sock, tryb, id, roles>>

ScanRead(c) ==
    /\ up /\ pc[c] = "scanread"
    /\ job' = [job EXCEPT ![c].to = slots[job[c].i].sock]
    /\ Goto(c, "scansend")
    /\ out' = {}
    /\ UNCHANGED <<net, table, mutex, sock, tryb, id, roles>>

ScanSendThen(c, i) ==
    /\ up /\ pc[c] = "scansend" /\ mutex = None
    /\ out' = {<<job[c].to, job[c].msg>>}
    /\ job' = [job EXCEPT ![c].i = i]
    /\ Goto(c, "scan")
    /\ UNCHANGED <<net, table, mutex, sock, tryb, id, roles>>

ScanSendAgain(c) == ScanSendThen(c, job[c].i)          \* mutant: i++ skipped

ScanSend(c) == ScanSendThen(c, job[c].i + 1)

(* Replies of a laptop (mode 3).  shutdowning stores the asker at index i, *)
(* a local nothing has assigned: any slot, or 0, memory outside the table. *)
(* not_shutdown clears the slot the thread found at its login.  Both are   *)
(* written without the mutex.                                              *)
SetPending(k, a) ==
    [i \in Conn |-> IF i = k THEN [slots[i] EXCEPT !.sd = a] ELSE slots[i]]

LaptopReply(c, text, a) ==
    /\ text \in {"laptop=shutdowning", "laptop=not_shutdown"}
    /\ Receives(c, text) /\ tryb[c] = 3
    /\ \/ /\ text = "laptop=shutdowning"
          /\ \E i \in 0..MaxConn : slots' = SetPending(i, a)
       \/ /\ text = "laptop=not_shutdown"
          /\ slots' = SetPending(id[c], None)
    /\ job' = [job EXCEPT ![c] = [NoJob EXCEPT !.to = a, !.msg = text]]
    /\ Goto(c, "forward")
    /\ out' = {}
    /\ UNCHANGED <<net, n, mutex, sock, tryb, id, roles>>

Forward(c) ==
    /\ up /\ pc[c] = "forward" /\ mutex = None
    /\ out' = ToUser(job[c].to, job[c].msg)
    /\ job' = [job EXCEPT ![c] = NoJob]
    /\ Goto(c, "recv")
    /\ UNCHANGED <<net, table, mutex, sock, tryb, id, roles>>

-----------------------------------------------------------------------------
(* The end of recvmg, one critical section in four visible steps.          *)

ExitLock(c) ==
    /\ up /\ pc[c] = "leave" /\ mutex = None
    /\ mutex' = c
    /\ out' = IF AutoOnOff /\ tryb[c] = 1 THEN GpioStatusAll(sock[c]) ELSE {}
    /\ Goto(c, "clear")
    /\ UNCHANGED <<net, table, local, roles>>

ExitClearTo(c, g, next) ==
    /\ up /\ pc[c] = "clear"
    /\ gpio_adresat' = g
    /\ \/ /\ pilot_adresat = sock[c]
          /\ pilot_adresat' = None /\ pilot_full' = 0
          /\ Goto(c, "handover")
       \/ /\ pilot_adresat # sock[c]
          /\ UNCHANGED <<pilot_adresat, pilot_full>>
          /\ Goto(c, next)
    /\ out' = {}
    /\ UNCHANGED <<net, table, mutex, local>>

\* mutants: gpio_adresat is not cleared; a client that is not the pilot
\* returns early and keeps the mutex
ExitClearForgets(c) == ExitClearTo(c, gpio_adresat, "remove")
ExitClearReturns(c) ==
    ExitClearTo(c, IF gpio_adresat = sock[c] THEN None ELSE gpio_adresat, "done")

ExitClear(c) ==
    ExitClearTo(c, IF gpio_adresat = sock[c] THEN None ELSE gpio_adresat, "remove")

\* The first other client in pilot mode becomes the active pilot.
HeirAfterFirst(i, s) == i > 1 /\ slots[i].tab = 2 /\ slots[i].sock # s   \* mutant

Heir(i, s) == slots[i].tab = 2 /\ slots[i].sock # s

ExitHandover(c) ==
    /\ up /\ pc[c] = "handover"
    /\ \/ \E i \in 1..n : /\ Heir(i, sock[c])
                          /\ \A k \in 1..(i - 1) : ~Heir(k, sock[c])
                          /\ pilot_adresat' = slots[i].sock
                          /\ out' = ToUser(slots[i].sock, "pilot=active")
       \/ /\ \A i \in 1..n : ~Heir(i, sock[c])
          /\ pilot_adresat' = pilot_adresat
          /\ out' = {}
    /\ Goto(c, "remove")
    /\ UNCHANGED <<net, table, mutex, local, gpio_adresat, pilot_full>>

(* The last loop walks up to the leaving client's own entry, or over the   *)
(* whole table if it is not there.                                         *)
PendingUpTo(last) ==
    UNION {ToUser(slots[i].sd, "laptop=shutdown_ok") :
              i \in {k \in 1..last : slots[k].tab = 3 /\ slots[k].sd # None}}

LogoutMonitors(own, s) ==                              \* mutant: gpio clients left out
    IF own # 0 /\ slots[own].tab = 3 THEN ToModes({4}, "laptop=logout", s) ELSE {}

Logout(own, s) ==
    IF own # 0 /\ slots[own].tab = 3 THEN ToModes({1, 4}, "laptop=logout", s) ELSE {}

CloseGapLate(own) ==                                   \* mutant: j starts at i + 1
    [i \in Conn |-> IF own # 0 /\ i \in (own + 1)..(n - 1) THEN slots[i + 1]
                                                           ELSE slots[i]]

CloseGap(own) ==
    [i \in Conn |-> IF own # 0 /\ i \in own..(n - 1) THEN slots[i + 1] ELSE slots[i]]

\* The thread ends and its locals with it; sock keeps the socket it served.
ExitRemoveTo(c, left) ==
    LET own == IdSock(sock[c])
    IN  /\ up /\ pc[c] = "remove"
        /\ out' = PendingUpTo(IF own = 0 THEN n ELSE own) \cup Logout(own, sock[c])
        /\ slots' = CloseGap(own)
        /\ n' = left
        /\ mutex' = None
        /\ tryb' = [tryb EXCEPT ![c] = 0]
        /\ id' = [id EXCEPT ![c] = 0]
        /\ Goto(c, "done")
        /\ UNCHANGED <<net, sock, job, roles>>

ExitRemoveFound(c) ==                                  \* mutant: n-- only if found
    ExitRemoveTo(c, IF Registered(sock[c]) THEN n - 1 ELSE n)

\* n drops by one even if the entry was not found.
ExitRemove(c) == ExitRemoveTo(c, n - 1)

-----------------------------------------------------------------------------
Init ==
    /\ up = TRUE /\ accepted = 0 /\ cl = None
    /\ slots = [i \in Conn |-> EmptySlot] /\ n = 0
    /\ mutex = None
    /\ pc = [c \in Conn |-> "none"]
    /\ sock = [c \in Conn |-> None]
    /\ tryb = [c \in Conn |-> 0]
    /\ id = [c \in Conn |-> 0]
    /\ job = [c \in Conn |-> NoJob]
    /\ gpio_adresat = None /\ pilot_adresat = None /\ pilot_full = 0
    /\ out = {}

Request(c) ==
    \/ Hangup(c) \/ Exit(c)
    \/ LoginGpio(c) \/ LoginPilot(c) \/ LoginLaptop(c) \/ LoginMonitor(c)
    \/ \E v \in {0, 1} : PilotFull(c, v)
    \/ \E r \in Requests : GpioSet(c, r) \/ Ignored(c, r) \/ ScanStart(c, r)
    \/ Query(c) \/ StatusRead(c)
    \/ \E text \in Texts, a \in 1..accepted : LaptopReply(c, text, a)

Progress(c) ==
    \/ ThreadStart(c) \/ Join(c) \/ AutoOn(c) \/ StatusSend(c)
    \/ ScanTest(c) \/ ScanRead(c) \/ ScanSend(c) \/ Forward(c)
    \/ ExitLock(c) \/ ExitClear(c) \/ ExitHandover(c) \/ ExitRemove(c)

\* The process is gone; nothing happens any more.
Stopped == ~up /\ UNCHANGED vars

Next == Accept \/ AcceptFails \/ Stopped \/ \E c \in Conn : Request(c) \/ Progress(c)

Spec == Init /\ [][Next]_vars

(* The kernel runs every thread that can run, and the mutex is only ever   *)
(* held for a bounded time: no send waits for a client (they are a few     *)
(* bytes each).  Clients owe nothing: no fairness on Request or Accept.    *)
Fairness == \A c \in Conn : WF_vars(Progress(c))

FairSpec == Spec /\ Fairness

-----------------------------------------------------------------------------
(* Properties.                                                             *)

Live(c)   == pc[c] \notin {"none", "done"}
Joined(c) == Live(c) /\ pc[c] # "start"

\* Some thread took the socket of a later connection: cl was overwritten first.
Mixup == \E c \in Conn : sock[c] \notin {None, c}

Slot == [sock : Conn \cup {None}, tab : Modes, sd : Conn \cup {None}]
Job  == [i : 1..(MaxConn + 1), to : Conn \cup {None}, msg : Texts]
Msgs == Texts \cup {"server=terminated", "gpio=1", "gpio=", "gpio_status", "answer",
                    "pilot=active", "tryb=pilot", "laptop=active",
                    "monitor_gpio=active", "laptop=shutdown_ok"}

\* Every variable stays in its range; in particular the n-- of a thread never
\* makes n negative and no loop index runs past the entry behind the last.
TypeOK ==
    /\ up \in BOOLEAN /\ accepted \in 0..MaxConn /\ cl \in Conn \cup {None}
    /\ slots \in [Conn -> Slot] /\ n \in 0..MaxConn
    /\ mutex \in Conn \cup {None}
    /\ pc \in [Conn -> Labels]
    /\ sock \in [Conn -> Conn \cup {None}]
    /\ tryb \in [Conn -> Modes]
    /\ id \in [Conn -> 0..MaxConn]
    /\ job \in [Conn -> Job]
    /\ gpio_adresat \in Conn \cup {None} /\ pilot_adresat \in Conn \cup {None}
    /\ pilot_full \in {0, 1}
    /\ out \subseteq (Conn \cup {None}) \X Msgs

\* n is the number of connection threads that have not ended, whatever the
\* threads did to the table: the unconditional n-- of recvmg never drifts.
CountsThreads == n = Cardinality({c \in Conn : Live(c)})

\* A role is never left behind: its holder is the socket of a thread still
\* running, which will clear the role when it leaves.  Otherwise the keys of
\* the remote control would go to nobody until the server is restarted.
RolesHeldByThreads ==
    /\ gpio_adresat # None =>
         \E c \in Conn : sock[c] = gpio_adresat /\ pc[c] \in Serving \cup {"leave", "clear"}
    /\ pilot_adresat # None =>
         \E c \in Conn : sock[c] = pilot_adresat /\ pc[c] \in Serving \cup {"leave", "clear"}

\* Outside the critical section that ends a thread, a table with a pilot in
\* it has an active pilot: every departure hands the role over.
PilotAvailable ==
    (\E i \in 1..n : slots[i].tab = 2) /\ pilot_adresat = None
        => \E c \in Conn : mutex = c /\ pc[c] \in {"handover", "remove"}

\* The table lists exactly the connections whose thread runs, as long as
\* every thread got the socket it was created for.
OwnEntry ==
    ~Mixup => {slots[i].sock : i \in 1..n} = {c \in Conn : Live(c)}

\* The mode in which a thread obeys its client is the one the table has for
\* that client, by which it is told things, although the entries are shifted
\* under the index its thread keeps: every login looks the index up again.
ModesAgree ==
    ~Mixup => \A i \in 1..n : slots[i].tab = tryb[slots[i].sock]

\* The pilot role is only ever taken from a client that leaves, and whoever
\* gets it while in the table is told so: no two clients think they hold it.
PilotRoleKept ==
    [][pilot_adresat' # pilot_adresat =>
         /\ pilot_adresat # None =>
              \E c \in Conn : pc[c] = "clear" /\ sock[c] = pilot_adresat
         /\ pilot_adresat' # None /\ Registered(pilot_adresat') =>
              <<pilot_adresat', "pilot=active">> \in out']_vars

\* A laptop that drops out of the table is announced to every gpio client
\* and monitor that stays in it.  After a mix-up it need not be: a thread that
\* finds no entry of its own shortens the table by its last entry.
LogoutAnnounced ==
    [][\A i, k \in 1..n :
         ~Mixup /\ slots[i].tab = 3 /\ n' < n
         /\ (\A j \in 1..(n') : slots'[j].sock # slots[i].sock)
         /\ slots[k].tab \in {1, 4}
         => <<slots[k].sock, "laptop=logout">> \in out']_vars

\* A thread whose client is gone ends: it gets the mutex and gives it back.
LeaverEnds == \A c \in Conn : (pc[c] = "leave") ~> (pc[c] = "done" \/ ~up)

\* An accepted connection is served: some thread that has its socket reaches
\* the receive loop, whoever leaves in between.  The exception is the mix-up:
\* the next connection is accepted, and cl overwritten, before the thread made
\* for this one has copied it.  That the thread is made at all is assumed.
AcceptedServed ==
    \A c \in Conn :
        (pc[c] = "start") ~> \/ \E d \in Conn : sock[d] = c /\ pc[d] = "recv"
                             \/ pc[c] = "start" /\ cl # c
                             \/ ~up

\* A monitor's shutdown or restart of the laptop comes to an end although the
\* table changes under the scan.
ScanEnds == \A c \in Conn : (pc[c] = "scan") ~> (pc[c] = "recv" \/ ~up)

\* f_network.c:1 and n_login.c:9: a thread per connection, a login for every
\* new connection.  The code hands all threads the address of one cl.
ConnectionHasItsThread == \A c \in Conn : Joined(c) => sock[c] = c

\* komunikacja.c:10: a message is sent to a user "only when he exists".  So
\* a user that exists, alone on his socket, is in the table.  The code drops
\* the last entry when a thread that has none leaves.
ExistingUserReachable ==
    \A c \in Conn : /\ pc[c] \in Serving /\ sock[c] = c
                    /\ \A d \in Conn \ {c} : sock[d] # c
                    => Registered(c)

\* f_network.c:90: laptop=shutdown_ok is the message that the laptop closed
\* down.  The code sends it when any client behind the laptop in the table
\* leaves, to a monitor that stays, with no socket mixed up.
ShutdownOkMeansLaptopLeft ==
    [][\A i \in 1..n' :
         /\ ~Mixup /\ slots'[i].tab = 4
         /\ <<slots'[i].sock, "laptop=shutdown_ok">> \in out'
         => \E c \in Conn : pc[c] = "remove" /\ tryb[c] = 3]_vars
=============================================================================
