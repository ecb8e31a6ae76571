-------------------------------- MODULE Daemon ------------------------------
(***************************************************************************)
(* How the server and the agent start: daemonize() of server/f_daemon.c    *)
(* and of service-c/f_daemon.c, and bind and listen of server.c.  Both     *)
(* programs use the same lock file.  A program started by hand forks and   *)
(* takes the lock; one whose parent is init, or has ended, returns before  *)
(* it.  A process may be killed at any step, and its number used again.    *)
(***************************************************************************)
EXTENDS Integers, Sequences, FiniteSets

CONSTANT Pids          \* process numbers, written as their decimal digits

Digit == 0..9
LF    == 10            \* the newline after the number

ASSUME PidsAssumption == Pids \subseteq Seq(Digit)

Program == {"server", "agent"}

VARIABLES prog,        \* the program each process runs
          ppc,         \* its place; "none" is a number not in use
          byInit,      \* the processes started by init
          lock,        \* the process that holds the lock, as a set
          pidfile,     \* the bytes of the lock file
          listener     \* the process that listens on the port, as a set

dvars == <<prog, ppc, byInit, lock, pidfile, listener>>

Place == {"none", "started", "child", "open", "locked", "main", "bound", "loop"}

Runs(p) == ppc[p] \in {"main", "bound", "loop"}

-----------------------------------------------------------------------------
Launch(p, x) ==
    /\ ppc[p] = "none"
    /\ prog' = [prog EXCEPT ![p] = x]
    /\ UNCHANGED <<lock, pidfile, listener>>

LaunchByHand(p, x) ==
    /\ Launch(p, x)
    /\ ppc' = [ppc EXCEPT ![p] = "started"]
    /\ UNCHANGED byInit

\* getppid() is 1: daemonize returns at once.
LaunchByInit(p, x) ==
    /\ Launch(p, x)
    /\ ppc' = [ppc EXCEPT ![p] = "main"]
    /\ byInit' = byInit \cup {p}

\* The kernel forgets a process that ends.
Gone(p, at) ==
    /\ ppc' = at
    /\ lock' = lock \ {p}
    /\ listener' = listener \ {p}
    /\ byInit' = byInit \ {p}
    /\ UNCHANGED <<prog, pidfile>>

Exit(p) == Gone(p, [ppc EXCEPT ![p] = "none"])

Killed(p) == ppc[p] # "none" /\ Exit(p)

\* The parent exits, the child q goes on; fork fails if there is no number.
Fork(p) ==
    /\ ppc[p] = "started"
    /\ \/ Exit(p)
       \/ \E q \in Pids :
            /\ ppc[q] = "none"
            /\ ppc' = [ppc EXCEPT ![p] = "none", ![q] = "child"]
            /\ prog' = [prog EXCEPT ![q] = prog[p]]
            /\ UNCHANGED <<byInit, lock, pidfile, listener>>

OpenLock(p) ==
    /\ ppc[p] = "child"
    /\ ppc' = [ppc EXCEPT ![p] = "open"]
    /\ UNCHANGED <<prog, byInit, lock, pidfile, listener>>

\* lockf(F_TLOCK): the process exits if another one has the lock.
TakeLock(p) ==
    /\ ppc[p] = "open" /\ lock = {}
    /\ lock' = {p}
    /\ ppc' = [ppc EXCEPT ![p] = "locked"]
    /\ UNCHANGED <<prog, byInit, pidfile, listener>>

LockIgnored(p) ==                         \* mutant: the answer is not looked at
    /\ ppc[p] = "open" /\ lock # {}
    /\ ppc' = [ppc EXCEPT ![p] = "locked"]
    /\ UNCHANGED <<prog, byInit, lock, pidfile, listener>>

LockRefused(p) == ppc[p] = "open" /\ lock # {} /\ Exit(p)

\* Bytes written at the start of a file that is not truncated.
Overwritten(old, text) ==
    [i \in 1..(IF Len(text) < Len(old) THEN Len(old) ELSE Len(text)) |->
        IF i <= Len(text) THEN text[i] ELSE old[i]]

Writes(p, text) ==
    /\ ppc[p] = "locked"
    /\ pidfile' = Overwritten(pidfile, text)
    /\ ppc' = [ppc EXCEPT ![p] = "main"]
    /\ UNCHANGED <<prog, byInit, lock, listener>>

WritePidBare(p) == Writes(p, p)           \* mutant: the newline is missing

WritePid(p) == Writes(p, Append(p, LF))

\* SO_REUSEADDR: two servers may bind the port while neither listens.
Bind(p) ==
    /\ ppc[p] = "main" /\ prog[p] = "server"
    /\ IF listener = {}
       THEN ppc' = [ppc EXCEPT ![p] = "bound"]
            /\ UNCHANGED <<prog, byInit, lock, pidfile, listener>>
       ELSE Exit(p)

ListenIf(p, refused) ==
    /\ ppc[p] = "bound"
    /\ IF refused
       THEN Exit(p)
       ELSE /\ ppc' = [ppc EXCEPT ![p] = "loop"]
            /\ listener' = IF listener = {} THEN {p} ELSE listener
            /\ UNCHANGED <<prog, byInit, lock, pidfile>>

ListenUnchecked(p) == ListenIf(p, FALSE)  \* mutant: listen is not looked at

Listen(p) == ListenIf(p, listener # {})

-----------------------------------------------------------------------------
DaemonInit ==
    /\ prog = [p \in Pids |-> "server"]
    /\ ppc = [p \in Pids |-> "none"]
    /\ byInit = {} /\ lock = {} /\ listener = {} /\ pidfile = <<>>

DaemonStep(p) ==
    \/ Fork(p) \/ OpenLock(p) \/ TakeLock(p) \/ LockRefused(p) \/ WritePid(p)
    \/ Bind(p) \/ Listen(p)

DaemonNext ==
    \E p \in Pids :
        \/ \E x \in Program : LaunchByHand(p, x) \/ LaunchByInit(p, x)
        \/ DaemonStep(p)
        \/ Killed(p)

DaemonSpec == DaemonInit /\ [][DaemonNext]_dvars

-----------------------------------------------------------------------------
(* Properties.                                                             *)

\* Of the processes started by hand, servers and agents together, at most one
\* gets past daemonize().
OneByHand ==
    \A p, q \in Pids : Runs(p) /\ Runs(q) /\ p \notin byInit /\ q \notin byInit => p = q

\* The first line of the lock file is the number of the process that holds
\* the lock, from when it has written it, whatever the file held before.
LockFileNamesHolder ==
    \A p \in lock :
        Runs(p) => /\ Len(pidfile) > Len(p)
                   /\ \A i \in 1..Len(p) : pidfile[i] = p[i]
                   /\ pidfile[Len(p) + 1] = LF

\* Of the servers, however they were started, at most one gets to its accept
\* loop, and that one listens.
OneServer == \A p \in Pids : ppc[p] = "loop" => listener = {p}
=============================================================================
