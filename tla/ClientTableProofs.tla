-------------------------- MODULE ClientTableProofs --------------------------
(***************************************************************************)
(* Proofs about ClientTable for every number of connections, every set of  *)
(* requests and both settings of AUTO_ON_OFF.                              *)
(*                                                                         *)
(* The safety properties of ClientTable are not inductive.  ThreadInv adds *)
(* what ties n, the mutex and the program counters together; TableInv adds *)
(* what ties the entries of the table and the roles to the threads.        *)
(***************************************************************************)
EXTENDS ClientTable, FiniteSetTheorems, TLAPS

Critical == {"clear", "handover", "remove"}
Threads  == {c \in Conn : Live(c)}

\* The mutex is held exactly by a thread in its last critical section.
MutexInv == \A c \in Conn : mutex = c <=> pc[c] \in Critical

\* Threads exist for the connections accepted so far.
AcceptedInv == \A c \in Conn : pc[c] = "none" <=> c > accepted

\* A scan indexes the table within the arrays.
ScanInv == \A c \in Conn : pc[c] \in {"scanread", "scansend"} => job[c].i \in Conn

ThreadInv == TypeOK /\ MutexInv /\ AcceptedInv /\ CountsThreads /\ ScanInv

\* Sockets: cl and the threads' copies are sockets accept has returned.
SocketInv ==
    /\ accepted > 0 => cl \in 1..accepted
    /\ \A c \in Conn : /\ pc[c] \in {"none", "start"} => sock[c] = None
                       /\ pc[c] \notin {"none", "start"} => sock[c] \in 1..accepted

\* The entries in use hold different sockets, all accepted.
EntryInv ==
    /\ \A i \in 1..n : slots[i].sock \in 1..accepted
    /\ \A i, k \in 1..n : slots[i].sock = slots[k].sock => i = k

\* A logged-in entry belongs to a thread that will take it out again.
LoggedInv ==
    \A i \in 1..n : slots[i].tab # 0 =>
        \E c \in Conn : sock[c] = slots[i].sock
                        /\ pc[c] \in Serving \cup Critical \cup {"leave"}

\* Without an active pilot, the only pilot in the table is the one whose
\* departure is under way.
PilotInv ==
    pilot_adresat = None =>
        \A i \in 1..n : slots[i].tab = 2 =>
            \E c \in Conn : /\ mutex = c
                            /\ \/ pc[c] = "handover"
                               \/ pc[c] = "remove" /\ slots[i].sock = sock[c]

TableInv == SocketInv /\ EntryInv /\ LoggedInv /\ RolesHeldByThreads /\ PilotInv /\ OwnEntry

-----------------------------------------------------------------------------
(* The threads, the mutex and n.                                           *)

\* Connections are numbers from 1; None is not one of them.
LEMMA ConnFacts == Conn \subseteq Int /\ None \notin Conn /\ 1 \in Conn
BY ConstAssumption DEF Conn, None

\* A finite set of threads: Cardinality is a number no larger than MaxConn.
LEMMA ThreadsFinite ==
    ASSUME TypeOK, AcceptedInv
    PROVE  /\ IsFiniteSet(Threads) /\ Cardinality(Threads) \in Nat
           /\ Cardinality(Threads) <= accepted
<1>1. Threads \subseteq 1..accepted
  BY DEF Threads, Live, AcceptedInv, TypeOK, Conn
<1>2. accepted \in Nat
  BY ConstAssumption DEF TypeOK
<1>3. IsFiniteSet(1..accepted) /\ Cardinality(1..accepted) = accepted
  BY <1>2, FS_Interval
<1> QED
  BY <1>1, <1>2, <1>3, FS_Subset, FS_CardinalityType

\* A step in which a live thread moves on and stays alive, taking, keeping or
\* never having the mutex as its new place asks.
LEMMA Moves ==
    ASSUME ThreadInv, NEW c \in Conn, NEW l \in Labels,
           Live(c), l \notin {"none", "done"},
           pc' = [pc EXCEPT ![c] = l], n' = n, accepted' = accepted,
           \/ mutex' = mutex /\ (pc[c] \in Critical <=> l \in Critical)
           \/ mutex = None /\ mutex' = c /\ l \in Critical
    PROVE  MutexInv' /\ AcceptedInv' /\ CountsThreads'
<1>1. pc \in [Conn -> Labels] /\ mutex \in Conn \cup {None}
  BY DEF ThreadInv, TypeOK
<1>2. MutexInv'
  BY <1>1, ConnFacts DEF ThreadInv, MutexInv
<1>3. AcceptedInv'
  BY <1>1 DEF ThreadInv, AcceptedInv, Live
<1>4. Threads' = Threads
  BY <1>1 DEF Threads, Live
<1>5. CountsThreads'
  BY <1>4 DEF ThreadInv, CountsThreads, Threads
<1> QED
  BY <1>2, <1>3, <1>5

\* main starts with no connection, no thread and an empty table.
LEMMA ThreadInit == Init => ThreadInv
<1> SUFFICES ASSUME Init PROVE ThreadInv
  OBVIOUS
<1>1. TypeOK
  BY ConstAssumption DEF Init, TypeOK, EmptySlot, NoJob, Slot, Job, Texts, Modes,
     Labels, Serving, Conn, None
<1>2. MutexInv /\ AcceptedInv /\ ScanInv
  BY ConnFacts DEF Init, MutexInv, AcceptedInv, ScanInv, Critical, Conn
<1>3. Threads = {}
  BY DEF Init, Threads, Live
<1>4. CountsThreads
  BY <1>3, FS_EmptySet DEF Init, CountsThreads, Threads
<1> QED
  BY <1>1, <1>2, <1>4 DEF ThreadInv

\* A step that leaves the threads where they are.
LEMMA Stays ==
    ASSUME ThreadInv, UNCHANGED <<pc, mutex, n, accepted>>
    PROVE  MutexInv' /\ AcceptedInv' /\ CountsThreads'
BY DEF ThreadInv, MutexInv, AcceptedInv, CountsThreads, Live

\* Messages are among Msgs whenever the sockets are.
LEMMA SendTypes ==
    ASSUME TypeOK
    PROVE  /\ \A s \in Conn \cup {None}, m \in Msgs : ToUser(s, m) \subseteq (Conn \cup {None}) \X Msgs
           /\ \A M, s : \A m \in Msgs : ToModes(M, m, s) \subseteq (Conn \cup {None}) \X Msgs
           /\ \A s : GpioStatusAll(s) \subseteq (Conn \cup {None}) \X Msgs
<1>1. \A i \in 1..n : slots[i] \in Slot
  BY ConstAssumption DEF TypeOK, Conn
<1>2. \A s \in Conn \cup {None}, m \in Msgs : ToUser(s, m) \subseteq (Conn \cup {None}) \X Msgs
  BY DEF ToUser
<1>3. \A M, s : \A m \in Msgs : ToModes(M, m, s) \subseteq (Conn \cup {None}) \X Msgs
  BY <1>1 DEF ToModes, Slot
<1>4. "gpio_status" \in Msgs
  BY DEF Msgs
<1>5. \A s : GpioStatusAll(s) \subseteq (Conn \cup {None}) \X Msgs
  BY <1>3, <1>4 DEF GpioStatusAll
<1> QED
  BY <1>2, <1>3, <1>5

\* idsock finds the entry of a socket, or none.
LEMMA IdSockFacts ==
    ASSUME TypeOK, NEW s
    PROVE  /\ IdSock(s) \in 0..n /\ IdSock(s) \in 0..MaxConn
           /\ Registered(s) <=> IdSock(s) # 0
           /\ IdSock(s) # 0 => IdSock(s) \in 1..n /\ slots[IdSock(s)].sock = s
<1>0. n \in 0..MaxConn /\ MaxConn \in Nat
  BY ConstAssumption DEF TypeOK
<1>1. CASE Registered(s)
  <2>1. PICK i \in 1..n : slots[i].sock = s
    BY <1>1 DEF Registered
  <2>2. IdSock(s) \in 1..n /\ slots[IdSock(s)].sock = s
    BY <1>1, <2>1 DEF IdSock
  <2> QED
    BY <1>0, <1>1, <2>2
<1>2. CASE ~Registered(s)
  BY <1>0, <1>2 DEF IdSock
<1> QED
  BY <1>1, <1>2

\* What a thread notes for a scan or an answer is a Job.
LEMMA JobTypes ==
    /\ NoJob \in Job
    /\ \A j \in Job, m \in Texts : [j EXCEPT !.msg = m] \in Job
    /\ \A j \in Job, t \in Conn \cup {None} : [j EXCEPT !.to = t] \in Job
    /\ \A j \in Job, i \in 1..(MaxConn + 1) : [j EXCEPT !.i = i] \in Job
    /\ \A t \in Conn \cup {None}, m \in Texts :
          [NoJob EXCEPT !.to = t, !.msg = m] \in Job
<1>1. NoJob \in Job
  BY ConstAssumption DEF Job, NoJob, Texts
<1>2. \A j \in Job, m \in Texts : [j EXCEPT !.msg = m] \in Job
  BY DEF Job
<1>3. \A j \in Job, t \in Conn \cup {None} : [j EXCEPT !.to = t] \in Job
  BY DEF Job
<1>4. \A j \in Job, i \in 1..(MaxConn + 1) : [j EXCEPT !.i = i] \in Job
  BY DEF Job
<1>5. \A t \in Conn \cup {None}, m \in Texts : [NoJob EXCEPT !.to = t, !.msg = m] \in Job
  BY <1>1 DEF Job
<1> QED
  BY <1>1, <1>2, <1>3, <1>4, <1>5

\* What the loop of a monitor or the forwarding of a reply does to job keeps its
\* range.
LEMMA JobSteps ==
    ASSUME TypeOK, NEW c \in Conn
    PROVE  /\ [job EXCEPT ![c] = NoJob] \in [Conn -> Job]
           /\ \A i \in 1..(MaxConn + 1) : [job EXCEPT ![c].i = i] \in [Conn -> Job]
           /\ \A t \in Conn \cup {None} : /\ [job EXCEPT ![c].to = t] \in [Conn -> Job]
                                          /\ [job EXCEPT ![c].to = t][c].i = job[c].i
           /\ job[c].i \in Nat /\ job[c].msg \in Msgs /\ job[c].to \in Conn \cup {None}
<1>1. job \in [Conn -> Job] /\ job[c] \in Job
  BY DEF TypeOK
<1>2. [job EXCEPT ![c] = NoJob] \in [Conn -> Job]
  BY <1>1, JobTypes
<1>3. \A i \in 1..(MaxConn + 1) : [job EXCEPT ![c].i = i] \in [Conn -> Job]
  BY <1>1, JobTypes
<1>4. \A t \in Conn \cup {None} : /\ [job EXCEPT ![c].to = t] \in [Conn -> Job]
                                  /\ [job EXCEPT ![c].to = t][c].i = job[c].i
  BY <1>1 DEF Job
<1>5. job[c].i \in Nat /\ job[c].msg \in Msgs /\ job[c].to \in Conn \cup {None}
  BY <1>1, ConstAssumption DEF Job, Msgs
<1> QED
  BY <1>2, <1>3, <1>4, <1>5

\* A pending shutdown changes neither the socket nor the mode of an entry.
LEMMA SetPendingTypes ==
    ASSUME TypeOK, NEW k, NEW a \in Conn \cup {None}
    PROVE  /\ SetPending(k, a) \in [Conn -> Slot]
           /\ \A i \in Conn : /\ SetPending(k, a)[i].sock = slots[i].sock
                              /\ SetPending(k, a)[i].tab = slots[i].tab
BY DEF TypeOK, SetPending, Slot

-----------------------------------------------------------------------------
(* Every action keeps ThreadInv.  The first lemma is for the actions that  *)
(* leave the table's length and connections alone.                         *)

\* What the logins share keeps the ranges.
LEMMA LoginTypes ==
    ASSUME TypeOK, NEW c \in Conn, NEW mode \in Modes, LoginAs(c, mode)
    PROVE  /\ id' \in [Conn -> 0..MaxConn] /\ tryb' \in [Conn -> Modes]
           /\ slots' \in [Conn -> Slot]
           /\ UNCHANGED <<up, accepted, cl, n, mutex, sock, job>>
<1>1. id' \in [Conn -> 0..MaxConn] /\ tryb' \in [Conn -> Modes]
  BY IdSockFacts DEF LoginAs, TypeOK
<1>2. \A i \in Conn : [slots[i] EXCEPT !.tab = mode] \in Slot
  BY DEF TypeOK, Slot
<1>3. slots' \in [Conn -> Slot]
  BY <1>2 DEF LoginAs, TypeOK
<1> QED BY <1>1, <1>3 DEF LoginAs, net

\* A request is served outside the mutex or in one critical section: n, the
\* mutex and the set of running threads stay as they are.
LEMMA ThreadRequests ==
    ASSUME ThreadInv, NEW c \in Conn, Request(c)
    PROVE  ThreadInv'
<1> USE DEF vars, net, table, local, roles, Goto, Receives
<1>0. TypeOK /\ ScanInv /\ (mutex = None => \A d \in Conn : pc[d] \notin Critical)
  BY ConnFacts DEF ThreadInv, MutexInv
<1>1. CASE Hangup(c)
  <2>1. TypeOK' /\ ScanInv'
    BY <1>0, <1>1 DEF Hangup, TypeOK, ScanInv, Labels, Serving
  <2>2. MutexInv' /\ AcceptedInv' /\ CountsThreads'
    BY <1>0, <1>1, Moves DEF Hangup, Live, Labels, Serving, Critical
  <2> QED
    BY <2>1, <2>2 DEF ThreadInv
<1>2. CASE Exit(c)
  <2>1. TypeOK' /\ ScanInv'
    BY <1>0, <1>2, SendTypes DEF Exit, TypeOK, ScanInv, Labels, Serving, Msgs
  <2>2. MutexInv' /\ AcceptedInv' /\ CountsThreads'
    BY <1>0, <1>2, Moves DEF Exit, Live, Labels, Serving, Critical
  <2> QED
    BY <2>1, <2>2 DEF ThreadInv
<1>3. CASE LoginGpio(c)
  <2>a. 1 \in Modes /\ LoginAs(c, 1)
    BY <1>3 DEF LoginGpio, Modes
  <2>b. /\ id' \in [Conn -> 0..MaxConn] /\ tryb' \in [Conn -> Modes]
        /\ slots' \in [Conn -> Slot]
        /\ UNCHANGED <<up, accepted, cl, n, mutex, sock, job>>
    BY <1>0, <2>a, LoginTypes
  <2>1. TypeOK' /\ ScanInv'
    BY <1>0, <1>3, <2>b, SendTypes DEF LoginGpio, TypeOK, ScanInv, Labels, Serving
  <2>2. MutexInv' /\ AcceptedInv' /\ CountsThreads'
    BY <1>0, <1>3, Moves DEF LoginGpio, Live, Labels, Serving, Critical, LoginAs
  <2> QED
    BY <2>1, <2>2 DEF ThreadInv
<1>4. CASE LoginPilot(c)
  <2>a. 2 \in Modes /\ LoginAs(c, 2)
    BY <1>4 DEF LoginPilot, Modes
  <2>b. /\ id' \in [Conn -> 0..MaxConn] /\ tryb' \in [Conn -> Modes]
        /\ slots' \in [Conn -> Slot]
        /\ UNCHANGED <<up, accepted, cl, n, mutex, sock, job>>
    BY <1>0, <2>a, LoginTypes
  <2>1. TypeOK' /\ ScanInv'
    BY <1>0, <1>4, <2>b, SendTypes DEF LoginPilot, TypeOK, ScanInv, Msgs
  <2>2. MutexInv' /\ AcceptedInv' /\ CountsThreads'
    BY <1>0, <1>4, Stays DEF LoginPilot, Live, Labels, Serving, Critical, LoginAs
  <2> QED
    BY <2>1, <2>2 DEF ThreadInv
<1>5. CASE LoginLaptop(c)
  <2>a. 3 \in Modes /\ LoginAs(c, 3)
    BY <1>5 DEF LoginLaptop, Modes
  <2>b. /\ id' \in [Conn -> 0..MaxConn] /\ tryb' \in [Conn -> Modes]
        /\ slots' \in [Conn -> Slot]
        /\ UNCHANGED <<up, accepted, cl, n, mutex, sock, job>>
    BY <1>0, <2>a, LoginTypes
  <2>1. TypeOK' /\ ScanInv'
    BY <1>0, <1>5, <2>b, SendTypes DEF LoginLaptop, TypeOK, ScanInv, Msgs, Texts
  <2>2. MutexInv' /\ AcceptedInv' /\ CountsThreads'
    BY <1>0, <1>5, Stays DEF LoginLaptop, Live, Labels, Serving, Critical, LoginAs
  <2> QED
    BY <2>1, <2>2 DEF ThreadInv
<1>6. CASE LoginMonitor(c)
  <2>a. 4 \in Modes /\ LoginAs(c, 4)
    BY <1>6 DEF LoginMonitor, Modes
  <2>b. /\ id' \in [Conn -> 0..MaxConn] /\ tryb' \in [Conn -> Modes]
        /\ slots' \in [Conn -> Slot]
        /\ UNCHANGED <<up, accepted, cl, n, mutex, sock, job>>
    BY <1>0, <2>a, LoginTypes
  <2>1. TypeOK' /\ ScanInv'
    BY <1>0, <1>6, <2>b, SendTypes DEF LoginMonitor, TypeOK, ScanInv, Msgs
  <2>2. MutexInv' /\ AcceptedInv' /\ CountsThreads'
    BY <1>0, <1>6, Stays DEF LoginMonitor, Live, Labels, Serving, Critical, LoginAs
  <2> QED
    BY <2>1, <2>2 DEF ThreadInv
<1>7. CASE \E v \in {0, 1} : PilotFull(c, v)
  <2>1. TypeOK' /\ ScanInv'
    BY <1>0, <1>7 DEF PilotFull, TypeOK, ScanInv
  <2>2. MutexInv' /\ AcceptedInv' /\ CountsThreads'
    BY <1>0, <1>7, Stays DEF PilotFull, Live, Labels, Serving, Critical
  <2> QED
    BY <2>1, <2>2 DEF ThreadInv
<1>8. CASE \E r \in Requests : GpioSet(c, r)
  <2>1. TypeOK' /\ ScanInv'
    <3>1. TypeOK'
      BY <1>0, <1>8, SendTypes DEF GpioSet, TypeOK, Reply, Labels, Serving, Msgs
    <3>2. ScanInv'
      BY <1>0, <1>8 DEF GpioSet, TypeOK, ScanInv, Reply, Serving
    <3> QED BY <3>1, <3>2
  <2>2. MutexInv' /\ AcceptedInv' /\ CountsThreads'
    BY <1>0, <1>8, Moves DEF GpioSet, Live, Labels, Serving, Critical, Reply
  <2> QED
    BY <2>1, <2>2 DEF ThreadInv
<1>9. CASE \E r \in Requests : Ignored(c, r)
  <2>1. TypeOK' /\ ScanInv'
    <3>1. TypeOK'
      BY <1>0, <1>9, SendTypes DEF Ignored, TypeOK, Reply, Labels, Serving, Msgs
    <3>2. ScanInv'
      BY <1>0, <1>9 DEF Ignored, TypeOK, ScanInv, Reply, Serving
    <3> QED BY <3>1, <3>2
  <2>2. MutexInv' /\ AcceptedInv' /\ CountsThreads'
    BY <1>0, <1>9, Moves DEF Ignored, Live, Labels, Serving, Critical, Reply
  <2> QED
    BY <2>1, <2>2 DEF ThreadInv
<1>10. CASE \E r \in Requests : ScanStart(c, r)
  <2>0. PICK r \in Requests : ScanStart(c, r)
    BY <1>10
  <2>a. job' \in [Conn -> Job]
    <3> DEFINE m == IF r = "laptop_shutdown" THEN "laptop=shutdown" ELSE "laptop=restart"
    <3>1. m \in Texts
      BY DEF Texts
    <3>2. [NoJob EXCEPT !.msg = m] \in Job
      BY <3>1, JobTypes
    <3> QED
      BY <1>0, <2>0, <3>2 DEF ScanStart, TypeOK
  <2>1. TypeOK' /\ ScanInv'
    BY <1>0, <2>0, <2>a DEF ScanStart, TypeOK, ScanInv, Labels, Serving
  <2>2. MutexInv' /\ AcceptedInv' /\ CountsThreads'
    BY <1>0, <1>10, Moves DEF ScanStart, Live, Labels, Serving, Critical
  <2> QED
    BY <2>1, <2>2 DEF ThreadInv
<1>11. CASE Query(c)
  <2>1. TypeOK' /\ ScanInv'
    BY <1>0, <1>11, SendTypes DEF Query, TypeOK, ScanInv, Reply, Labels, Serving, Msgs
  <2>2. MutexInv' /\ AcceptedInv' /\ CountsThreads'
    BY <1>0, <1>11, Moves DEF Query, Live, Labels, Serving, Critical, Reply
  <2> QED
    BY <2>1, <2>2 DEF ThreadInv
<1>12. CASE StatusRead(c)
  <2>1. TypeOK' /\ ScanInv'
    BY <1>0, <1>12 DEF StatusRead, TypeOK, ScanInv, Labels, Serving, Job, Texts
  <2>2. MutexInv' /\ AcceptedInv' /\ CountsThreads'
    BY <1>0, <1>12, Moves DEF StatusRead, Live, Labels, Serving, Critical
  <2> QED
    BY <2>1, <2>2 DEF ThreadInv
<1>13. CASE \E text \in Texts, a \in 1..accepted : LaptopReply(c, text, a)
  <2>0. PICK text \in Texts, a \in 1..accepted : LaptopReply(c, text, a)
    BY <1>13
  <2>a. a \in Conn
    BY <1>0, ConstAssumption DEF TypeOK, Conn
  <2>b. slots' \in [Conn -> Slot]
    BY <1>0, <2>0, <2>a, SetPendingTypes DEF LaptopReply
  <2>c. job' \in [Conn -> Job]
    BY <1>0, <2>0, <2>a, JobTypes DEF LaptopReply, TypeOK
  <2>1. TypeOK' /\ ScanInv'
    BY <1>0, <2>0, <2>b, <2>c DEF LaptopReply, TypeOK, ScanInv, Labels, Serving
  <2>2. MutexInv' /\ AcceptedInv' /\ CountsThreads'
    BY <1>0, <1>13, Moves DEF LaptopReply, Live, Labels, Serving, Critical
  <2> QED
    BY <2>1, <2>2 DEF ThreadInv
<1> QED
  BY <1>1, <1>2, <1>3, <1>4, <1>5, <1>6, <1>7, <1>8, <1>9, <1>10, <1>11, <1>12, <1>13 DEF Request

\* A thread that goes on by itself, up to the end of its last critical section,
\* moves the mutex only with its own program counter and does not touch n.
LEMMA ThreadProgress ==
    ASSUME ThreadInv, NEW c \in Conn, Progress(c), ~ExitRemove(c)
    PROVE  ThreadInv'
<1> USE DEF vars, net, table, local, roles, Goto
<1>0. TypeOK /\ ScanInv /\ (mutex = None => \A d \in Conn : pc[d] \notin Critical)
  BY ConnFacts DEF ThreadInv, MutexInv
<1>a. MutexInv
  BY DEF ThreadInv
<1>1. CASE ThreadStart(c)
  <2>1. TypeOK' /\ ScanInv'
    BY <1>0, <1>1 DEF ThreadStart, TypeOK, ScanInv, Labels, Serving
  <2>2. MutexInv' /\ AcceptedInv' /\ CountsThreads'
    BY <1>0, <1>1, Moves DEF ThreadStart, Live, Labels, Serving, Critical
  <2> QED
    BY <2>1, <2>2 DEF ThreadInv
<1>2. CASE Join(c)
  <2>1. TypeOK' /\ ScanInv'
    BY <1>0, <1>2, IdSockFacts DEF Join, TypeOK, ScanInv, Labels, Serving
  <2>2. MutexInv' /\ AcceptedInv' /\ CountsThreads'
    BY <1>0, <1>2, Moves DEF Join, Live, Labels, Serving, Critical
  <2> QED
    BY <2>1, <2>2 DEF ThreadInv
<1>3. CASE AutoOn(c)
  <2>1. TypeOK' /\ ScanInv'
    BY <1>0, <1>3, SendTypes DEF AutoOn, TypeOK, ScanInv, Labels, Serving, Msgs
  <2>2. MutexInv' /\ AcceptedInv' /\ CountsThreads'
    BY <1>0, <1>3, Moves DEF AutoOn, Live, Labels, Serving, Critical
  <2> QED
    BY <2>1, <2>2 DEF ThreadInv
<1>4. CASE StatusSend(c)
  <2>1. TypeOK' /\ ScanInv'
    BY <1>0, <1>4, SendTypes, JobTypes DEF StatusSend, TypeOK, ScanInv, Labels, Serving, Job, NoJob, Msgs
  <2>2. MutexInv' /\ AcceptedInv' /\ CountsThreads'
    BY <1>0, <1>4, Moves DEF StatusSend, Live, Labels, Serving, Critical
  <2> QED
    BY <2>1, <2>2 DEF ThreadInv
<1>5. CASE ScanTest(c)
  <2>a. MaxConn \in Nat /\ n \in 0..MaxConn /\ pc \in [Conn -> Labels] /\ job[c].i \in Nat
    BY <1>0, ConstAssumption, JobSteps DEF TypeOK
  <2>b. \/ job' = [job EXCEPT ![c] = NoJob] /\ pc' = [pc EXCEPT ![c] = "recv"]
        \/ job' = [job EXCEPT ![c].i = job[c].i + 1] /\ pc' = pc /\ job[c].i \in 1..n
        \/ job' = job /\ pc' = [pc EXCEPT ![c] = "scanread"] /\ job[c].i \in 1..n
    BY <1>5, <1>0 DEF ScanTest, TypeOK
  <2>c. job' \in [Conn -> Job]
    <3>1. job[c].i \in 1..n => job[c].i + 1 \in 1..(MaxConn + 1)
      BY <2>a
    <3> QED
      BY <1>0, <2>b, <3>1, JobSteps DEF TypeOK
  <2>d. ScanInv'
    <3>1. \A d \in Conn \ {c} : job'[d].i = job[d].i /\ pc'[d] = pc[d]
      BY <1>0, <2>a, <2>b DEF TypeOK
    <3>2. pc'[c] \in {"scanread", "scansend"} => job' = job /\ job[c].i \in Conn
      BY <1>5, <2>a, <2>b DEF ScanTest, Conn
    <3> QED
      BY <1>0, <3>1, <3>2 DEF ScanInv
  <2>1. TypeOK' /\ ScanInv'
    BY <1>0, <1>5, <2>a, <2>b, <2>c, <2>d DEF ScanTest, TypeOK, Labels, Serving
  <2>2. MutexInv' /\ AcceptedInv' /\ CountsThreads'
    <3>1. CASE pc' = pc
      BY <1>5, <3>1, Stays DEF ScanTest
    <3>2. CASE pc' # pc
      BY <1>5, <2>a, <2>b, <3>2, Moves DEF ScanTest, Live, Labels, Serving, Critical
    <3> QED
      BY <3>1, <3>2
  <2> QED
    BY <2>1, <2>2 DEF ThreadInv
<1>6. CASE ScanRead(c)
  <2>a. job[c].i \in Conn /\ slots[job[c].i].sock \in Conn \cup {None}
    BY <1>0, <1>6 DEF ScanRead, ScanInv, TypeOK, Slot
  <2>b. job' \in [Conn -> Job] /\ job'[c].i \in Conn
    BY <1>0, <1>6, <2>a, JobSteps DEF ScanRead
  <2>1. TypeOK' /\ ScanInv'
    BY <1>0, <1>6, <2>b DEF ScanRead, TypeOK, ScanInv, Labels, Serving
  <2>2. MutexInv' /\ AcceptedInv' /\ CountsThreads'
    BY <1>0, <1>6, Moves DEF ScanRead, Live, Labels, Serving, Critical
  <2> QED
    BY <2>1, <2>2 DEF ThreadInv
<1>7. CASE ScanSend(c)
  <2>a. job[c].i + 1 \in 1..(MaxConn + 1)
    BY <1>0, <1>7, ConstAssumption DEF ScanSend, ScanSendThen, ScanInv, Conn
  <2>b. job' \in [Conn -> Job] /\ out' \subseteq (Conn \cup {None}) \X Msgs
    BY <1>0, <1>7, <2>a, JobSteps DEF ScanSend, ScanSendThen
  <2>1. TypeOK' /\ ScanInv'
    BY <1>0, <1>7, <2>b DEF ScanSend, ScanSendThen, TypeOK, ScanInv, Labels, Serving
  <2>2. MutexInv' /\ AcceptedInv' /\ CountsThreads'
    BY <1>0, <1>7, Moves DEF ScanSend, Live, Labels, Serving, Critical, ScanSendThen
  <2> QED
    BY <2>1, <2>2 DEF ThreadInv
<1>8. CASE Forward(c)
  <2>1. TypeOK' /\ ScanInv'
    BY <1>0, <1>8, SendTypes, JobTypes DEF Forward, TypeOK, ScanInv, Labels, Serving, Job, Msgs
  <2>2. MutexInv' /\ AcceptedInv' /\ CountsThreads'
    BY <1>0, <1>8, Moves DEF Forward, Live, Labels, Serving, Critical
  <2> QED
    BY <2>1, <2>2 DEF ThreadInv
<1>9. CASE ExitLock(c)
  <2>1. TypeOK' /\ ScanInv'
    BY <1>0, <1>9, SendTypes DEF ExitLock, TypeOK, ScanInv, Labels, Serving
  <2>2. MutexInv' /\ AcceptedInv' /\ CountsThreads'
    BY <1>0, <1>9, Moves DEF ExitLock, Live, Labels, Serving, Critical
  <2> QED
    BY <2>1, <2>2 DEF ThreadInv
<1>10. CASE ExitClear(c)
  <2>1. TypeOK' /\ ScanInv'
    BY <1>0, <1>10 DEF ExitClear, TypeOK, ScanInv, Labels, Serving, ExitClearTo
  <2>2. MutexInv' /\ AcceptedInv' /\ CountsThreads'
    BY <1>0, <1>a, <1>10, Moves DEF ExitClear, Live, Labels, Serving, Critical, ExitClearTo, MutexInv
  <2> QED
    BY <2>1, <2>2 DEF ThreadInv
<1>11. CASE ExitHandover(c)
  <2>a. pilot_adresat' \in Conn \cup {None} /\ out' \subseteq (Conn \cup {None}) \X Msgs
    <3>1. \A i \in 1..n : slots[i].sock \in Conn \cup {None}
      BY <1>0, ConstAssumption DEF TypeOK, Slot, Conn
    <3>2. "pilot=active" \in Msgs
      BY DEF Msgs
    <3>3. CASE \E i \in 1..n : pilot_adresat' = slots[i].sock
                               /\ out' = ToUser(slots[i].sock, "pilot=active")
      BY <1>0, <3>1, <3>2, <3>3, SendTypes
    <3>4. CASE pilot_adresat' = pilot_adresat /\ out' = {}
      BY <1>0, <3>4 DEF TypeOK
    <3> QED
      BY <1>11, <3>3, <3>4 DEF ExitHandover
  <2>1. TypeOK' /\ ScanInv'
    BY <1>0, <1>11, <2>a DEF ExitHandover, TypeOK, ScanInv, Labels, Serving
  <2>2. MutexInv' /\ AcceptedInv' /\ CountsThreads'
    BY <1>0, <1>a, <1>11, Moves DEF ExitHandover, Live, Labels, Serving, Critical, MutexInv
  <2> QED
    BY <2>1, <2>2 DEF ThreadInv
<1> QED
  BY <1>1, <1>2, <1>3, <1>4, <1>5, <1>6, <1>7, <1>8, <1>9, <1>10, <1>11 DEF Progress

\* A new connection: one more thread, one more entry.
LEMMA ThreadAccept ==
    ASSUME ThreadInv, Accept
    PROVE  ThreadInv'
<1> USE DEF net, table, local, roles, Goto
<1> DEFINE a == accepted + 1
<1>1. TypeOK /\ accepted \in Nat /\ accepted < MaxConn /\ a \in Conn /\ MaxConn \in Nat
  BY ConstAssumption DEF ThreadInv, TypeOK, Accept, AcceptAs, Conn
<1>2. n <= accepted
  BY ThreadsFinite DEF ThreadInv, CountsThreads, Threads
<1>3. n + 1 \in Conn /\ n + 1 \in 0..MaxConn
  BY <1>1, <1>2 DEF TypeOK, Conn
<1>4. pc[a] = "none" /\ pc' = [pc EXCEPT ![a] = "start"] /\ mutex' = mutex /\ accepted' = a
  BY <1>1 DEF ThreadInv, AcceptedInv, Accept, AcceptAs
<1>5. TypeOK' /\ ScanInv'
  <2>1. slots' \in [Conn -> Slot]
    BY <1>1, <1>3 DEF Accept, AcceptAs, TypeOK, Slot, EmptySlot, Modes
  <2> QED
    BY <1>1, <1>3, <1>4, <2>1 DEF ThreadInv, Accept, AcceptAs, TypeOK, ScanInv, Labels, Serving
<1>6. MutexInv'
  BY <1>1, <1>4 DEF ThreadInv, MutexInv, Critical, TypeOK
<1>7. AcceptedInv'
  BY <1>1, <1>4 DEF ThreadInv, AcceptedInv, TypeOK, Conn
<1>8. CountsThreads'
  <2>1. Threads' = Threads \cup {a} /\ a \notin Threads
    BY <1>1, <1>4 DEF Threads, Live, TypeOK
  <2>2. Cardinality(Threads') = n + 1
    BY <2>1, ThreadsFinite, FS_AddElement DEF ThreadInv, CountsThreads, Threads
  <2> QED
    BY <2>2 DEF CountsThreads, Threads, Accept, AcceptAs
<1> QED
  BY <1>5, <1>6, <1>7, <1>8 DEF ThreadInv

\* The end of a thread: one thread less, and n with it.
LEMMA ThreadRemove ==
    ASSUME ThreadInv, NEW c \in Conn, ExitRemove(c)
    PROVE  ThreadInv'
<1> USE DEF net, table, local, roles, Goto
<1>1. TypeOK /\ MaxConn \in Nat
  BY ConstAssumption DEF ThreadInv
<1>2. pc[c] = "remove" /\ pc' = [pc EXCEPT ![c] = "done"] /\ mutex' = None
      /\ n' = n - 1 /\ accepted' = accepted
  BY DEF ExitRemove, ExitRemoveTo
<1>3. c \in Threads /\ Threads' = Threads \ {c}
  BY <1>1, <1>2 DEF Threads, Live, TypeOK
<1>4. Cardinality(Threads') = n - 1 /\ n >= 1
  <2>1. IsFiniteSet(Threads) /\ n = Cardinality(Threads)
    BY ThreadsFinite DEF ThreadInv, CountsThreads, Threads
  <2>2. Cardinality(Threads \ {c}) = Cardinality(Threads) - 1
    BY <1>3, <2>1, FS_RemoveElement
  <2>3. Cardinality(Threads) # 0
    BY <1>3, <2>1, FS_EmptySet
  <2> QED
    BY <1>1, <1>3, <2>1, <2>2, <2>3 DEF TypeOK
<1>5. CountsThreads'
  BY <1>2, <1>4 DEF CountsThreads, Threads
<1>6. MutexInv'
  BY <1>1, <1>2, ConnFacts DEF ThreadInv, MutexInv, Critical, TypeOK
<1>7. AcceptedInv'
  BY <1>1, <1>2 DEF ThreadInv, AcceptedInv, TypeOK
<1>8. TypeOK' /\ ScanInv'
  <2>1. n - 1 \in 0..MaxConn
    BY <1>1, <1>4 DEF TypeOK
  <2>2. slots' \in [Conn -> Slot]
    BY <1>1 DEF ExitRemove, ExitRemoveTo, CloseGap, TypeOK, Conn
  <2>3. out' \subseteq (Conn \cup {None}) \X Msgs
    <3>1. "laptop=shutdown_ok" \in Msgs /\ "laptop=logout" \in Msgs
      BY DEF Msgs, Texts
    <3>2. \A i \in 1..n : slots[i].sd \in Conn \cup {None}
      BY <1>1 DEF TypeOK, Slot, Conn
    <3>3. \A last \in 0..n : PendingUpTo(last) \subseteq (Conn \cup {None}) \X Msgs
      BY <1>1, <3>1, <3>2, SendTypes DEF PendingUpTo, TypeOK
    <3>4. \A k, s : Logout(k, s) \subseteq (Conn \cup {None}) \X Msgs
      BY <1>1, <3>1, SendTypes DEF Logout
    <3>5. IdSock(sock[c]) \in 0..n /\ n \in 0..n
      BY <1>1, IdSockFacts DEF TypeOK
    <3> QED
      BY <3>3, <3>4, <3>5 DEF ExitRemove, ExitRemoveTo
  <2> QED
    BY <1>1, <1>2, <2>1, <2>2, <2>3 DEF ThreadInv, ExitRemove, ExitRemoveTo, TypeOK, ScanInv,
       Labels, Serving, Modes
<1> QED
  BY <1>5, <1>6, <1>7, <1>8 DEF ThreadInv

\* Every step keeps the thread invariant: Accept adds a thread and one to n,
\* ExitRemove takes both away.
LEMMA ThreadNext ==
    ASSUME ThreadInv, [Next]_vars
    PROVE  ThreadInv'
<1>1. CASE Accept
  BY <1>1, ThreadAccept
<1>2. CASE AcceptFails
  <2>1. TypeOK' /\ ScanInv'
    BY <1>2 DEF ThreadInv, AcceptFails, TypeOK, ScanInv, table, local, roles
  <2> QED
    BY <1>2, <2>1, Stays DEF ThreadInv, AcceptFails, table
<1>3. CASE UNCHANGED vars
  <2>1. TypeOK' /\ ScanInv'
    BY <1>3 DEF ThreadInv, TypeOK, ScanInv, vars, net, table, local, roles
  <2> QED
    BY <1>3, <2>1, Stays DEF ThreadInv, vars, net, table
<1>4. ASSUME NEW c \in Conn, Request(c) PROVE ThreadInv'
  BY <1>4, ThreadRequests
<1>5. ASSUME NEW c \in Conn, Progress(c) PROVE ThreadInv'
  BY <1>5, ThreadProgress, ThreadRemove
<1> QED
  BY <1>1, <1>2, <1>3, <1>4, <1>5 DEF Next, Stopped

\* The thread invariant holds in every behaviour.
THEOREM ThreadSafety == Spec => []ThreadInv
<1>1. ThreadInv /\ [Next]_vars => ThreadInv'
  BY ThreadNext
<1> QED
  BY <1>1, ThreadInit, PTL DEF Spec

-----------------------------------------------------------------------------
(* The table and the roles.                                                *)

\* The table starts empty, with both roles free.
LEMMA TableInit == Init => TableInv
BY ConnFacts DEF Init, TableInv, SocketInv, EntryInv, LoggedInv, RolesHeldByThreads,
   PilotInv, OwnEntry, Live, Conn, None

\* A thread that is being served, starts to be or stops: roles, sockets and
\* modes stay as they are.
LEMMA TableMoves ==
    ASSUME ThreadInv, TableInv, NEW c \in Conn,
           NEW l \in Serving \cup {"leave", "clear"},
           pc[c] \in Serving \cup {"join", "leave"}, pc' = [pc EXCEPT ![c] = l],
           UNCHANGED <<accepted, cl, n, sock, gpio_adresat, pilot_adresat>>,
           \A i \in 1..n : slots'[i].sock = slots[i].sock /\ slots'[i].tab = slots[i].tab,
           mutex' = mutex \/ mutex = None
    PROVE  TableInv'
<1>1. pc \in [Conn -> Labels] /\ c # None /\ \A d \in Conn : pc'[d] = IF d = c THEN l ELSE pc[d]
  BY ConnFacts DEF ThreadInv, TypeOK
<1>3. mutex # c /\ (mutex = None => \A d \in Conn : mutex # d)
  BY ConnFacts DEF ThreadInv, MutexInv, Critical, Serving
<1>4. SocketInv'
  BY <1>1 DEF TableInv, SocketInv, Serving
<1>5. EntryInv'
  BY DEF TableInv, EntryInv
<1>6. LoggedInv'
  BY <1>1 DEF TableInv, LoggedInv, Critical
<1>7. RolesHeldByThreads'
  BY <1>1 DEF TableInv, RolesHeldByThreads
<1>8. PilotInv'
  BY <1>1, <1>3 DEF TableInv, PilotInv
<1>9. OwnEntry'
  <2>1. Threads' = Threads
    BY <1>1 DEF Threads, Live, Serving
  <2>2. {slots'[i].sock : i \in 1..n} = {slots[i].sock : i \in 1..n}
    OBVIOUS
  <2> QED
    BY <2>1, <2>2 DEF TableInv, OwnEntry, Mixup, Threads
<1> QED
  BY <1>4, <1>5, <1>6, <1>7, <1>8, <1>9 DEF TableInv

\* A step that changes nothing TableInv speaks of.
LEMMA TableStays ==
    ASSUME ThreadInv, TableInv, UNCHANGED <<accepted, cl, n, sock, pc, mutex,
                                            slots, gpio_adresat, pilot_adresat>>
    PROVE  TableInv'
BY DEF TableInv, SocketInv, EntryInv, LoggedInv, RolesHeldByThreads, PilotInv,
   OwnEntry, Mixup, Live

\* A starting thread copies whatever socket cl holds by then; no entry and no
\* role depends on a thread that has not started.
LEMMA TableStart ==
    ASSUME ThreadInv, TableInv, NEW c \in Conn, ThreadStart(c)
    PROVE  TableInv'
<1> USE DEF net, table, local, roles, Goto
<1>1. /\ pc \in [Conn -> Labels] /\ sock \in [Conn -> Conn \cup {None}]
      /\ accepted \in Nat /\ accepted <= MaxConn /\ MaxConn \in Nat
  BY ConstAssumption DEF ThreadInv, TypeOK
<1>2. /\ pc[c] = "start" /\ sock[c] = None
      /\ \A d \in Conn : pc'[d] = IF d = c THEN "join" ELSE pc[d]
      /\ \A d \in Conn : sock'[d] = IF d = c THEN cl ELSE sock[d]
      /\ UNCHANGED <<accepted, cl, n, slots, mutex, gpio_adresat, pilot_adresat>>
  BY <1>1 DEF ThreadStart, TableInv, SocketInv
<1>3. cl \in 1..accepted
  BY <1>1, <1>2 DEF ThreadInv, AcceptedInv, TableInv, SocketInv, Conn
<1>4. SocketInv'
  BY <1>2, <1>3 DEF TableInv, SocketInv
<1>5. EntryInv'
  BY <1>2 DEF TableInv, EntryInv
<1>6. LoggedInv'
  BY <1>2 DEF TableInv, LoggedInv, Serving, Critical
<1>7. RolesHeldByThreads'
  BY <1>2 DEF TableInv, RolesHeldByThreads, Serving
<1>8. PilotInv'
  BY <1>2 DEF TableInv, PilotInv
<1>9. OwnEntry'
  <2>1. Threads' = Threads
    BY <1>2 DEF Threads, Live
  <2>2. ~Mixup' => ~Mixup
    BY <1>2 DEF Mixup
  <2> QED
    BY <1>2, <2>1, <2>2 DEF TableInv, OwnEntry, Threads
<1> QED
  BY <1>4, <1>5, <1>6, <1>7, <1>8, <1>9 DEF TableInv

\* A login: the thread's own entry takes the mode, a free role its socket.
LEMMA TableLogin ==
    ASSUME ThreadInv, TableInv, NEW c \in Conn, NEW mode \in 1..4, NEW l \in Serving,
           up, pc[c] = "recv", LoginAs(c, mode), pc' = [pc EXCEPT ![c] = l],
           gpio_adresat' \in {gpio_adresat, sock[c]},
           pilot_adresat' \in {pilot_adresat, sock[c]},
           mode = 2 => pilot_adresat' # None
    PROVE  TableInv'
<1> USE DEF net, LoginAs
<1>1. /\ pc \in [Conn -> Labels] /\ slots \in [Conn -> Slot] /\ n \in 0..MaxConn
      /\ accepted \in 0..MaxConn /\ MaxConn \in Nat /\ TypeOK
  BY ConstAssumption DEF ThreadInv, TypeOK
<1>2. /\ \A d \in Conn : pc'[d] = IF d = c THEN l ELSE pc[d]
      /\ sock[c] \in 1..accepted /\ sock[c] # None
      /\ mutex = None
      /\ UNCHANGED <<accepted, cl, n, sock, mutex>>
  BY <1>1 DEF TableInv, SocketInv, None
<1>3. \A i \in 1..n : /\ slots'[i].sock = slots[i].sock
                      /\ \/ slots'[i].tab = slots[i].tab
                         \/ slots'[i].tab = mode /\ slots[i].sock = sock[c]
  <2>1. IdSock(sock[c]) # 0 => slots[IdSock(sock[c])].sock = sock[c]
    BY <1>1, IdSockFacts
  <2>2. id'[c] = IdSock(sock[c])
    BY <1>1 DEF TypeOK
  <2>3. 1..n \subseteq Conn
    BY <1>1 DEF Conn
  <2> QED
    BY <1>1, <2>1, <2>2, <2>3 DEF Slot
<1>4. SocketInv'
  BY <1>2 DEF TableInv, SocketInv, Serving
<1>5. EntryInv'
  BY <1>2, <1>3 DEF TableInv, EntryInv
<1>6. LoggedInv'
  <2> SUFFICES ASSUME NEW i \in 1..n', slots'[i].tab # 0
               PROVE  \E d \in Conn : /\ sock'[d] = slots'[i].sock
                                      /\ pc'[d] \in Serving \cup Critical \cup {"leave"}
    BY DEF LoggedInv
  <2>0. n' = n /\ sock' = sock /\ i \in 1..n /\ slots'[i].sock = slots[i].sock
    BY <1>2, <1>3
  <2>1. CASE slots'[i].tab = slots[i].tab
    <3>1. PICK d \in Conn : /\ sock[d] = slots[i].sock
                            /\ pc[d] \in Serving \cup Critical \cup {"leave"}
      BY <2>0, <2>1 DEF TableInv, LoggedInv
    <3> QED
      BY <1>2, <2>0, <3>1
  <2>2. CASE slots[i].sock = sock[c]
    BY <1>2, <2>0, <2>2
  <2> QED
    BY <1>3, <2>0, <2>1, <2>2
<1>7. RolesHeldByThreads'
  BY <1>2 DEF TableInv, RolesHeldByThreads
<1>8. PilotInv'
  <2>1. \A d \in Conn : mutex # d
    BY <1>2, ConnFacts
  <2>2. CASE pilot_adresat' = None
    BY <1>2, <1>3, <2>1, <2>2 DEF TableInv, PilotInv
  <2> QED
    BY <2>2 DEF PilotInv
<1>9. OwnEntry'
  <2>1. Threads' = Threads
    BY <1>2 DEF Threads, Live, Serving
  <2>a. \A i \in 1..n : slots'[i].sock = slots[i].sock
    BY <1>3
  <2> HIDE DEF LoginAs
  <2>2. {slots'[i].sock : i \in 1..n} = {slots[i].sock : i \in 1..n}
    BY <2>a
  <2> QED
    BY <1>2, <2>1, <2>2 DEF TableInv, OwnEntry, Mixup, Threads
<1> QED
  BY <1>4, <1>5, <1>6, <1>7, <1>8, <1>9 DEF TableInv

\* A new entry holds a socket no other entry has, with no login.
LEMMA TableAccept ==
    ASSUME ThreadInv, TableInv, Accept
    PROVE  TableInv'
<1> USE DEF net, table, local, roles, Goto
<1> DEFINE a == accepted + 1
<1>1. /\ TypeOK /\ accepted \in Nat /\ accepted < MaxConn /\ a \in Conn
      /\ MaxConn \in Nat /\ n \in Nat
  BY ConstAssumption DEF ThreadInv, TypeOK, Accept, AcceptAs, Conn
<1>2. n <= accepted /\ n + 1 \in Conn
  BY <1>1, ThreadsFinite DEF ThreadInv, CountsThreads, Threads, Conn
<1>3. /\ pc[a] = "none" /\ \A d \in Conn : pc'[d] = IF d = a THEN "start" ELSE pc[d]
      /\ accepted' = a /\ cl' = a /\ n' = n + 1 /\ sock' = sock /\ mutex' = mutex
      /\ UNCHANGED <<gpio_adresat, pilot_adresat>>
      /\ mutex = None
  BY <1>1 DEF ThreadInv, AcceptedInv, Accept, AcceptAs, TypeOK
<1>4. /\ \A i \in 1..n : slots'[i] = slots[i]
      /\ slots'[n + 1].sock = a /\ slots'[n + 1].tab = 0
  BY <1>1, <1>2 DEF Accept, AcceptAs, EmptySlot, TypeOK, Conn
<1>5. SocketInv'
  BY <1>1, <1>3 DEF TableInv, SocketInv
<1>6. EntryInv'
  BY <1>1, <1>3, <1>4 DEF TableInv, EntryInv
<1>7. LoggedInv'
  BY <1>1, <1>3, <1>4 DEF TableInv, LoggedInv, Serving, Critical
<1>8. RolesHeldByThreads'
  BY <1>3 DEF TableInv, RolesHeldByThreads, Serving
<1>9. PilotInv'
  BY <1>1, <1>3, <1>4, ConnFacts DEF TableInv, PilotInv
<1>10. OwnEntry'
  <2>1. Threads' = Threads \cup {a}
    BY <1>1, <1>3 DEF Threads, Live
  <2>2. {slots'[i].sock : i \in 1..(n + 1)} = {slots[i].sock : i \in 1..n} \cup {a}
    BY <1>1, <1>4
  <2> QED
    BY <1>3, <2>1, <2>2 DEF TableInv, OwnEntry, Mixup, Threads
<1> QED
  BY <1>5, <1>6, <1>7, <1>8, <1>9, <1>10 DEF TableInv

\* The departure: the roles go first, then the entry.
LEMMA TableClear ==
    ASSUME ThreadInv, TableInv, NEW c \in Conn, ExitClear(c)
    PROVE  TableInv'
<1> USE DEF net, table, local, roles, Goto
<1>1. /\ pc \in [Conn -> Labels] /\ pc[c] = "clear"
      /\ UNCHANGED <<accepted, cl, n, slots, sock, mutex>>
      /\ gpio_adresat' = IF gpio_adresat = sock[c] THEN None ELSE gpio_adresat
      /\ pilot_adresat' = IF pilot_adresat = sock[c] THEN None ELSE pilot_adresat
      /\ \A d \in Conn : pc'[d] = IF d = c
                                    THEN IF pilot_adresat = sock[c] THEN "handover" ELSE "remove"
                                    ELSE pc[d]
  BY DEF ExitClear, ExitClearTo, ThreadInv, TypeOK
<1>2. mutex = c /\ \A d \in Conn : mutex = d => d = c
  BY <1>1 DEF ThreadInv, MutexInv, Critical
<1>3. SocketInv'
  BY <1>1 DEF TableInv, SocketInv
<1>4. EntryInv'
  BY <1>1 DEF TableInv, EntryInv
<1>5. LoggedInv'
  BY <1>1 DEF TableInv, LoggedInv, Critical
<1>6. RolesHeldByThreads'
  <2>1. ASSUME gpio_adresat' # None
        PROVE  \E d \in Conn : /\ sock'[d] = gpio_adresat'
                               /\ pc'[d] \in Serving \cup {"leave", "clear"}
    BY <1>1, <2>1 DEF TableInv, RolesHeldByThreads
  <2>2. ASSUME pilot_adresat' # None
        PROVE  \E d \in Conn : /\ sock'[d] = pilot_adresat'
                               /\ pc'[d] \in Serving \cup {"leave", "clear"}
    BY <1>1, <2>2 DEF TableInv, RolesHeldByThreads
  <2> QED
    BY <2>1, <2>2 DEF RolesHeldByThreads
<1>7. PilotInv'
  <2>1. CASE pilot_adresat = sock[c]
    BY <1>1, <1>2, <2>1 DEF PilotInv
  <2>2. CASE pilot_adresat # sock[c]
    BY <1>1, <1>2, <2>2 DEF TableInv, PilotInv
  <2> QED
    BY <2>1, <2>2
<1>8. OwnEntry'
  <2>1. Threads' = Threads
    BY <1>1 DEF Threads, Live
  <2> QED
    BY <1>1, <2>1 DEF TableInv, OwnEntry, Mixup, Threads
<1> QED
  BY <1>3, <1>4, <1>5, <1>6, <1>7, <1>8 DEF TableInv

\* The active pilot hands over to the first pilot left in the table, or to none.
LEMMA TableHandover ==
    ASSUME ThreadInv, TableInv, NEW c \in Conn, ExitHandover(c)
    PROVE  TableInv'
<1> USE DEF net, table, local, roles, Goto
<1>1. /\ pc \in [Conn -> Labels] /\ pc[c] = "handover"
      /\ UNCHANGED <<accepted, cl, n, slots, sock, mutex, gpio_adresat>>
      /\ \A d \in Conn : pc'[d] = IF d = c THEN "remove" ELSE pc[d]
  BY DEF ExitHandover, ThreadInv, TypeOK
<1>2. \/ \E i \in 1..n : Heir(i, sock[c]) /\ pilot_adresat' = slots[i].sock
      \/ (\A i \in 1..n : ~Heir(i, sock[c])) /\ pilot_adresat' = pilot_adresat
  BY DEF ExitHandover
<1>3. mutex = c /\ \A d \in Conn : pc[d] \in Critical => d = c
  BY <1>1 DEF ThreadInv, MutexInv, Critical
<1>4. SocketInv'
  BY <1>1 DEF TableInv, SocketInv
<1>5. EntryInv'
  BY <1>1 DEF TableInv, EntryInv
<1>6. LoggedInv'
  BY <1>1 DEF TableInv, LoggedInv, Critical
<1>7. RolesHeldByThreads'
  <2>1. gpio_adresat' # None =>
          \E d \in Conn : /\ sock'[d] = gpio_adresat'
                          /\ pc'[d] \in Serving \cup {"leave", "clear"}
    BY <1>1 DEF TableInv, RolesHeldByThreads, Serving
  <2>2. CASE pilot_adresat' = pilot_adresat
    BY <1>1, <2>1, <2>2 DEF TableInv, RolesHeldByThreads, Serving
  <2>3. CASE \E i \in 1..n : Heir(i, sock[c]) /\ pilot_adresat' = slots[i].sock
    <3>1. PICK i \in 1..n : Heir(i, sock[c]) /\ pilot_adresat' = slots[i].sock
      BY <2>3
    <3>2. PICK d \in Conn : /\ sock[d] = slots[i].sock
                            /\ pc[d] \in Serving \cup Critical \cup {"leave"}
      BY <3>1 DEF TableInv, LoggedInv, Heir
    <3>3. d # c /\ pc'[d] \in Serving \cup {"leave", "clear"}
      BY <1>1, <1>3, <3>1, <3>2 DEF Heir
    <3> QED
      BY <1>1, <2>1, <3>1, <3>2, <3>3 DEF RolesHeldByThreads
  <2> QED
    BY <1>2, <2>2, <2>3
<1>8. PilotInv'
  <2>1. CASE \A i \in 1..n : ~Heir(i, sock[c])
    BY <1>1, <1>3, <2>1 DEF PilotInv, Heir
  <2>2. CASE \E i \in 1..n : pilot_adresat' = slots[i].sock
    <3>1. pilot_adresat' # None
      BY <2>2, ConstAssumption DEF TableInv, EntryInv, ThreadInv, TypeOK, None
    <3> QED
      BY <3>1 DEF PilotInv
  <2> QED
    BY <1>2, <2>1, <2>2
<1>9. OwnEntry'
  <2>1. Threads' = Threads
    BY <1>1 DEF Threads, Live
  <2> QED
    BY <1>1, <2>1 DEF TableInv, OwnEntry, Mixup, Threads
<1> QED
  BY <1>4, <1>5, <1>6, <1>7, <1>8, <1>9 DEF TableInv

\* Closing the gap keeps every entry but the leaving one.
LEMMA GapClosed ==
    ASSUME TypeOK, n >= 1, NEW own \in 0..n
    PROVE  /\ \A i \in 1..(n - 1) : \E k \in 1..n :
                 k # own /\ CloseGap(own)[i] = slots[k]
                 /\ k = (IF own # 0 /\ i >= own THEN i + 1 ELSE i)
           /\ own # 0 => \A k \in 1..n : k # own =>
                           \E i \in 1..(n - 1) : CloseGap(own)[i] = slots[k]
<1>1. n \in Nat /\ MaxConn \in Nat /\ n <= MaxConn
  BY ConstAssumption DEF TypeOK
<1>2. \A i \in 1..(n - 1) :
        CloseGap(own)[i] = slots[IF own # 0 /\ i >= own THEN i + 1 ELSE i]
  BY <1>1 DEF CloseGap, Conn
<1>3. \A i \in 1..(n - 1) : \E k \in 1..n :
        k # own /\ CloseGap(own)[i] = slots[k]
        /\ k = (IF own # 0 /\ i >= own THEN i + 1 ELSE i)
  BY <1>1, <1>2
<1>4. ASSUME own # 0, NEW k \in 1..n, k # own
      PROVE  \E i \in 1..(n - 1) : CloseGap(own)[i] = slots[k]
  <2>1. CASE k < own
    BY <1>1, <1>2, <1>4, <2>1
  <2>2. CASE k > own
    <3>1. k - 1 \in 1..(n - 1) /\ k - 1 >= own /\ (k - 1) + 1 = k
      BY <1>1, <1>4, <2>2
    <3> QED
      BY <1>2, <1>4, <3>1
  <2> QED
    BY <1>1, <1>4, <2>1, <2>2
<1> QED
  BY <1>3, <1>4

\* Closing the gap takes the entry of the leaving thread out, or the last one
\* if it has none; the entries left keep their threads.
LEMMA TableRemove ==
    ASSUME ThreadInv, TableInv, NEW c \in Conn, ExitRemove(c)
    PROVE  TableInv'
<1> USE DEF net, table, local, roles, Goto
<1> DEFINE own == IdSock(sock[c])
<1>1. /\ TypeOK /\ pc \in [Conn -> Labels] /\ pc[c] = "remove" /\ n \in Nat
      /\ UNCHANGED <<accepted, cl, sock, gpio_adresat, pilot_adresat>>
      /\ slots' = CloseGap(own) /\ n' = n - 1 /\ mutex' = None
      /\ \A d \in Conn : pc'[d] = IF d = c THEN "done" ELSE pc[d]
  BY DEF ExitRemove, ExitRemoveTo, ThreadInv, TypeOK
<1>2. /\ own \in 0..n
      /\ own # 0 => own \in 1..n /\ slots[own].sock = sock[c]
      /\ own = 0 => \A i \in 1..n : slots[i].sock # sock[c]
  BY <1>1, IdSockFacts DEF Registered
<1>3. mutex = c /\ (\A d \in Conn : mutex = d => d = c) /\ n >= 1
  <2>1. c \in Threads /\ n = Cardinality(Threads) /\ IsFiniteSet(Threads)
    BY <1>1, ThreadsFinite DEF Threads, Live, ThreadInv, CountsThreads
  <2>2. n # 0
    BY <2>1, FS_EmptySet
  <2> QED
    BY <1>1, <2>2 DEF ThreadInv, MutexInv, Critical
<1> HIDE DEF own
<1>4. \A i \in 1..(n - 1) : \E k \in 1..n :
        /\ k # own /\ slots'[i] = slots[k]
        /\ k = (IF own # 0 /\ i >= own THEN i + 1 ELSE i)
  <2> DEFINE gap == CloseGap(own)
  <2>1. TypeOK /\ n >= 1 /\ own \in 0..n
    BY <1>1, <1>2, <1>3
  <2>2. \A i \in 1..(n - 1) : \E k \in 1..n :
          k # own /\ gap[i] = slots[k]
          /\ k = (IF own # 0 /\ i >= own THEN i + 1 ELSE i)
    BY <2>1, GapClosed
  <2> HIDE DEF gap
  <2>3. slots' = gap
    BY <1>1 DEF gap
  <2> QED
    BY <2>2, <2>3
<1>5. \A k \in 1..n : k # own => slots[k].sock # sock[c]
  BY <1>2 DEF TableInv, EntryInv
<1>6. SocketInv'
  BY <1>1 DEF TableInv, SocketInv
<1>7. EntryInv'
  <2>1. \A i \in 1..(n - 1) : slots'[i].sock \in 1..accepted
    BY <1>4 DEF TableInv, EntryInv
  <2>2. ASSUME NEW i \in 1..(n - 1), NEW j \in 1..(n - 1), slots'[i].sock = slots'[j].sock
        PROVE  i = j
    <3>1. PICK k \in 1..n : /\ slots'[i] = slots[k]
                            /\ k = (IF own # 0 /\ i >= own THEN i + 1 ELSE i)
      BY <1>4
    <3>2. PICK m \in 1..n : /\ slots'[j] = slots[m]
                            /\ m = (IF own # 0 /\ j >= own THEN j + 1 ELSE j)
      BY <1>4
    <3>3. k = m
      BY <2>2, <3>1, <3>2 DEF TableInv, EntryInv
    <3> QED
      BY <1>1, <1>2, <3>1, <3>2, <3>3
  <2> QED
    BY <1>1, <2>1, <2>2 DEF EntryInv
<1>8. LoggedInv'
  <2> SUFFICES ASSUME NEW i \in 1..(n - 1), slots'[i].tab # 0
               PROVE  \E d \in Conn : /\ sock'[d] = slots'[i].sock
                                      /\ pc'[d] \in Serving \cup Critical \cup {"leave"}
    BY <1>1 DEF LoggedInv
  <2>1. PICK k \in 1..n : k # own /\ slots'[i] = slots[k]
    BY <1>4
  <2>2. PICK d \in Conn : /\ sock[d] = slots[k].sock
                          /\ pc[d] \in Serving \cup Critical \cup {"leave"}
    BY <2>1 DEF TableInv, LoggedInv
  <2>3. d # c
    BY <1>5, <2>1, <2>2
  <2> QED
    BY <1>1, <2>1, <2>2, <2>3
<1>9. RolesHeldByThreads'
  BY <1>1 DEF TableInv, RolesHeldByThreads, Serving
<1>10. PilotInv'
  <2> SUFFICES ASSUME pilot_adresat = None, NEW i \in 1..(n - 1), slots'[i].tab = 2
               PROVE  FALSE
    BY <1>1 DEF PilotInv
  <2>1. PICK k \in 1..n : k # own /\ slots'[i] = slots[k]
    BY <1>4
  <2>2. slots[k].sock = sock[c]
    BY <1>1, <1>3, <2>1 DEF TableInv, PilotInv
  <2> QED
    BY <1>5, <2>1, <2>2
<1>11. OwnEntry'
  <2> SUFFICES ASSUME ~Mixup'
               PROVE  {slots'[i].sock : i \in 1..(n - 1)} = Threads'
    BY <1>1 DEF OwnEntry, Threads
  <2>1. {slots[i].sock : i \in 1..n} = Threads /\ sock[c] = c
    BY <1>1 DEF TableInv, OwnEntry, Mixup, Threads, SocketInv, None
  <2>2. c \in Threads /\ Threads' = Threads \ {c}
    BY <1>1 DEF Threads, Live
  <2>3. own # 0
    BY <1>2, <2>1, <2>2
  <2>4. \A k \in 1..n : k # own => \E i \in 1..(n - 1) : slots'[i] = slots[k]
    <3> DEFINE gap == CloseGap(own)
    <3>1. TypeOK /\ n >= 1 /\ own \in 0..n
      BY <1>1, <1>2, <1>3
    <3>2. \A k \in 1..n : k # own => \E i \in 1..(n - 1) : gap[i] = slots[k]
      BY <2>3, <3>1, GapClosed
    <3> HIDE DEF gap
    <3>3. slots' = gap
      BY <1>1 DEF gap
    <3> QED
      BY <3>2, <3>3
  <2>5. {slots'[i].sock : i \in 1..(n - 1)} \subseteq Threads \ {c}
    BY <1>4, <1>5, <2>1
  <2>6. ASSUME NEW d \in Threads, d # c
        PROVE  d \in {slots'[i].sock : i \in 1..(n - 1)}
    <3>1. PICK k \in 1..n : slots[k].sock = d
      BY <2>1
    <3>2. k # own
      BY <1>2, <2>1, <2>6, <3>1
    <3>3. PICK i \in 1..(n - 1) : slots'[i] = slots[k]
      BY <2>4, <3>2
    <3> QED
      BY <3>1, <3>3
  <2> QED
    BY <2>2, <2>5, <2>6
<1> QED
  BY <1>6, <1>7, <1>8, <1>9, <1>10, <1>11 DEF TableInv

\* Requests change the mode of an entry or a role, never which sockets the
\* table lists.
LEMMA TableRequests ==
    ASSUME ThreadInv, TableInv, NEW c \in Conn, Request(c)
    PROVE  TableInv'
<1> USE DEF net, table, local, roles, Goto, Receives
<1>0. /\ TypeOK /\ pc \in [Conn -> Labels] /\ n \in 0..MaxConn /\ MaxConn \in Nat
      /\ 1..n \subseteq Conn
  BY ConstAssumption DEF ThreadInv, TypeOK, Conn
<1>1. CASE Hangup(c)
  BY <1>0, <1>1, TableMoves DEF Hangup, Serving
<1>2. CASE Exit(c)
  BY <1>0, <1>2, TableMoves DEF Exit, Serving
<1>3. CASE LoginGpio(c)
  <2> DEFINE l == IF AutoOnOff THEN "auto" ELSE "recv"
  <2>1. l \in Serving /\ 1 \in 1..4 /\ up /\ pc[c] = "recv" /\ LoginAs(c, 1)
        /\ pc' = [pc EXCEPT ![c] = l]
    <3>1. l \in Serving
      BY DEF Serving
    <3> HIDE DEF l
    <3>2. up /\ pc[c] = "recv" /\ LoginAs(c, 1)
      BY <1>3 DEF LoginGpio
    <3>3. pc' = [pc EXCEPT ![c] = l]
      BY <1>3 DEF LoginGpio, l
    <3> QED
      BY <3>1, <3>2, <3>3
  <2>2. /\ gpio_adresat' \in {gpio_adresat, sock[c]}
        /\ pilot_adresat' \in {pilot_adresat, sock[c]}
    BY <1>3 DEF LoginGpio
  <2>3. 1 = 2 => pilot_adresat' # None
    OBVIOUS
  <2> QED
    BY <2>1, <2>2, <2>3, TableLogin
<1>4. CASE LoginPilot(c)
  <2> DEFINE l == "recv"
  <2>1. l \in Serving /\ 2 \in 1..4 /\ up /\ pc[c] = "recv" /\ LoginAs(c, 2)
        /\ pc' = [pc EXCEPT ![c] = l]
    BY <1>0, <1>4 DEF LoginPilot, Serving
  <2>2. /\ gpio_adresat' \in {gpio_adresat, sock[c]}
        /\ pilot_adresat' \in {pilot_adresat, sock[c]}
    BY <1>4 DEF LoginPilot
  <2>3. 2 = 2 => pilot_adresat' # None
    BY <1>0, <1>4, ConstAssumption DEF LoginPilot, TableInv, SocketInv, None, TypeOK
  <2> QED
    BY <2>1, <2>2, <2>3, TableLogin
<1>5. CASE LoginLaptop(c)
  <2> DEFINE l == "recv"
  <2>1. l \in Serving /\ 3 \in 1..4 /\ up /\ pc[c] = "recv" /\ LoginAs(c, 3)
        /\ pc' = [pc EXCEPT ![c] = l]
    BY <1>0, <1>5 DEF LoginLaptop, Serving
  <2>2. /\ gpio_adresat' \in {gpio_adresat, sock[c]}
        /\ pilot_adresat' \in {pilot_adresat, sock[c]}
    BY <1>5 DEF LoginLaptop
  <2>3. 3 = 2 => pilot_adresat' # None
    OBVIOUS
  <2> QED
    BY <2>1, <2>2, <2>3, TableLogin
<1>6. CASE LoginMonitor(c)
  <2> DEFINE l == "recv"
  <2>1. l \in Serving /\ 4 \in 1..4 /\ up /\ pc[c] = "recv" /\ LoginAs(c, 4)
        /\ pc' = [pc EXCEPT ![c] = l]
    BY <1>0, <1>6 DEF LoginMonitor, Serving
  <2>2. /\ gpio_adresat' \in {gpio_adresat, sock[c]}
        /\ pilot_adresat' \in {pilot_adresat, sock[c]}
    BY <1>6 DEF LoginMonitor
  <2>3. 4 = 2 => pilot_adresat' # None
    OBVIOUS
  <2> QED
    BY <2>1, <2>2, <2>3, TableLogin
<1>7. CASE \E v \in {0, 1} : PilotFull(c, v)
  BY <1>7, TableStays DEF PilotFull
<1>8. CASE \E r \in Requests : GpioSet(c, r)
  BY <1>0, <1>8, TableMoves DEF GpioSet, Reply, Serving
<1>9. CASE \E r \in Requests : Ignored(c, r)
  BY <1>0, <1>9, TableMoves DEF Ignored, Reply, Serving
<1>10. CASE \E r \in Requests : ScanStart(c, r)
  BY <1>0, <1>10, TableMoves DEF ScanStart, Serving
<1>11. CASE Query(c)
  BY <1>0, <1>11, TableMoves DEF Query, Reply, Serving
<1>12. CASE StatusRead(c)
  BY <1>0, <1>12, TableMoves DEF StatusRead, Serving
<1>13. CASE \E text \in Texts, a \in 1..accepted : LaptopReply(c, text, a)
  <2>0. PICK text \in Texts, a \in 1..accepted : LaptopReply(c, text, a)
    BY <1>13
  <2>1. a \in Conn
    BY <1>0 DEF TypeOK, Conn
  <2>2. \A i \in 1..n : slots'[i].sock = slots[i].sock /\ slots'[i].tab = slots[i].tab
    BY <1>0, <2>0, <2>1, SetPendingTypes DEF LaptopReply
  <2> QED
    BY <1>0, <2>0, <2>2, TableMoves DEF LaptopReply, Serving
<1> QED
  BY <1>1, <1>2, <1>3, <1>4, <1>5, <1>6, <1>7, <1>8, <1>9, <1>10, <1>11, <1>12, <1>13 DEF Request

\* The steps a thread takes by itself keep the table invariant.
LEMMA TableProgress ==
    ASSUME ThreadInv, TableInv, NEW c \in Conn, Progress(c)
    PROVE  TableInv'
<1> USE DEF net, table, local, roles, Goto
<1>0. TypeOK /\ pc \in [Conn -> Labels]
  BY DEF ThreadInv, TypeOK
<1>1. CASE ThreadStart(c)
  BY <1>1, TableStart
<1>2. CASE Join(c)
  BY <1>0, <1>2, TableMoves DEF Join, Serving
<1>3. CASE AutoOn(c)
  BY <1>0, <1>3, TableMoves DEF AutoOn, Serving
<1>4. CASE StatusSend(c)
  BY <1>0, <1>4, TableMoves DEF StatusSend, Serving
<1>5. CASE ScanTest(c)
  <2>1. CASE pc' = pc
    BY <1>5, <2>1, TableStays DEF ScanTest
  <2>2. CASE pc' # pc
    BY <1>0, <1>5, <2>2, TableMoves DEF ScanTest, Serving
  <2> QED
    BY <2>1, <2>2
<1>6. CASE ScanRead(c)
  BY <1>0, <1>6, TableMoves DEF ScanRead, Serving
<1>7. CASE ScanSend(c)
  BY <1>0, <1>7, TableMoves DEF ScanSend, ScanSendThen, Serving
<1>8. CASE Forward(c)
  BY <1>0, <1>8, TableMoves DEF Forward, Serving
<1>9. CASE ExitLock(c)
  BY <1>0, <1>9, TableMoves DEF ExitLock, Serving
<1>10. CASE ExitClear(c)
  BY <1>10, TableClear
<1>11. CASE ExitHandover(c)
  BY <1>11, TableHandover
<1>12. CASE ExitRemove(c)
  BY <1>12, TableRemove
<1> QED
  BY <1>1, <1>2, <1>3, <1>4, <1>5, <1>6, <1>7, <1>8, <1>9, <1>10, <1>11, <1>12 DEF Progress

\* Every step keeps the table invariant.
LEMMA TableNext ==
    ASSUME ThreadInv, TableInv, [Next]_vars
    PROVE  TableInv'
<1>1. CASE Accept
  BY <1>1, TableAccept
<1>2. CASE AcceptFails
  BY <1>2, TableStays DEF AcceptFails, table, local, roles
<1>3. CASE UNCHANGED vars
  BY <1>3, TableStays DEF vars, net, table, local, roles
<1>4. ASSUME NEW c \in Conn, Request(c) PROVE TableInv'
  BY <1>4, TableRequests
<1>5. ASSUME NEW c \in Conn, Progress(c) PROVE TableInv'
  BY <1>5, TableProgress
<1> QED
  BY <1>1, <1>2, <1>3, <1>4, <1>5 DEF Next, Stopped

\* The inductive invariant of the table holds in every behaviour.
THEOREM TableSafety == Spec => [](ThreadInv /\ TableInv)
<1>1. Init => ThreadInv /\ TableInv
  BY ThreadInit, TableInit
<1>2. ThreadInv /\ TableInv /\ [Next]_vars => (ThreadInv /\ TableInv)'
  BY ThreadNext, TableNext
<1> QED
  BY <1>1, <1>2, PTL DEF Spec

-----------------------------------------------------------------------------
(* What a reader of the code wants to know.                                *)

\* Every variable stays in its range, n and the indexes of the scans above
\* all: main's clients[n] and the loops of recvmg stay inside the arrays as
\* long as the arrays have a place for every connection.
THEOREM TypeCorrect == Spec => []TypeOK
<1>1. ThreadInv => TypeOK
  BY DEF ThreadInv
<1> QED
  BY <1>1, ThreadSafety, PTL

\* n of recvmg counts the threads that have not ended.
THEOREM CountCorrect == Spec => []CountsThreads
<1>1. ThreadInv => CountsThreads
  BY DEF ThreadInv
<1> QED
  BY <1>1, ThreadSafety, PTL

\* gpio_adresat and pilot_adresat never outlive the thread of their client.
THEOREM RolesCorrect == Spec => []RolesHeldByThreads
<1>1. TableInv => RolesHeldByThreads
  BY DEF TableInv
<1> QED
  BY <1>1, TableSafety, PTL

\* A pilot in the table means an active pilot, outside the last critical
\* section of recvmg.
THEOREM PilotCorrect == Spec => []PilotAvailable
<1>1. TableInv => PilotAvailable
  BY DEF TableInv, PilotInv, PilotAvailable
<1> QED
  BY <1>1, TableSafety, PTL

\* Without a mixed-up socket the table lists the running connections.
THEOREM OwnEntryCorrect == Spec => []OwnEntry
<1>1. TableInv => OwnEntry
  BY DEF TableInv
<1> QED
  BY <1>1, TableSafety, PTL

-----------------------------------------------------------------------------
(* Who changes the roles and who shortens the table.                       *)

\* Apart from a pilot's login, no request touches pilot_adresat, sends a
\* thread into the hand-over or shortens the table.
LEMMA RequestFrame ==
    ASSUME TypeOK, NEW c \in Conn, Request(c)
    PROVE  /\ n' = n
           /\ LoginPilot(c) \/ pilot_adresat' = pilot_adresat
           /\ \A d \in Conn : pc'[d] = "handover" => pc[d] = "handover"
<1> USE DEF net, table, local, roles, Goto, Receives, TypeOK
<1>1. CASE Hangup(c) \/ Exit(c)
  BY <1>1 DEF Hangup, Exit
<1>2. CASE LoginGpio(c) \/ LoginPilot(c) \/ LoginLaptop(c) \/ LoginMonitor(c)
  BY <1>2 DEF LoginGpio, LoginPilot, LoginLaptop, LoginMonitor, LoginAs
<1>3. CASE \E v \in {0, 1} : PilotFull(c, v)
  BY <1>3 DEF PilotFull
<1>4. CASE \E r \in Requests : GpioSet(c, r) \/ Ignored(c, r) \/ ScanStart(c, r)
  BY <1>4 DEF GpioSet, Ignored, ScanStart, Reply
<1>5. CASE Query(c) \/ StatusRead(c)
  BY <1>5 DEF Query, StatusRead, Reply
<1>6. CASE \E text \in Texts, a \in 1..accepted : LaptopReply(c, text, a)
  BY <1>6 DEF LaptopReply
<1> QED
  BY <1>1, <1>2, <1>3, <1>4, <1>5, <1>6 DEF Request

\* Of the thread's own steps only its departure does.
LEMMA ProgressFrame ==
    ASSUME TypeOK, NEW c \in Conn, Progress(c)
    PROVE  /\ ExitRemove(c) \/ n' = n
           /\ ExitClear(c) \/ ExitHandover(c) \/ pilot_adresat' = pilot_adresat
           /\ ExitClear(c) \/ \A d \in Conn : pc'[d] = "handover" => pc[d] = "handover"
<1> USE DEF net, table, local, roles, Goto, TypeOK
<1>1. CASE ThreadStart(c) \/ Join(c) \/ AutoOn(c) \/ StatusSend(c)
  BY <1>1 DEF ThreadStart, Join, AutoOn, StatusSend
<1>2. CASE ScanTest(c) \/ ScanRead(c) \/ ScanSend(c) \/ Forward(c)
  BY <1>2 DEF ScanTest, ScanRead, ScanSend, ScanSendThen, Forward
<1>3. CASE ExitLock(c) \/ ExitHandover(c)
  BY <1>3 DEF ExitLock, ExitHandover
<1>4. CASE ExitClear(c)
  BY <1>4 DEF ExitClear, ExitClearTo
<1>5. CASE ExitRemove(c)
  BY <1>5 DEF ExitRemove, ExitRemoveTo
<1> QED
  BY <1>1, <1>2, <1>3, <1>4, <1>5 DEF Progress

\* While a departing pilot hands over nobody holds the role.
HandoverInv == \A d \in Conn : pc[d] = "handover" => pilot_adresat = None

\* During the handover the role is free, and nobody else can take it: the
\* mutex is held.
LEMMA HandoverNext ==
    ASSUME ThreadInv, HandoverInv, [Next]_vars
    PROVE  HandoverInv'
<1>0. TypeOK /\ MutexInv /\ pc \in [Conn -> Labels]
  BY DEF ThreadInv, TypeOK
<1>1. CASE UNCHANGED vars \/ AcceptFails
  BY <1>1 DEF HandoverInv, vars, AcceptFails, roles
<1>2. CASE Accept
  BY <1>0, <1>2 DEF HandoverInv, Accept, AcceptAs, Goto, roles
<1>3. ASSUME NEW c \in Conn, Request(c) PROVE HandoverInv'
  <2>1. LoginPilot(c) => \A d \in Conn : pc'[d] # "handover"
    BY <1>0, ConnFacts DEF LoginPilot, LoginAs, MutexInv, Critical
  <2> QED
    BY <1>0, <1>3, <2>1, RequestFrame DEF HandoverInv
<1>4. ASSUME NEW c \in Conn, Progress(c) PROVE HandoverInv'
  <2>1. CASE ExitClear(c)
    <3>1. \A d \in Conn : d # c => pc'[d] # "handover"
      BY <1>0, <2>1, ConnFacts DEF ExitClear, ExitClearTo, MutexInv, Critical, Goto
    <3>2. pc'[c] = "handover" => pilot_adresat' = None
      BY <1>0, <2>1 DEF ExitClear, ExitClearTo, Goto
    <3> QED
      BY <3>1, <3>2 DEF HandoverInv
  <2>2. CASE ExitHandover(c)
    BY <1>0, <2>2, ConnFacts DEF HandoverInv, ExitHandover, MutexInv, Critical, Goto
  <2>3. CASE ~ExitClear(c) /\ ~ExitHandover(c)
    BY <1>0, <1>4, <2>3, ProgressFrame DEF HandoverInv
  <2> QED
    BY <2>1, <2>2, <2>3
<1> QED
  BY <1>1, <1>2, <1>3, <1>4 DEF Next, Stopped

\* Every reachable state satisfies the whole inductive invariant.
THEOREM HandoverSafety == Spec => [](ThreadInv /\ TableInv /\ HandoverInv)
<1>1. Init => HandoverInv
  BY DEF Init, HandoverInv
<1>2. ThreadInv /\ TableInv /\ HandoverInv /\ [Next]_vars => HandoverInv'
  BY HandoverNext
<1> QED
  BY <1>1, <1>2, TableSafety, PTL DEF Spec

\* The pilot role passes only from a client that leaves, and its new holder
\* is told.
THEOREM PilotRoleCorrect == Spec => PilotRoleKept
<1> DEFINE Kept == pilot_adresat' # pilot_adresat =>
                     /\ pilot_adresat # None =>
                          \E c \in Conn : pc[c] = "clear" /\ sock[c] = pilot_adresat
                     /\ pilot_adresat' # None /\ Registered(pilot_adresat') =>
                          <<pilot_adresat', "pilot=active">> \in out'
<1>1. ASSUME ThreadInv, TableInv, HandoverInv, [Next]_vars PROVE Kept
  <2> SUFFICES ASSUME pilot_adresat' # pilot_adresat PROVE Kept
    OBVIOUS
  <2>0. TypeOK
    BY <1>1 DEF ThreadInv
  <2>1. ~(UNCHANGED vars) /\ ~AcceptFails /\ ~Accept
    BY DEF vars, roles, AcceptFails, Accept, AcceptAs
  <2>2. PICK c \in Conn : LoginPilot(c) \/ ExitClear(c) \/ ExitHandover(c)
    BY <1>1, <2>0, <2>1, RequestFrame, ProgressFrame DEF Next, Stopped
  <2>3. CASE LoginPilot(c)
    BY <2>3 DEF LoginPilot, ToUser
  <2>4. CASE ExitClear(c)
    BY <2>4 DEF ExitClear, ExitClearTo
  <2>5. CASE ExitHandover(c)
    <3>1. pilot_adresat = None
      BY <1>1, <2>5 DEF HandoverInv, ExitHandover
    <3>2. Registered(pilot_adresat') => <<pilot_adresat', "pilot=active">> \in out'
      BY <2>5 DEF ExitHandover, ToUser
    <3> QED
      BY <3>1, <3>2
  <2> QED
    BY <2>2, <2>3, <2>4, <2>5
<1>2. ThreadInv /\ TableInv /\ HandoverInv /\ [Next]_vars => [Kept]_vars
  BY <1>1
<1> QED
  BY <1>2, HandoverSafety, PTL DEF Spec, PilotRoleKept

\* A laptop that drops out of the table is announced to every gpio client
\* and monitor in it, as long as every thread has its own socket.
THEOREM LogoutCorrect == Spec => LogoutAnnounced
<1> DEFINE Announced ==
      \A i, k \in 1..n :
         ~Mixup /\ slots[i].tab = 3 /\ n' < n
         /\ (\A j \in 1..(n') : slots'[j].sock # slots[i].sock)
         /\ slots[k].tab \in {1, 4}
         => <<slots[k].sock, "laptop=logout">> \in out'
<1>1. ASSUME ThreadInv, TableInv, [Next]_vars PROVE Announced
  <2> SUFFICES ASSUME NEW i \in 1..n, NEW k \in 1..n, ~Mixup, slots[i].tab = 3, n' < n,
                      \A j \in 1..(n') : slots'[j].sock # slots[i].sock,
                      slots[k].tab \in {1, 4}
               PROVE  <<slots[k].sock, "laptop=logout">> \in out'
    OBVIOUS
  <2>0. TypeOK /\ n \in Nat
    BY <1>1 DEF ThreadInv, TypeOK
  <2>1. PICK c \in Conn : ExitRemove(c)
    BY <1>1, <2>0, RequestFrame, ProgressFrame
       DEF Next, Stopped, Accept, AcceptAs, AcceptFails, table, vars
  <2> DEFINE own == IdSock(sock[c])
  <2>2. own \in 0..n /\ (own # 0 => slots[own].sock = sock[c])
    BY <2>0, IdSockFacts
  <2>3. slots' = CloseGap(own) /\ n' = n - 1 /\ Logout(own, sock[c]) \subseteq out'
    BY <2>1 DEF ExitRemove, ExitRemoveTo
  <2>4. i = own
    <3> HIDE DEF own
    <3>1. own # 0
      <4>1. pc[c] = "remove" /\ sock[c] = c
        BY <1>1, <2>1 DEF ExitRemove, ExitRemoveTo, TableInv, SocketInv, Mixup, None
      <4>2. \E j \in 1..n : slots[j].sock = c
        BY <1>1, <4>1 DEF TableInv, OwnEntry, Live
      <4> QED
        BY <2>0, <4>1, <4>2, IdSockFacts DEF own, Registered
    <3>2. CASE i # own
      <4> DEFINE gap == CloseGap(own)
      <4>1. n >= 1 /\ own \in 0..n
        BY <2>0, <2>2
      <4>2. \E j \in 1..(n - 1) : gap[j] = slots[i]
        BY <2>0, <3>1, <3>2, <4>1, GapClosed
      <4> HIDE DEF gap
      <4>3. slots' = gap /\ n' = n - 1
        BY <2>3 DEF gap
      <4> QED
        BY <4>2, <4>3
    <3> QED
      BY <3>2
  <2>5. slots[k].sock # sock[c]
    BY <1>1, <2>0, <2>2, <2>4 DEF TableInv, EntryInv
  <2>6. <<slots[k].sock, "laptop=logout">> \in Logout(own, sock[c])
    BY <2>0, <2>4, <2>5 DEF Logout, ToModes
  <2> QED
    BY <2>3, <2>6
<1>2. ThreadInv /\ TableInv /\ [Next]_vars => [Announced]_vars
  BY <1>1
<1> QED
  BY <1>2, TableSafety, PTL DEF Spec, LogoutAnnounced

-----------------------------------------------------------------------------
(* The modes of the threads and of the table.                              *)

Unserved == {"none", "start", "join", "done"}

\* What ModesAgree needs to be inductive: a thread that is not served yet, or
\* no longer, has no mode.
ModesInv == ModesAgree /\ \A c \in Conn : pc[c] \in Unserved => tryb[c] = 0

\* A step that changes no mode and no entry, and sends no thread back to where
\* it was not served.
LEMMA ModesStay ==
    ASSUME ModesInv, UNCHANGED <<n, tryb>>,
           Mixup => Mixup',
           \A i \in 1..n : slots'[i].sock = slots[i].sock /\ slots'[i].tab = slots[i].tab,
           \A d \in Conn : pc'[d] \in Unserved => pc[d] \in Unserved
    PROVE  ModesInv'
BY DEF ModesInv, ModesAgree

\* A thread whose socket is its own finds its own entry, and no other entry has
\* that socket.
LEMMA OwnSlot ==
    ASSUME ThreadInv, TableInv, ~Mixup, NEW c \in Conn, pc[c] \notin {"none", "start", "done"}
    PROVE  /\ sock[c] = c /\ IdSock(c) \in 1..n
           /\ \A i \in 1..n : slots[i].sock = c <=> i = IdSock(c)
           /\ \A i \in 1..n : slots[i].sock \in Conn
<1>1. sock[c] = c
  BY DEF TableInv, SocketInv, Mixup, None
<1>2. c \in {slots[i].sock : i \in 1..n} /\ \A i \in 1..n : slots[i].sock \in Conn
  BY DEF TableInv, OwnEntry, Live
<1>3. IdSock(c) \in 1..n /\ slots[IdSock(c)].sock = c
  BY <1>2, IdSockFacts DEF ThreadInv, Registered
<1> QED
  BY <1>1, <1>2, <1>3 DEF TableInv, EntryInv

\* A login puts the same mode into the thread and into its entry.
LEMMA ModesLogin ==
    ASSUME ThreadInv, TableInv, ModesInv, NEW c \in Conn, NEW mode \in 1..4, LoginAs(c, mode),
           pc[c] = "recv", \A d \in Conn : d # c => pc'[d] = pc[d],
           pc'[c] \notin Unserved
    PROVE  ModesInv'
<1>1. /\ TypeOK /\ UNCHANGED <<n, sock>> /\ n \in 0..MaxConn /\ MaxConn \in Nat
      /\ tryb' = [tryb EXCEPT ![c] = mode]
      /\ \A i \in 1..n : slots'[i] = IF i = IdSock(sock[c]) THEN [slots[i] EXCEPT !.tab = mode]
                                                            ELSE slots[i]
  <2>1. TypeOK /\ n \in 0..MaxConn /\ MaxConn \in Nat /\ id \in [Conn -> 0..MaxConn]
    BY ConstAssumption DEF ThreadInv, TypeOK
  <2>2. id'[c] = IdSock(sock[c]) /\ 1..n \subseteq Conn
    BY <2>1 DEF LoginAs, Conn
  <2>3. /\ UNCHANGED <<n, sock>> /\ tryb' = [tryb EXCEPT ![c] = mode]
        /\ slots' = [i \in Conn |-> IF i = id'[c] THEN [slots[i] EXCEPT !.tab = mode]
                                                  ELSE slots[i]]
    BY DEF LoginAs
  <2> QED BY <2>1, <2>2, <2>3
<1>2. \A d \in Conn : tryb'[d] = IF d = c THEN mode ELSE tryb[d]
  BY <1>1 DEF TypeOK
<1>3. ModesAgree'
  <2> SUFFICES ASSUME ~Mixup', NEW i \in 1..n PROVE slots'[i].tab = tryb'[slots'[i].sock]
    BY <1>1 DEF ModesAgree
  <2>1. ~Mixup
    BY <1>1 DEF Mixup
  <2>2. sock[c] = c /\ (slots[i].sock = c <=> i = IdSock(c)) /\ slots[i].sock \in Conn
    BY <2>1, OwnSlot
  <2>3. slots[i] \in Slot
    BY <1>1 DEF TypeOK, Conn
  <2>4. /\ slots'[i].sock = slots[i].sock
        /\ slots'[i].tab = IF i = IdSock(c) THEN mode ELSE slots[i].tab
    BY <1>1, <2>2, <2>3 DEF Slot
  <2> QED BY <1>2, <2>1, <2>2, <2>4 DEF ModesInv, ModesAgree
<1> QED BY <1>2, <1>3 DEF ModesInv, Unserved

\* A joining thread takes the mode its entry has.
LEMMA ModesJoin ==
    ASSUME ThreadInv, TableInv, ModesInv, NEW c \in Conn, Join(c)
    PROVE  ModesInv'
<1>1. /\ TypeOK /\ UNCHANGED <<n, sock, slots>> /\ pc[c] = "join"
      /\ IdSock(sock[c]) # 0 => tryb'[c] = slots[IdSock(sock[c])].tab
      /\ \A d \in Conn : d # c => tryb'[d] = tryb[d] /\ pc'[d] = pc[d]
      /\ pc'[c] = "recv"
  BY DEF Join, Goto, net, table, ThreadInv, TypeOK
<1>2. ModesAgree'
  <2> SUFFICES ASSUME ~Mixup', NEW i \in 1..n PROVE slots[i].tab = tryb'[slots[i].sock]
    BY <1>1 DEF ModesAgree
  <2>1. ~Mixup
    BY <1>1 DEF Mixup
  <2>2. /\ sock[c] = c /\ (slots[i].sock = c <=> i = IdSock(c)) /\ slots[i].sock \in Conn
        /\ IdSock(c) \in 1..n
    BY <1>1, <2>1, OwnSlot
  <2>3. IdSock(c) # 0
    BY <1>1, <2>2 DEF TypeOK
  <2>4. CASE slots[i].sock = c
    BY <1>1, <2>2, <2>3, <2>4
  <2>5. CASE slots[i].sock # c
    <3>1. slots[i].tab = tryb[slots[i].sock]
      BY <2>1 DEF ModesInv, ModesAgree
    <3> QED BY <1>1, <2>2, <2>5, <3>1
  <2> QED BY <2>4, <2>5
<1> QED BY <1>1, <1>2 DEF ModesInv, Unserved

\* Of the entries that stay none is the leaving thread's, which loses its mode.
LEMMA ModesRemove ==
    ASSUME ThreadInv, TableInv, ModesInv, NEW c \in Conn, ExitRemove(c)
    PROVE  ModesInv'
<1> DEFINE own == IdSock(sock[c])
           gap == CloseGap(own)
<1>1. /\ TypeOK /\ pc[c] = "remove" /\ n \in Nat /\ sock' = sock /\ n' = n - 1
      /\ slots' = gap /\ own \in 0..n
      /\ \A d \in Conn : /\ tryb'[d] = IF d = c THEN 0 ELSE tryb[d]
                         /\ d # c => pc'[d] = pc[d]
  BY IdSockFacts DEF ExitRemove, ExitRemoveTo, Goto, ThreadInv, TypeOK
<1>2. ModesAgree'
  <2> SUFFICES ASSUME ~Mixup', NEW i \in 1..(n - 1) PROVE slots'[i].tab = tryb'[slots'[i].sock]
    BY <1>1 DEF ModesAgree
  <2>1. ~Mixup
    BY <1>1 DEF Mixup
  <2>2. n >= 1
    BY <1>1
  <2>3. \E k \in 1..n : k # own /\ gap[i] = slots[k]
    <3> HIDE DEF own, gap
    <3>1. \A j \in 1..(n - 1) : \E k \in 1..n :
             k # own /\ CloseGap(own)[j] = slots[k]
             /\ k = (IF own # 0 /\ j >= own THEN j + 1 ELSE j)
      BY <1>1, <2>2, GapClosed
    <3> QED BY <3>1 DEF gap
  <2>4. PICK k \in 1..n : k # own /\ slots'[i] = slots[k]
    BY <1>1, <2>3
  <2>5. sock[c] = c /\ slots[k].sock \in Conn /\ slots[k].sock # c
    BY <1>1, <2>1, <2>4, OwnSlot
  <2> QED BY <1>1, <2>1, <2>4, <2>5 DEF ModesInv, ModesAgree
<1> QED BY <1>1, <1>2 DEF ModesInv

\* A new entry has no mode, nor has its thread.
LEMMA ModesAccept ==
    ASSUME ThreadInv, TableInv, ModesInv, Accept
    PROVE  ModesInv'
<1> DEFINE a == accepted + 1
<1>1. /\ TypeOK /\ accepted \in Nat /\ accepted < MaxConn /\ MaxConn \in Nat /\ n \in Nat
      /\ a \in Conn
  BY ConstAssumption DEF ThreadInv, TypeOK, Accept, AcceptAs, Conn
<1>2. n + 1 \in Conn
  BY <1>1, ThreadsFinite DEF ThreadInv, CountsThreads, Threads, Conn
<1>3. /\ pc[a] = "none" /\ \A d \in Conn : pc'[d] = IF d = a THEN "start" ELSE pc[d]
      /\ UNCHANGED <<tryb, sock>> /\ n' = n + 1
      /\ \A i \in 1..n : slots'[i] = slots[i]
      /\ slots'[n + 1].sock = a /\ slots'[n + 1].tab = 0
  BY <1>1, <1>2 DEF ThreadInv, AcceptedInv, Accept, AcceptAs, Goto, local, EmptySlot, TypeOK, Conn
<1> HIDE DEF a
<1>4. tryb[a] = 0
  BY <1>1, <1>3 DEF ModesInv, Unserved
<1>5. ModesAgree'
  <2> SUFFICES ASSUME ~Mixup', NEW i \in 1..(n + 1) PROVE slots'[i].tab = tryb[slots'[i].sock]
    BY <1>3 DEF ModesAgree
  <2>1. ~Mixup
    BY <1>3 DEF Mixup
  <2> QED BY <1>1, <1>3, <1>4, <2>1 DEF ModesInv, ModesAgree
<1> QED BY <1>3, <1>4, <1>5 DEF ModesInv, Unserved

\* The requests that are no login change no mode.
LEMMA ModesRequests ==
    ASSUME ThreadInv, TableInv, ModesInv, NEW c \in Conn, Request(c)
    PROVE  ModesInv'
<1> USE DEF net, table, local, roles, Goto, Receives
<1>0. /\ TypeOK /\ pc \in [Conn -> Labels] /\ n \in 0..MaxConn /\ MaxConn \in Nat
      /\ 1..n \subseteq Conn
  BY ConstAssumption DEF ThreadInv, TypeOK, Conn
<1>1. CASE LoginGpio(c)
  BY <1>0, <1>1, ModesLogin DEF LoginGpio, Unserved
<1>2. CASE LoginPilot(c)
  BY <1>2, ModesLogin DEF LoginPilot, Unserved
<1>3. CASE LoginLaptop(c)
  BY <1>3, ModesLogin DEF LoginLaptop, Unserved
<1>4. CASE LoginMonitor(c)
  BY <1>4, ModesLogin DEF LoginMonitor, Unserved
<1>5. CASE Hangup(c) \/ Exit(c)
  BY <1>0, <1>5, ModesStay DEF Hangup, Exit, Unserved, Mixup
<1>6. CASE \E v \in {0, 1} : PilotFull(c, v)
  BY <1>6, ModesStay DEF PilotFull, Mixup
<1>7. CASE \E r \in Requests : GpioSet(c, r) \/ Ignored(c, r) \/ ScanStart(c, r)
  BY <1>0, <1>7, ModesStay DEF GpioSet, Ignored, ScanStart, Reply, Unserved, Mixup
<1>8. CASE Query(c) \/ StatusRead(c)
  BY <1>0, <1>8, ModesStay DEF Query, StatusRead, Reply, Unserved, Mixup
<1>9. CASE \E text \in Texts, a \in 1..accepted : LaptopReply(c, text, a)
  <2>0. PICK text \in Texts, a \in 1..accepted : LaptopReply(c, text, a)
    BY <1>9
  <2>1. a \in Conn
    BY <1>0 DEF TypeOK, Conn
  <2>2. \A i \in 1..n : slots'[i].sock = slots[i].sock /\ slots'[i].tab = slots[i].tab
    BY <1>0, <2>0, <2>1, SetPendingTypes DEF LaptopReply
  <2> QED
    BY <1>0, <2>0, <2>2, ModesStay DEF LaptopReply, Unserved, Mixup
<1> QED
  BY <1>1, <1>2, <1>3, <1>4, <1>5, <1>6, <1>7, <1>8, <1>9 DEF Request

\* Of a thread's own steps only the first and the last change its mode.
LEMMA ModesProgress ==
    ASSUME ThreadInv, TableInv, ModesInv, NEW c \in Conn, Progress(c)
    PROVE  ModesInv'
<1> USE DEF net, table, local, roles, Goto
<1>0. TypeOK /\ pc \in [Conn -> Labels] /\ sock \in [Conn -> Conn \cup {None}]
  BY DEF ThreadInv, TypeOK
<1>1. CASE ThreadStart(c)
  <2>1. sock[c] = None /\ sock' = [sock EXCEPT ![c] = cl]
    BY <1>1 DEF ThreadStart, TableInv, SocketInv
  <2>2. Mixup => Mixup'
    BY <1>0, <2>1 DEF Mixup
  <2> QED BY <1>0, <1>1, <2>2, ModesStay DEF ThreadStart, Unserved
<1>2. CASE Join(c)
  BY <1>2, ModesJoin
<1>3. CASE AutoOn(c) \/ StatusSend(c)
  BY <1>0, <1>3, ModesStay DEF AutoOn, StatusSend, Unserved, Mixup
<1>4. CASE ScanTest(c) \/ ScanRead(c) \/ ScanSend(c) \/ Forward(c)
  BY <1>0, <1>4, ModesStay DEF ScanTest, ScanRead, ScanSend, ScanSendThen, Forward, Unserved, Mixup
<1>5. CASE ExitLock(c) \/ ExitHandover(c)
  BY <1>0, <1>5, ModesStay DEF ExitLock, ExitHandover, Unserved, Mixup
<1>6. CASE ExitClear(c)
  BY <1>0, <1>6, ModesStay DEF ExitClear, ExitClearTo, Unserved, Mixup
<1>7. CASE ExitRemove(c)
  BY <1>7, ModesRemove
<1> QED
  BY <1>1, <1>2, <1>3, <1>4, <1>5, <1>6, <1>7 DEF Progress

\* While no socket is mixed up a thread obeys its client in the mode the table
\* has for it, however often the entries have been shifted.
THEOREM ModesCorrect == Spec => []ModesAgree
<1>1. Init => ModesInv
  BY DEF Init, ModesInv, ModesAgree
<1>2. ThreadInv /\ TableInv /\ ModesInv /\ [Next]_vars => ModesInv'
  <2>1. ASSUME ThreadInv, TableInv, ModesInv, UNCHANGED vars \/ AcceptFails PROVE ModesInv'
    BY <2>1, ModesStay DEF vars, AcceptFails, net, table, local, Mixup
  <2> QED
    BY <2>1, ModesAccept, ModesRequests, ModesProgress DEF Next, Stopped
<1>3. ModesInv => ModesAgree
  BY DEF ModesInv
<1> QED
  BY <1>1, <1>2, <1>3, TableSafety, PTL DEF Spec
=============================================================================
