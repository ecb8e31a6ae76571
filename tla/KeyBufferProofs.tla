--------------------------- MODULE KeyBufferProofs ---------------------------
(***************************************************************************)
(* Proofs about KeyBuffer, for any keyboards, keys, number of threads the  *)
(* process can start, and whether or not a keyboard may be unplugged: the  *)
(* senders implement the queue of KeyQueue.                                *)
(***************************************************************************)
EXTENDS KeyBuffer, TLAPS

\* What mutex2 and the flag mean: who holds the mutex, that a running sender
\* keeps the flag set and that a set flag has a sender, unless none could be
\* started.
FlagInv ==
    /\ \A s \in Senders : spawned < s => spc[s] = "none"
    /\ \A s \in Senders : mutex2 = s <=> spc[s] \in {"send", "finish"}
    /\ \A s \in Senders : Active(s) => watek_dziala
    /\ watek_dziala => \/ \E s \in Senders : Active(s)
                       \/ spawned = MaxThreads

\* What is in the buffer in each state of the sender, and that a reader never
\* appends anything but a key.
BatchInv ==
    /\ \A k \in Keyboards : rpc[k] = "append" => ev[k] # Other
    /\ \A s \in Senders : spc[s] = "sleep" => pbufor # <<>>
    /\ \A s \in Senders : spc[s] = "send" => batch[s] # <<>> /\ pbufor = <<>>
    /\ \A s \in Senders : spc[s] = "finish" => pbufor = <<>>

\* The inductive invariant.
BufferInv == TypeOK /\ FlagInv /\ OneSender /\ BatchInv /\ KeysHaveSender

-----------------------------------------------------------------------------
\* The server starts with an empty buffer and no sender.
LEMMA BufferInit == Init => BufferInv
<1> SUFFICES ASSUME Init PROVE BufferInv
  OBVIOUS
<1>1. \A s \in Senders : spc[s] = "none" /\ ~Active(s) /\ s # None
  BY KeyAssumption DEF Init, Active, Senders, None
<1>2. TypeOK
  <2>1. <<>> \in Seq(Keys)
    OBVIOUS
  <2>2. 0 \in 0..MaxThreads /\ 0 \in Nat
    BY KeyAssumption
  <2>3. batch \in [Senders -> Seq(Keys)] /\ pbufor \in Seq(Keys) /\ out \in Seq(Keys)
    BY <2>1, Zenon DEF Init
  <2> QED BY <2>2, <2>3 DEF Init, TypeOK
<1>3. FlagInv /\ OneSender /\ KeysHaveSender
  BY <1>1 DEF Init, FlagInv, OneSender, KeysHaveSender
<1>4. BatchInv
  BY <1>1 DEF Init, BatchInv
<1> QED BY <1>2, <1>3, <1>4 DEF BufferInv

\* Steps of a reader before the buffer leave buffer and senders alone.
LEMMA ReaderKeeps ==
    ASSUME BufferInv, NEW k \in Keyboards,
           \/ Open(k) \/ ReadFails(k) \/ Unplug(k)
           \/ \E e \in Keys \cup {Other} : Read(k, e)
    PROVE  BufferInv'
<1>1. TypeOK'
  <2>1. CASE Open(k)
    BY <2>1 DEF BufferInv, TypeOK, Open, sender
  <2>2. CASE ReadFails(k)
    BY <2>2 DEF BufferInv, TypeOK, ReadFails, Seen, SeenThen, sender
  <2>3. CASE Unplug(k)
    BY <2>3 DEF BufferInv, TypeOK, Unplug, sender
  <2>4. ASSUME NEW e \in Keys \cup {Other}, Read(k, e) PROVE TypeOK'
    BY <2>4 DEF BufferInv, TypeOK, Read, Seen, SeenThen, sender
  <2> QED BY <2>1, <2>2, <2>3, <2>4
<1>2. UNCHANGED <<pbufor, watek_dziala, mutex2, spc, batch, spawned>>
  BY DEF Open, ReadFails, Unplug, Read, sender
<1>3. (FlagInv /\ OneSender /\ KeysHaveSender)'
  BY <1>2 DEF BufferInv, FlagInv, OneSender, KeysHaveSender, Active, None
<1>4. \A j \in Keyboards : rpc'[j] = "append" => ev'[j] # Other
  BY DEF BufferInv, TypeOK, BatchInv, Open, ReadFails, Unplug, Read, Seen, SeenThen
<1>5. BatchInv'
  BY <1>2, <1>4 DEF BufferInv, BatchInv
<1> QED BY <1>1, <1>3, <1>5 DEF BufferInv

\* A reader appends while no sender holds mutex2: a sender that is active
\* still sleeps and will take the key; otherwise one is started, if it can be.
LEMMA AppendKeeps ==
    ASSUME BufferInv, NEW k \in Keyboards, AppendKey(k)
    PROVE  BufferInv'
<1> USE KeyAssumption DEF Senders, None
<1>1. /\ ev[k] \in Keys /\ rpc[k] = "append" /\ mutex2 = None /\ mutex2' = None
      /\ pbufor \in Seq(Keys) /\ pbufor' = Append(pbufor, ev[k])
  BY DEF BufferInv, TypeOK, BatchInv, AppendKey
<1>2. pbufor' \in Seq(Keys) /\ pbufor' # <<>>
  BY <1>1
<1>3. \A s \in Senders : spc[s] \notin {"send", "finish"}
  BY <1>1 DEF BufferInv, FlagInv, TypeOK
<1>4. CASE watek_dziala /\ UNCHANGED <<watek_dziala, sender>>
  <2>1. UNCHANGED <<watek_dziala, mutex2, spc, batch, spawned>>
    BY <1>1, <1>4 DEF sender
  <2>2. TypeOK'
    BY <1>1, <1>2, <2>1 DEF BufferInv, TypeOK, AppendKey
  <2>3. (FlagInv /\ OneSender)'
    BY <2>1 DEF BufferInv, FlagInv, OneSender, Active
  <2>4. BatchInv'
    BY <1>2, <1>3, <2>1 DEF BufferInv, TypeOK, BatchInv, AppendKey
  <2>5. KeysHaveSender'
    BY <1>3, <1>4, <2>1 DEF BufferInv, FlagInv, KeysHaveSender, Active
  <2> QED BY <2>2, <2>3, <2>4, <2>5 DEF BufferInv
<1>5. CASE /\ ~watek_dziala /\ spawned < MaxThreads
           /\ watek_dziala' = TRUE /\ spawned' = spawned + 1
           /\ spc' = [spc EXCEPT ![spawned + 1] = "sleep"] /\ UNCHANGED batch
  <2>1. spawned \in 0..MaxThreads /\ spawned + 1 \in Senders
    BY <1>5 DEF BufferInv, TypeOK
  <2>2. /\ spc'[spawned + 1] = "sleep"
        /\ \A s \in Senders : s # spawned + 1 => spc'[s] = spc[s]
    BY <1>5, <2>1 DEF BufferInv, TypeOK
  <2>3. \A s \in Senders : ~Active(s)
    BY <1>5 DEF BufferInv, FlagInv
  <2>4. TypeOK'
    BY <1>1, <1>2, <1>5, <2>1 DEF BufferInv, TypeOK, AppendKey
  <2>5. FlagInv'
    BY <1>1, <1>3, <1>5, <2>1, <2>2, <2>3 DEF BufferInv, FlagInv, Active
  <2>6. OneSender'
    BY <2>2, <2>3 DEF OneSender, Active
  <2>7. BatchInv'
    BY <1>2, <1>3, <2>1, <2>2 DEF BufferInv, TypeOK, BatchInv, AppendKey
  <2>8. KeysHaveSender'
    BY <2>1, <2>2 DEF KeysHaveSender
  <2> QED BY <2>4, <2>5, <2>6, <2>7, <2>8 DEF BufferInv
<1>6. CASE ~watek_dziala /\ spawned = MaxThreads /\ watek_dziala' = TRUE /\ UNCHANGED sender
  <2>1. UNCHANGED <<mutex2, spc, batch, spawned>>
    BY <1>1, <1>6 DEF sender
  <2>2. TypeOK'
    BY <1>1, <1>2, <1>6, <2>1 DEF BufferInv, TypeOK, AppendKey
  <2>3. (FlagInv /\ OneSender)'
    BY <1>6, <2>1 DEF BufferInv, FlagInv, OneSender, Active
  <2>4. BatchInv'
    BY <1>2, <1>3, <2>1 DEF BufferInv, TypeOK, BatchInv, AppendKey
  <2>5. KeysHaveSender'
    BY <1>6, <2>1 DEF KeysHaveSender
  <2> QED BY <2>2, <2>3, <2>4, <2>5 DEF BufferInv
<1> QED BY <1>4, <1>5, <1>6 DEF AppendKey, Spawn

\* The sender takes the whole buffer, which is not empty, and holds mutex2.
LEMMA TakeKeeps ==
    ASSUME BufferInv, NEW s \in Senders, Take(s)
    PROVE  BufferInv'
<1> USE KeyAssumption DEF Senders, None
<1>1. /\ spc[s] = "sleep" /\ mutex2 = None /\ mutex2' = s /\ pbufor' = <<>>
      /\ batch'[s] = pbufor /\ spc'[s] = "send"
      /\ \A t \in Senders : t # s => spc'[t] = spc[t] /\ batch'[t] = batch[t]
      /\ UNCHANGED <<reader, watek_dziala, spawned, out>>
  BY DEF BufferInv, TypeOK, Take, TakeHolding
<1>2. TypeOK'
  BY <1>1 DEF BufferInv, TypeOK, Take, TakeHolding, reader
<1>3. (FlagInv /\ OneSender)'
  BY <1>1 DEF BufferInv, TypeOK, FlagInv, OneSender, Active
<1>4. BatchInv'
  BY <1>1 DEF BufferInv, TypeOK, BatchInv, OneSender, Active, reader
<1>5. KeysHaveSender'
  BY <1>1 DEF KeysHaveSender
<1> QED BY <1>2, <1>3, <1>4, <1>5 DEF BufferInv

\* Passing the batch on leaves the buffer empty: readers wait for mutex2.
LEMMA DeliverKeeps ==
    ASSUME BufferInv, NEW s \in Senders, Deliver(s)
    PROVE  BufferInv'
<1> USE KeyAssumption DEF Senders, None
<1>1. /\ spc[s] = "send" /\ spc'[s] = "finish"
      /\ \A t \in Senders : t # s => spc'[t] = spc[t]
      /\ UNCHANGED <<reader, pbufor, watek_dziala, mutex2, batch, spawned>>
  BY DEF BufferInv, TypeOK, Deliver
<1>2. TypeOK'
  BY <1>1 DEF BufferInv, TypeOK, Deliver, reader
<1>3. (FlagInv /\ OneSender)'
  BY <1>1 DEF BufferInv, FlagInv, OneSender, Active
<1>4. (BatchInv /\ KeysHaveSender)'
  BY <1>1 DEF BufferInv, BatchInv, KeysHaveSender, reader
<1> QED BY <1>2, <1>3, <1>4 DEF BufferInv

\* The sender clears the flag before it gives mutex2 back, with the buffer
\* empty: nothing is left behind.
LEMMA FinishKeeps ==
    ASSUME BufferInv, NEW s \in Senders, Finish(s)
    PROVE  BufferInv'
<1> USE KeyAssumption DEF Senders, None
<1>1. /\ spc[s] = "finish" /\ spc'[s] = "done" /\ mutex2' = None /\ watek_dziala' = FALSE
      /\ \A t \in Senders : t # s => spc'[t] = spc[t] /\ batch'[t] = batch[t]
      /\ UNCHANGED <<reader, pbufor, spawned, out>>
  BY DEF BufferInv, TypeOK, Finish, FinishFlag
<1>2. \A t \in Senders : t # s => ~Active(t)
  BY <1>1 DEF BufferInv, OneSender, Active
<1>3. TypeOK'
  <2>1. /\ spc' \in [Senders -> {"none", "sleep", "send", "finish", "done"}]
        /\ batch' \in [Senders -> Seq(Keys)]
    <3>1. <<>> \in Seq(Keys)
      OBVIOUS
    <3> QED BY <3>1 DEF BufferInv, TypeOK, Finish, FinishFlag
  <2> QED BY <1>1, <2>1 DEF BufferInv, TypeOK, reader
<1>4. (FlagInv /\ OneSender)'
  <2>1. \A t \in Senders : ~Active(t)' /\ spc'[t] \notin {"send", "finish"}
    BY <1>1, <1>2 DEF Active
  <2>2. \A t \in Senders : spawned' < t => spc'[t] = "none"
    BY <1>1 DEF BufferInv, FlagInv
  <2>3. \A t \in Senders : mutex2' # t
    BY <1>1
  <2> QED BY <1>1, <2>1, <2>2, <2>3 DEF FlagInv, OneSender
<1>5. (BatchInv /\ KeysHaveSender)'
  BY <1>1, <1>2 DEF BufferInv, BatchInv, KeysHaveSender, Active, reader
<1> QED BY <1>3, <1>4, <1>5 DEF BufferInv

-----------------------------------------------------------------------------
\* Every reachable state satisfies the inductive invariant.
THEOREM BufferSafety == Spec => []BufferInv
<1>1. BufferInv /\ [Next]_vars => BufferInv'
  <2> SUFFICES ASSUME BufferInv, [Next]_vars
               PROVE  BufferInv'
    OBVIOUS
  <2>1. ASSUME NEW k \in Keyboards, ReaderStep(k) PROVE BufferInv'
    BY <2>1, ReaderKeeps, AppendKeeps DEF ReaderStep
  <2>2. ASSUME NEW s \in Senders, SenderStep(s) PROVE BufferInv'
    BY <2>2, TakeKeeps, DeliverKeeps, FinishKeeps DEF SenderStep
  <2>3. CASE UNCHANGED vars
    BY <2>3 DEF vars, reader, sender, BufferInv, TypeOK, FlagInv, OneSender, BatchInv,
                KeysHaveSender, Active, None
  <2> QED BY <2>1, <2>2, <2>3 DEF Next
<1> QED BY <1>1, BufferInit, PTL DEF Spec

\* Every variable keeps its range; in particular the buffer only holds keys.
THEOREM BufferTypeCorrect == Spec => []TypeOK
<1>1. BufferInv => TypeOK
  BY DEF BufferInv
<1> QED BY <1>1, BufferSafety, PTL

\* Two senders never run at once, however the readers and senders interleave.
THEOREM OneSenderCorrect == Spec => []OneSender
<1>1. BufferInv => OneSender
  BY DEF BufferInv
<1> QED BY <1>1, BufferSafety, PTL

\* No lost wake-up: keys in the buffer have a sender that will take them, as
\* long as senders can be started.
THEOREM KeysHaveSenderCorrect == Spec => []KeysHaveSender
<1>1. BufferInv => KeysHaveSender
  BY DEF BufferInv
<1> QED BY <1>1, BufferSafety, PTL

-----------------------------------------------------------------------------
\* A reader's step puts one key into the queue or does not touch it.
LEMMA ReaderRefines ==
    ASSUME BufferInv, NEW k \in Keyboards, ReaderStep(k)
    PROVE  [Queue!Next]_(Queue!qvars)
<1>1. CASE AppendKey(k)
  <2>1. ev[k] \in Keys /\ mutex2 = None /\ UNCHANGED <<mutex2, out>>
        /\ pbufor' = Append(pbufor, ev[k])
    BY <1>1 DEF BufferInv, TypeOK, BatchInv, AppendKey
  <2>2. queue = pbufor /\ queue' = Append(queue, ev[k])
    BY <2>1 DEF queue
  <2> QED BY <2>1, <2>2 DEF Queue!Next, Queue!Put
<1>2. CASE ~AppendKey(k)
  <2>1. UNCHANGED <<pbufor, mutex2, spc, batch, out>>
    BY <1>2 DEF ReaderStep, Open, ReadFails, Unplug, Read, sender
  <2> QED BY <2>1 DEF Queue!qvars, queue
<1> QED BY <1>1, <1>2

\* Taking the batch and finishing are invisible; passing it on is the flush.
LEMMA SenderRefines ==
    ASSUME BufferInv, NEW s \in Senders, SenderStep(s)
    PROVE  [Queue!Next]_(Queue!qvars)
<1> USE KeyAssumption DEF Senders, None
<1>1. CASE Take(s)
  <2>1. /\ mutex2 = None /\ mutex2' = s /\ spc'[s] = "send" /\ batch'[s] = pbufor
        /\ out' = out
    BY <1>1 DEF BufferInv, TypeOK, Take, TakeHolding
  <2>2. queue = pbufor /\ queue' = pbufor
    BY <2>1 DEF queue
  <2> QED BY <2>1, <2>2 DEF Queue!qvars
<1>2. CASE Deliver(s)
  <2>1. /\ mutex2 = s /\ mutex2' = s /\ spc[s] = "send" /\ spc'[s] = "finish"
        /\ batch[s] # <<>> /\ pbufor = <<>> /\ pbufor' = pbufor /\ out' = batch[s]
    BY <1>2 DEF BufferInv, TypeOK, FlagInv, BatchInv, Deliver
  <2>2. queue = batch[s] /\ queue' = <<>>
    BY <2>1 DEF queue
  <2> QED BY <2>1, <2>2 DEF Queue!Next, Queue!Flush
<1>3. CASE Finish(s)
  <2>1. /\ mutex2 = s /\ mutex2' = None /\ spc[s] = "finish" /\ pbufor' = pbufor
        /\ out' = out
    BY <1>3 DEF BufferInv, FlagInv, Finish, FinishFlag
  <2>2. queue = pbufor /\ queue' = pbufor
    BY <2>1 DEF queue
  <2> QED BY <2>1, <2>2 DEF Queue!qvars
<1> QED BY <1>1, <1>2, <1>3 DEF SenderStep

\* Two keyboard threads, the senders they start and mutex2 implement one
\* queue: no key is lost, doubled or overtaken between pbufor and the batch
\* that is passed on, and no batch is empty.
THEOREM QueueImplemented == Spec => ImplementsQueue
<1>1. Init => Queue!Init
  BY DEF Init, Queue!Init, queue, None
<1>2. BufferInv /\ [Next]_vars => [Queue!Next]_(Queue!qvars)
  <2> SUFFICES ASSUME BufferInv, [Next]_vars
               PROVE  [Queue!Next]_(Queue!qvars)
    OBVIOUS
  <2>1. CASE UNCHANGED vars
    BY <2>1 DEF vars, sender, reader, Queue!qvars, queue, None
  <2> QED BY <2>1, ReaderRefines, SenderRefines DEF Next
<1> QED BY <1>1, <1>2, BufferSafety, PTL DEF Spec, ImplementsQueue, Queue!Spec
=============================================================================
