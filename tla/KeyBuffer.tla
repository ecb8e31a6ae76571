------------------------------ MODULE KeyBuffer ------------------------------
(***************************************************************************)
(* The remote control of the server: a thread per keyboard (procedure_w0,  *)
(* procedure_w1) appends the keys it reads to pbufor under mutex2 and, if  *)
(* none is under way, starts a thread sending_keys_pilot.  That thread     *)
(* sleeps 50 ms, takes the whole buffer, passes it on and ends; it keeps   *)
(* mutex2 from the taking to its end.  Where the batch goes is not in this *)
(* module.                                                                 *)
(*                                                                         *)
(* No thread is ever joined or detached, so what a finished one holds is   *)
(* never given back: MaxThreads is the number of senders the process can   *)
(* start before pthread_create fails, which nothing checks.                *)
(***************************************************************************)
EXTENDS Integers, Sequences, FiniteSets

CONSTANTS Keyboards, Keys,
          MaxThreads,   \* senders that can be started
          MaxPresses,   \* bound of the model: keys the readers take for pressed
          Unplugs       \* a keyboard may be unplugged

ASSUME KeyAssumption == MaxThreads \in Nat /\ MaxPresses \in Nat /\ Unplugs \in BOOLEAN

VARIABLES plugged,        \* keyboards that are there
          presses,        \* keys seen so far, for the bound MaxPresses
          rpc, ev,        \* each reader: where it is, its local ev
          pbufor, watek_dziala,
          mutex2,         \* the sender that holds mutex2, or None
          spawned,        \* senders started so far
          spc, batch,     \* each sender: where it is, its local s
          out             \* the batch last passed on

reader == <<plugged, presses, rpc, ev>>
sender == <<spc, batch, spawned>>
vars   == <<reader, pbufor, watek_dziala, mutex2, sender, out>>

None    == 0
Senders == 1..MaxThreads
Other   == "other"       \* an event that is not the press of a key

-----------------------------------------------------------------------------
(* A reader.                                                               *)

\* A device that cannot be opened ends its thread.
Open(k) ==
    /\ rpc[k] = "open"
    /\ \E l \in {"read", "closed"} : rpc' = [rpc EXCEPT ![k] = l]
    /\ UNCHANGED <<plugged, presses, ev, pbufor, watek_dziala, mutex2,
                   sender, out>>

\* What follows a read: only the press of a key goes on to the buffer.
SeenThen(k, e, next) ==
    /\ e # Other => presses < MaxPresses
    /\ presses' = IF e = Other THEN presses ELSE presses + 1
    /\ rpc' = [rpc EXCEPT ![k] = next]

SeenAny(k, e) == SeenThen(k, e, "append")               \* mutant: any event is a key

Seen(k, e) == SeenThen(k, e, IF e = Other THEN "read" ELSE "append")

Read(k, e) ==
    /\ rpc[k] = "read" /\ k \in plugged
    /\ ev' = [ev EXCEPT ![k] = e]
    /\ Seen(k, e)
    /\ UNCHANGED <<plugged, pbufor, watek_dziala, mutex2, sender, out>>

\* read fails and leaves ev as it was; its result is not looked at, so the
\* key pressed last, or what ev held before the first read, counts again.
ReadFails(k) ==
    /\ rpc[k] = "read" /\ k \notin plugged
    /\ Seen(k, ev[k])
    /\ UNCHANGED <<plugged, ev, pbufor, watek_dziala, mutex2, sender, out>>

Unplug(k) ==
    /\ Unplugs /\ k \in plugged
    /\ plugged' = plugged \ {k}
    /\ UNCHANGED <<presses, rpc, ev, pbufor, watek_dziala, mutex2, sender, out>>

SpawnAlways ==                                          \* mutant: the flag is not tested
    IF spawned < MaxThreads
      THEN /\ watek_dziala' = TRUE
           /\ spawned' = spawned + 1
           /\ spc' = [spc EXCEPT ![spawned + 1] = "sleep"]
           /\ UNCHANGED batch
      ELSE watek_dziala' = TRUE /\ UNCHANGED sender

\* The flag is set whether or not the thread comes to be.
Spawn ==
    \/ /\ watek_dziala
       /\ UNCHANGED <<watek_dziala, sender>>
    \/ /\ ~watek_dziala /\ spawned < MaxThreads
       /\ watek_dziala' = TRUE
       /\ spawned' = spawned + 1
       /\ spc' = [spc EXCEPT ![spawned + 1] = "sleep"]
       /\ UNCHANGED batch
    \/ /\ ~watek_dziala /\ spawned = MaxThreads
       /\ watek_dziala' = TRUE
       /\ UNCHANGED sender

AppendKey(k) ==
    /\ rpc[k] = "append" /\ mutex2 = None
    /\ pbufor' = Append(pbufor, ev[k])
    /\ rpc' = [rpc EXCEPT ![k] = "read"]
    /\ Spawn
    /\ UNCHANGED <<plugged, presses, ev, mutex2, out>>

-----------------------------------------------------------------------------
(* The sender.                                                             *)

TakeHolding(s, holder) ==
    /\ spc[s] = "sleep" /\ mutex2 = None
    /\ mutex2' = holder
    /\ batch' = [batch EXCEPT ![s] = pbufor]
    /\ pbufor' = <<>>
    /\ spc' = [spc EXCEPT ![s] = "send"]
    /\ UNCHANGED <<reader, watek_dziala, spawned, out>>

TakeUnlocked(s) == TakeHolding(s, None)                 \* mutant: mutex2 let go at once

Take(s) == TakeHolding(s, s)

Deliver(s) ==
    /\ spc[s] = "send"
    /\ out' = batch[s]
    /\ spc' = [spc EXCEPT ![s] = "finish"]
    /\ UNCHANGED <<reader, pbufor, watek_dziala, mutex2, batch, spawned>>

FinishFlag(s, flag) ==
    /\ spc[s] = "finish"
    /\ watek_dziala' = flag
    /\ mutex2' = None
    /\ spc' = [spc EXCEPT ![s] = "done"]
    /\ batch' = [batch EXCEPT ![s] = <<>>]
    /\ UNCHANGED <<reader, pbufor, spawned, out>>

FinishStuck(s) == FinishFlag(s, watek_dziala)           \* mutant: the flag stays set

Finish(s) == FinishFlag(s, FALSE)

-----------------------------------------------------------------------------
\* ev is a local nothing has assigned before the first read.
Init ==
    /\ plugged = Keyboards /\ presses = 0
    /\ rpc = [k \in Keyboards |-> "open"]
    /\ ev \in [Keyboards -> Keys \cup {Other}]
    /\ pbufor = <<>> /\ watek_dziala = FALSE /\ mutex2 = None
    /\ spawned = 0
    /\ spc = [s \in Senders |-> "none"]
    /\ batch = [s \in Senders |-> <<>>]
    /\ out = <<>>

ReaderStep(k) ==
    \/ Open(k) \/ ReadFails(k) \/ AppendKey(k) \/ Unplug(k)
    \/ \E e \in Keys \cup {Other} : Read(k, e)

SenderStep(s) == Take(s) \/ Deliver(s) \/ Finish(s)

Next == (\E k \in Keyboards : ReaderStep(k)) \/ (\E s \in Senders : SenderStep(s))

Spec == Init /\ [][Next]_vars

(* Threads that can run do run.  Nobody has to press a key.                *)
Fairness == /\ \A s \in Senders : WF_vars(SenderStep(s))
            /\ \A k \in Keyboards : WF_vars(AppendKey(k))

FairSpec == Spec /\ Fairness

-----------------------------------------------------------------------------
(* Properties.                                                             *)

Active(s) == spc[s] \in {"sleep", "send", "finish"}

\* Every variable stays in its range.
TypeOK ==
    /\ plugged \subseteq Keyboards /\ presses \in Nat
    /\ rpc \in [Keyboards -> {"open", "closed", "read", "append"}]
    /\ ev \in [Keyboards -> Keys \cup {Other}]
    /\ pbufor \in Seq(Keys) /\ watek_dziala \in BOOLEAN
    /\ mutex2 \in Senders \cup {None} /\ spawned \in 0..MaxThreads
    /\ spc \in [Senders -> {"none", "sleep", "send", "finish", "done"}]
    /\ batch \in [Senders -> Seq(Keys)]
    /\ out \in Seq(Keys)

\* Two senders never run at the same time: their batches would overtake each
\* other.
OneSender == \A s, t \in Senders : Active(s) /\ Active(t) => s = t

\* No lost wake-up: keys in the buffer have a sender that has yet to take
\* them, unless the thread could not be started.
KeysHaveSender ==
    pbufor # <<>> => \/ \E s \in Senders : spc[s] = "sleep"
                     \/ spawned = MaxThreads

\* The queue as KeyQueue sees it: a batch in a sender's hands is still in it.
queue == IF mutex2 # None /\ spc[mutex2] = "send" THEN batch[mutex2] ELSE pbufor

Queue == INSTANCE KeyQueue WITH queue <- queue, out <- out

\* The threads implement the queue: each key once, in order, no empty batch.
ImplementsQueue == Queue!Spec

\* komunikacja.c:197: the thread that sends the contents of the buffer.  Once
\* no thread can be started the keys stay where they are.
BufferSent == (queue # <<>>) ~> (queue = <<>>)
=============================================================================
