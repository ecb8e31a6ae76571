----------------------------- MODULE AgentProofs -----------------------------
(***************************************************************************)
(* Proofs about the two scenes of MCAgent: about Daemon, for any process   *)
(* numbers, and about Agent, for whatever the remote control sends.        *)
(***************************************************************************)
EXTENDS Agent, Daemon, LazcProofs

-----------------------------------------------------------------------------
(* Who runs, holds the lock, and listens.                                  *)

DaemonTypeOK ==
    /\ ppc \in [Pids -> Place] /\ prog \in [Pids -> Program]
    /\ byInit \subseteq Pids /\ lock \subseteq Pids /\ listener \subseteq Pids
    /\ pidfile \in Seq(Digit \cup {LF})

\* Who has gone past the lock holds it, unless started by init; it is held
\* once; who has not got to it does not hold it.
LockInv ==
    /\ \A p \in Pids : (Runs(p) \/ ppc[p] = "locked") /\ p \notin byInit => lock = {p}
    /\ \A p, q \in lock : p = q
    /\ \A p \in Pids : ppc[p] \notin {"main", "bound", "loop"} => p \notin byInit
    /\ \A p \in lock : ppc[p] \in {"locked", "main", "bound", "loop"} /\ p \notin byInit

Named(p) == /\ Len(pidfile) > Len(p)
            /\ \A i \in 1..Len(p) : pidfile[i] = p[i]
            /\ pidfile[Len(p) + 1] = LF

FileNamed == \A p \in lock : Runs(p) => Named(p)

\* Only a process in its accept loop listens.
ListenInv ==
    /\ \A p \in Pids : ppc[p] = "loop" => listener = {p}
    /\ \A p \in listener : ppc[p] = "loop"

DaemonInv == DaemonTypeOK /\ LockInv /\ FileNamed /\ ListenInv

-----------------------------------------------------------------------------
LEMMA DaemonInitInv == DaemonInit => DaemonInv
BY DEF DaemonInit, DaemonInv, DaemonTypeOK, LockInv, FileNamed, ListenInv, Runs, Place, Program

\* A number is written at the start of the file, whatever the file holds.
LEMMA OverwrittenFacts ==
    ASSUME NEW old \in Seq(Digit \cup {LF}), NEW p \in Pids
    PROVE  LET f == Overwritten(old, Append(p, LF)) IN
             /\ f \in Seq(Digit \cup {LF})
             /\ Len(f) > Len(p)
             /\ \A i \in 1..Len(p) : f[i] = p[i]
             /\ f[Len(p) + 1] = LF
<1> DEFINE text == Append(p, LF)
           n == IF Len(text) < Len(old) THEN Len(old) ELSE Len(text)
           f == Overwritten(old, text)
<1>1. p \in Seq(Digit)
  BY PidsAssumption
<1>2. /\ text \in Seq(Digit \cup {LF}) /\ Len(text) = Len(p) + 1 /\ Len(p) \in Nat
      /\ \A i \in 1..Len(p) : text[i] = p[i]
      /\ text[Len(p) + 1] = LF
  BY <1>1
<1>3. n \in Nat /\ n > Len(p)
  BY <1>2
<1>4. f = [i \in 1..n |-> IF i <= Len(text) THEN text[i] ELSE old[i]]
  BY DEF Overwritten
<1>5. \A i \in 1..n : (IF i <= Len(text) THEN text[i] ELSE old[i]) \in Digit \cup {LF}
  BY <1>2
<1> HIDE DEF text, n, f
<1>6. f \in Seq(Digit \cup {LF}) /\ Len(f) = n
  BY <1>3, <1>4, <1>5
<1>7. \A i \in 1..Len(text) : f[i] = text[i]
  BY <1>2, <1>3, <1>4
<1> QED BY <1>2, <1>3, <1>6, <1>7 DEF f, text

-----------------------------------------------------------------------------
(* The steps.                                                              *)

LEMMA ExitKeeps == ASSUME DaemonInv, NEW p \in Pids, Exit(p) PROVE DaemonInv'
<1> USE DEF DaemonInv, Exit, Gone
<1>1. DaemonTypeOK'
  BY DEF DaemonTypeOK, Place
<1>2. LockInv'
  BY DEF DaemonTypeOK, LockInv, Runs
<1>3. FileNamed'
  BY DEF DaemonTypeOK, FileNamed, Named, Runs
<1>4. ListenInv'
  BY DEF DaemonTypeOK, ListenInv
<1> QED BY <1>1, <1>2, <1>3, <1>4

LEMMA LaunchKeeps ==
    ASSUME DaemonInv, NEW p \in Pids, NEW x \in Program, LaunchByHand(p, x) \/ LaunchByInit(p, x)
    PROVE  DaemonInv'
<1> USE DEF DaemonInv, LaunchByHand, LaunchByInit, Launch
<1>1. DaemonTypeOK'
  BY DEF DaemonTypeOK, Place
<1>2. LockInv'
  BY DEF DaemonTypeOK, LockInv, Runs
<1>3. FileNamed'
  BY DEF DaemonTypeOK, LockInv, FileNamed, Named, Runs
<1>4. ListenInv'
  BY DEF DaemonTypeOK, ListenInv
<1> QED BY <1>1, <1>2, <1>3, <1>4

LEMMA ForkKeeps == ASSUME DaemonInv, NEW p \in Pids, Fork(p) PROVE DaemonInv'
<1>1. ASSUME NEW q \in Pids, ppc[p] = "started", ppc[q] = "none",
             ppc' = [ppc EXCEPT ![p] = "none", ![q] = "child"],
             prog' = [prog EXCEPT ![q] = prog[p]],
             UNCHANGED <<byInit, lock, pidfile, listener>>
      PROVE  DaemonInv'
  <2> USE <1>1 DEF DaemonInv
  <2>1. DaemonTypeOK'
    BY DEF DaemonTypeOK, Place
  <2>2. LockInv'
    BY DEF DaemonTypeOK, LockInv, Runs
  <2>3. FileNamed'
    BY DEF DaemonTypeOK, LockInv, FileNamed, Named, Runs
  <2>4. ListenInv'
    BY DEF DaemonTypeOK, ListenInv
  <2> QED BY <2>1, <2>2, <2>3, <2>4
<1> QED BY <1>1, ExitKeeps DEF Fork

LEMMA LockKeeps ==
    ASSUME DaemonInv, NEW p \in Pids, OpenLock(p) \/ TakeLock(p) PROVE DaemonInv'
<1> USE DEF DaemonInv, OpenLock, TakeLock
<1>1. DaemonTypeOK'
  BY DEF DaemonTypeOK, Place
<1>2. LockInv'
  BY DEF DaemonTypeOK, LockInv, Runs
<1>3. FileNamed'
  BY DEF DaemonTypeOK, LockInv, FileNamed, Named, Runs
<1>4. ListenInv'
  BY DEF DaemonTypeOK, ListenInv
<1> QED BY <1>1, <1>2, <1>3, <1>4

LEMMA WriteKeeps == ASSUME DaemonInv, NEW p \in Pids, WritePid(p) PROVE DaemonInv'
<1> USE DEF DaemonInv, WritePid, Writes
<1>1. /\ pidfile' \in Seq(Digit \cup {LF})
      /\ Len(pidfile') > Len(p)
      /\ \A i \in 1..Len(p) : pidfile'[i] = p[i]
      /\ pidfile'[Len(p) + 1] = LF
  BY OverwrittenFacts DEF DaemonTypeOK
<1>2. DaemonTypeOK'
  BY <1>1 DEF DaemonTypeOK, Place
<1>3. LockInv'
  BY DEF DaemonTypeOK, LockInv, Runs
<1>4. lock' = {p}
  BY DEF DaemonTypeOK, LockInv
<1>5. FileNamed'
  BY <1>1, <1>4 DEF FileNamed, Named
<1>6. ListenInv'
  BY DEF DaemonTypeOK, ListenInv
<1> QED BY <1>2, <1>3, <1>5, <1>6

LEMMA PortKeeps ==
    ASSUME DaemonInv, NEW p \in Pids, Bind(p) \/ Listen(p) PROVE DaemonInv'
<1> SUFFICES ASSUME ~Exit(p) PROVE DaemonInv'
  BY ExitKeeps
<1> USE DEF DaemonInv, Bind, Listen, ListenIf
<1>1. DaemonTypeOK'
  BY DEF DaemonTypeOK, Place
<1>2. LockInv'
  BY DEF DaemonTypeOK, LockInv, Runs
<1>3. FileNamed'
  BY DEF DaemonTypeOK, LockInv, FileNamed, Named, Runs
<1>4. ListenInv'
  BY DEF DaemonTypeOK, ListenInv
<1> QED BY <1>1, <1>2, <1>3, <1>4

LEMMA DaemonStepInv == DaemonInv /\ [DaemonNext]_dvars => DaemonInv'
<1> SUFFICES ASSUME DaemonInv, [DaemonNext]_dvars PROVE DaemonInv'
  OBVIOUS
<1>1. CASE UNCHANGED dvars
  BY <1>1 DEF dvars, DaemonInv, DaemonTypeOK, LockInv, FileNamed, Named, ListenInv, Runs
<1>2. ASSUME NEW p \in Pids,
             \/ \E x \in Program : LaunchByHand(p, x) \/ LaunchByInit(p, x)
             \/ DaemonStep(p) \/ Killed(p)
      PROVE  DaemonInv'
  BY <1>2, ExitKeeps, LaunchKeeps, ForkKeeps, LockKeeps, WriteKeeps, PortKeeps
     DEF DaemonStep, Killed, LockRefused
<1> QED BY <1>1, <1>2 DEF DaemonNext

LEMMA DaemonAlways == DaemonSpec => []DaemonInv
BY DaemonInitInv, DaemonStepInv, PTL DEF DaemonSpec

-----------------------------------------------------------------------------
\* f_daemon.c:34-38: of the programs started by hand on a machine, at most one
\* runs.
THEOREM OneRunsByHand == DaemonSpec => []OneByHand
<1>1. DaemonInv => OneByHand
  BY DEF DaemonInv, LockInv, OneByHand
<1> QED BY <1>1, DaemonAlways, PTL

\* f_daemon.c:39-40: the lock file, which is never truncated, still names the
\* process that holds it.
THEOREM LockFileNames == DaemonSpec => []LockFileNamesHolder
<1>1. DaemonInv => LockFileNamesHolder
  BY DEF DaemonInv, FileNamed, Named, LockFileNamesHolder
<1> QED BY <1>1, DaemonAlways, PTL

\* server.c:118-131: of the servers, by hand or by init, at most one gets to
\* its accept loop.
THEOREM OneServerListens == DaemonSpec => []OneServer
<1>1. DaemonInv => OneServer
  BY DEF DaemonInv, ListenInv, OneServer
<1> QED BY <1>1, DaemonAlways, PTL

-----------------------------------------------------------------------------
(* However the stream is cut, keys are obeyed at most once and in order.   *)

Token == {"pilot", "=", NUL, "gpio_status", "1", "server=terminated"}
           \cup {Word[k][i] : k \in Key, i \in 1..2}

StreamTypeOK ==
    stream \in Seq(Token) /\ msg \in Seq(Token) /\ pressed \in Seq(Key) /\ obeyed \in Seq(Key)

\* f names the key that each command obeyed comes from.  tag names the key
\* that each token on the way belongs to: a message is later than all that
\* is before it, and than all that has been obeyed.
Chosen(f) ==
    /\ \A i, j \in 1..Len(obeyed) : i < j => f[i] < f[j]
    /\ \A i \in 1..Len(obeyed) : obeyed[i] = pressed[f[i]]

Tags(st, pr, o, f, tag) ==
    /\ \A p \in 1..Len(st), k \in Key : st[p] = Word[k][1] => tag[p] >= 1 /\ pr[tag[p]] = k
    /\ \A p, q \in 1..Len(st) :
         p < q => tag[p] <= tag[q] /\ (st[q] = "pilot" => tag[p] < tag[q])
    /\ \A p \in 1..Len(st), i \in 1..o : st[p] = "pilot" => f[i] < tag[p]

OrderInv ==
    \E f \in [1..Len(obeyed) -> 1..Len(pressed)] :
      \E tag \in [1..Len(stream) -> 0..Len(pressed)] : Chosen(f) /\ Tags(stream, pressed, Len(obeyed), f, tag)

StreamInv == StreamTypeOK /\ OrderInv

-----------------------------------------------------------------------------
(* Tokens and messages.                                                    *)

LEMMA WordFacts ==
    /\ Key = {"power", "up", "down", "mic"}
    /\ \A k \in Key : Word[k] \in Seq(Token) /\ Len(Word[k]) = 2
    /\ \A k \in Key : Word[k][1] \in Token /\ Word[k][2] \in Token
    /\ \A k, l \in Key : Word[k][1] = Word[l][1] => k = l
    /\ \A k, l \in Key : Word[k][2] # Word[l][1]
    /\ \A k \in Key : \A i \in 1..2 :
         Word[k][i] \notin {"pilot", "=", NUL, "gpio_status", "1", "server=terminated", Quote}
<1>1. Key = {"power", "up", "down", "mic"}
  BY DEF Key, Word
<1>2. /\ Word["power"] = <<"key_p", "ower">> /\ Word["up"] = <<"key_volume_u", "p">>
      /\ Word["down"] = <<"key_volume_d", "own">> /\ Word["mic"] = <<"key_m", "ic">>
  BY DEF Word
<1>3. /\ Word["power"][1] = "key_p" /\ Word["power"][2] = "ower"
      /\ Word["up"][1] = "key_volume_u" /\ Word["up"][2] = "p"
      /\ Word["down"][1] = "key_volume_d" /\ Word["down"][2] = "own"
      /\ Word["mic"][1] = "key_m" /\ Word["mic"][2] = "ic"
  BY <1>2
<1>4. \A k \in Key : Word[k][1] \in Token /\ Word[k][2] \in Token
  BY DEF Token
<1>5. ASSUME NEW k \in Key PROVE Word[k] = <<Word[k][1], Word[k][2]>>
  BY <1>1, <1>2, <1>3
<1>6. ASSUME NEW k \in Key PROVE Word[k] \in Seq(Token) /\ Len(Word[k]) = 2
  <2>1. ASSUME NEW x \in Token, NEW y \in Token
        PROVE  <<x, y>> \in Seq(Token) /\ Len(<<x, y>>) = 2
    OBVIOUS
  <2>2. PICK x \in Token, y \in Token : Word[k] = <<x, y>>
    BY <1>4, <1>5
  <2> QED BY <2>1, <2>2
<1>7. ASSUME NEW k \in Key, NEW l \in Key, Word[k][1] = Word[l][1] PROVE k = l
  BY <1>1, <1>3, <1>7
<1>8. ASSUME NEW k \in Key, NEW l \in Key PROVE Word[k][2] # Word[l][1]
  BY <1>1, <1>3
<1>9. ASSUME NEW k \in Key, NEW i \in 1..2
      PROVE  Word[k][i] \notin {"pilot", "=", NUL, "gpio_status", "1", "server=terminated", Quote}
  <2>1. i = 1 \/ i = 2
    OBVIOUS
  <2> QED BY <1>1, <1>3, <2>1 DEF NUL, Quote
<1> QED BY <1>1, <1>4, <1>6, <1>7, <1>8, <1>9

LEMMA TokenFacts == Quote \notin Token /\ NUL \in Token /\ "=" \in Token /\ "=" # Quote
<1>1. \A k \in Key, i \in 1..2 : Word[k][i] # Quote
  BY WordFacts
<1>2. Quote \notin {"pilot", "=", NUL, "gpio_status", "1", "server=terminated"}
  BY DEF NUL, Quote
<1> QED BY <1>1, <1>2 DEF Token

LEMMA ConcatFacts ==
    ASSUME NEW T, NEW c \in Seq(T), NEW x \in T
    PROVE  /\ c \o <<x>> \in Seq(T) /\ Len(c \o <<x>>) = Len(c) + 1
           /\ \A i \in 1..Len(c) : (c \o <<x>>)[i] = c[i]
           /\ (c \o <<x>>)[Len(c) + 1] = x
OBVIOUS

LEMMA Halves ==
    /\ \A j \in Nat : ((2 * j + 1) + 1) \div 2 = j + 1 /\ (2 * j + 1) % 2 = 1
    /\ \A j \in Nat : ((2 * j + 2) + 1) \div 2 = j + 1 /\ (2 * j + 2) % 2 = 0
    /\ \A i \in Nat : \E j \in Nat : i + 1 \in {2 * j + 1, 2 * j + 2}
<1>1. \A j \in Nat : ((2 * j + 1) + 1) \div 2 = j + 1 /\ (2 * j + 1) % 2 = 1
  OBVIOUS
<1>2. \A j \in Nat : ((2 * j + 2) + 1) \div 2 = j + 1 /\ (2 * j + 2) % 2 = 0
  OBVIOUS
<1>3. ASSUME NEW i \in Nat PROVE \E j \in Nat : i + 1 \in {2 * j + 1, 2 * j + 2}
  <2>1. i \div 2 \in Nat /\ i + 1 \in {2 * (i \div 2) + 1, 2 * (i \div 2) + 2}
    OBVIOUS
  <2> QED BY <2>1
<1> QED BY <1>1, <1>2, <1>3

\* A message: pilot, the separator, two tokens of each key, and NUL.
LEMMA MessageFacts ==
    ASSUME NEW keys \in Seq(Key), keys # <<>>
    PROVE  LET m == PilotMessage(keys)
               n == Len(keys)
           IN /\ m \in Seq(Token) /\ Len(m) = 2 * n + 3 /\ n \in Nat \ {0}
              /\ m[1] = "pilot" /\ m[2] = "=" /\ m[2 * n + 3] = NUL
              /\ \A j \in 1..n : /\ m[2 * j + 1] = Word[keys[j]][1]
                                 /\ m[2 * j + 2] = Word[keys[j]][2]
<1> DEFINE n == Len(keys)
           b == Names(keys)
           m == PilotMessage(keys)
<1>1. n \in Nat \ {0}
  OBVIOUS
<1>2. ASSUME NEW j \in 1..n
      PROVE  /\ 2 * j - 1 \in 1..(2 * n) /\ b[2 * j - 1] = Word[keys[j]][1]
             /\ 2 * j \in 1..(2 * n) /\ b[2 * j] = Word[keys[j]][2]
  <2>1. 2 * j - 1 \in 1..(2 * n) /\ 2 * j \in 1..(2 * n)
    BY <1>1
  <2>2. /\ ((2 * j - 1) + 1) \div 2 = j /\ (2 * j - 1) % 2 = 1
        /\ (2 * j + 1) \div 2 = j /\ (2 * j) % 2 = 0
    <3>1. PICK i \in Nat : j = i + 1
      BY <1>1
    <3>2. 2 * j - 1 = 2 * i + 1 /\ 2 * j = 2 * i + 2
      BY <3>1
    <3> QED BY <3>1, <3>2, Halves
  <2>3. b[2 * j - 1] = Word[keys[((2 * j - 1) + 1) \div 2]][2 - ((2 * j - 1) % 2)]
    BY <2>1 DEF Names
  <2>4. b[2 * j] = Word[keys[(2 * j + 1) \div 2]][2 - ((2 * j) % 2)]
    BY <2>1 DEF Names
  <2>5. 2 - 1 = 1 /\ 2 - 0 = 2
    OBVIOUS
  <2> QED BY <2>1, <2>2, <2>3, <2>4, <2>5, Zenon
<1>3. ASSUME NEW i \in 1..(2 * n) PROVE b[i] \in Token
  <2>1. PICK l \in Nat : (i - 1) + 1 \in {2 * l + 1, 2 * l + 2}
    <3>1. i - 1 \in Nat
      BY <1>1
    <3> QED BY <3>1, Halves
  <2>2. PICK j \in 1..n : i = 2 * j - 1 \/ i = 2 * j
    <3>1. l + 1 \in 1..n /\ (i = 2 * (l + 1) - 1 \/ i = 2 * (l + 1))
      BY <1>1, <2>1
    <3> QED BY <3>1
  <2>3. keys[j] \in Key
    OBVIOUS
  <2> QED BY <1>2, <2>2, <2>3, WordFacts, Zenon
<1>4. b \in Seq(Token) /\ Len(b) = 2 * n
  <2>1. b = [i \in 1..(2 * n) |-> b[i]]
    BY DEF Names
  <2> HIDE DEF b
  <2> QED BY <1>1, <1>3, <2>1
<1>5. <<"pilot", "=">> \in Seq(Token) /\ <<NUL>> \in Seq(Token)
  BY TokenFacts DEF Token
<1>6. m = <<"pilot", "=">> \o b \o <<NUL>>
  BY DEF PilotMessage
<1> HIDE DEF b, m
<1>7. /\ m \in Seq(Token) /\ Len(m) = 2 * n + 3
      /\ m[1] = "pilot" /\ m[2] = "=" /\ m[2 * n + 3] = NUL
      /\ \A i \in 1..(2 * n) : m[i + 2] = b[i]
  <2> DEFINE c == <<"pilot", "=">> \o b
  <2>1. /\ c \in Seq(Token) /\ Len(c) = 2 + 2 * n /\ c[1] = "pilot" /\ c[2] = "="
        /\ \A i \in 1..(2 * n) : c[i + 2] = b[i]
    BY <1>1, <1>4, <1>5
  <2>2. m = c \o <<NUL>>
    BY <1>6
  <2> HIDE DEF c
  <2>3. /\ m \in Seq(Token) /\ Len(m) = 2 * n + 3 /\ m[2 * n + 3] = NUL
        /\ \A i \in 1..(2 + 2 * n) : m[i] = c[i]
    <3>1. /\ m \in Seq(Token) /\ Len(m) = Len(c) + 1 /\ m[Len(c) + 1] = NUL
          /\ \A i \in 1..Len(c) : m[i] = c[i]
      <4>. c \in Seq(Token) /\ NUL \in Token
        BY <2>1, TokenFacts
      <4>1. /\ c \o <<NUL>> \in Seq(Token) /\ Len(c \o <<NUL>>) = Len(c) + 1
            /\ \A i \in 1..Len(c) : (c \o <<NUL>>)[i] = c[i]
            /\ (c \o <<NUL>>)[Len(c) + 1] = NUL
        BY ConcatFacts, Zenon
      <4> QED BY <4>1, <2>2, Zenon
    <3>2. Len(c) = 2 + 2 * n /\ Len(c) + 1 = 2 * n + 3
      BY <1>1, <2>1
    <3> QED BY <3>1, <3>2, Zenon
  <2> QED BY <1>1, <2>1, <2>3
<1>8. ASSUME NEW j \in 1..n
      PROVE  m[2 * j + 1] = Word[keys[j]][1] /\ m[2 * j + 2] = Word[keys[j]][2]
  <2>1. (2 * j - 1) + 2 = 2 * j + 1
    OBVIOUS
  <2> QED BY <1>2, <1>7, <2>1
<1> QED BY <1>1, <1>7, <1>8 DEF m

\* What is obeyed: a text that begins with pilot and the name of the key.
LEMMA ObeyFacts ==
    ASSUME NEW text \in Seq(Token)
    PROVE  \/ Obey(text) = <<>>
           \/ \E k \in Key : /\ Obey(text) = <<k>> /\ Len(text) >= 3
                             /\ text[1] = "pilot" /\ text[3] = Word[k][1]
<1>1. \A i \in 1..Len(text) : text[i] # Quote
  BY TokenFacts
<1>2. 1 \in 1..(Len(text) + 1) /\ Len(text) \in Nat
  OBVIOUS
<1>3. PICK e \in Nat : FirstAt(text, 1, "=", e)
  BY <1>2, FirstExists
<1>4. /\ GetLineToStr(text, 1, "=", <<>>) = OrDefault(SubSeq(text, 1, e - 1), <<>>)
      /\ e = Len(text) + 1 => GetLineToStr(text, 2, "=", <<>>) = <<>>
      /\ e <= Len(text) => \A g \in Nat : FirstAt(text, e + 1, "=", g) =>
           GetLineToStr(text, 2, "=", <<>>) = OrDefault(SubSeq(text, e + 1, g - 1), <<>>)
  BY <1>1, <1>3, TokenFacts, FirstTwoFields
<1> DEFINE s1 == GetLineToStr(text, 1, "=", <<>>)
           s2 == GetLineToStr(text, 2, "=", <<>>)
<1>5. \/ Obey(text) = <<>>
      \/ \E k \in Key : Obey(text) = <<k>> /\ s1 = <<"pilot">> /\ s2 = Word[k]
  BY WordFacts DEF Obey
<1>6. ASSUME NEW k \in Key, s1 = <<"pilot">>, s2 = Word[k]
      PROVE  Len(text) >= 3 /\ text[1] = "pilot" /\ text[3] = Word[k][1]
  <2>1. SubSeq(text, 1, e - 1) = <<"pilot">>
    BY <1>4, <1>6 DEF OrDefault
  <2>2. e = 2 /\ text[1] = "pilot"
    <3>1. e \in 1..(Len(text) + 1)
      BY <1>3 DEF FirstAt
    <3>2. Len(SubSeq(text, 1, e - 1)) = e - 1 /\ Len(<<"pilot">>) = 1
      BY <1>2, <3>1
    <3>3. e = 2
      BY <2>1, <3>1, <3>2
    <3>4. SubSeq(text, 1, 1)[1] = text[1] /\ <<"pilot">>[1] = "pilot"
      BY <3>1, <3>3
    <3>5. e - 1 = 1
      BY <3>3
    <3> QED BY <2>1, <3>3, <3>4, <3>5, Zenon
  <2>3. Word[k] # <<>> /\ Len(Word[k]) = 2
    BY WordFacts
  <2>4. e <= Len(text)
    BY <1>2, <1>3, <1>4, <1>6, <2>3 DEF FirstAt
  <2>5. PICK g \in Nat : FirstAt(text, 3, "=", g)
    <3>1. 3 \in 1..(Len(text) + 1)
      BY <1>2, <2>2, <2>4
    <3> QED BY <3>1, FirstExists
  <2>6. SubSeq(text, 3, g - 1) = Word[k]
    <3>1. e + 1 = 3
      BY <2>2
    <3>2. s2 = OrDefault(SubSeq(text, 3, g - 1), <<>>)
      BY <1>4, <2>4, <2>5, <3>1, Zenon
    <3> HIDE DEF s2
    <3> QED BY <1>6, <2>3, <3>2, Zenon DEF OrDefault
  <2>7. g \in 3..(Len(text) + 1)
    BY <2>5 DEF FirstAt
  <2>8. Len(SubSeq(text, 3, g - 1)) = g - 3
    BY <1>2, <2>7
  <2>9. g = 5 /\ Len(text) >= 4
    <3>1. Len(SubSeq(text, 3, g - 1)) = 2
      BY <2>3, <2>6, Zenon
    <3> QED BY <1>2, <2>7, <2>8, <3>1
  <2>10. SubSeq(text, 3, 4)[1] = text[3]
    BY <2>9
  <2> QED BY <2>2, <2>6, <2>9, <2>10
<1> QED BY <1>5, <1>6

-----------------------------------------------------------------------------
(* The stream.                                                             *)

\* The server appends tokens, and the keys they belong to.
LEMMA TagsAppended ==
    ASSUME NEW st \in Seq(Token), NEW pr \in Seq(Key), NEW o \in Nat,
           NEW f, \A i \in 1..o : f[i] \in 1..Len(pr),
           NEW tag \in [1..Len(st) -> 0..Len(pr)], Tags(st, pr, o, f, tag),
           NEW new \in Seq(Token), NEW keys \in Seq(Key),
           NEW ntag \in [1..Len(new) -> 0..Len(keys)],
           Tags(new, keys, 0, <<>>, ntag),
           \A x \in 1..Len(new) : new[x] = "pilot" => ntag[x] >= 1
    PROVE  \E tag2 \in [1..Len(st \o new) -> 0..Len(pr \o keys)] :
              Tags(st \o new, pr \o keys, o, f, tag2)
<1>. PICK n, m, st2, pr2 :
        n = Len(st) /\ m = Len(pr) /\ st2 = st \o new /\ pr2 = pr \o keys
  OBVIOUS
<1>1. /\ n \in Nat /\ m \in Nat /\ Len(new) \in Nat /\ Len(keys) \in Nat
      /\ Len(st2) = n + Len(new) /\ Len(pr2) = m + Len(keys)
      /\ \A p \in 1..n : st2[p] = st[p]
      /\ \A x \in 1..Len(new) : st2[n + x] = new[x]
      /\ \A i \in 1..m : pr2[i] = pr[i]
      /\ \A i \in 1..Len(keys) : pr2[m + i] = keys[i]
  OBVIOUS
<1>2. /\ \A p \in 1..n : tag[p] \in 0..m
      /\ \A x \in 1..Len(new) : ntag[x] \in 0..Len(keys)
  OBVIOUS
<1>3. \A p \in 1..Len(st2) : p \in 1..n \/ \E x \in 1..Len(new) : p = n + x
  <2> SUFFICES ASSUME NEW p \in 1..Len(st2), p \notin 1..n
               PROVE  \E x \in 1..Len(new) : p = n + x
    OBVIOUS
  <2>1. p - n \in 1..Len(new) /\ p = n + (p - n)
    BY <1>1
  <2> QED BY <2>1
<1>4. PICK tag2 : /\ tag2 \in [1..Len(st2) -> 0..Len(pr2)]
                  /\ \A p \in 1..n : tag2[p] = tag[p]
                  /\ \A x \in 1..Len(new) : tag2[n + x] = m + ntag[x]
  <2> DEFINE t == [p \in 1..(n + Len(new)) |-> IF p <= n THEN tag[p] ELSE m + ntag[p - n]]
  <2>1. /\ \A p \in 1..n : t[p] = tag[p]
        /\ \A x \in 1..Len(new) : t[n + x] = m + ntag[x]
    BY <1>1
  <2>2. t = [p \in 1..Len(st2) |-> t[p]]
    BY <1>1
  <2> HIDE DEF t
  <2>3. \A p \in 1..n : t[p] \in 0..Len(pr2)
    BY <1>1, <1>2, <2>1
  <2>4. \A x \in 1..Len(new) : t[n + x] \in 0..Len(pr2)
    BY <1>1, <1>2, <2>1
  <2>5. \A p \in 1..Len(st2) : t[p] \in 0..Len(pr2)
    BY <1>3, <2>3, <2>4
  <2> QED BY <2>1, <2>2, <2>5
<1>5. \A x \in 1..Len(new) : /\ tag2[n + x] = m + ntag[x] /\ ntag[x] \in 0..Len(keys)
                             /\ st2[n + x] = new[x]
  BY <1>1, <1>2, <1>4, Zenon
<1>7. \A u \in 0..Len(keys) : u >= 1 => m + u >= 1 /\ pr2[m + u] = keys[u]
  <2>1. \A u \in 0..Len(keys) : u >= 1 => m + u >= 1 /\ u \in 1..Len(keys)
    BY <1>1
  <2> QED BY <1>1, <2>1, Zenon
<1>8. /\ \A u, v \in 0..Len(keys) : (u <= v => m + u <= m + v) /\ (u < v => m + u < m + v)
      /\ \A u \in 0..m, v \in 0..Len(keys) : u <= m + v /\ (v >= 1 => u < m + v)
  BY <1>1
<1>9. Tags(st2, pr2, o, f, tag2)
  <2>1. ASSUME NEW p \in 1..Len(st2), NEW k \in Key, st2[p] = Word[k][1]
        PROVE  tag2[p] >= 1 /\ pr2[tag2[p]] = k
    <3>1. CASE p \in 1..n
      <4>1. tag[p] >= 1 /\ pr[tag[p]] = k /\ tag2[p] = tag[p] /\ tag[p] \in 0..m
        BY <1>1, <1>2, <1>4, <2>1, <3>1 DEF Tags
      <4> QED BY <1>1, <4>1
    <3>2. ASSUME NEW x \in 1..Len(new), p = n + x PROVE tag2[p] >= 1 /\ pr2[tag2[p]] = k
      <4>1. new[x] = Word[k][1] /\ tag2[p] = m + ntag[x] /\ ntag[x] \in 0..Len(keys)
        BY <1>5, <2>1, <3>2, Zenon
      <4>2. ntag[x] >= 1 /\ keys[ntag[x]] = k
        BY <4>1 DEF Tags
      <4> QED BY <1>7, <4>1, <4>2, Zenon
    <3> QED BY <1>3, <3>1, <3>2
  <2>2. ASSUME NEW p \in 1..Len(st2), NEW q \in 1..Len(st2), p < q
        PROVE  tag2[p] <= tag2[q] /\ (st2[q] = "pilot" => tag2[p] < tag2[q])
    <3>1. CASE q \in 1..n
      <4>1. p \in 1..n
        BY <1>1, <2>2, <3>1
      <4> QED BY <1>1, <1>4, <2>2, <3>1, <4>1 DEF Tags
    <3>2. ASSUME NEW y \in 1..Len(new), q = n + y
          PROVE  tag2[p] <= tag2[q] /\ (st2[q] = "pilot" => tag2[p] < tag2[q])
      <4>. tag2[q] = m + ntag[y] /\ ntag[y] \in 0..Len(keys) /\ st2[q] = new[y]
        BY <1>5, <3>2, Zenon
      <4>1. CASE p \in 1..n
        <5>1. tag2[p] = tag[p] /\ tag[p] \in 0..m
          BY <1>2, <1>4, <4>1, Zenon
        <5>2. new[y] = "pilot" => ntag[y] >= 1
          OBVIOUS
        <5> QED BY <1>8, <5>1, <5>2, Zenon
      <4>2. ASSUME NEW x \in 1..Len(new), p = n + x
            PROVE  tag2[p] <= tag2[q] /\ (st2[q] = "pilot" => tag2[p] < tag2[q])
        <5>1. x < y
          BY <1>1, <2>2, <3>2, <4>2
        <5>2. ntag[x] <= ntag[y] /\ (new[y] = "pilot" => ntag[x] < ntag[y])
          BY <5>1 DEF Tags
        <5>3. tag2[p] = m + ntag[x] /\ ntag[x] \in 0..Len(keys)
          BY <1>5, <4>2, Zenon
        <5> QED BY <1>8, <5>2, <5>3, Zenon
      <4> QED BY <1>3, <4>1, <4>2
    <3> QED BY <1>3, <3>1, <3>2
  <2>3. ASSUME NEW p \in 1..Len(st2), NEW i \in 1..o, st2[p] = "pilot" PROVE f[i] < tag2[p]
    <3>1. CASE p \in 1..n
      BY <1>1, <1>4, <2>3, <3>1 DEF Tags
    <3>2. ASSUME NEW x \in 1..Len(new), p = n + x PROVE f[i] < tag2[p]
      <4>1. tag2[p] = m + ntag[x] /\ ntag[x] \in 0..Len(keys) /\ new[x] = "pilot"
        BY <1>5, <2>3, <3>2, Zenon
      <4>2. ntag[x] >= 1
        BY <4>1
      <4>3. f[i] \in 0..m
        OBVIOUS
      <4> QED BY <1>8, <4>1, <4>2, <4>3, Zenon
    <3> QED BY <1>3, <3>1, <3>2
  <2> QED BY <2>1, <2>2, <2>3 DEF Tags
<1> QED BY <1>4, <1>9

\* Tokens leave the stream at its front.
LEMMA TagsShift ==
    ASSUME NEW st \in Seq(Token), NEW pr \in Seq(Key), NEW o \in Nat, NEW o2 \in Nat,
           NEW f, NEW f2, NEW tag \in [1..Len(st) -> 0..Len(pr)], Tags(st, pr, o, f, tag),
           NEW len \in 0..Len(st),
           \A p \in (len + 1)..Len(st), i \in 1..o2 : st[p] = "pilot" => f2[i] < tag[p]
    PROVE  LET st2 == SubSeq(st, len + 1, Len(st))
           IN  \E tag2 \in [1..Len(st2) -> 0..Len(pr)] : Tags(st2, pr, o2, f2, tag2)
<1>. PICK n, st2, tag2 : /\ n = Len(st) /\ st2 = SubSeq(st, len + 1, Len(st))
                         /\ tag2 = [p \in 1..(n - len) |-> tag[p + len]]
  OBVIOUS
<1>1. /\ n \in Nat /\ Len(st2) = n - len
      /\ \A p \in 1..(n - len) : p + len \in (len + 1)..n /\ p + len \in 1..n
                                 /\ st2[p] = st[p + len] /\ tag2[p] = tag[p + len]
  OBVIOUS
<1>2. tag2 \in [1..Len(st2) -> 0..Len(pr)]
  BY <1>1
<1>3. Tags(st2, pr, o2, f2, tag2)
  <2>1. ASSUME NEW p \in 1..Len(st2), NEW k \in Key, st2[p] = Word[k][1]
        PROVE  tag2[p] >= 1 /\ pr[tag2[p]] = k
    BY <1>1, <2>1 DEF Tags
  <2>2. ASSUME NEW p \in 1..Len(st2), NEW q \in 1..Len(st2), p < q
        PROVE  tag2[p] <= tag2[q] /\ (st2[q] = "pilot" => tag2[p] < tag2[q])
    <3>1. p + len < q + len /\ p + len \in 1..n /\ q + len \in 1..n
      BY <1>1, <2>2
    <3> QED BY <1>1, <3>1 DEF Tags
  <2>3. ASSUME NEW p \in 1..Len(st2), NEW i \in 1..o2, st2[p] = "pilot" PROVE f2[i] < tag2[p]
    BY <1>1, <2>3
  <2> QED BY <2>1, <2>2, <2>3 DEF Tags
<1> QED BY <1>2, <1>3

\* The tag of the first key of a message.
LEMMA KeyTag ==
    ASSUME NEW st \in Seq(Token), NEW pr \in Seq(Key), NEW o \in Nat,
           NEW f \in [1..o -> 1..Len(pr)], NEW tag \in [1..Len(st) -> 0..Len(pr)],
           Tags(st, pr, o, f, tag), NEW k \in Key,
           1 \in 1..Len(st), 3 \in 1..Len(st), st[1] = "pilot", st[3] = Word[k][1]
    PROVE  tag[3] \in 1..Len(pr) /\ pr[tag[3]] = k /\ \A i \in 1..o : f[i] < tag[3]
<1>1. tag[3] >= 1 /\ pr[tag[3]] = k
  BY DEF Tags
<1>2. tag[1] <= tag[3]
  BY DEF Tags
<1>3. \A i \in 1..o : f[i] < tag[1]
  BY DEF Tags
<1>4. tag[1] \in 0..Len(pr) /\ tag[3] \in 0..Len(pr)
  BY Zenon
<1>5. \A i \in 1..o : f[i] \in 1..Len(pr)
  BY Zenon
<1>6. Len(pr) \in Nat
  OBVIOUS
<1> HIDE DEF Tags
<1> QED BY <1>1, <1>2, <1>3, <1>4, <1>5, <1>6

\* f with one value more.
Extended(f2, f, o, m, j) ==
    f2 \in [1..(o + 1) -> 1..m] /\ f2[o + 1] = j /\ \A i \in 1..o : f2[i] = f[i]

LEMMA ExtendedBy ==
    ASSUME NEW o \in Nat, NEW m \in Nat, NEW f \in [1..o -> 1..m], NEW j \in 1..m
    PROVE  \E f2 : Extended(f2, f, o, m, j)
<1>. PICK f2 : f2 = [i \in 1..(o + 1) |-> IF i <= o THEN f[i] ELSE j]
  OBVIOUS
<1>1. f2[o + 1] = j /\ \A i \in 1..o : f2[i] = f[i]
  OBVIOUS
<1>2. f2 \in [1..(o + 1) -> 1..m]
  OBVIOUS
<1> QED BY <1>1, <1>2 DEF Extended

LEMMA Joined ==
    ASSUME NEW T, NEW a \in Seq(T), NEW b \in Seq(T)
    PROVE  /\ a \o b \in Seq(T) /\ Len(a \o b) = Len(a) + Len(b) /\ Len(a) \in Nat /\ Len(b) \in Nat
           /\ \A i \in 1..Len(a) : (a \o b)[i] = a[i]
OBVIOUS

\* The buffer holds len tokens of the stream, and NUL behind them.
Holds(b, st, len) ==
    /\ b \in Seq(Token) /\ Len(b) >= len + 1 /\ Len(b) \in Nat /\ b[len + 1] = NUL
    /\ \A i \in 1..len : b[i] = st[i]

LEMMA BufferFacts ==
    ASSUME NEW st \in Seq(Token), NEW len \in 1..Len(st), NEW rest \in Seq(Token), NEW b,
           b = SubSeq(st, 1, len) \o <<NUL>> \o rest
    PROVE  Holds(b, st, len)
<1>. PICK a, c : a = SubSeq(st, 1, len) /\ c = a \o <<NUL>>
  OBVIOUS
<1>1. /\ a \in Seq(Token) /\ Len(a) = len /\ len \in Nat /\ \A i \in 1..len : a[i] = st[i]
  OBVIOUS
<1>2. /\ c \in Seq(Token) /\ Len(c) = len + 1 /\ c[len + 1] = NUL
      /\ \A i \in 1..len : c[i] = st[i]
  <2>1. /\ a \o <<NUL>> \in Seq(Token) /\ Len(a \o <<NUL>>) = Len(a) + 1
        /\ \A i \in 1..Len(a) : (a \o <<NUL>>)[i] = a[i]
        /\ (a \o <<NUL>>)[Len(a) + 1] = NUL
    BY <1>1, TokenFacts, ConcatFacts
  <2> QED BY <1>1, <2>1
<1>3. b = c \o rest
  BY Zenon
<1>4. /\ b \in Seq(Token) /\ Len(b) = Len(c) + Len(rest) /\ Len(rest) \in Nat
      /\ \A i \in 1..Len(c) : b[i] = c[i]
  <2>1. c \in Seq(Token)
    BY <1>2
  <2> QED BY <1>3, <2>1, Joined
<1>5. \A i \in 1..(len + 1) : b[i] = c[i]
  BY <1>2, <1>4, Zenon
<1>6. Len(b) = len + 1 + Len(rest)
  BY <1>2, <1>4, Zenon
<1>7. len + 1 \in 1..(len + 1) /\ \A i \in 1..len : i \in 1..(len + 1)
  BY <1>1
<1>8. Len(b) >= len + 1 /\ Len(b) \in Nat
  BY <1>1, <1>4, <1>6
<1> QED BY <1>2, <1>4, <1>5, <1>7, <1>8, Zenon DEF Holds

\* The text that the agent looks at is a beginning of the stream.
LEMMA TextFacts ==
    ASSUME NEW st, NEW len \in Nat, NEW b, Holds(b, st, len)
    PROVE  LET text == UpToNul(b)
           IN /\ text \in Seq(Token) /\ Len(text) <= len
              /\ \A i \in 1..Len(text) : text[i] = st[i]
<1> DEFINE S == {i \in 1..Len(b) : b[i] = NUL}
<1> USE DEF Holds
<1>1. S \in SUBSET Nat /\ len + 1 \in S
  OBVIOUS
<1>2. PICK e \in S : \A y \in S : e <= y
  BY <1>1, LeastNat
<1>3. FirstIn(S, Len(b) + 1) = e /\ e \in 1..(len + 1)
  <2>1. e <= len + 1 /\ e \in 1..Len(b)
    BY <1>1, <1>2
  <2>2. e \in 1..(len + 1)
    BY <2>1
  <2> HIDE DEF S
  <2> QED BY <1>1, <1>2, <2>2, FirstIs, Zenon
<1>4. UpToNul(b) = SubSeq(b, 1, e - 1)
  BY <1>3, Zenon DEF UpToNul
<1>. PICK text : text = SubSeq(b, 1, e - 1)
  OBVIOUS
<1>5. /\ text \in Seq(Token) /\ Len(text) = e - 1 /\ Len(text) <= len
      /\ \A i \in 1..Len(text) : text[i] = st[i]
  BY <1>3
<1> QED BY <1>4, <1>5, Zenon

-----------------------------------------------------------------------------
(* The steps.                                                              *)

LEMMA SentKeeps ==
    ASSUME StreamInv, NEW new \in Seq(Token), NEW keys \in Seq(Key),
           NEW ntag \in [1..Len(new) -> 0..Len(keys)],
           Tags(new, keys, 0, <<>>, ntag),
           \A x \in 1..Len(new) : new[x] = "pilot" => ntag[x] >= 1,
           stream' = stream \o new, pressed' = pressed \o keys, UNCHANGED <<obeyed, msg>>
    PROVE  StreamInv'
<1>1. StreamTypeOK
  BY DEF StreamInv
<1>2. StreamTypeOK'
  BY <1>1 DEF StreamTypeOK
<1>3. PICK f \in [1..Len(obeyed) -> 1..Len(pressed)],
           tag \in [1..Len(stream) -> 0..Len(pressed)] :
              Chosen(f) /\ Tags(stream, pressed, Len(obeyed), f, tag)
  BY DEF StreamInv, OrderInv
<1>4. PICK tag2 \in [1..Len(stream \o new) -> 0..Len(pressed \o keys)] :
         Tags(stream \o new, pressed \o keys, Len(obeyed), f, tag2)
  <2>1. \A i \in 1..Len(obeyed) : f[i] \in 1..Len(pressed)
    OBVIOUS
  <2>2. Len(obeyed) \in Nat /\ stream \in Seq(Token) /\ pressed \in Seq(Key)
    BY <1>1 DEF StreamTypeOK
  <2> QED BY <1>3, <2>1, <2>2, TagsAppended
<1>5. f \in [1..Len(obeyed') -> 1..Len(pressed')] /\ Chosen(f)'
  <2>1. /\ Len(pressed') = Len(pressed) + Len(keys) /\ Len(pressed) \in Nat /\ Len(keys) \in Nat
        /\ \A i \in 1..Len(pressed) : pressed'[i] = pressed[i]
    BY <1>1 DEF StreamTypeOK
  <2>2. \A i \in 1..Len(obeyed) : f[i] \in 1..Len(pressed)
    OBVIOUS
  <2> QED BY <1>3, <2>1, <2>2 DEF Chosen
<1>6. OrderInv'
  BY <1>4, <1>5 DEF OrderInv
<1> QED BY <1>2, <1>6 DEF StreamInv

LEMMA NoKeysKeeps ==
    ASSUME StreamInv, NEW new \in Seq(Token),
           \A x \in 1..Len(new) : new[x] # "pilot" /\ \A k \in Key : new[x] # Word[k][1],
           stream' = stream \o new, UNCHANGED <<pressed, obeyed, msg>>
    PROVE  StreamInv'
<1>. PICK ntag : ntag = [x \in 1..Len(new) |-> 0]
  OBVIOUS
<1>1. <<>> \in Seq(Key) /\ Len(<<>>) = 0 /\ ntag \in [1..Len(new) -> 0..0]
  OBVIOUS
<1>2. Tags(new, <<>>, 0, <<>>, ntag)
  BY DEF Tags
<1>3. pressed' = pressed \o <<>>
  BY DEF StreamInv, StreamTypeOK
<1> QED BY <1>1, <1>2, <1>3, SentKeeps

\* What has been lost with a connection is obeyed no more.
LEMMA EmptyKeeps ==
    ASSUME StreamInv, stream' = <<>>, UNCHANGED <<pressed, obeyed, msg>>
    PROVE  StreamInv'
<1>1. StreamTypeOK'
  BY DEF StreamInv, StreamTypeOK
<1>2. PICK f \in [1..Len(obeyed) -> 1..Len(pressed)] : Chosen(f)
  BY DEF StreamInv, OrderInv
<1>. PICK tag2 : tag2 = [p \in 1..0 |-> 0]
  OBVIOUS
<1>3. tag2 \in [1..Len(stream') -> 0..Len(pressed')] /\ Len(stream') = 0
  OBVIOUS
<1>4. Tags(stream', pressed', Len(obeyed'), f, tag2)
  BY <1>3 DEF Tags
<1>5. f \in [1..Len(obeyed') -> 1..Len(pressed')] /\ Chosen(f)'
  BY <1>2 DEF Chosen
<1> QED BY <1>1, <1>3, <1>4, <1>5 DEF StreamInv, OrderInv

LEMMA SendKeysKeeps ==
    ASSUME StreamInv, NEW keys \in Pressed, SendKeys(keys)
    PROVE  StreamInv'
<1>1. keys \in Seq(Key) /\ keys # <<>>
  BY PressedAssumption
<1>. PICK n, new : n = Len(keys) /\ new = PilotMessage(keys)
  OBVIOUS
<1>2. /\ new \in Seq(Token) /\ Len(new) = 2 * n + 3 /\ n \in Nat \ {0}
      /\ new[1] = "pilot" /\ new[2] = "=" /\ new[2 * n + 3] = NUL
      /\ \A j \in 1..n : new[2 * j + 1] = Word[keys[j]][1] /\ new[2 * j + 2] = Word[keys[j]][2]
  BY <1>1, MessageFacts
<1>3. \A p \in 3..(2 * n + 2) : \E j \in 1..n :
         (p = 2 * j + 1 \/ p = 2 * j + 2) /\ (p - 1) \div 2 = j
  <2> SUFFICES ASSUME NEW p \in 3..(2 * n + 2)
               PROVE  \E j \in 1..n : (p = 2 * j + 1 \/ p = 2 * j + 2) /\ (p - 1) \div 2 = j
    OBVIOUS
  <2>1. PICK l \in Nat : (p - 3) + 1 \in {2 * l + 1, 2 * l + 2}
    <3>1. p - 3 \in Nat
      BY <1>2
    <3> QED BY <3>1, Halves
  <2>2. /\ l + 1 \in 1..n /\ (p = 2 * (l + 1) + 1 \/ p = 2 * (l + 1) + 2)
        /\ p - 1 = (2 * l + 1) + 1 \/ p - 1 = (2 * l + 2) + 1
    BY <1>2, <2>1
  <2>3. (p - 1) \div 2 = l + 1
    BY <2>2, Halves
  <2> QED BY <2>2, <2>3
<1>4. PICK ntag :
         /\ ntag \in [1..Len(new) -> 1..n]
         /\ \A p \in 1..Len(new) : \/ p = 1 /\ ntag[p] = 1
                                   \/ p = 2 /\ ntag[p] = 1
                                   \/ p = 2 * n + 3 /\ ntag[p] = n
                                   \/ \E j \in 1..n : /\ p = 2 * j + 1 \/ p = 2 * j + 2
                                                      /\ ntag[p] = j
  <2> DEFINE t == [p \in 1..(2 * n + 3) |->
                     IF p <= 2 THEN 1 ELSE IF p = 2 * n + 3 THEN n ELSE (p - 1) \div 2]
  <2>1. ASSUME NEW p \in 1..(2 * n + 3)
        PROVE  \/ p = 1 /\ t[p] = 1
               \/ p = 2 /\ t[p] = 1
               \/ p = 2 * n + 3 /\ t[p] = n
               \/ \E j \in 1..n : (p = 2 * j + 1 \/ p = 2 * j + 2) /\ t[p] = j
    <3>1. CASE p <= 2
      BY <3>1
    <3>2. CASE p = 2 * n + 3
      BY <1>2, <3>2
    <3>3. CASE p > 2 /\ p # 2 * n + 3
      <4>1. p \in 3..(2 * n + 2) /\ ~(p <= 2)
        <5>1. n \in Nat
          BY <1>2
        <5> QED BY <3>3, <5>1
      <4>2. t[p] = (p - 1) \div 2
        BY <3>3, <4>1, Zenon
      <4> QED BY <1>3, <4>1, <4>2, Zenon
    <3> QED BY <1>2, <3>1, <3>2, <3>3
  <2>2. t = [p \in 1..(2 * n + 3) |-> t[p]]
    OBVIOUS
  <2> HIDE DEF t
  <2>3. \A p \in 1..(2 * n + 3) : t[p] \in 1..n
    BY <1>2, <2>1
  <2>4. t \in [1..(2 * n + 3) -> 1..n]
    BY <2>2, <2>3, Zenon
  <2>5. Len(new) = 2 * n + 3
    BY <1>2
  <2> QED BY <2>1, <2>4, <2>5, Zenon
<1>5. Tags(new, keys, 0, <<>>, ntag)
  <2>1. \A j \in 1..n : keys[j] \in Key
    BY <1>1
  <2>2. NUL # "pilot" /\ "=" # "pilot" /\ \A k \in Key : Word[k][1] # "=" /\ Word[k][1] # NUL
                                                        /\ Word[k][1] # "pilot"
                                                        /\ Word[k][2] # "pilot"
    BY WordFacts DEF NUL
  <2>3. ASSUME NEW p \in 1..Len(new), NEW k \in Key, new[p] = Word[k][1]
        PROVE  ntag[p] >= 1 /\ keys[ntag[p]] = k
    <3>1. PICK j \in 1..n : (p = 2 * j + 1 \/ p = 2 * j + 2) /\ ntag[p] = j
      BY <1>2, <1>4, <2>2, <2>3, Zenon
    <3>2. new[p] = Word[keys[j]][1]
      <4>1. CASE p = 2 * j + 1
        BY <1>2, <4>1, Zenon
      <4>2. CASE p = 2 * j + 2
        <5>1. new[p] = Word[keys[j]][2] /\ keys[j] \in Key
          BY <1>2, <2>1, <4>2, Zenon
        <5>2. Word[keys[j]][2] # Word[k][1]
          BY <5>1, WordFacts, Zenon
        <5> QED BY <2>3, <5>1, <5>2, Zenon
      <4> QED BY <3>1, <4>1, <4>2
    <3>3. keys[j] = k
      BY <2>1, <2>3, <3>2, WordFacts, Zenon
    <3>4. j >= 1
      OBVIOUS
    <3> QED BY <3>1, <3>3, <3>4, Zenon
  <2>4. ASSUME NEW p \in 1..Len(new), new[p] = "pilot" PROVE p = 1
    <3>1. ASSUME NEW j \in 1..n PROVE p # 2 * j + 1 /\ p # 2 * j + 2
      <4>1. new[2 * j + 1] = Word[keys[j]][1] /\ new[2 * j + 2] = Word[keys[j]][2]
        BY <1>2, Zenon
      <4>2. new[2 * j + 1] # "pilot" /\ new[2 * j + 2] # "pilot"
        BY <2>1, <2>2, <4>1, Zenon
      <4> QED BY <2>4, <4>2, Zenon
    <3> QED BY <1>2, <1>4, <2>2, <2>4, <3>1, Zenon
  <2>5. ASSUME NEW p \in 1..Len(new), NEW q \in 1..Len(new), p < q PROVE ntag[p] <= ntag[q]
    <3>1. p \in 1..(2 * n + 3) /\ q \in 1..(2 * n + 3) /\ n \in Nat \ {0}
      BY <1>2
    <3>2. \A r \in 1..Len(new) : \/ r <= 2 /\ ntag[r] = 1
                                 \/ r = 2 * n + 3 /\ ntag[r] = n
                                 \/ \E j \in 1..n : /\ r = 2 * j + 1 \/ r = 2 * j + 2
                                                    /\ ntag[r] = j
      BY <1>4
    <3>3. PICK j \in 1..n : ntag[p] = j /\ (j = 1 \/ 2 * j + 1 <= p)
      BY <3>1, <3>2
    <3>4. PICK l \in 1..n : ntag[q] = l /\ (q <= 2 * l + 2 \/ l = n)
      BY <3>1, <3>2
    <3>5. j <= l
      BY <2>5, <3>1, <3>3, <3>4
    <3> QED BY <3>3, <3>4, <3>5, Zenon
  <2>6. ASSUME NEW p \in 1..Len(new), NEW q \in 1..Len(new), p < q, new[q] = "pilot"
        PROVE  ntag[p] < ntag[q]
    BY <2>4, <2>6
  <2> QED BY <2>3, <2>5, <2>6 DEF Tags
<1>6. \A x \in 1..Len(new) : new[x] = "pilot" => ntag[x] >= 1
  BY <1>4
<1>7. stream' = stream \o new /\ pressed' = pressed \o keys /\ UNCHANGED <<obeyed, msg>>
  BY DEF SendKeys, agent
<1>8. ntag \in [1..Len(new) -> 0..Len(keys)]
  BY <1>4
<1> QED BY <1>1, <1>2, <1>5, <1>6, <1>7, <1>8, SentKeeps, Zenon

\* A command is of a key between the message it came in and those behind it.
LEMMA RecvKeeps ==
    ASSUME StreamInv, Recv
    PROVE  StreamInv'
<1>. StreamTypeOK
  BY DEF StreamInv
<1>1. PICK len \in 1..Len(stream) :
         /\ stream' = SubSeq(stream, len + 1, Len(stream))
         /\ msg' = SubSeq(stream, 1, len) \o <<NUL>> \o SubSeq(msg, len + Len(<<NUL>>) + 1, Len(msg))
  BY DEF Recv, RecvEnding, Receive
<1>2. obeyed' = obeyed \o Obey(UpToNul(msg')) /\ pressed' = pressed
  BY DEF Recv, RecvEnding
<1>3. /\ stream \in Seq(Token) /\ pressed \in Seq(Key) /\ obeyed \in Seq(Key) /\ msg \in Seq(Token)
      /\ Len(stream) \in Nat /\ Len(pressed) \in Nat /\ Len(obeyed) \in Nat
  BY DEF StreamTypeOK
<1>. PICK text : text = UpToNul(msg')
  OBVIOUS
<1>4. /\ msg' \in Seq(Token) /\ text \in Seq(Token) /\ Len(text) <= len
      /\ \A i \in 1..Len(text) : text[i] = stream[i]
  <2>1. SubSeq(msg, len + Len(<<NUL>>) + 1, Len(msg)) \in Seq(Token) /\ len \in Nat
    <3>1. Len(<<NUL>>) = 1 /\ len \in Nat
      OBVIOUS
    <3> QED BY <1>3, <3>1
  <2>2. Holds(msg', stream, len)
    <3>. PICK rest : rest = SubSeq(msg, len + Len(<<NUL>>) + 1, Len(msg))
      OBVIOUS
    <3>1. stream \in Seq(Token) /\ rest \in Seq(Token)
      BY <1>3, <2>1
    <3>2. msg' = SubSeq(stream, 1, len) \o <<NUL>> \o rest
      BY <1>1, Zenon
    <3> QED BY <3>1, <3>2, BufferFacts, Zenon
  <2> QED BY <2>1, <2>2, TextFacts DEF Holds
<1>5. stream' \in Seq(Token) /\ len \in 0..Len(stream)
  BY <1>1, <1>3
<1>6. PICK f \in [1..Len(obeyed) -> 1..Len(pressed)],
           tag \in [1..Len(stream) -> 0..Len(pressed)] :
              Chosen(f) /\ Tags(stream, pressed, Len(obeyed), f, tag)
  BY DEF StreamInv, OrderInv
<1>7. CASE Obey(text) = <<>>
  <2>1. obeyed' = obeyed
    BY <1>2, <1>3, <1>7
  <2>2. \A p \in (len + 1)..Len(stream), i \in 1..Len(obeyed) :
           stream[p] = "pilot" => f[i] < tag[p]
    BY <1>3, <1>6 DEF Tags
  <2>3. PICK tag2 \in [1..Len(stream') -> 0..Len(pressed)] :
           Tags(stream', pressed, Len(obeyed), f, tag2)
    BY <1>1, <1>3, <1>5, <1>6, <2>2, TagsShift
  <2>4. OrderInv'
    BY <1>2, <1>6, <2>1, <2>3 DEF OrderInv, Chosen
  <2>5. StreamTypeOK'
    BY <1>2, <1>3, <1>4, <1>5, <2>1 DEF StreamTypeOK
  <2> QED BY <2>4, <2>5 DEF StreamInv
<1>8. ASSUME NEW k \in Key, Obey(text) = <<k>>, Len(text) >= 3,
             text[1] = "pilot", text[3] = Word[k][1]
      PROVE  StreamInv'
  <2>1. /\ obeyed' \in Seq(Key) /\ Len(obeyed') = Len(obeyed) + 1
        /\ \A i \in 1..Len(obeyed) : obeyed'[i] = obeyed[i]
        /\ obeyed'[Len(obeyed) + 1] = k
    <3>1. obeyed' = obeyed \o <<k>>
      BY <1>2, <1>8
    <3> QED BY <1>3, <3>1, ConcatFacts
  <2>2. /\ stream[1] = "pilot" /\ stream[3] = Word[k][1] /\ 3 <= len
        /\ 1 \in 1..Len(stream) /\ 3 \in 1..Len(stream)
    <3>1. Len(text) \in Nat /\ 1 \in 1..Len(text) /\ 3 \in 1..Len(text)
      BY <1>4, <1>8
    <3>2. 3 <= len /\ 1 \in 1..Len(stream) /\ 3 \in 1..Len(stream)
      BY <1>3, <1>4, <1>8, <3>1
    <3> QED BY <1>4, <1>8, <3>1, <3>2, Zenon
  <2>. PICK j : j = tag[3]
    OBVIOUS
  <2>3. j \in 1..Len(pressed) /\ pressed[j] = k /\ \A i \in 1..Len(obeyed) : f[i] < j
    <3>1. /\ stream \in Seq(Token) /\ pressed \in Seq(Key) /\ Len(obeyed) \in Nat
          /\ Tags(stream, pressed, Len(obeyed), f, tag)
      BY <1>3, <1>6
    <3>2. tag[3] \in 1..Len(pressed) /\ pressed[tag[3]] = k /\ \A i \in 1..Len(obeyed) : f[i] < tag[3]
      BY <2>2, <3>1, KeyTag
    <3> QED BY <3>2
  <2>4. PICK f2 \in [1..(Len(obeyed) + 1) -> 1..Len(pressed)] :
           f2[Len(obeyed) + 1] = j /\ \A i \in 1..Len(obeyed) : f2[i] = f[i]
    <3>1. Len(obeyed) \in Nat /\ Len(pressed) \in Nat /\ j \in 1..Len(pressed)
      BY <1>3, <2>3
    <3>2. \E f2 : Extended(f2, f, Len(obeyed), Len(pressed), j)
      BY <3>1, ExtendedBy, Zenon
    <3> QED BY <3>2 DEF Extended
  <2>5. \A i \in 1..(Len(obeyed) + 1) : i \in 1..Len(obeyed) \/ i = Len(obeyed) + 1
    BY <1>3
  <2>6. ASSUME NEW p \in (len + 1)..Len(stream), NEW i \in 1..(Len(obeyed) + 1),
               stream[p] = "pilot"
        PROVE  f2[i] < tag[p]
    <3>1. p \in 1..Len(stream) /\ 3 < p
      BY <1>3, <2>2
    <3>2. j < tag[p] /\ \A l \in 1..Len(obeyed) : f[l] < tag[p]
      BY <1>6, <2>2, <2>6, <3>1 DEF Tags
    <3> QED BY <2>4, <2>5, <3>2, Zenon
  <2>7. PICK tag2 \in [1..Len(stream') -> 0..Len(pressed)] :
           Tags(stream', pressed, Len(obeyed) + 1, f2, tag2)
    <3>1. Len(obeyed) + 1 \in Nat
      BY <1>3
    <3> QED BY <1>1, <1>3, <1>5, <1>6, <2>6, <3>1, TagsShift
  <2>8. ASSUME NEW i \in 1..(Len(obeyed) + 1)
        PROVE  /\ obeyed'[i] = pressed[f2[i]]
               /\ \A l \in 1..(Len(obeyed) + 1) : i < l => f2[i] < f2[l]
    <3>1. ASSUME NEW l \in 1..(Len(obeyed) + 1), i < l PROVE i \in 1..Len(obeyed)
      BY <1>3, <3>1
    <3>2. /\ \A l, q \in 1..Len(obeyed) : l < q => f[l] < f[q]
          /\ \A l \in 1..Len(obeyed) : obeyed[l] = pressed[f[l]]
      BY <1>6 DEF Chosen
    <3>3. obeyed'[i] = pressed[f2[i]]
      BY <2>1, <2>3, <2>4, <2>5, <3>2, Zenon
    <3>4. ASSUME NEW l \in 1..(Len(obeyed) + 1), i < l PROVE f2[i] < f2[l]
      BY <2>3, <2>4, <2>5, <3>1, <3>2, <3>4, Zenon
    <3> QED BY <3>3, <3>4
  <2>9. OrderInv'
    BY <1>2, <2>1, <2>7, <2>8 DEF OrderInv, Chosen
  <2>10. StreamTypeOK'
    BY <1>2, <1>3, <1>4, <1>5, <2>1 DEF StreamTypeOK
  <2> QED BY <2>9, <2>10 DEF StreamInv
<1> QED BY <1>4, <1>7, <1>8, ObeyFacts

LEMMA StreamInit == AgentInit => StreamInv
<1> SUFFICES ASSUME AgentInit PROVE StreamInv
  OBVIOUS
<1>1. StreamTypeOK /\ Len(stream) = 0 /\ Len(obeyed) = 0 /\ Len(pressed) = 0
  BY DEF AgentInit, StreamTypeOK
<1>. PICK none : none = [i \in 1..0 |-> 0]
  OBVIOUS
<1>2. none \in [1..Len(obeyed) -> 1..Len(pressed)] /\ none \in [1..Len(stream) -> 0..Len(pressed)]
  BY <1>1
<1>3. Chosen(none) /\ Tags(stream, pressed, Len(obeyed), none, none)
  BY <1>1 DEF Chosen, Tags
<1> QED BY <1>1, <1>2, <1>3 DEF StreamInv, OrderInv

LEMMA StreamStep == StreamInv /\ [AgentNext]_avars => StreamInv'
<1> SUFFICES ASSUME StreamInv, [AgentNext]_avars PROVE StreamInv'
  OBVIOUS
<1>1. ASSUME UNCHANGED <<stream, msg, pressed, obeyed>> PROVE StreamInv'
  BY <1>1 DEF StreamInv, StreamTypeOK, OrderInv, Chosen
<1>2. ASSUME TakeLoginSplit PROVE StreamInv'
  <2>. PICK new : new = <<"server=terminated", NUL>>
    OBVIOUS
  <2>1. new \in Seq(Token) /\ Len(new) = 2
    BY DEF Token
  <2>2. \A x \in 1..Len(new) : new[x] # "pilot" /\ \A k \in Key : new[x] # Word[k][1]
    <3>1. ASSUME NEW k \in Key PROVE Word[k][1] \notin {"server=terminated", NUL}
      BY WordFacts
    <3>2. \A x \in 1..Len(new) : new[x] \in {"server=terminated", NUL}
      BY <2>1
    <3>3. "pilot" \notin {"server=terminated", NUL}
      BY DEF NUL
    <3> QED BY <3>1, <3>2, <3>3
  <2>3. /\ stream' = stream \o new
        /\ UNCHANGED <<pressed, obeyed, msg>>
    BY <1>2 DEF TakeLoginSplit, agent
  <2> QED BY <2>1, <2>2, <2>3, NoKeysKeeps
<1>3. ASSUME SendSnapshot PROVE StreamInv'
  <2>1. Snapshot \in Seq(Token) /\ Len(Snapshot) = 3
    BY DEF Token, Snapshot
  <2>2. \A x \in 1..Len(Snapshot) :
           Snapshot[x] # "pilot" /\ \A k \in Key : Snapshot[x] # Word[k][1]
    <3>1. ASSUME NEW k \in Key PROVE Word[k][1] \notin {"gpio_status", "=", "1"}
      BY WordFacts
    <3>2. \A x \in 1..Len(Snapshot) : Snapshot[x] \in {"gpio_status", "=", "1"}
      BY <2>1 DEF Snapshot
    <3> QED BY <3>1, <3>2
  <2>3. stream' = stream \o Snapshot /\ UNCHANGED <<pressed, obeyed, msg>>
    BY <1>3, <2>1 DEF SendSnapshot, agent
  <2> QED BY <2>1, <2>2, <2>3, NoKeysKeeps
<1>4. ASSUME Connect PROVE StreamInv'
  BY <1>1, <1>4, EmptyKeeps DEF Connect, server
<1>5. ASSUME RecvFails PROVE StreamInv'
  BY <1>5, EmptyKeeps DEF RecvFails
<1>6. ASSUME \/ ServerListens \/ ServerStops \/ TakeLogin \/ AgentStarts
             \/ Socket \/ RecvEnd \/ Close \/ UNCHANGED avars
      PROVE  UNCHANGED <<stream, msg, pressed, obeyed>>
  BY <1>6 DEF ServerListens, ServerStops, TakeLogin, AgentStarts, Socket, RecvEnd, RecvEndGoes,
              Close, avars, server, agent
<1> QED
  BY <1>1, <1>2, <1>3, <1>4, <1>5, <1>6, SendKeysKeeps, RecvKeeps DEF AgentNext, AgentSteps

\* For every sequence of messages of the remote control, and however recv
\* cuts the stream of the server: service-c/client.c carries out only keys
\* that were pressed, each at most once and in their order.
THEOREM KeysAreObeyedInOrder == AgentSpec => []KeysObeyedInOrder
<1>1. StreamInv => KeysObeyedInOrder
  BY DEF StreamInv, OrderInv, Chosen, KeysObeyedInOrder
<1> QED BY <1>1, StreamInit, StreamStep, PTL DEF AgentSpec
=============================================================================
