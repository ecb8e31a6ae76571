--------------------------- MODULE GpioLinesProofs ---------------------------
(***************************************************************************)
(* Proofs about GpioLines, for any number of connections and lines, and    *)
(* whether the relay is reversed or not.                                   *)
(***************************************************************************)
EXTENDS GpioLines, TLAPS

Setting(t) == pc[t] \in {"set", "write"}

\* A departure, from the moment it has the mutex.
Closing(c) ==
    \/ pc[c] \in {"clear", "handover", "remove"}
    \/ pc[c] \in {"set", "write", "read", "send"} /\ op[c].next = "clear"

Off == [line |-> 1, val |-> 0, next |-> "clear"]
On  == [line |-> 1, val |-> 1, next |-> "recv"]

Note == [line : Line, val : {0, 1}, next : {"recv", "leave", "clear", "asked"}]

\* A departure holds the mutex, and sets line 1 off.
HeldInv ==
    /\ \A c \in Conn : Closing(c) => mutex = c
    /\ \A c \in Conn : Setting(c) /\ Closing(c) => op[c] = Off

\* A thread that sets nothing has nothing noted; the key sender sets line 2.
OpInv ==
    /\ \A t \in Threads : pc[t] \in {"none", "recv", "leave"} => op[t] = NoOp
    /\ op[Key].next = "recv" /\ (Setting(Key) => op[Key].line = 2)

\* Without the mutex the key sender sets line 2 and a login line 1.
SetInv ==
    \A t \in Threads : Setting(t) /\ mutex # t =>
        \/ t = Key
        \/ t \in Conn /\ auto /\ mode[t] = 1 /\ op[t] = On

\* A locked line and its file agree, or the holder of the mutex is about to
\* write the file.
FileInv ==
    \A l \in Locked :
        IF mutex \in Conn /\ pc[mutex] = "write" /\ op[mutex].line = l
        THEN line[l] = Level(op[mutex].val)
        ELSE file[l] = Absent \/ (file[l] \in {0, 1} /\ line[l] = Level(file[l]))

\* A snapshot read under the mutex is what the files of locked lines say.
SnapInv ==
    \A c \in Conn : pc[c] = "send" /\ mutex = c =>
        \A l \in Locked : file[l] # Absent => snap[c][l] = file[l]

OtherGpio(c) == \E d \in Conn \ {c} : InTable(d) /\ mode[d] = 1

\* A departing gpio client has switched line 1 off, unless another one may
\* have switched it on meanwhile.
DarkInv ==
    \A c \in Conn :
        auto /\ mode[c] = 1 /\ Closing(c) /\ pc[c] # "set" /\ ~OtherGpio(c)
        => line[1] = Level(0) /\ (pc[c] # "write" => file[1] = 0)

LinesInv ==
    LinesTypeOK /\ HeldInv /\ OpInv /\ SetInv /\ FileInv /\ SnapInv /\ DarkInv

-----------------------------------------------------------------------------
\* The numbers of threads, connections and lines.
LEMMA ThreadFacts ==
    /\ Conn \subseteq Threads /\ Key \in Threads /\ Key \notin Conn /\ None \notin Threads
    /\ \A t \in Threads : t = Key \/ t \in Conn
    /\ 1 \in Line /\ 2 \in Line
BY LinesAssumption DEF Conn, Threads, Key, None, Line

\* What is noted of a set or of none has the type of a note.
LEMMA NoteFacts == NoOp \in Note /\ On \in Note /\ Off \in Note
BY ThreadFacts DEF NoOp, On, Off, Note

LEMMA LevelFacts == \A v \in {0, 1} : Level(v) \in {0, 1}
BY DEF Level

\* What can be read of a file is a value of a snapshot.
LEMMA ReadableFacts ==
    ASSUME LinesTypeOK, NEW l \in Line
    PROVE  /\ Readable(file[l]) \subseteq {0, 1, Junk}
           /\ file[l] \in {0, 1} => Readable(file[l]) = {file[l]}
BY DEF LinesTypeOK, Readable, Absent, Empty, Junk

LEMMA LinesInitInv == LinesInit => LinesInv
<1> SUFFICES ASSUME LinesInit PROVE LinesInv
  OBVIOUS
<1> USE ThreadFacts DEF LinesInit
<1>1. NoOp \in [line : Line, val : {0, 1}, next : {"recv", "leave", "clear", "asked"}]
  BY DEF NoOp
<1>2. NoSnap \in [Line -> {0, 1, Junk}]
  BY DEF NoSnap
<1>3. LinesTypeOK
  BY <1>1, <1>2 DEF LinesTypeOK, Modes, None
<1>4. \A t \in Threads : op[t] = NoOp /\ pc[t] \in {"none", "recv"}
  OBVIOUS
<1>5. HeldInv /\ OpInv /\ SetInv
  BY <1>4 DEF HeldInv, OpInv, SetInv, Closing, Setting, NoOp
<1>6. FileInv /\ SnapInv /\ DarkInv
  BY <1>4 DEF FileInv, SnapInv, DarkInv, Closing, Locked
<1> QED BY <1>3, <1>5, <1>6 DEF LinesInv
-----------------------------------------------------------------------------
(* Steps on the lines, by any thread.                                      *)

LEMMA GpiosetInv == ASSUME LinesInv, NEW t \in Threads, Gpioset(t) PROVE LinesInv'
<1> USE ThreadFacts DEF LinesInv
<1>1. LinesTypeOK'
  BY LevelFacts DEF LinesTypeOK, Gpioset, Goto
<1>2. pc' = [pc EXCEPT ![t] = "write"] /\ pc[t] = "set" /\ UNCHANGED <<auto, mode, mutex, op, snap>>
  BY DEF Gpioset, Goto
<1>3. HeldInv'
  BY <1>2 DEF HeldInv, Closing, Setting, LinesTypeOK
<1>4. OpInv'
  BY <1>2 DEF OpInv, Setting, LinesTypeOK
<1>5. SetInv'
  BY <1>2 DEF SetInv, Setting, LinesTypeOK
<1>6. op[t].line \in Locked => mutex = t
  BY <1>2 DEF SetInv, OpInv, Setting, Locked, On
<1>7. FileInv'
  BY <1>1, <1>2, <1>6 DEF FileInv, Gpioset, LinesTypeOK, Locked, Absent, Empty, Goto
<1>8. SnapInv'
  BY <1>2, <1>6 DEF SnapInv, Gpioset, LinesTypeOK, Locked
<1>9. DarkInv'
  BY <1>2 DEF DarkInv, Gpioset, LinesTypeOK, Closing, OtherGpio, InTable, HeldInv, SetInv, OpInv, Setting, Off, On
<1> QED BY <1>1, <1>3, <1>4, <1>5, <1>7, <1>8, <1>9

LEMMA WriteFileInv == ASSUME LinesInv, NEW t \in Threads, WriteFile(t) PROVE LinesInv'
<1> USE ThreadFacts DEF LinesInv
<1>1. LinesTypeOK'
  BY DEF LinesTypeOK, WriteFile, Goto
<1>2. pc' = [pc EXCEPT ![t] = "read"] /\ pc[t] = "write" /\ UNCHANGED <<auto, line, mode, mutex, op, snap>>
  BY DEF WriteFile, Goto
<1>3. HeldInv'
  BY <1>2 DEF HeldInv, Closing, Setting, LinesTypeOK
<1>4. OpInv' /\ SetInv'
  BY <1>2 DEF OpInv, SetInv, Setting, LinesTypeOK
<1>5. op[t].line \in Locked => mutex = t
  BY <1>2 DEF SetInv, OpInv, Setting, Locked, On
<1>6. file' = [file EXCEPT ![op[t].line] = op[t].val]
  BY DEF WriteFile
<1>7. FileInv'
  <2> SUFFICES ASSUME NEW l \in Locked' PROVE
        IF mutex' \in Conn /\ pc'[mutex'] = "write" /\ op'[mutex'].line = l
        THEN line'[l] = Level(op'[mutex'].val)
        ELSE file'[l] = Absent \/ (file'[l] \in {0, 1} /\ line'[l] = Level(file'[l]))
    BY DEF FileInv, Level
  <2>1. l \in Locked /\ l \in Line
    BY <1>2 DEF Locked
  <2>2. CASE op[t].line = l
    BY <1>2, <1>5, <1>6, <2>1, <2>2 DEF FileInv, LinesTypeOK, Absent, Empty
  <2>3. CASE op[t].line # l
    BY <1>2, <1>6, <2>1, <2>3 DEF FileInv, LinesTypeOK
  <2> QED BY <2>2, <2>3
<1>8. SnapInv'
  BY <1>2, <1>5, <1>6 DEF SnapInv, LinesTypeOK, Locked
<1>9. DarkInv'
  BY <1>2, <1>6 DEF DarkInv, LinesTypeOK, Closing, OtherGpio, InTable, HeldInv, SetInv, OpInv,
                    Setting, Off, On, Level
<1> QED BY <1>1, <1>3, <1>4, <1>7, <1>8, <1>9

LEMMA ReadLinesInv == ASSUME LinesInv, NEW t \in Threads, ReadLines(t) PROVE LinesInv'
<1> USE ThreadFacts DEF LinesInv
<1>1. PICK s \in Snapshots : snap' = [snap EXCEPT ![t] = s]
  BY DEF ReadLines
<1>2. /\ pc' = [pc EXCEPT ![t] = "send"] /\ pc[t] = "read"
      /\ UNCHANGED <<auto, line, file, mode, op>>
      /\ mutex' = mutex \/ (mutex = None /\ mutex' = t /\ t \in Conn)
  BY DEF ReadLines, Goto, lines
<1>3. s \in [Line -> {0, 1, Junk}] /\ \A l \in Line : s[l] \in Readable(file[l])
  BY DEF Snapshots
<1>4. LinesTypeOK'
  BY <1>1, <1>2, <1>3 DEF LinesTypeOK
<1>5. HeldInv' /\ OpInv'
  BY <1>2 DEF HeldInv, OpInv, Closing, Setting, LinesTypeOK
<1>6. SetInv'
  BY <1>2 DEF SetInv, Setting, LinesTypeOK
<1>7. FileInv'
  BY <1>2 DEF FileInv, LinesTypeOK, Locked, Level
<1>8. SnapInv'
  <2> SUFFICES ASSUME NEW c \in Conn, pc'[c] = "send", mutex' = c,
                      NEW l \in Locked, file[l] # Absent
               PROVE  snap'[c][l] = file[l]
    BY <1>2 DEF SnapInv, Locked
  <2>1. l \in Line
    BY DEF Locked
  <2>2. CASE c = t
    <3>1. file[l] \in {0, 1}
      BY <1>2, <2>2 DEF FileInv, LinesTypeOK
    <3>2. Readable(file[l]) = {file[l]}
      BY <2>1, <3>1, ReadableFacts
    <3> QED BY <1>1, <1>3, <2>1, <2>2, <3>2 DEF LinesTypeOK
  <2>3. CASE c # t
    BY <1>1, <1>2, <2>1, <2>3 DEF SnapInv, LinesTypeOK
  <2> QED BY <2>2, <2>3
<1>9. DarkInv'
  BY <1>2 DEF DarkInv, LinesTypeOK, Closing, OtherGpio, InTable, Level
<1> QED BY <1>4, <1>5, <1>6, <1>7, <1>8, <1>9

LEMMA AnnounceInv == ASSUME LinesInv, NEW t \in Threads, Announce(t) PROVE LinesInv'
<1> USE ThreadFacts DEF LinesInv
<1>1. /\ pc[t] = "send" /\ op[t].next # "asked" /\ mutex \in {None, t}
      /\ pc' = [pc EXCEPT ![t] = op[t].next] /\ op' = [op EXCEPT ![t] = NoOp]
      /\ mutex' = IF op[t].next = "clear" THEN t ELSE None
      /\ snap' = [snap EXCEPT ![t] = NoSnap]
      /\ UNCHANGED <<auto, line, file, mode>>
  BY DEF Announce, AnnounceTo, Goto, lines
<1>2. op[t].next \in {"recv", "leave", "clear"} /\ (op[t].next = "clear" => t \in Conn)
  BY <1>1 DEF LinesTypeOK, OpInv
<1>3. /\ NoOp \in [line : Line, val : {0, 1}, next : {"recv", "leave", "clear", "asked"}]
      /\ NoSnap \in [Line -> {0, 1, Junk}]
  BY DEF NoOp, NoSnap
<1>4. LinesTypeOK'
  BY <1>1, <1>2, <1>3 DEF LinesTypeOK
<1>5. HeldInv'
  BY <1>1, <1>2 DEF HeldInv, Closing, Setting, LinesTypeOK
<1>6. OpInv' /\ SetInv'
  BY <1>1, <1>2 DEF OpInv, SetInv, Setting, LinesTypeOK, NoOp
<1>7. FileInv'
  BY <1>1 DEF FileInv, LinesTypeOK, Locked, Level
<1>8. SnapInv'
  BY <1>1, <1>2 DEF SnapInv, LinesTypeOK, Locked
<1>9. DarkInv'
  BY <1>1, <1>2 DEF DarkInv, LinesTypeOK, Closing, OtherGpio, InTable, Level, HeldInv
<1> QED BY <1>4, <1>5, <1>6, <1>7, <1>8, <1>9

-----------------------------------------------------------------------------
(* Steps of the connections.                                               *)

LEMMA AcceptInv == ASSUME LinesInv, NEW c \in Conn, Accept(c) PROVE LinesInv'
<1> USE ThreadFacts DEF LinesInv
<1>1. /\ pc[c] = "none" /\ pc' = [pc EXCEPT ![c] = "recv"]
      /\ UNCHANGED <<auto, line, file, mode, mutex, op, snap>>
  BY DEF Accept, Goto, lines
<1>2. LinesTypeOK'
  BY <1>1 DEF LinesTypeOK
<1>3. HeldInv'
  BY <1>1 DEF HeldInv, Closing, Setting, LinesTypeOK, NoOp, Off
<1>4. OpInv'
  BY <1>1 DEF OpInv, Setting, LinesTypeOK, NoOp
<1>5. SetInv'
  BY <1>1 DEF SetInv, OpInv, Setting, LinesTypeOK, NoOp, On
<1>6. FileInv'
  BY <1>1 DEF FileInv, LinesTypeOK, Locked, Level
<1>7. SnapInv'
  BY <1>1 DEF SnapInv, LinesTypeOK, Locked
<1>8. DarkInv'
  BY <1>1 DEF DarkInv, HeldInv, OpInv, LinesTypeOK, Closing, OtherGpio, InTable, Level, NoOp
<1> QED BY <1>2, <1>3, <1>4, <1>5, <1>6, <1>7, <1>8

LEMMA AskInv == ASSUME LinesInv, NEW c \in Conn, Ask(c) PROVE LinesInv'
<1> USE ThreadFacts DEF LinesInv
<1>1. /\ pc[c] = "recv" /\ pc' = [pc EXCEPT ![c] = "read"]
      /\ op' = [op EXCEPT ![c].next = "asked"]
      /\ UNCHANGED <<auto, line, file, mode, mutex, snap>>
  BY DEF Ask, Idle, Goto, lines
<1>2. LinesTypeOK'
  <2>1. op' \in [Threads -> Note]
    BY <1>1, NoteFacts DEF LinesTypeOK, Note
  <2>2. pc' \in [Threads -> {"none", "recv", "set", "write", "read", "send",
                            "leave", "clear", "handover", "remove", "done"}]
    BY <1>1 DEF LinesTypeOK
  <2> QED BY <1>1, <2>1, <2>2, Zenon DEF LinesTypeOK, Note
<1>3. HeldInv'
  BY <1>1 DEF HeldInv, Closing, Setting, LinesTypeOK, NoOp, Off
<1>4. OpInv'
  BY <1>1 DEF OpInv, Setting, LinesTypeOK, NoOp
<1>5. SetInv'
  BY <1>1 DEF SetInv, OpInv, Setting, LinesTypeOK, NoOp, On
<1>6. FileInv'
  BY <1>1 DEF FileInv, LinesTypeOK, Locked, Level
<1>7. SnapInv'
  BY <1>1 DEF SnapInv, LinesTypeOK, Locked
<1>8. DarkInv'
  BY <1>1 DEF DarkInv, HeldInv, OpInv, LinesTypeOK, Closing, OtherGpio, InTable, Level, NoOp
<1> QED BY <1>2, <1>3, <1>4, <1>5, <1>6, <1>7, <1>8

LEMMA AnswerInv == ASSUME LinesInv, NEW c \in Conn, Answer(c) PROVE LinesInv'
<1> USE ThreadFacts DEF LinesInv
<1>1. /\ pc[c] = "send" /\ op[c].next = "asked" /\ pc' = [pc EXCEPT ![c] = "recv"]
      /\ op' = [op EXCEPT ![c] = NoOp] /\ snap' = [snap EXCEPT ![c] = NoSnap]
      /\ UNCHANGED <<auto, line, file, mode, mutex>>
  BY DEF Answer, Goto, lines
<1>2. LinesTypeOK'
  BY <1>1 DEF LinesTypeOK, NoOp, NoSnap
<1>3. HeldInv'
  BY <1>1 DEF HeldInv, Closing, Setting, LinesTypeOK, NoOp, Off
<1>4. OpInv'
  BY <1>1 DEF OpInv, Setting, LinesTypeOK, NoOp
<1>5. SetInv'
  BY <1>1 DEF SetInv, OpInv, Setting, LinesTypeOK, NoOp, On
<1>6. FileInv'
  BY <1>1 DEF FileInv, LinesTypeOK, Locked, Level
<1>7. SnapInv'
  BY <1>1 DEF SnapInv, LinesTypeOK, Locked
<1>8. DarkInv'
  BY <1>1 DEF DarkInv, HeldInv, OpInv, LinesTypeOK, Closing, OtherGpio, InTable, Level, NoOp
<1> QED BY <1>2, <1>3, <1>4, <1>5, <1>6, <1>7, <1>8

LEMMA HangupInv == ASSUME LinesInv, NEW c \in Conn, Hangup(c) PROVE LinesInv'
<1> USE ThreadFacts DEF LinesInv
<1>1. /\ pc[c] = "recv" /\ pc' = [pc EXCEPT ![c] = "leave"]
      /\ UNCHANGED <<auto, line, file, mode, mutex, op, snap>>
  BY DEF Hangup, Idle, Goto, lines
<1>2. LinesTypeOK'
  BY <1>1 DEF LinesTypeOK
<1>3. HeldInv'
  BY <1>1 DEF HeldInv, Closing, Setting, LinesTypeOK, NoOp, Off
<1>4. OpInv'
  BY <1>1 DEF OpInv, Setting, LinesTypeOK, NoOp
<1>5. SetInv'
  BY <1>1 DEF SetInv, OpInv, Setting, LinesTypeOK, NoOp, On
<1>6. FileInv'
  BY <1>1 DEF FileInv, LinesTypeOK, Locked, Level
<1>7. SnapInv'
  BY <1>1 DEF SnapInv, LinesTypeOK, Locked
<1>8. DarkInv'
  BY <1>1 DEF DarkInv, HeldInv, OpInv, LinesTypeOK, Closing, OtherGpio, InTable, Level, NoOp
<1> QED BY <1>2, <1>3, <1>4, <1>5, <1>6, <1>7, <1>8

LEMMA LoginInv == ASSUME LinesInv, NEW c \in Conn, NEW m \in Modes \ {0}, Login(c, m) PROVE LinesInv'
<1> USE ThreadFacts DEF LinesInv
<1>1. /\ pc[c] = "recv" /\ mutex = None
      /\ mode' = [mode EXCEPT ![c] = m]
      /\ \/ /\ m = 1 /\ auto
            /\ op' = [op EXCEPT ![c] = On] /\ pc' = [pc EXCEPT ![c] = "set"]
         \/ UNCHANGED <<op, pc>>
      /\ UNCHANGED <<auto, line, file, mutex, snap>>
  <2>1. op[c] = NoOp /\ [op[c] EXCEPT !.val = 1] = On
    BY DEF Login, Idle, OpInv, NoOp, On
  <2>2. [op EXCEPT ![c].val = 1] = [op EXCEPT ![c] = On]
    BY <2>1
  <2> QED BY <2>2 DEF Login, Idle, Goto, lines
<1>2. LinesTypeOK'
  <2>1. op' \in [Threads -> Note]
    BY <1>1, NoteFacts DEF LinesTypeOK, Note
  <2> QED BY <1>1, <2>1 DEF LinesTypeOK, Note, Modes
<1>3. HeldInv'
  BY <1>1 DEF HeldInv, Closing, Setting, LinesTypeOK, On
<1>4. OpInv'
  BY <1>1 DEF OpInv, Setting, LinesTypeOK, NoOp
<1>5. SetInv'
  BY <1>1 DEF SetInv, OpInv, Setting, LinesTypeOK, On
<1>6. FileInv'
  BY <1>1 DEF FileInv, LinesTypeOK, Locked, Level
<1>7. SnapInv'
  BY <1>1 DEF SnapInv, LinesTypeOK, Locked
<1>8. DarkInv'
  BY <1>1 DEF DarkInv, HeldInv, OpInv, LinesTypeOK, Closing, OtherGpio, InTable, Level, NoOp
<1> QED BY <1>2, <1>3, <1>4, <1>5, <1>6, <1>7, <1>8

LEMMA SetLineInv == ASSUME LinesInv, NEW c \in Conn, NEW l \in Line, NEW v \in {0, 1}, SetLine(c, l, v) PROVE LinesInv'
<1> USE ThreadFacts DEF LinesInv
<1>1. /\ pc[c] = "recv" /\ pc' = [pc EXCEPT ![c] = "set"]
      /\ mutex = None /\ mutex' = c
      /\ \E x \in {"leave", "recv"} : op' = [op EXCEPT ![c] = [line |-> l, val |-> v, next |-> x]]
      /\ UNCHANGED <<auto, line, file, mode, snap>>
  BY DEF SetLine, SetHolding, Idle, Goto, lines
<1>2. LinesTypeOK'
  BY <1>1 DEF LinesTypeOK
<1>3. HeldInv'
  BY <1>1 DEF HeldInv, Closing, Setting, LinesTypeOK, NoOp, Off
<1>4. OpInv'
  BY <1>1 DEF OpInv, Setting, LinesTypeOK, NoOp
<1>5. SetInv'
  BY <1>1 DEF SetInv, OpInv, Setting, LinesTypeOK, NoOp, On
<1>6. FileInv'
  BY <1>1 DEF FileInv, LinesTypeOK, Locked, Level
<1>7. SnapInv'
  BY <1>1 DEF SnapInv, LinesTypeOK, Locked
<1>8. DarkInv'
  BY <1>1 DEF DarkInv, HeldInv, OpInv, LinesTypeOK, Closing, OtherGpio, InTable, Level, NoOp
<1> QED BY <1>2, <1>3, <1>4, <1>5, <1>6, <1>7, <1>8

LEMMA ExitLockInv == ASSUME LinesInv, NEW c \in Conn, ExitLock(c) PROVE LinesInv'
<1> USE ThreadFacts DEF LinesInv
<1>1. /\ pc[c] = "leave" /\ mutex = None /\ mutex' = c
      /\ \/ /\ op' = [op EXCEPT ![c] = Off] /\ pc' = [pc EXCEPT ![c] = "set"]
         \/ /\ op' = [op EXCEPT ![c] = NoOp] /\ pc' = [pc EXCEPT ![c] = "clear"]
            /\ ~(mode[c] = 1 /\ auto)
      /\ UNCHANGED <<auto, line, file, mode, snap>>
  <2>1. /\ op[c] = NoOp /\ [op[c] EXCEPT !.next = "clear"] = Off
        /\ [op[c] EXCEPT !.next = "recv"] = NoOp
    BY DEF ExitLock, ExitLockIf, OpInv, NoOp, Off
  <2>2. /\ [op EXCEPT ![c].next = "clear"] = [op EXCEPT ![c] = Off]
        /\ [op EXCEPT ![c].next = "recv"] = [op EXCEPT ![c] = NoOp]
    BY <2>1
  <2> QED BY <2>2 DEF ExitLock, ExitLockIf, Goto, lines
<1>2. LinesTypeOK'
  <2>1. op' \in [Threads -> Note]
    BY <1>1, NoteFacts DEF LinesTypeOK, Note
  <2> QED BY <1>1, <2>1 DEF LinesTypeOK, Note
<1>3. HeldInv'
  <2>1. ASSUME NEW d \in Conn, d # c PROVE ~Closing(d)'
    BY <1>1, <2>1 DEF HeldInv, Closing, LinesTypeOK
  <2>2. Setting(c)' => op'[c] = Off
    BY <1>1 DEF Setting, LinesTypeOK
  <2> QED BY <1>1, <2>1, <2>2 DEF HeldInv
<1>4. OpInv'
  BY <1>1 DEF OpInv, Setting, LinesTypeOK, NoOp
<1>5. SetInv'
  BY <1>1 DEF SetInv, OpInv, Setting, LinesTypeOK, NoOp, Off, On
<1>6. FileInv'
  BY <1>1 DEF FileInv, LinesTypeOK, Locked, Level
<1>7. SnapInv'
  BY <1>1 DEF SnapInv, LinesTypeOK, Locked
<1>8. DarkInv'
  BY <1>1 DEF DarkInv, HeldInv, OpInv, LinesTypeOK, Closing, OtherGpio, InTable, Level, NoOp
<1> QED BY <1>2, <1>3, <1>4, <1>5, <1>6, <1>7, <1>8

LEMMA ExitClearInv == ASSUME LinesInv, NEW c \in Conn, NEW l \in {"handover", "remove"}, ExitClear(c, l) PROVE LinesInv'
<1> USE ThreadFacts DEF LinesInv
<1>1. /\ pc[c] = "clear" /\ pc' = [pc EXCEPT ![c] = l]
      /\ UNCHANGED <<auto, line, file, mode, mutex, op, snap>>
  BY DEF ExitClear, Goto, lines
<1>2. LinesTypeOK'
  BY <1>1 DEF LinesTypeOK
<1>3. HeldInv'
  BY <1>1 DEF HeldInv, Closing, Setting, LinesTypeOK, NoOp, Off
<1>4. OpInv'
  BY <1>1 DEF OpInv, Setting, LinesTypeOK, NoOp
<1>5. SetInv'
  BY <1>1 DEF SetInv, OpInv, Setting, LinesTypeOK, NoOp, On
<1>6. FileInv'
  BY <1>1 DEF FileInv, LinesTypeOK, Locked, Level
<1>7. SnapInv'
  BY <1>1 DEF SnapInv, LinesTypeOK, Locked
<1>8. DarkInv'
  BY <1>1 DEF DarkInv, HeldInv, OpInv, LinesTypeOK, Closing, OtherGpio, InTable, Level, NoOp
<1> QED BY <1>2, <1>3, <1>4, <1>5, <1>6, <1>7, <1>8

LEMMA ExitHandoverInv == ASSUME LinesInv, NEW c \in Conn, ExitHandover(c) PROVE LinesInv'
<1> USE ThreadFacts DEF LinesInv
<1>1. /\ pc[c] = "handover" /\ pc' = [pc EXCEPT ![c] = "remove"]
      /\ UNCHANGED <<auto, line, file, mode, mutex, op, snap>>
  BY DEF ExitHandover, Goto, lines
<1>2. LinesTypeOK'
  BY <1>1 DEF LinesTypeOK
<1>3. HeldInv'
  BY <1>1 DEF HeldInv, Closing, Setting, LinesTypeOK, NoOp, Off
<1>4. OpInv'
  BY <1>1 DEF OpInv, Setting, LinesTypeOK, NoOp
<1>5. SetInv'
  BY <1>1 DEF SetInv, OpInv, Setting, LinesTypeOK, NoOp, On
<1>6. FileInv'
  BY <1>1 DEF FileInv, LinesTypeOK, Locked, Level
<1>7. SnapInv'
  BY <1>1 DEF SnapInv, LinesTypeOK, Locked
<1>8. DarkInv'
  BY <1>1 DEF DarkInv, HeldInv, OpInv, LinesTypeOK, Closing, OtherGpio, InTable, Level, NoOp
<1> QED BY <1>2, <1>3, <1>4, <1>5, <1>6, <1>7, <1>8

LEMMA ExitRemoveInv == ASSUME LinesInv, NEW c \in Conn, ExitRemove(c) PROVE LinesInv'
<1> USE ThreadFacts DEF LinesInv
<1>1. /\ pc[c] = "remove" /\ pc' = [pc EXCEPT ![c] = "done"]
      /\ mutex' = None /\ mode' = [mode EXCEPT ![c] = 0]
      /\ UNCHANGED <<auto, line, file, op, snap>>
  BY DEF ExitRemove, Goto, lines
<1>2. LinesTypeOK'
  BY <1>1 DEF LinesTypeOK, Modes
<1>3. HeldInv'
  BY <1>1 DEF HeldInv, Closing, Setting, LinesTypeOK, NoOp, Off
<1>4. OpInv'
  BY <1>1 DEF OpInv, Setting, LinesTypeOK, NoOp
<1>5. SetInv'
  BY <1>1 DEF SetInv, HeldInv, Closing, OpInv, Setting, LinesTypeOK, NoOp, On
<1>6. FileInv'
  BY <1>1 DEF FileInv, HeldInv, Closing, LinesTypeOK, Locked, Level
<1>7. SnapInv'
  BY <1>1 DEF SnapInv, LinesTypeOK, Locked
<1>8. DarkInv'
  BY <1>1 DEF DarkInv, HeldInv, OpInv, LinesTypeOK, Closing, OtherGpio, InTable, Level, NoOp
<1> QED BY <1>2, <1>3, <1>4, <1>5, <1>6, <1>7, <1>8

LEMMA ToggleInv == ASSUME LinesInv, Toggle PROVE LinesInv'
<1> USE ThreadFacts DEF LinesInv
<1>1. PICK v \in {0, 1} :
        /\ pc[Key] = "recv" /\ pc' = [pc EXCEPT ![Key] = "set"]
        /\ op' = [op EXCEPT ![Key] = [line |-> 2, val |-> v, next |-> "recv"]]
        /\ UNCHANGED <<auto, line, file, mode, mutex, snap>>
  <2>1. PICK r \in Readable(file[2]) :
          op' = [op EXCEPT ![Key] = [line |-> 2, next |-> "recv",
                   val |-> [v \in {0, 1, Junk} |-> IF v = 0 THEN 1 ELSE 0][r]]]
    BY DEF Toggle, ToggleTo
  <2>2. r \in {0, 1, Junk}
    BY ReadableFacts
  <2> QED BY <2>1, <2>2 DEF Toggle, ToggleTo, Idle, Goto, lines
<1>2. LinesTypeOK'
  BY <1>1 DEF LinesTypeOK
<1>3. HeldInv'
  BY <1>1 DEF HeldInv, Closing, Setting, LinesTypeOK
<1>4. OpInv' /\ SetInv'
  BY <1>1 DEF OpInv, SetInv, Setting, LinesTypeOK
<1>5. FileInv'
  BY <1>1 DEF FileInv, LinesTypeOK, Locked, Level
<1>6. SnapInv'
  BY <1>1 DEF SnapInv, LinesTypeOK, Locked
<1>7. DarkInv'
  BY <1>1 DEF DarkInv, LinesTypeOK, Closing, OtherGpio, InTable, Level
<1> QED BY <1>2, <1>3, <1>4, <1>5, <1>6, <1>7

-----------------------------------------------------------------------------
(* The theorems.                                                           *)

LEMMA LinesStepInv == LinesInv /\ [LinesNext]_lvars => LinesInv'
<1> SUFFICES ASSUME LinesInv, [LinesNext]_lvars PROVE LinesInv'
  OBVIOUS
<1>1. CASE Toggle
  BY <1>1, ToggleInv
<1>2. ASSUME NEW t \in Threads, LineStep(t) PROVE LinesInv'
  BY <1>2, GpiosetInv, WriteFileInv, ReadLinesInv, AnnounceInv DEF LineStep
<1>3. ASSUME NEW c \in Conn, ConnStep(c) PROVE LinesInv'
  BY <1>3, AcceptInv, AskInv, AnswerInv, HangupInv, LoginInv, SetLineInv, ExitLockInv,
     ExitClearInv, ExitHandoverInv, ExitRemoveInv DEF ConnStep
<1>4. CASE UNCHANGED lvars
  BY <1>4 DEF lvars, lines, LinesInv, LinesTypeOK, HeldInv, OpInv, SetInv, FileInv, SnapInv,
              DarkInv, Closing, Setting, OtherGpio, InTable, Locked, Level
<1> QED BY <1>1, <1>2, <1>3, <1>4 DEF LinesNext

LEMMA LinesAlways == LinesSpec => []LinesInv
BY LinesInitInv, LinesStepInv, PTL DEF LinesSpec

\* Lines are only ever set to 0 and 1, snapshots hold only what a file can
\* say, and the mutex is with a connection or with nobody between two steps.
THEOREM LinesTypeCorrect == LinesSpec => []LinesTypeOK
<1>1. LinesInv => LinesTypeOK
  BY DEF LinesInv
<1> QED BY <1>1, LinesAlways, PTL

\* README.md:12, komunikacja.c:68-101: whenever nobody holds the mutex, the
\* file of a locked line that was ever set says what the line is at.
THEOREM FilesAreTrue == LinesSpec => []FilesTrue
<1>1. LinesInv => FilesTrue
  BY ThreadFacts DEF LinesInv, FileInv, FilesTrue, Locked, Absent, Empty
<1> QED BY <1>1, LinesAlways, PTL

\* A step that moves a thread on from "send" with the mutex held broadcasts.
LEMMA SendStep ==
    ASSUME LinesInv, LinesNext, NEW t \in Conn, pc[t] = "send", pc'[t] # "send", mutex = t
    PROVE  Announce(t)
<1> USE ThreadFacts DEF LinesInv
<1>1. ASSUME NEW u \in Threads \ {t}, NEW x, pc' = [pc EXCEPT ![u] = x]
      PROVE  FALSE
  BY <1>1 DEF LinesTypeOK
<1>2. CASE Toggle
  BY <1>1, <1>2 DEF Toggle, ToggleTo, Goto
<1>3. ASSUME NEW u \in Threads, LineStep(u) PROVE Announce(t)
  <2>1. CASE u = t
    BY <1>3, <2>1 DEF LineStep, Gpioset, WriteFile, ReadLines
  <2>2. CASE u # t
    <3>1. PICK x \in {"write", "read", "send", op[u].next} : pc' = [pc EXCEPT ![u] = x]
      BY <1>3 DEF LineStep, Gpioset, WriteFile, ReadLines, Announce, AnnounceTo, Goto
    <3> QED BY <1>1, <2>2, <3>1
  <2> QED BY <2>1, <2>2
<1>4. ASSUME NEW c \in Conn, ConnStep(c) PROVE FALSE
  <2>1. mutex # None
    OBVIOUS
  <2>2. CASE Ask(c) \/ Hangup(c) \/ ExitHandover(c) \/ ExitRemove(c)
    BY <2>2 DEF Ask, Hangup, Idle, ExitHandover, ExitRemove, Goto, LinesTypeOK
  <2>3. CASE \E l \in {"handover", "remove"} : ExitClear(c, l)
    BY <2>3 DEF ExitClear, Goto, LinesTypeOK
  <2> QED BY <1>4, <2>1, <2>2, <2>3
        DEF ConnStep, Accept, Answer, Login, SetLine, SetHolding, ExitLock, ExitLockIf
<1> QED BY <1>2, <1>3, <1>4 DEF LinesNext

\* komunikacja.c:164-195: a broadcast under the mutex reaches every gpio client
\* and monitor in the table and says what the files of locked lines say then.
THEOREM SetsAreAnnounced == LinesSpec => SetAnnounced
<1> DEFINE Told ==
      \A t \in Conn : pc[t] = "send" /\ pc'[t] # "send" /\ mutex = t =>
         \A c \in Conn \ {t} : InTable(c) /\ mode[c] \in {1, 4} =>
            \E m \in out' : /\ m.to = c
                            /\ \A l \in Locked : file[l] # Absent => m.vals[l] = file[l]
<1>1. LinesInv /\ [LinesNext]_lvars => [Told]_lvars
  <2> SUFFICES ASSUME LinesInv, LinesNext,
                      NEW t \in Conn, pc[t] = "send", pc'[t] # "send", mutex = t,
                      NEW c \in Conn \ {t}, InTable(c), mode[c] \in {1, 4}
               PROVE  \E m \in out' :
                        /\ m.to = c
                        /\ \A l \in Locked : file[l] # Absent => m.vals[l] = file[l]
    OBVIOUS
  <2>1. out' = {Snapshot(d, snap[t]) : d \in Watchers(t)}
    BY SendStep DEF Announce, AnnounceTo
  <2>2. c \in Watchers(t)
    BY DEF Watchers
  <2>3. \A l \in Locked : file[l] # Absent => snap[t][l] = file[l]
    BY DEF LinesInv, SnapInv
  <2>4. Snapshot(c, snap[t]) \in out'
    BY <2>1, <2>2
  <2> QED BY <2>3, <2>4 DEF Snapshot
<1>2. LinesSpec => [][Told]_lvars
  BY <1>1, LinesAlways, PTL DEF LinesSpec
<1> QED BY <1>2 DEF SetAnnounced

InSection(t) == pc[t] \in {"set", "write", "read", "send", "clear", "handover", "remove"}

\* Whoever holds the mutex is a connection within a section.
HolderInv == mutex # None => mutex \in Conn /\ InSection(mutex)

\* Who takes the mutex enters a section, and who leaves one gives it back.
LEMMA HolderStep == LinesInv /\ HolderInv /\ [LinesNext]_lvars => HolderInv'
<1> SUFFICES ASSUME LinesInv, HolderInv, [LinesNext]_lvars PROVE HolderInv'
  OBVIOUS
<1> USE ThreadFacts DEF LinesInv
<1>0. pc \in [Threads -> {"none", "recv", "set", "write", "read", "send",
                          "leave", "clear", "handover", "remove", "done"}]
  BY DEF LinesTypeOK
<1>1. CASE Toggle
  BY <1>0, <1>1 DEF Toggle, ToggleTo, Idle, Goto, HolderInv, InSection
<1>2. ASSUME NEW t \in Threads, Gpioset(t) \/ WriteFile(t) \/ ReadLines(t) PROVE HolderInv'
  BY <1>0, <1>2 DEF Gpioset, WriteFile, ReadLines, Goto, HolderInv, InSection
<1>3. ASSUME NEW t \in Threads, Announce(t) PROVE HolderInv'
  <2>1. t \in Conn \/ op[t].next = "recv"
    BY DEF OpInv
  <2>2. CASE op[t].next = "clear"
    BY <1>0, <1>3, <2>1, <2>2 DEF Announce, AnnounceTo, Goto, HolderInv, InSection
  <2>3. CASE op[t].next # "clear"
    BY <1>3, <2>3 DEF Announce, AnnounceTo, HolderInv
  <2> QED BY <2>2, <2>3
<1>4. ASSUME NEW c \in Conn, ConnStep(c) PROVE HolderInv'
  <2>1. CASE Accept(c) \/ Ask(c) \/ Answer(c) \/ Hangup(c)
    BY <1>0, <2>1 DEF Accept, Ask, Answer, Hangup, Idle, Goto, HolderInv, InSection
  <2>2. CASE \E m \in Modes \ {0} : Login(c, m)
    BY <2>2 DEF Login, HolderInv
  <2>3. CASE \E l \in Line, v \in {0, 1} : SetLine(c, l, v)
    BY <1>0, <2>3 DEF SetLine, SetHolding, Goto, HolderInv, InSection
  <2>4. CASE ExitLock(c)
    BY <1>0, <2>4 DEF ExitLock, ExitLockIf, Goto, HolderInv, InSection
  <2>5. CASE ExitHandover(c) \/ ExitRemove(c) \/ \E l \in {"handover", "remove"} : ExitClear(c, l)
    BY <1>0, <2>5 DEF ExitHandover, ExitRemove, ExitClear, Goto, HolderInv, InSection
  <2> QED BY <1>4, <2>1, <2>2, <2>3, <2>4, <2>5 DEF ConnStep
<1>5. CASE UNCHANGED lvars
  BY <1>5 DEF lvars, HolderInv, InSection
<1> QED BY <1>1, <1>2, <1>3, <1>4, <1>5 DEF LinesNext, LineStep

\* f_network.c:66-114, komunikacja.c:3-66: whoever holds the mutex is within a
\* section that ends by giving it back.
THEOREM MutexIsHeldInSections == LinesSpec => []MutexHeldInSections
<1>1. LinesInit => HolderInv
  BY DEF LinesInit, HolderInv
<1>2. LinesInv /\ HolderInv => MutexHeldInSections
  BY DEF LinesInv, HeldInv, Closing, HolderInv, InSection, MutexHeldInSections
<1> QED BY <1>1, <1>2, HolderStep, LinesAlways, PTL DEF LinesSpec

\* gpio.server:12-13, f_network.c:66-71: with AUTO_ON_OFF the last gpio client
\* to go leaves line 1 off, and its file says so.
THEOREM LastGpioDark == LinesSpec => LastGpioLeavesDark
<1> DEFINE Dark ==
      \A c \in Conn :
         /\ auto /\ mode[c] = 1 /\ pc[c] = "remove" /\ pc'[c] = "done"
         /\ \A d \in Conn \ {c} : InTable(d) => mode[d] # 1
         => file[1] = 0 /\ line[1] = Level(0)
<1>1. LinesInv => Dark
  BY DEF LinesInv, DarkInv, Closing, OtherGpio
<1>2. LinesSpec => [][Dark]_lvars
  BY <1>1, LinesAlways, PTL DEF LinesSpec
<1> QED BY <1>2 DEF LastGpioLeavesDark
=============================================================================
