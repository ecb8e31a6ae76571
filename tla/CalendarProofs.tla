---------------------------- MODULE CalendarProofs ----------------------------
(***************************************************************************)
(* Proofs about Calendar, for any number of monitors and of handles: one   *)
(* asker at a time is safe although db is global.                          *)
(***************************************************************************)
EXTENDS Calendar, TLAPS

QueryNames == {"IsWorkDayNow", "StatusDayNow", "sun_times", "GetImieniny"}
Handle     == [state : {"new", "open", "closed"}, pending : QueryNames \cup {"nothing"}]
Reasons    == {"no", "handle", "null", "times"}
Stages     == {"idle", "init", "connect", "query", "store", "answer"}

DbTypeOK ==
    /\ handles \in Seq(Handle) /\ db \in 0..Len(handles)
    /\ overlap \in BOOLEAN /\ undefined \in Reasons
    /\ cpc \in [Monitors -> Stages]
    /\ \A t \in Monitors : cpc[t] \in {"connect", "query", "store"} => db # 0
    /\ \A t \in Monitors : cpc[t] = "store" => left[t] # <<>>
    /\ left \in [Monitors -> Seq(QueryNames)]

\* Without overlap one thread at most is at work.
AloneInv == ~overlap => \A t, u \in Monitors : cpc[t] # "idle" /\ cpc[u] # "idle" => t = u

\* No connection but db is open, and db is as the thread at work needs it.
NoneOpen  == \A h \in 1..Len(handles) : handles[h].state # "open"
OthersNot == \A h \in 1..Len(handles) : h # db => handles[h].state # "open"

AtWorkInv ==
    ~overlap =>
      /\ \A t \in Monitors :
           /\ cpc[t] \in {"init", "answer"} => NoneOpen
           /\ cpc[t] \in {"connect", "query", "store"} => db \in 1..Len(handles) /\ OthersNot
           /\ cpc[t] = "connect" => handles[db] = NewHandle
           /\ cpc[t] = "query" => handles[db].state = "open" /\ handles[db].pending = "nothing"
           /\ cpc[t] = "store" => handles[db].state = "open" /\ handles[db].pending # "nothing"
      /\ (\A t \in Monitors : cpc[t] = "idle") => NoneOpen

\* Without overlap db is not misused.
MisuseInv == ~overlap => undefined # "handle"

CalendarInv == DbTypeOK /\ AloneInv /\ AtWorkInv /\ MisuseInv

\* What a question has got so far, with what it has still to ask, is its
\* queries in their order; without overlap every value got is a failure or
\* what the database says, and the result held is that of the next query.
Day == [IsWorkDayNow : {0, 1}, StatusDayNow : 0..4, sun_times : {0, 1}, GetImieniny : {1}]

InOrder(t) ==
    /\ Len(got[t]) + Len(left[t]) = Len(Queries[ask[t]])
    /\ \A i \in 1..Len(left[t]) : left[t][i] = Queries[ask[t]][Len(got[t]) + i]

True(t) == \A i \in 1..Len(got[t]) : got[t][i] \in {Failed, day[Queries[ask[t]][i]]}

GotAt(t) ==
    /\ cpc[t] \in {"init", "connect"} => got[t] = <<>> /\ InOrder(t)
    /\ cpc[t] \in {"query", "store"} => InOrder(t)
    /\ cpc[t] = "answer" => got[t] = <<Failed>> \/ (InOrder(t) /\ left[t] = <<>>)
    /\ ~overlap /\ cpc[t] \in {"query", "store", "answer"} => True(t)
    /\ ~overlap /\ cpc[t] = "store" => handles[db].pending = Head(left[t])

GotTypeOK == day \in Day /\ ask \in [Monitors -> Questions] /\ got \in [Monitors -> Seq(-1..4)]

GotInv == GotTypeOK /\ \A t \in Monitors : GotAt(t)

-----------------------------------------------------------------------------
LEMMA CalendarInitInv == CalendarInit => CalendarInv
<1> SUFFICES ASSUME CalendarInit PROVE CalendarInv
  OBVIOUS
<1> USE DEF CalendarInit
<1>1. <<>> \in Seq(Handle) /\ <<>> \in Seq(QueryNames) /\ Len(<<>>) = 0
  OBVIOUS
<1>2. DbTypeOK
  <2>1. left \in [Monitors -> Seq(QueryNames)] /\ cpc \in [Monitors -> Stages]
    BY <1>1, Zenon DEF Stages
  <2>2. handles \in Seq(Handle) /\ db \in 0..Len(handles)
    BY <1>1
  <2>3. \A t \in Monitors : cpc[t] = "idle"
    OBVIOUS
  <2>4. overlap \in BOOLEAN /\ undefined \in Reasons
    BY DEF Reasons
  <2> QED BY <2>1, <2>2, <2>3, <2>4 DEF DbTypeOK
<1>3. AloneInv /\ AtWorkInv /\ MisuseInv
  BY <1>1 DEF AloneInv, AtWorkInv, MisuseInv, NoneOpen
<1> QED BY <1>2, <1>3 DEF CalendarInv

\* A handle changes in one field, and no other handle.
LEMMA HandleFacts ==
    ASSUME DbTypeOK, db # 0
    PROVE  /\ \A s \in {"open", "closed"} : [handles EXCEPT ![db].state = s] =
                [handles EXCEPT ![db] = [state |-> s, pending |-> handles[db].pending]]
           /\ \A q \in QueryNames \cup {"nothing"} : [handles EXCEPT ![db].pending = q] =
                [handles EXCEPT ![db] = [state |-> handles[db].state, pending |-> q]]
           /\ db \in 1..Len(handles) /\ handles[db] \in Handle
<1>1. db \in 1..Len(handles) /\ handles[db] \in Handle
  BY DEF DbTypeOK
<1>2. /\ \A s : [handles[db] EXCEPT !.state = s] = [state |-> s, pending |-> handles[db].pending]
      /\ \A q : [handles[db] EXCEPT !.pending = q] = [state |-> handles[db].state, pending |-> q]
  BY <1>1 DEF Handle
<1> QED BY <1>1, <1>2

LEMMA HandleSet ==
    ASSUME DbTypeOK, db # 0, NEW new \in Handle, handles' = [handles EXCEPT ![db] = new]
    PROVE  /\ handles' \in Seq(Handle) /\ Len(handles') = Len(handles)
           /\ \A h \in 1..Len(handles) : handles'[h] = IF h = db THEN new ELSE handles[h]
BY DEF DbTypeOK

\* A question meets another one, or its thread is the only one at work.
LEMMA QuestionKeeps ==
    ASSUME CalendarInv, undefined = "no", NEW t \in Monitors, NEW q \in Questions, Question(t, q)
    PROVE  CalendarInv'
<1> USE DEF CalendarInv, Question, Walk
<1>1. Queries[q] \in Seq(QueryNames)
  <2>1. /\ <<"IsWorkDayNow">> \in Seq(QueryNames) /\ <<"StatusDayNow">> \in Seq(QueryNames)
        /\ <<"StatusDayNow", "sun_times", "GetImieniny">> \in Seq(QueryNames)
    BY DEF QueryNames
  <2>2. q \in {"getworkday", "statusday", "getcalendar"}
    BY DEF Questions, Queries
  <2>3. /\ Queries["getworkday"] = <<"IsWorkDayNow">>
        /\ Queries["statusday"] = <<"StatusDayNow">>
        /\ Queries["getcalendar"] = <<"StatusDayNow", "sun_times", "GetImieniny">>
    BY DEF Queries
  <2> QED BY <2>1, <2>2, <2>3
<1>2. DbTypeOK'
  BY <1>1 DEF DbTypeOK, Stages
<1>3. AloneInv'
  BY DEF DbTypeOK, AloneInv
<1>4. AtWorkInv'
  BY DEF DbTypeOK, AloneInv, AtWorkInv, NoneOpen, OthersNot
<1> QED BY <1>2, <1>3, <1>4 DEF MisuseInv

\* A thread that goes on without overlap is the only one that is not idle.
LEMMA OnlyOne ==
    ASSUME CalendarInv, NEW t \in Monitors, cpc[t] # "idle", ~overlap
    PROVE  \A u \in Monitors : u = t \/ cpc[u] = "idle"
BY DEF CalendarInv, AloneInv

\* What two handles are added to.
LEMMA TwoMore ==
    ASSUME NEW T, NEW s \in Seq(T), NEW x \in T
    PROVE  /\ s \o <<x, x>> \in Seq(T) /\ Len(s \o <<x, x>>) = Len(s) + 2 /\ Len(s) \in Nat
           /\ \A h \in 1..Len(s) : (s \o <<x, x>>)[h] = s[h]
           /\ \A h \in (Len(s) + 1)..(Len(s) + 2) : (s \o <<x, x>>)[h] = x
<1>1. <<x, x>> \in Seq(T) /\ Len(<<x, x>>) = 2
  OBVIOUS
<1>2. \A h \in (Len(s) + 1)..(Len(s) + 2) : h = Len(s) + 1 \/ h = Len(s) + 2
  OBVIOUS
<1> QED BY <1>1, <1>2

LEMMA InitKeeps ==
    ASSUME CalendarInv, undefined = "no", NEW t \in Monitors, MysqlInit(t) PROVE CalendarInv'
<1> USE DEF CalendarInv, MysqlInit, Walk, Silent
<1>1. NewHandle \in Handle
  BY DEF NewHandle, Handle
<1>2. /\ handles' \in Seq(Handle) /\ Len(handles') = Len(handles) + 2 /\ Len(handles) \in Nat
      /\ \A h \in 1..Len(handles) : handles'[h] = handles[h]
      /\ \A h \in (Len(handles) + 1)..Len(handles') : handles'[h] = NewHandle
  <2>. PICK before, new, after : before = handles /\ new = NewHandle /\ after = handles'
    OBVIOUS
  <2>1. before \in Seq(Handle) /\ new \in Handle /\ after = before \o <<new, new>>
    BY <1>1 DEF DbTypeOK
  <2>2. /\ before \o <<new, new>> \in Seq(Handle)
        /\ Len(before \o <<new, new>>) = Len(before) + 2 /\ Len(before) \in Nat
        /\ \A h \in 1..Len(before) : (before \o <<new, new>>)[h] = before[h]
        /\ \A h \in (Len(before) + 1)..(Len(before) + 2) : (before \o <<new, new>>)[h] = new
    BY <2>1, TwoMore
  <2>3. /\ after \in Seq(Handle) /\ Len(after) = Len(before) + 2 /\ Len(before) \in Nat
        /\ \A h \in 1..Len(before) : after[h] = before[h]
        /\ \A h \in (Len(before) + 1)..(Len(before) + 2) : after[h] = new
    BY <2>1, <2>2, Zenon
  <2> QED BY <2>3
<1>3. DbTypeOK'
  BY <1>2 DEF DbTypeOK, Stages
<1>4. AloneInv'
  BY DEF DbTypeOK, AloneInv
<1>5. AtWorkInv'
  BY <1>2, OnlyOne DEF DbTypeOK, AtWorkInv, NoneOpen, OthersNot, NewHandle
<1> QED BY <1>3, <1>4, <1>5 DEF MisuseInv

LEMMA ConnectKeeps ==
    ASSUME CalendarInv, undefined = "no", NEW t \in Monitors, RealConnect(t) PROVE CalendarInv'
<1> USE DEF CalendarInv, RealConnect, Walk, Silent
<1> DEFINE new == [state |-> "open", pending |-> handles[db].pending]
<1>1. db # 0
  BY DEF DbTypeOK
<1>2. new \in Handle /\ handles' = [handles EXCEPT ![db] = new]
  BY <1>1, HandleFacts DEF Handle
<1>3. /\ handles' \in Seq(Handle) /\ Len(handles') = Len(handles)
      /\ \A h \in 1..Len(handles) : handles'[h] = IF h = db THEN new ELSE handles[h]
  BY <1>1, <1>2, HandleSet
<1>4. DbTypeOK'
  BY <1>1, <1>3 DEF DbTypeOK, Stages
<1>5. AloneInv'
  BY DEF DbTypeOK, AloneInv
<1>6. AtWorkInv'
  <2> SUFFICES ASSUME ~overlap PROVE AtWorkInv'
    BY DEF AtWorkInv
  <2>1. \A u \in Monitors : u = t \/ cpc'[u] = "idle"
    BY OnlyOne DEF DbTypeOK
  <2>2. cpc'[t] = "query" /\ OthersNot /\ handles[db].pending = "nothing"
    BY DEF DbTypeOK, AtWorkInv, NewHandle
  <2>3. db \in 1..Len(handles) /\ handles'[db] = new
    BY <1>1, <1>3, HandleFacts
  <2>4. OthersNot'
    BY <1>3, <2>2 DEF OthersNot
  <2> HIDE DEF new
  <2> QED BY <1>3, <2>1, <2>2, <2>3, <2>4 DEF AtWorkInv, new
<1> QED BY <1>4, <1>5, <1>6 DEF MisuseInv

LEMMA ConnectFailsKeeps ==
    ASSUME CalendarInv, undefined = "no", NEW t \in Monitors, ConnectFails(t) PROVE CalendarInv'
<1> USE DEF CalendarInv, ConnectFails, Walk, Silent
<1>1. DbTypeOK' /\ AloneInv'
  BY DEF DbTypeOK, Stages, AloneInv
<1>2. AtWorkInv'
  <2> SUFFICES ASSUME ~overlap PROVE AtWorkInv'
    BY DEF AtWorkInv
  <2>1. /\ \A u \in Monitors : u = t \/ cpc'[u] = "idle"
        /\ cpc'[t] = "answer" /\ UNCHANGED <<db, handles>>
    BY OnlyOne DEF DbTypeOK
  <2>2. handles[db].state = "new" /\ OthersNot
    BY DEF DbTypeOK, AtWorkInv, NewHandle
  <2>3. NoneOpen'
    BY <2>1, <2>2 DEF NoneOpen, OthersNot
  <2> QED BY <2>1, <2>3 DEF AtWorkInv
<1> QED BY <1>1, <1>2 DEF MisuseInv

LEMMA QueryKeeps ==
    ASSUME CalendarInv, undefined = "no", NEW t \in Monitors, Query(t) PROVE CalendarInv'
<1> USE DEF CalendarInv, Query, Walk, Silent
<1> DEFINE new == [state |-> handles[db].state, pending |-> Head(left[t])]
<1>1. db # 0 /\ Head(left[t]) \in QueryNames
  BY DEF DbTypeOK
<1>2. new \in Handle /\ handles' = [handles EXCEPT ![db] = new]
  BY <1>1, HandleFacts DEF Handle
<1>3. /\ handles' \in Seq(Handle) /\ Len(handles') = Len(handles)
      /\ \A h \in 1..Len(handles) : handles'[h] = IF h = db THEN new ELSE handles[h]
  BY <1>1, <1>2, HandleSet
<1>4. DbTypeOK'
  BY <1>1, <1>3 DEF DbTypeOK, Stages
<1>5. AloneInv'
  BY DEF DbTypeOK, AloneInv
<1>6. AtWorkInv'
  BY <1>1, <1>3, OnlyOne DEF DbTypeOK, AtWorkInv, NoneOpen, OthersNot, QueryNames
<1> QED BY <1>4, <1>5, <1>6 DEF MisuseInv

LEMMA QueryFailsKeeps ==
    ASSUME CalendarInv, undefined = "no", NEW t \in Monitors, QueryFails(t) PROVE CalendarInv'
<1> USE DEF CalendarInv, QueryFails, Silent
<1>1. DbTypeOK'
  BY DEF DbTypeOK
<1>2. AloneInv' /\ AtWorkInv'
  BY DEF AloneInv, AtWorkInv, NoneOpen, OthersNot
<1> QED BY <1>1, <1>2 DEF MisuseInv

\* A thread that stores has a query left, the one it has made.
LEMMA StoreKeeps ==
    ASSUME CalendarInv, undefined = "no", NEW t \in Monitors, Store(t) PROVE CalendarInv'
<1> USE DEF CalendarInv, Store, Walk, Silent
<1> DEFINE new == [state |-> handles[db].state, pending |-> "nothing"]
<1>1. db # 0 /\ Tail(left[t]) \in Seq(QueryNames)
  BY DEF DbTypeOK
<1>2. new \in Handle /\ handles' = [handles EXCEPT ![db] = new]
  BY <1>1, HandleFacts DEF Handle
<1>3. /\ handles' \in Seq(Handle) /\ Len(handles') = Len(handles)
      /\ \A h \in 1..Len(handles) : handles'[h] = IF h = db THEN new ELSE handles[h]
  BY <1>1, <1>2, HandleSet
<1>4. DbTypeOK'
  BY <1>1, <1>3 DEF DbTypeOK, Stages
<1>5. AloneInv'
  BY DEF DbTypeOK, AloneInv
<1>6. AtWorkInv'
  <2> SUFFICES ASSUME ~overlap PROVE AtWorkInv'
    BY DEF AtWorkInv
  <2>1. \A u \in Monitors : u = t \/ cpc'[u] = "idle"
    BY OnlyOne DEF DbTypeOK
  <2>2. cpc'[t] = "query" /\ OthersNot /\ handles[db].state = "open"
    BY DEF DbTypeOK, AtWorkInv
  <2>3. db \in 1..Len(handles) /\ handles'[db] = new
    BY <1>1, <1>3, HandleFacts
  <2>4. OthersNot'
    BY <1>3, <2>2 DEF OthersNot
  <2> HIDE DEF new
  <2> QED BY <1>3, <2>1, <2>2, <2>3, <2>4 DEF AtWorkInv, new
<1> QED BY <1>4, <1>5, <1>6 DEF MisuseInv

LEMMA DisconnectKeeps ==
    ASSUME CalendarInv, undefined = "no", NEW t \in Monitors, DbDisconnect(t) PROVE CalendarInv'
<1> USE DEF CalendarInv, DbDisconnect, DisconnectWhen, Walk, Silent
<1> DEFINE new == [state |-> "closed", pending |-> handles[db].pending]
<1>1. db # 0
  BY DEF DbTypeOK
<1>2. new \in Handle /\ handles' = [handles EXCEPT ![db] = new]
  BY <1>1, HandleFacts DEF Handle
<1>3. /\ handles' \in Seq(Handle) /\ Len(handles') = Len(handles)
      /\ \A h \in 1..Len(handles) : handles'[h] = IF h = db THEN new ELSE handles[h]
  BY <1>1, <1>2, HandleSet
<1>4. DbTypeOK'
  BY <1>1, <1>3 DEF DbTypeOK, Stages
<1>5. AloneInv'
  BY DEF DbTypeOK, AloneInv
<1>6. AtWorkInv'
  <2> SUFFICES ASSUME ~overlap PROVE AtWorkInv'
    BY DEF AtWorkInv
  <2>1. \A u \in Monitors : u = t \/ cpc'[u] = "idle"
    BY OnlyOne DEF DbTypeOK
  <2>2. cpc'[t] = "answer" /\ OthersNot /\ handles[db].state = "open"
    BY DEF DbTypeOK, AtWorkInv
  <2>3. db \in 1..Len(handles) /\ handles'[db] = new
    BY <1>1, <1>3, HandleFacts
  <2>4. NoneOpen'
    BY <1>3, <2>2, <2>3 DEF OthersNot, NoneOpen
  <2> HIDE DEF new
  <2> QED BY <1>3, <2>1, <2>2, <2>3, <2>4 DEF AtWorkInv, new
<1> QED BY <1>4, <1>5, <1>6 DEF MisuseInv

\* A misuse of db follows an overlap.
LEMMA UndefinedKeeps ==
    ASSUME CalendarInv, undefined = "no", NEW t \in Monitors,
           MisuseOfDb(t) \/ NullIsUsed(t) \/ TimesOverflow(t)
    PROVE  CalendarInv'
<1>1. PICK why \in Reasons : /\ undefined' = why /\ (why = "handle" => MisuseOfDb(t))
                            /\ UNCHANGED <<db, handles, cpc, left, overlap>>
  BY DEF MisuseOfDb, NullIsUsed, TimesOverflow, Breaks, Reasons
<1>2. DbTypeOK' /\ AloneInv' /\ AtWorkInv'
  BY <1>1 DEF CalendarInv, DbTypeOK, AloneInv, AtWorkInv, NoneOpen, OthersNot
<1>3. MisuseInv'
  <2>1. ~overlap => ~MisuseOfDb(t)
    <3>1. ~overlap => /\ cpc[t] \in {"connect", "query", "store"} => db \in 1..Len(handles)
                      /\ cpc[t] = "connect" => handles[db] = NewHandle
                      /\ cpc[t] = "query" => handles[db].state = "open"
                      /\ cpc[t] = "store" => handles[db].state = "open" /\ handles[db].pending # "nothing"
      BY DEF CalendarInv, AtWorkInv
    <3>2. db \in 1..Len(handles) => db > 0
      BY DEF CalendarInv, DbTypeOK
    <3> QED BY <3>1, <3>2 DEF MisuseOfDb, Connected, NewHandle
  <2> QED BY <1>1, <2>1 DEF MisuseInv
<1> QED BY <1>2, <1>3 DEF CalendarInv

LEMMA AnswerKeeps ==
    ASSUME CalendarInv, undefined = "no", NEW t \in Monitors, AnswerDay(t) \/ AnswerCalendar(t)
    PROVE  CalendarInv'
<1> USE DEF CalendarInv
<1>1. /\ cpc[t] = "answer" /\ cpc' = [cpc EXCEPT ![t] = "idle"]
      /\ left' = [left EXCEPT ![t] = <<>>]
      /\ UNCHANGED <<db, handles, overlap, undefined>>
  BY DEF AnswerDay, AnswerCalendar, AnswerAmong, Speak, Walk
<1>2. DbTypeOK'
  BY <1>1 DEF DbTypeOK, Stages
<1>3. AloneInv'
  BY <1>1 DEF DbTypeOK, AloneInv
<1>4. AtWorkInv'
  BY <1>1, OnlyOne DEF DbTypeOK, AtWorkInv, NoneOpen, OthersNot
<1> QED BY <1>1, <1>2, <1>3, <1>4 DEF MisuseInv

LEMMA CalendarStepInv == CalendarInv /\ [CalendarNext]_cvars => CalendarInv'
<1> SUFFICES ASSUME CalendarInv, [CalendarNext]_cvars PROVE CalendarInv'
  OBVIOUS
<1>1. CASE UNCHANGED cvars
  BY <1>1 DEF cvars, CalendarInv, DbTypeOK, AloneInv, AtWorkInv, MisuseInv, NoneOpen, OthersNot
<1> QED BY <1>1, QuestionKeeps, InitKeeps, ConnectKeeps, ConnectFailsKeeps, QueryKeeps,
           QueryFailsKeeps, StoreKeeps, DisconnectKeeps, UndefinedKeeps, AnswerKeeps
        DEF CalendarNext

-----------------------------------------------------------------------------
\* f_functions.c:8-22: as long as questions of monitors have never met, db is
\* used as the client library defines, and every connection is closed.
THEOREM OneMonitorIsSafe == CalendarSpec => []OneMonitorSafe
<1>1. CalendarInv => OneMonitorSafe
  <2> SUFFICES ASSUME CalendarInv, ~overlap
               PROVE  /\ undefined # "handle"
                      /\ (\A t \in Monitors : cpc[t] = "idle") => NoneOpen
    BY DEF OneMonitorSafe, NoneOpen
  <2> QED BY DEF CalendarInv, AtWorkInv, MisuseInv
<1>2. CalendarSpec => []CalendarInv
  BY CalendarInitInv, CalendarStepInv, PTL DEF CalendarSpec
<1> QED BY <1>1, <1>2, PTL

-----------------------------------------------------------------------------
(* What an answer says.                                                    *)

LEMMA QueriesFacts ==
    /\ Queries["getworkday"] = <<"IsWorkDayNow">>
    /\ Queries["statusday"] = <<"StatusDayNow">>
    /\ Queries["getcalendar"] = <<"StatusDayNow", "sun_times", "GetImieniny">>
    /\ Questions = {"getworkday", "statusday", "getcalendar"}
    /\ \A q \in Questions : Queries[q] \in Seq(QueryNames) /\ Len(Queries[q]) \in 1..3
<1>1. /\ Queries["getworkday"] = <<"IsWorkDayNow">>
      /\ Queries["statusday"] = <<"StatusDayNow">>
      /\ Queries["getcalendar"] = <<"StatusDayNow", "sun_times", "GetImieniny">>
      /\ Questions = {"getworkday", "statusday", "getcalendar"}
  BY DEF Questions, Queries
<1>2. /\ <<"IsWorkDayNow">> \in Seq(QueryNames) /\ Len(<<"IsWorkDayNow">>) = 1
      /\ <<"StatusDayNow">> \in Seq(QueryNames) /\ Len(<<"StatusDayNow">>) = 1
      /\ <<"StatusDayNow", "sun_times", "GetImieniny">> \in Seq(QueryNames)
      /\ Len(<<"StatusDayNow", "sun_times", "GetImieniny">>) = 3
  BY DEF QueryNames
<1>3. ASSUME NEW q \in Questions PROVE Queries[q] \in Seq(QueryNames) /\ Len(Queries[q]) \in 1..3
  <2>1. \/ Queries[q] = <<"IsWorkDayNow">> \/ Queries[q] = <<"StatusDayNow">>
        \/ Queries[q] = <<"StatusDayNow", "sun_times", "GetImieniny">>
    BY <1>1, Zenon
  <2>2. 1 \in 1..3 /\ 3 \in 1..3
    OBVIOUS
  <2> QED BY <1>2, <2>1, <2>2, Zenon
<1> QED BY <1>1, <1>3

LEMMA DayFacts == ASSUME day \in Day, NEW q \in QueryNames PROVE day[q] \in 0..4
BY DEF Day, QueryNames

\* A step of a thread leaves the others' answers as they were: they are idle,
\* or there is an overlap.
LEMMA OthersKeep ==
    ASSUME CalendarInv, GotInv, NEW t \in Monitors, cpc[t] # "idle" \/ overlap',
           overlap => overlap', ~overlap' => ~overlap,
           \A u \in Monitors \ {t} : /\ cpc'[u] = cpc[u] /\ ask'[u] = ask[u]
                                     /\ left'[u] = left[u] /\ got'[u] = got[u]
    PROVE  \A u \in Monitors \ {t} : GotAt(u)'
<1> SUFFICES ASSUME NEW u \in Monitors \ {t} PROVE GotAt(u)'
  OBVIOUS
<1>1. ~overlap' => cpc'[u] = "idle"
  BY DEF CalendarInv, AloneInv
<1>2. InOrder(u)' <=> InOrder(u)
  BY DEF InOrder
<1> QED BY <1>1, <1>2 DEF GotInv, GotAt

LEMMA QuestionGot ==
    ASSUME CalendarInv, GotInv, NEW t \in Monitors, NEW q \in Questions, Question(t, q)
    PROVE  GotInv'
<1> USE DEF Question, Walk
<1>1. GotTypeOK'
  BY DEF GotInv, GotTypeOK
<1>2. \A u \in Monitors \ {t} : GotAt(u)'
  <2>1. \A u \in Monitors \ {t} : /\ cpc'[u] = cpc[u] /\ ask'[u] = ask[u]
                                  /\ left'[u] = left[u] /\ got'[u] = got[u]
    BY DEF GotInv, GotTypeOK, CalendarInv, DbTypeOK
  <2>2. CASE overlap'
    BY <2>1, <2>2, OthersKeep DEF CalendarInv, DbTypeOK
  <2>3. CASE ~overlap'
    BY <2>1, <2>3 DEF GotAt
  <2> QED BY <2>2, <2>3
<1>3. GotAt(t)'
  <2>1. /\ cpc'[t] = "init" /\ got'[t] = <<>> /\ left'[t] = Queries[q] /\ ask'[t] = q
    BY DEF GotInv, GotTypeOK, CalendarInv, DbTypeOK
  <2>2. InOrder(t)'
    <3>1. /\ Queries[q] \in Seq(QueryNames) /\ Len(<<>>) = 0
          /\ \A i \in 1..Len(Queries[q]) : Queries[q][i] = Queries[q][0 + i]
      BY QueriesFacts
    <3>2. /\ Len(got'[t]) = 0 /\ left'[t] = Queries[ask'[t]]
          /\ Len(got'[t]) + Len(left'[t]) = Len(Queries[ask'[t]])
      <4>1. Len(Queries[q]) \in Nat
        BY <3>1
      <4>2. 0 + Len(Queries[q]) = Len(Queries[q])
        BY <4>1
      <4> QED BY <2>1, <3>1, <4>2, Zenon
    <3>3. \A i \in 1..Len(left'[t]) : left'[t][i] = Queries[ask'[t]][Len(got'[t]) + i]
      BY <2>1, <3>1, <3>2, Zenon
    <3> QED BY <3>2, <3>3 DEF InOrder
  <2> QED BY <2>1, <2>2 DEF GotAt
<1> QED BY <1>1, <1>2, <1>3 DEF GotInv

\* Steps before the first query, and those that only move on.
LEMMA OpenGot ==
    ASSUME CalendarInv, GotInv, undefined = "no", NEW t \in Monitors,
           MysqlInit(t) \/ RealConnect(t) \/ ConnectFails(t) \/ DbDisconnect(t)
    PROVE  GotInv'
<1> USE DEF MysqlInit, RealConnect, ConnectFails, DbDisconnect, DisconnectWhen, Walk, Silent
<1>1. GotTypeOK'
  <2>1. <<Failed>> \in Seq(-1..4)
    BY DEF Failed
  <2> QED BY <2>1 DEF GotInv, GotTypeOK
<1>2. /\ cpc[t] # "idle" /\ UNCHANGED <<day, ask, left, overlap, undefined>>
      /\ cpc'[t] \in {"connect", "query", "answer"}
      /\ \A u \in Monitors \ {t} : cpc'[u] = cpc[u] /\ got'[u] = got[u]
  BY DEF GotInv, GotTypeOK, CalendarInv, DbTypeOK
<1>3. \A u \in Monitors \ {t} : GotAt(u)'
  BY <1>2, OthersKeep
<1>4. GotAt(t)'
  <2>1. CASE ConnectFails(t)
    <3>1. cpc'[t] = "answer" /\ got'[t] = <<Failed>>
      BY <2>1 DEF GotInv, GotTypeOK, CalendarInv, DbTypeOK
    <3> QED BY <3>1 DEF GotAt, True
  <2>2. CASE ~ConnectFails(t)
    <3>1. got'[t] = got[t] /\ (InOrder(t)' <=> InOrder(t)) /\ (True(t)' <=> True(t))
      BY <1>2, <2>2 DEF InOrder, True
    <3>2. GotAt(t)
      BY DEF GotInv
    <3>3. /\ MysqlInit(t) => cpc[t] = "init" /\ cpc'[t] = "connect"
          /\ RealConnect(t) => cpc[t] = "connect" /\ cpc'[t] = "query"
          /\ DbDisconnect(t) => cpc[t] = "query" /\ cpc'[t] = "answer" /\ left[t] = <<>>
      BY DEF CalendarInv, DbTypeOK
    <3>4. got[t] = <<>> => True(t)
      BY DEF True
    <3> QED BY <1>2, <2>2, <3>1, <3>2, <3>3, <3>4 DEF GotAt
  <2> QED BY <2>1, <2>2
<1> QED BY <1>1, <1>3, <1>4 DEF GotInv

\* A query is the next one of its thread.
LEMMA QueryGot ==
    ASSUME CalendarInv, GotInv, undefined = "no", NEW t \in Monitors, Query(t) PROVE GotInv'
<1> USE DEF Query, Walk, Silent
<1>1. /\ cpc[t] = "query" /\ cpc'[t] = "store" /\ UNCHANGED <<day, ask, left, got, overlap, undefined>>
      /\ \A u \in Monitors \ {t} : cpc'[u] = cpc[u]
  BY DEF CalendarInv, DbTypeOK
<1>2. \A u \in Monitors \ {t} : GotAt(u)'
  BY <1>1, OthersKeep
<1>3. handles'[db'].pending = Head(left'[t])
  <2>1. db # 0 /\ handles \in Seq(Handle)
    BY DEF CalendarInv, DbTypeOK
  <2>2. db \in 1..Len(handles) /\ handles[db] \in Handle
    BY <2>1, HandleFacts DEF CalendarInv
  <2> QED BY <2>1, <2>2 DEF Handle
<1>4. GotAt(t)'
  <2>1. (InOrder(t)' <=> InOrder(t)) /\ (True(t)' <=> True(t))
    BY <1>1 DEF InOrder, True
  <2> QED BY <1>1, <1>3, <2>1 DEF GotInv, GotAt
<1> QED BY <1>1, <1>2, <1>4 DEF GotInv, GotTypeOK

\* What a queue of queries loses at its head, the values gain at their end.
LEMMA OneMore ==
    ASSUME NEW g \in Seq(-1..4), NEW l \in Seq(QueryNames), NEW q \in Seq(QueryNames),
           NEW v \in -1..4, l # <<>>, Len(g) + Len(l) = Len(q),
           \A i \in 1..Len(l) : l[i] = q[Len(g) + i]
    PROVE  /\ Append(g, v) \in Seq(-1..4) /\ Head(l) = q[Len(g) + 1]
           /\ Len(Append(g, v)) + Len(Tail(l)) = Len(q)
           /\ \A i \in 1..Len(Tail(l)) : Tail(l)[i] = q[Len(Append(g, v)) + i]
           /\ \A i \in 1..Len(Append(g, v)) :
                 \/ i \in 1..Len(g) /\ Append(g, v)[i] = g[i]
                 \/ i = Len(g) + 1 /\ Append(g, v)[i] = v
<1>1. Len(Tail(l)) = Len(l) - 1 /\ Len(Append(g, v)) = Len(g) + 1 /\ Len(l) \in Nat \ {0}
  OBVIOUS
<1>2. ASSUME NEW i \in 1..Len(Tail(l)) PROVE Tail(l)[i] = q[Len(Append(g, v)) + i]
  <2>1. i + 1 \in 1..Len(l) /\ Len(Append(g, v)) + i = Len(g) + (i + 1) /\ Tail(l)[i] = l[i + 1]
    BY <1>1
  <2> QED BY <2>1
<1>3. Head(l) = l[1] /\ 1 \in 1..Len(l)
  BY <1>1
<1>4. Len(Append(g, v)) + Len(Tail(l)) = Len(q)
  BY <1>1
<1> QED BY <1>1, <1>2, <1>3, <1>4

\* A value got is the next of its thread's queries, and true if it is what
\* the database says, or a failure.
LEMMA NextGot ==
    ASSUME CalendarInv, GotInv, NEW t \in Monitors, InOrder(t), left[t] # <<>>,
           NEW v \in -1..4, UNCHANGED <<day, ask>>,
           got' = [got EXCEPT ![t] = Append(@, v)], left' = [left EXCEPT ![t] = Tail(@)]
    PROVE  /\ got' \in [Monitors -> Seq(-1..4)] /\ InOrder(t)'
           /\ True(t) /\ v \in {Failed, day[Head(left[t])]} => True(t)'
<1>1. /\ got[t] \in Seq(-1..4) /\ left[t] \in Seq(QueryNames) /\ Queries[ask[t]] \in Seq(QueryNames)
      /\ got'[t] = Append(got[t], v) /\ left'[t] = Tail(left[t]) /\ ask'[t] = ask[t]
  BY QueriesFacts DEF GotInv, GotTypeOK, CalendarInv, DbTypeOK
<1>2. /\ got'[t] \in Seq(-1..4) /\ Head(left[t]) = Queries[ask[t]][Len(got[t]) + 1]
      /\ Len(got'[t]) + Len(left'[t]) = Len(Queries[ask[t]])
      /\ \A i \in 1..Len(left'[t]) : left'[t][i] = Queries[ask[t]][Len(got'[t]) + i]
      /\ \A i \in 1..Len(got'[t]) :
            \/ i \in 1..Len(got[t]) /\ got'[t][i] = got[t][i]
            \/ i = Len(got[t]) + 1 /\ got'[t][i] = v
  <2>1. /\ Append(got[t], v) \in Seq(-1..4) /\ Head(left[t]) = Queries[ask[t]][Len(got[t]) + 1]
        /\ Len(Append(got[t], v)) + Len(Tail(left[t])) = Len(Queries[ask[t]])
        /\ \A i \in 1..Len(Tail(left[t])) :
              Tail(left[t])[i] = Queries[ask[t]][Len(Append(got[t], v)) + i]
        /\ \A i \in 1..Len(Append(got[t], v)) :
              \/ i \in 1..Len(got[t]) /\ Append(got[t], v)[i] = got[t][i]
              \/ i = Len(got[t]) + 1 /\ Append(got[t], v)[i] = v
    <3> HIDE DEF InOrder
    <3> DEFINE g == got[t]
               l == left[t]
               q == Queries[ask[t]]
    <3>1. /\ l # <<>> /\ Len(g) + Len(l) = Len(q)
          /\ \A i \in 1..Len(l) : l[i] = q[Len(g) + i]
          /\ g \in Seq(-1..4) /\ l \in Seq(QueryNames) /\ q \in Seq(QueryNames)
      BY <1>1 DEF InOrder
    <3> HIDE DEF g, l, q
    <3>2. /\ Append(g, v) \in Seq(-1..4) /\ Head(l) = q[Len(g) + 1]
          /\ Len(Append(g, v)) + Len(Tail(l)) = Len(q)
          /\ \A i \in 1..Len(Tail(l)) : Tail(l)[i] = q[Len(Append(g, v)) + i]
          /\ \A i \in 1..Len(Append(g, v)) :
                \/ i \in 1..Len(g) /\ Append(g, v)[i] = g[i]
                \/ i = Len(g) + 1 /\ Append(g, v)[i] = v
      BY <3>1, OneMore
    <3> QED BY <3>2 DEF g, l, q
  <2> QED BY <1>1, <2>1, Zenon
<1>3. InOrder(t)'
  BY <1>1, <1>2, Zenon DEF InOrder
<1>4. ASSUME True(t), v \in {Failed, day[Head(left[t])]} PROVE True(t)'
  <2>1. ASSUME NEW i \in 1..Len(got'[t])
        PROVE  got'[t][i] \in {Failed, day[Queries[ask[t]][i]]}
    <3>1. CASE i \in 1..Len(got[t]) /\ got'[t][i] = got[t][i]
      BY <1>4, <3>1, Zenon DEF True
    <3>2. CASE i = Len(got[t]) + 1 /\ got'[t][i] = v
      BY <1>2, <1>4, <3>2, Zenon
    <3> QED BY <1>2, <2>1, <3>1, <3>2, Zenon
  <2> QED BY <1>1, <2>1, Zenon DEF True
<1>5. got' \in [Monitors -> Seq(-1..4)]
  BY <1>1, <1>2 DEF GotInv, GotTypeOK
<1> QED BY <1>3, <1>4, <1>5

LEMMA FailsGot ==
    ASSUME CalendarInv, GotInv, undefined = "no", NEW t \in Monitors, QueryFails(t) PROVE GotInv'
<1> USE DEF QueryFails, Silent
<1>1. GotAt(t) /\ InOrder(t) /\ Failed \in -1..4
  BY DEF GotInv, GotAt, Failed
<1>2. got' \in [Monitors -> Seq(-1..4)] /\ InOrder(t)' /\ (True(t) => True(t)')
  BY <1>1, NextGot
<1>3. \A u \in Monitors \ {t} : left'[u] = left[u] /\ got'[u] = got[u]
  BY DEF GotInv, GotTypeOK, CalendarInv, DbTypeOK
<1>4. \A u \in Monitors \ {t} : GotAt(u)'
  BY <1>3, OthersKeep
<1>5. GotAt(t)'
  BY <1>1, <1>2 DEF GotAt
<1> QED BY <1>2, <1>4, <1>5 DEF GotInv, GotTypeOK

LEMMA StoreGot ==
    ASSUME CalendarInv, GotInv, undefined = "no", NEW t \in Monitors, Store(t) PROVE GotInv'
<1> USE DEF Store, Walk, Silent
<1> DEFINE v == day[handles[db].pending]
<1>1. GotAt(t) /\ InOrder(t)
  BY DEF GotInv, GotAt
<1>2. v \in -1..4
  <2>1. db # 0 /\ day \in Day
    BY DEF GotInv, GotTypeOK, CalendarInv, DbTypeOK
  <2>2. handles[db].pending \in QueryNames
    BY <2>1, HandleFacts DEF Handle, CalendarInv
  <2> QED BY <2>1, <2>2, DayFacts
<1>3. ~overlap => v \in {Failed, day[Head(left[t])]}
  BY <1>1 DEF GotAt
<1> HIDE DEF v
<1>4. /\ got' = [got EXCEPT ![t] = Append(@, v)]
      /\ left[t] # <<>>
  BY DEF v, CalendarInv, DbTypeOK
<1>5. /\ got' \in [Monitors -> Seq(-1..4)] /\ InOrder(t)'
      /\ True(t) /\ v \in {Failed, day[Head(left[t])]} => True(t)'
  BY <1>1, <1>2, <1>4, NextGot
<1>6. /\ \A u \in Monitors \ {t} : cpc'[u] = cpc[u] /\ left'[u] = left[u] /\ got'[u] = got[u]
      /\ cpc'[t] = "query"
  BY <1>4 DEF GotInv, GotTypeOK, CalendarInv, DbTypeOK
<1>7. \A u \in Monitors \ {t} : GotAt(u)'
  BY <1>6, OthersKeep
<1>8. GotAt(t)'
  BY <1>1, <1>3, <1>5, <1>6 DEF GotAt
<1> QED BY <1>5, <1>7, <1>8 DEF GotInv, GotTypeOK

LEMMA AnswerGot ==
    ASSUME CalendarInv, GotInv, undefined = "no", NEW t \in Monitors,
           \/ AnswerDay(t) \/ AnswerCalendar(t)
           \/ MisuseOfDb(t) \/ NullIsUsed(t) \/ TimesOverflow(t)
    PROVE  GotInv'
<1>1. CASE AnswerDay(t) \/ AnswerCalendar(t)
  <2>1. /\ cpc[t] = "answer" /\ cpc' = [cpc EXCEPT ![t] = "idle"]
        /\ left' = [left EXCEPT ![t] = <<>>] /\ got' = [got EXCEPT ![t] = <<>>]
        /\ UNCHANGED <<day, db, handles, ask, overlap, undefined>>
    BY <1>1 DEF AnswerDay, AnswerCalendar, AnswerAmong, Speak, Walk
  <2>2. /\ \A u \in Monitors \ {t} : cpc'[u] = cpc[u] /\ left'[u] = left[u] /\ got'[u] = got[u]
        /\ cpc'[t] = "idle"
    BY <2>1 DEF GotInv, GotTypeOK, CalendarInv, DbTypeOK
  <2>3. \A u \in Monitors \ {t} : GotAt(u)'
    BY <2>1, <2>2, OthersKeep
  <2>4. GotAt(t)'
    BY <2>2 DEF GotAt
  <2>5. GotTypeOK'
    BY <2>1 DEF GotInv, GotTypeOK
  <2> QED BY <2>3, <2>4, <2>5 DEF GotInv
<1>2. CASE MisuseOfDb(t) \/ NullIsUsed(t) \/ TimesOverflow(t)
  <2>1. UNCHANGED <<day, ask, db, handles, cpc, left, got, overlap>>
    BY <1>2 DEF MisuseOfDb, NullIsUsed, TimesOverflow, Breaks, Silent
  <2>2. \A u \in Monitors : (InOrder(u)' <=> InOrder(u)) /\ (True(u)' <=> True(u))
    BY <2>1 DEF InOrder, True
  <2> QED BY <2>1, <2>2 DEF GotInv, GotTypeOK, GotAt
<1> QED BY <1>1, <1>2

LEMMA GotInitInv == CalendarInit => GotInv
<1> SUFFICES ASSUME CalendarInit PROVE GotInv
  OBVIOUS
<1>1. "getworkday" \in Questions /\ <<>> \in Seq(-1..4)
  BY QueriesFacts
<1>2. GotTypeOK
  BY <1>1 DEF CalendarInit, GotTypeOK, Day
<1> QED BY <1>2 DEF CalendarInit, GotInv, GotAt

LEMMA GotStepInv == CalendarInv /\ GotInv /\ [CalendarNext]_cvars => GotInv'
<1> SUFFICES ASSUME CalendarInv, GotInv, [CalendarNext]_cvars PROVE GotInv'
  OBVIOUS
<1>1. CASE UNCHANGED cvars
  BY <1>1 DEF cvars, GotInv, GotTypeOK, GotAt, InOrder, True
<1> QED BY <1>1, QuestionGot, OpenGot, QueryGot, FailsGot, StoreGot, AnswerGot DEF CalendarNext

\* The answer of a thread whose values are true.
LEMMA AnswerTrue ==
    ASSUME CalendarInv, GotInv, NEW t \in Monitors, ~overlap, cpc[t] = "answer",
           AnswerDay(t) \/ AnswerCalendar(t)
    PROVE
         CASE ask[t] = "getworkday" ->
                answered'.workday = IF got[t][1] = Failed THEN -1 ELSE day.IsWorkDayNow
           [] ask[t] = "statusday" ->
                answered'.status = IF got[t][1] \in 0..3 THEN day.StatusDayNow ELSE -1
           [] ask[t] = "getcalendar" /\ Len(got[t]) = 1 -> answered'.status = NoDatabase
           [] OTHER ->
                /\ answered'.status = IF got[t][1] = Failed THEN -1
                                      ELSE IF day.StatusDayNow > 3 THEN 3 ELSE day.StatusDayNow
                /\ got[t][2] # Failed => answered'.dzien = day.sun_times
<1> USE DEF Failed
<1>1. /\ True(t) /\ got[t] \in Seq(-1..4) /\ ask[t] \in Questions
      /\ got[t] = <<Failed>> \/ Len(got[t]) = Len(Queries[ask[t]])
  <2>1. GotAt(t) /\ got[t] \in Seq(-1..4) /\ ask[t] \in Questions
    BY DEF GotInv, GotTypeOK
  <2>2. InOrder(t) /\ left[t] = <<>> => Len(got[t]) = Len(Queries[ask[t]])
    BY <2>1, QueriesFacts DEF InOrder
  <2> QED BY <2>1, <2>2 DEF GotAt
<1>2. /\ day.IsWorkDayNow \in {0, 1} /\ day.StatusDayNow \in 0..4 /\ day.sun_times \in {0, 1}
  BY DEF GotInv, GotTypeOK, Day
<1>3. CASE ask[t] = "getworkday"
  <2>1. Len(got[t]) = 1 /\ got[t][1] \in {-1, day.IsWorkDayNow}
    BY <1>1, <1>3, QueriesFacts DEF True
  <2>2. answered' = WorkdayAnswer(got[t][1])
    BY <1>3 DEF AnswerDay, AnswerCalendar, AnswerAmong, Speak
  <2> QED BY <1>2, <1>3, <2>1, <2>2 DEF WorkdayAnswer
<1>4. CASE ask[t] = "statusday"
  <2>1. Len(got[t]) = 1 /\ got[t][1] \in {-1, day.StatusDayNow}
    BY <1>1, <1>4, QueriesFacts DEF True
  <2>2. answered' = StatusAnswer(got[t][1])
    BY <1>4 DEF AnswerDay, AnswerCalendar, AnswerAmong, Speak
  <2> QED BY <1>2, <1>4, <2>1, <2>2 DEF StatusAnswer
<1>5. CASE ask[t] = "getcalendar"
  <2>1. answered' \in IF Len(got[t]) = 1 THEN {[ask |-> "getcalendar", status |-> NoDatabase]}
                      ELSE CalendarAnswers(got[t], {-1, 0, 1, 2})
    BY <1>5 DEF AnswerDay, AnswerCalendar, AnswerAmong, Speak
  <2>2. CASE Len(got[t]) = 1
    BY <1>5, <2>1, <2>2
  <2>3. CASE Len(got[t]) # 1
    <3>1. Len(got[t]) = 3 /\ got[t][1] \in {-1, day.StatusDayNow} /\ got[t][2] \in {-1, day.sun_times}
      <4>1. /\ Queries[ask[t]] = <<"StatusDayNow", "sun_times", "GetImieniny">>
            /\ Len(<<Failed>>) = 1
            /\ Len(<<"StatusDayNow", "sun_times", "GetImieniny">>) = 3
            /\ day.StatusDayNow = day["StatusDayNow"] /\ day.sun_times = day["sun_times"]
        BY <1>5, QueriesFacts
      <4>2. Len(got[t]) = 3
        BY <1>1, <2>3, <4>1
      <4>3. Queries[ask[t]][1] = "StatusDayNow" /\ Queries[ask[t]][2] = "sun_times"
        BY <4>1
      <4>4. 1 \in 1..Len(got[t]) /\ 2 \in 1..Len(got[t])
        BY <4>2
      <4> QED BY <1>1, <4>1, <4>2, <4>3, <4>4, Zenon DEF True
    <3>2. PICK d \in IF got[t][2] = Failed THEN {0, 1} ELSE {got[t][2]} :
            answered' = [ask |-> "getcalendar",
                         status |-> IF got[t][1] \in {-1, 0, 1, 2} THEN got[t][1] ELSE 3,
                         dzien |-> d, imieniny |-> IF got[t][3] = Failed THEN 0 ELSE got[t][3]]
      BY <2>1, <2>3 DEF CalendarAnswers
    <3>3. answered'.status = (IF got[t][1] \in {-1, 0, 1, 2} THEN got[t][1] ELSE 3) /\ answered'.dzien = d
      BY <3>2
    <3> QED BY <1>2, <1>5, <2>3, <3>1, <3>2, <3>3
  <2> QED BY <2>2, <2>3
<1> QED BY <1>1, <1>3, <1>4, <1>5, QueriesFacts

\* f_functions.c:161-295: as long as questions have never met, an answer says
\* what the database says of the day, or that it is not known.
THEOREM DayIsToldTruly == CalendarSpec => DayToldTruly
<1> DEFINE Told(t) ==
         CASE ask[t] = "getworkday" ->
                answered'.workday = IF got[t][1] = Failed THEN -1 ELSE day.IsWorkDayNow
           [] ask[t] = "statusday" ->
                answered'.status = IF got[t][1] \in 0..3 THEN day.StatusDayNow ELSE -1
           [] ask[t] = "getcalendar" /\ Len(got[t]) = 1 -> answered'.status = NoDatabase
           [] OTHER ->
                /\ answered'.status = IF got[t][1] = Failed THEN -1
                                      ELSE IF day.StatusDayNow > 3 THEN 3 ELSE day.StatusDayNow
                /\ got[t][2] # Failed => answered'.dzien = day.sun_times
           Truly == \A t \in Monitors : cpc[t] = "answer" /\ cpc'[t] = "idle" /\ ~overlap => Told(t)
<1>1. CalendarInv /\ GotInv /\ [CalendarNext]_cvars => [Truly]_cvars
  <2> SUFFICES ASSUME CalendarInv, GotInv, CalendarNext, NEW t \in Monitors,
                      cpc[t] = "answer", cpc'[t] = "idle", ~overlap
               PROVE  Told(t)
    OBVIOUS
  <2>1. AnswerDay(t) \/ AnswerCalendar(t)
    <3> HIDE DEF Told
    <3>1. PICK u \in Monitors :
             \/ \E q \in Questions : Question(u, q)
             \/ MysqlInit(u) \/ RealConnect(u) \/ ConnectFails(u)
             \/ Query(u) \/ QueryFails(u) \/ Store(u) \/ DbDisconnect(u)
             \/ MisuseOfDb(u) \/ NullIsUsed(u) \/ TimesOverflow(u)
             \/ AnswerDay(u) \/ AnswerCalendar(u)
      BY DEF CalendarNext
    <3>2. cpc \in [Monitors -> Stages]
      BY DEF CalendarInv, DbTypeOK
    <3>3. ~\E q \in Questions : Question(u, q)
      BY <3>2 DEF Question, Walk
    <3>4. ~(MysqlInit(u) \/ RealConnect(u) \/ ConnectFails(u) \/ DbDisconnect(u))
      BY <3>2 DEF MysqlInit, RealConnect, ConnectFails, DbDisconnect, DisconnectWhen, Walk
    <3>5. ~(Query(u) \/ QueryFails(u) \/ Store(u)
            \/ MisuseOfDb(u) \/ NullIsUsed(u) \/ TimesOverflow(u))
      BY <3>2 DEF Query, QueryFails, Store, MisuseOfDb, NullIsUsed, TimesOverflow, Breaks, Walk
    <3>6. u = t
      BY <3>1, <3>2, <3>3, <3>4, <3>5 DEF AnswerDay, AnswerCalendar, AnswerAmong, Speak, Walk
    <3> QED BY <3>1, <3>3, <3>4, <3>5, <3>6
  <2> QED BY <2>1, AnswerTrue
<1>2. CalendarSpec => [](CalendarInv /\ GotInv)
  <2>1. CalendarInit => CalendarInv /\ GotInv
    BY CalendarInitInv, GotInitInv
  <2>2. CalendarInv /\ GotInv /\ [CalendarNext]_cvars => (CalendarInv /\ GotInv)'
    BY CalendarStepInv, GotStepInv
  <2> QED BY <2>1, <2>2, PTL DEF CalendarSpec
<1>3. CalendarSpec => [][Truly]_cvars
  BY <1>1, <1>2, PTL DEF CalendarSpec
<1> QED BY <1>3 DEF DayToldTruly
=============================================================================
