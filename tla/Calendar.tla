------------------------------ MODULE Calendar ------------------------------
(***************************************************************************)
(* The questions of monitors about the day: getworkday, statusday and      *)
(* getcalendar.  The thread of each monitor's connection connects to the   *)
(* database, asks, disconnects and answers.  No mutex is taken, and all    *)
(* threads use the one global variable db.                                 *)
(*                                                                         *)
(* The MySQL client is external: a handle is allocated, connected and      *)
(* closed, holds the result of one query until it is stored, and may be    *)
(* asked nothing more till then.  Undefined behaviour, where the model     *)
(* stops, is a use of a handle that is not connected or holds no result    *)
(* ("handle"), a result or a column that is NULL and is used ("null"), and *)
(* an error text that does not fit the times ("times").  What the database *)
(* says does fit.                                                          *)
(***************************************************************************)
EXTENDS Integers, Sequences, FiniteSets

CONSTANTS Monitors,     \* threads of monitors
          MaxHandles    \* handles allocated in this instance

VARIABLES day,          \* what the database would say
          db,           \* the global handle
          handles,      \* state of each handle allocated
          cpc, ask,     \* each thread: its place, its question
          left, got,    \* queries it has still to make, values it has got
          overlap,      \* two questions have been worked on at a time
          undefined,    \* something undefined has happened: why, or "no"
          answered      \* the answer of the last step

cvars == <<day, db, handles, cpc, ask, left, got, overlap, undefined, answered>>

Failed     == -1
NoDatabase == -2        \* the answer E

\* The queries of each question, in their order.
Queries == [getworkday  |-> <<"IsWorkDayNow">>,
            statusday   |-> <<"StatusDayNow">>,
            getcalendar |-> <<"StatusDayNow", "sun_times", "GetImieniny">>]

Questions == DOMAIN Queries
NoAnswer  == [ask |-> "nothing"]

\* A handle: connected or not, and the query whose result it holds.
NewHandle == [state |-> "new", pending |-> "nothing"]

Connected(h) == h > 0 /\ handles[h].state = "open"

Walk(t, l) == cpc' = [cpc EXCEPT ![t] = l]

\* Left out of each step that does not speak.
Silent == answered' = NoAnswer /\ UNCHANGED <<day, ask>>

-----------------------------------------------------------------------------
Question(t, q) ==
    /\ cpc[t] = "idle"
    /\ Walk(t, "init")
    /\ ask' = [ask EXCEPT ![t] = q]
    /\ left' = [left EXCEPT ![t] = Queries[q]] /\ got' = [got EXCEPT ![t] = <<>>]
    /\ overlap' = (overlap \/ \E u \in Monitors \ {t} : cpc[u] # "idle")
    /\ answered' = NoAnswer
    /\ UNCHANGED <<day, db, handles, undefined>>

\* DbConnect allocates two handles and forgets the first.
MysqlInit(t) ==
    /\ cpc[t] = "init" /\ Len(handles) + 2 <= MaxHandles
    /\ handles' = handles \o <<NewHandle, NewHandle>>
    /\ db' = Len(handles')
    /\ Walk(t, "connect")
    /\ Silent /\ UNCHANGED <<left, got, overlap, undefined>>

RealConnect(t) ==
    /\ cpc[t] = "connect" /\ handles[db].state = "new"
    /\ handles' = [handles EXCEPT ![db].state = "open"]
    /\ Walk(t, "query")
    /\ Silent /\ UNCHANGED <<db, left, got, overlap, undefined>>

\* The handle is not closed then.
ConnectFails(t) ==
    /\ cpc[t] = "connect"
    /\ Walk(t, "answer")
    /\ got' = [got EXCEPT ![t] = <<Failed>>]
    /\ Silent /\ UNCHANGED <<db, handles, left, overlap, undefined>>

\* mysql_query, on the handle that db is by now.
Query(t) ==
    /\ cpc[t] = "query" /\ left[t] # <<>> /\ Connected(db) /\ handles[db].pending = "nothing"
    /\ handles' = [handles EXCEPT ![db].pending = Head(left[t])]
    /\ Walk(t, "store")
    /\ Silent /\ UNCHANGED <<db, left, got, overlap, undefined>>

\* What a query gives if it is refused, or finds no row: the number functions
\* say -1, the times are the text of the error, the name is empty.
QueryFails(t) ==
    /\ cpc[t] = "query" /\ left[t] # <<>> /\ Connected(db)
    /\ got' = [got EXCEPT ![t] = Append(@, Failed)]
    /\ left' = [left EXCEPT ![t] = Tail(@)]
    /\ Silent /\ UNCHANGED <<db, handles, cpc, overlap, undefined>>

\* mysql_store_result and the row: whatever result the handle holds.
Store(t) ==
    /\ cpc[t] = "store" /\ Connected(db) /\ handles[db].pending # "nothing"
    /\ got' = [got EXCEPT ![t] = Append(@, day[handles[db].pending])]
    /\ left' = [left EXCEPT ![t] = Tail(@)]
    /\ handles' = [handles EXCEPT ![db].pending = "nothing"]
    /\ Walk(t, "query")
    /\ Silent /\ UNCHANGED <<db, overlap, undefined>>

DisconnectWhen(t, closes) ==
    /\ cpc[t] = "query" /\ left[t] = <<>> /\ Connected(db)
    /\ handles' = IF closes THEN [handles EXCEPT ![db].state = "closed"] ELSE handles
    /\ Walk(t, "answer")
    /\ Silent /\ UNCHANGED <<db, left, got, overlap, undefined>>

\* mutant: not closed if the last query failed
DisconnectUnlessFailed(t) == DisconnectWhen(t, got[t][Len(got[t])] # Failed)

DbDisconnect(t) == DisconnectWhen(t, TRUE)

Breaks(why) ==
    /\ undefined' = why
    /\ Silent /\ UNCHANGED <<db, handles, cpc, left, got, overlap>>

\* A use of db that the client library does not define.
MisuseOfDb(t) ==
    /\ \/ cpc[t] = "connect" /\ handles[db].state # "new"
       \/ cpc[t] = "query" /\ ~Connected(db)
       \/ cpc[t] = "store" /\ ~(Connected(db) /\ handles[db].pending # "nothing")
    /\ Breaks("handle")

\* mysql_store_result fails, or the column is NULL: the first goes to
\* mysql_fetch_row, the second to atoi or strcpy, and nobody looks.
NullIsUsed(t) ==
    /\ cpc[t] = "store" /\ Connected(db) /\ handles[db].pending # "nothing"
    /\ Breaks("null")

\* split_times of the text of an error that has a minus sign somewhere late:
\* more than fits.  It is called before the name of the day is asked for.
TimesOverflow(t) ==
    /\ cpc[t] = "query" /\ ask[t] = "getcalendar" /\ Len(got[t]) = 2 /\ got[t][2] = Failed
    /\ Breaks("times")

-----------------------------------------------------------------------------
(* The answers.                                                            *)

WorkdayAnswer(a) == [ask |-> "getworkday", workday |-> IF a \in {0, 1} THEN a ELSE -1]

StatusAnswer(a) == [ask |-> "statusday", status |-> IF a \in 0..3 THEN a ELSE -1]

\* GetCalendarAll: any other status is written as 3; the name of the day is 1
\* here, no text 0.  Without times, split_times leaves its arrays as they
\* were: dzien, day or night, is as it happens.
CalendarAnswers(v, statuses) ==
    {[ask |-> "getcalendar", status |-> IF v[1] \in statuses THEN v[1] ELSE 3,
      dzien |-> d, imieniny |-> IF v[3] = Failed THEN 0 ELSE v[3]] :
        d \in IF v[2] = Failed THEN {0, 1} ELSE {v[2]}}

Speak(t, answers) ==
    /\ cpc[t] = "answer"
    /\ answered' \in answers
    /\ Walk(t, "idle")
    /\ got' = [got EXCEPT ![t] = <<>>] /\ left' = [left EXCEPT ![t] = <<>>]
    /\ UNCHANGED <<day, db, handles, ask, overlap, undefined>>

AnswerDay(t) ==
    \/ ask[t] = "getworkday" /\ Speak(t, {WorkdayAnswer(got[t][1])})
    \/ ask[t] = "statusday" /\ Speak(t, {StatusAnswer(got[t][1])})

AnswerAmong(t, statuses) ==
    /\ ask[t] = "getcalendar"
    /\ Speak(t, IF Len(got[t]) = 1 THEN {[ask |-> "getcalendar", status |-> NoDatabase]}
                ELSE CalendarAnswers(got[t], statuses))

AnswerTwice(t) == AnswerAmong(t, {0, 1, 2})            \* mutant: a failure is a leave

AnswerCalendar(t) == AnswerAmong(t, {-1, 0, 1, 2})

-----------------------------------------------------------------------------
CalendarInit ==
    /\ day \in [IsWorkDayNow : {0, 1}, StatusDayNow : 0..4, sun_times : {0, 1},
                GetImieniny : {1}]
    /\ db = 0 /\ handles = <<>>
    /\ cpc = [t \in Monitors |-> "idle"] /\ ask = [t \in Monitors |-> "getworkday"]
    /\ left = [t \in Monitors |-> <<>>] /\ got = [t \in Monitors |-> <<>>]
    /\ overlap = FALSE /\ undefined = "no" /\ answered = NoAnswer

CalendarNext ==
    /\ undefined = "no"
    /\ \E t \in Monitors :
         \/ \E q \in Questions : Question(t, q)
         \/ MysqlInit(t) \/ RealConnect(t) \/ ConnectFails(t)
         \/ Query(t) \/ QueryFails(t) \/ Store(t) \/ DbDisconnect(t)
         \/ MisuseOfDb(t) \/ NullIsUsed(t) \/ TimesOverflow(t)
         \/ AnswerDay(t) \/ AnswerCalendar(t)

CalendarSpec == CalendarInit /\ [][CalendarNext]_cvars

-----------------------------------------------------------------------------
(* Properties.                                                             *)

\* As long as the questions of two monitors have never met, db is never
\* misused, however connections and queries fail: it is connected when it is
\* asked and holds a result when that is stored; and no connection stays open
\* when nobody asks.  It does not say that nothing undefined happens: a NULL
\* result or column, and an error text that is too long for the times, are
\* used as they are, one monitor or two.
OneMonitorSafe ==
    ~overlap =>
      /\ undefined # "handle"
      /\ (\A t \in Monitors : cpc[t] = "idle") =>
            \A h \in 1..Len(handles) : handles[h].state # "open"

\* Without overlap an answer says what the database says of the day, or that
\* it is not known because something has failed; a failure is never told as
\* a kind of day.
DayToldTruly ==
    [][\A t \in Monitors : cpc[t] = "answer" /\ cpc'[t] = "idle" /\ ~overlap =>
         CASE ask[t] = "getworkday" ->
                answered'.workday = IF got[t][1] = Failed THEN -1 ELSE day.IsWorkDayNow
           [] ask[t] = "statusday" ->
                answered'.status = IF got[t][1] \in 0..3 THEN day.StatusDayNow ELSE -1
           [] ask[t] = "getcalendar" /\ Len(got[t]) = 1 -> answered'.status = NoDatabase
           [] OTHER ->
                /\ answered'.status = IF got[t][1] = Failed THEN -1
                                      ELSE IF day.StatusDayNow > 3 THEN 3 ELSE day.StatusDayNow
                /\ got[t][2] # Failed => answered'.dzien = day.sun_times]_cvars
=============================================================================
