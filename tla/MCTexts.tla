------------------------------- MODULE MCTexts ------------------------------
(***************************************************************************)
(* Two scenes in one run: what the programs make of texts (Texts), and the *)
(* questions of monitors about the day (Calendar).                         *)
(***************************************************************************)
EXTENDS Texts, Calendar

VARIABLE scene

mcvars == <<scene, tvars, cvars>>

\* Every text of up to seven characters: quotes and separators anywhere.
SmallTexts == BoundedSeq({"a", "=", Quote}, 7)

\* Lines of both configuration files: plain, with blanks, as a comment, with
\* a comment behind, without a value, and no line at all.
SomeLines == {<<>>, <<Space>>, <<"#", "REVERSE", "=", "1">>,
              <<"REVERSE", Space, "=", Space, "1">>, <<"REVERSE", "=", "0">>,
              <<"PORT", "=", "2122", Space, "#", "PORT">>, <<"PORT", "=", "1">>,
              <<"AUTO_ON_OFF", "=", "y", "E", "s">>, <<"AUTO_ON_OFF", "=", "O", "n">>,
              <<Space, "AUTO_ON_OFF", "=", "n", "o">>, <<"START_OR_STOP", "=", "1">>,
              <<"START_OR_STOP", "=", Space, "2", "#">>, <<"SCAN_KEYBOARD", "=", "1">>,
              <<"PATH_DEV_KEYBOARD_0", "=", "dev">>, <<"PATH_DEV_KEYBOARD_1", "=">>}

SmallFiles == BoundedSeq(SomeLines, 2)

\* Nothing, the end of a longer request, and what looks like a separator.
SomeLeftovers == {<<>>, <<"tus">>, <<"=", "off">>, <<Quote, "=", "on">>}

\* Up to three buttons.
SomePresses == BoundedSeq(DOMAIN Buttons, 3)

\* Numbers of one byte, and those at the limits of two and of three.
SomeNumbers == 0..300 \cup {4095, 4096, 32768} \cup 65534..65537 \cup 16777214..16777216

\* Of a file with two lines, only what main of the client itself makes of
\* them: the commands of line 1, with an empty buffer at the server.
CommandBound == task.kind = "command" /\ Len(task.file) > 1 => task.line = 1 /\ task.rest = <<>>

MCInit ==
    \/ /\ scene = "texts" /\ Init /\ CommandBound
       /\ day = [IsWorkDayNow |-> 0, StatusDayNow |-> 0, sun_times |-> 0, GetImieniny |-> 1]
       /\ CalendarInit
    \/ /\ scene = "calendar" /\ CalendarInit
       /\ task = [kind |-> "number", n |-> 0, size |-> 1] /\ result = None

MCNext ==
    /\ UNCHANGED scene
    /\ \/ scene = "texts" /\ Next /\ UNCHANGED cvars
       \/ scene = "calendar" /\ CalendarNext /\ UNCHANGED tvars

MCSpec == MCInit /\ [][MCNext]_mcvars
=============================================================================
