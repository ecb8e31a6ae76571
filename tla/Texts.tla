-------------------------------- MODULE Texts -------------------------------
(***************************************************************************)
(* What the programs make of texts: the options of the server and of the   *)
(* command line client from their files in /etc/default, the request the   *)
(* client sends for a command and what the server does with it, the word   *)
(* the key sender makes of the keys pressed since it slept, and numbers    *)
(* written and read back.  All of it is computation, so a behaviour is one *)
(* task and its result.                                                    *)
(***************************************************************************)
EXTENDS Lazc

CONSTANTS FieldTexts,   \* texts that GetLineToStr splits
          Files,        \* configuration files: sequences of lines
          Leftovers,    \* what the server's buffer holds behind a request, up to a NUL
          Numbers,      \* numbers written and read back
          Presses       \* buttons pressed while the sender sleeps: sequences

ASSUME FieldTextsAssumption == FieldTexts \subseteq Seq(STRING)

ASSUME LeftoversAssumption == Leftovers \subseteq Seq(STRING)

\* A line of a file, which has no quotes but in comments.  The value of the
\* client's AUTO_ON_OFF is written in characters, any other in words.
ConfigLine == {line \in Seq(STRING) :
                 /\ Newline \notin Range(line)
                 /\ \A i \in 1..Len(line) : line[i] = Quote => \E k \in 1..(i - 1) : line[k] = "#"}

ASSUME FilesAssumption == Files \subseteq Seq(ConfigLine)

ASSUME NumbersAssumption == Numbers \subseteq Nat

VARIABLES task, result

tvars == <<task, result>>

None == [kind |-> "none"]

FieldTask   == [kind : {"field"}, text : FieldTexts, l : 1..4]
ServerTask  == [kind : {"server"}, file : Files, ended : BOOLEAN]
CommandTask == [kind : {"command"}, file : Files, verb : {"ON", "on", "OFF", "STATUS",
                                                          "AUTO-ON", "AUTO-OFF", "auto-on"},
                line : 1..8, rest : Leftovers]
NumberTask  == [kind : {"number"}, n : Numbers, size : 1..3]

-----------------------------------------------------------------------------
(* Options.                                                                *)

\* A file as it is read; `ended` is whether its last line is.
FileText(file, ended) ==
    LET lines == [i \in 1..Len(file) |-> Append(file[i], Newline)]
        text  == FlattenSeq(lines)
    IN IF ended \/ text = <<>> THEN text ELSE Front(text)

Value(bufor, name, default) == GetConfValue(bufor, <<name>>, default)

Number(bufor, name, default) == atoi(Value(bufor, name, default))

\* main of the server.  A keyboard is scanned if it has a device.
OptionsIn(BUF) ==
    LET scan      == Number(BUF, "SCAN_KEYBOARD", <<"0">>) # 0
        Device(k) == Value(BUF, k, <<>>) # <<>>
    IN [port    |-> Number(BUF, "PORT", <<"2122">>),
        reverse |-> Number(BUF, "REVERSE", <<"0">>) # 0,
        auto    |-> Number(BUF, "AUTO_ON_OFF", <<"0">>) # 0,
        kbd0    |-> scan /\ Device("PATH_DEV_KEYBOARD_0"),
        kbd1    |-> scan /\ Device("PATH_DEV_KEYBOARD_1")]

ServerOptions(text) == OptionsIn(ConfToBufor(text))

\* main of the client, up to the socket: does the command go out?
Skipping(wlaczone, start_or_stop, komenda, onlyStart, onlyStop) ==
    \/ wlaczone = 0 /\ komenda \in {"AUTO-ON", "AUTO-OFF"}
    \/ start_or_stop = onlyStart /\ komenda = "AUTO-OFF"
    \/ start_or_stop = onlyStop /\ komenda = "AUTO-ON"

SkipsSwapped(wlaczone, start_or_stop, komenda) ==      \* mutant: 1 and 2 swapped
    Skipping(wlaczone, start_or_stop, komenda, 2, 1)

Skips(wlaczone, start_or_stop, komenda) ==
    Skipping(wlaczone, start_or_stop, komenda, 1, 2)

-----------------------------------------------------------------------------
(* A command of the client and the server's n_gpio.c.                      *)

LineWord == <<"gpio", "gpio2", "gpio3", "gpio4", "gpio5", "gpio6", "gpio7", "gpio8">>

upcase(verb) == CASE verb = "on" -> "ON" [] verb = "auto-on" -> "AUTO-ON" [] OTHER -> verb

\* The request for a command; a command that is none goes out as it is.
RequestFor(verb, line) ==
    LET Ask(what) == <<LineWord[line], "=", what>> IN
    CASE verb = "ON" \/ (verb = "AUTO-ON" /\ line = 1)   -> Ask("on")
      [] verb = "OFF" \/ (verb = "AUTO-OFF" /\ line = 1) -> Ask("off")
      [] verb = "STATUS"                                 -> Ask("status")
      [] OTHER                                           -> <<verb>>

\* The client waits for an answer to a question for the state only.
WaitsNotLast(request) ==                               \* mutant: off by one
    \E line \in 1..7 : request = <<LineWord[line], "=", "status">>

Waits(request) == \E line \in 1..8 : request = <<LineWord[line], "=", "status">>

Nothing == [line |-> 0, act |-> "nothing"]

\* strdup of msg.  The client sends no NUL and the server puts none, so behind
\* the request comes what msg happens to hold.
Received(request, rest) == request \o rest

\* A request of a client that has not logged in (tryb 0): what is done to
\* which line.  The connection ends then in any case.
ServerDoes(request, rest) ==
    LET s     == Received(request, rest)
        s1    == GetLineToStr(s, 1, "=", <<>>)
        s2    == GetLineToStr(s, 2, "=", <<>>)
        lines == {l \in 1..8 : s1 = <<LineWord[l]>>}
    IN IF lines # {} /\ s2 \in {<<"on">>, <<"off">>, <<"status">>}
       THEN [line |-> Min(lines), act |-> Head(s2)]
       ELSE Nothing

-----------------------------------------------------------------------------
(* Keys.  The codes a button sends are those of the comment before the     *)
(* replacements; the pressed keys have been joined without a separator.    *)

Buttons == [down  |-> <<"4", "2", "6", "3">>,
            up    |-> <<"2", "9", "key2_up">>,
            info  |-> <<"5", "6", "1", "2", "5", "2", "5">>,
            plain |-> <<"6", "3">>,
            copy  |-> <<"2", "9", "4", "2", "3", "1">>,
            power |-> <<"key_power">>,
            right |-> <<"key_right">>]

ASSUME PressesAssumption == Presses \subseteq Seq(DOMAIN Buttons)

KeyTask == [kind : {"keys"}, pressed : Presses]

NormaliseIn(pbufor, first, word1, second, word2) ==
    LET s1 == StringReplace(pbufor, first, word1)
        s2 == StringReplace(s1, <<"2", "9", "key2_up">>, <<>>)
        s3 == StringReplace(s2, <<"5", "6", "1", "2", "5", "2", "5">>, <<>>)
        s4 == StringReplace(s3, second, word2)
    IN StringReplace(s4, <<"2", "9", "4", "2", "3", "1">>, <<>>)

NormaliseSwapped(pbufor) ==                            \* mutant: 63 before 4263
    NormaliseIn(pbufor, <<"6", "3">>, <<>>, <<"4", "2", "6", "3">>, <<"key2_down">>)

Normalise(pbufor) ==
    NormaliseIn(pbufor, <<"4", "2", "6", "3">>, <<"key2_down">>, <<"6", "3">>, <<>>)

-----------------------------------------------------------------------------
Init == task \in FieldTask \cup ServerTask \cup CommandTask \cup KeyTask \cup NumberTask
        /\ result = None

Done(r) == result = None /\ result' = r /\ UNCHANGED task

SplitField == task.kind = "field"
    /\ Done([kind |-> "field", text |-> GetLineToStr(task.text, task.l, "=", <<"D">>)])

ReadOptions == task.kind = "server"
    /\ Done([kind |-> "server", options |-> ServerOptions(FileText(task.file, task.ended))])

\* The client ends without sending (it skips, or dies), or sends its request.
Unsent(died) == [kind |-> "command", died |-> died, sent |-> FALSE, waits |-> FALSE,
                does |-> Nothing]

Outcome(skips, request, rest) ==
    IF skips THEN Unsent(FALSE)
    ELSE [kind |-> "command", died |-> FALSE, sent |-> TRUE, waits |-> Waits(request),
          does |-> ServerDoes(request, rest)]

ClientBufor == ConfToBufor(FileText(task.file, TRUE))

SkipsWith(BUF, verb) == Skips(strtobool(Value(BUF, "AUTO_ON_OFF", <<"y", "e", "s">>)),
                              Number(BUF, "START_OR_STOP", <<"0">>), verb)

RunCommand == task.kind = "command"
    /\ Done(Outcome(task.line = 1 /\ SkipsWith(ClientBufor, task.verb),
                    RequestFor(upcase(task.verb), task.line), task.rest))

\* strtobool writes into its text, trim a NUL and downcase every letter.  The
\* default is a string literal, so the write is undefined: it kills the
\* client, or changes nothing (RunCommand).
DefaultWritten == task.kind = "command" /\ IsDefault(ClientBufor, <<"AUTO_ON_OFF">>)
    /\ Done(Unsent(TRUE))

TakeKeys == task.kind = "keys"
    /\ Done([kind |-> "keys",
             s |-> Normalise(FlattenSeq([i \in DOMAIN task.pressed |-> Buttons[task.pressed[i]]]))])

ConvertNumber ==
    /\ task.kind = "number"
    /\ LET b == IntToB256(task.n, task.size)
       IN Done([kind |-> "number", hex |-> HexToDec(StrBase(IntToSys(task.n, 16), task.size)),
                fits |-> b.len # -1, int |-> IF b.len = -1 THEN 0 ELSE B256ToInt(b.buffer)])

Next == SplitField \/ ReadOptions \/ RunCommand \/ DefaultWritten \/ TakeKeys \/ ConvertNumber

Spec == Init /\ [][Next]_tvars

-----------------------------------------------------------------------------
(* Properties.                                                             *)

\* The l-th field by its definition: what is between two separators that are
\* not within quotes.
FieldOf(a, l, sep) ==
    LET ends == {0, Len(a) + 1} \cup {i \in 1..Len(a) : a[i] = sep /\ ~Quoted(a, 1, i)}
        At(k) == CHOOSE i \in ends : Cardinality({j \in ends : j < i}) = k
    IN IF l >= Cardinality(ends) THEN <<>> ELSE SubSeq(a, At(l - 1) + 1, At(l) - 1)

\* A field without quotes, or quoted as a whole with no separator at its edges.
WellQuoted(f, sep) ==
    \/ Quote \notin Range(f)
    \/ /\ Len(f) > 2 /\ f[1] = Quote /\ Last(f) = Quote
       /\ Quote \notin Range(SubSeq(f, 2, Len(f) - 1))
       /\ f[2] # sep /\ f[Len(f) - 1] # sep

\* Such a field without its quotes.
Unquoted(f) == IF Quote \notin Range(f) THEN f ELSE SubSeq(f, 2, Len(f) - 1)

\* GetLineToStr finds the l-th field, without its quotes, or the default: at
\* the first and at the last field, for empty ones, and past the last, and
\* whatever the other fields are.
FieldFound ==
    (task.kind = "field" /\ result # None /\ WellQuoted(FieldOf(task.text, task.l, "="), "="))
    => LET f == Unquoted(FieldOf(task.text, task.l, "="))
       IN result.text = IF f = <<>> THEN <<"D">> ELSE f

\* What line i of a file says of a name, comments and blanks put aside.
Says(line, name) ==
    LET code == SubSeq(line, 1, FirstIn({i \in 1..Len(line) : line[i] = "#"}, Len(line) + 1) - 1)
    IN IF trim(FieldOf(code, 1, "=")) = <<name>> THEN {trim(FieldOf(code, 2, "="))} ELSE {}

\* The value of a name in a file: that of the first line that has it.
Sayers(file, name) == {i \in 1..Len(file) : Says(file[i], name) # {}}

InFile(file, name, default) ==
    IF Sayers(file, name) = {} THEN default
    ELSE CHOOSE v \in Says(file[Min(Sayers(file, name))], name) : TRUE

\* The comments of gpio.server: every option has the value of its first
\* line that is not a comment, or the default named there, and a keyboard is
\* scanned only if scanning is on and it has a device.  The last line counts
\* only if it is ended.
OptionsAsWritten ==
    (task.kind = "server" /\ result # None) =>
      LET file == IF task.ended \/ task.file = <<>> THEN task.file ELSE Front(task.file)
          On(name) == atoi(InFile(file, name, <<"0">>)) # 0
          o == result.options
      IN /\ o.port = atoi(InFile(file, "PORT", <<"2122">>))
         /\ o.reverse = On("REVERSE") /\ o.auto = On("AUTO_ON_OFF")
         /\ o.kbd0 = (On("SCAN_KEYBOARD") /\ InFile(file, "PATH_DEV_KEYBOARD_0", <<>>) # <<>>)
         /\ o.kbd1 = (On("SCAN_KEYBOARD") /\ InFile(file, "PATH_DEV_KEYBOARD_1", <<>>) # <<>>)

\* What says yes: on, yes and 1, in small letters, in capitals or in both.
YesWords == ({"o", "O"} \X {"n", "N"}) \cup ({"y", "Y"} \X {"e", "E"} \X {"s", "S"}) \cup {<<"1">>}

\* gpio.client:10-20: the commands of systemd go out with AUTO_ON_OFF = yes
\* only, at a start unless START_OR_STOP is 2, at a stop unless it is 1;
\* those of a user always do.  yes is the default there, but without a line
\* of AUTO_ON_OFF, and only then, the client may die first.
AutoAsWritten ==
    (task.kind = "command" /\ result # None) =>
      LET yes  == InFile(task.file, "AUTO_ON_OFF", <<"y", "e", "s">>) \in YesWords
          when == atoi(InFile(task.file, "START_OR_STOP", <<"0">>))
      IN /\ result.died => Sayers(task.file, "AUTO_ON_OFF") = {} /\ ~result.sent
         /\ ~result.died /\ task.line = 1 =>
              /\ task.verb = "AUTO-ON" => (result.sent <=> yes /\ when # 2)
              /\ task.verb = "AUTO-OFF" => (result.sent <=> yes /\ when # 1)
              /\ task.verb \in {"ON", "OFF", "STATUS", "on"} => result.sent

\* Client and server agree on every command of the usage text.  Whatever the
\* server's buffer holds behind the request, it is not taken for another line
\* or another act: the server does what the command says, to its line, or,
\* but only if there is something behind it, nothing.  The client waits for
\* an answer exactly when it has asked for the state.
CommandUnderstood ==
    (task.kind = "command" /\ result # None /\ result.sent
     /\ (task.line = 1 \/ task.verb \in {"ON", "on", "OFF", "STATUS"})) =>
      LET act == CASE task.verb \in {"ON", "on", "AUTO-ON", "auto-on"} -> "on"
                   [] task.verb \in {"OFF", "AUTO-OFF"} -> "off"
                   [] task.verb = "STATUS" -> "status"
      IN /\ \/ result.does = [line |-> task.line, act |-> act]
            \/ task.rest # <<>> /\ result.does = Nothing
         /\ result.waits <=> act = "status"

\* What each button of the remote control means, batch by batch: however the
\* codes of buttons pressed within one sleep are joined, none of them reads
\* as another.  It takes whole buttons: one cut in two by the sleep is lost.
Meaning == [down |-> <<"key2_down">>, up |-> <<>>, info |-> <<>>, plain |-> <<>>,
            copy |-> <<>>, power |-> <<"key_power">>, right |-> <<"key_right">>]

ButtonsKeepMeaning ==
    (task.kind = "keys" /\ result # None) =>
      result.s = FlattenSeq([i \in DOMAIN task.pressed |-> Meaning[task.pressed[i]]])

\* How many numbers one, two and three bytes hold.
Limit == <<256, 65536, 16777216>>

\* A number is read back as it was written, in hexadecimal of any width and
\* in bytes if it fits, and it is known whether it fits.
NumbersComeBack ==
    (task.kind = "number" /\ result # None) =>
      /\ result.hex = task.n
      /\ result.fits <=> task.n < Limit[task.size]
      /\ result.fits => result.int = task.n
=============================================================================
