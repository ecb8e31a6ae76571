-------------------------------- MODULE Lazc --------------------------------
(***************************************************************************)
(* The string library lazc.h, as far as the programs use it, and its       *)
(* number conversions.  A text is a sequence of tokens: characters that    *)
(* the library looks at, and words it only copies.  Positions are those of *)
(* TLA+, from 1.  A definition says what the loop over the characters      *)
(* finds; where the code is at fault, so is the definition.                *)
(***************************************************************************)
EXTENDS Integers, SequencesExt, FiniteSetsExt

Quote   == "\""
Newline == "\n"
Space   == " "

-----------------------------------------------------------------------------
(* Fields of a line.                                                       *)

\* b after s[from..i]: an odd number of quotes has been passed.
Quoted(s, from, i) == Cardinality({j \in from..i : s[j] = Quote}) % 2 = 1

\* The first position in S, or otherwise the given one.
FirstIn(S, otherwise) == IF S = {} THEN otherwise ELSE Min(S)

OrDefault(text, default) == IF text = <<>> THEN default ELSE text

\* The place behind l - 1 separators that are not within quotes; s ends with
\* a separator that is not looked at.
FieldStart(s, l, sep) ==
    LET Skip(i) == IF s[i] = sep THEN i + 1 ELSE i
    IN Skip(FirstIn({i \in 1..(Len(s) - 1) :
                        1 + Cardinality({j \in 1..i : s[j] = sep /\ ~Quoted(s, 1, j)}) = l},
                    Len(s)))

\* The text up to a separator, without a quote at its beginning, then without
\* a separator at its beginning, then without one at its end.
DropFirst(f, c) == IF f # <<>> /\ f[1] = c THEN Tail(f) ELSE f
DropLast(f, c)  == IF f # <<>> /\ Last(f) = c THEN Front(f) ELSE f

Dequote(f, sep) == DropLast(DropFirst(DropFirst(f, Quote), sep), sep)

FieldFrom(s, from, sep, heeds) ==
    Dequote(SubSeq(s, from, FirstIn({j \in from..Len(s) :
                                       \/ s[j] = sep /\ ~(heeds /\ Quoted(s, from, j))
                                       \/ s[j] = Quote /\ ~Quoted(s, from, j)},
                                    Len(s) + 1) - 1), sep)

\* The search in GetLineToStr; the second loop heeds quotes as the first does.
FieldEnding(a, l, sep, default, heeds) ==
    LET s == Append(a, sep)
    IN OrDefault(FieldFrom(s, FieldStart(s, l, sep), sep, heeds), default)

\* mutant: a quoted separator ends the field as well
FieldUnquoted(a, l, sep, default) == FieldEnding(a, l, sep, default, FALSE)

GetLineToStr(a, l, sep, default) == FieldEnding(a, l, sep, default, TRUE)

-----------------------------------------------------------------------------
(* Searching, cutting, replacing.                                          *)

trim(s) ==
    LET solid == {i \in 1..Len(s) : s[i] # Space}
    IN IF solid = {} THEN <<>> ELSE SubSeq(s, Min(solid), Max(solid))

\* pos takes characters of sub in order, but with gaps, and answers as if
\* there were none.
Matched(sub, s) ==
    LET after[i \in 0..Len(s)] ==
            IF i = 0 THEN [k |-> 1, last |-> 0]
            ELSE IF after[i - 1].k <= Len(sub) /\ s[i] = sub[after[i - 1].k]
            THEN [k |-> after[i - 1].k + 1, last |-> i] ELSE after[i - 1]
    IN after[Len(s)]

pos(sub, s) ==
    LET end == Matched(sub, s)
    IN IF end.k > Len(sub) THEN end.last - Len(sub) + 1 ELSE 0

\* The first occurrence is replaced, from the beginning again each time, until
\* there is none.  What the callers put in has fewer tokens than what it
\* replaces, so that as many rounds as the text has tokens are enough.
Occurrences(s, substr) ==
    {i \in 1..(Len(s) - Len(substr) + 1) : SubSeq(s, i, i + Len(substr) - 1) = substr}

ReplacedAt(s, i, length, replacement) ==
    SubSeq(s, 1, i - 1) \o replacement \o SubSeq(s, i + length, Len(s))

FirstReplaced(t, substr, replacement) ==
    IF Occurrences(t, substr) = {} THEN t
    ELSE ReplacedAt(t, Min(Occurrences(t, substr)), Len(substr), replacement)

StringReplace(s, substr, replacement) ==
    LET after[n \in 0..Len(s)] ==
            IF n = 0 THEN s ELSE FirstReplaced(after[n - 1], substr, replacement)
    IN after[Len(s)]

\* downcase, of the letters that strtobool compares with.
SmallLetter == [N |-> "n", O |-> "o", Y |-> "y", E |-> "e", S |-> "s"]

downcase(s) == [i \in 1..Len(s) |-> IF s[i] \in DOMAIN SmallLetter THEN SmallLetter[s[i]] ELSE s[i]]

\* strtobool of a value written in characters.
strtobool(s) ==
    IF downcase(trim(s)) \in {<<"o", "n">>, <<"y", "e", "s">>, <<"1">>} THEN 1 ELSE 0

\* atoi of the C library on a single word.
atoi(s) ==
    LET word == trim(s)
    IN IF word # <<>> /\ Head(word) \in {"1", "2", "3", "2122"}
       THEN CASE Head(word) = "1" -> 1 [] Head(word) = "2" -> 2
              [] Head(word) = "3" -> 3 [] Head(word) = "2122" -> 2122
       ELSE 0

-----------------------------------------------------------------------------
(* Configuration files.                                                    *)

\* One line: what follows # is cut, and then, only then, the rest trimmed; an
\* empty line is skipped; name and value are written without their blanks.
Uncommented(line, hash) == IF hash > 0 THEN trim(SubSeq(line, 1, hash - 1)) ELSE line

NameAndValue(s) == IF s = <<>> THEN <<>>
                   ELSE trim(GetLineToStr(s, 1, "=", <<>>)) \o <<"=">>
                          \o trim(GetLineToStr(s, 2, "=", <<>>)) \o <<Newline>>

ConfLine(line) == NameAndValue(Uncommented(line, pos(<<"#">>, line)))

\* The file, character by character; a last line without its end is lost.
Read(file) ==
    LET after[i \in 0..Len(file)] ==
            IF i = 0 THEN [line |-> <<>>, bufor |-> <<>>]
            ELSE IF file[i] = Newline
            THEN [line |-> <<>>, bufor |-> after[i - 1].bufor \o ConfLine(after[i - 1].line)]
            ELSE [line |-> Append(after[i - 1].line, file[i]), bufor |-> after[i - 1].bufor]
    IN after

ConfToBufor(file) == Read(file)[Len(file)].bufor

\* The first line of that name.  An empty field ends the search.
Row(bufor, i) == GetLineToStr(bufor, i, Newline, <<>>)

Rows(bufor, first) ==
    first..(FirstIn({i \in first..(Len(bufor) + 1) : Row(bufor, i) = <<>>}, Len(bufor) + 1) - 1)

ValueIn(bufor, named, default) ==
    IF named = {} THEN default ELSE GetLineToStr(Row(bufor, Min(named)), 2, "=", <<>>)

RowsNamed(bufor, first, name) ==
    {i \in Rows(bufor, first) : GetLineToStr(Row(bufor, i), 1, "=", <<>>) = name}

ConfValueFrom(bufor, first, name, default) ==
    ValueIn(bufor, RowsNamed(bufor, first, name), default)

ConfValueSecond(bufor, name, default) ==               \* mutant: i starts at 2
    ConfValueFrom(bufor, 2, name, default)

GetConfValue(bufor, name, default) == ConfValueFrom(bufor, 1, name, default)

\* The default itself is returned then, and not a copy of it.
IsDefault(bufor, name) == RowsNamed(bufor, 1, name) = {}

-----------------------------------------------------------------------------
(* Numbers.  Digits and bytes are numbers themselves.                      *)

\* IntToSys of a number that is not negative.
IntToSys(n, base) ==
    LET sys[m \in Nat] == IF m < base THEN <<m>> ELSE Append(sys[m \div base], m % base)
    IN sys[n]

StrBase(s, length) ==
    IF Len(s) > length THEN s ELSE [i \in 1..(length - Len(s)) |-> 0] \o s

\* r and m after each round of the loops that read a number, which take the
\* digits from the last one.
Rounds(s, base) ==
    LET after[i \in 0..Len(s)] ==
            IF i = 0 THEN [m |-> 1, r |-> 0]
            ELSE [m |-> base * after[i - 1].m,
                  r |-> after[i - 1].r + s[Len(s) + 1 - i] * after[i - 1].m]
    IN after

ValueOf(s, base) == Rounds(s, base)[Len(s)].r

HexToDec(s) == ValueOf(s, 16)

\* -1 if the number does not fit, else its length and the bytes.
IntToB256(n, size) ==
    LET bytes == IntToSys(n, 256)
    IN IF Len(bytes) > size THEN [len |-> -1, buffer |-> <<>>]
       ELSE [len |-> Len(bytes), buffer |-> StrBase(bytes, size)]

B256Signed(buffer) == ValueOf(buffer, 128)             \* mutant: bytes of seven bits

B256ToInt(buffer) == ValueOf(buffer, 256)
=============================================================================
