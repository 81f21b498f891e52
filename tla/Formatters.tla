----------------------------- MODULE Formatters ----------------------------
(***************************************************************************)
(* JsonFormatter and TextFormatter (include/clogpp/formatters.hpp): a log   *)
(* statement makes an entry, kv() by kv(), and the entry becomes a line,    *)
(* whole or not at all.  A line is a sequence of characters; a word of the  *)
(* format's own, a number and a stamp count as one character.  Beside the   *)
(* entry stands what the statement said, and a reader of lines.            *)
(***************************************************************************)
EXTENDS Timestamps, Encoding

CONSTANTS
  Null,      \* no entry, a null pointer
  Events,    \* texts
  Keys,      \* texts
  Values,    \* arguments of kv(): [kind, text]
  Bindings,  \* the fields bound to the logger: sequences of [key, value]
  Callers,   \* [level, thread, location] of a log statement
  Moments,   \* when statements are made: [day, time]
  Points,    \* the decimal points of the locales the program uses
  MaxKv      \* calls of kv() in a statement

Location == [file : Seq(STRING) \cup {Null}, function : Seq(STRING) \cup {Null}, line : Nat]

Kinds == {"string", "nullptr string", "nullptr", "absent", "integer", "bool", "double", "raw"}
Value == [kind : Kinds, text : Seq(STRING)]
Binding == [key : Seq(STRING), value : Value]

ASSUME StatementsAssumption ==
  /\ MaxKv \in Nat
  /\ Null \notin FieldSet
  /\ Events \subseteq Seq(STRING) /\ Keys \subseteq Seq(STRING) /\ Points \subseteq STRING
  /\ Values \subseteq Value /\ \A b \in Bindings : b \in Seq(Binding)
  /\ Callers \subseteq [level : 0..5, thread : Nat, location : Location]
  /\ \A m \in Moments : m.day \in Int /\ m.time \in Times

\* Characters that JSON strings and lines have no other meaning for.
Plain(text) == \A i \in 1..Len(text) : text[i] \notin {Quote, Backslash, Newline, Control}

\* What std::to_chars and snprintf print.
Printable(v) ==
  /\ v.kind \in {"integer", "bool", "double"} => Plain(v.text)
  /\ v.kind = "double" =>
       v.text # <<>> /\ (v.text[1] \in {"nan", "inf"} => Len(v.text) = 1)

VARIABLES
  entry,  \* the entry of the statement under way
  said,   \* what its fields, and those bound to the logger, were made from, and
          \* the decimal point at the time
  point   \* the decimal point of the locale

vars == <<day, date, entry, said, point>>

Init ==
  /\ CalendarInit
  /\ entry = Null
  /\ said = <<>>
  /\ point = "."

-----------------------------------------------------------------------------
\* level_name() and level_label().
level_name == <<"trace", "debug", "info", "warning", "error", "critical">>
level_label == <<"TRACE   ", "DEBUG   ", "INFO    ", "WARNING ", "ERROR   ", "CRITICAL">>
color_for == <<"[2m", "[36m", "[32m", "[33m", "[31m", "[1;31m">>

\* The words of a format's own are strings, which the provers are not told.
Words == {"{", "}", "(", ")", " ", "=", ",", ":", ".", "n", "u", "0001", "00c3", "null",
          Quote, Backslash, Newline, Control, HighByte,
          "ts", "level", "event", "tid", "file", "line", "func", "[0m"}
         \cup {level_name[i] : i \in 1..6} \cup {level_label[i] : i \in 1..6}
         \cup {color_for[i] : i \in 1..6}

ASSUME WordsAssumption == Words \subseteq STRING

\* What the system says, with 0 kept for an id that was not captured.
current_thread_id(os) == IF os = 0 THEN 1 ELSE os

valid(location) == location.file # Null

file_name(location) ==
  LET f == location.file
      separators == {i \in 1..Len(f) : f[i] \in {"/", Backslash}}
  IN  IF separators = {} THEN f ELSE SubSeq(f, Max(separators) + 1, Len(f))

Time(e, precision) == <<ToString(Stamp(day, e.time, precision))>>
Number(n) == <<ToString(n)>>

\* A number, and a stamp, count as one character, and as none of the special
\* ones.
Digits(text) == text \in Seq(STRING) /\ Plain(text)

ASSUME PrintingAssumption ==
  /\ \A v \in Values : Printable(v)
  /\ \A b \in Bindings : \A i \in 1..Len(b) : Printable(b[i].value)
  /\ \A c \in Callers :
       Digits(Number(c.location.line)) /\ Digits(Number(current_thread_id(c.thread)))
  /\ \A m \in Moments, p \in Precisions : Digits(Number(Stamp(m.day, m.time, p)))

\* ,"name":
Name(name) == Comma \o <<name>> \o Colon

-----------------------------------------------------------------------------
(* A mistake the code could have had; no specification uses it.              *)

\* The text formatter shows the values of strings without their quotes.
AppendFieldsBare(fs) ==
  FlattenSeq([i \in 1..size(fs) |->
    <<" ">> \o key(fs, i) \o <<"=">> \o SelectSeq(value(fs, i), LAMBDA c : c # Quote)])

-----------------------------------------------------------------------------
LocationJson(location) ==
  IF ~valid(location) THEN <<>>
  ELSE Name("file") \o Quoted(location.file)
       \o Name("line") \o Number(location.line)
       \o IF location.function = Null THEN <<>> ELSE Name("func") \o Quoted(location.function)

JsonFormat(e, precision) ==
  <<"{", Quote, "ts">> \o Colon \o <<Quote>> \o Time(e, precision) \o <<Quote>>
  \o Name("level") \o <<Quote, level_name[e.level + 1], Quote>>
  \o Name("event") \o Quoted(e.event)
  \o (IF e.bound = Null THEN <<>> ELSE e.bound.buf)
  \o e.fields.buf
  \o (IF e.thread_id = 0 THEN <<>> ELSE Name("tid") \o Number(e.thread_id))
  \o LocationJson(e.location)
  \o <<"}">>

append_fields(fs) ==
  FlattenSeq([i \in 1..size(fs) |-> <<" ">> \o key(fs, i) \o <<"=">> \o value(fs, i)])

TextOptions == [color : BOOLEAN, precision : Precisions, show_thread_id : BOOLEAN,
                show_location : BOOLEAN]

Label(lvl, color) ==
  IF color THEN <<color_for[lvl + 1], level_label[lvl + 1], "[0m">> ELSE <<level_label[lvl + 1]>>

TextFormat(e, opts) ==
  Time(e, opts.precision) \o <<" ">> \o Label(e.level, opts.color) \o <<" ">> \o e.event
  \o (IF e.bound = Null THEN <<>> ELSE append_fields(e.bound))
  \o append_fields(e.fields)
  \o (IF opts.show_thread_id /\ e.thread_id # 0
        THEN <<" ", "tid", "=">> \o Number(e.thread_id) ELSE <<>>)
  \o IF opts.show_location /\ valid(e.location)
       THEN <<" ", "(">> \o file_name(e.location) \o <<":">> \o Number(e.location.line) \o <<")">>
       ELSE <<>>

-----------------------------------------------------------------------------
\* Time passes between statements.
Calendar == entry = Null /\ CalendarNext /\ UNCHANGED <<entry, said, point>>

\* setlocale()
SetLocale(p) == point' = p /\ UNCHANGED <<day, date, entry, said>>

NoLocation == [file |-> Null, function |-> Null, line |-> 0]

\* The fields that kv() calls make, one after the other.
Built(says, p) ==
  LET fields[n \in 0..Len(says)] ==
        IF n = 0 THEN EmptyFields ELSE kv(fields[n - 1], says[n].key, says[n].value, p)
  IN  fields[Len(says)]

Said(k, v) == [key |-> k, value |-> v, point |-> point]

\* LogRecord's constructor and prepare(), with what the logger captures; the
\* bound fields were made by kv() as well.
Log(caller, event, moment, bindings, capture_thread_id, capture_location) ==
  /\ entry = Null /\ day = moment.day
  /\ entry' = [time |-> moment.time, level |-> caller.level, event |-> event,
               bound |-> IF bindings = <<>> THEN Null ELSE Built(bindings, point),
               fields |-> EmptyFields,
               location |-> IF capture_location THEN caller.location ELSE NoLocation,
               thread_id |-> IF capture_thread_id THEN current_thread_id(caller.thread) ELSE 0]
  /\ said' = [i \in 1..Len(bindings) |-> Said(bindings[i].key, bindings[i].value)]
  /\ UNCHANGED <<day, date, point>>

RecordKv(k, v) ==
  /\ entry # Null
  /\ size(entry.fields) < MaxKv
  /\ entry' = [entry EXCEPT !.fields = kv(@, k, v, point)]
  /\ said' = Append(said, Said(k, v))
  /\ UNCHANGED <<day, date, point>>

\* The entry is formatted and gone.
Submit ==
  /\ entry # Null
  /\ entry' = Null
  /\ said' = <<>>
  /\ UNCHANGED <<day, date, point>>

Next ==
  \/ Calendar
  \/ \E p \in Points : SetLocale(p)
  \/ \E c \in Callers, event \in Events, m \in Moments, b \in Bindings, tid, loc \in BOOLEAN :
       Log(c, event, m, b, tid, loc)
  \/ \E k \in Keys, v \in Values : RecordKv(k, v)
  \/ Submit

Spec == Init /\ [][Next]_vars

-----------------------------------------------------------------------------
(* A reader: strings with their escapes undone, and everything else as it is. *)

Unescaped == [c \in {Quote, Backslash, "n"} |-> IF c = "n" THEN Newline ELSE c]
FromHex == [digits \in {"0001"} |-> Control]

Mark(c) == [mark |-> c]
Str(text) == [str |-> text]

Start == [mode |-> "plain", text |-> <<>>, items |-> <<>>]

ReadChar(r, c) ==
  CASE r.mode = "plain" /\ c = Quote -> [mode |-> "string", text |-> <<>>, items |-> r.items]
    [] r.mode = "plain" /\ c \notin {Quote, Newline, Control} ->
         [r EXCEPT !.items = Append(@, Mark(c))]
    [] r.mode = "string" /\ c = Quote ->
         [mode |-> "plain", text |-> r.text, items |-> Append(r.items, Str(r.text))]
    [] r.mode = "string" /\ c = Backslash -> [r EXCEPT !.mode = "escape"]
    [] r.mode = "string" /\ c \notin {Quote, Backslash, Newline, Control} ->
         [r EXCEPT !.text = Append(@, c)]
    [] r.mode = "escape" /\ c \in DOMAIN Unescaped ->
         [mode |-> "string", text |-> Append(r.text, Unescaped[c]), items |-> r.items]
    [] r.mode = "escape" /\ c = "u" -> [r EXCEPT !.mode = "hex"]
    [] r.mode = "hex" /\ c \in DOMAIN FromHex ->
         [mode |-> "string", text |-> Append(r.text, FromHex[c]), items |-> r.items]
    [] OTHER -> [r EXCEPT !.mode = "error"]

\* Where a reader is that was at r before the line.
Run(r, line) ==
  LET state[n \in 0..Len(line)] ==
        IF n = 0 THEN r ELSE ReadChar(state[n - 1], line[n])
  IN  state[Len(line)]

CanRead(line) == Run(Start, line).mode = "plain"

\* The items of a line, none if it cannot be read.
Read(line) == IF CanRead(line) THEN Run(Start, line).items ELSE <<>>

Marks(text) == [i \in 1..Len(text) |-> Mark(text[i])]

-----------------------------------------------------------------------------
\* What a reader should find for a value: strings as strings, all else native.
Meaning(v) ==
  CASE v.kind = "string" -> <<Str(v.text)>>
    [] v.kind = "nullptr string" -> <<Str(<<>>)>>
    [] v.kind = "raw" -> Read(v.text)
    [] v.kind \in {"integer", "bool"} -> Marks(v.text)
    [] v.kind = "double" /\ v.text \notin {<<"nan">>, <<"inf">>} -> Marks(v.text)
    [] OTHER -> <<Mark("null")>>

Member(name, items) == <<Mark(","), Str(name), Mark(":")>> \o items

\* A double was printed with JSON's decimal point, and what was passed as
\* JSON is, on one line.
Sound(s) ==
  /\ s.value.kind = "double" => s.point = "."
  /\ s.value.kind = "raw" => CanRead(s.value.text)

SoundlySaid == \A i \in 1..Len(said) : Sound(said[i])

Located(e) ==
  IF ~valid(e.location) THEN <<>>
  ELSE Member(<<"file">>, <<Str(e.location.file)>>)
       \o Member(<<"line">>, Marks(Number(e.location.line)))
       \o IF e.location.function = Null THEN <<>>
          ELSE Member(<<"func">>, <<Str(e.location.function)>>)

(* A JSON line reads back, by JSON's rules, as one object with exactly what
   was logged, in the documented order: prefix, bound fields, the record's,
   then the optional members; whatever characters texts and paths have, and
   whatever NaN, null pointers and empty optionals are among the values, as
   long as no double met a locale with another decimal point than JSON's and
   kv_raw() was given JSON (formatters.hpp:39-67, docs/design.md:99-109).   *)
JsonReadsBack ==
  entry # Null /\ SoundlySaid => \A precision \in Precisions :
    Read(JsonFormat(entry, precision)) =
      <<Mark("{"), Str(<<"ts">>), Mark(":"), Str(Time(entry, precision))>>
      \o Member(<<"level">>, <<Str(<<level_name[entry.level + 1]>>)>>)
      \o Member(<<"event">>, <<Str(entry.event)>>)
      \o FlattenSeq([i \in 1..Len(said) |-> Member(said[i].key, Meaning(said[i].value))])
      \o (IF entry.thread_id = 0 THEN <<>>
          ELSE Member(<<"tid">>, Marks(Number(entry.thread_id))))
      \o Located(entry)
      \o <<Mark("}")>>

\* What the text formatter writes as it is has no character to escape, and
\* spans can say where fields are.
Showable(e) ==
  /\ Plain(e.event)
  /\ \A i \in 1..Len(said) : Plain(said[i].key)
  /\ valid(e.location) => Plain(file_name(e.location))
  /\ e.bound # Null => byte_size(e.bound) <= OffsetModulus
  /\ byte_size(e.fields) <= OffsetModulus

(* The text line is one line and reads back too, values with their JSON
   encoding, if the event, the keys and the name of the source file are of
   plain characters, which the formatter does not escape, and the fields of
   no more than 4 GiB: in any combination of options, and under the same
   conditions on values (formatters.hpp:73-76, 97-129).                     *)
TextReadsBack ==
  entry # Null /\ SoundlySaid /\ Showable(entry) =>
    \A opts \in TextOptions :
      Read(TextFormat(entry, opts)) =
        Marks(Time(entry, opts.precision) \o <<" ">> \o Label(entry.level, opts.color) \o <<" ">>
              \o entry.event)
        \o FlattenSeq([i \in 1..Len(said) |->
             Marks(<<" ">> \o said[i].key \o <<"=">>) \o Meaning(said[i].value)])
        \o (IF opts.show_thread_id /\ entry.thread_id # 0
              THEN Marks(<<" ", "tid", "=">> \o Number(entry.thread_id)) ELSE <<>>)
        \o IF opts.show_location /\ valid(entry.location)
             THEN Marks(<<" ", "(">> \o file_name(entry.location) \o <<":">>
                        \o Number(entry.location.line) \o <<")">>)
             ELSE <<>>

(* "Numbers, booleans and null are native JSON values" (README.md:37-38): a
   number is written as JSON writes numbers, whatever the locale.           *)
NumbersAreNative ==
  entry # Null => \A i \in 1..size(entry.fields) :
    LET v == said[Len(said) - size(entry.fields) + i].value
    IN  v.kind = "double" => "," \notin ToSet(value(entry.fields, i))
=============================================================================
