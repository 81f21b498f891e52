------------------------------ MODULE Encoding -----------------------------
(***************************************************************************)
(* How keys and values become JSON (include/clogpp/core.hpp): escape_json,  *)
(* the typed adders of FieldSet, and the kv() overloads that choose between *)
(* them.  A text is a sequence of characters, one string each; characters   *)
(* beyond printable ASCII are named by what they are.                       *)
(***************************************************************************)
EXTENDS FieldSets, SequencesExt

Backslash == "\\"
Newline == "\n"
Control == "0x01"   \* a control character without a short form
HighByte == "0xC3"  \* a byte of a UTF-8 sequence

ShortForm == [c \in {Quote, Backslash, Newline} |-> IF c = Newline THEN "n" ELSE c]
FourDigits == [c \in {Control, HighByte} |-> IF c = Control THEN "0001" ELSE "00c3"]

-----------------------------------------------------------------------------
(* A mistake the code could have had; no specification uses it.              *)

\* char is signed, and so is the comparison: bytes from 0x80 are negative.
BelowSpaceSigned(c) == c \in {Newline, Control, HighByte}

-----------------------------------------------------------------------------
\* static_cast<unsigned char>(c) < 0x20
BelowSpace(c) == c \in {Newline, Control}

Escaped(c) ==
  CASE c \in DOMAIN ShortForm -> <<Backslash, ShortForm[c]>>
    [] c \notin DOMAIN ShortForm /\ BelowSpace(c) -> <<Backslash, "u", FourDigits[c]>>
    [] OTHER -> <<c>>

escape_json(text) == FlattenSeq([i \in 1..Len(text) |-> Escaped(text[i])])

Quoted(text) == <<Quote>> \o escape_json(text) \o <<Quote>>

\* snprintf("%.17g"), with the decimal point of the program's locale.
Printed(text, point) == [i \in 1..Len(text) |-> IF text[i] = "." THEN point ELSE text[i]]

append_double(text, point) ==
  IF text[1] \in {"nan", "inf"} THEN <<"null">> ELSE Printed(text, point)

\* What a value is: its kind and its text.  Integers, booleans and raw JSON
\* are printed as they are.
Encoded(v, point) ==
  CASE v.kind = "string" -> Quoted(v.text)
    [] v.kind = "double" -> append_double(v.text, point)
    [] v.kind \in {"integer", "bool", "raw"} -> v.text

\* add_string, add_bool, add_null, add_integer, add_double, add_raw.
adder(fs, k, val) == add(fs, [key |-> escape_json(k), val |-> val])

\* The overloads: a null const char* is an empty string, an optional without
\* a value is null, one with a value is that value.
kv(fs, k, v, point) ==
  adder(fs, k, CASE v.kind = "nullptr string" -> Quoted(<<>>)
                 [] v.kind \in {"nullptr", "absent"} -> <<"null">>
                 [] OTHER -> Encoded(v, point))
=============================================================================
