----------------------------- MODULE FieldSets -----------------------------
(***************************************************************************)
(* c_log::FieldSet (include/clogpp/core.hpp): fields encoded back to back   *)
(* in one buffer, ,"key":value, with spans that say where each key and      *)
(* value is.  A key and a value are sequences of characters, escaped and    *)
(* encoded; the spans' offsets are cut to the width of uint32_t.            *)
(***************************************************************************)
EXTENDS Integers, Sequences

CONSTANT OffsetModulus  \* 2^32 in the code

ASSUME OffsetAssumption == OffsetModulus \in Nat \ {0}

Quote == "\""
Comma == <<",", Quote>>  \* before a key
Colon == <<Quote, ":">>  \* between a key and its value
Nul == "\\0"             \* what std::string::resize fills with

\* Characters are strings of length one, which the provers are not told.
ASSUME CharactersAssumption == {",", ":", Quote, Nul} \subseteq STRING

FieldSet ==
  [buf   : Seq(STRING),
   spans : Seq([key_off : Nat, key_len : Nat, val_off : Nat, val_len : Nat])]

EmptyFields == [buf |-> <<>>, spans |-> <<>>]

size(fs) == Len(fs.spans)
byte_size(fs) == Len(fs.buf)

-----------------------------------------------------------------------------
\* static_cast<std::uint32_t>
U32(n) == n % OffsetModulus

\* begin(), the value, end().
add(fs, f) ==
  LET key_off == byte_size(fs) + Len(Comma)
      val_off == key_off + Len(f.key) + Len(Colon)
  IN  [buf   |-> fs.buf \o Comma \o f.key \o Colon \o f.val,
       spans |-> Append(fs.spans, [key_off |-> U32(key_off), key_len |-> U32(Len(f.key)),
                                   val_off |-> U32(val_off), val_len |-> U32(Len(f.val))])]

\* A span of a set appended behind base bytes.
Rebased(span, base) ==
  [span EXCEPT !.key_off = U32(@ + base), !.val_off = U32(@ + base)]

append(fs, other) ==
  [buf   |-> fs.buf \o other.buf,
   spans |-> fs.spans \o [i \in 1..size(other) |->
                            Rebased(other.spans[i], U32(byte_size(fs)))]]

\* std::vector::resize and std::string::resize: cut, or fill up.
Resized(s, n, filler) == [i \in 1..n |-> IF i <= Len(s) THEN s[i] ELSE filler]

EmptySpan == [key_off |-> 0, key_len |-> 0, val_off |-> 0, val_len |-> 0]

truncate(fs, fields, bytes) ==
  [buf   |-> Resized(fs.buf, bytes, Nul),
   spans |-> Resized(fs.spans, fields, EmptySpan)]

\* std::string_view::substr clamps the length and throws for the offset.
substr(buf, off, len) ==
  IF off > Len(buf) THEN <<"std::out_of_range">>
  ELSE SubSeq(buf, off + 1, IF off + len < Len(buf) THEN off + len ELSE Len(buf))

key(fs, i) == substr(fs.buf, fs.spans[i].key_off, fs.spans[i].key_len)
value(fs, i) == substr(fs.buf, fs.spans[i].val_off, fs.spans[i].val_len)

-----------------------------------------------------------------------------
(* What a set of fields means: the fields in order, each a key and a value. *)

\* As key() and value() show them, to the text formatter.
Shown(fs) == [i \in 1..size(fs) |-> [key |-> key(fs, i), val |-> value(fs, i)]]

\* The JSON text of a sequence of fields.
Fragment(fields) ==
  LET text[n \in 0..Len(fields)] ==
        IF n = 0 THEN <<>>
        ELSE text[n - 1] \o Comma \o fields[n].key \o Colon \o fields[n].val
  IN  text[Len(fields)]

\* fs says exactly fields, to either formatter.  Sets of 4 GiB and more are
\* beyond what their offsets can say.
Says(fs, fields) ==
  byte_size(fs) <= OffsetModulus => fs.buf = Fragment(fields) /\ Shown(fs) = fields
=============================================================================
