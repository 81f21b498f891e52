-------------------------- MODULE FormattersProofs -------------------------
(***************************************************************************)
(* Theorems about Formatters: a line, of either formatter, reads back as    *)
(* what was logged, whatever texts, keys and values there are.  They rest   *)
(* on one lemma: what is read of two texts, one after the other, is what is *)
(* read of each.                                                           *)
(***************************************************************************)
EXTENDS Formatters, SequenceTheorems, WellFoundedInduction, TLAPS

-----------------------------------------------------------------------------
(* Induction, and functions that it defines.                                *)

LEMMA Least ==
  ASSUME NEW T, T \subseteq Nat, T # {}
  PROVE  \E n \in T : \A m \in T : n <= m
<1>1. PICK n \in T : \A m \in T : <<m, n>> \notin OpToRel(<, Nat)
  BY NatLessThanWellFounded, WFMin
<1>2. n \in Nat /\ \A m \in T : m \in Nat /\ ~(m < n)
  BY <1>1 DEF OpToRel
<1> QED
  BY <1>2

\* A set of numbers that has n + 1 with n, up to L.
LEMMA Counting ==
  ASSUME NEW L \in Nat, NEW T, 0 \in T,
         \A n \in 1..L : n - 1 \in T => n \in T
  PROVE  \A n \in 0..L : n \in T
<1> DEFINE U == {n \in 0..L : n \notin T}
<1> SUFFICES ASSUME U # {} PROVE FALSE
  OBVIOUS
<1>1. U \subseteq Nat
  OBVIOUS
<1>2. \E n \in U : \A m \in U : n <= m
  <2> HIDE DEF U
  <2> QED
    BY <1>1, Least
<1>3. PICK n \in U : \A m \in U : n <= m
  BY <1>2
<1>4. n \in 1..L /\ n - 1 \in 0..L /\ ~(n <= n - 1)
  BY <1>3
<1> QED
  BY <1>3, <1>4

\* A function on 0..n can be defined by where it starts and how it goes on.
Iterated(f, b, n, st) == f[0] = b /\ \A k \in 1..n : f[k] = st[<<f[k - 1], k>>]

LEMMA Iterates ==
  ASSUME NEW S, NEW b \in S, NEW n \in Nat, NEW st \in [S \X (1..n) -> S]
  PROVE  \E f : f \in [0..n -> S] /\ Iterated(f, b, n, st)
<1> USE DEF Iterated
<1> DEFINE Is(f, m) == f \in [0..m -> S] /\ Iterated(f, b, m, st)
           T == {m \in 0..n : \E f : Is(f, m)}
<1>1. 0 \in T
  <2>1. Is([i \in 0..0 |-> b], 0)
    <3>1. 0..0 = {0} /\ 1..0 = {}
      OBVIOUS
    <3> QED
      BY <3>1
  <2>2. 0 \in 0..n
    OBVIOUS
  <2> HIDE DEF Is
  <2> QED
    BY <2>1, <2>2
<1>2. ASSUME NEW m \in 1..n, m - 1 \in T PROVE m \in T
  <2>1. PICK f : Is(f, m - 1)
    BY <1>2
  <2>2. f[m - 1] \in S /\ st[<<f[m - 1], m>>] \in S
    BY <2>1
  <2> DEFINE g == [i \in 0..m |-> IF i = m THEN st[<<f[m - 1], m>>] ELSE f[i]]
  <2>3. /\ \A i \in 0..m - 1 : i \in 0..m /\ i # m /\ g[i] = f[i] /\ f[i] \in S
        /\ g[m] = st[<<f[m - 1], m>>] /\ g[m] \in S
        /\ \A i \in 0..m : i = m \/ i \in 0..m - 1
        /\ DOMAIN g = 0..m
    BY <2>1, <2>2
  <2>4. g \in [0..m -> S]
    BY <2>1, <2>2, <2>3
  <2> HIDE DEF g
  <2>5. ASSUME NEW k \in 1..m PROVE g[k] = st[<<g[k - 1], k>>]
    <3>1. k - 1 \in 0..m - 1 /\ (k = m \/ k \in 1..m - 1)
      OBVIOUS
    <3>2. k \in 1..m - 1 => k \in 0..m - 1
      OBVIOUS
    <3> QED
      BY <2>1, <2>3, <3>1, <3>2
  <2>6. g[0] = b
    BY <2>1, <2>3
  <2>7. m \in 0..n
    OBVIOUS
  <2> QED
    BY <2>4, <2>5, <2>6, <2>7
<1> HIDE DEF T
<1>3. n \in T
  BY <1>1, <1>2, Counting
<1> QED
  BY <1>3 DEF T

-----------------------------------------------------------------------------
(* Sequences.                                                              *)

LEMMA Singleton ==
  ASSUME NEW S, NEW a \in S
  PROVE  <<a>> \in Seq(S) /\ Len(<<a>>) = 1 /\ <<a>>[1] = a
  OBVIOUS

LEMMA Concat ==
  ASSUME NEW S, NEW a \in Seq(S), NEW b \in Seq(S)
  PROVE  a \o b \in Seq(S)
  BY ConcatProperties

\* A sequence that begins with another.
LEMMA AppendLooks ==
  ASSUME NEW S, NEW s \in Seq(S), NEW e \in S
  PROVE  /\ Append(s, e) \in Seq(S) /\ Len(Append(s, e)) = Len(s) + 1 /\ Len(s) \in Nat
         /\ \A i \in 1..Len(s) : Append(s, e)[i] = s[i]
         /\ Append(s, e)[Len(s) + 1] = e
  BY AppendProperties

LEMMA Associative ==
  ASSUME NEW S
  PROVE  \A a, b, c \in Seq(S) : a \o (b \o c) = a \o b \o c
  BY ConcatAssociative, SMTT(30)

LEMMA AppendOfConcat ==
  ASSUME NEW S
  PROVE  \A s, t \in Seq(S), e \in S : s \o Append(t, e) = Append(s \o t, e)
<1>1. \A a, b, c \in Seq(S) : a \o (b \o c) = a \o b \o c
  BY Associative
<1> TAKE s, t \in Seq(S), e \in S
<1>2. PICK st \in Seq(S) : st = s \o t
  BY ConcatProperties
<1>3. \E one \in Seq(S) : one = <<e>>
  BY Singleton
<1>4. PICK one \in Seq(S) : one = <<e>>
  BY <1>3
<1>5. Append(t, e) = t \o one /\ Append(st, e) = st \o one
  BY <1>4, AppendIsConcat
<1>6. s \o (t \o one) = s \o t \o one
  BY <1>1
<1> QED
  BY <1>2, <1>5, <1>6

\* A sequence up to n, and one more.
Upto(s, n) == SubSeq(s, 1, n)

LEMMA UptoIs ==
  ASSUME NEW S, NEW s \in Seq(S)
  PROVE  /\ Upto(s, 0) = <<>>
         /\ Upto(s, Len(s)) = s
         /\ \A n \in 0..Len(s) : Upto(s, n) \in Seq(S) /\ Len(Upto(s, n)) = n
         /\ \A n \in 0..Len(s) : \A i \in 1..n : Upto(s, n)[i] = s[i]
         /\ \A n \in 1..Len(s) : /\ Upto(s, n) = Append(Upto(s, n - 1), s[n])
                                 /\ s[n] \in S
<1>1. Len(s) \in Nat /\ \A i \in 1..Len(s) : s[i] \in S
  BY LenProperties, ElementOfSeq
<1>2. Upto(s, 0) = <<>>
  BY SubSeqEmpty DEF Upto
<1>3. Upto(s, Len(s)) = s
  BY SubSeqFull DEF Upto
<1>4. ASSUME NEW n \in 0..Len(s)
      PROVE  /\ Upto(s, n) \in Seq(S) /\ Len(Upto(s, n)) = n
             /\ \A i \in 1..n : Upto(s, n)[i] = s[i]
  <2>1. \A i \in 1..n : s[i] \in S /\ 1 + i - 1 = i
    BY <1>1
  <2>2. /\ SubSeq(s, 1, n) \in Seq(S)
        /\ Len(SubSeq(s, 1, n)) = IF 1 <= n THEN n - 1 + 1 ELSE 0
        /\ \A i \in 1..(n - 1 + 1) : SubSeq(s, 1, n)[i] = s[1 + i - 1]
    BY <2>1, SubSeqProperties
  <2> QED
    BY <2>1, <2>2 DEF Upto
<1>5. ASSUME NEW n \in 1..Len(s)
      PROVE  Upto(s, n) = Append(Upto(s, n - 1), s[n]) /\ s[n] \in S
  <2>1. 1 \in 1..Len(s) /\ n \in 1..Len(s) /\ n - 1 \in 0..Len(s) /\ s[n] \in S
    BY <1>1
  <2>2. SubSeq(s, 1, n) = SubSeq(s, 1, n - 1) \o <<s[n]>>
    BY <2>1, SubSeqRecursiveSecond
  <2>3. Append(Upto(s, n - 1), s[n]) = Upto(s, n - 1) \o <<s[n]>>
    BY <2>1, <1>4, AppendIsConcat
  <2> QED
    BY <2>1, <2>2, <2>3 DEF Upto
<1> QED
  BY <1>2, <1>3, <1>4, <1>5

-----------------------------------------------------------------------------
(* Characters and what is read of them.                                     *)

Chars == STRING \cup Words
Line == Seq(Chars)

Item == [mark : Chars] \cup [str : Line]
Items == Seq(Item)

Modes == {"plain", "string", "escape", "hex", "error"}
Reader == [mode : Modes, text : Line, items : Items]

LEMMA CharsAre == Chars = STRING /\ Line = Seq(STRING)
  BY WordsAssumption DEF Chars, Line

\* Concatenation associates: lines, and items.
LEMMA Lines ==
  /\ <<>> \in Line
  /\ \A a, b \in Line : a \o b \in Line
  /\ \A a, b, c \in Line : a \o (b \o c) = a \o b \o c
  /\ \A a \in Line : a \o <<>> = a /\ <<>> \o a = a
<1>1. \A a, b, c \in Seq(Chars) : a \o (b \o c) = a \o b \o c
  BY ConcatAssociative, SMTT(30)
<1>2. <<>> \in Seq(Chars) /\ \A a, b \in Seq(Chars) : a \o b \in Seq(Chars)
  BY ConcatProperties
<1>3. \A a \in Seq(Chars) : a \o <<>> = a /\ <<>> \o a = a
  BY ConcatEmptySeq
<1> QED
  BY <1>1, <1>2, <1>3 DEF Line

LEMMA LineRegroup == \A a, b, c \in Line : a \o (b \o c) = a \o b \o c
  BY Lines

\* The same, of a name that the provers know nothing else of.
Cat(a, b) == a \o b

LEMMA CatIs ==
  /\ \A a, b \in Line : Cat(a, b) \in Line
  /\ \A a, b, c \in Line : Cat(a, Cat(b, c)) = Cat(Cat(a, b), c)
  BY Lines DEF Cat

LEMMA ItemLists ==
  /\ <<>> \in Items
  /\ \A x, y \in Items : x \o y \in Items
  /\ \A x, y, z \in Items : x \o (y \o z) = x \o y \o z
  /\ \A x \in Items : x \o <<>> = x /\ <<>> \o x = x
<1>1. \A a, b, c \in Seq(Item) : a \o (b \o c) = a \o b \o c
  BY ConcatAssociative, SMTT(30)
<1>2. <<>> \in Seq(Item) /\ \A a, b \in Seq(Item) : a \o b \in Seq(Item)
  BY ConcatProperties
<1>3. \A a \in Seq(Item) : a \o <<>> = a /\ <<>> \o a = a
  BY ConcatEmptySeq
<1> QED
  BY <1>1, <1>2, <1>3 DEF Items

LEMMA ItemRegroup == \A x, y, z \in Items : x \o (y \o z) = x \o y \o z
  BY ItemLists

LEMMA ItemAppends ==
  /\ \A x \in Items, i \in Item : Append(x, i) \in Items /\ <<i>> \in Items /\ Append(x, i) = x \o <<i>>
  /\ \A x, y \in Items, i \in Item : Append(x \o y, i) = x \o Append(y, i)
<1>1. \A x \in Items, i \in Item : Append(x, i) \in Items /\ <<i>> \in Items
  BY AppendProperties DEF Items
<1>2. \A x \in Items, i \in Item : Append(x, i) = x \o <<i>>
  BY AppendIsConcat DEF Items
<1>3. ASSUME NEW x \in Items, NEW y \in Items, NEW i \in Item
      PROVE  Append(x \o y, i) = x \o Append(y, i)
  <2>1. PICK one \in Items : one = <<i>>
    BY <1>1
  <2>2. x \o y \in Items /\ x \o (y \o one) = x \o y \o one
    BY ItemLists
  <2> QED
    BY <1>2, <2>1, <2>2
<1> QED
  BY <1>1, <1>2, <1>3

LEMMA LineAppends ==
  /\ \A t \in Line, c \in Chars : Append(t, c) \in Line /\ <<c>> \in Line /\ Append(t, c) = t \o <<c>>
  /\ \A s, t \in Line, c \in Chars : s \o Append(t, c) = Append(s \o t, c)
  /\ \A t \in Line : Len(t) \in Nat /\ \A i \in 1..Len(t) : t[i] \in Chars
<1>1. \A t \in Line, c \in Chars : Append(t, c) \in Line /\ <<c>> \in Line
  BY AppendProperties DEF Line
<1>2. \A t \in Line, c \in Chars : Append(t, c) = t \o <<c>>
  BY AppendIsConcat DEF Line
<1>3. \A t \in Line : Len(t) \in Nat /\ \A i \in 1..Len(t) : t[i] \in Chars
  BY LenProperties, ElementOfSeq DEF Line
<1>4. \A s, t \in Line, c \in Chars : s \o Append(t, c) = Append(s \o t, c)
  BY AppendOfConcat DEF Line
<1> QED
  BY <1>1, <1>2, <1>3, <1>4

-----------------------------------------------------------------------------
(* Reading.                                                                *)

\* Distinct characters.
LEMMA Distinct ==
  /\ Quote # Backslash /\ Quote # Newline /\ Quote # Control /\ Quote # "n" /\ Quote # "u"
  /\ Quote # "0001" /\ Quote # HighByte
  /\ Backslash # Newline /\ Backslash # Control /\ Backslash # "n" /\ Backslash # "u"
  /\ Backslash # HighByte /\ Newline # Control /\ Newline # HighByte /\ Control # HighByte
  /\ {Quote, Backslash, Newline, Control, HighByte, "n", "u", "0001", "00c3"} \subseteq Chars
  BY DEF Quote, Backslash, Newline, Control, HighByte, Chars, Words

\* A state of the reader.
At(m, t, i) == [mode |-> m, text |-> t, items |-> i]

LEMMA AtIs ==
  /\ \A m, t, i : At(m, t, i).mode = m /\ At(m, t, i).text = t /\ At(m, t, i).items = i
  /\ \A m \in Modes, t \in Line, i \in Items : At(m, t, i) \in Reader
  /\ \A r \in Reader : r.mode \in Modes /\ r.text \in Line /\ r.items \in Items
  BY DEF At, Reader, Modes

LEMMA ExceptIs ==
  ASSUME NEW r \in Reader
  PROVE  /\ \A x : [r EXCEPT !.mode = x] = At(x, r.text, r.items)
         /\ \A x : [r EXCEPT !.text = x] = At(r.mode, x, r.items)
         /\ \A x : [r EXCEPT !.items = x] = At(r.mode, r.text, x)
<1>1. PICK m, t, i : r = [mode |-> m, text |-> t, items |-> i]
  BY DEF Reader
<1> QED
  BY <1>1 DEF At

\* Its steps, by mode.
LEMMA PlainStep ==
  ASSUME NEW r \in Reader, NEW c \in Chars, r.mode = "plain"
  PROVE  /\ c = Quote => ReadChar(r, c) = At("string", <<>>, r.items)
         /\ c \notin {Quote, Newline, Control} =>
              ReadChar(r, c) = At("plain", r.text, Append(r.items, Mark(c)))
         /\ c \in {Newline, Control} => ReadChar(r, c) = At("error", r.text, r.items)
<1>1. /\ [r EXCEPT !.mode = "error"] = At("error", r.text, r.items)
      /\ [r EXCEPT !.items = Append(r.items, Mark(c))] = At("plain", r.text, Append(r.items, Mark(c)))
  BY ExceptIs, ZenonT(40)
<1> QED
  BY <1>1, Distinct DEF ReadChar, At

LEMMA StringStep ==
  ASSUME NEW r \in Reader, NEW c \in Chars, r.mode = "string"
  PROVE  /\ c = Quote => ReadChar(r, c) = At("plain", r.text, Append(r.items, Str(r.text)))
         /\ c = Backslash => ReadChar(r, c) = At("escape", r.text, r.items)
         /\ c \notin {Quote, Backslash, Newline, Control} =>
              ReadChar(r, c) = At("string", Append(r.text, c), r.items)
         /\ c \in {Newline, Control} => ReadChar(r, c) = At("error", r.text, r.items)
<1>1. /\ [r EXCEPT !.mode = "error"] = At("error", r.text, r.items)
      /\ [r EXCEPT !.mode = "escape"] = At("escape", r.text, r.items)
      /\ [r EXCEPT !.text = Append(r.text, c)] = At("string", Append(r.text, c), r.items)
  BY ExceptIs
<1> QED
  BY <1>1, Distinct DEF ReadChar, At

LEMMA EscapeStep ==
  ASSUME NEW r \in Reader, NEW c \in Chars, r.mode = "escape"
  PROVE  /\ c \in {Quote, Backslash} => ReadChar(r, c) = At("string", Append(r.text, c), r.items)
         /\ c = "n" => ReadChar(r, c) = At("string", Append(r.text, Newline), r.items)
         /\ c = "u" => ReadChar(r, c) = At("hex", r.text, r.items)
         /\ c \notin {Quote, Backslash, "n", "u"} => ReadChar(r, c) = At("error", r.text, r.items)
<1>1. /\ [r EXCEPT !.mode = "error"] = At("error", r.text, r.items)
      /\ [r EXCEPT !.mode = "hex"] = At("hex", r.text, r.items)
  BY ExceptIs
<1>2. /\ DOMAIN Unescaped = {Quote, Backslash, "n"}
      /\ Unescaped[Quote] = Quote /\ Unescaped[Backslash] = Backslash /\ Unescaped["n"] = Newline
  BY Distinct DEF Unescaped
<1> QED
  BY <1>1, <1>2, Distinct DEF ReadChar, At

LEMMA HexStep ==
  ASSUME NEW r \in Reader, NEW c \in Chars, r.mode \in {"hex", "error"}
  PROVE  /\ r.mode = "hex" /\ c = "0001" => ReadChar(r, c) = At("string", Append(r.text, Control), r.items)
         /\ r.mode = "error" \/ c # "0001" => ReadChar(r, c) = At("error", r.text, r.items)
<1>1. [r EXCEPT !.mode = "error"] = At("error", r.text, r.items)
  BY ExceptIs
<1>2. DOMAIN FromHex = {"0001"} /\ FromHex["0001"] = Control
  BY DEF FromHex
<1> QED
  BY <1>1, <1>2 DEF ReadChar, At

LEMMA ReadCharType ==
  ASSUME NEW r \in Reader, NEW c \in Chars
  PROVE  ReadChar(r, c) \in Reader
<1>1. r.mode \in Modes /\ r.text \in Line /\ r.items \in Items
  BY AtIs
<1>2. \A m \in Modes, t \in Line, i \in Items : At(m, t, i) \in Reader
  BY AtIs
<1>3. /\ Append(r.text, c) \in Line /\ Append(r.text, Newline) \in Line
      /\ Append(r.text, Control) \in Line /\ <<>> \in Line
  BY <1>1, LineAppends, Lines, Distinct
<1>4. Mark(c) \in Item /\ Str(r.text) \in Item
  BY <1>1 DEF Mark, Str, Item
<1>5. Append(r.items, Mark(c)) \in Items /\ Append(r.items, Str(r.text)) \in Items
  BY <1>1, <1>4, ItemAppends
<1>6. CASE r.mode = "plain"
  BY <1>1, <1>2, <1>3, <1>5, <1>6, PlainStep DEF Modes
<1>7. CASE r.mode = "string"
  BY <1>1, <1>2, <1>3, <1>5, <1>7, StringStep DEF Modes
<1>8. CASE r.mode = "escape"
  BY <1>1, <1>2, <1>3, <1>5, <1>8, EscapeStep DEF Modes
<1>9. CASE r.mode \in {"hex", "error"}
  BY <1>1, <1>2, <1>3, <1>5, <1>9, HexStep DEF Modes
<1> QED
  BY <1>1, <1>6, <1>7, <1>8, <1>9 DEF Modes

\* A reader of a line is in one state after each character.
States(f, r, line) ==
  /\ f \in [0..Len(line) -> Reader] /\ f[0] = r
  /\ \A k \in 1..Len(line) : f[k] = ReadChar(f[k - 1], line[k])

LEMMA RunIs ==
  ASSUME NEW r \in Reader, NEW line \in Line
  PROVE  \E f : States(f, r, line) /\ Run(r, line) = f[Len(line)]
<1> DEFINE L == Len(line)
           Is(h) == h = [n \in 0..L |-> IF n = 0 THEN r ELSE ReadChar(h[n - 1], line[n])]
           st == [z \in Reader \X (1..L) |-> ReadChar(z[1], line[z[2]])]
<1>1. L \in Nat /\ \A k \in 1..L : line[k] \in Chars
  BY LineAppends
<1> HIDE DEF L
<1>2. /\ st \in [Reader \X (1..L) -> Reader]
      /\ \A s \in Reader, k \in 1..L : st[<<s, k>>] = ReadChar(s, line[k])
  BY <1>1, ReadCharType
<1> HIDE DEF st
<1>3. PICK f : f \in [0..L -> Reader] /\ Iterated(f, r, L, st)
  BY <1>1, <1>2, Iterates
<1>4. f[0] = r /\ \A k \in 1..L : f[k] = ReadChar(f[k - 1], line[k])
  <2>1. \A k \in 1..L : k - 1 \in 0..L
    BY <1>1
  <2> QED
    BY <1>2, <1>3, <2>1 DEF Iterated
<1>5. Is(f)
  <2>1. \A n \in 0..L : f[n] = IF n = 0 THEN r ELSE ReadChar(f[n - 1], line[n])
    <3>1. \A n \in 0..L : n = 0 \/ n \in 1..L
      BY <1>1
    <3> QED
      BY <1>4, <3>1
  <2> QED
    BY <1>3, <2>1
<1> DEFINE g == CHOOSE h : Is(h)
<1>6. Is(g)
  <2> HIDE DEF Is
  <2> QED
    BY <1>5
<1>7. Run(r, line) = g[L]
  BY DEF Run, L
<1> HIDE DEF g
<1>8. g[0] = r /\ \A k \in 1..L : g[k] = ReadChar(g[k - 1], line[k])
  <2>1. 0 \in 0..L /\ \A k \in 1..L : k # 0 /\ k \in 0..L
    BY <1>1
  <2> QED
    BY <1>6, <2>1
<1>9. g \in [0..L -> Reader]
  <2> DEFINE T == {n \in 0..L : g[n] \in Reader}
  <2>1. 0 \in T
    BY <1>1, <1>8
  <2>2. ASSUME NEW n \in 1..L, n - 1 \in T PROVE n \in T
    <3>1. g[n - 1] \in Reader /\ n \in 0..L
      BY <1>1, <2>2
    <3> QED
      BY <1>1, <1>8, <3>1, ReadCharType
  <2>3. \A n \in 0..L : n \in T
    <3> HIDE DEF T
    <3> QED
      BY <1>1, <2>1, <2>2, Counting
  <2>4. DOMAIN g = 0..L /\ \A n \in 0..L : g[n] \in Reader
    BY <1>6, <2>3
  <2>5. g = [n \in 0..L |-> g[n]]
    BY <1>6, <2>4
  <2> QED
    BY <2>4, <2>5
<1> QED
  BY <1>7, <1>8, <1>9 DEF States, L

LEMMA RunAppend ==
  ASSUME NEW r \in Reader
  PROVE  /\ Run(r, <<>>) = r
         /\ \A t \in Line : Run(r, t) \in Reader
         /\ \A t \in Line, c \in Chars : Run(r, Append(t, c)) = ReadChar(Run(r, t), c)
<1>1. Run(r, <<>>) = r
  <2>1. <<>> \in Line /\ Len(<<>>) = 0
    BY Lines
  <2> QED
    BY <2>1, RunIs DEF States
<1>2. ASSUME NEW t \in Line PROVE Run(r, t) \in Reader
  <2>1. Len(t) \in Nat
    BY LineAppends
  <2> QED
    BY <2>1, RunIs DEF States
<1>3. ASSUME NEW t \in Line, NEW c \in Chars
      PROVE  Run(r, Append(t, c)) = ReadChar(Run(r, t), c)
  <2> DEFINE L == Len(t)
  <2>1. PICK u \in Line : u = Append(t, c)
    BY LineAppends
  <2>2. L \in Nat /\ Len(u) = L + 1 /\ u[L + 1] = c /\ \A i \in 1..L : u[i] = t[i]
    BY <2>1, AppendLooks DEF Line
  <2> HIDE DEF L
  <2>3. PICK f : States(f, r, t) /\ Run(r, t) = f[L]
    BY RunIs DEF L
  <2>4. PICK g : States(g, r, u) /\ Run(r, u) = g[L + 1]
    BY <2>2, RunIs
  <2>5. \A n \in 0..L : n \in {k \in 0..L : f[k] = g[k]}
    <3> DEFINE T == {k \in 0..L : f[k] = g[k]}
    <3>1. 0 \in T
      BY <2>2, <2>3, <2>4 DEF States
    <3>2. ASSUME NEW n \in 1..L, n - 1 \in T PROVE n \in T
      <4>1. n \in 0..L /\ f[n - 1] = g[n - 1] /\ n \in 1..L + 1 /\ u[n] = t[n]
        BY <2>2, <3>2
      <4>2. f[n] = ReadChar(f[n - 1], t[n]) /\ g[n] = ReadChar(g[n - 1], u[n])
        BY <2>2, <2>3, <2>4, <4>1 DEF States, L
      <4> QED
        BY <4>1, <4>2
    <3> HIDE DEF T
    <3>3. \A n \in 0..L : n \in T
      BY <2>2, <3>1, <3>2, Counting
    <3> QED
      BY <3>3 DEF T
  <2>6. f[L] = g[L] /\ g[L + 1] = ReadChar(g[L + 1 - 1], u[L + 1]) /\ L + 1 - 1 = L
    BY <2>2, <2>4, <2>5 DEF States
  <2> QED
    BY <2>1, <2>2, <2>3, <2>4, <2>6
<1> QED
  BY <1>1, <1>2, <1>3

LEMMA RunConcat ==
  ASSUME NEW r \in Reader, NEW a \in Line, NEW b \in Line
  PROVE  Run(r, a \o b) = Run(Run(r, a), b)
<1>1. PICK s \in Reader : s = Run(r, a)
  BY RunAppend
<1> DEFINE L == Len(b)
           pre(n) == Upto(b, n)
<1>2. /\ L \in Nat
      /\ pre(0) = <<>> /\ pre(L) = b
      /\ \A n \in 0..L : pre(n) \in Line
      /\ \A n \in 1..L : pre(n) = Append(pre(n - 1), b[n]) /\ b[n] \in Chars
  BY LineAppends, UptoIs DEF Line
<1> HIDE DEF L, pre
<1> DEFINE P(n) == Run(r, a \o pre(n)) = Run(s, pre(n))
           T == {n \in 0..L : P(n)}
<1>3. P(0)
  <2>1. a \o <<>> = a /\ Run(s, <<>>) = s
    BY Lines, RunAppend
  <2> QED
    BY <1>1, <1>2, <2>1
<1>4. ASSUME NEW n \in 1..L, P(n - 1) PROVE P(n)
  <2>1. PICK u \in Line, c \in Chars : u = pre(n - 1) /\ c = b[n]
    BY <1>2
  <2>2. pre(n) = Append(u, c) /\ Run(r, a \o u) = Run(s, u)
    BY <1>2, <1>4, <2>1
  <2>3. PICK au \in Line : au = a \o u
    BY Lines
  <2>4. a \o Append(u, c) = Append(au, c)
    <3>1. PICK one \in Line : one = <<c>>
      BY LineAppends
    <3>2. Append(u, c) = u \o one /\ Append(au, c) = au \o one
      BY <3>1, LineAppends
    <3>3. a \o (u \o one) = a \o u \o one
      BY Lines
    <3> QED
      BY <2>3, <3>2, <3>3
  <2>5. Run(r, Append(au, c)) = ReadChar(Run(r, au), c) /\ Run(s, Append(u, c)) = ReadChar(Run(s, u), c)
    BY RunAppend
  <2> QED
    BY <2>2, <2>3, <2>4, <2>5
<1> HIDE DEF P
<1>5. 0 \in T /\ \A n \in 1..L : n - 1 \in T => n \in T
  BY <1>2, <1>3, <1>4
<1> HIDE DEF T
<1>6. \A n \in 0..L : n \in T
  BY <1>2, <1>5, Counting
<1>7. P(L)
  BY <1>2, <1>6 DEF T
<1> QED
  BY <1>1, <1>2, <1>7 DEF P

(* A reader that has read something before behaves as one that has not.    *)
Alike(r, x, s) ==
  /\ s.mode = r.mode /\ s.items = x \o r.items
  /\ r.mode \in {"string", "escape", "hex"} => s.text = r.text

LEMMA AlikeStep ==
  ASSUME NEW r \in Reader, NEW s \in Reader, NEW x \in Items, NEW c \in Chars, Alike(r, x, s)
  PROVE  Alike(ReadChar(r, c), x, ReadChar(s, c))
<1>1. r.mode \in Modes /\ r.text \in Line /\ r.items \in Items
  BY AtIs
<1>2. Mark(c) \in Item /\ Str(r.text) \in Item
  BY <1>1 DEF Mark, Str, Item
<1>3. s.mode = r.mode /\ s.items = x \o r.items
  BY DEF Alike
<1>4. /\ Append(s.items, Mark(c)) = x \o Append(r.items, Mark(c))
      /\ Append(s.items, Str(r.text)) = x \o Append(r.items, Str(r.text))
  <2>1. PICK y \in Items : y = r.items
    BY <1>1
  <2>2. \A i \in Item : Append(x \o y, i) = x \o Append(y, i)
    BY ItemAppends
  <2> QED
    BY <1>2, <1>3, <2>1, <2>2
<1>5. ASSUME NEW m, NEW t, NEW u, NEW i, m \in {"string", "escape", "hex"} => t = u
      PROVE  Alike(At(m, t, i), x, At(m, u, x \o i))
  <2>1. /\ At(m, t, i).mode = m /\ At(m, t, i).text = t /\ At(m, t, i).items = i
        /\ At(m, u, x \o i).mode = m /\ At(m, u, x \o i).text = u /\ At(m, u, x \o i).items = x \o i
    BY DEF At
  <2> QED
    BY <1>5, <2>1 DEF Alike
<1>6. CASE r.mode = "plain"
  <2>1. CASE c = Quote
    BY <1>3, <1>5, <1>6, <2>1, PlainStep, ZenonT(40)
  <2>2. CASE c \notin {Quote, Newline, Control}
    BY <1>3, <1>4, <1>5, <1>6, <2>2, PlainStep, ZenonT(40)
  <2>3. CASE c \in {Newline, Control}
    BY <1>3, <1>5, <1>6, <2>3, PlainStep
  <2> QED
    BY <2>1, <2>2, <2>3
<1>7. r.mode \in {"string", "escape", "hex"} => s.text = r.text
  BY DEF Alike
<1>8. CASE r.mode = "string"
  BY <1>3, <1>4, <1>5, <1>7, <1>8, StringStep, ZenonT(40)
<1>9. CASE r.mode = "escape"
  BY <1>3, <1>5, <1>7, <1>9, EscapeStep, ZenonT(40)
<1>10. CASE r.mode \in {"hex", "error"}
  BY <1>3, <1>5, <1>7, <1>10, HexStep
<1> QED
  BY <1>1, <1>6, <1>8, <1>9, <1>10 DEF Modes

LEMMA AlikeRun ==
  ASSUME NEW r \in Reader, NEW s \in Reader, NEW x \in Items, NEW b \in Line, Alike(r, x, s)
  PROVE  Alike(Run(r, b), x, Run(s, b))
<1> DEFINE L == Len(b)
           pre(n) == Upto(b, n)
<1>1. /\ L \in Nat
      /\ pre(0) = <<>> /\ pre(L) = b
      /\ \A n \in 0..L : pre(n) \in Line
      /\ \A n \in 1..L : pre(n) = Append(pre(n - 1), b[n]) /\ b[n] \in Chars
  BY LineAppends, UptoIs DEF Line
<1> HIDE DEF L, pre
<1> DEFINE P(n) == Alike(Run(r, pre(n)), x, Run(s, pre(n)))
           T == {n \in 0..L : P(n)}
<1>2. P(0)
  <2>1. Run(r, <<>>) = r /\ Run(s, <<>>) = s
    BY RunAppend
  <2> QED
    BY <1>1, <2>1
<1>3. ASSUME NEW n \in 1..L, P(n - 1) PROVE P(n)
  <2>1. PICK u \in Line, c \in Chars : u = pre(n - 1) /\ c = b[n]
    BY <1>1
  <2>2. pre(n) = Append(u, c) /\ Alike(Run(r, u), x, Run(s, u))
    BY <1>1, <1>3, <2>1
  <2>3. Run(r, u) \in Reader /\ Run(s, u) \in Reader
    BY RunAppend
  <2>4. Alike(ReadChar(Run(r, u), c), x, ReadChar(Run(s, u), c))
    BY <2>2, <2>3, AlikeStep
  <2>5. Run(r, Append(u, c)) = ReadChar(Run(r, u), c) /\ Run(s, Append(u, c)) = ReadChar(Run(s, u), c)
    BY RunAppend
  <2> QED
    BY <2>2, <2>4, <2>5
<1> HIDE DEF P
<1>4. 0 \in T /\ \A n \in 1..L : n - 1 \in T => n \in T
  BY <1>1, <1>2, <1>3
<1> HIDE DEF T
<1>5. \A n \in 0..L : n \in T
  BY <1>1, <1>4, Counting
<1>6. P(L)
  BY <1>1, <1>5 DEF T
<1> QED
  BY <1>1, <1>6 DEF P

-----------------------------------------------------------------------------
(* What a text reads as.                                                    *)

Reads(line, items) ==
  line \in Line /\ items \in Items /\ CanRead(line) /\ Run(Start, line).items = items

LEMMA StartIs ==
  Start \in Reader /\ Start.mode = "plain" /\ Start.text = <<>> /\ Start.items = <<>>
<1>1. Start = At("plain", <<>>, <<>>)
  BY DEF Start, At
<1> QED
  BY <1>1, AtIs, Lines, ItemLists DEF Modes

LEMMA ReadsIs ==
  ASSUME NEW line, NEW items, Reads(line, items)
  PROVE  Read(line) = items
  BY DEF Reads, Read

LEMMA ReadsNothing == Reads(<<>>, <<>>)
  BY StartIs, RunAppend, Lines, ItemLists DEF Reads, CanRead

(* What is read of two texts, one after the other, is what is read of each. *)
LEMMA ReadsConcat ==
  ASSUME NEW a, NEW b, NEW x, NEW y, Reads(a, x), Reads(b, y)
  PROVE  Reads(a \o b, x \o y)
<1>1. a \in Line /\ b \in Line /\ x \in Items /\ y \in Items
  BY DEF Reads
<1>2. a \o b \in Line /\ x \o y \in Items
  BY <1>1, Lines, ItemLists
<1>3. PICK s \in Reader : s = Run(Start, a)
  BY <1>1, StartIs, RunAppend
<1>4. Alike(Start, x, s)
  BY <1>1, <1>3, StartIs, ItemLists DEF Alike, Reads, CanRead
<1>5. Alike(Run(Start, b), x, Run(s, b))
  BY <1>1, <1>4, StartIs, AlikeRun
<1>6. Run(Start, a \o b) = Run(s, b)
  BY <1>1, <1>3, StartIs, RunConcat
<1> QED
  BY <1>1, <1>2, <1>5, <1>6 DEF Alike, Reads, CanRead

\* Texts that read in any case.
LEMMA ReadsThree ==
  ASSUME NEW a, NEW b, NEW c, NEW x, NEW y, NEW z, Reads(a, x), Reads(b, y), Reads(c, z)
  PROVE  Reads(a \o b \o c, x \o y \o z)
<1>1. Reads(a \o b, x \o y)
  BY ReadsConcat
<1> QED
  BY <1>1, ReadsConcat

LEMMA ReadsChar ==
  ASSUME NEW c \in Chars, c \notin {Quote, Newline, Control}
  PROVE  Reads(<<c>>, <<Mark(c)>>)
<1>1. <<c>> \in Line /\ Append(<<>>, c) = <<>> \o <<c>> /\ <<>> \o <<c>> = <<c>>
  BY Lines, LineAppends
<1>2. Run(Start, <<c>>) = ReadChar(Start, c)
  <2>1. Run(Start, Append(<<>>, c)) = ReadChar(Run(Start, <<>>), c) /\ Run(Start, <<>>) = Start
    BY Lines, StartIs, RunAppend
  <2> QED
    BY <1>1, <2>1
<1>3. ReadChar(Start, c) = At("plain", <<>>, Append(<<>>, Mark(c)))
  BY StartIs, PlainStep
<1>4. Mark(c) \in Item
  BY DEF Mark, Item
<1>5. PICK i \in Item : i = Mark(c)
  BY <1>4
<1>6. Append(<<>>, i) = <<>> \o <<i>> /\ <<i>> \in Items /\ <<>> \o <<i>> = <<i>>
  BY ItemLists, ItemAppends
<1> QED
  BY <1>1, <1>2, <1>3, <1>5, <1>6, AtIs DEF Reads, CanRead

-----------------------------------------------------------------------------
(* FlattenSeq(), of sequences of lines and of sequences of items.            *)

Joinable(M) ==
  /\ <<>> \in M
  /\ \A a, b \in M : a \o b \in M
  /\ \A a, b, c \in M : a \o (b \o c) = a \o b \o c
  /\ \A a \in M : a \o <<>> = a /\ <<>> \o a = a

LEMMA BothJoin == Joinable(Line) /\ Joinable(Items)
  BY Lines, ItemLists DEF Joinable

\* What is joined after each part.
Joined(f, q, M) ==
  /\ f \in [0..Len(q) -> M] /\ f[0] = <<>>
  /\ \A k \in 1..Len(q) : f[k] = f[k - 1] \o q[k]

LEMMA FlattenIs ==
  ASSUME NEW M, Joinable(M), NEW q \in Seq(M)
  PROVE  \E f : Joined(f, q, M) /\ FlattenSeq(q) = f[Len(q)]
<1> DEFINE L == Len(q)
           Is(h) == h = [i \in 1..L |-> IF i = 1 THEN q[i] ELSE h[i - 1] \o q[i]]
           st == [z \in M \X (1..L) |-> z[1] \o q[z[2]]]
<1>1. L \in Nat /\ (\A k \in 1..L : q[k] \in M) /\ (L = 0 => q = <<>>)
  BY LenProperties, ElementOfSeq, EmptySeq
<1> HIDE DEF L
<1>2. /\ st \in [M \X (1..L) -> M]
      /\ \A s \in M, k \in 1..L : st[<<s, k>>] = s \o q[k]
  BY <1>1 DEF Joinable
<1> HIDE DEF st
<1>3. <<>> \in M
  BY DEF Joinable
<1>4. PICK f : f \in [0..L -> M] /\ Iterated(f, <<>>, L, st)
  BY <1>1, <1>2, <1>3, Iterates
<1>5. f[0] = <<>> /\ \A k \in 1..L : f[k - 1] \in M /\ f[k] = f[k - 1] \o q[k]
  <2>1. \A k \in 1..L : k - 1 \in 0..L
    BY <1>1
  <2> QED
    BY <1>2, <1>4, <2>1 DEF Iterated
<1>6. CASE L = 0
  <2>1. FlattenSeq(q) = f[L]
    BY <1>1, <1>5, <1>6 DEF FlattenSeq, L
  <2> QED
    BY <1>4, <1>5, <2>1 DEF Joined, L
<1>8. 1 \in 1..L => f[1] = q[1]
  <2>1. SUFFICES ASSUME 1 \in 1..L PROVE f[1] = q[1]
    OBVIOUS
  <2>2. f[1] = f[1 - 1] \o q[1] /\ q[1] \in M
    <3>1. \A k \in 1..L : q[k] \in M /\ f[k] = f[k - 1] \o q[k]
      BY <1>1, <1>5
    <3> QED
      BY <2>1, <3>1, ZenonT(20)
  <2>3. <<>> \o q[1] = q[1]
    BY <2>2 DEF Joinable
  <2>4. f[1 - 1] = <<>>
    <3>1. 1 - 1 = 0
      OBVIOUS
    <3> QED
      BY <1>5, <3>1
  <2> QED
    BY <2>2, <2>3, <2>4
<1>7. CASE L # 0
  <2> DEFINE e == [i \in 1..L |-> f[i]]
             g == CHOOSE h : Is(h)
  <2>1. Is(e)
    <3>1. \A i \in 1..L : e[i] = IF i = 1 THEN q[i] ELSE e[i - 1] \o q[i]
      <4> TAKE i \in 1..L
      <4>1. CASE i = 1
        BY <1>8, <4>1
      <4>2. CASE i # 1
        <5>1. i - 1 \in 1..L
          BY <1>1, <4>2
        <5> QED
          BY <1>5, <4>2, <5>1
      <4> QED
        BY <4>1, <4>2
    <3> QED
      BY <3>1
  <2>2. Is(g)
    <3> HIDE DEF Is, e
    <3> QED
      BY <2>1
  <2>3. FlattenSeq(q) = g[L]
    BY <1>7 DEF FlattenSeq, L
  <2> HIDE DEF g
  <2>4. \A k \in 1..L : g[k] = IF k = 1 THEN q[k] ELSE g[k - 1] \o q[k]
    BY <2>2
  <2> DEFINE T == {k \in 0..L : k # 0 => g[k] = f[k]}
  <2>5. 0 \in T
    BY <1>1
  <2>6. ASSUME NEW k \in 1..L, k - 1 \in T PROVE k \in T
    <3>1. k \in 0..L /\ (k = 1 \/ g[k - 1] = f[k - 1])
      BY <1>1, <2>6
    <3>2. k = 1 => g[k] = q[k] /\ f[k] = q[k]
      BY <1>8, <2>4
    <3>3. k # 1 => g[k] = g[k - 1] \o q[k] /\ f[k] = f[k - 1] \o q[k]
      BY <1>5, <2>4
    <3> QED
      BY <3>1, <3>2, <3>3
  <2> HIDE DEF T
  <2>7. \A k \in 0..L : k \in T
    BY <1>1, <2>5, <2>6, Counting
  <2>8. g[L] = f[L]
    BY <1>1, <1>7, <2>7 DEF T
  <2> QED
    BY <1>4, <1>5, <2>3, <2>8 DEF Joined, L
<1> QED
  BY <1>6, <1>7

LEMMA FlattenType ==
  ASSUME NEW M, Joinable(M), NEW q \in Seq(M)
  PROVE  FlattenSeq(q) \in M
<1>1. PICK f : Joined(f, q, M) /\ FlattenSeq(q) = f[Len(q)]
  BY FlattenIs
<1>2. Len(q) \in 0..Len(q)
  BY LenProperties
<1> QED
  BY <1>1, <1>2 DEF Joined

LEMMA FlattenAppend ==
  ASSUME NEW M, Joinable(M), NEW q \in Seq(M), NEW e \in M
  PROVE  FlattenSeq(Append(q, e)) = FlattenSeq(q) \o e
<1> DEFINE L == Len(q)
<1>1. PICK u \in Seq(M) : u = Append(q, e)
  BY AppendLooks
<1>2. L \in Nat /\ Len(u) = L + 1 /\ u[L + 1] = e /\ \A i \in 1..L : u[i] = q[i]
  BY <1>1, AppendLooks
<1> HIDE DEF L
<1>3. PICK f : Joined(f, q, M) /\ FlattenSeq(q) = f[L]
  BY FlattenIs DEF L
<1>4. PICK g : Joined(g, u, M) /\ FlattenSeq(u) = g[L + 1]
  BY <1>2, FlattenIs
<1> DEFINE T == {k \in 0..L : f[k] = g[k]}
<1>5. 0 \in T
  BY <1>2, <1>3, <1>4 DEF Joined
<1>6. ASSUME NEW n \in 1..L, n - 1 \in T PROVE n \in T
  <2>1. n \in 0..L /\ f[n - 1] = g[n - 1] /\ n \in 1..L + 1 /\ u[n] = q[n]
    BY <1>2, <1>6
  <2>2. f[n] = f[n - 1] \o q[n] /\ g[n] = g[n - 1] \o u[n]
    BY <1>2, <1>3, <1>4, <2>1 DEF Joined, L
  <2> QED
    BY <2>1, <2>2
<1> HIDE DEF T
<1>7. \A n \in 0..L : n \in T
  BY <1>2, <1>5, <1>6, Counting
<1>8. f[L] = g[L]
  BY <1>2, <1>7 DEF T
<1>9. g[L + 1] = g[L] \o u[L + 1]
  <2>1. PICK k \in 1..Len(u) : k = L + 1 /\ k - 1 = L
    BY <1>2
  <2>2. g[k] = g[k - 1] \o u[k]
    BY <1>4 DEF Joined
  <2> QED
    BY <2>1, <2>2
<1> QED
  BY <1>1, <1>2, <1>3, <1>4, <1>8, <1>9

\* Two sequences in a row.
LEMMA FlattenConcat ==
  ASSUME NEW M, Joinable(M), NEW q \in Seq(M), NEW r \in Seq(M)
  PROVE  FlattenSeq(q \o r) = FlattenSeq(q) \o FlattenSeq(r)
<1> DEFINE L == Len(r)
           pre(n) == Upto(r, n)
<1>1. /\ L \in Nat
      /\ pre(0) = <<>> /\ pre(L) = r
      /\ \A n \in 0..L : pre(n) \in Seq(M)
      /\ \A n \in 1..L : pre(n) = Append(pre(n - 1), r[n]) /\ r[n] \in M
  BY LenProperties, UptoIs
<1> HIDE DEF L, pre
<1> DEFINE P(n) == FlattenSeq(q \o pre(n)) = FlattenSeq(q) \o FlattenSeq(pre(n))
           T == {n \in 0..L : P(n)}
<1>2. P(0)
  <2>1. q \o <<>> = q
    BY ConcatEmptySeq
  <2>2. FlattenSeq(<<>>) = <<>>
    BY DEF FlattenSeq
  <2>3. FlattenSeq(q) \o <<>> = FlattenSeq(q)
    BY FlattenType DEF Joinable
  <2> QED
    BY <1>1, <2>1, <2>2, <2>3
<1>3. ASSUME NEW n \in 1..L, P(n - 1) PROVE P(n)
  <2>1. PICK u \in Seq(M), e \in M : u = pre(n - 1) /\ e = r[n]
    <3>1. n - 1 \in 0..L
      BY <1>1
    <3> QED
      BY <1>1, <3>1
  <2>2. pre(n) = Append(u, e) /\ FlattenSeq(q \o u) = FlattenSeq(q) \o FlattenSeq(u)
    BY <1>1, <1>3, <2>1
  <2>3. PICK qu \in Seq(M) : qu = q \o u
    BY ConcatProperties
  <2>4. q \o Append(u, e) = Append(qu, e)
    BY <2>3, AppendOfConcat
  <2>5. FlattenSeq(Append(qu, e)) = FlattenSeq(qu) \o e /\ FlattenSeq(Append(u, e)) = FlattenSeq(u) \o e
    BY FlattenAppend
  <2>6. PICK a \in M, b \in M : a = FlattenSeq(q) /\ b = FlattenSeq(u)
    BY FlattenType
  <2>7. a \o b \o e = a \o (b \o e)
    BY DEF Joinable
  <2> QED
    BY <2>2, <2>3, <2>4, <2>5, <2>6, <2>7
<1> HIDE DEF P
<1>4. 0 \in T /\ \A n \in 1..L : n - 1 \in T => n \in T
  BY <1>1, <1>2, <1>3
<1> HIDE DEF T
<1>5. \A n \in 0..L : n \in T
  BY <1>1, <1>4, Counting
<1>6. P(L)
  BY <1>1, <1>5 DEF T
<1> QED
  BY <1>1, <1>6 DEF P

\* Sequences of one element each.
LEMMA FlattenSingles ==
  ASSUME NEW S, Joinable(Seq(S)), NEW s \in Seq(S), NEW q \in Seq(Seq(S)), Len(q) = Len(s),
         \A i \in 1..Len(s) : q[i] = <<s[i]>>
  PROVE  FlattenSeq(q) = s
<1> DEFINE pre(n) == Upto(s, n)
<1>1. PICK L \in Nat : L = Len(s) /\ L = Len(q)
  BY LenProperties
<1>2. /\ pre(0) = <<>> /\ pre(L) = s
      /\ \A n \in 0..L : pre(n) \in Seq(S)
      /\ \A n \in 1..L : pre(n) = Append(pre(n - 1), s[n]) /\ s[n] \in S
  BY <1>1, UptoIs
<1> HIDE DEF pre
<1>3. PICK f : Joined(f, q, Seq(S)) /\ FlattenSeq(q) = f[L]
  BY <1>1, FlattenIs
<1> DEFINE T == {n \in 0..L : f[n] = pre(n)}
<1>4. 0 \in T
  BY <1>2, <1>3 DEF Joined
<1>5. ASSUME NEW n \in 1..L, n - 1 \in T PROVE n \in T
  <2>1. PICK u \in Seq(S), c \in S : u = pre(n - 1) /\ c = s[n] /\ n \in 0..L
    <3>1. n - 1 \in 0..L /\ n \in 0..L
      OBVIOUS
    <3>2. pre(n - 1) \in Seq(S) /\ s[n] \in S
      BY <1>2, <3>1
    <3> QED
      BY <3>1, <3>2
  <2>2. f[n] = u \o <<c>> /\ pre(n) = Append(u, c)
    BY <1>1, <1>2, <1>3, <1>5, <2>1 DEF Joined
  <2> QED
    BY <2>1, <2>2, AppendIsConcat
<1> HIDE DEF T
<1>6. \A n \in 0..L : n \in T
  BY <1>4, <1>5, Counting
<1> QED
  BY <1>2, <1>3, <1>6 DEF T

(* Joined texts read as what each of them reads as.                         *)
LEMMA FlattenReads ==
  ASSUME NEW q \in Seq(Line), NEW x \in Seq(Items), Len(q) = Len(x),
         \A i \in 1..Len(q) : Reads(q[i], x[i])
  PROVE  Reads(FlattenSeq(q), FlattenSeq(x))
<1>1. PICK n \in Nat : n = Len(q) /\ n = Len(x)
  BY LenProperties
<1>2. PICK f : Joined(f, q, Line) /\ FlattenSeq(q) = f[n]
  BY <1>1, BothJoin, FlattenIs
<1>3. PICK g : Joined(g, x, Items) /\ FlattenSeq(x) = g[n]
  BY <1>1, BothJoin, FlattenIs
<1> DEFINE T == {k \in 0..n : Reads(f[k], g[k])}
<1>4. 0 \in T
  <2>1. f[0] = <<>> /\ g[0] = <<>>
    BY <1>2, <1>3 DEF Joined
  <2> QED
    BY <2>1, ReadsNothing
<1>5. ASSUME NEW k \in 1..n, k - 1 \in T PROVE k \in T
  <2>1. k \in 0..n /\ Reads(f[k - 1], g[k - 1])
    BY <1>5
  <2>2. f[k] = f[k - 1] \o q[k] /\ g[k] = g[k - 1] \o x[k] /\ Reads(q[k], x[k])
    BY <1>1, <1>2, <1>3 DEF Joined
  <2>3. \A a, b, y, z : Reads(a, y) /\ Reads(b, z) => Reads(a \o b, y \o z)
    BY ReadsConcat
  <2> QED
    BY <2>1, <2>2, <2>3
<1> HIDE DEF T
<1>6. \A k \in 0..n : k \in T
  BY <1>4, <1>5, Counting
<1>7. Reads(f[n], g[n])
  BY <1>6 DEF T
<1> QED
  BY <1>2, <1>3, <1>7

-----------------------------------------------------------------------------
(* Escaping.                                                               *)

\* Texts of few characters.
LEMMA Few ==
  /\ \A c \in Chars : <<c>> \in Line /\ <<c>> = Append(<<>>, c)
  /\ \A c, d \in Chars : <<c, d>> \in Line /\ <<c, d>> = Append(<<c>>, d)
  /\ \A c, d, e \in Chars : <<c, d, e>> \in Line /\ <<c, d, e>> = Append(<<c, d>>, e)
<1>1. \A c \in Chars : <<c>> \in Seq(Chars) /\ <<c>> = Append(<<>>, c)
  OBVIOUS
<1>2. \A c, d \in Chars : <<c, d>> \in Seq(Chars) /\ <<c, d>> = Append(<<c>>, d)
  OBVIOUS
<1>3. \A c, d, e \in Chars : <<c, d, e>> \in Seq(Chars) /\ <<c, d, e>> = Append(<<c, d>>, e)
  OBVIOUS
<1> QED
  BY <1>1, <1>2, <1>3 DEF Line

LEMMA RunFew ==
  ASSUME NEW s \in Reader
  PROVE  /\ \A c \in Chars : Run(s, <<c>>) = ReadChar(s, c)
         /\ \A c, d \in Chars : Run(s, <<c, d>>) = ReadChar(ReadChar(s, c), d)
         /\ \A c, d, e \in Chars : Run(s, <<c, d, e>>) = ReadChar(ReadChar(ReadChar(s, c), d), e)
<1> SUFFICES ASSUME NEW c \in Chars, NEW d \in Chars, NEW e \in Chars
             PROVE  /\ Run(s, <<c>>) = ReadChar(s, c)
                    /\ Run(s, <<c, d>>) = ReadChar(ReadChar(s, c), d)
                    /\ Run(s, <<c, d, e>>) = ReadChar(ReadChar(ReadChar(s, c), d), e)
  BY ZenonT(40)
<1>1. \A t \in Line, k \in Chars : Run(s, Append(t, k)) = ReadChar(Run(s, t), k)
  BY RunAppend
<1>2. Run(s, <<>>) = s /\ <<>> \in Line
  BY RunAppend, Lines
<1>3. /\ <<c>> \in Line /\ <<c>> = Append(<<>>, c)
      /\ <<c, d>> \in Line /\ <<c, d>> = Append(<<c>>, d)
      /\ <<c, d, e>> = Append(<<c, d>>, e)
  BY Few
<1>4. Run(s, Append(<<>>, c)) = ReadChar(Run(s, <<>>), c)
  BY <1>1, <1>2
<1>5. Run(s, Append(<<c>>, d)) = ReadChar(Run(s, <<c>>), d)
  BY <1>1, <1>3
<1>6. Run(s, Append(<<c, d>>, e)) = ReadChar(Run(s, <<c, d>>), e)
  BY <1>1, <1>3
<1> QED
  BY <1>2, <1>3, <1>4, <1>5, <1>6

\* What is written for a character is read as that character.
LEMMA EscapedReads ==
  ASSUME NEW s \in Reader, s.mode = "string", NEW c \in Chars
  PROVE  /\ Escaped(c) \in Line
         /\ Run(s, Escaped(c)) = At("string", Append(s.text, c), s.items)
         /\ c \notin {Quote, Backslash, Newline, Control} => Escaped(c) = <<c>>
<1>1. s.text \in Line /\ s.items \in Items
  BY AtIs
<1>2. PICK b \in Reader : /\ b = At("escape", s.text, s.items) /\ ReadChar(s, Backslash) = b
                          /\ b.mode = "escape" /\ b.text = s.text /\ b.items = s.items
  <2>1. At("escape", s.text, s.items) \in Reader
    BY <1>1, AtIs DEF Modes
  <2> QED
    BY <2>1, Distinct, StringStep, AtIs
<1>3. /\ DOMAIN ShortForm = {Quote, Backslash, Newline}
      /\ ShortForm[Quote] = Quote /\ ShortForm[Backslash] = Backslash /\ ShortForm[Newline] = "n"
      /\ FourDigits[Control] = "0001"
  BY Distinct DEF ShortForm, FourDigits
<1>4. CASE c \in {Quote, Backslash}
  <2>1. Escaped(c) = <<Backslash, c>>
    BY <1>3, <1>4 DEF Escaped
  <2>2. ReadChar(b, c) = At("string", Append(s.text, c), s.items)
    BY <1>2, <1>4, EscapeStep
  <2>3. Run(s, <<Backslash, c>>) = ReadChar(ReadChar(s, Backslash), c) /\ <<Backslash, c>> \in Line
    <3>1. PICK d \in Chars : d = Backslash
      BY Distinct
    <3>2. Run(s, <<d, c>>) = ReadChar(ReadChar(s, d), c)
      BY RunFew
    <3>3. <<d, c>> \in Line
      BY Few
    <3> QED
      BY <3>1, <3>2, <3>3
  <2> QED
    BY <1>2, <1>4, <2>1, <2>2, <2>3
<1>5. CASE c = Newline
  <2>1. Escaped(c) = <<Backslash, "n">>
    BY <1>3, <1>5 DEF Escaped
  <2>2. ReadChar(b, "n") = At("string", Append(s.text, c), s.items)
    BY <1>2, <1>5, EscapeStep, Distinct
  <2>3. Run(s, <<Backslash, "n">>) = ReadChar(ReadChar(s, Backslash), "n") /\ <<Backslash, "n">> \in Line
    <3>1. PICK d \in Chars, e \in Chars : d = Backslash /\ e = "n"
      BY Distinct
    <3>2. Run(s, <<d, e>>) = ReadChar(ReadChar(s, d), e)
      BY RunFew
    <3>3. <<d, e>> \in Line
      BY Few
    <3> QED
      BY <3>1, <3>2, <3>3
  <2> QED
    BY <1>2, <1>5, <2>1, <2>2, <2>3
<1>6. CASE c = Control
  <2>1. Escaped(c) = <<Backslash, "u", "0001">>
    BY <1>3, <1>6, Distinct DEF Escaped, BelowSpace
  <2>2. PICK h \in Reader : /\ h = At("hex", s.text, s.items) /\ ReadChar(b, "u") = h
                            /\ h.mode = "hex" /\ h.text = s.text /\ h.items = s.items
    <3>1. At("hex", s.text, s.items) \in Reader
      BY <1>1, AtIs DEF Modes
    <3> QED
      BY <1>2, <3>1, Distinct, EscapeStep, AtIs
  <2>3. ReadChar(h, "0001") = At("string", Append(s.text, c), s.items)
    BY <1>6, <2>2, HexStep, Distinct
  <2>4. /\ <<Backslash, "u", "0001">> \in Line
        /\ Run(s, <<Backslash, "u", "0001">>) = ReadChar(ReadChar(ReadChar(s, Backslash), "u"), "0001")
    <3>1. PICK d \in Chars, e \in Chars, g \in Chars : d = Backslash /\ e = "u" /\ g = "0001"
      BY Distinct
    <3>2. Run(s, <<d, e, g>>) = ReadChar(ReadChar(ReadChar(s, d), e), g)
      BY RunFew
    <3>3. <<d, e, g>> \in Line
      BY Few
    <3> QED
      BY <3>1, <3>2, <3>3
  <2> QED
    BY <1>2, <1>6, <2>1, <2>2, <2>3, <2>4
<1>7. CASE c \notin {Quote, Backslash, Newline, Control}
  <2>1. Escaped(c) = <<c>>
    BY <1>3, <1>7 DEF Escaped, BelowSpace
  <2>2. ReadChar(s, c) = At("string", Append(s.text, c), s.items)
    BY <1>7, StringStep
  <2> QED
    BY <2>1, <2>2, Few, RunFew
<1> QED
  BY <1>4, <1>5, <1>6, <1>7

LEMMA EscapeIs ==
  ASSUME NEW text \in Line
  PROVE  /\ escape_json(text) \in Line
         /\ Plain(text) => escape_json(text) = text
         /\ \A s \in Reader : s.mode = "string" =>
              Run(s, escape_json(text)) = At("string", s.text \o text, s.items)
<1> DEFINE q == [i \in 1..Len(text) |-> Escaped(text[i])]
           pre(n) == Upto(text, n)
<1>1. PICK L \in Nat : L = Len(text)
  BY LineAppends
<1>2. /\ pre(0) = <<>> /\ pre(L) = text
      /\ \A n \in 0..L : pre(n) \in Line
      /\ \A n \in 1..L : pre(n) = Append(pre(n - 1), text[n]) /\ text[n] \in Chars
  BY <1>1, UptoIs DEF Line
<1> HIDE DEF pre
<1>3. \A c \in Chars : /\ Escaped(c) \in Line
                       /\ c \notin {Quote, Backslash, Newline, Control} => Escaped(c) = <<c>>
  <2>1. At("string", <<>>, <<>>) \in Reader /\ At("string", <<>>, <<>>).mode = "string"
    BY AtIs, Lines, ItemLists DEF Modes
  <2> QED
    BY <2>1, EscapedReads
<1>4. q \in Seq(Line) /\ Len(q) = L /\ \A k \in 1..L : q[k] = Escaped(text[k])
  BY <1>1, <1>2, <1>3
<1>5. escape_json(text) = FlattenSeq(q)
  BY DEF escape_json
<1> HIDE DEF q
<1>6. escape_json(text) \in Line
  BY <1>4, <1>5, BothJoin, FlattenType
<1>7. PICK f : Joined(f, q, Line) /\ FlattenSeq(q) = f[L]
  BY <1>4, BothJoin, FlattenIs
<1>8. /\ f[0] = <<>>
      /\ \A n \in 1..L : /\ f[n] = f[n - 1] \o Escaped(text[n]) /\ f[n - 1] \in Line
                         /\ pre(n) = Append(pre(n - 1), text[n]) /\ pre(n - 1) \in Line
                         /\ text[n] \in Chars
  <2>1. \A n \in 1..L : n - 1 \in 0..L
    OBVIOUS
  <2> QED
    BY <1>2, <1>4, <1>7, <2>1 DEF Joined
<1>9. ASSUME Plain(text) PROVE f[L] = text
  <2> DEFINE T == {n \in 0..L : f[n] = pre(n)}
  <2>1. 0 \in T
    BY <1>2, <1>8
  <2>2. ASSUME NEW n \in 1..L, n - 1 \in T PROVE n \in T
    <3>1. text[n] \notin {Quote, Backslash, Newline, Control}
      BY <1>1, <1>9 DEF Plain
    <3>2. PICK u \in Line, c \in Chars : u = pre(n - 1) /\ c = text[n]
      BY <1>8
    <3>3. Escaped(c) = <<c>>
      BY <1>3, <3>1, <3>2
    <3>4. f[n] = u \o Escaped(c) /\ pre(n) = Append(u, c) /\ n \in 0..L
      <4>1. f[n - 1] = pre(n - 1) /\ n \in 0..L
        BY <2>2
      <4> QED
        BY <1>8, <3>2, <4>1
    <3> QED
      BY <3>3, <3>4, LineAppends, ZenonT(40)
  <2> HIDE DEF T
  <2>3. \A n \in 0..L : n \in T
    BY <2>1, <2>2, Counting
  <2> QED
    BY <1>2, <2>3 DEF T
<1>10. ASSUME NEW s \in Reader, s.mode = "string"
       PROVE  Run(s, f[L]) = At("string", s.text \o text, s.items)
  <2> DEFINE P(n) == Run(s, f[n]) = At("string", s.text \o pre(n), s.items)
             T == {n \in 0..L : P(n)}
  <2>1. s.text \in Line /\ s.items \in Items
    BY AtIs
  <2>2. P(0)
    <3>1. s = At(s.mode, s.text, s.items)
      BY DEF Reader, At
    <3>2. s.text \o <<>> = s.text /\ Run(s, <<>>) = s
      BY <2>1, Lines, RunAppend
    <3> QED
      BY <1>2, <1>8, <1>10, <3>1, <3>2
  <2>3. ASSUME NEW n \in 1..L, P(n - 1) PROVE P(n)
    <3>1. PICK u \in Line, c \in Chars, v \in Line : u = pre(n - 1) /\ c = text[n] /\ v = f[n - 1]
      BY <1>8
    <3>2. PICK w \in Line : w = s.text \o u
      BY <2>1, Lines
    <3>3. PICK r \in Reader : r = At("string", w, s.items) /\ r.mode = "string" /\ r.text = w /\ r.items = s.items
      BY <2>1, AtIs DEF Modes
    <3>4. Run(s, v) = r
      BY <2>3, <3>1, <3>2, <3>3
    <3>5. Run(s, v \o Escaped(c)) = Run(r, Escaped(c))
      BY <1>3, <3>4, RunConcat
    <3>6. Run(r, Escaped(c)) = At("string", Append(w, c), s.items)
      BY <3>3, EscapedReads
    <3>7. s.text \o Append(u, c) = Append(w, c)
      BY <2>1, <3>2, LineAppends
    <3> QED
      BY <1>8, <3>1, <3>5, <3>6, <3>7
  <2> HIDE DEF P
  <2>4. 0 \in T /\ \A n \in 1..L : n - 1 \in T => n \in T
    BY <2>2, <2>3
  <2> HIDE DEF T
  <2>5. \A n \in 0..L : n \in T
    BY <2>4, Counting
  <2>6. P(L)
    BY <2>5 DEF T
  <2> QED
    BY <1>2, <2>6 DEF P
<1> QED
  BY <1>5, <1>6, <1>7, <1>9, <1>10

(* A string reads as its text, whatever characters are in it.               *)
LEMMA QuotedReads ==
  ASSUME NEW text \in Line
  PROVE  Reads(Quoted(text), <<Str(text)>>)
<1>1. PICK q \in Line, e \in Line : q = <<Quote>> /\ e = escape_json(text)
  BY Few, Distinct, EscapeIs
<1>2. PICK s \in Reader : /\ s = At("string", <<>>, <<>>)
                          /\ s.mode = "string" /\ s.text = <<>> /\ s.items = <<>>
  BY AtIs, Lines, ItemLists DEF Modes
<1>3. Run(Start, q) = s
  BY <1>1, <1>2, StartIs, RunFew, Distinct, PlainStep
<1>4. PICK t \in Reader : t = At("string", text, <<>>) /\ t.mode = "string" /\ t.text = text /\ t.items = <<>>
  BY AtIs, ItemLists DEF Modes
<1>5. Run(s, e) = t
  <2>1. <<>> \o text = text
    BY Lines
  <2>2. Run(s, escape_json(text)) = At("string", s.text \o text, s.items)
    BY <1>2, EscapeIs
  <2> QED
    BY <1>1, <1>2, <1>4, <2>1, <2>2
<1>6. PICK i \in Item : i = Str(text)
  BY DEF Str, Item
<1>7. <<i>> \in Items /\ Append(<<>>, i) = <<i>>
  <2>1. Append(<<>>, i) = <<>> \o <<i>> /\ <<i>> \in Items /\ <<>> \o <<i>> = <<i>>
    BY ItemLists, ItemAppends
  <2> QED
    BY <2>1
<1>8. Run(t, q) = At("plain", text, <<i>>)
  <2>1. Run(t, <<Quote>>) = ReadChar(t, Quote)
    BY RunFew, Distinct
  <2>2. ReadChar(t, Quote) = At("plain", t.text, Append(t.items, Str(t.text)))
    BY <1>4, Distinct, StringStep
  <2> QED
    BY <1>1, <1>4, <1>6, <1>7, <2>1, <2>2
<1>9. PICK qe \in Line : qe = q \o e
  BY Lines
<1>10. Run(Start, qe) = t
  BY <1>3, <1>5, <1>9, StartIs, RunConcat
<1>11. Run(Start, qe \o q) = At("plain", text, <<i>>)
  BY <1>8, <1>10, StartIs, RunConcat
<1>12. Quoted(text) = qe \o q
  BY <1>1, <1>9 DEF Quoted
<1>13. qe \o q \in Line
  BY Lines
<1> QED
  BY <1>6, <1>7, <1>11, <1>12, <1>13, AtIs DEF Reads, CanRead

\* A plain text reads as itself.
LEMMA PlainReads ==
  ASSUME NEW text \in Line, Plain(text)
  PROVE  Reads(text, Marks(text))
<1> DEFINE q == [i \in 1..Len(text) |-> <<text[i]>>]
           x == [i \in 1..Len(text) |-> <<Mark(text[i])>>]
<1>1. PICK L \in Nat : L = Len(text) /\ \A i \in 1..L : text[i] \in Chars
  BY LineAppends
<1>2. \A i \in 1..L : Reads(<<text[i]>>, <<Mark(text[i])>>)
  BY <1>1, ReadsChar DEF Plain
<1>3. q \in Seq(Line) /\ Len(q) = L /\ x \in Seq(Items) /\ Len(x) = L
  <2>1. q \in [1..L -> Line] /\ x \in [1..L -> Items]
    BY <1>1, <1>2 DEF Reads
  <2> QED
    BY <2>1
<1>4. \A i \in 1..L : q[i] = <<text[i]>> /\ x[i] = <<Mark(text[i])>> /\ Reads(q[i], x[i])
  BY <1>1, <1>2
<1> HIDE DEF q, x
<1>5. Reads(FlattenSeq(q), FlattenSeq(x))
  BY <1>3, <1>4, FlattenReads
<1>6. FlattenSeq(q) = text
  <2>1. Len(text) \in Nat
    BY <1>1
  <2>2. text \in Seq(Chars)
    BY DEF Line
  <2> QED
    BY <1>1, <1>3, <1>4, <2>2, FlattenSingles, BothJoin DEF Line
<1>7. FlattenSeq(x) = Marks(text)
  <2>1. Marks(text) \in Seq(Item) /\ Len(Marks(text)) = L /\ \A i \in 1..L : x[i] = <<Marks(text)[i]>>
    BY <1>1, <1>4 DEF Marks, Mark, Item
  <2> QED
    BY <1>3, <2>1, FlattenSingles, BothJoin DEF Items
<1> QED
  BY <1>5, <1>6, <1>7

-----------------------------------------------------------------------------
(* Values and members.                                                      *)

\* What a kv() call is made with, and the decimal point at the time.
Saying == {s \in [key : Line, value : [kind : Kinds, text : Line], point : Chars] : Printable(s.value)}

\* The text that kv() adds for a value.
ValueText(s) ==
  CASE s.value.kind = "nullptr string" -> Quoted(<<>>)
    [] s.value.kind \in {"nullptr", "absent"} -> <<"null">>
    [] OTHER -> Encoded(s.value, s.point)

LEMMA SayingIs ==
  ASSUME NEW s \in Saying
  PROVE  /\ s.key \in Line /\ s.value.kind \in Kinds /\ s.value.text \in Line /\ s.point \in Chars
         /\ Printable(s.value)
  BY DEF Saying

LEMMA NullReads == Reads(<<"null">>, <<Mark("null")>>)
<1>1. "null" \in Chars
  BY DEF Chars, Words
<1>2. PICK c \in Chars : c = "null" /\ c \notin {Quote, Newline, Control}
  BY <1>1 DEF Quote, Newline, Control
<1> QED
  BY <1>2, ReadsChar

LEMMA DoubleReads ==
  ASSUME NEW s \in Saying, s.value.kind = "double"
  PROVE  /\ ValueText(s) \in Line
         /\ Meaning(s.value) \in Items
         /\ Sound(s) => Reads(ValueText(s), Meaning(s.value))
<1>1. PICK text \in Line : text = s.value.text
  BY SayingIs
<1>2. /\ Plain(text) /\ text # <<>> /\ (text[1] \in {"nan", "inf"} => Len(text) = 1)
  BY <1>1, SayingIs DEF Printable
<1>3. Len(text) \in Nat /\ \A i \in 1..Len(text) : text[i] \in Chars
  BY LineAppends
<1>4. ValueText(s) = append_double(text, s.point)
  BY <1>1 DEF ValueText, Encoded
<1>5. Reads(text, Marks(text))
  BY <1>2, PlainReads
<1>6. CASE text[1] \in {"nan", "inf"}
  <2>1. text = <<text[1]>>
    BY <1>2, <1>3, <1>6 DEF Line
  <2>2. text \in {<<"nan">>, <<"inf">>}
    BY <1>6, <2>1
  <2>3. ValueText(s) = <<"null">>
    BY <1>4, <1>6 DEF append_double
  <2>4. Meaning(s.value) = <<Mark("null")>>
    BY <1>1, <2>2 DEF Meaning
  <2> QED
    BY <2>3, <2>4, NullReads DEF Reads
<1>7. CASE text[1] \notin {"nan", "inf"}
  <2>1. text \notin {<<"nan">>, <<"inf">>}
    BY <1>7
  <2>2. Meaning(s.value) = Marks(text)
    BY <1>1, <2>1 DEF Meaning
  <2>3. ValueText(s) = Printed(text, s.point)
    BY <1>4, <1>7 DEF append_double
  <2>4. Printed(text, s.point) \in Line
    BY <1>3, SayingIs DEF Printed, Line
  <2>5. s.point = "." => Printed(text, s.point) = text
    <3>1. SUFFICES ASSUME s.point = "." PROVE Printed(text, s.point) = text
      OBVIOUS
    <3>2. \A i \in 1..Len(text) : (IF text[i] = "." THEN s.point ELSE text[i]) = text[i]
      BY <3>1
    <3>3. text = [i \in 1..Len(text) |-> text[i]]
      BY DEF Line
    <3> QED
      BY <3>2, <3>3 DEF Printed
  <2>6. Sound(s) => s.point = "."
    BY DEF Sound
  <2> QED
    BY <1>5, <2>2, <2>3, <2>4, <2>5, <2>6 DEF Reads
<1> QED
  BY <1>6, <1>7

(* A value reads as what it means.                                          *)
LEMMA ValueReads ==
  ASSUME NEW s \in Saying
  PROVE  /\ ValueText(s) \in Line
         /\ Meaning(s.value) \in Items
         /\ Sound(s) => Reads(ValueText(s), Meaning(s.value))
<1>1. PICK text \in Line : text = s.value.text
  BY SayingIs
<1>2. s.value.kind \in Kinds
  BY SayingIs
<1>3. CASE s.value.kind = "string"
  <2>1. ValueText(s) = Quoted(text) /\ Meaning(s.value) = <<Str(text)>>
    BY <1>1, <1>3 DEF ValueText, Encoded, Meaning
  <2> QED
    BY <2>1, QuotedReads DEF Reads
<1>4. CASE s.value.kind = "nullptr string"
  <2>1. ValueText(s) = Quoted(<<>>) /\ Meaning(s.value) = <<Str(<<>>)>>
    BY <1>4 DEF ValueText, Meaning
  <2> QED
    BY <2>1, QuotedReads, Lines DEF Reads
<1>5. CASE s.value.kind \in {"nullptr", "absent"}
  <2>1. ValueText(s) = <<"null">> /\ Meaning(s.value) = <<Mark("null")>>
    BY <1>5 DEF ValueText, Meaning
  <2> QED
    BY <2>1, NullReads DEF Reads
<1>6. CASE s.value.kind \in {"integer", "bool"}
  <2>1. ValueText(s) = text /\ Meaning(s.value) = Marks(text)
    BY <1>1, <1>6 DEF ValueText, Encoded, Meaning
  <2>2. Plain(text)
    BY <1>1, <1>6, SayingIs DEF Printable
  <2> QED
    BY <2>1, <2>2, PlainReads DEF Reads
<1>7. CASE s.value.kind = "raw"
  <2>1. ValueText(s) = text /\ Meaning(s.value) = Read(text)
    BY <1>1, <1>7 DEF ValueText, Encoded, Meaning
  <2>2. Run(Start, text).items \in Items
    BY StartIs, RunAppend, AtIs
  <2>3. Sound(s) => CanRead(text)
    BY <1>1, <1>7 DEF Sound
  <2> QED
    BY <2>1, <2>2, <2>3, ItemLists DEF Reads, Read
<1>8. CASE s.value.kind = "double"
  BY <1>8, DoubleReads
<1> QED
  BY <1>2, <1>3, <1>4, <1>5, <1>6, <1>7, <1>8 DEF Kinds

LEMMA Two == \A c, d \in Chars : <<c, d>> = <<c>> \o <<d>>
<1> TAKE c, d \in Chars
<1>1. PICK t \in Line : t = <<c>>
  BY Few
<1>2. <<c, d>> = Append(t, d)
  BY <1>1, Few
<1> QED
  BY <1>1, <1>2, LineAppends

LEMMA Triple == \A a, b, d \in Chars : <<a, b, d>> = <<a>> \o <<b>> \o <<d>>
<1> TAKE a, b, d \in Chars
<1>1. PICK ab \in Line : ab = <<a, b>> /\ <<a, b, d>> = Append(ab, d)
  BY Few
<1>2. Append(ab, d) = ab \o <<d>>
  BY LineAppends
<1> QED
  BY <1>1, <1>2, Two

LEMMA Three ==
  \A i, j, k \in Item : <<i, j, k>> \in Items /\ <<i>> \o <<j>> \o <<k>> = <<i, j, k>>
<1> TAKE i, j, k \in Item
<1>1. /\ <<i>> \in Seq(Item) /\ <<i, j>> \in Seq(Item) /\ <<i, j, k>> \in Seq(Item)
      /\ <<i, j>> = Append(<<i>>, j) /\ <<i, j, k>> = Append(<<i, j>>, k)
  OBVIOUS
<1>2. \A x \in Seq(Item), y \in Item : Append(x, y) = x \o <<y>>
  BY AppendIsConcat
<1>3. Append(<<i>>, j) = <<i>> \o <<j>> /\ Append(<<i, j>>, k) = <<i, j>> \o <<k>>
  BY <1>1, <1>2
<1> QED
  BY <1>1, <1>3 DEF Items

LEMMA Four ==
  \A i, j, k, l \in Item : <<i>> \o <<j>> \o <<k>> \o <<l>> = <<i, j, k, l>>
<1> TAKE i, j, k, l \in Item
<1>1. <<i, j, k>> \in Seq(Item) /\ <<i, j, k, l>> = Append(<<i, j, k>>, l)
  OBVIOUS
<1>2. Append(<<i, j, k>>, l) = <<i, j, k>> \o <<l>>
  BY <1>1, AppendIsConcat
<1> QED
  BY <1>1, <1>2, Three

LEMMA Reshape ==
  \A a, q, e, c \in Line :
    Cat(Cat(Cat(a, q), e), Cat(q, c)) = Cat(Cat(a, Cat(Cat(q, e), q)), c)
  BY CatIs

\* What stands between a member's name and its value, taken apart.
LEMMA MemberText ==
  ASSUME NEW e \in Line, NEW v \in Line
  PROVE  Comma \o e \o Colon \o v = <<",">> \o (<<Quote>> \o e \o <<Quote>>) \o <<":">> \o v
<1>1. PICK a \in Line, q \in Line, c \in Line :
        a = <<",">> /\ q = <<Quote>> /\ c = <<":">>
  <2>1. "," \in Chars /\ ":" \in Chars /\ Quote \in Chars
    BY DEF Chars, Words
  <2> QED
    BY <2>1, Few
<1>2. Comma = a \o q /\ Colon = q \o c
  <2>1. "," \in Chars /\ ":" \in Chars /\ Quote \in Chars
    BY DEF Chars, Words
  <2> QED
    BY <1>1, <2>1, Two DEF Comma, Colon
<1>3. a \o q \o e \o (q \o c) = a \o (q \o e \o q) \o c
  <2>1. Cat(Cat(Cat(a, q), e), Cat(q, c)) = Cat(Cat(a, Cat(Cat(q, e), q)), c)
    BY Reshape
  <2> QED
    BY <2>1 DEF Cat
<1> QED
  BY <1>1, <1>2, <1>3

LEMMA PunctuationReads ==
  /\ Reads(<<",">>, <<Mark(",")>>) /\ Reads(<<":">>, <<Mark(":")>>)
  /\ Reads(<<"{">>, <<Mark("{")>>) /\ Reads(<<"}">>, <<Mark("}")>>)
<1>1. \A c \in {",", ":", "{", "}"} : c \in Chars /\ c \notin {Quote, Newline, Control}
  BY DEF Chars, Words, Quote, Newline, Control
<1> QED
  BY <1>1, ReadsChar

(* A member reads as its name and its value.                                *)
LEMMA MemberReads ==
  ASSUME NEW name \in Line, NEW v, NEW y, Reads(v, y)
  PROVE  Reads(Comma \o escape_json(name) \o Colon \o v, Member(name, y))
<1>1. v \in Line /\ y \in Items
  BY DEF Reads
<1>2. escape_json(name) \in Line
  BY EscapeIs
<1>3. Comma \o escape_json(name) \o Colon \o v = <<",">> \o Quoted(name) \o <<":">> \o v
  BY <1>1, <1>2, MemberText DEF Quoted
<1>4. Reads(<<",">> \o Quoted(name) \o <<":">>, <<Mark(",")>> \o <<Str(name)>> \o <<Mark(":")>>)
  BY PunctuationReads, QuotedReads, ReadsThree
<1>5. <<Mark(",")>> \o <<Str(name)>> \o <<Mark(":")>> = <<Mark(","), Str(name), Mark(":")>>
  <2>1. "," \in Chars /\ ":" \in Chars
    BY DEF Chars, Words
  <2>2. Mark(",") \in Item /\ Str(name) \in Item /\ Mark(":") \in Item
    BY <2>1 DEF Mark, Str, Item
  <2> QED
    BY <2>2, Three
<1> QED
  BY <1>3, <1>4, <1>5, ReadsConcat DEF Member

LEMMA MemberType ==
  ASSUME NEW name \in Line, NEW y \in Items
  PROVE  Member(name, y) \in Items
<1>1. "," \in Chars /\ ":" \in Chars
  BY DEF Chars, Words
<1>2. Mark(",") \in Item /\ Str(name) \in Item /\ Mark(":") \in Item
  BY <1>1 DEF Mark, Str, Item
<1>3. <<Mark(","), Str(name), Mark(":")>> \in Items
  BY <1>2, Three
<1> QED
  BY <1>3, ItemLists DEF Member

-----------------------------------------------------------------------------
(* Sets of fields.                                                          *)

\* A part of a buffer is where an offset and a length say.
Placed(buf, off, len, part) ==
  /\ off = U32(off) /\ len = U32(len)
  /\ \E p, q \in Line : buf = p \o part \o q /\ off = Len(p) /\ len = Len(part)

LEMMA Lengths ==
  ASSUME NEW p \in Line, NEW q \in Line
  PROVE  /\ Len(p) \in Nat /\ Len(q) \in Nat /\ Len(p \o q) = Len(p) + Len(q)
         /\ \A i \in 1..Len(p) : (p \o q)[i] = p[i]
         /\ \A i \in 1..Len(q) : (p \o q)[Len(p) + i] = q[i]
<1>1. /\ Len(p) \in Nat /\ Len(q) \in Nat
      /\ Len(p \o q) = Len(p) + Len(q)
      /\ \A i \in 1..Len(p) + Len(q) : (p \o q)[i] = IF i <= Len(p) THEN p[i] ELSE q[i - Len(p)]
  BY LenProperties, ConcatProperties DEF Line
<1> DEFINE m == Len(p)
           n == Len(q)
<1>2. m \in Nat /\ n \in Nat
  BY <1>1
<1> HIDE DEF m, n
<1>3. /\ \A i \in 1..m : i \in 1..m + n /\ i <= m
      /\ \A i \in 1..n : m + i \in 1..m + n /\ ~(m + i <= m) /\ m + i - m = i
  BY <1>2
<1> QED
  BY <1>1, <1>3 DEF m, n

LEMMA PlacedIs ==
  ASSUME NEW buf, NEW off, NEW len, NEW part \in Line, Placed(buf, off, len, part)
  PROVE  substr(buf, off, len) = part
<1>1. PICK p \in Line, q \in Line : buf = p \o part \o q /\ off = Len(p) /\ len = Len(part)
  BY DEF Placed
<1>2. PICK pp \in Line : pp = p \o part
  BY Lines
<1>3. buf \in Line /\ buf = pp \o q
  BY <1>1, <1>2, Lines
<1>4. /\ off \in Nat /\ len \in Nat /\ Len(pp) = off + len /\ Len(q) \in Nat
      /\ Len(buf) = off + len + Len(q)
      /\ \A i \in 1..len : pp[off + i] = part[i]
      /\ \A i \in 1..off + len : buf[i] = pp[i]
  BY <1>1, <1>2, <1>3, Lengths
<1>5. substr(buf, off, len) = SubSeq(buf, off + 1, off + len)
  <2>1. off <= Len(buf) /\ (off + len < Len(buf) \/ off + len = Len(buf))
    BY <1>4
  <2> QED
    BY <1>4, <2>1 DEF substr
<1> DEFINE u == SubSeq(buf, off + 1, off + len)
<1>6. \A i \in off + 1..off + len : buf[i] \in Chars
  <2>1. \A i \in off + 1..off + len : i \in 1..Len(buf)
    BY <1>4
  <2> QED
    BY <1>3, <2>1, LineAppends
<1>7. /\ u \in Seq(Chars)
      /\ Len(u) = IF off + 1 <= off + len THEN off + len - (off + 1) + 1 ELSE 0
      /\ \A i \in 1..(off + len - (off + 1) + 1) : u[i] = buf[off + 1 + i - 1]
  BY <1>4, <1>6, SubSeqProperties
<1>8. off + len - (off + 1) + 1 = len /\ (off + 1 <= off + len <=> len # 0)
  BY <1>4
<1> HIDE DEF u
<1>9. Len(u) = len /\ \A i \in 1..len : u[i] = part[i]
  <2>1. Len(u) = len
    BY <1>4, <1>7, <1>8
  <2>2. ASSUME NEW i \in 1..len PROVE u[i] = part[i]
    <3>1. off + 1 + i - 1 = off + i /\ off + i \in 1..off + len
      BY <1>4
    <3>2. u[i] = buf[off + 1 + i - 1]
      BY <1>7, <1>8
    <3> QED
      BY <1>4, <3>1, <3>2
  <2> QED
    BY <2>1, <2>2
<1>10. u = part
  BY <1>1, <1>7, <1>9, SeqEqual DEF Line
<1> QED
  BY <1>5, <1>10 DEF u

LEMMA PlacedKeeps ==
  ASSUME NEW buf, NEW off, NEW len, NEW part \in Line, Placed(buf, off, len, part), NEW rest \in Line
  PROVE  Placed(buf \o rest, off, len, part)
<1>1. PICK p \in Line, q \in Line : buf = p \o part \o q /\ off = Len(p) /\ len = Len(part)
  BY DEF Placed
<1>2. PICK pp \in Line, qr \in Line : pp = p \o part /\ qr = q \o rest
  BY Lines
<1>3. pp \o (q \o rest) = pp \o q \o rest
  <2>1. Cat(pp, Cat(q, rest)) = Cat(Cat(pp, q), rest)
    BY CatIs
  <2> QED
    BY <2>1 DEF Cat
<1>4. buf \o rest = p \o part \o qr
  BY <1>1, <1>2, <1>3
<1> QED
  BY <1>1, <1>4 DEF Placed

Span == [key_off : Nat, key_len : Nat, val_off : Nat, val_len : Nat]

\* The i-th field of a set is of what was said.
Shows(fs, i, s) ==
  /\ Placed(fs.buf, fs.spans[i].key_off, fs.spans[i].key_len, escape_json(s.key))
  /\ Placed(fs.buf, fs.spans[i].val_off, fs.spans[i].val_len, ValueText(s))

MemberOf == [s \in Saying |-> Member(s.key, Meaning(s.value))]

\* What a formatter makes of each of the fields, in a row.
Mapped(g, says) == [i \in 1..Len(says) |-> g[says[i]]]

(* A set has the fields that were said: all in its buffer, and, as long as
   it is no longer than offsets can say, each where its span says.          *)
Written(fs, says) ==
  /\ fs.buf \in Line /\ fs.spans \in Seq(Span) /\ says \in Seq(Saying)
  /\ size(fs) = Len(says)
  /\ (\A i \in 1..Len(says) : Sound(says[i])) =>
       Reads(fs.buf, FlattenSeq(Mapped(MemberOf, says)))
  /\ byte_size(fs) <= OffsetModulus => \A i \in 1..Len(says) : Shows(fs, i, says[i])

\* Mapping, field by field.
LEMMA MappedIs ==
  ASSUME NEW M, NEW g \in [Saying -> M], NEW says \in Seq(Saying)
  PROVE  /\ Mapped(g, says) \in Seq(M) /\ Len(Mapped(g, says)) = Len(says)
         /\ \A i \in 1..Len(says) : Mapped(g, says)[i] = g[says[i]]
         /\ \A s \in Saying : Mapped(g, Append(says, s)) = Append(Mapped(g, says), g[s])
<1>1. Len(says) \in Nat /\ \A i \in 1..Len(says) : says[i] \in Saying
  BY LenProperties, ElementOfSeq
<1>2. /\ Mapped(g, says) \in Seq(M) /\ Len(Mapped(g, says)) = Len(says)
      /\ \A i \in 1..Len(says) : Mapped(g, says)[i] = g[says[i]]
  BY <1>1 DEF Mapped
<1>3. ASSUME NEW s \in Saying
      PROVE  Mapped(g, Append(says, s)) = Append(Mapped(g, says), g[s])
  <2> DEFINE L == Len(says)
  <2>1. PICK r \in Seq(Saying) : r = Append(says, s)
    BY AppendLooks
  <2>2. Len(r) = L + 1 /\ r[L + 1] = s /\ \A i \in 1..L : r[i] = says[i]
    BY <2>1, AppendLooks
  <2>3. PICK a \in Seq(M) : a = Append(Mapped(g, says), g[s])
    BY <1>2, AppendLooks
  <2>4. Len(a) = L + 1 /\ a[L + 1] = g[s] /\ \A i \in 1..L : a[i] = g[says[i]]
    <3>1. g[s] \in M
      OBVIOUS
    <3> QED
      BY <1>2, <2>3, <3>1, AppendLooks
  <2>5. /\ Mapped(g, r) \in Seq(M) /\ Len(Mapped(g, r)) = L + 1
        /\ \A i \in 1..L + 1 : Mapped(g, r)[i] = g[r[i]]
    <3>1. \A i \in 1..L + 1 : r[i] \in Saying
      BY <2>2, ElementOfSeq
    <3> QED
      BY <1>1, <2>2, <3>1 DEF Mapped
  <2>6. L \in Nat
    BY <1>1
  <2> HIDE DEF L
  <2>7. \A i \in 1..L + 1 : a[i] = Mapped(g, r)[i]
    <3>1. \A i \in 1..L + 1 : i \in 1..L \/ i = L + 1
      BY <2>6
    <3> QED
      BY <2>2, <2>4, <2>5, <3>1
  <2>8. a = Mapped(g, r)
    BY <2>4, <2>5, <2>7, SeqEqual
  <2> QED
    BY <2>1, <2>3, <2>8
<1> QED
  BY <1>2, <1>3

LEMMA MappedConcat ==
  ASSUME NEW M, NEW g \in [Saying -> M], NEW b \in Seq(Saying), NEW f \in Seq(Saying)
  PROVE  Mapped(g, b \o f) = Mapped(g, b) \o Mapped(g, f)
<1>1. PICK r \in Seq(Saying) : r = b \o f
  BY ConcatProperties
<1>2. PICK m \in Nat, n \in Nat : m = Len(b) /\ n = Len(f)
  BY LenProperties
<1>3. Len(r) = m + n /\ \A i \in 1..m + n : r[i] = IF i <= m THEN b[i] ELSE f[i - m]
  BY <1>1, <1>2, ConcatProperties
<1>4. PICK x \in Seq(M), y \in Seq(M), z \in Seq(M) :
        x = Mapped(g, b) /\ y = Mapped(g, f) /\ z = Mapped(g, r)
  BY MappedIs
<1>5. Len(x) = m /\ \A i \in 1..m : x[i] = g[b[i]]
  BY <1>2, <1>4, MappedIs, ZenonT(40)
<1>6. Len(y) = n /\ \A i \in 1..n : y[i] = g[f[i]]
  BY <1>2, <1>4, MappedIs, ZenonT(40)
<1>7. Len(z) = m + n /\ \A i \in 1..m + n : z[i] = g[r[i]]
  <2>1. Len(z) = Len(r) /\ \A i \in 1..Len(r) : z[i] = g[r[i]]
    BY <1>4, MappedIs, ZenonT(40)
  <2> QED
    BY <1>3, <2>1
<1>8. PICK xy \in Seq(M) : xy = x \o y
  BY ConcatProperties
<1>9. Len(xy) = m + n /\ \A i \in 1..m + n : xy[i] = IF i <= m THEN x[i] ELSE y[i - m]
  <2>1. Len(x \o y) = Len(x) + Len(y)
    BY ConcatProperties
  <2>2. \A i \in 1..Len(x) + Len(y) : (x \o y)[i] = IF i <= Len(x) THEN x[i] ELSE y[i - Len(x)]
    BY ConcatProperties
  <2> QED
    BY <1>5, <1>6, <1>8, <2>1, <2>2
<1>10. ASSUME NEW i \in 1..m + n PROVE xy[i] = z[i]
  <2>1. CASE i <= m
    <3>1. i \in 1..m
      BY <2>1
    <3>2. xy[i] = x[i] /\ r[i] = b[i]
      BY <1>3, <1>9, <2>1
    <3> QED
      BY <1>5, <1>7, <3>1, <3>2
  <2>2. CASE ~(i <= m)
    <3>1. i - m \in 1..n
      BY <2>2
    <3>2. xy[i] = y[i - m] /\ r[i] = f[i - m]
      BY <1>3, <1>9, <2>2
    <3> QED
      BY <1>6, <1>7, <3>1, <3>2
  <2> QED
    BY <2>1, <2>2
<1>11. xy = z
  BY <1>7, <1>9, <1>10, SeqEqual
<1> QED
  BY <1>1, <1>4, <1>8, <1>11

LEMMA MemberOfIs ==
  /\ MemberOf \in [Saying -> Items]
  /\ \A s \in Saying : MemberOf[s] = Member(s.key, Meaning(s.value))
  BY SayingIs, ValueReads, MemberType DEF MemberOf

LEMMA NothingWritten == Written(EmptyFields, <<>>)
<1>1. Mapped(MemberOf, <<>>) = <<>>
  BY DEF Mapped
<1>2. FlattenSeq(<<>>) = <<>>
  BY DEF FlattenSeq
<1>3. EmptyFields.buf = <<>> /\ EmptyFields.spans = <<>>
  BY DEF EmptyFields
<1> QED
  BY <1>1, <1>2, <1>3, ReadsNothing, Lines DEF Written, size

\* A set and what one kv() call adds to its buffer.
LEMMA KvIs ==
  ASSUME NEW fs, NEW s \in Saying, fs.buf \in Line, fs.spans \in Seq(Span)
  PROVE  LET new == kv(fs, s.key, s.value, s.point)
             ko == Len(fs.buf) + 2
             k == escape_json(s.key)
             vo == Len(fs.buf) + 2 + Len(k) + 2
             v == ValueText(s)
         IN  /\ new.buf = fs.buf \o Comma \o k \o Colon \o v
             /\ new.spans = Append(fs.spans,
                  [key_off |-> U32(ko), key_len |-> U32(Len(k)), val_off |-> U32(vo), val_len |-> U32(Len(v))])
<1>1. kv(fs, s.key, s.value, s.point) = add(fs, [key |-> escape_json(s.key), val |-> ValueText(s)])
  BY DEF kv, adder, ValueText
<1>2. Len(Comma) = 2 /\ Len(Colon) = 2
  BY DEF Comma, Colon
<1> DEFINE k == escape_json(s.key)
           v == ValueText(s)
           f == [key |-> k, val |-> v]
<1>3. f.key = k /\ f.val = v
  OBVIOUS
<1> HIDE DEF k, v
<1>4. /\ add(fs, f).buf = fs.buf \o Comma \o k \o Colon \o v
      /\ add(fs, f).spans = Append(fs.spans,
            [key_off |-> U32(Len(fs.buf) + Len(Comma)), key_len |-> U32(Len(k)),
             val_off |-> U32(Len(fs.buf) + Len(Comma) + Len(k) + Len(Colon)), val_len |-> U32(Len(v))])
  <2> HIDE DEF f
  <2> QED
    BY <1>3 DEF add, byte_size
<1> QED
  BY <1>1, <1>2, <1>4 DEF k, v

LEMMA PunctuationIs == Comma \in Line /\ Colon \in Line /\ Len(Comma) = 2 /\ Len(Colon) = 2
<1>1. "," \in Chars /\ ":" \in Chars /\ Quote \in Chars
  BY DEF Chars, Words
<1>2. Comma \in Line /\ Colon \in Line
  BY <1>1, Few DEF Comma, Colon
<1> QED
  BY <1>2 DEF Comma, Colon

LEMMA Small ==
  ASSUME NEW n \in Nat, n < OffsetModulus
  PROVE  U32(n) = n
<1>1. OffsetModulus \in Nat \ {0}
  BY OffsetAssumption
<1> QED
  BY <1>1 DEF U32

LEMMA U32Type ==
  ASSUME NEW n \in Nat
  PROVE  U32(n) \in Nat
<1>1. OffsetModulus \in Nat \ {0}
  BY OffsetAssumption
<1> QED
  BY <1>1 DEF U32

\* Where the new field is in the new buffer.
LEMMA NewPlaces ==
  ASSUME NEW b \in Line, NEW k \in Line, NEW v \in Line,
         NEW buf, buf = b \o Comma \o k \o Colon \o v, Len(buf) <= OffsetModulus
  PROVE  /\ Placed(buf, U32(Len(b) + 2), U32(Len(k)), k)
         /\ Placed(buf, U32(Len(b) + 2 + Len(k) + 2), U32(Len(v)), v)
<1>1. PICK c \in Line, d \in Line : c = Comma /\ d = Colon /\ Len(c) = 2 /\ Len(d) = 2
  BY PunctuationIs
<1>2. PICK bc \in Line : bc = b \o c
  BY Lines
<1>3. PICK bck \in Line : bck = bc \o k
  BY Lines
<1>4. PICK bckd \in Line : bckd = bck \o d
  BY Lines
<1>5. PICK dv \in Line : dv = d \o v
  BY Lines
<1>6. buf = bckd \o v /\ buf = bckd \o v \o <<>>
  <2>1. bckd \o v \in Line
    BY Lines
  <2>2. bckd \o v \o <<>> = bckd \o v
    BY <2>1, Lines
  <2> QED
    BY <1>1, <1>2, <1>3, <1>4, <2>2
<1>7. buf = bck \o dv
  <2>1. Cat(bck, Cat(d, v)) = Cat(Cat(bck, d), v)
    BY CatIs
  <2> QED
    BY <1>4, <1>5, <1>6, <2>1 DEF Cat
<1>8. Len(bc) = Len(b) + 2 /\ Len(b) \in Nat
  <2>1. Len(b \o c) = Len(b) + Len(c) /\ Len(b) \in Nat
    BY Lengths
  <2> QED
    BY <1>1, <1>2, <2>1
<1>9. Len(bck) = Len(bc) + Len(k) /\ Len(k) \in Nat
  BY <1>3, Lengths
<1>10. Len(bckd) = Len(bck) + 2
  <2>1. Len(bck \o d) = Len(bck) + Len(d)
    BY Lengths
  <2> QED
    BY <1>1, <1>4, <2>1
<1>11. Len(buf) = Len(bckd) + Len(v) /\ Len(v) \in Nat
  BY <1>6, Lengths
<1> DEFINE ko == Len(b) + 2
           vo == Len(b) + 2 + Len(k) + 2
<1>12. /\ ko \in Nat /\ vo \in Nat /\ ko = Len(bc) /\ vo = Len(bckd)
       /\ vo + Len(v) <= OffsetModulus /\ OffsetModulus \in Nat
  BY <1>8, <1>9, <1>10, <1>11, OffsetAssumption
<1>13. ko < OffsetModulus /\ Len(k) < OffsetModulus /\ Len(v) < OffsetModulus
  BY <1>8, <1>9, <1>11, <1>12
<1>14. U32(ko) = ko /\ U32(Len(k)) = Len(k) /\ U32(Len(v)) = Len(v)
  BY <1>9, <1>11, <1>12, <1>13, Small
<1>15. Placed(buf, ko, Len(k), k)
  BY <1>3, <1>7, <1>12, <1>14 DEF Placed
<1>16. CASE vo < OffsetModulus
  <2>1. U32(vo) = vo
    BY <1>12, <1>16, Small
  <2>2. Placed(buf, vo, Len(v), v)
    BY <1>6, <1>12, <1>14, <2>1, Lines DEF Placed
  <2> QED
    BY <1>14, <1>15, <2>1, <2>2
<1>17. CASE ~(vo < OffsetModulus)
  <2>1. vo = OffsetModulus /\ Len(v) = 0
    <3>1. PICK m \in Nat, n \in Nat : m = vo /\ n = Len(v)
      BY <1>11, <1>12
    <3>2. m + n <= OffsetModulus /\ ~(m < OffsetModulus) /\ OffsetModulus \in Nat
      BY <1>12, <1>17, <3>1
    <3>3. m = OffsetModulus /\ n = 0
      BY <3>2
    <3> QED
      BY <3>1, <3>3
  <2>2. U32(vo) = 0
    <3>1. OffsetModulus % OffsetModulus = 0
      BY OffsetAssumption
    <3> HIDE DEF vo
    <3> QED
      BY <2>1, <3>1 DEF U32
  <2>3. v = <<>>
    BY <2>1, EmptySeq DEF Line
  <2>4. buf = <<>> \o v \o buf /\ buf \in Line
    BY <1>6, <2>3, Lines
  <2>5. Placed(buf, 0, Len(v), v)
    <3>1. U32(0) = 0 /\ <<>> \in Line /\ Len(<<>>) = 0
      BY Small, OffsetAssumption, Lines
    <3> QED
      BY <1>14, <2>4, <3>1 DEF Placed
  <2> QED
    BY <1>14, <1>15, <2>2, <2>5
<1> QED
  BY <1>16, <1>17

LEMMA KvType ==
  ASSUME NEW fs \in FieldSet, NEW s \in Saying
  PROVE  kv(fs, s.key, s.value, s.point) \in FieldSet
<1>1. PICK b \in Line, k \in Line, v \in Line, z \in Seq(Span) :
        b = fs.buf /\ k = escape_json(s.key) /\ v = ValueText(s) /\ z = fs.spans
  <2>1. fs.buf \in Line /\ fs.spans \in Seq(Span)
    BY CharsAre DEF FieldSet, Span
  <2>2. escape_json(s.key) \in Line /\ ValueText(s) \in Line
    BY SayingIs, EscapeIs, ValueReads
  <2> QED
    BY <2>1, <2>2
<1>2. PICK new : new = kv(fs, s.key, s.value, s.point)
  OBVIOUS
<1> DEFINE ko == U32(Len(b) + 2)
           kl == U32(Len(k))
           vo == U32(Len(b) + 2 + Len(k) + 2)
           vl == U32(Len(v))
           span == [key_off |-> ko, key_len |-> kl, val_off |-> vo, val_len |-> vl]
<1>3. new.buf = b \o Comma \o k \o Colon \o v /\ new.spans = Append(z, span)
  BY <1>1, <1>2, KvIs
<1>4. span \in Span
  <2>1. Len(b) \in Nat /\ Len(k) \in Nat /\ Len(v) \in Nat
    BY Lengths
  <2>2. ko \in Nat /\ kl \in Nat /\ vo \in Nat /\ vl \in Nat
    <3>1. /\ Len(b) + 2 \in Nat /\ Len(k) \in Nat
          /\ Len(b) + 2 + Len(k) + 2 \in Nat /\ Len(v) \in Nat
      BY <2>1
    <3>2. \A n \in Nat : U32(n) \in Nat
      BY U32Type
    <3> QED
      BY <3>1, <3>2
  <2> HIDE DEF ko, kl, vo, vl
  <2> QED
    BY <2>2 DEF Span
<1> HIDE DEF span
<1>5. new.spans \in Seq(Span)
  BY <1>3, <1>4, AppendLooks
<1>6. new.buf \in Line
  <2>1. Comma \in Line /\ Colon \in Line
    BY PunctuationIs
  <2>2. b \o Comma \in Line
    BY <2>1, Lines
  <2>3. b \o Comma \o k \in Line
    BY <2>2, Lines
  <2>4. b \o Comma \o k \o Colon \in Line
    BY <2>1, <2>3, Lines
  <2> QED
    BY <1>3, <2>4, Lines
<1>7. new = [buf |-> new.buf, spans |-> new.spans]
  BY <1>2 DEF kv, adder, add
<1> QED
  BY <1>2, <1>5, <1>6, <1>7, CharsAre DEF FieldSet, Span

(* What kv() adds is written.                                               *)
LEMMA AddWritten ==
  ASSUME NEW fs \in FieldSet, NEW says, NEW s \in Saying, Written(fs, says)
  PROVE  Written(kv(fs, s.key, s.value, s.point), Append(says, s))
<1>1. PICK b \in Line, k \in Line, v \in Line :
        b = fs.buf /\ k = escape_json(s.key) /\ v = ValueText(s)
  <2>1. fs.buf \in Line /\ escape_json(s.key) \in Line /\ ValueText(s) \in Line
    BY SayingIs, EscapeIs, ValueReads DEF Written
  <2> QED
    BY <2>1
<1>2. /\ fs.spans \in Seq(Span) /\ says \in Seq(Saying) /\ size(fs) = Len(says) /\ Len(says) \in Nat
      /\ byte_size(fs) = Len(b)
  BY <1>1, LenProperties DEF Written, byte_size
<1>3. PICK new : new = kv(fs, s.key, s.value, s.point)
  OBVIOUS
<1> DEFINE ko == U32(Len(b) + 2)
           kl == U32(Len(k))
           vo == U32(Len(b) + 2 + Len(k) + 2)
           vl == U32(Len(v))
           span == [key_off |-> ko, key_len |-> kl, val_off |-> vo, val_len |-> vl]
<1>4. new.buf = b \o Comma \o k \o Colon \o v /\ new.spans = Append(fs.spans, span)
  BY <1>1, <1>2, <1>3, KvIs
<1>5. span \in Span
  <2>1. Len(b) \in Nat /\ Len(k) \in Nat /\ Len(v) \in Nat
    BY Lengths
  <2>2. ko \in Nat /\ kl \in Nat /\ vo \in Nat /\ vl \in Nat
    BY <2>1, U32Type, SMTT(30)
  <2> HIDE DEF ko, kl, vo, vl
  <2> QED
    BY <2>2 DEF Span
<1>6. PICK c \in Line, d \in Line, m \in Line :
        c = Comma /\ d = Colon /\ m = Comma \o k \o Colon \o v
  <2>1. Comma \in Line /\ Colon \in Line
    BY PunctuationIs
  <2>2. Comma \o k \in Line
    BY <2>1, Lines
  <2>3. Comma \o k \o Colon \in Line
    BY <2>1, <2>2, Lines
  <2> QED
    BY <2>1, <2>3, Lines
<1>7. new.buf = b \o m
  <2>1. Cat(b, Cat(Cat(Cat(c, k), d), v)) = Cat(Cat(Cat(Cat(b, c), k), d), v)
    <3>1. Cat(b, Cat(Cat(Cat(c, k), d), v)) = Cat(Cat(b, Cat(Cat(c, k), d)), v)
      BY CatIs
    <3>2. Cat(b, Cat(Cat(c, k), d)) = Cat(Cat(b, Cat(c, k)), d)
      BY CatIs
    <3>3. Cat(b, Cat(c, k)) = Cat(Cat(b, c), k)
      BY CatIs
    <3> QED
      BY <3>1, <3>2, <3>3
  <2> QED
    BY <1>4, <1>6, <2>1 DEF Cat
<1>8. new.buf \in Line /\ new.spans \in Seq(Span) /\ Append(says, s) \in Seq(Saying)
  <2>1. b \o m \in Line
    BY Lines
  <2>2. Append(fs.spans, span) \in Seq(Span)
    <3> HIDE DEF span
    <3> QED
      BY <1>2, <1>5, AppendLooks
  <2> QED
    BY <1>2, <1>4, <1>7, <2>1, <2>2, AppendLooks
<1> HIDE DEF span
<1>9. size(new) = Len(Append(says, s)) /\ Len(Append(says, s)) = Len(says) + 1
  BY <1>2, <1>4, <1>5, AppendLooks DEF size
<1>10. (\A i \in 1..Len(Append(says, s)) : Sound(Append(says, s)[i])) =>
         Reads(new.buf, FlattenSeq(Mapped(MemberOf, Append(says, s))))
  <2> SUFFICES ASSUME \A i \in 1..Len(Append(says, s)) : Sound(Append(says, s)[i])
               PROVE  Reads(new.buf, FlattenSeq(Mapped(MemberOf, Append(says, s))))
    OBVIOUS
  <2>1. PICK n \in Nat : n = Len(says)
    BY <1>2
  <2>2. \A i \in 1..n + 1 : Sound(Append(says, s)[i])
    BY <1>9, <2>1
  <2>3. n + 1 \in 1..n + 1 /\ \A i \in 1..n : i \in 1..n + 1
    OBVIOUS
  <2>4. Sound(s) /\ \A i \in 1..n : Sound(says[i])
    BY <1>2, <2>1, <2>2, <2>3, AppendLooks
  <2>5. PICK x : x = FlattenSeq(Mapped(MemberOf, says)) /\ Reads(b, x)
    BY <1>1, <2>1, <2>4 DEF Written
  <2>6. Reads(v, Meaning(s.value))
    BY <1>1, <2>4, ValueReads
  <2>7. Reads(m, Member(s.key, Meaning(s.value)))
    BY <1>1, <1>6, <2>6, SayingIs, MemberReads
  <2>8. Reads(b \o m, x \o MemberOf[s])
    BY <2>5, <2>7, ReadsConcat, MemberOfIs
  <2>9. FlattenSeq(Mapped(MemberOf, Append(says, s))) = x \o MemberOf[s]
    <3>1. PICK q \in Seq(Items) : q = Mapped(MemberOf, says)
      BY <1>2, MemberOfIs, MappedIs
    <3>2. Mapped(MemberOf, Append(says, s)) = Append(q, MemberOf[s]) /\ MemberOf[s] \in Items
      BY <1>2, <3>1, MemberOfIs, MappedIs
    <3>3. FlattenSeq(Append(q, MemberOf[s])) = FlattenSeq(q) \o MemberOf[s]
      BY <3>2, BothJoin, FlattenAppend
    <3> QED
      BY <2>5, <3>1, <3>2, <3>3
  <2> QED
    BY <1>7, <2>8, <2>9
<1>11. byte_size(new) <= OffsetModulus =>
         \A i \in 1..Len(Append(says, s)) : Shows(new, i, Append(says, s)[i])
  <2> SUFFICES ASSUME byte_size(new) <= OffsetModulus,
                      NEW i \in 1..Len(Append(says, s))
               PROVE  Shows(new, i, Append(says, s)[i])
    OBVIOUS
  <2>1. PICK n \in Nat : n = Len(says) /\ n = Len(fs.spans)
    BY <1>2 DEF size
  <2>2. /\ \A j \in 1..n : Append(fs.spans, span)[j] = fs.spans[j]
        /\ Append(fs.spans, span)[n + 1] = span
    <3>1. PICK z \in Seq(Span), e \in Span : z = fs.spans /\ e = span
      BY <1>2, <1>5
    <3>2. /\ \A j \in 1..Len(z) : Append(z, e)[j] = z[j]
          /\ Append(z, e)[Len(z) + 1] = e
      BY AppendLooks
    <3> QED
      BY <2>1, <3>1, <3>2
  <2>3. /\ \A j \in 1..n : Append(says, s)[j] = says[j]
        /\ Append(says, s)[n + 1] = s
    <3>1. PICK z \in Seq(Saying) : z = says
      BY <1>2
    <3>2. /\ \A j \in 1..Len(z) : Append(z, s)[j] = z[j]
          /\ Append(z, s)[Len(z) + 1] = s
      BY AppendLooks
    <3> QED
      BY <2>1, <3>1, <3>2
  <2>4. Len(new.buf) <= OffsetModulus
    BY DEF byte_size
  <2>5. CASE i \in 1..n
    <3>1. byte_size(fs) <= OffsetModulus
      <4>1. Len(b \o m) = Len(b) + Len(m) /\ Len(b) \in Nat /\ Len(m) \in Nat
        BY Lengths
      <4> QED
        BY <1>2, <1>7, <2>4, <4>1, OffsetAssumption
    <3>2. Shows(fs, i, says[i])
      BY <2>1, <2>5, <3>1 DEF Written
    <3>3. new.spans[i] = fs.spans[i] /\ Append(says, s)[i] = says[i] /\ says[i] \in Saying
      <4>1. Append(fs.spans, span)[i] = fs.spans[i]
        BY <2>2, <2>5
      <4>2. Append(says, s)[i] = says[i]
        BY <2>3, <2>5
      <4>3. says[i] \in Saying
        BY <1>2, <2>1, <2>5, ElementOfSeq
      <4> QED
        BY <1>4, <4>1, <4>2, <4>3
    <3>4. PICK z \in Saying : z = says[i]
      BY <3>3
    <3>5. escape_json(z.key) \in Line /\ ValueText(z) \in Line
      BY SayingIs, EscapeIs, ValueReads
    <3>6. PICK o : o = fs.spans[i]
      OBVIOUS
    <3>7. /\ Placed(b, o.key_off, o.key_len, escape_json(z.key))
          /\ Placed(b, o.val_off, o.val_len, ValueText(z))
      BY <1>1, <3>2, <3>4, <3>6 DEF Shows
    <3>8. /\ Placed(b \o m, o.key_off, o.key_len, escape_json(z.key))
          /\ Placed(b \o m, o.val_off, o.val_len, ValueText(z))
      BY <3>5, <3>7, PlacedKeeps
    <3> QED
      BY <1>7, <3>3, <3>4, <3>6, <3>8 DEF Shows
  <2>6. CASE i = n + 1
    <3>1. new.spans[i] = span /\ Append(says, s)[i] = s
      <4>1. Append(fs.spans, span)[n + 1] = span
        BY <2>2
      <4>2. Append(says, s)[n + 1] = s
        BY <2>3
      <4> QED
        BY <1>4, <2>6, <4>1, <4>2
    <3>2. Placed(new.buf, ko, kl, k) /\ Placed(new.buf, vo, vl, v)
      BY <1>4, <2>4, NewPlaces
    <3>3. span.key_off = ko /\ span.key_len = kl /\ span.val_off = vo /\ span.val_len = vl
      BY DEF span
    <3> HIDE DEF ko, kl, vo, vl
    <3> QED
      BY <1>1, <3>1, <3>2, <3>3 DEF Shows
  <2> QED
    BY <1>9, <2>1, <2>5, <2>6
<1> QED
  BY <1>3, <1>8, <1>9, <1>10, <1>11 DEF Written

(* What a row of kv() calls adds is written.                                *)
LEMMA BuiltWritten ==
  ASSUME NEW w \in Seq(Saying), NEW bs, NEW p, Len(bs) = Len(w),
         \A i \in 1..Len(w) : w[i].key = bs[i].key /\ w[i].value = bs[i].value /\ w[i].point = p
  PROVE  Built(bs, p) \in FieldSet /\ Written(Built(bs, p), w)
<1> DEFINE L == Len(w)
           Is(h) == h = [n \in 0..L |-> IF n = 0 THEN EmptyFields
                                        ELSE kv(h[n - 1], bs[n].key, bs[n].value, p)]
           st == [z \in FieldSet \X (1..L) |-> kv(z[1], w[z[2]].key, w[z[2]].value, w[z[2]].point)]
<1>1. L \in Nat /\ \A k \in 1..L : w[k] \in Saying
  BY LenProperties, ElementOfSeq
<1>2. \A k \in 1..L : w[k].key = bs[k].key /\ w[k].value = bs[k].value /\ w[k].point = p
  OBVIOUS
<1> HIDE DEF L
<1>3. /\ st \in [FieldSet \X (1..L) -> FieldSet]
      /\ \A s \in FieldSet, k \in 1..L : st[<<s, k>>] = kv(s, w[k].key, w[k].value, w[k].point)
  BY <1>1, KvType
<1>4. EmptyFields \in FieldSet
  BY DEF EmptyFields, FieldSet
<1> HIDE DEF st
<1>5. PICK f : f \in [0..L -> FieldSet] /\ Iterated(f, EmptyFields, L, st)
  BY <1>1, <1>3, <1>4, Iterates
<1>6. f[0] = EmptyFields /\ \A k \in 1..L : f[k] = kv(f[k - 1], bs[k].key, bs[k].value, p)
  <2>1. \A k \in 1..L : k - 1 \in 0..L
    BY <1>1
  <2>2. \A k \in 1..L : f[k] = kv(f[k - 1], w[k].key, w[k].value, w[k].point)
    BY <1>3, <1>5, <2>1 DEF Iterated
  <2> QED
    BY <1>2, <1>5, <2>2 DEF Iterated
<1>7. Is(f)
  <2>1. \A n \in 0..L : f[n] = IF n = 0 THEN EmptyFields ELSE kv(f[n - 1], bs[n].key, bs[n].value, p)
    <3>1. \A n \in 0..L : n = 0 \/ n \in 1..L
      BY <1>1
    <3> QED
      BY <1>6, <3>1
  <2> QED
    BY <1>5, <2>1
<1> DEFINE g == CHOOSE h : Is(h)
<1>8. Is(g)
  <2> HIDE DEF Is
  <2> QED
    BY <1>7
<1>9. Built(bs, p) = g[L]
  BY DEF Built, L
<1> HIDE DEF g
<1>10. g[0] = EmptyFields /\ \A k \in 1..L : g[k] = kv(g[k - 1], w[k].key, w[k].value, w[k].point)
  <2>1. 0 \in 0..L /\ \A k \in 1..L : k # 0 /\ k \in 0..L
    BY <1>1
  <2>2. \A k \in 1..L : g[k] = kv(g[k - 1], bs[k].key, bs[k].value, p)
    BY <1>8, <2>1
  <2>3. g[0] = EmptyFields
    BY <1>8, <2>1
  <2> QED
    BY <1>2, <2>2, <2>3
<1> DEFINE pre(n) == Upto(w, n)
<1>11. /\ pre(0) = <<>> /\ pre(L) = w
       /\ \A n \in 1..L : pre(n) = Append(pre(n - 1), w[n])
  BY UptoIs DEF L
<1> HIDE DEF pre
<1> DEFINE T == {n \in 0..L : g[n] \in FieldSet /\ Written(g[n], pre(n))}
<1>12. 0 \in T
  BY <1>1, <1>4, <1>10, <1>11, NothingWritten
<1>13. ASSUME NEW n \in 1..L, n - 1 \in T PROVE n \in T
  <2>1. PICK x \in FieldSet, u \in Seq(Saying), s \in Saying :
          x = g[n - 1] /\ u = pre(n - 1) /\ s = w[n] /\ Written(x, u)
    <3>1. g[n - 1] \in FieldSet /\ Written(g[n - 1], pre(n - 1)) /\ w[n] \in Saying
      BY <1>1, <1>13
    <3>2. pre(n - 1) \in Seq(Saying)
      BY <3>1 DEF Written
    <3> QED
      BY <3>1, <3>2
  <2>2. g[n] = kv(x, s.key, s.value, s.point) /\ pre(n) = Append(u, s)
    BY <1>10, <1>11, <2>1
  <2>3. kv(x, s.key, s.value, s.point) \in FieldSet
    BY KvType
  <2>4. Written(kv(x, s.key, s.value, s.point), Append(u, s))
    BY <2>1, AddWritten
  <2>5. n \in 0..L
    BY <1>1
  <2> QED
    BY <2>2, <2>3, <2>4, <2>5
<1> HIDE DEF T
<1>14. \A n \in 0..L : n \in T
  BY <1>1, <1>12, <1>13, Counting
<1>15. L \in T
  BY <1>1, <1>14
<1> QED
  BY <1>9, <1>11, <1>15 DEF T

-----------------------------------------------------------------------------
(* The parts of a line.                                                     *)

LEMMA PlainChar ==
  ASSUME NEW c \in Chars, c \notin {Quote, Backslash, Newline, Control}
  PROVE  <<c>> \in Line /\ Plain(<<c>>)
  BY Few DEF Plain

LEMMA PlainConcat ==
  ASSUME NEW a \in Line, NEW b \in Line, Plain(a), Plain(b)
  PROVE  a \o b \in Line /\ Plain(a \o b)
<1>1. PICK ab \in Line : ab = a \o b
  BY Lines
<1>2. PICK m \in Nat, n \in Nat : m = Len(a) /\ n = Len(b)
  BY Lengths
<1>3. /\ Len(ab) = m + n /\ \A i \in 1..m : ab[i] = a[i]
      /\ \A i \in 1..n : ab[m + i] = b[i]
  BY <1>1, <1>2, Lengths
<1>4. \A i \in 1..m + n : i \in 1..m \/ (i - m \in 1..n /\ m + (i - m) = i)
  OBVIOUS
<1>5. \A i \in 1..m + n : i \in 1..m \/ \E j \in 1..n : i = m + j
  BY <1>4
<1>6. /\ \A i \in 1..m : a[i] \notin {Quote, Backslash, Newline, Control}
      /\ \A i \in 1..n : b[i] \notin {Quote, Backslash, Newline, Control}
  BY <1>2 DEF Plain
<1>7. \A i \in 1..m + n : ab[i] \notin {Quote, Backslash, Newline, Control}
  BY <1>3, <1>5, <1>6
<1>8. Plain(ab)
  BY <1>3, <1>7 DEF Plain
<1> QED
  BY <1>1, <1>8

LEMMA DigitsIs ==
  ASSUME NEW t, Digits(t)
  PROVE  t \in Line /\ Plain(t) /\ Reads(t, Marks(t))
<1>1. t \in Line /\ Plain(t)
  BY CharsAre DEF Digits
<1> QED
  BY <1>1, PlainReads

Special == {Quote, Backslash, Newline, Control}

LEMMA NameReads ==
  ASSUME NEW v, NEW y, Reads(v, y), NEW n \in Chars, n \notin Special
  PROVE  Reads(Name(n) \o v, Member(<<n>>, y)) /\ Name(n) \in Line
<1>1. PICK name \in Line : name = <<n>> /\ escape_json(name) = name
  <2>1. <<n>> \in Line /\ Plain(<<n>>)
    BY PlainChar DEF Special
  <2> QED
    BY <2>1, EscapeIs
<1>2. Reads(Comma \o name \o Colon \o v, Member(name, y))
  BY <1>1, MemberReads
<1>3. Comma \o name \in Line
  BY PunctuationIs, Lines
<1>4. Comma \o name \o Colon \in Line
  BY <1>3, PunctuationIs, Lines
<1> QED
  BY <1>1, <1>2, <1>4 DEF Name

\* A member behind what is there.
LEMMA NamedReads ==
  ASSUME NEW p, NEW x, Reads(p, x), NEW v, NEW y, Reads(v, y), NEW n \in Chars, n \notin Special
  PROVE  Reads(p \o Name(n) \o v, x \o Member(<<n>>, y))
<1>1. Reads(Name(n) \o v, Member(<<n>>, y)) /\ Name(n) \in Line
  BY NameReads
<1>2. Reads(p \o (Name(n) \o v), x \o Member(<<n>>, y))
  BY <1>1, ReadsConcat
<1>3. p \in Line /\ v \in Line
  BY DEF Reads
<1> QED
  BY <1>1, <1>2, <1>3, LineRegroup

LEMMA StampReads ==
  ASSUME NEW t \in Line, Plain(t)
  PROVE  Reads(<<"{", Quote, "ts">> \o Colon \o <<Quote>> \o t \o <<Quote>>,
               <<Mark("{"), Str(<<"ts">>), Mark(":"), Str(t)>>)
<1>1. /\ "{" \in Chars /\ Quote \in Chars /\ ":" \in Chars /\ "ts" \in Chars
      /\ "ts" \notin {Quote, Backslash, Newline, Control}
  BY DEF Chars, Words, Quote, Backslash, Newline, Control
<1>2. PICK o \in Line, q \in Line, c \in Line, ts \in Line :
        o = <<"{">> /\ q = <<Quote>> /\ c = <<":">> /\ ts = <<"ts">>
  BY <1>1, Few
<1>3. Plain(ts)
  BY <1>1, <1>2, PlainChar
<1>4. escape_json(ts) = ts /\ escape_json(t) = t
  BY <1>3, EscapeIs
<1>5. PICK qts \in Line, qt \in Line : qts = q \o ts \o q /\ qt = q \o t \o q
  <2>1. q \o ts \in Line /\ q \o t \in Line
    BY Lines
  <2> QED
    BY <2>1, Lines
<1>6. Quoted(ts) = qts /\ Quoted(t) = qt
  BY <1>2, <1>4, <1>5 DEF Quoted
<1>7. Reads(o \o qts \o c, <<Mark("{")>> \o <<Str(ts)>> \o <<Mark(":")>>)
  <2>1. Reads(qts, <<Str(ts)>>)
    BY <1>6, QuotedReads
  <2> QED
    BY <1>2, <2>1, PunctuationReads, ReadsThree
<1>8. Reads(qt, <<Str(t)>>)
  BY <1>6, QuotedReads
<1>9. Reads(o \o qts \o c \o qt, <<Mark("{")>> \o <<Str(ts)>> \o <<Mark(":")>> \o <<Str(t)>>)
  BY <1>7, <1>8, ReadsConcat
<1>10. <<Mark("{")>> \o <<Str(ts)>> \o <<Mark(":")>> \o <<Str(t)>> = <<Mark("{"), Str(ts), Mark(":"), Str(t)>>
  <2>1. Mark("{") \in Item /\ Mark(":") \in Item /\ Str(ts) \in Item /\ Str(t) \in Item
    BY <1>1 DEF Mark, Str, Item
  <2> QED
    BY <2>1, Four
<1>11. <<"{", Quote, "ts">> \o Colon \o <<Quote>> \o t \o <<Quote>> = o \o qts \o c \o qt
  <2>1. <<"{", Quote, "ts">> = o \o q \o ts
    BY <1>1, <1>2, Triple
  <2>2. Colon = q \o c
    BY <1>1, <1>2, Two DEF Colon
  <2>3. Cat(Cat(Cat(Cat(Cat(Cat(o, q), ts), Cat(q, c)), q), t), q)
          = Cat(Cat(Cat(o, Cat(Cat(q, ts), q)), c), Cat(Cat(q, t), q))
    <3>1. PICK oqt \in Line : oqt = Cat(Cat(o, q), ts)
      BY CatIs
    <3>2. oqt = Cat(o, Cat(q, ts))
      BY <3>1, CatIs
    <3>3. PICK z \in Line : z = Cat(Cat(oqt, q), c)
      BY CatIs
    <3>4. z = Cat(oqt, Cat(q, c))
      BY <3>3, CatIs
    <3>5. Cat(Cat(Cat(z, q), t), q) = Cat(z, Cat(Cat(q, t), q))
      BY CatIs
    <3>6. Cat(oqt, q) = Cat(o, Cat(Cat(q, ts), q))
      BY <3>2, CatIs
    <3> QED
      BY <3>1, <3>3, <3>4, <3>5, <3>6
  <2> QED
    BY <1>2, <1>5, <2>1, <2>2, <2>3 DEF Cat
<1> QED
  BY <1>2, <1>9, <1>10, <1>11

\* The words of levels, and others, are nothing special.
LEMMA LevelsAre ==
  \A i \in 1..6 : /\ level_name[i] \in Chars \ Special /\ level_label[i] \in Chars \ Special
                  /\ color_for[i] \in Chars \ Special
<1> TAKE i \in 1..6
<1>1. level_name[i] \in Chars /\ level_label[i] \in Chars /\ color_for[i] \in Chars
  BY DEF Chars, Words
<1>2. i = 1 \/ i = 2 \/ i = 3 \/ i = 4 \/ i = 5 \/ i = 6
  OBVIOUS
<1>3. level_name[i] \notin Special
  <2>1. /\ level_name[1] = "trace"
        /\ level_name[2] = "debug"
        /\ level_name[3] = "info"
        /\ level_name[4] = "warning"
        /\ level_name[5] = "error"
        /\ level_name[6] = "critical"
    BY DEF level_name
  <2>2. /\ "trace" \notin Special
        /\ "debug" \notin Special
        /\ "info" \notin Special
        /\ "warning" \notin Special
        /\ "error" \notin Special
        /\ "critical" \notin Special
    BY DEF Special, Quote, Backslash, Newline, Control
  <2> QED
    BY <1>2, <2>1, <2>2
<1>4. level_label[i] \notin Special
  <2>1. /\ level_label[1] = "TRACE   "
        /\ level_label[2] = "DEBUG   "
        /\ level_label[3] = "INFO    "
        /\ level_label[4] = "WARNING "
        /\ level_label[5] = "ERROR   "
        /\ level_label[6] = "CRITICAL"
    BY DEF level_label
  <2>2. /\ "TRACE   " \notin Special
        /\ "DEBUG   " \notin Special
        /\ "INFO    " \notin Special
        /\ "WARNING " \notin Special
        /\ "ERROR   " \notin Special
        /\ "CRITICAL" \notin Special
    BY DEF Special, Quote, Backslash, Newline, Control
  <2> QED
    BY <1>2, <2>1, <2>2
<1>5. color_for[i] \notin Special
  <2>1. /\ color_for[1] = "[2m"
        /\ color_for[2] = "[36m"
        /\ color_for[3] = "[32m"
        /\ color_for[4] = "[33m"
        /\ color_for[5] = "[31m"
        /\ color_for[6] = "[1;31m"
    BY DEF color_for
  <2>2. /\ "[2m" \notin Special
        /\ "[36m" \notin Special
        /\ "[32m" \notin Special
        /\ "[33m" \notin Special
        /\ "[31m" \notin Special
        /\ "[1;31m" \notin Special
    BY DEF Special, Quote, Backslash, Newline, Control
  <2> QED
    BY <1>2, <2>1, <2>2
<1> QED
  BY <1>1, <1>3, <1>4, <1>5

LEMMA WordsAre ==
  {"level", "event", "tid", "file", "line", "func", " ", "=", "(", ")", ":", "[0m", "ts", "{", "}"}
    \subseteq Chars \ Special
  BY DEF Chars, Words, Special, Quote, Backslash, Newline, Control

-----------------------------------------------------------------------------
(* Entries.                                                                 *)

Entry ==
  [time : Times, level : 0..5, event : Line, bound : FieldSet \cup {Null}, fields : FieldSet,
   location : Location, thread_id : Nat]

\* What is bound and what the record's fields are is what was said.
Recorded(e, says) ==
  \E b, f \in Seq(Saying) :
    /\ says = b \o f
    /\ IF e.bound = Null THEN b = <<>> ELSE Written(e.bound, b)
    /\ Written(e.fields, f)

\* Its numbers and its stamp are of characters that mean nothing else.
Stamped(e) ==
  /\ \A p \in Precisions : Digits(Time(e, p))
  /\ e.thread_id # 0 => Digits(Number(e.thread_id))
  /\ valid(e.location) => Digits(Number(e.location.line))

LEMMA EntryIs ==
  ASSUME NEW e \in Entry
  PROVE  /\ e.level \in 0..5 /\ e.event \in Line /\ e.fields \in FieldSet
         /\ e.bound # Null => e.bound \in FieldSet
         /\ valid(e.location) => e.location.file \in Line
         /\ e.location.function # Null => e.location.function \in Line
  BY CharsAre DEF Entry, Location, valid

LEMMA LocationReads ==
  ASSUME NEW e \in Entry, Stamped(e)
  PROVE  Reads(LocationJson(e.location), Located(e))
<1>1. CASE ~valid(e.location)
  BY <1>1, ReadsNothing DEF LocationJson, Located
<1>2. CASE valid(e.location)
  <2>1. PICK file \in Line : file = e.location.file
    BY <1>2, EntryIs
  <2>2. Reads(Quoted(file), <<Str(file)>>)
    BY QuotedReads
  <2>3. PICK n : n = Number(e.location.line) /\ Reads(n, Marks(n))
    BY <1>2, DigitsIs DEF Stamped
  <2>4. Reads(Name("file") \o Quoted(file), Member(<<"file">>, <<Str(file)>>))
    BY <2>2, WordsAre, NameReads
  <2>5. Reads(Name("file") \o Quoted(file) \o Name("line") \o n,
              Member(<<"file">>, <<Str(file)>>) \o Member(<<"line">>, Marks(n)))
    BY <2>3, <2>4, WordsAre, NamedReads
  <2> DEFINE fn == e.location.function
             g == IF fn = Null THEN <<>> ELSE Name("func") \o Quoted(fn)
             z == IF fn = Null THEN <<>> ELSE Member(<<"func">>, <<Str(fn)>>)
  <2>6. Reads(g, z)
    <3>1. CASE fn = Null
      BY <3>1, ReadsNothing
    <3>2. CASE fn # Null
      <4>1. Reads(Quoted(fn), <<Str(fn)>>)
        BY <3>2, EntryIs, QuotedReads
      <4>2. Reads(Name("func") \o Quoted(fn), Member(<<"func">>, <<Str(fn)>>))
        BY <4>1, WordsAre, NameReads
      <4> QED
        BY <3>2, <4>2
    <3> QED
      BY <3>1, <3>2
  <2> HIDE DEF g, z
  <2>7. Reads(Name("file") \o Quoted(file) \o Name("line") \o n \o g,
              Member(<<"file">>, <<Str(file)>>) \o Member(<<"line">>, Marks(n)) \o z)
    BY <2>5, <2>6, ReadsConcat
  <2>8. LocationJson(e.location) = Name("file") \o Quoted(file) \o Name("line") \o n \o g
    BY <1>2, <2>1, <2>3 DEF LocationJson, g
  <2>9. Located(e) = Member(<<"file">>, <<Str(file)>>) \o Member(<<"line">>, Marks(n)) \o z
    BY <1>2, <2>1, <2>3 DEF Located, z
  <2> QED
    BY <2>7, <2>8, <2>9
<1> QED
  BY <1>1, <1>2

\* What is sound of both parts is sound of each.
LEMMA PartsSound ==
  ASSUME NEW b \in Seq(Saying), NEW f \in Seq(Saying), NEW says, says = b \o f, NEW R,
         \A i \in 1..Len(says) : says[i] \in R
  PROVE  (\A i \in 1..Len(b) : b[i] \in R) /\ (\A i \in 1..Len(f) : f[i] \in R)
<1>1. PICK m \in Nat, n \in Nat : m = Len(b) /\ n = Len(f)
  BY LenProperties
<1>2. Len(says) = m + n /\ \A i \in 1..m + n : says[i] = IF i <= m THEN b[i] ELSE f[i - m]
  BY <1>1, ConcatProperties
<1>3. \A i \in 1..m : b[i] \in R
  <2>1. \A i \in 1..m : i \in 1..m + n /\ i <= m
    OBVIOUS
  <2> QED
    BY <1>2, <2>1
<1>4. \A i \in 1..n : f[i] \in R
  <2> TAKE i \in 1..n
  <2>1. m + i \in 1..m + n /\ ~(m + i <= m) /\ m + i - m = i
    OBVIOUS
  <2>2. PICK j \in 1..m + n : j = m + i
    BY <2>1
  <2>3. says[j] = f[i] /\ says[j] \in R
    BY <1>2, <2>1, <2>2
  <2> QED
    BY <2>3
<1> QED
  BY <1>1, <1>3, <1>4

\* A list of what was said, as either formatter maps it.
LEMMA BothMapped ==
  ASSUME NEW g \in [Saying -> Items], NEW b \in Seq(Saying), NEW f \in Seq(Saying)
  PROVE  FlattenSeq(Mapped(g, b \o f)) = FlattenSeq(Mapped(g, b)) \o FlattenSeq(Mapped(g, f))
<1>1. Mapped(g, b) \in Seq(Items) /\ Mapped(g, f) \in Seq(Items)
  BY MappedIs
<1>2. Mapped(g, b \o f) = Mapped(g, b) \o Mapped(g, f)
  BY MappedConcat
<1> QED
  BY <1>1, <1>2, BothJoin, FlattenConcat

LEMMA NothingMapped ==
  ASSUME NEW g
  PROVE  FlattenSeq(Mapped(g, <<>>)) = <<>>
<1>1. Mapped(g, <<>>) = <<>>
  BY DEF Mapped
<1> QED
  BY <1>1 DEF FlattenSeq

(* A JSON line reads as the entry's members.                                *)
LEMMA JsonReads ==
  ASSUME NEW e \in Entry, NEW says, Recorded(e, says), Stamped(e),
         \A i \in 1..Len(says) : Sound(says[i]), NEW precision \in Precisions
  PROVE  Reads(JsonFormat(e, precision),
           <<Mark("{"), Str(<<"ts">>), Mark(":"), Str(Time(e, precision))>>
           \o Member(<<"level">>, <<Str(<<level_name[e.level + 1]>>)>>)
           \o Member(<<"event">>, <<Str(e.event)>>)
           \o FlattenSeq([i \in 1..Len(says) |-> Member(says[i].key, Meaning(says[i].value))])
           \o (IF e.thread_id = 0 THEN <<>> ELSE Member(<<"tid">>, Marks(Number(e.thread_id))))
           \o Located(e)
           \o <<Mark("}")>>)
<1>1. PICK p1, x1 :
        /\ p1 = <<"{", Quote, "ts">> \o Colon \o <<Quote>> \o Time(e, precision) \o <<Quote>>
        /\ x1 = <<Mark("{"), Str(<<"ts">>), Mark(":"), Str(Time(e, precision))>>
        /\ Reads(p1, x1)
  <2>1. PICK t : t = Time(e, precision)
    OBVIOUS
  <2>2. Digits(t)
    BY <2>1 DEF Stamped
  <2>3. t \in Line /\ Plain(t)
    BY <2>2, DigitsIs
  <2>4. Reads(<<"{", Quote, "ts">> \o Colon \o <<Quote>> \o t \o <<Quote>>,
              <<Mark("{"), Str(<<"ts">>), Mark(":"), Str(t)>>)
    BY <2>3, StampReads
  <2> QED
    BY <2>1, <2>4
<1>2. PICK p2, x2 :
        /\ p2 = p1 \o Name("level") \o <<Quote, level_name[e.level + 1], Quote>>
        /\ x2 = x1 \o Member(<<"level">>, <<Str(<<level_name[e.level + 1]>>)>>)
        /\ Reads(p2, x2)
  <2>1. e.level + 1 \in 1..6
    BY EntryIs
  <2>2. PICK w \in Chars \ Special : w = level_name[e.level + 1]
    BY <2>1, LevelsAre
  <2>3. PICK t \in Line : t = <<w>> /\ Plain(t)
    BY PlainChar DEF Special
  <2>4. Quoted(t) = <<Quote, w, Quote>>
    <3>1. Quoted(t) = <<Quote>> \o <<w>> \o <<Quote>>
      BY <2>3, EscapeIs DEF Quoted
    <3>2. Quote \in Chars
      BY Distinct
    <3> QED
      BY <3>1, <3>2, Triple
  <2>5. Reads(<<Quote, w, Quote>>, <<Str(t)>>)
    BY <2>4, QuotedReads
  <2>6. "level" \in Chars \ Special
    BY WordsAre
  <2>7. Reads(p1 \o Name("level") \o <<Quote, w, Quote>>, x1 \o Member(<<"level">>, <<Str(t)>>))
    BY <1>1, <2>5, <2>6, NamedReads
  <2> QED
    BY <2>2, <2>3, <2>7
<1>3. PICK p3, x3 :
        /\ p3 = p2 \o Name("event") \o Quoted(e.event)
        /\ x3 = x2 \o Member(<<"event">>, <<Str(e.event)>>)
        /\ Reads(p3, x3)
  <2>1. Reads(Quoted(e.event), <<Str(e.event)>>)
    BY EntryIs, QuotedReads
  <2>2. "event" \in Chars \ Special
    BY WordsAre
  <2>3. Reads(p2 \o Name("event") \o Quoted(e.event), x2 \o Member(<<"event">>, <<Str(e.event)>>))
    BY <1>2, <2>1, <2>2, NamedReads
  <2> QED
    BY <2>3
<1>4. PICK b \in Seq(Saying), f \in Seq(Saying) :
        /\ says = b \o f
        /\ IF e.bound = Null THEN b = <<>> ELSE Written(e.bound, b)
        /\ Written(e.fields, f)
  BY DEF Recorded
<1>5. (\A i \in 1..Len(b) : Sound(b[i])) /\ (\A i \in 1..Len(f) : Sound(f[i]))
  <2> DEFINE R == {s \in Saying : Sound(s)}
  <2>1. \A i \in 1..Len(says) : says[i] \in R
    <3>1. says \in Seq(Saying)
      BY <1>4, ConcatProperties
    <3> QED
      BY <3>1, ElementOfSeq
  <2>2. (\A i \in 1..Len(b) : b[i] \in R) /\ (\A i \in 1..Len(f) : f[i] \in R)
    <3> HIDE DEF R
    <3> QED
      BY <1>4, <2>1, PartsSound, ZenonT(40)
  <2> QED
    BY <2>2
<1> DEFINE buf == IF e.bound = Null THEN <<>> ELSE e.bound.buf
<1>6. PICK xb, xf : /\ xb = FlattenSeq(Mapped(MemberOf, b)) /\ xf = FlattenSeq(Mapped(MemberOf, f))
                    /\ Reads(buf, xb) /\ Reads(e.fields.buf, xf)
  <2>1. Reads(buf, FlattenSeq(Mapped(MemberOf, b)))
    <3>1. CASE e.bound = Null
      BY <1>4, <3>1, NothingMapped, ReadsNothing
    <3>2. CASE e.bound # Null
      BY <1>4, <1>5, <3>2 DEF Written
    <3> QED
      BY <3>1, <3>2
  <2>2. Reads(e.fields.buf, FlattenSeq(Mapped(MemberOf, f)))
    BY <1>4, <1>5 DEF Written
  <2> QED
    BY <2>1, <2>2
<1> HIDE DEF buf
<1>7. PICK xs : /\ xs = FlattenSeq([i \in 1..Len(says) |-> Member(says[i].key, Meaning(says[i].value))])
                /\ xs = xb \o xf
  <2>1. Mapped(MemberOf, says) = [i \in 1..Len(says) |-> Member(says[i].key, Meaning(says[i].value))]
    <3>1. says \in Seq(Saying)
      BY <1>4, ConcatProperties
    <3>2. \A i \in 1..Len(says) : MemberOf[says[i]] = Member(says[i].key, Meaning(says[i].value))
      BY <3>1, ElementOfSeq, MemberOfIs
    <3> QED
      BY <3>2 DEF Mapped
  <2>2. FlattenSeq(Mapped(MemberOf, b \o f)) = xb \o xf
    BY <1>6, MemberOfIs, BothMapped
  <2> QED
    BY <1>4, <2>1, <2>2
<1>8. PICK p4, x4 : p4 = p3 \o buf \o e.fields.buf /\ x4 = x3 \o xs /\ Reads(p4, x4)
  <2>1. Reads(p3 \o buf \o e.fields.buf, x3 \o xb \o xf)
    BY <1>3, <1>6, ReadsThree
  <2>2. x3 \in Items /\ xb \in Items /\ xf \in Items
    BY <1>3, <1>6 DEF Reads
  <2>3. x3 \o xb \o xf = x3 \o (xb \o xf)
    BY <2>2, ItemRegroup
  <2> QED
    BY <1>7, <2>1, <2>3
<1> DEFINE tid == IF e.thread_id = 0 THEN <<>> ELSE Name("tid") \o Number(e.thread_id)
           xt == IF e.thread_id = 0 THEN <<>> ELSE Member(<<"tid">>, Marks(Number(e.thread_id)))
<1>9. Reads(tid, xt)
  <2>1. CASE e.thread_id = 0
    BY <2>1, ReadsNothing
  <2>2. CASE e.thread_id # 0
    <3>1. "tid" \in Chars \ Special
      BY WordsAre
    <3>2. Reads(Number(e.thread_id), Marks(Number(e.thread_id)))
      BY <2>2, DigitsIs DEF Stamped
    <3>3. Reads(Name("tid") \o Number(e.thread_id), Member(<<"tid">>, Marks(Number(e.thread_id))))
      BY <3>1, <3>2, NameReads
    <3> QED
      BY <2>2, <3>3
  <2> QED
    BY <2>1, <2>2
<1> HIDE DEF tid, xt
<1>10. Reads(p4 \o tid \o LocationJson(e.location), x4 \o xt \o Located(e))
  BY <1>8, <1>9, LocationReads, ReadsThree
<1>11. Reads(p4 \o tid \o LocationJson(e.location) \o <<"}">>, x4 \o xt \o Located(e) \o <<Mark("}")>>)
  BY <1>10, PunctuationReads, ReadsConcat
<1>12. JsonFormat(e, precision) = p4 \o tid \o LocationJson(e.location) \o <<"}">>
  BY <1>1, <1>2, <1>3, <1>8 DEF JsonFormat, buf, tid
<1> QED
  BY <1>1, <1>2, <1>3, <1>7, <1>8, <1>11, <1>12 DEF xt

-----------------------------------------------------------------------------
(* Text lines.                                                              *)

TextOf == [s \in Saying |-> Marks(<<" ">> \o s.key \o <<"=">>) \o Meaning(s.value)]

LEMMA MarksType ==
  ASSUME NEW t \in Line
  PROVE  Marks(t) \in Items
<1>1. PICK n \in Nat : n = Len(t) /\ \A i \in 1..n : t[i] \in Chars
  BY LineAppends
<1>2. \A i \in 1..n : Mark(t[i]) \in Item
  BY <1>1 DEF Mark, Item
<1> QED
  BY <1>1, <1>2 DEF Marks, Items

LEMMA HeadIs ==
  ASSUME NEW k \in Line
  PROVE  /\ <<" ">> \o k \o <<"=">> \in Line
         /\ Plain(k) => Plain(<<" ">> \o k \o <<"=">>)
<1>1. " " \in Chars \ Special /\ "=" \in Chars \ Special
  BY WordsAre
<1>2. PICK o \in Line, c \in Line : o = <<" ">> /\ c = <<"=">> /\ Plain(o) /\ Plain(c)
  BY <1>1, PlainChar DEF Special
<1>3. PICK ok \in Line : ok = o \o k
  BY Lines
<1>4. Plain(k) => Plain(ok)
  BY <1>2, <1>3, PlainConcat
<1>5. ok \o c \in Line /\ (Plain(k) => Plain(ok \o c))
  BY <1>2, <1>4, Lines, PlainConcat
<1> QED
  BY <1>2, <1>3, <1>5

LEMMA TextOfIs ==
  /\ TextOf \in [Saying -> Items]
  /\ \A s \in Saying : TextOf[s] = Marks(<<" ">> \o s.key \o <<"=">>) \o Meaning(s.value)
<1>1. ASSUME NEW s \in Saying
      PROVE  Marks(<<" ">> \o s.key \o <<"=">>) \o Meaning(s.value) \in Items
  <2>1. PICK t \in Line : t = <<" ">> \o s.key \o <<"=">>
    BY SayingIs, HeadIs
  <2>2. Marks(t) \in Items /\ Meaning(s.value) \in Items
    BY MarksType, ValueReads
  <2> QED
    BY <2>1, <2>2, ItemLists
<1> QED
  BY <1>1 DEF TextOf

\* A field as the text formatter shows it.
LEMMA FieldReads ==
  ASSUME NEW s \in Saying, Sound(s), Plain(s.key)
  PROVE  Reads(<<" ">> \o s.key \o <<"=">> \o ValueText(s), TextOf[s])
<1>1. PICK t \in Line : t = <<" ">> \o s.key \o <<"=">> /\ Plain(t)
  BY SayingIs, HeadIs
<1>2. Reads(t, Marks(t))
  BY <1>1, PlainReads
<1>3. Reads(ValueText(s), Meaning(s.value))
  BY ValueReads
<1>4. Reads(t \o ValueText(s), Marks(t) \o Meaning(s.value))
  BY <1>2, <1>3, ReadsConcat
<1> QED
  BY <1>1, <1>4, TextOfIs

LEMMA FieldsRead ==
  ASSUME NEW fs, NEW says, Written(fs, says), byte_size(fs) <= OffsetModulus,
         \A i \in 1..Len(says) : Sound(says[i]) /\ Plain(says[i].key)
  PROVE  Reads(append_fields(fs), FlattenSeq(Mapped(TextOf, says)))
<1>1. PICK n \in Nat : n = Len(says) /\ n = size(fs) /\ \A i \in 1..n : says[i] \in Saying
  BY LenProperties, ElementOfSeq DEF Written
<1> DEFINE part(i) == <<" ">> \o key(fs, i) \o <<"=">> \o value(fs, i)
           q == [i \in 1..n |-> part(i)]
<1>2. append_fields(fs) = FlattenSeq(q)
  BY <1>1 DEF append_fields
<1>3. ASSUME NEW i \in 1..n
      PROVE  Reads(part(i), TextOf[says[i]])
  <2>1. PICK s \in Saying : s = says[i] /\ Sound(s) /\ Plain(s.key)
    BY <1>1
  <2>2. Shows(fs, i, s)
    BY <1>1, <2>1 DEF Written
  <2>3. escape_json(s.key) \in Line /\ ValueText(s) \in Line
    BY SayingIs, EscapeIs, ValueReads
  <2>4. key(fs, i) = escape_json(s.key)
    BY <2>2, <2>3, PlacedIs DEF Shows, key
  <2>5. value(fs, i) = ValueText(s)
    BY <2>2, <2>3, PlacedIs DEF Shows, value
  <2>6. escape_json(s.key) = s.key
    BY <2>1, SayingIs, EscapeIs
  <2> QED
    BY <2>1, <2>4, <2>5, <2>6, FieldReads
<1> HIDE DEF part
<1>4. PICK x \in Seq(Items) : x = Mapped(TextOf, says) /\ Len(x) = n /\ \A i \in 1..n : x[i] = TextOf[says[i]]
  <2>1. says \in Seq(Saying)
    BY DEF Written
  <2>2. TextOf \in [Saying -> Items]
    BY TextOfIs
  <2>3. /\ Mapped(TextOf, says) \in Seq(Items) /\ Len(Mapped(TextOf, says)) = Len(says)
        /\ \A i \in 1..Len(says) : Mapped(TextOf, says)[i] = TextOf[says[i]]
    BY <2>1, <2>2, MappedIs, ZenonT(40)
  <2> QED
    BY <1>1, <2>3
<1>5. q \in Seq(Line) /\ Len(q) = n /\ \A i \in 1..n : q[i] = part(i)
  <2>1. \A i \in 1..n : part(i) \in Line
    BY <1>3 DEF Reads
  <2>2. q \in [1..n -> Line]
    BY <2>1
  <2> QED
    BY <2>2
<1> HIDE DEF q
<1>6. Reads(FlattenSeq(q), FlattenSeq(x))
  BY <1>3, <1>4, <1>5, FlattenReads
<1> QED
  BY <1>2, <1>4, <1>6

\* The name of a file, without its directories.
LEMMA FileNameIs ==
  ASSUME NEW e \in Entry, valid(e.location)
  PROVE  file_name(e.location) \in Line
<1>1. PICK f \in Line : f = e.location.file
  BY EntryIs
<1>2. PICK n \in Nat : n = Len(f) /\ \A i \in 1..n : f[i] \in Chars
  BY LineAppends
<1> DEFINE separators == {i \in 1..Len(f) : f[i] \in {"/", Backslash}}
<1>3. CASE separators = {}
  BY <1>1, <1>3 DEF file_name
<1>4. CASE separators # {}
  <2>1. \E m \in separators : \A i \in separators : i <= m
    <3> DEFINE T == {n - i : i \in separators}
    <3>1. separators \subseteq 1..n
      BY <1>2
    <3> HIDE DEF separators
    <3>2. T \subseteq Nat /\ T # {}
      <4>1. \A i \in separators : n - i \in Nat
        BY <3>1
      <4>2. PICK i \in separators : TRUE
        BY <1>4
      <4>3. n - i \in T
        BY <4>2
      <4> QED
        BY <4>1, <4>3
    <3>3. PICK k \in T : \A j \in T : k <= j
      <4> HIDE DEF T
      <4> QED
        BY <3>2, Least
    <3>4. PICK m \in separators : k = n - m
      OBVIOUS
    <3>5. \A i \in separators : n - m <= n - i
      BY <3>3, <3>4
    <3> QED
      BY <3>1, <3>4, <3>5
  <2>2. PICK m : m = Max(separators)
    OBVIOUS
  <2>3. m \in separators
    <3> HIDE DEF separators
    <3>1. \E x \in separators : \A y \in separators : x >= y
      <4>1. PICK x \in separators : \A i \in separators : i <= x
        BY <2>1
      <4> QED
        BY <4>1
    <3> QED
      BY <2>2, <3>1 DEF Max
  <2>4. m \in 1..n
    BY <1>2, <2>3
  <2>5. SubSeq(f, m + 1, n) \in Line
    <3>1. \A i \in m + 1..n : f[i] \in Chars
      BY <1>2, <2>4
    <3>2. SubSeq(f, m + 1, n) \in Seq(Chars)
      BY <2>4, <3>1, SubSeqProperties
    <3> QED
      BY <3>2 DEF Line
  <2>6. file_name(e.location) = SubSeq(f, m + 1, n)
    BY <1>1, <1>2, <1>4, <2>2 DEF file_name
  <2> QED
    BY <2>5, <2>6
<1> QED
  BY <1>3, <1>4

LEMMA LabelIs ==
  ASSUME NEW lvl \in 0..5, NEW color
  PROVE  Label(lvl, color) \in Line /\ Plain(Label(lvl, color))
<1>1. PICK c \in Chars \ Special, l \in Chars \ Special, r \in Chars \ Special :
        c = color_for[lvl + 1] /\ l = level_label[lvl + 1] /\ r = "[0m"
  <2>1. lvl + 1 \in 1..6
    OBVIOUS
  <2>2. color_for[lvl + 1] \in Chars \ Special /\ level_label[lvl + 1] \in Chars \ Special
    BY <2>1, LevelsAre
  <2>3. "[0m" \in Chars \ Special
    BY WordsAre
  <2> QED
    BY <2>2, <2>3
<1>2. <<c, l, r>> \in Line /\ Plain(<<c, l, r>>)
  <2>1. <<c, l, r>> \in Line
    BY Few
  <2>2. \A i \in 1..3 : <<c, l, r>>[i] \notin Special
    <3>1. \A i \in 1..3 : i = 1 \/ i = 2 \/ i = 3
      OBVIOUS
    <3> QED
      BY <3>1
  <2>3. Len(<<c, l, r>>) = 3
    OBVIOUS
  <2> QED
    BY <2>1, <2>2, <2>3 DEF Plain, Special
<1>3. <<l>> \in Line /\ Plain(<<l>>)
  BY PlainChar DEF Special
<1> QED
  BY <1>1, <1>2, <1>3 DEF Label

LEMMA WordsTogether ==
  /\ <<" ">> \in Line /\ Plain(<<" ">>)
  /\ <<":">> \in Line /\ Plain(<<":">>)
  /\ <<")">> \in Line /\ Plain(<<")">>)
  /\ <<" ", "(">> \in Line /\ Plain(<<" ", "(">>)
  /\ <<" ", "tid", "=">> \in Line /\ Plain(<<" ", "tid", "=">>)
<1>1. \A c \in Chars \ Special : <<c>> \in Line /\ Plain(<<c>>)
  BY PlainChar DEF Special
<1>2. \A c, d \in Chars \ Special : <<c, d>> \in Line /\ Plain(<<c, d>>)
  BY <1>1, Two, PlainConcat
<1>3. \A c, d, e \in Chars \ Special : <<c, d, e>> \in Line /\ Plain(<<c, d, e>>)
  <2> TAKE c, d, e \in Chars \ Special
  <2>1. PICK cd \in Line : cd = <<c>> \o <<d>> /\ Plain(cd)
    BY <1>1, PlainConcat
  <2>2. cd \o <<e>> \in Line /\ Plain(cd \o <<e>>)
    BY <1>1, <2>1, PlainConcat
  <2> QED
    BY <2>1, <2>2, Triple
<1> QED
  BY <1>1, <1>2, <1>3, WordsAre

(* A text line reads as the prefix's characters, the fields, and the rest's. *)
LEMMA TextReads ==
  ASSUME NEW e \in Entry, NEW says, Recorded(e, says), Stamped(e), NEW opts \in TextOptions,
         \A i \in 1..Len(says) : Sound(says[i]) /\ Plain(says[i].key),
         Plain(e.event),
         valid(e.location) => Plain(file_name(e.location)),
         e.bound # Null => byte_size(e.bound) <= OffsetModulus,
         byte_size(e.fields) <= OffsetModulus
  PROVE  Reads(TextFormat(e, opts),
           Marks(Time(e, opts.precision) \o <<" ">> \o Label(e.level, opts.color) \o <<" ">> \o e.event)
           \o FlattenSeq([i \in 1..Len(says) |->
                Marks(<<" ">> \o says[i].key \o <<"=">>) \o Meaning(says[i].value)])
           \o (IF opts.show_thread_id /\ e.thread_id # 0
                 THEN Marks(<<" ", "tid", "=">> \o Number(e.thread_id)) ELSE <<>>)
           \o IF opts.show_location /\ valid(e.location)
                THEN Marks(<<" ", "(">> \o file_name(e.location) \o <<":">>
                           \o Number(e.location.line) \o <<")">>)
                ELSE <<>>)
<1>1. PICK p \in Line :
        /\ p = Time(e, opts.precision) \o <<" ">> \o Label(e.level, opts.color) \o <<" ">> \o e.event
        /\ Plain(p)
  <2>1. PICK t \in Line : t = Time(e, opts.precision) /\ Plain(t)
    <3>1. PICK t : t = Time(e, opts.precision)
      OBVIOUS
    <3>2. Digits(t)
      BY <3>1 DEF Stamped, TextOptions
    <3>3. t \in Line /\ Plain(t)
      BY <3>2, DigitsIs
    <3> QED
      BY <3>1, <3>3
  <2>2. PICK l \in Line : l = Label(e.level, opts.color) /\ Plain(l)
    BY EntryIs, LabelIs
  <2>3. PICK s \in Line : s = <<" ">> /\ Plain(s)
    BY WordsTogether
  <2>4. PICK a \in Line : a = t \o s /\ Plain(a)
    BY <2>1, <2>3, PlainConcat
  <2>5. PICK c \in Line : c = a \o l /\ Plain(c)
    BY <2>2, <2>4, PlainConcat
  <2>6. PICK d \in Line : d = c \o s /\ Plain(d)
    BY <2>3, <2>5, PlainConcat
  <2>7. d \o e.event \in Line /\ Plain(d \o e.event)
    BY <2>6, EntryIs, PlainConcat
  <2> QED
    BY <2>1, <2>2, <2>3, <2>4, <2>5, <2>6, <2>7
<1>2. Reads(p, Marks(p))
  BY <1>1, PlainReads
<1>3. PICK b \in Seq(Saying), f \in Seq(Saying) :
        /\ says = b \o f
        /\ IF e.bound = Null THEN b = <<>> ELSE Written(e.bound, b)
        /\ Written(e.fields, f)
  BY DEF Recorded
<1> DEFINE R == {s \in Saying : Sound(s) /\ Plain(s.key)}
<1>4. (\A i \in 1..Len(b) : b[i] \in R) /\ (\A i \in 1..Len(f) : f[i] \in R)
  <2>1. \A i \in 1..Len(says) : says[i] \in R
    <3>1. says \in Seq(Saying)
      BY <1>3, ConcatProperties
    <3> QED
      BY <3>1, ElementOfSeq
  <2> HIDE DEF R
  <2> QED
    BY <1>3, <2>1, PartsSound, ZenonT(40)
<1> DEFINE bound == IF e.bound = Null THEN <<>> ELSE append_fields(e.bound)
<1>5. PICK xb, xf : /\ xb = FlattenSeq(Mapped(TextOf, b)) /\ xf = FlattenSeq(Mapped(TextOf, f))
                    /\ Reads(bound, xb) /\ Reads(append_fields(e.fields), xf)
  <2>1. Reads(bound, FlattenSeq(Mapped(TextOf, b)))
    <3>1. CASE e.bound = Null
      BY <1>3, <3>1, NothingMapped, ReadsNothing
    <3>2. CASE e.bound # Null
      BY <1>3, <1>4, <3>2, FieldsRead
    <3> QED
      BY <3>1, <3>2
  <2>2. Reads(append_fields(e.fields), FlattenSeq(Mapped(TextOf, f)))
    BY <1>3, <1>4, FieldsRead
  <2> QED
    BY <2>1, <2>2
<1> HIDE DEF bound
<1>6. PICK xs : /\ xs = FlattenSeq([i \in 1..Len(says) |->
                          Marks(<<" ">> \o says[i].key \o <<"=">>) \o Meaning(says[i].value)])
                /\ xs = xb \o xf
  <2>1. Mapped(TextOf, says) = [i \in 1..Len(says) |->
                          Marks(<<" ">> \o says[i].key \o <<"=">>) \o Meaning(says[i].value)]
    <3>1. says \in Seq(Saying)
      BY <1>3, ConcatProperties
    <3>2. \A i \in 1..Len(says) : says[i] \in Saying
      BY <3>1, ElementOfSeq
    <3>3. \A i \in 1..Len(says) : TextOf[says[i]] = Marks(<<" ">> \o says[i].key \o <<"=">>) \o Meaning(says[i].value)
      BY <3>2, TextOfIs
    <3> QED
      BY <3>3 DEF Mapped
  <2>2. TextOf \in [Saying -> Items]
    BY TextOfIs
  <2>3. FlattenSeq(Mapped(TextOf, b \o f)) = xb \o xf
    BY <1>5, <2>2, BothMapped
  <2> QED
    BY <1>3, <2>1, <2>3
<1>7. Reads(p \o bound \o append_fields(e.fields), Marks(p) \o xs)
  <2>1. Reads(p \o bound \o append_fields(e.fields), Marks(p) \o xb \o xf)
    BY <1>2, <1>5, ReadsThree
  <2>2. Marks(p) \in Items /\ xb \in Items /\ xf \in Items
    BY <1>2, <1>5 DEF Reads
  <2>3. Marks(p) \o xb \o xf = Marks(p) \o (xb \o xf)
    BY <2>2, ItemRegroup
  <2>4. xs = xb \o xf
    BY <1>6
  <2> QED
    BY <2>1, <2>3, <2>4
<1> DEFINE thread == IF opts.show_thread_id /\ e.thread_id # 0
                       THEN <<" ", "tid", "=">> \o Number(e.thread_id) ELSE <<>>
           xt == IF opts.show_thread_id /\ e.thread_id # 0
                   THEN Marks(<<" ", "tid", "=">> \o Number(e.thread_id)) ELSE <<>>
<1>8. Reads(thread, xt)
  <2>1. CASE ~(opts.show_thread_id /\ e.thread_id # 0)
    BY <2>1, ReadsNothing
  <2>2. CASE opts.show_thread_id /\ e.thread_id # 0
    <3>1. PICK w \in Line : w = <<" ", "tid", "=">> /\ Plain(w)
      BY WordsTogether
    <3>2. PICK n \in Line : n = Number(e.thread_id) /\ Plain(n)
      BY <2>2, DigitsIs DEF Stamped
    <3>3. w \o n \in Line /\ Plain(w \o n)
      BY <3>1, <3>2, PlainConcat
    <3>4. Reads(w \o n, Marks(w \o n))
      BY <3>3, PlainReads
    <3> QED
      BY <2>2, <3>1, <3>2, <3>4
  <2> QED
    BY <2>1, <2>2
<1> DEFINE place == IF opts.show_location /\ valid(e.location)
                      THEN <<" ", "(">> \o file_name(e.location) \o <<":">>
                           \o Number(e.location.line) \o <<")">>
                      ELSE <<>>
           xp == IF opts.show_location /\ valid(e.location)
                   THEN Marks(<<" ", "(">> \o file_name(e.location) \o <<":">>
                              \o Number(e.location.line) \o <<")">>)
                   ELSE <<>>
<1>9. Reads(place, xp)
  <2>1. CASE ~(opts.show_location /\ valid(e.location))
    BY <2>1, ReadsNothing
  <2>2. CASE opts.show_location /\ valid(e.location)
    <3>1. PICK w \in Line : w = <<" ", "(">> /\ Plain(w)
      BY WordsTogether
    <3>2. PICK f1 \in Line : f1 = file_name(e.location) /\ Plain(f1)
      BY <2>2, FileNameIs
    <3>3. PICK c \in Line : c = <<":">> /\ Plain(c)
      BY WordsTogether
    <3>4. PICK n \in Line : n = Number(e.location.line) /\ Plain(n)
      BY <2>2, DigitsIs DEF Stamped
    <3>5. PICK z \in Line : z = <<")">> /\ Plain(z)
      BY WordsTogether
    <3>6. PICK wf \in Line : wf = w \o f1 /\ Plain(wf)
      BY <3>1, <3>2, PlainConcat
    <3>7. PICK wfc \in Line : wfc = wf \o c /\ Plain(wfc)
      BY <3>3, <3>6, PlainConcat
    <3>8. PICK wfcn \in Line : wfcn = wfc \o n /\ Plain(wfcn)
      BY <3>4, <3>7, PlainConcat
    <3>9. wfcn \o z \in Line /\ Plain(wfcn \o z)
      BY <3>5, <3>8, PlainConcat
    <3>10. Reads(wfcn \o z, Marks(wfcn \o z))
      BY <3>9, PlainReads
    <3> QED
      BY <2>2, <3>1, <3>2, <3>3, <3>4, <3>5, <3>6, <3>7, <3>8, <3>10
  <2> QED
    BY <2>1, <2>2
<1> HIDE DEF thread, xt, place, xp
<1>10. Reads(p \o bound \o append_fields(e.fields) \o thread \o place, Marks(p) \o xs \o xt \o xp)
  BY <1>7, <1>8, <1>9, ReadsThree
<1>11. TextFormat(e, opts) = p \o bound \o append_fields(e.fields) \o thread \o place
  BY <1>1 DEF TextFormat, bound, thread, place
<1> QED
  BY <1>1, <1>6, <1>10, <1>11 DEF xt, xp

-----------------------------------------------------------------------------
(* The specification keeps what the lemmas ask of an entry.                  *)

\* An entry is of the fields that were said for it.
Kept ==
  /\ point \in Chars
  /\ entry # Null => entry \in Entry /\ Recorded(entry, said) /\ Stamped(entry)

LEMMA SaidIs ==
  ASSUME NEW k \in Seq(STRING), NEW v \in Value, Printable(v), point \in Chars
  PROVE  Said(k, v) \in Saying
  BY CharsAre DEF Said, Saying, Value

\* What the logger makes of a statement.
LEMMA LogKeeps ==
  ASSUME Kept, NEW c \in Callers, NEW event \in Events, NEW m \in Moments, NEW bindings \in Bindings,
         NEW tid \in BOOLEAN, NEW loc \in BOOLEAN, Log(c, event, m, bindings, tid, loc)
  PROVE  Kept'
<1> DEFINE bound == IF bindings = <<>> THEN Null ELSE Built(bindings, point)
           location == IF loc THEN c.location ELSE NoLocation
           thread == IF tid THEN current_thread_id(c.thread) ELSE 0
<1>1. /\ entry' = [time |-> m.time, level |-> c.level, event |-> event, bound |-> bound,
                   fields |-> EmptyFields, location |-> location, thread_id |-> thread]
      /\ said' = [i \in 1..Len(bindings) |-> Said(bindings[i].key, bindings[i].value)]
      /\ day = m.day /\ day' = day /\ point' = point /\ point \in Chars
  BY DEF Log, Kept
<1>2. said' \in Seq(Saying) /\ Len(said') = Len(bindings)
      /\ \A i \in 1..Len(bindings) : said'[i] = Said(bindings[i].key, bindings[i].value)
  <2>1. PICK n \in Nat : n = Len(bindings) /\ \A i \in 1..n : bindings[i] \in Binding
    BY StatementsAssumption, LenProperties, ElementOfSeq
  <2>2. ASSUME NEW i \in 1..n PROVE Said(bindings[i].key, bindings[i].value) \in Saying
    <3>1. bindings[i].key \in Seq(STRING) /\ bindings[i].value \in Value
      BY <2>1 DEF Binding
    <3>2. Printable(bindings[i].value)
      BY <2>1, PrintingAssumption
    <3> QED
      BY <1>1, <3>1, <3>2, SaidIs
  <2> QED
    BY <1>1, <2>1, <2>2
<1>3. PICK w \in Seq(Saying) : w = said'
  BY <1>2
<1>4. Built(bindings, point) \in FieldSet /\ Written(Built(bindings, point), w)
  <2>1. Len(bindings) = Len(w)
    BY <1>2, <1>3
  <2>2. \A i \in 1..Len(w) : /\ w[i].key = bindings[i].key /\ w[i].value = bindings[i].value
                             /\ w[i].point = point
    <3>1. \A x, y : Said(x, y).key = x /\ Said(x, y).value = y /\ Said(x, y).point = point
      BY DEF Said
    <3>2. \A i \in 1..Len(w) : w[i] = Said(bindings[i].key, bindings[i].value)
      BY <1>2, <1>3
    <3> QED
      BY <3>1, <3>2
  <2> QED
    BY <2>1, <2>2, BuiltWritten
<1>5. Built(bindings, point) # Null
  BY <1>4, StatementsAssumption
<1>6. Recorded(entry', said')
  <2> DEFINE f == <<>>
  <2>1. f \in Seq(Saying) /\ Written(EmptyFields, f) /\ w = w \o f
    BY NothingWritten, ConcatEmptySeq DEF Written
  <2>2. entry'.bound = bound /\ entry'.fields = EmptyFields
    BY <1>1
  <2> HIDE DEF f
  <2>3. IF bound = Null THEN w = <<>> ELSE Written(bound, w)
    <3>1. CASE bindings = <<>>
      <4>1. Len(w) = 0
        BY <1>2, <1>3, <3>1
      <4> QED
        BY <3>1, <4>1, EmptySeq
    <3>2. CASE bindings # <<>>
      BY <1>4, <1>5, <3>2
    <3> QED
      BY <3>1, <3>2
  <2> HIDE DEF bound
  <2> QED
    BY <1>3, <2>1, <2>2, <2>3 DEF Recorded
<1>7. entry' \in Entry
  <2>1. /\ c.level \in 0..5 /\ c.thread \in Nat /\ c.location \in Location /\ event \in Line
        /\ m.time \in Times
    BY StatementsAssumption, CharsAre
  <2>2. bound \in FieldSet \cup {Null}
    BY <1>4
  <2>3. thread \in Nat
    BY <2>1 DEF current_thread_id
  <2>4. location \in Location
    <3>1. NoLocation \in Location
      BY DEF NoLocation, Location
    <3> QED
      BY <2>1, <3>1
  <2>5. EmptyFields \in FieldSet
    BY DEF EmptyFields, FieldSet
  <2> HIDE DEF bound, thread, location
  <2> QED
    BY <1>1, <2>1, <2>2, <2>3, <2>4, <2>5 DEF Entry
<1>8. Stamped(entry)'
  <2>1. /\ entry'.time = m.time /\ entry'.thread_id = thread /\ entry'.location = location
    BY <1>1
  <2>2. \A p \in Precisions : Digits(Time(entry, p)')
    <3>1. \A p \in Precisions : Time(entry, p)' = Number(Stamp(m.day, m.time, p))
      BY <1>1, <2>1 DEF Time, Number
    <3> QED
      BY <3>1, PrintingAssumption
  <2>3. thread # 0 => Digits(Number(thread))
    BY PrintingAssumption
  <2>4. valid(location) => Digits(Number(location.line))
    <3>1. ~valid(NoLocation)
      BY DEF valid, NoLocation
    <3> QED
      BY <3>1, PrintingAssumption
  <2> HIDE DEF thread, location
  <2> QED
    BY <2>1, <2>2, <2>3, <2>4 DEF Stamped, Time
<1> QED
  BY <1>1, <1>6, <1>7, <1>8 DEF Kept

\* What kv() makes of an entry.
LEMMA RecordKvKeeps ==
  ASSUME Kept, NEW k \in Keys, NEW v \in Values, RecordKv(k, v)
  PROVE  Kept'
<1>1. /\ entry # Null /\ entry \in Entry /\ Recorded(entry, said) /\ Stamped(entry) /\ point \in Chars
      /\ entry' = [entry EXCEPT !.fields = kv(entry.fields, k, v, point)]
      /\ said' = Append(said, Said(k, v)) /\ day' = day /\ point' = point
  BY DEF RecordKv, Kept
<1>2. PICK s \in Saying : s = Said(k, v) /\ s.key = k /\ s.value = v /\ s.point = point
  <2>1. k \in Seq(STRING) /\ v \in Value /\ Printable(v)
    BY StatementsAssumption, PrintingAssumption
  <2>2. Said(k, v) \in Saying
    BY <1>1, <2>1, SaidIs
  <2> QED
    BY <2>2 DEF Said
<1>3. PICK b \in Seq(Saying), f \in Seq(Saying) :
        /\ said = b \o f
        /\ IF entry.bound = Null THEN b = <<>> ELSE Written(entry.bound, b)
        /\ Written(entry.fields, f)
  BY <1>1 DEF Recorded
<1>4. PICK new \in FieldSet : new = kv(entry.fields, k, v, point) /\ Written(new, Append(f, s))
  <2>1. entry.fields \in FieldSet
    BY <1>1, EntryIs
  <2>2. kv(entry.fields, s.key, s.value, s.point) \in FieldSet
    BY <2>1, KvType
  <2>3. Written(kv(entry.fields, s.key, s.value, s.point), Append(f, s))
    BY <1>3, <2>1, AddWritten
  <2> QED
    BY <1>2, <2>2, <2>3
<1>5. /\ entry' \in Entry
      /\ entry'.fields = new /\ entry'.bound = entry.bound
      /\ entry'.time = entry.time /\ entry'.thread_id = entry.thread_id
      /\ entry'.location = entry.location
  <2>1. entry' = [entry EXCEPT !.fields = new]
    BY <1>1, <1>4
  <2> QED
    BY <1>1, <2>1 DEF Entry
<1>6. Recorded(entry', said')
  <2>1. PICK g \in Seq(Saying) : g = Append(f, s)
    BY AppendLooks
  <2>2. said' = b \o g
    <3>1. b \o Append(f, s) = Append(b \o f, s)
      BY AppendOfConcat
    <3> QED
      BY <1>1, <1>2, <1>3, <2>1, <3>1
  <2> QED
    BY <1>3, <1>4, <1>5, <2>1, <2>2 DEF Recorded
<1>7. Stamped(entry)'
  BY <1>1, <1>5 DEF Stamped, Time
<1> QED
  BY <1>1, <1>5, <1>6, <1>7 DEF Kept

LEMMA KeptAlways == Spec => []Kept
<1>1. Init => Kept
  <2>1. "." \in Chars
    BY DEF Chars, Words
  <2> QED
    BY <2>1 DEF Init, Kept
<1>2. Kept /\ [Next]_vars => Kept'
  <2> SUFFICES ASSUME Kept, [Next]_vars PROVE Kept'
    OBVIOUS
  <2>1. CASE Calendar
    BY <2>1 DEF Calendar, Kept
  <2>2. ASSUME NEW p \in Points, SetLocale(p) PROVE Kept'
    <3>1. p \in Chars
      BY StatementsAssumption, CharsAre
    <3>2. entry' = entry /\ said' = said /\ day' = day /\ point' = p
      BY <2>2 DEF SetLocale
    <3>3. entry # Null => Recorded(entry, said)' /\ Stamped(entry)'
      BY <3>2 DEF Kept, Stamped, Time, Recorded
    <3> QED
      BY <3>1, <3>2, <3>3 DEF Kept
  <2>3. ASSUME NEW c \in Callers, NEW event \in Events, NEW m \in Moments, NEW b \in Bindings,
               NEW tid \in BOOLEAN, NEW loc \in BOOLEAN, Log(c, event, m, b, tid, loc)
        PROVE  Kept'
    BY <2>3, LogKeeps
  <2>4. ASSUME NEW k \in Keys, NEW v \in Values, RecordKv(k, v) PROVE Kept'
    BY <2>4, RecordKvKeeps
  <2>5. CASE Submit
    BY <2>5 DEF Submit, Kept
  <2>6. CASE UNCHANGED vars
    BY <2>6 DEF vars, Kept, Stamped, Time, Recorded
  <2> QED
    BY <2>1, <2>2, <2>3, <2>4, <2>5, <2>6 DEF Next
<1> QED
  BY <1>1, <1>2, PTL DEF Spec

(* Every JSON line reads back as what was logged, whatever texts, keys and   *)
(* values there are (JsonFormatter::format(), formatters.hpp:39-67).         *)
THEOREM JsonCorrect == Spec => []JsonReadsBack
<1>1. Kept => JsonReadsBack
  <2> SUFFICES ASSUME Kept, entry # Null, SoundlySaid, NEW precision \in Precisions
               PROVE  Read(JsonFormat(entry, precision)) =
                        <<Mark("{"), Str(<<"ts">>), Mark(":"), Str(Time(entry, precision))>>
                        \o Member(<<"level">>, <<Str(<<level_name[entry.level + 1]>>)>>)
                        \o Member(<<"event">>, <<Str(entry.event)>>)
                        \o FlattenSeq([i \in 1..Len(said) |-> Member(said[i].key, Meaning(said[i].value))])
                        \o (IF entry.thread_id = 0 THEN <<>>
                            ELSE Member(<<"tid">>, Marks(Number(entry.thread_id))))
                        \o Located(entry)
                        \o <<Mark("}")>>
    BY DEF JsonReadsBack
  <2>1. /\ entry \in Entry /\ Recorded(entry, said) /\ Stamped(entry)
        /\ \A i \in 1..Len(said) : Sound(said[i])
    BY DEF Kept, SoundlySaid
  <2> QED
    BY <2>1, JsonReads, ReadsIs
<1> QED
  BY <1>1, KeptAlways, PTL

(* Every text line of plain event, keys and file name is one line and reads  *)
(* back, with any options (TextFormatter::format(), formatters.hpp:97-129).  *)
THEOREM TextCorrect == Spec => []TextReadsBack
<1>1. Kept => TextReadsBack
  <2> SUFFICES ASSUME Kept, entry # Null, SoundlySaid, Showable(entry), NEW opts \in TextOptions
               PROVE  Read(TextFormat(entry, opts)) =
                        Marks(Time(entry, opts.precision) \o <<" ">> \o Label(entry.level, opts.color) \o <<" ">>
                              \o entry.event)
                        \o FlattenSeq([i \in 1..Len(said) |->
                             Marks(<<" ">> \o said[i].key \o <<"=">>) \o Meaning(said[i].value)])
                        \o (IF opts.show_thread_id /\ entry.thread_id # 0
                              THEN Marks(<<" ", "tid", "=">> \o Number(entry.thread_id)) ELSE <<>>)
                        \o IF opts.show_location /\ valid(entry.location)
                             THEN Marks(<<" ", "(">> \o file_name(entry.location) \o <<":">>
                                        \o Number(entry.location.line) \o <<")">>)
                             ELSE <<>>
    BY DEF TextReadsBack
  <2>1. /\ entry \in Entry /\ Recorded(entry, said) /\ Stamped(entry)
        /\ \A i \in 1..Len(said) : Sound(said[i]) /\ Plain(said[i].key)
        /\ Plain(entry.event)
        /\ valid(entry.location) => Plain(file_name(entry.location))
        /\ entry.bound # Null => byte_size(entry.bound) <= OffsetModulus
        /\ byte_size(entry.fields) <= OffsetModulus
    BY DEF Kept, SoundlySaid, Showable
  <2> QED
    BY <2>1, TextReads, ReadsIs, ZenonT(40)
<1> QED
  BY <1>1, KeptAlways, PTL

(* Between statements days pass as the calendar says, and at no other time:  *)
(* what is proved of dates, splits and stamps holds beside the formatters.   *)
THEOREM CalendarCorrect == Spec => CalendarSpec
<1>1. Init => CalendarInit
  BY DEF Init
<1>2. [Next]_vars => [CalendarNext]_<<day, date>>
  BY DEF Next, vars, Calendar, SetLocale, Log, RecordKv, Submit
<1> QED
  BY <1>1, <1>2, PTL DEF Spec, CalendarSpec
=============================================================================
