------------------------ MODULE ScopedContextProofs ------------------------
(***************************************************************************)
(* Proofs about ScopedContext, for any number of threads, scopes, fields    *)
(* and levels: the thread-local pointer, the context of a well-nested       *)
(* thread and the fields of a record.                                       *)
(***************************************************************************)
EXTENDS MCRecordFields, FiniteSetTheorems, SequenceTheorems, TLAPS

(* A non-empty set of numbers has a least one; every induction below is the
   choice of a least counterexample.                                       *)
LEMMA Least ==
  ASSUME NEW T, T \subseteq Nat, T # {}
  PROVE  \E n \in T : \A m \in T : n <= m
<1>1. PICK n \in T : \A m \in T : <<m, n>> \notin OpToRel(<, Nat)
  BY NatLessThanWellFounded, WFMin
<1>2. n \in Nat /\ \A m \in T : m \in Nat /\ ~(m < n)
  BY <1>1 DEF OpToRel
<1> QED
  BY <1>2

(* What the constants are.                                                  *)
LEMMA Constants ==
  /\ OffsetModulus \in Nat \ {0}
  /\ None \notin Scopes /\ None \notin Scoped!FieldSet /\ None \notin Scoped!LogRecord
  /\ KvFields \subseteq [key : Seq(STRING), val : Seq(STRING)]
  BY ContextAssumption DEF Scoped!ScopesAssumption, Scoped!OffsetAssumption

-----------------------------------------------------------------------------
(* Sequences and their beginnings.                                          *)

Upto(seq, n) == SubSeq(seq, 1, n)

\* One is what the other begins with.
Begins(s, t) == Len(s) <= Len(t) /\ \A k \in 1..Len(s) : s[k] = t[k]

LEMMA UptoIs ==
  ASSUME NEW S, NEW seq \in Seq(S), NEW n \in 0..Len(seq)
  PROVE  /\ Upto(seq, n) \in Seq(S)
         /\ Len(Upto(seq, n)) = n
         /\ \A i \in 1..n : Upto(seq, n)[i] = seq[i]
<1>1. Len(seq) \in Nat /\ n \in Nat
  OBVIOUS
<1>2. \A i \in 1..n : seq[i] \in S
  BY <1>1, ElementOfSeq
<1>3. /\ SubSeq(seq, 1, n) \in Seq(S)
      /\ Len(SubSeq(seq, 1, n)) = IF 1 <= n THEN n - 1 + 1 ELSE 0
      /\ \A i \in 1..n - 1 + 1 : SubSeq(seq, 1, n)[i] = seq[1 + i - 1]
  BY <1>1, <1>2, SubSeqProperties
<1>4. \A i \in 1..n : i \in 1..n - 1 + 1 /\ 1 + i - 1 = i
  BY <1>1
<1> QED
  BY <1>1, <1>3, <1>4 DEF Upto

LEMMA UptoSteps ==
  ASSUME NEW S, NEW seq \in Seq(S), NEW n \in 1..Len(seq)
  PROVE  /\ n - 1 \in 0..Len(seq) /\ n \in 0..Len(seq)
         /\ seq[n] \in S
         /\ Upto(seq, n) = Append(Upto(seq, n - 1), seq[n])
<1>1. /\ Len(seq) \in Nat /\ n - 1 \in 0..Len(seq) /\ n \in 0..Len(seq) /\ n - 1 \in Nat
      /\ n - 1 + 1 = n
  OBVIOUS
<1>2. seq[n] \in S
  BY ElementOfSeq
<1>3. /\ Upto(seq, n) \in Seq(S) /\ Len(Upto(seq, n)) = n
      /\ \A i \in 1..n : Upto(seq, n)[i] = seq[i]
  BY <1>1, UptoIs
<1>4. /\ Upto(seq, n - 1) \in Seq(S) /\ Len(Upto(seq, n - 1)) = n - 1
      /\ \A i \in 1..n - 1 : Upto(seq, n - 1)[i] = seq[i]
  BY <1>1, UptoIs
<1> DEFINE a == Append(Upto(seq, n - 1), seq[n])
<1>5. /\ a \in Seq(S) /\ Len(a) = Len(Upto(seq, n - 1)) + 1
      /\ \A i \in 1..Len(Upto(seq, n - 1)) : a[i] = Upto(seq, n - 1)[i]
      /\ a[Len(Upto(seq, n - 1)) + 1] = seq[n]
  BY <1>2, <1>4, AppendProperties
<1> HIDE DEF a
<1>6. Len(a) = Len(Upto(seq, n)) /\ \A i \in 1..Len(Upto(seq, n)) : Upto(seq, n)[i] = a[i]
  <2>1. Len(a) = n
    BY <1>1, <1>4, <1>5
  <2>2. ASSUME NEW i \in 1..n PROVE Upto(seq, n)[i] = a[i]
    <3>1. i = n \/ i \in 1..n - 1
      BY <1>1
    <3> QED
      BY <1>1, <1>3, <1>4, <1>5, <3>1
  <2> QED
    BY <1>3, <2>1, <2>2
<1>7. Upto(seq, n) = a
  BY <1>3, <1>5, <1>6, SeqEqual
<1> QED
  BY <1>1, <1>2, <1>7 DEF a

LEMMA UptoAll ==
  ASSUME NEW S, NEW seq \in Seq(S)
  PROVE  Upto(seq, Len(seq)) = seq
  BY SubSeqFull DEF Upto

LEMMA UptoNone ==
  ASSUME NEW seq
  PROVE  Upto(seq, 0) = <<>>
  BY SubSeqEmpty DEF Upto

LEMMA UptoUpto ==
  ASSUME NEW S, NEW seq \in Seq(S), NEW n \in 0..Len(seq), NEW m \in 0..n
  PROVE  Upto(Upto(seq, n), m) = Upto(seq, m)
<1>1. n \in Nat /\ m \in Nat /\ m <= n /\ m \in 0..Len(seq)
  OBVIOUS
<1>2. /\ Upto(seq, n) \in Seq(S) /\ Len(Upto(seq, n)) = n
      /\ \A i \in 1..n : Upto(seq, n)[i] = seq[i]
  BY UptoIs
<1>3. /\ Upto(seq, m) \in Seq(S) /\ Len(Upto(seq, m)) = m
      /\ \A i \in 1..m : Upto(seq, m)[i] = seq[i]
  BY <1>1, UptoIs
<1>4. m \in 0..Len(Upto(seq, n))
  BY <1>1, <1>2
<1> DEFINE u == Upto(Upto(seq, n), m)
<1>5. u \in Seq(S) /\ Len(u) = m /\ \A i \in 1..m : u[i] = Upto(seq, n)[i]
  BY <1>2, <1>4, UptoIs
<1> HIDE DEF u
<1>6. \A i \in 1..Len(u) : u[i] = Upto(seq, m)[i]
  BY <1>1, <1>2, <1>3, <1>5
<1>7. u = Upto(seq, m)
  BY <1>3, <1>5, <1>6, SeqEqual
<1> QED
  BY <1>7 DEF u

LEMMA UptoAppend ==
  ASSUME NEW S, NEW seq \in Seq(S), NEW e \in S, NEW n \in 0..Len(seq)
  PROVE  Upto(Append(seq, e), n) = Upto(seq, n)
<1>1. /\ Append(seq, e) \in Seq(S) /\ Len(Append(seq, e)) = Len(seq) + 1
      /\ \A i \in 1..Len(seq) : Append(seq, e)[i] = seq[i]
  BY AppendProperties
<1>2. n \in 0..Len(Append(seq, e)) /\ n \in Nat /\ n <= Len(seq) /\ Len(seq) \in Nat
  BY <1>1
<1>3. /\ Upto(seq, n) \in Seq(S) /\ Len(Upto(seq, n)) = n
      /\ \A i \in 1..n : Upto(seq, n)[i] = seq[i]
  BY UptoIs
<1> DEFINE u == Upto(Append(seq, e), n)
<1>4. u \in Seq(S) /\ Len(u) = n /\ \A i \in 1..n : u[i] = Append(seq, e)[i]
  BY <1>1, <1>2, UptoIs
<1> HIDE DEF u
<1>5. \A i \in 1..Len(u) : u[i] = Upto(seq, n)[i]
  BY <1>1, <1>2, <1>3, <1>4
<1>6. u = Upto(seq, n)
  BY <1>3, <1>4, <1>5, SeqEqual
<1> QED
  BY <1>6 DEF u

(* A function on 0..n can be defined by where it starts and how it goes on. *)
Iterated(f, b, n, st) == f[0] = b /\ \A k \in 1..n : f[k] = st[<<f[k - 1], k>>]

LEMMA Iterates ==
  ASSUME NEW S, NEW b \in S, NEW n \in Nat, NEW st \in [S \X (1..n) -> S]
  PROVE  \E f : f \in [0..n -> S] /\ Iterated(f, b, n, st)
<1> USE DEF Iterated
<1> DEFINE Is(f, m) == f \in [0..m -> S] /\ Iterated(f, b, m, st)
           T == {m \in 0..n : ~\E f : Is(f, m)}
<1>1. T = {}
  <2> SUFFICES ASSUME T # {} PROVE FALSE
    OBVIOUS
  <2>1. T \subseteq Nat
    OBVIOUS
  <2>2. PICK m \in T : \A k \in T : m <= k
    BY <2>1, Least
  <2>3. m # 0
    <3>1. Is([i \in 0..0 |-> b], 0)
      OBVIOUS
    <3> QED
      BY <3>1
  <2>4. m - 1 \in 0..n /\ m - 1 \notin T /\ m \in 1..n /\ m - 1 \in Nat
    <3>1. m \in 0..n
      OBVIOUS
    <3>2. m - 1 \in 0..n /\ m \in 1..n /\ m - 1 \in Nat /\ ~(m <= m - 1)
      BY <3>1, <2>3
    <3> HIDE DEF T
    <3> QED
      BY <2>2, <3>2
  <2>5. PICK f : Is(f, m - 1)
    BY <2>4
  <2>6. f[m - 1] \in S /\ st[<<f[m - 1], m>>] \in S
    BY <2>4, <2>5
  <2> DEFINE g == [i \in 0..m |-> IF i = m THEN st[<<f[m - 1], m>>] ELSE f[i]]
  <2>7. /\ \A i \in 0..m - 1 : i \in 0..m /\ i # m /\ g[i] = f[i] /\ f[i] \in S
        /\ g[m] = st[<<f[m - 1], m>>] /\ g[m] \in S
        /\ \A i \in 0..m : i = m \/ i \in 0..m - 1
        /\ DOMAIN g = 0..m
    BY <2>4, <2>5, <2>6
  <2>8. g \in [0..m -> S]
    BY <2>6, <2>5, <2>7
  <2> HIDE DEF g
  <2>9. ASSUME NEW k \in 1..m PROVE g[k] = st[<<g[k - 1], k>>]
    <3>1. k - 1 \in 0..m - 1 /\ (k = m \/ k \in 1..m - 1)
      BY <2>4
    <3>2. k \in 1..m - 1 => k \in 0..m - 1
      BY <2>4
    <3> QED
      BY <2>5, <2>7, <3>1, <3>2
  <2>10. g[0] = b
    BY <2>4, <2>5, <2>7
  <2> QED
    BY <2>2, <2>8, <2>9, <2>10
<1> QED
  BY <1>1

-----------------------------------------------------------------------------
(* The text of a sequence of fields.                                        *)

Chars == STRING

Entry == [key : Seq(Chars), val : Seq(Chars)]

\* A buffer with one more field.
Grown(buf, f) == buf \o Scoped!Comma \o f.key \o Scoped!Colon \o f.val

LEMMA Pair ==
  ASSUME NEW S, NEW a \in S, NEW b \in S
  PROVE  <<a, b>> \in Seq(S) /\ Len(<<a, b>>) = 2
  OBVIOUS

LEMMA Punctuation ==
  /\ Scoped!Comma \in Seq(Chars) /\ Len(Scoped!Comma) = 2
  /\ Scoped!Colon \in Seq(Chars) /\ Len(Scoped!Colon) = 2
<1>1. "," \in Chars /\ ":" \in Chars /\ Scoped!Quote \in Chars
  BY Zenon, ContextAssumption DEF Scoped!CharactersAssumption, Chars
<1> QED
  BY <1>1, Pair, Zenon DEF Scoped!Comma, Scoped!Colon

LEMMA Joined ==
  ASSUME NEW S, NEW s \in Seq(S), NEW t \in Seq(S)
  PROVE  /\ s \o t \in Seq(S)
         /\ Len(s \o t) = Len(s) + Len(t)
         /\ \A i \in 1..Len(s) : (s \o t)[i] = s[i]
         /\ \A i \in 1..Len(t) : (s \o t)[Len(s) + i] = t[i]
<1>1. /\ s \o t \in Seq(S)
      /\ Len(s \o t) = Len(s) + Len(t)
      /\ \A i \in 1..Len(s) + Len(t) : (s \o t)[i] = IF i <= Len(s) THEN s[i] ELSE t[i - Len(s)]
  BY ConcatProperties
<1>2. Len(s) \in Nat /\ Len(t) \in Nat
  OBVIOUS
<1>3. ASSUME NEW i \in 1..Len(s) PROVE (s \o t)[i] = s[i]
  BY <1>1, <1>2
<1>4. ASSUME NEW i \in 1..Len(t) PROVE (s \o t)[Len(s) + i] = t[i]
  <2>1. Len(s) + i \in 1..Len(s) + Len(t) /\ ~(Len(s) + i <= Len(s)) /\ Len(s) + i - Len(s) = i
    BY <1>2
  <2> QED
    BY <1>1, <2>1
<1> QED
  BY <1>1, <1>3, <1>4

\* How the parts of a text s, c, k, e, v lie in it.
LaidOut(w, s, c, k, e, v) ==
  /\ Len(w) = Len(s) + Len(c) + Len(k) + Len(e) + Len(v)
  /\ \A i \in 1..Len(s) : w[i] = s[i]
  /\ \A i \in 1..Len(k) : w[Len(s) + Len(c) + i] = k[i]
  /\ \A i \in 1..Len(v) : w[Len(s) + Len(c) + Len(k) + Len(e) + i] = v[i]

LEMMA FiveJoined ==
  ASSUME NEW S, NEW s \in Seq(S), NEW c \in Seq(S), NEW k \in Seq(S), NEW e \in Seq(S),
         NEW v \in Seq(S)
  PROVE  /\ s \o c \o k \o e \o v \in Seq(S)
         /\ LaidOut(s \o c \o k \o e \o v, s, c, k, e, v)
<1>1. Len(s) \in Nat /\ Len(c) \in Nat /\ Len(k) \in Nat /\ Len(e) \in Nat /\ Len(v) \in Nat
  OBVIOUS
<1>2. PICK a, b, f, g : a = s \o c /\ b = a \o k /\ f = b \o e /\ g = f \o v
  OBVIOUS
<1>3. /\ a \in Seq(S)
      /\ Len(a) = Len(s) + Len(c)
      /\ \A i \in 1..Len(s) : a[i] = s[i]
  BY <1>2, Joined
<1>4. /\ b \in Seq(S)
      /\ Len(b) = Len(a) + Len(k)
      /\ \A i \in 1..Len(a) : b[i] = a[i]
      /\ \A i \in 1..Len(k) : b[Len(a) + i] = k[i]
  <2>1. a \in Seq(S) /\ b = a \o k
    BY <1>2, <1>3
  <2> QED
    BY <2>1, Joined
<1>5. /\ f \in Seq(S)
      /\ Len(f) = Len(b) + Len(e)
      /\ \A i \in 1..Len(b) : f[i] = b[i]
  <2>1. b \in Seq(S) /\ f = b \o e
    BY <1>2, <1>4
  <2> QED
    BY <2>1, Joined
<1>11. /\ g \in Seq(S)
       /\ Len(g) = Len(f) + Len(v)
       /\ \A i \in 1..Len(f) : g[i] = f[i]
       /\ \A i \in 1..Len(v) : g[Len(f) + i] = v[i]
  <2>1. f \in Seq(S) /\ g = f \o v
    BY <1>2, <1>5
  <2> QED
    BY <2>1, Joined
<1>6. g = s \o c \o k \o e \o v
  BY <1>2
<1>7. /\ Len(a) = Len(s) + Len(c)
      /\ Len(b) = Len(s) + Len(c) + Len(k)
      /\ Len(f) = Len(s) + Len(c) + Len(k) + Len(e)
      /\ Len(g) = Len(s) + Len(c) + Len(k) + Len(e) + Len(v)
  BY <1>1, <1>3, <1>4, <1>5, <1>11
<1>8. ASSUME NEW i \in 1..Len(s) PROVE g[i] = s[i]
  <2>1. i \in 1..Len(a) /\ i \in 1..Len(b) /\ i \in 1..Len(f)
    BY <1>1, <1>7
  <2> QED
    BY <1>3, <1>4, <1>5, <1>11, <2>1
<1>9. ASSUME NEW i \in 1..Len(k) PROVE g[Len(s) + Len(c) + i] = k[i]
  <2>1. Len(a) + i \in 1..Len(b) /\ Len(a) + i \in 1..Len(f) /\ Len(s) + Len(c) + i = Len(a) + i
    BY <1>1, <1>7
  <2> QED
    BY <1>4, <1>5, <1>11, <2>1
<1>10. ASSUME NEW i \in 1..Len(v) PROVE g[Len(s) + Len(c) + Len(k) + Len(e) + i] = v[i]
  BY <1>7, <1>11
<1> QED
  BY <1>11, <1>6, <1>7, <1>8, <1>9, <1>10 DEF LaidOut

(* A field goes behind what is there: the comma, the key, the colon and the
   value, each a part of the text that grows.                              *)
LEMMA GrownIs ==
  ASSUME NEW buf \in Seq(Chars), NEW f \in Entry
  PROVE  /\ Grown(buf, f) \in Seq(Chars)
         /\ Begins(buf, Grown(buf, f))
         /\ LaidOut(Grown(buf, f), buf, Scoped!Comma, f.key, Scoped!Colon, f.val)
<1>1. PICK k \in Seq(Chars), v \in Seq(Chars), c \in Seq(Chars), e \in Seq(Chars) :
        /\ k = f.key /\ v = f.val /\ c = Scoped!Comma /\ e = Scoped!Colon
        /\ Len(c) = 2 /\ Len(e) = 2
  BY Punctuation DEF Entry
<1>2. Grown(buf, f) = buf \o c \o k \o e \o v
  BY <1>1 DEF Grown
<1>3. /\ buf \o c \o k \o e \o v \in Seq(Chars)
      /\ LaidOut(buf \o c \o k \o e \o v, buf, c, k, e, v)
  BY FiveJoined
<1>4. Begins(buf, buf \o c \o k \o e \o v)
  <2>1. Len(buf) \in Nat /\ Len(c) \in Nat /\ Len(k) \in Nat /\ Len(e) \in Nat /\ Len(v) \in Nat
    OBVIOUS
  <2> QED
    BY <1>3, <2>1 DEF Begins, LaidOut
<1> QED
  BY <1>1, <1>2, <1>3, <1>4

(* The texts that Fragment is defined with.                                 *)
Texts(f, q) ==
  /\ f \in [0..Len(q) -> Seq(Chars)]
  /\ f[0] = <<>>
  /\ \A k \in 1..Len(q) : f[k] = Grown(f[k - 1], q[k])

LEMMA TextsExist ==
  ASSUME NEW q \in Seq(Entry)
  PROVE  \E f : Texts(f, q)
<1> DEFINE S == Seq(Chars)
           st == [p \in S \X (1..Len(q)) |-> Grown(p[1], q[p[2]])]
<1>1. Len(q) \in Nat /\ <<>> \in S
  OBVIOUS
<1>2. ASSUME NEW buf \in S, NEW k \in 1..Len(q)
      PROVE  Grown(buf, q[k]) \in S /\ st[<<buf, k>>] = Grown(buf, q[k])
  <2>1. q[k] \in Entry
    BY ElementOfSeq
  <2> QED
    BY <2>1, GrownIs
<1>3. st \in [S \X (1..Len(q)) -> S]
  <2>1. ASSUME NEW p \in S \X (1..Len(q)) PROVE Grown(p[1], q[p[2]]) \in S
    <3>1. p[1] \in S /\ p[2] \in 1..Len(q)
      OBVIOUS
    <3> QED
      BY <1>2, <3>1
  <2> HIDE DEF S
  <2> QED
    BY <2>1
<1> HIDE DEF st, S
<1>4. PICK f \in [0..Len(q) -> S] :
        f[0] = <<>> /\ \A k \in 1..Len(q) : f[k] = st[<<f[k - 1], k>>]
  <2>1. PICK b \in S, n \in Nat : b = <<>> /\ n = Len(q)
    BY <1>1
  <2>2. st \in [S \X (1..n) -> S]
    BY <1>3, <2>1
  <2>3. \E f : f \in [0..n -> S] /\ Iterated(f, b, n, st)
    BY <2>2, Iterates
  <2> QED
    BY <2>1, <2>3 DEF Iterated
<1>5. ASSUME NEW k \in 1..Len(q) PROVE f[k] = Grown(f[k - 1], q[k])
  <2>1. f[k - 1] \in S
    BY <1>1, <1>4
  <2> QED
    BY <1>2, <1>4, <2>1
<1> QED
  BY <1>4, <1>5 DEF Texts, S

(* The texts of two sequences agree as far as the sequences do.             *)
LEMMA TextsAgree ==
  ASSUME NEW q \in Seq(Entry), NEW r \in Seq(Entry), NEW f, NEW g,
         Texts(f, q), NEW m \in 0..Len(q), m <= Len(r),
         g[0] = <<>>, \A k \in 1..Len(r) : g[k] = Grown(g[k - 1], r[k]),
         \A k \in 1..m : q[k] = r[k]
  PROVE  f[m] = g[m]
<1> DEFINE T == {k \in 0..m : f[k] # g[k]}
<1> SUFFICES ASSUME T # {} PROVE FALSE
  OBVIOUS
<1>1. T \subseteq Nat /\ Len(q) \in Nat /\ Len(r) \in Nat
  OBVIOUS
<1>2. PICK k \in T : \A i \in T : k <= i
  BY <1>1, Least
<1>3. k # 0
  BY DEF Texts
<1>4. k - 1 \in 0..m /\ k - 1 \notin T /\ k \in 1..m /\ k \in 1..Len(q) /\ k \in 1..Len(r)
  BY <1>1, <1>2, <1>3
<1>5. f[k] = Grown(f[k - 1], q[k]) /\ g[k] = Grown(g[k - 1], r[k])
  BY <1>4 DEF Texts
<1> QED
  BY <1>2, <1>4, <1>5

LEMMA FragmentIs ==
  ASSUME NEW q \in Seq(Entry)
  PROVE  \E f : Texts(f, q) /\ Scoped!Fragment(q) = f[Len(q)]
<1> DEFINE Is(h) == h = [n \in 0..Len(q) |->
                           IF n = 0 THEN <<>>
                           ELSE h[n - 1] \o Scoped!Comma \o q[n].key \o Scoped!Colon \o q[n].val]
<1>1. Len(q) \in Nat
  OBVIOUS
<1>2. PICK f : Texts(f, q)
  BY TextsExist
<1>3. Is(f)
  <2>1. \A n \in 0..Len(q) :
          f[n] = IF n = 0 THEN <<>>
                 ELSE f[n - 1] \o Scoped!Comma \o q[n].key \o Scoped!Colon \o q[n].val
    <3> SUFFICES ASSUME NEW n \in 0..Len(q)
                 PROVE  f[n] = IF n = 0 THEN <<>>
                               ELSE f[n - 1] \o Scoped!Comma \o q[n].key \o Scoped!Colon \o q[n].val
      OBVIOUS
    <3>1. n = 0 \/ n \in 1..Len(q)
      BY <1>1
    <3>2. n \in 1..Len(q) => n # 0 /\ f[n] = Grown(f[n - 1], q[n])
      BY <1>1, <1>2 DEF Texts
    <3> QED
      BY <1>2, <3>1, <3>2 DEF Texts, Grown
  <2> QED
    BY <1>2, <2>1 DEF Texts
<1> DEFINE g == CHOOSE h : Is(h)
<1>4. Is(g)
  BY <1>3
<1>5. Scoped!Fragment(q) = g[Len(q)]
  BY DEF Scoped!Fragment
<1> HIDE DEF g
<1>6. g[0] = <<>> /\ \A k \in 1..Len(q) : g[k] = Grown(g[k - 1], q[k])
  <2>1. 0 \in 0..Len(q) /\ \A k \in 1..Len(q) : k \in 0..Len(q) /\ k # 0
    BY <1>1
  <2>2. g[0] = <<>>
    BY <1>4, <2>1
  <2>3. ASSUME NEW k \in 1..Len(q) PROVE g[k] = Grown(g[k - 1], q[k])
    <3>1. k \in 0..Len(q) /\ k # 0
      BY <2>1
    <3> QED
      BY <1>4, <3>1 DEF Grown
  <2> QED
    BY <2>2, <2>3
<1>7. f[Len(q)] = g[Len(q)]
  <2>1. Len(q) \in 0..Len(q) /\ Len(q) <= Len(q)
    BY <1>1
  <2> QED
    BY <1>2, <1>6, <2>1, TextsAgree
<1> QED
  BY <1>2, <1>5, <1>7

LEMMA FragmentNone == Scoped!Fragment(<<>>) = <<>>
<1>1. <<>> \in Seq(Entry) /\ Len(<<>>) = 0
  OBVIOUS
<1>2. PICK f : Texts(f, <<>>) /\ Scoped!Fragment(<<>>) = f[Len(<<>>)]
  BY <1>1, FragmentIs
<1> QED
  BY <1>1, <1>2 DEF Texts

LEMMA FragmentAppend ==
  ASSUME NEW q \in Seq(Entry), NEW e \in Entry
  PROVE  /\ Scoped!Fragment(q) \in Seq(Chars)
         /\ Scoped!Fragment(Append(q, e)) = Grown(Scoped!Fragment(q), e)
<1> DEFINE r == Append(q, e)
<1>1. /\ r \in Seq(Entry) /\ Len(r) = Len(q) + 1 /\ r[Len(q) + 1] = e
      /\ \A i \in 1..Len(q) : r[i] = q[i]
  BY AppendProperties
<1> HIDE DEF r
<1>2. Len(q) \in Nat /\ Len(q) <= Len(r)
  BY <1>1
<1>3. PICK f : Texts(f, q) /\ Scoped!Fragment(q) = f[Len(q)]
  BY FragmentIs
<1>4. PICK g : Texts(g, r) /\ Scoped!Fragment(r) = g[Len(r)]
  BY <1>1, FragmentIs
<1>5. f[Len(q)] = g[Len(q)]
  <2>1. Len(q) \in 0..Len(q)
    BY <1>2
  <2>2. g[0] = <<>> /\ \A k \in 1..Len(r) : g[k] = Grown(g[k - 1], r[k])
    BY <1>4 DEF Texts
  <2> QED
    BY <1>1, <1>2, <1>3, <2>1, <2>2, TextsAgree
<1>6. g[Len(q) + 1] = Grown(g[Len(q)], e)
  <2>1. Len(q) + 1 \in 1..Len(r) /\ Len(q) + 1 - 1 = Len(q)
    BY <1>1, <1>2
  <2> QED
    BY <1>1, <1>4, <2>1 DEF Texts
<1>7. f[Len(q)] \in Seq(Chars)
  BY <1>2, <1>3 DEF Texts
<1> QED
  BY <1>1, <1>3, <1>4, <1>5, <1>6, <1>7 DEF r

(* The text of a beginning of the fields is a beginning of their text.      *)
LEMMA FragmentBegins ==
  ASSUME NEW q \in Seq(Entry), NEW m \in 0..Len(q)
  PROVE  Begins(Scoped!Fragment(Upto(q, m)), Scoped!Fragment(q))
<1> DEFINE text(n) == Scoped!Fragment(Upto(q, n))
           T == {n \in m..Len(q) : ~Begins(text(m), text(n))}
<1>1. Len(q) \in Nat /\ m \in Nat /\ T \subseteq Nat
  OBVIOUS
<1>2. \A n \in 0..Len(q) : text(n) \in Seq(Chars) /\ Len(text(n)) \in Nat
  <2> SUFFICES ASSUME NEW n \in 0..Len(q) PROVE text(n) \in Seq(Chars)
    OBVIOUS
  <2>1. Upto(q, n) \in Seq(Entry)
    BY UptoIs
  <2>2. PICK f : Texts(f, Upto(q, n)) /\ text(n) = f[Len(Upto(q, n))]
    BY <2>1, FragmentIs
  <2>3. Len(Upto(q, n)) \in 0..Len(Upto(q, n))
    BY <2>1
  <2> QED
    BY <2>2, <2>3 DEF Texts
<1>3. \A n \in 1..Len(q) : n - 1 \in 0..Len(q) /\ text(n) = Grown(text(n - 1), q[n]) /\ q[n] \in Entry
  <2> SUFFICES ASSUME NEW n \in 1..Len(q)
               PROVE  n - 1 \in 0..Len(q) /\ text(n) = Grown(text(n - 1), q[n]) /\ q[n] \in Entry
    OBVIOUS
  <2>1. /\ n - 1 \in 0..Len(q) /\ q[n] \in Entry
        /\ Upto(q, n) = Append(Upto(q, n - 1), q[n])
    BY UptoSteps
  <2>2. Upto(q, n - 1) \in Seq(Entry)
    BY <2>1, UptoIs
  <2> QED
    BY <2>1, <2>2, FragmentAppend
<1>4. text(Len(q)) = Scoped!Fragment(q)
  BY UptoAll
<1> HIDE DEF text
<1>5. T = {}
  <2> SUFFICES ASSUME T # {} PROVE FALSE
    OBVIOUS
  <2>1. PICK n \in T : \A i \in T : n <= i
    BY <1>1, Least
  <2>2. Begins(text(m), text(m))
    BY DEF Begins
  <2>3. n # m /\ n \in m..Len(q)
    BY <2>2
  <2>4. n - 1 \in m..Len(q) /\ ~(n <= n - 1) /\ n \in 1..Len(q)
    BY <1>1, <2>3
  <2>5. Begins(text(m), text(n - 1))
    BY <2>1, <2>4
  <2>6. /\ text(n - 1) \in Seq(Chars) /\ q[n] \in Entry
        /\ text(n) = Grown(text(n - 1), q[n])
    BY <1>2, <1>3, <2>4
  <2>7. Begins(text(n - 1), text(n))
    BY <2>6, GrownIs
  <2>8. /\ Len(text(n - 1)) \in Nat /\ Len(text(m)) \in Nat /\ Len(text(n)) \in Nat
    BY <1>1, <1>2, <2>4
  <2>9. Begins(text(m), text(n))
    BY <2>5, <2>7, <2>8 DEF Begins
  <2> QED
    BY <2>1, <2>9
<1>6. Len(q) \in m..Len(q)
  BY <1>1
<1>7. Begins(text(m), text(Len(q)))
  BY <1>5, <1>6
<1> QED
  BY <1>4, <1>7 DEF text

-----------------------------------------------------------------------------
(* Sets of fields: their type.                                              *)

Span == [key_off : Nat, key_len : Nat, val_off : Nat, val_len : Nat]

(* Modulus as static_cast cuts: below it nothing is lost.                   *)
LEMMA Cut ==
  ASSUME NEW n \in Nat
  PROVE  /\ Scoped!U32(n) \in Nat /\ Scoped!U32(n) < OffsetModulus
         /\ n < OffsetModulus => Scoped!U32(n) = n
<1>1. PICK m \in Nat \ {0} : m = OffsetModulus
  BY Constants
<1>2. (n % m) \in Nat /\ (n % m) < m /\ (n < m => (n % m) = n)
  OBVIOUS
<1> QED
  BY <1>1, <1>2 DEF Scoped!U32

LEMMA FieldSetIs ==
  /\ Scoped!FieldSet = [buf : Seq(Chars), spans : Seq(Span)]
  /\ Scoped!EmptyFields \in Scoped!FieldSet
<1>1. Scoped!FieldSet = [buf : Seq(Chars), spans : Seq(Span)]
  BY Zenon DEF Scoped!FieldSet, Chars, Span
<1>2. Scoped!EmptyFields \in [buf : Seq(Chars), spans : Seq(Span)]
  BY DEF Scoped!EmptyFields
<1> QED
  BY <1>1, <1>2

LEMMA AddTyped ==
  ASSUME NEW fs \in Scoped!FieldSet, NEW f \in Entry
  PROVE  Scoped!add(fs, f) \in Scoped!FieldSet
<1>1. fs.buf \in Seq(Chars) /\ fs.spans \in Seq(Span) /\ Len(fs.buf) \in Nat
  BY FieldSetIs
<1>2. /\ Len(f.key) \in Nat /\ Len(f.val) \in Nat
      /\ Len(Scoped!Comma) \in Nat /\ Len(Scoped!Colon) \in Nat
  BY Punctuation DEF Entry
<1> DEFINE at == Len(fs.buf) + Len(Scoped!Comma)
           span == [key_off |-> Scoped!U32(at), key_len |-> Scoped!U32(Len(f.key)),
                    val_off |-> Scoped!U32(at + Len(f.key) + Len(Scoped!Colon)),
                    val_len |-> Scoped!U32(Len(f.val))]
<1>3. at \in Nat /\ at + Len(f.key) + Len(Scoped!Colon) \in Nat
  <2>1. \A a, b, c, d \in Nat : a + b \in Nat /\ a + b + c + d \in Nat
    OBVIOUS
  <2> QED
    BY <1>1, <1>2, <2>1
<1>4. Scoped!add(fs, f) = [buf |-> Grown(fs.buf, f), spans |-> Append(fs.spans, span)]
  BY DEF Scoped!add, Scoped!byte_size, Grown
<1> HIDE DEF at
<1>5. span \in Span
  BY <1>2, <1>3, Cut DEF Span
<1> HIDE DEF span
<1>6. Append(fs.spans, span) \in Seq(Span)
  BY <1>1, <1>5, AppendProperties
<1>7. Grown(fs.buf, f) \in Seq(Chars)
  BY <1>1, GrownIs
<1> QED
  BY <1>4, <1>6, <1>7, FieldSetIs

LEMMA ResizedTyped ==
  ASSUME NEW S, NEW s \in Seq(S), NEW n \in Nat, NEW filler \in S
  PROVE  /\ Scoped!Resized(s, n, filler) \in Seq(S)
         /\ Len(Scoped!Resized(s, n, filler)) = n
         /\ n <= Len(s) => Scoped!Resized(s, n, filler) = Upto(s, n)
<1> DEFINE r == [i \in 1..n |-> IF i <= Len(s) THEN s[i] ELSE filler]
<1>1. Scoped!Resized(s, n, filler) = r
  BY DEF Scoped!Resized
<1>2. \A i \in 1..n : r[i] \in S /\ r[i] = IF i <= Len(s) THEN s[i] ELSE filler
  <2>1. ASSUME NEW i \in 1..n PROVE (IF i <= Len(s) THEN s[i] ELSE filler) \in S
    <3>1. i <= Len(s) => i \in 1..Len(s)
      OBVIOUS
    <3> QED
      BY <3>1, ElementOfSeq
  <2> QED
    BY <2>1
<1>3. r \in [1..n -> S]
  BY <1>2
<1>4. r \in Seq(S) /\ Len(r) = n
  <2> HIDE DEF r
  <2> QED
    BY <1>3
<1> HIDE DEF r
<1>5. ASSUME n <= Len(s) PROVE r = Upto(s, n)
  <2>1. n \in 0..Len(s)
    BY <1>5
  <2>2. /\ Upto(s, n) \in Seq(S) /\ Len(Upto(s, n)) = n
        /\ \A i \in 1..n : Upto(s, n)[i] = s[i]
    BY <2>1, UptoIs
  <2>3. \A i \in 1..Len(r) : r[i] = Upto(s, n)[i]
    BY <1>2, <1>4, <1>5, <2>2
  <2> QED
    BY <1>4, <2>2, <2>3, SeqEqual
<1> QED
  BY <1>1, <1>4, <1>5

LEMMA TruncateTyped ==
  ASSUME NEW fs \in Scoped!FieldSet, NEW n \in Nat, NEW b \in Nat
  PROVE  Scoped!truncate(fs, n, b) \in Scoped!FieldSet
<1>1. fs.buf \in Seq(Chars) /\ fs.spans \in Seq(Span)
  BY FieldSetIs
<1>2. Scoped!EmptySpan \in Span
  BY DEF Scoped!EmptySpan, Span
<1>3. Scoped!Nul \in Chars
  BY Zenon, ContextAssumption DEF Scoped!CharactersAssumption, Chars
<1>4. Scoped!Resized(fs.buf, b, Scoped!Nul) \in Seq(Chars)
  BY <1>1, <1>3, ResizedTyped
<1>5. Scoped!Resized(fs.spans, n, Scoped!EmptySpan) \in Seq(Span)
  BY <1>1, <1>2, ResizedTyped
<1> QED
  BY <1>4, <1>5, FieldSetIs DEF Scoped!truncate

-----------------------------------------------------------------------------
(* What a set of fields looks like that has been told q and nothing else.   *)

SpanAt(n, f) ==
  [key_off |-> Scoped!U32(n + 2), key_len |-> Scoped!U32(Len(f.key)),
   val_off |-> Scoped!U32(n + 2 + Len(f.key) + 2), val_len |-> Scoped!U32(Len(f.val))]

\* A span whose offsets are cut once more.
Recut(s) == [s EXCEPT !.key_off = Scoped!U32(@), !.val_off = Scoped!U32(@)]

LEMMA Positions == \A a, b \in Nat : a + 2 \in Nat /\ a + 2 + b + 2 \in Nat
  OBVIOUS

LEMMA SpanIs ==
  ASSUME NEW n \in Nat, NEW f \in Entry
  PROVE  SpanAt(n, f) \in Span /\ Recut(SpanAt(n, f)) = SpanAt(n, f)
<1>1. Len(f.key) \in Nat /\ Len(f.val) \in Nat
  BY DEF Entry
<1>2. n + 2 \in Nat /\ n + 2 + Len(f.key) + 2 \in Nat
  BY <1>1, Positions
<1>3. \A m \in Nat : Scoped!U32(m) \in Nat /\ Scoped!U32(Scoped!U32(m)) = Scoped!U32(m)
  BY Cut
<1>4. PICK a, b \in Nat : a = Scoped!U32(n + 2) /\ b = Scoped!U32(n + 2 + Len(f.key) + 2)
  BY <1>2, <1>3
<1>5. Scoped!U32(a) = a /\ Scoped!U32(b) = b
  BY <1>2, <1>3, <1>4
<1>6. PICK k, v \in Nat : k = Scoped!U32(Len(f.key)) /\ v = Scoped!U32(Len(f.val))
  BY <1>1, <1>3
<1>7. SpanAt(n, f) = [key_off |-> a, key_len |-> k, val_off |-> b, val_len |-> v]
  BY <1>4, <1>6 DEF SpanAt
<1>8. SpanAt(n, f) \in Span
  BY <1>7 DEF Span
<1>9. PICK r \in Span : r = [key_off |-> a, key_len |-> k, val_off |-> b, val_len |-> v]
  BY <1>7, <1>8
<1>10. Recut(r) = r
  <2>1. r.key_off = a /\ r.val_off = b
    BY <1>9
  <2> QED
    BY <1>5, <2>1 DEF Recut, Span
<1> QED
  BY <1>7, <1>8, <1>9, <1>10

SpanOf(q, i) == SpanAt(Len(Scoped!Fragment(Upto(q, i - 1))), q[i])

Renders(fs, q) ==
  /\ fs \in Scoped!FieldSet
  /\ fs.buf = Scoped!Fragment(q)
  /\ Len(fs.spans) = Len(q)
  /\ \A i \in 1..Len(q) : fs.spans[i] = SpanOf(q, i)

LEMMA RendersNone == Renders(Scoped!EmptyFields, <<>>)
<1>1. /\ Scoped!EmptyFields.buf = <<>> /\ Scoped!EmptyFields.spans = <<>>
      /\ Len(<<>>) = 0 /\ 1..0 = {}
  BY DEF Scoped!EmptyFields
<1> QED
  BY <1>1, FragmentNone, FieldSetIs DEF Renders

LEMMA RendersAdd ==
  ASSUME NEW q \in Seq(Entry), NEW fs, Renders(fs, q), NEW e \in Entry
  PROVE  Renders(Scoped!add(fs, e), Append(q, e))
<1>1. /\ fs \in Scoped!FieldSet /\ fs.buf = Scoped!Fragment(q)
      /\ Len(fs.spans) = Len(q) /\ fs.spans \in Seq(Span)
      /\ Len(q) \in Nat
  BY FieldSetIs DEF Renders
<1> DEFINE r == Append(q, e)
           n == Len(Scoped!Fragment(q))
<1>2. /\ r \in Seq(Entry) /\ Len(r) = Len(q) + 1 /\ r[Len(q) + 1] = e
      /\ \A i \in 1..Len(q) : r[i] = q[i]
  BY AppendProperties
<1>3. Scoped!Fragment(r) = Grown(Scoped!Fragment(q), e) /\ n \in Nat
  BY FragmentAppend
<1>4. ASSUME NEW i \in 0..Len(q) PROVE Upto(r, i) = Upto(q, i)
  BY UptoAppend
<1> HIDE DEF r
<1>5. Scoped!add(fs, e) = [buf   |-> Grown(fs.buf, e),
                           spans |-> Append(fs.spans, SpanAt(n, e))]
  <2>1. \A a, b \in Nat : (a + 2) + b + 2 = a + 2 + b + 2
    OBVIOUS
  <2>2. Len(e.key) \in Nat
    BY DEF Entry
  <2> QED
    BY <1>1, <2>1, <2>2, <1>3, Punctuation DEF Scoped!add, Scoped!byte_size, Grown, SpanAt
<1>6. SpanAt(n, e) \in Span
  BY <1>3, SpanIs
<1> HIDE DEF n
<1>7. /\ Len(Append(fs.spans, SpanAt(n, e))) = Len(q) + 1
      /\ \A i \in 1..Len(q) : Append(fs.spans, SpanAt(n, e))[i] = fs.spans[i]
      /\ Append(fs.spans, SpanAt(n, e))[Len(q) + 1] = SpanAt(n, e)
  BY <1>1, <1>6, AppendProperties
<1>8. ASSUME NEW i \in 1..Len(r)
      PROVE  Append(fs.spans, SpanAt(n, e))[i] = SpanOf(r, i)
  <2>1. CASE i \in 1..Len(q)
    <3>1. i - 1 \in 0..Len(q)
      BY <1>1, <2>1
    <3>2. fs.spans[i] = SpanOf(q, i)
      BY <2>1 DEF Renders
    <3> QED
      BY <1>2, <1>4, <1>7, <2>1, <3>1, <3>2 DEF SpanOf
  <2>2. CASE i = Len(q) + 1
    <3>1. i - 1 = Len(q) /\ Len(q) \in 0..Len(q)
      BY <1>1, <2>2
    <3>2. Upto(r, i - 1) = q
      BY <1>4, <3>1, UptoAll
    <3> QED
      BY <1>2, <1>7, <2>2, <3>2 DEF SpanOf, n
  <2> QED
    BY <1>1, <1>2, <2>1, <2>2
<1>9. Scoped!add(fs, e) \in Scoped!FieldSet
  BY <1>1, AddTyped
<1>10. Renders(Scoped!add(fs, e), r)
  BY <1>1, <1>2, <1>3, <1>5, <1>7, <1>8, <1>9 DEF Renders
<1> QED
  BY <1>10 DEF r

(* Appending to the empty set, as prepare() does, copies.                   *)
LEMMA CopyTyped ==
  ASSUME NEW fs \in Scoped!FieldSet
  PROVE  /\ Scoped!append(Scoped!EmptyFields, fs) \in Scoped!FieldSet
         /\ Scoped!append(Scoped!EmptyFields, fs).buf = fs.buf
         /\ Len(Scoped!append(Scoped!EmptyFields, fs).spans) = Len(fs.spans)
         /\ \A i \in 1..Len(fs.spans) :
              Scoped!append(Scoped!EmptyFields, fs).spans[i] = Recut(fs.spans[i])
<1>1. fs.buf \in Seq(Chars) /\ fs.spans \in Seq(Span) /\ Len(fs.spans) \in Nat
  BY FieldSetIs
<1> DEFINE sp == [i \in 1..Len(fs.spans) |-> Recut(fs.spans[i])]
<1>2. Scoped!U32(0) = 0
  BY Constants, Cut
<1>3. ASSUME NEW s \in Span
      PROVE  Recut(s) \in Span /\ Scoped!Rebased(s, 0) = Recut(s)
  <2>1. s.key_off + 0 = s.key_off /\ s.val_off + 0 = s.val_off
    BY DEF Span
  <2>2. Scoped!U32(s.key_off) \in Nat /\ Scoped!U32(s.val_off) \in Nat
    BY Cut DEF Span
  <2> QED
    BY <2>1, <2>2 DEF Scoped!Rebased, Span, Recut
<1>4. \A i \in 1..Len(fs.spans) : fs.spans[i] \in Span
  BY <1>1, ElementOfSeq
<1>5. [i \in 1..Len(fs.spans) |-> Scoped!Rebased(fs.spans[i], 0)] = sp
  BY <1>3, <1>4
<1>6. sp \in Seq(Span) /\ Len(sp) = Len(fs.spans)
      /\ \A i \in 1..Len(fs.spans) : sp[i] = Recut(fs.spans[i])
  <2>1. sp \in [1..Len(fs.spans) -> Span] /\ \A i \in 1..Len(fs.spans) : sp[i] = Recut(fs.spans[i])
    BY <1>3, <1>4
  <2> HIDE DEF sp
  <2> QED
    BY <1>1, <2>1
<1>7. Scoped!append(Scoped!EmptyFields, fs) = [buf |-> <<>> \o fs.buf, spans |-> <<>> \o sp]
  <2>1. Scoped!byte_size(Scoped!EmptyFields) = 0
    BY DEF Scoped!byte_size, Scoped!EmptyFields
  <2>2. Scoped!EmptyFields.buf = <<>> /\ Scoped!EmptyFields.spans = <<>>
    BY DEF Scoped!EmptyFields
  <2> HIDE DEF sp
  <2> QED
    BY <1>2, <1>5, <2>1, <2>2 DEF Scoped!append, Scoped!size
<1> HIDE DEF sp
<1>8. <<>> \o fs.buf = fs.buf /\ <<>> \o sp = sp
  BY <1>1, <1>6, ConcatEmptySeq
<1> DEFINE c == Scoped!append(Scoped!EmptyFields, fs)
<1>9. c = [buf |-> fs.buf, spans |-> sp]
  BY <1>7, <1>8
<1> HIDE DEF c
<1>10. c.buf = fs.buf /\ c.spans = sp /\ c \in Scoped!FieldSet
  BY <1>1, <1>6, <1>9, FieldSetIs
<1> QED
  BY <1>6, <1>10 DEF c

LEMMA RendersCopy ==
  ASSUME NEW q \in Seq(Entry), NEW fs, Renders(fs, q)
  PROVE  Renders(Scoped!append(Scoped!EmptyFields, fs), q)
<1>1. /\ fs \in Scoped!FieldSet /\ fs.buf = Scoped!Fragment(q)
      /\ Len(fs.spans) = Len(q) /\ Len(q) \in Nat
  BY DEF Renders
<1> DEFINE c == Scoped!append(Scoped!EmptyFields, fs)
<1>2. /\ c \in Scoped!FieldSet /\ c.buf = fs.buf /\ Len(c.spans) = Len(fs.spans)
      /\ \A i \in 1..Len(fs.spans) : c.spans[i] = Recut(fs.spans[i])
  BY <1>1, CopyTyped
<1> HIDE DEF c
<1>3. ASSUME NEW i \in 1..Len(q) PROVE c.spans[i] = SpanOf(q, i)
  <2>1. fs.spans[i] = SpanOf(q, i)
    BY DEF Renders
  <2> DEFINE n == Len(Scoped!Fragment(Upto(q, i - 1)))
  <2>2. n \in Nat /\ q[i] \in Entry
    <3>1. i - 1 \in 0..Len(q) /\ q[i] \in Entry
      BY UptoSteps
    <3>2. Upto(q, i - 1) \in Seq(Entry)
      BY <3>1, UptoIs
    <3> QED
      BY <3>1, <3>2, FragmentAppend
  <2>3. SpanOf(q, i) = SpanAt(n, q[i])
    BY DEF SpanOf
  <2> HIDE DEF n
  <2> QED
    BY <1>1, <1>2, <2>1, <2>2, <2>3, SpanIs
<1>4. Renders(c, q)
  BY <1>1, <1>2, <1>3 DEF Renders
<1> QED
  BY <1>4 DEF c

(* Truncating to a mark forgets what came after it.                         *)
LEMMA RendersTruncate ==
  ASSUME NEW q \in Seq(Entry), NEW fs, Renders(fs, q), NEW n \in 0..Len(q)
  PROVE  Renders(Scoped!truncate(fs, n, Len(Scoped!Fragment(Upto(q, n)))), Upto(q, n))
<1> DEFINE r == Upto(q, n)
           b == Len(Scoped!Fragment(r))
           c == Scoped!truncate(fs, n, b)
<1>1. /\ fs \in Scoped!FieldSet /\ fs.buf = Scoped!Fragment(q)
      /\ Len(fs.spans) = Len(q) /\ Len(q) \in Nat /\ n \in Nat /\ n <= Len(q)
      /\ fs.buf \in Seq(Chars) /\ fs.spans \in Seq(Span)
  BY FieldSetIs DEF Renders
<1>2. r \in Seq(Entry) /\ Len(r) = n /\ \A i \in 1..n : r[i] = q[i]
  BY UptoIs
<1>3. Begins(Scoped!Fragment(r), fs.buf)
  BY <1>1, FragmentBegins
<1>4. \A m \in 0..n : Upto(r, m) = Upto(q, m)
  BY UptoUpto
<1> HIDE DEF r
<1>5. Scoped!Fragment(r) \in Seq(Chars) /\ b \in Nat
  <2>1. PICK f : Texts(f, r) /\ Scoped!Fragment(r) = f[Len(r)]
    BY <1>2, FragmentIs
  <2>2. f[Len(r)] \in Seq(Chars)
    BY <1>1, <1>2, <2>1 DEF Texts
  <2> QED
    BY <2>1, <2>2
<1> HIDE DEF b
<1>6. b <= Len(fs.buf) /\ \A i \in 1..b : Scoped!Fragment(r)[i] = fs.buf[i]
  BY <1>3 DEF Begins, b
<1>7. Scoped!Resized(fs.buf, b, Scoped!Nul) = Scoped!Fragment(r)
  <2>1. Scoped!Nul \in Chars
    BY Zenon, ContextAssumption DEF Scoped!CharactersAssumption, Chars
  <2>2. Scoped!Resized(fs.buf, b, Scoped!Nul) = Upto(fs.buf, b)
    <3>1. PICK w, c0 : w = fs.buf /\ c0 = Scoped!Nul
      OBVIOUS
    <3>3. w \in Seq(Chars) /\ c0 \in Chars /\ b \in Nat
      BY <1>1, <1>5, <2>1, <3>1
    <3>2. b <= Len(w) => Scoped!Resized(w, b, c0) = Upto(w, b)
      BY <3>3, ResizedTyped
    <3> QED
      BY <1>6, <3>1, <3>2
  <2>3. b \in 0..Len(fs.buf)
    BY <1>1, <1>5, <1>6
  <2>4. /\ Upto(fs.buf, b) \in Seq(Chars) /\ Len(Upto(fs.buf, b)) = b
        /\ \A i \in 1..b : Upto(fs.buf, b)[i] = fs.buf[i]
    BY <1>1, <2>3, UptoIs
  <2>5. Len(Scoped!Fragment(r)) = b
    BY DEF b
  <2>6. \A i \in 1..Len(Upto(fs.buf, b)) : Upto(fs.buf, b)[i] = Scoped!Fragment(r)[i]
    BY <1>6, <2>4
  <2>7. Upto(fs.buf, b) = Scoped!Fragment(r)
    BY <1>5, <2>4, <2>5, <2>6, SeqEqual
  <2> QED
    BY <2>2, <2>7
<1>8. /\ Scoped!Resized(fs.spans, n, Scoped!EmptySpan) \in Seq(Span)
      /\ Len(Scoped!Resized(fs.spans, n, Scoped!EmptySpan)) = n
      /\ \A i \in 1..n : Scoped!Resized(fs.spans, n, Scoped!EmptySpan)[i] = fs.spans[i]
  <2>1. Scoped!EmptySpan \in Span
    BY DEF Scoped!EmptySpan, Span
  <2>2. /\ Scoped!Resized(fs.spans, n, Scoped!EmptySpan) \in Seq(Span)
        /\ Len(Scoped!Resized(fs.spans, n, Scoped!EmptySpan)) = n
        /\ Scoped!Resized(fs.spans, n, Scoped!EmptySpan) = Upto(fs.spans, n)
    <3>1. PICK sp, e : sp = fs.spans /\ e = Scoped!EmptySpan
      OBVIOUS
    <3>3. sp \in Seq(Span) /\ e \in Span /\ n \in Nat
      BY <1>1, <2>1, <3>1
    <3>2. /\ Scoped!Resized(sp, n, e) \in Seq(Span)
          /\ Len(Scoped!Resized(sp, n, e)) = n
          /\ n <= Len(sp) => Scoped!Resized(sp, n, e) = Upto(sp, n)
      BY <3>3, ResizedTyped
    <3> QED
      BY <1>1, <3>1, <3>2
  <2>3. n \in 0..Len(fs.spans)
    BY <1>1
  <2>4. \A i \in 1..n : Upto(fs.spans, n)[i] = fs.spans[i]
    BY <1>1, <2>3, UptoIs
  <2> QED
    BY <2>2, <2>4
<1>9. c \in Scoped!FieldSet
  BY <1>1, <1>5, TruncateTyped
<1>10. c.buf = Scoped!Fragment(r) /\ c.spans = Scoped!Resized(fs.spans, n, Scoped!EmptySpan)
  BY <1>7 DEF Scoped!truncate
<1> HIDE DEF c
<1>11. ASSUME NEW i \in 1..n PROVE c.spans[i] = SpanOf(r, i)
  <2>1. i - 1 \in 0..n /\ i \in 1..Len(q)
    BY <1>1
  <2>2. fs.spans[i] = SpanOf(q, i)
    BY <2>1 DEF Renders
  <2>3. SpanOf(q, i) = SpanOf(r, i)
    BY <1>2, <1>4, <2>1 DEF SpanOf
  <2> QED
    BY <1>8, <1>10, <2>2, <2>3
<1>12. Renders(c, r)
  BY <1>2, <1>8, <1>9, <1>10, <1>11 DEF Renders
<1> QED
  BY <1>12 DEF c, b, r

\* Part of the buffer w, from an offset on, is v.
Lies(w, off, v) ==
  /\ off + Len(v) <= Len(w)
  /\ \A j \in 1..Len(v) : w[off + j] = v[j]

(* A part of a buffer that lies where a span says is what the span shows.   *)
LEMMA SubstrIs ==
  ASSUME NEW S, NEW w \in Seq(S), NEW off \in Nat, NEW v \in Seq(S), Lies(w, off, v)
  PROVE  Scoped!substr(w, off, Len(v)) = v
<1> USE DEF Lies
<1>1. Len(w) \in Nat /\ Len(v) \in Nat /\ ~(off > Len(w))
  OBVIOUS
<1> DEFINE e == IF off + Len(v) < Len(w) THEN off + Len(v) ELSE Len(w)
<1>2. Scoped!substr(w, off, Len(v)) = SubSeq(w, off + 1, e)
  BY <1>1, Zenon DEF Scoped!substr
<1>3. e = off + Len(v)
  BY <1>1
<1> DEFINE u == SubSeq(w, off + 1, off + Len(v))
<1>4. \A i \in off + 1..off + Len(v) : w[i] \in S
  BY <1>1, ElementOfSeq
<1>5. /\ u \in Seq(S)
      /\ Len(u) = IF off + 1 <= off + Len(v) THEN off + Len(v) - (off + 1) + 1 ELSE 0
      /\ \A i \in 1..off + Len(v) - (off + 1) + 1 : u[i] = w[off + 1 + i - 1]
  <2>1. PICK m \in Int, n \in Int : m = off + 1 /\ n = off + Len(v)
    BY <1>1
  <2>2. \A i \in m..n : w[i] \in S
    BY <1>4, <2>1
  <2>3. /\ SubSeq(w, m, n) \in Seq(S)
        /\ Len(SubSeq(w, m, n)) = IF m <= n THEN n - m + 1 ELSE 0
        /\ \A i \in 1..n - m + 1 : SubSeq(w, m, n)[i] = w[m + i - 1]
    BY <2>2, SubSeqProperties
  <2> QED
    BY <2>1, <2>3
<1> HIDE DEF u
<1>6. Len(u) = Len(v)
  BY <1>1, <1>5
<1>7. ASSUME NEW i \in 1..Len(u) PROVE u[i] = v[i]
  <2>1. i \in 1..off + Len(v) - (off + 1) + 1 /\ off + 1 + i - 1 = off + i /\ i \in 1..Len(v)
    BY <1>1, <1>6
  <2> QED
    BY <1>5, <2>1
<1>8. u = v
  BY <1>5, <1>6, <1>7, SeqEqual
<1> QED
  BY <1>2, <1>3, <1>8 DEF u

(* What it renders, it says, unless it has 4 GiB or more.                   *)
LEMMA RendersSays ==
  ASSUME NEW q \in Seq(Entry), NEW fs, Renders(fs, q)
  PROVE  Scoped!Says(fs, q)
<1>1. /\ fs \in Scoped!FieldSet /\ fs.buf = Scoped!Fragment(q)
      /\ Len(fs.spans) = Len(q) /\ Len(q) \in Nat /\ fs.buf \in Seq(Chars)
  BY FieldSetIs DEF Renders
<1> SUFFICES ASSUME Len(fs.buf) <= OffsetModulus
             PROVE  Scoped!Shown(fs) = q
  BY <1>1 DEF Scoped!Says, Scoped!byte_size
<1>2. PICK M \in Nat \ {0} : M = OffsetModulus
  BY Constants
<1>3. ASSUME NEW i \in 1..Len(q)
      PROVE  Scoped!key(fs, i) = q[i].key /\ Scoped!value(fs, i) = q[i].val
  <2>1. /\ i - 1 \in 0..Len(q) /\ i \in 0..Len(q) /\ q[i] \in Entry
        /\ Upto(q, i) = Append(Upto(q, i - 1), q[i])
    BY UptoSteps
  <2>2. Upto(q, i - 1) \in Seq(Entry)
    BY <2>1, UptoIs
  <2> DEFINE p == Scoped!Fragment(Upto(q, i - 1))
             w == Grown(p, q[i])
  <2>3. p \in Seq(Chars) /\ Scoped!Fragment(Upto(q, i)) = w
    BY <2>1, <2>2, FragmentAppend
  <2>4. Begins(w, fs.buf)
    BY <1>1, <2>1, <2>3, FragmentBegins
  <2>5. fs.spans[i] = SpanAt(Len(p), q[i])
    BY DEF Renders, SpanOf
  <2> HIDE DEF p
  <2>6. LaidOut(w, p, Scoped!Comma, q[i].key, Scoped!Colon, q[i].val)
    BY <2>1, <2>3, GrownIs
  <2> HIDE DEF w
  <2>7. PICK n \in Nat, k \in Seq(Chars), v \in Seq(Chars), x \in Nat, y \in Nat :
          /\ n = Len(p) /\ k = q[i].key /\ v = q[i].val /\ x = Len(k) /\ y = Len(v)
    <3>1. PICK n, k, v, x, y :
            /\ n = Len(p) /\ k = q[i].key /\ v = q[i].val /\ x = Len(k) /\ y = Len(v)
      OBVIOUS
    <3>2. k \in Seq(Chars) /\ v \in Seq(Chars)
      BY <2>1, <3>1 DEF Entry
    <3>3. n \in Nat /\ x \in Nat /\ y \in Nat
      BY <2>3, <3>1, <3>2
    <3> QED
      BY <3>1, <3>2, <3>3
  <2>8. /\ Len(w) = n + 2 + x + 2 + y
        /\ \A j \in 1..x : w[n + 2 + j] = k[j]
        /\ \A j \in 1..y : w[n + 2 + x + 2 + j] = v[j]
    BY <2>6, <2>7, Punctuation DEF LaidOut
  <2>9. /\ Len(w) <= Len(fs.buf) /\ Len(fs.buf) <= M
        /\ \A j \in 1..Len(w) : fs.buf[j] = w[j]
    BY <1>2, <2>4 DEF Begins
  <2>10. Len(fs.buf) \in Nat
    BY <1>1
  <2>11. /\ n + 2 < M /\ x < M /\ y < M /\ n + 2 \in Nat
         /\ n + 2 + x + 2 \in Nat /\ n + 2 + x + 2 <= M /\ (n + 2 + x + 2 = M => y = 0)
         /\ n + 2 + x <= Len(fs.buf) /\ n + 2 + x + 2 + y <= Len(fs.buf)
    BY <1>2, <2>8, <2>9, <2>10
  <2>12. /\ fs.spans[i].key_off = n + 2 /\ fs.spans[i].key_len = x
         /\ fs.spans[i].val_off = Scoped!U32(n + 2 + x + 2) /\ fs.spans[i].val_len = y
    <3>1. /\ Scoped!U32(n + 2) = n + 2 /\ Scoped!U32(x) = x /\ Scoped!U32(y) = y
      BY <1>2, <2>11, Cut
    <3> QED
      BY <2>5, <2>7, <3>1 DEF SpanAt
  <2>13. Scoped!key(fs, i) = k
    <3>1. \A j \in 1..Len(k) : fs.buf[n + 2 + j] = k[j]
      <4> SUFFICES ASSUME NEW j \in 1..x PROVE fs.buf[n + 2 + j] = k[j]
        BY <2>7
      <4>1. n + 2 + j \in 1..Len(w)
        BY <2>8
      <4> QED
        BY <2>8, <2>9, <4>1
    <3>2. PICK off \in Nat : off = n + 2
      BY <2>11
    <3>4. Lies(fs.buf, off, k)
      BY <2>7, <2>11, <3>1, <3>2 DEF Lies
    <3>3. Scoped!substr(fs.buf, off, Len(k)) = k
      BY <1>1, <3>4, SubstrIs
    <3> QED
      BY <2>7, <2>12, <3>2, <3>3 DEF Scoped!key
  <2>14. Scoped!value(fs, i) = v
    <3>1. PICK off \in Nat : /\ off = Scoped!U32(n + 2 + x + 2)
                             /\ off = n + 2 + x + 2 \/ y = 0
                             /\ off + y <= Len(fs.buf)
      <4>1. CASE n + 2 + x + 2 < M
        BY <1>2, <2>11, <4>1, Cut
      <4>2. CASE n + 2 + x + 2 = M
        <5>1. Scoped!U32(n + 2 + x + 2) \in Nat /\ Scoped!U32(n + 2 + x + 2) < M
          BY <1>2, <2>11, Cut
        <5> QED
          BY <2>10, <2>11, <4>2, <5>1
      <4> QED
        BY <1>2, <2>11, <4>1, <4>2
    <3>2. \A j \in 1..Len(v) : fs.buf[off + j] = v[j]
      <4> SUFFICES ASSUME NEW j \in 1..y PROVE fs.buf[off + j] = v[j]
        BY <2>7
      <4>1. off = n + 2 + x + 2 /\ n + 2 + x + 2 + j \in 1..Len(w)
        BY <2>8, <3>1
      <4> QED
        BY <2>8, <2>9, <4>1
    <3>4. Lies(fs.buf, off, v)
      BY <2>7, <3>1, <3>2 DEF Lies
    <3>3. Scoped!substr(fs.buf, off, Len(v)) = v
      BY <1>1, <3>4, SubstrIs
    <3> QED
      BY <2>7, <2>12, <3>1, <3>3 DEF Scoped!value
  <2> QED
    BY <2>7, <2>13, <2>14
<1>4. \A i \in 1..Len(q) : q[i] = [key |-> q[i].key, val |-> q[i].val]
  <2>1. \A i \in 1..Len(q) : q[i] \in Entry
    BY ElementOfSeq
  <2> QED
    BY <2>1 DEF Entry
<1>5. Scoped!Shown(fs) = [i \in 1..Len(q) |-> [key |-> Scoped!key(fs, i), val |-> Scoped!value(fs, i)]]
  BY <1>1 DEF Scoped!Shown, Scoped!size
<1>6. Scoped!Shown(fs) = [i \in 1..Len(q) |-> q[i]]
  BY <1>3, <1>4, <1>5
<1>7. q = [i \in 1..Len(q) |-> q[i]]
  BY LenProperties
<1> QED
  BY <1>6, <1>7

-----------------------------------------------------------------------------
(* A sequence without the members of a set.                                 *)

Members(seq) == {seq[i] : i \in 1..Len(seq)}

LEMMA MembersOf ==
  /\ Members(<<>>) = {}
  /\ \A S : \A seq \in Seq(S), e \in S : \A x :
       x \in Members(Append(seq, e)) <=> x \in Members(seq) \/ x = e
<1>1. Members(<<>>) = {}
  BY DEF Members
<1>2. ASSUME NEW S, NEW seq \in Seq(S), NEW e \in S, NEW x
      PROVE  x \in Members(Append(seq, e)) <=> x \in Members(seq) \/ x = e
  <2>1. PICK r \in Seq(S) : r = Append(seq, e)
    BY AppendProperties
  <2>2. /\ Len(r) = Len(seq) + 1 /\ \A i \in 1..Len(seq) : r[i] = seq[i]
        /\ r[Len(seq) + 1] = e
    BY <2>1, AppendProperties
  <2>3. Len(seq) \in Nat
    OBVIOUS
  <2>4. x \in Members(seq) => x \in Members(r)
    <3> SUFFICES ASSUME NEW i \in 1..Len(seq), x = seq[i] PROVE x \in Members(r)
      BY DEF Members
    <3>1. i \in 1..Len(r) /\ r[i] = x
      BY <2>2, <2>3
    <3> QED
      BY <3>1 DEF Members
  <2>5. e \in Members(r)
    <3>1. Len(seq) + 1 \in 1..Len(r)
      BY <2>2, <2>3
    <3> QED
      BY <2>2, <3>1 DEF Members
  <2>6. x \in Members(r) => x \in Members(seq) \/ x = e
    <3> SUFFICES ASSUME NEW i \in 1..Len(r), x = r[i], x # e PROVE x \in Members(seq)
      BY DEF Members
    <3>1. i \in 1..Len(seq)
      BY <2>2, <2>3
    <3> QED
      BY <2>2, <3>1 DEF Members
  <2> QED
    BY <2>1, <2>4, <2>5, <2>6
<1> QED
  BY <1>1, <1>2

\* What is left after one more element.
Left(l, e, out) == IF e \in out THEN l ELSE Append(l, e)

Lefts(f, seq, out) ==
  f[0] = <<>> /\ \A k \in 1..Len(seq) : f[k] = Left(f[k - 1], seq[k], out)

LEMMA LeftsExist ==
  ASSUME NEW S, NEW seq \in Seq(S), NEW out
  PROVE  \E f : f \in [0..Len(seq) -> Seq(S)] /\ Lefts(f, seq, out)
<1> DEFINE Q == Seq(S)
           st == [p \in Q \X (1..Len(seq)) |-> Left(p[1], seq[p[2]], out)]
<1>1. Len(seq) \in Nat /\ <<>> \in Q
  OBVIOUS
<1>2. ASSUME NEW l \in Q, NEW k \in 1..Len(seq)
      PROVE  Left(l, seq[k], out) \in Q /\ st[<<l, k>>] = Left(l, seq[k], out)
  <2>1. seq[k] \in S
    BY ElementOfSeq
  <2>2. Append(l, seq[k]) \in Seq(S)
    BY <2>1, AppendProperties
  <2> QED
    BY <2>2 DEF Left
<1>3. st \in [Q \X (1..Len(seq)) -> Q]
  <2>1. ASSUME NEW p \in Q \X (1..Len(seq)) PROVE Left(p[1], seq[p[2]], out) \in Q
    <3>1. p[1] \in Q /\ p[2] \in 1..Len(seq)
      OBVIOUS
    <3> QED
      BY <1>2, <3>1
  <2> HIDE DEF Q
  <2> QED
    BY <2>1
<1> HIDE DEF st, Q
<1>4. PICK f : f \in [0..Len(seq) -> Q] /\ Iterated(f, <<>>, Len(seq), st)
  <2>1. PICK b \in Q, n \in Nat : b = <<>> /\ n = Len(seq)
    BY <1>1
  <2>2. st \in [Q \X (1..n) -> Q]
    BY <1>3, <2>1
  <2>3. \E f : f \in [0..n -> Q] /\ Iterated(f, b, n, st)
    BY <2>2, Iterates
  <2> QED
    BY <2>1, <2>3
<1>5. ASSUME NEW k \in 1..Len(seq) PROVE f[k] = Left(f[k - 1], seq[k], out)
  <2>1. f[k - 1] \in Q
    BY <1>1, <1>4
  <2> QED
    BY <1>2, <1>4, <2>1 DEF Iterated
<1> QED
  BY <1>4, <1>5 DEF Iterated, Lefts, Q

LEMMA WithoutIs ==
  ASSUME NEW S, NEW seq \in Seq(S), NEW out
  PROVE  \E f : /\ f \in [0..Len(seq) -> Seq(S)] /\ Lefts(f, seq, out)
                /\ Scoped!Without(seq, out) = f[Len(seq)]
<1> DEFINE Is(h) == h = [n \in 0..Len(seq) |->
                           IF n = 0 THEN <<>>
                           ELSE IF seq[n] \in out THEN h[n - 1] ELSE Append(h[n - 1], seq[n])]
<1>1. Len(seq) \in Nat
  OBVIOUS
<1>2. PICK f : f \in [0..Len(seq) -> Seq(S)] /\ Lefts(f, seq, out)
  BY LeftsExist
<1>3. Is(f)
  <2>1. ASSUME NEW n \in 0..Len(seq)
        PROVE  f[n] = IF n = 0 THEN <<>>
                      ELSE IF seq[n] \in out THEN f[n - 1] ELSE Append(f[n - 1], seq[n])
    <3>1. n = 0 \/ n \in 1..Len(seq)
      BY <1>1
    <3>2. n \in 1..Len(seq) => n # 0 /\ f[n] = Left(f[n - 1], seq[n], out)
      BY <1>1, <1>2 DEF Lefts
    <3> QED
      BY <1>2, <3>1, <3>2 DEF Lefts, Left
  <2> QED
    BY <1>2, <2>1
<1> DEFINE g == CHOOSE h : Is(h)
<1>4. Is(g)
  BY <1>3
<1>5. Scoped!Without(seq, out) = g[Len(seq)]
  BY DEF Scoped!Without
<1> HIDE DEF g
<1>6. \A n \in 0..Len(seq) : g[n] = f[n]
  <2> DEFINE T == {n \in 0..Len(seq) : g[n] # f[n]}
  <2> SUFFICES ASSUME T # {} PROVE FALSE
    OBVIOUS
  <2>1. T \subseteq Nat
    BY <1>1
  <2>2. PICK n \in T : \A m \in T : n <= m
    BY <2>1, Least
  <2>3. n # 0
    BY <1>2, <1>4 DEF Lefts
  <2>4. n - 1 \in 0..Len(seq) /\ n - 1 \notin T /\ n \in 1..Len(seq)
    BY <1>1, <2>1, <2>2, <2>3
  <2>5. g[n] = Left(g[n - 1], seq[n], out)
    BY <1>4, <2>3, <2>4 DEF Left
  <2>6. f[n] = Left(f[n - 1], seq[n], out)
    BY <1>2, <2>4 DEF Lefts
  <2> QED
    BY <2>2, <2>4, <2>5, <2>6
<1> QED
  BY <1>1, <1>2, <1>5, <1>6

LEMMA WithoutMembers ==
  ASSUME NEW S, NEW seq \in Seq(S), NEW out
  PROVE  /\ Scoped!Without(seq, out) \in Seq(S)
         /\ \A x : x \in Members(Scoped!Without(seq, out)) <=> x \in Members(seq) /\ x \notin out
<1>1. PICK f : /\ f \in [0..Len(seq) -> Seq(S)] /\ Lefts(f, seq, out)
               /\ Scoped!Without(seq, out) = f[Len(seq)]
  BY WithoutIs
<1>2. Len(seq) \in Nat
  OBVIOUS
<1> DEFINE Right(k) == \A x : x \in Members(f[k]) <=> x \in Members(Upto(seq, k)) /\ x \notin out
           T == {k \in 0..Len(seq) : ~Right(k)}
<1>3. T = {}
  <2> SUFFICES ASSUME T # {} PROVE FALSE
    OBVIOUS
  <2>1. T \subseteq Nat
    BY <1>2
  <2>2. PICK k \in T : \A m \in T : k <= m
    BY <2>1, Least
  <2>3. Right(0)
    BY <1>1, UptoNone, MembersOf DEF Lefts
  <2> HIDE DEF Right
  <2>4. k # 0 /\ k \in 0..Len(seq)
    BY <2>2, <2>3
  <2>5. k \in 1..Len(seq) /\ ~(k <= k - 1)
    BY <1>2, <2>4
  <2>6. /\ k - 1 \in 0..Len(seq) /\ seq[k] \in S
        /\ Upto(seq, k) = Append(Upto(seq, k - 1), seq[k])
    BY <2>5, UptoSteps
  <2>7. Right(k - 1)
    BY <2>2, <2>5, <2>6
  <2>8. f[k] = Left(f[k - 1], seq[k], out) /\ f[k - 1] \in Seq(S)
    BY <1>1, <2>5, <2>6 DEF Lefts
  <2>9. Upto(seq, k - 1) \in Seq(S)
    BY <2>6, UptoIs
  <2>10. /\ \A x : x \in Members(Append(f[k - 1], seq[k])) <=> x \in Members(f[k - 1]) \/ x = seq[k]
         /\ \A x : x \in Members(Upto(seq, k)) <=> x \in Members(Upto(seq, k - 1)) \/ x = seq[k]
    BY <2>6, <2>8, <2>9, MembersOf
  <2>11. Right(k)
    BY <2>7, <2>8, <2>10 DEF Right, Left
  <2> QED
    BY <2>2, <2>11
<1>4. Len(seq) \in 0..Len(seq)
  BY <1>2
<1>5. Right(Len(seq)) /\ Upto(seq, Len(seq)) = seq
  BY <1>3, <1>4, UptoAll
<1> QED
  BY <1>1, <1>4, <1>5

(* If what goes is exactly what comes after a place, what is left comes
   before it.                                                              *)
LEMMA WithoutEnd ==
  ASSUME NEW S, NEW seq \in Seq(S), NEW out, NEW m \in 0..Len(seq),
         \A i \in 1..Len(seq) : seq[i] \in out <=> ~(i <= m)
  PROVE  Scoped!Without(seq, out) = Upto(seq, m)
<1>1. PICK f : /\ f \in [0..Len(seq) -> Seq(S)] /\ Lefts(f, seq, out)
               /\ Scoped!Without(seq, out) = f[Len(seq)]
  BY WithoutIs
<1>2. Len(seq) \in Nat /\ m \in Nat
  OBVIOUS
<1> DEFINE Right(k) == f[k] = Upto(seq, IF k <= m THEN k ELSE m)
           T == {k \in 0..Len(seq) : ~Right(k)}
<1>3. T = {}
  <2> SUFFICES ASSUME T # {} PROVE FALSE
    OBVIOUS
  <2>1. T \subseteq Nat
    BY <1>2
  <2>2. PICK k \in T : \A j \in T : k <= j
    BY <2>1, Least
  <2>3. Right(0)
    BY <1>1, <1>2, UptoNone DEF Lefts
  <2> HIDE DEF Right
  <2>4. k # 0 /\ k \in 0..Len(seq)
    BY <2>2, <2>3
  <2>5. k \in 1..Len(seq) /\ ~(k <= k - 1)
    BY <1>2, <2>4
  <2>6. /\ k - 1 \in 0..Len(seq) /\ seq[k] \in S
        /\ Upto(seq, k) = Append(Upto(seq, k - 1), seq[k])
    BY <2>5, UptoSteps
  <2>7. Right(k - 1)
    BY <2>2, <2>5, <2>6
  <2>8. f[k] = Left(f[k - 1], seq[k], out)
    BY <1>1, <2>5 DEF Lefts
  <2>9. Right(k)
    <3>1. CASE k <= m
      <4>1. seq[k] \notin out /\ k - 1 <= m
        BY <1>2, <2>5, <3>1
      <4> QED
        BY <2>6, <2>7, <2>8, <3>1, <4>1 DEF Right, Left
    <3>2. CASE ~(k <= m)
      <4>1. seq[k] \in out
        BY <2>5, <3>2
      <4>2. k - 1 <= m => k - 1 = m
        BY <1>2, <2>5, <3>2
      <4> QED
        BY <2>7, <2>8, <3>2, <4>1, <4>2 DEF Right, Left
    <3> QED
      BY <3>1, <3>2
  <2> QED
    BY <2>2, <2>9
<1>4. Len(seq) \in 0..Len(seq) /\ (Len(seq) <= m => Len(seq) = m)
  BY <1>2
<1>5. Right(Len(seq))
  BY <1>3, <1>4
<1> QED
  BY <1>1, <1>4, <1>5

LEMMA MembersUpto ==
  ASSUME NEW S, NEW seq \in Seq(S), NEW n \in 0..Len(seq), NEW x
  PROVE  x \in Members(Upto(seq, n)) <=> \E i \in 1..n : x = seq[i]
<1>1. Len(Upto(seq, n)) = n /\ \A i \in 1..n : Upto(seq, n)[i] = seq[i]
  BY UptoIs
<1> QED
  BY <1>1 DEF Members

-----------------------------------------------------------------------------
(* The scopes of a thread that destroys its scopes innermost first and adds
   fields to the innermost only.                                           *)

Mark == [fields : Nat, bytes : Nat]
Saying == [scope : Scopes, field : KvFields]

\* The fields of what scopes were told.
FieldsOf(sd) == [i \in 1..Len(sd) |-> sd[i].field]

\* Where the scope al[i] found the context: behind what its outer scopes were told.
Marked(al, i, sd, m) ==
  /\ m.fields \in 0..Len(sd)
  /\ m.bytes = Len(Scoped!Fragment(Upto(FieldsOf(sd), m.fields)))
  /\ \A j \in 1..Len(sd) : j <= m.fields <=> sd[j].scope \in Members(Upto(al, i - 1))

\* Its scopes al, its pointer sl, what they were told sd and its context ctx agree.
Sound(al, sl, sd, ctx, mk) ==
  /\ \A i, j \in 1..Len(al) : al[i] = al[j] => i = j
  /\ sl = IF al = <<>> THEN None ELSE al[1]
  /\ Renders(ctx, FieldsOf(sd))
  /\ \A i \in 2..Len(al) : Marked(al, i, sd, mk[al[i]])

Telling(al, sd) ==
  /\ al \in Seq(Scopes) /\ sd \in Seq(Saying)
  /\ \A j \in 1..Len(sd) : sd[j].scope \in Members(al)

LEMMA FieldsOfIs ==
  ASSUME NEW sd \in Seq(Saying)
  PROVE  /\ FieldsOf(sd) \in Seq(Entry) /\ Len(FieldsOf(sd)) = Len(sd)
         /\ \A i \in 1..Len(sd) : FieldsOf(sd)[i] = sd[i].field
<1>1. \A i \in 1..Len(sd) : sd[i] \in Saying
  BY ElementOfSeq
<1>2. KvFields \subseteq Entry
  BY Zenon, Constants DEF Entry, Chars
<1>3. Len(sd) \in Nat
  OBVIOUS
<1>4. FieldsOf(sd) \in [1..Len(sd) -> Entry] /\ \A i \in 1..Len(sd) : FieldsOf(sd)[i] = sd[i].field
  BY <1>1, <1>2 DEF FieldsOf, Saying
<1> QED
  BY <1>3, <1>4

LEMMA FieldsOfAppend ==
  ASSUME NEW sd \in Seq(Saying), NEW e \in Saying
  PROVE  FieldsOf(Append(sd, e)) = Append(FieldsOf(sd), e.field) /\ e.field \in Entry
<1>1. e.field \in Entry
  BY Zenon, Constants DEF Entry, Chars, Saying
<1>2. PICK r \in Seq(Saying) : r = Append(sd, e)
  BY AppendProperties
<1>3. /\ Len(r) = Len(sd) + 1 /\ r[Len(sd) + 1] = e
      /\ \A i \in 1..Len(sd) : r[i] = sd[i]
  BY <1>2, AppendProperties
<1>4. Len(sd) \in Nat
  OBVIOUS
<1>5. /\ FieldsOf(sd) \in Seq(Entry) /\ Len(FieldsOf(sd)) = Len(sd)
      /\ \A i \in 1..Len(sd) : FieldsOf(sd)[i] = sd[i].field
  BY FieldsOfIs
<1>6. /\ FieldsOf(r) \in Seq(Entry) /\ Len(FieldsOf(r)) = Len(r)
      /\ \A i \in 1..Len(r) : FieldsOf(r)[i] = r[i].field
  BY FieldsOfIs
<1>7. PICK a \in Seq(Entry) : a = Append(FieldsOf(sd), e.field)
  BY <1>1, <1>5, AppendProperties
<1>8. /\ Len(a) = Len(FieldsOf(sd)) + 1 /\ a[Len(FieldsOf(sd)) + 1] = e.field
      /\ \A i \in 1..Len(FieldsOf(sd)) : a[i] = FieldsOf(sd)[i]
  BY <1>1, <1>5, <1>7, AppendProperties
<1>9. ASSUME NEW i \in 1..Len(FieldsOf(r)) PROVE FieldsOf(r)[i] = a[i]
  <2>1. i \in 1..Len(r) /\ (i = Len(sd) + 1 \/ i \in 1..Len(sd))
    BY <1>3, <1>4, <1>6
  <2> QED
    BY <1>3, <1>5, <1>6, <1>8, <2>1
<1>10. Len(FieldsOf(r)) = Len(a)
  BY <1>3, <1>5, <1>6, <1>8
<1>11. FieldsOf(r) = a
  BY <1>6, <1>9, <1>10, SeqEqual
<1> QED
  BY <1>1, <1>2, <1>7, <1>11

LEMMA FieldsOfUpto ==
  ASSUME NEW sd \in Seq(Saying), NEW n \in 0..Len(sd)
  PROVE  FieldsOf(Upto(sd, n)) = Upto(FieldsOf(sd), n)
<1>1. PICK r \in Seq(Saying) : r = Upto(sd, n)
  BY UptoIs
<1>2. Len(r) = n /\ \A i \in 1..n : r[i] = sd[i]
  BY <1>1, UptoIs
<1>3. /\ FieldsOf(sd) \in Seq(Entry) /\ Len(FieldsOf(sd)) = Len(sd)
      /\ \A i \in 1..Len(sd) : FieldsOf(sd)[i] = sd[i].field
  BY FieldsOfIs
<1>4. /\ FieldsOf(r) \in Seq(Entry) /\ Len(FieldsOf(r)) = Len(r)
      /\ \A i \in 1..Len(r) : FieldsOf(r)[i] = r[i].field
  BY FieldsOfIs
<1>5. n \in 0..Len(FieldsOf(sd)) /\ n \in Nat /\ n <= Len(sd) /\ Len(sd) \in Nat
  BY <1>3
<1>6. /\ Upto(FieldsOf(sd), n) \in Seq(Entry) /\ Len(Upto(FieldsOf(sd), n)) = n
      /\ \A i \in 1..n : Upto(FieldsOf(sd), n)[i] = FieldsOf(sd)[i]
  BY <1>3, <1>5, UptoIs
<1>7. \A i \in 1..Len(FieldsOf(r)) : FieldsOf(r)[i] = Upto(FieldsOf(sd), n)[i]
  BY <1>2, <1>3, <1>4, <1>5, <1>6
<1>8. FieldsOf(r) = Upto(FieldsOf(sd), n)
  BY <1>2, <1>4, <1>6, <1>7, SeqEqual
<1> QED
  BY <1>1, <1>8

LEMMA FieldsOfNone == FieldsOf(<<>>) = <<>>
  BY DEF FieldsOf

LEMMA SoundNone ==
  ASSUME NEW mk
  PROVE  Sound(<<>>, None, <<>>, Scoped!EmptyFields, mk)
<1>1. Len(<<>>) = 0 /\ 1..0 = {} /\ 2..0 = {}
  OBVIOUS
<1> QED
  BY <1>1, FieldsOfNone, RendersNone DEF Sound

LEMMA SoundStart ==
  ASSUME NEW s \in Scopes, NEW mk
  PROVE  Sound(Append(<<>>, s), s, <<>>, Scoped!EmptyFields, mk)
<1>1. PICK al \in Seq(Scopes) : al = Append(<<>>, s)
  BY EmptySeq, AppendProperties
<1>2. Len(al) = 1 /\ al[1] = s /\ al # <<>> /\ 2..1 = {}
  BY <1>1
<1>3. \A i, j \in 1..Len(al) : i = j
  BY <1>2
<1>4. Sound(al, s, <<>>, Scoped!EmptyFields, mk)
  BY <1>2, <1>3, FieldsOfNone, RendersNone DEF Sound
<1> QED
  BY <1>1, <1>4

(* A scope of another thread comes or goes.                                 *)
LEMMA SoundApart ==
  ASSUME NEW al \in Seq(Scopes), NEW sl, NEW sd, NEW ctx, NEW mk \in [Scopes -> Mark],
         Sound(al, sl, sd, ctx, mk), NEW s \in Scopes, s \notin Members(al), NEW m
  PROVE  Sound(al, sl, sd, ctx, [mk EXCEPT ![s] = m])
<1>1. ASSUME NEW i \in 2..Len(al)
      PROVE  [mk EXCEPT ![s] = m][al[i]] = mk[al[i]]
  <2>1. i \in 1..Len(al) /\ al[i] \in Scopes
    BY ElementOfSeq
  <2>2. al[i] # s
    BY <2>1 DEF Members
  <2> QED
    BY <2>1, <2>2
<1> QED
  BY <1>1 DEF Sound

(* A scope within another remembers where it found the context.             *)
LEMMA SoundNest ==
  ASSUME NEW al, NEW sl, NEW sd, Telling(al, sd), NEW ctx, NEW mk \in [Scopes -> Mark],
         Sound(al, sl, sd, ctx, mk), al # <<>>, NEW s \in Scopes, s \notin Members(al)
  PROVE  Sound(Append(al, s), sl, sd, ctx, [mk EXCEPT ![s] = Scoped!MarkOf(ctx)])
<1>1. /\ al \in Seq(Scopes) /\ sd \in Seq(Saying) /\ Len(al) \in Nat \ {0} /\ Len(sd) \in Nat
      /\ \A j \in 1..Len(sd) : sd[j].scope \in Members(al)
  BY EmptySeq DEF Telling
<1> DEFINE mk1 == [mk EXCEPT ![s] = Scoped!MarkOf(ctx)]
<1>2. PICK al1 \in Seq(Scopes) : al1 = Append(al, s)
  BY <1>1, AppendProperties
<1>3. /\ Len(al1) = Len(al) + 1 /\ al1[Len(al) + 1] = s /\ al1 # <<>>
      /\ \A i \in 1..Len(al) : al1[i] = al[i]
  BY <1>1, <1>2, AppendProperties
<1>4. \A i \in 1..Len(al) : al[i] # s /\ al[i] \in Scopes
  BY <1>1, ElementOfSeq DEF Members
<1>5. ASSUME NEW i \in 1..Len(al1), NEW j \in 1..Len(al1), al1[i] = al1[j]
      PROVE  i = j
  <2>1. (i \in 1..Len(al) \/ i = Len(al) + 1) /\ (j \in 1..Len(al) \/ j = Len(al) + 1)
    BY <1>1, <1>3
  <2>2. CASE i \in 1..Len(al) /\ j \in 1..Len(al)
    BY <1>3, <1>5, <2>2 DEF Sound
  <2>3. CASE i = Len(al) + 1 /\ j \in 1..Len(al)
    BY <1>3, <1>4, <1>5, <2>3
  <2>4. CASE i \in 1..Len(al) /\ j = Len(al) + 1
    BY <1>3, <1>4, <1>5, <2>4
  <2> QED
    BY <2>1, <2>2, <2>3, <2>4
<1>6. sl = al1[1]
  <2>1. 1 \in 1..Len(al)
    BY <1>1
  <2> QED
    BY <1>3, <2>1 DEF Sound
<1>7. mk1[s] = Scoped!MarkOf(ctx) /\ \A i \in 1..Len(al) : mk1[al[i]] = mk[al[i]]
  BY <1>4
<1> HIDE DEF mk1
<1>8. ASSUME NEW i \in 0..Len(al) PROVE Upto(al1, i) = Upto(al, i)
  BY <1>1, <1>2, UptoAppend
<1>9. ASSUME NEW i \in 2..Len(al1) PROVE Marked(al1, i, sd, mk1[al1[i]])
  <2>1. i - 1 \in 0..Len(al) /\ (i = Len(al) + 1 \/ i \in 2..Len(al))
    BY <1>1, <1>3
  <2>2. Upto(al1, i - 1) = Upto(al, i - 1)
    BY <1>8, <2>1
  <2>3. CASE i \in 2..Len(al)
    <3>1. i \in 1..Len(al)
      BY <2>3
    <3>2. Marked(al, i, sd, mk[al[i]])
      BY <2>3 DEF Sound
    <3>3. mk1[al1[i]] = mk[al[i]]
      BY <1>3, <1>7, <3>1
    <3> QED
      BY <2>2, <3>2, <3>3 DEF Marked
  <2>4. CASE i = Len(al) + 1
    <3>1. mk1[al1[i]] = Scoped!MarkOf(ctx)
      BY <1>3, <1>7, <2>4
    <3>2. Upto(al1, i - 1) = al
      <4>1. i - 1 = Len(al)
        BY <1>1, <2>4
      <4> QED
        BY <1>1, <2>2, <4>1, UptoAll
    <3>3. Renders(ctx, FieldsOf(sd))
      BY DEF Sound
    <3>4. FieldsOf(sd) \in Seq(Entry) /\ Len(FieldsOf(sd)) = Len(sd)
      BY <1>1, FieldsOfIs
    <3>5. Scoped!MarkOf(ctx) = [fields |-> Len(sd), bytes |-> Len(Scoped!Fragment(FieldsOf(sd)))]
      BY <3>3, <3>4 DEF Renders, Scoped!MarkOf, Scoped!size, Scoped!byte_size
    <3>6. Upto(FieldsOf(sd), Len(sd)) = FieldsOf(sd)
      BY <3>4, UptoAll
    <3>7. Len(sd) \in 0..Len(sd)
      BY <1>1
    <3>8. \A j \in 1..Len(sd) : j <= Len(sd)
      BY <1>1
    <3> QED
      BY <1>1, <3>1, <3>2, <3>5, <3>6, <3>7, <3>8 DEF Marked
  <2> QED
    BY <2>1, <2>3, <2>4
<1>10. Sound(al1, sl, sd, ctx, mk1)
  BY <1>3, <1>5, <1>6, <1>9 DEF Sound
<1> QED
  BY <1>2, <1>10 DEF mk1

(* The innermost scope is told one field more.                              *)
LEMMA SoundKv ==
  ASSUME NEW al, NEW sl, NEW sd, Telling(al, sd), NEW ctx, NEW mk \in [Scopes -> Mark],
         Sound(al, sl, sd, ctx, mk), al # <<>>, NEW e \in Saying, e.scope = al[Len(al)]
  PROVE  Sound(al, sl, Append(sd, e), Scoped!add(ctx, e.field), mk)
<1>1. /\ al \in Seq(Scopes) /\ sd \in Seq(Saying) /\ Len(al) \in Nat \ {0} /\ Len(sd) \in Nat
  BY EmptySeq DEF Telling
<1>2. PICK r \in Seq(Saying) : r = Append(sd, e)
  BY <1>1, AppendProperties
<1>3. /\ Len(r) = Len(sd) + 1 /\ r[Len(sd) + 1] = e
      /\ \A i \in 1..Len(sd) : r[i] = sd[i]
  BY <1>1, <1>2, AppendProperties
<1>4. /\ FieldsOf(sd) \in Seq(Entry) /\ Len(FieldsOf(sd)) = Len(sd)
      /\ FieldsOf(r) = Append(FieldsOf(sd), e.field) /\ e.field \in Entry
  BY <1>1, <1>2, FieldsOfIs, FieldsOfAppend
<1>5. Renders(Scoped!add(ctx, e.field), FieldsOf(r))
  <2>1. Renders(ctx, FieldsOf(sd))
    BY DEF Sound
  <2> QED
    BY <1>4, <2>1, RendersAdd
<1>6. ASSUME NEW i \in 2..Len(al) PROVE Marked(al, i, r, mk[al[i]])
  <2>1. Marked(al, i, sd, mk[al[i]])
    BY DEF Sound
  <2>2. PICK m : m = mk[al[i]]
    OBVIOUS
  <2>3. m.fields \in 0..Len(sd) /\ m.fields \in 0..Len(r) /\ m.fields \in Nat
    BY <1>1, <1>3, <2>1, <2>2 DEF Marked
  <2>4. Upto(FieldsOf(r), m.fields) = Upto(FieldsOf(sd), m.fields)
    BY <1>4, <2>3, UptoAppend
  <2>5. e.scope \notin Members(Upto(al, i - 1))
    <3>1. i - 1 \in 0..Len(al) /\ Len(al) \in 1..Len(al)
      BY <1>1
    <3>2. SUFFICES ASSUME NEW h \in 1..i - 1, e.scope = al[h] PROVE FALSE
      BY <1>1, <3>1, MembersUpto, SMTT(20)
    <3>3. h \in 1..Len(al) /\ h # Len(al)
      BY <1>1
    <3> QED
      BY <3>1, <3>2, <3>3 DEF Sound
  <2>6. ASSUME NEW j \in 1..Len(r)
        PROVE  j <= m.fields <=> r[j].scope \in Members(Upto(al, i - 1))
    <3>1. j \in 1..Len(sd) \/ j = Len(sd) + 1
      BY <1>1, <1>3
    <3>2. CASE j \in 1..Len(sd)
      BY <1>3, <2>1, <2>2, <3>2 DEF Marked
    <3>3. CASE j = Len(sd) + 1
      <4>1. ~(j <= m.fields)
        BY <1>1, <2>3, <3>3
      <4> QED
        BY <1>3, <2>5, <3>3, <4>1
    <3> QED
      BY <3>1, <3>2, <3>3
  <2> QED
    BY <2>1, <2>2, <2>3, <2>4, <2>6 DEF Marked
<1>7. Sound(al, sl, r, Scoped!add(ctx, e.field), mk)
  BY <1>5, <1>6 DEF Sound
<1> QED
  BY <1>2, <1>7

(* The innermost scope ends: the context is truncated to where it found it,
   and that is what the scopes that remain were told.                      *)
LEMMA SoundPop ==
  ASSUME NEW al, NEW sl, NEW sd, Telling(al, sd), NEW ctx, NEW mk \in [Scopes -> Mark],
         Sound(al, sl, sd, ctx, mk), NEW s \in Scopes, Len(al) >= 2, s = al[Len(al)]
  PROVE  Sound(Scoped!Without(al, {s}), sl,
               Scoped!Without(sd, [scope : {s}, field : KvFields]),
               Scoped!truncate(ctx, mk[s].fields, mk[s].bytes),
               [mk EXCEPT ![s] = Scoped!NoMark])
<1>1. /\ al \in Seq(Scopes) /\ sd \in Seq(Saying) /\ Len(al) \in Nat /\ Len(sd) \in Nat
      /\ \A j \in 1..Len(sd) : sd[j].scope \in Members(al)
  BY DEF Telling
<1> DEFINE n == Len(al) - 1
<1>2. /\ n \in 1..Len(al) /\ n \in 0..Len(al) /\ n + 1 = Len(al) /\ n \in Nat
      /\ Len(al) \in 2..Len(al) /\ Len(al) \in 1..Len(al)
  BY <1>1
<1>3. \A i, j \in 1..Len(al) : al[i] = al[j] => i = j
  BY DEF Sound
<1>4. /\ Upto(al, n) \in Seq(Scopes) /\ Len(Upto(al, n)) = n
      /\ \A i \in 1..n : Upto(al, n)[i] = al[i]
  BY <1>1, <1>2, UptoIs
<1>5. al = Append(Upto(al, n), s)
  <2>1. Upto(al, Len(al)) = Append(Upto(al, Len(al) - 1), al[Len(al)])
    BY <1>1, <1>2, UptoSteps
  <2> QED
    BY <1>1, <2>1, UptoAll
<1> HIDE DEF n
<1>6. s \notin Members(Upto(al, n))
  <2>1. SUFFICES ASSUME NEW h \in 1..n, s = al[h] PROVE FALSE
    BY <1>1, <1>2, MembersUpto
  <2>2. h \in 1..Len(al) /\ h # Len(al)
    BY <1>1, <1>2
  <2> QED
    BY <1>2, <1>3, <2>1, <2>2
<1>7. \A x : x \in Members(al) <=> x \in Members(Upto(al, n)) \/ x = s
  <2>1. PICK r \in Seq(Scopes) : r = Upto(al, n)
    BY <1>4
  <2>2. \A x : x \in Members(Append(r, s)) <=> x \in Members(r) \/ x = s
    BY MembersOf
  <2> QED
    BY <1>5, <2>1, <2>2
<1>8. Scoped!Without(al, {s}) = Upto(al, n)
  <2>1. ASSUME NEW i \in 1..Len(al) PROVE al[i] \in {s} <=> ~(i <= n)
    <3>1. al[i] = s <=> i = Len(al)
      BY <1>2, <1>3
    <3> QED
      BY <1>1, <1>2, <3>1
  <2> QED
    BY <1>1, <1>2, <2>1, WithoutEnd
<1> DEFINE k == mk[s].fields
<1>9. Marked(al, Len(al), sd, mk[s])
  BY <1>2 DEF Sound
<1>10. k \in 0..Len(sd) /\ k \in Nat
  BY <1>1, <1>9 DEF Marked
<1>11. mk[s].bytes = Len(Scoped!Fragment(Upto(FieldsOf(sd), k)))
  BY <1>9 DEF Marked
<1>12. \A j \in 1..Len(sd) : j <= k <=> sd[j].scope \in Members(Upto(al, n))
  BY <1>9 DEF Marked, n
<1> HIDE DEF k
<1>13. Scoped!Without(sd, [scope : {s}, field : KvFields]) = Upto(sd, k)
  <2>1. ASSUME NEW j \in 1..Len(sd)
        PROVE  sd[j] \in [scope : {s}, field : KvFields] <=> ~(j <= k)
    <3>1. sd[j] \in Saying
      BY <1>1, ElementOfSeq
    <3>2. sd[j] \in [scope : {s}, field : KvFields] <=> sd[j].scope = s
      BY <3>1 DEF Saying
    <3> QED
      BY <1>1, <1>6, <1>7, <1>12, <3>2
  <2> DEFINE out == [scope : {s}, field : KvFields]
  <2>2. \A j \in 1..Len(sd) : sd[j] \in out <=> ~(j <= k)
    BY <2>1
  <2> HIDE DEF out
  <2>3. Scoped!Without(sd, out) = Upto(sd, k)
    BY <1>1, <1>10, <2>2, WithoutEnd
  <2> QED
    BY <2>3 DEF out
<1>14. /\ FieldsOf(sd) \in Seq(Entry) /\ Len(FieldsOf(sd)) = Len(sd)
       /\ FieldsOf(Upto(sd, k)) = Upto(FieldsOf(sd), k)
  BY <1>1, <1>10, FieldsOfIs, FieldsOfUpto
<1>15. Renders(Scoped!truncate(ctx, k, mk[s].bytes), FieldsOf(Upto(sd, k)))
  <2>1. Renders(ctx, FieldsOf(sd)) /\ k \in 0..Len(FieldsOf(sd))
    BY <1>10, <1>14 DEF Sound
  <2>2. Renders(Scoped!truncate(ctx, k, Len(Scoped!Fragment(Upto(FieldsOf(sd), k)))),
                Upto(FieldsOf(sd), k))
    BY <1>14, <2>1, RendersTruncate
  <2> QED
    BY <1>11, <1>14, <2>2
<1> DEFINE mk1 == [mk EXCEPT ![s] = Scoped!NoMark]
<1>16. \A i \in 1..n : mk1[al[i]] = mk[al[i]]
  <2> SUFFICES ASSUME NEW i \in 1..n PROVE mk1[al[i]] = mk[al[i]]
    OBVIOUS
  <2>1. i \in 1..Len(al) /\ i # Len(al)
    BY <1>1, <1>2
  <2>2. al[i] # s /\ al[i] \in Scopes
    BY <1>1, <1>2, <1>3, <2>1, ElementOfSeq
  <2> QED
    BY <2>2
<1> HIDE DEF mk1
<1>17. /\ Upto(sd, k) \in Seq(Saying) /\ Len(Upto(sd, k)) = k
       /\ \A j \in 1..k : Upto(sd, k)[j] = sd[j]
  BY <1>1, <1>10, UptoIs
<1>18. ASSUME NEW i \in 2..n PROVE Marked(Upto(al, n), i, Upto(sd, k), mk1[al[i]])
  <2>1. /\ i \in 2..Len(al) /\ i \in 1..n /\ i - 1 \in 0..n /\ i - 1 \in 0..Len(al)
        /\ i - 1 \in Nat /\ i - 1 <= n
    BY <1>1, <1>2
  <2>2. Marked(al, i, sd, mk[al[i]])
    BY <2>1 DEF Sound
  <2>3. PICK m : m = mk[al[i]]
    OBVIOUS
  <2>4. /\ m.fields \in 0..Len(sd) /\ m.fields \in Nat
        /\ m.bytes = Len(Scoped!Fragment(Upto(FieldsOf(sd), m.fields)))
        /\ \A j \in 1..Len(sd) : j <= m.fields <=> sd[j].scope \in Members(Upto(al, i - 1))
    BY <1>1, <2>2, <2>3 DEF Marked
  <2>5. \A x : x \in Members(Upto(al, i - 1)) => x \in Members(Upto(al, n))
    <3> SUFFICES ASSUME NEW x, x \in Members(Upto(al, i - 1))
                 PROVE  x \in Members(Upto(al, n))
      OBVIOUS
    <3>1. PICK h \in 1..i - 1 : x = al[h]
      BY <1>1, <2>1, MembersUpto
    <3>2. h \in 1..n
      BY <1>2, <2>1
    <3> QED
      BY <1>1, <1>2, <3>1, <3>2, MembersUpto
  <2>6. m.fields \in 0..k
    <3>1. CASE m.fields = 0
      BY <1>10, <3>1
    <3>2. CASE m.fields # 0
      <4>1. m.fields \in 1..Len(sd) /\ m.fields <= m.fields
        BY <2>4, <3>2
      <4>2. m.fields <= k
        BY <1>12, <2>4, <2>5, <4>1
      <4> QED
        BY <1>10, <2>4, <4>2
    <3> QED
      BY <3>1, <3>2
  <2>7. Upto(FieldsOf(Upto(sd, k)), m.fields) = Upto(FieldsOf(sd), m.fields)
    <3>1. k \in 0..Len(FieldsOf(sd))
      BY <1>10, <1>14
    <3> QED
      BY <1>14, <2>6, <3>1, UptoUpto
  <2>8. Upto(Upto(al, n), i - 1) = Upto(al, i - 1)
    BY <1>1, <1>2, <2>1, UptoUpto
  <2>9. ASSUME NEW j \in 1..k
        PROVE  j <= m.fields <=> Upto(sd, k)[j].scope \in Members(Upto(al, i - 1))
    <3>1. j \in 1..Len(sd)
      BY <1>1, <1>10
    <3> QED
      BY <1>17, <2>4, <3>1
  <2> QED
    BY <1>16, <1>17, <2>1, <2>3, <2>4, <2>6, <2>7, <2>8, <2>9 DEF Marked
<1>19. sl = Upto(al, n)[1] /\ Upto(al, n) # <<>>
  <2>1. 1 \in 1..n /\ 1 \in 1..Len(al) /\ al # <<>>
    BY <1>1, <1>2
  <2>2. sl = al[1]
    BY <2>1 DEF Sound
  <2>3. Len(Upto(al, n)) # 0
    BY <1>2, <1>4
  <2> QED
    BY <1>4, <2>1, <2>2, <2>3
<1>20. \A i, j \in 1..n : Upto(al, n)[i] = Upto(al, n)[j] => i = j
  <2>1. \A i \in 1..n : i \in 1..Len(al)
    BY <1>1, <1>2
  <2> QED
    BY <1>3, <1>4, <2>1
<1>21. \A i \in 2..n : i \in 1..n
  BY <1>2
<1>22. Sound(Upto(al, n), sl, Upto(sd, k), Scoped!truncate(ctx, k, mk[s].bytes), mk1)
  BY <1>4, <1>15, <1>18, <1>19, <1>20, <1>21 DEF Sound
<1> QED
  BY <1>8, <1>13, <1>22 DEF mk1, k

-----------------------------------------------------------------------------
(* The invariant of the context.                                            *)

ScopedTyped ==
  /\ slot \in [Threads -> Scopes \cup {None}]
  /\ storage \in [Scopes -> Scoped!FieldSet \cup {None}]
  /\ mark \in [Scopes -> Mark]
  /\ alive \in [Threads -> Seq(Scopes)]
  /\ said \in [Threads -> Seq(Saying)]
  /\ nested \in [Threads -> BOOLEAN] /\ orderly \in [Threads -> BOOLEAN]

\* No scope belongs to two threads.
Apart ==
  \A t, u \in Threads : t # u =>
    \A s \in Scopes : ~(s \in Members(alive[t]) /\ s \in Members(alive[u]))

\* Only living scopes have something to say.
LivingSpeak == \A t \in Threads : Telling(alive[t], said[t])

\* A thread that has kept to the rules has a sound context.
RulesPay ==
  \A t \in Threads : nested[t] /\ orderly[t] =>
    Sound(alive[t], slot[t], said[t], Scoped!Context(t), mark)

ScopedInv == ScopedTyped /\ PointerIsLive /\ Apart /\ LivingSpeak /\ RulesPay

LEMMA Pointing ==
  PointerIsLive <=>
    /\ \A t \in Threads : slot[t] # None => slot[t] \in Members(alive[t])
    /\ \A s \in Scopes : storage[s] # None <=> \E t \in Threads : slot[t] = s
  BY DEF PointerIsLive, Scoped!PointerIsLive, Scoped!Alive, Members

LEMMA ContextIs ==
  ASSUME ScopedTyped, PointerIsLive, NEW t \in Threads
  PROVE  /\ Scoped!Context(t) \in Scoped!FieldSet
         /\ Scoped!MarkOf(Scoped!Context(t)) \in Mark
         /\ slot[t] = None => Scoped!Context(t) = Scoped!EmptyFields
         /\ slot[t] # None => /\ slot[t] \in Scopes
                              /\ Scoped!Context(t) = storage[slot[t]]
                              /\ Scoped!Context(t) = Scoped!thread_context(t)
<1>1. slot[t] \in Scopes \cup {None}
  BY DEF ScopedTyped
<1>2. slot[t] # None => storage[slot[t]] \in Scoped!FieldSet
  BY <1>1, Pointing DEF ScopedTyped
<1>3. Scoped!Context(t) \in Scoped!FieldSet
  BY <1>2, FieldSetIs DEF Scoped!Context, Scoped!thread_context
<1>4. Scoped!MarkOf(Scoped!Context(t)) \in Mark
  <2>1. PICK fs \in Scoped!FieldSet : fs = Scoped!Context(t)
    BY <1>3
  <2>2. Len(fs.buf) \in Nat /\ Len(fs.spans) \in Nat
    BY FieldSetIs
  <2> QED
    BY <2>1, <2>2 DEF Scoped!MarkOf, Scoped!size, Scoped!byte_size, Mark
<1> QED
  BY <1>1, <1>3, <1>4 DEF Scoped!Context, Scoped!thread_context

(* A thread with nothing alive has said nothing.                            *)
LEMMA DeadAreSilent ==
  ASSUME NEW al, NEW sd, Telling(al, sd), al = <<>>
  PROVE  sd = <<>>
<1>1. Len(sd) \in Nat /\ 1..Len(sd) = {}
  BY MembersOf DEF Telling
<1> QED
  BY <1>1 DEF Telling

LEMMA ConstructKeeps ==
  ASSUME ScopedInv, NEW t \in Threads, NEW s \in Scopes, Scoped!Construct(t, s)
  PROVE  ScopedInv'
<1> USE DEF ScopedInv
<1>1. \A u \in Threads : s \notin Members(alive[u])
  BY DEF Scoped!Construct, Scoped!Alive, Members
<1>2. /\ None \notin Scopes /\ s # None
      /\ \A u \in Threads : slot[u] # s
  BY <1>1, Constants, Pointing
<1>3. /\ alive' = [alive EXCEPT ![t] = Append(alive[t], s)]
      /\ alive[t] \in Seq(Scopes)
      /\ said' = said /\ nested' = nested /\ orderly' = orderly
  BY DEF Scoped!Construct, Scoped!history, ScopedTyped
<1>4. /\ Append(alive[t], s) \in Seq(Scopes)
      /\ \A x : x \in Members(Append(alive[t], s)) <=> x \in Members(alive[t]) \/ x = s
  <2>1. PICK al \in Seq(Scopes) : al = alive[t]
    BY <1>3
  <2> QED
    BY <2>1, AppendProperties, MembersOf
<1>5. /\ alive' \in [Threads -> Seq(Scopes)]
      /\ alive'[t] = Append(alive[t], s)
      /\ \A u \in Threads : u # t => alive'[u] = alive[u]
  BY <1>3, <1>4 DEF ScopedTyped
<1>6. Apart'
  <2> SUFFICES ASSUME NEW u \in Threads, NEW v \in Threads, u # v, NEW x \in Scopes,
                      x \in Members(alive'[u]), x \in Members(alive'[v])
               PROVE  FALSE
    BY DEF Apart
  <2>1. CASE x = s
    BY <1>1, <1>5, <2>1
  <2>2. CASE x # s
    <3>1. x \in Members(alive[u]) /\ x \in Members(alive[v])
      BY <1>4, <1>5, <2>2
    <3> QED
      BY <3>1 DEF Apart
  <2> QED
    BY <2>1, <2>2
<1>7. LivingSpeak'
  BY <1>3, <1>4, <1>5 DEF LivingSpeak, Telling
<1>8. storage[s] = None
  BY <1>2, Pointing
<1>9. \A u \in Threads : Sound(alive[u], slot[u], said[u], Scoped!Context(u), mark)
                           => (slot[u] = None <=> alive[u] = <<>>)
  <2> SUFFICES ASSUME NEW u \in Threads,
                      Sound(alive[u], slot[u], said[u], Scoped!Context(u), mark)
               PROVE  slot[u] = None <=> alive[u] = <<>>
    OBVIOUS
  <2>1. alive[u] # <<>> => alive[u][1] \in Scopes
    <3>1. alive[u] \in Seq(Scopes)
      BY DEF ScopedTyped
    <3> QED
      BY <3>1
  <2> QED
    BY <1>2, <2>1 DEF Sound
<1>10. CASE slot[t] = None
  <2>1. /\ storage' = [storage EXCEPT ![s] = Scoped!EmptyFields]
        /\ slot' = [slot EXCEPT ![t] = s]
        /\ mark' = [mark EXCEPT ![s] = Scoped!NoMark]
    BY <1>10 DEF Scoped!Construct
  <2>2. Scoped!EmptyFields \in Scoped!FieldSet /\ Scoped!EmptyFields # None
    BY FieldSetIs, Constants
  <2>3. Scoped!NoMark \in Mark
    BY DEF Scoped!NoMark, Mark
  <2>4. ScopedTyped'
    BY <1>3, <1>5, <2>1, <2>2, <2>3 DEF ScopedTyped
  <2>5. /\ slot'[t] = s /\ \A u \in Threads : u # t => slot'[u] = slot[u]
        /\ storage'[s] = Scoped!EmptyFields
        /\ \A r \in Scopes : r # s => storage'[r] = storage[r]
    BY <2>1 DEF ScopedTyped
  <2>6. PointerIsLive'
    <3>1. \A u \in Threads : slot'[u] # None => slot'[u] \in Members(alive'[u])
      BY <1>4, <1>5, <2>5, Pointing
    <3>2. ASSUME NEW r \in Scopes
          PROVE  storage'[r] # None <=> \E u \in Threads : slot'[u] = r
      <4>1. CASE r = s
        BY <2>2, <2>5, <4>1
      <4>2. CASE r # s
        <5>1. storage[r] # None <=> \E u \in Threads : slot[u] = r
          BY Pointing
        <5>2. r # None
          BY Constants
        <5> QED
          BY <1>10, <2>5, <4>2, <5>1, <5>2
      <4> QED
        BY <4>1, <4>2
    <3> QED
      BY <3>1, <3>2 DEF PointerIsLive, Scoped!PointerIsLive, Scoped!Alive, Members
  <2>7. RulesPay'
    <3> SUFFICES ASSUME NEW u \in Threads, nested[u], orderly[u]
                 PROVE  Sound(alive'[u], slot'[u], said[u], Scoped!Context(u)', mark')
      BY <1>3 DEF RulesPay
    <3>1. Sound(alive[u], slot[u], said[u], Scoped!Context(u), mark)
      BY DEF RulesPay
    <3>2. CASE u = t
      <4>1. alive[t] = <<>>
        BY <1>9, <1>10, <3>1, <3>2
      <4>2. said[t] = <<>>
        BY <4>1, DeadAreSilent DEF LivingSpeak
      <4>3. Scoped!Context(t)' = Scoped!EmptyFields
        BY <1>2, <2>5 DEF Scoped!Context, Scoped!thread_context
      <4> QED
        BY <1>5, <2>5, <3>2, <4>1, <4>2, <4>3, SoundStart
    <3>3. CASE u # t
      <4>1. Scoped!Context(u)' = Scoped!Context(u)
        <5>1. slot[u] \in Scopes \cup {None}
          BY DEF ScopedTyped
        <5> QED
          BY <1>2, <2>5, <3>3, <5>1 DEF Scoped!Context, Scoped!thread_context
      <4>2. alive[u] \in Seq(Scopes) /\ mark \in [Scopes -> Mark]
        BY DEF ScopedTyped
      <4> QED
        <5>1. PICK al, sl, sd, ctx, mk :
                /\ al = alive[u] /\ sl = slot[u] /\ sd = said[u] /\ ctx = Scoped!Context(u)
                /\ mk = mark
          OBVIOUS
        <5>2. Sound(al, sl, sd, ctx, [mk EXCEPT ![s] = Scoped!NoMark])
          BY <1>1, <3>1, <4>2, <5>1, SoundApart
        <5> QED
          BY <1>5, <2>1, <2>5, <3>3, <4>1, <5>1, <5>2
    <3> QED
      BY <3>2, <3>3
  <2> QED
    BY <1>6, <1>7, <2>4, <2>6, <2>7
<1>11. CASE slot[t] # None
  <2>1. /\ storage' = [storage EXCEPT ![s] = None]
        /\ slot' = slot
        /\ mark' = [mark EXCEPT ![s] = Scoped!MarkOf(Scoped!Context(t))]
    BY <1>11, ContextIs DEF Scoped!Construct
  <2>2. storage' = storage
    BY <1>8, <2>1 DEF ScopedTyped
  <2>3. Scoped!MarkOf(Scoped!Context(t)) \in Mark
    BY ContextIs
  <2>4. ScopedTyped'
    BY <1>3, <1>5, <2>1, <2>2, <2>3 DEF ScopedTyped
  <2>5. PointerIsLive'
    <3>1. \A u \in Threads : slot'[u] # None => slot'[u] \in Members(alive'[u])
      BY <1>4, <1>5, <2>1, Pointing
    <3>2. \A r \in Scopes : storage'[r] # None <=> \E u \in Threads : slot'[u] = r
      BY <2>1, <2>2, Pointing
    <3> QED
      BY <3>1, <3>2 DEF PointerIsLive, Scoped!PointerIsLive, Scoped!Alive, Members
  <2>6. RulesPay'
    <3> SUFFICES ASSUME NEW u \in Threads, nested[u], orderly[u]
                 PROVE  Sound(alive'[u], slot[u], said[u], Scoped!Context(u), mark')
      BY <1>3, <2>1, <2>2 DEF RulesPay, Scoped!Context, Scoped!thread_context
    <3>1. Sound(alive[u], slot[u], said[u], Scoped!Context(u), mark)
      BY DEF RulesPay
    <3>2. mark \in [Scopes -> Mark] /\ Telling(alive[u], said[u]) /\ alive[u] \in Seq(Scopes)
      BY DEF ScopedTyped, LivingSpeak
    <3>3. CASE u = t
      <4>1. alive[t] # <<>>
        BY <1>9, <1>11, <3>1, <3>3
      <4> QED
        <5>1. PICK al, sl, sd, ctx, mk :
                /\ al = alive[t] /\ sl = slot[t] /\ sd = said[t] /\ ctx = Scoped!Context(t)
                /\ mk = mark
          OBVIOUS
        <5>2. Sound(Append(al, s), sl, sd, ctx, [mk EXCEPT ![s] = Scoped!MarkOf(ctx)])
          BY <1>1, <3>1, <3>2, <3>3, <4>1, <5>1, SoundNest
        <5> QED
          BY <1>5, <2>1, <3>3, <5>1, <5>2
    <3>4. CASE u # t
      BY <1>1, <1>5, <2>1, <3>1, <3>2, <3>4, SoundApart
    <3> QED
      BY <3>3, <3>4
  <2> QED
    BY <1>6, <1>7, <2>4, <2>5, <2>6
<1> QED
  BY <1>10, <1>11

(* Threads do not share a scope, so they do not share storage.              *)
LEMMA OthersStorage ==
  ASSUME ScopedInv, NEW t \in Threads, NEW u \in Threads, u # t
  PROVE  /\ slot[t] # None => slot[u] # slot[t]
         /\ \A s \in Members(alive[t]) : slot[u] # s /\ s \notin Members(alive[u])
<1> USE DEF ScopedInv
<1>1. \A s \in Members(alive[t]) : s \in Scopes /\ s # None
  <2>1. alive[t] \in Seq(Scopes)
    BY DEF ScopedTyped
  <2> QED
    BY <2>1, Constants, ElementOfSeq DEF Members
<1>2. \A s \in Members(alive[t]) : s \notin Members(alive[u])
  BY <1>1 DEF Apart
<1>3. slot[u] # None => slot[u] \in Members(alive[u])
  BY Pointing
<1>4. slot[t] # None => slot[t] \in Members(alive[t])
  BY Pointing
<1> QED
  BY <1>1, <1>2, <1>3, <1>4

LEMMA ScopeKvKeeps ==
  ASSUME ScopedInv, NEW t \in Threads, NEW s \in Scopes, NEW f \in KvFields,
         Scoped!ScopeKv(t, s, f)
  PROVE  ScopedInv'
<1> USE DEF ScopedInv
<1> DEFINE e == [scope |-> s, field |-> f]
<1>1. /\ s \in Members(alive[t]) /\ alive[t] # <<>> /\ alive[t] \in Seq(Scopes)
      /\ e \in Saying /\ e.scope = s /\ e.field = f /\ f \in Entry
  <2>1. s \in Members(alive[t])
    BY DEF Scoped!ScopeKv, Scoped!Alive, Members
  <2>2. f \in Entry
    BY Zenon, Constants DEF Entry, Chars
  <2> QED
    BY <2>1, <2>2, MembersOf DEF Saying, ScopedTyped
<1>2. /\ slot' = slot /\ mark' = mark /\ alive' = alive /\ nested' = nested
      /\ said' = [said EXCEPT ![t] = Append(said[t], e)]
      /\ orderly' = [orderly EXCEPT ![t] = orderly[t] /\ s = alive[t][Len(alive[t])]]
  BY DEF Scoped!ScopeKv, Scoped!Innermost
<1> HIDE DEF e
<1>3. /\ said[t] \in Seq(Saying) /\ Append(said[t], e) \in Seq(Saying)
      /\ Len(Append(said[t], e)) = Len(said[t]) + 1
      /\ \A i \in 1..Len(said[t]) : Append(said[t], e)[i] = said[t][i]
      /\ Append(said[t], e)[Len(said[t]) + 1] = e
  <2>1. PICK sd \in Seq(Saying) : sd = said[t]
    BY DEF ScopedTyped
  <2> QED
    BY <1>1, <2>1, AppendProperties
<1>4. /\ said' \in [Threads -> Seq(Saying)] /\ said'[t] = Append(said[t], e)
      /\ \A u \in Threads : u # t => said'[u] = said[u] /\ orderly'[u] = orderly[u]
      /\ orderly' \in [Threads -> BOOLEAN]
      /\ orderly'[t] => orderly[t] /\ s = alive[t][Len(alive[t])]
  BY <1>2, <1>3 DEF ScopedTyped
<1>5. Apart'
  BY <1>2 DEF Apart
<1>6. LivingSpeak'
  <2> SUFFICES ASSUME NEW u \in Threads PROVE Telling(alive[u], said'[u])
    BY <1>2 DEF LivingSpeak
  <2>1. Telling(alive[u], said[u])
    BY DEF LivingSpeak
  <2>2. CASE u # t
    BY <1>4, <2>1, <2>2
  <2>3. CASE u = t
    <3>1. ASSUME NEW i \in 1..Len(said'[t]) PROVE said'[t][i].scope \in Members(alive[t])
      <4>1. i \in 1..Len(said[t]) \/ i = Len(said[t]) + 1
        BY <1>3, <1>4
      <4> QED
        BY <1>1, <1>3, <1>4, <2>1, <2>3, <4>1 DEF Telling
    <3> QED
      BY <1>1, <1>3, <1>4, <2>3, <3>1 DEF Telling
  <2> QED
    BY <2>2, <2>3
<1>7. slot[t] \in Scopes \cup {None} /\ None \notin Scopes /\ mark \in [Scopes -> Mark]
  BY Constants DEF ScopedTyped
<1>8. ASSUME NEW u \in Threads, u # t, nested[u], orderly'[u],
             Scoped!Context(u)' = Scoped!Context(u)
      PROVE  Sound(alive'[u], slot'[u], said'[u], Scoped!Context(u)', mark')
  <2>1. Sound(alive[u], slot[u], said[u], Scoped!Context(u), mark)
    BY <1>4, <1>8 DEF RulesPay
  <2> QED
    BY <1>2, <1>4, <1>8, <2>1
<1>9. CASE slot[t] = None
  <2>1. storage' = storage
    BY <1>9 DEF Scoped!ScopeKv, Scoped!target
  <2>2. ScopedTyped'
    BY <1>2, <1>4, <2>1 DEF ScopedTyped
  <2>3. PointerIsLive'
    BY <1>2, <2>1 DEF PointerIsLive, Scoped!PointerIsLive, Scoped!Alive
  <2>4. \A u \in Threads : Scoped!Context(u)' = Scoped!Context(u)
    BY <1>2, <2>1 DEF Scoped!Context, Scoped!thread_context
  <2>5. ~(nested[t] /\ orderly'[t])
    <3> SUFFICES ASSUME nested[t], orderly[t] PROVE FALSE
      BY <1>4
    <3>1. slot[t] = alive[t][1]
      BY <1>1 DEF RulesPay, Sound
    <3>2. alive[t][1] \in Scopes
      BY <1>1
    <3> QED
      BY <1>7, <1>9, <3>1, <3>2
  <2>6. RulesPay'
    BY <1>2, <1>8, <2>4, <2>5 DEF RulesPay
  <2> QED
    BY <1>5, <1>6, <2>2, <2>3, <2>6
<1>10. CASE slot[t] # None
  <2>1. PICK x \in Scopes : x = slot[t]
    BY <1>7, <1>10
  <2>2. /\ storage[x] = Scoped!Context(t) /\ storage[x] \in Scoped!FieldSet
    BY <1>10, <2>1, ContextIs
  <2>3. storage' = [storage EXCEPT ![x] = Scoped!add(storage[x], f)]
    BY <1>10, <2>1 DEF Scoped!ScopeKv, Scoped!target
  <2>4. Scoped!add(storage[x], f) \in Scoped!FieldSet /\ Scoped!add(storage[x], f) # None
    BY <1>1, <2>2, AddTyped, Constants
  <2>5. ScopedTyped'
    BY <1>2, <1>4, <2>3, <2>4 DEF ScopedTyped
  <2>6. /\ storage'[x] = Scoped!add(storage[x], f)
        /\ \A r \in Scopes : r # x => storage'[r] = storage[r]
    BY <2>3 DEF ScopedTyped
  <2>7. \A r \in Scopes : storage'[r] # None <=> storage[r] # None
    BY <2>2, <2>4, <2>6, Constants
  <2>8. PointerIsLive'
    BY <1>2, <2>7 DEF PointerIsLive, Scoped!PointerIsLive, Scoped!Alive
  <2>9. \A u \in Threads : u # t => Scoped!Context(u)' = Scoped!Context(u)
    <3> SUFFICES ASSUME NEW u \in Threads, u # t PROVE Scoped!Context(u)' = Scoped!Context(u)
      OBVIOUS
    <3>1. slot[u] # x /\ slot[u] \in Scopes \cup {None}
      BY <1>10, <2>1, OthersStorage DEF ScopedTyped
    <3> QED
      BY <1>2, <2>6, <3>1 DEF Scoped!Context, Scoped!thread_context
  <2>10. Scoped!Context(t)' = Scoped!add(Scoped!Context(t), f)
    BY <1>2, <1>10, <2>1, <2>2, <2>6 DEF Scoped!Context, Scoped!thread_context
  <2>11. ASSUME nested[t], orderly'[t]
         PROVE  Sound(alive'[t], slot'[t], said'[t], Scoped!Context(t)', mark')
    <3>1. /\ Sound(alive[t], slot[t], said[t], Scoped!Context(t), mark)
          /\ Telling(alive[t], said[t]) /\ s = alive[t][Len(alive[t])]
      BY <1>4, <2>11 DEF RulesPay, LivingSpeak
    <3>2. PICK al, sl, sd, ctx, mk :
            /\ al = alive[t] /\ sl = slot[t] /\ sd = said[t] /\ ctx = Scoped!Context(t)
            /\ mk = mark
      OBVIOUS
    <3>3. Sound(al, sl, Append(sd, e), Scoped!add(ctx, e.field), mk)
      BY <1>1, <1>7, <3>1, <3>2, SoundKv
    <3> QED
      BY <1>1, <1>2, <1>4, <2>10, <3>2, <3>3
  <2>12. RulesPay'
    BY <1>2, <1>8, <2>9, <2>11 DEF RulesPay
  <2> QED
    BY <1>5, <1>6, <2>5, <2>8, <2>12
<1> QED
  BY <1>9, <1>10

(* A thread whose last scope ends has nothing alive and nothing said.       *)
LEMMA LastGoes ==
  ASSUME NEW al, NEW sd, Telling(al, sd), Len(al) = 1, NEW s, s \in Members(al)
  PROVE  /\ Scoped!Without(al, {s}) = <<>>
         /\ Scoped!Without(sd, [scope : {s}, field : KvFields]) = <<>>
         /\ Members(al) = {s}
<1>1. al \in Seq(Scopes) /\ sd \in Seq(Saying) /\ Len(sd) \in Nat
  BY DEF Telling
<1>2. al[1] = s /\ \A i \in 1..Len(al) : al[i] = s /\ ~(i <= 0)
  BY DEF Members
<1>3. Scoped!Without(al, {s}) = Upto(al, 0)
  <2>1. 0 \in 0..Len(al) /\ \A i \in 1..Len(al) : al[i] \in {s} <=> ~(i <= 0)
    BY <1>2
  <2> QED
    BY <1>1, <2>1, WithoutEnd
<1>4. Members(al) = {s}
  BY <1>2 DEF Members
<1> DEFINE out == [scope : {s}, field : KvFields]
<1>5. \A j \in 1..Len(sd) : sd[j] \in out <=> ~(j <= 0)
  <2> SUFFICES ASSUME NEW j \in 1..Len(sd) PROVE sd[j] \in out /\ ~(j <= 0)
    OBVIOUS
  <2>1. sd[j] \in Saying /\ sd[j].scope = s
    BY <1>1, <1>4, ElementOfSeq DEF Telling
  <2> QED
    BY <2>1 DEF Saying
<1> HIDE DEF out
<1>6. Scoped!Without(sd, out) = Upto(sd, 0)
  <2>1. 0 \in 0..Len(sd)
    BY <1>1
  <2> QED
    BY <1>1, <1>5, <2>1, WithoutEnd
<1> QED
  BY <1>3, <1>4, <1>6, UptoNone DEF out

LEMMA DestructKeeps ==
  ASSUME ScopedInv, NEW t \in Threads, NEW s \in Scopes, Scoped!Destruct(t, s)
  PROVE  ScopedInv'
<1> USE DEF ScopedInv
<1> DEFINE out == [scope : {s}, field : KvFields]
           al1 == Scoped!Without(alive[t], {s})
           sd1 == Scoped!Without(said[t], out)
<1>1. /\ s \in Members(alive[t]) /\ s # None /\ None \notin Scopes
      /\ alive[t] \in Seq(Scopes) /\ alive[t] # <<>> /\ said[t] \in Seq(Saying)
      /\ Len(alive[t]) \in Nat \ {0}
  <2>1. s \in Members(alive[t])
    BY DEF Scoped!Destruct, Scoped!Alive, Members
  <2>2. alive[t] \in Seq(Scopes) /\ said[t] \in Seq(Saying)
    BY DEF ScopedTyped
  <2>3. alive[t] # <<>>
    BY <2>1, MembersOf
  <2> QED
    BY <2>1, <2>2, <2>3, Constants, EmptySeq
<1>2. /\ alive' = [alive EXCEPT ![t] = al1]
      /\ mark' = [mark EXCEPT ![s] = Scoped!NoMark]
      /\ said' = [said EXCEPT ![t] = sd1]
      /\ nested' = [nested EXCEPT ![t] =
                      Len(alive[t]) = 1 \/ (nested[t] /\ s = alive[t][Len(alive[t])])]
      /\ orderly' = [orderly EXCEPT ![t] = Len(alive[t]) = 1 \/ orderly[t]]
  BY DEF Scoped!Destruct, Scoped!Innermost
<1>3. /\ al1 \in Seq(Scopes)
      /\ \A x : x \in Members(al1) <=> x \in Members(alive[t]) /\ x \notin {s}
  <2>1. PICK al \in Seq(Scopes) : al = alive[t]
    BY <1>1
  <2>2. PICK gone : gone = {s}
    OBVIOUS
  <2>3. /\ Scoped!Without(al, gone) \in Seq(Scopes)
        /\ \A x : x \in Members(Scoped!Without(al, gone)) <=> x \in Members(al) /\ x \notin gone
    BY WithoutMembers
  <2> QED
    BY <2>1, <2>2, <2>3
<1>4. /\ sd1 \in Seq(Saying)
      /\ \A x : x \in Members(sd1) <=> x \in Members(said[t]) /\ x \notin out
  <2>1. PICK sd \in Seq(Saying) : sd = said[t]
    BY <1>1
  <2>2. PICK gone : gone = out
    OBVIOUS
  <2>3. /\ Scoped!Without(sd, gone) \in Seq(Saying)
        /\ \A x : x \in Members(Scoped!Without(sd, gone)) <=> x \in Members(sd) /\ x \notin gone
    BY WithoutMembers
  <2> QED
    BY <2>1, <2>2, <2>3
<1>5. Telling(al1, sd1)
  <2> SUFFICES ASSUME NEW j \in 1..Len(sd1) PROVE sd1[j].scope \in Members(al1)
    BY <1>3, <1>4 DEF Telling
  <2>1. sd1[j] \in Members(sd1) /\ sd1[j] \in Saying
    <3>1. PICK r \in Seq(Saying) : r = sd1
      BY <1>4
    <3> QED
      BY <3>1, ElementOfSeq DEF Members
  <2>2. sd1[j] \in Members(said[t]) /\ sd1[j] \notin out
    BY <1>4, <2>1
  <2>3. sd1[j].scope \in Members(alive[t])
    BY <2>2 DEF LivingSpeak, Telling, Members
  <2>4. sd1[j].scope # s
    BY <2>1, <2>2 DEF Saying
  <2> QED
    BY <1>3, <2>3, <2>4
<1> HIDE DEF out, al1, sd1
<1>6. /\ alive' \in [Threads -> Seq(Scopes)] /\ alive'[t] = al1
      /\ said' \in [Threads -> Seq(Saying)] /\ said'[t] = sd1
      /\ nested' \in [Threads -> BOOLEAN] /\ orderly' \in [Threads -> BOOLEAN]
      /\ \A u \in Threads : u # t =>
           /\ alive'[u] = alive[u] /\ said'[u] = said[u]
           /\ nested'[u] = nested[u] /\ orderly'[u] = orderly[u]
  BY <1>2, <1>3, <1>4 DEF ScopedTyped
<1>7. nested'[t] /\ orderly'[t] =>
        Len(alive[t]) = 1 \/ (nested[t] /\ orderly[t] /\ s = alive[t][Len(alive[t])])
  BY <1>2 DEF ScopedTyped
<1>8. Apart'
  <2> SUFFICES ASSUME NEW u \in Threads, NEW v \in Threads, u # v, NEW x \in Scopes,
                      x \in Members(alive'[u]), x \in Members(alive'[v])
               PROVE  FALSE
    BY DEF Apart
  <2>1. x \in Members(alive[u]) /\ x \in Members(alive[v])
    BY <1>3, <1>6
  <2> QED
    BY <2>1 DEF Apart
<1>9. LivingSpeak'
  BY <1>5, <1>6 DEF LivingSpeak
<1>10. mark \in [Scopes -> Mark] /\ mark' \in [Scopes -> Mark]
  BY <1>2 DEF ScopedTyped, Scoped!NoMark, Mark
<1>11. \A u \in Threads : u # t =>
         /\ slot[u] # s /\ s \notin Members(alive[u]) /\ (slot[t] # None => slot[u] # slot[t])
  BY <1>1, OthersStorage
<1>12. ASSUME NEW u \in Threads, u # t, nested'[u], orderly'[u],
              slot'[u] = slot[u], Scoped!Context(u)' = Scoped!Context(u)
       PROVE  Sound(alive'[u], slot'[u], said'[u], Scoped!Context(u)', mark')
  <2>1. Sound(alive[u], slot[u], said[u], Scoped!Context(u), mark) /\ alive[u] \in Seq(Scopes)
    BY <1>6, <1>12 DEF RulesPay, ScopedTyped
  <2>2. PICK al, sl, sd, ctx, mk :
          /\ al = alive[u] /\ sl = slot[u] /\ sd = said[u] /\ ctx = Scoped!Context(u)
          /\ mk = mark
    OBVIOUS
  <2>3. Sound(al, sl, sd, ctx, [mk EXCEPT ![s] = Scoped!NoMark])
    BY <1>10, <1>11, <1>12, <2>1, <2>2, SoundApart
  <2> QED
    BY <1>2, <1>6, <1>12, <2>2, <2>3
<1>13. ASSUME Len(alive[t]) = 1
       PROVE  al1 = <<>> /\ sd1 = <<>> /\ Members(alive[t]) = {s}
  <2>1. PICK al, sd : al = alive[t] /\ sd = said[t]
    OBVIOUS
  <2>2. Telling(al, sd)
    BY <2>1 DEF LivingSpeak
  <2>3. /\ Scoped!Without(al, {s}) = <<>>
        /\ Scoped!Without(sd, [scope : {s}, field : KvFields]) = <<>>
        /\ Members(al) = {s}
    BY <1>1, <1>13, <2>1, <2>2, LastGoes
  <2> QED
    BY <2>1, <2>3 DEF al1, sd1, out
<1>14. CASE storage[s] # None
  <2>1. slot[t] = s
    <3>1. PICK u \in Threads : slot[u] = s
      BY <1>14, Pointing
    <3> QED
      BY <1>11, <3>1
  <2>2. slot' = [slot EXCEPT ![t] = None] /\ storage' = [storage EXCEPT ![s] = None]
    BY <1>14 DEF Scoped!Destruct, Scoped!PopFields
  <2>3. ScopedTyped'
    BY <1>6, <1>10, <2>2 DEF ScopedTyped
  <2>4. /\ slot'[t] = None /\ \A u \in Threads : u # t => slot'[u] = slot[u]
        /\ storage'[s] = None /\ \A r \in Scopes : r # s => storage'[r] = storage[r]
    BY <2>2 DEF ScopedTyped
  <2>5. PointerIsLive'
    <3>1. \A u \in Threads : slot'[u] # None => slot'[u] \in Members(alive'[u])
      BY <1>6, <2>4, Pointing
    <3>2. ASSUME NEW r \in Scopes
          PROVE  storage'[r] # None <=> \E u \in Threads : slot'[u] = r
      <4>1. CASE r = s
        BY <1>1, <1>11, <2>4, <4>1
      <4>2. CASE r # s
        <5>1. storage[r] # None <=> \E u \in Threads : slot[u] = r
          BY Pointing
        <5>2. r # None
          BY <1>1
        <5> QED
          BY <2>1, <2>4, <4>2, <5>1, <5>2
      <4> QED
        BY <4>1, <4>2
    <3> QED
      BY <3>1, <3>2 DEF PointerIsLive, Scoped!PointerIsLive, Scoped!Alive, Members
  <2>6. \A u \in Threads : u # t => Scoped!Context(u)' = Scoped!Context(u)
    <3> SUFFICES ASSUME NEW u \in Threads, u # t PROVE Scoped!Context(u)' = Scoped!Context(u)
      OBVIOUS
    <3>1. slot[u] # s /\ slot[u] \in Scopes \cup {None}
      BY <1>11 DEF ScopedTyped
    <3> QED
      BY <2>4, <3>1 DEF Scoped!Context, Scoped!thread_context
  <2>7. ASSUME nested'[t], orderly'[t]
        PROVE  Sound(alive'[t], slot'[t], said'[t], Scoped!Context(t)', mark')
    <3>1. CASE Len(alive[t]) = 1
      <4>1. Scoped!Context(t)' = Scoped!EmptyFields
        BY <2>4 DEF Scoped!Context
      <4> QED
        BY <1>6, <1>13, <2>4, <3>1, <4>1, SoundNone
    <3>2. CASE Len(alive[t]) # 1
      <4>1. nested[t] /\ orderly[t] /\ s = alive[t][Len(alive[t])]
        BY <1>7, <2>7, <3>2
      <4>2. Sound(alive[t], slot[t], said[t], Scoped!Context(t), mark)
        BY <4>1 DEF RulesPay
      <4>3. 1 \in 1..Len(alive[t]) /\ Len(alive[t]) \in 1..Len(alive[t])
        BY <1>1
      <4>4. alive[t][1] = alive[t][Len(alive[t])]
        BY <1>1, <2>1, <4>1, <4>2 DEF Sound
      <4> QED
        BY <3>2, <4>2, <4>3, <4>4 DEF Sound
    <3> QED
      BY <3>1, <3>2
  <2>8. RulesPay'
    BY <1>12, <2>4, <2>6, <2>7 DEF RulesPay
  <2> QED
    BY <1>8, <1>9, <2>3, <2>5, <2>8
<1>15. CASE storage[s] = None
  <2>1. slot' = slot /\ slot[t] # s
    <3>1. slot[t] # s
      BY <1>15, Pointing
    <3> QED
      BY <1>15, <3>1 DEF Scoped!Destruct, Scoped!PopFields
  <2>2. \A u \in Threads : slot'[u] # None => slot'[u] \in Members(alive'[u])
    <3>1. \A u \in Threads : slot[u] # None => slot[u] \in Members(alive[u])
      BY Pointing
    <3> QED
      BY <1>3, <1>6, <2>1, <3>1
  <2>3. CASE slot[t] = None
    <3>1. storage' = storage
      BY <1>15, <2>3 DEF Scoped!Destruct, Scoped!PopFields
    <3>2. ScopedTyped'
      BY <1>6, <1>10, <2>1, <3>1 DEF ScopedTyped
    <3>3. PointerIsLive'
      <4>1. \A r \in Scopes : storage'[r] # None <=> \E u \in Threads : slot'[u] = r
        BY <2>1, <3>1, Pointing
      <4> QED
        BY <2>2, <4>1 DEF PointerIsLive, Scoped!PointerIsLive, Scoped!Alive, Members
    <3>4. \A u \in Threads : Scoped!Context(u)' = Scoped!Context(u)
      BY <2>1, <3>1 DEF Scoped!Context, Scoped!thread_context
    <3>5. ASSUME nested'[t], orderly'[t]
          PROVE  Sound(alive'[t], slot'[t], said'[t], Scoped!Context(t)', mark')
      <4>1. CASE Len(alive[t]) = 1
        <5>1. Scoped!Context(t)' = Scoped!EmptyFields
          BY <2>1, <2>3 DEF Scoped!Context
        <5> QED
          BY <1>6, <1>13, <2>1, <2>3, <4>1, <5>1, SoundNone
      <4>2. CASE Len(alive[t]) # 1
        <5>1. nested[t] /\ orderly[t]
          BY <1>7, <3>5, <4>2
        <5>2. slot[t] = alive[t][1]
          BY <1>1, <5>1 DEF RulesPay, Sound
        <5>3. alive[t][1] \in Scopes
          BY <1>1
        <5> QED
          BY <1>1, <2>3, <5>2, <5>3
      <4> QED
        BY <4>1, <4>2
    <3>6. RulesPay'
      BY <1>12, <2>1, <3>4, <3>5 DEF RulesPay
    <3> QED
      BY <1>8, <1>9, <3>2, <3>3, <3>6
  <2>4. CASE slot[t] # None
    <3>1. PICK x \in Scopes : x = slot[t]
      BY <2>4 DEF ScopedTyped
    <3>2. storage[x] = Scoped!Context(t) /\ storage[x] \in Scoped!FieldSet
      BY <2>4, <3>1, ContextIs
    <3>3. storage' = [storage EXCEPT ![x] =
                        Scoped!truncate(storage[x], mark[s].fields, mark[s].bytes)]
      BY <1>15, <2>4, <3>1 DEF Scoped!Destruct, Scoped!PopFields
    <3>4. mark[s].fields \in Nat /\ mark[s].bytes \in Nat
      BY <1>10 DEF Mark
    <3> DEFINE cut == Scoped!truncate(storage[x], mark[s].fields, mark[s].bytes)
    <3>5. cut \in Scoped!FieldSet /\ cut # None
      BY <3>2, <3>4, TruncateTyped, Constants
    <3>6. /\ storage'[x] = cut
          /\ \A r \in Scopes : r # x => storage'[r] = storage[r]
      BY <3>3 DEF ScopedTyped
    <3>7. ScopedTyped'
      <4> HIDE DEF cut
      <4>1. storage' = [storage EXCEPT ![x] = cut]
        BY <3>3 DEF cut
      <4> QED
        BY <1>6, <1>10, <2>1, <3>5, <4>1 DEF ScopedTyped
    <3>8. Scoped!Context(t)' = Scoped!truncate(Scoped!Context(t), mark[s].fields, mark[s].bytes)
      BY <2>1, <2>4, <3>1, <3>2, <3>6 DEF Scoped!Context, Scoped!thread_context
    <3> HIDE DEF cut
    <3>9. \A r \in Scopes : storage'[r] # None <=> storage[r] # None
      BY <3>2, <3>5, <3>6, Constants
    <3>10. PointerIsLive'
      <4>1. \A r \in Scopes : storage'[r] # None <=> \E u \in Threads : slot'[u] = r
        BY <2>1, <3>9, Pointing
      <4> QED
        BY <2>2, <4>1 DEF PointerIsLive, Scoped!PointerIsLive, Scoped!Alive, Members
    <3>11. \A u \in Threads : u # t => Scoped!Context(u)' = Scoped!Context(u)
      <4> SUFFICES ASSUME NEW u \in Threads, u # t PROVE Scoped!Context(u)' = Scoped!Context(u)
        OBVIOUS
      <4>1. slot[u] # x /\ slot[u] \in Scopes \cup {None}
        BY <1>11, <2>4, <3>1 DEF ScopedTyped
      <4> QED
        BY <2>1, <3>6, <4>1 DEF Scoped!Context, Scoped!thread_context
    <3>12. ASSUME nested'[t], orderly'[t]
           PROVE  Sound(alive'[t], slot'[t], said'[t], Scoped!Context(t)', mark')
      <4>1. CASE Len(alive[t]) = 1
        <5>1. slot[t] = s
          BY <1>13, <2>4, <4>1, Pointing
        <5> QED
          BY <2>1, <5>1
      <4>2. CASE Len(alive[t]) # 1
        <5>1. nested[t] /\ orderly[t] /\ s = alive[t][Len(alive[t])] /\ Len(alive[t]) >= 2
          <6>1. \A n \in Nat \ {0} : n # 1 => n >= 2
            OBVIOUS
          <6> QED
            BY <1>1, <1>7, <3>12, <4>2, <6>1
        <5>2. Sound(alive[t], slot[t], said[t], Scoped!Context(t), mark)
          BY <5>1 DEF RulesPay
        <5>3. Telling(alive[t], said[t])
          BY DEF LivingSpeak
        <5>4. PICK al, sl, sd, ctx, mk :
                /\ al = alive[t] /\ sl = slot[t] /\ sd = said[t] /\ ctx = Scoped!Context(t)
                /\ mk = mark
          OBVIOUS
        <5>5. Sound(Scoped!Without(al, {s}), sl,
                    Scoped!Without(sd, [scope : {s}, field : KvFields]),
                    Scoped!truncate(ctx, mk[s].fields, mk[s].bytes),
                    [mk EXCEPT ![s] = Scoped!NoMark])
          BY <1>10, <5>1, <5>2, <5>3, <5>4, SoundPop
        <5> QED
          BY <1>2, <1>6, <2>1, <3>8, <5>4, <5>5 DEF al1, sd1, out
      <4> QED
        BY <4>1, <4>2
    <3>13. RulesPay'
      BY <1>12, <2>1, <3>11, <3>12 DEF RulesPay
    <3> QED
      BY <1>8, <1>9, <3>7, <3>10, <3>13
  <2> QED
    BY <2>3, <2>4
<1> QED
  BY <1>14, <1>15

(* A step that leaves the context and its history alone.                    *)
LEMMA ContextKeeps ==
  ASSUME ScopedInv, UNCHANGED <<slot, storage, mark, alive, said, nested, orderly>>
  PROVE  ScopedInv'
<1>1. ScopedTyped'
  BY DEF ScopedInv, ScopedTyped
<1>2. PointerIsLive'
  BY DEF ScopedInv, PointerIsLive, Scoped!PointerIsLive, Scoped!Alive
<1>3. Apart' /\ LivingSpeak'
  BY DEF ScopedInv, Apart, LivingSpeak
<1>4. RulesPay'
  BY DEF ScopedInv, RulesPay, Scoped!Context, Scoped!thread_context
<1> QED
  BY <1>1, <1>2, <1>3, <1>4 DEF ScopedInv

-----------------------------------------------------------------------------
(* The invariant of the records.                                            *)

Meaning == [fields : Seq(Entry), trusted : BOOLEAN]

RecordTyped ==
  /\ record \in [Threads -> Scoped!LogRecord \cup {None}]
  /\ meant \in [Threads -> Meaning]

\* A record r is what it should be, m.
Honest(r, m) ==
  /\ m.trusted => Renders(r.fields, m.fields)
  /\ ~r.active => r.fields = Scoped!EmptyFields

Recorded == \A t \in Threads : record[t] # None => Honest(record[t], meant[t])

RecordInv == RecordTyped /\ Recorded

LEMMA LogRecordIs ==
  /\ Scoped!LogRecord = [active : BOOLEAN, fields : Scoped!FieldSet]
  /\ None \notin Scoped!LogRecord
  BY Constants DEF Scoped!LogRecord

(* What prepare() gives a record is what the thread's context says.         *)
LEMMA PreparedIs ==
  ASSUME ScopedInv, NEW t \in Threads
  PROVE  /\ Scoped!Prepared(t) \in Scoped!FieldSet
         /\ nested[t] /\ orderly[t] => Renders(Scoped!Prepared(t), FieldsOf(said[t]))
<1>1. /\ Scoped!Context(t) \in Scoped!FieldSet
      /\ slot[t] = None => Scoped!Context(t) = Scoped!EmptyFields
  BY ContextIs DEF ScopedInv
<1>2. PICK fs \in Scoped!FieldSet : fs = Scoped!Context(t)
  BY <1>1
<1>3. Scoped!append(Scoped!EmptyFields, fs) \in Scoped!FieldSet
  BY CopyTyped
<1>4. Scoped!Prepared(t) \in Scoped!FieldSet
  BY <1>2, <1>3, FieldSetIs DEF Scoped!Prepared
<1>5. ASSUME nested[t], orderly[t]
      PROVE  Renders(Scoped!Prepared(t), FieldsOf(said[t]))
  <2>1. PICK q \in Seq(Entry) : q = FieldsOf(said[t])
    BY FieldsOfIs DEF ScopedInv, ScopedTyped
  <2>2. Renders(fs, q)
    BY <1>2, <1>5, <2>1 DEF ScopedInv, RulesPay, Sound
  <2>3. CASE slot[t] = None
    BY <1>1, <1>2, <2>1, <2>2, <2>3 DEF Scoped!Prepared
  <2>4. CASE slot[t] # None /\ Len(fs.spans) = 0
    <3>1. q = <<>>
      <4>1. Len(q) = 0
        BY <2>2, <2>4 DEF Renders
      <4> QED
        BY <4>1, EmptySeq
    <3> QED
      BY <1>2, <2>1, <2>4, <3>1, RendersNone DEF Scoped!Prepared, Scoped!size
  <2>5. CASE slot[t] # None /\ Len(fs.spans) # 0
    <3>1. Renders(Scoped!append(Scoped!EmptyFields, fs), q)
      BY <2>2, RendersCopy
    <3> QED
      BY <1>2, <2>1, <2>5, <3>1 DEF Scoped!Prepared, Scoped!size
  <2> QED
    BY <2>3, <2>4, <2>5
<1> QED
  BY <1>4, <1>5

LEMMA MakeRecordKeeps ==
  ASSUME ScopedInv, RecordInv, NEW t \in Threads, NEW lvl \in Levels,
         Scoped!MakeRecord(t, lvl)
  PROVE  RecordInv'
<1> USE DEF RecordInv
<1>1. PICK r, m :
        /\ record' = [record EXCEPT ![t] = r] /\ meant' = [meant EXCEPT ![t] = m]
        /\ r \in Scoped!LogRecord /\ m \in Meaning /\ Honest(r, m)
  <2>1. FieldsOf(said[t]) \in Seq(Entry) /\ Scoped!Told(t) = FieldsOf(said[t])
    <3>1. said[t] \in Seq(Saying)
      BY DEF ScopedInv, ScopedTyped
    <3> QED
      BY <3>1, FieldsOfIs DEF Scoped!Told, FieldsOf
  <2>2. nested[t] \in BOOLEAN /\ orderly[t] \in BOOLEAN
    BY DEF ScopedInv, ScopedTyped
  <2>3. CASE Scoped!enabled(lvl)
    <3>1. PICK fs \in Scoped!FieldSet : fs = Scoped!Prepared(t)
      BY PreparedIs
    <3> DEFINE r == [active |-> TRUE, fields |-> fs]
               m == [fields |-> FieldsOf(said[t]), trusted |-> nested[t] /\ orderly[t]]
    <3>2. record' = [record EXCEPT ![t] = r] /\ meant' = [meant EXCEPT ![t] = m]
      <4>1. Scoped!enabled(lvl) = TRUE
        BY <2>3 DEF Scoped!enabled
      <4> QED
        BY <2>1, <3>1, <4>1 DEF Scoped!MakeRecord
    <3>3. r \in Scoped!LogRecord
      BY LogRecordIs
    <3>4. m \in Meaning
      BY <2>1, <2>2 DEF Meaning
    <3>5. Honest(r, m)
      BY <3>1, PreparedIs DEF Honest
    <3> QED
      BY <3>2, <3>3, <3>4, <3>5
  <2>4. CASE ~Scoped!enabled(lvl)
    <3> DEFINE r == [active |-> FALSE, fields |-> Scoped!EmptyFields]
               m == [fields |-> <<>>, trusted |-> nested[t] /\ orderly[t]]
    <3>2. record' = [record EXCEPT ![t] = r] /\ meant' = [meant EXCEPT ![t] = m]
      <4>1. Scoped!enabled(lvl) = FALSE
        BY <2>4 DEF Scoped!enabled
      <4> QED
        BY <4>1 DEF Scoped!MakeRecord
    <3>3. r \in Scoped!LogRecord
      BY LogRecordIs, FieldSetIs
    <3>4. m \in Meaning
      BY <2>2 DEF Meaning
    <3>5. Honest(r, m)
      BY RendersNone DEF Honest
    <3> QED
      BY <3>2, <3>3, <3>4, <3>5
  <2> QED
    BY <2>3, <2>4
<1>2. RecordTyped'
  BY <1>1 DEF RecordTyped
<1>3. Recorded'
  BY <1>1 DEF RecordTyped, Recorded
<1> QED
  BY <1>2, <1>3

LEMMA RecordKvKeeps ==
  ASSUME RecordInv, NEW t \in Threads, NEW f \in KvFields, Scoped!RecordKv(t, f)
  PROVE  RecordInv'
<1> USE DEF RecordInv
<1>1. f \in Entry
  BY Zenon, Constants DEF Entry, Chars
<1>2. record[t] \in Scoped!LogRecord /\ record[t] # None /\ meant[t] \in Meaning
  BY DEF Scoped!RecordKv, RecordTyped
<1>3. CASE ~record[t].active
  <2>1. record' = record /\ meant' = meant
    BY <1>3 DEF Scoped!RecordKv
  <2> QED
    BY <2>1 DEF RecordTyped, Recorded
<1>4. CASE record[t].active
  <2>1. /\ record[t].active = TRUE /\ record[t].fields \in Scoped!FieldSet
        /\ meant[t].fields \in Seq(Entry) /\ meant[t].trusted \in BOOLEAN
    BY <1>2, <1>4, LogRecordIs DEF Meaning
  <2> DEFINE r == [record[t] EXCEPT !.fields = Scoped!add(record[t].fields, f)]
             m == [meant[t] EXCEPT !.fields = Append(meant[t].fields, f)]
  <2>2. record' = [record EXCEPT ![t] = r] /\ meant' = [meant EXCEPT ![t] = m]
    BY <1>4 DEF Scoped!RecordKv
  <2>3. /\ r \in Scoped!LogRecord /\ r.active = TRUE
        /\ r.fields = Scoped!add(record[t].fields, f)
    <3>1. Scoped!add(record[t].fields, f) \in Scoped!FieldSet
      BY <1>1, <2>1, AddTyped
    <3> QED
      BY <1>2, <2>1, <3>1, LogRecordIs
  <2>4. /\ m \in Meaning /\ m.trusted = meant[t].trusted
        /\ m.fields = Append(meant[t].fields, f)
    <3>1. Append(meant[t].fields, f) \in Seq(Entry)
      BY <1>1, <2>1, AppendProperties
    <3> QED
      BY <1>2, <2>1, <3>1 DEF Meaning
  <2> HIDE DEF r, m
  <2>5. Honest(r, m)
    <3> SUFFICES ASSUME meant[t].trusted
                 PROVE  Renders(Scoped!add(record[t].fields, f), Append(meant[t].fields, f))
      BY <2>3, <2>4 DEF Honest
    <3>1. PICK q, fs : q \in Seq(Entry) /\ q = meant[t].fields /\ fs = record[t].fields
      BY <2>1
    <3>2. Renders(fs, q)
      BY <1>2, <3>1 DEF Recorded, Honest
    <3> QED
      BY <1>1, <3>1, <3>2, RendersAdd
  <2>6. RecordTyped'
    BY <2>2, <2>3, <2>4 DEF RecordTyped
  <2>7. Recorded'
    BY <2>2, <2>5 DEF RecordTyped, Recorded
  <2> QED
    BY <2>6, <2>7
<1> QED
  BY <1>3, <1>4

LEMMA NothingIs == Scoped!Nothing \in Meaning /\ Scoped!Nothing.trusted = FALSE
  BY DEF Scoped!Nothing, Meaning

LEMMA EndRecordKeeps ==
  ASSUME RecordInv, NEW t \in Threads, Scoped!EndRecord(t)
  PROVE  RecordInv'
<1>1. record' = [record EXCEPT ![t] = None] /\ meant' = [meant EXCEPT ![t] = Scoped!Nothing]
  BY DEF Scoped!EndRecord
<1>2. RecordTyped'
  BY <1>1, NothingIs DEF RecordInv, RecordTyped
<1>3. Recorded'
  BY <1>1 DEF RecordInv, RecordTyped, Recorded
<1> QED
  BY <1>2, <1>3 DEF RecordInv

LEMMA MoveRecordKeeps ==
  ASSUME RecordInv, NEW t \in Threads, NEW other \in Threads, Scoped!MoveRecord(t, other)
  PROVE  RecordInv'
<1> USE DEF RecordInv
<1> DEFINE r == [active |-> FALSE, fields |-> Scoped!EmptyFields]
<1>1. /\ record[t] # None /\ record[other] = None /\ t # other
      /\ record' = [record EXCEPT ![other] = record[t], ![t] = r]
      /\ meant' = [meant EXCEPT ![other] = meant[t], ![t] = Scoped!Nothing]
  BY DEF Scoped!MoveRecord
<1>2. r \in Scoped!LogRecord
  BY LogRecordIs, FieldSetIs
<1>3. Honest(r, Scoped!Nothing)
  BY NothingIs DEF Honest
<1> HIDE DEF r
<1>4. /\ record'[t] = r /\ record'[other] = record[t]
      /\ meant'[t] = Scoped!Nothing /\ meant'[other] = meant[t]
      /\ \A u \in Threads : u # t /\ u # other => record'[u] = record[u] /\ meant'[u] = meant[u]
  BY <1>1 DEF RecordTyped
<1>5. RecordTyped'
  BY <1>1, <1>2, NothingIs DEF RecordTyped
<1>6. Recorded'
  <2> SUFFICES ASSUME NEW u \in Threads, record'[u] # None
               PROVE  Honest(record'[u], meant'[u])
    BY DEF Recorded
  <2>1. Honest(record[t], meant[t])
    BY <1>1 DEF Recorded
  <2> QED
    BY <1>3, <1>4, <2>1 DEF Recorded
<1> QED
  BY <1>5, <1>6

-----------------------------------------------------------------------------
(* Every step keeps both.                                                   *)

ContextInv == ScopedInv /\ RecordInv

LEMMA ContextInitially ==
  ASSUME MCInit
  PROVE  ContextInv
<1> USE DEF MCInit, Scoped!Init
<1>1. ScopedTyped
  BY DEF ScopedTyped, Scoped!NoMark, Mark
<1>2. PointerIsLive
  BY Constants, Pointing
<1>3. Apart
  BY MembersOf DEF Apart
<1>4. LivingSpeak
  BY DEF LivingSpeak, Telling
<1>5. RulesPay
  <2> SUFFICES ASSUME NEW t \in Threads
               PROVE  Sound(alive[t], slot[t], said[t], Scoped!Context(t), mark)
    BY DEF RulesPay
  <2>1. /\ alive[t] = <<>> /\ slot[t] = None /\ said[t] = <<>>
        /\ Scoped!Context(t) = Scoped!EmptyFields
    BY DEF Scoped!Context
  <2> QED
    BY <2>1, SoundNone
<1>6. RecordInv
  BY NothingIs DEF RecordInv, RecordTyped, Recorded
<1> QED
  BY <1>1, <1>2, <1>3, <1>4, <1>5, <1>6 DEF ContextInv, ScopedInv

LEMMA ContextStep ==
  ASSUME ContextInv, [MCNext]_<<vars, scoped, part>>
  PROVE  ContextInv'
<1> USE DEF ContextInv
<1> DEFINE Quiet == UNCHANGED <<slot, storage, mark, alive, said, nested, orderly>>
           Idle == UNCHANGED <<record, meant>>
<1>1. Quiet => ScopedInv'
  BY ContextKeeps
<1>2. Idle => RecordInv'
  BY DEF RecordInv, RecordTyped, Recorded
<1>3. CASE UNCHANGED scoped
  <2>1. Quiet /\ Idle
    BY <1>3 DEF scoped
  <2> QED
    BY <1>1, <1>2, <2>1
<1>4. CASE Scoped!Next
  <2>1. ASSUME NEW t \in Threads, NEW s \in Scopes, Scoped!Construct(t, s)
        PROVE  ContextInv'
    <3>1. Idle
      BY <2>1 DEF Scoped!Construct
    <3> QED
      BY <1>2, <2>1, <3>1, ConstructKeeps
  <2>2. ASSUME NEW t \in Threads, NEW s \in Scopes, Scoped!Destruct(t, s)
        PROVE  ContextInv'
    <3>1. Idle
      BY <2>2 DEF Scoped!Destruct
    <3> QED
      BY <1>2, <2>2, <3>1, DestructKeeps
  <2>3. ASSUME NEW t \in Threads, NEW s \in Scopes, NEW f \in KvFields, Scoped!ScopeKv(t, s, f)
        PROVE  ContextInv'
    <3>1. Idle
      BY <2>3 DEF Scoped!ScopeKv
    <3> QED
      BY <1>2, <2>3, <3>1, ScopeKvKeeps
  <2>4. ASSUME NEW t \in Threads, NEW lvl \in Levels, Scoped!MakeRecord(t, lvl)
        PROVE  ContextInv'
    <3>1. Quiet
      BY <2>4 DEF Scoped!MakeRecord, Scoped!context, Scoped!history
    <3> QED
      BY <1>1, <2>4, <3>1, MakeRecordKeeps
  <2>5. ASSUME NEW t \in Threads, NEW f \in KvFields, Scoped!RecordKv(t, f)
        PROVE  ContextInv'
    <3>1. Quiet
      BY <2>5 DEF Scoped!RecordKv, Scoped!context, Scoped!history
    <3> QED
      BY <1>1, <2>5, <3>1, RecordKvKeeps
  <2>6. ASSUME NEW t \in Threads, Scoped!EndRecord(t)
        PROVE  ContextInv'
    <3>1. Quiet
      BY <2>6 DEF Scoped!EndRecord, Scoped!context, Scoped!history
    <3> QED
      BY <1>1, <2>6, <3>1, EndRecordKeeps
  <2>7. ASSUME NEW t \in Threads, NEW other \in Threads, Scoped!MoveRecord(t, other)
        PROVE  ContextInv'
    <3>1. Quiet
      BY <2>7 DEF Scoped!MoveRecord, Scoped!context, Scoped!history
    <3> QED
      BY <1>1, <2>7, <3>1, MoveRecordKeeps
  <2>8. ASSUME NEW lvl, Scoped!SetLevel(lvl)
        PROVE  ContextInv'
    <3>1. Quiet /\ Idle
      BY <2>8 DEF Scoped!SetLevel, Scoped!context, Scoped!history
    <3> QED
      BY <1>1, <1>2, <3>1
  <2>9. ASSUME NEW text \in EnvTexts, Scoped!SetLevelFromEnv(text)
        PROVE  ContextInv'
    BY <2>8, <2>9 DEF Scoped!SetLevelFromEnv
  <2> QED
    BY <1>4, <2>1, <2>2, <2>3, <2>4, <2>5, <2>6, <2>7, <2>8, <2>9 DEF Scoped!Next
<1> QED
  BY <1>3, <1>4 DEF MCNext

THEOREM ContextInvariant == MCSpec => []ContextInv
<1>1. MCInit => ContextInv
  BY ContextInitially
<1>2. ContextInv /\ [MCNext]_<<vars, scoped, part>> => ContextInv'
  BY ContextStep
<1> QED
  BY <1>1, <1>2, PTL DEF MCSpec

(* PointerIsLive: in whatever order a thread destroys its scopes, its
   thread-local pointer points to the storage of a living scope, which no
   other scope has (logger.hpp:111-127).                                   *)
THEOREM PointerCorrect == MCSpec => []PointerIsLive
<1>1. ContextInv => PointerIsLive
  BY DEF ContextInv, ScopedInv
<1> QED
  BY <1>1, ContextInvariant, PTL

(* ContextIsItsScopes: the context of a thread that destroys its scopes
   innermost first and adds to the innermost only is, at any time, what its
   living scopes were told (logger.hpp:116-126).                           *)
THEOREM ContextCorrect == MCSpec => []ContextIsItsScopes
<1>1. ContextInv => ContextIsItsScopes
  <2> SUFFICES ASSUME ContextInv, NEW t \in Threads, nested[t], orderly[t]
               PROVE  Scoped!Says(Scoped!Context(t), Scoped!Told(t))
    BY DEF ContextIsItsScopes, Scoped!ContextIsItsScopes
  <2>1. PICK q \in Seq(Entry) : q = FieldsOf(said[t])
    BY FieldsOfIs DEF ContextInv, ScopedInv, ScopedTyped
  <2>2. Renders(Scoped!Context(t), q)
    BY <2>1 DEF ContextInv, ScopedInv, RulesPay, Sound
  <2>3. Scoped!Says(Scoped!Context(t), q)
    BY <2>2, RendersSays
  <2> QED
    BY <2>1, <2>3 DEF Scoped!Told, FieldsOf
<1> QED
  BY <1>1, ContextInvariant, PTL

(* RecordIsWhole: a record whose thread kept to those rules when it began
   says that context and then its own fields; one below the level has none
   (logger.hpp:417-433, core.hpp:244-254).                                 *)
THEOREM RecordCorrect == MCSpec => []RecordIsWhole
<1>1. ContextInv => RecordIsWhole
  <2> SUFFICES ASSUME ContextInv, NEW t \in Threads, record[t] # None
               PROVE  /\ meant[t].trusted => Scoped!Says(record[t].fields, meant[t].fields)
                      /\ ~record[t].active => record[t].fields = Scoped!EmptyFields
    BY DEF RecordIsWhole, Scoped!RecordIsWhole
  <2>1. Honest(record[t], meant[t]) /\ meant[t].fields \in Seq(Entry)
    BY DEF ContextInv, RecordInv, Recorded, RecordTyped, Meaning
  <2>2. PICK q, fs : q \in Seq(Entry) /\ q = meant[t].fields /\ fs = record[t].fields
    BY <2>1
  <2>3. Renders(fs, q) => Scoped!Says(fs, q)
    BY <2>2, RendersSays
  <2> QED
    BY <2>1, <2>2, <2>3 DEF Honest
<1> QED
  BY <1>1, ContextInvariant, PTL
=============================================================================
