-------------------------- MODULE FileSinksProofs --------------------------
(* Proofs about the rotating, the daily and the plain sinks (MCFileSinks).   *)
EXTENDS MCFileSinks, FiniteSetTheorems, SequenceTheorems, TLAPS

(* A non-empty set of numbers has a least one; every induction below is the
   choice of a least counterexample.                                       *)
LEMMA Least ==
  ASSUME NEW T, T \subseteq Nat, T # {}
  PROVE  \E n \in T : \A m \in T : n <= m
<1>1. PICK n \in T : \A m \in T : <<m, n>> \notin OpToRel(<, Nat)
  BY NatLessThanWellFounded, WFMin
<1>2. n \in Nat /\ \A m \in T : m \in Nat /\ ~(m < n)
  BY <1>1 DEF OpToRel
<1> QED
  BY <1>2

-----------------------------------------------------------------------------
(* Lines: what is logged, their numbers and their bytes.                    *)

Piece == [id : Nat, len : Nat \ {0}]

\* One is what the other begins with.
Begins(s, t) == Len(s) <= Len(t) /\ \A k \in 1..Len(s) : s[k] = t[k]

(* The numbers of a sequence of lines are those of its members.             *)
LEMMA IdsOf ==
  ASSUME NEW s \in Seq(Piece)
  PROVE  /\ Ids(s) = {s[k].id : k \in 1..Len(s)}
         /\ Ids(s) \subseteq Nat
<1>1. /\ DOMAIN s = 1..Len(s)
      /\ \A k \in 1..Len(s) : s[k] \in Piece
  BY ElementOfSeq
<1> QED
  BY <1>1 DEF Ids, ToSet, Piece

LEMMA IdsOfNone == Ids(<<>>) = {}
<1>1. <<>> \in Seq(Piece) /\ 1..Len(<<>>) = {}
  OBVIOUS
<1>2. Ids(<<>>) = {<<>>[k].id : k \in 1..Len(<<>>)}
  BY <1>1, IdsOf
<1> QED
  BY <1>1, <1>2

LEMMA IdsOfConcat ==
  ASSUME NEW s \in Seq(Piece), NEW t \in Seq(Piece)
  PROVE  s \o t \in Seq(Piece) /\ Ids(s \o t) = Ids(s) \cup Ids(t)
<1>1. /\ s \o t \in Seq(Piece)
      /\ Len(s \o t) = Len(s) + Len(t)
      /\ \A i \in 1..Len(s) + Len(t) : (s \o t)[i] = IF i <= Len(s) THEN s[i] ELSE t[i - Len(s)]
  BY ConcatProperties
<1>2. /\ Ids(s) = {s[k].id : k \in 1..Len(s)}
      /\ Ids(t) = {t[k].id : k \in 1..Len(t)}
      /\ Ids(s \o t) = {(s \o t)[k].id : k \in 1..Len(s \o t)}
  BY <1>1, IdsOf
<1>3. Len(s) \in Nat /\ Len(t) \in Nat
  OBVIOUS
<1>4. \A k \in 1..Len(t) : Len(s) + k \in 1..Len(s) + Len(t) /\ (s \o t)[Len(s) + k] = t[k]
  BY <1>1, <1>3
<1>5. \A k \in 1..Len(s) : k \in 1..Len(s) + Len(t) /\ (s \o t)[k] = s[k]
  BY <1>1, <1>3
<1>6. Ids(t) \subseteq Ids(s \o t)
  BY <1>1, <1>2, <1>4
<1>7. Ids(s) \subseteq Ids(s \o t)
  BY <1>1, <1>2, <1>5
<1>8. ASSUME NEW id \in Ids(s \o t)
      PROVE  id \in Ids(s) \cup Ids(t)
  <2>1. PICK k \in 1..Len(s) + Len(t) : id = (s \o t)[k].id
    BY <1>1, <1>2
  <2>2. CASE k <= Len(s)
    BY <1>1, <1>2, <1>3, <2>1, <2>2
  <2>3. CASE k > Len(s)
    <3>1. k - Len(s) \in 1..Len(t) /\ id = t[k - Len(s)].id
      BY <1>1, <1>3, <2>1, <2>3
    <3> QED
      BY <1>2, <3>1
  <2> QED
    BY <1>3, <2>2, <2>3
<1> QED
  BY <1>1, <1>6, <1>7, <1>8

LEMMA IdsOfBeginning ==
  ASSUME NEW s \in Seq(Piece), NEW t \in Seq(Piece), Begins(s, t)
  PROVE  Ids(s) \subseteq Ids(t)
<1>1. /\ Ids(s) = {s[k].id : k \in 1..Len(s)}
      /\ Ids(t) = {t[k].id : k \in 1..Len(t)}
  BY IdsOf
<1>2. Len(s) \in Nat /\ Len(t) \in Nat
  OBVIOUS
<1> QED
  BY <1>1, <1>2 DEF Begins

(* The partial sums that Bytes is defined with.                             *)
Sums(f, s, n) ==
  /\ f \in [0..n -> Nat]
  /\ f[0] = 0
  /\ \A k \in 1..n : f[k] = f[k - 1] + s[k].len

LEMMA SumsExist ==
  ASSUME NEW s \in Seq(Piece), NEW n \in 0..Len(s)
  PROVE  \E f : Sums(f, s, n)
<1> DEFINE T == {k \in 0..Len(s) : ~\E f : Sums(f, s, k)}
<1>1. T = {}
  <2> SUFFICES ASSUME T # {} PROVE FALSE
    OBVIOUS
  <2>1. Len(s) \in Nat /\ T \subseteq Nat
    OBVIOUS
  <2>2. PICK k \in T : \A m \in T : k <= m
    BY <2>1, Least
  <2>3. k # 0
    <3>1. Sums([i \in 0..0 |-> 0], s, 0)
      BY DEF Sums
    <3> QED
      BY <3>1
  <2>4. k - 1 \in 0..Len(s) /\ k - 1 \notin T /\ k \in 1..Len(s)
    BY <2>1, <2>2, <2>3
  <2>5. PICK f : Sums(f, s, k - 1)
    BY <2>4
  <2>6. s[k].len \in Nat
    <3>1. s[k] \in Piece
      BY <2>4
    <3> QED
      BY <3>1 DEF Piece
  <2> DEFINE g == [i \in 0..k |-> IF i = k THEN f[k - 1] + s[k].len ELSE f[i]]
  <2>7. Sums(g, s, k)
    <3>1. \A i \in 0..k - 1 : i \in 0..k /\ i # k /\ g[i] = f[i] /\ f[i] \in Nat
      BY <2>1, <2>4, <2>5 DEF Sums
    <3>2. g[k] = f[k - 1] + s[k].len /\ g[k] \in Nat
      <4>1. k \in 0..k /\ f[k - 1] \in Nat
        BY <2>1, <2>4, <2>5 DEF Sums
      <4>2. g[k] = f[k - 1] + s[k].len
        BY <4>1
      <4> HIDE DEF g
      <4> QED
        BY <2>6, <4>1, <4>2
    <3>3. g \in [0..k -> Nat]
      <4>1. ASSUME NEW i \in 0..k PROVE g[i] \in Nat
        <5>1. i = k \/ i \in 0..k - 1
          BY <2>4
        <5> QED
          BY <3>1, <3>2, <5>1
      <4> HIDE DEF g
      <4>2. g = [i \in 0..k |-> g[i]]
        BY DEF g
      <4> QED
        BY <4>1, <4>2
    <3>4. \A i \in 1..k : g[i] = g[i - 1] + s[i].len
      BY <2>4, <2>5, <3>1, <3>2, SMTT(20) DEF Sums
    <3>5. g[0] = 0
      BY <2>4, <2>5, <3>1 DEF Sums
    <3> HIDE DEF g
    <3> QED
      BY <3>3, <3>4, <3>5 DEF Sums
  <2> QED
    BY <2>2, <2>7
<1> QED
  BY <1>1

LEMMA BytesAreSums ==
  ASSUME NEW s \in Seq(Piece)
  PROVE  \E f : Sums(f, s, Len(s)) /\ Bytes(s) = f[Len(s)]
<1> DEFINE Is(f) == f = [n \in 0..Len(s) |-> IF n = 0 THEN 0 ELSE f[n - 1] + s[n].len]
<1>1. Len(s) \in Nat
  OBVIOUS
<1>2. PICK f : Sums(f, s, Len(s))
  BY <1>1, SumsExist
<1>3. Is(f)
  <2>1. \A n \in 0..Len(s) : f[n] = IF n = 0 THEN 0 ELSE f[n - 1] + s[n].len
    BY <1>1, <1>2 DEF Sums
  <2> QED
    BY <1>2, <2>1 DEF Sums
<1> DEFINE g == CHOOSE h : Is(h)
<1>4. Is(g)
  BY <1>3
<1>5. Bytes(s) = g[Len(s)]
  BY DEF Bytes
<1> HIDE DEF g
<1>6. \A n \in 0..Len(s) : g[n] = f[n]
  <2> DEFINE T == {n \in 0..Len(s) : g[n] # f[n]}
  <2> SUFFICES ASSUME T # {} PROVE FALSE
    OBVIOUS
  <2>1. T \subseteq Nat
    BY <1>1
  <2>2. PICK n \in T : \A m \in T : n <= m
    BY <2>1, Least
  <2>3. n # 0
    BY <1>2, <1>4 DEF Sums
  <2>4. n - 1 \in 0..Len(s) /\ n - 1 \notin T /\ n \in 1..Len(s)
    BY <1>1, <2>1, <2>2, <2>3
  <2>5. g[n] = g[n - 1] + s[n].len
    BY <1>4, <2>3, <2>4
  <2>6. f[n] = f[n - 1] + s[n].len
    BY <1>2, <2>4 DEF Sums
  <2> QED
    BY <2>2, <2>4, <2>5, <2>6
<1> QED
  BY <1>1, <1>2, <1>5, <1>6

(* Two sequences have the same first m members.                             *)
SameFirst(s, t, m) == \A k \in 1..m : s[k] = t[k]

(* The sums of two sequences agree as far as the sequences do.              *)
LEMMA SumsAgree ==
  ASSUME NEW s, NEW t, NEW f, NEW g, NEW m \in Nat, NEW n \in Nat,
         m <= n, Sums(f, s, m), Sums(g, t, n),
         SameFirst(s, t, m)
  PROVE  f[m] = g[m]
<1> USE DEF SameFirst
<1> DEFINE T == {k \in 0..m : f[k] # g[k]}
<1> SUFFICES ASSUME T # {} PROVE FALSE
  OBVIOUS
<1>1. T \subseteq Nat
  OBVIOUS
<1>2. PICK k \in T : \A i \in T : k <= i
  BY <1>1, Least
<1>3. k # 0
  BY DEF Sums
<1>4. k - 1 \in 0..m /\ k - 1 \notin T /\ k \in 1..m /\ k \in 1..n
  BY <1>1, <1>2, <1>3
<1>5. f[k] = f[k - 1] + s[k].len /\ g[k] = g[k - 1] + t[k].len
  BY <1>4 DEF Sums
<1> QED
  BY <1>2, <1>4, <1>5

LEMMA SumsGrow ==
  ASSUME NEW s \in Seq(Piece), NEW f, NEW n \in Nat, n = Len(s), Sums(f, s, n), NEW m \in 0..n
  PROVE  f[m] <= f[n]
<1> DEFINE T == {k \in 0..n : k >= m /\ f[k] < f[m]}
<1> SUFFICES ASSUME T # {} PROVE FALSE
  BY DEF Sums
<1>1. T \subseteq Nat
  OBVIOUS
<1>2. PICK k \in T : \A i \in T : k <= i
  BY <1>1, Least
<1>3. k # m
  BY <1>2 DEF Sums
<1>4. k - 1 \in 0..n /\ k - 1 >= m /\ k - 1 \notin T /\ k \in 1..n
  BY <1>1, <1>2, <1>3
<1>5. f[k] = f[k - 1] + s[k].len
  BY <1>4 DEF Sums
<1>6. s[k].len \in Nat
  <2>1. s[k] \in Piece
    BY <1>4
  <2> QED
    BY <2>1 DEF Piece
<1>7. f[k - 1] \in Nat /\ f[m] \in Nat
  BY <1>4 DEF Sums
<1> QED
  BY <1>2, <1>4, <1>5, <1>6, <1>7

LEMMA BytesOfSome ==
  ASSUME NEW s \in Seq(Piece)
  PROVE  Bytes(s) \in Nat /\ (Bytes(s) = 0 <=> s = <<>>)
<1>1. PICK f : Sums(f, s, Len(s)) /\ Bytes(s) = f[Len(s)]
  BY BytesAreSums
<1>2. Len(s) \in Nat /\ (s = <<>> <=> Len(s) = 0)
  BY EmptySeq
<1>3. CASE Len(s) = 0
  BY <1>1, <1>2, <1>3 DEF Sums
<1>4. CASE Len(s) # 0
  <2>1. f[Len(s)] = f[Len(s) - 1] + s[Len(s)].len /\ f[Len(s) - 1] \in Nat
    BY <1>1, <1>2, <1>4 DEF Sums
  <2>2. s[Len(s)].len \in Nat \ {0}
    <3>1. s[Len(s)] \in Piece
      BY <1>2, <1>4
    <3> QED
      BY <3>1 DEF Piece
  <2> QED
    BY <1>1, <1>2, <1>4, <2>1, <2>2
<1> QED
  BY <1>3, <1>4

LEMMA BytesOfNone == Bytes(<<>>) = 0
<1>1. <<>> \in Seq(Piece)
  BY EmptySeq
<1> QED
  BY <1>1, BytesOfSome

LEMMA BytesOfAppend ==
  ASSUME NEW s \in Seq(Piece), NEW e \in Piece
  PROVE  Bytes(Append(s, e)) = Bytes(s) + e.len
<1>1. /\ Append(s, e) \in Seq(Piece)
      /\ Len(Append(s, e)) = Len(s) + 1
      /\ \A i \in 1..Len(s) : Append(s, e)[i] = s[i]
      /\ Append(s, e)[Len(s) + 1] = e
      /\ Len(s) \in Nat
  BY AppendProperties
<1>2. PICK f : Sums(f, s, Len(s)) /\ Bytes(s) = f[Len(s)]
  BY BytesAreSums
<1>3. PICK g : Sums(g, Append(s, e), Len(s) + 1) /\ Bytes(Append(s, e)) = g[Len(s) + 1]
  BY <1>1, BytesAreSums
<1>4. f[Len(s)] = g[Len(s)]
  <2>1. ASSUME NEW t, NEW m \in Nat, NEW n \in Nat, t = Append(s, e), m = Len(s), n = Len(s) + 1
        PROVE  f[m] = g[m]
    <3>1. m <= n /\ SameFirst(s, t, m)
      BY <1>1, <2>1 DEF SameFirst
    <3>2. Sums(f, s, m) /\ Sums(g, t, n)
      BY <1>2, <1>3, <2>1
    <3> QED
      BY <3>1, <3>2, SumsAgree
  <2>2. Len(s) \in Nat /\ Len(s) + 1 \in Nat
    BY <1>1
  <2> QED
    BY <2>1, <2>2, Zenon
<1>5. g[Len(s) + 1] = g[Len(s)] + e.len
  <2>1. Len(s) + 1 \in 1..Len(s) + 1 /\ (Len(s) + 1) - 1 = Len(s)
    BY <1>1
  <2> QED
    BY <1>1, <1>3, <2>1 DEF Sums
<1> QED
  BY <1>2, <1>3, <1>4, <1>5

LEMMA BytesOfBeginning ==
  ASSUME NEW s \in Seq(Piece), NEW t \in Seq(Piece), Begins(s, t)
  PROVE  Bytes(s) <= Bytes(t)
<1>1. PICK f : Sums(f, s, Len(s)) /\ Bytes(s) = f[Len(s)]
  BY BytesAreSums
<1>2. PICK g : Sums(g, t, Len(t)) /\ Bytes(t) = g[Len(t)]
  BY BytesAreSums
<1>3. Len(s) \in Nat /\ Len(t) \in Nat /\ Len(s) <= Len(t) /\ \A k \in 1..Len(s) : s[k] = t[k]
  BY DEF Begins
<1>4. f[Len(s)] = g[Len(s)]
  <2>1. SameFirst(s, t, Len(s))
    BY <1>3 DEF SameFirst
  <2> QED
    BY <1>1, <1>2, <1>3, <2>1, SumsAgree
<1>5. g[Len(s)] <= g[Len(t)]
  BY <1>2, <1>3, SumsGrow
<1> QED
  BY <1>1, <1>2, <1>4, <1>5

-----------------------------------------------------------------------------
(* The rotating sink.                                                      *)

RotatingTyped ==
  /\ max_files_ \in Nat /\ max_bytes_ \in Nat /\ current_size_ \in Nat
  /\ lines \in Nat /\ crashes \in Nat /\ faults \in Nat
  /\ running \in BOOLEAN /\ unrenamed \in BOOLEAN
  /\ stream \in {"good", "bad", "closed"}
  /\ buffer \in Seq(Piece)
  /\ at \in {"idle", "close", "remove", "rename", "open", "put"}
  /\ file \in [0..max_files_ -> Seq(Piece) \cup {Absent}]
  /\ reached \subseteq Nat
  /\ at # "idle" => running /\ line \in Piece /\ line.id = lines
  /\ at \in {"remove", "rename"} => max_files_ > 0
  /\ at = "rename" => shift \in 0..max_files_ - 1
  /\ at \in {"remove", "rename", "open"} => buffer = <<>>
  /\ ~running => buffer = <<>> /\ stream = "closed"

LEMMA AbsentIsNoFile == Absent \notin Seq(Piece)
<1>1. Piece \subseteq [id : Nat, len : Nat]
  BY DEF Piece
<1> QED
  BY <1>1, SeqMonotonic, RotatingAssumption, ZenonT(30)

(* What the files hold is lines.                                           *)
LEMMA ContentTyped ==
  ASSUME RotatingTyped, NEW i \in 0..max_files_
  PROVE  Content(i) \in Seq(Piece) /\ Pending(i) \in Seq(Piece)
<1>1. Content(i) \in Seq(Piece)
  BY EmptySeq DEF RotatingTyped, Content
<1>2. Content(0) \in Seq(Piece)
  BY EmptySeq DEF RotatingTyped, Content
<1>3. Content(0) \o buffer \in Seq(Piece)
  BY <1>2, IdsOfConcat DEF RotatingTyped
<1> QED
  BY <1>1, <1>3 DEF Pending

(* When some of the buffer is written and the rest is dropped, what was to
   be in base_path is its beginning, and all of it if nothing is dropped.   *)
LEMMA Writing ==
  ASSUME RotatingTyped, NEW n \in 0..Len(buffer), Write(n), max_files_' = max_files_
  PROVE  /\ file' \in [0..max_files_ -> Seq(Piece) \cup {Absent}]
         /\ \A i \in 1..max_files_ : file'[i] = file[i] /\ Content(i)' = Content(i)
         /\ file[0] # Absent => file'[0] # Absent
         /\ SubSeq(buffer, 1, n) \in Seq(Piece)
         /\ Ids(SubSeq(buffer, 1, n)) \subseteq Ids(buffer)
         /\ reached' = reached \cup Ids(SubSeq(buffer, 1, n))
         /\ Content(0)' = Content(0) \o SubSeq(buffer, 1, n)
         /\ Begins(Content(0)', Pending(0))
         /\ n = Len(buffer) => Content(0)' = Pending(0)
<1> DEFINE part == SubSeq(buffer, 1, n)
<1>1. /\ buffer \in Seq(Piece) /\ max_files_ \in Nat /\ Len(buffer) \in Nat /\ n \in Nat
      /\ file \in [0..max_files_ -> Seq(Piece) \cup {Absent}]
      /\ Content(0) \in Seq(Piece) /\ 0 \in 0..max_files_
  BY ContentTyped DEF RotatingTyped
<1>2. part \in Seq(Piece) /\ Len(part) = n /\ \A k \in 1..n : part[k] = buffer[k]
  <2>1. \A k \in 1..n : buffer[k] \in Piece
    BY <1>1
  <2>2. /\ part \in Seq(Piece)
        /\ Len(part) = IF 1 <= n THEN n - 1 + 1 ELSE 0
        /\ \A k \in 1..n - 1 + 1 : part[k] = buffer[1 + k - 1]
    BY <1>1, <2>1, SubSeqProperties
  <2> QED
    BY <1>1, <2>2
<1>3. Begins(part, buffer)
  BY <1>1, <1>2 DEF Begins
<1>4. Ids(part) \subseteq Ids(buffer)
  BY <1>1, <1>2, <1>3, IdsOfBeginning
<1>5. n = 0 => part = <<>>
  BY <1>2, EmptySeq
<1>6. n = Len(buffer) => part = buffer
  BY <1>1, SubSeqFull
<1> HIDE DEF part
<1>7. Content(0) \o part \in Seq(Piece)
  BY <1>1, <1>2, IdsOfConcat
<1>8. file' = IF n = 0 THEN file ELSE [file EXCEPT ![0] = Content(0) \o part]
  BY DEF Write, part
<1>9. reached' = reached \cup Ids(part)
  BY DEF Write, part
<1>10. /\ file' \in [0..max_files_ -> Seq(Piece) \cup {Absent}]
       /\ \A i \in 1..max_files_ : file'[i] = file[i]
       /\ file[0] # Absent => file'[0] # Absent
  <2>1. CASE n = 0
    BY <1>1, <1>8, <2>1
  <2>2. CASE n # 0
    <3>1. file' = [file EXCEPT ![0] = Content(0) \o part]
      BY <1>8, <2>2
    <3>2. /\ file' \in [0..max_files_ -> Seq(Piece) \cup {Absent}]
          /\ file'[0] = Content(0) \o part
          /\ \A i \in 0..max_files_ : i # 0 => file'[i] = file[i]
      BY <1>1, <1>7, <3>1
    <3>3. file'[0] # Absent
      BY <1>7, <3>2, AbsentIsNoFile
    <3>4. \A i \in 1..max_files_ : file'[i] = file[i]
      BY <1>1, <3>2
    <3> QED
      BY <3>2, <3>3, <3>4
  <2> QED
    BY <2>1, <2>2
<1>11. Content(0)' = Content(0) \o part
  <2>1. CASE n = 0
    <3>1. Content(0) \o part = Content(0)
      BY <1>1, <1>5, <2>1, ConcatEmptySeq
    <3>2. Content(0)' = Content(0)
      BY <1>8, <2>1 DEF Content
    <3> QED
      BY <3>1, <3>2
  <2>2. CASE n # 0
    <3>1. file'[0] = Content(0) \o part
      BY <1>1, <1>8, <2>2
    <3> QED
      BY <1>7, <3>1, AbsentIsNoFile DEF Content
  <2> QED
    BY <2>1, <2>2
<1>12. Pending(0) = Content(0) \o buffer
  BY DEF Pending
<1>13. Begins(Content(0)', Pending(0))
  <2>1. /\ Len(Content(0) \o part) = Len(Content(0)) + n
        /\ \A k \in 1..Len(Content(0)) + n :
             (Content(0) \o part)[k] = IF k <= Len(Content(0)) THEN Content(0)[k] ELSE part[k - Len(Content(0))]
    <3>1. Content(0) \in Seq(Piece) /\ part \in Seq(Piece) /\ Len(part) = n
      BY <1>1, <1>2
    <3> HIDE DEF part
    <3> QED
      BY <3>1, ConcatProperties
  <2>2. /\ Len(Content(0) \o buffer) = Len(Content(0)) + Len(buffer)
        /\ \A k \in 1..Len(Content(0)) + Len(buffer) :
             (Content(0) \o buffer)[k] = IF k <= Len(Content(0)) THEN Content(0)[k] ELSE buffer[k - Len(Content(0))]
    BY <1>1, ConcatProperties
  <2>3. Len(Content(0)) \in Nat /\ n <= Len(buffer)
    BY <1>1
  <2>4. ASSUME NEW k \in 1..Len(Content(0)) + n
        PROVE  (Content(0) \o part)[k] = (Content(0) \o buffer)[k]
    <3>1. k \in 1..Len(Content(0)) + Len(buffer)
      BY <1>1, <2>3, <2>4
    <3>2. CASE k <= Len(Content(0))
      BY <2>1, <2>2, <3>1, <3>2
    <3>3. CASE ~(k <= Len(Content(0)))
      <4>1. k - Len(Content(0)) \in 1..n
        BY <1>1, <2>3, <3>3
      <4> QED
        BY <1>2, <2>1, <2>2, <3>1, <3>3, <4>1
    <3> QED
      BY <3>2, <3>3
  <2>5. Len(Content(0) \o part) <= Len(Content(0) \o buffer)
    BY <1>1, <2>1, <2>2, <2>3
  <2>6. Begins(Content(0) \o part, Content(0) \o buffer)
    BY <2>1, <2>4, <2>5 DEF Begins
  <2> QED
    BY <1>11, <1>12, <2>6
<1>14. \A i \in 1..max_files_ : Content(i)' = Content(i)
  BY <1>10 DEF Content
<1> QED
  BY <1>2, <1>4, <1>6, <1>9, <1>10, <1>11, <1>12, <1>13, <1>14 DEF part

LEMMA RotatingTypedInit == Init => RotatingTyped
<1> SUFFICES ASSUME Init PROVE RotatingTyped
  OBVIOUS
<1>1. max_files_ \in Nat /\ max_bytes_ \in Nat
  BY RotatingAssumption DEF Init
<1>2. file \in [0..max_files_ -> Seq(Piece) \cup {Absent}]
  BY DEF Init
<1> QED
  BY <1>1, <1>2, EmptySeq DEF Init, RotatingTyped

\* What the actions that write before the sink ends have in common.
LEMMA RotatingTypedEnded ==
  ASSUME RotatingTyped, NEW n \in 0..Len(buffer), Write(n), Ended, crashes' \in Nat
  PROVE  RotatingTyped'
<1>1. /\ file' \in [0..max_files_ -> Seq(Piece) \cup {Absent}]
      /\ reached' \subseteq Nat
  BY Writing, IdsOf DEF Ended, options, RotatingTyped
<1>2. max_files_' = max_files_ /\ max_bytes_' = max_bytes_
  BY DEF Ended, options
<1> QED
  BY <1>1, <1>2, EmptySeq DEF RotatingTyped, Ended

LEMMA RotatingTypedStep ==
  ASSUME RotatingTyped, [Next]_vars
  PROVE  RotatingTyped'
<1> USE DEF RotatingTyped
<1>1. file \in [0..max_files_ -> Seq(Piece) \cup {Absent}] /\ max_files_ \in Nat
  OBVIOUS
<1>2. Content(0) \in Seq(Piece) /\ <<>> \in Seq(Piece)
  BY <1>1, ContentTyped, EmptySeq
<1>3. Closed \subseteq 0..Len(buffer) /\ Len(buffer) \in 0..Len(buffer)
  BY DEF Closed
<1>4. ASSUME NEW truncate \in BOOLEAN, max_files_' = max_files_, Open(truncate) \/ OpenFails
      PROVE  /\ file' \in [0..max_files_ -> Seq(Piece) \cup {Absent}]
             /\ current_size_' \in Nat /\ faults' \in Nat
             /\ stream' \in {"good", "bad", "closed"}
  <2>1. SizeOnOpen(truncate) \in Nat
    BY <1>2, BytesOfSome DEF SizeOnOpen
  <2>2. CASE Open(truncate)
    <3>1. file' = [file EXCEPT ![0] = IF truncate THEN <<>> ELSE Content(0)]
      BY <2>2 DEF Open
    <3>2. file' \in [0..max_files_ -> Seq(Piece) \cup {Absent}]
      BY <1>1, <1>2, <3>1
    <3> QED
      BY <1>4, <2>1, <2>2, <3>2 DEF Open
  <2>3. CASE OpenFails
    BY <1>1, <1>4, <2>3 DEF OpenFails, Fault
  <2> QED
    BY <1>4, <2>2, <2>3
<1>5. CASE Construct
  BY <1>4, <1>5 DEF Construct, options
<1>6. ASSUME NEW len \in Lengths, Log(len)
      PROVE  RotatingTyped'
  <2>1. line' \in Piece /\ line'.id = lines'
    BY <1>6, RotatingAssumption DEF Log, Piece
  <2> QED
    BY <1>6, <2>1 DEF Log, options, object
<1>7. CASE CloseFile
  <2>1. PICK n \in Closed : Write(n)
    BY <1>7 DEF CloseFile
  <2>2. max_files_' = max_files_
    BY <1>7 DEF CloseFile, options
  <2>3. /\ file' \in [0..max_files_ -> Seq(Piece) \cup {Absent}]
        /\ reached' \subseteq Nat
    BY <1>3, <2>1, <2>2, Writing, IdsOf
  <2> QED
    BY <1>2, <1>7, <2>2, <2>3 DEF CloseFile, options, bounds
<1>8. CASE RemoveOldest
  BY <1>8 DEF RemoveOldest, options, object, bounds
<1>9. CASE Rename
  <2>1. shift \in 0..max_files_ - 1 /\ max_files_' = max_files_
    BY <1>9 DEF Rename, options
  <2>2. file' \in [0..max_files_ -> Seq(Piece) \cup {Absent}]
    BY <1>1, <1>9, <2>1 DEF Rename
  <2> QED
    <3>1. faults' \in Nat /\ unrenamed' \in BOOLEAN
      <4>1. UNCHANGED <<faults, unrenamed>> \/ (Fault /\ unrenamed' = TRUE)
        BY <1>9 DEF Rename
      <4>2. faults \in Nat /\ unrenamed \in BOOLEAN
        OBVIOUS
      <4> HIDE DEF RotatingTyped
      <4>3. faults' = faults \/ faults' = faults + 1
        BY <4>1 DEF Fault
      <4>4. unrenamed' = unrenamed \/ unrenamed' = TRUE
        BY <4>1
      <4>5. unrenamed' \in BOOLEAN
        BY <4>2, <4>4, Zenon
      <4> QED
        BY <4>2, <4>3, <4>5
    <3>2. /\ at' \in {"open", "rename"}
          /\ at' = "rename" => shift' \in 0..max_files_ - 1
      BY <1>1, <1>9, <2>1 DEF Rename
    <3>3. UNCHANGED <<max_files_, max_bytes_, object, running, line, lines, crashes, reached>> /\ running
      BY <1>9 DEF Rename, options
    <3> HIDE DEF RotatingTyped
    <3>4. /\ max_files_ \in Nat /\ max_bytes_ \in Nat /\ current_size_ \in Nat
          /\ lines \in Nat /\ crashes \in Nat
          /\ stream \in {"good", "bad", "closed"}
          /\ reached \subseteq Nat
          /\ line \in Piece /\ line.id = lines
          /\ max_files_ > 0 /\ buffer = <<>> /\ buffer \in Seq(Piece)
      BY <1>9 DEF RotatingTyped, Rename
    <3> QED
      BY <2>2, <3>1, <3>2, <3>3, <3>4 DEF RotatingTyped, object
<1>10. CASE Reopen
  BY <1>4, <1>10 DEF Reopen, options
<1>11. CASE Put
  <2>1. buffer' \in Seq(Piece) /\ current_size_' \in Nat /\ faults' \in Nat
    <3>1. line \in Piece /\ line.len \in Nat
      BY <1>11 DEF Put, Piece
    <3>2. buffer' \in Seq(Piece)
      BY <1>11, <3>1, SMTT(20) DEF Put
    <3> QED
      BY <1>11, <3>1, <3>2 DEF Put, Fault
  <2> QED
    BY <1>11, <2>1 DEF Put, options
<1>12. CASE flush
  <2>1. max_files_' = max_files_ /\ Write(Len(buffer))
    BY <1>12 DEF flush, options
  <2>2. /\ file' \in [0..max_files_ -> Seq(Piece) \cup {Absent}]
        /\ reached' \subseteq Nat
    BY <1>3, <2>1, Writing, IdsOf
  <2> QED
    BY <1>2, <1>12, <2>2 DEF flush, options, control, bounds
<1>13. CASE Destroy
  BY <1>3, <1>13, RotatingTypedEnded DEF Destroy
<1>14. CASE Kill
  BY <1>14, RotatingTypedEnded, SMTT(20) DEF Kill
<1>15. CASE UNCHANGED vars
  BY <1>15 DEF vars, options, object, control, bounds
<1> QED
  BY <1>5, <1>6, <1>7, <1>8, <1>9, <1>10, <1>11, <1>12, <1>13, <1>14, <1>15 DEF Next

\* The name that rotate() has made free, -1 if there is none.
Hole == IF at = "rename" THEN shift + 1 ELSE IF at = "open" /\ max_files_ > 0 THEN 0 ELSE -1

(* What KeptIsNewest follows from.  The line that log() is in the middle of
   is newer than all that is in the buffer, which is newer than all that has
   reached a file, and base_path.i is older than base_path.j for j < i.    *)
Newest ==
  /\ KeptIds \subseteq reached
  /\ \A id \in reached \cup Ids(buffer) : id <= Past
  /\ \A older \in reached, newer \in Ids(buffer) : older < newer
  /\ \A i \in 0..max_files_ : Increasing(Pending(i))
  /\ \A i, j \in 0..max_files_ :
       j < i => \A older \in Ids(Content(i)), newer \in Ids(Content(j)) : older < newer
  /\ ~unrenamed /\ Hole # -1 => file[Hole] = Absent
  /\ ~unrenamed => \A gone \in reached \ KeptIds, id \in KeptIds : gone < id

LEMMA KeptIdsAre ==
  ASSUME RotatingTyped
  PROVE  /\ \A i \in 0..max_files_ : Ids(Content(i)) \subseteq KeptIds /\ Ids(Content(i)) \subseteq Nat
         /\ \A id \in KeptIds : id \in Nat /\ \E i \in 0..max_files_ : id \in Ids(Content(i))
<1>1. DOMAIN file = 0..max_files_
  BY DEF RotatingTyped
<1>2. \A i \in 0..max_files_ : Ids(Content(i)) \subseteq Nat
  BY ContentTyped, IdsOf
<1> QED
  BY <1>1, <1>2 DEF KeptIds

LEMMA IncreasingBeginning ==
  ASSUME NEW s \in Seq(Piece), NEW t \in Seq(Piece), Begins(s, t), Increasing(t)
  PROVE  Increasing(s)
<1>1. Len(s) \in Nat /\ Len(t) \in Nat
  OBVIOUS
<1> QED
  BY <1>1 DEF Begins, Increasing

LEMMA IncreasingAppend ==
  ASSUME NEW s \in Seq(Piece), NEW e \in Piece, Increasing(s), \A id \in Ids(s) : id < e.id
  PROVE  Increasing(Append(s, e))
<1>1. /\ Len(Append(s, e)) = Len(s) + 1 /\ Len(s) \in Nat
      /\ \A i \in 1..Len(s) : Append(s, e)[i] = s[i]
      /\ Append(s, e)[Len(s) + 1] = e
  BY AppendProperties
<1>2. \A i \in 1..Len(s) : s[i].id < e.id
  BY IdsOf
<1>3. \A i \in 1..Len(s) + 1 : i \in 1..Len(s) \/ i = Len(s) + 1
  BY <1>1
<1>4. ASSUME NEW j \in 1..Len(s) + 1, NEW k \in 1..Len(s) + 1, j < k
      PROVE  Append(s, e)[j].id < Append(s, e)[k].id
  <2>1. j \in 1..Len(s)
    BY <1>1, <1>4
  <2>2. CASE k \in 1..Len(s)
    BY <1>1, <1>4, <2>1, <2>2 DEF Increasing
  <2>3. CASE k = Len(s) + 1
    BY <1>1, <1>2, <2>1, <2>3
  <2> QED
    BY <1>3, <2>2, <2>3
<1> QED
  BY <1>1, <1>4 DEF Increasing

\* Nothing is written or lost, and no name made free.
LEMMA NewestSame ==
  ASSUME RotatingTyped, RotatingTyped', Newest,
         max_files_' = max_files_, \A i \in 0..max_files_ : Content(i)' = Content(i),
         UNCHANGED <<buffer, reached, unrenamed>>, Past <= Past',
         ~unrenamed' /\ Hole' # -1 => file'[Hole'] = Absent
  PROVE  Newest'
<1>1. \A i \in 0..max_files_ : Pending(i)' = Pending(i)
  BY DEF RotatingTyped, Pending
<1>2. KeptIds' = KeptIds
  <2>1. DOMAIN file = 0..max_files_ /\ DOMAIN file' = 0..max_files_
    BY DEF RotatingTyped
  <2> QED
    BY <2>1 DEF KeptIds
<1>3. \A id \in reached \cup Ids(buffer) : id <= Past'
  <2>1. reached \cup Ids(buffer) \subseteq Nat
    BY IdsOf DEF RotatingTyped
  <2>2. Past \in Int /\ Past' \in Int
    BY DEF RotatingTyped, Past
  <2> QED
    BY <2>1, <2>2 DEF Newest
<1> QED
  BY <1>1, <1>2, <1>3 DEF Newest

LEMMA NewestWritten ==
  ASSUME RotatingTyped, RotatingTyped', Newest, NEW n \in 0..Len(buffer), Write(n), buffer' = <<>>,
         max_files_' = max_files_, unrenamed' = unrenamed, Past <= Past', Hole' = -1
  PROVE  Newest'
<1> DEFINE part == Ids(SubSeq(buffer, 1, n))
<1>1. /\ \A i \in 1..max_files_ : Content(i)' = Content(i)
      /\ part \subseteq Ids(buffer)
      /\ SubSeq(buffer, 1, n) \in Seq(Piece)
      /\ reached' = reached \cup part
      /\ Content(0)' = Content(0) \o SubSeq(buffer, 1, n)
      /\ Begins(Content(0)', Pending(0))
  BY Writing
<1>2. /\ max_files_ \in Nat /\ reached \subseteq Nat /\ Ids(buffer) \subseteq Nat
      /\ 0 \in 0..max_files_ /\ Content(0) \in Seq(Piece) /\ Pending(0) \in Seq(Piece)
  <2>1. max_files_ \in Nat /\ reached \subseteq Nat /\ buffer \in Seq(Piece)
    BY DEF RotatingTyped
  <2>2. 0 \in 0..max_files_
    BY <2>1
  <2>3. Content(0) \in Seq(Piece) /\ Pending(0) \in Seq(Piece)
    BY <2>2, ContentTyped
  <2> QED
    BY <2>1, <2>2, <2>3, IdsOf
<1>3. Ids(Content(0))' = Ids(Content(0)) \cup part
  BY <1>1, <1>2, IdsOfConcat
<1>4. KeptIds' = KeptIds \cup part
  <2>1. DOMAIN file = 0..max_files_ /\ DOMAIN file' = 0..max_files_
    BY DEF RotatingTyped
  <2>2. \A i \in 0..max_files_ : i # 0 => Ids(Content(i))' = Ids(Content(i))
    BY <1>1, <1>2
  <2>3. ASSUME NEW id PROVE id \in KeptIds' <=> id \in KeptIds \cup part
    BY <1>2, <1>3, <2>1, <2>2 DEF KeptIds
  <2> QED
    BY <2>3
<1> HIDE DEF part
<1>5. Ids(buffer)' = {}
  BY IdsOfNone
<1>6. (KeptIds \subseteq reached)'
  BY <1>1, <1>4 DEF Newest
<1>7. (\A id \in reached \cup Ids(buffer) : id <= Past)'
  <2>1. Past \in Int /\ Past' \in Int
    BY DEF RotatingTyped, Past
  <2> QED
    BY <1>1, <1>2, <1>5, <2>1 DEF Newest
<1>8. ASSUME NEW i \in 0..max_files_
      PROVE  Increasing(Pending(i))'
  <2>1. CASE i = 0
    <3>1. Content(0)' \in Seq(Piece)
      BY <1>1, <1>2, IdsOfConcat, ZenonT(30)
    <3>2. Pending(0)' = Content(0)'
      BY <3>1, ConcatEmptySeq DEF Pending
    <3>3. Increasing(Content(0)')
      BY <1>1, <1>2, <3>1, IncreasingBeginning DEF Newest
    <3> QED
      BY <2>1, <3>2, <3>3 DEF Increasing
  <2>2. CASE i # 0
    <3>1. Pending(i)' = Pending(i)
      BY <1>1, <2>2 DEF Pending
    <3> QED
      BY <3>1 DEF Newest, Increasing
  <2> QED
    BY <2>1, <2>2
<1>9. ASSUME NEW i \in 0..max_files_, NEW j \in 0..max_files_, j < i,
             NEW older \in Ids(Content(i))', NEW newer \in Ids(Content(j))'
      PROVE  older < newer
  <2>1. older \in Ids(Content(i)) /\ older \in reached
    <3>1. Content(i)' = Content(i)
      BY <1>1, <1>2, <1>9
    <3> QED
      BY <1>9, <3>1, KeptIdsAre DEF Newest
  <2>2. CASE newer \in Ids(Content(j))
    BY <1>9, <2>1, <2>2 DEF Newest
  <2>3. CASE newer \in part
    BY <1>1, <2>1, <2>3 DEF Newest
  <2>4. newer \in Ids(Content(j)) \/ newer \in part
    <3>1. CASE j = 0
      BY <1>3, <1>9, <3>1
    <3>2. CASE j # 0
      BY <1>1, <1>9, <3>2
    <3> QED
      BY <3>1, <3>2
  <2> QED
    BY <2>2, <2>3, <2>4
<1>10. ASSUME ~unrenamed, NEW gone \in (reached \ KeptIds)', NEW id \in KeptIds'
       PROVE  gone < id
  <2>1. gone \in reached /\ gone \notin KeptIds
    BY <1>1, <1>4, <1>10
  <2> QED
    BY <1>1, <1>4, <1>10, <2>1 DEF Newest
<1> QED
  BY <1>5, <1>6, <1>7, <1>8, <1>9, <1>10 DEF Newest

LEMMA NewestInit == Init => Newest
<1> SUFFICES ASSUME Init PROVE Newest
  OBVIOUS
<1>1. RotatingTyped
  BY RotatingTypedInit
<1>2. max_files_ \in Nat /\ \A i \in 0..max_files_ : file[i] = Absent
  BY <1>1 DEF Init, RotatingTyped
<1>3. \A i \in 0..max_files_ : Content(i) = <<>>
  BY <1>2 DEF Content
<1>4. \A i \in 0..max_files_ : Pending(i) = <<>>
  BY <1>2, <1>3, EmptySeq, ConcatEmptySeq DEF Pending, Init
<1>5. Len(<<>>) = 0 /\ Increasing(<<>>)
  BY EmptySeq DEF Increasing
<1>6. KeptIds = {}
  BY <1>1, <1>3, IdsOfNone, KeptIdsAre
<1>7. reached = {} /\ Ids(buffer) = {} /\ Hole = -1
  BY IdsOfNone DEF Init, Hole
<1> QED
  BY <1>3, <1>4, <1>5, <1>6, <1>7, IdsOfNone DEF Newest

\* The names change places, or one of them goes: rotate() without a write.
LEMMA NewestMoved ==
  ASSUME RotatingTyped, RotatingTyped', Newest,
         max_files_' = max_files_, buffer = <<>>, buffer' = <<>>,
         UNCHANGED <<reached, unrenamed>>, Past' = Past,
         NEW from \in [0..max_files_ -> 0..max_files_],
         \A i \in 0..max_files_ : Content(i)' = Content(from[i]) \/ Content(i)' = <<>>,
         \A i, j \in 0..max_files_ : j < i /\ Content(i)' # <<>> /\ Content(j)' # <<>> => from[j] < from[i],
         ~unrenamed => \A gone \in KeptIds \ KeptIds', id \in KeptIds' : gone < id,
         ~unrenamed /\ Hole' # -1 => file'[Hole'] = Absent
  PROVE  Newest'
<1>1. \A i \in 0..max_files_ : Ids(Content(i))' \subseteq Ids(Content(from[i])) /\ from[i] \in 0..max_files_
  BY IdsOfNone
<1>2. KeptIds' \subseteq KeptIds
  <2>1. ASSUME NEW id \in KeptIds' PROVE id \in KeptIds
    <3>1. PICK i \in 0..max_files_ : id \in Ids(Content(i))'
      <4>1. DOMAIN file' = 0..max_files_
        BY DEF RotatingTyped
      <4> QED
        BY <2>1, <4>1 DEF KeptIds
    <3> QED
      BY <1>1, <3>1, KeptIdsAre
  <2> QED
    BY <2>1
<1>3. ASSUME NEW i \in 0..max_files_ PROVE Increasing(Pending(i))'
  <2>1. Pending(i) = Content(i) /\ Pending(from[i]) = Content(from[i]) /\ Pending(i)' = Content(i)'
    <3>1. \A k \in 0..max_files_ : Content(k) \in Seq(Piece) /\ Content(k)' \in Seq(Piece)
      BY ContentTyped, EmptySeq DEF RotatingTyped, Content
    <3>2. \A k \in 0..max_files_ : Content(k) \o <<>> = Content(k) /\ Content(k)' \o <<>> = Content(k)'
      BY <3>1, ConcatEmptySeq
    <3> QED
      BY <1>1, <3>2 DEF Pending
  <2>2. Increasing(Content(from[i]))
    BY <1>1, <2>1 DEF Newest
  <2>3. Increasing(<<>>)
    BY EmptySeq DEF Increasing
  <2>4. Increasing(Content(i)')
    BY <2>2, <2>3
  <2> QED
    BY <2>1, <2>4 DEF Increasing
<1>4. ASSUME NEW i \in 0..max_files_, NEW j \in 0..max_files_, j < i,
             NEW older \in Ids(Content(i))', NEW newer \in Ids(Content(j))'
      PROVE  older < newer
  <2>1. Content(i)' # <<>> /\ Content(j)' # <<>>
    BY <1>4, IdsOfNone
  <2>2. from[j] < from[i] /\ older \in Ids(Content(from[i])) /\ newer \in Ids(Content(from[j]))
    BY <1>1, <1>4, <2>1
  <2> QED
    BY <1>1, <2>2 DEF Newest
<1>5. ASSUME ~unrenamed, NEW gone \in reached \ KeptIds', NEW id \in KeptIds'
      PROVE  gone < id
  BY <1>2, <1>5 DEF Newest
<1> QED
  BY <1>2, <1>3, <1>4, <1>5 DEF Newest

\* The line goes behind all that base_path will hold.
LEMMA Putting ==
  ASSUME RotatingTyped, Put, buffer' = Append(buffer, line)
  PROVE  Pending(0)' = Append(Pending(0), line)
<1>1. at = "put" /\ file' = file
  BY DEF Put
<1>2. line \in Piece /\ buffer \in Seq(Piece) /\ 0 \in 0..max_files_
  BY <1>1 DEF RotatingTyped
<1>3. Content(0) \in Seq(Piece) /\ Pending(0) \in Seq(Piece)
  BY <1>2, ContentTyped
<1>4. Pending(0)' = Content(0) \o (buffer \o <<line>>)
  <2>1. Content(0)' = Content(0)
    BY <1>1 DEF Content
  <2>2. buffer' = buffer \o <<line>>
    BY <1>2, AppendIsConcat
  <2> QED
    BY <2>1, <2>2 DEF Pending
<1>5. Content(0) \o (buffer \o <<line>>) = (Content(0) \o buffer) \o <<line>>
  <2>1. <<line>> \in Seq(Piece)
    BY <1>2
  <2> QED
    BY <1>2, <1>3, <2>1, ConcatAssociative
<1>6. Append(Pending(0), line) = Pending(0) \o <<line>>
  BY <1>2, <1>3, AppendIsConcat
<1> QED
  BY <1>4, <1>5, <1>6 DEF Pending

LEMMA NewestPut ==
  ASSUME RotatingTyped, RotatingTyped', Newest, Put
  PROVE  Newest'
<1>1. /\ UNCHANGED <<max_files_, file, reached, unrenamed, lines>>
      /\ at = "put" /\ at' = "idle"
      /\ buffer' = Append(buffer, line) \/ buffer' = buffer
  BY DEF Put, options
<1>2. Past = lines - 1 /\ Past' = lines /\ lines \in Nat /\ Hole' = -1
  BY <1>1 DEF Past, Hole, RotatingTyped
<1>3. \A i \in 0..max_files_ : Content(i)' = Content(i)
  BY <1>1 DEF Content
<1>4. CASE buffer' = buffer
  <2>1. Past <= Past'
    BY <1>2
  <2> QED
    BY <1>1, <1>2, <1>3, <1>4, <2>1, NewestSame
<1>5. CASE buffer' = Append(buffer, line)
  <2>1. /\ line \in Piece /\ line.id = lines /\ buffer \in Seq(Piece) /\ max_files_ \in Nat
        /\ 0 \in 0..max_files_ /\ Content(0) \in Seq(Piece) /\ Pending(0) \in Seq(Piece)
        /\ reached \subseteq Nat /\ Ids(buffer) \subseteq Nat
    <3>1. /\ line \in Piece /\ line.id = lines /\ buffer \in Seq(Piece)
          /\ max_files_ \in Nat /\ reached \subseteq Nat
      BY <1>1 DEF RotatingTyped
    <3>2. 0 \in 0..max_files_
      BY <3>1
    <3> QED
      BY <3>1, <3>2, ContentTyped, IdsOf
  <2>2. <<line>> \in Seq(Piece) /\ Ids(<<line>>) = {lines}
    <3>1. <<line>> \in Seq(Piece) /\ Len(<<line>>) = 1 /\ <<line>>[1] = line
      BY <2>1
    <3>2. Ids(<<line>>) = {<<line>>[k].id : k \in 1..1}
      BY <3>1, IdsOf
    <3> QED
      BY <2>1, <3>1, <3>2
  <2>3. buffer' = buffer \o <<line>>
    BY <1>5, <2>1, AppendIsConcat
  <2>4. Ids(buffer)' = Ids(buffer) \cup {lines}
    <3>1. Ids(buffer \o <<line>>) = Ids(buffer) \cup Ids(<<line>>)
      BY <2>1, <2>2, IdsOfConcat
    <3> QED
      BY <2>2, <2>3, <3>1
  <2>5. Pending(0)' = Append(Pending(0), line)
    BY <1>5, Putting
  <2>6. KeptIds' = KeptIds /\ KeptIds \subseteq reached
    BY <1>1 DEF KeptIds, Content, Newest
  <2>7. \A id \in reached \cup Ids(buffer) : id <= lines - 1 /\ id < lines
    BY <1>2, <2>1 DEF Newest
  <2>8. \A id \in Ids(Pending(0)) : id < line.id
    <3>1. Ids(Pending(0)) = Ids(Content(0)) \cup Ids(buffer)
      BY <2>1, IdsOfConcat DEF Pending
    <3>2. Ids(Content(0)) \subseteq reached
      BY <2>1, <2>6, KeptIdsAre
    <3> QED
      BY <2>1, <2>7, <3>1, <3>2
  <2>9. Increasing(Append(Pending(0), line))
    BY <2>1, <2>8, IncreasingAppend DEF Newest
  <2>10. ASSUME NEW i \in 0..max_files_ PROVE Increasing(Pending(i))'
    <3>1. CASE i = 0
      BY <2>5, <2>9, <3>1 DEF Increasing
    <3>2. CASE i # 0
      <4>1. Pending(i)' = Pending(i)
        BY <1>3, <3>2 DEF Pending
      <4> QED
        BY <4>1 DEF Newest, Increasing
    <3> QED
      BY <3>1, <3>2
  <2>11. (\A id \in reached \cup Ids(buffer) : id <= Past)'
    BY <1>1, <1>2, <2>1, <2>4, <2>7
  <2>12. (\A older \in reached, newer \in Ids(buffer) : older < newer)'
    BY <1>1, <2>4, <2>7 DEF Newest
  <2> QED
    BY <1>1, <1>2, <1>3, <2>6, <2>10, <2>11, <2>12 DEF Newest
<1> QED
  BY <1>1, <1>4, <1>5

LEMMA NewestOpen ==
  ASSUME RotatingTyped, RotatingTyped', Newest, Reopen
  PROVE  Newest'
<1>1. /\ UNCHANGED <<max_files_, buffer, reached, unrenamed, lines>>
      /\ at = "open" /\ at' = "put" /\ buffer = <<>>
      /\ max_files_ \in Nat /\ 0 \in 0..max_files_
  BY DEF Reopen, options, RotatingTyped
<1>2. Past' = Past /\ Hole' = -1
  BY <1>1 DEF Past, Hole
<1>3. Open(TRUE) \/ file' = file
  BY DEF Reopen, OpenFails
<1>4. CASE file' = file
  <2>1. \A i \in 0..max_files_ : Content(i)' = Content(i)
    BY <1>4 DEF Content
  <2>2. Past <= Past'
    BY <1>1, <1>2 DEF Past, RotatingTyped
  <2> QED
    BY <1>1, <1>2, <2>1, <2>2, NewestSame
<1>5. CASE Open(TRUE)
  <2>1. /\ file'[0] = <<>>
        /\ \A i \in 0..max_files_ : i # 0 => file'[i] = file[i]
    BY <1>1, <1>5 DEF Open, RotatingTyped
  <2>2. Content(0)' = <<>> /\ \A i \in 0..max_files_ : i # 0 => Content(i)' = Content(i)
    BY <2>1 DEF Content
  <2>3. \A gone \in KeptIds \ KeptIds', id \in KeptIds' : ~unrenamed => gone < id
    <3>1. CASE max_files_ > 0 /\ ~unrenamed
      <4>1. file[0] = Absent
        BY <1>1, <3>1 DEF Newest, Hole
      <4>2. \A i \in 0..max_files_ : Content(i)' = Content(i)
        BY <2>2, <4>1 DEF Content
      <4>3. DOMAIN file = 0..max_files_ /\ DOMAIN file' = 0..max_files_
        BY <1>1 DEF RotatingTyped
      <4>4. KeptIds' = KeptIds
        BY <4>2, <4>3 DEF KeptIds
      <4> QED
        BY <4>4
    <3>2. CASE ~(max_files_ > 0)
      <4>1. DOMAIN file' = {0}
        BY <1>1, <3>2 DEF RotatingTyped
      <4>2. KeptIds' = {}
        BY <2>2, <4>1, IdsOfNone DEF KeptIds
      <4> QED
        BY <4>2
    <3> QED
      BY <3>1, <3>2
  <2>4. PICK from : from = [i \in 0..max_files_ |-> i]
    OBVIOUS
  <2>5. from \in [0..max_files_ -> 0..max_files_]
    BY <2>4
  <2>6. \A i \in 0..max_files_ : Content(i)' = Content(from[i]) \/ Content(i)' = <<>>
    BY <2>2, <2>4
  <2>7. \A i, j \in 0..max_files_ :
          j < i /\ Content(i)' # <<>> /\ Content(j)' # <<>> => from[j] < from[i]
    BY <2>4
  <2> QED
    BY <1>1, <1>2, <2>3, <2>5, <2>6, <2>7, NewestMoved
<1> QED
  BY <1>3, <1>4, <1>5

LEMMA NewestRemove ==
  ASSUME RotatingTyped, RotatingTyped', Newest, RemoveOldest
  PROVE  Newest'
<1>1. /\ UNCHANGED <<max_files_, buffer, reached, unrenamed, lines>>
      /\ at = "remove" /\ at' = "rename" /\ buffer = <<>>
      /\ max_files_ \in Nat /\ max_files_ > 0 /\ max_files_ \in 0..max_files_
      /\ shift' = max_files_ - 1
  BY DEF RemoveOldest, options, object, bounds, RotatingTyped
<1>2. Past' = Past /\ Hole' = max_files_
  BY <1>1 DEF Past, Hole
<1>3. /\ file'[max_files_] = Absent
      /\ \A i \in 0..max_files_ : i # max_files_ => file'[i] = file[i]
  BY <1>1 DEF RemoveOldest, RotatingTyped
<1>4. \A i \in 0..max_files_ : Content(i)' = IF i = max_files_ THEN <<>> ELSE Content(i)
  BY <1>1, <1>3 DEF Content
<1>5. ASSUME NEW gone \in KeptIds \ KeptIds', NEW id \in KeptIds'
      PROVE  gone < id
  <2>1. PICK i \in 0..max_files_ : gone \in Ids(Content(i))
    BY <1>5, KeptIdsAre
  <2>2. DOMAIN file' = 0..max_files_
    BY <1>1 DEF RotatingTyped
  <2>3. i = max_files_
    <3>1. gone \notin Ids(Content(i))'
      BY <1>5, <2>2 DEF KeptIds
    <3> QED
      BY <1>4, <2>1, <3>1
  <2>4. PICK j \in 0..max_files_ : id \in Ids(Content(j))'
    BY <1>5, <2>2 DEF KeptIds
  <2>5. j # max_files_
    BY <1>1, <1>4, <2>4, IdsOfNone
  <2>6. j < i /\ id \in Ids(Content(j))
    BY <1>1, <1>4, <2>3, <2>4, <2>5
  <2> QED
    BY <2>1, <2>6 DEF Newest
<1>6. PICK from : from = [i \in 0..max_files_ |-> i]
  OBVIOUS
<1>7. from \in [0..max_files_ -> 0..max_files_]
  BY <1>6
<1>8. \A i \in 0..max_files_ : Content(i)' = Content(from[i]) \/ Content(i)' = <<>>
  BY <1>4, <1>6
<1>9. \A i, j \in 0..max_files_ :
        j < i /\ Content(i)' # <<>> /\ Content(j)' # <<>> => from[j] < from[i]
  BY <1>6
<1> QED
  BY <1>1, <1>2, <1>3, <1>5, <1>6, <1>7, <1>8, <1>9, NewestMoved

LEMMA NewestRename ==
  ASSUME RotatingTyped, RotatingTyped', Newest, Rename
  PROVE  Newest'
<1>1. /\ UNCHANGED <<max_files_, buffer, reached, lines>>
      /\ at = "rename" /\ buffer = <<>>
      /\ max_files_ \in Nat /\ max_files_ > 0
      /\ shift \in 0..max_files_ - 1 /\ shift \in 0..max_files_ /\ shift + 1 \in 0..max_files_
      /\ \/ shift = 0 /\ at' = "open"
         \/ shift # 0 /\ at' = "rename" /\ shift' = shift - 1
  <2>1. /\ UNCHANGED <<max_files_, object, lines, reached>> /\ at = "rename"
        /\ IF shift = 0 THEN at' = "open" /\ UNCHANGED shift
                        ELSE shift' = shift - 1 /\ UNCHANGED at
    BY DEF Rename, options
  <2>2. buffer' = buffer
    BY <2>1 DEF object
  <2>3. max_files_ \in Nat /\ max_files_ > 0 /\ shift \in 0..max_files_ - 1 /\ buffer = <<>>
    BY <2>1 DEF RotatingTyped
  <2> QED
    BY <2>1, <2>2, <2>3
<1>2. Past' = Past /\ Hole = shift + 1 /\ Hole' = shift /\ Past <= Past'
  BY <1>1 DEF Past, Hole, RotatingTyped
<1>3. \/ file' = file /\ (unrenamed' = TRUE \/ (unrenamed' = unrenamed /\ file[shift] = Absent))
      \/ /\ file[shift] # Absent /\ unrenamed' = unrenamed
         /\ file' = [file EXCEPT ![shift + 1] = file[shift], ![shift] = Absent]
  BY DEF Rename
<1>4. CASE file' = file /\ (unrenamed' = TRUE \/ (unrenamed' = unrenamed /\ file[shift] = Absent))
  <2>1. /\ \A i \in 0..max_files_ : Content(i)' = Content(i) /\ Pending(i)' = Pending(i)
        /\ KeptIds' = KeptIds /\ Ids(buffer)' = Ids(buffer)
    BY <1>1, <1>4 DEF Content, Pending, KeptIds
  <2>2. (~unrenamed /\ Hole # -1 => file[Hole] = Absent)'
    BY <1>2, <1>4
  <2>3. ~unrenamed' => ~unrenamed
    BY <1>4
  <2> QED
    BY <1>1, <1>2, <2>1, <2>2, <2>3 DEF Newest
<1>5. CASE /\ file[shift] # Absent /\ unrenamed' = unrenamed
           /\ file' = [file EXCEPT ![shift + 1] = file[shift], ![shift] = Absent]
  <2>1. /\ file'[shift + 1] = file[shift] /\ file'[shift] = Absent
        /\ \A i \in 0..max_files_ : i # shift /\ i # shift + 1 => file'[i] = file[i]
    <3>1. file \in [0..max_files_ -> Seq(Piece) \cup {Absent}]
      BY DEF RotatingTyped
    <3> QED
      BY <1>1, <1>5, <3>1
  <2>2. \A i \in 0..max_files_ :
          Content(i)' = IF i = shift + 1 THEN Content(shift) ELSE IF i = shift THEN <<>> ELSE Content(i)
    BY <1>1, <1>5, <2>1 DEF Content
  <2>3. ~unrenamed => KeptIds \subseteq KeptIds'
    <3>1. SUFFICES ASSUME ~unrenamed, NEW id \in KeptIds PROVE id \in KeptIds'
      OBVIOUS
    <3>2. PICK i \in 0..max_files_ : id \in Ids(Content(i))
      BY <3>1, KeptIdsAre
    <3>3. Content(shift + 1) = <<>>
      BY <1>1, <1>2, <3>1 DEF Newest, Content
    <3>4. i # shift + 1
      BY <3>2, <3>3, IdsOfNone
    <3>5. \E j \in 0..max_files_ : id \in Ids(Content(j))'
      <4>1. CASE i = shift
        BY <1>1, <2>2, <3>2, <4>1
      <4>2. CASE i # shift
        BY <2>2, <3>2, <3>4, <4>2
      <4> QED
        BY <4>1, <4>2
    <3>6. DOMAIN file' = 0..max_files_
      BY <1>1 DEF RotatingTyped
    <3> QED
      BY <3>5, <3>6 DEF KeptIds
  <2>4. PICK from : from = [i \in 0..max_files_ |-> IF i = shift + 1 THEN shift ELSE i]
    OBVIOUS
  <2>5. from \in [0..max_files_ -> 0..max_files_]
    BY <1>1, <2>4
  <2>6. \A i \in 0..max_files_ : Content(i)' = Content(from[i]) \/ Content(i)' = <<>>
    BY <1>1, <2>2, <2>4
  <2>7. \A i, j \in 0..max_files_ :
          j < i /\ Content(i)' # <<>> /\ Content(j)' # <<>> => from[j] < from[i]
    BY <1>1, <2>2, <2>4
  <2>8. Hole' # -1 => file'[Hole'] = Absent
    BY <1>2, <2>1
  <2> QED
    BY <1>1, <1>2, <1>5, <2>3, <2>5, <2>6, <2>7, <2>8, NewestMoved
<1> QED
  BY <1>3, <1>4, <1>5

LEMMA NewestStep ==
  ASSUME RotatingTyped, Newest, [Next]_vars
  PROVE  Newest'
<1>1. RotatingTyped'
  BY RotatingTypedStep
<1>2. Closed \subseteq 0..Len(buffer) /\ Len(buffer) \in 0..Len(buffer)
  BY DEF Closed, RotatingTyped
<1>3. Past \in Int /\ Past <= Past /\ lines \in Nat /\ 0 \in 0..max_files_
  BY DEF RotatingTyped, Past
<1>4. ASSUME NEW n \in 0..Len(buffer), Write(n), Ended
      PROVE  Newest'
  <2>1. Past <= Past' /\ Hole' = -1
    BY <1>3, <1>4 DEF Ended, Past, Hole
  <2> QED
    BY <1>1, <1>4, <2>1, NewestWritten DEF Ended, options
<1>5. CASE Construct
  <2>1. /\ UNCHANGED <<max_files_, buffer, at, lines, unrenamed, reached>> /\ at = "idle"
        /\ file' = file \/ file' = [file EXCEPT ![0] = Content(0)]
    BY <1>5 DEF Construct, options, Open, OpenFails, RotatingTyped
  <2>2. \A i \in 0..max_files_ : Content(i)' = Content(i)
    <3>1. CASE file' = file
      BY <3>1 DEF Content
    <3>2. CASE file' = [file EXCEPT ![0] = Content(0)]
      <4>1. /\ file'[0] = Content(0) /\ Content(0) # Absent
            /\ \A i \in 0..max_files_ : i # 0 => file'[i] = file[i]
        BY <1>3, <3>2, ContentTyped, AbsentIsNoFile DEF RotatingTyped
      <4> QED
        BY <4>1 DEF Content
    <3> QED
      BY <2>1, <3>1, <3>2
  <2>3. Past' = Past /\ Hole' = -1
    BY <2>1 DEF Past, Hole
  <2> QED
    BY <1>1, <1>3, <2>1, <2>2, <2>3, NewestSame
<1>6. ASSUME NEW len \in Lengths, Log(len)
      PROVE  Newest'
  <2>1. /\ UNCHANGED <<max_files_, buffer, file, unrenamed, reached>> /\ at = "idle"
        /\ at' \in {"close", "put"} /\ lines' = lines + 1
    BY <1>6 DEF Log, options, object
  <2>2. Past <= Past' /\ Hole' = -1
    BY <1>3, <2>1 DEF Past, Hole
  <2>3. \A i \in 0..max_files_ : Content(i)' = Content(i)
    BY <2>1 DEF Content
  <2> QED
    BY <1>1, <2>1, <2>2, <2>3, NewestSame
<1>7. CASE CloseFile
  <2>1. PICK n \in Closed : Write(n)
    BY <1>7 DEF CloseFile
  <2>2. /\ UNCHANGED <<max_files_, lines, unrenamed>> /\ buffer' = <<>> /\ at = "close"
        /\ \/ at' = "remove"
           \/ at' = "open" /\ max_files_ = 0
    BY <1>7 DEF CloseFile, options, bounds
  <2>3. Past <= Past' /\ Hole' = -1
    BY <1>3, <2>2 DEF Past, Hole
  <2> QED
    BY <1>1, <1>2, <2>1, <2>2, <2>3, NewestWritten
<1>8. CASE flush
  <2>1. /\ Write(Len(buffer)) /\ buffer' = <<>> /\ UNCHANGED <<max_files_, lines, unrenamed, at>>
        /\ at = "idle"
    BY <1>8 DEF flush, options, control, bounds
  <2>2. Past <= Past' /\ Hole' = -1
    BY <1>3, <2>1 DEF Past, Hole
  <2> QED
    BY <1>1, <1>2, <2>1, <2>2, NewestWritten
<1>9. CASE Destroy
  BY <1>2, <1>4, <1>9 DEF Destroy
<1>10. CASE Kill
  BY <1>4, <1>10 DEF Kill
<1>11. CASE UNCHANGED vars
  <2>1. UNCHANGED <<max_files_, buffer, file, reached, unrenamed, lines, at, shift>>
    BY <1>11 DEF vars, options, object, control, bounds
  <2>2. Past' = Past /\ Hole' = Hole /\ \A i \in 0..max_files_ : Content(i)' = Content(i)
    BY <2>1 DEF Past, Hole, Content
  <2>3. ~unrenamed' /\ Hole' # -1 => file'[Hole'] = Absent
    BY <2>1, <2>2 DEF Newest
  <2> QED
    BY <1>1, <1>3, <2>1, <2>2, <2>3, NewestSame
<1> QED
  BY <1>1, <1>5, <1>6, <1>7, <1>8, <1>9, <1>10, <1>11, NewestOpen, NewestRemove, NewestRename, NewestPut
     DEF Next

LEMMA NewestSuffices ==
  ASSUME RotatingTyped, Newest
  PROVE  KeptIsNewest
<1>1. DOMAIN file = 0..max_files_ /\ max_files_ \in Nat /\ buffer \in Seq(Piece)
  BY DEF RotatingTyped
<1>2. ASSUME NEW i \in 0..max_files_, NEW j \in 0..max_files_, j < i,
             NEW older \in Ids(Pending(i)), NEW newer \in Ids(Pending(j))
      PROVE  older < newer
  <2>1. older \in Ids(Content(i)) /\ older \in reached
    <3>1. Pending(i) = Content(i)
      BY <1>1, <1>2 DEF Pending
    <3> QED
      BY <1>2, <3>1, KeptIdsAre DEF Newest
  <2>2. CASE newer \in Ids(Content(j))
    BY <1>2, <2>1, <2>2 DEF Newest
  <2>3. CASE newer \in Ids(buffer)
    BY <2>1, <2>3 DEF Newest
  <2>4. newer \in Ids(Content(j)) \/ newer \in Ids(buffer)
    <3>1. CASE j = 0
      BY <1>1, <1>2, <3>1, ContentTyped, IdsOfConcat DEF Pending
    <3>2. CASE j # 0
      BY <1>2, <3>2 DEF Pending
    <3> QED
      BY <3>1, <3>2
  <2> QED
    BY <2>2, <2>3, <2>4
<1> QED
  BY <1>1, <1>2 DEF Newest, KeptIsNewest

(* What SizeBounded follows from: current_size_ counts at least what a good
   stream has put in base_path, and a line is only put where there is room. *)
Fits(s) == max_bytes_ # 0 => Bytes(s) <= max_bytes_ \/ Len(s) = 1

Sized ==
  /\ stream = "good" => Bytes(Pending(0)) <= current_size_
  /\ at = "put" => ~MustRotate(line.len)
  /\ \A i \in 0..max_files_ : Fits(Pending(i))

LEMMA NothingBegins ==
  ASSUME NEW s \in Seq(Piece)
  PROVE  Begins(s, s) /\ Begins(<<>>, s) /\ <<>> \in Seq(Piece) /\ Bytes(<<>>) = 0
<1>1. <<>> \in Seq(Piece) /\ Len(<<>>) = 0 /\ Len(s) \in Nat
  BY EmptySeq
<1> QED
  BY <1>1, BytesOfNone DEF Begins

LEMMA PendingIsContent ==
  ASSUME RotatingTyped, buffer = <<>>, NEW i \in 0..max_files_
  PROVE  Pending(i) = Content(i)
<1>1. 0 \in 0..max_files_
  BY DEF RotatingTyped
<1> QED
  BY <1>1, ContentTyped, ConcatEmptySeq DEF Pending

\* What begins with something that fits, fits.
LEMMA FitsBeginning ==
  ASSUME RotatingTyped, max_bytes_' = max_bytes_,
         NEW s \in Seq(Piece), NEW t \in Seq(Piece), Begins(s, t), Fits(t)
  PROVE  Fits(s)'
<1>1. Bytes(s) <= Bytes(t) /\ Bytes(s) \in Nat /\ Bytes(t) \in Nat /\ max_bytes_ \in Nat
  BY BytesOfSome, BytesOfBeginning DEF RotatingTyped
<1>2. CASE Bytes(t) <= max_bytes_
  BY <1>1, <1>2 DEF Fits
<1>3. CASE Len(t) = 1
  <2>1. Len(s) \in Nat /\ (Len(s) = 1 \/ Len(s) = 0)
    BY <1>3 DEF Begins
  <2>2. Len(s) = 0 => Bytes(s) = 0
    BY <2>1, EmptySeq, BytesOfSome
  <2> QED
    BY <1>1, <2>1, <2>2 DEF Fits
<1> QED
  BY <1>2, <1>3 DEF Fits

\* The actions after which no file holds what none was going to hold.
LEMMA SizedBegins ==
  ASSUME RotatingTyped, RotatingTyped', Sized, UNCHANGED <<max_files_, max_bytes_>>,
         \A i \in 0..max_files_ : \E j \in 0..max_files_ : Begins(Pending(i)', Pending(j)),
         (stream = "good" => Bytes(Pending(0)) <= current_size_)',
         (at = "put" => ~MustRotate(line.len))'
  PROVE  Sized'
<1>1. ASSUME NEW i \in 0..max_files_ PROVE Fits(Pending(i))'
  <2>1. PICK j \in 0..max_files_ : Begins(Pending(i)', Pending(j))
    OBVIOUS
  <2>2. Pending(j) \in Seq(Piece) /\ Fits(Pending(j))
    BY ContentTyped DEF Sized
  <2>3. Pending(i)' \in Seq(Piece)
    <3>1. i \in 0..max_files_'
      OBVIOUS
    <3>2. 0 \in 0..max_files_'
      BY DEF RotatingTyped
    <3>3. Content(i)' \in Seq(Piece) /\ Content(0)' \in Seq(Piece) /\ buffer' \in Seq(Piece)
      BY <3>1, <3>2, EmptySeq DEF RotatingTyped, Content
    <3> QED
      BY <3>3, IdsOfConcat DEF Pending
  <2>4. PICK t : t = Pending(i)'
    OBVIOUS
  <2>5. Fits(t)'
    BY <2>1, <2>2, <2>3, <2>4, FitsBeginning
  <2> QED
    BY <2>4, <2>5 DEF Fits
<1> QED
  BY <1>1 DEF Sized

\* The part of the buffer that is written fits where all of it does.
LEMMA WritingBegins ==
  ASSUME RotatingTyped, RotatingTyped', NEW n \in 0..Len(buffer), Write(n), buffer' = <<>>,
         max_files_' = max_files_
  PROVE  /\ \A i \in 0..max_files_ : \E j \in 0..max_files_ : Begins(Pending(i)', Pending(j))
         /\ n = Len(buffer) => Pending(0)' = Pending(0)
<1>1. /\ \A i \in 1..max_files_ : Content(i)' = Content(i)
      /\ Begins(Content(0)', Pending(0))
      /\ n = Len(buffer) => Content(0)' = Pending(0)
  BY Writing
<1>2. max_files_ \in Nat /\ 0 \in 0..max_files_ /\ 0 \in 0..max_files_'
  BY DEF RotatingTyped
<1>3. Pending(0)' = Content(0)'
  <2>1. Content(0)' \in Seq(Piece)
    BY <1>2, EmptySeq DEF RotatingTyped, Content
  <2> QED
    BY <2>1, ConcatEmptySeq DEF Pending
<1>4. ASSUME NEW i \in 1..max_files_ PROVE Pending(i)' = Pending(i) /\ Begins(Pending(i), Pending(i))
  <2>1. i # 0 /\ i \in 0..max_files_
    BY <1>2
  <2> QED
    BY <1>1, <2>1, ContentTyped, NothingBegins DEF Pending
<1>5. ASSUME NEW i \in 0..max_files_ PROVE \E j \in 0..max_files_ : Begins(Pending(i)', Pending(j))
  <2>1. i = 0 \/ i \in 1..max_files_
    BY <1>2
  <2> QED
    BY <1>1, <1>2, <1>3, <1>4, <2>1
<1> QED
  BY <1>1, <1>3, <1>5

LEMMA SizedInit == Init => Sized
<1> SUFFICES ASSUME Init PROVE Sized
  OBVIOUS
<1>1. RotatingTyped /\ max_bytes_ \in Nat
  BY RotatingTypedInit DEF RotatingTyped
<1>2. \A i \in 0..max_files_ : Pending(i) = <<>>
  BY <1>1, PendingIsContent DEF Init, Content, RotatingTyped
<1> QED
  BY <1>1, <1>2, BytesOfNone DEF Init, Sized, Fits

LEMMA SizedStep ==
  ASSUME RotatingTyped, Sized, [Next]_vars
  PROVE  Sized'
<1>1. RotatingTyped'
  BY RotatingTypedStep
<1>2. /\ Closed \subseteq 0..Len(buffer) /\ Len(buffer) \in 0..Len(buffer)
      /\ stream = "good" => Closed = {Len(buffer)}
      /\ max_files_ \in Nat /\ 0 \in 0..max_files_ /\ current_size_ \in Nat
  BY DEF Closed, RotatingTyped
<1>3. \A i \in 0..max_files_ : Begins(Pending(i), Pending(i)) /\ Begins(<<>>, Pending(i))
  BY ContentTyped, NothingBegins
<1>4. ASSUME NEW n \in 0..Len(buffer), Write(n), Ended
      PROVE  Sized'
  <2>1. UNCHANGED <<max_files_, max_bytes_>> /\ buffer' = <<>> /\ stream' = "closed" /\ at' = "idle"
    BY <1>4 DEF Ended, options
  <2> QED
    BY <1>1, <1>4, <2>1, WritingBegins, SizedBegins
<1>5. CASE Construct
  <2>1. /\ UNCHANGED <<max_files_, max_bytes_, buffer, at>> /\ at = "idle" /\ buffer = <<>>
        /\ Open(FALSE) \/ (file' = file /\ stream' = "closed")
    BY <1>5 DEF Construct, options, OpenFails, RotatingTyped
  <2>2. \A i \in 0..max_files_ : Content(i)' = Content(i)
    <3>1. CASE file' = file
      BY <3>1 DEF Content
    <3>2. CASE Open(FALSE)
      <4>1. /\ file'[0] = Content(0) /\ Content(0) # Absent
            /\ \A i \in 0..max_files_ : i # 0 => file'[i] = file[i]
        BY <1>2, <3>2, ContentTyped, AbsentIsNoFile DEF RotatingTyped, Open
      <4> QED
        BY <4>1 DEF Content
    <3> QED
      BY <2>1, <3>1, <3>2
  <2>3. \A i \in 0..max_files_ : Pending(i)' = Pending(i)
    BY <2>1, <2>2 DEF RotatingTyped, Pending
  <2>4. stream' = "good" => Bytes(Pending(0))' <= current_size_'
    <3>1. SUFFICES ASSUME stream' = "good" PROVE Bytes(Pending(0))' <= current_size_'
      OBVIOUS
    <3>2. current_size_' = Bytes(Content(0))
      BY <2>1, <3>1 DEF Open, SizeOnOpen
    <3>3. Pending(0)' = Content(0)
      BY <1>2, <2>1, <2>3, PendingIsContent
    <3>4. Bytes(Content(0)) \in Nat
      BY <1>2, ContentTyped, BytesOfSome
    <3> QED
      BY <3>2, <3>3, <3>4
  <2> QED
    BY <1>1, <1>3, <2>1, <2>3, <2>4, SizedBegins
<1>6. ASSUME NEW len \in Lengths, Log(len)
      PROVE  Sized'
  <2>1. /\ UNCHANGED <<max_files_, max_bytes_, current_size_, buffer, file, stream>>
        /\ at' = "put" => ~MustRotate(len) /\ line'.len = len
    BY <1>6 DEF Log, options, object
  <2>2. \A i \in 0..max_files_ : Pending(i)' = Pending(i)
    BY <2>1 DEF Content, Pending
  <2>3. (at = "put" => ~MustRotate(line.len))'
    BY <2>1 DEF MustRotate
  <2>4. (stream = "good" => Bytes(Pending(0)) <= current_size_)'
    BY <1>2, <2>1, <2>2 DEF Sized
  <2> QED
    BY <1>1, <1>3, <2>1, <2>2, <2>3, <2>4, SizedBegins
<1>7. CASE CloseFile
  <2>1. PICK n \in Closed : Write(n)
    BY <1>7 DEF CloseFile
  <2>2. UNCHANGED <<max_files_, max_bytes_, stream, current_size_>> /\ buffer' = <<>> /\ at' # "put"
    BY <1>7 DEF CloseFile, options
  <2>3. (stream = "good" => Bytes(Pending(0)) <= current_size_)'
    BY <1>1, <1>2, <2>1, <2>2, WritingBegins DEF Sized
  <2>4. \A i \in 0..max_files_ : \E j \in 0..max_files_ : Begins(Pending(i)', Pending(j))
    BY <1>1, <1>2, <2>1, <2>2, WritingBegins
  <2> QED
    BY <1>1, <2>2, <2>3, <2>4, SizedBegins
<1>8. CASE flush
  <2>1. /\ Write(Len(buffer)) /\ buffer' = <<>> /\ at' = "idle"
        /\ UNCHANGED <<max_files_, max_bytes_, stream, current_size_>>
    BY <1>8 DEF flush, options, control
  <2>2. Pending(0)' = Pending(0)
    BY <1>1, <1>2, <2>1, WritingBegins
  <2>3. (stream = "good" => Bytes(Pending(0)) <= current_size_)'
    BY <2>1, <2>2 DEF Sized
  <2>4. \A i \in 0..max_files_ : \E j \in 0..max_files_ : Begins(Pending(i)', Pending(j))
    BY <1>1, <1>2, <2>1, WritingBegins
  <2> QED
    BY <1>1, <2>1, <2>3, <2>4, SizedBegins
<1>9. CASE RemoveOldest
  <2>1. /\ UNCHANGED <<max_files_, max_bytes_, stream, buffer, current_size_>>
        /\ at' = "rename" /\ max_files_ > 0 /\ buffer = <<>>
    BY <1>9 DEF RemoveOldest, options, object, RotatingTyped
  <2>2. \A i \in 0..max_files_ : Content(i)' = IF i = max_files_ THEN <<>> ELSE Content(i)
    BY <1>9 DEF RemoveOldest, Content, RotatingTyped
  <2>3. \A i \in 0..max_files_ : Pending(i)' = Content(i)' /\ Pending(i) = Content(i)
    <3>1. \A i \in 0..max_files_ : Pending(i) = Content(i) /\ Content(i) \in Seq(Piece)
      BY <2>1, PendingIsContent, ContentTyped
    <3>2. \A i \in 0..max_files_ : Content(i)' \in Seq(Piece)
      BY <2>2, <3>1, EmptySeq
    <3> QED
      BY <1>2, <2>1, <3>1, <3>2, ConcatEmptySeq DEF Pending
  <2>4. \A i \in 0..max_files_ : \E j \in 0..max_files_ : Begins(Pending(i)', Pending(j))
    BY <1>3, <2>2, <2>3
  <2>5. Pending(0)' = Pending(0)
    BY <1>2, <2>1, <2>2, <2>3
  <2>6. (stream = "good" => Bytes(Pending(0)) <= current_size_)'
    BY <2>1, <2>5 DEF Sized
  <2> QED
    BY <1>1, <2>1, <2>4, <2>6, SizedBegins
<1>10. CASE Rename
  <2>1. /\ UNCHANGED <<max_files_, max_bytes_, stream, buffer, current_size_>>
        /\ at' \in {"rename", "open"} /\ max_files_ > 0 /\ buffer = <<>>
        /\ shift \in 0..max_files_ - 1 /\ shift \in 0..max_files_ /\ shift + 1 \in 1..max_files_
    BY <1>10 DEF Rename, options, object, RotatingTyped
  <2>2. \A i \in 0..max_files_ :
          Content(i)' \in {Content(i), <<>>} \/ (i = shift + 1 /\ Content(i)' = Content(shift))
    <3>1. CASE file' = file
      BY <3>1 DEF Content
    <3>2. CASE file' = [file EXCEPT ![shift + 1] = file[shift], ![shift] = Absent]
      <4>1. /\ file'[shift + 1] = file[shift] /\ file'[shift] = Absent
            /\ \A i \in 0..max_files_ : i # shift /\ i # shift + 1 => file'[i] = file[i]
        BY <1>2, <2>1, <3>2 DEF RotatingTyped
      <4> QED
        BY <4>1 DEF Content
    <3> QED
      BY <1>10, <3>1, <3>2 DEF Rename
  <2>3. \A i \in 0..max_files_ : Pending(i)' = Content(i)' /\ Pending(i) = Content(i)
    <3>1. \A i \in 0..max_files_ : Pending(i) = Content(i) /\ Content(i) \in Seq(Piece)
      BY <2>1, PendingIsContent, ContentTyped
    <3>2. \A i \in 0..max_files_ : Content(i)' \in Seq(Piece)
      BY <2>1, <2>2, <3>1, EmptySeq
    <3> QED
      BY <1>2, <2>1, <3>1, <3>2, ConcatEmptySeq DEF Pending
  <2>4. \A i \in 0..max_files_ : \E j \in 0..max_files_ : Begins(Pending(i)', Pending(j))
    BY <1>3, <2>1, <2>2, <2>3
  <2>5. Pending(0)' = Pending(0) \/ Pending(0)' = <<>>
    BY <1>2, <2>1, <2>2, <2>3
  <2>6. Bytes(<<>>) <= current_size_
    BY <1>2, BytesOfNone
  <2>7. (stream = "good" => Bytes(Pending(0)) <= current_size_)'
    BY <2>1, <2>5, <2>6 DEF Sized
  <2> QED
    BY <1>1, <2>1, <2>4, <2>7, SizedBegins
<1>11. CASE Reopen
  <2>1. /\ UNCHANGED <<max_files_, max_bytes_, buffer>> /\ buffer = <<>> /\ current_size_' = 0
        /\ Open(TRUE) \/ (file' = file /\ stream' = "closed")
    BY <1>11 DEF Reopen, options, Open, OpenFails, SizeOnOpen, RotatingTyped
  <2>2. \A i \in 0..max_files_ : Content(i)' = Content(i) \/ Content(i)' = <<>>
    BY <2>1 DEF Open, Content, RotatingTyped
  <2>3. \A i \in 0..max_files_ : Pending(i)' = Content(i)' /\ Pending(i) = Content(i)
    <3>1. \A i \in 0..max_files_ : Pending(i) = Content(i) /\ Content(i) \in Seq(Piece)
      BY <2>1, PendingIsContent, ContentTyped
    <3>2. \A i \in 0..max_files_ : Content(i)' \in Seq(Piece)
      BY <2>2, <3>1, EmptySeq
    <3> QED
      BY <1>2, <2>1, <3>1, <3>2, ConcatEmptySeq DEF Pending
  <2>4. \A i \in 0..max_files_ : \E j \in 0..max_files_ : Begins(Pending(i)', Pending(j))
    BY <1>3, <2>2, <2>3
  <2>5. (stream = "good" => Bytes(Pending(0)) <= current_size_)'
    <3>1. SUFFICES ASSUME stream' = "good" PROVE Bytes(Pending(0)') <= current_size_'
      OBVIOUS
    <3>2. file'[0] = <<>>
      BY <1>2, <2>1, <3>1 DEF Open, RotatingTyped
    <3>3. Pending(0)' = <<>>
      BY <1>2, <2>3, <3>2 DEF Content
    <3> QED
      BY <2>1, <3>3, BytesOfNone
  <2>6. (at = "put" => ~MustRotate(line.len))'
    BY <2>1 DEF MustRotate
  <2> QED
    BY <1>1, <2>1, <2>4, <2>5, <2>6, SizedBegins
<1>12. CASE Put
  <2>1. /\ UNCHANGED <<max_files_, max_bytes_, file>> /\ at = "put" /\ at' = "idle"
        /\ current_size_' = current_size_ + line.len
        /\ \/ stream = "good" /\ stream' = "good" /\ buffer' = Append(buffer, line)
           \/ stream' # "good" /\ buffer' = buffer
    BY <1>12 DEF Put, options
  <2>2. line \in Piece /\ line.len \in Nat \ {0} /\ Pending(0) \in Seq(Piece)
    BY <1>2, <2>1, ContentTyped DEF RotatingTyped, Piece
  <2>3. CASE stream' # "good" /\ buffer' = buffer
    <3>1. \A i \in 0..max_files_ : Pending(i)' = Pending(i)
      BY <2>1, <2>3 DEF Content, Pending
    <3> QED
      BY <1>1, <1>3, <2>1, <2>3, <3>1, SizedBegins
  <2>4. CASE stream = "good" /\ buffer' = Append(buffer, line)
    <3>1. Pending(0)' = Append(Pending(0), line)
      BY <1>12, <2>4, Putting
    <3>2. /\ Bytes(Pending(0)') = Bytes(Pending(0)) + line.len
          /\ Len(Pending(0)') = Len(Pending(0)) + 1
          /\ Bytes(Pending(0)) \in Nat
          /\ Bytes(Pending(0)) = 0 => Pending(0) = <<>>
      <4>1. /\ Bytes(Append(Pending(0), line)) = Bytes(Pending(0)) + line.len
            /\ Len(Append(Pending(0), line)) = Len(Pending(0)) + 1
        BY <2>2, BytesOfAppend, AppendProperties
      <4>2. Bytes(Pending(0)) \in Nat /\ (Bytes(Pending(0)) = 0 => Pending(0) = <<>>)
        BY <2>2, BytesOfSome
      <4> QED
        BY <3>1, <4>1, <4>2
    <3>3. Bytes(Pending(0)) <= current_size_
      BY <2>4 DEF Sized
    <3>4. max_bytes_ # 0 => Bytes(Pending(0)') <= max_bytes_ \/ Len(Pending(0)') = 1
      <4>1. ~MustRotate(line.len) /\ max_bytes_ \in Nat
        BY <2>1 DEF Sized, RotatingTyped
      <4>2. CASE current_size_ = 0
        <5>1. Pending(0) = <<>>
          BY <3>2, <3>3, <4>2
        <5>2. Len(Pending(0)) = 0
          BY <5>1
        <5>3. Len(Pending(0)) + 1 = 1
          BY <5>2
        <5> QED
          BY <3>2, <5>3, Zenon
      <4>3. CASE current_size_ > 0
        BY <1>2, <2>2, <3>2, <3>3, <4>1, <4>3 DEF MustRotate
      <4> QED
        BY <1>2, <4>2, <4>3
    <3>5. ASSUME NEW i \in 0..max_files_ PROVE Fits(Pending(i))'
      <4>1. CASE i = 0
        BY <2>1, <3>4, <4>1 DEF Fits
      <4>2. CASE i # 0
        <5>1. Pending(i)' = Pending(i)
          BY <2>1, <4>2 DEF Pending, Content
        <5> QED
          BY <2>1, <5>1 DEF Sized, Fits
      <4> QED
        BY <4>1, <4>2
    <3>6. Bytes(Pending(0)') <= current_size_'
      BY <1>2, <2>1, <2>2, <3>2, <3>3
    <3> QED
      BY <2>1, <3>5, <3>6 DEF Sized
  <2> QED
    BY <2>1, <2>3, <2>4
<1>13. CASE Destroy
  BY <1>2, <1>4, <1>13 DEF Destroy
<1>14. CASE Kill
  BY <1>4, <1>14 DEF Kill
<1>15. CASE UNCHANGED vars
  BY <1>15 DEF vars, options, object, control, Sized, Fits, Pending, Content, MustRotate
<1> QED
  BY <1>5, <1>6, <1>7, <1>8, <1>9, <1>10, <1>11, <1>12, <1>13, <1>14, <1>15 DEF Next

LEMMA SizedSuffices ==
  ASSUME RotatingTyped, Sized
  PROVE  SizeBounded
BY DEF RotatingTyped, Sized, Fits, SizeBounded

(* What DiscardsWhenFull follows from.  Without a failure and a kill, the
   files have no gap but the name that rotate() has made free.             *)
Gapless ==
  crashes + faults = 0 =>
    /\ ~unrenamed
    /\ running /\ Hole # 0 => file[0] # Absent
    /\ \A i, j \in 0..max_files_ : j < i /\ j # Hole /\ file[i] # Absent => file[j] # Absent
    /\ \/ reached \subseteq KeptIds
       \/ \A i \in 1..max_files_ : i # Hole => file[i] # Absent

LEMMA GaplessInit == Init => Gapless
<1> SUFFICES ASSUME Init PROVE Gapless
  OBVIOUS
<1> QED
  BY DEF Init, Gapless

\* What is written is kept.
LEMMA WritingKeeps ==
  ASSUME RotatingTyped, RotatingTyped', NEW n \in 0..Len(buffer), Write(n), max_files_' = max_files_,
         reached \subseteq KeptIds
  PROVE  (reached \subseteq KeptIds)'
<1>1. /\ \A i \in 1..max_files_ : Content(i)' = Content(i)
      /\ SubSeq(buffer, 1, n) \in Seq(Piece)
      /\ reached' = reached \cup Ids(SubSeq(buffer, 1, n))
      /\ Content(0)' = Content(0) \o SubSeq(buffer, 1, n)
  BY Writing
<1>2. max_files_ \in Nat /\ 0 \in 0..max_files_ /\ Content(0) \in Seq(Piece)
  BY ContentTyped DEF RotatingTyped
<1>3. Ids(Content(0))' = Ids(Content(0)) \cup Ids(SubSeq(buffer, 1, n))
  BY <1>1, <1>2, IdsOfConcat
<1>4. \A i \in 0..max_files_ : Ids(Content(i)) \subseteq Ids(Content(i))'
  <2>1. ASSUME NEW i \in 0..max_files_ PROVE Ids(Content(i)) \subseteq Ids(Content(i))'
    <3>1. i = 0 \/ i \in 1..max_files_
      BY <1>2
    <3> QED
      BY <1>1, <1>3, <3>1
  <2> QED
    BY <2>1
<1>5. DOMAIN file = 0..max_files_ /\ DOMAIN file' = 0..max_files_
  BY DEF RotatingTyped
<1>6. KeptIds \subseteq KeptIds'
  BY <1>4, <1>5 DEF KeptIds
<1>7. Ids(SubSeq(buffer, 1, n)) \subseteq KeptIds'
  BY <1>2, <1>3, <1>5 DEF KeptIds
<1> QED
  BY <1>1, <1>6, <1>7

LEMMA GaplessWritten ==
  ASSUME RotatingTyped, RotatingTyped', Gapless, NEW n \in 0..Len(buffer), Write(n),
         UNCHANGED <<max_files_, faults, unrenamed>>, crashes' = crashes, Hole = -1, Hole' = -1,
         running' => running
  PROVE  Gapless'
<1>1. /\ \A i \in 1..max_files_ : file'[i] = file[i]
      /\ file[0] # Absent => file'[0] # Absent
      /\ max_files_ \in Nat
  BY Writing DEF RotatingTyped
<1>2. SUFFICES ASSUME crashes + faults = 0 PROVE Gapless'
  BY DEF Gapless
<1>3. ASSUME NEW i \in 0..max_files_, NEW j \in 0..max_files_, j < i, file'[i] # Absent
      PROVE  file'[j] # Absent
  <2>1. i \in 1..max_files_ /\ (j = 0 \/ j \in 1..max_files_)
    BY <1>1, <1>3
  <2>2. file[j] # Absent
    BY <1>1, <1>2, <1>3, <2>1 DEF Gapless
  <2> QED
    BY <1>1, <2>1, <2>2
<1>4. \/ (reached \subseteq KeptIds)'
      \/ \A i \in 1..max_files_ : file'[i] # Absent
  BY <1>1, <1>2, WritingKeeps DEF Gapless
<1> QED
  BY <1>1, <1>2, <1>3, <1>4 DEF Gapless

LEMMA GaplessSame ==
  ASSUME RotatingTyped, RotatingTyped', Gapless,
         UNCHANGED <<max_files_, faults, crashes, unrenamed, reached>>, Hole = -1, Hole' = -1,
         \A i \in 0..max_files_ : Content(i)' = Content(i),
         \A i \in 0..max_files_ : i # 0 => file'[i] = file[i],
         running \/ file'[0] # Absent, file[0] # Absent => file'[0] # Absent
  PROVE  Gapless'
<1>1. SUFFICES ASSUME crashes + faults = 0 PROVE Gapless'
  BY DEF Gapless
<1>2. KeptIds' = KeptIds
  <2>1. DOMAIN file = 0..max_files_ /\ DOMAIN file' = 0..max_files_
    BY DEF RotatingTyped
  <2> QED
    BY <2>1 DEF KeptIds
<1>3. max_files_ \in Nat /\ \A i \in 1..max_files_ : i # 0 /\ i \in 0..max_files_
  BY DEF RotatingTyped
<1>4. \A i \in 0..max_files_ : file[i] # Absent => file'[i] # Absent
  OBVIOUS
<1>5. \A i, j \in 0..max_files_ : j < i /\ file'[i] # Absent => file'[j] # Absent
  BY <1>1, <1>3, <1>4 DEF Gapless
<1>6. running' => file'[0] # Absent
  BY <1>1, <1>3 DEF Gapless
<1> QED
  BY <1>1, <1>2, <1>3, <1>4, <1>5, <1>6 DEF Gapless

LEMMA GaplessRemove ==
  ASSUME RotatingTyped, RotatingTyped', Gapless, RemoveOldest
  PROVE  Gapless'
<1>1. /\ UNCHANGED <<max_files_, running, crashes, faults, unrenamed, reached>>
      /\ at = "remove" /\ at' = "rename" /\ shift' = max_files_ - 1 /\ running
      /\ max_files_ \in Nat /\ max_files_ > 0 /\ 0 \in 0..max_files_ /\ max_files_ \in 0..max_files_
  BY DEF RemoveOldest, options, bounds, RotatingTyped
<1>2. Hole = -1 /\ Hole' = max_files_
  BY <1>1 DEF Hole
<1>3. /\ file'[max_files_] = Absent
      /\ \A i \in 0..max_files_ : i # max_files_ => file'[i] = file[i]
  BY <1>1 DEF RemoveOldest, RotatingTyped
<1>4. SUFFICES ASSUME crashes + faults = 0 PROVE Gapless'
  BY <1>1 DEF Gapless
<1>5. /\ file[0] # Absent
      /\ \A i, j \in 0..max_files_ : j < i /\ file[i] # Absent => file[j] # Absent
  BY <1>1, <1>2, <1>4 DEF Gapless
<1>6. file'[0] # Absent
  BY <1>1, <1>3, <1>5
<1>7. \A i, j \in 0..max_files_ : j < i /\ j # max_files_ /\ file'[i] # Absent => file'[j] # Absent
  BY <1>1, <1>3, <1>5
<1>8. (reached \subseteq KeptIds)' \/ \A i \in 1..max_files_ : i # max_files_ => file'[i] # Absent
  <2>1. CASE file[max_files_] # Absent
    BY <1>1, <1>3, <1>5, <2>1
  <2>2. CASE file[max_files_] = Absent
    <3>1. \A i \in 0..max_files_ : file'[i] = file[i]
      BY <1>3, <2>2
    <3>2. DOMAIN file = 0..max_files_ /\ DOMAIN file' = 0..max_files_
      BY <1>1 DEF RotatingTyped
    <3>3. KeptIds' = KeptIds
      BY <3>1, <3>2 DEF KeptIds, Content
    <3> QED
      BY <1>1, <1>2, <1>4, <2>2, <3>1, <3>3 DEF Gapless
  <2> QED
    BY <2>1, <2>2
<1> QED
  BY <1>1, <1>2, <1>4, <1>6, <1>7, <1>8 DEF Gapless

LEMMA GaplessRename ==
  ASSUME RotatingTyped, RotatingTyped', Newest, Gapless, Rename
  PROVE  Gapless'
<1>1. /\ UNCHANGED <<max_files_, running, crashes, reached>> /\ running
      /\ at = "rename" /\ max_files_ \in Nat /\ max_files_ > 0
      /\ shift \in 0..max_files_ - 1 /\ shift \in 0..max_files_ /\ shift + 1 \in 1..max_files_
      /\ shift + 1 \in 0..max_files_ /\ 0 \in 0..max_files_ /\ crashes \in Nat /\ faults \in Nat
      /\ \/ shift = 0 /\ at' = "open"
         \/ shift # 0 /\ at' = "rename" /\ shift' = shift - 1
  <2>1. /\ UNCHANGED <<max_files_, running, crashes, reached>> /\ running /\ at = "rename"
        /\ IF shift = 0 THEN at' = "open" /\ UNCHANGED shift
                        ELSE shift' = shift - 1 /\ UNCHANGED at
    BY DEF Rename, options
  <2>2. max_files_ \in Nat /\ max_files_ > 0 /\ shift \in 0..max_files_ - 1 /\ crashes \in Nat /\ faults \in Nat
    BY <2>1 DEF RotatingTyped
  <2> QED
    BY <2>1, <2>2
<1>2. Hole = shift + 1 /\ Hole' = shift
  BY <1>1 DEF Hole
<1>3. faults' = faults + 1 \/ (UNCHANGED <<faults, unrenamed>> /\ file' = IF file[shift] = Absent THEN file
                   ELSE [file EXCEPT ![shift + 1] = file[shift], ![shift] = Absent])
  BY DEF Rename, Fault
<1>4. CASE faults' = faults + 1
  BY <1>1, <1>4 DEF Gapless
<1>5. CASE /\ UNCHANGED <<faults, unrenamed>>
           /\ file' = IF file[shift] = Absent THEN file
                      ELSE [file EXCEPT ![shift + 1] = file[shift], ![shift] = Absent]
  <2>1. SUFFICES ASSUME crashes + faults = 0 PROVE Gapless'
    BY <1>1, <1>5 DEF Gapless
  <2>2. /\ ~unrenamed /\ file[shift + 1] = Absent /\ file[0] # Absent
        /\ \A i, j \in 0..max_files_ : j < i /\ j # shift + 1 /\ file[i] # Absent => file[j] # Absent
        /\ reached \subseteq KeptIds \/ \A i \in 1..max_files_ : i # shift + 1 => file[i] # Absent
    <3>1. ~unrenamed
      BY <2>1 DEF Gapless
    <3>2. file[shift + 1] = Absent
      BY <1>1, <1>2, <3>1 DEF Newest
    <3>3. Hole # 0
      BY <1>1, <1>2
    <3> QED
      BY <1>1, <1>2, <2>1, <3>1, <3>2, <3>3 DEF Gapless
  <2>3. DOMAIN file = 0..max_files_ /\ DOMAIN file' = 0..max_files_
    BY <1>1 DEF RotatingTyped
  <2>4. CASE file[shift] = Absent
    <3>1. shift # 0 /\ shift \in 1..max_files_ /\ shift # shift + 1
      BY <1>1, <2>2, <2>4
    <3>2. file' = file /\ KeptIds' = KeptIds
      BY <1>5, <2>4 DEF KeptIds, Content
    <3>3. \A i, j \in 0..max_files_ : j < i /\ j # shift /\ file[i] # Absent => file[j] # Absent
      <4>1. SUFFICES ASSUME NEW i \in 0..max_files_, i > shift + 1, file[i] # Absent PROVE FALSE
        BY <2>2
      <4> QED
        BY <1>1, <2>2, <2>4, <4>1
    <3>4. reached \subseteq KeptIds
      BY <2>2, <2>4, <3>1
    <3>5. ~unrenamed' /\ file'[0] # Absent /\ (reached \subseteq KeptIds)'
      BY <1>1, <1>5, <2>2, <3>2, <3>4
    <3>6. \A i, j \in 0..max_files_ : j < i /\ j # Hole' /\ file'[i] # Absent => file'[j] # Absent
      BY <1>2, <3>2, <3>3
    <3> QED
      BY <1>1, <3>5, <3>6 DEF Gapless
  <2>5. CASE file[shift] # Absent
    <3>1. /\ file'[shift + 1] = file[shift] /\ file'[shift] = Absent
          /\ \A i \in 0..max_files_ : i # shift /\ i # shift + 1 => file'[i] = file[i]
      <4>1. file \in [0..max_files_ -> Seq(Piece) \cup {Absent}]
        BY DEF RotatingTyped
      <4> QED
        BY <1>1, <1>5, <2>5, <4>1
    <3>2. shift # 0 => file'[0] # Absent
      BY <1>1, <2>2, <3>1
    <3>3. ASSUME NEW i \in 0..max_files_, NEW j \in 0..max_files_, j < i, j # shift, file'[i] # Absent
          PROVE  file'[j] # Absent
      <4>1. CASE j = shift + 1
        BY <2>5, <3>1, <4>1
      <4>2. CASE j # shift + 1
        <5>1. CASE i = shift + 1
          BY <1>1, <2>2, <2>5, <3>1, <3>3, <4>2, <5>1
        <5>2. CASE i # shift + 1
          BY <1>1, <2>2, <3>1, <3>3, <4>2, <5>2
        <5> QED
          BY <5>1, <5>2
      <4> QED
        BY <4>1, <4>2
    <3>4. (reached \subseteq KeptIds)' \/ \A i \in 1..max_files_ : i # shift => file'[i] # Absent
      <4>1. CASE reached \subseteq KeptIds
        <5>1. ASSUME NEW i \in 0..max_files_
              PROVE  \E j \in 0..max_files_ : Content(i) = <<>> \/ Content(i) = Content(j)'
          <6>1. CASE i = shift + 1
            BY <2>2, <6>1 DEF Content
          <6>2. CASE i = shift
            <7>1. PICK j \in 0..max_files_ : j = shift + 1
              BY <1>1
            <7> QED
              BY <3>1, <6>2, <7>1 DEF Content
          <6>3. CASE i # shift /\ i # shift + 1
            BY <3>1, <6>3 DEF Content
          <6> QED
            BY <6>1, <6>2, <6>3
        <5>2. KeptIds \subseteq KeptIds'
          BY <2>3, <5>1, IdsOfNone DEF KeptIds
        <5> QED
          BY <1>1, <4>1, <5>2
      <4>2. CASE \A i \in 1..max_files_ : i # shift + 1 => file[i] # Absent
        <5>1. ASSUME NEW i \in 1..max_files_, i # shift PROVE file'[i] # Absent
          BY <1>1, <2>5, <3>1, <4>2, <5>1
        <5> QED
          BY <5>1
      <4> QED
        BY <2>2, <4>1, <4>2
    <3> QED
      BY <1>1, <1>2, <1>5, <2>1, <2>2, <3>2, <3>3, <3>4, ZenonT(30) DEF Gapless
  <2> QED
    BY <2>4, <2>5
<1> QED
  BY <1>3, <1>4, <1>5

LEMMA GaplessOpen ==
  ASSUME RotatingTyped, RotatingTyped', Newest, Gapless, Reopen
  PROVE  Gapless'
<1>1. /\ UNCHANGED <<max_files_, running, crashes, unrenamed, reached>> /\ running
      /\ at = "open" /\ at' = "put" /\ max_files_ \in Nat /\ 0 \in 0..max_files_
      /\ crashes \in Nat /\ faults \in Nat
  BY DEF Reopen, options, RotatingTyped
<1>2. Hole = (IF max_files_ > 0 THEN 0 ELSE -1) /\ Hole' = -1
  BY <1>1 DEF Hole
<1>3. Open(TRUE) \/ faults' = faults + 1
  BY DEF Reopen, OpenFails, Fault
<1>4. CASE faults' = faults + 1
  BY <1>1, <1>4 DEF Gapless
<1>5. CASE Open(TRUE)
  <2>1. /\ file'[0] = <<>> /\ faults' = faults
        /\ \A i \in 0..max_files_ : i # 0 => file'[i] = file[i]
    BY <1>1, <1>5 DEF Open, RotatingTyped
  <2>2. file'[0] # Absent
    BY <2>1, EmptySeq, AbsentIsNoFile
  <2>3. SUFFICES ASSUME crashes + faults = 0 PROVE Gapless'
    BY <1>1, <2>1 DEF Gapless
  <2>4. CASE max_files_ = 0
    <3>1. \A i \in 0..max_files_ : i = 0
      BY <2>4
    <3> QED
      BY <1>1, <1>2, <2>1, <2>2, <2>3, <2>4, <3>1 DEF Gapless
  <2>5. CASE max_files_ > 0
    <3>1. file[0] = Absent
      <4>1. ~unrenamed /\ Hole = 0
        BY <1>2, <2>3, <2>5 DEF Gapless
      <4> QED
        BY <4>1 DEF Newest
    <3>2. \A i \in 0..max_files_ : Content(i)' = Content(i)
      BY <2>1, <2>2, <3>1 DEF Content
    <3>3. DOMAIN file = 0..max_files_ /\ DOMAIN file' = 0..max_files_
      BY <1>1 DEF RotatingTyped
    <3>4. KeptIds' = KeptIds
      BY <3>2, <3>3 DEF KeptIds
    <3>5. \A i, j \in 0..max_files_ : j < i /\ file'[i] # Absent => file'[j] # Absent
      <4>1. ASSUME NEW i \in 0..max_files_, NEW j \in 0..max_files_, j < i, j # 0, file'[i] # Absent
            PROVE  file'[j] # Absent
        <5>1. i # 0 /\ file[i] # Absent
          BY <1>1, <2>1, <4>1
        <5>2. file[j] # Absent
          BY <1>2, <2>3, <2>5, <4>1, <5>1 DEF Gapless
        <5> QED
          BY <2>1, <4>1, <5>2
      <4> QED
        BY <2>2, <4>1
    <3>6. (reached \subseteq KeptIds)' \/ \A i \in 1..max_files_ : file'[i] # Absent
      <4>1. \A i \in 1..max_files_ : i # 0 /\ i \in 0..max_files_
        BY <1>1
      <4> QED
        BY <1>1, <1>2, <2>1, <2>3, <2>5, <3>4, <4>1 DEF Gapless
    <3> QED
      BY <1>1, <1>2, <2>1, <2>2, <2>3, <3>5, <3>6 DEF Gapless
  <2> QED
    BY <1>1, <2>4, <2>5
<1> QED
  BY <1>3, <1>4, <1>5

LEMMA GaplessStep ==
  ASSUME RotatingTyped, Newest, Gapless, [Next]_vars
  PROVE  Gapless'
<1>1. RotatingTyped'
  BY RotatingTypedStep
<1>2. /\ Closed \subseteq 0..Len(buffer) /\ Len(buffer) \in 0..Len(buffer)
      /\ crashes \in Nat /\ faults \in Nat /\ max_files_ \in Nat /\ 0 \in 0..max_files_
  BY DEF Closed, RotatingTyped
<1>3. CASE Construct
  <2>1. /\ UNCHANGED <<max_files_, crashes, unrenamed, reached, at>> /\ at = "idle"
        /\ Open(FALSE) \/ faults' = faults + 1
    BY <1>3 DEF Construct, options, OpenFails, Fault, RotatingTyped
  <2>2. Hole = -1 /\ Hole' = -1
    BY <2>1 DEF Hole
  <2>3. CASE faults' = faults + 1
    BY <1>2, <2>1, <2>3 DEF Gapless
  <2>4. CASE Open(FALSE)
    <3>1. /\ file'[0] = Content(0) /\ Content(0) # Absent /\ faults' = faults
          /\ \A i \in 0..max_files_ : i # 0 => file'[i] = file[i]
      BY <1>2, <2>4, ContentTyped, AbsentIsNoFile DEF RotatingTyped, Open
    <3>2. \A i \in 0..max_files_ : Content(i)' = Content(i)
      BY <3>1 DEF Content
    <3> QED
      BY <1>1, <2>1, <2>2, <3>1, <3>2, GaplessSame
  <2> QED
    BY <2>1, <2>3, <2>4
<1>4. ASSUME NEW len \in Lengths, Log(len)
      PROVE  Gapless'
  <2>1. /\ UNCHANGED <<max_files_, faults, crashes, unrenamed, reached, file>> /\ running
        /\ at = "idle" /\ at' \in {"close", "put"}
    BY <1>4 DEF Log, options
  <2>2. Hole = -1 /\ Hole' = -1 /\ \A i \in 0..max_files_ : Content(i)' = Content(i)
    BY <2>1 DEF Hole, Content
  <2> QED
    BY <1>1, <2>1, <2>2, GaplessSame
<1>5. CASE CloseFile
  <2>1. PICK n \in Closed : Write(n)
    BY <1>5 DEF CloseFile
  <2>2. /\ UNCHANGED <<max_files_, faults, crashes, unrenamed, running>> /\ at = "close"
        /\ \/ at' = "remove"
           \/ at' = "open" /\ max_files_ = 0
    BY <1>5 DEF CloseFile, options, bounds
  <2>3. Hole = -1 /\ Hole' = -1
    BY <2>2 DEF Hole
  <2> QED
    BY <1>1, <1>2, <2>1, <2>2, <2>3, GaplessWritten
<1>6. CASE flush
  <2>1. /\ Write(Len(buffer)) /\ at = "idle" /\ at' = "idle"
        /\ UNCHANGED <<max_files_, faults, crashes, unrenamed, running>>
    BY <1>6 DEF flush, options, bounds, control
  <2>2. Hole = -1 /\ Hole' = -1
    BY <2>1 DEF Hole
  <2> QED
    BY <1>1, <1>2, <2>1, <2>2, GaplessWritten
<1>7. CASE Destroy
  <2>1. PICK n \in Closed : Write(n)
    BY <1>7 DEF Destroy
  <2>2. /\ at = "idle" /\ at' = "idle" /\ UNCHANGED <<max_files_, faults, crashes, unrenamed>> /\ running
    BY <1>7 DEF Destroy, Ended, options
  <2>3. Hole = -1 /\ Hole' = -1
    BY <2>2 DEF Hole
  <2> QED
    BY <1>1, <1>2, <2>1, <2>2, <2>3, GaplessWritten
<1>8. CASE Kill
  <2>1. crashes' = crashes + 1 /\ faults' = faults
    BY <1>8 DEF Kill, Ended
  <2> QED
    BY <1>2, <2>1 DEF Gapless
<1>9. CASE Put
  <2>1. /\ UNCHANGED <<max_files_, crashes, unrenamed, reached, file>> /\ running
        /\ at = "put" /\ at' = "idle"
        /\ faults' = faults \/ faults' = faults + 1
    BY <1>9 DEF Put, options, Fault
  <2>2. Hole = -1 /\ Hole' = -1 /\ \A i \in 0..max_files_ : Content(i)' = Content(i)
    BY <2>1 DEF Hole, Content
  <2>3. CASE faults' = faults
    BY <1>1, <2>1, <2>2, <2>3, GaplessSame
  <2>4. CASE faults' = faults + 1
    BY <1>2, <2>1, <2>4 DEF Gapless
  <2> QED
    BY <2>1, <2>3, <2>4
<1>10. CASE UNCHANGED vars
  BY <1>10 DEF vars, options, control, bounds, Gapless, KeptIds, Content, Hole
<1> QED
  BY <1>1, <1>3, <1>4, <1>5, <1>6, <1>7, <1>8, <1>9, <1>10, GaplessRemove, GaplessRename, GaplessOpen
     DEF Next

LEMMA GaplessSuffices ==
  ASSUME RotatingTyped, Gapless
  PROVE  DiscardsWhenFull
<1>1. SUFFICES ASSUME crashes + faults = 0, at = "idle" PROVE DiscardsWhenFull
  BY DEF RotatingTyped, DiscardsWhenFull
<1>2. Hole = -1
  BY <1>1 DEF Hole
<1> QED
  BY <1>1, <1>2 DEF Gapless, DiscardsWhenFull, RotatingTyped

-----------------------------------------------------------------------------
(* The three properties of the rotating sink, for every number of backups,
   every limit, every length of lines, and any kills and failures.         *)

RotatingInv == sink = "rotating" => RotatingTyped /\ Newest /\ Sized /\ Gapless

\* A behaviour is that of one sink.
LEMMA SinkStays == [MCNext]_all => sink' = sink
<1>1. Plain!Next => sink' = sink
  BY DEF Plain!Next, Plain!Construct, Plain!LogFile, Plain!LogMemory, Plain!NextLine, Plain!clear,
         Plain!flush, Plain!Destroy, Plain!Kill, Plain!Ended, Plain!Fwrite, Plain!Fputc
<1> QED
  BY <1>1 DEF MCNext, all

LEMMA RotatingAlways == MCSpec => []RotatingInv
<1>1. MCInit => RotatingInv
  BY RotatingTypedInit, NewestInit, SizedInit, GaplessInit DEF MCInit, RotatingInv, Daily!Init, Plain!Init
<1>2. RotatingInv /\ [MCNext]_all => RotatingInv'
  <2> SUFFICES ASSUME RotatingInv, [MCNext]_all, sink' = "rotating"
              PROVE  (RotatingTyped /\ Newest /\ Sized /\ Gapless)'
    BY DEF RotatingInv
  <2>1. sink = "rotating"
    BY SinkStays
  <2>2. [Next]_vars
    <3>1. UNCHANGED all => UNCHANGED vars
      BY DEF all, rotatingOnly, common, vars, options, object, control, bounds
    <3> QED
      BY <2>1, <3>1 DEF MCNext
  <2> QED
    BY <2>1, <2>2, RotatingTypedStep, NewestStep, SizedStep, GaplessStep DEF RotatingInv
<1> QED
  BY <1>1, <1>2, PTL DEF MCSpec

(* The files hold the newest lines, in order, whenever the process is killed
   and whatever fails: rotate() and the restart after it
   (rotating_file_sink.hpp:50-65).                                         *)
THEOREM RotatingCorrect == MCSpec => []RotatingKeepsNewest
<1>1. RotatingInv => RotatingKeepsNewest
  BY NewestSuffices DEF RotatingInv, RotatingKeepsNewest
<1> QED
  BY <1>1, RotatingAlways, PTL

(* No file is larger than max_bytes but with a single line: the check in
   log() is enough, whatever tellp() said after a restart or a failure
   (rotating_file_sink.hpp:28, 67-76).                                     *)
THEOREM RotatingSizeCorrect == MCSpec => []RotatingBoundsSize
<1>1. RotatingInv => RotatingBoundsSize
  BY SizedSuffices DEF RotatingInv, RotatingBoundsSize
<1> QED
  BY <1>1, RotatingAlways, PTL

(* A line goes only when every backup is there (rotating_file_sink.hpp:57-63). *)
THEOREM RotatingDiscardCorrect == MCSpec => []RotatingDiscardsWhenFull
<1>1. RotatingInv => RotatingDiscardsWhenFull
  BY GaplessSuffices DEF RotatingInv, RotatingDiscardsWhenFull
<1> QED
  BY <1>1, RotatingAlways, PTL

-----------------------------------------------------------------------------
(* The rotating sink is a log that is cut at its old end.                   *)

\* A stream that is not good is one that has failed, in this process.
Steady == crashes + faults = 0 /\ running => stream = "good"

LEMMA SteadyStep ==
  ASSUME RotatingTyped, Steady, [Next]_vars
  PROVE  /\ Steady'
         /\ (crashes + faults = 0)' => crashes + faults = 0
         /\ ~unrenamed' => ~unrenamed
<1>1. crashes \in Nat /\ faults \in Nat
  BY DEF RotatingTyped
<1>2. ASSUME NEW truncate, Open(truncate) \/ OpenFails, crashes' = crashes
      PROVE  (crashes + faults = 0)' => crashes + faults = 0
  BY <1>1, <1>2 DEF Open, OpenFails, Fault, Steady
<1>3. ASSUME NEW truncate, Open(truncate) \/ OpenFails, crashes' = crashes
      PROVE  Steady'
  BY <1>1, <1>3 DEF Open, OpenFails, Fault, Steady
<1>4. CASE Construct
  <2>1. (Open(FALSE) \/ OpenFails) /\ UNCHANGED <<crashes, unrenamed>>
    BY <1>4 DEF Construct
  <2> QED
    BY <1>2, <1>3, <2>1
<1>5. CASE \E len \in Lengths : Log(len)
  BY <1>5 DEF Log, object, Steady
<1>6. CASE CloseFile
  BY <1>6 DEF CloseFile, bounds, Steady
<1>7. CASE RemoveOldest
  BY <1>7 DEF RemoveOldest, object, bounds, Steady
<1>8. CASE Rename
  BY <1>1, <1>8 DEF Rename, Fault, object, Steady
<1>9. CASE Reopen
  <2>1. (Open(TRUE) \/ OpenFails) /\ UNCHANGED <<crashes, unrenamed>>
    BY <1>9 DEF Reopen
  <2> QED
    BY <1>2, <1>3, <2>1
<1>10. CASE Put
  BY <1>1, <1>10 DEF Put, Fault, Steady
<1>11. CASE flush
  BY <1>11 DEF flush, control, bounds, Steady
<1>12. CASE Destroy
  BY <1>12 DEF Destroy, Ended, Steady
<1>13. CASE Kill
  BY <1>1, <1>13 DEF Kill, Ended, Steady
<1>14. CASE UNCHANGED vars
  BY <1>14 DEF vars, object, control, bounds, Steady
<1> QED
  BY <1>4, <1>5, <1>6, <1>7, <1>8, <1>9, <1>10, <1>11, <1>12, <1>13, <1>14 DEF Next

\* What is written of the buffer is its oldest lines.
LEMMA RollWritten ==
  ASSUME RotatingTyped, RotatingTyped', Newest, NEW n \in 0..Len(buffer), Write(n),
         max_files_' = max_files_
  PROVE  \E part \in SUBSET Ids(buffer) :
           /\ KeptIds' = KeptIds \cup part
           /\ Rolling!Older(part, Ids(buffer) \ part)
           /\ n = Len(buffer) => part = Ids(buffer)
<1> DEFINE part == Ids(SubSeq(buffer, 1, n))
<1>1. /\ \A i \in 1..max_files_ : Content(i)' = Content(i)
      /\ SubSeq(buffer, 1, n) \in Seq(Piece)
      /\ part \subseteq Ids(buffer)
      /\ Content(0)' = Content(0) \o SubSeq(buffer, 1, n)
  BY Writing
<1>2. /\ max_files_ \in Nat /\ 0 \in 0..max_files_ /\ Content(0) \in Seq(Piece)
      /\ buffer \in Seq(Piece) /\ Len(buffer) \in Nat
      /\ DOMAIN file = 0..max_files_ /\ DOMAIN file' = 0..max_files_
  BY ContentTyped DEF RotatingTyped
<1>3. Ids(Content(0))' = Ids(Content(0)) \cup part
  BY <1>1, <1>2, IdsOfConcat
<1>4. KeptIds' = KeptIds \cup part
  <2>1. \A i \in 0..max_files_ : i = 0 \/ i \in 1..max_files_
    BY <1>2
  <2>2. \A i \in 0..max_files_ :
          Ids(Content(i))' = IF i = 0 THEN Ids(Content(0)) \cup part ELSE Ids(Content(i))
    BY <1>1, <1>3, <2>1
  <2> HIDE DEF part
  <2> QED
    BY <1>2, <2>2 DEF KeptIds
<1>5. n = Len(buffer) => part = Ids(buffer)
  BY <1>2, SubSeqFull
<1>6. Rolling!Older(part, Ids(buffer) \ part)
  <2> SUFFICES ASSUME NEW old \in part, NEW new \in Ids(buffer) \ part
               PROVE  old < new
    BY DEF Rolling!Older
  <2>1. \A k \in 1..n : buffer[k] \in Piece /\ k \in 1..Len(buffer)
    BY <1>2
  <2>2. /\ Len(SubSeq(buffer, 1, n)) = n
        /\ \A k \in 1..n : SubSeq(buffer, 1, n)[k] = buffer[k]
    <3>1. /\ Len(SubSeq(buffer, 1, n)) = IF 1 <= n THEN n - 1 + 1 ELSE 0
          /\ \A k \in 1..n - 1 + 1 : SubSeq(buffer, 1, n)[k] = buffer[1 + k - 1]
      BY <1>2, <2>1, SubSeqProperties
    <3> QED
      BY <1>2, <3>1
  <2>3. part = {buffer[k].id : k \in 1..n}
    <3>1. part = {SubSeq(buffer, 1, n)[k].id : k \in 1..Len(SubSeq(buffer, 1, n))}
      BY <1>1, IdsOf
    <3> HIDE DEF part
    <3> QED
      BY <2>2, <3>1
  <2>4. Ids(buffer) = {buffer[k].id : k \in 1..Len(buffer)}
    BY <1>2, IdsOf
  <2> HIDE DEF part
  <2>5. PICK j \in 1..n : old = buffer[j].id
    BY <2>3
  <2>6. PICK k \in 1..Len(buffer) : new = buffer[k].id
    BY <2>4
  <2>7. k \notin 1..n
    BY <2>3, <2>6
  <2>8. j < k
    BY <1>2, <2>7
  <2>9. Increasing(Pending(0))
    BY <1>2 DEF Newest
  <2>10. Pending(0) = Content(0) \o buffer
    BY DEF Pending
  <2>11. PICK c \in Nat : c = Len(Content(0))
    BY <1>2
  <2>12. /\ Len(Pending(0)) = c + Len(buffer)
         /\ \A i \in 1..Len(buffer) : Pending(0)[c + i] = buffer[i]
    <3>1. /\ Len(Content(0) \o buffer) = Len(Content(0)) + Len(buffer)
          /\ \A i \in 1..Len(Content(0)) + Len(buffer) :
               (Content(0) \o buffer)[i]
                 = IF i <= Len(Content(0)) THEN Content(0)[i] ELSE buffer[i - Len(Content(0))]
      BY <1>2, ConcatProperties
    <3> QED
      BY <1>2, <2>10, <2>11, <3>1
  <2>13. c + j \in 1..Len(Pending(0)) /\ c + k \in 1..Len(Pending(0)) /\ c + j < c + k
    BY <1>2, <2>1, <2>8, <2>11, <2>12
  <2> QED
    BY <2>1, <2>5, <2>6, <2>9, <2>12, <2>13 DEF Increasing
<1> QED
  BY <1>1, <1>4, <1>5, <1>6

\* A step in which the files hold nothing they did not hold.
LEMMA RollDiscards ==
  ASSUME RotatingTyped, RotatingTyped', Newest, Newest', max_files_' = max_files_,
         \A i \in 0..max_files_ : \E j \in 0..max_files_ : Ids(Content(i))' \subseteq Ids(Content(j)),
         reached' = reached, buffer = <<>>, buffer' = <<>>, Past' = Past,
         (crashes + faults = 0)' => crashes + faults = 0, ~unrenamed' => ~unrenamed
  PROVE  Rolling!Next
<1>1. DOMAIN file' = 0..max_files_
  BY DEF RotatingTyped
<1>2. KeptIds' \subseteq KeptIds
  <2>1. ASSUME NEW id \in KeptIds' PROVE id \in KeptIds
    <3>1. PICK i \in 0..max_files_ : id \in Ids(Content(i))'
      BY <1>1, <2>1 DEF KeptIds
    <3> QED
      BY <3>1, KeptIdsAre
  <2> QED
    BY <2>1
<1>3. ASSUME ~unrenamed', NEW old \in KeptIds \ KeptIds', NEW new \in KeptIds'
      PROVE  old < new
  BY <1>3 DEF Newest
<1>4. Ids(buffer) = {} /\ Ids(buffer)' = {}
  BY IdsOfNone
<1> DEFINE gone == KeptIds \ KeptIds'
<1>5. /\ gone \in SUBSET KeptIds /\ KeptIds' = KeptIds \ gone /\ KeptIds \ gone = KeptIds'
      /\ ~unrenamed' => Rolling!Older(gone, KeptIds \ gone)
  BY <1>2, <1>3 DEF Rolling!Older
<1> HIDE DEF gone
<1>6. Rolling!Discard
  BY <1>4, <1>5 DEF Rolling!Discard
<1> QED
  BY <1>6 DEF Rolling!Next

\* A step that writes some of the buffer and drops the rest.
LEMMA RollEnds ==
  ASSUME RotatingTyped, RotatingTyped', Newest, NEW n \in 0..Len(buffer), Write(n), buffer' = <<>>,
         max_files_' = max_files_, Past' \in {Past, Past + 1},
         (n = Len(buffer) /\ Past' = Past) \/ ~(crashes + faults = 0)',
         (crashes + faults = 0)' => crashes + faults = 0, ~unrenamed' => ~unrenamed
  PROVE  Rolling!Next
<1>1. PICK part \in SUBSET Ids(buffer) :
        /\ KeptIds' = KeptIds \cup part
        /\ Rolling!Older(part, Ids(buffer) \ part)
        /\ n = Len(buffer) => part = Ids(buffer)
  BY RollWritten
<1>2. Ids(buffer)' = {}
  BY IdsOfNone
<1>3. CASE n = Len(buffer) /\ Past' = Past
  <2>1. Rolling!Write
    BY <1>1, <1>2, <1>3 DEF Rolling!Write
  <2> QED
    BY <2>1 DEF Rolling!Next
<1>4. CASE ~(crashes + faults = 0)'
  <2>1. Rolling!Break
    BY <1>1, <1>2, <1>4 DEF Rolling!Break
  <2> QED
    BY <2>1 DEF Rolling!Next
<1> QED
  BY <1>3, <1>4

LEMMA RollPut ==
  ASSUME RotatingTyped, RotatingTyped', Steady, Put,
         (crashes + faults = 0)' => crashes + faults = 0, ~unrenamed' => ~unrenamed
  PROVE  Rolling!Next
<1>1. /\ at = "put" /\ at' = "idle" /\ UNCHANGED <<file, lines, crashes>>
      /\ running /\ line \in Piece /\ line.id = lines /\ lines \in Nat
      /\ buffer \in Seq(Piece) /\ crashes \in Nat /\ faults \in Nat
  BY DEF Put, RotatingTyped
<1>2. Past = lines - 1 /\ Past' = lines /\ Past' = Past + 1
  BY <1>1 DEF Past
<1>3. KeptIds' = KeptIds
  BY <1>1 DEF KeptIds, Content
<1>4. CASE buffer' = Append(buffer, line)
  <2>1. Ids(buffer)' = Ids(buffer) \cup {lines}
    <3>1. <<line>> \in Seq(Piece) /\ Len(<<line>>) = 1 /\ <<line>>[1] = line
      BY <1>1
    <3>2. Ids(<<line>>) = {lines}
      <4>1. Ids(<<line>>) = {<<line>>[k].id : k \in 1..Len(<<line>>)}
        BY <3>1, IdsOf
      <4> QED
        BY <1>1, <3>1, <4>1
    <3>3. buffer' = buffer \o <<line>>
      BY <1>1, <1>4, AppendIsConcat
    <3> QED
      BY <1>1, <3>1, <3>2, <3>3, IdsOfConcat
  <2>2. Rolling!Take
    BY <1>2, <1>3, <2>1 DEF Rolling!Take
  <2> QED
    BY <2>2 DEF Rolling!Next
<1>5. CASE buffer' = buffer /\ ~(crashes + faults = 0)'
  <2>1. Ids(buffer)' = Ids(buffer)
    BY <1>5
  <2>2. Rolling!Miss
    BY <1>2, <1>3, <1>5, <2>1 DEF Rolling!Miss
  <2> QED
    BY <2>2 DEF Rolling!Next
<1>6. \/ buffer' = Append(buffer, line)
      \/ buffer' = buffer /\ ~(crashes + faults = 0)'
  <2>1. CASE stream = "good" /\ buffer' = Append(buffer, line)
    BY <2>1
  <2>2. CASE stream = "good" /\ Fault /\ buffer' = buffer
    BY <1>1, <2>2 DEF Fault
  <2>3. CASE stream # "good" /\ UNCHANGED <<stream, buffer, faults>>
    BY <1>1, <2>3 DEF Steady
  <2> QED
    BY <2>1, <2>2, <2>3 DEF Put
<1> QED
  BY <1>4, <1>5, <1>6

LEMMA RollStep ==
  ASSUME RotatingTyped, Newest, Steady, [Next]_vars
  PROVE  [Rolling!Next]_Rolling!vars
<1>1. RotatingTyped' /\ Newest'
  BY RotatingTypedStep, NewestStep
<1>2. /\ (crashes + faults = 0)' => crashes + faults = 0
      /\ ~unrenamed' => ~unrenamed
  BY SteadyStep
<1>3. /\ Closed \subseteq 0..Len(buffer) /\ Len(buffer) \in 0..Len(buffer)
      /\ crashes + faults = 0 /\ running => Closed = {Len(buffer)}
  BY DEF Closed, RotatingTyped, Steady
<1>4. /\ Past \in Int /\ lines \in Nat /\ crashes \in Nat /\ faults \in Nat
      /\ max_files_ \in Nat /\ 0 \in 0..max_files_
  BY DEF RotatingTyped, Past
<1>5. CASE Construct
  <2>1. /\ UNCHANGED <<max_files_, buffer, at, lines, reached>>
        /\ file' = file \/ file' = [file EXCEPT ![0] = Content(0)]
        /\ buffer = <<>>
    BY <1>5 DEF Construct, options, Open, OpenFails, RotatingTyped
  <2>2. \A i \in 0..max_files_ : Content(i)' = Content(i)
    <3>1. CASE file' = file
      BY <3>1 DEF Content
    <3>2. CASE file' = [file EXCEPT ![0] = Content(0)]
      <4>1. /\ file'[0] = Content(0) /\ Content(0) # Absent
            /\ \A i \in 0..max_files_ : i # 0 => file'[i] = file[i]
        BY <1>4, <3>2, ContentTyped, AbsentIsNoFile DEF RotatingTyped
      <4> QED
        BY <4>1 DEF Content
    <3> QED
      BY <2>1, <3>1, <3>2
  <2>3. Past' = Past
    BY <2>1 DEF Past
  <2>4. \A i \in 0..max_files_ : \E j \in 0..max_files_ : Ids(Content(i))' \subseteq Ids(Content(j))
    BY <2>2
  <2> QED
    BY <1>1, <1>2, <2>1, <2>3, <2>4, RollDiscards
<1>6. ASSUME NEW len \in Lengths, Log(len)
      PROVE  UNCHANGED Rolling!vars
  <2>1. /\ UNCHANGED <<buffer, file, unrenamed, crashes, faults>> /\ at = "idle"
        /\ at' \in {"close", "put"} /\ lines' = lines + 1
    BY <1>6 DEF Log, object
  <2>2. Past' = Past
    BY <1>4, <2>1 DEF Past
  <2>3. KeptIds' = KeptIds
    BY <2>1 DEF KeptIds, Content
  <2> QED
    BY <2>1, <2>2, <2>3 DEF Rolling!vars
<1>7. CASE CloseFile
  <2>1. PICK n \in Closed : Write(n)
    BY <1>7 DEF CloseFile
  <2>2. /\ UNCHANGED <<max_files_, lines, crashes, faults>> /\ buffer' = <<>>
        /\ at = "close" /\ at' \in {"remove", "open"} /\ running
    BY <1>7 DEF CloseFile, options, bounds
  <2>3. Past' = Past
    BY <2>2 DEF Past
  <2>4. n = Len(buffer) \/ ~(crashes + faults = 0)'
    BY <1>3, <2>1, <2>2
  <2>5. n \in 0..Len(buffer)
    BY <1>3
  <2>6. max_files_' = max_files_ /\ Past' \in {Past, Past + 1}
        /\ ((n = Len(buffer) /\ Past' = Past) \/ ~(crashes + faults = 0)')
    BY <2>2, <2>3, <2>4
  <2> QED
    BY <1>1, <1>2, <2>1, <2>2, <2>5, <2>6, RollEnds
<1>8. CASE RemoveOldest
  <2>1. /\ UNCHANGED <<max_files_, buffer, lines, reached>>
        /\ at = "remove" /\ at' = "rename" /\ buffer = <<>>
        /\ file' = [file EXCEPT ![max_files_] = Absent]
    BY <1>8 DEF RemoveOldest, options, object, bounds, RotatingTyped
  <2>2. Past' = Past
    BY <2>1 DEF Past
  <2>3. \A i \in 0..max_files_ : Content(i)' = IF i = max_files_ THEN <<>> ELSE Content(i)
    BY <1>4, <2>1 DEF Content, RotatingTyped
  <2>4. \A i \in 0..max_files_ : Ids(Content(i))' \subseteq Ids(Content(i))
    BY <2>3, IdsOfNone
  <2>5. \A i \in 0..max_files_ : \E j \in 0..max_files_ : Ids(Content(i))' \subseteq Ids(Content(j))
    BY <2>4
  <2> QED
    BY <1>1, <1>2, <2>1, <2>2, <2>5, RollDiscards
<1>9. CASE Rename
  <2>1. /\ UNCHANGED <<max_files_, buffer, lines, reached>>
        /\ at = "rename" /\ at' \in {"rename", "open"} /\ buffer = <<>>
        /\ shift \in 0..max_files_ /\ shift + 1 \in 0..max_files_
    <3>1. UNCHANGED <<max_files_, object, lines, reached>> /\ at = "rename" /\ at' \in {"rename", "open"}
      BY <1>9 DEF Rename, options
    <3> QED
      BY <1>4, <3>1 DEF object, RotatingTyped
  <2>2. Past' = Past
    BY <2>1 DEF Past
  <2>3. \/ file' = file
        \/ file' = [file EXCEPT ![shift + 1] = file[shift], ![shift] = Absent]
    BY <1>9 DEF Rename
  <2>4. \A i \in 0..max_files_ :
          Content(i)' = <<>> \/ Content(i)' = Content(i) \/ Content(i)' = Content(shift)
    <3>1. CASE file' = file
      BY <3>1 DEF Content
    <3>2. CASE file' = [file EXCEPT ![shift + 1] = file[shift], ![shift] = Absent]
      <4>1. /\ file'[shift + 1] = file[shift] /\ file'[shift] = Absent
            /\ \A i \in 0..max_files_ : i # shift /\ i # shift + 1 => file'[i] = file[i]
        BY <1>4, <2>1, <3>2 DEF RotatingTyped
      <4> QED
        BY <2>1, <4>1 DEF Content
    <3> QED
      BY <2>3, <3>1, <3>2
  <2>5. \A i \in 0..max_files_ : \E j \in 0..max_files_ : Ids(Content(i))' \subseteq Ids(Content(j))
    BY <2>1, <2>4, IdsOfNone
  <2> QED
    BY <1>1, <1>2, <2>1, <2>2, <2>5, RollDiscards
<1>10. CASE Reopen
  <2>1. /\ UNCHANGED <<max_files_, buffer, reached, lines>>
        /\ at = "open" /\ at' = "put" /\ buffer = <<>>
    BY <1>10 DEF Reopen, options, RotatingTyped
  <2>2. Past' = Past
    BY <2>1 DEF Past
  <2>3. file' = file \/ file' = [file EXCEPT ![0] = <<>>]
    BY <1>10 DEF Reopen, Open, OpenFails
  <2>4. \A i \in 0..max_files_ : Content(i)' = <<>> \/ Content(i)' = Content(i)
    <3>1. CASE file' = file
      BY <3>1 DEF Content
    <3>2. CASE file' = [file EXCEPT ![0] = <<>>]
      <4>1. /\ file'[0] = <<>>
            /\ \A i \in 0..max_files_ : i # 0 => file'[i] = file[i]
        BY <1>4, <3>2 DEF RotatingTyped
      <4> QED
        BY <4>1 DEF Content
    <3> QED
      BY <2>3, <3>1, <3>2
  <2>5. \A i \in 0..max_files_ : \E j \in 0..max_files_ : Ids(Content(i))' \subseteq Ids(Content(j))
    BY <2>4, IdsOfNone
  <2> QED
    BY <1>1, <1>2, <2>1, <2>2, <2>5, RollDiscards
<1>11. CASE flush
  <2>1. /\ Write(Len(buffer)) /\ buffer' = <<>> /\ UNCHANGED <<max_files_, lines, at>>
    BY <1>11 DEF flush, options, control, bounds
  <2>2. Past' = Past
    BY <2>1 DEF Past
  <2> QED
    BY <1>1, <1>2, <1>3, <2>1, <2>2, RollEnds
<1>12. CASE Destroy
  <2>1. PICK n \in Closed : Write(n)
    BY <1>12 DEF Destroy
  <2>2. /\ UNCHANGED <<max_files_, lines, crashes, faults>> /\ buffer' = <<>>
        /\ at = "idle" /\ at' = "idle" /\ running
    BY <1>12 DEF Destroy, Ended, options
  <2>3. Past' = Past
    BY <2>2 DEF Past
  <2>4. n \in 0..Len(buffer) /\ (n = Len(buffer) \/ ~(crashes + faults = 0)')
    BY <1>3, <2>1, <2>2
  <2>5. max_files_' = max_files_ /\ Past' \in {Past, Past + 1}
        /\ ((n = Len(buffer) /\ Past' = Past) \/ ~(crashes + faults = 0)')
    BY <2>2, <2>3, <2>4
  <2> QED
    BY <1>1, <1>2, <2>1, <2>2, <2>4, <2>5, RollEnds
<1>13. CASE Kill
  <2>1. PICK n \in 0..Len(buffer) : Write(n)
    BY <1>13 DEF Kill
  <2>2. /\ UNCHANGED <<max_files_, lines, faults>> /\ buffer' = <<>>
        /\ at' = "idle" /\ crashes' = crashes + 1
    BY <1>13 DEF Kill, Ended, options
  <2>3. Past' \in {Past, Past + 1}
    BY <1>4, <2>2 DEF Past
  <2>4. ~(crashes + faults = 0)'
    BY <1>4, <2>2
  <2> QED
    BY <1>1, <1>2, <2>1, <2>2, <2>3, <2>4, RollEnds
<1>14. CASE UNCHANGED vars
  <2>1. UNCHANGED <<buffer, file, unrenamed, lines, at, crashes, faults>>
    BY <1>14 DEF vars, options, object, control, bounds
  <2>2. Past' = Past /\ KeptIds' = KeptIds
    BY <2>1 DEF Past, KeptIds, Content
  <2> QED
    BY <2>1, <2>2 DEF Rolling!vars
<1>15. CASE Put
  BY <1>1, <1>2, <1>15, RollPut
<1> QED
  BY <1>5, <1>6, <1>7, <1>8, <1>9, <1>10, <1>11, <1>12, <1>13, <1>14, <1>15 DEF Next

(* However the sink renames, reopens, fails and is killed, new lines go
   behind all others, what is written goes only as the oldest, and what is
   not is lost only from some line on (rotating_file_sink.hpp:26-65).       *)
THEOREM ImplementsRollingLog == Spec => RollingSpec
<1> DEFINE Inv == RotatingTyped /\ Newest /\ Steady
<1>1. Init => Rolling!Init
  <2> SUFFICES ASSUME Init PROVE Rolling!Init
    OBVIOUS
  <2>1. at = "idle" /\ lines = 0 /\ buffer = <<>> /\ crashes = 0 /\ faults = 0 /\ unrenamed = FALSE
        /\ file = [i \in 0..max_files_ |-> Absent]
    BY DEF Init
  <2>2. \A i \in DOMAIN file : Content(i) = <<>>
    BY <2>1 DEF Content
  <2>3. KeptIds = {} /\ Ids(buffer) = {}
    BY <2>1, <2>2, IdsOfNone DEF KeptIds
  <2> QED
    BY <2>1, <2>3 DEF Rolling!Init, Past
<1>2. Init => Inv
  BY RotatingTypedInit, NewestInit DEF Init, Steady
<1>3. Inv /\ [Next]_vars => Inv'
  BY RotatingTypedStep, NewestStep, SteadyStep
<1>4. Inv /\ [Next]_vars => [Rolling!Next]_Rolling!vars
  BY RollStep
<1> QED
  BY <1>1, <1>2, <1>3, <1>4, PTL DEF Spec, RollingSpec, Rolling!Spec

-----------------------------------------------------------------------------
(* The daily sink.                                                         *)

DatedLine == [id : Nat, day : Daily!AllDays]

DailyTyped ==
  /\ max_files_ \in Nat /\ time \in 0..Days * DayTicks - 1 /\ next_rotation_ \in Nat
  /\ lines \in Nat /\ faults \in Nat
  /\ running \in BOOLEAN /\ bad \in BOOLEAN /\ unlinked \in BOOLEAN /\ misled \in BOOLEAN
  /\ file_ \in Daily!AllDays \cup {Absent}
  /\ buffer \in Seq(DatedLine)
  /\ line \in DatedLine \cup {NoLine}
  /\ file \in [Daily!AllDays -> Seq(DatedLine) \cup {Absent}]
  /\ doomed \subseteq Daily!AllDays
  /\ pruned \subseteq Daily!AllDays
  /\ logged \subseteq DatedLine

\* max_files_ newer files are there.
Excused(d) == max_files_ > 0 /\ Cardinality(Daily!Newer(d)) >= max_files_

(* What NewestDaysAreKept follows from.  The loop of prune() goes from the
   oldest on, so that the files it has yet to remove are never needed to
   excuse those it has removed; and every file that is one too many is still
   to be removed, if no removal has failed.                                *)
Pruning ==
  /\ ~running => file_ = Absent /\ line = NoLine /\ unlinked = FALSE
  /\ file_ = Absent => buffer = <<>>
  /\ file_ # Absent /\ ~unlinked => file[file_] # Absent
  /\ unlinked => file_ \in pruned
  /\ \A d \in doomed \cup pruned : Excused(d)
  /\ doomed \subseteq Daily!Dated
  /\ running /\ max_files_ > 0 /\ faults = 0 => Daily!ToPrune(Daily!Dated) \subseteq doomed

(* What LinesReachTheirDay follows from: the file that is open, what is in
   the stream, and the next rotation are those of one day, and that day has
   begun.                                                                  *)
Punctual ==
  /\ ~misled =>
       /\ \A l \in ToSet(buffer) : l.day = file_
       /\ line # NoLine /\ file_ # Absent => line.day = file_
       /\ file_ # Absent => next_rotation_ = (file_ + 1) * DayTicks /\ file_ * DayTicks <= time
  /\ ~misled => \A l \in logged :
       (file[l.day] # Absent /\ l \in ToSet(file[l.day])) \/ Excused(l.day)

\* The instance's counts are counts.
LEMMA DailyCounts == \A S : Daily!Cardinality(S) = Cardinality(S)
BY DEF Daily!Cardinality, Cardinality

LEMMA DailyMembers == \A s : Daily!ToSet(s) = ToSet(s)
BY DEF Daily!ToSet, ToSet

LEMMA DailyConstants ==
  /\ DailyLimits \subseteq Nat
  /\ DayTicks \in Nat \ {0} /\ Days \in Nat \ {0}
  /\ Absent \notin Nat /\ Absent \notin Seq(DatedLine)
<1>1. /\ DailyLimits \subseteq Nat
      /\ DayTicks \in Nat \ {0} /\ Days \in Nat \ {0}
      /\ Absent \notin Nat /\ Absent \notin Seq([id : Nat, day : Nat])
  BY SinksAssumption DEF Daily!DailyAssumption
<1>2. DatedLine \subseteq [id : Nat, day : Nat]
  BY <1>1 DEF DatedLine, Daily!AllDays
<1> QED
  BY <1>1, <1>2, SeqMonotonic

(* The day of a time is the one that it is in.                             *)
LEMMA DayOfTime ==
  ASSUME NEW t \in 0..Days * DayTicks - 1
  PROVE  /\ Daily!DayOf(t) \in Daily!AllDays /\ Daily!DayOf(t) \in Nat
         /\ Daily!DayOf(t) * DayTicks <= t
         /\ Daily!next_midnight(t) = (Daily!DayOf(t) + 1) * DayTicks
         /\ Daily!next_midnight(t) \in Nat
<1> DEFINE d == t \div DayTicks
<1>1. t \in Nat /\ DayTicks \in Nat \ {0} /\ Days \in Nat \ {0} /\ t < Days * DayTicks
  <2>1. DayTicks \in Nat \ {0} /\ Days \in Nat \ {0}
    BY DailyConstants
  <2>2. Days * DayTicks \in Int
    BY <2>1
  <2> QED
    BY <2>1, <2>2
<1>2. d \in Nat /\ d * DayTicks <= t /\ t < d * DayTicks + DayTicks
  BY <1>1, Z3
<1> HIDE DEF d
<1>3. d < Days
  <2> SUFFICES ASSUME d >= Days PROVE FALSE
    BY <1>1, <1>2
  <2>1. d * DayTicks >= Days * DayTicks
    BY <1>1, <1>2
  <2> QED
    BY <1>1, <1>2, <2>1
<1>4. d \in 0..Days - 1 /\ (d + 1) * DayTicks \in Nat
  BY <1>1, <1>2, <1>3
<1>5. Daily!DayOf(t) = d
  BY DEF Daily!DayOf, d
<1> QED
  BY <1>1, <1>2, <1>4, <1>5 DEF Daily!AllDays, Daily!next_midnight, Daily!Midnight

LEMMA DayIsOne ==
  ASSUME NEW t \in 0..Days * DayTicks - 1, NEW d \in Nat, d * DayTicks <= t, t < (d + 1) * DayTicks
  PROVE  Daily!DayOf(t) = d
<1> DEFINE e == Daily!DayOf(t)
<1>1. /\ e \in Nat /\ e * DayTicks <= t /\ t < (e + 1) * DayTicks
      /\ DayTicks \in Nat \ {0} /\ t \in Nat
  <2>1. DayTicks \in Nat \ {0} /\ Days \in Nat \ {0} /\ Days * DayTicks \in Int
    BY DailyConstants
  <2>2. t \in Nat
    BY <2>1
  <2>3. t < (t \div DayTicks + 1) * DayTicks
    BY <2>1, <2>2, Z3
  <2> QED
    BY <2>1, <2>2, <2>3, DayOfTime DEF Daily!DayOf
<1> HIDE DEF e
<1>2. CASE e < d
  <2>1. (e + 1) * DayTicks <= d * DayTicks
    BY <1>1, <1>2
  <2> QED
    BY <1>1, <2>1
<1>3. CASE d < e
  <2>1. (d + 1) * DayTicks <= e * DayTicks
    BY <1>1, <1>3
  <2> QED
    BY <1>1, <2>1
<1> QED
  BY <1>1, <1>2, <1>3 DEF e

LEMMA MembersOfConcat ==
  ASSUME NEW S, NEW s \in Seq(S), NEW t \in Seq(S)
  PROVE  s \o t \in Seq(S) /\ ToSet(s \o t) = ToSet(s) \cup ToSet(t)
<1>1. /\ s \o t \in Seq(S) /\ Len(s \o t) = Len(s) + Len(t)
      /\ Len(s) \in Nat /\ Len(t) \in Nat
      /\ DOMAIN s = 1..Len(s) /\ DOMAIN t = 1..Len(t) /\ DOMAIN (s \o t) = 1..Len(s) + Len(t)
      /\ \A i \in 1..Len(s) + Len(t) : (s \o t)[i] = IF i <= Len(s) THEN s[i] ELSE t[i - Len(s)]
  BY ConcatProperties
<1>2. \A k \in 1..Len(t) : Len(s) + k \in 1..Len(s) + Len(t) /\ (s \o t)[Len(s) + k] = t[k]
  BY <1>1
<1>3. \A k \in 1..Len(s) : k \in 1..Len(s) + Len(t) /\ (s \o t)[k] = s[k]
  BY <1>1
<1>4. ToSet(s) \subseteq ToSet(s \o t) /\ ToSet(t) \subseteq ToSet(s \o t)
  <2>1. ASSUME NEW e \in ToSet(s) PROVE e \in ToSet(s \o t)
    <3>1. PICK k \in 1..Len(s) : e = s[k]
      BY <1>1 DEF ToSet
    <3> QED
      BY <1>1, <1>3, <3>1 DEF ToSet
  <2>2. ASSUME NEW e \in ToSet(t) PROVE e \in ToSet(s \o t)
    <3>1. PICK k \in 1..Len(t) : e = t[k]
      BY <1>1 DEF ToSet
    <3> QED
      BY <1>1, <1>2, <3>1 DEF ToSet
  <2> QED
    BY <2>1, <2>2
<1>5. ASSUME NEW e \in ToSet(s \o t) PROVE e \in ToSet(s) \cup ToSet(t)
  <2>1. PICK k \in 1..Len(s) + Len(t) : e = (s \o t)[k]
    BY <1>1 DEF ToSet
  <2>2. CASE k <= Len(s)
    BY <1>1, <2>1, <2>2 DEF ToSet
  <2>3. CASE k > Len(s)
    <3>1. k - Len(s) \in 1..Len(t) /\ e = t[k - Len(s)]
      BY <1>1, <2>1, <2>3
    <3> QED
      BY <1>1, <3>1 DEF ToSet
  <2> QED
    BY <1>1, <2>2, <2>3
<1> QED
  BY <1>1, <1>4, <1>5

(* The first n members of a sequence are members of it.                     *)
LEMMA MembersOfFirst ==
  ASSUME NEW S, NEW s \in Seq(S), NEW n \in 0..Len(s)
  PROVE  /\ SubSeq(s, 1, n) \in Seq(S) /\ Len(SubSeq(s, 1, n)) = n
         /\ \A k \in 1..n : SubSeq(s, 1, n)[k] = s[k]
         /\ ToSet(SubSeq(s, 1, n)) \subseteq ToSet(s)
         /\ ToSet(s) \subseteq S
         /\ n = 0 => ToSet(SubSeq(s, 1, n)) = {}
<1>1. Len(s) \in Nat /\ n \in Nat /\ \A k \in 1..n : s[k] \in S
  OBVIOUS
<1>2. /\ SubSeq(s, 1, n) \in Seq(S)
      /\ Len(SubSeq(s, 1, n)) = IF 1 <= n THEN n - 1 + 1 ELSE 0
      /\ \A k \in 1..n - 1 + 1 : SubSeq(s, 1, n)[k] = s[1 + k - 1]
  BY <1>1, SubSeqProperties
<1>3. /\ Len(SubSeq(s, 1, n)) = n /\ \A k \in 1..n : SubSeq(s, 1, n)[k] = s[k]
      /\ DOMAIN SubSeq(s, 1, n) = 1..n /\ DOMAIN s = 1..Len(s)
  BY <1>1, <1>2
<1>4. ToSet(SubSeq(s, 1, n)) \subseteq ToSet(s)
  BY <1>1, <1>3 DEF ToSet
<1>5. ToSet(s) \subseteq S
  BY <1>3 DEF ToSet
<1>6. n = 0 => ToSet(SubSeq(s, 1, n)) = {}
  BY <1>3 DEF ToSet
<1> QED
  BY <1>2, <1>3, <1>4, <1>5, <1>6

\* What has been written is in the open file, unless that has been removed.
LEMMA Flushing ==
  ASSUME DailyTyped, Pruning, NEW n \in 0..Len(buffer), NEW new, new = Daily!Flushed(n)
  PROVE  /\ new \in [Daily!AllDays -> Seq(DatedLine) \cup {Absent}]
         /\ \A d \in Daily!AllDays : /\ new[d] = Absent <=> file[d] = Absent
                                     /\ file[d] # Absent => ToSet(file[d]) \subseteq ToSet(new[d])
         /\ Daily!Reached(n) \subseteq DatedLine
         /\ \A l \in Daily!Reached(n) \ logged :
              /\ l \in ToSet(buffer) /\ file_ \in Daily!AllDays
              /\ unlinked \/ (new[file_] # Absent /\ l \in ToSet(new[file_]))
         /\ logged \subseteq Daily!Reached(n)
<1> DEFINE part == SubSeq(buffer, 1, n)
<1>1. /\ file \in [Daily!AllDays -> Seq(DatedLine) \cup {Absent}] /\ buffer \in Seq(DatedLine)
      /\ logged \subseteq DatedLine
      /\ Absent \notin Seq(DatedLine)
  BY DailyConstants DEF DailyTyped
<1>2. /\ part \in Seq(DatedLine) /\ ToSet(part) \subseteq ToSet(buffer) /\ ToSet(buffer) \subseteq DatedLine
      /\ n = 0 => ToSet(part) = {}
  BY <1>1, MembersOfFirst
<1>3. new = IF n = 0 \/ unlinked THEN file ELSE [file EXCEPT ![file_] = file[file_] \o part]
  BY DEF Daily!Flushed
<1>4. Daily!Reached(n) = logged \cup ToSet(part)
  BY DailyMembers DEF Daily!Reached
<1> HIDE DEF part
<1>5. n # 0 => file_ \in Daily!AllDays
  <2>1. n # 0 => buffer # <<>>
    BY <1>1
  <2> QED
    BY <2>1 DEF Pruning, DailyTyped
<1>6. CASE n = 0 \/ unlinked
  BY <1>1, <1>2, <1>3, <1>4, <1>5, <1>6
<1>7. CASE ~(n = 0 \/ unlinked)
  <2>1. file_ \in Daily!AllDays /\ file[file_] # Absent /\ file[file_] \in Seq(DatedLine)
    <3>1. file_ \in Daily!AllDays /\ file_ # Absent
      BY <1>5, <1>7, DailyConstants DEF Daily!AllDays
    <3> QED
      BY <1>1, <1>7, <3>1 DEF Pruning
  <2>2. /\ file[file_] \o part \in Seq(DatedLine)
        /\ ToSet(file[file_] \o part) = ToSet(file[file_]) \cup ToSet(part)
    BY <1>2, <2>1, MembersOfConcat
  <2>3. /\ new \in [Daily!AllDays -> Seq(DatedLine) \cup {Absent}]
        /\ new[file_] = file[file_] \o part
        /\ \A d \in Daily!AllDays : d # file_ => new[d] = file[d]
    BY <1>1, <1>3, <1>7, <2>1, <2>2
  <2>4. new[file_] # Absent
    BY <1>1, <2>2, <2>3
  <2> QED
    BY <1>1, <1>2, <1>4, <2>1, <2>2, <2>3, <2>4
<1> QED
  BY <1>6, <1>7

\* What reopen() does to the files and to the object.
LEMMA Reopening ==
  ASSUME DailyTyped, Pruning, Daily!reopen(time), max_files_' = max_files_
  PROVE  /\ file' \in [Daily!AllDays -> Seq(DatedLine) \cup {Absent}]
         /\ \A d \in Daily!AllDays : file[d] # Absent => file'[d] # Absent /\ ToSet(file[d]) \subseteq ToSet(file'[d])
         /\ \/ file_' = Daily!DayOf(time) /\ file_' \in Daily!AllDays /\ file'[file_'] # Absent /\ faults' = faults
            \/ file_' = Absent /\ faults' = faults + 1
         /\ logged' \subseteq DatedLine
         /\ \A l \in logged' \ logged :
              /\ l \in ToSet(buffer) /\ file_ \in Daily!AllDays
              /\ unlinked \/ (file'[file_] # Absent /\ l \in ToSet(file'[file_]))
         /\ pruned' \subseteq pruned
         /\ bad' = FALSE /\ buffer' = <<>> /\ unlinked' = FALSE
         /\ next_rotation_' \in Nat /\ misled' \in BOOLEAN
         /\ ~misled' => ~misled /\ next_rotation_' = (Daily!DayOf(time) + 1) * DayTicks
         /\ doomed' = IF max_files_ > 0
                      THEN {d \in Daily!Dated' : Cardinality(Daily!Newer(d)') >= max_files_}
                      ELSE {}
<1> DEFINE today == Daily!DayOf(time)
<1>1. /\ today \in Daily!AllDays /\ Daily!next_midnight(time) = (today + 1) * DayTicks
      /\ Daily!next_midnight(time) \in Nat /\ time + DayTicks \in Nat
  <2>1. time \in 0..Days * DayTicks - 1
    BY DEF DailyTyped
  <2>2. time \in Nat /\ DayTicks \in Nat
    BY <2>1, DailyConstants
  <2> QED
    BY <2>1, <2>2, DayOfTime
<1>2. PICK n \in Daily!Closed :
        /\ logged' = Daily!Reached(n)
        /\ \/ /\ file_' = today
              /\ file' = LET f == Daily!Flushed(n)
                         IN  [f EXCEPT ![today] = IF @ = Absent THEN <<>> ELSE @]
              /\ pruned' = pruned \ {today}
              /\ UNCHANGED faults
           \/ faults' = faults + 1 /\ file_' = Absent /\ file' = Daily!Flushed(n) /\ UNCHANGED pruned
  BY DEF Daily!reopen, Daily!Fault
<1>3. n \in 0..Len(buffer)
  BY DEF Daily!Closed, DailyTyped
<1>4. PICK new : new = Daily!Flushed(n)
  OBVIOUS
<1> HIDE DEF today
<1>5. /\ new \in [Daily!AllDays -> Seq(DatedLine) \cup {Absent}]
      /\ \A d \in Daily!AllDays : /\ new[d] = Absent <=> file[d] = Absent
                                  /\ file[d] # Absent => ToSet(file[d]) \subseteq ToSet(new[d])
      /\ logged' \subseteq DatedLine
      /\ \A l \in logged' \ logged :
           /\ l \in ToSet(buffer) /\ file_ \in Daily!AllDays
           /\ unlinked \/ (new[file_] # Absent /\ l \in ToSet(new[file_]))
  BY <1>2, <1>3, <1>4, Flushing
<1>6. \/ /\ file_' = today /\ pruned' = pruned \ {today} /\ UNCHANGED faults
         /\ file' = [new EXCEPT ![today] = IF new[today] = Absent THEN <<>> ELSE new[today]]
      \/ faults' = faults + 1 /\ file_' = Absent /\ file' = new /\ UNCHANGED pruned
  BY <1>2, <1>4
<1>7. /\ file' \in [Daily!AllDays -> Seq(DatedLine) \cup {Absent}]
      /\ \A d \in Daily!AllDays : new[d] # Absent => file'[d] = new[d]
      /\ file_' = today => file'[today] # Absent
  <2>1. CASE /\ file_' = today
             /\ file' = [new EXCEPT ![today] = IF new[today] = Absent THEN <<>> ELSE new[today]]
    <3>1. <<>> \in Seq(DatedLine) /\ <<>> # Absent
      BY EmptySeq, DailyConstants
    <3> QED
      BY <1>1, <1>5, <2>1, <3>1
  <2>2. CASE file_' = Absent /\ file' = new
    <3>1. today # Absent
      BY <1>1, DailyConstants DEF Daily!AllDays
    <3> QED
      BY <1>5, <2>2, <3>1
  <2> QED
    BY <1>6, <2>1, <2>2
<1>8. /\ bad' = FALSE /\ buffer' = <<>> /\ unlinked' = FALSE
      /\ \/ next_rotation_' = Daily!next_midnight(time) /\ misled' = misled
         \/ next_rotation_' = time + DayTicks /\ misled' = TRUE
      /\ doomed' = IF max_files_ > 0 THEN Daily!ToPrune({d \in Daily!AllDays : file'[d] # Absent}) ELSE {}
  BY DEF Daily!reopen
<1>9. doomed' = IF max_files_ > 0
                THEN {d \in Daily!Dated' : Cardinality(Daily!Newer(d)') >= max_files_}
                ELSE {}
  BY <1>8, DailyCounts DEF Daily!ToPrune, Daily!Dated, Daily!Newer
<1>10. next_rotation_' \in Nat /\ misled' \in BOOLEAN
       /\ (~misled' => ~misled /\ next_rotation_' = (today + 1) * DayTicks)
  BY <1>1, <1>8 DEF DailyTyped
<1>11. \A d \in Daily!AllDays :
         file[d] # Absent => file'[d] # Absent /\ ToSet(file[d]) \subseteq ToSet(file'[d])
  <2>1. ASSUME NEW d \in Daily!AllDays, file[d] # Absent
        PROVE  file'[d] # Absent /\ ToSet(file[d]) \subseteq ToSet(file'[d])
    <3>1. new[d] # Absent /\ ToSet(file[d]) \subseteq ToSet(new[d])
      BY <1>5, <2>1
    <3>2. file'[d] = new[d]
      BY <1>7, <3>1
    <3> QED
      BY <3>1, <3>2
  <2> QED
    BY <2>1
<1>12. \A l \in logged' \ logged :
         /\ l \in ToSet(buffer) /\ file_ \in Daily!AllDays
         /\ unlinked \/ (file'[file_] # Absent /\ l \in ToSet(file'[file_]))
  <2>1. ASSUME NEW l \in logged' \ logged, ~unlinked
        PROVE  file'[file_] # Absent /\ l \in ToSet(file'[file_])
    <3>1. file_ \in Daily!AllDays /\ new[file_] # Absent /\ l \in ToSet(new[file_])
      BY <1>5, <2>1
    <3>2. file'[file_] = new[file_]
      BY <1>7, <3>1
    <3> QED
      BY <3>1, <3>2
  <2> QED
    BY <1>5, <2>1
<1> QED
  BY <1>1, <1>5, <1>6, <1>7, <1>8, <1>9, <1>10, <1>11, <1>12 DEF today

LEMMA DailyTypedInit == Daily!Init => DailyTyped
<1> SUFFICES ASSUME Daily!Init PROVE DailyTyped
  OBVIOUS
<1>1. max_files_ \in Nat
  BY DailyConstants DEF Daily!Init
<1>2. time \in 0..Days * DayTicks - 1
  <2>1. time \in 0..DayTicks - 1 /\ DayTicks \in Nat \ {0} /\ Days \in Nat \ {0}
    BY DailyConstants DEF Daily!Init
  <2>2. Days * DayTicks >= 1 * DayTicks
    BY <2>1
  <2> QED
    BY <2>1, <2>2
<1>3. file \in [Daily!AllDays -> Seq(DatedLine) \cup {Absent}]
  BY EmptySeq DEF Daily!Init
<1> QED
  BY <1>1, <1>2, <1>3, EmptySeq DEF Daily!Init, DailyTyped

LEMMA DailyTypedStep ==
  ASSUME DailyTyped, Pruning, [Daily!Next]_(Daily!vars)
  PROVE  DailyTyped'
<1> USE DEF DailyTyped
<1>1. ASSUME Daily!reopen(time), UNCHANGED <<max_files_, time>>,
             lines' \in Nat, running' \in BOOLEAN, line' \in DatedLine \cup {NoLine}
      PROVE  DailyTyped'
  <2>1. /\ file' \in [Daily!AllDays -> Seq(DatedLine) \cup {Absent}]
        /\ file_' \in Daily!AllDays \cup {Absent} /\ faults' \in Nat
        /\ logged' \subseteq DatedLine /\ pruned' \subseteq Daily!AllDays
        /\ bad' = FALSE /\ buffer' = <<>> /\ unlinked' = FALSE
        /\ next_rotation_' \in Nat /\ misled' \in BOOLEAN
        /\ doomed' \subseteq Daily!Dated'
    <3>1. /\ file' \in [Daily!AllDays -> Seq(DatedLine) \cup {Absent}]
          /\ \/ file_' \in Daily!AllDays /\ faults' = faults
             \/ file_' = Absent /\ faults' = faults + 1
          /\ logged' \subseteq DatedLine /\ pruned' \subseteq pruned
          /\ bad' = FALSE /\ buffer' = <<>> /\ unlinked' = FALSE
          /\ next_rotation_' \in Nat /\ misled' \in BOOLEAN
          /\ doomed' = IF max_files_ > 0
                       THEN {d \in Daily!Dated' : Cardinality(Daily!Newer(d)') >= max_files_}
                       ELSE {}
      BY <1>1, Reopening
    <3>2. doomed' \subseteq Daily!Dated'
      BY <3>1
    <3>3. pruned \subseteq Daily!AllDays /\ faults \in Nat
      OBVIOUS
    <3> HIDE DEF DailyTyped
    <3> QED
      BY <3>1, <3>2, <3>3
  <2>2. buffer' \in Seq(DatedLine) /\ doomed' \subseteq Daily!AllDays
    BY <2>1, EmptySeq DEF Daily!Dated
  <2> QED
    BY <1>1, <2>1, <2>2
<1>2. CASE Daily!Construct
  BY <1>1, <1>2 DEF Daily!Construct
<1>3. CASE Daily!Log
  <2>1. line' \in DatedLine /\ lines' \in Nat
    BY <1>3, DayOfTime DEF Daily!Log, DatedLine
  <2>2. CASE Daily!reopen(time)
    BY <1>1, <1>3, <2>1, <2>2 DEF Daily!Log
  <2>3. CASE UNCHANGED <<Daily!object, doomed, file, faults, Daily!ghosts>>
    BY <1>3, <2>1, <2>3 DEF Daily!Log, Daily!object, Daily!ghosts
  <2> QED
    BY <1>3, <2>2, <2>3 DEF Daily!Log
<1>4. CASE Daily!Prune
  <2> DEFINE oldest == Daily!Min(doomed)
  <2>1. /\ \/ /\ file' = [file EXCEPT ![oldest] = Absent]
              /\ pruned' = pruned \cup {oldest}
              /\ unlinked' = (unlinked \/ file_ = oldest)
              /\ UNCHANGED faults
           \/ Daily!Fault /\ UNCHANGED <<file, pruned, unlinked>>
        /\ doomed' = doomed \ {oldest} /\ doomed # {}
        /\ UNCHANGED <<max_files_, time, running, file_, bad, buffer, next_rotation_, line, lines, misled, logged>>
    BY <1>4 DEF Daily!Prune
  <2>2. oldest \in doomed
    <3>1. doomed \subseteq Nat /\ doomed # {}
      BY <2>1, DailyConstants DEF Daily!AllDays
    <3>2. \E n \in doomed : \A m \in doomed : n <= m
      BY <3>1, Least
    <3> QED
      BY <3>2 DEF Daily!Min
  <2> HIDE DEF oldest
  <2>3. faults' \in Nat /\ unlinked' \in BOOLEAN
    <3>1. unlinked' \in {unlinked, TRUE}
      <4>1. CASE unlinked' = unlinked
        BY <4>1
      <4>2. CASE unlinked' = (unlinked \/ file_ = oldest)
        BY <4>2
      <4> QED
        BY <2>1, <4>1, <4>2
    <3>2. faults' \in Nat
      BY <2>1 DEF Daily!Fault
    <3> QED
      BY <3>1, <3>2
  <2>4. file' \in [Daily!AllDays -> Seq(DatedLine) \cup {Absent}]
    BY <2>1, <2>2
  <2>5. pruned' \subseteq Daily!AllDays /\ doomed' \subseteq Daily!AllDays
    BY <2>1, <2>2
  <2> QED
    BY <2>1, <2>3, <2>4, <2>5
<1>5. CASE Daily!Write
  <2>1. line \in DatedLine
    BY <1>5 DEF Daily!Write
  <2>2. buffer' \in Seq(DatedLine) /\ bad' \in BOOLEAN /\ faults' \in Nat
    <3>1. /\ buffer' = Append(buffer, line) \/ buffer' = buffer
          /\ bad' = TRUE \/ bad' = bad
          /\ faults' = faults + 1 \/ faults' = faults
      BY <1>5 DEF Daily!Write, Daily!Fault
    <3>2. buffer' \in Seq(DatedLine)
      BY <2>1, <3>1
    <3>3. bad' \in BOOLEAN
      <4>1. bad \in BOOLEAN
        OBVIOUS
      <4> HIDE DEF DailyTyped
      <4> QED
        BY <3>1, <4>1, Zenon
    <3>4. faults' \in Nat
      BY <3>1
    <3> QED
      BY <3>2, <3>3, <3>4
  <2> QED
    BY <1>5, <2>2 DEF Daily!Write, Daily!ghosts
<1>6. ASSUME NEW n \in 0..Len(buffer), file' = Daily!Flushed(n), logged' = Daily!Reached(n)
      PROVE  file' \in [Daily!AllDays -> Seq(DatedLine) \cup {Absent}] /\ logged' \subseteq DatedLine
  <2>1. PICK new : new = Daily!Flushed(n)
    OBVIOUS
  <2> QED
    BY <1>6, <2>1, Flushing
<1>7. CASE Daily!flush
  <2>1. Len(buffer) \in 0..Len(buffer)
    OBVIOUS
  <2>2. file' \in [Daily!AllDays -> Seq(DatedLine) \cup {Absent}] /\ logged' \subseteq DatedLine
    BY <1>6, <1>7, <2>1 DEF Daily!flush
  <2> QED
    BY <1>7, <2>2, EmptySeq DEF Daily!flush
<1>8. CASE Daily!End
  <2>1. file' \in [Daily!AllDays -> Seq(DatedLine) \cup {Absent}] /\ logged' \subseteq DatedLine
    BY <1>6, <1>8 DEF Daily!End
  <2> QED
    BY <1>8, <2>1, EmptySeq DEF Daily!End
<1>9. CASE Daily!Tick
  <2>1. time' \in 0..Days * DayTicks - 1
    <3>1. Days * DayTicks \in Int
      BY DailyConstants
    <3> QED
      BY <1>9, <3>1 DEF Daily!Tick
  <2> QED
    BY <1>9, <2>1 DEF Daily!Tick, Daily!object, Daily!ghosts
<1>10. ASSUME NEW t \in 0..Days * DayTicks - 1, Daily!SetClockBack(t)
       PROVE  DailyTyped'
  BY <1>10 DEF Daily!SetClockBack, Daily!object
<1>11. CASE UNCHANGED Daily!vars
  BY <1>11 DEF Daily!vars, Daily!object, Daily!ghosts
<1> QED
  BY <1>2, <1>3, <1>4, <1>5, <1>7, <1>8, <1>9, <1>10, <1>11 DEF Daily!Next

LEMMA DaysCount ==
  ASSUME NEW S, S \subseteq Daily!AllDays, NEW T, T \subseteq S
  PROVE  /\ IsFiniteSet(S) /\ Cardinality(S) \in Nat /\ Cardinality(T) \in Nat
         /\ Cardinality(T) <= Cardinality(S)
<1>1. Days - 1 \in Int
  BY DailyConstants
<1>2. IsFiniteSet(Daily!AllDays)
  BY <1>1, FS_Interval DEF Daily!AllDays
<1>3. IsFiniteSet(S)
  BY <1>2, FS_Subset
<1>4. IsFiniteSet(T) /\ Cardinality(T) <= Cardinality(S)
  BY <1>3, FS_Subset
<1> QED
  BY <1>3, <1>4, FS_CardinalityType

\* A day with as many newer files as an excused one is excused.
LEMMA ExcusedStays ==
  ASSUME max_files_ \in Nat, max_files_' = max_files_, NEW c, Excused(c), NEW d,
         Daily!Newer(c) \subseteq Daily!Newer(d)'
  PROVE  Excused(d)'
<1>1. Daily!Newer(d)' \subseteq Daily!AllDays
  BY DEF Daily!Newer, Daily!Dated
<1>2. /\ Cardinality(Daily!Newer(c)) <= Cardinality(Daily!Newer(d)')
      /\ Cardinality(Daily!Newer(c)) \in Nat /\ Cardinality(Daily!Newer(d)') \in Nat
  BY <1>1, DaysCount
<1> QED
  BY <1>2 DEF Excused

\* The actions that change no name of a file, nor what is to be removed.
LEMMA PruningSame ==
  ASSUME DailyTyped, Pruning, UNCHANGED <<max_files_, running, file_, doomed, pruned, unlinked>>,
         faults' = faults \/ faults' = faults + 1,
         \A d \in Daily!AllDays : file'[d] = Absent <=> file[d] = Absent,
         file_ = Absent => buffer' = <<>>, ~running => line' = NoLine
  PROVE  Pruning' /\ \A d : Excused(d) => Excused(d)'
<1>1. Daily!Dated' = Daily!Dated
  BY DEF Daily!Dated
<1>2. \A d : Daily!Newer(d)' = Daily!Newer(d)
  BY <1>1 DEF Daily!Newer
<1>3. \A d : Excused(d)' <=> Excused(d)
  BY <1>2 DEF Excused
<1>4. Daily!ToPrune(Daily!Dated)' = Daily!ToPrune(Daily!Dated)
  BY <1>1 DEF Daily!ToPrune
<1>5. faults' = 0 => faults = 0
  BY DEF DailyTyped
<1>6. file_ # Absent => file_ \in Daily!AllDays
  BY DEF DailyTyped
<1> QED
  BY <1>1, <1>3, <1>4, <1>5, <1>6 DEF Pruning

LEMMA PruningReopened ==
  ASSUME DailyTyped, Pruning, Daily!reopen(time), UNCHANGED max_files_, running' = TRUE
  PROVE  Pruning' /\ \A d : Excused(d) => Excused(d)'
<1>1. max_files_ \in Nat
  BY DEF DailyTyped
<1>2. /\ \A d \in Daily!AllDays : file[d] # Absent => file'[d] # Absent
      /\ file_' # Absent => file'[file_'] # Absent
      /\ pruned' \subseteq pruned
      /\ buffer' = <<>> /\ unlinked' = FALSE
      /\ doomed' = IF max_files_ > 0
                   THEN {d \in Daily!Dated' : Cardinality(Daily!Newer(d)') >= max_files_}
                   ELSE {}
  BY Reopening
<1>3. Daily!Dated \subseteq Daily!Dated'
  BY <1>2 DEF Daily!Dated
<1>4. ASSUME NEW d, Excused(d) PROVE Excused(d)'
  <2>1. Daily!Newer(d) \subseteq Daily!Newer(d)'
    BY <1>3 DEF Daily!Newer
  <2> QED
    BY <1>1, <1>4, <2>1, ExcusedStays
<1>5. \A d \in doomed' \cup pruned' : Excused(d)'
  <2>1. ASSUME NEW d \in doomed' PROVE Excused(d)'
    BY <1>2, <2>1 DEF Excused
  <2>2. ASSUME NEW d \in pruned' PROVE Excused(d)'
    BY <1>2, <1>4, <2>2 DEF Pruning
  <2> QED
    BY <2>1, <2>2
<1>6. doomed' \subseteq Daily!Dated'
  BY <1>2
<1>7. max_files_ > 0 => (Daily!ToPrune(Daily!Dated))' \subseteq doomed'
  BY <1>2, DailyCounts DEF Daily!ToPrune, Daily!Newer
<1> QED
  BY <1>2, <1>4, <1>5, <1>6, <1>7 DEF Pruning

LEMMA OldestDoomed ==
  ASSUME DailyTyped, doomed # {}
  PROVE  /\ Daily!Min(doomed) \in doomed
         /\ \A d \in doomed : Daily!Min(doomed) <= d
<1>1. doomed \subseteq Nat
  BY DailyConstants DEF DailyTyped, Daily!AllDays
<1>2. \E n \in doomed : \A m \in doomed : n <= m
  BY <1>1, Least
<1> QED
  BY <1>2 DEF Daily!Min

\* A file that goes has newer ones, and so has whatever is older than it.
LEMMA PruningPruned ==
  ASSUME DailyTyped, Pruning, Daily!Prune
  PROVE  Pruning' /\ \A d \in Daily!AllDays : Excused(d) => Excused(d)'
<1>1. PICK oldest : oldest = Daily!Min(doomed)
  OBVIOUS
<1>2. /\ \/ /\ file' = [file EXCEPT ![oldest] = Absent]
            /\ pruned' = pruned \cup {oldest}
            /\ unlinked' = (unlinked \/ file_ = oldest)
            /\ UNCHANGED faults
         \/ faults' = faults + 1 /\ UNCHANGED <<file, pruned, unlinked>>
      /\ doomed' = doomed \ {oldest} /\ doomed # {} /\ running
      /\ UNCHANGED <<max_files_, running, file_, buffer, line>>
  BY <1>1 DEF Daily!Prune, Daily!Fault
<1>3. /\ oldest \in doomed /\ \A d \in doomed : oldest <= d
      /\ doomed \subseteq Daily!AllDays /\ Daily!AllDays \subseteq Nat /\ Excused(oldest)
  <2>1. oldest \in doomed /\ \A d \in doomed : oldest <= d
    BY <1>1, <1>2, OldestDoomed
  <2>2. Daily!AllDays \subseteq Nat
    BY DailyConstants DEF Daily!AllDays
  <2> QED
    BY <2>1, <2>2 DEF DailyTyped, Pruning
<1>4. CASE faults' = faults + 1 /\ UNCHANGED <<file, pruned, unlinked>>
  <2>1. \A d : Daily!Newer(d)' = Daily!Newer(d)
    BY <1>4 DEF Daily!Newer, Daily!Dated
  <2>2. \A d : Excused(d) <=> Excused(d)'
    BY <1>2, <2>1 DEF Excused
  <2>3. faults' # 0
    BY <1>4 DEF DailyTyped
  <2>4. Daily!Dated' = Daily!Dated
    BY <1>4 DEF Daily!Dated
  <2> QED
    BY <1>2, <1>4, <2>2, <2>3, <2>4 DEF Pruning
<1>5. CASE /\ file' = [file EXCEPT ![oldest] = Absent]
           /\ pruned' = pruned \cup {oldest}
           /\ unlinked' = (unlinked \/ file_ = oldest)
           /\ UNCHANGED faults
  <2>1. /\ file'[oldest] = Absent
        /\ \A d \in Daily!AllDays : d # oldest => file'[d] = file[d]
    BY <1>3, <1>5 DEF DailyTyped
  <2>2. Daily!Dated' = Daily!Dated \ {oldest}
    BY <2>1 DEF Daily!Dated
  <2>3. ASSUME NEW d \in Daily!AllDays, Excused(d) PROVE Excused(d)'
    <3>1. CASE d < oldest
      <4>1. Daily!Newer(oldest) \subseteq Daily!Newer(d)'
        BY <1>3, <2>2, <3>1 DEF Daily!Newer, Daily!Dated
      <4> QED
        BY <1>2, <1>3, <4>1, ExcusedStays DEF DailyTyped
    <3>2. CASE d >= oldest
      <4>1. Daily!Newer(d) \subseteq Daily!Newer(d)'
        BY <1>3, <2>2, <3>2 DEF Daily!Newer, Daily!Dated
      <4> QED
        BY <1>2, <2>3, <4>1, ExcusedStays DEF DailyTyped
    <3> QED
      BY <1>3, <3>1, <3>2
  <2>4. doomed' \cup pruned' \subseteq doomed \cup pruned
    BY <1>2, <1>3, <1>5
  <2>5. \A d \in doomed' \cup pruned' : Excused(d)'
    BY <2>3, <2>4 DEF DailyTyped, Pruning
  <2>6. doomed' \subseteq Daily!Dated'
    BY <1>2, <2>2 DEF Pruning
  <2>7. Daily!ToPrune(Daily!Dated)' \subseteq Daily!ToPrune(Daily!Dated) \ {oldest}
    <3>1. ASSUME NEW d \in Daily!ToPrune(Daily!Dated)'
          PROVE  d \in Daily!ToPrune(Daily!Dated) \ {oldest}
      <4>1. /\ d \in Daily!Dated'
            /\ Cardinality({other \in Daily!Dated' : other > d}) >= max_files_
        BY <1>2, <3>1, DailyCounts DEF Daily!ToPrune
      <4>2. {other \in Daily!Dated : other > d} \subseteq Daily!AllDays
        BY DEF Daily!Dated
      <4>3. {other \in Daily!Dated' : other > d} \subseteq {other \in Daily!Dated : other > d}
        BY <2>2
      <4>4. Cardinality({other \in Daily!Dated : other > d}) >= max_files_
        <5>1. /\ Cardinality({other \in Daily!Dated' : other > d}) \in Nat
              /\ Cardinality({other \in Daily!Dated : other > d}) \in Nat
              /\ Cardinality({other \in Daily!Dated' : other > d}) <= Cardinality({other \in Daily!Dated : other > d})
          BY <4>2, <4>3, DaysCount
        <5>2. max_files_ \in Nat
          BY DEF DailyTyped
        <5> QED
          BY <4>1, <5>1, <5>2
      <4> QED
        BY <2>2, <4>1, <4>4, DailyCounts DEF Daily!ToPrune
    <3> QED
      BY <3>1
  <2>8. running' /\ max_files_' > 0 /\ faults' = 0 => Daily!ToPrune(Daily!Dated)' \subseteq doomed'
    BY <1>2, <1>5, <2>7 DEF Pruning
  <2>9. unlinked' => file_' \in pruned'
    BY <1>2, <1>5 DEF Pruning
  <2>10. file_' # Absent /\ ~unlinked' => file'[file_'] # Absent
    <3>1. SUFFICES ASSUME file_ # Absent, ~unlinked' PROVE file'[file_] # Absent
      BY <1>2
    <3>2. file_ # oldest /\ ~unlinked /\ file_ \in Daily!AllDays
      BY <1>5, <3>1 DEF DailyTyped
    <3> QED
      BY <2>1, <3>1, <3>2 DEF Pruning
  <2> QED
    BY <1>2, <2>3, <2>5, <2>6, <2>8, <2>9, <2>10 DEF Pruning
<1> QED
  BY <1>2, <1>4, <1>5

LEMMA PruningInit == Daily!Init => Pruning
<1> SUFFICES ASSUME Daily!Init PROVE Pruning
  OBVIOUS
<1> QED
  BY DEF Daily!Init, Pruning

\* Writing removes no file and makes none.
LEMMA FlushingKeepsNames ==
  ASSUME DailyTyped, Pruning, NEW n \in 0..Len(buffer), file' = Daily!Flushed(n)
  PROVE  \A d \in Daily!AllDays : file'[d] = Absent <=> file[d] = Absent
<1>1. PICK new : new = Daily!Flushed(n)
  OBVIOUS
<1> QED
  BY <1>1, Flushing

LEMMA PruningStep ==
  ASSUME DailyTyped, Pruning, [Daily!Next]_(Daily!vars)
  PROVE  Pruning'
<1>1. CASE Daily!Construct
  BY <1>1, PruningReopened DEF Daily!Construct
<1>2. CASE Daily!Log
  <2>1. CASE Daily!reopen(time)
    BY <1>2, <2>1, PruningReopened DEF Daily!Log
  <2>2. CASE UNCHANGED <<Daily!object, doomed, file, faults, Daily!ghosts>>
    BY <1>2, <2>2, PruningSame DEF Daily!Log, Daily!object, Daily!ghosts, Pruning
  <2> QED
    BY <1>2, <2>1, <2>2 DEF Daily!Log
<1>3. CASE Daily!Prune
  BY <1>3, PruningPruned
<1>4. CASE Daily!Write
  <2>1. /\ UNCHANGED <<max_files_, running, file_, doomed, pruned, unlinked, file>> /\ running
        /\ faults' = faults \/ faults' = faults + 1
        /\ file_ = Absent => buffer' = buffer
    BY <1>4 DEF Daily!Write, Daily!Fault, Daily!ghosts
  <2> QED
    BY <2>1, PruningSame DEF Pruning
<1>5. CASE Daily!flush
  <2>1. Len(buffer) \in 0..Len(buffer)
    BY DEF DailyTyped
  <2>2. \A d \in Daily!AllDays : file'[d] = Absent <=> file[d] = Absent
    BY <1>5, <2>1, FlushingKeepsNames DEF Daily!flush
  <2> QED
    BY <1>5, <2>2, PruningSame DEF Daily!flush
<1>6. CASE Daily!End
  <2>1. \A d \in Daily!AllDays : file'[d] = Absent <=> file[d] = Absent
    BY <1>6, FlushingKeepsNames DEF Daily!End
  <2>2. Daily!Dated' = Daily!Dated
    BY <2>1 DEF Daily!Dated
  <2>3. \A d : Excused(d)' <=> Excused(d)
    BY <1>6, <2>2 DEF Excused, Daily!Newer, Daily!End
  <2> QED
    BY <1>6, <2>3 DEF Pruning, Daily!End
<1>7. CASE Daily!Tick
  BY <1>7, PruningSame DEF Daily!Tick, Daily!object, Daily!ghosts, Pruning
<1>8. ASSUME NEW t \in 0..Days * DayTicks - 1, Daily!SetClockBack(t)
      PROVE  Pruning'
  BY <1>8, PruningSame DEF Daily!SetClockBack, Daily!object, Pruning
<1>9. CASE UNCHANGED Daily!vars
  BY <1>9, PruningSame DEF Daily!vars, Daily!object, Daily!ghosts, Pruning
<1> QED
  BY <1>1, <1>2, <1>3, <1>4, <1>5, <1>6, <1>7, <1>8, <1>9 DEF Daily!Next

LEMMA PruningSuffices ==
  ASSUME DailyTyped, Pruning
  PROVE  Daily!NewestDaysAreKept
<1>1. \A d \in pruned : Daily!Cardinality(Daily!Newer(d)) >= max_files_
  BY DailyCounts DEF Pruning, Excused
<1>2. ASSUME running, doomed = {}, max_files_ > 0, faults = 0
      PROVE  Daily!Cardinality(Daily!Dated) <= max_files_
  <2>1. Daily!ToPrune(Daily!Dated) = {}
    BY <1>2 DEF Pruning
  <2>2. max_files_ \in Nat /\ Daily!Dated \subseteq Daily!AllDays
    BY DEF DailyTyped, Daily!Dated
  <2>3. IsFiniteSet(Daily!Dated) /\ Cardinality(Daily!Dated) \in Nat
    BY <2>2, DaysCount
  <2>4. CASE Daily!Dated = {}
    BY <2>2, <2>4, FS_EmptySet, DailyCounts
  <2>5. CASE Daily!Dated # {}
    <3>1. Daily!Dated \subseteq Nat
      BY <2>2, DailyConstants DEF Daily!AllDays
    <3>2. PICK d \in Daily!Dated : \A other \in Daily!Dated : d <= other
      BY <2>5, <3>1, Least
    <3>3. {other \in Daily!Dated : other > d} = Daily!Dated \ {d}
      <4>1. d \in Nat /\ \A other \in Daily!Dated : other \in Nat /\ (other > d <=> other # d)
        BY <3>1, <3>2
      <4> QED
        BY <4>1
    <3>4. Cardinality(Daily!Dated \ {d}) = Cardinality(Daily!Dated) - 1
      BY <2>3, <3>2, FS_RemoveElement
    <3>5. ~(Cardinality(Daily!Dated \ {d}) >= max_files_)
      BY <2>1, <3>2, <3>3, DailyCounts DEF Daily!ToPrune
    <3>6. Cardinality(Daily!Dated) <= max_files_
      BY <2>2, <2>3, <3>4, <3>5
    <3> QED
      BY <3>6, DailyCounts
  <2> QED
    BY <2>4, <2>5
<1> QED
  BY <1>1, <1>2 DEF Daily!NewestDaysAreKept

-----------------------------------------------------------------------------
LEMMA PunctualInit == Daily!Init => Punctual
<1> SUFFICES ASSUME Daily!Init PROVE Punctual
  OBVIOUS
<1>1. DOMAIN <<>> = {}
  BY EmptySeq
<1>2. ToSet(<<>>) = {}
  BY <1>1 DEF ToSet
<1> QED
  BY <1>2 DEF Daily!Init, Punctual

LEMMA PunctualReopened ==
  ASSUME DailyTyped, Pruning, Punctual, Daily!reopen(time), UNCHANGED <<max_files_, time>>, running' = TRUE,
         line' # NoLine => line'.day = Daily!DayOf(time)
  PROVE  Punctual'
<1>1. /\ file' \in [Daily!AllDays -> Seq(DatedLine) \cup {Absent}]
      /\ \A d \in Daily!AllDays : file[d] # Absent => file'[d] # Absent /\ ToSet(file[d]) \subseteq ToSet(file'[d])
      /\ \/ file_' = Daily!DayOf(time) /\ file_' \in Daily!AllDays
         \/ file_' = Absent
      /\ \A l \in logged' \ logged :
           /\ l \in ToSet(buffer) /\ file_ \in Daily!AllDays
           /\ unlinked \/ (file'[file_] # Absent /\ l \in ToSet(file'[file_]))
      /\ buffer' = <<>>
      /\ ~misled' => ~misled /\ next_rotation_' = (Daily!DayOf(time) + 1) * DayTicks
  BY Reopening
<1>2. \A d : Excused(d) => Excused(d)'
  BY PruningReopened
<1>3. Daily!DayOf(time) * DayTicks <= time
  BY DayOfTime DEF DailyTyped
<1>4. ToSet(<<>>) = {}
  BY EmptySeq DEF ToSet
<1>5. ASSUME ~misled', NEW l \in logged'
      PROVE  (file'[l.day] # Absent /\ l \in ToSet(file'[l.day])) \/ Excused(l.day)'
  <2>1. CASE l \in logged
    <3>1. l.day \in Daily!AllDays
      BY <2>1 DEF DailyTyped, DatedLine
    <3>2. (file[l.day] # Absent /\ l \in ToSet(file[l.day])) \/ Excused(l.day)
      BY <1>1, <1>5, <2>1 DEF Punctual
    <3> QED
      BY <1>1, <1>2, <3>1, <3>2
  <2>2. CASE l \notin logged
    <3>1. l.day = file_ /\ (unlinked \/ (file'[file_] # Absent /\ l \in ToSet(file'[file_])))
      BY <1>1, <1>5, <2>2 DEF Punctual
    <3>2. unlinked => Excused(file_)
      BY DEF Pruning
    <3> QED
      BY <1>2, <3>1, <3>2
  <2> QED
    BY <2>1, <2>2
<1> QED
  BY <1>1, <1>3, <1>4, <1>5 DEF Punctual

\* What is written is written to the file of its day.
LEMMA PunctualFlushed ==
  ASSUME DailyTyped, Pruning, Punctual, NEW n \in 0..Len(buffer),
         file' = Daily!Flushed(n), logged' = Daily!Reached(n), UNCHANGED <<max_files_, misled>>
  PROVE  (~misled => \A l \in logged :
            (file[l.day] # Absent /\ l \in ToSet(file[l.day])) \/ Excused(l.day))'
<1>1. PICK new : new = Daily!Flushed(n)
  OBVIOUS
<1>2. /\ \A d \in Daily!AllDays : /\ new[d] = Absent <=> file[d] = Absent
                                  /\ file[d] # Absent => ToSet(file[d]) \subseteq ToSet(new[d])
      /\ \A l \in logged' \ logged :
           /\ l \in ToSet(buffer) /\ file_ \in Daily!AllDays
           /\ unlinked \/ (new[file_] # Absent /\ l \in ToSet(new[file_]))
  BY <1>1, Flushing
<1>3. \A d : Excused(d)' <=> Excused(d)
  <2>1. Daily!Dated' = Daily!Dated
    BY <1>1, <1>2 DEF Daily!Dated
  <2> QED
    BY <2>1 DEF Excused, Daily!Newer
<1>4. ASSUME ~misled', NEW l \in logged'
      PROVE  (file'[l.day] # Absent /\ l \in ToSet(file'[l.day])) \/ Excused(l.day)'
  <2>1. CASE l \in logged
    <3>1. l.day \in Daily!AllDays
      BY <2>1 DEF DailyTyped, DatedLine
    <3>2. (file[l.day] # Absent /\ l \in ToSet(file[l.day])) \/ Excused(l.day)
      BY <1>4, <2>1 DEF Punctual
    <3> QED
      BY <1>1, <1>2, <1>3, <3>1, <3>2
  <2>2. CASE l \notin logged
    <3>1. l.day = file_ /\ (unlinked \/ (file'[file_] # Absent /\ l \in ToSet(file'[file_])))
      BY <1>1, <1>2, <1>4, <2>2 DEF Punctual
    <3>2. unlinked => Excused(file_)
      BY DEF Pruning
    <3> QED
      BY <1>3, <3>1, <3>2
  <2> QED
    BY <2>1, <2>2
<1> QED
  BY <1>4

LEMMA PunctualStep ==
  ASSUME DailyTyped, Pruning, Punctual, [Daily!Next]_(Daily!vars)
  PROVE  Punctual'
<1>1. ToSet(<<>>) = {}
  BY EmptySeq DEF ToSet
<1>2. CASE Daily!Construct
  <2>1. line' = NoLine
    BY <1>2 DEF Daily!Construct, Pruning
  <2> QED
    BY <1>2, <2>1, PunctualReopened DEF Daily!Construct
<1>3. CASE Daily!Log
  <2>1. UNCHANGED <<max_files_, time>> /\ running' = TRUE /\ line'.day = Daily!DayOf(time)
    BY <1>3 DEF Daily!Log
  <2>2. CASE Daily!reopen(time)
    BY <2>1, <2>2, PunctualReopened
  <2>3. CASE time < next_rotation_ /\ UNCHANGED <<Daily!object, doomed, file, faults, Daily!ghosts>>
    <3>1. UNCHANGED <<file_, buffer, next_rotation_, file, misled, logged>>
      BY <2>3 DEF Daily!object, Daily!ghosts
    <3>2. \A d : Excused(d)' <=> Excused(d)
      BY <2>1, <3>1 DEF Excused, Daily!Newer, Daily!Dated
    <3>3. ~misled /\ file_ # Absent => file_ = Daily!DayOf(time)
      <4>1. SUFFICES ASSUME ~misled, file_ # Absent PROVE file_ = Daily!DayOf(time)
        OBVIOUS
      <4>2. file_ \in Nat /\ file_ * DayTicks <= time /\ time < (file_ + 1) * DayTicks
        BY <2>3, <4>1, DailyConstants DEF Punctual, DailyTyped, Daily!AllDays
      <4> QED
        BY <4>2, DayIsOne DEF DailyTyped
    <3> QED
      BY <2>1, <3>1, <3>2, <3>3 DEF Punctual
  <2>4. Daily!reopen(time) \/ (time < next_rotation_ /\ UNCHANGED <<Daily!object, doomed, file, faults, Daily!ghosts>>)
    <3>1. time \in Int /\ next_rotation_ \in Int
      BY DEF DailyTyped
    <3> QED
      BY <1>3, <3>1 DEF Daily!Log
  <2> QED
    BY <2>2, <2>3, <2>4
<1>4. CASE Daily!Prune
  <2>1. PICK oldest : oldest = Daily!Min(doomed)
    OBVIOUS
  <2>2. /\ file' = [file EXCEPT ![oldest] = Absent] \/ file' = file
        /\ doomed # {}
        /\ UNCHANGED <<max_files_, time, running, file_, buffer, next_rotation_, line, misled, logged>>
    BY <1>4, <2>1 DEF Daily!Prune
  <2>3. oldest \in doomed /\ oldest \in Daily!AllDays /\ Excused(oldest)
    BY <2>1, <2>2, OldestDoomed DEF DailyTyped, Pruning
  <2>4. \A d \in Daily!AllDays : Excused(d) => Excused(d)'
    BY <1>4, PruningPruned
  <2>5. \A d \in Daily!AllDays : d # oldest => file'[d] = file[d]
    BY <2>2, <2>3 DEF DailyTyped
  <2>6. ASSUME ~misled', NEW l \in logged'
        PROVE  (file'[l.day] # Absent /\ l \in ToSet(file'[l.day])) \/ Excused(l.day)'
    <3>1. l.day \in Daily!AllDays
      BY <2>2, <2>6 DEF DailyTyped, DatedLine
    <3>2. (file[l.day] # Absent /\ l \in ToSet(file[l.day])) \/ Excused(l.day)
      BY <2>2, <2>6 DEF Punctual
    <3> QED
      BY <2>3, <2>4, <2>5, <3>1, <3>2
  <2> QED
    BY <2>2, <2>6 DEF Punctual
<1>5. CASE Daily!Write
  <2>1. /\ UNCHANGED <<max_files_, time, file_, next_rotation_, file, misled, logged>> /\ line' = NoLine
        /\ \/ buffer' = buffer
           \/ file_ # Absent /\ buffer' = Append(buffer, line)
        /\ line # NoLine
    BY <1>5 DEF Daily!Write, Daily!ghosts
  <2>2. \A d : Excused(d)' <=> Excused(d)
    BY <2>1 DEF Excused, Daily!Newer, Daily!Dated
  <2>3. ASSUME ~misled, NEW l \in ToSet(buffer') PROVE l.day = file_
    <3>1. CASE buffer' = buffer
      BY <2>3, <3>1 DEF Punctual
    <3>2. CASE file_ # Absent /\ buffer' = Append(buffer, line)
      <4>1. line \in DatedLine /\ line.day = file_ /\ buffer \in Seq(DatedLine)
        BY <2>1, <2>3, <3>2 DEF Punctual, DailyTyped
      <4>2. <<line>> \in Seq(DatedLine) /\ ToSet(<<line>>) = {line} /\ buffer' = buffer \o <<line>>
        BY <3>2, <4>1, AppendIsConcat DEF ToSet
      <4>3. ToSet(buffer \o <<line>>) = ToSet(buffer) \cup ToSet(<<line>>)
        <5>1. \A s, t \in Seq(DatedLine) : ToSet(s \o t) = ToSet(s) \cup ToSet(t)
          BY MembersOfConcat
        <5> QED
          BY <4>1, <4>2, <5>1
      <4>4. l \in ToSet(buffer) \/ l = line
        BY <2>3, <4>2, <4>3
      <4> QED
        BY <2>3, <4>1, <4>4 DEF Punctual
    <3> QED
      BY <2>1, <3>1, <3>2
  <2> QED
    BY <2>1, <2>2, <2>3 DEF Punctual
<1>6. CASE Daily!flush
  <2>1. Len(buffer) \in 0..Len(buffer)
    BY DEF DailyTyped
  <2>2. (~misled => \A l \in logged :
            (file[l.day] # Absent /\ l \in ToSet(file[l.day])) \/ Excused(l.day))'
    BY <1>6, <2>1, PunctualFlushed DEF Daily!flush
  <2> QED
    BY <1>1, <1>6, <2>2 DEF Daily!flush, Punctual
<1>7. CASE Daily!End
  <2>1. PICK n \in 0..Len(buffer) : file' = Daily!Flushed(n) /\ logged' = Daily!Reached(n)
    BY <1>7 DEF Daily!End
  <2>2. (~misled => \A l \in logged :
            (file[l.day] # Absent /\ l \in ToSet(file[l.day])) \/ Excused(l.day))'
    BY <1>7, <2>1, PunctualFlushed DEF Daily!End
  <2> QED
    BY <1>1, <1>7, <2>2 DEF Daily!End, Punctual
<1>8. CASE Daily!Tick
  <2>1. /\ UNCHANGED <<max_files_, file_, buffer, next_rotation_, line, file, misled, logged>>
        /\ time' = time + 1
    BY <1>8 DEF Daily!Tick, Daily!object, Daily!ghosts
  <2>2. \A d : Excused(d)' <=> Excused(d)
    BY <2>1 DEF Excused, Daily!Newer, Daily!Dated
  <2>3. file_ # Absent /\ file_ * DayTicks <= time => file_ * DayTicks <= time'
    <3>1. file_ # Absent => file_ * DayTicks \in Int
      BY DailyConstants DEF DailyTyped, Daily!AllDays
    <3>2. time \in Int
      BY DEF DailyTyped
    <3> QED
      BY <2>1, <3>1, <3>2
  <2> QED
    BY <2>1, <2>2, <2>3 DEF Punctual
<1>9. ASSUME NEW t \in 0..Days * DayTicks - 1, Daily!SetClockBack(t)
      PROVE  Punctual'
  BY <1>9 DEF Daily!SetClockBack, Punctual
<1>10. CASE UNCHANGED Daily!vars
  <2>1. UNCHANGED <<max_files_, time, file_, buffer, next_rotation_, line, file, misled, logged>>
    BY <1>10 DEF Daily!vars, Daily!object, Daily!ghosts
  <2>2. \A d : Excused(d)' <=> Excused(d)
    BY <2>1 DEF Excused, Daily!Newer, Daily!Dated
  <2> QED
    BY <2>1, <2>2 DEF Punctual
<1> QED
  BY <1>2, <1>3, <1>4, <1>5, <1>6, <1>7, <1>8, <1>9, <1>10 DEF Daily!Next

LEMMA PunctualSuffices ==
  ASSUME Punctual
  PROVE  Daily!LinesReachTheirDay
BY DailyCounts, DailyMembers DEF Punctual, Excused, Daily!LinesReachTheirDay

-----------------------------------------------------------------------------
DailyInv == sink = "daily" => DailyTyped /\ Pruning /\ Punctual

LEMMA DailyAlways == MCSpec => []DailyInv
<1>1. MCInit => DailyInv
  BY DailyTypedInit, PruningInit, PunctualInit DEF MCInit, DailyInv, Plain!Init
<1>2. DailyInv /\ [MCNext]_all => DailyInv'
  <2> SUFFICES ASSUME DailyInv, [MCNext]_all, sink' = "daily"
              PROVE  (DailyTyped /\ Pruning /\ Punctual)'
    BY DEF DailyInv
  <2>1. sink = "daily"
    BY SinkStays
  <2>2. [Daily!Next]_(Daily!vars)
    <3>1. UNCHANGED all => UNCHANGED Daily!vars
      BY DEF all, dailyOnly, common, Daily!vars, Daily!object, Daily!ghosts
    <3> QED
      BY <2>1, <3>1 DEF MCNext
  <2> QED
    BY <2>1, <2>2, DailyTypedStep, PruningStep, PunctualStep DEF DailyInv
<1> QED
  BY <1>1, <1>2, PTL DEF MCSpec

(* A line that has reached a file is in the file of its day, or that file has
   been removed for max_files newer ones, while the clock can be trusted:
   log() compares with a midnight that was computed when the file was opened
   (daily_file_sink.hpp:40-44).                                            *)
THEOREM DailyLinesCorrect == MCSpec => []LinesReachTheirDay
<1>1. DailyInv => LinesReachTheirDay
  BY PunctualSuffices DEF DailyInv, LinesReachTheirDay
<1> QED
  BY <1>1, DailyAlways, PTL

(* prune() removes none of the newest max_files days, wherever it is stopped
   and whatever the clock says (daily_file_sink.hpp:21-23).                *)
THEOREM DailyPruneCorrect == MCSpec => []NewestDaysAreKept
<1>1. DailyInv => NewestDaysAreKept
  BY PruningSuffices DEF DailyInv, NewestDaysAreKept
<1> QED
  BY <1>1, DailyAlways, PTL

-----------------------------------------------------------------------------
(* The file sink, the console sink and the memory sink.  The lemmas are about
   any sequence of lines and newlines, any set S of lines before which others
   may be missing, and any set X of lines that are excused.                *)

\* Two lines with none between them are neighbours, or lines were lost there.
HoleFree(s, S) ==
  \A i, j \in 1..Len(s) :
    i < j /\ s[i] # 0 /\ s[j] # 0 /\ (\A k \in i + 1..j - 1 : s[k] = 0)
      => s[j] = s[i] + 1 \/ (s[j] \in S /\ s[j] > s[i])

\* A line is followed by its newline, or by one of S.
Terminated(s, S, X) ==
  \A i \in 1..Len(s) - 1 : s[i] # 0 /\ s[i] \notin X => s[i + 1] = 0 \/ s[i + 1] \in S

\* The last line is the one before n, or lines were lost between them.
Follows(n, s, S) ==
  \A i \in 1..Len(s) :
    s[i] # 0 /\ (\A k \in i + 1..Len(s) : s[k] = 0) => n = s[i] + 1 \/ (n \in S /\ n > s[i])

EndsIn(s, X) == Len(s) # 0 => s[Len(s)] = 0 \/ s[Len(s)] \in X

(* What is lost from the end of a stream leaves no hole.                    *)
LEMMA BeginningHasNoHoles ==
  ASSUME NEW s \in Seq(Nat), NEW t \in Seq(Nat), Begins(t, s), NEW S, NEW U, S \subseteq U,
         NEW X, NEW Y, X \subseteq Y
  PROVE  /\ HoleFree(s, S) => HoleFree(t, U)
         /\ Terminated(s, S, X) => Terminated(t, U, Y)
<1>1. Len(s) \in Nat /\ Len(t) \in Nat /\ Len(t) <= Len(s) /\ \A k \in 1..Len(t) : t[k] = s[k]
  BY DEF Begins
<1>2. ASSUME HoleFree(s, S) PROVE HoleFree(t, U)
  <2> SUFFICES ASSUME NEW i \in 1..Len(t), NEW j \in 1..Len(t), i < j, t[i] # 0, t[j] # 0,
                      \A k \in i + 1..j - 1 : t[k] = 0
               PROVE  t[j] = t[i] + 1 \/ (t[j] \in U /\ t[j] > t[i])
    BY DEF HoleFree
  <2>1. i \in 1..Len(s) /\ j \in 1..Len(s) /\ t[i] = s[i] /\ t[j] = s[j]
    BY <1>1, SMTT(20)
  <2>2. \A k \in i + 1..j - 1 : s[k] = 0
    <3> TAKE k \in i + 1..j - 1
    <3>1. k \in 1..Len(t)
      BY <1>1
    <3> QED
      BY <1>1, <3>1
  <2> QED
    BY <1>2, <2>1, <2>2 DEF HoleFree
<1>3. ASSUME Terminated(s, S, X) PROVE Terminated(t, U, Y)
  <2> SUFFICES ASSUME NEW i \in 1..Len(t) - 1, t[i] # 0, t[i] \notin Y
               PROVE  t[i + 1] = 0 \/ t[i + 1] \in U
    BY DEF Terminated
  <2>1. i \in 1..Len(s) - 1 /\ i \in 1..Len(t) /\ i + 1 \in 1..Len(t)
    BY <1>1
  <2> QED
    BY <1>1, <1>3, <2>1 DEF Terminated
<1> QED
  BY <1>2, <1>3

(* Nor does a line that follows the last one, or a newline.                 *)
LEMMA AppendingLeavesNoHole ==
  ASSUME NEW s \in Seq(Nat), NEW e \in Nat, NEW S, HoleFree(s, S), e # 0 => Follows(e, s, S)
  PROVE  HoleFree(Append(s, e), S)
<1> DEFINE t == Append(s, e)
<1>1. /\ t \in Seq(Nat) /\ Len(t) = Len(s) + 1 /\ Len(s) \in Nat
      /\ \A i \in 1..Len(s) : t[i] = s[i]
      /\ t[Len(s) + 1] = e
  BY AppendProperties
<1> HIDE DEF t
<1> SUFFICES ASSUME NEW i \in 1..Len(t), NEW j \in 1..Len(t), i < j, t[i] # 0, t[j] # 0,
                    \A k \in i + 1..j - 1 : t[k] = 0
             PROVE  t[j] = t[i] + 1 \/ (t[j] \in S /\ t[j] > t[i])
  BY DEF HoleFree, t
<1>2. i \in 1..Len(s) /\ t[i] = s[i]
  BY <1>1, SMTT(20)
<1>3. \A k \in i + 1..j - 1 : s[k] = 0
  <2> TAKE k \in i + 1..j - 1
  <2>1. k \in 1..Len(s)
    BY <1>1
  <2> QED
    BY <1>1, <2>1
<1>4. CASE j \in 1..Len(s)
  BY <1>1, <1>2, <1>3, <1>4 DEF HoleFree
<1>5. CASE j = Len(s) + 1
  <2>1. j - 1 = Len(s) /\ t[j] = e
    BY <1>1, <1>5
  <2> QED
    BY <1>2, <1>3, <2>1 DEF Follows
<1>6. j \in 1..Len(s) \/ j = Len(s) + 1
  <2>1. Len(t) = Len(s) + 1 /\ Len(s) \in Nat
    BY <1>1
  <2> QED
    BY <2>1
<1> QED
  BY <1>4, <1>5, <1>6

LEMMA AppendingTerminates ==
  ASSUME NEW s \in Seq(Nat), NEW e \in Nat, NEW S, NEW X, Terminated(s, S, X),
         e = 0 \/ e \in S \/ EndsIn(s, X)
  PROVE  Terminated(Append(s, e), S, X)
<1> DEFINE t == Append(s, e)
<1>1. /\ Len(t) = Len(s) + 1 /\ Len(s) \in Nat
      /\ \A i \in 1..Len(s) : t[i] = s[i]
      /\ t[Len(s) + 1] = e
  BY AppendProperties
<1> HIDE DEF t
<1> SUFFICES ASSUME NEW i \in 1..Len(t) - 1, t[i] # 0, t[i] \notin X
             PROVE  t[i + 1] = 0 \/ t[i + 1] \in S
  BY DEF Terminated, t
<1>2. i \in 1..Len(s) /\ t[i] = s[i]
  BY <1>1
<1>3. CASE i = Len(s)
  BY <1>1, <1>2, <1>3 DEF EndsIn
<1>4. CASE i # Len(s)
  <2>1. i \in 1..Len(s) - 1 /\ i + 1 \in 1..Len(s)
    BY <1>1, <1>2, <1>4
  <2> QED
    BY <1>1, <1>2, <2>1 DEF Terminated
<1> QED
  BY <1>3, <1>4

(* Then the next line follows.                                             *)
LEMMA NextFollows ==
  ASSUME NEW s \in Seq(Nat), NEW e \in Nat, NEW n \in Nat, NEW S,
         IF e = 0 THEN Follows(n, s, S) ELSE n = e + 1
  PROVE  Follows(n, Append(s, e), S)
<1> DEFINE t == Append(s, e)
<1>1. /\ Len(t) = Len(s) + 1 /\ Len(s) \in Nat
      /\ \A i \in 1..Len(s) : t[i] = s[i]
      /\ t[Len(s) + 1] = e
  BY AppendProperties
<1> HIDE DEF t
<1> SUFFICES ASSUME NEW i \in 1..Len(t), t[i] # 0, \A k \in i + 1..Len(t) : t[k] = 0
             PROVE  n = t[i] + 1 \/ (n \in S /\ n > t[i])
  BY DEF Follows, t
<1>2. CASE i = Len(s) + 1
  BY <1>1, <1>2
<1>3. CASE i \in 1..Len(s)
  <2>1. t[Len(s) + 1] = 0
    BY <1>1, <1>3, SMTT(20)
  <2>2. \A k \in i + 1..Len(s) : s[k] = 0
    <3> TAKE k \in i + 1..Len(s)
    <3>1. k \in 1..Len(s) /\ k \in i + 1..Len(t)
      BY <1>1, <1>3
    <3> QED
      BY <1>1, <3>1
  <2> QED
    BY <1>1, <1>3, <2>1, <2>2 DEF Follows
<1> QED
  BY <1>1, <1>2, <1>3

(* A stream's file and its buffer, as one sequence.                         *)
LEMMA PiecesAppended ==
  ASSUME NEW f \in Seq(Nat), NEW b \in Seq(Nat), NEW e \in Nat
  PROVE  f \o Append(b, e) = Append(f \o b, e)
<1>1. /\ <<e>> \in Seq(Nat) /\ f \o b \in Seq(Nat)
      /\ Append(b, e) = b \o <<e>> /\ Append(f \o b, e) = (f \o b) \o <<e>>
  BY AppendIsConcat, ConcatProperties, SMTT(20)
<1> QED
  BY <1>1, ConcatAssociative

LEMMA PiecesWritten ==
  ASSUME NEW f \in Seq(Nat), NEW b \in Seq(Nat), NEW n \in 0..Len(b)
  PROVE  /\ f \o SubSeq(b, 1, n) \in Seq(Nat)
         /\ Begins(f \o SubSeq(b, 1, n), f \o b)
         /\ n = Len(b) => f \o SubSeq(b, 1, n) = f \o b
<1> DEFINE t == SubSeq(b, 1, n)
<1>1. /\ t \in Seq(Nat) /\ Len(t) = n /\ \A i \in 1..n : t[i] = b[i]
      /\ n = Len(b) => t = b
  <2>1. Len(b) \in Nat /\ n \in Nat /\ n <= Len(b) /\ \A i \in 1..n : i \in 1..Len(b)
    OBVIOUS
  <2>2. t \in Seq(Nat) /\ Len(t) = n /\ \A i \in 1..n : t[i] = b[i]
    BY <2>1, SubSeqProperties
  <2>3. n = Len(b) => t = b
    BY <2>1, <2>2, SeqEqual
  <2> QED
    BY <2>2, <2>3
<1> HIDE DEF t
<1>2. /\ f \o t \in Seq(Nat) /\ Len(f \o t) = Len(f) + n
      /\ \A i \in 1..Len(f) + n : (f \o t)[i] = IF i <= Len(f) THEN f[i] ELSE t[i - Len(f)]
  BY <1>1, ConcatProperties
<1>3. /\ Len(f \o b) = Len(f) + Len(b) /\ Len(f) \in Nat /\ Len(b) \in Nat
      /\ \A i \in 1..Len(f) + Len(b) : (f \o b)[i] = IF i <= Len(f) THEN f[i] ELSE b[i - Len(f)]
  BY ConcatProperties
<1>4. ASSUME NEW i \in 1..Len(f) + n PROVE (f \o t)[i] = (f \o b)[i]
  <2>1. i \in 1..Len(f) + Len(b) /\ (i <= Len(f) \/ i - Len(f) \in 1..n)
    BY <1>3
  <2> QED
    BY <1>1, <1>2, <1>3, <2>1
<1>5. Begins(f \o t, f \o b)
  BY <1>2, <1>3, <1>4 DEF Begins
<1> QED
  BY <1>1, <1>2, <1>5 DEF t

PlainSinks == {"file", "console", "memory"}

PlainTyped ==
  /\ capacity_ \in Nat \ {0}
  /\ lines \in Nat /\ cleared \in Nat /\ cleared <= lines /\ starts \subseteq Nat
  /\ running \in BOOLEAN
  /\ stream \in {"good", "bad", "closed"}
  /\ kept \in Seq(Nat) /\ buffer \in Seq(Nat)
  /\ ending \in [Loggers -> Nat]
  /\ ~running => buffer = <<>> /\ ending = Plain!NotEnding
  /\ sink = "console" /\ running => stream = "good"
  /\ sink # "console" => ending = Plain!NotEnding
  /\ sink = "memory" => buffer = <<>>

\* The lines before which others may be missing.
Breaks == starts \cup resumes

(* What StreamsHaveNoHoles follows from: while the stream is good the next
   line follows the last one, and that one has its newline, unless a logger is
   about to write it or another logger has written behind it.              *)
Streaming(s) ==
  /\ \A i \in 1..Len(s) : s[i] <= lines
  /\ HoleFree(s, Breaks)
  /\ Terminated(s, Breaks, shared)
  /\ running /\ stream = "good" =>
       /\ Follows(lines + 1, s, Breaks)
       /\ EndsIn(s, shared \cup Plain!Range(ending)) \/ lines + 1 \in Breaks

Streamed == sink # "memory" => \A s : s = Plain!Pieces => Streaming(s)

LEMMA PlainConstants == Capacities \subseteq Nat
BY SinksAssumption DEF Plain!PlainAssumption

(* A line is added to a stream, or a newline.                               *)
LEMMA LineAdded ==
  ASSUME NEW s \in Seq(Nat), NEW e \in Nat \ {0}, NEW S, NEW r, r = Append(s, e),
         HoleFree(s, S), Follows(e, s, S), \A i \in 1..Len(s) : s[i] < e
  PROVE  /\ r \in Seq(Nat) /\ HoleFree(r, S) /\ Follows(e + 1, r, S) /\ \A i \in 1..Len(r) : r[i] <= e
         /\ \A X : Terminated(s, S, X) /\ (EndsIn(s, X) \/ e \in S) => Terminated(r, S, X)
         /\ \A X : e \in X => EndsIn(r, X)
<1>1. /\ r \in Seq(Nat)
      /\ \A i \in 1..Len(s) : r[i] = s[i]
      /\ r[Len(s) + 1] = e
  BY AppendProperties
<1>2. Len(r) = Len(s) + 1 /\ Len(s) \in Nat
  BY AppendProperties
<1>3. HoleFree(r, S)
  BY AppendingLeavesNoHole
<1>4. Follows(e + 1, r, S)
  <2>1. e + 1 \in Nat
    OBVIOUS
  <2> QED
    BY <2>1, NextFollows
<1>5. ASSUME NEW i \in 1..Len(r) PROVE r[i] <= e
  <2>1. i \in 1..Len(s) \/ i = Len(s) + 1
    BY <1>2
  <2>2. ASSUME i \in 1..Len(s) PROVE r[i] = s[i] /\ s[i] < e /\ s[i] \in Nat
    BY <1>1, <2>2
  <2>3. i = Len(s) + 1 => r[i] = e
    BY <1>1
  <2> QED
    BY <2>1, <2>2, <2>3
<1>6. ASSUME NEW X, Terminated(s, S, X), EndsIn(s, X) \/ e \in S PROVE Terminated(r, S, X)
  BY <1>6, AppendingTerminates
<1>7. ASSUME NEW X, e \in X PROVE EndsIn(r, X)
  BY <1>1, <1>2, <1>7 DEF EndsIn
<1> QED
  BY <1>1, <1>3, <1>4, <1>5, <1>6, <1>7

LEMMA NewlineAdded ==
  ASSUME NEW s \in Seq(Nat), NEW n \in Nat, NEW m \in Nat, NEW S, NEW r, r = Append(s, 0),
         HoleFree(s, S), Follows(n, s, S), \A i \in 1..Len(s) : s[i] <= m
  PROVE  /\ r \in Seq(Nat) /\ HoleFree(r, S) /\ Follows(n, r, S) /\ \A i \in 1..Len(r) : r[i] <= m
         /\ \A X : Terminated(s, S, X) => Terminated(r, S, X)
         /\ \A X : EndsIn(r, X)
<1>1. /\ r \in Seq(Nat)
      /\ \A i \in 1..Len(s) : r[i] = s[i]
      /\ r[Len(s) + 1] = 0
  BY AppendProperties
<1>2. Len(r) = Len(s) + 1 /\ Len(s) \in Nat
  BY AppendProperties
<1>3. HoleFree(r, S)
  BY AppendingLeavesNoHole
<1>4. Follows(n, r, S)
  BY NextFollows
<1>5. ASSUME NEW i \in 1..Len(r) PROVE r[i] <= m
  <2>1. i \in 1..Len(s) \/ i = Len(s) + 1
    BY <1>2
  <2>2. ASSUME i \in 1..Len(s) PROVE r[i] = s[i] /\ s[i] <= m
    BY <1>1, <2>2
  <2>3. i = Len(s) + 1 => r[i] = 0
    BY <1>1
  <2> QED
    BY <2>1, <2>2, <2>3
<1>6. ASSUME NEW X, Terminated(s, S, X) PROVE Terminated(r, S, X)
  BY <1>6, AppendingTerminates
<1>7. \A X : EndsIn(r, X)
  BY <1>1, <1>2 DEF EndsIn
<1> QED
  BY <1>1, <1>3, <1>4, <1>5, <1>6, <1>7

LEMMA PlainTypedInit == Plain!Init => PlainTyped
<1>1. <<>> \in Seq(Nat)
  BY EmptySeq
<1> SUFFICES ASSUME Plain!Init PROVE PlainTyped
  OBVIOUS
<1>2. /\ capacity_ = 1 /\ lines = 0 /\ cleared = 0 /\ starts = {} /\ kept = <<>> /\ buffer = <<>>
      /\ ~running /\ running \in BOOLEAN /\ ending = Plain!NotEnding /\ stream = "closed"
  BY DEF Plain!Init
<1>3. lines \in Nat /\ cleared \in Nat /\ cleared <= lines /\ capacity_ \in Nat \ {0}
  BY <1>2
<1>4. Plain!NotEnding \in [Loggers -> Nat]
  BY DEF Plain!NotEnding
<1> QED
  BY <1>1, <1>2, <1>3, <1>4 DEF PlainTyped

\* The end of the buffer is lost.
LEMMA ConsoleTyped ==
  ASSUME PlainTyped, Plain!LoseEnd
  PROVE  buffer' \in Seq(Nat) /\ \E n \in 0..Len(buffer) : buffer' = SubSeq(buffer, 1, n)
<1>1. PICK b : b = buffer
  OBVIOUS
<1>2. b \in Seq(Nat)
  BY <1>1 DEF PlainTyped
<1>3. PICK n \in 0..Len(b) : buffer' = SubSeq(b, 1, n)
  BY <1>1 DEF Plain!LoseEnd
<1>4. SubSeq(b, 1, n) \in Seq(Nat)
  BY <1>2, SMTT(20)
<1> QED
  BY <1>1, <1>3, <1>4

\* What a stream has not written is lost when it ends.
LEMMA PlainTypedEnded ==
  ASSUME PlainTyped, NEW n \in 0..Len(buffer), Plain!Written(n)
  PROVE  kept' \in Seq(Nat)
<1>1. PICK f, b : f = kept /\ b = buffer
  OBVIOUS
<1>2. f \in Seq(Nat) /\ b \in Seq(Nat) /\ n \in 0..Len(b)
  BY <1>1 DEF PlainTyped
<1>3. f \o SubSeq(b, 1, n) \in Seq(Nat)
  BY <1>2, PiecesWritten
<1> QED
  BY <1>1, <1>3 DEF Plain!Written

LEMMA PlainTypedStep ==
  ASSUME PlainTyped, sink \in PlainSinks, [Plain!Next]_(Plain!vars)
  PROVE  PlainTyped'
<1>1. CASE UNCHANGED Plain!vars
  BY <1>1 DEF PlainTyped, Plain!vars, Plain!NotEnding
<1>2. ASSUME NEW truncate \in BOOLEAN, NEW capacity \in Capacities, Plain!Construct(truncate, capacity)
      PROVE  PlainTyped'
  <2>1. capacity \in Nat /\ <<>> \in Seq(Nat)
    BY PlainConstants, EmptySeq
  <2>2. capacity_' \in Nat \ {0}
    BY <1>2, <2>1 DEF Plain!Construct
  <2>3. kept' \in Seq(Nat) /\ stream' \in {"good", "bad", "closed"} /\ (sink = "console" => stream' = "good")
    <3>1. kept \in Seq(Nat) /\ stream \in {"good", "bad", "closed"}
      BY DEF PlainTyped
    <3> QED
      BY <1>2, <2>1, <3>1 DEF Plain!Construct
  <2>4. /\ cleared' \in Nat /\ lines' \in Nat /\ cleared' <= lines' /\ starts' \subseteq Nat /\ buffer' \in Seq(Nat)
        /\ running' = TRUE /\ ending' = Plain!NotEnding /\ sink' = sink /\ ending' \in [Loggers -> Nat]
        /\ sink = "memory" => buffer' = <<>>
    BY <1>2 DEF Plain!Construct, PlainTyped
  <2>5. UNCHANGED Plain!NotEnding
    BY DEF Plain!NotEnding
  <2> QED
    BY <2>2, <2>3, <2>4, <2>5 DEF PlainTyped
<1>3. CASE Plain!LogFile
  <2>1. /\ lines' = lines + 1 /\ running /\ sink = "file"
        /\ UNCHANGED <<kept, ending, shared, sink, capacity_, running, starts, cleared>>
    BY <1>3 DEF Plain!LogFile, Plain!NextLine
  <2>2. lines \in Nat /\ lines' \in Nat /\ buffer \in Seq(Nat) /\ stream \in {"good", "bad", "closed"}
    BY <2>1 DEF PlainTyped
  <2>3. Append(buffer, lines') \in Seq(Nat) /\ <<lines', 0>> \in Seq(Nat)
    BY <2>2
  <2>4. buffer \o <<lines', 0>> \in Seq(Nat)
    BY <2>2, <2>3, ConcatProperties
  <2>5. buffer' \in Seq(Nat) /\ stream' \in {"good", "bad", "closed"}
    BY <1>3, <2>2, <2>3, <2>4 DEF Plain!LogFile, Plain!PutOnStream
  <2> QED
    BY <2>1, <2>2, <2>5 DEF PlainTyped, Plain!NotEnding
<1>4. CASE Plain!LogMemory
  <2>1. /\ lines' = lines + 1 /\ running /\ sink = "memory" /\ kept' = Plain!Retained(kept, lines')
        /\ UNCHANGED <<stream, buffer, ending, shared, sink, capacity_, running, starts, cleared>>
    BY <1>4 DEF Plain!LogMemory, Plain!NextLine
  <2>2. lines \in Nat /\ lines' \in Nat /\ kept \in Seq(Nat) /\ capacity_ \in Nat \ {0}
    BY <2>1 DEF PlainTyped
  <2>3. Len(kept) = capacity_ => Tail(kept) \in Seq(Nat)
    <3>1. Len(kept) = capacity_ => kept # <<>>
      BY <2>2
    <3> QED
      BY <2>2, <3>1
  <2>4. kept' \in Seq(Nat)
    BY <2>1, <2>2, <2>3 DEF Plain!Retained
  <2> QED
    BY <2>1, <2>2, <2>4 DEF PlainTyped, Plain!NotEnding
<1>5. CASE Plain!clear
  <2>1. <<>> \in Seq(Nat)
    BY EmptySeq
  <2> QED
    BY <1>5, <2>1 DEF Plain!clear, PlainTyped, Plain!NotEnding
<1>6. CASE Plain!flush
  <2>1. CASE Plain!Written(Len(buffer)) /\ buffer' = <<>> /\ UNCHANGED <<stream, resumes, faults>>
    <3>1. Len(buffer) \in 0..Len(buffer) /\ <<>> \in Seq(Nat)
      BY EmptySeq DEF PlainTyped
    <3>2. kept' \in Seq(Nat)
      <4>1. PICK n : n = Len(buffer)
        OBVIOUS
      <4>2. n \in 0..Len(buffer) /\ Plain!Written(n)
        BY <2>1, <3>1, <4>1
      <4> QED
        BY <4>2, PlainTypedEnded
    <3> QED
      BY <1>6, <2>1, <3>1, <3>2 DEF Plain!flush, PlainTyped, Plain!NotEnding
  <2>2. CASE sink = "file" /\ stream' = "bad" /\ UNCHANGED <<kept, buffer>>
    BY <1>6, <2>2 DEF Plain!flush, PlainTyped, Plain!NotEnding
  <2>3. CASE sink = "console" /\ Plain!LoseEnd /\ UNCHANGED <<kept, stream>>
    <3>1. buffer' \in Seq(Nat)
      BY <2>3, ConsoleTyped
    <3> QED
      BY <1>6, <2>3, <3>1 DEF Plain!flush, PlainTyped, Plain!NotEnding
  <2> QED
    BY <1>6, <2>1, <2>2, <2>3 DEF Plain!flush
<1>7. CASE Plain!Destroy \/ Plain!Kill
  <2>1. PICK n \in 0..Len(buffer) : Plain!Written(n)
    <3>1. Len(buffer) \in 0..Len(buffer)
      BY DEF PlainTyped
    <3> QED
      BY <1>7, <3>1 DEF Plain!Destroy, Plain!Kill
  <2>2. kept' \in Seq(Nat)
    BY <2>1, PlainTypedEnded
  <2>3. Plain!Ended
    BY <1>7 DEF Plain!Destroy, Plain!Kill
  <2>4. UNCHANGED <<sink, capacity_>>
    BY <1>7, <2>3 DEF Plain!Destroy, Plain!Kill, Plain!Ended
  <2>5. <<>> \in Seq(Nat) /\ Plain!NotEnding \in [Loggers -> Nat] /\ UNCHANGED Plain!NotEnding
    BY EmptySeq DEF Plain!NotEnding
  <2> QED
    BY <2>2, <2>3, <2>4, <2>5 DEF Plain!Ended, PlainTyped
<1>8. ASSUME NEW l \in Loggers, Plain!Fwrite(l) PROVE PlainTyped'
  <2>1. lines \in Nat /\ lines' = lines + 1 /\ buffer \in Seq(Nat) /\ ending \in [Loggers -> Nat]
    BY <1>8 DEF Plain!Fwrite, Plain!NextLine, PlainTyped
  <2>2. Append(buffer, lines') \in Seq(Nat)
    BY <2>1
  <2>3. buffer' \in Seq(Nat)
    BY <1>8, <2>2, ConsoleTyped DEF Plain!Fwrite, Plain!PutOnConsole
  <2>4. ending' \in [Loggers -> Nat]
    BY <1>8, <2>1 DEF Plain!Fwrite
  <2> QED
    BY <1>8, <2>1, <2>3, <2>4 DEF Plain!Fwrite, Plain!NextLine, PlainTyped
<1>9. ASSUME NEW l \in Loggers, Plain!Fputc(l) PROVE PlainTyped'
  <2>1. Append(buffer, 0) \in Seq(Nat)
    BY DEF PlainTyped
  <2>2. buffer' \in Seq(Nat)
    BY <1>9, <2>1, ConsoleTyped DEF Plain!Fputc, Plain!PutOnConsole
  <2>3. ending' \in [Loggers -> Nat]
    BY <1>9 DEF Plain!Fputc, PlainTyped
  <2>4. sink = "console" /\ running
    BY <1>9 DEF Plain!Fputc, PlainTyped, Plain!NotEnding
  <2> QED
    BY <1>9, <2>2, <2>3, <2>4 DEF Plain!Fputc, PlainTyped
<1> QED
  BY <1>1, <1>2, <1>3, <1>4, <1>5, <1>6, <1>7, <1>8, <1>9 DEF Plain!Next

LEMMA StreamedInit == Plain!Init => Streamed
<1> SUFFICES ASSUME Plain!Init, NEW s, s = Plain!Pieces PROVE Streaming(s)
  BY DEF Streamed
<1>1. <<>> \in Seq(Nat) /\ <<>> \o <<>> = <<>> /\ Len(<<>>) = 0
  BY EmptySeq, ConcatEmptySeq
<1>2. s = <<>>
  BY <1>1 DEF Plain!Init, Plain!Pieces
<1>3. Len(s) = 0 /\ ~running
  BY <1>1, <1>2 DEF Plain!Init
<1>4. HoleFree(s, Breaks) /\ Terminated(s, Breaks, shared)
  BY <1>3 DEF HoleFree, Terminated
<1> QED
  BY <1>3, <1>4 DEF Streaming

\* A stream that has ended or failed, or that goes on with a new line after
\* what was lost, has no hole.
LEMMA StreamCut ==
  ASSUME NEW s \in Seq(Nat), NEW t \in Seq(Nat), Begins(t, s), lines \in Nat, lines' \in Nat,
         Streaming(s), Breaks \subseteq Breaks', lines <= lines', shared \subseteq shared',
         running' /\ stream' = "good" => lines' + 1 \in Breaks'
  PROVE  Streaming(t)'
<1>1. HoleFree(t, Breaks') /\ Terminated(t, Breaks', shared')
  <2>1. PICK S, U, X, Y : S = Breaks /\ U = Breaks' /\ X = shared /\ Y = shared'
    OBVIOUS
  <2>2. HoleFree(s, S) /\ Terminated(s, S, X) /\ S \subseteq U /\ X \subseteq Y
    BY <2>1 DEF Streaming
  <2>3. HoleFree(t, U) /\ Terminated(t, U, Y)
    BY <2>2, BeginningHasNoHoles
  <2> QED
    BY <2>1, <2>3
<1>2. ASSUME NEW i \in 1..Len(t) PROVE t[i] \in Nat /\ t[i] <= lines'
  <2>1. Len(s) \in Nat /\ Len(t) \in Nat /\ Len(t) <= Len(s) /\ t[i] = s[i]
    BY DEF Begins
  <2>2. i \in 1..Len(s) /\ s[i] \in Nat
    BY <2>1
  <2> QED
    BY <2>1, <2>2 DEF Streaming
<1>3. lines' + 1 \in Breaks' => Follows(lines' + 1, t, Breaks')
  BY <1>2 DEF Follows
<1> QED
  BY <1>1, <1>2, <1>3 DEF Streaming

LEMMA StreamedStep ==
  ASSUME PlainTyped, Streamed, PlainTyped', sink \in PlainSinks, sink # "memory",
         [Plain!Next]_(Plain!vars)
  PROVE  Streamed'
<1> SUFFICES ASSUME NEW t, t = Plain!Pieces' PROVE Streaming(t)'
  BY DEF Streamed
<1> DEFINE same == UNCHANGED <<running, stream, ending, shared, lines, starts, resumes>>
<1>1. PICK f, b, s : f = kept /\ b = buffer /\ s = f \o b
  OBVIOUS
<1>2. f \in Seq(Nat) /\ b \in Seq(Nat) /\ s \in Seq(Nat) /\ lines \in Nat /\ lines' \in Nat
  BY <1>1, ConcatProperties DEF PlainTyped
<1>3. Streaming(s)
  BY <1>1 DEF Streamed, Plain!Pieces
<1>4. t = kept' \o buffer'
  BY DEF Plain!Pieces
<1>5. Begins(s, s) /\ <<>> \in Seq(Nat) /\ Begins(<<>>, s)
  BY <1>2, EmptySeq DEF Begins
<1>6. f \o <<>> = f /\ <<>> \o b = b
  BY <1>2, ConcatEmptySeq
<1>7. f \o Append(b, 0) = Append(s, 0)
  BY <1>1, <1>2, PiecesAppended, SMTT(20)
<1>8. PICK e : e = lines + 1
  OBVIOUS
<1>9. /\ e \in Nat \ {0} /\ Append(b, e) \in Seq(Nat) /\ f \o Append(b, e) = Append(s, e)
  <2>1. e \in Nat \ {0}
    BY <1>2, <1>8
  <2>2. Append(b, e) \in Seq(Nat)
    BY <1>2, <2>1
  <2> QED
    BY <1>1, <1>2, <2>1, <2>2, PiecesAppended, SMTT(20)
<1>19. PICK r, S, X : r = Append(s, e) /\ S = Breaks /\ X = shared
  OBVIOUS
<1>20. /\ HoleFree(s, S) /\ Terminated(s, S, X)
       /\ \A i \in 1..Len(s) : s[i] <= lines
       /\ running /\ stream = "good" => /\ Follows(e, s, S)
                                        /\ EndsIn(s, X \cup Plain!Range(ending)) \/ e \in S
  BY <1>3, <1>8, <1>19 DEF Streaming
<1>21. ASSUME running, stream = "good"
       PROVE  /\ r \in Seq(Nat) /\ HoleFree(r, S) /\ Follows(e + 1, r, S) /\ \A i \in 1..Len(r) : r[i] <= e
              /\ \A Y : Terminated(s, S, Y) /\ (EndsIn(s, Y) \/ e \in S) => Terminated(r, S, Y)
              /\ \A Y : e \in Y => EndsIn(r, Y)
  <2>1. ASSUME NEW i \in 1..Len(s) PROVE s[i] < e
    <3>1. s[i] \in Nat /\ s[i] <= lines
      BY <1>2, <1>20
    <3> QED
      BY <1>2, <1>8, <3>1
  <2>2. HoleFree(s, S) /\ Follows(e, s, S)
    BY <1>20, <1>21
  <2> QED
    BY <1>2, <1>9, <1>19, <2>1, <2>2, LineAdded
<1>22. ASSUME running, stream = "good", ending = Plain!NotEnding PROVE Terminated(r, S, X)
  <2>1. ASSUME EndsIn(s, X \cup Plain!Range(ending)) PROVE EndsIn(s, X)
    BY <1>22, <2>1 DEF EndsIn, Plain!Range, Plain!NotEnding
  <2> QED
    BY <1>20, <1>21, <1>22, <2>1
<1>10. ASSUME t = s, same PROVE Streaming(t)'
  <2>1. UNCHANGED Breaks /\ UNCHANGED Plain!Range(ending)
    BY <1>10 DEF Breaks
  <2> QED
    BY <1>3, <1>10, <2>1 DEF Streaming
<1>23. ASSUME Plain!LoseEnd, UNCHANGED <<kept, starts>>, lines <= lines', shared \subseteq shared'
       PROVE  Streaming(t)'
  <2>1. PICK n \in 0..Len(b) : buffer' = SubSeq(b, 1, n)
    BY <1>1, <1>23 DEF Plain!LoseEnd
  <2>2. t \in Seq(Nat) /\ Begins(t, s)
    BY <1>1, <1>2, <1>4, <1>23, <2>1, PiecesWritten
  <2>3. Breaks \subseteq Breaks' /\ lines' + 1 \in Breaks'
    BY <1>23 DEF Plain!LoseEnd, Breaks
  <2> QED
    BY <1>2, <1>3, <1>23, <2>2, <2>3, StreamCut
<1>11. CASE UNCHANGED Plain!vars
  <2>1. t = s /\ same
    BY <1>1, <1>4, <1>11 DEF Plain!vars
  <2> QED
    BY <1>10, <2>1
<1>12. ASSUME NEW truncate \in BOOLEAN, NEW capacity \in Capacities, Plain!Construct(truncate, capacity)
       PROVE  Streaming(t)'
  <2>1. /\ buffer' = b /\ b = <<>> /\ lines' = lines /\ starts' = starts \cup {lines + 1}
        /\ UNCHANGED <<shared, resumes>> /\ kept' \in {<<>>, f}
    BY <1>1, <1>12 DEF Plain!Construct, PlainTyped
  <2>2. t \in Seq(Nat) /\ Begins(t, s)
    BY <1>1, <1>2, <1>4, <1>5, <1>6, <2>1
  <2>3. Breaks \subseteq Breaks' /\ lines' + 1 \in Breaks'
    BY <2>1 DEF Breaks
  <2> QED
    BY <1>2, <1>3, <2>1, <2>2, <2>3, StreamCut
<1>13. CASE Plain!LogFile
  <2>1. /\ running /\ lines' = e /\ lines' = lines + 1
        /\ UNCHANGED <<kept, ending, shared, running, starts, resumes>> /\ sink = "file"
        /\ Plain!PutOnStream(e)
    BY <1>8, <1>13 DEF Plain!LogFile, Plain!NextLine
  <2>5. ending = Plain!NotEnding
    BY <2>1 DEF PlainTyped
  <2>6. Breaks' = Breaks
    BY <2>1 DEF Breaks
  <2>2. CASE stream = "good" /\ buffer' = b \o <<e, 0>> /\ UNCHANGED <<stream, faults>>
    <3>1. t = Append(Append(s, e), 0)
      <4>1. b \o <<e, 0>> = Append(Append(b, e), 0)
        BY <1>2, <1>9, SMTT(20)
      <4>2. f \o Append(Append(b, e), 0) = Append(f \o Append(b, e), 0)
        <5>1. PICK c : c = Append(b, e)
          OBVIOUS
        <5>2. c \in Seq(Nat) /\ 0 \in Nat
          BY <1>9, <5>1
        <5>3. f \o Append(c, 0) = Append(f \o c, 0)
          BY <1>2, <5>2, PiecesAppended
        <5> QED
          BY <5>1, <5>3
      <4> QED
        BY <1>1, <1>4, <1>9, <2>1, <2>2, <4>1, <4>2
    <3>2. e \in Nat /\ e + 1 \in Nat
      BY <1>9
    <3>3. /\ HoleFree(t, S) /\ Follows(e + 1, t, S) /\ \A i \in 1..Len(t) : t[i] <= e
          /\ \A Y : Terminated(r, S, Y) => Terminated(t, S, Y)
          /\ \A Y : EndsIn(t, Y)
      BY <1>19, <1>21, <2>1, <2>2, <3>1, <3>2, NewlineAdded
    <3>4. Terminated(t, S, X)
      BY <1>22, <2>1, <2>2, <2>5, <3>3
    <3> QED
      BY <1>19, <2>1, <2>6, <3>3, <3>4 DEF Streaming
  <2>3. CASE stream = "good" /\ stream' = "bad" /\ buffer' \in {b, Append(b, e)}
    <3>1. CASE buffer' = b
      <4>1. t = s
        BY <1>1, <1>4, <2>1, <3>1
      <4> QED
        BY <1>2, <1>3, <1>5, <2>1, <2>3, <2>6, <4>1, StreamCut
    <3>2. CASE buffer' = Append(b, e)
      <4>1. t = r
        BY <1>1, <1>4, <1>9, <1>19, <2>1, <3>2
      <4>2. HoleFree(r, S) /\ \A i \in 1..Len(r) : r[i] <= e
        BY <1>21, <2>1, <2>3
      <4>3. Terminated(r, S, X)
        BY <1>22, <2>1, <2>3, <2>5
      <4> QED
        BY <1>19, <2>1, <2>3, <2>6, <4>1, <4>2, <4>3 DEF Streaming
    <3> QED
      BY <2>3, <3>1, <3>2
  <2>4. CASE stream # "good" /\ UNCHANGED <<stream, buffer, faults>>
    <3>1. t = s
      BY <1>1, <1>4, <2>1, <2>4
    <3> QED
      BY <1>2, <1>3, <1>5, <2>1, <2>4, <2>6, <3>1, StreamCut
  <2> QED
    BY <1>1, <2>1, <2>2, <2>3, <2>4 DEF Plain!PutOnStream
<1>14. CASE Plain!LogMemory \/ Plain!clear
  BY <1>14 DEF Plain!LogMemory, Plain!clear
<1>15. CASE Plain!flush
  <2>1. UNCHANGED <<sink, running, ending, shared, lines, starts>>
    BY <1>15 DEF Plain!flush
  <2>2. CASE Plain!Written(Len(buffer)) /\ buffer' = <<>> /\ UNCHANGED <<stream, resumes, faults>>
    <3>1. f \o SubSeq(b, 1, Len(b)) = s
      <4>1. PICK n : n = Len(b)
        OBVIOUS
      <4>2. n \in 0..Len(b)
        BY <1>2, <4>1
      <4> QED
        BY <1>1, <1>2, <4>1, <4>2, PiecesWritten, SMTT(20)
    <3>2. kept' = s /\ buffer' = <<>> /\ same
      BY <1>1, <2>1, <2>2, <3>1 DEF Plain!Written
    <3>3. s \o <<>> = s
      BY <1>2, ConcatEmptySeq
    <3> QED
      BY <1>4, <1>10, <3>2, <3>3
  <2>3. CASE stream' = "bad" /\ UNCHANGED <<kept, buffer, resumes>>
    <3>1. t = s /\ Breaks' = Breaks
      BY <1>1, <1>4, <2>1, <2>3 DEF Breaks
    <3> QED
      BY <1>2, <1>3, <1>5, <2>1, <2>3, <3>1, StreamCut
  <2>4. CASE Plain!LoseEnd /\ UNCHANGED <<kept, stream>>
    BY <1>2, <1>23, <2>1, <2>4
  <2> QED
    BY <1>15, <2>2, <2>3, <2>4 DEF Plain!flush
<1>16. CASE Plain!Destroy \/ Plain!Kill
  <2>1. PICK n \in 0..Len(b) : kept' = f \o SubSeq(b, 1, n)
    <3>1. Len(b) \in 0..Len(b)
      BY <1>2
    <3> QED
      BY <1>1, <1>16, <3>1 DEF Plain!Destroy, Plain!Kill, Plain!Written
  <2>2. running' = FALSE /\ buffer' = <<>> /\ UNCHANGED <<shared, lines, starts, resumes>>
    BY <1>16 DEF Plain!Destroy, Plain!Kill, Plain!Ended
  <2>3. PICK g : g = f \o SubSeq(b, 1, n)
    OBVIOUS
  <2>4. g \in Seq(Nat) /\ Begins(g, s)
    BY <1>1, <1>2, <2>3, PiecesWritten
  <2>5. t = g
    <3>1. g \o <<>> = g
      BY <2>4, ConcatEmptySeq
    <3> QED
      BY <1>4, <2>1, <2>2, <2>3, <3>1
  <2>6. Breaks' = Breaks
    BY <2>2 DEF Breaks
  <2> QED
    BY <1>2, <1>3, <2>2, <2>4, <2>5, <2>6, StreamCut
<1>17. ASSUME NEW l \in Loggers, Plain!Fwrite(l) PROVE Streaming(t)'
  <2>1. /\ running /\ lines' = lines + 1 /\ sink = "console" /\ Plain!PutOnConsole(e)
        /\ shared' = shared \cup (Plain!Range(ending) \ {0})
        /\ ending' = [ending EXCEPT ![l] = e] /\ ending \in [Loggers -> Nat]
        /\ UNCHANGED <<kept, running, starts, stream>>
    BY <1>8, <1>17 DEF Plain!Fwrite, Plain!NextLine, PlainTyped
  <2>2. CASE buffer' = Append(b, e) /\ UNCHANGED <<resumes, faults>>
    <3>1. stream = "good"
      BY <2>1 DEF PlainTyped
    <3>2. t = r
      BY <1>1, <1>4, <1>9, <1>19, <2>1, <2>2
    <3>3. HoleFree(r, S) /\ Follows(e + 1, r, S) /\ \A i \in 1..Len(r) : r[i] <= e
      BY <1>21, <2>1, <3>1
    <3>4. Terminated(r, S, shared')
      <4>1. PICK Y : Y = shared'
        OBVIOUS
      <4>2. Terminated(s, S, Y)
        BY <1>19, <1>20, <2>1, <4>1 DEF Terminated
      <4>3. EndsIn(s, Y) \/ e \in S
        BY <1>19, <1>20, <2>1, <3>1, <4>1 DEF EndsIn
      <4> QED
        BY <1>21, <2>1, <3>1, <4>1, <4>2, <4>3
    <3>5. EndsIn(r, shared' \cup Plain!Range(ending'))
      <4>1. ending'[l] = e /\ l \in DOMAIN ending'
        BY <2>1
      <4>2. e \in Plain!Range(ending')
        BY <4>1 DEF Plain!Range
      <4> QED
        BY <1>21, <2>1, <3>1, <4>2
    <3>6. Breaks' = Breaks
      BY <2>1, <2>2 DEF Breaks
    <3> QED
      BY <1>8, <1>19, <2>1, <3>2, <3>3, <3>4, <3>5, <3>6 DEF Streaming
  <2>3. CASE Plain!LoseEnd
    BY <1>2, <1>23, <2>1, <2>3
  <2> QED
    BY <1>1, <2>1, <2>2, <2>3 DEF Plain!PutOnConsole
<1>18. ASSUME NEW l \in Loggers, Plain!Fputc(l) PROVE Streaming(t)'
  <2>1. /\ UNCHANGED <<kept, running, stream, shared, lines, starts>> /\ Plain!PutOnConsole(0)
        /\ ending # Plain!NotEnding
    BY <1>18 DEF Plain!Fputc, Plain!NotEnding
  <2>2. CASE buffer' = Append(b, 0) /\ UNCHANGED <<resumes, faults>>
    <3>1. t = Append(s, 0)
      BY <1>1, <1>4, <1>7, <2>1, <2>2
    <3>2. stream = "good" /\ running
      <4>1. sink = "console" /\ running
        BY <2>1 DEF PlainTyped
      <4> QED
        BY <4>1 DEF PlainTyped
    <3>3. /\ HoleFree(t, S) /\ Follows(e, t, S) /\ \A i \in 1..Len(t) : t[i] <= lines
          /\ Terminated(t, S, X)
          /\ \A Y : EndsIn(t, Y)
      <4>1. PICK m : m = lines
        OBVIOUS
      <4>2. m \in Nat /\ e \in Nat /\ \A i \in 1..Len(s) : s[i] <= m
        BY <1>2, <1>9, <1>20, <4>1
      <4>3. HoleFree(s, S) /\ Follows(e, s, S) /\ Terminated(s, S, X)
        BY <1>20, <3>2
      <4> QED
        BY <1>2, <3>1, <4>1, <4>2, <4>3, NewlineAdded
    <3>4. Breaks' = Breaks
      BY <2>1, <2>2 DEF Breaks
    <3> QED
      BY <1>8, <1>19, <2>1, <3>3, <3>4 DEF Streaming
  <2>3. CASE Plain!LoseEnd
    BY <1>2, <1>23, <2>1, <2>3
  <2> QED
    BY <1>1, <2>1, <2>2, <2>3 DEF Plain!PutOnConsole
<1> QED
  BY <1>11, <1>12, <1>13, <1>14, <1>15, <1>16, <1>17, <1>18 DEF Plain!Next

LEMMA StreamedSuffices == Streamed => Plain!NoHoles
<1> SUFFICES ASSUME Streamed, sink # "memory"
             PROVE  /\ \A i, j \in 1..Len(Plain!Pieces) :
                         Plain!Consecutive(i, j) =>
                           Plain!Pieces[j] \in {Plain!Pieces[i] + 1}
                                               \cup {s \in starts \cup resumes : s > Plain!Pieces[i]}
                    /\ \A i \in 1..Len(Plain!Pieces) - 1 :
                         Plain!Pieces[i] \notin {0} \cup shared =>
                           Plain!Pieces[i + 1] \in {0} \cup starts \cup resumes
  BY DEF Plain!NoHoles
<1>1. PICK s : s = Plain!Pieces
  OBVIOUS
<1>2. HoleFree(s, Breaks) /\ Terminated(s, Breaks, shared)
  BY <1>1 DEF Streamed, Streaming
<1>3. ASSUME NEW i \in 1..Len(s), NEW j \in 1..Len(s), Plain!Consecutive(i, j)
      PROVE  s[j] \in {s[i] + 1} \cup {first \in Breaks : first > s[i]}
  <2>1. i < j /\ s[i] # 0 /\ s[j] # 0 /\ \A k \in i + 1..j - 1 : s[k] = 0
    BY <1>1, <1>3 DEF Plain!Consecutive
  <2>2. s[j] = s[i] + 1 \/ (s[j] \in Breaks /\ s[j] > s[i])
    BY <1>2, <2>1 DEF HoleFree
  <2> QED
    BY <2>2
<1>4. ASSUME NEW i \in 1..Len(s) - 1, s[i] \notin {0} \cup shared PROVE s[i + 1] \in {0} \cup Breaks
  BY <1>2, <1>4 DEF Terminated
<1> QED
  BY <1>1, <1>3, <1>4 DEF Breaks

(* The memory sink.                                                        *)
LEMMA LesserOfTwo ==
  ASSUME NEW a \in Nat, NEW b \in Nat
  PROVE  Plain!Min({a, b}) = IF a <= b THEN a ELSE b
<1> DEFINE m == IF a <= b THEN a ELSE b
           Is(x) == x \in {a, b} /\ \A y \in {a, b} : x <= y
<1>1. Is(m)
  OBVIOUS
<1>2. \A x : Is(x) => x = m
  OBVIOUS
<1>3. Plain!Min({a, b}) = CHOOSE x : Is(x)
  BY DEF Plain!Min
<1> QED
  BY <1>1, <1>2, <1>3

\* The newest n of the first m lines.
NewestOf(n, m) == [i \in 1..n |-> m - n + i]

LEMMA NewestAre ==
  ASSUME NEW n \in Nat, NEW m \in Nat, n <= m
  PROVE  /\ NewestOf(n, m) \in Seq(Nat) /\ Len(NewestOf(n, m)) = n
         /\ \A i \in 1..n : NewestOf(n, m)[i] = m - n + i
<1> DEFINE q == NewestOf(n, m)
<1>1. \A i \in 1..n : m - n + i \in Nat
  OBVIOUS
<1>2. q = [i \in 1..n |-> m - n + i]
  BY DEF NewestOf
<1>3. q \in [1..n -> Nat]
  BY <1>1, <1>2
<1> QED
  BY <1>2, <1>3

(* One more line, when there is room for it and when there is none.         *)
LEMMA OneMoreRetained ==
  ASSUME NEW n \in Nat, NEW m \in Nat, n <= m
  PROVE  /\ Append(NewestOf(n, m), m + 1) = NewestOf(n + 1, m + 1)
         /\ n # 0 => Append(Tail(NewestOf(n, m)), m + 1) = NewestOf(n, m + 1)
<1>0. PICK q, e : q = NewestOf(n, m) /\ e = m + 1
  OBVIOUS
<1>1. q \in Seq(Nat) /\ Len(q) = n /\ (\A i \in 1..n : q[i] = m - n + i) /\ e \in Nat
  <2>1. e \in Nat
    BY <1>0
  <2>2. q \in Seq(Nat) /\ Len(q) = n /\ \A i \in 1..n : q[i] = m - n + i
    BY <1>0, NewestAre
  <2> QED
    BY <2>1, <2>2
<1>2. ASSUME NEW s \in Seq(Nat), NEW k \in Nat, k = Len(s) + 1, k <= e,
             \A i \in 1..k - 1 : s[i] = e - k + i
      PROVE  Append(s, e) = NewestOf(k, e)
  <2>1. PICK t, u : t = Append(s, e) /\ u = NewestOf(k, e)
    OBVIOUS
  <2>2. t \in Seq(Nat) /\ Len(t) = k /\ (\A i \in 1..k - 1 : t[i] = s[i]) /\ t[k] = e
    <3>1. Len(s) = k - 1
      BY <1>2
    <3> QED
      BY <1>1, <1>2, <2>1, <3>1, AppendProperties
  <2>3. u \in Seq(Nat) /\ Len(u) = k /\ \A i \in 1..k : u[i] = e - k + i
    <3>1. k \in Nat /\ e \in Nat /\ k <= e /\ u = NewestOf(k, e)
      BY <1>1, <1>2, <2>1
    <3> QED
      BY <1>1, <3>1, NewestAre
  <2>4. ASSUME NEW i \in 1..k PROVE t[i] = u[i]
    <3>1. CASE i = k
      BY <1>1, <2>2, <2>3, <3>1
    <3>2. CASE i # k
      <4>1. i \in 1..k - 1
        BY <3>2
      <4> QED
        BY <1>2, <2>2, <2>3, <4>1
    <3> QED
      BY <3>1, <3>2
  <2> QED
    BY <2>1, <2>2, <2>3, <2>4, SeqEqual
<1>3. Append(q, e) = NewestOf(n + 1, e)
  <2>1. n + 1 \in Nat /\ n + 1 = Len(q) + 1 /\ n + 1 <= e
    BY <1>0, <1>1
  <2>2. \A i \in 1..(n + 1) - 1 : q[i] = e - (n + 1) + i
    BY <1>0, <1>1
  <2> QED
    BY <1>1, <1>2, <2>1, <2>2
<1>4. ASSUME n # 0 PROVE Append(Tail(q), e) = NewestOf(n, e)
  <2>1. PICK s : s = Tail(q)
    OBVIOUS
  <2>2. q # <<>>
    BY <1>1, <1>4
  <2>3. s \in Seq(Nat) /\ Len(s) = n - 1 /\ \A i \in 1..n - 1 : s[i] = q[i + 1]
    BY <1>1, <2>1, <2>2, HeadTailProperties
  <2>4. n = Len(s) + 1 /\ n <= e
    BY <1>0, <1>1, <2>3
  <2>5. ASSUME NEW i \in 1..n - 1 PROVE s[i] = e - n + i
    <3>1. i + 1 \in 1..n
      OBVIOUS
    <3>2. s[i] = m - n + (i + 1)
      BY <1>1, <2>3, <3>1
    <3> QED
      BY <1>0, <3>2
  <2> QED
    BY <1>2, <2>1, <2>3, <2>4, <2>5
<1> QED
  BY <1>0, <1>3, <1>4

\* What MemoryIsNewest says, without the choice of a least number.
Retaining ==
  sink = "memory" /\ running =>
    kept = NewestOf(IF capacity_ <= lines - cleared THEN capacity_ ELSE lines - cleared, lines)

LEMMA RetainingSuffices == PlainTyped => (Retaining <=> Plain!MemoryIsNewest)
<1> SUFFICES ASSUME PlainTyped PROVE Retaining <=> Plain!MemoryIsNewest
  OBVIOUS
<1>1. PICK a, b : a = capacity_ /\ b = lines - cleared
  OBVIOUS
<1>2. a \in Nat /\ b \in Nat
  BY <1>1 DEF PlainTyped
<1>3. Plain!Min({a, b}) = IF a <= b THEN a ELSE b
  BY <1>2, LesserOfTwo
<1> QED
  BY <1>1, <1>3 DEF Retaining, NewestOf, Plain!MemoryIsNewest

LEMMA RetainingStep ==
  ASSUME PlainTyped, PlainTyped', Retaining, sink \in PlainSinks, [Plain!Next]_(Plain!vars)
  PROVE  Retaining'
<1>1. PICK c, d, m : c = capacity_ /\ d = lines - cleared /\ m = lines
  OBVIOUS
<1>2. c \in Nat \ {0} /\ d \in Nat /\ m \in Nat /\ d <= m
  BY <1>1 DEF PlainTyped
<1>3. NewestOf(0, m) = <<>>
  <2>1. PICK q : q = NewestOf(0, m)
    OBVIOUS
  <2>2. q \in Seq(Nat) /\ Len(q) = 0
    BY <1>2, <2>1, NewestAre
  <2> QED
    BY <2>1, <2>2, EmptySeq
<1>4. CASE UNCHANGED Plain!vars
  BY <1>4 DEF Retaining, Plain!vars
<1>5. ASSUME NEW truncate \in BOOLEAN, NEW capacity \in Capacities, Plain!Construct(truncate, capacity)
      PROVE  Retaining'
  <2>1. sink = "memory" => kept' = <<>> /\ cleared' = lines /\ lines' = lines /\ capacity_' \in Nat \ {0}
    BY <1>5 DEF Plain!Construct, PlainTyped
  <2>2. sink' = sink
    BY <1>5 DEF Plain!Construct
  <2>3. sink = "memory" => ~(capacity_' <= lines' - cleared') /\ lines' - cleared' = 0
    BY <1>1, <1>2, <2>1
  <2> QED
    BY <1>1, <1>3, <2>1, <2>2, <2>3 DEF Retaining
<1>6. CASE Plain!LogMemory
  <2>1. PICK q, n : q = kept /\ n = IF c <= d THEN c ELSE d
    OBVIOUS
  <2>2. n \in Nat /\ n <= m /\ q = NewestOf(n, m)
    BY <1>1, <1>2, <1>6, <2>1 DEF Retaining, Plain!LogMemory, Plain!NextLine
  <2>3. PICK e : e = m + 1
    OBVIOUS
  <2>4. /\ Append(q, e) = NewestOf(n + 1, e)
        /\ n # 0 => Append(Tail(q), e) = NewestOf(n, e)
    <3>1. n <= m
      BY <1>2, <2>1
    <3> QED
      BY <1>2, <2>2, <2>3, <3>1, OneMoreRetained
  <2>5. Len(q) = n
    BY <1>2, <2>2, NewestAre
  <2>6. kept' = (IF n = c THEN Append(Tail(q), e) ELSE Append(q, e)) /\ lines' = e
    BY <1>1, <1>6, <2>1, <2>3, <2>5 DEF Plain!LogMemory, Plain!NextLine, Plain!Retained
  <2>7. UNCHANGED <<sink, capacity_, running, cleared>>
    BY <1>6 DEF Plain!LogMemory, Plain!NextLine
  <2>8. lines' - cleared' = d + 1
    BY <1>1, <1>2, <2>3, <2>6, <2>7 DEF PlainTyped
  <2>9. CASE n = c
    <3>1. n # 0 /\ c <= d + 1
      BY <1>2, <2>1, <2>9
    <3> QED
      BY <1>1, <2>4, <2>6, <2>7, <2>8, <2>9, <3>1 DEF Retaining
  <2>10. CASE n # c
    <3>1. n = d /\ (c <= d + 1 => c = n + 1)
      BY <1>2, <2>1, <2>10
    <3> QED
      BY <1>1, <2>4, <2>6, <2>7, <2>8, <2>10, <3>1 DEF Retaining
  <2> QED
    BY <2>9, <2>10
<1>7. CASE Plain!clear
  <2>1. kept' = <<>> /\ cleared' = lines /\ UNCHANGED <<sink, capacity_, lines>>
    BY <1>7 DEF Plain!clear
  <2>2. ~(capacity_' <= lines' - cleared') /\ lines' - cleared' = 0
    BY <1>1, <1>2, <2>1
  <2> QED
    BY <1>1, <1>3, <2>1, <2>2 DEF Retaining
<1>8. CASE Plain!flush
  BY <1>8 DEF Plain!flush, Retaining
<1>9. CASE Plain!Destroy \/ Plain!Kill
  BY <1>9 DEF Plain!Destroy, Plain!Kill, Plain!Ended, Retaining
<1>10. CASE Plain!LogFile
  BY <1>10 DEF Plain!LogFile, Plain!NextLine, Retaining
<1>11. ASSUME NEW l \in Loggers, Plain!Fwrite(l) \/ Plain!Fputc(l) PROVE Retaining'
  <2>1. sink' # "memory"
    BY <1>11 DEF Plain!Fwrite, Plain!NextLine, Plain!Fputc, PlainTyped, Plain!NotEnding
  <2> QED
    BY <2>1 DEF Retaining
<1> QED
  BY <1>4, <1>5, <1>6, <1>7, <1>8, <1>9, <1>10, <1>11 DEF Plain!Next

PlainInv == sink \in PlainSinks => PlainTyped /\ Streamed /\ Retaining

LEMMA PlainAlways == MCSpec => []PlainInv
<1>1. MCInit => PlainInv
  <2> SUFFICES ASSUME MCInit, sink \in PlainSinks PROVE PlainTyped /\ Streamed /\ Retaining
    BY DEF PlainInv
  <2>1. Plain!Init
    BY DEF MCInit, PlainSinks
  <2>2. ~running
    BY <2>1 DEF Plain!Init
  <2> QED
    BY <2>1, <2>2, PlainTypedInit, StreamedInit DEF Retaining
<1>2. PlainInv /\ [MCNext]_all => PlainInv'
  <2> SUFFICES ASSUME PlainInv, [MCNext]_all, sink' \in PlainSinks
              PROVE  (PlainTyped /\ Streamed /\ Retaining)'
    BY DEF PlainInv
  <2>1. sink \in PlainSinks /\ sink' = sink
    BY SinkStays
  <2>2. [Plain!Next]_(Plain!vars)
    <3>1. UNCHANGED all => UNCHANGED Plain!vars
      BY DEF all, rotatingOnly, plainOnly, common, Plain!vars
    <3> QED
      BY <2>1, <3>1 DEF MCNext, PlainSinks
  <2>3. PlainTyped /\ Streamed /\ Retaining
    BY <2>1 DEF PlainInv
  <2>4. PlainTyped'
    BY <2>1, <2>2, <2>3, PlainTypedStep
  <2>5. Retaining'
    BY <2>1, <2>2, <2>3, <2>4, RetainingStep
  <2>6. Streamed'
    <3>1. CASE sink = "memory"
      BY <2>1, <3>1 DEF Streamed
    <3>2. CASE sink # "memory"
      BY <2>1, <2>2, <2>3, <2>4, <3>2, StreamedStep
    <3> QED
      BY <3>1, <3>2
  <2> QED
    BY <2>4, <2>5, <2>6
<1> QED
  BY <1>1, <1>2, PTL DEF MCSpec

(* A file or a console shows the lines in order and misses none between two
   of them, but where a process began and, on a console, after a failed write,
   whatever fails and whenever the process is killed; each has its newline
   unless another logger wrote to the console first
   (file_sink.hpp:22-24, sinks.hpp:66-70).                                 *)
THEOREM StreamsCorrect == MCSpec => []StreamsHaveNoHoles
<1>1. PlainInv => StreamsHaveNoHoles
  BY StreamedSuffices DEF PlainInv, PlainSinks, StreamsHaveNoHoles
<1> QED
  BY <1>1, PlainAlways, PTL

(* MemorySink holds the newest `capacity` lines since clear(), for every
   capacity (sinks.hpp:99-109).                                            *)
THEOREM MemoryCorrect == MCSpec => []MemoryIsNewest
<1>1. PlainInv => MemoryIsNewest
  BY RetainingSuffices DEF PlainInv, PlainSinks, MemoryIsNewest
<1> QED
  BY <1>1, PlainAlways, PTL
=============================================================================
