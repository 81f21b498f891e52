------------------------- MODULE BoundFieldsProofs -------------------------
(***************************************************************************)
(* Proofs about BoundFields, for any number of binders, records, statements *)
(* and fields.                                                              *)
(***************************************************************************)
EXTENDS BoundFields, FiniteSetTheorems, SequenceTheorems, TLAPS

\* A Binder never has less than it copied, nor more than kv() may add.
Counted ==
  \A b \in Binders : binder[b] # None =>
    /\ binder[b].had <= Len(binder[b].fields)
    /\ Len(binder[b].fields) - binder[b].had <= MaxKv

\* The fields a bind statement has so far, in order.
Own(stmt, n) == [k \in 1..n |-> [stmt |-> stmt, nth |-> k]]

\* A Binder has the set it copied and then its own fields.
BindersExtend ==
  \A b \in Binders : binder[b] # None =>
    /\ binder[b].had = Len(Pointee(binder[b].seen))
    /\ binder[b].fields = Pointee(binder[b].seen)
                            \o Own(binder[b].stmt, Len(binder[b].fields) - binder[b].had)

BindInv == TypeOK /\ Counted /\ RecordsKeepBindings

-----------------------------------------------------------------------------
(* The heap: replace_bound() adds to it and changes nothing in it.         *)

LEMMA ReplacedHeap ==
  ASSUME TypeOK, NEW fields \in Fields, ReplaceBound(fields)
  PROVE  /\ sets' \in Seq(Fields \ {<<>>})
         /\ bound' \in 0..Len(sets')
         /\ Len(sets) <= Len(sets')
         /\ \A p \in Ref : Pointee(p)' = Pointee(p)
         /\ Pointee(bound)' = fields
<1>1. CASE fields = <<>>
  BY <1>1 DEF TypeOK, ReplaceBound, Ref, Pointee, Null
<1>2. CASE fields # <<>>
  <2>1. sets' = Append(sets, fields) /\ bound' = Len(sets')
    BY <1>2 DEF ReplaceBound
  <2>2. sets' \in Seq(Fields \ {<<>>}) /\ Len(sets') = Len(sets) + 1
    BY <1>2, <2>1 DEF TypeOK
  <2>3. \A p \in 1..Len(sets) : sets'[p] = sets[p]
    BY <2>1 DEF TypeOK
  <2>4. sets'[Len(sets')] = fields
    BY <2>1, <2>2 DEF TypeOK
  <2> QED
    BY <2>1, <2>2, <2>3, <2>4 DEF TypeOK, Ref, Pointee, Null
<1> QED
  BY <1>1, <1>2

-----------------------------------------------------------------------------
(* One step: types, and what Counted and RecordsKeepBindings need.          *)

LEMMA OwnTyped ==
  ASSUME NEW stmt \in 1..MaxStatements, NEW n \in 0..MaxKv
  PROVE  Own(stmt, n) \in Fields /\ Len(Own(stmt, n)) = n
BY BindersAssumption DEF Own, Fields, Field

LEMMA BeginBindStep ==
  ASSUME BindInv, NEW b \in Binders, BeginBind(b)
  PROVE  BindInv'
<1> DEFINE fresh == [stmt |-> statements + 1, fields |-> Snapshot, had |-> Len(Snapshot),
                     seen |-> bound]
<1>1. /\ binder' = [binder EXCEPT ![b] = fresh]
      /\ statements' = statements + 1 /\ statements < MaxStatements
      /\ UNCHANGED <<sets, bound, entry, width, history, overlapped, atCreation>>
  BY DEF BeginBind
<1>2. Snapshot \in Fields /\ Len(Snapshot) \in Nat
  BY DEF BindInv, TypeOK, Snapshot, Pointee, Ref, Null, Fields
<1>3. statements' \in 1..MaxStatements
  BY <1>1, BindersAssumption DEF BindInv, TypeOK
<1>4. fresh \in [stmt : 1..MaxStatements, fields : Fields, had : Nat, seen : Ref]
  BY <1>1, <1>2, <1>3 DEF BindInv, TypeOK
<1>5. TypeOK'
  BY <1>1, <1>3, <1>4 DEF BindInv, TypeOK, Ref
<1>6. Counted'
  BY <1>1, <1>2, BindersAssumption DEF BindInv, TypeOK, Counted
<1>7. RecordsKeepBindings'
  BY <1>1 DEF BindInv, RecordsKeepBindings, Pointee
<1> QED
  BY <1>5, <1>6, <1>7 DEF BindInv

LEMMA BinderKvStep ==
  ASSUME BindInv, NEW b \in Binders, BinderKv(b)
  PROVE  BindInv'
<1> DEFINE f == [stmt |-> binder[b].stmt, nth |-> Len(binder[b].fields) - binder[b].had + 1]
<1>1. /\ binder[b] # None
      /\ Len(binder[b].fields) - binder[b].had < MaxKv
      /\ binder' = [binder EXCEPT ![b].fields = Append(@, f)]
      /\ UNCHANGED <<sets, bound, entry, statements, width, history, overlapped, atCreation>>
  BY DEF BinderKv
<1>2. binder[b] \in [stmt : 1..MaxStatements, fields : Fields, had : Nat, seen : Ref]
  BY <1>1 DEF BindInv, TypeOK
<1>3. /\ binder[b].fields \in Seq(Field) /\ Len(binder[b].fields) \in Nat
      /\ binder[b].had \in Nat /\ binder[b].had <= Len(binder[b].fields)
  BY <1>1, <1>2 DEF BindInv, Counted, Fields
<1>4. f \in Field
  BY <1>1, <1>2, <1>3, BindersAssumption DEF Field
<1>5. Append(binder[b].fields, f) \in Fields
      /\ Len(Append(binder[b].fields, f)) = Len(binder[b].fields) + 1
  BY <1>3, <1>4 DEF Fields
<1> HIDE DEF f
<1>6. TypeOK'
  BY <1>1, <1>2, <1>5 DEF BindInv, TypeOK, Ref
<1>7. Counted'
  BY <1>1, <1>2, <1>3, <1>5, BindersAssumption DEF BindInv, TypeOK, Counted
<1>8. RecordsKeepBindings'
  BY <1>1 DEF BindInv, RecordsKeepBindings, Pointee
<1> QED
  BY <1>6, <1>7, <1>8 DEF BindInv

\* References stay good, and what they point to stays the same.
LEMMA ReferencesStay ==
  ASSUME BindInv, NEW fields \in Fields, ReplaceBound(fields),
         UNCHANGED <<entry, atCreation>>
  PROVE  /\ sets' \in Seq(Fields \ {<<>>})
         /\ bound' \in Ref'
         /\ Ref \subseteq Ref'
         /\ entry' \in [Records -> Ref' \cup {None}]
         /\ RecordsKeepBindings'
<1>1. TypeOK /\ RecordsKeepBindings
  BY DEF BindInv
<1>2. /\ sets' \in Seq(Fields \ {<<>>}) /\ bound' \in 0..Len(sets')
      /\ Len(sets) <= Len(sets')
      /\ \A p \in Ref : Pointee(p)' = Pointee(p)
  BY <1>1, ReplacedHeap
<1>3. Ref \subseteq Ref'
  BY <1>1, <1>2 DEF TypeOK, Ref
<1>4. entry' \in [Records -> Ref' \cup {None}]
  BY <1>1, <1>3 DEF TypeOK
<1>5. RecordsKeepBindings'
  <2> SUFFICES ASSUME NEW r \in Records, entry[r] # None
               PROVE  Pointee(entry[r])' = atCreation[r]
    BY DEF RecordsKeepBindings, Pointee
  <2>1. entry[r] \in Ref /\ entry'[r] = entry[r]
    BY <1>1 DEF TypeOK
  <2>2. Pointee(entry[r]) = atCreation[r]
    BY <1>1 DEF RecordsKeepBindings
  <2> QED
    BY <1>2, <2>1, <2>2 DEF Pointee
<1> QED
  BY <1>2, <1>3, <1>4, <1>5 DEF Ref

LEMMA EndBindStep ==
  ASSUME BindInv, NEW b \in Binders, EndBind(b)
  PROVE  BindInv'
<1> DEFINE own == Len(binder[b].fields) - binder[b].had
<1>1. /\ binder[b] # None
      /\ width' = Append(width, [stmt |-> binder[b].stmt, fields |-> own])
      /\ history' = history \o Own(binder[b].stmt, own)
      /\ ReplaceBound(binder[b].fields)
      /\ overlapped' = (overlapped \/ bound # binder[b].seen)
      /\ binder' = [binder EXCEPT ![b] = None]
      /\ UNCHANGED <<entry, statements, atCreation>>
  BY DEF EndBind, Own
<1>2. binder[b] \in [stmt : 1..MaxStatements, fields : Fields, had : Nat, seen : Ref]
  BY <1>1 DEF BindInv, TypeOK
<1>3. own \in 0..MaxKv
  BY <1>1, <1>2, BindersAssumption DEF BindInv, Counted, Fields
<1> HIDE DEF own
<1>4. /\ sets' \in Seq(Fields \ {<<>>}) /\ bound' \in Ref' /\ Ref \subseteq Ref'
      /\ entry' \in [Records -> Ref' \cup {None}]
      /\ RecordsKeepBindings'
  BY <1>1, <1>2, ReferencesStay
<1>5. history' \in Fields
  BY <1>1, <1>2, <1>3, OwnTyped DEF BindInv, TypeOK, Fields
<1>6. width' \in Seq([stmt : 1..MaxStatements, fields : 0..MaxKv])
  BY <1>1, <1>2, <1>3 DEF BindInv, TypeOK
<1>7. binder' \in [Binders -> [stmt : 1..MaxStatements, fields : Fields, had : Nat, seen : Ref']
                             \cup {None}]
  BY <1>1, <1>4 DEF BindInv, TypeOK
<1>8. overlapped' \in BOOLEAN
  BY <1>1 DEF BindInv, TypeOK
<1>9. TypeOK'
  BY <1>1, <1>4, <1>5, <1>6, <1>7, <1>8 DEF BindInv, TypeOK
<1>10. Counted'
  BY <1>1 DEF BindInv, TypeOK, Counted
<1> QED
  BY <1>4, <1>9, <1>10 DEF BindInv

LEMMA UnbindAllStep ==
  ASSUME BindInv, UnbindAll
  PROVE  BindInv'
<1>1. /\ ReplaceBound(<<>>) /\ history' = <<>> /\ overlapped' = FALSE
      /\ UNCHANGED <<binder, entry, statements, width, atCreation>>
  BY DEF UnbindAll
<1>2. <<>> \in Fields
  BY DEF Fields
<1>3. /\ sets' \in Seq(Fields \ {<<>>}) /\ bound' \in Ref' /\ Ref \subseteq Ref'
      /\ entry' \in [Records -> Ref' \cup {None}]
      /\ RecordsKeepBindings'
  BY <1>1, <1>2, ReferencesStay
<1>4. binder' \in [Binders -> [stmt : 1..MaxStatements, fields : Fields, had : Nat, seen : Ref']
                             \cup {None}]
  BY <1>1, <1>3 DEF BindInv, TypeOK
<1>5. TypeOK'
  BY <1>1, <1>2, <1>3, <1>4 DEF BindInv, TypeOK
<1>6. Counted'
  BY <1>1 DEF BindInv, Counted
<1> QED
  BY <1>3, <1>5, <1>6 DEF BindInv

LEMMA RecordStep ==
  ASSUME BindInv, NEW r \in Records, CreateRecord(r) \/ FormatRecord(r)
  PROVE  BindInv'
<1>1. UNCHANGED <<sets, bound, binder, statements, width, history, overlapped>>
  BY DEF CreateRecord, FormatRecord
<1>2. Pointee(bound) \in Fields /\ <<>> \in Fields
  BY DEF BindInv, TypeOK, Pointee, Ref, Null, Fields
<1>3. TypeOK'
  BY <1>1, <1>2 DEF BindInv, TypeOK, Ref, CreateRecord, FormatRecord
<1>4. Counted'
  BY <1>1 DEF BindInv, Counted
<1>5. RecordsKeepBindings'
  BY <1>1, ZenonT(30) DEF BindInv, TypeOK, RecordsKeepBindings, Pointee, CreateRecord, FormatRecord
<1> QED
  BY <1>3, <1>4, <1>5 DEF BindInv

LEMMA BindInvInit == Init => BindInv
<1> SUFFICES ASSUME Init PROVE BindInv
  OBVIOUS
<1>1. sets \in Seq(Fields \ {<<>>}) /\ Len(sets) = 0 /\ history \in Fields
  BY DEF Init, Fields
<1>2. bound \in Ref /\ statements \in 0..MaxStatements
  BY <1>1, BindersAssumption DEF Init, Ref, Null
<1>3. width \in Seq([stmt : 1..MaxStatements, fields : 0..MaxKv])
  BY DEF Init
<1>4. atCreation \in [Records -> Fields]
  BY DEF Init, Fields
<1>5. TypeOK
  BY <1>1, <1>2, <1>3, <1>4 DEF Init, TypeOK
<1> QED
  BY <1>5 DEF Init, BindInv, Counted, RecordsKeepBindings

LEMMA BindInvStep == BindInv /\ [Next]_vars => BindInv'
<1> SUFFICES ASSUME BindInv, [Next]_vars PROVE BindInv'
  OBVIOUS
<1>1. CASE UNCHANGED vars
  BY <1>1 DEF vars, BindInv, TypeOK, Counted, RecordsKeepBindings, Pointee, Ref
<1>2. CASE Next
  BY <1>2, BeginBindStep, BinderKvStep, EndBindStep, UnbindAllStep, RecordStep DEF Next
<1> QED
  BY <1>1, <1>2

LEMMA BindInvAlways == Spec => []BindInv
BY BindInvInit, BindInvStep, PTL DEF Spec

(* Every variable keeps its type: bound_ and the records' references are
   null or point to a set with fields, for any number of statements
   (logger.hpp:531-536).                                                   *)
THEOREM TypeCorrect == Spec => []TypeOK
<1>1. BindInv => TypeOK
  BY DEF BindInv
<1> QED
  BY <1>1, BindInvAlways, PTL

(* A record is formatted with the bindings of its creation, whatever is
   bound and unbound while it waits (logger.hpp:313-315, 429).             *)
THEOREM RecordsCorrect == Spec => []RecordsKeepBindings
<1>1. BindInv => RecordsKeepBindings
  BY DEF BindInv
<1> QED
  BY <1>1, BindInvAlways, PTL

-----------------------------------------------------------------------------
(* Binding order.                                                          *)

\* What a set of bindings becomes when a statement ends: nothing is between
\* what its Binder copied and its own fields.
AccInv == BindInv /\ BindersExtend /\ BindingsAccumulate

LEMMA ConcatAppend ==
  ASSUME NEW r \in Seq(Field), NEW s \in Seq(Field), NEW x \in Field
  PROVE  Append(r \o s, x) = r \o Append(s, x)
<1> DEFINE u == Append(r \o s, x)
           v == r \o Append(s, x)
<1>1. r \o s \in Seq(Field) /\ Len(r \o s) = Len(r) + Len(s)
  OBVIOUS
<1>2. Append(s, x) \in Seq(Field) /\ Len(Append(s, x)) = Len(s) + 1
  OBVIOUS
<1>3. u \in Seq(Field) /\ Len(u) = Len(r) + Len(s) + 1
  BY <1>1
<1>4. v \in Seq(Field) /\ Len(v) = Len(r) + Len(s) + 1
  BY <1>2
<1>5. ASSUME NEW i \in 1..Len(u) PROVE u[i] = v[i]
  <2>1. CASE i \in 1..Len(r)
    BY <1>1, <1>2, <2>1
  <2>2. CASE i \in Len(r) + 1..Len(r) + Len(s)
    BY <1>1, <1>2, <2>2
  <2>3. CASE i = Len(r) + Len(s) + 1
    BY <1>1, <1>2, <2>3
  <2> QED
    BY <1>3, <2>1, <2>2, <2>3
<1> HIDE DEF u, v
<1>6. u = v
  BY <1>3, <1>4, <1>5
<1> QED
  BY <1>6 DEF u, v

LEMMA OwnExtended ==
  ASSUME NEW r \in Seq(Field), NEW stmt \in 1..MaxStatements, NEW n \in 0..MaxKv, n < MaxKv
  PROVE  Append(r \o Own(stmt, n), [stmt |-> stmt, nth |-> n + 1]) = r \o Own(stmt, n + 1)
<1>1. /\ Own(stmt, n) \in Seq(Field) /\ Len(Own(stmt, n)) = n
      /\ Own(stmt, n + 1) \in Seq(Field) /\ Len(Own(stmt, n + 1)) = n + 1
      /\ [stmt |-> stmt, nth |-> n + 1] \in Field
  <2>1. n + 1 \in 0..MaxKv /\ n + 1 \in 1..MaxKv
    BY BindersAssumption
  <2>2. [stmt |-> stmt, nth |-> n + 1] \in Field
    BY <2>1 DEF Field
  <2> QED
    BY <2>1, <2>2, OwnTyped DEF Fields
<1>2. \A k \in 1..n : Own(stmt, n)[k] = Own(stmt, n + 1)[k]
  BY DEF Own
<1>3. Own(stmt, n + 1)[n + 1] = [stmt |-> stmt, nth |-> n + 1]
  BY DEF Own
<1>4. Own(stmt, n + 1) = Append(Own(stmt, n), [stmt |-> stmt, nth |-> n + 1])
  BY <1>1, <1>2, <1>3 DEF Own
<1> QED
  BY <1>1, <1>4, ConcatAppend

LEMMA ExtendBegin ==
  ASSUME AccInv, NEW b \in Binders, BeginBind(b)
  PROVE  BindersExtend' /\ BindingsAccumulate'
<1>1. /\ binder' = [binder EXCEPT ![b] = [stmt |-> statements + 1, fields |-> Snapshot,
                                          had |-> Len(Snapshot), seen |-> bound]]
      /\ statements' = statements + 1 /\ statements < MaxStatements
      /\ UNCHANGED <<sets, bound, history, overlapped>>
  BY DEF BeginBind
<1>2. TypeOK /\ Snapshot \in Seq(Field)
  BY DEF AccInv, BindInv, TypeOK, Snapshot, Pointee, Ref, Null, Fields
<1>3. Snapshot = Snapshot \o Own(statements + 1, Len(Snapshot) - Len(Snapshot))
  <2>1. Own(statements + 1, 0) = <<>>
    BY DEF Own
  <2> QED
    BY <1>2, <2>1
<1>4. \A x : Pointee(x)' = Pointee(x)
  BY <1>1 DEF Pointee
<1>5. BindersExtend'
  BY <1>1, <1>2, <1>3, <1>4 DEF AccInv, BindersExtend, TypeOK, Snapshot
<1> QED
  BY <1>1, <1>4, <1>5 DEF AccInv, BindingsAccumulate

LEMMA ExtendKv ==
  ASSUME AccInv, NEW b \in Binders, BinderKv(b)
  PROVE  BindersExtend' /\ BindingsAccumulate'
<1> DEFINE n == Len(binder[b].fields) - binder[b].had
           f == [stmt |-> binder[b].stmt, nth |-> n + 1]
           r == Pointee(binder[b].seen)
<1>1. /\ binder[b] # None /\ n < MaxKv
      /\ binder' = [binder EXCEPT ![b].fields = Append(@, f)]
      /\ UNCHANGED <<sets, bound, history, overlapped>>
  BY DEF BinderKv
<1>2. binder[b] \in [stmt : 1..MaxStatements, fields : Fields, had : Nat, seen : Ref]
  BY <1>1 DEF AccInv, BindInv, TypeOK
<1>3. n \in 0..MaxKv /\ r \in Seq(Field) /\ binder[b].had = Len(r)
      /\ binder[b].fields = r \o Own(binder[b].stmt, n)
  <2>1. n \in 0..MaxKv
    BY <1>1, <1>2, BindersAssumption DEF AccInv, BindInv, Counted, Fields
  <2>2. r \in Seq(Field)
    BY <1>2 DEF AccInv, BindInv, TypeOK, Pointee, Ref, Null, Fields
  <2>3. binder[b].had = Len(r) /\ binder[b].fields = r \o Own(binder[b].stmt, n)
    BY <1>1 DEF AccInv, BindersExtend
  <2> QED
    BY <2>1, <2>2, <2>3
<1>4. Append(binder[b].fields, f) = r \o Own(binder[b].stmt, n + 1)
  BY <1>1, <1>2, <1>3, OwnExtended
<1>5. Len(Append(binder[b].fields, f)) - binder[b].had = n + 1
  BY <1>2 DEF Fields
<1>6. \A x : Pointee(x)' = Pointee(x)
  BY <1>1 DEF Pointee
<1> HIDE DEF n, f, r
<1>7. binder'[b] = [binder[b] EXCEPT !.fields = Append(binder[b].fields, f)]
      /\ \A c \in Binders : c # b => binder'[c] = binder[c]
  BY <1>1 DEF AccInv, BindInv, TypeOK
<1>8. /\ binder'[b].had = binder[b].had /\ binder'[b].stmt = binder[b].stmt
      /\ binder'[b].seen = binder[b].seen
      /\ binder'[b].fields = Append(binder[b].fields, f)
  BY <1>2, <1>7
<1>9. BindersExtend'
  <2> SUFFICES ASSUME NEW c \in Binders, binder'[c] # None
               PROVE  /\ binder'[c].had = Len(Pointee(binder'[c].seen))
                      /\ binder'[c].fields = Pointee(binder'[c].seen)
                           \o Own(binder'[c].stmt, Len(binder'[c].fields) - binder'[c].had)
    BY <1>6 DEF BindersExtend
  <2>1. CASE c = b
    BY <1>3, <1>4, <1>5, <1>8, <2>1 DEF r
  <2>2. CASE c # b
    BY <1>7, <2>2 DEF AccInv, BindersExtend
  <2> QED
    BY <2>1, <2>2
<1> QED
  BY <1>1, <1>6, <1>9 DEF AccInv, BindingsAccumulate

\* The Binders that stay point to sets that stay.
LEMMA OthersExtend ==
  ASSUME AccInv, NEW fields \in Fields, ReplaceBound(fields),
         NEW c \in Binders, binder[c] # None, binder'[c] = binder[c]
  PROVE  /\ binder'[c].had = Len(Pointee(binder[c].seen)')
         /\ binder'[c].fields = Pointee(binder[c].seen)'
              \o Own(binder'[c].stmt, Len(binder'[c].fields) - binder'[c].had)
<1>1. binder[c].seen \in Ref
  BY DEF AccInv, BindInv, TypeOK
<1>2. \A p \in Ref : Pointee(p)' = Pointee(p)
  BY ReplacedHeap DEF AccInv, BindInv
<1>3. Pointee(binder[c].seen)' = Pointee(binder[c].seen)
  BY <1>1, <1>2
<1> QED
  BY <1>3 DEF AccInv, BindersExtend

\* The statement's own fields come behind the bindings it has seen.
LEMMA ExtendEnd ==
  ASSUME AccInv, NEW b \in Binders, EndBind(b)
  PROVE  BindersExtend' /\ BindingsAccumulate'
<1> DEFINE own == Len(binder[b].fields) - binder[b].had
<1>1. /\ binder[b] # None
      /\ history' = history \o Own(binder[b].stmt, own)
      /\ ReplaceBound(binder[b].fields)
      /\ overlapped' = (overlapped \/ bound # binder[b].seen)
      /\ binder' = [binder EXCEPT ![b] = None]
  BY DEF EndBind, Own
<1>2. TypeOK /\ binder[b].fields \in Fields
  BY <1>1 DEF AccInv, BindInv, TypeOK
<1>3. binder'[b] = None /\ \A c \in Binders : c # b => binder'[c] = binder[c]
  BY <1>1, <1>2 DEF TypeOK
<1>4. BindersExtend'
  BY <1>1, <1>2, <1>3, OthersExtend DEF BindersExtend
<1>5. BindingsAccumulate'
  <2> SUFFICES ASSUME ~overlapped' PROVE Pointee(bound)' = history'
    BY DEF BindingsAccumulate
  <2>1. bound = binder[b].seen /\ Pointee(bound) = history
    BY <1>1, <1>2 DEF AccInv, BindingsAccumulate, TypeOK
  <2>2. binder[b].fields = Pointee(bound) \o Own(binder[b].stmt, own)
    BY <1>1, <2>1 DEF AccInv, BindersExtend
  <2>3. Pointee(bound)' = binder[b].fields
    BY <1>1, <1>2, ReplacedHeap
  <2> QED
    BY <1>1, <2>1, <2>2, <2>3
<1> QED
  BY <1>4, <1>5

LEMMA ExtendUnbind ==
  ASSUME AccInv, UnbindAll
  PROVE  BindersExtend' /\ BindingsAccumulate'
<1>1. ReplaceBound(<<>>) /\ history' = <<>> /\ binder' = binder
  BY DEF UnbindAll
<1>2. TypeOK /\ <<>> \in Fields
  BY DEF AccInv, BindInv, Fields
<1>3. BindersExtend'
  BY <1>1, <1>2, OthersExtend DEF BindersExtend
<1>4. Pointee(bound)' = <<>>
  BY <1>1, <1>2, ReplacedHeap
<1> QED
  BY <1>1, <1>3, <1>4 DEF BindingsAccumulate

LEMMA AccInvInit == Init => AccInv
BY BindInvInit DEF Init, AccInv, BindersExtend, BindingsAccumulate, Pointee

LEMMA AccInvStep == AccInv /\ [Next]_vars => AccInv'
<1> SUFFICES ASSUME AccInv, [Next]_vars PROVE AccInv'
  OBVIOUS
<1>1. BindInv'
  BY BindInvStep DEF AccInv
<1>2. BindersExtend' /\ BindingsAccumulate'
  <2>1. CASE UNCHANGED <<sets, bound, binder, history, overlapped>>
    BY <2>1 DEF AccInv, BindersExtend, BindingsAccumulate, Pointee
  <2>2. CASE UNCHANGED vars
    BY <2>1, <2>2 DEF vars
  <2>3. CASE \E r \in Records : CreateRecord(r) \/ FormatRecord(r)
    BY <2>1, <2>3 DEF CreateRecord, FormatRecord
  <2> QED
    BY <2>2, <2>3, ExtendBegin, ExtendKv, ExtendEnd, ExtendUnbind DEF Next
<1> QED
  BY <1>1, <1>2 DEF AccInv

(* The bindings are the fields of the bind statements that have ended since
   unbind_all(), in binding order (README.md:161), if no two overlapped.   *)
THEOREM BindingsCorrect == Spec => []BindingsAccumulate
<1>1. Spec => []AccInv
  BY AccInvInit, AccInvStep, PTL DEF Spec
<1>2. AccInv => BindingsAccumulate
  BY DEF AccInv
<1> QED
  BY <1>1, <1>2, PTL

-----------------------------------------------------------------------------
(* Sets that are shared are as good as copies.                             *)

\* What there is, is not None.
LEMMA SomethingIsNotNone ==
  ASSUME TypeOK
  PROVE  /\ \A p \in Ref : Pointee(p) \in Fields /\ Pointee(p) # None /\ p # None
         /\ bound \in Ref
         /\ \A b \in Binders : binder[b] # None => binder[b].seen \in Ref
         /\ \A r \in Records : entry[r] # None => entry[r] \in Ref
<1>1. \A p \in Ref : Pointee(p) \in Fields /\ p \in Nat
  BY DEF TypeOK, Ref, Pointee, Null, Fields
<1>2. None \notin Nat /\ None \notin Fields
  BY NoneAssumption DEF Fields
<1>3. \A p \in Ref : Pointee(p) # None /\ p # None
  BY <1>1, <1>2
<1> QED
  BY <1>1, <1>3 DEF TypeOK

\* What statements have found and records have stays, when bound_ is replaced.
LEMMA ValuesStay ==
  ASSUME TypeOK, NEW fields \in Fields, ReplaceBound(fields)
  PROVE  /\ Pointee(bound)' = fields
         /\ \A b \in Binders : binder'[b] = binder[b] => Found(b)' = Found(b)
         /\ \A r \in Records : entry'[r] = entry[r] => Carried(r)' = Carried(r)
<1>1. \A p \in Ref : Pointee(p)' = Pointee(p)
  BY ReplacedHeap
<1>2. Pointee(bound)' = fields
  BY ReplacedHeap
<1>3. ASSUME NEW b \in Binders, binder'[b] = binder[b]
      PROVE  Found(b)' = Found(b)
  <2>1. CASE binder[b] = None
    BY <1>3, <2>1 DEF Found
  <2>2. CASE binder[b] # None
    <3>1. ASSUME NEW p \in Ref, p = binder[b].seen
          PROVE  Found(b) = Pointee(p) /\ Found(b)' = Pointee(p)'
      BY <1>3, <2>2, <3>1 DEF Found, Pointee
    <3>2. binder[b].seen \in Ref
      BY <2>2, SomethingIsNotNone
    <3> QED
      BY <1>1, <3>1, <3>2
  <2> QED
    BY <2>1, <2>2
<1>4. ASSUME NEW r \in Records, entry'[r] = entry[r]
      PROVE  Carried(r)' = Carried(r)
  <2>1. CASE entry[r] = None
    BY <1>4, <2>1 DEF Carried
  <2>2. CASE entry[r] # None
    <3>1. ASSUME NEW p \in Ref, p = entry[r]
          PROVE  Carried(r) = Pointee(p) /\ Carried(r)' = Pointee(p)'
      BY <1>4, <2>2, <3>1 DEF Carried, Pointee
    <3>2. entry[r] \in Ref
      BY <2>2, SomethingIsNotNone
    <3> QED
      BY <1>1, <3>1, <3>2
  <2> QED
    BY <2>1, <2>2
<1> QED
  BY <1>2, <1>3, <1>4

LEMMA ValueBegin ==
  ASSUME AccInv, NEW b \in Binders, BeginBind(b)
  PROVE  Value!Begin(b)
<1> DEFINE fresh == [stmt |-> statements + 1, fields |-> Snapshot, had |-> Len(Snapshot),
                     seen |-> bound]
<1>1. /\ binder[b] = None /\ binder' = [binder EXCEPT ![b] = fresh]
      /\ UNCHANGED <<sets, bound, entry>>
  BY DEF BeginBind
<1>2. TypeOK /\ binder \in [Binders -> [stmt : 1..MaxStatements, fields : Fields, had : Nat, seen : Ref]
                                       \cup {None}]
  BY DEF AccInv, BindInv, TypeOK
<1>3. fresh # None
  <2>1. Snapshot \in Fields /\ bound \in Nat
    BY <1>2, SomethingIsNotNone DEF Snapshot, Ref, TypeOK
  <2>2. statements + 1 \in Nat /\ Len(Snapshot) \in Nat
    BY <1>2, <2>1 DEF TypeOK, Fields
  <2>3. fresh \in [stmt : Nat, fields : Seq(Field), had : Nat, seen : Nat]
    BY <2>1, <2>2 DEF Fields
  <2> QED
    BY <2>3, NoneAssumption
<1>4. binder'[b] = fresh /\ fresh.seen = bound /\ \A c \in Binders : c # b => binder'[c] = binder[c]
  BY <1>1, <1>2
<1> HIDE DEF fresh
<1>5. \A p : Pointee(p)' = Pointee(p)
  BY <1>1 DEF Pointee
<1>6. Found(b) = None /\ Found(b)' = Pointee(bound)
  BY <1>1, <1>3, <1>4 DEF Found, Pointee
<1>7. \A c \in Binders : c # b => Found(c)' = Found(c)
  BY <1>1, <1>4 DEF Found, Pointee
<1>8. \A r \in Records : Carried(r)' = Carried(r)
  BY <1>1 DEF Carried, Pointee
<1>9. Pointee(bound)' = Pointee(bound)
  BY <1>1 DEF Pointee
<1>10. [c \in Binders |-> Found(c)]' = [[c \in Binders |-> Found(c)] EXCEPT ![b] = Pointee(bound)]
  BY <1>6, <1>7, Zenon
<1> QED
  BY <1>6, <1>8, <1>9, <1>10 DEF Value!Begin

LEMMA ValueKv ==
  ASSUME AccInv, NEW b \in Binders, BinderKv(b)
  PROVE  UNCHANGED Value!vars
<1> DEFINE f == [stmt |-> binder[b].stmt, nth |-> Len(binder[b].fields) - binder[b].had + 1]
           new == Append(binder[b].fields, f)
<1>1. /\ binder[b] # None /\ binder' = [binder EXCEPT ![b].fields = new]
      /\ UNCHANGED <<sets, bound, entry>>
  BY DEF BinderKv
<1>2. binder \in [Binders -> [stmt : 1..MaxStatements, fields : Fields, had : Nat, seen : Ref]
                             \cup {None}]
  BY DEF AccInv, BindInv, TypeOK
<1>3. binder'[b] # None
  <2>1. BindInv'
    BY BinderKvStep DEF AccInv
  <2>2. binder'[b] = [binder[b] EXCEPT !.fields = new]
    BY <1>1, <1>2
  <2>3. binder[b] \in [stmt : 1..MaxStatements, fields : Fields, had : Nat, seen : Ref]
    BY <1>1, <1>2
  <2>4. binder[b].stmt \in Nat /\ binder[b].had \in Nat /\ binder[b].seen \in Nat
    BY <2>3 DEF Ref
  <2>5. new \in Seq(Field)
    <3>1. f \in Field
      <4>1. /\ Len(binder[b].fields) \in Nat /\ binder[b].had <= Len(binder[b].fields)
            /\ Len(binder[b].fields) - binder[b].had < MaxKv
        BY <1>1, <2>3 DEF Fields, BinderKv, AccInv, BindInv, Counted
      <4>2. Len(binder[b].fields) - binder[b].had + 1 \in 1..MaxKv
        BY <2>4, <4>1, BindersAssumption
      <4> QED
        BY <2>3, <4>2 DEF Field
    <3> HIDE DEF f
    <3> QED
      BY <2>3, <3>1 DEF Fields
  <2> HIDE DEF new
  <2>6. binder'[b] \in [stmt : Nat, fields : Seq(Field), had : Nat, seen : Nat]
    BY <2>2, <2>3, <2>4, <2>5
  <2> QED
    BY <2>6, NoneAssumption
<1> HIDE DEF new
<1>4. binder'[b].seen = binder[b].seen /\ \A c \in Binders : c # b => binder'[c] = binder[c]
  BY <1>1, <1>2
<1>5. \A c \in Binders : Found(c)' = Found(c)
  <2>1. Found(b)' = Found(b)
    BY <1>1, <1>3, <1>4 DEF Found, Pointee
  <2>2. \A c \in Binders : c # b => Found(c)' = Found(c)
    BY <1>1, <1>4 DEF Found, Pointee
  <2> QED
    BY <2>1, <2>2
<1>6. (\A r \in Records : Carried(r)' = Carried(r)) /\ Pointee(bound)' = Pointee(bound)
  BY <1>1 DEF Carried, Pointee
<1> QED
  BY <1>5, <1>6 DEF Value!vars

LEMMA ValueEnd ==
  ASSUME AccInv, NEW b \in Binders, EndBind(b)
  PROVE  Value!End(b)
<1> DEFINE own == Len(binder[b].fields) - binder[b].had
<1>1. /\ binder[b] # None
      /\ ReplaceBound(binder[b].fields)
      /\ binder' = [binder EXCEPT ![b] = None]
      /\ entry' = entry
  BY DEF EndBind
<1>2. /\ TypeOK
      /\ binder[b] \in [stmt : 1..MaxStatements, fields : Fields, had : Nat, seen : Ref]
      /\ binder'[b] = None /\ \A c \in Binders : c # b => binder'[c] = binder[c]
  BY <1>1 DEF AccInv, BindInv, TypeOK
<1>3. own \in 0..MaxKv
  BY <1>1, <1>2, BindersAssumption DEF AccInv, BindInv, Counted, Fields
<1>4. binder[b].fields = Pointee(binder[b].seen) \o Own(binder[b].stmt, own)
  BY <1>1 DEF AccInv, BindersExtend
<1> HIDE DEF own
<1>5. Own(binder[b].stmt, own) \in Statements
  BY <1>2, <1>3 DEF Own, Statements
<1>6. /\ Pointee(bound)' = binder[b].fields
      /\ \A c \in Binders : c # b => Found(c)' = Found(c)
      /\ \A r \in Records : Carried(r)' = Carried(r)
  BY <1>1, <1>2, ValuesStay
<1>7. Found(b) = Pointee(binder[b].seen) /\ Found(b) # None /\ Found(b)' = None
  BY <1>1, <1>2, SomethingIsNotNone DEF Found
<1>8. [c \in Binders |-> Found(c)]' = [[c \in Binders |-> Found(c)] EXCEPT ![b] = None]
  BY <1>6, <1>7, Zenon
<1>9. \E o \in Statements : Pointee(bound)' = Found(b) \o o
  BY <1>4, <1>5, <1>6, <1>7
<1> QED
  BY <1>6, <1>7, <1>8, <1>9 DEF Value!End

LEMMA ValueUnbind ==
  ASSUME AccInv, UnbindAll
  PROVE  Value!Unbind
<1>1. ReplaceBound(<<>>) /\ binder' = binder /\ entry' = entry
  BY DEF UnbindAll
<1>2. TypeOK /\ <<>> \in Fields
  BY DEF AccInv, BindInv, Fields
<1>3. /\ Pointee(bound)' = <<>>
      /\ \A c \in Binders : Found(c)' = Found(c)
      /\ \A r \in Records : Carried(r)' = Carried(r)
  BY <1>1, <1>2, ValuesStay
<1> QED
  BY <1>3 DEF Value!Unbind

LEMMA ValueRecord ==
  ASSUME AccInv, NEW r \in Records, CreateRecord(r) \/ FormatRecord(r)
  PROVE  Value!Create(r) \/ Value!Format(r)
<1>1. /\ UNCHANGED <<sets, bound, binder>>
      /\ \/ entry[r] = None /\ entry' = [entry EXCEPT ![r] = bound]
         \/ entry[r] # None /\ entry' = [entry EXCEPT ![r] = None]
  BY DEF CreateRecord, FormatRecord
<1>2. TypeOK /\ entry \in [Records -> Ref \cup {None}]
  BY DEF AccInv, BindInv, TypeOK
<1>3. \A q \in Records : q # r => Carried(q)' = Carried(q)
  BY <1>1, <1>2 DEF Carried, Pointee
<1>4. (\A b \in Binders : Found(b)' = Found(b)) /\ Pointee(bound)' = Pointee(bound)
  BY <1>1 DEF Found, Pointee
<1>5. CASE entry[r] = None /\ entry' = [entry EXCEPT ![r] = bound]
  <2>1. Carried(r) = None
    BY <1>5 DEF Carried
  <2>2. Carried(r)' = Pointee(bound)
    <3>1. entry'[r] = bound /\ bound # None
      BY <1>2, <1>5, SomethingIsNotNone
    <3> QED
      BY <1>1, <3>1 DEF Carried, Pointee
  <2>3. [q \in Records |-> Carried(q)]' = [[q \in Records |-> Carried(q)] EXCEPT ![r] = Pointee(bound)]
    BY <1>3, <2>2, Zenon
  <2> QED
    BY <1>4, <2>1, <2>3 DEF Value!Create
<1>6. CASE entry[r] # None /\ entry' = [entry EXCEPT ![r] = None]
  <2>1. Carried(r) # None
    BY <1>2, <1>6, SomethingIsNotNone DEF Carried
  <2>2. Carried(r)' = None
    BY <1>2, <1>6 DEF Carried
  <2>3. [q \in Records |-> Carried(q)]' = [[q \in Records |-> Carried(q)] EXCEPT ![r] = None]
    BY <1>3, <2>2, Zenon
  <2> QED
    BY <1>4, <2>1, <2>3 DEF Value!Format
<1> QED
  BY <1>1, <1>5, <1>6

(* Snapshots that are shared by reference and replaced are as good as a
   value that every Binder and every record has a copy of: a statement takes
   effect at once when it ends, on what it found (logger.hpp:313-331, 429,
   527-536).                                                               *)
THEOREM ImplementsBindings == Spec => BindingsSpec
<1>1. Init => Value!Init
  <2> SUFFICES ASSUME Init PROVE Value!Init
    OBVIOUS
  <2>1. Pointee(bound) = <<>>
    BY DEF Init, Pointee
  <2>2. (\A b \in Binders : Found(b) = None) /\ \A r \in Records : Carried(r) = None
    BY DEF Init, Found, Carried
  <2> QED
    BY <2>1, <2>2 DEF Value!Init
<1>2. AccInv /\ [Next]_vars => [Value!Next]_Value!vars
  <2> SUFFICES ASSUME AccInv, [Next]_vars PROVE [Value!Next]_Value!vars
    OBVIOUS
  <2>1. CASE UNCHANGED vars
    <3>1. UNCHANGED <<sets, bound, binder, entry>>
      BY <2>1 DEF vars
    <3> QED
      BY <3>1 DEF Value!vars, Found, Carried, Pointee
  <2>2. ASSUME NEW b \in Binders, BeginBind(b)
        PROVE  Value!Next
    BY <2>2, ValueBegin DEF Value!Next
  <2>3. ASSUME NEW b \in Binders, BinderKv(b)
        PROVE  UNCHANGED Value!vars
    BY <2>3, ValueKv
  <2>4. ASSUME NEW b \in Binders, EndBind(b)
        PROVE  Value!Next
    BY <2>4, ValueEnd DEF Value!Next
  <2>5. ASSUME NEW r \in Records, CreateRecord(r) \/ FormatRecord(r)
        PROVE  Value!Next
    BY <2>5, ValueRecord DEF Value!Next
  <2>6. CASE UnbindAll
    BY <2>6, ValueUnbind DEF Value!Next
  <2> QED
    BY <2>1, <2>2, <2>3, <2>4, <2>5, <2>6 DEF Next
<1> QED
  BY <1>1, <1>2, AccInvInit, AccInvStep, PTL DEF Spec, BindingsSpec, Value!Spec

-----------------------------------------------------------------------------
(* Whole statements.                                                       *)

EndedAt(n) == {i \in 1..Len(width) : width[i].stmt = n}

\* A statement is one Binder's, and ends once.
Numbered ==
  /\ \A i \in 1..Len(width) : width[i].stmt <= statements
  /\ \A i, j \in 1..Len(width) : width[i].stmt = width[j].stmt => i = j
  /\ \A b \in Binders : binder[b] # None =>
       binder[b].stmt <= statements /\ EndedAt(binder[b].stmt) = {}
  /\ \A b, c \in Binders :
       binder[b] # None /\ binder[c] # None /\ binder[b].stmt = binder[c].stmt => b = c

\* All count fields of a statement are there, in order and with none between.
Block(fields, n, count) ==
  \E p \in 0..Len(fields) :
    /\ Places(fields, n) = p + 1..p + count
    /\ \A i \in p + 1..p + count : fields[i].nth = i - p

SetWhole(fields) ==
  \A n \in 1..MaxStatements :
    Places(fields, n) = {} \/ \E i \in EndedAt(n) : Block(fields, n, width[i].fields)

\* What WholeStatements follows from: it holds of every set that bound_ has
\* pointed to, not only of those a record points to now.
HeapWhole == \A p \in 1..Len(sets) : SetWhole(sets[p])

WholeInv == AccInv /\ Numbered /\ HeapWhole

LEMMA LeastOfInterval ==
  ASSUME NEW p \in Nat, NEW c \in Nat \ {0}
  PROVE  Min(p + 1..p + c) = p + 1
<1> DEFINE Is(x) == x \in p + 1..p + c /\ \A y \in p + 1..p + c : x <= y
<1>1. Is(p + 1)
  OBVIOUS
<1>2. \A x : Is(x) => x = p + 1
  OBVIOUS
<1>3. Min(p + 1..p + c) = CHOOSE x : Is(x)
  BY DEF Min
<1> QED
  BY <1>1, <1>2, <1>3

LEMMA BlockIsWhole ==
  ASSUME NEW fields \in Fields, NEW n, NEW count \in Nat, Block(fields, n, count)
  PROVE  Whole(fields, n, count)
<1>1. PICK p \in 0..Len(fields) : /\ Places(fields, n) = p + 1..p + count
                                  /\ \A i \in p + 1..p + count : fields[i].nth = i - p
  BY DEF Block
<1>2. p \in Nat
  BY DEF Fields
<1>3. CASE count = 0
  <2>1. p + 1..p + count = {}
    BY <1>2, <1>3
  <2> QED
    BY <1>1, <2>1 DEF Whole
<1>4. CASE count # 0
  <2>1. Cardinality(p + 1..p + count) = count
    <3>1. p + 1 \in Int /\ p + count \in Int /\ ~(p + 1 > p + count)
          /\ (p + count) - (p + 1) + 1 = count
      BY <1>2, <1>4
    <3> QED
      BY <3>1, FS_Interval
  <2>2. Min(p + 1..p + count) = p + 1
    BY <1>2, <1>4, LeastOfInterval
  <2>3. \A i \in p + 1..p + count : i = (p + 1) + fields[i].nth - 1
    BY <1>1, <1>2
  <2> QED
    BY <1>1, <2>1, <2>2, <2>3 DEF Whole
<1> QED
  BY <1>3, <1>4

(* A statement's fields behind a set that has none of them.                 *)
LEMMA PlacesExtended ==
  ASSUME NEW r \in Seq(Field), NEW stmt \in 1..MaxStatements, NEW k \in 0..MaxKv,
         NEW s, s = r \o Own(stmt, k)
  PROVE  /\ \A m : m # stmt /\ Places(r, m) = {} => Places(s, m) = {}
         /\ \A m, c : m # stmt /\ Block(r, m, c) => Block(s, m, c)
         /\ Places(r, stmt) = {} => Block(s, stmt, k)
<1>0. PICK o : o = Own(stmt, k)
  OBVIOUS
<1>1. /\ o \in Seq(Field) /\ Len(o) = k
      /\ \A i \in 1..k : o[i] = [stmt |-> stmt, nth |-> i]
  BY <1>0, OwnTyped DEF Own, Fields
<1>2. Len(r) \in Nat /\ k \in Nat
  BY BindersAssumption
<1>3. /\ Len(s) = Len(r) + k
      /\ \A i \in 1..Len(r) + k : s[i] = IF i <= Len(r) THEN r[i] ELSE o[i - Len(r)]
  <2>1. r \in Seq(Field) /\ o \in Seq(Field) /\ Len(o) = k /\ s = r \o o
    BY <1>0, <1>1
  <2>2. /\ Len(r \o o) = Len(r) + Len(o)
        /\ \A i \in 1..Len(r) + Len(o) : (r \o o)[i] = IF i <= Len(r) THEN r[i] ELSE o[i - Len(r)]
    BY <2>1, ConcatProperties
  <2> QED
    BY <2>1, <2>2
<1>4. \A i \in 1..Len(r) : i \in 1..Len(s) /\ s[i] = r[i]
  BY <1>2, <1>3
<1>5. \A i \in Len(r) + 1..Len(r) + k : i \in 1..Len(s) /\ s[i].stmt = stmt /\ s[i].nth = i - Len(r)
  <2> TAKE i \in Len(r) + 1..Len(r) + k
  <2>1. i - Len(r) \in 1..k /\ i \in 1..Len(r) + k /\ ~(i <= Len(r))
    BY <1>2
  <2>2. s[i] = o[i - Len(r)] /\ o[i - Len(r)] = [stmt |-> stmt, nth |-> i - Len(r)]
    BY <1>1, <1>3, <2>1
  <2>3. i \in 1..Len(s)
    BY <1>3, <2>1
  <2> QED
    BY <2>2, <2>3
<1>6. \A i \in 1..Len(s) : i \in 1..Len(r) \/ i \in Len(r) + 1..Len(r) + k
  BY <1>2, <1>3
<1>7. ASSUME NEW n, n # stmt PROVE Places(s, n) = Places(r, n)
  BY <1>4, <1>5, <1>6, <1>7 DEF Places
<1>8. ASSUME NEW n, NEW c, n # stmt, Block(r, n, c) PROVE Block(s, n, c)
  <2>1. PICK p \in 0..Len(r) : Places(r, n) = p + 1..p + c /\ \A i \in p + 1..p + c : r[i].nth = i - p
    BY <1>8 DEF Block
  <2>2. Places(s, n) = p + 1..p + c
    BY <1>7, <1>8, <2>1
  <2>3. \A i \in p + 1..p + c : i \in 1..Len(r)
    BY <2>1 DEF Places
  <2>4. \A i \in p + 1..p + c : s[i].nth = i - p
    BY <1>4, <2>1, <2>3
  <2>5. p \in 0..Len(s)
    BY <1>2, <1>3
  <2> QED
    BY <2>2, <2>4, <2>5 DEF Block
<1>9. ASSUME Places(r, stmt) = {} PROVE Block(s, stmt, k)
  <2>1. \A i \in 1..Len(r) : s[i].stmt # stmt
    BY <1>4, <1>9 DEF Places
  <2>2. Places(s, stmt) = Len(r) + 1..Len(r) + k
    BY <1>5, <1>6, <2>1 DEF Places
  <2>3. Len(r) \in 0..Len(s)
    BY <1>2, <1>3
  <2> QED
    BY <1>5, <2>2, <2>3 DEF Block
<1> QED
  BY <1>7, <1>8, <1>9

LEMMA NothingIsWhole == SetWhole(<<>>)
<1>1. \A n : Places(<<>>, n) = {}
  BY DEF Places
<1> QED
  BY <1>1 DEF SetWhole

\* A set stays whole while other statements end.
LEMMA StaysWhole ==
  ASSUME TypeOK, NEW s, SetWhole(s),
         NEW w \in [stmt : 1..MaxStatements, fields : 0..MaxKv], width' = Append(width, w)
  PROVE  SetWhole(s)'
<1>1. \A i \in 1..Len(width) : i \in 1..Len(width') /\ width'[i] = width[i]
  <2>1. /\ Len(width') = Len(width) + 1 /\ Len(width) \in Nat
        /\ \A i \in 1..Len(width) : width'[i] = width[i]
    BY AppendProperties DEF TypeOK
  <2> QED
    BY <2>1
<1>2. ASSUME NEW n \in 1..MaxStatements, NEW i \in EndedAt(n)
      PROVE  i \in EndedAt(n)' /\ width'[i] = width[i]
  BY <1>1 DEF EndedAt
<1> QED
  BY <1>2 DEF SetWhole

LEMMA NumberedStep ==
  ASSUME WholeInv, TypeOK', [Next]_vars
  PROVE  Numbered'
<1>1. TypeOK /\ Numbered
  BY DEF WholeInv, AccInv, BindInv
<1>2. CASE UNCHANGED <<width, binder, statements>>
  BY <1>1, <1>2 DEF Numbered, EndedAt
<1>3. ASSUME NEW b \in Binders, BeginBind(b) PROVE Numbered'
  <2>1. /\ statements' = statements + 1 /\ width' = width /\ statements \in Nat
        /\ binder[b] = None
        /\ binder' = [binder EXCEPT ![b] = [stmt |-> statements', fields |-> Snapshot,
                                           had |-> Len(Snapshot), seen |-> bound]]
    BY <1>1, <1>3 DEF BeginBind, TypeOK
  <2>2. /\ binder'[b].stmt = statements + 1
        /\ \A c \in Binders : c # b => binder'[c] = binder[c]
    BY <1>1, <2>1 DEF TypeOK
  <2>3. \A i \in 1..Len(width) : width[i].stmt \in Nat /\ width[i].stmt <= statements
    <3> TAKE i \in 1..Len(width)
    <3>1. width[i] \in [stmt : 1..MaxStatements, fields : 0..MaxKv]
      <4>1. width \in Seq([stmt : 1..MaxStatements, fields : 0..MaxKv])
        BY <1>1 DEF TypeOK
      <4> QED
        BY <4>1, ElementOfSeq
    <3> QED
      BY <1>1, <3>1 DEF Numbered
  <2>4. \A n : EndedAt(n)' = EndedAt(n)
    BY <2>1 DEF EndedAt
  <2>5. EndedAt(statements + 1) = {}
    BY <2>1, <2>3 DEF EndedAt
  <2>6. \A c \in Binders : binder[c] # None => binder[c].stmt \in Nat /\ binder[c].stmt <= statements
    BY <1>1 DEF TypeOK, Numbered
  <2>7. \A i \in 1..Len(width') : width'[i].stmt <= statements'
    BY <2>1, <2>3
  <2>8. \A i, j \in 1..Len(width') : width'[i].stmt = width'[j].stmt => i = j
    BY <1>1, <2>1 DEF Numbered
  <2>9. ASSUME NEW c \in Binders, binder'[c] # None
        PROVE  binder'[c].stmt <= statements' /\ EndedAt(binder[c].stmt)' = {}
    <3>1. CASE c = b
      BY <2>1, <2>2, <2>5, <3>1 DEF EndedAt
    <3>2. CASE c # b
      <4>1. binder'[c] = binder[c] /\ EndedAt(binder[c].stmt) = {}
        BY <1>1, <2>2, <2>9, <3>2 DEF Numbered
      <4> QED
        BY <2>1, <2>6, <2>9, <4>1 DEF EndedAt
    <3> QED
      BY <3>1, <3>2
  <2>10. ASSUME NEW c \in Binders, NEW d \in Binders, binder'[c] # None, binder'[d] # None,
                binder'[c].stmt = binder'[d].stmt
         PROVE  c = d
    <3>1. \A e \in Binders : e # b /\ binder'[e] # None => binder'[e].stmt <= statements /\ binder'[e].stmt \in Nat
      BY <2>2, <2>6
    <3>2. c # b /\ d # b => c = d
      BY <1>1, <2>2, <2>10 DEF Numbered
    <3> QED
      BY <2>1, <2>2, <2>10, <3>1, <3>2
  <2> QED
    BY <2>7, <2>8, <2>9, <2>10 DEF Numbered
<1>4. ASSUME NEW b \in Binders, BinderKv(b) PROVE Numbered'
  <2>1. PICK f : /\ binder[b] # None
                 /\ binder' = [binder EXCEPT ![b].fields = Append(@, f)]
                 /\ UNCHANGED <<width, statements>>
    BY <1>4 DEF BinderKv
  <2>2. binder[b] \in [stmt : 1..MaxStatements, fields : Fields, had : Nat, seen : Ref]
    BY <1>1, <2>1 DEF TypeOK
  <2>3. \A c \in Binders : binder'[c] # None => binder[c] # None /\ binder'[c].stmt = binder[c].stmt
    BY <1>1, <2>1, <2>2 DEF TypeOK
  <2> QED
    BY <1>1, <2>1, <2>3 DEF Numbered, EndedAt
<1>5. ASSUME NEW b \in Binders, EndBind(b) PROVE Numbered'
  <2> DEFINE w == [stmt |-> binder[b].stmt, fields |-> Len(binder[b].fields) - binder[b].had]
  <2>1. /\ width' = Append(width, w) /\ statements' = statements
        /\ binder[b] # None /\ binder' = [binder EXCEPT ![b] = None]
    BY <1>5 DEF EndBind
  <2>2. w.stmt = binder[b].stmt
    OBVIOUS
  <2> HIDE DEF w
  <2>3. /\ Len(width') = Len(width) + 1 /\ Len(width) \in Nat
        /\ \A i \in 1..Len(width) : width'[i] = width[i]
        /\ width'[Len(width) + 1] = w
    BY <1>1, <2>1, AppendProperties DEF TypeOK
  <2>4. \A c \in Binders : binder'[c] # None => c # b /\ binder'[c] = binder[c]
    BY <1>1, <2>1 DEF TypeOK
  <2>5. \A i \in 1..Len(width') : i \in 1..Len(width) \/ i = Len(width) + 1
    BY <2>3
  <2>6. \A i \in 1..Len(width) : width[i].stmt # w.stmt
    BY <1>1, <2>1, <2>2 DEF Numbered, EndedAt
  <2>7. \A i \in 1..Len(width') : width'[i].stmt <= statements'
    BY <1>1, <2>1, <2>2, <2>3, <2>5 DEF Numbered
  <2>8. \A i, j \in 1..Len(width') : width'[i].stmt = width'[j].stmt => i = j
    BY <1>1, <2>3, <2>5, <2>6 DEF Numbered
  <2>9. ASSUME NEW c \in Binders, binder'[c] # None
        PROVE  binder'[c].stmt <= statements' /\ EndedAt(binder[c].stmt)' = {}
    <3>1. binder'[c] = binder[c] /\ binder[c].stmt # w.stmt /\ binder[c].stmt <= statements
          /\ EndedAt(binder[c].stmt) = {}
      BY <1>1, <2>1, <2>2, <2>4, <2>9 DEF Numbered
    <3>2. \A i \in 1..Len(width') : width'[i].stmt # binder[c].stmt
      BY <2>3, <2>5, <3>1 DEF EndedAt
    <3> QED
      BY <2>1, <3>1, <3>2 DEF EndedAt
  <2>10. \A c, d \in Binders :
           binder'[c] # None /\ binder'[d] # None /\ binder'[c].stmt = binder'[d].stmt => c = d
    BY <1>1, <2>4 DEF Numbered
  <2> QED
    BY <2>7, <2>8, <2>9, <2>10 DEF Numbered
<1> QED
  BY <1>2, <1>3, <1>4, <1>5 DEF Next, vars, UnbindAll, CreateRecord, FormatRecord

LEMMA HeapWholeStep ==
  ASSUME WholeInv, TypeOK', [Next]_vars
  PROVE  HeapWhole'
<1>1. TypeOK /\ Numbered /\ HeapWhole
  BY DEF WholeInv, AccInv, BindInv
<1>2. CASE UNCHANGED <<sets, width>>
  BY <1>1, <1>2 DEF HeapWhole, SetWhole, EndedAt
<1>3. CASE UnbindAll
  BY <1>2, <1>3 DEF UnbindAll, ReplaceBound
<1>4. ASSUME NEW b \in Binders, EndBind(b) PROVE HeapWhole'
  <2> DEFINE k == Len(binder[b].fields) - binder[b].had
  <2>1. PICK n, s, r, own, w : /\ n = binder[b].stmt /\ s = binder[b].fields /\ r = Pointee(binder[b].seen)
                               /\ own = k /\ w = [stmt |-> n, fields |-> own]
    OBVIOUS
  <2>2. width' = Append(width, w) /\ ReplaceBound(s) /\ binder[b] # None
    BY <1>4, <2>1 DEF EndBind
  <2>3. binder[b] \in [stmt : 1..MaxStatements, fields : Fields, had : Nat, seen : Ref]
    BY <1>1, <2>2 DEF TypeOK
  <2>4. own \in 0..MaxKv /\ n \in 1..MaxStatements /\ s = r \o Own(n, own)
    <3>1. own \in 0..MaxKv
      BY <2>1, <2>2, <2>3, BindersAssumption DEF WholeInv, AccInv, BindInv, Counted, Fields
    <3>2. s = r \o Own(n, own)
      BY <2>1, <2>2 DEF WholeInv, AccInv, BindersExtend
    <3> QED
      BY <2>1, <2>3, <3>1, <3>2
  <2>5. r \in Seq(Field) /\ SetWhole(r)
    <3>1. CASE binder[b].seen = Null
      BY <2>1, <3>1, NothingIsWhole DEF Pointee
    <3>2. CASE binder[b].seen # Null
      <4>1. binder[b].seen \in 1..Len(sets) /\ r = sets[binder[b].seen]
        BY <2>1, <2>3, <3>2 DEF Ref, Null, Pointee
      <4> QED
        BY <1>1, <4>1 DEF TypeOK, HeapWhole, Fields
    <3> QED
      BY <3>1, <3>2
  <2>6. EndedAt(n) = {}
    BY <1>1, <2>1, <2>2 DEF Numbered
  <2>7. Places(r, n) = {}
    BY <2>4, <2>5, <2>6 DEF SetWhole
  <2>8. Len(width) + 1 \in EndedAt(n)' /\ width'[Len(width) + 1].fields = own
    <3>1. Len(width') = Len(width) + 1 /\ Len(width) \in Nat /\ width'[Len(width) + 1] = w
      BY <1>1, <2>2, AppendProperties DEF TypeOK
    <3> QED
      BY <2>1, <3>1 DEF EndedAt
  <2>9. /\ \A m : m # n /\ Places(r, m) = {} => Places(s, m) = {}
        /\ \A m, c : m # n /\ Block(r, m, c) => Block(s, m, c)
        /\ Block(s, n, own)
    <3>1. r \in Seq(Field) /\ n \in 1..MaxStatements /\ own \in 0..MaxKv
      BY <2>4, <2>5
    <3> QED
      BY <2>4, <2>7, <3>1, PlacesExtended
  <2>10. w \in [stmt : 1..MaxStatements, fields : 0..MaxKv]
    BY <2>1, <2>4
  <2>11. SetWhole(r)'
    BY <1>1, <2>2, <2>5, <2>10, StaysWhole
  <2>12. SetWhole(s)'
    <3> SUFFICES ASSUME NEW m \in 1..MaxStatements
                 PROVE  Places(s, m) = {} \/ \E i \in EndedAt(m)' : Block(s, m, width'[i].fields)
      BY DEF SetWhole
    <3>1. CASE m = n
      BY <2>8, <2>9, <3>1
    <3>2. CASE m # n
      <4>1. Places(r, m) = {} \/ \E i \in EndedAt(m)' : Block(r, m, width'[i].fields)
        BY <2>11 DEF SetWhole
      <4> QED
        BY <2>9, <3>2, <4>1
    <3> QED
      BY <3>1, <3>2
  <2>13. ASSUME NEW p \in 1..Len(sets), NEW t, t = sets[p] PROVE SetWhole(t)'
    BY <1>1, <2>2, <2>10, <2>13, StaysWhole DEF HeapWhole
  <2>14. ASSUME NEW p \in 1..Len(sets'), NEW t, t = sets'[p] PROVE SetWhole(t)'
    <3>1. CASE sets' = sets
      BY <2>13, <2>14, <3>1
    <3>2. CASE sets' = Append(sets, s)
      <4>1. s \in Fields
        BY <2>1, <2>3
      <4>2. /\ Len(sets') = Len(sets) + 1 /\ Len(sets) \in Nat
            /\ \A q \in 1..Len(sets) : sets'[q] = sets[q]
            /\ sets'[Len(sets) + 1] = s
        <5>1. sets \in Seq(Fields)
          BY <1>1, SeqMonotonic DEF TypeOK
        <5> QED
          BY <3>2, <4>1, <5>1, AppendProperties
      <4>3. p \in 1..Len(sets) \/ p = Len(sets) + 1
        BY <4>2
      <4> QED
        BY <2>12, <2>13, <2>14, <4>2, <4>3
    <3> QED
      BY <2>2, <3>1, <3>2 DEF ReplaceBound
  <2> QED
    BY <2>14 DEF HeapWhole
<1> QED
  BY <1>2, <1>3, <1>4 DEF Next, vars, BeginBind, BinderKv, CreateRecord, FormatRecord

LEMMA WholeInvAlways == Spec => []WholeInv
<1>1. Init => WholeInv
  <2> SUFFICES ASSUME Init PROVE WholeInv
    OBVIOUS
  <2>1. sets = <<>> /\ width = <<>> /\ \A b \in Binders : binder[b] = None
    BY DEF Init
  <2> QED
    BY <2>1, AccInvInit DEF WholeInv, Numbered, HeapWhole
<1>2. WholeInv /\ [Next]_vars => WholeInv'
  <2> SUFFICES ASSUME WholeInv, [Next]_vars PROVE WholeInv'
    OBVIOUS
  <2>1. AccInv' /\ TypeOK'
    BY AccInvStep DEF WholeInv, AccInv, BindInv
  <2> QED
    BY <2>1, NumberedStep, HeapWholeStep DEF WholeInv
<1> QED
  BY <1>1, <1>2, PTL DEF Spec

LEMMA WholeSuffices == WholeInv => WholeStatements
<1> SUFFICES ASSUME WholeInv, NEW r \in Records, entry[r] # None, NEW n \in 1..statements,
                    NEW s, s = Pointee(entry[r])
             PROVE  IF EndedAt(n) = {} THEN Places(s, n) = {}
                    ELSE \A i \in EndedAt(n) : Whole(s, n, width[i].fields)
  BY DEF WholeStatements, EndedAt
<1>1. TypeOK /\ Numbered
  BY DEF WholeInv, AccInv, BindInv
<1>2. SetWhole(s) /\ s \in Fields
  <2>1. CASE entry[r] = Null
    BY <2>1, NothingIsWhole DEF Pointee, Fields
  <2>2. CASE entry[r] # Null
    <3>1. entry[r] \in 1..Len(sets) /\ s = sets[entry[r]]
      BY <1>1, <2>2 DEF TypeOK, Ref, Null, Pointee
    <3> QED
      BY <1>1, <3>1 DEF TypeOK, WholeInv, HeapWhole
  <2> QED
    BY <2>1, <2>2
<1>3. n \in 1..MaxStatements
  BY <1>1, BindersAssumption DEF TypeOK
<1>4. Places(s, n) = {} \/ \E i \in EndedAt(n) : Block(s, n, width[i].fields)
  BY <1>2, <1>3 DEF SetWhole
<1>5. ASSUME NEW i \in EndedAt(n) PROVE Whole(s, n, width[i].fields)
  <2>1. \A j \in EndedAt(n) : i = j
    BY <1>1 DEF Numbered, EndedAt
  <2>2. CASE Places(s, n) = {}
    BY <2>2 DEF Whole
  <2>3. CASE Block(s, n, width[i].fields)
    <3>1. width[i].fields \in Nat
      <4>1. width[i] \in [stmt : 1..MaxStatements, fields : 0..MaxKv]
        <5>1. width \in Seq([stmt : 1..MaxStatements, fields : 0..MaxKv])
          BY <1>1 DEF TypeOK
        <5>2. i \in 1..Len(width)
          BY DEF EndedAt
        <5> QED
          BY <5>1, <5>2, ElementOfSeq
      <4> QED
        BY <4>1, BindersAssumption
    <3> QED
      BY <1>2, <2>3, <3>1, BlockIsWhole
  <2> QED
    BY <1>4, <2>1, <2>2, <2>3
<1> QED
  BY <1>4, <1>5

(* A record has a bind statement's fields all, together and in order, or none,
   for any number of binders at once: ~Binder swaps in a whole set
   (logger.hpp:317-331).                                                   *)
THEOREM WholeCorrect == Spec => []WholeStatements
BY WholeInvAlways, WholeSuffices, PTL
=============================================================================
