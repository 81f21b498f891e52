------------------------- MODULE SinkDispatchProofs ------------------------
(***************************************************************************)
(* Proofs about SinkDispatch, for any threads, sinks, formatters, levels and *)
(* bounds.                                                                  *)
(***************************************************************************)
EXTENDS SinkDispatch, FiniteSetTheorems, SequenceTheorems, TLAPS

\* Who emits an entry or flushes the sinks holds the mutex, and the entry is
\* the last that began.
Holder ==
  \A c \in Callers :
    /\ job[c] # None => sink_mutex_ = c /\ job[c].entry = entries /\ flushing[c] = 0
    /\ flushing[c] # 0 => sink_mutex_ = c

\* The default line of an emission is that of its entry.
DefaultLineFresh ==
  \A c \in Callers : job[c] # None /\ job[c].have_default =>
    default_line_ = <<Text(entries, formatter_)>>

\* No line is made of more than one piece.
OnePiece ==
  \A s \in Sinks : \A i \in 1..Len(handed[s]) :
    /\ Len(handed[s][i]) = 1
    /\ handed[s][i][1].entry \in 1..entries

Has(s, e) == \E i \in 1..Len(handed[s]) : handed[s][i][1].entry = e

\* The sinks an emission has been at, each with what it should have by then;
\* the others have nothing of the entry.
Passed(c) == {sinks_[k] : k \in 1..job[c].at - 1}

Tour ==
  \A c \in Callers : job[c] # None => \A s \in Sinks :
    /\ s \notin Passed(c) => ~Has(s, entries)
    /\ \A i \in 1..Len(handed[s]) :
         handed[s][i][1].entry = entries => handed[s][i] = <<Text(entries, FormatterOf(s))>>
    /\ s \in Passed(c) \cap job[c].sure => (Has(s, entries) <=> accepts(s, job[c].level))

\* The sinks a flush() has been at have been flushed behind their last line.
FlushTour ==
  \A c \in Callers : \A k \in 1..flushing[c] - 1 :
    k <= Len(sinks_) => flushed[sinks_[k]] = Len(handed[sinks_[k]])

DispatchInv ==
  TypeOK /\ Holder /\ DefaultLineFresh /\ OnePiece /\ SameOrderEverywhere /\ Tour /\ FlushTour

-----------------------------------------------------------------------------
LEMMA LeastLevel == Min(Levels) \in Levels
<1>1. PICK low \in Levels : \A level \in Levels : <<level, low>> \notin OpToRel(<, Nat)
  BY SinksAssumption, NatLessThanWellFounded, WFMin
<1>2. low \in Nat /\ \A level \in Levels : level \in Nat /\ ~(level < low)
  BY <1>1, SinksAssumption DEF OpToRel
<1>3. \A level \in Levels : low <= level
  BY <1>2
<1> QED
  BY <1>3 DEF Min

LEMMA InitInv == Init => DispatchInv
<1> SUFFICES ASSUME Init
             PROVE  DispatchInv
  OBVIOUS
<1>1. sinks_ \in Seq(Sinks \ gone) /\ IsInjective(sinks_) /\ gone \subseteq Sinks
  BY DEF Init, IsInjective
<1>2. level_ \in [Sinks -> Levels]
  BY LeastLevel DEF Init
<1>3. handed \in [Sinks -> Seq(Line)] /\ default_line_ \in Line /\ sink_line_ \in Line
  BY DEF Init, Line
<1>4. entries \in 0..MaxEntries /\ flushes \in 0..MaxFlushes /\ changes \in 0..MaxChanges
  BY SinksAssumption DEF Init
<1>5. job \in [Callers -> Job \cup {None}]
  BY DEF Init
<1>6. /\ sink_errors_ \in Nat /\ reports \in Nat /\ flushed \in [Sinks -> Nat]
      /\ formatter_ \in Formatters /\ error_handler_ \in BOOLEAN
      /\ sink_mutex_ \in Callers \cup {None}
  BY DEF Init
<1>8. flushing \in [Callers -> 0..Len(sinks_) + 1]
  <2>1. Len(sinks_) = 0
    BY DEF Init
  <2> QED
    BY <2>1 DEF Init
<1>7. TypeOK
  BY <1>1, <1>2, <1>3, <1>4, <1>5, <1>6, <1>8 DEF TypeOK
<1> QED
  BY <1>7 DEF Init, DispatchInv, Holder, DefaultLineFresh, OnePiece, SameOrderEverywhere, Tour,
               FlushTour

-----------------------------------------------------------------------------
(* Steps that need the mutex and do not keep it: nobody is in a loop.       *)

Idle == \A c \in Callers : job[c] = None /\ flushing[c] = 0

LEMMA FreeIsIdle ==
  ASSUME DispatchInv, sink_mutex_ = None
  PROVE  Idle
BY SinksAssumption DEF DispatchInv, Holder, Idle

\* What they keep of the invariant.
LEMMA IdleStep ==
  ASSUME DispatchInv, Idle, TypeOK', UNCHANGED <<job, entries, handed, flushing>>
  PROVE  DispatchInv'
<1>1. Holder' /\ DefaultLineFresh' /\ OnePiece' /\ SameOrderEverywhere' /\ Tour'
  BY DEF DispatchInv, Idle, Holder, DefaultLineFresh, OnePiece, SameOrderEverywhere, Tour
<1>2. FlushTour'
  BY DEF Idle, FlushTour
<1> QED
  BY <1>1, <1>2 DEF DispatchInv

LEMMA AddSinkStep ==
  ASSUME DispatchInv, NEW s \in Sinks, add_sink(s)
  PROVE  DispatchInv'
<1>1. /\ s \in Sinks \ gone /\ s \notin Attached /\ Idle
      /\ sinks_' = Append(sinks_, s)
      /\ UNCHANGED <<changes, gone, formatter_, error_handler_, level_, sink_mutex_, job, scratch,
                     errors, entries, flusher, handed>>
  BY FreeIsIdle DEF add_sink
<1>2. sinks_ \in Seq(Sinks \ gone) /\ sinks_' \in Seq(Sinks \ gone) /\ IsInjective(sinks_)
  BY <1>1 DEF DispatchInv, TypeOK
<1>3. \A k \in 1..Len(sinks_) : sinks_[k] # s
  BY <1>1, <1>2 DEF Attached, ToSet
<1>4. IsInjective(sinks_')
  BY <1>1, <1>2, <1>3 DEF IsInjective
<1>5. TypeOK'
  BY <1>1, <1>2, <1>4 DEF DispatchInv, TypeOK, Idle, scratch, errors, flusher
<1> QED
  BY <1>1, <1>5, IdleStep DEF flusher

LEMMA ClearSinksStep ==
  ASSUME DispatchInv, clear_sinks
  PROVE  DispatchInv'
<1>1. /\ Idle /\ changes' = changes + 1 /\ changes < MaxChanges
      /\ sinks_' = <<>> /\ gone' = gone \cup Attached
      /\ UNCHANGED <<formatter_, error_handler_, level_, sink_mutex_, job, scratch, errors,
                     entries, flusher, handed>>
  BY FreeIsIdle DEF clear_sinks, Change
<1>2. Attached \subseteq Sinks
  BY DEF DispatchInv, TypeOK, Attached, ToSet
<1>3. TypeOK'
  BY <1>1, <1>2, SinksAssumption
     DEF DispatchInv, TypeOK, Idle, scratch, errors, flusher, IsInjective
<1> QED
  BY <1>1, <1>3, IdleStep DEF flusher

LEMMA SettingStep ==
  ASSUME DispatchInv,
         \/ \E f \in Formatters : set_formatter(f)
         \/ \E on \in BOOLEAN : set_error_handler(on)
  PROVE  DispatchInv'
<1>1. /\ Idle /\ changes' = changes + 1 /\ changes < MaxChanges
      /\ formatter_' \in Formatters /\ error_handler_' \in BOOLEAN
      /\ UNCHANGED <<sinks_, gone, level_, sink_mutex_, job, scratch, errors, entries, flusher,
                     handed>>
  BY FreeIsIdle DEF set_formatter, set_error_handler, Change, DispatchInv, TypeOK
<1>2. TypeOK'
  BY <1>1, SinksAssumption DEF DispatchInv, TypeOK, Idle, scratch, errors, flusher
<1> QED
  BY <1>1, <1>2, IdleStep DEF flusher

-----------------------------------------------------------------------------
(* Steps of a flush(): nobody emits.                                        *)

LEMMA BeginFlushStep ==
  ASSUME DispatchInv, NEW c \in Callers, BeginFlush(c)
  PROVE  DispatchInv'
<1>1. /\ Idle /\ flushes' = flushes + 1 /\ flushes < MaxFlushes
      /\ sink_mutex_' = c /\ flushing' = [flushing EXCEPT ![c] = 1]
      /\ UNCHANGED <<changes, config, level_, job, scratch, errors, entries, flushed, handed>>
  BY FreeIsIdle DEF BeginFlush
<1>2. flushes' \in 0..MaxFlushes
  BY <1>1, SinksAssumption DEF DispatchInv, TypeOK
<1>3. flushing' \in [Callers -> 0..Len(sinks_) + 1] /\ \A d \in Callers : flushing'[d] \in {0, 1}
                                                    /\ (flushing'[d] # 0 => d = c)
  BY <1>1 DEF DispatchInv, TypeOK, Idle
<1>4. TypeOK'
  BY <1>1, <1>2, <1>3 DEF DispatchInv, TypeOK, Idle, scratch, config, errors
<1>5. Holder' /\ DefaultLineFresh' /\ OnePiece' /\ SameOrderEverywhere' /\ Tour'
  BY <1>1, <1>3
     DEF DispatchInv, Idle, Holder, DefaultLineFresh, OnePiece, SameOrderEverywhere, Tour
<1>6. FlushTour'
  BY <1>3 DEF FlushTour
<1> QED
  BY <1>4, <1>5, <1>6 DEF DispatchInv

\* Only one caller is in the loop of flush(), and nobody in that of emit_entry().
LEMMA Flushing ==
  ASSUME DispatchInv, NEW c \in Callers, flushing[c] # 0
  PROVE  /\ sink_mutex_ = c
         /\ \A d \in Callers : job[d] = None
         /\ \A d \in Callers \ {c} : flushing[d] = 0
BY DEF DispatchInv, Holder

LEMMA FlushSinkStep ==
  ASSUME DispatchInv, NEW c \in Callers, FlushSink(c)
  PROVE  DispatchInv'
<1> DEFINE s == sinks_[flushing[c]]
<1>1. /\ flushing[c] \in 1..Len(sinks_) /\ flushed' = [flushed EXCEPT ![s] = Len(handed[s])]
      /\ flushing' = [flushing EXCEPT ![c] = @ + 1]
      /\ UNCHANGED <<changes, config, level_, sink_mutex_, job, scratch, entries, flushes, handed>>
  BY DEF FlushSink
<1>2. /\ sink_mutex_ = c /\ \A d \in Callers : job[d] = None
      /\ \A d \in Callers \ {c} : flushing[d] = 0
  BY <1>1, Flushing
<1>3. /\ s \in Sinks /\ Len(sinks_) \in Nat /\ Len(handed[s]) \in Nat
      /\ flushing \in [Callers -> 0..Len(sinks_) + 1] /\ flushed \in [Sinks -> Nat]
  <2>1. sinks_ \in Seq(Sinks \ gone) /\ handed \in [Sinks -> Seq(Line)]
    BY DEF DispatchInv, TypeOK
  <2>2. s \in Sinks
    BY <1>1, <2>1
  <2> QED
    BY <2>1, <2>2 DEF DispatchInv, TypeOK
<1>4. /\ flushing'[c] = flushing[c] + 1 /\ \A d \in Callers \ {c} : flushing'[d] = 0
      /\ flushed'[s] = Len(handed[s]) /\ \A q \in Sinks \ {s} : flushed'[q] = flushed[q]
  BY <1>1, <1>2, <1>3
<1>5. TypeOK'
  <2>1. flushing' \in [Callers -> 0..Len(sinks_) + 1] /\ flushed' \in [Sinks -> Nat]
    BY <1>1, <1>3
  <2>2. sink_errors_' \in Nat /\ reports' \in Nat
    <3>1. sink_errors_ \in Nat /\ reports \in Nat
      BY DEF DispatchInv, TypeOK
    <3>2. UNCHANGED errors \/ Report
      BY DEF FlushSink
    <3> QED
      BY <3>1, <3>2 DEF Report, errors
  <2> QED
    BY <1>1, <1>2, <2>1, <2>2 DEF DispatchInv, TypeOK, Job, scratch, config
<1>6. Holder' /\ DefaultLineFresh' /\ OnePiece' /\ SameOrderEverywhere' /\ Tour'
  BY <1>1, <1>2, <1>4
     DEF DispatchInv, Holder, DefaultLineFresh, OnePiece, SameOrderEverywhere, Tour
<1>7. FlushTour'
  <2> SUFFICES ASSUME NEW k \in 1..flushing'[c] - 1, k <= Len(sinks_)
               PROVE  flushed'[sinks_[k]] = Len(handed[sinks_[k]])
    BY <1>1, <1>4 DEF FlushTour, config
  <2>1. sinks_[k] \in Sinks
    <3>1. sinks_ \in Seq(Sinks \ gone) /\ k \in 1..Len(sinks_)
      BY <1>3, <1>4 DEF DispatchInv, TypeOK
    <3> QED
      BY <3>1
  <2>2. CASE sinks_[k] = s
    BY <1>4, <2>2
  <2>3. CASE sinks_[k] # s
    <3>1. k # flushing[c] /\ k \in 1..flushing[c] - 1
      BY <1>1, <1>4, <2>3
    <3> QED
      BY <1>4, <2>1, <2>3, <3>1 DEF DispatchInv, FlushTour
  <2> QED
    BY <2>2, <2>3
<1> QED
  BY <1>5, <1>6, <1>7 DEF DispatchInv

LEMMA EndFlushStep ==
  ASSUME DispatchInv, NEW c \in Callers, EndFlush(c)
  PROVE  DispatchInv'
<1>1. /\ flushing[c] > Len(sinks_) /\ flushing' = [flushing EXCEPT ![c] = 0] /\ sink_mutex_' = None
      /\ UNCHANGED <<changes, config, level_, job, scratch, errors, entries, flushes, flushed, handed>>
  BY DEF EndFlush
<1>2. flushing[c] # 0
  BY <1>1 DEF DispatchInv, TypeOK
<1>3. \A d \in Callers : job'[d] = None /\ flushing'[d] = 0
  BY <1>1, <1>2, Flushing DEF DispatchInv, TypeOK
<1>4. TypeOK'
  <2>1. flushing' \in [Callers -> 0..Len(sinks_) + 1]
    BY <1>1 DEF DispatchInv, TypeOK
  <2> QED
    BY <1>1, <2>1 DEF DispatchInv, TypeOK, Job, scratch, errors, config, flusher
<1>5. Holder' /\ DefaultLineFresh' /\ OnePiece' /\ SameOrderEverywhere' /\ Tour'
  BY <1>1, <1>3
     DEF DispatchInv, Holder, DefaultLineFresh, OnePiece, SameOrderEverywhere, Tour
<1>6. FlushTour'
  BY <1>3 DEF FlushTour
<1> QED
  BY <1>4, <1>5, <1>6 DEF DispatchInv

-----------------------------------------------------------------------------
(* Steps of an emission.                                                    *)

LEMMA Emitting ==
  ASSUME DispatchInv, NEW c \in Callers, job[c] # None
  PROVE  /\ job[c] \in Job
         /\ sink_mutex_ = c /\ job[c].entry = entries
         /\ \A d \in Callers \ {c} : job[d] = None
         /\ \A d \in Callers : flushing[d] = 0
BY DEF DispatchInv, TypeOK, Holder

\* Steps of an emission leave the loops of flush() alone.
LEMMA NobodyFlushes ==
  ASSUME \A c \in Callers : flushing[c] = 0, UNCHANGED flusher
  PROVE  /\ FlushTour'
         /\ \A c \in Callers : flushing'[c] = 0
BY DEF FlushTour, flusher

LEMMA SetLevelStep ==
  ASSUME DispatchInv, NEW s \in Sinks, NEW level \in Levels, set_level(s, level)
  PROVE  DispatchInv'
<1>1. /\ level_' = [level_ EXCEPT ![s] = level]
      /\ changes' = changes + 1 /\ changes < MaxChanges
      /\ UNCHANGED <<config, sink_mutex_, scratch, errors, entries, flusher, handed>>
  BY DEF set_level, Change
<1>2. job' = [c \in Callers |-> IF job[c] = None THEN None
                                ELSE [job[c] EXCEPT !.sure = @ \ {s}]]
  BY DEF set_level
<1>3. \A c \in Callers : job[c] # None =>
        job'[c] = [job[c] EXCEPT !.sure = @ \ {s}] /\ job[c] \in Job
  BY <1>2 DEF DispatchInv, TypeOK
<1>4. \A c \in Callers : job'[c] # None =>
        /\ job[c] # None /\ job'[c] \in Job
        /\ job'[c].entry = job[c].entry /\ job'[c].at = job[c].at
        /\ job'[c].level = job[c].level /\ job'[c].have_default = job[c].have_default
        /\ job'[c].sure = job[c].sure \ {s}
  BY <1>2, <1>3 DEF Job
<1>5. TypeOK'
  <2>1. job' \in [Callers -> Job \cup {None}]
    BY <1>2, <1>4
  <2>2. Job' = Job
    BY <1>1 DEF Job, config
  <2>3. changes' \in 0..MaxChanges
    BY <1>1, SinksAssumption DEF DispatchInv, TypeOK
  <2> QED
    BY <1>1, <2>1, <2>2, <2>3 DEF DispatchInv, TypeOK, scratch, errors, config, flusher
<1>6. Holder' /\ DefaultLineFresh' /\ OnePiece' /\ SameOrderEverywhere' /\ FlushTour'
  BY <1>1, <1>4
     DEF DispatchInv, Holder, DefaultLineFresh, OnePiece, SameOrderEverywhere, FlushTour,
         scratch, config, flusher
<1>7. Tour'
  <2> SUFFICES ASSUME NEW c \in Callers, job'[c] # None, NEW q \in Sinks
               PROVE  /\ q \notin Passed(c)' => ~Has(q, entries)'
                      /\ \A i \in 1..Len(handed'[q]) :
                           handed'[q][i][1].entry = entries' =>
                             handed'[q][i] = <<Text(entries', FormatterOf(q)')>>
                      /\ q \in Passed(c)' \cap job'[c].sure =>
                           (Has(q, entries)' <=> accepts(q, job[c].level)')
    BY DEF Tour
  <2>1. Passed(c)' = Passed(c) /\ (Has(q, entries)' <=> Has(q, entries))
        /\ FormatterOf(q)' = FormatterOf(q)
    BY <1>1, <1>4 DEF Passed, Has, FormatterOf, config
  <2>2. q \in job'[c].sure => (accepts(q, job[c].level)' <=> accepts(q, job[c].level))
    BY <1>1, <1>4 DEF accepts, DispatchInv, TypeOK
  <2> QED
    BY <1>1, <1>4, <2>1, <2>2 DEF DispatchInv, Tour
<1> QED
  BY <1>5, <1>6, <1>7 DEF DispatchInv

LEMMA EmitEntryStep ==
  ASSUME DispatchInv, NEW c \in Callers, NEW level \in Levels, EmitEntry(c, level)
  PROVE  DispatchInv'
<1> DEFINE fresh == [entry |-> entries', level |-> level, at |-> 1,
                     have_default |-> FALSE, sure |-> Sinks]
<1>1. /\ Idle /\ entries < MaxEntries /\ entries' = entries + 1
      /\ sink_mutex_' = c /\ job' = [job EXCEPT ![c] = fresh]
      /\ UNCHANGED <<changes, config, level_, scratch, errors, flusher, handed>>
  BY FreeIsIdle DEF EmitEntry
<1>2. entries' \in 1..MaxEntries /\ entries \in Nat
  BY <1>1, SinksAssumption DEF DispatchInv, TypeOK
<1>3. fresh \in Job
  BY <1>1, <1>2 DEF Job, DispatchInv, TypeOK
<1>4. /\ job'[c] = fresh
      /\ \A d \in Callers : job'[d] # None => d = c
      /\ FlushTour' /\ \A d \in Callers : flushing'[d] = 0
  BY <1>1, NobodyFlushes DEF DispatchInv, TypeOK, Idle
<1>5. TypeOK'
  BY <1>1, <1>2, <1>3 DEF DispatchInv, TypeOK, Job, scratch, errors, config, flusher
<1>6. OnePiece' /\ \A s \in Sinks : ~Has(s, entries)'
  BY <1>1, <1>2 DEF DispatchInv, OnePiece, Has
<1>7. Holder' /\ DefaultLineFresh' /\ SameOrderEverywhere'
  BY <1>1, <1>4 DEF DispatchInv, Holder, DefaultLineFresh, SameOrderEverywhere
<1>8. Tour'
  BY <1>4, <1>6 DEF Tour, Passed, Has
<1> QED
  BY <1>4, <1>5, <1>6, <1>7, <1>8 DEF DispatchInv

\* An iteration: the sink it is about has not been passed, and then it has.
LEMMA Iteration ==
  ASSUME DispatchInv, NEW c \in Callers, InLoop(c), UNCHANGED sinks_,
         job'[c].at = job[c].at + 1
  PROVE  /\ Here(c) \in Sinks /\ Here(c) \notin Passed(c)
         /\ Passed(c)' = Passed(c) \cup {Here(c)}
         /\ job[c].at + 1 \in 1..Len(sinks_) + 1
<1>1. job[c] \in Job /\ job[c].at <= Len(sinks_) /\ Len(sinks_) \in Nat
  BY Emitting DEF InLoop, DispatchInv, TypeOK
<1>2. job[c].at \in 1..Len(sinks_)
  BY <1>1 DEF Job
<1>3. Here(c) \in Sinks /\ \A k \in 1..job[c].at - 1 : sinks_[k] # sinks_[job[c].at]
  <2>1. sinks_ \in Seq(Sinks \ gone) /\ IsInjective(sinks_)
    BY DEF DispatchInv, TypeOK
  <2> QED
    BY <1>2, <2>1 DEF Here, IsInjective
<1>4. (1..job'[c].at - 1) = (1..job[c].at - 1) \cup {job[c].at}
  BY <1>2
<1> QED
  BY <1>2, <1>3, <1>4 DEF Passed, Here

LEMMA SkipSinkStep ==
  ASSUME DispatchInv, NEW c \in Callers, SkipSink(c)
  PROVE  DispatchInv'
<1>1. /\ InLoop(c) /\ ~accepts(Here(c), job[c].level)
      /\ job' = [job EXCEPT ![c].at = @ + 1]
      /\ UNCHANGED <<changes, config, level_, sink_mutex_, scratch, errors, entries, flusher, handed>>
  BY DEF SkipSink
<1>2. /\ job[c] \in Job /\ job[c] # None /\ sink_mutex_ = c /\ job[c].entry = entries
      /\ \A d \in Callers \ {c} : job[d] = None /\ job'[d] = None
      /\ FlushTour' /\ \A d \in Callers : flushing'[d] = 0
  BY <1>1, Emitting, NobodyFlushes DEF InLoop, DispatchInv, TypeOK
<1>3. /\ job'[c].entry = job[c].entry /\ job'[c].at = job[c].at + 1
      /\ job'[c].level = job[c].level /\ job'[c].have_default = job[c].have_default
      /\ job'[c].sure = job[c].sure
      /\ job'[c] = [job[c] EXCEPT !.at = @ + 1]
  BY <1>1, <1>2 DEF Job, DispatchInv, TypeOK
<1>4. /\ Here(c) \in Sinks /\ Here(c) \notin Passed(c)
      /\ Passed(c)' = Passed(c) \cup {Here(c)}
      /\ job[c].at + 1 \in 1..Len(sinks_) + 1
  BY <1>1, <1>3, Iteration DEF config
<1>5. TypeOK'
  <2>1. job'[c] \in Job
    BY <1>2, <1>3, <1>4 DEF Job
  <2>2. Job' = Job /\ job' \in [Callers -> Job \cup {None}]
    BY <1>1, <2>1 DEF DispatchInv, TypeOK, Job, config
  <2> QED
    BY <1>1, <2>2 DEF DispatchInv, TypeOK, scratch, errors, config, flusher
<1>6. Holder' /\ DefaultLineFresh' /\ OnePiece' /\ SameOrderEverywhere'
  BY <1>1, <1>2, <1>3
     DEF DispatchInv, Holder, DefaultLineFresh, OnePiece, SameOrderEverywhere, scratch, config
<1>7. Tour'
  <2>1. /\ \A s \in Sinks : (Has(s, entries)' <=> Has(s, entries))
        /\ \A s \in Sinks : FormatterOf(s)' = FormatterOf(s)
        /\ \A s \in Sinks : accepts(s, job[c].level)' <=> accepts(s, job[c].level)
    BY <1>1, <1>3 DEF Has, FormatterOf, accepts, config
  <2> QED
    BY <1>1, <1>2, <1>3, <1>4, <2>1 DEF DispatchInv, Tour
<1> QED
  BY <1>2, <1>5, <1>6, <1>7 DEF DispatchInv

LEMMA EndEmitStep ==
  ASSUME DispatchInv, NEW c \in Callers, EndEmit(c)
  PROVE  DispatchInv'
<1>1. /\ job[c] # None /\ job' = [job EXCEPT ![c] = None] /\ sink_mutex_' = None
      /\ UNCHANGED <<changes, config, level_, scratch, errors, entries, flusher, handed>>
  BY DEF EndEmit
<1>2. FlushTour' /\ \A d \in Callers : job'[d] = None /\ flushing'[d] = 0
  BY <1>1, Emitting, NobodyFlushes DEF DispatchInv, TypeOK
<1>3. TypeOK'
  BY <1>1 DEF DispatchInv, TypeOK, Job, scratch, errors, config, flusher
<1> QED
  BY <1>1, <1>2, <1>3
     DEF DispatchInv, Holder, DefaultLineFresh, OnePiece, SameOrderEverywhere, Tour

\* A line is handed to a sink: what its log() has been called with then.
LEMMA Handing ==
  ASSUME DispatchInv, NEW s \in Sinks, NEW line \in Line,
         handed' = [handed EXCEPT ![s] = Append(@, line)]
  PROVE  /\ handed' \in [Sinks -> Seq(Line)]
         /\ \A q \in Sinks \ {s} : handed'[q] = handed[q]
         /\ Len(handed[s]) \in Nat /\ Len(handed'[s]) = Len(handed[s]) + 1
         /\ \A i \in 1..Len(handed[s]) : handed'[s][i] = handed[s][i]
         /\ handed'[s][Len(handed[s]) + 1] = line
BY DEF DispatchInv, TypeOK

LEMMA WriteSinkStep ==
  ASSUME DispatchInv, NEW c \in Callers, WriteSink(c)
  PROVE  DispatchInv'
<1> DEFINE s == Here(c)
           text == Text(entries, FormatterOf(s))
           n == Len(handed[s])
<1>1. /\ InLoop(c) /\ accepts(s, job[c].level) /\ Prepare(c)
      /\ Deliver(s, IF s \in OwnSinks THEN sink_line_' ELSE default_line_')
      /\ UNCHANGED <<changes, config, level_, sink_mutex_, entries, flusher>>
  BY DEF WriteSink
<1>2. /\ job[c] \in Job /\ job[c] # None /\ sink_mutex_ = c /\ job[c].entry = entries
      /\ \A d \in Callers \ {c} : job[d] = None
      /\ FlushTour' /\ \A d \in Callers : flushing'[d] = 0
  BY <1>1, Emitting, NobodyFlushes DEF InLoop
<1>3. /\ job' = [job EXCEPT ![c] = job'[c]]
      /\ job'[c].at = job[c].at + 1 /\ job'[c].entry = entries
      /\ job'[c].level = job[c].level /\ job'[c].sure = job[c].sure
      /\ job'[c].have_default = (job[c].have_default \/ s \notin OwnSinks)
      /\ job[c].at + 1 \in 1..Len(sinks_) + 1 => job'[c] \in Job
  <2> job \in [Callers -> Job \cup {None}]
    BY DEF DispatchInv, TypeOK
  <2>1. CASE s \in OwnSinks
    <3>1. job' = [job EXCEPT ![c].at = @ + 1]
      BY <1>1, <2>1 DEF Prepare
    <3> QED
      BY <1>2, <2>1, <3>1 DEF Job
  <2>2. CASE s \notin OwnSinks
    <3>1. job' = [job EXCEPT ![c].at = @ + 1, ![c].have_default = TRUE]
      BY <1>1, <2>2 DEF Prepare
    <3> QED
      BY <1>2, <2>2, <3>1 DEF Job
  <2> QED
    BY <2>1, <2>2
<1>4. /\ s \in Sinks /\ s \notin Passed(c)
      /\ Passed(c)' = Passed(c) \cup {s}
      /\ job[c].at + 1 \in 1..Len(sinks_) + 1
  BY <1>1, <1>3, Iteration DEF config
<1>5. entries \in 1..MaxEntries
  BY <1>2 DEF Job
<1>6. text \in [entry : 1..MaxEntries, formatter : Formatters \cup OwnSinks]
      /\ <<text>> \in Line /\ Len(<<text>>) = 1 /\ <<text>>[1] = text
  BY <1>5 DEF Text, FormatterOf, DispatchInv, TypeOK, Line
<1>7. /\ s \in OwnSinks => sink_line_' = <<text>> /\ default_line_' = default_line_
      /\ s \notin OwnSinks => default_line_' = <<text>> /\ sink_line_' = sink_line_
  BY <1>1, <1>2, <1>4 DEF Prepare, FormatterOf, DispatchInv, DefaultLineFresh
<1>8. handed' = [handed EXCEPT ![s] = Append(@, <<text>>)]
  BY <1>1, <1>7 DEF Deliver
<1> HIDE DEF s, text
<1>9. /\ handed' \in [Sinks -> Seq(Line)]
      /\ \A q \in Sinks \ {s} : handed'[q] = handed[q]
      /\ n \in Nat /\ Len(handed'[s]) = n + 1
      /\ \A i \in 1..n : handed'[s][i] = handed[s][i]
      /\ handed'[s][n + 1] = <<text>>
  BY <1>4, <1>6, <1>8, Handing
<1> HIDE DEF n
<1>10. TypeOK'
  <2>1. job' \in [Callers -> Job \cup {None}] /\ Job' = Job
    BY <1>1, <1>3, <1>4 DEF DispatchInv, TypeOK, Job, config
  <2>2. default_line_' \in Line /\ sink_line_' \in Line
    BY <1>6, <1>7 DEF DispatchInv, TypeOK
  <2>3. sink_errors_' \in Nat /\ reports' \in Nat
    BY <1>1 DEF Deliver, Report, errors, DispatchInv, TypeOK
  <2> QED
    BY <1>1, <1>9, <2>1, <2>2, <2>3 DEF DispatchInv, TypeOK, config, flusher
<1>11. Holder' /\ \A d \in Callers \ {c} : job'[d] = None
  BY <1>1, <1>2, <1>3 DEF DispatchInv, TypeOK, Holder
<1>12. DefaultLineFresh'
  <2>1. s \notin OwnSinks => text = Text(entries, formatter_)
    BY DEF text, FormatterOf
  <2> QED
    BY <1>1, <1>2, <1>3, <1>7, <1>11, <2>1 DEF DispatchInv, DefaultLineFresh, config
<1>13. text.entry = entries
  BY DEF text, Text
<1>14. OnePiece'
  <2>1. ASSUME NEW q \in Sinks \ {s}, NEW i \in 1..Len(handed'[q])
        PROVE  Len(handed'[q][i]) = 1 /\ handed'[q][i][1].entry \in 1..entries'
    BY <1>1, <1>9 DEF DispatchInv, OnePiece
  <2>2. ASSUME NEW i \in 1..n + 1
        PROVE  Len(handed'[s][i]) = 1 /\ handed'[s][i][1].entry \in 1..entries'
    <3>1. CASE i = n + 1
      BY <1>1, <1>5, <1>6, <1>9, <1>13, <3>1
    <3>2. CASE i \in 1..n
      BY <1>1, <1>4, <1>9, <3>2 DEF DispatchInv, OnePiece, n
    <3> QED
      BY <1>9, <3>1, <3>2
  <2> QED
    BY <1>9, <2>1, <2>2 DEF OnePiece
<1>15. \A i \in 1..n : handed[s][i][1].entry < entries
  <2>1. ~Has(s, entries)
    BY <1>2, <1>4 DEF DispatchInv, Tour
  <2> QED
    BY <1>4, <1>5, <2>1 DEF Has, n, DispatchInv, OnePiece
<1>16. SameOrderEverywhere'
  <2> SUFFICES ASSUME NEW q \in Sinks, NEW i \in 1..Len(handed'[q]), NEW j \in 1..Len(handed'[q]),
                      i < j, NEW a \in ToSet(handed'[q][i]), NEW b \in ToSet(handed'[q][j])
               PROVE  a.entry < b.entry
    BY DEF SameOrderEverywhere
  <2>1. CASE q # s
    BY <1>9, <2>1 DEF DispatchInv, SameOrderEverywhere
  <2>3. CASE q = s /\ j <= n
    <3>1. /\ i \in 1..Len(handed[s]) /\ j \in 1..Len(handed[s])
          /\ handed'[s][i] = handed[s][i] /\ handed'[s][j] = handed[s][j]
      BY <1>9, <2>3 DEF n
    <3> QED
      BY <1>4, <2>3, <3>1 DEF DispatchInv, SameOrderEverywhere
  <2>2. CASE q = s /\ j = n + 1
    <3>1. i \in 1..n /\ a \in ToSet(handed[s][i]) /\ b \in ToSet(<<text>>)
      BY <1>9, <2>2
    <3>2. a = handed[s][i][1]
      <4>1. handed[s] \in Seq(Line) /\ Len(handed[s][i]) = 1
        BY <1>4, <3>1 DEF n, DispatchInv, OnePiece, TypeOK
      <4>2. handed[s][i] \in Line
        BY <3>1, <4>1 DEF n
      <4> QED
        BY <3>1, <4>1, <4>2 DEF ToSet, Line
    <3>3. b = text
      BY <3>1 DEF ToSet
    <3> QED
      BY <1>13, <1>15, <3>1, <3>2, <3>3
  <2> QED
    BY <1>9, <2>1, <2>2, <2>3
<1>17. Tour'
  <2> SUFFICES ASSUME NEW q \in Sinks
               PROVE  /\ q \notin Passed(c)' => ~Has(q, entries)'
                      /\ \A i \in 1..Len(handed'[q]) :
                           handed'[q][i][1].entry = entries' =>
                             handed'[q][i] = <<Text(entries', FormatterOf(q)')>>
                      /\ q \in Passed(c)' \cap job'[c].sure =>
                           (Has(q, entries)' <=> accepts(q, job[c].level)')
    BY <1>11 DEF Tour
  <2>1. FormatterOf(q)' = FormatterOf(q) /\ level_' = level_ /\ entries' = entries
    BY <1>1 DEF FormatterOf, config
  <2>2. CASE q # s
    <3>1. /\ q \notin Passed(c) => ~Has(q, entries)
          /\ \A i \in 1..Len(handed[q]) :
               handed[q][i][1].entry = entries => handed[q][i] = <<Text(entries, FormatterOf(q))>>
          /\ q \in Passed(c) \cap job[c].sure => (Has(q, entries) <=> accepts(q, job[c].level))
      BY <1>2 DEF DispatchInv, Tour
    <3>2. handed'[q] = handed[q] /\ (q \in Passed(c)' <=> q \in Passed(c))
      BY <1>4, <1>9, <2>2
    <3> QED
      BY <1>3, <2>1, <3>1, <3>2 DEF Has, accepts
  <2>3. CASE q = s
    <3>1. Has(q, entries)'
      BY <1>6, <1>9, <1>13, <2>1, <2>3 DEF Has
    <3>2. accepts(q, job[c].level)'
      BY <1>1, <1>3, <2>1, <2>3 DEF accepts, s
    <3>3. \A i \in 1..Len(handed'[q]) : handed'[q][i][1].entry = entries => i = n + 1
      BY <1>9, <1>15, <1>5, <2>3
    <3> QED
      BY <1>4, <1>9, <2>1, <2>3, <3>1, <3>2, <3>3 DEF text
  <2> QED
    BY <2>2, <2>3
<1> QED
  BY <1>2, <1>10, <1>11, <1>12, <1>14, <1>16, <1>17 DEF DispatchInv

-----------------------------------------------------------------------------
LEMMA InvStep == DispatchInv /\ [Next]_vars => DispatchInv'
<1> SUFFICES ASSUME DispatchInv, [Next]_vars
             PROVE  DispatchInv'
  OBVIOUS
<1>1. CASE UNCHANGED vars
  <2> USE <1>1 DEF vars, config, scratch, errors, flusher, DispatchInv
  <2>1. TypeOK'
    BY DEF TypeOK, Job
  <2>2. Holder' /\ DefaultLineFresh' /\ OnePiece' /\ SameOrderEverywhere'
    BY DEF Holder, DefaultLineFresh, OnePiece, SameOrderEverywhere
  <2>3. Tour' /\ FlushTour'
    BY DEF Tour, Passed, Has, FormatterOf, accepts, FlushTour
  <2> QED
    BY <2>1, <2>2, <2>3
<1>2. ASSUME NEW c \in Callers, SkipSink(c) \/ WriteSink(c) \/ EndEmit(c)
                                \/ BeginFlush(c) \/ FlushSink(c) \/ EndFlush(c)
                                \/ \E level \in Levels : EmitEntry(c, level)
      PROVE  DispatchInv'
  BY <1>2, SkipSinkStep, WriteSinkStep, EndEmitStep, EmitEntryStep,
     BeginFlushStep, FlushSinkStep, EndFlushStep
<1>3. CASE Next
  BY <1>2, <1>3, AddSinkStep, SetLevelStep, ClearSinksStep, SettingStep DEF Next
<1> QED
  BY <1>1, <1>3

LEMMA InvAlways == Spec => []DispatchInv
BY InitInv, InvStep, PTL DEF Spec

(* Types, for every instance: no loop over sinks_ runs off its end,
   whoever attaches and clears sinks between two emissions.                 *)
THEOREM TypeCorrect == Spec => []TypeOK
<1>1. DispatchInv => TypeOK
  BY DEF DispatchInv
<1> QED
  BY <1>1, InvAlways, PTL

(* However many sinks throw, a tour gives each its line once, formatted for
   it, and nothing to the others.                                           *)
THEOREM SinksServed == Spec => []EverySinkItsLine
<1>1. DispatchInv => EverySinkItsLine
  <2> SUFFICES ASSUME DispatchInv, NEW c \in Callers, job[c] # None, job[c].at > Len(sinks_),
                      NEW s \in Sinks
               PROVE  LET e == job[c].entry
                          mine == {i \in 1..Len(handed[s]) : Mentions(handed[s][i], e)}
                      IN  /\ \A i \in mine : handed[s][i] = <<Text(e, FormatterOf(s))>> /\ mine = {i}
                          /\ s \notin Attached => mine = {}
                          /\ s \in Attached \cap job[c].sure =>
                               (mine # {} <=> accepts(s, job[c].level))
    BY DEF EverySinkItsLine
  <2> DEFINE mine == {i \in 1..Len(handed[s]) : Mentions(handed[s][i], entries)}
  <2>1. job[c] \in Job /\ job[c].entry = entries /\ Len(sinks_) \in Nat
    BY Emitting DEF DispatchInv, TypeOK
  <2>2. Passed(c) = Attached
    <3>1. job[c].at - 1 = Len(sinks_)
      BY <2>1 DEF Job
    <3> QED
      <4>1. DOMAIN sinks_ = 1..Len(sinks_)
        BY DEF DispatchInv, TypeOK
      <4> QED
        BY <3>1, <4>1 DEF Passed, Attached, ToSet
  <2>3. \A i \in 1..Len(handed[s]) :
          Mentions(handed[s][i], entries) <=> handed[s][i][1].entry = entries
    BY DEF Mentions, DispatchInv, OnePiece
  <2>4. \A i, j \in mine : i = j
    <3> SUFFICES ASSUME NEW i \in mine, NEW j \in mine, i < j
                 PROVE  FALSE
      <4>1. Len(handed[s]) \in Nat
        BY DEF DispatchInv, TypeOK
      <4> QED
        BY <4>1
    <3>1. handed[s][i][1] \in ToSet(handed[s][i]) /\ handed[s][j][1] \in ToSet(handed[s][j])
      <4>1. ASSUME NEW k \in mine
            PROVE  handed[s][k][1] \in ToSet(handed[s][k])
        <5>1. handed[s] \in Seq(Line) /\ k \in 1..Len(handed[s])
          BY DEF DispatchInv, TypeOK
        <5>2. handed[s][k] \in Line
          BY <5>1
        <5>3. Len(handed[s][k]) = 1
          BY DEF DispatchInv, OnePiece
        <5> QED
          BY <5>2, <5>3 DEF ToSet, Line
      <4> QED
        BY <4>1
    <3>2. handed[s][i][1].entry < handed[s][j][1].entry
      BY <3>1 DEF DispatchInv, SameOrderEverywhere
    <3>3. handed[s][i][1].entry = entries /\ handed[s][j][1].entry = entries
      BY <2>3
    <3> QED
      BY <3>2, <3>3 DEF DispatchInv, TypeOK
  <2>5. \A i \in mine : handed[s][i] = <<Text(entries, FormatterOf(s))>> /\ mine = {i}
    BY <2>3, <2>4 DEF DispatchInv, Tour
  <2>6. Has(s, entries) <=> mine # {}
    BY <2>3 DEF Has
  <2> QED
    BY <2>1, <2>2, <2>5, <2>6 DEF DispatchInv, Tour
<1> QED
  BY <1>1, InvAlways, PTL

(* All sinks see the entries in the order in which their threads took the
   mutex.                                                                   *)
THEOREM OrderCorrect == Spec => []SameOrderEverywhere
<1>1. DispatchInv => SameOrderEverywhere
  BY DEF DispatchInv
<1> QED
  BY <1>1, InvAlways, PTL

(* A flush() reaches every sink, behind all that the sink was handed, however
   many of them throw and whatever other threads emit or configure.         *)
THEOREM FlushedCorrect == Spec => []EverySinkIsFlushed
<1>1. DispatchInv => EverySinkIsFlushed
  <2> SUFFICES ASSUME DispatchInv, NEW c \in Callers, flushing[c] > Len(sinks_), NEW s \in Attached
               PROVE  flushed[s] = Len(handed[s])
    BY DEF EverySinkIsFlushed
  <2>1. flushing[c] - 1 = Len(sinks_) /\ DOMAIN sinks_ = 1..Len(sinks_) /\ Len(sinks_) \in Nat
    BY DEF DispatchInv, TypeOK
  <2>2. PICK k \in 1..Len(sinks_) : sinks_[k] = s
    BY <2>1 DEF Attached, ToSet
  <2> QED
    BY <2>1, <2>2 DEF DispatchInv, FlushTour
<1> QED
  BY <1>1, InvAlways, PTL
=============================================================================
