---------------------------- MODULE AnalyzerProofs ----------------------------
(***************************************************************************)
(* Proofs about Analyzer: what damage to the file can do to the events     *)
(* read, and that every program counter gets its module and its names.     *)
(***************************************************************************)
EXTENDS Analyzer, FiniteSetTheorems, SequenceTheorems, FunctionTheorems,
  WellFoundedInduction, TLAPS

Module == {Modules[i] : i \in 1..Len(Modules)}
Lines == [tag : {"HEADER", "M", "E", "F"}, event : 0..NumEvents, num : Nat]
Fate == {"kept", "garbled", "missing", "unreadable", "altered"}
Rows == [line : Lines, fate : Fate, num : Nat]
Frames == (1..NumEvents) \X (1..MaxFrames) \X {"written", "other"}
Events == [id : 1..NumEvents, says : {"written", "zero", "other"}, bt : Seq(Frames)]
Steps == {"writing", "header", "lines", "frames", "symbols", "done", "invalid"}

TypeOK ==
  /\ written \in Seq(Rows) /\ left \in Nat
  /\ file \in Seq(Nat)
  /\ at \in Steps /\ pos \in Nat \ {0} /\ need \in Nat
  /\ modules \in Seq(Module) /\ events \in Seq(Events)
-----------------------------------------------------------------------------
(* The trace.                                                              *)

IsEvent(l) == l.tag \in {"E", "F"}
\* Line l is written before line m.
Earlier(l, m) ==
  /\ l.event <= m.event
  /\ l.event = m.event => m.tag = "F" /\ (l.tag = "F" => l.num < m.num)
LineOf(i) == written[i].line
Starts(i, k) == LineOf(i).tag = "E" /\ LineOf(i).event = k

\* Only the promise of an E line that is altered differs from what was written.
RowOk(w) ==
  /\ w.fate \in {"unreadable", "altered"} => w.line.tag \in {"E", "F"}
  /\ w.fate \in {"kept", "unreadable"} \/ (w.fate = "altered" /\ w.line.tag = "F")
       => w.num = w.line.num

KindInv == \A i \in 1..Len(written) :
  /\ LineOf(i).tag = "M" => LineOf(i).num \in 1..Len(Modules)
  /\ LineOf(i).tag = "F" => LineOf(i).num \in 1..MaxFrames
  /\ LineOf(i).tag = "E" => LineOf(i).num \in 0..MaxFrames
  /\ IsEvent(LineOf(i)) <=> i > Len(Modules) + 1
  /\ IsEvent(LineOf(i)) <=> LineOf(i).event > 0
  /\ RowOk(written[i])
OrderInv == \A i, j \in 1..Len(written) :
  i < j /\ IsEvent(LineOf(i)) /\ IsEvent(LineOf(j)) => Earlier(LineOf(i), LineOf(j))
StartInv == \A i \in 1..Len(written) : \A k \in 1..LineOf(i).event :
  \E h \in 1..i : Starts(h, k)
\* The frames of an event follow it, and follow nothing else.
BodyInv == \A e \in 1..Len(written) : LineOf(e).tag = "E" =>
  \A i \in 1..LineOf(e).num : e + i <= Len(written) =>
    LineOf(e + i) = Line("F", LineOf(e).event, i)
OwnerInv == \A i \in 1..Len(written) : LineOf(i).tag = "F" =>
  LET e == i - LineOf(i).num
  IN  e \in 1..Len(written) /\ Starts(e, LineOf(i).event) /\ LineOf(i).num <= LineOf(e).num
LeftInv == IF written = <<>> THEN left = 0 ELSE
  /\ ~IsEvent(Last) => left = 0
  /\ Last.tag = "E" => left = Last.num
  /\ Last.tag = "F" => left + Last.num = LineOf(Len(written) - Last.num).num
FileInv ==
  /\ \A p \in 1..Len(file) : file[p] \in 1..Len(written) /\ written[file[p]].fate # "missing"
  /\ \A p, q \in 1..Len(file) : p < q => file[p] < file[q]
  /\ \A i \in 1..Len(written) : written[i].fate # "missing" => \E p \in 1..Len(file) : file[p] = i
TraceInv ==
  KindInv /\ OrderInv /\ StartInv /\ BodyInv /\ OwnerInv /\ LeftInv /\ FileInv
-----------------------------------------------------------------------------
(* The reader.                                                             *)

\* A line of this kind, event and number that says s is behind the reader.
Passed(tag, k, n, s) == \E p \in 1..Len(file) :
  p < pos /\ LineOf(file[p]) = Line(tag, k, n) /\ Says(written[file[p]]) = s

Fit(id, bt) == \A i \in 1..Len(bt) : bt[i][1] >= id /\ MayBeOf(bt[i], id)
Ordered(bt) == \A h, i \in 1..Len(bt) : h < i /\ bt[h][1] = bt[i][1] => bt[h][2] < bt[i][2]
\* An event has no frames but its own, in their order.
FramesFit(j) == Fit(events[j].id, events[j].bt) /\ Ordered(events[j].bt)

StartOk ==
  at \in {"writing", "header"} => pos = 1 /\ modules = <<>> /\ events = <<>>
SourceInv == \A j \in 1..Len(events) :
  /\ \E n \in 0..MaxFrames : Passed("E", events[j].id, n, events[j].says)
  /\ \A i \in 1..Len(events[j].bt) :
       Passed("F", events[j].bt[i][1], events[j].bt[i][2], events[j].bt[i][3])
FitInv ==
  /\ \A i, j \in 1..Len(events) : i < j => events[i].id < events[j].id
  /\ \A j \in 1..Len(events) : FramesFit(j)
\* The reader has come to line x from the E line at place q, which begins event k;
\* m frames are still expected.
Begun(q, x, m, k) ==
  LET e == file[q]  n == written[e].num IN
  /\ q < x /\ x <= Len(file) + 1
  /\ Starts(e, k) /\ Text(q).tag = "E"
  /\ m = n - (x - 1 - q)
  /\ \A p \in (q + 1)..(x - 1) : Text(p).tag = "F"
  /\ file[x - 1] >= e + (n - m)
  /\ Fared(k, "F", "missing") \/ Fared(k, "E", "altered") \/ file[x - 1] = e + (n - m)
\* That is the event being read.
Reading(q) == events # <<>> /\ Begun(q, pos, need, events[Len(events)].id)
ReadingInv == at = "frames" => \E q \in 1..Len(file) : Reading(q)

Excused(k) == \/ Fared(k - 1, "E", "missing") \/ Fared(k - 1, "F", "missing")
              \/ Fared(k - 1, "E", "altered")
LossInv == \A p \in 1..Len(file) :
  p < pos /\ Text(p).tag = "E" => IsRead(Text(p).event) \/ Excused(Text(p).event)

Recorded(j, f) == \E h \in 1..Len(events[j].bt) : events[j].bt[h] = f
\* The frames of an event that the reader has left behind are passed, or one is garbled
\* or the E line altered.
FramesInv == \A j \in 1..Len(events), p \in 1..Len(file) :
  /\ LineOf(file[p]).tag = "F" /\ LineOf(file[p]).event = events[j].id
  => \/ Fared(events[j].id, "F", "garbled") \/ Fared(events[j].id, "E", "altered")
     \/ p < pos /\ (Text(p).fate \in {"kept", "altered"} => Recorded(j, Frame(Text(p))))
     \/ p >= pos /\ at = "frames" /\ j = Len(events)
ModulesInv ==
  /\ \A i \in 1..Len(modules) : modules[i] \in Intact
  /\ \A p \in 1..Len(file) : p < pos /\ Text(p).tag = "M" =>
       \E i \in 1..Len(modules) : modules[i] = Modules[Text(p).num]
ReaderInv ==
  /\ StartOk /\ FitInv /\ SourceInv /\ ReadingInv
  /\ at # "invalid" => LossInv /\ FramesInv /\ ModulesInv
  /\ at \in {"symbols", "done"} => pos > Len(file)
-----------------------------------------------------------------------------
(* The symbolizer.                                                         *)

Sorted(ms) == \A i, j \in 1..Len(ms) : i < j => ms[i].base <= ms[j].base
Answered(r, pc) ==
  /\ DOMAIN r = {"module", "offset", "func", "file"}
  /\ r.module = FindModule(modules, pc) /\ r.offset = Located(modules, pc).offset
  /\ r.func \in {Nothing, <<"func", r.offset>>}
  /\ r.file \in {Nothing, <<"file", r.offset>>}
SymbolsInv == at \in {"symbols", "done"} =>
  /\ Sorted(modules) /\ todo \subseteq Module
  /\ results = [pc \in Pcs |-> results[pc]]
  /\ \A pc \in Pcs : Answered(results[pc], pc)

IInv == TypeOK /\ TraceInv /\ ReaderInv /\ SymbolsInv
-----------------------------------------------------------------------------
(* Sorting and finding a module.                                           *)

LEMMA Least ==
  ASSUME NEW S \in SUBSET Nat, S # {}
  PROVE  \E m \in S : \A n \in S : m <= n
  <1> DEFINE R == OpToRel(<, Nat)
  <1>1. IsWellFoundedOn(R, Nat)
    BY NatLessThanWellFounded
  <1>2. PICK m \in S : \A n \in S : <<n, m>> \notin R
    <2> HIDE DEF R
    <2> QED BY <1>1, WFMin
  <1>3. \A n \in S : ~(n < m)
    BY <1>2 DEF OpToRel
  <1> QED BY <1>3

ModulesOf(ms) == {ms[i] : i \in 1..Len(ms)}
Entries == [base : Nat, size : Nat \ {0}]

LEMMA EntryIs ==
  ASSUME NEW ms \in Seq(Entries)
  PROVE  Len(ms) \in Nat /\ \A i \in 1..Len(ms) : ms[i].base \in Nat /\ ms[i].size \in Nat \ {0}
  <1>1. Len(ms) \in Nat /\ \A i \in 1..Len(ms) : ms[i] \in Entries
    OBVIOUS
  <1> QED BY <1>1 DEF Entries

LEMMA UptoIs ==
  ASSUME NEW ms \in Seq(Entries), NEW i \in 1..Len(ms)
  PROVE  /\ IsFiniteSet(Upto(ms, i)) /\ i \in Upto(ms, i)
         /\ Cardinality(Upto(ms, i)) \in 1..Len(ms)
  <1>1. Len(ms) \in Nat /\ IsFiniteSet(1..Len(ms)) /\ Cardinality(1..Len(ms)) = Len(ms)
    BY FS_Interval
  <1>2. Upto(ms, i) \in SUBSET (1..Len(ms)) /\ i \in Upto(ms, i)
    BY EntryIs DEF Upto
  <1>3. IsFiniteSet(Upto(ms, i)) /\ Cardinality(Upto(ms, i)) <= Len(ms)
    BY <1>1, <1>2, FS_Subset
  <1>4. Cardinality(Upto(ms, i)) \in Nat /\ Cardinality(Upto(ms, i)) # 0
    BY <1>2, <1>3, FS_CardinalityType, FS_EmptySet
  <1> QED BY <1>1, <1>2, <1>3, <1>4

LEMMA UptoLess ==
  ASSUME NEW ms \in Seq(Entries), NEW i \in 1..Len(ms), NEW j \in 1..Len(ms),
         ms[i].base < ms[j].base \/ (ms[i].base = ms[j].base /\ i < j)
  PROVE  Cardinality(Upto(ms, i)) < Cardinality(Upto(ms, j))
  <1>1. /\ ms[i].base \in Nat /\ ms[j].base \in Nat
        /\ \A h \in 1..Len(ms) : ms[h].base \in Nat
    BY EntryIs
  <1>2. Upto(ms, i) \in SUBSET Upto(ms, j)
    BY <1>1 DEF Upto
  <1>3. j \in Upto(ms, j) /\ j \notin Upto(ms, i)
    BY <1>1 DEF Upto
  <1> QED BY <1>2, <1>3, UptoIs, FS_Subset

LEMMA RankOnto ==
  ASSUME NEW ms \in Seq(Entries), NEW n \in 1..Len(ms)
  PROVE  \E i \in 1..Len(ms) : Cardinality(Upto(ms, i)) = n
  <1> DEFINE D == 1..Len(ms)
             f == [i \in D |-> Cardinality(Upto(ms, i))]
  <1>1. f \in [D -> D]
    BY UptoIs
  <1>2. \A i, j \in D : i # j => f[i] # f[j]
    <2> TAKE i, j \in D
    <2> HAVE i # j
    <2>1. \/ ms[i].base < ms[j].base \/ (ms[i].base = ms[j].base /\ i < j)
          \/ ms[j].base < ms[i].base \/ (ms[j].base = ms[i].base /\ j < i)
      BY EntryIs
    <2>2. f[i] \in Nat /\ f[j] \in Nat
      BY <1>1
    <2> QED BY <2>1, <2>2, UptoLess
  <1>3. f \in Injection(D, D)
    BY <1>1, <1>2 DEF Injection, IsInjective
  <1>4. IsFiniteSet(D)
    BY FS_Interval
  <1>5. f \in Surjection(D, D)
    BY <1>3, <1>4, FS_Injection
  <1> QED BY <1>5 DEF Surjection

LEMMA ByBaseSorts ==
  ASSUME NEW ms \in Seq(Entries)
  PROVE  /\ ByBase(ms) \in Seq(Entries) /\ Len(ByBase(ms)) = Len(ms)
         /\ Sorted(ByBase(ms)) /\ ModulesOf(ByBase(ms)) = ModulesOf(ms)
  <1> DEFINE D == 1..Len(ms)
             R(i) == Cardinality(Upto(ms, i))
             P(n) == CHOOSE i \in D : R(i) = n
             s == [n \in D |-> ms[P(n)]]
  <1>1. \A n \in D : P(n) \in D /\ R(P(n)) = n
    BY RankOnto
  <1>2. \A i \in D : R(i) \in D
    BY UptoIs
  <1>3. \A i \in D : P(R(i)) = i
    <2> SUFFICES ASSUME NEW i \in D PROVE P(R(i)) = i
      OBVIOUS
    <2> DEFINE j == P(R(i))
    <2>1. j \in D /\ R(j) = R(i)
      BY <1>1, <1>2
    <2> HIDE DEF j
    <2>2. R(j) \in Nat
      BY <1>2, <2>1
    <2>3. ~(ms[i].base < ms[j].base \/ (ms[i].base = ms[j].base /\ i < j))
      BY <2>1, <2>2, UptoLess
    <2>4. ~(ms[j].base < ms[i].base \/ (ms[j].base = ms[i].base /\ j < i))
      BY <2>1, <2>2, UptoLess
    <2>5. ms[i].base \in Nat /\ ms[j].base \in Nat
      BY <2>1, EntryIs
    <2> QED BY <2>1, <2>3, <2>4, <2>5 DEF j
  <1>4. ByBase(ms) = s
    BY DEF ByBase
  <1> HIDE DEF P, R
  <1>5. s \in Seq(Entries) /\ Len(s) = Len(ms)
    <2>1. Len(ms) \in Nat /\ \A n \in D : ms[P(n)] \in Entries
      BY <1>1
    <2>2. s \in Seq(Entries)
      BY <2>1, IsASeq
    <2> QED BY <2>1, <2>2
  <1>6. Sorted(s)
    <2> SUFFICES ASSUME NEW m \in D, NEW n \in D, m < n, ~(s[m].base <= s[n].base)
                 PROVE FALSE
      BY <1>5 DEF Sorted
    <2>1. P(m) \in D /\ P(n) \in D /\ R(P(m)) = m /\ R(P(n)) = n
      BY <1>1
    <2>2. s[m] = ms[P(m)] /\ s[n] = ms[P(n)] /\ s[m].base \in Nat /\ s[n].base \in Nat
      BY <2>1, EntryIs
    <2>3. R(P(n)) < R(P(m))
      BY <2>1, <2>2, UptoLess DEF R
    <2> QED BY <2>1, <2>3
  <1>7. ModulesOf(s) = ModulesOf(ms)
    <2>1. \A n \in D : s[n] \in ModulesOf(ms)
      BY <1>1 DEF ModulesOf
    <2>2. \A i \in D : ms[i] = s[R(i)]
      BY <1>2, <1>3
    <2>3. ModulesOf(s) \subseteq ModulesOf(ms)
      BY <1>5, <2>1 DEF ModulesOf
    <2>4. \A i \in D : ms[i] \in ModulesOf(s)
      BY <1>2, <1>5, <2>2 DEF ModulesOf
    <2>5. ModulesOf(ms) \subseteq ModulesOf(s)
      BY ONLY <2>4 DEF ModulesOf
    <2> QED BY <2>3, <2>5
  <1> QED BY <1>4, <1>5, <1>6, <1>7

\* bisect_right finds how many modules begin at or before the address.
LEMMA IndexIs ==
  ASSUME NEW ms \in Seq(Entries), Sorted(ms), NEW pc \in Nat
  PROVE  /\ IndexOf(ms, pc) \in 0..Len(ms)
         /\ \A i \in 1..Len(ms) : i <= IndexOf(ms, pc) <=> ms[i].base <= pc
  <1> DEFINE L == Len(ms)
             T == {i \in 1..(L + 1) : i = L + 1 \/ ~(ms[i].base <= pc)}
  <1>0. L \in Nat /\ \A i \in 1..L : ms[i].base \in Nat
    BY EntryIs
  <1>1. T \in SUBSET Nat /\ L + 1 \in T
    BY <1>0
  <1>2. PICK t \in T : \A n \in T : t <= n
    <2> HIDE DEF T
    <2> QED BY <1>1, Least
  <1>3. t \in 1..(L + 1) /\ (t <= L => ~(ms[t].base <= pc))
    BY <1>0, <1>2
  <1>4. \A i \in 1..L : i < t => ms[i].base <= pc
    BY <1>0, <1>2, <1>3
  <1>5. \A i \in 1..L : i >= t => ~(ms[i].base <= pc)
    BY <1>0, <1>3 DEF Sorted
  <1>6. {i \in 1..L : ms[i].base <= pc} = 1..(t - 1)
    BY <1>0, <1>3, <1>4, <1>5
  <1>7. t - 1 \in Nat /\ Cardinality(1..(t - 1)) = t - 1
    <2> HIDE DEF T, L
    <2> PICK u \in Nat : u = t - 1
      BY <1>0, <1>3
    <2>1. Cardinality(1..u) = u
      BY FS_Interval
    <2> QED BY <2>1
  <1>8. IndexOf(ms, pc) = t - 1
    BY <1>6, <1>7 DEF IndexOf
  <1> QED BY <1>0, <1>3, <1>4, <1>5, <1>7, <1>8

LEMMA Disjoint ==
  ASSUME NEW m \in Module, NEW n \in Module, m # n
  PROVE  m.base + m.size <= n.base \/ n.base + n.size <= m.base
  <1>1. PICK i \in 1..Len(Modules) : m = Modules[i]
    BY DEF Module
  <1>2. PICK j \in 1..Len(Modules) : n = Modules[j]
    BY DEF Module
  <1>3. \/ Modules[i] = Modules[j]
        \/ Modules[i].base + Modules[i].size <= Modules[j].base
        \/ Modules[j].base + Modules[j].size <= Modules[i].base
    BY ModulesAssumption
  <1> QED BY <1>1, <1>2, <1>3

LEMMA ModuleIs ==
  /\ Modules \in Seq(Entries) /\ Len(Modules) \in Nat
  /\ \A m \in Module : m \in Entries /\ m.base \in Nat /\ m.size \in Nat \ {0} /\ m # Nothing
  <1>1. Modules \in Seq(Entries)
    BY ModulesAssumption DEF Entries
  <1>2. Len(Modules) \in Nat /\ \A i \in 1..Len(Modules) : Modules[i] \in Entries
    BY <1>1
  <1>3. \A m \in Entries : m.base \in Nat /\ m.size \in Nat \ {0}
    BY DEF Entries
  <1>4. \A m \in Module : m \in Entries /\ m # Nothing
    BY <1>2, ModulesAssumption DEF Module
  <1> QED BY <1>1, <1>2, <1>3, <1>4

Contains(m, pc) == m.base <= pc /\ pc < m.base + m.size

\* The last module that begins at or before the address is the only one it can be in.
LEMMA FindModuleRight ==
  ASSUME NEW ms \in Seq(Module), Sorted(ms), NEW pc \in Nat
  PROVE  \/ FindModule(ms, pc) = Nothing /\ \A m \in ModulesOf(ms) : ~Contains(m, pc)
         \/ /\ FindModule(ms, pc) \in ModulesOf(ms) /\ Contains(FindModule(ms, pc), pc)
            /\ FindModule(ms, pc) # Nothing
  <1>0. /\ Len(ms) \in Nat /\ \A i \in 1..Len(ms) : ms[i] \in Module
        /\ ms \in Seq(Entries)
    BY ModuleIs, SeqMonotonic
  <1> DEFINE i == IndexOf(ms, pc)
  <1>1. /\ i \in 0..Len(ms)
        /\ \A j \in 1..Len(ms) : j <= i <=> ms[j].base <= pc
    BY <1>0, IndexIs
  <1>2. \A j \in 1..Len(ms) : ms[j].base \in Nat /\ ms[j].size \in Nat \ {0} /\ ms[j] # Nothing
    BY <1>0, ModuleIs
  <1>3. FindModule(ms, pc) = IF i = 0 \/ (i > 0 /\ pc >= ms[i].base + ms[i].size) THEN Nothing ELSE ms[i]
    BY DEF FindModule
  <1> HIDE DEF i
  <1>4. CASE i = 0
    <2>1. \A j \in 1..Len(ms) : ~(ms[j].base <= pc)
      BY <1>0, <1>1, <1>4
    <2> QED BY <1>3, <1>4, <2>1 DEF ModulesOf, Contains
  <1>5. CASE i # 0
    <2>1. i \in 1..Len(ms) /\ i > 0 /\ ms[i].base <= pc
      BY <1>0, <1>1, <1>5
    <2>2. CASE pc >= ms[i].base + ms[i].size
      <3>1. \A j \in 1..Len(ms) : ~Contains(ms[j], pc)
        <4> SUFFICES ASSUME NEW j \in 1..Len(ms), Contains(ms[j], pc) PROVE FALSE
          OBVIOUS
        <4>1. /\ ms[j].base \in Nat /\ ms[j].size \in Nat /\ ms[i].base \in Nat
              /\ ms[i].size \in Nat \ {0}
          BY <1>2, <2>1
        <4>2. ms[j].base <= pc /\ pc < ms[j].base + ms[j].size
          BY DEF Contains
        <4>3. j <= i
          BY <1>1, <4>2
        <4>4. ms[j].base <= ms[i].base
          BY <2>1, <4>1, <4>3 DEF Sorted
        <4>5. ms[j] # ms[i]
          BY <2>2, <4>1, <4>2
        <4>6. ms[j].base + ms[j].size <= ms[i].base \/ ms[i].base + ms[i].size <= ms[j].base
          BY <1>0, <2>1, <4>5, Disjoint
        <4> QED BY <2>1, <4>1, <4>2, <4>4, <4>6
      <3> QED BY <1>3, <2>1, <2>2, <3>1 DEF ModulesOf
    <2>3. CASE ~(pc >= ms[i].base + ms[i].size)
      <3>1. FindModule(ms, pc) = ms[i]
        BY <1>3, <1>5, <2>3
      <3>2. Contains(ms[i], pc)
        BY <1>2, <2>1, <2>3 DEF Contains
      <3> QED BY <1>2, <2>1, <3>1, <3>2 DEF ModulesOf
    <2> QED BY <2>2, <2>3
  <1> QED BY <1>4, <1>5

\* The answer about the i-th address, if it has arrived, is in the i-th pair of lines.
LEMMA OutputIs ==
  ASSUME NEW S, NEW offsets \in Seq(S), NEW n \in Nat, NEW i \in 1..Len(offsets)
  PROVE  /\ LineOr(Output(offsets, n), FileLine(i) - 1) \in {Nothing, <<"func", offsets[i]>>}
         /\ LineOr(Output(offsets, n), FileLine(i)) \in {Nothing, <<"file", offsets[i]>>}
  <1>1. Len(offsets) \in Nat /\ i \in Nat /\ i >= 1
    OBVIOUS
  <1>2. /\ 2 * i - 1 \in Nat /\ 2 * i - 1 >= 1 /\ (2 * i - 1) % 2 = 1
        /\ (2 * i - 1 + 1) \div 2 = i
    BY <1>1
  <1>3. 2 * i \in Nat /\ 2 * i >= 1 /\ (2 * i) % 2 # 1 /\ (2 * i + 1) \div 2 = i
    BY <1>1
  <1>4. Len(Output(offsets, n)) = n
    BY DEF Output
  <1>5. 2 * i - 1 <= n => Output(offsets, n)[2 * i - 1] = <<"func", offsets[i]>>
    BY <1>2 DEF Output
  <1>6. 2 * i <= n => Output(offsets, n)[2 * i] = <<"file", offsets[i]>>
    BY <1>3 DEF Output
  <1> QED BY <1>4, <1>5, <1>6 DEF LineOr, FileLine
-----------------------------------------------------------------------------
(* The trace as it is written.                                             *)

LEMMA SpoiledIs ==
  ASSUME NEW l \in Lines, NEW row \in Spoiled(l)
  PROVE  row \in Rows /\ row.line = l /\ row.fate \notin {"missing", "kept"} /\ RowOk(row)
  <1>1. l.num \in Nat
    BY DEF Lines
  <1>2. PICK fate, n : /\ row = Row(l, fate, n) /\ fate \in {"garbled", "unreadable", "altered"}
                       /\ n \in Nat
                       /\ fate \in {"unreadable", "altered"} => l.tag \in {"E", "F"}
                       /\ fate = "unreadable" \/ (fate = "altered" /\ l.tag = "F") => n = l.num
    <2>1. CASE row = Row(l, "garbled", 0)
      BY <2>1
    <2>2. CASE \E fate \in IF l.tag \in {"E", "F"} THEN {"unreadable", "altered"} ELSE {} :
                 row = Row(l, fate, l.num)
      BY <1>1, <2>2
    <2>3. CASE \E n \in IF l.tag = "E" THEN 0..(MaxFrames + 1) ELSE {} : row = Row(l, "altered", n)
      BY <2>3
    <2> QED BY <2>1, <2>2, <2>3 DEF Spoiled
  <1>3. row = [line |-> l, fate |-> fate, num |-> n]
    BY <1>2 DEF Row
  <1>4. row \in Rows /\ row.line = l /\ row.fate = fate /\ row.num = n
    BY <1>2, <1>3 DEF Rows, Fate
  <1> QED BY <1>2, <1>4 DEF RowOk

LEMMA ArrivalsAre ==
  ASSUME NEW l \in Lines, NEW row \in Arrivals(l)
  PROVE  row \in Rows /\ row.line = l /\ RowOk(row)
  <1>1. l.num \in Nat
    BY DEF Lines
  <1>2. row = Row(l, "kept", l.num) \/ row = Row(l, "missing", 0) \/ row \in Spoiled(l)
    BY DEF Arrivals
  <1>3. CASE row = Row(l, "kept", l.num) \/ row = Row(l, "missing", 0)
    BY <1>1, <1>3 DEF Row, Rows, Fate, RowOk
  <1> QED BY <1>2, <1>3, SpoiledIs

\* What Write does to the lines.
Wrote(l, row) ==
  /\ row.line = l /\ RowOk(row)
  /\ written' \in Seq(Rows) /\ Len(written') = Len(written) + 1
  /\ \A i \in 1..Len(written) : written'[i] = written[i]
  /\ written'[Len(written) + 1] = row
  /\ file' = IF row.fate = "missing" THEN file ELSE Append(file, Len(written) + 1)

LEMMA WriteIs ==
  ASSUME TypeOK, NEW l \in Lines, Write(l)
  PROVE  /\ at = "writing" /\ UNCHANGED <<at, pos, need, modules, events, results, todo>>
         /\ \E row \in Rows : Wrote(l, row)
  <1>1. PICK row \in Arrivals(l) :
          /\ written' = Append(written, row)
          /\ file' = IF row.fate = "missing" THEN file ELSE Append(file, Len(written) + 1)
    BY DEF Write
  <1>2. row \in Rows /\ row.line = l /\ RowOk(row)
    BY ArrivalsAre
  <1>3. written \in Seq(Rows)
    BY DEF TypeOK
  <1>4. /\ written' \in Seq(Rows) /\ Len(written') = Len(written) + 1
        /\ \A i \in 1..Len(written) : written'[i] = written[i]
        /\ written'[Len(written) + 1] = row
    BY <1>1, <1>2, <1>3
  <1>5. Wrote(l, row)
    BY <1>1, <1>2, <1>4 DEF Wrote
  <1> QED BY <1>2, <1>5 DEF Write

\* Line l may be written next.
NextOk(l) ==
  /\ l.tag = "M" => l.num \in 1..Len(Modules)
  /\ l.tag = "F" => l.num \in 1..MaxFrames
  /\ l.tag = "E" => l.num \in 0..MaxFrames
  /\ IsEvent(l) <=> Len(written) + 1 > Len(Modules) + 1
  /\ IsEvent(l) <=> l.event > 0
  /\ \A i \in 1..Len(written) : IsEvent(LineOf(i)) /\ IsEvent(l) => Earlier(LineOf(i), l)
  /\ \A k \in 1..l.event : (\E h \in 1..Len(written) : Starts(h, k)) \/ (l.tag = "E" /\ l.event = k)
  /\ \A e \in 1..Len(written) : LineOf(e).tag = "E" =>
       \A i \in 1..LineOf(e).num : e + i = Len(written) + 1 => l = Line("F", LineOf(e).event, i)
  /\ l.tag = "F" =>
       LET e == Len(written) + 1 - l.num
       IN  e \in 1..Len(written) /\ Starts(e, l.event) /\ l.num <= LineOf(e).num

LEMMA LineIs ==
  ASSUME TypeOK
  PROVE  /\ Len(written) \in Nat
         /\ \A i \in 1..Len(written) :
              /\ LineOf(i) \in Lines /\ LineOf(i).event \in Nat /\ LineOf(i).num \in Nat
              /\ LineOf(i).tag \in {"HEADER", "M", "E", "F"} /\ written[i].fate \in Fate
              /\ LineOf(i).event \in 0..NumEvents
              /\ written[i].num \in Nat
  <1>0. written \in Seq(Rows)
    BY DEF TypeOK
  <1>1. Len(written) \in Nat /\ \A i \in 1..Len(written) : written[i] \in Rows
    BY ONLY <1>0
  <1>2. \A i \in 1..Len(written) : /\ LineOf(i) \in Lines /\ written[i].fate \in Fate
                                     /\ written[i].num \in Nat
    BY <1>1 DEF LineOf, Rows
  <1>3. \A l \in Lines : l.event \in 0..NumEvents /\ l.num \in Nat /\ l.tag \in {"HEADER", "M", "E", "F"}
    BY DEF Lines
  <1> QED BY <1>1, <1>2, <1>3 DEF LineOf

LEMMA TraceGrows ==
  ASSUME TypeOK, TraceInv, NEW l \in Lines, NextOk(l), NEW row \in Rows, Wrote(l, row),
         left' = IF l.tag = "E" THEN l.num
                 ELSE IF l.tag = "F" THEN LineOf(Len(written) + 1 - l.num).num - l.num ELSE 0
  PROVE  TraceInv'
  <1> PICK n \in Nat : n = Len(written)
    BY LineIs
  <1>0. n \in Nat /\ \A i \in 1..n : LineOf(i).num \in Nat /\ LineOf(i).event \in Nat
    BY LineIs
  <1>a. /\ Len(written') = n + 1 /\ written'[n + 1] = row /\ row.line = l /\ RowOk(row)
        /\ \A i \in 1..n : written'[i] = written[i]
    BY DEF Wrote
  <1>b. \A i : LineOf(i) = written[i].line /\ LineOf(i)' = written'[i].line
    BY DEF LineOf
  <1>1. /\ Len(written') = n + 1 /\ LineOf(n + 1)' = l /\ written'[n + 1] = row
        /\ \A i \in 1..n : LineOf(i)' = LineOf(i) /\ written'[i] = written[i]
    BY <1>a, <1>b
  <1>2. \A i \in 1..(n + 1) : i \in 1..n \/ i = n + 1
    BY <1>0
  <1>3. l.event \in Nat /\ l.num \in Nat /\ l.tag \in {"HEADER", "M", "E", "F"}
    BY DEF Lines
  <1>4. KindInv'
    BY <1>a, <1>1, <1>2 DEF KindInv, NextOk, TraceInv, IsEvent
  <1>5. OrderInv'
    <2> SUFFICES ASSUME NEW i \in 1..(n + 1), NEW j \in 1..(n + 1), i < j,
                        IsEvent(LineOf(i)'), IsEvent(LineOf(j)')
                 PROVE  Earlier(LineOf(i)', LineOf(j)')
      BY <1>1 DEF OrderInv, IsEvent, Earlier
    <2>1. i \in 1..n
      BY <1>0
    <2>2. CASE j \in 1..n
      BY <1>1, <2>1, <2>2 DEF OrderInv, TraceInv
    <2>3. CASE j = n + 1
      BY <1>1, <2>1, <2>3 DEF NextOk
    <2> QED BY <1>2, <2>2, <2>3
  <1>6. StartInv'
    <2> SUFFICES ASSUME NEW i \in 1..(n + 1), NEW k \in 1..(LineOf(i)'.event)
                 PROVE  \E h \in 1..i : LineOf(h)'.tag = "E" /\ LineOf(h)'.event = k
      BY <1>1 DEF StartInv, Starts
    <2>1. CASE i \in 1..n
      <3>1. k \in 1..(LineOf(i).event)
        BY <1>1, <2>1
      <3>2. PICK h \in 1..i : Starts(h, k)
        BY <2>1, <3>1 DEF StartInv, TraceInv
      <3>3. h \in 1..n
        BY <1>0, <2>1
      <3> QED BY <1>1, <3>2, <3>3 DEF Starts
    <2>2. CASE i = n + 1
      <3>1. (\E h \in 1..n : Starts(h, k)) \/ (l.tag = "E" /\ l.event = k)
        BY <1>1, <2>2 DEF NextOk
      <3>2. ASSUME NEW h \in 1..n, Starts(h, k) PROVE h \in 1..i /\ LineOf(h)'.tag = "E" /\ LineOf(h)'.event = k
        BY <1>0, <1>1, <2>2, <3>2 DEF Starts
      <3>3. i \in 1..i
        BY <1>0, <2>2
      <3> QED BY <1>1, <2>2, <3>1, <3>2, <3>3
    <2> QED BY <1>2, <2>1, <2>2
  <1>7. BodyInv'
    <2> SUFFICES ASSUME NEW e \in 1..(n + 1), LineOf(e)'.tag = "E", NEW i \in 1..(LineOf(e)'.num),
                        e + i <= n + 1
                 PROVE  LineOf(e + i)' = Line("F", LineOf(e)'.event, i)
      BY <1>1 DEF BodyInv
    <2>0. LineOf(e)'.num \in Nat
      BY <1>0, <1>1, <1>2, <1>3
    <2>1. e \in 1..n /\ i \in Nat /\ i >= 1
      BY <1>0, <2>0
    <2>2. LineOf(e)' = LineOf(e)
      BY <1>1, <2>1
    <2>3. CASE e + i <= n
      <3>1. e + i \in 1..n
        BY <1>0, <2>1, <2>3
      <3> QED BY <1>1, <2>1, <2>2, <2>3, <3>1 DEF BodyInv, TraceInv
    <2>4. CASE e + i = n + 1
      <3>1. l = Line("F", LineOf(e).event, i)
        BY <2>1, <2>2, <2>4 DEF NextOk
      <3>2. LineOf(e + i)' = l
        BY <1>1, <2>4 DEF LineOf
      <3> QED BY <2>2, <3>1, <3>2
    <2>5. e + i <= n \/ e + i = n + 1
      BY <2>1
    <2> QED BY <2>3, <2>4, <2>5
  <1>8. OwnerInv'
    <2> SUFFICES ASSUME NEW i \in 1..(n + 1), LineOf(i)'.tag = "F", NEW e \in Int, e = i - LineOf(i)'.num
                 PROVE  /\ e \in 1..(n + 1) /\ LineOf(e)'.tag = "E" /\ LineOf(e)'.event = LineOf(i)'.event
                        /\ LineOf(i)'.num <= LineOf(e)'.num
      <3>1. \A i \in 1..(n + 1) : i - LineOf(i)'.num \in Int
        BY <1>0, <1>1, <1>2, <1>3
      <3> QED BY <1>1, <3>1 DEF OwnerInv, Starts
    <2>1. CASE i \in 1..n
      <3>1. /\ e \in 1..n /\ Starts(e, LineOf(i).event) /\ LineOf(i).num <= LineOf(e).num
        BY <1>1, <2>1 DEF OwnerInv, TraceInv
      <3>2. e \in 1..(n + 1)
        BY <1>0, <3>1
      <3> QED BY <1>1, <2>1, <3>1, <3>2 DEF Starts
    <2>2. CASE i = n + 1
      <3>1. e \in 1..n /\ Starts(e, l.event) /\ l.num <= LineOf(e).num
        BY <1>1, <2>2 DEF NextOk
      <3>2. e \in 1..(n + 1)
        BY <1>0, <3>1
      <3> QED BY <1>1, <2>2, <3>1, <3>2 DEF Starts
    <2> QED BY <1>2, <2>1, <2>2
  <1>9. LeftInv'
    <2>1. Last' = l /\ written' # <<>>
      <3>1. written' # <<>>
        BY <1>0, <1>1
      <3> QED BY <1>1, <3>1 DEF Last, LineOf
    <2>2. CASE l.tag = "F"
      <3>1. n + 1 - l.num \in 1..n
        BY <2>2 DEF NextOk
      <3>a. PICK e \in 1..n : e = n + 1 - l.num
        BY <3>1
      <3>2. LineOf(Len(written) - Last.num)' = LineOf(n + 1 - l.num)
        <4>1. Len(written') - Last'.num = e
          <5>1. Len(written') = n + 1 /\ Last'.num = l.num /\ l.num \in Nat
            BY <1>1, <1>3, <2>1
          <5> QED BY <5>1, <3>a
        <4>2. LineOf(e)' = LineOf(e)
          BY <1>1
        <4> QED BY <3>a, <4>1, <4>2 DEF LineOf
      <3>3. left' + l.num = LineOf(n + 1 - l.num).num
        BY <1>0, <1>3, <2>2, <3>1
      <3> QED BY <2>1, <2>2, <3>2, <3>3 DEF LeftInv, IsEvent
    <2>3. CASE l.tag # "F"
      BY <2>1, <2>3 DEF LeftInv, IsEvent
    <2> QED BY <2>2, <2>3
  <1>10. FileInv'
    <2>1. /\ \A p \in 1..Len(file) : file[p] \in 1..n /\ written[file[p]].fate # "missing"
          /\ \A p, q \in 1..Len(file) : p < q => file[p] < file[q]
          /\ \A i \in 1..n : written[i].fate # "missing" => \E p \in 1..Len(file) : file[p] = i
      BY DEF FileInv, TraceInv
    <2>2. Len(file) \in Nat /\ file \in Seq(Nat)
      BY DEF TypeOK
    <2>3. CASE row.fate = "missing"
      <3>1. file' = file
        BY <2>3 DEF Wrote
      <3>2. \A i \in 1..n : i \in 1..(n + 1)
        BY <1>0
      <3>3. \A p \in 1..Len(file) : file[p] \in 1..(n + 1) /\ written'[file[p]].fate # "missing"
        BY <1>1, <2>1, <3>2
      <3>4. \A i \in 1..(n + 1) : written'[i].fate # "missing" => \E p \in 1..Len(file) : file[p] = i
        BY <1>1, <1>2, <2>1, <2>3
      <3> QED BY <1>1, <2>1, <3>1, <3>3, <3>4 DEF FileInv
    <2>4. CASE row.fate # "missing"
      <3>1. file' = Append(file, n + 1)
        BY <2>4 DEF Wrote
      <3>2. /\ Len(file') = Len(file) + 1 /\ file'[Len(file) + 1] = n + 1
            /\ \A p \in 1..Len(file) : file'[p] = file[p]
        BY <1>0, <2>2, <3>1
      <3>3. \A p \in 1..Len(file') : p \in 1..Len(file) \/ p = Len(file) + 1
        BY <2>2, <3>2
      <3>4. \A i \in 1..n : i \in 1..(n + 1) /\ i < n + 1 /\ i \in Nat
        BY <1>0
      <3>5. \A p \in 1..Len(file') : file'[p] \in 1..(n + 1) /\ written'[file'[p]].fate # "missing"
        <4>1. n + 1 \in 1..(n + 1)
          BY <1>0
        <4> QED BY <1>1, <2>1, <2>4, <3>2, <3>3, <3>4, <4>1
      <3>6. \A p, q \in 1..Len(file') : p < q => file'[p] < file'[q]
        <4> SUFFICES ASSUME NEW p \in 1..Len(file'), NEW q \in 1..Len(file'), p < q
                     PROVE file'[p] < file'[q]
          OBVIOUS
        <4>1. p \in 1..Len(file)
          BY <2>2, <3>2
        <4> QED BY <2>1, <3>2, <3>3, <3>4, <4>1
      <3>7. \A i \in 1..(n + 1) : written'[i].fate # "missing" => \E p \in 1..Len(file') : file'[p] = i
        <4> SUFFICES ASSUME NEW i \in 1..(n + 1), written'[i].fate # "missing"
                     PROVE  \E p \in 1..Len(file') : file'[p] = i
          OBVIOUS
        <4>1. CASE i \in 1..n
          <5>1. PICK p \in 1..Len(file) : file[p] = i
            BY <1>1, <2>1, <4>1
          <5>2. p \in 1..Len(file')
            BY <2>2, <3>2
          <5> QED BY <3>2, <5>1, <5>2
        <4>2. CASE i = n + 1
          <5>1. Len(file) + 1 \in 1..Len(file')
            BY <2>2, <3>2
          <5> QED BY <3>2, <4>2, <5>1
        <4> QED BY <1>2, <4>1, <4>2
      <3> QED BY <1>1, <3>5, <3>6, <3>7 DEF FileInv
    <2> QED BY <2>3, <2>4
  <1> QED BY <1>4, <1>5, <1>6, <1>7, <1>8, <1>9, <1>10 DEF TraceInv
LEMMA Bounds == MaxFrames \in Nat /\ NumEvents \in Nat
  BY BoundAssumption

LEMMA LineFields ==
  ASSUME NEW tag, NEW k, NEW num
  PROVE  Line(tag, k, num).tag = tag /\ Line(tag, k, num).event = k /\ Line(tag, k, num).num = num
  BY DEF Line

LEMMA InBody ==
  ASSUME TypeOK, TraceInv, NEW e \in 1..Len(written), LineOf(e).tag = "E",
         NEW j \in 1..Len(written), e < j, j <= e + LineOf(e).num
  PROVE  LineOf(j) = Line("F", LineOf(e).event, j - e) /\ LineOf(j).tag = "F"
  <1>1. LineOf(e).num \in Nat /\ Len(written) \in Nat
    BY LineIs
  <1>2. PICK i \in 1..LineOf(e).num : i = j - e
    BY <1>1
  <1>3. e + i = j
    BY <1>1, <1>2
  <1>4. LineOf(e + i) = Line("F", LineOf(e).event, i)
    BY <1>3 DEF BodyInv, TraceInv
  <1> QED BY <1>2, <1>3, <1>4, LineFields

\* All frames of the events begun are written, or the last event has left to come.
LEMMA LastIs ==
  ASSUME TypeOK, TraceInv, Len(written) > Len(Modules) + 1
  PROVE  \E e \in 1..Len(written) :
           /\ Starts(e, Last.event) /\ IsEvent(Last) /\ LineOf(Len(written)) = Last
           /\ Len(written) = e + LineOf(e).num - left
           /\ Last.tag = "E" => e = Len(written)
           /\ Last.tag = "F" => e = Len(written) - Last.num
           /\ \A d \in 1..Len(written) : LineOf(d).tag = "E" => d = e \/ d + LineOf(d).num < e
  <1> PICK n \in Nat : n = Len(written)
    BY LineIs
  <1>0. Len(Modules) \in Nat /\ n \in 1..n /\ n > Len(Modules) + 1 /\ Last = LineOf(n)
    BY ModuleIs DEF Last, LineOf
  <1>1. /\ \A i \in 1..n : LineOf(i).num \in Nat /\ LineOf(i).event \in Nat
        /\ left \in Nat
    BY LineIs DEF TypeOK
  <1>2. IsEvent(Last) /\ written # <<>>
    BY <1>0 DEF KindInv, TraceInv
  <1>3. \E e \in 1..n : Starts(e, Last.event) /\ n = e + LineOf(e).num - left
                        /\ (Last.tag = "E" => e = n) /\ (Last.tag = "F" => e = n - Last.num)
    <2>1. CASE Last.tag = "E"
      <3>1. left = Last.num
        BY <1>2, <2>1 DEF LeftInv, TraceInv
      <3>2. Starts(n, Last.event) /\ n = n + LineOf(n).num - left
        BY <1>0, <1>1, <2>1, <3>1 DEF Starts
      <3> QED BY <1>0, <2>1, <3>2
    <2>2. CASE Last.tag = "F"
      <3>1. PICK e \in Int : e = n - Last.num
        BY <1>0, <1>1
      <3>2. e \in 1..n /\ Starts(e, Last.event)
        BY <1>0, <2>2, <3>1 DEF OwnerInv, TraceInv
      <3>3. left + Last.num = LineOf(e).num
        BY <1>2, <2>2, <3>1 DEF LeftInv, TraceInv
      <3>4. n = e + LineOf(e).num - left
        BY <1>0, <1>1, <3>1, <3>2, <3>3
      <3> QED BY <2>2, <3>1, <3>2, <3>4
    <2> QED BY <1>2, <2>1, <2>2 DEF IsEvent
  <1>4. PICK e \in 1..n : Starts(e, Last.event) /\ n = e + LineOf(e).num - left
                        /\ (Last.tag = "E" => e = n) /\ (Last.tag = "F" => e = n - Last.num)
    BY <1>3
  <1>5. \A d \in 1..n : LineOf(d).tag = "E" => d = e \/ d + LineOf(d).num < e
    <2> SUFFICES ASSUME NEW d \in 1..n, LineOf(d).tag = "E", d # e, ~(d + LineOf(d).num < e)
                 PROVE FALSE
      OBVIOUS
    <2>1. LineOf(d).num \in Nat /\ LineOf(e).num \in Nat /\ LineOf(e).tag = "E"
      BY <1>1, <1>4 DEF Starts
    <2>2. CASE d < e
      <3>1. LineOf(e).tag = "F"
        BY <2>1, <2>2, InBody
      <3> QED BY <2>1, <3>1
    <2>3. CASE e < d
      <3>1. d <= e + LineOf(e).num
        BY <1>1, <1>4, <2>1
      <3>2. LineOf(d).tag = "F"
        BY <2>1, <2>3, <3>1, InBody
      <3> QED BY <3>2
    <2> QED BY <2>2, <2>3
  <1> QED BY <1>0, <1>2, <1>4, <1>5

LEMMA EventNext ==
  ASSUME TypeOK, TraceInv, Len(written) > Len(Modules), left = 0,
         NEW k \in 1..NumEvents, k = Last.event + 1, NEW num \in 0..MaxFrames
  PROVE  NextOk(Line("E", k, num))
  <1> PICK n \in Nat : n = Len(written)
    BY LineIs
  <1>0. Len(Modules) \in Nat /\ n \in 1..n /\ n >= Len(Modules) + 1 /\ Last = LineOf(n)
    BY ModuleIs DEF Last, LineOf
  <1> PICK l \in {Line("E", k, num)} : l = Line("E", k, num)
    OBVIOUS
  <1>1. l.tag = "E" /\ l.event = k /\ l.num = num
    BY LineFields
  <1>2. \A i \in 1..n : LineOf(i).num \in Nat /\ LineOf(i).event \in Nat
    BY LineIs
  <1>3. \A i \in 1..n : IsEvent(LineOf(i)) => LineOf(i).event <= Last.event
    <2> SUFFICES ASSUME NEW i \in 1..n, IsEvent(LineOf(i)) PROVE LineOf(i).event <= Last.event
      OBVIOUS
    <2>1. CASE i = n
      BY <1>0, <1>2, <2>1
    <2>2. CASE i # n
      <3>1. i < n /\ IsEvent(LineOf(n))
        BY <1>0, <2>2 DEF KindInv, TraceInv
      <3> QED BY <1>0, <3>1 DEF OrderInv, TraceInv, Earlier
    <2> QED BY <2>1, <2>2
  <1>4. \A i \in 1..n : IsEvent(LineOf(i)) => Earlier(LineOf(i), l)
    <2> SUFFICES ASSUME NEW i \in 1..n, IsEvent(LineOf(i)) PROVE Earlier(LineOf(i), l)
      OBVIOUS
    <2>1. LineOf(i).event < l.event
      BY <1>0, <1>1, <1>2, <1>3
    <2> QED BY <1>1, <1>2, <2>1 DEF Earlier
  <1>5. \A h \in 1..k : (\E d \in 1..n : Starts(d, h)) \/ h = k
    <2> SUFFICES ASSUME NEW h \in 1..k, h # k PROVE \E d \in 1..n : Starts(d, h)
      OBVIOUS
    <2>1. h \in 1..(LineOf(n).event)
      BY <1>0, <1>2
    <2> QED BY <1>0, <2>1 DEF StartInv, TraceInv
  <1>6. \A e \in 1..n : LineOf(e).tag = "E" => \A i \in 1..LineOf(e).num : e + i # n + 1
    <2> SUFFICES ASSUME NEW d \in 1..n, LineOf(d).tag = "E", NEW i \in 1..LineOf(d).num, d + i = n + 1
                 PROVE FALSE
      OBVIOUS
    <2>1. n > Len(Modules) + 1
      <3>1. d > Len(Modules) + 1
        BY DEF KindInv, TraceInv, IsEvent
      <3> QED BY <1>0, <3>1
    <2>2. PICK e \in 1..n : n = e + LineOf(e).num - left
            /\ \A c \in 1..n : LineOf(c).tag = "E" => c = e \/ c + LineOf(c).num < e
      BY <2>1, LastIs
    <2>3. LineOf(d).num \in Nat /\ LineOf(e).num \in Nat
      BY <1>2
    <2>4. d = e \/ d + LineOf(d).num < e
      BY <2>2
    <2> QED BY SMTT(30), <1>0, <2>2, <2>3, <2>4
  <1>7. IsEvent(l) /\ k > 0 /\ n + 1 > Len(Modules) + 1
    BY <1>0, <1>1 DEF IsEvent
  <1> QED BY <1>1, <1>4, <1>5, <1>6, <1>7 DEF NextOk

LEMMA FrameNext ==
  ASSUME TypeOK, TraceInv, left > 0, NEW k, k = Last.event,
         NEW num, num = IF Last.tag = "E" THEN 1 ELSE Last.num + 1
  PROVE  /\ NextOk(Line("F", k, num)) /\ Line("F", k, num) \in Lines
         /\ num \in Nat /\ Len(written) + 1 - num \in 1..Len(written)
         /\ left = LineOf(Len(written) + 1 - num).num - num + 1
  <1> PICK n \in Nat : n = Len(written)
    BY LineIs
  <1>0. left \in Nat /\ Len(Modules) \in Nat
    BY ModuleIs DEF TypeOK
  <1>1. written # <<>> /\ IsEvent(Last)
    BY <1>0 DEF LeftInv, TraceInv
  <1>2. n \in 1..n /\ Last = LineOf(n) /\ n > Len(Modules) + 1
    <2>1. n # 0
      BY <1>1 DEF TypeOK
    <2>2. n \in 1..n /\ Last = LineOf(n)
      BY <2>1 DEF Last, LineOf
    <2> QED BY <1>1, <2>2 DEF KindInv, TraceInv
  <1>3. \A i \in 1..n : LineOf(i).num \in Nat /\ LineOf(i).event \in 0..NumEvents
    BY LineIs
  <1>4. PICK e \in 1..n :
          /\ Starts(e, k) /\ n = e + LineOf(e).num - left
          /\ (Last.tag = "E" => e = n) /\ (Last.tag = "F" => e = n - Last.num)
          /\ \A c \in 1..n : LineOf(c).tag = "E" => c = e \/ c + LineOf(c).num < e
    BY <1>2, LastIs
  <1>5. Last.tag \in {"E", "F"} /\ Last.num \in Nat /\ k \in 0..NumEvents
    BY <1>1, <1>2, <1>3 DEF IsEvent
  <1>6. num \in Nat /\ num >= 1 /\ e = n + 1 - num
    BY <1>4, <1>5
  <1>7. LineOf(e).num \in 0..MaxFrames /\ LineOf(e).tag = "E" /\ LineOf(e).event = k
    BY <1>4 DEF Starts, KindInv, TraceInv
  <1>8. left = LineOf(e).num - num + 1 /\ num <= LineOf(e).num
    <2>1. PICK L \in Nat : L = LineOf(e).num
      BY <1>3
    <2>2. n = e + L - left /\ e = n + 1 - num /\ num \in Nat /\ left \in Nat /\ left > 0 /\ e \in Nat
      BY <1>0, <1>4, <1>6, <2>1
    <2>3. left = L - num + 1 /\ num <= L
      BY ONLY <2>2, n \in Nat, L \in Nat
    <2> QED BY <2>1, <2>3
  <1> PICK l \in {Line("F", k, num)} : l = Line("F", k, num)
    OBVIOUS
  <1>9. l.tag = "F" /\ l.event = k /\ l.num = num /\ l \in Lines
    BY <1>5, <1>6, LineFields DEF Line, Lines
  <1>10. \A i \in 1..n : IsEvent(LineOf(i)) => Earlier(LineOf(i), l)
    <2> SUFFICES ASSUME NEW i \in 1..n, IsEvent(LineOf(i)) PROVE Earlier(LineOf(i), l)
      OBVIOUS
    <2>1. CASE i = n
      BY <1>2, <1>5, <1>9, <2>1 DEF Earlier
    <2>2. CASE i # n
      <3>1. Earlier(LineOf(i), Last)
        BY <1>1, <1>2, <2>2 DEF OrderInv, TraceInv
      <3>2. LineOf(i).num \in Nat
        BY <1>3
      <3> QED BY <1>5, <1>9, <3>1, <3>2 DEF Earlier
    <2> QED BY <2>1, <2>2
  <1>11. \A h \in 1..k : \E d \in 1..n : Starts(d, h)
    BY <1>2 DEF StartInv, TraceInv
  <1>12. \A d \in 1..n : LineOf(d).tag = "E" =>
            \A i \in 1..LineOf(d).num : d + i = n + 1 => l = Line("F", LineOf(d).event, i)
    <2> SUFFICES ASSUME NEW d \in 1..n, LineOf(d).tag = "E", NEW i \in 1..LineOf(d).num, d + i = n + 1
                 PROVE l = Line("F", LineOf(d).event, i)
      OBVIOUS
    <2>1. d = e \/ d + LineOf(d).num < e
      BY <1>4
    <2>2. LineOf(d).num \in Nat
      BY <1>3
    <2>3. d = e /\ i = num
      BY <1>6, <2>1, <2>2
    <2> QED BY <1>7, <2>3
  <1>13. IsEvent(l) /\ k > 0 /\ n + 1 > Len(Modules) + 1
    <2>1. k > 0
      BY <1>1, <1>2 DEF KindInv, TraceInv
    <2> QED BY <1>0, <1>2, <1>9, <2>1 DEF IsEvent
  <1>14. num \in 1..MaxFrames
    BY <1>6, <1>7, <1>8, Bounds
  <1>15. NextOk(l)
    BY <1>4, <1>6, <1>8, <1>9, <1>10, <1>11, <1>12, <1>13, <1>14 DEF NextOk
  <1> QED BY <1>6, <1>8, <1>9, <1>15
LEMMA WriteLine ==
  ASSUME TypeOK, TraceInv, NEW l \in Lines, NextOk(l), Write(l), left' \in Nat,
         left' = IF l.tag = "E" THEN l.num
                 ELSE IF l.tag = "F" THEN LineOf(Len(written) + 1 - l.num).num - l.num ELSE 0
  PROVE  /\ TypeOK' /\ TraceInv' /\ at = "writing"
         /\ UNCHANGED <<at, pos, need, modules, events, results, todo>>
  <1>1. PICK row \in Rows : Wrote(l, row)
    BY WriteIs
  <1>2. at = "writing" /\ UNCHANGED <<at, pos, need, modules, events, results, todo>>
    BY WriteIs
  <1>3. TraceInv'
    BY <1>1, TraceGrows
  <1>4. file' \in Seq(Nat)
    <2>1. file \in Seq(Nat) /\ Len(written) + 1 \in Nat
      BY LineIs DEF TypeOK
    <2> QED BY <1>1, <2>1 DEF Wrote
  <1>5. written' \in Seq(Rows)
    BY <1>1 DEF Wrote
  <1> QED BY <1>2, <1>3, <1>4, <1>5 DEF TypeOK

LEMMA WriteStep ==
  ASSUME TypeOK, TraceInv, WriteHeader \/ WriteModule \/ WriteEvent \/ WriteFrame
  PROVE  /\ TypeOK' /\ TraceInv' /\ at = "writing"
         /\ UNCHANGED <<at, pos, need, modules, events, results, todo>>
  <1>0. left \in Nat /\ Len(written) \in Nat /\ written \in Seq(Rows) /\ Len(Modules) \in Nat
    BY LineIs, ModuleIs DEF TypeOK
  <1>1. CASE WriteHeader
    <2> PICK l \in {Line("HEADER", 0, 0)} : l = Line("HEADER", 0, 0)
      OBVIOUS
    <2>1. l.tag = "HEADER" /\ l.event = 0 /\ l.num = 0 /\ l \in Lines
      BY Bounds DEF Line, Lines
    <2>2. Len(written) = 0 /\ left = 0 /\ left' = 0 /\ Write(l)
      BY <1>1 DEF WriteHeader, LeftInv, TraceInv
    <2>3. NextOk(l)
      BY <1>0, <2>1, <2>2 DEF NextOk, IsEvent
    <2> QED BY <2>1, <2>2, <2>3, WriteLine
  <1>2. CASE WriteModule
    <2> PICK n \in 1..Len(Modules) : n = Len(written)
      BY <1>2 DEF WriteModule
    <2> PICK l \in {Line("M", 0, n)} : l = Line("M", 0, n)
      OBVIOUS
    <2>1. l.tag = "M" /\ l.event = 0 /\ l.num = n /\ l \in Lines
      BY <1>0, Bounds DEF Line, Lines
    <2>2. \A i \in 1..n : ~IsEvent(LineOf(i))
      BY <1>0 DEF KindInv, TraceInv
    <2>3. left = 0 /\ left' = 0 /\ Write(l)
      <3>1. Last = LineOf(n) /\ n \in 1..n /\ written # <<>>
        BY <1>0 DEF Last, LineOf
      <3> QED BY <1>2, <2>2, <3>1 DEF WriteModule, LeftInv, TraceInv
    <2>4. NextOk(l)
      <3>1. \A i \in 1..n : LineOf(i).tag # "E"
        BY <2>2 DEF IsEvent
      <3> QED BY <1>0, <2>1, <2>2, <3>1 DEF NextOk, IsEvent
    <2> QED BY <2>1, <2>3, <2>4, WriteLine
  <1>3. CASE WriteEvent
    <2>1. /\ Len(written) > Len(Modules) /\ left = 0 /\ Last.event < NumEvents
          /\ left' \in 0..MaxFrames /\ Write(Line("E", Last.event + 1, left'))
      BY <1>3 DEF WriteEvent
    <2>2. Last.event \in Nat
      <3>1. Len(written) \in 1..Len(written)
        BY <1>0, <2>1
      <3> QED BY <3>1, LineIs DEF Last, LineOf
    <2> PICK k \in 1..NumEvents : k = Last.event + 1
      BY <2>1, <2>2, Bounds
    <2> PICK num \in 0..MaxFrames : num = left'
      BY <2>1
    <2> PICK l \in {Line("E", k, num)} : l = Line("E", k, num)
      OBVIOUS
    <2>3. l.tag = "E" /\ l.event = k /\ l.num = num /\ l \in Lines /\ left' \in Nat
      BY <2>1, Bounds DEF Line, Lines
    <2>4. NextOk(l)
      BY <2>1, EventNext
    <2> QED BY <2>1, <2>3, <2>4, WriteLine
  <1>4. CASE WriteFrame
    <2>1. left > 0 /\ left' = left - 1
          /\ Write(Line("F", Last.event, IF Last.tag = "E" THEN 1 ELSE Last.num + 1))
      BY <1>4 DEF WriteFrame
    <2> DEFINE k0 == Last.event
               num0 == IF Last.tag = "E" THEN 1 ELSE Last.num + 1
    <2>2. /\ NextOk(Line("F", k0, num0)) /\ Line("F", k0, num0) \in Lines
          /\ num0 \in Nat /\ Len(written) + 1 - num0 \in 1..Len(written)
          /\ left = LineOf(Len(written) + 1 - num0).num - num0 + 1
      BY <2>1, FrameNext
    <2> PICK l \in Lines : l = Line("F", k0, num0)
      BY <2>2
    <2>3. l.tag = "F" /\ l.num = num0
      BY LineFields
    <2>4. NextOk(l) /\ Write(l)
      BY <2>1, <2>2
    <2>5. left' \in Nat
      BY <1>0, <2>1
    <2>6. left' = LineOf(Len(written) + 1 - l.num).num - l.num
      <3>1. LineOf(Len(written) + 1 - num0).num \in Nat
        BY <2>2, LineIs
      <3> HIDE DEF num0
      <3> QED BY <1>0, <2>1, <2>2, <2>3, <3>1
    <2> QED BY <2>3, <2>4, <2>5, <2>6, WriteLine
  <1> QED BY <1>1, <1>2, <1>3, <1>4

\* The steps that read leave the trace alone.
Reads == UNCHANGED trace

LEMMA TraceSame ==
  ASSUME Reads, TraceInv
  PROVE  TraceInv'
  <1>1. written' = written /\ left' = left /\ file' = file
    BY DEF Reads, trace
  <1> QED BY SMTT(30), <1>1 DEF TraceInv, KindInv, OrderInv, StartInv, BodyInv, OwnerInv, LeftInv, FileInv,
               LineOf, Starts, Last, IsEvent, Earlier

\* The end of the file may cut its last line, which still is what was written there.
LEMMA CutIs ==
  ASSUME TypeOK, TraceInv, written # <<>>, written[Len(written)].fate = "kept",
         NEW row \in Spoiled(Last), written' = [written EXCEPT ![Len(written)] = row],
         UNCHANGED <<left, file>>
  PROVE  written' \in Seq(Rows) /\ TraceInv'
  <1> PICK n \in Nat : n = Len(written)
    BY LineIs
  <1>0. n \in 1..n /\ Last = LineOf(n) /\ written \in Seq(Rows)
    BY DEF TypeOK, Last, LineOf
  <1>1. LineOf(n) \in Lines /\ \A i \in 1..n : LineOf(i).num \in Nat
    BY <1>0, LineIs
  <1>2. row \in Rows /\ row.line = LineOf(n) /\ row.fate # "missing" /\ RowOk(row)
    BY <1>0, <1>1, SpoiledIs
  <1>3. /\ written' \in Seq(Rows) /\ Len(written') = n
        /\ \A i \in 1..n : written'[i] = IF i = n THEN row ELSE written[i]
    BY <1>0, <1>2, ExceptSeq
  <1>4. /\ \A i \in 1..n : LineOf(i)' = LineOf(i)
        /\ \A i \in 1..n : \A k : Starts(i, k)' <=> Starts(i, k)
        /\ left' = left /\ file' = file /\ written' # <<>>
    BY <1>0, <1>2, <1>3 DEF LineOf, Starts
  <1>5. KindInv'
    <2>1. \A i \in 1..n : RowOk(written'[i])
      BY <1>2, <1>3 DEF TraceInv, KindInv
    <2> QED BY <1>3, <1>4, <2>1 DEF TraceInv, KindInv, IsEvent
  <1>6. OrderInv'
    BY <1>3, <1>4 DEF TraceInv, OrderInv, IsEvent, Earlier
  <1>7. StartInv'
    <2>1. ASSUME NEW i \in 1..n, NEW k \in 1..(LineOf(i).event) PROVE \E h \in 1..i : Starts(h, k)'
      <3>1. PICK h \in 1..i : Starts(h, k)
        BY <2>1 DEF TraceInv, StartInv
      <3>2. h \in 1..n
        OBVIOUS
      <3> QED BY <1>4, <3>1, <3>2
    <2> QED BY <1>3, <1>4, <2>1 DEF StartInv
  <1>8. BodyInv'
    <2>1. ASSUME NEW e \in 1..n, LineOf(e).tag = "E", NEW i \in 1..(LineOf(e).num), e + i <= n
          PROVE  LineOf(e + i)' = Line("F", LineOf(e).event, i)
      <3>1. LineOf(e).num \in Nat
        BY <1>1
      <3>2. e + i \in 1..n
        BY <2>1, <3>1
      <3>3. LineOf(e + i) = Line("F", LineOf(e).event, i)
        BY <2>1 DEF TraceInv, BodyInv
      <3>4. LineOf(e + i)' = LineOf(e + i)
        BY <1>4, <3>2
      <3> QED BY <3>3, <3>4
    <2> QED BY <1>3, <1>4, <2>1 DEF BodyInv
  <1>9. OwnerInv'
    <2>1. ASSUME NEW i \in 1..n, LineOf(i).tag = "F", NEW e \in Int, e = i - LineOf(i).num
          PROVE  e \in 1..n /\ Starts(e, LineOf(i).event)' /\ LineOf(i).num <= LineOf(e)'.num
      <3>1. e \in 1..n /\ Starts(e, LineOf(i).event) /\ LineOf(i).num <= LineOf(e).num
        BY <2>1 DEF TraceInv, OwnerInv
      <3> QED BY <1>4, <3>1
    <2>2. \A i \in 1..n : i - LineOf(i).num \in Int
      BY <1>1
    <2> QED BY <1>3, <1>4, <2>1, <2>2 DEF OwnerInv
  <1>10. LeftInv'
    <2>1. Last' = Last
      <3>1. Last' = LineOf(n)'
        BY <1>3 DEF Last, LineOf
      <3> QED BY <1>0, <1>4, <3>1
    <2>a. PICK e \in Int : e = n - Last.num
      BY <1>0, <1>1
    <2>2. ASSUME Last.tag = "F" PROVE left + Last.num = LineOf(e)'.num
      <3>1. e \in 1..n
        BY <1>0, <2>a, <2>2 DEF TraceInv, OwnerInv
      <3>2. left + Last.num = LineOf(e).num
        BY <1>0, <2>a, <2>2 DEF TraceInv, LeftInv
      <3> QED BY <1>4, <3>1, <3>2
    <2>3. (~IsEvent(Last) => left = 0) /\ (Last.tag = "E" => left = Last.num)
      BY DEF TraceInv, LeftInv
    <2>4. Len(written') - Last'.num = e
      BY <1>3, <2>1, <2>a
    <2>5. LineOf(Len(written) - Last.num)' = LineOf(e)'
      BY <2>4 DEF LineOf
    <2> QED BY <1>4, <2>1, <2>2, <2>3, <2>5 DEF LeftInv
  <1>11. FileInv'
    <2>1. \A i \in 1..n : written'[i].fate # "missing" <=> written[i].fate # "missing"
      BY <1>2, <1>3
    <2> QED BY <1>3, <1>4, <2>1 DEF TraceInv, FileInv
  <1> QED BY <1>3, <1>5, <1>6, <1>7, <1>8, <1>9, <1>10, <1>11 DEF TraceInv

LEMMA EndsStep ==
  ASSUME TypeOK, TraceInv, WriteEnd
  PROVE  /\ TypeOK' /\ TraceInv' /\ at = "writing" /\ at' = "header"
         /\ UNCHANGED <<pos, need, modules, events, results, todo>>
  <1>1. /\ at = "writing" /\ at' = "header"
        /\ UNCHANGED <<left, file, pos, need, modules, events, results, todo>>
    BY DEF WriteEnd
  <1>2. written' \in Seq(Rows) /\ TraceInv'
    <2>1. CASE UNCHANGED written
      BY <1>1, <2>1, TraceSame DEF Reads, trace, TypeOK
    <2>2. CASE ~UNCHANGED written
      BY <1>1, <2>2, CutIs DEF WriteEnd
    <2> QED BY <2>1, <2>2
  <1> QED BY <1>1, <1>2 DEF TypeOK, Steps
-----------------------------------------------------------------------------
(* The trace as it is read.                                                *)

\* What a line in the file shows of the line that was written.
Shows(p) ==
  LET i == file[p] IN
  /\ i \in 1..Len(written) /\ i \in Nat
  /\ written[i].fate \in {"kept", "garbled", "unreadable", "altered"} /\ RowOk(written[i])
  /\ Text(p).event = LineOf(i).event /\ Text(p).num = written[i].num
  /\ Text(p).fate = written[i].fate /\ Says(Text(p)) = Says(written[i])
  /\ Text(p).tag = IF written[i].fate = "garbled" THEN "?" ELSE LineOf(i).tag

LEMMA TextShows ==
  ASSUME TypeOK, TraceInv
  PROVE  \A p \in 1..Len(file) : Shows(p)
  <1> SUFFICES ASSUME NEW p \in 1..Len(file) PROVE Shows(p)
    OBVIOUS
  <1> PICK i \in 1..Len(written) : i = file[p] /\ written[i].fate # "missing"
    BY DEF FileInv, TraceInv
  <1>1. Len(written) \in Nat /\ written[i].fate \in Fate /\ RowOk(written[i])
    BY LineIs DEF KindInv, TraceInv
  <1>2. written[i].fate \in {"kept", "garbled", "unreadable", "altered"}
    BY <1>1 DEF Fate
  <1>3. /\ Text(p).event = LineOf(i).event /\ Text(p).num = written[i].num
        /\ Text(p).fate = written[i].fate
        /\ Text(p).tag = IF written[i].fate = "garbled" THEN "?" ELSE LineOf(i).tag
    BY DEF Text, Seen, LineOf
  <1>4. Says(Text(p)) = Says(written[i])
    BY <1>3 DEF Says
  <1> QED BY <1>1, <1>2, <1>3, <1>4 DEF Shows

\* A line that can be told to be of a kind is of that kind, and shows the number it
\* was written with unless it is an E line that is altered.
LEMMA TextTypes ==
  ASSUME TypeOK, TraceInv, NEW p \in 1..Len(file), Text(p).tag # "?"
  PROVE  LET i == file[p]  s == Text(p) IN
         /\ s.tag = LineOf(i).tag /\ s.event = LineOf(i).event
         /\ s.tag \in {"HEADER", "M"} => s.fate = "kept"
         /\ s.tag = "M" => s.num \in 1..Len(Modules)
         /\ s.tag \in {"E", "F"} => s.event \in 1..NumEvents
         /\ s.tag = "E" => LineOf(i).num \in 0..MaxFrames
         /\ s.tag = "F" => s.num \in 1..MaxFrames
         /\ (s.tag = "E" /\ s.fate = "altered") \/ s.num = LineOf(i).num
         /\ s.num \in Nat /\ s.fate \in {"kept", "unreadable", "altered"}
         /\ s.fate = written[i].fate /\ s.num = written[i].num
  <1>1. Shows(p)
    BY TextShows
  <1> PICK i \in 1..Len(written) : i = file[p]
    BY <1>1 DEF Shows
  <1>2. LineOf(i).event \in 0..NumEvents /\ LineOf(i).num \in Nat /\ written[i].num \in Nat
    BY LineIs
  <1>3. /\ LineOf(i).tag = "M" => LineOf(i).num \in 1..Len(Modules)
        /\ LineOf(i).tag = "F" => LineOf(i).num \in 1..MaxFrames
        /\ LineOf(i).tag = "E" => LineOf(i).num \in 0..MaxFrames
    BY DEF KindInv, TraceInv
  <1>4. LineOf(i).tag \in {"E", "F"} => LineOf(i).event \in 1..NumEvents
    <2>1. LineOf(i).tag \in {"E", "F"} => LineOf(i).event > 0
      BY DEF KindInv, TraceInv, IsEvent
    <2> QED BY <1>2, <2>1, Bounds
  <1>5. /\ Text(p).tag = LineOf(i).tag /\ Text(p).event = LineOf(i).event
        /\ Text(p).fate = written[i].fate /\ Text(p).num = written[i].num
        /\ written[i].fate \in {"kept", "unreadable", "altered"}
    BY <1>1 DEF Shows
  <1>6. /\ written[i].fate \in {"unreadable", "altered"} => LineOf(i).tag \in {"E", "F"}
        /\ (LineOf(i).tag = "E" /\ written[i].fate = "altered") \/ written[i].num = LineOf(i).num
    BY <1>1, <1>5 DEF Shows, RowOk, LineOf
  <1> QED BY <1>2, <1>3, <1>4, <1>5, <1>6

\* A frame is known by the event and the number of its line.
LEMMA FrameIs ==
  ASSUME TypeOK, TraceInv, NEW p \in 1..Len(file), Text(p).tag = "F"
  PROVE  LET f == Frame(Text(p))  i == file[p] IN
         /\ f = <<LineOf(i).event, LineOf(i).num, Says(written[i])>>
         /\ f[1] = LineOf(i).event /\ f[2] = LineOf(i).num /\ f[3] = Says(written[i])
         /\ Text(p).fate # "unreadable" => f \in Frames
         /\ LineOf(i) = Line("F", f[1], f[2])
  <1>1. Shows(p)
    BY TextShows
  <1> PICK i \in 1..Len(written) : i = file[p]
    BY <1>1 DEF Shows
  <1>2. /\ Text(p).event = LineOf(i).event /\ Text(p).num = LineOf(i).num /\ LineOf(i).tag = "F"
        /\ Text(p).event \in 1..NumEvents /\ Text(p).num \in 1..MaxFrames
        /\ Text(p).fate \in {"kept", "unreadable", "altered"}
    BY TextTypes
  <1>3. Frame(Text(p)) = <<LineOf(i).event, LineOf(i).num, Says(written[i])>>
    BY <1>1, <1>2 DEF Frame, Shows
  <1>4. Text(p).fate # "unreadable" => Says(Text(p)) \in {"written", "other"}
    BY <1>2 DEF Says
  <1>5. Text(p).fate # "unreadable" => Frame(Text(p)) \in Frames
    BY <1>2, <1>4 DEF Frame, Frames
  <1>6. LineOf(i) = Line("F", LineOf(i).event, LineOf(i).num)
    BY <1>2, LineIs DEF Lines, Line
  <1> QED BY <1>3, <1>5, <1>6

LEMMA EventTypes ==
  ASSUME TypeOK
  PROVE  /\ Len(events) \in Nat
         /\ \A j \in 1..Len(events) :
              /\ events[j] \in Events /\ events[j].id \in 1..NumEvents
              /\ events[j].says \in {"written", "zero", "other"}
              /\ events[j].bt \in Seq(Frames) /\ Len(events[j].bt) \in Nat
              /\ \A i \in 1..Len(events[j].bt) :
                   /\ events[j].bt[i] \in Frames
                   /\ events[j].bt[i][1] \in 1..NumEvents /\ events[j].bt[i][2] \in 1..MaxFrames
                   /\ events[j].bt[i][3] \in {"written", "other"}
  <1>1. events \in Seq(Events)
    BY DEF TypeOK
  <1>2. Len(events) \in Nat /\ \A j \in 1..Len(events) : events[j] \in Events
    BY ONLY <1>1
  <1>3. \A e \in Events : e.id \in 1..NumEvents /\ e.says \in {"written", "zero", "other"}
                        /\ e.bt \in Seq(Frames)
    BY DEF Events
  <1>4. \A s \in Seq(Frames) : Len(s) \in Nat /\ \A i \in 1..Len(s) : s[i] \in Frames
    OBVIOUS
  <1>5. \A f \in Frames : f[1] \in 1..NumEvents /\ f[2] \in 1..MaxFrames /\ f[3] \in {"written", "other"}
    BY DEF Frames
  <1> QED BY <1>2, <1>3, <1>4, <1>5

\* What ReadFrame does to the events.
LEMMA FrameRead ==
  ASSUME TypeOK, TraceInv, events # <<>>, ReadFrame
  PROVE  LET k == Len(events) IN
         /\ events' \in Seq(Events) /\ Len(events') = k /\ k \in 1..k
         /\ \A j \in 1..k : events'[j].id = events[j].id /\ events'[j].says = events[j].says
         /\ \A j \in 1..k : j # k => events'[j] = events[j]
         /\ events'[k].bt = IF Text(pos).fate = "unreadable" THEN events[k].bt
                            ELSE Append(events[k].bt, Frame(Text(pos)))
         /\ pos \in 1..Len(file) /\ Text(pos).tag = "F"
  <1> PICK k \in Nat : k = Len(events)
    BY EventTypes
  <1>1. k \in 1..k /\ events[k] \in Events /\ events[k].bt \in Seq(Frames)
    <2>1. k # 0
      BY DEF TypeOK
    <2>2. k \in 1..k
      BY <2>1
    <2> QED BY <2>2, EventTypes
  <1>2. pos \in 1..Len(file) /\ Text(pos).tag = "F"
    BY DEF ReadFrame, IsFrame, IsTag, AtEnd, TypeOK
  <1>3. events' = IF Text(pos).fate = "unreadable" THEN events
               ELSE [events EXCEPT ![k].bt = Append(@, Frame(Text(pos)))]
    BY DEF ReadFrame
  <1>4. events \in Seq(Events)
    BY DEF TypeOK
  <1>5. CASE Text(pos).fate = "unreadable"
    BY <1>1, <1>2, <1>3, <1>4, <1>5
  <1>6. CASE Text(pos).fate # "unreadable"
    <2>1. Frame(Text(pos)) \in Frames
      BY <1>2, <1>6, FrameIs
    <2>2. PICK bt \in Seq(Frames) : bt = Append(events[k].bt, Frame(Text(pos)))
      <3>1. \A s \in Seq(Frames), f \in Frames : Append(s, f) \in Seq(Frames)
        OBVIOUS
      <3> QED BY <1>1, <2>1, <3>1
    <2>3. PICK e \in Events : e = [events[k] EXCEPT !.bt = bt]
      BY <1>1 DEF Events
    <2>4. e.id = events[k].id /\ e.says = events[k].says /\ e.bt = bt
      BY <1>1, <2>3 DEF Events
    <2>5. events' = [events EXCEPT ![k] = e]
      BY <1>3, <1>6, <2>2, <2>3
    <2>6. /\ events' \in Seq(Events) /\ Len(events') = k
          /\ \A j \in 1..k : events'[j] = IF j = k THEN e ELSE events[j]
      BY <1>1, <1>4, <2>5, ExceptSeq
    <2> QED BY <1>1, <1>2, <1>6, <2>2, <2>4, <2>6
  <1> QED BY <1>5, <1>6

LEMMA RangeTypes ==
  ASSUME NEW ms \in Seq(Module)
  PROVE  ByBase(ms) \in Seq(Module) /\ Sorted(ByBase(ms)) /\ ModulesOf(ByBase(ms)) = ModulesOf(ms)
  <1>1. ms \in Seq(Entries) /\ ModulesOf(ms) \subseteq Module
    BY ModuleIs, SeqMonotonic DEF ModulesOf
  <1>2. /\ ByBase(ms) \in Seq(Entries) /\ Sorted(ByBase(ms)) /\ ModulesOf(ByBase(ms)) = ModulesOf(ms)
    BY <1>1, ByBaseSorts
  <1>3. Len(ByBase(ms)) \in Nat /\ \A i \in 1..Len(ByBase(ms)) : ByBase(ms)[i] \in Module
    BY <1>1, <1>2 DEF ModulesOf
  <1>4. ByBase(ms) \in [1..Len(ByBase(ms)) -> Entries]
    BY <1>2
  <1>5. ByBase(ms) = [i \in 1..Len(ByBase(ms)) |-> ByBase(ms)[i]]
    BY <1>4
  <1>6. [i \in 1..Len(ByBase(ms)) |-> ByBase(ms)[i]] \in Seq(Module)
    BY <1>3, IsASeq
  <1> QED BY <1>2, <1>5, <1>6

LEMMA TypeStep ==
  ASSUME TypeOK, TraceInv, ReaderInv, [Next]_vars
  PROVE  TypeOK'
  <1> USE DEF TypeOK, Steps
  <1>0. Len(file) \in Nat
    OBVIOUS
  <1>1. CASE WriteHeader \/ WriteModule \/ WriteEvent \/ WriteFrame
    BY <1>1, WriteStep
  <1>2. CASE WriteEnd
    BY <1>2, EndsStep
  <1>3. CASE ReadHeader
    BY <1>3 DEF ReadHeader, trace
  <1>4. CASE ReadModule
    <2>1. pos \in 1..Len(file) /\ Text(pos).tag = "M"
      BY <1>4 DEF ReadModule, IsTag, AtEnd
    <2>2. Modules[Text(pos).num] \in Module
      BY <2>1, TextTypes DEF Module
    <2>3. modules' \in Seq(Module)
      BY <1>4, <2>2 DEF ReadModule
    <2> QED BY <1>4, <2>3 DEF ReadModule, trace
  <1>5. CASE ReadEvent
    <2>1. pos \in 1..Len(file) /\ Text(pos).tag = "E"
      BY <1>5 DEF ReadEvent, IsTag, AtEnd
    <2>2. Text(pos).event \in 1..NumEvents /\ Text(pos).num \in Nat
      BY <2>1, TextTypes, Bounds
    <2>3. [id |-> Text(pos).event, says |-> Says(Text(pos)), bt |-> <<>>] \in Events
      <3>1. Says(Text(pos)) \in {"written", "zero", "other"}
        BY DEF Says
      <3> QED BY <2>2, <3>1 DEF Events
    <2>4. events' \in Seq(Events)
      BY <1>5, <2>3 DEF ReadEvent
    <2> QED BY <1>5, <2>2, <2>4 DEF ReadEvent, trace
  <1>6. CASE SkipLine
    BY <1>6 DEF SkipLine, trace
  <1>7. CASE ReadFrame
    <2>1. events # <<>>
      BY <1>7 DEF ReadFrame, ReaderInv, ReadingInv, Reading
    <2>2. events' \in Seq(Events)
      BY <1>7, <2>1, FrameRead
    <2>3. need' \in Nat
      BY <1>7 DEF ReadFrame, FramesAfter
    <2> QED BY <1>7, <2>2, <2>3 DEF ReadFrame, trace
  <1>8. CASE EventDone
    BY <1>8 DEF EventDone, trace
  <1>9. CASE ReadEnd
    <2>1. modules' \in Seq(Module)
      BY <1>9, RangeTypes DEF ReadEnd
    <2> QED BY <1>9, <2>1 DEF ReadEnd, trace
  <1>10. CASE \E m \in todo : SymbolizeModule(m)
    BY <1>10 DEF SymbolizeModule, trace
  <1>11. CASE Symbolized
    BY <1>11 DEF Symbolized, trace
  <1>12. CASE Finished \/ UNCHANGED vars
    BY <1>12 DEF Finished, vars
  <1> QED BY <1>1, <1>2, <1>3, <1>4, <1>5, <1>6, <1>7, <1>8, <1>9, <1>10, <1>11, <1>12 DEF Next
-----------------------------------------------------------------------------
(* Where the lines of an event are.                                        *)

LEMMA OneStart ==
  ASSUME TypeOK, TraceInv, NEW d \in 1..Len(written), NEW e \in 1..Len(written), NEW k,
         Starts(d, k), Starts(e, k)
  PROVE  d = e
  <1>1. ASSUME NEW a \in 1..Len(written), NEW b \in 1..Len(written), Starts(a, k), Starts(b, k), a < b
        PROVE  FALSE
    <2>1. Earlier(LineOf(a), LineOf(b))
      BY <1>1 DEF OrderInv, TraceInv, Starts, IsEvent
    <2> QED BY <1>1, <2>1 DEF Earlier, Starts
  <1>2. ~(d < e) /\ ~(e < d)
    BY <1>1
  <1> QED BY <1>2, LineIs

LEMMA FrameOf ==
  ASSUME TypeOK, TraceInv, NEW i \in 1..Len(written), LineOf(i).tag = "F",
         NEW e \in 1..Len(written), Starts(e, LineOf(i).event)
  PROVE  /\ i = e + LineOf(i).num /\ LineOf(i).num <= LineOf(e).num /\ e < i
  <1> PICK m \in 1..MaxFrames : m = LineOf(i).num
    BY DEF KindInv, TraceInv
  <1> PICK d \in Int : d = i - m
    BY Bounds
  <1>1. d \in 1..Len(written) /\ Starts(d, LineOf(i).event) /\ m <= LineOf(d).num
    BY DEF OwnerInv, TraceInv
  <1>2. d = e
    BY <1>1, OneStart
  <1>3. m \in Nat /\ m >= 1
    BY Bounds
  <1> QED BY <1>1, <1>2, <1>3

LEMMA LaterEvent ==
  ASSUME TypeOK, TraceInv, NEW i \in 1..Len(written), NEW j \in 1..Len(written), i < j,
         IsEvent(LineOf(i))
  PROVE  /\ IsEvent(LineOf(j)) /\ LineOf(i).event <= LineOf(j).event
         /\ LineOf(j).tag = "E" => LineOf(i).event < LineOf(j).event
         /\ LineOf(i).event = LineOf(j).event /\ LineOf(i).tag = "F" =>
              LineOf(j).tag = "F" /\ LineOf(i).num < LineOf(j).num
  <1>1. /\ LineOf(i).event \in Nat /\ LineOf(j).event \in Nat
        /\ Len(written) \in Nat
    BY LineIs
  <1>2. IsEvent(LineOf(j))
    <2>1. i > Len(Modules) + 1 /\ Len(Modules) \in Nat
      BY ModuleIs DEF KindInv, TraceInv
    <2>2. j > Len(Modules) + 1
      BY <2>1
    <2> QED BY <2>2 DEF KindInv, TraceInv
  <1>3. Earlier(LineOf(i), LineOf(j))
    BY <1>2 DEF OrderInv, TraceInv
  <1> QED BY <1>1, <1>2, <1>3 DEF Earlier

LEMMA FileIs ==
  ASSUME TypeOK, TraceInv
  PROVE  /\ Len(file) \in Nat
         /\ \A p \in 1..Len(file) : file[p] \in 1..Len(written) /\ file[p] \in Nat
         /\ \A p, q \in 1..Len(file) : p < q <=> file[p] < file[q]
  <1>1. Len(file) \in Nat /\ Len(written) \in Nat
    BY LineIs DEF TypeOK
  <1>2. \A p \in 1..Len(file) : file[p] \in 1..Len(written) /\ file[p] \in Nat
    BY <1>1 DEF FileInv, TraceInv
  <1>3. \A p, q \in 1..Len(file) : p < q => file[p] < file[q]
    BY DEF FileInv, TraceInv
  <1>4. ASSUME NEW p \in 1..Len(file), NEW q \in 1..Len(file), file[p] < file[q] PROVE p < q
    <2>1. ~(q < p) /\ q # p
      BY <1>2, <1>3, <1>4
    <2> QED BY <1>1, <2>1
  <1> QED BY <1>1, <1>2, <1>3, <1>4

\* A line that is not missing stands in the file between those around it.
LEMMA InBetween ==
  ASSUME TypeOK, TraceInv, NEW p \in 1..Len(file), NEW q \in 1..Len(file),
         NEW i \in 1..Len(written), file[p] < i, i < file[q], written[i].fate # "missing"
  PROVE  \E r \in 1..Len(file) : p < r /\ r < q /\ file[r] = i
  <1> PICK r \in 1..Len(file) : file[r] = i
    BY DEF FileInv, TraceInv
  <1> QED BY FileIs

\* The E line of the event being read.
LEMMA ReadingIs ==
  ASSUME TypeOK, TraceInv, NEW q \in 1..Len(file), Reading(q)
  PROVE  LET e == file[q]  j == Len(events) IN
         /\ e \in 1..Len(written) /\ j \in 1..j /\ LineOf(e).tag = "E"
         /\ LineOf(e).event = events[j].id /\ events[j].id \in 1..NumEvents /\ LineOf(e).num \in Nat
         /\ pos - 1 \in 1..Len(file) /\ q <= pos - 1 /\ q \in Nat
  <1>1. file[q] \in 1..Len(written) /\ Len(file) \in Nat
    BY FileIs
  <1>2. LineOf(file[q]).num \in Nat
    BY <1>1, LineIs
  <1>3. events # <<>> /\ Len(events) \in Nat /\ events \in Seq(Events)
    BY EventTypes DEF Reading, Begun, TypeOK
  <1>4. Len(events) \in 1..Len(events)
    BY <1>3
  <1>5. pos \in Nat \ {0} /\ q < pos /\ pos <= Len(file) + 1
    BY DEF TypeOK, Reading, Begun
  <1>6. pos - 1 \in 1..Len(file) /\ q <= pos - 1
    BY <1>1, <1>5
  <1> QED BY SMTT(30), <1>1, <1>2, <1>4, <1>6, EventTypes DEF Reading, Begun, Starts

\* An E line written since is gone.
LEMMA StartLost ==
  ASSUME TypeOK, TraceInv, NEW q \in 1..Len(file), Reading(q), pos \in 1..Len(file),
         NEW h \in 1..Len(written), file[q] < h, h < file[pos], LineOf(h).tag = "E"
  PROVE  written[h].fate = "missing"
  <1> SUFFICES ASSUME written[h].fate # "missing" PROVE FALSE
    OBVIOUS
  <1>1. PICK r \in 1..Len(file) : q < r /\ r < pos /\ file[r] = h
    BY InBetween
  <1>2. r \in (q + 1)..(pos - 1)
    BY <1>1, ReadingIs DEF TypeOK
  <1>3. Text(r).tag = "F"
    BY <1>2 DEF Reading, Begun
  <1>4. Shows(r)
    BY TextShows
  <1> QED BY <1>1, <1>3, <1>4 DEF Shows

\* The next frame is one of this event, or nothing is left of the E lines between.
LEMMA FrameFits ==
  ASSUME TypeOK, TraceInv, NEW q \in 1..Len(file), Reading(q), pos \in 1..Len(file),
         Text(pos).tag = "F", NEW k, k = events[Len(events)].id
  PROVE  /\ Text(pos).event >= k /\ MayBeOf(Frame(Text(pos)), k)
         /\ Text(pos).event = LineOf(file[pos]).event /\ LineOf(file[pos]).tag = "F"
  <1> PICK e \in 1..Len(written) : e = file[q]
    BY ReadingIs
  <1> PICK i \in 1..Len(written) : i = file[pos]
    BY FileIs
  <1>1. LineOf(i).tag = "F" /\ Text(pos).event = LineOf(i).event
    BY TextShows DEF Shows
  <1>2. e < i /\ LineOf(e).tag = "E" /\ LineOf(e).event = k /\ k \in 1..NumEvents
    BY FileIs, ReadingIs DEF Reading, Begun
  <1>3. LineOf(i).event \in Nat /\ k \in Nat /\ k <= LineOf(i).event /\ Len(written) \in Nat
    BY <1>1, <1>2, LaterEvent, LineIs DEF IsEvent
  <1>4. ASSUME NEW j \in (k + 1)..(LineOf(i).event) PROVE Fared(j, "E", "missing")
    <2>1. j \in 1..(LineOf(i).event) /\ k < j
      BY <1>3
    <2>2. PICK h \in 1..i : Starts(h, j)
      BY <2>1 DEF StartInv, TraceInv
    <2>3. h \in 1..Len(written) /\ h \in Nat /\ LineOf(h).tag = "E" /\ LineOf(h).event = j
      BY <1>3, <2>2 DEF Starts
    <2>4. h < i
      BY <1>1, <1>3, <2>2, <2>3
    <2>5. e < h
      <3>1. h # e
        BY <1>2, <1>3, <2>1, <2>3
      <3>2. ~(h < e)
        <4> SUFFICES ASSUME h < e PROVE FALSE
          OBVIOUS
        <4>1. LineOf(h).event < LineOf(e).event
          BY <1>2, <2>3, LaterEvent DEF IsEvent
        <4> QED BY <1>2, <1>3, <2>1, <2>3, <4>1
      <3> QED BY <1>3, <2>3, <3>1, <3>2
    <2>6. written[h].fate = "missing"
      BY <2>3, <2>4, <2>5, StartLost
    <2> QED BY <2>3, <2>6 DEF Fared, LineOf
  <1>5. MayBeOf(Frame(Text(pos)), k)
    BY <1>1, <1>4 DEF MayBeOf, Frame
  <1> QED BY <1>1, <1>3, <1>5
-----------------------------------------------------------------------------
(* What is read was written.                                               *)

LEMMA PassedMore ==
  ASSUME Reads, pos \in Nat, pos' \in Nat, pos <= pos', Len(file) \in Nat,
         NEW t, NEW k, NEW n, NEW s, Passed(t, k, n, s)
  PROVE  Passed(t, k, n, s)'
  <1>1. PICK p \in 1..Len(file) :
          p < pos /\ LineOf(file[p]) = Line(t, k, n) /\ Says(written[file[p]]) = s
    BY DEF Passed
  <1>2. written' = written /\ file' = file /\ p < pos'
    BY <1>1 DEF Reads, trace
  <1> QED BY <1>1, <1>2 DEF Passed, Line, LineOf, Says

\* The E line of an event that says s and those of the frames bt are passed.
SourcesOf(id, s, bt) ==
  /\ \E n \in 0..MaxFrames : Passed("E", id, n, s)
  /\ \A i \in 1..Len(bt) : Passed("F", bt[i][1], bt[i][2], bt[i][3])
Sources(j) == SourcesOf(events[j].id, events[j].says, events[j].bt)

LEMMA PartsOf ==
  SourceInv <=> \A j \in 1..Len(events) : Sources(j)
  BY DEF SourceInv, Sources, SourcesOf

LEMMA EventKept ==
  ASSUME Reads, pos \in Nat, pos' \in Nat, pos <= pos', Len(file) \in Nat,
         NEW j \in Nat, events'[j] = events[j], Sources(j), FramesFit(j)
  PROVE  Sources(j)' /\ FramesFit(j)'
  <1>1. written' = written
    BY DEF Reads, trace
  <1>2. FramesFit(j)'
    BY <1>1 DEF FramesFit, Fit, Ordered, MayBeOf, Fared
  <1> PICK bt \in {events[j].bt} : bt = events[j].bt
    OBVIOUS
  <1> PICK id \in {events[j].id} : id = events[j].id
    OBVIOUS
  <1> PICK s \in {events[j].says} : s = events[j].says
    OBVIOUS
  <1>3. PICK n \in 0..MaxFrames : Passed("E", id, n, s)
    BY DEF Sources, SourcesOf
  <1>4. Passed("E", id, n, s)'
    BY <1>3, PassedMore
  <1>6. \A i \in 1..Len(bt) : Passed("F", bt[i][1], bt[i][2], bt[i][3])'
    <2> TAKE i \in 1..Len(bt)
    <2> PICK k \in {bt[i][1]} : k = bt[i][1]
      OBVIOUS
    <2> PICK m \in {bt[i][2]} : m = bt[i][2]
      OBVIOUS
    <2> PICK w \in {bt[i][3]} : w = bt[i][3]
      OBVIOUS
    <2>1. Passed("F", k, m, w)
      BY DEF Sources, SourcesOf
    <2>2. Passed("F", k, m, w)'
      BY <2>1, PassedMore
    <2> QED BY <2>2
  <1>7. events'[j].bt = bt /\ events'[j].id = id /\ events'[j].says = s
    OBVIOUS
  <1>8. SourcesOf(id, s, bt)'
    BY <1>4, <1>6 DEF SourcesOf
  <1>9. Sources(j)'
    BY <1>7, <1>8 DEF Sources
  <1> QED BY <1>2, <1>9

LEMMA NoNewEvents ==
  ASSUME TypeOK, TypeOK', Reads, pos <= pos', events' = events, SourceInv, FitInv
  PROVE  SourceInv' /\ FitInv'
  <1>1. /\ pos \in Nat /\ pos' \in Nat /\ Len(file) \in Nat
        /\ \A j \in 1..Len(events) : j \in Nat
    BY DEF TypeOK
  <1>2. \A j \in 1..Len(events) : Sources(j) /\ FramesFit(j)
    BY PartsOf DEF FitInv
  <1>3. \A j \in 1..Len(events) : Sources(j)' /\ FramesFit(j)'
    BY <1>1, <1>2, EventKept
  <1>4. SourceInv'
    BY <1>3 DEF SourceInv, Sources, SourcesOf
  <1>5. FitInv'
    BY <1>3 DEF FitInv
  <1> QED BY <1>4, <1>5

LEMMA EventRead ==
  ASSUME TypeOK, TypeOK', TraceInv, ReaderInv, ReadEvent
  PROVE  SourceInv' /\ FitInv'
  <1> PICK n \in Nat : n = Len(events)
    BY EventTypes
  <1>0. pos \in 1..Len(file) /\ Text(pos).tag = "E"
    BY DEF ReadEvent, IsTag, AtEnd, TypeOK
  <1> PICK k \in 1..NumEvents : k = Text(pos).event
    BY <1>0, TextTypes
  <1> PICK e \in 1..Len(written) : e = file[pos]
    BY <1>0, FileIs
  <1> PICK w \in {Says(Text(pos))} : w = Says(Text(pos))
    OBVIOUS
  <1>1. /\ pos \in 1..Len(file) /\ Text(pos).tag = "E" /\ pos' = pos + 1 /\ Reads
        /\ events' = Append(events, [id |-> k, says |-> w, bt |-> <<>>])
    BY DEF ReadEvent, IsTag, AtEnd, TypeOK, Reads
  <1>2. /\ Says(written[e]) = w /\ LineOf(e).tag = "E" /\ LineOf(e).event = k
        /\ LineOf(e).num \in 0..MaxFrames
    BY <1>1, TextTypes, TextShows DEF Shows
  <1>3. /\ Len(events') = n + 1 /\ events'[n + 1] = [id |-> k, says |-> w, bt |-> <<>>]
        /\ \A j \in 1..n : events'[j] = events[j]
    BY <1>1 DEF TypeOK
  <1>4. pos \in Nat /\ pos' \in Nat /\ pos < pos' /\ Len(file) \in Nat
        /\ \A j \in 1..n : j \in Nat
    BY <1>1 DEF TypeOK
  <1>5. /\ \A j \in 1..n : Sources(j) /\ FramesFit(j)
        /\ \A i, j \in 1..n : i < j => events[i].id < events[j].id
    BY PartsOf DEF ReaderInv, FitInv
  <1>6. \A j \in 1..n : Sources(j)' /\ FramesFit(j)'
    BY <1>1, <1>3, <1>4, <1>5, EventKept
  <1>7. Sources(n + 1)' /\ FramesFit(n + 1)'
    <2> PICK num \in 0..MaxFrames : num = LineOf(e).num
      BY <1>2
    <2>1. LineOf(e) = Line("E", k, num)
      BY <1>2, LineIs DEF Lines, Line
    <2>3. written' = written /\ file' = file
      BY <1>1 DEF Reads, trace
    <2>4. Passed("E", k, num, w)'
      BY <1>1, <1>2, <1>4, <2>1, <2>3 DEF Passed, Line, LineOf, Says
    <2>5. events'[n + 1].id = k /\ events'[n + 1].says = w /\ events'[n + 1].bt = <<>> /\ Len(<<>>) = 0
      BY <1>3
    <2>6. SourcesOf(k, w, <<>>)'
      BY <2>4 DEF SourcesOf
    <2>7. Fit(k, <<>>)' /\ Ordered(<<>>)
      BY DEF Fit, Ordered
    <2>8. Sources(n + 1)' /\ FramesFit(n + 1)'
      BY <2>5, <2>6, <2>7 DEF Sources, FramesFit
    <2> QED BY <2>8
  <1>8. \A j \in 1..n : events[j].id < k
    <2> SUFFICES ASSUME NEW j \in 1..n PROVE events[j].id < k
      OBVIOUS
    <2> PICK id \in 1..NumEvents : id = events[j].id
      BY EventTypes
    <2>1. PICK num \in 0..MaxFrames : Passed("E", id, num, events[j].says)
      BY <1>5 DEF Sources, SourcesOf
    <2>2. PICK p \in 1..Len(file) :
            p < pos /\ LineOf(file[p]) = Line("E", id, num)
      BY <2>1 DEF Passed
    <2>3. /\ file[p] \in 1..Len(written) /\ file[p] < e
          /\ LineOf(file[p]).tag = "E" /\ LineOf(file[p]).event = id
      BY SMTT(30), <1>1, <2>2, FileIs DEF Line
    <2> QED BY <1>2, <2>3, LaterEvent DEF IsEvent
  <1>9. \A j \in 1..(n + 1) : j \in 1..n \/ j = n + 1
    OBVIOUS
  <1>10. SourceInv'
    BY <1>3, <1>6, <1>7, <1>9 DEF SourceInv, Sources, SourcesOf
  <1>11. \A i, j \in 1..(n + 1) : i < j => events'[i].id < events'[j].id
    <2> SUFFICES ASSUME NEW i \in 1..(n + 1), NEW j \in 1..(n + 1), i < j
                 PROVE events'[i].id < events'[j].id
      OBVIOUS
    <2>1. i \in 1..n
      OBVIOUS
    <2> QED BY <1>3, <1>5, <1>8, <1>9, <2>1
  <1>12. \A j \in 1..(n + 1) : FramesFit(j)'
    BY <1>6, <1>7, <1>9
  <1>13. FitInv'
    BY <1>3, <1>11, <1>12 DEF FitInv
  <1> QED BY <1>10, <1>13

LEMMA OrderedMore ==
  ASSUME NEW bt \in Seq(Frames), Ordered(bt), NEW f \in Frames,
         \A h \in 1..Len(bt) : bt[h][1] = f[1] => bt[h][2] < f[2]
  PROVE  Ordered(Append(bt, f))
  <1> PICK m \in Nat : m = Len(bt)
    OBVIOUS
  <1> DEFINE s == Append(bt, f)
  <1>1. /\ Len(s) = m + 1 /\ s[m + 1] = f
        /\ \A h \in 1..m : s[h] = bt[h]
        /\ \A h \in 1..(m + 1) : h \in 1..m \/ h = m + 1
    OBVIOUS
  <1> HIDE DEF s
  <1>2. ASSUME NEW g \in 1..(m + 1), NEW h \in 1..(m + 1), g < h, s[g][1] = s[h][1]
        PROVE  s[g][2] < s[h][2]
    <2>1. g \in 1..m
      BY <1>2
    <2>2. CASE h \in 1..m
      BY <1>1, <1>2, <2>1, <2>2 DEF Ordered
    <2>3. CASE h = m + 1
      <3>1. s[g] = bt[g] /\ s[h] = f
        BY <1>1, <2>1, <2>3
      <3>2. bt[g][1] = f[1]
        BY <1>2, <3>1
      <3> QED BY <2>1, <3>1, <3>2
    <2> QED BY <1>1, <2>2, <2>3
  <1>3. Ordered(s)
    BY <1>1, <1>2 DEF Ordered
  <1> QED BY <1>3 DEF s

LEMMA FrameReadRight ==
  ASSUME TypeOK, TypeOK', TraceInv, ReaderInv, ReadFrame
  PROVE  SourceInv' /\ FitInv'
  <1>1. PICK q \in 1..Len(file) : Reading(q)
    BY DEF ReaderInv, ReadingInv, ReadFrame
  <1> PICK k \in Nat : k = Len(events)
    BY EventTypes
  <1>2. /\ events # <<>> /\ Reads /\ pos' = pos + 1
    BY <1>1 DEF Reading, Begun, Reads, ReadFrame
  <1>3. /\ Len(events') = k /\ k \in 1..k
        /\ \A j \in 1..k : events'[j].id = events[j].id /\ events'[j].says = events[j].says
        /\ \A j \in 1..k : j # k => events'[j] = events[j]
        /\ events'[k].bt = IF Text(pos).fate = "unreadable" THEN events[k].bt
                            ELSE Append(events[k].bt, Frame(Text(pos)))
        /\ pos \in 1..Len(file) /\ Text(pos).tag = "F"
    BY <1>2, FrameRead
  <1>4. pos \in Nat /\ pos' \in Nat /\ pos < pos' /\ Len(file) \in Nat
        /\ \A j \in 1..k : j \in Nat
    BY <1>2 DEF TypeOK
  <1>5. /\ \A j \in 1..k : Sources(j) /\ FramesFit(j)
        /\ \A i, j \in 1..k : i < j => events[i].id < events[j].id
    BY PartsOf DEF ReaderInv, FitInv
  <1>6. CASE Text(pos).fate = "unreadable"
    <2>1. events' = events
      BY <1>6 DEF ReadFrame
    <2> QED BY <1>2, <1>4, <2>1, NoNewEvents DEF ReaderInv
  <1>7. CASE Text(pos).fate # "unreadable"
    <2> PICK f \in Frames : f = Frame(Text(pos))
      BY <1>3, <1>7, FrameIs
    <2> PICK i \in 1..Len(written) : i = file[pos]
      BY <1>3, FileIs
    <2> PICK id \in 1..NumEvents : id = events[k].id
      BY <1>3, EventTypes
    <2> PICK bt \in Seq(Frames) : bt = events[k].bt
      BY <1>3, EventTypes
    <2> PICK m \in Nat : m = Len(bt)
      OBVIOUS
    <2>1. LineOf(i) = Line("F", f[1], f[2]) /\ f[3] = Says(written[i])
      BY <1>3, FrameIs
    <2>2. /\ LineOf(i).tag = "F" /\ f[1] = LineOf(i).event /\ f[2] = LineOf(i).num
          /\ f[1] \in Nat /\ f[2] \in Nat
      BY <2>1, LineFields, LineIs
    <2>3. f[1] >= id /\ MayBeOf(f, id)
      BY <1>1, <1>3, <2>2, FrameFits DEF Frame
    <2>4. \A h \in 1..m : bt[h][1] = f[1] => bt[h][2] < f[2]
      <3> SUFFICES ASSUME NEW h \in 1..m, bt[h][1] = f[1] PROVE bt[h][2] < f[2]
        OBVIOUS
      <3> PICK c \in {bt[h][1]} : c = bt[h][1]
        OBVIOUS
      <3> PICK d \in {bt[h][2]} : d = bt[h][2]
        OBVIOUS
      <3>1. Passed("F", c, d, bt[h][3])
        BY <1>3, <1>5 DEF Sources, SourcesOf
      <3>2. PICK p \in 1..Len(file) :
              p < pos /\ LineOf(file[p]) = Line("F", c, d)
        BY <3>1 DEF Passed
      <3>a. file[p] \in 1..Len(written) /\ file[p] < i
        BY <1>3, <3>2, FileIs
      <3> PICK x \in 1..Len(written) : x = file[p]
        BY <3>a
      <3>b. LineOf(x) = Line("F", c, d)
        BY <3>2
      <3>3. /\ x < i /\ LineOf(x).tag = "F" /\ LineOf(x).event = c /\ LineOf(x).num = d
        BY <3>a, <3>b, LineFields
      <3> QED BY <2>1, <2>2, <3>3, LaterEvent DEF IsEvent
    <2>5. PICK s \in Seq(Frames) : s = Append(bt, f)
      BY AppendProperties
    <2> PICK w \in {events[k].says} : w = events[k].says
      OBVIOUS
    <2>6. events'[k].bt = s /\ events'[k].id = id /\ events'[k].says = w
      BY <1>3, <1>7, <2>5
    <2>7. /\ Len(s) = m + 1 /\ s[m + 1] = f
          /\ \A h \in 1..m : s[h] = bt[h]
          /\ \A h \in 1..(m + 1) : h \in 1..m \/ h = m + 1
      <3>1. /\ Len(s) = Len(bt) + 1 /\ s[Len(bt) + 1] = f
            /\ \A h \in 1..Len(bt) : s[h] = bt[h]
        BY ONLY <2>5, bt \in Seq(Frames), f \in Frames, AppendProperties
      <3>2. \A h \in 1..(m + 1) : h \in 1..m \/ h = m + 1
        BY ONLY m \in Nat
      <3> QED BY ONLY <3>1, <3>2, m = Len(bt)
    <2>8. written' = written /\ file' = file
      BY <1>2 DEF Reads, trace
    <2>9. FramesFit(k)'
      <3>1. Fit(id, bt) /\ Ordered(bt)
        BY <1>3, <1>5 DEF FramesFit
      <3>2. Ordered(s)
        BY <2>4, <2>5, <3>1, OrderedMore
      <3>3. Fit(id, s)
        BY <2>3, <2>7, <3>1 DEF Fit
      <3>4. Fit(id, s)'
        BY <2>8, <3>3 DEF Fit, MayBeOf, Fared
      <3> QED BY <2>6, <3>2, <3>4 DEF FramesFit
    <2>10. Sources(k)'
      <3>1. PICK n \in 0..MaxFrames : Passed("E", id, n, w)
        BY <1>3, <1>5 DEF Sources, SourcesOf
      <3>2. Passed("E", id, n, w)'
        BY <1>2, <1>4, <3>1, PassedMore
      <3>3. \A h \in 1..m : Passed("F", bt[h][1], bt[h][2], bt[h][3])'
        <4> TAKE h \in 1..m
        <4> PICK c \in {bt[h][1]} : c = bt[h][1]
          OBVIOUS
        <4> PICK d \in {bt[h][2]} : d = bt[h][2]
          OBVIOUS
        <4> PICK v \in {bt[h][3]} : v = bt[h][3]
          OBVIOUS
        <4>1. Passed("F", c, d, v)
          BY <1>3, <1>5 DEF Sources, SourcesOf
        <4> QED BY <1>2, <1>4, <4>1, PassedMore
      <3>4. Passed("F", f[1], f[2], f[3])'
        BY <1>3, <1>4, <2>1, <2>8 DEF Passed, Line, LineOf, Says
      <3>5. \A h \in 1..(m + 1) : Passed("F", s[h][1], s[h][2], s[h][3])'
        BY <2>7, <3>3, <3>4
      <3>6. SourcesOf(id, w, s)'
        BY <2>7, <3>2, <3>5 DEF SourcesOf
      <3> QED BY <2>6, <3>6 DEF Sources
    <2>11. \A j \in 1..k : j # k => Sources(j)' /\ FramesFit(j)'
      BY <1>2, <1>3, <1>4, <1>5, EventKept
    <2>12. SourceInv'
      BY <1>3, <2>10, <2>11 DEF SourceInv, Sources, SourcesOf
    <2>13. FitInv'
      <3>1. \A j \in 1..k : FramesFit(j)'
        BY <2>9, <2>11
      <3> QED BY <1>3, <1>5, <3>1 DEF FitInv
    <2> QED BY <2>12, <2>13
  <1> QED BY <1>6, <1>7
-----------------------------------------------------------------------------
(* The event being read.                                                   *)

LEMMA Same ==
  ASSUME Reads
  PROVE  /\ written' = written /\ file' = file
         /\ \A i : LineOf(i)' = LineOf(i)
         /\ \A p : Text(p)' = Text(p)
         /\ \A i, k : Starts(i, k)' <=> Starts(i, k)
         /\ \A k, tag, fate : Fared(k, tag, fate)' <=> Fared(k, tag, fate)
         /\ \A k : Excused(k)' <=> Excused(k)
         /\ Intact' = Intact
  <1>1. written' = written /\ file' = file
    BY DEF Reads, trace
  <1>2. \A i : LineOf(i)' = LineOf(i)
    BY <1>1 DEF LineOf
  <1>3. \A p : Text(p)' = Text(p)
    BY <1>1 DEF Text, Seen
  <1>4. \A i, k : Starts(i, k)' <=> Starts(i, k)
    BY <1>2 DEF Starts
  <1>5. \A k, tag, fate : Fared(k, tag, fate)' <=> Fared(k, tag, fate)
    BY <1>1 DEF Fared
  <1>6. \A k : Excused(k)' <=> Excused(k)
    BY <1>1 DEF Excused, Fared
  <1>7. Intact' = Intact
    BY <1>1 DEF Intact
  <1> QED BY <1>1, <1>2, <1>3, <1>4, <1>5, <1>6, <1>7

\* While frames are expected, the next line is the next frame, or a frame is missing.
LEMMA NextFrame ==
  ASSUME TypeOK, TraceInv, NEW q \in 1..Len(file), Reading(q), need > 0, pos \in 1..Len(file),
         NEW e \in 1..Len(written), e = file[q]
  PROVE  \/ Fared(LineOf(e).event, "F", "missing") \/ Fared(LineOf(e).event, "E", "altered")
         \/ /\ file[pos] = e + (LineOf(e).num - need) + 1
            /\ LineOf(file[pos]).tag = "F"
  <1> PICK n \in Nat : n = LineOf(e).num
    BY LineIs
  <1> PICK i \in 1..Len(written) : i = file[pos]
    BY FileIs
  <1> PICK b \in 1..Len(written) : b = file[pos - 1]
    BY ReadingIs, FileIs
  <1>1. /\ LineOf(e).tag = "E" /\ q <= pos - 1 /\ pos - 1 \in 1..Len(file)
        /\ Len(written) \in Nat /\ need \in Nat
    BY ReadingIs, LineIs DEF TypeOK
  <1>2. b < i /\ e <= b
    <2>1. b < i
      BY <1>1, FileIs
    <2>2. q < pos - 1 => e < b
      BY <1>1, FileIs
    <2>3. q = pos - 1 => e = b
      OBVIOUS
    <2>4. q < pos - 1 \/ q = pos - 1
      BY <1>1
    <2> QED BY <2>1, <2>2, <2>3, <2>4
  <1>3. SUFFICES ASSUME ~Fared(LineOf(e).event, "F", "missing"),
                        ~Fared(LineOf(e).event, "E", "altered")
                 PROVE  i = e + (n - need) + 1 /\ LineOf(i).tag = "F"
    OBVIOUS
  <1>a. written[e].num = n
    BY <1>3, TextTypes DEF Reading, Begun, Fared, LineOf
  <1>4. b = e + (n - need)
    BY <1>3, <1>a DEF Reading, Begun, Starts
  <1> PICK c \in 1..Len(written) : c = b + 1
    BY <1>1, <1>2
  <1>5. e < c /\ c <= e + n /\ c <= i
    BY SMTT(30), <1>1, <1>2, <1>4
  <1>6. LineOf(c) = Line("F", LineOf(e).event, c - e) /\ LineOf(c).tag = "F"
    BY <1>1, <1>5, InBody
  <1>7. LineOf(c).event = LineOf(e).event
    BY <1>6, LineFields
  <1>8. c = i
    <2> SUFFICES ASSUME c < i PROVE FALSE
      BY <1>5
    <2>1. written[c].fate # "missing"
      BY <1>3, <1>6, <1>7 DEF Fared, LineOf
    <2>2. b < c
      BY <1>1
    <2>3. PICK r \in 1..Len(file) : pos - 1 < r /\ r < pos
      BY ZenonT(30), <1>1, <2>1, <2>2, InBetween
    <2> QED BY <1>1, <2>3 DEF TypeOK
  <1> QED BY <1>4, <1>6, <1>8

LEMMA BegunSame ==
  ASSUME Reads, NEW q, NEW x, NEW m, NEW k, Begun(q, x, m, k)
  PROVE  Begun(q, x, m, k)'
  <1>1. /\ written' = written /\ file' = file
        /\ \A i : LineOf(i)' = LineOf(i)
        /\ \A p : Text(p)' = Text(p)
    BY Same
  <1>2. Starts(file[q], k)' <=> Starts(file[q], k)
    BY <1>1 DEF Starts
  <1>3. /\ Fared(k, "F", "missing")' <=> Fared(k, "F", "missing")
        /\ Fared(k, "E", "altered")' <=> Fared(k, "E", "altered")
    BY Same
  <1> QED BY <1>1, <1>2, <1>3 DEF Begun

LEMMA BegunIs ==
  ASSUME TypeOK, NEW q \in 1..Len(file), NEW x \in 1..Len(file), q <= x,
         NEW e, e = file[q], NEW n, n = written[e].num, NEW k, NEW m,
         Starts(e, k), Text(q).tag = "E", m = n - (x - q),
         \A p \in (q + 1)..x : Text(p).tag = "F",
         file[x] >= e + (n - m), 
         Fared(k, "F", "missing") \/ Fared(k, "E", "altered") \/ file[x] = e + (n - m)
  PROVE  Begun(q, x + 1, m, k)
  <1>1. Len(file) \in Nat
    BY DEF TypeOK
  <1> PICK y \in Nat : y = x + 1
    BY <1>1
  <1>2. y - 1 = x /\ q < y /\ y <= Len(file) + 1
    BY <1>1
  <1>3. Begun(q, y, m, k)
    BY <1>2 DEF Begun
  <1> QED BY <1>3

LEMMA ReadingStep ==
  ASSUME TypeOK, TypeOK', TraceInv, ReaderInv, ReadEvent \/ ReadFrame
  PROVE  ReadingInv'
  <1>0. pos \in 1..Len(file) /\ pos' = pos + 1 /\ Reads
    BY DEF ReadEvent, ReadFrame, IsFrame, IsTag, AtEnd, TypeOK, Reads
  <1> PICK x \in 1..Len(file) : x = pos
    BY <1>0
  <1> PICK m \in Nat : m = need'
    BY DEF TypeOK
  <1> PICK i \in 1..Len(written) : i = file[x]
    BY FileIs
  <1>1. /\ Len(file) \in Nat /\ x \in Nat /\ need \in Nat /\ x + 1 = pos' /\ x + 1 - 1 = x
        /\ \A y \in 1..Len(written) : y \in Nat
    BY <1>0, FileIs, LineIs DEF TypeOK
  <1>2. CASE ReadEvent
    <2> PICK k \in Nat : k = Len(events)
      BY EventTypes
    <2> PICK id \in {Text(x).event} : id = Text(x).event
      OBVIOUS
    <2> PICK w \in {Says(Text(x))} : w = Says(Text(x))
      OBVIOUS
    <2>1. Text(x).tag = "E" /\ m = Text(x).num
          /\ events' = Append(events, [id |-> id, says |-> w, bt |-> <<>>])
      BY <1>2 DEF ReadEvent, IsTag
    <2>2. LineOf(i).tag = "E" /\ LineOf(i).event = id /\ written[i].num = m
      BY <2>1, TextTypes
    <2>3. i \in Nat /\ m = m - (x - x) /\ i = i + (m - m) /\ i >= i + (m - m)
      <3>1. i \in Nat /\ x \in Nat
        BY <1>1
      <3> QED BY ONLY <3>1, m \in Nat
    <2>4. events' # <<>> /\ events'[Len(events')].id = id
      <3>1. Len(events') = k + 1 /\ events'[k + 1] = [id |-> id, says |-> w, bt |-> <<>>] /\ k + 1 \in 1..(k + 1)
        BY <2>1 DEF TypeOK
      <3> QED BY <3>1
    <2>5. Begun(x, x + 1, m, id)
      <3>1. x <= x /\ \A p \in (x + 1)..x : FALSE
        BY <1>1
      <3>2. Starts(i, id)
        BY <2>2 DEF Starts
      <3> QED BY <2>1, <2>2, <2>3, <3>1, <3>2, BegunIs
    <2>6. Begun(x, x + 1, m, id)'
      BY <1>0, <2>5, BegunSame
    <2>7. Reading(x)'
      BY <1>1, <2>4, <2>6 DEF Reading
    <2> QED BY <1>0, <2>7, Same DEF ReadingInv
  <1>3. CASE ReadFrame
    <2>1. PICK q \in 1..Len(file) : Reading(q)
      BY <1>3 DEF ReaderInv, ReadingInv, ReadFrame
    <2> PICK e \in 1..Len(written) : e = file[q]
      BY FileIs
    <2> PICK n \in Nat : n = written[e].num
      BY LineIs
    <2> PICK k \in Nat : k = Len(events)
      BY EventTypes
    <2> PICK id \in {events[k].id} : id = events[k].id
      OBVIOUS
    <2> PICK b \in 1..Len(written) : b = file[x - 1]
      BY <2>1, ReadingIs, FileIs
    <2> PICK c \in Nat : c = need
      BY DEF TypeOK
    <2>2. /\ q < x /\ Starts(e, id) /\ Text(q).tag = "E"
          /\ c = n - (x - 1 - q)
          /\ \A p \in (q + 1)..(x - 1) : Text(p).tag = "F"
          /\ b >= e + (n - c)
      BY <2>1 DEF Reading, Begun
    <2>3. m = c - 1 /\ c > 0 /\ Text(x).tag = "F"
      BY <1>3 DEF ReadFrame, FramesAfter, IsFrame, IsTag
    <2>4. events' # <<>> /\ events'[Len(events')].id = id
      <3>1. Len(events') = k /\ k \in 1..k /\ events'[k].id = events[k].id
        BY <1>3, <2>1, FrameRead DEF Reading
      <3> QED BY <3>1
    <2>5. q \in Nat
      BY FileIs
    <2>6. \A p \in (q + 1)..x : Text(p).tag = "F"
      <3>1. \A p \in (q + 1)..x : p = x \/ p \in (q + 1)..(x - 1)
        BY <1>1, <2>5
      <3> QED BY <2>2, <2>3, <3>1
    <2>7. e \in Nat /\ b \in Nat /\ i \in Nat
      BY <1>1
    <2>8. m = n - (x - q) /\ q <= x
      <3>1. m = c - 1 /\ c = n - (x - 1 - q) /\ x \in Nat /\ q \in Nat
        BY <1>1, <2>2, <2>3, <2>5
      <3>2. m = n - (x - q)
        BY ONLY <3>1, n \in Nat, c \in Nat, m \in Nat
      <3>3. q <= x
        BY <1>1, <2>2, <2>5
      <3> QED BY <3>2, <3>3
    <2>9. i >= e + (n - m)
      <3>1. b < i
        <4>1. x - 1 \in 1..Len(file) /\ x - 1 < x /\ x \in 1..Len(file)
          BY <1>1, <2>1, ReadingIs
        <4>2. file[x - 1] < file[x]
          BY <4>1, FileIs
        <4> QED BY <1>1, <4>2
      <3>2. b >= e + (n - c) /\ m = c - 1
        BY <2>2, <2>3
      <3> QED BY ONLY <2>7, <3>1, <3>2, n \in Nat, c \in Nat, m \in Nat
    <2>10. Fared(id, "F", "missing") \/ Fared(id, "E", "altered") \/ i = e + (n - m)
      <3> SUFFICES ASSUME ~Fared(id, "F", "missing"), ~Fared(id, "E", "altered")
                   PROVE  i = e + (n - m)
        OBVIOUS
      <3>1. LineOf(e).event = id
        BY <2>2 DEF Starts
      <3>2. n = LineOf(e).num
        BY <2>2, <3>1, TextTypes DEF Fared, LineOf
      <3>3. i = e + (n - c) + 1
        BY <2>1, <2>3, <3>1, <3>2, NextFrame
      <3>4. e + (n - c) + 1 = e + (n - m)
        BY <2>3, <2>7
      <3> QED BY <3>3, <3>4
    <2>11. Begun(q, x + 1, m, id)
      BY <2>2, <2>6, <2>8, <2>9, <2>10, BegunIs
    <2>12. Begun(q, x + 1, m, id)'
      BY <1>0, <2>11, BegunSame
    <2>13. Reading(q)'
      BY <1>1, <2>4, <2>12 DEF Reading
    <2> QED BY <1>0, <2>13, Same DEF ReadingInv
  <1> QED BY <1>2, <1>3
-----------------------------------------------------------------------------
(* What is lost.                                                           *)

\* When the line of another event ends an event too early, that other event is lost
\* for a reason.
LEMMA EventLost ==
  ASSUME TypeOK, TraceInv, NEW q \in 1..Len(file), Reading(q), need > 0, pos \in 1..Len(file),
         Text(pos).tag = "E", NEW k, k = Text(pos).event
  PROVE  Excused(k)
  <1> PICK e \in 1..Len(written) : e = file[q]
    BY ReadingIs
  <1> PICK i \in 1..Len(written) : i = file[pos]
    BY FileIs
  <1> PICK j \in 1..NumEvents : j = LineOf(e).event
    BY ReadingIs
  <1>1. LineOf(i).tag = "E" /\ LineOf(i).event = k /\ k \in 1..NumEvents
    BY TextTypes
  <1>2. LineOf(e).tag = "E" /\ e < i
    BY FileIs, ReadingIs DEF Reading, Begun
  <1>3. j < k /\ j \in Nat /\ k \in Nat
    BY <1>1, <1>2, LaterEvent, Bounds DEF IsEvent
  <1>4. \A y \in 1..Len(written) : y \in Nat
    BY LineIs
  <1>5. CASE j = k - 1
    <2>1. Fared(j, "F", "missing") \/ Fared(j, "E", "altered")
      BY <1>1, TextTypes, NextFrame
    <2> QED BY <1>5, <2>1 DEF Excused
  <1>6. CASE j # k - 1
    <2> PICK g \in 1..k : g = k - 1 /\ j < g
      BY <1>3, <1>6
    <2>1. PICK h \in 1..i : Starts(h, g)
      BY <1>1 DEF StartInv, TraceInv
    <2>2. h \in 1..Len(written) /\ h \in Nat /\ LineOf(h).tag = "E" /\ LineOf(h).event = g
      BY <1>4, <2>1 DEF Starts
    <2>3. h < i
      BY <1>1, <1>3, <1>4, <2>1, <2>2
    <2>4. e < h
      <3>1. h # e
        BY <1>3, <2>2
      <3>2. ~(h < e)
        <4> SUFFICES ASSUME h < e PROVE FALSE
          OBVIOUS
        <4>1. LineOf(h).event < LineOf(e).event
          BY <1>2, <2>2, LaterEvent DEF IsEvent
        <4> QED BY <1>3, <2>2, <4>1
      <3> QED BY <1>4, <2>2, <3>1, <3>2
    <2>5. written[h].fate = "missing"
      BY <2>2, <2>3, <2>4, StartLost
    <2> QED BY <2>2, <2>5 DEF Excused, Fared, LineOf
  <1> QED BY <1>5, <1>6

LEMMA LossMore ==
  ASSUME TypeOK, TypeOK', TraceInv, LossInv, Reads, pos' \in {pos, pos + 1},
         \A k : IsRead(k) => IsRead(k)',
         NEW k, pos' = pos + 1 /\ pos \in 1..Len(file) /\ Text(pos).tag = "E" =>
                  k = Text(pos).event /\ (IsRead(k)' \/ Excused(k))
  PROVE  LossInv'
  <1> SUFFICES ASSUME NEW p \in 1..Len(file), p < pos', Text(p).tag = "E",
                      NEW j, j = Text(p).event
               PROVE  IsRead(j)' \/ Excused(j)
    BY Same DEF LossInv
  <1>1. pos \in Nat /\ Len(file) \in Nat
    BY DEF TypeOK
  <1>2. CASE p < pos
    BY <1>2 DEF LossInv
  <1>3. CASE p = pos
    <2>1. pos' = pos + 1
      BY <1>1, <1>3
    <2> QED BY <1>3, <2>1
  <1> QED BY <1>1, <1>2, <1>3

\* Behind the E line of an event its lines come before all others.
LEMMA OwnLines ==
  ASSUME TypeOK, TraceInv, NEW q \in 1..Len(file), Reading(q), NEW p \in 1..Len(file),
         LineOf(file[p]).tag = "F", LineOf(file[p]).event = events[Len(events)].id
  PROVE  pos <= p => /\ LineOf(file[pos]).tag = "F"
                     /\ LineOf(file[pos]).event = events[Len(events)].id
                     /\ need > 0 \/ Fared(events[Len(events)].id, "E", "altered")
  <1> PICK e \in 1..Len(written) : e = file[q]
    BY ReadingIs
  <1> PICK n \in Nat : n = LineOf(e).num
    BY LineIs
  <1> PICK h \in 1..Len(written) : h = file[p]
    BY FileIs
  <1>1. /\ LineOf(e).tag = "E" /\ LineOf(e).event = events[Len(events)].id /\ Starts(e, LineOf(h).event)
        /\ pos - 1 \in 1..Len(file) /\ pos \in Nat \ {0} /\ need \in Nat
        /\ \A y \in 1..Len(written) : y \in Nat
    BY ReadingIs, LineIs DEF Starts, TypeOK
  <1>2. h = e + LineOf(h).num /\ LineOf(h).num <= n /\ e < h /\ LineOf(h).num \in Nat
    BY <1>1, FrameOf, LineIs
  <1>3. h <= e + n
    BY <1>1, <1>2
  <1>4. ASSUME pos <= p PROVE LineOf(file[pos]).tag = "F" /\ LineOf(file[pos]).event = LineOf(e).event
    <2>1. pos \in 1..Len(file) /\ pos \in Nat /\ q < pos
      BY <1>1, <1>4, FileIs DEF Reading, Begun
    <2> PICK i \in 1..Len(written) : i = file[pos]
      BY <2>1, FileIs
    <2>2. e < i
      BY <2>1, FileIs
    <2>3. i <= h
      <3>1. pos < p => i < h
        BY <2>1, FileIs
      <3>2. pos = p => i = h
        OBVIOUS
      <3>3. pos < p \/ pos = p
        BY <1>4, <2>1, FileIs
      <3> QED BY <1>1, <3>1, <3>2, <3>3
    <2>4. i <= e + n
      BY <1>1, <1>3, <2>3
    <2>5. LineOf(i).tag = "F" /\ LineOf(i) = Line("F", LineOf(e).event, i - e)
      BY <1>1, <2>2, <2>4, InBody
    <2> QED BY <2>5, LineFields
  <1>5. ASSUME pos <= p, ~Fared(events[Len(events)].id, "E", "altered") PROVE need > 0
    <2> SUFFICES ASSUME need = 0 PROVE FALSE
      BY <1>1
    <2>0. written[e].num = n
      BY <1>1, <1>5, TextTypes DEF Reading, Begun, Fared, LineOf
    <2> PICK b \in 1..Len(written) : b = file[pos - 1]
      BY <1>1, FileIs
    <2>1. b >= e + (n - 0)
      BY <2>0 DEF Reading, Begun
    <2>2. b < h
      <3>1. pos - 1 < p
        BY <1>1, <1>5, FileIs
      <3> QED BY <1>1, <3>1, FileIs
    <2>3. b \in Nat /\ h \in Nat /\ e \in Nat
      BY <1>1
    <2> QED BY ONLY <1>3, <2>1, <2>2, <2>3, n \in Nat
  <1> QED BY <1>1, <1>4, <1>5

\* A frame that has been passed is recorded or excused.
Accounted(j, p) ==
  \/ Fared(events[j].id, "F", "garbled") \/ Fared(events[j].id, "E", "altered")
  \/ p < pos /\ (Text(p).fate \in {"kept", "altered"} => Recorded(j, Frame(Text(p))))
FrameAt(j, p) == LineOf(file[p]).tag = "F" /\ LineOf(file[p]).event = events[j].id

LEMMA AccountedSame ==
  ASSUME Reads, NEW j, NEW p, Accounted(j, p), events'[j] = events[j], pos \in Nat, pos' \in Nat,
         pos <= pos', p \in Nat
  PROVE  Accounted(j, p)'
  <1>1. Text(p)' = Text(p)
    BY Same
  <1>2. /\ Fared(events[j].id, "F", "garbled")' <=> Fared(events[j].id, "F", "garbled")
        /\ Fared(events[j].id, "E", "altered")' <=> Fared(events[j].id, "E", "altered")
    BY Same DEF Fared
  <1>3. Recorded(j, Frame(Text(p)))' <=> Recorded(j, Frame(Text(p)))
    BY <1>1 DEF Recorded, Frame, Says
  <1> QED BY <1>1, <1>2, <1>3 DEF Accounted

LEMMA FramesParts ==
  FramesInv <=> \A j \in 1..Len(events), p \in 1..Len(file) :
    FrameAt(j, p) => Accounted(j, p) \/ (p >= pos /\ at = "frames" /\ j = Len(events))
  BY DEF FramesInv, FrameAt, Accounted

LEMMA FramesSame ==
  ASSUME TypeOK, TypeOK', Reads, FramesInv, at # "frames", events' = events, pos <= pos'
  PROVE  FramesInv'
  <1>1. file' = file /\ pos \in Nat /\ pos' \in Nat /\ \A p \in 1..Len(file) : p \in Nat
    BY Same DEF TypeOK
  <1>2. ASSUME NEW j \in 1..Len(events), NEW p \in 1..Len(file), FrameAt(j, p)'
        PROVE  Accounted(j, p)'
    <2>1. FrameAt(j, p)
      BY <1>1, <1>2, Same DEF FrameAt
    <2>2. Accounted(j, p)
      BY <2>1, FramesParts
    <2> QED BY <1>1, <2>2, AccountedSame
  <1>3. \A j \in 1..Len(events'), p \in 1..Len(file') : FrameAt(j, p)' => Accounted(j, p)'
    BY <1>1, <1>2
  <1> QED BY <1>3 DEF FramesInv, FrameAt, Accounted

LEMMA FramesRead ==
  ASSUME TypeOK, TypeOK', TraceInv, FramesInv, ReadEvent
  PROVE  FramesInv'
  <1> PICK k \in Nat : k = Len(events)
    BY EventTypes
  <1>1. /\ pos \in 1..Len(file) /\ Text(pos).tag = "E" /\ pos' = pos + 1 /\ Reads /\ at = "lines"
        /\ events' = Append(events, [id |-> Text(pos).event, says |-> Says(Text(pos)), bt |-> <<>>]) /\ at' = "frames"
    BY DEF ReadEvent, IsTag, AtEnd, TypeOK, Reads
  <1> PICK id \in {Text(pos).event} : id = Text(pos).event
    OBVIOUS
  <1> PICK w \in {Says(Text(pos))} : w = Says(Text(pos))
    OBVIOUS
  <1> PICK e \in 1..Len(written) : e = file[pos]
    BY <1>1, FileIs
  <1>2. /\ Len(events') = k + 1 /\ events'[k + 1] = [id |-> id, says |-> w, bt |-> <<>>]
        /\ \A j \in 1..k : events'[j] = events[j]
    BY <1>1 DEF TypeOK
  <1>3. file' = file /\ pos \in Nat /\ pos' \in Nat /\ \A p \in 1..Len(file) : p \in Nat
    BY <1>1, Same DEF TypeOK
  <1>4. ASSUME NEW j \in 1..(k + 1), NEW p \in 1..Len(file), FrameAt(j, p)'
        PROVE  Accounted(j, p)' \/ (p >= pos' /\ at' = "frames" /\ j = k + 1)
    <2>1. CASE j \in 1..k
      <3>1. FrameAt(j, p)
        BY <1>1, <1>2, <1>4, <2>1, Same DEF FrameAt
      <3>2. Accounted(j, p)
        BY <1>1, <2>1, <3>1, FramesParts
      <3> QED BY <1>1, <1>2, <1>3, <2>1, <3>2, AccountedSame
    <2>2. CASE j = k + 1
      <3>1. LineOf(file[p]).tag = "F" /\ LineOf(file[p]).event = id
        BY <1>1, <1>2, <1>4, <2>2, Same DEF FrameAt
      <3>2. Starts(e, id)
        BY <1>1, TextTypes DEF Starts
      <3> PICK h \in 1..Len(written) : h = file[p]
        BY FileIs
      <3>3. e < h
        BY <3>1, <3>2, FrameOf
      <3>4. pos < p
        BY <1>1, <3>3, FileIs
      <3> QED BY <1>1, <1>3, <2>2, <3>4
    <2> QED BY <2>1, <2>2
  <1>5. \A j \in 1..Len(events'), p \in 1..Len(file') :
          FrameAt(j, p)' => Accounted(j, p)' \/ (p >= pos' /\ at' = "frames" /\ j = Len(events'))
    BY <1>2, <1>3, <1>4
  <1> QED BY <1>5 DEF FramesInv, FrameAt, Accounted

LEMMA FramesRecorded ==
  ASSUME TypeOK, TypeOK', TraceInv, ReaderInv, FramesInv, ReadFrame
  PROVE  FramesInv'
  <1>1. PICK q \in 1..Len(file) : Reading(q)
    BY DEF ReaderInv, ReadingInv, ReadFrame
  <1> PICK k \in Nat : k = Len(events)
    BY EventTypes
  <1>2. /\ events # <<>> /\ Reads /\ pos' = pos + 1 /\ at = "frames" /\ at' = "frames"
    BY <1>1 DEF Reading, Reads, ReadFrame
  <1>3. /\ Len(events') = k /\ k \in 1..k
        /\ \A j \in 1..k : events'[j].id = events[j].id
        /\ \A j \in 1..k : j # k => events'[j] = events[j]
        /\ events'[k].bt = IF Text(pos).fate = "unreadable" THEN events[k].bt
                            ELSE Append(events[k].bt, Frame(Text(pos)))
        /\ pos \in 1..Len(file) /\ Text(pos).tag = "F"
    BY <1>2, FrameRead
  <1>4. file' = file /\ pos \in Nat /\ pos' \in Nat /\ \A p \in 1..Len(file) : p \in Nat
    BY <1>2, Same DEF TypeOK
  <1> PICK x \in 1..Len(file) : x = pos
    BY <1>3
  <1> PICK bt \in Seq(Frames) : bt = events[k].bt
    BY <1>3, EventTypes
  <1> PICK s \in {events'[k].bt} : s = events'[k].bt
    OBVIOUS
  <1>5. \A f : (\E h \in 1..Len(bt) : bt[h] = f) => \E h \in 1..Len(s) : s[h] = f
    <2>1. CASE Text(pos).fate = "unreadable"
      BY <1>3, <2>1
    <2>2. CASE Text(pos).fate # "unreadable"
      <3>1. s = Append(bt, Frame(Text(pos)))
        BY <1>3, <2>2
      <3>2. Len(s) = Len(bt) + 1 /\ \A h \in 1..Len(bt) : s[h] = bt[h]
        BY <3>1
      <3>3. \A h \in 1..Len(bt) : h \in 1..Len(s)
        BY <3>2
      <3> QED BY <3>2, <3>3
    <2> QED BY <2>1, <2>2
  <1>6. Text(x).fate # "unreadable" => \E h \in 1..Len(s) : s[h] = Frame(Text(x))
    <2> SUFFICES ASSUME Text(x).fate # "unreadable" PROVE \E h \in 1..Len(s) : s[h] = Frame(Text(x))
      OBVIOUS
    <2>1. s = Append(bt, Frame(Text(x)))
      BY <1>3
    <2>2. Len(s) \in 1..Len(s) /\ s[Len(s)] = Frame(Text(x))
      BY <2>1
    <2> QED BY <2>2
  <1>7. ASSUME NEW j \in 1..k, NEW p \in 1..Len(file), FrameAt(j, p)'
        PROVE  Accounted(j, p)' \/ (p >= pos' /\ at' = "frames" /\ j = k)
    <2>1. FrameAt(j, p)
      BY <1>2, <1>3, <1>7, Same DEF FrameAt
    <2>2. Accounted(j, p) \/ (p >= pos /\ j = k)
      BY <2>1, FramesParts
    <2>3. CASE j # k
      <3>1. Accounted(j, p) /\ events'[j] = events[j]
        BY <1>3, <2>2, <2>3
      <3> QED BY <1>2, <1>4, <3>1, AccountedSame
    <2>4. CASE j = k
      <3> PICK id \in {events[k].id} : id = events[k].id
        OBVIOUS
      <3> PICK f \in {Frame(Text(p))} : f = Frame(Text(p))
        OBVIOUS
      <3> PICK c \in {Text(p).fate} : c = Text(p).fate
        OBVIOUS
      <3>0. /\ Frame(Text(p))' = f /\ Text(p)'.fate = c
            /\ Fared(id, "F", "garbled")' <=> Fared(id, "F", "garbled")
            /\ Fared(id, "E", "altered")' <=> Fared(id, "E", "altered")
        BY <1>2, Same DEF Frame, Says
      <3>1. CASE Fared(id, "F", "garbled") \/ Fared(id, "E", "altered")
        BY <1>3, <2>4, <3>0, <3>1 DEF Accounted
      <3>2. CASE p < pos /\ (c \in {"kept", "altered"} => Recorded(k, f))
        <4>1. Recorded(k, f) => Recorded(k, f)'
          BY <1>5 DEF Recorded
        <4>2. p < pos'
          BY <1>2, <1>4, <3>2
        <4> QED BY <2>4, <3>0, <3>2, <4>1, <4>2 DEF Accounted
      <3>3. CASE p = pos
        <4>1. c \in {"kept", "altered"} => Recorded(k, f)'
          BY <1>6, <3>3 DEF Recorded
        <4>2. p < pos'
          BY <1>2, <1>4, <3>3
        <4> QED BY <2>4, <3>0, <4>1, <4>2 DEF Accounted
      <3>4. CASE p > pos
        <4>1. p >= pos'
          BY <1>2, <1>4, <3>4
        <4> QED BY <1>2, <2>4, <4>1
      <3>5. p >= pos => p = pos \/ p > pos
        BY <1>4
      <3> QED BY <2>2, <2>4, <3>1, <3>2, <3>3, <3>4, <3>5 DEF Accounted
    <2> QED BY <2>3, <2>4
  <1>8. \A j \in 1..Len(events'), p \in 1..Len(file') :
          FrameAt(j, p)' => Accounted(j, p)' \/ (p >= pos' /\ at' = "frames" /\ j = Len(events'))
    BY <1>3, <1>4, <1>7
  <1> QED BY <1>8 DEF FramesInv, FrameAt, Accounted

LEMMA FramesEnd ==
  ASSUME TypeOK, TypeOK', TraceInv, ReaderInv, FramesInv, EventDone
  PROVE  FramesInv'
  <1>1. PICK q \in 1..Len(file) : Reading(q)
    BY DEF ReaderInv, ReadingInv, EventDone
  <1> PICK k \in Nat : k = Len(events)
    BY EventTypes
  <1>2. /\ Reads /\ events' = events /\ (need = 0 \/ ~IsFrame)
        /\ pos' = IF need = 0 THEN pos ELSE pos + 1
    BY DEF EventDone, Reads
  <1>3. file' = file /\ pos \in Nat /\ pos' \in Nat /\ pos <= pos' /\ \A p \in 1..Len(file) : p \in Nat
    BY <1>2, Same DEF TypeOK
  <1>4. ASSUME NEW j \in 1..k, NEW p \in 1..Len(file), FrameAt(j, p)'
        PROVE  Accounted(j, p)'
    <2>1. FrameAt(j, p)
      BY <1>2, <1>4, Same DEF FrameAt
    <2>2. Accounted(j, p) \/ (p >= pos /\ j = k)
      BY <2>1, FramesParts
    <2>3. CASE Accounted(j, p)
      BY <1>2, <1>3, <2>3, AccountedSame
    <2>4. CASE p >= pos /\ j = k
      <3> PICK id \in {events[k].id} : id = events[k].id
        OBVIOUS
      <3>1. pos <= p /\ LineOf(file[p]).tag = "F" /\ LineOf(file[p]).event = id
        BY <1>3, <2>1, <2>4 DEF FrameAt
      <3>2. /\ LineOf(file[pos]).tag = "F" /\ LineOf(file[pos]).event = id
            /\ need > 0 \/ Fared(id, "E", "altered")
        BY <1>1, <3>1, OwnLines
      <3>3. pos \in 1..Len(file)
        <4>1. pos \in Nat \ {0} /\ Len(file) \in Nat
          BY DEF TypeOK
        <4> QED BY <3>1, <4>1
      <3> PICK i \in 1..Len(written) : i = file[pos]
        BY <3>3, FileIs
      <3>4. ASSUME need > 0 PROVE Fared(id, "F", "garbled")
        <4>1. Text(pos).tag # "F"
          <5>1. need # 0
            BY <3>4
          <5> QED BY <1>2, <1>3, <3>3, <5>1 DEF IsFrame, IsTag, AtEnd
        <4>2. written[i].fate = "garbled"
          BY <3>2, <3>3, <4>1, TextShows DEF Shows
        <4> QED BY <3>2, <4>2 DEF Fared, LineOf
      <3>5. Accounted(j, p)
        BY <2>4, <3>2, <3>4 DEF Accounted
      <3> QED BY <1>2, <1>3, <3>5, AccountedSame
    <2> QED BY <2>2, <2>3, <2>4
  <1>5. \A j \in 1..Len(events'), p \in 1..Len(file') : FrameAt(j, p)' => Accounted(j, p)'
    BY <1>2, <1>3, <1>4
  <1> QED BY <1>5 DEF FramesInv, FrameAt, Accounted
-----------------------------------------------------------------------------
(* The modules.                                                            *)

Got(p) == \E i \in 1..Len(modules) : modules[i] = Modules[Text(p).num]

LEMMA ModulesSame ==
  ASSUME TypeOK, TypeOK', Reads, ModulesInv, modules' = modules, pos' \in {pos, pos + 1},
         pos' = pos + 1 /\ pos \in 1..Len(file) => Text(pos).tag # "M"
  PROVE  ModulesInv'
  <1>1. file' = file /\ pos \in Nat /\ pos' \in Nat /\ \A p \in 1..Len(file) : p \in Nat
    BY Same DEF TypeOK
  <1>2. ASSUME NEW p \in 1..Len(file), p < pos', Text(p).tag = "M"
        PROVE  \E i \in 1..Len(modules) : modules[i] = Modules[Text(p).num]
    <2>1. p # pos
      BY <1>1, <1>2
    <2>2. p < pos
      BY <1>1, <1>2, <2>1
    <2> QED BY <1>2, <2>2 DEF ModulesInv
  <1>3. \A i \in 1..Len(modules) : modules[i] \in Intact
    BY DEF ModulesInv
  <1> QED BY <1>1, <1>2, <1>3, Same DEF ModulesInv

LEMMA ModulesRead ==
  ASSUME TypeOK, TypeOK', TraceInv, ModulesInv, ReadModule
  PROVE  ModulesInv'
  <1>1. /\ pos \in 1..Len(file) /\ Text(pos).tag = "M" /\ pos' = pos + 1 /\ Reads
        /\ modules' = Append(modules, Modules[Text(pos).num])
    BY DEF ReadModule, IsTag, AtEnd, TypeOK, Reads
  <1> PICK n \in Nat : n = Len(modules)
    BY DEF TypeOK
  <1> PICK m \in {Modules[Text(pos).num]} : m = Modules[Text(pos).num]
    OBVIOUS
  <1>2. /\ Len(modules') = n + 1 /\ modules'[n + 1] = m
        /\ \A i \in 1..n : modules'[i] = modules[i]
        /\ \A i \in 1..(n + 1) : i \in 1..n \/ i = n + 1
        /\ \A i \in 1..n : i \in 1..(n + 1)
        /\ n + 1 \in 1..(n + 1)
    BY <1>1 DEF TypeOK
  <1>3. file' = file /\ pos \in Nat /\ pos' \in Nat /\ \A p \in 1..Len(file) : p \in Nat
    BY <1>1, Same DEF TypeOK
  <1>4. m \in Intact
    <2> PICK i \in 1..Len(written) : i = file[pos]
      BY <1>1, FileIs
    <2>1. written[i].fate = "kept" /\ LineOf(i).tag = "M" /\ Text(pos).num = LineOf(i).num
      BY <1>1, TextTypes
    <2> QED BY <2>1 DEF Intact, LineOf
  <1>5. \A i \in 1..(n + 1) : modules'[i] \in Intact
    BY <1>2, <1>4 DEF ModulesInv
  <1>6. ASSUME NEW p \in 1..Len(file), p < pos', Text(p).tag = "M"
        PROVE  \E i \in 1..(n + 1) : modules'[i] = Modules[Text(p).num]
    <2>1. CASE p = pos
      BY <1>2, <2>1
    <2>2. CASE p # pos
      <3>1. p < pos
        BY <1>1, <1>3, <1>6, <2>2
      <3>2. PICK i \in 1..n : modules[i] = Modules[Text(p).num]
        BY <1>6, <3>1 DEF ModulesInv
      <3> QED BY <1>2, <3>2
    <2> QED BY <2>1, <2>2
  <1> QED BY <1>1, <1>2, <1>3, <1>5, <1>6, Same DEF ModulesInv

LEMMA ModulesSorted ==
  ASSUME TypeOK, TypeOK', TraceInv, ModulesInv, ReadEnd
  PROVE  ModulesInv' /\ Sorted(modules')
  <1>1. modules' = ByBase(modules) /\ pos' = pos /\ Reads
    BY DEF ReadEnd, Reads
  <1>2. ModulesOf(modules') = ModulesOf(modules) /\ Sorted(modules')
    BY <1>1, RangeTypes DEF TypeOK
  <1>3. \A i \in 1..Len(modules') : modules'[i] \in Intact
    <2>1. \A i \in 1..Len(modules') : modules'[i] \in ModulesOf(modules)
      BY <1>2 DEF ModulesOf
    <2>2. \A m \in ModulesOf(modules) : m \in Intact
      BY DEF ModulesOf, ModulesInv
    <2> QED BY <2>1, <2>2
  <1>4. ASSUME NEW p \in 1..Len(file), p < pos, Text(p).tag = "M"
        PROVE  \E i \in 1..Len(modules') : modules'[i] = Modules[Text(p).num]
    <2>1. Modules[Text(p).num] \in ModulesOf(modules)
      BY <1>4 DEF ModulesOf, ModulesInv
    <2>2. Modules[Text(p).num] \in ModulesOf(modules')
      BY <1>2, <2>1
    <2> QED BY <2>2 DEF ModulesOf
  <1> QED BY <1>1, <1>2, <1>3, <1>4, Same DEF ModulesInv
-----------------------------------------------------------------------------
(* The reader's steps.                                                     *)

LEMMA NothingRead ==
  ASSUME StartOk, at' \in {"writing", "header"}, at \in {"writing", "header"},
         UNCHANGED <<pos, modules, events>>
  PROVE  ReaderInv'
  <1>1. pos' = 1 /\ modules' = <<>> /\ events' = <<>>
    BY DEF StartOk
  <1>2. /\ \A i \in 1..Len(events') : FALSE
        /\ \A i \in 1..Len(modules') : FALSE
    BY <1>1
  <1>3. \A p \in 1..Len(file') : ~(p < pos')
    BY <1>1
  <1>4. StartOk'
    BY <1>1 DEF StartOk
  <1>5. FitInv' /\ SourceInv'
    BY <1>2 DEF FitInv, SourceInv
  <1>6. ReadingInv'
    BY DEF ReadingInv
  <1>7. LossInv'
    BY <1>3 DEF LossInv
  <1>8. FramesInv'
    BY <1>2 DEF FramesInv
  <1>9. ModulesInv'
    BY <1>2, <1>3 DEF ModulesInv
  <1> QED BY <1>4, <1>5, <1>6, <1>7, <1>8, <1>9 DEF ReaderInv

\* The steps that leave the events as they are.
LEMMA EventsSame ==
  ASSUME TypeOK, TypeOK', TraceInv, ReaderInv, Reads, events' = events, pos' \in {pos, pos + 1},
         pos' = pos + 1 /\ pos \in 1..Len(file) /\ Text(pos).tag = "E" => Excused(Text(pos).event)
  PROVE  FitInv' /\ SourceInv' /\ (LossInv => LossInv')
  <1>1. pos <= pos'
    BY DEF TypeOK
  <1>2. FitInv' /\ SourceInv'
    BY <1>1, NoNewEvents DEF ReaderInv
  <1>3. \A k : IsRead(k) => IsRead(k)'
    BY DEF IsRead
  <1> PICK k \in {Text(pos).event} : k = Text(pos).event
    OBVIOUS
  <1>4. ASSUME LossInv PROVE LossInv'
    BY <1>3, <1>4, LossMore
  <1> QED BY <1>2, <1>4

LEMMA HeaderStep ==
  ASSUME TypeOK, TypeOK', TraceInv, ReaderInv, ReadHeader
  PROVE  ReaderInv'
  <1>1. /\ Reads /\ pos = 1 /\ pos' = 2 /\ modules' = <<>> /\ events' = <<>> /\ events = <<>>
        /\ modules = <<>> /\ at = "header"
        /\ at' \in {"lines", "invalid"} /\ (at' # "invalid" => IsTag("HEADER"))
    BY DEF ReadHeader, ReaderInv, StartOk, Reads
  <1>2. /\ \A i \in 1..Len(events') : FALSE
        /\ \A i \in 1..Len(modules') : FALSE
    BY <1>1
  <1>3. ASSUME at' # "invalid" PROVE \A p \in 1..Len(file) : p < pos' => Text(p).tag = "HEADER"
    <2>1. \A p \in 1..Len(file) : p < pos' => p = pos
      BY <1>1
    <2> QED BY <1>1, <1>3, <2>1 DEF IsTag
  <1>4. StartOk' /\ FitInv' /\ SourceInv' /\ ReadingInv'
    BY <1>1, <1>2 DEF FitInv, SourceInv, ReadingInv, StartOk
  <1>5. ASSUME at' # "invalid" PROVE LossInv'
    BY <1>1, <1>3, <1>5, Same DEF LossInv
  <1>6. FramesInv'
    BY <1>2 DEF FramesInv
  <1>7. ASSUME at' # "invalid" PROVE ModulesInv'
    BY <1>1, <1>2, <1>3, <1>7, Same DEF ModulesInv
  <1> QED BY <1>1, <1>4, <1>5, <1>6, <1>7 DEF ReaderInv

LEMMA ModuleStep ==
  ASSUME TypeOK, TypeOK', TraceInv, ReaderInv, ReadModule
  PROVE  ReaderInv'
  <1>1. /\ Reads /\ pos' = pos + 1 /\ events' = events /\ at = "lines" /\ at' = "lines"
        /\ Text(pos).tag = "M" /\ pos <= pos'
    BY DEF ReadModule, Reads, IsTag, TypeOK
  <1>2. FitInv' /\ SourceInv' /\ (LossInv => LossInv')
    BY <1>1, EventsSame
  <1>3. LossInv /\ FramesInv /\ ModulesInv
    BY <1>1 DEF ReaderInv
  <1>4. FramesInv'
    BY <1>1, <1>3, FramesSame
  <1>5. ModulesInv'
    BY <1>3, ModulesRead
  <1> QED BY <1>1, <1>2, <1>3, <1>4, <1>5 DEF ReaderInv, StartOk, ReadingInv

LEMMA EventStep ==
  ASSUME TypeOK, TypeOK', TraceInv, ReaderInv, ReadEvent
  PROVE  ReaderInv'
  <1>1. /\ Reads /\ pos' = pos + 1 /\ at = "lines" /\ at' = "frames" /\ modules' = modules
        /\ Text(pos).tag = "E"
        /\ events' = Append(events, [id |-> Text(pos).event, says |-> Says(Text(pos)), bt |-> <<>>])
    BY DEF ReadEvent, Reads, IsTag
  <1>2. FitInv' /\ SourceInv'
    BY EventRead
  <1>3. ReadingInv'
    BY ReadingStep
  <1>4. LossInv /\ FramesInv /\ ModulesInv
    BY <1>1 DEF ReaderInv
  <1>5. FramesInv'
    BY <1>4, FramesRead
  <1>6. ModulesInv'
    BY <1>1, <1>4, ModulesSame
  <1> PICK k \in {Text(pos).event} : k = Text(pos).event
    OBVIOUS
  <1> PICK w \in {Says(Text(pos))} : w = Says(Text(pos))
    OBVIOUS
  <1> PICK n \in Nat : n = Len(events)
    BY EventTypes
  <1>7. /\ Len(events') = n + 1 /\ events'[n + 1] = [id |-> k, says |-> w, bt |-> <<>>]
        /\ \A j \in 1..n : events'[j] = events[j]
        /\ \A j \in 1..n : j \in 1..(n + 1)
        /\ n + 1 \in 1..(n + 1)
    BY <1>1 DEF TypeOK
  <1>8. \A j : IsRead(j) => IsRead(j)'
    BY <1>7 DEF IsRead
  <1>9. IsRead(k)'
    BY <1>7 DEF IsRead
  <1>10. LossInv'
    BY <1>1, <1>4, <1>8, <1>9, LossMore
  <1> QED BY <1>1, <1>2, <1>3, <1>5, <1>6, <1>10 DEF ReaderInv, StartOk

LEMMA SkipStep ==
  ASSUME TypeOK, TypeOK', TraceInv, ReaderInv, SkipLine
  PROVE  ReaderInv'
  <1>1. /\ Reads /\ pos' = pos + 1 /\ events' = events /\ at = "lines" /\ at' = "lines"
        /\ Text(pos).tag # "M" /\ Text(pos).tag # "E" /\ modules' = modules /\ pos <= pos'
    BY DEF SkipLine, Reads, IsTag, TypeOK
  <1>2. FitInv' /\ SourceInv' /\ (LossInv => LossInv')
    BY <1>1, EventsSame
  <1>3. LossInv /\ FramesInv /\ ModulesInv
    BY <1>1 DEF ReaderInv
  <1>4. FramesInv'
    BY <1>1, <1>3, FramesSame
  <1>5. ModulesInv'
    BY <1>1, <1>3, ModulesSame
  <1> QED BY <1>1, <1>2, <1>3, <1>4, <1>5 DEF ReaderInv, StartOk, ReadingInv

LEMMA FrameStep ==
  ASSUME TypeOK, TypeOK', TraceInv, ReaderInv, ReadFrame
  PROVE  ReaderInv'
  <1>1. /\ Reads /\ pos' = pos + 1 /\ at = "frames" /\ at' = "frames" /\ modules' = modules
        /\ Text(pos).tag = "F"
    BY DEF ReadFrame, Reads, IsFrame, IsTag
  <1>2. FitInv' /\ SourceInv'
    BY FrameReadRight
  <1>3. ReadingInv'
    BY ReadingStep
  <1>4. LossInv /\ FramesInv /\ ModulesInv
    BY <1>1 DEF ReaderInv
  <1>5. FramesInv'
    BY <1>4, FramesRecorded
  <1>6. ModulesInv'
    BY <1>1, <1>4, ModulesSame
  <1>7. events # <<>>
    BY <1>1 DEF ReaderInv, ReadingInv, Reading
  <1>8. Len(events') = Len(events) /\ \A j \in 1..Len(events) : events'[j].id = events[j].id
    BY <1>7, FrameRead
  <1>9. \A j : IsRead(j) => IsRead(j)'
    BY <1>8 DEF IsRead
  <1> PICK k \in {Text(pos).event} : k = Text(pos).event
    OBVIOUS
  <1>10. LossInv'
    BY <1>1, <1>4, <1>9, LossMore
  <1> QED BY <1>1, <1>2, <1>3, <1>5, <1>6, <1>10 DEF ReaderInv, StartOk

LEMMA DoneStep ==
  ASSUME TypeOK, TypeOK', TraceInv, ReaderInv, EventDone
  PROVE  ReaderInv'
  <1>1. /\ Reads /\ pos' \in {pos, pos + 1} /\ events' = events /\ at = "frames" /\ at' = "lines"
        /\ modules' = modules /\ (need = 0 => pos' = pos)
    BY DEF EventDone, Reads
  <1>2. PICK q \in 1..Len(file) : Reading(q)
    BY <1>1 DEF ReaderInv, ReadingInv
  <1>3. ASSUME pos' = pos + 1, pos \in 1..Len(file) PROVE need > 0
    <2>1. need # 0 /\ need \in Nat
      BY <1>1, <1>3 DEF TypeOK
    <2> QED BY <2>1
  <1>4. ASSUME pos' = pos + 1, pos \in 1..Len(file), Text(pos).tag = "E"
        PROVE  Excused(Text(pos).event)
    BY <1>2, <1>3, <1>4, EventLost
  <1>5. ASSUME pos' = pos + 1, pos \in 1..Len(file), Text(pos).tag = "M" PROVE FALSE
    <2> PICK e \in 1..Len(written) : e = file[q]
      BY FileIs
    <2> PICK i \in 1..Len(written) : i = file[pos]
      BY <1>5, FileIs
    <2>1. LineOf(e).tag = "E" /\ q < pos
      BY <1>2, ReadingIs DEF Reading, Begun
    <2>2. e < i
      BY <1>5, <2>1, FileIs
    <2>3. IsEvent(LineOf(i))
      BY <2>1, <2>2, LaterEvent DEF IsEvent
    <2>4. Text(pos).tag = LineOf(i).tag
      BY <1>5, TextTypes
    <2> QED BY <1>5, <2>3, <2>4 DEF IsEvent
  <1>6. FitInv' /\ SourceInv' /\ (LossInv => LossInv')
    BY <1>1, <1>4, EventsSame
  <1>7. LossInv /\ FramesInv /\ ModulesInv
    BY <1>1 DEF ReaderInv
  <1>8. FramesInv'
    BY <1>7, FramesEnd
  <1>9. ModulesInv'
    BY <1>1, <1>5, <1>7, ModulesSame
  <1> QED BY <1>1, <1>6, <1>7, <1>8, <1>9 DEF ReaderInv, StartOk, ReadingInv

LEMMA EndStep ==
  ASSUME TypeOK, TypeOK', TraceInv, ReaderInv, ReadEnd
  PROVE  ReaderInv'
  <1>1. /\ Reads /\ pos' = pos /\ events' = events /\ at = "lines" /\ at' = "symbols"
        /\ pos > Len(file) /\ pos <= pos'
    BY DEF ReadEnd, Reads, AtEnd, TypeOK
  <1>2. FitInv' /\ SourceInv' /\ (LossInv => LossInv')
    <2>1. pos # pos + 1
      BY DEF TypeOK
    <2> QED BY <1>1, <2>1, EventsSame
  <1>3. LossInv /\ FramesInv /\ ModulesInv
    BY <1>1 DEF ReaderInv
  <1>4. FramesInv'
    BY <1>1, <1>3, FramesSame
  <1>5. ModulesInv'
    BY <1>3, ModulesSorted
  <1> QED BY <1>1, <1>2, <1>3, <1>4, <1>5, Same DEF ReaderInv, StartOk, ReadingInv

LEMMA ReaderSame ==
  ASSUME TypeOK, TypeOK', TraceInv, ReaderInv, Reads,
         UNCHANGED <<pos, need, modules, events>>,
         at' = at \/ (at = "symbols" /\ at' = "done")
  PROVE  ReaderInv'
  <1>1. pos' # pos + 1 /\ pos' = pos /\ pos <= pos' /\ pos' \in {pos, pos + 1}
    BY DEF TypeOK
  <1>2. FitInv' /\ SourceInv' /\ (LossInv => LossInv')
    BY <1>1, EventsSame
  <1>3. FramesInv => FramesInv'
    BY ZenonT(30), <1>1, Same DEF FramesInv, Frame, Says, Recorded
  <1>4. ModulesInv => ModulesInv'
    BY <1>1, ModulesSame
  <1>5. ReadingInv'
    <2> SUFFICES ASSUME at = "frames" PROVE \E q \in 1..Len(file) : Reading(q)'
      BY Same DEF ReadingInv
    <2>1. PICK q \in 1..Len(file) : Reading(q)
      BY DEF ReaderInv, ReadingInv
    <2> PICK x \in {pos} : x = pos
      OBVIOUS
    <2> PICK m \in {need} : m = need
      OBVIOUS
    <2> PICK k \in {events[Len(events)].id} : k = events[Len(events)].id
      OBVIOUS
    <2>2. Begun(q, x, m, k)
      BY <2>1 DEF Reading
    <2>3. Begun(q, x, m, k)'
      BY <2>2, BegunSame
    <2> QED BY <2>1, <2>3 DEF Reading
  <1>6. StartOk'
    BY DEF ReaderInv, StartOk
  <1> QED BY <1>1, <1>2, <1>3, <1>4, <1>5, <1>6, Same DEF ReaderInv
-----------------------------------------------------------------------------
(* The symbolizer's steps.                                                 *)

LEMMA PcsIs ==
  ASSUME TypeOK
  PROVE  Pcs \in SUBSET Nat /\ IsFiniteSet(Pcs)
  <1> DEFINE Pairs == (1..NumEvents) \X (1..MaxFrames)
             T == {PcOf(f[1], f[2]) : f \in Pairs}
             U == {AlteredPc(f[1], f[2]) : f \in Pairs}
             g == [f \in Pairs |-> PcOf(f[1], f[2])]
             h == [f \in Pairs |-> AlteredPc(f[1], f[2])]
  <1>1. \A j \in 1..Len(events) : \A i \in 1..Len(events[j].bt) : events[j].bt[i] \in Frames
    BY EventTypes
  <1>2. Pcs \in SUBSET (T \cup U)
    <2>1. \A f \in Frames : <<f[1], f[2]>> \in Pairs
      BY DEF Frames
    <2>2. \A f \in Frames : Pc(f) \in T \cup U
      <3> SUFFICES ASSUME NEW f \in Frames PROVE Pc(f) \in T \cup U
        OBVIOUS
      <3> PICK d \in Pairs : d[1] = f[1] /\ d[2] = f[2]
        BY <2>1
      <3> QED BY DEF Pc
    <2> HIDE DEF T, U
    <2> QED BY <1>1, <2>2 DEF Pcs
  <1>3. T \cup U \in SUBSET Nat
    BY PcAssumption
  <1>4. IsFiniteSet(Pairs)
    <2>1. IsFiniteSet(1..NumEvents) /\ IsFiniteSet(1..MaxFrames)
      BY Bounds, FS_Interval
    <2> QED BY <2>1, FS_Product
  <1>5. g \in Surjection(Pairs, T) /\ h \in Surjection(Pairs, U)
    BY DEF Surjection
  <1>6. IsFiniteSet(T \cup U)
    <2> HIDE DEF Pairs, T, U, g, h
    <2>1. IsFiniteSet(T) /\ IsFiniteSet(U)
      BY <1>4, <1>5, FS_Surjection
    <2> QED BY <2>1, FS_Union
  <1>7. IsFiniteSet(Pcs)
    <2> HIDE DEF T, U
    <2> QED BY <1>2, <1>6, FS_Subset
  <1> QED BY <1>2, <1>3, <1>7

\* The module and the offset that belong to an address.
LEMMA LocatedIs ==
  ASSUME NEW ms \in Seq(Module), Sorted(ms), NEW pc \in Nat
  PROVE  /\ Located(ms, pc).module = FindModule(ms, pc)
         /\ Located(ms, pc).func = Nothing /\ Located(ms, pc).file = Nothing
         /\ FindModule(ms, pc) # Nothing =>
              /\ FindModule(ms, pc) \in Module
              /\ Located(ms, pc).offset = pc - FindModule(ms, pc).base
              /\ Located(ms, pc).offset \in Nat
         /\ FindModule(ms, pc) = Nothing => Located(ms, pc).offset = pc
  <1> PICK m \in {FindModule(ms, pc)} : m = FindModule(ms, pc)
    OBVIOUS
  <1>1. Located(ms, pc) = [module |-> m, offset |-> IF m = Nothing THEN pc ELSE pc - m.base,
                           func |-> Nothing, file |-> Nothing]
    BY DEF Located
  <1>2. ASSUME m # Nothing PROVE m \in Module /\ m.base <= pc
    <2>1. m \in ModulesOf(ms) /\ Contains(m, pc)
      BY <1>2, FindModuleRight
    <2>2. \A i \in 1..Len(ms) : ms[i] \in Module
      OBVIOUS
    <2> QED BY <2>1, <2>2 DEF ModulesOf, Contains
  <1>3. ASSUME m # Nothing PROVE pc - m.base \in Nat
    <2>1. m.base \in Nat
      BY <1>2, <1>3, ModuleIs
    <2> QED BY <1>2, <1>3, <2>1
  <1> QED BY <1>1, <1>2, <1>3

LEMMA LocateStep ==
  ASSUME TypeOK, TypeOK', ReadEnd
  PROVE  SymbolsInv'
  <1> PICK ms \in Seq(Module) : ms = modules'
    BY DEF TypeOK
  <1>1. /\ Sorted(ms) /\ Pcs' = Pcs
        /\ results' = [pc \in Pcs |-> Located(ms, pc)]
        /\ todo' = {results'[pc].module : pc \in Pcs} \ {Nothing}
    <2>1. events' = events
      BY DEF ReadEnd
    <2>2. Sorted(ms)
      BY RangeTypes DEF ReadEnd, TypeOK
    <2> QED BY <2>1, <2>2 DEF ReadEnd, Pcs
  <1> PICK r \in {results'} : r = results'
    OBVIOUS
  <1>2. r = [pc \in Pcs |-> r[pc]]
    BY <1>1
  <1>3. todo' \subseteq Module
    <2>1. \A pc \in Pcs : r[pc].module # Nothing => r[pc].module \in Module
      BY <1>1, PcsIs, LocatedIs
    <2> QED BY <1>1, <2>1
  <1>4. \A pc \in Pcs : Answered(r[pc], pc)'
    <2> SUFFICES ASSUME NEW pc \in Pcs PROVE Answered(r[pc], pc)'
      OBVIOUS
    <2> PICK a \in {r[pc]} : a = r[pc]
      OBVIOUS
    <2>1. a = [module |-> FindModule(ms, pc), offset |-> Located(ms, pc).offset,
               func |-> Nothing, file |-> Nothing]
      <3>1. a = Located(ms, pc)
        BY <1>1
      <3> QED BY <3>1 DEF Located
    <2>2. /\ DOMAIN a = {"module", "offset", "func", "file"}
          /\ a.module = FindModule(ms, pc) /\ a.offset = Located(ms, pc).offset
          /\ a.func = Nothing /\ a.file = Nothing
      BY <2>1
    <2>3. Answered(a, pc)'
      BY <2>2 DEF Answered
    <2> QED BY <2>3
  <1> QED BY <1>1, <1>2, <1>3, <1>4 DEF SymbolsInv

\* What a program counter of the bucket of module m gets from the answer.
AnswerTo(r, pc, m, pcs, lines) ==
  IF r.module # m THEN r
  ELSE LET i == CHOOSE j \in 1..Len(pcs) : pcs[j] = pc
       IN  [r EXCEPT !.func = LineOr(lines, FileLine(i) - 1), !.file = LineOr(lines, FileLine(i))]

LEMMA BucketStep ==
  ASSUME TypeOK, TypeOK', SymbolsInv, NEW m \in todo, SymbolizeModule(m)
  PROVE  SymbolsInv'
  <1> PICK ms \in Seq(Module) : ms = modules
    BY DEF TypeOK
  <1> PICK r \in {results} : r = results
    OBVIOUS
  <1> PICK s \in {results'} : s = results'
    OBVIOUS
  <1> PICK A \in {Pcs} : A = Pcs
    OBVIOUS
  <1>1. /\ at = "symbols" /\ modules' = ms /\ Pcs' = A /\ todo' \in SUBSET todo
        /\ Sorted(ms) /\ todo \subseteq Module
        /\ r = [pc \in A |-> r[pc]] /\ DOMAIN r = A
        /\ \A pc \in A : Answered(r[pc], pc)
    <2>1. at = "symbols" /\ modules' = modules /\ events' = events /\ todo' = todo \ {m}
      BY DEF SymbolizeModule
    <2>2. /\ Sorted(ms) /\ todo \subseteq Module
          /\ r = [pc \in A |-> r[pc]]
          /\ \A pc \in A : Answered(r[pc], pc)
      BY <2>1 DEF SymbolsInv
    <2>3. Pcs' = A
      BY <2>1 DEF Pcs
    <2>4. DOMAIN r = A
      BY <2>2
    <2> QED BY <2>1, <2>2, <2>3, <2>4
  <1>2. /\ m \in Module /\ m.base \in Nat /\ m # Nothing
        /\ A \in SUBSET Nat /\ IsFiniteSet(A)
    BY <1>1, PcsIs, ModuleIs
  <1>3. ASSUME NEW pc \in A, NEW a, Answered(a, pc)
        PROVE  Answered(a, pc)'
    BY <1>1, <1>3 DEF Answered
  <1>4. CASE s = r
    <2>1. \A pc \in A : Answered(s[pc], pc)'
      BY <1>1, <1>3, <1>4
    <2> QED BY <1>1, <1>4, <2>1 DEF SymbolsInv
  <1>5. ASSUME NEW pcs \in Orders(Bucket(m)), NEW n \in 0..(2 * Len(pcs)),
               Symbolize(m, pcs, Output([i \in 1..Len(pcs) |-> pcs[i] - m.base], n))
        PROVE  SymbolsInv'
    <2> PICK B \in {Bucket(m)} : B = Bucket(m)
      OBVIOUS
    <2>1. B = {pc \in A : r[pc].module = m} /\ IsFiniteSet(B)
      <3>1. B = {pc \in A : r[pc].module = m}
        BY <1>1 DEF Bucket
      <3> QED BY <1>2, <3>1, FS_Subset
    <2> PICK c \in Nat : c = Cardinality(B)
      BY <2>1, FS_CardinalityType
    <2>2. /\ pcs \in [1..c -> B] /\ \A x \in B : \E i \in 1..c : pcs[i] = x
      BY <1>5 DEF Orders
    <2>3. Len(pcs) = c /\ pcs \in Seq(B)
      BY <2>2
    <2>4. \A pc \in B : /\ pc \in A /\ FindModule(ms, pc) = m
                        /\ Located(ms, pc).offset = pc - m.base /\ pc - m.base \in Nat
      <3>1. \A pc \in B : pc \in A /\ pc \in Nat /\ FindModule(ms, pc) = m
        <4> SUFFICES ASSUME NEW pc \in B PROVE pc \in A /\ pc \in Nat /\ FindModule(ms, pc) = m
          OBVIOUS
        <4> PICK a \in {r[pc]} : a = r[pc]
          OBVIOUS
        <4>1. pc \in A /\ pc \in Nat /\ a.module = m /\ Answered(a, pc)
          BY <1>1, <1>2, <2>1
        <4>2. a.module = FindModule(ms, pc)
          BY <4>1 DEF Answered
        <4> QED BY <4>1, <4>2
      <3> QED BY <1>1, <1>2, <3>1, LocatedIs
    <2> PICK o \in Seq(Nat) : o = [i \in 1..c |-> pcs[i] - m.base]
      <3>1. \A i \in 1..c : pcs[i] - m.base \in Nat
        BY <2>2, <2>4
      <3>2. [i \in 1..c |-> pcs[i] - m.base] \in Seq(Nat)
        BY <3>1, IsASeq
      <3> QED BY <3>2
    <2>5. Len(o) = c /\ \A i \in 1..c : o[i] = pcs[i] - m.base
      OBVIOUS
    <2> PICK out \in {Output(o, n)} : out = Output(o, n)
      OBVIOUS
    <2>6. s = [pc \in A |-> AnswerTo(r[pc], pc, m, pcs, out)]
      <3>1. out = Output([i \in 1..Len(pcs) |-> pcs[i] - m.base], n)
        BY <2>3
      <3>2. Symbolize(m, pcs, out)
        BY <1>5, <3>1
      <3>3. results' = [pc \in DOMAIN results |-> AnswerTo(results[pc], pc, m, pcs, out)]
        BY <3>2 DEF Symbolize, AnswerTo
      <3> QED BY <1>1, <3>3
    <2>7. n \in Nat
      BY <2>3
    <2>8. ASSUME NEW pc \in A PROVE Answered(s[pc], pc)'
      <3>1. CASE r[pc].module # m
        <4>1. s[pc] = r[pc]
          BY <2>6, <3>1 DEF AnswerTo
        <4> QED BY <1>1, <1>3, <4>1
      <3>2. CASE r[pc].module = m
        <4> PICK a \in {r[pc]} : a = r[pc]
          OBVIOUS
        <4>1. pc \in B
          BY <2>1, <3>2
        <4> PICK i \in 1..c : i = (CHOOSE j \in 1..c : pcs[j] = pc) /\ pcs[i] = pc
          BY <2>2, <4>1
        <4> PICK f \in {LineOr(out, FileLine(i) - 1)} : f = LineOr(out, FileLine(i) - 1)
          OBVIOUS
        <4> PICK g \in {LineOr(out, FileLine(i))} : g = LineOr(out, FileLine(i))
          OBVIOUS
        <4>a. s[pc] = AnswerTo(a, pc, m, pcs, out)
          BY <2>6
        <4>b. (CHOOSE j \in 1..Len(pcs) : pcs[j] = pc) = i
          BY <2>3
        <4>2. s[pc] = [a EXCEPT !.func = f, !.file = g]
          BY <3>2, <4>a, <4>b DEF AnswerTo
        <4>3. /\ DOMAIN a = {"module", "offset", "func", "file"}
              /\ a.module = FindModule(ms, pc) /\ a.offset = Located(ms, pc).offset
          BY <1>1 DEF Answered
        <4> PICK b \in {s[pc]} : b = s[pc]
          OBVIOUS
        <4>4. /\ DOMAIN b = {"module", "offset", "func", "file"} /\ b.func = f /\ b.file = g
              /\ b.module = a.module /\ b.offset = a.offset
          BY <4>2, <4>3
        <4>5. b.offset = o[i]
          BY <2>4, <2>5, <4>1, <4>3, <4>4
        <4>6. f \in {Nothing, <<"func", o[i]>>} /\ g \in {Nothing, <<"file", o[i]>>}
          BY <2>5, <2>7, OutputIs
        <4>7. Answered(b, pc)
          BY <4>3, <4>4, <4>5, <4>6 DEF Answered
        <4> QED BY <1>3, <4>7
      <3> QED BY <3>1, <3>2
    <2>9. s = [pc \in A |-> s[pc]]
      BY <2>6
    <2> QED BY <1>1, <2>8, <2>9 DEF SymbolsInv
  <1>6. \/ s = r
        \/ \E pcs \in Orders(Bucket(m)) : \E n \in 0..(2 * Len(pcs)) :
             Symbolize(m, pcs, Output([i \in 1..Len(pcs) |-> pcs[i] - m.base], n))
    BY DEF SymbolizeModule
  <1> QED BY <1>4, <1>5, <1>6

LEMMA SymbolsSame ==
  ASSUME SymbolsInv, UNCHANGED <<modules, events, results, todo>>, at \in {"symbols", "done"}
  PROVE  SymbolsInv'
  <1>1. Pcs' = Pcs
    BY DEF Pcs
  <1>2. \A a, pc : Answered(a, pc)' <=> Answered(a, pc)
    BY DEF Answered
  <1>3. \A pc \in Pcs : Answered(results[pc], pc)
    BY DEF SymbolsInv
  <1>4. \A pc \in Pcs : Answered(results[pc], pc)'
    <2> TAKE pc \in Pcs
    <2> PICK a \in {results[pc]} : a = results[pc]
      OBVIOUS
    <2>1. Answered(a, pc)'
      BY <1>2, <1>3
    <2> QED BY <2>1
  <1> QED BY <1>1, <1>4 DEF SymbolsInv
-----------------------------------------------------------------------------
(* The theorems.                                                           *)

LEMMA InitInv == Init => IInv
  <1> SUFFICES ASSUME Init PROVE IInv
    OBVIOUS
  <1>1. TypeOK
    BY DEF Init, TypeOK, Steps
  <1>2. TraceInv
    BY DEF Init, TraceInv, KindInv, OrderInv, StartInv, BodyInv, OwnerInv, LeftInv, FileInv
  <1>3. ReaderInv
    BY DEF Init, ReaderInv, StartOk, FitInv, SourceInv, ReadingInv, LossInv, FramesInv, ModulesInv
  <1>4. SymbolsInv
    BY DEF Init, SymbolsInv
  <1> QED BY <1>1, <1>2, <1>3, <1>4 DEF IInv

LEMMA NextInv == IInv /\ [Next]_vars => IInv'
  <1> SUFFICES ASSUME IInv, [Next]_vars PROVE IInv'
    OBVIOUS
  <1>0. TypeOK /\ TraceInv /\ ReaderInv /\ SymbolsInv
    BY DEF IInv
  <1>1. TypeOK'
    BY <1>0, TypeStep
  <1>2. CASE WriteHeader \/ WriteModule \/ WriteEvent \/ WriteFrame
    <2>1. TraceInv' /\ at = "writing" /\ UNCHANGED <<at, pos, need, modules, events, results, todo>>
      BY <1>0, <1>2, WriteStep
    <2>2. ReaderInv'
      BY <1>0, <2>1, NothingRead DEF ReaderInv
    <2>3. SymbolsInv'
      BY <2>1 DEF SymbolsInv
    <2> QED BY <1>1, <2>1, <2>2, <2>3 DEF IInv
  <1>3. CASE WriteEnd
    <2>1. TraceInv' /\ at = "writing" /\ at' = "header" /\ UNCHANGED <<pos, modules, events>>
      BY <1>0, <1>3, EndsStep
    <2>2. ReaderInv' /\ TraceInv'
      BY <1>0, <2>1, NothingRead DEF ReaderInv
    <2>3. SymbolsInv'
      BY <2>1 DEF SymbolsInv
    <2> QED BY <1>1, <2>2, <2>3 DEF IInv
  <1>4. CASE ReadHeader \/ ReadModule \/ ReadEvent \/ SkipLine \/ ReadFrame \/ EventDone
    <2>1. Reads /\ at' \in {"lines", "frames", "invalid"}
      BY <1>4 DEF ReadHeader, ReadModule, ReadEvent, SkipLine, ReadFrame, EventDone, Reads
    <2>2. ReaderInv'
      BY <1>0, <1>1, <1>4, HeaderStep, ModuleStep, EventStep, SkipStep, FrameStep, DoneStep
    <2>3. SymbolsInv'
      BY <2>1 DEF SymbolsInv
    <2> QED BY <1>0, <1>1, <2>1, <2>2, <2>3, TraceSame DEF IInv
  <1>5. CASE ReadEnd
    <2>1. Reads
      BY <1>5 DEF ReadEnd, Reads
    <2> QED BY <1>0, <1>1, <1>5, <2>1, EndStep, LocateStep, TraceSame DEF IInv
  <1>6. CASE \E m \in todo : SymbolizeModule(m)
    <2> PICK m \in todo : SymbolizeModule(m)
      BY <1>6
    <2>1. Reads /\ UNCHANGED <<pos, need, modules, events>> /\ at' = at
      BY DEF SymbolizeModule, Reads
    <2>2. SymbolsInv'
      BY <1>0, <1>1, BucketStep
    <2> QED BY <1>0, <1>1, <2>1, <2>2, ReaderSame, TraceSame DEF IInv
  <1>7. CASE Symbolized
    <2>1. /\ Reads /\ UNCHANGED <<pos, need, modules, events, results, todo>>
          /\ at = "symbols" /\ at' = "done"
      BY <1>7 DEF Symbolized, Reads
    <2> QED BY <1>0, <1>1, <2>1, ReaderSame, TraceSame, SymbolsSame DEF IInv
  <1>8. CASE Finished \/ UNCHANGED vars
    <2>1. Reads /\ UNCHANGED <<pos, need, modules, events, results, todo>> /\ at' = at
      BY <1>8 DEF Finished, vars, Reads, trace
    <2>2. SymbolsInv'
      <3>1. CASE at \in {"symbols", "done"}
        BY <1>0, <2>1, <3>1, SymbolsSame
      <3>2. CASE at \notin {"symbols", "done"}
        BY <2>1, <3>2 DEF SymbolsInv
      <3> QED BY <3>1, <3>2
    <2> QED BY <1>0, <1>1, <2>1, <2>2, ReaderSame, TraceSame DEF IInv
  <1> QED BY <1>2, <1>3, <1>4, <1>5, <1>6, <1>7, <1>8 DEF Next

\* In every state of the analyzer, whatever befell the file, the invariant holds.
THEOREM Invariant == Spec => []IInv
  BY InitInv, NextInv, PTL DEF Spec

LEMMA Kept ==
  ASSUME TypeOK, TraceInv, pos > Len(file), NEW i \in 1..Len(written),
         written[i].fate \in {"kept", "unreadable", "altered"}
  PROVE  \E p \in 1..Len(file) :
           /\ file[p] = i /\ p < pos /\ Text(p).tag = LineOf(i).tag
           /\ Text(p).event = LineOf(i).event /\ Text(p).fate = written[i].fate
  <1> PICK p \in 1..Len(file) : file[p] = i
    BY DEF FileInv, TraceInv
  <1>1. p < pos
    BY FileIs DEF TypeOK
  <1>2. /\ Text(p).tag = LineOf(i).tag /\ Text(p).event = LineOf(i).event
        /\ Text(p).fate = written[i].fate
    BY TextShows DEF Shows
  <1> QED BY <1>1, <1>2

\* What is read says what its line does.
LEMMA SaysRight ==
  ASSUME TypeOK, TraceInv, SourceInv, FitInv
  PROVE  ReadWasWritten
  <1>1. ASSUME NEW tag, NEW k, NEW n, NEW s, Passed(tag, k, n, s)
        PROVE  \E i \in 1..Len(written) : LineOf(i) = Line(tag, k, n) /\ Says(written[i]) = s
    BY <1>1, FileIs DEF Passed
  <1>2. ASSUME NEW j \in 1..Len(events) PROVE EventSays(events[j])
    <2> PICK k \in {events[j].id} : k = events[j].id
      OBVIOUS
    <2> PICK s \in {events[j].says} : s = events[j].says
      OBVIOUS
    <2>1. PICK n \in 0..MaxFrames : Passed("E", k, n, s)
      BY DEF SourceInv
    <2>2. PICK i \in 1..Len(written) : LineOf(i) = Line("E", k, n) /\ Says(written[i]) = s
      BY <1>1, <2>1
    <2> QED BY <2>2, LineFields DEF EventSays, LineOf
  <1>3. ASSUME NEW j \in 1..Len(events), NEW i \in 1..Len(events[j].bt)
        PROVE  events[j].bt[i][3] # "zero" /\ FrameSays(events[j].bt[i])
    <2> PICK f \in {events[j].bt[i]} : f = events[j].bt[i]
      OBVIOUS
    <2>1. f[3] \in {"written", "other"}
      BY EventTypes
    <2> PICK k \in {f[1]} : k = f[1]
      OBVIOUS
    <2> PICK n \in {f[2]} : n = f[2]
      OBVIOUS
    <2> PICK s \in {f[3]} : s = f[3]
      OBVIOUS
    <2>2. Passed("F", k, n, s)
      BY DEF SourceInv
    <2>3. \E h \in 1..Len(written) : LineOf(h) = Line("F", k, n) /\ Says(written[h]) = s
      BY <1>1, <2>2
    <2> QED BY <2>1, <2>3 DEF FrameSays, LineOf
  <1> QED BY <1>2, <1>3 DEF ReadWasWritten, FitInv, FramesFit, Fit, Ordered

LEMMA DamageLocal == IInv => DamageStaysLocal
  <1> SUFFICES ASSUME IInv PROVE DamageStaysLocal
    OBVIOUS
  <1>1. TypeOK /\ TraceInv /\ ReadWasWritten
    BY SaysRight DEF IInv, ReaderInv
  <1>2. ASSUME at = "done" PROVE LossInv /\ FramesInv /\ pos > Len(file)
    BY <1>2 DEF IInv, ReaderInv
  <1>3. LossIsLocal
    <2> SUFFICES ASSUME at = "done", NEW k \in 1..NumEvents,
                        NEW fate \in {"kept", "unreadable", "altered"}, Fared(k, "E", fate)
                 PROVE  IsRead(k) \/ Excused(k)
      BY DEF LossIsLocal, Excused
    <2> PICK i \in 1..Len(written) :
          LineOf(i).tag = "E" /\ LineOf(i).event = k /\ written[i].fate = fate
      BY DEF Fared, LineOf
    <2>1. PICK p \in 1..Len(file) : p < pos /\ Text(p).tag = "E" /\ Text(p).event = k
      BY <1>1, <1>2, Kept
    <2> QED BY <1>2, <2>1 DEF LossInv
  <1>4. FramesComplete
    <2> SUFFICES ASSUME at = "done", NEW j \in 1..Len(events), NEW i \in 1..Len(written),
                        LineOf(i).tag = "F", LineOf(i).event = events[j].id,
                        written[i].fate \in {"kept", "altered"}
                 PROVE  \/ Recorded(j, <<events[j].id, LineOf(i).num, Says(written[i])>>)
                        \/ Fared(events[j].id, "F", "garbled") \/ Fared(events[j].id, "E", "altered")
      BY DEF FramesComplete, Recorded, LineOf
    <2>1. PICK p \in 1..Len(file) : /\ file[p] = i /\ p < pos /\ Text(p).tag = "F"
                                    /\ Text(p).fate = written[i].fate
      BY <1>1, <1>2, Kept
    <2>2. Frame(Text(p)) = <<events[j].id, LineOf(i).num, Says(written[i])>>
      BY <1>1, <2>1, FrameIs
    <2> QED BY <1>2, <2>1, <2>2 DEF FramesInv
  <1> QED BY <1>1, <1>3, <1>4 DEF DamageStaysLocal

\* Damage to the file stays where it is: the reader invents nothing and mixes up
\* nothing, and loses no event and no frame but those next to the damage.
THEOREM DamageLocalAlways == Spec => []DamageStaysLocal
  BY Invariant, DamageLocal, PTL

LEMMA IntactIs ==
  ASSUME TypeOK, TraceInv, ModulesInv, pos > Len(file)
  PROVE  Intact = ModulesOf(modules)
  <1>1. ModulesOf(modules) \subseteq Intact
    BY DEF ModulesOf, ModulesInv
  <1>2. ASSUME NEW m \in Intact PROVE m \in ModulesOf(modules)
    <2> PICK i \in 1..Len(written) :
          LineOf(i).tag = "M" /\ written[i].fate = "kept" /\ m = Modules[LineOf(i).num]
      BY DEF Intact, LineOf
    <2>1. PICK p \in 1..Len(file) : file[p] = i /\ p < pos /\ Text(p).tag = "M"
      BY Kept
    <2>2. Text(p).num = LineOf(i).num
      BY <2>1, TextTypes
    <2> QED BY <2>1, <2>2 DEF ModulesInv, ModulesOf
  <1> QED BY <1>1, <1>2

LEMMA AllSymbols == IInv => SymbolsRight
  <1> SUFFICES ASSUME IInv, at = "done" PROVE
      DOMAIN results = Pcs /\ \A pc \in Pcs :
        LET r == results[pc]
            in == {m \in Intact : m.base <= pc /\ pc < m.base + m.size}
        IN  /\ IF in = {} THEN r.module = Nothing /\ r.offset = pc
               ELSE r.module \in in /\ r.module.base + r.offset = pc
            /\ r.func \in {Nothing, <<"func", r.offset>>}
            /\ r.file \in {Nothing, <<"file", r.offset>>}
    BY DEF SymbolsRight
  <1>1. /\ TypeOK /\ TraceInv /\ ModulesInv /\ pos > Len(file) /\ SymbolsInv
    BY DEF IInv, ReaderInv
  <1>2. /\ Sorted(modules) /\ results = [pc \in Pcs |-> results[pc]]
        /\ \A pc \in Pcs : Answered(results[pc], pc)
    BY <1>1 DEF SymbolsInv
  <1>3. DOMAIN results = Pcs
    BY <1>2
  <1>4. Intact = ModulesOf(modules)
    BY <1>1, IntactIs
  <1> PICK ms \in Seq(Module) : ms = modules
    BY <1>1 DEF TypeOK
  <1>5. ASSUME NEW pc \in Pcs, NEW r, r = results[pc],
               NEW in, in = {m \in Intact : m.base <= pc /\ pc < m.base + m.size}
        PROVE  /\ IF in = {} THEN r.module = Nothing /\ r.offset = pc
                  ELSE r.module \in in /\ r.module.base + r.offset = pc
               /\ r.func \in {Nothing, <<"func", r.offset>>}
               /\ r.file \in {Nothing, <<"file", r.offset>>}
    <2>1. Answered(r, pc) /\ pc \in Nat
      BY <1>1, <1>2, <1>5, PcsIs
    <2> PICK m \in {FindModule(ms, pc)} : m = FindModule(ms, pc)
      OBVIOUS
    <2>2. in = {d \in ModulesOf(ms) : Contains(d, pc)}
      BY <1>4, <1>5 DEF Contains
    <2>3. /\ r.module = m /\ r.offset = Located(ms, pc).offset
          /\ r.func \in {Nothing, <<"func", r.offset>>}
          /\ r.file \in {Nothing, <<"file", r.offset>>}
      BY <2>1 DEF Answered
    <2>4. \/ m = Nothing /\ \A d \in ModulesOf(ms) : ~Contains(d, pc)
          \/ m \in ModulesOf(ms) /\ Contains(m, pc) /\ m # Nothing
      BY <1>2, <2>1, FindModuleRight
    <2>5. CASE m = Nothing /\ \A d \in ModulesOf(ms) : ~Contains(d, pc)
      <3>1. in = {}
        BY <2>2, <2>5
      <3>2. r.offset = pc
        BY ZenonT(30), <1>2, <2>1, <2>3, <2>5, LocatedIs
      <3> QED BY <2>3, <2>5, <3>1, <3>2
    <2>6. CASE m \in ModulesOf(ms) /\ Contains(m, pc) /\ m # Nothing
      <3>1. m \in in
        BY <2>2, <2>6
      <3>2. r.offset = pc - m.base /\ m \in Module
        BY <1>2, <2>1, <2>3, <2>6, LocatedIs
      <3>3. m.base + r.offset = pc
        <4>1. m.base \in Nat
          BY <3>2, ModuleIs
        <4> QED BY <2>1, <3>2, <4>1
      <3> QED BY <2>3, <3>1, <3>3
    <2> QED BY <2>4, <2>5, <2>6
  <1> QED BY <1>3, <1>5

\* Every program counter read gets the module it lies in if that module's line has
\* arrived, none otherwise, and no other names than its own.
THEOREM SymbolsRightAlways == Spec => []SymbolsRight
  BY Invariant, AllSymbols, PTL
=============================================================================
