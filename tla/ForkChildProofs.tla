-------------------------- MODULE ForkChildProofs --------------------------
(***************************************************************************)
(* Proofs about ForkChild: fork leaves the invariants of the pipeline      *)
(* alone, the child deletes no ring it should not, and its fclose tears at *)
(* most one event of the trace and adds none.                              *)
(***************************************************************************)
EXTENDS ForkChild, PipelineProofs

ChildType ==
  [at : {"none", "forked", "running", "call", "ended", "undefined"},
   forker : Threads, list : Seq(Threads), live : SUBSET Threads,
   freed : Seq(Threads), marked : SUBSET Threads, buf : Seq(Part),
   enabled : BOOLEAN, fp : InFile, locked : BOOLEAN, calls : Nat, logged : Nat,
   before : SUBSET Event]

\* The child has a list of distinct allocated rings, and deletes these.
ChildInv ==
  /\ child \in ChildType
  /\ Distinct(child.list) /\ Elements(child.list) \subseteq child.live
  /\ Distinct(child.freed) /\ Elements(child.freed) \subseteq child.live

\* The empty sequence has no elements.
LEMMA NoElements == Distinct(<<>>) /\ Elements(<<>>) = {}
  <1>1. Len(<<>>) = 0
    BY EmptySeq
  <1> QED BY <1>1 DEF Distinct, Elements

\* Before the fork there is nothing in the child.
LEMMA ChildInit == ForkInit => ChildInv
  <1> SUFFICES ASSUME ForkInit PROVE ChildInv
    OBVIOUS
  <1>1. child.list = <<>> /\ child.freed = <<>> /\ child.live = {}
    BY DEF ForkInit, NoChild
  <1>2. child \in ChildType
    <2>1. \A S : <<>> \in Seq(S)
      BY EmptySeq
    <2> QED BY <2>1, ThreadAssumption DEF ForkInit, NoChild, ChildType, InFile
  <1> QED BY <1>1, <1>2, NoElements DEF ChildInv

\* What the child finds: the list copied in the middle of whatever the scan and
\* the threads were doing has only rings that were allocated, each once.
LEMMA MemoriesSound ==
  ASSUME IInv, NEW mem \in Memories
  PROVE  /\ mem[1] \in Seq(Threads) /\ mem[2] \subseteq Threads
         /\ Distinct(mem[1]) /\ Elements(mem[1]) \subseteq mem[2]
  <1>1. /\ registry \in Seq(Threads) /\ cursor \in 1..(Len(registry) + 1)
        /\ Distinct(registry) /\ Elements(registry) \subseteq Allocated
        /\ Allocated \subseteq Threads
    BY DEF IInv, TypeOK, ScanTypes, RegistrySound, Allocated
  <1>2. CASE mem = <<registry, Allocated>>
    BY <1>1, <1>2
  <1>3. CASE Reclaiming /\ mem = <<Unlink(cursor), Allocated>>
    <2>1. Len(registry) \in Nat /\ cursor \in 1..Len(registry)
      BY <1>1, <1>3, LenProperties DEF Reclaiming
    <2>2. Unlink(cursor) \in Seq(Threads)
      BY <1>1, <2>1, UnlinkProps DEF Unlink
    <2>3. /\ Distinct(Unlink(cursor))
          /\ Elements(Unlink(cursor)) = Elements(registry) \ {registry[cursor]}
      BY <1>1, <2>1, UnlinkDistinct DEF Unlink
    <2> QED BY <1>1, <1>3, <2>2, <2>3
  <1> QED BY <1>2, <1>3 DEF Memories

\* fork copies the memory of the parent.
LEMMA ForkStep ==
  ASSUME IInv, ChildInv, NEW t \in Threads, Fork(t)
  PROVE  ChildInv'
  <1>1. PICK mem \in Memories :
          child' = [NoChild EXCEPT !.at = "forked", !.forker = t, !.list = mem[1],
                      !.live = mem[2], !.buf = fbuf, !.enabled = enabled,
                      !.fp = file, !.locked = regOwner # NoOwner, !.before = LeftRings]
    BY DEF Fork
  <1>2. /\ mem[1] \in Seq(Threads) /\ mem[2] \subseteq Threads
        /\ Distinct(mem[1]) /\ Elements(mem[1]) \subseteq mem[2]
    BY MemoriesSound
  <1>3. /\ fbuf \in Seq(Part) /\ enabled \in BOOLEAN /\ file \in InFile
        /\ LeftRings \subseteq Event
    BY DEF IInv, TypeOK, LogTypes, LeftRings, Committed
  <1>4. <<>> \in Seq(Threads)
    BY EmptySeq
  <1>5. child'.list = mem[1] /\ child'.live = mem[2] /\ child'.freed = <<>>
    BY <1>1 DEF NoChild
  <1>6. child' \in ChildType
    BY <1>1, <1>2, <1>3, <1>4 DEF ChildType, NoChild
  <1> QED BY <1>2, <1>5, <1>6, NoElements DEF ChildInv

\* The handler deletes the rings of the list, and nobody else does.
LEMMA HandlerStep ==
  ASSUME ChildInv, AtforkChild \/ CloseTwice
  PROVE  ChildInv'
  <1>1. child \in ChildType
    BY DEF ChildInv
  <1>2. CASE child' = [child EXCEPT !.at = "running"]
    <2>1. child' \in ChildType
      BY <1>1, <1>2 DEF ChildType
    <2>2. /\ child'.list = child.list /\ child'.live = child.live
          /\ child'.freed = child.freed
      BY <1>1, <1>2 DEF ChildType
    <2> QED BY <2>1, <2>2 DEF ChildInv
  <1>3. CASE child' = Reset
    <2>1. <<>> \in Seq(Threads) /\ <<>> \in Seq(Part)
      BY EmptySeq
    <2>2. child' \in ChildType
      BY <1>1, <1>3, <2>1 DEF ChildType, Reset, InFile
    <2>3. child'.list = <<>> /\ child'.live = child.live /\ child'.freed = child.list
      BY <1>1, <1>3 DEF ChildType, Reset
    <2> QED BY <2>2, <2>3, NoElements DEF ChildInv
  <1>4. CASE child' = [Reset EXCEPT !.at = "undefined"]
    <2>1. <<>> \in Seq(Threads) /\ <<>> \in Seq(Part)
      BY EmptySeq
    <2>2. child' \in ChildType
      BY <1>1, <1>4, <2>1 DEF ChildType, Reset, InFile
    <2>3. child'.list = <<>> /\ child'.live = child.live /\ child'.freed = child.list
      BY <1>1, <1>4 DEF ChildType, Reset
    <2> QED BY <2>2, <2>3, NoElements DEF ChildInv
  <1> QED BY <1>2, <1>3, <1>4 DEF AtforkChild, CloseTwice

\* The program in the child calls the wrappers.
LEMMA CallStep ==
  ASSUME ChildInv, ChildCall \/ ChildLog
  PROVE  ChildInv'
  <1>1. child \in ChildType
    BY DEF ChildInv
  <1>2. child' \in ChildType
    <2>1. PICK m, n : m = child.calls + 1 /\ n = child.logged + 1
      OBVIOUS
    <2>2. m \in Nat /\ n \in Nat
      BY <1>1, <2>1 DEF ChildType
    <2>3. \/ child' = [child EXCEPT !.at = "call", !.calls = m]
          \/ child' = [child EXCEPT !.at = "running", !.logged = n]
          \/ child' = [child EXCEPT !.at = "running"]
      BY <2>1, Zenon DEF ChildCall, ChildLog
    <2>4. CASE child' = [child EXCEPT !.at = "call", !.calls = m]
      BY <1>1, <2>2, <2>4 DEF ChildType
    <2>5. CASE child' = [child EXCEPT !.at = "running", !.logged = n]
      BY <1>1, <2>2, <2>5 DEF ChildType
    <2>6. CASE child' = [child EXCEPT !.at = "running"]
      BY <1>1, <2>6 DEF ChildType
    <2> QED BY <2>3, <2>4, <2>5, <2>6
  <1>3. /\ child'.list = child.list /\ child'.live = child.live
        /\ child'.freed = child.freed
    BY <1>1 DEF ChildCall, ChildLog, ChildType
  <1> QED BY <1>2, <1>3 DEF ChildInv

\* The thread that forked ends.
LEMMA EndStep ==
  ASSUME ChildInv, ChildThreadEnd
  PROVE  ChildInv'
  <1>1. child \in ChildType
    BY DEF ChildInv
  <1>2. PICK m : m = {child.forker} \cap (child.live \cup Elements(child.freed))
    OBVIOUS
  <1>3. m \subseteq Threads
    BY <1>1, <1>2 DEF ChildType
  <1>4. child' = [child EXCEPT !.at = "ended", !.marked = m]
    BY <1>2 DEF ChildThreadEnd
  <1>5. child' \in ChildType
    BY <1>1, <1>3, <1>4 DEF ChildType
  <1>6. /\ child'.list = child.list /\ child'.live = child.live
        /\ child'.freed = child.freed
    BY <1>1, <1>4 DEF ChildType
  <1> QED BY <1>5, <1>6 DEF ChildInv

\* No step of the child disturbs the invariants of the parent: it shares nothing
\* with it but the file.
LEMMA ParentKeeps ==
  ASSUME IInv, ControlInv, ChildInv, [ForkNext]_forkVars
  PROVE  IInv' /\ ControlInv'
  <1>1. CASE [Next]_vars
    BY <1>1, NextStep
  <1>2. CASE AtforkChild
    <2>1. /\ UNCHANGED <<enabled, file, fbuf, mpc, shutdown, flush, signals, owed>>
          /\ UNCHANGED <<scanVars, bpc>> /\ UNCHANGED threadVars
      BY <1>2 DEF AtforkChild
    <2>2. disk' \in Seq(Part)
      <3>1. disk \in Seq(Part) /\ child.buf \in Seq(Part)
        BY DEF IInv, TypeOK, LogTypes, ChildInv, ChildType
      <3>2. disk' = disk \/ disk' = disk \o child.buf
        BY <1>2 DEF AtforkChild, Fclose
      <3> QED BY <3>1, <3>2, ConcatProperties
    <2>3. LogTypes'
      BY <2>1, <2>2 DEF IInv, TypeOK, LogTypes
    <2>4. ScanTypes' /\ LockInv'
      BY <2>1, ScanFrame DEF IInv, TypeOK
    <2>5. ThreadTypes' /\ ThreadInv'
      BY <2>1, ThreadFrame DEF IInv, TypeOK
    <2>6. RegistrySound'
      BY <2>1, RegistryFrame DEF IInv, scanVars, threadVars
    <2>7. ControlInv'
      BY <2>1 DEF ControlInv, scanVars
    <2> QED BY <2>3, <2>4, <2>5, <2>6, <2>7 DEF IInv, TypeOK
  <1>3. CASE \/ \E t \in Threads : Fork(t)
             \/ CloseTwice \/ ChildCall \/ ChildLog \/ ChildThreadEnd
    BY <1>3, <1>1 DEF Fork, CloseTwice, ChildCall, ChildLog, ChildThreadEnd
  <1> QED BY <1>1, <1>2, <1>3 DEF ForkNext, ChildStep, forkVars

ForkInv == IInv /\ ControlInv /\ ChildInv

LEMMA ForkInvStep == ForkInv /\ [ForkNext]_forkVars => ForkInv'
  <1> SUFFICES ASSUME ForkInv, [ForkNext]_forkVars PROVE ForkInv'
    OBVIOUS
  <1>1. IInv' /\ ControlInv'
    BY ParentKeeps DEF ForkInv
  <1>2. ChildInv'
    <2>1. CASE UNCHANGED child
      BY <2>1 DEF ForkInv, ChildInv
    <2>2. CASE \E t \in Threads : Fork(t)
      BY <2>2, ForkStep DEF ForkInv
    <2>3. CASE ChildStep
      BY <2>3, HandlerStep, CallStep, EndStep DEF ForkInv, ChildStep
    <2> QED BY <2>1, <2>2, <2>3 DEF ForkNext, forkVars
  <1> QED BY <1>1, <1>2 DEF ForkInv

\* The invariants of the pipeline hold with a fork at any moment.
LEMMA ForkInvariance == ForkSpec => []ForkInv
  <1>1. ForkInit => ForkInv
    BY ChildInit, InitInv DEF ForkInit, ForkInv, Init, ControlInv
  <1>2. ForkInv /\ [ForkNext]_forkVars => ForkInv'
    BY ForkInvStep
  <1> QED BY <1>1, <1>2, PTL DEF ForkSpec

\* Whenever a thread of the parent forks, backend_fork_child_reset deletes no
\* ring twice and none that is not allocated.
THEOREM ChildDeletesOnce == ForkSpec => []ChildMemorySafe
  <1>1. ForkInv => ChildMemorySafe
    BY DEF ForkInv, ChildInv, ChildMemorySafe
  <1> QED BY <1>1, ForkInvariance, PTL
-----------------------------------------------------------------------------
(* A copy in the middle of a file.                                         *)

\* The events of L that cannot be read in s.
Missing(s, L) == L \ Whole(s)

\* What TraceSurvives says, of a file s, the events L that have left their rings and
\* those, B, that had done so by the time of the fork.
Survives(s, L, B) ==
  /\ \A i \in 1..Len(s) : s[i][1] \in L
  /\ \A d, e \in Missing(s, L) : d = e
  /\ Missing(s, L) \cap B = {}
  /\ \A e \in Event, j \in 1..Len(s) : TextAt(s, e, j) =>
       \A k \in 1..(e[2] - 1) :
         <<e[1], k>> \in Missing(s, L) \/ \E i \in 1..(j - 1) : TextAt(s, <<e[1], k>>, i)

\* The text of a new event goes behind what is there, and tears nothing.
LEMMA AppendSurvives ==
  ASSUME NEW s \in Seq(Part), NEW L, NEW B, NEW e \in Event,
         LineEnds(s), Survives(s, L, B), e \notin L, L \subseteq Event,
         \A k \in 1..(e[2] - 1) : <<e[1], k>> \in L
  PROVE  /\ Survives(s \o Text(e), L \cup {e}, B)
         /\ Missing(s \o Text(e), L \cup {e}) = Missing(s, L)
  <1>1. PICK w, m : w = s \o Text(e) /\ m = Len(s)
    OBVIOUS
  <1>2. PICK t \in Seq(Part) : t = Text(e) /\ Len(t) = 2 /\ t[1] = <<e, 1>> /\ t[2] = <<e, 2>>
    BY TextProps DEF Text
  <1>3. /\ m \in Nat /\ w \in Seq(Part) /\ Len(w) = m + 2
        /\ \A j \in 1..(m + 2) : w[j] = IF j <= m THEN s[j] ELSE t[j - m]
    <2>1. /\ s \o t \in Seq(Part) /\ Len(s \o t) = Len(s) + Len(t)
          /\ \A j \in 1..(Len(s) + Len(t)) :
                (s \o t)[j] = IF j <= Len(s) THEN s[j] ELSE t[j - Len(s)]
      BY <1>2, ConcatProperties, Zenon
    <2> QED BY <1>1, <1>2, <2>1, LenProperties
  <1>4. /\ w[m + 1] = <<e, 1>> /\ w[m + 2] = <<e, 2>>
        /\ \A j \in 1..m : w[j] = s[j]
    <2>1. (m + 1) - m = 1 /\ (m + 2) - m = 2 /\ ~(m + 1 <= m) /\ ~(m + 2 <= m)
      BY <1>3
    <2> QED BY <1>2, <1>3, <2>1
  <1>5. ASSUME NEW f, NEW i \in 1..Len(w), TextAt(w, f, i)
        PROVE  (i \in 1..(m - 1) /\ TextAt(s, f, i)) \/ (i = m + 1 /\ f = e)
    <2>1. w[i] = <<f, 1>> /\ w[i + 1] = <<f, 2>> /\ i + 1 \in 1..(m + 2)
      BY <1>3, <1>5 DEF TextAt
    <2>2. CASE i \in 1..(m - 1)
      <3>1. /\ i \in 1..m /\ i + 1 \in 1..m /\ (i > 1 => i - 1 \in 1..m)
            /\ s[i] = w[i] /\ s[i + 1] = w[i + 1] /\ (i > 1 => s[i - 1] = w[i - 1])
        <4>1. m \in Nat
          BY <1>3
        <4>2. /\ i \in 1..m /\ i + 1 \in 1..m /\ (i > 1 => i - 1 \in 1..m)
          BY ONLY <2>2, <4>1
        <4> QED BY ONLY <4>2, <1>4
      <3> QED BY <2>2, <3>1, <1>1, <1>5 DEF TextAt
    <2>3. CASE i = m
      BY <2>1, <2>3, <1>4
    <2>4. CASE i = m + 1
      BY <2>1, <2>4, <1>4
    <2> QED BY <2>1, <2>2, <2>3, <2>4, <1>3
  <1>6. TextAt(w, e, m + 1) /\ Whole(s) \cup {e} \subseteq Whole(w)
    BY <1>1, TextReadable
  <1>7. \A f, i : TextAt(s, f, i) => TextAt(w, f, i)
    BY <1>1, TextProps, TextAtExtends
  <1>8. Whole(w) = Whole(s) \cup {e}
    <2>1. ASSUME NEW f \in Whole(w) PROVE f \in Whole(s) \cup {e}
      <3>1. PICK i \in 1..Len(w) : TextAt(w, f, i) /\ f \in Event
        BY <2>1 DEF Whole
      <3>2. \A j \in 1..(m - 1) : j \in 1..Len(s)
        BY <1>1, <1>3
      <3> QED BY <3>1, <3>2, <1>5 DEF Whole
    <2> QED BY <2>1, <1>6
  <1>9. Missing(w, L \cup {e}) = Missing(s, L)
    BY <1>8 DEF Missing
  <1>10. \A i \in 1..Len(w) : w[i][1] \in L \cup {e}
    <2>1. \A i \in 1..m : s[i][1] \in L
      BY <1>1 DEF Survives
    <2>2. \A i \in 1..Len(w) : i \in 1..m \/ i = m + 1 \/ i = m + 2
      BY <1>3
    <2> QED BY <2>1, <2>2, <1>4
  <1>11. ASSUME NEW f \in Event, NEW j \in 1..Len(w), TextAt(w, f, j), NEW k \in 1..(f[2] - 1)
         PROVE  <<f[1], k>> \in Missing(s, L) \/ \E i \in 1..(j - 1) : TextAt(w, <<f[1], k>>, i)
    <2>1. CASE j \in 1..(m - 1) /\ TextAt(s, f, j)
      <3>1. j \in 1..Len(s)
        BY <2>1, <1>1, <1>3
      <3>2. \/ <<f[1], k>> \in Missing(s, L)
            \/ \E i \in 1..(j - 1) : TextAt(s, <<f[1], k>>, i)
        BY <2>1, <3>1 DEF Survives
      <3> QED BY <3>2, <1>7
    <2>2. CASE j = m + 1 /\ f = e
      <3>1. <<e[1], k>> \in L
        BY <2>2
      <3>2. CASE <<e[1], k>> \in Whole(s)
        <4>1. PICK i \in 1..Len(s) : TextAt(s, <<e[1], k>>, i)
          BY <3>2 DEF Whole
        <4>2. i \in 1..(j - 1)
          BY <2>2, <1>1, <1>3
        <4> QED BY <2>2, <4>1, <4>2, <1>7
      <3> QED BY <2>2, <3>1, <3>2 DEF Missing
    <2> QED BY <1>5, <1>11, <2>1, <2>2
  <1>12. Survives(w, L \cup {e}, B)
    BY <1>9, <1>10, <1>11 DEF Survives
  <1> QED BY <1>1, <1>9, <1>12

\* The texts of the events of q, one behind the other.
Lines(s, q) ==
  /\ q \in Seq(Event) /\ Len(s) = 2 * Len(q) /\ Distinct(q)
  /\ \A j \in 1..Len(q) : s[2 * j - 1] = <<q[j], 1>> /\ s[2 * j] = <<q[j], 2>>

\* The text of the event of a part is where one would look for it.
LEMMA LineOf ==
  ASSUME NEW s \in Seq(Part), NEW q, Lines(s, q), NEW i \in 1..Len(s)
  PROVE  \/ s[i][2] = 1 /\ \E j \in 1..Len(q) : i = 2 * j - 1 /\ s[i] = <<q[j], 1>>
         \/ s[i][2] = 2 /\ \E j \in 1..Len(q) : i = 2 * j /\ s[i] = <<q[j], 2>>
  <1>1. PICK n \in Nat : n = Len(q) /\ Len(s) = 2 * n
    BY LenProperties DEF Lines
  <1>2. PICK h \in Nat : i = 2 * h \/ i = 2 * h + 1
    <2>1. i \in Nat
      BY LenProperties
    <2>2. i \div 2 \in Nat /\ (i = 2 * (i \div 2) \/ i = 2 * (i \div 2) + 1)
      BY <2>1
    <2> QED BY <2>2
  <1>3. CASE i = 2 * h
    <2>1. h \in 1..n
      BY <1>1, <1>3
    <2> QED BY <1>1, <1>3, <2>1 DEF Lines
  <1>4. CASE i = 2 * h + 1
    <2>1. h + 1 \in 1..n /\ i = 2 * (h + 1) - 1
      BY <1>1, <1>4
    <2>2. s[2 * (h + 1) - 1] = <<q[h + 1], 1>>
      BY <1>1, <2>1, Zenon DEF Lines
    <2> QED BY <1>1, <2>1, <2>2
  <1> QED BY <1>2, <1>3, <1>4

\* w is s with a copy of the c parts behind place a put behind place d.
Inserted(s, w, a, c, d) ==
  /\ Len(w) = Len(s) + c
  /\ \A i \in 1..d : w[i] = s[i]
  /\ \A i \in 1..c : w[d + i] = s[a + i]
  /\ \A i \in (d + 1)..Len(s) : w[c + i] = s[i]

\* A copy of what stands behind place a up to the end of a text, put behind place d or
\* later, tears at most the event whose text d is in the middle of.
LEMMA InsertSurvives ==
  ASSUME NEW s \in Seq(Part), NEW q, Lines(s, q), NEW L, L \subseteq Event,
         Survives(s, L, {}), Missing(s, L) = {},
         NEW a \in Nat, NEW n \in Nat, NEW d \in Nat, NEW c \in Nat,
         a + c = 2 * n, 2 * n <= d, d <= Len(s),
         NEW B, \A e \in B : \E i \in 1..(2 * n) : s[i] = <<e, 1>>,
         NEW w \in Seq(Part), Inserted(s, w, a, c, d)
  PROVE  Survives(w, L, B) /\ LineEnds(w)
  <1>0. /\ Len(w) = Len(s) + c
        /\ \A i \in 1..d : w[i] = s[i]
        /\ \A i \in 1..c : w[d + i] = s[a + i]
        /\ \A i \in (d + 1)..Len(s) : w[c + i] = s[i]
    BY DEF Inserted
  <1> USE <1>0
  <1>1. PICK m, r \in Nat : m = Len(s) /\ r = Len(q) /\ m = 2 * r
    BY LenProperties DEF Lines
  <1>2. /\ Len(w) = m + c /\ d <= m /\ n <= r
        /\ \A i \in (d + 1)..m : w[c + i] = s[i]
    BY <1>1
  <1>3. \A j \in 1..r : s[2 * j - 1] = <<q[j], 1>> /\ s[2 * j] = <<q[j], 2>> /\ q[j] \in Event
    BY <1>1, ElementOfSeq DEF Lines
  <1>4. ASSUME NEW i \in 1..m, NEW e, s[i] = <<e, 1>>
        PROVE  \E j \in 1..r : i = 2 * j - 1 /\ q[j] = e
    <2>1. s[i][2] = 1 /\ s[i][2] # 2
      BY <1>4
    <2>2. PICK j \in 1..r : i = 2 * j - 1 /\ s[i] = <<q[j], 1>>
      <3>1. i \in 1..Len(s) /\ r = Len(q)
        BY <1>1
      <3>2. \/ s[i][2] = 1 /\ \E j \in 1..Len(q) : i = 2 * j - 1 /\ s[i] = <<q[j], 1>>
            \/ s[i][2] = 2 /\ \E j \in 1..Len(q) : i = 2 * j /\ s[i] = <<q[j], 2>>
        BY ONLY <3>1, s \in Seq(Part), Lines(s, q), LineOf
      <3> QED BY <2>1, <3>1, <3>2, Zenon
    <2> QED BY <1>4, <2>2
  \* Where the parts of w come from.
  <1>5. ASSUME NEW i \in 1..Len(w)
        PROVE  \E p \in 1..m : /\ w[i] = s[p]
                              /\ \/ i = p /\ p <= d
                                 \/ i > d /\ p <= 2 * n
                                 \/ i = c + p /\ p > d
    <2>1. CASE i <= d
      <3>1. i \in 1..d /\ i \in 1..m
        BY <2>1, <1>2
      <3> QED BY <2>1, <3>1
    <2>2. CASE i > d /\ i <= d + c
      <3>1. PICK k \in 1..c : i = d + k
        <4>1. i - d \in 1..c /\ i = d + (i - d)
          BY <2>2
        <4> QED BY <4>1
      <3>2. a + k \in 1..m /\ a + k <= 2 * n
        BY <1>2
      <3> QED BY <2>2, <3>1, <3>2
    <2>3. CASE i > d + c
      <3>1. i - c \in (d + 1)..m /\ i - c \in 1..m /\ i = c + (i - c) /\ i - c > d
        BY <2>3, <1>2
      <3> QED BY <3>1, <1>2
    <2> QED BY <2>1, <2>2, <2>3
  \* Where the texts of s are in w.
  <1> DEFINE at(j) == IF 2 * j <= d THEN 2 * j - 1 ELSE c + (2 * j - 1)
  <1>6. ASSUME NEW j \in 1..r, 2 * j - 1 # d
        PROVE  at(j) \in 1..Len(w) /\ TextAt(w, q[j], at(j))
    <2>1. ASSUME j > 1 PROVE j - 1 \in 1..r /\ 2 * (j - 1) = 2 * j - 2 /\ s[2 * j - 2] = <<q[j - 1], 2>>
      <3>1. j - 1 \in 1..r /\ 2 * (j - 1) = 2 * j - 2
        BY <2>1
      <3> QED BY <3>1, <1>3
    <2>2. CASE 2 * j <= d
      <3>1. at(j) = 2 * j - 1 /\ 2 * j - 1 \in 1..d /\ 2 * j \in 1..d /\ (2 * j - 1) + 1 = 2 * j
            /\ 2 * j - 1 \in 1..Len(w) /\ 2 * j \in 1..Len(w)
        BY <2>2, <1>2
      <3>2. w[2 * j - 1] = <<q[j], 1>> /\ w[2 * j] = <<q[j], 2>>
        BY <3>1, <1>3
      <3>3. 2 * j - 1 > 1 => w[(2 * j - 1) - 1][2] = 2
        <4>1. HAVE 2 * j - 1 > 1
        <4>2. j > 1 /\ (2 * j - 1) - 1 = 2 * j - 2 /\ 2 * j - 2 \in 1..d
          BY <4>1, <2>2
        <4>3. w[2 * j - 2] = s[2 * j - 2]
          BY <4>2
        <4> QED BY <4>2, <4>3, <2>1
      <3> QED BY <3>1, <3>2, <3>3 DEF TextAt
    <2>3. CASE ~(2 * j <= d)
      <3>1. /\ at(j) = c + (2 * j - 1) /\ 2 * j - 1 \in (d + 1)..m /\ 2 * j \in (d + 1)..m
            /\ (c + (2 * j - 1)) + 1 = c + 2 * j
            /\ c + (2 * j - 1) \in 1..Len(w) /\ c + 2 * j \in 1..Len(w)
        BY <2>3, <1>1, <1>2, <1>6
      <3>2. w[c + (2 * j - 1)] = <<q[j], 1>> /\ w[c + 2 * j] = <<q[j], 2>>
        BY <3>1, <1>2, <1>3
      <3>3. c + (2 * j - 1) > 1 => w[(c + (2 * j - 1)) - 1][2] = 2
        <4>1. HAVE c + (2 * j - 1) > 1
        <4>2. CASE 2 * j - 2 > d
          <5>1. 2 * j - 2 \in (d + 1)..m /\ (c + (2 * j - 1)) - 1 = c + (2 * j - 2) /\ j > 1
            BY <4>2, <3>1
          <5>2. w[c + (2 * j - 2)] = s[2 * j - 2]
            BY <5>1, <1>2
          <5> QED BY <5>1, <5>2, <2>1
        <4>3. CASE 2 * j - 2 = d /\ c > 0
          <5>1. (c + (2 * j - 1)) - 1 = d + c /\ c \in 1..c /\ n \in 1..r
            <6>1. a + c = 2 * n
              OBVIOUS
            <6>2. (c + (2 * j - 1)) - 1 = d + c /\ c \in 1..c
              BY ONLY <4>3, j \in 1..r, r \in Nat, c \in Nat, d \in Nat
            <6>3. n \in 1..r
              BY ONLY <4>3, <6>1, <1>2, a \in Nat, c \in Nat, n \in Nat, r \in Nat
            <6> QED BY <6>2, <6>3
          <5>2. w[d + c] = s[2 * n]
            BY <5>1
          <5>3. s[2 * n] = <<q[n], 2>>
            BY <5>1, <1>3
          <5> QED BY ONLY <5>1, <5>2, <5>3
        <4>4. CASE 2 * j - 2 = d /\ c = 0
          <5>1. (c + (2 * j - 1)) - 1 = 2 * j - 2 /\ j > 1 /\ 2 * j - 2 \in 1..d
            BY <4>1, <4>4
          <5>2. w[2 * j - 2] = s[2 * j - 2]
            BY <5>1
          <5>3. w[2 * j - 2] = <<q[j - 1], 2>>
            BY <5>1, <5>2, <2>1
          <5> QED BY ONLY <5>1, <5>3
        <4>5. 2 * j - 2 > d \/ 2 * j - 2 = d
          BY <2>3, <1>6
        <4> QED BY <4>2, <4>3, <4>4, <4>5
      <3> QED BY <3>1, <3>2, <3>3 DEF TextAt
    <2> QED BY <2>2, <2>3
  <1> HIDE DEF at
  <1>7. \A j \in 1..r : 2 * j - 1 # d => q[j] \in Whole(w)
    BY <1>3, <1>6 DEF Whole
  <1>8. ASSUME NEW e \in Whole(s) PROVE \E j \in 1..r : q[j] = e
    <2>1. PICK i \in 1..m : s[i] = <<e, 1>>
      BY <1>1, <1>8 DEF Whole, TextAt
    <2> QED BY <2>1, <1>4
  <1>9. \A e \in Missing(w, L) : \E j \in 1..r : q[j] = e /\ 2 * j - 1 = d
    <2>1. L \subseteq Whole(s)
      BY DEF Missing
    <2> QED BY <2>1, <1>7, <1>8 DEF Missing
  <1>10. \A e, f \in Missing(w, L) : e = f
    <2>1. \A i, j \in 1..r : 2 * i - 1 = d /\ 2 * j - 1 = d => i = j
      OBVIOUS
    <2> QED BY <2>1, <1>9
  <1>11. Missing(w, L) \cap B = {}
    <2> SUFFICES ASSUME NEW e \in B PROVE e \notin Missing(w, L)
      OBVIOUS
    <2>1. PICK i \in 1..(2 * n) : s[i] = <<e, 1>>
      OBVIOUS
    <2>2. i \in 1..m
      BY <1>1, <1>2
    <2>3. PICK j \in 1..r : i = 2 * j - 1 /\ q[j] = e
      BY <2>1, <2>2, <1>4
    <2>4. 2 * j - 1 # d
      BY <2>3
    <2> QED BY <2>3, <2>4, <1>7 DEF Missing
  <1>12. \A i \in 1..Len(w) : w[i][1] \in L
    BY <1>1, <1>5 DEF Survives
  <1>13. ASSUME NEW e \in Event, NEW j \in 1..Len(w), TextAt(w, e, j), NEW k \in 1..(e[2] - 1)
         PROVE  <<e[1], k>> \in Missing(w, L) \/ \E i \in 1..(j - 1) : TextAt(w, <<e[1], k>>, i)
    <2>1. PICK f : f = <<e[1], k>>
      OBVIOUS
    <2>2. PICK p \in 1..m : /\ w[j] = s[p]
                           /\ \/ j = p /\ p <= d
                              \/ j > d /\ p <= 2 * n
                              \/ j = c + p /\ p > d
      BY <1>5
    <2>3. s[p] = <<e, 1>>
      BY <2>2, <1>13 DEF TextAt
    <2>4. PICK y \in 1..r : p = 2 * y - 1 /\ q[y] = e
      BY <2>3, <1>4
    <2>5. TextAt(s, e, p)
      <3>1. 2 * y - 1 \in 1..m /\ 2 * y \in 1..m /\ (2 * y - 1) + 1 = 2 * y
        BY <1>1
      <3>2. s[2 * y - 1] = <<q[y], 1>> /\ s[2 * y] = <<q[y], 2>>
        BY <1>3
      <3>3. 2 * y - 1 > 1 => s[(2 * y - 1) - 1][2] = 2
        <4>1. HAVE 2 * y - 1 > 1
        <4>2. y - 1 \in 1..r /\ 2 * (y - 1) = (2 * y - 1) - 1
          BY <4>1
        <4>3. s[2 * (y - 1)] = <<q[y - 1], 2>>
          BY <4>2, <1>3
        <4> QED BY <4>2, <4>3
      <3> QED BY <2>4, <3>1, <3>2, <3>3, <1>1 DEF TextAt
    <2>6. PICK i \in 1..(p - 1) : TextAt(s, f, i)
      BY <2>1, <2>5, <1>1, <1>13 DEF Survives
    <2>7. PICK x \in 1..r : i = 2 * x - 1 /\ q[x] = f
      <3>1. i \in 1..m /\ s[i] = <<f, 1>>
        BY <2>6, <1>1 DEF TextAt
      <3> QED BY <3>1, <1>4
    <2>8. 2 * x - 1 < p
      BY <2>6, <2>7
    <2>9. CASE 2 * x - 1 # d
      <3>1. at(x) \in 1..Len(w) /\ TextAt(w, f, at(x))
        BY <2>7, <2>9, <1>6
      <3>2. at(x) < j
        BY <2>2, <2>4, <2>8, <2>9 DEF at
      <3>3. at(x) \in 1..(j - 1)
        BY <3>1, <3>2, <1>2
      <3> QED BY <2>1, <3>1, <3>3
    <2>10. CASE 2 * x - 1 = d
      <3>1. j = c + p /\ p > d
        BY <2>2, <2>8, <2>10
      <3>2. CASE f \in Whole(w)
        <4>1. PICK z \in 1..Len(w) : TextAt(w, f, z)
          BY <3>2 DEF Whole
        <4>2. PICK o \in 1..m : /\ w[z] = s[o]
                               /\ \/ z = o /\ o <= d
                                  \/ z > d /\ o <= 2 * n
                                  \/ z = c + o /\ o > d
          BY <1>5
        <4>3. s[o] = <<f, 1>>
          BY <4>1, <4>2 DEF TextAt
        <4>4. PICK v \in 1..r : o = 2 * v - 1 /\ q[v] = f
          BY <4>3, <1>4
        <4>5. v = x
          BY <4>4, <2>7, <1>1 DEF Lines, Distinct
        <4>6. z = o /\ o = d
          BY <4>2, <4>4, <4>5, <2>10
        <4>7. z \in 1..(j - 1)
          BY <3>1, <4>6
        <4> QED BY <2>1, <4>1, <4>7
      <3>3. f \in L
        <4>1. s[2 * x - 1] = <<q[x], 1>> /\ 2 * x - 1 \in 1..m
          BY <1>1, <1>3
        <4> QED BY <4>1, <2>7, <1>1 DEF Survives
      <3> QED BY <2>1, <3>2, <3>3 DEF Missing
    <2> QED BY <2>9, <2>10
  <1>14. LineEnds(w)
    <2> SUFFICES ASSUME w # <<>> PROVE w[Len(w)][2] = 2
      BY DEF LineEnds
    <2>1. m + c > 0
      BY <1>2, EmptySeq
    <2>2. CASE m > d
      <3>1. m \in (d + 1)..m /\ r \in 1..r /\ c + m = Len(w)
        BY <2>2, <1>1, <1>2
      <3>2. w[c + m] = s[m] /\ s[m] = <<q[r], 2>>
        BY <3>1, <1>1, <1>2, <1>3
      <3> QED BY <3>1, <3>2
    <2>3. CASE m = d /\ c > 0
      <3>1. c \in 1..c /\ n \in 1..r /\ d + c = Len(w)
        BY <2>3, <1>1, <1>2
      <3>2. w[d + c] = s[2 * n] /\ s[2 * n] = <<q[n], 2>>
        BY <3>1, <1>3
      <3> QED BY <3>1, <3>2
    <2>4. CASE m = d /\ c = 0
      <3>1. d \in 1..d /\ r \in 1..r /\ d = Len(w)
        BY <2>1, <2>4, <1>1, <1>2
      <3>2. w[d] = s[d] /\ s[d] = <<q[r], 2>>
        BY <2>4, <3>1, <1>1, <1>3
      <3> QED BY <3>1, <3>2
    <2> QED BY <2>2, <2>3, <2>4, <1>2
  <1> QED BY <1>10, <1>11, <1>12, <1>13, <1>14 DEF Survives

-----------------------------------------------------------------------------
(* The trace.                                                              *)

\* How many events of t have left its ring.
Gone(t) == committed[t] - Len(ring[t])

\* A ring holds the last events of its thread, in order.
RingsInv ==
  \A t \in Threads :
    /\ Len(ring[t]) <= committed[t]
    /\ \A i \in 1..Len(ring[t]) : ring[t][i] = <<t, Gone(t) + i>>

\* The child's buffer is a copy of what stood in front of the end of a text at the
\* time of the fork.  Either the parent has written nothing since, or all of that.
Copy ==
  \E a, c, n \in Nat :
    /\ a + c = 2 * n /\ 2 * n <= Len(Written) /\ Len(child.buf) = c
    /\ \A i \in 1..c : child.buf[i] = Written[a + i]
    /\ Len(disk) = a \/ Len(disk) >= 2 * n
    /\ \A e \in child.before : \E i \in 1..(2 * n) : Written[i] = <<e, 1>>

\* The trace survives; and until the child closes its file it consists of the texts of
\* the events that have left their rings.
TraceInv ==
  /\ RingsInv /\ LineEnds(Written)
  /\ Survives(Written, LeftRings, child.before)
  /\ child.at \in {"none", "forked"} =>
       Missing(Written, LeftRings) = {} /\ \E q : Lines(Written, q)
  /\ child.at = "forked" => Copy

LEMMA TraceInit == ForkInit => TraceInv
  <1> SUFFICES ASSUME ForkInit PROVE TraceInv
    OBVIOUS
  <1>1. /\ ring = [t \in Threads |-> <<>>] /\ committed = [t \in Threads |-> 0]
        /\ disk = <<>> /\ fbuf = <<>> /\ child.at = "none" /\ child.before = {}
    BY DEF ForkInit, Init, NoChild
  <1>2. <<>> \o <<>> = <<>> /\ Len(<<>>) = 0 /\ <<>> \in Seq(Event)
    BY EmptySeq, ConcatEmptySeq
  <1>3. Written = <<>>
    BY <1>1, <1>2 DEF Written
  <1>4. RingsInv
    BY <1>1, <1>2 DEF RingsInv, Gone
  <1>5. LeftRings = {}
    <2>1. \A e \in Event : e[1] \in Threads /\ e[2] \in 1..MaxEvents
      BY DEF Event
    <2> QED BY <1>1, <2>1, LimitAssumption DEF LeftRings, Committed
  <1>6. Lines(<<>>, <<>>)
    BY <1>2 DEF Lines, Distinct
  <1>7. Survives(<<>>, {}, {}) /\ Missing(<<>>, {}) = {}
    BY <1>2 DEF Survives, Missing
  <1>8. LineEnds(<<>>)
    BY DEF LineEnds
  <1> QED BY <1>1, <1>3, <1>4, <1>5, <1>6, <1>7, <1>8 DEF TraceInv

\* What TypeOK says of the events and their texts.
LEMMA EventTypes ==
  ASSUME IInv
  PROVE  /\ disk \in Seq(Part) /\ fbuf \in Seq(Part) /\ Written \in Seq(Part)
         /\ LeftRings \subseteq Event
         /\ \A t \in Threads : /\ ring[t] \in Seq(Event) /\ Len(ring[t]) \in Nat
                               /\ committed[t] \in 0..MaxEvents /\ committed[t] \in Nat
  <1>1. disk \in Seq(Part) /\ fbuf \in Seq(Part)
    BY DEF IInv, TypeOK, LogTypes
  <1>2. Written \in Seq(Part)
    BY WrittenTypes
  <1>3. \A t \in Threads : ring[t] \in Seq(Event) /\ committed[t] \in 0..MaxEvents
    BY DEF IInv, TypeOK, ThreadTypes
  <1>4. \A t \in Threads : Len(ring[t]) \in Nat /\ committed[t] \in Nat
    BY <1>3, LenProperties, LimitAssumption
  <1>5. LeftRings \subseteq Event
    BY DEF LeftRings, Committed
  <1> QED BY <1>1, <1>2, <1>3, <1>4, <1>5

\* What has left its ring is what is not in it.
LEMMA LeftRingsGone ==
  ASSUME IInv, RingsInv
  PROVE  \A t \in Threads, k \in 1..MaxEvents : <<t, k>> \in LeftRings <=> k <= Gone(t)
  <1> TAKE t \in Threads, k \in 1..MaxEvents
  <1>1. PICK c, n \in Nat : c = committed[t] /\ n = Len(ring[t])
    BY EventTypes
  <1>2. /\ n <= c /\ Gone(t) = c - n
        /\ \A i \in 1..n : ring[t][i] = <<t, (c - n) + i>>
    BY <1>1 DEF RingsInv, Gone
  <1>3. <<t, k>> \in Elements(ring[t]) <=> k > c - n /\ k <= c
    <2>1. ASSUME <<t, k>> \in Elements(ring[t]) PROVE k > c - n /\ k <= c
      <3>1. PICK i \in 1..n : ring[t][i] = <<t, k>>
        BY <1>1, <2>1 DEF Elements
      <3>2. k = (c - n) + i
        BY <1>2, <3>1
      <3> QED BY <1>2, <3>2
    <2>2. ASSUME k > c - n, k <= c PROVE <<t, k>> \in Elements(ring[t])
      <3>1. k - (c - n) \in 1..n /\ (c - n) + (k - (c - n)) = k
        BY <1>2, <2>2, LimitAssumption
      <3>2. ring[t][k - (c - n)] = <<t, k>>
        BY <1>2, <3>1
      <3> QED BY <1>1, <3>1, <3>2 DEF Elements
    <2> QED BY <2>1, <2>2
  <1>4. <<t, k>> \in Committed <=> k <= c
    BY <1>1 DEF Committed, Event
  <1>5. <<t, k>> \in LeftRings <=> <<t, k>> \in Committed /\ <<t, k>> \notin Elements(ring[t])
    BY DEF LeftRings
  <1>6. k <= c - n <=> k <= c /\ ~(k > c - n /\ k <= c)
    BY <1>2, LimitAssumption
  <1> QED BY <1>2, <1>3, <1>4, <1>5, <1>6

\* A commit puts the next event behind the others of its ring.
LEMMA CommitRings ==
  ASSUME IInv, RingsInv, NEW t \in Threads, Commit(t)
  PROVE  RingsInv' /\ LeftRings' = LeftRings
  <1>1. PICK c, n \in Nat : c = committed[t] /\ n = Len(ring[t])
    BY EventTypes
  <1>2. /\ committed' = [committed EXCEPT ![t] = c + 1]
        /\ ring' = [ring EXCEPT ![t] = Append(@, <<t, c + 1>>)]
        /\ committed \in [Threads -> 0..MaxEvents] /\ ring \in [Threads -> Seq(Event)]
    BY <1>1 DEF Commit, IInv, TypeOK, ThreadTypes
  <1>3. /\ committed'[t] = c + 1 /\ ring'[t] = Append(ring[t], <<t, c + 1>>)
        /\ \A u \in Threads : u # t => committed'[u] = committed[u] /\ ring'[u] = ring[u]
    BY <1>2
  <1>4. <<t, c + 1>> \in Event
    BY <1>1, CommitAdds
  <1>5. PICK q : q = Append(ring[t], <<t, c + 1>>)
    OBVIOUS
  <1>6. /\ Len(q) = n + 1 /\ q[n + 1] = <<t, c + 1>>
        /\ \A i \in 1..n : q[i] = ring[t][i]
    BY <1>1, <1>4, <1>5, EventTypes, AppendProperties
  <1>7. Gone(t) = c - n /\ Gone(t)' = c - n /\ n <= c
    BY <1>1, <1>3, <1>5, <1>6 DEF Gone, RingsInv
  <1>8. \A u \in Threads : Gone(u)' = Gone(u)
    BY <1>3, <1>7 DEF Gone
  <1>9. /\ n + 1 <= c + 1
         /\ \A i \in 1..(n + 1) : q[i] = <<t, (c - n) + i>>
    <2>1. \A i \in 1..n : ring[t][i] = <<t, (c - n) + i>>
      BY <1>1, <1>7 DEF RingsInv
    <2>2. n + 1 <= c + 1
      BY <1>1, <1>7
    <2>3. ASSUME NEW i \in 1..(n + 1) PROVE q[i] = <<t, (c - n) + i>>
      <3>1. i \in 1..n \/ i = n + 1
        BY <1>1
      <3>2. CASE i \in 1..n
        BY <1>6, <2>1, <3>2
      <3>3. CASE i = n + 1
        <4>1. (c - n) + i = c + 1
          BY <1>1, <3>3
        <4> QED BY <1>6, <3>3, <4>1
      <3> QED BY <3>1, <3>2, <3>3
    <2> QED BY <2>2, <2>3
  <1>10. \A u \in Threads :
           /\ Len(ring'[u]) <= committed'[u]
           /\ \A i \in 1..Len(ring'[u]) : ring'[u][i] = <<u, Gone(u)' + i>>
    <2> TAKE u \in Threads
    <2>1. CASE u = t
      BY <2>1, <1>3, <1>5, <1>6, <1>7, <1>9
    <2>2. CASE u # t
      BY <2>2, <1>3, <1>8 DEF RingsInv
    <2> QED BY <2>1, <2>2
  <1>11. LeftRings' = LeftRings
    <2>1. PICK f : f = <<t, committed[t] + 1>>
      OBVIOUS
    <2>2. /\ f \notin Committed /\ f[1] = t /\ Committed' = Committed \cup {f}
          /\ Elements(ring'[t]) = Elements(ring[t]) \cup {f}
          /\ \A u \in Threads : u # t => ring'[u] = ring[u]
      BY <2>1, CommitAdds
    <2>3. \A e \in Committed' : e[1] \in Threads
      BY DEF Committed, Event
    <2> QED BY <2>2, <2>3 DEF LeftRings
  <1> QED BY <1>8, <1>10, <1>11 DEF RingsInv

\* e leaves its ring, as the next of its thread, and is written.
NextLine(e) ==
  /\ e \notin LeftRings /\ LeftRings' = LeftRings \cup {e}
  /\ \A k \in 1..(e[2] - 1) : <<e[1], k>> \in LeftRings
  /\ Written' = Written \o Text(e)

\* The scan takes the first event that has not left its ring.
LEMMA ScanRings ==
  ASSUME IInv, RingsInv, NEW s, ScanEvent(s)
  PROVE  RingsInv' /\ \E e \in Event : NextLine(e)
  <1>1. PICK c : c = Current
    OBVIOUS
  <1>2. /\ c \in Threads /\ ring[c] # <<>> /\ ring \in [Threads -> Seq(Event)]
        /\ Fwrite(Head(ring[c])) /\ ring' = [ring EXCEPT ![c] = Tail(@)]
        /\ committed' = committed
    BY <1>1, CurrentRing DEF ScanEvent, Take, IInv, TypeOK, ThreadTypes
  <1>3. /\ ring'[c] = Tail(ring[c])
        /\ \A u \in Threads : u # c => ring'[u] = ring[u]
    BY <1>2, Zenon
  <1>4. PICK g, n \in Nat : g = Gone(c) /\ n = Len(ring[c])
    <2>1. committed[c] \in Nat /\ Len(ring[c]) \in Nat
      BY <1>2, EventTypes
    <2>2. Len(ring[c]) <= committed[c]
      BY <1>2 DEF RingsInv
    <2>3. committed[c] - Len(ring[c]) \in Nat
      BY <2>1, <2>2
    <2> QED BY <2>1, <2>3 DEF Gone
  <1>5. /\ n > 0 /\ Head(ring[c]) = ring[c][1] /\ Head(ring[c]) \in Event
        /\ Len(Tail(ring[c])) = n - 1
        /\ \A i \in 1..(n - 1) : Tail(ring[c])[i] = ring[c][i + 1]
    BY <1>2, <1>4, EventTypes, HeadTailProperties, EmptySeq
  <1>6. Head(ring[c]) = <<c, g + 1>>
    BY <1>2, <1>4, <1>5 DEF RingsInv
  <1>7. Written' = Written \o Text(<<c, g + 1>>) /\ <<c, g + 1>> \in Event
    BY <1>2, <1>5, <1>6, FwriteAppends DEF IInv, TypeOK
  <1>8. g + 1 \in 1..MaxEvents
    BY <1>4, <1>7 DEF Event
  <1>9. /\ Gone(c)' = g + 1
        /\ \A u \in Threads : u # c => Gone(u)' = Gone(u)
    <2>1. committed[c] - n = g /\ committed[c] \in Nat
      BY <1>2, <1>4, EventTypes DEF Gone
    <2> QED BY <1>2, <1>3, <1>4, <1>5, <2>1 DEF Gone
  <1>10. \A u \in Threads :
           /\ Len(ring'[u]) <= committed'[u]
           /\ \A i \in 1..Len(ring'[u]) : ring'[u][i] = <<u, Gone(u)' + i>>
    <2> TAKE u \in Threads
    <2>1. CASE u = c
      <3>1. \A i \in 1..(n - 1) : i + 1 \in 1..n /\ g + (i + 1) = (g + 1) + i
        BY <1>4
      <3>2. \A i \in 1..(n - 1) : Tail(ring[c])[i] = <<c, (g + 1) + i>>
        BY <1>2, <1>4, <1>5, <3>1 DEF RingsInv
      <3>3. n - 1 <= committed[c]
        BY <1>2, <1>4, EventTypes DEF RingsInv
      <3>4. ring'[u] = Tail(ring[c]) /\ committed'[u] = committed[c]
        BY <2>1, <1>2, <1>3
      <3>5. Len(ring'[u]) = n - 1 /\ Gone(u)' = g + 1
        BY <2>1, <1>5, <1>9, <3>4
      <3>6. \A i \in 1..Len(ring'[u]) : ring'[u][i] = <<u, Gone(u)' + i>>
        BY <2>1, <3>2, <3>4, <3>5, Zenon
      <3> QED BY <3>3, <3>4, <3>5, <3>6
    <2>2. CASE u # c
      <3>1. ring'[u] = ring[u] /\ committed'[u] = committed[u] /\ Gone(u)' = Gone(u)
        BY <2>2, <1>2, <1>3, <1>9
      <3> QED BY <3>1 DEF RingsInv
    <2> QED BY <2>1, <2>2
  <1>11. PICK e \in Event : e = <<c, g + 1>> /\ e = Head(ring[c])
    BY <1>5, <1>6
  <1>12. /\ e \notin LeftRings
         /\ \A k \in 1..(e[2] - 1) : <<e[1], k>> \in LeftRings
    <2>1. \A k \in 1..MaxEvents : <<c, k>> \in LeftRings <=> k <= g
      BY <1>2, <1>4, LeftRingsGone
    <2>2. \A k \in 1..((g + 1) - 1) : k \in 1..MaxEvents /\ k <= g
      BY <1>4, <1>8, LimitAssumption
    <2>3. ~(g + 1 <= g)
      BY <1>4
    <2>4. e \notin LeftRings
      BY <1>8, <1>11, <2>1, <2>3
    <2>5. \A k \in 1..((g + 1) - 1) : <<c, k>> \in LeftRings
      BY <2>1, <2>2
    <2> QED BY <1>11, <2>4, <2>5
  <1>13. LeftRings' = LeftRings \cup {e}
    <2>1. Elements(ring[c]) = {e} \cup Elements(ring'[c])
      BY <1>2, <1>3, <1>11, EventTypes, HeadTailElements
    <2>2. e \notin Elements(ring'[c])
      <3>1. \A i \in 1..Len(ring'[c]) : ring'[c][i] = <<c, (g + 1) + i>>
        BY <1>2, <1>9, <1>10
      <3>2. \A i \in 1..(n - 1) : (g + 1) + i # g + 1
        BY <1>4
      <3>3. Len(ring'[c]) = n - 1
        BY <1>3, <1>5
      <3> QED BY <1>11, <3>1, <3>2, <3>3 DEF Elements
    <2>3. Committed' = Committed
      BY <1>2 DEF Committed
    <2>4. e \in Committed
      <3>1. g + 1 <= committed[c]
        BY <1>2, <1>4, <1>5, EventTypes DEF Gone
      <3> QED BY <1>11, <3>1 DEF Committed
    <2>5. \A f \in Committed : f[1] \in Threads
      BY DEF Committed, Event
    <2>6. e[1] = c
      BY <1>11
    <2>7. \A f \in Committed :
            f \notin Elements(ring'[f[1]]) <=> f = e \/ f \notin Elements(ring[f[1]])
      BY <1>3, <2>1, <2>2, <2>5, <2>6
    <2> QED BY <2>3, <2>4, <2>7 DEF LeftRings
  <1>14. Written' = Written \o Text(e)
    BY <1>7, <1>11
  <1>15. RingsInv'
    BY <1>10 DEF RingsInv
  <1>16. NextLine(e)
    BY <1>12, <1>13, <1>14 DEF NextLine
  <1> QED BY <1>15, <1>16

\* The file grows only by what is in the buffer, and then by all of it.
LEMMA DiskGrows ==
  ASSUME IInv, [Next]_vars
  PROVE  disk' = disk \/ Len(disk') >= Len(Written)
  <1>1. CASE UNCHANGED vars \/ Finished
    BY <1>1 DEF Finished, vars, fileVars
  <1>2. ASSUME NEW t \in Threads, ThreadStep(t) PROVE disk' = disk
    BY <1>2 DEF ThreadStep, LogEvent, Allocate, Register, Reserve, Commit, ThreadExit,
       fileVars
  <1>3. ASSUME NEW s \in {Main, Backend}, ScanEvent(s)
        PROVE  disk' = disk \/ Len(disk') >= Len(Written)
    <2>1. PICK e : Fwrite(e) /\ e = Head(ring[Current])
      BY <1>3 DEF ScanEvent
    <2>2. e \in Event
      <3>1. PICK c : c = Current
        OBVIOUS
      <3>2. c \in Threads /\ ring[c] \in Seq(Event) /\ ring[c] # <<>>
        BY <1>3, <3>1, CurrentRing DEF ScanEvent, IInv, TypeOK, ThreadTypes
      <3> QED BY <2>1, <3>1, <3>2, HeadTailProperties
    <2>3. CASE ~HasRoom
      <3>1. PICK n \in 0..1 : disk' = Written \o SubSeq(Text(e), 1, n)
        BY <2>1, <2>3 DEF Fwrite, Written
      <3>2. PICK f \in Seq(Part) : f = SubSeq(Text(e), 1, n)
        BY <2>2, TextProps
      <3>3. Len(Written \o f) = Len(Written) + Len(f) /\ Len(Written) \in Nat /\ Len(f) \in Nat
        BY EventTypes, ConcatProperties, LenProperties
      <3> QED BY <3>1, <3>2, <3>3
    <2> QED BY <2>1, <2>3 DEF Fwrite
  <1>4. ASSUME NEW s \in {Main, Backend}, Scan(s), ~ScanEvent(s) PROVE disk' = disk
    BY <1>4 DEF Scan, ScanLock, ScanEmpty, ScanDead, ScanReclaim, ScanUnlock, fileVars
  <1>5. CASE BackendFlush \/ CloseFlush
    <2>1. disk' = disk \/ disk' = Written
      BY <1>5 DEF BackendFlush, CloseFlush, Fflush, Written, fileVars
    <2>2. Len(Written) \in Nat
      BY EventTypes, LenProperties
    <2> QED BY <2>1, <2>2
  <1>6. CASE BackendCheck \/ BackendDrain \/ SignalFlush \/ LogInit
             \/ LogClose \/ CloseRequest \/ CloseJoin \/ CloseFile \/ ClearFile
    BY <1>6 DEF BackendCheck, BackendDrain, SignalFlush, LogInit,
       LogClose, CloseRequest, CloseJoin, CloseFile, ClearFile, fileVars
  <1> QED BY <1>1, <1>2, <1>3, <1>4, <1>5, <1>6 DEF Next, BackendStep, MainStep

\* What a step of the parent adds behind what is written.
LEMMA WrittenStep ==
  ASSUME IInv, RingsInv, [Next]_vars
  PROVE  /\ RingsInv'
         /\ \/ Written' = Written /\ LeftRings' = LeftRings
            \/ \E e \in Event : NextLine(e)
  <1>1. ASSUME NEW t \in Threads, Commit(t)
        PROVE  RingsInv' /\ Written' = Written /\ LeftRings' = LeftRings
    BY <1>1, CommitRings, CommitAdds
  <1>2. CASE \E s \in {Main, Backend} : ScanEvent(s)
    BY <1>2, ScanRings
  <1>3. CASE (\A t \in Threads : ~Commit(t)) /\ \A s \in {Main, Backend} : ~ScanEvent(s)
    <2>1. UNCHANGED <<committed, ring, Written>>
      BY <1>3, OtherSteps
    <2> QED BY <2>1 DEF RingsInv, Gone, LeftRings, Committed
  <1> QED BY <1>1, <1>2, <1>3

\* A text more.
LEMMA LinesAppend ==
  ASSUME NEW s \in Seq(Part), NEW q, Lines(s, q), NEW e \in Event,
         \A i \in 1..Len(s) : s[i][1] # e
  PROVE  Lines(s \o Text(e), Append(q, e))
  <1>1. PICK n \in Nat : n = Len(q) /\ Len(s) = 2 * n
    BY LenProperties DEF Lines
  <1>2. PICK t \in Seq(Part) : t = Text(e) /\ Len(t) = 2 /\ t[1] = <<e, 1>> /\ t[2] = <<e, 2>>
    BY TextProps DEF Text
  <1>3. PICK w, p : w = s \o t /\ p = Append(q, e)
    OBVIOUS
  <1>4. /\ w \in Seq(Part) /\ Len(w) = Len(s) + Len(t)
        /\ \A j \in 1..(Len(s) + Len(t)) : w[j] = IF j <= Len(s) THEN s[j] ELSE t[j - Len(s)]
    BY <1>3, ConcatProperties, Zenon
  <1>5. /\ w[2 * n + 1] = <<e, 1>> /\ w[2 * n + 2] = <<e, 2>> /\ Len(w) = 2 * n + 2
        /\ \A j \in 1..(2 * n) : w[j] = s[j]
    <2>1. /\ (2 * n + 1) - 2 * n = 1 /\ (2 * n + 2) - 2 * n = 2
          /\ ~(2 * n + 1 <= 2 * n) /\ ~(2 * n + 2 <= 2 * n)
      BY <1>1
    <2>2. \A j \in 1..(2 * n + 2) : w[j] = IF j <= 2 * n THEN s[j] ELSE t[j - 2 * n]
      BY <1>1, <1>2, <1>4
    <2>3. w[2 * n + 1] = t[1] /\ w[2 * n + 2] = t[2]
      <3>1. 2 * n + 1 \in 1..(2 * n + 2) /\ 2 * n + 2 \in 1..(2 * n + 2)
        BY <1>1
      <3>2. /\ w[2 * n + 1] = t[(2 * n + 1) - 2 * n]
            /\ w[2 * n + 2] = t[(2 * n + 2) - 2 * n]
        BY ONLY <2>1, <2>2, <3>1
      <3> QED BY <2>1, <3>2
    <2>4. \A j \in 1..(2 * n) : w[j] = s[j]
      BY <1>1, <2>2
    <2> QED BY <1>1, <1>2, <1>4, <2>3, <2>4
  <1>6. /\ p \in Seq(Event) /\ Len(p) = n + 1 /\ p[n + 1] = e
        /\ \A j \in 1..n : p[j] = q[j]
    BY <1>1, <1>3, AppendProperties DEF Lines
  <1>7. \A j \in 1..n : s[2 * j - 1] = <<q[j], 1>> /\ s[2 * j] = <<q[j], 2>> /\ q[j] # e
    <2> TAKE j \in 1..n
    <2>1. s[2 * j - 1] = <<q[j], 1>> /\ s[2 * j] = <<q[j], 2>>
      BY <1>1, Zenon DEF Lines
    <2>2. 2 * j \in 1..Len(s)
      BY <1>1
    <2> QED BY <2>1, <2>2
  <1>8. ASSUME NEW j \in 1..(n + 1)
        PROVE  w[2 * j - 1] = <<p[j], 1>> /\ w[2 * j] = <<p[j], 2>>
    <2>1. CASE j \in 1..n
      <3>1. 2 * j - 1 \in 1..(2 * n) /\ 2 * j \in 1..(2 * n)
        BY <2>1
      <3> QED BY <2>1, <3>1, <1>5, <1>6, <1>7
    <2>2. CASE j = n + 1
      <3>1. 2 * j - 1 = 2 * n + 1 /\ 2 * j = 2 * n + 2
        BY <2>2
      <3> QED BY <2>2, <3>1, <1>5, <1>6
    <2> QED BY <2>1, <2>2
  <1>9. ASSUME NEW i \in 1..(n + 1), NEW j \in 1..(n + 1), p[i] = p[j] PROVE i = j
    <2>1. i \in 1..n \/ i = n + 1
      OBVIOUS
    <2>2. j \in 1..n \/ j = n + 1
      OBVIOUS
    <2>3. \A x, y \in 1..n : q[x] = q[y] => x = y
      BY <1>1 DEF Lines, Distinct
    <2> QED BY <2>1, <2>2, <2>3, <1>6, <1>7, <1>9
  <1>10. Len(w) = 2 * Len(p)
    BY <1>5, <1>6
  <1>11. Lines(w, p)
    BY <1>6, <1>8, <1>9, <1>10 DEF Lines, Distinct
  <1> QED BY <1>2, <1>3, <1>11

\* The parent writes on while the child has its copy.
LEMMA CopyStep ==
  ASSUME IInv, IInv', Copy, [Next]_vars, UNCHANGED child,
         Written' = Written \/ \E e \in Event : Written' = Written \o Text(e)
  PROVE  Copy'
  <1>1. PICK a, c, n \in Nat :
          /\ a + c = 2 * n /\ 2 * n <= Len(Written) /\ Len(child.buf) = c
          /\ \A i \in 1..c : child.buf[i] = Written[a + i]
          /\ Len(disk) = a \/ Len(disk) >= 2 * n
          /\ \A f \in child.before : \E i \in 1..(2 * n) : Written[i] = <<f, 1>>
    BY DEF Copy
  <1>2. PICK m \in Nat : m = Len(Written)
    BY EventTypes, LenProperties
  <1>3. PICK v : v = Written'
    OBVIOUS
  <1>4. PICK k \in Nat : k = Len(v) /\ k >= m /\ \A i \in 1..m : v[i] = Written[i]
    <2>1. CASE Written' = Written
      BY <2>1, <1>2, <1>3
    <2>2. ASSUME NEW e \in Event, Written' = Written \o Text(e)
          PROVE  Len(v) \in Nat /\ Len(v) >= m /\ \A i \in 1..m : v[i] = Written[i]
      <3>1. PICK t \in Seq(Part) : t = Text(e) /\ Len(t) = 2
        BY TextProps
      <3>2. /\ Len(Written \o t) = Len(Written) + Len(t)
            /\ \A j \in 1..(Len(Written) + Len(t)) :
                 (Written \o t)[j] = IF j <= Len(Written) THEN Written[j] ELSE t[j - Len(Written)]
        BY EventTypes, ConcatProperties
      <3> QED BY <2>2, <3>1, <3>2, <1>2, <1>3
    <2> QED BY <2>1, <2>2
  <1>5. \A i \in 1..c : child.buf[i] = v[a + i]
    <2>1. \A i \in 1..c : a + i \in 1..m
      BY <1>1, <1>2
    <2> QED BY <1>1, <1>4, <2>1
  <1>6. PICK x : x = Len(disk')
    OBVIOUS
  <1>7. x = a \/ x >= 2 * n
    <2>1. x \in Nat
      <3>1. disk' \in Seq(Part)
        BY DEF IInv, TypeOK, LogTypes
      <3> QED BY <1>6, <3>1, LenProperties
    <2>2. CASE disk' = disk
      BY <1>1, <1>6, <2>2
    <2>3. CASE x >= m
      BY <2>1, <2>3, <1>1, <1>2
    <2> QED BY <2>2, <2>3, <1>2, <1>6, DiskGrows
  <1>8. \A f \in child.before : \E i \in 1..(2 * n) : v[i] = <<f, 1>>
    <2>1. \A i \in 1..(2 * n) : i \in 1..m
      BY <1>1, <1>2
    <2> QED BY <1>1, <1>4, <2>1
  <1>9. 2 * n <= k
    BY <1>1, <1>2, <1>4
  <1>10. /\ a + c = 2 * n /\ 2 * n <= Len(Written') /\ Len(child'.buf) = c
         /\ \A i \in 1..c : child'.buf[i] = Written'[a + i]
         /\ Len(disk') = a \/ Len(disk') >= 2 * n
         /\ \A f \in child'.before : \E i \in 1..(2 * n) : Written'[i] = <<f, 1>>
    BY <1>1, <1>3, <1>4, <1>5, <1>6, <1>7, <1>8, <1>9
  <1>11. \E x1, x2, x3 \in Nat :
           /\ x1 + x2 = 2 * x3 /\ 2 * x3 <= Len(Written') /\ Len(child'.buf) = x2
           /\ \A i \in 1..x2 : child'.buf[i] = Written'[x1 + i]
           /\ Len(disk') = x1 \/ Len(disk') >= 2 * x3
           /\ \A f \in child'.before : \E i \in 1..(2 * x3) : Written'[i] = <<f, 1>>
    <2>1. a \in Nat /\ c \in Nat /\ n \in Nat
      OBVIOUS
    <2> QED BY ONLY <1>10, <2>1, Zenon
  <1> QED BY <1>11 DEF Copy

\* The parent goes on.
LEMMA ParentTrace ==
  ASSUME IInv, IInv', TraceInv, [Next]_vars, UNCHANGED child
  PROVE  TraceInv'
  <1>1. Written \in Seq(Part) /\ LeftRings \subseteq Event
    BY EventTypes
  <1>2. RingsInv'
    BY WrittenStep DEF TraceInv
  <1>3. CASE Written' = Written /\ LeftRings' = LeftRings
    <2>1. child.at = "forked" => Copy'
      BY <1>3, CopyStep DEF TraceInv
    <2> QED BY <1>2, <1>3, <2>1 DEF TraceInv
  <1>4. ASSUME NEW e \in Event, NextLine(e) PROVE TraceInv'
    <2>0. /\ e \notin LeftRings /\ LeftRings' = LeftRings \cup {e}
          /\ \A k \in 1..(e[2] - 1) : <<e[1], k>> \in LeftRings
          /\ Written' = Written \o Text(e)
      BY <1>4 DEF NextLine
    <2>1. /\ Survives(Written \o Text(e), LeftRings \cup {e}, child.before)
          /\ Missing(Written \o Text(e), LeftRings \cup {e}) = Missing(Written, LeftRings)
      BY <1>1, <2>0, AppendSurvives DEF TraceInv
    <2>2. LineEnds(Written')
      BY <1>1, <2>0, TextReadable DEF TraceInv
    <2>3. ASSUME NEW q, Lines(Written, q) PROVE Lines(Written', Append(q, e))
      <3>1. \A i \in 1..Len(Written) : Written[i][1] # e
        BY <2>0 DEF TraceInv, Survives
      <3> QED BY <1>1, <2>0, <2>3, <3>1, LinesAppend
    <2>4. child.at = "forked" => Copy'
      BY <2>0, CopyStep DEF TraceInv
    <2>5. child'.at \in {"none", "forked"} =>
            Missing(Written', LeftRings') = {} /\ \E q : Lines(Written', q)
      BY <2>0, <2>1, <2>3 DEF TraceInv
    <2>6. Survives(Written', LeftRings', child'.before)
      BY <2>0, <2>1
    <2>7. child'.at = "forked" => Copy'
      BY <2>4
    <2> QED BY <1>2, <2>2, <2>5, <2>6, <2>7 DEF TraceInv
  <1>5. RingsInv
    BY DEF TraceInv
  <1> QED BY <1>3, <1>4, <1>5, WrittenStep

\* The fork.  The buffer is the end of what is written, and every event that has left
\* its ring is in there.
LEMMA ForkTrace ==
  ASSUME IInv, TraceInv, NEW t \in Threads, Fork(t)
  PROVE  TraceInv'
  <1>1. /\ child.at = "none"
        /\ child'.at = "forked" /\ child'.buf = fbuf /\ child'.before = LeftRings
        /\ UNCHANGED vars
    BY DEF Fork, NoChild
  <1>2. UNCHANGED <<Written, LeftRings, disk>> /\ (RingsInv => RingsInv')
    BY <1>1 DEF vars, fileVars, threadVars, Written, LeftRings, Committed, RingsInv, Gone
  <1>3. Missing(Written, LeftRings) = {}
    BY <1>1 DEF TraceInv
  <1>4. PICK q : Lines(Written, q)
    BY <1>1 DEF TraceInv
  <1>5. /\ disk \in Seq(Part) /\ fbuf \in Seq(Part) /\ Written = disk \o fbuf
    BY EventTypes DEF Written
  <1>6. PICK a, c, n, m \in Nat : a = Len(disk) /\ c = Len(fbuf) /\ n = Len(q) /\ m = Len(Written)
    BY <1>4, <1>5, EventTypes, LenProperties DEF Lines
  <1>7. /\ m = a + c /\ m = 2 * n
        /\ \A j \in 1..(a + c) : Written[j] = IF j <= a THEN disk[j] ELSE fbuf[j - a]
    BY <1>4, <1>5, <1>6, ConcatProperties DEF Lines
  <1>8. \A i \in 1..c : fbuf[i] = Written[a + i]
    <2>1. \A i \in 1..c : a + i \in 1..(a + c) /\ ~(a + i <= a) /\ (a + i) - a = i
      BY <1>6
    <2> QED BY <1>7, <2>1
  <1>9. \A e \in LeftRings : \E i \in 1..(2 * n) : Written[i] = <<e, 1>>
    <2>1. \A e \in LeftRings : e \in Whole(Written)
      BY <1>3 DEF Missing
    <2> QED BY <2>1, <1>6, <1>7 DEF Whole, TextAt
  <1>10. Copy'
    <2>1. Written' = Written /\ disk' = disk /\ 2 * n <= m
      BY <1>2, <1>7
    <2>2. /\ a + c = 2 * n /\ 2 * n <= Len(Written') /\ Len(child'.buf) = c
          /\ \A i \in 1..c : child'.buf[i] = Written'[a + i]
          /\ Len(disk') = a \/ Len(disk') >= 2 * n
          /\ \A e \in child'.before : \E i \in 1..(2 * n) : Written'[i] = <<e, 1>>
      BY <1>1, <2>1, <1>6, <1>7, <1>8, <1>9
    <2>3. \E x1, x2, x3 \in Nat :
            /\ x1 + x2 = 2 * x3 /\ 2 * x3 <= Len(Written') /\ Len(child'.buf) = x2
            /\ \A i \in 1..x2 : child'.buf[i] = Written'[x1 + i]
            /\ Len(disk') = x1 \/ Len(disk') >= 2 * x3
            /\ \A e \in child'.before : \E i \in 1..(2 * x3) : Written'[i] = <<e, 1>>
      BY <2>2, Zenon
    <2> QED BY <2>3 DEF Copy
  <1>11. Survives(Written, LeftRings, LeftRings)
    BY <1>3 DEF TraceInv, Survives
  <1> QED BY <1>1, <1>2, <1>3, <1>4, <1>10, <1>11 DEF TraceInv

\* The child's fclose.
LEMMA FcloseTrace ==
  ASSUME IInv, ChildInv, TraceInv, AtforkChild
  PROVE  TraceInv'
  <1>1. /\ child.at = "forked" /\ child'.at = "running" /\ child'.before = child.before
        /\ fbuf' = fbuf /\ LeftRings' = LeftRings /\ (RingsInv => RingsInv')
    <2>1. child' = Reset \/ child' = [child EXCEPT !.at = "running"]
      BY DEF AtforkChild
    <2>2. child'.at = "running" /\ child'.before = child.before
      BY <2>1 DEF Reset, ChildInv, ChildType
    <2>3. child.at = "forked" /\ fbuf' = fbuf /\ ring' = ring /\ committed' = committed
      BY DEF AtforkChild, threadVars
    <2>4. LeftRings' = LeftRings
      BY <2>3 DEF LeftRings, Committed
    <2>5. RingsInv => RingsInv'
      BY <2>3 DEF RingsInv, Gone
    <2> QED BY <2>2, <2>3, <2>4, <2>5
  <1>2. CASE disk' = disk
    <2>1. Written' = Written
      BY <1>1, <1>2 DEF Written
    <2> QED BY <1>1, <2>1 DEF TraceInv
  <1>3. CASE disk' = disk \o child.buf
    <2>1. PICK a, c, n \in Nat :
            /\ a + c = 2 * n /\ 2 * n <= Len(Written) /\ Len(child.buf) = c
            /\ \A i \in 1..c : child.buf[i] = Written[a + i]
            /\ Len(disk) = a \/ Len(disk) >= 2 * n
            /\ \A e \in child.before : \E i \in 1..(2 * n) : Written[i] = <<e, 1>>
      BY <1>1 DEF TraceInv, Copy
    <2>2. PICK q : Lines(Written, q) /\ Missing(Written, LeftRings) = {}
      BY <1>1 DEF TraceInv
    <2>3. PICK b, f, s, w : b = child.buf /\ f = fbuf /\ s = Written /\ w = Written'
      OBVIOUS
    <2>4. /\ disk \in Seq(Part) /\ f \in Seq(Part) /\ b \in Seq(Part) /\ s \in Seq(Part)
          /\ LeftRings \subseteq Event /\ s = disk \o f /\ w = (disk \o b) \o f
      BY <1>1, <1>3, <2>3, EventTypes DEF Written, ChildInv, ChildType
    <2>5. PICK x, y \in Nat : x = Len(disk) /\ y = Len(f) /\ c = Len(b)
      BY <2>1, <2>3, <2>4, LenProperties
    <2>6. /\ Len(s) = x + y
          /\ \A j \in 1..(x + y) : s[j] = IF j <= x THEN disk[j] ELSE f[j - x]
      BY <2>4, <2>5, ConcatProperties
    <2>7. PICK v \in Seq(Part) :
            /\ v = disk \o b /\ Len(v) = x + c
            /\ \A j \in 1..(x + c) : v[j] = IF j <= x THEN disk[j] ELSE b[j - x]
      <3>1. /\ disk \o b \in Seq(Part) /\ Len(disk \o b) = Len(disk) + Len(b)
            /\ \A j \in 1..(Len(disk) + Len(b)) :
                 (disk \o b)[j] = IF j <= Len(disk) THEN disk[j] ELSE b[j - Len(disk)]
        BY <2>4, ConcatProperties, Zenon
      <3> QED BY <2>5, <3>1
    <2>8. /\ w \in Seq(Part) /\ Len(w) = (x + c) + y
          /\ \A j \in 1..((x + c) + y) : w[j] = IF j <= x + c THEN v[j] ELSE f[j - (x + c)]
      BY <2>4, <2>5, <2>7, ConcatProperties
    \* The copy stands behind place x.
    <2>9. /\ \A i \in 1..x : w[i] = s[i]
          /\ \A i \in 1..c : w[x + i] = s[a + i]
          /\ \A i \in (x + 1)..(x + y) : w[c + i] = s[i]
      <3>1. ASSUME NEW i \in 1..x PROVE w[i] = s[i]
        <4>1. i \in 1..(x + y) /\ i \in 1..(x + c) /\ i \in 1..((x + c) + y) /\ i <= x + c /\ i <= x
          BY <2>5
        <4> QED BY <4>1, <2>6, <2>7, <2>8
      <3>2. ASSUME NEW i \in 1..c PROVE w[x + i] = s[a + i]
        <4>1. /\ x + i \in 1..(x + c) /\ x + i \in 1..((x + c) + y) /\ x + i <= x + c
              /\ ~(x + i <= x) /\ (x + i) - x = i
          BY <2>5
        <4>2. w[x + i] = b[i]
          BY <4>1, <2>7, <2>8
        <4> QED BY <4>2, <2>1, <2>3
      <3>3. ASSUME NEW i \in (x + 1)..(x + y) PROVE w[c + i] = s[i]
        <4>1. /\ i \in 1..(x + y) /\ ~(i <= x) /\ c + i \in 1..((x + c) + y)
              /\ ~(c + i <= x + c) /\ (c + i) - (x + c) = i - x
          BY <2>5
        <4> QED BY <4>1, <2>6, <2>8
      <3> QED BY <3>1, <3>2, <3>3
    \* If the parent has written nothing since the fork, the copy is what follows there,
    \* and might as well stand behind it.
    <2>10. PICK d \in Nat : 2 * n <= d /\ d <= Len(s) /\ Inserted(s, w, a, c, d)
      <3>1. CASE x >= 2 * n
        <4>1. 2 * n <= x /\ x <= Len(s) /\ Len(w) = Len(s) + c
          BY <2>1, <2>5, <2>6, <2>8, <3>1
        <4>2. Inserted(s, w, a, c, x)
          BY <2>6, <2>9, <4>1 DEF Inserted
        <4> QED BY <4>1, <4>2
      <3>2. CASE x = a
        <4>1. 2 * n \in Nat /\ 2 * n <= x + y /\ x + c = 2 * n
          BY <2>1, <2>3, <2>6, <3>2
        <4>2. ASSUME NEW i \in 1..(2 * n) PROVE w[i] = s[i]
          <5>1. CASE i <= x
            <6>1. i \in 1..x
              BY <5>1
            <6> QED BY <6>1, <2>9
          <5>2. CASE ~(i <= x)
            <6>1. i - x \in 1..c /\ x + (i - x) = i
              BY <4>1, <5>2
            <6> QED BY <6>1, <2>9, <3>2
          <5> QED BY <5>1, <5>2
        <4>3. ASSUME NEW i \in 1..c PROVE w[2 * n + i] = s[a + i]
          <5>1. x + i \in (x + 1)..(x + y) /\ c + (x + i) = 2 * n + i
            BY <4>1
          <5> QED BY <5>1, <2>9, <3>2
        <4>4. ASSUME NEW i \in (2 * n + 1)..(x + y) PROVE w[c + i] = s[i]
          <5>1. i \in (x + 1)..(x + y)
            BY <4>1
          <5> QED BY <5>1, <2>9
        <4>5. 2 * n <= 2 * n /\ 2 * n <= Len(s) /\ Len(s) = x + y /\ Len(w) = Len(s) + c
          BY <2>5, <2>6, <2>8, <4>1
        <4>6. Inserted(s, w, a, c, 2 * n)
          BY ONLY <4>2, <4>3, <4>4, <4>5, Zenon DEF Inserted
        <4> QED BY <4>1, <4>5, <4>6
      <3> QED BY <2>1, <2>5, <3>1, <3>2
    <2>11. Survives(s, LeftRings, {})
      BY <2>3 DEF TraceInv, Survives
    <2>12. Survives(w, LeftRings, child.before) /\ LineEnds(w)
      <3>1. Lines(s, q) /\ Missing(s, LeftRings) = {}
        BY <2>2, <2>3
      <3>2. \A e \in child.before : \E i \in 1..(2 * n) : s[i] = <<e, 1>>
        BY <2>1, <2>3
      <3>3. PICK B : B = child.before
        OBVIOUS
      <3>4. Survives(w, LeftRings, B) /\ LineEnds(w)
        BY <2>1, <2>4, <2>8, <2>10, <2>11, <3>1, <3>2, <3>3, InsertSurvives
      <3> QED BY <3>3, <3>4
    <2> QED BY <1>1, <2>3, <2>12 DEF TraceInv
  <1>4. disk' = disk \/ disk' = disk \o child.buf
    BY DEF AtforkChild, Fclose
  <1> QED BY <1>2, <1>3, <1>4

\* The child writes nothing else.
LEMMA ChildTrace ==
  ASSUME ChildInv, TraceInv, CloseTwice \/ ChildCall \/ ChildLog \/ ChildThreadEnd
  PROVE  TraceInv'
  <1>1. UNCHANGED <<Written, LeftRings, RingsInv>>
    <2>1. UNCHANGED vars
      BY DEF CloseTwice, ChildCall, ChildLog, ChildThreadEnd
    <2> QED BY <2>1 DEF vars, fileVars, threadVars, Written, LeftRings, Committed,
               RingsInv, Gone
  <1>2. child'.before = child.before /\ child'.at \notin {"none", "forked"}
    BY DEF CloseTwice, ChildCall, ChildLog, ChildThreadEnd, Reset, ChildInv, ChildType
  <1> QED BY <1>1, <1>2 DEF TraceInv

\* Whatever the parent had in its buffer when a thread of it forked, and wherever the
\* child's copy of it lands: one event at most is torn, by the child's fclose, and it
\* is none that had left its ring before the fork; nothing foreign is in the file; and
\* no first occurrence stands before that of an earlier event of its thread.
THEOREM TraceSurvivesFork == ForkSpec => []TraceSurvives
  <1>1. ForkInit => TraceInv
    BY TraceInit
  <1>2. ForkInv /\ ForkInv' /\ TraceInv /\ [ForkNext]_forkVars => TraceInv'
    <2> SUFFICES ASSUME ForkInv, ForkInv', TraceInv, [ForkNext]_forkVars PROVE TraceInv'
      OBVIOUS
    <2>1. IInv /\ IInv' /\ ChildInv
      BY DEF ForkInv
    <2>2. CASE [Next]_vars /\ UNCHANGED child
      BY <2>1, <2>2, ParentTrace
    <2>3. CASE \E t \in Threads : Fork(t)
      BY <2>1, <2>3, ForkTrace
    <2>4. CASE AtforkChild
      BY <2>1, <2>4, FcloseTrace
    <2>5. CASE CloseTwice \/ ChildCall \/ ChildLog \/ ChildThreadEnd
      BY <2>1, <2>5, ChildTrace
    <2> QED BY <2>2, <2>3, <2>4, <2>5 DEF ForkNext, ChildStep, forkVars
  <1>3. TraceInv => TraceSurvives
    BY DEF TraceInv, TraceSurvives, Survives, Missing, Torn, InOrder, Written
  <1> QED BY <1>1, <1>2, <1>3, ForkInvariance, PTL DEF ForkSpec
=============================================================================
