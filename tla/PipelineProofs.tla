--------------------------- MODULE PipelineProofs ---------------------------
(***************************************************************************)
(* Proofs about Pipeline, for any number of threads, rings and buffers of  *)
(* any size and any number of events and signals.                          *)
(***************************************************************************)
EXTENDS Pipeline, SequenceTheorems, TLAPS

-----------------------------------------------------------------------------
(* Sequences.                                                              *)

\* A sequence with one more element in front.
LEMMA PushProps ==
  \A S : \A s \in Seq(S), x \in S :
    /\ <<x>> \o s \in Seq(S)
    /\ Len(<<x>> \o s) = Len(s) + 1
    /\ (<<x>> \o s)[1] = x
    /\ \A i \in 1..Len(s) : (<<x>> \o s)[i + 1] = s[i]
  <1> TAKE S
  <1> TAKE s \in Seq(S), x \in S
  <1>1. <<x>> \in Seq(S) /\ Len(<<x>>) = 1 /\ <<x>>[1] = x
    OBVIOUS
  <1>2. Len(s) \in Nat
    BY LenProperties
  <1>3. /\ <<x>> \o s \in Seq(S)
        /\ Len(<<x>> \o s) = Len(<<x>>) + Len(s)
        /\ \A i \in 1 .. Len(<<x>>) + Len(s) : (<<x>> \o s)[i] =
             IF i <= Len(<<x>>) THEN <<x>>[i] ELSE s[i - Len(<<x>>)]
    BY <1>1, ConcatProperties
  <1> QED BY <1>1, <1>2, <1>3

\* An element that is new to the sequence keeps its elements distinct.
LEMMA PushNew ==
  \A S : \A s \in Seq(S), x \in S :
    Distinct(s) /\ x \notin Elements(s) =>
      /\ Distinct(<<x>> \o s)
      /\ Elements(<<x>> \o s) = Elements(s) \cup {x}
  <1> TAKE S
  <1> TAKE s \in Seq(S), x \in S
  <1> SUFFICES ASSUME Distinct(s), x \notin Elements(s)
               PROVE  /\ Distinct(<<x>> \o s)
                      /\ Elements(<<x>> \o s) = Elements(s) \cup {x}
    OBVIOUS
  <1>1. PICK u : u = <<x>> \o s
    OBVIOUS
  <1>2. /\ Len(s) \in Nat /\ Len(u) = Len(s) + 1 /\ u[1] = x
        /\ \A i \in 1..Len(s) : u[i + 1] = s[i]
    BY <1>1, PushProps, LenProperties
  <1>3. \A i \in 2..Len(u) : i - 1 \in 1..Len(s) /\ u[i] = s[i - 1]
    <2> TAKE i \in 2..Len(u)
    <2>1. i - 1 \in 1..Len(s) /\ (i - 1) + 1 = i
      BY <1>2
    <2> QED BY <1>2, <2>1
  <1>4. \A i \in 1..Len(s) : s[i] # x
    BY DEF Elements
  <1>5. ASSUME NEW i \in 1..Len(u), NEW j \in 1..Len(u), u[i] = u[j]
        PROVE  i = j
    <2>1. CASE i = 1 \/ j = 1
      BY ONLY <2>1, <1>2, <1>3, <1>4, <1>5
    <2>2. CASE i \in 2..Len(u) /\ j \in 2..Len(u)
      <3>1. s[i - 1] = s[j - 1] /\ i - 1 \in 1..Len(s) /\ j - 1 \in 1..Len(s)
        BY ONLY <2>2, <1>3, <1>5
      <3>2. i - 1 = j - 1
        BY <3>1, Zenon DEF Distinct
      <3> QED BY ONLY <3>2, <2>2, <1>2
    <2> QED BY ONLY <2>1, <2>2, <1>2
  <1>6. Elements(u) \subseteq Elements(s) \cup {x}
    BY ONLY <1>2, <1>3 DEF Elements
  <1>7. Elements(s) \cup {x} \subseteq Elements(u)
    <2>1. 1 \in 1..Len(u) /\ \A i \in 1..Len(s) : i + 1 \in 1..Len(u)
      BY ONLY <1>2
    <2>2. x \in Elements(u)
      BY <1>2, <2>1 DEF Elements
    <2>3. \A i \in 1..Len(s) : s[i] \in Elements(u)
      BY <1>2, <2>1, Zenon DEF Elements
    <2> QED BY <2>2, <2>3 DEF Elements
  <1> QED BY <1>1, <1>5, <1>6, <1>7 DEF Distinct

\* A sequence without its i-th element.
LEMMA UnlinkProps ==
  \A S : \A s \in Seq(S) : \A i \in 1..Len(s) :
    LET u == SubSeq(s, 1, i - 1) \o SubSeq(s, i + 1, Len(s)) IN
    /\ u \in Seq(S)
    /\ Len(u) = Len(s) - 1
    /\ \A j \in 1..(Len(s) - 1) : u[j] = IF j < i THEN s[j] ELSE s[j + 1]
  <1> TAKE S
  <1> TAKE s \in Seq(S)
  <1> TAKE i \in 1..Len(s)
  <1> DEFINE a == SubSeq(s, 1, i - 1)
             b == SubSeq(s, i + 1, Len(s))
  <1>1. Len(s) \in Nat /\ \A j \in 1..Len(s) : s[j] \in S
    BY LenProperties, ElementOfSeq
  <1>2. /\ a \in Seq(S) /\ Len(a) = i - 1
        /\ \A j \in 1..(i - 1) : a[j] = s[j]
    <2>1. \A j \in 1..(i - 1) : s[j] \in S
      BY <1>1
    <2>2. /\ a \in Seq(S)
          /\ Len(a) = IF 1 <= i - 1 THEN (i - 1) - 1 + 1 ELSE 0
          /\ \A j \in 1..((i - 1) - 1 + 1) : a[j] = s[1 + j - 1]
      BY <2>1, SubSeqProperties
    <2> QED BY <2>2, <1>1
  <1>3. /\ b \in Seq(S) /\ Len(b) = Len(s) - i
        /\ \A j \in 1..(Len(s) - i) : b[j] = s[i + j]
    <2>1. \A j \in (i + 1)..Len(s) : s[j] \in S
      BY <1>1
    <2>2. /\ b \in Seq(S)
          /\ Len(b) = IF i + 1 <= Len(s) THEN Len(s) - (i + 1) + 1 ELSE 0
          /\ \A j \in 1..(Len(s) - (i + 1) + 1) : b[j] = s[(i + 1) + j - 1]
      BY <2>1, <1>1, SubSeqProperties
    <2> QED BY <2>2, <1>1
  <1>4. /\ a \o b \in Seq(S)
        /\ Len(a \o b) = Len(a) + Len(b)
        /\ \A j \in 1..(Len(a) + Len(b)) : (a \o b)[j] =
             IF j <= Len(a) THEN a[j] ELSE b[j - Len(a)]
    BY <1>2, <1>3, ConcatProperties
  <1> HIDE DEF a, b
  <1>5. \A j \in 1..(Len(s) - 1) : (a \o b)[j] = IF j < i THEN s[j] ELSE s[j + 1]
    <2> TAKE j \in 1..(Len(s) - 1)
    <2>1. /\ j \in 1..(Len(a) + Len(b))
          /\ Len(a) = i - 1 /\ Len(b) = Len(s) - i /\ i \in 1..Len(s) /\ Len(s) \in Nat
      BY <1>1, <1>2, <1>3
    <2>2. (a \o b)[j] = IF j <= Len(a) THEN a[j] ELSE b[j - Len(a)]
      BY <1>4, <2>1, Zenon
    <2>3. CASE j < i
      <3>1. j <= Len(a) /\ j \in 1..(i - 1)
        BY ONLY <2>1, <2>3
      <3>2. a[j] = s[j]
        BY <3>1, <1>2, Zenon
      <3> QED BY ONLY <2>2, <2>3, <3>1, <3>2
    <2>4. CASE ~(j < i)
      <3>1. ~(j <= Len(a)) /\ j - Len(a) \in 1..(Len(s) - i) /\ i + (j - Len(a)) = j + 1
        BY ONLY <2>1, <2>4
      <3>2. b[j - Len(a)] = s[i + (j - Len(a))]
        BY <3>1, <1>3, Zenon
      <3> QED BY ONLY <2>2, <2>4, <3>1, <3>2
    <2> QED BY ONLY <2>3, <2>4
  <1>6. Len(a \o b) = Len(s) - 1
    BY <1>1, <1>2, <1>3, <1>4
  <1> QED BY <1>4, <1>5, <1>6 DEF a, b

\* Without one of its elements a sequence has the others, still distinct.
LEMMA UnlinkDistinct ==
  \A S : \A s \in Seq(S) : \A i \in 1..Len(s) : Distinct(s) =>
    LET u == SubSeq(s, 1, i - 1) \o SubSeq(s, i + 1, Len(s)) IN
    /\ Distinct(u)
    /\ Elements(u) = Elements(s) \ {s[i]}
  <1> TAKE S
  <1> TAKE s \in Seq(S)
  <1> TAKE i \in 1..Len(s)
  <1> HAVE Distinct(s)
  <1>1. PICK u : u = SubSeq(s, 1, i - 1) \o SubSeq(s, i + 1, Len(s))
    OBVIOUS
  <1>2. /\ Len(s) \in Nat /\ Len(u) = Len(s) - 1
        /\ \A j \in 1..(Len(s) - 1) : u[j] = IF j < i THEN s[j] ELSE s[j + 1]
    BY <1>1, UnlinkProps, LenProperties
  <1> DEFINE at(j) == IF j < i THEN j ELSE j + 1
  <1>3. \A j \in 1..Len(u) : at(j) \in 1..Len(s) /\ at(j) # i /\ u[j] = s[at(j)]
    BY <1>2
  <1>4. \A j, k \in 1..Len(u) : at(j) = at(k) => j = k
    BY <1>2
  <1>5. \A k \in 1..Len(s) : k # i => \E j \in 1..Len(u) : at(j) = k
    <2> TAKE k \in 1..Len(s)
    <2> HAVE k # i
    <2>1. CASE k < i
      <3>1. k \in 1..Len(u) /\ at(k) = k
        BY <2>1, <1>2
      <3> QED BY <3>1
    <2>2. CASE k > i
      <3>1. k - 1 \in 1..Len(u) /\ at(k - 1) = k
        BY <2>2, <1>2
      <3> QED BY <3>1
    <2> QED BY <2>1, <2>2, <1>2
  <1> HIDE DEF at
  <1>6. Distinct(u)
    BY <1>3, <1>4, Zenon DEF Distinct
  <1>7. Elements(u) \subseteq Elements(s) \ {s[i]}
    <2>1. \A j \in 1..Len(u) : u[j] \in Elements(s) /\ u[j] # s[i]
      BY <1>3, Zenon DEF Elements, Distinct
    <2> QED BY <2>1 DEF Elements
  <1>8. Elements(s) \ {s[i]} \subseteq Elements(u)
    <2>1. \A k \in 1..Len(s) : k # i => s[k] \in Elements(u)
      BY <1>3, <1>5, Zenon DEF Elements
    <2> QED BY <2>1 DEF Elements
  <1> QED BY <1>1, <1>6, <1>7, <1>8
-----------------------------------------------------------------------------
(* Types and the registry.                                                 *)

\* What is known of a thread by the time it is at each of its steps.
ThreadInv ==
  \A t \in Threads :
    /\ tpc[t] # "idle" => committed[t] < MaxEvents
    /\ tpc[t] = "alloc" => ringState[t] = "none"
    /\ tpc[t] = "register" => ringState[t] = "live"
    /\ tpc[t] \in {"reserve", "commit"} => ringState[t] # "none"
    /\ tpc[t] = "commit" => Len(ring[t]) < RingCap

\* Somebody holds the lock exactly while a scan is under way.
LockInv == regOwner # NoOwner <=> spc \in {"drain", "dead", "reclaim"}

\* How the steps of Main and of the backend fit together.
ControlInv ==
  /\ mpc = "init" => bpc = "off" /\ ~enabled
  /\ mpc = "running" /\ ~enabled => bpc = "off"
  /\ mpc = "final" => bpc = "exited"
  /\ enabled => mpc = "running" /\ file = "open"
  /\ mpc \in {"request", "join", "final", "fclose"} => file = "open"
  /\ mpc \in {"fclose", "clear"} => bpc = "exited"
  /\ mpc = "closed" => bpc \in {"off", "exited"}
  /\ bpc \in {"round", "check", "drain"} => file = "open"
  /\ bpc = "off" => spc = "rest"
  /\ bpc = "check" => spc = "done"
  /\ bpc = "exited" /\ mpc # "final" => spc = "rest"

IInv == TypeOK /\ ThreadInv /\ LockInv /\ RegistrySound

\* The invariant holds at the start of the program.
LEMMA InitInv == Init => IInv
  <1> SUFFICES ASSUME Init PROVE IInv
    OBVIOUS
  <1> USE ThreadAssumption, CapAssumption, LimitAssumption DEF Init
  <1>0. \A S : <<>> \in Seq(S) /\ Len(<<>>) = 0
    BY EmptySeq
  <1>1. LogTypes
    <2>1. owed \in [flush : SUBSET Event, close : SUBSET Event]
      OBVIOUS
    <2>2. fbuf \in Seq(Part) /\ Len(fbuf) <= BufCap /\ disk \in Seq(Part)
      BY <1>0
    <2>3. signals \in 0..MaxSignals
      OBVIOUS
    <2>4. /\ enabled \in BOOLEAN /\ file \in InFile
          /\ mpc \in {"init", "running", "request", "join", "final", "fclose", "clear",
                       "closed"}
          /\ shutdown \in BOOLEAN /\ flush \in BOOLEAN
      BY DEF InFile
    <2> QED BY ONLY <2>1, <2>2, <2>3, <2>4 DEF LogTypes
  <1>2. ScanTypes
    <2>1. registry \in Seq(Threads) /\ cursor \in 1..(Len(registry) + 1)
      BY <1>0
    <2> QED BY <2>1 DEF ScanTypes
  <1>3. ThreadTypes
    BY DEF ThreadTypes
  <1>4. ThreadInv /\ LockInv
    BY DEF ThreadInv, LockInv
  <1>5. RegistrySound
    BY DEF RegistrySound, Distinct, Elements
  <1> QED BY <1>1, <1>2, <1>3, <1>4, <1>5 DEF IInv, TypeOK

\* Steps that leave a group of variables alone.
LEMMA LogFrame ==
  ASSUME LogTypes,
         UNCHANGED <<enabled, fileVars, mpc, shutdown, flush, signals, owed>>
  PROVE  LogTypes'
  BY DEF LogTypes, fileVars

\* The same for the variables of the backend and of its scan.
LEMMA ScanFrame ==
  ASSUME ScanTypes, LockInv, UNCHANGED <<scanVars, bpc>>
  PROVE  ScanTypes' /\ LockInv'
  BY DEF ScanTypes, LockInv, scanVars

\* The same for the threads and their rings.
LEMMA ThreadFrame ==
  ASSUME ThreadTypes, ThreadInv, UNCHANGED threadVars
  PROVE  ThreadTypes' /\ ThreadInv'
  BY DEF ThreadTypes, ThreadInv, threadVars

\* Steps that create, register and delete no ring leave the list sound.
LEMMA RegistryFrame ==
  ASSUME RegistrySound, UNCHANGED <<registry, ringState>>,
         \A t \in Threads : tpc'[t] = "register" <=> tpc[t] = "register"
  PROVE  RegistrySound'
  <1>1. {t \in Threads : ringState'[t] = "live" /\ tpc'[t] # "register"}
          = {t \in Threads : ringState[t] = "live" /\ tpc[t] # "register"}
    OBVIOUS
  <1> QED BY <1>1 DEF RegistrySound, Distinct, Elements

\* A thread enters log_event.
LEMMA LogEventStep ==
  ASSUME IInv, NEW t \in Threads, LogEvent(t) PROVE IInv'
  <1> USE DEF IInv, TypeOK, LogEvent
  <1>1. LogTypes'
    BY LogFrame
  <1>2. ScanTypes' /\ LockInv'
    BY ScanFrame
  <1>3. ThreadTypes'
    BY DEF ThreadTypes
  <1>4. ThreadInv'
    BY DEF ThreadInv, ThreadTypes
  <1>5. RegistrySound'
    BY RegistryFrame DEF ThreadTypes, scanVars
  <1> QED BY <1>1, <1>2, <1>3, <1>4, <1>5

\* A ring is made, or cannot be: neither is in the list yet.
LEMMA AllocateStep ==
  ASSUME IInv, NEW t \in Threads, Allocate(t) PROVE IInv'
  <1> USE DEF IInv, TypeOK, Allocate
  <1>1. LogTypes'
    BY LogFrame
  <1>2. ScanTypes' /\ LockInv'
    BY ScanFrame
  <1>3. ThreadTypes'
    BY DEF ThreadTypes
  <1>4. ThreadInv'
    BY DEF ThreadInv, ThreadTypes
  <1>5. RegistrySound'
    BY DEF RegistrySound, Distinct, Elements, ThreadInv, ThreadTypes, scanVars
  <1> QED BY <1>1, <1>2, <1>3, <1>4, <1>5

\* A ring that is made comes into the list, which did not have it.
LEMMA RegisterStep ==
  ASSUME IInv, NEW t \in Threads, Register(t) PROVE IInv'
  <1> USE DEF IInv, TypeOK, Register
  <1>1. LogTypes'
    BY LogFrame
  <1>2. registry' = <<t>> \o registry /\ registry \in Seq(Threads)
    BY DEF ScanTypes, Push
  <1>3. registry' \in Seq(Threads) /\ Len(registry') = Len(registry) + 1 /\ Len(registry) \in Nat
    BY <1>2, PushProps, LenProperties
  <1>4. ScanTypes' /\ LockInv'
    BY <1>3 DEF ScanTypes, LockInv
  <1>5. ThreadTypes'
    BY DEF ThreadTypes
  <1>6. ThreadInv'
    BY DEF ThreadInv, ThreadTypes
  <1>7. /\ ringState[t] = "live" /\ ringState' = ringState
        /\ \A u \in Threads : tpc'[u] = "register" <=> tpc[u] = "register" /\ u # t
    BY DEF ThreadInv, ThreadTypes
  <1>8. /\ Distinct(registry) /\ t \notin Elements(registry)
        /\ Elements(registry) = {u \in Threads : ringState[u] = "live" /\ tpc[u] # "register"}
    BY DEF RegistrySound, Distinct, Elements
  <1>9. Distinct(registry') /\ Elements(registry') = Elements(registry) \cup {t}
    BY <1>2, <1>8, PushNew
  <1>10. Elements(registry') = {u \in Threads : ringState'[u] = "live" /\ tpc'[u] # "register"}
    BY <1>7, <1>8, <1>9
  <1>11. RegistrySound'
    BY <1>9, <1>10 DEF RegistrySound, Distinct, Elements
  <1> QED BY <1>1, <1>4, <1>5, <1>6, <1>11

\* A thread that finds room has it until it commits.
LEMMA ReserveStep ==
  ASSUME IInv, NEW t \in Threads, Reserve(t) PROVE IInv'
  <1> USE DEF IInv, TypeOK, Reserve
  <1>1. LogTypes'
    BY LogFrame
  <1>2. ScanTypes' /\ LockInv'
    BY ScanFrame
  <1>3. ThreadTypes'
    BY DEF ThreadTypes
  <1>4. ThreadInv'
    BY DEF ThreadInv, ThreadTypes, Room
  <1>5. RegistrySound'
    BY RegistryFrame DEF ThreadTypes, scanVars
  <1> QED BY <1>1, <1>2, <1>3, <1>4, <1>5

\* An event fits into the ring and has a number nobody has used.
LEMMA CommitStep ==
  ASSUME IInv, NEW t \in Threads, Commit(t) PROVE IInv'
  <1> USE DEF IInv, TypeOK, Commit
  <1>1. LogTypes'
    BY LogFrame
  <1>2. ScanTypes' /\ LockInv'
    BY ScanFrame
  <1>3. /\ committed[t] \in 0..MaxEvents /\ committed[t] < MaxEvents
        /\ ring[t] \in Seq(Event) /\ Len(ring[t]) < RingCap
    BY DEF ThreadInv, ThreadTypes
  <1>4. committed[t] + 1 \in 1..MaxEvents /\ <<t, committed[t] + 1>> \in Event
    BY <1>3, LimitAssumption DEF Event
  <1>5. /\ Append(ring[t], <<t, committed[t] + 1>>) \in Seq(Event)
        /\ Len(Append(ring[t], <<t, committed[t] + 1>>)) = Len(ring[t]) + 1
        /\ Len(ring[t]) \in Nat
    BY <1>3, <1>4, AppendProperties, LenProperties
  <1>6. ThreadTypes'
    BY <1>3, <1>4, <1>5, CapAssumption DEF ThreadTypes
  <1>7. ThreadInv'
    BY DEF ThreadInv, ThreadTypes
  <1>8. RegistrySound'
    BY RegistryFrame DEF ThreadTypes, scanVars
  <1> QED BY <1>1, <1>2, <1>6, <1>7, <1>8

\* The destructor of a ring only marks it.
LEMMA ThreadExitStep ==
  ASSUME IInv, NEW t \in Threads, ThreadExit(t) PROVE IInv'
  <1> USE DEF IInv, TypeOK, ThreadExit
  <1>1. LogTypes'
    BY LogFrame
  <1>2. ScanTypes' /\ LockInv'
    BY ScanFrame
  <1>3. ThreadTypes'
    BY DEF ThreadTypes
  <1>4. ThreadInv'
    BY DEF ThreadInv
  <1>5. RegistrySound'
    BY RegistryFrame DEF scanVars
  <1> QED BY <1>1, <1>2, <1>3, <1>4, <1>5

\* A scan that is under way is at a ring of the registry.
LEMMA CurrentRing ==
  ASSUME IInv, NEW s, AtRing(s)
  PROVE  /\ cursor \in 1..Len(registry) /\ Len(registry) \in Nat
         /\ Current \in Threads /\ ringState[Current] = "live"
         /\ tpc[Current] # "register"
  <1>1. cursor \in 1..Len(registry) /\ Len(registry) \in Nat /\ registry \in Seq(Threads)
    BY LenProperties DEF IInv, TypeOK, ScanTypes, AtRing
  <1>2. Current \in Threads
    BY <1>1, ElementOfSeq DEF Current
  <1>3. Current \in {registry[i] : i \in 1..Len(registry)}
    BY <1>1 DEF Current
  <1> QED BY <1>1, <1>2, <1>3 DEF IInv, RegistrySound, Elements

\* A scan begins at the head of the list.
LEMMA ScanLockStep ==
  ASSUME IInv, NEW s \in {Main, Backend}, ScanLock(s) PROVE IInv'
  <1> USE DEF IInv, TypeOK, ScanLock
  <1>1. LogTypes'
    <2>1. Committed \subseteq Event
      BY DEF Committed
    <2>2. owed' \in [flush : SUBSET Event, close : SUBSET Event]
      BY <2>1 DEF LogTypes
    <2> QED BY <2>2 DEF LogTypes, fileVars
  <1>2. ScanTypes' /\ LockInv'
    <2>1. s # NoOwner
      BY ThreadAssumption
    <2>2. Len(registry) \in Nat
      BY LenProperties DEF ScanTypes
    <2>3. LockInv'
      BY <2>1 DEF LockInv
    <2>4. 1 \in 1..(Len(registry) + 1)
      BY <2>2
    <2>5. ScanTypes'
      BY <2>4 DEF ScanTypes
    <2> QED BY <2>3, <2>5
  <1>3. ThreadTypes' /\ ThreadInv'
    BY ThreadFrame
  <1>4. RegistrySound'
    BY RegistryFrame DEF threadVars
  <1> QED BY <1>1, <1>2, <1>3, <1>4

\* The text of an event, and what is in front of the cut and behind it.
LEMMA TextProps ==
  ASSUME NEW e \in Event
  PROVE  /\ Text(e) \in Seq(Part) /\ Len(Text(e)) = 2
         /\ \A n \in 0..1 : /\ SubSeq(Text(e), 1, n) \in Seq(Part)
                            /\ SubSeq(Text(e), n + 1, 2) \in Seq(Part)
                            /\ Len(SubSeq(Text(e), 1, n)) = n
                            /\ Len(SubSeq(Text(e), n + 1, 2)) = 2 - n
                            /\ SubSeq(Text(e), 1, n) \o SubSeq(Text(e), n + 1, 2) = Text(e)
  <1>1. PICK p \in Part, q \in Part : p = <<e, 1>> /\ q = <<e, 2>>
    BY DEF Part
  <1>2. PICK t : t = <<p, q>>
    OBVIOUS
  <1>3. t = Text(e) /\ t \in Seq(Part) /\ Len(t) = 2 /\ t[1] = p /\ t[2] = q
    <2>1. <<p, q>> \in Seq(Part) /\ Len(<<p, q>>) = 2
      OBVIOUS
    <2> QED BY <1>1, <1>2, <2>1 DEF Text
  <1>4. PICK f, g : f = <<p>> /\ g = <<q>>
    OBVIOUS
  <1>5. /\ f \in Seq(Part) /\ Len(f) = 1 /\ f[1] = p
        /\ g \in Seq(Part) /\ Len(g) = 1 /\ g[1] = q
    BY <1>4
  <1>6. SubSeq(t, 1, 0) = <<>> /\ SubSeq(t, 1, 1) = f
    <2>1. /\ SubSeq(t, 1, 0) \in Seq(Part) /\ Len(SubSeq(t, 1, 0)) = 0
          /\ SubSeq(t, 1, 1) \in Seq(Part) /\ Len(SubSeq(t, 1, 1)) = 1
          /\ SubSeq(t, 1, 1)[1] = p
      BY <1>3, SubSeqProperties
    <2> QED BY <1>5, <2>1, EmptySeq, SeqEqual
  <1>7. SubSeq(t, 1, 2) = t /\ SubSeq(t, 2, 2) = g
    <2>1. /\ SubSeq(t, 1, 2) \in Seq(Part) /\ Len(SubSeq(t, 1, 2)) = 2
          /\ SubSeq(t, 1, 2)[1] = p /\ SubSeq(t, 1, 2)[2] = q
          /\ SubSeq(t, 2, 2) \in Seq(Part) /\ Len(SubSeq(t, 2, 2)) = 1
          /\ SubSeq(t, 2, 2)[1] = q
      BY <1>3, SubSeqProperties
    <2> QED BY <1>3, <1>5, <2>1, SeqEqual
  <1>8. <<>> \in Seq(Part) /\ Len(<<>>) = 0 /\ <<>> \o t = t
    BY <1>3, EmptySeq, ConcatEmptySeq
  <1>9. f \o g = t
    <2>1. /\ f \o g \in Seq(Part) /\ Len(f \o g) = 2
          /\ (f \o g)[1] = p /\ (f \o g)[2] = q
      BY <1>5, ConcatProperties
    <2> QED BY <1>3, <2>1, SeqEqual
  <1>10. ASSUME NEW n \in 0..1
         PROVE  /\ SubSeq(t, 1, n) \in Seq(Part) /\ Len(SubSeq(t, 1, n)) = n
                /\ SubSeq(t, n + 1, 2) \in Seq(Part) /\ Len(SubSeq(t, n + 1, 2)) = 2 - n
                /\ SubSeq(t, 1, n) \o SubSeq(t, n + 1, 2) = t
    <2>1. CASE n = 0
      <3>1. n + 1 = 1 /\ 2 - n = 2
        BY <2>1
      <3> QED BY <2>1, <3>1, <1>3, <1>6, <1>7, <1>8, Zenon
    <2>2. CASE n = 1
      <3>1. n + 1 = 2 /\ 2 - n = 1
        BY <2>2
      <3> QED BY <2>2, <3>1, <1>5, <1>6, <1>7, <1>9, Zenon
    <2>3. n = 0 \/ n = 1
      OBVIOUS
    <2> QED BY <2>1, <2>2, <2>3, Zenon
  <1> QED BY <1>3, <1>10

\* fwrite never holds more in the stdio buffer than it has room for.
LEMMA FwriteTypes ==
  ASSUME LogTypes, NEW e \in Event, Fwrite(e)
  PROVE  fbuf' \in Seq(Part) /\ Len(fbuf') <= BufCap /\ disk' \in Seq(Part)
  <1>1. /\ fbuf \in Seq(Part) /\ Len(fbuf) \in Nat /\ Len(fbuf) <= BufCap
        /\ disk \in Seq(Part) /\ BufCap \in Nat \ {0, 1}
    BY LenProperties, CapAssumption DEF LogTypes
  <1>2. CASE HasRoom
    <2>1. disk' = disk /\ fbuf' = fbuf \o Text(e) /\ Len(fbuf) + 2 <= BufCap
      BY <1>2 DEF Fwrite, HasRoom
    <2>2. fbuf \o Text(e) \in Seq(Part) /\ Len(fbuf \o Text(e)) = Len(fbuf) + 2
      BY <1>1, TextProps, ConcatProperties
    <2> QED BY <1>1, <2>1, <2>2
  <1>3. CASE ~HasRoom
    <2>1. PICK n \in 0..1 : /\ disk' = disk \o fbuf \o SubSeq(Text(e), 1, n)
                            /\ fbuf' = SubSeq(Text(e), n + 1, 2)
      BY <1>3 DEF Fwrite
    <2>2. disk \o fbuf \in Seq(Part)
      BY <1>1, ConcatProperties
    <2>3. disk' \in Seq(Part)
      BY <2>1, <2>2, TextProps, ConcatProperties
    <2>4. fbuf' \in Seq(Part) /\ Len(fbuf') = 2 - n
      BY <2>1, TextProps
    <2> QED BY <1>1, <2>3, <2>4
  <1> QED BY <1>2, <1>3

\* An event leaves its ring for the file.
LEMMA ScanEventStep ==
  ASSUME IInv, NEW s, ScanEvent(s) PROVE IInv'
  <1> USE DEF IInv, TypeOK, ScanEvent
  <1>1. PICK c : c = Current
    OBVIOUS
  <1>2. c \in Threads /\ AtRing(s)
    BY <1>1, CurrentRing
  <1>3. ring[c] \in Seq(Event) /\ ring[c] # <<>> /\ Len(ring[c]) <= RingCap
    BY <1>1, <1>2 DEF ThreadTypes
  <1>4. /\ Head(ring[c]) \in Event /\ Tail(ring[c]) \in Seq(Event)
        /\ Len(Tail(ring[c])) = Len(ring[c]) - 1 /\ Len(ring[c]) \in Nat
    BY <1>3, HeadTailProperties, LenProperties
  <1>5. LogTypes'
    <2>1. fbuf' \in Seq(Part) /\ Len(fbuf') <= BufCap /\ disk' \in Seq(Part)
      BY <1>1, <1>4, FwriteTypes
    <2> QED BY <2>1 DEF LogTypes, fileVars
  <1>6. ScanTypes' /\ LockInv'
    BY DEF ScanTypes, LockInv
  <1>7. ring' = [ring EXCEPT ![c] = Tail(@)]
    BY <1>1 DEF Take
  <1>8. ThreadTypes'
    BY <1>2, <1>3, <1>4, <1>7, CapAssumption DEF ThreadTypes
  <1>9. ThreadInv'
    BY <1>2, <1>3, <1>4, <1>7, CapAssumption DEF ThreadInv, ThreadTypes
  <1>10. RegistrySound'
    BY RegistryFrame
  <1> QED BY <1>5, <1>6, <1>8, <1>9, <1>10

\* The scan looks at an empty ring.
LEMMA ScanEmptyStep ==
  ASSUME IInv, NEW s, ScanEmpty(s) PROVE IInv'
  <1> USE DEF IInv, TypeOK, ScanEmpty
  <1>1. LogTypes'
    BY LogFrame
  <1>2. ScanTypes' /\ LockInv'
    BY DEF ScanTypes, LockInv
  <1>3. ThreadTypes' /\ ThreadInv'
    BY ThreadFrame
  <1>4. RegistrySound'
    BY RegistryFrame DEF threadVars
  <1> QED BY <1>1, <1>2, <1>3, <1>4

\* The scan moves on, at most to the end of the list.
LEMMA ScanDeadStep ==
  ASSUME IInv, NEW s, ScanDead(s) PROVE IInv'
  <1> USE DEF IInv, TypeOK, ScanDead
  <1>1. LogTypes'
    BY LogFrame
  <1>2. ScanTypes' /\ LockInv'
    <2>1. cursor \in 1..Len(registry) /\ Len(registry) \in Nat
      BY CurrentRing
    <2>2. cursor' \in 1..(Len(registry) + 1)
      BY <2>1
    <2>3. spc' \in {"drain", "reclaim"}
      OBVIOUS
    <2> QED BY <2>2, <2>3 DEF ScanTypes, LockInv
  <1>3. ThreadTypes' /\ ThreadInv'
    BY ThreadFrame
  <1>4. RegistrySound'
    BY RegistryFrame DEF threadVars
  <1> QED BY <1>1, <1>2, <1>3, <1>4

\* A deleted ring leaves the list in the same step, and the scan stays inside it.
LEMMA ScanReclaimStep ==
  ASSUME IInv, NEW s, ScanReclaim(s) PROVE IInv'
  <1> USE DEF IInv, TypeOK, ScanReclaim
  <1>1. PICK c : c = Current
    OBVIOUS
  <1>2. /\ c \in Threads /\ c = registry[cursor] /\ registry \in Seq(Threads)
        /\ cursor \in 1..Len(registry) /\ Len(registry) \in Nat
        /\ ringState[c] = "live" /\ tpc[c] # "register"
    BY <1>1, CurrentRing DEF Current, ScanTypes
  <1>3. LogTypes'
    BY LogFrame
  <1>4. CASE ~Drained(c)
    <2>1. cursor' = cursor + 1 /\ UNCHANGED <<registry, ringState, ring>>
      BY <1>1, <1>4
    <2>2. ScanTypes' /\ LockInv'
      <3>1. cursor' \in 1..(Len(registry) + 1)
        BY <1>2, <2>1
      <3> QED BY <2>1, <3>1 DEF ScanTypes, LockInv
    <2>3. ThreadTypes' /\ ThreadInv'
      BY <2>1, ThreadFrame DEF threadVars
    <2>4. RegistrySound'
      BY <2>1, RegistryFrame
    <2> QED BY <1>3, <2>2, <2>3, <2>4
  <1>5. CASE Drained(c)
    <2>1. /\ registry' = SubSeq(registry, 1, cursor - 1) \o SubSeq(registry, cursor + 1, Len(registry))
          /\ ringState' = [ringState EXCEPT ![c] = "freed"]
          /\ ring' = [ring EXCEPT ![c] = <<>>]
          /\ cursor' = cursor
      BY <1>1, <1>5 DEF Unlink
    <2>2. registry' \in Seq(Threads) /\ Len(registry') = Len(registry) - 1
      BY <1>2, <2>1, UnlinkProps
    <2>3. ScanTypes' /\ LockInv'
      <3>1. PICK n \in Nat : n = Len(registry)
        BY <1>2
      <3>2. Len(registry') = n - 1 /\ cursor \in 1..n
        BY <1>2, <2>2, <3>1
      <3>3. cursor' = cursor
        BY <2>1
      <3>4. cursor' \in 1..(Len(registry') + 1)
        BY ONLY <3>1, <3>2, <3>3
      <3> QED BY <2>2, <3>4 DEF ScanTypes, LockInv
    <2>4. <<>> \in Seq(Event) /\ Len(<<>>) = 0
      BY EmptySeq
    <2>5. ThreadTypes'
      BY <1>2, <2>1, <2>4, CapAssumption DEF ThreadTypes
    <2>6. ThreadInv'
      BY <1>2, <2>1, <2>4, CapAssumption DEF ThreadTypes, ThreadInv
    <2>7. /\ Distinct(registry)
          /\ Elements(registry) = {u \in Threads : ringState[u] = "live" /\ tpc[u] # "register"}
      BY DEF RegistrySound, Distinct, Elements
    <2>8. Distinct(registry') /\ Elements(registry') = Elements(registry) \ {c}
      BY <1>2, <2>1, <2>7, UnlinkDistinct
    <2>9. \A u \in Threads : ringState'[u] = "live" <=> ringState[u] = "live" /\ u # c
      BY <1>2, <2>1 DEF ThreadTypes
    <2>10. Elements(registry') = {u \in Threads : ringState'[u] = "live" /\ tpc'[u] # "register"}
      BY <2>7, <2>8, <2>9
    <2>11. RegistrySound'
      BY <2>8, <2>10 DEF RegistrySound, Distinct, Elements
    <2> QED BY <1>3, <2>3, <2>5, <2>6, <2>11
  <1> QED BY <1>4, <1>5

\* The scan gives the lock back at the end of the list.
LEMMA ScanUnlockStep ==
  ASSUME IInv, NEW s, ScanUnlock(s) PROVE IInv'
  <1> USE DEF IInv, TypeOK, ScanUnlock
  <1>1. LogTypes'
    BY LogFrame
  <1>2. ScanTypes' /\ LockInv'
    BY DEF ScanTypes, LockInv
  <1>3. ThreadTypes' /\ ThreadInv'
    BY ThreadFrame
  <1>4. RegistrySound'
    BY RegistryFrame DEF threadVars
  <1> QED BY <1>1, <1>2, <1>3, <1>4

\* Every step of a scan keeps the invariant.
LEMMA ScanStep ==
  ASSUME IInv, NEW s \in {Main, Backend}, Scan(s) PROVE IInv'
  BY ScanLockStep, ScanEventStep, ScanEmptyStep, ScanDeadStep, ScanReclaimStep,
     ScanUnlockStep DEF Scan

\* Writing the stdio buffer out.
LEMMA FflushTypes ==
  ASSUME LogTypes, Fflush
  PROVE  fbuf' \in Seq(Part) /\ Len(fbuf') <= BufCap /\ disk' \in Seq(Part)
  <1>1. disk \o fbuf \in Seq(Part)
    BY ConcatProperties DEF LogTypes
  <1>2. <<>> \in Seq(Part) /\ Len(<<>>) = 0
    BY EmptySeq
  <1> QED BY <1>1, <1>2, CapAssumption DEF Fflush

\* The backend serves a flush request.
LEMMA BackendFlushStep ==
  ASSUME IInv, BackendFlush PROVE IInv'
  <1> USE DEF IInv, TypeOK, BackendFlush
  <1>1. LogTypes'
    <2>1. CASE FlushDue
      BY <2>1, FflushTypes DEF LogTypes
    <2>2. CASE ~FlushDue
      BY <2>2 DEF LogTypes
    <2> QED BY <2>1, <2>2
  <1>2. ScanTypes' /\ LockInv'
    BY DEF ScanTypes, LockInv, scanVars
  <1>3. ThreadTypes' /\ ThreadInv'
    BY ThreadFrame
  <1>4. RegistrySound'
    BY RegistryFrame DEF threadVars, scanVars
  <1> QED BY <1>1, <1>2, <1>3, <1>4

\* The backend begins a new round only while nobody holds the lock.
LEMMA BackendCheckStep ==
  ASSUME IInv, ControlInv, BackendCheck PROVE IInv'
  <1> USE DEF IInv, TypeOK, BackendCheck
  <1>1. LogTypes'
    BY LogFrame
  <1>2. ScanTypes' /\ LockInv'
    <2>1. regOwner = NoOwner
      BY DEF ControlInv, LockInv
    <2> QED BY <2>1 DEF ScanTypes, LockInv
  <1>3. ThreadTypes' /\ ThreadInv'
    BY ThreadFrame
  <1>4. RegistrySound'
    BY RegistryFrame DEF threadVars
  <1> QED BY <1>1, <1>2, <1>3, <1>4

\* The backend repeats its last round or ends.
LEMMA BackendDrainStep ==
  ASSUME IInv, BackendDrain PROVE IInv'
  <1> USE DEF IInv, TypeOK, BackendDrain
  <1>1. LogTypes'
    BY LogFrame
  <1>2. ScanTypes' /\ LockInv'
    BY DEF ScanTypes, LockInv
  <1>3. ThreadTypes' /\ ThreadInv'
    BY ThreadFrame
  <1>4. RegistrySound'
    BY RegistryFrame DEF threadVars
  <1> QED BY <1>1, <1>2, <1>3, <1>4

\* A signal sets a flag.
LEMMA SignalFlushStep ==
  ASSUME IInv, SignalFlush PROVE IInv'
  <1> USE DEF IInv, TypeOK, SignalFlush
  <1>1. LogTypes'
    BY LimitAssumption DEF LogTypes, fileVars
  <1>2. ScanTypes' /\ LockInv'
    BY ScanFrame
  <1>3. ThreadTypes' /\ ThreadInv'
    BY ThreadFrame
  <1>4. RegistrySound'
    BY RegistryFrame DEF threadVars, scanVars
  <1> QED BY <1>1, <1>2, <1>3, <1>4

\* The log is opened before anything can be scanned.
LEMMA LogInitStep ==
  ASSUME IInv, ControlInv, LogInit PROVE IInv'
  <1> USE DEF IInv, TypeOK, LogInit
  <1>1. LogTypes'
    BY DEF LogTypes, InFile
  <1>2. ScanTypes' /\ LockInv'
    <2>1. regOwner = NoOwner /\ spc = "rest"
      BY DEF ControlInv, LockInv
    <2> QED BY <2>1 DEF ScanTypes, LockInv
  <1>3. ThreadTypes' /\ ThreadInv'
    BY ThreadFrame
  <1>4. RegistrySound'
    BY RegistryFrame DEF threadVars
  <1> QED BY <1>1, <1>2, <1>3, <1>4

\* Logging is disabled.
LEMMA LogCloseStep ==
  ASSUME IInv, LogClose PROVE IInv'
  <1> USE DEF IInv, TypeOK, LogClose
  <1>1. LogTypes'
    <2>1. Committed \subseteq Event
      BY DEF Committed
    <2>2. owed' \in [flush : SUBSET Event, close : SUBSET Event]
      BY <2>1 DEF LogTypes
    <2> QED BY <2>2 DEF LogTypes, fileVars
  <1>2. ScanTypes' /\ LockInv'
    BY ScanFrame
  <1>3. ThreadTypes' /\ ThreadInv'
    BY ThreadFrame
  <1>4. RegistrySound'
    BY RegistryFrame DEF threadVars, scanVars
  <1> QED BY <1>1, <1>2, <1>3, <1>4

\* The backend is asked to end.
LEMMA CloseRequestStep ==
  ASSUME IInv, CloseRequest PROVE IInv'
  <1> USE DEF IInv, TypeOK, CloseRequest
  <1>1. LogTypes'
    BY DEF LogTypes, fileVars, RequestShutdown
  <1>2. ScanTypes' /\ LockInv'
    BY ScanFrame
  <1>3. ThreadTypes' /\ ThreadInv'
    BY ThreadFrame
  <1>4. RegistrySound'
    BY RegistryFrame DEF threadVars, scanVars
  <1> QED BY <1>1, <1>2, <1>3, <1>4

\* The final drain begins only after the backend has ended.
LEMMA CloseJoinStep ==
  ASSUME IInv, ControlInv, CloseJoin PROVE IInv'
  <1> USE DEF IInv, TypeOK, CloseJoin
  <1>1. LogTypes'
    BY DEF LogTypes, fileVars
  <1>2. ScanTypes' /\ LockInv'
    <2>1. regOwner = NoOwner
      BY DEF ControlInv, LockInv, Joined
    <2> QED BY <2>1 DEF ScanTypes, LockInv
  <1>3. ThreadTypes' /\ ThreadInv'
    BY ThreadFrame
  <1>4. RegistrySound'
    BY RegistryFrame DEF threadVars
  <1> QED BY <1>1, <1>2, <1>3, <1>4

\* The last of the buffer is written out.
LEMMA CloseFlushStep ==
  ASSUME IInv, CloseFlush PROVE IInv'
  <1> USE DEF IInv, TypeOK, CloseFlush
  <1>1. LogTypes'
    <2>1. CASE Again
      BY <2>1, LogFrame
    <2>2. CASE ~Again
      BY <2>2, FflushTypes DEF LogTypes, InFile
    <2> QED BY <2>1, <2>2
  <1>2. ScanTypes' /\ LockInv'
    BY DEF ScanTypes, LockInv
  <1>3. ThreadTypes' /\ ThreadInv'
    BY ThreadFrame
  <1>4. RegistrySound'
    BY RegistryFrame DEF threadVars
  <1> QED BY <1>1, <1>2, <1>3, <1>4

\* The file is closed, and its pointer cleared.
LEMMA CloseFileStep ==
  ASSUME IInv, CloseFile \/ ClearFile PROVE IInv'
  <1> USE DEF IInv, TypeOK, CloseFile, ClearFile
  <1>1. LogTypes'
    BY DEF LogTypes, InFile
  <1>2. ScanTypes' /\ LockInv'
    BY ScanFrame
  <1>3. ThreadTypes' /\ ThreadInv'
    BY ThreadFrame
  <1>4. RegistrySound'
    BY RegistryFrame DEF threadVars, scanVars
  <1> QED BY <1>1, <1>2, <1>3, <1>4

\* A step of a thread or of the handlers does not move Main or the backend.
LEMMA ControlFrame ==
  ASSUME ControlInv, UNCHANGED <<enabled, file, mpc, bpc, spc>>
  PROVE  ControlInv'
  BY DEF ControlInv

\* Main and the backend keep to the order of opening and closing.
LEMMA ControlStep ==
  ASSUME ControlInv, Next PROVE ControlInv'
  <1>1. ASSUME NEW t \in Threads, ThreadStep(t) PROVE ControlInv'
    BY <1>1, ControlFrame DEF ThreadStep, LogEvent, Allocate, Register, Reserve, Commit,
       ThreadExit, fileVars, scanVars
  <1>2. ASSUME NEW s, Scan(s), bpc \in {"round", "check", "drain"} \/ mpc = "final"
        PROVE  ControlInv'
    <2>1. UNCHANGED <<enabled, file, mpc, bpc>> /\ spc # "done"
      BY <1>2 DEF Scan, ScanLock, ScanEvent, ScanEmpty, ScanDead, ScanReclaim,
         ScanUnlock, fileVars
    <2> QED BY <1>2, <2>1 DEF ControlInv
  <1>3. CASE BackendFlush
    BY <1>3 DEF BackendFlush, ControlInv, scanVars
  <1>4. CASE BackendCheck
    BY <1>4 DEF BackendCheck, ControlInv, fileVars
  <1>5. CASE BackendDrain
    BY <1>5 DEF BackendDrain, ControlInv, fileVars
  <1>6. CASE SignalFlush
    BY <1>6, ControlFrame DEF SignalFlush, fileVars, scanVars
  <1>7. CASE LogInit
    BY <1>7 DEF LogInit, ControlInv
  <1>8. CASE LogClose
    BY <1>8 DEF LogClose, ControlInv, fileVars, scanVars
  <1>9. CASE CloseRequest
    BY <1>9 DEF CloseRequest, ControlInv, fileVars, scanVars
  <1>10. CASE CloseJoin
    BY <1>10 DEF CloseJoin, ControlInv, fileVars, Joined
  <1>11. CASE CloseFlush
    BY <1>11 DEF CloseFlush, ControlInv, fileVars
  <1>12. CASE CloseFile \/ ClearFile
    BY <1>12 DEF CloseFile, ClearFile, ControlInv, fileVars, scanVars
  <1>13. CASE Finished
    BY <1>13, ControlFrame DEF Finished, vars, fileVars, scanVars
  <1> QED BY <1>1, <1>2, <1>3, <1>4, <1>5, <1>6, <1>7, <1>8, <1>9, <1>10, <1>11, <1>12, <1>13
          DEF Next, BackendStep, MainStep

\* Every step keeps the types, the registry and the order of closing.
LEMMA NextStep ==
  ASSUME IInv, ControlInv, [Next]_vars PROVE IInv' /\ ControlInv'
  <1>1. CASE UNCHANGED vars
    <2> USE <1>1 DEF vars
    <2>1. LogTypes' /\ ScanTypes' /\ LockInv' /\ ThreadTypes' /\ ThreadInv'
      BY LogFrame, ScanFrame, ThreadFrame DEF IInv, TypeOK
    <2>2. RegistrySound'
      BY RegistryFrame DEF IInv, scanVars, threadVars
    <2>3. ControlInv'
      BY ControlFrame DEF fileVars, scanVars
    <2> QED BY <2>1, <2>2, <2>3 DEF IInv, TypeOK
  <1>2. CASE Next
    <2>1. ControlInv'
      BY <1>2, ControlStep
    <2>2. ASSUME NEW t \in Threads, ThreadStep(t) PROVE IInv'
      BY <2>2, LogEventStep, AllocateStep, RegisterStep, ReserveStep, CommitStep,
         ThreadExitStep DEF ThreadStep
    <2>3. CASE BackendStep
      BY <2>1, <2>3, ScanStep, BackendFlushStep, BackendCheckStep, BackendDrainStep
         DEF BackendStep
    <2>4. CASE SignalFlush
      BY <2>1, <2>4, SignalFlushStep
    <2>5. CASE MainStep
      BY <2>1, <2>5, ScanStep, LogInitStep, LogCloseStep, CloseRequestStep, CloseJoinStep,
         CloseFlushStep, CloseFileStep DEF MainStep
    <2>6. CASE Finished
      BY <2>1, <2>6, <1>1 DEF Finished
    <2> QED BY <1>2, <2>1, <2>2, <2>3, <2>4, <2>5, <2>6 DEF Next
  <1> QED BY <1>1, <1>2

\* The inductive invariant, of which the theorems are consequences.
THEOREM Invariance == Spec => [](IInv /\ ControlInv)
  <1>1. Init => IInv /\ ControlInv
    BY InitInv DEF Init, ControlInv
  <1>2. IInv /\ ControlInv /\ [Next]_vars => (IInv /\ ControlInv)'
    BY NextStep
  <1> QED BY <1>1, <1>2, PTL DEF Spec

\* Every variable keeps its type: in particular no ring and no buffer ever
\* holds more than it has room for, and the scan stays inside the list.
THEOREM TypeCorrectness == Spec => []TypeOK
  <1>1. IInv => TypeOK
    BY DEF IInv
  <1> QED BY <1>1, Invariance, PTL

\* The list of backend.cpp is at all times the set of the registered rings
\* that have not been deleted, each once, while threads push and the scan unlinks.
THEOREM RegistryAlwaysSound == Spec => []RegistrySound
  <1>1. IInv => RegistrySound
    BY DEF IInv
  <1> QED BY <1>1, Invariance, PTL

\* A scan, by the backend or by log_close, writes to an open file only.
THEOREM FileOpenWhileScanned == Spec => []ScansOpenFile
  <1>1. IInv /\ ControlInv => ScansOpenFile
    BY DEF IInv, TypeOK, ScanTypes, LogTypes, LockInv, ControlInv, ScansOpenFile
  <1> QED BY <1>1, Invariance, PTL
-----------------------------------------------------------------------------
(* The end of a thread.                                                    *)

\* Only a thread that logs no more is dead, and only dead rings are deleted.
ExitInv ==
  /\ \A t \in Threads : /\ tpc[t] # "idle" => ~dead[t]
                        /\ dead[t] => ringState[t] # "none"
                        /\ ringState[t] = "freed" => dead[t]
  /\ spc = "reclaim" => cursor <= Len(registry) /\ dead[registry[cursor]]

\* A step that is neither a thread's nor a scan's.
LEMMA ExitFrame ==
  ASSUME ExitInv, UNCHANGED threadVars, spc' # "reclaim"
  PROVE  ExitInv'
  BY DEF ExitInv, threadVars

\* A ring that is to be deleted belongs to a thread that logs no more.
LEMMA ExitStep ==
  ASSUME ~LateLogging, IInv, ControlInv, ExitInv, [Next]_vars PROVE ExitInv'
  <1> USE DEF IInv, TypeOK
  <1>1. ASSUME NEW t \in Threads, ThreadStep(t) PROVE ExitInv'
    <2>1. CASE LogEvent(t)
      BY <2>1 DEF LogEvent, Exited, ExitInv, ThreadTypes, scanVars
    <2>2. CASE Allocate(t)
      BY <2>2 DEF Allocate, ExitInv, ThreadTypes, scanVars
    <2>3. CASE Register(t)
      <3>1. spc # "reclaim"
        BY <2>3 DEF Register, LockInv
      <3> QED BY <2>3, <3>1 DEF Register, ExitInv, ThreadTypes
    <2>4. CASE Reserve(t)
      BY <2>4 DEF Reserve, ExitInv, ThreadTypes, scanVars
    <2>5. CASE Commit(t)
      BY <2>5 DEF Commit, ExitInv, ThreadTypes, scanVars
    <2>6. CASE ThreadExit(t)
      <3>1. dead' = [dead EXCEPT ![t] = TRUE] /\ tpc[t] = "idle" /\ ringState[t] = "live"
            /\ UNCHANGED <<tpc, ringState, spc, cursor, registry>>
        BY <2>6 DEF ThreadExit, scanVars
      <3>2. \A u \in Threads : dead'[u] = (dead[u] \/ u = t)
        BY <3>1 DEF ThreadTypes
      <3>3. ASSUME spc = "reclaim" PROVE dead'[registry[cursor]]
        <4>1. registry[cursor] \in Threads
          BY <3>3, ElementOfSeq, LenProperties DEF ScanTypes, ExitInv
        <4> QED BY <3>2, <3>3, <4>1 DEF ExitInv
      <3> QED BY <3>1, <3>2, <3>3 DEF ExitInv
    <2> QED BY <1>1, <2>1, <2>2, <2>3, <2>4, <2>5, <2>6 DEF ThreadStep
  <1>2. ASSUME NEW s \in {Main, Backend}, Scan(s) PROVE ExitInv'
    <2>1. CASE ScanLock(s) \/ ScanEmpty(s) \/ ScanUnlock(s)
      BY <2>1, ExitFrame DEF ScanLock, ScanEmpty, ScanUnlock
    <2>2. CASE ScanEvent(s)
      BY <2>2 DEF ScanEvent, ExitInv
    <2>3. CASE ScanDead(s)
      BY <2>3 DEF ScanDead, ExitInv, ProducerDead, Current, AtRing, threadVars
    <2>4. CASE ScanReclaim(s)
      <3>1. Current \in Threads /\ dead[Current] /\ tpc[Current] = "idle"
        BY <2>4, CurrentRing DEF ScanReclaim, ExitInv, Current
      <3>2. /\ ringState' \in {ringState, [ringState EXCEPT ![Current] = "freed"]}
            /\ UNCHANGED <<tpc, dead>> /\ spc' = "drain"
        BY <2>4 DEF ScanReclaim
      <3> QED BY <3>1, <3>2 DEF ExitInv, ThreadTypes
    <2> QED BY <1>2, <2>1, <2>2, <2>3, <2>4 DEF Scan
  <1>3. CASE BackendFlush \/ BackendCheck \/ BackendDrain \/ LogInit \/ CloseJoin
             \/ CloseFlush
    <2>1. UNCHANGED threadVars
      BY <1>3 DEF BackendFlush, BackendCheck, BackendDrain, LogInit, CloseJoin, CloseFlush
    <2>2. spc' # "reclaim"
      BY <1>3 DEF BackendFlush, BackendCheck, BackendDrain, LogInit, CloseJoin, CloseFlush,
         ControlInv, scanVars
    <2> QED BY <2>1, <2>2, ExitFrame
  <1>4. CASE SignalFlush \/ LogClose \/ CloseRequest \/ CloseFile \/ ClearFile
             \/ UNCHANGED vars
    <2>1. UNCHANGED <<tpc, dead, ringState, registry, cursor, spc>>
      BY <1>4 DEF SignalFlush, LogClose, CloseRequest, CloseFile, ClearFile, vars, scanVars,
         threadVars
    <2> QED BY <2>1 DEF ExitInv
  <1> QED BY <1>1, <1>2, <1>3, <1>4 DEF Next, BackendStep, MainStep, Finished

\* Unless threads log from TLS destructors that run after the ring's, a thread
\* in log_event never holds a ring that the backend has deleted.
THEOREM NeverUsedAfterReclaim ==
  ASSUME ~LateLogging PROVE Spec => []NoUseAfterReclaim
  <1>1. Init => ExitInv
    BY DEF Init, ExitInv
  <1>2. IInv /\ ControlInv /\ ExitInv /\ [Next]_vars => ExitInv'
    BY ExitStep
  <1>3. IInv /\ ExitInv => NoUseAfterReclaim
    BY DEF IInv, TypeOK, ThreadTypes, ThreadInv, ExitInv, NoUseAfterReclaim
  <1> QED BY <1>1, <1>2, <1>3, Invariance, PTL DEF Spec
-----------------------------------------------------------------------------
(* The trace file.                                                         *)

\* What is in the file or the stdio buffer in front of it.
Written == disk \o fbuf

\* fwrite adds the text behind what was written, wherever the buffer is written out.
LEMMA FwriteAppends ==
  ASSUME LogTypes, NEW e \in Event, Fwrite(e)
  PROVE  Written' = Written \o Text(e)
  <1>1. disk \in Seq(Part) /\ fbuf \in Seq(Part) /\ Text(e) \in Seq(Part)
    BY TextProps DEF LogTypes
  <1>2. disk \o fbuf \in Seq(Part)
    BY <1>1, ConcatProperties
  <1>3. CASE HasRoom
    <2>1. disk' = disk /\ fbuf' = fbuf \o Text(e)
      BY <1>3 DEF Fwrite
    <2>2. disk \o (fbuf \o Text(e)) = (disk \o fbuf) \o Text(e)
      BY <1>1, ConcatAssociative
    <2> QED BY <2>1, <2>2, Zenon DEF Written
  <1>4. CASE ~HasRoom
    <2>1. PICK n \in 0..1 : /\ disk' = disk \o fbuf \o SubSeq(Text(e), 1, n)
                            /\ fbuf' = SubSeq(Text(e), n + 1, 2)
      BY <1>4 DEF Fwrite
    <2>2. PICK f, g \in Seq(Part) : /\ f = SubSeq(Text(e), 1, n)
                                   /\ g = SubSeq(Text(e), n + 1, 2) /\ f \o g = Text(e)
      BY TextProps
    <2>3. PICK h \in Seq(Part) : h = disk \o fbuf
      BY <1>2
    <2>4. (h \o f) \o g = h \o (f \o g)
      <3>1. h \in Seq(Part) /\ f \in Seq(Part) /\ g \in Seq(Part)
        BY <2>2, <2>3
      <3> QED BY ONLY <3>1, ConcatAssociative
    <2> QED BY <2>1, <2>2, <2>3, <2>4, Zenon DEF Written
  <1> QED BY <1>3, <1>4

\* fflush moves text from the buffer to the file.
LEMMA FflushKeeps ==
  ASSUME LogTypes, Fflush
  PROVE  Written' = Written
  <1>1. disk \in Seq(Part) /\ fbuf \in Seq(Part)
    BY DEF LogTypes
  <1>2. disk \o fbuf \in Seq(Part)
    BY <1>1, ConcatProperties
  <1>3. (disk \o fbuf) \o <<>> = disk \o fbuf
    BY <1>2, ConcatEmptySeq
  <1> QED BY <1>3 DEF Fflush, Written

\* A ring is deleted empty: nothing of it is lost.
LEMMA ReclaimKeeps ==
  ASSUME IInv, NEW s, ScanReclaim(s)
  PROVE  ring' = ring
  <1>1. PICK c : c = Current
    OBVIOUS
  <1>2. c \in Threads /\ ring \in [Threads -> Seq(Event)]
    BY <1>1, CurrentRing DEF ScanReclaim, IInv, TypeOK, ThreadTypes
  <1>3. CASE Drained(c)
    <2>1. ring' = [ring EXCEPT ![c] = <<>>] /\ ring[c] = <<>>
      BY <1>1, <1>3 DEF ScanReclaim, Drained
    <2> QED BY <1>2, <2>1
  <1>4. CASE ~Drained(c)
    BY <1>1, <1>4 DEF ScanReclaim
  <1> QED BY <1>3, <1>4

\* Steps other than Commit and ScanEvent.
LEMMA OtherSteps ==
  ASSUME IInv, [Next]_vars,
         \A t \in Threads : ~Commit(t), \A s \in {Main, Backend} : ~ScanEvent(s)
  PROVE  UNCHANGED <<committed, ring, Written>>
  <1>1. CASE UNCHANGED vars \/ Finished
    BY <1>1 DEF Finished, vars, fileVars, threadVars, Written
  <1>2. ASSUME NEW t \in Threads, ThreadStep(t)
        PROVE  UNCHANGED <<committed, ring, Written>>
    BY <1>2 DEF ThreadStep, LogEvent, Allocate, Register, Reserve, ThreadExit,
       fileVars, Written
  <1>3. ASSUME NEW s \in {Main, Backend}, Scan(s)
        PROVE  UNCHANGED <<committed, ring, Written>>
    <2>1. CASE ScanReclaim(s)
      BY <2>1, ReclaimKeeps DEF ScanReclaim, fileVars, Written
    <2>2. CASE ~ScanReclaim(s)
      BY <1>3, <2>2 DEF Scan, ScanLock, ScanEmpty, ScanDead, ScanUnlock, fileVars,
         threadVars, Written
    <2> QED BY <2>1, <2>2
  <1>4. CASE BackendFlush
    <2>1. CASE FlushDue
      BY <1>4, <2>1, FflushKeeps DEF BackendFlush, threadVars, IInv, TypeOK
    <2>2. CASE ~FlushDue
      BY <1>4, <2>2 DEF BackendFlush, threadVars, Written
    <2> QED BY <2>1, <2>2
  <1>5. CASE CloseFlush
    <2>1. CASE Again
      BY <1>5, <2>1 DEF CloseFlush, fileVars, threadVars, Written
    <2>2. CASE ~Again
      BY <1>5, <2>2, FflushKeeps DEF CloseFlush, threadVars, IInv, TypeOK
    <2> QED BY <2>1, <2>2
  <1>6. CASE BackendCheck \/ BackendDrain \/ SignalFlush \/ LogInit \/ LogClose
             \/ CloseRequest \/ CloseJoin \/ CloseFile \/ ClearFile
    BY <1>6 DEF BackendCheck, BackendDrain, SignalFlush, LogInit, LogClose,
       CloseRequest, CloseJoin, CloseFile, ClearFile, fileVars, threadVars, Written
  <1> QED BY <1>1, <1>2, <1>3, <1>4, <1>5, <1>6 DEF Next, BackendStep, MainStep

\* The pipeline implements TraceFile: the file is a merge of the threads'
\* events that keeps the order of every thread, whatever rings are deleted,
\* buffers flushed and threads ended meanwhile.
THEOREM PipelineImplementsTraceFile == Spec => KeepsThreadOrder
  <1>1. Init => Trace!Init
    <2> SUFFICES ASSUME Init PROVE Trace!Init
      OBVIOUS
    <2>1. <<>> \in Seq(Part)
      BY EmptySeq
    <2>2. disk \o fbuf = <<>>
      BY <2>1, ConcatEmptySeq DEF Init
    <2> QED BY <2>2 DEF Init, Trace!Init
  <1>2. IInv /\ [Next]_vars => [Trace!Next]_Trace!vars
    <2> SUFFICES ASSUME IInv, [Next]_vars PROVE [Trace!Next]_Trace!vars
      OBVIOUS
    <2>1. ASSUME NEW t \in Threads, Commit(t) PROVE Trace!Log(t)
      BY <2>1 DEF Commit, fileVars, Trace!Log
    <2>2. ASSUME NEW s, ScanEvent(s) PROVE \E t \in Threads : Trace!Write(t)
      <3>1. PICK c : c = Current
        OBVIOUS
      <3>2. /\ c \in Threads /\ ring[c] # <<>> /\ ring[c] \in Seq(Event)
            /\ Fwrite(Head(ring[c])) /\ ring' = [ring EXCEPT ![c] = Tail(@)]
            /\ committed' = committed
        BY <2>2, <3>1, CurrentRing DEF ScanEvent, Take, IInv, TypeOK, ThreadTypes
      <3>3. Head(ring[c]) \in Event
        BY <3>2, HeadTailProperties
      <3>4. Written' = Written \o Text(Head(ring[c]))
        BY <3>2, <3>3, FwriteAppends DEF IInv, TypeOK
      <3> QED BY <3>2, <3>4 DEF Trace!Write, Trace!Text, Text, Written
    <2>3. CASE (\A t \in Threads : ~Commit(t)) /\ \A s \in {Main, Backend} : ~ScanEvent(s)
      BY <2>3, OtherSteps DEF Trace!vars, Written
    <2> QED BY <2>1, <2>2, <2>3 DEF Trace!Next
  <1> QED BY <1>1, <1>2, Invariance, PTL DEF Spec, KeepsThreadOrder, Trace!Spec
-----------------------------------------------------------------------------
(* Closing the log.                                                        *)

\* An appended element is the only new one.
LEMMA AppendElements ==
  \A S : \A s \in Seq(S), x \in S : Elements(Append(s, x)) = Elements(s) \cup {x}
  <1> TAKE S
  <1> TAKE s \in Seq(S), x \in S
  <1>1. PICK u : u = Append(s, x)
    OBVIOUS
  <1>2. /\ Len(s) \in Nat /\ Len(u) = Len(s) + 1
        /\ \A i \in 1..Len(s) : u[i] = s[i]
        /\ u[Len(s) + 1] = x
    BY <1>1, AppendProperties, LenProperties
  <1>3. \A i \in 1..Len(u) : i \in 1..Len(s) \/ i = Len(s) + 1
    BY ONLY <1>2
  <1>4. Len(s) + 1 \in 1..Len(u) /\ \A i \in 1..Len(s) : i \in 1..Len(u)
    BY ONLY <1>2
  <1>5. \A i \in 1..Len(u) : u[i] \in Elements(s) \cup {x}
    BY <1>2, <1>3, Zenon DEF Elements
  <1>6. x \in Elements(u) /\ \A i \in 1..Len(s) : s[i] \in Elements(u)
    BY <1>2, <1>4, Zenon DEF Elements
  <1>7. Elements(u) \subseteq Elements(s) \cup {x}
    BY ONLY <1>5 DEF Elements
  <1>8. Elements(s) \cup {x} \subseteq Elements(u)
    BY ONLY <1>6 DEF Elements
  <1> QED BY <1>1, <1>7, <1>8

\* A sequence has the elements of its tail and its head.
LEMMA HeadTailElements ==
  \A S : \A s \in Seq(S) : s # <<>> => Elements(s) = {Head(s)} \cup Elements(Tail(s))
  <1> TAKE S
  <1> TAKE s \in Seq(S)
  <1> HAVE s # <<>>
  <1>1. PICK u : u = Tail(s)
    OBVIOUS
  <1>2. /\ Len(s) \in Nat \ {0} /\ Len(u) = Len(s) - 1 /\ Head(s) = s[1]
        /\ \A i \in 1..Len(u) : u[i] = s[i + 1]
    BY <1>1, HeadTailProperties, LenProperties, EmptySeq
  <1>3. \A i \in 1..Len(s) : i = 1 \/ (i - 1 \in 1..Len(u) /\ (i - 1) + 1 = i)
    BY ONLY <1>2
  <1>4. 1 \in 1..Len(s) /\ \A i \in 1..Len(u) : i + 1 \in 1..Len(s)
    BY ONLY <1>2
  <1>5. ASSUME NEW i \in 1..Len(s) PROVE s[i] \in {s[1]} \cup Elements(u)
    <2>1. CASE i = 1
      BY <2>1
    <2>2. CASE i - 1 \in 1..Len(u) /\ (i - 1) + 1 = i
      <3>1. s[i] = u[i - 1]
        BY <2>2, <1>2, Zenon
      <3> QED BY <3>1, <2>2, Zenon DEF Elements
    <2> QED BY <1>3, <2>1, <2>2
  <1>6. s[1] \in Elements(s) /\ \A i \in 1..Len(u) : u[i] \in Elements(s)
    BY <1>2, <1>4, Zenon DEF Elements
  <1>7. Elements(s) \subseteq {s[1]} \cup Elements(u)
    BY ONLY <1>5 DEF Elements
  <1>8. {s[1]} \cup Elements(u) \subseteq Elements(s)
    BY ONLY <1>6 DEF Elements
  <1> QED BY <1>1, <1>2, <1>7, <1>8

\* What is written ends with the end of a line.
LineEnds(s) == s # <<>> => s[Len(s)][2] = 2

\* What stands somewhere stands there whatever follows.
LEMMA TextAtExtends ==
  ASSUME NEW s \in Seq(Part), NEW u \in Seq(Part), NEW e, NEW i, TextAt(s, e, i)
  PROVE  TextAt(s \o u, e, i)
  <1>1. PICK w, m, n : w = s \o u /\ m = Len(s) /\ n = Len(u)
    OBVIOUS
  <1>2. /\ m \in Nat /\ n \in Nat /\ Len(w) = m + n
        /\ \A j \in 1..(m + n) : w[j] = IF j <= m THEN s[j] ELSE u[j - m]
    BY <1>1, LenProperties, ConcatProperties
  <1>3. \A j \in 1..m : j \in 1..Len(w) /\ w[j] = s[j]
    BY <1>2
  <1>4. /\ i \in 1..m /\ i + 1 \in 1..m /\ s[i] = <<e, 1>> /\ s[i + 1] = <<e, 2>>
        /\ i > 1 => s[i - 1][2] = 2 /\ i - 1 \in 1..m
    BY <1>1, <1>2 DEF TextAt
  <1> QED BY <1>1, <1>3, <1>4 DEF TextAt

\* A text that begins a line can be read, and so can all that could be read before.
LEMMA TextReadable ==
  ASSUME NEW s \in Seq(Part), LineEnds(s), NEW e \in Event
  PROVE  /\ s \o Text(e) \in Seq(Part) /\ LineEnds(s \o Text(e))
         /\ TextAt(s \o Text(e), e, Len(s) + 1)
         /\ Whole(s) \cup {e} \subseteq Whole(s \o Text(e))
  <1>1. PICK w, m : w = s \o Text(e) /\ m = Len(s)
    OBVIOUS
  <1>2. /\ m \in Nat /\ w \in Seq(Part) /\ Len(w) = m + 2
        /\ \A j \in 1..(m + 2) : w[j] = IF j <= m THEN s[j] ELSE Text(e)[j - m]
    <2>1. PICK t \in Seq(Part) : t = Text(e) /\ Len(t) = 2
      BY TextProps
    <2>2. m \in Nat
      BY <1>1, LenProperties
    <2>3. /\ s \o t \in Seq(Part) /\ Len(s \o t) = Len(s) + Len(t)
          /\ \A j \in 1..(Len(s) + Len(t)) :
                (s \o t)[j] = IF j <= Len(s) THEN s[j] ELSE t[j - Len(s)]
      BY <2>1, ConcatProperties, Zenon
    <2> QED BY <1>1, <2>1, <2>2, <2>3
  <1>3. w[m + 1] = <<e, 1>> /\ w[m + 2] = <<e, 2>>
    <2>1. /\ m + 1 \in 1..(m + 2) /\ m + 2 \in 1..(m + 2) /\ ~(m + 1 <= m) /\ ~(m + 2 <= m)
          /\ (m + 1) - m = 1 /\ (m + 2) - m = 2
      BY <1>2
    <2>2. w[m + 1] = Text(e)[1] /\ w[m + 2] = Text(e)[2]
      BY <1>2, <2>1
    <2> QED BY <2>2 DEF Text
  <1>4. m > 0 => s # <<>> /\ w[m] = s[m]
    BY <1>1, <1>2, EmptySeq
  <1>5. TextAt(w, e, m + 1)
    <2>1. m + 1 \in 1..Len(w) /\ (m + 1) + 1 \in 1..Len(w) /\ (m + 1) + 1 = m + 2
          /\ (m + 1) - 1 = m
      BY <1>2
    <2>2. m + 1 > 1 => w[m][2] = 2
      BY <1>1, <1>2, <1>4 DEF LineEnds
    <2> QED BY <1>3, <2>1, <2>2 DEF TextAt
  <1>6. LineEnds(w)
    BY <1>2, <1>3 DEF LineEnds
  <1>7. ASSUME NEW d \in Whole(s) PROVE d \in Whole(w)
    <2>1. PICK i \in 1..Len(s) : TextAt(s, d, i)
      BY <1>7 DEF Whole
    <2>2. TextAt(w, d, i) /\ d \in Event /\ i \in 1..Len(w)
      BY <1>1, <1>2, <1>7, <2>1, TextProps, TextAtExtends DEF Whole
    <2> QED BY <2>2 DEF Whole
  <1>8. e \in Whole(w)
    <2>1. m + 1 \in 1..Len(w)
      BY <1>2
    <2> QED BY <1>5, <2>1 DEF Whole
  <1> QED BY <1>1, <1>2, <1>5, <1>6, <1>7, <1>8

\* Where every committed event is: written in one piece, or in a ring of the registry.
AccountInv ==
  /\ \A t \in Threads : ring[t] # <<>> => ringState[t] = "live" /\ tpc[t] # "register"
  /\ \A e \in Committed : e \in Whole(Written) \/ e \in Elements(ring[e[1]])
  /\ LineEnds(Written)
  /\ owed.close \subseteq Committed
  /\ mpc \in {"init", "running"} => owed.close = {}

\* One more event of t is committed.
LEMMA CommitAdds ==
  ASSUME IInv, NEW t \in Threads, Commit(t)
  PROVE  /\ <<t, committed[t] + 1>> \in Event \ Committed
         /\ Committed' = Committed \cup {<<t, committed[t] + 1>>}
         /\ Elements(ring'[t]) = Elements(ring[t]) \cup {<<t, committed[t] + 1>>}
         /\ \A u \in Threads : u # t => ring'[u] = ring[u]
         /\ Written' = Written
  <1>1. /\ committed \in [Threads -> 0..MaxEvents] /\ committed[t] < MaxEvents
        /\ ring \in [Threads -> Seq(Event)] /\ MaxEvents \in Nat
    BY LimitAssumption DEF IInv, TypeOK, ThreadTypes, ThreadInv, Commit
  <1>2. PICK n \in Nat : n = committed[t]
    BY <1>1
  <1>3. n + 1 \in 1..MaxEvents /\ <<t, n + 1>> \in Event
    BY <1>1, <1>2 DEF Event
  <1>4. \A u \in Threads : committed'[u] = IF u = t THEN n + 1 ELSE committed[u]
    BY <1>1, <1>2 DEF Commit
  <1>5. \A u \in Threads, m \in 1..MaxEvents :
          m <= committed'[u] <=> m <= committed[u] \/ (u = t /\ m = n + 1)
    BY <1>1, <1>2, <1>4
  <1>6. \A e \in Event : e = <<e[1], e[2]>> /\ e[1] \in Threads /\ e[2] \in 1..MaxEvents
    BY DEF Event
  <1>7. Committed' = Committed \cup {<<t, n + 1>>}
    <2>1. \A e \in Event : e[2] <= committed'[e[1]] <=> e[2] <= committed[e[1]] \/ e = <<t, n + 1>>
      BY <1>5, <1>6
    <2> QED BY <2>1, <1>3 DEF Committed
  <1>8. <<t, n + 1>> \notin Committed
    BY <1>2 DEF Committed
  <1>9. ring' = [ring EXCEPT ![t] = Append(@, <<t, n + 1>>)]
    BY <1>2 DEF Commit
  <1>10. ring'[t] = Append(ring[t], <<t, n + 1>>) /\ ring[t] \in Seq(Event)
    BY <1>1, <1>9
  <1>11. Elements(ring'[t]) = Elements(ring[t]) \cup {<<t, n + 1>>}
    BY <1>3, <1>10, AppendElements
  <1>12. \A u \in Threads : u # t => ring'[u] = ring[u]
    BY <1>1, <1>9
  <1>13. Written' = Written
    BY DEF Commit, fileVars, Written
  <1> QED BY <1>2, <1>3, <1>7, <1>8, <1>11, <1>12, <1>13

\* The oldest event of a ring becomes the last one written.
LEMMA ScanEventMoves ==
  ASSUME IInv, NEW s, ScanEvent(s)
  PROVE  \E c \in Threads : \E e \in Event :
           /\ Elements(ring[c]) = {e} \cup Elements(ring'[c])
           /\ Written' = Written \o Text(e)
           /\ ring[c] # <<>>
           /\ \A u \in Threads : u # c => ring'[u] = ring[u]
  <1>1. PICK c : c = Current
    OBVIOUS
  <1>2. /\ c \in Threads /\ ring[c] # <<>> /\ ring \in [Threads -> Seq(Event)]
        /\ Fwrite(Head(ring[c])) /\ ring' = [ring EXCEPT ![c] = Tail(@)]
    BY <1>1, CurrentRing DEF ScanEvent, Take, IInv, TypeOK, ThreadTypes
  <1>3. ring[c] \in Seq(Event) /\ ring'[c] = Tail(ring[c])
    BY <1>2
  <1>4. PICK e \in Event : e = Head(ring[c])
    BY <1>2, <1>3, HeadTailProperties
  <1>5. Written' = Written \o Text(e)
    BY <1>2, <1>4, FwriteAppends DEF IInv, TypeOK
  <1>6. Elements(ring[c]) = {e} \cup Elements(ring'[c])
    BY <1>2, <1>3, <1>4, HeadTailElements
  <1>7. \A u \in Threads : u # c => ring'[u] = ring[u]
    BY <1>2
  <1> QED BY <1>2, <1>5, <1>6, <1>7

\* What is written are parts of texts.
LEMMA WrittenTypes ==
  ASSUME IInv PROVE Written \in Seq(Part)
  BY ConcatProperties DEF Written, IInv, TypeOK, LogTypes

\* What is owed at the end is settled when log_close begins.
LEMMA OwedFrame ==
  ASSUME IInv, [Next]_vars, ~LogClose
  PROVE  /\ owed'.close = owed.close
         /\ mpc' \in {"init", "running"} => mpc \in {"init", "running"}
  <1>1. CASE UNCHANGED vars \/ Finished
    BY <1>1 DEF Finished, vars
  <1>2. ASSUME NEW t \in Threads, ThreadStep(t) PROVE UNCHANGED <<owed, mpc>>
    BY <1>2 DEF ThreadStep, LogEvent, Allocate, Register, Reserve, Commit, ThreadExit
  <1>3. ASSUME NEW s \in {Main, Backend}, Scan(s)
        PROVE  owed'.close = owed.close /\ mpc' = mpc
    <2>1. CASE ScanLock(s)
      BY <2>1 DEF ScanLock, IInv, TypeOK, LogTypes
    <2>2. CASE ~ScanLock(s)
      BY <1>3, <2>2 DEF Scan, ScanEvent, ScanEmpty, ScanDead, ScanReclaim, ScanUnlock
    <2> QED BY <2>1, <2>2
  <1>4. CASE BackendFlush \/ BackendCheck \/ BackendDrain \/ SignalFlush \/ LogInit
             \/ CloseRequest \/ CloseJoin \/ CloseFlush \/ CloseFile \/ ClearFile
    BY <1>4 DEF BackendFlush, BackendCheck, BackendDrain, SignalFlush, LogInit,
       CloseRequest, CloseJoin, CloseFlush, CloseFile, ClearFile
  <1> QED BY <1>1, <1>2, <1>3, <1>4 DEF Next, BackendStep, MainStep

\* Commits are never taken back.
LEMMA CommittedGrows ==
  ASSUME IInv, [Next]_vars PROVE Committed \subseteq Committed'
  <1>1. ASSUME NEW t \in Threads, Commit(t) PROVE Committed \subseteq Committed'
    BY <1>1, CommitAdds
  <1>2. ASSUME NEW s \in {Main, Backend}, ScanEvent(s) PROVE Committed \subseteq Committed'
    BY <1>2 DEF ScanEvent, Committed
  <1>3. CASE (\A t \in Threads : ~Commit(t)) /\ \A s \in {Main, Backend} : ~ScanEvent(s)
    BY <1>3, OtherSteps DEF Committed
  <1> QED BY <1>1, <1>2, <1>3

\* Nothing gets lost on the way, and nothing is owed that was not committed.
LEMMA AccountStep ==
  ASSUME ~LateLogging, IInv, ExitInv, AccountInv, [Next]_vars PROVE AccountInv'
  <1>1. ASSUME NEW t \in Threads, ring'[t] # <<>>
        PROVE  ringState'[t] = "live" /\ tpc'[t] # "register"
    <2>1. CASE UNCHANGED <<ring, ringState, tpc>>
      BY <1>1, <2>1 DEF AccountInv
    <2>2. ASSUME NEW u \in Threads, ThreadStep(u), ~Commit(u)
          PROVE  ringState'[t] = "live" /\ tpc'[t] # "register"
      <3>1. ring' = ring /\ ring[t] # <<>> /\ ringState[t] = "live" /\ tpc[t] # "register"
        BY <1>1, <2>2 DEF AccountInv, ThreadStep, LogEvent, Allocate, Register, Reserve,
           ThreadExit
      <3> QED BY <2>2, <3>1 DEF ThreadStep, LogEvent, Allocate, Register, Reserve,
              ThreadExit, IInv, TypeOK, ThreadTypes, ThreadInv
    <2>3. ASSUME NEW u \in Threads, Commit(u)
          PROVE  ringState'[t] = "live" /\ tpc'[t] # "register"
      <3>1. /\ ringState' = ringState /\ tpc' = [tpc EXCEPT ![u] = "idle"]
            /\ tpc[u] = "commit" /\ \A v \in Threads : v # u => ring'[v] = ring[v]
        BY <2>3, CommitAdds DEF Commit
      <3>2. ringState[u] = "live"
        BY <3>1 DEF IInv, TypeOK, ThreadTypes, ThreadInv, ExitInv
      <3> QED BY <1>1, <3>1, <3>2 DEF AccountInv, IInv, TypeOK, ThreadTypes
    <2>4. ASSUME NEW s \in {Main, Backend}, ScanEvent(s)
          PROVE  ringState'[t] = "live" /\ tpc'[t] # "register"
      <3>1. ring[t] # <<>>
        BY <1>1, <2>4, ScanEventMoves
      <3> QED BY <2>4, <3>1 DEF ScanEvent, AccountInv
    <2>5. ASSUME NEW s \in {Main, Backend}, ScanReclaim(s)
          PROVE  ringState'[t] = "live" /\ tpc'[t] # "register"
      <3>1. ring' = ring
        BY <2>5, ReclaimKeeps
      <3>2. ringState[t] = "live" /\ tpc[t] # "register" /\ tpc' = tpc
        BY <1>1, <2>5, <3>1 DEF AccountInv, ScanReclaim
      <3>3. ringState'[t] = "live"
        <4>1. PICK c : c = Current
          OBVIOUS
        <4>2. CASE Drained(c)
          <5>1. t # c /\ ringState' = [ringState EXCEPT ![c] = "freed"]
            BY <1>1, <2>5, <3>1, <4>1, <4>2 DEF ScanReclaim, Drained
          <5> QED BY <3>2, <5>1 DEF IInv, TypeOK, ThreadTypes
        <4>3. CASE ~Drained(c)
          BY <2>5, <3>2, <4>1, <4>3 DEF ScanReclaim
        <4> QED BY <4>2, <4>3
      <3> QED BY <3>2, <3>3
    <2>6. ASSUME NEW s \in {Main, Backend}, Scan(s), ~ScanEvent(s), ~ScanReclaim(s)
          PROVE  UNCHANGED <<ring, ringState, tpc>>
      BY <2>6 DEF Scan, ScanLock, ScanEmpty, ScanDead, ScanUnlock, threadVars
    <2>7. CASE BackendFlush \/ BackendCheck \/ BackendDrain \/ SignalFlush \/ LogInit
               \/ LogClose \/ CloseRequest \/ CloseJoin \/ CloseFlush \/ CloseFile
               \/ ClearFile \/ Finished \/ UNCHANGED vars
      <3>1. UNCHANGED <<ring, ringState, tpc>>
        BY <2>7 DEF BackendFlush, BackendCheck, BackendDrain, SignalFlush, LogInit,
           LogClose, CloseRequest, CloseJoin, CloseFlush, CloseFile, ClearFile, Finished,
           vars, threadVars
      <3> QED BY <3>1, <2>1
    <2> QED BY <2>1, <2>2, <2>3, <2>4, <2>5, <2>6, <2>7
            DEF Next, BackendStep, MainStep
  <1>2. ASSUME NEW e \in Committed'
        PROVE  e \in Whole(Written') \/ e \in Elements(ring'[e[1]])
    <2>1. ASSUME NEW t \in Threads, Commit(t)
          PROVE  e \in Whole(Written') \/ e \in Elements(ring'[e[1]])
      <3>1. PICK f : f = <<t, committed[t] + 1>>
        OBVIOUS
      <3>2. /\ e \in Committed \/ e = f
            /\ f[1] = t /\ Elements(ring'[t]) = Elements(ring[t]) \cup {f}
            /\ \A u \in Threads : u # t => ring'[u] = ring[u]
            /\ Written' = Written
        BY <1>2, <2>1, <3>1, CommitAdds
      <3>3. CASE e = f
        BY <3>2, <3>3
      <3>4. CASE e \in Committed
        <4>1. e[1] \in Threads
          BY <3>4 DEF Committed, Event
        <4>2. e \in Whole(Written) \/ e \in Elements(ring[e[1]])
          BY <3>4 DEF AccountInv
        <4> QED BY <3>2, <4>1, <4>2
      <3> QED BY <3>2, <3>3, <3>4
    <2>2. ASSUME NEW s \in {Main, Backend}, ScanEvent(s)
          PROVE  e \in Whole(Written') \/ e \in Elements(ring'[e[1]])
      <3>1. committed' = committed
        BY <2>2 DEF ScanEvent
      <3>2. e \in Committed /\ e[1] \in Threads
        BY <1>2, <3>1 DEF Committed, Event
      <3>3. e \in Whole(Written) \/ e \in Elements(ring[e[1]])
        BY <3>2 DEF AccountInv
      <3>4. PICK c \in Threads, f \in Event :
              /\ Elements(ring[c]) = {f} \cup Elements(ring'[c])
              /\ Written' = Written \o Text(f)
              /\ \A u \in Threads : u # c => ring'[u] = ring[u]
        BY <2>2, ScanEventMoves
      <3>5. Whole(Written) \cup {f} \subseteq Whole(Written')
        BY <3>4, WrittenTypes, TextReadable DEF AccountInv
      <3> QED BY <3>2, <3>3, <3>4, <3>5
    <2>3. CASE (\A t \in Threads : ~Commit(t)) /\ \A s \in {Main, Backend} : ~ScanEvent(s)
      <3>1. UNCHANGED <<committed, ring, Written>>
        BY <2>3, OtherSteps
      <3> QED BY <1>2, <3>1 DEF AccountInv, Committed
    <2> QED BY <2>1, <2>2, <2>3
  <1>3. Committed \subseteq Committed'
    BY CommittedGrows
  <1>4. /\ owed'.close \subseteq Committed'
        /\ mpc' \in {"init", "running"} => owed'.close = {}
    <2>1. CASE LogClose
      <3>1. owed \in [flush : SUBSET Event, close : SUBSET Event]
        BY DEF IInv, TypeOK, LogTypes
      <3>2. mpc' \notin {"init", "running"} /\ owed'.close \in {owed.close, Committed}
        BY <2>1, <3>1 DEF LogClose
      <3> QED BY <1>3, <3>2 DEF AccountInv
    <2>2. CASE ~LogClose
      <3>1. owed'.close = owed.close /\ (mpc' \in {"init", "running"} => mpc \in {"init", "running"})
        BY <2>2, OwedFrame
      <3> QED BY <1>3, <3>1 DEF AccountInv
    <2> QED BY <2>1, <2>2
  <1>5. LineEnds(Written')
    <2>1. ASSUME NEW s \in {Main, Backend}, ScanEvent(s) PROVE LineEnds(Written')
      <3>1. PICK f \in Event : Written' = Written \o Text(f)
        BY <2>1, ScanEventMoves
      <3> QED BY <3>1, WrittenTypes, TextReadable DEF AccountInv
    <2>2. ASSUME NEW t \in Threads, Commit(t) PROVE LineEnds(Written')
      BY <2>2, CommitAdds DEF AccountInv
    <2>3. CASE (\A t \in Threads : ~Commit(t)) /\ \A s \in {Main, Backend} : ~ScanEvent(s)
      BY <2>3, OtherSteps DEF AccountInv
    <2> QED BY <2>1, <2>2, <2>3
  <1> QED BY <1>1, <1>2, <1>4, <1>5 DEF AccountInv

\* The events of D that are still in the ring of t.
Left(D, t) == D \cap Elements(ring[t])

\* The scan has left none of D in the rings it has passed, nor in the one it
\* has found empty, nor, when it is done, in any.
Cleared(D) ==
  /\ spc \in {"drain", "dead", "reclaim"} =>
       \A i \in 1..(cursor - 1) : Left(D, registry[i]) = {}
  /\ spc \in {"dead", "reclaim"} =>
       cursor <= Len(registry) /\ Left(D, registry[cursor]) = {}
  /\ spc = "done" => \A t \in Threads : Left(D, t) = {}

\* Threads commit events all the time, but of events that are committed already
\* no ring ever holds more than before.
LEMMA LeftShrinks ==
  ASSUME IInv, [Next]_vars, NEW D, D \subseteq Committed
  PROVE  \A t \in Threads : Left(D, t)' \subseteq Left(D, t)
  <1>1. ASSUME NEW u \in Threads, Commit(u)
        PROVE  \A t \in Threads : Left(D, t)' \subseteq Left(D, t)
    <2>1. PICK f : f = <<u, committed[u] + 1>>
      OBVIOUS
    <2>2. /\ f \notin Committed /\ Elements(ring'[u]) = Elements(ring[u]) \cup {f}
          /\ \A t \in Threads : t # u => ring'[t] = ring[t]
      BY <1>1, <2>1, CommitAdds
    <2> QED BY <2>2 DEF Left
  <1>2. ASSUME NEW s \in {Main, Backend}, ScanEvent(s)
        PROVE  \A t \in Threads : Left(D, t)' \subseteq Left(D, t)
    BY <1>2, ScanEventMoves DEF Left
  <1>3. CASE (\A t \in Threads : ~Commit(t)) /\ \A s \in {Main, Backend} : ~ScanEvent(s)
    <2>1. ring' = ring
      BY <1>3, OtherSteps
    <2> QED BY <2>1 DEF Left
  <1> QED BY <1>1, <1>2, <1>3

\* A step that does not move the scan.
LEMMA ClearedFrame ==
  ASSUME IInv, [Next]_vars, NEW D, D \subseteq Committed, Cleared(D),
         UNCHANGED <<spc, cursor>>,
         registry' = registry \/ spc \notin {"drain", "dead", "reclaim"}
  PROVE  Cleared(D)'
  <1>1. \A t \in Threads : Left(D, t)' \subseteq Left(D, t)
    BY LeftShrinks
  <1>2. /\ registry \in Seq(Threads) /\ Len(registry) \in Nat
        /\ cursor \in 1..(Len(registry) + 1)
    BY LenProperties DEF IInv, TypeOK, ScanTypes
  <1>3. \A i \in 1..Len(registry) : registry[i] \in Threads
    BY <1>2, ElementOfSeq
  <1>4. \A i \in 1..(cursor - 1) : i \in 1..Len(registry)
    BY <1>2
  <1>5. ASSUME spc \in {"drain", "dead", "reclaim"}
        PROVE  \A i \in 1..(cursor' - 1) : Left(D, registry[i])' = {}
    <2>1. registry' = registry /\ cursor' = cursor
      BY <1>5
    <2>2. \A i \in 1..(cursor - 1) : Left(D, registry[i]) = {} /\ registry[i] \in Threads
      BY <1>3, <1>4, <1>5 DEF Cleared
    <2>3. ASSUME NEW i \in 1..(cursor - 1) PROVE Left(D, registry[i])' = {}
      <3>1. PICK c \in Threads : c = registry[i] /\ c = registry'[i]
        BY <2>1, <2>2
      <3>2. Left(D, c) = {} /\ Left(D, c)' \subseteq Left(D, c)
        BY <1>1, <2>2, <3>1
      <3> QED BY <3>1, <3>2 DEF Left
    <2> QED BY <2>1, <2>3
  <1>6. ASSUME spc \in {"dead", "reclaim"}
        PROVE  cursor' <= Len(registry') /\ Left(D, registry[cursor])' = {}
    <2>1. registry' = registry /\ cursor' = cursor
      BY <1>6
    <2>2. cursor <= Len(registry) /\ Left(D, registry[cursor]) = {}
      BY <1>6 DEF Cleared
    <2>3. PICK c \in Threads : c = registry[cursor] /\ c = registry'[cursor']
      BY <1>2, <1>3, <2>1, <2>2
    <2>4. Left(D, c)' = {}
      BY <1>1, <2>2, <2>3
    <2> QED BY <2>1, <2>2, <2>3, <2>4 DEF Left
  <1>7. spc = "done" => \A t \in Threads : Left(D, t)' = {}
    BY <1>1 DEF Cleared
  <1> QED BY <1>5, <1>6, <1>7 DEF Cleared

\* A step of the scan: what it passes it has emptied of all that was in there.
LEMMA ScanClears ==
  ASSUME IInv, AccountInv, [Next]_vars, NEW D, D \subseteq Committed, Cleared(D),
         NEW s \in {Main, Backend}, Scan(s)
  PROVE  Cleared(D)'
  <1>1. \A t \in Threads : Left(D, t)' \subseteq Left(D, t)
    BY LeftShrinks
  <1>2. /\ registry \in Seq(Threads) /\ Len(registry) \in Nat
        /\ cursor \in 1..(Len(registry) + 1)
    BY LenProperties DEF IInv, TypeOK, ScanTypes
  <1>3. \A i \in 1..Len(registry) : registry[i] \in Threads
    BY <1>2, ElementOfSeq
  <1>4. PICK k \in Nat : k = cursor
    BY <1>2
  <1> DEFINE Passed(n) == \A i \in 1..n : Left(D, registry[i]) = {}
  <1>5. ASSUME NEW n \in Nat, n <= Len(registry), Passed(n), \A i \in 1..n : registry'[i] = registry[i]
        PROVE  \A i \in 1..n : Left(D, registry[i])' = {}
    <2> TAKE i \in 1..n
    <2>1. i \in 1..Len(registry)
      BY <1>2, <1>5
    <2>2. PICK c \in Threads : c = registry[i] /\ c = registry'[i]
      BY <1>3, <1>5, <2>1
    <2>3. Left(D, c) = {} /\ Left(D, c)' \subseteq Left(D, c)
      BY <1>1, <1>5, <2>2
    <2> QED BY <2>2, <2>3 DEF Left
  <1>6. ASSUME NEW i \in 1..Len(registry), Left(D, registry[i]) = {}, registry'[i] = registry[i]
        PROVE  Left(D, registry[i])' = {}
    <2>1. PICK c \in Threads : c = registry[i] /\ c = registry'[i]
      BY <1>3, <1>6
    <2>2. Left(D, c) = {} /\ Left(D, c)' \subseteq Left(D, c)
      BY <1>1, <1>6, <2>1
    <2> QED BY <2>1, <2>2 DEF Left
  <1>7. spc \in {"drain", "dead", "reclaim"} => Passed(k - 1)
    BY <1>4 DEF Cleared
  <1> HIDE DEF Passed
  <1>8. CASE ScanLock(s)
    <2>1. cursor' = 1 /\ spc' = "drain"
      BY <1>8 DEF ScanLock
    <2>2. 1..(cursor' - 1) = {}
      BY <2>1
    <2> QED BY <2>1, <2>2 DEF Cleared
  <1>9. CASE ScanEvent(s)
    BY <1>9, ClearedFrame DEF ScanEvent
  <1>10. CASE ScanEmpty(s)
    <2>1. /\ spc = "drain" /\ spc' = "dead" /\ UNCHANGED <<registry, cursor>>
          /\ AtRing(s) /\ ring[Current] = <<>>
      BY <1>10 DEF ScanEmpty
    <2>2. k \in 1..Len(registry) /\ k - 1 \in Nat /\ k - 1 <= Len(registry)
      BY <1>2, <1>4, <2>1 DEF AtRing
    <2>3. \A i \in 1..(k - 1) : Left(D, registry[i])' = {}
      BY <1>5, <1>7, <2>1, <2>2
    <2>4. Left(D, registry[k]) = {}
      <3>1. ring[registry[k]] = <<>>
        BY <1>4, <2>1 DEF Current
      <3> QED BY <3>1, EmptySeq DEF Left, Elements
    <2>5. Left(D, registry[k])' = {}
      BY <1>6, <2>1, <2>2, <2>4
    <2>6. cursor' = k /\ k <= Len(registry') /\ cursor' <= Len(registry')
      BY <1>4, <2>1, <2>2
    <2> QED BY <2>1, <2>3, <2>5, <2>6 DEF Cleared
  <1>11. ASSUME spc \in {"dead", "reclaim"}, spc' = "drain", cursor' = cursor + 1,
                registry' = registry
         PROVE  Cleared(D)'
    <2>1. k \in 1..Len(registry) /\ Left(D, registry[k]) = {}
      BY <1>2, <1>4, <1>11 DEF Cleared
    <2>2. Passed(k)
      <3>1. \A i \in 1..k : i \in 1..(k - 1) \/ i = k
        OBVIOUS
      <3> QED BY <1>7, <1>11, <2>1, <3>1 DEF Passed
    <2>3. \A i \in 1..k : Left(D, registry[i])' = {}
      <3>1. k <= Len(registry)
        BY <1>2, <2>1
      <3> QED BY <1>5, <1>11, <2>2, <3>1
    <2>4. cursor' - 1 = k
      BY <1>4, <1>11
    <2> QED BY <1>11, <2>3, <2>4 DEF Cleared
  <1>12. CASE ScanDead(s)
    <2>1. spc = "dead" /\ UNCHANGED registry
      BY <1>12 DEF ScanDead
    <2>2. CASE ProducerDead(Current)
      <3>1. spc' = "reclaim" /\ cursor' = cursor
        BY <1>12, <2>2 DEF ScanDead
      <3>2. k \in 1..Len(registry) /\ Left(D, registry[k]) = {}
        BY <1>2, <1>4, <2>1 DEF Cleared
      <3>3. k - 1 \in Nat /\ k - 1 <= Len(registry)
        BY <1>2, <3>2
      <3>4. \A i \in 1..(k - 1) : Left(D, registry[i])' = {}
        BY <1>5, <1>7, <2>1, <3>3
      <3>5. Left(D, registry[k])' = {}
        BY <1>6, <2>1, <3>2
      <3>6. cursor' = k /\ cursor' <= Len(registry')
        BY <1>2, <1>4, <2>1, <3>1, <3>2
      <3> QED BY <3>1, <3>4, <3>5, <3>6 DEF Cleared
    <2>3. CASE ~ProducerDead(Current)
      BY <1>11, <1>12, <2>1, <2>3 DEF ScanDead
    <2> QED BY <2>2, <2>3
  <1>13. CASE ScanReclaim(s)
    <2>1. spc = "reclaim" /\ spc' = "drain"
      BY <1>13 DEF ScanReclaim
    <2>2. CASE ~Drained(Current)
      BY <1>11, <1>13, <2>1, <2>2 DEF ScanReclaim
    <2>3. CASE Drained(Current)
      <3>1. registry' = SubSeq(registry, 1, cursor - 1) \o SubSeq(registry, cursor + 1, Len(registry))
            /\ cursor' = cursor
        BY <1>13, <2>3 DEF ScanReclaim, Unlink
      <3>2. cursor \in 1..Len(registry)
        BY <1>2, <2>1 DEF Cleared
      <3>3. \A j \in 1..(Len(registry) - 1) :
              registry'[j] = IF j < cursor THEN registry[j] ELSE registry[j + 1]
        BY <1>2, <3>1, <3>2, UnlinkProps
      <3>4. k - 1 \in Nat /\ k - 1 <= Len(registry)
            /\ \A j \in 1..(k - 1) : j \in 1..(Len(registry) - 1) /\ j < k
        BY <1>2, <1>4, <3>2
      <3>5. \A j \in 1..(k - 1) : registry'[j] = registry[j]
        BY <1>4, <3>3, <3>4
      <3>6. \A i \in 1..(k - 1) : Left(D, registry[i])' = {}
        BY <1>5, <1>7, <2>1, <3>4, <3>5
      <3> QED BY <1>4, <2>1, <3>1, <3>6 DEF Cleared
    <2> QED BY <2>2, <2>3
  <1>14. CASE ScanUnlock(s)
    <2>1. spc = "drain" /\ spc' = "done" /\ k > Len(registry)
      BY <1>4, <1>14 DEF ScanUnlock
    <2>2. Passed(Len(registry))
      <3>1. k - 1 = Len(registry)
        BY <1>2, <1>4, <2>1
      <3> QED BY <1>7, <2>1, <3>1
    <2>3. ASSUME NEW t \in Threads PROVE Left(D, t) = {}
      <3>1. CASE ring[t] = <<>>
        BY <3>1, EmptySeq DEF Left, Elements
      <3>2. CASE ring[t] # <<>>
        <4>1. t \in {registry[i] : i \in 1..Len(registry)}
          BY <3>2 DEF AccountInv, IInv, RegistrySound, Elements
        <4> QED BY <2>2, <4>1 DEF Passed
      <3> QED BY <3>1, <3>2
    <2>4. \A t \in Threads : Left(D, t)' = {}
      BY <1>1, <2>3
    <2> QED BY <2>1, <2>4 DEF Cleared
  <1> QED BY <1>8, <1>9, <1>10, <1>12, <1>13, <1>14 DEF Scan

\* What was committed before a scan began is cleared by the scan.
LEMMA ClearedStep ==
  ASSUME IInv, AccountInv, [Next]_vars, NEW D, D \subseteq Committed, Cleared(D)
  PROVE  Cleared(D)'
  <1>1. ASSUME NEW s \in {Main, Backend}, Scan(s) PROVE Cleared(D)'
    BY <1>1, ScanClears
  <1>2. ASSUME NEW t \in Threads, ThreadStep(t) PROVE Cleared(D)'
    <2>1. UNCHANGED <<spc, cursor>>
      BY <1>2 DEF ThreadStep, LogEvent, Allocate, Register, Reserve, Commit, ThreadExit,
         scanVars
    <2>2. registry' = registry \/ spc \notin {"drain", "dead", "reclaim"}
      BY <1>2 DEF ThreadStep, LogEvent, Allocate, Register, Reserve, Commit, ThreadExit,
         scanVars, IInv, LockInv
    <2> QED BY <2>1, <2>2, ClearedFrame
  <1>3. CASE UNCHANGED <<spc, cursor, registry>>
    BY <1>3, ClearedFrame
  <1>4. CASE spc' \in {"lock", "rest"}
    BY <1>4 DEF Cleared
  <1>5. CASE BackendFlush \/ SignalFlush \/ LogClose \/ CloseRequest \/ CloseFile
             \/ ClearFile \/ Finished \/ UNCHANGED vars
    BY <1>3, <1>5 DEF BackendFlush, SignalFlush, LogClose, CloseRequest, CloseFile,
       ClearFile, Finished, vars, scanVars
  <1>6. CASE BackendCheck \/ BackendDrain \/ CloseJoin \/ CloseFlush
    BY <1>4, <1>6 DEF BackendCheck, BackendDrain, CloseJoin, CloseFlush
  <1>7. CASE LogInit
    BY <1>3, <1>4, <1>7 DEF LogInit
  <1> QED BY <1>1, <1>2, <1>5, <1>6, <1>7 DEF Next, BackendStep, MainStep

\* When a scan is done, all that it has cleared is written.
LEMMA ClearedWritten ==
  ASSUME AccountInv, NEW D, D \subseteq Committed, Cleared(D), spc = "done"
  PROVE  D \subseteq Whole(Written)
  <1> SUFFICES ASSUME NEW e \in D PROVE e \in Whole(Written)
    OBVIOUS
  <1>1. e[1] \in Threads /\ (e \in Whole(Written) \/ e \in Elements(ring[e[1]]))
    BY DEF AccountInv, Committed, Event
  <1>2. e \notin Elements(ring[e[1]])
    BY <1>1 DEF Cleared, Left
  <1> QED BY <1>1, <1>2

-----------------------------------------------------------------------------
(* The end of the log.                                                     *)

\* What the final drain has passed owes nothing any more.
CloseInv ==
  /\ mpc = "final" => Cleared(owed.close)
  /\ mpc \in {"fclose", "clear", "closed"} => owed.close \subseteq OnDisk

\* The steps of Main that do not leave it where it is.
LEMMA MainMoves ==
  ASSUME [Next]_vars
  PROVE  mpc' = mpc \/ LogInit \/ LogClose \/ CloseRequest \/ CloseJoin \/ CloseFlush
                     \/ CloseFile \/ ClearFile
  BY DEF Next, ThreadStep, LogEvent, Allocate, Register, Reserve, Commit, ThreadExit,
     BackendStep, Scan, ScanLock, ScanEvent, ScanEmpty, ScanDead, ScanReclaim, ScanUnlock,
     BackendFlush, BackendCheck, BackendDrain, SignalFlush, MainStep, Finished, vars

\* Nobody writes to the file after the last flush.
LEMMA ClosedStays ==
  ASSUME IInv, ControlInv, [Next]_vars, mpc \in {"fclose", "clear", "closed"}
  PROVE  disk' = disk
  <1>1. ~BackendStep
    BY DEF ControlInv, BackendStep
  <1>2. MainStep => CloseFile \/ ClearFile
    BY DEF MainStep, LogInit, LogClose, CloseRequest, CloseJoin, CloseFlush
  <1> QED BY <1>1, <1>2 DEF Next, ThreadStep, LogEvent, Allocate, Register, Reserve, Commit,
          ThreadExit, SignalFlush, CloseFile, ClearFile, Finished, vars, fileVars

\* No step leaves anything owed behind the final drain, or the last flush.
LEMMA CloseStep ==
  ASSUME IInv, ControlInv, AccountInv, CloseInv, [Next]_vars PROVE CloseInv'
  <1>1. CASE mpc' = mpc
    <2>1. owed'.close = owed.close
      BY <1>1, OwedFrame DEF LogClose
    <2>2. PICK D : D = owed.close /\ D = owed'.close
      BY <2>1
    <2>3. mpc' = "final" => Cleared(D)'
      BY <1>1, <2>2, ClearedStep DEF CloseInv, AccountInv
    <2>4. mpc \in {"fclose", "clear", "closed"} => OnDisk' = OnDisk
      BY ClosedStays DEF OnDisk
    <2>5. mpc' \in {"fclose", "clear", "closed"} => owed'.close \subseteq OnDisk'
      BY <1>1, <2>1, <2>4 DEF CloseInv
    <2> QED BY <2>2, <2>3, <2>5 DEF CloseInv, Cleared, Left
  <1>2. CASE LogInit \/ CloseRequest
    BY <1>2 DEF LogInit, CloseRequest, CloseInv
  <1>3. CASE LogClose
    <2>1. mpc' \in {"request", "closed"}
      BY <1>3 DEF LogClose
    <2>2. mpc' = "closed" => owed'.close = {}
      BY <1>3 DEF LogClose, AccountInv
    <2> QED BY <2>1, <2>2 DEF CloseInv
  <1>4. CASE CloseJoin
    <2>1. mpc' = "final" /\ spc' = "lock"
      BY <1>4 DEF CloseJoin
    <2> QED BY <2>1 DEF CloseInv, Cleared
  <1>5. CASE CloseFlush
    <2>1. CASE Again
      <3>1. mpc' = "final" /\ spc' = "lock"
        BY <1>5, <2>1 DEF CloseFlush
      <3> QED BY <3>1 DEF CloseInv, Cleared
    <2>2. CASE ~Again
      <3>1. mpc' = "fclose" /\ disk' = Written /\ owed' = owed
        BY <1>5, <2>2 DEF CloseFlush, Fflush, Written
      <3>2. PICK D : D = owed.close
        OBVIOUS
      <3>3. D \subseteq Whole(Written)
        BY <1>5, <3>2, ClearedWritten DEF CloseFlush, CloseInv, AccountInv
      <3>4. OnDisk' = Whole(Written)
        BY <3>1 DEF OnDisk
      <3> QED BY <3>1, <3>2, <3>3, <3>4 DEF CloseInv
    <2> QED BY <2>1, <2>2
  <1>6. CASE CloseFile \/ ClearFile
    <2>1. /\ mpc \in {"fclose", "clear"} /\ mpc' \in {"clear", "closed"}
          /\ owed' = owed /\ disk' = disk
      BY <1>6 DEF CloseFile, ClearFile
    <2> QED BY <2>1 DEF CloseInv, OnDisk
  <1> QED BY <1>1, <1>2, <1>3, <1>4, <1>5, <1>6, MainMoves

\* At the start nothing is committed and nothing owed.
LEMMA AccountInit == Init => Committed = {} /\ ExitInv /\ AccountInv
  <1> SUFFICES ASSUME Init PROVE Committed = {} /\ ExitInv /\ AccountInv
    OBVIOUS
  <1>1. Committed = {}
    <2>1. \A e \in Event : e[1] \in Threads /\ e[2] \in 1..MaxEvents
      BY DEF Event
    <2> QED BY <2>1, LimitAssumption DEF Init, Committed
  <1>2. ring = [t \in Threads |-> <<>>] /\ owed = [flush |-> {}, close |-> {}]
    BY DEF Init
  <1>3. owed.close = {} /\ \A t \in Threads : ring[t] = <<>>
    BY <1>2
  <1>4. LineEnds(Written)
    <2>1. <<>> \in Seq(Part)
      BY EmptySeq
    <2>2. Written = <<>>
      BY <2>1, ConcatEmptySeq DEF Init, Written
    <2> QED BY <2>2 DEF LineEnds
  <1> QED BY <1>1, <1>3, <1>4 DEF AccountInv, Init, ExitInv

\* Without late logging the accounts are always in order.
LEMMA Accounts ==
  ASSUME ~LateLogging PROVE Spec => [](IInv /\ ControlInv /\ ExitInv /\ AccountInv)
  <1>1. Init => ExitInv /\ AccountInv
    BY AccountInit
  <1>2. IInv /\ ControlInv /\ ExitInv /\ AccountInv /\ [Next]_vars => (ExitInv /\ AccountInv)'
    BY ExitStep, AccountStep
  <1> QED BY <1>1, <1>2, Invariance, PTL DEF Spec

\* Unless threads log from TLS destructors that run after the ring's, log_close
\* brings to disk every event that was committed before it disabled logging.
THEOREM CloseLosesNothing ==
  ASSUME ~LateLogging PROVE Spec => []CloseComplete
  <1>1. Init => CloseInv
    BY DEF Init, CloseInv
  <1>2. IInv /\ ControlInv /\ AccountInv /\ CloseInv /\ [Next]_vars => CloseInv'
    BY CloseStep
  <1>3. CloseInv => CloseComplete
    BY DEF CloseInv, CloseComplete
  <1> QED BY <1>1, <1>2, <1>3, Accounts, PTL DEF Spec

-----------------------------------------------------------------------------
(* Flushes.                                                                *)

\* What the flush of this round has to bring to disk was committed before the
\* round's scan began, and the scan clears it.
FlushInv == owed.flush \subseteq Committed /\ Cleared(owed.flush)

\* Every scan keeps that up.
LEMMA FlushStep ==
  ASSUME IInv, AccountInv, FlushInv, [Next]_vars PROVE FlushInv'
  <1>1. ASSUME NEW s \in {Main, Backend}, ScanLock(s) PROVE FlushInv'
    <2>1. /\ owed.flush \subseteq Event /\ owed'.flush \in {Committed, {}}
          /\ committed' = committed /\ cursor' = 1 /\ spc' = "drain"
      BY <1>1 DEF ScanLock, IInv, TypeOK, LogTypes, threadVars
    <2>2. owed'.flush \subseteq Committed'
      BY <2>1 DEF Committed
    <2>3. 1..(cursor' - 1) = {}
      BY <2>1
    <2> QED BY <2>1, <2>2, <2>3 DEF FlushInv, Cleared
  <1>2. CASE owed'.flush = owed.flush
    <2>1. PICK D : D = owed.flush /\ D = owed'.flush
      BY <1>2
    <2>2. D \subseteq Committed' /\ Cleared(D)'
      BY <2>1, ClearedStep, CommittedGrows DEF FlushInv
    <2> QED BY <2>1, <2>2 DEF FlushInv, Cleared, Left
  <1>3. CASE LogClose
    <2>1. owed'.flush = owed.flush
      BY <1>3 DEF LogClose, IInv, TypeOK, LogTypes
    <2> QED BY <1>2, <2>1
  <1>4. CASE owed' = owed
    BY <1>2, <1>4
  <1>5. ASSUME NEW s \in {Main, Backend}, Scan(s), ~ScanLock(s) PROVE owed' = owed
    BY <1>5 DEF Scan, ScanEvent, ScanEmpty, ScanDead, ScanReclaim, ScanUnlock
  <1>6. ASSUME NEW t \in Threads, ThreadStep(t) PROVE owed' = owed
    BY <1>6 DEF ThreadStep, LogEvent, Allocate, Register, Reserve, Commit, ThreadExit
  <1>7. CASE BackendFlush \/ BackendCheck \/ BackendDrain \/ SignalFlush \/ LogInit
             \/ CloseRequest \/ CloseJoin \/ CloseFlush \/ CloseFile \/ ClearFile
             \/ Finished \/ UNCHANGED vars
    <2>1. owed' = owed
      BY <1>7 DEF BackendFlush, BackendCheck, BackendDrain, SignalFlush, LogInit,
         CloseRequest, CloseJoin, CloseFlush, CloseFile, ClearFile, Finished, vars
    <2> QED BY <1>4, <2>1
  <1> QED BY <1>1, <1>3, <1>4, <1>5, <1>6, <1>7 DEF Next, BackendStep, MainStep

\* Only the backend takes a request down.
LEMMA FlushServer ==
  ASSUME [Next]_vars, flush, ~flush' PROVE BackendFlush
  BY DEF Next, ThreadStep, LogEvent, Allocate, Register, Reserve, Commit, ThreadExit,
     BackendStep, Scan, ScanLock, ScanEvent, ScanEmpty, ScanDead, ScanReclaim, ScanUnlock,
     BackendCheck, BackendDrain, SignalFlush, MainStep, LogInit, LogClose, CloseRequest,
     CloseJoin, CloseFlush, CloseFile, ClearFile, Finished, vars

\* Unless threads log from TLS destructors that run after the ring's, a flush
\* that was asked for before a round began brings to disk all that was committed
\* by then: the scan empties every ring of it, whatever threads log, rings are
\* registered and rings are deleted meanwhile.
THEOREM FlushesCover ==
  ASSUME ~LateLogging PROVE Spec => FlushCovers
  <1>1. Init => FlushInv
    <2>1. ASSUME Init PROVE owed.flush = {}
      <3>1. owed = [flush |-> {}, close |-> {}]
        BY <2>1 DEF Init
      <3> QED BY <3>1
    <2> QED BY <2>1 DEF Init, FlushInv, Cleared
  <1>2. IInv /\ AccountInv /\ FlushInv /\ [Next]_vars => FlushInv'
    BY FlushStep
  <1>3. ASSUME AccountInv, FlushInv, [Next]_vars, flush, ~flush'
        PROVE  owed.flush \subseteq OnDisk'
    <2>1. BackendFlush
      BY <1>3, FlushServer
    <2>2. spc = "done" /\ disk' = Written
      BY <1>3, <2>1 DEF BackendFlush, FlushDue, Fflush, Written
    <2>3. PICK D : D = owed.flush
      OBVIOUS
    <2>4. D \subseteq Whole(Written)
      BY <1>3, <2>2, <2>3, ClearedWritten DEF FlushInv
    <2>5. OnDisk' = Whole(Written)
      BY <2>2 DEF OnDisk
    <2> QED BY <2>3, <2>4, <2>5
  <1>4. AccountInv /\ FlushInv /\ [Next]_vars
          => [flush /\ ~flush' => owed.flush \subseteq OnDisk']_vars
    BY <1>3
  <1> QED BY <1>1, <1>2, <1>4, Accounts, PTL DEF Spec, FlushCovers
=============================================================================
