-------------------------- MODULE RealSymbolsProofs --------------------------
(***************************************************************************)
(* Proofs about RealSymbols, for any number of threads and functions, and  *)
(* whether or not dlsym calls functions that are not resolved yet: no      *)
(* pointer is called before it is set, and exactly the program's calls are *)
(* logged.                                                                 *)
(***************************************************************************)
EXTENDS RealSymbols, SequenceTheorems, TLAPS

Ats == {"entry", "once", "wait", "resolve", "set", "guard", "bypass", "real", "event", "commit"}
FrameType == [fn : 0..NumFns, at : Ats, program : BOOLEAN]

\* The shared variables.  Once the pointers are ready all of them are set; the
\* constructor does not go on, and logging is not enabled, before that.
SharedInv ==
  /\ resolved \in Nat /\ ready \in BOOLEAN /\ enabled \in BOOLEAN
  /\ winner \in All \cup {Nobody}
  /\ constructor \in {"before", "init", "log", "done"}
  /\ stack \in [All -> Seq(FrameType)] /\ depth \in [All -> Nat]
  /\ ready => NumFns <= resolved /\ winner # Nobody
  /\ constructor \in {"log", "done"} => ready
  /\ enabled => constructor = "done"

\* What is known of a call f of thread t by where it is.
FrameOk(t, f) ==
  /\ f \in FrameType
  /\ f.at \in {"resolve", "set"} => winner = t /\ ~ready
  /\ f.at \in {"guard", "bypass", "real", "event", "commit"} => f.fn <= resolved
  /\ f.at \in {"real", "event", "commit"} => ready
  /\ f.fn = 0 => /\ f.at \in {"once", "wait", "resolve", "set", "guard"}
                 /\ f.at = "guard" => ready

\* ... if it is the outermost one: the program's, or the constructor's, or one of
\* the backend, which is never logged.
OuterOk(t, f) ==
  /\ FrameOk(t, f)
  /\ t = Loader /\ constructor = "init" => f.fn = 0
  /\ f.fn = 0 => t = Loader /\ constructor = "init"
  /\ ~f.program /\ t # Backend => t = Loader /\ constructor \in {"init", "log"}
  /\ t = Backend => f.at \in {"entry", "guard", "bypass"} /\ ready /\ ~f.program

\* ... if it is made by dlsym or log_event within call f.
InnerOk(t, g, f) ==
  /\ FrameOk(t, g) /\ ~g.program /\ g.fn # 0
  /\ \/ f.at = "set" /\ g.at \in {"entry", "once", "wait", "guard", "bypass"}
     \/ f.at = "commit" /\ g.at \in {"entry", "guard", "bypass"}

Base(t) == IF t = Backend THEN 1000 ELSE 0
\* The bypasses that the outermost call holds.
Held(f) == IF f.at \in {"real", "event"} THEN 1 ELSE IF f.at = "commit" THEN 2 ELSE 0

NoCall(t) ==
  /\ stack[t] = <<>> /\ depth[t] = Base(t)
  /\ t = Loader /\ constructor = "init" => ready
OneCall(t, f) ==
  stack[t] = <<f>> /\ OuterOk(t, f) /\ depth[t] = Base(t) + Held(f)
TwoCalls(t, g, f) ==
  /\ stack[t] = <<g, f>> /\ OuterOk(t, f) /\ InnerOk(t, g, f)
  /\ depth[t] = Base(t) + Held(f)

\* No call is nested deeper than in another one.
StackOk(t) == \/ NoCall(t)
              \/ \E f \in FrameType : OneCall(t, f)
              \/ \E g, f \in FrameType : TwoCalls(t, g, f)

IInv == SharedInv /\ \A t \in All : StackOk(t)
-----------------------------------------------------------------------------
(* Short sequences.                                                        *)

LEMMA One == ASSUME NEW f PROVE <<f>> # <<>> /\ Head(<<f>>) = f /\ Tail(<<f>>) = <<>>
  OBVIOUS

LEMMA Two == ASSUME NEW f, NEW g
             PROVE  <<g, f>> # <<>> /\ Head(<<g, f>>) = g /\ Tail(<<g, f>>) = <<f>>
  OBVIOUS

LEMMA JoinOnes ==
  ASSUME NEW S, NEW a \in Seq(S), NEW b \in Seq(S), Len(a) = 1, Len(b) = 1
  PROVE  a \o b = <<a[1], b[1]>>
  <1>1. PICK u : u = a \o b
    OBVIOUS
  <1>2. u \in Seq(S) /\ Len(u) = 2 /\ u[1] = a[1] /\ u[2] = b[1]
    BY <1>1, ConcatProperties
  <1>3. u = <<u[1], u[2]>>
    BY <1>2
  <1> QED BY <1>1, <1>2, <1>3

\* A call on top of another one, and on top of none.
LEMMA Joined ==
  ASSUME NEW f, NEW g
  PROVE  <<g>> \o <<f>> = <<g, f>> /\ <<g>> \o <<>> = <<g>> /\ <<g, f>> \o <<>> = <<g, f>>
  <1>1. <<g>> \in Seq({f, g}) /\ <<f>> \in Seq({f, g})
    OBVIOUS
  <1>2. Len(<<g>>) = 1 /\ Len(<<f>>) = 1 /\ <<g>>[1] = g /\ <<f>>[1] = f
    OBVIOUS
  <1>3. <<g>> \o <<f>> = <<<<g>>[1], <<f>>[1]>>
    BY <1>1, <1>2, JoinOnes
  <1>4. <<g>> \o <<f>> = <<g, f>>
    BY <1>2, <1>3, Zenon
  <1>5. <<g>> \o <<>> = <<g>> /\ <<g, f>> \o <<>> = <<g, f>>
    OBVIOUS
  <1> QED BY <1>4, <1>5
-----------------------------------------------------------------------------
(* The steps.                                                              *)

LEMMA InitInv == Init => IInv
  <1> SUFFICES ASSUME Init PROVE IInv
    OBVIOUS
  <1>1. <<>> \in Seq(FrameType)
    BY EmptySeq
  <1>2. SharedInv
    <2>1. stack \in [All -> Seq(FrameType)]
      BY <1>1 DEF Init
    <2>2. depth \in [All -> Nat]
      BY DEF Init
    <2> QED BY <2>1, <2>2 DEF Init, SharedInv
  <1>3. \A t \in All : NoCall(t)
    BY DEF Init, NoCall, Base
  <1> QED BY <1>2, <1>3 DEF IInv, StackOk

\* Of the calls a thread is in there are one or two.
LEMMA Depth ==
  ASSUME IInv, NEW t \in All, InCall(t)
  PROVE  \/ \E f \in FrameType : /\ OneCall(t, f) /\ Top(t) = f
                                 /\ Tail(stack[t]) = <<>>
         \/ \E g, f \in FrameType : /\ TwoCalls(t, g, f) /\ Top(t) = g
                                    /\ Tail(stack[t]) = <<f>>
  <1>1. ~NoCall(t)
    BY DEF InCall, NoCall
  <1>2. CASE \E f \in FrameType : OneCall(t, f)
    <2>1. PICK f \in FrameType : OneCall(t, f)
      BY <1>2
    <2>2. Top(t) = f /\ Tail(stack[t]) = <<>>
      BY <2>1, One DEF OneCall, Top
    <2> QED BY <2>1, <2>2
  <1>3. CASE \E g, f \in FrameType : TwoCalls(t, g, f)
    <2>1. PICK g, f \in FrameType : TwoCalls(t, g, f)
      BY <1>3
    <2>2. Top(t) = g /\ Tail(stack[t]) = <<f>>
      BY <2>1, Two DEF TwoCalls, Top
    <2> QED BY <2>1, <2>2
  <1> QED BY <1>1, <1>2, <1>3 DEF IInv, StackOk

\* What happens to the other threads while thread t makes a step.
Around(t) ==
  /\ \A u \in All \ {t} : stack'[u] = stack[u] /\ depth'[u] = depth[u]
  /\ resolved \in Nat /\ resolved' \in Nat /\ resolved <= resolved'
  /\ ready \in BOOLEAN /\ ready' \in BOOLEAN /\ (ready => ready')
  /\ ready' # ready => winner = t
  /\ winner' # winner => winner = Nobody
  /\ constructor' # constructor => t = Loader

LEMMA OthersKeep ==
  ASSUME NEW t \in All, NEW u \in All \ {t}, StackOk(u), Around(t)
  PROVE  StackOk(u)'
  <1> USE DEF Around
  <1>1. ASSUME NEW f \in FrameType, FrameOk(u, f) PROVE FrameOk(u, f)'
    <2>1. f.fn <= resolved => f.fn <= resolved'
      BY DEF FrameType
    <2>2. f.at \in {"resolve", "set"} => winner' = u /\ ~ready'
      BY <1>1, ThreadAssumption DEF FrameOk, All
    <2> QED BY <1>1, <2>1, <2>2 DEF FrameOk
  <1>2. ASSUME NEW f \in FrameType, OuterOk(u, f) PROVE OuterOk(u, f)'
    BY <1>1, <1>2 DEF OuterOk
  <1>3. CASE NoCall(u)
    BY <1>3 DEF NoCall, StackOk
  <1>4. ASSUME NEW f \in FrameType, OneCall(u, f) PROVE StackOk(u)'
    BY <1>4, <1>2 DEF OneCall, StackOk
  <1>5. ASSUME NEW g \in FrameType, NEW f \in FrameType, TwoCalls(u, g, f)
        PROVE  StackOk(u)'
    <2>1. InnerOk(u, g, f)'
      BY <1>5, <1>1 DEF TwoCalls, InnerOk
    <2> QED BY <1>5, <1>2, <2>1 DEF TwoCalls, StackOk
  <1> QED BY <1>3, <1>4, <1>5 DEF StackOk

LEMMA Moved ==
  ASSUME NEW f \in FrameType, NEW a \in Ats
  PROVE  /\ [f EXCEPT !.at = a] \in FrameType
         /\ [f EXCEPT !.at = a].at = a
         /\ [f EXCEPT !.at = a].fn = f.fn
         /\ [f EXCEPT !.at = a].program = f.program
  BY DEF FrameType

LEMMA NewFrame ==
  ASSUME NEW fn \in 0..NumFns, NEW a \in Ats, NEW p \in BOOLEAN
  PROVE  /\ Frame(fn, a, p) \in FrameType
         /\ Frame(fn, a, p).fn = fn /\ Frame(fn, a, p).at = a /\ Frame(fn, a, p).program = p
  BY DEF Frame, FrameType

\* What the four ways to change a stack do to a thread with one or two calls.
SameOthers(t) == /\ stack' \in [All -> Seq(FrameType)]
                 /\ \A u \in All \ {t} : stack'[u] = stack[u]
IsMoved(h, f, a) == h.at = a /\ h.fn = f.fn /\ h.program = f.program

LEMMA EntersNone ==
  ASSUME SharedInv, NEW t \in All, NEW f \in FrameType, stack[t] = <<>>, Enters(t, f)
  PROVE  SameOthers(t) /\ stack'[t] = <<f>>
  <1>1. <<f>> \o stack[t] = <<f>> /\ <<f>> \in Seq(FrameType)
    BY Joined
  <1> QED BY <1>1 DEF Enters, SharedInv, SameOthers

LEMMA GoesOne ==
  ASSUME SharedInv, NEW t \in All, NEW f \in FrameType, stack[t] = <<f>>,
         NEW a \in Ats, Goes(t, a)
  PROVE  SameOthers(t) /\ \E h \in FrameType : IsMoved(h, f, a) /\ stack'[t] = <<h>>
  <1>1. PICK h \in FrameType : h = [f EXCEPT !.at = a] /\ IsMoved(h, f, a)
    BY Moved DEF IsMoved
  <1>2. <<[Head(stack[t]) EXCEPT !.at = a]>> \o Tail(stack[t]) = <<h>>
    BY <1>1, One, Joined
  <1>3. <<h>> \in Seq(FrameType)
    OBVIOUS
  <1>4. stack' = [stack EXCEPT ![t] = <<h>>]
    BY <1>2 DEF Goes
  <1> QED BY <1>1, <1>3, <1>4 DEF SharedInv, SameOthers

LEMMA GoesTwo ==
  ASSUME SharedInv, NEW t \in All, NEW g \in FrameType, NEW f \in FrameType,
         stack[t] = <<g, f>>, NEW a \in Ats, Goes(t, a)
  PROVE  SameOthers(t) /\ \E h \in FrameType : IsMoved(h, g, a) /\ stack'[t] = <<h, f>>
  <1>1. PICK h \in FrameType : h = [g EXCEPT !.at = a] /\ IsMoved(h, g, a)
    BY Moved DEF IsMoved
  <1>2. <<[Head(stack[t]) EXCEPT !.at = a]>> \o Tail(stack[t]) = <<h, f>>
    BY <1>1, Two, Joined
  <1>3. <<h, f>> \in Seq(FrameType)
    OBVIOUS
  <1>4. stack' = [stack EXCEPT ![t] = <<h, f>>]
    BY <1>2 DEF Goes
  <1> QED BY <1>1, <1>3, <1>4 DEF SharedInv, SameOthers

LEMMA GoesCallingOne ==
  ASSUME SharedInv, NEW t \in All, NEW f \in FrameType, stack[t] = <<f>>,
         NEW a \in Ats, NEW fn \in Fns, GoesCalling(t, a, fn)
  PROVE  /\ SameOthers(t)
         /\ \E g, h \in FrameType : /\ g = Frame(fn, "entry", FALSE) /\ IsMoved(h, f, a)
                                    /\ stack'[t] = <<g, h>>
  <1>1. PICK h \in FrameType : h = [f EXCEPT !.at = a] /\ IsMoved(h, f, a)
    BY Moved DEF IsMoved
  <1>2. PICK g \in FrameType : g = Frame(fn, "entry", FALSE)
    <2>1. fn \in 0..NumFns /\ "entry" \in Ats
      BY BoundAssumption DEF Fns, Ats
    <2> QED BY <2>1, NewFrame
  <1>3. <<g, [Head(stack[t]) EXCEPT !.at = a]>> \o Tail(stack[t]) = <<g, h>>
    BY <1>1, One, Joined
  <1>4. <<g, h>> \in Seq(FrameType)
    OBVIOUS
  <1>5. stack' = [stack EXCEPT ![t] = <<g, h>>]
    BY <1>2, <1>3 DEF GoesCalling
  <1> QED BY <1>1, <1>2, <1>4, <1>5 DEF SharedInv, SameOthers

LEMMA ReturnsOne ==
  ASSUME SharedInv, NEW t \in All, NEW f \in FrameType, stack[t] = <<f>>, Returns(t)
  PROVE  SameOthers(t) /\ stack'[t] = <<>>
  <1>1. Tail(stack[t]) = <<>> /\ <<>> \in Seq(FrameType)
    BY One, EmptySeq
  <1> QED BY <1>1 DEF Returns, SharedInv, SameOthers

LEMMA ReturnsTwo ==
  ASSUME SharedInv, NEW t \in All, NEW g \in FrameType, NEW f \in FrameType,
         stack[t] = <<g, f>>, Returns(t)
  PROVE  SameOthers(t) /\ stack'[t] = <<f>>
  <1>1. Tail(stack[t]) = <<f>> /\ <<f>> \in Seq(FrameType)
    BY Two
  <1> QED BY <1>1 DEF Returns, SharedInv, SameOthers
-----------------------------------------------------------------------------
(* A step of a thread keeps what is known of the shared variables and of   *)
(* the thread, and leaves the others alone.                                *)

Kept(t) == SharedInv' /\ StackOk(t)' /\ Around(t)

LEMMA CallKept ==
  ASSUME IInv, NEW t \in All, Call(t) PROVE Kept(t)
  <1> USE DEF Call, IInv
  <1>1. PICK fn \in Fns : Enters(t, Frame(fn, "entry", t # Backend))
    OBVIOUS
  <1>2. PICK f \in FrameType :
          /\ f = Frame(fn, "entry", t # Backend)
          /\ f.at = "entry" /\ f.fn = fn /\ f.program = (t # Backend)
    <2>1. fn \in 0..NumFns /\ "entry" \in Ats
      BY BoundAssumption DEF Fns, Ats
    <2>2. PICK p : p = (t # Backend)
      OBVIOUS
    <2>3. p \in BOOLEAN
      BY <2>2, Zenon
    <2>4. PICK f \in FrameType : /\ f = Frame(fn, "entry", p)
                                 /\ f.at = "entry" /\ f.fn = fn /\ f.program = p
      BY <2>1, <2>3, NewFrame
    <2> QED BY <2>2, <2>4, Zenon
  <1>3. stack[t] = <<>> /\ depth[t] = Base(t)
    <2>1. stack[t] = <<>>
      BY DEF InCall
    <2>2. \A f1, g1 : stack[t] # <<f1>> /\ stack[t] # <<g1, f1>>
      BY <2>1, One, Two
    <2> QED BY <2>1, <2>2 DEF StackOk, NoCall, OneCall, TwoCalls
  <1>4. SameOthers(t) /\ stack'[t] = <<f>>
    BY <1>1, <1>2, <1>3, EntersNone
  <1>5. fn # 0
    BY BoundAssumption DEF Fns
  <1>6. OuterOk(t, f)'
    BY <1>2, <1>5 DEF OuterOk, FrameOk, SharedInv
  <1>7. OneCall(t, f)'
    BY <1>2, <1>3, <1>4, <1>6 DEF OneCall, Held, Base
  <1> QED BY <1>4, <1>7 DEF Kept, SharedInv, SameOthers, Around, StackOk

LEMMA EntryKept ==
  ASSUME IInv, NEW t \in All, Entry(t) PROVE Kept(t)
  <1> USE DEF Entry, IInv
  <1>1. PICK a \in {"guard", "once"} :
          Goes(t, a) /\ (a = "guard" <=> Top(t).fn <= resolved)
    BY DEF IsSet
  <1>2. InCall(t) /\ Top(t).at = "entry" /\ a \in Ats
    BY DEF IsAt, Ats
  <1>3. ASSUME NEW f \in FrameType, OneCall(t, f), Top(t) = f PROVE Kept(t)
    <2>1. PICK h \in FrameType : IsMoved(h, f, a) /\ stack'[t] = <<h>>
      BY <1>1, <1>2, <1>3, GoesOne DEF OneCall
    <2>2. SameOthers(t)
      BY <1>1, <1>2, <1>3, GoesOne DEF OneCall
    <2>3. ready => a = "guard"
      BY <1>1, <1>3, BoundAssumption DEF SharedInv, FrameType
    <2>5. FrameOk(t, h)'
      BY <1>1, <1>2, <1>3, <2>1 DEF IsMoved, OneCall, OuterOk, FrameOk
    <2>6. OuterOk(t, h)'
      BY <1>1, <1>2, <1>3, <2>1, <2>3, <2>5 DEF IsMoved, OneCall, OuterOk
    <2>4. OneCall(t, h)'
      BY <1>1, <1>2, <1>3, <2>1, <2>6 DEF IsMoved, OneCall, Held, Base
    <2> QED BY <2>2, <2>4 DEF Kept, SharedInv, SameOthers, Around, StackOk
  <1>4. ASSUME NEW g \in FrameType, NEW f \in FrameType, TwoCalls(t, g, f), Top(t) = g
        PROVE  Kept(t)
    <2>1. PICK h \in FrameType : IsMoved(h, g, a) /\ stack'[t] = <<h, f>>
      BY <1>1, <1>2, <1>4, GoesTwo DEF TwoCalls
    <2>2. SameOthers(t)
      BY <1>1, <1>2, <1>4, GoesTwo DEF TwoCalls
    <2>3. f.at = "commit" => a = "guard"
      BY <1>1, <1>4, BoundAssumption DEF TwoCalls, InnerOk, OuterOk, FrameOk, SharedInv, FrameType
    <2>4. OuterOk(t, f)' /\ InnerOk(t, h, f)'
      BY <1>1, <1>2, <1>4, <2>1, <2>3 DEF IsMoved, TwoCalls, InnerOk, OuterOk, FrameOk, SharedInv
    <2>5. TwoCalls(t, h, f)'
      BY <1>4, <2>1, <2>4 DEF TwoCalls, Held, Base
    <2> QED BY <2>2, <2>5 DEF Kept, SharedInv, SameOthers, Around, StackOk
  <1> QED BY <1>2, <1>3, <1>4, Depth

LEMMA InitOnceKept ==
  ASSUME IInv, NEW t \in All, InitOnce(t) PROVE Kept(t)
  <1> USE DEF InitOnce, IInv
  <1>1. PICK a \in {"resolve", "wait"} :
          /\ Goes(t, a)
          /\ a = "resolve" => winner = Nobody /\ winner' = t
          /\ a = "wait" => winner # Nobody /\ winner' = winner
    OBVIOUS
  <1>2. InCall(t) /\ Top(t).at = "once" /\ a \in Ats
    BY DEF IsAt, Ats
  <1>3. t # Nobody
    BY ThreadAssumption DEF All
  <1>4. ASSUME NEW f \in FrameType, OneCall(t, f), Top(t) = f PROVE Kept(t)
    <2>1. PICK h \in FrameType : IsMoved(h, f, a) /\ stack'[t] = <<h>>
      BY <1>1, <1>2, <1>4, GoesOne DEF OneCall
    <2>2. SameOthers(t)
      BY <1>1, <1>2, <1>4, GoesOne DEF OneCall
    <2>3. FrameOk(t, h)'
      BY <1>1, <1>2, <1>4, <2>1 DEF IsMoved, OneCall, OuterOk, FrameOk, SharedInv
    <2>4. OuterOk(t, h)'
      BY <1>1, <1>2, <1>4, <2>1, <2>3 DEF IsMoved, OneCall, OuterOk
    <2>5. OneCall(t, h)'
      BY <1>1, <1>2, <1>4, <2>1, <2>4 DEF IsMoved, OneCall, Held, Base
    <2> QED BY <1>1, <1>3, <2>2, <2>5 DEF Kept, SharedInv, SameOthers, Around, StackOk
  <1>5. ASSUME NEW g \in FrameType, NEW f \in FrameType, TwoCalls(t, g, f), Top(t) = g
        PROVE  Kept(t)
    <2>1. PICK h \in FrameType : IsMoved(h, g, a) /\ stack'[t] = <<h, f>>
      BY <1>1, <1>2, <1>5, GoesTwo DEF TwoCalls
    <2>2. SameOthers(t)
      BY <1>1, <1>2, <1>5, GoesTwo DEF TwoCalls
    <2>3. f.at = "set" /\ winner = t
      BY <1>2, <1>5 DEF TwoCalls, InnerOk, OuterOk, FrameOk
    <2>4. a = "wait"
      BY <1>1, <1>3, <2>3
    <2>5. OuterOk(t, f)' /\ InnerOk(t, h, f)'
      BY <1>1, <1>2, <1>5, <2>1, <2>3, <2>4 DEF IsMoved, TwoCalls, InnerOk, OuterOk, FrameOk
    <2>6. TwoCalls(t, h, f)'
      BY <1>5, <2>1, <2>5 DEF TwoCalls, Held, Base
    <2> QED BY <1>1, <2>2, <2>4, <2>6 DEF Kept, SharedInv, SameOthers, Around, StackOk
  <1> QED BY <1>2, <1>4, <1>5, Depth

LEMMA WaitKept ==
  ASSUME IInv, NEW t \in All, Wait(t) PROVE Kept(t)
  <1> USE DEF Wait, IInv
  <1>1. CASE ~ready
    <2>1. UNCHANGED vars
      BY <1>1 DEF vars
    <2>2. StackOk(t)'
      BY <2>1 DEF vars, StackOk, NoCall, OneCall, TwoCalls, OuterOk, InnerOk, FrameOk
    <2> QED BY <2>1, <2>2 DEF vars, Kept, SharedInv, Around
  <1>2. CASE ready
    <2>1. InCall(t) /\ Top(t).at = "wait" /\ Goes(t, "guard") /\ "guard" \in Ats
      BY <1>2 DEF IsAt, Ats
    <2>2. ASSUME NEW g \in FrameType, NEW f \in FrameType, TwoCalls(t, g, f), Top(t) = g
          PROVE  FALSE
      BY <1>2, <2>1, <2>2 DEF TwoCalls, InnerOk, OuterOk, FrameOk
    <2>3. PICK f \in FrameType : OneCall(t, f) /\ Top(t) = f
      BY <2>1, <2>2, Depth
    <2>4. PICK h \in FrameType : IsMoved(h, f, "guard") /\ stack'[t] = <<h>>
      BY <2>1, <2>3, GoesOne DEF OneCall
    <2>5. SameOthers(t)
      BY <2>1, <2>3, GoesOne DEF OneCall
    <2>6. FrameOk(t, h)'
      BY <1>2, <2>1, <2>3, <2>4, BoundAssumption
      DEF IsMoved, OneCall, OuterOk, FrameOk, SharedInv, FrameType
    <2>7. OuterOk(t, h)'
      BY <1>2, <2>1, <2>3, <2>4, <2>6 DEF IsMoved, OneCall, OuterOk
    <2>8. OneCall(t, h)'
      BY <2>1, <2>3, <2>4, <2>7 DEF IsMoved, OneCall, Held, Base
    <2> QED BY <2>5, <2>8 DEF Kept, SharedInv, SameOthers, Around, StackOk
  <1> QED BY <1>1, <1>2 DEF SharedInv

\* A call that is resolved, or goes past the guard, is the outermost one.
LEMMA Outermost ==
  ASSUME IInv, NEW t \in All, NEW a \in {"resolve", "set", "real", "event", "commit"},
         IsAt(t, a)
  PROVE  \E f \in FrameType : OneCall(t, f) /\ Top(t) = f /\ f.at = a
  <1>1. InCall(t) /\ Top(t).at = a
    BY DEF IsAt
  <1>2. ASSUME NEW g \in FrameType, NEW f \in FrameType, TwoCalls(t, g, f), Top(t) = g
        PROVE  FALSE
    BY <1>1, <1>2 DEF TwoCalls, InnerOk
  <1> QED BY <1>1, <1>2, Depth

LEMMA ResolveKept ==
  ASSUME IInv, NEW t \in All, Resolve(t) PROVE Kept(t)
  <1> USE DEF Resolve, IInv
  <1>1. PICK f \in FrameType : OneCall(t, f) /\ f.at = "resolve"
    BY Outermost
  <1>2. ASSUME NEW h \in FrameType, IsMoved(h, f, "set") PROVE OuterOk(t, h)'
    <2>1. FrameOk(t, h)'
      BY <1>1, <1>2 DEF IsMoved, OneCall, OuterOk, FrameOk
    <2> QED BY <1>1, <1>2, <2>1 DEF IsMoved, OneCall, OuterOk
  <1>3. "set" \in Ats
    BY DEF Ats
  <1>4. CASE Goes(t, "set")
    <2>1. PICK h \in FrameType : IsMoved(h, f, "set") /\ stack'[t] = <<h>>
      BY <1>1, <1>3, <1>4, GoesOne DEF OneCall
    <2>2. SameOthers(t)
      BY <1>1, <1>3, <1>4, GoesOne DEF OneCall
    <2>3. OneCall(t, h)'
      BY <1>1, <1>2, <2>1 DEF IsMoved, OneCall, Held, Base
    <2> QED BY <2>2, <2>3 DEF Kept, SharedInv, SameOthers, Around, StackOk
  <1>5. ASSUME NEW fn \in Fns, GoesCalling(t, "set", fn) PROVE Kept(t)
    <2>1. PICK g, h \in FrameType : /\ g = Frame(fn, "entry", FALSE)
                                    /\ IsMoved(h, f, "set") /\ stack'[t] = <<g, h>>
      BY <1>1, <1>3, <1>5, GoesCallingOne DEF OneCall
    <2>2. SameOthers(t)
      BY <1>1, <1>3, <1>5, GoesCallingOne DEF OneCall
    <2>3. g.fn = fn /\ g.fn # 0 /\ g.at = "entry" /\ g.program = FALSE
      BY <2>1, BoundAssumption DEF Frame, Fns
    <2>4. InnerOk(t, g, h)'
      BY <2>1, <2>3 DEF IsMoved, InnerOk, FrameOk
    <2>5. depth[t] = Base(t) + 0 /\ Held(h) = 0
      BY <1>1, <2>1 DEF IsMoved, OneCall, Held
    <2>7. OuterOk(t, h)'
      BY <1>2, <2>1
    <2>8. depth'[t] = Base(t)' + Held(h)
      BY <1>1, <2>5 DEF Base
    <2>6. TwoCalls(t, g, h)'
      BY <2>1, <2>4, <2>7, <2>8, Zenon DEF TwoCalls
    <2> QED BY <2>2, <2>6 DEF Kept, SharedInv, SameOthers, Around, StackOk
  <1> QED BY <1>4, <1>5

LEMMA SetPointerKept ==
  ASSUME IInv, NEW t \in All, SetPointer(t) PROVE Kept(t)
  <1> USE DEF SetPointer, IInv
  <1>1. PICK f \in FrameType : OneCall(t, f) /\ f.at = "set"
    BY Outermost
  <1>2. "resolve" \in Ats
    BY DEF Ats
  <1>3. PICK h \in FrameType : IsMoved(h, f, "resolve") /\ stack'[t] = <<h>>
    BY <1>1, <1>2, GoesOne DEF OneCall
  <1>4. SameOthers(t)
    BY <1>1, <1>2, GoesOne DEF OneCall
  <1>5. FrameOk(t, h)'
    BY <1>1, <1>3 DEF IsMoved, OneCall, OuterOk, FrameOk, SharedInv, FrameType
  <1>6. OuterOk(t, h)'
    BY <1>1, <1>3, <1>5 DEF IsMoved, OneCall, OuterOk
  <1>7. depth[t] = Base(t) + Held(f) /\ Held(h) = Held(f)
    BY <1>1, <1>3 DEF IsMoved, OneCall, Held
  <1>8. OneCall(t, h)'
    BY <1>3, <1>6, <1>7 DEF OneCall, Base
  <1>9. winner = t /\ winner \in All /\ t # Nobody
    BY <1>1, ThreadAssumption DEF OneCall, OuterOk, FrameOk, All
  <1> QED BY <1>1, <1>4, <1>8, <1>9, BoundAssumption
          DEF OneCall, OuterOk, FrameOk, Kept, SharedInv, SameOthers, Around, StackOk

LEMMA ReadyKept ==
  ASSUME IInv, NEW t \in All, Ready(t) PROVE Kept(t)
  <1> USE DEF Ready, IInv
  <1>1. PICK f \in FrameType : OneCall(t, f) /\ f.at = "resolve"
    BY Outermost
  <1>2. "guard" \in Ats
    BY DEF Ats
  <1>3. PICK h \in FrameType : IsMoved(h, f, "guard") /\ stack'[t] = <<h>>
    BY <1>1, <1>2, GoesOne DEF OneCall
  <1>4. SameOthers(t)
    BY <1>1, <1>2, GoesOne DEF OneCall
  <1>5. FrameOk(t, h)'
    BY <1>1, <1>3 DEF IsMoved, OneCall, OuterOk, FrameOk, SharedInv, FrameType
  <1>6. OuterOk(t, h)'
    BY <1>1, <1>3, <1>5 DEF IsMoved, OneCall, OuterOk
  <1>7. depth[t] = Base(t) + Held(f) /\ Held(h) = Held(f)
    BY <1>1, <1>3 DEF IsMoved, OneCall, Held
  <1>8. OneCall(t, h)'
    BY <1>3, <1>6, <1>7 DEF OneCall, Base
  <1>9. winner = t /\ winner \in All /\ t # Nobody
    BY <1>1, ThreadAssumption DEF OneCall, OuterOk, FrameOk, All
  <1> QED BY <1>1, <1>4, <1>8, <1>9, BoundAssumption
          DEF OneCall, OuterOk, FrameOk, Kept, SharedInv, SameOthers, Around, StackOk

LEMMA RealKept ==
  ASSUME IInv, NEW t \in All, Real(t) PROVE Kept(t)
  <1> USE DEF Real, IInv
  <1>1. PICK f \in FrameType : OneCall(t, f) /\ f.at = "real"
    BY Outermost
  <1>2. "event" \in Ats
    BY DEF Ats
  <1>3. PICK h \in FrameType : IsMoved(h, f, "event") /\ stack'[t] = <<h>>
    BY <1>1, <1>2, GoesOne DEF OneCall
  <1>4. SameOthers(t)
    BY <1>1, <1>2, GoesOne DEF OneCall
  <1>5. FrameOk(t, h)'
    BY <1>1, <1>3 DEF IsMoved, OneCall, OuterOk, FrameOk, SharedInv, FrameType
  <1>6. OuterOk(t, h)'
    BY <1>1, <1>3, <1>5 DEF IsMoved, OneCall, OuterOk
  <1>7. depth[t] = Base(t) + Held(f) /\ Held(h) = Held(f)
    BY <1>1, <1>3 DEF IsMoved, OneCall, Held
  <1>8. OneCall(t, h)'
    BY <1>3, <1>6, <1>7 DEF OneCall, Base
  <1> QED BY <1>4, <1>8 DEF Kept, SharedInv, SameOthers, Around, StackOk

\* The depth of a thread is changed.
LEMMA DepthChanges ==
  ASSUME SharedInv, NEW t \in All, NEW d \in Nat, depth' = [depth EXCEPT ![t] = d]
  PROVE  /\ depth' \in [All -> Nat] /\ depth'[t] = d
         /\ \A u \in All \ {t} : depth'[u] = depth[u]
  BY DEF SharedInv

\* A call of thread t that holds nothing returns.
LEMMA ReturnKept ==
  ASSUME IInv, NEW t \in All, InCall(t), Top(t).at \in {"guard", "bypass"}, Returns(t),
         UNCHANGED <<resolved, winner, ready, constructor, enabled, depth>>
  PROVE  Kept(t)
  <1> USE DEF IInv
  <1>1. ASSUME NEW f \in FrameType, OneCall(t, f), Top(t) = f PROVE Kept(t)
    <2>1. SameOthers(t) /\ stack'[t] = <<>>
      BY <1>1, ReturnsOne DEF OneCall
    <2>2. depth[t] = Base(t) + 0
      BY <1>1 DEF OneCall, Held
    <2>3. t = Loader /\ constructor = "init" => ready
      BY <1>1 DEF OneCall, OuterOk, FrameOk
    <2>4. NoCall(t)'
      BY <2>1, <2>2, <2>3 DEF NoCall, Base
    <2> QED BY <2>1, <2>4 DEF Kept, SharedInv, SameOthers, Around, StackOk
  <1>2. ASSUME NEW g \in FrameType, NEW f \in FrameType, TwoCalls(t, g, f), Top(t) = g
        PROVE  Kept(t)
    <2>1. SameOthers(t) /\ stack'[t] = <<f>>
      BY <1>2, ReturnsTwo DEF TwoCalls
    <2>2. OneCall(t, f)'
      BY <1>2, <2>1 DEF TwoCalls, OneCall, OuterOk, FrameOk, Base
    <2> QED BY <2>1, <2>2 DEF Kept, SharedInv, SameOthers, Around, StackOk
  <1> QED BY <1>1, <1>2, Depth

LEMMA BypassKept ==
  ASSUME IInv, NEW t \in All, Bypass(t) PROVE Kept(t)
  BY ReturnKept DEF Bypass, IsAt

LEMMA GuardKept ==
  ASSUME IInv, NEW t \in All, Guard(t) PROVE Kept(t)
  <1> USE DEF Guard, IInv
  <1>1. InCall(t) /\ Top(t).at = "guard"
    BY DEF IsAt
  <1>2. CASE Top(t).fn = 0
    BY <1>1, <1>2, ReturnKept
  <1>3. CASE Top(t).fn # 0 /\ ShouldBypass(t)
    <2>1. Goes(t, "bypass") /\ "bypass" \in Ats /\ UNCHANGED depth
      BY <1>3 DEF Ats
    <2>2. ASSUME NEW f \in FrameType, OneCall(t, f), Top(t) = f PROVE Kept(t)
      <3>1. PICK h \in FrameType : IsMoved(h, f, "bypass") /\ stack'[t] = <<h>>
        BY <2>1, <2>2, GoesOne DEF OneCall
      <3>2. SameOthers(t)
        BY <2>1, <2>2, GoesOne DEF OneCall
      <3>3. FrameOk(t, h)'
        BY <1>1, <1>3, <2>2, <3>1 DEF IsMoved, OneCall, OuterOk, FrameOk
      <3>4. OuterOk(t, h)'
        BY <1>1, <1>3, <2>2, <3>1, <3>3 DEF IsMoved, OneCall, OuterOk
      <3>5. OneCall(t, h)'
        BY <1>1, <2>1, <2>2, <3>1, <3>4 DEF IsMoved, OneCall, Held, Base
      <3>6. SharedInv'
        BY <2>1, <3>2 DEF SharedInv, SameOthers
      <3>7. Around(t)
        BY <2>1, <3>2 DEF Around, SharedInv, SameOthers
      <3>8. StackOk(t)'
        BY <3>5 DEF StackOk
      <3> QED BY <3>6, <3>7, <3>8 DEF Kept
    <2>3. ASSUME NEW g \in FrameType, NEW f \in FrameType, TwoCalls(t, g, f), Top(t) = g
          PROVE  Kept(t)
      <3>1. PICK h \in FrameType : IsMoved(h, g, "bypass") /\ stack'[t] = <<h, f>>
        BY <2>1, <2>3, GoesTwo DEF TwoCalls
      <3>2. SameOthers(t)
        BY <2>1, <2>3, GoesTwo DEF TwoCalls
      <3>3. OuterOk(t, f)' /\ InnerOk(t, h, f)'
        BY <1>1, <2>3, <3>1 DEF IsMoved, TwoCalls, InnerOk, OuterOk, FrameOk
      <3>4. TwoCalls(t, h, f)'
        BY <2>1, <2>3, <3>1, <3>3 DEF TwoCalls, Held, Base
      <3> QED BY <3>2, <3>4 DEF Kept, SharedInv, SameOthers, Around, StackOk
    <2> QED BY <1>1, <2>2, <2>3, Depth
  <1>4. CASE Top(t).fn # 0 /\ ~ShouldBypass(t)
    <2>1. Goes(t, "real") /\ "real" \in Ats /\ ready /\ depth[t] = 0
      BY <1>4 DEF ShouldBypass, Ats, SharedInv
    <2>2. ASSUME NEW g \in FrameType, NEW f \in FrameType, TwoCalls(t, g, f), Top(t) = g
          PROVE  FALSE
      <3>1. f.at = "commit"
        BY <2>1, <2>2 DEF TwoCalls, InnerOk, OuterOk, FrameOk
      <3> QED BY <2>1, <2>2, <3>1 DEF TwoCalls, Held, Base
    <2>3. PICK f \in FrameType : OneCall(t, f) /\ Top(t) = f
      BY <1>1, <2>2, Depth
    <2>4. t # Backend /\ Held(f) = 0 /\ Base(t) = 0
      BY <1>1, <2>1, <2>3 DEF OneCall, Held, Base
    <2>5. PICK h \in FrameType : IsMoved(h, f, "real") /\ stack'[t] = <<h>>
      BY <2>1, <2>3, GoesOne DEF OneCall
    <2>6. SameOthers(t)
      BY <2>1, <2>3, GoesOne DEF OneCall
    <2>7. FrameOk(t, h)'
      BY <1>1, <1>4, <2>1, <2>3, <2>5 DEF IsMoved, OneCall, OuterOk, FrameOk
    <2>8. OuterOk(t, h)'
      BY <1>1, <1>4, <2>3, <2>4, <2>5, <2>7 DEF IsMoved, OneCall, OuterOk
    <2>9. /\ depth' \in [All -> Nat] /\ depth'[t] = 1
          /\ \A u \in All \ {t} : depth'[u] = depth[u]
      BY <1>4, <2>1, DepthChanges
    <2>10. Held(h) = 1 /\ Base(t)' = 0
      BY <2>4, <2>5 DEF IsMoved, Held, Base
    <2>11. OneCall(t, h)'
      BY <2>5, <2>8, <2>9, <2>10 DEF OneCall, Base
    <2>12. SharedInv'
      BY <2>6, <2>9 DEF SharedInv, SameOthers
    <2>13. Around(t)
      BY <2>6, <2>9 DEF Around, SharedInv, SameOthers
    <2>14. StackOk(t)'
      BY <2>11 DEF StackOk
    <2> QED BY <2>12, <2>13, <2>14 DEF Kept
  <1> QED BY <1>2, <1>3, <1>4

LEMMA EventKept ==
  ASSUME IInv, NEW t \in All, Event(t) PROVE Kept(t)
  <1> USE DEF Event, IInv
  <1>1. PICK f \in FrameType : OneCall(t, f) /\ f.at = "event"
    BY Outermost
  <1>2. depth[t] = Base(t) + 1 /\ Base(t) \in Nat
    BY <1>1 DEF OneCall, Held, Base
  <1>3. CASE ~enabled
    <2>1. SameOthers(t) /\ stack'[t] = <<>>
      BY <1>1, <1>3, ReturnsOne DEF ReturnDisabled, OneCall
    <2>2. depth' = [depth EXCEPT ![t] = depth[t] - 1] /\ depth[t] - 1 = Base(t)
      BY <1>2, <1>3 DEF ReturnDisabled
    <2>3. /\ depth' \in [All -> Nat] /\ depth'[t] = Base(t)
          /\ \A u \in All \ {t} : depth'[u] = depth[u]
      BY <1>2, <2>2, DepthChanges
    <2>4. NoCall(t)'
      BY <1>1, <2>1, <2>3 DEF NoCall, Base, OneCall, OuterOk, FrameOk
    <2>5. SharedInv'
      BY <2>1, <2>3 DEF SharedInv, SameOthers
    <2>6. Around(t)
      BY <2>1, <2>3 DEF Around, SharedInv, SameOthers
    <2> QED BY <2>4, <2>5, <2>6 DEF Kept, StackOk
  <1>4. CASE enabled
    <2>1. "commit" \in Ats
      BY DEF Ats
    <2>2. depth' = [depth EXCEPT ![t] = depth[t] + 1] /\ depth[t] + 1 = Base(t) + 2
      BY <1>2, <1>4
    <2>8. Base(t) + 2 \in Nat
      BY <1>2
    <2>3. /\ depth' \in [All -> Nat] /\ depth'[t] = Base(t) + 2
          /\ \A u \in All \ {t} : depth'[u] = depth[u]
      BY <2>2, <2>8, DepthChanges
    <2>4. ASSUME NEW h \in FrameType, IsMoved(h, f, "commit")
          PROVE  OuterOk(t, h)' /\ Held(h) = 2
      <3>1. FrameOk(t, h)'
        BY <1>1, <2>4 DEF IsMoved, OneCall, OuterOk, FrameOk
      <3> QED BY <1>1, <2>4, <3>1 DEF IsMoved, OneCall, OuterOk, Held
    <2>5. SameOthers(t) => SharedInv' /\ Around(t)
      <3>1. SameOthers(t) => SharedInv'
        BY <2>3 DEF SharedInv, SameOthers
      <3>2. SameOthers(t) => Around(t)
        BY <2>3 DEF Around, SharedInv, SameOthers
      <3> QED BY <3>1, <3>2
    <2>9. SharedInv /\ stack[t] = <<f>>
      BY <1>1 DEF OneCall
    <2>6. CASE Goes(t, "commit")
      <3>1. PICK h \in FrameType : IsMoved(h, f, "commit") /\ stack'[t] = <<h>>
        BY <1>1, <2>1, <2>6, GoesOne DEF OneCall
      <3>2. SameOthers(t)
        BY <1>1, <2>1, <2>6, GoesOne DEF OneCall
      <3>3. OneCall(t, h)'
        BY <2>3, <2>4, <3>1 DEF OneCall, Base
      <3> QED BY <2>5, <3>2, <3>3 DEF Kept, StackOk
    <2>7. ASSUME NEW fn \in Fns, GoesCalling(t, "commit", fn) PROVE Kept(t)
      <3> HIDE DEF Event, IInv
      <3>2. /\ SameOthers(t)
            /\ \E g, h \in FrameType : /\ g = Frame(fn, "entry", FALSE)
                                       /\ IsMoved(h, f, "commit") /\ stack'[t] = <<g, h>>
        BY <2>1, <2>7, <2>9, GoesCallingOne
      <3>1. PICK g, h \in FrameType : /\ g = Frame(fn, "entry", FALSE)
                                      /\ IsMoved(h, f, "commit") /\ stack'[t] = <<g, h>>
        BY <3>2
      <3>3. g.fn = fn /\ g.fn # 0 /\ g.at = "entry" /\ g.program = FALSE
        BY <3>1, BoundAssumption DEF Frame, Fns
      <3>4. InnerOk(t, g, h)'
        BY <3>1, <3>3 DEF IsMoved, InnerOk, FrameOk
      <3>5. TwoCalls(t, g, h)'
        <4>1. OuterOk(t, h)' /\ Held(h) = 2
          BY <2>4, <3>1
        <4>2. depth'[t] = Base(t)' + Held(h)
          BY <2>3, <4>1 DEF Base
        <4> QED BY <3>1, <3>4, <4>1, <4>2, Zenon DEF TwoCalls
      <3> QED BY <2>5, <3>2, <3>5 DEF Kept, StackOk
    <2> QED BY <1>4, <2>6, <2>7
  <1> QED BY <1>3, <1>4

LEMMA CommitKept ==
  ASSUME IInv, NEW t \in All, Commit(t) PROVE Kept(t)
  <1> USE DEF Commit, IInv
  <1>1. PICK f \in FrameType : OneCall(t, f) /\ f.at = "commit"
    BY Outermost
  <1>2. depth[t] = Base(t) + 2 /\ Base(t) \in Nat
    BY <1>1 DEF OneCall, Held, Base
  <1>3. SameOthers(t) /\ stack'[t] = <<>>
    BY <1>1, ReturnsOne DEF OneCall
  <1>4. depth' = [depth EXCEPT ![t] = depth[t] - 2] /\ depth[t] - 2 = Base(t)
    BY <1>2
  <1>5. /\ depth' \in [All -> Nat] /\ depth'[t] = Base(t)
        /\ \A u \in All \ {t} : depth'[u] = depth[u]
    BY <1>2, <1>4, DepthChanges
  <1>6. NoCall(t)'
    BY <1>1, <1>3, <1>5 DEF NoCall, Base, OneCall, OuterOk, FrameOk
  <1>7. SharedInv'
    BY <1>3, <1>5 DEF SharedInv, SameOthers
  <1>8. Around(t)
    BY <1>3, <1>5 DEF Around, SharedInv, SameOthers
  <1> QED BY <1>6, <1>7, <1>8 DEF Kept, StackOk

\* A thread in no call.
LEMMA Idle ==
  ASSUME IInv, NEW t \in All, ~InCall(t) PROVE NoCall(t)
  <1>1. stack[t] = <<>>
    BY DEF InCall
  <1>2. \A f, g : stack[t] # <<f>> /\ stack[t] # <<g, f>>
    BY <1>1, One, Two
  <1> QED BY <1>1, <1>2 DEF IInv, StackOk, OneCall, TwoCalls

LEMMA ConstructKept ==
  ASSUME IInv, Construct PROVE Kept(Loader)
  <1> USE DEF Construct, IInv
  <1>1. Loader \in All /\ Loader # Backend
    BY ThreadAssumption DEF All
  <1>2. NoCall(Loader)
    BY <1>1, Idle
  <1>3. PICK f \in FrameType : /\ f = Frame(0, "once", FALSE)
                               /\ f.fn = 0 /\ f.at = "once" /\ f.program = FALSE
    <2>1. 0 \in 0..NumFns /\ "once" \in Ats /\ FALSE \in BOOLEAN
      BY BoundAssumption DEF Ats
    <2>2. /\ Frame(0, "once", FALSE) \in FrameType /\ Frame(0, "once", FALSE).fn = 0
          /\ Frame(0, "once", FALSE).at = "once" /\ Frame(0, "once", FALSE).program = FALSE
      BY <2>1, NewFrame
    <2> QED BY <2>2
  <1>4. SameOthers(Loader) /\ stack'[Loader] = <<f>>
    BY <1>1, <1>2, <1>3, EntersNone DEF NoCall
  <1>5. OuterOk(Loader, f)'
    BY <1>1, <1>3 DEF OuterOk, FrameOk
  <1>6. OneCall(Loader, f)'
    <2>1. Held(f) = 0
      BY <1>3 DEF Held
    <2>2. depth[Loader] = 0 /\ Base(Loader)' = 0
      BY <1>1, <1>2 DEF NoCall, Base
    <2> QED BY <1>4, <1>5, <2>1, <2>2 DEF OneCall
  <1>7. SharedInv'
    BY <1>4 DEF SharedInv, SameOthers
  <1>8. Around(Loader)
    BY <1>1, <1>4 DEF Around, SharedInv, SameOthers
  <1> QED BY <1>6, <1>7, <1>8 DEF Kept, StackOk

LEMMA ReadConfigKept ==
  ASSUME IInv, ReadConfig PROVE Kept(Loader)
  <1> USE DEF ReadConfig, IInv
  <1>1. Loader \in All /\ Loader # Backend
    BY ThreadAssumption DEF All
  <1>2. NoCall(Loader) /\ ready
    <2>1. NoCall(Loader)
      BY <1>1, Idle
    <2> QED BY <2>1 DEF NoCall
  <1>3. CASE UNCHANGED stack
    <2>1. NoCall(Loader)'
      BY <1>2, <1>3 DEF NoCall, Base
    <2> QED BY <1>1, <1>2, <1>3, <2>1 DEF Kept, SharedInv, Around, StackOk
  <1>4. ASSUME NEW fn \in Fns, Enters(Loader, Frame(fn, "entry", FALSE)), constructor' = "log"
        PROVE  Kept(Loader)
    <2>1. PICK f \in FrameType : /\ f = Frame(fn, "entry", FALSE)
                                 /\ f.fn = fn /\ f.at = "entry" /\ f.program = FALSE
      <3>1. fn \in 0..NumFns /\ "entry" \in Ats /\ FALSE \in BOOLEAN
        BY BoundAssumption DEF Ats, Fns
      <3>2. /\ Frame(fn, "entry", FALSE) \in FrameType /\ Frame(fn, "entry", FALSE).fn = fn
            /\ Frame(fn, "entry", FALSE).at = "entry" /\ Frame(fn, "entry", FALSE).program = FALSE
        BY <3>1, NewFrame
      <3> QED BY <3>2
    <2>2. SameOthers(Loader) /\ stack'[Loader] = <<f>>
      BY <1>1, <1>2, <1>4, <2>1, EntersNone DEF NoCall
    <2>3. fn # 0
      BY BoundAssumption DEF Fns
    <2>4. OuterOk(Loader, f)'
      BY <1>1, <1>4, <2>1, <2>3 DEF OuterOk, FrameOk
    <2>5. OneCall(Loader, f)'
      <3>1. Held(f) = 0
        BY <2>1 DEF Held
      <3>2. depth[Loader] = 0 /\ Base(Loader)' = 0
        BY <1>1, <1>2 DEF NoCall, Base
      <3> QED BY <2>2, <2>4, <3>1, <3>2 DEF OneCall
    <2>6. SharedInv'
      BY <1>2, <1>4, <2>2 DEF SharedInv, SameOthers, NoCall
    <2>7. Around(Loader)
      BY <1>1, <1>4, <2>2 DEF Around, SharedInv, SameOthers
    <2> QED BY <2>5, <2>6, <2>7 DEF Kept, StackOk
  <1> QED BY <1>3, <1>4

LEMMA LogInitKept ==
  ASSUME IInv, LogInit PROVE Kept(Loader)
  <1> USE DEF LogInit, IInv
  <1>1. Loader \in All
    BY ThreadAssumption DEF All
  <1>2. NoCall(Loader)
    BY <1>1, Idle
  <1>3. NoCall(Loader)'
    BY <1>2 DEF NoCall, Base
  <1> QED BY <1>1, <1>3 DEF Kept, SharedInv, Around, StackOk

LEMMA NextInv == IInv /\ [Next]_vars => IInv'
  <1> SUFFICES ASSUME IInv, [Next]_vars PROVE IInv'
    OBVIOUS
  <1>1. ASSUME NEW t \in All, Kept(t) PROVE IInv'
    BY <1>1, OthersKeep DEF Kept, IInv
  <1>2. ASSUME UNCHANGED vars PROVE IInv'
    <2>1. SharedInv'
      BY <1>2 DEF vars, IInv, SharedInv
    <2>2. \A t \in All : StackOk(t)'
      BY <1>2 DEF vars, IInv, StackOk, NoCall, OneCall, TwoCalls, OuterOk, InnerOk, FrameOk
    <2> QED BY <2>1, <2>2 DEF IInv
  <1>3. ASSUME NEW t \in All, Call(t) \/ ThreadStep(t) PROVE IInv'
    BY <1>1, <1>3, CallKept, EntryKept, InitOnceKept, WaitKept, ResolveKept, SetPointerKept,
       ReadyKept, GuardKept, BypassKept, RealKept, EventKept, CommitKept DEF ThreadStep
  <1>4. Loader \in All
    BY ThreadAssumption DEF All
  <1>5. CASE Construct \/ ReadConfig \/ LogInit
    BY <1>1, <1>4, <1>5, ConstructKept, ReadConfigKept, LogInitKept
  <1> QED BY <1>2, <1>3, <1>5 DEF Next, Finished
-----------------------------------------------------------------------------
(* The properties.                                                         *)

\* No pointer is called before it is set, whatever order the constructor, the
\* threads and what dlsym calls come in.
THEOREM PointersAreSet == Spec => []NeverCallsNull
  <1>1. IInv => NeverCallsNull
    <2> SUFFICES ASSUME IInv, NEW t \in All
                 PROVE  /\ IsAt(t, "bypass") \/ IsAt(t, "real") => Top(t).fn <= resolved
                        /\ IsAt(t, "commit") => \A fn \in Fns : fn <= resolved
      BY DEF NeverCallsNull
    <2>1. ASSUME IsAt(t, "bypass") \/ IsAt(t, "real") PROVE Top(t).fn <= resolved
      BY <2>1, Depth DEF IsAt, OneCall, TwoCalls, OuterOk, InnerOk, FrameOk
    <2>2. ASSUME IsAt(t, "commit"), NEW fn \in Fns PROVE fn <= resolved
      <3>1. ready
        BY <2>2, Outermost DEF OneCall, OuterOk, FrameOk
      <3> QED BY <3>1, BoundAssumption DEF IInv, SharedInv, Fns
    <2> QED BY <2>1, <2>2
  <1> QED BY InitInv, NextInv, <1>1, PTL DEF Spec

\* With logging enabled, a call of the program that is at the guard is not bypassed,
\* and only calls of the program are logged.
THEOREM TheProgramIsLogged == Spec => LogsTheProgram
  <1> DEFINE P(t) == /\ IsAt(t, "guard") /\ Top(t).program /\ enabled => ~IsAt(t, "bypass")'
                     /\ IsAt(t, "event") /\ enabled => Top(t).program
  <1>1. ASSUME IInv, NEW t \in All, IsAt(t, "event"), enabled PROVE Top(t).program
    <2>1. PICK f \in FrameType : OneCall(t, f) /\ Top(t) = f /\ f.at = "event"
      BY <1>1, Outermost
    <2> QED BY <1>1, <2>1 DEF IInv, SharedInv, OneCall, OuterOk
  <1>2. ASSUME IInv, Next, NEW t \in All, IsAt(t, "guard"), Top(t).program, enabled
        PROVE  ~IsAt(t, "bypass")'
    <2>1. constructor = "done" /\ ready
      BY <1>2 DEF IInv, SharedInv
    <2>2. InCall(t) /\ Top(t).at = "guard"
      BY <1>2 DEF IsAt
    <2>3. ASSUME NEW g \in FrameType, NEW f \in FrameType, TwoCalls(t, g, f), Top(t) = g
          PROVE  FALSE
      BY <1>2, <2>3 DEF TwoCalls, InnerOk
    <2>4. PICK f \in FrameType : OneCall(t, f) /\ Top(t) = f
      BY <1>2, <2>2, <2>3, Depth
    <2>5. t # Backend /\ f.fn # 0
      BY <1>2, <2>1, <2>4 DEF OneCall, OuterOk
    <2>6. depth[t] = 0
      BY <2>2, <2>4, <2>5 DEF OneCall, Held, Base
    <2>7. CASE Guard(t)
      <3>1. Goes(t, "real") /\ "real" \in Ats
        BY <2>1, <2>4, <2>5, <2>6, <2>7 DEF Guard, ShouldBypass, Ats
      <3>2. PICK h \in FrameType : IsMoved(h, f, "real") /\ stack'[t] = <<h>>
        BY <1>2, <2>4, <3>1, GoesOne DEF OneCall, IInv
      <3> QED BY <3>2, One DEF IsAt, InCall, Top, IsMoved
    <2>8. CASE stack'[t] = stack[t]
      BY <2>2, <2>8 DEF IsAt, InCall, Top
    <2>9. ASSUME NEW u \in All \ {t}, Call(u) \/ ThreadStep(u) PROVE stack'[t] = stack[t]
      BY <1>2, <2>9, CallKept, EntryKept, InitOnceKept, WaitKept, ResolveKept, SetPointerKept,
         ReadyKept, GuardKept, BypassKept, RealKept, EventKept, CommitKept
      DEF ThreadStep, Kept, Around
    <2>10. ASSUME Call(t) \/ ThreadStep(t) PROVE Guard(t)
      BY <2>2, <2>10 DEF ThreadStep, Call, Entry, InitOnce, Wait, Resolve, SetPointer, Ready,
         Bypass, Real, Event, Commit, IsAt
    <2>11. ~Construct /\ ~ReadConfig /\ ~LogInit
      BY <2>1 DEF Construct, ReadConfig, LogInit
    <2>12. ASSUME Finished PROVE stack'[t] = stack[t]
      BY <2>12 DEF Finished, vars
    <2> QED BY <1>2, <2>7, <2>8, <2>9, <2>10, <2>11, <2>12 DEF Next
  <1>3. IInv /\ [Next]_vars => [\A t \in All : P(t)]_vars
    BY <1>1, <1>2
  <1> QED BY InitInv, NextInv, <1>3, PTL DEF Spec, LogsTheProgram
=============================================================================
