------------------------------- MODULE Analyzer -------------------------------
(***************************************************************************)
(* The analyzer's way from a trace file to events with symbols: read_trace *)
(* (trace_reader.py), which reads a file that may be damaged and may end   *)
(* anywhere, and symbolize_all (symbolizer.py), which gives every program  *)
(* counter its module and asks addr2line for the names.                    *)
(*                                                                         *)
(* A line is its tag, the event it belongs to and a number: of the module, *)
(* of the event's frames, or of the frame.  What becomes of a line on its  *)
(* way into the file is chosen as it is written: it is garbled, so that it *)
(* is no line of its kind any more, or missing; the result of an E line or *)
(* the address of an F line is unreadable; or the line is altered and says *)
(* something else that can be read.  And the file may end anywhere, in the *)
(* middle of a line as well.                                               *)
(***************************************************************************)
EXTENDS Naturals, Sequences, FiniteSets

CONSTANTS
  Modules,        \* the modules in the order of the M lines: [base, size]
  MaxFrames,      \* bound: frames of an event
  NumEvents,      \* bound: events in the file
  PcOf(_, _),     \* the program counter of frame i of event k,
  AlteredPc(_, _), \* and the one that its F line says if it is altered
  MaxDamage,      \* bound: damaged lines
  Nothing         \* no module, no name

ASSUME BoundAssumption == {MaxFrames, NumEvents, MaxDamage} \subseteq Nat
ASSUME PcAssumption ==
  \A k \in 1..NumEvents, i \in 1..MaxFrames : PcOf(k, i) \in Nat /\ AlteredPc(k, i) \in Nat
\* iter_cb leaves out objects of size 0; those loaded at one time share no address.
ASSUME ModulesAssumption ==
  /\ Modules \in Seq([base : Nat, size : Nat \ {0}])
  /\ \A i, j \in 1..Len(Modules) :
       \/ Modules[i] = Modules[j]
       \/ Modules[i].base + Modules[i].size <= Modules[j].base
       \/ Modules[j].base + Modules[j].size <= Modules[i].base
  /\ \A i \in 1..Len(Modules) : Modules[i] # Nothing

VARIABLES
  written,        \* the lines of the trace, and how each has fared
  left,           \* frames of the event being written still to come
  file,           \* the numbers of the lines that are in the file
  at, pos,        \* where the analyzer is, and the next line
  need,           \* frames of the event being read still expected
  modules, events, \* what read_trace returns
  results,        \* results of symbolize_all, by program counter
  todo            \* the modules whose bucket is still to be symbolized
trace == <<written, left, file>>
vars == <<written, left, file, at, pos, need, modules, events, results, todo>>

Init ==
  /\ written = <<>> /\ left = 0 /\ file = <<>>
  /\ at = "writing" /\ pos = 1 /\ need = 0
  /\ modules = <<>> /\ events = <<>> /\ results = <<>> /\ todo = {}
-----------------------------------------------------------------------------
(* The lines, as event_log.cpp, module_map.cpp and backend.cpp write them.  *)

Line(tag, k, n) == [tag |-> tag, event |-> k, num |-> n]
Last == written[Len(written)].line

Damaged == Cardinality({i \in 1..Len(written) : written[i].fate # "kept"})

\* A line, how it has fared, and the number it shows.
Row(l, fate, n) == [line |-> l, fate |-> fate, num |-> n]
\* What is left of a line that is damaged and of one that ends too early.  An E line
\* that says something else may promise another number of frames.
Spoiled(l) ==
  {Row(l, "garbled", 0)}
  \cup {Row(l, fate, l.num) : fate \in IF l.tag \in {"E", "F"} THEN {"unreadable", "altered"}
                                      ELSE {}}
  \cup {Row(l, "altered", n) : n \in IF l.tag = "E" THEN 0..(MaxFrames + 1) ELSE {}}
Arrivals(l) == {Row(l, "kept", l.num)} \cup
  IF Damaged = MaxDamage THEN {} ELSE {Row(l, "missing", 0)} \cup Spoiled(l)

\* A line is written and arrives in the file, or not.
Write(l) ==
  /\ at = "writing"
  /\ \E row \in Arrivals(l) :
       /\ written' = Append(written, row)
       /\ file' = IF row.fate = "missing" THEN file ELSE Append(file, Len(written) + 1)
  /\ UNCHANGED <<at, pos, need, modules, events, results, todo>>

WriteHeader ==
  written = <<>> /\ Write(Line("HEADER", 0, 0)) /\ UNCHANGED left
WriteModule ==
  /\ Len(written) \in 1..Len(Modules)
  /\ Write(Line("M", 0, Len(written))) /\ UNCHANGED left
WriteEvent ==
  /\ Len(written) > Len(Modules) /\ left = 0 /\ Last.event < NumEvents
  /\ left' \in 0..MaxFrames /\ Write(Line("E", Last.event + 1, left'))
WriteFrame ==
  /\ left > 0 /\ left' = left - 1
  /\ Write(Line("F", Last.event, IF Last.tag = "E" THEN 1 ELSE Last.num + 1))

\* The file ends here: all is written, or the rest is cut off; by the byte, so that
\* of the last line only the beginning may be left.
WriteEnd ==
  /\ at = "writing" /\ at' = "header"
  /\ \/ UNCHANGED written
     \/ /\ written # <<>> /\ written[Len(written)].fate = "kept"
        /\ \E row \in Spoiled(Last) : written' = [written EXCEPT ![Len(written)] = row]
  /\ UNCHANGED <<left, file, pos, need, modules, events, results, todo>>
-----------------------------------------------------------------------------
(* read_trace.                                                             *)

\* What can be seen of a row of the file.
Seen(w) == [tag |-> IF w.fate = "garbled" THEN "?" ELSE w.line.tag,
            event |-> w.line.event, num |-> w.num, fate |-> w.fate]
Text(p) == Seen(written[file[p]])

AtEnd == pos > Len(file)
IsTag(tag) == ~AtEnd /\ Text(pos).tag = tag

ReadHeader ==
  /\ at = "header" /\ pos' = pos + 1
  /\ at' = IF IsTag("HEADER") THEN "lines" ELSE "invalid"
  /\ UNCHANGED <<trace, need, modules, events, results, todo>>

ReadModule ==
  /\ at = "lines" /\ IsTag("M")
  /\ modules' = Append(modules, Modules[Text(pos).num]) /\ pos' = pos + 1
  /\ UNCHANGED <<trace, at, need, events, results, todo>>

\* What the event says.  An unreadable result counts as 0.
Says(l) == IF l.fate = "unreadable" THEN "zero"
           ELSE IF l.fate = "altered" THEN "other" ELSE "written"

ReadEvent ==
  /\ at = "lines" /\ IsTag("E")
  /\ events' = Append(events, [id |-> Text(pos).event, says |-> Says(Text(pos)), bt |-> <<>>])
  /\ need' = Text(pos).num /\ at' = "frames" /\ pos' = pos + 1
  /\ UNCHANGED <<trace, modules, results, todo>>

\* A line of another kind, as an F line without event.
SkipLine ==
  /\ at = "lines" /\ ~AtEnd /\ ~IsTag("M") /\ ~IsTag("E")
  /\ pos' = pos + 1
  /\ UNCHANGED <<trace, at, need, modules, events, results, todo>>

\* A frame is known by the event and the number it was written with, and by whether
\* its address is the one that was written.
Frame(l) == <<l.event, l.num, Says(l)>>

\* Every F line counts, whether its address can be read or not.
FramesAfter == need - 1

\* Fault: any line is taken for a frame.
IsFrameAny == ~AtEnd
IsFrame == IsTag("F")

ReadFrame ==
  /\ at = "frames" /\ need > 0 /\ IsFrame
  /\ need' = FramesAfter /\ pos' = pos + 1
  /\ events' = IF Text(pos).fate = "unreadable" THEN events
               ELSE [events EXCEPT ![Len(events)].bt = Append(@, Frame(Text(pos)))]
  /\ UNCHANGED <<trace, at, modules, results, todo>>

\* All frames are read; or a line that is no frame ends the event and is gone.
EventDone ==
  /\ at = "frames" /\ (need = 0 \/ ~IsFrame)
  /\ at' = "lines" /\ need' = 0
  /\ pos' = IF need = 0 THEN pos ELSE pos + 1
  /\ UNCHANGED <<trace, modules, events, results, todo>>

\* modules.sort: a stable sort by base.
Upto(ms, i) ==
  {j \in 1..Len(ms) : ms[j].base < ms[i].base \/ (ms[j].base = ms[i].base /\ j <= i)}
ByBase(ms) ==
  [n \in 1..Len(ms) |-> ms[CHOOSE i \in 1..Len(ms) : Cardinality(Upto(ms, i)) = n]]

Pc(f) == IF f[3] = "written" THEN PcOf(f[1], f[2]) ELSE AlteredPc(f[1], f[2])
Pcs == UNION {{Pc(events[k].bt[i]) : i \in 1..Len(events[k].bt)} : k \in 1..Len(events)}

\* bisect_right(bases, pc): the modules are sorted by base.
IndexOf(ms, pc) == Cardinality({i \in 1..Len(ms) : ms[i].base <= pc})

\* _find_module.
FindModule(ms, pc) ==
  LET i == IndexOf(ms, pc)
  IN  IF i = 0 \/ (i > 0 /\ pc >= ms[i].base + ms[i].size) THEN Nothing ELSE ms[i]

\* What is known of a program counter before addr2line: its module and offset.
Located(ms, pc) ==
  LET m == FindModule(ms, pc)
  IN  [module |-> m, offset |-> IF m = Nothing THEN pc ELSE pc - m.base,
       func |-> Nothing, file |-> Nothing]

\* The end of the file: the modules are sorted and each one gets the program
\* counters in it.
ReadEnd ==
  /\ at = "lines" /\ AtEnd
  /\ modules' = ByBase(modules)
  /\ results' = [pc \in Pcs |-> Located(modules', pc)]
  /\ todo' = {results'[pc].module : pc \in Pcs} \ {Nothing}
  /\ at' = "symbols"
  /\ UNCHANGED <<trace, pos, need, events>>
-----------------------------------------------------------------------------
(* symbolize_all.                                                          *)

\* What addr2line prints: two lines for each address, of which only the first n
\* arrive.
Output(offsets, n) ==
  [i \in 1..n |-> <<IF i % 2 = 1 THEN "func" ELSE "file", offsets[(i + 1) \div 2]>>]

LineOr(lines, i) == IF i <= Len(lines) THEN lines[i] ELSE Nothing

\* Fault: the file lines are looked for one pair too far.
FileLineLate(i) == 2 * i + 2
\* Where the answer about the i-th address has its second line.
FileLine(i) == 2 * i

\* _symbolize_one_module: the i-th address takes the lines of the i-th pair.
Symbolize(m, pcs, lines) ==
  results' = [pc \in DOMAIN results |->
    IF results[pc].module # m THEN results[pc]
    ELSE LET i == CHOOSE j \in 1..Len(pcs) : pcs[j] = pc
         IN  [results[pc] EXCEPT !.func = LineOr(lines, FileLine(i) - 1),
                                 !.file = LineOr(lines, FileLine(i))]]

\* The bucket of module m, in the arbitrary order of a set: its file is missing,
\* addr2line fails, or it prints its answer or the beginning of it.
Bucket(m) == {pc \in DOMAIN results : results[pc].module = m}
Orders(S) == {p \in [1..Cardinality(S) -> S] : \A x \in S : \E i \in DOMAIN p : p[i] = x}

SymbolizeModule(m) ==
  /\ at = "symbols" /\ m \in todo /\ todo' = todo \ {m}
  /\ \/ UNCHANGED results
     \/ \E pcs \in Orders(Bucket(m)) : \E n \in 0..(2 * Len(pcs)) :
          Symbolize(m, pcs, Output([i \in 1..Len(pcs) |-> pcs[i] - m.base], n))
  /\ UNCHANGED <<trace, at, pos, need, modules, events>>

Symbolized ==
  /\ at = "symbols" /\ todo = {} /\ at' = "done"
  /\ UNCHANGED <<trace, pos, need, modules, events, results, todo>>
-----------------------------------------------------------------------------
Finished == at \in {"done", "invalid"} /\ UNCHANGED vars
Next == \/ WriteHeader \/ WriteModule \/ WriteEvent \/ WriteFrame \/ WriteEnd
        \/ ReadHeader \/ ReadModule \/ ReadEvent \/ SkipLine \/ ReadFrame
        \/ EventDone \/ ReadEnd \/ (\E m \in todo : SymbolizeModule(m))
        \/ Symbolized \/ Finished
Spec == Init /\ [][Next]_vars
-----------------------------------------------------------------------------
(* Correctness.                                                            *)

IsRead(k) == \E j \in 1..Len(events) : events[j].id = k
\* The lines of event k and how they have fared.
Fared(k, tag, fate) == \E i \in 1..Len(written) : /\ written[i].line.tag = tag
                         /\ written[i].line.event = k /\ written[i].fate = fate

\* Frame f may be read as one of event k: it is one, or nothing is left of the
\* E lines between the two.
MayBeOf(f, k) == \A j \in (k + 1)..f[1] : Fared(j, "E", "missing")

\* An event or a frame says what its own line does.
EventSays(e) == \E i \in 1..Len(written) :
  /\ written[i].line.tag = "E" /\ written[i].line.event = e.id
  /\ Says(written[i]) = e.says
FrameSays(f) == \E i \in 1..Len(written) :
  written[i].line = Line("F", f[1], f[2]) /\ Says(written[i]) = f[3]

\* Damage stays where it is.  What is read was written: the events in their
\* order, none twice, each with its frames, in their order, and never with those
\* of another event of which the file still shows where it begins.  It says what was
\* written unless its own line does not: an address that is cut short at the end of
\* the file is read as another one, and an unreadable result as 0.  An event is
\* lost only if its own E line is, or if a line of the event before it is missing
\* without a trace or promises frames that do not come; and a frame of an event only
\* if its own line is, or if one of that event is garbled or its E line altered.
ReadWasWritten ==
  /\ \A i, j \in 1..Len(events) : i < j => events[i].id < events[j].id
  /\ \A j \in 1..Len(events) : LET bt == events[j].bt IN
       /\ EventSays(events[j])
       /\ \A i \in 1..Len(bt) : /\ bt[i][1] >= events[j].id /\ MayBeOf(bt[i], events[j].id)
                                /\ bt[i][3] # "zero" /\ FrameSays(bt[i])
       /\ \A h, i \in 1..Len(bt) : h < i /\ bt[h][1] = bt[i][1] => bt[h][2] < bt[i][2]
LossIsLocal ==
  at = "done" => \A k \in 1..NumEvents :
    (\E fate \in {"kept", "unreadable", "altered"} : Fared(k, "E", fate)) =>
      \/ IsRead(k)
      \/ Fared(k - 1, "E", "missing") \/ Fared(k - 1, "F", "missing")
      \/ Fared(k - 1, "E", "altered")
FramesComplete ==
  at = "done" => \A j \in 1..Len(events), i \in 1..Len(written) :
    /\ written[i].line.tag = "F" /\ written[i].line.event = events[j].id
    /\ written[i].fate \in {"kept", "altered"}
    => \/ \E h \in 1..Len(events[j].bt) :
            events[j].bt[h] = <<events[j].id, written[i].line.num, Says(written[i])>>
       \/ Fared(events[j].id, "F", "garbled") \/ Fared(events[j].id, "E", "altered")
DamageStaysLocal == ReadWasWritten /\ LossIsLocal /\ FramesComplete

\* Every program counter read gets the module it lies in, if that module's line is
\* in the file unharmed, and otherwise none; and no name but its own.
Intact ==
  {Modules[written[i].line.num] : i \in
     {j \in 1..Len(written) : written[j].line.tag = "M" /\ written[j].fate = "kept"}}
SymbolsRight ==
  at = "done" => DOMAIN results = Pcs /\ \A pc \in Pcs :
    LET r == results[pc]
        in == {m \in Intact : m.base <= pc /\ pc < m.base + m.size}
    IN  /\ IF in = {} THEN r.module = Nothing /\ r.offset = pc
           ELSE r.module \in in /\ r.module.base + r.offset = pc
        /\ r.func \in {Nothing, <<"func", r.offset>>}
        /\ r.file \in {Nothing, <<"file", r.offset>>}
=============================================================================
