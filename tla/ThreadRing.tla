----------------------------- MODULE ThreadRing -----------------------------
(***************************************************************************)
(* The single-producer single-consumer byte ring of ring_buffer.h together *)
(* with its two users: log_event (event_log.cpp), which reserves, fills    *)
(* and commits a frame, and process_one_event (backend.cpp), which skips   *)
(* padding, peeks at the header, copies the payload out and advances tail. *)
(* One action is one access to a cursor of the other side, with the local  *)
(* computation that follows it, so the two threads interleave between any  *)
(* two loads or stores of head and tail.                                   *)
(*                                                                         *)
(* A byte of buf_ is a cell that says what was last written there: a tag,  *)
(* a padding tag, or byte number pos of the payload of an event.  head and *)
(* tail are the virtual offsets of the code; 64 bits of them do not wrap   *)
(* in any run, so they are naturals.                                       *)
(***************************************************************************)
EXTENDS Naturals, Sequences

CONSTANTS
  Capacity,       \* capacity_
  HdrSize,        \* sizeof(EventHdrBin)
  PayloadSizes,   \* header plus 0..bt_depth program counters
  MaxPayload,     \* header plus kMaxFrames program counters
  MaxEvents       \* bound: events the producer logs

ASSUME CapacityAssumption == Capacity \in Nat \ {0}
ASSUME PayloadAssumption  == /\ HdrSize \in Nat \ {0}
                             /\ MaxPayload \in Nat /\ HdrSize <= MaxPayload
                             /\ PayloadSizes \subseteq HdrSize..MaxPayload
ASSUME BoundAssumption    == MaxEvents \in Nat
\* config.cpp accepts only rings far larger than two frames.  A frame that may
\* have to be preceded by padding needs this much at the very least.
ASSUME RoomAssumption     == \A n \in PayloadSizes : 2 * (1 + n) - 1 <= Capacity

VARIABLES
  head, tail,     \* head_, tail_
  buf,            \* buf_
  pending,        \* pending_payload_size_
  ppc,            \* where the producer is in log_event / reserve / commit
  psize,          \* payload_size, the argument of reserve
  seenTail,       \* t of reserve: the producer's last load of tail_
  cpc,            \* where the consumer is in process_one_event
  hdr,            \* the header it peeked at
  got,            \* the payload it copied out
  sent, received  \* history: events committed, events taken out

producerVars == <<head, pending, ppc, psize, seenTail, sent>>
consumerVars == <<tail, cpc, hdr, got, received>>
vars == <<producerVars, consumerVars, buf>>

\* An event is its number in the order of commits and its payload size.
Event == [id : 0..MaxEvents, size : 0..MaxPayload]
Torn  == [id |-> 0, size |-> HdrSize]  \* bytes that are no event's
Cell  == [kind : {"junk", "tag", "skip", "pay"}, event : Event, pos : 0..MaxPayload]
Junk      == [kind |-> "junk", event |-> Torn, pos |-> 0]
TagCell   == [kind |-> "tag",  event |-> Torn, pos |-> 0]
SkipCell  == [kind |-> "skip", event |-> Torn, pos |-> 0]
PayCell(e, i) == [kind |-> "pay", event |-> e, pos |-> i]
-----------------------------------------------------------------------------
(* Index arithmetic.                                                       *)

Phys(p)  == p % Capacity             \* pos & mask_
ToEnd(p) == Capacity - Phys(p)       \* bytes before the physical end
Need(n)  == 1 + n                    \* tag + payload
Boundary(p) == p + ToEnd(p)          \* the next multiple of Capacity
Readable == head - tail

\* Fault: one byte too many is thought to be free.
FreeOffByOne(t) == (Capacity - (head - t)) + 1
\* free_bytes of reserve, given the tail t it loaded.
Free(t) == Capacity - (head - t)

\* Fault: the physical end is overlooked.
NeedsPadNever(n) == FALSE
\* The frame would cross the physical end.
NeedsPad(n) == ToEnd(head) < Need(n)

\* Fault: the padding itself is not counted.
RoomForFrameOnly(n) == Need(n)
\* The bytes reserve insists on before it writes anything.
RoomFor(n) == IF NeedsPad(n) THEN ToEnd(head) + Need(n) ELSE Need(n)

Init ==
  /\ head = 0 /\ tail = 0 /\ pending = 0
  /\ buf = [i \in 0..(Capacity - 1) |-> Junk]
  /\ ppc = "idle" /\ psize = 0 /\ seenTail = 0
  /\ cpc = "peek" /\ hdr = Torn /\ got = Torn
  /\ sent = <<>> /\ received = <<>>
-----------------------------------------------------------------------------
(* The producer.                                                           *)

\* log_event has captured its backtrace and calls reserve(n).
Request(n) ==
  /\ ppc = "idle" /\ Len(sent) < MaxEvents
  /\ ppc' = "load" /\ psize' = n
  /\ UNCHANGED <<head, pending, seenTail, sent, consumerVars, buf>>

\* reserve loads tail_.
LoadTail ==
  /\ ppc = "load"
  /\ seenTail' = tail /\ ppc' = "check"
  /\ UNCHANGED <<head, pending, psize, sent, consumerVars, buf>>

\* reserve returns nullptr; log_event yields the processor and calls it again.
Full ==
  /\ ppc = "check" /\ Free(seenTail) < RoomFor(psize)
  /\ ppc' = "load"
  /\ UNCHANGED <<head, pending, psize, seenTail, sent, consumerVars, buf>>

\* The frame does not fit before the physical end: padding tags up to it ...
Pad ==
  /\ ppc = "check" /\ NeedsPad(psize) /\ Free(seenTail) >= RoomFor(psize)
  /\ buf' = [i \in DOMAIN buf |-> IF i >= Phys(head) THEN SkipCell ELSE buf[i]]
  /\ ppc' = "publish"
  /\ UNCHANGED <<head, pending, psize, seenTail, sent, consumerVars>>

\* ... published on their own ...
PublishPad ==
  /\ ppc = "publish"
  /\ head' = Boundary(head) /\ ppc' = "reload"
  /\ UNCHANGED <<pending, psize, seenTail, sent, consumerVars, buf>>

\* ... and tail_ is loaded again.
ReloadTail ==
  /\ ppc = "reload"
  /\ seenTail' = tail /\ ppc' = "recheck"
  /\ UNCHANGED <<head, pending, psize, sent, consumerVars, buf>>

\* Fault: the size of the frame is not kept for commit.
WriteTagForgetsSize(off) ==
  /\ buf' = [buf EXCEPT ![off] = TagCell]
  /\ ppc' = "fill"
  /\ UNCHANGED <<head, pending, psize, seenTail, sent, consumerVars>>
\* Fault: the frame can be committed before its bytes are copied.
WriteTagSkipsFill(off) ==
  /\ buf' = [buf EXCEPT ![off] = TagCell]
  /\ pending' = psize /\ ppc' = "commit"
  /\ UNCHANGED <<head, psize, seenTail, sent, consumerVars>>
\* The tag byte, written where the frame will be; the caller gets the address
\* behind it.
WriteTag(off) ==
  /\ buf' = [buf EXCEPT ![off] = TagCell]
  /\ pending' = psize /\ ppc' = "fill"
  /\ UNCHANGED <<head, psize, seenTail, sent, consumerVars>>

\* The common end of reserve when no padding was needed.
Reserve ==
  /\ ppc = "check" /\ ~NeedsPad(psize) /\ Free(seenTail) >= RoomFor(psize)
  /\ WriteTag(Phys(head))

\* The common end of reserve after padding, where off is 0.
Recheck ==
  /\ ppc = "recheck"
  /\ IF Free(seenTail) < Need(psize)
     THEN /\ ppc' = "load"
          /\ UNCHANGED <<head, pending, psize, seenTail, sent, consumerVars, buf>>
     ELSE WriteTag(0)

\* The event log_event is writing.
Outgoing == [id |-> Len(sent) + 1, size |-> psize]

\* log_event copies the header and the program counters behind the tag.
Fill ==
  /\ ppc = "fill"
  /\ buf' = [i \in DOMAIN buf |->
               IF i \in (Phys(head) + 1)..(Phys(head) + psize)
               THEN PayCell(Outgoing, i - Phys(head)) ELSE buf[i]]
  /\ ppc' = "commit"
  /\ UNCHANGED <<head, pending, psize, seenTail, sent, consumerVars>>

\* The committed frame becomes visible to the consumer.
Commit ==
  /\ ppc = "commit"
  /\ head' = head + 1 + pending /\ pending' = 0
  /\ sent' = Append(sent, Outgoing)
  /\ ppc' = "idle"
  /\ UNCHANGED <<psize, seenTail, consumerVars, buf>>
-----------------------------------------------------------------------------
(* The consumer.                                                           *)

\* What a memcpy reads at physical offset i; past the end there is no ring.
ByteAt(i) == IF i \in DOMAIN buf THEN buf[i] ELSE Junk

\* The first n payload bytes behind the tag at tail are those of event e.
PeeksAt(e, n) == \A i \in 1..n : ByteAt(Phys(tail + 1) + i - 1) = PayCell(e, i)

\* peek_payload: the event the first n bytes describe, or no event at all.
PeekPayload(n) == LET e == ByteAt(Phys(tail + 1)).event
                  IN  IF PeeksAt(e, n) THEN e ELSE Torn

\* peek_tag sees a padding tag.
PeekSkip ==
  /\ cpc = "peek" /\ Readable # 0 /\ buf[Phys(tail)] = SkipCell
  /\ cpc' = "skip"
  /\ UNCHANGED <<tail, hdr, got, received, producerVars, buf>>

\* Fault: tail_ is not moved.
SkipPaddingStays ==
  /\ cpc = "skip"
  /\ cpc' = "peek"
  /\ UNCHANGED <<tail, hdr, got, received, producerVars, buf>>
\* skip_padding.
SkipPadding ==
  /\ cpc = "skip"
  /\ tail' = tail + 1 /\ cpc' = "peek"
  /\ UNCHANGED <<hdr, got, received, producerVars, buf>>

\* peek_tag sees an event.  Any other byte, and an empty ring, make
\* process_one_event return without a change.
PeekEvent ==
  /\ cpc = "peek" /\ Readable # 0 /\ buf[Phys(tail)] = TagCell
  /\ cpc' = "header"
  /\ UNCHANGED <<tail, hdr, got, received, producerVars, buf>>

\* The header is peeked at if there are bytes enough for one.
ReadHeader ==
  /\ cpc = "header"
  /\ IF Readable < Need(HdrSize)
     THEN cpc' = "peek" /\ UNCHANGED hdr
     ELSE cpc' = "payload" /\ hdr' = PeekPayload(HdrSize)
  /\ UNCHANGED <<tail, got, received, producerVars, buf>>

\* Fault: tail_ also passes the tag of the next frame.
ConsumeEventOverruns ==
  /\ tail' = tail + 2 + hdr.size /\ cpc' = "peek"
  /\ UNCHANGED <<hdr, got, producerVars, buf>>
\* consume_event: tail_ passes the frame.
ConsumeEvent ==
  /\ tail' = tail + 1 + hdr.size /\ cpc' = "peek"
  /\ UNCHANGED <<hdr, got, producerVars, buf>>

\* Fault: a frame that ends at head_ is taken for an unfinished one.
FrameCompleteStrict == Readable > Need(hdr.size)
\* All bytes of the frame the header announces are published.
FrameComplete == Readable >= Need(hdr.size)

\* The frame the header announces is copied out if it is all there and not
\* absurdly long; a long one is discarded as damaged.
ReadPayload ==
  /\ cpc = "payload"
  /\ IF ~FrameComplete
     THEN cpc' = "peek" /\ UNCHANGED <<tail, hdr, got, received, producerVars, buf>>
     ELSE IF hdr.size > MaxPayload
     THEN ConsumeEvent /\ UNCHANGED received
     ELSE /\ cpc' = "consume" /\ got' = PeekPayload(hdr.size)
          /\ UNCHANGED <<tail, hdr, received, producerVars, buf>>

\* tail_ moves on and the event is formatted and written.
Consume ==
  /\ cpc = "consume"
  /\ ConsumeEvent
  /\ received' = Append(received, got)
-----------------------------------------------------------------------------
Producer == \/ \E n \in PayloadSizes : Request(n)
            \/ LoadTail \/ Full \/ Pad \/ PublishPad \/ ReloadTail
            \/ Reserve \/ Recheck \/ Fill \/ Commit
Consumer == PeekSkip \/ SkipPadding \/ PeekEvent \/ ReadHeader
            \/ ReadPayload \/ Consume

Next == Producer \/ Consumer

\* Both threads are scheduled.  A thread need not log again: only what
\* follows a Request is promised to happen.
LogEvent == Producer /\ ppc # "idle"
Fairness == WF_vars(LogEvent) /\ WF_vars(Consumer)
Spec == Init /\ [][Next]_vars /\ Fairness
-----------------------------------------------------------------------------
(* Correctness.                                                            *)

TypeOK ==
  /\ head \in Nat /\ tail \in Nat /\ tail <= head /\ head - tail <= Capacity
  /\ buf \in [0..(Capacity - 1) -> Cell]
  /\ pending \in PayloadSizes \cup {0}
  /\ ppc \in {"idle", "load", "check", "publish", "reload", "recheck", "fill", "commit"}
  /\ psize \in PayloadSizes \cup {0}
  /\ seenTail \in Nat /\ seenTail <= tail
  /\ cpc \in {"peek", "skip", "header", "payload", "consume"}
  /\ hdr \in Event /\ got \in Event
  /\ sent \in Seq(Event) /\ received \in Seq(Event)

\* A whole frame begins at offset p: its tag, and behind it, without a break
\* at the physical end, every byte of one event, all of them published.
FrameAt(p) ==
  LET e == ByteAt(Phys(p) + 1).event
  IN  /\ buf[Phys(p)] = TagCell
      /\ e.size \in PayloadSizes
      /\ Phys(p) + e.size < Capacity
      /\ p + Need(e.size) <= head
      /\ \A i \in 1..e.size : buf[Phys(p) + i] = PayCell(e, i)

\* Offset p lies in a run of padding that reaches the physical end and is
\* published to its last byte.
PaddingAt(p) ==
  /\ Boundary(p) <= head
  /\ \A i \in Phys(p)..(Capacity - 1) : buf[i] = SkipCell

\* Where the frame that follows offset p begins, past the padding if any.
NextFrame(p) == IF p < head /\ buf[Phys(p)] = SkipCell THEN Boundary(p) ELSE p

\* The bytes from p on are the frame of event number n, or nothing if only
\* n - 1 events have been committed.
Expects(p, n) ==
  LET q == NextFrame(p)
  IN  IF q = head THEN Len(sent) = n - 1
      ELSE /\ q < head /\ FrameAt(q)
           /\ n \in 1..Len(sent) /\ buf[Phys(q) + 1].event = sent[n]

\* Offset p, if a frame or a byte of padding begins there, is well-formed up
\* to and including the frame that follows.
ParsesAt(p) ==
  /\ buf[Phys(p)] = SkipCell => PaddingAt(p)
  /\ buf[Phys(p)] = TagCell =>
       /\ FrameAt(p)
       /\ \E e \in {buf[Phys(p) + 1].event} : Expects(p + Need(e.size), e.id + 1)

\* The unread bytes always parse: a consumer that enters at tail finds
\* padding or the frame of the next event it has not taken, and behind every
\* frame the next one.  It never sees half a frame (backend.cpp skips one as
\* "not written yet") nor a frame that crosses the physical end.
StreamParses ==
  /\ Expects(tail, Len(received) + 1)
  /\ \A p \in tail..(head - 1) : ParsesAt(p)

\* After padding, the space left is always enough for the frame: the second
\* test of reserve cannot fail, so padding is never followed by padding.
RecheckSucceeds == ppc = "recheck" => Free(seenTail) >= Need(psize)

\* The two "not all there yet" exits of process_one_event and its damaged
\* frame exit are never taken: one store of head_ publishes a whole frame.
NeverPartial ==
  /\ cpc \in {"header", "payload", "consume"} => Readable >= Need(HdrSize)
  /\ cpc \in {"payload", "consume"} => FrameComplete /\ hdr.size <= MaxPayload

\* The producer never writes a byte that is published and unread.
UnreadUntouched ==
  [][\A p \in tail..(head - 1) : buf'[Phys(p)] = buf[Phys(p)]]_vars

\* The ring implements a first-in first-out channel of events.
Queue == INSTANCE EventQueue
RingIsQueue == Queue!SafeSpec

\* Every committed event is taken out in the end.
EventuallyDelivered ==
  \A n \in 1..MaxEvents : Len(sent) >= n ~> Len(received) >= n

\* A thread that spins in log_event because its ring is full gets its space.
ReserveSucceeds == ppc = "load" ~> ppc = "fill"
=============================================================================
