------------------------------ MODULE SendQueue ------------------------------
(***************************************************************************)
(* The backpressure queue between the hub and an agent's byte stream       *)
(* (packages/hub/src/session/send-queue.ts).  A write that returns false   *)
(* has accepted its frame and asks the writer to wait for 'drain'; until   *)
(* then frames are queued, and the oldest is dropped when the queue is at  *)
(* MAX_QUEUE_SIZE.  Frames are numbered in the order of the send() calls.  *)
(***************************************************************************)
EXTENDS Integers, Sequences

CONSTANTS
  MaxQueueSize,  \* MAX_QUEUE_SIZE
  MaxFrames      \* bound: how many frames a behaviour sends

ASSUME SendQueueAssumption == MaxQueueSize \in Nat \ {0} /\ MaxFrames \in Nat

VARIABLES
  queue,      \* frames waiting for 'drain'
  draining,   \* the queue is in backpressure mode
  stream,     \* "detached", "open" or "cleared" (this.stream is null unless open)
  submitted,  \* number of frames passed to send() while a stream was attached
  wire,       \* frames the stream accepted, oldest first
  needDrain   \* the stream owes a 'drain' event

vars == <<queue, draining, stream, submitted, wire, needDrain>>

Init ==
  /\ queue = << >> /\ draining = FALSE /\ stream = "detached"
  /\ submitted = 0 /\ wire = << >> /\ needDrain = FALSE

\* attach(): adopt the stream and listen to its 'drain' event.
Attach ==
  /\ stream = "detached"
  /\ stream' = "open"
  /\ UNCHANGED <<queue, draining, submitted, wire, needDrain>>

\* enqueue(): drop the oldest frame when the queue is full, then append.
Enqueue(q, f) == Append(IF Len(q) >= MaxQueueSize THEN Tail(q) ELSE q, f)

\* send() under backpressure.
SendQueued ==
  /\ stream = "open" /\ draining /\ submitted < MaxFrames
  /\ submitted' = submitted + 1
  /\ queue' = Enqueue(queue, submitted + 1)
  /\ UNCHANGED <<draining, stream, wire, needDrain>>

\* Mutant: send() without its backpressure test overtakes the queued frames.
SendDirectAlways ==
  /\ stream = "open" /\ submitted < MaxFrames
  /\ submitted' = submitted + 1
  /\ wire' = Append(wire, submitted + 1)
  /\ \E ok \in BOOLEAN : draining' = ~ok /\ needDrain' = (needDrain \/ ~ok)
  /\ UNCHANGED <<queue, stream>>

\* send() with the stream ready: write at once; a false result starts draining.
SendDirect ==
  /\ stream = "open" /\ ~draining /\ submitted < MaxFrames
  /\ submitted' = submitted + 1
  /\ wire' = Append(wire, submitted + 1)
  /\ \E ok \in BOOLEAN : draining' = ~ok /\ needDrain' = (needDrain \/ ~ok)
  /\ UNCHANGED <<queue, stream>>

\* Mutant: flush() writes one frame per 'drain' and waits for another event
\* even when the stream accepted it without backpressure.
FlushOne ==
  /\ needDrain /\ stream = "open"
  /\ \E n \in 0..1, ok \in BOOLEAN :
       /\ n <= Len(queue)
       /\ (n = 0) = (queue = << >>)
       /\ ~ok => n > 0
       /\ wire' = wire \o SubSeq(queue, 1, n)
       /\ queue' = SubSeq(queue, n + 1, Len(queue))
       /\ draining' = (n > 0)
       /\ needDrain' = ~ok
  /\ UNCHANGED <<stream, submitted>>

\* flush() on 'drain': write until a write returns false or the queue is empty.
\* n frames are written; the last of them may be the one that returned false.
Flush ==
  /\ needDrain /\ stream = "open"
  /\ \E n \in 0..Len(queue), ok \in BOOLEAN :
       /\ ok => n = Len(queue)
       /\ ~ok => n > 0
       /\ wire' = wire \o SubSeq(queue, 1, n)
       /\ queue' = SubSeq(queue, n + 1, Len(queue))
       /\ draining' = ~ok
       /\ needDrain' = ~ok
  /\ UNCHANGED <<stream, submitted>>

\* A 'drain' that arrives after clear(): the listener is still wired, the queue
\* is empty and flush() only resets the flag.
LateDrain ==
  /\ needDrain /\ stream = "cleared"
  /\ needDrain' = FALSE /\ draining' = FALSE
  /\ UNCHANGED <<queue, stream, submitted, wire>>

\* clear(): the connection closed; queued frames are discarded.
Clear ==
  /\ stream # "cleared"
  /\ queue' = << >> /\ draining' = FALSE /\ stream' = "cleared"
  /\ UNCHANGED <<submitted, wire, needDrain>>

Next == Attach \/ SendQueued \/ SendDirect \/ Flush \/ LateDrain \/ Clear

\* Node emits 'drain' once the buffer behind a refused write is empty.
Spec == Init /\ [][Next]_vars /\ WF_vars(Flush)

-----------------------------------------------------------------------------
TypeOK ==
  /\ queue \in Seq(1..submitted) /\ wire \in Seq(1..submitted)
  /\ draining \in BOOLEAN /\ needDrain \in BOOLEAN
  /\ stream \in {"detached", "open", "cleared"}
  /\ submitted \in Nat

\* The frames written, followed by the frames still queued, are in submission
\* order without duplicates, whatever was dropped in between: a drop takes the
\* oldest queued frame and a flush never overtakes (enqueue, flush, send).
OrderKept ==
  /\ \A i, j \in 1..Len(wire) : i < j => wire[i] < wire[j]
  /\ \A i, j \in 1..Len(queue) : i < j => queue[i] < queue[j]
  /\ \A i \in 1..Len(wire), j \in 1..Len(queue) : wire[i] < queue[j]

\* Frames wait only while the queue is draining, the queue is draining only
\* while a 'drain' event is owed, and the queue never exceeds its cap: no frame
\* is stranded by a flush that stopped early (flush, send).
NoStranding ==
  /\ queue # << >> => draining
  /\ draining => needDrain
  /\ Len(queue) <= MaxQueueSize

\* While the stream stays open the queue is always emptied again.
EventuallyWritten ==
  \A f \in 1..MaxFrames :
    (\E i \in DOMAIN queue : queue[i] = f) ~> ~(\E i \in DOMAIN queue : queue[i] = f)

Abstract == INSTANCE OrderedLossyChannel WITH delivered <- wire

\* The queue implements an order-preserving lossy channel.
ImplementsChannel == Abstract!Spec
=============================================================================
