--------------------------- MODULE SendQueueProofs ---------------------------
(***************************************************************************)
(* Proofs about SendQueue, for every queue bound and any number of frames. *)
(* The type invariant, the order of frames, the no-stranding invariant and *)
(* the emptiness of a queue without a stream are inductive together, and   *)
(* every step is then a step of OrderedLossyChannel.                       *)
(***************************************************************************)
EXTENDS SendQueue, SequenceTheorems, TLAPS

\* A queue without a stream holds no frame: a late 'drain' finds nothing to lose.
ClosedIsEmpty == stream # "open" => queue = << >>

\* The inductive invariant behind the theorems of this module.
QueueInv == TypeOK /\ OrderKept /\ NoStranding /\ ClosedIsEmpty

-----------------------------------------------------------------------------
\* Elements of the two sequences are numbers of submitted frames.
LEMMA FrameNumbers ==
  ASSUME TypeOK
  PROVE  /\ Len(queue) \in Nat /\ Len(wire) \in Nat
         /\ \A i \in 1..Len(queue) : queue[i] \in 1..submitted
         /\ \A i \in 1..Len(wire) : wire[i] \in 1..submitted
BY ElementOfSeq, LenProperties DEF TypeOK

\* enqueue() drops at most one frame, the oldest, and appends.
LEMMA EnqueueFacts ==
  ASSUME NEW n \in Nat, NEW q \in Seq(1..n), Len(q) <= MaxQueueSize
  PROVE  /\ Enqueue(q, n + 1) \in Seq(1..(n + 1))
         /\ Len(Enqueue(q, n + 1)) <= MaxQueueSize
         /\ \E d \in {0, 1} :
              /\ d <= Len(q)
              /\ Len(Enqueue(q, n + 1)) = Len(q) - d + 1
              /\ \A i \in 1..(Len(q) - d) : Enqueue(q, n + 1)[i] = q[i + d]
              /\ Enqueue(q, n + 1)[Len(q) - d + 1] = n + 1
<1> DEFINE T == 1..(n + 1)
<1>1. q \in Seq(T) /\ Len(q) \in Nat /\ n + 1 \in T
  BY SeqMonotonic, LenProperties
<1>2. CASE Len(q) >= MaxQueueSize
  <2>1. q # << >>
    BY <1>2, EmptySeq, SendQueueAssumption
  <2>2. /\ Tail(q) \in Seq(T) /\ Len(Tail(q)) = Len(q) - 1
        /\ \A i \in 1..Len(Tail(q)) : Tail(q)[i] = q[i + 1]
    BY <1>1, <2>1, HeadTailProperties
  <2>3. Enqueue(q, n + 1) = Append(Tail(q), n + 1)
    BY <1>2 DEF Enqueue
  <2>4. /\ Append(Tail(q), n + 1) \in Seq(T)
        /\ Len(Append(Tail(q), n + 1)) = Len(Tail(q)) + 1
        /\ \A i \in 1..Len(Tail(q)) : Append(Tail(q), n + 1)[i] = Tail(q)[i]
        /\ Append(Tail(q), n + 1)[Len(Tail(q)) + 1] = n + 1
    BY <1>1, <2>2, AppendProperties
  <2>5. 1 <= Len(q)
    BY <1>1, <1>2, SendQueueAssumption
  <2> HIDE DEF T
  <2>6. /\ 1 <= Len(q)
        /\ Len(Enqueue(q, n + 1)) = Len(q) - 1 + 1
        /\ \A i \in 1..(Len(q) - 1) : Enqueue(q, n + 1)[i] = q[i + 1]
        /\ Enqueue(q, n + 1)[Len(q) - 1 + 1] = n + 1
    BY <1>1, <2>2, <2>3, <2>4, <2>5
  <2>7. Enqueue(q, n + 1) \in Seq(1..(n + 1))
    BY <2>3, <2>4 DEF T
  <2>8. Len(Enqueue(q, n + 1)) <= MaxQueueSize
    BY <1>1, <2>6, SendQueueAssumption
  <2>9. QED
    BY <2>6, <2>7, <2>8
<1>3. CASE Len(q) < MaxQueueSize
  <2>1. Enqueue(q, n + 1) = Append(q, n + 1)
    BY <1>1, <1>3, SendQueueAssumption DEF Enqueue
  <2>2. /\ Append(q, n + 1) \in Seq(T)
        /\ Len(Append(q, n + 1)) = Len(q) + 1
        /\ \A i \in 1..Len(q) : Append(q, n + 1)[i] = q[i]
        /\ Append(q, n + 1)[Len(q) + 1] = n + 1
    BY <1>1, AppendProperties
  <2> HIDE DEF T
  <2>3. /\ 0 <= Len(q)
        /\ Len(Enqueue(q, n + 1)) = Len(q) - 0 + 1
        /\ \A i \in 1..(Len(q) - 0) : Enqueue(q, n + 1)[i] = q[i + 0]
        /\ Enqueue(q, n + 1)[Len(q) - 0 + 1] = n + 1
    BY <1>1, <2>1, <2>2
  <2>4. Enqueue(q, n + 1) \in Seq(1..(n + 1))
    BY <2>1, <2>2 DEF T
  <2>5. Len(Enqueue(q, n + 1)) <= MaxQueueSize
    BY <1>1, <1>3, <2>3, SendQueueAssumption
  <2>6. QED
    BY <2>3, <2>4, <2>5
<1>4. QED
  BY <1>1, <1>2, <1>3, SendQueueAssumption

\* The n oldest frames of the queue go to the wire, the others stay.
LEMMA FlushFacts ==
  ASSUME TypeOK, NEW n \in 0..Len(queue),
         wire' = wire \o SubSeq(queue, 1, n),
         queue' = SubSeq(queue, n + 1, Len(queue))
  PROVE  /\ queue' \in Seq(1..submitted) /\ Len(queue') = Len(queue) - n
         /\ \A i \in 1..Len(queue') : queue'[i] = queue[i + n]
         /\ wire' \in Seq(1..submitted) /\ Len(wire') = Len(wire) + n
         /\ \A i \in 1..Len(wire) : wire'[i] = wire[i]
         /\ \A i \in (Len(wire) + 1)..Len(wire') : wire'[i] = queue[i - Len(wire)]
<1> DEFINE S == 1..submitted
           p == SubSeq(queue, 1, n)
<1>1. /\ queue \in Seq(S) /\ wire \in Seq(S) /\ Len(queue) \in Nat /\ Len(wire) \in Nat
      /\ \A i \in 1..Len(queue) : queue[i] \in S
  BY FrameNumbers DEF TypeOK
<1> HIDE DEF S
<1>2. /\ queue' \in Seq(S)
      /\ Len(queue') = IF n + 1 <= Len(queue) THEN Len(queue) - (n + 1) + 1 ELSE 0
      /\ \A i \in 1..(Len(queue) - (n + 1) + 1) : queue'[i] = queue[n + 1 + i - 1]
  <2>1. \A i \in (n + 1)..Len(queue) : queue[i] \in S
    BY <1>1
  <2>2. n + 1 \in Int /\ Len(queue) \in Int
    BY <1>1
  <2>3. QED
    BY <2>1, <2>2, SubSeqProperties
<1>3. p \in Seq(S) /\ Len(p) = n /\ \A i \in 1..n : p[i] = queue[i]
  <2>1. \A i \in 1..n : queue[i] \in S
    BY <1>1
  <2>2. /\ p \in Seq(S) /\ Len(p) = IF 1 <= n THEN n - 1 + 1 ELSE 0
        /\ \A i \in 1..(n - 1 + 1) : p[i] = queue[1 + i - 1]
    BY <2>1, SubSeqProperties
  <2> HIDE DEF p
  <2>3. QED
    BY <1>1, <2>2
<1> HIDE DEF p
<1>4. /\ wire' \in Seq(S) /\ Len(wire') = Len(wire) + Len(p)
      /\ \A i \in 1..(Len(wire) + Len(p)) :
           wire'[i] = IF i <= Len(wire) THEN wire[i] ELSE p[i - Len(wire)]
  BY <1>1, <1>3, ConcatProperties DEF p
<1>5. /\ Len(queue') = Len(queue) - n
      /\ \A i \in 1..Len(queue') : queue'[i] = queue[i + n]
  BY <1>1, <1>2
<1>6. /\ Len(wire') = Len(wire) + n
      /\ \A i \in 1..Len(wire) : wire'[i] = wire[i]
      /\ \A i \in (Len(wire) + 1)..Len(wire') : wire'[i] = queue[i - Len(wire)]
  BY <1>1, <1>3, <1>4
<1>7. QED
  BY <1>2, <1>4, <1>5, <1>6 DEF S

-----------------------------------------------------------------------------
\* A new queue is empty.
LEMMA QueueInit == Init => QueueInv
<1> SUFFICES ASSUME Init PROVE QueueInv
  OBVIOUS
<1>1. queue = << >> /\ wire = << >> /\ Len(queue) = 0 /\ Len(wire) = 0
  BY DEF Init
<1>2. TypeOK
  BY <1>1, EmptySeq DEF Init, TypeOK
<1>3. OrderKept
  BY <1>1 DEF OrderKept
<1>4. NoStranding
  BY <1>1, SendQueueAssumption DEF Init, NoStranding
<1>5. QED
  BY <1>1, <1>2, <1>3, <1>4 DEF QueueInv, ClosedIsEmpty

\* Every step of the queue keeps the invariant.
LEMMA QueueStep == QueueInv /\ [Next]_vars => QueueInv'
<1> SUFFICES ASSUME QueueInv, [Next]_vars PROVE QueueInv'
  OBVIOUS
<1>0. /\ TypeOK /\ OrderKept /\ NoStranding /\ ClosedIsEmpty
      /\ Len(queue) \in Nat /\ Len(wire) \in Nat /\ submitted \in Nat
      /\ \A i \in 1..Len(queue) : queue[i] \in 1..submitted
      /\ \A i \in 1..Len(wire) : wire[i] \in 1..submitted
  BY FrameNumbers DEF QueueInv, TypeOK
<1>1. CASE Attach
  BY <1>0, <1>1 DEF Attach, QueueInv, TypeOK, OrderKept, NoStranding, ClosedIsEmpty
<1>2. CASE SendQueued
  <2>1. submitted' = submitted + 1 /\ UNCHANGED <<draining, stream, wire, needDrain>> /\ draining /\ stream = "open"
    BY <1>2 DEF SendQueued
  <2>2. PICK d \in {0, 1} :
          /\ d <= Len(queue)
          /\ Len(queue') = Len(queue) - d + 1
          /\ \A i \in 1..(Len(queue) - d) : queue'[i] = queue[i + d]
          /\ queue'[Len(queue) - d + 1] = submitted + 1
    BY <1>0, <1>2, EnqueueFacts DEF SendQueued, TypeOK, NoStranding
  <2>3. queue' \in Seq(1..submitted') /\ Len(queue') <= MaxQueueSize
    BY <1>0, <1>2, EnqueueFacts DEF SendQueued, TypeOK, NoStranding
  <2>4. wire' \in Seq(1..submitted')
    <3>1. 1..submitted \subseteq 1..submitted'
      BY <1>0, <2>1
    <3>2. QED
      BY <1>0, <2>1, <3>1, SeqMonotonic DEF TypeOK
  <2>5. TypeOK'
    BY <1>0, <2>1, <2>3, <2>4 DEF TypeOK
  <2>6. NoStranding'
    BY <1>0, <2>1, <2>3 DEF NoStranding
  <2>7. \A i \in 1..Len(queue') :
          \/ i <= Len(queue) - d /\ i + d \in 1..Len(queue) /\ queue'[i] = queue[i + d]
          \/ i = Len(queue) - d + 1 /\ queue'[i] = submitted + 1
    BY <1>0, <2>2
  <2>8. \A i, j \in 1..Len(queue') : i < j => queue'[i] < queue'[j]
    <3> SUFFICES ASSUME NEW i \in 1..Len(queue'), NEW j \in 1..Len(queue'), i < j
                 PROVE  queue'[i] < queue'[j]
      OBVIOUS
    <3>1. i <= Len(queue) - d /\ i + d \in 1..Len(queue) /\ queue'[i] = queue[i + d]
      BY <1>0, <2>2, <2>7
    <3>2. CASE j <= Len(queue) - d
      <4>1. j + d \in 1..Len(queue) /\ queue'[j] = queue[j + d] /\ i + d < j + d
        BY <1>0, <2>2, <2>7, <3>2
      <4>2. QED
        BY <1>0, <3>1, <4>1 DEF OrderKept
    <3>3. CASE j = Len(queue) - d + 1
      BY <1>0, <2>2, <3>1, <3>3
    <3>4. QED
      BY <2>7, <3>2, <3>3
  <2>9. \A i \in 1..Len(wire), j \in 1..Len(queue') : wire[i] < queue'[j]
    <3> SUFFICES ASSUME NEW i \in 1..Len(wire), NEW j \in 1..Len(queue') PROVE wire[i] < queue'[j]
      OBVIOUS
    <3>1. wire[i] \in 1..submitted
      BY <1>0
    <3>2. CASE j + d \in 1..Len(queue) /\ queue'[j] = queue[j + d]
      BY <1>0, <3>2 DEF OrderKept
    <3>3. CASE queue'[j] = submitted + 1
      BY <1>0, <3>1, <3>3
    <3>4. QED
      BY <2>7, <3>2, <3>3
  <2>10. OrderKept'
    BY <1>0, <2>1, <2>8, <2>9 DEF OrderKept
  <2>11. QED
    BY <2>1, <2>5, <2>6, <2>10 DEF QueueInv, ClosedIsEmpty
<1>3. CASE SendDirect
  <2>1. queue = << >> /\ queue' = << >> /\ Len(queue') = 0
    BY <1>0, <1>3 DEF SendDirect, NoStranding
  <2>2. submitted' = submitted + 1 /\ wire' = Append(wire, submitted + 1) /\ stream' = stream
    BY <1>3 DEF SendDirect
  <2>3. wire \in Seq(1..submitted') /\ submitted + 1 \in 1..submitted'
    <3>1. 1..submitted \subseteq 1..submitted'
      BY <1>0, <2>2
    <3>2. QED
      BY <1>0, <2>2, <3>1, SeqMonotonic DEF TypeOK
  <2>4. /\ wire' \in Seq(1..submitted') /\ Len(wire') = Len(wire) + 1
        /\ \A i \in 1..Len(wire) : wire'[i] = wire[i]
        /\ wire'[Len(wire) + 1] = submitted + 1
    BY <2>2, <2>3, AppendProperties
  <2>5. TypeOK'
    BY <1>0, <1>3, <2>1, <2>2, <2>4, EmptySeq DEF SendDirect, TypeOK
  <2>6. \A i, j \in 1..Len(wire') : i < j => wire'[i] < wire'[j]
    <3> SUFFICES ASSUME NEW i \in 1..Len(wire'), NEW j \in 1..Len(wire'), i < j
                 PROVE  wire'[i] < wire'[j]
      OBVIOUS
    <3>1. i \in 1..Len(wire) /\ wire'[i] = wire[i] /\ wire[i] \in 1..submitted
      BY <1>0, <2>4
    <3>2. CASE j \in 1..Len(wire)
      BY <1>0, <2>4, <3>1, <3>2 DEF OrderKept
    <3>3. CASE j = Len(wire) + 1
      BY <1>0, <2>4, <3>1, <3>3
    <3>4. j \in 1..Len(wire) \/ j = Len(wire) + 1
      <4>1. Len(wire') = Len(wire) + 1
        BY <2>4
      <4>2. Len(wire) \in Nat
        BY <1>0
      <4>3. QED
        BY <4>1, <4>2
    <3>5. QED
      BY <3>2, <3>3, <3>4
  <2>7. OrderKept'
    BY <2>1, <2>6 DEF OrderKept
  <2>8. NoStranding'
    BY <1>0, <1>3, <2>1, SendQueueAssumption DEF SendDirect, NoStranding
  <2>9. QED
    BY <2>1, <2>5, <2>7, <2>8 DEF QueueInv, ClosedIsEmpty
<1>4. CASE Flush
  <2>1. PICK n \in 0..Len(queue), ok \in BOOLEAN :
          /\ ok => n = Len(queue)
          /\ ~ok => n > 0
          /\ wire' = wire \o SubSeq(queue, 1, n)
          /\ queue' = SubSeq(queue, n + 1, Len(queue))
          /\ draining' = ~ok
          /\ needDrain' = ~ok
    BY <1>4 DEF Flush
  <2>2. /\ queue' \in Seq(1..submitted) /\ Len(queue') = Len(queue) - n
        /\ \A i \in 1..Len(queue') : queue'[i] = queue[i + n]
        /\ wire' \in Seq(1..submitted) /\ Len(wire') = Len(wire) + n
        /\ \A i \in 1..Len(wire) : wire'[i] = wire[i]
        /\ \A i \in (Len(wire) + 1)..Len(wire') : wire'[i] = queue[i - Len(wire)]
    BY <1>0, <2>1, FlushFacts
  <2>3. submitted' = submitted /\ stream' = stream /\ stream = "open"
    BY <1>4 DEF Flush
  <2>4. TypeOK'
    BY <1>0, <2>1, <2>2, <2>3 DEF TypeOK
  <2>5. \A i, j \in 1..Len(wire') : i < j => wire'[i] < wire'[j]
    <3> SUFFICES ASSUME NEW i \in 1..Len(wire'), NEW j \in 1..Len(wire'), i < j
                 PROVE  wire'[i] < wire'[j]
      OBVIOUS
    <3>0. Len(wire') = Len(wire) + n /\ n \in 0..Len(queue) /\ Len(wire') \in Nat
      BY <1>0, <2>2
    <3>1. CASE j \in 1..Len(wire)
      <4>1. i \in 1..Len(wire)
        BY <1>0, <3>0, <3>1
      <4>2. wire'[i] = wire[i] /\ wire'[j] = wire[j]
        BY <2>2, <3>1, <4>1
      <4>3. QED
        BY <1>0, <3>1, <4>1, <4>2 DEF OrderKept
    <3>2. CASE i \in 1..Len(wire) /\ j \notin 1..Len(wire)
      <4>1. j \in (Len(wire) + 1)..Len(wire') /\ j - Len(wire) \in 1..Len(queue)
        BY <1>0, <3>0, <3>2
      <4>2. wire'[i] = wire[i] /\ wire'[j] = queue[j - Len(wire)]
        BY <2>2, <3>2, <4>1
      <4>3. QED
        BY <1>0, <3>2, <4>1, <4>2 DEF OrderKept
    <3>3. CASE i \notin 1..Len(wire)
      <4>1. /\ i \in (Len(wire) + 1)..Len(wire') /\ i - Len(wire) \in 1..Len(queue)
            /\ j \in (Len(wire) + 1)..Len(wire') /\ j - Len(wire) \in 1..Len(queue)
            /\ i - Len(wire) < j - Len(wire)
        BY <1>0, <3>0, <3>3
      <4>2. wire'[i] = queue[i - Len(wire)] /\ wire'[j] = queue[j - Len(wire)]
        BY <2>2, <4>1
      <4>3. QED
        BY <1>0, <4>1, <4>2 DEF OrderKept
    <3>4. QED
      BY <3>1, <3>2, <3>3
  <2>6. \A i, j \in 1..Len(queue') : i < j => queue'[i] < queue'[j]
    <3> SUFFICES ASSUME NEW i \in 1..Len(queue'), NEW j \in 1..Len(queue'), i < j
                 PROVE  queue'[i] < queue'[j]
      OBVIOUS
    <3>1. i + n \in 1..Len(queue) /\ j + n \in 1..Len(queue) /\ i + n < j + n
      BY <1>0, <2>2
    <3>2. QED
      BY <1>0, <2>2, <3>1 DEF OrderKept
  <2>7. \A i \in 1..Len(wire'), j \in 1..Len(queue') : wire'[i] < queue'[j]
    <3> SUFFICES ASSUME NEW i \in 1..Len(wire'), NEW j \in 1..Len(queue')
                 PROVE  wire'[i] < queue'[j]
      OBVIOUS
    <3>1. queue'[j] = queue[j + n] /\ j + n \in 1..Len(queue)
      BY <1>0, <2>2
    <3>2. CASE i \in 1..Len(wire)
      BY <1>0, <2>2, <3>1, <3>2 DEF OrderKept
    <3>3. CASE i \notin 1..Len(wire)
      <4>1. /\ Len(wire) \in Nat /\ Len(queue) \in Nat
            /\ Len(wire') = Len(wire) + n /\ Len(queue') = Len(queue) - n
        BY <1>0, <2>2
      <4>2. /\ i \in (Len(wire) + 1)..Len(wire') /\ i - Len(wire) \in 1..Len(queue)
            /\ i - Len(wire) < j + n
        BY <3>3, <4>1
      <4>3. wire'[i] = queue[i - Len(wire)]
        BY <2>2, <4>2
      <4>4. QED
        BY <1>0, <3>1, <4>2, <4>3 DEF OrderKept
    <3>4. QED
      BY <3>2, <3>3
  <2>8. OrderKept'
    BY <2>5, <2>6, <2>7 DEF OrderKept
  <2>9. ok => queue' = << >>
    <3>1. ok => Len(queue') = 0
      BY <1>0, <2>1, <2>2
    <3>2. QED
      BY <2>2, <3>1, EmptySeq
  <2>10. Len(queue') <= MaxQueueSize
    BY <1>0, <2>1, <2>2, SendQueueAssumption DEF NoStranding
  <2>11. NoStranding'
    BY <2>1, <2>9, <2>10 DEF NoStranding
  <2>12. QED
    BY <2>3, <2>4, <2>8, <2>11 DEF QueueInv, ClosedIsEmpty
<1>5. CASE LateDrain
  <2>1. queue = << >> /\ UNCHANGED <<queue, stream, submitted, wire>>
    BY <1>0, <1>5 DEF LateDrain, ClosedIsEmpty
  <2>2. TypeOK' /\ OrderKept'
    BY <1>0, <1>5, <2>1 DEF LateDrain, TypeOK, OrderKept
  <2>3. NoStranding'
    BY <1>0, <1>5, <2>1 DEF LateDrain, NoStranding
  <2>4. QED
    BY <2>1, <2>2, <2>3 DEF QueueInv, ClosedIsEmpty
<1>6. CASE Clear
  <2>1. /\ queue' = << >> /\ Len(queue') = 0 /\ draining' = FALSE /\ stream' = "cleared"
        /\ UNCHANGED <<submitted, wire, needDrain>>
    BY <1>6 DEF Clear
  <2>2. TypeOK'
    BY <1>0, <2>1, EmptySeq DEF TypeOK
  <2>3. OrderKept'
    BY <1>0, <2>1 DEF OrderKept
  <2>4. NoStranding'
    BY <2>1, SendQueueAssumption DEF NoStranding
  <2>5. QED
    BY <2>1, <2>2, <2>3, <2>4 DEF QueueInv, ClosedIsEmpty
<1>7. CASE UNCHANGED vars
  BY <1>0, <1>7 DEF vars, QueueInv, TypeOK, OrderKept, NoStranding, ClosedIsEmpty
<1>8. QED
  BY <1>1, <1>2, <1>3, <1>4, <1>5, <1>6, <1>7 DEF Next

\* The invariant holds in every behaviour, whatever the scheduling.
LEMMA QueueInvariant == Spec => []QueueInv
BY QueueInit, QueueStep, PTL DEF Spec

\* The variables of the queue keep their types (send-queue.ts).
THEOREM QueueTypeCorrect == Spec => []TypeOK
<1>1. QueueInv => TypeOK
  BY DEF QueueInv
<1>2. QED
  BY QueueInvariant, <1>1, PTL

\* Frames reach the stream in the order of the send() calls whatever is dropped
\* and however many frames each 'drain' flushes, for every MAX_QUEUE_SIZE.
THEOREM OrderCorrect == Spec => []OrderKept
<1>1. QueueInv => OrderKept
  BY DEF QueueInv
<1>2. QED
  BY QueueInvariant, <1>1, PTL

\* Frames wait only while a 'drain' event is owed, and never more than the cap:
\* no partial flush strands what it left (flush, send).
THEOREM NoStrandingCorrect == Spec => []NoStranding
<1>1. QueueInv => NoStranding
  BY DEF QueueInv
<1>2. QED
  BY QueueInvariant, <1>1, PTL

-----------------------------------------------------------------------------
\* Every step of the queue is a step of the ordered lossy channel or leaves what
\* was submitted and written alone.
LEMMA ChannelStep ==
  QueueInv /\ QueueInv' /\ [Next]_vars => [Abstract!Step]_<<submitted, wire>>
<1> SUFFICES ASSUME QueueInv, QueueInv', [Next]_vars, ~UNCHANGED <<submitted, wire>>
             PROVE  Abstract!Step
  OBVIOUS
<1>0. /\ TypeOK /\ TypeOK' /\ OrderKept' /\ NoStranding
      /\ Len(wire) \in Nat /\ submitted \in Nat /\ wire' \in Seq(1..submitted')
  BY FrameNumbers DEF QueueInv, TypeOK
<1>1. Abstract!Increasing(wire')
  BY <1>0 DEF OrderKept, Abstract!Increasing
<1>2. SendQueued \/ SendDirect \/ Flush
  BY DEF Next, vars, Attach, LateDrain, Clear
<1>3. submitted' \in {submitted, submitted + 1}
  BY <1>2 DEF SendQueued, SendDirect, Flush
<1>4. /\ Len(wire) <= Len(wire') /\ Len(wire') \in Nat
      /\ \A i \in 1..Len(wire) : wire'[i] = wire[i]
  <2>1. CASE SendQueued
    BY <1>0, <2>1 DEF SendQueued
  <2>2. CASE SendDirect
    <3>1. wire \in Seq(1..submitted') /\ submitted + 1 \in 1..submitted' /\ wire' = Append(wire, submitted + 1)
      <4>1. submitted' = submitted + 1 /\ wire' = Append(wire, submitted + 1)
        BY <2>2 DEF SendDirect
      <4>2. 1..submitted \subseteq 1..submitted'
        BY <1>0, <4>1
      <4>3. QED
        BY <1>0, <4>1, <4>2, SeqMonotonic DEF TypeOK
    <3>2. Len(wire') = Len(wire) + 1 /\ \A i \in 1..Len(wire) : wire'[i] = wire[i]
      BY <3>1, AppendProperties
    <3>3. QED
      BY <1>0, <3>2
  <2>3. CASE Flush
    <3>1. PICK n \in 0..Len(queue) :
            wire' = wire \o SubSeq(queue, 1, n) /\ queue' = SubSeq(queue, n + 1, Len(queue))
      BY <2>3 DEF Flush
    <3>2. Len(wire') = Len(wire) + n /\ \A i \in 1..Len(wire) : wire'[i] = wire[i]
      BY <1>0, <3>1, FlushFacts
    <3>3. n \in Nat
      BY FrameNumbers, <1>0
    <3>4. QED
      BY <1>0, <3>2, <3>3
  <2>4. QED
    BY <1>2, <2>1, <2>2, <2>3
<1>5. SubSeq(wire', 1, Len(wire)) = wire
  <2> DEFINE S == 1..submitted'
             w == SubSeq(wire', 1, Len(wire))
  <2>1. \A i \in 1..Len(wire) : wire'[i] \in S
    <3>1. \A i \in 1..Len(wire) : i \in 1..Len(wire')
      BY <1>0, <1>4
    <3>2. QED
      BY <1>0, <3>1, ElementOfSeq
  <2>2. /\ w \in Seq(S)
        /\ Len(w) = IF 1 <= Len(wire) THEN Len(wire) - 1 + 1 ELSE 0
        /\ \A i \in 1..(Len(wire) - 1 + 1) : w[i] = wire'[1 + i - 1]
    <3>1. 1 \in Int /\ Len(wire) \in Int
      BY <1>0
    <3> HIDE DEF S
    <3>2. QED
      BY <2>1, <3>1, SubSeqProperties
  <2>3. wire \in Seq(S)
    <3>1. 1..submitted \subseteq S
      BY <1>0, <1>3
    <3>2. QED
      BY <1>0, <3>1, SeqMonotonic DEF TypeOK
  <2> HIDE DEF w, S
  <2>4. Len(w) = Len(wire) /\ \A i \in 1..Len(wire) : w[i] = wire[i]
    BY <1>0, <1>4, <2>2
  <2>5. w = wire
    BY <2>2, <2>3, <2>4, SeqEqual
  <2>6. QED
    BY <2>5 DEF w
<1>6. QED
  BY <1>0, <1>1, <1>3, <1>4, <1>5 DEF Abstract!Step

\* The queue implements the channel it promises the agents: whatever reaches the
\* stream does so once and in the order of submission.
THEOREM ChannelImplemented == Spec => ImplementsChannel
<1>1. Init => Abstract!Init
  BY DEF Init, Abstract!Init
<1>2. QED
  BY <1>1, QueueInvariant, ChannelStep, PTL DEF Spec, ImplementsChannel, Abstract!Spec
=============================================================================
