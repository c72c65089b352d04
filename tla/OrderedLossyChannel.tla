------------------------- MODULE OrderedLossyChannel -------------------------
(***************************************************************************)
(* What the hub promises its agents about the frames it sends: whatever    *)
(* reaches the stream reaches it in the order in which it was submitted,   *)
(* at most once.  Frames may be lost, never reordered or duplicated.       *)
(* Frames are numbered by the order of their submission.                   *)
(***************************************************************************)
EXTENDS Integers, Sequences

VARIABLES
  submitted,   \* how many frames the hub has handed over
  delivered    \* the frames written to the stream, oldest first

Increasing(s) == \A i, j \in 1..Len(s) : i < j => s[i] < s[j]

Init == submitted = 0 /\ delivered = << >>

\* A step may submit a frame and may extend what was delivered, always in order.
Step ==
  /\ submitted' \in {submitted, submitted + 1}
  /\ delivered' \in Seq(1..submitted')
  /\ Len(delivered) <= Len(delivered')
  /\ SubSeq(delivered', 1, Len(delivered)) = delivered
  /\ Increasing(delivered')

Spec == Init /\ [][Step]_<<submitted, delivered>>
=============================================================================
