-------------------------- MODULE AgentDeployProofs --------------------------
(***************************************************************************)
(* Proofs about AgentBinaries and AgentDeploy, for any number of targets,  *)
(* users, jobs, builds and connections: what is in the cache was vouched   *)
(* for, what is run on a host was trusted, no more fetches run than there  *)
(* are slots, and a page does not show a job that is over for ever.        *)
(***************************************************************************)
EXTENDS AgentDeploy, SequenceTheorems, FiniteSetTheorems, TLAPS

-----------------------------------------------------------------------------
(* The cache.                                                              *)

\* A manifest names only builds that are listed.
Named(m) == m # None => \A t \in Targets : m[t] # NoFile => <<t, m[t]>> \in listed

\* What is vouched for stays so: the manifests that are published, kept and held by
\* the fetches under way, and the files in the cache.
VouchInv ==
  /\ Named(sums) /\ Named(kept)
  /\ \A f \in Fetchers : Named(fetch[f].sums)
  /\ \A f \in Fetchers : fetch[f].step = "place" => fetch[f].sums # None
  /\ CacheVouched

\* The fetches under way know their target, and so do the queued ones.
TargetInv ==
  /\ \A f \in Fetchers : fetch[f].step \in Active => fetch[f].target \in Targets
  /\ \A j \in Range(queue) : fetch[j].target \in Targets

\* No more jobs run than there are slots.
SlotsKept == Cardinality(Running) <= Concurrency

\* Jobs are numbered in the order of their creation.
Numbered == Created = 1 .. Cardinality(Created)

\* The job registered for a target is one of it and not over.
Registered ==
  \A t \in Targets : byTarget[t] # None =>
    Pending(byTarget[t]) /\ fetch[byTarget[t]].target = t

\* A job is under way, its end is on its way to the page, or the page was told of it twice
\* or has dropped its end.
Owed(u, j) == Pending(j) \/ j \in Range(mail[u]) \/ j \in excused[u]

\* The answers a page waits for agree with the jobs on the target; the page shows only jobs
\* it was told of; the job of an answer is owed to it, or its end is remembered, or the page
\* was told of it before, so that this answer is the second; the jobs it shows are owed to it.
PageOf(u) ==
  /\ \A p \in posting[u] : p.answer = "accepted" => fetch[p.job].target = p.target
  /\ shown[u] \subseteq Created \cap named[u]
  /\ ~missed[u] =>
       /\ online[u]
       /\ \A p \in posting[u] : p.answer = "accepted" =>
            Owed(u, p.job) \/ p.job \in buffered[u] \/ p.job \in named[u]
       /\ \A j \in shown[u] : Owed(u, j)

PageInv == \A u \in Users : PageOf(u)

BinInv == BinTypeOK /\ VouchInv /\ TargetInv /\ SlotsKept /\ Numbered /\ Registered /\ PageInv

-----------------------------------------------------------------------------
(* Facts about the operators.                                              *)

\* The jobs are a finite set, and so are those that run and those that exist.
LEMMA JobsFinite ==
  /\ IsFiniteSet(Jobs) /\ Jobs \subseteq Nat /\ Jobs \subseteq Fetchers
  /\ IsFiniteSet(Running) /\ Cardinality(Running) \in Nat
  /\ IsFiniteSet(Created) /\ Cardinality(Created) \in Nat
<1>1. IsFiniteSet(Jobs) /\ Jobs \subseteq Nat /\ Jobs \subseteq Fetchers
  BY BinaryAssumption, FS_Interval DEF Jobs, Fetchers
<1>2. Running \subseteq Jobs /\ Created \subseteq Jobs
  BY DEF Running, Created
<1>3. QED
  BY <1>1, <1>2, FS_Subset, FS_CardinalityType

\* A fetch that has no file and no manifest yet, or no more.
LEMMA FetchAtRec ==
  ASSUME NEW step \in Active \cup {"idle", "queued", "ok", "failed"}, NEW t \in Targets \cup {None}
  PROVE  /\ FetchAt(step, t) \in FetchRec
         /\ FetchAt(step, t).step = step /\ FetchAt(step, t).target = t
         /\ FetchAt(step, t).temp = NoFile /\ FetchAt(step, t).sums = None
<1>1. FALSE \in BOOLEAN
  OBVIOUS
<1>2. QED
  BY <1>1 DEF FetchAt, FetchRec, Files

\* The first elements of a queue are no more than their places.
LEMMA FirstFew ==
  ASSUME NEW q, NEW n \in Nat
  PROVE  LET first == {q[i] : i \in 1 .. n} IN IsFiniteSet(first) /\ Cardinality(first) <= n
<1> DEFINE first == {q[i] : i \in 1 .. n}
           f == [i \in 1 .. n |-> q[i]]
<1>1. IsFiniteSet(1 .. n) /\ Cardinality(1 .. n) = n
  BY FS_Interval
<1>2. f \in Surjection(1 .. n, first)
  BY DEF Surjection
<1>3. IsFiniteSet(first) /\ Cardinality(first) <= Cardinality(1 .. n)
  BY <1>1, <1>2, FS_Surjection
<1>4. QED
  BY <1>1, <1>3

\* Draining the queue starts as many fetches as there are free slots, and forgets none.
LEMMA DrainFacts ==
  ASSUME NEW q \in Seq(Jobs), NEW fs \in [Fetchers -> FetchRec], NEW running \in Nat,
         running <= Concurrency
  PROVE  LET D == Drained(q, fs, running) IN
         /\ D.queue \in Seq(Jobs) /\ D.fetch \in [Fetchers -> FetchRec]
         /\ Range(D.queue) \subseteq Range(q)
         /\ \A f \in Fetchers : D.fetch[f] = fs[f] \/ (D.fetch[f] = [fs[f] EXCEPT !.step = "open"] /\ f \in Range(q))
         /\ \A j \in Range(q) : j \in Range(D.queue) \/ D.fetch[j].step = "open"
         /\ \E first : /\ IsFiniteSet(first) /\ Cardinality(first) <= Concurrency - running
                       /\ \A f \in Fetchers : f \notin first => D.fetch[f] = fs[f]
<1> DEFINE n == IF Concurrency - running < Len(q) THEN Concurrency - running ELSE Len(q)
           first == {q[i] : i \in 1 .. n}
           D == Drained(q, fs, running)
           rest == SubSeq(q, n + 1, Len(q))
<1>1. Len(q) \in Nat /\ DOMAIN q = 1 .. Len(q) /\ \A i \in 1 .. Len(q) : q[i] \in Jobs
  BY LenProperties, ElementOfSeq
<1>2. n \in Nat /\ n <= Len(q) /\ n <= Concurrency - running
  BY <1>1, BinaryAssumption
<1>3. D.queue = rest /\ D.fetch = [f \in Fetchers |-> IF f \in first THEN [fs[f] EXCEPT !.step = "open"] ELSE fs[f]]
  BY DEF Drained
<1>4. /\ rest \in Seq(Jobs) /\ Len(rest) = Len(q) - n /\ DOMAIN rest = 1 .. Len(q) - n
      /\ \A i \in 1 .. Len(q) - n : rest[i] = q[n + i]
  <2>1. n + 1 \in Nat
    BY <1>2
  <2> HIDE DEF n
  <2>2. rest = [i \in 1 .. Len(q) - n |-> q[n + i]]
    BY <1>1, <1>2 DEF SubSeq
  <2>3. QED
    BY <1>1, <1>2, <2>2
<1> HIDE DEF n, rest
<1>5. D.fetch \in [Fetchers -> FetchRec]
  <2>1. \A r \in FetchRec : [r EXCEPT !.step = "open"] \in FetchRec
    BY DEF FetchRec, Active
  <2>2. QED
    BY <1>3, <2>1
<1>6. first \subseteq Range(q)
  BY <1>1, <1>2 DEF Range
<1>7. Range(rest) \subseteq Range(q)
  <2>1. \A i \in 1 .. Len(q) - n : n + i \in 1 .. Len(q)
    BY <1>1, <1>2
  <2>2. QED
    BY <1>1, <1>4, <2>1 DEF Range
<1>8. \A j \in Range(q) : j \in Range(rest) \/ j \in first
  <2>1. TAKE j \in Range(q)
  <2>2. PICK i \in 1 .. Len(q) : j = q[i]
    BY <1>1 DEF Range
  <2>3. CASE i <= n
    BY <1>1, <1>2, <2>2, <2>3
  <2>4. CASE i > n
    <3>1. i - n \in 1 .. Len(q) - n /\ n + (i - n) = i
      BY <1>1, <1>2, <2>2, <2>4
    <3>2. rest[i - n] = j
      BY <1>4, <2>2, <3>1
    <3>3. QED
      BY <1>4, <3>1, <3>2 DEF Range
  <2>5. QED
    BY <1>1, <1>2, <2>2, <2>3, <2>4
<1>9. \A j \in Range(q) : j \in Fetchers
  BY <1>1, JobsFinite DEF Range
<1>10. \A j \in first : D.fetch[j].step = "open"
  <2>1. \A r \in FetchRec : [r EXCEPT !.step = "open"].step = "open"
    BY DEF FetchRec
  <2>2. QED
    BY <1>3, <1>6, <1>9, <2>1
<1>11. IsFiniteSet(first) /\ Cardinality(first) <= n
  BY <1>2, FirstFew
<1>12. Cardinality(first) <= Concurrency - running
  BY <1>2, <1>11, FS_CardinalityType, BinaryAssumption
<1>13. /\ D.queue \in Seq(Jobs)
       /\ Range(D.queue) \subseteq Range(q)
  BY <1>3, <1>4, <1>7
<1>14. \A f \in Fetchers : f \notin first => D.fetch[f] = fs[f]
  BY <1>3
<1>15. \A f \in Fetchers : D.fetch[f] = fs[f] \/ (D.fetch[f] = [fs[f] EXCEPT !.step = "open"] /\ f \in Range(q))
  <2>1. TAKE f \in Fetchers
  <2> DEFINE opened == [fs[f] EXCEPT !.step = "open"]
  <2>2. D.fetch[f] = IF f \in first THEN opened ELSE fs[f]
    BY <1>3
  <2> HIDE DEF first, D, opened
  <2>3. D.fetch[f] = fs[f] \/ (D.fetch[f] = opened /\ f \in Range(q))
    BY <1>6, <2>2
  <2>4. QED
    BY <2>3 DEF opened
<1>16. \A j \in Range(q) : j \in Range(D.queue) \/ D.fetch[j].step = "open"
  BY <1>3, <1>8, <1>10
<1> HIDE DEF first, D
<1>17. QED
  BY <1>5, <1>11, <1>12, <1>13, <1>14, <1>15, <1>16 DEF D

\* What is appended is in the range, and nothing else is new.
LEMMA RangeAppend ==
  ASSUME NEW q \in Seq(Jobs), NEW j \in Jobs
  PROVE  Append(q, j) \in Seq(Jobs) /\ Range(Append(q, j)) = Range(q) \cup {j}
<1> DEFINE r == Append(q, j)
<1>1. /\ r \in Seq(Jobs) /\ Len(q) \in Nat /\ Len(r) = Len(q) + 1
      /\ r[Len(q) + 1] = j /\ \A i \in 1 .. Len(q) : r[i] = q[i]
  BY AppendProperties, LenProperties
<1> HIDE DEF r
<1>2. DOMAIN r = 1 .. Len(q) + 1 /\ DOMAIN q = 1 .. Len(q)
  BY <1>1, LenProperties
<1>3. Range(r) = Range(q) \cup {j}
  BY <1>1, <1>2 DEF Range
<1>4. QED
  BY <1>1, <1>3 DEF r

\* As many elements as there is room for.
LEMMA RoomFor ==
  ASSUME NEW base, IsFiniteSet(base), NEW first, IsFiniteSet(first), NEW all \in SUBSET (base \cup first),
         Cardinality(first) <= Concurrency - Cardinality(base)
  PROVE  Cardinality(all) <= Concurrency
<1>1. Cardinality(base) \in Nat /\ Cardinality(first) \in Nat /\ Cardinality(base \cap first) \in Nat
  BY FS_CardinalityType, FS_Intersection
<1>2. /\ IsFiniteSet(base \cup first)
      /\ Cardinality(base \cup first) = Cardinality(base) + Cardinality(first) - Cardinality(base \cap first)
  BY FS_Union
<1>3. Cardinality(all) <= Cardinality(base \cup first) /\ IsFiniteSet(all)
  BY <1>2, FS_Subset
<1>4. Cardinality(all) \in Nat /\ Cardinality(base \cup first) \in Nat
  BY <1>2, <1>3, FS_CardinalityType
<1>5. QED
  BY <1>1, <1>2, <1>3, <1>4, BinaryAssumption

-----------------------------------------------------------------------------
(* What a step may do to the fetches.                                      *)

\* A fetch holds the manifest it had, or none and is not about to use one.
SumsKept ==
  \A g \in Fetchers :
    \/ fetch'[g].sums = fetch[g].sums /\ (fetch'[g].step = "place" => fetch[g].step = "place")
    \/ fetch'[g].sums = None /\ fetch'[g].step # "place"

\* Jobs keep their targets, and those that are under way stay so unless they are of a set.
Onward(ended) ==
  /\ fetch' \in [Fetchers -> FetchRec] /\ queue' \in Seq(Jobs)
  /\ \A j \in Jobs : fetch'[j].target = fetch[j].target
  /\ \A j \in Jobs \ ended : Pending(j) => Pending(j)'
  /\ TargetInv' /\ SlotsKept'

\* The queue is drained after the fetches of a set, if any, have stopped.
LEMMA DrainOnward ==
  ASSUME BinInv, NEW stopped, NEW fs \in [Fetchers -> FetchRec],
         \A g \in Fetchers \ stopped : fs[g] = fetch[g],
         \A g \in Fetchers \cap stopped : /\ fs[g].target = fetch[g].target /\ fs[g].sums = None
                                          /\ fs[g].step \in {"ok", "failed"},
         NEW running \in Nat, running = Cardinality(Running \ stopped), running <= Concurrency,
         fetch' = Drained(queue, fs, running).fetch, queue' = Drained(queue, fs, running).queue
  PROVE  Onward(stopped) /\ SumsKept
<1> DEFINE D == Drained(queue, fs, running)
<1>1. /\ fetch \in [Fetchers -> FetchRec] /\ queue \in Seq(Jobs)
      /\ Range(queue) \subseteq Jobs /\ Jobs \subseteq Fetchers
  <2>1. fetch \in [Fetchers -> FetchRec] /\ queue \in Seq(Jobs)
    BY DEF BinInv, BinTypeOK, JobTypes
  <2>2. QED
    BY <2>1, JobsFinite, ElementOfSeq, LenProperties DEF Range
<1>2. \A g \in Fetchers : /\ fs[g].target = fetch[g].target
                          /\ fs[g].step \in Active => fs[g] = fetch[g] /\ g \notin stopped
                          /\ fs[g] = fetch[g] \/ (fs[g].sums = None /\ fs[g].step # "place")
  BY DEF Active
<1>3. IsFiniteSet(Running \ stopped)
  BY JobsFinite, FS_Subset
<1>4. fetch' = D.fetch /\ queue' = D.queue
  OBVIOUS
<1>a. fs \in [Fetchers -> FetchRec] /\ running \in Nat /\ running <= Concurrency
  OBVIOUS
<1>5. /\ D.queue \in Seq(Jobs) /\ D.fetch \in [Fetchers -> FetchRec]
      /\ Range(D.queue) \subseteq Range(queue)
      /\ \A g \in Fetchers : D.fetch[g] = fs[g] \/ (D.fetch[g] = [fs[g] EXCEPT !.step = "open"] /\ g \in Range(queue))
      /\ \A j \in Range(queue) : j \in Range(D.queue) \/ D.fetch[j].step = "open"
      /\ \E first : /\ IsFiniteSet(first) /\ Cardinality(first) <= Concurrency - running
                    /\ \A g \in Fetchers : g \notin first => D.fetch[g] = fs[g]
  BY ONLY <1>1, <1>a, DrainFacts
<1> HIDE DEF D
<1>6. \A g \in Fetchers : /\ fetch'[g].target = fs[g].target /\ fetch'[g].sums = fs[g].sums
                          /\ fetch'[g].step = fs[g].step \/ (fetch'[g].step = "open" /\ g \in Range(queue))
  <2>1. \A r \in FetchRec : LET o == [r EXCEPT !.step = "open"] IN
                              o.target = r.target /\ o.sums = r.sums /\ o.step = "open"
    BY DEF FetchRec
  <2>2. TAKE g \in Fetchers
  <2>3. fs[g] \in FetchRec
    OBVIOUS
  <2>4. CASE fetch'[g] = fs[g]
    BY <2>4
  <2>5. CASE fetch'[g] = [fs[g] EXCEPT !.step = "open"] /\ g \in Range(queue)
    BY <2>1, <2>3, <2>5
  <2>6. QED
    BY <1>4, <1>5, <2>4, <2>5
<1>7. \A g \in Fetchers : fetch'[g].target = fetch[g].target
  BY <1>2, <1>6
<1>8. SumsKept
  <2>1. SUFFICES ASSUME NEW g \in Fetchers
                 PROVE  \/ fetch'[g].sums = fetch[g].sums /\ (fetch'[g].step = "place" => fetch[g].step = "place")
                        \/ fetch'[g].sums = None /\ fetch'[g].step # "place"
    BY DEF SumsKept
  <2>2. fetch'[g].sums = fs[g].sums /\ (fetch'[g].step = "place" => fs[g].step = "place")
    BY <1>6
  <2>3. QED
    BY <1>2, <2>2
<1>9. TargetInv'
  <2>1. ASSUME NEW g \in Fetchers, fetch'[g].step \in Active PROVE fetch'[g].target \in Targets
    <3>1. fetch[g].step \in Active \/ g \in Range(queue)
      BY <1>2, <1>6, <2>1
    <3>2. QED
      BY <1>7, <3>1 DEF BinInv, TargetInv
  <2>2. \A j \in Range(queue') : fetch'[j].target \in Targets
    BY <1>1, <1>4, <1>5, <1>7 DEF BinInv, TargetInv
  <2>3. QED
    BY <2>1, <2>2 DEF TargetInv
<1>10. \A j \in Jobs \ stopped : Pending(j) => Pending(j)'
  <2>1. ASSUME NEW j \in Jobs, j \notin stopped, Pending(j) PROVE Pending(j)'
    <3>1. CASE j \in Range(queue)
      BY <1>4, <1>5, <3>1 DEF Pending, Active
    <3>2. CASE fetch[j].step \in Active
      <4>1. fetch'[j].step = fetch[j].step \/ fetch'[j].step = "open"
        BY <1>1, <1>6, <2>1
      <4>2. QED
        BY <3>2, <4>1 DEF Pending, Active
    <3>3. QED
      BY <2>1, <3>1, <3>2 DEF Pending
  <2>2. QED
    BY <2>1
<1>11. SlotsKept'
  <2>1. PICK first : /\ IsFiniteSet(first) /\ Cardinality(first) <= Concurrency - running
                     /\ \A g \in Fetchers : g \notin first => D.fetch[g] = fs[g]
    BY <1>5
  <2>2. Running' \subseteq (Running \ stopped) \cup first
    <3>1. ASSUME NEW j \in Jobs, fetch'[j].step \in Active, j \notin first PROVE j \in Running \ stopped
      <4>1. fetch'[j] = fs[j]
        BY <1>1, <1>4, <2>1, <3>1
      <4>2. QED
        BY <1>1, <1>2, <3>1, <4>1 DEF Running
    <3>2. QED
      BY <3>1 DEF Running
  <2>3. QED
    BY <1>3, <2>1, <2>2, RoomFor DEF SlotsKept
<1>12. QED
  BY <1>1, <1>4, <1>5, <1>7, <1>8, <1>9, <1>10, <1>11 DEF Onward

\* The end of a fetch, and what the free slot is used for.
LEMMA EndedFacts ==
  ASSUME BinInv, NEW f \in Fetchers, fetch[f].step \in Active,
         NEW result \in {"ok", "failed"}, Ended(f, result)
  PROVE  Onward({f}) /\ SumsKept
<1> DEFINE fs == [fetch EXCEPT ![f] = Stop(f, result)]
<1>0. /\ fetch \in [Fetchers -> FetchRec] /\ queue \in Seq(Jobs)
      /\ Range(queue) \subseteq Jobs /\ Jobs \subseteq Fetchers
  <2>1. fetch \in [Fetchers -> FetchRec] /\ queue \in Seq(Jobs)
    BY DEF BinInv, BinTypeOK, JobTypes
  <2>2. QED
    BY <2>1, JobsFinite, ElementOfSeq, LenProperties DEF Range
<1>1. /\ Stop(f, result) \in FetchRec /\ Stop(f, result).target = fetch[f].target
      /\ Stop(f, result).sums = None /\ Stop(f, result).step = result
  <2>1. fetch[f].target \in Targets \cup {None}
    BY <1>0 DEF FetchRec
  <2>2. QED
    BY <2>1, FetchAtRec DEF Stop, Active
<1>2. /\ fs \in [Fetchers -> FetchRec] /\ fs[f] = Stop(f, result)
      /\ \A g \in Fetchers : g # f => fs[g] = fetch[g]
  BY <1>0, <1>1
<1>3. result \notin Active /\ result # "place"
  BY DEF Active
<1> HIDE DEF fs
<1>4. CASE f \in Jobs
  <2>1. f \in Running /\ IsFiniteSet(Running) /\ Cardinality(Running) \in Nat
    BY <1>4, JobsFinite DEF Running
  <2>2. IsFiniteSet(Running \ {f}) /\ Cardinality(Running \ {f}) = Cardinality(Running) - 1
    BY <2>1, FS_RemoveElement
  <2> DEFINE running == Cardinality(Running) - 1
  <2>3. running \in Nat /\ running <= Concurrency /\ running = Cardinality(Running \ {f})
    BY <2>1, <2>2, FS_CardinalityType, BinaryAssumption DEF BinInv, SlotsKept
  <2>4. fetch' = Drained(queue, fs, running).fetch /\ queue' = Drained(queue, fs, running).queue
    BY <1>4 DEF Ended, fs
  <2> HIDE DEF running
  <2>5. /\ \A g \in Fetchers \ {f} : fs[g] = fetch[g]
        /\ \A g \in Fetchers \cap {f} : /\ fs[g].target = fetch[g].target /\ fs[g].sums = None
                                        /\ fs[g].step \in {"ok", "failed"}
    BY <1>1, <1>2
  <2>6. QED
    BY <1>2, <2>3, <2>4, <2>5, DrainOnward
<1>5. CASE f \notin Jobs
  <2>1. fetch' = fs /\ UNCHANGED <<queue, byTarget>>
    BY <1>5 DEF Ended, Fetching, jobs, fs
  <2>2. SumsKept /\ \A g \in Fetchers : fetch'[g].target = fetch[g].target
    BY <1>1, <1>2, <1>3, <2>1 DEF SumsKept
  <2>3. \A j \in Jobs : fetch'[j] = fetch[j]
    BY <1>0, <1>2, <1>5, <2>1
  <2>4. TargetInv'
    <3>1. \A g \in Fetchers : fetch'[g].step \in Active => fetch[g].step \in Active
      BY <1>1, <1>2, <1>3, <2>1
    <3>2. QED
      BY <1>0, <2>1, <2>2, <3>1 DEF BinInv, TargetInv
  <2>5. (\A j \in Jobs : Pending(j) => Pending(j)') /\ Running' = Running
    BY <2>1, <2>3 DEF Pending, Running
  <2>6. SlotsKept'
    BY <2>5 DEF BinInv, SlotsKept
  <2>7. QED
    BY <1>0, <1>2, <2>1, <2>2, <2>3, <2>4, <2>5, <2>6 DEF Onward
<1>6. QED
  BY <1>4, <1>5

\* Where only the fetches move on, and the jobs that end are announced, the bookkeeping holds.
LEMMA OnwardKeeps ==
  ASSUME BinInv, NEW ended, Onward(ended),
         byTarget' \in [Targets -> Jobs \cup {None}],
         \A t \in Targets : byTarget'[t] = None \/ (byTarget'[t] = byTarget[t] /\ byTarget[t] \notin ended),
         UNCHANGED <<posting, online, missed, shown, buffered, named, excused>>,
         \A u \in Users : /\ Range(mail[u]) \subseteq Range(mail'[u])
                          /\ ~missed[u] => ended \cap Jobs \subseteq Range(mail'[u])
  PROVE  Numbered' /\ Registered' /\ PageInv'
<1>1. \A j \in Jobs : fetch'[j].target = fetch[j].target
  BY DEF Onward
<1>2. \A j \in Jobs : j \notin ended /\ Pending(j) => Pending(j)'
  BY DEF Onward
<1>3. Created' = Created
  BY <1>1 DEF Created
<1>4. Numbered'
  BY <1>3 DEF BinInv, Numbered
<1>5. Registered'
  <2>1. ASSUME NEW t \in Targets, byTarget'[t] # None
        PROVE  (Pending(byTarget[t]) /\ fetch[byTarget[t]].target = t)'
    <3>1. PICK b \in Jobs : b = byTarget[t] /\ b = byTarget'[t] /\ b \notin ended /\ b # None
      BY <2>1
    <3>2. Pending(b) /\ fetch[b].target = t
      BY <3>1 DEF BinInv, Registered
    <3>3. Pending(b)' /\ fetch'[b].target = t
      BY <1>1, <1>2, <3>1, <3>2
    <3>4. QED
      BY <3>1, <3>3 DEF Pending
  <2>2. QED
    BY <2>1 DEF Registered
<1>6. PageInv'
  <2>1. /\ \A u \in Users : posting[u] \subseteq Posts /\ shown[u] \subseteq Jobs
        /\ \A p \in Posts : p.answer = "accepted" => p.job \in Jobs
    BY DEF BinInv, BinTypeOK, PageTypes, Posts
  <2>2. ASSUME NEW u \in Users PROVE PageOf(u)'
    <3>0. PageOf(u)
      BY DEF BinInv, PageInv
    <3>1. /\ posting' = posting /\ shown' = shown /\ missed' = missed /\ online' = online
          /\ buffered' = buffered /\ named' = named /\ excused' = excused
      OBVIOUS
    <3>2. \A j \in Jobs : ~missed[u] /\ Owed(u, j) => Owed(u, j)'
      <4>1. \A j \in Jobs : ~missed[u] /\ Pending(j) => Pending(j)' \/ j \in Range(mail'[u])
        BY <1>2
      <4>2. QED
        BY <3>1, <4>1 DEF Owed
    <3>3. \A p \in posting[u] : p.answer = "accepted" => p.job \in Jobs /\ fetch'[p.job].target = p.target
      BY <1>1, <2>1, <3>0 DEF PageOf
    <3>4. ~missed[u] => \A p \in posting[u] : p.answer = "accepted" =>
            Owed(u, p.job)' \/ p.job \in buffered[u] \/ p.job \in named[u]
      BY <3>0, <3>2, <3>3 DEF PageOf
    <3>5. ~missed[u] => \A j \in shown[u] : Owed(u, j)'
      BY <2>1, <3>0, <3>2 DEF PageOf
    <3>6. QED
      BY <1>3, <3>0, <3>1, <3>3, <3>4, <3>5 DEF PageOf
  <2>3. QED
    BY <2>2 DEF PageInv
<1>7. QED
  BY <1>4, <1>5, <1>6

\* A step that leaves the fetches and the queue alone moves nothing.
LEMMA StillOnward ==
  ASSUME BinInv, UNCHANGED <<fetch, queue>>
  PROVE  Onward({}) /\ SumsKept
BY DEF BinInv, BinTypeOK, JobTypes, Onward, SumsKept, TargetInv, SlotsKept, Running, Pending

\* A manifest that is kept and a list that only grows leave everything vouched for.
LEMMA VouchKept ==
  ASSUME BinInv, SumsKept, listed \subseteq listed', Named(sums)', Named(kept)', CacheVouched'
  PROVE  VouchInv'
<1>1. \A g \in Fetchers : Named(fetch[g].sums) /\ (fetch[g].step = "place" => fetch[g].sums # None)
  BY DEF BinInv, VouchInv
<1>2. ASSUME NEW g \in Fetchers PROVE Named(fetch[g].sums)' /\ (fetch'[g].step = "place" => fetch'[g].sums # None)
  <2>1. CASE fetch'[g].sums = fetch[g].sums /\ (fetch'[g].step = "place" => fetch[g].step = "place")
    BY <1>1, <2>1 DEF Named
  <2>2. CASE fetch'[g].sums = None /\ fetch'[g].step # "place"
    BY <2>2 DEF Named
  <2>3. QED
    BY <2>1, <2>2 DEF SumsKept
<1>3. QED
  BY <1>2 DEF VouchInv

-----------------------------------------------------------------------------
(* The steps.                                                              *)

\* Publishing, importing and pruning.
LEMMA FilesStep ==
  ASSUME BinInv, cast' = cast, UNCHANGED <<fetch, jobs, pages>>, FileTypes', listed \subseteq listed',
         Named(sums)', Named(kept)', CacheVouched'
  PROVE  BinInv'
<1>1. Onward({}) /\ SumsKept
  BY StillOnward DEF jobs
<1>2. VouchInv'
  BY <1>1, VouchKept
<1>3. byTarget' = byTarget /\ UNCHANGED pages
  BY DEF jobs
<1>4. byTarget \in [Targets -> Jobs \cup {None}] /\ drains' \in BOOLEAN
  BY DEF BinInv, BinTypeOK, JobTypes, jobs
<1>5. Numbered' /\ Registered' /\ PageInv'
  BY <1>1, <1>3, <1>4, OnwardKeeps DEF pages, view
<1>6. JobTypes' /\ PageTypes' /\ cast' \in Casts
  BY DEF BinInv, BinTypeOK, JobTypes, PageTypes, jobs, pages, view
<1>7. QED
  BY <1>1, <1>2, <1>5, <1>6 DEF BinInv, BinTypeOK, Onward

LEMMA ReleaseStep ==
  ASSUME BinInv, NEW t \in Targets,
         PublishAsset(t) \/ PublishSums \/ ImportUpload(t) \/ CmdAgentImport(t) \/ Prune
  PROVE  BinInv'
<1>0. /\ FileTypes /\ cast \in Casts /\ Named(sums) /\ Named(kept) /\ CacheVouched
  BY DEF BinInv, BinTypeOK, VouchInv
<1>b. /\ Builds \subseteq Nat \ {0} /\ NoFile = 0 /\ NoFile \notin Builds /\ Builds \subseteq Files /\ NoFile \in Files
  BY BinaryAssumption DEF Builds, NoFile, Files
<1>1. CASE PublishAsset(t)
  <2>1. asset[t] \in Nat /\ cast.builds[t] \in 0 .. MaxBuild
    <3>1. cast.builds \in [Targets -> 0 .. MaxBuild]
      BY <1>0, BinaryAssumption
    <3>2. asset[t] \in Builds \cup {NoFile}
      BY <1>0 DEF FileTypes, Sums
    <3>3. asset[t] \in Nat
      BY <3>2, BinaryAssumption DEF Builds, NoFile
    <3>4. QED
      BY <3>1, <3>3
  <2>2. asset[t] + 1 \in Builds
    BY <1>1, <2>1, BinaryAssumption DEF PublishAsset, Builds
  <2>3. asset' \in Sums /\ UNCHANGED <<cast, sums, listed, cache, kept, fetch, jobs, pages>>
    BY <1>0, <1>1, <2>2 DEF PublishAsset, FileTypes, Sums, files
  <2>4. FileTypes' /\ Named(sums)' /\ Named(kept)' /\ CacheVouched'
    BY <1>0, <2>3 DEF FileTypes, Named, CacheVouched
  <2>5. QED
    BY <2>3, <2>4, FilesStep
<1>2. CASE PublishSums
  <2>1. /\ sums' = asset
        /\ listed' = listed \cup {<<s, asset[s]>> : s \in {r \in Targets : asset[r] # NoFile}}
        /\ UNCHANGED <<cast, asset, cache, kept, fetch, jobs, pages>>
    BY <1>2 DEF PublishSums, files
  <2>2. listed' \subseteq Targets \X Builds
    BY <1>0, <2>1 DEF FileTypes, Sums
  <2>3. FileTypes' /\ Named(sums)' /\ Named(kept)' /\ CacheVouched'
    BY <1>0, <2>1, <2>2 DEF FileTypes, Named, CacheVouched
  <2>4. QED
    BY <2>1, <2>3, FilesStep
<1>3. CASE ImportUpload(t) \/ CmdAgentImport(t)
  <2>1. PICK b \in Supplied(t) : cache' = [cache EXCEPT ![t] = b] /\ listed' = listed \cup {<<t, b>>}
    BY <1>3 DEF ImportUpload, CmdAgentImport, Import
  <2>2. UNCHANGED <<cast, asset, sums, kept, fetch, jobs, pages>>
    BY <1>3 DEF ImportUpload, CmdAgentImport, Import
  <2>3. b \in Builds
    <3>1. asset[t] \in Builds \cup {NoFile}
      BY <1>0 DEF FileTypes, Sums
    <3>2. QED
      BY <2>1, <3>1, BinaryAssumption DEF Supplied, Builds, NoFile
  <2>4. cache' \in [Targets -> Files] /\ \A s \in Targets : cache'[s] = IF s = t THEN b ELSE cache[s]
    BY <1>0, <1>b, <2>1, <2>3 DEF FileTypes
  <2>5. FileTypes'
    BY <1>0, <2>1, <2>2, <2>3, <2>4 DEF FileTypes
  <2>6. Named(sums)' /\ Named(kept)'
    BY <1>0, <2>1, <2>2 DEF Named
  <2>7. CacheVouched'
    BY <1>0, <2>1, <2>4 DEF CacheVouched
  <2>8. QED
    BY <2>1, <2>2, <2>5, <2>6, <2>7, FilesStep
<1>4. CASE Prune
  <2>1. cache' = [s \in Targets |-> NoFile] /\ UNCHANGED <<cast, asset, sums, listed, kept, fetch, jobs, pages>>
    BY <1>4 DEF Prune, release
  <2>2. FileTypes' /\ Named(sums)' /\ Named(kept)' /\ CacheVouched'
    BY <1>0, <1>b, <2>1 DEF FileTypes, Named, CacheVouched
  <2>3. QED
    BY <2>1, <2>2, FilesStep
<1>5. QED
  BY <1>1, <1>2, <1>3, <1>4

\* A fetch that is not a job starts: the command line, a connection.
LEMMA OtherStarts ==
  ASSUME BinInv, NEW f \in Others, NEW t \in Targets,
         fetch' = [fetch EXCEPT ![f] = Start(t)], UNCHANGED <<cast, release, files, jobs, pages>>
  PROVE  BinInv'
<1>0. f \in Fetchers /\ f \notin Jobs /\ Jobs \subseteq Fetchers /\ fetch \in [Fetchers -> FetchRec]
  BY BinaryAssumption DEF Fetchers, BinInv, BinTypeOK, JobTypes
<1>1. Start(t) \in FetchRec /\ Start(t).step = "open" /\ Start(t).target = t /\ Start(t).sums = None
  BY FetchAtRec DEF Start, Active
<1>2. /\ fetch' \in [Fetchers -> FetchRec] /\ fetch'[f] = Start(t)
      /\ \A g \in Fetchers : g # f => fetch'[g] = fetch[g]
  BY <1>0, <1>1
<1>3. SumsKept
  BY <1>1, <1>2 DEF SumsKept
<1>4. \A j \in Jobs : fetch'[j] = fetch[j]
  BY <1>0, <1>2
<1>5. UNCHANGED <<asset, sums, listed, cache, kept, byTarget, queue, drains>>
  BY DEF release, files, jobs
<1>6. VouchInv'
  <2>1. Named(sums)' /\ Named(kept)' /\ CacheVouched'
    BY <1>5 DEF BinInv, VouchInv, Named, CacheVouched
  <2>2. QED
    BY <1>3, <1>5, <2>1, VouchKept
<1>7. Range(queue) \subseteq Jobs /\ queue \in Seq(Jobs)
  BY ElementOfSeq, LenProperties DEF BinInv, BinTypeOK, JobTypes, Range
<1>8. TargetInv'
  BY <1>1, <1>2, <1>4, <1>5, <1>7 DEF BinInv, TargetInv
<1>9. Running' = Running /\ \A j \in Jobs : Pending(j) => Pending(j)'
  BY <1>4, <1>5 DEF Running, Pending
<1>10. SlotsKept'
  BY <1>9 DEF BinInv, SlotsKept
<1>11. Onward({})
  BY <1>2, <1>4, <1>5, <1>7, <1>8, <1>9, <1>10 DEF Onward
<1>12. byTarget' \in [Targets -> Jobs \cup {None}]
  BY <1>5 DEF BinInv, BinTypeOK, JobTypes
<1>13. Numbered' /\ Registered' /\ PageInv'
  BY <1>5, <1>11, <1>12, OnwardKeeps DEF pages, view
<1>14. FileTypes' /\ JobTypes' /\ PageTypes' /\ cast' \in Casts
  BY <1>2, <1>5 DEF BinInv, BinTypeOK, FileTypes, JobTypes, PageTypes, pages, view
<1>15. QED
  BY <1>6, <1>8, <1>10, <1>13, <1>14 DEF BinInv, BinTypeOK

\* A fetch moves on or ends, and only a file that its manifest names is placed.
LEMMA FetchStepKeeps ==
  ASSUME BinInv, NEW f \in Fetchers, FetchStep(f)
  PROVE  BinInv'
<1>0. /\ FileTypes /\ cast \in Casts /\ Named(sums) /\ Named(kept) /\ CacheVouched
      /\ fetch \in [Fetchers -> FetchRec] /\ fetch[f] \in FetchRec /\ Jobs \subseteq Fetchers
      /\ byTarget \in [Targets -> Jobs \cup {None}] /\ queue \in Seq(Jobs)
  BY JobsFinite DEF BinInv, BinTypeOK, VouchInv, JobTypes
<1>1. ASSUME NEW result \in {"ok", "failed"}, Ended(f, result), fetch[f].step \in Active, cast' = cast,
             UNCHANGED release, FileTypes', Named(kept)', CacheVouched'
      PROVE  BinInv'
  <2>1. Onward({f}) /\ SumsKept
    BY <1>1, EndedFacts
  <2>2. VouchInv'
    <3>1. UNCHANGED <<sums, listed>>
      BY <1>1 DEF release
    <3>2. Named(sums)'
      BY <1>0, <3>1 DEF Named
    <3>3. QED
      BY <1>1, <2>1, <3>1, <3>2, VouchKept
  <2>3. CASE f \in Jobs
    <3>1. /\ byTarget' = [byTarget EXCEPT ![fetch[f].target] = None]
          /\ mail' = [u \in Users |-> IF online[u] THEN Append(mail[u], f) ELSE mail[u]]
          /\ UNCHANGED <<drains, posting, online, missed, shown, buffered, current, named, excused>>
      BY <1>1, <2>3 DEF Ended, view
    <3>2. byTarget' \in [Targets -> Jobs \cup {None}]
      BY <1>0, <3>1
    <3>3. \A t \in Targets : byTarget'[t] = None \/ (byTarget'[t] = byTarget[t] /\ byTarget[t] \notin {f})
      <4>1. TAKE t \in Targets
      <4>2. CASE t = fetch[f].target
        BY <1>0, <3>1, <4>2
      <4>3. CASE t # fetch[f].target
        <5>1. byTarget'[t] = byTarget[t]
          BY <1>0, <3>1, <4>3
        <5>2. byTarget[t] # None => fetch[byTarget[t]].target = t
          BY DEF BinInv, Registered
        <5>3. QED
          BY <4>3, <5>1, <5>2
      <4>4. QED
        BY <4>2, <4>3
    <3>4. mail \in [Users -> Seq(Jobs)] /\ online \in [Users -> BOOLEAN]
      BY DEF BinInv, BinTypeOK, PageTypes
    <3>5. \A u \in Users : /\ mail'[u] \in Seq(Jobs) /\ Range(mail[u]) \subseteq Range(mail'[u])
                           /\ ~missed[u] => f \in Range(mail'[u])
      <4>1. TAKE u \in Users
      <4>2. ~missed[u] => online[u]
        BY DEF BinInv, PageInv, PageOf
      <4>3. CASE ~online[u]
        BY <3>1, <3>4, <4>2, <4>3
      <4>4. CASE online[u]
        <5>1. mail'[u] = Append(mail[u], f)
          BY <3>1, <4>4
        <5>2. mail'[u] \in Seq(Jobs) /\ Range(mail'[u]) = Range(mail[u]) \cup {f}
          BY <2>3, <3>4, <5>1, RangeAppend
        <5>3. QED
          BY <5>2
      <4>5. QED
        BY <4>3, <4>4
    <3>6. Numbered' /\ Registered' /\ PageInv'
      <4>1. UNCHANGED <<posting, online, missed, shown, buffered, named, excused>>
        BY <3>1
      <4>2. \A u \in Users : /\ Range(mail[u]) \subseteq Range(mail'[u])
                             /\ ~missed[u] => {f} \cap Jobs \subseteq Range(mail'[u])
        BY <3>5
      <4>3. QED
        BY <2>1, <3>2, <3>3, <4>1, <4>2, OnwardKeeps
    <3>7. JobTypes'
      BY <2>1, <3>1, <3>2 DEF BinInv, BinTypeOK, JobTypes, Onward
    <3>8. PageTypes'
      <4>1. mail' \in [Users -> Seq(Jobs)]
        BY <3>1, <3>5
      <4>2. QED
        BY <3>1, <4>1 DEF BinInv, BinTypeOK, PageTypes
    <3>9. QED
      BY <1>0, <1>1, <2>1, <2>2, <3>6, <3>7, <3>8 DEF BinInv, BinTypeOK, Onward
  <2>4. CASE f \notin Jobs
    <3>1. UNCHANGED <<byTarget, queue, drains, pages>>
      BY <1>1, <2>4 DEF Ended, jobs
    <3>2. \A t \in Targets : byTarget[t] \notin {f} \/ byTarget[t] = None
      BY <1>0, <2>4
    <3>3. Numbered' /\ Registered' /\ PageInv'
      BY <1>0, <2>1, <2>4, <3>1, <3>2, OnwardKeeps DEF pages, view
    <3>4. JobTypes' /\ PageTypes'
      BY <2>1, <3>1 DEF BinInv, BinTypeOK, JobTypes, PageTypes, pages, view, Onward
    <3>5. QED
      BY <1>0, <1>1, <2>1, <2>2, <3>3, <3>4 DEF BinInv, BinTypeOK, Onward
  <2>5. QED
    BY <2>3, <2>4
<1>2. ASSUME NEW r \in FetchRec, fetch' = [fetch EXCEPT ![f] = r], fetch[f].step \in Active,
             r.step \in Active, r.target = fetch[f].target, UNCHANGED <<cast, release, files, jobs, pages>>,
             VouchInv'
      PROVE  BinInv'
  <2>1. /\ fetch' \in [Fetchers -> FetchRec] /\ fetch'[f] = r
        /\ \A g \in Fetchers : g # f => fetch'[g] = fetch[g]
    BY <1>0, <1>2
  <2>2. UNCHANGED <<asset, sums, listed, cache, kept, byTarget, queue, drains>>
    BY <1>2 DEF release, files, jobs
  <2>3. \A g \in Fetchers : /\ fetch'[g].target = fetch[g].target
                            /\ fetch'[g].step \in Active <=> fetch[g].step \in Active
    BY <1>2, <2>1
  <2>4. Running' = Running /\ \A j \in Jobs : Pending(j) => Pending(j)'
    BY <1>0, <2>2, <2>3 DEF Running, Pending
  <2>5. Range(queue) \subseteq Jobs
    BY <1>0, ElementOfSeq, LenProperties DEF Range
  <2>6. TargetInv'
    BY <1>0, <2>2, <2>3, <2>5 DEF BinInv, TargetInv
  <2>7. SlotsKept'
    BY <2>4 DEF BinInv, SlotsKept
  <2>8. Onward({})
    BY <1>0, <2>1, <2>2, <2>3, <2>4, <2>6, <2>7 DEF Onward
  <2>9. Numbered' /\ Registered' /\ PageInv'
    BY <1>0, <1>2, <2>2, <2>8, OnwardKeeps DEF pages, view
  <2>10. FileTypes' /\ JobTypes' /\ PageTypes' /\ cast' \in Casts
    BY <1>2, <2>1, <2>2 DEF BinInv, BinTypeOK, FileTypes, JobTypes, PageTypes, pages, view
  <2>11. QED
    BY <1>2, <2>6, <2>7, <2>9, <2>10 DEF BinInv, BinTypeOK
<1>3. CASE Download(f)
  <2>1. PICK file \in {asset[fetch[f].target], Bad} : fetch' = [fetch EXCEPT ![f] = [fetch[f] EXCEPT !.step = "manifest", !.temp = file]]
    BY <1>3 DEF Download, Fetching
  <2>2. /\ fetch[f].step = "open" /\ fetch[f].target \in Targets
        /\ UNCHANGED <<cast, release, files, jobs, pages>>
    BY <1>3 DEF Download, BinInv, TargetInv, Active
  <2>3. file \in Files
    BY <1>0, <2>1, <2>2 DEF FileTypes, Sums, Files
  <2> DEFINE r == [fetch[f] EXCEPT !.step = "manifest", !.temp = file]
  <2>4. r \in FetchRec /\ r.step = "manifest" /\ r.target = fetch[f].target /\ r.sums = fetch[f].sums
    BY <1>0, <2>3 DEF FetchRec, Active
  <2> HIDE DEF r
  <2>5. fetch' = [fetch EXCEPT ![f] = r]
    BY <2>1 DEF r
  <2>6. SumsKept
    BY <1>0, <2>4, <2>5 DEF SumsKept
  <2>7. VouchInv'
    <3>1. UNCHANGED <<sums, listed, cache, kept>>
      BY <2>2 DEF release, files
    <3>2. Named(sums)' /\ Named(kept)' /\ CacheVouched'
      BY <1>0, <3>1 DEF Named, CacheVouched
    <3>3. QED
      BY <2>6, <3>1, <3>2, VouchKept
  <2>8. "open" \in Active /\ "manifest" \in Active
    BY DEF Active
  <2>9. QED
    BY <1>2, <2>2, <2>4, <2>5, <2>7, <2>8
<1>4. CASE GetChecksumManifest(f)
  <2> DEFINE m == IF kept # None THEN kept ELSE sums
             r == [fetch[f] EXCEPT !.step = "place", !.fresh = kept = None, !.sums = m]
  <2>1. /\ fetch[f].step = "manifest" /\ m # None /\ fetch' = [fetch EXCEPT ![f] = r]
        /\ UNCHANGED <<cast, release, files, jobs, pages>>
    BY <1>4 DEF GetChecksumManifest, Fetching
  <2>2. m \in Sums \cup {None} /\ Named(m)
    BY <1>0 DEF FileTypes
  <2> HIDE DEF m
  <2>3. (kept = None) \in BOOLEAN
    OBVIOUS
  <2>4. r \in FetchRec /\ r.step = "place" /\ r.target = fetch[f].target /\ r.sums = m
    BY <1>0, <2>2, <2>3 DEF FetchRec, Active
  <2> HIDE DEF r
  <2>5. fetch'[f] = r /\ \A g \in Fetchers : g # f => fetch'[g] = fetch[g]
    BY <1>0, <2>1
  <2>6. UNCHANGED <<sums, listed, cache, kept>>
    BY <2>1 DEF release, files
  <2>7. VouchInv'
    <3>1. ASSUME NEW g \in Fetchers
          PROVE  Named(fetch[g].sums)' /\ (fetch'[g].step = "place" => fetch'[g].sums # None)
      <4>1. CASE g = f
        BY <2>1, <2>2, <2>4, <2>5, <2>6, <4>1 DEF Named
      <4>2. CASE g # f
        BY <2>5, <2>6, <4>2 DEF BinInv, VouchInv, Named
      <4>3. QED
        BY <4>1, <4>2
    <3>2. Named(sums)' /\ Named(kept)' /\ CacheVouched'
      BY <1>0, <2>6 DEF Named, CacheVouched
    <3>3. QED
      BY <3>1, <3>2 DEF VouchInv
  <2>8. "place" \in Active /\ "manifest" \in Active
    BY DEF Active
  <2>9. QED
    BY <1>2, <2>1, <2>4, <2>7, <2>8
<1>5. CASE Place(f)
  <2> DEFINE t == fetch[f].target
             m == fetch[f].sums
  <2>1. fetch[f].step = "place" /\ fetch[f].step \in Active /\ cast' = cast /\ UNCHANGED release
    BY <1>5 DEF Place, Active
  <2>2. t \in Targets /\ m # None /\ Named(m) /\ m \in Sums \cup {None}
    BY <1>0, <2>1 DEF BinInv, TargetInv, VouchInv, FetchRec
  <2>3. CASE Verifies(m, t, fetch[f].temp)
    <3>1. /\ cache' = [cache EXCEPT ![t] = fetch[f].temp] /\ kept' = (IF fetch[f].fresh THEN m ELSE kept)
          /\ Ended(f, "ok")
      BY <1>5, <2>3 DEF Place
    <3>2. <<t, fetch[f].temp>> \in listed /\ fetch[f].temp \in Files
      BY <1>0, <2>2, <2>3 DEF Verifies, Named, FetchRec
    <3>3. cache' \in [Targets -> Files] /\ \A s \in Targets : cache'[s] = IF s = t THEN fetch[f].temp ELSE cache[s]
      BY <1>0, <3>1, <3>2 DEF FileTypes
    <3>4. UNCHANGED <<asset, sums, listed>>
      BY <2>1 DEF release
    <3>5. kept' \in {m, kept}
      BY <3>1
    <3>6. FileTypes' /\ Named(kept)' /\ CacheVouched'
      <4>1. kept' \in Sums \cup {None} /\ Named(kept)'
        BY <1>0, <2>2, <3>4, <3>5 DEF FileTypes, Named
      <4>2. CacheVouched'
        BY <1>0, <3>2, <3>3, <3>4 DEF CacheVouched
      <4>3. QED
        BY <1>0, <3>3, <3>4, <4>1, <4>2 DEF FileTypes
    <3>7. QED
      BY <1>1, <2>1, <3>1, <3>6
  <2>4. CASE ~Verifies(m, t, fetch[f].temp)
    <3>1. Ended(f, "failed") /\ UNCHANGED files
      BY <1>5, <2>4 DEF Place
    <3>2. FileTypes' /\ Named(kept)' /\ CacheVouched'
      BY <1>0, <2>1, <3>1 DEF FileTypes, Named, CacheVouched, files, release
    <3>3. QED
      BY <1>1, <2>1, <3>1, <3>2
  <2>5. QED
    BY <2>3, <2>4
<1>6. CASE FetchFails(f)
  <2>1. fetch[f].step \in Active /\ Ended(f, "failed") /\ UNCHANGED <<cast, release, files>>
    BY <1>6 DEF FetchFails
  <2>2. FileTypes' /\ Named(kept)' /\ CacheVouched'
    BY <1>0, <2>1 DEF FileTypes, Named, CacheVouched, files, release
  <2>3. QED
    BY <1>1, <2>1, <2>2
<1>7. QED
  BY <1>3, <1>4, <1>5, <1>6 DEF FetchStep

\* The queue is drained behind a response.
LEMMA DrainKeeps ==
  ASSUME BinInv, DrainFetchQueue
  PROVE  BinInv'
<1> DEFINE running == Cardinality(Running)
<1>1. /\ fetch' = Drained(queue, fetch, running).fetch /\ queue' = Drained(queue, fetch, running).queue
      /\ drains' = FALSE /\ UNCHANGED <<cast, release, files, byTarget, pages>>
  BY DEF DrainFetchQueue
<1>2. running \in Nat /\ running <= Concurrency /\ running = Cardinality(Running \ {})
  BY JobsFinite DEF BinInv, SlotsKept
<1> HIDE DEF running
<1>3. /\ fetch \in [Fetchers -> FetchRec] /\ byTarget \in [Targets -> Jobs \cup {None}]
      /\ FileTypes /\ PageTypes /\ cast \in Casts
  BY DEF BinInv, BinTypeOK, JobTypes
<1>4. Onward({}) /\ SumsKept
  <2>1. /\ \A g \in Fetchers \ {} : fetch[g] = fetch[g]
        /\ \A g \in Fetchers \cap {} : /\ fetch[g].target = fetch[g].target /\ fetch[g].sums = None
                                       /\ fetch[g].step \in {"ok", "failed"}
    OBVIOUS
  <2>2. QED
    BY <1>1, <1>2, <1>3, <2>1, DrainOnward
<1>5. UNCHANGED <<asset, sums, listed, cache, kept>>
  BY <1>1 DEF release, files
<1>6. VouchInv'
  <2>1. Named(sums)' /\ Named(kept)' /\ CacheVouched'
    BY <1>5 DEF BinInv, VouchInv, Named, CacheVouched
  <2>2. QED
    BY <1>4, <1>5, <2>1, VouchKept
<1>7. Numbered' /\ Registered' /\ PageInv'
  BY <1>1, <1>3, <1>4, OnwardKeeps DEF pages, view
<1>8. JobTypes'
  <2>1. FALSE \in BOOLEAN
    OBVIOUS
  <2>2. QED
    BY <1>1, <1>3, <1>4, <2>1 DEF JobTypes, Onward
<1>9. FileTypes' /\ PageTypes' /\ cast' \in Casts
  BY <1>1, <1>3, <1>5 DEF FileTypes, PageTypes, pages, view
<1>10. QED
  BY <1>4, <1>6, <1>7, <1>8, <1>9 DEF BinInv, BinTypeOK, Onward

-----------------------------------------------------------------------------
(* The pages.                                                              *)

\* The facts about an answer, and about what a page holds.
LEMMA PostFacts ==
  /\ \A p \in Posts : /\ p.target \in Targets /\ p.nr \in 1 .. MaxPresses
                      /\ p.answer = "accepted" => p.job \in Jobs
  /\ \A t \in Targets, n \in 1 .. MaxPresses :
       Unanswered(t, n) \in Posts /\ Unanswered(t, n).target = t /\ Unanswered(t, n).answer = "none"
  /\ \A t \in Targets, n \in 1 .. MaxPresses, j \in Jobs :
       /\ Accepted(t, n, j) \in Posts /\ Accepted(t, n, j).target = t
       /\ Accepted(t, n, j).answer = "accepted" /\ Accepted(t, n, j).job = j
<1>1. \A p \in Posts : p.target \in Targets /\ p.nr \in 1 .. MaxPresses /\ (p.answer = "accepted" => p.job \in Jobs)
  BY DEF Posts
<1>2. \A t \in Targets, n \in 1 .. MaxPresses :
        Unanswered(t, n) \in Posts /\ Unanswered(t, n).target = t /\ Unanswered(t, n).answer = "none"
  BY DEF Posts, Unanswered
<1>3. \A t \in Targets, n \in 1 .. MaxPresses, j \in Jobs :
        /\ Accepted(t, n, j) \in Posts /\ Accepted(t, n, j).target = t
        /\ Accepted(t, n, j).answer = "accepted" /\ Accepted(t, n, j).job = j
  BY DEF Posts, Accepted
<1>4. QED
  BY <1>1, <1>2, <1>3

\* A step of one page leaves the jobs and the other pages alone.
OnlyPage(u) ==
  /\ UNCHANGED <<cast, asset, sums, listed, cache, kept, fetch, byTarget, queue, drains>>
  /\ \A v \in Users \ {u} :
       /\ posting'[v] = posting[v] /\ online'[v] = online[v] /\ missed'[v] = missed[v]
       /\ mail'[v] = mail[v] /\ shown'[v] = shown[v] /\ buffered'[v] = buffered[v]
       /\ named'[v] = named[v] /\ excused'[v] = excused[v]

LEMMA OnePage ==
  ASSUME BinInv, NEW u \in Users, OnlyPage(u), PageTypes', PageOf(u)'
  PROVE  BinInv'
<1>1. UNCHANGED <<cast, asset, sums, listed, cache, kept, fetch, byTarget, queue, drains>>
  BY DEF OnlyPage
<1>2. \A j : Pending(j)' = Pending(j)
  BY <1>1 DEF Pending
<1>3. Created' = Created /\ Running' = Running
  BY <1>1 DEF Created, Running
<1>4. ASSUME NEW v \in Users PROVE PageOf(v)'
  <2>1. CASE v = u
    BY <2>1
  <2>2. CASE v # u
    <3>1. PageOf(v)
      BY DEF BinInv, PageInv
    <3>2. /\ posting'[v] = posting[v] /\ online'[v] = online[v] /\ missed'[v] = missed[v]
          /\ mail'[v] = mail[v] /\ shown'[v] = shown[v] /\ buffered'[v] = buffered[v] /\ fetch' = fetch
          /\ named'[v] = named[v] /\ excused'[v] = excused[v]
      BY <2>2 DEF OnlyPage
    <3>3. \A j : Owed(v, j)' = Owed(v, j)
      BY <1>2, <3>2 DEF Owed
    <3>4. QED
      BY <1>3, <3>1, <3>2, <3>3 DEF PageOf
  <2>3. QED
    BY <2>1, <2>2
<1>5. PageInv'
  BY <1>4 DEF PageInv
<1>6. FileTypes' /\ JobTypes' /\ cast' \in Casts
  BY <1>1 DEF BinInv, BinTypeOK, FileTypes, JobTypes
<1>7. VouchInv' /\ TargetInv'
  BY <1>1 DEF BinInv, VouchInv, TargetInv, Named, CacheVouched
<1>8. SlotsKept' /\ Numbered'
  BY <1>3 DEF BinInv, SlotsKept, Numbered
<1>9. Registered'
  <2>1. ASSUME NEW t \in Targets, byTarget[t] # None PROVE Pending(byTarget[t])' /\ fetch'[byTarget[t]].target = t
    BY <1>1, <1>2, <2>1 DEF BinInv, Registered
  <2>2. QED
    BY <1>1, <2>1 DEF Registered, Pending
<1>10. QED
  BY <1>5, <1>6, <1>7, <1>8, <1>9 DEF BinInv, BinTypeOK

\* A target is asked for: the answer names the job registered for it, which is under way.
LEMMA PostKeeps ==
  ASSUME BinInv, NEW u \in Users, NEW t \in Targets, PostFetch(u, t)
  PROVE  BinInv'
<1>0. PageTypes /\ PageOf(u) /\ byTarget \in [Targets -> Jobs \cup {None}] /\ cast \in Casts
  BY DEF BinInv, BinTypeOK, JobTypes, PageInv
<1>p. PICK n \in 1 .. cast.presses[t] :
        posting' = [posting EXCEPT ![u] = @ \cup
          {IF byTarget[t] # None THEN Accepted(t, n, byTarget[t]) ELSE Unanswered(t, n)}]
  BY DEF PostFetch
<1>n. n \in 1 .. MaxPresses
  <2>1. cast.presses \in [Targets -> 0 .. MaxPresses]
    BY <1>0, BinaryAssumption
  <2>2. cast.presses[t] \in 0 .. MaxPresses /\ MaxPresses \in Nat
    BY <2>1, BinaryAssumption
  <2>3. QED
    BY <1>p, <2>2
<1> DEFINE a == IF byTarget[t] # None THEN Accepted(t, n, byTarget[t]) ELSE Unanswered(t, n)
<1>1. /\ posting' = [posting EXCEPT ![u] = @ \cup {a}]
      /\ UNCHANGED <<cast, release, files, fetch, jobs, online, missed, mail, shown, buffered, view>>
  BY <1>p DEF PostFetch
<1>2. /\ a \in Posts /\ a.target = t
      /\ a.answer = "accepted" => a.job \in Jobs /\ Pending(a.job) /\ fetch[a.job].target = t
  <2>1. CASE byTarget[t] # None
    <3>1. byTarget[t] \in Jobs /\ Pending(byTarget[t]) /\ fetch[byTarget[t]].target = t
      BY <1>0, <2>1 DEF BinInv, Registered
    <3>2. QED
      BY <1>n, <2>1, <3>1, PostFacts
  <2>2. CASE byTarget[t] = None
    BY <1>n, <2>2, PostFacts
  <2>3. QED
    BY <2>1, <2>2
<1> HIDE DEF a
<1>3. posting' \in [Users -> SUBSET Posts] /\ posting'[u] = posting[u] \cup {a}
      /\ \A v \in Users \ {u} : posting'[v] = posting[v]
  BY <1>0, <1>1, <1>2 DEF PageTypes
<1>4. OnlyPage(u) /\ UNCHANGED <<current, named, excused>>
  BY <1>1, <1>3 DEF OnlyPage, release, files, jobs, view
<1>5. PageTypes'
  BY <1>0, <1>1, <1>3, <1>4 DEF PageTypes
<1>6. fetch' = fetch /\ Created' = Created /\ \A j : Owed(u, j)' = Owed(u, j)
  BY <1>1, <1>4 DEF OnlyPage, Created, Pending, Owed
<1>7. \A p \in posting'[u] : p.answer = "accepted" =>
        (p \in posting[u] \/ (Owed(u, p.job) /\ fetch[p.job].target = p.target))
  BY <1>2, <1>3 DEF Owed
<1>8. PageOf(u)'
  BY <1>0, <1>1, <1>4, <1>6, <1>7 DEF PageOf
<1>9. QED
  BY <1>4, <1>5, <1>8, OnePage

\* An answer that is taken away leaves the rest of the page as it was.
LEMMA AnswerGone ==
  ASSUME BinInv, NEW u \in Users, NEW p \in posting[u], posting' = [posting EXCEPT ![u] = @ \ {p}],
         UNCHANGED <<cast, release, files, fetch, jobs, online, missed, mail, shown, buffered, view>>
  PROVE  BinInv'
<1>0. PageTypes /\ PageOf(u)
  BY DEF BinInv, BinTypeOK, PageInv
<1>1. posting' \in [Users -> SUBSET Posts] /\ posting'[u] \subseteq posting[u]
      /\ \A v \in Users \ {u} : posting'[v] = posting[v]
  BY <1>0 DEF PageTypes
<1>2. OnlyPage(u) /\ UNCHANGED <<current, named, excused>>
  BY <1>1 DEF OnlyPage, release, files, jobs, view
<1>3. PageTypes'
  BY <1>0, <1>1, <1>2 DEF PageTypes
<1>4. fetch' = fetch /\ Created' = Created /\ \A j : Owed(u, j)' = Owed(u, j)
  BY <1>2 DEF OnlyPage, Created, Pending, Owed
<1>5. PageOf(u)'
  BY <1>0, <1>1, <1>2, <1>4 DEF PageOf
<1>6. QED
  BY <1>2, <1>3, <1>5, OnePage

\* Telling a page of a job changes the histories of that page only.
LEMMA TellFacts ==
  ASSUME PageTypes, NEW u \in Users, NEW j \in Jobs, Tell(u, j)
  PROVE  /\ named' \in [Users -> SUBSET Jobs] /\ excused' \in [Users -> SUBSET Jobs]
         /\ named'[u] = named[u] \cup {j} /\ excused[u] \subseteq excused'[u]
         /\ j \in named[u] => j \in excused'[u]
         /\ \A v \in Users \ {u} : named'[v] = named[v] /\ excused'[v] = excused[v]
<1>1. named \in [Users -> SUBSET Jobs] /\ excused \in [Users -> SUBSET Jobs]
  BY DEF PageTypes
<1>2. /\ named' = [named EXCEPT ![u] = @ \cup {j}]
      /\ excused' = [excused EXCEPT ![u] = IF j \in named[u] THEN @ \cup {j} ELSE @]
  BY DEF Tell
<1>3. CASE j \in named[u]
  <2>1. excused' = [excused EXCEPT ![u] = @ \cup {j}]
    BY <1>2, <1>3
  <2>2. QED
    BY <1>1, <1>2, <2>1
<1>4. CASE j \notin named[u]
  <2>1. excused' = [excused EXCEPT ![u] = @]
    BY <1>2, <1>4
  <2>2. excused' = excused
    BY <1>1, <2>1
  <2>3. QED
    BY <1>1, <1>2, <1>4, <2>2
<1>5. QED
  BY <1>3, <1>4

\* An accepted answer is recorded, unless the end of the job was heard before; a job that two
\* answers name is excused.
LEMMA RecordKeeps ==
  ASSUME BinInv, NEW u \in Users, RecordAcceptedFetch(u)
  PROVE  BinInv'
<1>0. PageTypes /\ PageOf(u)
  BY DEF BinInv, BinTypeOK, PageInv
<1>1. PICK p \in posting[u] :
        /\ p.answer = "accepted"
        /\ posting' = [posting EXCEPT ![u] = @ \ {p}]
        /\ Tell(u, p.job)
        /\ IF p.job \in buffered[u]
           THEN /\ buffered' = [buffered EXCEPT ![u] = @ \ {p.job}]
                /\ shown' = [shown EXCEPT ![u] = @ \ {p.job}]
                /\ current' = [current EXCEPT ![u][p.target] = None]
           ELSE /\ shown' = [shown EXCEPT ![u] = @ \cup {p.job}]
                /\ current' = [current EXCEPT ![u][p.target] = p.job]
                /\ UNCHANGED buffered
  BY DEF RecordAcceptedFetch
<1>2. UNCHANGED <<cast, release, files, fetch, jobs, online, missed, mail>>
  BY DEF RecordAcceptedFetch
<1>3. /\ p \in Posts /\ p.job \in Jobs /\ p.target \in Targets /\ fetch[p.job].target = p.target
      /\ p.job \in Created
  <2>1. p \in Posts /\ p.job \in Jobs /\ p.target \in Targets /\ fetch[p.job].target = p.target
    BY <1>0, <1>1, PostFacts DEF PageTypes, PageOf
  <2>2. QED
    BY <2>1, BinaryAssumption DEF Created
<1>4. /\ posting' \in [Users -> SUBSET Posts] /\ posting'[u] \subseteq posting[u]
      /\ \A v \in Users \ {u} : posting'[v] = posting[v]
  BY <1>0, <1>1 DEF PageTypes
<1>5. /\ named' \in [Users -> SUBSET Jobs] /\ excused' \in [Users -> SUBSET Jobs]
      /\ named'[u] = named[u] \cup {p.job} /\ excused[u] \subseteq excused'[u]
      /\ p.job \in named[u] => p.job \in excused'[u]
      /\ \A v \in Users \ {u} : named'[v] = named[v] /\ excused'[v] = excused[v]
  BY <1>0, <1>1, <1>3, TellFacts
<1>6. /\ shown' \in [Users -> SUBSET Jobs] /\ buffered' \in [Users -> SUBSET Jobs]
      /\ \A v \in Users \ {u} : shown'[v] = shown[v] /\ buffered'[v] = buffered[v]
      /\ shown'[u] \subseteq shown[u] \cup {p.job}
      /\ buffered[u] \ {p.job} \subseteq buffered'[u]
      /\ p.job \in shown'[u] => p.job \notin buffered[u]
  <2>0. shown \in [Users -> SUBSET Jobs] /\ buffered \in [Users -> SUBSET Jobs]
    BY <1>0 DEF PageTypes
  <2>1. CASE p.job \in buffered[u]
    <3>1. buffered' = [buffered EXCEPT ![u] = @ \ {p.job}] /\ shown' = [shown EXCEPT ![u] = @ \ {p.job}]
      BY <1>1, <2>1
    <3>2. shown'[u] = shown[u] \ {p.job} /\ buffered'[u] = buffered[u] \ {p.job}
      BY <2>0, <3>1
    <3>3. QED
      BY <2>0, <3>1, <3>2
  <2>2. CASE p.job \notin buffered[u]
    <3>1. shown' = [shown EXCEPT ![u] = @ \cup {p.job}] /\ buffered' = buffered
      BY <1>1, <2>2
    <3>2. shown'[u] = shown[u] \cup {p.job}
      BY <2>0, <3>1
    <3>3. QED
      BY <1>3, <2>0, <2>2, <3>1, <3>2
  <2>3. QED
    BY <2>1, <2>2
<1>c. current' \in [Users -> [Targets -> Jobs \cup {None}]]
  <2>1. PICK k \in Jobs \cup {None} : current' = [current EXCEPT ![u][p.target] = k]
    BY <1>1, <1>3
  <2>2. current \in [Users -> [Targets -> Jobs \cup {None}]]
    BY <1>0 DEF PageTypes
  <2>3. QED
    BY <1>3, <2>1, <2>2
<1>7. OnlyPage(u)
  BY <1>2, <1>4, <1>5, <1>6 DEF OnlyPage, release, files, jobs
<1>8. PageTypes'
  BY <1>0, <1>2, <1>4, <1>5, <1>6, <1>c DEF PageTypes
<1>9. /\ fetch' = fetch /\ Created' = Created
      /\ \A j : Owed(u, j) => Owed(u, j)'
      /\ p.job \in named[u] => Owed(u, p.job)'
  BY <1>2, <1>5, <1>7 DEF OnlyPage, Created, Pending, Owed
<1>10. PageOf(u)'
  <2>1. \A q \in posting'[u] : q.answer = "accepted" => fetch'[q.job].target = q.target
    BY <1>0, <1>4, <1>9 DEF PageOf
  <2>2. shown'[u] \subseteq Created' \cap named'[u] /\ (~missed'[u] => online'[u])
    BY <1>0, <1>2, <1>3, <1>5, <1>6, <1>9 DEF PageOf
  <2>3. ~missed'[u] => \A q \in posting'[u] : q.answer = "accepted" =>
          Owed(u, q.job)' \/ q.job \in buffered'[u] \/ q.job \in named'[u]
    BY <1>0, <1>2, <1>4, <1>5, <1>6, <1>9 DEF PageOf
  <2>4. ~missed'[u] => \A j \in shown'[u] : Owed(u, j)'
    BY <1>0, <1>1, <1>2, <1>6, <1>9 DEF PageOf
  <2>5. QED
    BY <2>1, <2>2, <2>3, <2>4 DEF PageOf
<1>11. QED
  BY <1>7, <1>8, <1>10, OnePage

\* The first of a sequence is taken off it.
LEMMA RangeTail ==
  ASSUME NEW s \in Seq(Jobs), s # <<>>
  PROVE  Head(s) \in Jobs /\ Tail(s) \in Seq(Jobs) /\ Range(s) = {Head(s)} \cup Range(Tail(s))
<1>1. /\ Len(s) \in Nat \ {0} /\ Head(s) = s[1] /\ Head(s) \in Jobs /\ DOMAIN s = 1 .. Len(s)
  BY HeadTailProperties, EmptySeq, LenProperties
<1>2. /\ Tail(s) \in Seq(Jobs) /\ Len(Tail(s)) = Len(s) - 1
      /\ \A i \in 1 .. Len(s) - 1 : Tail(s)[i] = s[i + 1]
  BY HeadTailProperties
<1>3. DOMAIN Tail(s) = 1 .. Len(s) - 1
  BY <1>2, LenProperties
<1>4. Range(Tail(s)) \subseteq Range(s) /\ Head(s) \in Range(s)
  BY <1>1, <1>2, <1>3 DEF Range
<1>5. ASSUME NEW j \in Range(s) PROVE j = Head(s) \/ j \in Range(Tail(s))
  <2>1. PICK i \in 1 .. Len(s) : j = s[i]
    BY <1>1 DEF Range
  <2>2. CASE i = 1
    BY <1>1, <2>1, <2>2
  <2>3. CASE i > 1
    <3>1. i - 1 \in 1 .. Len(s) - 1 /\ (i - 1) + 1 = i
      BY <1>1, <2>3
    <3>2. Tail(s)[i - 1] = j
      BY <1>2, <2>1, <3>1
    <3>3. QED
      BY <1>3, <3>1, <3>2 DEF Range
  <2>4. QED
    BY <1>1, <2>2, <2>3
<1>6. QED
  BY <1>1, <1>2, <1>4, <1>5

\* The end of a job is heard: the job is no longer shown, or remembered as over.
LEMMA TerminalKeeps ==
  ASSUME BinInv, NEW u \in Users, FetchTerminal(u)
  PROVE  BinInv'
<1> DEFINE h == Head(mail[u])
<1>0. PageTypes /\ PageOf(u) /\ mail[u] \in Seq(Jobs) /\ mail[u] # <<>>
  BY DEF BinInv, BinTypeOK, PageInv, PageTypes, FetchTerminal
<1>1. /\ mail' = [mail EXCEPT ![u] = Tail(@)]
      /\ IF h \in shown[u]
         THEN /\ shown' = [shown EXCEPT ![u] = @ \ {h}] /\ UNCHANGED buffered
              /\ current' = [current EXCEPT ![u] = Removed(@, h)]
         ELSE buffered' = [buffered EXCEPT ![u] = @ \cup {h}] /\ UNCHANGED <<shown, current>>
      /\ UNCHANGED <<cast, release, files, fetch, jobs, posting, online, missed, named, excused>>
  BY DEF FetchTerminal
<1>2. h \in Jobs /\ Tail(mail[u]) \in Seq(Jobs) /\ Range(mail[u]) = {h} \cup Range(Tail(mail[u]))
  BY <1>0, RangeTail
<1> HIDE DEF h
<1>3. /\ mail' \in [Users -> Seq(Jobs)] /\ mail'[u] = Tail(mail[u])
      /\ \A v \in Users \ {u} : mail'[v] = mail[v]
  BY <1>0, <1>1, <1>2 DEF PageTypes
<1>4. /\ shown' \in [Users -> SUBSET Jobs] /\ buffered' \in [Users -> SUBSET Jobs]
      /\ \A v \in Users \ {u} : shown'[v] = shown[v] /\ buffered'[v] = buffered[v]
      /\ shown'[u] = shown[u] \ {h} /\ buffered[u] \subseteq buffered'[u]
      /\ h \in shown[u] \/ h \in buffered'[u]
  <2>0. shown \in [Users -> SUBSET Jobs] /\ buffered \in [Users -> SUBSET Jobs]
    BY <1>0 DEF PageTypes
  <2>1. CASE h \in shown[u]
    BY <1>1, <2>0, <2>1
  <2>2. CASE h \notin shown[u]
    <3>1. buffered' = [buffered EXCEPT ![u] = @ \cup {h}] /\ shown' = shown
      BY <1>1, <2>2
    <3>2. buffered'[u] = buffered[u] \cup {h}
      BY <2>0, <3>1
    <3>3. QED
      BY <1>2, <2>0, <2>2, <3>1, <3>2
  <2>3. QED
    BY <2>1, <2>2
<1>c. current' \in [Users -> [Targets -> Jobs \cup {None}]]
  <2>1. current \in [Users -> [Targets -> Jobs \cup {None}]]
    BY <1>0 DEF PageTypes
  <2>2. Removed(current[u], h) \in [Targets -> Jobs \cup {None}]
    BY <2>1 DEF Removed
  <2>3. current' = current \/ current' = [current EXCEPT ![u] = Removed(current[u], h)]
    BY <1>1, <2>1
  <2>4. QED
    BY <2>1, <2>2, <2>3
<1>5. OnlyPage(u)
  BY <1>1, <1>3, <1>4 DEF OnlyPage, release, files, jobs
<1>6. PageTypes'
  BY <1>0, <1>1, <1>3, <1>4, <1>c DEF PageTypes
<1>7. /\ fetch' = fetch /\ Created' = Created /\ posting' = posting /\ missed' = missed
      /\ online' = online /\ named' = named
  BY <1>1, <1>5 DEF OnlyPage, Created
<1>8. \A j : Owed(u, j) => Owed(u, j)' \/ j = h
  BY <1>1, <1>2, <1>3, <1>5 DEF OnlyPage, Pending, Owed
<1>9. PageOf(u)'
  <2>1. h \in buffered'[u] \/ h \in named'[u]
    BY <1>0, <1>4, <1>7 DEF PageOf
  <2>2. /\ \A p \in posting'[u] : p.answer = "accepted" => fetch'[p.job].target = p.target
        /\ shown'[u] \subseteq Created' \cap named'[u] /\ (~missed'[u] => online'[u])
    BY <1>0, <1>4, <1>7 DEF PageOf
  <2>3. ~missed'[u] => \A p \in posting'[u] : p.answer = "accepted" =>
          Owed(u, p.job)' \/ p.job \in buffered'[u] \/ p.job \in named'[u]
    BY <1>0, <1>4, <1>7, <1>8, <2>1 DEF PageOf
  <2>4. ~missed'[u] => \A j \in shown'[u] : Owed(u, j)'
    BY <1>0, <1>4, <1>7, <1>8 DEF PageOf
  <2>5. QED
    BY <2>2, <2>3, <2>4 DEF PageOf
<1>10. QED
  BY <1>5, <1>6, <1>9, OnePage

\* News of progress moves a job that is shown to its target's place.
LEMMA ProgressKeeps ==
  ASSUME BinInv, NEW u \in Users, FetchProgress(u)
  PROVE  BinInv'
<1>0. PageTypes /\ PageOf(u) /\ fetch \in [Fetchers -> FetchRec]
  BY DEF BinInv, BinTypeOK, JobTypes, PageInv
<1>1. PICK j \in shown[u] : current' = [current EXCEPT ![u][fetch[j].target] = j]
  BY DEF FetchProgress
<1>2. UNCHANGED <<cast, release, files, fetch, jobs, posting, online, missed, mail, shown, buffered,
                  named, excused>>
  BY DEF FetchProgress
<1>3. j \in Jobs /\ fetch[j].target \in Targets
  <2>1. j \in Jobs /\ fetch[j].target # None
    BY <1>0, <1>1 DEF PageOf, Created
  <2>2. fetch[j] \in FetchRec
    BY <1>0, <2>1, JobsFinite
  <2>3. QED
    BY <2>1, <2>2 DEF FetchRec
<1>4. current' \in [Users -> [Targets -> Jobs \cup {None}]]
  BY <1>0, <1>1, <1>3 DEF PageTypes
<1>5. PageTypes' /\ OnlyPage(u)
  BY <1>0, <1>2, <1>4 DEF PageTypes, OnlyPage, release, files, jobs
<1>6. Created' = Created /\ \A k : Owed(u, k)' = Owed(u, k)
  BY <1>2, <1>5 DEF OnlyPage, Created, Pending, Owed
<1>7. PageOf(u)'
  BY <1>0, <1>2, <1>6 DEF PageOf
<1>8. QED
  BY <1>5, <1>7, OnePage

\* An end that is dropped from the buffer excuses its job.
LEMMA PruneBufferedKeeps ==
  ASSUME BinInv, NEW u \in Users, PruneBuffered(u)
  PROVE  BinInv'
<1>0. PageTypes /\ PageOf(u)
  BY DEF BinInv, BinTypeOK, PageInv
<1>1. PICK j \in buffered[u] : /\ buffered' = [buffered EXCEPT ![u] = @ \ {j}]
                               /\ excused' = [excused EXCEPT ![u] = @ \cup {j}]
  BY DEF PruneBuffered
<1>2. UNCHANGED <<cast, release, files, fetch, jobs, posting, online, missed, mail, shown, current, named>>
  BY DEF PruneBuffered
<1>3. /\ buffered' \in [Users -> SUBSET Jobs] /\ excused' \in [Users -> SUBSET Jobs]
      /\ buffered'[u] = buffered[u] \ {j} /\ excused'[u] = excused[u] \cup {j}
      /\ \A v \in Users \ {u} : buffered'[v] = buffered[v] /\ excused'[v] = excused[v]
  BY <1>0, <1>1 DEF PageTypes
<1>4. PageTypes' /\ OnlyPage(u)
  BY <1>0, <1>2, <1>3 DEF PageTypes, OnlyPage, release, files, jobs
<1>5. Created' = Created /\ Owed(u, j)' /\ \A k : Owed(u, k) => Owed(u, k)'
  BY <1>2, <1>3, <1>4 DEF OnlyPage, Created, Pending, Owed
<1>6. PageOf(u)'
  <2>1. \A k \in buffered[u] : k \in buffered'[u] \/ Owed(u, k)'
    BY <1>3, <1>5
  <2>2. QED
    BY <1>0, <1>2, <1>5, <2>1 DEF PageOf
<1>7. QED
  BY <1>4, <1>6, OnePage

\* A page that loses its connection may miss the end of a job; it comes back none the wiser.
LEMMA ConnectionKeeps ==
  ASSUME BinInv, NEW u \in Users, Disconnect(u) \/ Reconnect(u)
  PROVE  BinInv'
<1>0. PageTypes /\ PageOf(u)
  BY DEF BinInv, BinTypeOK, PageInv
<1>b. TRUE \in BOOLEAN /\ FALSE \in BOOLEAN /\ <<>> \in Seq(Jobs)
  BY EmptySeq
<1>1. CASE Disconnect(u)
  <2>1. /\ online' = [online EXCEPT ![u] = FALSE] /\ missed' = [missed EXCEPT ![u] = TRUE]
        /\ mail' = [mail EXCEPT ![u] = <<>>]
        /\ UNCHANGED <<cast, release, files, fetch, jobs, posting, shown, buffered, current, named, excused>>
    BY <1>1 DEF Disconnect, view
  <2>2. PageTypes' /\ missed'[u]
    <3>1. online' \in [Users -> BOOLEAN] /\ missed' \in [Users -> BOOLEAN] /\ missed'[u]
      BY <1>0, <2>1, Zenon DEF PageTypes
    <3>2. mail' \in [Users -> Seq(Jobs)]
      BY <1>0, <1>b, <2>1 DEF PageTypes
    <3>3. QED
      BY <1>0, <2>1, <3>1, <3>2 DEF PageTypes
  <2>3. OnlyPage(u)
    <3>1. \A v \in Users \ {u} : online'[v] = online[v] /\ missed'[v] = missed[v] /\ mail'[v] = mail[v]
      BY <1>0, <2>1 DEF PageTypes
    <3>2. QED
      BY <2>1, <3>1 DEF OnlyPage, release, files, jobs
  <2>4. PageOf(u)'
    BY <1>0, <2>1, <2>2, <2>3 DEF PageOf, OnlyPage, Created
  <2>5. QED
    BY <2>2, <2>3, <2>4, OnePage
<1>2. CASE Reconnect(u)
  <2>1. /\ online' = [online EXCEPT ![u] = TRUE] /\ ~online[u]
        /\ UNCHANGED <<cast, release, files, fetch, jobs, posting, missed, mail, shown, buffered, current, named, excused>>
    BY <1>2 DEF Reconnect, view
  <2>2. PageTypes'
    <3>1. online' \in [Users -> BOOLEAN]
      BY <1>0, <2>1, Zenon DEF PageTypes
    <3>2. QED
      BY <1>0, <2>1, <3>1 DEF PageTypes
  <2>3. OnlyPage(u)
    <3>1. \A v \in Users \ {u} : online'[v] = online[v]
      BY <1>0, <2>1 DEF PageTypes
    <3>2. QED
      BY <2>1, <3>1 DEF OnlyPage, release, files, jobs
  <2>4. missed[u]
    BY <1>0, <2>1 DEF PageOf
  <2>5. PageOf(u)'
    BY <1>0, <2>1, <2>3, <2>4 DEF PageOf, OnlyPage, Created
  <2>6. QED
    BY <2>2, <2>3, <2>5, OnePage
<1>3. QED
  BY <1>1, <1>2

\* A new job is queued and registered under a number that nobody has seen.
LEMMA CreateKeeps ==
  ASSUME BinInv, NEW u \in Users, CreateJob(u)
  PROVE  BinInv'
<1>0. /\ PageTypes /\ JobTypes /\ FileTypes /\ cast \in Casts /\ PageOf(u)
      /\ fetch \in [Fetchers -> FetchRec] /\ byTarget \in [Targets -> Jobs \cup {None}]
      /\ queue \in Seq(Jobs) /\ Range(queue) \subseteq Jobs /\ Jobs \subseteq Fetchers
  <2>1. /\ PageTypes /\ JobTypes /\ FileTypes /\ cast \in Casts /\ PageOf(u)
        /\ fetch \in [Fetchers -> FetchRec] /\ byTarget \in [Targets -> Jobs \cup {None}]
        /\ queue \in Seq(Jobs)
    BY DEF BinInv, BinTypeOK, PageInv, JobTypes
  <2>2. QED
    BY <2>1, JobsFinite, ElementOfSeq, LenProperties DEF Range
<1>n. PICK n \in Nat : n = Cardinality(Created)
  BY JobsFinite
<1> DEFINE j == n + 1
<1>1. PICK p \in posting[u] :
        /\ p.answer = "none"
        /\ \/ /\ posting' = [posting EXCEPT ![u] = @ \ {p}]
              /\ UNCHANGED <<fetch, jobs>>
           \/ /\ n < MaxJobs
              /\ Fetching(j, FetchAt("queued", p.target))
              /\ byTarget' = [byTarget EXCEPT ![p.target] = j]
              /\ queue' = Append(queue, j)
              /\ \/ drains' = TRUE /\ Reply(u, p, Accepted(p.target, p.nr, j))
                 \/ UNCHANGED drains /\ posting' = [posting EXCEPT ![u] = @ \ {p}]
  BY <1>n DEF CreateJob
<1>2. UNCHANGED <<cast, release, files, online, missed, mail, shown, buffered, view, current, named, excused>>
  BY DEF CreateJob, view
<1>3. CASE posting' = [posting EXCEPT ![u] = @ \ {p}] /\ UNCHANGED <<fetch, jobs>>
  BY <1>2, <1>3, AnswerGone
<1>4. CASE /\ n < MaxJobs
           /\ Fetching(j, FetchAt("queued", p.target))
           /\ byTarget' = [byTarget EXCEPT ![p.target] = j]
           /\ queue' = Append(queue, j)
           /\ \/ drains' = TRUE /\ Reply(u, p, Accepted(p.target, p.nr, j))
              \/ UNCHANGED drains /\ posting' = [posting EXCEPT ![u] = @ \ {p}]
  <2>1. n \in Nat /\ j \in Jobs /\ j \in Fetchers /\ Created = 1 .. n /\ j \notin Created
    <3>1. n \in Nat /\ Created = 1 .. n
      BY <1>n DEF BinInv, Numbered
    <3>2. j \in Jobs
      BY <1>4, <3>1, BinaryAssumption DEF Jobs
    <3>3. QED
      BY <1>0, <3>1, <3>2
  <2> DEFINE t == p.target
  <2>2. p \in Posts /\ t \in Targets /\ p.nr \in 1 .. MaxPresses
    BY <1>0, <1>1, PostFacts DEF PageTypes
  <2> HIDE DEF j
  <2>3. fetch[j].target = None /\ fetch[j].step \notin Active /\ j \notin Range(queue)
    <3>1. fetch[j].target = None
      BY <2>1 DEF Created
    <3>2. QED
      BY <2>1, <3>1, BinaryAssumption DEF BinInv, TargetInv
  <2>4. /\ FetchAt("queued", t) \in FetchRec /\ FetchAt("queued", t).step = "queued"
        /\ FetchAt("queued", t).target = t /\ FetchAt("queued", t).sums = None
    BY <2>2, FetchAtRec
  <2>5. /\ fetch' \in [Fetchers -> FetchRec] /\ fetch'[j] = FetchAt("queued", t)
        /\ \A g \in Fetchers : g # j => fetch'[g] = fetch[g]
    BY <1>0, <1>4, <2>1, <2>4 DEF Fetching
  <2>6. queue' \in Seq(Jobs) /\ Range(queue') = Range(queue) \cup {j}
    BY <1>0, <1>4, <2>1, RangeAppend
  <2>7. UNCHANGED <<asset, sums, listed, cache, kept>>
    BY <1>2 DEF release, files
  <2>8. VouchInv'
    <3>1. SumsKept
      BY <2>4, <2>5 DEF SumsKept
    <3>2. Named(sums)' /\ Named(kept)' /\ CacheVouched'
      BY <2>7 DEF BinInv, VouchInv, Named, CacheVouched
    <3>3. QED
      BY <2>7, <3>1, <3>2, VouchKept
  <2>9. "queued" \notin Active
    BY DEF Active
  <2>10. TargetInv'
    <3>1. \A g \in Fetchers : fetch'[g].step \in Active => fetch'[g].target \in Targets
      BY <2>4, <2>5, <2>9 DEF BinInv, TargetInv
    <3>2. \A k \in Range(queue') : fetch'[k].target \in Targets
      BY <1>0, <2>2, <2>4, <2>5, <2>6 DEF BinInv, TargetInv
    <3>3. QED
      BY <3>1, <3>2 DEF TargetInv
  <2>11. SlotsKept'
    <3>1. Running' = Running
      BY <1>0, <2>3, <2>4, <2>5, <2>9 DEF Running
    <3>2. QED
      BY <3>1 DEF BinInv, SlotsKept
  <2>12. Created' = Created \cup {j}
    <3>1. t # None
      BY <2>2, BinaryAssumption
    <3>2. QED
      BY <1>0, <2>1, <2>4, <2>5, <3>1 DEF Created
  <2>13. Numbered'
    <3>1. Created' = 1 .. n + 1
      BY <2>1, <2>12 DEF j
    <3>2. Cardinality(1 .. n + 1) = n + 1
      BY <2>1, FS_Interval
    <3>3. QED
      BY <3>1, <3>2 DEF Numbered
  <2>14. \A k \in Jobs : Pending(k) => Pending(k)' /\ k # j /\ fetch'[k] = fetch[k]
    BY <1>0, <2>3, <2>5, <2>6 DEF Pending
  <2>15. Pending(j)'
    BY <2>6 DEF Pending
  <2>16. /\ byTarget' \in [Targets -> Jobs \cup {None}]
         /\ \A s \in Targets : byTarget'[s] = IF s = t THEN j ELSE byTarget[s]
    BY <1>0, <1>4, <2>1, <2>2
  <2>17. Registered'
    <3>1. ASSUME NEW s \in Targets, byTarget'[s] # None
          PROVE  (Pending(byTarget[s]) /\ fetch[byTarget[s]].target = s)'
      <4>1. PICK b \in Jobs : b = byTarget'[s]
        BY <2>16, <3>1
      <4>2. Pending(b)' /\ fetch'[b].target = s
        <5>1. CASE s = t
          BY <2>4, <2>5, <2>15, <2>16, <4>1, <5>1
        <5>2. CASE s # t
          <6>1. b = byTarget[s] /\ b # None
            BY <2>16, <3>1, <4>1, <5>2
          <6>2. Pending(b) /\ fetch[b].target = s
            BY <6>1 DEF BinInv, Registered
          <6>3. QED
            BY <2>14, <6>2
        <5>3. QED
          BY <5>1, <5>2
      <4>3. QED
        BY <4>1, <4>2 DEF Pending
    <3>2. QED
      BY <3>1 DEF Registered
  <2> DEFINE a == Accepted(t, p.nr, j)
  <2>18. a \in Posts /\ a.target = t /\ a.answer = "accepted" /\ a.job = j
    BY <2>1, <2>2, PostFacts
  <2>19. /\ posting' \in [Users -> SUBSET Posts] /\ posting'[u] \subseteq posting[u] \cup {a}
         /\ \A v \in Users \ {u} : posting'[v] = posting[v]
    <3>1. posting \in [Users -> SUBSET Posts]
      BY <1>0 DEF PageTypes
    <3>2. CASE Reply(u, p, a)
      <4>1. posting' = [posting EXCEPT ![u] = (@ \ {p}) \cup {a}]
        BY <3>2 DEF Reply
      <4> HIDE DEF a
      <4>2. QED
        BY <2>18, <3>1, <4>1
    <3>3. CASE posting' = [posting EXCEPT ![u] = @ \ {p}]
      BY <3>1, <3>3
    <3>4. QED
      BY <1>4, <3>2, <3>3
  <2> HIDE DEF a
  <2>20. \A v \in Users : \A q \in posting[v] : q.answer = "accepted" =>
           q.job \in Jobs /\ q.job # j /\ fetch'[q.job] = fetch[q.job]
    <3>1. ASSUME NEW v \in Users, NEW q \in posting[v], q.answer = "accepted"
          PROVE  q.job \in Jobs /\ q.job # j /\ fetch'[q.job] = fetch[q.job]
      <4>1. q \in Posts
        BY <1>0, <3>1 DEF PageTypes
      <4>2. q.job \in Jobs /\ q.target \in Targets
        BY <3>1, <4>1, PostFacts
      <4>3. fetch[q.job].target = q.target
        BY <3>1 DEF BinInv, PageInv, PageOf
      <4>4. q.job # j
        BY <2>3, <4>2, <4>3, BinaryAssumption
      <4>5. QED
        BY <1>0, <2>5, <4>2, <4>4
    <3>2. QED
      BY <3>1
  <2>21. \A v \in Users : \A k \in shown[v] : k \in Jobs /\ k # j /\ fetch'[k] = fetch[k]
    <3>1. \A v \in Users : shown[v] \subseteq Created
      BY DEF BinInv, PageInv, PageOf
    <3>2. QED
      BY <1>0, <2>1, <2>5, <3>1 DEF Created
  <2>22. ASSUME NEW v \in Users PROVE PageOf(v)'
    <3>0. PageOf(v)
      BY DEF BinInv, PageInv
    <3>1. \A q \in posting'[v] : q \in posting[v] \/ q = a
      BY <2>19
    <3>2. \A q \in posting'[v] : q.answer = "accepted" => fetch'[q.job].target = q.target
      BY <2>4, <2>5, <2>18, <2>20, <3>0, <3>1 DEF PageOf
    <3>3. shown'[v] \subseteq Created' \cap named'[v] /\ (~missed'[v] => online'[v])
      BY <1>2, <2>12, <3>0 DEF PageOf
    <3>4. \A k \in Jobs : Owed(v, k) => Owed(v, k)'
      BY <1>2, <2>14 DEF Owed
    <3>5. Owed(v, j)'
      BY <2>15 DEF Owed
    <3>6. ~missed'[v] => \A q \in posting'[v] : q.answer = "accepted" =>
            Owed(v, q.job)' \/ q.job \in buffered'[v] \/ q.job \in named'[v]
      BY <1>2, <2>18, <2>20, <3>0, <3>1, <3>4, <3>5 DEF PageOf
    <3>7. ~missed'[v] => \A k \in shown'[v] : Owed(v, k)'
      BY <1>2, <2>21, <3>0, <3>4 DEF PageOf
    <3>8. QED
      BY <3>2, <3>3, <3>6, <3>7 DEF PageOf
  <2>23. JobTypes'
    <3>1. drains' \in BOOLEAN
      BY <1>0, <1>4, Zenon DEF JobTypes
    <3>2. QED
      BY <2>5, <2>6, <2>16, <3>1 DEF JobTypes
  <2>24. FileTypes' /\ PageTypes' /\ cast' \in Casts
    BY <1>0, <1>2, <2>7, <2>19 DEF FileTypes, PageTypes
  <2>25. QED
    BY <2>8, <2>10, <2>11, <2>13, <2>17, <2>22, <2>23, <2>24 DEF BinInv, BinTypeOK, PageInv
<1>5. QED
  BY <1>1, <1>3, <1>4

\* Every step of the cache, the queue and the pages preserves the invariant.
LEMMA BinStep ==
  ASSUME BinInv, BinNext
  PROVE  BinInv'
<1>1. ASSUME NEW t \in Targets, PublishAsset(t) \/ ImportUpload(t) \/ CmdAgentImport(t) PROVE BinInv'
  BY <1>1, ReleaseStep
<1>2. ASSUME NEW t \in Targets, CliFetch(t) PROVE BinInv'
  <2>1. fetch' = [fetch EXCEPT ![Cli] = Start(t)] /\ UNCHANGED <<cast, release, files, jobs, pages>>
    BY <1>2 DEF CliFetch, Fetching
  <2>2. QED
    BY <2>1, OtherStarts, BinaryAssumption
<1>3. CASE PublishSums \/ Prune
  BY <1>3, ReleaseStep, DeployAssumption
<1>4. CASE DrainFetchQueue
  BY <1>4, DrainKeeps
<1>5. ASSUME NEW f \in Fetchers, FetchStep(f) PROVE BinInv'
  BY <1>5, FetchStepKeeps
<1>6. ASSUME NEW u \in Users, PageStep(u) PROVE BinInv'
  BY <1>6, PostKeeps, CreateKeeps, RecordKeeps, TerminalKeeps, ProgressKeeps, PruneBufferedKeeps,
     ConnectionKeeps DEF PageStep
<1>7. QED
  BY <1>1, <1>2, <1>3, <1>4, <1>5, <1>6 DEF BinNext

\* It holds while nothing is published, fetched or shown.
LEMMA BinStart ==
  ASSUME BinInit
  PROVE  BinInv
<1>1. \A f \in Fetchers : fetch[f] = NoFetch
  BY DEF BinInit
<1>2. /\ NoFetch \in FetchRec /\ NoFetch.step = "idle" /\ NoFetch.target = None /\ NoFetch.sums = None
  BY FetchAtRec DEF NoFetch
<1>3. Running = {} /\ Created = {} /\ Jobs \subseteq Fetchers
  BY <1>1, <1>2, JobsFinite DEF Running, Created, Active
<1>4. Cardinality(Running) = 0 /\ Cardinality(Created) = 0
  BY <1>3, FS_EmptySet
<1>5. <<>> \in Seq(Jobs) /\ Range(<<>>) = {}
  BY EmptySeq DEF Range
<1>6. BinTypeOK
  <2>1. FileTypes
    BY BinaryAssumption DEF BinInit, FileTypes, Sums, Files
  <2>2. JobTypes
    <3>1. fetch \in [Fetchers -> FetchRec]
      BY <1>2 DEF BinInit
    <3>2. drains \in BOOLEAN
      BY DEF BinInit
    <3>3. QED
      BY <1>5, <3>1, <3>2 DEF BinInit, JobTypes
  <2>3. PageTypes
    <3>1. online \in [Users -> BOOLEAN] /\ missed \in [Users -> BOOLEAN]
      BY Zenon DEF BinInit
    <3>2. QED
      BY <1>5, <3>1 DEF BinInit, PageTypes
  <2>4. QED
    BY <2>1, <2>2, <2>3 DEF BinInit, BinTypeOK
<1>7. VouchInv
  BY <1>1, <1>2 DEF BinInit, VouchInv, Named, CacheVouched
<1>8. TargetInv
  BY <1>1, <1>2, <1>5 DEF BinInit, TargetInv, Active
<1>9. SlotsKept /\ Numbered
  BY <1>3, <1>4, BinaryAssumption DEF SlotsKept, Numbered
<1>10. Registered
  BY DEF BinInit, Registered
<1>11. PageInv
  BY DEF BinInit, PageInv, PageOf
<1>12. QED
  BY <1>6, <1>7, <1>8, <1>9, <1>10, <1>11 DEF BinInv

-----------------------------------------------------------------------------
(* The connections.                                                        *)

\* The user agreed to it, or a manifest named it for the platform of the host.
Trusted(sha) == sha \in consent \/ <<Platform, sha>> \in listed

KeyChecked == {"check", "local", "fetching", "upload", "uploading", "askAgent", "run", "up"}

\* What a connection believes is trusted is; past the check of the key, the key is; what it
\* uploads is from the cache; what it is about to run, or runs, is trusted.
ConnOk(c) ==
  /\ c.fps \subseteq consent
  /\ \A sha \in c.trusted : Trusted(sha)
  /\ c.local # NoFile => <<Platform, c.local>> \in listed
  /\ c.found => c.sha # NoFile
  /\ c.step = "askKey" => c.key \in Keys
  /\ c.step \in KeyChecked => c.key \in consent
  /\ c.step = "uploading" => <<Platform, c.sha>> \in listed
  /\ c.step \in {"run", "up"} => Trusted(c.sha)

\* What the hub remembers was agreed to or vouched for.
HubOk ==
  /\ \A k \in {storedFp, onceFp} : k # None => k \in consent
  /\ \A sha \in {pinned, onceSha} : sha # None => Trusted(sha)

DeployInv == BinInv /\ HostTypes /\ HubOk /\ \A d \in Conns : ConnOk(conn[d])

\* The list of vouched builds only grows.
LEMMA ListedGrows ==
  ASSUME BinNext
  PROVE  listed \subseteq listed'
<1>1. ASSUME NEW t \in Targets, PublishAsset(t) \/ CliFetch(t) \/ ImportUpload(t) \/ CmdAgentImport(t)
      PROVE  listed \subseteq listed'
  BY <1>1 DEF PublishAsset, CliFetch, ImportUpload, CmdAgentImport, Import, release
<1>2. CASE PublishSums \/ Prune \/ DrainFetchQueue
  BY <1>2 DEF PublishSums, Prune, DrainFetchQueue, release
<1>3. ASSUME NEW f \in Fetchers, FetchStep(f) PROVE listed \subseteq listed'
  BY <1>3 DEF FetchStep, Download, GetChecksumManifest, Place, FetchFails, release
<1>4. ASSUME NEW u \in Users, PageStep(u) PROVE listed \subseteq listed'
  <2>1. UNCHANGED release
    BY <1>4 DEF PageStep, PostFetch, CreateJob, RecordAcceptedFetch, FetchTerminal, FetchProgress,
                PruneBuffered, Disconnect, Reconnect
  <2>2. QED
    BY <2>1 DEF release
<1>5. QED
  BY <1>1, <1>2, <1>3, <1>4 DEF BinNext

\* A step that leaves the cache, the queue and the pages alone.
LEMMA BinStill ==
  ASSUME BinInv, UNCHANGED binVars
  PROVE  BinInv'
<1>1. UNCHANGED <<cast, asset, sums, listed, cache, kept, fetch, jobs, pages>>
  BY DEF binVars, release, files
<1>2. FileTypes' /\ Named(sums)' /\ Named(kept)' /\ CacheVouched'
  BY <1>1 DEF BinInv, BinTypeOK, VouchInv, FileTypes, Named, CacheVouched
<1>3. QED
  BY <1>1, <1>2, FilesStep

\* What was trusted stays trusted.
LEMMA TrustGrows ==
  ASSUME consent \subseteq consent', listed \subseteq listed'
  PROVE  /\ \A sha : Trusted(sha) => Trusted(sha)'
         /\ \A c : ConnOk(c) => ConnOk(c)'
<1>1. \A sha : Trusted(sha) => Trusted(sha)'
  BY DEF Trusted
<1>2. QED
  BY <1>1 DEF ConnOk

\* A step of one connection.
LEMMA OneConn ==
  ASSUME DeployInv, NEW d \in Conns, NEW r \in ConnRec, conn' = [conn EXCEPT ![d] = r],
         consent \subseteq consent', listed \subseteq listed', ConnOk(r)',
         BinInv', HubOk', hostKey' \in Keys, remote' \in Files,
         {storedFp', onceFp'} \subseteq Keys \cup {None},
         {pinned', onceSha'} \subseteq Files \cup {Unknown, None}
  PROVE  DeployInv'
<1>1. conn \in [Conns -> ConnRec]
  BY DEF DeployInv, HostTypes
<1>2. conn' \in [Conns -> ConnRec] /\ conn'[d] = r /\ \A e \in Conns : e # d => conn'[e] = conn[e]
  BY <1>1
<1>3. ASSUME NEW e \in Conns PROVE ConnOk(conn[e])'
  <2>1. CASE e = d
    BY <1>2, <2>1 DEF ConnOk
  <2>2. CASE e # d
    <3>1. PICK c \in ConnRec : c = conn[e] /\ c = conn'[e] /\ ConnOk(c)
      BY <1>1, <1>2, <2>2 DEF DeployInv
    <3>2. ConnOk(c)'
      BY <3>1, TrustGrows
    <3>3. QED
      BY <3>1, <3>2 DEF ConnOk
  <2>3. QED
    BY <2>1, <2>2
<1>4. HostTypes'
  BY <1>2 DEF HostTypes
<1>5. QED
  BY <1>3, <1>4 DEF DeployInv

\* A step of a connection that changes nothing but its record.
LEMMA ConnMoves ==
  ASSUME DeployInv, NEW d \in Conns, NEW r \in ConnRec, conn' = [conn EXCEPT ![d] = r], ConnOk(r),
         UNCHANGED <<listed, hub, host, consent>>, BinInv'
  PROVE  DeployInv'
<1>1. UNCHANGED <<storedFp, onceFp, pinned, onceSha, hostKey, remote, consent, listed>>
  BY DEF hub, host
<1>2. HubOk' /\ ConnOk(r)'
  BY <1>1, TrustGrows DEF DeployInv, HubOk, Trusted
<1>3. /\ hostKey' \in Keys /\ remote' \in Files
      /\ {storedFp', onceFp'} \subseteq Keys \cup {None}
      /\ {pinned', onceSha'} \subseteq Files \cup {Unknown, None}
  BY <1>1 DEF DeployInv, HostTypes
<1>4. QED
  BY <1>1, <1>2, <1>3, OneConn

\* The record of a connection that only moves to another step.
LEMMA Moved ==
  ASSUME NEW c \in ConnRec,
         NEW step \in Settled \cup {"auth", "dial", "askKey", "check", "local", "fetching", "upload",
                                    "uploading", "askAgent", "run"}
  PROVE  LET r == [c EXCEPT !.step = step] IN
         /\ r \in ConnRec /\ r.step = step /\ r.fps = c.fps /\ r.key = c.key /\ r.trusted = c.trusted
         /\ r.found = c.found /\ r.sha = c.sha /\ r.local = c.local
BY DEF ConnRec

\* A connection is made: what is trusted is read, and the key of the host is verified.
LEMMA KeySteps ==
  ASSUME DeployInv, NEW d \in Conns, Connect(d) \/ Authenticate(d) \/ HostVerifier(d) \/ TrustHostKey(d)
  PROVE  DeployInv'
<1>0. /\ conn \in [Conns -> ConnRec] /\ conn[d] \in ConnRec /\ ConnOk(conn[d]) /\ HubOk /\ BinInv
      /\ hostKey \in Keys /\ remote \in Files
      /\ {storedFp, onceFp} \subseteq Keys \cup {None}
      /\ {pinned, onceSha} \subseteq Files \cup {Unknown, None}
  BY DEF DeployInv, HostTypes
<1>1. UNCHANGED binVars
  BY DEF Connect, Authenticate, HostVerifier, TrustHostKey
<1>2. BinInv' /\ listed' = listed
  BY <1>0, <1>1, BinStill DEF binVars, release
<1>3. CASE Connect(d)
  <2> DEFINE r == [Idle EXCEPT !.step = "auth", !.fps = {storedFp, onceFp} \ {None},
                               !.trusted = {pinned, onceSha} \ {None}]
  <2>1. conn' = [conn EXCEPT ![d] = r] /\ UNCHANGED <<hub, host, consent>>
    BY <1>3 DEF Connect, Go
  <2>2. /\ r.step = "auth" /\ r.fps = {storedFp, onceFp} \ {None} /\ r.key = None
        /\ r.trusted = {pinned, onceSha} \ {None} /\ ~r.found /\ r.sha = NoFile /\ r.local = NoFile
    BY DEF Idle
  <2>3. r \in ConnRec
    <3>1. FALSE \in BOOLEAN /\ NoFile \in Files
      BY DEF Files
    <3>2. {storedFp, onceFp} \ {None} \in SUBSET Keys /\ {pinned, onceSha} \ {None} \in SUBSET (Files \cup {Unknown})
      BY <1>0
    <3>3. QED
      BY <3>1, <3>2 DEF ConnRec, Idle
  <2> HIDE DEF r
  <2>4. ConnOk(r)
    BY <1>0, <2>2 DEF ConnOk, HubOk, KeyChecked
  <2>5. QED
    BY <1>2, <2>1, <2>3, <2>4, ConnMoves
<1>4. CASE Authenticate(d)
  <2> DEFINE r == [conn[d] EXCEPT !.step = "dial"]
  <2>1. conn' = [conn EXCEPT ![d] = r] /\ UNCHANGED <<hub, host, consent>>
    BY <1>4 DEF Authenticate, To, Go
  <2>2. /\ r \in ConnRec /\ r.step = "dial" /\ r.fps = conn[d].fps /\ r.key = conn[d].key
        /\ r.trusted = conn[d].trusted /\ r.found = conn[d].found /\ r.sha = conn[d].sha
        /\ r.local = conn[d].local
    BY <1>0, Moved
  <2> HIDE DEF r
  <2>3. ConnOk(r)
    BY <1>0, <2>2 DEF ConnOk, KeyChecked
  <2>4. QED
    BY <1>2, <2>1, <2>2, <2>3, ConnMoves
<1>5. CASE HostVerifier(d)
  <2> DEFINE s == IF hostKey \in conn[d].fps THEN "check"
                  ELSE IF conn[d].retried THEN "failed" ELSE "askKey"
             r == [conn[d] EXCEPT !.key = hostKey, !.step = s]
  <2>1. conn' = [conn EXCEPT ![d] = r] /\ UNCHANGED <<hub, host, consent>>
    BY <1>5 DEF HostVerifier, Go
  <2>2. s \in {"check", "failed", "askKey"} /\ (s = "check" => hostKey \in conn[d].fps)
    OBVIOUS
  <2> HIDE DEF s
  <2>3. /\ r \in ConnRec /\ r.step = s /\ r.fps = conn[d].fps /\ r.key = hostKey
        /\ r.trusted = conn[d].trusted /\ r.found = conn[d].found /\ r.sha = conn[d].sha
        /\ r.local = conn[d].local
    BY <1>0, <2>2 DEF ConnRec, Settled
  <2> HIDE DEF r
  <2>4. ConnOk(r)
    BY <1>0, <2>2, <2>3 DEF ConnOk, KeyChecked
  <2>5. QED
    BY <1>2, <2>1, <2>3, <2>4, ConnMoves
<1>6. CASE TrustHostKey(d)
  <2>1. conn[d].step = "askKey"
    BY <1>6 DEF TrustHostKey, At
  <2>2. PICK k \in Keys : k = conn[d].key
    BY <1>0, <2>1 DEF ConnOk
  <2>3. PICK r \in ConnRec :
          /\ r = [conn[d] EXCEPT !.step = "auth", !.retried = TRUE, !.fps = {k}]
          /\ r.step = "auth" /\ r.fps = {k} /\ r.key = k
          /\ r.trusted = conn[d].trusted /\ r.found = conn[d].found /\ r.sha = conn[d].sha
          /\ r.local = conn[d].local
    <3> DEFINE x == [conn[d] EXCEPT !.step = "auth", !.retried = TRUE, !.fps = {k}]
    <3>1. TRUE \in BOOLEAN
      OBVIOUS
    <3>2. /\ x \in ConnRec /\ x.step = "auth" /\ x.fps = {k} /\ x.key = k
          /\ x.trusted = conn[d].trusted /\ x.found = conn[d].found /\ x.sha = conn[d].sha
          /\ x.local = conn[d].local
      BY <1>0, <2>2, <3>1 DEF ConnRec
    <3>3. QED
      BY <3>2, Zenon
  <2>4. /\ conn' = [conn EXCEPT ![d] = r] /\ consent' = consent \cup {k}
        /\ UNCHANGED <<pinned, onceSha, hostKey, remote>>
        /\ \A f \in {storedFp', onceFp'} : f = k \/ f \in {storedFp, onceFp}
    BY <1>6, <2>2, <2>3 DEF TrustHostKey, Go, host
  <2>5. consent \subseteq consent' /\ listed \subseteq listed'
    BY <1>2, <2>4
  <2>6. ConnOk(r)'
    <3>1. \A sha \in r.trusted : Trusted(sha)'
      BY <1>0, <2>3, <2>5, TrustGrows DEF ConnOk
    <3>2. QED
      BY <1>0, <1>2, <2>3, <2>4, <3>1 DEF ConnOk, KeyChecked
  <2>7. HubOk'
    <3>1. \A f \in {storedFp', onceFp'} : f # None => f \in consent'
      BY <1>0, <2>4 DEF HubOk
    <3>2. \A sha \in {pinned', onceSha'} : sha # None => Trusted(sha)'
      BY <1>0, <2>4, <2>5, TrustGrows DEF HubOk
    <3>3. QED
      BY <3>1, <3>2 DEF HubOk, Trusted
  <2>8. /\ {storedFp', onceFp'} \subseteq Keys \cup {None} /\ hostKey' \in Keys /\ remote' \in Files
        /\ {pinned', onceSha'} \subseteq Files \cup {Unknown, None}
    BY <1>0, <2>2, <2>4
  <2>9. QED
    BY <1>2, <2>3, <2>4, <2>5, <2>6, <2>7, <2>8, OneConn
<1>7. QED
  BY <1>3, <1>4, <1>5, <1>6

\* The agent on the host is compared with the cache, and so is what a fetch brought.
LEMMA CompareSteps ==
  ASSUME DeployInv, NEW d \in Conns,
         CheckRemoteAgent(d) \/ ResolveLocalAgentBinary(d) \/ AutoFetched(d)
  PROVE  DeployInv'
<1>0. /\ conn \in [Conns -> ConnRec] /\ conn[d] \in ConnRec /\ ConnOk(conn[d]) /\ BinInv
      /\ remote \in Files /\ cache \in [Targets -> Files] /\ Platform \in Targets
      /\ d \in Others
  BY DeployAssumption DEF DeployInv, HostTypes, BinInv, BinTypeOK, FileTypes, Conns
<1>1. UNCHANGED <<hub, host, consent>>
  BY DEF CheckRemoteAgent, ResolveLocalAgentBinary, AutoFetched
<1>2. cache[Platform] \in Files /\ (cache[Platform] # NoFile => <<Platform, cache[Platform]>> \in listed)
  BY <1>0 DEF BinInv, VouchInv, CacheVouched
<1>3. CASE CheckRemoteAgent(d)
  <2>1. PICK found \in {remote # NoFile, FALSE}, sha \in {remote, Unknown} :
          conn' = [conn EXCEPT ![d] = [conn[d] EXCEPT !.step = "local", !.found = found,
                                         !.sha = IF found THEN sha ELSE NoFile]]
    BY <1>3 DEF CheckRemoteAgent, Go
  <2> DEFINE x == IF found THEN sha ELSE NoFile
             r == [conn[d] EXCEPT !.step = "local", !.found = found, !.sha = x]
  <2>2. found \in BOOLEAN
    BY Zenon
  <2>3. x \in Files \cup {Unknown} /\ (found => x # NoFile)
    <3>1. found => remote # NoFile
      BY Zenon
    <3>2. Unknown # NoFile /\ NoFile \in Files
      BY DEF Files, Unknown, NoFile
    <3>3. x = sha \/ (x = NoFile /\ ~found)
      BY <2>2
    <3>4. sha = remote \/ sha = Unknown
      OBVIOUS
    <3> HIDE DEF x
    <3>5. found => x # NoFile
      <4>1. ASSUME found PROVE x # NoFile
        BY <3>1, <3>2, <3>3, <3>4, <4>1
      <4>2. QED
        BY <4>1
    <3>6. QED
      BY <1>0, <3>2, <3>3, <3>4, <3>5
  <2> HIDE DEF x
  <2>4. /\ r \in ConnRec /\ r.step = "local" /\ r.fps = conn[d].fps /\ r.key = conn[d].key
        /\ r.trusted = conn[d].trusted /\ r.found = found /\ r.sha = x /\ r.local = conn[d].local
    BY <1>0, <2>2, <2>3 DEF ConnRec
  <2>5. conn' = [conn EXCEPT ![d] = r]
    BY <2>1 DEF x
  <2> HIDE DEF r
  <2>6. conn[d].key \in consent
    BY <1>0, <1>3 DEF CheckRemoteAgent, At, ConnOk, KeyChecked
  <2>7. ConnOk(r)
    BY <1>0, <2>3, <2>4, <2>6 DEF ConnOk, KeyChecked
  <2>8. BinInv' /\ listed' = listed
    BY <1>0, <1>3, BinStill DEF CheckRemoteAgent, binVars, release
  <2>9. QED
    BY <1>1, <2>4, <2>5, <2>7, <2>8, ConnMoves
<1>4. ASSUME conn[d].step \in {"local", "fetching"},
             conn' = [conn EXCEPT ![d] = [conn[d] EXCEPT !.local = cache[Platform],
                                            !.step = Compared(conn[d], cache[Platform])]],
             UNCHANGED binVars
      PROVE  DeployInv'
  <2> DEFINE s == Compared(conn[d], cache[Platform])
             r == [conn[d] EXCEPT !.local = cache[Platform], !.step = s]
  <2>1. s \in {"run", "upload"} /\ (s = "run" => conn[d].found /\ conn[d].sha = cache[Platform])
    BY DEF Compared, FreshDeploy
  <2>2. conn[d].key \in consent
    BY <1>0, <1>4 DEF ConnOk, KeyChecked
  <2> HIDE DEF s
  <2>3. /\ r \in ConnRec /\ r.step = s /\ r.fps = conn[d].fps /\ r.key = conn[d].key
        /\ r.trusted = conn[d].trusted /\ r.found = conn[d].found /\ r.sha = conn[d].sha
        /\ r.local = cache[Platform]
    BY <1>0, <1>2, <2>1 DEF ConnRec
  <2>4. conn' = [conn EXCEPT ![d] = r]
    BY <1>4 DEF s
  <2> HIDE DEF r
  <2>5. s = "run" => Trusted(conn[d].sha)
    BY <1>0, <1>2, <2>1 DEF ConnOk, Trusted
  <2>6. ConnOk(r)
    BY <1>0, <1>2, <2>1, <2>2, <2>3, <2>5 DEF ConnOk, KeyChecked
  <2>7. BinInv' /\ listed' = listed
    BY <1>0, <1>4, BinStill DEF binVars, release
  <2>8. QED
    BY <1>1, <2>3, <2>4, <2>6, <2>7, ConnMoves
<1>5. ASSUME NEW s \in {"failed", "run", "askAgent", "fetching"},
             conn[d].step \in {"local", "fetching"}, s = "run" => Trusted(conn[d].sha),
             conn' = [conn EXCEPT ![d] = [conn[d] EXCEPT !.step = s]], BinInv', listed' = listed
      PROVE  DeployInv'
  <2> DEFINE r == [conn[d] EXCEPT !.step = s]
  <2>1. /\ r \in ConnRec /\ r.step = s /\ r.fps = conn[d].fps /\ r.key = conn[d].key
        /\ r.trusted = conn[d].trusted /\ r.found = conn[d].found /\ r.sha = conn[d].sha
        /\ r.local = conn[d].local
    <3>1. s \in Settled \cup {"auth", "dial", "askKey", "check", "local", "fetching", "upload",
                              "uploading", "askAgent", "run"}
      BY DEF Settled
    <3>2. QED
      BY ONLY <1>0, <3>1, Moved
  <2>2. conn' = [conn EXCEPT ![d] = r]
    BY <1>5
  <2>3. conn[d].key \in consent
    BY <1>0, <1>5 DEF ConnOk, KeyChecked
  <2> HIDE DEF r
  <2>4. ConnOk(r)
    BY <1>0, <1>5, <2>1, <2>3 DEF ConnOk, KeyChecked
  <2>5. QED
    BY <1>1, <1>5, <2>1, <2>2, <2>4, ConnMoves
<1>6. CASE ResolveLocalAgentBinary(d)
  <2>1. CASE Go(d, [conn[d] EXCEPT !.local = cache[Platform], !.step = Compared(conn[d], cache[Platform])]) /\ UNCHANGED binVars
    BY <1>4, <1>6, <2>1 DEF ResolveLocalAgentBinary, At, Go
  <2>2. CASE /\ fetch' = [fetch EXCEPT ![d] = Start(Platform)]
             /\ To(d, "fetching")
             /\ UNCHANGED <<cast, release, files, jobs, pages>>
    <3>1. BinInv' /\ listed' = listed
      BY <1>0, <2>2, OtherStarts DEF release
    <3>2. conn[d].step = "local" /\ conn' = [conn EXCEPT ![d] = [conn[d] EXCEPT !.step = "fetching"]]
      BY <1>6, <2>2 DEF ResolveLocalAgentBinary, At, To, Go
    <3>3. QED
      BY <1>5, <3>1, <3>2
  <2>3. CASE To(d, Verified(conn[d])) /\ UNCHANGED binVars
    <3>1. PICK s \in {"failed", "run", "askAgent"} : s = Verified(conn[d])
      BY DEF Verified
    <3>2. s = "run" => Trusted(conn[d].sha)
      BY <1>0, <3>1 DEF Verified, ConnOk
    <3>3. BinInv' /\ listed' = listed
      BY <1>0, <2>3, BinStill DEF binVars, release
    <3>4. conn[d].step = "local" /\ conn' = [conn EXCEPT ![d] = [conn[d] EXCEPT !.step = s]]
      BY <1>6, <2>3, <3>1 DEF ResolveLocalAgentBinary, At, To, Go
    <3>5. QED
      BY <1>5, <3>2, <3>3, <3>4
  <2>4. QED
    BY <1>6, <2>1, <2>2, <2>3 DEF ResolveLocalAgentBinary
<1>7. CASE AutoFetched(d)
  <2>1. conn[d].step = "fetching" /\ UNCHANGED binVars
    BY <1>7 DEF AutoFetched, At
  <2>2. CASE To(d, "failed")
    <3>1. BinInv' /\ listed' = listed
      BY <1>0, <2>1, BinStill DEF binVars, release
    <3>2. QED
      BY <1>5, <2>1, <2>2, <3>1 DEF To, Go
  <2>3. CASE Go(d, [conn[d] EXCEPT !.local = cache[Platform], !.step = Compared(conn[d], cache[Platform])])
    BY <1>4, <2>1, <2>3 DEF Go
  <2>4. QED
    BY <1>7, <2>2, <2>3 DEF AutoFetched
<1>8. QED
  BY <1>3, <1>6, <1>7

\* The agent is uploaded, trusted, run; or the attempt ends.
LEMMA RunSteps ==
  ASSUME DeployInv, NEW d \in Conns,
         UploadStarts(d) \/ UploadEnds(d) \/ TrustAgent(d) \/ RunAgent(d) \/ ConnectFails(d)
  PROVE  DeployInv'
<1>0. /\ conn \in [Conns -> ConnRec] /\ conn[d] \in ConnRec /\ ConnOk(conn[d]) /\ BinInv /\ HubOk
      /\ hostKey \in Keys /\ remote \in Files
      /\ {storedFp, onceFp} \subseteq Keys \cup {None}
      /\ {pinned, onceSha} \subseteq Files \cup {Unknown, None}
      /\ cache \in [Targets -> Files] /\ Platform \in Targets /\ listed \subseteq Targets \X Builds
  BY DeployAssumption DEF DeployInv, HostTypes, BinInv, BinTypeOK, FileTypes
<1>1. UNCHANGED binVars
  BY DEF UploadStarts, UploadEnds, TrustAgent, RunAgent, ConnectFails, Fail
<1>2. BinInv' /\ listed' = listed
  BY <1>0, <1>1, BinStill DEF binVars, release
<1>3. CASE UploadStarts(d)
  <2>1. /\ conn[d].step = "upload" /\ cache[Platform] # NoFile /\ remote' = Bad
        /\ UNCHANGED <<hostKey, hub, consent>>
    BY <1>3 DEF UploadStarts, At, Cached
  <2>2. PICK s \in Files : s = cache[Platform] /\ s # NoFile /\ <<Platform, s>> \in listed
    BY <1>0, <2>1 DEF BinInv, VouchInv, CacheVouched
  <2>3. PICK r \in ConnRec :
          /\ r = [conn[d] EXCEPT !.step = "uploading", !.sha = s]
          /\ r.step = "uploading" /\ r.fps = conn[d].fps /\ r.key = conn[d].key
          /\ r.trusted = conn[d].trusted /\ r.found = conn[d].found /\ r.sha = s
          /\ r.local = conn[d].local
    <3> DEFINE x == [conn[d] EXCEPT !.step = "uploading", !.sha = s]
    <3>1. /\ x \in ConnRec /\ x.step = "uploading" /\ x.fps = conn[d].fps /\ x.key = conn[d].key
          /\ x.trusted = conn[d].trusted /\ x.found = conn[d].found /\ x.sha = s
          /\ x.local = conn[d].local
      BY <1>0, <2>2 DEF ConnRec
    <3>2. QED
      BY <3>1, Zenon
  <2>4. conn' = [conn EXCEPT ![d] = r]
    BY <1>3, <2>2, <2>3 DEF UploadStarts, Go
  <2>5. conn[d].key \in consent
    BY <1>0, <2>1 DEF ConnOk, KeyChecked
  <2>6. ConnOk(r)
    BY <1>0, <2>2, <2>3, <2>5 DEF ConnOk, KeyChecked
  <2>7. UNCHANGED <<storedFp, onceFp, pinned, onceSha>>
    BY <2>1 DEF hub
  <2>8. HubOk' /\ ConnOk(r)'
    BY <1>0, <1>2, <2>1, <2>6, <2>7, TrustGrows DEF HubOk, Trusted
  <2>9. remote' \in Files /\ hostKey' \in Keys
    BY <1>0, <2>1 DEF Files
  <2>10. QED
    BY <1>0, <1>2, <2>1, <2>4, <2>7, <2>8, <2>9, OneConn
<1>h. PICK h \in Files \cup {Unknown} : h = conn[d].sha
  BY <1>0 DEF ConnRec
<1>4. ASSUME NEW s \in {"run", "up", "failed"}, conn' = [conn EXCEPT ![d] = [conn[d] EXCEPT !.step = s]],
             s # "failed" => conn[d].step \in KeyChecked /\ Trusted(h)',
             consent \subseteq consent', HubOk', remote' \in Files, hostKey' \in Keys,
             {storedFp', onceFp'} \subseteq Keys \cup {None},
             {pinned', onceSha'} \subseteq Files \cup {Unknown, None}
      PROVE  DeployInv'
  <2>1. PICK r \in ConnRec :
          /\ r = [conn[d] EXCEPT !.step = s] /\ r.step = s /\ r.fps = conn[d].fps /\ r.key = conn[d].key
          /\ r.trusted = conn[d].trusted /\ r.found = conn[d].found /\ r.sha = conn[d].sha
          /\ r.local = conn[d].local
    <3> DEFINE x == [conn[d] EXCEPT !.step = s]
    <3>1. s \in Settled \cup {"auth", "dial", "askKey", "check", "local", "fetching", "upload",
                              "uploading", "askAgent", "run"}
      BY DEF Settled
    <3>2. /\ x \in ConnRec /\ x.step = s /\ x.fps = conn[d].fps /\ x.key = conn[d].key
          /\ x.trusted = conn[d].trusted /\ x.found = conn[d].found /\ x.sha = conn[d].sha
          /\ x.local = conn[d].local
      BY <1>0, <3>1, Moved
    <3>3. QED
      BY <3>2, Zenon
  <2>2. conn' = [conn EXCEPT ![d] = r]
    BY <1>4, <2>1
  <2>3. /\ \A sha \in r.trusted : Trusted(sha)'
        /\ s # "failed" => r.key \in consent'
    <3>1. \A sha \in r.trusted : Trusted(sha)
      BY <1>0, <2>1 DEF ConnOk
    <3>2. QED
      BY <1>0, <1>2, <1>4, <2>1, <3>1, TrustGrows DEF ConnOk
  <2>4. ConnOk(r)'
    BY <1>0, <1>2, <1>4, <1>h, <2>1, <2>3 DEF ConnOk, KeyChecked
  <2>5. QED
    BY <1>2, <1>4, <2>2, <2>4, OneConn
<1>5. CASE UploadEnds(d)
  <2>1. /\ conn[d].step = "uploading" /\ remote' = h
        /\ pinned' = IF conn[d].found /\ conn[d].local # NoFile THEN conn[d].local ELSE pinned
        /\ conn' = [conn EXCEPT ![d] = [conn[d] EXCEPT !.step = "run"]]
        /\ UNCHANGED <<hostKey, storedFp, onceFp, onceSha, consent>>
    BY <1>5, <1>h DEF UploadEnds, At, To, Go
  <2>2. <<Platform, h>> \in listed /\ h \in Files
    <3>1. <<Platform, h>> \in listed
      BY <1>0, <1>h, <2>1 DEF ConnOk
    <3>2. QED
      BY <1>0, <3>1 DEF Files
  <2>3. Trusted(h)' /\ conn[d].step \in KeyChecked
    BY <1>2, <2>1, <2>2 DEF Trusted, KeyChecked
  <2>4. /\ pinned' \in Files \cup {Unknown, None}
        /\ pinned' = pinned \/ <<Platform, pinned'>> \in listed
    <3>1. CASE conn[d].found /\ conn[d].local # NoFile
      <4>1. pinned' = conn[d].local /\ conn[d].local \in Files /\ <<Platform, conn[d].local>> \in listed
        BY <1>0, <2>1, <3>1 DEF ConnRec, ConnOk
      <4>2. QED
        BY <4>1
    <3>2. CASE ~(conn[d].found /\ conn[d].local # NoFile)
      BY <1>0, <2>1, <3>2
    <3>3. QED
      BY <3>1, <3>2
  <2>5. HubOk'
    BY <1>0, <1>2, <2>1, <2>4 DEF HubOk, Trusted
  <2>6. QED
    BY <1>0, <1>4, <2>1, <2>2, <2>3, <2>4, <2>5
<1>6. CASE TrustAgent(d)
  <2>1. /\ conn[d].step = "askAgent" /\ consent' = consent \cup {h}
        /\ \A x \in {pinned', onceSha'} : x = h \/ x \in {pinned, onceSha}
        /\ conn' = [conn EXCEPT ![d] = [conn[d] EXCEPT !.step = "run"]]
        /\ UNCHANGED <<hostKey, remote, storedFp, onceFp>>
    BY <1>6, <1>h DEF TrustAgent, At, To, Go, host
  <2>2. Trusted(h)' /\ conn[d].step \in KeyChecked
    BY <2>1 DEF Trusted, KeyChecked
  <2>3. HubOk'
    <3>1. \A sha \in {pinned', onceSha'} : sha # None => Trusted(sha)'
      BY <1>0, <1>2, <2>1, <2>2, TrustGrows DEF HubOk
    <3>2. QED
      BY <1>0, <2>1, <3>1 DEF HubOk, Trusted
  <2>4. {pinned', onceSha'} \subseteq Files \cup {Unknown, None}
    BY <1>0, <2>1
  <2>5. QED
    BY <1>0, <1>4, <2>1, <2>2, <2>3, <2>4
<1>7. CASE RunAgent(d) \/ ConnectFails(d)
  <2>1. UNCHANGED <<hub, host, consent>>
    BY <1>7 DEF RunAgent, ConnectFails, Fail
  <2>2. UNCHANGED <<storedFp, onceFp, pinned, onceSha, hostKey, remote, consent>>
    BY <2>1 DEF hub, host
  <2>3. HubOk'
    BY <1>0, <1>2, <2>2 DEF HubOk, Trusted
  <2>4. CASE RunAgent(d)
    <3>1. conn[d].step = "run" /\ conn' = [conn EXCEPT ![d] = [conn[d] EXCEPT !.step = "up"]]
      BY <2>4 DEF RunAgent, At, To, Go
    <3>2. Trusted(h)' /\ conn[d].step \in KeyChecked
      BY <1>0, <1>2, <1>h, <2>2, <3>1 DEF ConnOk, Trusted, KeyChecked
    <3>3. QED
      BY <1>0, <1>4, <2>2, <2>3, <3>1, <3>2
  <2>5. CASE ConnectFails(d)
    <3>1. conn' = [conn EXCEPT ![d] = [conn[d] EXCEPT !.step = "failed"]]
      BY <2>5 DEF ConnectFails, Fail, To, Go
    <3>2. QED
      BY <1>0, <1>4, <2>2, <2>3, <3>1
  <2>6. QED
    BY <1>7, <2>4, <2>5
<1>8. QED
  BY <1>3, <1>5, <1>6, <1>7

-----------------------------------------------------------------------------
(* The theorems.                                                           *)

LEMMA DeployStart ==
  ASSUME DeployInit
  PROVE  DeployInv
<1>1. BinInv
  BY BinStart DEF DeployInit
<1>2. Idle \in ConnRec
  <2>1. FALSE \in BOOLEAN
    OBVIOUS
  <2>2. QED
    BY <2>1 DEF Idle, ConnRec, Settled, Files
<1>3. HostTypes
  BY <1>2, DeployAssumption DEF DeployInit, HostTypes, Files
<1>4. HubOk
  BY DEF DeployInit, HubOk
<1>5. \A d \in Conns : ConnOk(conn[d])
  <2>1. ConnOk(Idle)
    BY DEF Idle, ConnOk, KeyChecked
  <2>2. QED
    BY <2>1 DEF DeployInit
<1>6. QED
  BY <1>1, <1>3, <1>4, <1>5 DEF DeployInv

LEMMA DeployStep ==
  ASSUME DeployInv, [DeployNext]_allVars
  PROVE  DeployInv'
<1>1. CASE BinNext /\ UNCHANGED depVars
  <2>1. BinInv' /\ listed \subseteq listed'
    BY <1>1, BinStep, ListedGrows DEF DeployInv
  <2>2. UNCHANGED <<storedFp, onceFp, pinned, onceSha, hostKey, remote, conn, consent>>
    BY <1>1 DEF depVars, hub, host
  <2>3. HostTypes'
    BY <2>2 DEF DeployInv, HostTypes
  <2>4. HubOk'
    BY <2>1, <2>2 DEF DeployInv, HubOk, Trusted
  <2>5. ASSUME NEW d \in Conns PROVE ConnOk(conn[d])'
    <3>1. PICK c : c = conn[d]
      OBVIOUS
    <3>2. ConnOk(c)'
      BY <2>1, <2>2, <3>1, TrustGrows DEF DeployInv
    <3>3. QED
      BY <2>2, <3>1, <3>2 DEF ConnOk
  <2>6. QED
    BY <2>1, <2>3, <2>4, <2>5 DEF DeployInv
<1>2. CASE HostChanges
  <2>1. BinInv' /\ listed' = listed
    BY <1>2, BinStill DEF DeployInv, HostChanges, binVars, release
  <2>2. UNCHANGED <<storedFp, onceFp, pinned, onceSha, conn, consent>> /\ hostKey' \in Keys /\ remote' \in Files
    BY <1>2 DEF HostChanges, hub, DeployInv, HostTypes, Files
  <2>3. HostTypes' /\ HubOk'
    BY <2>1, <2>2 DEF DeployInv, HostTypes, HubOk, Trusted
  <2>4. \A d \in Conns : ConnOk(conn[d])'
    BY <2>1, <2>2 DEF DeployInv, ConnOk, Trusted
  <2>5. QED
    BY <2>1, <2>3, <2>4 DEF DeployInv
<1>3. ASSUME NEW d \in Conns, Connect(d) \/ ConnectStep(d) PROVE DeployInv'
  BY <1>3, KeySteps, CompareSteps, RunSteps DEF ConnectStep
<1>4. CASE UNCHANGED allVars
  <2>1. UNCHANGED binVars /\ UNCHANGED depVars
    BY <1>4 DEF allVars
  <2>2. BinInv' /\ listed' = listed
    BY <2>1, BinStill DEF DeployInv, binVars, release
  <2>3. UNCHANGED <<storedFp, onceFp, pinned, onceSha, hostKey, remote, conn, consent>>
    BY <2>1 DEF depVars, hub, host
  <2>4. HostTypes' /\ HubOk' /\ \A d \in Conns : ConnOk(conn[d])'
    BY <2>2, <2>3 DEF DeployInv, HostTypes, HubOk, ConnOk, Trusted
  <2>5. QED
    BY <2>2, <2>4 DEF DeployInv
<1>5. QED
  BY <1>1, <1>2, <1>3, <1>4 DEF DeployNext

LEMMA DeployInvariant == DeploySpec => []DeployInv
<1>1. DeployInit => DeployInv
  BY DeployStart
<1>2. DeployInv /\ [DeployNext]_allVars => DeployInv'
  BY DeployStep
<1>3. QED
  BY <1>1, <1>2, PTL DEF DeploySpec

\* The cache, the jobs, the pages, the host record and the connections keep their types.
THEOREM DeployTypeCorrect == DeploySpec => []DeployTypeOK
<1>1. DeployInv => DeployTypeOK
  BY DEF DeployInv, BinInv, DeployTypeOK
<1>2. QED
  BY <1>1, DeployInvariant, PTL

\* Whatever order fetches, imports, prunes and the making of the release take, a file in the
\* cache was named for its target by a manifest (verifyAndPlace).
THEOREM CacheStaysVouched == DeploySpec => []CacheVouched
<1>1. DeployInv => CacheVouched
  BY DEF DeployInv, BinInv, VouchInv
<1>2. QED
  BY <1>1, DeployInvariant, PTL

\* drainFetchQueue never starts more jobs than there are slots, though it is called from
\* ending jobs and behind responses.
THEOREM SlotsStayKept == DeploySpec => []SlotsKept
<1>1. DeployInv => SlotsKept
  BY DEF DeployInv, BinInv
<1>2. QED
  BY <1>1, DeployInvariant, PTL

\* A page whose connection held shows no job that is over unless it is about to hear of it,
\* in whatever order responses and broadcasts come (recordAcceptedFetch), was told of the job
\* by two answers, or has dropped its end from the buffer.
THEOREM ShownJobsLive == DeploySpec => []ShownJobIsLive
<1>1. DeployInv => ShownJobIsLive
  BY DEF DeployInv, BinInv, PageInv, PageOf, Owed, ShownJobIsLive
<1>2. QED
  BY <1>1, DeployInvariant, PTL

\* No agent is run that was not trusted, and none on a host whose key was not.
THEOREM AgentsTrusted == DeploySpec => []RunsTrusted
<1>1. DeployInv => RunsTrusted
  BY DEF DeployInv, ConnOk, RunsTrusted, Trusted, KeyChecked
<1>2. QED
  BY <1>1, DeployInvariant, PTL
=============================================================================
