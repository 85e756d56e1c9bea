------------------------ MODULE GovernanceJobsProofs ------------------------
(***************************************************************************)
(* Theorems about GovernanceJobs: types, the window of an artifact, the    *)
(* order of the retention phases, complete deletions, and the durable job  *)
(* contract, for any number of jobs, workers, phases and batches.          *)
(***************************************************************************)
EXTENDS GovernanceJobs, TLAPS

-----------------------------------------------------------------------------
(* The inductive invariant.                                                *)

\* What the columns of a row, and artifact chunks a for it, tell of each other.
Sound(r, a) ==
  /\ r.done <=> r.status \in Terminal
  /\ r.status = "absent" => r.expiry = "none" /\ r.phase = 0
  /\ r.status = "processing" => r.attempts > 0
  /\ r.type = "retention" /\ r.status = "completed" => r.phase = Phases
  /\ r.type = "privacy-export" /\ r.status = "completed" => r.expiry # "none"
  /\ a => r.expiry # "none"
  /\ r.expiry = "live" => a

SoundRows == \A j \in Jobs : Sound(rows[j], artifact[j])

\* A worker with a job in its hands finds its row, claimed at least once.
HoldersClaimed ==
  \A w \in Workers :
    worker[w].at \in {"work", "retry", "give up"} =>
      /\ worker[w].job \in Jobs
      /\ Exists(worker[w].job)
      /\ rows[worker[w].job].attempts > 0

\* A deleted customer has no orders, until ingestion creates the customer again.
GoneWithoutOrders == ~customer.present => customer.orders = 0

IInv == TypeOK /\ SoundRows /\ HoldersClaimed /\ GoneWithoutOrders

-----------------------------------------------------------------------------
(* What a step does to one row.                                            *)

View(r) == [status |-> r.status, attempts |-> r.attempts]

Contract == INSTANCE DurableJob WITH job <- [j \in Jobs |-> View(rows[j])]

\* Row r becomes s, which has artifact chunks b: the same job, moved as the
\* contract allows, over once it was over, and at most a phase further.
RowStep(r, s, b) ==
  /\ s \in Row
  /\ Sound(s, b)
  /\ View(s) # View(r) => Contract!Move(View(r), View(s))
  /\ r.status # "absent" =>
       s.status # "absent" /\ s.type = r.type /\ s.attempts >= r.attempts
  /\ r.status \in Terminal => s.status \in Terminal
  /\ s.phase # r.phase => s.phase = r.phase + 1 /\ due[r.phase] = 0

\* Nothing happens to it.
LEMMA SameRow ==
  ASSUME NEW r \in Row, NEW a \in BOOLEAN, Sound(r, a)
  PROVE  RowStep(r, r, a)
  BY DEF RowStep, Row

\* The operators that write a row, column by column.
LEMMA NoRowColumns ==
  /\ NoRow \in Row /\ NoRow.status = "absent" /\ NoRow.done = FALSE
  /\ NoRow.expiry = "none" /\ NoRow.phase = 0 /\ NoRow.attempts = 0
<1>1. 0 \in 0..MaxAttempts /\ 0 \in 0..Phases
  BY BoundsAssumption
<1> QED
  BY <1>1 DEF NoRow, Row

\* A completed row is done, and keeps its type, claims, expiry and phase.
LEMMA CompletedRow ==
  ASSUME NEW r \in Row
  PROVE  LET s == Completed(r) IN
         /\ s \in Row /\ s.status = "completed" /\ s.done = TRUE
         /\ s.type = r.type /\ s.attempts = r.attempts /\ s.expiry = r.expiry
         /\ s.phase = r.phase
  BY DEF Completed, Row, Pending, Terminal

\* So is a failed one.
LEMMA FailedRow ==
  ASSUME NEW r \in Row
  PROVE  LET s == Failed(r) IN
         /\ s \in Row /\ s.status = "failed" /\ s.done = TRUE
         /\ s.type = r.type /\ s.attempts = r.attempts /\ s.expiry = r.expiry
         /\ s.phase = r.phase
  BY DEF Failed, Row, Pending, Terminal

\* A row that goes back to the queue keeps all but its status.
LEMMA RequeuedRow ==
  ASSUME NEW r \in Row
  PROVE  LET s == Requeued(r) IN
         /\ s \in Row /\ s.status = "queued" /\ s.done = r.done
         /\ s.type = r.type /\ s.attempts = r.attempts /\ s.expiry = r.expiry
         /\ s.phase = r.phase
  BY DEF Requeued, Row, Pending, Terminal

\* A claim counts one attempt more.
LEMMA ClaimedRow ==
  ASSUME NEW r \in Row, Admits(Claimed(r))
  PROVE  LET s == Claimed(r) IN
         /\ s \in Row /\ s.status = "processing" /\ s.done = r.done
         /\ s.type = r.type /\ s.attempts = r.attempts + 1 /\ s.expiry = r.expiry
         /\ s.phase = r.phase
<1>1. r.attempts \in Nat /\ MaxAttempts \in Nat
  BY BoundsAssumption DEF Row
<1>2. Claimed(r).attempts = r.attempts + 1
  BY DEF Claimed, Row
<1>3. r.attempts + 1 \in 0..MaxAttempts
  BY <1>1, <1>2 DEF Admits
<1> QED
  BY <1>3 DEF Claimed, Row, Pending, Terminal

\* A finished export is completed and has a live artifact.
LEMMA ExportedRow ==
  ASSUME NEW r \in Row
  PROVE  LET s == Exported(r) IN
         /\ s \in Row /\ s.status = "completed" /\ s.done = TRUE
         /\ s.type = r.type /\ s.attempts = r.attempts /\ s.expiry = "live"
         /\ s.phase = r.phase
<1> DEFINE q == Completed(r)
<1>1. /\ q \in Row /\ q.status = "completed" /\ q.done = TRUE
      /\ q.type = r.type /\ q.attempts = r.attempts /\ q.phase = r.phase
  BY CompletedRow
<1>2. Exported(r) = [q EXCEPT !.expiry = "live", !.counted = TRUE]
  BY DEF Exported
<1> HIDE DEF q
<1> QED
  BY <1>1, <1>2 DEF Row

\* A job is over.
LEMMA EndedStep ==
  ASSUME NEW r \in Row, NEW a \in BOOLEAN, Sound(r, a), r.status # "absent", r.attempts > 0,
         NEW s \in Row, NEW b \in BOOLEAN,
         s.status \in Terminal, s.done = TRUE,
         s.type = r.type, s.attempts = r.attempts, s.phase = r.phase,
         b => s.expiry # "none", s.expiry = "live" => b,
         s.status = "completed" =>
           /\ s.type = "retention" => s.phase = Phases
           /\ s.type = "privacy-export" => s.expiry # "none"
  PROVE  RowStep(r, s, b)
<1>1. Sound(s, b)
  <2>1. s.done <=> s.status \in Terminal
    OBVIOUS
  <2>2. s.status \notin {"absent", "processing"}
    BY DEF Terminal
  <2> QED
    BY <2>1, <2>2 DEF Sound
<1>2. View(s) # View(r) => Contract!Move(View(r), View(s))
  BY DEF View, Row, Pending, Terminal, Contract!Move, Contract!Finished, Contract!GaveUp,
         Contract!Expired, Contract!Pending
<1> QED
  BY <1>1, <1>2 DEF RowStep, Row, Terminal

\* A pending job goes back to the queue.
LEMMA RequeuedStep ==
  ASSUME NEW r \in Row, NEW a \in BOOLEAN, NEW b \in BOOLEAN, Sound(r, a),
         r.status \in Pending,
         b => r.expiry # "none", r.expiry = "live" => b
  PROVE  RowStep(r, Requeued(r), b)
<1> DEFINE s == Requeued(r)
<1>1. /\ s \in Row /\ s.status = "queued" /\ s.done = r.done
      /\ s.type = r.type /\ s.attempts = r.attempts /\ s.expiry = r.expiry
      /\ s.phase = r.phase
  BY RequeuedRow
<1> HIDE DEF s
<1>2. Sound(s, b)
  BY <1>1 DEF Sound, Pending, Terminal
<1>3. View(s) # View(r) => Contract!Move(View(r), View(s))
  <2>1. View(s) = [View(r) EXCEPT !.status = "queued"]
    BY <1>1 DEF View
  <2>2. r.status = "processing" \/ View(s) = View(r)
    BY <1>1 DEF View, Pending
  <2> QED
    BY <2>1, <2>2 DEF View, Contract!Move, Contract!Requeued
<1>4. RowStep(r, s, b)
  BY <1>1, <1>2, <1>3 DEF RowStep, Row, Pending, Terminal
<1> QED
  BY <1>4 DEF s

\* claim() recovers a job whose holder went silent.
LEMMA RecoveredStep ==
  ASSUME NEW r \in Row, NEW a \in BOOLEAN, NEW b \in BOOLEAN, Sound(r, a),
         b => r.expiry # "none", r.expiry = "live" => b
  PROVE  RowStep(r, Recovered(r), b)
<1>1. CASE Recovered(r) = r
  <2>1. Sound(r, b)
    BY DEF Sound
  <2> QED
    BY <1>1, <2>1 DEF RowStep, Row
<1>2. CASE Recovered(r) = Requeued(r) /\ r.status = "processing"
  BY <1>2, RequeuedStep DEF Pending
<1>3. CASE Recovered(r) = Failed(r) /\ r.status = "processing"
  BY <1>3, FailedRow, EndedStep DEF Sound, Terminal
<1> QED
  BY <1>1, <1>2, <1>3 DEF Recovered

\* It takes a queued job, which it may have recovered just then.
LEMMA ClaimedStep ==
  ASSUME NEW r \in Row, NEW a \in BOOLEAN, NEW b \in BOOLEAN, Sound(r, a),
         b => r.expiry # "none", r.expiry = "live" => b,
         Recovered(r).status = "queued", Admits(Claimed(Recovered(r)))
  PROVE  /\ RowStep(r, Claimed(Recovered(r)), b)
         /\ Claimed(Recovered(r)).attempts = Recovered(r).attempts + 1
         /\ Recovered(r).attempts \in Nat
<1> DEFINE q == Recovered(r)
           s == Claimed(q)
<1>1. RowStep(r, q, b)
  BY RecoveredStep
<1>2. /\ q \in Row /\ q.attempts = r.attempts /\ q.type = r.type /\ q.expiry = r.expiry
      /\ q.phase = r.phase /\ r.status \in Pending
  BY RequeuedRow, FailedRow DEF Recovered, Row, Pending
<1>3. /\ s \in Row /\ s.status = "processing" /\ s.done = q.done
      /\ s.type = q.type /\ s.attempts = q.attempts + 1 /\ s.expiry = q.expiry
      /\ s.phase = q.phase
  BY <1>2, ClaimedRow
<1>4. Sound(q, b) /\ q.status = "queued" /\ q.attempts \in Nat
  BY <1>1, <1>2 DEF RowStep, Row
<1> HIDE DEF q, s
<1>5. Sound(s, b)
  BY <1>3, <1>4 DEF Sound, Terminal
<1>6. Contract!Move(View(r), View(s))
  BY <1>2, <1>3 DEF View, Pending, Contract!Move, Contract!Claimed, Contract!Pending
<1>7. RowStep(r, s, b)
  BY <1>2, <1>3, <1>4, <1>5, <1>6 DEF RowStep, Pending, Terminal
<1> QED
  BY <1>3, <1>4, <1>7 DEF q, s

\* A job is submitted before it is completed.
LEMMA NeverFromNothing ==
  ASSUME NEW r, NEW s, NEW b, RowStep(r, s, b), s.status = "completed"
  PROVE  r.status # "absent"
<1> SUFFICES ASSUME r.status = "absent"
             PROVE  FALSE
  OBVIOUS
<1>1. View(r).status = "absent" /\ View(s).status = "completed"
  BY DEF View
<1>2. Contract!Move(View(r), View(s))
  BY <1>1 DEF RowStep
<1> QED
  BY <1>1, <1>2
  DEF Contract!Move, Contract!Submitted, Contract!Claimed, Contract!Requeued,
      Contract!Finished, Contract!GaveUp, Contract!Expired, Contract!Purged, Contract!Pending

-----------------------------------------------------------------------------
(* What the actions do to the rows.                                        *)

RowsMoved ==
  /\ rows' \in [Jobs -> Row] /\ artifact' \in [Jobs -> BOOLEAN]
  /\ \A j \in Jobs : RowStep(rows[j], rows'[j], artifact'[j])

\* Whoever holds a job finds it in the table.
LEMMA HolderRow ==
  ASSUME IInv, NEW w \in Workers, worker[w].at \in {"work", "retry", "give up"}
  PROVE  LET j == worker[w].job IN
         /\ j \in Jobs /\ rows[j] \in Row /\ artifact[j] \in BOOLEAN
         /\ Sound(rows[j], artifact[j])
         /\ rows[j].status # "absent" /\ rows[j].attempts > 0
  BY DEF IInv, TypeOK, SoundRows, HoldersClaimed, Exists

\* A step that leaves rows and artifacts alone moves nothing.
LEMMA NothingMoved ==
  ASSUME IInv, UNCHANGED <<rows, artifact>>
  PROVE  RowsMoved
  BY SameRow DEF RowsMoved, IInv, TypeOK, SoundRows

\* A step that writes one row, and its artifact, moves that row only.
LEMMA OneMoved ==
  ASSUME IInv, NEW i \in Jobs, NEW s, NEW b \in BOOLEAN, RowStep(rows[i], s, b),
         rows' = [rows EXCEPT ![i] = s],
         artifact' = [artifact EXCEPT ![i] = b]
  PROVE  RowsMoved
<1>1. ASSUME NEW j \in Jobs
      PROVE  RowStep(rows[j], rows'[j], artifact'[j])
  <2>1. CASE j = i
    <3>1. rows'[j] = s /\ artifact'[j] = b
      BY <2>1 DEF IInv, TypeOK
    <3> QED
      BY <2>1, <3>1
  <2>2. CASE j # i
    BY <2>2, SameRow DEF IInv, TypeOK, SoundRows
  <2> QED
    BY <2>1, <2>2
<1>2. rows' \in [Jobs -> Row] /\ artifact' \in [Jobs -> BOOLEAN]
  BY DEF IInv, TypeOK, RowStep
<1> QED
  BY <1>1, <1>2 DEF RowsMoved

\* The artifact is not touched.
LEMMA OnlyRowMoved ==
  ASSUME IInv, NEW i \in Jobs, NEW s, RowStep(rows[i], s, artifact[i]),
         rows' = [rows EXCEPT ![i] = s], artifact' = artifact
  PROVE  RowsMoved
<1>1. artifact' = [artifact EXCEPT ![i] = artifact[i]] /\ artifact[i] \in BOOLEAN
  BY DEF IInv, TypeOK
<1> QED
  BY <1>1, OneMoved

\* A submission takes the place of an absent row.
LEMMA EnqueueRows ==
  ASSUME IInv, NEW k \in Keys, NEW t \in Types, EnqueueNew(k, t)
  PROVE  RowsMoved
<1> DEFINE s == [NoRow EXCEPT !.status = "queued", !.key = k, !.type = t]
<1>1. PICK i \in Jobs : rows[i].status = "absent" /\ rows' = [rows EXCEPT ![i] = s]
  BY DEF EnqueueNew, NextId
<1>2. /\ s \in Row /\ s.status = "queued" /\ s.done = FALSE
      /\ s.expiry = "none" /\ s.phase = 0 /\ s.attempts = 0
  BY NoRowColumns DEF Row, Pending
<1> HIDE DEF s
<1>3. rows[i] \in Row /\ artifact[i] \in BOOLEAN
  BY <1>1 DEF IInv, TypeOK
<1>4. Sound(rows[i], artifact[i])
  BY <1>1 DEF IInv, SoundRows
<1>5. ~artifact[i] /\ rows[i].phase = 0
  BY <1>1, <1>4 DEF Sound
<1>6. Sound(s, artifact[i])
  BY <1>2, <1>5 DEF Sound, Terminal
<1>7. Contract!Move(View(rows[i]), View(s))
  BY <1>1, <1>2 DEF View, Contract!Move, Contract!Submitted
<1>8. RowStep(rows[i], s, artifact[i])
  BY <1>1, <1>2, <1>5, <1>6, <1>7 DEF RowStep, Terminal
<1> QED
  BY <1>1, <1>8, OnlyRowMoved DEF EnqueueNew

\* claim() with or without a job to take.
LEMMA ClaimRows ==
  ASSUME IInv, NEW w \in Workers, ClaimQueued(w) \/ ClaimNothing(w)
  PROVE  RowsMoved
<1>1. ASSUME NEW j \in Jobs
      PROVE  /\ rows[j] \in Row /\ Sound(rows[j], artifact[j]) /\ artifact[j] \in BOOLEAN
             /\ artifact'[j] \in BOOLEAN
             /\ artifact'[j] => rows[j].expiry # "none"
             /\ rows[j].expiry = "live" => artifact'[j]
  <2>1. rows[j] \in Row /\ Sound(rows[j], artifact[j]) /\ artifact[j] \in BOOLEAN
    BY DEF IInv, TypeOK, SoundRows
  <2>2. artifact'[j] = (artifact[j] /\ ~DeletesArtifact(j))
    BY DEF ClaimQueued, ClaimNothing, ArtifactsLeft
  <2> QED
    BY <2>1, <2>2 DEF Sound, DeletesArtifact
<1>2. ASSUME NEW j \in Jobs
      PROVE  RowStep(rows[j], Recovered(rows[j]), artifact'[j])
  BY <1>1, RecoveredStep
<1>3. artifact' \in [Jobs -> BOOLEAN]
  <2>1. artifact' = [j \in Jobs |-> artifact[j] /\ ~DeletesArtifact(j)]
    BY DEF ClaimQueued, ClaimNothing, ArtifactsLeft
  <2> QED
    BY <2>1
<1>4. CASE ClaimNothing(w)
  BY <1>2, <1>3, <1>4 DEF ClaimNothing, RecoveredRows, RowsMoved, RowStep
<1>5. CASE ClaimQueued(w)
  <2>1. PICK i \in Jobs : /\ RecoveredRows[i].status = "queued"
                          /\ Admits(Claimed(RecoveredRows[i]))
                          /\ rows' = [RecoveredRows EXCEPT ![i] = Claimed(@)]
    BY <1>5 DEF ClaimQueued, QueuedFor
  <2>2. rows'[i] = Claimed(Recovered(rows[i]))
    BY <2>1 DEF RecoveredRows
  <2>3. RowStep(rows[i], rows'[i], artifact'[i])
    BY <1>1, <2>1, <2>2, ClaimedStep DEF RecoveredRows
  <2>4. \A j \in Jobs \ {i} : rows'[j] = Recovered(rows[j])
    BY <2>1 DEF RecoveredRows
  <2>5. rows' = [j \in Jobs |-> rows'[j]]
    BY <2>1 DEF RecoveredRows
  <2>6. \A j \in Jobs : RowStep(rows[j], rows'[j], artifact'[j])
    BY <1>2, <2>3, <2>4
  <2> QED
    BY <1>3, <2>5, <2>6 DEF RowsMoved, RowStep
<1> QED
  BY <1>4, <1>5

\* A batch of retention, and the end of it.
LEMMA RetentionRows ==
  ASSUME IInv, NEW w \in Workers, RetentionBatch(w) \/ RetentionDone(w)
  PROVE  RowsMoved
<1> DEFINE i == worker[w].job
           r == rows[i]
           a == artifact[i]
<1>1. /\ i \in Jobs /\ r \in Row /\ a \in BOOLEAN /\ Sound(r, a)
      /\ r.status # "absent" /\ r.attempts > 0 /\ r.type = "retention"
  BY HolderRow DEF RetentionBatch, RetentionDone, Works
<1>2. CASE RetentionDone(w)
  <2>1. r.phase = Phases /\ rows' = [rows EXCEPT ![i] = Completed(r)] /\ artifact' = artifact
    BY <1>2 DEF RetentionDone, NoPhaseLeft
  <2>2. RowStep(r, Completed(r), a)
    BY <1>1, <2>1, CompletedRow, EndedStep DEF Sound, Terminal
  <2> QED
    BY <1>1, <2>1, <2>2, OnlyRowMoved
<1>3. CASE RetentionBatch(w)
  <2> DEFINE p == NextPhase(r.phase, due[r.phase] > 0)
             c == r.counted \/ due[r.phase] > 0
             s == [r EXCEPT !.phase = p, !.counted = c]
  <2>1. r.phase # Phases /\ rows' = [rows EXCEPT ![i] = s] /\ artifact' = artifact
    BY <1>1, <1>3 DEF RetentionBatch, NoPhaseLeft, IInv, TypeOK
  <2>2. r.phase \in 0..(Phases - 1) /\ due[r.phase] \in Nat
    BY <1>1, <2>1, BoundsAssumption DEF Row, IInv, TypeOK
  <2>3. p \in 0..Phases /\ (p = r.phase \/ (p = r.phase + 1 /\ due[r.phase] = 0))
    BY <2>2, BoundsAssumption DEF NextPhase
  <2>4. c \in BOOLEAN
    OBVIOUS
  <2> HIDE DEF p, c
  <2>5. /\ s \in Row /\ s.status = r.status /\ s.done = r.done /\ s.type = r.type
        /\ s.attempts = r.attempts /\ s.expiry = r.expiry /\ s.phase = p
    BY <1>1, <2>3, <2>4 DEF Row
  <2> HIDE DEF s
  <2>6. r.status # "completed"
    BY <1>1, <2>1 DEF Sound
  <2>7. r.status # "absent"
    BY <1>1
  <2>8. Sound(s, a)
    BY <1>1, <2>5, <2>6, <2>7 DEF Sound
  <2>9. RowStep(r, s, a)
    BY <1>1, <2>3, <2>5, <2>8 DEF RowStep, Row, View
  <2> QED
    BY <1>1, <2>1, <2>9, OnlyRowMoved
<1> QED
  BY <1>2, <1>3

\* An export stores its artifact and the expiry of it together.
LEMMA ExportRows ==
  ASSUME IInv, NEW w \in Workers, Export(w)
  PROVE  RowsMoved
<1> DEFINE i == worker[w].job
           r == rows[i]
           s == Exported(r)
<1>1. /\ i \in Jobs /\ r \in Row /\ artifact[i] \in BOOLEAN /\ Sound(r, artifact[i])
      /\ r.status # "absent" /\ r.attempts > 0 /\ r.type = "privacy-export"
  BY HolderRow DEF Export, Works
<1>2. /\ s \in Row /\ s.status = "completed" /\ s.done = TRUE
      /\ s.type = r.type /\ s.attempts = r.attempts /\ s.expiry = "live"
      /\ s.phase = r.phase
  BY <1>1, ExportedRow
<1>3. rows' = [rows EXCEPT ![i] = s] /\ artifact' = [artifact EXCEPT ![i] = TRUE]
  BY DEF Export
<1> HIDE DEF s
<1>4. RowStep(r, s, TRUE)
  BY <1>1, <1>2, EndedStep DEF Terminal
<1> QED
  BY <1>1, <1>3, <1>4, OneMoved

\* A batch of a deletion, and the end of it.
LEMMA DeletionRows ==
  ASSUME IInv, NEW w \in Workers, DeletionBatch(w) \/ DeletionDone(w)
  PROVE  RowsMoved
<1> DEFINE i == worker[w].job
           r == rows[i]
           a == artifact[i]
<1>1. /\ i \in Jobs /\ r \in Row /\ a \in BOOLEAN /\ Sound(r, a)
      /\ r.status # "absent" /\ r.attempts > 0 /\ r.type = "privacy-delete"
  BY HolderRow DEF DeletionBatch, DeletionDone, Works
<1>2. CASE DeletionBatch(w)
  <2> DEFINE s == [r EXCEPT !.counted = TRUE]
  <2>1. rows' = [rows EXCEPT ![i] = s] /\ artifact' = artifact
    BY <1>1, <1>2 DEF DeletionBatch, IInv, TypeOK
  <2>2. /\ s \in Row /\ s.status = r.status /\ s.done = r.done /\ s.type = r.type
        /\ s.attempts = r.attempts /\ s.expiry = r.expiry /\ s.phase = r.phase
    BY <1>1 DEF Row
  <2> HIDE DEF s
  <2>3. Sound(s, a)
    BY <1>1, <2>2 DEF Sound
  <2>4. RowStep(r, s, a)
    BY <1>1, <2>2, <2>3 DEF RowStep, Row, View
  <2> QED
    BY <1>1, <2>1, <2>4, OnlyRowMoved
<1>3. CASE DeletionDone(w)
  <2> DEFINE s == [Completed(r) EXCEPT !.counted = TRUE]
  <2>1. rows' = [rows EXCEPT ![i] = s] /\ artifact' = artifact
    BY <1>3 DEF DeletionDone
  <2>2. /\ s \in Row /\ s.status = "completed" /\ s.done = TRUE /\ s.type = r.type
        /\ s.attempts = r.attempts /\ s.expiry = r.expiry /\ s.phase = r.phase
    BY <1>1, CompletedRow DEF Row
  <2> HIDE DEF s
  <2>3. RowStep(r, s, a)
    BY <1>1, <2>2, EndedStep DEF Sound, Terminal
  <2> QED
    BY <1>1, <2>1, <2>3, OnlyRowMoved
<1> QED
  BY <1>2, <1>3

\* fail() and requeue.
LEMMA GivenBackRows ==
  ASSUME IInv, NEW w \in Workers, Fail(w) \/ Requeue(w)
  PROVE  RowsMoved
<1> DEFINE i == worker[w].job
           r == rows[i]
           a == artifact[i]
<1>1. /\ i \in Jobs /\ r \in Row /\ a \in BOOLEAN /\ Sound(r, a)
      /\ r.status # "absent" /\ r.attempts > 0
  BY HolderRow DEF Fail, Requeue
<1>2. CASE Fail(w)
  <2>1. rows' = [rows EXCEPT ![i] = Failed(r)] /\ artifact' = artifact
    BY <1>2 DEF Fail
  <2>2. RowStep(r, Failed(r), a)
    BY <1>1, FailedRow, EndedStep DEF Sound, Terminal
  <2> QED
    BY <1>1, <2>1, <2>2, OnlyRowMoved
<1>3. CASE Requeue(w) /\ Admits(Requeued(r))
  <2>1. rows' = [rows EXCEPT ![i] = Requeued(r)] /\ artifact' = artifact
    BY <1>3 DEF Requeue
  <2>2. ~r.done
    BY <1>1, <1>3, RequeuedRow DEF Admits, Terminal
  <2>3. r.status \in Pending
    BY <1>1, <2>2 DEF Sound, Row, Pending, Terminal
  <2>4. RowStep(r, Requeued(r), a)
    BY <1>1, <2>3, RequeuedStep DEF Sound
  <2> QED
    BY <1>1, <2>1, <2>4, OnlyRowMoved
<1>4. CASE Requeue(w) /\ ~Admits(Requeued(r))
  BY <1>4, NothingMoved DEF Requeue
<1> QED
  BY <1>2, <1>3, <1>4

\* Time passes for a row.
LEMMA TimeRows ==
  ASSUME IInv, NEW i \in Jobs, ClaimGoesStale(i) \/ DownloadExpires(i)
  PROVE  RowsMoved
<1> DEFINE r == rows[i]
           a == artifact[i]
<1>1. r \in Row /\ a \in BOOLEAN /\ Sound(r, a)
  BY HolderRow DEF IInv, TypeOK, SoundRows
<1>2. CASE ClaimGoesStale(i)
  <2> DEFINE s == [r EXCEPT !.claim = "stale"]
  <2>1. rows' = [rows EXCEPT ![i] = s] /\ artifact' = artifact
    BY <1>2 DEF ClaimGoesStale, IInv, TypeOK
  <2>2. /\ s \in Row /\ s.status = r.status /\ s.done = r.done /\ s.type = r.type
        /\ s.attempts = r.attempts /\ s.expiry = r.expiry /\ s.phase = r.phase
    BY <1>1 DEF Row
  <2> HIDE DEF s
  <2>3. Sound(s, a)
    BY <1>1, <2>2 DEF Sound
  <2>4. RowStep(r, s, a)
    BY <1>1, <2>2, <2>3 DEF RowStep, Row, View
  <2> QED
    BY <2>1, <2>4, OnlyRowMoved
<1>3. CASE DownloadExpires(i)
  <2> DEFINE s == [r EXCEPT !.expiry = "past"]
  <2>1. rows' = [rows EXCEPT ![i] = s] /\ artifact' = artifact /\ r.expiry = "live"
    BY <1>3 DEF DownloadExpires, IInv, TypeOK
  <2>2. /\ s \in Row /\ s.status = r.status /\ s.done = r.done /\ s.type = r.type
        /\ s.attempts = r.attempts /\ s.expiry = "past" /\ s.phase = r.phase
    BY <1>1 DEF Row
  <2> HIDE DEF s
  <2>3. Sound(s, a)
    BY <1>1, <2>1, <2>2 DEF Sound
  <2>4. RowStep(r, s, a)
    BY <1>1, <2>2, <2>3 DEF RowStep, Row, View
  <2> QED
    BY <2>1, <2>4, OnlyRowMoved
<1> QED
  BY <1>2, <1>3

\* Whatever happens moves the rows.
LEMMA RowsStep ==
  ASSUME IInv, [Next]_vars
  PROVE  RowsMoved
<1>1. CASE UNCHANGED <<rows, artifact>>
  BY <1>1, NothingMoved
<1>2. ASSUME NEW k \in Keys, EnqueueReplay(k) \/ \E t \in Types : EnqueueNew(k, t)
      PROVE  RowsMoved
  BY <1>1, <1>2, EnqueueRows DEF EnqueueReplay
<1>3. ASSUME NEW w \in Workers, Process(w) \/ Crash(w)
      PROVE  RowsMoved
  <2>1. CASE LeaseOrganization(w) \/ ClaimRefused(w) \/ CustomerNotFound(w) \/ WorkFails(w)
    BY <1>1, <2>1 DEF LeaseOrganization, ClaimRefused, CustomerNotFound, WorkFails
  <2>2. CASE LookForPending(w) \/ KeepDispatch(w) \/ DeleteDispatch(w) \/ Crash(w)
    BY <1>1, <2>2 DEF LookForPending, KeepDispatch, DeleteDispatch, Crash
  <2> QED
    BY <1>3, <2>1, <2>2, ClaimRows, RetentionRows, ExportRows, DeletionRows, GivenBackRows
    DEF Process, Work
<1>4. CASE TimePasses
  BY <1>1, <1>4, TimeRows DEF TimePasses, LeaseLapses, DispatchFallsDue
<1>5. CASE DataChanges
  BY <1>1, <1>5 DEF DataChanges, RowsComeDue, OrdersArrive
<1> QED
  BY <1>1, <1>2, <1>3, <1>4, <1>5 DEF Next, vars

-----------------------------------------------------------------------------
(* What the actions do to the workers.                                     *)

\* Attempts are numbers, and more than some is some.
LEMMA MoreAttempts ==
  ASSUME NEW r \in Row, NEW s \in Row, r.attempts > 0, s.attempts >= r.attempts
  PROVE  s.attempts > 0
<1>1. r.attempts \in Nat /\ s.attempts \in Nat
  BY BoundsAssumption DEF Row
<1> QED
  BY <1>1

\* A job in a worker's hands stays in the table.
LEMMA HeldRow ==
  ASSUME IInv, RowsMoved, NEW w \in Workers, worker[w].at \in {"work", "retry", "give up"}
  PROVE  LET j == worker[w].job IN
         j \in Jobs /\ rows'[j].status # "absent" /\ rows'[j].attempts > 0
<1> DEFINE j == worker[w].job
           r == rows[j]
           s == rows'[j]
<1>1. j \in Jobs /\ r.status # "absent" /\ r.attempts > 0 /\ r \in Row
  BY HolderRow
<1>2. RowStep(r, s, artifact'[j])
  BY <1>1 DEF RowsMoved
<1>3. s.status # "absent" /\ s.attempts >= r.attempts /\ s \in Row
  BY <1>1, <1>2 DEF RowStep
<1>4. s.attempts > 0
  BY <1>1, <1>3, MoreAttempts
<1> QED
  BY <1>1, <1>3, <1>4

\* One worker gets somewhere.
LEMMA WorkerMoves ==
  ASSUME IInv, RowsMoved, NEW w \in Workers, NEW x \in Worker,
         worker' = [worker EXCEPT ![w] = x],
         x.at \in {"work", "retry", "give up"} =>
           x.job \in Jobs /\ rows'[x.job].status # "absent" /\ rows'[x.job].attempts > 0
  PROVE  worker' \in [Workers -> Worker] /\ HoldersClaimed'
<1>1. worker' \in [Workers -> Worker]
  BY DEF IInv, TypeOK
<1>2. ASSUME NEW v \in Workers, worker'[v].at \in {"work", "retry", "give up"}
      PROVE  /\ worker'[v].job \in Jobs
             /\ rows'[worker'[v].job].status # "absent"
             /\ rows'[worker'[v].job].attempts > 0
  <2>1. CASE v = w
    BY <1>2, <2>1 DEF IInv, TypeOK
  <2>2. CASE v # w
    <3>1. worker'[v] = worker[v]
      BY <2>2 DEF IInv, TypeOK
    <3> QED
      BY <1>2, <3>1, HeldRow
  <2> QED
    BY <2>1, <2>2
<1> QED
  BY <1>1, <1>2 DEF HoldersClaimed, Exists

\* A worker that has just started is one.
LEMMA IdleInWorker == IdleWorker \in Worker
<1>1. 0 \in 0..MaxAttempts
  BY BoundsAssumption
<1> QED
  BY <1>1 DEF IdleWorker, Worker, Steps

\* It has nothing in its hands any more.
LEMMA WorkerDrops ==
  ASSUME IInv, RowsMoved, NEW w \in Workers,
         NEW step \in Steps, step \notin {"work", "retry", "give up"}, Drop(w, step)
  PROVE  worker' \in [Workers -> Worker] /\ HoldersClaimed'
<1> DEFINE x == [IdleWorker EXCEPT !.at = step]
<1>1. worker' = [worker EXCEPT ![w] = x]
  BY DEF Drop
<1>2. x \in Worker /\ x.at = step
  BY IdleInWorker DEF Worker
<1> HIDE DEF x
<1> QED
  BY <1>1, <1>2, WorkerMoves

\* It goes on with the job in its hands.
LEMMA WorkerKeeps ==
  ASSUME IInv, RowsMoved, NEW w \in Workers, NEW step \in Steps, Goto(w, step),
         step \in {"work", "retry", "give up"} =>
           worker[w].at \in {"work", "retry", "give up"}
  PROVE  worker' \in [Workers -> Worker] /\ HoldersClaimed'
<1> DEFINE x == [worker[w] EXCEPT !.at = step]
<1>1. x \in Worker /\ x.at = step /\ x.job = worker[w].job
      /\ worker' = [worker EXCEPT ![w] = x]
  BY DEF IInv, TypeOK, Worker, Goto
<1> HIDE DEF x
<1>2. ASSUME step \in {"work", "retry", "give up"}
      PROVE  x.job \in Jobs /\ rows'[x.job].status # "absent" /\ rows'[x.job].attempts > 0
  BY <1>1, <1>2, HeldRow
<1> QED
  BY <1>1, <1>2, WorkerMoves

\* Nobody moves.
LEMMA WorkersRest ==
  ASSUME IInv, RowsMoved, UNCHANGED worker
  PROVE  worker' \in [Workers -> Worker] /\ HoldersClaimed'
  BY HeldRow DEF HoldersClaimed, Exists, IInv, TypeOK

\* claim() gives a worker a row it has counted an attempt on.
LEMMA WorkerClaims ==
  ASSUME IInv, RowsMoved, NEW w \in Workers, ClaimQueued(w)
  PROVE  worker' \in [Workers -> Worker] /\ HoldersClaimed'
<1>1. PICK i \in Jobs :
        /\ RecoveredRows[i].status = "queued"
        /\ Admits(Claimed(RecoveredRows[i]))
        /\ rows' = [RecoveredRows EXCEPT ![i] = Claimed(@)]
        /\ worker' = [worker EXCEPT ![w] =
             [at |-> "work", job |-> i, attempts |-> RecoveredRows[i].attempts + 1]]
  BY DEF ClaimQueued, QueuedFor
<1> DEFINE q == Recovered(rows[i])
           x == [at |-> "work", job |-> i, attempts |-> q.attempts + 1]
<1>2. /\ RecoveredRows[i] = q /\ rows'[i] = Claimed(q)
      /\ worker' = [worker EXCEPT ![w] = x]
  BY <1>1 DEF RecoveredRows
<1>3. q \in Row
  <2>1. rows[i] \in Row
    BY DEF IInv, TypeOK
  <2> QED
    BY <2>1, RequeuedRow, FailedRow DEF Recovered
<1>4. Claimed(q).attempts = q.attempts + 1 /\ Claimed(q).status = "processing"
      /\ Claimed(q) \in Row /\ q.attempts \in Nat
  BY <1>1, <1>2, <1>3, ClaimedRow DEF Row
<1>5. x \in Worker /\ x.job = i
  <2>1. Claimed(q).attempts \in 0..MaxAttempts
    BY <1>4 DEF Row
  <2>2. q.attempts + 1 \in 0..MaxAttempts
    BY <1>4, <2>1
  <2> HIDE DEF q
  <2> QED
    BY <2>2 DEF Worker, Steps
<1>6. rows'[x.job].status # "absent" /\ rows'[x.job].attempts > 0
  BY <1>2, <1>4
<1> HIDE DEF x, q
<1> QED
  BY <1>2, <1>5, <1>6, WorkerMoves

\* Every worker holds a claimed row, whatever happens.
LEMMA HoldersStep ==
  ASSUME IInv, [Next]_vars
  PROVE  worker' \in [Workers -> Worker] /\ HoldersClaimed'
<1>1. RowsMoved
  BY RowsStep
<1>2. CASE UNCHANGED worker
  BY <1>1, <1>2, WorkersRest
<1>3. ASSUME NEW w \in Workers, Process(w) \/ Crash(w)
      PROVE  worker' \in [Workers -> Worker] /\ HoldersClaimed'
  <2>1. ASSUME NEW step \in {"release", "idle", "keep now", "keep later", "drop"},
               Drop(w, step)
        PROVE  worker' \in [Workers -> Worker] /\ HoldersClaimed'
    BY <1>1, <2>1, WorkerDrops DEF Steps
  <2>2. CASE LeaseOrganization(w)
    BY <1>1, <2>2, WorkerKeeps DEF LeaseOrganization, Steps
  <2>3. ASSUME worker[w].at = "work",
               UNCHANGED worker \/ Goto(w, "retry") \/ Goto(w, "give up")
        PROVE  worker' \in [Workers -> Worker] /\ HoldersClaimed'
    BY <1>1, <1>2, <2>3, WorkerKeeps DEF Steps
  <2>4. CASE Work(w)
    BY <2>1, <2>3, <2>4
    DEF Work, RetentionBatch, RetentionDone, Export, DeletionBatch, DeletionDone,
        CustomerNotFound, WorkFails, Works, Return, Again
  <2>5. CASE ClaimNothing(w) \/ ClaimRefused(w) \/ Fail(w) \/ Requeue(w)
    BY <2>1, <2>5 DEF ClaimNothing, ClaimRefused, Fail, Requeue
  <2>6. CASE LookForPending(w) \/ KeepDispatch(w) \/ DeleteDispatch(w) \/ Crash(w)
    BY <2>1, <2>6 DEF LookForPending, KeepDispatch, DeleteDispatch, Crash
  <2> QED
    BY <1>1, <1>3, <2>2, <2>4, <2>5, <2>6, WorkerClaims DEF Process
<1>4. CASE \E k \in Keys : EnqueueReplay(k) \/ \E t \in Types : EnqueueNew(k, t)
  BY <1>2, <1>4 DEF EnqueueReplay, EnqueueNew
<1>5. CASE TimePasses \/ DataChanges
  BY <1>2, <1>5
  DEF TimePasses, LeaseLapses, DispatchFallsDue, ClaimGoesStale, DownloadExpires,
      DataChanges, RowsComeDue, OrdersArrive
<1> QED
  BY <1>2, <1>3, <1>4, <1>5 DEF Next, vars

-----------------------------------------------------------------------------
(* What the actions do to the customer and the rows to delete.             *)

\* A customer is gone only when no order is left; orders bring one back.
LEMMA DataStep ==
  ASSUME IInv, [Next]_vars
  PROVE  /\ due' \in [0..(Phases - 1) -> 0..MaxBatches]
         /\ customer' \in [present : BOOLEAN, orders : 0..MaxBatches]
         /\ GoneWithoutOrders'
<1>1. /\ due \in [0..(Phases - 1) -> 0..MaxBatches]
      /\ customer \in [present : BOOLEAN, orders : 0..MaxBatches]
      /\ MaxBatches \in Nat /\ (~customer.present => customer.orders = 0)
  BY BoundsAssumption DEF IInv, TypeOK, GoneWithoutOrders
<1>2. CASE UNCHANGED <<due, customer>>
  BY <1>1, <1>2 DEF GoneWithoutOrders
<1>3. ASSUME NEW w \in Workers, RetentionBatch(w)
      PROVE  /\ due' \in [0..(Phases - 1) -> 0..MaxBatches]
             /\ customer' \in [present : BOOLEAN, orders : 0..MaxBatches]
             /\ GoneWithoutOrders'
  <2> DEFINE p == rows[worker[w].job].phase
  <2>1. due' = [due EXCEPT ![p] = IF @ > 0 THEN @ - 1 ELSE 0]
    BY <1>3 DEF RetentionBatch
  <2>2. \A q \in 0..(Phases - 1) : (IF due[q] > 0 THEN due[q] - 1 ELSE 0) \in 0..MaxBatches
    BY <1>1
  <2>3. due' \in [0..(Phases - 1) -> 0..MaxBatches]
    BY <1>1, <2>1, <2>2
  <2>4. customer' = customer \/ (/\ customer.orders > 0
                               /\ customer' = [customer EXCEPT !.orders = @ - 1])
    BY <1>3 DEF RetentionBatch
  <2>5. customer' \in [present : BOOLEAN, orders : 0..MaxBatches]
    BY <1>1, <2>4
  <2>6. customer' = customer \/ customer'.present
    <3>1. customer.orders > 0 => customer.present
      BY <1>1
    <3> QED
      BY <1>1, <2>4, <3>1
  <2> QED
    BY <1>1, <2>3, <2>5, <2>6 DEF GoneWithoutOrders
<1>4. ASSUME NEW w \in Workers, DeletionBatch(w)
      PROVE  /\ due' = due
             /\ customer' \in [present : BOOLEAN, orders : 0..MaxBatches]
             /\ customer'.present
  <2>1. /\ due' = due /\ customer.present /\ customer.orders > 0
        /\ customer' = [customer EXCEPT !.orders = @ - 1]
    BY <1>4 DEF DeletionBatch
  <2>2. customer' \in [present : BOOLEAN, orders : 0..MaxBatches]
    BY <1>1, <2>1
  <2>3. customer'.present = customer.present
    BY <1>1, <2>1
  <2> QED
    BY <2>1, <2>2, <2>3
<1>5. ASSUME NEW w \in Workers, DeletionDone(w)
      PROVE  /\ due' = due
             /\ customer' \in [present : BOOLEAN, orders : 0..MaxBatches]
             /\ customer'.orders = 0
  <2>1. /\ due' = due /\ (customer.present => customer.orders = 0)
        /\ customer' = [customer EXCEPT !.present = FALSE]
    BY <1>5 DEF DeletionDone, Detached
  <2> QED
    BY <1>1, <2>1
<1>6. CASE OrdersArrive
  BY <1>1, <1>6 DEF OrdersArrive, GoneWithoutOrders
<1>7. ASSUME NEW p \in DOMAIN due, RowsComeDue(p)
      PROVE  /\ due' \in [0..(Phases - 1) -> 0..MaxBatches]
             /\ UNCHANGED customer
  <2>1. /\ due[p] < MaxBatches /\ due' = [due EXCEPT ![p] = @ + 1] /\ customer' = customer
    BY <1>7 DEF RowsComeDue
  <2> QED
    BY <1>1, <2>1
<1>8. ASSUME NEW w \in Workers, Process(w) \/ Crash(w)
      PROVE  \/ RetentionBatch(w) \/ DeletionBatch(w) \/ DeletionDone(w)
             \/ UNCHANGED <<due, customer>>
  BY <1>8
  DEF Process, Work, LeaseOrganization, ClaimQueued, ClaimNothing, ClaimRefused, RetentionDone,
      Export, CustomerNotFound, WorkFails, Fail, Requeue, LookForPending, KeepDispatch,
      DeleteDispatch, Crash, data
<1>9. CASE TimePasses \/ \E k \in Keys : EnqueueReplay(k) \/ \E t \in Types : EnqueueNew(k, t)
  BY <1>2, <1>9
  DEF TimePasses, LeaseLapses, DispatchFallsDue, ClaimGoesStale, DownloadExpires,
      EnqueueReplay, EnqueueNew, data
<1> QED
  BY <1>1, <1>2, <1>3, <1>4, <1>5, <1>6, <1>7, <1>8, <1>9
  DEF Next, vars, DataChanges, GoneWithoutOrders

\* The dispatch row, the audit trail and the count of crashes keep their types.
LEMMA RestStep ==
  ASSUME IInv, [Next]_vars
  PROVE  /\ audited' \in [Jobs -> SUBSET AuditEvents]
         /\ dispatch' \in Dispatch
         /\ crashes' \in 0..MaxCrashes
<1>1. /\ audited \in [Jobs -> SUBSET AuditEvents] /\ dispatch \in Dispatch
      /\ crashes \in 0..MaxCrashes /\ MaxCrashes \in Nat
  BY BoundsAssumption DEF IInv, TypeOK
<1>2. \A j \in Jobs, e \in AuditEvents :
        Audit(j, e) => audited' \in [Jobs -> SUBSET AuditEvents]
  BY <1>1 DEF Audit
<1>3. {NoDispatch, DispatchNow, DispatchLater} \subseteq Dispatch
  BY DEF NoDispatch, DispatchNow, DispatchLater, Dispatch
<1>4. /\ [dispatch EXCEPT !.leased = TRUE] \in Dispatch
      /\ [dispatch EXCEPT !.leased = FALSE] \in Dispatch
      /\ [dispatch EXCEPT !.due = TRUE] \in Dispatch
  BY <1>1 DEF Dispatch
<1>5. ASSUME NEW w \in Workers, Process(w) \/ Crash(w)
      PROVE  /\ audited' \in [Jobs -> SUBSET AuditEvents]
             /\ dispatch' \in Dispatch
             /\ crashes' \in 0..MaxCrashes
  <2>1. CASE RetentionDone(w) \/ Export(w) \/ DeletionDone(w) \/ Fail(w)
    <3>1. worker[w].job \in Jobs
      BY <2>1, HolderRow DEF RetentionDone, Export, DeletionDone, Works, Fail
    <3> QED
      BY <1>1, <1>2, <2>1, <3>1 DEF RetentionDone, Export, DeletionDone, Fail, AuditEvents
  <2>2. CASE LeaseOrganization(w) \/ KeepDispatch(w) \/ DeleteDispatch(w)
    BY <1>1, <1>3, <1>4, <2>2 DEF LeaseOrganization, KeepDispatch, DeleteDispatch
  <2>3. CASE Crash(w)
    BY <1>1, <2>3 DEF Crash
  <2>4. CASE \/ ClaimQueued(w) \/ ClaimNothing(w) \/ ClaimRefused(w) \/ RetentionBatch(w)
             \/ DeletionBatch(w) \/ CustomerNotFound(w) \/ WorkFails(w) \/ Requeue(w)
             \/ LookForPending(w)
    BY <1>1, <2>4
    DEF ClaimQueued, ClaimNothing, ClaimRefused, RetentionBatch, DeletionBatch,
        CustomerNotFound, WorkFails, Requeue, LookForPending
  <2> QED
    BY <1>5, <2>1, <2>2, <2>3, <2>4 DEF Process, Work
<1>6. ASSUME NEW k \in Keys, EnqueueReplay(k) \/ \E t \in Types : EnqueueNew(k, t)
      PROVE  /\ audited' \in [Jobs -> SUBSET AuditEvents]
             /\ dispatch' \in Dispatch
             /\ crashes' \in 0..MaxCrashes
  BY <1>1, <1>2, <1>3, <1>6 DEF EnqueueReplay, EnqueueNew, AuditEvents
<1>7. CASE TimePasses
  BY <1>1, <1>4, <1>7
  DEF TimePasses, LeaseLapses, DispatchFallsDue, ClaimGoesStale, DownloadExpires
<1>8. CASE DataChanges \/ UNCHANGED vars
  BY <1>1, <1>8 DEF DataChanges, RowsComeDue, OrdersArrive, vars
<1> QED
  BY <1>5, <1>6, <1>7, <1>8 DEF Next

-----------------------------------------------------------------------------
(* Who completes a deletion.                                               *)

\* Writing one row completes no other.
LEMMA OthersKept ==
  ASSUME IInv, NEW i \in Jobs, NEW s, rows' = [rows EXCEPT ![i] = s],
         NEW j \in Jobs, rows[j].status # "completed", rows'[j].status = "completed"
  PROVE  i = j /\ s.status = "completed"
  BY DEF IInv, TypeOK

\* Nothing but the last transaction of a deletion does.
LEMMA OnlyDeletionDone ==
  ASSUME IInv, Next, NEW j \in Jobs, rows[j].type = "privacy-delete",
         rows[j].status # "completed", rows'[j].status = "completed"
  PROVE  \E w \in Workers : DeletionDone(w) /\ worker[w].job = j
<1>1. rows' # rows /\ rows[j] \in Row /\ rows \in [Jobs -> Row]
  BY DEF IInv, TypeOK
<1>2. rows[j].status # "absent"
  <2>1. RowStep(rows[j], rows'[j], artifact'[j])
    BY RowsStep DEF RowsMoved
  <2> QED
    BY <2>1, NeverFromNothing
<1>3. ASSUME NEW k \in Keys, EnqueueReplay(k) \/ \E t \in Types : EnqueueNew(k, t)
      PROVE  FALSE
  BY <1>1, <1>2, <1>3, OthersKept DEF EnqueueReplay, EnqueueNew, NextId
<1>4. ASSUME NEW w \in Workers, ClaimQueued(w) \/ ClaimNothing(w)
      PROVE  FALSE
  <2>1. Recovered(rows[j]).status # "completed"
    BY <1>1, FailedRow, RequeuedRow DEF Recovered
  <2>2. \A i \in Jobs : Claimed(RecoveredRows[i]).status # "completed"
    <3> SUFFICES ASSUME NEW i \in Jobs
                 PROVE  Claimed(Recovered(rows[i])).status # "completed"
      BY DEF RecoveredRows
    <3>1. Recovered(rows[i]) \in Row
      <4>1. rows[i] \in Row
        BY <1>1
      <4> QED
        BY <4>1, FailedRow, RequeuedRow DEF Recovered
    <3> QED
      BY <3>1 DEF Claimed, Row
  <2>3. rows'[j] = Recovered(rows[j]) \/ rows'[j] = Claimed(RecoveredRows[j])
    BY <1>4 DEF ClaimQueued, ClaimNothing, RecoveredRows
  <2> QED
    BY <2>1, <2>2, <2>3
<1>5. ASSUME NEW w \in Workers, Export(w) \/ RetentionDone(w) \/ Fail(w)
      PROVE  FALSE
  <2> DEFINE i == worker[w].job
  <2>1. i \in Jobs /\ rows[i] \in Row
    BY <1>5, HolderRow DEF Export, RetentionDone, Works, Fail
  <2>2. CASE Fail(w)
    <3>1. rows' = [rows EXCEPT ![i] = Failed(rows[i])]
      BY <2>2 DEF Fail
    <3>2. Failed(rows[i]).status = "failed"
      BY <2>1, FailedRow
    <3> QED
      BY <2>1, <3>1, <3>2, OthersKept
  <2>3. CASE Export(w) \/ RetentionDone(w)
    <3>1. rows[i].type # "privacy-delete" /\ \E s : rows' = [rows EXCEPT ![i] = s]
      BY <2>3 DEF Export, RetentionDone, Works
    <3> QED
      BY <2>1, <3>1, OthersKept
  <2> QED
    BY <1>5, <2>2, <2>3
<1>6. ASSUME NEW w \in Workers, Requeue(w)
      PROVE  FALSE
  <2> DEFINE i == worker[w].job
  <2>1. i \in Jobs /\ rows[i] \in Row
    BY <1>6, HolderRow DEF Requeue
  <2>2. rows' = [rows EXCEPT ![i] = Requeued(rows[i])]
    BY <1>1, <1>6 DEF Requeue
  <2> QED
    BY <2>1, <2>2, RequeuedRow, OthersKept
<1>7. ASSUME NEW w \in Workers, RetentionBatch(w) \/ DeletionBatch(w)
      PROVE  FALSE
  <2> DEFINE i == worker[w].job
  <2>1. i \in Jobs /\ rows[i] \in Row
    BY <1>7, HolderRow DEF RetentionBatch, DeletionBatch, Works
  <2>2. rows'[j].status = rows[j].status
    BY <1>1, <1>7, <2>1 DEF RetentionBatch, DeletionBatch, Row
  <2> QED
    BY <2>2
<1>8. ASSUME NEW w \in Workers,
             \/ LeaseOrganization(w) \/ ClaimRefused(w) \/ CustomerNotFound(w)
             \/ WorkFails(w) \/ LookForPending(w) \/ KeepDispatch(w)
             \/ DeleteDispatch(w) \/ Crash(w)
      PROVE  FALSE
  BY <1>1, <1>8
  DEF LeaseOrganization, ClaimRefused, CustomerNotFound, WorkFails, LookForPending,
      KeepDispatch, DeleteDispatch, Crash
<1>9. ASSUME NEW w \in Workers, DeletionDone(w)
      PROVE  worker[w].job = j
  <2>1. worker[w].job \in Jobs
    BY <1>9, HolderRow DEF DeletionDone, Works
  <2> QED
    BY <1>9, <2>1, OthersKept DEF DeletionDone
<1>10. ASSUME NEW i \in Jobs, ClaimGoesStale(i) \/ DownloadExpires(i)
       PROVE  FALSE
  <2>1. rows'[j].status = rows[j].status
    BY <1>1, <1>10 DEF ClaimGoesStale, DownloadExpires, Row
  <2> QED
    BY <2>1
<1>11. CASE LeaseLapses \/ DispatchFallsDue \/ DataChanges
  BY <1>1, <1>11 DEF LeaseLapses, DispatchFallsDue, DataChanges, RowsComeDue, OrdersArrive
<1> QED
  BY <1>3, <1>4, <1>5, <1>6, <1>7, <1>8, <1>9, <1>10, <1>11
  DEF Next, Process, Work, TimePasses

-----------------------------------------------------------------------------
(* Theorems.                                                               *)

\* The invariant holds of an empty queue.
LEMMA InvInit == Init => IInv
<1> SUFFICES ASSUME Init
             PROVE  IInv
  OBVIOUS
<1>1. 0 \in 0..MaxBatches /\ 0 \in 0..MaxCrashes
  BY BoundsAssumption
<1>2. rows \in [Jobs -> Row] /\ \A j \in Jobs : rows[j] = NoRow
  BY NoRowColumns DEF Init
<1>3. TypeOK
  BY <1>1, <1>2, IdleInWorker DEF Init, TypeOK, NoDispatch, Dispatch
<1>4. SoundRows
  <2>1. \A j \in Jobs : ~artifact[j]
    BY DEF Init
  <2>2. \A j \in Jobs : Sound(NoRow, artifact[j])
    BY <2>1, NoRowColumns DEF Sound, Terminal
  <2> QED
    BY <1>2, <2>2 DEF SoundRows
<1>5. HoldersClaimed
  BY DEF Init, HoldersClaimed, IdleWorker
<1>6. GoneWithoutOrders
  BY DEF Init, GoneWithoutOrders
<1> QED
  BY <1>3, <1>4, <1>5, <1>6 DEF IInv

\* Every step preserves the invariant.
LEMMA InvStep == IInv /\ [Next]_vars => IInv'
<1> SUFFICES ASSUME IInv, [Next]_vars
             PROVE  IInv'
  OBVIOUS
<1>1. SoundRows'
  BY RowsStep DEF RowsMoved, RowStep, SoundRows
<1> QED
  BY <1>1, RowsStep, HoldersStep, DataStep, RestStep DEF RowsMoved, IInv, TypeOK

\* The invariant holds in every state.
LEMMA Invariance == Spec => []IInv
  BY InvInit, InvStep, PTL DEF Spec

\* The columns of governance_jobs and the workers' variables stay in range.
THEOREM TypeCorrect == Spec => []TypeOK
<1>1. IInv => TypeOK
  BY DEF IInv
<1> QED
  BY <1>1, Invariance, PTL

\* An export can be downloaded from its completion until its expiry, and no chunk
\* is stored without the expiry that deletes it.
THEOREM DownloadsInTheirWindow == Spec => []ArtifactWindow
<1>1. IInv => ArtifactWindow
  <2> SUFFICES ASSUME IInv, NEW j \in Jobs
               PROVE  /\ artifact[j] => rows[j].expiry # "none"
                      /\ rows[j].type = "privacy-export" /\ rows[j].status = "completed"
                           /\ rows[j].expiry # "past" => DownloadReady(j)
                      /\ DownloadReady(j) => Downloads(j)
    BY DEF ArtifactWindow
  <2>1. rows[j].expiry \in {"none", "live", "past"}
    BY DEF IInv, TypeOK, Row
  <2>2. Sound(rows[j], artifact[j])
    BY DEF IInv, SoundRows
  <2> QED
    BY <2>1, <2>2 DEF Sound, DownloadReady, Downloads
<1> QED
  BY <1>1, Invariance, PTL

\* Retention leaves its phases in order and only when they are done.
THEOREM PhasesLeftInOrder == Spec => PhasesInOrder
<1>1. IInv /\ IInv' /\ [Next]_vars =>
        [\A j \in Jobs :
           /\ rows[j].status \in Terminal => rows'[j].status \in Terminal
           /\ rows'[j].phase # rows[j].phase =>
                /\ rows'[j].phase = rows[j].phase + 1
                /\ due[rows[j].phase] = 0
           /\ rows[j].type = "retention" /\ rows'[j].status = "completed" =>
                rows'[j].phase = Phases]_<<rows, due>>
  <2> SUFFICES ASSUME IInv, IInv', [Next]_vars, NEW j \in Jobs
               PROVE  /\ rows[j].status \in Terminal => rows'[j].status \in Terminal
                      /\ rows'[j].phase # rows[j].phase =>
                           /\ rows'[j].phase = rows[j].phase + 1
                           /\ due[rows[j].phase] = 0
                      /\ rows[j].type = "retention" /\ rows'[j].status = "completed" =>
                           rows'[j].phase = Phases
    OBVIOUS
  <2>1. RowStep(rows[j], rows'[j], artifact'[j])
    BY RowsStep DEF RowsMoved
  <2>2. ASSUME rows[j].type = "retention", rows'[j].status = "completed"
        PROVE  rows'[j].phase = Phases
    <3>1. rows[j].status # "absent"
      BY <2>1, <2>2, NeverFromNothing
    <3> QED
      BY <2>1, <2>2, <3>1 DEF RowStep, Sound
  <2> QED
    BY <2>1, <2>2 DEF RowStep
<1> QED
  BY <1>1, Invariance, PTL DEF Spec, PhasesInOrder

\* A completed deletion leaves no customer and no order of one, and is audited.
THEOREM DeletionsAreComplete == Spec => DeletionLeavesNothing
<1> DEFINE Deleted ==
      \A j \in Jobs :
        /\ rows[j].type = "privacy-delete"
        /\ rows[j].status # "completed" /\ rows'[j].status = "completed"
        => /\ ~customer'.present /\ customer'.orders = 0
           /\ "completed" \in audited'[j]
<1>1. IInv /\ [Next]_vars => [Deleted]_vars
  <2> SUFFICES ASSUME IInv, Next, NEW j \in Jobs, rows[j].type = "privacy-delete",
                      rows[j].status # "completed", rows'[j].status = "completed"
               PROVE  /\ ~customer'.present /\ customer'.orders = 0
                      /\ "completed" \in audited'[j]
    OBVIOUS
  <2>1. PICK w \in Workers : DeletionDone(w) /\ worker[w].job = j
    BY OnlyDeletionDone
  <2>2. /\ (customer.present => customer.orders = 0)
        /\ customer' = [customer EXCEPT !.present = FALSE]
        /\ audited' = [audited EXCEPT ![j] = @ \cup {"completed"}]
    BY <2>1 DEF DeletionDone, Detached, Audit
  <2>3. customer \in [present : BOOLEAN, orders : 0..MaxBatches]
        /\ (~customer.present => customer.orders = 0)
        /\ audited \in [Jobs -> SUBSET AuditEvents]
    BY DEF IInv, TypeOK, GoneWithoutOrders
  <2>4. ~customer'.present
    BY <2>2, <2>3
  <2>5. customer'.orders = 0
    BY <2>2, <2>3
  <2>6. "completed" \in audited'[j]
    BY <2>2, <2>3
  <2> QED
    BY <2>4, <2>5, <2>6
<1> QED
  BY <1>1, Invariance, PTL DEF Spec, DeletionLeavesNothing

\* The governance queue implements the durable-job contract.
THEOREM Refinement == Spec => Contract!Spec
<1>1. Init => Contract!Init
  BY NoRowColumns DEF Init, Contract!Init, View
<1>2. IInv /\ IInv' /\ [Next]_vars => [Contract!Next]_([j \in Jobs |-> View(rows[j])])
  <2> SUFFICES ASSUME IInv, IInv', [Next]_vars
               PROVE  Contract!Next
    OBVIOUS
  <2>1. \A j \in Jobs : RowStep(rows[j], rows'[j], artifact'[j])
    BY RowsStep DEF RowsMoved
  <2>2. \A j \in Jobs : View(rows'[j]) \in Contract!JobView
    BY DEF IInv, TypeOK, Row, View, Pending, Terminal, Contract!JobView, Contract!Statuses
  <2> QED
    BY <2>1, <2>2 DEF Contract!Next, RowStep
<1> QED
  BY <1>1, <1>2, Invariance, PTL DEF Spec, Contract!Spec
=============================================================================
