------------------------- MODULE ImportQueueProofs --------------------------
(***************************************************************************)
(* Theorems about ImportQueue: types, orders written once, and the durable *)
(* job contract.                                                           *)
(***************************************************************************)
EXTENDS ImportQueue, TLAPS

-----------------------------------------------------------------------------
(* The inductive invariant.                                                *)

\* The rows that were never inserted and the queued ones count no attempt.
CountsClaims ==
  \A j \in Jobs : rows[j].status \in {"absent", "queued"} => rows[j].attempts = 0

\* A worker with an import in its hands finds its row, claimed at least once,
\* and writes orders only of a file the parser accepted.
HoldersClaimed ==
  \A w \in Workers :
    worker[w].at # "idle" =>
      /\ worker[w].job \in Jobs
      /\ Exists(rows[worker[w].job])
      /\ rows[worker[w].job].attempts > 0
      /\ worker[w].at = "ingest" => rows[worker[w].job].valid

\* The receipts say which imports were written, each once; they are of accepted
\* files, and no import completes without them.
ReceiptsTell ==
  \A j \in Jobs :
    /\ applied[j] = IF j \in receipts THEN 1 ELSE 0
    /\ j \in receipts => rows[j].valid /\ rows[j].status # "absent"
    /\ rows[j].status = "completed" => j \in receipts

IInv == TypeOK /\ CountsClaims /\ HoldersClaimed /\ ReceiptsTell

-----------------------------------------------------------------------------
(* What a step does to one row.                                            *)

View(r) == [status |-> r.status, attempts |-> r.attempts]

\* Row r becomes s: the same job with the same file, moved as the contract allows.
RowStep(r, s) ==
  /\ s \in Row
  /\ View(s) # View(r) => Contract!Move(View(r), View(s))
  /\ s.status \in {"absent", "queued"} => s.attempts = 0
  /\ r.status # "absent" =>
       /\ s.valid = r.valid /\ s.attempts >= r.attempts /\ s.status # "absent"
  /\ s.status = "completed" => r.status # "absent"

\* A row that stays as it is makes no move.
LEMMA SameRow == ASSUME NEW r \in Row, r.status \in {"absent", "queued"} => r.attempts = 0
                 PROVE  RowStep(r, r)
  BY DEF RowStep, View, Row

\* Failing a row whose claims are used up is a move of the contract, or none.
LEMMA ExhaustedStep ==
  ASSUME NEW r \in Row, r.status \in {"absent", "queued"} => r.attempts = 0
  PROVE  /\ RowStep(r, Exhausted(r))
         /\ Exhausted(r).status = "completed" => r.status = "completed"
         /\ Exists(r) => Exists(Exhausted(r))
<1>1. CASE Exhausted(r) = r
  BY <1>1, SameRow
<1>2. CASE Exhausted(r) # r
  <2>1. /\ r.status = "processing" /\ r.attempts >= MaxAttempts
        /\ Exhausted(r) = [r EXCEPT !.status = "failed", !.stale = FALSE]
    BY <1>2 DEF Exhausted
  <2> DEFINE s == [r EXCEPT !.status = "failed", !.stale = FALSE]
  <2>2. s \in Row /\ s.status = "failed" /\ s.attempts = r.attempts /\ s.valid = r.valid
    BY DEF Row, Terminal
  <2>4. r.attempts > 0
    BY <2>1, MaxAttemptsAssumption DEF Row
  <2>3. Contract!GaveUp(View(r), View(s))
    BY <2>1, <2>2, <2>4 DEF View, Contract!GaveUp, Contract!Pending
  <2> QED BY <2>1, <2>2, <2>3, <2>4 DEF RowStep, Contract!Move, Row, Exists, Terminal
<1> QED BY <1>1, <1>2

\* Claiming a row is a move of the contract.
LEMMA ClaimedStep ==
  ASSUME NEW r \in Row, r.status \in {"absent", "queued"} => r.attempts = 0, Claimable(r)
  PROVE  /\ RowStep(r, Claimed(r))
         /\ Claimed(r).status = "processing" /\ Claimed(r).attempts > 0
<1> DEFINE s == Claimed(r)
<1>1. r.status \in Pending /\ r.attempts < MaxAttempts
  BY MaxAttemptsAssumption DEF Claimable, Pending
<1>2. r.attempts + 1 \in 0..MaxAttempts
  BY <1>1, MaxAttemptsAssumption DEF Row
<1>3. /\ s.status = "processing" /\ s.attempts = r.attempts + 1 /\ s.valid = r.valid
      /\ s \in Row
  BY <1>2 DEF Claimed, Row, Pending
<1>4. Contract!Claimed(View(r), View(s))
  BY <1>1, <1>3 DEF View, Contract!Claimed, Contract!Pending, Pending
<1> QED BY <1>1, <1>3, <1>4 DEF RowStep, Contract!Move, Row, Pending

\* So is ending the import of a claimed row.
LEMMA OverStep ==
  ASSUME NEW r \in Row, NEW status \in Terminal, Exists(r), r.attempts > 0
  PROVE  RowStep(r, [r EXCEPT !.status = status])
<1> DEFINE s == [r EXCEPT !.status = status]
<1>1. /\ s \in Row /\ s.status = status /\ s.attempts = r.attempts /\ s.valid = r.valid
  BY DEF Row, Terminal
<1>2. CASE r.status = status
  BY <1>1, <1>2 DEF RowStep, View, Row, Terminal
<1>3. CASE status = "completed" /\ r.status # status
  <2>1. Contract!Finished(View(r), View(s))
    BY <1>1, <1>3 DEF View, Contract!Finished, Contract!Pending, Exists, Pending, Terminal
  <2> QED BY <2>1, <1>1, <1>3 DEF RowStep, Contract!Move, Row, Exists, Pending, Terminal
<1>4. CASE status = "failed" /\ r.status # status
  <2>1. Contract!GaveUp(View(r), View(s)) \/ Contract!Expired(View(r), View(s))
    BY <1>1, <1>4
       DEF View, Contract!GaveUp, Contract!Expired, Contract!Pending, Exists, Pending, Terminal
  <2> QED BY <2>1, <1>1, <1>4 DEF RowStep, Contract!Move, Row, Exists, Pending, Terminal
<1> QED BY <1>2, <1>3, <1>4 DEF Terminal

\* Whoever holds an import finds its row, claimed once at least.
LEMMA HolderRow ==
  ASSUME IInv, NEW w \in Workers, worker[w].at # "idle"
  PROVE  /\ worker[w].job \in Jobs
         /\ rows[worker[w].job] \in Row
         /\ Exists(rows[worker[w].job])
         /\ rows[worker[w].job].attempts > 0
  BY DEF IInv, TypeOK, HoldersClaimed

\* A row that no step writes stays as it is.
LEMMA Unaffected ==
  ASSUME IInv, NEW j \in Jobs, rows'[j] = rows[j]
  PROVE  RowStep(rows[j], rows'[j])
  BY SameRow DEF IInv, TypeOK, CountsClaims

\* Every step moves every row as the contract allows.
LEMMA RowsStep ==
  ASSUME IInv, [Next]_vars
  PROVE  /\ rows' \in [Jobs -> Row]
         /\ \A j \in Jobs : RowStep(rows[j], rows'[j])
<1>1. /\ rows \in [Jobs -> Row]
      /\ \A j \in Jobs : rows[j] \in Row
      /\ \A j \in Jobs : rows[j].status \in {"absent", "queued"} => rows[j].attempts = 0
  BY DEF IInv, TypeOK, CountsClaims
<1>2. CASE UNCHANGED rows
  BY <1>1, <1>2, Unaffected
<1>3. ASSUME NEW k \in Keys, Enqueue(k)
      PROVE  rows' \in [Jobs -> Row] /\ \A j \in Jobs : RowStep(rows[j], rows'[j])
  <2>1. PICK i \in Jobs, valid \in BOOLEAN :
          /\ rows[i].status = "absent"
          /\ rows' = [rows EXCEPT ![i] =
                        [NoRow EXCEPT !.status = "queued", !.key = k, !.valid = valid]]
    BY <1>3 DEF Enqueue, NextId
  <2> DEFINE new == [NoRow EXCEPT !.status = "queued", !.key = k, !.valid = valid]
  <2>5. 0 \in 0..MaxAttempts
    BY MaxAttemptsAssumption
  <2>2. new \in Row /\ new.status = "queued" /\ new.attempts = 0
    BY <2>5 DEF NoRow, Row, Pending
  <2>3. Contract!Submitted(View(rows[i]), View(new))
    BY <2>1, <2>2 DEF View, Contract!Submitted
  <2>4. RowStep(rows[i], new)
    BY <2>1, <2>2, <2>3 DEF RowStep, Contract!Move
  <2> QED BY <1>1, <2>1, <2>2, <2>4, Unaffected
<1>4. ASSUME NEW w \in Workers, Claim(w)
      PROVE  rows' \in [Jobs -> Row] /\ \A j \in Jobs : RowStep(rows[j], rows'[j])
  <2>1. PICK i \in Jobs :
          /\ Claimable(rows[i])
          /\ rows' = [j \in Jobs |-> IF j = i THEN Claimed(rows[j]) ELSE Exhausted(rows[j])]
    BY <1>4 DEF Claim
  <2>2. \A j \in Jobs : RowStep(rows[j], rows'[j])
    BY <1>1, <2>1, ClaimedStep, ExhaustedStep
  <2> QED BY <2>1, <2>2 DEF RowStep
<1>5. ASSUME NEW w \in Workers, ClaimNothing(w)
      PROVE  rows' \in [Jobs -> Row] /\ \A j \in Jobs : RowStep(rows[j], rows'[j])
  <2>1. rows' = [j \in Jobs |-> Exhausted(rows[j])]
    BY <1>5 DEF ClaimNothing
  <2>2. \A j \in Jobs : RowStep(rows[j], rows'[j])
    BY <1>1, <2>1, ExhaustedStep
  <2> QED BY <2>1, <2>2 DEF RowStep
<1>6. ASSUME NEW w \in Workers, Ingest(w) \/ Fail(w)
      PROVE  rows' \in [Jobs -> Row] /\ \A j \in Jobs : RowStep(rows[j], rows'[j])
  <2> DEFINE i == worker[w].job
  <2>1. i \in Jobs /\ Exists(rows[i]) /\ rows[i].attempts > 0
    BY <1>6, HolderRow DEF Ingest, Fail
  <2>2. PICK status \in Terminal : rows' = [rows EXCEPT ![i].status = status]
    BY <1>6, <2>1 DEF Ingest, Fail, Stored, Terminal
  <2>3. RowStep(rows[i], rows'[i])
    BY <1>1, <2>1, <2>2, OverStep
  <2>4. \A j \in Jobs : RowStep(rows[j], rows'[j])
    BY <1>1, <2>1, <2>2, <2>3, Unaffected
  <2> QED BY <1>1, <2>2, <2>4 DEF RowStep
<1>7. ASSUME NEW i \in Jobs, GoesStale(i)
      PROVE  rows' \in [Jobs -> Row] /\ \A j \in Jobs : RowStep(rows[j], rows'[j])
  <2>1. rows' = [rows EXCEPT ![i].stale = TRUE] /\ rows[i].status = "processing"
    BY <1>7 DEF GoesStale
  <2> DEFINE s == [rows[i] EXCEPT !.stale = TRUE]
  <2>2. /\ s \in Row /\ View(s) = View(rows[i]) /\ s.valid = rows[i].valid
        /\ s.status = "processing" /\ s.attempts = rows[i].attempts
    BY <1>1, <2>1 DEF Row, View
  <2>3. RowStep(rows[i], s)
    BY <1>1, <2>1, <2>2 DEF RowStep, Row
  <2> QED BY <1>1, <2>1, <2>2, <2>3, Unaffected
<1>8. ASSUME NEW i \in Jobs, RetentionPurges(i)
      PROVE  rows' \in [Jobs -> Row] /\ \A j \in Jobs : RowStep(rows[j], rows'[j])
  <2>1. rows' = [rows EXCEPT ![i].status = "purged"] /\ rows[i].status \in Terminal
    BY <1>8 DEF RetentionPurges
  <2> DEFINE s == [rows[i] EXCEPT !.status = "purged"]
  <2>2. /\ s \in Row /\ s.status = "purged" /\ s.valid = rows[i].valid
        /\ s.attempts = rows[i].attempts
    BY <1>1, <2>1 DEF Row
  <2>3. Contract!Purged(View(rows[i]), View(s))
    BY <2>1, <2>2 DEF View, Contract!Purged, Terminal
  <2>4. RowStep(rows[i], s)
    BY <1>1, <2>1, <2>2, <2>3 DEF RowStep, Contract!Move, Row
  <2> QED BY <1>1, <2>1, <2>2, <2>4, Unaffected
<1> QED
  BY <1>2, <1>3, <1>4, <1>5, <1>6, <1>7, <1>8
     DEF Next, Process, IngestFails, Crash, vars

-----------------------------------------------------------------------------
(* Preservation.                                                           *)

\* The invariant holds of an empty queue.
LEMMA InvInit == Init => IInv
  BY MaxAttemptsAssumption
     DEF Init, IInv, TypeOK, CountsClaims, HoldersClaimed, ReceiptsTell, NoRow, Row, Worker,
         IdleWorker, Pending

\* No step loses count of the claims.
LEMMA CountsStep == IInv /\ [Next]_vars => CountsClaims'
  BY RowsStep DEF CountsClaims, RowStep

\* A row that exists goes on existing in every step but its purge, of which no
\* worker has it in its hands.
LEMMA HeldRowStays ==
  ASSUME IInv, [Next]_vars, NEW v \in Workers, worker[v].at # "idle"
  PROVE  LET j == worker[v].job
         IN  /\ j \in Jobs /\ Exists(rows'[j]) /\ rows'[j].attempts > 0
             /\ rows'[j].valid = rows[j].valid
<1> DEFINE j == worker[v].job
<1>1. j \in Jobs /\ rows[j] \in Row /\ Exists(rows[j]) /\ rows[j].attempts > 0
  BY HolderRow
<1>2. RowStep(rows[j], rows'[j])
  BY <1>1, RowsStep
<1>3. /\ rows'[j].valid = rows[j].valid /\ rows'[j].status # "absent"
      /\ rows'[j].attempts > 0 /\ rows'[j] \in Row
  BY <1>1, <1>2 DEF RowStep, Exists, Pending, Terminal, Row
<1>4. rows'[j].status # "purged"
  <2>1. CASE UNCHANGED rows
    BY <2>1, <1>1 DEF Exists, Pending, Terminal
  <2>2. ASSUME NEW k \in Keys, Enqueue(k) PROVE rows'[j].status # "purged"
    BY <1>1, <2>2 DEF Enqueue, NextId, NoRow, Exists, Pending, Terminal, IInv, TypeOK
  <2>3. ASSUME NEW w \in Workers, Claim(w) \/ ClaimNothing(w)
        PROVE  rows'[j].status # "purged"
    <3>1. rows'[j] = Claimed(rows[j]) \/ rows'[j] = Exhausted(rows[j])
      BY <1>1, <2>3 DEF Claim, ClaimNothing
    <3>2. Claimed(rows[j]).status = "processing"
      BY <1>1 DEF Claimed, Row
    <3>3. Exhausted(rows[j]).status \in {rows[j].status, "failed"}
      BY <1>1 DEF Exhausted, Row
    <3> QED BY <1>1, <3>1, <3>2, <3>3 DEF Exists, Pending, Terminal
  <2>4. ASSUME NEW w \in Workers, Ingest(w) \/ Fail(w)
        PROVE  rows'[j].status # "purged"
    BY <1>1, <2>4 DEF Ingest, Fail, Stored, Exists, Pending, Terminal, IInv, TypeOK, Row
  <2>5. ASSUME NEW i \in Jobs, GoesStale(i) PROVE rows'[j].status # "purged"
    BY <1>1, <2>5 DEF GoesStale, Exists, Pending, Terminal, IInv, TypeOK, Row
  <2>6. ASSUME NEW i \in Jobs, RetentionPurges(i) PROVE rows'[j].status # "purged"
    BY <1>1, <2>6 DEF RetentionPurges, Exists, Pending, Terminal, IInv, TypeOK
  <2> QED BY <2>1, <2>2, <2>3, <2>4, <2>5, <2>6
          DEF Next, Process, IngestFails, Crash, vars
<1> QED BY <1>1, <1>3, <1>4 DEF Exists, Row

\* No step takes from a holder the row that it works on.
LEMMA HoldersStep ==
  IInv /\ [Next]_vars => HoldersClaimed' /\ worker' \in [Workers -> Worker]
<1> SUFFICES ASSUME IInv, [Next]_vars
             PROVE  HoldersClaimed' /\ worker' \in [Workers -> Worker]
  OBVIOUS
<1>1. /\ worker \in [Workers -> Worker]
      /\ \A w \in Workers : worker[w].at = "ingest" => rows[worker[w].job].valid
  BY DEF IInv, TypeOK, HoldersClaimed
<1>2. CASE /\ worker' \in [Workers -> Worker]
           /\ \A v \in Workers :
                worker'[v].at # "idle" =>
                  /\ worker[v].at # "idle" /\ worker'[v].job = worker[v].job
                  /\ worker'[v].at \in {worker[v].at, "fail"}
  BY <1>1, <1>2, HeldRowStays DEF HoldersClaimed
<1>3. ASSUME NEW w \in Workers, Claim(w)
      PROVE  HoldersClaimed' /\ worker' \in [Workers -> Worker]
  <2>1. PICK i \in Jobs :
          /\ Claimable(rows[i])
          /\ rows' = [j \in Jobs |-> IF j = i THEN Claimed(rows[j]) ELSE Exhausted(rows[j])]
          /\ worker' = [worker EXCEPT ![w] =
               [at |-> IF rows[i].valid THEN "ingest" ELSE "fail", job |-> i]]
    BY <1>3 DEF Claim
  <2>2. worker' \in [Workers -> Worker]
    BY <1>1, <2>1 DEF Worker
  <2>3. Exists(rows'[i]) /\ rows'[i].attempts > 0
    BY <2>1, ClaimedStep DEF Exists, Pending, IInv, TypeOK, CountsClaims
  <2>5. rows'[i].valid = rows[i].valid
    BY <2>1 DEF Claimed, IInv, TypeOK, Row
  <2>6. worker'[w].job = i /\ (worker'[w].at = "ingest" => rows[i].valid)
    BY <1>1, <2>1
  <2>4. \A v \in Workers \ {w} : worker'[v] = worker[v]
    BY <1>1, <2>1
  <2> QED BY <1>1, <2>2, <2>3, <2>4, <2>5, <2>6, HeldRowStays DEF HoldersClaimed
<1>4. ASSUME NEW w \in Workers, Ingest(w) \/ IngestFails(w) \/ Fail(w) \/ Crash(w)
      PROVE  HoldersClaimed' /\ worker' \in [Workers -> Worker]
  <2>1. \/ Leave(w)
        \/ Goto(w, "fail") /\ worker[w].at # "idle"
    BY <1>4 DEF Ingest, IngestFails, Fail, Crash
  <2>2. CASE Leave(w)
    BY <1>1, <1>2, <2>2 DEF Leave, IdleWorker, Worker
  <2>3. CASE Goto(w, "fail") /\ worker[w].at # "idle"
    BY <1>1, <1>2, <2>3 DEF Goto, Worker
  <2> QED BY <2>1, <2>2, <2>3
<1>5. CASE UNCHANGED worker
  BY <1>1, <1>2, <1>5
<1> QED
  BY <1>3, <1>4, <1>5
     DEF Next, Process, Enqueue, ClaimNothing, GoesStale, RetentionPurges, vars

\* No step parts the receipts from the rows and the orders they tell of.
LEMMA ReceiptsStep == IInv /\ [Next]_vars => ReceiptsTell' /\ TypeOK'
<1> SUFFICES ASSUME IInv, [Next]_vars
             PROVE  ReceiptsTell' /\ receipts' \in SUBSET Jobs /\ applied' \in [Jobs -> Nat]
  BY RowsStep, HoldersStep DEF TypeOK
<1>1. /\ receipts \in SUBSET Jobs /\ applied \in [Jobs -> Nat]
      /\ rows \in [Jobs -> Row] /\ ReceiptsTell
      /\ \A j \in Jobs : RowStep(rows[j], rows'[j])
      /\ \A j \in Jobs : rows[j].status \in {"absent", "queued"} => rows[j].attempts = 0
  BY RowsStep DEF IInv, TypeOK, CountsClaims
<1>2. ASSUME UNCHANGED <<receipts, applied>>,
             \A j \in Jobs : rows'[j].status = "completed" => rows[j].status = "completed"
      PROVE  ReceiptsTell' /\ receipts' \in SUBSET Jobs /\ applied' \in [Jobs -> Nat]
  BY <1>1, <1>2 DEF ReceiptsTell, RowStep
<1>3. ASSUME NEW w \in Workers, Ingest(w)
      PROVE  ReceiptsTell' /\ receipts' \in SUBSET Jobs /\ applied' \in [Jobs -> Nat]
  <2> DEFINE i == worker[w].job
  <2>1. i \in Jobs /\ Exists(rows[i]) /\ rows[i].valid
    BY <1>3, HolderRow DEF Ingest, IInv, HoldersClaimed
  <2>2. /\ applied' = [applied EXCEPT ![i] = IF i \in receipts THEN @ ELSE @ + 1]
        /\ receipts' = receipts \cup {i}
        /\ rows' = [rows EXCEPT ![i].status = "completed"]
    BY <1>3, <2>1 DEF Ingest, Replays, Stored
  <2>3. applied' \in [Jobs -> Nat] /\ receipts' \in SUBSET Jobs
    BY <1>1, <2>1, <2>2
  <2>4. /\ applied'[i] = 1 /\ rows'[i].valid /\ rows'[i].status = "completed"
        /\ \A j \in Jobs \ {i} : applied'[j] = applied[j] /\ rows'[j] = rows[j]
    BY <1>1, <2>1, <2>2 DEF ReceiptsTell, Row
  <2> QED BY <1>1, <2>2, <2>3, <2>4 DEF ReceiptsTell
<1>4. ASSUME NEW w \in Workers, Claim(w) \/ ClaimNothing(w)
      PROVE  ReceiptsTell' /\ receipts' \in SUBSET Jobs /\ applied' \in [Jobs -> Nat]
  <2>1. \A j \in Jobs : rows'[j].status = "completed" => rows[j].status = "completed"
    BY <1>1, <1>4, ClaimedStep, ExhaustedStep DEF Claim, ClaimNothing
  <2> QED BY <1>2, <1>4, <2>1 DEF Claim, ClaimNothing
<1>5. ASSUME NEW k \in Keys, Enqueue(k)
      PROVE  ReceiptsTell' /\ receipts' \in SUBSET Jobs /\ applied' \in [Jobs -> Nat]
  BY <1>1, <1>2, <1>5 DEF Enqueue, NoRow
<1>6. ASSUME NEW w \in Workers, Fail(w)
      PROVE  ReceiptsTell' /\ receipts' \in SUBSET Jobs /\ applied' \in [Jobs -> Nat]
  BY <1>1, <1>2, <1>6 DEF Fail, Stored, Row
<1>7. ASSUME NEW i \in Jobs, GoesStale(i) \/ RetentionPurges(i)
      PROVE  ReceiptsTell' /\ receipts' \in SUBSET Jobs /\ applied' \in [Jobs -> Nat]
  BY <1>1, <1>2, <1>7 DEF GoesStale, RetentionPurges, Row
<1> QED
  BY <1>2, <1>3, <1>4, <1>5, <1>6, <1>7 DEF Next, Process, IngestFails, Crash, vars

\* Every step preserves the invariant.
LEMMA InvStep == IInv /\ [Next]_vars => IInv'
  BY CountsStep, HoldersStep, ReceiptsStep DEF IInv

-----------------------------------------------------------------------------
(* Theorems.                                                               *)

\* The invariant holds in every state.
LEMMA Invariance == Spec => []IInv
  BY InvInit, InvStep, PTL DEF Spec

\* The columns of data_imports stay in range: no import is claimed more than
\* MaxAttempts times.
THEOREM TypeCorrect == Spec => []TypeOK
<1>1. IInv => TypeOK
  BY DEF IInv
<1> QED BY <1>1, Invariance, PTL

\* The orders of a file are written once at most, whoever runs its import and
\* however late; a completed import was written, a refused file is not.
THEOREM OrdersWrittenOnce == Spec => []AppliedOnce
<1>1. IInv => AppliedOnce
  BY DEF IInv, ReceiptsTell, AppliedOnce
<1> QED BY <1>1, Invariance, PTL

\* The import queue implements the durable-job contract.
THEOREM Refinement == Spec => ImplementsDurableJob
<1>1. Init => Contract!Init
  BY DEF Init, Contract!Init, NoRow
<1>2. IInv /\ IInv' /\ [Next]_vars =>
        [Contract!Next]_([j \in Jobs |-> [status |-> rows[j].status,
                                         attempts |-> rows[j].attempts]])
  <2> SUFFICES ASSUME IInv, IInv', [Next]_vars PROVE Contract!Next
    OBVIOUS
  <2>1. \A j \in Jobs : RowStep(rows[j], rows'[j])
    BY RowsStep
  <2>2. \A j \in Jobs : View(rows'[j]) \in Contract!JobView
    BY DEF IInv, TypeOK, Row, View, Pending, Terminal, Contract!JobView, Contract!Statuses
  <2> QED BY <2>1, <2>2 DEF Contract!Next, RowStep, View
<1> QED BY <1>1, <1>2, Invariance, PTL DEF Spec, ImplementsDurableJob, Contract!Spec
=============================================================================
