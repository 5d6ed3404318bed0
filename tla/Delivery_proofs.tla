--------------------------- MODULE Delivery_proofs ---------------------------
(***************************************************************************)
(* Theorems about Delivery for any rows, retriers, limits and faults.      *)
(***************************************************************************)
EXTENDS Delivery, FiniteSetTheorems, TLAPS

-----------------------------------------------------------------------------
(***************************************************************************)
(* Type correctness.                                                       *)
(***************************************************************************)
\* What a mark makes of a row is a row.
LEMMA MarkedRow ==
  ASSUME NEW rec \in Row, NEW s \in Statuses, NEW n \in Nat,
         NEW x \in {"null", "waiting", "due"}
  PROVE  MarkDeliveryState(rec, s, n, x) \in Row
  BY DEF MarkDeliveryState, Row

LEMMA MarkedType ==
  ASSUME NEW rec \in Row
  PROVE  /\ MarkSent(rec) \in Row
         /\ \A n \in Nat, o \in Outcomes : MarkFailed(rec, next_retry_at(n, o)) \in Row
<1>1. \A n \in Nat, o \in Outcomes : next_retry_at(n, o) \in {"null", "waiting", "due"}
  BY DEF next_retry_at
<1>2. {"sent", "failed"} \subseteq Statuses
  BY DEF Statuses
<1>3. rec.attempts + 1 \in Nat
  BY DEF Row
<1> QED
  BY <1>1, <1>2, <1>3, MarkedRow DEF MarkSent, MarkFailed

LEMMA SendType ==
  ASSUME TypeOK, NEW d \in Deliveries, NEW key \in Nat, NEW o \in Outcomes,
         SendWithResend(d, key, o)
  PROVE  mails' \in [Deliveries -> SUBSET Nat]
  BY DEF SendWithResend, TypeOK

LEMMA RecordType ==
  ASSUME TypeOK, NEW d \in Deliveries, NEW key \in Nat, NEW o, Record(d, key, o)
  PROVE  misread' \in [Deliveries -> Nat]
  BY DEF Record, TypeOK

LEMMA SenderType ==
  ASSUME TypeOK, NEW d \in Deliveries, SenderStep(d) \/ SenderCrashes(d)
  PROVE  TypeOK'
<1>1. {"gone", "accepted", "refused", "rejected"} \subseteq SenderPcs
  BY DEF SenderPcs, Outcomes
<1>2. CASE SenderSkips(d)
  <2>1. row[d] \in Row /\ row[d].attempts \in Nat /\ row[d].retry \in {"null", "waiting", "due"}
    BY DEF TypeOK, Row
  <2>2. "skipped" \in Statuses
    BY DEF Statuses
  <2>3. row' \in [Deliveries -> Row]
    BY <1>2, <2>1, <2>2, MarkedRow DEF SenderSkips, TypeOK
  <2> QED
    BY <1>1, <1>2, <2>3 DEF SenderSkips, TypeOK
<1>3. CASE SenderSends(d)
  <2>1. PICK o \in Outcomes :
           /\ SendWithResend(d, IF FromWorker(d) THEN 1 ELSE NoKey, o)
           /\ sender' = [sender EXCEPT ![d] = o]
    BY <1>3 DEF SenderSends
  <2>2. (IF FromWorker(d) THEN 1 ELSE NoKey) \in Nat
    BY DEF NoKey
  <2>3. mails' \in [Deliveries -> SUBSET Nat]
    BY <2>1, <2>2, SendType
  <2>4. sender' \in [Deliveries -> SenderPcs]
    BY <2>1 DEF SenderPcs, TypeOK
  <2> QED
    BY <1>3, <2>3, <2>4 DEF SenderSends, TypeOK
<1>4. CASE SenderMarks(d)
  <2>1. SenderMarked(d) \in Row
    <3>1. row[d] \in Row /\ sender[d] \in Outcomes
      BY <1>4 DEF SenderMarks, TypeOK
    <3>2. CASE FromWorker(d)
      BY <3>1, <3>2, MarkedType DEF SenderMarked
    <3>3. CASE ~FromWorker(d)
      BY <3>1, <3>3 DEF SenderMarked, Row, Statuses
    <3> QED
      BY <3>2, <3>3
  <2>2. (IF FromWorker(d) THEN 1 ELSE NoKey) \in Nat
    BY DEF NoKey
  <2>3. misread' \in [Deliveries -> Nat]
    BY <1>4, <2>2, RecordType DEF SenderMarks
  <2> QED
    BY <1>1, <1>4, <2>1, <2>3 DEF SenderMarks, TypeOK
<1>5. CASE SenderCrashes(d)
  BY <1>1, <1>5 DEF SenderCrashes, TypeOK
<1> QED
  BY <1>2, <1>3, <1>4, <1>5 DEF SenderStep

LEMMA RetrierType ==
  ASSUME TypeOK, NEW r \in Retriers, RetrierStep(r) \/ RetrierCrashes(r) \/ RestartLoop(r)
  PROVE  TypeOK'
<1> DEFINE R == [pc : RetrierPcs, batch : SUBSET Claims, item : Claims]
<1>1. retrier[r] \in R /\ retrier[r].item[1] \in Deliveries /\ retrier[r].item[2] \in Nat
  BY DEF TypeOK, Claims
<1>2. {"idle", "next", "send", "dead"} \union Outcomes \subseteq RetrierPcs
  BY DEF RetrierPcs
<1>3. ASSUME NEW pc \in RetrierPcs, retrier' = [retrier EXCEPT ![r].pc = pc]
      PROVE  retrier' \in [Retriers -> R]
  BY <1>3 DEF TypeOK
<1>4. CASE RetrierSends(r)
  <2>1. PICK o \in Outcomes :
          /\ IF row[retrier[r].item[1]].of \in Notices
               THEN o = "refused" /\ UNCHANGED mails
               ELSE SendWithResend(retrier[r].item[1],
                                   retry_idempotency_key(retrier[r].item[2] + 1), o)
          /\ retrier' = [retrier EXCEPT ![r].pc = o]
    BY <1>4 DEF RetrierSends
  <2>2. retry_idempotency_key(retrier[r].item[2] + 1) \in Nat
    BY <1>1 DEF retry_idempotency_key
  <2>3. mails' \in [Deliveries -> SUBSET Nat]
    BY <1>1, <2>1, <2>2, SendType DEF TypeOK
  <2>4. retrier' \in [Retriers -> R]
    BY <1>2, <1>3, <2>1
  <2> QED
    BY <1>4, <2>3, <2>4 DEF RetrierSends, TypeOK
<1>5. CASE RetrierMarks(r)
  <2>1. row' \in [Deliveries -> Row]
    <3> DEFINE d == retrier[r].item[1]
               next == next_retry_at(retrier[r].item[2] + 1, retrier[r].pc)
    <3>1. d \in Deliveries /\ row[d] \in Row
      BY <1>1 DEF TypeOK
    <3>2. retrier[r].item[2] + 1 \in Nat /\ retrier[r].pc \in Outcomes
      BY <1>1, <1>5 DEF RetrierMarks
    <3>3. MarkSent(row[d]) \in Row /\ MarkFailed(row[d], next) \in Row
      BY <3>1, <3>2, MarkedType
    <3>4. \/ UNCHANGED row
          \/ row' = [row EXCEPT ![d] = MarkSent(row[d])]
          \/ row' = [row EXCEPT ![d] = MarkFailed(row[d], next)]
      BY <1>5 DEF RetrierMarks
    <3> HIDE DEF d, next
    <3> QED
      BY <3>1, <3>3, <3>4 DEF TypeOK
  <2>2. misread' \in [Deliveries -> Nat]
    <3>1. retry_idempotency_key(retrier[r].item[2] + 1) \in Nat
      BY <1>1 DEF retry_idempotency_key
    <3> QED
      BY <1>1, <1>5, <3>1, RecordType DEF RetrierMarks, TypeOK
  <2>3. locks' \subseteq Deliveries \X Retriers
    BY <1>5 DEF RetrierMarks, Unlock, TypeOK
  <2>4. retrier' \in [Retriers -> R]
    BY <1>2, <1>3, <1>5 DEF RetrierMarks
  <2> QED
    BY <1>5, <2>1, <2>2, <2>3, <2>4 DEF RetrierMarks, TypeOK
<1>6. CASE BatchDone(r)
  BY <1>2, <1>3, <1>6 DEF BatchDone, TypeOK
<1>7. CASE RestartLoop(r)
  BY <1>2, <1>3, <1>7 DEF RestartLoop, TypeOK
<1>8. CASE RetrierCrashes(r)
  <2>1. locks' \subseteq Deliveries \X Retriers
    BY <1>8 DEF RetrierCrashes, Unlock, TypeOK
  <2>2. retrier' \in [Retriers -> R]
    BY <1>2, <1>8 DEF RetrierCrashes, TypeOK
  <2> QED
    BY <1>8, <2>1, <2>2 DEF RetrierCrashes, TypeOK
<1>9. ASSUME NEW claim \in retrier[r].batch, TakeItem(r, claim)
      PROVE  TypeOK'
  <2>1. claim \in Claims /\ claim[1] \in Deliveries
    BY <1>1 DEF Claims
  <2>2. retrier[r].batch \ {claim} \in SUBSET Claims
    BY <1>1
  <2>3. locks' \subseteq Deliveries \X Retriers
    BY <1>9, <2>1 DEF TakeItem, TypeOK
  <2>4. retrier' \in [Retriers -> R]
    <3> DEFINE left == retrier[r].batch \ {claim}
               take == [pc |-> "send", batch |-> left, item |-> claim]
    <3>1. take \in R
      BY <1>2, <2>1, <2>2
    <3>2. retrier \in [Retriers -> R]
      BY DEF TypeOK
    <3>3. \/ retrier' = [retrier EXCEPT ![r] = take]
          \/ retrier' = [retrier EXCEPT ![r].batch = left]
      BY <1>9 DEF TakeItem
    <3>4. CASE retrier' = [retrier EXCEPT ![r] = take]
      <4> HIDE DEF R, take
      <4> QED
        BY <3>1, <3>2, <3>4
    <3>5. CASE retrier' = [retrier EXCEPT ![r].batch = left]
      <4>1. left \in SUBSET Claims
        BY <2>2
      <4> HIDE DEF left
      <4> QED
        BY <3>2, <3>5, <4>1
    <3> QED
      BY <3>3, <3>4, <3>5
  <2> QED
    BY <1>9, <2>3, <2>4 DEF TakeItem, TypeOK
<1> QED
  BY <1>4, <1>5, <1>6, <1>7, <1>8, <1>9 DEF RetrierStep

\* Every variable keeps its type.
THEOREM TypeCorrect == Spec => []TypeOK
<1>1. Init => TypeOK
  BY DEF Init, TypeOK, Row, Statuses, SenderPcs, RetrierPcs, Claims
<1>2. TypeOK /\ [Next]_vars => TypeOK'
  <2> SUFFICES ASSUME TypeOK, [Next]_vars
               PROVE  TypeOK'
    OBVIOUS
  <2>1. ASSUME NEW d \in Deliveries, NEW g \in Digests, NEW skip \in BOOLEAN,
               Insert(d, g, skip)
        PROVE  TypeOK'
    <3>1. row' \in [Deliveries -> Row]
      BY <2>1, ZenonT(30) DEF Insert, TypeOK, Row, Statuses
    <3>2. sender' \in [Deliveries -> SenderPcs]
      BY <2>1 DEF Insert, TypeOK, SenderPcs
    <3> QED
      BY <2>1, <3>1, <3>2 DEF Insert, TypeOK
  <2>2. ASSUME NEW d \in Deliveries, BecomeDue(d) \/ BecomeOld(d)
        PROVE  TypeOK'
    <3>1. CASE BecomeDue(d)
      BY <3>1, ZenonT(30) DEF BecomeDue, TypeOK, Row
    <3>2. CASE BecomeOld(d)
      BY <3>2, ZenonT(30) DEF BecomeOld, TypeOK, Row
    <3> QED
      BY <2>2, <3>1, <3>2
  <2>3. ASSUME NEW r \in Retriers, NEW S \in SUBSET Deliveries, Claim(r, S)
        PROVE  TypeOK'
    <3>1. row' \in [Deliveries -> Row]
      BY <2>3, ZenonT(30) DEF Claim, TypeOK, Row, Statuses
    <3>2. {<<d, row[d].attempts>> : d \in S} \in SUBSET Claims
      BY DEF TypeOK, Row, Claims
    <3>3. retrier' \in [Retriers -> [pc : RetrierPcs, batch : SUBSET Claims, item : Claims]]
      BY <2>3, <3>2 DEF Claim, TypeOK, RetrierPcs
    <3> QED
      BY <2>3, <3>1, <3>3 DEF Claim, TypeOK
  <2>4. CASE UNCHANGED vars
    BY <2>4 DEF vars, TypeOK
  <2> QED
    BY <2>1, <2>2, <2>3, <2>4, SenderType, RetrierType DEF Next
<1> QED
  BY <1>1, <1>2, PTL DEF Spec

-----------------------------------------------------------------------------
(***************************************************************************)
(* How one step may change a row.                                          *)
(***************************************************************************)
Same(a, b) == b.attempts = a.attempts /\ b.retry = a.retry

RowChange(d) ==
  LET a == row[d]
      b == row'[d]
  IN  \/ b = a
      \/ a.status = "absent" /\ b.status = "queued" /\ Same(a, b)
      \/ b.status = "skipped" /\ b.attempts = a.attempts /\ b.retry \in {"null", a.retry}
      \/ b.status \in {"sent", "failed"} /\ b.attempts = a.attempts + 1
      \/ b.status \in {"sent", "failed"} /\ Same(a, b)
      \/ Due(d) /\ b.status = "queued" /\ Same(a, b)
      \/ b.status = a.status /\ b.attempts = a.attempts /\ a.retry = "waiting" /\ b.retry = "due"
      \/ b.status = a.status /\ Same(a, b)

LEMMA RowStep ==
  ASSUME TypeOK, [Next]_vars, NEW d \in Deliveries
  PROVE  RowChange(d)
<1>0. row \in [Deliveries -> Row] /\ row[d] \in Row
  BY DEF TypeOK
<1>1. ASSUME NEW e \in Deliveries, NEW g \in Digests, NEW skip \in BOOLEAN,
             Insert(e, g, skip)
      PROVE  RowChange(d)
  BY <1>0, <1>1 DEF Insert, RowChange, Same, Row
<1>2. ASSUME NEW e \in Deliveries, SenderSkips(e)
      PROVE  RowChange(d)
  BY <1>0, <1>2 DEF SenderSkips, RowChange, MarkDeliveryState, Row
<1>3. ASSUME NEW e \in Deliveries, SenderMarks(e)
      PROVE  RowChange(d)
  <2>1. CASE e # d
    BY <1>0, <1>3, <2>1 DEF SenderMarks, RowChange
  <2>2. CASE e = d /\ FromWorker(d)
    <3>1. row'[d] = SenderMarked(d)
      BY <1>0, <1>3, <2>2 DEF SenderMarks
    <3>2. row'[d].status \in {"sent", "failed"} /\ row'[d].attempts = row[d].attempts + 1
      BY <2>2, <3>1 DEF SenderMarked, MarkSent, MarkFailed, MarkDeliveryState
    <3> QED
      BY <3>2 DEF RowChange
  <2>3. CASE e = d /\ ~FromWorker(d)
    <3>1. row'[d] = [row[d] EXCEPT !.status = IF sender[d] = "accepted" THEN "sent" ELSE "failed"]
      BY <1>0, <1>3, <2>3 DEF SenderMarks, SenderMarked
    <3>2. row'[d].status \in {"sent", "failed"} /\ Same(row[d], row'[d])
      BY <1>0, <3>1 DEF Row, Same
    <3> QED
      BY <3>2 DEF RowChange
  <2> QED
    BY <2>1, <2>2, <2>3
<1>4. ASSUME NEW e \in Deliveries, BecomeDue(e)
      PROVE  RowChange(d)
  BY <1>0, <1>4 DEF BecomeDue, RowChange, Row
<1>5. ASSUME NEW e \in Deliveries, BecomeOld(e)
      PROVE  RowChange(d)
  BY <1>0, <1>5 DEF BecomeOld, RowChange, Same, Row
<1>6. ASSUME NEW r \in Retriers, NEW S \in SUBSET Deliveries, Claim(r, S)
      PROVE  RowChange(d)
  <2>1. CASE d \in S
    <3>1. Due(d) /\ row'[d] = [row[d] EXCEPT !.status = "queued", !.old = FALSE]
      BY <1>6, <2>1 DEF Claim
    <3>2. row'[d].status = "queued" /\ Same(row[d], row'[d])
      BY <1>0, <3>1 DEF Row, Same
    <3> QED
      BY <3>1, <3>2 DEF RowChange
  <2>2. CASE d \notin S
    BY <1>6, <2>2 DEF Claim, RowChange
  <2> QED
    BY <2>1, <2>2
<1>7. ASSUME NEW r \in Retriers, RetrierMarks(r)
      PROVE  RowChange(d)
  <2> DEFINE e == retrier[r].item[1]
             next == next_retry_at(retrier[r].item[2] + 1, retrier[r].pc)
  <2>1. \/ UNCHANGED row
        \/ row' = [row EXCEPT ![e] = MarkSent(row[e])]
        \/ row' = [row EXCEPT ![e] = MarkFailed(row[e], next)]
    BY <1>7 DEF RetrierMarks
  <2>2. \/ row'[d] = row[d]
        \/ row'[d] = MarkSent(row[d])
        \/ row'[d] = MarkFailed(row[d], next)
    <3> HIDE DEF e, next
    <3> QED
      BY <1>0, <2>1
  <2> HIDE DEF next
  <2> QED
    BY <2>2 DEF RowChange, MarkSent, MarkFailed, MarkDeliveryState
<1>8. ASSUME UNCHANGED row
      PROVE  RowChange(d)
  BY <1>8 DEF RowChange
<1>9. ASSUME NEW e \in Deliveries, SenderSends(e) \/ SenderCrashes(e)
      PROVE  RowChange(d)
  BY <1>8, <1>9 DEF SenderSends, SenderCrashes
<1>10. ASSUME NEW r \in Retriers,
              \/ \E claim \in retrier[r].batch : TakeItem(r, claim)
              \/ RetrierSends(r) \/ BatchDone(r) \/ RetrierCrashes(r) \/ RestartLoop(r)
       PROVE  RowChange(d)
  BY <1>8, <1>10 DEF TakeItem, RetrierSends, BatchDone, RetrierCrashes, RestartLoop
<1>11. CASE UNCHANGED vars
  BY <1>8, <1>11 DEF vars
<1> QED
  BY <1>1, <1>2, <1>3, <1>4, <1>5, <1>6, <1>7, <1>9, <1>10, <1>11
     DEF Next, SenderStep, RetrierStep

\* No step but its insert changes what a row announces.
LEMMA OfIsKept ==
  ASSUME TypeOK, [Next]_vars, NEW d \in Deliveries,
         \A g \in Digests, skip \in BOOLEAN : ~Insert(d, g, skip)
  PROVE  row'[d].of = row[d].of
<1>0. row \in [Deliveries -> Row] /\ row[d] \in Row
  BY DEF TypeOK
<1>1. ASSUME NEW e \in Deliveries, NEW g \in Digests, NEW skip \in BOOLEAN,
             Insert(e, g, skip)
      PROVE  row'[d] = row[d]
  BY <1>0, <1>1 DEF Insert
<1>2. ASSUME NEW e \in Deliveries, SenderSkips(e)
      PROVE  row'[d].of = row[d].of
  BY <1>0, <1>2 DEF SenderSkips, MarkDeliveryState
<1>3. ASSUME NEW e \in Deliveries, SenderMarks(e)
      PROVE  row'[d].of = row[d].of
  <2>1. CASE e # d
    BY <1>0, <1>3, <2>1 DEF SenderMarks
  <2>2. CASE e = d
    <3>1. row'[d] = SenderMarked(d)
      BY <1>0, <1>3, <2>2 DEF SenderMarks
    <3> QED
      BY <1>0, <3>1 DEF SenderMarked, MarkSent, MarkFailed, MarkDeliveryState, Row
  <2> QED
    BY <2>1, <2>2
<1>4. ASSUME NEW e \in Deliveries, BecomeDue(e)
      PROVE  row'[d].of = row[d].of
  BY <1>0, <1>4 DEF BecomeDue, Row
<1>5. ASSUME NEW e \in Deliveries, BecomeOld(e)
      PROVE  row'[d].of = row[d].of
  BY <1>0, <1>5 DEF BecomeOld, Row
<1>6. ASSUME NEW r \in Retriers, NEW S \in SUBSET Deliveries, Claim(r, S)
      PROVE  row'[d].of = row[d].of
  BY <1>0, <1>6 DEF Claim, Row
<1>7. ASSUME NEW r \in Retriers, RetrierMarks(r)
      PROVE  row'[d].of = row[d].of
  <2> DEFINE e == retrier[r].item[1]
             next == next_retry_at(retrier[r].item[2] + 1, retrier[r].pc)
  <2>1. \/ UNCHANGED row
        \/ row' = [row EXCEPT ![e] = MarkSent(row[e])]
        \/ row' = [row EXCEPT ![e] = MarkFailed(row[e], next)]
    BY <1>7 DEF RetrierMarks
  <2>2. \/ row'[d] = row[d]
        \/ row'[d] = MarkSent(row[d])
        \/ row'[d] = MarkFailed(row[d], next)
    <3> HIDE DEF e, next
    <3> QED
      BY <1>0, <2>1
  <2> HIDE DEF next
  <2> QED
    BY <2>2 DEF MarkSent, MarkFailed, MarkDeliveryState
<1> QED
  BY <1>1, <1>2, <1>3, <1>4, <1>5, <1>6, <1>7
     DEF Next, SenderStep, SenderSends, SenderCrashes, RetrierStep, TakeItem, RetrierSends,
         BatchDone, RetrierCrashes, RestartLoop, vars

-----------------------------------------------------------------------------
(***************************************************************************)
(* A queued row has one of the two shapes that the claim looks for.        *)
(***************************************************************************)
\* A row that was never inserted is blank, and only an attempt that was counted
\* sets a retry time.  The claim queues rows on the strength of the second.
RetryShape ==
  \A d \in Deliveries :
    /\ row[d].retry # "null" => row[d].attempts > 0
    /\ row[d].status = "absent" => row[d].attempts = 0 /\ row[d].retry = "null"
    /\ row[d].status = "queued" => ((row[d].attempts = 0) <=> (row[d].retry = "null"))

\* However the last process of a row ended, and under every fault: once the row
\* is queued and old, the claim of the retry activity finds it.
THEOREM QueuedRowsAreReclaimable == Spec => []QueuedIsReclaimable
<1>1. Init => RetryShape
  BY DEF Init, RetryShape
<1>2. TypeOK /\ RetryShape /\ [Next]_vars => RetryShape'
  <2> SUFFICES ASSUME TypeOK, RetryShape, [Next]_vars, NEW d \in Deliveries
               PROVE  /\ row'[d].retry # "null" => row'[d].attempts > 0
                      /\ row'[d].status = "absent" =>
                            row'[d].attempts = 0 /\ row'[d].retry = "null"
                      /\ row'[d].status = "queued" =>
                            ((row'[d].attempts = 0) <=> (row'[d].retry = "null"))
    BY DEF RetryShape
  <2>1. RowChange(d)
    BY RowStep
  <2>2. row[d].attempts \in Nat /\ row[d].retry \in {"null", "waiting", "due"}
    BY DEF TypeOK, Row
  <2> QED
    BY <2>1, <2>2 DEF RowChange, Same, Due, RetryShape
<1>3. RetryShape => QueuedIsReclaimable
  BY DEF RetryShape, QueuedIsReclaimable
<1> QED
  BY <1>1, <1>2, <1>3, TypeCorrect, PTL DEF Spec

-----------------------------------------------------------------------------
(***************************************************************************)
(* Sent means taken by the provider.                                       *)
(***************************************************************************)
LEMMA MailsGrow ==
  ASSUME TypeOK, [Next]_vars, NEW d \in Deliveries
  PROVE  mails[d] \subseteq mails'[d]
<1>1. ASSUME NEW e \in Deliveries, NEW key, NEW o, SendWithResend(e, key, o)
      PROVE  mails[d] \subseteq mails'[d]
  BY <1>1 DEF SendWithResend, TypeOK
<1>2. ASSUME NEW e \in Deliveries, SenderStep(e) \/ SenderCrashes(e)
      PROVE  mails[d] \subseteq mails'[d]
  BY <1>1, <1>2 DEF SenderStep, SenderSkips, SenderSends, SenderMarks, SenderCrashes
<1>3. ASSUME NEW r \in Retriers, RetrierSends(r)
      PROVE  mails[d] \subseteq mails'[d]
  <2>1. retrier[r].item[1] \in Deliveries
    BY DEF TypeOK, Claims
  <2> QED
    BY <1>1, <1>3, <2>1 DEF RetrierSends
<1> QED
  BY <1>2, <1>3
     DEF Next, RetrierStep, Insert, BecomeDue, BecomeOld, Claim, TakeItem, RetrierMarks,
         BatchDone, RetrierCrashes, RestartLoop, vars

\* Who is about to mark a row sent has had the provider's acceptance of the mail
\* of its own attempt.
SenderKey(d) == IF FromWorker(d) THEN 1 ELSE NoKey
RetrierKey(r) == retry_idempotency_key(retrier[r].item[2] + 1)

Accepted ==
  /\ \A d \in Deliveries : sender[d] = "accepted" => SenderKey(d) \in mails[d]
  /\ \A r \in Retriers :
        retrier[r].pc = "accepted" => RetrierKey(r) \in mails[retrier[r].item[1]]

LEMMA AcceptedBySender ==
  ASSUME TypeOK, Accepted, [Next]_vars, NEW d \in Deliveries, sender'[d] = "accepted"
  PROVE  SenderKey(d)' \in mails'[d]
<1>1. ASSUME NEW g \in Digests, NEW skip \in BOOLEAN, Insert(d, g, skip)
      PROVE  FALSE
  BY <1>1 DEF Insert, TypeOK
<1>2. SenderKey(d)' = SenderKey(d)
  BY <1>1, OfIsKept DEF SenderKey, FromWorker
<1>3. CASE sender[d] = "accepted"
  BY <1>2, <1>3, MailsGrow DEF Accepted
<1>4. CASE sender[d] # "accepted"
  <2>1. sender'[d] # sender[d]
    BY <1>4
  <2>2. PICK e \in Deliveries : SenderSends(e)
    BY <2>1, <1>4
       DEF Next, SenderStep, SenderSkips, SenderMarks, SenderCrashes, RetrierStep, Insert,
           BecomeDue, BecomeOld, Claim, TakeItem, RetrierSends, RetrierMarks, BatchDone,
           RetrierCrashes, RestartLoop, vars, TypeOK
  <2>3. PICK o \in Outcomes :
           SendWithResend(e, SenderKey(e), o) /\ sender' = [sender EXCEPT ![e] = o]
    BY <2>2 DEF SenderSends, SenderKey
  <2>4. e = d /\ o = "accepted"
    BY <2>1, <2>3 DEF TypeOK
  <2>5. SenderKey(d) \in mails'[d]
    BY <2>3, <2>4 DEF SendWithResend, TypeOK
  <2> QED
    BY <1>2, <2>5
<1> QED
  BY <1>3, <1>4

\* Only an answer of the provider makes a retrier see its mail accepted.
LEMMA AcceptedIsSent ==
  ASSUME TypeOK, [Next]_vars, NEW r \in Retriers, retrier'[r].pc = "accepted",
         retrier'[r] # retrier[r]
  PROVE  \E q \in Retriers : RetrierSends(q)
<1> DEFINE R == [pc : RetrierPcs, batch : SUBSET Claims, item : Claims]
<1>a. retrier \in [Retriers -> R]
  BY DEF TypeOK
<1>b. ASSUME NEW q \in Retriers, NEW pc, pc # "accepted",
             retrier' = [retrier EXCEPT ![q].pc = pc]
      PROVE  FALSE
  BY <1>a, <1>b
<1>c. ASSUME NEW q \in Retriers, NEW S \in SUBSET Deliveries, Claim(q, S)
      PROVE  FALSE
  BY <1>a, <1>c DEF Claim
<1>d. ASSUME NEW q \in Retriers, NEW claim \in retrier[q].batch, TakeItem(q, claim)
      PROVE  FALSE
  <2>1. CASE q = r
    BY <1>a, <1>d, <2>1 DEF TakeItem
  <2>2. CASE q # r
    BY <1>a, <1>d, <2>2 DEF TakeItem
  <2> QED
    BY <2>1, <2>2
<1>e. ASSUME NEW q \in Retriers, RetrierMarks(q) \/ BatchDone(q) \/ RestartLoop(q)
      PROVE  FALSE
  BY <1>b, <1>e DEF RetrierMarks, BatchDone, RestartLoop
<1>f. ASSUME NEW q \in Retriers, RetrierCrashes(q)
      PROVE  FALSE
  BY <1>a, <1>f DEF RetrierCrashes
<1>g. ASSUME NEW d \in Deliveries,
             SenderStep(d) \/ SenderCrashes(d) \/ BecomeDue(d) \/ BecomeOld(d)
      PROVE  FALSE
  BY <1>g DEF SenderStep, SenderSkips, SenderSends, SenderMarks, SenderCrashes,
              BecomeDue, BecomeOld
<1> QED
  BY <1>c, <1>d, <1>e, <1>f, <1>g DEF Next, RetrierStep, Insert, vars

LEMMA AcceptedByRetrier ==
  ASSUME TypeOK, Accepted, [Next]_vars, NEW r \in Retriers, retrier'[r].pc = "accepted"
  PROVE  RetrierKey(r)' \in mails'[retrier'[r].item[1]]
<1>1. retrier[r].item[1] \in Deliveries /\ retrier[r].item[2] \in Nat
  BY DEF TypeOK, Claims
<1>2. CASE retrier'[r] = retrier[r]
  <2>1. RetrierKey(r)' = RetrierKey(r)
    BY <1>2 DEF RetrierKey
  <2> QED
    BY <1>1, <1>2, <2>1, MailsGrow DEF Accepted
<1>3. CASE retrier'[r] # retrier[r]
  <2>1. PICK q \in Retriers : RetrierSends(q)
    BY <1>3, AcceptedIsSent
  <2>2. PICK o \in Outcomes :
          /\ IF row[retrier[q].item[1]].of \in Notices
               THEN o = "refused" /\ UNCHANGED mails
               ELSE SendWithResend(retrier[q].item[1], RetrierKey(q), o)
          /\ retrier' = [retrier EXCEPT ![q].pc = o]
    BY <2>1 DEF RetrierSends, RetrierKey
  <2>3. q = r /\ o = "accepted" /\ retrier'[r].item = retrier[r].item
    BY <1>3, <2>2 DEF TypeOK
  <2>4. RetrierKey(r) \in mails'[retrier[r].item[1]]
    BY <1>1, <2>2, <2>3 DEF SendWithResend, TypeOK
  <2>5. RetrierKey(r)' = RetrierKey(r)
    BY <2>3 DEF RetrierKey
  <2> QED
    BY <2>3, <2>4, <2>5
<1> QED
  BY <1>2, <1>3

LEMMA AlwaysAccepted == Spec => []Accepted
<1>1. Init => Accepted
  BY DEF Init, Accepted
<1>2. TypeOK /\ Accepted /\ [Next]_vars => Accepted'
  BY AcceptedBySender, AcceptedByRetrier DEF Accepted
<1> QED
  BY <1>1, <1>2, TypeCorrect, PTL DEF Spec

LEMMA SentByAccepted ==
  ASSUME TypeOK, Accepted, SentHasMail, [Next]_vars, NEW d \in Deliveries,
         row'[d].status = "sent"
  PROVE  mails'[d] # {}
<1>1. CASE row[d].status = "sent"
  BY <1>1, MailsGrow DEF SentHasMail
<1>2. CASE row[d].status # "sent"
  <2>1. row'[d] # row[d]
    BY <1>2
  <2>2. ASSUME NEW e \in Deliveries, SenderMarks(e)
        PROVE  mails'[d] # {}
    <3>1. e = d /\ row'[d] = SenderMarked(d)
      BY <2>1, <2>2 DEF SenderMarks, TypeOK
    <3>2. sender[d] = "accepted"
      BY <3>1 DEF SenderMarked, MarkFailed, MarkDeliveryState, TypeOK, Row
    <3> QED
      BY <3>2, MailsGrow DEF Accepted
  <2>3. ASSUME NEW r \in Retriers, RetrierMarks(r)
        PROVE  mails'[d] # {}
    <3> DEFINE e == retrier[r].item[1]
               next == next_retry_at(retrier[r].item[2] + 1, retrier[r].pc)
    <3>1. \/ UNCHANGED row
          \/ row' = [row EXCEPT ![e] = MarkSent(row[e])] /\ retrier[r].pc = "accepted"
          \/ row' = [row EXCEPT ![e] = MarkFailed(row[e], next)]
      BY <2>3 DEF RetrierMarks
    <3>2. e = d /\ retrier[r].pc = "accepted"
      <4>1. MarkFailed(row[d], next).status = "failed"
        BY DEF MarkFailed, MarkDeliveryState
      <4> HIDE DEF e, next
      <4> QED
        BY <2>1, <3>1, <4>1 DEF TypeOK
    <3> QED
      BY <3>2, MailsGrow DEF Accepted
  <2>4. ASSUME NEW e \in Deliveries, NEW g \in Digests, NEW skip \in BOOLEAN,
               Insert(e, g, skip)
        PROVE  FALSE
    BY <1>2, <2>4 DEF Insert, TypeOK, Row
  <2>5. ASSUME NEW e \in Deliveries, SenderSkips(e)
        PROVE  FALSE
    BY <1>2, <2>5 DEF SenderSkips, MarkDeliveryState, TypeOK, Row
  <2>6. ASSUME NEW e \in Deliveries, BecomeDue(e) \/ BecomeOld(e)
        PROVE  FALSE
    <3>1. CASE BecomeDue(e)
      BY <1>2, <3>1 DEF BecomeDue, TypeOK, Row
    <3>2. CASE BecomeOld(e)
      BY <1>2, <3>2 DEF BecomeOld, TypeOK, Row
    <3> QED
      BY <2>6, <3>1, <3>2
  <2>7. ASSUME NEW r \in Retriers, NEW S \in SUBSET Deliveries, Claim(r, S)
        PROVE  FALSE
    BY <1>2, <2>7 DEF Claim, TypeOK, Row
  <2> QED
    BY <2>1, <2>2, <2>3, <2>4, <2>5, <2>6, <2>7
       DEF Next, SenderStep, SenderSends, SenderCrashes, RetrierStep, TakeItem, RetrierSends,
           BatchDone, RetrierCrashes, RestartLoop, vars
<1> QED
  BY <1>1, <1>2

\* Under every fault, lost answers and marks of stalled processes included: no
\* row says sent of a mail that the provider never took.
THEOREM SentIsTaken == Spec => []SentHasMail
<1>1. Init => SentHasMail
  BY DEF Init, SentHasMail
<1>2. TypeOK /\ Accepted /\ SentHasMail /\ [Next]_vars => SentHasMail'
  BY SentByAccepted DEF SentHasMail
<1> QED
  BY <1>1, <1>2, AlwaysAccepted, TypeCorrect, PTL DEF Spec

-----------------------------------------------------------------------------
(***************************************************************************)
(* Who works on a row.                                                     *)
(***************************************************************************)
Trying(r) == retrier[r].pc \in {"send"} \union Outcomes
Held(r, c) == c \in retrier[r].batch \/ (Trying(r) /\ c = retrier[r].item)
RetrierState == [pc : RetrierPcs, batch : SUBSET Claims, item : Claims]

LEMMA TakenRetrier ==
  ASSUME TypeOK, NEW r \in Retriers, NEW claim \in retrier[r].batch, TakeItem(r, claim)
  PROVE  /\ \A q \in Retriers : q # r => retrier'[q] = retrier[q]
         /\ retrier'[r].batch = retrier[r].batch \ {claim}
         /\ retrier[r].pc = "next"
         /\ \/ retrier'[r].pc = "next" /\ UNCHANGED locks
            \/ /\ retrier'[r].pc = "send" /\ retrier'[r].item = claim
               /\ \/ /\ \A q \in Retriers : <<claim[1], q>> \notin locks
                     /\ locks' = locks \union {<<claim[1], r>>}
                  \/ "no_lock" \in Faults /\ UNCHANGED locks
<1> DEFINE left == retrier[r].batch \ {claim}
           take == [pc |-> "send", batch |-> left, item |-> claim]
<1>1. retrier \in [Retriers -> RetrierState]
  BY DEF TypeOK, RetrierState
<1>2. CASE retrier' = [retrier EXCEPT ![r] = take] /\ UNCHANGED locks /\ "no_lock" \in Faults
  BY <1>1, <1>2 DEF TakeItem
<1>3. CASE /\ retrier' = [retrier EXCEPT ![r] = take]
           /\ \A q \in Retriers : <<claim[1], q>> \notin locks
           /\ locks' = locks \union {<<claim[1], r>>}
  BY <1>1, <1>3 DEF TakeItem
<1>4. CASE retrier' = [retrier EXCEPT ![r].batch = left] /\ UNCHANGED locks
  BY <1>1, <1>4 DEF TakeItem, RetrierState
<1> QED
  BY <1>2, <1>3, <1>4 DEF TakeItem

LEMMA ClaimedRetrier ==
  ASSUME TypeOK, NEW r \in Retriers, NEW S \in SUBSET Deliveries, Claim(r, S)
  PROVE  /\ \A q \in Retriers : q # r => retrier'[q] = retrier[q]
         /\ retrier'[r].batch = {<<d, row[d].attempts>> : d \in S}
         /\ retrier'[r].pc = "next"
<1> DEFINE claims == {<<d, row[d].attempts>> : d \in S}
<1>1. retrier \in [Retriers -> RetrierState]
  BY DEF TypeOK, RetrierState
<1>2. retrier' = [retrier EXCEPT ![r].pc = "next", ![r].batch = claims]
  BY DEF Claim
<1> HIDE DEF claims
<1>3. QED
  BY <1>1, <1>2 DEF RetrierState, claims

\* The steps of r that set its pc, and drop its batch or keep it.
LEMMA SetPc ==
  ASSUME TypeOK, NEW r \in Retriers, NEW pc,
         \/ retrier' = [retrier EXCEPT ![r].pc = pc]
         \/ retrier' = [retrier EXCEPT ![r].pc = pc, ![r].batch = {}]
  PROVE  /\ \A q \in Retriers : q # r => retrier'[q] = retrier[q]
         /\ retrier'[r].pc = pc /\ retrier'[r].item = retrier[r].item
         /\ retrier'[r].batch \subseteq retrier[r].batch
<1>1. retrier \in [Retriers -> RetrierState]
  BY DEF TypeOK, RetrierState
<1>2. CASE retrier' = [retrier EXCEPT ![r].pc = pc]
  BY <1>1, <1>2 DEF RetrierState
<1>3. CASE retrier' = [retrier EXCEPT ![r].pc = pc, ![r].batch = {}]
  BY <1>1, <1>3 DEF RetrierState
<1> QED
  BY <1>2, <1>3

\* The steps that are of no retrier leave retriers and locks alone.
LEMMA OthersKeepRetriers ==
  ASSUME NEW d \in Deliveries,
         \/ SenderStep(d) \/ SenderCrashes(d) \/ BecomeDue(d) \/ BecomeOld(d)
         \/ \E g \in Digests, skip \in BOOLEAN : Insert(d, g, skip)
  PROVE  UNCHANGED <<retrier, locks>>
  BY DEF SenderStep, SenderSkips, SenderSends, SenderMarks, SenderCrashes, BecomeDue,
         BecomeOld, Insert

-----------------------------------------------------------------------------
(***************************************************************************)
(* The advisory lock alone keeps retriers apart.                           *)
(***************************************************************************)
AlwaysLocks == "no_lock" \notin Faults

\* A retrier that tries a row owns its lock, and a lock has one owner.
Locked ==
  /\ \A r \in Retriers : Trying(r) => <<retrier[r].item[1], r>> \in locks
  /\ \A d \in Deliveries, q, r \in Retriers :
        <<d, q>> \in locks /\ <<d, r>> \in locks => q = r

LEMMA LockedByRetrier ==
  ASSUME TypeOK, Locked, AlwaysLocks, NEW r \in Retriers,
         \/ \E S \in SUBSET Deliveries : Claim(r, S)
         \/ RetrierStep(r) \/ RetrierCrashes(r) \/ RestartLoop(r)
  PROVE  Locked'
<1>1. ASSUME NEW S \in SUBSET Deliveries, Claim(r, S)
      PROVE  Locked'
  <2>1. ~Trying(r)' /\ locks' = locks /\ \A q \in Retriers : q # r => retrier'[q] = retrier[q]
    BY <1>1, ClaimedRetrier DEF Trying, Outcomes, Claim
  <2> QED
    BY <2>1 DEF Locked, Trying
<1>2. ASSUME NEW claim \in retrier[r].batch, TakeItem(r, claim)
      PROVE  Locked'
  <2>1. \A q \in Retriers : q # r => retrier'[q] = retrier[q]
    BY <1>2, TakenRetrier
  <2>2. CASE ~Trying(r)' /\ UNCHANGED locks
    BY <2>1, <2>2 DEF Locked, Trying
  <2>3. CASE /\ retrier'[r].item = claim
             /\ \A q \in Retriers : <<claim[1], q>> \notin locks
             /\ locks' = locks \union {<<claim[1], r>>}
    BY <2>1, <2>3 DEF Locked, Trying
  <2> QED
    BY <1>2, <2>2, <2>3, TakenRetrier DEF AlwaysLocks, Trying, Outcomes
<1>3. CASE RetrierSends(r)
  <2>1. PICK o \in Outcomes : retrier' = [retrier EXCEPT ![r].pc = o]
    BY <1>3 DEF RetrierSends
  <2>2. /\ \A q \in Retriers : q # r => retrier'[q] = retrier[q]
        /\ retrier'[r].item = retrier[r].item
    BY <2>1, SetPc
  <2>3. Trying(r) /\ UNCHANGED locks
    BY <1>3 DEF RetrierSends, Trying
  <2> QED
    BY <2>2, <2>3 DEF Locked, Trying
<1>4. CASE RetrierMarks(r) \/ RetrierCrashes(r)
  <2>1. ~Trying(r)' /\ \A q \in Retriers : q # r => retrier'[q] = retrier[q]
    BY <1>4, SetPc, SMTT(30) DEF RetrierMarks, RetrierCrashes, Trying, Outcomes
  <2>2. locks' = {l \in locks : l[2] # r}
    BY <1>4 DEF RetrierMarks, RetrierCrashes, Unlock
  <2> QED
    BY <2>1, <2>2 DEF Locked, Trying
<1>5. CASE BatchDone(r) \/ RestartLoop(r)
  <2>0. retrier' = [retrier EXCEPT ![r].pc = "idle"]
    BY <1>5 DEF BatchDone, RestartLoop
  <2>a. retrier'[r].pc = "idle" /\ \A q \in Retriers : q # r => retrier'[q] = retrier[q]
    BY <2>0, SetPc
  <2>1. ~Trying(r)' /\ \A q \in Retriers : q # r => retrier'[q] = retrier[q]
    BY <2>a DEF Trying, Outcomes
  <2>2. UNCHANGED locks
    BY <1>5 DEF BatchDone, RestartLoop
  <2> QED
    BY <2>1, <2>2 DEF Locked, Trying
<1> QED
  BY <1>1, <1>2, <1>3, <1>4, <1>5 DEF RetrierStep

\* With a connection for every lock, retriers are never on one row together,
\* even if an activity outlives its claim and another claims the row again.
THEOREM LockKeepsRetriersApart == AlwaysLocks => (Spec => []NoConcurrentRetry)
<1> SUFFICES ASSUME AlwaysLocks
             PROVE  Spec => []NoConcurrentRetry
  OBVIOUS
<1>1. Init => Locked
  BY DEF Init, Locked, Trying, Outcomes
<1>2. TypeOK /\ Locked /\ [Next]_vars => Locked'
  <2> SUFFICES ASSUME TypeOK, Locked, [Next]_vars
               PROVE  Locked'
    OBVIOUS
  <2>1. CASE UNCHANGED <<retrier, locks>>
    BY <2>1 DEF Locked, Trying
  <2>2. CASE UNCHANGED vars
    BY <2>1, <2>2 DEF vars
  <2> QED
    BY <2>1, <2>2, OthersKeepRetriers, LockedByRetrier DEF Next
<1>3. TypeOK /\ Locked => NoConcurrentRetry
  <2> SUFFICES ASSUME TypeOK, Locked, NEW q \in Retriers, NEW r \in Retriers, q # r,
                      Trying(q), Trying(r)
               PROVE  retrier[q].item[1] # retrier[r].item[1]
    BY DEF NoConcurrentRetry, Trying
  <2>1. retrier[q].item[1] \in Deliveries
    BY DEF TypeOK, Claims
  <2> QED
    BY <2>1 DEF Locked
<1> QED
  BY <1>1, <1>2, <1>3, TypeCorrect, PTL DEF Spec

-----------------------------------------------------------------------------
(***************************************************************************)
(* Without stalls the fresh claim alone keeps everybody apart: a row that  *)
(* is queued and not old has one owner, and the count that its owner works *)
(* from is the row's.                                                      *)
(***************************************************************************)
NoStall == "stall" \notin Faults

Fresh(d) == row[d].status = "queued" /\ row[d].old = FALSE

Blank ==
  \A d \in Deliveries :
    row[d].status = "absent" => row[d].attempts = 0 /\ row[d].old = FALSE
SenderOwns ==
  \A d \in Deliveries : SenderActive(d) => Fresh(d) /\ row[d].attempts = 0
RetrierOwns ==
  \A r \in Retriers, c \in Claims :
    Held(r, c) => Fresh(c[1]) /\ row[c[1]].attempts = c[2] /\ ~SenderActive(c[1])
OneOwner ==
  \A q, r \in Retriers, b, c \in Claims :
    Held(q, b) /\ Held(r, c) /\ b[1] = c[1] => q = r
TakenOut ==
  \A r \in Retriers, c \in Claims :
    Trying(r) /\ c \in retrier[r].batch => c[1] # retrier[r].item[1]

Owned == Blank /\ SenderOwns /\ RetrierOwns /\ OneOwner /\ TakenOut

\* A step on a row that no retrier holds, which leaves the row with its sender
\* or with nobody.
LEMMA OwnedAfterRow ==
  ASSUME TypeOK, Owned, NEW d \in Deliveries,
         \A r \in Retriers, c \in Claims : Held(r, c) => c[1] # d,
         UNCHANGED retrier,
         \A e \in Deliveries : e # d => row'[e] = row[e] /\ sender'[e] = sender[e],
         SenderActive(d)' => Fresh(d)' /\ row'[d].attempts = 0,
         row'[d].status # "absent" \/ row'[d] = row[d]
  PROVE  Owned'
<1>1. \A c \in Claims : c[1] \in Deliveries
  BY DEF Claims
<1>2. Blank'
  BY DEF Owned, Blank
<1>3. SenderOwns'
  BY DEF Owned, SenderOwns, SenderActive, Fresh
<1>4. \A r \in Retriers, c \in Claims : Held(r, c)' = Held(r, c)
  BY DEF Held, Trying
<1>5. RetrierOwns'
  BY <1>1, <1>4 DEF Owned, RetrierOwns, SenderActive, Fresh
<1>6. OneOwner' /\ TakenOut'
  BY <1>4 DEF Owned, OneOwner, TakenOut, Trying
<1> QED
  BY <1>2, <1>3, <1>5, <1>6 DEF Owned

\* A step by which a retrier keeps its claims or lets go of some.
LEMMA OwnedAfterRetrier ==
  ASSUME TypeOK, Owned, NEW r \in Retriers,
         UNCHANGED <<row, sender>>,
         \A q \in Retriers : q # r => retrier'[q] = retrier[q],
         \A c \in Claims : Held(r, c)' => Held(r, c),
         TakenOut'
  PROVE  Owned'
<1>1. \A q \in Retriers, c \in Claims : Held(q, c)' => Held(q, c)
  BY DEF Held, Trying
<1>2. Blank' /\ SenderOwns'
  BY DEF Owned, Blank, SenderOwns, SenderActive, Fresh
<1>3. RetrierOwns'
  BY <1>1 DEF Owned, RetrierOwns, SenderActive, Fresh
<1>4. OneOwner'
  BY <1>1 DEF Owned, OneOwner
<1> QED
  BY <1>2, <1>3, <1>4 DEF Owned

LEMMA OwnedBySender ==
  ASSUME TypeOK, Owned, NEW d \in Deliveries,
         \/ SenderStep(d) \/ SenderCrashes(d)
         \/ \E g \in Digests, skip \in BOOLEAN : Insert(d, g, skip)
  PROVE  Owned'
<1>0. row \in [Deliveries -> Row] /\ sender \in [Deliveries -> SenderPcs]
  BY DEF TypeOK
<1>1. CASE SenderActive(d)
  <2>1. \A r \in Retriers, c \in Claims : Held(r, c) => c[1] # d
    BY <1>1 DEF Owned, RetrierOwns
  <2>2. row[d].status = "queued"
    BY <1>1 DEF Owned, SenderOwns, Fresh
  <2>3. CASE SenderSkips(d) \/ SenderMarks(d)
    <3>1. row'[d].status \in {"skipped", "sent", "failed"}
      <4>1. CASE SenderSkips(d)
        BY <1>0, <4>1 DEF SenderSkips, MarkDeliveryState
      <4>2. CASE SenderMarks(d) /\ FromWorker(d)
        BY <1>0, <4>2 DEF SenderMarks, SenderMarked, MarkSent, MarkFailed, MarkDeliveryState
      <4>3. CASE SenderMarks(d) /\ ~FromWorker(d)
        <5>1. row'[d] = [row[d] EXCEPT !.status =
                            IF sender[d] = "accepted" THEN "sent" ELSE "failed"]
          BY <1>0, <4>3 DEF SenderMarks, SenderMarked
        <5> QED
          BY <1>0, <5>1 DEF Row
      <4> QED
        BY <2>3, <4>1, <4>2, <4>3
    <3>2. /\ UNCHANGED retrier
          /\ \A e \in Deliveries : e # d => row'[e] = row[e] /\ sender'[e] = sender[e]
          /\ ~SenderActive(d)'
      BY <1>0, <2>3 DEF SenderSkips, SenderMarks, SenderActive
    <3> QED
      BY <2>1, <3>1, <3>2, OwnedAfterRow
  <2>4. CASE SenderSends(d) \/ SenderCrashes(d)
    <3>1. /\ UNCHANGED <<row, retrier>>
          /\ \A e \in Deliveries : e # d => row'[e] = row[e] /\ sender'[e] = sender[e]
      BY <1>0, <2>4 DEF SenderSends, SenderCrashes
    <3>2. Fresh(d)' /\ row'[d].attempts = 0
      BY <1>1, <3>1 DEF Owned, SenderOwns, Fresh
    <3> QED
      BY <2>1, <3>1, <3>2, OwnedAfterRow
  <2>5. ASSUME NEW g \in Digests, NEW skip \in BOOLEAN, Insert(d, g, skip)
        PROVE  FALSE
    BY <2>2, <2>5 DEF Insert
  <2> QED
    BY <2>3, <2>4, <2>5 DEF SenderStep
<1>2. ASSUME NEW g \in Digests, NEW skip \in BOOLEAN, Insert(d, g, skip)
      PROVE  Owned'
  <2>1. row[d].status = "absent" /\ row[d].attempts = 0 /\ row[d].old = FALSE
    BY <1>2 DEF Insert, Owned, Blank
  <2>2. \A r \in Retriers, c \in Claims : Held(r, c) => c[1] # d
    BY <2>1 DEF Owned, RetrierOwns, Fresh
  <2>3. row'[d] = [row[d] EXCEPT !.of = g, !.status = "queued"]
    BY <1>0, <1>2 DEF Insert
  <2>4. Fresh(d)' /\ row'[d].attempts = 0
    BY <1>0, <2>1, <2>3 DEF Fresh, Row
  <2>5. /\ UNCHANGED retrier
        /\ \A e \in Deliveries : e # d => row'[e] = row[e] /\ sender'[e] = sender[e]
    BY <1>0, <1>2 DEF Insert
  <2>6. row'[d].status # "absent"
    BY <2>4 DEF Fresh
  <2> QED
    BY <2>2, <2>4, <2>5, <2>6, OwnedAfterRow
<1>3. CASE ~SenderActive(d)
  BY <1>2, <1>3 DEF SenderStep, SenderSkips, SenderSends, SenderMarks, SenderCrashes,
                    SenderActive, Outcomes
<1> QED
  BY <1>1, <1>3

LEMMA OwnedByTime ==
  ASSUME TypeOK, Owned, NoStall, NEW d \in Deliveries, BecomeDue(d) \/ BecomeOld(d)
  PROVE  Owned'
<1>0. row \in [Deliveries -> Row]
  BY DEF TypeOK
<1>1. CASE BecomeDue(d)
  <2>1. ~SenderActive(d) /\ \A r \in Retriers, c \in Claims : Held(r, c) => c[1] # d
    BY <1>1 DEF BecomeDue, Owned, SenderOwns, RetrierOwns, Fresh
  <2>2. row' = [row EXCEPT ![d].retry = "due"] /\ UNCHANGED <<retrier, sender>>
    BY <1>1 DEF BecomeDue
  <2>3. row'[d].status = "failed"
    BY <1>0, <1>1, <2>2 DEF BecomeDue, Row
  <2>4. \A e \in Deliveries : e # d => row'[e] = row[e] /\ sender'[e] = sender[e]
    BY <1>0, <2>2
  <2>5. ~SenderActive(d)'
    BY <2>1, <2>2 DEF SenderActive
  <2> QED
    BY <2>1, <2>2, <2>3, <2>4, <2>5, OwnedAfterRow
<1>2. CASE BecomeOld(d)
  <2>1. ~InProgress(d)
    BY <1>2 DEF BecomeOld, NoStall
  <2>2. ~SenderActive(d) /\ \A r \in Retriers, c \in Claims : Held(r, c) => c[1] # d
    BY <2>1 DEF InProgress, Held, Trying
  <2>3. row' = [row EXCEPT ![d].old = TRUE] /\ UNCHANGED <<retrier, sender>>
    BY <1>2 DEF BecomeOld
  <2>4. row'[d].status = "queued"
    BY <1>0, <1>2, <2>3 DEF BecomeOld, Row
  <2>5. \A e \in Deliveries : e # d => row'[e] = row[e] /\ sender'[e] = sender[e]
    BY <1>0, <2>3
  <2>6. ~SenderActive(d)'
    BY <2>2, <2>3 DEF SenderActive
  <2> QED
    BY <2>2, <2>3, <2>4, <2>5, <2>6, OwnedAfterRow
<1> QED
  BY <1>1, <1>2

LEMMA OwnedByClaim ==
  ASSUME TypeOK, Owned, NEW r \in Retriers, NEW S \in SUBSET Deliveries, Claim(r, S)
  PROVE  Owned'
<1>0. row \in [Deliveries -> Row]
  BY DEF TypeOK
<1>1. \A q \in Retriers : q # r => retrier'[q] = retrier[q]
  BY ClaimedRetrier
<1>2. ~Trying(r)' /\ retrier'[r].batch = {<<d, row[d].attempts>> : d \in S}
  BY ClaimedRetrier DEF Trying, Outcomes
<1>3. \A d \in S : Due(d) /\ row'[d] = [row[d] EXCEPT !.status = "queued", !.old = FALSE]
  BY DEF Claim
<1>4. \A d \in S : row'[d].attempts = row[d].attempts /\ Fresh(d)'
  <2> TAKE d \in S
  <2>1. row[d] \in Row
    BY <1>0
  <2> QED
    BY <1>3, <2>1 DEF Fresh, Row
<1>5. \A d \in Deliveries : d \notin S => row'[d] = row[d]
  BY DEF Claim
<1>6. UNCHANGED sender
  BY DEF Claim
<1>7. \A d \in S : ~Fresh(d)
  BY <1>3 DEF Due, Fresh
<1>8. \A c \in Claims : c[1] \in Deliveries
  BY DEF Claims
<1>9. \A q \in Retriers, c \in Claims :
        q # r /\ Held(q, c)' => Held(q, c) /\ c[1] \notin S
  BY <1>1, <1>7 DEF Held, Trying, Owned, RetrierOwns
<1>10. \A c \in Claims : Held(r, c)' => c[1] \in S /\ c[2] = row[c[1]].attempts
  BY <1>2 DEF Held
<1>11. Blank'
  <2> SUFFICES ASSUME NEW d \in Deliveries, row'[d].status = "absent"
               PROVE  row'[d].attempts = 0 /\ row'[d].old = FALSE
    BY DEF Blank
  <2>1. d \notin S
    BY <1>4 DEF Fresh
  <2> QED
    BY <1>5, <2>1 DEF Owned, Blank
<1>12. SenderOwns'
  BY <1>5, <1>6, <1>7 DEF Owned, SenderOwns, SenderActive, Fresh
<1>13. RetrierOwns'
  <2> SUFFICES ASSUME NEW q \in Retriers, NEW c \in Claims, Held(q, c)'
               PROVE  Fresh(c[1])' /\ row'[c[1]].attempts = c[2] /\ ~SenderActive(c[1])'
    BY DEF RetrierOwns
  <2>1. CASE q = r
    <3>1. c[1] \in S /\ c[2] = row[c[1]].attempts
      BY <1>10, <2>1
    <3>2. ~SenderActive(c[1])'
      BY <1>6, <1>7, <3>1 DEF Owned, SenderOwns, SenderActive
    <3> QED
      BY <1>4, <3>1, <3>2
  <2>2. CASE q # r
    <3>1. Held(q, c) /\ c[1] \notin S /\ c[1] \in Deliveries
      BY <1>8, <1>9, <2>2
    <3> QED
      BY <1>5, <1>6, <3>1 DEF Owned, RetrierOwns, SenderActive, Fresh
  <2> QED
    BY <2>1, <2>2
<1>14. OneOwner'
  BY <1>9, <1>10 DEF Owned, OneOwner
<1>15. TakenOut'
  BY <1>1, <1>2 DEF Owned, TakenOut, Trying
<1> QED
  BY <1>11, <1>12, <1>13, <1>14, <1>15 DEF Owned

LEMMA OwnedByRetrier ==
  ASSUME TypeOK, Owned, NEW r \in Retriers,
         RetrierStep(r) \/ RetrierCrashes(r) \/ RestartLoop(r)
  PROVE  Owned'
<1>0. retrier[r].item \in Claims /\ retrier[r].batch \subseteq Claims
  BY DEF TypeOK
<1>1. ASSUME NEW claim \in retrier[r].batch, TakeItem(r, claim)
      PROVE  Owned'
  <2>1. /\ \A q \in Retriers : q # r => retrier'[q] = retrier[q]
        /\ retrier'[r].batch = retrier[r].batch \ {claim}
        /\ retrier'[r].pc = "next" \/ retrier'[r].item = claim
    BY <1>1, TakenRetrier
  <2>2. \A c \in Claims : Held(r, c)' => c \in retrier[r].batch
    BY <2>1 DEF Held, Trying, Outcomes
  <2>3. \A c \in Claims : c \in retrier[r].batch /\ c[1] = claim[1] => c = claim
    BY <1>0 DEF Owned, RetrierOwns, Held, Claims
  <2>4. Trying(r)' => retrier'[r].item = claim
    BY <2>1 DEF Trying, Outcomes
  <2>5. TakenOut'
    BY <2>1, <2>3, <2>4 DEF Owned, TakenOut, Trying
  <2>6. UNCHANGED <<row, sender>>
    BY <1>1 DEF TakeItem
  <2> QED
    BY <2>1, <2>2, <2>5, <2>6, OwnedAfterRetrier DEF Held
<1>2. CASE RetrierSends(r)
  <2>1. PICK o \in Outcomes : retrier' = [retrier EXCEPT ![r].pc = o]
    BY <1>2 DEF RetrierSends
  <2>2. /\ \A q \in Retriers : q # r => retrier'[q] = retrier[q]
        /\ retrier'[r].item = retrier[r].item
        /\ retrier'[r].batch \subseteq retrier[r].batch
    BY <2>1, SetPc
  <2>3. Trying(r) /\ UNCHANGED <<row, sender>>
    BY <1>2 DEF RetrierSends, Trying
  <2>4. TakenOut'
    BY <2>2, <2>3 DEF Owned, TakenOut, Trying
  <2>5. \A c \in Claims : Held(r, c)' => Held(r, c)
    BY <2>2, <2>3 DEF Held
  <2> QED
    BY <2>2, <2>3, <2>4, <2>5, OwnedAfterRetrier
<1>3. ASSUME NEW pc, pc \in {"idle", "next", "dead"},
             \/ retrier' = [retrier EXCEPT ![r].pc = pc]
             \/ retrier' = [retrier EXCEPT ![r].pc = pc, ![r].batch = {}]
      PROVE  /\ \A q \in Retriers : q # r => retrier'[q] = retrier[q]
             /\ ~Trying(r)' /\ TakenOut'
             /\ \A c \in Claims : Held(r, c)' => c \in retrier[r].batch
  <2>1. /\ \A q \in Retriers : q # r => retrier'[q] = retrier[q]
        /\ retrier'[r].pc = pc /\ retrier'[r].batch \subseteq retrier[r].batch
    BY <1>3, SetPc
  <2>2. ~Trying(r)'
    BY <1>3, <2>1 DEF Trying, Outcomes
  <2>3. TakenOut'
    BY <2>1, <2>2 DEF Owned, TakenOut, Trying
  <2> QED
    BY <2>1, <2>2, <2>3 DEF Held
<1>4. CASE BatchDone(r) \/ RetrierCrashes(r) \/ RestartLoop(r)
  <2>1. PICK pc \in {"idle", "next", "dead"} :
          \/ retrier' = [retrier EXCEPT ![r].pc = pc]
          \/ retrier' = [retrier EXCEPT ![r].pc = pc, ![r].batch = {}]
    BY <1>4 DEF BatchDone, RetrierCrashes, RestartLoop
  <2>2. UNCHANGED <<row, sender>>
    BY <1>4 DEF BatchDone, RetrierCrashes, RestartLoop
  <2> QED
    BY <1>3, <2>1, <2>2, OwnedAfterRetrier DEF Held
<1>5. CASE RetrierMarks(r)
  <2> DEFINE e == retrier[r].item[1]
             next == next_retry_at(retrier[r].item[2] + 1, retrier[r].pc)
  <2>1. /\ \A q \in Retriers : q # r => retrier'[q] = retrier[q]
        /\ ~Trying(r)' /\ TakenOut'
        /\ \A c \in Claims : Held(r, c)' => c \in retrier[r].batch
    BY <1>3, <1>5 DEF RetrierMarks
  <2>2. e \in Deliveries /\ Held(r, retrier[r].item)
    BY <1>0, <1>5 DEF RetrierMarks, Held, Trying, Claims
  <2>3. Trying(r) /\ UNCHANGED sender /\ ~SenderActive(e)
    BY <1>0, <1>5, <2>2 DEF RetrierMarks, Trying, Owned, RetrierOwns
  <2>4. \A q \in Retriers, c \in Claims : Held(q, c)' => Held(q, c) /\ c[1] # e
    <3> SUFFICES ASSUME NEW q \in Retriers, NEW c \in Claims, Held(q, c)'
                 PROVE  Held(q, c) /\ c[1] # e
      OBVIOUS
    <3>1. CASE q = r
      BY <2>1, <2>3, <3>1 DEF Held, Owned, TakenOut
    <3>2. CASE q # r
      <4>1. Held(q, c)
        BY <2>1, <3>2 DEF Held, Trying
      <4> QED
        BY <1>0, <2>2, <3>2, <4>1 DEF Owned, OneOwner
    <3> QED
      BY <3>1, <3>2
  <2>5. /\ \A d \in Deliveries : d # e => row'[d] = row[d]
        /\ row'[e] = row[e] \/ row'[e].status \in {"sent", "failed"}
    <3>1. \/ UNCHANGED row
          \/ row' = [row EXCEPT ![e] = MarkSent(row[e])]
          \/ row' = [row EXCEPT ![e] = MarkFailed(row[e], next)]
      BY <1>5 DEF RetrierMarks
    <3>2. MarkSent(row[e]).status = "sent" /\ MarkFailed(row[e], next).status = "failed"
      BY DEF MarkSent, MarkFailed, MarkDeliveryState
    <3> HIDE DEF e, next
    <3> QED
      BY <2>2, <3>1, <3>2 DEF TypeOK
  <2> HIDE DEF e
  <2>6. \A c \in Claims : c[1] \in Deliveries
    BY DEF Claims
  <2>7. Blank'
    BY <2>5 DEF Owned, Blank
  <2>8. SenderOwns'
    BY <2>3, <2>5 DEF Owned, SenderOwns, SenderActive, Fresh
  <2>9. RetrierOwns'
    BY <2>3, <2>4, <2>5, <2>6 DEF Owned, RetrierOwns, SenderActive, Fresh
  <2>10. OneOwner'
    BY <2>4 DEF Owned, OneOwner
  <2> QED
    BY <2>1, <2>7, <2>8, <2>9, <2>10 DEF Owned
<1> QED
  BY <1>1, <1>2, <1>4, <1>5 DEF RetrierStep

LEMMA AlwaysOwned == NoStall => (Spec => []Owned)
<1> SUFFICES ASSUME NoStall
             PROVE  Spec => []Owned
  OBVIOUS
<1>1. Init => Owned
  BY DEF Init, Owned, Blank, SenderOwns, RetrierOwns, OneOwner, TakenOut, Held, Trying,
         SenderActive, Outcomes
<1>2. TypeOK /\ Owned /\ [Next]_vars => Owned'
  <2> SUFFICES ASSUME TypeOK, Owned, [Next]_vars
               PROVE  Owned'
    OBVIOUS
  <2>1. CASE UNCHANGED vars
    BY <2>1 DEF vars, Owned, Blank, SenderOwns, RetrierOwns, OneOwner, TakenOut, Held,
                Trying, SenderActive, Fresh
  <2> QED
    BY <2>1, OwnedBySender, OwnedByTime, OwnedByClaim, OwnedByRetrier DEF Next
<1> QED
  BY <1>1, <1>2, TypeCorrect, PTL DEF Spec

\* Without stalls retriers are kept apart by their claims, whether or not they
\* get their locks.
THEOREM ClaimKeepsRetriersApart == NoStall => (Spec => []NoConcurrentRetry)
<1> SUFFICES ASSUME NoStall
             PROVE  Spec => []NoConcurrentRetry
  OBVIOUS
<1>1. TypeOK /\ Owned => NoConcurrentRetry
  <2> SUFFICES ASSUME TypeOK, Owned, NEW q \in Retriers, NEW r \in Retriers, q # r,
                      Trying(q), Trying(r)
               PROVE  retrier[q].item[1] # retrier[r].item[1]
    BY DEF NoConcurrentRetry, Trying
  <2>1. retrier[q].item \in Claims /\ retrier[r].item \in Claims
    BY DEF TypeOK
  <2> QED
    BY <2>1 DEF Owned, OneOwner, Held
<1> QED
  BY <1>1, AlwaysOwned, TypeCorrect, PTL

\* Without stalls nothing is mailed for a row that is already answered for.
THEOREM MailsAreTimely == NoStall => (Spec => MailsOnlyWhileQueued)
<1> SUFFICES ASSUME NoStall
             PROVE  Spec => MailsOnlyWhileQueued
  OBVIOUS
<1> DEFINE Timely == \A d \in Deliveries : mails'[d] # mails[d] => row[d].status = "queued"
<1>1. TypeOK /\ Owned /\ [Next]_vars => Timely
  <2> SUFFICES ASSUME TypeOK, Owned, [Next]_vars, NEW d \in Deliveries, mails'[d] # mails[d]
               PROVE  row[d].status = "queued"
    OBVIOUS
  <2>1. ASSUME NEW e \in Deliveries, NEW key, NEW o, SendWithResend(e, key, o)
        PROVE  e = d
    BY <2>1 DEF SendWithResend, TypeOK
  <2>2. ASSUME NEW e \in Deliveries, SenderStep(e) \/ SenderCrashes(e)
        PROVE  row[d].status = "queued"
    <3>1. SenderSends(e)
      BY <2>2 DEF SenderStep, SenderSkips, SenderMarks, SenderCrashes
    <3>2. e = d /\ SenderActive(e)
      BY <2>1, <3>1 DEF SenderSends, SenderActive
    <3> QED
      BY <3>2 DEF Owned, SenderOwns, Fresh
  <2>3. ASSUME NEW r \in Retriers, RetrierSends(r)
        PROVE  row[d].status = "queued"
    <3>1. retrier[r].item \in Claims /\ retrier[r].item[1] \in Deliveries
      BY DEF TypeOK, Claims
    <3>2. retrier[r].item[1] = d /\ Trying(r)
      BY <2>1, <2>3, <3>1 DEF RetrierSends, Trying
    <3> QED
      BY <3>1, <3>2 DEF Owned, RetrierOwns, Held, Fresh
  <2> QED
    BY <2>2, <2>3
       DEF Next, RetrierStep, Insert, BecomeDue, BecomeOld, Claim, TakeItem, RetrierMarks,
           BatchDone, RetrierCrashes, RestartLoop, vars
<1>2. TypeOK /\ Owned /\ [Next]_vars => [Timely]_vars
  BY <1>1
<1> QED
  BY <1>2, AlwaysOwned, TypeCorrect, PTL DEF Spec, MailsOnlyWhileQueued

LEMMA SettledRowKept ==
  ASSUME TypeOK, Owned, [Next]_vars, NEW d \in Deliveries, Settled(d)
  PROVE  row'[d] = row[d]
<1>1. row[d].status \notin {"absent", "queued"} /\ ~Due(d) /\ ~SenderActive(d)
  BY DEF Settled, Due, Owned, SenderOwns, Fresh
<1>2. ASSUME NEW e \in Deliveries,
             \/ SenderStep(e) \/ SenderCrashes(e) \/ BecomeDue(e) \/ BecomeOld(e)
             \/ \E g \in Digests, skip \in BOOLEAN : Insert(e, g, skip)
      PROVE  row'[d] = row[d]
  <2>1. CASE e = d
    BY <1>1, <1>2, <2>1 DEF SenderStep, SenderSkips, SenderSends, SenderMarks,
          SenderCrashes, SenderActive, Outcomes, BecomeDue, BecomeOld, Insert, Settled
  <2>2. CASE e # d
    BY <1>2, <2>2 DEF SenderStep, SenderSkips, SenderSends, SenderMarks,
          SenderCrashes, BecomeDue, BecomeOld, Insert, TypeOK
  <2> QED
    BY <2>1, <2>2
<1>3. ASSUME NEW r \in Retriers, NEW S \in SUBSET Deliveries, Claim(r, S)
      PROVE  row'[d] = row[d]
  BY <1>1, <1>3 DEF Claim
<1>4. ASSUME NEW r \in Retriers, RetrierMarks(r)
      PROVE  row'[d] = row[d]
  <2>1. retrier[r].item[1] = d => UNCHANGED row
    BY <1>1, <1>4 DEF RetrierMarks
  <2> QED
    BY <1>4, <2>1 DEF RetrierMarks, TypeOK
<1> QED
  BY <1>2, <1>3, <1>4
     DEF Next, RetrierStep, TakeItem, RetrierSends, BatchDone, RetrierCrashes,
         RestartLoop, vars

\* Without stalls a row that is sent, skipped or given up is never written
\* again.
THEOREM SettledStays == NoStall => (Spec => SettledIsFinal)
<1> SUFFICES ASSUME NoStall
             PROVE  Spec => SettledIsFinal
  OBVIOUS
<1> DEFINE Kept == \A d \in Deliveries : Settled(d) => row'[d] = row[d]
<1>1. TypeOK /\ Owned /\ [Next]_vars => [Kept]_vars
  BY SettledRowKept
<1> QED
  BY <1>1, AlwaysOwned, TypeCorrect, PTL DEF Spec, SettledIsFinal

\* A row that may be tried again has an attempt left.
HasRoom(rec) ==
  /\ rec.attempts <= DELIVERY_MAX_ATTEMPTS
  /\ rec.status \in {"absent", "queued"} => rec.attempts < DELIVERY_MAX_ATTEMPTS
  /\ rec.status = "failed" /\ rec.retry # "null" => rec.attempts < DELIVERY_MAX_ATTEMPTS

Left == \A d \in Deliveries : HasRoom(row[d])

\* What a mark makes of a row that had an attempt left.
LEMMA LeftAfterMark ==
  ASSUME NEW rec \in Row, rec.attempts < DELIVERY_MAX_ATTEMPTS, NEW o \in Outcomes,
         NEW new, new \in {MarkSent(rec), MarkFailed(rec, next_retry_at(rec.attempts + 1, o))}
  PROVE  HasRoom(new)
  BY MaxAttemptsAssumption
     DEF HasRoom, MarkSent, MarkFailed, MarkDeliveryState, next_retry_at, Row

LEMMA LeftAfterStep ==
  ASSUME TypeOK, Owned, Left, [Next]_vars, NEW d \in Deliveries
  PROVE  HasRoom(row'[d])
<1>0. row \in [Deliveries -> Row] /\ row[d] \in Row /\ HasRoom(row[d])
  BY DEF TypeOK, Left
<1>1. ASSUME NEW e \in Deliveries, SenderMarks(e)
      PROVE  HasRoom(row'[d])
  <2>1. CASE e # d
    BY <1>0, <1>1, <2>1 DEF SenderMarks
  <2>2. CASE e = d
    <3>1. row'[d] = SenderMarked(d) /\ sender[d] \in Outcomes
      BY <1>0, <1>1, <2>2 DEF SenderMarks
    <3>2. row[d].status = "queued" /\ row[d].attempts = 0
      BY <3>1 DEF Owned, SenderOwns, Fresh, SenderActive, Outcomes
    <3>3. row[d].attempts < DELIVERY_MAX_ATTEMPTS
      BY <1>0, <3>2 DEF HasRoom
    <3>4. CASE FromWorker(d)
      <4>1. SenderMarked(d) \in {MarkSent(row[d]),
                                 MarkFailed(row[d], next_retry_at(row[d].attempts + 1, sender[d]))}
        BY <3>2, <3>4 DEF SenderMarked
      <4> QED
        BY <1>0, <3>1, <3>3, <4>1, LeftAfterMark
    <3>5. CASE ~FromWorker(d)
      <4>1. row'[d] = [row[d] EXCEPT !.status =
                          IF sender[d] = "accepted" THEN "sent" ELSE "failed"]
        BY <3>1, <3>5 DEF SenderMarked
      <4>2. row'[d].attempts = row[d].attempts /\ row'[d].status \in {"sent", "failed"}
        BY <1>0, <4>1 DEF Row
      <4> QED
        BY <1>0, <3>3, <4>2 DEF HasRoom
    <3> QED
      BY <3>4, <3>5
  <2> QED
    BY <2>1, <2>2
<1>2. ASSUME NEW r \in Retriers, RetrierMarks(r)
      PROVE  HasRoom(row'[d])
  <2>1. CASE retrier[r].item[1] = d /\ row[d].status = "queued" /\ row[d].attempts = retrier[r].item[2]
    <3>1. row[d].attempts < DELIVERY_MAX_ATTEMPTS
      BY <1>0, <2>1 DEF HasRoom
    <3>2. retrier[r].pc \in Outcomes
      BY <1>2 DEF RetrierMarks
    <3>3. row'[d] \in {MarkSent(row[d]),
                       MarkFailed(row[d], next_retry_at(row[d].attempts + 1, retrier[r].pc))}
      BY <1>0, <1>2, <2>1 DEF RetrierMarks
    <3> QED
      BY <1>0, <3>1, <3>2, <3>3, LeftAfterMark
  <2>2. CASE ~(retrier[r].item[1] = d /\ row[d].status = "queued" /\ row[d].attempts = retrier[r].item[2])
    <3>1. row'[d] = row[d]
      BY <1>0, <1>2, <2>2 DEF RetrierMarks
    <3> QED
      BY <1>0, <3>1
  <2> QED
    BY <2>1, <2>2
<1>3. ASSUME NEW e \in Deliveries, NEW g \in Digests, NEW skip \in BOOLEAN,
             Insert(e, g, skip)
      PROVE  HasRoom(row'[d])
  <2>1. e = d => row[d].status = "absent" /\ row'[d] = [row[d] EXCEPT !.of = g, !.status = "queued"]
    BY <1>0, <1>3 DEF Insert
  <2>2. e # d => row'[d] = row[d]
    BY <1>0, <1>3 DEF Insert
  <2> QED
    BY <1>0, <2>1, <2>2 DEF HasRoom, Row
<1>4. ASSUME NEW e \in Deliveries, SenderSkips(e)
      PROVE  HasRoom(row'[d])
  BY <1>0, <1>4 DEF HasRoom, SenderSkips, MarkDeliveryState, Row
<1>5. ASSUME NEW e \in Deliveries, BecomeDue(e)
      PROVE  HasRoom(row'[d])
  BY <1>0, <1>5 DEF HasRoom, BecomeDue, Row
<1>6. ASSUME NEW e \in Deliveries, BecomeOld(e)
      PROVE  HasRoom(row'[d])
  BY <1>0, <1>6 DEF HasRoom, BecomeOld, Row
<1>7. ASSUME NEW r \in Retriers, NEW S \in SUBSET Deliveries, Claim(r, S)
      PROVE  HasRoom(row'[d])
  <2>1. CASE d \in S
    <3>1. Due(d) /\ row'[d] = [row[d] EXCEPT !.status = "queued", !.old = FALSE]
      BY <1>7, <2>1 DEF Claim
    <3>2. row'[d].attempts = row[d].attempts /\ row'[d].status = "queued"
      BY <1>0, <3>1 DEF Row
    <3>3. row[d].attempts < DELIVERY_MAX_ATTEMPTS
      BY <1>0, <3>1 DEF HasRoom, Due
    <3> QED
      BY <1>0, <3>2, <3>3 DEF HasRoom
  <2>2. CASE d \notin S
    BY <1>0, <1>7, <2>2 DEF Claim
  <2> QED
    BY <2>1, <2>2
<1>8. CASE row' = row
  BY <1>0, <1>8
<1>9. ASSUME NEW e \in Deliveries,
             SenderStep(e) \/ SenderCrashes(e) \/ BecomeDue(e) \/ BecomeOld(e)
      PROVE  HasRoom(row'[d])
  <2>1. SenderSends(e) \/ SenderCrashes(e) => row' = row
    BY DEF SenderSends, SenderCrashes
  <2> QED
    BY <1>1, <1>4, <1>5, <1>6, <1>8, <1>9, <2>1 DEF SenderStep
<1>10. ASSUME NEW r \in Retriers, RetrierStep(r) \/ RetrierCrashes(r) \/ RestartLoop(r)
       PROVE  HasRoom(row'[d])
  <2>1. RetrierMarks(r) \/ row' = row
    BY <1>10 DEF RetrierStep, TakeItem, RetrierSends, BatchDone, RetrierCrashes, RestartLoop
  <2> QED
    BY <1>2, <1>8, <2>1
<1>11. CASE UNCHANGED vars
  BY <1>8, <1>11 DEF vars
<1> QED
  BY <1>3, <1>7, <1>9, <1>10, <1>11 DEF Next

LEMMA AlwaysLeft == NoStall => (Spec => []Left)
<1> SUFFICES ASSUME NoStall
             PROVE  Spec => []Left
  OBVIOUS
<1>1. Init => Left
  BY MaxAttemptsAssumption DEF Init, Left, HasRoom
<1>2. TypeOK /\ Owned /\ Left /\ [Next]_vars => Left'
  BY LeftAfterStep DEF Left
<1> QED
  BY <1>1, <1>2, AlwaysOwned, TypeCorrect, PTL DEF Spec

\* Without stalls a row is tried no more often than the policy allows: the count
\* is the row's own when it is compared with the limit.
THEOREM AttemptsAreBounded == NoStall => (Spec => []AttemptBound)
<1>1. Left => AttemptBound
  BY DEF Left, HasRoom, AttemptBound
<1> QED
  BY <1>1, AlwaysLeft, PTL

-----------------------------------------------------------------------------
(***************************************************************************)
(* One live row per digest.                                                *)
(***************************************************************************)
\* A row announces something from its insert on, and it announces that forever.
NothingYet == \A d \in Deliveries : row[d].status = "absent" => row[d].of = "none"

\* A row that does not block is blank or settled, so a step other than its
\* insert does not make it block.
LEMMA BlockingIsOld ==
  ASSUME TypeOK, Owned, NothingYet, [Next]_vars, NEW d \in Deliveries,
         \A g \in Digests, skip \in BOOLEAN : ~Insert(d, g, skip),
         Blocking(d)', row'[d].of # "none"
  PROVE  Blocking(d) /\ row[d].of = row'[d].of
<1>1. row[d].of = row'[d].of
  BY OfIsKept
<1>2. row[d].status # "absent"
  BY <1>1 DEF NothingYet
<1>3. row[d].status \in Statuses
  BY DEF TypeOK, Row
<1>4. Settled(d) => row'[d] = row[d]
  BY SettledRowKept
<1> QED
  BY <1>1, <1>2, <1>3, <1>4 DEF Blocking, Settled, Statuses

\* Without stalls a day has one live row at most: the row that made room for
\* its second is settled and does not come back to life.
THEOREM RowsOfADigestTakeTurns == NoStall => (Spec => []OneLivePerDigest)
<1> SUFFICES ASSUME NoStall
             PROVE  Spec => []OneLivePerDigest
  OBVIOUS
<1>1. Init => NothingYet /\ OneLivePerDigest
  BY DEF Init, NothingYet, OneLivePerDigest
<1>2. TypeOK /\ NothingYet /\ [Next]_vars => NothingYet'
  <2> SUFFICES ASSUME TypeOK, NothingYet, [Next]_vars, NEW d \in Deliveries,
                      row'[d].status = "absent"
               PROVE  row'[d].of = "none"
    BY DEF NothingYet
  <2>1. ASSUME NEW g \in Digests, NEW skip \in BOOLEAN, Insert(d, g, skip)
        PROVE  FALSE
    <3>1. row'[d] = [row[d] EXCEPT !.of = g, !.status = "queued"] /\ row[d] \in Row
      BY <2>1 DEF Insert, TypeOK
    <3>2. row'[d].status = "queued"
      BY <3>1 DEF Row
    <3> QED
      BY <3>2
  <2>2. RowChange(d)
    BY RowStep
  <2>3. row[d].status = "absent"
    BY <2>2 DEF RowChange
  <2> QED
    BY <2>1, <2>3, OfIsKept DEF NothingYet
<1>3. TypeOK /\ Owned /\ NothingYet /\ OneLivePerDigest /\ [Next]_vars => OneLivePerDigest'
  <2> SUFFICES ASSUME TypeOK, Owned, NothingYet, OneLivePerDigest, [Next]_vars,
                      NEW d \in Deliveries, NEW e \in Deliveries,
                      d # e, row'[d].of = row'[e].of, Blocking(d)', Blocking(e)',
                      row'[d].of # "none"
               PROVE  FALSE
    BY DEF OneLivePerDigest, Blocking
  <2>1. ASSUME NEW a \in Deliveries, NEW b \in Deliveries, a # b, Blocking(b)',
               row'[a].of = row'[b].of,
               NEW g \in Digests, NEW skip \in BOOLEAN, Insert(a, g, skip)
        PROVE  FALSE
    <3>1. row'[a].of = g /\ row'[b] = row[b]
      BY <2>1 DEF Insert, TypeOK, Row
    <3>2. row[b].of = g /\ Blocking(b)
      BY <2>1, <3>1 DEF Blocking
    <3> QED
      BY <2>1, <3>2 DEF Insert
  <2>2. \A g \in Digests, skip \in BOOLEAN : ~Insert(d, g, skip) /\ ~Insert(e, g, skip)
    BY <2>1
  <2>3. Blocking(d) /\ row[d].of = row'[d].of
    BY <2>2, BlockingIsOld
  <2>4. Blocking(e) /\ row[e].of = row'[e].of
    BY <2>2, BlockingIsOld
  <2> QED
    BY <2>3, <2>4 DEF OneLivePerDigest
<1> QED
  BY <1>1, <1>2, <1>3, AlwaysOwned, TypeCorrect, PTL DEF Spec

-----------------------------------------------------------------------------
(***************************************************************************)
(* Mails that nothing explains.                                            *)
(***************************************************************************)
\* Of a worker's row, all mails but that of the attempt to come have been read
\* wrong; once it is sent, all but one.  Attempt n + 1 has idempotency key n + 1.
Counted(rec, keys, wrong) ==
  /\ rec.status = "absent" => keys = {}
  /\ rec.of \in WorkerDigests =>
        /\ keys \subseteq 1 .. (rec.attempts + 1)
        /\ Cardinality(keys) <= 1 + wrong
        /\ rec.status # "sent" => Cardinality(keys \ {rec.attempts + 1}) <= wrong

MailsCounted == \A d \in Deliveries : Counted(row[d], mails[d], misread[d])

LEMMA KeysAreFinite ==
  ASSUME NEW n \in Nat, NEW keys, keys \subseteq 1 .. (n + 1), NEW x
  PROVE  /\ IsFiniteSet(keys) /\ Cardinality(keys) \in Nat
         /\ IsFiniteSet(keys \ {x}) /\ Cardinality(keys \ {x}) \in Nat
         /\ Cardinality(keys) <= Cardinality(keys \ {x}) + 1
         /\ x \notin keys => Cardinality(keys) = Cardinality(keys \ {x})
<1>1. IsFiniteSet(1 .. (n + 1))
  BY FS_Interval
<1>2. IsFiniteSet(keys)
  BY <1>1, FS_Subset
<1>3. IsFiniteSet(keys \ {x})
  BY <1>2, FS_RemoveElement
<1>4. Cardinality(keys) \in Nat /\ Cardinality(keys \ {x}) \in Nat
  BY <1>2, <1>3, FS_CardinalityType
<1>5. Cardinality(keys \ {x}) = IF x \in keys THEN Cardinality(keys) - 1 ELSE Cardinality(keys)
  BY <1>2, FS_RemoveElement
<1> QED
  BY <1>2, <1>3, <1>4, <1>5

\* The mail of the attempt to come.
LEMMA CountedAfterSend ==
  ASSUME NEW rec \in Row, rec.status = "queued", NEW keys, NEW wrong \in Nat,
         Counted(rec, keys, wrong)
  PROVE  Counted(rec, keys \union {rec.attempts + 1}, wrong)
<1> DEFINE n == rec.attempts
           more == keys \union {n + 1}
<1>1. n \in Nat
  BY DEF Row
<1>2. CASE rec.of \in WorkerDigests
  <2>1. keys \subseteq 1 .. (n + 1) /\ Cardinality(keys \ {n + 1}) <= wrong
    BY <1>2 DEF Counted
  <2>2. more \subseteq 1 .. (n + 1)
    <3>1. n + 1 \in 1 .. (n + 1)
      BY <1>1
    <3> QED
      BY <2>1, <3>1
  <2>3. more \ {n + 1} = keys \ {n + 1}
    OBVIOUS
  <2>4. Cardinality(more \ {n + 1}) <= wrong
    BY <2>1, <2>3
  <2>5. /\ Cardinality(more) \in Nat /\ Cardinality(more \ {n + 1}) \in Nat
        /\ Cardinality(more) <= Cardinality(more \ {n + 1}) + 1
    BY <1>1, <2>2, KeysAreFinite
  <2>6. Cardinality(more) <= 1 + wrong
    BY <2>4, <2>5
  <2> QED
    BY <2>2, <2>4, <2>6 DEF Counted
<1>3. CASE rec.of \notin WorkerDigests
  BY <1>3 DEF Counted
<1> QED
  BY <1>2, <1>3

\* A mark that counts the attempt, right or wrong.
LEMMA CountedAfterMark ==
  ASSUME NEW rec \in Row, rec.status = "queued", NEW keys, NEW wrong \in Nat,
         Counted(rec, keys, wrong), NEW new,
         new.of = rec.of, new.attempts = rec.attempts + 1, new.status \in {"sent", "failed"},
         NEW now, now = IF new.status # "sent" /\ rec.attempts + 1 \in keys
                          THEN wrong + 1 ELSE wrong
  PROVE  Counted(new, keys, now)
<1> DEFINE n == rec.attempts
<1>1. n \in Nat
  BY DEF Row
<1>2. CASE rec.of \in WorkerDigests
  <2>1. keys \subseteq 1 .. (n + 1) /\ Cardinality(keys \ {n + 1}) <= wrong
    BY <1>2 DEF Counted
  <2>2. keys \subseteq 1 .. ((n + 1) + 1) /\ (n + 1) + 1 \notin keys
    BY <1>1, <2>1
  <2>3. /\ Cardinality(keys) \in Nat /\ Cardinality(keys \ {n + 1}) \in Nat
        /\ Cardinality(keys) <= Cardinality(keys \ {n + 1}) + 1
        /\ n + 1 \notin keys => Cardinality(keys) = Cardinality(keys \ {n + 1})
    BY <1>1, <2>1, KeysAreFinite
  <2>4. keys \ {(n + 1) + 1} = keys
    BY <2>2
  <2>5. now \in Nat /\ wrong <= now
    OBVIOUS
  <2>6. Cardinality(keys) <= 1 + now
    BY <2>1, <2>3, <2>5
  <2>7. new.status # "sent" => Cardinality(keys) <= now
    BY <2>1, <2>3
  <2> QED
    BY <2>2, <2>4, <2>6, <2>7 DEF Counted
<1>3. CASE rec.of \notin WorkerDigests
  BY <1>3 DEF Counted
<1> QED
  BY <1>2, <1>3

\* One call of the provider, with the key of the attempt to come.
LEMMA CountedBySend ==
  ASSUME TypeOK, MailsCounted, NEW d \in Deliveries, NEW e \in Deliveries, NEW o,
         row[e].status = "queued", UNCHANGED <<row, misread>>,
         SendWithResend(e, row[e].attempts + 1, o)
  PROVE  Counted(row'[d], mails'[d], misread'[d])
<1>1. /\ row[d] \in Row /\ misread[d] \in Nat /\ Counted(row[d], mails[d], misread[d])
      /\ row'[d] = row[d] /\ misread'[d] = misread[d]
  BY DEF TypeOK, MailsCounted
<1>2. mails'[d] = mails[d] \/ (e = d /\ mails'[d] = mails[d] \union {row[d].attempts + 1})
  BY DEF SendWithResend, TypeOK
<1> QED
  BY <1>1, <1>2, CountedAfterSend

\* One mark by the worker of a row it has tried.
LEMMA CountedByMark ==
  ASSUME TypeOK, MailsCounted, NEW d \in Deliveries, NEW e \in Deliveries,
         NEW o \in Outcomes, NEW retry,
         row[e].status = "queued", UNCHANGED mails,
         row' = [row EXCEPT ![e] = IF o = "accepted" THEN MarkSent(row[e])
                                                      ELSE MarkFailed(row[e], retry)],
         Record(e, row[e].attempts + 1, o)
  PROVE  Counted(row'[d], mails'[d], misread'[d])
<1>1. /\ row[d] \in Row /\ misread[d] \in Nat /\ Counted(row[d], mails[d], misread[d])
      /\ mails'[d] = mails[d]
  BY DEF TypeOK, MailsCounted
<1>2. CASE e # d
  <2>1. row'[d] = row[d] /\ misread'[d] = misread[d]
    BY <1>2 DEF Record, TypeOK
  <2> QED
    BY <1>1, <2>1
<1>3. CASE e = d
  <2>1. row'[d] = IF o = "accepted" THEN MarkSent(row[d]) ELSE MarkFailed(row[d], retry)
    BY <1>3 DEF TypeOK
  <2>2. /\ row'[d].of = row[d].of /\ row'[d].attempts = row[d].attempts + 1
        /\ row'[d].status = IF o = "accepted" THEN "sent" ELSE "failed"
    BY <2>1 DEF MarkSent, MarkFailed, MarkDeliveryState
  <2>3. misread'[d] = IF o # "accepted" /\ row[d].attempts + 1 \in mails[d]
                        THEN misread[d] + 1 ELSE misread[d]
    BY <1>3 DEF Record, TypeOK
  <2>4. row'[d].status # "sent" <=> o # "accepted"
    BY <2>2
  <2>5. misread'[d] = IF row'[d].status # "sent" /\ row[d].attempts + 1 \in mails[d]
                        THEN misread[d] + 1 ELSE misread[d]
    BY <2>3, <2>4
  <2>6. row'[d].status \in {"sent", "failed"} /\ row[d].status = "queued"
    BY <1>3, <2>2
  <2> HIDE DEF MailsCounted
  <2> QED
    BY <1>1, <2>2, <2>5, <2>6, CountedAfterMark
<1> QED
  BY <1>2, <1>3

LEMMA CountedBySender ==
  ASSUME TypeOK, Owned, MailsCounted, NEW d \in Deliveries, NEW e \in Deliveries,
         SenderStep(e) \/ SenderCrashes(e)
  PROVE  Counted(row'[d], mails'[d], misread'[d])
<1>0. Counted(row[d], mails[d], misread[d]) /\ row[e] \in Row /\ row \in [Deliveries -> Row]
  BY DEF TypeOK, MailsCounted
<1>1. row[e].status = "queued" /\ row[e].attempts = 0
  BY DEF Owned, SenderOwns, Fresh, SenderActive, SenderStep, SenderSkips, SenderSends,
         SenderMarks, SenderCrashes, Outcomes
<1>2. CASE SenderCrashes(e)
  BY <1>0, <1>2 DEF SenderCrashes
<1>3. CASE SenderSkips(e)
  <2>1. CASE e = d
    <3>1. /\ row'[d].of = row[d].of /\ row'[d].attempts = row[d].attempts
          /\ row'[d].status = "skipped"
      BY <1>0, <1>3, <2>1 DEF SenderSkips, MarkDeliveryState
    <3>2. row[d].status = "queued" /\ mails' = mails /\ misread' = misread
      BY <1>1, <1>3, <2>1 DEF SenderSkips
    <3> QED
      BY <1>0, <3>1, <3>2 DEF Counted
  <2>2. CASE e # d
    BY <1>0, <1>3, <2>2 DEF SenderSkips
  <2> QED
    BY <2>1, <2>2
<1>4. CASE SenderSends(e)
  <2>1. PICK o \in Outcomes : SendWithResend(e, IF FromWorker(e) THEN 1 ELSE NoKey, o)
    BY <1>4 DEF SenderSends
  <2>2. UNCHANGED <<row, misread>>
    BY <1>4 DEF SenderSends
  <2>3. CASE FromWorker(e)
    <3>1. SendWithResend(e, row[e].attempts + 1, o)
      BY <1>1, <2>1, <2>3
    <3> QED
      BY <1>1, <2>2, <3>1, CountedBySend
  <2>4. CASE ~FromWorker(e)
    <3>1. e # d => mails'[d] = mails[d]
      BY <2>1 DEF SendWithResend, TypeOK
    <3> QED
      BY <1>0, <1>1, <2>2, <2>4, <3>1 DEF Counted, FromWorker
  <2> QED
    BY <2>3, <2>4
<1>5. CASE SenderMarks(e)
  <2>1. /\ sender[e] \in Outcomes /\ row' = [row EXCEPT ![e] = SenderMarked(e)]
        /\ Record(e, IF FromWorker(e) THEN 1 ELSE NoKey, sender[e]) /\ UNCHANGED mails
    BY <1>5 DEF SenderMarks
  <2>2. CASE FromWorker(e)
    <3>1. SenderMarked(e) = IF sender[e] = "accepted" THEN MarkSent(row[e])
                            ELSE MarkFailed(row[e], next_retry_at(1, sender[e]))
      BY <2>2 DEF SenderMarked
    <3>2. row' = [row EXCEPT ![e] = IF sender[e] = "accepted" THEN MarkSent(row[e])
                            ELSE MarkFailed(row[e], next_retry_at(1, sender[e]))]
      BY <2>1, <3>1
    <3>3. Record(e, row[e].attempts + 1, sender[e])
      BY <1>1, <2>1, <2>2
    <3> QED
      BY <1>1, <2>1, <3>2, <3>3, CountedByMark
  <2>3. CASE ~FromWorker(e)
    <3>1. CASE e # d
      BY <1>0, <2>1, <3>1 DEF Record, TypeOK
    <3>2. CASE e = d
      <4>1. row'[d] = [row[d] EXCEPT !.status =
                          IF sender[d] = "accepted" THEN "sent" ELSE "failed"]
        BY <1>0, <2>1, <2>3, <3>2 DEF SenderMarked
      <4>2. row'[d].of = row[d].of /\ row'[d].status \in {"sent", "failed"}
        BY <1>0, <3>2, <4>1 DEF Row
      <4> QED
        BY <2>3, <3>2, <4>2 DEF Counted, FromWorker
    <3> QED
      BY <3>1, <3>2
  <2> QED
    BY <2>2, <2>3
<1> QED
  BY <1>2, <1>3, <1>4, <1>5 DEF SenderStep

LEMMA CountedByRetrier ==
  ASSUME TypeOK, Owned, MailsCounted, NEW d \in Deliveries, NEW r \in Retriers,
         RetrierSends(r) \/ RetrierMarks(r)
  PROVE  Counted(row'[d], mails'[d], misread'[d])
<1> DEFINE e == retrier[r].item[1]
           base == retrier[r].item[2]
<1>0. Counted(row[d], mails[d], misread[d])
  BY DEF MailsCounted
<1>1. retrier[r].item \in Claims /\ e \in Deliveries /\ base \in Nat
  BY DEF TypeOK, Claims
<1>2. retry_idempotency_key(base + 1) = base + 1
  BY <1>1 DEF retry_idempotency_key
<1>3. row[e].status = "queued" /\ row[e].attempts = base
  <2>1. Trying(r)
    BY DEF RetrierSends, RetrierMarks, Trying
  <2> QED
    BY <1>1, <2>1 DEF Owned, RetrierOwns, Held, Fresh
<1>4. CASE RetrierSends(r)
  <2>1. PICK o \in Outcomes :
          UNCHANGED mails \/ SendWithResend(e, retry_idempotency_key(base + 1), o)
    BY <1>4 DEF RetrierSends
  <2>2. UNCHANGED <<row, misread>>
    BY <1>4 DEF RetrierSends
  <2>3. CASE UNCHANGED mails
    BY <1>0, <2>2, <2>3
  <2>4. CASE SendWithResend(e, retry_idempotency_key(base + 1), o)
    <3>1. SendWithResend(e, row[e].attempts + 1, o)
      BY <1>2, <1>3, <2>4
    <3> HIDE DEF e, base
    <3> QED
      BY <1>1, <1>3, <2>2, <3>1, CountedBySend
  <2> QED
    BY <2>1, <2>3, <2>4
<1>5. CASE RetrierMarks(r)
  <2> DEFINE o == retrier[r].pc
             retry == next_retry_at(base + 1, o)
  <2>1. /\ o \in Outcomes /\ UNCHANGED mails
        /\ row' = [row EXCEPT ![e] = IF o = "accepted" THEN MarkSent(row[e])
                                                       ELSE MarkFailed(row[e], retry)]
        /\ Record(e, retry_idempotency_key(base + 1), o)
    BY <1>3, <1>5 DEF RetrierMarks
  <2>2. Record(e, row[e].attempts + 1, o)
    BY <1>2, <1>3, <2>1
  <2> HIDE DEF e, base, o, retry
  <2> QED
    BY <1>1, <1>3, <2>1, <2>2, CountedByMark
<1> QED
  BY <1>4, <1>5

LEMMA CountedAfterStep ==
  ASSUME TypeOK, Owned, MailsCounted, [Next]_vars, NEW d \in Deliveries
  PROVE  Counted(row'[d], mails'[d], misread'[d])
<1>0. /\ row \in [Deliveries -> Row] /\ row[d] \in Row /\ misread[d] \in Nat
      /\ Counted(row[d], mails[d], misread[d])
  BY DEF TypeOK, MailsCounted
<1>1. ASSUME NEW e \in Deliveries, NEW g \in Digests, NEW skip \in BOOLEAN,
             Insert(e, g, skip)
      PROVE  Counted(row'[d], mails'[d], misread'[d])
  <2>1. CASE e = d
    <3>1. row[d].attempts = 0 /\ mails'[d] = {} /\ misread'[d] = misread[d]
      BY <1>0, <1>1, <2>1 DEF Insert, Owned, Blank, Counted
    <3>2. row'[d] = [row[d] EXCEPT !.of = g, !.status = "queued"]
      BY <1>0, <1>1, <2>1 DEF Insert
    <3>3. row'[d].status = "queued" /\ row'[d].attempts = 0
      BY <1>0, <3>1, <3>2 DEF Row
    <3>4. Cardinality({}) = 0 /\ {} \ {row'[d].attempts + 1} = {}
      BY FS_EmptySet
    <3> QED
      BY <1>0, <3>1, <3>3, <3>4 DEF Counted
  <2>2. CASE e # d
    BY <1>0, <1>1, <2>2 DEF Insert
  <2> QED
    BY <2>1, <2>2
<1>2. ASSUME NEW e \in Deliveries, BecomeDue(e) \/ BecomeOld(e)
      PROVE  Counted(row'[d], mails'[d], misread'[d])
  <2>1. CASE BecomeDue(e)
    <3>1. /\ row'[d].of = row[d].of /\ row'[d].attempts = row[d].attempts
          /\ row'[d].status = row[d].status
      BY <1>0, <2>1 DEF BecomeDue, Row
    <3>2. mails' = mails /\ misread' = misread
      BY <2>1 DEF BecomeDue
    <3> QED
      BY <1>0, <3>1, <3>2 DEF Counted
  <2>2. CASE BecomeOld(e)
    <3>1. /\ row'[d].of = row[d].of /\ row'[d].attempts = row[d].attempts
          /\ row'[d].status = row[d].status
      BY <1>0, <2>2 DEF BecomeOld, Row
    <3>2. mails' = mails /\ misread' = misread
      BY <2>2 DEF BecomeOld
    <3> QED
      BY <1>0, <3>1, <3>2 DEF Counted
  <2> QED
    BY <1>2, <2>1, <2>2
<1>3. ASSUME NEW r \in Retriers, NEW S \in SUBSET Deliveries, Claim(r, S)
      PROVE  Counted(row'[d], mails'[d], misread'[d])
  <2>1. mails' = mails /\ misread' = misread
    BY <1>3 DEF Claim
  <2>2. CASE d \in S
    <3>1. Due(d) /\ row'[d] = [row[d] EXCEPT !.status = "queued", !.old = FALSE]
      BY <1>3, <2>2 DEF Claim
    <3>2. /\ row'[d].of = row[d].of /\ row'[d].attempts = row[d].attempts
          /\ row'[d].status = "queued"
      BY <1>0, <3>1 DEF Row
    <3>3. row[d].status \in {"failed", "queued"}
      BY <3>1 DEF Due
    <3> QED
      BY <1>0, <2>1, <3>2, <3>3 DEF Counted
  <2>3. CASE d \notin S
    <3>1. row'[d] = row[d]
      BY <1>3, <2>3 DEF Claim
    <3> QED
      BY <1>0, <2>1, <3>1
  <2> QED
    BY <2>2, <2>3
<1>4. CASE UNCHANGED <<row, mails, misread>>
  BY <1>0, <1>4
<1>5. ASSUME NEW r \in Retriers, RetrierStep(r) \/ RetrierCrashes(r) \/ RestartLoop(r)
      PROVE  Counted(row'[d], mails'[d], misread'[d])
  <2>1. RetrierSends(r) \/ RetrierMarks(r) \/ UNCHANGED <<row, mails, misread>>
    BY <1>5 DEF RetrierStep, TakeItem, BatchDone, RetrierCrashes, RestartLoop
  <2> QED
    BY <1>4, <2>1, CountedByRetrier
<1> QED
  BY <1>1, <1>2, <1>3, <1>4, <1>5, CountedBySender DEF Next, vars

\* Without stalls a digest of the worker is mailed a second time only after an
\* attempt was recorded as failed whose mail the provider had taken: crashes
\* between send and mark, lacking locks and any number of reclaims add none.
THEOREM WorkerMailsAreExplained == NoStall => (Spec => []WorkerMailsExplained)
<1> SUFFICES ASSUME NoStall
             PROVE  Spec => []WorkerMailsExplained
  OBVIOUS
<1>1. Init => MailsCounted
  <2> SUFFICES ASSUME Init, NEW d \in Deliveries
               PROVE  Counted(row[d], mails[d], misread[d])
    BY DEF MailsCounted
  <2>1. mails[d] = {} /\ misread[d] = 0 /\ row[d].of = "none"
    BY DEF Init
  <2> QED
    BY <2>1, KindsAssumption DEF Counted, Digests
<1>2. TypeOK /\ Owned /\ MailsCounted /\ [Next]_vars => MailsCounted'
  BY CountedAfterStep DEF MailsCounted
<1>3. MailsCounted => WorkerMailsExplained
  BY DEF MailsCounted, Counted, WorkerMailsExplained, MailsExplained, FromWorker
<1> QED
  BY <1>1, <1>2, <1>3, AlwaysOwned, TypeCorrect, PTL DEF Spec

-----------------------------------------------------------------------------
(***************************************************************************)
(* Delivery implements RetriedMail.                                        *)
(***************************************************************************)
\* Nothing is out for a row before its sender has sent.
Unmailed(d) ==
  /\ sender[d] = "none" => row[d].status = "absent"
  /\ row[d].status = "absent" \/ sender[d] \in {"skip", "send"} => mails[d] = {}

NothingMailed == \A d \in Deliveries : Unmailed(d)

LEMMA UnmailedAfterStep ==
  ASSUME TypeOK, Owned, NothingMailed, [Next]_vars, NEW d \in Deliveries
  PROVE  Unmailed(d)'
<1>0. row[d] \in Row /\ row \in [Deliveries -> Row] /\ Unmailed(d)
  BY DEF TypeOK, NothingMailed
<1>1. ASSUME NEW e \in Deliveries, NEW g \in Digests, NEW skip \in BOOLEAN,
             Insert(e, g, skip)
      PROVE  Unmailed(d)'
  <2>1. CASE e = d
    <3>1. sender'[d] \in {"skip", "send"} /\ mails'[d] = {}
      BY <1>0, <1>1, <2>1 DEF Insert, Unmailed, TypeOK
    <3> QED
      BY <3>1 DEF Unmailed
  <2>2. CASE e # d
    <3>1. row'[d] = row[d] /\ sender'[d] = sender[d] /\ mails' = mails
      BY <1>1, <2>2 DEF Insert, TypeOK
    <3> QED
      BY <1>0, <3>1 DEF Unmailed
  <2> QED
    BY <2>1, <2>2
<1>2. ASSUME NEW e \in Deliveries, SenderStep(e) \/ SenderCrashes(e)
      PROVE  Unmailed(d)'
  <2>1. CASE e = d
    <3>1. row[d].status = "queued" /\ sender'[d] \in {"gone"} \union Outcomes
      BY <1>2, <2>1 DEF SenderStep, SenderSkips, SenderSends, SenderMarks, SenderCrashes,
            TypeOK, Owned, SenderOwns, SenderActive, Fresh, Outcomes
    <3>2. row'[d].status # "absent"
      <4>1. RowChange(d)
        BY <1>2, <2>1, RowStep
      <4> QED
        BY <3>1, <4>1 DEF RowChange
    <3> QED
      BY <3>1, <3>2 DEF Unmailed, Outcomes
  <2>2. CASE e # d
    <3>1. row'[d] = row[d] /\ sender'[d] = sender[d] /\ mails'[d] = mails[d]
      BY <1>2, <2>2 DEF SenderStep, SenderSkips, SenderSends, SenderMarks, SenderCrashes,
            SendWithResend, TypeOK
    <3> QED
      BY <1>0, <3>1 DEF Unmailed
  <2> QED
    BY <2>1, <2>2
<1>3. ASSUME sender' = sender, mails'[d] = mails[d],
             row'[d].status = "absent" => row[d].status = "absent",
             row[d].status = "absent" => row'[d].status = "absent"
      PROVE  Unmailed(d)'
  BY <1>0, <1>3 DEF Unmailed
<1>4. ASSUME NEW e \in Deliveries, BecomeDue(e) \/ BecomeOld(e)
      PROVE  Unmailed(d)'
  <2>1. sender' = sender /\ mails' = mails /\ row'[d].status = row[d].status
    BY <1>0, <1>4 DEF BecomeDue, BecomeOld, Row
  <2> QED
    BY <1>3, <2>1
<1>5. ASSUME NEW r \in Retriers, NEW S \in SUBSET Deliveries, Claim(r, S)
      PROVE  Unmailed(d)'
  <2>1. sender' = sender /\ mails' = mails
    BY <1>5 DEF Claim
  <2>2. CASE d \in S
    <3>1. row[d].status \in {"failed", "queued"}
      BY <1>5, <2>2 DEF Claim, Due
    <3>2. row'[d].status = "queued"
      BY <1>0, <1>5, <2>2 DEF Claim, Row
    <3> QED
      BY <1>3, <2>1, <3>1, <3>2
  <2>3. CASE d \notin S
    <3>1. row'[d] = row[d]
      BY <1>5, <2>3 DEF Claim
    <3> QED
      BY <1>3, <2>1, <3>1
  <2> QED
    BY <2>2, <2>3
<1>6. ASSUME NEW r \in Retriers, RetrierSends(r)
      PROVE  Unmailed(d)'
  <2>1. retrier[r].item \in Claims /\ retrier[r].item[1] \in Deliveries /\ Trying(r)
    BY <1>6 DEF TypeOK, Claims, RetrierSends, Trying
  <2>2. row' = row /\ sender' = sender
    BY <1>6 DEF RetrierSends
  <2>3. CASE retrier[r].item[1] = d
    <3>1. row[d].status = "queued" /\ ~SenderActive(d)
      BY <2>1, <2>3 DEF Owned, RetrierOwns, Held, Fresh
    <3> QED
      BY <1>0, <2>2, <3>1 DEF Unmailed, SenderActive
  <2>4. CASE retrier[r].item[1] # d
    <3>1. mails'[d] = mails[d]
      BY <1>6, <2>1, <2>4 DEF RetrierSends, SendWithResend, TypeOK
    <3> QED
      BY <1>3, <2>2, <3>1
  <2> QED
    BY <2>3, <2>4
<1>7. ASSUME NEW r \in Retriers, RetrierMarks(r)
      PROVE  Unmailed(d)'
  <2>1. sender' = sender /\ mails' = mails
    BY <1>7 DEF RetrierMarks
  <2>2. row'[d] = row[d] \/ (row[d].status = "queued" /\ row'[d].status # "absent")
    <3>1. CASE row'[d] = row[d]
      BY <3>1
    <3>2. CASE row'[d] # row[d]
      <4>1. row[d].status = "queued"
        BY <1>7, <3>2 DEF RetrierMarks, TypeOK
      <4>2. RowChange(d)
        BY <1>7, RowStep
      <4> QED
        BY <4>1, <4>2 DEF RowChange
    <3> QED
      BY <3>1, <3>2
  <2> QED
    BY <1>3, <2>1, <2>2
<1>8. CASE UNCHANGED <<row, sender, mails>>
  BY <1>3, <1>8
<1>9. ASSUME NEW r \in Retriers, RetrierStep(r) \/ RetrierCrashes(r) \/ RestartLoop(r)
      PROVE  Unmailed(d)'
  <2>1. RetrierSends(r) \/ RetrierMarks(r) \/ UNCHANGED <<row, sender, mails>>
    BY <1>9 DEF RetrierStep, TakeItem, BatchDone, RetrierCrashes, RestartLoop
  <2> QED
    BY <1>6, <1>7, <1>8, <2>1
<1> QED
  BY <1>1, <1>2, <1>4, <1>5, <1>8, <1>9 DEF Next, vars

LEMMA AlwaysNothingMailed == NoStall => (Spec => []NothingMailed)
<1> SUFFICES ASSUME NoStall
             PROVE  Spec => []NothingMailed
  OBVIOUS
<1>1. Init => NothingMailed
  BY DEF Init, NothingMailed, Unmailed
<1>2. TypeOK /\ Owned /\ NothingMailed /\ [Next]_vars => NothingMailed'
  BY UnmailedAfterStep DEF NothingMailed
<1> QED
  BY <1>1, <1>2, AlwaysOwned, TypeCorrect, PTL DEF Spec

\* A step on one row, as RetriedMail sees it.
LEMMA OneRowMoves ==
  ASSUME NEW d \in Deliveries, \A e \in Deliveries : e # d => row'[e] = row[e]
  PROVE  /\ Announced' = [Announced EXCEPT ![d] = row'[d].of]
         /\ States' = [States EXCEPT ![d] = StateOf(row'[d])]
         /\ Tries' = [Tries EXCEPT ![d] = row'[d].attempts]
         /\ row'[d].of = row[d].of => Announced' = Announced
         /\ StateOf(row'[d]) = StateOf(row[d]) => States' = States
         /\ row'[d].attempts = row[d].attempts => Tries' = Tries
  BY DEF Announced, States, Tries, StateOf

LEMMA NoRowMoves ==
  ASSUME row' = row
  PROVE  UNCHANGED <<Announced, States, Tries>>
  BY DEF Announced, States, Tries, StateOf

LEMMA Views ==
  ASSUME TypeOK, NEW d \in Deliveries
  PROVE  /\ Announced[d] = row[d].of /\ States[d] = StateOf(row[d])
         /\ Tries[d] = row[d].attempts
         /\ Mailing!Live(d) <=> Blocking(d)
<1>1. Announced[d] = row[d].of /\ States[d] = StateOf(row[d]) /\ Tries[d] = row[d].attempts
  BY DEF Announced, States, Tries
<1>2. row[d].status \in Statuses
  BY DEF TypeOK, Row
<1>3. Mailing!Live(d) <=> Blocking(d)
  BY <1>1, <1>2 DEF Mailing!Live, Blocking, StateOf, Statuses
<1> QED
  BY <1>1, <1>3

LEMMA InsertAnnounces ==
  ASSUME TypeOK, NEW d \in Deliveries, NEW g \in Digests, NEW skip \in BOOLEAN,
         Insert(d, g, skip)
  PROVE  Mailing!Announce(d, g)
<1>1. row'[d] = [row[d] EXCEPT !.of = g, !.status = "queued"] /\ row[d] \in Row
  BY DEF Insert, TypeOK
<1>2. /\ row'[d].of = g /\ StateOf(row'[d]) = "queued"
      /\ row'[d].attempts = row[d].attempts
  BY <1>1 DEF Row, StateOf
<1>3. \A e \in Deliveries : e # d => row'[e] = row[e]
  BY DEF Insert
<1>4. \A e \in Deliveries : Announced[e] = g => ~Mailing!Live(e)
  BY Views DEF Insert
<1>5. States[d] = "absent"
  BY Views DEF Insert, StateOf
<1>6. mails' = mails
  BY DEF Insert
<1> QED
  BY <1>2, <1>3, <1>4, <1>5, <1>6, OneRowMoves DEF Mailing!Announce, Mailing!Move

LEMMA SkipSkips ==
  ASSUME TypeOK, Owned, NothingMailed, NEW d \in Deliveries, SenderSkips(d)
  PROVE  Mailing!Skip(d)
<1>1. row[d].status = "queued" /\ row[d].attempts = 0
  BY DEF SenderSkips, Owned, SenderOwns, SenderActive, Fresh
<1>2. mails[d] = {}
  BY DEF SenderSkips, NothingMailed, Unmailed
<1>3. /\ row'[d].of = row[d].of /\ row'[d].status = "skipped"
      /\ row'[d].attempts = row[d].attempts
  BY DEF SenderSkips, MarkDeliveryState, TypeOK
<1>4. \A e \in Deliveries : e # d => row'[e] = row[e]
  BY DEF SenderSkips, TypeOK
<1>5. StateOf(row[d]) = "queued" /\ StateOf(row'[d]) = "skipped" /\ mails' = mails
  BY <1>1, <1>3 DEF StateOf, SenderSkips
<1> QED
  BY <1>1, <1>2, <1>3, <1>4, <1>5, OneRowMoves, Views DEF Mailing!Skip, Mailing!Move

\* A call of the provider for a queued row, with a key that its next attempt may use.
LEMMA SendMails ==
  ASSUME TypeOK, NEW d \in Deliveries, row[d].status = "queued", row' = row,
         NEW key, NEW o, SendWithResend(d, key, o),
         \/ key = row[d].attempts + 1
         \/ key = 0 /\ row[d].attempts = 0 /\ row[d].of \notin WorkerDigests
  PROVE  Mailing!Mail(d) \/ UNCHANGED Mailing!mailVars
<1>1. UNCHANGED <<Announced, States, Tries>>
  BY NoRowMoves
<1>2. CASE mails' = mails
  BY <1>1, <1>2 DEF Mailing!mailVars
<1>3. CASE mails' = [mails EXCEPT ![d] = @ \union {key}]
  <2>1. key \in Mailing!Keys(d)
    BY Views DEF Mailing!Keys, Mailing!Untold
  <2>2. States[d] = "queued"
    BY Views DEF StateOf
  <2> QED
    BY <1>1, <1>3, <2>1, <2>2 DEF Mailing!Mail
<1> QED
  BY <1>2, <1>3 DEF SendWithResend

\* A mark of a queued row that counts the attempt.
LEMMA MarkAnswers ==
  ASSUME TypeOK, Left, NEW d \in Deliveries, row[d].status = "queued", mails' = mails,
         NEW o \in Outcomes, o = "accepted" => row[d].attempts + 1 \in mails[d],
         row' = [row EXCEPT ![d] =
                   IF o = "accepted" THEN MarkSent(row[d])
                   ELSE MarkFailed(row[d], next_retry_at(row[d].attempts + 1, o))]
  PROVE  Mailing!Sent(d) \/ Mailing!Failed(d)
<1> DEFINE retry == next_retry_at(row[d].attempts + 1, o)
<1>0. row[d] \in Row /\ row[d].attempts \in Nat /\ row[d].attempts < DELIVERY_MAX_ATTEMPTS
  BY DEF TypeOK, Row, Left, HasRoom
<1>1. row'[d] = IF o = "accepted" THEN MarkSent(row[d]) ELSE MarkFailed(row[d], retry)
  BY DEF TypeOK
<1>2. \A e \in Deliveries : e # d => row'[e] = row[e]
  BY DEF TypeOK
<1>3. States[d] = "queued" /\ Tries[d] = row[d].attempts
  BY Views DEF StateOf
<1>4. /\ row'[d].of = row[d].of /\ row'[d].attempts = row[d].attempts + 1
      /\ row'[d].status = IF o = "accepted" THEN "sent" ELSE "failed"
      /\ o # "accepted" => row'[d].retry = retry
  BY <1>1 DEF MarkSent, MarkFailed, MarkDeliveryState
<1>5. ASSUME NEW s, StateOf(row'[d]) = s
      PROVE  Mailing!Answer(d, s)
  BY <1>0, <1>2, <1>3, <1>4, <1>5, OneRowMoves DEF Mailing!Answer, Mailing!Move
<1>6. CASE o = "accepted"
  <2>1. StateOf(row'[d]) = "sent"
    BY <1>4, <1>6 DEF StateOf
  <2>2. mails[d] \intersect Mailing!Keys(d) # {}
    BY <1>3, <1>6 DEF Mailing!Keys
  <2> QED
    BY <1>5, <2>1, <2>2 DEF Mailing!Sent
<1>7. CASE o # "accepted" /\ retry = "null"
  <2>1. StateOf(row'[d]) = "given_up"
    BY <1>4, <1>7 DEF StateOf
  <2> QED
    BY <1>5, <2>1 DEF Mailing!Failed
<1>8. CASE o # "accepted" /\ retry # "null"
  <2>1. row[d].attempts + 1 < DELIVERY_MAX_ATTEMPTS
    BY <1>0, <1>8, MaxAttemptsAssumption DEF next_retry_at
  <2>2. StateOf(row'[d]) = "waiting"
    BY <1>4, <1>8 DEF StateOf
  <2> QED
    BY <1>3, <1>5, <2>1, <2>2 DEF Mailing!Failed
<1> QED
  BY <1>6, <1>7, <1>8

\* The mark of the API, that leaves the count and the retry time alone.
LEMMA ApiAnswers ==
  ASSUME TypeOK, Owned, Left, Accepted, QueuedIsReclaimable,
         NEW d \in Deliveries, SenderMarks(d), ~FromWorker(d)
  PROVE  Mailing!Sent(d) \/ Mailing!Failed(d)
<1>0. row[d] \in Row /\ row[d].status = "queued" /\ row[d].attempts = 0
  BY DEF TypeOK, SenderMarks, Owned, SenderOwns, SenderActive, Fresh, Outcomes
<1>1. row[d].retry = "null" /\ row[d].attempts < DELIVERY_MAX_ATTEMPTS
  BY <1>0 DEF QueuedIsReclaimable, Left, HasRoom
<1> DEFINE status == IF sender[d] = "accepted" THEN "sent" ELSE "failed"
<1>2. row'[d] = [row[d] EXCEPT !.status = status]
  BY DEF SenderMarks, SenderMarked, TypeOK
<1>3. /\ row'[d].of = row[d].of /\ row'[d].attempts = row[d].attempts
      /\ row'[d].retry = "null" /\ row'[d].status = status
  BY <1>0, <1>1, <1>2 DEF Row
<1>4. \A e \in Deliveries : e # d => row'[e] = row[e]
  BY DEF SenderMarks, TypeOK
<1>5. Mailing!Untold(d) /\ States[d] = "queued" /\ Tries[d] = 0
  BY <1>0, Views DEF Mailing!Untold, StateOf, FromWorker
<1>6. ASSUME NEW s, s # "waiting", StateOf(row'[d]) = s
      PROVE  Mailing!Answer(d, s)
  <2>1. mails' = mails
    BY DEF SenderMarks
  <2> QED
    BY <1>0, <1>1, <1>3, <1>4, <1>5, <1>6, <2>1, OneRowMoves
       DEF Mailing!Answer, Mailing!Move
<1>7. CASE sender[d] = "accepted"
  <2>1. 0 \in mails[d]
    BY <1>7 DEF Accepted, SenderKey, NoKey
  <2>2. 0 \in Mailing!Keys(d)
    BY <1>5 DEF Mailing!Keys
  <2>3. StateOf(row'[d]) = "sent"
    BY <1>3, <1>7 DEF StateOf
  <2> QED
    BY <1>6, <2>1, <2>2, <2>3 DEF Mailing!Sent
<1>8. CASE sender[d] # "accepted"
  <2>1. StateOf(row'[d]) = "given_up"
    BY <1>3, <1>8 DEF StateOf
  <2> QED
    BY <1>6, <2>1 DEF Mailing!Failed
<1> QED
  BY <1>7, <1>8

\* What the steps of a sender are to RetriedMail.
LEMMA SenderFollows ==
  ASSUME TypeOK, Owned, Left, Accepted, QueuedIsReclaimable, NothingMailed,
         NEW d \in Deliveries, SenderStep(d) \/ SenderCrashes(d)
  PROVE  [Mailing!Next]_(Mailing!mailVars)
<1>0. row[d].status = "queued" /\ row[d].attempts = 0
  BY DEF SenderStep, SenderSkips, SenderSends, SenderMarks, SenderCrashes, Owned,
         SenderOwns, SenderActive, Fresh, Outcomes
<1>1. CASE SenderSkips(d)
  BY <1>1, SkipSkips DEF Mailing!Next
<1>2. CASE SenderSends(d)
  <2>1. PICK o \in Outcomes : SendWithResend(d, IF FromWorker(d) THEN 1 ELSE NoKey, o)
    BY <1>2 DEF SenderSends
  <2>2. row' = row
    BY <1>2 DEF SenderSends
  <2>3. Mailing!Mail(d) \/ UNCHANGED Mailing!mailVars
    BY <1>0, <2>1, <2>2, SendMails DEF FromWorker, NoKey
  <2> QED
    BY <2>3 DEF Mailing!Next
<1>3. CASE SenderMarks(d)
  <2>1. CASE FromWorker(d)
    <3>1. sender[d] \in Outcomes /\ mails' = mails
      BY <1>3 DEF SenderMarks
    <3>2. row' = [row EXCEPT ![d] =
                    IF sender[d] = "accepted" THEN MarkSent(row[d])
                    ELSE MarkFailed(row[d], next_retry_at(row[d].attempts + 1, sender[d]))]
      BY <1>0, <1>3, <2>1 DEF SenderMarks, SenderMarked
    <3>3. sender[d] = "accepted" => row[d].attempts + 1 \in mails[d]
      BY <1>0, <2>1 DEF Accepted, SenderKey
    <3>4. Mailing!Sent(d) \/ Mailing!Failed(d)
      BY <1>0, <3>1, <3>2, <3>3, MarkAnswers
    <3> QED
      BY <3>4 DEF Mailing!Next
  <2>2. CASE ~FromWorker(d)
    BY <1>3, <2>2, ApiAnswers DEF Mailing!Next
  <2> QED
    BY <2>1, <2>2
<1>4. CASE SenderCrashes(d)
  BY <1>4, NoRowMoves DEF SenderCrashes, Mailing!mailVars
<1> QED
  BY <1>1, <1>2, <1>3, <1>4 DEF SenderStep

\* A batch that is claimed: the failed rows in it are queued, the others were.
LEMMA ClaimRetries ==
  ASSUME TypeOK, NEW r \in Retriers, NEW S \in SUBSET Deliveries, Claim(r, S)
  PROVE  Mailing!Retry({d \in S : row[d].status = "failed"})
<1> DEFINE failed == {d \in S : row[d].status = "failed"}
<1>1. mails' = mails
  BY DEF Claim
<1>2. ASSUME NEW d \in Deliveries
      PROVE  /\ row'[d].of = row[d].of /\ row'[d].attempts = row[d].attempts
             /\ d \in failed => StateOf(row[d]) = "waiting"
             /\ StateOf(row'[d]) = IF d \in failed THEN "queued" ELSE StateOf(row[d])
  <2>0. row[d] \in Row
    BY DEF TypeOK
  <2>1. CASE d \in S
    <3>1. row'[d] = [row[d] EXCEPT !.status = "queued", !.old = FALSE]
      BY <2>1 DEF Claim
    <3>2. /\ row'[d].of = row[d].of /\ row'[d].attempts = row[d].attempts
          /\ row'[d].status = "queued"
      BY <2>0, <3>1 DEF Row
    <3>3. \/ row[d].status = "failed" /\ row[d].retry = "due"
          \/ row[d].status = "queued"
      BY <2>1 DEF Claim, Due
    <3> QED
      BY <2>1, <3>2, <3>3 DEF StateOf
  <2>2. CASE d \notin S
    <3>1. row'[d] = row[d]
      BY <2>2 DEF Claim
    <3> QED
      BY <2>2, <3>1
  <2> QED
    BY <2>1, <2>2
<1>3. UNCHANGED <<Announced, Tries>>
  BY <1>2 DEF Announced, Tries
<1>4. States' = [d \in Deliveries |-> IF d \in failed THEN "queued" ELSE States[d]]
  BY <1>2 DEF States
<1>5. \A d \in failed : States[d] = "waiting"
  BY <1>2 DEF States
<1> HIDE DEF failed
<1>6. Mailing!Retry(failed)
  BY <1>1, <1>3, <1>4, <1>5 DEF Mailing!Retry
<1> QED
  BY <1>6 DEF failed

LEMMA RetrierFollows ==
  ASSUME TypeOK, Owned, Left, Accepted, NEW r \in Retriers,
         \/ \E S \in SUBSET Deliveries : Claim(r, S)
         \/ RetrierStep(r) \/ RetrierCrashes(r) \/ RestartLoop(r)
  PROVE  [Mailing!Next]_(Mailing!mailVars)
<1> DEFINE d == retrier[r].item[1]
           base == retrier[r].item[2]
<1>0. retrier[r].item \in Claims /\ d \in Deliveries /\ base \in Nat
  BY DEF TypeOK, Claims
<1>1. ASSUME Trying(r)
      PROVE  row[d].status = "queued" /\ row[d].attempts = base
  BY <1>0, <1>1 DEF Owned, RetrierOwns, Held, Fresh
<1>2. RetrierKey(r) = base + 1
  BY <1>0 DEF RetrierKey, retry_idempotency_key
<1>3. ASSUME NEW S \in SUBSET Deliveries, Claim(r, S)
      PROVE  Mailing!Next
  <2>1. {e \in S : row[e].status = "failed"} \in SUBSET Deliveries
    OBVIOUS
  <2> QED
    BY <1>3, <2>1, ClaimRetries DEF Mailing!Next
<1>4. CASE RetrierSends(r)
  <2>1. row' = row /\ Trying(r)
    BY <1>4 DEF RetrierSends, Trying
  <2>2. PICK o \in Outcomes :
          IF row[d].of \in Notices THEN o = "refused" /\ UNCHANGED mails
          ELSE SendWithResend(d, RetrierKey(r), o)
    BY <1>4 DEF RetrierSends, RetrierKey
  <2>3. CASE UNCHANGED mails
    BY <2>1, <2>3, NoRowMoves DEF Mailing!mailVars
  <2>4. CASE SendWithResend(d, RetrierKey(r), o)
    <3> HIDE DEF d, base
    <3>1. Mailing!Mail(d) \/ UNCHANGED Mailing!mailVars
      BY <1>0, <1>1, <1>2, <2>1, <2>4, SendMails
    <3> QED
      BY <1>0, <3>1 DEF Mailing!Next
  <2> QED
    BY <2>2, <2>3, <2>4
<1>5. CASE RetrierMarks(r)
  <2> DEFINE o == retrier[r].pc
  <2>1. Trying(r) /\ o \in Outcomes /\ mails' = mails
    BY <1>5 DEF RetrierMarks, Trying
  <2>2. row[d].status = "queued" /\ row[d].attempts = base
    BY <1>1, <2>1
  <2>3. row' = [row EXCEPT ![d] =
                  IF o = "accepted" THEN MarkSent(row[d])
                  ELSE MarkFailed(row[d], next_retry_at(row[d].attempts + 1, o))]
    BY <1>5, <2>2 DEF RetrierMarks
  <2>4. o = "accepted" => row[d].attempts + 1 \in mails[d]
    BY <1>2, <2>2 DEF Accepted
  <2> HIDE DEF d, base, o
  <2>5. Mailing!Sent(d) \/ Mailing!Failed(d)
    BY <1>0, <2>1, <2>2, <2>3, <2>4, MarkAnswers
  <2> QED
    BY <1>0, <2>5 DEF Mailing!Next
<1>6. CASE UNCHANGED <<row, mails>>
  BY <1>6, NoRowMoves DEF Mailing!mailVars
<1>7. ASSUME RetrierStep(r) \/ RetrierCrashes(r) \/ RestartLoop(r)
      PROVE  RetrierSends(r) \/ RetrierMarks(r) \/ UNCHANGED <<row, mails>>
  BY <1>7 DEF RetrierStep, TakeItem, BatchDone, RetrierCrashes, RestartLoop
<1> QED
  BY <1>3, <1>4, <1>5, <1>6, <1>7

\* RetriedMail sees no time pass.
LEMMA TimeFollows ==
  ASSUME TypeOK, NEW d \in Deliveries, BecomeDue(d) \/ BecomeOld(d)
  PROVE  UNCHANGED Mailing!mailVars
<1>0. row[d] \in Row
  BY DEF TypeOK
<1>1. /\ row'[d].of = row[d].of /\ row'[d].attempts = row[d].attempts
      /\ StateOf(row'[d]) = StateOf(row[d])
  <2>1. CASE BecomeDue(d)
    <3>1. row'[d] = [row[d] EXCEPT !.retry = "due"] /\ row[d].retry = "waiting"
      BY <2>1 DEF BecomeDue, TypeOK
    <3>2. /\ row'[d].of = row[d].of /\ row'[d].attempts = row[d].attempts
          /\ row'[d].status = row[d].status /\ row'[d].retry = "due"
      BY <1>0, <3>1 DEF Row
    <3> QED
      BY <3>1, <3>2 DEF StateOf
  <2>2. CASE BecomeOld(d)
    <3>1. row'[d] = [row[d] EXCEPT !.old = TRUE]
      BY <2>2 DEF BecomeOld, TypeOK
    <3>2. /\ row'[d].of = row[d].of /\ row'[d].attempts = row[d].attempts
          /\ row'[d].status = row[d].status /\ row'[d].retry = row[d].retry
      BY <1>0, <3>1 DEF Row
    <3> QED
      BY <3>2 DEF StateOf
  <2> QED
    BY <2>1, <2>2
<1>2. mails' = mails /\ \A e \in Deliveries : e # d => row'[e] = row[e]
  BY DEF BecomeDue, BecomeOld, TypeOK
<1> QED
  BY <1>1, <1>2, OneRowMoves DEF Mailing!mailVars

\* Without stalls the rows do no more than RetriedMail: one attempt at a time, each
\* with the key of its number and one answer, up to the limit; sent only for the mail
\* of the attempt that is answered, skipped only when nothing was mailed, and announced
\* again only when given up.
THEOREM RowsFollowRetriedMail == NoStall => (Spec => FollowsRetriedMail)
<1> SUFFICES ASSUME NoStall
             PROVE  Spec => FollowsRetriedMail
  OBVIOUS
<1>1. Init => Mailing!Init
  BY DEF Init, Mailing!Init, Announced, States, Tries, StateOf
<1>2. /\ TypeOK /\ Owned /\ Left /\ Accepted /\ QueuedIsReclaimable /\ NothingMailed
      /\ [Next]_vars
      => [Mailing!Next]_(Mailing!mailVars)
  <2> SUFFICES ASSUME TypeOK, Owned, Left, Accepted, QueuedIsReclaimable, NothingMailed,
                      [Next]_vars
               PROVE  [Mailing!Next]_(Mailing!mailVars)
    OBVIOUS
  <2>1. ASSUME NEW d \in Deliveries, NEW g \in Digests, NEW skip \in BOOLEAN,
               Insert(d, g, skip)
        PROVE  Mailing!Next
    BY <2>1, InsertAnnounces DEF Mailing!Next
  <2>2. CASE UNCHANGED vars
    BY <2>2, NoRowMoves DEF vars, Mailing!mailVars
  <2> QED
    BY <2>1, <2>2, SenderFollows, RetrierFollows, TimeFollows DEF Next
<1> QED
  BY <1>1, <1>2, TypeCorrect, AlwaysOwned, AlwaysLeft, AlwaysAccepted, AlwaysNothingMailed,
     QueuedRowsAreReclaimable, PTL DEF Spec, FollowsRetriedMail, Mailing!Spec
=============================================================================
