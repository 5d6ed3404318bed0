------------------------------ MODULE Delivery ------------------------------
(***************************************************************************)
(* The rows of `notification_deliveries` and the processes that mail them: *)
(* the sender that inserts a row (a digest activity of the worker, or an   *)
(* endpoint of the API) and the retry activities that claim due rows.      *)
(* They meet only in the row, in an advisory lock per row that retriers    *)
(* alone take, and at the mail provider.                                   *)
(*                                                                         *)
(* A digest is what a row announces.  The worker's digests are those of a  *)
(* video (its job_id is UNIQUE among video digests) and of a day; the API  *)
(* mails its own (a daily report, a category) and test mails (`Notices`).  *)
(***************************************************************************)
EXTENDS Naturals, FiniteSets

CONSTANTS
    Deliveries,    \* ids of rows
    VideoDigests, DailyDigests, ApiDigests, Notices,
    Retriers,      \* NotificationRetryWorkflows: the resident one, or run_once
    ClaimLimit,    \* rows one retry activity may claim (retry_batch_limit)
    DELIVERY_MAX_ATTEMPTS,
    Faults         \* the faults this environment shows, a subset of AllFaults

(***************************************************************************)
(* sender_crash   a sender ends between two steps, or a statement fails    *)
(* retrier_crash  an activity of a retry workflow fails or times out       *)
(* send_error     the provider refuses a mail, or is not reached           *)
(* lost_reply     the provider takes a mail and its answer is lost         *)
(* no_lock        no connection for the advisory lock: it is done without  *)
(* stall          a sender or retrier outlives the claim timeout of a row  *)
(***************************************************************************)
AllFaults == {"sender_crash", "retrier_crash", "send_error", "lost_reply",
              "no_lock", "stall"}

WorkerDigests == VideoDigests \union DailyDigests
Digests == WorkerDigests \union ApiDigests \union Notices

ASSUME FaultsAssumption == Faults \subseteq AllFaults
ASSUME ClaimLimitAssumption == ClaimLimit \in Nat \ {0}
ASSUME MaxAttemptsAssumption == DELIVERY_MAX_ATTEMPTS \in Nat \ {0}
ASSUME KindsAssumption ==
    /\ WorkerDigests \intersect (ApiDigests \union Notices) = {}
    /\ VideoDigests \intersect DailyDigests = {}
    /\ "none" \notin Digests

VARIABLES
    row,      \* each delivery: its digest, status, attempt_count, next_retry_at, age
    sender,   \* where the process that inserted the row is with it
    retrier,  \* what each retry workflow is doing with which claimed rows
    locks,    \* advisory locks held: <<delivery, retrier>>
    mails,    \* idempotency keys under which the provider took the row's mail
    misread   \* attempts counted as failed whose mail the provider had taken

vars == <<row, sender, retrier, locks, mails, misread>>

-----------------------------------------------------------------------------
Statuses == {"absent", "queued", "sent", "failed", "skipped"}

\* next_retry_at: NULL, in the future, or past.  `old`: updated_at is older
\* than the claim timeout.
Row == [of : Digests \union {"none"}, status : Statuses, attempts : Nat,
        retry : {"null", "waiting", "due"}, old : BOOLEAN]

Outcomes == {"accepted", "refused", "rejected"}
SenderPcs == {"none", "skip", "send", "gone"} \union Outcomes
RetrierPcs == {"idle", "next", "send", "dead"} \union Outcomes
Claims == Deliveries \X Nat

TypeOK ==
    /\ row \in [Deliveries -> Row]
    /\ sender \in [Deliveries -> SenderPcs]
    /\ retrier \in [Retriers -> [pc : RetrierPcs, batch : SUBSET Claims, item : Claims]]
    /\ locks \subseteq Deliveries \X Retriers
    /\ mails \in [Deliveries -> SUBSET Nat]
    /\ misread \in [Deliveries -> Nat]

Init ==
    /\ row = [d \in Deliveries |-> [of |-> "none", status |-> "absent", attempts |-> 0,
                                    retry |-> "null", old |-> FALSE]]
    /\ sender = [d \in Deliveries |-> "none"]
    /\ \E d0 \in Deliveries :
          retrier = [r \in Retriers |-> [pc |-> "idle", batch |-> {}, item |-> <<d0, 0>>]]
    /\ locks = {}
    /\ mails = [d \in Deliveries |-> {}]
    /\ misread = [d \in Deliveries |-> 0]

-----------------------------------------------------------------------------
(***************************************************************************)
(* The provider.  It takes mails with the same Idempotency-Key for one and *)
(* mails without a key for as many as they are.  The key of the initial    *)
(* send is that of attempt 1; 0 stands for the one keyless mail that the   *)
(* API sends for a row.                                                    *)
(***************************************************************************)
NoKey == 0

\* Mutant: the first reclaim has a key of its own.
retry_idempotency_key_Unaligned(next_attempt) == next_attempt + 1

retry_idempotency_key(next_attempt) == IF next_attempt <= 1 THEN 1 ELSE next_attempt

\* One call of send_with_resend for d and how it ends for the caller: accepted,
\* a RuntimeError that may pass ("refused"), or one of auth or configuration.
SendWithResend(d, key, outcome) ==
    \/ /\ outcome = "accepted" \/ (outcome = "refused" /\ "lost_reply" \in Faults)
       /\ mails' = [mails EXCEPT ![d] = @ \union {key}]
    \/ /\ outcome \in {"refused", "rejected"} /\ "send_error" \in Faults
       /\ UNCHANGED mails

\* Mutant: the last attempt is followed by one more.
next_retry_at_OffByOne(attempt, outcome) ==
    IF outcome = "rejected" \/ attempt > DELIVERY_MAX_ATTEMPTS THEN "null" ELSE "waiting"

\* resolve_next_retry_at
next_retry_at(attempt, outcome) ==
    IF outcome = "rejected" \/ attempt >= DELIVERY_MAX_ATTEMPTS THEN "null" ELSE "waiting"

\* _mark_delivery_state.  `updated_at` is not written.
MarkDeliveryState(rec, status, attempts, retry) ==
    [of |-> rec.of, status |-> status, attempts |-> attempts, retry |-> retry,
     old |-> rec.old]

\* Mutants: the attempt is not counted; a status the column does not have.
MarkFailed_Uncounted(rec, retry) == MarkDeliveryState(rec, "failed", rec.attempts, retry)
MarkFailed_Retrying(rec, retry) ==
    MarkDeliveryState(rec, "retrying", rec.attempts + 1, retry)

\* With record_attempt.
MarkSent(rec) == MarkDeliveryState(rec, "sent", rec.attempts + 1, "null")
MarkFailed(rec, retry) == MarkDeliveryState(rec, "failed", rec.attempts + 1, retry)

\* An attempt is recorded; `misread` keeps count of what that got wrong.
Record(d, key, outcome) ==
    misread' = IF outcome # "accepted" /\ key \in mails[d]
                 THEN [misread EXCEPT ![d] = @ + 1] ELSE misread

-----------------------------------------------------------------------------
(***************************************************************************)
(* The sender: insert and commit, then mark skipped, or send and mark.     *)
(* Its marks name the row by id alone.                                     *)
(***************************************************************************)
FromWorker(d) == row[d].of \in WorkerDigests

\* A row that keeps a second one of its digest from being inserted.
Blocking(d) ==
    \/ row[d].status \in {"queued", "sent", "skipped"}
    \/ row[d].status = "failed" /\ row[d].retry # "null"

\* Mutant: a failed row that will be retried does not count as existing.
Insert_Twice(d, g, skip) ==
    /\ row[d].status = "absent"
    /\ \A e \in Deliveries :
          row[e].of = g => row[e].status \notin {"queued", "sent", "skipped"}
    /\ row' = [row EXCEPT ![d] = [@ EXCEPT !.of = g, !.status = "queued"]]
    /\ sender' = [sender EXCEPT ![d] = IF skip THEN "skip" ELSE "send"]
    /\ UNCHANGED <<retrier, locks, mails, misread>>

\* The insert of a digest g.  A day gets a new row when its old one is given
\* up; for a video the unique index on job_id refuses one, for the API that on
\* (kind, dispatch_key), or each call is a digest of its own.
Insert(d, g, skip) ==
    /\ row[d].status = "absent"
    /\ \A e \in Deliveries :
          row[e].of = g => g \in DailyDigests /\ ~Blocking(e)
    /\ row' = [row EXCEPT ![d] = [@ EXCEPT !.of = g, !.status = "queued"]]
    /\ sender' = [sender EXCEPT ![d] = IF skip THEN "skip" ELSE "send"]
    /\ UNCHANGED <<retrier, locks, mails, misread>>

\* A skip_reason was found before the insert; the row is marked after it.
SenderSkips(d) ==
    /\ sender[d] = "skip"
    /\ row' = [row EXCEPT ![d] =
                 MarkDeliveryState(row[d], "skipped", row[d].attempts,
                                   IF FromWorker(d) THEN "null" ELSE row[d].retry)]
    /\ sender' = [sender EXCEPT ![d] = "gone"]
    /\ UNCHANGED <<retrier, locks, mails, misread>>

\* The API passes no idempotency key.
SenderSends(d) ==
    /\ sender[d] = "send"
    /\ \E outcome \in Outcomes :
          /\ SendWithResend(d, IF FromWorker(d) THEN 1 ELSE NoKey, outcome)
          /\ sender' = [sender EXCEPT ![d] = outcome]
    /\ UNCHANGED <<row, retrier, locks, misread>>

\* Mutant: the outcome of the send is not looked at.
SenderMarked_Unchecked(d) == MarkSent(row[d])

\* The worker counts the attempt and schedules the next from the count it read
\* at the insert, 0.  The API sets the status and leaves the retry columns.
SenderMarked(d) ==
    IF FromWorker(d)
      THEN IF sender[d] = "accepted" THEN MarkSent(row[d])
           ELSE MarkFailed(row[d], next_retry_at(1, sender[d]))
      ELSE [row[d] EXCEPT !.status = IF sender[d] = "accepted" THEN "sent" ELSE "failed"]

SenderMarks(d) ==
    /\ sender[d] \in Outcomes
    /\ row' = [row EXCEPT ![d] = SenderMarked(d)]
    /\ Record(d, IF FromWorker(d) THEN 1 ELSE NoKey, sender[d])
    /\ sender' = [sender EXCEPT ![d] = "gone"]
    /\ UNCHANGED <<retrier, locks, mails>>

SenderActive(d) == sender[d] \notin {"none", "gone"}

SenderCrashes(d) ==
    /\ "sender_crash" \in Faults
    /\ SenderActive(d)
    /\ sender' = [sender EXCEPT ![d] = "gone"]
    /\ UNCHANGED <<row, retrier, locks, mails, misread>>

-----------------------------------------------------------------------------
(***************************************************************************)
(* The retry activity: claim a batch in one transaction, then take its     *)
(* rows one by one under their advisory lock.  Marks are compare-and-set   *)
(* on the status and the attempt count that was claimed.                   *)
(***************************************************************************)
\* Mutants: "next_retry_at IS NOT NULL" is dropped; queued rows are reclaimed
\* as docs/reference/cache.md says.
Due_NullRetry(d) == row[d].status = "failed" /\ row[d].retry # "waiting"
Due_Documented(d) ==
    /\ row[d].retry = "due"
    /\ \/ row[d].status = "failed"
       \/ row[d].status = "queued" /\ row[d].old /\ row[d].attempts > 0

Due(d) ==
    \/ row[d].status = "failed" /\ row[d].retry = "due"
    \/ /\ row[d].status = "queued" /\ row[d].old
       /\ \/ row[d].retry = "due" /\ row[d].attempts > 0
          \/ row[d].retry = "null" /\ row[d].attempts = 0

\* Mutant: the claim does not renew updated_at.
Claim_Aged(r, S) ==
    /\ retrier[r].pc = "idle"
    /\ S # {} /\ Cardinality(S) <= ClaimLimit
    /\ \A d \in S : Due(d)
    /\ row' = [d \in Deliveries |->
                 IF d \in S THEN [row[d] EXCEPT !.status = "queued"] ELSE row[d]]
    /\ retrier' = [retrier EXCEPT ![r].pc = "next",
                                  ![r].batch = {<<d, row[d].attempts>> : d \in S}]
    /\ UNCHANGED <<sender, locks, mails, misread>>

Claim(r, S) ==
    /\ retrier[r].pc = "idle"
    /\ S # {} /\ Cardinality(S) <= ClaimLimit
    /\ \A d \in S : Due(d)
    /\ row' = [d \in Deliveries |->
                 IF d \in S THEN [row[d] EXCEPT !.status = "queued", !.old = FALSE]
                            ELSE row[d]]
    /\ retrier' = [retrier EXCEPT ![r].pc = "next",
                                  ![r].batch = {<<d, row[d].attempts>> : d \in S}]
    /\ UNCHANGED <<sender, locks, mails, misread>>

\* Mutant: the lease is not looked at, and a busy row is tried all the same.
TakeItem_Unleased(r, claim) ==
    /\ retrier[r].pc = "next" /\ claim \in retrier[r].batch
    /\ retrier' = [retrier EXCEPT ![r] = [pc |-> "send", item |-> claim,
                                         batch |-> retrier[r].batch \ {claim}]]
    /\ UNCHANGED <<row, sender, locks, mails, misread>>

\* try_acquire_advisory_lock: taken, or busy and the row is passed over; when
\* there is no connection for it the row is tried without.
TakeItem(r, claim) ==
    /\ retrier[r].pc = "next" /\ claim \in retrier[r].batch
    /\ LET d == claim[1]
           busy == \E q \in Retriers : <<d, q>> \in locks
           left == retrier[r].batch \ {claim}
           take == [pc |-> "send", batch |-> left, item |-> claim]
       IN  \/ /\ ~busy
              /\ locks' = locks \union {<<d, r>>}
              /\ retrier' = [retrier EXCEPT ![r] = take]
           \/ /\ busy
              /\ retrier' = [retrier EXCEPT ![r].batch = left]
              /\ UNCHANGED locks
           \/ /\ "no_lock" \in Faults
              /\ retrier' = [retrier EXCEPT ![r] = take]
              /\ UNCHANGED locks
    /\ UNCHANGED <<row, sender, mails, misread>>

\* The body is built again and sent; a test mail is of an unsupported kind.
RetrierSends(r) ==
    /\ retrier[r].pc = "send"
    /\ LET d == retrier[r].item[1]
           next_attempt == retrier[r].item[2] + 1
       IN  \E outcome \in Outcomes :
              /\ IF row[d].of \in Notices
                   THEN outcome = "refused" /\ UNCHANGED mails
                   ELSE SendWithResend(d, retry_idempotency_key(next_attempt), outcome)
              /\ retrier' = [retrier EXCEPT ![r].pc = outcome]
    /\ UNCHANGED <<row, sender, locks, misread>>

Unlock(r) == locks' = {l \in locks : l[2] # r}

RetrierMarks(r) ==
    /\ retrier[r].pc \in Outcomes
    /\ LET d == retrier[r].item[1]
           base == retrier[r].item[2]
           outcome == retrier[r].pc
       IN  IF row[d].status = "queued" /\ row[d].attempts = base
             THEN /\ row' = [row EXCEPT ![d] =
                               IF outcome = "accepted" THEN MarkSent(row[d])
                               ELSE MarkFailed(row[d], next_retry_at(base + 1, outcome))]
                  /\ Record(d, retry_idempotency_key(base + 1), outcome)
             ELSE UNCHANGED <<row, misread>>
    /\ retrier' = [retrier EXCEPT ![r].pc = "next"]
    /\ Unlock(r)
    /\ UNCHANGED <<sender, mails>>

BatchDone(r) ==
    /\ retrier[r].pc = "next" /\ retrier[r].batch = {}
    /\ retrier' = [retrier EXCEPT ![r].pc = "idle"]
    /\ UNCHANGED <<row, sender, locks, mails, misread>>

\* The loop of NotificationRetryWorkflow awaits its activities outside any try,
\* with one attempt each: what fails one of them ends the loop.
RetrierCrashes(r) ==
    /\ "retrier_crash" \in Faults
    /\ retrier[r].pc # "dead"
    /\ retrier' = [retrier EXCEPT ![r].pc = "dead", ![r].batch = {}]
    /\ Unlock(r)
    /\ UNCHANGED <<row, sender, mails, misread>>

\* An operator starts the workflow again.
RestartLoop(r) ==
    /\ retrier[r].pc = "dead"
    /\ retrier' = [retrier EXCEPT ![r].pc = "idle"]
    /\ UNCHANGED <<row, sender, locks, mails, misread>>

-----------------------------------------------------------------------------
(***************************************************************************)
(* Time.                                                                   *)
(***************************************************************************)
\* The backoff of a failed row is over.
BecomeDue(d) ==
    /\ row[d].status = "failed" /\ row[d].retry = "waiting"
    /\ row' = [row EXCEPT ![d].retry = "due"]
    /\ UNCHANGED <<sender, retrier, locks, mails, misread>>

InProgress(d) ==
    \/ SenderActive(d)
    \/ \E r \in Retriers :
          \/ \E claim \in retrier[r].batch : claim[1] = d
          \/ retrier[r].pc \in {"send"} \union Outcomes /\ retrier[r].item[1] = d

\* DELIVERY_RETRY_CLAIM_TIMEOUT_MINUTES pass.  A sender is done in seconds and a
\* retry activity is given five minutes: neither is seen to take longer, unless
\* it stalls.
BecomeOld(d) ==
    /\ row[d].status = "queued" /\ ~row[d].old
    /\ InProgress(d) => "stall" \in Faults
    /\ row' = [row EXCEPT ![d].old = TRUE]
    /\ UNCHANGED <<sender, retrier, locks, mails, misread>>

-----------------------------------------------------------------------------
SenderStep(d) == SenderSkips(d) \/ SenderSends(d) \/ SenderMarks(d)

RetrierStep(r) ==
    \/ \E claim \in retrier[r].batch : TakeItem(r, claim)
    \/ RetrierSends(r) \/ RetrierMarks(r) \/ BatchDone(r)

Next ==
    \/ \E d \in Deliveries, g \in Digests, skip \in BOOLEAN : Insert(d, g, skip)
    \/ \E d \in Deliveries : SenderStep(d) \/ SenderCrashes(d) \/ BecomeDue(d) \/ BecomeOld(d)
    \/ \E r \in Retriers, S \in SUBSET Deliveries : Claim(r, S)
    \/ \E r \in Retriers : RetrierStep(r) \/ RetrierCrashes(r) \/ RestartLoop(r)

Spec == Init /\ [][Next]_vars

(***************************************************************************)
(* Senders and retry activities run to their end, time passes, and a loop  *)
(* that is alive claims each due row in its turn (ORDER BY next_retry_at). *)
(* Nobody has to start a dead loop again.                                  *)
(***************************************************************************)
Fairness ==
    /\ \A d \in Deliveries :
          WF_vars(SenderStep(d)) /\ WF_vars(BecomeDue(d)) /\ WF_vars(BecomeOld(d))
    /\ \A r \in Retriers :
          /\ WF_vars(RetrierStep(r))
          /\ \A d \in Deliveries :
                SF_vars(\E S \in SUBSET Deliveries : d \in S /\ Claim(r, S))

FairSpec == Spec /\ Fairness

-----------------------------------------------------------------------------
(***************************************************************************)
(* Properties                                                              *)
(***************************************************************************)
\* Every queued row meets the claim condition once it is old: however its last
\* process ended, it is in one of the two shapes the claim looks for, never
\* counted without a retry time or the other way round.
QueuedIsReclaimable ==
    \A d \in Deliveries : row[d].status = "queued" =>
        (row[d].attempts = 0) <=> (row[d].retry = "null")

\* A delivery is tried DELIVERY_MAX_ATTEMPTS times at most, the initial send,
\* reclaims after crashes and concurrent retriers included.
AttemptBound ==
    \A d \in Deliveries : row[d].attempts <= DELIVERY_MAX_ATTEMPTS

\* Two rows of one digest are never both alive: the day's second row is
\* inserted only when nothing will send the first.
OneLivePerDigest ==
    \A d, e \in Deliveries :
        d # e /\ row[d].of = row[e].of /\ Blocking(d) /\ Blocking(e) => row[d].of = "none"

Settled(d) ==
    \/ row[d].status \in {"sent", "skipped"}
    \/ row[d].status = "failed" /\ row[d].retry = "null"

\* A row that is sent, skipped or given up is never written again.
SettledIsFinal ==
    [][\A d \in Deliveries : Settled(d) => row'[d] = row[d]]_vars

\* Nothing is mailed for a row that is not queued: no process sends on a claim
\* that another has meanwhile answered for.
MailsOnlyWhileQueued ==
    [][\A d \in Deliveries : mails'[d] # mails[d] => row[d].status = "queued"]_vars

\* A row is mailed twice only if an attempt was recorded as failed although the
\* provider had taken its mail.
MailsExplained(d) == Cardinality(mails[d]) <= 1 + misread[d]

\* So it is for the worker's rows, crashes between send and mark included: a
\* reclaim repeats the idempotency key of the attempt it repeats.
WorkerMailsExplained ==
    \A d \in Deliveries : FromWorker(d) => MailsExplained(d)

\* "Keep first-attempt reclaim aligned with initial send idempotency key",
\* for every row that retry activities reclaim.
AllMailsExplained == \A d \in Deliveries : MailsExplained(d)

\* No two retriers are between taking a row and marking it: the fresh claim
\* or the advisory lock, each of them alone, keeps them apart.
NoConcurrentRetry ==
    \A q, r \in Retriers :
        /\ q # r
        /\ retrier[q].pc \in {"send"} \union Outcomes
        /\ retrier[r].pc \in {"send"} \union Outcomes
        => retrier[q].item[1] # retrier[r].item[1]

\* A row says sent only if the provider has taken a mail of it.
SentHasMail == \A d \in Deliveries : row[d].status = "sent" => mails[d] # {}

\* Where a row stands, for those who announce digests: failed is waiting or given up.
StateOf(rec) ==
    IF rec.status # "failed" THEN rec.status
    ELSE IF rec.retry = "null" THEN "given_up" ELSE "waiting"

Announced == [d \in Deliveries |-> row[d].of]
States == [d \in Deliveries |-> StateOf(row[d])]
Tries == [d \in Deliveries |-> row[d].attempts]

Mailing == INSTANCE RetriedMail WITH
    Rows <- Deliveries, Keyed <- WorkerDigests, MaxTries <- DELIVERY_MAX_ATTEMPTS,
    of <- Announced, state <- States, tries <- Tries

\* Senders that mark rows by id alone, retriers with claims and locks, crashes
\* and reclaims together do no more than try each row one attempt at a time:
\* the rows implement RetriedMail.
FollowsRetriedMail == Mailing!Spec

\* docs/state-machine.md: failed deliveries are scanned and retried until they
\* are sent or given up; queued ones are recovered.
DeliverySettles ==
    \A d \in Deliveries : row[d].status # "absent" ~> Settled(d)
=============================================================================
