---------------------------- MODULE RetriedMail -----------------------------
(***************************************************************************)
(* What whoever announces a digest may rely on: its row is a queue of one, *)
(* worked on by nobody in particular.  It is tried one attempt at a time,  *)
(* each under an idempotency key of its own, and every attempt has one     *)
(* answer: the row is sent, waits for the next attempt while there is one, *)
(* or is given up.  Senders, retriers, claims, locks and the age of a row  *)
(* are not in sight, nor is a crash.                                       *)
(***************************************************************************)
EXTENDS Naturals

CONSTANTS
    Rows, Digests,
    Keyed,      \* digests whose first attempt too has a key and is counted
    MaxTries

VARIABLES
    of,         \* what a row announces
    state,
    tries,      \* attempts answered and counted
    mails       \* keys under which a mail of the row went out; 0: without

mailVars == <<of, state, tries, mails>>

Init ==
    /\ of = [i \in Rows |-> "none"] /\ state = [i \in Rows |-> "absent"]
    /\ tries = [i \in Rows |-> 0] /\ mails = [i \in Rows |-> {}]

Live(i) == state[i] \in {"queued", "waiting", "sent", "skipped"}

Move(i, s) == state' = [state EXCEPT ![i] = s]

Announce(i, g) ==
    /\ state[i] = "absent"
    /\ \A j \in Rows : of[j] = g => ~Live(j)
    /\ of' = [of EXCEPT ![i] = g]
    /\ Move(i, "queued")
    /\ UNCHANGED <<tries, mails>>

\* The next attempt at row i may be one without a key that nobody counts.
Untold(i) == of[i] \notin Keyed /\ tries[i] = 0

Keys(i) == {tries[i] + 1} \union {k \in {0} : Untold(i)}

Mail(i) ==
    /\ state[i] = "queued"
    /\ \E k \in Keys(i) : mails' = [mails EXCEPT ![i] = @ \union {k}]
    /\ UNCHANGED <<of, state, tries>>

Skip(i) ==
    /\ state[i] = "queued" /\ tries[i] = 0 /\ mails[i] = {}
    /\ Move(i, "skipped")
    /\ UNCHANGED <<of, tries, mails>>

Answer(i, s) ==
    /\ state[i] = "queued" /\ tries[i] < MaxTries
    /\ Move(i, s)
    /\ \/ tries' = [tries EXCEPT ![i] = @ + 1]
       \/ Untold(i) /\ s # "waiting" /\ UNCHANGED tries
    /\ UNCHANGED <<of, mails>>

\* A mail of this attempt has gone out.
Sent(i) == mails[i] \intersect Keys(i) # {} /\ Answer(i, "sent")

Failed(i) ==
    \/ tries[i] + 1 < MaxTries /\ Answer(i, "waiting")
    \/ Answer(i, "given_up")

\* Rows are taken up in batches.
Retry(S) ==
    /\ \A i \in S : state[i] = "waiting"
    /\ state' = [i \in Rows |-> IF i \in S THEN "queued" ELSE state[i]]
    /\ UNCHANGED <<of, tries, mails>>

Next ==
    \/ \E i \in Rows, g \in Digests : Announce(i, g)
    \/ \E i \in Rows : Mail(i) \/ Skip(i) \/ Sent(i) \/ Failed(i)
    \/ \E S \in SUBSET Rows : Retry(S)

Spec == Init /\ [][Next]_mailVars
=============================================================================
