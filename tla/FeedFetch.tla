----------------------------- MODULE FeedFetch -----------------------------
(***************************************************************************)
(* RSSHubFetcher: a feed is asked for at its own base, on one or two       *)
(* routes, and then at public bases, in an order that probes refresh from  *)
(* time to time.  A circuit breaker keeps a base that fails out of the     *)
(* candidates for a while.  The order, the failures and the breakers are   *)
(* kept by the process and shared by the poll activities at work in it;    *)
(* every await lets another one in.                                        *)
(***************************************************************************)
EXTENDS Integers, Sequences, SequencesExt, FiniteSets, FiniteSetsExt, Ordering

CONSTANTS
    Fetches,         \* the fetches at work at the same time
    Bases,           \* public fallback bases
    Routes,          \* number of routes: 2 for a bilibili user, else 1
    FeedRetries,     \* retry_attempts
    Threshold,       \* fallback_circuit_breaker_threshold
    BreakTime,       \* fallback_circuit_breaker_minutes, in ticks
    ReorderTime,     \* fallback_reorder_interval_seconds, in ticks
    FeedClock,       \* bound: ticks of the clock
    FeedPolls        \* bound: fetches started

ASSUME FeedAssumption == IsFiniteSet(Bases) /\ Threshold \in Nat

VARIABLES
    fetch,       \* by fetch: where it is
    order,       \* _FallbackState.ordered_public_bases
    reorderedAt, \* last_reordered_at
    failures,    \* consecutive_failures
    openUntil,   \* circuit_open_until, 0: no entry
    clock,
    polls

breaker == <<order, reorderedAt, failures, openUntil>>
feedVars == <<fetch, breaker, clock, polls>>

Own == "own"
NoFetch ==
    [pc |-> "idle", now |-> 0, todo |-> <<>>, scores |-> <<>>, cands |-> <<>>, tried |-> {},
     attempt |-> 0, result |-> "none"]

FeedInit ==
    /\ fetch = [f \in Fetches |-> NoFetch]
    /\ order = SetToSeq(Bases) /\ reorderedAt = 0
    /\ failures = [b \in Bases |-> 0]
    /\ openUntil = [b \in Bases |-> 0]
    /\ clock = 1 /\ polls = 0

Set(f, state) == fetch' = [fetch EXCEPT ![f] = state]

-----------------------------------------------------------------------------
(***************************************************************************)
(* _fallback_candidates.                                                   *)
(***************************************************************************)
\* Mutant: only the bases whose circuit is closed are scored, and so kept.
Scored_Closed(now) == SelectSeq(order, LAMBDA b : now >= openUntil[b])

\* The bases a reorder goes through.
Scored(now) == order

StartFetch(f) ==
    /\ fetch[f].pc \in {"idle", "done"} /\ polls < FeedPolls
    /\ polls' = polls + 1
    /\ Set(f, [NoFetch EXCEPT !.pc = IF clock - reorderedAt >= ReorderTime THEN "probe" ELSE "list",
                              !.now = clock,
                              !.todo = IF clock - reorderedAt >= ReorderTime
                                         THEN Scored(clock) ELSE <<>>])
    /\ UNCHANGED <<breaker, clock>>

(***************************************************************************)
(* _probe_public_base, then the failures it has at that moment.  A score   *)
(* is the class of what the two probes said, 3 at best, raised by 3 so as  *)
(* to stay natural.                                                        *)
(***************************************************************************)
ProbeResults == {0, 3}

Probe(f) ==
    LET base == Head(fetch[f].todo)
        lost == IF failures[base] < 3 THEN failures[base] ELSE 3
    IN  /\ fetch[f].pc = "probe" /\ fetch[f].todo # <<>>
        /\ \E s \in ProbeResults :
              Set(f, [fetch[f] EXCEPT !.todo = Tail(@),
                                      !.scores = Append(@, [base |-> base, score |-> 3 + s - lost])])
        /\ UNCHANGED <<breaker, clock, polls>>

\* scored.sort(reverse=True) is stable: the higher score first, and then who was first.
Ranked(scores) ==
    LET at == HighestFirst([i \in DOMAIN scores |-> scores[i].score])
    IN  [r \in DOMAIN scores |-> scores[at[r]].base]

Reorder(f) ==
    /\ fetch[f].pc = "probe" /\ fetch[f].todo = <<>>
    /\ order' = Ranked(fetch[f].scores)
    /\ reorderedAt' = fetch[f].now
    /\ Set(f, [fetch[f] EXCEPT !.pc = "list", !.scores = <<>>])
    /\ UNCHANGED <<failures, openUntil, clock, polls>>

\* The own routes, then those routes at each base whose circuit was closed at `now`.
Candidates(now) ==
    LET at(base) == [r \in 1..Routes |-> [base |-> base, route |-> r]]
        public == SelectSeq(order, LAMBDA b : now >= openUntil[b])
    IN  at(Own) \o FlattenSeq([i \in DOMAIN public |-> at(public[i])])

List(f) ==
    /\ fetch[f].pc = "list"
    /\ Set(f, [fetch[f] EXCEPT !.pc = "ask", !.cands = Candidates(fetch[f].now)])
    /\ UNCHANGED <<breaker, clock, polls>>

-----------------------------------------------------------------------------
(***************************************************************************)
(* _fetch_one.                                                             *)
(***************************************************************************)
Cand(f) == fetch[f].cands[1]
Public(f) == Cand(f).base # Own

\* Mutant: a success forgets the failures and leaves the circuit as it is.
Closed_Kept(b) == openUntil

\* circuit_open_until.pop.
Closed(b) == [openUntil EXCEPT ![b] = 0]

RecordSuccess(f) ==
    IF Public(f)
      THEN /\ failures' = [failures EXCEPT ![Cand(f).base] = 0]
           /\ openUntil' = Closed(Cand(f).base)
      ELSE UNCHANGED <<failures, openUntil>>

RecordFailure(f) ==
    IF Public(f)
      THEN LET b == Cand(f).base
               n == failures[b] + 1
           IN  /\ failures' = [failures EXCEPT ![b] = n]
               /\ openUntil' = IF n >= Threshold THEN [openUntil EXCEPT ![b] = clock + BreakTime]
                               ELSE openUntil
      ELSE UNCHANGED <<failures, openUntil>>

Tried(f) == fetch[f].tried \union {Cand(f)}

(***************************************************************************)
(* A response below 400.  The success is on record before the body is      *)
(* parsed; a body that is not XML raises what nothing here catches, and    *)
(* the candidates that remain are not asked.                               *)
(***************************************************************************)
BodyArrives(f) ==
    /\ fetch[f].pc = "ask" /\ fetch[f].cands # <<>>
    /\ RecordSuccess(f)
    /\ \E r \in {"entries", "garbled"} :
          Set(f, [fetch[f] EXCEPT !.pc = "done", !.result = r, !.tried = Tried(f)])
    /\ UNCHANGED <<order, reorderedAt, clock, polls>>

\* Mutant: a candidate that failed ends the fetch.
Remaining_None(f) == <<>>

Remaining(f) == Tail(fetch[f].cands)

(***************************************************************************)
(* A 4xx or a risk control answer ends the candidate at once; a 5xx or a   *)
(* network error is retried.                                               *)
(***************************************************************************)
Refused(f) ==
    /\ fetch[f].pc = "ask" /\ fetch[f].cands # <<>>
    /\ \E retried \in BOOLEAN :
          IF retried /\ fetch[f].attempt < FeedRetries
            THEN /\ Set(f, [fetch[f] EXCEPT !.pc = "wait", !.attempt = @ + 1])
                 /\ UNCHANGED <<failures, openUntil>>
            ELSE /\ RecordFailure(f)
                 /\ Set(f, [fetch[f] EXCEPT !.cands = Remaining(f), !.attempt = 0,
                                            !.tried = Tried(f)])
    /\ UNCHANGED <<order, reorderedAt, clock, polls>>

Wait(f) ==
    /\ fetch[f].pc = "wait"
    /\ Set(f, [fetch[f] EXCEPT !.pc = "ask"])
    /\ UNCHANGED <<breaker, clock, polls>>

\* The last error is raised; fetch_many turns it, like any other, into no entries.
Exhausted(f) ==
    /\ fetch[f].pc = "ask" /\ fetch[f].cands = <<>>
    /\ Set(f, [fetch[f] EXCEPT !.pc = "done", !.result = "failed"])
    /\ UNCHANGED <<breaker, clock, polls>>

FeedTick ==
    /\ clock < FeedClock
    /\ clock' = clock + 1
    /\ UNCHANGED <<fetch, breaker, polls>>

Fetch(f) ==
    Probe(f) \/ Reorder(f) \/ List(f) \/ BodyArrives(f) \/ Refused(f) \/ Wait(f) \/ Exhausted(f)

FeedNext ==
    \/ \E f \in Fetches : StartFetch(f) \/ Fetch(f)
    \/ FeedTick

FeedSpec == FeedInit /\ [][FeedNext]_feedVars /\ \A f \in Fetches : WF_feedVars(Fetch(f))

-----------------------------------------------------------------------------
(***************************************************************************)
(* However the fetches of a process interleave their probes, reorders,     *)
(* successes and failures: no base is ever lost from the order or listed   *)
(* twice, and a circuit is open only over a base whose failures say so.    *)
(***************************************************************************)
FallbackStateIsSound ==
    /\ Len(order) = Cardinality(Bases) /\ ToSet(order) = Bases
    /\ \A b \in Bases : openUntil[b] > 0 => failures[b] >= Threshold

(***************************************************************************)
(* A feed is given up, for this poll, only when its own routes and every   *)
(* public base whose circuit stayed closed have been asked.                *)
(***************************************************************************)
GivesUpLast ==
    \A f \in Fetches : fetch[f].result = "failed" =>
        /\ \A r \in 1..Routes : [base |-> Own, route |-> r] \in fetch[f].tried
        /\ \A b \in Bases : failures[b] = 0 =>
               \E c \in fetch[f].tried : c.base = b

=============================================================================
