----------------------------- MODULE DigestFeed -----------------------------
(***************************************************************************)
(* The digest feed, read page by page while the worker and the other       *)
(* endpoints go on: jobs succeed, a poll moves a video's date, a file goes *)
(* away, a subscription changes its category or is deleted.  And the       *)
(* search, which merges what the texts and the embeddings give.            *)
(*                                                                         *)
(* A row's rank stands for its job's id, and a date for its sort_ts.       *)
(***************************************************************************)
EXTENDS Naturals, Sequences, FiniteSets, SequencesExt, Ordering

CONSTANTS
    Rows,      \* jobs of the feed: a set of numbers
    Pending,   \* jobs that have not succeeded yet
    Dates,     \* a set of numbers
    Limit,     \* the page's limit
    TopK,      \* the search's top_k
    Changes    \* bound: changes while the feed is read

ASSUME ReaderAssumption ==
    Rows \subseteq Nat /\ IsFiniteSet(Rows) /\ Dates \subseteq Nat /\ Limit \in Nat \ {0}

VARIABLES
    row,           \* job -> its row
    category,      \* job -> the category of its subscription, or "deleted"
    walk,          \* the client that reads the feed
    search,        \* the search's last answer
    changes

readerVars == <<row, category, walk, changes>>

Categories == {"tech", "misc"}
Nowhere == [ts |-> 0, id |-> 0]
NoSearch == [mode |-> "none", keyword |-> <<>>, semantic |-> <<>>, items |-> <<>>]

\* Each job's video came by a subscription of its own.
ReaderInit ==
    /\ row = [j \in Rows |-> [ts |-> 1, done |-> j \notin Pending, summary |-> TRUE]]
    /\ category = [j \in Rows |-> "tech"]
    /\ walk = [pc |-> "idle", filter |-> "all", cursor |-> Nowhere, page |-> <<>>, more |-> TRUE]
    /\ changes = 0

-----------------------------------------------------------------------------
(***************************************************************************)
(* list_digest_feed.  The category of a row is that of the subscription    *)
(* of its latest ingest event, "misc" when it was deleted.                 *)
(***************************************************************************)
CategoryOf(j) == IF category[j] = "deleted" THEN "misc" ELSE category[j]

InFeed(filter) == {j \in Rows : row[j].done /\ (filter = "all" \/ CategoryOf(j) = filter)}

Position(j) == [ts |-> row[j].ts, id |-> j]
Below(p, cursor) == p.ts < cursor.ts \/ (p.ts = cursor.ts /\ p.id < cursor.id)

\* Mutant: the row the cursor was taken from is in the next page again.
After_OrAt(filter, cursor) ==
    {j \in InFeed(filter) : \/ cursor \in {Nowhere, Position(j)}
                           \/ Below(Position(j), cursor)}

After(filter, cursor) ==
    {j \in InFeed(filter) : cursor = Nowhere \/ Below(Position(j), cursor)}

\* The pairs of rows of which the first is the newer.
Newer(rows) == {p \in rows \X rows : Below(Position(p[2]), Position(p[1]))}

\* _resolve_summary: the digest, or else the outline.
Shown(j) == row[j].summary

Fetched(rows) == First(Limit + 1, Ordered(rows, Newer(rows)))
Items(fetched) == Picked(fetched, {i \in DOMAIN fetched : Shown(fetched[i])})

list_digest_feed(filter, cursor) ==
    LET items == Items(Fetched(After(filter, cursor)))
        page  == First(Limit, items)
        more  == Len(items) > Limit
    IN  [pc     |-> "read",
         filter |-> filter,
         page   |-> [i \in DOMAIN page |-> Position(page[i])],
         more   |-> more,
         cursor |-> IF more THEN Position(page[Len(page)]) ELSE Nowhere]

FirstPage(filter) ==
    /\ walk.pc = "idle"
    /\ walk' = list_digest_feed(filter, Nowhere)
    /\ UNCHANGED <<row, category, changes>>

NextPage ==
    /\ walk.pc = "read" /\ walk.more
    /\ walk' = list_digest_feed(walk.filter, walk.cursor)
    /\ UNCHANGED <<row, category, changes>>

-----------------------------------------------------------------------------
(***************************************************************************)
(* What changes meanwhile.                                                 *)
(***************************************************************************)
Change(new) ==
    /\ changes < Changes /\ changes' = changes + 1
    /\ row' = new /\ new # row
    /\ UNCHANGED <<category, walk>>

JobSucceeds(j) == Change([row EXCEPT ![j].done = TRUE, ![j].summary = TRUE])
VideoMoves(j, ts) == Change([row EXCEPT ![j].ts = ts])
TextGoes(j) == Change([row EXCEPT ![j].summary = FALSE])

Categorize(new) ==
    /\ changes < Changes /\ changes' = changes + 1
    /\ category' = new /\ new # category
    /\ UNCHANGED <<row, walk>>

\* batch_update_category; the delete takes the ingest events along, the next poll brings them back.
UpdateCategory(ids, c) ==
    Categorize([j \in Rows |-> IF j \in ids /\ category[j] # "deleted" THEN c ELSE category[j]])
DeleteSubscription(j) == Categorize([category EXCEPT ![j] = "deleted"])
UpsertSubscription(j, c) == Categorize([category EXCEPT ![j] = c])

ReaderNext ==
    \/ \E filter \in Categories \union {"all"} : FirstPage(filter)
    \/ NextPage
    \/ \E j \in Rows :
          \/ JobSucceeds(j) \/ TextGoes(j) \/ DeleteSubscription(j)
          \/ \E ts \in Dates : VideoMoves(j, ts)
          \/ \E c \in Categories : UpsertSubscription(j, c)
    \/ \E c \in Categories, ids \in SUBSET Rows : UpdateCategory(ids, c)

-----------------------------------------------------------------------------
(***************************************************************************)
(* RetrievalService.search.  A hit is its key (job, source, snippet) and   *)
(* its score; each search gives at most top_k, best first.                 *)
(***************************************************************************)
Keys == {"digest", "transcript"}
Hit == [key : Keys, score : 1..3]
Better(a, b) == a.score > b.score
SomeHits == {First(TopK, SortSeq(s, Better)) : s \in UNION {[1..n -> Hit] : n \in 0..2}}

Merged_Last(old, hit) == [k \in DOMAIN old \union {hit.key} |-> IF k = hit.key THEN hit.score ELSE old[k]]

\* merged: the first hit of a key, unless a later one scores more.
Merged(old, hit) ==
    [k \in DOMAIN old \union {hit.key} |->
        IF k # hit.key \/ (k \in DOMAIN old /\ old[k] >= hit.score) THEN old[k] ELSE hit.score]

merge_hybrid_hits(keyword, semantic) ==
    LET best == FoldLeft(Merged, [k \in {} |-> 0], keyword \o semantic)
        hits == {[key |-> k, score |-> best[k]] : k \in DOMAIN best}
    IN  First(TopK, SortSeq(SetToSeq(hits), Better))

\* A failing database gives no keyword hits; a failing embedding none of the semantic ones,
\* unless only those were asked for.
Search(mode) ==
    /\ search = NoSearch
    /\ \E keyword, semantic \in SomeHits :
          search' = [mode |-> mode, keyword |-> keyword,
                     semantic |-> IF mode = "keyword" THEN <<>> ELSE semantic,
                     items |-> CASE mode = "keyword" -> keyword
                                 [] mode = "semantic" -> semantic
                                 [] mode = "hybrid" -> merge_hybrid_hits(keyword, semantic)]

SearchInit == search = NoSearch
SearchNext == \E mode \in {"keyword", "semantic", "hybrid"} : Search(mode)

ReaderSpec ==
    /\ ReaderInit /\ SearchInit
    /\ [][\/ ReaderNext /\ UNCHANGED search
          \/ SearchNext /\ UNCHANGED readerVars]_<<readerVars, search>>

-----------------------------------------------------------------------------
(***************************************************************************)
(* A page is in order and lies below the cursor it was asked with, each    *)
(* row of it of the asked category as it is then; when there is more, the  *)
(* page and the next cursor leave out no row that has a text, whatever     *)
(* succeeds, moves, is recategorised or goes away between two pages.       *)
(***************************************************************************)
Older(p, q) == p.ts < q.ts \/ (p.ts = q.ts /\ p.id < q.id)

FeedPagesFit ==
    [][ walk' # walk =>
          LET page == ToSet(walk'.page)
          IN  /\ \A i, j \in DOMAIN walk'.page : i < j => Older(walk'.page[j], walk'.page[i])
              /\ \A p \in page : /\ walk.cursor # Nowhere => Older(p, walk.cursor)
                                 /\ p.id \in InFeed(walk'.filter) /\ Shown(p.id)
              /\ walk'.more => \A j \in InFeed(walk'.filter) :
                    Shown(j) /\ (walk.cursor = Nowhere \/ Older(Position(j), walk.cursor))
                       => Position(j) \in page \/ Older(Position(j), walk'.cursor)
      ]_walk

(***************************************************************************)
(* "No more" means that no row with a text lies below the page.            *)
(***************************************************************************)
FeedEndsAtTheEnd ==
    [][ walk' # walk /\ ~walk'.more =>
          \A j \in InFeed(walk'.filter) :
             Shown(j) /\ (walk.cursor = Nowhere \/ Older(Position(j), walk.cursor))
                => Position(j) \in ToSet(walk'.page) ]_walk

(***************************************************************************)
(* A hybrid search gives each text once, with the best score either search *)
(* gave it, best first, and leaves out none that scores more than its last *)
(* hit.                                                                    *)
(***************************************************************************)
HybridKeepsBest ==
    search.mode = "hybrid" =>
        LET all  == ToSet(search.keyword) \union ToSet(search.semantic)
            hits == ToSet(search.items)
        IN  /\ hits \subseteq all /\ Cardinality(hits) = Len(search.items)
            /\ \A i, j \in DOMAIN search.items :
                  i < j => /\ search.items[i].key # search.items[j].key
                           /\ search.items[i].score >= search.items[j].score
            /\ \A h \in all :
                  \/ \E x \in hits : x.key = h.key /\ x.score >= h.score
                  \/ Len(search.items) = TopK /\ \A x \in hits : x.score >= h.score

=============================================================================
