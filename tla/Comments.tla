------------------------------ MODULE Comments ------------------------------
(***************************************************************************)
(* step_collect_comments and its two collectors.  YouTube's lists come in  *)
(* pages; a thread carries some replies, and what is missing up to the     *)
(* policy's number is asked for, page by page.  Bilibili gives one page of *)
(* comments and one of replies for each.  Every request is retried, and    *)
(* one that fails for good loses the collection: the step then succeeds    *)
(* with no comments, degraded.                                             *)
(*                                                                         *)
(* A comment or a reply is its rank: the higher, the more it is liked and  *)
(* the older it is.                                                        *)
(***************************************************************************)
EXTENDS Integers, Sequences, Ordering

CONSTANTS
    CommentIds,      \* ranks of comments, and of replies
    TopN,            \* policy.top_n
    RepliesPer,      \* policy.replies_per_comment
    CommentRetries,  \* request_retry_attempts
    CommentPages,    \* bound: pages the provider has of a list
    Collections      \* bound: collections

ASSUME CommentsAssumption == CommentIds \subseteq Int /\ TopN \in Nat \ {0} /\ RepliesPer \in Nat

VARIABLES
    col,         \* the collection at work
    collections

commentVars == <<col, collections>>

AtMost(n, S) == UNION {[1..k -> S] : k \in 0..n}
NonEmpty(n, S) == AtMost(n, S) \ {<<>>}

\* A thread: its replies at hand and how many it announces.
Threads == [id : CommentIds, inline : {s \in AtMost(1, CommentIds) : Distinct(s)}, total : 0..3]
Comment(id, replies) == [id |-> id, replies |-> replies]

NoCollection ==
    [pc |-> "idle", platform |-> "youtube", sort |-> "like", attempt |-> 0, pages |-> 0,
     page |-> <<>>, more |-> FALSE, top |-> <<>>, got |-> <<>>, outcome |-> "none"]

CommentsInit == col = NoCollection /\ collections = 0

\* max(1, ...) of the Bilibili collector: it asks for a reply even when none is wanted.
bilibili_replies == IF RepliesPer = 0 THEN 1 ELSE RepliesPer

Smaller(a, b) == IF a < b THEN a ELSE b

-----------------------------------------------------------------------------
(***************************************************************************)
(* apply_comments_policy: "new" puts the latest first, any other sort the  *)
(* most liked.                                                             *)
(***************************************************************************)
apply_comments_policy(comments) ==
    LET at  == HighestFirst([i \in DOMAIN comments |->
                  IF col.sort = "new" THEN -comments[i].id ELSE comments[i].id])
        top == First(TopN, at)
    IN  [n \in DOMAIN top |->
            Comment(comments[top[n]].id, First(RepliesPer, comments[top[n]].replies))]

Deliver(outcome, comments) ==
    col' = [NoCollection EXCEPT !.pc = "done", !.outcome = outcome, !.top = comments,
                                !.sort = col.sort, !.platform = col.platform]

\* The collector raised: the step succeeds, degraded, with an empty payload.
Raise == Deliver("degraded", <<>>)

StartCollection(platform, sort) ==
    /\ col.pc \in {"idle", "done"} /\ collections < Collections
    /\ collections' = collections + 1
    /\ col' = [NoCollection EXCEPT !.platform = platform, !.sort = sort,
                  !.pc = IF platform = "other" THEN "unsupported" ELSE "resolve"]

SkipPlatform ==
    /\ col.pc = "unsupported"
    /\ Deliver("skipped", <<>>)
    /\ UNCHANGED collections

(***************************************************************************)
(* The video's id is in the row or the URL, or it is not to be had; only   *)
(* a bvid takes a request.  YouTube also needs its key.                    *)
(***************************************************************************)
ResolveVideo ==
    /\ col.pc = "resolve"
    /\ \/ col' = [col EXCEPT !.pc = "threads"]
       \/ Raise
       \/ col.platform = "bilibili" /\ col' = [col EXCEPT !.pc = "view"]
    /\ UNCHANGED collections

-----------------------------------------------------------------------------
(***************************************************************************)
(* request_youtube_json and request_bilibili_json.  Timeouts, network      *)
(* errors and bad statuses are retried; so is a body Bilibili marks as an  *)
(* error or that does not parse.  One that does not parse ends YouTube's.  *)
(***************************************************************************)
Asking == {"view", "threads", "replies", "root"}

RequestLost ==
    /\ col.pc \in Asking
    /\ \E garbled \in BOOLEAN :
          IF col.attempt < CommentRetries /\ (garbled => col.platform = "bilibili")
            THEN col' = [col EXCEPT !.attempt = @ + 1]
            ELSE Raise
    /\ UNCHANGED collections

Answered(changed) == col' = [changed EXCEPT !.attempt = 0]

ViewAnswered ==
    /\ col.pc = "view"
    /\ \/ Answered([col EXCEPT !.pc = "threads"])
       \/ Raise
    /\ UNCHANGED collections

\* What the provider may still give: nothing, or a page and perhaps a token for the next.
Pages(n, S) ==
    {[items |-> <<>>, more |-> FALSE]}
        \union [items : NonEmpty(n, S), more : IF col.pages + 1 < CommentPages THEN BOOLEAN ELSE {FALSE}]

-----------------------------------------------------------------------------
(***************************************************************************)
(* YouTubeCommentCollector.collect.                                        *)
(***************************************************************************)
ThreadsAnswered ==
    /\ col.pc = "threads" /\ col.platform = "youtube"
    /\ \E p \in Pages(2, Threads) :
          Answered([col EXCEPT !.pc = "items", !.page = p.items, !.more = p.more, !.pages = @ + 1])
    /\ UNCHANGED collections

Thread == Head(col.page)
Inline == First(RepliesPer, Thread.inline)
Target == Smaller(RepliesPer, Thread.total)

\* The comment is listed; the page is left when there are enough of them.
Listed(replies) ==
    LET top == Append(col.top, Comment(Thread.id, replies))
    IN  [col EXCEPT !.pc = "items", !.top = top, !.got = <<>>,
                    !.page = IF Len(top) >= TopN THEN <<>> ELSE Tail(@)]

TakeThread ==
    /\ col.pc = "items" /\ col.page # <<>>
    /\ col' = IF Target > Len(Inline) THEN [col EXCEPT !.pc = "replies", !.got = Inline, !.pages = 0]
              ELSE Listed(Inline)
    /\ UNCHANGED collections

PageDone ==
    /\ col.pc = "items" /\ col.page = <<>>
    /\ IF col.more /\ Len(col.top) < TopN
         THEN col' = [col EXCEPT !.pc = "threads"]
         ELSE Deliver("succeeded", apply_comments_policy(col.top))
    /\ UNCHANGED collections

\* Mutant: only replies of the pages asked for are compared.
SeenReplies_Fetched(items, k) ==
    {col.got[i] : i \in (Len(Inline) + 1)..Len(col.got)} \union {items[i] : i \in 1..(k - 1)}

\* What has been seen before the k-th of a page: the replies had, and those above it.
SeenReplies(items, k) ==
    {col.got[i] : i \in DOMAIN col.got} \union {items[i] : i \in 1..(k - 1)}

\* _collect_replies_by_parent_id, one page: replies already seen do not count.
WithReplies(items) ==
    LET new == {k \in DOMAIN items : items[k] \notin SeenReplies(items, k)}
    IN  col.got \o First(Target - Len(col.got), Picked(items, new))

RepliesAnswered ==
    /\ col.pc = "replies"
    /\ \E p \in Pages(2, CommentIds) :
          LET got == WithReplies(p.items)
          IN  Answered(IF p.more /\ Len(got) < Target
                         THEN [col EXCEPT !.got = got, !.pages = @ + 1]
                         ELSE Listed(got))
    /\ UNCHANGED collections

-----------------------------------------------------------------------------
(***************************************************************************)
(* BilibiliCommentCollector.collect: _fetch_top_comments, then             *)
(* _fetch_replies of each; a comment without an id has none asked for.     *)
(***************************************************************************)
MostLiked(n, s) ==
    LET top == First(n, HighestFirst(s))
    IN  [i \in DOMAIN top |-> s[top[i]]]

CommentsAnswered ==
    /\ col.pc = "threads" /\ col.platform = "bilibili"
    /\ \E ids \in {s \in AtMost(3, CommentIds) : Distinct(s)} :
          Answered([col EXCEPT !.pc = "roots",
                               !.page = [i \in DOMAIN MostLiked(TopN, ids) |->
                                           [id |-> MostLiked(TopN, ids)[i], inline |-> <<>>,
                                            total |-> 0]]])
    /\ UNCHANGED collections

TakeRoot ==
    /\ col.pc = "roots" /\ col.page # <<>>
    /\ \/ col' = [col EXCEPT !.pc = "root"]
       \/ col' = [col EXCEPT !.top = Append(@, Comment(Thread.id, <<>>)), !.page = Tail(@)]
    /\ UNCHANGED collections

RootAnswered ==
    /\ col.pc = "root"
    /\ \E rs \in {s \in AtMost(2, CommentIds) : Distinct(s)} :
          Answered([col EXCEPT !.pc = "roots", !.page = Tail(@),
                               !.top = Append(@, Comment(Thread.id, MostLiked(bilibili_replies, rs)))])
    /\ UNCHANGED collections

RootsDone ==
    /\ col.pc = "roots" /\ col.page = <<>>
    /\ Deliver("succeeded", apply_comments_policy(col.top))
    /\ UNCHANGED collections

Collect ==
    \/ SkipPlatform \/ ResolveVideo \/ RequestLost \/ ViewAnswered
    \/ ThreadsAnswered \/ TakeThread \/ PageDone \/ RepliesAnswered
    \/ CommentsAnswered \/ TakeRoot \/ RootAnswered \/ RootsDone

CommentsNext ==
    \/ \E p \in {"youtube", "bilibili", "other"}, s \in {"like", "new"} : StartCollection(p, s)
    \/ Collect

CommentsSpec == CommentsInit /\ [][CommentsNext]_commentVars /\ WF_commentVars(Collect)

-----------------------------------------------------------------------------
(***************************************************************************)
(* What the step delivers keeps to its policy whatever the pages held: no  *)
(* more comments and replies than asked for, in the order asked for, and   *)
(* no reply twice under a comment although pages and threads overlap.  A   *)
(* collection that failed half way delivers none of what it had.           *)
(***************************************************************************)
CommentsKeepPolicy ==
    col.pc = "done" =>
        /\ Len(col.top) <= TopN
        /\ \A i \in DOMAIN col.top :
              Len(col.top[i].replies) <= RepliesPer /\ Distinct(col.top[i].replies)
        /\ \A i, j \in DOMAIN col.top : i < j =>
              IF col.sort = "new" THEN col.top[i].id <= col.top[j].id
                                  ELSE col.top[i].id >= col.top[j].id
        /\ col.outcome # "succeeded" => col.top = <<>>

=============================================================================
