----------------------------- MODULE MC_Services ------------------------------
(*****************************************************************************)
(* The machines of the worker and of the API that share no state, side by    *)
(* side on small instances: "focus", chosen at the start, is the one that    *)
(* moves.                                                                    *)
(*****************************************************************************)
EXTENDS LlmClient, FeedFetch, Comments, Schedules, JobView, UiAudit, DigestFeed, Gateway

VARIABLE focus

OneLlmStep == <<"llm_digest">>
SomeOffsets == {<<0, 0>>, <<0, 1>>, <<1, 0>>}

Foci == {"llm", "feed", "comments", "schedule", "canary", "view", "audit", "reader",
         "search", "gateway"}

vars == <<focus, llmVars, feedVars, commentVars, scheduleVars, canaryVars,
          jobViewVars, auditVars, readerVars, search, gatewayVars>>

Still(f, v) == focus # f => UNCHANGED v

Others ==
    /\ UNCHANGED focus
    /\ Still("llm", llmVars)
    /\ Still("feed", feedVars)
    /\ Still("comments", commentVars)
    /\ Still("schedule", scheduleVars)
    /\ Still("canary", canaryVars)
    /\ Still("view", jobViewVars)
    /\ Still("audit", auditVars)
    /\ Still("reader", readerVars)
    /\ Still("search", search)
    /\ Still("gateway", gatewayVars)

LlmMoves == focus = "llm" /\ LlmNext /\ Others
FeedMoves == focus = "feed" /\ FeedNext /\ Others
CommentsMove == focus = "comments" /\ CommentsNext /\ Others
ScheduleMoves == focus = "schedule" /\ ScheduleNext /\ Others
CanaryMoves == focus = "canary" /\ CanaryNext /\ Others
ViewMoves == focus = "view" /\ JobViewNext /\ Others
AuditMoves == focus = "audit" /\ AuditNext /\ Others
ReaderMoves == focus = "reader" /\ ReaderNext /\ Others
SearchMoves == focus = "search" /\ SearchNext /\ Others
GatewayMoves == focus = "gateway" /\ GatewayNext /\ Others

Init ==
    /\ focus \in Foci
    /\ LlmInit /\ FeedInit /\ CommentsInit /\ ScheduleInit /\ CanaryInit
    /\ JobViewInit /\ AuditInit /\ ReaderInit /\ SearchInit /\ GatewayInit

Next ==
    \/ LlmMoves \/ FeedMoves \/ CommentsMove \/ ScheduleMoves \/ CanaryMoves
    \/ ViewMoves \/ AuditMoves \/ ReaderMoves \/ SearchMoves \/ GatewayMoves

Spec == Init /\ [][Next]_vars

===============================================================================
