------------------------------ MODULE Gateway -------------------------------
(***************************************************************************)
(* A tool of the MCP server calls the API, which reads its stores or       *)
(* starts a workflow at Temporal.  Requests and answers get lost, the API  *)
(* answers late or with an error, it times out on Temporal while the start *)
(* goes on, and an operator starts the same workflows from the worker's    *)
(* command line.  The workflow is one of those that run once or in a loop  *)
(* (daily_digest, notification_retry, provider_canary, cleanup).           *)
(***************************************************************************)
EXTENDS Naturals, FiniteSets

CONSTANTS
    RetryAttempts,   \* VD_API_RETRY_ATTEMPTS, 1 to 5
    Calls,           \* bound: calls of tools
    CliStarts        \* bound: starts from the command line

VARIABLES
    tool,        \* the tool's call and what it was answered
    handler,     \* the API's handler of its request
    workflows,   \* Temporal: [id, loop, of] of the workflows that run
    effects,     \* workflows started by the tool's call
    used         \* calls and command line starts so far

gatewayVars == <<tool, handler, workflows, effects, used>>

NoTool == [pc |-> "idle", method |-> "GET", once |-> TRUE, loop |-> FALSE, attempt |-> 0,
           result |-> "none"]
NoHandler == [pc |-> "idle", status |-> 0, answer |-> "none"]

GatewayInit ==
    /\ tool = NoTool /\ handler = NoHandler
    /\ workflows = {} /\ effects = 0
    /\ used = [calls |-> 0, cli |-> 0]

-----------------------------------------------------------------------------
(***************************************************************************)
(* The tool checks its arguments and ApiClient.request sends.  A write's   *)
(* payload may carry a run_once of its own, which the endpoint keeps.      *)
(***************************************************************************)
CallTool(method, once, loop) ==
    /\ tool.pc \in {"idle", "done"} /\ handler.pc \in {"idle", "gone"}
    /\ used.calls < Calls
    /\ used' = [used EXCEPT !.calls = @ + 1]
    /\ \E valid \in BOOLEAN :
          tool' = [NoTool EXCEPT !.method = method, !.once = once, !.loop = loop,
                                 !.pc = IF valid THEN "send" ELSE "done",
                                 !.result = IF valid THEN "none" ELSE "INVALID_ARGUMENT"]
    /\ handler' = NoHandler /\ effects' = 0
    /\ UNCHANGED workflows

Send ==
    /\ tool.pc = "send"
    /\ tool' = [tool EXCEPT !.pc = "wait", !.attempt = @ + 1]
    /\ \/ handler' = [NoHandler EXCEPT !.pc = "handle"]
       \/ handler' = [NoHandler EXCEPT !.pc = "gone"]     \* never arrives
    /\ UNCHANGED <<workflows, effects, used>>

is_retryable_method_Always == TRUE

is_retryable_method == tool.method \in {"GET", "HEAD", "OPTIONS"}

MayRetry == is_retryable_method /\ tool.attempt < RetryAttempts

Fails(result) ==
    tool' = IF MayRetry THEN [tool EXCEPT !.pc = "send"]
            ELSE [tool EXCEPT !.pc = "done", !.result = result]

\* The client waits no longer, or the connection breaks: the API goes on with the request.
GivesUpWaiting ==
    /\ tool.pc = "wait"
    /\ \/ Fails("UPSTREAM_TIMEOUT")
       \/ Fails("UPSTREAM_NETWORK_ERROR")
    /\ UNCHANGED <<handler, workflows, effects, used>>

RetriedStatus == {429, 502, 503, 504}

Receive ==
    /\ tool.pc = "wait" /\ handler.pc = "answered"
    /\ IF handler.status < 400 THEN tool' = [tool EXCEPT !.pc = "done", !.result = handler.answer]
       ELSE IF handler.status \in RetriedStatus THEN Fails("UPSTREAM_HTTP_ERROR")
       ELSE tool' = [tool EXCEPT !.pc = "done", !.result = "UPSTREAM_HTTP_ERROR"]
    /\ handler' = [handler EXCEPT !.pc = "gone"]
    /\ UNCHANGED <<workflows, effects, used>>

-----------------------------------------------------------------------------
(***************************************************************************)
(* The API: the middleware writes its log line after the handler, and when *)
(* it cannot the answer is an error although the work is done.             *)
(***************************************************************************)
Reply(status, answer) ==
    handler' = [pc |-> "log", status |-> status, answer |-> answer]

\* A read, or a request that the API refuses: no key, a payload its schema does not take.
HandleRead ==
    /\ handler.pc = "handle"
    /\ \/ tool.method = "GET" /\ \E status \in {200, 404, 429} : Reply(status, "read")
       \/ \E status \in {401, 403, 422} : Reply(status, "refused")
    /\ UNCHANGED <<tool, workflows, effects, used>>

\* run_workflow: Client.connect under its time limit.
Connect ==
    /\ handler.pc = "handle" /\ tool.method = "POST"
    /\ \/ handler' = [handler EXCEPT !.pc = "start"]
       \/ Reply(504, "connect_timed_out")
       \/ Reply(503, "connect_failed")
    /\ UNCHANGED <<tool, workflows, effects, used>>

(***************************************************************************)
(* The id: a loop has the kind's, a single run one of its own.  What runs  *)
(* is told by the payload's run_once, which the request's own only fills   *)
(* in.                                                                     *)
(***************************************************************************)
ApiLoop == <<"api", 0, 0>>      \* "daily_digest-workflow"
CliLoop == <<"cli", 0, 0>>      \* "daily-digest-workflow"
workflow_id == IF tool.once THEN <<"api", used.calls, tool.attempt>> ELSE ApiLoop

Running(id) == \E w \in workflows : w.id = id
Begin(id, loop) == workflows' = workflows \union {[id |-> id, loop |-> loop]}

StartWorkflow ==
    /\ handler.pc = "start"
    /\ IF Running(workflow_id)
       THEN Reply(200, "already_running") /\ UNCHANGED <<workflows, effects>>
       ELSE \/ /\ Begin(workflow_id, tool.loop) /\ effects' = effects + 1
               /\ \/ Reply(200, "started")
                  \/ Reply(504, "start_timed_out")
            \/ /\ UNCHANGED <<workflows, effects>>
               /\ \/ Reply(504, "start_timed_out")
                  \/ Reply(503, "start_failed")
    /\ UNCHANGED <<tool, used>>

AppendLog ==
    /\ handler.pc = "log"
    /\ \E status \in {handler.status, 500} :
          handler' = [pc |-> "answered", status |-> status, answer |-> handler.answer]
    /\ UNCHANGED <<tool, workflows, effects, used>>

\* The answer to a request nobody waits for.
AnswerDropped ==
    /\ handler.pc = "answered" /\ tool.pc # "wait"
    /\ handler' = [handler EXCEPT !.pc = "gone"]
    /\ UNCHANGED <<tool, workflows, effects, used>>

-----------------------------------------------------------------------------
(***************************************************************************)
(* The worker's command line, and workflows that come to their end.        *)
(***************************************************************************)
CliStart(once) ==
    /\ used.cli < CliStarts
    /\ used' = [used EXCEPT !.cli = @ + 1]
    /\ LET id == IF once THEN <<"cli", used.cli + 1, 0>> ELSE CliLoop
       IN  IF Running(id) THEN UNCHANGED workflows ELSE Begin(id, ~once)
    /\ UNCHANGED <<tool, handler, effects>>

WorkflowEnds(w) ==
    /\ w \in workflows
    /\ workflows' = workflows \ {w}
    /\ UNCHANGED <<tool, handler, effects, used>>

GatewayNext ==
    \/ \E method \in {"GET", "POST"}, once, loop \in BOOLEAN : CallTool(method, once, loop)
    \/ Send \/ GivesUpWaiting \/ Receive
    \/ HandleRead \/ Connect \/ StartWorkflow \/ AppendLog \/ AnswerDropped
    \/ \E once \in BOOLEAN : CliStart(once)
    \/ \E w \in workflows : WorkflowEnds(w)

GatewaySpec == GatewayInit /\ [][GatewayNext]_gatewayVars

-----------------------------------------------------------------------------
(***************************************************************************)
(* However often requests and answers get lost, a tool's call starts one   *)
(* workflow at most, and what the tool tells is so: "started" when it did, *)
(* "already_running" and a refusal when it did not.                        *)
(***************************************************************************)
WriteTakesEffectOnce ==
    /\ effects <= 1
    /\ tool.result = "started" => effects = 1
    /\ tool.result \in {"already_running", "read", "INVALID_ARGUMENT"} => effects = 0
    /\ tool.result # "none" /\ handler.pc = "gone" /\ handler.answer = "refused" => effects = 0

(***************************************************************************)
(* The digest goes out daily, the retry scan runs every ten minutes and    *)
(* the canary hourly by default: each kind has one loop at work.           *)
(***************************************************************************)
OneLoopPerKind == Cardinality({w \in workflows : w.loop}) <= 1

=============================================================================
