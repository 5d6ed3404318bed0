----------------------------- MODULE LlmClient -----------------------------
(***************************************************************************)
(* gemini_generate and the LLM step around it.  A call tries the input     *)
(* modes its options allow, video then frames then text, and in each mode  *)
(* goes through rounds of tool calls until the model answers in text.  In  *)
(* text mode and without tools the prompt may stand in a context cache of  *)
(* the provider, whose name a process-wide table remembers; the provider   *)
(* may forget it first.  The step then judges the answer and may have it   *)
(* translated by a second call.                                            *)
(*                                                                         *)
(* What is said is abstracted to what the code asks of it: whether there   *)
(* is text, whether thoughts and signatures came with it, which tools it   *)
(* asks for, whether the payload is well formed, Chinese and good enough.  *)
(***************************************************************************)
EXTENDS Naturals, Sequences, SequencesExt, FiniteSets

CONSTANTS
    Prompts,        \* the cache keys: model, prompt and mode
    LlmMaxCalls,    \* bound: calls of the step or of gemini_generate
    LlmModes,       \* input modes asked for, a subset of AllInputModes
    ToolRounds,     \* max_function_call_rounds
    CuMaxSteps,     \* computer_use_max_steps
    ContextKeys,    \* gemini_context_cache_max_keys
    ContextNames    \* bound: cached contents the provider creates

AllInputModes == {"auto", "text", "video_text", "frames_text"}

VARIABLES
    llm,      \* the call at work
    local,    \* _CACHE_NAME_BY_KEY, least recently used first
    sweepDue, \* the sweep interval has gone by
    live,     \* the names the provider still knows
    minted,   \* the names it has created
    llmCalls

llmVars == <<llm, local, sweepDue, live, minted, llmCalls>>

-----------------------------------------------------------------------------
(***************************************************************************)
(* Options, responses, errors.                                             *)
(***************************************************************************)
(***************************************************************************)
(* classify_gemini_exception and _is_cache_error, as far as they matter    *)
(* here: "stale" is a cached content that is not found, "invalid" another  *)
(* error whose words pass for one of the cache (invalid argument,          *)
(* resource_exhausted), "other" all the rest.                              *)
(***************************************************************************)
ErrorKinds == {"other", "invalid", "stale"}
CacheErrors == {"invalid", "stale"}

\* enable_computer_use and, with it, whether a handler may act.
ComputerUses == {"off", "blocked", "ready"}

(***************************************************************************)
(* The steps ask with tools, and for the translation of an answer in text  *)
(* mode without tools or cache; others may ask in text mode without tools, *)
(* with the cache.                                                         *)
(***************************************************************************)
StepOptions ==
    [caller : {"step"}, mode : LlmModes, media : BOOLEAN, frames : BOOLEAN,
     thoughts : BOOLEAN, tools : {TRUE}, cu : ComputerUses, cache : {TRUE}, prompt : {"none"}]
DirectOptions ==
    [caller : {"direct"}, mode : LlmModes \intersect {"text", "auto"}, media : {FALSE},
     frames : {FALSE}, thoughts : BOOLEAN, tools : {FALSE}, cu : {"off"}, cache : {TRUE},
     prompt : Prompts]

Translation(o) ==
    [o EXCEPT !.mode = "text", !.media = FALSE, !.frames = FALSE, !.tools = FALSE,
              !.cu = "off", !.cache = FALSE]

\* What the tools of a response may be; names outside allowed_tools are blocked.
ToolNames == {"allowed", "computer_use", "unknown"}
Asked == {<<>>} \union {<<a>> : a \in ToolNames} \union {<<"computer_use", "computer_use">>}

Responses ==
    {r \in [text : BOOLEAN, signed : BOOLEAN, thought : BOOLEAN, asks : Asked] :
        (r.signed => r.thought) /\ (r.text => r.asks = <<>>)}

Wants(o, phase) ==
    CASE phase = "video" -> o.mode \in {"auto", "video_text"} /\ o.media
      [] phase = "frames" -> o.mode \in {"auto", "video_text", "frames_text"} /\ o.frames
      [] phase = "text" -> o.mode \in {"auto", "text"}

Phases(o) ==
    LET Try(p) == IF Wants(o, p) THEN <<p>> ELSE <<>>
    IN  Try("video") \o Try("frames") \o Try("text")

Loop(pc, name) ==
    [pc |-> pc, name |-> name, round |-> 0, steps |-> 0, signed |-> FALSE,
     thought |-> FALSE, pending |-> <<>>]
NoToolLoop == Loop("none", 0)

NoAnswer == [text |-> FALSE, input |-> "none", signed |-> FALSE, error |-> "none"]
Answer(text, input, signed, error) ==
    [text |-> text, input |-> input, signed |-> signed, error |-> error]

(***************************************************************************)
(* gemini_generate is entered with the options `asked`, for a caller whose *)
(* own options are opts; first is the answer that is being translated.     *)
(***************************************************************************)
Entered(purpose, opts, asked, first) ==
    [pc |-> "client", purpose |-> purpose, opts |-> opts, asked |-> asked, first |-> first,
     todo |-> Phases(asked), loop |-> NoToolLoop, deferred |-> NoAnswer, answer |-> NoAnswer,
     recreated |-> FALSE, refused |-> {}, requests |-> 0, outcome |-> "none"]

NoOptions ==
    [caller |-> "direct", mode |-> "text", media |-> FALSE, frames |-> FALSE, thoughts |-> TRUE,
     tools |-> FALSE, cu |-> "off", cache |-> FALSE, prompt |-> "none"]
Idle == [Entered("answer", NoOptions, NoOptions, NoAnswer) EXCEPT !.pc = "idle"]

LlmInit ==
    /\ llm = Idle
    /\ local = <<>> /\ sweepDue = FALSE
    /\ live = {} /\ minted = 0
    /\ llmCalls = 0

CallLlm(o) ==
    /\ llm.pc \in {"idle", "done"} /\ llmCalls < LlmMaxCalls
    /\ llm' = Entered("answer", o, o, NoAnswer)
    /\ llmCalls' = llmCalls + 1
    /\ UNCHANGED <<local, sweepDue, live, minted>>

-----------------------------------------------------------------------------
(***************************************************************************)
(* The table of cached contents.                                           *)
(***************************************************************************)
Entry(key, name) == [key |-> key, name |-> name, old |-> FALSE]
Without(table, key) == SelectSeq(table, LAMBDA e : e.key # key)

\* Mutant: the local table is not trimmed.
Trimmed_Not(entries) == entries

\* _trim_local_cache: the least recently used go first.
Trimmed(entries) ==
    IF Len(entries) <= ContextKeys THEN entries
    ELSE SubSeq(entries, Len(entries) - ContextKeys + 1, Len(entries))

\* _sweep_local_cache, when its interval has gone by.
Sweep ==
    /\ local' = IF sweepDue THEN SelectSeq(local, LAMBDA e : ~e.old) ELSE local
    /\ sweepDue' = FALSE

\* Mutant: the name that was refused stays in the table.
Dropped_Not(key) == local

\* _drop_cached_content.
Dropped(key) == Without(local, key)

(***************************************************************************)
(* _create_cached_content: a young entry's name, or a new one.  A creation *)
(* that fails leaves the call without a cache.                             *)
(***************************************************************************)
Creations(key, table) ==
    LET young == {e \in ToSet(table) : e.key = key /\ ~e.old}
        new == {n \in {minted + 1} : n <= ContextNames}
    IN  IF young # {}
          THEN {[name |-> e.name, table |-> Append(Without(table, key), e)] : e \in young}
          ELSE {[name |-> n, table |-> Trimmed(Append(Without(table, key), Entry(key, n)))] : n \in new}
               \union {[name |-> 0, table |-> table]}

Cached(c) ==
    /\ local' = c.table
    /\ live' = IF c.name > minted THEN live \union {c.name} ELSE live
    /\ minted' = IF c.name > minted THEN c.name ELSE minted

\* Time goes by: what the table holds gets older than its local TTL.
Age ==
    /\ llm.pc \in {"idle", "done"} /\ local # <<>>
    /\ local' = [i \in DOMAIN local |-> [local[i] EXCEPT !.old = TRUE]]
    /\ sweepDue' \in BOOLEAN
    /\ <<local, sweepDue>>' # <<local, sweepDue>>
    /\ UNCHANGED <<llm, live, minted, llmCalls>>

Forget(name) ==
    /\ live' = live \ {name}
    /\ UNCHANGED <<llm, local, sweepDue, minted, llmCalls>>

-----------------------------------------------------------------------------
(***************************************************************************)
(* gemini_generate.                                                        *)
(***************************************************************************)
Return(answer) == llm' = [llm EXCEPT !.pc = "answered", !.answer = answer, !.loop = NoToolLoop]

\* The key is missing, the SDK does not import, or the client cannot be built.
ClientFails ==
    /\ llm.pc = "client"
    /\ Return(Answer(FALSE, "none", FALSE, "other"))
    /\ UNCHANGED <<local, sweepDue, live, minted, llmCalls>>

ClientReady ==
    /\ llm.pc = "client"
    /\ Sweep
    /\ llm' = [llm EXCEPT !.pc = "phase"]
    /\ UNCHANGED <<live, minted, llmCalls>>

Phase == Head(llm.todo)
AtPhase(p) == llm.pc = "phase" /\ llm.todo # <<>> /\ Phase = p
InputOf(p) == CASE p = "video" -> "video_text" [] p = "frames" -> "frames_text" [] p = "text" -> "text"

Enter(name) == llm' = [llm EXCEPT !.pc = "loop", !.loop = Loop("loop", name)]
Pass(deferred) == llm' = [llm EXCEPT !.pc = "phase", !.todo = Tail(@), !.deferred = deferred,
                                     !.loop = NoToolLoop]

Upload ==
    /\ AtPhase("video")
    /\ \/ Enter(0)
       \/ \E e \in ErrorKinds \ {"stale"} : Pass(Answer(FALSE, "video_text", FALSE, e))
    /\ UNCHANGED <<local, sweepDue, live, minted, llmCalls>>

\* _build_frame_parts skips files that are gone or empty, and may leave none.
BuildFrames ==
    /\ AtPhase("frames")
    /\ Enter(0) \/ Pass(llm.deferred)
    /\ UNCHANGED <<local, sweepDue, live, minted, llmCalls>>

CacheEnabled == llm.asked.cache /\ ~llm.asked.tools /\ llm.asked.cu = "off"

PlainText ==
    /\ AtPhase("text") /\ ~CacheEnabled
    /\ Enter(0)
    /\ UNCHANGED <<local, sweepDue, live, minted, llmCalls>>

CachedText ==
    /\ AtPhase("text") /\ CacheEnabled
    /\ \E c \in Creations(llm.asked.prompt, local) : Cached(c) /\ Enter(c.name)
    /\ UNCHANGED <<sweepDue, llmCalls>>

GiveUp ==
    /\ llm.pc = "phase" /\ llm.todo = <<>>
    /\ Return(IF llm.deferred = NoAnswer THEN Answer(FALSE, "none", FALSE, "other")
              ELSE llm.deferred)
    /\ UNCHANGED <<local, sweepDue, live, minted, llmCalls>>

-----------------------------------------------------------------------------
(***************************************************************************)
(* _generate_with_function_loop.  A request that fails is one for which    *)
(* _generate had an exception with the schema and, unless the mode is      *)
(* strict, without it.                                                     *)
(***************************************************************************)
\* The loop is over in this mode: an answer, a failure kept for later, or a new cache.
LoopEnds(answer, refused) ==
    LET done == [llm EXCEPT !.requests = @ + 1, !.refused = refused, !.loop = NoToolLoop]
    IN  llm' = IF answer.text \/ (Phase = "text" /\ (llm.loop.name = 0 \/ llm.recreated))
                 THEN [done EXCEPT !.pc = "answered", !.answer = answer]
               ELSE IF Phase # "text"
                 THEN [done EXCEPT !.pc = "phase", !.todo = Tail(@), !.deferred = answer]
               ELSE IF answer.error \in CacheErrors
                 THEN [done EXCEPT !.pc = "recreate"]
               ELSE [done EXCEPT !.pc = "answered", !.answer = answer]

Gone == llm.loop.name # 0 /\ llm.loop.name \notin live

RequestFails ==
    /\ llm.pc = "loop"
    /\ \E e \in IF Gone THEN {"stale"} ELSE ErrorKinds \ {"stale"} :
          LoopEnds(Answer(FALSE, InputOf(Phase), FALSE, e),
                   IF Gone THEN llm.refused \union {llm.loop.name} ELSE llm.refused)
    /\ UNCHANGED <<local, sweepDue, live, minted, llmCalls>>

\* Mutant: the loop goes on as long as the model asks for tools.
RoundsLeft_Always(round) == TRUE

RoundsLeft(round) == round <= ToolRounds

\* llm_thoughts_required: several rounds, thoughts or usage, and no signature.
Unsigned(loop) == llm.asked.thoughts /\ loop.round > 1 /\ ~loop.signed /\ loop.thought

Respond(r) ==
    LET loop == [llm.loop EXCEPT !.round = @ + 1, !.signed = @ \/ r.signed,
                                 !.thought = @ \/ r.thought]
        goesOn == ~r.text /\ (llm.asked.tools \/ llm.asked.cu # "off") /\ r.asks # <<>>
                  /\ RoundsLeft(loop.round)
    IN  IF goesOn
          THEN llm' = [llm EXCEPT !.pc = "tools", !.requests = @ + 1,
                                  !.loop = [loop EXCEPT !.pending = r.asks]]
          ELSE LoopEnds(IF Unsigned(loop)
                          THEN Answer(FALSE, InputOf(Phase), FALSE, "contract")
                          ELSE Answer(r.text, InputOf(Phase), loop.signed, "none"),
                        llm.refused)

RequestAnswered ==
    /\ llm.pc = "loop" /\ ~Gone
    /\ \E r \in Responses : Respond(r)
    /\ UNCHANGED <<local, sweepDue, live, minted, llmCalls>>

\* Mutant: every action is a step of its own, however many there were.
StepsLeft_Always == TRUE

StepsLeft == llm.loop.steps < CuMaxSteps

\* The handler acts: ok is a step used, an error or a timeout is not.
Acts == Head(llm.loop.pending) = "computer_use" /\ StepsLeft /\ llm.asked.cu = "ready"

\* _execute_function_call, one call of the response; after the last, the next round.
RunTool ==
    /\ llm.pc = "tools"
    /\ \E acted \in IF Acts THEN {0, 1} ELSE {0} :
          llm' = [llm EXCEPT !.loop.pending = Tail(@), !.loop.steps = @ + acted,
                             !.pc = IF Len(llm.loop.pending) = 1 THEN "loop" ELSE "tools"]
    /\ UNCHANGED <<local, sweepDue, live, minted, llmCalls>>

(***************************************************************************)
(* The cached content was refused: its name is dropped and another one     *)
(* created, failing which the prompt is sent as it is.                     *)
(***************************************************************************)
Recreate ==
    LET key == llm.asked.prompt IN
    /\ llm.pc = "recreate"
    /\ \E c \in Creations(key, Dropped(key)) :
          /\ Cached(c)
          /\ llm' = [llm EXCEPT !.pc = "loop", !.recreated = TRUE, !.loop = Loop("loop", c.name)]
    /\ UNCHANGED <<sweepDue, llmCalls>>

-----------------------------------------------------------------------------
(***************************************************************************)
(* step_llm_outline and step_llm_digest, once gemini_generate returned.    *)
(***************************************************************************)
StepEnds(outcome) ==
    llm' = [llm EXCEPT !.pc = "done", !.outcome = outcome, !.requests = 0, !.refused = {},
                       !.todo = <<>>, !.deferred = NoAnswer]

\* Mutant: only the answer is looked at, not what came with it.
Acceptable_TextOnly == llm.answer.text

\* include_thoughts, text, thought signatures: all three.
Acceptable == llm.opts.thoughts /\ llm.answer.text /\ llm.answer.signed

Judge ==
    /\ llm.pc = "answered" /\ llm.purpose = "answer"
    /\ IF llm.opts.caller = "direct"
         THEN StepEnds(IF llm.answer.text THEN "text" ELSE "failed")
       ELSE IF ~Acceptable THEN StepEnds("failed")
       ELSE \/ \E o \in {"succeeded", "failed"} : StepEnds(o)
            \/ llm' = Entered("translation", llm.opts, Translation(llm.opts), llm.answer)
    /\ UNCHANGED <<local, sweepDue, live, minted, llmCalls>>

\* _translate_payload_to_chinese came back: no text, no payload, not Chinese, or good.
JudgeTranslation ==
    /\ llm.pc = "answered" /\ llm.purpose = "translation"
    /\ \E o \in IF llm.answer.text THEN {"succeeded", "failed"} ELSE {"failed"} : StepEnds(o)
    /\ UNCHANGED <<local, sweepDue, live, minted, llmCalls>>

Generate ==
    \/ ClientFails \/ ClientReady
    \/ Upload \/ BuildFrames \/ PlainText \/ CachedText \/ GiveUp
    \/ RequestFails \/ RequestAnswered \/ RunTool \/ Recreate
    \/ Judge \/ JudgeTranslation

LlmNext ==
    \/ \E o \in StepOptions \union DirectOptions : CallLlm(o)
    \/ Generate
    \/ Age
    \/ \E name \in live : Forget(name)

LlmSpec == LlmInit /\ [][LlmNext]_llmVars /\ WF_llmVars(Generate)

-----------------------------------------------------------------------------
(***************************************************************************)
(* A step succeeds on an answer that was earned: in an input mode its      *)
(* options allow, with thoughts asked for and signed, also when what it    *)
(* delivers is the translation of that answer.                             *)
(***************************************************************************)
Judged == IF llm.purpose = "translation" THEN llm.first ELSE llm.answer

AnswerIsEarned ==
    llm.pc = "done" /\ llm.outcome = "succeeded" =>
        /\ llm.opts.thoughts /\ Judged.text /\ Judged.signed
        /\ \E p \in ToSet(Phases(llm.opts)) : InputOf(p) = Judged.input

(***************************************************************************)
(* What one call costs is bounded by its options: the requests over all    *)
(* its modes and rounds, and the steps of computer use of each loop.       *)
(***************************************************************************)
SpendIsBounded ==
    /\ llm.requests <= 3 * (ToolRounds + 1)
    /\ llm.loop.steps <= CuMaxSteps

(***************************************************************************)
(* The context cache heals: a name the provider has refused is not sent    *)
(* again by the same call, and the table keeps to its size.                *)
(***************************************************************************)
RefusedNameIsDropped ==
    /\ llm.pc = "loop" => llm.loop.name \notin llm.refused
    /\ Len(local) <= ContextKeys

\* Every call comes to an end, whatever the provider answers.
LlmCallEnds == llm.pc \notin {"idle", "done"} ~> llm.pc \in {"idle", "done"}

=============================================================================
