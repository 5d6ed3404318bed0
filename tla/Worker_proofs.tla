---------------------------- MODULE Worker_proofs ----------------------------
(***************************************************************************)
(* Theorems about the services of the worker: the LLM client, for any      *)
(* options, rounds and cached contents, the feed fetches, for any bases    *)
(* and fetches at work, the comment collectors, for any pages, and the     *)
(* digest loop, for any zone and hour but the last.                        *)
(***************************************************************************)
EXTENDS LlmClient, FeedFetch, Comments, Schedules, Ordering_proofs

-----------------------------------------------------------------------------
(*****************************************************************************)
(* LlmClient.  What is still to be tried is allowed (TodoSound), so an answer*)
(* comes from a mode that is (EndSound); the first answer is kept with what  *)
(* came with it while it is translated (PurposeSound).                       *)
(*****************************************************************************)
PhaseNames == {"video", "frames", "text"}

\* An input mode that the options allow.
Allows(o, input) == \E p \in PhaseNames : Wants(o, p) /\ InputOf(p) = input

IsCall(c) ==
    c = [pc |-> c.pc, purpose |-> c.purpose, opts |-> c.opts, asked |-> c.asked,
         first |-> c.first, todo |-> c.todo, loop |-> c.loop, deferred |-> c.deferred,
         answer |-> c.answer, recreated |-> c.recreated, refused |-> c.refused,
         requests |-> c.requests, outcome |-> c.outcome]

\* What is still to be tried is allowed; in a loop it begins with the mode at work.
TodoSound(c) ==
    /\ c.todo \in Seq(PhaseNames)
    /\ \A i \in DOMAIN c.todo : Wants(c.asked, c.todo[i])
    /\ c.pc \in {"loop", "tools", "recreate"} => c.todo # <<>>
    /\ ~c.deferred.text

\* The first answer of a call that translates was one to accept.
PurposeSound(c) ==
    /\ c.purpose = "answer" => c.asked = c.opts
    /\ c.purpose = "translation" =>
          c.opts.thoughts /\ c.first.text /\ c.first.signed /\ Allows(c.opts, c.first.input)

EndSound(c) ==
    /\ c.pc = "answered" /\ c.answer.text => Allows(c.asked, c.answer.input)
    /\ c.pc = "done" /\ c.outcome = "succeeded" /\ c.purpose # "translation" =>
          c.opts.thoughts /\ c.answer.text /\ c.answer.signed /\ Allows(c.opts, c.answer.input)

CallSound(c) == IsCall(c) /\ TodoSound(c) /\ PurposeSound(c) /\ EndSound(c)
LlmInv == CallSound(llm)

Holds(s, x) == \E k \in DOMAIN s : s[k] = x

\* A concatenation holds what its parts hold.
LEMMA ConcatHas ==
  ASSUME NEW W, NEW a \in Seq(W), NEW b \in Seq(W)
  PROVE  /\ a \o b \in Seq(W)
         /\ \A i \in DOMAIN a : Holds(a \o b, a[i])
         /\ \A i \in DOMAIN b : Holds(a \o b, b[i])
<1>1. /\ a \o b \in Seq(W) /\ Len(a \o b) = Len(a) + Len(b)
      /\ Len(a) \in Nat /\ Len(b) \in Nat
  OBVIOUS
<1>2. ASSUME NEW i \in DOMAIN a PROVE i \in DOMAIN (a \o b) /\ (a \o b)[i] = a[i]
  OBVIOUS
<1>3. ASSUME NEW i \in DOMAIN b
      PROVE  i + Len(a) \in DOMAIN (a \o b) /\ (a \o b)[i + Len(a)] = b[i]
  OBVIOUS
<1> QED
  BY <1>1, <1>2, <1>3 DEF Holds

\* The modes to try are those that the options allow.
LEMMA PhasesOf ==
  ASSUME NEW o, NEW s, s = Phases(o)
  PROVE  /\ s \in Seq(PhaseNames) /\ \A i \in DOMAIN s : Wants(o, s[i])
         /\ \A p \in PhaseNames : Wants(o, p) => \E i \in DOMAIN s : s[i] = p
<1> DEFINE W == {p \in PhaseNames : Wants(o, p)}
           Try(p) == IF Wants(o, p) THEN <<p>> ELSE <<>>
<1>1. \A p \in PhaseNames : Try(p) \in Seq(W) /\ (p \in W => \E i \in DOMAIN Try(p) : Try(p)[i] = p)
  <2> SUFFICES ASSUME NEW p \in PhaseNames
               PROVE  Try(p) \in Seq(W) /\ (p \in W => \E i \in DOMAIN Try(p) : Try(p)[i] = p)
    OBVIOUS
  <2>1. CASE p \in W
    <3>1. Try(p) = <<p>> /\ <<p>> \in Seq(W) /\ 1 \in DOMAIN <<p>> /\ <<p>>[1] = p
      BY <2>1
    <3> QED
      BY <3>1, Zenon
  <2>2. CASE p \notin W
    <3>1. Try(p) = <<>>
      BY <2>2
    <3>2. <<>> \in Seq(W)
      OBVIOUS
    <3> QED
      BY <3>1, <3>2, <2>2, Zenon
  <2> QED
    BY <2>1, <2>2
<1>2. PICK a : a = Try("video")
  OBVIOUS
<1>3. PICK b : b = Try("frames")
  OBVIOUS
<1>4. PICK c : c = Try("text")
  OBVIOUS
<1>5. PICK d : d = a \o b
  OBVIOUS
<1>6. s = d \o c
  BY <1>2, <1>3, <1>4, <1>5 DEF Phases
<1> HIDE DEF W, Try
<1>7. /\ a \in Seq(W) /\ b \in Seq(W) /\ c \in Seq(W)
      /\ "video" \in W => \E i \in DOMAIN a : a[i] = "video"
      /\ "frames" \in W => \E i \in DOMAIN b : b[i] = "frames"
      /\ "text" \in W => \E i \in DOMAIN c : c[i] = "text"
  BY <1>1, <1>2, <1>3, <1>4 DEF PhaseNames
<1>8. /\ d \in Seq(W)
      /\ \A i \in DOMAIN a : \E k \in DOMAIN d : d[k] = a[i]
      /\ \A i \in DOMAIN b : \E k \in DOMAIN d : d[k] = b[i]
  <2>1. /\ a \o b \in Seq(W)
        /\ \A i \in DOMAIN a : Holds(a \o b, a[i])
        /\ \A i \in DOMAIN b : Holds(a \o b, b[i])
    BY <1>7, ConcatHas
  <2> QED
    BY <1>5, <2>1 DEF Holds
<1>9. /\ s \in Seq(W)
      /\ \A i \in DOMAIN d : \E k \in DOMAIN s : s[k] = d[i]
      /\ \A i \in DOMAIN c : \E k \in DOMAIN s : s[k] = c[i]
  <2>1. /\ d \o c \in Seq(W)
        /\ \A i \in DOMAIN d : Holds(d \o c, d[i])
        /\ \A i \in DOMAIN c : Holds(d \o c, c[i])
    <3>1. d \in Seq(W) /\ c \in Seq(W)
      BY <1>7, <1>8
    <3> QED
      BY <3>1, ConcatHas
  <2> QED
    BY <1>6, <2>1 DEF Holds
<1>10. \A p \in W : \E k \in DOMAIN s : s[k] = p
  <2>1. \A p \in W : p \in {"video", "frames", "text"}
    BY DEF W, PhaseNames
  <2>2. \A i \in DOMAIN a : \E k \in DOMAIN s : s[k] = a[i]
    BY <1>8, <1>9
  <2>3. \A i \in DOMAIN b : \E k \in DOMAIN s : s[k] = b[i]
    BY <1>8, <1>9
  <2> QED
    BY <1>7, <1>9, <2>1, <2>2, <2>3
<1>11. \A i \in DOMAIN s : s[i] \in W
  BY <1>9
<1>12. W \subseteq PhaseNames /\ \A p \in PhaseNames : p \in W <=> Wants(o, p)
  BY DEF W
<1>13. s \in Seq(PhaseNames)
  BY <1>9, <1>12
<1> QED
  BY <1>10, <1>11, <1>12, <1>13

\* gemini_generate is entered.
LEMMA EnteredOf ==
  ASSUME NEW purpose, NEW opts, NEW asked, NEW first, NEW z,
         z = Entered(purpose, opts, asked, first),
         purpose = "answer" => asked = opts,
         purpose = "translation" =>
            opts.thoughts /\ first.text /\ first.signed /\ Allows(opts, first.input)
  PROVE  CallSound(z)
<1>1. PICK todo : todo = Phases(asked)
  OBVIOUS
<1>2. todo \in Seq(PhaseNames) /\ \A i \in DOMAIN todo : Wants(asked, todo[i])
  BY <1>1, PhasesOf
<1>3. /\ IsCall(z) /\ z.pc = "client" /\ z.purpose = purpose /\ z.opts = opts /\ z.asked = asked
      /\ z.first = first /\ z.todo = todo /\ z.deferred = NoAnswer
  BY <1>1 DEF Entered, IsCall
<1>4. ~NoAnswer.text
  BY DEF NoAnswer
<1>5. TodoSound(z)
  BY <1>2, <1>3, <1>4 DEF TodoSound
<1>6. PurposeSound(z) /\ EndSound(z)
  BY <1>3 DEF PurposeSound, EndSound
<1> QED
  BY <1>3, <1>5, <1>6 DEF CallSound

\* A step of a call that does not end it.
LEMMA CallGoesOn ==
  ASSUME LlmInv, NEW z, llm' = z, IsCall(z), TodoSound(z),
         z.purpose = llm.purpose, z.opts = llm.opts, z.asked = llm.asked, z.first = llm.first,
         z.pc \notin {"answered", "done"}
  PROVE  LlmInv'
<1>1. PurposeSound(z) /\ EndSound(z)
  BY DEF LlmInv, CallSound, PurposeSound, EndSound
<1> QED
  BY <1>1 DEF LlmInv, CallSound

\* A step of a call that answers it.
LEMMA CallAnswered ==
  ASSUME LlmInv, NEW z, llm' = z, IsCall(z), NEW a,
         z.purpose = llm.purpose, z.opts = llm.opts, z.asked = llm.asked, z.first = llm.first,
         z.todo = llm.todo, z.deferred = llm.deferred, z.answer = a, z.pc = "answered",
         a.text => Allows(llm.asked, a.input)
  PROVE  LlmInv'
<1>1. PurposeSound(z) /\ EndSound(z) /\ TodoSound(z)
  BY DEF LlmInv, CallSound, PurposeSound, EndSound, TodoSound
<1> QED
  BY <1>1 DEF LlmInv, CallSound

\* gemini_generate returns.
LEMMA ReturnKeeps ==
  ASSUME LlmInv, NEW a, Return(a), a.text => Allows(llm.asked, a.input) PROVE LlmInv'
<1>1. IsCall(llm)
  BY DEF LlmInv, CallSound
<1>2. PICK z : z = [llm EXCEPT !.pc = "answered", !.answer = a, !.loop = NoToolLoop]
  OBVIOUS
<1>3. /\ IsCall(z) /\ z.purpose = llm.purpose /\ z.opts = llm.opts /\ z.asked = llm.asked
      /\ z.first = llm.first /\ z.todo = llm.todo /\ z.deferred = llm.deferred
      /\ z.answer = a /\ z.pc = "answered"
  BY <1>1, <1>2 DEF IsCall
<1>4. llm' = z
  BY <1>2 DEF Return
<1> QED
  BY <1>3, <1>4, CallAnswered

\* The mode at work is one that the options allow.
LEMMA PhaseAllowed ==
  ASSUME LlmInv, llm.todo # <<>>
  PROVE  /\ Phase \in PhaseNames /\ Wants(llm.asked, Phase) /\ Allows(llm.asked, InputOf(Phase))
         /\ Tail(llm.todo) \in Seq(PhaseNames)
         /\ \A i \in DOMAIN Tail(llm.todo) : Wants(llm.asked, Tail(llm.todo)[i])
<1>1. llm.todo \in Seq(PhaseNames) /\ \A i \in DOMAIN llm.todo : Wants(llm.asked, llm.todo[i])
  BY DEF LlmInv, CallSound, TodoSound
<1>2. 1 \in DOMAIN llm.todo /\ Phase = llm.todo[1]
  BY <1>1 DEF Phase
<1>3. Phase \in PhaseNames /\ Wants(llm.asked, Phase)
  BY <1>1, <1>2
<1>4. PICK rest : rest = Tail(llm.todo)
  OBVIOUS
<1>5. /\ rest \in Seq(PhaseNames)
      /\ \A i \in DOMAIN rest : i + 1 \in DOMAIN llm.todo /\ rest[i] = llm.todo[i + 1]
  BY <1>1, <1>4
<1> QED
  BY <1>1, <1>3, <1>4, <1>5 DEF Allows

\* A mode fails, and the next one is tried.
LEMMA PassKeeps ==
  ASSUME LlmInv, llm.todo # <<>>, NEW d, ~d.text, Pass(d) PROVE LlmInv'
<1>1. IsCall(llm)
  BY DEF LlmInv, CallSound
<1>2. PICK z : z = [llm EXCEPT !.pc = "phase", !.todo = Tail(@), !.deferred = d,
                               !.loop = NoToolLoop]
  OBVIOUS
<1>3. /\ IsCall(z) /\ z.purpose = llm.purpose /\ z.opts = llm.opts /\ z.asked = llm.asked
      /\ z.first = llm.first /\ z.todo = Tail(llm.todo) /\ z.deferred = d /\ z.pc = "phase"
  BY <1>1, <1>2 DEF IsCall
<1>4. TodoSound(z)
  BY <1>3, PhaseAllowed DEF TodoSound
<1>5. llm' = z
  BY <1>2 DEF Pass
<1> QED
  BY <1>3, <1>4, <1>5, CallGoesOn

\* The loop of a mode is entered.
LEMMA EnterKeeps ==
  ASSUME LlmInv, llm.todo # <<>>, NEW name, Enter(name) PROVE LlmInv'
<1>1. IsCall(llm)
  BY DEF LlmInv, CallSound
<1>2. PICK z : z = [llm EXCEPT !.pc = "loop", !.loop = Loop("loop", name)]
  OBVIOUS
<1>3. /\ IsCall(z) /\ z.purpose = llm.purpose /\ z.opts = llm.opts /\ z.asked = llm.asked
      /\ z.first = llm.first /\ z.todo = llm.todo /\ z.deferred = llm.deferred /\ z.pc = "loop"
  BY <1>1, <1>2 DEF IsCall
<1>4. TodoSound(z)
  BY <1>3 DEF TodoSound, LlmInv, CallSound
<1>5. llm' = z
  BY <1>2 DEF Enter
<1> QED
  BY <1>3, <1>4, <1>5, CallGoesOn

\* An answer of the loop comes from the mode at work.
LEMMA LoopEndsKeeps ==
  ASSUME LlmInv, llm.todo # <<>>, NEW a, a.input = InputOf(Phase), NEW refused,
         LoopEnds(a, refused)
  PROVE  LlmInv'
<1>1. IsCall(llm)
  BY DEF LlmInv, CallSound
<1>2. PICK w : w = [llm EXCEPT !.requests = @ + 1, !.refused = refused, !.loop = NoToolLoop]
  OBVIOUS
<1>3. /\ IsCall(w) /\ w.purpose = llm.purpose /\ w.opts = llm.opts /\ w.asked = llm.asked
      /\ w.first = llm.first /\ w.todo = llm.todo /\ w.deferred = llm.deferred
  BY <1>1, <1>2 DEF IsCall
<1>4. CASE llm' = [w EXCEPT !.pc = "answered", !.answer = a]
  <2>1. PICK z : z = [w EXCEPT !.pc = "answered", !.answer = a]
    OBVIOUS
  <2>2. /\ IsCall(z) /\ z.purpose = llm.purpose /\ z.opts = llm.opts /\ z.asked = llm.asked
        /\ z.first = llm.first /\ z.todo = llm.todo /\ z.deferred = llm.deferred
        /\ z.answer = a /\ z.pc = "answered"
    BY <1>3, <2>1 DEF IsCall
  <2>3. Allows(llm.asked, a.input) /\ llm' = z
    BY <1>4, <2>1, PhaseAllowed
  <2> QED
    BY <2>2, <2>3, CallAnswered
<1>5. CASE llm' = [w EXCEPT !.pc = "phase", !.todo = Tail(@), !.deferred = a] /\ ~a.text
  <2>1. PICK z : z = [w EXCEPT !.pc = "phase", !.todo = Tail(@), !.deferred = a]
    OBVIOUS
  <2>2. /\ IsCall(z) /\ z.purpose = llm.purpose /\ z.opts = llm.opts /\ z.asked = llm.asked
        /\ z.first = llm.first /\ z.todo = Tail(llm.todo) /\ z.deferred = a /\ z.pc = "phase"
    BY <1>3, <2>1 DEF IsCall
  <2>3. TodoSound(z)
    BY <1>5, <2>2, PhaseAllowed DEF TodoSound
  <2> QED
    BY <1>5, <2>1, <2>2, <2>3, CallGoesOn
<1>6. CASE llm' = [w EXCEPT !.pc = "recreate"]
  <2>1. PICK z : z = [w EXCEPT !.pc = "recreate"]
    OBVIOUS
  <2>2. /\ IsCall(z) /\ z.purpose = llm.purpose /\ z.opts = llm.opts /\ z.asked = llm.asked
        /\ z.first = llm.first /\ z.todo = llm.todo /\ z.deferred = llm.deferred
        /\ z.pc = "recreate"
    BY <1>3, <2>1 DEF IsCall
  <2>3. TodoSound(z)
    BY <2>2 DEF TodoSound, LlmInv, CallSound
  <2> QED
    BY <1>6, <2>1, <2>2, <2>3, CallGoesOn
<1>7. \/ llm' = [w EXCEPT !.pc = "answered", !.answer = a]
      \/ llm' = [w EXCEPT !.pc = "phase", !.todo = Tail(@), !.deferred = a] /\ ~a.text
      \/ llm' = [w EXCEPT !.pc = "recreate"]
  BY <1>2 DEF LoopEnds
<1> QED
  BY <1>4, <1>5, <1>6, <1>7

\* A step that changes nothing but where the call is, in its loop.
LEMMA LoopStepKeeps ==
  ASSUME LlmInv, llm.pc \in {"client", "loop", "tools", "recreate"}, NEW z, llm' = z, IsCall(z),
         z.purpose = llm.purpose, z.opts = llm.opts, z.asked = llm.asked, z.first = llm.first,
         z.todo = llm.todo, z.deferred = llm.deferred,
         z.pc \in {"phase", "loop", "tools"}, llm.pc = "client" => z.pc = "phase"
  PROVE  LlmInv'
<1>1. TodoSound(z)
  BY DEF TodoSound, LlmInv, CallSound
<1> QED
  BY <1>1, CallGoesOn

LEMMA LlmStarts == LlmInit => LlmInv
<1> SUFFICES ASSUME LlmInit PROVE LlmInv
  OBVIOUS
<1>1. PICK z : z = Entered("answer", NoOptions, NoOptions, NoAnswer)
  OBVIOUS
<1>2. CallSound(z)
  BY <1>1, EnteredOf
<1>3. llm = [z EXCEPT !.pc = "idle"]
  BY <1>1 DEF LlmInit, Idle
<1>4. IsCall(z)
  BY <1>2 DEF CallSound
<1>5. /\ IsCall(llm) /\ llm.purpose = z.purpose /\ llm.opts = z.opts /\ llm.asked = z.asked
      /\ llm.first = z.first /\ llm.todo = z.todo /\ llm.deferred = z.deferred /\ llm.pc = "idle"
  BY <1>3, <1>4 DEF IsCall
<1>6. TodoSound(llm) /\ PurposeSound(llm) /\ EndSound(llm)
  BY <1>2, <1>5 DEF CallSound, TodoSound, PurposeSound, EndSound
<1> QED
  BY <1>5, <1>6 DEF LlmInv, CallSound

LEMMA CallLlmKeeps == ASSUME LlmInv, NEW o, CallLlm(o) PROVE LlmInv'
<1>1. PICK z : z = Entered("answer", o, o, NoAnswer)
  OBVIOUS
<1>2. CallSound(z)
  BY <1>1, EnteredOf
<1>3. llm' = z
  BY <1>1 DEF CallLlm
<1> QED
  BY <1>2, <1>3 DEF LlmInv

LEMMA ClientFailsKeeps == ASSUME LlmInv, ClientFails PROVE LlmInv'
<1>1. PICK a : a = Answer(FALSE, "none", FALSE, "other")
  OBVIOUS
<1>2. ~a.text
  BY <1>1 DEF Answer
<1>3. Return(a)
  BY <1>1 DEF ClientFails
<1> QED
  BY <1>2, <1>3, ReturnKeeps

LEMMA ClientReadyKeeps == ASSUME LlmInv, ClientReady PROVE LlmInv'
<1>1. IsCall(llm)
  BY DEF LlmInv, CallSound
<1>2. PICK z : z = [llm EXCEPT !.pc = "phase"]
  OBVIOUS
<1>3. /\ IsCall(z) /\ z.purpose = llm.purpose /\ z.opts = llm.opts /\ z.asked = llm.asked
      /\ z.first = llm.first /\ z.todo = llm.todo /\ z.deferred = llm.deferred /\ z.pc = "phase"
  BY <1>1, <1>2 DEF IsCall
<1>4. llm' = z /\ llm.pc = "client"
  BY <1>2 DEF ClientReady
<1> QED
  BY <1>3, <1>4, LoopStepKeeps

\* Upload, BuildFrames, PlainText and CachedText.
LEMMA PhasesKeep ==
  ASSUME LlmInv, Upload \/ BuildFrames \/ PlainText \/ CachedText PROVE LlmInv'
<1>1. llm.todo # <<>>
  BY DEF Upload, BuildFrames, PlainText, CachedText, AtPhase
<1>2. ~llm.deferred.text
  BY DEF LlmInv, CallSound, TodoSound
<1>3. \/ \E name : Enter(name)
      \/ \E e : Pass(Answer(FALSE, "video_text", FALSE, e))
      \/ Pass(llm.deferred)
  BY DEF Upload, BuildFrames, PlainText, CachedText
<1>4. ASSUME NEW e, Pass(Answer(FALSE, "video_text", FALSE, e)) PROVE LlmInv'
  <2>1. PICK a : a = Answer(FALSE, "video_text", FALSE, e)
    OBVIOUS
  <2>2. ~a.text
    BY <2>1 DEF Answer
  <2>3. Pass(a)
    BY <1>4, <2>1
  <2> QED
    BY <1>1, <2>2, <2>3, PassKeeps
<1>5. CASE Pass(llm.deferred)
  <2>1. PICK a : a = llm.deferred
    OBVIOUS
  <2>2. ~a.text /\ Pass(a)
    BY <1>2, <1>5, <2>1
  <2> QED
    BY <1>1, <2>2, PassKeeps
<1>6. ASSUME NEW name, Enter(name) PROVE LlmInv'
  BY <1>1, <1>6, EnterKeeps
<1> QED
  BY <1>3, <1>4, <1>5, <1>6

LEMMA GiveUpKeeps == ASSUME LlmInv, GiveUp PROVE LlmInv'
<1>1. PICK a : a = IF llm.deferred = NoAnswer THEN Answer(FALSE, "none", FALSE, "other")
                   ELSE llm.deferred
  OBVIOUS
<1>2. ~llm.deferred.text
  BY DEF LlmInv, CallSound, TodoSound
<1>3. ~a.text
  BY <1>1, <1>2 DEF Answer
<1>4. Return(a)
  BY <1>1 DEF GiveUp
<1> QED
  BY <1>3, <1>4, ReturnKeeps

LEMMA RequestFailsKeeps == ASSUME LlmInv, RequestFails PROVE LlmInv'
<1>1. llm.todo # <<>>
  BY DEF RequestFails, LlmInv, CallSound, TodoSound
<1>2. PICK e, refused : LoopEnds(Answer(FALSE, InputOf(Phase), FALSE, e), refused)
  BY DEF RequestFails
<1>3. PICK a : a = Answer(FALSE, InputOf(Phase), FALSE, e)
  OBVIOUS
<1>4. a.input = InputOf(Phase)
  BY <1>3 DEF Answer
<1>5. LoopEnds(a, refused)
  BY <1>2, <1>3
<1> QED
  BY <1>1, <1>4, <1>5, LoopEndsKeeps

LEMMA RequestAnsweredKeeps == ASSUME LlmInv, RequestAnswered PROVE LlmInv'
<1>1. llm.todo # <<>> /\ llm.pc = "loop"
  BY DEF RequestAnswered, LlmInv, CallSound, TodoSound
<1>2. PICK r : Respond(r)
  BY DEF RequestAnswered
<1>3. PICK turn : turn = [llm.loop EXCEPT !.round = @ + 1, !.signed = @ \/ r.signed,
                                          !.thought = @ \/ r.thought]
  OBVIOUS
<1>4. \/ llm' = [llm EXCEPT !.pc = "tools", !.requests = @ + 1,
                            !.loop = [turn EXCEPT !.pending = r.asks]]
      \/ LoopEnds(Answer(FALSE, InputOf(Phase), FALSE, "contract"), llm.refused)
      \/ LoopEnds(Answer(r.text, InputOf(Phase), turn.signed, "none"), llm.refused)
  BY <1>2, <1>3 DEF Respond
<1>5. CASE llm' = [llm EXCEPT !.pc = "tools", !.requests = @ + 1,
                              !.loop = [turn EXCEPT !.pending = r.asks]]
  <2>1. PICK z : z = [llm EXCEPT !.pc = "tools", !.requests = @ + 1,
                                 !.loop = [turn EXCEPT !.pending = r.asks]]
    OBVIOUS
  <2>2. IsCall(llm)
    BY DEF LlmInv, CallSound
  <2>3. /\ IsCall(z) /\ z.purpose = llm.purpose /\ z.opts = llm.opts /\ z.asked = llm.asked
        /\ z.first = llm.first /\ z.todo = llm.todo /\ z.deferred = llm.deferred
        /\ z.pc = "tools"
    BY <2>1, <2>2 DEF IsCall
  <2>4. llm' = z
    BY <1>5, <2>1
  <2> QED
    BY <1>1, <2>3, <2>4, LoopStepKeeps
<1>6. ASSUME NEW t, NEW sd, NEW e, LoopEnds(Answer(t, InputOf(Phase), sd, e), llm.refused)
      PROVE  LlmInv'
  <2>1. PICK a : a = Answer(t, InputOf(Phase), sd, e)
    OBVIOUS
  <2>2. a.input = InputOf(Phase)
    BY <2>1 DEF Answer
  <2>3. LoopEnds(a, llm.refused)
    BY <1>6, <2>1
  <2> QED
    BY <1>1, <2>2, <2>3, LoopEndsKeeps
<1> QED
  BY <1>4, <1>5, <1>6, Zenon

LEMMA RunToolKeeps == ASSUME LlmInv, RunTool PROVE LlmInv'
<1>1. IsCall(llm) /\ llm.pc = "tools"
  BY DEF LlmInv, CallSound, RunTool
<1>2. PICK acted : llm' = [llm EXCEPT !.loop.pending = Tail(@), !.loop.steps = @ + acted,
                             !.pc = IF Len(llm.loop.pending) = 1 THEN "loop" ELSE "tools"]
  BY DEF RunTool
<1>3. PICK z : z = [llm EXCEPT !.loop.pending = Tail(@), !.loop.steps = @ + acted,
                               !.pc = IF Len(llm.loop.pending) = 1 THEN "loop" ELSE "tools"]
  OBVIOUS
<1>4. /\ IsCall(z) /\ z.purpose = llm.purpose /\ z.opts = llm.opts /\ z.asked = llm.asked
      /\ z.first = llm.first /\ z.todo = llm.todo /\ z.deferred = llm.deferred
      /\ z.pc \in {"loop", "tools"}
  BY <1>1, <1>3 DEF IsCall
<1>5. llm' = z
  BY <1>2, <1>3
<1> QED
  BY <1>1, <1>4, <1>5, LoopStepKeeps

LEMMA RecreateKeeps == ASSUME LlmInv, Recreate PROVE LlmInv'
<1>1. IsCall(llm) /\ llm.pc = "recreate"
  BY DEF LlmInv, CallSound, Recreate
<1>2. PICK c : llm' = [llm EXCEPT !.pc = "loop", !.recreated = TRUE,
                                  !.loop = Loop("loop", c.name)]
  BY DEF Recreate
<1>3. PICK z : z = [llm EXCEPT !.pc = "loop", !.recreated = TRUE,
                               !.loop = Loop("loop", c.name)]
  OBVIOUS
<1>4. /\ IsCall(z) /\ z.purpose = llm.purpose /\ z.opts = llm.opts /\ z.asked = llm.asked
      /\ z.first = llm.first /\ z.todo = llm.todo /\ z.deferred = llm.deferred
      /\ z.pc = "loop"
  BY <1>1, <1>3 DEF IsCall
<1>5. llm' = z
  BY <1>2, <1>3
<1> QED
  BY <1>1, <1>4, <1>5, LoopStepKeeps

\* A step that succeeds on its own answer has accepted it.
LEMMA StepEndsKeeps ==
  ASSUME LlmInv, NEW outcome, StepEnds(outcome),
         outcome = "succeeded" /\ llm.purpose # "translation" =>
            llm.opts.thoughts /\ llm.answer.text /\ llm.answer.signed
            /\ Allows(llm.opts, llm.answer.input)
  PROVE  LlmInv'
<1>1. IsCall(llm)
  BY DEF LlmInv, CallSound
<1>2. PICK z : z = [llm EXCEPT !.pc = "done", !.outcome = outcome, !.requests = 0,
                               !.refused = {}, !.todo = <<>>, !.deferred = NoAnswer]
  OBVIOUS
<1>3. /\ IsCall(z) /\ z.purpose = llm.purpose /\ z.opts = llm.opts /\ z.asked = llm.asked
      /\ z.first = llm.first /\ z.todo = <<>> /\ z.deferred = NoAnswer
      /\ z.pc = "done" /\ z.outcome = outcome /\ z.answer = llm.answer
  BY <1>1, <1>2 DEF IsCall
<1>4. ~NoAnswer.text
  BY DEF NoAnswer
<1>5. TodoSound(z)
  BY <1>3, <1>4 DEF TodoSound
<1>6. PurposeSound(z)
  BY <1>3 DEF PurposeSound, LlmInv, CallSound
<1>7. EndSound(z)
  BY <1>3 DEF EndSound
<1>8. llm' = z
  BY <1>2 DEF StepEnds
<1> QED
  BY <1>3, <1>5, <1>6, <1>7, <1>8 DEF LlmInv, CallSound

LEMMA JudgeKeeps == ASSUME LlmInv, Judge PROVE LlmInv'
<1>1. llm.pc = "answered" /\ llm.purpose = "answer" /\ llm.asked = llm.opts
  BY DEF Judge, LlmInv, CallSound, PurposeSound
<1>2. Acceptable => /\ llm.opts.thoughts /\ llm.answer.text /\ llm.answer.signed
                    /\ Allows(llm.opts, llm.answer.input)
  BY <1>1 DEF Acceptable, LlmInv, CallSound, EndSound
<1>3. \/ \E o \in {"text", "failed"} : StepEnds(o)
      \/ Acceptable /\ \E o \in {"succeeded", "failed"} : StepEnds(o)
      \/ Acceptable /\ llm' = Entered("translation", llm.opts, Translation(llm.opts), llm.answer)
  BY DEF Judge
<1>4. ASSUME NEW o \in {"text", "failed"}, StepEnds(o) PROVE LlmInv'
  <2>1. o # "succeeded"
    OBVIOUS
  <2> QED
    BY <1>4, <2>1, StepEndsKeeps
<1>5. ASSUME Acceptable, NEW o, StepEnds(o) PROVE LlmInv'
  BY <1>2, <1>5, StepEndsKeeps
<1>6. CASE /\ Acceptable
           /\ llm' = Entered("translation", llm.opts, Translation(llm.opts), llm.answer)
  <2>1. PICK z : z = Entered("translation", llm.opts, Translation(llm.opts), llm.answer)
    OBVIOUS
  <2>2. CallSound(z)
    BY <1>2, <1>6, <2>1, EnteredOf
  <2> QED
    BY <1>6, <2>1, <2>2 DEF LlmInv
<1> QED
  BY <1>3, <1>4, <1>5, <1>6

LEMMA JudgeTranslationKeeps == ASSUME LlmInv, JudgeTranslation PROVE LlmInv'
<1>1. PICK o : StepEnds(o)
  BY DEF JudgeTranslation
<1>2. llm.purpose = "translation"
  BY DEF JudgeTranslation
<1> QED
  BY <1>1, <1>2, StepEndsKeeps

\* Every step keeps the invariant.
LEMMA LlmInductive == LlmInv /\ [LlmNext]_llmVars => LlmInv'
<1> SUFFICES ASSUME LlmInv, [LlmNext]_llmVars PROVE LlmInv'
  OBVIOUS
<1>1. ASSUME NEW o, CallLlm(o) PROVE LlmInv'
  BY <1>1, CallLlmKeeps
<1>2. CASE ClientFails \/ ClientReady
  BY <1>2, ClientFailsKeeps, ClientReadyKeeps
<1>3. CASE Upload \/ BuildFrames \/ PlainText \/ CachedText
  BY <1>3, PhasesKeep
<1>4. CASE GiveUp \/ RequestFails \/ RequestAnswered
  BY <1>4, GiveUpKeeps, RequestFailsKeeps, RequestAnsweredKeeps
<1>5. CASE RunTool \/ Recreate
  BY <1>5, RunToolKeeps, RecreateKeeps
<1>6. CASE Judge \/ JudgeTranslation
  BY <1>6, JudgeKeeps, JudgeTranslationKeeps
<1>7. CASE Age \/ (\E name \in live : Forget(name)) \/ UNCHANGED llmVars
  <2>1. llm' = llm
    BY <1>7 DEF Age, Forget, llmVars
  <2> QED
    BY <2>1 DEF LlmInv
<1> QED
  BY <1>1, <1>2, <1>3, <1>4, <1>5, <1>6, <1>7 DEF LlmNext, Generate

\* What a step has accepted was earned.
LEMMA EarnedFollows == LlmInv => AnswerIsEarned
<1> SUFFICES ASSUME LlmInv, llm.pc = "done", llm.outcome = "succeeded"
             PROVE  /\ llm.opts.thoughts /\ Judged.text /\ Judged.signed
                    /\ \E p \in ToSet(Phases(llm.opts)) : InputOf(p) = Judged.input
  BY DEF AnswerIsEarned
<1>1. /\ llm.opts.thoughts /\ Judged.text /\ Judged.signed
      /\ Allows(llm.opts, Judged.input)
  <2>1. CASE llm.purpose = "translation"
    BY <2>1 DEF LlmInv, CallSound, PurposeSound, Judged
  <2>2. CASE llm.purpose # "translation"
    BY <2>2 DEF LlmInv, CallSound, EndSound, Judged
  <2> QED
    BY <2>1, <2>2
<1>2. PICK p \in PhaseNames : Wants(llm.opts, p) /\ InputOf(p) = Judged.input
  BY <1>1 DEF Allows
<1>3. PICK s : s = Phases(llm.opts)
  OBVIOUS
<1>4. \E i \in DOMAIN s : s[i] = p
  BY <1>2, <1>3, PhasesOf
<1>5. p \in ToSet(s)
  BY <1>4 DEF ToSet
<1> QED
  BY <1>1, <1>2, <1>3, <1>5

\* AnswerIsEarned, whatever the options, the tools, the rounds and the cached contents: a step
\* succeeds on a signed answer, from an input mode that its options allow.
THEOREM EarnedAnswers == LlmSpec => []AnswerIsEarned
<1>1. LlmInit => LlmInv
  BY LlmStarts
<1>2. LlmInv /\ [LlmNext]_llmVars => LlmInv'
  BY LlmInductive
<1>3. LlmInv => AnswerIsEarned
  BY EarnedFollows
<1> QED
  BY <1>1, <1>2, <1>3, PTL DEF LlmSpec

-----------------------------------------------------------------------------
(*****************************************************************************)
(* FeedFetch.  A reorder at work has scored, or has still to score, every    *)
(* base once (ProbeSound), so what it writes is again a list of every base   *)
(* (RankedListing), whoever else reorders meanwhile; and a circuit opens only*)
(* after as many failures as its threshold (BreakersSound).                  *)
(*****************************************************************************)
Score == [base : Bases, score : Nat]

\* A list of every base, once.
Listing(s) == s \in Seq(Bases) /\ Len(s) = Cardinality(Bases) /\ ToSet(s) = Bases

IsFetch(z) ==
    z = [pc |-> z.pc, now |-> z.now, todo |-> z.todo, scores |-> z.scores, cands |-> z.cands,
         tried |-> z.tried, attempt |-> z.attempt, result |-> z.result]

\* A reorder at work has scored, or has still to score, every base once.
ProbeSound(z) ==
    z.pc = "probe" =>
        /\ z.scores \in Seq(Score) /\ z.todo \in Seq(Bases)
        /\ Len(z.scores) + Len(z.todo) = Cardinality(Bases)
        /\ {z.scores[i].base : i \in DOMAIN z.scores} \union ToSet(z.todo) = Bases

FetchesSound ==
    /\ fetch = [f \in Fetches |-> fetch[f]]
    /\ \A f \in Fetches : IsFetch(fetch[f]) /\ ProbeSound(fetch[f])

BreakersSound ==
    /\ failures \in [Bases -> Nat] /\ openUntil = [b \in Bases |-> openUntil[b]]
    /\ \A b \in Bases : openUntil[b] > 0 => failures[b] >= Threshold

FeedInv == FetchesSound /\ Listing(order) /\ BreakersSound

\* There are finitely many bases, and as many places.
LEMMA BasesCount ==
  /\ Cardinality(Bases) \in Nat
  /\ Cardinality(1..Cardinality(Bases)) = Cardinality(Bases)
  /\ IsFiniteSet(1..Cardinality(Bases))
<1>1. Cardinality(Bases) \in Nat
  BY FeedAssumption, FS_CardinalityType
<1> QED
  BY <1>1, FS_Interval

\* A function from the places to the bases is a listing when it repeats none.
LEMMA InjectiveListing ==
  ASSUME NEW s \in [1..Cardinality(Bases) -> Bases],
         \A i, j \in 1..Cardinality(Bases) : s[i] = s[j] => i = j
  PROVE  Listing(s)
<1> DEFINE n == Cardinality(Bases)
<1>1. n \in Nat /\ Cardinality(1..n) = n /\ IsFiniteSet(1..n)
  BY BasesCount
<1>2. s \in Injection(1..n, Bases)
  BY DEF Injection, IsInjective
<1>3. s \in Surjection(1..n, Bases)
  BY <1>1, <1>2, FeedAssumption, FS_Injection
<1> HIDE DEF n
<1>4. s \in Seq(Bases) /\ Len(s) = n /\ DOMAIN s = 1..n
  BY <1>1 DEF n
<1>5. ToSet(s) = Bases
  <2>1. \A b \in Bases : \E i \in 1..n : s[i] = b
    BY <1>3 DEF Surjection
  <2>2. \A i \in 1..n : s[i] \in Bases
    BY DEF n
  <2> QED
    BY <1>4, <2>1, <2>2 DEF ToSet
<1> QED
  BY <1>4, <1>5 DEF Listing, n

\* The order at the start lists every base once.
LEMMA FirstOrder == Listing(SetToSeq(Bases))
<1> DEFINE n == Cardinality(Bases)
           once(s) == \A i, j \in 1..n : s[i] = s[j] => i = j
<1>1. PICK s \in Bijection(1..n, Bases) : TRUE
  BY FeedAssumption, FS_CardinalityType DEF ExistsBijection
<1>2. s \in [1..n -> Bases] /\ IsInjective(s)
  BY <1>1 DEF Bijection, Injection, IsInjective
<1>3. SetToSeq(Bases) \in [1..n -> Bases] /\ IsInjective(SetToSeq(Bases))
  BY <1>2 DEF SetToSeq
<1>4. once(SetToSeq(Bases))
  BY <1>3 DEF IsInjective
<1> QED
  BY <1>3, <1>4, InjectiveListing

-----------------------------------------------------------------------------
\* scored.sort neither loses nor repeats what it sorts.
LEMMA RankedListing ==
  ASSUME NEW s \in Seq(Score), Len(s) = Cardinality(Bases),
         {s[i].base : i \in DOMAIN s} = Bases
  PROVE  Listing(Ranked(s))
<1> DEFINE n == Cardinality(Bases)
           key == [i \in DOMAIN s |-> s[i].score]
           at == HighestFirst(key)
<1>1. n \in Nat /\ DOMAIN s = 1..n
  BY BasesCount
<1>2. \A i \in 1..n : s[i].base \in Bases /\ s[i].score \in Int
  <2>1. \A i \in 1..n : s[i] \in Score
    BY <1>1
  <2> QED
    BY <2>1 DEF Score
<1> HIDE DEF n
<1>3. key \in [1..n -> Int]
  BY <1>1, <1>2
<1>4. Sorts(at, key, n)
  BY <1>1, <1>3, HighestFirstSorts
<1>5. Ranked(s) = [r \in 1..n |-> s[at[r]].base]
  BY <1>1 DEF Ranked
<1> HIDE DEF at
<1>6. Ranked(s) \in [1..n -> Bases]
  BY <1>2, <1>4, <1>5 DEF Sorts
<1>7. ToSet(Ranked(s)) = Bases
  <2>1. ASSUME NEW b \in Bases PROVE \E r \in 1..n : Ranked(s)[r] = b
    <3>1. PICK i \in 1..n : s[i].base = b
      BY <1>1
    <3>2. PICK r \in 1..n : at[r] = i
      BY <1>4 DEF Sorts
    <3> QED
      BY <3>1, <3>2, <1>5
  <2> QED
    BY <2>1, <1>6 DEF ToSet
<1>8. Ranked(s) \in Seq(Bases) /\ Len(Ranked(s)) = n
  BY <1>1, <1>6
<1> QED
  BY <1>7, <1>8 DEF Listing, n

-----------------------------------------------------------------------------
\* A step of one fetch.
LEMMA OneFetch ==
  ASSUME FetchesSound, NEW f \in Fetches, NEW z, IsFetch(z), ProbeSound(z), Set(f, z)
  PROVE  FetchesSound'
<1>1. /\ fetch' = [g \in Fetches |-> fetch'[g]] /\ fetch'[f] = z
      /\ \A g \in Fetches : g # f => fetch'[g] = fetch[g]
  BY DEF FetchesSound, Set
<1>2. \A g \in Fetches : IsFetch(fetch'[g]) /\ ProbeSound(fetch'[g])
  BY <1>1 DEF FetchesSound
<1> QED
  BY <1>1, <1>2 DEF FetchesSound, IsFetch, ProbeSound

LEMMA StartFetchKeeps == ASSUME FeedInv, NEW f \in Fetches, StartFetch(f) PROVE FeedInv'
<1>1. /\ FetchesSound /\ Listing(order) /\ BreakersSound
      /\ UNCHANGED <<order, reorderedAt, failures, openUntil>>
  BY DEF FeedInv, StartFetch, breaker
<1>2. PICK pc : pc = IF clock - reorderedAt >= ReorderTime THEN "probe" ELSE "list"
  OBVIOUS
<1>3. PICK todo : todo = IF clock - reorderedAt >= ReorderTime THEN order ELSE <<>>
  OBVIOUS
<1>4. PICK z : z = [NoFetch EXCEPT !.pc = pc, !.now = clock, !.todo = todo]
  OBVIOUS
<1>5. Set(f, z)
  BY <1>2, <1>3, <1>4 DEF StartFetch, Scored
<1>6. IsFetch(z) /\ z.pc = pc /\ z.todo = todo /\ z.scores = <<>>
  BY <1>4 DEF IsFetch, NoFetch
<1>7. pc = "probe" => todo = order
  BY <1>2, <1>3
<1>8. ProbeSound(z)
  <2> SUFFICES ASSUME z.pc = "probe" PROVE ProbeSound(z)
    BY DEF ProbeSound
  <2>1. z.todo = order /\ z.scores = <<>>
    BY <1>6, <1>7
  <2>2. {z.scores[i].base : i \in DOMAIN z.scores} = {}
    BY <2>1
  <2>3. z.scores \in Seq(Score) /\ Len(z.scores) = 0
    BY <2>1
  <2>4. Cardinality(Bases) \in Nat
    BY BasesCount
  <2> QED
    BY <1>1, <2>1, <2>2, <2>3, <2>4 DEF ProbeSound, Listing
<1>9. FetchesSound'
  BY <1>1, <1>5, <1>6, <1>8, OneFetch
<1> QED
  BY <1>1, <1>9 DEF FeedInv, BreakersSound, Listing

LEMMA ProbeKeeps == ASSUME FeedInv, NEW f \in Fetches, Probe(f) PROVE FeedInv'
<1> DEFINE base == Head(fetch[f].todo)
           lost == IF failures[base] < 3 THEN failures[base] ELSE 3
<1>1. /\ FetchesSound /\ BreakersSound /\ fetch[f].pc = "probe" /\ fetch[f].todo # <<>>
      /\ UNCHANGED <<order, reorderedAt, failures, openUntil>>
  BY DEF FeedInv, Probe, breaker
<1>2. PICK s \in ProbeResults :
        Set(f, [fetch[f] EXCEPT !.todo = Tail(@),
                                !.scores = Append(@, [base |-> base, score |-> 3 + s - lost])])
  BY DEF Probe
<1>3. PICK w : w = fetch[f]
  OBVIOUS
<1>4. /\ IsFetch(w) /\ w.scores \in Seq(Score) /\ w.todo \in Seq(Bases) /\ w.todo # <<>>
      /\ Len(w.scores) + Len(w.todo) = Cardinality(Bases)
      /\ {w.scores[i].base : i \in DOMAIN w.scores} \union ToSet(w.todo) = Bases
  BY <1>1, <1>3 DEF FetchesSound, ProbeSound
<1>5. PICK e : e = [base |-> base, score |-> 3 + s - lost]
  OBVIOUS
<1>6. PICK todo : todo = Tail(w.todo)
  OBVIOUS
<1>7. PICK scores : scores = Append(w.scores, e)
  OBVIOUS
<1>8. PICK z : z = [w EXCEPT !.todo = todo, !.scores = scores]
  OBVIOUS
<1>9. Set(f, z)
  BY <1>2, <1>3, <1>5, <1>6, <1>7, <1>8
<1>10. IsFetch(z) /\ z.todo = todo /\ z.scores = scores
  BY <1>4, <1>8 DEF IsFetch
<1>11. base \in Bases /\ base = w.todo[1]
  BY <1>3, <1>4
<1>12. e \in Score /\ e.base = base
  <2>1. failures[base] \in Nat
    BY <1>1, <1>11 DEF BreakersSound
  <2>2. lost \in 0..3
    BY <2>1
  <2>3. 3 + s - lost \in Nat
    <3> HIDE DEF lost
    <3> QED
      BY <2>2 DEF ProbeResults
  <2> HIDE DEF base, lost
  <2> QED
    BY <1>5, <1>11, <2>3 DEF Score
<1>13. /\ scores \in Seq(Score) /\ Len(scores) = Len(w.scores) + 1
       /\ \A i \in DOMAIN w.scores : i \in DOMAIN scores /\ scores[i] = w.scores[i]
       /\ scores[Len(scores)] = e /\ Len(scores) \in DOMAIN scores
       /\ \A i \in DOMAIN scores : i \in DOMAIN w.scores \/ i = Len(scores)
  BY <1>4, <1>7, <1>12
<1>14. /\ todo \in Seq(Bases) /\ Len(todo) = Len(w.todo) - 1
       /\ \A i \in DOMAIN todo : i + 1 \in DOMAIN w.todo /\ todo[i] = w.todo[i + 1]
       /\ \A i \in DOMAIN w.todo : i = 1 \/ (i - 1 \in DOMAIN todo /\ todo[i - 1] = w.todo[i])
  BY <1>4, <1>6
<1>15. Len(scores) + Len(todo) = Cardinality(Bases)
  <2>1. Len(w.scores) \in Nat /\ Len(w.todo) \in Nat
    BY <1>4
  <2>2. Len(scores) = Len(w.scores) + 1 /\ Len(todo) = Len(w.todo) - 1
    BY <1>13, <1>14
  <2>3. Len(w.scores) + Len(w.todo) = Cardinality(Bases)
    BY <1>4
  <2>4. PICK a \in Nat, b \in Nat : a = Len(w.scores) /\ b = Len(w.todo)
    BY <2>1
  <2>5. Len(scores) + Len(todo) = (a + 1) + (b - 1)
    BY <2>2, <2>4, Zenon
  <2>6. (a + 1) + (b - 1) = a + b
    OBVIOUS
  <2> QED
    BY <2>3, <2>4, <2>5, <2>6, Zenon
<1>16. {scores[i].base : i \in DOMAIN scores} \union ToSet(todo) = Bases
  <2>1. ASSUME NEW b \in {scores[i].base : i \in DOMAIN scores} \union ToSet(todo)
        PROVE  b \in Bases
    <3>1. CASE b \in ToSet(todo)
      BY <3>1, <1>14 DEF ToSet
    <3>2. ASSUME NEW i \in DOMAIN scores, b = scores[i].base PROVE b \in Bases
      <4>1. scores[i] \in Score
        BY <1>13
      <4> QED
        BY <4>1, <3>2 DEF Score
    <3> QED
      BY <3>1, <3>2
  <2>2. ASSUME NEW b \in Bases
        PROVE  b \in {scores[i].base : i \in DOMAIN scores} \union ToSet(todo)
    <3> HIDE DEF base
    <3>1. ASSUME NEW i \in DOMAIN w.scores, b = w.scores[i].base
          PROVE  b \in {scores[k].base : k \in DOMAIN scores}
      BY <3>1, <1>13
    <3>2. ASSUME NEW i \in DOMAIN w.todo, b = w.todo[i], i # 1 PROVE b \in ToSet(todo)
      BY <3>2, <1>14 DEF ToSet
    <3>3. CASE b = w.todo[1]
      BY <3>3, <1>11, <1>12, <1>13
    <3> QED
      BY <3>1, <3>2, <3>3, <1>4 DEF ToSet
  <2> QED
    BY <2>1, <2>2
<1> HIDE DEF base, lost
<1>17. ProbeSound(z)
  <2>1. z.scores \in Seq(Score) /\ z.todo \in Seq(Bases)
    BY <1>10, <1>13, <1>14
  <2>2. Len(z.scores) + Len(z.todo) = Cardinality(Bases)
    BY <1>10, <1>15
  <2>3. {z.scores[i].base : i \in DOMAIN z.scores} \union ToSet(z.todo) = Bases
    BY <1>10, <1>16, Zenon
  <2> QED
    BY <2>1, <2>2, <2>3 DEF ProbeSound
<1>18. FetchesSound'
  BY <1>1, <1>9, <1>10, <1>17, OneFetch
<1> QED
  BY <1>1, <1>18 DEF FeedInv, BreakersSound, Listing

LEMMA ReorderKeeps == ASSUME FeedInv, NEW f \in Fetches, Reorder(f) PROVE FeedInv'
<1>1. /\ FetchesSound /\ BreakersSound /\ fetch[f].pc = "probe" /\ fetch[f].todo = <<>>
      /\ UNCHANGED <<failures, openUntil>> /\ order' = Ranked(fetch[f].scores)
  BY DEF FeedInv, Reorder
<1>2. PICK w : w = fetch[f]
  OBVIOUS
<1>3. /\ IsFetch(w) /\ w.scores \in Seq(Score) /\ w.todo = <<>>
      /\ Len(w.scores) + Len(w.todo) = Cardinality(Bases)
      /\ {w.scores[i].base : i \in DOMAIN w.scores} \union ToSet(w.todo) = Bases
  BY <1>1, <1>2 DEF FetchesSound, ProbeSound
<1>4. Len(w.scores) = Cardinality(Bases) /\ {w.scores[i].base : i \in DOMAIN w.scores} = Bases
  <2>1. ToSet(<<>>) = {} /\ Len(<<>>) = 0
    BY DEF ToSet
  <2>2. Len(w.scores) \in Nat
    BY <1>3
  <2> QED
    BY <1>3, <2>1, <2>2
<1>5. Listing(Ranked(w.scores))
  BY <1>3, <1>4, RankedListing
<1>6. PICK z : z = [w EXCEPT !.pc = "list", !.scores = <<>>]
  OBVIOUS
<1>7. IsFetch(z) /\ z.pc = "list"
  BY <1>3, <1>6 DEF IsFetch
<1>8. Set(f, z)
  BY <1>2, <1>6 DEF Reorder
<1>9. FetchesSound'
  BY <1>1, <1>7, <1>8, OneFetch DEF ProbeSound
<1>10. Listing(order')
  BY <1>1, <1>2, <1>5
<1> QED
  BY <1>1, <1>9, <1>10 DEF FeedInv, BreakersSound, Listing

\* A step of a fetch that is past the reorder.
LEMMA PastReorder ==
  ASSUME FeedInv, NEW f \in Fetches, NEW z, IsFetch(z), z.pc # "probe", Set(f, z),
         UNCHANGED order, BreakersSound'
  PROVE  FeedInv'
<1>1. FetchesSound'
  BY OneFetch DEF FeedInv, ProbeSound
<1> QED
  BY <1>1 DEF FeedInv, Listing

\* Steps that do not record a result.
LEMMA BreakersStay == BreakersSound /\ UNCHANGED <<failures, openUntil>> => BreakersSound'
BY DEF BreakersSound

LEMMA SuccessKeeps == ASSUME BreakersSound, NEW f, RecordSuccess(f) PROVE BreakersSound'
<1>1. CASE UNCHANGED <<failures, openUntil>>
  BY <1>1, BreakersStay
<1>2. ASSUME NEW b, failures' = [failures EXCEPT ![b] = 0], openUntil' = [openUntil EXCEPT ![b] = 0]
      PROVE  BreakersSound'
  <2>1. /\ failures' = [c \in Bases |-> IF c = b THEN 0 ELSE failures[c]]
        /\ openUntil' = [c \in Bases |-> IF c = b THEN 0 ELSE openUntil[c]]
    BY <1>2 DEF BreakersSound
  <2> QED
    BY <2>1 DEF BreakersSound
<1> QED
  BY <1>1, <1>2 DEF RecordSuccess, Closed

LEMMA FailureKeeps == ASSUME BreakersSound, NEW f, RecordFailure(f) PROVE BreakersSound'
<1>1. CASE UNCHANGED <<failures, openUntil>>
  BY <1>1, BreakersStay
<1>2. ASSUME NEW b, NEW n, n = failures[b] + 1, failures' = [failures EXCEPT ![b] = n],
             openUntil' = IF n >= Threshold THEN [openUntil EXCEPT ![b] = clock + BreakTime]
                          ELSE openUntil
      PROVE  BreakersSound'
  <2>1. failures' \in [Bases -> Nat]
    <3>1. failures' = [c \in Bases |-> IF c = b THEN n ELSE failures[c]]
      BY <1>2 DEF BreakersSound
    <3>2. \A c \in Bases : failures[c] \in Nat
      BY DEF BreakersSound
    <3>3. b \in Bases => n \in Nat
      BY <1>2, <3>2
    <3> QED
      BY <3>1, <3>2, <3>3
  <2>2. openUntil' = [c \in Bases |-> openUntil'[c]]
    BY <1>2 DEF BreakersSound
  <2>3. ASSUME NEW c \in Bases, openUntil'[c] > 0 PROVE failures'[c] >= Threshold
    <3>1. failures[c] \in Nat /\ (openUntil[c] > 0 => failures[c] >= Threshold)
      BY DEF BreakersSound
    <3>2. CASE c # b
      <4>1. failures'[c] = failures[c] /\ openUntil'[c] = openUntil[c]
        BY <1>2, <3>2 DEF BreakersSound
      <4> QED
        BY <2>3, <3>1, <4>1
    <3>3. CASE c = b
      <4>1. failures'[c] = n
        BY <1>2, <3>3 DEF BreakersSound
      <4>2. CASE n >= Threshold
        BY <4>1, <4>2
      <4>3. CASE ~(n >= Threshold)
        <5>1. openUntil[c] > 0
          BY <1>2, <2>3, <4>3
        <5> QED
          BY <5>1, <3>1, <3>3, <4>1, <1>2, FeedAssumption
      <4> QED
        BY <4>2, <4>3
    <3> QED
      BY <3>2, <3>3
  <2> QED
    BY <2>1, <2>2, <2>3 DEF BreakersSound
<1> QED
  BY <1>1, <1>2 DEF RecordFailure

LEMMA ListKeeps == ASSUME FeedInv, NEW f \in Fetches, List(f) PROVE FeedInv'
<1>1. IsFetch(fetch[f]) /\ UNCHANGED <<order, reorderedAt, failures, openUntil>> /\ BreakersSound'
  BY BreakersStay DEF FeedInv, FetchesSound, List, breaker
<1>2. PICK z : z = [fetch[f] EXCEPT !.pc = "ask", !.cands = Candidates(fetch[f].now)]
  OBVIOUS
<1>3. IsFetch(z) /\ z.pc = "ask"
  BY <1>1, <1>2 DEF IsFetch
<1>4. Set(f, z)
  BY <1>2 DEF List
<1> QED
  BY <1>1, <1>3, <1>4, PastReorder

LEMMA BodyArrivesKeeps == ASSUME FeedInv, NEW f \in Fetches, BodyArrives(f) PROVE FeedInv'
<1>1. IsFetch(fetch[f]) /\ UNCHANGED order /\ BreakersSound'
  BY SuccessKeeps DEF FeedInv, FetchesSound, BodyArrives
<1>2. PICK r : Set(f, [fetch[f] EXCEPT !.pc = "done", !.result = r, !.tried = Tried(f)])
  BY DEF BodyArrives
<1>3. PICK z : z = [fetch[f] EXCEPT !.pc = "done", !.result = r, !.tried = Tried(f)]
  OBVIOUS
<1>4. IsFetch(z) /\ z.pc = "done"
  BY <1>1, <1>3 DEF IsFetch
<1> QED
  BY <1>1, <1>2, <1>3, <1>4, PastReorder

LEMMA RefusedKeeps == ASSUME FeedInv, NEW f \in Fetches, Refused(f) PROVE FeedInv'
<1>1. IsFetch(fetch[f]) /\ UNCHANGED order /\ fetch[f].pc = "ask" /\ BreakersSound
  BY DEF FeedInv, FetchesSound, Refused
<1>2. CASE /\ Set(f, [fetch[f] EXCEPT !.pc = "wait", !.attempt = @ + 1])
           /\ UNCHANGED <<failures, openUntil>>
  <2>1. PICK z : z = [fetch[f] EXCEPT !.pc = "wait", !.attempt = @ + 1]
    OBVIOUS
  <2>2. IsFetch(z) /\ z.pc = "wait"
    BY <1>1, <2>1 DEF IsFetch
  <2> QED
    BY <1>1, <1>2, <2>1, <2>2, BreakersStay, PastReorder
<1>3. CASE /\ RecordFailure(f)
           /\ Set(f, [fetch[f] EXCEPT !.cands = Remaining(f), !.attempt = 0, !.tried = Tried(f)])
  <2>1. PICK z : z = [fetch[f] EXCEPT !.cands = Remaining(f), !.attempt = 0, !.tried = Tried(f)]
    OBVIOUS
  <2>2. IsFetch(z) /\ z.pc = "ask"
    BY <1>1, <2>1 DEF IsFetch
  <2> QED
    BY <1>1, <1>3, <2>1, <2>2, FailureKeeps, PastReorder
<1> QED
  BY <1>2, <1>3 DEF Refused

LEMMA WaitKeeps == ASSUME FeedInv, NEW f \in Fetches, Wait(f) PROVE FeedInv'
<1>1. IsFetch(fetch[f]) /\ UNCHANGED <<order, reorderedAt, failures, openUntil>> /\ BreakersSound'
  BY BreakersStay DEF FeedInv, FetchesSound, Wait, breaker
<1>2. PICK z : z = [fetch[f] EXCEPT !.pc = "ask"]
  OBVIOUS
<1>3. IsFetch(z) /\ z.pc = "ask" /\ Set(f, z)
  BY <1>1, <1>2 DEF IsFetch, Wait
<1> QED
  BY <1>1, <1>3, PastReorder

LEMMA ExhaustedKeeps == ASSUME FeedInv, NEW f \in Fetches, Exhausted(f) PROVE FeedInv'
<1>1. IsFetch(fetch[f]) /\ UNCHANGED <<order, reorderedAt, failures, openUntil>> /\ BreakersSound'
  BY BreakersStay DEF FeedInv, FetchesSound, Exhausted, breaker
<1>2. PICK z : z = [fetch[f] EXCEPT !.pc = "done", !.result = "failed"]
  OBVIOUS
<1>3. IsFetch(z) /\ z.pc = "done" /\ Set(f, z)
  BY <1>1, <1>2 DEF IsFetch, Exhausted
<1> QED
  BY <1>1, <1>3, PastReorder

LEMMA FeedStarts == FeedInit => FeedInv
<1> SUFFICES ASSUME FeedInit PROVE FeedInv
  OBVIOUS
<1>1. fetch = [f \in Fetches |-> NoFetch] /\ IsFetch(NoFetch) /\ NoFetch.pc = "idle"
  BY DEF FeedInit, IsFetch, NoFetch
<1>2. FetchesSound
  BY <1>1 DEF FetchesSound, ProbeSound
<1>3. BreakersSound
  BY DEF FeedInit, BreakersSound
<1> QED
  BY <1>2, <1>3, FirstOrder DEF FeedInit, FeedInv

\* FallbackStateIsSound, whatever the bases and the fetches at work: however they interleave,
\* the order lists every base once, and a circuit is open only over a base that failed.
THEOREM FallbackIsSound == FeedSpec => []FallbackStateIsSound
<1>1. FeedInv /\ FeedNext => FeedInv'
  <2> SUFFICES ASSUME FeedInv, FeedNext PROVE FeedInv'
    OBVIOUS
  <2>1. ASSUME NEW f \in Fetches, StartFetch(f) \/ Fetch(f) PROVE FeedInv'
    BY <2>1, StartFetchKeeps, ProbeKeeps, ReorderKeeps, ListKeeps, BodyArrivesKeeps,
       RefusedKeeps, WaitKeeps, ExhaustedKeeps
       DEF Fetch
  <2>2. CASE FeedTick
    BY <2>2 DEF FeedTick, breaker, FeedInv, FetchesSound, BreakersSound
  <2> QED
    BY <2>1, <2>2 DEF FeedNext
<1>2. FeedInv /\ UNCHANGED feedVars => FeedInv'
  BY DEF feedVars, breaker, FeedInv, FetchesSound, BreakersSound
<1>3. FeedInv => FallbackStateIsSound
  BY DEF FeedInv, Listing, BreakersSound, FallbackStateIsSound
<1> QED
  BY <1>1, <1>2, <1>3, FeedStarts, PTL DEF FeedSpec

-----------------------------------------------------------------------------
(*****************************************************************************)
(* Comments.  Wherever replies come from, a page, several or one, none is    *)
(* listed twice (ReplyLists), and what a collection delivers went through    *)
(* apply_comments_policy, or is empty (PolicyKept).                          *)
(*****************************************************************************)
ReplyLists == {s \in Seq(CommentIds) : Distinct(s)}
CommentRecords == [id : CommentIds, replies : ReplyLists]
ThreadRecords == [id : CommentIds, inline : ReplyLists, total : Nat]

IsCollection(c) ==
    c = [pc |-> c.pc, platform |-> c.platform, sort |-> c.sort, attempt |-> c.attempt,
         pages |-> c.pages, page |-> c.page, more |-> c.more, top |-> c.top, got |-> c.got,
         outcome |-> c.outcome]

PolicyKept(c) ==
    /\ Len(c.top) <= TopN
    /\ \A i \in DOMAIN c.top : Len(c.top[i].replies) <= RepliesPer /\ Distinct(c.top[i].replies)
    /\ \A i, j \in DOMAIN c.top : i < j =>
          IF c.sort = "new" THEN c.top[i].id <= c.top[j].id ELSE c.top[i].id >= c.top[j].id
    /\ c.outcome # "succeeded" => c.top = <<>>

CollectionSound(c) ==
    /\ IsCollection(c)
    /\ c.top \in Seq(CommentRecords) /\ c.page \in Seq(ThreadRecords) /\ c.got \in ReplyLists
    /\ c.pc \in {"replies", "root"} => c.page # <<>>
    /\ c.pc = "done" => PolicyKept(c)

CommentsInv == CollectionSound(col)

-----------------------------------------------------------------------------
\* No reply at all repeats none.
LEMMA EmptyList ==
  /\ <<>> \in ReplyLists
  /\ <<>> \in Seq(CommentRecords) /\ <<>> \in Seq(ThreadRecords)
BY DEF ReplyLists, Distinct

\* The first replies of a list repeat none.
LEMMA FirstReplies ==
  ASSUME NEW s \in ReplyLists, NEW n \in Int
  PROVE  First(n, s) \in ReplyLists
<1>1. s \in Seq(CommentIds) /\ Distinct(s)
  BY DEF ReplyLists
<1> DEFINE t == First(n, s)
<1>2. /\ t \in Seq(CommentIds) /\ Len(t) \in Nat /\ Len(t) <= Len(s)
      /\ \A i \in 1..Len(t) : t[i] = s[i]
  BY <1>1, FirstOnes
<1> HIDE DEF t
<1>3. Distinct(t)
  <2> SUFFICES ASSUME NEW i \in 1..Len(t), NEW j \in 1..Len(t), t[i] = t[j] PROVE i = j
    BY <1>2 DEF Distinct
  <2>1. i \in DOMAIN s /\ j \in DOMAIN s /\ s[i] = s[j]
    BY <1>1, <1>2
  <2> QED
    BY <1>1, <2>1 DEF Distinct
<1> QED
  BY <1>2, <1>3 DEF t, ReplyLists

\* A list of a bounded length is a sequence.
LEMMA BoundedLists ==
  ASSUME NEW n \in Nat, NEW S, NEW s \in AtMost(n, S)
  PROVE  s \in Seq(S)
BY DEF AtMost

\* The most liked replies of a list repeat none.
LEMMA MostLikedReplies ==
  ASSUME NEW s \in ReplyLists, NEW n \in Nat
  PROVE  MostLiked(n, s) \in ReplyLists
<1> DEFINE N == Len(s)
           at == HighestFirst(s)
           top == First(n, at)
           t == [i \in DOMAIN top |-> s[top[i]]]
<1>1. s \in Seq(CommentIds) /\ Distinct(s) /\ N \in Nat /\ DOMAIN s = 1..N
  BY DEF ReplyLists
<1>2. s \in [1..N -> Int]
  <2>1. \A i \in 1..N : s[i] \in CommentIds
    BY <1>1
  <2>2. \A i \in 1..N : s[i] \in Int
    BY <2>1, CommentsAssumption
  <2>3. s = [i \in 1..N |-> s[i]]
    BY <1>1
  <2> HIDE DEF N
  <2> QED
    BY <2>2, <2>3
<1>3. Sorts(at, s, N)
  BY <1>1, <1>2, HighestFirstSorts
<1> HIDE DEF at
<1>4. at \in Seq(1..N) /\ Len(at) = N /\ Distinct(at)
  <2>1. at \in [1..N -> 1..N]
    BY <1>3 DEF Sorts
  <2> HIDE DEF N
  <2> QED
    BY <1>1, <1>3, <2>1 DEF Sorts
<1>5. top \in Seq(1..N) /\ Len(top) <= N /\ \A i \in 1..Len(top) : top[i] = at[i]
  <2> HIDE DEF N
  <2> QED
    BY <1>4, FirstOnes
<1> HIDE DEF top
<1>6. t \in Seq(CommentIds) /\ DOMAIN t = 1..Len(top) /\ \A i \in DOMAIN t : t[i] = s[top[i]]
  <2>1. Len(top) \in Nat /\ DOMAIN top = 1..Len(top) /\ \A i \in 1..Len(top) : top[i] \in 1..N
    <3> HIDE DEF N
    <3> DEFINE T == 1..N
    <3>1. top \in Seq(T)
      BY <1>5
    <3> HIDE DEF T
    <3>2. Len(top) \in Nat /\ DOMAIN top = 1..Len(top) /\ \A i \in 1..Len(top) : top[i] \in T
      BY <3>1
    <3> QED
      BY <3>2 DEF T
  <2>2. \A i \in 1..Len(top) : s[top[i]] \in CommentIds
    BY <1>1, <2>1
  <2> HIDE DEF N
  <2> QED
    BY <2>1, <2>2
<1> HIDE DEF t
<1>7. Distinct(t)
  <2> SUFFICES ASSUME NEW i \in 1..Len(top), NEW j \in 1..Len(top), t[i] = t[j] PROVE i = j
    BY <1>6 DEF Distinct
  <2>1. top[i] \in DOMAIN s /\ top[j] \in DOMAIN s /\ s[top[i]] = s[top[j]]
    BY <1>1, <1>5, <1>6
  <2>2. at[i] = at[j]
    BY <1>1, <1>5, <2>1 DEF Distinct
  <2>3. i \in DOMAIN at /\ j \in DOMAIN at
    <3> HIDE DEF N
    <3> QED
      BY <1>1, <1>4, <1>5
  <2> QED
    BY <1>4, <2>2, <2>3 DEF Distinct
<1>8. MostLiked(n, s) = t
  BY DEF MostLiked, t, top, at
<1> QED
  BY <1>6, <1>7, <1>8 DEF ReplyLists

\* Replies of a page are added when they are new.
LEMMA PageOfReplies ==
  ASSUME NEW items \in Seq(CommentIds), col.got \in ReplyLists, RepliesPer \in Nat,
         Target \in Int
  PROVE  WithReplies(items) \in ReplyLists
<1> DEFINE G == col.got
           new == {k \in DOMAIN items : items[k] \notin SeenReplies(items, k)}
           picked == Picked(items, new)
           more == First(Target - Len(G), picked)
<1>1. G \in Seq(CommentIds) /\ Distinct(G)
  BY DEF ReplyLists
<1>2. /\ picked \in Seq(CommentIds) /\ Len(picked) = Cardinality(new)
      /\ Cardinality(new) \in Nat
      /\ \E at : Climbs(at, new) /\ \A n \in 1..Cardinality(new) : picked[n] = items[at[n]]
  <2>1. new \subseteq DOMAIN items
    OBVIOUS
  <2> HIDE DEF new
  <2> QED
    BY <2>1, PickedSeq
<1>3. PICK at : Climbs(at, new) /\ \A n \in 1..Cardinality(new) : picked[n] = items[at[n]]
  BY <1>2
<1> HIDE DEF picked, new
<1>4. \A n \in 1..Len(picked) :
         /\ at[n] \in DOMAIN items /\ picked[n] = items[at[n]]
         /\ picked[n] \notin SeenReplies(items, at[n])
  <2>1. \A n \in 1..Len(picked) : at[n] \in new /\ picked[n] = items[at[n]]
    BY <1>2, <1>3 DEF Climbs
  <2> QED
    BY <2>1 DEF new
<1>5. \A n \in 1..Len(picked), i \in DOMAIN G : picked[n] # G[i]
  BY <1>4 DEF SeenReplies
<1>6. \A m, n \in 1..Len(picked) : m < n => picked[m] # picked[n]
  <2> SUFFICES ASSUME NEW m \in 1..Len(picked), NEW n \in 1..Len(picked), m < n
               PROVE  picked[m] # picked[n]
    OBVIOUS
  <2>1. at[m] < at[n]
    BY <1>2, <1>3 DEF Climbs
  <2>2. at[m] \in 1..(at[n] - 1)
    <3>1. at[m] \in Nat \ {0} /\ at[n] \in Nat \ {0}
      BY <1>4
    <3> QED
      BY <2>1, <3>1
  <2>3. items[at[m]] \in SeenReplies(items, at[n])
    BY <2>2 DEF SeenReplies
  <2> QED
    BY <1>4, <2>3
<1>7. /\ more \in Seq(CommentIds) /\ Len(more) \in Nat /\ Len(more) <= Len(picked)
      /\ \A i \in 1..Len(more) : more[i] = picked[i]
  BY <1>1, <1>2, FirstOnes
<1> HIDE DEF more
<1>8. G \o more \in Seq(CommentIds)
  BY <1>1, <1>7
<1>9. Distinct(G \o more)
  <2> DEFINE both == G \o more
             n == Len(G) + Len(more)
  <2>0. DOMAIN both = 1..n /\ n \in Nat
    BY <1>1, <1>7
  <2> SUFFICES \A i, j \in 1..n : i < j => both[i] # both[j]
    <3> HIDE DEF both, n
    <3>1. ASSUME NEW i \in 1..n, NEW j \in 1..n, \A k, l \in 1..n : k < l => both[k] # both[l],
                 both[i] = both[j]
          PROVE  i = j
      <4>1. ~(i < j) /\ ~(j < i)
        BY <3>1
      <4> QED
        BY <2>0, <4>1
    <3> QED
      BY <2>0, <3>1 DEF Distinct, both
  <2> SUFFICES ASSUME NEW i \in 1..n, NEW j \in 1..n, i < j, both[i] = both[j]
               PROVE  FALSE
    OBVIOUS
  <2>1. Len(G) \in Nat /\ Len(picked) \in Nat
    BY <1>1, <1>2
  <2>2. CASE j <= Len(G)
    <3>1. (G \o more)[i] = G[i] /\ (G \o more)[j] = G[j] /\ i \in DOMAIN G /\ j \in DOMAIN G
      BY <1>1, <1>7, <2>0, <2>1, <2>2
    <3>2. i = j
      BY <1>1, <3>1 DEF Distinct
    <3> QED
      BY <3>2, <2>0
  <2>3. CASE i <= Len(G) /\ j > Len(G)
    <3>1. (G \o more)[i] = G[i] /\ (G \o more)[j] = more[j - Len(G)] /\ i \in DOMAIN G
      BY <1>1, <1>7, <2>3
    <3>2. j - Len(G) \in 1..Len(more) /\ j - Len(G) \in 1..Len(picked)
      BY <1>7, <2>1, <2>3
    <3> QED
      BY <1>5, <1>7, <3>1, <3>2
  <2>4. CASE i > Len(G)
    <3>1. (G \o more)[i] = more[i - Len(G)] /\ (G \o more)[j] = more[j - Len(G)]
      BY <1>1, <1>7, <2>4
    <3>2. /\ i - Len(G) \in 1..Len(more) /\ j - Len(G) \in 1..Len(more)
          /\ i - Len(G) \in 1..Len(picked) /\ j - Len(G) \in 1..Len(picked)
          /\ i - Len(G) < j - Len(G)
      BY <1>7, <2>1, <2>4
    <3> QED
      BY <1>6, <1>7, <3>1, <3>2
  <2> QED
    BY <2>1, <2>2, <2>3, <2>4
<1>10. WithReplies(items) = G \o more
  BY DEF WithReplies, more, picked, new
<1> QED
  BY <1>8, <1>9, <1>10 DEF ReplyLists

-----------------------------------------------------------------------------
\* The policy's comments are no more than asked for, each with no more replies, in its order.
LEMMA PolicyApplied ==
  ASSUME NEW comments \in Seq(CommentRecords), NEW c, IsCollection(c),
         c.top = apply_comments_policy(comments), c.sort = col.sort, c.outcome = "succeeded"
  PROVE  PolicyKept(c) /\ c.top \in Seq(CommentRecords)
<1> DEFINE N == Len(comments)
           Key(i) == IF col.sort = "new" THEN -comments[i].id ELSE comments[i].id
           key == [i \in DOMAIN comments |-> Key(i)]
           at == HighestFirst(key)
           top == First(TopN, at)
           Of(k) == Comment(comments[k].id, First(RepliesPer, comments[k].replies))
           P == 1..N
<1>1. N \in Nat /\ DOMAIN comments = P /\ TopN \in Int /\ TopN >= 0
      /\ RepliesPer \in Int /\ RepliesPer >= 0
  BY CommentsAssumption
<1>2. \A k \in P : comments[k].id \in CommentIds /\ comments[k].replies \in ReplyLists
  <2>1. \A k \in P : comments[k] \in CommentRecords
    OBVIOUS
  <2> QED
    BY <2>1 DEF CommentRecords
<1>3. \A k \in P : comments[k].id \in Int /\ Key(k) \in Int
  <2>1. \A k \in P : comments[k].id \in Int
    BY <1>2, CommentsAssumption
  <2> HIDE DEF P
  <2> QED
    BY <2>1
<1>4. key \in [1..N -> Int]
  BY <1>1, <1>3
<1>5. Sorts(at, key, N)
  BY <1>1, <1>4, HighestFirstSorts
<1>6. apply_comments_policy(comments) = [n \in DOMAIN top |-> Of(top[n])]
  BY DEF apply_comments_policy
<1>7. \A k \in P : /\ Of(k) \in CommentRecords /\ Of(k).id = comments[k].id
                   /\ Len(Of(k).replies) <= RepliesPer
  <2> SUFFICES ASSUME NEW k \in P
               PROVE  /\ Of(k) \in CommentRecords /\ Of(k).id = comments[k].id
                      /\ Len(Of(k).replies) <= RepliesPer
    OBVIOUS
  <2> DEFINE s == comments[k].replies
  <2>1. s \in ReplyLists /\ s \in Seq(CommentIds)
    BY <1>2 DEF ReplyLists
  <2> HIDE DEF P, s
  <2>2. First(RepliesPer, s) \in ReplyLists
    BY <1>1, <2>1, FirstReplies
  <2>3. Len(First(RepliesPer, s)) <= RepliesPer
    BY <1>1, <2>1, FirstOnes
  <2> QED
    BY <1>2, <2>2, <2>3 DEF Comment, CommentRecords, s
<1> HIDE DEF at, key, Of
<1>8. at \in Seq(P) /\ Len(at) = N /\ DOMAIN at = P
      /\ \A m, n \in P : m < n => key[at[m]] >= key[at[n]]
  <2>1. at \in [1..N -> P]
    BY <1>5 DEF Sorts
  <2>2. at \in Seq(P) /\ Len(at) = N /\ DOMAIN at = P
    <3> HIDE DEF N
    <3> QED
      BY <1>1, <2>1
  <2> QED
    BY <1>5, <2>2 DEF Sorts
<1> HIDE DEF P, N
<1>9. /\ top \in Seq(P) /\ Len(top) \in Nat /\ Len(top) <= N /\ Len(top) <= TopN
      /\ \A i \in 1..Len(top) : top[i] = at[i]
  BY <1>1, <1>8, FirstOnes
<1> HIDE DEF top
<1>10. DOMAIN top = 1..Len(top) /\ \A i \in 1..Len(top) : top[i] \in P /\ i \in P
  <2>1. DOMAIN top = 1..Len(top) /\ \A i \in 1..Len(top) : top[i] \in P
    BY <1>9
  <2>2. \A i \in 1..Len(top) : i \in P
    BY <1>1, <1>9 DEF P
  <2> QED
    BY <2>1, <2>2
<1>11. /\ c.top \in Seq(CommentRecords) /\ Len(c.top) = Len(top) /\ DOMAIN c.top = 1..Len(top)
       /\ \A i \in 1..Len(top) : c.top[i] = Of(top[i])
  <2>1. c.top = [n \in 1..Len(top) |-> Of(top[n])]
    BY <1>6, <1>10
  <2>2. \A n \in 1..Len(top) : Of(top[n]) \in CommentRecords
    BY <1>7, <1>10
  <2> QED
    BY <1>9, <2>1, <2>2
<1>12. Len(c.top) <= TopN
  BY <1>9, <1>11
<1>13. ASSUME NEW i \in DOMAIN c.top
       PROVE  Len(c.top[i].replies) <= RepliesPer /\ Distinct(c.top[i].replies)
  <2>1. c.top[i] \in CommentRecords /\ Len(c.top[i].replies) <= RepliesPer
    BY <1>7, <1>10, <1>11
  <2> QED
    BY <2>1 DEF CommentRecords, ReplyLists
<1>14. ASSUME NEW i \in DOMAIN c.top, NEW j \in DOMAIN c.top, i < j
       PROVE  IF c.sort = "new" THEN c.top[i].id <= c.top[j].id ELSE c.top[i].id >= c.top[j].id
  <2>1. /\ i \in P /\ j \in P /\ top[i] \in P /\ top[j] \in P
        /\ top[i] = at[i] /\ top[j] = at[j]
    BY <1>9, <1>10, <1>11
  <2>2. key[top[i]] >= key[top[j]]
    BY <1>8, <1>14, <2>1
  <2>3. key[top[i]] = Key(top[i]) /\ key[top[j]] = Key(top[j])
    BY <1>1, <2>1 DEF key
  <2>4. c.top[i].id = comments[top[i]].id /\ c.top[j].id = comments[top[j]].id
    BY <1>7, <1>11, <2>1
  <2>5. comments[top[i]].id \in Int /\ comments[top[j]].id \in Int
    BY <1>3, <2>1
  <2> QED
    BY <2>2, <2>3, <2>4, <2>5
<1> QED
  BY <1>11, <1>12, <1>13, <1>14 DEF PolicyKept

-----------------------------------------------------------------------------
\* A collection that delivers nothing keeps to the policy.
LEMMA NothingDelivered ==
  ASSUME CommentsInv, NEW outcome \in {"degraded", "skipped"}, Deliver(outcome, <<>>)
  PROVE  CommentsInv'
<1>1. col' = [NoCollection EXCEPT !.pc = "done", !.outcome = outcome, !.top = <<>>,
                                  !.sort = col.sort, !.platform = col.platform]
  BY DEF Deliver
<1>2. /\ IsCollection(col') /\ col'.top = <<>> /\ col'.page = <<>> /\ col'.got = <<>>
      /\ col'.pc = "done"
  BY <1>1 DEF NoCollection, IsCollection
<1>3. PolicyKept(col')
  BY <1>2, CommentsAssumption DEF PolicyKept
<1> QED
  BY <1>2, <1>3, EmptyList DEF CommentsInv, CollectionSound

\* Nor does one that delivers what the policy makes of its comments.
LEMMA PolicyDelivered ==
  ASSUME CommentsInv, Deliver("succeeded", apply_comments_policy(col.top))
  PROVE  CommentsInv'
<1> DEFINE comments == apply_comments_policy(col.top)
<1>1. col' = [NoCollection EXCEPT !.pc = "done", !.outcome = "succeeded", !.top = comments,
                                  !.sort = col.sort, !.platform = col.platform]
  BY DEF Deliver
<1> HIDE DEF comments
<1>2. /\ IsCollection(col') /\ col'.top = comments /\ col'.page = <<>> /\ col'.got = <<>>
      /\ col'.pc = "done" /\ col'.outcome = "succeeded" /\ col'.sort = col.sort
  BY <1>1 DEF NoCollection, IsCollection
<1>3. PolicyKept(col') /\ col'.top \in Seq(CommentRecords)
  BY <1>2, PolicyApplied DEF comments, CommentsInv, CollectionSound
<1> QED
  BY <1>2, <1>3, EmptyList DEF CommentsInv, CollectionSound

\* A step that leaves the lists as they are and asks for something else.
LEMMA AskedForMore ==
  ASSUME CommentsInv, IsCollection(col'), UNCHANGED <<col.top, col.page, col.got>>,
         col'.pc \notin {"replies", "root", "done"}
  PROVE  CommentsInv'
BY DEF CommentsInv, CollectionSound

LEMMA StartCollectionSound ==
  ASSUME CommentsInv, NEW p, NEW s, StartCollection(p, s)
  PROVE  CommentsInv'
<1>1. /\ IsCollection(col') /\ col'.top = <<>> /\ col'.page = <<>> /\ col'.got = <<>>
      /\ col'.pc \in {"unsupported", "resolve"}
  BY DEF StartCollection, NoCollection, IsCollection
<1> QED
  BY <1>1, EmptyList DEF CommentsInv, CollectionSound

LEMMA ResolveVideoSound ==
  ASSUME CommentsInv, ResolveVideo
  PROVE  CommentsInv'
<1>1. CASE Raise
  BY <1>1, NothingDelivered DEF Raise
<1>2. ASSUME NEW x \in {"threads", "view"}, col' = [col EXCEPT !.pc = x] PROVE CommentsInv'
  <2>1. IsCollection(col') /\ col'.pc = x /\ UNCHANGED <<col.top, col.page, col.got>>
    BY <1>2 DEF CommentsInv, CollectionSound, IsCollection
  <2> QED
    BY <2>1, AskedForMore
<1> QED
  BY <1>1, <1>2 DEF ResolveVideo

LEMMA RequestLostSound ==
  ASSUME CommentsInv, RequestLost
  PROVE  CommentsInv'
<1>1. CASE Raise
  BY <1>1, NothingDelivered DEF Raise
<1>2. CASE col' = [col EXCEPT !.attempt = @ + 1]
  <2>1. /\ IsCollection(col') /\ UNCHANGED <<col.top, col.page, col.got, col.pc>>
    BY <1>2 DEF CommentsInv, CollectionSound, IsCollection
  <2>2. col.pc # "done"
    BY DEF RequestLost, Asking
  <2> QED
    BY <2>1, <2>2 DEF CommentsInv, CollectionSound
<1> QED
  BY <1>1, <1>2 DEF RequestLost

LEMMA ViewAnsweredSound ==
  ASSUME CommentsInv, ViewAnswered
  PROVE  CommentsInv'
<1>1. CASE Raise
  BY <1>1, NothingDelivered DEF Raise
<1>2. CASE Answered([col EXCEPT !.pc = "threads"])
  <2>1. IsCollection(col') /\ col'.pc = "threads" /\ UNCHANGED <<col.top, col.page, col.got>>
    BY <1>2 DEF CommentsInv, CollectionSound, IsCollection, Answered
  <2> QED
    BY <2>1, AskedForMore
<1> QED
  BY <1>1, <1>2 DEF ViewAnswered

-----------------------------------------------------------------------------
\* A page of threads, or of replies, is a sequence of them.
LEMMA PageItems ==
  ASSUME NEW n \in Nat, NEW S, NEW p \in Pages(n, S)
  PROVE  p.items \in Seq(S)
<1>1. p.items = <<>> \/ p.items \in AtMost(n, S)
  <2> DEFINE M == IF col.pages + 1 < CommentPages THEN BOOLEAN ELSE {FALSE}
  <2>1. p = [items |-> <<>>, more |-> FALSE] \/ p \in [items : NonEmpty(n, S), more : M]
    BY DEF Pages
  <2> HIDE DEF M
  <2>2. p = [items |-> <<>>, more |-> FALSE] \/ p.items \in NonEmpty(n, S)
    BY <2>1
  <2> QED
    BY <2>2 DEF NonEmpty
<1>2. CASE p.items = <<>>
  BY <1>2
<1>3. CASE p.items \in AtMost(n, S)
  BY <1>3, BoundedLists
<1> QED
  BY <1>1, <1>2, <1>3

\* The threads of a page have the replies of a list.
LEMMA ThreadIsRecord == Threads \subseteq ThreadRecords
<1> SUFFICES ASSUME NEW t \in Threads PROVE t \in ThreadRecords
  OBVIOUS
<1>1. t.inline \in ReplyLists
  BY BoundedLists DEF Threads, ReplyLists
<1> QED
  BY <1>1 DEF Threads, ThreadRecords

LEMMA ThreadsAnsweredSound ==
  ASSUME CommentsInv, ThreadsAnswered
  PROVE  CommentsInv'
<1>1. PICK p \in Pages(2, Threads) :
         Answered([col EXCEPT !.pc = "items", !.page = p.items, !.more = p.more, !.pages = @ + 1])
  BY DEF ThreadsAnswered
<1>2. /\ IsCollection(col') /\ col'.pc = "items" /\ col'.page = p.items
      /\ UNCHANGED <<col.top, col.got>>
  BY <1>1 DEF CommentsInv, CollectionSound, IsCollection, Answered
<1>3. p.items \in Seq(Threads)
  BY PageItems
<1>4. p.items \in Seq(ThreadRecords)
  BY <1>3, ThreadIsRecord
<1> QED
  BY <1>2, <1>4 DEF CommentsInv, CollectionSound

\* The thread at work, and what follows it.
LEMMA ThreadAtWork ==
  ASSUME CommentsInv, col.page # <<>>
  PROVE  /\ Thread \in ThreadRecords /\ Tail(col.page) \in Seq(ThreadRecords)
         /\ Inline \in ReplyLists /\ Target \in Int
<1>1. Thread \in ThreadRecords /\ Tail(col.page) \in Seq(ThreadRecords)
  BY DEF CommentsInv, CollectionSound, Thread
<1>2. Thread.inline \in ReplyLists /\ Thread.total \in Nat
  BY <1>1 DEF ThreadRecords
<1>3. RepliesPer \in Int
  BY CommentsAssumption
<1> QED
  BY <1>1, <1>2, <1>3, FirstReplies DEF Inline, Target, Smaller

\* A comment that is listed with replies none of which is there twice.
LEMMA ListedSound ==
  ASSUME CommentsInv, col.page # <<>>, NEW replies \in ReplyLists,
         col' = Listed(replies) \/ Answered(Listed(replies))
  PROVE  CommentsInv'
<1> DEFINE top == Append(col.top, Comment(Thread.id, replies))
           page == IF Len(top) >= TopN THEN <<>> ELSE Tail(col.page)
<1>1. top \in Seq(CommentRecords)
  <2>1. Comment(Thread.id, replies) \in CommentRecords
    BY ThreadAtWork DEF ThreadRecords, CommentRecords, Comment
  <2> QED
    BY <2>1 DEF CommentsInv, CollectionSound
<1>2. page \in Seq(ThreadRecords)
  BY ThreadAtWork, EmptyList
<1>3. /\ Listed(replies) = [col EXCEPT !.pc = "items", !.top = top, !.got = <<>>, !.page = page]
  BY DEF Listed
<1> HIDE DEF top, page
<1>4. /\ IsCollection(col') /\ col'.pc = "items" /\ col'.top = top /\ col'.page = page
      /\ col'.got = <<>>
  BY <1>3 DEF CommentsInv, CollectionSound, IsCollection, Answered
<1> QED
  BY <1>1, <1>2, <1>4, EmptyList DEF CommentsInv, CollectionSound

LEMMA TakeThreadSound ==
  ASSUME CommentsInv, TakeThread
  PROVE  CommentsInv'
<1>1. col.page # <<>> /\ Inline \in ReplyLists
  BY ThreadAtWork DEF TakeThread
<1>2. CASE col' = Listed(Inline)
  BY <1>1, <1>2, ListedSound
<1>3. CASE col' = [col EXCEPT !.pc = "replies", !.got = Inline, !.pages = 0]
  <2>1. /\ IsCollection(col') /\ col'.pc = "replies" /\ col'.got = Inline
        /\ UNCHANGED <<col.top, col.page>>
    BY <1>3 DEF CommentsInv, CollectionSound, IsCollection
  <2> QED
    BY <1>1, <2>1 DEF CommentsInv, CollectionSound
<1> QED
  BY <1>2, <1>3 DEF TakeThread

LEMMA PageDoneSound ==
  ASSUME CommentsInv, PageDone
  PROVE  CommentsInv'
<1>1. CASE Deliver("succeeded", apply_comments_policy(col.top))
  BY <1>1, PolicyDelivered
<1>2. CASE col' = [col EXCEPT !.pc = "threads"]
  <2>1. IsCollection(col') /\ col'.pc = "threads" /\ UNCHANGED <<col.top, col.page, col.got>>
    BY <1>2 DEF CommentsInv, CollectionSound, IsCollection
  <2> QED
    BY <2>1, AskedForMore
<1> QED
  BY <1>1, <1>2 DEF PageDone

LEMMA RepliesAnsweredSound ==
  ASSUME CommentsInv, RepliesAnswered
  PROVE  CommentsInv'
<1>1. col.pc = "replies" /\ col.page # <<>> /\ col.got \in ReplyLists
  BY DEF RepliesAnswered, CommentsInv, CollectionSound
<1>2. PICK p \in Pages(2, CommentIds) :
         LET got == WithReplies(p.items)
         IN  Answered(IF p.more /\ Len(got) < Target
                        THEN [col EXCEPT !.got = got, !.pages = @ + 1]
                        ELSE Listed(got))
  BY DEF RepliesAnswered
<1> DEFINE got == WithReplies(p.items)
<1>3. got \in ReplyLists
  BY <1>1, PageItems, PageOfReplies, ThreadAtWork, CommentsAssumption
<1> HIDE DEF got
<1>4. CASE Answered(Listed(got))
  BY <1>1, <1>3, <1>4, ListedSound
<1>5. CASE Answered([col EXCEPT !.got = got, !.pages = @ + 1])
  <2>1. IsCollection(col') /\ col'.got = got /\ UNCHANGED <<col.top, col.page, col.pc>>
    BY <1>5 DEF CommentsInv, CollectionSound, IsCollection, Answered
  <2> QED
    BY <1>1, <1>3, <2>1 DEF CommentsInv, CollectionSound
<1> QED
  BY <1>2, <1>4, <1>5 DEF got

-----------------------------------------------------------------------------
LEMMA CommentsAnsweredSound ==
  ASSUME CommentsInv, CommentsAnswered
  PROVE  CommentsInv'
<1>1. PICK ids \in {s \in AtMost(3, CommentIds) : Distinct(s)} :
         Answered([col EXCEPT !.pc = "roots",
                              !.page = [i \in DOMAIN MostLiked(TopN, ids) |->
                                          [id |-> MostLiked(TopN, ids)[i], inline |-> <<>>,
                                           total |-> 0]]])
  BY DEF CommentsAnswered
<1> DEFINE liked == MostLiked(TopN, ids)
           page == [i \in DOMAIN liked |-> [id |-> liked[i], inline |-> <<>>, total |-> 0]]
<1>2. liked \in Seq(CommentIds)
  <2>1. ids \in ReplyLists
    BY BoundedLists DEF ReplyLists
  <2>2. liked \in ReplyLists
    BY <2>1, MostLikedReplies, CommentsAssumption
  <2> QED
    BY <2>2 DEF ReplyLists
<1>3. col' = [[col EXCEPT !.pc = "roots", !.page = page] EXCEPT !.attempt = 0]
  BY <1>1 DEF Answered
<1> HIDE DEF liked
<1>4. page \in Seq(ThreadRecords)
  <2>1. \A i \in 1..Len(liked) :
           [id |-> liked[i], inline |-> <<>>, total |-> 0] \in ThreadRecords
    BY <1>2, EmptyList DEF ThreadRecords
  <2>2. DOMAIN liked = 1..Len(liked) /\ Len(liked) \in Nat
    BY <1>2
  <2> QED
    BY <2>1, <2>2
<1> HIDE DEF page
<1>5. /\ IsCollection(col') /\ col'.pc = "roots" /\ col'.page = page
      /\ UNCHANGED <<col.top, col.got>>
  BY <1>3 DEF CommentsInv, CollectionSound, IsCollection
<1> QED
  BY <1>4, <1>5 DEF CommentsInv, CollectionSound

\* The comment at work is done with, with replies none of which is there twice.
LEMMA RootListed ==
  ASSUME CommentsInv, col.page # <<>>, NEW replies \in ReplyLists,
         IsCollection(col'), col'.pc = "roots",
         col'.top = Append(col.top, Comment(Thread.id, replies)),
         col'.page = Tail(col.page), UNCHANGED col.got
  PROVE  CommentsInv'
<1>1. Comment(Thread.id, replies) \in CommentRecords
  BY ThreadAtWork DEF ThreadRecords, CommentRecords, Comment
<1>2. Append(col.top, Comment(Thread.id, replies)) \in Seq(CommentRecords)
  BY <1>1 DEF CommentsInv, CollectionSound
<1> QED
  BY <1>2, ThreadAtWork DEF CommentsInv, CollectionSound

LEMMA TakeRootSound ==
  ASSUME CommentsInv, TakeRoot
  PROVE  CommentsInv'
<1>1. col.page # <<>> /\ col.pc = "roots"
  BY DEF TakeRoot
<1>2. CASE col' = [col EXCEPT !.pc = "root"]
  <2>1. IsCollection(col') /\ col'.pc = "root" /\ UNCHANGED <<col.top, col.page, col.got>>
    BY <1>2 DEF CommentsInv, CollectionSound, IsCollection
  <2> QED
    BY <1>1, <2>1 DEF CommentsInv, CollectionSound
<1>3. CASE col' = [col EXCEPT !.top = Append(@, Comment(Thread.id, <<>>)), !.page = Tail(@)]
  <2>1. /\ IsCollection(col') /\ col'.pc = "roots" /\ UNCHANGED col.got
        /\ col'.top = Append(col.top, Comment(Thread.id, <<>>)) /\ col'.page = Tail(col.page)
    BY <1>1, <1>3 DEF CommentsInv, CollectionSound, IsCollection
  <2> QED
    BY <1>1, <2>1, RootListed, EmptyList
<1> QED
  BY <1>2, <1>3 DEF TakeRoot

LEMMA RootAnsweredSound ==
  ASSUME CommentsInv, RootAnswered
  PROVE  CommentsInv'
<1>1. col.page # <<>> /\ col.pc = "root"
  BY DEF RootAnswered, CommentsInv, CollectionSound
<1>2. PICK rs \in {s \in AtMost(2, CommentIds) : Distinct(s)} :
         Answered([col EXCEPT !.pc = "roots", !.page = Tail(@),
                              !.top = Append(@, Comment(Thread.id,
                                                        MostLiked(bilibili_replies, rs)))])
  BY DEF RootAnswered
<1> DEFINE liked == MostLiked(bilibili_replies, rs)
<1>3. liked \in ReplyLists
  <2>1. rs \in ReplyLists
    BY BoundedLists DEF ReplyLists
  <2>2. bilibili_replies \in Nat
    BY CommentsAssumption DEF bilibili_replies
  <2> QED
    BY <2>1, <2>2, MostLikedReplies
<1> HIDE DEF liked
<1>4. /\ IsCollection(col') /\ col'.pc = "roots" /\ UNCHANGED col.got
      /\ col'.top = Append(col.top, Comment(Thread.id, liked)) /\ col'.page = Tail(col.page)
  BY <1>2 DEF CommentsInv, CollectionSound, IsCollection, Answered, liked
<1> QED
  BY <1>1, <1>3, <1>4, RootListed

LEMMA CommentsStep ==
  ASSUME CommentsInv, [CommentsNext]_commentVars
  PROVE  CommentsInv'
<1>1. CASE UNCHANGED commentVars
  BY <1>1 DEF commentVars, CommentsInv, CollectionSound, PolicyKept
<1>2. ASSUME NEW p, NEW s, StartCollection(p, s) PROVE CommentsInv'
  BY <1>2, StartCollectionSound
<1>3. CASE SkipPlatform
  BY <1>3, NothingDelivered DEF SkipPlatform
<1>4. CASE ResolveVideo
  BY <1>4, ResolveVideoSound
<1>5. CASE RequestLost
  BY <1>5, RequestLostSound
<1>6. CASE ViewAnswered
  BY <1>6, ViewAnsweredSound
<1>7. CASE ThreadsAnswered
  BY <1>7, ThreadsAnsweredSound
<1>8. CASE TakeThread
  BY <1>8, TakeThreadSound
<1>9. CASE PageDone
  BY <1>9, PageDoneSound
<1>10. CASE RepliesAnswered
  BY <1>10, RepliesAnsweredSound
<1>11. CASE CommentsAnswered
  BY <1>11, CommentsAnsweredSound
<1>12. CASE TakeRoot
  BY <1>12, TakeRootSound
<1>13. CASE RootAnswered
  BY <1>13, RootAnsweredSound
<1>14. CASE RootsDone
  BY <1>14, PolicyDelivered DEF RootsDone
<1> QED
  BY <1>1, <1>2, <1>3, <1>4, <1>5, <1>6, <1>7, <1>8, <1>9, <1>10, <1>11, <1>12, <1>13, <1>14
     DEF CommentsNext, Collect

\* Whatever the pages hold and overlap, and whatever request fails, what a collection delivers
\* keeps to the policy: its numbers, its order, no reply twice, and nothing half done.
THEOREM DeliveredKeepsPolicy == CommentsSpec => []CommentsKeepPolicy
<1>1. CommentsInit => CommentsInv
  BY EmptyList DEF CommentsInit, CommentsInv, CollectionSound, IsCollection, NoCollection
<1>2. CommentsInv /\ [CommentsNext]_commentVars => CommentsInv'
  BY CommentsStep
<1>3. CommentsInv => CommentsKeepPolicy
  BY DEF CommentsInv, CollectionSound, PolicyKept, CommentsKeepPolicy
<1> QED
  BY <1>1, <1>2, <1>3, PTL DEF CommentsSpec

-----------------------------------------------------------------------------
(***************************************************************************)
(* Schedules.  The clock first: which wall time an hour is, and which hour *)
(* a wall time is turned into.  The operators take the zone as a           *)
(* parameter; in a state it is that of the state (Named).                  *)
(***************************************************************************)
Midnight(d) == d * DayHours
ToWall(z, t) == t + (IF t >= ChangeAt THEN z.after ELSE z.before)
ToUtc(z, w) == IF w - z.before < ChangeAt \/ w - z.after < ChangeAt
                 THEN w - z.before ELSE w - z.after
DayAt(z, t) == DayOf(ToWall(z, t))
WindowOf(z, d) == ToUtc(z, Midnight(d))..(ToUtc(z, Midnight(d + 1)) - 1)
Zones == {z \in [before : Shifts, after : Shifts] : z.after - z.before \in -1..1}

LEMMA Midnights ==
  ASSUME NEW d \in Int
  PROVE  Midnight(d) \in Int /\ Midnight(d + 1) = Midnight(d) + DayHours /\ DayHours >= 1
BY ScheduleAssumption DEF Midnight

LEMMA DaysHold ==
  ASSUME NEW w \in Int
  PROVE  /\ DayOf(w) \in Int
         /\ Midnight(DayOf(w)) <= w /\ w < Midnight(DayOf(w)) + DayHours
BY ScheduleAssumption, SMT DEF Midnight, DayOf

LEMMA MidnightsGrow ==
  ASSUME NEW d \in Int, NEW e \in Int, d < e
  PROVE  Midnight(d) + DayHours <= Midnight(e)
<1>1. PICK n \in Nat : e = d + 1 + n
  <2> e - d - 1 \in Nat /\ e = d + 1 + (e - d - 1)
    OBVIOUS
  <2> QED
    OBVIOUS
<1>2. Midnight(e) = Midnight(d) + DayHours + n * DayHours
  BY <1>1, ScheduleAssumption DEF Midnight
<1>3. n * DayHours \in Nat
  BY ScheduleAssumption
<1> QED
  BY <1>2, <1>3, Midnights

LEMMA DayIs ==
  ASSUME NEW w \in Int, NEW d \in Int, Midnight(d) <= w, w < Midnight(d) + DayHours
  PROVE  DayOf(w) = d
<1> DEFINE e == DayOf(w)
<1>1. e \in Int /\ Midnight(e) <= w /\ w < Midnight(e) + DayHours
  BY DaysHold
<1>2. Midnight(e) \in Int /\ Midnight(d) \in Int /\ DayHours \in Int
  BY <1>1, Midnights, ScheduleAssumption
<1> HIDE DEF e
<1>3. CASE e < d
  <2>1. Midnight(e) + DayHours <= Midnight(d)
    BY <1>1, <1>3, MidnightsGrow
  <2> QED
    BY <1>1, <1>2, <2>1
<1>4. CASE d < e
  <2>1. Midnight(d) + DayHours <= Midnight(e)
    BY <1>1, <1>4, MidnightsGrow
  <2> QED
    BY <1>1, <1>2, <2>1
<1> QED
  BY <1>1, <1>3, <1>4 DEF e

LEMMA DaysGrow ==
  ASSUME NEW v \in Int, NEW w \in Int, v <= w
  PROVE  DayOf(v) <= DayOf(w)
<1> DEFINE d == DayOf(v)
           e == DayOf(w)
<1>1. /\ d \in Int /\ Midnight(d) <= v
      /\ e \in Int /\ w < Midnight(e) + DayHours
  BY DaysHold
<1>2. Midnight(e) \in Int /\ Midnight(d) \in Int /\ DayHours \in Int
  BY <1>1, Midnights, ScheduleAssumption
<1> HIDE DEF d, e
<1>3. ~(e < d)
  <2> SUFFICES ASSUME e < d PROVE FALSE
    OBVIOUS
  <2>1. Midnight(e) + DayHours <= Midnight(d)
    BY <1>1, MidnightsGrow
  <2> QED
    BY <1>1, <1>2, <2>1
<1>4. d <= e
  BY <1>1, <1>3
<1> QED
  BY <1>4 DEF d, e

-----------------------------------------------------------------------------
\* The clock of a zone.
LEMMA Clocks ==
  ASSUME NEW z \in Zones, NEW t \in Int, NEW w \in Int
  PROVE  /\ ToWall(z, t) \in Int /\ ToUtc(z, w) \in Int
         /\ z.before \in Int /\ z.after \in Int /\ DayAt(z, t) \in Int
<1>1. z.before \in Int /\ z.after \in Int
  BY ScheduleAssumption DEF Zones, Shifts
<1>2. ToWall(z, t) \in Int /\ ToUtc(z, w) \in Int
  BY <1>1, ScheduleAssumption DEF ToWall, ToUtc
<1> QED
  BY <1>1, <1>2, DaysHold DEF DayAt

\* The wall clock never goes back by more than the hour that it gains.
LEMMA WallGrows ==
  ASSUME NEW z \in Zones, NEW t \in Int, NEW u \in Int, t <= u
  PROVE  ToWall(z, t) <= ToWall(z, u)
<1>1. z.before \in Int /\ z.after \in Int /\ z.after - z.before \in -1..1
  BY Clocks DEF Zones
<1> QED
  BY <1>1, ScheduleAssumption DEF ToWall

\* The hour that a wall time is turned into.
LEMMA Translated ==
  ASSUME NEW z \in Zones, NEW t \in Int, NEW w \in Int
  PROVE  /\ ToWall(z, ToUtc(z, w)) \in w..(w + 1)
         /\ ToWall(z, t) < w => t < ToUtc(z, w)
         /\ w <= ToWall(z, t) => ToUtc(z, w) <= t
<1>1. z.before \in Int /\ z.after \in Int /\ z.after - z.before \in -1..1
  BY Clocks DEF Zones
<1> QED
  BY <1>1, ScheduleAssumption DEF ToWall, ToUtc

LEMMA InWindow ==
  ASSUME NEW z \in Zones, NEW t \in Int
  PROVE  t \in WindowOf(z, DayAt(z, t))
<1> DEFINE d == DayAt(z, t)
<1>1. d \in Int /\ ToWall(z, t) \in Int
  BY Clocks
<1>2. Midnight(d) <= ToWall(z, t) /\ ToWall(z, t) < Midnight(d) + DayHours
  BY <1>1, DaysHold DEF DayAt
<1>3. Midnight(d) \in Int /\ Midnight(d + 1) = Midnight(d) + DayHours /\ Midnight(d + 1) \in Int
  BY <1>1, Midnights, ScheduleAssumption
<1> HIDE DEF d
<1>4. ToUtc(z, Midnight(d)) <= t /\ t < ToUtc(z, Midnight(d + 1))
  BY <1>1, <1>2, <1>3, Translated
<1>5. ToUtc(z, Midnight(d)) \in Int /\ ToUtc(z, Midnight(d + 1)) \in Int
  BY <1>3, Clocks
<1>6. t \in WindowOf(z, d)
  BY <1>4, <1>5 DEF WindowOf
<1> QED
  BY <1>6 DEF d

-----------------------------------------------------------------------------
\* On day d, within an hour of the hour its digest is due at.
Near(z, t, d) ==
    /\ ToWall(z, t) \in (Midnight(d) + TargetHour - 1)..(Midnight(d) + TargetHour + 1)
    /\ DayAt(z, t) = d

LEMMA Nears ==
  ASSUME NEW z \in Zones, NEW t \in Int, NEW d \in Int, NEW k \in -1..1,
         TargetHour + 1 < DayHours, ToWall(z, t) = Midnight(d) + TargetHour + k,
         k = -1 => TargetHour > 0
  PROVE  Near(z, t, d)
<1>1. Midnight(d) \in Int /\ TargetHour \in Nat /\ DayHours \in Nat /\ ToWall(z, t) \in Int
  BY Midnights, Clocks, ScheduleAssumption
<1>2. DayOf(ToWall(z, t)) = d
  BY <1>1, DayIs
<1> QED
  BY <1>1, <1>2 DEF Near, DayAt

\* A loop that starts, or wakes, past the due hour waits for that of the next day.
LEMMA WaitAfter ==
  ASSUME NEW z \in Zones, NEW t \in Int, TargetHour + 1 < DayHours
  PROVE  LET d == DayAt(z, t) + 1
             next == ToUtc(z, Midnight(d) + TargetHour)
         IN  next \in Int /\ t < next /\ Near(z, next, d)
<1> DEFINE e == DayAt(z, t)
           d == e + 1
           due == Midnight(d) + TargetHour
           next == ToUtc(z, due)
<1>0. e \in Int /\ ToWall(z, t) \in Int
  BY Clocks
<1>2. ToWall(z, t) < Midnight(e) + DayHours
  BY <1>0, DaysHold DEF DayAt
<1> HIDE DEF e
<1>1. /\ d \in Int /\ Midnight(e) \in Int /\ Midnight(d) = Midnight(e) + DayHours
      /\ TargetHour \in Nat /\ DayHours \in Nat /\ due \in Int
  BY <1>0, Midnights, ScheduleAssumption
<1>3. ToWall(z, t) < due
  BY <1>0, <1>1, <1>2
<1> HIDE DEF due
<1>4. next \in Int /\ t < next /\ ToWall(z, next) \in due..(due + 1)
  BY <1>1, <1>3, Clocks, Translated
<1> HIDE DEF next, d
<1>5. ToWall(z, next) = due \/ ToWall(z, next) = due + 1
  BY <1>1, <1>4
<1>6. Near(z, next, d)
  BY <1>1, <1>4, <1>5, Nears DEF due
<1> QED
  BY <1>4, <1>6 DEF next, due, d, e

\* A loop that starts, or wakes, before the due hour of its day waits twice: for that hour
\* and for the next day's.  Both waits may be an hour off.
LEMMA WaitBefore ==
  ASSUME NEW z \in Zones, NEW t \in Int, TargetHour + 1 < DayHours,
         ToWall(z, t) < Midnight(DayAt(z, t)) + TargetHour
  PROVE  LET d == DayAt(z, t)
             due == Midnight(d) + TargetHour
             wake == t + (due - ToWall(z, t))
             after == ToUtc(z, Midnight(d + 1) + TargetHour) - ToUtc(z, due)
         IN  /\ wake \in Int /\ t < wake /\ Near(z, wake, d)
             /\ after \in Int /\ after >= 1 /\ Near(z, wake + after, d + 1)
<1> DEFINE d == DayAt(z, t)
           due == Midnight(d) + TargetHour
           wake == t + (due - ToWall(z, t))
           after == ToUtc(z, Midnight(d + 1) + TargetHour) - ToUtc(z, due)
<1>0. d \in Int /\ ToWall(z, t) \in Int
  BY Clocks
<1>2. Midnight(d) <= ToWall(z, t)
  BY <1>0, DaysHold DEF DayAt
<1>3. ToWall(z, t) < due
  OBVIOUS
<1> HIDE DEF d
<1>1. /\ d \in Int /\ d + 1 \in Int /\ ToWall(z, t) \in Int
      /\ Midnight(d) \in Int /\ Midnight(d + 1) = Midnight(d) + DayHours
      /\ TargetHour \in Nat /\ DayHours \in Nat /\ due \in Int
  BY <1>0, Midnights, ScheduleAssumption
<1>4. TargetHour > 0 /\ Midnight(d + 1) + TargetHour = due + DayHours
  BY <1>1, <1>2, <1>3
<1>5. after = ToUtc(z, due + DayHours) - ToUtc(z, due)
  BY <1>4
<1> HIDE DEF due, after
<1>6. z.before \in Int /\ z.after \in Int /\ z.after - z.before \in -1..1
  BY Clocks DEF Zones
<1>7. /\ wake \in Int /\ t < wake /\ after \in Int /\ after >= 1
      /\ ToWall(z, wake) - due \in -1..1
      /\ ToWall(z, wake + after) - (due + DayHours) \in -1..1
  BY <1>1, <1>3, <1>4, <1>5, <1>6, ScheduleAssumption DEF ToWall, ToUtc
<1> HIDE DEF wake
<1>8. Near(z, wake, d)
  <2> DEFINE k == ToWall(z, wake) - due
  <2>1. ToWall(z, wake) = Midnight(d) + TargetHour + k
    BY <1>1, <1>7, Clocks DEF due
  <2> QED
    BY <1>1, <1>4, <1>7, <2>1, Nears
<1>9. Near(z, wake + after, d + 1)
  <2> DEFINE k == ToWall(z, wake + after) - (due + DayHours)
  <2>1. ToWall(z, wake + after) = Midnight(d + 1) + TargetHour + k
    BY <1>1, <1>7, Clocks DEF due
  <2> QED
    BY <1>1, <1>4, <1>7, <2>1, Nears
<1> QED
  BY <1>7, <1>8, <1>9 DEF wake, after, due, d

-----------------------------------------------------------------------------
(***************************************************************************)
(* The invariant.  As long as no timer was late, the days since the start  *)
(* have their digests up to the one at work, and both waits end near the   *)
(* due hour of the day they are for (LoopSound); a digest was sent on its  *)
(* day and misses no job but later ones (DigestSound).                     *)
(***************************************************************************)
LoopPcs == {"none", "timing", "before", "send", "after", "failed", "done"}
LoopOf == [pc : LoopPcs, once : BOOLEAN, date : Int, wake : Int, after : Int, left : Int,
           since : Int]
Digest == [at : Int, jobs : SUBSET Jobs]

ScheduleTypes ==
    /\ hour \in Nat /\ DayHours <= hour /\ (hour <= Horizon \/ hour = DayHours)
    /\ zone \in Zones
    /\ loop \in LoopOf
    /\ digests \in [Days -> Digest]
    /\ doneAt \in [Jobs -> Int]
    /\ late \in BOOLEAN /\ starts \in Nat

\* Until the first start nothing depends on the zone.
Untouched == starts = 0 => loop.pc = "none" /\ digests = [d \in Days |-> NoDigest]

JobsIn(z, done, d) == {j \in Jobs : done[j] # Never /\ done[j] \in WindowOf(z, d)}

\* What is in the digest of day d, when it was sent by hour h.
DigestSound(z, h, done, digest, d) ==
    digest # NoDigest =>
        /\ digest.at \in WindowOf(z, d) /\ digest.at <= h
        /\ digest.jobs \subseteq JobsIn(z, done, d)
        /\ {j \in JobsIn(z, done, d) : done[j] < digest.at} \subseteq digest.jobs

\* Every day from that of hour s to the last has its digest.
AllSent(z, g, s, last) == \A d \in Days : DayAt(z, s) <= d /\ d <= last => g[d] # NoDigest

\* The days before the one at work have their digests, and what the loop waits for is near
\* the due hour.
LoopSound(z, h, g, l) ==
    /\ l.pc \in {"timing", "before", "send", "after"} => DayHours <= l.since /\ l.since <= h
    /\ l.pc = "timing" /\ ~l.once =>
          /\ AllSent(z, g, l.since, DayAt(z, h) - 1)
          /\ h = l.since \/ Near(z, h, DayAt(z, h))
    /\ l.pc = "before" =>
          /\ ~l.once /\ h <= l.wake /\ l.after >= 1
          /\ AllSent(z, g, l.since, l.date - 1)
          /\ Near(z, l.wake, l.date) /\ Near(z, l.wake + l.after, l.date + 1)
    /\ l.pc = "send" => DayAt(z, h) = l.date
    /\ l.pc = "send" /\ ~l.once =>
          /\ AllSent(z, g, l.since, l.date - 1) /\ l.after >= 1
          /\ h = l.since \/ Near(z, h, l.date)
          /\ Near(z, h + l.after, l.date + 1)
    /\ l.pc = "after" =>
          /\ ~l.once /\ h <= l.wake
          /\ AllSent(z, g, l.since, l.date)
          /\ Near(z, l.wake, l.date + 1)

ScheduleInv ==
    /\ ScheduleTypes /\ Untouched
    /\ ~late => /\ \A d \in Days : DigestSound(zone, hour, doneAt, digests[d], d)
                /\ LoopSound(zone, hour, digests, loop)

LEMMA Resolved ==
  ASSUME ScheduleTypes, NEW once \in BOOLEAN
  PROVE  LET r == resolve_timing(once)
         IN  r.date \in Int /\ r.wait \in Int /\ r.after \in Int
<1> DEFINE now == Wall(hour)
           scheduled == DayOf(now) * DayHours + TargetHour
           early == now < scheduled /\ ~once
           run == IF early THEN scheduled ELSE now
           next == UtcOf((DayOf(run) + 1) * DayHours + TargetHour)
           after == next - (IF early THEN UtcOf(run) ELSE hour)
<1>1. \A w \in Int : Wall(w) \in Int /\ UtcOf(w) \in Int /\ DayOf(w) \in Int
  <2>1. \A w \in Int : Wall(w) = ToWall(zone, w) /\ UtcOf(w) = ToUtc(zone, w)
    BY DEF Wall, UtcOf, ToWall, ToUtc
  <2> QED
    BY <2>1, Clocks, DaysHold DEF ScheduleTypes
<1>2. \A d \in Int : d * DayHours \in Int
  BY ScheduleAssumption
<1>3. hour \in Int /\ TargetHour \in Int
  BY ScheduleAssumption DEF ScheduleTypes
<1>4. now \in Int
  BY <1>1, <1>3
<1>5. scheduled \in Int
  BY <1>1, <1>2, <1>3, <1>4
<1> HIDE DEF now, scheduled
<1>6. run \in Int
  BY <1>4, <1>5
<1> HIDE DEF run
<1>7. DayOf(run) \in Int
  BY <1>1, <1>6
<1>8. next \in Int /\ UtcOf(run) \in Int
  <2>1. (DayOf(run) + 1) * DayHours + TargetHour \in Int
    BY <1>2, <1>3, <1>7
  <2> QED
    BY <1>1, <1>6, <2>1
<1> HIDE DEF next
<1>9. after \in Int
  BY <1>3, <1>8
<1> HIDE DEF after
<1>10. resolve_timing(once) =
         [date |-> DayOf(run), wait |-> IF early THEN scheduled - now ELSE 0,
          after |-> IF after < 1 THEN 1 ELSE after]
  BY DEF resolve_timing, after, next, run, scheduled, now
<1> QED
  BY <1>4, <1>5, <1>7, <1>9, <1>10

LEMMA LoopMoves ==
  ASSUME NEW l \in LoopOf, NEW pc \in LoopPcs, NEW k \in Int, NEW h \in Int
  PROVE  /\ [l EXCEPT !.pc = pc, !.left = k] \in LoopOf
         /\ [l EXCEPT !.left = k, !.pc = pc] \in LoopOf
         /\ [l EXCEPT !.pc = pc, !.wake = h] \in LoopOf
BY DEF LoopOf

LEMMA LoopTyped ==
  ASSUME ScheduleTypes
  PROVE  /\ Lost \in LoopOf /\ Sent \in LoopOf
         /\ NoLoop \in LoopOf /\ "timing" \in LoopPcs
<1>1. /\ loop.pc \in LoopPcs /\ loop.left - 1 \in Int /\ hour + loop.after \in Int
      /\ loop \in LoopOf
  BY DEF ScheduleTypes, LoopOf
<1>2. /\ (IF loop.left = 1 THEN "failed" ELSE loop.pc) \in LoopPcs
      /\ (IF loop.once THEN "done" ELSE "after") \in LoopPcs
  BY <1>1 DEF LoopPcs
<1>3. NoLoop \in LoopOf /\ "timing" \in LoopPcs
  BY DEF NoLoop, LoopOf, LoopPcs
<1> QED
  BY <1>1, <1>2, <1>3, LoopMoves DEF Lost, Sent

LEMMA TypesKept ==
  ASSUME ScheduleTypes, ScheduleNext
  PROVE  ScheduleTypes'
<1> USE DEF ScheduleTypes
<1>1. ASSUME NEW once \in BOOLEAN, NEW z \in Offsets,
             StartDigests(once, [before |-> z[1], after |-> z[2]])
      PROVE  ScheduleTypes'
  <2>1. [before |-> z[1], after |-> z[2]] \in Zones
    BY ScheduleAssumption DEF Zones
  <2>2. zone' \in Zones /\ starts' \in Nat
    BY <1>1, <2>1 DEF StartDigests
  <2>3. loop' \in LoopOf
    <3>1. /\ NoLoop \in LoopOf /\ "timing" \in LoopPcs /\ hour \in Int
          /\ loop' = [NoLoop EXCEPT !.pc = "timing", !.once = once, !.since = hour]
      BY <1>1, LoopTyped DEF StartDigests
    <3> QED
      BY <3>1 DEF LoopOf
  <2> QED
    BY <1>1, <2>2, <2>3 DEF StartDigests
<1>2. CASE ResolveTiming
  <2>1. loop.once \in BOOLEAN
    BY DEF LoopOf
  <2>2. loop' \in LoopOf
    <3> DEFINE r == resolve_timing(loop.once)
    <3>1. r.date \in Int /\ r.wait \in Int /\ r.after \in Int
      BY <2>1, Resolved
    <3>2. loop' = [loop EXCEPT !.pc = IF r.wait > 0 THEN "before" ELSE "send", !.left = 2,
                               !.date = r.date, !.wake = hour + r.wait, !.after = r.after]
      BY <1>2 DEF ResolveTiming
    <3> HIDE DEF r
    <3>3. hour + r.wait \in Int /\ loop \in LoopOf /\ 2 \in Int
      BY <3>1
    <3>4. (IF r.wait > 0 THEN "before" ELSE "send") \in LoopPcs
      BY DEF LoopPcs
    <3> QED
      BY <3>1, <3>2, <3>3, <3>4 DEF LoopOf
  <2> QED
    BY <1>2, <2>2 DEF ResolveTiming
<1>3. CASE TimingLost
  BY <1>3, LoopTyped DEF TimingLost
<1>4. CASE Wake
  <2>1. /\ (IF loop.pc = "before" THEN "send" ELSE "timing") \in LoopPcs
        /\ loop \in LoopOf /\ 2 \in Int
    BY DEF LoopPcs
  <2>2. loop' = [loop EXCEPT !.pc = IF loop.pc = "before" THEN "send" ELSE "timing", !.left = 2]
    BY <1>4 DEF Wake
  <2>3. loop' \in LoopOf
    BY <2>1, <2>2, LoopMoves
  <2> QED
    BY <1>4, <2>3 DEF Wake
<1>5. CASE SendDigest
  <2>1. loop' \in LoopOf
    BY <1>5, LoopTyped DEF SendDigest
  <2>2. ASSUME loop.date \in Days PROVE DigestOf(loop.date) \in Digest
    BY <2>2 DEF DigestOf, Digest, JobsOf
  <2>3. digests' \in [Days -> Digest]
    BY <1>5, <2>2 DEF SendDigest
  <2> QED
    BY <1>5, <2>1, <2>3 DEF SendDigest
<1>6. CASE SendLost
  BY <1>6, LoopTyped DEF SendLost
<1>7. ASSUME NEW j \in Jobs, Succeed(j) PROVE ScheduleTypes'
  BY <1>7 DEF Succeed
<1>8. CASE Tick
  BY <1>8, ScheduleAssumption DEF Tick
<1> QED
  BY <1>1, <1>2, <1>3, <1>4, <1>5, <1>6, <1>7, <1>8 DEF ScheduleNext

\* Only a start counts, and only the first one sets the zone.
LEMMA StartCounts ==
  ASSUME ScheduleTypes, ScheduleNext
  PROVE  \/ /\ starts' = starts /\ zone' = zone
            /\ loop.pc = "none" => loop' = loop /\ digests' = digests
         \/ /\ starts' = starts + 1 /\ (starts = 0 \/ zone' = zone)
            /\ digests' = digests
BY DEF ScheduleNext, StartDigests, ResolveTiming, TimingLost, Wake, SendDigest, SendLost,
       Succeed, Tick

LEMMA UntouchedKept ==
  ASSUME ScheduleTypes, Untouched, ScheduleNext
  PROVE  /\ Untouched'
         /\ zone' = zone \/ (digests = [d \in Days |-> NoDigest] /\ digests' = digests)
<1>1. starts \in Nat
  BY DEF ScheduleTypes
<1>2. CASE /\ starts' = starts /\ zone' = zone
           /\ loop.pc = "none" => loop' = loop /\ digests' = digests
  BY <1>2 DEF Untouched
<1>3. CASE starts' = starts + 1 /\ (starts = 0 \/ zone' = zone) /\ digests' = digests
  BY <1>1, <1>3 DEF Untouched
<1> QED
  BY <1>2, <1>3, StartCounts

LEMMA Named ==
  ASSUME ScheduleTypes
  PROVE  /\ \A t \in Int : Wall(t) = ToWall(zone, t) /\ DayOf(Wall(t)) = DayAt(zone, t)
         /\ \A w \in Int : UtcOf(w) = ToUtc(zone, w)
         /\ \A d \in Int : Window(d) = WindowOf(zone, d) /\ JobsOf(d) = JobsIn(zone, doneAt, d)
<1>1. \A t : Wall(t) = ToWall(zone, t)
  BY DEF Wall, ToWall
<1>2. \A w : UtcOf(w) = ToUtc(zone, w)
  BY DEF UtcOf, ToUtc
<1>3. \A d : Window(d) = WindowOf(zone, d)
  BY <1>2 DEF Window, WindowOf, Midnight
<1> QED
  BY <1>1, <1>2, <1>3 DEF DayAt, JobsOf, JobsIn

LEMMA TodayIsADay ==
  ASSUME ScheduleTypes, NEW t \in Int, DayHours <= t, t <= hour
  PROVE  DayAt(zone, t) \in Days
<1> DEFINE w == ToWall(zone, t)
           top == Horizon + DayHours
<1>1. /\ DayHours \in Nat /\ DayHours >= 1 /\ Horizon \in Nat /\ hour \in Nat
      /\ t <= Horizon \/ t = DayHours
  BY ScheduleAssumption DEF ScheduleTypes
<1>2. w \in Int /\ 1 <= w /\ w <= t + DayHours - 1
  <2>1. zone.before \in Shifts /\ zone.after \in Shifts
    BY DEF ScheduleTypes, Zones
  <2> QED
    BY <1>1, <2>1, ScheduleAssumption DEF ToWall, Shifts
<1> HIDE DEF w
<1>3. DayOf(0) = 0 /\ DayOf(DayHours) = 1 /\ DayOf(DayHours + DayHours - 1) = 1
  <2>1. Midnight(0) = 0 /\ Midnight(1) = DayHours
    BY <1>1 DEF Midnight
  <2> QED
    BY <1>1, <2>1, DayIs
<1>4. top \in Int /\ DayOf(top) \in Int /\ DayOf(w) \in Int
  BY <1>1, <1>2, DaysHold
<1>5. 0 <= DayOf(w)
  BY <1>2, <1>3, DaysGrow
<1>6. DayOf(w) <= DayOf(top)
  <2>1. CASE t <= Horizon
    BY <1>1, <1>2, <1>4, <2>1, DaysGrow
  <2>2. CASE t = DayHours
    <3>1. DayOf(w) <= 1
      BY <1>1, <1>2, <1>3, <2>2, DaysGrow
    <3>2. 1 <= DayOf(top)
      <4>1. DayHours \in Int /\ top \in Int /\ DayHours <= top
        BY <1>1
      <4> QED
        BY <1>3, <4>1, DaysGrow
    <3> QED
      BY <1>4, <3>1, <3>2
  <2> QED
    BY <1>1, <2>1, <2>2
<1> QED
  BY <1>4, <1>5, <1>6 DEF Days, DayOf, DayAt, w

LEMMA NotLateBefore ==
  ASSUME ScheduleTypes, ScheduleNext, ~late'
  PROVE  ~late
BY DEF ScheduleTypes, ScheduleNext, StartDigests, ResolveTiming, TimingLost, Wake, SendDigest,
       SendLost, Succeed, Tick

\* What is in a digest stays right as time passes and as jobs succeed.
LEMMA DigestAges ==
  ASSUME ScheduleTypes, NEW d \in Days, NEW h \in Int, hour <= h,
         DigestSound(zone, hour, doneAt, digests[d], d)
  PROVE  DigestSound(zone, h, doneAt, digests[d], d)
BY DEF DigestSound, ScheduleTypes, Digest

LEMMA DigestMissesLater ==
  ASSUME ScheduleTypes, NEW d \in Days, NEW j \in Jobs, doneAt[j] = Never,
         DigestSound(zone, hour, doneAt, digests[d], d)
  PROVE  DigestSound(zone, hour, [doneAt EXCEPT ![j] = hour], digests[d], d)
<1> DEFINE done == [doneAt EXCEPT ![j] = hour]
<1> SUFFICES ASSUME digests[d] # NoDigest
             PROVE  /\ digests[d].jobs \subseteq JobsIn(zone, done, d)
                    /\ {k \in JobsIn(zone, done, d) : done[k] < digests[d].at}
                          \subseteq digests[d].jobs
  BY DEF DigestSound
<1>1. /\ digests[d].at \in Int /\ digests[d].at <= hour /\ hour \in Nat
      /\ digests[d].jobs \subseteq JobsIn(zone, doneAt, d)
      /\ {k \in JobsIn(zone, doneAt, d) : doneAt[k] < digests[d].at} \subseteq digests[d].jobs
  BY DEF DigestSound, ScheduleTypes, Digest
<1>2. done[j] = hour /\ \A k \in Jobs : k # j => done[k] = doneAt[k]
  BY DEF ScheduleTypes
<1>3. ~(done[j] < digests[d].at)
  BY <1>1, <1>2
<1>4. j \notin JobsIn(zone, doneAt, d)
  BY DEF JobsIn
<1> HIDE DEF done
<1>5. \A k \in Jobs : k # j => (k \in JobsIn(zone, doneAt, d) <=> k \in JobsIn(zone, done, d))
  BY <1>2 DEF JobsIn
<1>6. JobsIn(zone, doneAt, d) \subseteq Jobs /\ JobsIn(zone, done, d) \subseteq Jobs
  BY DEF JobsIn
<1>7. digests[d].jobs \subseteq JobsIn(zone, done, d)
  BY <1>1, <1>4, <1>5, <1>6
<1>8. {k \in JobsIn(zone, done, d) : done[k] < digests[d].at} \subseteq digests[d].jobs
  BY <1>1, <1>2, <1>3, <1>5, <1>6
<1> QED
  BY <1>7, <1>8 DEF done

\* A digest of today holds what has succeeded on it.
LEMMA DigestOfToday ==
  ASSUME ScheduleTypes, DayAt(zone, hour) = loop.date,
         \A d \in Days : DigestSound(zone, hour, doneAt, digests[d], d)
  PROVE  /\ loop.date \in Days /\ DigestOf(loop.date) # NoDigest
         /\ DigestSound(zone, hour, doneAt, DigestOf(loop.date), loop.date)
<1> DEFINE d == loop.date
<1>1. hour \in Nat /\ zone \in Zones
  BY DEF ScheduleTypes
<1>2. hour \in WindowOf(zone, d)
  BY <1>1, InWindow
<1>3. d \in Days
  BY <1>1, TodayIsADay DEF ScheduleTypes
<1>4. CASE digests[d] # NoDigest
  BY <1>3, <1>4 DEF DigestOf
<1>5. CASE digests[d] = NoDigest
  <2> DEFINE new == [at |-> hour, jobs |-> JobsIn(zone, doneAt, d)]
  <2>1. DigestOf(d) = new
    <3>1. d \in Int
      BY DEF ScheduleTypes, LoopOf
    <3> QED
      BY <1>5, <3>1, Named DEF DigestOf
  <2>2. new # NoDigest
    BY <1>1 DEF NoDigest, Never
  <2>3. DigestSound(zone, hour, doneAt, new, d)
    BY <1>1, <1>2 DEF DigestSound, JobsIn
  <2> QED
    BY <1>3, <2>1, <2>2, <2>3
<1> QED
  BY <1>4, <1>5

LEMMA DigestsKept ==
  ASSUME ScheduleInv, ScheduleNext, ~late'
  PROVE  \A d \in Days : DigestSound(zone', hour', doneAt', digests'[d], d)
<1>1. /\ ScheduleTypes /\ Untouched /\ hour \in Nat
      /\ \A d \in Days : DigestSound(zone, hour, doneAt, digests[d], d)
      /\ LoopSound(zone, hour, digests, loop)
  BY NotLateBefore DEF ScheduleInv, ScheduleTypes
<1>2. CASE zone' # zone
  BY <1>1, <1>2, UntouchedKept DEF DigestSound
<1>3. CASE SendDigest
  <2>1. /\ DayAt(zone, hour) = loop.date /\ UNCHANGED <<hour, zone, doneAt>>
        /\ digests' = [digests EXCEPT ![loop.date] = DigestOf(loop.date)]
    BY <1>1, <1>3 DEF SendDigest, LoopSound
  <2>2. /\ loop.date \in Days
        /\ DigestSound(zone, hour, doneAt, DigestOf(loop.date), loop.date)
    BY <1>1, <2>1, DigestOfToday
  <2>3. \A d \in Days : digests'[d] = IF d = loop.date THEN DigestOf(loop.date) ELSE digests[d]
    BY <1>1, <2>1 DEF ScheduleTypes
  <2> QED
    BY <1>1, <2>1, <2>2, <2>3
<1>4. ASSUME NEW j \in Jobs, Succeed(j), NEW d \in Days
      PROVE  DigestSound(zone', hour', doneAt', digests'[d], d)
  <2>1. /\ UNCHANGED <<hour, zone, digests>> /\ doneAt[j] = Never
        /\ doneAt' = [doneAt EXCEPT ![j] = hour]
    BY <1>4 DEF Succeed
  <2>2. DigestSound(zone, hour, [doneAt EXCEPT ![j] = hour], digests[d], d)
    BY <1>1, <2>1, DigestMissesLater
  <2> QED
    BY <2>1, <2>2
<1>5. CASE zone' = zone /\ ~SendDigest /\ \A j \in Jobs : ~Succeed(j)
  <2>1. UNCHANGED <<zone, doneAt, digests>> /\ hour' \in {hour, hour + 1}
    BY <1>5 DEF ScheduleNext, StartDigests, ResolveTiming, TimingLost, Wake, SendLost, Tick
  <2>2. hour' \in Int /\ hour <= hour'
    BY <1>1, <2>1
  <2> QED
    BY <1>1, <2>1, <2>2, DigestAges
<1> QED
  BY <1>2, <1>3, <1>4, <1>5

-----------------------------------------------------------------------------
\* No digest that is there is taken away.
LEMMA DigestsStay ==
  ASSUME ScheduleTypes, ScheduleNext
  PROVE  \A d \in Days : digests[d] # NoDigest => digests'[d] = digests[d]
<1>1. CASE SendDigest
  <2>1. digests' = [digests EXCEPT ![loop.date] = DigestOf(loop.date)]
    BY <1>1 DEF SendDigest
  <2>2. \A d \in Days : digests'[d] = IF d = loop.date THEN DigestOf(d) ELSE digests[d]
    BY <2>1 DEF ScheduleTypes
  <2> QED
    BY <2>2 DEF DigestOf
<1>2. CASE ~SendDigest
  BY <1>2 DEF ScheduleNext, StartDigests, ResolveTiming, TimingLost, Wake, SendLost, Succeed, Tick
<1> QED
  BY <1>1, <1>2

LEMMA SentStays ==
  ASSUME ScheduleTypes, ScheduleNext, NEW s, NEW last, AllSent(zone, digests, s, last)
  PROVE  AllSent(zone, digests', s, last)
BY DigestsStay DEF AllSent

\* What is due is not let pass.
LEMMA TickSound ==
  ASSUME ScheduleTypes, LoopSound(zone, hour, digests, loop), Tick, ~late'
  PROVE  LoopSound(zone', hour', digests', loop')
<1>1. /\ UNCHANGED <<zone, digests, loop>> /\ hour' = hour + 1 /\ ~Due
      /\ hour \in Nat /\ loop.wake \in Int /\ loop.since \in Int /\ DayHours \in Nat
  BY ScheduleAssumption DEF Tick, ScheduleTypes, LoopOf
<1>2. /\ loop.pc \notin {"timing", "send"}
      /\ loop.pc \in {"before", "after"} => hour < loop.wake
  BY <1>1 DEF Due
<1> QED
  BY <1>1, <1>2 DEF LoopSound

LEMMA LostSound ==
  ASSUME ScheduleTypes, LoopSound(zone, hour, digests, loop), ScheduleNext,
         loop' = Lost, loop.pc \in {"timing", "send"}, UNCHANGED <<hour, zone>>
  PROVE  LoopSound(zone', hour', digests', loop')
<1>1. /\ loop'.pc = "failed" \/ loop'.pc = loop.pc
      /\ loop'.once = loop.once /\ loop'.date = loop.date /\ loop'.wake = loop.wake
      /\ loop'.after = loop.after /\ loop'.since = loop.since
  BY DEF Lost, ScheduleTypes, LoopOf
<1>2. \A last : AllSent(zone, digests, loop.since, last)
                    => AllSent(zone, digests', loop.since, last)
  BY SentStays
<1> QED
  BY <1>1, <1>2 DEF LoopSound

LEMMA WakeSound ==
  ASSUME ScheduleTypes, LoopSound(zone, hour, digests, loop), Wake
  PROVE  LoopSound(zone', hour', digests', loop')
<1>1. /\ UNCHANGED <<hour, zone, digests>>
      /\ loop'.pc = IF loop.pc = "before" THEN "send" ELSE "timing"
      /\ loop'.once = loop.once /\ loop'.date = loop.date
      /\ loop'.after = loop.after /\ loop'.since = loop.since
      /\ loop.pc \in {"before", "after"} /\ hour >= loop.wake
      /\ hour \in Nat /\ loop.wake \in Int /\ loop.date \in Int
  BY DEF Wake, ScheduleTypes, LoopOf
<1>2. hour = loop.wake
  BY <1>1 DEF LoopSound
<1>3. CASE loop.pc = "before"
  <2>1. DayAt(zone, hour) = loop.date
    BY <1>2, <1>3 DEF LoopSound, Near
  <2> QED
    BY <1>1, <1>2, <1>3, <2>1 DEF LoopSound
<1>4. CASE loop.pc = "after"
  <2>1. DayAt(zone, hour) = loop.date + 1 /\ Near(zone, hour, DayAt(zone, hour))
    BY <1>2, <1>4 DEF LoopSound, Near
  <2>2. DayAt(zone, hour) - 1 = loop.date
    BY <1>1, <2>1
  <2> QED
    BY <1>1, <1>2, <1>4, <2>1, <2>2 DEF LoopSound
<1> QED
  BY <1>1, <1>3, <1>4

LEMMA SendSound ==
  ASSUME ScheduleInv, ~late, SendDigest, ScheduleNext
  PROVE  LoopSound(zone', hour', digests', loop')
<1>1. /\ ScheduleTypes /\ LoopSound(zone, hour, digests, loop)
      /\ \A d \in Days : DigestSound(zone, hour, doneAt, digests[d], d)
      /\ loop.pc = "send" /\ loop' \in {Sent, Lost} /\ UNCHANGED <<hour, zone>>
      /\ digests' = [digests EXCEPT ![loop.date] = DigestOf(loop.date)]
  BY DEF ScheduleInv, SendDigest
<1>2. CASE loop' = Lost
  BY <1>1, <1>2, LostSound
<1>3. CASE loop' = Sent
  <2>1. /\ loop'.pc = IF loop.once THEN "done" ELSE "after"
        /\ loop'.once = loop.once /\ loop'.date = loop.date
        /\ loop'.wake = hour + loop.after /\ loop'.since = loop.since
        /\ loop.once \in BOOLEAN /\ hour \in Nat /\ loop.after \in Int /\ loop.date \in Int
    BY <1>1, <1>3 DEF Sent, ScheduleTypes, LoopOf
  <2>2. CASE loop.once
    BY <2>1, <2>2 DEF LoopSound
  <2>3. CASE ~loop.once
    <3>1. loop.date \in Days /\ digests'[loop.date] # NoDigest
      <4>1. DayAt(zone, hour) = loop.date
        BY <1>1 DEF LoopSound
      <4>2. loop.date \in Days /\ DigestOf(loop.date) # NoDigest
        BY <1>1, <4>1, DigestOfToday
      <4> QED
        BY <1>1, <4>2 DEF ScheduleTypes
    <3>2. AllSent(zone, digests', loop.since, loop.date - 1)
      BY <1>1, <2>3, SentStays DEF LoopSound
    <3>3. AllSent(zone, digests', loop.since, loop.date)
      <4>1. \A d \in Days : d \in Int /\ (d <= loop.date => d <= loop.date - 1 \/ d = loop.date)
        BY <2>1 DEF Days
      <4> QED
        BY <3>1, <3>2, <4>1 DEF AllSent
    <3>4. hour <= hour + loop.after
      BY <1>1, <2>1, <2>3 DEF LoopSound
    <3> QED
      BY <1>1, <2>1, <2>3, <3>3, <3>4 DEF LoopSound
  <2> QED
    BY <2>1, <2>2, <2>3
<1> QED
  BY <1>1, <1>2, <1>3

\* The waits that the timing is resolved to.
LEMMA TimingIs ==
  ASSUME ScheduleTypes, NEW once \in BOOLEAN
  PROVE  LET d == DayAt(zone, hour)
             now == ToWall(zone, hour)
             due == Midnight(d) + TargetHour
             next == ToUtc(zone, Midnight(d + 1) + TargetHour)
             r == resolve_timing(once)
         IN  /\ now < due /\ ~once =>
                  /\ r.date = d /\ r.wait = due - now
                  /\ next - ToUtc(zone, due) >= 1 => r.after = next - ToUtc(zone, due)
             /\ ~(now < due /\ ~once) =>
                  /\ r.date = d /\ r.wait = 0
                  /\ next - hour >= 1 => r.after = next - hour
<1> DEFINE d == DayAt(zone, hour)
           now == ToWall(zone, hour)
           due == Midnight(d) + TargetHour
           next == ToUtc(zone, Midnight(d + 1) + TargetHour)
<1>1. /\ zone \in Zones /\ hour \in Int /\ now \in Int /\ d \in Int /\ DayOf(now) = d
      /\ Wall(hour) = now /\ \A w \in Int : UtcOf(w) = ToUtc(zone, w) /\ ToUtc(zone, w) \in Int
  BY Named, Clocks DEF ScheduleTypes, DayAt
<1>2. DayOf(Wall(hour)) * DayHours + TargetHour = due /\ DayOf(Wall(hour)) = d
  BY <1>1 DEF Midnight
<1>3. Midnight(d) <= now /\ now < Midnight(d) + DayHours
  BY <1>1, DaysHold
<1>4. /\ Midnight(d) \in Int /\ due \in Int /\ Midnight(d + 1) + TargetHour \in Int
      /\ TargetHour \in 0..(DayHours - 1) /\ DayHours \in Nat
  BY <1>1, Midnights, ScheduleAssumption
<1>5. (d + 1) * DayHours + TargetHour = Midnight(d + 1) + TargetHour
  BY DEF Midnight
<1> HIDE DEF d, now
<1>6. DayOf(due) = d
  BY <1>1, <1>3, <1>4, DayIs
<1>7. next \in Int /\ UtcOf(Midnight(d + 1) + TargetHour) = next
  BY <1>1, <1>4
<1>8. ToUtc(zone, due) \in Int /\ UtcOf(due) = ToUtc(zone, due)
  BY <1>1, <1>4
<1> HIDE DEF due, next
<1>9. ASSUME now < due, ~once
      PROVE  resolve_timing(once) =
               [date |-> d, wait |-> due - now,
                after |-> IF next - ToUtc(zone, due) < 1 THEN 1 ELSE next - ToUtc(zone, due)]
  BY <1>1, <1>2, <1>5, <1>6, <1>7, <1>8, <1>9, Zenon DEF resolve_timing
<1>10. ASSUME ~(now < due /\ ~once)
       PROVE  resolve_timing(once) =
                [date |-> d, wait |-> 0,
                 after |-> IF next - hour < 1 THEN 1 ELSE next - hour]
  BY <1>1, <1>2, <1>5, <1>7, <1>10, Zenon DEF resolve_timing
<1>11. ASSUME now < due, ~once
       PROVE  LET r == resolve_timing(once)
              IN  /\ r.date = d /\ r.wait = due - now
                  /\ next - ToUtc(zone, due) >= 1 => r.after = next - ToUtc(zone, due)
  BY <1>7, <1>8, <1>9, <1>11
<1>12. ASSUME ~(now < due /\ ~once)
       PROVE  LET r == resolve_timing(once)
              IN  /\ r.date = d /\ r.wait = 0
                  /\ next - hour >= 1 => r.after = next - hour
  BY <1>1, <1>7, <1>10, <1>12
<1> QED
  BY <1>11, <1>12 DEF d, now, due, next

LEMMA TimingSound ==
  ASSUME TargetHour + 1 < DayHours, ScheduleTypes,
         LoopSound(zone, hour, digests, loop), ResolveTiming
  PROVE  LoopSound(zone', hour', digests', loop')
<1> DEFINE d == DayAt(zone, hour)
           now == ToWall(zone, hour)
           due == Midnight(d) + TargetHour
           next == ToUtc(zone, Midnight(d + 1) + TargetHour)
           r == resolve_timing(loop.once)
<1>1. /\ zone \in Zones /\ hour \in Nat /\ loop.once \in BOOLEAN /\ loop.since \in Int
      /\ d \in Int /\ now \in Int /\ due \in Int
  <2>1. zone \in Zones /\ hour \in Nat /\ loop.once \in BOOLEAN /\ loop.since \in Int
    BY DEF ScheduleTypes, LoopOf
  <2>2. d \in Int /\ now \in Int
    BY <2>1, Clocks
  <2> QED
    BY <2>1, <2>2, Midnights, ScheduleAssumption
<1>2. /\ loop.pc = "timing" /\ UNCHANGED <<hour, zone, digests>>
      /\ loop'.pc = IF r.wait > 0 THEN "before" ELSE "send"
      /\ loop'.once = loop.once /\ loop'.since = loop.since /\ loop'.date = r.date
      /\ loop'.wake = hour + r.wait /\ loop'.after = r.after
  BY DEF ResolveTiming, ScheduleTypes, LoopOf
<1>3. ~loop.once => /\ AllSent(zone, digests, loop.since, d - 1)
                    /\ hour = loop.since \/ Near(zone, hour, d)
  BY <1>2 DEF LoopSound
<1>4. DayHours <= loop.since /\ loop.since <= hour
  BY <1>2 DEF LoopSound
<1>5. CASE now < due /\ ~loop.once
  <2>1. /\ hour < hour + (due - now) /\ Near(zone, hour + (due - now), d)
        /\ next - ToUtc(zone, due) >= 1
        /\ Near(zone, hour + (due - now) + (next - ToUtc(zone, due)), d + 1)
    BY <1>1, <1>5, WaitBefore
  <2>2. r.date = d /\ r.wait = due - now /\ r.after = next - ToUtc(zone, due)
    BY <1>1, <1>5, <2>1, TimingIs
  <2> HIDE DEF d, now, due, next, r
  <2>3. loop'.pc = "before" /\ hour <= loop'.wake
    BY <1>1, <1>2, <1>5, <2>1, <2>2
  <2> QED
    BY <1>1, <1>2, <1>3, <1>4, <1>5, <2>1, <2>2, <2>3 DEF LoopSound
<1>6. CASE ~(now < due /\ ~loop.once)
  <2>1. next \in Int /\ hour < next /\ Near(zone, next, d + 1)
    BY <1>1, WaitAfter
  <2>2. next - hour >= 1 /\ hour + (next - hour) = next
    BY <1>1, <2>1
  <2>3. r.date = d /\ r.wait = 0 /\ r.after = next - hour
    BY <1>1, <1>6, <2>2, TimingIs
  <2>4. DayAt(zone, hour) = d
    OBVIOUS
  <2> HIDE DEF d, now, due, next, r
  <2>5. loop'.pc = "send"
    BY <1>2, <2>3
  <2> QED
    BY <1>1, <1>2, <1>3, <1>4, <2>1, <2>2, <2>3, <2>4, <2>5 DEF LoopSound
<1> QED
  BY <1>5, <1>6

LEMMA StartSound ==
  ASSUME ScheduleTypes, NEW once \in BOOLEAN, NEW z, z \in Zones, StartDigests(once, z)
  PROVE  LoopSound(zone', hour', digests', loop')
<1>1. /\ loop'.pc = "timing" /\ loop'.since = hour /\ hour' = hour /\ digests' = digests
      /\ zone' \in Zones /\ hour \in Nat /\ DayHours <= hour
  BY DEF StartDigests, NoLoop, ScheduleTypes
<1>2. DayAt(zone', hour) \in Int
  BY <1>1, Clocks
<1>3. AllSent(zone', digests, hour, DayAt(zone', hour) - 1)
  <2>1. \A d \in Days : d \in Int
    BY DEF Days
  <2> QED
    BY <1>2, <2>1 DEF AllSent
<1> QED
  BY <1>1, <1>3 DEF LoopSound

LEMMA LoopKept ==
  ASSUME TargetHour + 1 < DayHours, ScheduleInv, ScheduleNext, ~late'
  PROVE  LoopSound(zone', hour', digests', loop')
<1>1. /\ ~late /\ ScheduleTypes /\ LoopSound(zone, hour, digests, loop)
  BY NotLateBefore DEF ScheduleInv
<1>2. ASSUME NEW once \in BOOLEAN, NEW z \in Offsets,
             StartDigests(once, [before |-> z[1], after |-> z[2]])
      PROVE  LoopSound(zone', hour', digests', loop')
  <2>1. [before |-> z[1], after |-> z[2]] \in Zones
    BY ScheduleAssumption DEF Zones
  <2> QED
    BY <1>1, <1>2, <2>1, StartSound
<1>3. CASE ResolveTiming
  BY <1>1, <1>3, TimingSound
<1>4. CASE TimingLost
  BY <1>1, <1>4, LostSound DEF TimingLost
<1>5. CASE Wake
  BY <1>1, <1>5, WakeSound
<1>6. CASE SendDigest
  BY <1>1, <1>6, SendSound
<1>7. CASE SendLost
  BY <1>1, <1>7, LostSound DEF SendLost
<1>8. ASSUME NEW j \in Jobs, Succeed(j) PROVE LoopSound(zone', hour', digests', loop')
  BY <1>1, <1>8 DEF Succeed
<1>9. CASE Tick
  BY <1>1, <1>9, TickSound
<1> QED
  BY <1>2, <1>3, <1>4, <1>5, <1>6, <1>7, <1>8, <1>9 DEF ScheduleNext

\* What the loop knows of the past is what the property asks for.
LEMMA DaysAreSent ==
  ASSUME ScheduleInv
  PROVE  DigestEveryDay
<1>1. ScheduleTypes /\ hour \in Nat /\ zone \in Zones /\ DayHours \in Nat /\ TargetHour \in Nat
  BY ScheduleAssumption DEF ScheduleInv, ScheduleTypes
<1>2. ASSUME loop.pc \in {"timing", "before", "send", "after"}, ~loop.once, ~late,
             NEW d \in DayOf(Wall(loop.since))..DayOf(Wall(hour)),
             Wall(hour) > d * DayHours + TargetHour + 1, hour > loop.since
      PROVE  digests[d] # NoDigest
  <2> DEFINE today == DayAt(zone, hour)
             now == ToWall(zone, hour)
             first == DayAt(zone, loop.since)
  <2>1. LoopSound(zone, hour, digests, loop)
    BY <1>2 DEF ScheduleInv
  <2>2. /\ loop.since \in Int /\ loop.wake \in Int /\ loop.date \in Int
        /\ DayHours <= loop.since /\ loop.since <= hour
    BY <1>1, <1>2, <2>1 DEF LoopSound, ScheduleTypes, LoopOf
  <2>3. today \in Days /\ first \in Days /\ today \in Int /\ first \in Int /\ now \in Int
    <3>1. today \in Days /\ first \in Days
      BY <1>1, <2>2, TodayIsADay DEF ScheduleTypes
    <3> QED
      BY <1>1, <2>2, <3>1, Clocks
  <2>4. d \in first..today /\ now > Midnight(d) + TargetHour + 1
    BY <1>1, <1>2, <2>2, Named DEF Midnight
  <2> HIDE DEF today, now, first
  <2>5. d \in Days /\ d \in Int /\ first <= d /\ d <= today /\ Midnight(d) \in Int
    <3>1. d \in Int /\ first <= d /\ d <= today
      BY <2>3, <2>4
    <3>2. (Horizon + DayHours) \div DayHours \in Int
      BY ScheduleAssumption
    <3> QED
      BY <2>3, <3>1, <3>2, Midnights DEF Days
  <2>6. ASSUME NEW last \in Int, AllSent(zone, digests, loop.since, last), d <= last
        PROVE  digests[d] # NoDigest
    BY <2>5, <2>6 DEF AllSent, first
  \* A wall time that is not far past the due hour of a later day is not past that of d.
  <2>7. ASSUME NEW t \in Int, NEW e \in Int, hour <= t, Near(zone, t, e)
        PROVE  d < e
    <3>1. now <= ToWall(zone, t) /\ ToWall(zone, t) \in Int
      BY <1>1, <2>7, WallGrows, Clocks DEF now
    <3>2. ToWall(zone, t) <= Midnight(e) + TargetHour + 1 /\ Midnight(e) \in Int
      BY <2>7, Midnights DEF Near
    <3>3. today <= e
      <4>1. DayOf(now) <= DayOf(ToWall(zone, t))
        BY <2>3, <3>1, DaysGrow
      <4> QED
        BY <2>7, <4>1 DEF Near, DayAt, today, now
    <3>4. d # e
      BY <1>1, <2>3, <2>4, <2>5, <3>1, <3>2
    <3> QED
      BY <2>3, <2>5, <2>7, <3>3, <3>4
  <2>8. CASE loop.pc = "timing"
    <3>1. AllSent(zone, digests, loop.since, today - 1) /\ Near(zone, hour, today)
      BY <1>1, <1>2, <2>1, <2>2, <2>8 DEF LoopSound, today
    <3>2. d < today
      BY <1>1, <2>3, <2>7, <3>1
    <3> QED
      BY <2>3, <2>5, <2>6, <3>1, <3>2
  <2>9. CASE loop.pc = "before"
    <3>1. /\ AllSent(zone, digests, loop.since, loop.date - 1)
          /\ hour <= loop.wake /\ Near(zone, loop.wake, loop.date)
      BY <2>1, <2>9 DEF LoopSound
    <3>2. d < loop.date
      BY <2>2, <2>7, <3>1
    <3> QED
      BY <2>2, <2>5, <2>6, <3>1, <3>2
  <2>10. CASE loop.pc = "send"
    <3>1. AllSent(zone, digests, loop.since, loop.date - 1) /\ Near(zone, hour, loop.date)
      BY <1>1, <1>2, <2>1, <2>2, <2>10 DEF LoopSound
    <3>2. d < loop.date
      BY <1>1, <2>2, <2>7, <3>1
    <3> QED
      BY <2>2, <2>5, <2>6, <3>1, <3>2
  <2>11. CASE loop.pc = "after"
    <3>1. /\ AllSent(zone, digests, loop.since, loop.date)
          /\ hour <= loop.wake /\ Near(zone, loop.wake, loop.date + 1)
      BY <2>1, <2>11 DEF LoopSound
    <3>2. d < loop.date + 1
      BY <2>2, <2>7, <3>1
    <3> QED
      BY <2>2, <2>5, <2>6, <3>1, <3>2
  <2> QED
    BY <1>2, <2>8, <2>9, <2>10, <2>11
<1>3. ASSUME ~late, NEW d \in Days, digests[d] # NoDigest
      PROVE  /\ digests[d].at \in Window(d)
             /\ digests[d].jobs \subseteq JobsOf(d)
             /\ {j \in JobsOf(d) : doneAt[j] < digests[d].at} \subseteq digests[d].jobs
  <2>1. DigestSound(zone, hour, doneAt, digests[d], d)
    BY <1>3 DEF ScheduleInv
  <2>2. Window(d) = WindowOf(zone, d) /\ JobsOf(d) = JobsIn(zone, doneAt, d)
    <3>1. d \in Int
      BY DEF Days
    <3> QED
      BY <1>1, <3>1, Named
  <2> QED
    BY <1>3, <2>1, <2>2 DEF DigestSound
<1> QED
  BY <1>2, <1>3 DEF DigestEveryDay

\* Wherever the digest is due before the last hour of the day, a loop whose timers fire
\* on time sends every day its own digest, with the jobs of that day, whatever the clock
\* does once, whichever attempts are lost and however often the loop is started again.
THEOREM DigestsKeepTheirDays ==
  TargetHour + 1 < DayHours => (ScheduleSpec => []DigestEveryDay)
<1> SUFFICES ASSUME TargetHour + 1 < DayHours
             PROVE  ScheduleSpec => []DigestEveryDay
  OBVIOUS
<1> DEFINE vs == <<scheduleVars, canaryVars>>
<1>1. ScheduleInit => ScheduleInv
  <2> SUFFICES ASSUME ScheduleInit PROVE ScheduleInv
    OBVIOUS
  <2>1. zone \in Zones
    BY ScheduleAssumption DEF ScheduleInit, Zones, Shifts
  <2>2. loop \in LoopOf /\ loop.pc = "none"
    BY DEF ScheduleInit, NoLoop, LoopOf, LoopPcs
  <2>3. digests \in [Days -> Digest] /\ \A d \in Days : digests[d] = NoDigest
    BY DEF ScheduleInit, NoDigest, Never, Digest
  <2>4. ScheduleTypes
    <3>1. doneAt \in [Jobs -> Int] /\ hour = DayHours /\ late \in BOOLEAN /\ starts \in Nat
      <4>1. Never \in Int
        BY DEF Never
      <4> QED
        BY <4>1 DEF ScheduleInit
    <3>2. DayHours \in Nat
      BY ScheduleAssumption
    <3> QED
      BY <2>1, <2>2, <2>3, <3>1, <3>2 DEF ScheduleTypes
  <2> QED
    BY <2>2, <2>3, <2>4 DEF ScheduleInit, ScheduleInv, Untouched, DigestSound, LoopSound
<1>2. ScheduleInv /\ [ScheduleNext /\ UNCHANGED canaryVars]_vs => ScheduleInv'
  <2> SUFFICES ASSUME ScheduleInv, [ScheduleNext /\ UNCHANGED canaryVars]_vs
               PROVE  ScheduleInv'
    OBVIOUS
  <2>1. CASE ScheduleNext
    <3>1. ScheduleTypes' /\ Untouched'
      BY <2>1, TypesKept, UntouchedKept DEF ScheduleInv
    <3>2. ASSUME ~late' PROVE /\ \A d \in Days : DigestSound(zone', hour', doneAt', digests'[d], d)
                              /\ LoopSound(zone', hour', digests', loop')
      BY <2>1, <3>2, DigestsKept, LoopKept
    <3> QED
      BY <3>1, <3>2 DEF ScheduleInv
  <2>2. CASE UNCHANGED vs
    BY <2>2 DEF vs, scheduleVars, ScheduleInv, ScheduleTypes, Untouched
  <2> QED
    BY <2>1, <2>2
<1>3. ScheduleInv => DigestEveryDay
  BY DaysAreSent
<1> QED
  BY <1>1, <1>2, <1>3, PTL DEF ScheduleSpec, vs

=============================================================================
