------------------------------ MODULE MC_Reports ------------------------------
(*****************************************************************************)
(* What the scripts report of the current commit, of a release and of the    *)
(* runs in the runtime cache: the machines share no state and are checked    *)
(* side by side on small instances, and "focus", chosen at the start, is the *)
(* one that moves.                                                           *)
(*****************************************************************************)
EXTENDS CurrentProof, Release, Evidence

VARIABLE focus

\* The p75 is 2: within the budget though one page is not, and over a budget of 1.
SomeSamples == {<<1, 2, 2, 3>>}
FullCi == [tests |-> 100, failed |-> 0, skipped |-> 0, unread |-> 0,
           python |-> 90, web |-> 90, mutation |-> 90]
SomeCiRuns == {FullCi, [FullCi EXCEPT !.failed = 1, !.skipped = 1, !.web = 75, !.mutation = 60],
               [FullCi EXCEPT !.tests = 0, !.unread = 3]}

Foci == {"proof", "release", "evidence"}

vars == <<focus, proofVars, releaseVars, evidenceVars>>

Still(f, v) == focus # f => UNCHANGED v

Others ==
    /\ UNCHANGED focus
    /\ Still("proof", proofVars)
    /\ Still("release", releaseVars)
    /\ Still("evidence", evidenceVars)

ProofMoves == focus = "proof" /\ ProofNext /\ Others
ReleaseMoves == focus = "release" /\ ReleaseNext /\ Others
EvidenceMoves == focus = "evidence" /\ EvidenceNext /\ Others

Init ==
    /\ focus \in Foci
    /\ ProofInit /\ ReleaseInit /\ EvidenceInit
    /\ focus # "release" => tree.tag = 1 /\ tree.ci = FullCi

Next == ProofMoves \/ ReleaseMoves \/ EvidenceMoves

Spec == Init /\ [][Next]_vars

===============================================================================
