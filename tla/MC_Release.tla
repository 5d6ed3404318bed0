------------------------------ MODULE MC_Release ------------------------------
(* One migration, one tag, one measurement in four beyond the budget. *)
EXTENDS Release

SomeSamples == {<<1, 1, 1, 3>>}
FullCi == [tests |-> 100, failed |-> 0, skipped |-> 0, unread |-> 0,
           python |-> 90, web |-> 90, mutation |-> 90]
SomeCiRuns == {FullCi}

===============================================================================
