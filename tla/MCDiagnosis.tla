----------------------------- MODULE MCDiagnosis -----------------------------
(* Small instances of Diagnosis. *)
EXTENDS Diagnosis

\* One service on two cards, and a card elsewhere with the UUID of one of them.
OneService == {<<"east", "llama">>}
ClonedFleet == {<<"east", "gpu0">>, <<"east", "gpu1">>, <<"west", "gpu0">>}

AllBound == [s \in Services |-> {c[2] : c \in Cards}]

SomeClocks == {1213, 1980}
SomeRates == {60, 80, 100, 120, 135}
SomeBaselines == {{}, {0}, {100}}
SomeKv == {40, 90}

LoadFailures == {"base", "gauges"}
=============================================================================
