------------------------------ MODULE Diagnosis ------------------------------
(***************************************************************************)
(* From telemetry to verdicts: collectSignals (src/services/api/           *)
(* signals.go) assembles one bundle of signals per service of a tenant,    *)
(* Correlate (correlate.go) turns each into a verdict.                     *)
(*                                                                         *)
(* A behaviour is one examination of any telemetry the store may hold, in  *)
(* which any of the queries whose errors are ignored may fail.             *)
(***************************************************************************)
EXTENDS CorrelateRules, TLC

CONSTANTS
    Services,       \* (cluster, model) pairs that have traffic
    Cards,          \* (cluster, UUID) pairs that report; a UUID may be in several clusters
    Bindings,       \* per service, the UUIDs its model is bound to in its cluster
    Clocks,         \* SM clocks a card may report
    Rates,          \* requests per minute a service may see
    Baselines,      \* what the baseline window may hold of a service: no row, or one with a rate
    KvLevels,       \* KV cache usage, percent
    MayFail         \* queries that may fail, a subset of Tolerated

Tolerated == {"xid", "base", "gauges"}
Models == {s[2] : s \in Services}

ASSUME BindingAssumption == Bindings \in [Services -> SUBSET {c[2] : c \in Cards}]
ASSUME FailureAssumption == MayFail \subseteq Tolerated
ASSUME RateAssumption ==
    Clocks \cup Rates \cup KvLevels \cup UNION Baselines \subseteq Nat
\* The query groups by cluster and model: a service has one row.
ASSUME BaselineAssumption == \A b \in Baselines : \A x, y \in b : x = y

VARIABLES
    card,       \* per card: its clock, whether 95% of its memory is used, whether it reports XIDs
    service,    \* per service: p95 against its SLO, request rate now and before, KV cache usage
    signal,     \* the bundle collected for each service
    verdict,    \* per service, what Correlate made of it
    pc

vars == <<card, service, signal, verdict, pc>>

(***************************************************************************)
(* Signals.                                                                *)
(***************************************************************************)

\* The best clock any card is achieving, in whichever cluster; the cards are
\* all of one GPU model.
PeakClock == Max({card[c].clock : c \in Cards})

Throttled(c) == card[c].clock * 100 < PeakClock * 97

\* Mutant: bindings joined on the UUID alone.
BoundAnywhere(s) == {c \in Cards : c[2] \in Bindings[s]}

BoundCards(s) == {c \in Cards : c[1] = s[1] /\ c[2] \in Bindings[s]}

\* Mutant: XIDs joined on the UUID alone.
ErringAnywhere(s, lost) ==
    {c \in Cards : c[2] \in Bindings[s] /\ card[c].xid /\ "xid" \notin lost}

Erring(s, lost) == {c \in BoundCards(s) : card[c].xid /\ "xid" \notin lost}

SameModel(s) == {r \in Services : r[2] = s[2]}

\* qSvcGaugesNow averages over everything that serves the model.
KvReading(s, lost) ==
    IF "gauges" \in lost THEN 0
    ELSE FoldSet(LAMBDA r, sum : service[r].kv + sum, 0, SameModel(s))
             \div Cardinality(SameModel(s))

\* baseBy keeps one row per model, whichever comes last; a row without requests
\* is no baseline, like none.
BaseRows(m) == UNION {service[r].base : r \in {q \in Services : q[2] = m}}
BaseReadings(m, lost) == IF "base" \in lost \/ BaseRows(m) = {} THEN {0} ELSE BaseRows(m)

Bundle(s, lost, baseBy) ==
    [gpus |-> BoundCards(s),
     throttled |-> {c \in BoundCards(s) : Throttled(c)},
     erring |-> Erring(s, lost),
     full |-> {c \in BoundCards(s) : card[c].full},
     p95 |-> service[s].p95,
     rate |-> service[s].rate,
     base |-> baseBy[s[2]],
     kv |-> KvReading(s, lost)]

NoSignal == [gpus |-> {}, throttled |-> {}, erring |-> {}, full |-> {},
             p95 |-> "within", rate |-> 0, base |-> 0, kv |-> 0]

Init ==
    /\ card \in [Cards -> [clock : Clocks, full : BOOLEAN, xid : BOOLEAN]]
    /\ service \in [Services -> [p95 : {"within", "over", "far over"},
                                 rate : Rates, base : Baselines, kv : KvLevels]]
    /\ signal = [s \in Services |-> NoSignal]
    /\ verdict = [s \in Services |-> Quiet]
    /\ pc = "collect"

CollectSignals ==
    /\ pc = "collect"
    /\ \E lost \in SUBSET MayFail :
       \E baseBy \in [Models -> UNION {BaseReadings(m, lost) : m \in Models}] :
          /\ \A m \in Models : baseBy[m] \in BaseReadings(m, lost)
          /\ signal' = [s \in Services |-> Bundle(s, lost, baseBy)]
    /\ pc' = "correlate"
    /\ UNCHANGED <<card, service, verdict>>

Diagnose ==
    /\ pc = "correlate"
    /\ verdict' \in [Services -> UNION {Correlate(signal[s]) : s \in Services}]
    /\ \A s \in Services : verdict'[s] \in Correlate(signal[s])
    /\ pc' = "done"
    /\ UNCHANGED <<card, service, signal>>

Next == CollectSignals \/ Diagnose

Spec == Init /\ [][Next]_vars

(***************************************************************************)
(* What the telemetry says of each claim about a service.                  *)
(***************************************************************************)

\* The service's own load, in its own cluster, when both windows have it.
OwnLoad(s) == {[rate |-> service[s].rate, base |-> b] : b \in service[s].base \ {0}}

True(claim, s, c) ==
    LET cards == BoundCards(s)
        load == OwnLoad(s)
    IN  CASE claim = "card errs" -> card[c].xid
          [] claim = "card throttles" -> Throttled(c)
          [] claim = "card is full" -> card[c].full
          [] claim = "sibling is fine" -> \E d \in cards : ~Throttled(d)
          [] claim = "load is flat" -> load # {} /\ \A l \in load : Within(l, 20)
          [] claim = "load rose" -> load # {} /\ \A l \in load : RoseBy(l, 35)
          [] claim = "not a load change" -> load # {} /\ \A l \in load : ~RoseBy(l, 35)
          [] claim = "load unknown" -> TRUE
          [] claim = "no card throttles" -> \A d \in cards : ~Throttled(d)
          [] claim = "no card errs" -> \A d \in cards : ~card[d].xid
          [] claim = "hardware is healthy" ->
                 \A d \in cards : ~Throttled(d) /\ ~card[d].xid /\ ~card[d].full
          [] claim = "cache is full" -> service[s].kv >= 85
          [] claim = "cache is not full" -> service[s].kv < 85

ClaimsHold(claims, kinds) ==
    \A s \in Services : verdict[s].kind \in kinds =>
        \A claim \in verdict[s].says \cap claims : True(claim, s, verdict[s].card)

(***************************************************************************)
(* Properties.                                                             *)
(***************************************************************************)

TypeOK ==
    /\ card \in [Cards -> [clock : Clocks, full : BOOLEAN, xid : BOOLEAN]]
    /\ service \in [Services -> [p95 : {"within", "over", "far over"},
                                 rate : Rates, base : Baselines, kv : KvLevels]]
    /\ \A s \in Services :
          /\ signal[s].throttled \cup signal[s].erring \cup signal[s].full \subseteq signal[s].gpus
          /\ signal[s].gpus \subseteq Cards
          /\ verdict[s].kind \in Kinds \cup {"none"}
          /\ verdict[s].card \in Cards \cup {NoCard}
          /\ verdict[s].says \subseteq Claims
    /\ pc \in {"collect", "correlate", "done"}

\* A card is named only for a service of its own cluster that is bound to it, and
\* only for what it shows (qBindings, "the engine can blame a card that is
\* nowhere near the workload").
BlameIsLocal ==
    \A s \in Services : verdict[s].card # NoCard =>
        /\ verdict[s].card[1] = s[1]
        /\ verdict[s].card[2] \in Bindings[s]
        /\ \A claim \in verdict[s].says \cap {"card errs", "card throttles", "card is full"} :
              True(claim, s, verdict[s].card)

\* Of a named cause, everything the evidence says is true of the service: no card
\* is cleared that is sick, and no load called flat or risen that was not.
EvidenceIsTrue == ClaimsHold(Claims, Kinds \ {"unknown"})

\* Hardware that reports XIDs is named before anything else is (ruleXidError,
\* "outranks any latency explanation").
XidOutranks ==
    pc = "done" => \A s \in Services :
        service[s].p95 # "within" /\ (\E c \in BoundCards(s) : card[c].xid) =>
            verdict[s].kind = "xid_error"
=============================================================================
