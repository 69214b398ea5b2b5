--------------------------- MODULE CorrelateRules ---------------------------
(***************************************************************************)
(* The rules of src/services/api/correlate.go, over one service's signals. *)
(* Where a rule takes the first of cards that come back in no particular   *)
(* order, any of them is taken: a rule is the set of verdicts it may       *)
(* reach, empty when it declines.                                          *)
(*                                                                         *)
(* A bundle g of signals holds the cards bound to the service (gpus, and   *)
(* those of them throttled, erring and full), p95 against the SLO, the     *)
(* request rate now (rate) and before (base, 0 when there is no baseline), *)
(* and the KV cache usage (kv).                                            *)
(***************************************************************************)
EXTENDS Naturals, FiniteSetsExt

NoCard == <<>>

Kinds == {"xid_error", "gpu_thermal_throttle", "gpu_memory_pressure",
          "kv_cache_saturation", "traffic_surge", "unknown"}

\* What a verdict tells its reader that the telemetry can bear out or not.
Claims == {"card errs", "card throttles", "card is full", "sibling is fine",
           "load is flat", "load rose", "not a load change", "load unknown",
           "no card throttles", "no card errs", "hardware is healthy",
           "cache is full", "cache is not full"}

Quiet == [kind |-> "none", severity |-> "none", card |-> NoCard, says |-> {}]

HasBaseline(g) == g.base > 0

\* The request rate against the baseline, in percent.
RoseBy(g, pct) == g.rate * 100 >= g.base * (100 + pct)
FellBy(g, pct) == g.rate * 100 <= g.base * (100 - pct)
Within(g, pct) == /\ g.rate * 100 <= g.base * (100 + pct)
                  /\ g.rate * 100 >= g.base * (100 - pct)

XidError(g) ==
    {[kind |-> "xid_error", severity |-> "critical", card |-> c,
      says |-> {"card errs"}] : c \in g.erring}

\* If a baseline shows that the load changed too, the rule declines.
Suspects(g) == IF HasBaseline(g) /\ ~Within(g, 20) THEN {} ELSE g.throttled

ThermalThrottle(g) ==
    {[kind |-> "gpu_thermal_throttle",
      severity |-> IF g.p95 = "far over" THEN "critical" ELSE "warning",
      card |-> c,
      says |-> {"card throttles", IF HasBaseline(g) THEN "load is flat" ELSE "load unknown"}
               \cup (IF g.gpus # g.throttled THEN {"sibling is fine"} ELSE {})]
        : c \in Suspects(g)}

MemoryPressure(g) ==
    {[kind |-> "gpu_memory_pressure", severity |-> "warning", card |-> c,
      says |-> {"card is full"}] : c \in g.full \ g.throttled}

KVSaturation(g) ==
    IF g.kv < 85 \/ g.throttled # {} THEN {}
    ELSE {[kind |-> "kv_cache_saturation", severity |-> "warning", card |-> NoCard,
           says |-> {"cache is full", "no card throttles"}
                    \cup (IF HasBaseline(g) /\ ~RoseBy(g, 20) /\ ~FellBy(g, 20)
                          THEN {"load is flat"} ELSE {})]}

TrafficSurge(g) ==
    IF ~HasBaseline(g) \/ g.throttled # {} \/ ~RoseBy(g, 35) THEN {}
    ELSE {[kind |-> "traffic_surge", severity |-> "warning", card |-> NoCard,
           says |-> {"load rose", "no card throttles", "hardware is healthy"}]}

Unknown(g) ==
    [kind |-> "unknown", severity |-> "warning", card |-> NoCard,
     says |-> {"no card throttles", "no card errs", "cache is not full",
               IF HasBaseline(g) THEN "not a load change" ELSE "load unknown"}]

\* Mutants: thermal before XID; surge before memory pressure.
RulesThermalFirst(g) == <<ThermalThrottle(g), XidError(g), MemoryPressure(g),
                          KVSaturation(g), TrafficSurge(g)>>
RulesSurgeEarly(g) == <<XidError(g), ThermalThrottle(g), TrafficSurge(g),
                        MemoryPressure(g), KVSaturation(g)>>

\* In priority order.
Rules(g) == <<XidError(g), ThermalThrottle(g), MemoryPressure(g),
              KVSaturation(g), TrafficSurge(g)>>

\* The first rule that matches wins; a service within its SLO gets no verdict.
Correlate(g) ==
    LET matching == {k \in 1 .. 5 : Rules(g)[k] # {}}
    IN  IF g.p95 = "within" THEN {Quiet}
        ELSE IF matching = {} THEN {Unknown(g)}
        ELSE Rules(g)[Min(matching)]
=============================================================================
