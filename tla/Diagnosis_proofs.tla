-------------------------- MODULE Diagnosis_proofs --------------------------
(***************************************************************************)
(* Proofs about Diagnosis and CorrelateRules, for every fleet, every       *)
(* telemetry and every combination of failing queries, unless a theorem    *)
(* says which.                                                             *)
(***************************************************************************)
EXTENDS Diagnosis, TLAPS, FiniteSetTheorems

(***************************************************************************)
(* The first rule that matches.                                            *)
(***************************************************************************)
\* What a verdict of each rule says of the rules before it.
FromXid(g, v) == v \in XidError(g)
FromThermal(g, v) == XidError(g) = {} /\ v \in ThermalThrottle(g)
FromMemory(g, v) ==
    XidError(g) = {} /\ ThermalThrottle(g) = {} /\ v \in MemoryPressure(g)
FromCache(g, v) ==
    /\ XidError(g) = {} /\ ThermalThrottle(g) = {} /\ MemoryPressure(g) = {}
    /\ v \in KVSaturation(g)
FromSurge(g, v) ==
    /\ XidError(g) = {} /\ ThermalThrottle(g) = {} /\ MemoryPressure(g) = {}
    /\ KVSaturation(g) = {} /\ v \in TrafficSurge(g)
FromNone(g, v) ==
    /\ XidError(g) = {} /\ ThermalThrottle(g) = {} /\ MemoryPressure(g) = {}
    /\ KVSaturation(g) = {} /\ TrafficSurge(g) = {} /\ v = Unknown(g)

LEMMA FirstOf ==
    ASSUME NEW m, m \subseteq 1 .. 5, NEW k \in m, \A j \in m : k <= j
    PROVE  Min(m) = k
  <1>1. \A x \in m : (\A y \in m : x <= y) => x = k
    OBVIOUS
  <1>. QED BY <1>1 DEF Min

LEMMA SomeFirst ==
    ASSUME NEW m, m \subseteq 1 .. 5, m # {}
    PROVE  \E k \in m : k \in 1 .. 5 /\ Min(m) = k /\ \A j \in 1 .. 5 : j < k => j \notin m
  <1>1. \/ 1 \in m
        \/ 2 \in m /\ 1 \notin m
        \/ 3 \in m /\ 1 \notin m /\ 2 \notin m
        \/ 4 \in m /\ 1 \notin m /\ 2 \notin m /\ 3 \notin m
        \/ 5 \in m /\ 1 \notin m /\ 2 \notin m /\ 3 \notin m /\ 4 \notin m
    <2>1. PICK x \in m : TRUE
      OBVIOUS
    <2>2. x = 1 \/ x = 2 \/ x = 3 \/ x = 4 \/ x = 5
      BY <2>1
    <2>. QED BY <2>1, <2>2
  <1>2. PICK k \in m : \A j \in m : k <= j
    BY <1>1
  <1>3. Min(m) = k
    BY <1>2, FirstOf
  <1>. QED BY <1>2, <1>3

LEMMA FirstRule ==
    ASSUME NEW g, NEW v \in Correlate(g)
    PROVE  \/ g.p95 = "within" /\ v = Quiet
           \/ /\ g.p95 # "within"
              /\ \/ FromXid(g, v) \/ FromThermal(g, v) \/ FromMemory(g, v)
                 \/ FromCache(g, v) \/ FromSurge(g, v) \/ FromNone(g, v)
  <1> DEFINE m == {k \in 1 .. 5 : Rules(g)[k] # {}}
  <1>1. /\ Rules(g)[1] = XidError(g) /\ Rules(g)[2] = ThermalThrottle(g)
        /\ Rules(g)[3] = MemoryPressure(g) /\ Rules(g)[4] = KVSaturation(g)
        /\ Rules(g)[5] = TrafficSurge(g)
    BY DEF Rules
  <1>2. m \subseteq 1 .. 5 /\ \A k \in 1 .. 5 : k \notin m <=> Rules(g)[k] = {}
    OBVIOUS
  <1>3. CASE g.p95 = "within"
    BY <1>3 DEF Correlate
  <1>4. CASE g.p95 # "within" /\ m = {}
    <2>1. v = Unknown(g)
      BY <1>4 DEF Correlate
    <2>. HIDE DEF m
    <2>2. \A k \in 1 .. 5 : Rules(g)[k] = {}
      BY <1>2, <1>4
    <2>. QED BY <1>1, <1>4, <2>1, <2>2 DEF FromNone
  <1>5. CASE g.p95 # "within" /\ m # {}
    <2>1. v \in Rules(g)[Min(m)]
      BY <1>5 DEF Correlate
    <2>. HIDE DEF m
    <2>2. PICK k \in m : k \in 1 .. 5 /\ Min(m) = k /\ \A j \in 1 .. 5 : j < k => j \notin m
      BY <1>2, <1>5, SomeFirst
    <2>3. k \in 1 .. 5 /\ v \in Rules(g)[k] /\ \A j \in 1 .. 5 : j < k => Rules(g)[j] = {}
      BY <1>2, <2>1, <2>2
    <2>4. k = 1 \/ k = 2 \/ k = 3 \/ k = 4 \/ k = 5
      BY <2>3
    <2>. QED BY <1>1, <1>5, <2>3, <2>4 DEF FromXid, FromThermal, FromMemory, FromCache, FromSurge
  <1>. QED BY <1>3, <1>4, <1>5

\* What each rule says, and of which card.
LEMMA XidSays ==
    ASSUME NEW g, NEW v \in XidError(g)
    PROVE  v.kind = "xid_error" /\ v.card \in g.erring /\ v.says = {"card errs"}
  <1>1. PICK c \in g.erring : v = [kind |-> "xid_error", severity |-> "critical", card |-> c,
                                   says |-> {"card errs"}]
    BY Zenon DEF XidError
  <1>. QED BY <1>1

LEMMA ThermalSays ==
    ASSUME NEW g, NEW v \in ThermalThrottle(g)
    PROVE  /\ v.kind = "gpu_thermal_throttle" /\ v.card \in g.throttled
           /\ HasBaseline(g) => Within(g, 20)
           /\ v.says \subseteq {"card throttles", "load is flat", "load unknown", "sibling is fine"}
           /\ "load is flat" \in v.says => HasBaseline(g)
           /\ "sibling is fine" \in v.says => g.gpus # g.throttled
  <1>1. PICK c \in Suspects(g) :
            v = [kind |-> "gpu_thermal_throttle",
                 severity |-> IF g.p95 = "far over" THEN "critical" ELSE "warning",
                 card |-> c,
                 says |-> {"card throttles", IF HasBaseline(g) THEN "load is flat" ELSE "load unknown"}
                          \cup (IF g.gpus # g.throttled THEN {"sibling is fine"} ELSE {})]
    BY Zenon DEF ThermalThrottle
  <1>2. c \in g.throttled /\ (HasBaseline(g) => Within(g, 20))
    BY DEF Suspects
  <1>3. /\ v.kind = "gpu_thermal_throttle" /\ v.card = c
        /\ v.says = {"card throttles", IF HasBaseline(g) THEN "load is flat" ELSE "load unknown"}
                    \cup (IF g.gpus # g.throttled THEN {"sibling is fine"} ELSE {})
    BY <1>1
  <1>. QED BY <1>2, <1>3

LEMMA MemorySays ==
    ASSUME NEW g, NEW v \in MemoryPressure(g)
    PROVE  v.kind = "gpu_memory_pressure" /\ v.card \in g.full /\ v.says = {"card is full"}
  <1>1. PICK c \in g.full \ g.throttled :
            v = [kind |-> "gpu_memory_pressure", severity |-> "warning", card |-> c,
                 says |-> {"card is full"}]
    BY Zenon DEF MemoryPressure
  <1>. QED BY <1>1

LEMMA CacheSays ==
    ASSUME NEW g, NEW v \in KVSaturation(g)
    PROVE  /\ v.kind = "kv_cache_saturation" /\ v.card = NoCard
           /\ g.throttled = {} /\ ~(g.kv < 85)
           /\ v.says \subseteq {"cache is full", "no card throttles", "load is flat"}
           /\ "load is flat" \in v.says => HasBaseline(g) /\ ~RoseBy(g, 20) /\ ~FellBy(g, 20)
  <1>1. /\ ~(g.kv < 85 \/ g.throttled # {})
        /\ v = [kind |-> "kv_cache_saturation", severity |-> "warning", card |-> NoCard,
                says |-> {"cache is full", "no card throttles"}
                         \cup (IF HasBaseline(g) /\ ~RoseBy(g, 20) /\ ~FellBy(g, 20)
                               THEN {"load is flat"} ELSE {})]
    BY Zenon DEF KVSaturation
  <1>2. /\ v.kind = "kv_cache_saturation" /\ v.card = NoCard
        /\ v.says = {"cache is full", "no card throttles"}
                    \cup (IF HasBaseline(g) /\ ~RoseBy(g, 20) /\ ~FellBy(g, 20)
                          THEN {"load is flat"} ELSE {})
    BY <1>1
  <1>. QED BY <1>1, <1>2

LEMMA SurgeSays ==
    ASSUME NEW g, NEW v \in TrafficSurge(g)
    PROVE  /\ v.kind = "traffic_surge" /\ v.card = NoCard
           /\ g.throttled = {} /\ HasBaseline(g) /\ RoseBy(g, 35)
           /\ v.says = {"load rose", "no card throttles", "hardware is healthy"}
  <1>1. /\ ~(~HasBaseline(g) \/ g.throttled # {} \/ ~RoseBy(g, 35))
        /\ v = [kind |-> "traffic_surge", severity |-> "warning", card |-> NoCard,
                says |-> {"load rose", "no card throttles", "hardware is healthy"}]
    BY Zenon DEF TrafficSurge
  <1>2. /\ v.kind = "traffic_surge" /\ v.card = NoCard
        /\ v.says = {"load rose", "no card throttles", "hardware is healthy"}
    BY <1>1
  <1>. QED BY <1>1, <1>2

LEMMA UnknownSays ==
    ASSUME NEW g
    PROVE  /\ Unknown(g).kind = "unknown" /\ Unknown(g).card = NoCard
           /\ Unknown(g).says \subseteq {"no card throttles", "no card errs", "cache is not full",
                                         "not a load change", "load unknown"}
  BY DEF Unknown

LEMMA QuietSays == Quiet.kind = "none" /\ Quiet.card = NoCard /\ Quiet.says = {}
  BY DEF Quiet

\* Unless the service is within its SLO, XIDs decide.
LEMMA XidFirst ==
    ASSUME NEW g, NEW v \in Correlate(g), g.p95 # "within", XidError(g) # {}
    PROVE  v.kind = "xid_error"
  <1>1. v \in XidError(g)
    BY FirstRule DEF FromXid, FromThermal, FromMemory, FromCache, FromSurge, FromNone
  <1>. QED BY <1>1, XidSays

(***************************************************************************)
(* The inductive invariant.                                                *)
(***************************************************************************)
CardTypes == card \in [Cards -> [clock : Clocks, full : BOOLEAN, xid : BOOLEAN]]
ServiceTypes == service \in [Services -> [p95 : {"within", "over", "far over"},
                                          rate : Rates, base : Baselines, kv : KvLevels]]

\* What a bundle says is what the telemetry says; only a query that failed or a
\* model that is served elsewhere too can make it say less or otherwise.
Faithful(s) ==
    /\ signal[s].gpus = BoundCards(s)
    /\ signal[s].throttled = {c \in BoundCards(s) : Throttled(c)}
    /\ signal[s].full = {c \in BoundCards(s) : card[c].full}
    /\ signal[s].erring \subseteq {c \in BoundCards(s) : card[c].xid}
    /\ "xid" \notin MayFail => signal[s].erring = {c \in BoundCards(s) : card[c].xid}
    /\ signal[s].p95 = service[s].p95 /\ signal[s].rate = service[s].rate
    /\ signal[s].base \in {0} \cup BaseRows(s[2])
    /\ SameModel(s) = {s} => signal[s].kv \in {0, service[s].kv}

Inv ==
    /\ CardTypes /\ ServiceTypes
    /\ pc \in {"collect", "correlate", "done"}
    /\ pc = "collect" => signal = [s \in Services |-> NoSignal]
    /\ pc # "collect" => \A s \in Services : Faithful(s)
    /\ pc # "done" => verdict = [s \in Services |-> Quiet]
    /\ pc = "done" => \A s \in Services : verdict[s] \in Correlate(signal[s])

LEMMA InitInv == Init => Inv
  BY DEF Init, Inv, CardTypes, ServiceTypes

LEMMA BundleFields ==
    ASSUME NEW s, NEW lost, NEW baseBy
    PROVE  /\ Bundle(s, lost, baseBy).gpus = BoundCards(s)
           /\ Bundle(s, lost, baseBy).throttled = {c \in BoundCards(s) : Throttled(c)}
           /\ Bundle(s, lost, baseBy).erring = Erring(s, lost)
           /\ Bundle(s, lost, baseBy).full = {c \in BoundCards(s) : card[c].full}
           /\ Bundle(s, lost, baseBy).p95 = service[s].p95
           /\ Bundle(s, lost, baseBy).rate = service[s].rate
           /\ Bundle(s, lost, baseBy).base = baseBy[s[2]]
           /\ Bundle(s, lost, baseBy).kv = KvReading(s, lost)
  BY DEF Bundle

\* The telemetry, and what is read of it, does not change.
LEMMA TelemetryStays ==
    ASSUME UNCHANGED <<card, service>>
    PROVE  /\ \A c \in Cards : Throttled(c)' <=> Throttled(c)
           /\ \A m \in Models : BaseRows(m)' = BaseRows(m)
  <1>1. \A c \in Cards : Throttled(c)' <=> Throttled(c)
    BY DEF Throttled, PeakClock
  <1>2. \A m \in Models : BaseRows(m)' = BaseRows(m)
    BY DEF BaseRows
  <1>. QED BY <1>1, <1>2

\* The mean over the one service of a model is its own reading.
LEMMA KvOfOne ==
    ASSUME NEW s \in Services, NEW lost, SameModel(s) = {s}, service[s].kv \in Nat
    PROVE  KvReading(s, lost) \in {0, service[s].kv}
  <1> DEFINE one == SameModel(s)
             F(g) == [t \in SUBSET one |->
                         IF t = {} THEN 0
                         ELSE service[CHOOSE x \in t : TRUE].kv + g[t \ {CHOOSE x \in t : TRUE}]]
             h == [t \in SUBSET one |-> IF t = {} THEN 0 ELSE service[s].kv]
  <1>1. (CHOOSE x \in {s} : TRUE) = s /\ {s} \ {s} = {} /\ {} \in SUBSET one /\ {s} \in SUBSET one
    OBVIOUS
  <1>2. h = F(h)
    <2>1. \A t \in SUBSET one : t = {} \/ t = {s}
      OBVIOUS
    <2>. QED BY <1>1, <2>1, service[s].kv + 0 = service[s].kv
  <1>3. ASSUME NEW g, g = F(g) PROVE g[one] = service[s].kv
    <2>1. g[{}] = F(g)[{}] /\ g[{s}] = F(g)[{s}]
      BY <1>3
    <2>2. /\ g[{}] = 0
          /\ g[{s}] = service[CHOOSE x \in {s} : TRUE].kv + g[{s} \ {CHOOSE x \in {s} : TRUE}]
      BY <1>1, <2>1
    <2>. QED BY <1>1, <2>2
  <1>4. Cardinality(one) = 1 /\ service[s].kv \div 1 = service[s].kv
    <2>1. Cardinality({s}) = 1
      BY FS_Singleton
    <2>2. \A n \in Nat : n \div 1 = n
      OBVIOUS
    <2>. QED BY <2>1, <2>2
  <1>. QED BY <1>2, <1>3, <1>4 DEF KvReading, FoldSet, MapThenFoldSet

LEMMA FaithfulStays ==
    ASSUME UNCHANGED <<card, service, signal>>, NEW s \in Services, Faithful(s)
    PROVE  Faithful(s)'
  <1>1. BoundCards(s)' = BoundCards(s) /\ BaseRows(s[2])' = BaseRows(s[2]) /\ SameModel(s)' = SameModel(s)
    BY DEF BoundCards, BaseRows, SameModel
  <1>2. \A c \in BoundCards(s) : Throttled(c)' <=> Throttled(c)
    BY TelemetryStays DEF BoundCards
  <1>. QED BY <1>1, <1>2 DEF Faithful

LEMMA CollectInv == ASSUME Inv, CollectSignals PROVE Inv'
  <1>1. /\ pc = "collect" /\ pc' = "correlate" /\ UNCHANGED <<card, service, verdict>>
    BY DEF CollectSignals
  <1>2. PICK lost \in SUBSET MayFail :
          \E baseBy \in [Models -> UNION {BaseReadings(m, lost) : m \in Models}] :
             /\ \A m \in Models : baseBy[m] \in BaseReadings(m, lost)
             /\ signal' = [s \in Services |-> Bundle(s, lost, baseBy)]
    BY DEF CollectSignals
  <1>3. PICK baseBy : /\ \A m \in Models : baseBy[m] \in BaseReadings(m, lost)
                      /\ signal' = [s \in Services |-> Bundle(s, lost, baseBy)]
    BY <1>2
  <1>4. ASSUME NEW s \in Services PROVE Faithful(s)'
    <2> DEFINE b == signal'[s]
    <2>1. /\ b.gpus = BoundCards(s) /\ b.throttled = {c \in BoundCards(s) : Throttled(c)}
          /\ b.erring = Erring(s, lost) /\ b.full = {c \in BoundCards(s) : card[c].full}
          /\ b.p95 = service[s].p95 /\ b.rate = service[s].rate
          /\ b.base = baseBy[s[2]] /\ b.kv = KvReading(s, lost)
      BY <1>3, BundleFields
    <2>2. b.erring \subseteq {c \in BoundCards(s) : card[c].xid}
      BY <2>1 DEF Erring
    <2>3. "xid" \notin MayFail => b.erring = {c \in BoundCards(s) : card[c].xid}
      BY <1>2, <2>1 DEF Erring
    <2>4. b.base \in {0} \cup BaseRows(s[2])
      <3>1. s[2] \in Models
        BY DEF Models
      <3>. QED BY <1>3, <2>1, <3>1 DEF BaseReadings
    <2>5. SameModel(s) = {s} => b.kv \in {0, service[s].kv}
      <3>1. service[s].kv \in Nat
        BY RateAssumption DEF Inv, ServiceTypes
      <3>. QED BY <2>1, <3>1, KvOfOne
    <2>. HIDE DEF b
    <2>6. BoundCards(s)' = BoundCards(s) /\ BaseRows(s[2])' = BaseRows(s[2]) /\ SameModel(s)' = SameModel(s)
      BY <1>1 DEF BoundCards, BaseRows, SameModel
    <2>7. \A c \in BoundCards(s) : Throttled(c)' <=> Throttled(c)
      BY <1>1, TelemetryStays DEF BoundCards
    <2>8. b = signal'[s] /\ card' = card /\ service' = service
      BY <1>1 DEF b
    <2>. QED BY <2>1, <2>2, <2>3, <2>4, <2>5, <2>6, <2>7, <2>8 DEF Faithful
  <1>. QED BY <1>1, <1>4 DEF Inv, CardTypes, ServiceTypes

LEMMA DiagnoseInv == ASSUME Inv, Diagnose PROVE Inv'
  <1>1. /\ pc = "correlate" /\ pc' = "done" /\ UNCHANGED <<card, service, signal>>
        /\ \A s \in Services : verdict'[s] \in Correlate(signal[s])
    BY DEF Diagnose
  <1>2. \A s \in Services : Faithful(s)'
    BY <1>1, FaithfulStays DEF Inv
  <1>. QED BY <1>1, <1>2 DEF Inv, CardTypes, ServiceTypes

LEMMA NextInv == Inv /\ [Next]_vars => Inv'
  <1>. SUFFICES ASSUME Inv, [Next]_vars PROVE Inv'
    OBVIOUS
  <1>1. CASE UNCHANGED vars
    <2>1. pc # "collect" => \A s \in Services : Faithful(s)'
      BY <1>1, FaithfulStays DEF Inv, vars
    <2>. QED BY <1>1, <2>1 DEF Inv, vars, CardTypes, ServiceTypes
  <1>. QED BY <1>1, CollectInv, DiagnoseInv DEF Next

LEMMA InvAlways == Spec => []Inv
  BY InitInv, NextInv, PTL DEF Spec

(***************************************************************************)
(* Verdicts and the telemetry behind them.                                 *)
(***************************************************************************)
\* The rule a verdict comes from; nothing is said before the end.
LEMMA VerdictFrom ==
    ASSUME Inv, NEW s \in Services
    PROVE  \/ verdict[s] = Quiet
           \/ /\ pc = "done" /\ signal[s].p95 # "within" /\ Faithful(s)
              /\ \/ FromXid(signal[s], verdict[s]) \/ FromThermal(signal[s], verdict[s])
                 \/ FromMemory(signal[s], verdict[s]) \/ FromCache(signal[s], verdict[s])
                 \/ FromSurge(signal[s], verdict[s]) \/ FromNone(signal[s], verdict[s])
  <1>1. CASE pc # "done"
    BY <1>1 DEF Inv
  <1>2. CASE pc = "done"
    <2>1. verdict[s] \in Correlate(signal[s]) /\ Faithful(s)
      BY <1>2 DEF Inv
    <2>. QED BY <1>2, <2>1, FirstRule
  <1>. QED BY <1>1, <1>2

\* What is claimed by a named cause, and on which grounds.
LEMMA Grounds ==
    ASSUME NEW g, NEW v, NEW claim \in v.says,
           \/ FromXid(g, v) \/ FromThermal(g, v) \/ FromMemory(g, v)
           \/ FromCache(g, v) \/ FromSurge(g, v)
    PROVE  \/ claim = "card errs" /\ v.card \in g.erring
           \/ claim = "card throttles" /\ v.card \in g.throttled
           \/ claim = "card is full" /\ v.card \in g.full
           \/ claim = "sibling is fine" /\ g.gpus # g.throttled
           \/ claim = "no card throttles" /\ g.throttled = {}
           \/ /\ claim = "load is flat" /\ HasBaseline(g)
              /\ Within(g, 20) \/ (~RoseBy(g, 20) /\ ~FellBy(g, 20))
           \/ claim = "load rose" /\ HasBaseline(g) /\ RoseBy(g, 35)
           \/ claim = "load unknown"
           \/ claim = "cache is full" /\ ~(g.kv < 85)
           \/ claim = "hardware is healthy" /\ g.erring = {} /\ g.throttled = {} /\ g.full = {}
  <1>1. CASE FromXid(g, v)
    BY <1>1, XidSays DEF FromXid
  <1>2. CASE FromThermal(g, v)
    BY <1>2, ThermalSays DEF FromThermal
  <1>3. CASE FromMemory(g, v)
    BY <1>3, MemorySays DEF FromMemory
  <1>4. CASE FromCache(g, v)
    BY <1>4, CacheSays DEF FromCache
  <1>5. CASE FromSurge(g, v)
    <2>1. g.erring = {}
      BY <1>5 DEF FromSurge, XidError
    <2>2. g.throttled = {} /\ HasBaseline(g) /\ RoseBy(g, 35)
          /\ v.says = {"load rose", "no card throttles", "hardware is healthy"}
      BY <1>5, SurgeSays DEF FromSurge
    <2>3. g.full \ g.throttled = {}
      BY <1>5 DEF FromSurge, MemoryPressure
    <2>. QED BY <2>1, <2>2, <2>3
  <1>. QED BY <1>1, <1>2, <1>3, <1>4, <1>5

\* The kinds of verdicts, and whether they name a card.
LEMMA KindOf ==
    ASSUME Inv, NEW s \in Services
    PROVE  /\ verdict[s].kind \in Kinds \cup {"none"}
           /\ verdict[s].card # NoCard => verdict[s].card \in BoundCards(s) /\ verdict[s].kind # "unknown"
  <1> DEFINE g == signal[s]
             v == verdict[s]
  <1>1. CASE v = Quiet
    <2>1. v.kind = "none" /\ v.card = NoCard
      BY <1>1, QuietSays
    <2>. QED BY <2>1
  <1>2. CASE Faithful(s) /\ FromXid(g, v)
    BY <1>2, XidSays DEF FromXid, Faithful, Kinds
  <1>3. CASE Faithful(s) /\ FromThermal(g, v)
    <2>1. v.kind = "gpu_thermal_throttle" /\ v.card \in g.throttled
      BY <1>3, ThermalSays DEF FromThermal
    <2>2. v.card \in BoundCards(s)
      BY <1>3, <2>1 DEF Faithful
    <2>. QED BY <2>1, <2>2 DEF Kinds
  <1>4. CASE Faithful(s) /\ FromMemory(g, v)
    BY <1>4, MemorySays DEF FromMemory, Faithful, Kinds
  <1>5. CASE FromCache(g, v)
    <2>1. v.kind = "kv_cache_saturation" /\ v.card = NoCard
      BY <1>5, CacheSays DEF FromCache
    <2>. QED BY <2>1 DEF Kinds
  <1>6. CASE FromSurge(g, v)
    BY <1>6, SurgeSays DEF FromSurge, Kinds
  <1>7. CASE FromNone(g, v)
    BY <1>7, UnknownSays DEF FromNone, Kinds
  <1>. QED BY <1>1, <1>2, <1>3, <1>4, <1>5, <1>6, <1>7, VerdictFrom

LEMMA ClaimSets ==
    /\ {"card errs"} \subseteq Claims /\ {"card is full"} \subseteq Claims
    /\ {"load rose", "no card throttles", "hardware is healthy"} \subseteq Claims
    /\ {"card throttles", "load is flat", "load unknown", "sibling is fine"} \subseteq Claims
    /\ {"cache is full", "no card throttles", "load is flat"} \subseteq Claims
    /\ {"no card throttles", "no card errs", "cache is not full",
        "not a load change", "load unknown"} \subseteq Claims
  BY DEF Claims

LEMMA SaysClaims ==
    ASSUME Inv, NEW s \in Services
    PROVE  verdict[s].says \subseteq Claims
  <1> DEFINE g == signal[s]
             v == verdict[s]
  <1>1. CASE v = Quiet
    <2>1. v.says = {}
      BY <1>1, QuietSays
    <2>. QED BY <2>1
  <1>2. CASE FromXid(g, v)
    <2>1. v.says = {"card errs"}
      BY <1>2, XidSays DEF FromXid
    <2>. QED BY <2>1, ClaimSets, Zenon
  <1>3. CASE FromThermal(g, v)
    <2>1. v.says \subseteq {"card throttles", "load is flat", "load unknown", "sibling is fine"}
      BY <1>3, ThermalSays DEF FromThermal
    <2>. QED BY <2>1, ClaimSets, Zenon
  <1>4. CASE FromMemory(g, v)
    <2>1. v.says = {"card is full"}
      BY <1>4, MemorySays DEF FromMemory
    <2>. QED BY <2>1, ClaimSets, Zenon
  <1>5. CASE FromCache(g, v)
    <2>1. v.says \subseteq {"cache is full", "no card throttles", "load is flat"}
      BY <1>5, CacheSays DEF FromCache
    <2>. QED BY <2>1, ClaimSets, Zenon
  <1>6. CASE FromSurge(g, v)
    <2>1. v.says = {"load rose", "no card throttles", "hardware is healthy"}
      BY <1>6, SurgeSays DEF FromSurge
    <2>. QED BY <2>1, ClaimSets, Zenon
  <1>7. CASE FromNone(g, v)
    <2>1. v.says \subseteq {"no card throttles", "no card errs", "cache is not full",
                           "not a load change", "load unknown"}
      BY <1>7, UnknownSays DEF FromNone
    <2>. QED BY <2>1, ClaimSets, Zenon
  <1>. QED BY <1>1, <1>2, <1>3, <1>4, <1>5, <1>6, <1>7, VerdictFrom

\* A claim of a named cause has its grounds in the bundle.
LEMMA NamedCause ==
    ASSUME Inv, NEW s \in Services, verdict[s].kind # "unknown", NEW claim \in verdict[s].says
    PROVE  /\ Faithful(s)
           /\ \/ FromXid(signal[s], verdict[s]) \/ FromThermal(signal[s], verdict[s])
              \/ FromMemory(signal[s], verdict[s]) \/ FromCache(signal[s], verdict[s])
              \/ FromSurge(signal[s], verdict[s])
  <1>1. verdict[s] # Quiet
    BY QuietSays
  <1>2. ~FromNone(signal[s], verdict[s])
    BY UnknownSays DEF FromNone
  <1>. QED BY <1>1, <1>2, VerdictFrom

\* What each claim of a named cause means.
LEMMA Meaning ==
    ASSUME NEW s, NEW c
    PROVE  /\ True("card errs", s, c) = card[c].xid
           /\ True("card throttles", s, c) = Throttled(c)
           /\ True("card is full", s, c) = card[c].full
           /\ True("sibling is fine", s, c) = (\E d \in BoundCards(s) : ~Throttled(d))
           /\ True("load is flat", s, c) =
                  (OwnLoad(s) # {} /\ \A l \in OwnLoad(s) : Within(l, 20))
           /\ True("load rose", s, c) =
                  (OwnLoad(s) # {} /\ \A l \in OwnLoad(s) : RoseBy(l, 35))
           /\ True("load unknown", s, c) = TRUE
           /\ True("no card throttles", s, c) = (\A d \in BoundCards(s) : ~Throttled(d))
           /\ True("hardware is healthy", s, c) =
                  (\A d \in BoundCards(s) : ~Throttled(d) /\ ~card[d].xid /\ ~card[d].full)
           /\ True("cache is full", s, c) = (service[s].kv >= 85)
  BY DEF True

\* The cards a service has are seen as they are, whatever else fails.
CardClaims == {"card errs", "card throttles", "card is full", "sibling is fine", "no card throttles"}

LEMMA CardClaimsHold ==
    ASSUME Inv, NEW s \in Services, verdict[s].kind # "unknown",
           NEW claim \in verdict[s].says, claim \in CardClaims
    PROVE  True(claim, s, verdict[s].card)
  <1> DEFINE g == signal[s]
             v == verdict[s]
  <1>1. \/ claim = "card errs" /\ v.card \in g.erring
        \/ claim = "card throttles" /\ v.card \in g.throttled
        \/ claim = "card is full" /\ v.card \in g.full
        \/ claim = "sibling is fine" /\ g.gpus # g.throttled
        \/ claim = "no card throttles" /\ g.throttled = {}
    BY NamedCause, Grounds DEF CardClaims
  <1>2. /\ g.gpus = BoundCards(s) /\ g.throttled = {c \in BoundCards(s) : Throttled(c)}
        /\ g.full = {c \in BoundCards(s) : card[c].full}
        /\ g.erring \subseteq {c \in BoundCards(s) : card[c].xid}
    BY NamedCause DEF Faithful
  <1>3. CASE claim = "card errs" /\ v.card \in g.erring
    <2>1. card[v.card].xid
      BY <1>2, <1>3
    <2>. QED BY <1>3, <2>1, Meaning
  <1>4. CASE claim = "card throttles" /\ v.card \in g.throttled
    <2>1. Throttled(v.card)
      BY <1>2, <1>4
    <2>. QED BY <1>4, <2>1, Meaning
  <1>5. CASE claim = "card is full" /\ v.card \in g.full
    <2>1. card[v.card].full
      BY <1>2, <1>5
    <2>. QED BY <1>5, <2>1, Meaning
  <1>6. CASE claim = "sibling is fine" /\ g.gpus # g.throttled
    <2>1. \E d \in BoundCards(s) : ~Throttled(d)
      BY <1>2, <1>6
    <2>. QED BY <1>6, <2>1, Meaning
  <1>7. CASE claim = "no card throttles" /\ g.throttled = {}
    <2>1. \A d \in BoundCards(s) : ~Throttled(d)
      BY <1>2, <1>7
    <2>. QED BY <1>7, <2>1, Meaning
  <1>. QED BY <1>1, <1>3, <1>4, <1>5, <1>6, <1>7

(***************************************************************************)
(* The load: the baseline and the cache are read by the name of the model. *)
(***************************************************************************)
OneServicePerModel == \A r, s \in Services : r[2] = s[2] => r = s

LEMMA OwnReadings ==
    ASSUME OneServicePerModel, NEW s \in Services
    PROVE  SameModel(s) = {s} /\ BaseRows(s[2]) = service[s].base
  <1>1. {q \in Services : q[2] = s[2]} = {s}
    BY DEF OneServicePerModel
  <1>. QED BY <1>1 DEF SameModel, BaseRows

LEMMA OwnBaseline ==
    ASSUME Inv, OneServicePerModel, NEW s \in Services, Faithful(s), HasBaseline(signal[s])
    PROVE  /\ OwnLoad(s) # {}
           /\ signal[s].rate \in Nat /\ signal[s].base \in Nat
           /\ \A l \in OwnLoad(s) : l.rate = signal[s].rate /\ l.base = signal[s].base
  <1>1. signal[s].rate = service[s].rate /\ signal[s].base \in {0} \cup service[s].base
    BY OwnReadings DEF Faithful
  <1>2. service[s].base \in Baselines /\ service[s].rate \in Rates
    BY DEF Inv, ServiceTypes
  <1>3. service[s].rate \in Nat /\ service[s].base \subseteq Nat
    BY <1>2, RateAssumption
  <1>4. signal[s].base \in Nat
    BY <1>1, <1>3
  <1>5. signal[s].base # 0 /\ signal[s].base \in service[s].base
    BY <1>1, <1>4 DEF HasBaseline
  <1>6. \A b \in service[s].base : b = signal[s].base
    BY <1>2, <1>5, BaselineAssumption
  <1>7. OwnLoad(s) = {[rate |-> signal[s].rate, base |-> signal[s].base]}
    BY <1>1, <1>5, <1>6 DEF OwnLoad
  <1>. QED BY <1>1, <1>3, <1>4, <1>7

LEMMA BetweenIsWithin ==
    ASSUME NEW g, g.rate \in Nat, g.base \in Nat, ~RoseBy(g, 20), ~FellBy(g, 20)
    PROVE  Within(g, 20)
  BY DEF RoseBy, FellBy, Within

LEMMA LoadClaimsHold ==
    ASSUME Inv, OneServicePerModel, NEW s \in Services, verdict[s].kind # "unknown",
           NEW claim \in verdict[s].says, claim \in {"load is flat", "load rose"}
    PROVE  True(claim, s, verdict[s].card)
  <1> DEFINE g == signal[s]
  <1>1. /\ HasBaseline(g)
        /\ \/ claim = "load is flat" /\ (Within(g, 20) \/ (~RoseBy(g, 20) /\ ~FellBy(g, 20)))
           \/ claim = "load rose" /\ RoseBy(g, 35)
    BY NamedCause, Grounds
  <1>2. /\ OwnLoad(s) # {} /\ g.rate \in Nat /\ g.base \in Nat
        /\ \A l \in OwnLoad(s) : l.rate = g.rate /\ l.base = g.base
    BY <1>1, NamedCause, OwnBaseline
  <1>3. ~RoseBy(g, 20) /\ ~FellBy(g, 20) => Within(g, 20)
    BY <1>2, BetweenIsWithin
  <1>4. \A l \in OwnLoad(s) : (Within(l, 20) <=> Within(g, 20)) /\ (RoseBy(l, 35) <=> RoseBy(g, 35))
    BY <1>2 DEF Within, RoseBy
  <1>5. CASE claim = "load is flat"
    <2>1. \A l \in OwnLoad(s) : Within(l, 20)
      BY <1>1, <1>3, <1>4, <1>5
    <2>. QED BY <1>2, <1>5, <2>1, Meaning
  <1>6. CASE claim = "load rose"
    <2>1. \A l \in OwnLoad(s) : RoseBy(l, 35)
      BY <1>1, <1>4, <1>6
    <2>. QED BY <1>2, <1>6, <2>1, Meaning
  <1>. QED BY <1>5, <1>6

LEMMA FullReading ==
    ASSUME NEW own \in Nat, NEW kv \in {0, own}, ~(kv < 85)
    PROVE  own >= 85
  OBVIOUS

LEMMA CacheClaimHolds ==
    ASSUME Inv, OneServicePerModel, NEW s \in Services, verdict[s].kind # "unknown",
           "cache is full" \in verdict[s].says
    PROVE  True("cache is full", s, verdict[s].card)
  <1>1. Faithful(s) /\ (FromCache(signal[s], verdict[s]) => ~(signal[s].kv < 85))
    BY NamedCause, CacheSays DEF FromCache
  <1>0. FromCache(signal[s], verdict[s])
    <2>1. ASSUME FromXid(signal[s], verdict[s]) PROVE FALSE
      <3>1. verdict[s].says = {"card errs"}
        BY <2>1, XidSays DEF FromXid
      <3>. QED BY <3>1
    <2>2. ASSUME FromThermal(signal[s], verdict[s]) PROVE FALSE
      BY <2>2, ThermalSays DEF FromThermal
    <2>3. ASSUME FromMemory(signal[s], verdict[s]) PROVE FALSE
      <3>1. verdict[s].says = {"card is full"}
        BY <2>3, MemorySays DEF FromMemory
      <3>. QED BY <3>1
    <2>4. ASSUME FromSurge(signal[s], verdict[s]) PROVE FALSE
      <3>1. verdict[s].says = {"load rose", "no card throttles", "hardware is healthy"}
        BY <2>4, SurgeSays DEF FromSurge
      <3>. QED BY <3>1
    <2>. QED BY <2>1, <2>2, <2>3, <2>4, NamedCause
  <1>2. signal[s].kv \in {0, service[s].kv}
    BY <1>1, OwnReadings DEF Faithful
  <1>3. service[s].kv \in KvLevels
    BY DEF Inv, ServiceTypes
  <1>4. service[s].kv \in Nat
    BY <1>3, RateAssumption
  <1>5. service[s].kv >= 85
    BY <1>0, <1>1, <1>2, <1>4, FullReading
  <1>. QED BY <1>5, Meaning

LEMMA HealthClaimHolds ==
    ASSUME Inv, "xid" \notin MayFail, NEW s \in Services, verdict[s].kind # "unknown",
           "hardware is healthy" \in verdict[s].says
    PROVE  True("hardware is healthy", s, verdict[s].card)
  <1>1. /\ Faithful(s)
        /\ signal[s].erring = {} /\ signal[s].throttled = {} /\ signal[s].full = {}
    BY NamedCause, Grounds
  <1>2. \A d \in BoundCards(s) : ~Throttled(d) /\ ~card[d].xid /\ ~card[d].full
    BY <1>1 DEF Faithful
  <1>. QED BY <1>2, Meaning

\* Named causes claim nothing else.
LEMMA ClaimsMade ==
    ASSUME NEW g, NEW v, NEW claim \in v.says,
           \/ FromXid(g, v) \/ FromThermal(g, v) \/ FromMemory(g, v)
           \/ FromCache(g, v) \/ FromSurge(g, v)
    PROVE  \/ claim \in CardClaims \/ claim \in {"load is flat", "load rose"}
           \/ claim = "cache is full" \/ claim = "hardware is healthy" \/ claim = "load unknown"
  <1>1. CASE FromXid(g, v)
    BY <1>1, XidSays DEF FromXid, CardClaims
  <1>2. CASE FromThermal(g, v)
    <2>1. claim \in {"card throttles", "load is flat", "load unknown", "sibling is fine"}
      BY <1>2, ThermalSays DEF FromThermal
    <2>. QED BY <2>1 DEF CardClaims
  <1>3. CASE FromMemory(g, v)
    BY <1>3, MemorySays DEF FromMemory, CardClaims
  <1>4. CASE FromCache(g, v)
    <2>1. claim \in {"cache is full", "no card throttles", "load is flat"}
      BY <1>4, CacheSays DEF FromCache
    <2>. QED BY <2>1 DEF CardClaims
  <1>5. CASE FromSurge(g, v)
    BY <1>5, SurgeSays DEF FromSurge, CardClaims
  <1>. QED BY <1>1, <1>2, <1>3, <1>4, <1>5

(***************************************************************************)
(* Theorems.                                                               *)
(***************************************************************************)
\* Bundles and verdicts (signals.go, correlate.go) have their forms, whatever
\* the telemetry holds and whichever queries fail.
THEOREM TypeCorrect == Spec => []TypeOK
  <1>1. Inv => TypeOK
    <2>. SUFFICES ASSUME Inv PROVE TypeOK
      OBVIOUS
    <2>1. ASSUME NEW s \in Services
          PROVE  /\ signal[s].throttled \cup signal[s].erring \cup signal[s].full \subseteq signal[s].gpus
                 /\ signal[s].gpus \subseteq Cards
      <3>1. CASE pc = "collect"
        BY <3>1 DEF Inv, NoSignal
      <3>2. CASE pc # "collect"
        BY <3>2 DEF Inv, Faithful, BoundCards
      <3>. QED BY <3>1, <3>2
    <2>2. ASSUME NEW s \in Services PROVE verdict[s].card \in Cards \cup {NoCard}
      BY KindOf DEF BoundCards
    <2>3. ASSUME NEW s \in Services
          PROVE  verdict[s].kind \in Kinds \cup {"none"} /\ verdict[s].says \subseteq Claims
      BY KindOf, SaysClaims
    <2>. QED BY <2>1, <2>2, <2>3 DEF Inv, CardTypes, ServiceTypes, TypeOK
  <1>. QED BY <1>1, InvAlways, PTL

\* A card is blamed only by a service of its cluster that is bound to it, and
\* only for what it shows, in any fleet, cloned UUIDs included (qBindings).
THEOREM BlameStaysLocal == Spec => []BlameIsLocal
  <1>1. Inv => BlameIsLocal
    <2>. SUFFICES ASSUME Inv, NEW s \in Services, verdict[s].card # NoCard
                  PROVE  /\ verdict[s].card[1] = s[1]
                         /\ verdict[s].card[2] \in Bindings[s]
                         /\ \A claim \in verdict[s].says \cap {"card errs", "card throttles", "card is full"} :
                               True(claim, s, verdict[s].card)
      BY DEF BlameIsLocal
    <2>1. verdict[s].card \in BoundCards(s) /\ verdict[s].kind # "unknown"
      BY KindOf
    <2>2. verdict[s].card[1] = s[1] /\ verdict[s].card[2] \in Bindings[s]
      BY <2>1 DEF BoundCards
    <2>3. ASSUME NEW claim \in verdict[s].says,
                 claim \in {"card errs", "card throttles", "card is full"}
          PROVE  True(claim, s, verdict[s].card)
      <3>1. claim \in CardClaims
        BY <2>3 DEF CardClaims
      <3>. QED BY <2>1, <2>3, <3>1, CardClaimsHold
    <2>. QED BY <2>2, <2>3
  <1>. QED BY <1>1, InvAlways, PTL

\* What a named cause says of the cards of its service is true, in any fleet and
\* whichever of the queries whose errors are ignored fails (signals.go).
THEOREM CardEvidence == Spec => []ClaimsHold(CardClaims, Kinds \ {"unknown"})
  <1>1. Inv => ClaimsHold(CardClaims, Kinds \ {"unknown"})
    BY CardClaimsHold DEF ClaimsHold
  <1>. QED BY <1>1, InvAlways, PTL

\* Everything a named cause says is true, where every model is served by one
\* service, for baseline and gauges go by the model's name (signals.go:295),
\* and the XID query does not fail; baseline and gauges may.
THEOREM Evidence ==
    ASSUME OneServicePerModel, "xid" \notin MayFail
    PROVE  Spec => []EvidenceIsTrue
  <1>1. Inv => EvidenceIsTrue
    <2>. SUFFICES ASSUME Inv, NEW s \in Services, verdict[s].kind \in Kinds \ {"unknown"},
                         NEW claim \in verdict[s].says
                  PROVE  True(claim, s, verdict[s].card)
      BY DEF EvidenceIsTrue, ClaimsHold
    <2>1. \/ claim \in CardClaims \/ claim \in {"load is flat", "load rose"}
          \/ claim = "cache is full" \/ claim = "hardware is healthy" \/ claim = "load unknown"
      BY NamedCause, ClaimsMade
    <2>2. CASE claim \in CardClaims
      BY <2>2, CardClaimsHold
    <2>3. CASE claim \in {"load is flat", "load rose"}
      BY <2>3, LoadClaimsHold
    <2>4. CASE claim \in {"cache is full", "hardware is healthy", "load unknown"}
      BY <2>4, CacheClaimHolds, HealthClaimHolds, Meaning
    <2>. QED BY <2>1, <2>2, <2>3, <2>4
  <1>. QED BY <1>1, InvAlways, PTL

\* Unless the XID query fails, a slow service with a card that reports XIDs is
\* told so and nothing else (ruleXidError).
THEOREM XidIsNamed ==
    ASSUME "xid" \notin MayFail
    PROVE  Spec => []XidOutranks
  <1>1. Inv => XidOutranks
    <2>. SUFFICES ASSUME Inv, pc = "done", NEW s \in Services, service[s].p95 # "within",
                         NEW c \in BoundCards(s), card[c].xid
                  PROVE  verdict[s].kind = "xid_error"
      BY DEF XidOutranks
    <2>1. /\ verdict[s] \in Correlate(signal[s]) /\ signal[s].p95 # "within"
          /\ c \in signal[s].erring
      BY DEF Inv, Faithful
    <2>2. XidError(signal[s]) # {}
      BY <2>1 DEF XidError
    <2>. QED BY <2>1, <2>2, XidFirst
  <1>. QED BY <1>1, InvAlways, PTL
=============================================================================
