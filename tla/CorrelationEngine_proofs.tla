----------------------- MODULE CorrelationEngine_proofs -----------------------
(***************************************************************************)
(* What CorrelationEngine guarantees for every set of services, causes,    *)
(* people and faults, checked by the TLA+ proof system.                    *)
(***************************************************************************)
EXTENDS CorrelationEngine, TLAPS

(***************************************************************************)
(* The table keeps its types through each of its three operations.         *)
(***************************************************************************)

TableOK ==
    /\ store \in [Ids -> Row]
    /\ earlier \in [Ids -> SUBSET (Hands \X Hands)]
    /\ beaten \in [Ids -> SUBSET Hands]
    /\ late \in [Slots -> [Ids -> Row]]

\* A stamped write is ordered after the writes in flight, and nothing else.
LEMMA StampType ==
    ASSUME TableOK, NEW i \in Ids, NEW w \in Writers, Stamp(i, w)
    PROVE  TableOK'
<1>1. InFlight(i) \subseteq Hands
  BY DEF InFlight, Writers, Hands
<1>2. InFlight(i) \X {w} \subseteq Hands \X Hands
  BY <1>1 DEF Hands
<1>3. QED
  BY <1>2 DEF TableOK, Stamp

\* Rows that land are rows of the table.
LEMMA LandType ==
    ASSUME TableOK, NEW I \in SUBSET Ids, NEW w \in Hands,
           NEW row \in [Ids -> Row], Land(I, w, row), late' \in [Slots -> [Ids -> Row]]
    PROVE  TableOK'
BY DEF TableOK, Land, Without

\* A write that never lands leaves the visible rows alone.
LEMMA DropType ==
    ASSUME TableOK, NEW I \in SUBSET Ids, NEW w \in Writers, Drop(I, w)
    PROVE  TableOK'
BY DEF TableOK, Drop, Without

\* A write given up keeps its place in the order, under the name of its slot.
LEMMA AbandonType ==
    ASSUME TableOK, NEW I \in SUBSET Ids, NEW w \in Writers,
           NEW row \in [Ids -> Row], NEW k \in Slots, Abandon(I, w, row, k)
    PROVE  TableOK'
<1>1. \A x \in Hands : Passed(x, w, k) \in Hands
  BY DEF Passed, Hands
<1>2. beaten' \in [Ids -> SUBSET Hands]
  BY <1>1 DEF TableOK, Abandon
<1>3. ASSUME NEW i \in Ids
      PROVE  {<<Passed(p[1], w, k), Passed(p[2], w, k)>> : p \in earlier[i]}
                  \subseteq Hands \X Hands
  <2>1. earlier[i] \subseteq Hands \X Hands
    BY DEF TableOK
  <2>2. QED
    BY <1>1, <2>1
<1>4. earlier' \in [Ids -> SUBSET (Hands \X Hands)]
  BY <1>3 DEF TableOK, Abandon
<1>5. late' \in [Slots -> [Ids -> Row]]
  <2>1. NoRow \in Row
    BY DEF NoRow, Row
  <2>2. QED
    BY <2>1 DEF TableOK, Abandon
<1>6. QED
  BY <1>2, <1>4, <1>5 DEF TableOK, Abandon

(***************************************************************************)
(* Types.                                                                  *)
(***************************************************************************)

LEMMA InitType == Init => TypeOK
<1> SUFFICES ASSUME Init PROVE TypeOK
  OBVIOUS
<1>1. NoRow \in Row
  BY DEF NoRow, Row
<1>2. NotTold \in [severity : Severities \cup {"none"}, repeated : BOOLEAN]
  BY DEF NotTold
<1>3. 0 \in 0 .. MissesBeforeResolve
  BY MissesAssumption
<1>4. QED
  BY <1>1, <1>2, <1>3 DEF Init, TypeOK

LEMMA NextType == TypeOK /\ [Next]_vars => TypeOK'
<1> SUFFICES ASSUME TypeOK, [Next]_vars PROVE TypeOK'
  OBVIOUS
<1>t. TableOK
  BY DEF TypeOK, TableOK
<1>n. NoRow \in Row
  BY DEF NoRow, Row
<1>l. Live \in SUBSET Ids
  BY DEF Live
<1>e. "engine" \in Writers /\ Writers \subseteq Hands /\ Slots \subseteq Hands
  BY DEF Writers, Hands
<1>1. ASSUME TickBegin PROVE TypeOK'
  <2>1. existing' \in [Ids -> Row]
    BY <1>1, <1>n DEF TickBegin, TypeOK
  <2>2. pagedFor' \in [Services -> Severities \cup {"none"}]
    BY <1>1 DEF TickBegin, PagedForService, Severities
  <2>3. Live' = Live
    BY <1>1 DEF TickBegin, Live
  <2>4. held' \in SUBSET Ids
    BY <1>1 DEF TickBegin, Decided
  <2>5. QED
    BY <1>1, <2>1, <2>2, <2>3, <2>4 DEF TickBegin, TypeOK, tableVars
<1>2. ASSUME NEW s \in Services, Detect(s) PROVE TypeOK'
  <2> DEFINE i == <<s, signals[s].kind>>
  <2>1. /\ signals[s] # Healthy
        /\ signals[s] \in Verdicts
    BY <1>2 DEF Detect, TypeOK
  <2>2. signals[s] \in [kind : Kinds, severity : Severities]
    BY <2>1, VerdictAssumption
  <2>3. i \in Ids /\ signals[s].severity \in Severities
    BY <2>2 DEF Ids
  <2>4. TableOK'
    BY <1>2, <2>3, <1>t, <1>e, StampType DEF Detect
  <2>5. Remembered(existing[i]) \in Severities \cup {"none"}
    BY <2>3 DEF Remembered, TypeOK, Row
  <2>6. StatusForDetection(existing[i].status) \in Decisions \cup {"open"}
    BY DEF StatusForDetection
  <2>7. PICK delivered \in BOOLEAN :
            /\ found' = [found EXCEPT ![i] =
                    [status |-> StatusForDetection(existing[i].status),
                     notified |-> IF delivered THEN signals[s].severity
                                  ELSE Remembered(existing[i])]]
            /\ pagedFor' = IF delivered THEN [pagedFor EXCEPT ![s] = signals[s].severity]
                           ELSE pagedFor
            /\ told' = IF delivered THEN [told EXCEPT ![i] = Tell(i, signals[s].severity)]
                       ELSE told
    BY <1>2 DEF Detect
  <2>8. found' \in [Ids -> Row]
    BY <2>3, <2>5, <2>6, <2>7 DEF TypeOK, Row
  <2>9. pagedFor' \in [Services -> Severities \cup {"none"}]
    BY <2>3, <2>7 DEF TypeOK
  <2>10. told' \in [Ids -> [severity : Severities \cup {"none"}, repeated : BOOLEAN]]
    <3>1. told[i] \in [severity : Severities \cup {"none"}, repeated : BOOLEAN]
      BY <2>3 DEF TypeOK
    <3>2. Tell(i, signals[s].severity) \in [severity : Severities \cup {"none"}, repeated : BOOLEAN]
      BY <2>3, <3>1 DEF Tell, Heard
    <3>3. QED
      BY <2>7, <3>2 DEF TypeOK
  <2>11. pc = "detect"
    BY <1>2 DEF Detect
  <2>12. QED
    BY <1>2, <2>4, <2>8, <2>9, <2>10, <2>11 DEF Detect, TypeOK, TableOK
<1>3. ASSUME CountMisses PROVE TypeOK'
  <2>1. Live' = Live
    BY <1>3 DEF CountMisses, Live
  <2>2. \A n \in 0 .. MissesBeforeResolve : AtMost(n + 1) \in 0 .. MissesBeforeResolve
    BY MissesAssumption DEF AtMost
  <2>3. 0 \in 0 .. MissesBeforeResolve
    BY MissesAssumption
  <2>4. misses' \in [Ids -> 0 .. MissesBeforeResolve]
    BY <1>3, <2>2, <2>3 DEF CountMisses, ConsecutiveMisses, TypeOK
  <2>5. absent' \in [Ids -> 0 .. MissesBeforeResolve]
    BY <1>3, <2>2, <2>3 DEF CountMisses, TypeOK
  <2>6. toResolve' \in SUBSET (Ids \ Live)
    BY <1>3 DEF CountMisses
  <2>7. QED
    BY <1>3, <2>1, <2>4, <2>5, <2>6 DEF CountMisses, TypeOK, tableVars
<1>4. ASSUME TickEnd PROVE TypeOK'
  <2>1. TableOK'
    BY <1>4, <1>t, <1>l, <1>e, LandType, DropType, AbandonType DEF TickEnd, TypeOK
  <2>2. QED
    BY <1>4, <2>1, <1>n DEF TickEnd, TypeOK, TableOK, Live
<1>5. ASSUME NEW w \in Writers, NEW i \in Ids,
             NEW status \in Decisions \cup {"open", "resolved"},
             StatusRead(w, i, status)
      PROVE  rmw' \in [Writers -> {Idle} \cup [step : {"read", "stamped"}, id : Ids, row : Row]]
  <2>1. store[i] \in Row
    BY DEF TypeOK
  <2>2. [store[i] EXCEPT !.status = status] \in Row
    BY <2>1 DEF Row
  <2>3. [step |-> "read", id |-> i, row |-> [store[i] EXCEPT !.status = status]]
            \in [step : {"read", "stamped"}, id : Ids, row : Row]
    BY <2>2
  <2>4. QED
    BY <1>5, <2>3 DEF StatusRead, TypeOK
<1>6. ASSUME NEW i \in Ids, ResolveRead(i) PROVE TypeOK'
  BY <1>6, <1>5, <1>e DEF ResolveRead, StatusRead, TypeOK, tableVars, Live
<1>7. ASSUME NEW h \in Operators, NEW i \in Ids, DecisionRead(h, i) PROVE TypeOK'
  <2>1. PICK status \in Decisions \cup {"open"} : StatusRead(h, i, status)
    BY <1>7 DEF DecisionRead
  <2>2. rmw' \in [Writers -> {Idle} \cup [step : {"read", "stamped"}, id : Ids, row : Row]]
    BY <1>5, <2>1 DEF Writers
  <2>3. Live' = Live
    BY <2>1 DEF StatusRead, Live
  <2>4. QED
    BY <1>7, <2>1, <2>2, <2>3 DEF DecisionRead, StatusRead, TypeOK, tableVars
<1>8. ASSUME NEW w \in Writers, rmw[w].step # "idle"
      PROVE  rmw[w] \in [step : {"read", "stamped"}, id : Ids, row : Row]
  BY <1>8 DEF TypeOK, Idle
<1>9. ASSUME NEW w \in Writers, StatusStamp(w) PROVE TypeOK'
  <2>1. rmw[w] \in [step : {"read", "stamped"}, id : Ids, row : Row]
    BY <1>8, <1>9 DEF StatusStamp
  <2>2. TableOK'
    BY <1>9, <2>1, <1>t, StampType DEF StatusStamp
  <2>3. QED
    BY <1>9, <2>1, <2>2 DEF StatusStamp, TypeOK, TableOK, tickVars, historyVars, Live
<1>10. ASSUME NEW w \in Writers, StatusWrite(w) PROVE TypeOK'
  <2>1. rmw[w] \in [step : {"read", "stamped"}, id : Ids, row : Row]
    BY <1>8, <1>10 DEF StatusWrite
  <2>2. TableOK'
    <3>1. [j \in Ids |-> rmw[w].row] \in [Ids -> Row]
      BY <2>1
    <3>2. Land({rmw[w].id}, w, [j \in Ids |-> rmw[w].row]) /\ late' = late
      BY <1>10 DEF StatusWrite
    <3>3. QED
      BY <2>1, <3>1, <3>2, <1>t, <1>e, LandType DEF TableOK
  <2>3. told' \in [Ids -> [severity : Severities \cup {"none"}, repeated : BOOLEAN]]
    BY <1>10, <2>1 DEF StatusWrite, TypeOK, NotTold
  <2>4. misses' \in [Ids -> 0 .. MissesBeforeResolve]
    BY <1>10, <2>1, MissesAssumption DEF StatusWrite, TypeOK
  <2>5. held' \in SUBSET Ids
    BY <1>10 DEF StatusWrite, TypeOK
  <2>6. QED
    BY <1>10, <2>1, <2>2, <2>3, <2>4, <2>5 DEF StatusWrite, TypeOK, TableOK, Live
<1>11. ASSUME NEW w \in Writers, StatusFail(w) PROVE TypeOK'
  <2>1. rmw[w] \in [step : {"read", "stamped"}, id : Ids, row : Row]
    BY <1>8, <1>11 DEF StatusFail
  <2>2. TableOK'
    BY <1>11, <2>1, <1>t, DropType DEF StatusFail, TableOK, tableVars
  <2>3. QED
    BY <1>11, <2>1, <2>2 DEF StatusFail, TypeOK, TableOK, tickVars, historyVars, Live
<1>12. ASSUME Restart PROVE TypeOK'
  <2>1. 0 \in 0 .. MissesBeforeResolve
    BY MissesAssumption
  <2>2. earlier' \in [Ids -> SUBSET (Hands \X Hands)] /\ beaten' \in [Ids -> SUBSET Hands]
    BY <1>12 DEF Restart, TypeOK
  <2>3. QED
    BY <1>12, <1>n, <2>1, <2>2 DEF Restart, TypeOK
<1>16. ASSUME NEW w \in Writers, StatusAbandon(w) PROVE TypeOK'
  <2>1. rmw[w] \in [step : {"read", "stamped"}, id : Ids, row : Row]
    BY <1>8, <1>16 DEF StatusAbandon
  <2>2. PICK k \in Slots : Abandon({rmw[w].id}, w, [j \in Ids |-> rmw[w].row], k)
    BY <1>16 DEF StatusAbandon
  <2>3. [j \in Ids |-> rmw[w].row] \in [Ids -> Row]
    BY <2>1
  <2>4. TableOK'
    BY <2>1, <2>2, <2>3, <1>t, AbandonType
  <2>5. QED
    BY <1>16, <2>1, <2>4 DEF StatusAbandon, TypeOK, TableOK, tickVars, Live
<1>17. ASSUME NEW k \in Slots, LateLands(k) PROVE TypeOK'
  <2>1. late' \in [Slots -> [Ids -> Row]] /\ late[k] \in [Ids -> Row]
    BY <1>17, <1>n DEF LateLands, TypeOK
  <2>2. Pending(k) \in SUBSET Ids
    BY DEF Pending
  <2>3. TableOK'
    BY <1>17, <2>1, <2>2, <1>t, <1>e, LandType DEF LateLands
  <2>4. told' \in [Ids -> [severity : Severities \cup {"none"}, repeated : BOOLEAN]]
    BY <1>17 DEF LateLands, TypeOK, NotTold
  <2>5. QED
    BY <1>17, <2>3, <2>4 DEF LateLands, TypeOK, TableOK, tickVars, Live
<1>13. CASE UNCHANGED vars
  BY <1>13 DEF vars, tableVars, tickVars, historyVars, TypeOK, Live
<1>14. Operators \subseteq Writers
  BY DEF Writers
<1>15. QED
  BY <1>1, <1>2, <1>3, <1>4, <1>6, <1>7, <1>9, <1>10, <1>11, <1>12, <1>13, <1>14, <1>16, <1>17,
     <1>e DEF Next, EngineStep, OperatorStep

\* Every reachable state is well typed, whatever the sizes and the faults.
THEOREM TypeCorrect == Spec => []TypeOK
BY InitType, NextType, PTL DEF Spec

(***************************************************************************)
(* The phases of a tick: rows wait to be inserted only while it runs, and  *)
(* a call of setStatus by the engine is a resolution, made in the last     *)
(* phase, of a correlation this tick has not found.                        *)
(***************************************************************************)

Phases ==
    /\ pc = "idle" => Live = {}
    /\ \A i \in Live : found[i].status \in Decisions \cup {"open"}
    /\ rmw["engine"].step # "idle" =>
          /\ pc = "close"
          /\ rmw["engine"].id \in Ids \ Live
          /\ rmw["engine"].row.status = "resolved"

\* A person reading a correlation leaves the engine and the table alone.
LEMMA DecisionReadFrame ==
    ASSUME TypeOK, NEW h \in Operators, NEW i \in Ids, DecisionRead(h, i)
    PROVE  /\ rmw'["engine"] = rmw["engine"]
           /\ UNCHANGED <<tableVars, tickVars, historyVars>>
           /\ UNCHANGED <<store, pc, existing, found, toResolve, held>>
<1>1. PICK status \in Decisions \cup {"open"} : StatusRead(h, i, status)
  BY DEF DecisionRead
<1>2. rmw'["engine"] = rmw["engine"]
  BY <1>1, WriterAssumption DEF StatusRead, TypeOK, Writers
<1>3. QED
  BY <1>1, <1>2 DEF StatusRead, DecisionRead, tableVars, tickVars, historyVars

LEMMA PhasesStep == TypeOK /\ Phases /\ [Next]_vars => Phases'
<1> SUFFICES ASSUME TypeOK, Phases, [Next]_vars PROVE Phases'
  OBVIOUS
<1>e. "engine" \in Writers /\ Operators \subseteq Writers
  BY DEF Writers
<1>1. ASSUME TickBegin PROVE Phases'
  BY <1>1 DEF TickBegin, Phases, Live
<1>2. ASSUME NEW s \in Services, Detect(s) PROVE Phases'
  <2> DEFINE i == <<s, signals[s].kind>>
  <2>1. StatusForDetection(existing[i].status) \in Decisions \cup {"open"}
    BY DEF StatusForDetection
  <2>2. \A j \in Ids : found'[j] = found[j] \/ (j = i /\ found'[j].status \in Decisions \cup {"open"})
    BY <1>2, <2>1 DEF Detect, TypeOK
  <2>3. pc' = "detect" /\ rmw' = rmw /\ pc = "detect"
    BY <1>2 DEF Detect
  <2>4. QED
    BY <2>2, <2>3 DEF Phases, Live
<1>3. ASSUME CountMisses PROVE Phases'
  BY <1>3 DEF CountMisses, Phases, Live
<1>4. ASSUME TickEnd PROVE Phases'
  BY <1>4 DEF TickEnd, Phases, Live, NoRow
<1>5. ASSUME NEW i \in Ids, ResolveRead(i) PROVE Phases'
  <2>1. i \in Ids \ Live
    BY <1>5 DEF ResolveRead, TypeOK
  <2>2. rmw' = [rmw EXCEPT !["engine"] =
                  [step |-> "read", id |-> i, row |-> [store[i] EXCEPT !.status = "resolved"]]]
    BY <1>5 DEF ResolveRead, StatusRead
  <2>3. [store[i] EXCEPT !.status = "resolved"].status = "resolved"
    <3>1. store[i] \in Row
      BY DEF TypeOK
    <3>2. QED
      BY <3>1 DEF Row
  <2>4. rmw'["engine"].id = i /\ rmw'["engine"].row.status = "resolved"
    BY <2>2, <2>3, <1>e DEF TypeOK
  <2>5. Live' = Live /\ pc' = "close" /\ pc = "close" /\ found' = found
    BY <1>5 DEF ResolveRead, StatusRead, Live
  <2>6. QED
    BY <2>1, <2>4, <2>5 DEF Phases
<1>6. ASSUME NEW h \in Operators, NEW i \in Ids, DecisionRead(h, i) PROVE Phases'
  <2>1. rmw'["engine"] = rmw["engine"] /\ UNCHANGED <<pc, found>>
    BY <1>6, DecisionReadFrame
  <2>2. QED
    BY <2>1 DEF Phases, Live
<1>7. ASSUME NEW w \in Writers, StatusStamp(w) PROVE Phases'
  <2>1. rmw[w] \in [step : {"read", "stamped"}, id : Ids, row : Row]
    BY <1>7 DEF StatusStamp, TypeOK, Idle
  <2>2. QED
    BY <1>7, <2>1, <1>e DEF StatusStamp, Phases, Live, TypeOK, tickVars
<1>8. ASSUME NEW w \in Writers, StatusWrite(w) PROVE Phases'
  BY <1>8, <1>e DEF StatusWrite, Phases, Live, TypeOK, Idle
<1>9. ASSUME NEW w \in Writers, StatusFail(w) PROVE Phases'
  BY <1>9, <1>e DEF StatusFail, Phases, Live, TypeOK, Idle, tickVars
<1>10. ASSUME Restart PROVE Phases'
  BY <1>10, <1>e DEF Restart, Phases, Live, NoRow, Idle
<1>13. ASSUME NEW w \in Writers, StatusAbandon(w) PROVE Phases'
  BY <1>13, <1>e DEF StatusAbandon, Phases, Live, TypeOK, Idle, tickVars
<1>14. ASSUME NEW k \in Slots, LateLands(k) PROVE Phases'
  BY <1>14 DEF LateLands, Phases, Live, tickVars
<1>11. CASE UNCHANGED vars
  BY <1>11 DEF vars, tickVars, Phases, Live
<1>12. QED
  BY <1>1, <1>2, <1>3, <1>4, <1>5, <1>6, <1>7, <1>8, <1>9, <1>10, <1>11, <1>13, <1>14, <1>e
     DEF Next, EngineStep, OperatorStep

LEMMA PhasesHold == Spec => [](TypeOK /\ Phases)
<1>1. ASSUME Init PROVE Phases
  <2>1. rmw["engine"].step = "idle"
    BY <1>1 DEF Init, Writers, Idle
  <2>2. Live = {}
    BY <1>1 DEF Init, Live, NoRow
  <2>3. QED
    BY <2>1, <2>2 DEF Phases
<1>2. QED
  BY <1>1, InitType, NextType, PhasesStep, PTL DEF Spec

(***************************************************************************)
(* A human decision survives every tick that began after it.               *)
(***************************************************************************)

\* What a running tick has read, found and means to close agrees with every
\* decision that is still held, and so does every abandoned write that could
\* still be seen.
HeldInv ==
    \A i \in held :
        /\ store[i].status \in Decisions
        /\ pc = "idle" \/ existing[i].status = store[i].status
        /\ found[i].status \in {"", store[i].status}
        /\ i \notin toResolve
        /\ rmw["engine"].step # "idle" => rmw["engine"].id # i
        /\ \A k \in Slots : late[k][i].status \in {"", store[i].status} \/ k \in beaten[i]

LEMMA HeldStep ==
    ASSUME "read" \notin Faults, TypeOK, Phases, HeldInv, [Next]_vars
    PROVE  /\ HeldInv'
           /\ \A i \in held : store'[i].status # store[i].status => HumanWrote(i)
<1> DEFINE Kept == \A i \in held : store'[i].status # store[i].status => HumanWrote(i)
<1>e. "engine" \in Writers /\ Operators \subseteq Writers
  BY DEF Writers
<1>1. ASSUME TickBegin PROVE HeldInv' /\ Kept
  BY <1>1 DEF TickBegin, HeldInv, Decided, Pending, TypeOK, Phases, Live, tableVars
<1>2. ASSUME NEW s \in Services, Detect(s) PROVE HeldInv' /\ Kept
  <2> DEFINE i == <<s, signals[s].kind>>
  <2>1. \A j \in Ids : \/ found'[j] = found[j]
                       \/ j = i /\ found'[j].status = StatusForDetection(existing[i].status)
    BY <1>2 DEF Detect, TypeOK
  <2>2. UNCHANGED <<store, beaten, late, existing, toResolve, held, rmw, pc>>
    BY <1>2 DEF Detect, Stamp
  <2>3. \A j \in held : found'[j].status \in {"", store[j].status}
    <3>1. pc = "detect"
      BY <1>2 DEF Detect
    <3>2. ASSUME NEW j \in held PROVE StatusForDetection(existing[j].status) = store[j].status
      BY <3>1 DEF HeldInv, StatusForDetection
    <3>3. QED
      BY <2>1, <3>2 DEF HeldInv, TypeOK
  <2>4. QED
    BY <1>2, <2>2, <2>3 DEF HeldInv, Detect
<1>3. ASSUME CountMisses PROVE HeldInv' /\ Kept
  <2>1. \A j \in toResolve' : existing[j].status = "open"
    BY <1>3 DEF CountMisses
  <2>2. UNCHANGED <<store, beaten, late, existing, found, held, rmw>> /\ pc = "detect"
    BY <1>3 DEF CountMisses, tableVars
  <2>3. QED
    BY <2>1, <2>2 DEF HeldInv, Decisions
<1>4. ASSUME TickEnd PROVE HeldInv' /\ Kept
  <2>1. /\ pc' = "idle" /\ pc = "close"
        /\ rmw["engine"].step = "idle"
        /\ found' = [i \in Ids |-> NoRow]
        /\ UNCHANGED <<held, toResolve, rmw>>
    BY <1>4 DEF TickEnd
  <2>2. ASSUME NEW i \in held PROVE store'[i].status = store[i].status
    <3>1. i \in Ids
      BY DEF TypeOK
    <3>2. store'[i] = store[i] \/ (i \in Live /\ store'[i] = found[i])
      BY <1>4, <3>1 DEF TickEnd, Land, Drop, Abandon, TypeOK
    <3>3. i \in Live => found[i].status = store[i].status
      BY DEF HeldInv, Live
    <3>4. QED
      BY <3>2, <3>3
  <2>3. ASSUME NEW i \in held, NEW k \in Slots
        PROVE  late'[k][i].status \in {"", store[i].status} \/ k \in beaten'[i]
    <3>1. i \in Ids /\ k # "engine"
      BY WriterAssumption DEF TypeOK
    <3>2. late[k][i].status \in {"", store[i].status} \/ k \in beaten[i]
      BY DEF HeldInv
    <3>3. CASE Land(Live, "engine", found) /\ late' = late
      BY <3>1, <3>2, <3>3 DEF Land, TypeOK
    <3>4. CASE Drop(Live, "engine")
      BY <3>1, <3>2, <3>4 DEF Drop, TypeOK
    <3>5. ASSUME NEW l \in Slots, Abandon(Live, "engine", found, l)
          PROVE  late'[k][i].status \in {"", store[i].status} \/ k \in beaten'[i]
      <4>1. k \in beaten[i] => k \in beaten'[i]
        BY <3>1, <3>5 DEF Abandon, Passed, TypeOK
      <4>2. late'[k][i] \in {late[k][i], found[i], NoRow}
        BY <3>1, <3>5 DEF Abandon, TypeOK
      <4>3. found[i].status \in {"", store[i].status} /\ NoRow.status = ""
        BY DEF HeldInv, NoRow
      <4>4. CASE k # l
        BY <3>1, <3>2, <3>5, <4>1, <4>4 DEF Abandon, TypeOK
      <4>5. CASE k = l
        BY <3>1, <3>5, <4>3, <4>5 DEF Abandon, TypeOK
      <4>6. QED
        BY <4>4, <4>5
    <3>6. QED
      BY <1>4, <3>3, <3>4, <3>5 DEF TickEnd
  <2>4. QED
    BY <2>1, <2>2, <2>3 DEF HeldInv, NoRow, TypeOK
<1>5. ASSUME NEW i \in Ids, ResolveRead(i) PROVE HeldInv' /\ Kept
  BY <1>5, <1>e DEF ResolveRead, StatusRead, HeldInv, TypeOK, tableVars
<1>6. ASSUME NEW h \in Operators, NEW i \in Ids, DecisionRead(h, i) PROVE HeldInv' /\ Kept
  <2>1. /\ rmw'["engine"] = rmw["engine"]
        /\ UNCHANGED <<store, beaten, late, pc, existing, found, toResolve, held>>
    BY <1>6, DecisionReadFrame DEF tableVars
  <2>2. QED
    BY <2>1 DEF HeldInv
<1>7. ASSUME NEW w \in Writers, StatusStamp(w) PROVE HeldInv' /\ Kept
  <2>1. rmw[w] \in [step : {"read", "stamped"}, id : Ids, row : Row]
    BY <1>7 DEF StatusStamp, TypeOK, Idle
  <2>2. rmw'["engine"].step # "idle" =>
            rmw["engine"].step # "idle" /\ rmw'["engine"].id = rmw["engine"].id
    BY <1>7, <2>1, <1>e DEF StatusStamp, TypeOK
  <2>3. UNCHANGED <<store, beaten, late, pc, existing, found, toResolve, held>>
    BY <1>7 DEF StatusStamp, Stamp, tickVars, historyVars
  <2>4. QED
    BY <2>2, <2>3 DEF HeldInv
<1>8. ASSUME NEW w \in Writers, StatusWrite(w) PROVE HeldInv' /\ Kept
  <2> DEFINE i == rmw[w].id
  <2>1. /\ UNCHANGED <<pc, existing, found, toResolve, late>>
        /\ rmw' = [rmw EXCEPT ![w] = Idle]
        /\ rmw[w].step = "stamped"
        /\ held' = IF w = "engine" THEN held ELSE held \ {i}
        /\ \A j \in Ids : j # i => store'[j] = store[j] /\ beaten'[j] = beaten[j]
    BY <1>8 DEF StatusWrite, Land
  <2>2. rmw'["engine"] = rmw["engine"] \/ rmw'["engine"].step = "idle"
    BY <2>1, <1>e DEF TypeOK, Idle
  <2>3. i \notin held'
    BY <2>1 DEF HeldInv
  <2>4. HeldInv'
    BY <2>1, <2>2, <2>3 DEF HeldInv, TypeOK
  <2>5. Kept
    <3> SUFFICES ASSUME NEW j \in held, store'[j].status # store[j].status
                 PROVE  HumanWrote(j)
      OBVIOUS
    <3>1. j = i
      BY <2>1 DEF TypeOK
    <3>2. w # "engine"
      BY <3>1, <2>1 DEF HeldInv
    <3>3. w \in Operators /\ rmw'[w].step = "idle"
      BY <3>2, <2>1 DEF Writers, TypeOK, Idle
    <3>4. QED
      BY <3>1, <3>3, <2>1 DEF HumanWrote
  <2>6. QED
    BY <2>4, <2>5
<1>9. ASSUME NEW w \in Writers, StatusFail(w) PROVE HeldInv' /\ Kept
  <2>1. UNCHANGED <<store, late, pc, existing, found, toResolve, held>>
    BY <1>9 DEF StatusFail, Drop, tableVars, tickVars, historyVars
  <2>2. rmw'["engine"] = rmw["engine"] \/ rmw'["engine"].step = "idle"
    BY <1>9, <1>e DEF StatusFail, TypeOK, Idle
  <2>3. \A i \in Ids : \A k \in Slots : k \in beaten[i] => k \in beaten'[i]
    BY <1>9, WriterAssumption DEF StatusFail, Drop, tableVars, TypeOK, Writers
  <2>4. QED
    BY <2>1, <2>2, <2>3 DEF HeldInv, TypeOK
<1>13. ASSUME NEW w \in Writers, StatusAbandon(w) PROVE HeldInv' /\ Kept
  <2> DEFINE i == rmw[w].id
  <2>1. /\ UNCHANGED <<store, pc, existing, found, toResolve>>
        /\ rmw' = [rmw EXCEPT ![w] = Idle]
        /\ rmw[w].step = "stamped"
        /\ held' = IF w = "engine" THEN held ELSE held \ {i}
    BY <1>13 DEF StatusAbandon, Abandon, tickVars
  <2>2. PICK l \in Slots : Abandon({i}, w, [j \in Ids |-> rmw[w].row], l)
    BY <1>13 DEF StatusAbandon
  <2>3. rmw'["engine"] = rmw["engine"] \/ rmw'["engine"].step = "idle"
    BY <2>1, <1>e DEF TypeOK, Idle
  <2>4. i \notin held' /\ held' \subseteq held
    BY <2>1 DEF HeldInv
  <2>5. ASSUME NEW j \in held', NEW k \in Slots
        PROVE  late'[k][j].status \in {"", store[j].status} \/ k \in beaten'[j]
    <3>1. j \in Ids /\ j # i
      BY <2>4 DEF TypeOK
    <3>2. late[k][j].status \in {"", store[j].status} \/ k \in beaten[j]
      BY <2>4 DEF HeldInv
    <3>3. beaten'[j] = beaten[j]
      BY <2>2, <3>1 DEF Abandon, TypeOK
    <3>4. late'[k][j] = late[k][j] \/ late'[k][j] = NoRow
      BY <2>2, <3>1 DEF Abandon, TypeOK
    <3>5. NoRow.status = ""
      BY DEF NoRow
    <3>6. QED
      BY <3>2, <3>3, <3>4, <3>5
  <2>6. QED
    BY <2>1, <2>3, <2>4, <2>5 DEF HeldInv
<1>14. ASSUME NEW k \in Slots, LateLands(k) PROVE HeldInv' /\ Kept
  <2>1. /\ UNCHANGED <<pc, existing, found, toResolve, held, rmw>>
        /\ Land(Pending(k), k, late[k])
        /\ late' = [late EXCEPT ![k] = [i \in Ids |-> NoRow]]
    BY <1>14 DEF LateLands, tickVars
  <2>2. ASSUME NEW i \in held PROVE store'[i].status = store[i].status
    <3>1. i \in Ids
      BY DEF TypeOK
    <3>2. \/ store'[i] = store[i]
          \/ i \in Pending(k) /\ k \notin beaten[i] /\ store'[i] = late[k][i]
      BY <2>1, <3>1 DEF Land
    <3>3. QED
      BY <3>2 DEF HeldInv, Pending
  <2>3. ASSUME NEW i \in held, NEW l \in Slots
        PROVE  late'[l][i].status \in {"", store[i].status} \/ l \in beaten'[i]
    <3>1. i \in Ids
      BY DEF TypeOK
    <3>2. late[l][i].status \in {"", store[i].status} \/ l \in beaten[i]
      BY DEF HeldInv
    <3>3. CASE l = k
      BY <2>1, <3>1, <3>3 DEF TypeOK, NoRow
    <3>4. CASE l # k
      BY <2>1, <3>1, <3>2, <3>4 DEF Land, TypeOK
    <3>5. QED
      BY <3>3, <3>4
  <2>4. QED
    BY <2>1, <2>2, <2>3 DEF HeldInv
<1>10. ASSUME Restart PROVE HeldInv' /\ Kept
  <2>1. /\ UNCHANGED <<store, late, held>>
        /\ pc' = "idle" /\ toResolve' = {} /\ found' = [i \in Ids |-> NoRow]
        /\ rmw'["engine"].step = "idle"
        /\ \A i \in Ids : \A k \in Slots : k \in beaten[i] => k \in beaten'[i]
    BY <1>10, <1>e DEF Restart, Idle
  <2>2. QED
    BY <2>1 DEF HeldInv, TypeOK, NoRow
<1>11. CASE UNCHANGED vars
  BY <1>11 DEF vars, tableVars, tickVars, historyVars, HeldInv
<1>12. QED
  BY <1>1, <1>2, <1>3, <1>4, <1>5, <1>6, <1>7, <1>8, <1>9, <1>10, <1>11, <1>13, <1>14, <1>e
     DEF Next, EngineStep, OperatorStep

\* Provided its reads of the statuses are answered, the engine never undoes a
\* decision that was in the table when its tick began, with nothing stamped after
\* it still to come: not when writes are lost, given up and executed later, or
\* reordered, and not when the process restarts.
THEOREM DecisionsSurvive ==
    ASSUME "read" \notin Faults
    PROVE  Spec => DecisionStands
<1>1. Init => HeldInv
  BY DEF Init, HeldInv
<1>2. TypeOK /\ Phases /\ HeldInv /\ [Next]_vars =>
        HeldInv' /\ \A i \in held : store'[i].status # store[i].status => HumanWrote(i)
  BY HeldStep
<1>3. QED
  BY <1>1, <1>2, PhasesHold, PTL DEF Spec, DecisionStands

(***************************************************************************)
(* Without people writing to the table, three more facts hold of the       *)
(* engine alone.                                                           *)
(***************************************************************************)

\* What a row says was paged is no more than what was delivered.
Earned(row, severity) ==
    row.status = "open" /\ row.notified # "none" =>
        SeverityOrder[severity] >= SeverityOrder[row.notified]

\* Nobody has decided anything: rows are open or closed by the engine, and only
\* open ones are pending.
Undecided ==
    /\ \A i \in Ids : store[i].status \notin Decisions
    /\ \A i \in Ids : existing[i].status \notin Decisions
    /\ \A i \in Live : found[i].status = "open"
    /\ \A k \in Slots : \A i \in Ids : late[k][i].status \in {"", "open"}

EarnedInv ==
    /\ \A i \in Ids : store[i].status = "" => store[i].notified = "none"
    /\ \A i \in Ids : store[i].status \notin Decisions
    /\ \A i \in Ids : Earned(store[i], told[i].severity)
    /\ pc = "detect" => \A i \in Ids :
          /\ existing[i].status = "" => existing[i].notified = "none"
          /\ existing[i].status \notin Decisions
          /\ Earned(existing[i], told[i].severity)
    /\ \A i \in Live : found[i].status = "open" /\ Earned(found[i], told[i].severity)
    /\ \A k \in Slots : \A i \in Ids :
          /\ late[k][i].status \in {"", "open"}
          /\ k \in beaten[i] \/ Earned(late[k][i], told[i].severity)

\* A write given up before the engine stamped its resolution is beaten by it.
Overtaken ==
    rmw["engine"].step = "stamped" =>
        \A k \in Slots :
            \/ late[k][rmw["engine"].id].status = ""
            \/ k \in beaten[rmw["engine"].id]
            \/ <<k, "engine">> \in earlier[rmw["engine"].id]

\* A correlation has missed no more ticks than it was absent from; one that is
\* not open, or was found by this tick, has missed none.
MissInv ==
    /\ \A i \in Ids : misses[i] <= absent[i]
    /\ \A i \in Ids : store[i].status # "open" => misses[i] = 0
    /\ pc = "detect" => \A i \in Ids :
          IF existing[i].status = "open" THEN store[i].status = "open" ELSE misses[i] = 0
    /\ pc = "close" => \A i \in Live : misses[i] = 0
    /\ \A i \in toResolve : absent[i] = MissesBeforeResolve
    /\ rmw["engine"].step # "idle" => absent[rmw["engine"].id] = MissesBeforeResolve

\* A row records exactly what was delivered for its id.
Recorded(row, severity) ==
    severity = IF row.status = "open" THEN row.notified ELSE "none"

\* The visible row, or the row about to replace it, records what was delivered,
\* and no write is ever beaten by another.
OnceInv ==
    /\ \A i \in Ids : ~told[i].repeated
    /\ \A i \in Ids : earlier[i] = {} /\ beaten[i] = {}
    /\ \A k \in Slots : \A i \in Ids : late[k][i].status = ""
    /\ \A i \in Ids : store[i].status \in {"", "open", "resolved"}
    /\ \A i \in Ids : store[i].status = "" => store[i].notified = "none"
    /\ \A i \in Ids \ Live : Recorded(store[i], told[i].severity)
    /\ \A i \in Live : found[i].status = "open" /\ Recorded(found[i], told[i].severity)
    /\ pc = "detect" =>
          /\ existing = store
          /\ \A i \in Ids : i[1] \in todo =>
                /\ i \notin Live
                /\ store[i].status = "open" =>
                      SeverityOrder[pagedFor[i[1]]] >= SeverityOrder[store[i].notified]

LEMMA SeverityValues ==
    /\ SeverityOrder["none"] = 0
    /\ SeverityOrder["warning"] = 1
    /\ SeverityOrder["critical"] = 2
BY DEF SeverityOrder

\* The severity a tick takes as already paged for a service is at least that of
\* each of its open correlations.
LEMMA PagedForServiceBound ==
    ASSUME NEW rows \in [Ids -> Row], NEW i \in Ids, rows[i].status = "open"
    PROVE  /\ PagedForService(rows, i[1]) \in Severities \cup {"none"}
           /\ SeverityOrder[PagedForService(rows, i[1])] >= SeverityOrder[rows[i].notified]
<1>1. rows[i].notified \in {rows[j].notified : j \in {k \in Ids : k[1] = i[1] /\ rows[k].status = "open"}}
  OBVIOUS
<1>2. rows[i].notified \in {"warning", "critical", "none"}
  BY DEF Row, Severities
<1>3. QED
  BY <1>1, <1>2, SeverityValues DEF PagedForService, Severities

\* With nobody writing to the table, every step is a step of the engine.
LEMMA EngineOnly ==
    ASSUME Operators = {}, [Next]_vars
    PROVE  \/ TickBegin
           \/ \E s \in Services : Detect(s)
           \/ CountMisses
           \/ \E i \in Ids : ResolveRead(i)
           \/ StatusStamp("engine")
           \/ StatusWrite("engine")
           \/ StatusFail("engine")
           \/ StatusAbandon("engine")
           \/ TickEnd
           \/ Restart
           \/ \E k \in Slots : LateLands(k)
           \/ UNCHANGED vars
BY DEF Next, EngineStep

\* What the other variables look like after each step of setStatus.
LEMMA ResolveFrame ==
    ASSUME TypeOK, NEW i \in Ids, ResolveRead(i)
    PROVE  /\ pc = "close" /\ pc' = "close"
           /\ i \in toResolve /\ toResolve' = toResolve \ {i}
           /\ rmw'["engine"].id = i
           /\ rmw'["engine"].step = "read"
           /\ UNCHANGED <<store, earlier, beaten, late, signals, todo, existing, pagedFor, found, misses,
                          told, absent, held>>
           /\ Live' = Live
BY DEF ResolveRead, StatusRead, TypeOK, Writers, tableVars, Live

LEMMA StampFrame ==
    ASSUME TypeOK, StatusStamp("engine")
    PROVE  /\ rmw["engine"].step = "read"
           /\ rmw["engine"].id \in Ids
           /\ rmw'["engine"].id = rmw["engine"].id
           /\ rmw'["engine"].step = "stamped"
           /\ UNCHANGED <<store, beaten, late, tickVars, historyVars>>
           /\ Live' = Live
<1>1. rmw["engine"] \in [step : {"read", "stamped"}, id : Ids, row : Row]
  BY DEF StatusStamp, TypeOK, Idle, Writers
<1>2. QED
  BY <1>1 DEF StatusStamp, Stamp, TypeOK, Writers, Live, tickVars

LEMMA FailFrame ==
    ASSUME TypeOK, StatusFail("engine")
    PROVE  /\ rmw'["engine"].step = "idle"
           /\ UNCHANGED <<store, late, tickVars, historyVars>>
           /\ Live' = Live
BY DEF StatusFail, Drop, TypeOK, Writers, Idle, Live, tableVars, tickVars

LEMMA WriteFrame ==
    ASSUME TypeOK, Phases, StatusWrite("engine")
    PROVE  /\ pc = "close" /\ rmw["engine"].id \in Ids \ Live
           /\ rmw'["engine"].step = "idle"
           /\ UNCHANGED <<late, pc, signals, todo, existing, pagedFor, found, toResolve, absent>>
           /\ Live' = Live
           /\ \A j \in Ids \ {rmw["engine"].id} : store'[j] = store[j]
           /\ IF "engine" \in beaten[rmw["engine"].id]
              THEN store' = store /\ told' = told
              ELSE /\ store'[rmw["engine"].id].status = "resolved"
                   /\ told' = [told EXCEPT ![rmw["engine"].id] = NotTold]
<1>1. rmw["engine"] \in [step : {"read", "stamped"}, id : Ids, row : Row]
  BY DEF StatusWrite, TypeOK, Idle, Writers
<1>2. rmw["engine"].step # "idle"
  BY DEF StatusWrite
<1>3. QED
  BY <1>1, <1>2 DEF StatusWrite, Land, Phases, TypeOK, Writers, Idle, Live

\* An abandoned write that lands shows its row, unless it is beaten.
LEMMA LateFrame ==
    ASSUME TypeOK, NEW k \in Slots, LateLands(k)
    PROVE  /\ UNCHANGED <<rmw, tickVars, absent, held>>
           /\ Live' = Live
           /\ \A i \in Ids : \/ store'[i] = store[i]
                             \/ /\ late[k][i].status # ""
                                /\ k \notin beaten[i]
                                /\ store'[i] = late[k][i]
           /\ \A i \in Ids : late'[k][i] = NoRow
           /\ \A l \in Slots \ {k} : late'[l] = late[l]
           /\ \A l \in Slots \ {k} : \A i \in Ids : l \in beaten[i] => l \in beaten'[i]
<1>1. Live' = Live
  BY DEF LateLands, Live, tickVars
<1>2. ASSUME NEW i \in Ids
      PROVE  \/ store'[i] = store[i]
             \/ late[k][i].status # "" /\ k \notin beaten[i] /\ store'[i] = late[k][i]
  <2>1. store'[i] = IF i \in Pending(k) /\ k \notin beaten[i] THEN late[k][i] ELSE store[i]
    BY DEF LateLands, Land
  <2>2. QED
    BY <2>1 DEF Pending
<1>3. /\ \A i \in Ids : late'[k][i] = NoRow
      /\ \A l \in Slots \ {k} : late'[l] = late[l]
  BY DEF LateLands, TypeOK
<1>4. \A l \in Slots \ {k} : \A i \in Ids : l \in beaten[i] => l \in beaten'[i]
  BY DEF LateLands, Land, TypeOK
<1>5. QED
  BY <1>1, <1>2, <1>3, <1>4 DEF LateLands

\* A batch given up waits in its slot, beaten where it was beaten.
LEMMA BatchFrame ==
    ASSUME TypeOK, NEW k \in Slots, Abandon(Live, "engine", found, k)
    PROVE  /\ store' = store
           /\ \A i \in Ids : late'[k][i] = IF i \in Live THEN found[i] ELSE NoRow
           /\ \A l \in Slots \ {k} : late'[l] = late[l]
           /\ \A l \in Slots : \A i \in Ids : l \in beaten[i] => l \in beaten'[i]
<1>1. /\ \A i \in Ids : late'[k][i] = IF i \in Live THEN found[i] ELSE NoRow
      /\ \A l \in Slots \ {k} : late'[l] = late[l]
  BY DEF Abandon, TypeOK
<1>2. \A l \in Slots : \A i \in Ids : l \in beaten[i] => l \in beaten'[i]
  BY WriterAssumption DEF Abandon, Passed, TypeOK
<1>3. QED
  BY <1>1, <1>2 DEF Abandon

LEMMA UndecidedStep ==
    ASSUME Operators = {}, "latestatus" \notin Faults, TypeOK, Phases, Undecided, [Next]_vars
    PROVE  Undecided'
<1>1. ASSUME TickBegin PROVE Undecided'
  <2>1. /\ UNCHANGED <<store, late, found>>
        /\ existing' = store \/ existing' = [i \in Ids |-> NoRow]
    BY <1>1 DEF TickBegin, tableVars
  <2>2. \A i \in Ids : existing'[i].status \notin Decisions
    <3>1. NoRow.status \notin Decisions
      BY DEF NoRow, Decisions
    <3>2. \A i \in Ids : existing'[i] = store[i] \/ existing'[i] = NoRow
      BY <2>1
    <3>3. \A i \in Ids : store[i].status \notin Decisions
      BY DEF Undecided
    <3>4. QED
      BY <3>1, <3>2, <3>3
  <2>3. Live' = Live
    BY <2>1 DEF Live
  <2>4. QED
    BY <2>1, <2>2, <2>3 DEF Undecided
<1>2. ASSUME NEW s \in Services, Detect(s) PROVE Undecided'
  <2> DEFINE i == <<s, signals[s].kind>>
  <2>1. /\ UNCHANGED <<store, late, existing>>
    BY <1>2 DEF Detect, Stamp
  <2>2. i \in Ids
    BY <1>2, VerdictAssumption DEF Detect, TypeOK, Ids
  <2>3. StatusForDetection(existing[i].status) = "open"
    BY <2>2 DEF Undecided, StatusForDetection
  <2>4. \A j \in Ids : found'[j] = found[j] \/ found'[j].status = "open"
    BY <1>2, <2>3 DEF Detect, TypeOK
  <2>5. QED
    BY <2>1, <2>4 DEF Undecided, Live
<1>3. ASSUME CountMisses PROVE Undecided'
  BY <1>3 DEF CountMisses, Undecided, Live, tableVars
<1>4. ASSUME TickEnd PROVE Undecided'
  <2>1. /\ existing' = [i \in Ids |-> NoRow]
        /\ found' = [i \in Ids |-> NoRow]
    BY <1>4 DEF TickEnd
  <2>2. Live' = {} /\ \A i \in Ids : existing'[i].status \notin Decisions
    BY <2>1 DEF Live, NoRow, Decisions
  <2>3. Live \subseteq Ids /\ \A i \in Live : found[i].status \notin Decisions
    BY DEF Live, Undecided, Decisions
  <2>4. CASE Land(Live, "engine", found) /\ late' = late
    BY <2>2, <2>3, <2>4 DEF Land, Undecided
  <2>5. CASE Drop(Live, "engine")
    BY <2>2, <2>5 DEF Drop, Undecided
  <2>6. ASSUME NEW k \in Slots, Abandon(Live, "engine", found, k) PROVE Undecided'
    <3>1. ASSUME NEW l \in Slots, NEW i \in Ids PROVE late'[l][i].status \in {"", "open"}
      <4>1. late[l][i].status \in {"", "open"} /\ (i \in Live => found[i].status = "open")
        BY DEF Undecided
      <4>2. late'[l][i] = late[l][i] \/ late'[l][i] = IF i \in Live THEN found[i] ELSE NoRow
        BY <2>6, BatchFrame
      <4>3. NoRow.status = ""
        BY DEF NoRow
      <4>4. QED
        BY <4>1, <4>2, <4>3
    <3>2. QED
      BY <2>2, <2>6, <3>1, BatchFrame DEF Undecided
  <2>7. QED
    BY <1>4, <2>4, <2>5, <2>6 DEF TickEnd
<1>5. ASSUME NEW i \in Ids, ResolveRead(i) PROVE Undecided'
  BY <1>5, ResolveFrame DEF Undecided
<1>6. ASSUME StatusStamp("engine") PROVE Undecided'
  BY <1>6, StampFrame DEF Undecided, tickVars
<1>7. ASSUME StatusWrite("engine") PROVE Undecided'
  <2>1. \A i \in Ids : store'[i] = store[i] \/ store'[i].status = "resolved"
    BY <1>7, WriteFrame
  <2>2. \A i \in Ids : store'[i].status \notin Decisions
    BY <2>1 DEF Undecided, Decisions
  <2>3. UNCHANGED <<late, existing, found>> /\ Live' = Live
    BY <1>7, WriteFrame
  <2>4. QED
    BY <2>2, <2>3 DEF Undecided
<1>8. ASSUME StatusFail("engine") PROVE Undecided'
  BY <1>8, FailFrame DEF Undecided, tickVars
<1>9. ASSUME Restart PROVE Undecided'
  <2>1. /\ UNCHANGED <<store, late>>
        /\ \A i \in Ids : existing'[i] = NoRow /\ found'[i] = NoRow
    BY <1>9 DEF Restart
  <2>2. NoRow.status = "" /\ NoRow.status \notin Decisions
    BY DEF NoRow, Decisions
  <2>3. Live' = {}
    BY <2>1, <2>2 DEF Live
  <2>4. QED
    BY <2>1, <2>2, <2>3 DEF Undecided
<1>10. ASSUME NEW k \in Slots, LateLands(k) PROVE Undecided'
  <2>1. ASSUME NEW i \in Ids PROVE store'[i] = store[i] \/ store'[i].status = "open"
    <3>1. late[k][i].status \in {"", "open"}
      BY DEF Undecided
    <3>2. \/ store'[i] = store[i]
          \/ late[k][i].status # "" /\ store'[i] = late[k][i]
      BY <1>10, LateFrame
    <3>3. QED
      BY <3>1, <3>2
  <2>2. ASSUME NEW l \in Slots, NEW i \in Ids PROVE late'[l][i].status \in {"", "open"}
    <3>1. late[l][i].status \in {"", "open"} /\ NoRow.status = ""
      BY DEF Undecided, NoRow
    <3>2. late'[l][i] = late[l][i] \/ late'[l][i] = NoRow
      BY <1>10, LateFrame
    <3>3. QED
      BY <3>1, <3>2
  <2>3. QED
    BY <1>10, <2>1, <2>2, LateFrame DEF Undecided, Decisions, tickVars
<1>11. CASE UNCHANGED vars
  BY <1>11 DEF vars, tableVars, tickVars, Undecided, Live
<1>12. ~StatusAbandon("engine")
  BY DEF StatusAbandon
<1>13. QED
  BY <1>1, <1>2, <1>3, <1>4, <1>5, <1>6, <1>7, <1>8, <1>9, <1>10, <1>11, <1>12, EngineOnly

LEMMA UndecidedInit == Init => Undecided
<1> SUFFICES ASSUME Init PROVE Undecided
  OBVIOUS
<1>1. /\ \A i \in Ids : store[i] = NoRow /\ existing[i] = NoRow /\ found[i] = NoRow
      /\ \A k \in Slots : \A i \in Ids : late[k][i] = NoRow
  BY DEF Init
<1>2. NoRow.status = "" /\ NoRow.status \notin Decisions
  BY DEF NoRow, Decisions
<1>3. Live = {}
  BY <1>1, <1>2 DEF Live
<1>4. QED
  BY <1>1, <1>2, <1>3 DEF Undecided

(***************************************************************************)
(* A correlation is closed only after enough misses in a row.              *)
(***************************************************************************)

LEMMA MissStep ==
    ASSUME Operators = {}, "read" \notin Faults, "unacked" \notin Faults,
           "latestatus" \notin Faults, TypeOK, Phases, Undecided, MissInv, [Next]_vars
    PROVE  /\ MissInv'
           /\ \A i \in Ids :
                 store[i].status # "resolved" /\ store'[i].status = "resolved" =>
                     absent[i] = MissesBeforeResolve
<1> DEFINE Patient == \A i \in Ids :
                 store[i].status # "resolved" /\ store'[i].status = "resolved" =>
                     absent[i] = MissesBeforeResolve
<1>t. misses \in [Ids -> 0 .. MissesBeforeResolve] /\ absent \in [Ids -> 0 .. MissesBeforeResolve]
  BY DEF TypeOK
<1>1. ASSUME TickBegin PROVE MissInv' /\ Patient
  <2>1. /\ UNCHANGED <<store, misses, absent, toResolve, rmw>>
        /\ existing' = store /\ pc' = "detect" /\ pc = "idle"
    BY <1>1 DEF TickBegin, tableVars
  <2>2. QED
    BY <2>1 DEF MissInv
<1>2. ASSUME NEW s \in Services, Detect(s) PROVE MissInv' /\ Patient
  <2>1. /\ UNCHANGED <<store, misses, absent, toResolve, rmw, existing>>
        /\ pc' = "detect" /\ pc = "detect"
    BY <1>2 DEF Detect, Stamp
  <2>2. QED
    BY <2>1 DEF MissInv
<1>3. ASSUME CountMisses PROVE MissInv' /\ Patient
  <2> DEFINE open == {i \in Ids : existing[i].status = "open"}
  <2>1. /\ UNCHANGED <<store, rmw, found>>
        /\ pc = "detect" /\ pc' = "close"
        /\ misses' = [i \in Ids |-> IF i \in open
                                    THEN IF i \in Live THEN 0 ELSE AtMost(misses[i] + 1)
                                    ELSE misses[i]]
        /\ toResolve' = {i \in open \ Live : AtMost(misses[i] + 1) = MissesBeforeResolve}
        /\ absent' = [i \in Ids |-> IF i \in Live THEN 0 ELSE AtMost(absent[i] + 1)]
    BY <1>3 DEF CountMisses, ConsecutiveMisses, tableVars
  <2>2. \A i \in Ids : store[i].status # "open" => i \notin open
    BY <2>1 DEF MissInv
  <2>3. \A i \in Ids : i \notin open => misses[i] = 0
    BY <2>1 DEF MissInv
  <2>4. rmw["engine"].step = "idle"
    BY <2>1 DEF Phases
  <2>5. ASSUME NEW i \in Ids PROVE misses'[i] <= absent'[i]
    BY <2>1, <2>3, <1>t, MissesAssumption DEF MissInv, AtMost
  <2>6. ASSUME NEW i \in Ids, store'[i].status # "open" PROVE misses'[i] = 0
    BY <2>1, <2>2, <2>3, <2>6
  <2>7. ASSUME NEW i \in Live' PROVE misses'[i] = 0
    BY <2>1, <2>3 DEF Live
  <2>8. ASSUME NEW i \in toResolve' PROVE absent'[i] = MissesBeforeResolve
    <3>1. i \in Ids /\ i \notin Live /\ AtMost(misses[i] + 1) = MissesBeforeResolve
      BY <2>1
    <3>2. misses[i] <= absent[i] /\ misses[i] \in 0 .. MissesBeforeResolve
              /\ absent[i] \in 0 .. MissesBeforeResolve
      BY <3>1, <1>t DEF MissInv
    <3>3. absent'[i] = AtMost(absent[i] + 1)
      BY <2>1, <3>1
    <3>4. QED
      BY <3>1, <3>2, <3>3, MissesAssumption DEF AtMost
  <2>9. QED
    BY <2>1, <2>4, <2>5, <2>6, <2>7, <2>8 DEF MissInv
<1>4. ASSUME TickEnd PROVE MissInv' /\ Patient
  <2>1. /\ UNCHANGED <<misses, absent, toResolve, rmw>>
        /\ pc' = "idle" /\ pc = "close"
        /\ \A i \in Ids : store'[i] = store[i] \/ (i \in Live /\ store'[i] = found[i])
    BY <1>4 DEF TickEnd, Land, Drop, Abandon, TypeOK
  <2>2. \A i \in Live : found[i].status = "open"
    BY DEF Undecided
  <2>3. QED
    BY <2>1, <2>2 DEF MissInv
<1>5. ASSUME NEW i \in Ids, ResolveRead(i) PROVE MissInv' /\ Patient
  BY <1>5, ResolveFrame DEF MissInv
<1>6. ASSUME StatusStamp("engine") PROVE MissInv' /\ Patient
  BY <1>6, StampFrame DEF MissInv, tickVars, historyVars
<1>7. ASSUME StatusWrite("engine") PROVE MissInv' /\ Patient
  <2> DEFINE i == rmw["engine"].id
  <2>1. misses' = [misses EXCEPT ![i] = 0]
    BY <1>7 DEF StatusWrite
  <2>2. absent[i] = MissesBeforeResolve
    BY <1>7 DEF StatusWrite, MissInv
  <2>3. \A j \in Ids : misses'[j] = 0 \/ misses'[j] = misses[j]
    BY <2>1, <1>t
  <2>4. i \in Ids /\ misses'[i] = 0
    BY <1>7, <2>1, <1>t, WriteFrame
  <2>5. /\ UNCHANGED <<pc, found, existing, toResolve, absent>>
        /\ Live' = Live /\ pc = "close" /\ rmw'["engine"].step = "idle"
        /\ \A j \in Ids \ {i} : store'[j] = store[j]
    BY <1>7, WriteFrame
  <2>6. ASSUME NEW j \in Ids PROVE misses'[j] <= absent'[j]
    <3>1. misses[j] <= absent[j] /\ absent[j] \in 0 .. MissesBeforeResolve
      BY <1>t DEF MissInv
    <3>2. absent'[j] = absent[j]
      BY <2>5
    <3>3. QED
      BY <2>3, <3>1, <3>2, MissesAssumption
  <2>7. \A j \in Ids : store'[j].status # "open" => misses'[j] = 0
    BY <2>3, <2>4, <2>5 DEF MissInv
  <2>8. \A j \in Live' : misses'[j] = 0
    BY <2>3, <2>5 DEF MissInv, Live
  <2>9. \A j \in toResolve' : absent'[j] = MissesBeforeResolve
    BY <2>5 DEF MissInv
  <2>10. Patient
    BY <2>2, <2>5
  <2>11. QED
    BY <2>5, <2>6, <2>7, <2>8, <2>9, <2>10 DEF MissInv
<1>8. ASSUME StatusFail("engine") PROVE MissInv' /\ Patient
  BY <1>8, FailFrame DEF MissInv, tickVars, historyVars
<1>9. ASSUME Restart PROVE MissInv' /\ Patient
  BY <1>9, <1>t DEF Restart, MissInv, Idle, Writers
<1>12. ASSUME NEW k \in Slots, LateLands(k) PROVE MissInv' /\ Patient
  <2>1. ASSUME NEW i \in Ids PROVE store'[i] = store[i] \/ store'[i].status = "open"
    <3>1. late[k][i].status \in {"", "open"}
      BY DEF Undecided
    <3>2. \/ store'[i] = store[i]
          \/ late[k][i].status # "" /\ store'[i] = late[k][i]
      BY <1>12, LateFrame
    <3>3. QED
      BY <3>1, <3>2
  <2>2. QED
    BY <1>12, <2>1, LateFrame DEF MissInv, tickVars
<1>13. ~StatusAbandon("engine")
  BY DEF StatusAbandon
<1>10. CASE UNCHANGED vars
  BY <1>10 DEF vars, tableVars, tickVars, historyVars, MissInv, Live
<1>11. QED
  BY <1>1, <1>2, <1>3, <1>4, <1>5, <1>6, <1>7, <1>8, <1>9, <1>10, <1>12, <1>13, EngineOnly

\* With nobody changing statuses, every read of the statuses answered, every
\* resolution acknowledged and none executed after it was given up, no correlation
\* is closed before missesBeforeResolve ticks in a row have gone by without it.
THEOREM ClosedOnlyAfterMisses ==
    ASSUME Operators = {}, {"read", "unacked", "latestatus"} \cap Faults = {}
    PROVE  Spec => ResolveNeedsConsecutiveMisses
<1>1. ASSUME Init PROVE MissInv
  <2>1. rmw["engine"].step = "idle"
    BY <1>1 DEF Init, Writers, Idle
  <2>2. pc = "idle" /\ toResolve = {} /\ \A i \in Ids : misses[i] = 0 /\ absent[i] = 0
    BY <1>1 DEF Init
  <2>3. QED
    BY <2>1, <2>2 DEF MissInv
<1>2. TypeOK /\ Phases /\ Undecided /\ MissInv /\ [Next]_vars =>
        /\ MissInv'
        /\ Undecided'
        /\ \A i \in Ids :
              store[i].status # "resolved" /\ store'[i].status = "resolved" =>
                  absent[i] = MissesBeforeResolve
  BY MissStep, UndecidedStep
<1>3. QED
  BY <1>1, <1>2, UndecidedInit, PhasesHold, PTL DEF Spec, ResolveNeedsConsecutiveMisses

(***************************************************************************)
(* What a row says was paged was delivered.                                *)
(***************************************************************************)

\* Telling somebody of a severity never lowers what they have been told.
LEMMA TellBound ==
    ASSUME TypeOK, NEW i \in Ids, NEW sev \in Severities
    PROVE  /\ Tell(i, sev) \in [severity : Severities \cup {"none"}, repeated : BOOLEAN]
           /\ SeverityOrder[Tell(i, sev).severity] >= SeverityOrder[sev]
           /\ SeverityOrder[Tell(i, sev).severity] >= SeverityOrder[told[i].severity]
<1>1. told[i] \in [severity : Severities \cup {"none"}, repeated : BOOLEAN]
  BY DEF TypeOK
<1>2. told[i].severity \in {"none", "warning", "critical"} /\ sev \in {"warning", "critical"}
  BY <1>1 DEF Severities
<1>3. QED
  BY <1>1, <1>2, SeverityValues DEF Tell, Heard, Severities

LEMMA ToldRises ==
    ASSUME TypeOK, NEW s \in Services, Detect(s)
    PROVE  \A i \in Ids : SeverityOrder[told'[i].severity] >= SeverityOrder[told[i].severity]
<1> DEFINE i == <<s, signals[s].kind>>
           sev == signals[s].severity
<1>1. i \in Ids /\ sev \in Severities
  BY VerdictAssumption DEF Detect, TypeOK, Ids
<1>2. told' = told \/ told' = [told EXCEPT ![i] = Tell(i, sev)]
  BY DEF Detect
<1>3. ASSUME NEW j \in Ids PROVE SeverityOrder[told[j].severity] >= SeverityOrder[told[j].severity]
  <2>1. told[j].severity \in {"none", "warning", "critical"}
    BY DEF TypeOK, Severities
  <2>2. QED
    BY <2>1, SeverityValues
<1>4. SeverityOrder[Tell(i, sev).severity] >= SeverityOrder[told[i].severity]
  BY <1>1, TellBound
<1>5. ASSUME NEW j \in Ids PROVE told'[j] = told[j] \/ (j = i /\ told'[j] = Tell(i, sev))
  BY <1>1, <1>2 DEF TypeOK
<1>6. QED
  BY <1>3, <1>4, <1>5

\* What was earned stays earned when more is delivered.
LEMMA EarnedRises ==
    ASSUME NEW row, NEW a, NEW b, Earned(row, a),
           SeverityOrder[row.notified] \in Nat, SeverityOrder[a] \in Nat, SeverityOrder[b] \in Nat,
           SeverityOrder[b] >= SeverityOrder[a]
    PROVE  Earned(row, b)
BY DEF Earned

LEMMA EarnedStep ==
    ASSUME Operators = {}, "latestatus" \notin Faults,
           TypeOK, Phases, EarnedInv, Overtaken, [Next]_vars
    PROVE  EarnedInv'
<1>o. \A v \in Severities \cup {"none"} : SeverityOrder[v] \in Nat
  BY SeverityValues DEF Severities
<1>1. ASSUME TickBegin PROVE EarnedInv'
  <2>1. /\ UNCHANGED <<store, beaten, late, told, found, Live>>
        /\ \/ existing' = store
           \/ existing' = [i \in Ids |-> NoRow]
    BY <1>1 DEF TickBegin, tableVars, Live
  <2>2. Earned(NoRow, "none") /\ \A j \in Ids : Earned(NoRow, told[j].severity)
    BY DEF Earned, NoRow
  <2>3. \A j \in Ids : /\ existing'[j].status = "" => existing'[j].notified = "none"
                       /\ existing'[j].status \notin Decisions
                       /\ Earned(existing'[j], told'[j].severity)
    <3>1. CASE existing' = store
      BY <2>1, <3>1 DEF EarnedInv
    <3>2. CASE existing' = [j \in Ids |-> NoRow]
      <4>1. \A j \in Ids : existing'[j] = NoRow
        BY <3>2
      <4>2. NoRow.notified = "none" /\ NoRow.status \notin Decisions
        BY DEF NoRow, Decisions
      <4>3. QED
        BY <2>1, <2>2, <4>1, <4>2
    <3>3. QED
      BY <2>1, <3>1, <3>2
  <2>4. QED
    BY <2>1, <2>3 DEF EarnedInv
<1>2. ASSUME NEW s \in Services, Detect(s) PROVE EarnedInv'
  <2> DEFINE i == <<s, signals[s].kind>>
             sev == signals[s].severity
  <2>1. /\ pc = "detect" /\ pc' = "detect"
        /\ UNCHANGED <<store, beaten, late, existing>>
    BY <1>2 DEF Detect, Stamp
  <2>2. i \in Ids /\ sev \in Severities
    BY <1>2, VerdictAssumption DEF Detect, TypeOK, Ids
  <2>3. \A j \in Ids : /\ SeverityOrder[told'[j].severity] >= SeverityOrder[told[j].severity]
                       /\ SeverityOrder[told'[j].severity] \in Nat
                       /\ SeverityOrder[told[j].severity] \in Nat
                       /\ SeverityOrder[store[j].notified] \in Nat
                       /\ SeverityOrder[existing[j].notified] \in Nat
                       /\ SeverityOrder[found[j].notified] \in Nat
    <3>1. TypeOK'
      BY NextType
    <3>2. QED
      BY <1>2, <3>1, ToldRises, <1>o DEF TypeOK, Row
  <2>4. \A j \in Ids : Earned(store'[j], told'[j].severity)
    BY <2>1, <2>3, EarnedRises DEF EarnedInv
  <2>5. \A j \in Ids : Earned(existing'[j], told'[j].severity)
    BY <2>1, <2>3, EarnedRises DEF EarnedInv
  <2>6. PICK delivered \in BOOLEAN :
            /\ found' = [found EXCEPT ![i] =
                    [status |-> StatusForDetection(existing[i].status),
                     notified |-> IF delivered THEN sev ELSE Remembered(existing[i])]]
            /\ told' = IF delivered THEN [told EXCEPT ![i] = Tell(i, sev)] ELSE told
    BY <1>2 DEF Detect
  <2>7. StatusForDetection(existing[i].status) = "open"
    BY <2>1, <2>2 DEF EarnedInv, StatusForDetection
  <2>8. \A j \in Ids \ {i} : found'[j] = found[j]
    BY <2>6 DEF TypeOK
  <2>9. found'[i].status = "open" /\ Earned(found'[i], told'[i].severity)
    <3>1. found'[i] = [status |-> "open",
                       notified |-> IF delivered THEN sev ELSE Remembered(existing[i])]
      BY <2>2, <2>6, <2>7 DEF TypeOK
    <3>2. CASE delivered
      <4>1. told'[i] = Tell(i, sev)
        BY <2>2, <2>6, <3>2 DEF TypeOK
      <4>2. SeverityOrder[told'[i].severity] >= SeverityOrder[sev]
        BY <2>2, <4>1, TellBound
      <4>3. QED
        BY <3>1, <3>2, <4>2 DEF Earned
    <3>3. CASE ~delivered
      <4>1. told' = told
        BY <2>6, <3>3
      <4>2. \/ Remembered(existing[i]) = "none"
            \/ existing[i].status = "open" /\ Remembered(existing[i]) = existing[i].notified
        BY <2>1, <2>2 DEF EarnedInv, Remembered, TypeOK, Row
      <4>3. found'[i].status = "open" /\ found'[i].notified = Remembered(existing[i])
        BY <3>1, <3>3
      <4>4. Earned(existing[i], told[i].severity)
        BY <2>1, <2>2 DEF EarnedInv
      <4>5. told'[i].severity = told[i].severity
        BY <4>1
      <4>6. QED
        BY <4>2, <4>3, <4>4, <4>5 DEF Earned
    <3>4. QED
      BY <3>2, <3>3
  <2>10. \A j \in Live' : found'[j].status = "open" /\ Earned(found'[j], told'[j].severity)
    <3>1. \A j \in Live' : j = i \/ (j \in Live /\ found'[j] = found[j])
      BY <2>8 DEF Live
    <3>2. \A j \in Live : Earned(found[j], told'[j].severity)
      BY <2>3, EarnedRises DEF EarnedInv, Live
    <3>3. QED
      BY <2>9, <3>1, <3>2 DEF EarnedInv
  <2>11. \A k \in Slots : \A j \in Ids :
            k \in beaten[j] \/ Earned(late[k][j], told'[j].severity)
    <3>1. ASSUME NEW k \in Slots, NEW j \in Ids, Earned(late[k][j], told[j].severity)
          PROVE  Earned(late[k][j], told'[j].severity)
      <4>1. late[k][j] \in Row
        BY DEF TypeOK
      <4>2. SeverityOrder[late[k][j].notified] \in Nat
        BY <1>o, <4>1 DEF Row
      <4>3. QED
        BY <2>3, <3>1, <4>2, EarnedRises
    <3>2. QED
      BY <3>1 DEF EarnedInv
  <2>12. QED
    BY <2>1, <2>4, <2>5, <2>10, <2>11 DEF EarnedInv
<1>3. ASSUME CountMisses PROVE EarnedInv'
  BY <1>3 DEF CountMisses, EarnedInv, Earned, Live, tableVars
<1>4. ASSUME TickEnd PROVE EarnedInv'
  <2>1. /\ told' = told /\ pc' = "idle"
        /\ \A i \in Ids : store'[i] = store[i] \/ (i \in Live /\ store'[i] = found[i])
    BY <1>4 DEF TickEnd, Land, Drop, Abandon, TypeOK
  <2>2. Live' = {}
    BY <1>4 DEF TickEnd, Live, NoRow
  <2>3. ASSUME NEW k \in Slots, NEW i \in Ids
        PROVE  /\ late'[k][i].status \in {"", "open"}
               /\ k \in beaten'[i] \/ Earned(late'[k][i], told[i].severity)
    <3>2. CASE Land(Live, "engine", found) /\ late' = late
      BY <3>2, WriterAssumption DEF Land, EarnedInv, TypeOK
    <3>3. CASE Drop(Live, "engine")
      BY <3>3, WriterAssumption DEF Drop, EarnedInv, TypeOK
    <3>4. ASSUME NEW l \in Slots, Abandon(Live, "engine", found, l)
          PROVE  /\ late'[k][i].status \in {"", "open"}
                 /\ k \in beaten'[i] \/ Earned(late'[k][i], told[i].severity)
      <4>1. CASE k = l
        <5>1. late'[k][i] = IF i \in Live THEN found[i] ELSE NoRow
          BY <3>4, <4>1, BatchFrame
        <5>2. NoRow.status = "" /\ Earned(NoRow, told[i].severity)
          BY DEF NoRow, Earned
        <5>3. i \in Live => found[i].status = "open" /\ Earned(found[i], told[i].severity)
          BY DEF EarnedInv
        <5>4. QED
          BY <5>1, <5>2, <5>3
      <4>2. CASE k # l
        BY <3>4, <4>2, BatchFrame DEF EarnedInv
      <4>3. QED
        BY <4>1, <4>2
    <3>5. QED
      BY <1>4, <3>2, <3>3, <3>4 DEF TickEnd
  <2>4. QED
    BY <2>1, <2>2, <2>3 DEF EarnedInv, Earned, Decisions
<1>5. ASSUME NEW i \in Ids, ResolveRead(i) PROVE EarnedInv'
  BY <1>5, ResolveFrame DEF EarnedInv, Earned
<1>6. ASSUME StatusStamp("engine") PROVE EarnedInv'
  BY <1>6, StampFrame DEF EarnedInv, Earned, tickVars, historyVars
<1>7. ASSUME StatusWrite("engine") PROVE EarnedInv'
  <2> DEFINE i == rmw["engine"].id
  <2>1. /\ pc = "close" /\ UNCHANGED <<pc, found, existing>> /\ Live' = Live
        /\ i \in Ids \ Live
        /\ \A j \in Ids \ {i} : store'[j] = store[j]
    BY <1>7, WriteFrame
  <2>2. \/ store' = store /\ told' = told
        \/ store'[i].status = "resolved" /\ told' = [told EXCEPT ![i] = NotTold]
    BY <1>7, WriteFrame
  <2>3. \A j \in Ids \ {i} : told'[j] = told[j]
    BY <2>2 DEF TypeOK
  <2>4. \/ store'[i] = store[i] /\ told'[i] = told[i]
        \/ store'[i].status = "resolved"
    BY <2>2
  <2>5. \A j \in Ids : \/ store'[j] = store[j] /\ told'[j] = told[j]
                       \/ store'[j].status = "resolved"
    BY <2>1, <2>3, <2>4
  <2>6. \A j \in Ids : store'[j].status = "resolved" =>
            /\ store'[j].status # ""
            /\ store'[j].status \notin Decisions
            /\ Earned(store'[j], told'[j].severity)
    BY DEF Earned, Decisions
  <2>7. \A j \in Live : told'[j] = told[j] /\ j # i
    BY <2>1, <2>3 DEF Live
  <2>8. ASSUME NEW k \in Slots, NEW j \in Ids
        PROVE  k \in beaten'[j] \/ Earned(late[k][j], told'[j].severity)
    <3>1. k # "engine" /\ k \in Hands
      BY WriterAssumption DEF Hands
    <3>2. k \in beaten[j] => k \in beaten'[j]
      BY <1>7, <3>1 DEF StatusWrite, Land
    <3>3. CASE j # i
      BY <2>3, <3>1, <3>2, <3>3 DEF EarnedInv
    <3>4. CASE j = i
      <4>1. \/ late[k][i].status = ""
            \/ k \in beaten[i]
            \/ <<k, "engine">> \in earlier[i]
        BY <1>7 DEF StatusWrite, Overtaken
      <4>2. CASE late[k][i].status = ""
        BY <3>4, <4>2 DEF Earned
      <4>3. CASE late[k][i].status # ""
        <5>1. k \in beaten'[i]
          BY <1>7, <2>1, <3>1, <4>1, <4>3 DEF StatusWrite, Land
        <5>2. QED
          BY <3>4, <5>1
      <4>4. QED
        BY <4>2, <4>3
    <3>5. QED
      BY <3>3, <3>4
  <2>9. late' = late
    BY <1>7, WriteFrame
  <2>10. /\ \A j \in Ids : store'[j].status = "" => store'[j].notified = "none"
         /\ \A j \in Ids : store'[j].status \notin Decisions
         /\ \A j \in Ids : Earned(store'[j], told'[j].severity)
    BY <2>5, <2>6 DEF EarnedInv
  <2>11. \A j \in Live' : found'[j].status = "open" /\ Earned(found'[j], told'[j].severity)
    BY <2>1, <2>7 DEF EarnedInv
  <2>12. QED
    BY <2>1, <2>8, <2>9, <2>10, <2>11 DEF EarnedInv
<1>8. ASSUME StatusFail("engine") PROVE EarnedInv'
  <2>1. \A k \in Slots : \A i \in Ids : k \in beaten[i] => k \in beaten'[i]
    <3>1. \A k \in Slots : k # "engine"
      BY WriterAssumption
    <3>2. CASE rmw["engine"].step = "stamped"
      BY <1>8, <3>1, <3>2 DEF StatusFail, Drop
    <3>3. CASE rmw["engine"].step # "stamped"
      BY <1>8, <3>3 DEF StatusFail, tableVars
    <3>4. QED
      BY <3>2, <3>3
  <2>2. QED
    BY <1>8, <2>1, FailFrame DEF EarnedInv, Earned, tickVars, historyVars
<1>9. ASSUME Restart PROVE EarnedInv'
  <2>1. /\ UNCHANGED <<store, late, told>> /\ pc' = "idle" /\ Live' = {}
    BY <1>9 DEF Restart, Live, NoRow
  <2>2. \A k \in Slots : \A i \in Ids : k \in beaten[i] => k \in beaten'[i]
    BY <1>9 DEF Restart
  <2>3. QED
    BY <2>1, <2>2 DEF EarnedInv, Earned
<1>12. ASSUME NEW k \in Slots, LateLands(k) PROVE EarnedInv'
  <2>1. \A i \in Ids : late[k][i].status # "resolved"
    BY DEF EarnedInv
  <2>2. \A i \in Ids : told'[i] = told[i]
    BY <1>12, <2>1 DEF LateLands
  <2>3. ASSUME NEW i \in Ids
        PROVE  \/ store'[i] = store[i]
               \/ store'[i].status = "open" /\ Earned(store'[i], told[i].severity)
    <3>1. /\ late[k][i].status \in {"", "open"}
          /\ k \in beaten[i] \/ Earned(late[k][i], told[i].severity)
      BY DEF EarnedInv
    <3>2. \/ store'[i] = store[i]
          \/ late[k][i].status # "" /\ k \notin beaten[i] /\ store'[i] = late[k][i]
      BY <1>12, LateFrame
    <3>3. QED
      BY <3>1, <3>2
  <2>4. ASSUME NEW l \in Slots, NEW i \in Ids
        PROVE  /\ late'[l][i].status \in {"", "open"}
               /\ l \in beaten'[i] \/ Earned(late'[l][i], told[i].severity)
    <3>1. CASE l = k
      <4>1. late'[l][i] = NoRow
        BY <1>12, <3>1, LateFrame
      <4>2. NoRow.status = "" /\ Earned(NoRow, told[i].severity)
        BY DEF NoRow, Earned
      <4>3. QED
        BY <4>1, <4>2
    <3>2. CASE l # k
      <4>1. /\ late'[l][i] = late[l][i]
            /\ l \in beaten[i] => l \in beaten'[i]
        BY <1>12, <3>2, LateFrame
      <4>2. /\ late[l][i].status \in {"", "open"}
            /\ l \in beaten[i] \/ Earned(late[l][i], told[i].severity)
        BY DEF EarnedInv
      <4>3. QED
        BY <4>1, <4>2
    <3>3. QED
      BY <3>1, <3>2
  <2>6. Live \subseteq Ids
    BY DEF Live
  <2>7. UNCHANGED <<pc, existing, found>> /\ Live' = Live
    BY <1>12, LateFrame DEF tickVars
  <2>8. QED
    BY <2>2, <2>3, <2>4, <2>6, <2>7 DEF EarnedInv, Decisions
<1>13. ~StatusAbandon("engine")
  BY DEF StatusAbandon
<1>10. CASE UNCHANGED vars
  BY <1>10 DEF vars, tableVars, tickVars, historyVars, EarnedInv, Earned, Live
<1>11. QED
  BY <1>1, <1>2, <1>3, <1>4, <1>5, <1>6, <1>7, <1>8, <1>9, <1>10, <1>12, <1>13, EngineOnly

\* No new write is given up while the engine's resolution is stamped.
LEMMA OvertakenStep ==
    ASSUME Operators = {}, "latestatus" \notin Faults, TypeOK, Phases, Overtaken, [Next]_vars
    PROVE  Overtaken'
<1> DEFINE i == rmw["engine"].id
<1>e. "engine" \in Writers
  BY DEF Writers
<1>1. CASE rmw'["engine"].step # "stamped"
  BY <1>1 DEF Overtaken
<1>2. CASE StatusStamp("engine")
  <2>1. i \in Ids /\ rmw'["engine"].id = i /\ late' = late /\ beaten' = beaten
    BY <1>2, StampFrame
  <2>2. earlier'[i] = earlier[i] \cup (InFlight(i) \X {"engine"})
    BY <1>2, <2>1 DEF StatusStamp, Stamp, TypeOK
  <2>3. \A k \in Slots : late[k][i].status # "" => k \in InFlight(i)
    BY <2>1 DEF InFlight, Pending
  <2>4. QED
    BY <2>1, <2>2, <2>3 DEF Overtaken
<1>3. ASSUME NEW k \in Slots, LateLands(k) PROVE Overtaken'
  <2>1. rmw' = rmw /\ k # "engine"
    BY <1>3, LateFrame, WriterAssumption
  <2>2. ASSUME rmw["engine"].step = "stamped", NEW l \in Slots, late'[l][i].status # ""
        PROVE  l \in beaten'[i] \/ <<l, "engine">> \in earlier'[i]
    <3>0. i \in Ids
      <4>1. rmw["engine"] \in [step : {"read", "stamped"}, id : Ids, row : Row]
        <5>1. rmw["engine"].step = "stamped"
          BY <2>2
        <5>2. rmw["engine"] \in {Idle} \cup [step : {"read", "stamped"}, id : Ids, row : Row]
          BY <1>e DEF TypeOK
        <5>3. QED
          BY <5>1, <5>2 DEF Idle
      <4>2. QED
        BY <4>1
    <3>1. l # k /\ late[l][i].status # "" /\ i \in Ids
      <4>1. l = k => late'[l][i] = NoRow
        BY <1>3, <3>0, LateFrame
      <4>2. l # k => late'[l][i] = late[l][i]
        BY <1>3, LateFrame
      <4>3. NoRow.status = ""
        BY DEF NoRow
      <4>4. QED
        BY <2>2, <3>0, <4>1, <4>2, <4>3
    <3>2. l \in beaten[i] \/ <<l, "engine">> \in earlier[i]
      BY <2>2, <3>1 DEF Overtaken
    <3>3. l \in beaten[i] => l \in beaten'[i]
      BY <1>3, <3>1, LateFrame
    <3>4. <<l, "engine">> \in earlier[i] => <<l, "engine">> \in earlier'[i]
      BY <1>3, <2>1, <3>1 DEF LateLands, Land, Without
    <3>5. QED
      BY <3>2, <3>3, <3>4
  <2>3. QED
    BY <2>1, <2>2 DEF Overtaken
<1>4. CASE UNCHANGED vars
  BY <1>4 DEF vars, tableVars, Overtaken
<1>5. CASE TickBegin \/ (\E s \in Services : Detect(s)) \/ CountMisses \/ TickEnd
  BY <1>1, <1>5 DEF TickBegin, Detect, CountMisses, TickEnd, Phases
<1>6. ASSUME NEW j \in Ids, ResolveRead(j) PROVE Overtaken'
  BY <1>1, <1>6, ResolveFrame
<1>7. CASE StatusWrite("engine")
  BY <1>1, <1>7, WriteFrame
<1>8. CASE StatusFail("engine")
  BY <1>1, <1>8, FailFrame
<1>9. CASE Restart
  BY <1>1, <1>9, <1>e DEF Restart, Idle
<1>10. ~StatusAbandon("engine")
  BY DEF StatusAbandon
<1>11. QED
  BY <1>2, <1>3, <1>4, <1>5, <1>6, <1>7, <1>8, <1>9, <1>10, EngineOnly

\* With nobody changing statuses and no resolution executed after it was given up,
\* whatever else fails or comes late, an open row never claims a page that was not
\* delivered since the correlation was last closed.
THEOREM NotificationEarned ==
    ASSUME Operators = {}, "latestatus" \notin Faults
    PROVE  Spec => []NotifiedIsEarned
<1>1. ASSUME Init PROVE EarnedInv /\ Overtaken
  BY <1>1 DEF Init, EarnedInv, Overtaken, Earned, Live, NoRow, Decisions, Writers, Idle
<1>2. TypeOK /\ Phases /\ EarnedInv /\ Overtaken /\ [Next]_vars => EarnedInv' /\ Overtaken'
  BY EarnedStep, OvertakenStep
<1>3. EarnedInv => NotifiedIsEarned
  BY DEF EarnedInv, Earned, NotifiedIsEarned
<1>4. QED
  BY <1>1, <1>2, <1>3, PhasesHold, PTL DEF Spec

(***************************************************************************)
(* Once per service.                                                       *)
(***************************************************************************)

\* A diagnosis pages only what is more than any correlation of its service was
\* paged.
LEMMA DetectOnce ==
    ASSUME TypeOK, Phases, OnceInv, NEW s \in Services, Detect(s)
    PROVE  LET i == <<s, signals[s].kind>>
           IN  /\ i \in Ids \ Live
               /\ ~told'[i].repeated
               /\ found'[i].status = "open"
               /\ Recorded(found'[i], told'[i].severity)
               /\ \A j \in Ids \ {i} : found'[j] = found[j] /\ told'[j] = told[j]
               /\ \A r \in Services \ {s} : pagedFor'[r] = pagedFor[r]
<1> DEFINE i == <<s, signals[s].kind>>
           sev == signals[s].severity
<1>1. i \in Ids /\ i[1] = s /\ sev \in Severities /\ sev # "none"
  BY VerdictAssumption DEF Detect, TypeOK, Ids, Severities
<1>2. /\ existing = store /\ i \notin Live
      /\ store[i].status = "open" => SeverityOrder[pagedFor[s]] >= SeverityOrder[store[i].notified]
  BY <1>1 DEF Detect, OnceInv
<1>3. StatusForDetection(store[i].status) = "open"
  BY <1>1 DEF OnceInv, StatusForDetection, Decisions
<1>4. PICK delivered \in BOOLEAN :
          /\ delivered => ShouldNotify("open", sev, pagedFor[s])
          /\ found' = [found EXCEPT ![i] =
                [status |-> "open",
                 notified |-> IF delivered THEN sev ELSE Remembered(store[i])]]
          /\ pagedFor' = IF delivered THEN [pagedFor EXCEPT ![s] = sev] ELSE pagedFor
          /\ told' = IF delivered THEN [told EXCEPT ![i] = Tell(i, sev)] ELSE told
  BY <1>2, <1>3 DEF Detect
<1>5. /\ told[i] \in [severity : Severities \cup {"none"}, repeated : BOOLEAN]
      /\ store[i] \in Row
      /\ pagedFor[s] \in Severities \cup {"none"}
  BY <1>1 DEF TypeOK
<1>6. ~told[i].repeated /\ Recorded(store[i], told[i].severity)
  BY <1>1, <1>2 DEF OnceInv
<1>7. /\ found'[i] = [status |-> "open",
                      notified |-> IF delivered THEN sev ELSE Remembered(store[i])]
      /\ \A j \in Ids \ {i} : found'[j] = found[j] /\ told'[j] = told[j]
      /\ \A r \in Services \ {s} : pagedFor'[r] = pagedFor[r]
  BY <1>1, <1>4 DEF TypeOK
<1>8. CASE delivered
  <2>1. told[i].severity \in {"none", "warning", "critical"}
        /\ store[i].notified \in {"none", "warning", "critical"}
        /\ pagedFor[s] \in {"none", "warning", "critical"}
        /\ sev \in {"warning", "critical"}
    BY <1>1, <1>5 DEF Row, Severities
  <2>2. pagedFor[s] = "none" \/ SeverityOrder[sev] > SeverityOrder[pagedFor[s]]
    BY <1>4, <1>8 DEF ShouldNotify
  <2>3. ASSUME NEW j \in Ids, j[1] = s
        PROVE  /\ told[j].severity \in {"none", "warning", "critical"}
               /\ SeverityOrder[sev] > SeverityOrder[told[j].severity]
    <3>1. told[j].severity \in {"none", "warning", "critical"}
      BY DEF TypeOK, Severities
    <3>2. j \notin Live /\ Recorded(store[j], told[j].severity)
      BY <2>3 DEF Detect, OnceInv
    <3>3. CASE store[j].status = "open"
      <4>1. told[j].severity = store[j].notified
        BY <3>2, <3>3 DEF Recorded
      <4>2. SeverityOrder[pagedFor[s]] >= SeverityOrder[told[j].severity]
        BY <2>3, <3>3, <4>1 DEF Detect, OnceInv
      <4>3. QED
        BY <2>1, <2>2, <3>1, <4>2, SeverityValues
    <3>4. CASE store[j].status # "open"
      <4>1. told[j].severity = "none"
        BY <3>2, <3>4 DEF Recorded
      <4>2. QED
        BY <2>1, <3>1, <4>1, SeverityValues
    <3>5. QED
      BY <3>3, <3>4
  <2>4. ~Heard(s, sev)
    <3>1. \A j \in Ids : j[1] = s => ~(SeverityOrder[told[j].severity] >= SeverityOrder[sev])
      BY <2>1, <2>3, SeverityValues
    <3>2. QED
      BY <3>1 DEF Heard
  <2>5. told'[i] = Tell(i, sev)
    BY <1>1, <1>4, <1>8 DEF TypeOK
  <2>6. Tell(i, sev) = [severity |-> sev, repeated |-> FALSE]
    BY <1>1, <1>6, <2>3, <2>4 DEF Tell
  <2>7. told'[i].severity = sev /\ ~told'[i].repeated
    BY <2>5, <2>6
  <2>8. QED
    BY <1>1, <1>2, <1>6, <1>7, <1>8, <2>7 DEF Recorded
<1>9. CASE ~delivered
  <2>1. told'[i] = told[i]
    BY <1>4, <1>9
  <2>2. Remembered(store[i]) = told[i].severity
    <3>1. store[i].status \in {"", "open", "resolved"}
          /\ (store[i].status = "" => store[i].notified = "none")
      BY <1>1 DEF OnceInv
    <3>2. QED
      BY <1>6, <3>1 DEF Remembered, Recorded
  <2>3. QED
    BY <1>1, <1>2, <1>6, <1>7, <1>9, <2>1, <2>2 DEF Recorded
<1>10. QED
  BY <1>8, <1>9

LEMMA OnceStep ==
    ASSUME Operators = {},
           {"read", "insert", "lateinsert", "latestatus", "restart"} \cap Faults = {},
           TypeOK, Phases, OnceInv, [Next]_vars
    PROVE  OnceInv'
<1>1. ASSUME TickBegin PROVE OnceInv'
  <2>1. /\ UNCHANGED <<store, earlier, beaten, late, told, found>>
        /\ existing' = store /\ pc = "idle"
        /\ pagedFor' = [s \in Services |-> PagedForService(store, s)]
        /\ Live' = Live
    BY <1>1 DEF TickBegin, tableVars, Live
  <2>2. Live = {}
    BY <2>1 DEF Phases
  <2>3. ASSUME NEW i \in Ids, store[i].status = "open"
        PROVE  SeverityOrder[pagedFor'[i[1]]] >= SeverityOrder[store[i].notified]
    <3>1. i[1] \in Services
      BY DEF Ids
    <3>2. pagedFor'[i[1]] = PagedForService(store, i[1])
      BY <2>1, <3>1
    <3>3. QED
      BY <2>3, <3>2, PagedForServiceBound DEF TypeOK
  <2>4. QED
    BY <2>1, <2>2, <2>3 DEF OnceInv
<1>2. ASSUME NEW s \in Services, Detect(s) PROVE OnceInv'
  <2> DEFINE i == <<s, signals[s].kind>>
  <2>1. /\ UNCHANGED <<store, beaten, late, existing>>
        /\ pc = "detect" /\ pc' = "detect" /\ todo' = todo \ {s}
        /\ earlier' = [earlier EXCEPT ![i] = @ \cup (InFlight(i) \X {"engine"})]
    BY <1>2 DEF Detect, Stamp
  <2>2. /\ i \in Ids \ Live
        /\ ~told'[i].repeated
        /\ found'[i].status = "open"
        /\ Recorded(found'[i], told'[i].severity)
        /\ \A j \in Ids \ {i} : found'[j] = found[j] /\ told'[j] = told[j]
        /\ \A r \in Services \ {s} : pagedFor'[r] = pagedFor[r]
    BY <1>2, DetectOnce
  <2>3. Live' = Live \cup {i}
    BY <2>2 DEF Live
  <2>4. InFlight(i) = {}
    <3>1. rmw["engine"].step = "idle"
      BY <2>1 DEF Phases
    <3>2. \A k \in Slots : i \notin Pending(k)
      BY <2>2 DEF Pending, OnceInv
    <3>3. QED
      BY <2>2, <3>1, <3>2 DEF InFlight, Writers
  <2>5. earlier' = earlier
    BY <2>1, <2>2, <2>4 DEF TypeOK
  <2>6. \A j \in Ids : j[1] \in todo' => j[1] \in todo /\ j[1] \in Services \ {s} /\ j # i
    BY <2>1 DEF TypeOK
  <2>7. \A j \in Ids : ~told'[j].repeated
    BY <2>2 DEF OnceInv
  <2>8. \A j \in Ids \ Live' : Recorded(store'[j], told'[j].severity)
    BY <2>1, <2>2, <2>3 DEF OnceInv
  <2>9. \A j \in Live' : found'[j].status = "open" /\ Recorded(found'[j], told'[j].severity)
    <3>1. \A j \in Live : j \in Ids \ {i}
      BY <2>2 DEF Live
    <3>2. QED
      BY <2>2, <2>3, <3>1 DEF OnceInv
  <2>10. \A j \in Ids : j[1] \in todo' =>
            /\ j \notin Live'
            /\ store'[j].status = "open" =>
                  SeverityOrder[pagedFor'[j[1]]] >= SeverityOrder[store'[j].notified]
    BY <2>1, <2>2, <2>3, <2>6 DEF OnceInv
  <2>11. QED
    BY <2>1, <2>5, <2>7, <2>8, <2>9, <2>10 DEF OnceInv
<1>3. ASSUME CountMisses PROVE OnceInv'
  BY <1>3 DEF CountMisses, OnceInv, Live, tableVars
<1>4. ASSUME TickEnd PROVE OnceInv'
  <2>1. told' = told /\ pc' = "idle" /\ Land(Live, "engine", found) /\ late' = late
    BY <1>4 DEF TickEnd
  <2>2. Live' = {}
    BY <1>4 DEF TickEnd, Live, NoRow
  <2>3. Live \subseteq Ids
    BY DEF Live
  <2>4. \A i \in Ids : store'[i] = IF i \in Live THEN found[i] ELSE store[i]
    BY <2>1 DEF Land, OnceInv
  <2>5. \A i \in Ids : earlier'[i] = {} /\ beaten'[i] = {}
    BY <2>1 DEF Land, OnceInv, Without
  <2>6. \A i \in Live : found[i].status = "open" /\ Recorded(found[i], told[i].severity)
    BY DEF OnceInv
  <2>7. \A i \in Ids : /\ store'[i].status \in {"", "open", "resolved"}
                       /\ store'[i].status = "" => store'[i].notified = "none"
                       /\ Recorded(store'[i], told'[i].severity)
    BY <2>1, <2>4, <2>6 DEF OnceInv
  <2>8. QED
    BY <2>1, <2>2, <2>5, <2>7 DEF OnceInv
<1>5. ASSUME NEW i \in Ids, ResolveRead(i) PROVE OnceInv'
  <2>1. /\ UNCHANGED <<store, earlier, beaten, late, found, told>>
        /\ pc' = "close" /\ Live' = Live
    BY <1>5, ResolveFrame
  <2>2. QED
    BY <2>1 DEF OnceInv
<1>6. ASSUME StatusStamp("engine") PROVE OnceInv'
  <2> DEFINE i == rmw["engine"].id
  <2>1. /\ rmw["engine"].step = "read" /\ i \in Ids
        /\ UNCHANGED <<store, beaten, late, tickVars, historyVars>>
        /\ Live' = Live
    BY <1>6, StampFrame
  <2>2. i \notin Live
    BY <2>1 DEF Phases
  <2>3. InFlight(i) = {}
    BY <2>1, <2>2 DEF InFlight, Pending, Writers, OnceInv
  <2>4. earlier' = [earlier EXCEPT ![i] = @ \cup (InFlight(i) \X {"engine"})]
    BY <1>6 DEF StatusStamp, Stamp
  <2>5. earlier' = earlier
    BY <2>1, <2>3, <2>4 DEF TypeOK
  <2>6. QED
    BY <2>1, <2>5 DEF OnceInv, tickVars, historyVars
<1>7. ASSUME StatusWrite("engine") PROVE OnceInv'
  <2> DEFINE i == rmw["engine"].id
  <2>1. /\ pc = "close" /\ i \in Ids \ Live
        /\ UNCHANGED <<late, pc, signals, todo, existing, pagedFor, found>>
        /\ Live' = Live
        /\ \A j \in Ids \ {i} : store'[j] = store[j]
        /\ store'[i].status = "resolved"
        /\ told' = [told EXCEPT ![i] = NotTold]
    BY <1>7, WriteFrame DEF OnceInv
  <2>2. \A j \in Ids : earlier'[j] = {} /\ beaten'[j] = {}
    BY <1>7 DEF StatusWrite, Land, OnceInv, Without
  <2>3. told'[i] = NotTold /\ \A j \in Ids \ {i} : told'[j] = told[j]
    BY <2>1 DEF TypeOK
  <2>4. Recorded(store'[i], told'[i].severity) /\ ~told'[i].repeated
    BY <2>1, <2>3 DEF Recorded, NotTold
  <2>5. \A j \in Live : j \in Ids \ {i}
    BY <2>1 DEF Live
  <2>6. \A j \in Ids : ~told'[j].repeated
    <3>1. \A j \in Ids \ {i} : ~told'[j].repeated
      BY <2>3 DEF OnceInv
    <3>2. QED
      BY <2>1, <2>4, <3>1
  <2>7. \A j \in Ids : /\ store'[j].status \in {"", "open", "resolved"}
                       /\ store'[j].status = "" => store'[j].notified = "none"
    BY <2>1 DEF OnceInv
  <2>8. \A j \in Ids \ Live : Recorded(store'[j], told'[j].severity)
    BY <2>1, <2>3, <2>4 DEF OnceInv
  <2>9. \A j \in Live : found[j].status = "open" /\ Recorded(found[j], told'[j].severity)
    BY <2>3, <2>5 DEF OnceInv
  <2>10. QED
    BY <2>1, <2>2, <2>6, <2>7, <2>8, <2>9 DEF OnceInv
<1>8. ASSUME StatusFail("engine") PROVE OnceInv'
  <2>1. \A j \in Ids : earlier'[j] = {} /\ beaten'[j] = {}
    BY <1>8 DEF StatusFail, Drop, Without, OnceInv, tableVars
  <2>2. QED
    BY <1>8, <2>1, FailFrame DEF OnceInv, tickVars, historyVars
<1>9. CASE UNCHANGED vars
  BY <1>9 DEF vars, tableVars, tickVars, historyVars, OnceInv, Live
<1>10. ~Restart /\ ~StatusAbandon("engine") /\ \A k \in Slots : ~LateLands(k)
  BY DEF Restart, StatusAbandon, LateLands, Pending, OnceInv
<1>11. QED
  BY <1>1, <1>2, <1>3, <1>4, <1>5, <1>6, <1>7, <1>8, <1>9, <1>10, EngineOnly

\* With nobody changing statuses, the statuses read, the detections written, the
\* process up and nothing executed after it was given up, a service is paged
\* again only when it escalates, or after the correlation that carried the
\* earlier page was closed, whichever pages and resolutions fail.
THEOREM PagedOncePerService ==
    ASSUME Operators = {},
           {"read", "insert", "lateinsert", "latestatus", "restart"} \cap Faults = {}
    PROVE  Spec => []OncePerService
<1>1. ASSUME Init PROVE OnceInv
  BY <1>1 DEF Init, OnceInv, Recorded, Live, NoRow, NotTold
<1>2. TypeOK /\ Phases /\ OnceInv /\ [Next]_vars => OnceInv'
  BY OnceStep
<1>3. OnceInv => OncePerService
  BY DEF OnceInv, OncePerService
<1>4. QED
  BY <1>1, <1>2, <1>3, PhasesHold, PTL DEF Spec
=============================================================================
