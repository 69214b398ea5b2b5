------------------------ MODULE OnboardingFlow_proofs ------------------------
(***************************************************************************)
(* What SloStore and OnboardingFlow guarantee for every set of readers and *)
(* targets, checked by the TLA+ proof system.                              *)
(***************************************************************************)
EXTENDS OnboardingFlow, TLAPS

(***************************************************************************)
(* Types.                                                                  *)
(***************************************************************************)

LEMMA ContentTypes ==
    /\ Shipped \in Thresholds /\ Emptied \in Thresholds
    /\ Forgotten \in Nat
BY TargetsAssumption DEF Shipped, Emptied, Thresholds, Forgotten

LEMMA InitType == Init => TypeOK
<1> SUFFICES ASSUME Init PROVE TypeOK
  OBVIOUS
<1>1. StoreTypeOK
  BY ContentTypes, TargetsAssumption, WritesAssumption
  DEF Init, StoreInit, StoreTypeOK, NoUpsert, IdleReader, Forgotten
<1>2. signal \in BOOLEAN
  BY DEF Init
<1>3. polls \in [Polls -> [next : 0..3, seen : SUBSET {"collector", "dcgm"}]]
  <2>1. NoPoll \in [next : 0..3, seen : SUBSET {"collector", "dcgm"}]
    BY DEF NoPoll
  <2>2. QED
    BY <2>1 DEF Init
<1>4. registered \in BOOLEAN /\ arriving \in Arrivals /\ call \in {"none", "connect", "save"}
  BY Zenon DEF Init, Arrivals
<1>5. step \in Name..Left /\ failures \in 0..MaxFailures
  BY FailuresAssumption DEF Init, Name, Left
<1>6. QED
  BY <1>1, <1>2, <1>3, <1>4, <1>5 DEF TypeOK

LEMMA ReadyType ==
    Ready \in [at : {"idle", "changed", "loaded", "answer"},
               stat : 0..MaxWrites, got : Thresholds]
BY ContentTypes, WritesAssumption DEF Ready, IdleReader, Forgotten

\* The readers and the writers keep the types of the store.
LEMMA ReaderType ==
    ASSUME StoreTypeOK, NEW r \in Readers, ReaderStep(r)
    PROVE  StoreTypeOK'
<1>1. CASE Stat(r)
  <2>1. CASE reader' = [reader EXCEPT ![r] = Ready]
    <3>1. reader' \in [Readers -> [at : {"idle", "changed", "loaded", "answer"},
                                   stat : 0..MaxWrites, got : Thresholds]]
      BY <2>1, ReadyType DEF StoreTypeOK
    <3>2. UNCHANGED <<file, memory, upsert>>
      BY <1>1, Zenon DEF Stat
    <3>3. QED
      BY <3>1, <3>2 DEF StoreTypeOK
  <2>2. CASE reader' = [reader EXCEPT ![r].at = "changed", ![r].stat = file.mtime]
    <3>1. file.mtime \in 0..MaxWrites
      BY WritesAssumption DEF StoreTypeOK
    <3>2. [reader[r] EXCEPT !.at = "changed", !.stat = file.mtime]
             \in [at : {"idle", "changed", "loaded", "answer"},
                  stat : 0..MaxWrites, got : Thresholds]
      BY <3>1 DEF StoreTypeOK
    <3>3. QED
      BY <1>1, <2>2, <3>2 DEF Stat, StoreTypeOK
  <2>3. QED
    BY <1>1, <2>1, <2>2 DEF Stat
<1>2. CASE Read(r)
  <2>1. CASE file.ok
    <3>1. file.says \in Thresholds
      BY DEF StoreTypeOK
    <3>2. [reader[r] EXCEPT !.at = "loaded", !.got = file.says]
             \in [at : {"idle", "changed", "loaded", "answer"},
                  stat : 0..MaxWrites, got : Thresholds]
      BY <3>1 DEF StoreTypeOK
    <3>3. QED
      BY <1>2, <2>1, <3>2 DEF Read, StoreTypeOK
  <2>2. CASE ~file.ok
    BY <1>2, <2>2, ReadyType DEF Read, StoreTypeOK
  <2>3. QED
    BY <2>1, <2>2
<1>3. CASE Install(r)
  BY <1>3, ReadyType DEF Install, StoreTypeOK
<1>4. CASE Answer(r)
  BY <1>4, ContentTypes, WritesAssumption, TargetsAssumption
  DEF Answer, StoreTypeOK, IdleReader, Forgotten
<1>5. QED
  BY <1>1, <1>2, <1>3, <1>4 DEF ReaderStep

LEMMA WrittenType ==
    ASSUME StoreTypeOK, file.mtime < MaxWrites,
           NEW ok \in BOOLEAN, NEW content \in Thresholds, Written(ok, content)
    PROVE  file' \in [ok : BOOLEAN, says : Thresholds, mtime : 1..MaxWrites, alone : BOOLEAN]
<1>1. PICK tick \in 0..1 :
         file' = [ok |-> ok, says |-> content, mtime |-> file.mtime + tick,
                  alone |-> tick = 1]
  BY DEF Written
<1>2. file.mtime + tick \in 1..MaxWrites
  BY WritesAssumption DEF StoreTypeOK
<1>3. QED
  BY <1>1, <1>2

LEMMA WriterType ==
    ASSUME StoreTypeOK,
           \/ \E t \in Targets : UpsertBegin(t)
           \/ UpsertRename \/ UpsertEnd \/ UpsertFails \/ HandEdit
    PROVE  StoreTypeOK'
<1>1. ASSUME NEW t \in Targets, UpsertBegin(t) PROVE StoreTypeOK'
  <2>1. Base \in Thresholds
    BY ContentTypes DEF Base, StoreTypeOK
  <2>2. QED
    BY <1>1, <2>1 DEF UpsertBegin, StoreTypeOK
<1>2. CASE UpsertRename
  <2>1. [upsert.base EXCEPT !.fallback = upsert.target] \in Thresholds
    BY DEF StoreTypeOK, Thresholds
  <2>2. file' \in [ok : BOOLEAN, says : Thresholds, mtime : 1..MaxWrites, alone : BOOLEAN]
    BY <1>2, <2>1, WrittenType DEF UpsertRename
  <2>3. upsert' \in [at : {"none", "read", "renamed"}, target : Targets, base : Thresholds]
    BY <1>2, ContentTypes DEF UpsertRename, StoreTypeOK
  <2>4. QED
    BY <1>2, <2>2, <2>3 DEF UpsertRename, StoreTypeOK
<1>3. CASE UpsertEnd
  <2>1. [memory.says EXCEPT !.fallback = upsert.target] \in Thresholds
    BY DEF StoreTypeOK, Thresholds
  <2>2. NoUpsert \in [at : {"none", "read", "renamed"}, target : Targets, base : Thresholds]
    BY ContentTypes, TargetsAssumption DEF NoUpsert
  <2>3. QED
    BY <1>3, <2>1, <2>2, WritesAssumption DEF UpsertEnd, StoreTypeOK, Forgotten
<1>4. CASE UpsertFails
  BY <1>4, ContentTypes, TargetsAssumption DEF UpsertFails, StoreTypeOK, NoUpsert
<1>5. CASE HandEdit
  <2> DEFINE Files == [ok : BOOLEAN, says : Thresholds, mtime : 1..MaxWrites, alone : BOOLEAN]
  <2>1. ASSUME NEW says \in [fallback : Targets, models : {TRUE}], Written(TRUE, says)
        PROVE  file' \in Files
    <3>1. says \in Thresholds
      BY DEF Thresholds
    <3>2. QED
      BY <1>5, <2>1, <3>1, WrittenType DEF HandEdit
  <2>2. ASSUME Written(FALSE, Emptied) PROVE file' \in Files
    BY <1>5, <2>2, ContentTypes, WrittenType DEF HandEdit
  <2>3. file' \in Files
    BY <1>5, <2>1, <2>2 DEF HandEdit
  <2>4. UNCHANGED <<memory, upsert, reader>>
    BY <1>5, Zenon DEF HandEdit
  <2>5. QED
    BY <2>3, <2>4 DEF StoreTypeOK
<1>6. QED
  BY <1>1, <1>2, <1>3, <1>4, <1>5

\* The steps that touch the flow alone.
FlowType ==
    /\ registered \in BOOLEAN
    /\ arriving \in Arrivals
    /\ step \in Name..Left
    /\ call \in {"none", "connect", "save"}
    /\ signal \in BOOLEAN
    /\ polls \in [Polls -> [next : 0..3, seen : SUBSET {"collector", "dcgm"}]]
    /\ failures \in 0..MaxFailures

LEMMA FailingType ==
    ASSUME failures \in 0..MaxFailures, Failing PROVE failures' \in 0..MaxFailures
BY FailuresAssumption DEF Failing

LEMMA PollType ==
    ASSUME FlowType, NEW p \in Polls, PollStep(p)
    PROVE  FlowType'
<1>1. CASE Poll(p)
  BY <1>1 DEF Poll, FlowType, Asked, worldVars
<1>2. ASSUME NEW seen \in SUBSET {"collector", "dcgm"}, Sees(p, seen),
             failures' \in 0..MaxFailures
      PROVE FlowType'
  <2>1. polls[p].next \in 1..2
    BY <1>2 DEF Sees, Asking, Queries
  <2>2. polls' \in [Polls -> [next : 0..3, seen : SUBSET {"collector", "dcgm"}]]
    <3> DEFINE before == polls[p].seen
    <3>1. polls[p] \in [next : 0..3, seen : SUBSET {"collector", "dcgm"}]
      BY DEF FlowType
    <3>2. polls[p].next + 1 \in 0..3
      BY <2>1
    <3>3. before \in SUBSET {"collector", "dcgm"}
      BY <3>1
    <3>4. before \cup seen \in SUBSET {"collector", "dcgm"}
      BY <3>3, Zenon
    <3>5. [next |-> polls[p].next + 1, seen |-> before \cup seen]
             \in [next : 0..3, seen : SUBSET {"collector", "dcgm"}]
      BY <3>2, <3>4, Zenon
    <3>6. polls' = [polls EXCEPT ![p] = [next |-> polls[p].next + 1,
                                         seen |-> before \cup seen]]
      BY <1>2, Zenon DEF Sees
    <3>7. QED
      BY <3>5, <3>6 DEF FlowType
  <2>3. QED
    BY <1>2, <2>2 DEF Sees, FlowType, worldVars
<1>3. CASE Query(p)
  <2>1. polls[p].next \in 1..2
    BY <1>3 DEF Query, Sees, Asking, Queries
  <2>2. Queries[polls[p].next] \in {"collector", "dcgm"}
    BY <2>1 DEF Queries
  <2>3. {Queries[polls[p].next]} \cap arriving \in SUBSET {"collector", "dcgm"}
    BY <2>2
  <2>4. QED
    BY <1>3, <1>2, <2>3 DEF Query, FlowType
<1>4. CASE QueryFails(p)
  BY <1>4, <1>2, FailingType DEF QueryFails, FlowType
<1>5. CASE PollAnswered(p)
  BY <1>5 DEF PollAnswered, HasSignal, FlowType, NoPoll, Name, FirstSignal, Left, worldVars
<1>6. CASE PollFails(p)
  BY <1>6, FailingType DEF PollFails, FlowType, NoPoll, worldVars
<1>7. QED
  BY <1>1, <1>3, <1>4, <1>5, <1>6 DEF PollStep

LEMMA NextType == TypeOK /\ [Next]_vars => TypeOK'
<1> SUFFICES ASSUME TypeOK, [Next]_vars PROVE TypeOK'
  OBVIOUS
<1>0. StoreTypeOK /\ FlowType
  BY DEF TypeOK, FlowType
<1> USE DEF storeVars, worldVars, flowVars
<1>1. CASE Telemetry
  BY <1>1, <1>0 DEF Telemetry, TypeOK, StoreTypeOK, Arrivals
<1>2. CASE Begin
  BY <1>2, <1>0 DEF Begin, TypeOK, StoreTypeOK
<1>3. CASE Connected
  BY <1>3, <1>0 DEF Connected, TypeOK, StoreTypeOK, Name, Collector, Left
<1>4. CASE ConnectFails
  BY <1>4, <1>0, FailingType DEF ConnectFails, TypeOK, StoreTypeOK
<1>5. ASSUME NEW p \in Polls, PollStep(p) PROVE TypeOK'
  <2>1. UNCHANGED storeVars
    BY <1>5 DEF PollStep, Poll, Query, QueryFails, PollAnswered, PollFails, Sees
  <2>2. FlowType'
    BY <1>5, <1>0, PollType
  <2>3. QED
    BY <2>1, <2>2, <1>0 DEF TypeOK, FlowType, StoreTypeOK
<1>6. CASE Continue
  BY <1>6, <1>0 DEF Continue, TypeOK, StoreTypeOK, Name, Target, Left
<1>7. ASSUME NEW t \in Targets, Finish(t) PROVE TypeOK'
  <2>1. StoreTypeOK'
    BY <1>7, <1>0, WriterType DEF Finish
  <2>2. QED
    BY <1>7, <2>1 DEF Finish, TypeOK
<1>8. CASE Saved
  <2>1. StoreTypeOK'
    BY <1>8, <1>0, WriterType DEF Saved
  <2>2. QED
    BY <1>8, <2>1 DEF Saved, TypeOK, Name, Left
<1>9. CASE SaveFails
  <2>1. StoreTypeOK'
    <3>1. UNCHANGED storeVars => StoreTypeOK'
      BY <1>0 DEF StoreTypeOK
    <3>2. QED
      BY <1>9, <1>0, <3>1, WriterType DEF SaveFails
  <2>2. QED
    BY <1>9, <2>1, FailingType DEF SaveFails, TypeOK
<1>10. CASE Open
  <2>1. NoPoll \in [next : 0..3, seen : SUBSET {"collector", "dcgm"}]
    BY DEF NoPoll
  <2>2. polls' \in [Polls -> [next : 0..3, seen : SUBSET {"collector", "dcgm"}]]
    BY <1>10, <2>1 DEF Open
  <2>3. UNCHANGED storeVars /\ StoreTypeOK'
    BY <1>10, <1>0 DEF Open, StoreTypeOK
  <2>4. QED
    <3>1. step' \in Name..Left
      BY <1>10 DEF Open, Name, Left
    <3>2. signal' \in BOOLEAN
      BY <1>10, Zenon DEF Open
    <3>3. UNCHANGED <<registered, arriving, call, failures>>
      BY <1>10 DEF Open
    <3>4. QED
      BY <2>2, <2>3, <3>1, <3>2, <3>3 DEF TypeOK
<1>11. CASE StoreStep
  <2>1. StoreTypeOK'
    BY <1>11, <1>0, WriterType, ReaderType DEF StoreStep
  <2>2. QED
    BY <1>11, <2>1 DEF StoreStep, TypeOK
<1>12. CASE UNCHANGED vars
  BY <1>12, <1>0 DEF vars, TypeOK, StoreTypeOK
<1>13. QED
  BY <1>1, <1>2, <1>3, <1>4, <1>5, <1>6, <1>7, <1>8, <1>9, <1>10, <1>11, <1>12 DEF Next

\* Every variable keeps its type, whatever the readers, targets and polls.
THEOREM TypeCorrect == Spec => []TypeOK
<1>1. QED
  BY InitType, NextType, PTL DEF Spec

(***************************************************************************)
(* The copy in memory.                                                     *)
(***************************************************************************)

\* A modification time that is the file's own stands for what the file says,
\* in memory and in the hands of a reader that has read it; the time a reader
\* took before it read may be older, never newer.
StampsAreTrue ==
    /\ memory.modTime <= file.mtime
    /\ \A r \in Readers :
          reader[r].at \in {"changed", "loaded"} => reader[r].stat <= file.mtime
    /\ \A r \in Readers :
          reader[r].at = "loaded" /\ reader[r].stat = file.mtime /\ file.alone =>
              file.ok /\ reader[r].got = file.says
    /\ ConfirmedIsCurrent

\* The file is written anew: nobody has its new time yet, or it is not alone.
LEMMA NewFile ==
    ASSUME StoreTypeOK, StampsAreTrue, NEW ok, NEW content, Written(ok, content),
           UNCHANGED <<memory, reader>>
    PROVE  StampsAreTrue'
<1>1. file'.mtime = file.mtime + 1 \/ (file'.mtime = file.mtime /\ ~file'.alone)
  <2>1. PICK tick \in IF file.mtime > 1 THEN {0, 1} ELSE {1} :
             file' = [ok |-> ok, says |-> content, mtime |-> file.mtime + tick,
                      alone |-> tick = 1]
    BY DEF Written
  <2>2. file.mtime + 0 = file.mtime
    BY WritesAssumption DEF StoreTypeOK
  <2>3. QED
    BY <2>1, <2>2
<1>2. QED
  BY <1>1, WritesAssumption DEF StampsAreTrue, StoreTypeOK, ConfirmedIsCurrent

LEMMA ReaderStamps ==
    ASSUME StoreTypeOK, StampsAreTrue, NEW r \in Readers, ReaderStep(r)
    PROVE  StampsAreTrue'
<1>1. CASE Stat(r)
  BY <1>1 DEF Stat, Ready, IdleReader, StampsAreTrue, StoreTypeOK, ConfirmedIsCurrent
<1>2. CASE Read(r)
  BY <1>2 DEF Read, Ready, IdleReader, StampsAreTrue, StoreTypeOK, ConfirmedIsCurrent
<1>3. CASE Install(r)
  BY <1>3 DEF Install, Ready, IdleReader, StampsAreTrue, StoreTypeOK, ConfirmedIsCurrent
<1>4. CASE Answer(r)
  BY <1>4 DEF Answer, StampsAreTrue, StoreTypeOK, ConfirmedIsCurrent, IdleReader
<1>5. QED
  BY <1>1, <1>2, <1>3, <1>4 DEF ReaderStep

LEMMA WriterStamps ==
    ASSUME StoreTypeOK, StampsAreTrue,
           \/ \E t \in Targets : UpsertBegin(t)
           \/ UpsertRename \/ UpsertEnd \/ UpsertFails \/ HandEdit
    PROVE  StampsAreTrue'
<1>1. ASSUME NEW t \in Targets, UpsertBegin(t) PROVE StampsAreTrue'
  BY <1>1 DEF UpsertBegin, StampsAreTrue, ConfirmedIsCurrent
<1>2. CASE UpsertRename
  BY <1>2, NewFile DEF UpsertRename
<1>3. CASE UpsertEnd
  BY <1>3, WritesAssumption DEF UpsertEnd, StampsAreTrue, StoreTypeOK, ConfirmedIsCurrent, Forgotten
<1>4. CASE UpsertFails
  BY <1>4 DEF UpsertFails, StampsAreTrue, ConfirmedIsCurrent
<1>5. CASE HandEdit
  BY <1>5, NewFile, Zenon DEF HandEdit
<1>6. QED
  BY <1>1, <1>2, <1>3, <1>4, <1>5

LEMMA NextStamps == TypeOK /\ StampsAreTrue /\ [Next]_vars => StampsAreTrue'
<1> SUFFICES ASSUME TypeOK, StampsAreTrue, [Next]_vars PROVE StampsAreTrue'
  OBVIOUS
<1>1. StoreTypeOK
  BY DEF TypeOK
<1>2. CASE UNCHANGED storeVars
  BY <1>2 DEF storeVars, StampsAreTrue, ConfirmedIsCurrent
<1>3. ASSUME NEW t \in Targets, Finish(t) PROVE StampsAreTrue'
  BY <1>1, <1>3, WriterStamps DEF Finish
<1>4. CASE Saved
  BY <1>1, <1>4, WriterStamps DEF Saved
<1>5. CASE SaveFails
  BY <1>1, <1>2, <1>5, WriterStamps DEF SaveFails
<1>6. CASE StoreStep
  BY <1>1, <1>6, WriterStamps, ReaderStamps DEF StoreStep
<1>7. ASSUME NEW p \in Polls, PollStep(p) PROVE UNCHANGED storeVars
  BY <1>7 DEF PollStep, Poll, Query, QueryFails, PollAnswered, PollFails, Sees
<1>8. Telemetry \/ Begin \/ Connected \/ ConnectFails \/ Continue \/ Open => UNCHANGED storeVars
  BY DEF Telemetry, Begin, Connected, ConnectFails, Continue, Open
<1>9. QED
  BY <1>2, <1>3, <1>4, <1>5, <1>6, <1>7, <1>8 DEF Next, vars

LEMMA InitStamps == Init => StampsAreTrue
BY DEF Init, StoreInit, StampsAreTrue, ConfirmedIsCurrent, IdleReader

\* Whoever finds the modification time unchanged has the file's thresholds in
\* memory: reading without the lock loses no write, for any number of readers,
\* saves and hand edits (slo.go:58-92, :136-192), whatever becomes of files that were
\* written twice in one tick of the clock before.
THEOREM CopyIsCurrent == Spec => []ConfirmedIsCurrent
<1>1. Init => TypeOK /\ StampsAreTrue
  BY InitType, InitStamps
<1>2. (TypeOK /\ StampsAreTrue) /\ [Next]_vars => (TypeOK /\ StampsAreTrue)'
  BY NextType, NextStamps
<1>3. StampsAreTrue => ConfirmedIsCurrent
  BY DEF StampsAreTrue
<1>4. QED
  BY <1>1, <1>2, <1>3, PTL DEF Spec

(***************************************************************************)
(* The flow.                                                               *)
(***************************************************************************)

\* A request is in flight only on the step whose button sent it.
CallsOfTheStep ==
    /\ call = "connect" => step = Name
    /\ call = "save" => step = Target

LEMMA InitCalls == Init => CallsOfTheStep
BY DEF Init, CallsOfTheStep

LEMMA NextCalls == TypeOK /\ CallsOfTheStep /\ [Next]_vars => CallsOfTheStep'
<1> SUFFICES ASSUME TypeOK, CallsOfTheStep, [Next]_vars PROVE CallsOfTheStep'
  OBVIOUS
<1>1. ASSUME UNCHANGED <<call, step>> PROVE CallsOfTheStep'
  BY <1>1 DEF CallsOfTheStep
<1>2. CASE Begin \/ Connected \/ ConnectFails \/ Saved \/ SaveFails \/ Open
  BY <1>2 DEF Begin, Connected, ConnectFails, Saved, SaveFails, Open, CallsOfTheStep
<1>3. ASSUME NEW t \in Targets, Finish(t) PROVE CallsOfTheStep'
  BY <1>3 DEF Finish, CallsOfTheStep
<1>4. CASE Continue
  BY <1>4 DEF Continue, CallsOfTheStep, Name, FirstSignal, Target
<1>5. ASSUME NEW p \in Polls, PollAnswered(p) PROVE CallsOfTheStep'
  BY <1>5 DEF PollAnswered, CallsOfTheStep, Name, Collector, Target
<1>6. ASSUME NEW p \in Polls, Poll(p) \/ Query(p) \/ QueryFails(p) \/ PollFails(p)
      PROVE  UNCHANGED <<call, step>>
  BY <1>6 DEF Poll, Query, QueryFails, PollFails, Sees
<1>7. QED
  BY <1>1, <1>2, <1>3, <1>4, <1>5, <1>6
  DEF Next, vars, PollStep, Telemetry, StoreStep, flowVars

\* No answer, late or not, undoes a step: only opening the flow again does.
THEOREM StepsOnlyForward == Spec => NeverBack
<1>1. ASSUME TypeOK, CallsOfTheStep, [Next]_vars PROVE [step' >= step \/ Open]_vars
  <2>1. ASSUME UNCHANGED step PROVE step' >= step
    BY <1>1, <2>1 DEF TypeOK, Name, Left
  <2>2. CASE Connected
    BY <1>1, <2>2 DEF Connected, CallsOfTheStep, Name, Collector
  <2>3. ASSUME NEW p \in Polls, PollStep(p) PROVE step' >= step
    <3>1. CASE PollAnswered(p)
      BY <1>1, <3>1 DEF PollAnswered, TypeOK, Name, Left, Collector, FirstSignal
    <3>2. CASE Poll(p) \/ Query(p) \/ QueryFails(p) \/ PollFails(p)
      BY <2>1, <3>2 DEF Poll, Query, QueryFails, PollFails, Sees
    <3>3. QED
      BY <2>3, <3>1, <3>2 DEF PollStep
  <2>4. CASE Continue
    BY <1>1, <2>4 DEF Continue, TypeOK, Target, FirstSignal
  <2>5. CASE Saved
    BY <1>1, <2>5 DEF Saved, CallsOfTheStep, Target, Left
  <2>6. QED
    BY <1>1, <2>1, <2>2, <2>3, <2>4, <2>5
    DEF Next, vars, Telemetry, Begin, ConnectFails, Finish, SaveFails, StoreStep,
        flowVars, worldVars
<1>2. Init => TypeOK /\ CallsOfTheStep
  BY InitType, InitCalls
<1>3. (TypeOK /\ CallsOfTheStep) /\ [Next]_vars => (TypeOK /\ CallsOfTheStep)'
  BY NextType, NextCalls
<1>4. QED
  BY <1>1, <1>2, <1>3, PTL DEF Spec, NeverBack
=============================================================================
