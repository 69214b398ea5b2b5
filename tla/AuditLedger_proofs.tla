-------------------------- MODULE AuditLedger_proofs --------------------------
(***************************************************************************)
(* What AuditLedger guarantees for every set of tenants, callers and       *)
(* processes, checked by the TLA+ proof system.                            *)
(***************************************************************************)
EXTENDS AuditLedger, FiniteSetTheorems, SequenceTheorems,
        WellFoundedInduction, TLAPS

Calls == {Idle}
            \cup [step : {"waiting", "locked"}, org : Orgs, hash : Nat \ {0}]
            \cup [step : {"read"}, row : Row]

\* A call stands where its step says it does.
LEMMA CallShape ==
    ASSUME TypeOK, NEW c \in Callers
    PROVE  /\ call[c] \in Calls
           /\ call[c].step \in {"waiting", "locked"} =>
                 call[c].org \in Orgs /\ call[c].hash \in Nat \ {0}
           /\ call[c].step = "read" => call[c].row \in Row
BY DEF TypeOK, Calls, Idle

\* A call that ends leaves the others as they are.
LEMMA ReturnFrame ==
    ASSUME TypeOK, NEW c \in Callers, Return(c)
    PROVE  /\ call'[c] = Idle
           /\ \A d \in Callers \ {c} : call'[d] = call[d]
           /\ call' \in [Callers -> Calls]
BY DEF Return, TypeOK, Calls

\* The head is read by one call, whose entry follows it.
LEMMA ReadHeadFrame ==
    ASSUME TypeOK, NEW c \in Callers, ReadHead(c)
    PROVE  /\ call[c].step = "locked"
           /\ call'[c].step = "read"
           /\ call'[c].row \in Row
           /\ call'[c].row.org = call[c].org
           /\ call'[c].row.hash = call[c].hash
           /\ \A r \in RowsOf(call[c].org) : r.seq < call'[c].row.seq
           /\ \/ call'[c].row.seq = 1 /\ call'[c].row.prev = Genesis
              \/ \E h \in RowsOf(call[c].org) : Follows(h, call'[c].row)
           /\ \A d \in Callers \ {c} : call'[d] = call[d]
           /\ call' \in [Callers -> Calls]
           /\ UNCHANGED <<log, late, calls, returned>>
<1> DEFINE o == call[c].org
<1>1. call[c].step = "locked" /\ o \in Orgs /\ call[c].hash \in Nat \ {0}
  BY CallShape DEF ReadHead
<1>2. \A r \in RowsOf(o) : r \in Row /\ r.seq \in Nat /\ r.hash \in Nat
  BY DEF RowsOf, TypeOK, Row
<1>3. PICK row \in Row :
          /\ call' = [call EXCEPT ![c] = [step |-> "read", row |-> row]]
          /\ row.org = o /\ row.hash = call[c].hash
          /\ \A r \in RowsOf(o) : r.seq < row.seq
          /\ \/ row.seq = 1 /\ row.prev = Genesis
             \/ \E h \in RowsOf(o) : Follows(h, row)
  <2>1. CASE /\ RowsOf(o) = {}
             /\ call' = [call EXCEPT ![c] =
                   [step |-> "read", row |-> Entry(o, NoHead, call[c].hash)]]
    <3> DEFINE row == Entry(o, NoHead, call[c].hash)
    <3>1. row \in Row /\ row.org = o /\ row.hash = call[c].hash
          /\ row.seq = 1 /\ row.prev = Genesis
      BY <1>1 DEF Entry, NoHead, Row, Genesis
    <3>2. QED
      BY <2>1, <3>1
  <2>2. ASSUME NEW h \in RowsOf(o), IsHead(h, RowsOf(o)),
               call' = [call EXCEPT ![c] =
                   [step |-> "read", row |-> Entry(o, h, call[c].hash)]]
        PROVE  \E row \in Row :
                  /\ call' = [call EXCEPT ![c] = [step |-> "read", row |-> row]]
                  /\ row.org = o /\ row.hash = call[c].hash
                  /\ \A r \in RowsOf(o) : r.seq < row.seq
                  /\ \E q \in RowsOf(o) : Follows(q, row)
    <3> DEFINE row == Entry(o, h, call[c].hash)
    <3>1. row \in Row /\ row.org = o /\ row.hash = call[c].hash
      BY <1>1, <1>2 DEF Entry, Row
    <3>2. \A r \in RowsOf(o) : r.seq < row.seq
      BY <1>2, <2>2 DEF Entry, IsHead
    <3>3. Follows(h, row)
      BY DEF Entry, Follows
    <3>4. QED
      BY <2>2, <3>1, <3>2, <3>3
  <2>3. PICK head \in RowsOf(o) \cup {NoHead} :
            /\ IF RowsOf(o) = {} THEN head = NoHead ELSE IsHead(head, RowsOf(o))
            /\ call' = [call EXCEPT ![c] =
                  [step |-> "read", row |-> Entry(o, head, call[c].hash)]]
    BY DEF ReadHead
  <2>4. CASE RowsOf(o) = {}
    BY <2>1, <2>3, <2>4
  <2>5. CASE RowsOf(o) # {}
    <3>1. head \in RowsOf(o) /\ IsHead(head, RowsOf(o))
      BY <2>3, <2>5 DEF IsHead
    <3>2. QED
      BY <2>2, <2>3, <3>1
  <2>6. QED
    BY <2>4, <2>5
<1>4. call'[c] = [step |-> "read", row |-> row]
  BY <1>3 DEF TypeOK
<1>5. \A d \in Callers \ {c} : call'[d] = call[d]
  BY <1>3 DEF TypeOK
<1>6. call' \in [Callers -> Calls]
  BY <1>3 DEF TypeOK, Calls
<1>7. QED
  BY <1>1, <1>3, <1>4, <1>5, <1>6 DEF ReadHead

(***************************************************************************)
(* Types.                                                                  *)
(***************************************************************************)

LEMMA NextType == TypeOK /\ [Next]_vars => TypeOK'
<1> SUFFICES ASSUME TypeOK, [Next]_vars PROVE TypeOK'
  OBVIOUS
<1>1. ASSUME NEW c \in Callers, NEW o \in Orgs, Call(c, o) PROVE TypeOK'
  BY <1>1 DEF Call, TypeOK
<1>2. ASSUME NEW c \in Callers, Lock(c) PROVE TypeOK'
  <2>1. call[c] \in [step : {"waiting", "locked"}, org : Orgs, hash : Nat \ {0}]
    BY <1>2 DEF Lock, TypeOK, Idle
  <2>2. QED
    BY <1>2, <2>1 DEF Lock, TypeOK
<1>3. ASSUME NEW c \in Callers, ReadHead(c) PROVE TypeOK'
  BY <1>3, ReadHeadFrame DEF TypeOK, Calls
<1>4. ASSUME NEW c \in Callers, ReadFails(c) PROVE TypeOK'
  BY <1>4, ReturnFrame DEF ReadFails, TypeOK, Calls
<1>5. ASSUME NEW c \in Callers, Insert(c) PROVE TypeOK'
  <2>1. call[c].row \in Row
    BY <1>5, CallShape DEF Insert
  <2>2. [row |-> call[c].row, by |-> calls] \in [row : Row, by : Nat]
    BY <2>1 DEF TypeOK
  <2>3. QED
    BY <1>5, <2>1, <2>2, ReturnFrame DEF Insert, TypeOK, Calls
<1>6. ASSUME NEW c \in Callers, InsertFails(c) PROVE TypeOK'
  <2>1. call[c].row \in Row
    BY <1>6, CallShape DEF InsertFails
  <2>2. QED
    BY <1>6, <2>1, ReturnFrame DEF InsertFails, TypeOK, Calls
<1>7. ASSUME NEW r \in late, LateInsert(r) PROVE TypeOK'
  BY <1>7 DEF LateInsert, TypeOK
<1>8. ASSUME NEW p \in Processes, Restart(p) PROVE TypeOK'
  <2>1. late' \subseteq Row
    BY <1>8, CallShape DEF Restart, TypeOK
  <2>2. QED
    BY <1>8, <2>1 DEF Restart, TypeOK
<1>9. ASSUME NEW r \in log, Expire(r) PROVE TypeOK'
  BY <1>9 DEF Expire, TypeOK
<1>10. CASE UNCHANGED vars
  BY <1>10 DEF vars, TypeOK
<1>11. QED
  BY <1>1, <1>2, <1>3, <1>4, <1>5, <1>6, <1>7, <1>8, <1>9, <1>10 DEF Next, Step

\* Every variable keeps its type, in every instance and whatever fails.
THEOREM TypeCorrect == Spec => []TypeOK
<1>1. Init => TypeOK
  BY DEF Init, TypeOK
<1>2. QED
  BY <1>1, NextType, PTL DEF Spec

(***************************************************************************)
(* One process, every insert answered: the chain never breaks.             *)
(***************************************************************************)

OneProcess == \A c, d \in Callers : ProcessOf[c] = ProcessOf[d]

\* One caller at a time is past the lock, and the entry it is about to insert
\* continues its organisation's chain as it now stands.
ChainInv ==
    /\ ChainIntact
    /\ late = {}
    /\ \A c, d \in Callers : Holds(c) /\ Holds(d) => c = d
    /\ \A c \in Callers : call[c].step = "read" =>
          LET row == call[c].row
          IN  /\ \A r \in RowsOf(row.org) : r.seq < row.seq
              /\ \/ row.seq = 1 /\ row.prev = Genesis
                 \/ \E h \in RowsOf(row.org) : Follows(h, row)

\* A chain with a row numbered after all of its rows and following one of them
\* is a chain.
LEMMA ChainGrows ==
    ASSUME NEW rows, IsChain(rows), NEW row,
           \A r \in rows : r.seq \in Nat, row.seq \in Nat,
           \A r \in rows : r.seq < row.seq,
           \/ row.seq = 1 /\ row.prev = Genesis
           \/ \E h \in rows : Follows(h, row)
    PROVE  IsChain(rows \cup {row})
<1>1. \A q, r \in rows \cup {row} : q.seq = r.seq => q = r
  BY DEF IsChain
<1>2. \A r \in rows \cup {row} : \/ r.seq = 1 /\ r.prev = Genesis
                                 \/ \E q \in rows \cup {row} : Follows(q, r)
  BY DEF IsChain
<1>3. QED
  BY <1>1, <1>2 DEF IsChain

LEMMA ChainStep ==
    ASSUME OneProcess, {"late", "ttl"} \cap Faults = {}, TypeOK, ChainInv, [Next]_vars
    PROVE  ChainInv'
<1>1. ASSUME NEW c \in Callers, NEW o \in Orgs, Call(c, o) PROVE ChainInv'
  <2>1. /\ UNCHANGED <<log, late>>
        /\ call'[c].step = "waiting"
        /\ \A d \in Callers \ {c} : call'[d] = call[d]
    BY <1>1 DEF Call, TypeOK
  <2>2. QED
    BY <2>1 DEF ChainInv, ChainIntact, RowsOf, Holds
<1>2. ASSUME NEW c \in Callers, Lock(c) PROVE ChainInv'
  <2>1. call[c] \in [step : {"waiting", "locked"}, org : Orgs, hash : Nat \ {0}]
    BY <1>2 DEF Lock, TypeOK, Idle
  <2>2. /\ UNCHANGED <<log, late>>
        /\ call'[c].step = "locked"
        /\ \A d \in Callers \ {c} : call'[d] = call[d]
    BY <1>2, <2>1 DEF Lock, TypeOK
  <2>3. \A d \in Callers : ~Holds(d)
    BY <1>2 DEF Lock, Locked, OneProcess
  <2>4. QED
    BY <2>2, <2>3 DEF ChainInv, ChainIntact, RowsOf, Holds
<1>3. ASSUME NEW c \in Callers, ReadHead(c) PROVE ChainInv'
  <2>1. \A r : r \in log' <=> r \in log
    BY <1>3 DEF ReadHead
  <2>2. \A d \in Callers : Holds(d)' => Holds(d)
    BY <1>3, ReadHeadFrame DEF Holds
  <2>3. QED
    BY <1>3, <2>2, ReadHeadFrame DEF ChainInv, ChainIntact, RowsOf
<1>4. ASSUME NEW c \in Callers, ReadFails(c) PROVE ChainInv'
  BY <1>4, ReturnFrame DEF ReadFails, ChainInv, ChainIntact, RowsOf, Holds, Idle
<1>5. ASSUME NEW c \in Callers, Insert(c) PROVE ChainInv'
  <2> DEFINE row == call[c].row
  <2>1. /\ call[c].step = "read" /\ row \in Row /\ Holds(c)
        /\ log' = log \cup {row} /\ late' = late
    BY <1>5, CallShape DEF Insert, Holds
  <2>2. call'[c].step = "idle" /\ \A d \in Callers \ {c} : call'[d] = call[d]
    BY <1>5, ReturnFrame DEF Insert, Idle
  <2>3. \A d \in Callers \ {c} : call[d].step # "read"
    BY <2>1 DEF ChainInv, Holds
  <2>4. ASSUME NEW o \in Orgs PROVE IsChain(RowsOf(o)')
    <3>1. CASE o # row.org
      <4>1. RowsOf(o)' = RowsOf(o)
        BY <2>1, <3>1 DEF RowsOf
      <4>2. QED
        BY <4>1 DEF ChainInv, ChainIntact
    <3>2. CASE o = row.org
      <4>1. RowsOf(o)' = RowsOf(o) \cup {row}
        BY <2>1, <3>2 DEF RowsOf
      <4>2. row.seq \in Nat /\ \A r \in RowsOf(o) : r.seq \in Nat
        BY <2>1 DEF RowsOf, TypeOK, Row
      <4>3. IsChain(RowsOf(o))
        BY DEF ChainInv, ChainIntact
      <4>4. /\ \A r \in RowsOf(o) : r.seq < row.seq
            /\ \/ row.seq = 1 /\ row.prev = Genesis
               \/ \E h \in RowsOf(o) : Follows(h, row)
        BY <2>1, <3>2 DEF ChainInv
      <4>5. QED
        BY <4>1, <4>2, <4>3, <4>4, ChainGrows
    <3>3. QED
      BY <3>1, <3>2
  <2>5. ChainIntact'
    BY <2>4 DEF ChainIntact
  <2>6. \A d, e \in Callers : Holds(d)' /\ Holds(e)' => d = e
    BY <2>2 DEF ChainInv, Holds
  <2>7. QED
    BY <2>1, <2>2, <2>3, <2>5, <2>6 DEF ChainInv
<1>6. ASSUME NEW c \in Callers, InsertFails(c) PROVE ChainInv'
  <2>1. UNCHANGED <<log, late>>
    BY <1>6 DEF InsertFails
  <2>2. QED
    BY <1>6, <2>1, ReturnFrame DEF InsertFails, ChainInv, ChainIntact, RowsOf, Holds, Idle
<1>7. ASSUME NEW r \in late, LateInsert(r) PROVE ChainInv'
  BY <1>7 DEF ChainInv
<1>8. ASSUME NEW p \in Processes, Restart(p) PROVE ChainInv'
  <2>1. UNCHANGED <<log, late>>
    BY <1>8 DEF Restart
  <2>2. \A d \in Callers : call'[d] = call[d] \/ call'[d] = Idle
    BY <1>8 DEF Restart
  <2>3. QED
    BY <2>1, <2>2 DEF ChainInv, ChainIntact, RowsOf, Holds, Idle
<1>9. ~\E r \in log : Expire(r)
  BY DEF Expire
<1>10. CASE UNCHANGED vars
  BY <1>10 DEF vars, ChainInv, ChainIntact, RowsOf, Holds
<1>11. QED
  BY <1>1, <1>2, <1>3, <1>4, <1>5, <1>6, <1>7, <1>8, <1>9, <1>10 DEF Next, Step

\* One API process whose inserts are answered, and a table nothing expires from:
\* every organisation's rows are one chain, whichever calls fail or are cut off.
THEOREM ChainNeverBreaks ==
    ASSUME OneProcess, {"late", "ttl"} \cap Faults = {}
    PROVE  Spec => []ChainIntact
<1>1. Init => ChainInv
  BY DEF Init, ChainInv, ChainIntact, IsChain, RowsOf, Holds, Idle
<1>2. TypeOK /\ ChainInv /\ [Next]_vars => ChainInv'
  BY ChainStep
<1>3. ChainInv => ChainIntact
  BY DEF ChainInv
<1>4. QED
  BY <1>1, <1>2, <1>3, TypeCorrect, PTL DEF Spec

(***************************************************************************)
(* Any number of processes: later calls come after.                        *)
(***************************************************************************)

\* The call a caller is making, when it is making one.
Active(c) == call[c].step \in {"waiting", "locked", "read"}
CallOf(c) == IF call[c].step = "read" THEN call[c].row.hash ELSE call[c].hash

\* Every call has begun, and no two of them share a number, wherever they are:
\* under way, abandoned or returned.
CallsDiffer ==
    /\ \A c \in Callers : Active(c) => CallOf(c) <= calls
    /\ \A r \in log \cup late : r.hash <= calls
    /\ \A a \in returned : a.row.hash <= calls
    /\ \A c, d \in Callers : Active(c) /\ Active(d) /\ c # d => CallOf(c) # CallOf(d)
    /\ \A c \in Callers : Active(c) =>
          /\ \A r \in late : r.hash # CallOf(c)
          /\ \A a \in returned : a.row.hash # CallOf(c)
    /\ \A a \in returned : \A r \in late : a.row.hash # r.hash

\* Of an entry that was returned and is still there, no entry of a later call,
\* wherever it is, has a lower number.
OrderInv ==
    /\ CallsDiffer
    /\ \A a \in returned :
          /\ a.by <= calls
          /\ a.row \in log =>
                /\ \A r \in log \cup late :
                      r.org = a.row.org /\ r.hash > a.by => r.seq > a.row.seq
                /\ \A c \in Callers :
                      call[c].step = "read" /\ call[c].row.org = a.row.org
                          /\ call[c].row.hash > a.by => call[c].row.seq > a.row.seq

\* The numbers are numbers.
LEMMA CallNumbers ==
    ASSUME TypeOK
    PROVE  /\ calls \in Nat
           /\ \A c \in Callers : Active(c) => CallOf(c) \in Nat
           /\ \A r \in log \cup late : r.hash \in Nat /\ r.seq \in Nat
           /\ \A a \in returned : a.by \in Nat /\ a.row.hash \in Nat /\ a.row.seq \in Nat
<1>1. \A c \in Callers : Active(c) => CallOf(c) \in Nat
  <2> SUFFICES ASSUME NEW c \in Callers, Active(c) PROVE CallOf(c) \in Nat
    OBVIOUS
  <2>1. CASE call[c].step = "read"
    BY <2>1, CallShape DEF CallOf, Row
  <2>2. CASE call[c].step \in {"waiting", "locked"}
    BY <2>2, CallShape DEF CallOf
  <2>3. QED
    BY <2>1, <2>2 DEF Active
<1>2. QED
  BY <1>1 DEF TypeOK, Row

LEMMA CallsDifferStep ==
    ASSUME TypeOK, CallsDiffer, [Next]_vars
    PROVE  CallsDiffer'
<1>t. /\ calls \in Nat
      /\ \A c \in Callers : Active(c) => CallOf(c) \in Nat
      /\ \A r \in log \cup late : r.hash \in Nat
      /\ \A a \in returned : a.row.hash \in Nat
  BY CallNumbers
<1>1. ASSUME NEW c \in Callers, NEW o \in Orgs, Call(c, o) PROVE CallsDiffer'
  <2>1. /\ UNCHANGED <<log, late, returned>>
        /\ calls' = calls + 1
        /\ call'[c].step = "waiting" /\ call'[c].hash = calls + 1
        /\ \A d \in Callers \ {c} : call'[d] = call[d]
    BY <1>1 DEF Call, TypeOK
  <2>2. Active(c)' /\ CallOf(c)' = calls + 1
    BY <2>1 DEF Active, CallOf
  <2>3. \A d \in Callers \ {c} : (Active(d)' <=> Active(d)) /\ CallOf(d)' = CallOf(d)
    BY <2>1 DEF Active, CallOf
  <2>4. QED
    BY <2>1, <2>2, <2>3, <1>t DEF CallsDiffer
<1>2. ASSUME NEW c \in Callers, Lock(c) \/ ReadHead(c) PROVE CallsDiffer'
  <2>1. UNCHANGED <<log, late, calls, returned>>
    BY <1>2 DEF Lock, ReadHead
  <2>2. Active(c) /\ CallOf(c)' = CallOf(c) /\ \A d \in Callers \ {c} : call'[d] = call[d]
    <3>1. CASE Lock(c)
      BY <3>1, CallShape DEF Lock, TypeOK, Active, CallOf, Idle
    <3>2. CASE ReadHead(c)
      BY <3>2, ReadHeadFrame DEF Active, CallOf
    <3>3. QED
      BY <1>2, <3>1, <3>2
  <2>3. \A d \in Callers : (Active(d)' => Active(d)) /\ CallOf(d)' = CallOf(d)
    BY <2>2 DEF Active, CallOf
  <2>4. QED
    BY <2>1, <2>3 DEF CallsDiffer
<1>3. ASSUME NEW c \in Callers, ReadFails(c) \/ Insert(c) \/ InsertFails(c) PROVE CallsDiffer'
  <2>1. calls' = calls /\ Active(c) /\ ~Active(c)'
    BY <1>3, ReturnFrame DEF ReadFails, Insert, InsertFails, Active, Idle
  <2>2. \A d \in Callers \ {c} : (Active(d)' <=> Active(d)) /\ CallOf(d)' = CallOf(d)
    BY <1>3, ReturnFrame DEF ReadFails, Insert, InsertFails, Active, CallOf
  <2>3. \A r \in log' : r \in log \/ r.hash = CallOf(c)
    BY <1>3 DEF ReadFails, Insert, InsertFails, CallOf
  <2>4. \/ late' = late /\ \A a \in returned' : a \in returned \/ a.row.hash = CallOf(c)
        \/ returned' = returned /\ \A r \in late' : r \in late \/ r.hash = CallOf(c)
    BY <1>3 DEF ReadFails, Insert, InsertFails, CallOf
  <2>5. \A d \in Callers : Active(d)' => d # c /\ Active(d) /\ CallOf(d)' = CallOf(d)
    BY <2>1, <2>2
  <2>6. QED
    BY <2>1, <2>3, <2>4, <2>5 DEF CallsDiffer
<1>4. ASSUME NEW r \in late, LateInsert(r) PROVE CallsDiffer'
  <2>1. late' \subseteq late /\ log' \subseteq log \cup late /\ UNCHANGED <<call, calls, returned>>
    BY <1>4 DEF LateInsert
  <2>2. QED
    BY <2>1 DEF CallsDiffer, Active, CallOf
<1>5. ASSUME NEW p \in Processes, Restart(p) PROVE CallsDiffer'
  <2>1. UNCHANGED <<log, calls, returned>>
    BY <1>5 DEF Restart
  <2>2. \A d \in Callers : Active(d)' => Active(d) /\ ProcessOf[d] # p /\ CallOf(d)' = CallOf(d)
    BY <1>5 DEF Restart, Active, CallOf, Idle
  <2>3. \A r \in late' : \/ r \in late
                         \/ \E d \in Callers : ProcessOf[d] = p /\ Active(d) /\ r.hash = CallOf(d)
    BY <1>5 DEF Restart, Active, CallOf
  <2>4. QED
    BY <2>1, <2>2, <2>3 DEF CallsDiffer
<1>6. ASSUME NEW r \in log, Expire(r) PROVE CallsDiffer'
  BY <1>6 DEF Expire, CallsDiffer, Active, CallOf
<1>7. CASE UNCHANGED vars
  BY <1>7 DEF vars, CallsDiffer, Active, CallOf
<1>8. QED
  BY <1>1, <1>2, <1>3, <1>4, <1>5, <1>6, <1>7 DEF Next, Step

\* After a step that numbers nothing new, what was behind stays behind.
LEMMA OrderFrame ==
    ASSUME TypeOK, OrderInv, CallsDiffer', UNCHANGED <<calls, returned>>,
           \A a \in returned : a.row \in log' => a.row \in log,
           \A r \in log' \cup late' : \/ r \in log \cup late
                                     \/ \E c \in Callers : call[c].step = "read" /\ r = call[c].row,
           \A c \in Callers : call'[c].step = "read" => call'[c] = call[c]
    PROVE  OrderInv'
BY DEF OrderInv

LEMMA OrderStep ==
    ASSUME TypeOK, OrderInv, [Next]_vars
    PROVE  OrderInv'
<1>t. /\ calls \in Nat
      /\ \A r \in log \cup late : r.hash \in Nat /\ r.seq \in Nat
      /\ \A a \in returned : a.by \in Nat /\ a.row.seq \in Nat
  BY CallNumbers
<1>d. CallsDiffer /\ CallsDiffer'
  BY CallsDifferStep DEF OrderInv
<1>1. ASSUME NEW c \in Callers, NEW o \in Orgs, Call(c, o) PROVE OrderInv'
  <2>1. /\ UNCHANGED <<log, late, returned>>
        /\ calls' = calls + 1
        /\ \A d \in Callers : call'[d].step = "read" => call'[d] = call[d]
    BY <1>1 DEF Call, TypeOK
  <2>2. \A a \in returned' : a.by <= calls'
    BY <2>1, <1>t DEF OrderInv
  <2>3. QED
    BY <1>d, <2>1, <2>2 DEF OrderInv
<1>2. ASSUME NEW c \in Callers, Lock(c) PROVE OrderInv'
  <2>1. call'[c].step # "read" /\ \A d \in Callers \ {c} : call'[d] = call[d]
    BY <1>2, CallShape DEF Lock, TypeOK, Idle
  <2>2. UNCHANGED <<log, late, calls, returned>>
    BY <1>2 DEF Lock
  <2>3. QED
    BY <1>d, <2>1, <2>2, OrderFrame
<1>3. ASSUME NEW c \in Callers, ReadHead(c) PROVE OrderInv'
  <2>1. UNCHANGED <<log, late, calls, returned>> /\ \A d \in Callers \ {c} : call'[d] = call[d]
    BY <1>3, ReadHeadFrame DEF ReadHead
  <2>2. \A a \in returned : a.row \in log /\ a.row.org = call'[c].row.org
            => a.row.seq < call'[c].row.seq
    BY <1>3, ReadHeadFrame DEF RowsOf
  <2>3. call'[c].row.seq \in Nat
    BY <1>3, ReadHeadFrame DEF Row
  <2>4. \A a \in returned : a.row \in log /\ a.row.org = call'[c].row.org
            => call'[c].row.seq > a.row.seq
    BY <1>t, <2>2, <2>3
  <2>5. QED
    BY <1>d, <2>1, <2>4 DEF OrderInv
<1>4. ASSUME NEW c \in Callers, ReadFails(c) \/ InsertFails(c) PROVE OrderInv'
  <2>1. /\ UNCHANGED <<log, calls, returned>>
        /\ \A r \in late' : r \in late \/ (call[c].step = "read" /\ r = call[c].row)
    BY <1>4 DEF ReadFails, InsertFails
  <2>2. call'[c].step # "read" /\ \A d \in Callers \ {c} : call'[d] = call[d]
    BY <1>4, ReturnFrame DEF ReadFails, InsertFails, Idle
  <2>3. QED
    BY <1>d, <2>1, <2>2, OrderFrame
<1>5. ASSUME NEW c \in Callers, Insert(c) PROVE OrderInv'
  <2> DEFINE row == call[c].row
             a == [row |-> row, by |-> calls]
  <2>1. /\ call[c].step = "read" /\ row \in Row
        /\ log' = log \cup {row} /\ UNCHANGED <<late, calls>>
        /\ returned' = returned \cup {a}
    BY <1>5, CallShape DEF Insert
  <2>2. call'[c].step # "read" /\ \A d \in Callers \ {c} : call'[d] = call[d]
    BY <1>5, ReturnFrame DEF Insert, Idle
  <2>3. /\ \A r \in log' \cup late' : ~(r.hash > a.by)
        /\ \A d \in Callers : call'[d].step = "read" => ~(call'[d].row.hash > a.by)
        /\ a.by <= calls
    <3>1. \A r \in log' \cup late' : r.hash <= calls /\ r.hash \in Nat
      BY <1>d, <1>t, <2>1 DEF CallsDiffer, Row
    <3>2. \A d \in Callers : call'[d].step = "read" =>
              call'[d].row.hash <= calls /\ call'[d].row.hash \in Nat
      BY <1>d, <2>2, CallShape DEF CallsDiffer, Active, CallOf, Row
    <3>3. QED
      BY <1>t, <3>1, <3>2
  <2>4. \A b \in returned : b.row \in log' => b.row \in log
    BY <1>d, <2>1 DEF CallsDiffer, Active, CallOf
  <2>5. \A b \in returned :
            /\ b.by <= calls
            /\ b.row \in log' =>
                  /\ \A r \in log' \cup late' :
                        r.org = b.row.org /\ r.hash > b.by => r.seq > b.row.seq
                  /\ \A d \in Callers :
                        call'[d].step = "read" /\ call'[d].row.org = b.row.org
                            /\ call'[d].row.hash > b.by => call'[d].row.seq > b.row.seq
    BY <2>1, <2>2, <2>4 DEF OrderInv
  <2>6. \A b \in returned' : b \in returned \/ b = a
    BY <2>1
  <2>7. QED
    BY <1>d, <2>1, <2>3, <2>5, <2>6 DEF OrderInv
<1>6. ASSUME NEW r \in late, LateInsert(r) PROVE OrderInv'
  <2>1. log' \subseteq log \cup {r} /\ late' \subseteq late /\ UNCHANGED <<call, calls, returned>>
    BY <1>6 DEF LateInsert
  <2>2. \A a \in returned : a.row # r
    BY <1>d DEF CallsDiffer
  <2>3. QED
    BY <1>d, <2>1, <2>2, OrderFrame
<1>7. ASSUME NEW p \in Processes, Restart(p) PROVE OrderInv'
  <2>1. UNCHANGED <<log, calls, returned>>
    BY <1>7 DEF Restart
  <2>2. \A d \in Callers : call'[d].step = "read" => call'[d] = call[d]
    BY <1>7 DEF Restart, Idle
  <2>3. \A r \in late' : r \in late \/ \E d \in Callers : call[d].step = "read" /\ r = call[d].row
    BY <1>7 DEF Restart
  <2>4. QED
    BY <1>d, <2>1, <2>2, <2>3, OrderFrame
<1>8. ASSUME NEW r \in log, Expire(r) PROVE OrderInv'
  <2>1. log' \subseteq log /\ UNCHANGED <<late, call, calls, returned>>
    BY <1>8 DEF Expire
  <2>2. QED
    BY <1>d, <2>1, OrderFrame
<1>9. CASE UNCHANGED vars
  BY <1>9, <1>d DEF vars, OrderInv
<1>10. QED
  BY <1>1, <1>2, <1>3, <1>4, <1>5, <1>6, <1>7, <1>8, <1>9 DEF Next, Step

\* Any number of API processes, and whatever fails, expires or arrives late: an
\* entry is numbered after every entry still there that had been returned when
\* its call began.
THEOREM OrderFollowsTime == Spec => []LaterCallsComeAfter
<1>1. Init => OrderInv
  BY DEF Init, OrderInv, CallsDiffer, Active, Idle
<1>2. TypeOK /\ OrderInv /\ [Next]_vars => OrderInv'
  BY OrderStep
<1>3. OrderInv => LaterCallsComeAfter
  BY DEF OrderInv, LaterCallsComeAfter, RowsOf
<1>4. QED
  BY <1>1, <1>2, <1>3, TypeCorrect, PTL DEF Spec

(***************************************************************************)
(* One process: every call is one append to its organisation's list.       *)
(***************************************************************************)

\* The rows of an organisation are numbered up to their count.
Numbered(rows) ==
    /\ IsFiniteSet(rows)
    /\ \A r \in rows : r.seq \in 1 .. Cardinality(rows)
    /\ rows # {} => \E r \in rows : r.seq = Cardinality(rows)

NumberInv ==
    /\ \A o \in Orgs : Numbered(RowsOf(o))
    /\ \A c \in Callers : call[c].step = "read" =>
          call[c].row.seq = Cardinality(RowsOf(call[c].row.org)) + 1

LEMMA NumbersGrow ==
    ASSUME NEW rows, Numbered(rows), NEW row, row.seq = Cardinality(rows) + 1
    PROVE  /\ Cardinality(rows) \in Nat
           /\ Cardinality(rows \cup {row}) = Cardinality(rows) + 1
           /\ Numbered(rows \cup {row})
<1>1. Cardinality(rows) \in Nat
  BY FS_CardinalityType DEF Numbered
<1>2. row \notin rows
  BY <1>1 DEF Numbered
<1>3. IsFiniteSet(rows \cup {row}) /\ Cardinality(rows \cup {row}) = Cardinality(rows) + 1
  BY <1>2, FS_AddElement DEF Numbered
<1>4. \A r \in rows \cup {row} : r.seq \in 1 .. Cardinality(rows) + 1
  BY <1>1 DEF Numbered
<1>5. \E r \in rows \cup {row} : r.seq = Cardinality(rows) + 1
  OBVIOUS
<1>6. QED
  BY <1>1, <1>3, <1>4, <1>5 DEF Numbered

\* The entry that continues the head has the next number.
LEMMA NextNumber ==
    ASSUME TypeOK, NumberInv, NEW c \in Callers, ReadHead(c)
    PROVE  call'[c].row.seq = Cardinality(RowsOf(call'[c].row.org)) + 1
<1> DEFINE o == call[c].org
           rows == RowsOf(o)
<1>1. call[c].step = "locked" /\ o \in Orgs
  BY CallShape DEF ReadHead
<1>2. Numbered(rows) /\ Cardinality(rows) \in Nat
  BY <1>1, FS_CardinalityType DEF NumberInv, Numbered
<1>3. PICK head \in rows \cup {NoHead} :
          /\ IF rows = {} THEN head = NoHead ELSE IsHead(head, rows)
          /\ call' = [call EXCEPT ![c] = [step |-> "read", row |-> Entry(o, head, call[c].hash)]]
  BY DEF ReadHead
<1>4. head.seq = Cardinality(rows)
  <2>1. CASE rows = {}
    BY <1>3, <2>1, FS_EmptySet DEF NoHead
  <2>2. CASE rows # {}
    <3>1. head \in rows /\ IsHead(head, rows)
      BY <1>3, <2>2 DEF IsHead
    <3>2. PICK r \in rows : r.seq = Cardinality(rows)
      BY <1>2, <2>2 DEF Numbered
    <3>3. head.seq \in 1 .. Cardinality(rows) /\ r.seq <= head.seq
      BY <1>2, <3>1, <3>2 DEF Numbered, IsHead
    <3>4. QED
      BY <1>2, <3>2, <3>3
  <2>3. QED
    BY <2>1, <2>2
<1>5. call'[c].row = Entry(o, head, call[c].hash)
  BY <1>3 DEF TypeOK
<1>6. call'[c].row.org = o /\ call'[c].row.seq = head.seq + 1
  BY <1>5 DEF Entry
<1>7. QED
  BY <1>4, <1>6

LEMMA NumberStep ==
    ASSUME OneProcess, {"late", "ttl"} \cap Faults = {}, TypeOK, ChainInv, NumberInv,
           [Next]_vars
    PROVE  NumberInv'
<1>1. ASSUME log' = log,
             \A d \in Callers : call'[d].step = "read" => call'[d] = call[d]
      PROVE  NumberInv'
  BY <1>1 DEF NumberInv, RowsOf
<1>2. ASSUME NEW c \in Callers, NEW o \in Orgs, Call(c, o) PROVE NumberInv'
  BY <1>1, <1>2 DEF Call, TypeOK
<1>3. ASSUME NEW c \in Callers, Lock(c) PROVE NumberInv'
  <2>1. call[c] \in [step : {"waiting", "locked"}, org : Orgs, hash : Nat \ {0}]
    BY <1>3 DEF Lock, TypeOK, Idle
  <2>2. QED
    BY <1>1, <1>3, <2>1 DEF Lock, TypeOK
<1>4. ASSUME NEW c \in Callers, ReadHead(c) PROVE NumberInv'
  <2>1. log' = log /\ \A o \in Orgs : RowsOf(o)' = RowsOf(o)
    BY <1>4 DEF ReadHead, RowsOf
  <2>2. call'[c].row \in Row /\ \A d \in Callers \ {c} : call'[d] = call[d]
    BY <1>4, ReadHeadFrame
  <2>3. call'[c].row.seq = Cardinality(RowsOf(call'[c].row.org)) + 1
    BY <1>4, NextNumber
  <2>4. ASSUME NEW d \in Callers, call'[d].step = "read"
        PROVE  (call[d].row.seq = Cardinality(RowsOf(call[d].row.org)) + 1)'
    <3>1. RowsOf(call[d].row.org)' = RowsOf(call'[d].row.org)
      BY <2>1 DEF RowsOf
    <3>2. CASE d = c
      BY <2>3, <3>1, <3>2
    <3>3. CASE d # c
      BY <2>2, <2>4, <3>1, <3>3 DEF NumberInv
    <3>4. QED
      BY <3>2, <3>3
  <2>5. \A o \in Orgs : Numbered(RowsOf(o)')
    BY <2>1 DEF NumberInv
  <2>6. QED
    BY <2>4, <2>5 DEF NumberInv, Numbered
<1>5. ASSUME NEW c \in Callers, ReadFails(c) \/ InsertFails(c) PROVE NumberInv'
  <2>1. log' = log
    BY <1>5 DEF ReadFails, InsertFails
  <2>2. call'[c].step = "idle" /\ \A d \in Callers \ {c} : call'[d] = call[d]
    BY <1>5, ReturnFrame DEF ReadFails, InsertFails, Idle
  <2>3. QED
    BY <1>1, <2>1, <2>2
<1>6. ASSUME NEW c \in Callers, Insert(c) PROVE NumberInv'
  <2> DEFINE row == call[c].row
  <2>1. /\ call[c].step = "read" /\ row \in Row /\ row.org \in Orgs /\ Holds(c)
        /\ log' = log \cup {row}
    BY <1>6, CallShape DEF Insert, Holds, Row
  <2>2. call'[c].step = "idle" /\ \A d \in Callers \ {c} : call'[d] = call[d]
    BY <1>6, ReturnFrame DEF Insert, Idle
  <2>3. \A d \in Callers \ {c} : call[d].step # "read"
    BY <2>1 DEF ChainInv, Holds
  <2>4. row.seq = Cardinality(RowsOf(row.org)) + 1 /\ Numbered(RowsOf(row.org))
    BY <2>1 DEF NumberInv
  <2>5. Numbered(RowsOf(row.org) \cup {row})
    BY <2>4, NumbersGrow
  <2>6. ASSUME NEW o \in Orgs PROVE Numbered(RowsOf(o)')
    <3>1. CASE o = row.org
      <4>1. RowsOf(o)' = RowsOf(o) \cup {row}
        BY <2>1, <3>1 DEF RowsOf
      <4>2. QED
        BY <2>5, <3>1, <4>1
    <3>2. CASE o # row.org
      <4>1. RowsOf(o)' = RowsOf(o)
        BY <2>1, <3>2 DEF RowsOf
      <4>2. QED
        BY <4>1 DEF NumberInv
    <3>3. QED
      BY <3>1, <3>2
  <2>7. \A d \in Callers : call'[d].step # "read"
    BY <2>2, <2>3
  <2>8. QED
    BY <2>6, <2>7 DEF NumberInv, Numbered
<1>7. ASSUME NEW p \in Processes, Restart(p) PROVE NumberInv'
  <2>1. log' = log /\ \A d \in Callers : call'[d] = call[d] \/ call'[d] = Idle
    BY <1>7 DEF Restart
  <2>2. QED
    BY <1>1, <2>1 DEF Idle
<1>8. ~(\E r \in late : LateInsert(r)) /\ ~(\E r \in log : Expire(r))
  BY DEF ChainInv, Expire
<1>9. CASE UNCHANGED vars
  BY <1>1, <1>9 DEF vars
<1>10. QED
  BY <1>2, <1>3, <1>4, <1>5, <1>6, <1>7, <1>8, <1>9 DEF Next, Step

\* The abstract state: every organisation's list, and the calls under way.
Entries == [o \in Orgs |-> [k \in 1 .. Cardinality(RowsOf(o)) |-> EntryAt(o, k)]]
Pending ==
    {[org |-> call[c].org, call |-> call[c].hash] :
         c \in {d \in Callers : call[d].step \in {"waiting", "locked"}}}
    \cup {[org |-> call[c].row.org, call |-> call[c].row.hash] :
         c \in {d \in Callers : call[d].step = "read"}}

Asked(c) ==
    [org |-> IF call[c].step = "read" THEN call[c].row.org ELSE call[c].org,
     call |-> CallOf(c)]

LEMMA PendingAre ==
    /\ Pending = {Asked(c) : c \in {d \in Callers : Active(d)}}
    /\ Pending' = {Asked(c)' : c \in {d \in Callers : Active(d)'}}
  BY DEF Pending, Asked, Active, CallOf

\* The steps of the list in terms of this abstraction.
LEMMA AbstractBegin ==
    ASSUME NEW o \in Orgs, calls' = calls + 1, Entries' = Entries,
           Pending' = Pending \cup {[org |-> o, call |-> calls + 1]}
    PROVE  Promise!Next
  BY DEF Promise!Next, Promise!Begin, Entries, Pending

LEMMA AbstractCommit ==
    ASSUME NEW p \in Pending, calls' = calls, Pending' = Pending \ {p},
           Entries' = [Entries EXCEPT ![p.org] = Append(@, p.call)]
    PROVE  Promise!Next
  BY DEF Promise!Next, Promise!Commit, Entries, Pending

LEMMA AbstractAbandon ==
    ASSUME NEW P \in SUBSET Pending, calls' = calls, Pending' = Pending \ P,
           Entries' = Entries
    PROVE  Promise!Next
  BY DEF Promise!Next, Promise!Abandon, Entries, Pending

LEMMA AbstractStutter ==
    UNCHANGED <<Entries, Pending, calls>> => UNCHANGED Promise!vars
  BY DEF Promise!vars, Entries, Pending

LEMMA AbstractInit == Init => Promise!Init
<1> SUFFICES ASSUME Init PROVE Promise!Init
  OBVIOUS
<1>1. \A c \in Callers : ~Active(c)
  BY DEF Init, Active, Idle
<1>2. Pending = {}
  BY <1>1, PendingAre
<1>3. \A o \in Orgs : RowsOf(o) = {} /\ Cardinality(RowsOf(o)) = 0
  BY FS_EmptySet DEF Init, RowsOf
<1>4. \A o \in Orgs : [k \in 1 .. Cardinality(RowsOf(o)) |-> EntryAt(o, k)] = <<>>
  BY <1>3
<1>5. Entries = [o \in Orgs |-> <<>>]
  BY <1>4 DEF Entries
<1>6. calls = 0
  BY DEF Init
<1>7. QED
  BY <1>2, <1>5, <1>6 DEF Promise!Init, Entries, Pending

LEMMA EntriesStay == log' = log => Entries' = Entries
  BY DEF Entries, RowsOf, EntryAt

\* Calls that end without a row, or are cut off.
LEMMA Withdrawn ==
    ASSUME CallsDiffer, UNCHANGED <<log, calls>>, NEW D \in SUBSET Callers,
           \A c \in D : ~Active(c)',
           \A c \in Callers \ D : call'[c] = call[c]
    PROVE  Promise!Next
<1> DEFINE P == {Asked(c) : c \in {d \in D : Active(d)}}
<1>1. \A c \in Callers \ D : (Active(c)' <=> Active(c)) /\ Asked(c)' = Asked(c)
  BY DEF Active, Asked, CallOf
<1>2. \A c, d \in Callers : Active(c) /\ Active(d) /\ c # d => Asked(c) # Asked(d)
  <2>1. \A c \in Callers : Asked(c).call = CallOf(c)
    BY DEF Asked
  <2>2. QED
    BY <2>1 DEF CallsDiffer
<1>3. P \in SUBSET Pending
  BY PendingAre
<1>4. Pending' = Pending \ P
  BY <1>1, <1>2, PendingAre
<1>5. QED
  BY <1>3, <1>4, EntriesStay, AbstractAbandon

\* What EntryAt finds in a set of rows.
At(rows, k) == {r \in rows : r.seq = k}
HashOfAny(rows) == (CHOOSE r \in rows : TRUE).hash
HashAt(rows, k) == IF At(rows, k) = {} THEN Genesis ELSE HashOfAny(At(rows, k))

LEMMA EntriesAreHashes ==
    /\ \A o, k : EntryAt(o, k) = HashAt(RowsOf(o), k)
    /\ \A o, k : EntryAt(o, k)' = HashAt(RowsOf(o)', k)
  BY DEF EntryAt, HashAt, HashOfAny, At

\* A row with another number changes nothing, one with a new number is found.
LEMMA HashesStay ==
    ASSUME NEW rows, NEW row, NEW k, row.seq # k
    PROVE  HashAt(rows \cup {row}, k) = HashAt(rows, k)
<1>1. At(rows \cup {row}, k) = At(rows, k)
  BY DEF At
<1>2. QED
  BY <1>1 DEF HashAt

LEMMA HashIsFound ==
    ASSUME NEW rows, NEW row, NEW k, row.seq = k, \A r \in rows : r.seq # k
    PROVE  HashAt(rows \cup {row}, k) = row.hash
<1>1. At(rows \cup {row}, k) = {row}
  BY DEF At
<1>2. HashOfAny({row}) = row.hash
  BY DEF HashOfAny
<1>3. QED
  BY <1>1, <1>2 DEF HashAt

\* A row with the next number makes its organisation's list longer by its hash.
LEMMA ListGrows ==
    ASSUME TypeOK, NumberInv, NEW row \in Row, log' = log \cup {row},
           row.seq = Cardinality(RowsOf(row.org)) + 1
    PROVE  Entries' = [Entries EXCEPT ![row.org] = Append(@, row.hash)]
<1> DEFINE o == row.org
           n == Cardinality(RowsOf(o))
           old == [k \in 1 .. n |-> EntryAt(o, k)]
           new == [k \in 1 .. n + 1 |-> EntryAt(o, k)']
<1>1. o \in Orgs /\ row.hash \in Nat /\ row.seq = n + 1
  BY DEF Row
<1>2. RowsOf(o)' = RowsOf(o) \cup {row} /\ \A q \in Orgs \ {o} : RowsOf(q)' = RowsOf(q)
  BY DEF RowsOf
<1>3. Numbered(RowsOf(o)) /\ n \in Nat /\ Cardinality(RowsOf(o)') = n + 1
  BY <1>1, <1>2, NumbersGrow DEF NumberInv
<1>4. \A r \in RowsOf(o) : r.seq \in 1 .. n
  BY <1>3 DEF Numbered
<1> HIDE DEF n
<1>5. \A k \in 1 .. n : EntryAt(o, k)' = EntryAt(o, k)
  <2>1. \A k \in 1 .. n : row.seq # k
    BY <1>1, <1>3
  <2>2. QED
    BY <1>2, <2>1, HashesStay, EntriesAreHashes
<1>6. \A k : k = n + 1 => EntryAt(o, k)' = row.hash
  <2> SUFFICES ASSUME NEW k, k = n + 1 PROVE EntryAt(o, k)' = row.hash
    OBVIOUS
  <2>1. row.seq = k /\ \A r \in RowsOf(o) : r.seq # k
    BY <1>1, <1>3, <1>4
  <2>2. HashAt(RowsOf(o) \cup {row}, k) = row.hash
    BY <2>1, HashIsFound
  <2>3. QED
    BY <1>2, <2>2, EntriesAreHashes
<1>7. \A k \in 1 .. n : EntryAt(o, k) \in Nat
  <2> SUFFICES ASSUME NEW k \in 1 .. n PROVE EntryAt(o, k) \in Nat
    OBVIOUS
  <2>1. \A r \in RowsOf(o) : r.hash \in Nat
    BY DEF RowsOf, TypeOK, Row
  <2>2. QED
    BY <2>1 DEF EntryAt, Genesis
<1>8. new = Append(old, row.hash)
  <2>1. old \in Seq(Nat) /\ Len(old) = n
    BY <1>3, <1>7
  <2> HIDE DEF old
  <2>2. /\ Append(old, row.hash) \in Seq(Nat) /\ Len(Append(old, row.hash)) = n + 1
        /\ \A k \in 1 .. n : Append(old, row.hash)[k] = old[k]
        /\ Append(old, row.hash)[n + 1] = row.hash
    BY <1>1, <2>1, AppendProperties
  <2>3. \A k \in 1 .. n : old[k] = EntryAt(o, k)
    BY DEF old
  <2>4. Append(old, row.hash) = [k \in 1 .. n + 1 |-> Append(old, row.hash)[k]]
    BY <2>2
  <2>5. ASSUME NEW k \in 1 .. n + 1 PROVE Append(old, row.hash)[k] = EntryAt(o, k)'
    <3>1. k \in 1 .. n \/ k = n + 1
      BY <1>3
    <3>2. CASE k \in 1 .. n
      BY <1>5, <2>2, <2>3, <3>2
    <3>3. CASE k = n + 1
      BY <1>6, <2>2, <3>3
    <3>4. QED
      BY <3>1, <3>2, <3>3
  <2>6. QED
    BY <2>4, <2>5
<1>9. Entries'[o] = Append(Entries[o], row.hash)
  BY <1>1, <1>3, <1>8 DEF Entries, n
<1>10. \A q \in Orgs \ {o} : Entries'[q] = Entries[q]
  BY <1>2, EntriesAreHashes DEF Entries
<1>11. DOMAIN Entries = Orgs /\ DOMAIN Entries' = Orgs
  BY DEF Entries
<1>12. QED
  BY <1>1, <1>9, <1>10, <1>11 DEF Entries

LEMMA StepIsAbstract ==
    ASSUME OneProcess, {"late", "ttl"} \cap Faults = {}, TypeOK, ChainInv, NumberInv,
           CallsDiffer, [Next]_vars
    PROVE  [Promise!Next]_(Promise!vars)
<1>1. ASSUME NEW c \in Callers, NEW o \in Orgs, Call(c, o) PROVE Promise!Next
  <2>1. /\ log' = log /\ calls' = calls + 1 /\ call[c].step = "idle"
        /\ call'[c] = [step |-> "waiting", org |-> o, hash |-> calls + 1]
        /\ \A d \in Callers \ {c} : call'[d] = call[d]
    BY <1>1 DEF Call, TypeOK
  <2>2. ~Active(c) /\ Active(c)' /\ Asked(c)' = [org |-> o, call |-> calls + 1]
    BY <2>1 DEF Active, Asked, CallOf
  <2>3. \A d \in Callers \ {c} : (Active(d)' <=> Active(d)) /\ Asked(d)' = Asked(d)
    BY <2>1 DEF Active, Asked, CallOf
  <2>4. Pending' = Pending \cup {[org |-> o, call |-> calls + 1]}
    BY <2>2, <2>3, PendingAre
  <2>5. QED
    BY <2>1, <2>4, EntriesStay, AbstractBegin
<1>2. ASSUME NEW c \in Callers, Lock(c) \/ ReadHead(c) PROVE UNCHANGED Promise!vars
  <2>1. /\ UNCHANGED <<log, calls>> /\ Active(c) /\ Active(c)' /\ Asked(c)' = Asked(c)
        /\ \A d \in Callers \ {c} : call'[d] = call[d]
    <3>1. CASE Lock(c)
      BY <3>1, CallShape DEF Lock, TypeOK, Active, Asked, CallOf, Idle
    <3>2. CASE ReadHead(c)
      BY <3>2, ReadHeadFrame DEF Active, Asked, CallOf
    <3>3. QED
      BY <1>2, <3>1, <3>2
  <2>2. \A d \in Callers : (Active(d)' <=> Active(d)) /\ Asked(d)' = Asked(d)
    BY <2>1 DEF Active, Asked, CallOf
  <2>3. Pending' = Pending
    BY <2>2, PendingAre
  <2>4. QED
    BY <2>1, <2>3, EntriesStay, AbstractStutter
<1>3. ASSUME NEW c \in Callers, ReadFails(c) \/ InsertFails(c) PROVE Promise!Next
  <2>1. UNCHANGED <<log, calls>> /\ Return(c)
    BY <1>3 DEF ReadFails, InsertFails
  <2>2. call'[c] = Idle /\ \A d \in Callers \ {c} : call'[d] = call[d]
    BY <2>1, ReturnFrame
  <2>3. ~Active(c)'
    BY <2>2 DEF Active, Idle
  <2>4. \A d \in {c} : ~Active(d)'
    BY <2>3
  <2>5. QED
    BY <2>1, <2>2, <2>4, Withdrawn
<1>4. ASSUME NEW c \in Callers, Insert(c) PROVE Promise!Next
  <2> DEFINE row == call[c].row
  <2>1. /\ call[c].step = "read" /\ row \in Row /\ log' = log \cup {row} /\ calls' = calls
        /\ row.seq = Cardinality(RowsOf(row.org)) + 1
    BY <1>4, CallShape DEF Insert, NumberInv
  <2>2. call'[c] = Idle /\ \A d \in Callers \ {c} : call'[d] = call[d]
    BY <1>4, ReturnFrame DEF Insert
  <2>3. Active(c) /\ ~Active(c)' /\ Asked(c).org = row.org /\ Asked(c).call = row.hash
    BY <2>1, <2>2 DEF Active, Asked, CallOf, Idle
  <2>4. \A d \in Callers \ {c} : /\ (Active(d)' <=> Active(d)) /\ Asked(d)' = Asked(d)
                                 /\ Active(d) => Asked(d) # Asked(c)
    <3>1. \A d \in Callers : Asked(d).call = CallOf(d)
      BY DEF Asked
    <3>2. \A d \in Callers \ {c} : Active(d) => Asked(d) # Asked(c)
      BY <2>3, <3>1 DEF CallsDiffer
    <3>3. \A d \in Callers \ {c} : (Active(d)' <=> Active(d)) /\ Asked(d)' = Asked(d)
      BY <2>2 DEF Active, Asked, CallOf
    <3>4. QED
      BY <3>2, <3>3
  <2>5. Asked(c) \in Pending /\ Pending' = Pending \ {Asked(c)}
    BY <2>3, <2>4, PendingAre
  <2> HIDE DEF row
  <2>6. Entries' = [Entries EXCEPT ![row.org] = Append(@, row.hash)]
    BY <2>1, ListGrows
  <2>7. QED
    BY <2>1, <2>3, <2>5, <2>6, AbstractCommit
<1>5. ASSUME NEW p \in Processes, Restart(p) PROVE Promise!Next
  <2> DEFINE D == {c \in Callers : ProcessOf[c] = p}
  <2>1. /\ UNCHANGED <<log, calls>>
        /\ \A c \in D : call'[c] = Idle
        /\ \A c \in Callers \ D : call'[c] = call[c]
    BY <1>5 DEF Restart
  <2>2. \A c \in D : ~Active(c)'
    BY <2>1 DEF Active, Idle
  <2> HIDE DEF D
  <2>3. D \in SUBSET Callers
    BY DEF D
  <2>4. QED
    BY <2>1, <2>2, <2>3, Withdrawn
<1>6. ~(\E r \in late : LateInsert(r)) /\ ~(\E r \in log : Expire(r))
  BY DEF ChainInv, Expire
<1>7. CASE UNCHANGED vars
  <2>1. UNCHANGED <<log, calls, call>>
    BY <1>7 DEF vars
  <2>2. \A d \in Callers : (Active(d)' <=> Active(d)) /\ Asked(d)' = Asked(d)
    BY <2>1 DEF Active, Asked, CallOf
  <2>3. QED
    BY <2>1, <2>2, PendingAre, EntriesStay, AbstractStutter
<1>8. QED
  BY <1>1, <1>2, <1>3, <1>4, <1>5, <1>6, <1>7 DEF Next, Step

\* One process whose inserts are answered and a table nothing expires from: every
\* call of Append looks to all others like one append to its organisation's list,
\* at one moment while it runs, or like none, whichever calls fail or are cut off.
THEOREM AppendIsAtomic ==
    ASSUME OneProcess, {"late", "ttl"} \cap Faults = {}
    PROVE  Spec => KeepsPromise
<1>1. Init => ChainInv /\ NumberInv /\ CallsDiffer
  <2> SUFFICES ASSUME Init PROVE ChainInv /\ NumberInv /\ CallsDiffer
    OBVIOUS
  <2>1. ChainInv
    BY DEF Init, ChainInv, ChainIntact, IsChain, RowsOf, Holds, Idle
  <2>2. \A o \in Orgs : Numbered(RowsOf(o))
    BY FS_EmptySet DEF Init, RowsOf, Numbered
  <2>3. \A c \in Callers : call[c].step = "idle" /\ ~Active(c)
    BY DEF Init, Idle, Active
  <2>4. NumberInv
    BY <2>2, <2>3 DEF NumberInv
  <2>5. CallsDiffer
    BY <2>3 DEF Init, CallsDiffer
  <2>6. QED
    BY <2>1, <2>4, <2>5
<1>2. TypeOK /\ ChainInv /\ NumberInv /\ CallsDiffer /\ [Next]_vars
          => ChainInv' /\ NumberInv' /\ CallsDiffer' /\ [Promise!Next]_(Promise!vars)
  BY ChainStep, NumberStep, CallsDifferStep, StepIsAbstract
<1>3. QED
  BY <1>1, <1>2, AbstractInit, TypeCorrect, PTL DEF Spec, KeepsPromise, Promise!Spec

(***************************************************************************)
(* Verify: its walk, for any rows.                                         *)
(***************************************************************************)

\* A set of natural numbers that is not empty has a least element.
LEMMA LeastOf ==
    ASSUME NEW S \in SUBSET Nat, S # {}
    PROVE  \E x \in S : \A y \in S : x <= y
<1> DEFINE R == OpToRel(<, Nat)
<1>1. IsWellFoundedOn(R, Nat)
  BY NatLessThanWellFounded
<1>2. \A x, y \in Nat : y < x => <<y, x>> \in R
  BY DEF OpToRel
<1> HIDE DEF R
<1>3. PICK x \in S : \A y \in S : <<y, x>> \notin R
  BY <1>1, WFMin
<1>4. ASSUME NEW y \in S PROVE x <= y
  <2>1. x \in Nat /\ y \in Nat /\ ~(y < x)
    BY <1>2, <1>3
  <2>2. QED
    BY <2>1
<1>5. QED
  BY <1>4

\* The fold of a walk over the rows of seq, as a function of the set of places
\* it has been to.
IsWalk(g, n, seq) ==
    g = [u \in SUBSET (1..n) |->
            IF u = {} THEN Unbroken ELSE Check(g[u \ {Max(u)}], seq[Max(u)])]

LEMMA MaxOfPlaces ==
    ASSUME NEW m \in Nat \ {0}, NEW u \in SUBSET (1..m), m \in u
    PROVE  Max(u) = m
<1>1. \A y \in u : y \in Nat /\ m >= y
  OBVIOUS
<1>2. \A x \in u : (\A y \in u : x >= y) => x = m
  BY <1>1
<1>3. QED
  BY <1>1, <1>2 DEF Max

LEMMA WalkExists ==
    ASSUME NEW n \in Nat, NEW seq
    PROVE  \E g : IsWalk(g, n, seq)
<1> DEFINE B == {m \in Nat : ~\E g : IsWalk(g, m, seq)}
<1>1. SUFFICES ASSUME n \in B PROVE FALSE
  OBVIOUS
<1>2. PICK m \in B : \A k \in B : m <= k
  <2>1. B \in SUBSET Nat /\ B # {}
    BY <1>1
  <2> HIDE DEF B
  <2>2. QED
    BY <2>1, LeastOf
<1>3. m \in Nat /\ ~\E g : IsWalk(g, m, seq)
  OBVIOUS
<1>4. CASE m = 0
  <2> DEFINE g == [u \in SUBSET (1..m) |-> Unbroken]
  <2>1. \A u \in SUBSET (1..m) : u = {}
    BY <1>4
  <2>2. IsWalk(g, m, seq)
    BY <2>1 DEF IsWalk
  <2>3. QED
    BY <1>3, <2>2
<1>5. CASE m # 0
  <2>1. m - 1 \in Nat /\ m - 1 \notin B
    BY <1>2, <1>3, <1>5
  <2>2. PICK h : IsWalk(h, m - 1, seq)
    BY <2>1
  <2> DEFINE F(f, u) == IF u = {} THEN Unbroken ELSE Check(f[u \ {Max(u)}], seq[Max(u)])
             g == [u \in SUBSET (1..m) |->
                      IF m \in u THEN Check(h[u \ {m}], seq[m]) ELSE h[u]]
  <2>3. \A u \in SUBSET (1..m) : u \ {m} \in SUBSET (1..(m - 1))
    BY <1>3, <1>5
  <2>4. \A u \in SUBSET (1..(m - 1)) : u \in SUBSET (1..m) /\ m \notin u /\ h[u] = F(h, u)
    <3>1. \A u \in SUBSET (1..(m - 1)) : u \in SUBSET (1..m) /\ m \notin u
      BY <1>3, <2>1
    <3>2. \A u \in SUBSET (1..(m - 1)) : h[u] = F(h, u)
      BY <2>2, Zenon DEF IsWalk
    <3>3. QED
      BY <3>1, <3>2
  <2>5. ASSUME NEW u \in SUBSET (1..m) PROVE g[u] = F(g, u)
    <3>1. CASE m \in u
      <4>1. Max(u) = m /\ u # {}
        BY <1>3, <1>5, <3>1, MaxOfPlaces
      <4>2. g[u] = Check(h[u \ {m}], seq[m]) /\ g[u \ {m}] = h[u \ {m}]
        BY <2>3, <3>1
      <4> HIDE DEF g
      <4>3. QED
        BY <4>1, <4>2
    <3>2. CASE m \notin u
      <4>1. u \in SUBSET (1..(m - 1)) /\ u \ {Max(u)} \in SUBSET (1..(m - 1))
        BY <2>3, <3>2
      <4>2. g[u] = h[u] /\ g[u \ {Max(u)}] = h[u \ {Max(u)}]
        BY <2>4, <3>2, <4>1
      <4>3. h[u] = F(h, u)
        BY <2>4, <4>1
      <4> HIDE DEF g
      <4>4. QED
        BY <4>2, <4>3
    <3>3. QED
      BY <3>1, <3>2
  <2>6. g = [u \in SUBSET (1..m) |-> g[u]]
    OBVIOUS
  <2>7. g = [u \in SUBSET (1..m) |-> F(g, u)]
    <3> HIDE DEF g, F
    <3>1. [u \in SUBSET (1..m) |-> g[u]] = [u \in SUBSET (1..m) |-> F(g, u)]
      BY <2>5
    <3>2. QED
      BY <2>6, <3>1
  <2> HIDE DEF g
  <2>8. IsWalk(g, m, seq)
    BY <2>7 DEF IsWalk
  <2>9. QED
    BY <1>3, <2>8
<1>6. QED
  BY <1>4, <1>5

LEMMA WalkIsFold ==
    ASSUME NEW n \in Nat, NEW seq, DOMAIN seq = 1..n
    PROVE  \E g : IsWalk(g, n, seq) /\ Walk(seq) = g[1..n]
<1> DEFINE g == CHOOSE g : IsWalk(g, n, seq)
<1>1. IsWalk(g, n, seq)
  BY WalkExists
<1>2. Walk(seq) = g[1..n]
  BY DEF Walk, FoldLeft, MapThenFoldSet, IsWalk
<1>3. QED
  BY <1>1, <1>2

\* How far the rows of seq are a chain: each has the number of its place, and
\* the hash of the row before it.
Linked(seq, k) ==
    \A i \in 1..k : /\ seq[i].seq = i
                    /\ seq[i].prev = IF i = 1 THEN Genesis ELSE seq[i - 1].hash

Reports == [intact : BOOLEAN, brokenAt : Nat, prev : Nat, expect : Nat]

LEMMA CheckReports ==
    ASSUME NEW v \in Reports, NEW r \in Row
    PROVE  /\ Check(v, r) \in Reports
           /\ Check(v, r).intact <=> v.intact /\ r.seq = v.expect /\ r.prev = v.prev
           /\ Check(v, r).intact => /\ Check(v, r).prev = r.hash
                                    /\ Check(v, r).expect = v.expect + 1
<1>1. r.seq \in Nat /\ r.hash \in Nat /\ v.expect + 1 \in Nat
  BY DEF Row, Reports
<1>2. CASE ~v.intact
  <2>1. Check(v, r) = v
    BY <1>2 DEF Check
  <2>2. QED
    BY <1>2, <2>1
<1>3. CASE v.intact /\ ~Fits(v, r)
  <2> DEFINE w == [v EXCEPT !.intact = FALSE, !.brokenAt = r.seq]
  <2>1. Check(v, r) = w
    BY <1>3 DEF Check
  <2>2. w \in Reports /\ ~w.intact
    BY <1>1 DEF Reports
  <2> HIDE DEF w
  <2>3. QED
    BY <1>3, <2>1, <2>2 DEF Fits
<1>4. CASE v.intact /\ Fits(v, r)
  <2> DEFINE w == [v EXCEPT !.prev = r.hash, !.expect = v.expect + 1]
  <2>1. Check(v, r) = w
    BY <1>4 DEF Check
  <2>2. w \in Reports /\ w.prev = r.hash /\ w.expect = v.expect + 1 /\ w.intact = v.intact
    BY <1>1 DEF Reports
  <2> HIDE DEF w
  <2>3. QED
    BY <1>4, <2>1, <2>2 DEF Fits
<1>5. QED
  BY <1>2, <1>3, <1>4

\* What the walk knows after k rows.
Knows(g, seq, k) ==
    /\ g[1..k] \in Reports
    /\ g[1..k].intact <=> Linked(seq, k)
    /\ g[1..k].intact => /\ g[1..k].expect = k + 1
                         /\ g[1..k].prev = IF k = 0 THEN Genesis ELSE seq[k].hash

LEMMA WalkKnows ==
    ASSUME NEW n \in Nat, NEW seq \in [1..n -> Row], NEW g, IsWalk(g, n, seq)
    PROVE  \A k \in 0..n : Knows(g, seq, k)
<1> DEFINE B == {k \in 0..n : ~Knows(g, seq, k)}
<1>1. SUFFICES ASSUME B # {} PROVE FALSE
  OBVIOUS
<1>2. PICK k \in B : \A j \in B : k <= j
  <2>1. B \in SUBSET Nat
    OBVIOUS
  <2> HIDE DEF B
  <2>2. QED
    BY <1>1, <2>1, LeastOf
<1>3. k \in 0..n /\ ~Knows(g, seq, k)
  OBVIOUS
<1>4. \A u \in SUBSET (1..n) :
          g[u] = IF u = {} THEN Unbroken ELSE Check(g[u \ {Max(u)}], seq[Max(u)])
  BY Zenon DEF IsWalk
<1>5. CASE k = 0
  <2>1. 1..k = {} /\ 1..k \in SUBSET (1..n)
    BY <1>5
  <2>2. g[1..k] = Unbroken
    BY <1>4, <2>1
  <2>3. Linked(seq, k)
    BY <2>1 DEF Linked
  <2>4. /\ Unbroken \in Reports /\ Unbroken.intact
        /\ Unbroken.expect = 1 /\ Unbroken.prev = Genesis
    BY DEF Unbroken, Reports, Genesis
  <2>5. QED
    BY <1>3, <1>5, <2>2, <2>3, <2>4 DEF Knows
<1>6. CASE k # 0
  <2> DEFINE j == k - 1
             v == g[1..j]
             r == seq[k]
  <2>1. j \in 0..n /\ j \in Nat /\ k \in 1..n /\ k = j + 1 /\ k \in Nat \ {0}
    BY <1>3, <1>6
  <2>2. Knows(g, seq, j)
    <3>1. j < k
      BY <2>1
    <3>2. j \notin B
      BY <1>2, <2>1, <3>1
    <3>3. QED
      BY <2>1, <3>2
  <2>3. g[1..k] = Check(v, r) /\ r \in Row
    <3>1. 1..k \in SUBSET (1..n) /\ 1..k # {} /\ k \in 1..k
      <4>1. \A i \in 1..k : i \in 1..n
        BY <1>3
      <4>2. k \in 1..k
        BY <1>3, <1>6
      <4>3. QED
        BY <4>1, <4>2
    <3>2. Max(1..k) = k
      BY <2>1, <3>1, MaxOfPlaces
    <3>3. (1..k) \ {k} = 1..j
      BY <2>1
    <3>4. QED
      BY <1>4, <2>1, <3>1, <3>2, <3>3
  <2> HIDE DEF j
  <2>4. v \in Reports /\ (v.intact <=> Linked(seq, j))
        /\ (v.intact => v.expect = k /\ v.prev = IF k = 1 THEN Genesis ELSE seq[k - 1].hash)
    BY <2>1, <2>2 DEF Knows, j
  <2>5. Linked(seq, k) <=>
            /\ Linked(seq, j)
            /\ r.seq = k /\ r.prev = IF k = 1 THEN Genesis ELSE seq[k - 1].hash
    <3>1. k \in 1..k /\ \A i \in 1..j : i \in 1..k
      BY <2>1
    <3>2. \A i \in 1..k : i \in 1..j \/ i = k
      BY <2>1
    <3>3. QED
      BY <3>1, <3>2 DEF Linked, r
  <2> HIDE DEF v, r
  <2>6. /\ Check(v, r) \in Reports
        /\ Check(v, r).intact <=> v.intact /\ r.seq = v.expect /\ r.prev = v.prev
        /\ Check(v, r).intact => Check(v, r).prev = r.hash /\ Check(v, r).expect = v.expect + 1
    BY <2>3, <2>4, CheckReports
  <2>7. Check(v, r).intact <=> Linked(seq, k)
    BY <2>4, <2>5, <2>6
  <2>8. Check(v, r).intact => /\ Check(v, r).expect = k + 1
                              /\ Check(v, r).prev = IF k = 0 THEN Genesis ELSE seq[k].hash
    BY <1>6, <2>4, <2>6 DEF r
  <2>9. QED
    BY <1>3, <2>3, <2>6, <2>7, <2>8 DEF Knows
<1>7. QED
  BY <1>5, <1>6

\* The walk finds its rows intact exactly if they are linked to the last.
LEMMA WalkIsExact ==
    ASSUME NEW n \in Nat, NEW seq \in [1..n -> Row]
    PROVE  Walk(seq).intact \in BOOLEAN /\ (Walk(seq).intact <=> Linked(seq, n))
<1>1. PICK g : IsWalk(g, n, seq) /\ Walk(seq) = g[1..n]
  BY WalkIsFold
<1>2. Knows(g, seq, n)
  BY <1>1, WalkKnows
<1>3. QED
  BY <1>1, <1>2 DEF Knows, Reports

(***************************************************************************)
(* Rows in order: there is one, and linked rows are a chain.               *)
(***************************************************************************)

LEMMA OrderExists ==
    ASSUME NEW rows \in SUBSET Row, IsFiniteSet(rows)
    PROVE  InSeqOrder(rows) # {}
<1> DEFINE Fails(S) == S \in SUBSET Row /\ IsFiniteSet(S) /\ InSeqOrder(S) = {}
           B == {m \in Nat : \E S : Fails(S) /\ Cardinality(S) = m}
<1>1. SUFFICES ASSUME Fails(rows) PROVE FALSE
  OBVIOUS
<1>2. PICK m \in B : \A k \in B : m <= k
  <2>1. Cardinality(rows) \in B
    BY <1>1, FS_CardinalityType
  <2>2. B \in SUBSET Nat /\ B # {}
    BY <2>1
  <2> HIDE DEF B
  <2>3. QED
    BY <2>2, LeastOf
<1>3. PICK S : Fails(S) /\ Cardinality(S) = m
  BY <1>2
<1>4. m \in Nat
  BY <1>2
<1>5. CASE S = {}
  <2>1. m = 0
    BY <1>3, <1>5, FS_EmptySet
  <2> DEFINE s == [i \in 1..m |-> i]
  <2>2. s \in [1..m -> S] /\ DOMAIN s = {}
    BY <2>1
  <2>3. s \in InSeqOrder(S)
    BY <1>3, <2>2 DEF InSeqOrder, IsInjective
  <2>4. QED
    BY <1>3, <2>3
<1>6. CASE S # {}
  <2>1. PICK first \in S : \A r \in S : first.seq <= r.seq
    <3> DEFINE N == {r.seq : r \in S}
    <3>1. N \in SUBSET Nat /\ N # {}
      BY <1>3, <1>6 DEF Row
    <3>2. PICK x \in N : \A y \in N : x <= y
      BY <3>1, LeastOf
    <3>3. QED
      BY <3>2
  <2> DEFINE T == S \ {first}
  <2>2. IsFiniteSet(T) /\ Cardinality(T) = m - 1 /\ T \in SUBSET Row
    BY <1>3, <2>1, FS_RemoveElement
  <2>3. m - 1 \in Nat
    BY <1>4, <2>2, FS_CardinalityType
  <2>4. InSeqOrder(T) # {}
    <3>1. m - 1 \notin B
      BY <1>2, <1>4
    <3>2. QED
      BY <2>2, <2>3, <3>1
  <2>5. PICK s : s \in InSeqOrder(T)
    BY <2>4
  <2>6. /\ s \in [1..(m - 1) -> T]
        /\ \A i, j \in 1..(m - 1) : s[i] = s[j] => i = j
        /\ \A i, j \in 1..(m - 1) : i < j => s[i].seq <= s[j].seq
    BY <2>2, <2>5 DEF InSeqOrder, IsInjective
  <2> DEFINE t == [i \in 1..m |-> IF i = 1 THEN first ELSE s[i - 1]]
  <2>7. \A i \in 1..m : i # 1 => i - 1 \in 1..(m - 1)
    BY <1>4
  <2>8. /\ t \in [1..m -> S]
        /\ \A i \in 1..m : t[i] = IF i = 1 THEN first ELSE s[i - 1]
        /\ \A i \in 1..m : i # 1 => t[i] \in T
    BY <2>1, <2>6, <2>7
  <2> HIDE DEF t
  <2>9. \A i, j \in 1..m : t[i] = t[j] => i = j
    <3> SUFFICES ASSUME NEW i \in 1..m, NEW j \in 1..m, t[i] = t[j] PROVE i = j
      OBVIOUS
    <3>1. CASE i = 1 \/ j = 1
      BY <2>8, <3>1
    <3>2. CASE i # 1 /\ j # 1
      <4>1. i - 1 = j - 1
        BY <2>6, <2>7, <2>8, <3>2
      <4>2. QED
        BY <4>1
    <3>3. QED
      BY <3>1, <3>2
  <2>10. \A i, j \in 1..m : i < j => t[i].seq <= t[j].seq
    <3> SUFFICES ASSUME NEW i \in 1..m, NEW j \in 1..m, i < j PROVE t[i].seq <= t[j].seq
      OBVIOUS
    <3>1. CASE i = 1
      BY <2>1, <2>8, <3>1
    <3>2. CASE i # 1
      <4>1. j # 1 /\ i - 1 < j - 1
        BY <3>2
      <4>2. s[i - 1].seq <= s[j - 1].seq
        BY <2>6, <2>7, <3>2, <4>1
      <4>3. t[i] = s[i - 1] /\ t[j] = s[j - 1]
        BY <2>8, <3>2, <4>1
      <4>4. QED
        BY <4>2, <4>3
    <3>3. QED
      BY <3>1, <3>2
  <2>11. t \in InSeqOrder(S)
    BY <1>3, <2>8, <2>9, <2>10 DEF InSeqOrder, IsInjective
  <2>12. QED
    BY <1>3, <2>11
<1>7. QED
  BY <1>5, <1>6

\* Every row has a place in the order.
LEMMA OrderIsFull ==
    ASSUME NEW rows \in SUBSET Row, IsFiniteSet(rows), NEW s \in InSeqOrder(rows)
    PROVE  /\ Cardinality(rows) \in Nat
           /\ s \in [1..Cardinality(rows) -> rows]
           /\ \A r \in rows : \E i \in 1..Cardinality(rows) : s[i] = r
           /\ \A i, j \in 1..Cardinality(rows) : s[i] = s[j] => i = j
           /\ \A i, j \in 1..Cardinality(rows) : i < j => s[i].seq <= s[j].seq
<1> DEFINE n == Cardinality(rows)
<1>1. n \in Nat
  BY FS_CardinalityType
<1>2. /\ s \in [1..n -> rows]
      /\ \A i, j \in 1..n : s[i] = s[j] => i = j
      /\ \A i, j \in 1..n : i < j => s[i].seq <= s[j].seq
  BY DEF InSeqOrder, IsInjective
<1>3. IsFiniteSet(1..n) /\ Cardinality(1..n) = n
  BY <1>1, FS_Interval
<1>4. s \in Surjection(1..n, rows)
  <2>1. s \in Injection(1..n, rows)
    BY <1>2 DEF Injection, IsInjective
  <2>2. QED
    BY <1>3, <2>1, FS_Injection
<1>5. \A r \in rows : \E i \in 1..n : s[i] = r
  BY <1>4 DEF Surjection
<1>6. QED
  BY <1>1, <1>2, <1>5

\* Rows in order are linked to the last exactly if they are a chain.
LEMMA LinkedIsChain ==
    ASSUME NEW rows \in SUBSET Row, IsFiniteSet(rows), NEW s \in InSeqOrder(rows)
    PROVE  Linked(s, Cardinality(rows)) <=> IsChain(rows)
<1> DEFINE n == Cardinality(rows)
<1>1. /\ n \in Nat /\ s \in [1..n -> rows]
      /\ \A r \in rows : \E i \in 1..n : s[i] = r
      /\ \A i, j \in 1..n : s[i] = s[j] => i = j
      /\ \A i, j \in 1..n : i < j => s[i].seq <= s[j].seq
  BY OrderIsFull
<1>2. \A i \in 1..n : s[i] \in rows /\ s[i].seq \in Nat \ {0}
  BY <1>1 DEF Row
<1> HIDE DEF n
<1>3. ASSUME Linked(s, n) PROVE IsChain(rows)
  <2>1. ASSUME NEW q \in rows, NEW r \in rows, q.seq = r.seq PROVE q = r
    <3>1. PICK i \in 1..n : s[i] = q
      BY <1>1
    <3>2. PICK j \in 1..n : s[j] = r
      BY <1>1
    <3>3. i = j
      BY <1>3, <2>1, <3>1, <3>2 DEF Linked
    <3>4. QED
      BY <3>1, <3>2, <3>3
  <2>2. ASSUME NEW r \in rows
        PROVE  \/ r.seq = 1 /\ r.prev = Genesis
               \/ \E q \in rows : Follows(q, r)
    <3>1. PICK i \in 1..n : s[i] = r
      BY <1>1
    <3>2. CASE i = 1
      BY <1>3, <3>1, <3>2 DEF Linked
    <3>3. CASE i # 1
      <4>1. i - 1 \in 1..n /\ i - 1 + 1 = i
        BY <1>1, <3>3
      <4>2. s[i - 1].seq = i - 1 /\ r.seq = i /\ r.prev = s[i - 1].hash
        BY <1>3, <3>1, <3>3, <4>1 DEF Linked
      <4>3. Follows(s[i - 1], r)
        BY <4>1, <4>2 DEF Follows
      <4>4. QED
        BY <1>2, <4>1, <4>3
    <3>4. QED
      BY <3>2, <3>3
  <2>3. QED
    BY <2>1, <2>2 DEF IsChain
<1>4. ASSUME IsChain(rows) PROVE Linked(s, n)
  <2>1. ASSUME NEW i \in 1..n, NEW j \in 1..n, i < j PROVE s[i].seq < s[j].seq
    <3>1. s[i].seq # s[j].seq
      <4>1. s[i] # s[j]
        BY <1>1, <2>1
      <4>2. QED
        BY <1>2, <1>4, <4>1 DEF IsChain
    <3>2. s[i].seq <= s[j].seq
      BY <1>1, <2>1
    <3>3. QED
      BY <1>2, <3>1, <3>2
  <2>2. ASSUME NEW i \in 1..n
        PROVE  \/ s[i].seq = 1 /\ s[i].prev = Genesis
               \/ \E j \in 1..n : s[j].seq + 1 = s[i].seq /\ s[j].hash = s[i].prev
    <3>1. CASE \E q \in rows : Follows(q, s[i])
      BY <1>1, <3>1 DEF Follows
    <3>2. QED
      BY <1>2, <1>4, <3>1 DEF IsChain
  <2>3. \A i \in 1..n : s[i].seq = i
    <3> DEFINE B == {i \in 1..n : s[i].seq # i}
    <3>1. SUFFICES ASSUME B # {} PROVE FALSE
      OBVIOUS
    <3>2. PICK i \in B : \A j \in B : i <= j
      <4>1. B \in SUBSET Nat
        BY <1>1
      <4> HIDE DEF B
      <4>2. QED
        BY <3>1, <4>1, LeastOf
    <3>3. i \in 1..n /\ s[i].seq # i /\ i \in Nat \ {0}
      BY <1>1
    <3>4. \A j \in 1..n : j < i => s[j].seq = j
      <4>1. \A j \in 1..n : j < i => j \notin B
        BY <1>1, <3>2, <3>3
      <4>2. QED
        BY <4>1
    <3> HIDE DEF B
    <3>5. s[i].seq >= i
      <4>1. CASE i = 1
        BY <1>2, <3>3, <4>1
      <4>2. CASE i # 1
        <5>1. i - 1 \in 1..n /\ i - 1 < i
          BY <1>1, <3>3, <4>2
        <5>2. s[i - 1].seq = i - 1 /\ s[i - 1].seq < s[i].seq
          BY <2>1, <3>3, <3>4, <5>1
        <5>3. QED
          BY <1>2, <3>3, <5>2
      <4>3. QED
        BY <4>1, <4>2
    <3>6. s[i].seq <= i
      <4>1. CASE s[i].seq = 1
        BY <3>3, <4>1
      <4>2. ASSUME NEW j \in 1..n, s[j].seq + 1 = s[i].seq PROVE s[i].seq <= i
        <5>1. s[j].seq < s[i].seq /\ s[j].seq \in Nat /\ s[i].seq \in Nat
          BY <1>2, <3>3, <4>2
        <5>2. ~(i < j)
          BY <2>1, <3>3, <5>1
        <5>3. i # j
          BY <5>1
        <5>4. j < i /\ j \in Nat
          BY <1>1, <3>3, <5>2, <5>3
        <5>5. s[j].seq = j
          BY <3>4, <5>4
        <5>6. QED
          BY <3>3, <4>2, <5>4, <5>5
      <4>3. QED
        BY <2>2, <3>3, <4>1, <4>2
    <3>7. QED
      BY <1>2, <3>3, <3>5, <3>6
  <2>4. ASSUME NEW i \in 1..n
        PROVE  s[i].prev = IF i = 1 THEN Genesis ELSE s[i - 1].hash
    <3>1. s[i].seq = i
      BY <2>3
    <3>2. CASE i = 1
      <4>1. ASSUME NEW j \in 1..n, s[j].seq + 1 = s[i].seq PROVE FALSE
        <5>1. s[j].seq = j
          BY <2>3
        <5>2. j \in Nat \ {0}
          BY <1>1
        <5>3. QED
          BY <3>1, <3>2, <4>1, <5>1, <5>2
      <4>2. QED
        BY <2>2, <3>2, <4>1
    <3>3. CASE i # 1
      <4>1. PICK j \in 1..n : s[j].seq + 1 = s[i].seq /\ s[j].hash = s[i].prev
        BY <2>2, <3>1, <3>3
      <4>2. s[j].seq = j
        BY <2>3
      <4>3. j = i - 1
        BY <1>1, <3>1, <4>1, <4>2
      <4>4. QED
        BY <3>3, <4>1, <4>3
    <3>4. QED
      BY <3>2, <3>3
  <2>5. QED
    BY <2>3, <2>4 DEF Linked
<1>5. QED
  BY <1>3, <1>4 DEF n

(***************************************************************************)
(* The log is finite: a step adds at most one row.                         *)
(***************************************************************************)

LEMMA LogStaysFinite == IsFiniteSet(log) /\ [Next]_vars => IsFiniteSet(log)'
<1> SUFFICES ASSUME IsFiniteSet(log), [Next]_vars PROVE IsFiniteSet(log')
  OBVIOUS
<1>1. \A r : IsFiniteSet(log \cup {r}) /\ IsFiniteSet(log \ {r})
  BY FS_AddElement, FS_RemoveElement
<1>2. ASSUME NEW c \in Callers, Step(c) PROVE IsFiniteSet(log')
  <2>1. log' = log \/ \E r : log' = log \cup {r}
    BY <1>2 DEF Step, Lock, ReadHead, ReadFails, Insert, InsertFails
  <2>2. QED
    BY <1>1, <2>1
<1>3. ASSUME NEW c \in Callers, NEW o \in Orgs, Call(c, o) PROVE IsFiniteSet(log')
  BY <1>3 DEF Call
<1>4. ASSUME NEW r \in late, LateInsert(r) PROVE IsFiniteSet(log')
  BY <1>1, <1>4 DEF LateInsert
<1>5. ASSUME NEW p \in Processes, Restart(p) PROVE IsFiniteSet(log')
  BY <1>5 DEF Restart
<1>6. ASSUME NEW r \in log, Expire(r) PROVE IsFiniteSet(log')
  BY <1>1, <1>6 DEF Expire
<1>7. CASE UNCHANGED vars
  BY <1>7 DEF vars
<1>8. QED
  BY <1>2, <1>3, <1>4, <1>5, <1>6, <1>7 DEF Next

\* Verify answers, and says that the chain is intact exactly when the rows are
\* one: for every number of processes and calls, whatever failed or expired, and
\* in whichever order the database returns rows of one number.
THEOREM VerifySpeaksTrue == Spec => []VerifyIsExact
<1>1. Init => IsFiniteSet(log)
  BY FS_EmptySet DEF Init
<1>2. TypeOK /\ IsFiniteSet(log) => VerifyIsExact
  <2> SUFFICES ASSUME TypeOK, IsFiniteSet(log), NEW o \in Orgs
               PROVE  {v.intact : v \in Verify(o)} = {IsChain(RowsOf(o))}
    BY DEF VerifyIsExact
  <2> DEFINE rows == RowsOf(o)
             n == Cardinality(rows)
  <2>1. rows \in SUBSET Row /\ IsFiniteSet(rows)
    <3>1. rows \subseteq log
      BY DEF RowsOf
    <3>2. QED
      BY <3>1, FS_Subset DEF TypeOK
  <2>2. ASSUME NEW s \in InSeqOrder(rows) PROVE Walk(s).intact = IsChain(rows)
    <3>1. n \in Nat /\ s \in [1..n -> rows]
      BY <2>1, OrderIsFull
    <3>2. s \in [1..n -> Row]
      BY <2>1, <3>1
    <3>3. Linked(s, n) <=> IsChain(rows)
      BY <2>1, LinkedIsChain
    <3> HIDE DEF n
    <3>4. Walk(s).intact \in BOOLEAN /\ (Walk(s).intact <=> Linked(s, n))
      BY <3>1, <3>2, WalkIsExact
    <3>5. IsChain(rows) \in BOOLEAN
      BY DEF IsChain
    <3>6. QED
      BY <3>3, <3>4, <3>5
  <2>3. InSeqOrder(rows) # {}
    BY <2>1, OrderExists
  <2> HIDE DEF rows
  <2>4. {Walk(s).intact : s \in InSeqOrder(rows)} = {IsChain(rows)}
    BY <2>2, <2>3
  <2>5. QED
    BY <2>4 DEF Verify, rows
<1>3. QED
  BY <1>1, <1>2, LogStaysFinite, TypeCorrect, PTL DEF Spec
=============================================================================
