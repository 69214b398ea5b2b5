------------------------- MODULE SignInFlow_proofs -------------------------
(***************************************************************************)
(* Proofs about SignInFlow, for every set of people, tabs, links and       *)
(* organisations, and every bound.                                         *)
(***************************************************************************)
EXTENDS SignInFlow, WellFoundedInduction, TLAPS

\* A set of natural numbers that is not empty has a least element.
LEMMA LeastOf ==
    ASSUME NEW S \in SUBSET Nat, S # {}
    PROVE  \E x \in S : \A y \in S : x <= y
  <1>. DEFINE R == OpToRel(<, Nat)
  <1>1. IsWellFoundedOn(R, Nat)
    BY NatLessThanWellFounded
  <1>2. \A x, y \in Nat : y < x => <<y, x>> \in R
    BY DEF OpToRel
  <1>. HIDE DEF R
  <1>3. PICK x \in S : \A y \in S : <<y, x>> \notin R
    BY <1>1, WFMin
  <1>4. ASSUME NEW y \in S PROVE x <= y
    <2>1. x \in Nat /\ y \in Nat /\ ~(y < x)
      BY <1>2, <1>3
    <2>. QED BY <2>1
  <1>. QED BY <1>4

(***************************************************************************)
(* The inductive invariant.                                                *)
(***************************************************************************)
Kinds == {"none", "register", "bootstrap", "accept", "invite"}
Words == {"", "ok", "taken", "refused", "not found", "wrong account", "elsewhere", "denied",
          "already", "error"}
Holding == {"held", "joined", "spent"}
Inviting == {"checked", "superseded", "invited"}
Joining == {"read", "founded", "joined"}
Places == Holding \cup Inviting \cup Joining \cup {"none", "locked", "answered"}

Txs == [kind : Kinds, at : Places, by : People \cup {Nobody}, org : Slugs \cup {NoOrg},
        since : Nat, link : Links \cup {"none"}, email : People \cup {Nobody}, role : Roles,
        superseded : SUBSET Links, answer : Words]
Invitations == [state : {"unused", "pending", "accepted", "revoked"},
                org : Slugs \cup {NoOrg}, email : People \cup {Nobody}, role : Roles,
                by : People \cup {Nobody}, expired : BOOLEAN]
Members == [user : users, org : orgs, role : Roles, since : 0..begun, until : 0..begun]

Types ==
    /\ txs \in [Tabs -> Txs]
    /\ invites \in [Links -> Invitations]
    /\ orgs \subseteq Slugs
    /\ begun \in Nat
    /\ members \subseteq Members
    /\ passwords \subseteq users /\ sessions \subseteq users
    /\ users \subseteq People

\* Somebody of the organisation may grant the role.
Grants(by, org, role) ==
    \E o \in members : o.user = by /\ o.org = org /\ role \in CanGrant[o.role]

\* What a tab's transaction knows, and what its locks keep true.
TabInv(t) ==
    /\ txs[t].at \notin {"superseded", "invited"} => txs[t].superseded = {}
    /\ txs[t].at \notin {"none", "answered"} => txs[t].by = OwnerOf[t]
    /\ txs[t].at \notin {"none", "answered", "locked"} =>
           txs[t].by \in users /\ txs[t].kind # "bootstrap"
    /\ txs[t].at = "locked" => passwords = {} /\ txs[t].org \in Slugs
    /\ txs[t].at = "answered" /\ txs[t].kind = "bootstrap" /\ txs[t].answer = "ok" =>
           OwnerOf[t] \in users
    /\ txs[t].at \in Holding =>
           /\ txs[t].link \in Links
           /\ invites[txs[t].link].state = "pending"
           /\ invites[txs[t].link].email = txs[t].by
           /\ invites[txs[t].link].org = txs[t].org
           /\ invites[txs[t].link].role = txs[t].role
    /\ \A l \in txs[t].superseded : invites[l].state = "pending"
    /\ txs[t].at \in Inviting =>
           /\ txs[t].link \in Links
           /\ invites[txs[t].link].state = "unused"
           /\ Grants(txs[t].by, txs[t].org, txs[t].role)
    /\ txs[t].at \in Joining \cup {"held", "locked"} => txs[t].since <= begun
    /\ txs[t].at \in {"read", "founded"} => txs[t].org \in Slugs
    /\ txs[t].at \in Joining =>
           \A m \in members : m.user = txs[t].by => txs[t].since <= m.until

\* What two transactions never share.
PairInv(t, o) ==
    /\ HeldBy(t) \cap HeldBy(o) = {}
    /\ ~(txs[t].at = "locked" /\ txs[o].at = "locked")
    /\ txs[t].at \in Inviting /\ txs[o].at \in Inviting => txs[t].link # txs[o].link

TabsInv ==
    /\ \A t \in Tabs : TabInv(t)
    /\ \A t, o \in Tabs : t # o => PairInv(t, o)

LinksInv == \A l \in Links :
    invites[l].state # "unused" => Grants(invites[l].by, invites[l].org, invites[l].role)

RowsInv == OneOwnerByToken /\ SecondJoinOverlaps /\ LinksInv /\ MembershipIsInvited

Inv == Types /\ TabsInv /\ RowsInv

(***************************************************************************)
(* Who belongs where.                                                      *)
(***************************************************************************)
LEMMA FirstIsMember ==
    ASSUME Types, NEW p, MembershipsOf(p) # {}
    PROVE  FirstOf(p) \in members /\ FirstOf(p).user = p
  <1>. DEFINE S == {m.since : m \in MembershipsOf(p)}
  <1>1. \A m \in MembershipsOf(p) : m \in members /\ m.user = p /\ m.since \in Nat
    BY DEF Types, MembershipsOf, Members
  <1>2. S \in SUBSET Nat /\ S # {}
    BY <1>1
  <1>3. PICK x \in S : \A y \in S : x <= y
    BY <1>2, LeastOf
  <1>4. PICK m \in MembershipsOf(p) : m.since = x
    OBVIOUS
  <1>5. \A o \in MembershipsOf(p) : m.since <= o.since
    BY <1>3, <1>4
  <1>6. FirstOf(p) \in MembershipsOf(p)
    BY <1>5 DEF FirstOf
  <1>. QED BY <1>1, <1>6

LEMMA Belonging ==
    ASSUME Types, NEW p
    PROVE  /\ OrgOf(p) = NoOrg <=> MembershipsOf(p) = {}
           /\ OrgOf(p) \in Slugs \cup {NoOrg}
           /\ MembershipOf(p).role \in Roles
           /\ \A role : MayGrant(p, role) => Grants(p, OrgOf(p), role)
  <1>1. CASE MembershipsOf(p) = {}
    BY <1>1 DEF OrgOf, MembershipOf, MayGrant, Roles
  <1>2. CASE MembershipsOf(p) # {}
    <2>. DEFINE m == FirstOf(p)
    <2>1. m \in members /\ m.user = p
      BY <1>2, FirstIsMember
    <2>2. m.org \in Slugs /\ m.role \in Roles
      BY <2>1 DEF Types, Members
    <2>3. OrgOf(p) = m.org /\ MembershipOf(p).role = m.role
      BY <1>2 DEF OrgOf, MembershipOf
    <2>4. m.org # NoOrg
      BY <2>2, SlugsAssumption DEF NoOrg
    <2>. HIDE DEF m
    <2>. QED BY <1>2, <2>1, <2>2, <2>3, <2>4 DEF MayGrant, Grants
  <1>. QED BY <1>1, <1>2

(***************************************************************************)
(* What a step leaves to the transactions T it does not move.              *)
(***************************************************************************)
Uses(o) == HeldBy(o) \cup (IF txs[o].at \in Inviting THEN {txs[o].link} ELSE {})

SameLink(l) == /\ invites'[l].state = invites[l].state
               /\ invites'[l].email = invites[l].email
               /\ invites'[l].org = invites[l].org
               /\ invites'[l].role = invites[l].role

RowsMove(T) ==
    /\ users \subseteq users' /\ members \subseteq members'
    /\ begun' \in {begun, begun + 1}
    /\ passwords' = passwords \/ \A o \in T : txs[o].at # "locked"
    /\ \A m \in members' \ members : m.until = begun
    /\ \A o \in T : \A l \in Uses(o) : SameLink(l)

LEMMA OthersKeep ==
    ASSUME Types, TabsInv, NEW T \in SUBSET Tabs, RowsMove(T),
           \A o \in T : txs'[o] = txs[o]
    PROVE  /\ \A o \in T : TabInv(o)'
           /\ \A o, q \in T : o # q => PairInv(o, q)'
  <1>1. ASSUME NEW o \in T PROVE TabInv(o)'
    <2>1. TabInv(o) /\ txs'[o] = txs[o] /\ txs[o] \in Txs
      BY DEF TabsInv, Types
    <2>2. txs[o].since \in Nat /\ begun \in Nat
      BY <2>1 DEF Types, Txs
    <2>3. txs[o].since <= begun => txs[o].since <= begun'
      BY <2>2 DEF RowsMove
    <2>4. \A l \in Uses(o) : SameLink(l)
      BY DEF RowsMove
    <2>5. \A l \in txs[o].superseded : l \in Uses(o)
      BY <2>1 DEF Uses, HeldBy, TabInv, Inviting
    <2>6. txs[o].at \in Holding \cup Inviting => txs[o].link \in Uses(o)
      BY DEF Uses, HeldBy, Holding
    <2>7. Grants(txs[o].by, txs[o].org, txs[o].role)
              => Grants(txs[o].by, txs[o].org, txs[o].role)'
      BY <2>1 DEF Grants, RowsMove
    <2>8. \A l \in txs[o].superseded : invites'[l].state = "pending"
      BY <2>1, <2>4, <2>5 DEF TabInv, SameLink
    <2>9. txs[o].at \in Holding =>
              /\ txs[o].link \in Links
              /\ invites'[txs[o].link].state = "pending"
              /\ invites'[txs[o].link].email = txs[o].by
              /\ invites'[txs[o].link].org = txs[o].org
              /\ invites'[txs[o].link].role = txs[o].role
      BY <2>1, <2>4, <2>6 DEF TabInv, SameLink
    <2>10. txs[o].at \in Inviting =>
              txs[o].link \in Links /\ invites'[txs[o].link].state = "unused"
      BY <2>1, <2>4, <2>6 DEF TabInv, SameLink
    <2>11. txs[o].at \in Joining =>
               \A m \in members' : m.user = txs[o].by => txs[o].since <= m.until
      BY <2>1 DEF TabInv, RowsMove
    <2>12. txs[o].at = "locked" => passwords' = {}
      BY <2>1 DEF TabInv, RowsMove
    <2>. QED
      BY <2>1, <2>3, <2>7, <2>8, <2>9, <2>10, <2>11, <2>12 DEF TabInv, RowsMove
  <1>2. \A o, q \in T : o # q => PairInv(o, q)'
    BY DEF TabsInv, PairInv, HeldBy
  <1>. QED BY <1>1, <1>2

(***************************************************************************)
(* One transaction moves, nothing is committed.                            *)
(***************************************************************************)
RowsStay ==
    UNCHANGED <<users, passwords, orgs, members, invites>> /\ sessions' \subseteq users

LEMMA SetType ==
    ASSUME Types, NEW t \in Tabs, NEW x \in Txs, Set(t, x)
    PROVE  /\ txs' \in [Tabs -> Txs] /\ txs'[t] = x
           /\ \A o \in Tabs \ {t} : txs'[o] = txs[o]
  BY DEF Types, Set

LEMMA RowsAsBefore ==
    ASSUME Types, RowsInv, RowsStay, begun' \in {begun, begun + 1}, txs' \in [Tabs -> Txs]
    PROVE  Types' /\ RowsInv' /\ \A T \in SUBSET Tabs : RowsMove(T)
  <1>. USE DEF RowsStay
  <1>1. Types'
    <2>1. begun' \in Nat /\ begun \in Nat /\ begun <= begun'
      BY DEF Types
    <2>2. \A i \in 0..begun : i \in 0..begun'
      BY <2>1
    <2>3. members \subseteq Members'
      BY <2>2 DEF Types, Members
    <2>. QED BY <2>1, <2>3 DEF Types, Invitations
  <1>2. RowsInv'
    BY DEF RowsInv, OneOwnerByToken, SecondJoinOverlaps, LinksInv, Grants, MembershipIsInvited
  <1>3. \A T \in SUBSET Tabs : RowsMove(T)
    BY DEF RowsMove, SameLink
  <1>. QED BY <1>1, <1>2, <1>3

\* A tab moves to x, which must fit the rows and the other tabs.
LEMMA Moves ==
    ASSUME Inv, RowsStay, begun' \in {begun, begun + 1},
           NEW t \in Tabs, NEW x \in Txs, Set(t, x),
           TabInv(t)', \A o \in Tabs \ {t} : PairInv(t, o)'
    PROVE  Inv'
  <1>1. Types /\ TabsInv /\ RowsInv
    BY DEF Inv
  <1>2. /\ txs' \in [Tabs -> Txs] /\ txs'[t] = x
        /\ \A o \in Tabs \ {t} : txs'[o] = txs[o]
    BY <1>1, SetType
  <1>3. Types' /\ RowsInv' /\ RowsMove(Tabs \ {t})
    BY <1>1, <1>2, RowsAsBefore
  <1>4. /\ \A o \in Tabs \ {t} : TabInv(o)'
        /\ \A o, q \in Tabs \ {t} : o # q => PairInv(o, q)'
    BY <1>1, <1>2, <1>3, OthersKeep
  <1>5. \A o \in Tabs \ {t} : PairInv(o, t)'
    BY DEF PairInv
  <1>6. TabsInv'
    BY <1>4, <1>5 DEF TabsInv
  <1>. QED BY <1>3, <1>6 DEF Inv

\* A transaction that is over, or none.
Over(x) ==
    /\ x \in Txs /\ x.at \in {"none", "answered"} /\ x.superseded = {}
    /\ x.kind = "bootstrap" => x.answer # "ok"

LEMMA Closes ==
    ASSUME Inv, RowsStay, begun' = begun, NEW t \in Tabs, NEW x, Over(x), Set(t, x)
    PROVE  Inv'
  <1>1. Types /\ x \in Txs
    BY DEF Inv, Over
  <1>2. txs'[t] = x /\ \A o \in Tabs \ {t} : txs'[o] = txs[o]
    BY <1>1, SetType
  <1>3. TabInv(t)'
    BY <1>2 DEF TabInv, Over, Holding, Inviting, Joining
  <1>4. \A o \in Tabs \ {t} : PairInv(t, o)'
    BY <1>2 DEF PairInv, HeldBy, Over, Holding, Inviting
  <1>. QED BY <1>1, <1>3, <1>4, Moves

LEMMA AnswersType ==
    ASSUME NEW x \in Txs, NEW word \in Words
    PROVE  /\ Answers(x, word) \in Txs
           /\ Answers(x, word).at = "answered" /\ Answers(x, word).superseded = {}
           /\ Answers(x, word).kind = x.kind /\ Answers(x, word).answer = word
  BY DEF Answers, NoTx, Txs, Places, Roles

LEMMA NoTxType == Over(NoTx)
  BY DEF Over, NoTx, Txs, Kinds, Places, Words, Roles

(***************************************************************************)
(* Begin.                                                                  *)
(***************************************************************************)
LEMMA TxFields ==
    ASSUME begun \in Nat, NEW kind \in Kinds, NEW at \in Places, NEW p \in People
    PROVE  /\ Tx(kind, at, p) \in Txs
           /\ Tx(kind, at, p).kind = kind /\ Tx(kind, at, p).at = at
           /\ Tx(kind, at, p).by = p /\ Tx(kind, at, p).since = begun + 1
           /\ Tx(kind, at, p).superseded = {}
  <1>1. NoTx \in Txs
    BY DEF NoTx, Txs, Kinds, Places, Words, Roles
  <1>2. NoTx.superseded = {}
    BY DEF NoTx
  <1>. DEFINE x == Tx(kind, at, p)
  <1>3. x = [NoTx EXCEPT !.kind = kind, !.at = at, !.by = p, !.since = begun + 1]
    BY DEF Tx
  <1>4. begun + 1 \in Nat
    OBVIOUS
  <1>5. x \in Txs
    BY <1>1, <1>3, <1>4 DEF Txs
  <1>6. x.kind = kind /\ x.at = at
    BY <1>1, <1>3 DEF Txs
  <1>7. x.by = p /\ x.since = begun + 1 /\ x.superseded = {}
    BY <1>1, <1>2, <1>3 DEF Txs
  <1>. QED BY <1>5, <1>6, <1>7

LEMMA RegisterBeginInv ==
    ASSUME Inv, UNCHANGED sessions, NEW t \in Tabs, NEW slug \in Slugs,
           OwnerOf[t] \in users, RegisterBegin(t, OwnerOf[t], slug)
    PROVE  Inv'
  <1>. DEFINE p == OwnerOf[t]
              tx == [Tx("register", "read", p) EXCEPT !.org = slug]
  <1>1. RowsStay /\ Types /\ p \in People
    BY TabsAssumption DEF RegisterBegin, UnchangedRows, RowsStay, Inv, Types
  <1>2. /\ tx \in Txs /\ tx.kind = "register" /\ tx.at = "read" /\ tx.by = p
        /\ tx.superseded = {} /\ tx.since = begun + 1 /\ tx.org = slug
    <2>. DEFINE y == Tx("register", "read", p)
    <2>1. /\ y \in Txs /\ y.kind = "register" /\ y.at = "read" /\ y.by = p
          /\ y.since = begun + 1 /\ y.superseded = {}
      BY <1>1, TxFields DEF Types, Kinds, Places, Holding, Inviting, Joining
    <2>2. tx = [y EXCEPT !.org = slug]
      OBVIOUS
    <2>. HIDE DEF y, tx
    <2>3. tx \in Txs
      BY <1>1, <2>1, <2>2 DEF Txs
    <2>4. tx.kind = y.kind /\ tx.at = y.at /\ tx.by = y.by
      BY <2>1, <2>2 DEF Txs
    <2>5. tx.superseded = y.superseded /\ tx.since = y.since
      BY <2>1, <2>2 DEF Txs
    <2>6. tx.org = slug
      BY <2>1, <2>2 DEF Txs
    <2>. QED BY <2>1, <2>3, <2>4, <2>5, <2>6
  <1>3. CASE MembershipsOf(p) # {}
    <2>. DEFINE x == Answers(tx, "ok")
    <2>1. x \in Txs /\ x.at = "answered" /\ x.superseded = {} /\ x.kind = "register"
      <3>. HIDE DEF tx
      <3>. QED BY <1>2, AnswersType DEF Words
    <2>2. Opens(t, x)
      BY <1>3 DEF RegisterBegin
    <2>. HIDE DEF x
    <2>3. Set(t, x) /\ begun' = begun
      BY <2>1, <2>2 DEF Opens
    <2>4. Over(x)
      BY <2>1 DEF Over
    <2>. QED BY <1>1, <2>3, <2>4, Closes
  <1>4. CASE MembershipsOf(p) = {}
    <2>1. Opens(t, tx)
      BY <1>4 DEF RegisterBegin
    <2>2. Set(t, tx) /\ begun' = begun + 1
      BY <1>2, <2>1 DEF Opens
    <2>3. txs'[t] = tx
      BY <1>1, <1>2, <2>2, SetType
    <2>4. \A m \in members : m.user # p
      BY <1>4 DEF MembershipsOf
    <2>5. begun + 1 <= begun'
      BY <1>1, <2>2 DEF Types
    <2>6. TabInv(t)'
      BY <1>1, <1>2, <2>3, <2>4, <2>5 DEF TabInv, RowsStay, Holding, Inviting
    <2>7. \A o \in Tabs \ {t} : PairInv(t, o)'
      BY <1>2, <2>3 DEF PairInv, HeldBy, Holding, Inviting
    <2>. HIDE DEF tx
    <2>. QED BY <1>1, <1>2, <2>2, <2>6, <2>7, Moves
  <1>. QED BY <1>3, <1>4

LEMMA BootstrapBeginInv ==
    ASSUME Inv, UNCHANGED sessions, NEW t \in Tabs, BootstrapBegin(t, OwnerOf[t])
    PROVE  Inv'
  <1>. DEFINE p == OwnerOf[t]
              tx == [Tx("bootstrap", "locked", p) EXCEPT !.org = SlugOf[p]]
  <1>1. RowsStay /\ Types /\ p \in People /\ SlugOf[p] \in Slugs
    BY TabsAssumption, SlugsAssumption DEF BootstrapBegin, UnchangedRows, RowsStay, Inv, Types
  <1>2. /\ tx \in Txs /\ tx.kind = "bootstrap" /\ tx.at = "locked" /\ tx.by = p
        /\ tx.superseded = {} /\ tx.since = begun + 1 /\ tx.org = SlugOf[p]
    <2>. DEFINE y == Tx("bootstrap", "locked", p)
    <2>1. /\ y \in Txs /\ y.kind = "bootstrap" /\ y.at = "locked" /\ y.by = p
          /\ y.since = begun + 1 /\ y.superseded = {}
      BY <1>1, TxFields DEF Types, Kinds, Places, Holding, Inviting, Joining
    <2>2. tx = [y EXCEPT !.org = SlugOf[p]]
      OBVIOUS
    <2>. HIDE DEF y, tx
    <2>3. tx \in Txs
      BY <1>1, <2>1, <2>2 DEF Txs
    <2>4. tx.kind = y.kind /\ tx.at = y.at /\ tx.by = y.by
      BY <2>1, <2>2 DEF Txs
    <2>5. tx.superseded = y.superseded /\ tx.since = y.since
      BY <2>1, <2>2 DEF Txs
    <2>6. tx.org = SlugOf[p]
      BY <2>1, <2>2 DEF Txs
    <2>. QED BY <2>1, <2>3, <2>4, <2>5, <2>6
  <1>3. CASE users # {}
    <2>. DEFINE x == Answers(tx, "refused")
    <2>1. x \in Txs /\ x.at = "answered" /\ x.superseded = {} /\ x.answer = "refused"
      <3>. HIDE DEF tx
      <3>. QED BY <1>2, AnswersType DEF Words
    <2>2. Opens(t, x)
      BY <1>3 DEF BootstrapBegin
    <2>. HIDE DEF x
    <2>3. Set(t, x) /\ begun' = begun
      BY <2>1, <2>2 DEF Opens
    <2>4. Over(x)
      BY <2>1 DEF Over
    <2>. QED BY <1>1, <2>3, <2>4, Closes
  <1>4. CASE users = {}
    <2>1. Opens(t, tx)
      BY <1>4 DEF BootstrapBegin
    <2>2. Set(t, tx) /\ begun' = begun + 1
      BY <1>2, <2>1 DEF Opens
    <2>3. txs'[t] = tx /\ \A o \in Tabs \ {t} : txs'[o] = txs[o]
      BY <1>1, <1>2, <2>2, SetType
    <2>4. passwords = {}
      BY <1>1, <1>4 DEF Types
    <2>5. begun + 1 <= begun'
      BY <1>1, <2>2 DEF Types
    <2>6. TabInv(t)'
      BY <1>1, <1>2, <2>3, <2>4, <2>5 DEF TabInv, RowsStay, Holding, Inviting, Joining
    <2>7. \A o \in Tabs \ {t} : txs[o].at # "locked"
      BY DEF BootstrapBegin, TableLocked
    <2>8. \A o \in Tabs \ {t} : PairInv(t, o)'
      BY <1>2, <2>3, <2>7 DEF PairInv, HeldBy, Holding, Inviting
    <2>. HIDE DEF tx
    <2>. QED BY <1>1, <1>2, <2>2, <2>6, <2>8, Moves
  <1>. QED BY <1>3, <1>4

LEMMA AcceptBeginInv ==
    ASSUME Inv, UNCHANGED sessions, NEW t \in Tabs, NEW l \in Links,
           OwnerOf[t] \in users, AcceptBegin(t, OwnerOf[t], l)
    PROVE  Inv'
  <1>. DEFINE p == OwnerOf[t]
              tx == [Tx("accept", "held", p)
                         EXCEPT !.org = invites[l].org, !.link = l, !.role = invites[l].role]
  <1>1. RowsStay /\ Types /\ p \in People /\ invites[l] \in Invitations
    BY TabsAssumption DEF AcceptBegin, UnchangedRows, RowsStay, Inv, Types
  <1>2. /\ tx \in Txs /\ tx.kind = "accept" /\ tx.at = "held" /\ tx.by = p
        /\ tx.superseded = {} /\ tx.since = begun + 1 /\ tx.org = invites[l].org
        /\ tx.link = l /\ tx.role = invites[l].role
    <2>. DEFINE y == Tx("accept", "held", p)
    <2>1. /\ y \in Txs /\ y.kind = "accept" /\ y.at = "held" /\ y.by = p
          /\ y.since = begun + 1 /\ y.superseded = {}
      BY <1>1, TxFields DEF Types, Kinds, Places, Holding, Inviting, Joining
    <2>2. tx = [y EXCEPT !.org = invites[l].org, !.link = l, !.role = invites[l].role]
      OBVIOUS
    <2>. HIDE DEF y, tx
    <2>3. tx \in Txs
      BY <1>1, <2>1, <2>2 DEF Txs, Invitations
    <2>4. tx.kind = y.kind /\ tx.at = y.at /\ tx.by = y.by
      BY <2>1, <2>2 DEF Txs
    <2>5. tx.superseded = y.superseded /\ tx.since = y.since
      BY <2>1, <2>2 DEF Txs
    <2>6. tx.org = invites[l].org /\ tx.link = l /\ tx.role = invites[l].role
      BY <2>1, <2>2 DEF Txs
    <2>. QED BY <2>1, <2>3, <2>4, <2>5, <2>6
  <1>3. CASE ~Usable(l) \/ invites[l].email # p
    <2>1. PICK word \in {"not found", "wrong account"} : Opens(t, Answers(tx, word))
      BY <1>3 DEF AcceptBegin
    <2>. DEFINE x == Answers(tx, word)
    <2>2. x \in Txs /\ x.at = "answered" /\ x.superseded = {} /\ x.answer = word
      <3>. HIDE DEF tx
      <3>1. word \in Words
        BY <2>1 DEF Words
      <3>. QED BY <1>2, <3>1, AnswersType
    <2>3. Opens(t, x)
      BY <2>1
    <2>. HIDE DEF x
    <2>4. Set(t, x) /\ begun' = begun
      BY <2>2, <2>3 DEF Opens
    <2>5. Over(x)
      BY <2>2 DEF Over
    <2>. QED BY <1>1, <2>4, <2>5, Closes
  <1>4. CASE Usable(l) /\ invites[l].email = p
    <2>1. Opens(t, tx)
      BY <1>4 DEF AcceptBegin
    <2>2. Set(t, tx) /\ begun' = begun + 1
      BY <1>2, <2>1 DEF Opens
    <2>3. txs'[t] = tx /\ \A o \in Tabs \ {t} : txs'[o] = txs[o]
      BY <1>1, <1>2, <2>2, SetType
    <2>4. invites[l].state = "pending"
      BY <1>4 DEF Usable, Pending
    <2>5. begun + 1 <= begun'
      BY <1>1, <2>2 DEF Types
    <2>6. TabInv(t)'
      BY <1>1, <1>2, <1>4, <2>3, <2>4, <2>5 DEF TabInv, RowsStay, Holding, Inviting, Joining
    <2>7. \A o \in Tabs : l \notin HeldBy(o)
      BY DEF AcceptBegin, Held
    <2>8. \A o \in Tabs \ {t} : PairInv(t, o)'
      BY <1>2, <2>3, <2>7 DEF PairInv, HeldBy, Holding, Inviting
    <2>. HIDE DEF tx
    <2>. QED BY <1>1, <1>2, <2>2, <2>6, <2>8, Moves
  <1>. QED BY <1>3, <1>4

LEMMA InviteBeginInv ==
    ASSUME Inv, UNCHANGED sessions, NEW t \in Tabs, NEW email \in People, NEW role,
           OwnerOf[t] \in users, InviteBegin(t, OwnerOf[t], email, role)
    PROVE  Inv'
  <1>. DEFINE p == OwnerOf[t]
              l == CHOOSE x \in FreshLinks : TRUE
              tx == [Tx("invite", "checked", p)
                         EXCEPT !.org = OrgOf(p), !.link = l, !.email = email, !.role = role,
                                !.since = 0]
              already == \E m \in MembershipsOf(email) : m.org = OrgOf(p)
  <1>1. RowsStay /\ Types /\ p \in People /\ begun' = begun
    BY TabsAssumption DEF InviteBegin, UnchangedRows, RowsStay, Inv, Types
  <1>2. l \in FreshLinks
    BY DEF InviteBegin
  <1>3. l \in Links /\ invites[l].state = "unused" /\ \A o \in Tabs : txs[o].link # l
    <2>. HIDE DEF l
    <2>. QED BY <1>2 DEF FreshLinks, NoInvite
  <1>4. /\ tx.kind = "invite" /\ tx.at = "checked" /\ tx.by = p /\ tx.org = OrgOf(p)
        /\ tx.link = l /\ tx.role = role /\ tx.superseded = {}
        /\ role \in Roles => tx \in Txs
    <2>. DEFINE y == Tx("invite", "checked", p)
    <2>1. /\ y \in Txs /\ y.kind = "invite" /\ y.at = "checked" /\ y.by = p
          /\ y.superseded = {}
      <3>1. "invite" \in Kinds /\ "checked" \in Places /\ begun \in Nat
        BY <1>1 DEF Types, Kinds, Places, Inviting
      <3>. QED BY <1>1, <3>1, TxFields
    <2>2. OrgOf(p) \in Slugs \cup {NoOrg}
      BY <1>1, Belonging
    <2>3. tx = [y EXCEPT !.org = OrgOf(p), !.link = l, !.email = email, !.role = role,
                         !.since = 0]
      OBVIOUS
    <2>. HIDE DEF y, l, tx
    <2>4. role \in Roles => tx \in Txs
      BY <1>1, <1>3, <2>1, <2>2, <2>3 DEF Txs
    <2>5. tx.kind = y.kind /\ tx.at = y.at /\ tx.by = y.by
      BY <2>1, <2>3 DEF Txs
    <2>6. tx.superseded = y.superseded /\ tx.org = OrgOf(p)
      BY <2>1, <2>3 DEF Txs
    <2>7. tx.link = l /\ tx.role = role
      BY <2>1, <2>3 DEF Txs
    <2>. QED BY <2>1, <2>4, <2>5, <2>6, <2>7
  <1>5. ASSUME NEW word \in {"denied", "already"}, Set(t, Answers(tx, word)) PROVE Inv'
    <2>. DEFINE x == Answers(tx, word)
    <2>1. Over(x)
      <3>1. x = [NoTx EXCEPT !.kind = tx.kind, !.at = "answered", !.answer = word]
        BY DEF Answers
      <3>2. NoTx \in Txs /\ NoTx.superseded = {}
        BY NoTxType DEF Over, NoTx
      <3>3. tx.kind \in Kinds /\ tx.kind # "bootstrap" /\ word \in Words
        BY <1>4 DEF Kinds, Words
      <3>. HIDE DEF tx
      <3>. QED BY <3>1, <3>2, <3>3 DEF Over, Txs, Places
    <2>. HIDE DEF x
    <2>. QED BY <1>1, <1>5, <2>1, Closes DEF x
  <1>6. ASSUME MayGrant(p, role), Set(t, tx) PROVE Inv'
    <2>1. Grants(p, OrgOf(p), role) /\ OrgOf(p) \in Slugs \cup {NoOrg}
          /\ MembershipOf(p).role \in Roles
      BY <1>1, <1>6, Belonging
    <2>2. role \in Roles
      BY <1>6, <2>1 DEF MayGrant, CanGrant, Roles
    <2>3. tx \in Txs
      BY <1>4, <2>2
    <2>4. txs'[t] = tx /\ \A o \in Tabs \ {t} : txs'[o] = txs[o]
      BY <1>1, <1>6, <2>3, SetType
    <2>. HIDE DEF l
    <2>5. Grants(p, OrgOf(p), role)'
      <3>1. OrgOf(p)' = OrgOf(p)
        BY <1>1 DEF OrgOf, MembershipOf, MembershipsOf, FirstOf, RowsStay
      <3>. QED BY <1>1, <2>1, <3>1 DEF Grants, RowsStay
    <2>6. TabInv(t)'
      <3>1. txs'[t].org = OrgOf(p) /\ txs'[t].by = p /\ txs'[t].role = role
            /\ txs'[t].at = "checked" /\ txs'[t].superseded = {} /\ txs'[t].link = l
            /\ txs'[t].kind = "invite"
        BY <1>4, <2>4
      <3>2. Grants(txs[t].by, txs[t].org, txs[t].role)'
        BY <1>1, <2>1, <3>1 DEF Grants, RowsStay
      <3>. QED BY <1>1, <1>3, <3>1, <3>2 DEF TabInv, RowsStay, Holding, Inviting, Joining
    <2>7. \A o \in Tabs \ {t} : PairInv(t, o)'
      BY <1>3, <1>4, <2>4 DEF PairInv, HeldBy, Holding, Inviting
    <2>. HIDE DEF tx
    <2>. QED BY <1>1, <1>6, <2>3, <2>6, <2>7, Moves
  <1>7. \/ \E word \in {"denied", "already"} : Set(t, Answers(tx, word))
        \/ MayGrant(p, role) /\ Set(t, tx)
    <2>1. Set(t, IF ~MayGrant(p, role) THEN Answers(tx, "denied")
                 ELSE IF already THEN Answers(tx, "already") ELSE tx)
      BY DEF InviteBegin
    <2>. HIDE DEF tx, already
    <2>. QED BY <2>1
  <1>. QED BY <1>5, <1>6, <1>7

(***************************************************************************)
(* The steps of a transaction up to its commit.                            *)
(***************************************************************************)
LEMMA AtOnly ==
    ASSUME NEW y \in Txs, NEW at \in Places, NEW x, x = [y EXCEPT !.at = at]
    PROVE  /\ x \in Txs /\ x.at = at /\ x.kind = y.kind
           /\ x.by = y.by /\ x.org = y.org /\ x.since = y.since
           /\ x.link = y.link /\ x.email = y.email /\ x.role = y.role
           /\ x.superseded = y.superseded
  <1>1. x \in Txs /\ x.at = at /\ x.kind = y.kind
    BY DEF Txs
  <1>2. x.by = y.by /\ x.org = y.org /\ x.since = y.since
    BY DEF Txs
  <1>3. x.link = y.link /\ x.email = y.email /\ x.role = y.role
    BY DEF Txs
  <1>4. x.superseded = y.superseded
    BY DEF Txs
  <1>. QED BY <1>1, <1>2, <1>3, <1>4

LEMMA Fails ==
    ASSUME Inv, RowsStay, begun' = begun, NEW t \in Tabs, NEW word \in Words \ {"ok"},
           Set(t, Answers(txs[t], word))
    PROVE  Inv'
  <1>1. txs[t] \in Txs
    BY DEF Inv, Types
  <1>2. Over(Answers(txs[t], word))
    BY <1>1, AnswersType DEF Over
  <1>. QED BY <1>2, Closes

LEMMA RegisterInsertInv ==
    ASSUME Inv, sessions' = sessions, NEW t \in Tabs, RegisterInsert(t)
    PROVE  Inv'
  <1>1. /\ RowsStay /\ Types /\ begun' = begun /\ txs[t] \in Txs /\ TabInv(t)
        /\ begun \in Nat
    BY DEF RegisterInsert, UnchangedRows, RowsStay, Inv, Types, TabsInv
  <1>2. CASE txs[t].org \in orgs
    <2>1. Set(t, Answers(txs[t], "taken"))
      BY <1>2 DEF RegisterInsert
    <2>. QED BY <1>1, <2>1, Fails DEF Words
  <1>3. CASE txs[t].org \notin orgs
    <2>. DEFINE x == [txs[t] EXCEPT !.at = "founded"]
    <2>1. Set(t, x)
      BY <1>3 DEF RegisterInsert
    <2>2. "founded" \in Places
      BY DEF Places, Joining
    <2>3. /\ x \in Txs /\ x.at = "founded" /\ x.kind = txs[t].kind
          /\ x.by = txs[t].by /\ x.org = txs[t].org /\ x.since = txs[t].since
          /\ x.superseded = txs[t].superseded
      BY <1>1, <2>2, AtOnly
    <2>. HIDE DEF x
    <2>4. txs'[t] = x
      BY <1>1, <2>1, <2>3, SetType
    <2>5. txs[t].at = "read" /\ txs[t].superseded = {}
      BY <1>1 DEF RegisterInsert, TabInv
    <2>6. TabInv(t)'
      BY <1>1, <2>3, <2>4, <2>5 DEF TabInv, RowsStay, Holding, Inviting, Joining
    <2>7. \A o \in Tabs \ {t} : PairInv(t, o)'
      BY <2>3, <2>4, <2>5 DEF PairInv, HeldBy, Holding, Inviting
    <2>. QED BY <1>1, <2>1, <2>3, <2>6, <2>7, Moves
  <1>. QED BY <1>2, <1>3

LEMMA AcceptJoinInv ==
    ASSUME Inv, sessions' = sessions, NEW t \in Tabs, AcceptJoin(t)
    PROVE  Inv'
  <1>1. /\ RowsStay /\ Types /\ begun' = begun /\ txs[t] \in Txs /\ TabInv(t)
        /\ begun \in Nat /\ \A o \in Tabs \ {t} : PairInv(t, o)
    BY DEF AcceptJoin, UnchangedRows, RowsStay, Inv, Types, TabsInv
  <1>2. ASSUME Set(t, Answers(txs[t], "elsewhere")) PROVE Inv'
    BY <1>1, <1>2, Fails DEF Words
  <1>3. ASSUME NEW at \in {"joined", "spent"}, Set(t, [txs[t] EXCEPT !.at = at]),
               at = "joined" => MembershipsOf(txs[t].by) = {}
        PROVE  Inv'
    <2>. DEFINE x == [txs[t] EXCEPT !.at = at]
    <2>1. at \in Places
      BY DEF Places, Holding
    <2>2. /\ x \in Txs /\ x.at = at /\ x.kind = txs[t].kind
          /\ x.by = txs[t].by /\ x.org = txs[t].org /\ x.since = txs[t].since
          /\ x.link = txs[t].link /\ x.role = txs[t].role
          /\ x.superseded = txs[t].superseded
      BY <1>1, <2>1, AtOnly
    <2>3. Set(t, x)
      BY <1>3
    <2>. HIDE DEF x
    <2>4. txs'[t] = x /\ \A o \in Tabs \ {t} : txs'[o] = txs[o]
      BY <1>1, <2>2, <2>3, SetType
    <2>5. txs[t].at = "held" /\ txs[t].superseded = {}
      BY <1>1 DEF AcceptJoin, TabInv
    <2>6. \A m \in members : m.user = txs[t].by => at # "joined"
      BY <1>3 DEF MembershipsOf
    <2>7. /\ invites[txs[t].link].state = "pending"
          /\ invites[txs[t].link].email = txs[t].by
          /\ invites[txs[t].link].org = txs[t].org
          /\ invites[txs[t].link].role = txs[t].role
          /\ txs[t].link \in Links /\ txs[t].since <= begun
          /\ txs[t].by = OwnerOf[t] /\ txs[t].by \in users /\ txs[t].kind # "bootstrap"
      BY <1>1, <2>5 DEF TabInv, Holding
    <2>8. TabInv(t)'
      BY <1>1, <1>3, <2>2, <2>4, <2>5, <2>6, <2>7
         DEF TabInv, RowsStay, Inviting, Joining
    <2>9. \A o \in Tabs \ {t} : PairInv(t, o)'
      BY <1>1, <1>3, <2>2, <2>4, <2>5 DEF PairInv, HeldBy, Inviting
    <2>. QED BY <1>1, <2>2, <2>3, <2>8, <2>9, Moves
  <1>4. OrgOf(txs[t].by) = NoOrg => MembershipsOf(txs[t].by) = {}
    BY <1>1, Belonging
  <1>5. \/ OrgOf(txs[t].by) = NoOrg /\ Set(t, [txs[t] EXCEPT !.at = "joined"])
        \/ Set(t, [txs[t] EXCEPT !.at = "spent"])
        \/ Set(t, Answers(txs[t], "elsewhere"))
    BY <1>1, Belonging DEF AcceptJoin
  <1>. QED BY <1>2, <1>3, <1>4, <1>5

LEMMA InviteSupersedeInv ==
    ASSUME Inv, sessions' = sessions, NEW t \in Tabs, InviteSupersede(t)
    PROVE  Inv'
  <1>1. /\ RowsStay /\ Types /\ begun' = begun /\ txs[t] \in Txs /\ TabInv(t)
        /\ \A o \in Tabs \ {t} : PairInv(t, o)
    BY DEF InviteSupersede, UnchangedRows, RowsStay, Inv, Types, TabsInv
  <1>. DEFINE old == PendingFor(txs[t].org, txs[t].email)
              x == [txs[t] EXCEPT !.at = "superseded", !.superseded = old]
  <1>2. old \in SUBSET Links /\ \A l \in old : invites[l].state = "pending"
    BY DEF PendingFor, Pending
  <1>3. Set(t, x) /\ \A l \in old : ~Held(l)
    BY DEF InviteSupersede
  <1>4. "superseded" \in Places
    BY DEF Places, Inviting
  <1>. HIDE DEF old
  <1>5. x \in Txs /\ x.at = "superseded" /\ x.kind = txs[t].kind /\ x.by = txs[t].by
    BY <1>1, <1>2, <1>4 DEF Txs
  <1>6. x.org = txs[t].org /\ x.link = txs[t].link /\ x.role = txs[t].role
    BY <1>1 DEF Txs
  <1>7. x.superseded = old
    BY <1>1 DEF Txs
  <1>. HIDE DEF x
  <1>8. txs'[t] = x /\ \A o \in Tabs \ {t} : txs'[o] = txs[o]
    BY <1>1, <1>3, <1>5, SetType
  <1>9. txs[t].at = "checked"
    BY DEF InviteSupersede
  <1>10. TabInv(t)'
    <2>1. /\ txs[t].by = OwnerOf[t] /\ txs[t].by \in users /\ txs[t].kind # "bootstrap"
          /\ txs[t].link \in Links /\ invites[txs[t].link].state = "unused"
          /\ Grants(txs[t].by, txs[t].org, txs[t].role)
      BY <1>1, <1>9 DEF TabInv, Inviting
    <2>2. Grants(txs[t].by, txs[t].org, txs[t].role)'
      BY <1>1, <1>5, <1>6, <1>8, <2>1 DEF Grants, RowsStay
    <2>. QED BY <1>1, <1>2, <1>5, <1>6, <1>7, <1>8, <2>1, <2>2
         DEF TabInv, RowsStay, Holding, Joining
  <1>11. \A o \in Tabs \ {t} : PairInv(t, o)'
    <2>1. \A o \in Tabs \ {t} : \A l \in old : l \notin HeldBy(o)
      BY <1>3 DEF Held
    <2>2. \A o \in Tabs \ {t} : HeldBy(o)' = HeldBy(o)
      BY <1>8 DEF HeldBy
    <2>3. HeldBy(t)' = old
      BY <1>5, <1>7, <1>8 DEF HeldBy
    <2>. QED BY <1>1, <1>5, <1>6, <1>8, <1>9, <2>1, <2>2, <2>3 DEF PairInv, Inviting
  <1>. QED BY <1>1, <1>3, <1>5, <1>10, <1>11, Moves

LEMMA InviteInsertInv ==
    ASSUME Inv, sessions' = sessions, NEW t \in Tabs, InviteInsert(t)
    PROVE  Inv'
  <1>1. /\ RowsStay /\ Types /\ begun' = begun /\ txs[t] \in Txs /\ TabInv(t)
        /\ \A o \in Tabs \ {t} : PairInv(t, o)
    BY DEF InviteInsert, UnchangedRows, RowsStay, Inv, Types, TabsInv
  <1>2. ASSUME Set(t, Answers(txs[t], "error")) PROVE Inv'
    BY <1>1, <1>2, Fails DEF Words
  <1>3. ASSUME Set(t, [txs[t] EXCEPT !.at = "invited"]) PROVE Inv'
    <2>. DEFINE x == [txs[t] EXCEPT !.at = "invited"]
    <2>1. "invited" \in Places
      BY DEF Places, Inviting
    <2>2. /\ x \in Txs /\ x.at = "invited" /\ x.kind = txs[t].kind
          /\ x.by = txs[t].by /\ x.org = txs[t].org
          /\ x.link = txs[t].link /\ x.role = txs[t].role
          /\ x.superseded = txs[t].superseded
      BY <1>1, <2>1, AtOnly
    <2>3. Set(t, x)
      BY <1>3
    <2>. HIDE DEF x
    <2>4. txs'[t] = x /\ \A o \in Tabs \ {t} : txs'[o] = txs[o]
      BY <1>1, <2>2, <2>3, SetType
    <2>5. txs[t].at = "superseded"
      BY DEF InviteInsert
    <2>6. TabInv(t)'
      <3>1. /\ txs[t].by = OwnerOf[t] /\ txs[t].by \in users /\ txs[t].kind # "bootstrap"
            /\ txs[t].link \in Links /\ invites[txs[t].link].state = "unused"
            /\ Grants(txs[t].by, txs[t].org, txs[t].role)
            /\ \A l \in txs[t].superseded : invites[l].state = "pending"
        BY <1>1, <2>5 DEF TabInv, Inviting
      <3>2. Grants(txs[t].by, txs[t].org, txs[t].role)'
        BY <1>1, <2>2, <2>4, <3>1 DEF Grants, RowsStay
      <3>. QED BY <1>1, <2>2, <2>4, <3>1, <3>2 DEF TabInv, RowsStay, Holding, Joining
    <2>7. \A o \in Tabs \ {t} : PairInv(t, o)'
      BY <1>1, <2>2, <2>4, <2>5 DEF PairInv, HeldBy, Inviting
    <2>. QED BY <1>1, <2>2, <2>3, <2>6, <2>7, Moves
  <1>. QED BY <1>2, <1>3 DEF InviteInsert

(***************************************************************************)
(* Commits.                                                                *)
(***************************************************************************)
\* A link that was issued keeps what it says, and one that is final its state.
LinksMove ==
    \A l \in Links : invites[l].state # "unused" =>
        /\ invites'[l].state # "unused"
        /\ invites[l].state \in {"accepted", "revoked"} =>
               invites'[l].state = invites[l].state
        /\ invites'[l].org = invites[l].org /\ invites'[l].email = invites[l].email
        /\ invites'[l].role = invites[l].role /\ invites'[l].by = invites[l].by

\* What MembershipIsInvited says of one membership.
Invited(m) ==
    \E l \in Links :
        /\ invites[l].state = "accepted"
        /\ invites[l].org = m.org /\ invites[l].email = m.user /\ invites[l].role = m.role
        /\ Grants(invites[l].by, m.org, m.role)

LEMMA InvitedByLinks == MembershipIsInvited <=> \A m \in members : m.role # "owner" => Invited(m)
  BY DEF MembershipIsInvited, Invited, Grants

\* Memberships only grow and links keep what they say.
LEMMA LinksGo ==
    ASSUME LinksInv, MembershipIsInvited, members \subseteq members', LinksMove,
           \A l \in Links : invites[l].state = "unused" /\ invites'[l].state # "unused" =>
               Grants(invites[l].by, invites[l].org, invites[l].role)',
           \A m \in members' \ members : m.role # "owner" => Invited(m)'
    PROVE  LinksInv' /\ MembershipIsInvited'
  <1>1. \A by, org, role : Grants(by, org, role) =>
            \E o \in members' : o.user = by /\ o.org = org /\ role \in CanGrant[o.role]
    BY DEF Grants
  <1>2. LinksInv'
    <2>1. ASSUME NEW l \in Links, invites'[l].state # "unused"
          PROVE  Grants(invites[l].by, invites[l].org, invites[l].role)'
      <3>1. CASE invites[l].state = "unused"
        BY <2>1, <3>1
      <3>2. CASE invites[l].state # "unused"
        BY <1>1, <3>2 DEF LinksInv, LinksMove, Grants
      <3>. QED BY <3>1, <3>2
    <2>. QED BY <2>1 DEF LinksInv
  <1>3. ASSUME NEW m \in members', m.role # "owner" PROVE Invited(m)'
    <2>1. CASE m \notin members
      BY <1>3, <2>1
    <2>2. CASE m \in members
      <3>1. PICK l \in Links :
                /\ invites[l].state = "accepted"
                /\ invites[l].org = m.org /\ invites[l].email = m.user
                /\ invites[l].role = m.role
                /\ Grants(invites[l].by, m.org, m.role)
        BY <1>3, <2>2, InvitedByLinks DEF Invited
      <3>2. /\ invites'[l].state = "accepted"
            /\ invites'[l].org = m.org /\ invites'[l].email = m.user
            /\ invites'[l].role = m.role /\ invites'[l].by = invites[l].by
        BY <3>1 DEF LinksMove
      <3>3. \E o \in members' : o.user = invites[l].by /\ o.org = m.org
                                /\ m.role \in CanGrant[o.role]
        BY <1>1, <3>1
      <3>. QED BY <3>2, <3>3 DEF Invited, Grants
    <2>. QED BY <2>1, <2>2
  <1>4. MembershipIsInvited'
    BY <1>3 DEF MembershipIsInvited, Invited, Grants
  <1>. QED BY <1>2, <1>4

\* The tabs after a commit of t.
LEMMA CommitTabs ==
    ASSUME Types, TabsInv, NEW t \in Tabs, NEW word \in {"ok", "error"},
           Set(t, Answers(txs[t], word)), RowsMove(Tabs \ {t}),
           txs[t].kind = "bootstrap" /\ word = "ok" => OwnerOf[t] \in users'
    PROVE  TabsInv' /\ txs' \in [Tabs -> Txs]
  <1>. DEFINE x == Answers(txs[t], word)
  <1>1. word \in Words /\ txs[t] \in Txs
    BY DEF Words, Types
  <1>2. /\ x \in Txs /\ x.at = "answered" /\ x.superseded = {}
        /\ x.kind = txs[t].kind /\ x.answer = word
    BY <1>1, AnswersType
  <1>. HIDE DEF x
  <1>3. Set(t, x)
    BY DEF x
  <1>4. /\ txs' \in [Tabs -> Txs] /\ txs'[t] = x
        /\ \A o \in Tabs \ {t} : txs'[o] = txs[o]
    BY <1>2, <1>3, SetType
  <1>5. TabInv(t)'
    BY <1>2, <1>4 DEF TabInv, Holding, Inviting, Joining
  <1>6. HeldBy(t)' = {}
    BY <1>2, <1>4 DEF HeldBy
  <1>7. \A o \in Tabs \ {t} : PairInv(t, o)' /\ PairInv(o, t)'
    BY <1>2, <1>4, <1>6 DEF PairInv, Inviting
  <1>8. /\ \A o \in Tabs \ {t} : TabInv(o)'
        /\ \A o, q \in Tabs \ {t} : o # q => PairInv(o, q)'
    BY <1>4, OthersKeep
  <1>. QED BY <1>4, <1>5, <1>7, <1>8 DEF TabsInv

\* The membership a transaction writes, beside those of the same person.
LEMMA JoinsInTurn ==
    ASSUME Types, SecondJoinOverlaps, NEW t \in Tabs, TabInv(t), NEW role \in Roles,
           txs[t].at \in Joining \/ (txs[t].at = "locked" /\ txs[t].by \notin users),
           members' = members \cup {Member(txs[t], role)}
    PROVE  /\ SecondJoinOverlaps'
           /\ members \subseteq members' /\ \A m \in members' \ members : m.until = begun
           /\ Member(txs[t], role).since \in 0..begun
  <1>. DEFINE x == Member(txs[t], role)
  <1>1. /\ x.user = txs[t].by /\ x.org = txs[t].org /\ x.role = role
        /\ x.since = txs[t].since /\ x.until = begun
    BY DEF Member
  <1>2. txs[t].since \in 0..begun
    BY DEF TabInv, Types, Txs
  <1>3. \A m \in members : m.since \in 0..begun /\ m.until \in 0..begun /\ m.user \in users
    BY DEF Types, Members
  <1>4. \A m \in members : m.user = txs[t].by => txs[t].since <= m.until
    BY <1>3 DEF TabInv
  <1>. HIDE DEF x
  <1>5. members' = members \cup {x}
    BY DEF x
  <1>6. ASSUME NEW m \in members', NEW o \in members', m.user = o.user, m.since < o.since
        PROVE  o.since <= m.until
    <2>1. CASE m \in members /\ o \in members
      BY <1>6, <2>1 DEF SecondJoinOverlaps
    <2>2. CASE m \in members /\ o = x
      BY <1>1, <1>4, <1>6, <2>2
    <2>3. CASE m = x /\ o \in members
      BY <1>1, <1>3, <2>3
    <2>4. CASE m = x /\ o = x
      BY <1>1, <1>2, <1>6, <2>4
    <2>. QED BY <1>5, <2>1, <2>2, <2>3, <2>4
  <1>7. SecondJoinOverlaps'
    BY <1>6 DEF SecondJoinOverlaps
  <1>8. x.since \in 0..begun
    BY <1>1, <1>2
  <1>. QED BY <1>1, <1>5, <1>7, <1>8 DEF x

LEMMA FoundsInv ==
    ASSUME Inv, sessions' = sessions, begun' = begun, NEW t \in Tabs, Founds(t),
           NEW word \in {"ok", "error"}, Set(t, Answers(txs[t], word))
    PROVE  Inv' /\ LinksMove
  <1>1. /\ Types /\ TabsInv /\ RowsInv /\ TabInv(t) /\ txs[t] \in Txs /\ begun \in Nat
        /\ txs[t].at = "founded"
    BY DEF Inv, TabsInv, Types, Founds
  <1>2. /\ txs[t].by \in users /\ txs[t].kind # "bootstrap" /\ txs[t].org \in Slugs
    BY <1>1 DEF TabInv
  <1>. DEFINE x == Member(txs[t], "owner")
  <1>3. /\ SecondJoinOverlaps' /\ members \subseteq members'
        /\ \A m \in members' \ members : m.until = begun
        /\ x.since \in 0..begun
    <2>1. "owner" \in Roles /\ txs[t].at \in Joining
      BY <1>1 DEF Roles, Joining
    <2>. QED BY <1>1, <2>1, JoinsInTurn DEF Founds, RowsInv
  <1>4. x.user = txs[t].by /\ x.org = txs[t].org /\ x.role = "owner" /\ x.until = begun
    BY DEF Member
  <1>5. x = [user |-> x.user, org |-> x.org, role |-> x.role, since |-> x.since,
             until |-> x.until]
    BY DEF Member
  <1>6. UNCHANGED <<users, passwords, invites, sessions, begun>>
    BY DEF Founds
  <1>7. orgs' = orgs \cup {txs[t].org} /\ members' = members \cup {x}
    BY DEF Founds
  <1>. HIDE DEF x
  <1>8. RowsMove(Tabs \ {t}) /\ LinksMove
    BY <1>3, <1>6 DEF RowsMove, SameLink, LinksMove
  <1>9. TabsInv' /\ txs' \in [Tabs -> Txs]
    BY <1>1, <1>2, <1>8, CommitTabs
  <1>10. Types'
    <2>1. x \in Members'
      BY <1>1, <1>2, <1>3, <1>4, <1>5, <1>6, <1>7 DEF Members, Roles
    <2>2. members \subseteq Members'
      BY <1>1, <1>6, <1>7 DEF Types, Members
    <2>3. members' \subseteq Members'
      BY <1>7, <2>1, <2>2
    <2>4. invites' \in [Links -> Invitations]'
      <3>1. invites \in [Links -> Invitations] /\ Invitations' = Invitations
        BY <1>1 DEF Types, Invitations
      <3>. QED BY <1>6, <3>1
    <2>5. orgs' \subseteq Slugs
      BY <1>1, <1>2, <1>7 DEF Types
    <2>. QED BY <1>1, <1>6, <1>9, <2>3, <2>4, <2>5 DEF Types, Txs
  <1>11. LinksInv' /\ MembershipIsInvited'
    BY <1>1, <1>3, <1>4, <1>6, <1>7, <1>8, LinksGo DEF RowsInv
  <1>12. OneOwnerByToken'
    BY <1>1, <1>6 DEF RowsInv, OneOwnerByToken
  <1>. QED BY <1>3, <1>8, <1>9, <1>10, <1>11, <1>12 DEF Inv, RowsInv

LEMMA OwnsInv ==
    ASSUME Inv, sessions' = sessions, begun' = begun, NEW t \in Tabs, Owns(t),
           NEW word \in {"ok", "error"}, Set(t, Answers(txs[t], word))
    PROVE  Inv' /\ LinksMove
  <1>1. /\ Types /\ TabsInv /\ RowsInv /\ TabInv(t) /\ txs[t] \in Txs /\ begun \in Nat
        /\ txs[t].at = "locked" /\ txs[t].by \notin users
    BY DEF Inv, TabsInv, Types, Owns
  <1>2. /\ txs[t].by = OwnerOf[t] /\ passwords = {} /\ txs[t].org \in Slugs
    BY <1>1 DEF TabInv
  <1>. DEFINE x == Member(txs[t], "owner")
  <1>3. /\ SecondJoinOverlaps' /\ members \subseteq members'
        /\ \A m \in members' \ members : m.until = begun
        /\ x.since \in 0..begun
    <2>1. "owner" \in Roles
      BY DEF Roles
    <2>. QED BY <1>1, <2>1, JoinsInTurn DEF Owns, RowsInv
  <1>4. x.user = txs[t].by /\ x.org = txs[t].org /\ x.role = "owner" /\ x.until = begun
    BY DEF Member
  <1>5. x = [user |-> x.user, org |-> x.org, role |-> x.role, since |-> x.since,
             until |-> x.until]
    BY DEF Member
  <1>6. UNCHANGED <<invites, sessions, begun>>
    BY DEF Owns
  <1>7. /\ orgs' = orgs \cup {txs[t].org} /\ members' = members \cup {x}
        /\ users' = users \cup {txs[t].by} /\ passwords' = {txs[t].by}
    BY <1>2 DEF Owns
  <1>. HIDE DEF x
  <1>8. RowsMove(Tabs \ {t}) /\ LinksMove
    <2>1. \A o \in Tabs \ {t} : txs[o].at # "locked"
      BY <1>1 DEF TabsInv, PairInv
    <2>. QED BY <1>3, <1>6, <1>7, <2>1 DEF RowsMove, SameLink, LinksMove
  <1>9. TabsInv' /\ txs' \in [Tabs -> Txs]
    BY <1>1, <1>2, <1>7, <1>8, CommitTabs
  <1>10. Types'
    <2>1. x \in Members'
      BY <1>1, <1>2, <1>3, <1>4, <1>5, <1>6, <1>7 DEF Members, Roles
    <2>2. members \subseteq Members'
      BY <1>1, <1>6, <1>7 DEF Types, Members
    <2>3. members' \subseteq Members'
      BY <1>7, <2>1, <2>2
    <2>4. invites' \in [Links -> Invitations]'
      <3>1. invites \in [Links -> Invitations] /\ Invitations' = Invitations
        BY <1>1 DEF Types, Invitations
      <3>. QED BY <1>6, <3>1
    <2>5. orgs' \subseteq Slugs /\ users' \subseteq People
      BY <1>1, <1>2, <1>7, TabsAssumption DEF Types
    <2>6. passwords' \subseteq users' /\ sessions' \subseteq users'
      BY <1>1, <1>6, <1>7 DEF Types
    <2>. QED BY <1>1, <1>6, <1>9, <2>3, <2>4, <2>5, <2>6 DEF Types, Txs
  <1>11. LinksInv' /\ MembershipIsInvited'
    BY <1>1, <1>3, <1>4, <1>6, <1>7, <1>8, LinksGo DEF RowsInv
  <1>12. OneOwnerByToken'
    BY <1>7 DEF OneOwnerByToken
  <1>. QED BY <1>3, <1>8, <1>9, <1>10, <1>11, <1>12 DEF Inv, RowsInv

LEMMA LinksOfUses ==
    ASSUME Types, TabsInv, NEW o \in Tabs, NEW l \in Uses(o)
    PROVE  /\ l \in Links
           /\ \/ l \in HeldBy(o) /\ invites[l].state = "pending"
              \/ txs[o].at \in Inviting /\ l = txs[o].link /\ invites[l].state = "unused"
  <1>1. TabInv(o) /\ txs[o] \in Txs
    BY DEF TabsInv, Types
  <1>2. txs[o].superseded \subseteq Links
    BY <1>1 DEF Txs
  <1>. QED BY <1>1, <1>2 DEF Uses, HeldBy, TabInv, Holding

LEMMA JoinsInv ==
    ASSUME Inv, sessions' = sessions, begun' = begun, NEW t \in Tabs, Joins(t),
           NEW word \in {"ok", "error"}, Set(t, Answers(txs[t], word))
    PROVE  Inv' /\ LinksMove
  <1>. DEFINE l == txs[t].link
              x == Member(txs[t], txs[t].role)
  <1>1. /\ Types /\ TabsInv /\ RowsInv /\ TabInv(t) /\ txs[t] \in Txs /\ begun \in Nat
        /\ txs[t].at \in {"joined", "spent"} /\ txs[t].role \in Roles
    BY DEF Inv, TabsInv, Types, Joins, Txs
  <1>2. /\ l \in Links /\ invites[l].state = "pending" /\ invites[l].email = txs[t].by
        /\ invites[l].org = txs[t].org /\ invites[l].role = txs[t].role
        /\ txs[t].by \in users /\ txs[t].kind # "bootstrap"
        /\ l \in HeldBy(t)
    BY <1>1 DEF TabInv, Holding, HeldBy
  <1>3. Grants(invites[l].by, invites[l].org, invites[l].role)
    BY <1>1, <1>2 DEF RowsInv, LinksInv
  <1>4. UNCHANGED <<users, passwords, orgs, sessions, begun>>
        /\ invites' = [invites EXCEPT ![l].state = "accepted"]
    BY DEF Joins
  <1>5. /\ members \subseteq members' /\ SecondJoinOverlaps'
        /\ \A m \in members' \ members : m = x /\ m.until = begun
        /\ \A m \in members' : m \in members \/ (m = x /\ x.since \in 0..begun)
    <2>1. CASE txs[t].at = "joined"
      <3>1. members' = members \cup {x} /\ txs[t].at \in Joining
        BY <2>1 DEF Joins, Joining
      <3>. QED BY <1>1, <3>1, JoinsInTurn DEF RowsInv
    <2>2. CASE txs[t].at = "spent"
      <3>1. members' = members
        BY <2>2 DEF Joins
      <3>. QED BY <1>1, <3>1 DEF RowsInv, SecondJoinOverlaps
    <2>. QED BY <1>1, <2>1, <2>2
  <1>6. x.user = txs[t].by /\ x.org = txs[t].org /\ x.role = txs[t].role /\ x.until = begun
    BY DEF Member
  <1>7. x = [user |-> x.user, org |-> x.org, role |-> x.role, since |-> x.since,
             until |-> x.until]
    BY DEF Member
  <1>8. txs[t].org \in orgs
    <2>1. PICK o \in members : o.org = txs[t].org
      BY <1>2, <1>3 DEF Grants
    <2>. QED BY <1>1, <2>1 DEF Types, Members
  <1>. HIDE DEF l, x
  <1>9. /\ invites'[l].state = "accepted" /\ invites'[l].org = invites[l].org
        /\ invites'[l].email = invites[l].email /\ invites'[l].role = invites[l].role
        /\ invites'[l].by = invites[l].by
        /\ \A k \in Links \ {l} : invites'[k] = invites[k]
        /\ invites' \in [Links -> Invitations]
    <2>1. invites \in [Links -> Invitations] /\ invites[l] \in Invitations
      BY <1>1, <1>2 DEF Types
    <2>2. invites'[l] = [invites[l] EXCEPT !.state = "accepted"]
          /\ \A k \in Links \ {l} : invites'[k] = invites[k]
      BY <1>2, <1>4, <2>1
    <2>3. invites'[l].state = "accepted" /\ invites'[l].org = invites[l].org
          /\ invites'[l].email = invites[l].email /\ invites'[l].role = invites[l].role
          /\ invites'[l].by = invites[l].by
      BY <2>1, <2>2 DEF Invitations
    <2>4. invites'[l] \in Invitations
      BY <2>1, <2>2 DEF Invitations
    <2>5. invites' \in [Links -> Invitations]
      BY <1>2, <1>4, <2>1, <2>2, <2>4
    <2>. QED BY <2>2, <2>3, <2>5
  <1>10. LinksMove
    BY <1>2, <1>9 DEF LinksMove
  <1>11. RowsMove(Tabs \ {t})
    <2>1. ASSUME NEW o \in Tabs \ {t}, NEW k \in Uses(o) PROVE SameLink(k)
      <3>1. k \in Links /\ (k \in HeldBy(o) \/ invites[k].state = "unused")
        BY <1>1, LinksOfUses
      <3>2. HeldBy(t) \cap HeldBy(o) = {}
        BY <1>1 DEF TabsInv, PairInv
      <3>. QED BY <1>2, <1>9, <3>1, <3>2 DEF SameLink
    <2>. QED BY <1>4, <1>5, <2>1 DEF RowsMove
  <1>12. TabsInv' /\ txs' \in [Tabs -> Txs]
    BY <1>1, <1>2, <1>11, CommitTabs
  <1>13. Types'
    <2>1. x.since \in 0..begun => x \in Members'
      BY <1>1, <1>2, <1>4, <1>6, <1>7, <1>8 DEF Members
    <2>2. members \subseteq Members'
      BY <1>1, <1>4 DEF Types, Members
    <2>3. members' \subseteq Members'
      BY <1>5, <2>1, <2>2
    <2>4. invites' \in [Links -> Invitations]'
      BY <1>9 DEF Invitations
    <2>. QED BY <1>1, <1>4, <1>12, <2>3, <2>4 DEF Types, Txs
  <1>14. LinksInv' /\ MembershipIsInvited'
    <2>1. \A k \in Links : invites[k].state = "unused" => invites'[k].state = "unused"
      BY <1>2, <1>9
    <2>2. \E o \in members' : o.user = invites[l].by /\ o.org = txs[t].org
                              /\ txs[t].role \in CanGrant[o.role]
      BY <1>2, <1>3, <1>5 DEF Grants
    <2>3. ASSUME NEW m \in members' \ members PROVE Invited(m)'
      <3>1. m = x
        BY <1>5
      <3>. QED BY <1>2, <1>6, <1>9, <2>2, <3>1 DEF Invited, Grants
    <2>. QED BY <1>1, <1>5, <1>10, <2>1, <2>3, LinksGo DEF RowsInv
  <1>15. OneOwnerByToken'
    BY <1>1, <1>4 DEF RowsInv, OneOwnerByToken
  <1>. QED BY <1>5, <1>10, <1>12, <1>13, <1>14, <1>15 DEF Inv, RowsInv

LEMMA InvitesInv ==
    ASSUME Inv, sessions' = sessions, begun' = begun, NEW t \in Tabs, Invites(t),
           NEW word \in {"ok", "error"}, Set(t, Answers(txs[t], word))
    PROVE  Inv' /\ LinksMove
  <1>. DEFINE l == txs[t].link
              old == txs[t].superseded
              new == [NoInvite EXCEPT !.state = "pending", !.org = txs[t].org,
                          !.email = txs[t].email, !.role = txs[t].role, !.by = txs[t].by]
  <1>1. /\ Types /\ TabsInv /\ RowsInv /\ TabInv(t) /\ txs[t] \in Txs
        /\ txs[t].at = "invited"
    BY DEF Inv, TabsInv, Types, Invites
  <1>2. /\ l \in Links /\ invites[l].state = "unused" /\ txs[t].kind # "bootstrap"
        /\ Grants(txs[t].by, txs[t].org, txs[t].role)
        /\ \A k \in old : invites[k].state = "pending"
    BY <1>1 DEF TabInv, Inviting
  <1>3. UNCHANGED <<users, passwords, orgs, members, sessions, begun>>
    BY DEF Invites
  <1>4. new \in Invitations /\ new.state = "pending"
    BY <1>1 DEF Txs, Invitations, NoInvite
  <1>5. new.org = txs[t].org /\ new.role = txs[t].role /\ new.by = txs[t].by
    BY DEF NoInvite
  <1>6. invites' = [k \in Links |-> IF k = l THEN new
                          ELSE IF k \in old THEN [invites[k] EXCEPT !.state = "revoked"]
                          ELSE invites[k]]
    BY DEF Invites
  <1>. HIDE DEF l, old, new
  <1>7. /\ invites'[l] = new
        /\ \A k \in old \cap Links : invites'[k] = [invites[k] EXCEPT !.state = "revoked"]
        /\ \A k \in Links \ ({l} \cup old) : invites'[k] = invites[k]
    <2>1. l \notin old
      BY <1>2
    <2>. QED BY <1>2, <1>6, <2>1
  <1>8. /\ \A k \in Links : invites[k] \in Invitations
        /\ \A k \in old \cap Links :
               /\ invites'[k] \in Invitations /\ invites'[k].state = "revoked"
               /\ invites'[k].org = invites[k].org /\ invites'[k].email = invites[k].email
               /\ invites'[k].role = invites[k].role /\ invites'[k].by = invites[k].by
    <2>1. \A k \in Links : invites[k] \in Invitations
      BY <1>1 DEF Types
    <2>2. ASSUME NEW k \in old \cap Links
          PROVE  /\ invites'[k] \in Invitations /\ invites'[k].state = "revoked"
                 /\ invites'[k].org = invites[k].org /\ invites'[k].email = invites[k].email
                 /\ invites'[k].role = invites[k].role /\ invites'[k].by = invites[k].by
      <3>1. invites'[k] = [invites[k] EXCEPT !.state = "revoked"] /\ invites[k] \in Invitations
        BY <1>7, <2>1
      <3>. QED BY <3>1 DEF Invitations
    <2>. QED BY <2>1, <2>2
  <1>9. LinksMove
    <2>1. ASSUME NEW k \in Links, invites[k].state # "unused"
          PROVE  /\ invites'[k].state # "unused"
                 /\ invites[k].state \in {"accepted", "revoked"} =>
                        invites'[k].state = invites[k].state
                 /\ invites'[k].org = invites[k].org /\ invites'[k].email = invites[k].email
                 /\ invites'[k].role = invites[k].role /\ invites'[k].by = invites[k].by
      <3>1. CASE k \in old
        BY <1>2, <1>8, <3>1
      <3>2. CASE k \notin old
        BY <1>2, <1>7, <2>1, <3>2
      <3>. QED BY <3>1, <3>2
    <2>. QED BY <2>1 DEF LinksMove
  <1>10. RowsMove(Tabs \ {t})
    <2>1. ASSUME NEW o \in Tabs \ {t}, NEW k \in Uses(o) PROVE SameLink(k)
      <3>1. /\ k \in Links
            /\ \/ k \in HeldBy(o) /\ invites[k].state = "pending"
               \/ txs[o].at \in Inviting /\ k = txs[o].link /\ invites[k].state = "unused"
        BY <1>1, LinksOfUses
      <3>2. HeldBy(t) = old
        BY <1>1 DEF HeldBy, old
      <3>3. PairInv(t, o)
        BY <1>1 DEF TabsInv
      <3>4. k # l
        BY <1>1, <1>2, <3>1, <3>3 DEF PairInv, l, Inviting
      <3>5. k \notin old
        BY <1>2, <3>1, <3>2, <3>3 DEF PairInv
      <3>. QED BY <1>7, <3>1, <3>4, <3>5 DEF SameLink
    <2>. QED BY <1>3, <2>1 DEF RowsMove
  <1>11. TabsInv' /\ txs' \in [Tabs -> Txs]
    BY <1>1, <1>2, <1>10, CommitTabs
  <1>12. Types'
    <2>1. \A k \in Links : invites'[k] \in Invitations
      BY <1>4, <1>7, <1>8
    <2>2. invites' \in [Links -> Invitations]
      BY <1>6, <2>1
    <2>3. invites' \in [Links -> Invitations]'
      BY <2>2 DEF Invitations
    <2>. QED BY <1>1, <1>3, <1>11, <2>3 DEF Types, Txs, Members
  <1>13. LinksInv' /\ MembershipIsInvited'
    <2>1. ASSUME NEW k \in Links, invites[k].state = "unused", invites'[k].state # "unused"
          PROVE  Grants(invites[k].by, invites[k].org, invites[k].role)'
      <3>1. k = l
        BY <1>2, <1>7, <2>1
      <3>2. /\ invites'[k].by = txs[t].by /\ invites'[k].org = txs[t].org
            /\ invites'[k].role = txs[t].role
        BY <1>5, <1>7, <3>1
      <3>. QED BY <1>2, <1>3, <3>2 DEF Grants
    <2>. QED BY <1>1, <1>3, <1>9, <2>1, LinksGo DEF RowsInv
  <1>14. OneOwnerByToken' /\ SecondJoinOverlaps'
    BY <1>1, <1>3 DEF RowsInv, OneOwnerByToken, SecondJoinOverlaps
  <1>. QED BY <1>9, <1>11, <1>12, <1>13, <1>14 DEF Inv, RowsInv

(***************************************************************************)
(* Steps that move no transaction.                                         *)
(***************************************************************************)
LEMMA TabsRest ==
    ASSUME Types, TabsInv, RowsMove(Tabs), UNCHANGED txs
    PROVE  TabsInv'
  BY OthersKeep DEF TabsInv

\* Only sessions.
LEMMA SessionsInv ==
    ASSUME Inv, UNCHANGED accountVars, sessions' \subseteq users
    PROVE  Inv' /\ LinksMove
  <1>1. Types /\ TabsInv /\ RowsInv /\ RowsStay /\ begun' = begun /\ txs' = txs
        /\ txs \in [Tabs -> Txs]
    BY DEF Inv, accountVars, RowsStay, Types
  <1>2. Types' /\ RowsInv' /\ RowsMove(Tabs)
    BY <1>1, RowsAsBefore
  <1>3. TabsInv'
    BY <1>1, <1>2, TabsRest
  <1>. QED BY <1>1, <1>2, <1>3 DEF Inv, RowsStay, LinksMove

\* The adapter makes an account.
LEMMA SingleSignOnInv ==
    ASSUME Inv, NEW t \in Tabs, SingleSignOn(t)
    PROVE  Inv' /\ LinksMove
  <1>1. /\ Types /\ TabsInv /\ RowsInv /\ OwnerOf[t] \in People
        /\ UNCHANGED <<passwords, orgs, members, invites, txs, begun>>
    BY TabsAssumption DEF Inv, SingleSignOn
  <1>2. users \subseteq users' /\ users' \subseteq People /\ sessions' \subseteq users'
    BY <1>1 DEF SingleSignOn, Me, GetsSession, SameSessions, Types
  <1>3. RowsMove(Tabs) /\ LinksMove
    BY <1>1, <1>2 DEF RowsMove, SameLink, LinksMove
  <1>4. TabsInv'
    BY <1>1, <1>3, TabsRest
  <1>5. Types'
    <2>1. members' \subseteq Members'
      BY <1>1, <1>2 DEF Types, Members
    <2>2. txs' \in [Tabs -> Txs]' /\ invites' \in [Links -> Invitations]'
      BY <1>1 DEF Types, Txs, Invitations
    <2>. QED BY <1>1, <1>2, <2>1, <2>2 DEF Types
  <1>6. RowsInv'
    BY <1>1 DEF RowsInv, OneOwnerByToken, SecondJoinOverlaps, LinksInv, Grants,
                MembershipIsInvited
  <1>. QED BY <1>3, <1>4, <1>5, <1>6 DEF Inv

\* One statement about one pending link that no transaction has locked, or that
\* keeps its state.
LEMMA OneLinkInv ==
    ASSUME Inv, NEW l \in Links, NEW i \in Invitations,
           invites' = [invites EXCEPT ![l] = i], sessions' = sessions,
           UNCHANGED <<users, passwords, orgs, members, txs, begun>>,
           invites[l].state = "pending", i.state \in {"pending", "revoked"},
           i.org = invites[l].org, i.email = invites[l].email,
           i.role = invites[l].role, i.by = invites[l].by,
           i.state = "pending" \/ ~Held(l)
    PROVE  Inv' /\ LinksMove
  <1>1. Types /\ TabsInv /\ RowsInv
    BY DEF Inv
  <1>2. /\ invites' \in [Links -> Invitations] /\ invites'[l] = i
        /\ \A k \in Links \ {l} : invites'[k] = invites[k]
    BY <1>1 DEF Types
  <1>3. LinksMove
    BY <1>2 DEF LinksMove
  <1>4. RowsMove(Tabs)
    <2>1. ASSUME NEW o \in Tabs, NEW k \in Uses(o) PROVE SameLink(k)
      <3>1. k \in Links /\ (k \in HeldBy(o) \/ invites[k].state = "unused")
        BY <1>1, LinksOfUses
      <3>2. k = l => i.state = "pending"
        BY <3>1 DEF Held
      <3>. QED BY <1>2, <3>1, <3>2 DEF SameLink
    <2>. QED BY <2>1 DEF RowsMove
  <1>5. TabsInv'
    BY <1>1, <1>4, TabsRest
  <1>6. Types'
    <2>1. invites' \in [Links -> Invitations]' /\ txs' \in [Tabs -> Txs]'
      BY <1>1, <1>2 DEF Types, Txs, Invitations
    <2>. QED BY <1>1, <2>1 DEF Types, Members
  <1>7. LinksInv' /\ MembershipIsInvited'
    <2>1. \A k \in Links : invites[k].state = "unused" => invites'[k].state = "unused"
      BY <1>2
    <2>. QED BY <1>1, <1>3, <2>1, LinksGo DEF RowsInv
  <1>8. OneOwnerByToken' /\ SecondJoinOverlaps'
    BY <1>1 DEF RowsInv, OneOwnerByToken, SecondJoinOverlaps
  <1>. QED BY <1>3, <1>5, <1>6, <1>7, <1>8 DEF Inv, RowsInv

LEMMA RevokeInv ==
    ASSUME Inv, sessions' = sessions, NEW p, NEW l \in Links, Revoke(p, l)
    PROVE  Inv' /\ LinksMove
  <1>. DEFINE i == [invites[l] EXCEPT !.state = "revoked"]
  <1>1. invites \in [Links -> Invitations] /\ invites[l] \in Invitations
    BY DEF Inv, Types
  <1>2. /\ i \in Invitations /\ i.state = "revoked" /\ i.org = invites[l].org
        /\ i.email = invites[l].email /\ i.role = invites[l].role /\ i.by = invites[l].by
    BY <1>1 DEF Invitations
  <1>3. invites' = [invites EXCEPT ![l] = i]
    BY <1>1 DEF Revoke
  <1>4. /\ UNCHANGED <<users, passwords, orgs, members, txs, begun>>
        /\ invites[l].state = "pending" /\ ~Held(l)
    BY DEF Revoke, Pending
  <1>. HIDE DEF i
  <1>. QED BY <1>2, <1>3, <1>4, OneLinkInv

LEMMA ExpireInv ==
    ASSUME Inv, sessions' = sessions, NEW l \in Links, Expire(l)
    PROVE  Inv' /\ LinksMove
  <1>. DEFINE i == [invites[l] EXCEPT !.expired = TRUE]
  <1>1. invites \in [Links -> Invitations] /\ invites[l] \in Invitations
    BY DEF Inv, Types
  <1>2. invites[l].state = "pending"
    BY DEF Expire, Usable, Pending
  <1>3. /\ i \in Invitations /\ i.state = "pending" /\ i.org = invites[l].org
        /\ i.email = invites[l].email /\ i.role = invites[l].role /\ i.by = invites[l].by
    BY <1>1, <1>2 DEF Invitations
  <1>4. invites' = [invites EXCEPT ![l] = i]
    BY <1>1 DEF Expire
  <1>5. UNCHANGED <<users, passwords, orgs, members, txs, begun>>
    BY DEF Expire
  <1>. HIDE DEF i
  <1>. QED BY <1>2, <1>3, <1>4, <1>5, OneLinkInv

(***************************************************************************)
(* A transaction moves on, commits or is given up; its answer is read.     *)
(***************************************************************************)
LEMMA CommitInv ==
    ASSUME Inv, sessions' = sessions, NEW t \in Tabs, Commit(t)
    PROVE  Inv' /\ LinksMove
  <1>1. PICK word \in {"ok", "error"} : Set(t, Answers(txs[t], word))
    BY DEF Commit
  <1>2. begun' = begun /\ (Founds(t) \/ Owns(t) \/ Joins(t) \/ Invites(t))
    BY DEF Commit, Commits
  <1>. QED BY <1>1, <1>2, FoundsInv, OwnsInv, JoinsInv, InvitesInv

LEMMA AbortInv ==
    ASSUME Inv, sessions' = sessions, NEW t \in Tabs, Abort(t)
    PROVE  Inv'
  <1>1. RowsStay /\ begun' = begun /\ Set(t, Answers(txs[t], "error"))
    BY DEF Abort, UnchangedRows, RowsStay, Inv, Types
  <1>. QED BY <1>1, Fails DEF Words

LEMMA TxStepInv ==
    ASSUME Inv, sessions' = sessions, NEW t \in Tabs, TxStep(t)
    PROVE  Inv' /\ LinksMove
  <1>1. CASE RegisterInsert(t) \/ AcceptJoin(t) \/ InviteSupersede(t) \/ InviteInsert(t)
             \/ Abort(t)
    <2>1. invites' = invites
      BY <1>1 DEF RegisterInsert, AcceptJoin, InviteSupersede, InviteInsert, Abort,
                  UnchangedRows
    <2>2. Inv'
      BY <1>1, RegisterInsertInv, AcceptJoinInv, InviteSupersedeInv, InviteInsertInv,
         AbortInv
    <2>. QED BY <2>1, <2>2 DEF LinksMove
  <1>2. CASE Commit(t)
    BY <1>2, CommitInv
  <1>. QED BY <1>1, <1>2 DEF TxStep

LEMMA AnswerInv ==
    ASSUME Inv, NEW t \in Tabs, Answer(t)
    PROVE  Inv' /\ LinksMove
  <1>1. Types /\ TabInv(t)
    BY DEF Inv, TabsInv
  <1>2. UNCHANGED <<users, passwords, orgs, members, invites, begun>> /\ Set(t, NoTx)
    BY DEF Answer
  <1>3. sessions' \subseteq users
    <2>1. \/ sessions' = sessions
          \/ sessions' = sessions \cup {OwnerOf[t]} /\ txs[t].at = "answered"
             /\ txs[t].kind = "bootstrap" /\ txs[t].answer = "ok"
      BY DEF Answer, GetsSession, SameSessions, Me
    <2>. QED BY <1>1, <2>1 DEF TabInv, Types
  <1>4. RowsStay /\ LinksMove
    BY <1>2, <1>3 DEF RowsStay, LinksMove
  <1>. QED BY <1>2, <1>4, NoTxType, Closes

(***************************************************************************)
(* Pages: the page of a link has one.                                      *)
(***************************************************************************)
PageNames == {"signin", "invite", "dashboard", "onboarding", "settings", "welcome"}
PageAts == {"loading", "refused", "previewed", "shown", "busy"}
PageOffers == {"", "bootstrap", "password", "register", "invite", "sign in", "wrong account",
               "elsewhere", "accept"}

PageLinks == Links \cup {NoLink} \cup (PageNames \ Public)

FitPages ==
    {x \in [name : PageNames, at : PageAts, link : PageLinks, offer : PageOffers,
            hops : Nat] : x.name = "invite" => x.link \in Links}

PagesFit == tab \in [Tabs -> FitPages]

LEMMA BecomesFits ==
    ASSUME PagesFit, NEW t \in Tabs, NEW x \in FitPages, Becomes(t, x)
    PROVE  PagesFit'
  <1>. FitPages' = FitPages
    BY DEF FitPages
  <1>. QED BY DEF Becomes, PagesFit

LEMMA PageFits ==
    ASSUME NEW name \in PageNames, NEW link \in PageLinks,
           name = "invite" => link \in Links, NEW n \in Nat
    PROVE  /\ Page(name, "loading", link) \in FitPages
           /\ [Page(name, "loading", link) EXCEPT !.hops = n] \in FitPages
  <1>. DEFINE x == Page(name, "loading", link)
  <1>1. x \in FitPages
    BY DEF Page, FitPages, PageAts, PageOffers
  <1>. HIDE DEF x
  <1>2. [x EXCEPT !.hops = n] \in FitPages
    BY <1>1 DEF FitPages
  <1>. QED BY <1>1, <1>2 DEF x

LEMMA RedirectFits ==
    ASSUME PagesFit, NEW t \in Tabs, NEW name \in PageNames \ {"invite"},
           NEW link \in PageLinks, RedirectsWith(t, name, link)
    PROVE  PagesFit'
  <1>1. tab[t].hops + 1 \in Nat
    BY DEF PagesFit, FitPages
  <1>. DEFINE y == [Page(name, "loading", link) EXCEPT !.hops = tab[t].hops + 1]
  <1>2. y \in FitPages
    BY <1>1, PageFits
  <1>3. Becomes(t, y)
    BY DEF RedirectsWith
  <1>. HIDE DEF y
  <1>. QED BY <1>2, <1>3, BecomesFits

LEMMA GoesFits ==
    ASSUME PagesFit, NEW t \in Tabs, NEW name \in PageNames \ {"invite"},
           Goes(t, name) \/ Redirects(t, name)
    PROVE  PagesFit'
  <1>1. NoLink \in PageLinks
    BY DEF PageLinks
  <1>2. Page(name, "loading", NoLink) \in FitPages
    BY <1>1, PageFits
  <1>3. CASE Goes(t, name)
    BY <1>2, <1>3, BecomesFits DEF Goes
  <1>4. CASE Redirects(t, name)
    BY <1>1, <1>4, RedirectFits DEF Redirects
  <1>. QED BY <1>3, <1>4

\* The same page, otherwise shown.
LEMMA TurnsFit ==
    ASSUME PagesFit, NEW t \in Tabs,
           \/ \E offer \in PageOffers : Shows(t, offer)
           \/ Stays(t)
           \/ \E at \in PageAts : Becomes(t, [tab[t] EXCEPT !.at = at])
    PROVE  PagesFit'
  <1>1. tab[t] \in FitPages
    BY DEF PagesFit
  <1>2. ASSUME NEW at \in PageAts, NEW offer \in PageOffers
        PROVE  /\ [tab[t] EXCEPT !.at = at, !.offer = offer, !.hops = 0] \in FitPages
               /\ [tab[t] EXCEPT !.at = at, !.hops = 0] \in FitPages
               /\ [tab[t] EXCEPT !.at = at] \in FitPages
    BY <1>1 DEF FitPages
  <1>3. PICK x \in FitPages : Becomes(t, x)
    <2>1. tab[t].at \in PageAts /\ "shown" \in PageAts /\ "" \in PageOffers
      BY <1>1 DEF FitPages, PageAts, PageOffers
    <2>2. ASSUME NEW offer \in PageOffers, Shows(t, offer) PROVE \E x \in FitPages : Becomes(t, x)
      BY <1>2, <2>1, <2>2 DEF Shows
    <2>3. CASE Stays(t)
      BY <1>2, <2>1, <2>3 DEF Stays
    <2>4. ASSUME NEW at \in PageAts, Becomes(t, [tab[t] EXCEPT !.at = at])
          PROVE  \E x \in FitPages : Becomes(t, x)
      BY <1>2, <2>1, <2>4
    <2>. QED BY <2>2, <2>3, <2>4
  <1>. QED BY <1>3, BecomesFits

LEMMA LoadFits ==
    ASSUME PagesFit, NEW t \in Tabs, Load(t)
    PROVE  PagesFit'
  <1>. USE DEF PageNames, PageAts, PageOffers
  <1>1. CASE Middleware(t)
    <2>1. tab[t].name \in PageLinks
      BY <1>1 DEF PagesFit, FitPages, PageLinks, Middleware, Stopped
    <2>. QED BY <1>1, <2>1, RedirectFits DEF Middleware
  <1>2. CASE ApiPage(t)
    BY <1>2, TurnsFit DEF ApiPage
  <1>3. CASE Refused(t)
    BY <1>3, GoesFits DEF Refused
  <1>4. CASE SignInPage(t)
    BY <1>4, GoesFits, TurnsFit DEF SignInPage
  <1>5. CASE WelcomePage(t)
    <2>1. Redirects(t, "signin") \/ Redirects(t, "dashboard") \/ Shows(t, "register")
      BY <1>5 DEF WelcomePage
    <2>. QED BY <2>1, GoesFits, TurnsFit
  <1>6. CASE Preview(t)
    BY <1>6, TurnsFit DEF Preview
  <1>7. CASE InvitePage(t)
    <2>1. \/ Redirects(t, "dashboard")
          \/ \E offer \in {"sign in", "wrong account", "elsewhere", "accept"} :
                 Shows(t, offer)
      <3>. DEFINE i == invites[tab[t].link]
      <3>1. CASE ~SignedIn(Me(t))
        BY <1>7, <3>1 DEF InvitePage
      <3>2. CASE SignedIn(Me(t)) /\ OrgOf(Me(t)) = i.org
        BY <1>7, <3>2, Zenon DEF InvitePage
      <3>3. CASE SignedIn(Me(t)) /\ OrgOf(Me(t)) # i.org
        BY <1>7, <3>3 DEF InvitePage
      <3>. QED BY <3>1, <3>2, <3>3
    <2>. QED BY <2>1, GoesFits, TurnsFit
  <1>. QED BY <1>1, <1>2, <1>3, <1>4, <1>5, <1>6, <1>7 DEF Load

LEMMA SubmitFits ==
    ASSUME PagesFit, NEW t \in Tabs, Submit(t)
    PROVE  PagesFit'
  <1>. USE DEF PageNames, PageAts, PageOffers
  <1>1. tab[t] \in FitPages /\ tab[t].link \in PageLinks
    BY DEF PagesFit, FitPages
  <1>2. CASE SignInToAccept(t)
    <2>1. Page("signin", "loading", tab[t].link) \in FitPages
      BY <1>1, PageFits
    <2>. QED BY <1>2, <2>1, BecomesFits DEF SignInToAccept
  <1>3. CASE SingleSignOn(t)
    <2>1. \/ Goes(t, "dashboard") \/ Goes(t, "signin")
          \/ tab[t].link \in PageNames \ {"invite"} /\ Goes(t, tab[t].link)
          \/ tab[t].link \in Links /\ Becomes(t, Page("invite", "loading", tab[t].link))
      BY <1>1, <1>3 DEF SingleSignOn, PageLinks, Public
    <2>2. tab[t].link \in Links => Page("invite", "loading", tab[t].link) \in FitPages
      BY PageFits DEF PageLinks
    <2>. QED BY <2>1, <2>2, GoesFits, BecomesFits
  <1>4. CASE PasswordSignIn(t)
    BY <1>4, GoesFits, TurnsFit DEF PasswordSignIn
  <1>5. CASE Bootstrap(t)
    BY <1>5, TurnsFit DEF Bootstrap, Requests, Waits
  <1>6. CASE \E slug \in Slugs : Register(t, slug)
    BY <1>6, GoesFits, TurnsFit DEF Register, Requests, Waits
  <1>7. CASE Accept(t)
    BY <1>7, TurnsFit DEF Accept, Requests, Waits
  <1>8. CASE \E email \in People, role \in Offers : Invite(t, email, role)
    BY <1>8, TurnsFit DEF Invite, Requests, Waits
  <1>9. CASE \E l \in Links : RevokeInvitation(t, l)
    BY <1>9, GoesFits DEF RevokeInvitation
  <1>. QED BY <1>2, <1>3, <1>4, <1>5, <1>6, <1>7, <1>8, <1>9 DEF Submit

LEMMA AnswerFits ==
    ASSUME PagesFit, NEW t \in Tabs, Answer(t)
    PROVE  PagesFit'
  <1>1. After(txs[t].kind) \in PageNames \ {"invite"}
    BY DEF After, PageNames
  <1>2. Stays(t) \/ Goes(t, After(txs[t].kind))
    BY DEF Answer
  <1>. QED BY <1>1, <1>2, GoesFits, TurnsFit

LEMMA VisitFits ==
    ASSUME PagesFit, NEW t \in Tabs, NEW name \in Public \cup ApiPages,
           NEW link \in Links \cup {NoLink}, Visit(t, name, link)
    PROVE  PagesFit'
  <1>1. name \in PageNames /\ (name = "invite" => link \in Links)
    BY DEF Visit, Public, ApiPages, PageNames, NoLink
  <1>2. Page(name, "loading", link) \in FitPages
    BY <1>1, PageFits DEF PageLinks
  <1>. QED BY <1>2, BecomesFits DEF Visit

(***************************************************************************)
(* What a person does.                                                     *)
(***************************************************************************)
LEMMA SubmitInv ==
    ASSUME Inv, PagesFit, NEW t \in Tabs, Submit(t)
    PROVE  Inv' /\ LinksMove
  <1>1. Types /\ sessions \subseteq users /\ OwnerOf[t] \in People
    BY TabsAssumption DEF Inv, Types
  <1>2. SignedIn(Me(t)) => OwnerOf[t] \in users
    BY <1>1 DEF SignedIn, Me
  <1>3. CASE SignInToAccept(t)
    BY <1>1, <1>3, SessionsInv DEF SignInToAccept, OnlyTab, SameSessions
  <1>4. CASE SingleSignOn(t)
    BY <1>4, SingleSignOnInv
  <1>5. CASE PasswordSignIn(t)
    <2>1. UNCHANGED accountVars /\ sessions' \subseteq users
      BY <1>1, <1>5 DEF PasswordSignIn, GetsSession, SameSessions, Types, Me
    <2>. QED BY <2>1, SessionsInv
  <1>6. CASE Bootstrap(t)
    <2>1. BootstrapBegin(t, OwnerOf[t]) /\ sessions' = sessions
      BY <1>6 DEF Bootstrap, Requests, SameSessions, Me
    <2>2. invites' = invites
      BY <2>1 DEF BootstrapBegin, UnchangedRows
    <2>. QED BY <2>1, <2>2, BootstrapBeginInv DEF LinksMove
  <1>7. CASE \E slug \in Slugs : Register(t, slug)
    <2>1. PICK slug \in Slugs : Register(t, slug)
      BY <1>7
    <2>2. CASE SignedIn(Me(t))
      <3>1. RegisterBegin(t, OwnerOf[t], slug) /\ sessions' = sessions
        BY <2>1, <2>2 DEF Register, Requests, SameSessions, Me
      <3>2. invites' = invites
        BY <3>1 DEF RegisterBegin, UnchangedRows
      <3>. QED BY <1>2, <2>2, <3>1, <3>2, RegisterBeginInv DEF LinksMove
    <2>3. CASE ~SignedIn(Me(t))
      BY <1>1, <2>1, <2>3, SessionsInv DEF Register, OnlyTab, SameSessions
    <2>. QED BY <2>2, <2>3
  <1>8. CASE Accept(t)
    <2>1. CASE SignedIn(Me(t))
      <3>. DEFINE l == tab[t].link
      <3>. l \in Links
        BY <1>8 DEF Accept, On, PagesFit, FitPages
      <3>1. AcceptBegin(t, OwnerOf[t], tab[t].link) /\ sessions' = sessions
        BY <1>8, <2>1 DEF Accept, Requests, SameSessions, Me
      <3>2. invites' = invites
        BY <3>1 DEF AcceptBegin, UnchangedRows
      <3>. QED BY <1>2, <2>1, <3>1, <3>2, AcceptBeginInv DEF LinksMove
    <2>2. CASE ~SignedIn(Me(t))
      BY <1>1, <1>8, <2>2, SessionsInv DEF Accept, OnlyTab, SameSessions
    <2>. QED BY <2>1, <2>2
  <1>9. CASE \E email \in People, role \in Offers : Invite(t, email, role)
    <2>1. PICK email \in People, role \in Offers : Invite(t, email, role)
      BY <1>9
    <2>2. CASE SignedIn(Me(t))
      <3>1. InviteBegin(t, OwnerOf[t], email, role) /\ sessions' = sessions
        BY <2>1, <2>2 DEF Invite, Requests, SameSessions, Me
      <3>2. invites' = invites
        BY <3>1 DEF InviteBegin, UnchangedRows
      <3>. QED BY <1>2, <2>2, <3>1, <3>2, InviteBeginInv DEF LinksMove
    <2>3. CASE ~SignedIn(Me(t))
      BY <1>1, <2>1, <2>3, SessionsInv DEF Invite, OnlyTab, SameSessions
    <2>. QED BY <2>2, <2>3
  <1>10. CASE \E l \in Links : RevokeInvitation(t, l)
    BY <1>10, RevokeInv DEF RevokeInvitation, SameSessions
  <1>. QED BY <1>3, <1>4, <1>5, <1>6, <1>7, <1>8, <1>9, <1>10 DEF Submit

(***************************************************************************)
(* The specification.                                                      *)
(***************************************************************************)
LEMMA InitInv == Init => Inv /\ PagesFit
  <1>. SUFFICES ASSUME Init PROVE Inv /\ PagesFit
    OBVIOUS
  <1>1. /\ invites = [l \in Links |-> NoInvite] /\ txs = [t \in Tabs |-> NoTx]
        /\ begun = 0 /\ sessions = {}
    BY DEF Init, AccountsInit
  <1>2. NoTx \in Txs /\ NoTx.at = "none" /\ NoTx.superseded = {}
    BY NoTxType DEF Over, NoTx
  <1>3. NoInvite \in Invitations /\ NoInvite.state = "unused"
    BY DEF NoInvite, Invitations, Roles
  <1>4. /\ orgs \subseteq Slugs /\ users \subseteq People /\ passwords \subseteq users
        /\ members \subseteq Members /\ OneOwnerByToken /\ SecondJoinOverlaps
        /\ \A m \in members : m.role = "owner"
    <2>1. CASE Unclaimed
      BY <2>1 DEF Unclaimed, OneOwnerByToken, SecondJoinOverlaps
    <2>2. CASE \E p \in Founders : ClaimedBy(p)
      <3>1. PICK p \in Founders : ClaimedBy(p)
        BY <2>2
      <3>2. p \in People /\ SlugOf[p] \in Slugs
        BY FoundersAssumption, SlugsAssumption
      <3>. QED BY <1>1, <3>1, <3>2
           DEF ClaimedBy, OneOwnerByToken, SecondJoinOverlaps, Members, Roles
    <2>. QED BY <2>1, <2>2 DEF Init, AccountsInit
  <1>5. Types
    BY <1>1, <1>2, <1>3, <1>4 DEF Types
  <1>6. TabsInv
    <2>1. \A t \in Tabs : txs[t].at = "none" /\ txs[t].superseded = {} /\ HeldBy(t) = {}
      BY <1>1, <1>2 DEF HeldBy
    <2>2. \A t \in Tabs : TabInv(t)
      BY <2>1 DEF TabInv, Holding, Inviting, Joining
    <2>3. \A t, o \in Tabs : PairInv(t, o)
      BY <2>1 DEF PairInv, Inviting
    <2>. QED BY <2>2, <2>3 DEF TabsInv
  <1>7. RowsInv
    BY <1>1, <1>3, <1>4 DEF RowsInv, LinksInv, MembershipIsInvited
  <1>8. PagesFit
    <2>1. Page("signin", "loading", NoLink) \in FitPages
      BY PageFits DEF PageNames, PageLinks
    <2>. QED BY <2>1 DEF Init, PagesFit
  <1>. QED BY <1>5, <1>6, <1>7, <1>8 DEF Inv

LEMMA NextInv ==
    Inv /\ PagesFit /\ [Next]_vars => Inv' /\ PagesFit' /\ LinksMove
  <1>. SUFFICES ASSUME Inv, PagesFit, [Next]_vars PROVE Inv' /\ PagesFit' /\ LinksMove
    OBVIOUS
  <1>1. Types /\ sessions \subseteq users
    BY DEF Inv, Types
  <1>2. tab' = tab => PagesFit'
    BY DEF PagesFit, FitPages
  <1>3. ASSUME NEW t \in Tabs, Load(t) PROVE Inv' /\ PagesFit' /\ LinksMove
    <2>1. UNCHANGED accountVars /\ sessions' = sessions
      BY <1>3 DEF Load, Middleware, ApiPage, Refused, SignInPage, WelcomePage, Preview,
                  InvitePage, OnlyTab, SameSessions
    <2>. QED BY <1>1, <1>3, <2>1, SessionsInv, LoadFits
  <1>4. ASSUME NEW t \in Tabs, Submit(t) PROVE Inv' /\ PagesFit' /\ LinksMove
    BY <1>4, SubmitInv, SubmitFits
  <1>5. ASSUME NEW t \in Tabs, Transaction(t) PROVE Inv' /\ PagesFit' /\ LinksMove
    BY <1>2, <1>5, TxStepInv DEF Transaction, SameSessions
  <1>6. ASSUME NEW t \in Tabs, Answer(t) PROVE Inv' /\ PagesFit' /\ LinksMove
    BY <1>6, AnswerInv, AnswerFits
  <1>7. ASSUME NEW t \in Tabs, NEW name \in Public \cup ApiPages,
               NEW link \in Links \cup {NoLink}, Visit(t, name, link)
        PROVE  Inv' /\ PagesFit' /\ LinksMove
    BY <1>1, <1>7, SessionsInv, VisitFits DEF Visit, OnlyTab, SameSessions
  <1>8. ASSUME NEW p \in People, SessionEnds(p) PROVE Inv' /\ PagesFit' /\ LinksMove
    BY <1>1, <1>2, <1>8, SessionsInv DEF SessionEnds
  <1>9. ASSUME NEW l \in Links, Expires(l) PROVE Inv' /\ PagesFit' /\ LinksMove
    BY <1>2, <1>9, ExpireInv DEF Expires, SameSessions
  <1>10. CASE UNCHANGED vars
    BY <1>1, <1>2, <1>10, SessionsInv DEF vars
  <1>. QED BY <1>3, <1>4, <1>5, <1>6, <1>7, <1>8, <1>9, <1>10 DEF Next

LEMMA Invariance == Spec => [](Inv /\ PagesFit)
  BY InitInv, NextInv, PTL DEF Spec

(***************************************************************************)
(* Types: what is left of them is the cookies and the clock.               *)
(***************************************************************************)
Bounds == cookies \subseteq People /\ begun \in 0..MaxJoins

LEMMA BoundsStep == Types /\ Bounds /\ [Next]_vars => Bounds'
  <1>. SUFFICES ASSUME Types, Bounds, [Next]_vars PROVE Bounds'
    OBVIOUS
  <1>. USE BoundAssumption, TabsAssumption DEF Bounds
  <1>1. begun < MaxJoins => begun + 1 \in 0..MaxJoins
    OBVIOUS
  <1>2. \A t \in Tabs : \A x : Opens(t, x) => begun' \in 0..MaxJoins
    BY <1>1 DEF Opens
  <1>3. UNCHANGED accountVars => begun' = begun
    BY DEF accountVars
  <1>4. \A t \in Tabs : OwnerOf[t] \in People
    OBVIOUS
  <1>5. ASSUME NEW t \in Tabs, Load(t) PROVE Bounds'
    BY <1>3, <1>5 DEF Load, Middleware, ApiPage, Refused, SignInPage, WelcomePage, Preview,
                      InvitePage, OnlyTab, SameSessions
  <1>6. ASSUME NEW t \in Tabs, Submit(t) PROVE Bounds'
    <2>1. CASE SignInToAccept(t) \/ SingleSignOn(t) \/ PasswordSignIn(t)
      BY <1>3, <1>4, <2>1 DEF SignInToAccept, SingleSignOn, PasswordSignIn, GetsSession, Me,
                              OnlyTab, SameSessions
    <2>2. CASE Bootstrap(t)
      BY <1>2, <2>2 DEF Bootstrap, BootstrapBegin, Requests, SameSessions
    <2>3. CASE \E slug \in Slugs : Register(t, slug)
      BY <1>2, <1>3, <2>3 DEF Register, RegisterBegin, Requests, SameSessions, OnlyTab
    <2>4. CASE Accept(t)
      BY <1>2, <1>3, <2>4 DEF Accept, AcceptBegin, Requests, SameSessions, OnlyTab
    <2>5. CASE \E email \in People, role \in Offers : Invite(t, email, role)
      BY <1>3, <2>5 DEF Invite, InviteBegin, Requests, SameSessions, OnlyTab
    <2>6. CASE \E l \in Links : RevokeInvitation(t, l)
      BY <2>6 DEF RevokeInvitation, Revoke, SameSessions
    <2>. QED BY <1>6, <2>1, <2>2, <2>3, <2>4, <2>5, <2>6 DEF Submit
  <1>7. ASSUME NEW t \in Tabs, Transaction(t) PROVE Bounds'
    BY <1>7 DEF Transaction, SameSessions, TxStep, RegisterInsert, AcceptJoin,
                InviteSupersede, InviteInsert, Commit, Abort
  <1>8. ASSUME NEW t \in Tabs, Answer(t) PROVE Bounds'
    BY <1>4, <1>8 DEF Answer, GetsSession, SameSessions, Me
  <1>9. ASSUME NEW t \in Tabs, NEW name, NEW link, Visit(t, name, link) PROVE Bounds'
    BY <1>3, <1>9 DEF Visit, OnlyTab, SameSessions
  <1>10. ASSUME NEW p \in People, SessionEnds(p) PROVE Bounds'
    BY <1>3, <1>10 DEF SessionEnds
  <1>11. ASSUME NEW l \in Links, Expires(l) PROVE Bounds'
    BY <1>11 DEF Expires, Expire, SameSessions
  <1>12. CASE UNCHANGED vars
    BY <1>3, <1>12 DEF vars
  <1>. QED BY <1>5, <1>6, <1>7, <1>8, <1>9, <1>10, <1>11, <1>12 DEF Next

\* Every person, organisation, membership, invitation and page is what its table
\* or its route may hold, and a pending invitation is to an organisation there is.
THEOREM TypeCorrect == Spec => []TypeOK
  <1>1. Init => Bounds
    BY BoundAssumption DEF Init, AccountsInit, Bounds
  <1>2. Inv => Types
    BY DEF Inv
  <1>3. Inv /\ PagesFit /\ Bounds => TypeOK
    <2>. SUFFICES ASSUME Inv, PagesFit, Bounds PROVE TypeOK
      OBVIOUS
    <2>. USE DEF Inv, Types
    <2>1. members \subseteq [user : users, org : orgs, role : Roles,
                             since : 0..MaxJoins, until : 0..MaxJoins]
      <3>1. \A i \in 0..begun : i \in 0..MaxJoins
        BY BoundAssumption DEF Bounds
      <3>. QED BY <3>1 DEF Members
    <2>2. ASSUME NEW l \in Links
          PROVE  /\ invites[l].state \in {"unused", "pending", "accepted", "revoked"}
                 /\ Pending(l) => invites[l].org \in orgs
      <3>1. invites[l].state \in {"unused", "pending", "accepted", "revoked"}
        BY DEF Invitations
      <3>2. CASE invites[l].state # "unused"
        <4>1. PICK o \in members : o.org = invites[l].org
          BY <3>2 DEF RowsInv, LinksInv, Grants
        <4>. QED BY <3>1, <4>1 DEF Members
      <3>. QED BY <3>1, <3>2 DEF Pending
    <2>3. \A t \in Tabs : txs[t].at \in
              {"none", "read", "founded", "locked", "held", "joined", "spent",
               "checked", "superseded", "invited", "answered"}
      BY DEF Txs, Places, Holding, Inviting, Joining
    <2>4. \A t \in Tabs : /\ tab[t].name \in Public \cup ApiPages \cup {"welcome"}
                          /\ tab[t].at \in {"loading", "refused", "previewed", "shown", "busy"}
      BY DEF PagesFit, FitPages, PageNames, PageAts, Public, ApiPages
    <2>. QED BY <2>1, <2>2, <2>3, <2>4 DEF TypeOK, AccountsTypeOK, Bounds
  <1>. QED BY <1>1, <1>2, <1>3, BoundsStep, Invariance, PTL DEF Spec

\* Two people never both claim a deployment with the setup token, however their
\* first requests overlap: the table lock of bootstrapOwner is held until the
\* password of the first owner is in the table.
THEOREM ClaimedOnce == Spec => []OneOwnerByToken
  <1>1. Inv => OneOwnerByToken
    BY DEF Inv, RowsInv
  <1>. QED BY <1>1, Invariance, PTL

\* A person's memberships began in an order, each before the one before it was
\* committed: whoever is a member when a registration or a click on a link begins
\* joins nothing more by it.
THEOREM JoinsOverlap == Spec => []SecondJoinOverlaps
  <1>1. Inv => SecondJoinOverlaps
    BY DEF Inv, RowsInv
  <1>. QED BY <1>1, Invariance, PTL

\* Nobody is in an organisation without a link of their own from a member who
\* could grant the role, whatever clicks, revocations and invitations overlap.
THEOREM NobodyWalksIn == Spec => []MembershipIsInvited
  <1>1. Inv => MembershipIsInvited
    BY DEF Inv, RowsInv
  <1>. QED BY <1>1, Invariance, PTL

\* An accepted link is never revoked and a revoked one never accepted: a click
\* holds the row it read, and revoking and superseding wait for it.
THEOREM LinksStayFinal == Spec => LinksAreFinal
  <1>1. LinksMove => \A l \in Links : invites[l].state \in {"accepted", "revoked"} =>
                                          invites'[l].state = invites[l].state
    BY DEF LinksMove
  <1>2. Inv /\ PagesFit /\ [Next]_vars =>
            [\A l \in Links : invites[l].state \in {"accepted", "revoked"} =>
                invites'[l].state = invites[l].state]_vars
    BY <1>1, NextInv
  <1>. QED BY <1>2, Invariance, PTL DEF Spec, LinksAreFinal

(***************************************************************************)
(* Redirects: how many a load may still take.                              *)
(***************************************************************************)
InOrg(p) == OrgOf(p) # NoOrg

\* The redirects ahead of a page if no session ends: s says whether its reader
\* has a session, o whether an organisation.
AheadOf(page, s, o) ==
    IF page.at \in {"shown", "busy"} THEN 0
    ELSE IF page.at = "refused" THEN IF s \/ o THEN 2 ELSE 4
    ELSE IF page.name \in Public THEN IF o THEN 1 ELSE 3
    ELSE IF page.name = "welcome" THEN IF s THEN 1 ELSE IF o THEN 2 ELSE 4
    ELSE IF s THEN IF o THEN 0 ELSE 2
    ELSE IF o THEN 2 ELSE 4
Ahead(t) == AheadOf(tab[t], SignedIn(Me(t)), InOrg(Me(t)))

\* A page on screen has taken no redirect, a load few.
TabHops(t) ==
    /\ tab[t].at = "previewed" => tab[t].name = "invite"
    /\ tab[t].at \in {"shown", "busy"} => tab[t].hops = 0
    /\ tab[t].hops + Ahead(t) <= 4 + 3 * (MaxEnds - ends)

HopsInv == ends \in 0..MaxEnds /\ \A t \in Tabs : TabHops(t)

\* Sessions and memberships only come.
Gains == /\ cookies \subseteq cookies' /\ sessions \subseteq sessions'
         /\ members \subseteq members' /\ ends' = ends

LEMMA AheadBounds ==
    ASSUME NEW page, NEW s \in BOOLEAN, NEW o \in BOOLEAN
    PROVE  /\ AheadOf(page, s, o) \in 0..4
           /\ \A u, v \in BOOLEAN : (s => u) /\ (o => v) =>
                  AheadOf(page, u, v) <= AheadOf(page, s, o)
           /\ \A u \in BOOLEAN : AheadOf(page, u, o) <= AheadOf(page, s, o) + 3
  BY DEF AheadOf

LEMMA OrgHas == Types => \A p : InOrg(p) <=> \E m \in members : m.user = p
  BY Belonging DEF InOrg, MembershipsOf

LEMMA OrgHasNext == (Types => \A p : InOrg(p) <=> \E m \in members : m.user = p)'
  BY OrgHas, PTL

LEMMA OrgStays ==
    ASSUME Types, Types', members \subseteq members', NEW p, InOrg(p)
    PROVE  InOrg(p)'
  BY OrgHas, OrgHasNext

\* A tab that stays where it is has no more ahead of it than before.
LEMMA TabStays ==
    ASSUME Types, Types', PagesFit, HopsInv, Gains, NEW t \in Tabs, tab'[t] = tab[t]
    PROVE  TabHops(t)'
  <1>1. TabHops(t) /\ tab[t].hops \in Nat
    BY DEF HopsInv, PagesFit, FitPages
  <1>2. /\ SignedIn(Me(t)) => SignedIn(Me(t))'
        /\ InOrg(Me(t)) => InOrg(Me(t))'
    BY OrgStays DEF SignedIn, Gains, Me
  <1>3. /\ Ahead(t)' <= Ahead(t) /\ Ahead(t) \in 0..4 /\ Ahead(t)' \in 0..4
    <2>1. /\ SignedIn(Me(t)) \in BOOLEAN /\ SignedIn(Me(t))' \in BOOLEAN
          /\ InOrg(Me(t)) \in BOOLEAN /\ InOrg(Me(t))' \in BOOLEAN
      BY DEF SignedIn, InOrg
    <2>2. Ahead(t)' = AheadOf(tab[t], SignedIn(Me(t))', InOrg(Me(t))')
      BY DEF Ahead, AheadOf
    <2>. QED BY <1>2, <2>1, <2>2, AheadBounds DEF Ahead
  <1>4. /\ MaxEnds \in Nat /\ ends \in Nat /\ ends' = ends
    BY EndsAssumption DEF HopsInv, Gains
  <1>5. tab'[t].hops + Ahead(t)' <= 4 + 3 * (MaxEnds - ends')
    BY <1>1, <1>3, <1>4 DEF TabHops
  <1>. QED BY <1>1, <1>5 DEF TabHops

\* A session that ends costs three at most.
LEMMA TabLosesSession ==
    ASSUME PagesFit, HopsInv, UNCHANGED <<accountVars, tab>>,
           ends > 0, ends' = ends - 1, NEW t \in Tabs
    PROVE  TabHops(t)'
  <1>1. TabHops(t) /\ tab[t].hops \in Nat
    BY DEF HopsInv, PagesFit, FitPages
  <1>2. /\ Ahead(t)' <= Ahead(t) + 3 /\ Ahead(t) \in 0..4 /\ Ahead(t)' \in 0..4
    <2>1. /\ SignedIn(Me(t)) \in BOOLEAN /\ SignedIn(Me(t))' \in BOOLEAN
          /\ InOrg(Me(t)) \in BOOLEAN
      BY DEF SignedIn, InOrg
    <2>2. Ahead(t)' = AheadOf(tab[t], SignedIn(Me(t))', InOrg(Me(t)))
      BY DEF Ahead, AheadOf, InOrg, OrgOf, MembershipOf, MembershipsOf, FirstOf, accountVars, Me
    <2>. QED BY <2>1, <2>2, AheadBounds DEF Ahead
  <1>3. /\ MaxEnds \in Nat /\ ends \in Nat
    BY EndsAssumption DEF HopsInv
  <1>4. tab'[t].hops + Ahead(t)' <= 4 + 3 * (MaxEnds - ends')
    BY <1>1, <1>2, <1>3 DEF TabHops
  <1>. QED BY <1>1, <1>4 DEF TabHops

\* A page that is opened, or shown, has taken no redirect.
LEMMA TabBegins ==
    ASSUME HopsInv, ends' = ends, NEW t \in Tabs, tab'[t].hops = 0,
           tab'[t].at # "previewed"
    PROVE  TabHops(t)'
  <1>1. Ahead(t)' \in 0..4
    <2>1. SignedIn(Me(t))' \in BOOLEAN /\ InOrg(Me(t))' \in BOOLEAN
      BY DEF SignedIn, InOrg
    <2>2. Ahead(t)' = AheadOf(tab'[t], SignedIn(Me(t))', InOrg(Me(t))')
      BY DEF Ahead, AheadOf
    <2>. QED BY <2>1, <2>2, AheadBounds
  <1>2. MaxEnds \in Nat /\ ends \in Nat /\ ends <= MaxEnds
    BY EndsAssumption DEF HopsInv
  <1>3. 0 + Ahead(t)' <= 4 + 3 * (MaxEnds - ends)
    BY <1>1, <1>2
  <1>. QED BY <1>3 DEF TabHops

\* One more redirect is one less ahead; so is none.
LEMMA TabGoesOn ==
    ASSUME PagesFit, HopsInv, OnlyTab, NEW t \in Tabs, NEW n \in {0, 1},
           tab'[t].hops = tab[t].hops + n, tab'[t].at \in {"loading", "refused", "previewed"},
           tab'[t].at = "previewed" => tab'[t].name = "invite",
           AheadOf(tab'[t], SignedIn(Me(t)), InOrg(Me(t))) + n <= Ahead(t)
    PROVE  TabHops(t)'
  <1>1. TabHops(t) /\ tab[t].hops \in Nat
    BY DEF HopsInv, PagesFit, FitPages
  <1>2. Ahead(t)' = AheadOf(tab'[t], SignedIn(Me(t)), InOrg(Me(t))) /\ ends' = ends
    BY DEF OnlyTab, SameSessions, accountVars, Ahead, AheadOf, SignedIn, InOrg, OrgOf,
           MembershipOf, MembershipsOf, FirstOf, Me
  <1>3. SignedIn(Me(t)) \in BOOLEAN /\ InOrg(Me(t)) \in BOOLEAN
    BY DEF SignedIn, InOrg
  <1>4. Ahead(t)' \in 0..4 /\ Ahead(t) \in 0..4
    BY <1>2, <1>3, AheadBounds DEF Ahead
  <1>5. MaxEnds \in Nat /\ ends \in Nat
    BY EndsAssumption DEF HopsInv
  <1>6. tab'[t].hops + Ahead(t)' <= 4 + 3 * (MaxEnds - ends')
    BY <1>1, <1>2, <1>4, <1>5 DEF TabHops
  <1>. QED BY <1>6 DEF TabHops

LEMMA RedirectsFrom ==
    ASSUME PagesFit, NEW t \in Tabs, NEW name, NEW link, RedirectsWith(t, name, link)
    PROVE  tab'[t].name = name /\ tab'[t].at = "loading" /\ tab'[t].hops = tab[t].hops + 1
  <1>. DEFINE h == tab[t].hops + 1
              R == [name : {name}, at : {"loading"}, link : {link}, offer : PageOffers,
                    hops : Nat]
              x == Page(name, "loading", link)
              y == [x EXCEPT !.hops = h]
  <1>1. tab'[t] = y
    BY DEF RedirectsWith, Becomes, PagesFit
  <1>2. x \in R
    BY DEF Page, PageOffers
  <1>3. x.name = name /\ x.at = "loading"
    BY DEF Page
  <1>. HIDE DEF x, h
  <1>4. y.name = x.name /\ y.at = x.at /\ y.hops = h
    BY <1>2
  <1>. QED BY <1>1, <1>3, <1>4 DEF h

LEMMA RedirectsTo ==
    ASSUME PagesFit, NEW t \in Tabs, NEW name, Redirects(t, name)
    PROVE  tab'[t].name = name /\ tab'[t].at = "loading" /\ tab'[t].hops = tab[t].hops + 1
  BY RedirectsFrom DEF Redirects

LEMMA TurnsTo ==
    ASSUME PagesFit, NEW t \in Tabs
    PROVE  /\ \A offer : Shows(t, offer) => tab'[t].hops = 0 /\ tab'[t].at = "shown"
           /\ Stays(t) => tab'[t].hops = 0 /\ tab'[t].at = "shown"
           /\ \A at : Becomes(t, [tab[t] EXCEPT !.at = at]) =>
                  /\ tab'[t].hops = tab[t].hops /\ tab'[t].name = tab[t].name
                  /\ tab'[t].at = at
  <1>1. tab[t] \in FitPages
    BY DEF PagesFit
  <1>2. ASSUME NEW y, Becomes(t, y) PROVE tab'[t] = y
    BY <1>2 DEF Becomes, PagesFit
  <1>. DEFINE x == tab[t]
  <1>3. x \in FitPages
    BY <1>1
  <1>. HIDE DEF x
  <1>4. ASSUME NEW at, NEW offer
        PROVE  /\ [x EXCEPT !.at = at, !.offer = offer, !.hops = 0].hops = 0
               /\ [x EXCEPT !.at = at, !.offer = offer, !.hops = 0].at = at
               /\ [x EXCEPT !.at = at, !.hops = 0].hops = 0
               /\ [x EXCEPT !.at = at, !.hops = 0].at = at
               /\ [x EXCEPT !.at = at].hops = x.hops
               /\ [x EXCEPT !.at = at].name = x.name
               /\ [x EXCEPT !.at = at].at = at
    BY <1>3 DEF FitPages
  <1>5. ASSUME NEW offer, Shows(t, offer) PROVE tab'[t].hops = 0 /\ tab'[t].at = "shown"
    <2>. DEFINE y == [x EXCEPT !.at = "shown", !.offer = offer, !.hops = 0]
    <2>1. Becomes(t, y)
      BY <1>5 DEF Shows, x
    <2>2. y.hops = 0 /\ y.at = "shown"
      BY <1>4
    <2>. HIDE DEF y
    <2>. QED BY <1>2, <2>1, <2>2
  <1>6. ASSUME Stays(t) PROVE tab'[t].hops = 0 /\ tab'[t].at = "shown"
    <2>. DEFINE y == [x EXCEPT !.at = "shown", !.hops = 0]
    <2>1. Becomes(t, y)
      BY <1>6 DEF Stays, x
    <2>2. y.hops = 0 /\ y.at = "shown"
      BY <1>4
    <2>. HIDE DEF y
    <2>. QED BY <1>2, <2>1, <2>2
  <1>7. ASSUME NEW at, Becomes(t, [tab[t] EXCEPT !.at = at])
        PROVE  tab'[t].hops = tab[t].hops /\ tab'[t].name = tab[t].name /\ tab'[t].at = at
    <2>. DEFINE y == [x EXCEPT !.at = at]
    <2>1. Becomes(t, y)
      BY <1>7 DEF x
    <2>2. y.hops = x.hops /\ y.name = x.name /\ y.at = at
      BY <1>4
    <2>. HIDE DEF y
    <2>. QED BY <1>2, <2>1, <2>2 DEF x
  <1>. QED BY <1>5, <1>6, <1>7, Zenon

LEMMA ShownFresh ==
    ASSUME PagesFit, HopsInv, OnlyTab, NEW t \in Tabs,
           (\E offer : Shows(t, offer)) \/ Stays(t)
    PROVE  TabHops(t)'
  <1>1. tab'[t].hops = 0 /\ tab'[t].at = "shown"
    BY TurnsTo
  <1>. QED BY <1>1, TabBegins DEF OnlyTab, SameSessions

LEMMA LoadOnly ==
    ASSUME NEW t \in Tabs, Load(t)
    PROVE  OnlyTab
  <1>1. CASE Middleware(t) \/ ApiPage(t) \/ Refused(t)
    BY <1>1, Zenon DEF Middleware, ApiPage, Refused
  <1>2. CASE SignInPage(t) \/ WelcomePage(t) \/ Preview(t) \/ InvitePage(t)
    BY <1>2, Zenon DEF SignInPage, WelcomePage, Preview, InvitePage
  <1>. QED BY <1>1, <1>2, Zenon DEF Load

LEMMA LoadHops ==
    ASSUME PagesFit, HopsInv, NEW t \in Tabs, Load(t)
    PROVE  TabHops(t)'
  <1>. DEFINE s == SignedIn(Me(t))
              o == InOrg(Me(t))
  <1>1. OnlyTab
    BY LoadOnly
  <1>2. /\ tab[t] \in FitPages /\ TabHops(t)
        /\ Ahead(t) = AheadOf(tab[t], s, o) /\ s \in BOOLEAN /\ o \in BOOLEAN
    BY DEF PagesFit, HopsInv, Ahead, SignedIn, InOrg
  <1>3. ASSUME NEW name, Redirects(t, name), AheadOf(tab'[t], s, o) + 1 <= Ahead(t)
        PROVE  TabHops(t)'
    BY <1>1, <1>3, RedirectsTo, TabGoesOn
  <1>4. ASSUME NEW at \in {"refused", "previewed"}, Becomes(t, [tab[t] EXCEPT !.at = at]),
               AheadOf(tab'[t], s, o) <= Ahead(t),
               at = "previewed" => tab[t].name = "invite"
        PROVE  TabHops(t)'
    <2>1. /\ tab'[t].hops = tab[t].hops /\ tab'[t].at = at /\ tab'[t].name = tab[t].name
          /\ tab[t].hops \in Nat
      BY <1>2, <1>4, TurnsTo DEF FitPages
    <2>2. AheadOf(tab'[t], s, o) \in 0..4
      BY <1>2, AheadBounds
    <2>3. AheadOf(tab'[t], s, o) + 0 <= Ahead(t) /\ tab'[t].hops = tab[t].hops + 0
      BY <1>4, <2>1, <2>2
    <2>. QED BY <1>1, <1>4, <2>1, <2>3, TabGoesOn
  <1>5. s => Me(t) \in cookies
    BY DEF SignedIn
  <1>. HIDE DEF s, o
  <1>6. CASE Middleware(t)
    <2>1. /\ RedirectsWith(t, "signin", tab[t].name) /\ tab[t].at = "loading"
          /\ tab[t].name \notin Public /\ ~s
      BY <1>5, <1>6 DEF Middleware, Stopped
    <2>2. /\ tab'[t].name = "signin" /\ tab'[t].at = "loading"
          /\ tab'[t].hops = tab[t].hops + 1
      BY <2>1, RedirectsFrom
    <2>3. AheadOf(tab'[t], s, o) + 1 <= Ahead(t)
      BY <1>2, <2>1, <2>2 DEF AheadOf, Public
    <2>. QED BY <1>1, <2>2, <2>3, TabGoesOn DEF s, o
  <1>7. CASE ApiPage(t)
    <2>1. CASE (\E offer : Shows(t, offer)) \/ Stays(t)
      BY <1>1, <2>1, ShownFresh
    <2>2. CASE /\ tab[t].at = "loading" /\ tab[t].name \in ApiPages /\ ~(s /\ o)
               /\ Becomes(t, [tab[t] EXCEPT !.at = "refused"])
      <3>1. tab'[t].at = "refused"
        BY <2>2, TurnsTo
      <3>2. AheadOf(tab'[t], s, o) <= Ahead(t)
        BY <1>2, <2>2, <3>1 DEF AheadOf, Public, ApiPages
      <3>. QED BY <1>4, <2>2, <3>2
    <2>3. tab[t].at = "loading" /\ tab[t].name \in ApiPages
      BY <1>7, Zenon DEF ApiPage, Loads
    <2>4. \/ (\E offer : Shows(t, offer)) \/ Stays(t)
          \/ ~(s /\ o) /\ Becomes(t, [tab[t] EXCEPT !.at = "refused"])
      BY <1>7, Zenon DEF ApiPage, s, o, InOrg
    <2>. QED BY <2>1, <2>2, <2>3, <2>4
  <1>8. CASE Refused(t)
    <2>1. /\ tab[t].at = "refused"
          /\ \/ s /\ ~o /\ Redirects(t, "welcome")
             \/ ~(s /\ ~o) /\ Redirects(t, "signin")
      BY <1>8 DEF Refused, s, o, InOrg
    <2>2. AheadOf(tab'[t], s, o) + 1 <= Ahead(t)
      BY <1>2, <2>1, RedirectsTo DEF AheadOf, Public
    <2>. QED BY <1>3, <2>1, <2>2
  <1>9. CASE SignInPage(t)
    <2>1. tab[t].at = "loading" /\ tab[t].name = "signin"
      BY <1>9 DEF SignInPage, Loads
    <2>2. CASE s /\ Redirects(t, "dashboard")
      <3>1. AheadOf(tab'[t], s, o) + 1 <= Ahead(t)
        BY <1>2, <2>1, <2>2, RedirectsTo DEF AheadOf, Public
      <3>. QED BY <1>3, <2>2, <3>1
    <2>3. CASE \E offer : Shows(t, offer)
      BY <1>1, <2>3, ShownFresh
    <2>. QED BY <1>9, <2>2, <2>3 DEF SignInPage, s
  <1>10. CASE WelcomePage(t)
    <2>1. tab[t].at = "loading" /\ tab[t].name = "welcome"
      BY <1>10 DEF WelcomePage, Loads
    <2>2. \/ ~s /\ Redirects(t, "signin")
          \/ s /\ o /\ Redirects(t, "dashboard")
          \/ Shows(t, "register")
      <3>1. CASE ~s
        BY <1>10, <3>1 DEF WelcomePage, s
      <3>2. CASE s /\ o
        BY <1>10, <3>2 DEF WelcomePage, s, o, InOrg
      <3>3. CASE s /\ ~o
        BY <1>10, <3>3 DEF WelcomePage, s, o, InOrg
      <3>. QED BY <3>1, <3>2, <3>3
    <2>3. CASE Shows(t, "register")
      BY <1>1, <2>3, ShownFresh
    <2>4. ASSUME NEW name, Redirects(t, name),
                 \/ ~s /\ name = "signin"
                 \/ s /\ o /\ name = "dashboard"
          PROVE  TabHops(t)'
      <3>1. AheadOf(tab'[t], s, o) + 1 <= Ahead(t)
        BY <1>2, <2>1, <2>4, RedirectsTo DEF AheadOf, Public
      <3>. QED BY <1>3, <2>4, <3>1
    <2>. QED BY <2>2, <2>3, <2>4
  <1>11. CASE Preview(t)
    <2>1. tab[t].at = "loading" /\ tab[t].name = "invite"
      BY <1>11 DEF Preview, Loads
    <2>2. CASE Becomes(t, [tab[t] EXCEPT !.at = "previewed"])
      <3>1. tab'[t].at = "previewed" /\ tab'[t].name = "invite"
        BY <2>1, <2>2, TurnsTo
      <3>2. AheadOf(tab'[t], s, o) <= Ahead(t)
        BY <1>2, <2>1, <3>1 DEF AheadOf, Public
      <3>. QED BY <1>4, <2>1, <2>2, <3>2
    <2>. QED BY <1>1, <1>11, <2>2, ShownFresh DEF Preview
  <1>12. CASE InvitePage(t)
    <2>1. tab[t].at = "previewed" /\ tab[t].name = "invite"
      <3>1. tab[t].at = "previewed"
        BY <1>12, Zenon DEF InvitePage
      <3>. QED BY <1>2, <3>1 DEF TabHops
    <2>2. (s /\ Redirects(t, "dashboard")) \/ \E offer : Shows(t, offer)
      <3>. DEFINE i == invites[tab[t].link]
      <3>1. CASE ~s
        <4>1. Shows(t, "sign in")
          BY <1>12, <3>1, Zenon DEF InvitePage, s
        <4>. QED BY <4>1, Zenon
      <3>2. CASE s /\ OrgOf(Me(t)) = i.org
        BY <1>12, <3>2, Zenon DEF InvitePage, s
      <3>3. CASE s /\ OrgOf(Me(t)) # i.org
        BY <1>12, <3>3, Zenon DEF InvitePage, s
      <3>. QED BY <3>1, <3>2, <3>3
    <2>3. CASE s /\ Redirects(t, "dashboard")
      <3>1. AheadOf(tab'[t], s, o) + 1 <= Ahead(t)
        BY <1>2, <2>1, <2>3, RedirectsTo DEF AheadOf, Public
      <3>. QED BY <1>3, <2>3, <3>1
    <2>. QED BY <1>1, <2>2, <2>3, ShownFresh
  <1>. QED BY <1>6, <1>7, <1>8, <1>9, <1>10, <1>11, <1>12 DEF Load

\* What a person does, and an answer: a page is opened or stays, untouched by
\* redirects.
Afresh(t) == tab'[t].hops = 0 /\ tab'[t].at # "previewed"
OnlyMoves(t) == \A o \in Tabs \ {t} : tab'[o] = tab[o]

LEMMA OpensAfresh ==
    ASSUME PagesFit, NEW t \in Tabs, NEW name, NEW link,
           Becomes(t, Page(name, "loading", link))
    PROVE  Afresh(t)
  <1>. DEFINE x == Page(name, "loading", link)
  <1>1. tab'[t] = x
    BY DEF Becomes, PagesFit
  <1>2. x.hops = 0
    BY DEF Page
  <1>3. x.at = "loading"
    BY DEF Page
  <1>. HIDE DEF x
  <1>. QED BY <1>1, <1>2, <1>3 DEF Afresh

LEMMA BecomesMoves ==
    ASSUME PagesFit, NEW t \in Tabs, NEW x, Becomes(t, x)
    PROVE  OnlyMoves(t)
  BY DEF Becomes, PagesFit, OnlyMoves

LEMMA ShownTurns ==
    ASSUME PagesFit, HopsInv, NEW t \in Tabs, tab[t].at = "shown",
           Stays(t) \/ \E at \in {"busy", "refused"} : Becomes(t, [tab[t] EXCEPT !.at = at])
    PROVE  Afresh(t) /\ OnlyMoves(t)
  <1>1. tab[t].hops = 0
    BY DEF HopsInv, TabHops
  <1>2. CASE Stays(t)
    <2>1. Afresh(t)
      BY <1>2, TurnsTo DEF Afresh
    <2>. QED BY <1>2, <2>1, BecomesMoves DEF Stays
  <1>3. ASSUME NEW at \in {"busy", "refused"}, Becomes(t, [tab[t] EXCEPT !.at = at])
        PROVE  Afresh(t) /\ OnlyMoves(t)
    <2>1. tab'[t].hops = tab[t].hops /\ tab'[t].at = at
      BY <1>3, TurnsTo
    <2>2. OnlyMoves(t)
      BY <1>3, BecomesMoves
    <2>. QED BY <1>1, <1>3, <2>1, <2>2 DEF Afresh
  <1>. QED BY <1>2, <1>3

LEMMA SubmitAfresh ==
    ASSUME PagesFit, HopsInv, NEW t \in Tabs, Submit(t)
    PROVE  Gains /\ Afresh(t) /\ OnlyMoves(t)
  <1>1. ASSUME NEW name, NEW link, Becomes(t, Page(name, "loading", link))
        PROVE  Afresh(t) /\ OnlyMoves(t)
    BY <1>1, OpensAfresh, BecomesMoves
  <1>2. ASSUME NEW name, Goes(t, name) PROVE Afresh(t) /\ OnlyMoves(t)
    BY <1>1, <1>2 DEF Goes
  <1>3. ASSUME tab[t].at = "shown",
               \/ Stays(t) \/ Waits(t)
               \/ Becomes(t, [tab[t] EXCEPT !.at = "refused"])
        PROVE  Afresh(t) /\ OnlyMoves(t)
    BY <1>3, ShownTurns DEF Waits
  <1>4. SameSessions /\ members' = members => Gains
    BY DEF SameSessions, Gains
  <1>5. OnlyTab => Gains
    BY <1>4 DEF OnlyTab, accountVars
  <1>6. GetsSession(Me(t)) /\ members' = members => Gains
    BY DEF GetsSession, Gains
  <1>7. CASE SignInToAccept(t)
    <2>1. Becomes(t, Page("signin", "loading", tab[t].link)) /\ OnlyTab
      BY <1>7, Zenon DEF SignInToAccept
    <2>. QED BY <1>1, <1>5, <2>1
  <1>8. CASE SingleSignOn(t)
    <2>1. Gains
      BY <1>4, <1>6, <1>8 DEF SingleSignOn
    <2>2. \/ \E name : Goes(t, name)
          \/ Becomes(t, Page("invite", "loading", tab[t].link))
      BY <1>8, Zenon DEF SingleSignOn
    <2>. QED BY <1>1, <1>2, <2>1, <2>2
  <1>9. CASE PasswordSignIn(t)
    <2>1. Gains
      BY <1>4, <1>6, <1>9 DEF PasswordSignIn, accountVars
    <2>2. tab[t].at = "shown" /\ (Goes(t, "dashboard") \/ Stays(t))
      BY <1>9, Zenon DEF PasswordSignIn, On
    <2>. QED BY <1>2, <1>3, <2>1, <2>2
  <1>10. ASSUME tab[t].at = "shown", Requests(t), members' = members
         PROVE  Gains /\ Afresh(t) /\ OnlyMoves(t)
    BY <1>3, <1>4, <1>10 DEF Requests
  <1>11. CASE Bootstrap(t)
    BY <1>10, <1>11 DEF Bootstrap, BootstrapBegin, UnchangedRows, On
  <1>12. ASSUME NEW slug \in Slugs, Register(t, slug)
         PROVE  Gains /\ Afresh(t) /\ OnlyMoves(t)
    <2>1. tab[t].at = "shown"
      BY <1>12 DEF Register, On
    <2>2. CASE SignedIn(Me(t))
      BY <1>10, <1>12, <2>1, <2>2 DEF Register, RegisterBegin, UnchangedRows
    <2>3. CASE ~SignedIn(Me(t))
      BY <1>2, <1>5, <1>12, <2>3 DEF Register
    <2>. QED BY <2>2, <2>3
  <1>13. CASE Accept(t)
    <2>1. tab[t].at = "shown"
      BY <1>13 DEF Accept, On
    <2>2. CASE SignedIn(Me(t))
      <3>1. Requests(t) /\ AcceptBegin(t, Me(t), tab[t].link)
        BY <1>13, <2>2 DEF Accept
      <3>2. members' = members
        BY <3>1, Zenon DEF AcceptBegin, UnchangedRows
      <3>. QED BY <1>10, <2>1, <3>1, <3>2
    <2>3. CASE ~SignedIn(Me(t))
      BY <1>3, <1>5, <1>13, <2>1, <2>3 DEF Accept
    <2>. QED BY <2>2, <2>3
  <1>14. ASSUME NEW email \in People, NEW role \in Offers, Invite(t, email, role)
         PROVE  Gains /\ Afresh(t) /\ OnlyMoves(t)
    <2>1. tab[t].at = "shown"
      BY <1>14 DEF Invite, On
    <2>2. CASE SignedIn(Me(t))
      BY <1>10, <1>14, <2>1, <2>2 DEF Invite, InviteBegin, UnchangedRows
    <2>3. CASE ~SignedIn(Me(t))
      BY <1>3, <1>5, <1>14, <2>1, <2>3 DEF Invite
    <2>. QED BY <2>2, <2>3
  <1>15. ASSUME NEW l \in Links, RevokeInvitation(t, l)
         PROVE  Gains /\ Afresh(t) /\ OnlyMoves(t)
    BY <1>2, <1>4, <1>15 DEF RevokeInvitation, Revoke
  <1>. QED
    BY <1>7, <1>8, <1>9, <1>11, <1>12, <1>13, <1>14, <1>15 DEF Submit

LEMMA AnswerAfresh ==
    ASSUME PagesFit, NEW t \in Tabs, Answer(t)
    PROVE  Gains /\ Afresh(t) /\ OnlyMoves(t)
  <1>1. Gains
    BY DEF Answer, GetsSession, SameSessions, Gains
  <1>2. Goes(t, After(txs[t].kind)) \/ Stays(t)
    BY Zenon DEF Answer
  <1>3. CASE Goes(t, After(txs[t].kind))
    <2>1. Becomes(t, Page(After(txs[t].kind), "loading", NoLink))
      BY <1>3 DEF Goes
    <2>. QED BY <1>1, <2>1, OpensAfresh, BecomesMoves
  <1>4. CASE Stays(t)
    <2>1. Afresh(t)
      BY <1>4, TurnsTo DEF Afresh
    <2>2. OnlyMoves(t)
      BY <1>4, BecomesMoves DEF Stays
    <2>. QED BY <1>1, <2>1, <2>2
  <1>. QED BY <1>1, <1>2, <1>3, <1>4

\* A transaction only adds memberships.
LEMMA TransactionGains ==
    ASSUME NEW t \in Tabs, Transaction(t)
    PROVE  Gains /\ tab' = tab
  <1>1. members \subseteq members'
    <2>1. CASE Commit(t)
      BY <2>1 DEF Commit, Commits, Founds, Owns, Joins, Invites
    <2>2. CASE ~Commit(t)
      BY <2>2 DEF Transaction, TxStep, RegisterInsert, AcceptJoin, InviteSupersede,
                  InviteInsert, Abort, UnchangedRows
    <2>. QED BY <2>1, <2>2
  <1>. QED BY <1>1 DEF Transaction, SameSessions, Gains

LEMMA LoadMoves ==
    ASSUME PagesFit, NEW t \in Tabs, Load(t)
    PROVE  OnlyMoves(t)
  <1>1. /\ \A name, link : RedirectsWith(t, name, link) => OnlyMoves(t)
        /\ \A offer : Shows(t, offer) => OnlyMoves(t)
        /\ Stays(t) => OnlyMoves(t)
        /\ \A at : Becomes(t, [tab[t] EXCEPT !.at = at]) => OnlyMoves(t)
    BY BecomesMoves DEF RedirectsWith, Shows, Stays
  <1>2. CASE Middleware(t) \/ Refused(t) \/ ApiPage(t)
    BY <1>1, <1>2 DEF Middleware, Refused, ApiPage, Redirects
  <1>3. CASE SignInPage(t) \/ WelcomePage(t)
    BY <1>1, <1>3 DEF SignInPage, WelcomePage, Redirects
  <1>4. CASE Preview(t) \/ InvitePage(t)
    BY <1>1, <1>4 DEF Preview, InvitePage, Redirects
  <1>. QED BY <1>2, <1>3, <1>4 DEF Load

LEMMA AheadFew ==
    ASSUME NEW t \in Tabs
    PROVE  Ahead(t) \in 0..4
  <1>1. SignedIn(Me(t)) \in BOOLEAN /\ InOrg(Me(t)) \in BOOLEAN
    BY DEF SignedIn, InOrg
  <1>. QED BY <1>1, AheadBounds DEF Ahead

LEMMA HopsStep ==
    Inv /\ PagesFit /\ HopsInv /\ [Next]_vars => HopsInv'
  <1>. SUFFICES ASSUME Inv, PagesFit, HopsInv, [Next]_vars PROVE HopsInv'
    OBVIOUS
  <1>1. Types /\ Types'
    BY NextInv DEF Inv
  <1>2. ends \in 0..MaxEnds /\ MaxEnds \in Nat
    BY EndsAssumption DEF HopsInv
  <1>3. ASSUME Gains, tab' = tab PROVE HopsInv'
    <2>1. \A t \in Tabs : TabHops(t)'
      BY <1>1, <1>3, TabStays
    <2>. QED BY <1>2, <1>3, <2>1 DEF HopsInv, Gains
  <1>4. ASSUME NEW t \in Tabs, Gains, OnlyMoves(t), TabHops(t)' PROVE HopsInv'
    <2>1. \A o \in Tabs : TabHops(o)'
      BY <1>1, <1>4, TabStays DEF OnlyMoves
    <2>. QED BY <1>2, <1>4, <2>1 DEF HopsInv, Gains
  <1>5. ASSUME NEW t \in Tabs, Gains, OnlyMoves(t), Afresh(t) PROVE HopsInv'
    BY <1>4, <1>5, TabBegins DEF Afresh, Gains
  <1>6. ASSUME NEW t \in Tabs, Load(t) PROVE HopsInv'
    <2>1. TabHops(t)' /\ OnlyTab
      BY <1>6, LoadHops, LoadOnly
    <2>2. Gains
      BY <2>1 DEF OnlyTab, SameSessions, accountVars, Gains
    <2>. QED BY <1>4, <1>6, <2>1, <2>2, LoadMoves
  <1>7. ASSUME NEW t \in Tabs, Submit(t) PROVE HopsInv'
    BY <1>5, <1>7, SubmitAfresh
  <1>8. ASSUME NEW t \in Tabs, Transaction(t) PROVE HopsInv'
    BY <1>3, <1>8, TransactionGains
  <1>9. ASSUME NEW t \in Tabs, Answer(t) PROVE HopsInv'
    BY <1>5, <1>9, AnswerAfresh
  <1>10. ASSUME NEW t \in Tabs, NEW name, NEW link, Visit(t, name, link) PROVE HopsInv'
    <2>1. Becomes(t, Page(name, "loading", link)) /\ OnlyTab
      BY <1>10 DEF Visit
    <2>2. Gains
      BY <2>1 DEF OnlyTab, SameSessions, accountVars, Gains
    <2>. QED BY <1>5, <2>1, <2>2, OpensAfresh, BecomesMoves
  <1>11. ASSUME NEW p \in People, SessionEnds(p) PROVE HopsInv'
    <2>1. ends > 0 /\ ends' = ends - 1 /\ UNCHANGED <<accountVars, tab>>
      BY <1>11 DEF SessionEnds
    <2>2. \A t \in Tabs : TabHops(t)'
      BY <2>1, TabLosesSession
    <2>3. ends' \in 0..MaxEnds
      BY <1>2, <2>1
    <2>. QED BY <2>2, <2>3 DEF HopsInv
  <1>12. ASSUME NEW l \in Links, Expires(l) PROVE HopsInv'
    BY <1>3, <1>12 DEF Expires, Expire, SameSessions, Gains
  <1>13. CASE UNCHANGED vars
    BY <1>3, <1>13 DEF vars, accountVars, Gains
  <1>. QED
    BY <1>6, <1>7, <1>8, <1>9, <1>10, <1>11, <1>12, <1>13 DEF Next

LEMMA HopsInit == Init => HopsInv
  <1>. SUFFICES ASSUME Init PROVE HopsInv
    OBVIOUS
  <1>1. MaxEnds \in Nat /\ ends \in {0, MaxEnds}
    BY EndsAssumption DEF Init
  <1>2. ASSUME NEW t \in Tabs PROVE TabHops(t)
    <2>. DEFINE x == Page("signin", "loading", NoLink)
    <2>1. tab[t] = x
      BY DEF Init
    <2>2. x.name = "signin" /\ x.at = "loading" /\ x.hops = 0
      BY DEF Page
    <2>. HIDE DEF x
    <2>3. Ahead(t) \in 0..4
      BY AheadFew
    <2>. QED BY <1>1, <2>1, <2>2, <2>3 DEF TabHops
  <1>. QED BY <1>1, <1>2 DEF HopsInv

\* No load is sent to and fro: the middleware, the pages and apiFetch need four
\* redirects at most to agree, whatever sessions begin and organisations are
\* joined in other tabs meanwhile, and three more for a session that ends.
THEOREM ArrivesInTime == Spec => []ArrivesSoon
  <1>1. PagesFit /\ HopsInv => ArrivesSoon
    <2>. SUFFICES ASSUME PagesFit, HopsInv, NEW t \in Tabs
                  PROVE  tab[t].hops <= 4 + 3 * (MaxEnds - ends)
      BY DEF ArrivesSoon
    <2>1. tab[t].hops \in Nat /\ TabHops(t)
      BY DEF PagesFit, FitPages, HopsInv
    <2>2. Ahead(t) \in 0..4
      BY AheadFew
    <2>3. MaxEnds \in Nat /\ ends \in Nat
      BY EndsAssumption DEF HopsInv
    <2>. QED BY <2>1, <2>2, <2>3 DEF TabHops
  <1>. QED BY <1>1, HopsInit, HopsStep, Invariance, PTL DEF Spec
=============================================================================
