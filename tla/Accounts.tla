------------------------------- MODULE Accounts -------------------------------
(***************************************************************************)
(* The accounts of the control plane: users, organisations, memberships    *)
(* and invitations in Postgres, and the transactions that write them: the  *)
(* web application's registerOrg and bootstrapOwner (lib/auth/org.ts,      *)
(* lib/auth/password.ts) and the API's CreateInvitation, RevokeInvitation  *)
(* and AcceptInvitation (services/api/invitations.go).                     *)
(*                                                                         *)
(* Transactions are READ COMMITTED: every statement sees what is committed *)
(* when it starts, nothing is locked by reading, and a statement that      *)
(* meets a row lock, a table lock or an uncommitted key waits, which here  *)
(* is a guard.  A transaction is held by the tab whose request opened it.  *)
(***************************************************************************)
EXTENDS Naturals, FiniteSets

CONSTANTS
    People,     \* a person is also an address
    Slugs,      \* organisations are known by their slug
    Links,      \* invitations, known by their token
    Tabs,       \* browser tabs, each with at most one request in progress
    OwnerOf,    \* whose browser a tab is in
    SlugOf,     \* slugFromEmail
    Founders,   \* who may own the deployment at the start
    MaxJoins,   \* bound: transactions that may end in a membership
    Faults      \* what may go wrong

FaultKinds == {"abort", "commit", "control"}

ASSUME TabsAssumption == OwnerOf \in [Tabs -> People]
ASSUME SlugsAssumption == SlugOf \in [People -> Slugs] /\ "no org" \notin Slugs
ASSUME FoundersAssumption == Founders \subseteq People
ASSUME BoundAssumption == MaxJoins \in Nat
ASSUME FaultsAssumption == Faults \subseteq FaultKinds

VARIABLES
    users,      \* people with a row in users
    passwords,  \* of them, those with a password_hash
    orgs,       \* organizations
    members,    \* memberships; since is created_at, until is history
    invites,    \* invitations
    txs,        \* per tab: its transaction
    begun       \* transactions begun that may end in a membership: the clock

accountVars == <<users, passwords, orgs, members, invites, txs, begun>>

Roles == {"owner", "admin", "operator", "viewer"}
CanGrant == [owner |-> {"admin", "operator", "viewer"},
             admin |-> {"operator", "viewer"},
             operator |-> {}, viewer |-> {}]

Nobody == "nobody"
NoOrg == "no org"

NoInvite == [state |-> "unused", org |-> NoOrg, email |-> Nobody, role |-> "viewer",
             by |-> Nobody, expired |-> FALSE]
NoTx == [kind |-> "none", at |-> "none", by |-> Nobody, org |-> NoOrg, since |-> 0,
         link |-> "none", email |-> Nobody, role |-> "viewer", superseded |-> {},
         answer |-> ""]

(***************************************************************************)
(* Reading.                                                                *)
(***************************************************************************)
MembershipsOf(p) == {m \in members : m.user = p}

\* The earliest membership, which is the one a session resolves to.
FirstOf(p) == CHOOSE m \in MembershipsOf(p) :
                  \A o \in MembershipsOf(p) : m.since <= o.since

MembershipOf(p) ==
    IF MembershipsOf(p) = {} THEN [org |-> NoOrg, role |-> "viewer"]
    ELSE [org |-> FirstOf(p).org, role |-> FirstOf(p).role]

OrgOf(p) == MembershipOf(p).org
MayGrant(p, role) == OrgOf(p) # NoOrg /\ role \in CanGrant[MembershipOf(p).role]

Pending(l) == invites[l].state = "pending"
Usable(l) == Pending(l) /\ ~invites[l].expired

PendingFor(org, email) ==
    {l \in Links : Pending(l) /\ invites[l].org = org /\ invites[l].email = email}

\* Mutant: without FOR UPDATE.
HeldByNone(t) == {}

\* Row locks on invitations: FOR UPDATE, or the UPDATE that supersedes.
HeldBy(t) == IF txs[t].at \in {"held", "joined", "spent"} THEN {txs[t].link}
             ELSE txs[t].superseded
Held(l) == \E t \in Tabs : l \in HeldBy(t)

\* Uncommitted keys: a slug, or the address of a pending invitation.
SlugTaken(t, slug) == \E o \in Tabs \ {t} : txs[o].at = "founded" /\ txs[o].org = slug
AddressTaken(t) ==
    \E o \in Tabs \ {t} : /\ txs[o].at = "invited"
                          /\ txs[o].org = txs[t].org /\ txs[o].email = txs[t].email
TableLocked(t) == \E o \in Tabs \ {t} : txs[o].at = "locked"

(***************************************************************************)
(* Steps of a transaction.                                                 *)
(***************************************************************************)
Tx(kind, at, p) ==
    [NoTx EXCEPT !.kind = kind, !.at = at, !.by = p, !.since = begun + 1]

Set(t, tx) == txs' = [txs EXCEPT ![t] = tx]

\* Rolled back, or nothing to commit: locks and uncommitted rows are gone.
Answers(tx, answer) ==
    [NoTx EXCEPT !.kind = tx.kind, !.at = "answered", !.answer = answer]

Idle(t) == txs[t] = NoTx

\* The transaction is open, at the next tick of the clock, or over at once.
Opens(t, tx) ==
    /\ Idle(t)
    /\ begun < MaxJoins
    /\ Set(t, tx)
    /\ begun' = IF tx.at = "answered" THEN begun ELSE begun + 1

UnchangedRows == UNCHANGED <<users, passwords, orgs, members, invites>>

\* registerOrg: an existing membership wins over the form.
RegisterBegin(t, p, slug) ==
    /\ LET tx == [Tx("register", "read", p) EXCEPT !.org = slug]
       IN  Opens(t, IF MembershipsOf(p) # {} THEN Answers(tx, "ok") ELSE tx)
    /\ UnchangedRows

\* INSERT ... ON CONFLICT (slug) DO NOTHING.
RegisterInsert(t) ==
    /\ txs[t].kind = "register" /\ txs[t].at = "read"
    /\ ~SlugTaken(t, txs[t].org) /\ ~TableLocked(t)
    /\ Set(t, IF txs[t].org \in orgs THEN Answers(txs[t], "taken")
              ELSE [txs[t] EXCEPT !.at = "founded"])
    /\ UnchangedRows /\ UNCHANGED begun

\* Mutant: without LOCK TABLE.
BootstrapBeginUnlocked(t, p) ==
    /\ LET tx == [Tx("bootstrap", "locked", p) EXCEPT !.org = SlugOf[p]]
       IN  Opens(t, IF users # {} THEN Answers(tx, "refused") ELSE tx)
    /\ UnchangedRows

\* bootstrapOwner, once its token was right: the lock, then the look at users.
BootstrapBegin(t, p) ==
    /\ ~TableLocked(t)
    /\ \A o \in Tabs : txs[o].at # "founded"
    /\ LET tx == [Tx("bootstrap", "locked", p) EXCEPT !.org = SlugOf[p]]
       IN  Opens(t, IF users # {} THEN Answers(tx, "refused") ELSE tx)
    /\ UnchangedRows

\* AcceptInvitation: the row FOR UPDATE, and whose it is.
AcceptBegin(t, p, l) ==
    /\ ~Held(l)
    /\ LET tx == [Tx("accept", "held", p)
                      EXCEPT !.org = invites[l].org, !.link = l, !.role = invites[l].role]
       IN  Opens(t, IF ~Usable(l) THEN Answers(tx, "not found")
                    ELSE IF invites[l].email # p THEN Answers(tx, "wrong account") ELSE tx)
    /\ UnchangedRows

\* Mutant: a member of another organisation is let in.
AcceptJoinAnywhere(t) ==
    /\ txs[t].kind = "accept" /\ txs[t].at = "held"
    /\ Set(t, [txs[t] EXCEPT !.at = "joined"])
    /\ UnchangedRows /\ UNCHANGED begun

\* One organisation per account; a second click of a member spends the link.
AcceptJoin(t) ==
    /\ txs[t].kind = "accept" /\ txs[t].at = "held"
    /\ Set(t, IF OrgOf(txs[t].by) = NoOrg THEN [txs[t] EXCEPT !.at = "joined"]
              ELSE IF OrgOf(txs[t].by) = txs[t].org THEN [txs[t] EXCEPT !.at = "spent"]
              ELSE Answers(txs[t], "elsewhere"))
    /\ UnchangedRows /\ UNCHANGED begun

FreshLinks == {l \in Links : invites[l] = NoInvite /\ \A t \in Tabs : txs[t].link # l}

\* handleInvitations and CreateInvitation: the grant, then whether the address
\* is a member already.
InviteBegin(t, p, email, role) ==
    /\ Idle(t) /\ FreshLinks # {}
    /\ LET l == CHOOSE x \in FreshLinks : TRUE
           tx == [Tx("invite", "checked", p)
                      EXCEPT !.org = OrgOf(p), !.link = l, !.email = email, !.role = role,
                             !.since = 0]
           already == \E m \in MembershipsOf(email) : m.org = OrgOf(p)
       IN  Set(t, IF ~MayGrant(p, role) THEN Answers(tx, "denied")
                  ELSE IF already THEN Answers(tx, "already") ELSE tx)
    /\ UnchangedRows /\ UNCHANGED begun

InviteSupersede(t) ==
    /\ txs[t].kind = "invite" /\ txs[t].at = "checked"
    /\ LET old == PendingFor(txs[t].org, txs[t].email)
       IN  /\ \A l \in old : ~Held(l)
           /\ Set(t, [txs[t] EXCEPT !.at = "superseded", !.superseded = old])
    /\ UnchangedRows /\ UNCHANGED begun

\* The partial unique index: one pending invitation per address.
InviteInsert(t) ==
    /\ txs[t].at = "superseded"
    /\ ~AddressTaken(t)
    /\ Set(t, IF PendingFor(txs[t].org, txs[t].email) \subseteq txs[t].superseded
              THEN [txs[t] EXCEPT !.at = "invited"]
              ELSE Answers(txs[t], "error"))
    /\ UnchangedRows /\ UNCHANGED begun

(***************************************************************************)
(* What each transaction commits.                                          *)
(***************************************************************************)
Member(tx, role) == [user |-> tx.by, org |-> tx.org, role |-> role,
                     since |-> tx.since, until |-> begun]

\* Mutant: the membership without its organisation.
FoundsNothing(t) ==
    /\ txs[t].at = "founded"
    /\ members' = members \cup {Member(txs[t], "owner")}
    /\ UNCHANGED <<users, passwords, orgs, invites>>

Founds(t) ==
    /\ txs[t].at = "founded"
    /\ orgs' = orgs \cup {txs[t].org}
    /\ members' = members \cup {Member(txs[t], "owner")}
    /\ UNCHANGED <<users, passwords, invites>>

Owns(t) ==
    /\ txs[t].at = "locked"
    /\ txs[t].by \notin users
    /\ users' = users \cup {txs[t].by}
    /\ passwords' = passwords \cup {txs[t].by}
    /\ orgs' = orgs \cup {txs[t].org}
    /\ members' = members \cup {Member(txs[t], "owner")}
    /\ UNCHANGED invites

\* Mutant: the link is not spent.
JoinsUnspent(t) ==
    /\ txs[t].at \in {"joined", "spent"}
    /\ members' = members \cup (IF txs[t].at = "joined" THEN {Member(txs[t], txs[t].role)}
                                ELSE {})
    /\ UNCHANGED <<users, passwords, orgs, invites>>

Joins(t) ==
    /\ txs[t].at \in {"joined", "spent"}
    /\ members' = members \cup (IF txs[t].at = "joined" THEN {Member(txs[t], txs[t].role)}
                                ELSE {})
    /\ invites' = [invites EXCEPT ![txs[t].link].state = "accepted"]
    /\ UNCHANGED <<users, passwords, orgs>>

Invites(t) ==
    /\ txs[t].at = "invited"
    /\ invites' = [l \in Links |->
            IF l = txs[t].link THEN [NoInvite EXCEPT !.state = "pending",
                    !.org = txs[t].org, !.email = txs[t].email, !.role = txs[t].role,
                    !.by = txs[t].by]
            ELSE IF l \in txs[t].superseded THEN [invites[l] EXCEPT !.state = "revoked"]
            ELSE invites[l]]
    /\ UNCHANGED <<users, passwords, orgs, members>>

Commits(t) == Founds(t) \/ Owns(t) \/ Joins(t) \/ Invites(t)

\* The answer to a COMMIT may be lost after it was done.
Commit(t) ==
    /\ Commits(t)
    /\ \E answer \in {"ok"} \cup (IF "commit" \in Faults THEN {"error"} ELSE {}) :
           Set(t, Answers(txs[t], answer))
    /\ UNCHANGED begun

\* A statement fails, the request is cancelled or the process goes; or the
\* address of the first owner has signed in elsewhere meanwhile.
Abort(t) ==
    /\ txs[t].at \notin {"none", "answered"}
    /\ "abort" \in Faults \/ (txs[t].at = "locked" /\ txs[t].by \in users)
    /\ Set(t, Answers(txs[t], "error"))
    /\ UnchangedRows /\ UNCHANGED begun

TxStep(t) ==
    \/ RegisterInsert(t) \/ AcceptJoin(t) \/ InviteSupersede(t) \/ InviteInsert(t)
    \/ Commit(t) \/ Abort(t)

(***************************************************************************)
(* Single statements.                                                      *)
(***************************************************************************)
Revoke(p, l) ==
    /\ invites[l].org = OrgOf(p) /\ CanGrant[MembershipOf(p).role] # {}
    /\ Pending(l) /\ ~Held(l)
    /\ invites' = [invites EXCEPT ![l].state = "revoked"]
    /\ UNCHANGED <<users, passwords, orgs, members, txs, begun>>

Expire(l) ==
    /\ Usable(l)
    /\ invites' = [invites EXCEPT ![l].expired = TRUE]
    /\ UNCHANGED <<users, passwords, orgs, members, txs, begun>>

\* A deployment nobody owns, or one that somebody claimed before.
Unclaimed == users = {} /\ passwords = {} /\ orgs = {} /\ members = {}

ClaimedBy(p) ==
    /\ users = {p} /\ passwords = {p} /\ orgs = {SlugOf[p]}
    /\ members = {[user |-> p, org |-> SlugOf[p], role |-> "owner", since |-> 0, until |-> 0]}

AccountsInit ==
    /\ Unclaimed \/ \E p \in Founders : ClaimedBy(p)
    /\ invites = [l \in Links |-> NoInvite]
    /\ txs = [t \in Tabs |-> NoTx]
    /\ begun = 0

AccountsTypeOK ==
    /\ users \subseteq People
    /\ passwords \subseteq users
    /\ orgs \subseteq Slugs
    /\ members \subseteq [user : users, org : orgs, role : Roles,
                          since : 0..MaxJoins, until : 0..MaxJoins]
    /\ begun \in 0..MaxJoins
    /\ \A l \in Links : /\ invites[l].state \in {"unused", "pending", "accepted", "revoked"}
                        /\ Pending(l) => invites[l].org \in orgs
    /\ \A t \in Tabs : txs[t].at \in
           {"none", "read", "founded", "locked", "held", "joined", "spent",
            "checked", "superseded", "invited", "answered"}
=============================================================================
