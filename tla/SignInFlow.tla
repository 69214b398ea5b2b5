------------------------------ MODULE SignInFlow ------------------------------
(***************************************************************************)
(* The web application's way in: the middleware, the sign-in, welcome,     *)
(* invitation and settings pages with their forms and server actions, and  *)
(* apiFetch with its redirects, over the accounts.  A tab is loading a     *)
(* page, hop by hop, has it on screen, or waits for a request of its form. *)
(* Which of its two names the session cookie has is left out.              *)
(***************************************************************************)
EXTENDS Accounts

CONSTANTS
    Visits,         \* bound: the pages a person opens by hand, per tab
    Offers,         \* bound: the roles a person offers in invitations
    Sso,            \* whether a single sign-on provider is configured
    SignupOpen,     \* allowSignup()
    MaxEnds         \* bound: sessions that end, in a deployment claimed before

ASSUME EndsAssumption == MaxEnds \in Nat

VARIABLES
    cookies,        \* people whose browser has a session cookie
    sessions,       \* people whose browser's session is in the database
    tab,            \* per tab: its page
    ends            \* sessions that may still end

vars == <<accountVars, cookies, sessions, tab, ends>>

NoLink == "none"

\* On the sign-in page link is the callbackUrl: an invitation, the page the
\* middleware stopped, or none; offer is what the page on screen offers to do.  What it says of an error is left out.
\* hops is history: the redirects a load took.
Page(name, at, link) == [name |-> name, at |-> at, link |-> link, offer |-> "",
                         hops |-> 0]

Init ==
    /\ AccountsInit
    /\ cookies = {} /\ sessions = {}
    /\ ends = IF users = {} THEN 0 ELSE MaxEnds
    /\ tab = [t \in Tabs |-> Page("signin", "loading", NoLink)]

Me(t) == OwnerOf[t]
SignedIn(p) == p \in cookies \cap sessions
On(t, name) == tab[t].at = "shown" /\ tab[t].name = name

Becomes(t, page) == tab' = [tab EXCEPT ![t] = page]
Goes(t, name) == Becomes(t, Page(name, "loading", NoLink))
RedirectsWith(t, name, link) ==
    Becomes(t, [Page(name, "loading", link) EXCEPT !.hops = tab[t].hops + 1])
Redirects(t, name) == RedirectsWith(t, name, NoLink)
Shows(t, offer) == Becomes(t, [tab[t] EXCEPT !.at = "shown", !.offer = offer, !.hops = 0])
Stays(t) == Becomes(t, [tab[t] EXCEPT !.at = "shown", !.hops = 0])

SameSessions == UNCHANGED <<cookies, sessions, ends>>
OnlyTab == UNCHANGED accountVars /\ SameSessions

(***************************************************************************)
(* Loading a page.                                                         *)
(***************************************************************************)
Public == {"signin", "invite"}
ApiPages == {"dashboard", "onboarding", "settings"}

\* The middleware sees only that there is a cookie.
Stopped(t) == tab[t].name \notin Public /\ Me(t) \notin cookies

Middleware(t) ==
    /\ tab[t].at = "loading" /\ Stopped(t)
    /\ RedirectsWith(t, "signin", tab[t].name)
    /\ OnlyTab

Loads(t, name) == tab[t].at = "loading" /\ tab[t].name = name /\ ~Stopped(t)

\* apiFetch on a page that reads the API, and the API's requireIdentity: shown
\* with its data or with the 503, or the 401.
ApiPage(t) ==
    /\ \E name \in ApiPages : Loads(t, name)
    /\ \/ /\ SignedIn(Me(t)) /\ OrgOf(Me(t)) # NoOrg
          /\ Shows(t, IF CanGrant[MembershipOf(Me(t)).role] # {} THEN "invite" ELSE "")
       \/ /\ ~(SignedIn(Me(t)) /\ OrgOf(Me(t)) # NoOrg)
          /\ Becomes(t, [tab[t] EXCEPT !.at = "refused"])
       \/ /\ "control" \in Faults
          /\ Stays(t)
    /\ OnlyTab

\* Mutant: everybody the API refuses is sent to sign in.
RefusedToSignIn(t) ==
    /\ tab[t].at = "refused"
    /\ Redirects(t, "signin")
    /\ OnlyTab

\* After a 401 apiFetch resolves the session itself, a moment later.
Refused(t) ==
    /\ tab[t].at = "refused"
    /\ IF SignedIn(Me(t)) /\ OrgOf(Me(t)) = NoOrg THEN Redirects(t, "welcome")
       ELSE Redirects(t, "signin")
    /\ OnlyTab

\* needsBootstrap decides which form is on the page; one that fails says no.
SignInPage(t) ==
    /\ Loads(t, "signin")
    /\ IF SignedIn(Me(t)) THEN Redirects(t, "dashboard")
       ELSE \E offer \in {IF users = {} THEN "bootstrap" ELSE "password"}
                          \cup (IF "control" \in Faults THEN {"password"} ELSE {}) :
                Shows(t, offer)
    /\ OnlyTab

WelcomePage(t) ==
    /\ Loads(t, "welcome")
    /\ IF ~SignedIn(Me(t)) THEN Redirects(t, "signin")
       ELSE IF OrgOf(Me(t)) # NoOrg THEN Redirects(t, "dashboard")
       ELSE Shows(t, "register")
    /\ OnlyTab

\* The preview, which consumes nothing; then the session.
Preview(t) ==
    /\ Loads(t, "invite")
    /\ IF Usable(tab[t].link) THEN Becomes(t, [tab[t] EXCEPT !.at = "previewed"])
       ELSE Stays(t)
    /\ OnlyTab

InvitePage(t) ==
    /\ tab[t].at = "previewed"
    /\ LET i == invites[tab[t].link]
       IN  IF ~SignedIn(Me(t)) THEN Shows(t, "sign in")
           ELSE IF OrgOf(Me(t)) = i.org THEN Redirects(t, "dashboard")
           ELSE IF i.email # Me(t) THEN Shows(t, "wrong account")
           ELSE IF OrgOf(Me(t)) # NoOrg THEN Shows(t, "elsewhere")
           ELSE Shows(t, "accept")
    /\ OnlyTab

Load(t) ==
    \/ Middleware(t) \/ ApiPage(t) \/ Refused(t)
    \/ SignInPage(t) \/ WelcomePage(t) \/ Preview(t) \/ InvitePage(t)

(***************************************************************************)
(* What a person does with a page.                                         *)
(***************************************************************************)
Visit(t, name, link) ==
    /\ tab[t].at = "shown" /\ name \in Visits[t]
    /\ IF name = "invite" THEN link \in Links /\ invites[link].state # "unused"
                          ELSE link = NoLink
    /\ Becomes(t, Page(name, "loading", link))
    /\ OnlyTab

SignInToAccept(t) ==
    /\ On(t, "invite") /\ tab[t].offer = "sign in"
    /\ Becomes(t, Page("signin", "loading", tab[t].link))
    /\ OnlyTab

GetsSession(p) ==
    /\ cookies' = cookies \cup {p}
    /\ sessions' = sessions \cup {p}
    /\ UNCHANGED ends

\* The adapter knows an account or makes one; admit lets in whoever belongs to
\* an organisation, or anybody while registration is open.
Admitted(p) == SignupOpen \/ MembershipsOf(p) # {}

SingleSignOn(t) ==
    /\ On(t, "signin") /\ Sso
    /\ Me(t) \notin passwords
    /\ IF Admitted(Me(t))
       THEN /\ users' = users \cup {Me(t)}
            /\ GetsSession(Me(t))
            /\ IF tab[t].link \in Links
               THEN Becomes(t, Page("invite", "loading", tab[t].link))
               ELSE Goes(t, IF tab[t].link = NoLink THEN "dashboard" ELSE tab[t].link)
       ELSE /\ Goes(t, "signin")
            /\ UNCHANGED users /\ SameSessions
    /\ UNCHANGED <<passwords, orgs, members, invites, txs, begun>>

\* The password form always leads to the dashboard.
PasswordSignIn(t) ==
    /\ On(t, "signin") /\ tab[t].offer = "password"
    /\ IF Me(t) \in passwords
       THEN GetsSession(Me(t)) /\ Goes(t, "dashboard")
       ELSE Stays(t) /\ SameSessions
    /\ UNCHANGED accountVars

Waits(t) == Becomes(t, [tab[t] EXCEPT !.at = "busy"])
Requests(t) == Waits(t) /\ SameSessions

Bootstrap(t) ==
    /\ On(t, "signin") /\ tab[t].offer = "bootstrap"
    /\ BootstrapBegin(t, Me(t))
    /\ Requests(t)

Register(t, slug) ==
    /\ On(t, "welcome") /\ tab[t].offer = "register"
    /\ IF SignedIn(Me(t)) THEN RegisterBegin(t, Me(t), slug) /\ Requests(t)
       ELSE Idle(t) /\ Goes(t, "signin") /\ OnlyTab

Accept(t) ==
    /\ On(t, "invite") /\ tab[t].offer = "accept"
    /\ IF SignedIn(Me(t)) THEN AcceptBegin(t, Me(t), tab[t].link) /\ Requests(t)
       ELSE Idle(t) /\ Becomes(t, [tab[t] EXCEPT !.at = "refused"]) /\ OnlyTab

Invite(t, email, role) ==
    /\ On(t, "settings") /\ tab[t].offer = "invite"
    /\ IF SignedIn(Me(t)) THEN InviteBegin(t, Me(t), email, role) /\ Requests(t)
       ELSE Idle(t) /\ Becomes(t, [tab[t] EXCEPT !.at = "refused"]) /\ OnlyTab

RevokeInvitation(t, l) ==
    /\ On(t, "settings") /\ tab[t].offer = "invite"
    /\ SignedIn(Me(t))
    /\ Revoke(Me(t), l)
    /\ Goes(t, "settings")
    /\ SameSessions

(***************************************************************************)
(* The answer of a server action to the tab that waits for it.             *)
(***************************************************************************)
After(kind) == CASE kind = "register" -> "onboarding"
                 [] kind = "invite"   -> "settings"
                 [] OTHER             -> "dashboard"

Answer(t) ==
    /\ txs[t].at = "answered"
    /\ Set(t, NoTx)
    /\ IF txs[t].answer = "ok"
       THEN /\ IF txs[t].kind = "bootstrap" THEN GetsSession(Me(t))
                                            ELSE SameSessions
            /\ Goes(t, After(txs[t].kind))
       ELSE Stays(t) /\ SameSessions
    /\ UNCHANGED <<users, passwords, orgs, members, invites, begun>>

\* Expired, or signed out elsewhere: the cookie stays.
SessionEnds(p) ==
    /\ ends > 0 /\ ends' = ends - 1
    /\ p \in sessions
    /\ sessions' = sessions \ {p}
    /\ UNCHANGED <<accountVars, cookies, tab>>

Transaction(t) == TxStep(t) /\ SameSessions /\ UNCHANGED tab

Expires(l) == Expire(l) /\ SameSessions /\ UNCHANGED tab

Submit(t) ==
    \/ SignInToAccept(t) \/ SingleSignOn(t) \/ PasswordSignIn(t) \/ Bootstrap(t)
    \/ \E slug \in Slugs : Register(t, slug)
    \/ Accept(t)
    \/ \E email \in People, role \in Offers : Invite(t, email, role)
    \/ \E l \in Links : RevokeInvitation(t, l)

Next ==
    \/ \E t \in Tabs : \/ Load(t) \/ Submit(t) \/ Transaction(t) \/ Answer(t)
                       \/ \E name \in Public \cup ApiPages, link \in Links \cup {NoLink} :
                              Visit(t, name, link)
    \/ \E p \in People : SessionEnds(p)
    \/ \E l \in Links : Expires(l)

Spec == Init /\ [][Next]_vars

TypeOK ==
    /\ AccountsTypeOK
    /\ cookies \subseteq People /\ sessions \subseteq People
    /\ \A t \in Tabs :
           /\ tab[t].name \in Public \cup ApiPages \cup {"welcome"}
           /\ tab[t].at \in {"loading", "refused", "previewed", "shown", "busy"}

\* A person "must not end up owning two organisations" (org.ts:92-94), there is
\* "one organisation per account" (invitations.go:422-429).
OneOrganisation == \A m, o \in members : m.user = o.user => m = o

\* What the two looks before a join do ensure: whoever is a member when a
\* registration or a click on a link begins joins nothing more by it, so the
\* later of two memberships began before the earlier was committed.
SecondJoinOverlaps ==
    \A m, o \in members :
        m.user = o.user /\ m.since < o.since => o.since <= m.until

\* A link that was accepted or revoked stays so, however clicks, revocations
\* and new invitations meet (invitations.go:382-386).
LinksAreFinal ==
    [][\A l \in Links : invites[l].state \in {"accepted", "revoked"} =>
           invites'[l].state = invites[l].state]_vars

\* Whoever is in an organisation without having founded it accepted a link that
\* was issued to that address, by somebody of that organisation who could grant
\* the role.
MembershipIsInvited ==
    \A m \in members : m.role # "owner" =>
        \E l \in Links :
            /\ invites[l].state = "accepted"
            /\ invites[l].org = m.org /\ invites[l].email = m.user /\ invites[l].role = m.role
            /\ \E o \in members : /\ o.user = invites[l].by /\ o.org = m.org
                                  /\ m.role \in CanGrant[o.role]

\* The deployment is claimed with the setup token once (password.ts:102).
OneOwnerByToken == \A p, q \in passwords : p = q

\* Redirects between the dashboard, the welcome page and sign-in do not go
\* round (fetch.ts:49-56): a load takes four at most, though a session begins or
\* an organisation is joined in another tab on the way, and three more for a
\* session that ended.
ArrivesSoon == \A t \in Tabs : tab[t].hops <= 4 + 3 * (MaxEnds - ends)
=============================================================================
