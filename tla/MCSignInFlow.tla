----------------------------- MODULE MCSignInFlow -----------------------------
(* A small instance of SignInFlow: ann, whose deployment it becomes, and    *)
(* bob, who has two tabs and may found an organisation of his own or join.  *)
EXTENDS SignInFlow, TLC

CONSTANTS ann, bob, acme, home, one, two, t1, t2, t3

AnnAndBob == {ann, bob}
TwoSlugs == {acme, home}
Slug == (ann :> acme) @@ (bob :> home)
TwoLinks == {one, two}
ThreeTabs == {t1, t2, t3}
Owner == (t1 :> ann) @@ (t2 :> bob) @@ (t3 :> bob)
JustAnn == {ann}
AdminsOnly == {"admin"}
EverythingFails == FaultKinds
FewVisits == (t1 :> {"settings"}) @@ (t2 :> {"invite"}) @@ (t3 :> {})
=============================================================================
