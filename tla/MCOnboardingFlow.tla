-------------------------- MODULE MCOnboardingFlow --------------------------
(* A small instance of OnboardingFlow: one reader of the thresholds, and as  *)
(* many polls in flight as it takes for one to land late.                    *)
EXTENDS OnboardingFlow

CONSTANT engine

OneReader == {engine}
TwoPolls == 1..2
TwoTargets == {900, 1200}
=============================================================================
