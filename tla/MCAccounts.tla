----------------------------- MODULE MCAccounts -----------------------------
(***************************************************************************)
(* Instances of TeamAccess and Onboarding for TLC, side by side with those *)
(* of MCReadings: `part' says which of them runs, so that one run explores *)
(* the states of each and never their product.                             *)
(***************************************************************************)
EXTENDS TeamAccess, MCReadings, TLC

CONSTANTS Emails, GoogleIds, Codes, MaxTries

VARIABLES users, subs, otp, tries, resends, reset, mailed, signup, failed, crowded, guesses, used

onboardingVars ==
  <<users, subs, otp, tries, resends, reset, mailed, signup, failed, crowded, guesses, used>>

Accounts == INSTANCE Onboarding WITH account <- users, request <- signup, faults <- failed

SideInit ==
  /\ part \in {"team", "onboarding"} \cup ReadingsParts
  /\ Init /\ Accounts!Init /\ ReadingsInit

SideNext ==
  \/ part = "team" /\ Next /\ UNCHANGED <<part, onboardingVars, readingsVars>>
  \/ part = "onboarding" /\ Accounts!Next /\ UNCHANGED <<part, vars, readingsVars>>
  \/ ReadingsNext /\ UNCHANGED <<vars, onboardingVars>>

SideSpec == SideInit /\ [][SideNext]_<<part, vars, onboardingVars, readingsVars>>

Symmetry == Permutations(Rows) \cup Permutations(Tokens) \cup Permutations(Requests)

\* The properties of Onboarding that the run checks, stated and explained there.
PatientGuesses == Accounts!PatientGuesses
VerifiedAreSubscribed == Accounts!VerifiedAreSubscribed
ResetTokenUsedUp == Accounts!ResetTokenUsedUp
=============================================================================
