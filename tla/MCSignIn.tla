------------------------------- MODULE MCSignIn -------------------------------
(* SignIn, instantiated for TLC.                                            *)
EXTENDS SignIn, TLC

(* Browsers, SIDs and names are interchangeable.                            *)
SignInSymmetry == Permutations(Browser) \cup Permutations(Sid) \cup Permutations(Name)

==============================================================================
