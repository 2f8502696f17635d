----------------------- MODULE MCAuthorizationRenewal -----------------------
(* Instances of AuthorizationRenewal for TLC. *)
EXTENDS AuthorizationRenewal, TLC

CONSTANTS w1, w2

\* The HTTP adapter, in two configurations (payment_provider.ts 580, 980); the
\* mock and the synthetic provider declare no expiry and are conclusive.
HttpProviders == {[conclusive |-> TRUE, declares |-> TRUE], [conclusive |-> FALSE, declares |-> FALSE]}

SymmetricClerks == Permutations(Clerk)
=============================================================================
