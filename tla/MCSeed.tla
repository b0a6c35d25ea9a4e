------------------------------- MODULE MCSeed -------------------------------
(***************************************************************************)
(* The instances on which TLC checks Seed: one server in any environment,  *)
(* and two that each seed for development or are set up for production.    *)
(***************************************************************************)
EXTENDS Seed

CONSTANTS s1, s2, s3

Common ==
  { [APP_ENV |-> "", JWT_SECRET |-> "", APP_CORS_ORIGINS |-> "", SEED_DEMO_DATA |-> "true"],
    [APP_ENV |-> "production", JWT_SECRET |-> "random", APP_CORS_ORIGINS |-> "https://ops",
     SEED_DEMO_DATA |-> ""] }

Deployments ==
  {[s \in Server |-> IF s = s1 THEN d ELSE IF s = s2 THEN e ELSE f] :
     d \in Environment, e \in Common, f \in Common}

Spec == InitFor(Deployments) /\ [][Next]_vars /\ Fairness

=============================================================================
