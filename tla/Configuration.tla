---------------------------- MODULE Configuration ----------------------------
(***************************************************************************)
(* What main() makes of the environment it is started in: Load fills in    *)
(* what is not set, Validate refuses what must not be served with.  Only   *)
(* the settings that decide whether a server starts and seeds are kept.    *)
(***************************************************************************)

\* As set in a container's environment; "" is not set, or set to nothing.
Environment ==
  [APP_ENV : {"", "development", "production", "PRODUCTION"},
   JWT_SECRET : {"", "short", "placeholder", "random"},
   APP_CORS_ORIGINS : {"", ",", "https://ops", "https://ops,*"},
   SEED_DEMO_DATA : {"", "false", "true", "yes"}]

-----------------------------------------------------------------------------

getEnv(value, fallback) == IF value = "" THEN fallback ELSE value

\* What strconv.ParseBool does not know is as good as not set.
getEnvBool(value, fallback) ==
  IF value \in {"true", "false"} THEN value = "true" ELSE fallback

parseCSV(value) ==
  CASE value = "," -> {}
    [] value = "https://ops,*" -> {"https://ops", "*"}
    [] OTHER -> {value}

\* The secret that is built in is a placeholder of sufficient length.
Load(env) ==
  [AppEnv |-> getEnv(env.APP_ENV, "development"),
   JWTSecret |-> getEnv(env.JWT_SECRET, "placeholder"),
   CORSOrigins |-> parseCSV(getEnv(env.APP_CORS_ORIGINS, "http://localhost")),
   SeedDemoData |-> getEnvBool(env.SEED_DEMO_DATA, FALSE)]

\* A slip for the properties to catch: only the value as it is written in the docs.
AsWritten(value) == value = "production"

\* strings.EqualFold
IsProduction(value) == value \in {"production", "PRODUCTION"}

Validate(cfg) ==
  /\ cfg.JWTSecret # "short"
  /\ IsProduction(cfg.AppEnv) => cfg.JWTSecret # "placeholder" /\ ~cfg.SeedDemoData
  /\ cfg.CORSOrigins # {} /\ "*" \notin cfg.CORSOrigins

=============================================================================
