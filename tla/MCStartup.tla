---- MODULE MCStartup ----
(* Small instances of Startup. *)
EXTENDS Startup

Production ==
  [encryptionKey |-> "hex64", databaseUrl |-> "set", jwtSecret |-> "set",
   nodeEnv |-> "known", port |-> "number", redisPort |-> "number",
   trustProxy |-> "hops", seed |-> FALSE, restart |-> TRUE]

\* docker-compose.yml, docker-compose.prod.yml, the latter with
\* SEED_DEMO_DATA in its env_file, and two mistakes in that file.
Deployments ==
  {[Production EXCEPT !.seed = TRUE, !.restart = FALSE],
   Production,
   [Production EXCEPT !.seed = TRUE],
   [Production EXCEPT !.encryptionKey = "other"],
   [Production EXCEPT !.port = "trailing"]}
====
