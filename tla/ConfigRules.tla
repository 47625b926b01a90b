----------------------------- MODULE ConfigRules -----------------------------
(***************************************************************************)
(* What config.py and bootstrap/settings.py accept: parse_config,          *)
(* the environment overrides before it, and parse_bootstrap_settings.      *)
(*                                                                         *)
(* A raw config is a record of the keys it gives; a text given as null or  *)
(* empty is one it does not give. Identifiers are numbers, "secret" stands *)
(* for any key or value that looks like a credential, and a number that is *)
(* not one is NaN. parse_config's own exception is not told from the plain *)
(* ValueError that max_runtime_seconds raises: neither config loads. A     *)
(* number given as null is NaN, except max_runtime_seconds.                *)
(***************************************************************************)
EXTENDS Integers, FiniteSets

KnownVariants == {"direct_genie", "supervisor", "supervisor_mcp"}

EnvOverridable == {"workspace_host", "databricks_profile", "experiment_id", "genie_space_id",
                   "supervisor_target", "mcp_target", "questions_file", "output_dir",
                   "environment"}

NaN == -1000

Given(c, key) == key \in DOMAIN c
Get(c, key, default) == IF Given(c, key) THEN c[key] ELSE default

(* old.update(new): what new gives wins. *)
Updated(old, new) ==
  [key \in DOMAIN old \cup DOMAIN new |-> IF key \in DOMAIN new THEN new[key] ELSE old[key]]

(* _apply_env_overrides; os.environ holds strings under the names above.   *)
Overridden(raw, env) == Updated(raw, [key \in DOMAIN env \cap EnvOverridable |-> env[key]])

-----------------------------------------------------------------------------
(* parse_config, step by step *)

RequiredGiven(c) ==
  /\ {"workspace_host", "genie_space_id", "questions_file", "variants"} \subseteq DOMAIN c
  /\ c.variants # {}
  /\ c.variants \subseteq KnownVariants

AuthUnambiguous(c) == ~(Given(c, "databricks_profile") /\ Get(c, "use_default_auth", FALSE))

Guardrails(c) ==
  /\ LET n == Get(c, "concurrency", 1)
     IN n >= 1 /\ (n # 1 => Get(c, "allow_concurrency", FALSE))
  /\ \A key \in {"repetitions", "max_questions", "request_timeout_seconds",
                 "poll_interval_seconds"} : Get(c, key, 1) >= 1
  /\ Get(c, "max_runtime_seconds", 1) # NaN

TargetsGiven(c) ==
  /\ "supervisor" \in c.variants => Given(c, "supervisor_target")
  /\ "supervisor_mcp" \in c.variants => Given(c, "mcp_target")

TraceDestinationWhole(c) ==
  Given(c, "trace_destination") =>
    c.trace_destination = {"catalog_name", "schema_name", "table_prefix"}

(* Credentials are looked for in the file alone, the rest after overrides. *)
ParseConfigAccepts(raw, env) ==
  /\ ~Given(raw, "secret")
  /\ \E c \in {Overridden(raw, env)} :
       /\ RequiredGiven(c)
       /\ AuthUnambiguous(c)
       /\ Guardrails(c)
       /\ TargetsGiven(c)
       /\ TraceDestinationWhole(c)

-----------------------------------------------------------------------------
(* parse_bootstrap_settings: the toggles and sizes the file gives, filled  *)
(* up with the defaults, and what is refused of them. names: do catalog    *)
(* and schema name have the shape of an SQL identifier.                    *)
Defaults ==
  [reuse |-> 0, create_if_missing |-> TRUE, create |-> TRUE, build |-> TRUE,
   variants |-> KnownVariants, names |-> TRUE, wells |-> 40, days |-> 540, seed |-> 42]

SettingsOf(raw) == [key \in DOMAIN Defaults |-> Get(raw, key, Defaults[key])]

SettingsAccepted(raw) ==
  LET s == SettingsOf(raw)
  IN /\ ~Given(raw, "secret")
     /\ s.names
     /\ s.reuse # 0 \/ s.create_if_missing
     /\ s.wells >= 1 /\ s.days >= 1 /\ s.seed >= 0
     /\ s.variants # {}
     /\ ~s.build => s.variants \cap {"supervisor", "supervisor_mcp"} = {}
==============================================================================
