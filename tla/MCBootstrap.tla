------------------------------ MODULE MCBootstrap ------------------------------
(* Small instances of Bootstrap: settings files, environments and edits. *)
EXTENDS Bootstrap

(* The example file; one that pins a warehouse, uses a catalog that is      *)
(* there and leaves the supervisor out; one that benchmarks the supervisor  *)
(* alone; and two that are refused.                                         *)
MCInputs ==
  {Empty,
   [create |-> FALSE, build |-> FALSE, reuse |-> 11, variants |-> {"direct_genie"}],
   [reuse |-> 11, variants |-> {"supervisor"}],
   [build |-> FALSE], [reuse |-> 0, create_if_missing |-> FALSE]}
SmallInputs == {[build |-> FALSE, variants |-> {"direct_genie"}]}

OneTable  == <<"wells">>
TwoTables == <<"wells", "production">>

MCEnvs  == {Empty, [mcp_target |-> 9], [databricks_profile |-> 8]}
NoEnv   == {Empty}
MCKeys  == {[output_dir |-> "runs_out"], [use_default_auth |-> TRUE]}

(* A workspace without warehouses, or with one of others. *)
Classic      == [id |-> 11, serverless |-> FALSE, managed |-> FALSE]
MCWorkspaces == {{}, {Classic}, {[Classic EXCEPT !.serverless = TRUE]}}
OwnOnly      == {{}}
==============================================================================
