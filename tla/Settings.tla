------------------------------ MODULE Settings ------------------------------
(***************************************************************************)
(* Where the numbers come from that the other modules take as constants:   *)
(* the environment and the TOML file of each process (config.rs), the      *)
(* ranges it insists on at startup (bounded_env, number_env, Policy and    *)
(* PollPolicy::from_env).                                                  *)
(*                                                                         *)
(* Markers for what is not a number are negative.                          *)
(***************************************************************************)
EXTENDS Integers, FiniteSets, FiniteSetsExt

CONSTANTS
  Keys,       \* the settings that are edited
  MaxEdits    \* bound: edits of the environment and of the file

Unset == -1
Blank == -2      \* a variable that is set to nothing
Garbage == -3    \* a string that is no number
Fraction == -4   \* a TOML float

Procs == {"agent", "controller"}

\* A setting: who reads it, its default and range, and whether it is one of
\* KNOWN_KEYS. `strict` is FALSE for upload_concurrency, which falls back to the
\* default and is clamped where it is used.
Setting(owner, default, min, max, known, strict) ==
  [owner |-> owner, default |-> default, min |-> min, max |-> max,
   known |-> known, strict |-> strict]

AgentTable ==
  [heartbeat_secs     |-> Setting("agent", 15, 5, 1800, TRUE, TRUE),
   heartbeat_ttl_secs |-> Setting("agent", 45, 10, 3600, TRUE, TRUE),
   poll_ms            |-> Setting("agent", 200, 100, 60000, TRUE, TRUE),
   poll_max_ms        |-> Setting("agent", 5000, 100, 300000, TRUE, TRUE),
   max_timeout_secs   |-> Setting("agent", 300, 1, 3600, TRUE, TRUE),
   max_job_secs       |-> Setting("agent", 86400, 1, 2592000, FALSE, TRUE),
   upload_concurrency |-> Setting("agent", 8, 1, 16, TRUE, FALSE)]

ControllerTable ==
  [max_transfer_secs    |-> Setting("controller", 1800, 10, 86400, TRUE, TRUE),
   status_interval_secs |-> Setting("controller", 30, 0, 3600, FALSE, TRUE)]

AllKeys == DOMAIN AgentTable \cup DOMAIN ControllerTable

Table == [k \in AllKeys |->
            IF k \in DOMAIN AgentTable THEN AgentTable[k] ELSE ControllerTable[k]]

Own(p) == {k \in AllKeys : Table[k].owner = p}

ASSUME KeysAssumption == Keys \subseteq AllKeys /\ MaxEdits \in Nat

VARIABLES
  env,    \* env[k]: what the environment of k's owner will hold
  file,   \* file[k]: what its configuration file holds
  run,    \* run[p]: "down", "up", or "refused" to start
  use,    \* use[p]: the values p has loaded
  edits

settingsVars == <<env, file, run, use, edits>>

SettingsInit ==
  /\ env = [k \in AllKeys |-> Unset] /\ file = [k \in AllKeys |-> Unset]
  /\ run = [p \in Procs |-> "down"] /\ use = [p \in Procs |-> <<>>]
  /\ edits = 0

--------------------------------------------------------------------------
(* The operator. Values at, inside and just beyond both ends of the range; *)
(* a negative number is no u64, so Garbage.                                *)

Numbers(k) ==
  {Table[k].min - 1, Table[k].min, Table[k].min + 1, Table[k].max, Table[k].max + 1} \cap Nat

Edit(k) ==
  /\ edits < MaxEdits /\ edits' = edits + 1
  /\ \/ \E v \in Numbers(k) \cup {Blank, Garbage} : env' = [env EXCEPT ![k] = v]
        /\ UNCHANGED file
     \/ \E v \in Numbers(k) \cup {Garbage, Fraction} : file' = [file EXCEPT ![k] = v]
        /\ UNCHANGED env
  /\ UNCHANGED <<run, use>>

ShutDown(p) ==
  /\ run[p] # "down"
  /\ run' = [run EXCEPT ![p] = "down"] /\ use' = [use EXCEPT ![p] = <<>>]
  /\ UNCHANGED <<env, file, edits>>

--------------------------------------------------------------------------
(* Startup.                                                                *)

\* validate: every key in the file is one of KNOWN_KEYS.
FileAccepted(p) == \A k \in Own(p) : file[k] # Unset => Table[k].known

\* render: a float is no value.
Rendered(v) == IF v = Fraction THEN Unset ELSE v

\* optional_env: the environment, unless it is blank, then the file.
OptionalEnv(k) == IF env[k] \notin {Unset, Blank} THEN env[k] ELSE Rendered(file[k])

\* bounded_env, number_env and Policy::from_env parse and check; for
\* upload_concurrency parse().ok() and upload_concurrency's clamp.
Loaded(k) ==
  LET v == OptionalEnv(k) IN
  IF v = Unset THEN Table[k].default
  ELSE IF Table[k].strict THEN v
  ELSE IF v < 0 THEN Table[k].default
  ELSE Max({Table[k].min, Min({v, Table[k].max})})

InRange(k, v) == v \in Table[k].min..Table[k].max

\* PollPolicy::from_env.
BacksOff == Loaded("poll_max_ms") >= Loaded("poll_ms")

\* Mutant: compares only what was configured.
OnlyConfigured(p) ==
  p = "agent" =>
    \/ OptionalEnv("heartbeat_secs") = Unset \/ OptionalEnv("heartbeat_ttl_secs") = Unset
    \/ Loaded("heartbeat_ttl_secs") >= 2 * Loaded("heartbeat_secs") /\ BacksOff

\* What the agent insists on beyond the ranges.
Coherent(p) ==
  p = "agent" => Loaded("heartbeat_ttl_secs") >= 2 * Loaded("heartbeat_secs") /\ BacksOff

Startable(p) ==
  /\ FileAccepted(p) /\ \A k \in Own(p) : InRange(k, Loaded(k))
  /\ Coherent(p)

StartUp(p) ==
  /\ run[p] = "down"
  /\ IF Startable(p)
       THEN /\ run' = [run EXCEPT ![p] = "up"]
            /\ use' = [use EXCEPT ![p] = [k \in Own(p) |-> Loaded(k)]]
       ELSE run' = [run EXCEPT ![p] = "refused"] /\ UNCHANGED use
  /\ UNCHANGED <<env, file, edits>>

SettingsNext ==
  \/ \E k \in Keys : Edit(k)
  \/ \E p \in Procs : StartUp(p) \/ ShutDown(p)

SettingsSpec == SettingsInit /\ [][SettingsNext]_settingsVars

--------------------------------------------------------------------------
(* Properties.                                                             *)

\* A process that comes up does so with what the operator has configured, in
\* numbers that fit each other, whichever came from the environment, the file or
\* the defaults. config.rs: "the process environment always overrides it", and
\* "Empty environment values count as unset so a blank line in a systemd
\* EnvironmentFile does not mask a config-file value". A heartbeat outlives two
\* intervals, and backing off never speeds up polling.
StartsAsConfigured ==
  [][\A p \in Procs : run[p] = "down" /\ run'[p] = "up" =>
       LET new == use'[p] IN
         /\ \A k \in Own(p) :
              /\ InRange(k, new[k])
              /\ env[k] >= 0 /\ Table[k].strict => new[k] = env[k]
              /\ env[k] \in {Unset, Blank} /\ file[k] >= 0 /\ Table[k].strict => new[k] = file[k]
         /\ p = "agent" =>
              /\ new["heartbeat_ttl_secs"] >= 2 * new["heartbeat_secs"]
              /\ new["poll_max_ms"] >= new["poll_ms"]]_settingsVars
=============================================================================
