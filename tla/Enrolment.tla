----------------------------- MODULE Enrolment -----------------------------
(***************************************************************************)
(* Pairing one agent identity with a controller: the key files both sides  *)
(* write (admin.rs init, add, reset), the keys that running processes have *)
(* loaded from them (Crypto::from_env, controller main), and what becomes  *)
(* of a command that is sealed with one key and fetched with another       *)
(* (drain_commands). Also the key of the shared area, which every session  *)
(* reads or mints in the registry (share_key).                             *)
(*                                                                         *)
(* A key pair is a number. derive_key gives both sides the same key from   *)
(* one private and one public key each, so the key two pairs agree on is   *)
(* the set of the two. Keys that are configured by hand are left out.      *)
(***************************************************************************)
EXTENDS Integers, FiniteSets

CONSTANTS
  Machines,     \* hosts on which the identity is set up, one process each
  Sessions,     \* MCP sessions, one controller process each
  Anyone,       \* the address of a command for whoever has the identity
  KeyIds,       \* what RELAY_KEY_ID may be set to on an agent
  MaxKeys,      \* bound: key pairs that are made
  MaxCommands   \* bound: commands that are sent

ASSUME EnrolmentAssumption ==
  /\ Anyone \notin Machines /\ Machines \cap Sessions = {}
  /\ MaxKeys \in Nat /\ MaxCommands \in Nat

NoKeyId == "unset"
PairedKeyId == "x25519-v1"
NoKey == 0

VARIABLES
  made,      \* key pairs made so far
  ctrl,      \* the controller's pair in controller.toml, NoKey if there is none
  row,       \* the agent's public key in the registry
  cfg,       \* cfg[m]: agent.toml: own pair, the controller's public key, key id
  proc,      \* proc[m]: what the process on m has loaded
  sess,      \* sess[s]: what session s has loaded
  mail,      \* commands in the bucket
  sent,      \* how many were sent
  share,     \* the share_key row of settings
  sharepc,   \* sharepc[s]: where share_key is: "idle", "insert", "read"
  minted,    \* minted[s]: the key it has made
  returned,  \* returned[s]: what it returned last
  discarded, \* history: commands some process has discarded, and which
  uptodate   \* history: sessions and processes that are younger than the last
             \* change of what they load

fileVars == <<made, ctrl, row, cfg>>
procVars == <<proc, sess>>
shareVars == <<share, sharepc, minted, returned>>
enrolmentVars == <<fileVars, procVars, mail, sent, shareVars, discarded, uptodate>>

NoConfig == [own |-> NoKey, peer |-> NoKey, kid |-> NoKeyId]
NoSession == [own |-> NoKey, peer |-> NoKey]

EnrolmentInit ==
  /\ made = 0 /\ ctrl = NoKey /\ row = NoKey
  /\ cfg = [m \in Machines |-> NoConfig]
  /\ proc = [m \in Machines |-> NoConfig] /\ sess = [s \in Sessions |-> NoSession]
  /\ mail = {} /\ sent = 0
  /\ share = NoKey /\ sharepc = [s \in Sessions |-> "idle"]
  /\ minted = [s \in Sessions |-> NoKey] /\ returned = [s \in Sessions |-> NoKey]
  /\ discarded = {} /\ uptodate = {}

--------------------------------------------------------------------------
(* Administration.                                                         *)

\* s3-relay-mcp init: refused if there is a configuration.
ControllerInit ==
  /\ ctrl = NoKey /\ made < MaxKeys
  /\ made' = made + 1 /\ ctrl' = made + 1
  /\ uptodate' = uptodate \ Sessions
  /\ UNCHANGED <<row, cfg, procVars, mail, sent, shareVars, discarded>>

\* s3-relay-mcp reset removes the configuration and the database; sessions go
\* on with what they have loaded. With the new database the agreement on the key
\* of the shared area begins anew; no session is inside share_key at that moment.
ControllerReset ==
  /\ ctrl # NoKey /\ \A s \in Sessions : sharepc[s] = "idle"
  /\ ctrl' = NoKey /\ row' = NoKey
  /\ share' = NoKey /\ returned' = [s \in Sessions |-> NoKey]
  /\ uptodate' = uptodate \ Sessions
  /\ UNCHANGED <<made, cfg, procVars, mail, sent, sharepc, minted, discarded>>

\* relay-agent init with the controller's public key as it is now.
AgentInit(m, kid) ==
  /\ cfg[m] = NoConfig /\ ctrl # NoKey /\ made < MaxKeys
  /\ made' = made + 1
  /\ cfg' = [cfg EXCEPT ![m] = [own |-> made + 1, peer |-> ctrl, kid |-> kid]]
  /\ uptodate' = uptodate \ {m}
  /\ UNCHANGED <<ctrl, row, procVars, mail, sent, shareVars, discarded>>

\* relay-agent reset.
AgentReset(m) ==
  /\ cfg[m] # NoConfig
  /\ cfg' = [cfg EXCEPT ![m] = NoConfig]
  /\ uptodate' = uptodate \ {m}
  /\ UNCHANGED <<made, ctrl, row, procVars, mail, sent, shareVars, discarded>>

\* s3-relay-mcp add with the code that machine m has shown; a row that is there
\* is updated (ON CONFLICT(id) DO UPDATE).
AddAgent(m) ==
  /\ ctrl # NoKey /\ cfg[m] # NoConfig
  /\ row' = cfg[m].own
  /\ uptodate' = uptodate \ Sessions
  /\ UNCHANGED <<made, ctrl, cfg, procVars, mail, sent, shareVars, discarded>>

--------------------------------------------------------------------------
(* Processes.                                                              *)

\* The agent loads its configuration; it is restarted to load another.
AgentStarts(m) ==
  /\ cfg[m] # NoConfig /\ proc[m] # cfg[m]
  /\ proc' = [proc EXCEPT ![m] = cfg[m]]
  /\ uptodate' = uptodate \cup {m}
  /\ UNCHANGED <<fileVars, sess, mail, sent, shareVars, discarded>>

\* A session starts if an agent is enrolled.
SessionStarts(s) ==
  /\ ctrl # NoKey /\ row # NoKey /\ sharepc[s] = "idle"
  /\ sess' = [sess EXCEPT ![s] = [own |-> ctrl, peer |-> row]]
  /\ uptodate' = uptodate \cup {s}
  /\ UNCHANGED <<fileVars, proc, mail, sent, shareVars, discarded>>

\* derive_key.
Derived(own, peer) == {own, peer}

\* Mutant: an enrolled agent takes the key id of hand-configured keys.
DefaultsToPrimary(kid) == IF kid = NoKeyId THEN "primary" ELSE kid

\* Crypto::from_env: the key id that an enrolled agent expects.
ExpectedKeyId(kid) == IF kid = NoKeyId THEN PairedKeyId ELSE kid

\* Crypto::open with what the process on m has loaded.
Opens(m, c) ==
  /\ c.kid = ExpectedKeyId(proc[m].kid)
  /\ c.key = Derived(proc[m].own, proc[m].peer)

\* A command is sealed with the session's key, for anyone or one instance.
SendCommand(s, to) ==
  /\ sess[s] # NoSession /\ sent < MaxCommands
  /\ sent' = sent + 1
  /\ mail' = mail \cup
       {[id |-> sent + 1, to |-> to, by |-> s, kid |-> PairedKeyId,
         key |-> Derived(sess[s].own, sess[s].peer)]}
  /\ UNCHANGED <<fileVars, procVars, shareVars, discarded, uptodate>>

\* drain_commands: what cannot be opened is deleted, what is for another
\* instance is left, the rest is taken.
Drain(m, c) ==
  /\ proc[m] # NoConfig /\ c \in mail
  /\ Opens(m, c) => c.to \in {m, Anyone}
  /\ mail' = mail \ {c}
  /\ discarded' = IF Opens(m, c) THEN discarded ELSE discarded \cup {<<m, c>>}
  /\ UNCHANGED <<fileVars, procVars, sent, shareVars, uptodate>>

--------------------------------------------------------------------------
(* share_key.                                                              *)

SharePc(s, where) == sharepc' = [sharepc EXCEPT ![s] = where]

\* A SELECT that fails is taken for "no key" (.ok()), also where there is one.
ShareSelect(s) ==
  /\ sess[s] # NoSession /\ ctrl # NoKey /\ sharepc[s] = "idle" /\ returned[s] = NoKey
  /\ \/ /\ share # NoKey
        /\ returned' = [returned EXCEPT ![s] = share] /\ UNCHANGED <<sharepc, minted, made>>
     \/ /\ made < MaxKeys /\ made' = made + 1
        /\ minted' = [minted EXCEPT ![s] = made + 1]
        /\ SharePc(s, "insert") /\ UNCHANGED returned
  /\ UNCHANGED <<ctrl, row, cfg, procVars, mail, sent, share, discarded, uptodate>>

\* INSERT OR IGNORE.
ShareInsert(s) ==
  /\ sharepc[s] = "insert"
  /\ share' = IF share = NoKey THEN minted[s] ELSE share
  /\ SharePc(s, "read")
  /\ UNCHANGED <<fileVars, procVars, mail, sent, minted, returned, discarded, uptodate>>

\* Mutant: the key that was made is returned.
WhatItMade(s) == minted[s]

\* "Re-read rather than returning what we generated".
WhatIsThere(s) == share

ShareRead(s) ==
  /\ sharepc[s] = "read"
  /\ returned' = [returned EXCEPT ![s] = WhatIsThere(s)]
  /\ minted' = [minted EXCEPT ![s] = NoKey]
  /\ SharePc(s, "idle")
  /\ UNCHANGED <<fileVars, procVars, mail, sent, share, discarded, uptodate>>

\* The INSERT or the second SELECT fails, which ends the call with an error.
ShareFails(s) ==
  /\ sharepc[s] # "idle"
  /\ minted' = [minted EXCEPT ![s] = NoKey]
  /\ SharePc(s, "idle")
  /\ UNCHANGED <<fileVars, procVars, mail, sent, share, returned, discarded, uptodate>>

--------------------------------------------------------------------------
EnrolmentNext ==
  \/ ControllerInit \/ ControllerReset
  \/ \E m \in Machines :
       \/ \E kid \in KeyIds : AgentInit(m, kid)
       \/ AgentReset(m) \/ AddAgent(m) \/ AgentStarts(m)
       \/ \E c \in mail : Drain(m, c)
  \/ \E s \in Sessions :
       \/ SessionStarts(s) \/ ShareSelect(s) \/ ShareInsert(s) \/ ShareRead(s) \/ ShareFails(s)
       \/ \E to \in Machines \cup {Anyone} : SendCommand(s, to)

EnrolmentSpec == EnrolmentInit /\ [][EnrolmentNext]_enrolmentVars

--------------------------------------------------------------------------
(* Properties.                                                             *)

\* share_key: "another process may have inserted first, and both sides must end
\* up with the same key". Whatever one session writes to the shared area,
\* every other can read.
ShareKeyAgreed ==
  \A s, t \in Sessions : returned[s] # NoKey /\ returned[t] # NoKey => returned[s] = returned[t]

\* The operator's procedure is enough, in any order and however often it is
\* repeated: set up the agent with the controller's key, add its code, restart
\* the session ("Restart the MCP session; the agent will then appear") and the
\* agent. A command that such a session sends is not discarded by such an agent.
PairingWorks ==
  [][\A m \in Machines, c \in mail :
       /\ {m, c.by} \subseteq uptodate /\ row = cfg[m].own /\ cfg[m].peer = ctrl
       /\ cfg[m].kid \in {NoKeyId, PairedKeyId}
       /\ c.key = Derived(sess[c.by].own, sess[c.by].peer)
       => <<m, c>> \notin discarded' \ discarded]_enrolmentVars
=============================================================================
