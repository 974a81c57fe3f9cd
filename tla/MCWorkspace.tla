---------------------------- MODULE MCWorkspace ----------------------------
(***************************************************************************)
(* The workspace beside its idle scheduler: the settings and their two     *)
(* files (SettingsSave), and the sessions with the users' and automatic    *)
(* runs (Sessions).  They share no state here (what a run takes of the     *)
(* settings is SessionSettings), so a behaviour runs one of them while the *)
(* other has not been asked anything.                                      *)
(***************************************************************************)
EXTENDS Sessions

CONSTANTS Saves, Envs, Nothing

ASSUME SavesAssumption == Nothing \notin Saves

VARIABLES
  part,
  mode, env, at, answer, w, gate, keys, before, config, credentials, liveConfig, liveKeys,
  halved, crashed

Live == INSTANCE SettingsSave

saveVars == <<mode, env, at, answer, w, gate, keys, before, config, credentials,
              liveConfig, liveKeys, halved, crashed>>

MCInit ==
  /\ part \in {"settings", "sessions"}
  /\ Init /\ Live!Init
  /\ part # "settings" => /\ mode = [s \in Saves |-> "keep"]
                          /\ env = [s \in Saves |-> CHOOSE e \in Envs : TRUE]

MCNext ==
  \/ part = "settings" /\ Live!Next /\ UNCHANGED <<part, vars>>
  \/ part = "sessions" /\ Next /\ UNCHANGED <<part, saveVars>>

\* Nothing that fairness speaks of is enabled before a session runs.
MCSpec == MCInit /\ [][MCNext]_<<part, vars, saveVars>> /\ Fairness

-----------------------------------------------------------------------------
\* SettingsSave: the live settings and the stored ones agree once the gate is free,
\* and a save changes no key but its own.
SettingsStored == Live!SettingsStored
=============================================================================
