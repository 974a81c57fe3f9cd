---------------------------- MODULE SettingsSave ----------------------------
(***************************************************************************)
(* Saving the settings (src/web.rs, settings, acquire_settings_gate,       *)
(* save_settings, write_credentials, restore_file; src/config.rs, save):   *)
(* two files and their live copies, changed by file workers whose requests *)
(* may have timed out or gone away, one at a time behind the settings      *)
(* gate.                                                                   *)
(*                                                                         *)
(* Abstracted: a save's settings are the save's name; a key is the name of *)
(* the save that stored it; the requests' place in the worker queue        *)
(* (see FileIo) is part of waiting for the gate; the app's stop ends a     *)
(* request as its timeout does.                                            *)
(***************************************************************************)
CONSTANTS
  Saves,   \* requests to save
  Envs,    \* names of keys (api_key_env)
  Nothing  \* no file, no key, no holder

Modes == {"keep", "save", "clear"}
Keys == [Envs -> Saves \union {Nothing}]

VARIABLES
  mode, env,           \* what each request asks for
  at,                  \* the request: new, gate, await, over
  answer,
  w,                   \* its worker
  gate,                \* the holder of settings_gate
  keys,                \* the worker's edited copy of the credentials
  before,              \* the previous config file, staged for a rollback
  config, credentials, \* the files
  liveConfig, liveKeys,
  halved,              \* a rollback failed, and its request said so
  crashed              \* the process died once (bound)

files == <<config, credentials>>
live == <<liveConfig, liveKeys>>
vars == <<mode, env, at, answer, w, gate, keys, before, config, credentials,
          liveConfig, liveKeys, halved, crashed>>

NoKeys == [e \in Envs |-> Nothing]

Init ==
  /\ mode \in [Saves -> Modes]
  /\ env \in [Saves -> Envs]
  /\ at = [s \in Saves |-> "new"]
  /\ answer = [s \in Saves |-> "none"]
  /\ w = [s \in Saves |-> "none"]
  /\ gate = Nothing
  /\ keys = [s \in Saves |-> NoKeys]
  /\ before = [s \in Saves |-> Nothing]
  /\ config = Nothing /\ liveConfig = Nothing
  /\ credentials = NoKeys /\ liveKeys = NoKeys
  /\ halved = FALSE /\ crashed = FALSE

Go(s, to) == w' = [w EXCEPT ![s] = to]

-----------------------------------------------------------------------------
(* The request.                                                            *)

Ask(s) ==
  /\ at[s] = "new"
  /\ at' = [at EXCEPT ![s] = "gate"]
  /\ UNCHANGED <<mode, env, answer, w, gate, keys, before, files, live, halved, crashed>>

\* The gate goes to the worker with the request's settings.
Enter(s) ==
  /\ at[s] = "gate"
  /\ gate = Nothing
  /\ gate' = s
  /\ at' = [at EXCEPT ![s] = "await"]
  /\ Go(s, "begin")
  /\ UNCHANGED <<mode, env, answer, keys, before, files, live, halved, crashed>>

\* The time limit, the client or the app ends the request; a worker that has
\* begun keeps the gate.
GiveUp(s) ==
  /\ at[s] \in {"gate", "await"}
  /\ at' = [at EXCEPT ![s] = "over"]
  /\ answer' = [answer EXCEPT ![s] = "timeout"]
  /\ UNCHANGED <<mode, env, w, gate, keys, before, files, live, halved, crashed>>

-----------------------------------------------------------------------------
(* The worker.  It answers a request that still waits and drops the gate.  *)

Done(s, how) ==
  /\ Go(s, "over")
  /\ gate' = IF gate = s THEN Nothing ELSE gate
  /\ IF at[s] = "await"
     THEN at' = [at EXCEPT ![s] = "over"] /\ answer' = [answer EXCEPT ![s] = how]
     ELSE UNCHANGED <<at, answer>>

Edited(s) ==
  CASE mode[s] = "keep" -> liveKeys
    [] mode[s] = "save" -> [liveKeys EXCEPT ![env[s]] = s]
    [] mode[s] = "clear" -> [liveKeys EXCEPT ![env[s]] = Nothing]

\* The live settings are copied, the new ones prepared, and the old file is
\* staged when the credentials are to change.
Prepare(s) ==
  /\ w[s] = "begin"
  /\ Go(s, "save")
  /\ keys' = [keys EXCEPT ![s] = Edited(s)]
  /\ before' = [before EXCEPT ![s] = config]
  /\ UNCHANGED <<mode, env, at, answer, gate, files, live, halved, crashed>>

\* Cancellation is looked at for the last time.
LastLook(s) ==
  /\ w[s] = "save"
  /\ at[s] = "await"
  /\ Go(s, "store")
  /\ UNCHANGED <<mode, env, at, answer, gate, keys, before, files, live, halved, crashed>>

\* Refused settings, an unreadable file, cancellation, or a failed write of
\* the config file.
Refuse(s) ==
  /\ w[s] \in {"begin", "save", "store"}
  /\ Done(s, "error")
  /\ UNCHANGED <<mode, env, keys, before, files, live, halved, crashed>>

\* Config::save.
SaveConfig(s) ==
  /\ w[s] = "store"
  /\ config' = s
  /\ Go(s, IF mode[s] = "keep" THEN "publish" ELSE "keys")
  /\ UNCHANGED <<mode, env, at, answer, gate, keys, before, credentials, live, halved, crashed>>

\* Mutant: a failed write of the credentials leaves the config file.
WriteKeysWithoutRollback(s) ==
  /\ w[s] = "keys"
  /\ Done(s, "error")
  /\ UNCHANGED <<mode, env, keys, before, files, live, halved, crashed>>

WriteKeys(s) ==
  /\ w[s] = "keys"
  /\ \/ credentials' = keys[s] /\ Go(s, "publish")
     \/ UNCHANGED credentials /\ Go(s, "restore")
  /\ UNCHANGED <<mode, env, at, answer, gate, keys, before, config, live, halved, crashed>>

\* restore_file, which may fail too.
Restore(s) ==
  /\ w[s] = "restore"
  /\ Done(s, "error")
  /\ \/ config' = before[s] /\ UNCHANGED halved
     \/ halved' = TRUE /\ UNCHANGED config
  /\ UNCHANGED <<mode, env, keys, before, credentials, live, crashed>>

\* What is stored becomes live even if the requester went.
Publish(s) ==
  /\ w[s] = "publish"
  /\ liveConfig' = s
  /\ liveKeys' = keys[s]
  /\ Done(s, "saved")
  /\ UNCHANGED <<mode, env, keys, before, files, halved, crashed>>

-----------------------------------------------------------------------------
\* Each file is there as one save left it; the next process reads both.
Restart == liveConfig' = config /\ liveKeys' = credentials

\* The process dies, with the requests it had, whatever they had written.
Crash ==
  /\ ~crashed /\ crashed' = TRUE
  /\ at' = [s \in Saves |-> IF at[s] = "new" THEN "new" ELSE "over"]
  /\ w' = [s \in Saves |-> IF at[s] = "new" THEN "none" ELSE "over"]
  /\ gate' = Nothing /\ halved' = FALSE
  /\ Restart
  /\ UNCHANGED <<mode, env, answer, keys, before, files>>

Worker(s) ==
  Prepare(s) \/ Refuse(s) \/ LastLook(s) \/ SaveConfig(s) \/ WriteKeys(s) \/ Restore(s) \/ Publish(s)

Next == Crash \/ \E s \in Saves : Ask(s) \/ Enter(s) \/ GiveUp(s) \/ Worker(s)

Spec == Init /\ [][Next]_vars

-----------------------------------------------------------------------------
(* Properties.                                                             *)

TypeOK ==
  /\ mode \in [Saves -> Modes]
  /\ env \in [Saves -> Envs]
  /\ at \in [Saves -> {"new", "gate", "await", "over"}]
  /\ answer \in [Saves -> {"none", "timeout", "error", "saved"}]
  /\ w \in [Saves -> {"none", "begin", "save", "store", "keys", "restore", "publish", "over"}]
  /\ gate \in Saves \union {Nothing}
  /\ keys \in [Saves -> Keys]
  /\ before \in [Saves -> Saves \union {Nothing}]
  /\ config \in Saves \union {Nothing}
  /\ credentials \in Keys
  /\ liveConfig \in Saves \union {Nothing}
  /\ liveKeys \in Keys
  /\ halved \in BOOLEAN /\ crashed \in BOOLEAN

\* Between saves the live settings are those of the files, unless a rollback
\* failed and was reported ("a failed request cannot leave only half of the
\* settings live"); and a save changes no key but its own, however late its worker
\* writes ("a timed-out or dropped HTTP request must not let a later save overtake
\* unfinished file I/O").  Timeouts, failed writes and a crash between the two
\* files change neither.
SettingsStored ==
  /\ [](gate = Nothing /\ ~halved => liveConfig = config /\ liveKeys = credentials)
  /\ [][\A e \in Envs :
          credentials'[e] # credentials[e] =>
            \E s \in Saves : env[s] = e /\ w[s] = "keys" /\ w'[s] = "publish"]_vars
=============================================================================
