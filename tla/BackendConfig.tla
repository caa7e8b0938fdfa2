----------------------------- MODULE BackendConfig -----------------------------
(***************************************************************************)
(* persistence/settings.cpp, persistence/keychain.cpp, backends/loader.cpp *)
(* and the key panel of the Settings tab: which provider, key and model    *)
(* the registered backend has, and what of the choice survives.            *)
(*                                                                         *)
(* An operation of the tab changes three stores one after the other: the   *)
(* key store of the operating system, the settings in memory and in their  *)
(* file, and the backend.  X-Plane may crash between any two steps.        *)
(***************************************************************************)
EXTENDS Integers, Sequences

CONSTANTS Providers,
          FirstProvider,   \* "openai"
          Unknown,         \* a backend_mode edited by hand
          Keys, NoKey, Models,
          DefaultModel,    \* of each provider
          DeleteThenAdd,   \* keychain::save() on macOS; on Windows it overwrites
          StoreMayFail,    \* the calls of the key store may fail
          WritesMayFail    \* opening or writing settings.json may fail

ASSUME ConfigAssumption ==
  /\ FirstProvider \in Providers
  /\ Unknown \notin Providers
  /\ NoKey \notin Keys
  /\ DefaultModel \in [Providers -> Models]
  /\ DeleteThenAdd \in BOOLEAN /\ StoreMayFail \in BOOLEAN /\ WritesMayFail \in BOOLEAN

VARIABLES
  cfg,      \* cfg: the settings in memory
  file,     \* settings.json
  keys,     \* the key store: the key of each provider, or NoKey
  lm,       \* the registered backend, or NoLm
  op,       \* the operation under way: what is left of it to do
  phase,    \* "stopped", "disabled" or "enabled"
  mishap,   \* history: a step failed or was cut off that flags and keys depend on
  unsaved,  \* history: the last attempt to save the settings failed
  unread    \* history: the loader could not read a key that is there

vars == <<cfg, file, keys, lm, op, phase, mishap, unsaved, unread>>
history == <<mishap, unsaved>>
backend == <<lm, unread>>

Modes == Providers \cup {Unknown}
Settings == [mode : Modes, model : [Providers -> Models], saved : [Providers -> BOOLEAN]]

\* default_config()
Defaults == [mode |-> FirstProvider, model |-> DefaultModel,
             saved |-> [p \in Providers |-> FALSE]]

\* The file of an older build lacks the members of providers it did not know; a
\* file that is not whole is absent, empty or cut off.
Broken == [whole |-> FALSE]
Whole(s) == [whole |-> TRUE, mode |-> s.mode, model |-> s.model, saved |-> s.saved]

NoLm == [key |-> NoKey]
Lm == [prov : Providers, key : Keys, model : Models]

Steps == {"remove", "add", "erase", "truncate", "write", "reload"}
Saves == <<"truncate", "write">>
Idle == op.steps = <<>>
NoOp == [steps |-> <<>>, key |-> NoKey]

TypeOK ==
  /\ cfg \in Settings
  /\ file = Broken \/ \E known \in SUBSET Providers :
       /\ file.model \in [known -> Models] /\ file.saved \in [known -> BOOLEAN]
       /\ file.whole /\ file.mode \in Modes
  /\ keys \in [Providers -> Keys \cup {NoKey}]
  /\ lm \in Lm \cup {NoLm}
  /\ op.steps \in Seq(Steps) /\ op.key \in Keys \cup {NoKey}
  /\ phase \in {"stopped", "disabled", "enabled"}
  /\ {mishap, unsaved, unread} \subseteq BOOLEAN

\* An installation without a settings file, though with keys perhaps; or one left
\* by this or an older build, whose flags say which keys there are.
Init ==
  /\ cfg = Defaults /\ lm = NoLm /\ op = NoOp /\ phase = "stopped" /\ unsaved = FALSE
  /\ unread = FALSE
  /\ keys \in [Providers -> Keys \cup {NoKey}]
  /\ \/ file = Broken /\ mishap = \E p \in Providers : keys[p] # NoKey
     \/ /\ \E mode \in Modes, known \in SUBSET Providers : \E models \in [known -> Models] :
             /\ \A p \in Providers : keys[p] # NoKey => p \in known
             /\ file = [whole |-> TRUE, mode |-> mode, model |-> models,
                        saved |-> [p \in known |-> keys[p] # NoKey]]
        /\ mishap = FALSE

-----------------------------------------------------------------------------
(* The stores.                                                             *)

\* The entry of a provider in the key store.  Mutation: all use the first one's.
OneService(p) == FirstProvider
Service(p) == p

Stored(p) == keys[Service(p)]

\* The loop over default_config().
OrDefault(members, defaults) ==
  [p \in Providers |-> IF p \in DOMAIN members THEN members[p] ELSE defaults[p]]

\* What init() makes of the file: members it lacks get their default.
\* Mutation: they do not.
LoadedUnmerged(f) ==
  IF ~f.whole THEN Defaults ELSE [mode |-> f.mode, model |-> f.model, saved |-> f.saved]
Loaded(f) ==
  IF ~f.whole THEN Defaults
  ELSE [mode |-> f.mode, model |-> OrDefault(f.model, DefaultModel),
        saved |-> OrDefault(f.saved, Defaults.saved)]

\* loader::start(); keychain::load() returns no key also when it fails.
LoaderStart ==
  LET there == cfg.mode \in Providers /\ Stored(cfg.mode) # NoKey
  IN \/ there /\ unread' = FALSE
        /\ lm' = [prov |-> cfg.mode, key |-> Stored(cfg.mode), model |-> cfg.model[cfg.mode]]
     \/ ~there /\ unread' = FALSE /\ lm' = NoLm
     \/ there /\ StoreMayFail /\ unread' = TRUE /\ lm' = NoLm

LoaderStop == lm' = NoLm /\ unread' = FALSE

-----------------------------------------------------------------------------
(* The operations, on the panel of the chosen provider.                    *)

Panel == IF cfg.mode \in Providers THEN cfg.mode ELSE FirstProvider

Begins(steps, key) == /\ phase = "enabled" /\ Idle
                      /\ op' = [steps |-> steps, key |-> key]
                      /\ UNCHANGED <<file, keys, backend, phase, history>>

\* "Save key"
Replacing == <<"remove", "add", "truncate", "write", "reload">>
Adding == <<"add", "truncate", "write", "reload">>
SaveKey(k) ==
  /\ Begins(IF DeleteThenAdd THEN Replacing ELSE Adding, k)
  /\ UNCHANGED cfg

\* "Delete key"
Erasing == <<"erase", "truncate", "write", "reload">>
DeleteKey == Begins(Erasing, NoKey) /\ UNCHANGED cfg

\* Every setter saves, and the panel saves once more: the second time writes the
\* same, so a save stands for both.

\* "Provider".  Mutation: the loader is not run again.
NoReload == Saves
SaveReload == <<"truncate", "write", "reload">>
PickProvider(p) ==
  /\ Begins(SaveReload, NoKey)
  /\ cfg' = [cfg EXCEPT !.mode = p]

\* "LM model": the backend keeps its model until it is loaded again.
\* Mutation: the setter does not save.
NotSaved == <<>>
ModelSaves == Saves
PickModel(m) ==
  /\ Begins(ModelSaves, NoKey)
  /\ cfg' = [cfg EXCEPT !.model[Panel] = m]

\* The other settings, the window's place on every frame it moves: the whole
\* file is written again.
SetOther == Begins(Saves, NoKey) /\ UNCHANGED cfg

-----------------------------------------------------------------------------
(* Their steps.                                                            *)

Next1 == op' = [op EXCEPT !.steps = Tail(@)]
At(step) == ~Idle /\ Head(op.steps) = step

Remove ==
  /\ At("remove") /\ Next1
  /\ \/ keys' = [keys EXCEPT ![Service(Panel)] = NoKey]
     \/ StoreMayFail /\ UNCHANGED keys
  /\ UNCHANGED <<cfg, file, backend, phase, history>>

\* A flag of the panel's provider.  Mutation: it is left alone.
FlagLeft(b) == cfg
Flag(b) == [cfg EXCEPT !.saved[Panel] = b]

\* SecKeychainAddGenericPassword() refuses an entry that is still there.
Add ==
  /\ At("add") /\ ~(DeleteThenAdd /\ Stored(Panel) # NoKey)
  /\ Next1
  /\ keys' = [keys EXCEPT ![Service(Panel)] = op.key]
  /\ cfg' = Flag(TRUE)
  /\ UNCHANGED <<file, backend, phase, history>>

\* The operation ends there, without a reload.
AddFails ==
  /\ At("add") /\ StoreMayFail
  /\ op' = NoOp
  /\ mishap' = (mishap \/ cfg.saved[Panel] # (Stored(Panel) # NoKey))
  /\ UNCHANGED <<cfg, file, keys, backend, phase, unsaved>>

\* keychain::remove(), whose failure is not looked at.
Erase ==
  /\ At("erase") /\ Next1
  /\ \/ keys' = [keys EXCEPT ![Service(Panel)] = NoKey] /\ UNCHANGED mishap
     \/ /\ StoreMayFail /\ UNCHANGED keys
        /\ mishap' = (mishap \/ Stored(Panel) # NoKey)
  /\ cfg' = Flag(FALSE)
  /\ UNCHANGED <<file, backend, phase, unsaved>>

\* save() opens the file, which empties it, or cannot.
Truncate ==
  /\ At("truncate")
  /\ \/ Next1 /\ file' = Broken /\ UNCHANGED history
     \/ /\ WritesMayFail
        /\ op' = [op EXCEPT !.steps = Tail(Tail(@))]
        /\ UNCHANGED file /\ mishap' = TRUE /\ unsaved' = TRUE
  /\ UNCHANGED <<cfg, keys, backend, phase>>

Write ==
  /\ At("write") /\ Next1
  /\ \/ file' = Whole(cfg) /\ unsaved' = FALSE /\ UNCHANGED mishap
     \/ /\ WritesMayFail
        /\ file' = Broken /\ mishap' = TRUE /\ unsaved' = TRUE
  /\ UNCHANGED <<cfg, keys, backend, phase>>

\* loader::stop() and loader::start().
Reload ==
  /\ At("reload") /\ Next1
  /\ LoaderStart
  /\ UNCHANGED <<cfg, file, keys, phase, history>>

-----------------------------------------------------------------------------
(* The plugin around it.                                                   *)

\* settings::init(), which writes the defaults where there is no file to load.
PluginStarts ==
  /\ phase = "stopped" /\ phase' = "disabled"
  /\ cfg' = Loaded(file)
  /\ op' = [NoOp EXCEPT !.steps = IF file.whole THEN <<>> ELSE Saves]
  /\ unsaved' = FALSE
  /\ UNCHANGED <<file, keys, backend, mishap>>

PluginEnabled ==
  /\ phase = "disabled" /\ Idle /\ phase' = "enabled"
  /\ LoaderStart
  /\ UNCHANGED <<cfg, file, keys, op, history>>

PluginDisabled ==
  /\ phase = "enabled" /\ Idle /\ phase' = "disabled"
  /\ LoaderStop
  /\ UNCHANGED <<cfg, file, keys, op, history>>

PluginStops ==
  /\ phase = "disabled" /\ Idle /\ phase' = "stopped"
  /\ UNCHANGED <<cfg, file, keys, backend, op, history>>

Crash ==
  /\ phase # "stopped" /\ phase' = "stopped"
  /\ LoaderStop /\ op' = NoOp
  /\ mishap' = (mishap \/ ~Idle)
  /\ UNCHANGED <<cfg, file, keys, unsaved>>

Next == \/ \E k \in Keys : SaveKey(k)
        \/ DeleteKey
        \/ \E p \in Providers : PickProvider(p)
        \/ \E m \in Models : PickModel(m)
        \/ SetOther
        \/ Remove \/ Add \/ AddFails \/ Erase \/ Truncate \/ Write \/ Reload
        \/ PluginStarts \/ PluginEnabled \/ PluginDisabled \/ PluginStops \/ Crash

Spec == Init /\ [][Next]_vars

-----------------------------------------------------------------------------
(* Properties                                                              *)

\* "Both providers can persist at once and a backend-mode flip never requires
\* re-pasting a key": no sequence of operations, failures and crashes touches
\* the key of a provider whose panel is not shown.
ProvidersApart ==
  [][\A p \in Providers : Stored(p) # Stored(p)' => phase = "enabled" /\ p = Panel]_vars

\* "Re-run the loader so the newly selected provider's key/model is picked up":
\* between operations the backend is of the provider chosen, with the key in the
\* store if there is one that could be read.
BackendFollowsChoice ==
  phase = "enabled" /\ Idle =>
    /\ lm # NoLm => lm.prov = cfg.mode
    /\ cfg.mode \in Providers /\ ~unread => Stored(cfg.mode) \in {NoKey, lm.key}

\* Between operations a restart finds the settings that are in memory, those of
\* an older build included, unless they could not be written.
SettingsOnDisk == phase # "stopped" /\ Idle /\ ~unsaved => Loaded(file) = cfg

\* "True when an API key was saved": as long as no step fails or is cut off, the
\* flag of a provider says whether the store has its key, also after restarts.
FlagTellsKey ==
  phase # "stopped" /\ Idle /\ ~mishap =>
    \A p \in Providers : cfg.saved[p] <=> Stored(p) # NoKey
=============================================================================
