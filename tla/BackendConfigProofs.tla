------------------------- MODULE BackendConfigProofs -------------------------
(***************************************************************************)
(* Proofs about BackendConfig: the key store, the settings, their file and *)
(* the backend agree between operations, whatever failed or crashed.       *)
(***************************************************************************)
EXTENDS BackendConfig, SequenceTheorems, TLAPS

\* What may be left to do of an operation.
WriteReload == <<"write", "reload">>
JustReload == <<"reload">>
LastWrite == <<"write">>

ToReload == {SaveReload, WriteReload, JustReload}
ToSave == {SaveReload, WriteReload, Saves, LastWrite}
Plans == {<<>>, Replacing, Adding, Erasing} \cup ToReload \cup ToSave

\* One step after the other.
LEMMA PlanTails ==
  /\ Tail(Replacing) = Adding /\ Tail(Adding) = SaveReload /\ Tail(Erasing) = SaveReload
  /\ Tail(SaveReload) = WriteReload /\ Tail(WriteReload) = JustReload
  /\ Tail(JustReload) = <<>> /\ Tail(Saves) = LastWrite /\ Tail(LastWrite) = <<>>
BY DEF Replacing, Adding, Erasing, SaveReload, WriteReload, JustReload, Saves, LastWrite

\* A plan is known by its first step and its length.
LEMMA PlanHeads ==
  /\ Head(Replacing) = "remove" /\ Head(Adding) = "add" /\ Head(Erasing) = "erase"
  /\ Head(SaveReload) = "truncate" /\ Head(WriteReload) = "write"
  /\ Head(JustReload) = "reload" /\ Head(Saves) = "truncate" /\ Head(LastWrite) = "write"
BY DEF Replacing, Adding, Erasing, SaveReload, WriteReload, JustReload, Saves, LastWrite

LEMMA PlanLengths ==
  /\ Len(Replacing) = 5 /\ Len(Adding) = 4 /\ Len(Erasing) = 4
  /\ Len(SaveReload) = 3 /\ Len(WriteReload) = 2
  /\ Len(JustReload) = 1 /\ Len(Saves) = 2 /\ Len(LastWrite) = 1 /\ Len(<<>>) = 0
BY DEF Replacing, Adding, Erasing, SaveReload, WriteReload, JustReload, Saves, LastWrite

LEMMA PlansApart ==
  /\ <<>> \notin {Replacing, Adding, Erasing, SaveReload, WriteReload, JustReload, Saves, LastWrite}
  /\ Replacing \notin {Adding, Erasing, SaveReload, WriteReload, JustReload, Saves, LastWrite}
  /\ Adding \notin {Erasing, SaveReload, WriteReload, JustReload, Saves, LastWrite}
  /\ Erasing \notin {SaveReload, WriteReload, JustReload, Saves, LastWrite}
  /\ SaveReload \notin {WriteReload, JustReload, Saves, LastWrite}
  /\ WriteReload \notin {JustReload, Saves, LastWrite}
  /\ JustReload \notin {Saves, LastWrite}
  /\ Saves # LastWrite
<1>1. <<>> \notin {Replacing, Adding, Erasing, SaveReload, WriteReload, JustReload, Saves, LastWrite}
  BY PlanLengths
<1>2. Replacing \notin {Adding, Erasing, SaveReload, WriteReload, JustReload, Saves, LastWrite}
  BY PlanLengths
<1>3. Adding \notin {Erasing, SaveReload, WriteReload, JustReload, Saves, LastWrite}
  BY PlanLengths, PlanHeads
<1>4. Erasing \notin {SaveReload, WriteReload, JustReload, Saves, LastWrite}
  BY PlanLengths
<1>5. SaveReload \notin {WriteReload, JustReload, Saves, LastWrite}
  BY PlanLengths
<1>6. WriteReload \notin {JustReload, Saves, LastWrite}
  BY PlanLengths, PlanHeads
<1>7. JustReload \notin {Saves, LastWrite}
  BY PlanLengths, PlanHeads
<1>8. Saves # LastWrite
  BY PlanLengths
<1> QED  BY <1>1, <1>2, <1>3, <1>4, <1>5, <1>6, <1>7, <1>8

\* What is left begins with the step that is due.
LEMMA StepsDue ==
  ASSUME op.steps \in Plans
  PROVE  /\ At("remove") => op.steps = Replacing
         /\ At("add") => op.steps = Adding
         /\ At("erase") => op.steps = Erasing
         /\ At("truncate") => op.steps \in {SaveReload, Saves}
         /\ At("write") => op.steps \in {WriteReload, LastWrite}
         /\ At("reload") => op.steps = JustReload
BY PlanHeads DEF At, Idle, Plans, ToReload, ToSave

LEMMA PlansAreSteps == Plans \subseteq Seq(Steps)
BY DEF Plans, ToReload, ToSave, Replacing, Adding, Erasing, SaveReload, WriteReload,
       JustReload, Saves, LastWrite, Steps

-----------------------------------------------------------------------------
(* The settings and their file.                                            *)

\* What a file holds that is whole, and what is made of it.
LEMMA LoadedTyped ==
  ASSUME TypeOK
  PROVE  Loaded(file) \in Settings
<1>1. CASE file = Broken
  BY <1>1, ConfigAssumption DEF Loaded, Broken, Defaults, Settings, Modes
<1>2. CASE file # Broken
  <2>1. PICK known \in SUBSET Providers :
          /\ file.model \in [known -> Models] /\ file.saved \in [known -> BOOLEAN]
          /\ file.whole /\ file.mode \in Modes
    BY <1>2 DEF TypeOK
  <2>2. OrDefault(file.model, DefaultModel) \in [Providers -> Models]
    BY <2>1, ConfigAssumption DEF OrDefault
  <2>3. OrDefault(file.saved, Defaults.saved) \in [Providers -> BOOLEAN]
    BY <2>1 DEF OrDefault, Defaults
  <2> QED  BY <2>1, <2>2, <2>3 DEF Loaded, Settings
<1> QED  BY <1>1, <1>2

\* Saving and loading bring the same settings back.
LEMMA SavedIsLoaded ==
  ASSUME NEW s \in Settings
  PROVE  Loaded(Whole(s)) = s
<1>1. OrDefault(s.model, DefaultModel) = s.model
  BY DEF OrDefault, Settings
<1>2. OrDefault(s.saved, Defaults.saved) = s.saved
  BY DEF OrDefault, Settings
<1>3. s = [mode |-> s.mode, model |-> s.model, saved |-> s.saved]
  BY DEF Settings
<1> HIDE DEF OrDefault
<1> QED  BY <1>1, <1>2, <1>3 DEF Loaded, Whole

LEMMA PanelTyped ==
  ASSUME TypeOK
  PROVE  Panel \in Providers
BY ConfigAssumption DEF Panel, TypeOK, Settings, Modes

-----------------------------------------------------------------------------
(* What is left of an operation, and in which phase.                       *)

PlanInv ==
  /\ TypeOK
  /\ op \in [steps : Plans, key : Keys \cup {NoKey}]
  /\ phase # "enabled" => op.steps \in {<<>>, Saves, LastWrite}
  /\ phase = "stopped" => Idle
  /\ op.steps \in {Replacing, Adding} => op.key \in Keys

LEMMA PlanInit == Init => PlanInv
<1> SUFFICES ASSUME Init PROVE PlanInv
  OBVIOUS
<1>1. cfg \in Settings
  BY ConfigAssumption DEF Init, Defaults, Settings, Modes
<1>2. file = Broken \/ \E known \in SUBSET Providers :
        /\ file.model \in [known -> Models] /\ file.saved \in [known -> BOOLEAN]
        /\ file.whole /\ file.mode \in Modes
  <2>1. CASE file = Broken
    BY <2>1
  <2>2. CASE file # Broken
    <3>1. PICK mode \in Modes, known \in SUBSET Providers : \E models \in [known -> Models] :
            file = [whole |-> TRUE, mode |-> mode, model |-> models,
                    saved |-> [p \in known |-> keys[p] # NoKey]]
      BY <2>2 DEF Init
    <3>2. PICK models \in [known -> Models] :
            file = [whole |-> TRUE, mode |-> mode, model |-> models,
                    saved |-> [p \in known |-> keys[p] # NoKey]]
      BY <3>1
    <3>3. /\ file.model \in [known -> Models] /\ file.saved \in [known -> BOOLEAN]
          /\ file.whole /\ file.mode \in Modes
      BY <3>2
    <3> QED  BY <3>3
  <2> QED  BY <2>1, <2>2
<1>3. op \in [steps : Plans, key : Keys \cup {NoKey}] /\ op.steps = <<>> /\ op.steps \in Seq(Steps)
  BY PlansAreSteps DEF Init, NoOp, Plans
<1>4. mishap \in BOOLEAN
  BY DEF Init
<1> QED  BY <1>1, <1>2, <1>3, <1>4, PlansApart DEF Init, PlanInv, TypeOK, Idle, NoOp

LEMMA LoaderTyped ==
  ASSUME TypeOK, LoaderStart
  PROVE  lm' \in Lm \cup {NoLm} /\ unread' \in BOOLEAN
<1>1. ASSUME cfg.mode \in Providers, keys[cfg.mode] # NoKey
      PROVE  [prov |-> cfg.mode, key |-> keys[cfg.mode], model |-> cfg.model[cfg.mode]] \in Lm
  BY <1>1 DEF TypeOK, Settings, Lm
<1> QED  BY <1>1 DEF LoaderStart, Stored, Service

LEMMA PlanBegins ==
  ASSUME PlanInv, NEW steps \in Plans, NEW key \in Keys \cup {NoKey}, Begins(steps, key),
         steps \in {Replacing, Adding} => key \in Keys, cfg' \in Settings
  PROVE  PlanInv'
<1>1. op' \in [steps : Plans, key : Keys \cup {NoKey}] /\ op'.steps = steps /\ op'.key = key
  BY DEF Begins
<1>2. phase' = "enabled"
  BY DEF Begins
<1>3. TypeOK'
  BY <1>1, PlansAreSteps DEF Begins, PlanInv, TypeOK, backend, history
<1> QED  BY <1>1, <1>2, <1>3 DEF PlanInv

\* A step of an operation leaves less to do.
LEMMA PlanGoesOn ==
  ASSUME PlanInv, op.steps # <<>>,
         op' \in [steps : Plans, key : {op.key}],
         op.steps \in {Saves, LastWrite} => op'.steps \in {LastWrite, <<>>},
         op.steps # Replacing => op'.steps # Adding, op'.steps # Replacing,
         UNCHANGED phase, cfg' \in Settings, keys' \in [Providers -> Keys \cup {NoKey}],
         file' \in {file, Broken, Whole(cfg)}, lm' \in Lm \cup {NoLm},
         {mishap, unsaved, unread}' \subseteq BOOLEAN
  PROVE  PlanInv'
<1>1. (file = Broken \/ \E known \in SUBSET Providers :
        /\ file.model \in [known -> Models] /\ file.saved \in [known -> BOOLEAN]
        /\ file.whole /\ file.mode \in Modes)'
  <2>1. CASE file' \in {file, Broken}
    BY <2>1 DEF PlanInv, TypeOK
  <2>2. CASE file' = Whole(cfg)
    <3>1. /\ file'.model \in [Providers -> Models] /\ file'.saved \in [Providers -> BOOLEAN]
          /\ file'.whole /\ file'.mode \in Modes
      BY <2>2 DEF PlanInv, TypeOK, Whole, Settings
    <3> QED  BY <3>1
  <2> QED  BY <2>1, <2>2
<1>2. TypeOK'
  BY <1>1, PlansAreSteps DEF PlanInv, TypeOK
<1>3. (phase # "enabled" => op.steps \in {<<>>, Saves, LastWrite})'
  BY DEF PlanInv
<1>4. (phase = "stopped" => Idle)'
  BY DEF PlanInv, Idle
<1>5. (op.steps \in {Replacing, Adding} => op.key \in Keys)'
  BY DEF PlanInv
<1> QED  BY <1>2, <1>3, <1>4, <1>5 DEF PlanInv

LEMMA PlanStep == PlanInv /\ [Next]_vars => PlanInv'
<1> SUFFICES ASSUME PlanInv, [Next]_vars PROVE PlanInv'
  OBVIOUS
<1> USE DEF PlanInv
<1>p. Panel \in Providers /\ cfg \in Settings
  BY PanelTyped DEF TypeOK
<1>s. op.steps \in Plans
  OBVIOUS
<1>a. ASSUME NEW k \in Keys, SaveKey(k) PROVE PlanInv'
  BY <1>a, <1>p, PlanBegins DEF SaveKey, Plans
<1>b. CASE DeleteKey
  BY <1>b, <1>p, PlanBegins, PlansApart DEF DeleteKey, Plans
<1>c. ASSUME NEW p \in Providers, PickProvider(p) PROVE PlanInv'
  <2>1. cfg' \in Settings
    BY <1>c, <1>p DEF PickProvider, Settings, Modes
  <2> QED  BY <1>c, <2>1, PlanBegins, PlansApart DEF PickProvider, Plans, ToReload
<1>d. ASSUME NEW m \in Models, PickModel(m) PROVE PlanInv'
  <2>1. cfg' \in Settings
    BY <1>d, <1>p DEF PickModel, Settings
  <2> QED  BY <1>d, <2>1, PlanBegins, PlansApart DEF PickModel, ModelSaves, Plans, ToSave
<1>e. CASE SetOther
  BY <1>e, <1>p, PlanBegins, PlansApart DEF SetOther, Plans, ToSave
<1>f. CASE Remove
  <2>1. op.steps = Replacing
    BY <1>f, StepsDue, <1>s DEF Remove
  <2>2. op' \in [steps : Plans, key : {op.key}] /\ op'.steps = Adding
    BY <1>f, <2>1, PlanTails DEF Remove, Next1, Plans
  <2>3. keys' \in [Providers -> Keys \cup {NoKey}]
    BY <1>f, <1>p DEF Remove, TypeOK, Service
  <2> QED  BY <1>f, <1>p, <2>1, <2>2, <2>3, PlanGoesOn, PlansApart
           DEF Remove, TypeOK, backend, history
<1>g. CASE Add
  <2>1. op.steps = Adding
    BY <1>g, StepsDue, <1>s DEF Add
  <2>2. op' \in [steps : Plans, key : {op.key}] /\ op'.steps = SaveReload
    BY <1>g, <2>1, PlanTails DEF Add, Next1, Plans, ToReload
  <2>3. keys' \in [Providers -> Keys \cup {NoKey}] /\ cfg' \in Settings
    BY <1>g, <1>p, <2>1 DEF Add, TypeOK, Service, Flag, Settings
  <2> QED  BY <1>g, <2>1, <2>2, <2>3, PlanGoesOn, PlansApart
           DEF Add, TypeOK, backend, history
<1>h. CASE AddFails
  <2>1. op.steps = Adding
    BY <1>h, StepsDue, <1>s DEF AddFails
  <2>2. op' = NoOp /\ mishap' \in BOOLEAN
    BY <1>h DEF AddFails, TypeOK
  <2>3. NoOp \in [steps : Plans, key : Keys \cup {NoKey}] /\ NoOp.steps = <<>>
    BY DEF NoOp, Plans
  <2>4. phase' = "enabled"
    BY <1>h, <2>1, PlansApart DEF AddFails
  <2> QED  BY <1>h, <2>2, <2>3, <2>4, PlansAreSteps, PlansApart
           DEF AddFails, TypeOK, backend
<1>i. CASE Erase
  <2>1. op.steps = Erasing
    BY <1>i, StepsDue, <1>s DEF Erase
  <2>2. op' \in [steps : Plans, key : {op.key}] /\ op'.steps = SaveReload
    BY <1>i, <2>1, PlanTails DEF Erase, Next1, Plans, ToReload
  <2>3. keys' \in [Providers -> Keys \cup {NoKey}] /\ cfg' \in Settings /\ mishap' \in BOOLEAN
    BY <1>i, <1>p DEF Erase, TypeOK, Service, Flag, Settings
  <2> QED  BY <1>i, <2>1, <2>2, <2>3, PlanGoesOn, PlansApart DEF Erase, TypeOK, backend
<1>j. CASE Truncate
  <2>1. op.steps \in {SaveReload, Saves}
    BY <1>j, StepsDue, <1>s DEF Truncate
  <2>2. /\ op' \in [steps : Plans, key : {op.key}]
        /\ op.steps = SaveReload => op'.steps \in {WriteReload, JustReload}
        /\ op.steps = Saves => op'.steps \in {LastWrite, <<>>}
    BY <1>j, <2>1, PlanTails DEF Truncate, Next1, Plans, ToReload, ToSave
  <2> QED  BY <1>j, <1>p, <2>1, <2>2, PlanGoesOn, PlansApart
           DEF Truncate, TypeOK, backend, history
<1>k. CASE Write
  <2>1. op.steps \in {WriteReload, LastWrite}
    BY <1>k, StepsDue, <1>s DEF Write
  <2>2. /\ op' \in [steps : Plans, key : {op.key}]
        /\ op.steps = WriteReload => op'.steps = JustReload
        /\ op.steps = LastWrite => op'.steps = <<>>
    BY <1>k, <2>1, PlanTails DEF Write, Next1, Plans, ToReload, ToSave
  <2> QED  BY <1>k, <1>p, <2>1, <2>2, PlanGoesOn, PlansApart DEF Write, TypeOK, backend
<1>l. CASE Reload
  <2>1. op.steps = JustReload
    BY <1>l, StepsDue, <1>s DEF Reload
  <2>2. op' \in [steps : Plans, key : {op.key}] /\ op'.steps = <<>>
    BY <1>l, <2>1, PlanTails DEF Reload, Next1, Plans
  <2> QED  BY <1>l, <1>p, <2>1, <2>2, PlanGoesOn, PlansApart, LoaderTyped
           DEF Reload, TypeOK, history
<1>m. CASE PluginStarts
  <2>1. /\ op' \in [steps : Plans, key : Keys \cup {NoKey}]
        /\ op'.steps \in {<<>>, Saves}
    BY <1>m DEF PluginStarts, NoOp, Plans, ToSave
  <2> QED  BY <1>m, <2>1, LoadedTyped, PlansApart, PlansAreSteps
           DEF PluginStarts, TypeOK, backend
<1>n. CASE PluginEnabled
  BY <1>n, LoaderTyped DEF PluginEnabled, TypeOK, history, Idle
<1>o. CASE PluginDisabled
  BY <1>n, <1>o, PlansApart DEF PluginDisabled, LoaderStop, TypeOK, history, Idle
<1>q. CASE PluginStops
  BY <1>q, PlansApart DEF PluginStops, TypeOK, backend, history, Idle
<1>r. CASE Crash
  <2>1. op' \in [steps : Plans, key : Keys \cup {NoKey}] /\ op'.steps = <<>>
    BY <1>r DEF Crash, NoOp, Plans
  <2> QED  BY <1>r, <2>1, PlansApart, PlansAreSteps DEF Crash, LoaderStop, TypeOK, Idle
<1>t. CASE UNCHANGED vars
  BY <1>t DEF vars, TypeOK, Idle
<1> QED
  BY <1>a, <1>b, <1>c, <1>d, <1>e, <1>f, <1>g, <1>h, <1>i, <1>j, <1>k, <1>l, <1>m, <1>n,
     <1>o, <1>q, <1>r, <1>t DEF Next

\* In every reachable state the settings, the stores and what is left of an
\* operation have their types, a plugin that is not enabled at most writes its
\* settings, and a stopped one does nothing.
THEOREM PlanInvariance == Spec => []PlanInv
<1>1. Init => PlanInv
  BY PlanInit
<1>2. PlanInv /\ [Next]_vars => PlanInv'
  BY PlanStep
<1> QED  BY <1>1, <1>2, PTL DEF Spec

\* Type correctness, of what a file of an older build makes of the settings too.
THEOREM TypeCorrect == Spec => []TypeOK
<1>1. PlanInv => TypeOK
  BY DEF PlanInv
<1> QED  BY <1>1, PlanInvariance, PTL

\* Only the panel's key is ever touched, and only while the plugin is enabled.
THEOREM OnlyThePanel == Spec => ProvidersApart
<1> DEFINE Apart == \A p \in Providers : Stored(p) # Stored(p)' => phase = "enabled" /\ p = Panel
<1>1. PlanInv /\ [Next]_vars => [Apart]_vars
  <2> SUFFICES ASSUME PlanInv, [Next]_vars, keys' # keys PROVE Apart
    BY DEF Apart, Stored, Service
  <2>p. Panel \in Providers /\ op.steps \in Plans /\ keys \in [Providers -> Keys \cup {NoKey}]
    BY PanelTyped DEF PlanInv, TypeOK
  <2>1. ASSUME At("remove") \/ At("add") \/ At("erase")
        PROVE  phase = "enabled"
    BY <2>1, <2>p, StepsDue, PlansApart DEF PlanInv
  <2>2. CASE Remove
    BY <2>2, <2>1, <2>p DEF Remove, Apart, Stored, Service
  <2>3. CASE Add
    BY <2>3, <2>1, <2>p DEF Add, Apart, Stored, Service
  <2>4. CASE Erase
    BY <2>4, <2>1, <2>p DEF Erase, Apart, Stored, Service
  <2> QED
    BY <2>2, <2>3, <2>4 DEF Next, vars, SaveKey, DeleteKey, PickProvider, PickModel, SetOther, Begins,
       AddFails, Truncate, Write, Reload, PluginStarts, PluginEnabled, PluginDisabled,
       PluginStops, Crash
<1>2. ProvidersApart <=> [][Apart]_vars
  BY DEF ProvidersApart, Apart
<1> HIDE DEF Apart
<1> QED  BY <1>1, <1>2, PlanInvariance, PTL DEF Spec

-----------------------------------------------------------------------------
(* The backend.  An operation that is past its reload or comes to none leaves *)
(* the backend as the provider chosen and its key would have it.              *)

FollowsInv ==
  phase = "enabled" /\ op.steps \notin ToReload =>
    /\ lm # NoLm => lm.prov = cfg.mode
    /\ cfg.mode \in Providers /\ ~unread => keys[cfg.mode] \in {NoKey, lm.key}

\* The loader makes it so.
LEMMA LoaderFollows ==
  ASSUME LoaderStart
  PROVE  /\ lm' # NoLm => lm'.prov = cfg.mode
         /\ cfg.mode \in Providers /\ ~unread' => keys[cfg.mode] \in {NoKey, lm'.key}
BY DEF LoaderStart, Stored, Service, NoLm

LEMMA FollowsStep == PlanInv /\ FollowsInv /\ [Next]_vars => FollowsInv'
<1> SUFFICES ASSUME PlanInv, FollowsInv, [Next]_vars PROVE FollowsInv'
  OBVIOUS
<1> USE DEF FollowsInv
<1>p. Panel \in Providers /\ op.steps \in Plans /\ keys \in [Providers -> Keys \cup {NoKey}]
      /\ cfg \in Settings /\ op \in [steps : Plans, key : Keys \cup {NoKey}]
  BY PanelTyped DEF PlanInv, TypeOK
<1>q. cfg.mode \in Providers => Panel = cfg.mode
  BY DEF Panel
<1>1. ASSUME NEW k \in Keys, SaveKey(k) PROVE FollowsInv'
  BY <1>1, PlansApart DEF SaveKey, Begins, Idle, backend, ToReload
<1>2. CASE DeleteKey
  BY <1>2, PlansApart DEF DeleteKey, Begins, Idle, backend, ToReload
<1>3. ASSUME NEW p \in Providers, PickProvider(p) PROVE FollowsInv'
  BY <1>3 DEF PickProvider, Begins, ToReload
<1>4. ASSUME NEW m \in Models, PickModel(m) PROVE FollowsInv'
  <2>1. cfg'.mode = cfg.mode
    BY <1>4, <1>p DEF PickModel, Settings
  <2> QED  BY <1>4, <2>1, PlansApart DEF PickModel, Begins, Idle, backend, ToReload
<1>5. CASE SetOther
  BY <1>5, PlansApart DEF SetOther, Begins, Idle, backend, ToReload
<1>6. CASE Remove
  <2>1. op.steps = Replacing
    BY <1>6, <1>p, StepsDue DEF Remove
  <2> QED  BY <1>6, <1>p, <1>q, <2>1, PlansApart DEF Remove, backend, Service, ToReload
<1>7. CASE Add
  <2>1. op'.steps = SaveReload
    BY <1>7, <1>p, StepsDue, PlanTails DEF Add, Next1
  <2> QED  BY <2>1 DEF ToReload
<1>8. CASE AddFails
  <2>1. op.steps = Adding
    BY <1>8, <1>p, StepsDue DEF AddFails
  <2> QED  BY <1>8, <2>1, PlansApart DEF AddFails, backend, ToReload
<1>9. CASE Erase
  <2>1. op'.steps = SaveReload
    BY <1>9, <1>p, StepsDue, PlanTails DEF Erase, Next1
  <2> QED  BY <2>1 DEF ToReload
<1>a. CASE Truncate
  <2>1. op.steps \in ToReload => op'.steps \in ToReload
    BY <1>a, <1>p, StepsDue, PlanTails, PlansApart DEF Truncate, Next1, ToReload
  <2> QED  BY <1>a, <2>1 DEF Truncate, backend
<1>b. CASE Write
  <2>1. op.steps \in ToReload => op'.steps \in ToReload
    BY <1>b, <1>p, StepsDue, PlanTails, PlansApart DEF Write, Next1, ToReload
  <2> QED  BY <1>b, <2>1 DEF Write, backend
<1>c. CASE Reload
  BY <1>c, LoaderFollows DEF Reload
<1>d. CASE PluginEnabled
  BY <1>d, LoaderFollows DEF PluginEnabled
<1>e. CASE PluginStarts \/ PluginDisabled \/ PluginStops \/ Crash
  BY <1>e DEF PluginStarts, PluginDisabled, PluginStops, Crash
<1>f. CASE UNCHANGED vars
  BY <1>f DEF vars
<1> QED
  BY <1>1, <1>2, <1>3, <1>4, <1>5, <1>6, <1>7, <1>8, <1>9, <1>a, <1>b, <1>c, <1>d, <1>e, <1>f DEF Next

\* Between operations the backend is of the provider chosen and has its key,
\* whatever failed or crashed before.
THEOREM BackendFollows == Spec => []BackendFollowsChoice
<1>1. Init => FollowsInv
  BY DEF Init, FollowsInv
<1>2. FollowsInv => BackendFollowsChoice
  BY PlansApart DEF FollowsInv, BackendFollowsChoice, Idle, ToReload, Stored, Service
<1> QED  BY <1>1, <1>2, PlanInvariance, FollowsStep, PTL DEF Spec

-----------------------------------------------------------------------------
(* The file.  Only an operation that has yet to write may leave it behind.  *)

FileInv ==
  /\ phase # "stopped" /\ ~unsaved /\ op.steps \notin ToSave => Loaded(file) = cfg
  /\ phase # "stopped" /\ unsaved => mishap

LEMMA FileStep == PlanInv /\ FileInv /\ [Next]_vars => FileInv'
<1> SUFFICES ASSUME PlanInv, FileInv, [Next]_vars PROVE FileInv'
  OBVIOUS
<1> USE DEF FileInv
<1>p. op.steps \in Plans /\ cfg \in Settings /\ op \in [steps : Plans, key : Keys \cup {NoKey}]
  BY DEF PlanInv, TypeOK
<1>m. mishap \in BOOLEAN
  BY DEF PlanInv, TypeOK
<1>u. ASSUME UNCHANGED file PROVE Loaded(file)' = Loaded(file)
  BY <1>u DEF Loaded
<1>1. ASSUME NEW k \in Keys, SaveKey(k) PROVE FileInv'
  BY <1>1, <1>u, PlansApart DEF SaveKey, Begins, Idle, history, ToSave
<1>2. CASE DeleteKey
  BY <1>2, <1>u, PlansApart DEF DeleteKey, Begins, Idle, history, ToSave
<1>3. ASSUME NEW p \in Providers, PickProvider(p) PROVE FileInv'
  BY <1>3 DEF PickProvider, Begins, history, ToSave
<1>4. ASSUME NEW m \in Models, PickModel(m) PROVE FileInv'
  BY <1>4 DEF PickModel, ModelSaves, Begins, history, ToSave
<1>5. CASE SetOther
  BY <1>5 DEF SetOther, Begins, history, ToSave
<1>6. CASE Remove
  <2>1. op.steps \notin ToSave
    BY <1>6, <1>p, StepsDue, PlansApart DEF Remove, ToSave
  <2> QED  BY <1>6, <1>u, <2>1 DEF Remove, history
<1>7. CASE Add
  <2>1. op'.steps = SaveReload
    BY <1>7, <1>p, StepsDue, PlanTails DEF Add, Next1
  <2> QED  BY <1>7, <2>1 DEF Add, ToSave, history
<1>8. CASE AddFails
  <2>1. op.steps \notin ToSave
    BY <1>8, <1>p, StepsDue, PlansApart DEF AddFails, ToSave
  <2> QED  BY <1>8, <1>u, <2>1 DEF AddFails
<1>9. CASE Erase
  <2>1. op'.steps = SaveReload
    BY <1>9, <1>p, StepsDue, PlanTails DEF Erase, Next1
  <2>2. mishap => mishap'
    BY <1>9, <1>m DEF Erase
  <2> QED  BY <1>9, <2>1, <2>2 DEF Erase, ToSave
<1>a. CASE Truncate
  <2>1. CASE Next1 /\ UNCHANGED history
    <3>1. op'.steps \in ToSave
      BY <1>a, <2>1, <1>p, StepsDue, PlanTails DEF Truncate, Next1, ToSave
    <3> QED  BY <1>a, <2>1, <3>1 DEF Truncate, history
  <2> QED  BY <1>a, <2>1 DEF Truncate
<1>b. CASE Write
  <2>1. CASE file' = Whole(cfg) /\ unsaved' = FALSE /\ UNCHANGED <<mishap, cfg, phase>>
    <3>1. Loaded(file)' = Loaded(Whole(cfg))
      BY <2>1 DEF Loaded
    <3> QED  BY <2>1, <3>1, <1>p, SavedIsLoaded
  <2> QED  BY <1>b, <2>1 DEF Write
<1>c. CASE Reload
  <2>1. op.steps \notin ToSave
    BY <1>c, <1>p, StepsDue, PlansApart DEF Reload, ToSave
  <2> QED  BY <1>c, <1>u, <2>1 DEF Reload, history
<1>d. CASE PluginStarts
  BY <1>d, <1>u DEF PluginStarts
<1>e. CASE PluginEnabled \/ PluginDisabled
  BY <1>e, <1>u DEF PluginEnabled, PluginDisabled, history
<1>f. CASE PluginStops \/ Crash
  BY <1>f DEF PluginStops, Crash
<1>g. CASE UNCHANGED vars
  BY <1>g, <1>u DEF vars
<1> QED
  BY <1>1, <1>2, <1>3, <1>4, <1>5, <1>6, <1>7, <1>8, <1>9, <1>a, <1>b, <1>c, <1>d, <1>e, <1>f, <1>g
  DEF Next

\* Between operations a restart finds the settings that are in memory, unless
\* they could not be written: whatever build left the file, and after any crash.
THEOREM FileIsMemory == Spec => []SettingsOnDisk
<1>1. Init => FileInv
  BY DEF Init, FileInv
<1>2. FileInv => SettingsOnDisk
  BY PlansApart DEF FileInv, SettingsOnDisk, Idle, ToSave
<1> QED  BY <1>1, <1>2, PlanInvariance, FileStep, PTL DEF Spec

-----------------------------------------------------------------------------
(* The flags.  A stopped plugin's are those of its file; while a key is      *)
(* replaced its own flag waits for the key.                                  *)

FlagInv ==
  ~mishap =>
    /\ phase = "stopped" => \A p \in Providers : Loaded(file).saved[p] <=> keys[p] # NoKey
    /\ phase # "stopped" =>
         \A p \in Providers : op.steps # Adding \/ p # Panel => (cfg.saved[p] <=> keys[p] # NoKey)

LEMMA FlagInit == Init => FlagInv
<1> SUFFICES ASSUME Init, ~mishap, NEW p \in Providers
             PROVE  Loaded(file).saved[p] <=> keys[p] # NoKey
  BY DEF Init, FlagInv
<1>1. CASE file = Broken
  BY <1>1 DEF Init, Loaded, Broken, Defaults
<1>2. CASE file # Broken
  <2>1. PICK mode \in Modes, known \in SUBSET Providers : \E models \in [known -> Models] :
          /\ \A q \in Providers : keys[q] # NoKey => q \in known
          /\ file = [whole |-> TRUE, mode |-> mode, model |-> models,
                     saved |-> [q \in known |-> keys[q] # NoKey]]
    BY <1>2 DEF Init
  <2>2. file.whole /\ file.saved = [q \in known |-> keys[q] # NoKey]
    BY <2>1
  <2>3. Loaded(file).saved = OrDefault(file.saved, Defaults.saved)
    BY <2>2 DEF Loaded
  <2>4. OrDefault(file.saved, Defaults.saved)[p] <=> p \in known /\ keys[p] # NoKey
    BY <2>2 DEF OrDefault, Defaults
  <2> QED  BY <2>1, <2>3, <2>4
<1> QED  BY <1>1, <1>2

LEMMA FlagStep == PlanInv /\ FileInv /\ FlagInv /\ [Next]_vars => FlagInv'
<1> SUFFICES ASSUME PlanInv, FileInv, FlagInv, [Next]_vars PROVE FlagInv'
  OBVIOUS
<1> USE DEF FlagInv
<1>p. /\ op.steps \in Plans /\ cfg \in Settings /\ op \in [steps : Plans, key : Keys \cup {NoKey}]
      /\ Panel \in Providers /\ keys \in [Providers -> Keys \cup {NoKey}]
      /\ phase = "stopped" => Idle
  BY PanelTyped DEF PlanInv, TypeOK
<1>m. mishap \in BOOLEAN
  BY DEF PlanInv, TypeOK
<1>s. ASSUME UNCHANGED <<cfg, keys, phase>>, op.steps # Adding, phase # "stopped", mishap => mishap'
      PROVE  FlagInv'
  BY <1>s DEF Panel
<1>1. ASSUME NEW k \in Keys, SaveKey(k) PROVE FlagInv'
  BY <1>1, <1>s, PlansApart DEF SaveKey, Begins, Idle, history
<1>2. CASE DeleteKey
  BY <1>2, <1>s, PlansApart DEF DeleteKey, Begins, Idle, history
<1>3. ASSUME NEW p \in Providers, PickProvider(p) PROVE FlagInv'
  <2>1. cfg'.saved = cfg.saved
    BY <1>3, <1>p DEF PickProvider, Settings
  <2> QED  BY <1>3, <2>1, PlansApart DEF PickProvider, Begins, Idle, history
<1>4. ASSUME NEW m \in Models, PickModel(m) PROVE FlagInv'
  <2>1. cfg'.saved = cfg.saved
    BY <1>4, <1>p DEF PickModel, Settings
  <2> QED  BY <1>4, <2>1, PlansApart DEF PickModel, Begins, Idle, history
<1>5. CASE SetOther
  BY <1>5, <1>s, PlansApart DEF SetOther, Begins, Idle, history
<1>6. CASE Remove
  <2>1. op'.steps = Adding /\ op.steps = Replacing /\ Panel' = Panel
    BY <1>6, <1>p, StepsDue, PlanTails DEF Remove, Next1, Panel
  <2>2. phase # "stopped"
    BY <2>1, <1>p, PlansApart DEF Idle
  <2> QED  BY <1>6, <1>p, <2>1, <2>2, PlansApart DEF Remove, history, Service
<1>7. CASE Add
  <2>1. op.steps = Adding /\ op'.steps = SaveReload
    BY <1>7, <1>p, StepsDue, PlanTails DEF Add, Next1
  <2>2. phase # "stopped" /\ op.key \in Keys /\ op.key # NoKey
    BY <2>1, <1>p, PlansApart, ConfigAssumption DEF Idle, PlanInv
  <2>3. /\ cfg'.saved = [cfg.saved EXCEPT ![Panel] = TRUE]
        /\ keys' = [keys EXCEPT ![Panel] = op.key]
    BY <1>7, <1>p DEF Add, Flag, Settings, Service
  <2> QED  BY <1>7, <1>p, <2>1, <2>2, <2>3, PlansApart DEF Add, history, Settings
<1>8. CASE AddFails
  <2>1. op.steps = Adding /\ phase # "stopped" /\ Panel' = Panel
    BY <1>8, <1>p, StepsDue, PlansApart DEF AddFails, Panel, Idle
  <2> QED  BY <1>8, <1>p, <2>1 DEF AddFails, Stored, Service
<1>9. CASE Erase
  <2>1. op.steps = Erasing /\ op'.steps = SaveReload
    BY <1>9, <1>p, StepsDue, PlanTails DEF Erase, Next1
  <2>2. phase # "stopped"
    BY <2>1, <1>p, PlansApart DEF Idle
  <2>3. cfg'.saved = [cfg.saved EXCEPT ![Panel] = FALSE] /\ cfg.saved \in [Providers -> BOOLEAN]
    BY <1>9, <1>p DEF Erase, Flag, Settings
  <2>4. ~mishap' => ~mishap /\ keys' = [keys EXCEPT ![Panel] = NoKey]
    <3>1. CASE keys' = [keys EXCEPT ![Service(Panel)] = NoKey] /\ UNCHANGED mishap
      BY <3>1 DEF Service
    <3>2. CASE UNCHANGED keys /\ mishap' = (mishap \/ Stored(Panel) # NoKey)
      BY <3>2, <1>m, <1>p DEF Stored, Service
    <3> QED  BY <1>9, <3>1, <3>2 DEF Erase
  <2>5. op.steps # Adding /\ phase' # "stopped"
    BY <1>9, <2>1, <2>2, PlansApart DEF Erase
  <2>6. ASSUME ~mishap', NEW p \in Providers PROVE cfg'.saved[p] <=> keys'[p] # NoKey
    BY <2>6, <1>p, <2>2, <2>3, <2>4, <2>5
  <2> QED  BY <2>5, <2>6
<1>a. CASE Truncate
  <2>1. op.steps # Adding /\ op.steps # <<>>
    BY <1>a, <1>p, StepsDue, PlansApart DEF Truncate
  <2> QED  BY <1>a, <1>p, <1>s, <2>1 DEF Truncate, history, Idle
<1>b. CASE Write
  <2>1. op.steps # Adding /\ op.steps # <<>>
    BY <1>b, <1>p, StepsDue, PlansApart DEF Write
  <2> QED  BY <1>b, <1>p, <1>s, <2>1 DEF Write, Idle
<1>c. CASE Reload
  <2>1. op.steps # Adding /\ op.steps # <<>>
    BY <1>c, <1>p, StepsDue, PlansApart DEF Reload
  <2> QED  BY <1>c, <1>p, <1>s, <2>1 DEF Reload, history, Idle
<1>d. CASE PluginStarts
  BY <1>d DEF PluginStarts
<1>e. CASE PluginEnabled \/ PluginDisabled
  <2>1. op.steps # Adding
    BY <1>e, PlansApart DEF PluginEnabled, PluginDisabled, Idle
  <2> QED  BY <1>e, <1>s, <2>1 DEF PluginEnabled, PluginDisabled, history
<1>f. CASE PluginStops \/ Crash
  <2> SUFFICES ASSUME ~mishap' PROVE FlagInv'
    OBVIOUS
  <2>1. Idle /\ phase # "stopped" /\ phase' = "stopped" /\ UNCHANGED <<file, keys>> /\ ~mishap
    <3>1. CASE PluginStops
      BY <3>1 DEF PluginStops, history
    <3>2. CASE Crash
      BY <3>2, <1>m DEF Crash
    <3> QED  BY <1>f, <3>1, <3>2
  <2>2. Loaded(file)' = cfg
    BY <2>1, PlansApart DEF FileInv, Loaded, Idle, ToSave
  <2> QED  BY <2>1, <2>2, PlansApart DEF Idle
<1>g. CASE UNCHANGED vars
  BY <1>g DEF vars, Panel, Loaded
<1> QED
  BY <1>1, <1>2, <1>3, <1>4, <1>5, <1>6, <1>7, <1>8, <1>9, <1>a, <1>b, <1>c, <1>d, <1>e, <1>f, <1>g
  DEF Next

\* As long as nothing that flags and keys depend on failed or was cut off, the
\* flag of a provider says whether the store has its key, also after restarts.
THEOREM FlagsTellKeys == Spec => []FlagTellsKey
<1>1. Init => FileInv
  BY DEF Init, FileInv
<1>2. FlagInv => FlagTellsKey
  BY PlansApart DEF FlagInv, FlagTellsKey, Idle, Stored, Service
<1> QED  BY <1>1, <1>2, FlagInit, PlanInvariance, FileStep, FlagStep, PTL DEF Spec
=============================================================================
