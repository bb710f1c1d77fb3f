---------------------------- MODULE ControlPlane ----------------------------
(***************************************************************************)
(* The operator's side of the program: the settings every other part       *)
(* reads, the routes that change them (api/routes/config, control,         *)
(* strategies, credentials), the one row of config_snapshots they are      *)
(* saved to (services/config_service, storage/repositories/                *)
(* config_snapshots), and the boot that builds the kill switch and the     *)
(* breaker from the environment and then loads the row                     *)
(* (runtime/app_bootstrap).                                                *)
(*                                                                         *)
(* A handler runs without a yield up to the await of its save: the edit    *)
(* and the payload are one step, the commit of the payload a later one.    *)
(* Saves of two requests may overlap and commit in either order.           *)
(***************************************************************************)
EXTENDS Naturals, FiniteSets, SequencesExt

CONSTANTS
    Adapters,      \* names in the adapter registry
    Strategies,    \* ids in strategy/registry.py
    Planned,       \* those whose status is PLANNED
    MinExchanges,  \* per strategy, from the registry
    MaxExchanges,
    RunModes,      \* values of mode, "live" among them
    Limits,        \* values of max_consecutive_failures within its _BOUNDS
    EnvTweaks,     \* what the environment says of the editable keys
    EnvEnabled,    \* and of the strategies
    EnvSelected,
    NoRow,         \* the snapshot before the first save
    MaxWrites,     \* bound on the saves in flight
    MaxRequests    \* bound on the requests of a behaviour

\* The editable keys the rest of the program treats differently: two flags, a
\* literal and a bounded number stand for the forty others of their kind.  The
\* environment's number need not be within the bounds.
Tweaks ==
    [kill_switch : BOOLEAN, paused : BOOLEAN, mode : RunModes,
     max_consecutive_failures : Limits \union {EnvTweaks.max_consecutive_failures}]

\* An exchange list of the right length, of a strategy that has an implementation.
WellBound(s, sel) ==
    /\ s \notin Planned
    /\ MinExchanges[s] <= Cardinality(sel)
    /\ Cardinality(sel) <= MaxExchanges[s]

\* The payloads of the settings.
Payloads ==
    [tweaks : Tweaks, enabled : [Strategies -> BOOLEAN],
     selected : [Strategies -> SUBSET Adapters]]

ASSUME ControlAssumption ==
    /\ NoRow \notin Payloads
    /\ Planned \subseteq Strategies
    /\ MinExchanges \in [Strategies -> Nat] /\ MaxExchanges \in [Strategies -> Nat]
    /\ EnvTweaks \in Tweaks
    /\ EnvEnabled \in [Strategies -> BOOLEAN]
    /\ EnvSelected \in [Strategies -> SUBSET Adapters]
    /\ \A s \in Strategies : EnvEnabled[s] => WellBound(s, EnvSelected[s])
    /\ MaxWrites \in Nat /\ MaxRequests \in Nat

VARIABLES
    phase,     \* "down", "built": _build_container has run, "up": serving
    tweaks,    \* the editable keys of the settings
    enabled,   \* strategy_{id}_enabled
    selected,  \* strategy_{id}_exchanges
    keys,      \* the exchanges whose credentials the settings hold
    envKeys,   \* and those the .env file holds
    kill,      \* KillSwitch._on
    limit,     \* CircuitBreaker's max_consecutive_failures
    wired,     \* the repository is attached
    row,       \* the payload of the "current" row, or NoRow
    writing,   \* the payloads of the saves in flight, oldest first
    order,     \* the last order about the kill switch that was accepted since boot
    excused,   \* why a restart may now bring back something else, if it may
    requests   \* how many requests there have been

settingsVars == <<tweaks, enabled, selected, keys>>
storeVars == <<row, writing, wired, excused>>
planeVars == <<phase, settingsVars, envKeys, kill, limit, storeVars, order, requests>>

\* Mutant: the strategies' fields are not among the persistent keys.
EditablePayload(t, e, s) == [tweaks |-> t, enabled |-> EnvEnabled, selected |-> EnvSelected]

\* The value of every persistent key: the editable ones and the strategies'.
Payload(t, e, s) == [tweaks |-> t, enabled |-> e, selected |-> s]

ControlInit ==
    /\ phase = "down"
    /\ tweaks = EnvTweaks /\ enabled = EnvEnabled /\ selected = EnvSelected
    /\ envKeys \in SUBSET Adapters
    /\ keys = envKeys
    /\ kill = EnvTweaks.kill_switch
    /\ limit = EnvTweaks.max_consecutive_failures
    /\ wired = FALSE
    /\ row = NoRow
    /\ writing = <<>>
    /\ order = "none"
    /\ excused = {}
    /\ requests = 0

-----------------------------------------------------------------------------
(* Boot and restart. *)

\* Settings() reads the environment, and _build_container reads the settings.
Build ==
    /\ phase = "down"
    /\ phase' = "built"
    /\ tweaks' = EnvTweaks /\ enabled' = EnvEnabled /\ selected' = EnvSelected
    /\ keys' = envKeys
    /\ kill' = EnvTweaks.kill_switch
    /\ limit' = EnvTweaks.max_consecutive_failures
    /\ order' = "none"
    /\ UNCHANGED <<envKeys, storeVars, requests>>

\* The row's values; a number _validate refuses is skipped and the environment's
\* stays.
Restored ==
    [row.tweaks EXCEPT !.max_consecutive_failures =
        IF @ \in Limits THEN @ ELSE EnvTweaks.max_consecutive_failures]

\* load_from_db applies the row, if there is one, to the settings.
Load ==
    /\ phase = "built"
    /\ phase' = "up"
    /\ wired' = TRUE
    /\ excused' = {}
    /\ IF row = NoRow
        THEN UNCHANGED <<tweaks, enabled, selected>>
        ELSE /\ tweaks' = Restored
             /\ enabled' = row.enabled
             /\ selected' = row.selected
    /\ UNCHANGED <<keys, envKeys, kill, limit, row, writing, order, requests>>

\* The load fails, or there is no database and nothing to attach.
BootWithoutRow ==
    /\ phase = "built"
    /\ phase' = "up"
    /\ wired' \in BOOLEAN
    /\ excused' = {"not loaded"}
    /\ UNCHANGED <<settingsVars, envKeys, kill, limit, row, writing, order, requests>>

\* The process stops; a save that has not committed is lost.
Crash ==
    /\ phase # "down"
    /\ phase' = "down"
    /\ wired' = FALSE
    /\ writing' = <<>>
    /\ UNCHANGED <<settingsVars, envKeys, kill, limit, row, order, excused, requests>>

-----------------------------------------------------------------------------
(* The snapshot. *)

\* Takes the payload, the current value of every persistent key, and starts the
\* save; without a repository it does nothing.
Persist(t, e, s) ==
    IF wired
      THEN /\ Len(writing) < MaxWrites
           /\ writing' = Append(writing, Payload(t, e, s))
           /\ excused' = {}
      ELSE /\ excused' = excused \union {"no database"}
           /\ UNCHANGED writing

\* An older save still in flight will replace what this one commits.
Commit(i) ==
    /\ row' = writing[i]
    /\ writing' = RemoveAt(writing, i)
    /\ excused' = IF i > 1 THEN excused \union {"out of order"} ELSE excused
    /\ UNCHANGED <<phase, settingsVars, envKeys, kill, limit, wired, order, requests>>

\* persist swallows the error, a second insert of the same key among them.
SaveFails(i) ==
    /\ writing' = RemoveAt(writing, i)
    /\ excused' = IF i = Len(writing) THEN excused \union {"save failed"} ELSE excused
    /\ UNCHANGED <<phase, settingsVars, envKeys, kill, limit, wired, row, order, requests>>

-----------------------------------------------------------------------------
(* POST /config. *)

Request ==
    /\ phase = "up"
    /\ requests < MaxRequests
    /\ requests' = requests + 1
    /\ UNCHANGED <<phase, limit, wired, row>>

OnOff(on) == IF on THEN "on" ELSE "off"

\* What update makes of the settings, key by key, up to the end of the batch or to
\* its first bad value: the number it leaves alone may be out of bounds.
Updated ==
    {t \in Tweaks : t.max_consecutive_failures
                        \in Limits \union {tweaks.max_consecutive_failures}}

\* A bad value in the batch answers 400: what was applied before it stays, and
\* neither reaches the kill switch nor the snapshot.
PostConfigRejected(t) ==
    /\ Request
    /\ tweaks' = t
    /\ excused' = IF t = tweaks THEN excused ELSE excused \union {"partly applied"}
    /\ UNCHANGED <<enabled, selected, keys, envKeys, kill, writing, order>>

\* A batch that names the kill switch, whether or not it changes the setting,
\* sets the switch too.
PostConfig(t, namesKill) ==
    /\ t.kill_switch # tweaks.kill_switch => namesKill
    /\ Request
    /\ tweaks' = t
    /\ IF namesKill
        THEN kill' = t.kill_switch /\ order' = OnOff(t.kill_switch)
        ELSE UNCHANGED <<kill, order>>
    /\ Persist(t, enabled, selected)
    /\ UNCHANGED <<enabled, selected, keys, envKeys>>

-----------------------------------------------------------------------------
(* POST /control: none of these saves. *)

\* A control route sets settings in memory only.
Tweak(t) ==
    /\ Request
    /\ tweaks' = t
    /\ excused' = excused \union {"not saved"}
    /\ UNCHANGED <<enabled, selected, keys, envKeys, writing>>

Pause == Tweak([tweaks EXCEPT !.paused = TRUE]) /\ UNCHANGED <<kill, order>>

\* resume takes an optional mode.
Resume ==
    /\ \E mode \in RunModes \union {tweaks.mode} :
          Tweak([tweaks EXCEPT !.paused = FALSE, !.mode = mode])
    /\ UNCHANGED <<kill, order>>

SwitchMode ==
    /\ \E mode \in RunModes : Tweak([tweaks EXCEPT !.mode = mode])
    /\ UNCHANGED <<kill, order>>

\* kill-switch/on and kill-switch/off.
SetKillSwitch(on) ==
    /\ Tweak([tweaks EXCEPT !.kill_switch = on])
    /\ kill' = on
    /\ order' = OnOff(on)

\* Mutant: reload-config hands the reloaded flag to the kill switch.
ReloadKillSwitch ==
    /\ Tweak(EnvTweaks)
    /\ kill' = EnvTweaks.kill_switch
    /\ UNCHANGED order

\* reload-config copies the environment over every editable key.
ReloadConfig == Tweak(EnvTweaks) /\ UNCHANGED <<kill, order>>

-----------------------------------------------------------------------------
(* /strategies and /exchanges/{name}/credentials. *)

\* _validate_exchange_selection: the count, and in live mode the credentials.
Selectable(s, sel) ==
    /\ MinExchanges[s] <= Cardinality(sel)
    /\ Cardinality(sel) <= MaxExchanges[s]
    /\ tweaks.mode = "live" => sel \subseteq keys

SetStrategy(s, on, sel) ==
    /\ Request
    /\ enabled' = [enabled EXCEPT ![s] = on]
    /\ selected' = [selected EXCEPT ![s] = sel]
    /\ Persist(tweaks, enabled', selected')
    /\ UNCHANGED <<tweaks, keys, envKeys, kill, order>>

Enable(s) ==
    /\ s \notin Planned
    /\ Selectable(s, selected[s])
    /\ SetStrategy(s, TRUE, selected[s])

Disable(s) == SetStrategy(s, FALSE, selected[s])

\* Mutant: a list for a strategy that is on already is not counted.
ConfigureUncounted(s, on, sel) ==
    /\ on => s \notin Planned /\ (enabled[s] \/ Selectable(s, sel))
    /\ SetStrategy(s, on, sel)

\* Atomic enable and bind: a list is counted only when the strategy goes on.
Configure(s, on, sel) ==
    /\ on => s \notin Planned /\ Selectable(s, sel)
    /\ SetStrategy(s, on, sel)

SelectExchanges(s, sel) ==
    /\ Selectable(s, sel)
    /\ SetStrategy(s, enabled[s], sel)

\* update_credentials completes or removes the key pair of one exchange: the
\* file first, then the settings, with no yield between the two.
UpdateCredentials(x) ==
    /\ Request
    /\ envKeys' \in {envKeys \union {x}, envKeys \ {x}}
    /\ keys' = IF x \in envKeys' THEN keys \union {x} ELSE keys \ {x}
    /\ UNCHANGED <<tweaks, enabled, selected, kill, writing, order, excused>>

ControlNext ==
    \/ Build \/ Load \/ BootWithoutRow \/ Crash
    \/ \E i \in DOMAIN writing : Commit(i) \/ SaveFails(i)
    \/ \E t \in Updated :
        PostConfigRejected(t) \/ \E namesKill \in BOOLEAN : PostConfig(t, namesKill)
    \/ Pause \/ Resume \/ SwitchMode \/ ReloadConfig
    \/ \E on \in BOOLEAN : SetKillSwitch(on)
    \/ \E s \in Strategies :
        \/ Enable(s) \/ Disable(s)
        \/ \E sel \in SUBSET Adapters :
            SelectExchanges(s, sel) \/ \E on \in BOOLEAN : Configure(s, on, sel)
    \/ \E x \in Adapters : UpdateCredentials(x)

ControlSpec == ControlInit /\ [][ControlNext]_planeVars

-----------------------------------------------------------------------------
(* Properties. *)

ControlTypeOK ==
    /\ phase \in {"down", "built", "up"}
    /\ tweaks \in Tweaks
    /\ enabled \in [Strategies -> BOOLEAN]
    /\ selected \in [Strategies -> SUBSET Adapters]
    /\ keys \in SUBSET Adapters
    /\ envKeys \in SUBSET Adapters
    /\ kill \in BOOLEAN
    /\ limit \in Limits \union {EnvTweaks.max_consecutive_failures}
    /\ wired \in BOOLEAN
    /\ order \in {"none", "on", "off"}
    /\ requests \in Nat

\* Every enabled strategy of these settings has an implementation and a legal
\* number of exchanges.
Bound(e, sel) == \A s \in Strategies : e[s] => WellBound(s, sel[s])

\* The scanners take the selection of an enabled strategy as it is: it is legal in
\* the settings, in the row a restart will load and in every save that may still
\* reach the row, whichever routes (enable, configure with enabled false, a bare
\* list of exchanges) built it up and in whatever order the saves commit.
EnabledHasItsExchanges ==
    /\ Bound(enabled, selected)
    /\ row # NoRow => Bound(row.enabled, row.selected)
    /\ \A i \in DOMAIN writing : Bound(writing[i].enabled, writing[i].selected)

\* config_service.py: operator edits survive a restart.  What they survive with:
\* when no save is in flight and, since the last save was started, none failed
\* or was overtaken, no control route changed a setting and no batch was
\* refused midway, a boot now would bring back exactly the settings in force,
\* values the environment gave and _validate would refuse included.
RestartRestores ==
    phase = "up" /\ writing = <<>> /\ excused = {} =>
        /\ keys = envKeys
        /\ IF row = NoRow
            THEN tweaks = EnvTweaks /\ enabled = EnvEnabled /\ selected = EnvSelected
            ELSE /\ tweaks = Restored
                 /\ enabled = row.enabled
                 /\ selected = row.selected

\* Once an order about the kill switch was accepted, by /control or by /config,
\* the switch stays as ordered until the next such order or a restart: a
\* reloaded environment, a refused batch that names it and a late save leave it.
KillSwitchAsOrdered ==
    phase = "up" /\ order # "none" => (kill <=> order = "on")

\* app_bootstrap.py: the snapshot is loaded before the scanners start so that the
\* operator's last-saved selections, thresholds among them, are "in effect from the
\* very first scan cycle".  Once the row is loaded, the kill switch and the breaker
\* are as it says.  They are not: both were built from the environment.
SavedSettingsInEffect ==
    [][phase = "built" /\ phase' = "up" /\ row # NoRow /\ excused' = {} =>
        /\ kill' <=> row.tweaks.kill_switch
        /\ limit' = tweaks'.max_consecutive_failures]_planeVars

=============================================================================
