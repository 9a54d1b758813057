------------------------------ MODULE Plugins -------------------------------
(* The plugin centre over the settings: handler/plugin.go, the registry and   *)
(* the adapters of internal/plugin, service/external_plugin.go.  An external  *)
(* plugin is a row of external_plugins, a record in the registry and an entry *)
(* of the health cache.  The built-in plugin is the subtitle module: switching *)
(* it is a patch of the subtitle configuration.                               *)
EXTENDS Settings

CONSTANTS Id, Version   \* external plugins; their manifests, each with its healthUrl

ASSUME PluginsAssumption == None \notin Id

VARIABLES
    table,              \* external_plugins: version and enabled, or None
    registry,           \* the registry's record of each plugin, or None
    centre,             \* requests of the plugin centre
    astray,             \* history: plugins whose record may differ from the row
    health, flying,     \* the health cache; probes under way
    list                \* the status that the list of plugins is asking for, or None

pluginVars == <<table, registry, centre, astray, health, flying, list>>
vars == <<settingsVars, pluginVars>>

PluginRecord == [ver : Version, enabled : BOOLEAN]
IdleCentre == [at |-> "idle", id |-> None, rec |-> None, on |-> FALSE, detached |-> FALSE]
NoEntry == [there |-> FALSE, url |-> None, fresh |-> FALSE, fetching |-> FALSE]
NoProbe == [x \in Id \X Version |-> 0]

PluginsInit ==
    /\ table = [i \in Id |-> None] /\ registry = [i \in Id |-> None]
    /\ centre = [a \in Admin |-> IdleCentre] /\ astray = {}
    /\ health = [i \in Id |-> NoEntry] /\ flying = NoProbe /\ list = None

Init == SettingsInit /\ PluginsInit

ToCentre(a, rec) == centre' = [centre EXCEPT ![a] = rec]
Advance(a, at) == ToCentre(a, [centre[a] EXCEPT !.at = at])
Busy(i) == \E a \in Admin : centre[a].id = i
healthVars == <<health, flying, list>>
keptSettings == <<rows, cache, reader, request, configVars, breakerVars>>

\* A request on a plugin starts; from two at once record and row may differ.
Begin(a, i, rec) ==
    /\ centre[a].at = "idle" /\ Spend("plugin")
    /\ ToCentre(a, rec)
    /\ astray' = IF Busy(i) THEN astray \cup {i} ELSE astray
    /\ UNCHANGED <<keptSettings, table, registry, healthVars>>

\* A statement of a request fails: the request ends there.
Fails(a) == Spend("fault") /\ ToCentre(a, IdleCentre)

-----------------------------------------------------------------------------
(* Import: the row is looked for, saved or created, the health cache emptied   *)
(* after an upgrade, then the record replaced or registered.                   *)

\* A manifest that ParseManifest accepts, with an identifier that no built-in plugin has.
Manifest == [id : Id, ver : Version]

\* An upgrade keeps the switch as the row has it.  (Without overwrite a plugin that
\* exists is refused.)
Import(a, m) ==
    LET row == table[m.id] IN
    Begin(a, m.id, [IdleCentre EXCEPT
        !.at = IF row = None THEN "create" ELSE "save", !.id = m.id,
        !.rec = [ver |-> m.ver, enabled |-> IF row = None THEN TRUE ELSE row.enabled]])

CreateRow(a) ==
    /\ centre[a].at = "create"
    /\ \/ /\ table[centre[a].id] = None
          /\ table' = [table EXCEPT ![centre[a].id] = centre[a].rec]
          /\ Advance(a, "register") /\ UNCHANGED plan
       \/ table[centre[a].id] # None /\ ToCentre(a, IdleCentre) /\ UNCHANGED <<table, plan>>
       \/ Fails(a) /\ UNCHANGED table
    /\ UNCHANGED <<keptSettings, registry, astray, healthVars>>

\* Save inserts the row again when it has been deleted meanwhile; for a switch that is off
\* the insert takes the default of the column, which is on.
Saved(a) ==
    IF table[centre[a].id] = None THEN [centre[a].rec EXCEPT !.enabled = TRUE] ELSE centre[a].rec

SaveRow(a) ==
    /\ centre[a].at = "save"
    /\ \/ /\ table' = [table EXCEPT ![centre[a].id] = Saved(a)]
          /\ ToCentre(a, [centre[a] EXCEPT !.at = "upgraded", !.rec = Saved(a)])
          /\ UNCHANGED plan
       \/ Fails(a) /\ UNCHANGED table
    /\ UNCHANGED <<keptSettings, registry, astray, healthVars>>

\* Mutant of Dropped: the entry's result goes, a probe under way stays noted.
DroppedResult(e) == [NoEntry EXCEPT !.fetching = e.fetching]
Dropped(e) == NoEntry

\* invalidateHealthCache, after an upgrade and after the deletion of a row.
ForgetHealth(a) ==
    /\ centre[a].at \in {"upgraded", "deleted"}
    /\ health' = [health EXCEPT ![centre[a].id] = Dropped(@)]
    /\ Advance(a, IF centre[a].at = "upgraded" THEN "replace" ELSE "unregister")
    /\ UNCHANGED <<keptSettings, plan, table, registry, astray, flying, list>>

\* Mutant of Replaces: an upgrade leaves the record as it is.
ReplacesNothing(a) == FALSE
Replaces(a) == centre[a].at = "replace"

\* The record is replaced in place, or registered; registering a second one is an error.
SyncRegistry(a) ==
    LET i == centre[a].id IN
    /\ centre[a].at \in {"replace", "register"}
    /\ registry' = IF registry[i] = None \/ Replaces(a)
                   THEN [registry EXCEPT ![i] = centre[a].rec] ELSE registry
    /\ ToCentre(a, IdleCentre)
    /\ UNCHANGED <<keptSettings, plan, table, astray, healthVars>>

-----------------------------------------------------------------------------
(* Deleting and switching.  Both need the registry's record: what is not in    *)
(* the registry is not found.                                                  *)

Delete(a, i) == registry[i] # None /\ Begin(a, i, [IdleCentre EXCEPT !.at = "delete", !.id = i])

DeleteRow(a) ==
    /\ centre[a].at = "delete"
    /\ \/ /\ table' = [table EXCEPT ![centre[a].id] = None]
          /\ Advance(a, "deleted") /\ UNCHANGED plan
       \/ Fails(a) /\ UNCHANGED table
    /\ UNCHANGED <<keptSettings, registry, astray, healthVars>>

\* A switch under way keeps the record it has taken, which is in no registry any more.
Unregister(a) ==
    LET i == centre[a].id IN
    /\ centre[a].at = "unregister"
    /\ registry' = [registry EXCEPT ![i] = None]
    /\ centre' = [b \in Admin |->
           IF b = a THEN IdleCentre
           ELSE IF centre[b].id = i /\ centre[b].at \in {"switch", "flag"}
           THEN [centre[b] EXCEPT !.detached = TRUE] ELSE centre[b]]
    /\ UNCHANGED <<keptSettings, plan, table, astray, healthVars>>

SetEnabled(a, i, on) ==
    /\ registry[i] # None
    /\ Begin(a, i, [IdleCentre EXCEPT !.at = "switch", !.id = i, !.on = on])

\* No row, or the statement fails: an error, and the record keeps its switch.
SwitchRow(a) ==
    LET i == centre[a].id IN
    /\ centre[a].at = "switch"
    /\ \/ /\ table[i] # None
          /\ table' = [table EXCEPT ![i].enabled = centre[a].on]
          /\ Advance(a, "flag") /\ UNCHANGED plan
       \/ table[i] = None /\ ToCentre(a, IdleCentre) /\ UNCHANGED <<table, plan>>
       \/ Fails(a) /\ UNCHANGED table
    /\ UNCHANGED <<keptSettings, registry, astray, healthVars>>

SwitchRecord(a) ==
    LET i == centre[a].id IN
    /\ centre[a].at = "flag"
    /\ registry' = IF centre[a].detached \/ registry[i] = None THEN registry
                   ELSE [registry EXCEPT ![i].enabled = centre[a].on]
    /\ ToCentre(a, IdleCentre)
    /\ UNCHANGED <<keptSettings, plan, table, astray, healthVars>>

-----------------------------------------------------------------------------
(* The list of plugins asks each for its status: the record is read under its  *)
(* lock, then the health cache asked under its own, which starts a probe when  *)
(* its entry is not fresh and none is under way.                               *)

unlisted == <<keptSettings, plan, table, registry, centre, astray>>

ReadRecord(i) ==
    /\ list = None /\ "list" \in plan.traffic
    /\ registry[i] # None /\ registry[i].enabled
    /\ list' = [id |-> i, url |-> registry[i].ver]
    /\ UNCHANGED <<unlisted, health, flying>>

NeedsFetch(e) == ~e.fresh /\ ~e.fetching

AskHealth ==
    /\ list # None
    /\ LET e == health[list.id] IN
       /\ health' = [health EXCEPT ![list.id].there = TRUE,
                                   ![list.id].fetching = e.fetching \/ NeedsFetch(e)]
       /\ flying' = IF NeedsFetch(e)
                    THEN [flying EXCEPT ![<<list.id, list.url>>] = @ + 1] ELSE flying
    /\ list' = None
    /\ UNCHANGED unlisted

\* A probe ends, within its timeout: its result goes to the entry there is by then.
ProbeEnds(i, v) ==
    /\ flying[i, v] > 0
    /\ flying' = [flying EXCEPT ![<<i, v>>] = @ - 1]
    /\ health' = IF health[i].there
                 THEN [health EXCEPT ![i] = [there |-> TRUE, url |-> v, fresh |-> TRUE,
                                             fetching |-> FALSE]]
                 ELSE health
    /\ UNCHANGED <<unlisted, list>>

HealthExpires(i) ==
    /\ health[i].fresh
    /\ health' = [health EXCEPT ![i].fresh = FALSE]
    /\ UNCHANGED <<unlisted, flying, list>>

-----------------------------------------------------------------------------
\* A start registers what the table holds; when that query fails it goes on without.
Restart ==
    /\ RestartSettings
    /\ \/ registry' = table /\ astray' = {}
       \/ registry' = [i \in Id |-> None] /\ astray' = {i \in Id : table[i] # None}
    /\ centre' = [a \in Admin |-> IdleCentre]
    /\ health' = [i \in Id |-> NoEntry] /\ flying' = NoProbe /\ list' = None
    /\ UNCHANGED table

CentreStep(a) ==
    \/ CreateRow(a) \/ SaveRow(a) \/ ForgetHealth(a) \/ SyncRegistry(a)
    \/ DeleteRow(a) \/ Unregister(a) \/ SwitchRow(a) \/ SwitchRecord(a)

ListStep == AskHealth \/ \E i \in Id : ReadRecord(i) \/ HealthExpires(i)

Next ==
    \/ SettingsNext /\ UNCHANGED pluginVars
    \/ \E a \in Admin, m \in Manifest : Import(a, m)
    \/ \E a \in Admin, i \in Id :
          \/ Delete(a, i)
          \/ \E on \in BOOLEAN : SetEnabled(a, i, on)
    \/ \E a \in Admin : CentreStep(a)
    \/ ListStep
    \/ \E i \in Id, v \in Version : ProbeEnds(i, v)
    \/ Restart

\* The page lists every plugin again and again; a probe has a timeout; entries expire.
Fairness ==
    /\ SettingsFairness
    /\ \A i \in Id : SF_vars(ReadRecord(i)) /\ WF_vars(HealthExpires(i))
    /\ WF_vars(AskHealth)
    /\ \A i \in Id, v \in Version : WF_vars(ProbeEnds(i, v))

Spec == Init /\ [][Next]_vars /\ Fairness

-----------------------------------------------------------------------------
\* The type invariant.
TypeOK ==
    /\ SettingsTypeOK
    /\ table \in [Id -> PluginRecord \cup {None}] /\ registry \in [Id -> PluginRecord \cup {None}]
    /\ \A a \in Admin : centre[a].id \in Id \cup {None}
    /\ health \in [Id -> [there : BOOLEAN, url : Version \cup {None}, fresh : BOOLEAN,
                          fetching : BOOLEAN]]
    /\ \A x \in Id \X Version : flying[x] \in Nat
    /\ \A i \in Id : health[i].fetching => health[i].there

\* A plugin on which no request is at work is in the registry as a start would load it,
\* through failed statements and restarts, unless two requests on it overlapped.
RegistryFollowsTable == \A i \in Id : ~Busy(i) /\ i \notin astray => registry[i] = table[i]

\* What the process keeps in memory of its tables is what a start would read.
MemoryFollowsTables == ConfigFollowsRows /\ RegistryFollowsTable

\* The health that the list shows of an enabled plugin becomes that of its present URL:
\* a probe of an earlier one that ends after the upgrade is corrected after the TTL.
HealthIsCurrent ==
    \A i \in Id : <>[](registry[i] # None /\ registry[i].enabled /\ "list" \in plan.traffic
                       => health[i].url = registry[i].ver)

\* No stale copy is served for good, be it of a setting or of a plugin's health.
StaleIsTemporary == SettingsAreServed /\ HealthIsCurrent
=============================================================================
