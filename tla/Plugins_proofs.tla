--------------------------- MODULE Plugins_proofs ---------------------------
(***************************************************************************)
(* Type correctness and MemoryFollowsTables, for any number of             *)
(* administrators, fields and plugins and for any bounds.  The property    *)
(* speaks of fields and plugins at rest; the invariant adds what holds     *)
(* while a request is at work on one.                                      *)
(***************************************************************************)
EXTENDS Plugins, TLAPS

-----------------------------------------------------------------------------
(* The subtitle configuration.                                             *)

Requests ==
    [at : {"idle", "write", "invalidate", "commit", "restored"}, key : Key \cup {None},
     val : Values \cup {None}, found : BOOLEAN, patch : Patches \cup {<<>>}]

\* The columns that the requests leave behind, and what a request carries.
Shape ==
    /\ rows \in [Key \cup Field -> Values \cup {"default", "new", "", None}]
    /\ cfg \in [Field -> {"env", "default", "new", ""}]
    /\ \A f \in Field : rows[f] \in {"default", "new", "", None}
    /\ cfgMu \in Admin \cup {NoAdmin} /\ torn \subseteq Field
    /\ request \in [Admin -> Requests]
    /\ \A a \in Admin : /\ request[a].at = "write" => request[a].key \in Key
                        /\ request[a].at = "commit" => request[a].patch \in Patches

\* A patch that is to commit is the one that holds the lock.
LockHeld == \A a \in Admin : request[a].at = "commit" <=> cfgMu = a

\* While it does, the fields it names are in memory as it will write them, torn or not,
\* and the others as their rows have them.
PatchAhead ==
    \A a \in Admin : cfgMu = a =>
        \A f \in Field :
            IF f \in DOMAIN request[a].patch THEN cfg[f] = Normal(f, request[a].patch[f])
            ELSE f \notin torn => cfg[f] = Effective(f)

ConfigInv == Shape /\ LockHeld /\ PatchAhead /\ ConfigFollowsRows

\* What a patch writes is read back as it is in memory.
LEMMA WrittenIsRead ==
    ASSUME NEW f \in Field, NEW t \in Text, rows[f] = Normal(f, t)
    PROVE  Effective(f) = Normal(f, t)
BY SettingsAssumption DEF Effective, Normal, Text

LEMMA NormalText ==
    ASSUME NEW f \in Field, NEW t \in Text
    PROVE  Normal(f, t) \in {"default", "new", ""}
BY DEF Normal, Text

\* A patch names some fields and gives each a text.
LEMMA PatchFields ==
    ASSUME NEW p \in Patches
    PROVE  /\ DOMAIN p \subseteq Field
           /\ \A f \in DOMAIN p : p[f] \in Text
BY DEF Patches

LEMMA ConfigInit == SettingsInit => ConfigInv
<1> SUFFICES ASSUME SettingsInit PROVE ConfigInv
  OBVIOUS
<1>1. IdleRequest \in Requests /\ IdleRequest.at = "idle"
  BY DEF Requests, IdleRequest
<1>2. \A k \in Key : Absent[k] \in Values
  BY DEF Absent, Key, Values
<1>3. rows \in [Key \cup Field -> Values \cup {"default", "new", "", None}]
  BY <1>2 DEF SettingsInit
<1>4. Shape
  BY <1>1, <1>3, SettingsAssumption DEF SettingsInit, Shape
<1>5. \A f \in Field : rows[f] = None /\ cfg[f] = "env"
  BY SettingsAssumption DEF SettingsInit
<1>6. LockHeld /\ PatchAhead
  BY <1>1, SettingsAssumption DEF SettingsInit, LockHeld, PatchAhead
<1>7. ConfigFollowsRows
  BY <1>5 DEF ConfigFollowsRows, Effective
<1>8. QED BY <1>4, <1>6, <1>7 DEF ConfigInv

\* Steps of readers, of time and of the captcha service, and all of the plugin centre.
LEMMA ConfigRests ==
    ASSUME ConfigInv, UNCHANGED <<rows, request, configVars>>
    PROVE  ConfigInv'
BY DEF ConfigInv, Shape, LockHeld, PatchAhead, ConfigFollowsRows, Effective, configVars

\* A request that holds no lock and does not take it, and writes no row of a field.
LEMMA ConfigElsewhere ==
    ASSUME ConfigInv, NEW a \in Admin, NEW r \in Requests,
           request' = [request EXCEPT ![a] = r],
           request[a].at # "commit", r.at # "commit", r.at = "write" => r.key \in Key,
           rows' \in [Key \cup Field -> Values \cup {"default", "new", "", None}],
           \A f \in Field : rows'[f] = rows[f],
           UNCHANGED configVars
    PROVE  ConfigInv'
<1>1. \A b \in Admin : request'[b] = IF b = a THEN r ELSE request[b]
  BY DEF ConfigInv, Shape
<1>2. \A f \in Field : Effective(f)' = Effective(f)
  BY DEF Effective
<1>3. Shape'
  BY <1>1 DEF ConfigInv, Shape, configVars
<1>4. LockHeld' /\ cfgMu # a
  BY <1>1 DEF ConfigInv, LockHeld, configVars
<1>5. PatchAhead'
  BY <1>1, <1>2, <1>4 DEF ConfigInv, PatchAhead, configVars
<1>6. ConfigFollowsRows'
  BY <1>2 DEF ConfigInv, ConfigFollowsRows, configVars
<1>7. QED BY <1>3, <1>4, <1>5, <1>6 DEF ConfigInv

LEMMA UpdateSettingStep ==
    ASSUME ConfigInv, NEW a \in Admin, NEW k \in Key, NEW v \in Values, UpdateSetting(a, k, v)
    PROVE  ConfigInv'
<1> DEFINE r == [IdleRequest EXCEPT !.at = "write", !.key = k, !.val = v,
                                    !.found = rows[k] # None]
<1>1. r \in Requests /\ r.at = "write" /\ r.key = k
  BY DEF Requests, IdleRequest
<1>2. request' = [request EXCEPT ![a] = r] /\ request[a].at # "commit"
  BY DEF UpdateSetting, ToRequest
<1>3. UNCHANGED <<rows, configVars>>
  BY DEF UpdateSetting
<1> HIDE DEF r
<1>4. QED BY <1>1, <1>2, <1>3, ConfigElsewhere DEF ConfigInv, Shape

\* The row written is that of a key, never that of a field.
LEMMA WriteSettingStep ==
    ASSUME ConfigInv, NEW a \in Admin, WriteSetting(a)
    PROVE  ConfigInv'
<1>1. /\ request[a].at = "write" /\ request[a].key \in Key /\ request[a] \in Requests
      /\ UNCHANGED configVars
  BY DEF WriteSetting, ConfigInv, Shape
<1>2. /\ rows' \in [Key \cup Field -> Values \cup {"default", "new", "", None}]
      /\ \A f \in Field : rows'[f] = rows[f]
  <2>1. rows' = rows \/ rows' = [rows EXCEPT ![request[a].key] = request[a].val]
    BY DEF WriteSetting
  <2>2. request[a].val \in Values \cup {None}
    BY <1>1 DEF Requests
  <2>3. rows \in [Key \cup Field -> Values \cup {"default", "new", "", None}]
    BY DEF ConfigInv, Shape
  <2>4. CASE rows' = rows
    BY <2>3, <2>4
  <2>5. CASE rows' = [rows EXCEPT ![request[a].key] = request[a].val]
    <3>1. \A f \in Field : f # request[a].key
      BY <1>1, SettingsAssumption
    <3>2. QED BY <1>1, <2>2, <2>3, <2>5, <3>1
  <2>6. QED BY <2>1, <2>4, <2>5
<1>3. PICK r : /\ r \in {IdleRequest, [request[a] EXCEPT !.at = "invalidate"]}
               /\ request' = [request EXCEPT ![a] = r]
  BY DEF WriteSetting, ToRequest
<1>4. r \in Requests /\ r.at \in {"idle", "invalidate"}
  <2>1. IdleRequest \in Requests /\ IdleRequest.at = "idle"
    BY DEF Requests, IdleRequest
  <2>2. /\ [request[a] EXCEPT !.at = "invalidate"] \in Requests
        /\ [request[a] EXCEPT !.at = "invalidate"].at = "invalidate"
    BY <1>1 DEF Requests
  <2>3. QED BY <1>3, <2>1, <2>2
<1>5. QED BY <1>1, <1>2, <1>3, <1>4, ConfigElsewhere

\* InvalidateSetting and Invalidators end a request and touch the caches only.
LEMMA EndingStep ==
    ASSUME ConfigInv, NEW a \in Admin, InvalidateSetting(a) \/ Invalidators(a)
    PROVE  ConfigInv'
<1>1. /\ request' = [request EXCEPT ![a] = IdleRequest] /\ request[a].at # "commit"
      /\ UNCHANGED <<rows, configVars>>
  BY DEF InvalidateSetting, Invalidators, ToRequest
<1>2. IdleRequest \in Requests /\ IdleRequest.at = "idle"
  BY DEF Requests, IdleRequest
<1>3. QED BY <1>1, <1>2, ConfigElsewhere DEF ConfigInv, Shape

\* The fields named take their new values in memory; the lock is held from here.
LEMMA PatchConfigStep ==
    ASSUME ConfigInv, NEW a \in Admin, NEW p \in Patches, PatchConfig(a, p)
    PROVE  ConfigInv'
<1> DEFINE r == [IdleRequest EXCEPT !.at = "commit", !.patch = p]
<1>1. r \in Requests /\ r.at = "commit" /\ r.patch = p
  BY DEF Requests, IdleRequest
<1>2. /\ request' = [request EXCEPT ![a] = r]
      /\ cfgMu = NoAdmin /\ cfgMu' = a /\ UNCHANGED <<rows, torn>>
      /\ cfg' = [f \in Field |-> Given(f, p, Normal(f, p[f]), cfg[f])]
  BY DEF PatchConfig, ToRequest, Unlocked
<1> HIDE DEF r
<1>3. \A b \in Admin : request'[b] = IF b = a THEN r ELSE request[b]
  BY <1>2 DEF ConfigInv, Shape
<1>4. Shape'
  <2>1. \A f \in Field : cfg'[f] \in {"env", "default", "new", ""}
    BY <1>2, PatchFields, NormalText DEF ConfigInv, Shape, Given
  <2>2. cfg' \in [Field -> {"env", "default", "new", ""}]
    BY <1>2, <2>1
  <2>3. request' \in [Admin -> Requests]
    BY <1>1, <1>2 DEF ConfigInv, Shape
  <2>4. QED BY <1>1, <1>2, <1>3, <2>2, <2>3 DEF ConfigInv, Shape
<1>5. LockHeld'
  BY <1>1, <1>2, <1>3, SettingsAssumption DEF ConfigInv, LockHeld
<1>6. PatchAhead'
  <2>1. \A f \in Field : Effective(f)' = Effective(f)
    BY <1>2 DEF Effective
  <2>2. \A f \in Field : cfg'[f] = IF f \in DOMAIN p THEN Normal(f, p[f]) ELSE cfg[f]
    BY <1>2 DEF Given
  <2>3. \A f \in Field : f \notin torn => cfg[f] = Effective(f)
    BY <1>2 DEF ConfigInv, ConfigFollowsRows
  <2>4. QED BY <1>1, <1>2, <1>3, <2>1, <2>2, <2>3 DEF PatchAhead, Normal
<1>7. ConfigFollowsRows'
  BY <1>2, SettingsAssumption DEF ConfigFollowsRows
<1>8. QED BY <1>4, <1>5, <1>6, <1>7 DEF ConfigInv

\* The transaction writes what is in memory, or fails and its fields are torn.
LEMMA CommitPatchStep ==
    ASSUME ConfigInv, NEW a \in Admin, CommitPatch(a)
    PROVE  ConfigInv'
<1> DEFINE p == request[a].patch
<1>1. /\ p \in Patches /\ cfgMu = a /\ cfgMu' = NoAdmin /\ cfg' = cfg
      /\ request' = [request EXCEPT ![a] = IdleRequest]
  BY DEF CommitPatch, ConfigInv, Shape, LockHeld, ToRequest
<1>2. \/ /\ rows' = [x \in Key \cup Field |-> Given(x, p, Normal(x, p[x]), rows[x])]
         /\ torn' = torn \ DOMAIN p
      \/ rows' = rows /\ torn' = torn \cup DOMAIN p
  BY DEF CommitPatch
<1>3. IdleRequest \in Requests /\ IdleRequest.at = "idle"
  BY DEF Requests, IdleRequest
<1>4. \A b \in Admin : request'[b] = IF b = a THEN IdleRequest ELSE request[b]
  BY <1>1 DEF ConfigInv, Shape
<1>5. DOMAIN p \subseteq Field /\ \A f \in DOMAIN p : p[f] \in Text
  BY <1>1, PatchFields
<1> HIDE DEF p
<1>6. Shape'
  <2>1. rows' \in [Key \cup Field -> Values \cup {"default", "new", "", None}]
    BY <1>2, <1>5, NormalText DEF ConfigInv, Shape, Given
  <2>2. torn' \subseteq Field
    BY <1>2, <1>5 DEF ConfigInv, Shape
  <2>3. \A f \in Field : rows'[f] \in {"default", "new", "", None}
    BY <1>2, <1>5, NormalText DEF ConfigInv, Shape, Given
  <2>4. QED BY <1>1, <1>3, <1>4, <2>1, <2>2, <2>3 DEF ConfigInv, Shape
<1>7. LockHeld'
  BY <1>1, <1>3, <1>4, SettingsAssumption DEF ConfigInv, LockHeld
<1>8. PatchAhead'
  BY <1>1, SettingsAssumption DEF PatchAhead
<1>9. ConfigFollowsRows'
  <2> SUFFICES ASSUME NEW f \in Field, f \notin torn' PROVE cfg[f] = Effective(f)'
    BY <1>1 DEF ConfigFollowsRows
  <2>1. CASE f \in DOMAIN p
    <3>1. rows'[f] = Normal(f, p[f]) /\ p[f] \in Text
      BY <1>2, <1>5, <2>1 DEF Given
    <3>2. cfg[f] = Normal(f, p[f])
      BY <1>1, <2>1 DEF ConfigInv, PatchAhead, p
    <3>3. Effective(f)' = Normal(f, p[f])
      BY <3>1, SettingsAssumption DEF Effective, Normal, Text
    <3>4. QED BY <3>2, <3>3
  <2>2. CASE f \notin DOMAIN p
    <3>1. rows'[f] = rows[f] /\ f \notin torn
      BY <1>2, <2>2 DEF Given
    <3>2. cfg[f] = Effective(f)
      BY <1>1, <2>2, <3>1 DEF ConfigInv, PatchAhead, p
    <3>3. QED BY <3>1, <3>2 DEF Effective
  <2>3. QED BY <2>1, <2>2
<1>10. QED BY <1>6, <1>7, <1>8, <1>9 DEF ConfigInv

\* A restore writes every field's row and tears them all.
LEMMA RestoreStep ==
    ASSUME ConfigInv, NEW a \in Admin, NEW archive \in Archives, Restore(a, archive)
    PROVE  ConfigInv'
<1> DEFINE r == [IdleRequest EXCEPT !.at = "restored"]
<1>1. r \in Requests /\ r.at = "restored"
  BY DEF Requests, IdleRequest
<1>2. /\ request' = [request EXCEPT ![a] = r] /\ request[a].at = "idle"
      /\ torn' = Field /\ UNCHANGED <<cfg, cfgMu>>
      /\ rows' = [x \in Key \cup Field |-> IF x \in DOMAIN archive THEN archive[x] ELSE None]
  BY DEF Restore, ToRequest
<1> HIDE DEF r
<1>3. \A b \in Admin : request'[b] = IF b = a THEN r ELSE request[b]
  BY <1>2 DEF ConfigInv, Shape
<1>4. Shape'
  <2>1. \A x \in DOMAIN archive : archive[x] \in Values
    BY DEF Archives
  <2>2. rows' \in [Key \cup Field -> Values \cup {"default", "new", "", None}]
    BY <1>2, <2>1
  <2>3. \A f \in Field : rows'[f] = None
    <3>1. CASE archive = <<>>
      <4>1. DOMAIN archive = {}
        BY <3>1
      <4>2. QED BY <1>2, <4>1
    <3>2. CASE archive \in [Key -> Values]
      BY <1>2, <3>2, SettingsAssumption
    <3>3. QED BY <3>1, <3>2 DEF Archives
  <2>4. QED BY <1>1, <1>2, <1>3, <2>2, <2>3 DEF ConfigInv, Shape
<1>5. LockHeld' /\ cfgMu # a
  BY <1>1, <1>2, <1>3 DEF ConfigInv, LockHeld
<1>6. PatchAhead'
  <2> SUFFICES ASSUME NEW b \in Admin, cfgMu' = b, NEW f \in Field
               PROVE  /\ f \in torn'
                      /\ f \in DOMAIN request'[b].patch
                         => cfg'[f] = Normal(f, request'[b].patch[f])
    BY DEF PatchAhead, Normal
  <2>1. request'[b] = request[b] /\ cfgMu = b
    BY <1>2, <1>3, <1>5
  <2>2. f \in DOMAIN request[b].patch => cfg[f] = Normal(f, request[b].patch[f])
    BY <2>1 DEF ConfigInv, PatchAhead
  <2>3. QED BY <1>2, <2>1, <2>2
<1>7. ConfigFollowsRows'
  BY <1>2 DEF ConfigFollowsRows
<1>8. QED BY <1>4, <1>5, <1>6, <1>7 DEF ConfigInv

\* A start reads the configuration from the rows.
LEMMA RestartSettingsStep ==
    ASSUME ConfigInv, RestartSettings
    PROVE  ConfigInv'
<1>1. IdleRequest \in Requests /\ IdleRequest.at = "idle"
  BY DEF Requests, IdleRequest
<1>2. /\ request' = [a \in Admin |-> IdleRequest] /\ cfgMu' = NoAdmin /\ torn' = {}
      /\ cfg' = [f \in Field |-> Effective(f)]
      /\ rows' = [x \in Key \cup Field |-> IF x \in Key THEN Meaning(x) ELSE rows[x]]
  BY DEF RestartSettings
<1>3. \A k \in Key : Meaning(k) \in Values \cup {"default", "new", "", None}
  <2>1. \A k \in Key : Absent[k] \in Values
    BY DEF Absent, Key, Values
  <2>2. QED BY <2>1 DEF ConfigInv, Shape, Meaning
<1>4. \A f \in Field : rows'[f] = rows[f] /\ cfg'[f] = Effective(f)
  BY <1>2, SettingsAssumption
<1>5. Shape'
  <2>1. rows' \in [Key \cup Field -> Values \cup {"default", "new", "", None}]
    BY <1>2, <1>3 DEF ConfigInv, Shape
  <2>2. \A f \in Field : Effective(f) \in {"env", "default", "new", ""}
    <3>1. \A f \in Field : rows[f] \in {"default", "new", "", None}
      BY DEF ConfigInv, Shape
    <3>2. QED BY <3>1 DEF Effective
  <2>3. QED BY <1>1, <1>2, <1>4, <2>1, <2>2 DEF ConfigInv, Shape
<1>6. LockHeld' /\ PatchAhead'
  BY <1>1, <1>2, SettingsAssumption DEF LockHeld, PatchAhead
<1>7. ConfigFollowsRows'
  BY <1>4 DEF ConfigFollowsRows, Effective
<1>8. QED BY <1>5, <1>6, <1>7 DEF ConfigInv

LEMMA ConfigNext == ConfigInv /\ [SettingsNext]_settingsVars => ConfigInv'
<1> SUFFICES ASSUME ConfigInv, [SettingsNext]_settingsVars PROVE ConfigInv'
  OBVIOUS
<1>1. CASE \E r \in Reader : ReaderStep(r) \/ Login(r) \/ \E k \in Key : Query(r, k)
  BY <1>1, ConfigRests
  DEF ReaderStep, Login, Query, Store, CheckOpen, Siteverify, Record
<1>2. CASE (\E k \in Key : Expire(k)) \/ Cooldown \/ Outage \/ Back
  BY <1>2, ConfigRests DEF Expire, Cooldown, Outage, Back
<1>3. ASSUME NEW a \in Admin, RequestStep(a) PROVE ConfigInv'
  BY <1>3, WriteSettingStep, EndingStep, CommitPatchStep DEF RequestStep
<1>4. CASE \E a \in Admin, k \in Key, v \in Values : UpdateSetting(a, k, v)
  BY <1>4, UpdateSettingStep
<1>5. CASE \E a \in Admin, p \in Patches : PatchConfig(a, p)
  BY <1>5, PatchConfigStep
<1>6. CASE \E a \in Admin, archive \in Archives : Restore(a, archive)
  BY <1>6, RestoreStep
<1>7. CASE UNCHANGED settingsVars
  BY <1>7, ConfigRests DEF settingsVars, configVars
<1>8. QED BY <1>1, <1>2, <1>3, <1>4, <1>5, <1>6, <1>7 DEF SettingsNext

-----------------------------------------------------------------------------
(* The registry.                                                           *)

\* Where the only request on plugin i stands, and what row and record are there.
Stage(a, i) ==
    /\ centre[a].at \in {"create", "save", "delete"} => registry[i] = table[i]
    /\ centre[a].at = "switch" => registry[i] = table[i] /\ ~centre[a].detached
    /\ centre[a].at = "flag" => /\ table[i] = [registry[i] EXCEPT !.enabled = centre[a].on]
                               /\ registry[i] # None /\ ~centre[a].detached
    /\ centre[a].at \in {"upgraded", "replace"} => table[i] = centre[a].rec
    /\ centre[a].at = "register" => registry[i] = None /\ table[i] = centre[a].rec
    /\ centre[a].at \in {"deleted", "unregister"} => table[i] = None

CentreSteps == {"create", "save", "delete", "switch", "flag", "upgraded", "replace",
                "register", "deleted", "unregister"}

CentreRecords ==
    [at : CentreSteps \cup {"idle"}, id : Id \cup {None}, rec : PluginRecord \cup {None},
     on : BOOLEAN, detached : BOOLEAN]

\* A request that is at work names a plugin; one that writes a record has it.
WellFormed(c) ==
    /\ c \in CentreRecords
    /\ IF c.at = "idle" THEN c.id = None ELSE c.id \in Id
    /\ c.at \in {"create", "save", "register", "upgraded", "replace"} => c.rec \in PluginRecord

RegistryShape ==
    /\ table \in [Id -> PluginRecord \cup {None}]
    /\ registry \in [Id -> PluginRecord \cup {None}]
    /\ DOMAIN centre = Admin /\ \A a \in Admin : WellFormed(centre[a])

\* A plugin that is not astray has one request at most, and between the change of the
\* row and that of the record the request carries what is missing.
OneAtWork ==
    \A i \in Id \ astray :
        /\ \A a, b \in Admin : centre[a].id = i /\ centre[b].id = i => a = b
        /\ \A a \in Admin : centre[a].id = i => Stage(a, i)

RegistryInv == RegistryShape /\ OneAtWork /\ RegistryFollowsTable

LEMMA IdleWellFormed == WellFormed(IdleCentre) /\ IdleCentre.at = "idle" /\ IdleCentre.id = None
BY DEF WellFormed, IdleCentre, CentreRecords

LEMMA RegistryInitially == PluginsInit => RegistryInv
<1> SUFFICES ASSUME PluginsInit PROVE RegistryInv
  OBVIOUS
<1>1. RegistryShape
  BY IdleWellFormed DEF PluginsInit, RegistryShape
<1>2. OneAtWork
  BY PluginsAssumption, IdleWellFormed DEF PluginsInit, OneAtWork
<1>3. RegistryFollowsTable
  BY DEF PluginsInit, RegistryFollowsTable
<1>4. QED BY <1>1, <1>2, <1>3 DEF RegistryInv

LEMMA RegistryRests ==
    ASSUME RegistryInv, UNCHANGED <<table, registry, centre, astray>>
    PROVE  RegistryInv'
BY DEF RegistryInv, RegistryShape, WellFormed, OneAtWork, Stage, RegistryFollowsTable, Busy

\* A request goes on or ends.  It touches its own plugin only; if that is not astray it
\* leaves row and record as its next stage wants them, or alike when it ends.
LEMMA RequestMoves ==
    ASSUME RegistryInv, NEW a \in Admin, NEW i \in Id, centre[a].id = i,
           UNCHANGED astray,
           table' \in [Id -> PluginRecord \cup {None}],
           registry' \in [Id -> PluginRecord \cup {None}],
           \A j \in Id : j # i => table'[j] = table[j] /\ registry'[j] = registry[j],
           DOMAIN centre' = Admin, WellFormed(centre'[a]),
           \A b \in Admin : b # a =>
               \/ centre'[b] = centre[b]
               \/ WellFormed(centre'[b]) /\ centre[b].id = i /\ centre'[b].id = i,
           centre'[a].id = i \/ centre'[a] = IdleCentre,
           i \notin astray => IF centre'[a] = IdleCentre THEN registry'[i] = table'[i]
                             ELSE Stage(a, i)'
    PROVE  RegistryInv'
<1>1. RegistryShape'
  BY DEF RegistryInv, RegistryShape, WellFormed
<1>2. \A j \in Id, b \in Admin : j # i /\ centre'[b].id = j => centre'[b] = centre[b] /\ b # a
  BY PluginsAssumption, IdleWellFormed
<1>3. \A b \in Admin : centre'[b].id = i => centre[b].id = i
  OBVIOUS
<1>4. OneAtWork'
  <2> SUFFICES ASSUME NEW j \in Id, j \notin astray
               PROVE  /\ \A b, c \in Admin : centre'[b].id = j /\ centre'[c].id = j => b = c
                      /\ \A b \in Admin : centre'[b].id = j => Stage(b, j)'
    BY DEF OneAtWork
  <2>1. CASE j = i
    <3>1. \A b \in Admin : centre'[b].id = j => b = a
      BY <1>3, <2>1 DEF RegistryInv, OneAtWork
    <3>2. centre'[a].id = j => Stage(a, j)'
      BY <2>1, PluginsAssumption, IdleWellFormed
    <3>3. QED BY <3>1, <3>2
  <2>2. CASE j # i
    <3>1. \A b \in Admin : centre'[b].id = j => centre'[b] = centre[b]
      BY <1>2, <2>2
    <3>2. table'[j] = table[j] /\ registry'[j] = registry[j]
      BY <2>2
    <3>3. \A b \in Admin : centre[b].id = j => Stage(b, j)
      BY DEF RegistryInv, OneAtWork
    <3>4. \A b \in Admin : centre'[b].id = j => Stage(b, j)'
      BY <3>1, <3>2, <3>3 DEF Stage
    <3>5. QED BY <3>1, <3>4 DEF RegistryInv, OneAtWork
  <2>3. QED BY <2>1, <2>2
<1>5. RegistryFollowsTable'
  <2> SUFFICES ASSUME NEW j \in Id, ~Busy(j)', j \notin astray PROVE registry'[j] = table'[j]
    BY DEF RegistryFollowsTable
  <2>1. CASE j = i
    BY <2>1 DEF Busy
  <2>2. CASE j # i
    <3>1. ~Busy(j)
      BY <2>2 DEF Busy
    <3>2. QED BY <2>2, <3>1 DEF RegistryInv, RegistryFollowsTable
  <2>3. QED BY <2>1, <2>2
<1>6. QED BY <1>1, <1>4, <1>5 DEF RegistryInv

\* A request begins: with another at work the plugin is astray from now on.
LEMMA RequestBegins ==
    ASSUME RegistryInv, NEW a \in Admin, NEW i \in Id, NEW c, Begin(a, i, c),
           WellFormed(c), c.id = i, c.at \in {"create", "save", "delete", "switch"}, ~c.detached
    PROVE  RegistryInv'
<1>1. /\ centre[a].at = "idle" /\ centre' = [centre EXCEPT ![a] = c]
      /\ astray' = (IF Busy(i) THEN astray \cup {i} ELSE astray)
      /\ UNCHANGED <<table, registry>>
  BY DEF Begin, ToCentre
<1>2. \A b \in Admin : centre'[b] = IF b = a THEN c ELSE centre[b]
  BY <1>1 DEF RegistryInv, RegistryShape
<1>3. centre[a].id = None
  BY <1>1 DEF RegistryInv, RegistryShape, WellFormed
<1>4. RegistryShape'
  BY <1>1, <1>2 DEF RegistryInv, RegistryShape, WellFormed
<1>5. OneAtWork'
  <2> SUFFICES ASSUME NEW j \in Id, j \notin astray'
               PROVE  /\ \A b, d \in Admin : centre'[b].id = j /\ centre'[d].id = j => b = d
                      /\ \A b \in Admin : centre'[b].id = j => Stage(b, j)'
    BY DEF OneAtWork
  <2>1. j \notin astray
    BY <1>1
  <2>2. CASE j = i
    <3>1. \A b \in Admin : centre'[b].id = j => b = a
      BY <1>1, <1>2, <2>2 DEF Busy
    <3>2. registry[j] = table[j]
      BY <1>1, <2>1, <2>2 DEF RegistryInv, RegistryFollowsTable
    <3>3. Stage(a, j)'
      BY <1>1, <1>2, <3>2 DEF Stage
    <3>4. QED BY <3>1, <3>3
  <2>3. CASE j # i
    <3>1. \A b \in Admin : centre'[b].id = j => centre'[b] = centre[b]
      BY <1>2, <2>3
    <3>2. \A b \in Admin : centre[b].id = j => Stage(b, j)
      BY <2>1 DEF RegistryInv, OneAtWork
    <3>3. \A b \in Admin : centre'[b].id = j => Stage(b, j)'
      BY <1>1, <3>1, <3>2 DEF Stage
    <3>4. QED BY <2>1, <3>1, <3>3 DEF RegistryInv, OneAtWork
  <2>4. QED BY <2>2, <2>3
<1>6. RegistryFollowsTable'
  <2> SUFFICES ASSUME NEW j \in Id, ~Busy(j)', j \notin astray' PROVE registry[j] = table[j]
    BY <1>1 DEF RegistryFollowsTable
  <2>1. ~Busy(j) /\ j \notin astray
    BY <1>1, <1>2, <1>3, PluginsAssumption DEF Busy
  <2>2. QED BY <2>1 DEF RegistryInv, RegistryFollowsTable
<1>7. QED BY <1>4, <1>5, <1>6 DEF RegistryInv

-----------------------------------------------------------------------------
(* One lemma for each step of a request: what it leaves for RequestMoves.  *)

LEMMA ImportStep ==
    ASSUME RegistryInv, NEW a \in Admin, NEW m \in Manifest, Import(a, m)
    PROVE  RegistryInv'
<1> DEFINE row == table[m.id]
           c == [IdleCentre EXCEPT
                    !.at = IF row = None THEN "create" ELSE "save", !.id = m.id,
                    !.rec = [ver |-> m.ver, enabled |-> IF row = None THEN TRUE ELSE row.enabled]]
<1>1. m.id \in Id /\ m.ver \in Version
  BY DEF Manifest
<1>2. row \in PluginRecord \cup {None}
  BY <1>1 DEF RegistryInv, RegistryShape
<1>3. c.rec \in PluginRecord
  <2>1. (IF row = None THEN TRUE ELSE row.enabled) \in BOOLEAN
    BY <1>2 DEF PluginRecord
  <2> HIDE DEF row
  <2>2. QED BY <1>1, <2>1 DEF PluginRecord, IdleCentre
<1>4. c.at \in {"create", "save"} /\ c.id = m.id /\ ~c.detached
  BY DEF IdleCentre
<1>5. WellFormed(c)
  <2>1. c \in CentreRecords
    <3> HIDE DEF row
    <3>1. QED BY <1>1, <1>3 DEF CentreRecords, CentreSteps, IdleCentre
  <2> HIDE DEF c
  <2>2. QED BY <1>1, <1>3, <1>4, <2>1 DEF WellFormed
<1>6. Begin(a, m.id, c)
  BY DEF Import
<1> HIDE DEF c
<1>7. QED BY <1>1, <1>4, <1>5, <1>6, RequestBegins

LEMMA DeleteStep ==
    ASSUME RegistryInv, NEW a \in Admin, NEW i \in Id, Delete(a, i)
    PROVE  RegistryInv'
<1> DEFINE c == [IdleCentre EXCEPT !.at = "delete", !.id = i]
<1>1. WellFormed(c) /\ c.id = i /\ c.at = "delete" /\ ~c.detached
  BY DEF WellFormed, CentreRecords, CentreSteps, IdleCentre
<1>2. Begin(a, i, c)
  BY DEF Delete
<1> HIDE DEF c
<1>3. QED BY <1>1, <1>2, RequestBegins

LEMMA SetEnabledStep ==
    ASSUME RegistryInv, NEW a \in Admin, NEW i \in Id, NEW on \in BOOLEAN, SetEnabled(a, i, on)
    PROVE  RegistryInv'
<1> DEFINE c == [IdleCentre EXCEPT !.at = "switch", !.id = i, !.on = on]
<1>1. WellFormed(c) /\ c.id = i /\ c.at = "switch" /\ ~c.detached
  BY DEF WellFormed, CentreRecords, CentreSteps, IdleCentre
<1>2. Begin(a, i, c)
  BY DEF SetEnabled
<1> HIDE DEF c
<1>3. QED BY <1>1, <1>2, RequestBegins

\* A request at work has its plugin, and a stage to come after this one.
LEMMA AtWork ==
    ASSUME RegistryInv, NEW a \in Admin, centre[a].at # "idle"
    PROVE  /\ centre[a].id \in Id /\ centre[a] \in CentreRecords
           /\ centre[a].id \notin astray => Stage(a, centre[a].id)
BY DEF RegistryInv, RegistryShape, WellFormed, OneAtWork

\* A request ends or goes on, and leaves the others alone.
LEMMA AloneMoves ==
    ASSUME RegistryInv, NEW a \in Admin, NEW c, centre[a].at # "idle",
           centre' = [centre EXCEPT ![a] = c], WellFormed(c),
           c.id = centre[a].id \/ c = IdleCentre,
           UNCHANGED astray,
           table' \in [Id -> PluginRecord \cup {None}],
           registry' \in [Id -> PluginRecord \cup {None}],
           \A j \in Id \ {centre[a].id} : table'[j] = table[j] /\ registry'[j] = registry[j],
           centre[a].id \notin astray =>
               IF c = IdleCentre THEN registry'[centre[a].id] = table'[centre[a].id]
               ELSE Stage(a, centre[a].id)'
    PROVE  RegistryInv'
<1>1. centre[a].id \in Id
  BY AtWork
<1>2. \A b \in Admin : centre'[b] = IF b = a THEN c ELSE centre[b]
  BY DEF RegistryInv, RegistryShape
<1>3. DOMAIN centre' = Admin
  BY DEF RegistryInv, RegistryShape
<1>4. QED BY <1>1, <1>2, <1>3, RequestMoves

\* A statement fails before the row has changed.
LEMMA FailsStep ==
    ASSUME RegistryInv, NEW a \in Admin, centre[a].at \in {"create", "save", "delete", "switch"},
           Fails(a) \/ ToCentre(a, IdleCentre), UNCHANGED <<table, registry, astray>>
    PROVE  RegistryInv'
<1>1. centre' = [centre EXCEPT ![a] = IdleCentre]
  BY DEF Fails, ToCentre
<1>2. centre[a].id \notin astray => registry[centre[a].id] = table[centre[a].id]
  BY AtWork DEF Stage
<1>3. /\ table \in [Id -> PluginRecord \cup {None}]
      /\ registry \in [Id -> PluginRecord \cup {None}]
  BY DEF RegistryInv, RegistryShape
<1>4. QED BY <1>1, <1>2, <1>3, IdleWellFormed, AloneMoves

\* The row is changed, from v it is w now; the record is not.
LEMMA RowMoves ==
    ASSUME RegistryInv, NEW a \in Admin, NEW w \in PluginRecord \cup {None}, NEW c,
           centre[a].at # "idle", centre' = [centre EXCEPT ![a] = c],
           WellFormed(c), c.id = centre[a].id, c.at # "idle",
           table' = [table EXCEPT ![centre[a].id] = w], UNCHANGED <<registry, astray>>,
           centre[a].id \notin astray => Stage(a, centre[a].id)'
    PROVE  RegistryInv'
<1>1. centre[a].id \in Id /\ c # IdleCentre
  BY AtWork, IdleWellFormed
<1>2. /\ table' \in [Id -> PluginRecord \cup {None}]
      /\ registry' \in [Id -> PluginRecord \cup {None}]
      /\ \A j \in Id \ {centre[a].id} : table'[j] = table[j] /\ registry'[j] = registry[j]
  BY <1>1 DEF RegistryInv, RegistryShape
<1>3. QED BY <1>1, <1>2, AloneMoves

LEMMA CreateRowStep ==
    ASSUME RegistryInv, NEW a \in Admin, CreateRow(a)
    PROVE  RegistryInv'
<1>1. centre[a].at = "create" /\ UNCHANGED <<registry, astray>>
  BY DEF CreateRow
<1>2. CASE UNCHANGED table /\ (Fails(a) \/ ToCentre(a, IdleCentre))
  BY <1>1, <1>2, FailsStep
<1>3. CASE /\ table[centre[a].id] = None
           /\ table' = [table EXCEPT ![centre[a].id] = centre[a].rec]
           /\ Advance(a, "register")
  <2> DEFINE c == [centre[a] EXCEPT !.at = "register"]
  <2>1. centre[a].id \in Id /\ centre[a] \in CentreRecords /\ centre[a].rec \in PluginRecord
    BY <1>1, AtWork DEF RegistryInv, RegistryShape, WellFormed
  <2>2. /\ WellFormed(c) /\ c.at = "register" /\ c.id = centre[a].id /\ c.rec = centre[a].rec
    BY <2>1 DEF WellFormed, CentreRecords, CentreSteps
  <2>3. centre' = [centre EXCEPT ![a] = c]
    BY <1>3 DEF Advance, ToCentre
  <2> HIDE DEF c
  <2>4. centre'[a] = c /\ table'[centre[a].id] = centre[a].rec
    BY <1>3, <2>1, <2>3 DEF RegistryInv, RegistryShape
  <2>5. centre[a].id \notin astray => Stage(a, centre[a].id)'
    <3>1. centre[a].id \notin astray => registry[centre[a].id] = None
      BY <1>1, <1>3, AtWork DEF Stage
    <3>2. QED BY <1>1, <2>2, <2>4, <3>1 DEF Stage
  <2>6. QED BY <1>1, <1>3, <2>1, <2>2, <2>3, <2>5, RowMoves
<1>4. QED BY <1>2, <1>3 DEF CreateRow

LEMMA SaveRowStep ==
    ASSUME RegistryInv, NEW a \in Admin, SaveRow(a)
    PROVE  RegistryInv'
<1>1. centre[a].at = "save" /\ UNCHANGED <<registry, astray>>
  BY DEF SaveRow
<1>2. CASE UNCHANGED table /\ Fails(a)
  BY <1>1, <1>2, FailsStep
<1>3. CASE /\ table' = [table EXCEPT ![centre[a].id] = Saved(a)]
           /\ ToCentre(a, [centre[a] EXCEPT !.at = "upgraded", !.rec = Saved(a)])
  <2> DEFINE c == [centre[a] EXCEPT !.at = "upgraded", !.rec = Saved(a)]
  <2>1. centre[a].id \in Id /\ centre[a] \in CentreRecords /\ centre[a].rec \in PluginRecord
    BY <1>1, AtWork DEF RegistryInv, RegistryShape, WellFormed
  <2>2. Saved(a) \in PluginRecord
    BY <2>1 DEF Saved, PluginRecord
  <2>3. /\ WellFormed(c) /\ c.at = "upgraded" /\ c.id = centre[a].id /\ c.rec = Saved(a)
    BY <2>1, <2>2 DEF WellFormed, CentreRecords, CentreSteps
  <2>4. centre' = [centre EXCEPT ![a] = c]
    BY <1>3 DEF ToCentre
  <2> HIDE DEF c
  <2>5. centre'[a] = c /\ table'[centre[a].id] = Saved(a)
    BY <1>3, <2>1, <2>4 DEF RegistryInv, RegistryShape
  <2>6. Stage(a, centre[a].id)'
    BY <2>3, <2>5 DEF Stage
  <2>7. QED BY <1>1, <1>3, <2>2, <2>3, <2>4, <2>6, RowMoves
<1>4. QED BY <1>2, <1>3 DEF SaveRow

LEMMA DeleteRowStep ==
    ASSUME RegistryInv, NEW a \in Admin, DeleteRow(a)
    PROVE  RegistryInv'
<1>1. centre[a].at = "delete" /\ UNCHANGED <<registry, astray>>
  BY DEF DeleteRow
<1>2. CASE UNCHANGED table /\ Fails(a)
  BY <1>1, <1>2, FailsStep
<1>3. CASE table' = [table EXCEPT ![centre[a].id] = None] /\ Advance(a, "deleted")
  <2> DEFINE c == [centre[a] EXCEPT !.at = "deleted"]
  <2>1. centre[a].id \in Id /\ centre[a] \in CentreRecords
    BY <1>1, AtWork
  <2>2. WellFormed(c) /\ c.at = "deleted" /\ c.id = centre[a].id
    BY <2>1 DEF WellFormed, CentreRecords, CentreSteps
  <2>3. centre' = [centre EXCEPT ![a] = c]
    BY <1>3 DEF Advance, ToCentre
  <2> HIDE DEF c
  <2>4. centre'[a] = c /\ table'[centre[a].id] = None
    BY <1>3, <2>1, <2>3 DEF RegistryInv, RegistryShape
  <2>5. Stage(a, centre[a].id)'
    BY <2>2, <2>4 DEF Stage
  <2>6. QED BY <1>1, <1>3, <2>2, <2>3, <2>5, RowMoves
<1>4. QED BY <1>2, <1>3 DEF DeleteRow

LEMMA SwitchRowStep ==
    ASSUME RegistryInv, NEW a \in Admin, SwitchRow(a)
    PROVE  RegistryInv'
<1>1. centre[a].at = "switch" /\ UNCHANGED <<registry, astray>>
  BY DEF SwitchRow
<1>2. CASE UNCHANGED table /\ (Fails(a) \/ ToCentre(a, IdleCentre))
  BY <1>1, <1>2, FailsStep
<1>3. CASE /\ table[centre[a].id] # None
           /\ table' = [table EXCEPT ![centre[a].id].enabled = centre[a].on]
           /\ Advance(a, "flag")
  <2> DEFINE c == [centre[a] EXCEPT !.at = "flag"]
             w == [table[centre[a].id] EXCEPT !.enabled = centre[a].on]
  <2>1. centre[a].id \in Id /\ centre[a] \in CentreRecords
    BY <1>1, AtWork
  <2>2. WellFormed(c) /\ c.at = "flag" /\ c.id = centre[a].id
        /\ c.on = centre[a].on /\ c.detached = centre[a].detached
    BY <2>1 DEF WellFormed, CentreRecords, CentreSteps
  <2>3. w \in PluginRecord
    <3>1. table[centre[a].id] \in PluginRecord /\ centre[a].on \in BOOLEAN
      BY <1>3, <2>1 DEF RegistryInv, RegistryShape, CentreRecords
    <3>2. QED BY <3>1 DEF PluginRecord
  <2>4. centre' = [centre EXCEPT ![a] = c]
    BY <1>3 DEF Advance, ToCentre
  <2>5. table' = [table EXCEPT ![centre[a].id] = w]
    BY <1>3
  <2>6. centre[a].id \notin astray =>
            /\ registry[centre[a].id] = table[centre[a].id] /\ ~centre[a].detached
    BY <1>1, AtWork DEF Stage
  <2>7. centre'[a] = c /\ table'[centre[a].id] = w
    BY <2>1, <2>4, <2>5 DEF RegistryInv, RegistryShape
  <2>8. centre[a].id \notin astray => Stage(a, centre[a].id)'
    <3>1. centre[a].id \notin astray =>
              w = [registry[centre[a].id] EXCEPT !.enabled = c.on]
      BY <2>2, <2>6
    <3> HIDE DEF c, w
    <3>2. QED BY <1>1, <1>3, <2>2, <2>6, <2>7, <3>1 DEF Stage
  <2> HIDE DEF c, w
  <2>9. QED BY <1>1, <2>2, <2>3, <2>4, <2>5, <2>8, RowMoves
<1>4. QED BY <1>2, <1>3 DEF SwitchRow

LEMMA ForgetHealthStep ==
    ASSUME RegistryInv, NEW a \in Admin, ForgetHealth(a)
    PROVE  RegistryInv'
<1> DEFINE next == IF centre[a].at = "upgraded" THEN "replace" ELSE "unregister"
           c == [centre[a] EXCEPT !.at = next]
<1>1. /\ centre[a].at \in {"upgraded", "deleted"} /\ centre' = [centre EXCEPT ![a] = c]
      /\ UNCHANGED <<table, registry, astray>>
  BY DEF ForgetHealth, Advance, ToCentre
<1>2. centre[a].id \in Id /\ centre[a] \in CentreRecords /\ WellFormed(centre[a])
  BY <1>1, AtWork DEF RegistryInv, RegistryShape
<1>3. /\ WellFormed(c) /\ c.at = next /\ c.id = centre[a].id /\ c.rec = centre[a].rec
  BY <1>1, <1>2 DEF WellFormed, CentreRecords, CentreSteps
<1> HIDE DEF c
<1>4. centre'[a] = c
  BY <1>1 DEF RegistryInv, RegistryShape
<1>5. centre[a].id \notin astray => Stage(a, centre[a].id)'
  <2>1. centre[a].id \notin astray => Stage(a, centre[a].id)
    BY <1>1, AtWork
  <2>2. QED BY <1>1, <1>3, <1>4, <2>1 DEF Stage
<1>6. /\ table' \in [Id -> PluginRecord \cup {None}]
      /\ registry' \in [Id -> PluginRecord \cup {None}]
      /\ c # IdleCentre
  BY <1>1, <1>2, <1>3, IdleWellFormed, PluginsAssumption DEF RegistryInv, RegistryShape
<1>7. QED BY <1>1, <1>3, <1>5, <1>6, AloneMoves

LEMMA SyncRegistryStep ==
    ASSUME RegistryInv, NEW a \in Admin, SyncRegistry(a)
    PROVE  RegistryInv'
<1> DEFINE i == centre[a].id
<1>1. /\ centre[a].at \in {"replace", "register"}
      /\ registry' = IF registry[i] = None \/ centre[a].at = "replace"
                     THEN [registry EXCEPT ![i] = centre[a].rec] ELSE registry
      /\ centre' = [centre EXCEPT ![a] = IdleCentre]
      /\ UNCHANGED <<table, astray>>
  BY DEF SyncRegistry, Replaces, ToCentre
<1>2. i \in Id /\ centre[a].rec \in PluginRecord
  BY <1>1, AtWork DEF RegistryInv, RegistryShape, WellFormed
<1>3. i \notin astray => Stage(a, i)
  BY <1>1, AtWork
<1> HIDE DEF i
<1>4. /\ table' \in [Id -> PluginRecord \cup {None}]
      /\ registry' \in [Id -> PluginRecord \cup {None}]
      /\ \A j \in Id \ {i} : table'[j] = table[j] /\ registry'[j] = registry[j]
  BY <1>1, <1>2 DEF RegistryInv, RegistryShape
<1>5. i \notin astray => registry'[i] = table'[i]
  <2>1. i \notin astray => table[i] = centre[a].rec
    BY <1>1, <1>3 DEF Stage
  <2>2. i \notin astray /\ centre[a].at = "register" => registry[i] = None
    BY <1>3 DEF Stage
  <2>3. i \notin astray => registry' = [registry EXCEPT ![i] = centre[a].rec]
    BY <1>1, <2>2
  <2>4. QED BY <1>1, <1>2, <2>1, <2>3 DEF RegistryInv, RegistryShape
<1>6. QED BY <1>1, <1>4, <1>5, IdleWellFormed, AloneMoves DEF i

LEMMA SwitchRecordStep ==
    ASSUME RegistryInv, NEW a \in Admin, SwitchRecord(a)
    PROVE  RegistryInv'
<1> DEFINE i == centre[a].id
<1>1. /\ centre[a].at = "flag"
      /\ registry' = IF centre[a].detached \/ registry[i] = None THEN registry
                     ELSE [registry EXCEPT ![i].enabled = centre[a].on]
      /\ centre' = [centre EXCEPT ![a] = IdleCentre]
      /\ UNCHANGED <<table, astray>>
  BY DEF SwitchRecord, ToCentre
<1>2. i \in Id /\ centre[a].on \in BOOLEAN
  BY <1>1, AtWork DEF CentreRecords
<1>3. i \notin astray => Stage(a, i)
  BY <1>1, AtWork
<1> HIDE DEF i
<1>4. /\ table' \in [Id -> PluginRecord \cup {None}]
      /\ registry' \in [Id -> PluginRecord \cup {None}]
      /\ \A j \in Id \ {i} : table'[j] = table[j] /\ registry'[j] = registry[j]
  <2>1. registry[i] # None => [registry[i] EXCEPT !.enabled = centre[a].on] \in PluginRecord
    BY <1>2 DEF RegistryInv, RegistryShape, PluginRecord
  <2>2. QED BY <1>1, <1>2, <2>1 DEF RegistryInv, RegistryShape
<1>5. i \notin astray => registry'[i] = table'[i]
  BY <1>1, <1>2, <1>3 DEF Stage, RegistryInv, RegistryShape
<1>6. QED BY <1>1, <1>4, <1>5, IdleWellFormed, AloneMoves DEF i

\* The record goes; switches that have taken it keep their plugin.
LEMMA UnregisterStep ==
    ASSUME RegistryInv, NEW a \in Admin, Unregister(a)
    PROVE  RegistryInv'
<1> DEFINE i == centre[a].id
           Out(b) == [centre[b] EXCEPT !.detached = TRUE]
           next(b) == IF b = a THEN IdleCentre
                      ELSE IF centre[b].id = i /\ centre[b].at \in {"switch", "flag"}
                      THEN Out(b) ELSE centre[b]
<1>1. /\ centre[a].at = "unregister" /\ registry' = [registry EXCEPT ![i] = None]
      /\ centre' = [b \in Admin |-> next(b)] /\ UNCHANGED <<table, astray>>
  BY DEF Unregister
<1>2. i \in Id /\ (i \notin astray => table[i] = None)
  BY <1>1, AtWork DEF Stage
<1>3. \A b \in Admin : WellFormed(Out(b)) /\ Out(b).id = centre[b].id
  <2> SUFFICES ASSUME NEW b \in Admin PROVE WellFormed(Out(b)) /\ Out(b).id = centre[b].id
    OBVIOUS
  <2>1. WellFormed(centre[b]) /\ centre[b] \in CentreRecords
    BY DEF RegistryInv, RegistryShape, WellFormed
  <2>2. Out(b) \in CentreRecords /\ Out(b).id = centre[b].id /\ Out(b).at = centre[b].at
        /\ Out(b).rec = centre[b].rec
    BY <2>1 DEF CentreRecords
  <2> HIDE DEF Out
  <2>3. QED BY <2>1, <2>2 DEF WellFormed
<1> HIDE DEF Out
<1>4. DOMAIN centre' = Admin /\ centre'[a] = IdleCentre
  BY <1>1
<1>5. \A b \in Admin : b # a =>
          \/ centre'[b] = centre[b]
          \/ WellFormed(centre'[b]) /\ centre[b].id = i /\ centre'[b].id = i
  BY <1>1, <1>3
<1> HIDE DEF i, next
<1>6. /\ table' \in [Id -> PluginRecord \cup {None}]
      /\ registry' \in [Id -> PluginRecord \cup {None}]
      /\ \A j \in Id : j # i => table'[j] = table[j] /\ registry'[j] = registry[j]
      /\ i \notin astray => registry'[i] = table'[i]
  BY <1>1, <1>2 DEF RegistryInv, RegistryShape
<1>7. centre[a].id = i
  BY DEF i
<1>8. QED BY <1>1, <1>2, <1>4, <1>5, <1>6, <1>7, IdleWellFormed, RequestMoves

\* A start registers the rows, or none when it cannot read them.
LEMMA RestartStep ==
    ASSUME RegistryInv, Restart
    PROVE  RegistryInv'
<1>1. /\ centre' = [a \in Admin |-> IdleCentre] /\ UNCHANGED table
      /\ \/ registry' = table /\ astray' = {}
         \/ registry' = [i \in Id |-> None] /\ astray' = {i \in Id : table[i] # None}
  BY DEF Restart
<1>2. RegistryShape'
  BY <1>1, IdleWellFormed DEF RegistryInv, RegistryShape
<1>3. OneAtWork'
  BY <1>1, IdleWellFormed, PluginsAssumption DEF OneAtWork
<1>4. RegistryFollowsTable'
  BY <1>1 DEF RegistryFollowsTable
<1>5. QED BY <1>2, <1>3, <1>4 DEF RegistryInv

-----------------------------------------------------------------------------
(* Together.                                                               *)

IInv == ConfigInv /\ RegistryInv

\* The plugin centre writes no setting, SettingsNext no plugin.
LEMMA CentreKeepsConfig ==
    ASSUME NEW a \in Admin,
           \/ CentreStep(a) \/ \E m \in Manifest : Import(a, m)
           \/ \E i \in Id : Delete(a, i) \/ \E on \in BOOLEAN : SetEnabled(a, i, on)
    PROVE  UNCHANGED <<rows, request, configVars>>
<1>1. CASE CentreStep(a)
  BY <1>1
  DEF CentreStep, CreateRow, SaveRow, ForgetHealth, SyncRegistry, DeleteRow, Unregister,
      SwitchRow, SwitchRecord, keptSettings
<1>2. CASE ~CentreStep(a)
  BY <1>2 DEF Import, Delete, SetEnabled, Begin, keptSettings
<1>3. QED BY <1>1, <1>2

LEMMA CentreStepKeeps ==
    ASSUME RegistryInv, NEW a \in Admin, CentreStep(a)
    PROVE  RegistryInv'
BY CreateRowStep, SaveRowStep, ForgetHealthStep, SyncRegistryStep, DeleteRowStep, UnregisterStep,
   SwitchRowStep, SwitchRecordStep
DEF CentreStep

LEMMA ListingRests ==
    ASSUME ListStep \/ \E i \in Id, v \in Version : ProbeEnds(i, v)
    PROVE  /\ UNCHANGED <<rows, request, configVars>>
           /\ UNCHANGED <<table, registry, centre, astray>>
BY DEF ListStep, AskHealth, ReadRecord, HealthExpires, ProbeEnds, unlisted, keptSettings

LEMMA Inductive == IInv /\ [Next]_vars => IInv'
<1> SUFFICES ASSUME IInv, [Next]_vars PROVE IInv'
  OBVIOUS
<1>1. CASE SettingsNext /\ UNCHANGED pluginVars
  BY <1>1, ConfigNext, RegistryRests DEF IInv, pluginVars
<1>2. CASE \E a \in Admin, m \in Manifest : Import(a, m)
  BY <1>2, CentreKeepsConfig, ConfigRests, ImportStep DEF IInv
<1>3. CASE \E a \in Admin, i \in Id : Delete(a, i)
  BY <1>3, CentreKeepsConfig, ConfigRests, DeleteStep DEF IInv
<1>4. CASE \E a \in Admin, i \in Id, on \in BOOLEAN : SetEnabled(a, i, on)
  BY <1>4, CentreKeepsConfig, ConfigRests, SetEnabledStep DEF IInv
<1>5. CASE \E a \in Admin : CentreStep(a)
  BY <1>5, CentreKeepsConfig, ConfigRests, CentreStepKeeps DEF IInv
<1>6. CASE ListStep \/ \E i \in Id, v \in Version : ProbeEnds(i, v)
  BY <1>6, ListingRests, ConfigRests, RegistryRests DEF IInv
<1>7. CASE Restart
  <2>1. RestartSettings
    BY <1>7 DEF Restart
  <2>2. QED BY <1>7, <2>1, RestartSettingsStep, RestartStep DEF IInv
<1>8. CASE UNCHANGED vars
  BY <1>8, ConfigRests, RegistryRests DEF IInv, vars, settingsVars, pluginVars, configVars
<1>9. QED BY <1>1, <1>2, <1>3, <1>4, <1>5, <1>6, <1>7, <1>8 DEF Next

\* Whatever changes of the settings overlap and wherever the process dies, what it keeps of
\* a field or a plugin at rest is what a start would read (UpdateSettings,
\* LoadSubtitleOverrides, the handlers of the plugin centre).
THEOREM CopiesFollow == Spec => []MemoryFollowsTables
<1>1. Init => IInv
  BY ConfigInit, RegistryInitially DEF Init, IInv
<1>2. IInv => MemoryFollowsTables
  BY DEF IInv, ConfigInv, RegistryInv, MemoryFollowsTables
<1>3. QED BY <1>1, <1>2, Inductive, PTL DEF Spec

-----------------------------------------------------------------------------
(* Type correctness: the caches, the breaker and the health of plugins.    *)

Cached == [val : Values \cup {"failed", None}, fresh : BOOLEAN]
Readers == [at : {"idle", "store", "check", "verify", "record"}, key : Key \cup {None},
            got : Values \cup {"failed", "bad", None}]
Health == [there : BOOLEAN, url : Version \cup {None}, fresh : BOOLEAN, fetching : BOOLEAN]

\* The rows of the keys, as readers and caches take them over.
KeyRows == \A k \in Key : rows[k] \in Values \cup {None}
CachesInv ==
    /\ KeyRows
    /\ cache \in [Key -> Cached]
    /\ reader \in [Reader -> Readers]
    /\ \A r \in Reader : reader[r].at = "store" => reader[r].key \in Key
                                                   /\ reader[r].got \in Values \cup {"failed"}
    /\ up \in BOOLEAN /\ open \in BOOLEAN /\ failures \in 0..Threshold
PlanInv == DOMAIN plan = Kinds \cup {"traffic"}
HealthInv ==
    /\ health \in [Id -> Health]
    /\ \A i \in Id : health[i].fetching => health[i].there
    /\ flying \in [Id \X Version -> Nat]
    /\ list # None => list \in [id : Id, url : Version]

\* What a key means is a valid value, and so is the default a failed query leaves.
LEMMA KeyMeaning ==
    ASSUME KeyRows, NEW k \in Key
    PROVE  Meaning(k) \in Values /\ Failed(k) \in Values \cup {"failed"}
<1>1. \A x \in Key : Absent[x] \in Values
  BY DEF Absent, Key, Values
<1>2. QED BY <1>1 DEF KeyRows, Meaning, Failed

LEMMA ZeroInBounds == 0 \in 0..Threshold
<1>1. Threshold \in Nat
  BY SettingsAssumption
<1>2. QED BY <1>1

LEMMA SpendKeeps == ASSUME PlanInv, NEW kind, Spend(kind) PROVE PlanInv'
BY DEF PlanInv, Spend

LEMMA CachesInit == ASSUME SettingsInit PROVE CachesInv /\ PlanInv
<1>1. KeyRows
  <2>1. \A x \in Key : Absent[x] \in Values
    BY DEF Absent, Key, Values
  <2>2. QED BY <2>1 DEF SettingsInit, KeyRows
<1>2. cache \in [Key -> Cached]
  BY DEF SettingsInit, Fresh, Cached
<1>3. IdleReader \in Readers /\ IdleReader.at = "idle"
  BY DEF IdleReader, Readers
<1>4. reader \in [Reader -> Readers] /\ \A r \in Reader : reader[r].at # "store"
  <2>1. reader = [r \in Reader |-> IdleReader]
    BY DEF SettingsInit
  <2>2. \A r \in Reader : reader[r] = IdleReader
    BY <2>1
  <2>3. \A r \in Reader : reader[r].at = "idle"
    BY <1>3, <2>2
  <2>4. QED BY <1>3, <2>1, <2>3
<1>5. up \in BOOLEAN /\ open \in BOOLEAN /\ failures \in 0..Threshold
  BY ZeroInBounds DEF SettingsInit
<1>6. PlanInv
  BY SettingsAssumption DEF SettingsInit, PlanInv
<1>7. QED BY <1>1, <1>2, <1>4, <1>5, <1>6 DEF CachesInv

\* A reader goes on with a record of its type.
LEMMA ReaderMoves ==
    ASSUME CachesInv, NEW r \in Reader, NEW rec \in Readers, ToReader(r, rec),
           rec.at = "store" => rec.key \in Key /\ rec.got \in Values \cup {"failed"},
           UNCHANGED <<rows, cache, up>>, open' \in BOOLEAN, failures' \in 0..Threshold
    PROVE  CachesInv'
<1>1. reader' = [reader EXCEPT ![r] = rec]
  BY DEF ToReader
<1>2. reader' \in [Reader -> Readers]
  BY <1>1 DEF CachesInv
<1>3. \A x \in Reader : reader'[x] = IF x = r THEN rec ELSE reader[x]
  BY <1>1 DEF CachesInv
<1>4. \A x \in Reader : reader'[x].at = "store" => /\ reader'[x].key \in Key
                                                  /\ reader'[x].got \in Values \cup {"failed"}
  BY <1>3 DEF CachesInv
<1>5. QED BY <1>2, <1>4 DEF CachesInv, KeyRows

\* The entries of a cache may expire.
LEMMA CacheEmptied ==
    ASSUME CachesInv, NEW ks
    PROVE  Emptied(ks) \in [Key -> Cached]
<1>1. \A k \in Key : cache[k] \in Cached
  BY DEF CachesInv
<1>2. \A k \in Key : [cache[k] EXCEPT !.fresh = FALSE] \in Cached
  BY <1>1 DEF Cached
<1>3. QED BY <1>1, <1>2 DEF Emptied

LEMMA ReaderSteps ==
    ASSUME CachesInv, PlanInv, NEW r \in Reader,
           ReaderStep(r) \/ Login(r) \/ \E k \in Key : Query(r, k)
    PROVE  CachesInv' /\ PlanInv'
<1>0. /\ reader[r] \in Readers
      /\ reader[r].at = "store" => reader[r].key \in Key
                                   /\ reader[r].got \in Values \cup {"failed"}
      /\ open \in BOOLEAN /\ failures \in 0..Threshold /\ Threshold \in Nat \ {0}
  BY SettingsAssumption DEF CachesInv
<1>1. IdleReader \in Readers /\ IdleReader.at = "idle"
  BY DEF IdleReader, Readers
<1>2. ASSUME NEW k \in Key, Query(r, k) PROVE CachesInv' /\ PlanInv'
  <2>1. PICK got \in Values \cup {"failed"} :
            /\ ToReader(r, [at |-> "store", key |-> k, got |-> got])
            /\ UNCHANGED plan \/ Spend("fault")
    BY <1>2, KeyMeaning DEF Query, CachesInv
  <2> DEFINE rec == [at |-> "store", key |-> k, got |-> got]
  <2>2. rec \in Readers /\ rec.key \in Key /\ rec.got \in Values \cup {"failed"}
    BY DEF Readers
  <2> HIDE DEF rec
  <2>3. ToReader(r, rec)
    BY <2>1 DEF rec
  <2>4. UNCHANGED <<rows, cache, up, open, failures>>
    BY <1>2 DEF Query, breakerVars
  <2>5. CachesInv'
    BY <1>0, <2>2, <2>3, <2>4, ReaderMoves
  <2>6. PlanInv'
    BY <2>1, SpendKeeps DEF PlanInv
  <2>7. QED BY <2>5, <2>6
<1>3. CASE Store(r)
  <2>1. /\ cache' = [cache EXCEPT ![reader[r].key] = [val |-> reader[r].got, fresh |-> TRUE]]
        /\ UNCHANGED <<rows, up, open, failures, plan>>
    BY <1>3 DEF Store, breakerVars
  <2>2. [val |-> reader[r].got, fresh |-> TRUE] \in Cached
    BY <1>0, <1>3 DEF Store, Cached
  <2>3. cache' \in [Key -> Cached]
    BY <2>1, <2>2 DEF CachesInv
  <2>4. \E rec \in Readers : rec.at # "store" /\ ToReader(r, rec)
    <3>1. [reader[r] EXCEPT !.at = "check"] \in Readers
          /\ [reader[r] EXCEPT !.at = "check"].at = "check"
      BY <1>0 DEF Readers
    <3>2. \/ ToReader(r, IdleReader)
          \/ ToReader(r, [reader[r] EXCEPT !.at = "check"])
      BY <1>3 DEF Store
    <3>3. QED BY <1>1, <3>1, <3>2
  <2>5. PICK rec \in Readers : rec.at # "store" /\ ToReader(r, rec)
    BY <2>4
  <2>6. reader' = [reader EXCEPT ![r] = rec]
    BY <2>5 DEF ToReader
  <2>7. reader' \in [Reader -> Readers] /\ \A x \in Reader :
            reader'[x] = IF x = r THEN rec ELSE reader[x]
    BY <2>6 DEF CachesInv
  <2>8. QED BY <2>1, <2>3, <2>5, <2>7 DEF CachesInv, KeyRows, PlanInv
<1>4. CASE Login(r)
  <2> DEFINE rec == [at |-> "check", key |-> "captcha", got |-> "on"]
  <2>1. rec \in Readers /\ rec.at # "store"
    BY DEF Readers, Key, Values
  <2>2. ToReader(r, rec) /\ UNCHANGED <<rows, cache, up, open, failures, plan>>
    BY <1>4 DEF Login, breakerVars
  <2> HIDE DEF rec
  <2>3. QED BY <1>0, <2>1, <2>2, ReaderMoves DEF PlanInv
<1>5. CASE CheckOpen(r)
  <2>1. [reader[r] EXCEPT !.at = "verify"] \in Readers
        /\ [reader[r] EXCEPT !.at = "verify"].at = "verify"
    BY <1>0 DEF Readers
  <2>2. \/ ToReader(r, IdleReader)
        \/ ToReader(r, [reader[r] EXCEPT !.at = "verify"])
    BY <1>5 DEF CheckOpen, Refused
  <2>3. PICK rec \in Readers : rec.at # "store" /\ ToReader(r, rec)
    BY <1>1, <2>1, <2>2
  <2>4. UNCHANGED <<rows, cache, up, open, failures, plan>>
    BY <1>5 DEF CheckOpen, breakerVars
  <2>5. QED BY <1>0, <2>3, <2>4, ReaderMoves DEF PlanInv
<1>6. CASE Siteverify(r)
  <2>1. /\ [reader[r] EXCEPT !.at = "record"] \in Readers
        /\ [reader[r] EXCEPT !.at = "record"].at = "record"
        /\ [reader[r] EXCEPT !.at = "record", !.got = "bad"] \in Readers
        /\ [reader[r] EXCEPT !.at = "record", !.got = "bad"].at = "record"
    BY <1>0 DEF Readers
  <2>2. \/ ToReader(r, [reader[r] EXCEPT !.at = "record"])
        \/ ToReader(r, [reader[r] EXCEPT !.at = "record", !.got = "bad"])
    BY <1>6 DEF Siteverify
  <2>3. PICK rec \in Readers : rec.at # "store" /\ ToReader(r, rec)
    BY <2>1, <2>2
  <2>4. UNCHANGED <<rows, cache, up, open, failures>> /\ (UNCHANGED plan \/ Spend("fault"))
    BY <1>6 DEF Siteverify, breakerVars
  <2>5. QED BY <1>0, <2>3, <2>4, ReaderMoves, SpendKeeps DEF PlanInv
<1>7. CASE Record(r)
  <2>1. Recorded(reader[r].got = "on") /\ ToReader(r, IdleReader)
        /\ UNCHANGED <<rows, cache, up, plan>>
    BY <1>7 DEF Record
  <2>2. failures' \in 0..Threshold /\ open' \in BOOLEAN
    <3>1. CASE reader[r].got = "on"
      <4>1. failures' = 0 /\ open' = FALSE
        BY <2>1, <3>1 DEF Recorded
      <4>2. 0 \in 0..Threshold
        BY ZeroInBounds
      <4>3. QED BY <4>1, <4>2
    <3>2. CASE reader[r].got # "on"
      <4>1. /\ failures' = IF failures < Threshold THEN failures + 1 ELSE failures
            /\ open' = (open \/ failures' >= Threshold)
        BY <2>1, <3>2 DEF Recorded
      <4>2. failures' \in 0..Threshold
        BY <1>0, <4>1
      <4>3. QED BY <1>0, <4>1, <4>2
    <3>3. QED BY <3>1, <3>2
  <2>3. QED BY <1>1, <2>1, <2>2, ReaderMoves DEF PlanInv
<1>8. QED BY <1>2, <1>3, <1>4, <1>5, <1>6, <1>7 DEF ReaderStep

\* A request changes rows to valid values and empties entries of the cache.
LEMMA RequestWrites ==
    ASSUME CachesInv, UNCHANGED <<reader, up, open, failures>>, KeyRows',
           cache' \in [Key -> Cached]
    PROVE  CachesInv'
BY DEF CachesInv

LEMMA RequestSteps ==
    ASSUME ConfigInv, CachesInv, PlanInv, NEW a \in Admin,
           \/ RequestStep(a)
           \/ \E k \in Key, v \in Values : UpdateSetting(a, k, v)
           \/ \E p \in Patches : PatchConfig(a, p)
           \/ \E archive \in Archives : Restore(a, archive)
    PROVE  CachesInv' /\ PlanInv'
<1>0. /\ KeyRows /\ cache \in [Key -> Cached] /\ request[a] \in Requests
      /\ rows \in [Key \cup Field -> Values \cup {"default", "new", "", None}]
      /\ Key \cap Field = {}
  BY SettingsAssumption DEF CachesInv, ConfigInv, Shape
<1>1. ASSUME UNCHANGED <<rows, reader, up, open, failures>>, cache' \in [Key -> Cached]
      PROVE  CachesInv'
  BY <1>0, <1>1, RequestWrites DEF KeyRows
<1>2. CASE WriteSetting(a)
  <2>1. UNCHANGED <<cache, reader, up, open, failures>> /\ (UNCHANGED plan \/ Spend("fault"))
    BY <1>2 DEF WriteSetting, breakerVars
  <2>2. rows' = rows \/ rows' = [rows EXCEPT ![request[a].key] = request[a].val]
    BY <1>2 DEF WriteSetting
  <2>3. request[a].val \in Values \cup {None}
    BY <1>0 DEF Requests
  <2>4. KeyRows'
    BY <1>0, <2>2, <2>3 DEF KeyRows
  <2>5. QED BY <1>0, <2>1, <2>4, RequestWrites, SpendKeeps DEF PlanInv
<1>3. CASE InvalidateSetting(a) \/ Invalidators(a)
  <2>1. /\ UNCHANGED <<rows, reader, up, open, failures, plan>>
        /\ \E ks : cache' = Emptied(ks)
    BY <1>3 DEF InvalidateSetting, Invalidators, breakerVars
  <2>2. QED BY <1>1, <2>1, CacheEmptied DEF PlanInv
<1>4. CASE CommitPatch(a)
  <2> DEFINE p == request[a].patch
  <2>1. UNCHANGED <<cache, reader, up, open, failures>> /\ (UNCHANGED plan \/ Spend("fault"))
    BY <1>4 DEF CommitPatch, breakerVars
  <2>2. \/ rows' = [x \in Key \cup Field |-> Given(x, p, Normal(x, p[x]), rows[x])]
        \/ rows' = rows
    BY <1>4 DEF CommitPatch
  <2>3. DOMAIN p \subseteq Field
    BY <1>4, PatchFields DEF CommitPatch, ConfigInv, Shape
  <2> HIDE DEF p
  <2>4. \A k \in Key : rows'[k] = rows[k]
    BY <1>0, <2>2, <2>3 DEF Given
  <2>5. QED BY <1>0, <2>1, <2>4, RequestWrites, SpendKeeps DEF PlanInv, KeyRows
<1>5. ASSUME NEW k \in Key, NEW v \in Values, UpdateSetting(a, k, v)
      PROVE  CachesInv' /\ PlanInv'
  <2>1. UNCHANGED <<rows, cache, reader, up, open, failures>> /\ Spend("setting")
    BY <1>5 DEF UpdateSetting, breakerVars
  <2>2. QED BY <1>0, <1>1, <2>1, SpendKeeps
<1>6. ASSUME NEW p \in Patches, PatchConfig(a, p) PROVE CachesInv' /\ PlanInv'
  <2>1. UNCHANGED <<rows, cache, reader, up, open, failures>> /\ Spend("patch")
    BY <1>6 DEF PatchConfig, breakerVars
  <2>2. QED BY <1>0, <1>1, <2>1, SpendKeeps
<1>7. ASSUME NEW archive \in Archives, Restore(a, archive) PROVE CachesInv' /\ PlanInv'
  <2>1. /\ UNCHANGED <<cache, reader, up, open, failures>> /\ Spend("restore")
        /\ rows' = [x \in Key \cup Field |-> IF x \in DOMAIN archive THEN archive[x] ELSE None]
    BY <1>7 DEF Restore, breakerVars
  <2>2. \A x \in DOMAIN archive : archive[x] \in Values
    BY DEF Archives
  <2>3. KeyRows'
    BY <2>1, <2>2 DEF KeyRows
  <2>4. QED BY <1>0, <2>1, <2>3, RequestWrites, SpendKeeps
<1>8. QED BY <1>2, <1>3, <1>4, <1>5, <1>6, <1>7 DEF RequestStep

LEMMA SettingsStep ==
    ASSUME ConfigInv, CachesInv, PlanInv, SettingsNext
    PROVE  CachesInv' /\ PlanInv'
<1>1. ASSUME NEW k \in Key, Expire(k) PROVE CachesInv' /\ PlanInv'
  <2>1. /\ cache' = [cache EXCEPT ![k].fresh = FALSE]
        /\ UNCHANGED <<rows, reader, up, open, failures, plan>>
    BY <1>1 DEF Expire, breakerVars
  <2>2. cache[k] \in Cached /\ [cache[k] EXCEPT !.fresh = FALSE] \in Cached
    BY DEF CachesInv, Cached
  <2>3. cache' \in [Key -> Cached]
    BY <2>1, <2>2 DEF CachesInv
  <2>4. QED BY <2>1, <2>3, RequestWrites DEF CachesInv, KeyRows, PlanInv
<1>2. CASE Cooldown \/ Outage \/ Back
  <2>1. /\ UNCHANGED <<rows, cache, reader, failures>> /\ open' \in {open, FALSE}
        /\ up' \in BOOLEAN /\ (UNCHANGED plan \/ Spend("fault"))
    BY <1>2 DEF Cooldown, Outage, Back, CachesInv
  <2>2. QED BY <2>1, SpendKeeps DEF CachesInv, KeyRows, PlanInv
<1>3. QED BY <1>1, <1>2, ReaderSteps, RequestSteps DEF SettingsNext

LEMMA HealthRests == ASSUME HealthInv, UNCHANGED healthVars PROVE HealthInv'
BY DEF HealthInv, healthVars

\* The list asks for the health of plugins that are registered, and probes end.
LEMMA ListingHealth ==
    ASSUME RegistryInv, HealthInv, ListStep \/ \E i \in Id, v \in Version : ProbeEnds(i, v)
    PROVE  HealthInv'
<1>0. \A i \in Id : health[i] \in Health
  BY DEF HealthInv
<1>1. ASSUME NEW i \in Id, ReadRecord(i) PROVE HealthInv'
  <2>1. registry[i] \in PluginRecord
    BY <1>1 DEF ReadRecord, RegistryInv, RegistryShape
  <2>2. list' \in [id : Id, url : Version] /\ UNCHANGED <<health, flying>>
    BY <1>1, <2>1 DEF ReadRecord, PluginRecord
  <2>3. QED BY <2>2 DEF HealthInv
<1>2. CASE AskHealth
  <2> DEFINE i == list.id
             v == list.url
             e == health[i]
             new == [e EXCEPT !.there = TRUE, !.fetching = e.fetching \/ NeedsFetch(e)]
  <2>1. i \in Id /\ v \in Version /\ e \in Health
    BY <1>0, <1>2 DEF AskHealth, HealthInv
  <2>2. new \in Health /\ new.there
    BY <2>1 DEF Health, NeedsFetch
  <2>3. health' = [health EXCEPT ![i] = new]
    BY <1>2, <2>1 DEF AskHealth, HealthInv, Health
  <2>4. flying' = [flying EXCEPT ![<<i, v>>] = @ + 1] \/ flying' = flying
    BY <1>2 DEF AskHealth
  <2>5. list' = None
    BY <1>2 DEF AskHealth
  <2> HIDE DEF i, v, e, new
  <2>6. health' \in [Id -> Health] /\ \A x \in Id : health'[x].fetching => health'[x].there
    BY <2>1, <2>2, <2>3 DEF HealthInv
  <2>7. flying' \in [Id \X Version -> Nat]
    <3>1. flying \in [Id \X Version -> Nat] /\ <<i, v>> \in Id \X Version
      BY <2>1 DEF HealthInv
    <3>2. flying[<<i, v>>] + 1 \in Nat
      BY <3>1
    <3>3. QED BY <2>4, <3>1, <3>2
  <2>8. QED BY <2>5, <2>6, <2>7 DEF HealthInv
<1>3. ASSUME NEW i \in Id, HealthExpires(i) PROVE HealthInv'
  <2> DEFINE new == [health[i] EXCEPT !.fresh = FALSE]
  <2>1. new \in Health /\ new.there = health[i].there /\ new.fetching = health[i].fetching
    BY <1>0 DEF Health
  <2>2. health' = [health EXCEPT ![i] = new] /\ UNCHANGED <<flying, list>>
    BY <1>3 DEF HealthExpires
  <2> HIDE DEF new
  <2>3. QED BY <2>1, <2>2 DEF HealthInv
<1>4. ASSUME NEW i \in Id, NEW v \in Version, ProbeEnds(i, v) PROVE HealthInv'
  <2> DEFINE new == [there |-> TRUE, url |-> v, fresh |-> TRUE, fetching |-> FALSE]
  <2>1. new \in Health /\ new.there
    BY DEF Health
  <2>2. health' = [health EXCEPT ![i] = new] \/ health' = health
    BY <1>4 DEF ProbeEnds
  <2> HIDE DEF new
  <2>3. health' \in [Id -> Health] /\ \A x \in Id : health'[x].fetching => health'[x].there
    BY <2>1, <2>2 DEF HealthInv
  <2>4. flying' \in [Id \X Version -> Nat] /\ list' = list
    <3>1. flying \in [Id \X Version -> Nat] /\ <<i, v>> \in Id \X Version
      BY DEF HealthInv
    <3>2. flying[<<i, v>>] > 0 /\ flying' = [flying EXCEPT ![<<i, v>>] = @ - 1] /\ list' = list
      BY <1>4 DEF ProbeEnds
    <3>3. flying[<<i, v>>] - 1 \in Nat
      BY <3>1, <3>2
    <3>4. QED BY <3>1, <3>2, <3>3
  <2>5. QED BY <2>3, <2>4 DEF HealthInv
<1>5. QED BY <1>1, <1>2, <1>3, <1>4 DEF ListStep

\* Requests of the plugin centre: one of their steps empties an entry of the cache.
LEMMA CentreHealth ==
    ASSUME RegistryInv, HealthInv, NEW a \in Admin, CentreStep(a)
    PROVE  HealthInv'
<1>1. CASE ForgetHealth(a)
  <2>1. health' = [health EXCEPT ![centre[a].id] = NoEntry] /\ UNCHANGED <<flying, list>>
    BY <1>1 DEF ForgetHealth, Dropped
  <2>2. NoEntry \in Health /\ ~NoEntry.fetching
    BY DEF NoEntry, Health
  <2>3. QED BY <2>1, <2>2 DEF HealthInv
<1>2. CASE UNCHANGED healthVars
  BY <1>2, HealthRests
<1>3. QED
  BY <1>1, <1>2 DEF CentreStep, CreateRow, SaveRow, SyncRegistry, DeleteRow, Unregister,
                    SwitchRow, SwitchRecord

\* The plugin centre changes no copy of a setting, and spends from the bounds at most.
LEMMA CentreCaches ==
    ASSUME CachesInv, PlanInv, NEW a \in Admin,
           \/ CentreStep(a) \/ \E m \in Manifest : Import(a, m)
           \/ \E i \in Id : Delete(a, i) \/ \E on \in BOOLEAN : SetEnabled(a, i, on)
    PROVE  CachesInv' /\ PlanInv'
<1>1. UNCHANGED keptSettings /\ (UNCHANGED plan \/ \E kind : Spend(kind))
  <2>1. CASE CentreStep(a)
    BY <2>1 DEF CentreStep, CreateRow, SaveRow, ForgetHealth, SyncRegistry, DeleteRow, Unregister,
                SwitchRow, SwitchRecord, Fails
  <2>2. CASE ~CentreStep(a)
    BY <2>2 DEF Import, Delete, SetEnabled, Begin
  <2>3. QED BY <2>1, <2>2
<1>2. UNCHANGED <<rows, cache, reader, up, open, failures>>
  BY <1>1 DEF keptSettings, breakerVars
<1>3. CachesInv'
  BY <1>2, RequestWrites DEF CachesInv, KeyRows
<1>4. QED BY <1>1, <1>3, SpendKeeps DEF PlanInv

LEMMA RestartTypes ==
    ASSUME CachesInv, PlanInv, Restart
    PROVE  CachesInv' /\ PlanInv' /\ HealthInv'
<1>1. /\ Spend("restart") /\ cache' = Fresh /\ reader' = [r \in Reader |-> IdleReader]
      /\ rows' = [x \in Key \cup Field |-> IF x \in Key THEN Meaning(x) ELSE rows[x]]
      /\ failures' = 0 /\ open' = FALSE /\ up' = up
      /\ health' = [i \in Id |-> NoEntry] /\ flying' = NoProbe /\ list' = None
  BY DEF Restart, RestartSettings
<1>2. \A k \in Key : Meaning(k) \in Values
  BY KeyMeaning DEF CachesInv
<1>3. KeyRows'
  BY <1>1, <1>2 DEF KeyRows
<1>4. Fresh \in [Key -> Cached]
  BY DEF Fresh, Cached
<1>5. IdleReader \in Readers /\ IdleReader.at = "idle"
  BY DEF IdleReader, Readers
<1>6. reader' \in [Reader -> Readers] /\ \A r \in Reader : reader'[r].at # "store"
  <2>1. reader' = [r \in Reader |-> IdleReader]
    BY <1>1
  <2>2. \A r \in Reader : reader'[r] = IdleReader
    BY <2>1
  <2>3. \A r \in Reader : reader'[r].at = "idle"
    BY <1>5, <2>2
  <2>4. QED BY <1>5, <2>1, <2>3
<1>7. CachesInv'
  BY <1>1, <1>3, <1>4, <1>6, ZeroInBounds DEF CachesInv
<1>8. HealthInv'
  BY <1>1 DEF HealthInv, NoEntry, Health, NoProbe
<1>9. QED BY <1>1, <1>7, <1>8, SpendKeeps

TypeInv == IInv /\ CachesInv /\ PlanInv /\ HealthInv

LEMMA TypeStep == TypeInv /\ [Next]_vars => TypeInv'
<1> SUFFICES ASSUME TypeInv, [Next]_vars PROVE TypeInv'
  OBVIOUS
<1>0. IInv' /\ ConfigInv /\ RegistryInv
  BY Inductive DEF TypeInv, IInv
<1> USE DEF TypeInv
<1>1. CASE SettingsNext /\ UNCHANGED pluginVars
  BY <1>0, <1>1, SettingsStep, HealthRests DEF pluginVars, healthVars
<1>2. CASE \E a \in Admin : \/ \E m \in Manifest : Import(a, m)
                            \/ \E i \in Id : \/ Delete(a, i)
                                             \/ \E on \in BOOLEAN : SetEnabled(a, i, on)
  <2>1. UNCHANGED healthVars
    BY <1>2 DEF Import, Delete, SetEnabled, Begin
  <2>2. QED BY <1>0, <1>2, <2>1, CentreCaches, HealthRests
<1>3. CASE \E a \in Admin : CentreStep(a)
  BY <1>0, <1>3, CentreCaches, CentreHealth
<1>4. CASE ListStep \/ \E i \in Id, v \in Version : ProbeEnds(i, v)
  <2>1. UNCHANGED <<rows, cache, reader, up, open, failures, plan>>
    BY <1>4 DEF ListStep, AskHealth, ReadRecord, HealthExpires, ProbeEnds, unlisted, keptSettings,
                breakerVars
  <2>2. CachesInv' /\ PlanInv'
    BY <2>1, RequestWrites DEF CachesInv, KeyRows, PlanInv
  <2>3. QED BY <1>0, <1>4, <2>2, ListingHealth
<1>5. CASE Restart
  BY <1>0, <1>5, RestartTypes
<1>6. CASE UNCHANGED vars
  <2>1. UNCHANGED <<rows, cache, reader, up, open, failures, plan>> /\ UNCHANGED healthVars
    BY <1>6 DEF vars, settingsVars, pluginVars, healthVars
  <2>2. CachesInv' /\ PlanInv'
    BY <2>1, RequestWrites DEF CachesInv, KeyRows, PlanInv
  <2>3. QED BY <1>0, <2>1, <2>2, HealthRests
<1>7. QED BY <1>1, <1>2, <1>3, <1>4, <1>5, <1>6 DEF Next

\* Settings, caches, breaker, registry and health cache have their shape, whatever
\* requests, probes, restores, faults and starts there are: a cache holds a value that
\* is valid for its key, the count of failures stops at the threshold, no probe is
\* counted back below zero, and one is noted only in an entry that is there.
THEOREM TypeCorrect == Spec => []TypeOK
<1>1. Init => TypeInv
  <2> SUFFICES ASSUME Init PROVE TypeInv
    OBVIOUS
  <2>1. IInv /\ CachesInv /\ PlanInv
    BY ConfigInit, RegistryInitially, CachesInit DEF Init, IInv
  <2>2. HealthInv
    BY DEF Init, PluginsInit, HealthInv, NoEntry, Health, NoProbe
  <2>3. QED BY <2>1, <2>2 DEF TypeInv
<1>2. TypeInv => TypeOK
  <2> SUFFICES ASSUME TypeInv PROVE TypeOK
    OBVIOUS
  <2>1. SettingsTypeOK
    BY DEF TypeInv, IInv, ConfigInv, Shape, Requests, CachesInv, Cached, Readers, PlanInv,
           SettingsTypeOK
  <2>2. \A a \in Admin : centre[a].id \in Id \cup {None}
    BY DEF TypeInv, IInv, RegistryInv, RegistryShape, WellFormed
  <2>3. QED
    BY <2>1, <2>2 DEF TypeInv, IInv, RegistryInv, RegistryShape, HealthInv, Health, TypeOK
<1>3. QED BY <1>1, <1>2, TypeStep, PTL DEF Spec

=============================================================================
