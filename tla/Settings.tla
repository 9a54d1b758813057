------------------------------ MODULE Settings ------------------------------
(* The rows of system_settings and what the process keeps of them: the three  *)
(* caches (allowed extensions of the media proxy, the rate limiter's switch,  *)
(* the captcha's configuration), the subtitle configuration that requests     *)
(* change and the start loads, and the circuit breaker in front of the        *)
(* captcha service.  service/admin.go, proxy.go, captcha.go,                  *)
(* subtitle_settings.go, middleware/ratelimit.go and the restore of a backup. *)
EXTENDS Integers, FiniteSets

CONSTANTS
    Admin,              \* requests of administrators in flight
    Reader,             \* requests that read a cached setting
    Field, Clearable,   \* fields of SubtitleConfig that requests change; those that
                        \* may be set to the empty string
    Threshold,          \* cbFailureThreshold
    Plans,              \* bounds of the model: which copies are in use, and how many
                        \* requests, restores, faults and restarts there are
    NoAdmin, None

Key == {"extensions", "rateLimit", "captcha"}
Values == {"on", "off"}                 \* of a key, the ones that are valid
Text == {"", "new"}                     \* what a request sends for a field
Kinds == {"setting", "patch", "plugin", "restore", "fault", "restart"}

ASSUME SettingsAssumption ==
    /\ Clearable \subseteq Field /\ Key \cap Field = {} /\ Threshold \in Nat \ {0}
    /\ NoAdmin \notin Admin /\ None \notin {"on", "off", "failed", "default", "new", ""}
    /\ \A p \in Plans : DOMAIN p = Kinds \cup {"traffic"} /\ \A k \in Kinds : p[k] \in Nat

VARIABLES
    rows,               \* system_settings: a value of each key and field, or None
    cache,              \* the value kept of each key, and whether its TTL still runs
    reader,             \* requests that read
    request,            \* requests of administrators
    cfg, cfgMu,         \* *config.SubtitleConfig and the holder of its lock
    torn,               \* history: fields that a failure or a restore has left unlike the row
    up, failures, open, \* the captcha service (external), cbFailures, cbOpenUntil not passed
    plan                \* what is left of the bounds

settingsVars ==
    <<rows, cache, reader, request, cfg, cfgMu, torn, up, failures, open, plan>>

\* What a missing row means; also what EnsureDefaultSettings inserts.
Absent == [extensions |-> "on", rateLimit |-> "on", captcha |-> "off"]
Meaning(k) == IF rows[k] = None THEN Absent[k] ELSE rows[k]

\* What a query that fails leaves in the cache: the default, the error for the captcha.
Failed(k) == IF k = "captcha" THEN "failed" ELSE Absent[k]

\* A request's text as it is stored: a field that cannot be cleared gets its default.
Normal(f, t) == IF t = "" /\ f \notin Clearable THEN "default" ELSE t

\* applySubtitleSettingRow: an empty row of such a field leaves the .env value.
Effective(f) ==
    IF rows[f] = None \/ (rows[f] = "" /\ f \notin Clearable) THEN "env" ELSE rows[f]

IdleReader == [at |-> "idle", key |-> None, got |-> None]
IdleRequest == [at |-> "idle", key |-> None, val |-> None, found |-> FALSE, patch |-> <<>>]

Fresh == [k \in Key |-> [val |-> None, fresh |-> FALSE]]

SettingsInit ==
    /\ plan \in Plans
    /\ rows = [k \in Key \cup Field |-> IF k \in Key THEN Absent[k] ELSE None]
    /\ cache = Fresh
    /\ reader = [r \in Reader |-> IdleReader]
    /\ request = [a \in Admin |-> IdleRequest]
    /\ cfg = [f \in Field |-> "env"] /\ cfgMu = NoAdmin /\ torn = {}
    /\ up = TRUE /\ failures = 0 /\ open = FALSE

Spend(kind) == plan[kind] > 0 /\ plan' = [plan EXCEPT ![kind] = @ - 1]
ToReader(r, rec) == reader' = [reader EXCEPT ![r] = rec]
ToRequest(a, rec) == request' = [request EXCEPT ![a] = rec]

configVars == <<cfg, cfgMu, torn>>
breakerVars == <<up, failures, open>>

-----------------------------------------------------------------------------
(* Reading.  A caller that finds the TTL running returns what is cached; one   *)
(* that does not asks the database and stores the answer later.  The queries   *)
(* of the limiter's switch are merged by singleflight: a second caller waits   *)
(* for the first one's.  (Its two atomic stores are one step: until the second *)
(* no caller reads the first.)                                                 *)

Query(r, k) ==
    /\ reader[r].at = "idle" /\ k \in plan.traffic /\ ~cache[k].fresh
    /\ k = "rateLimit" => \A q \in Reader : reader[q].key # k
    /\ \/ ToReader(r, [at |-> "store", key |-> k, got |-> Meaning(k)]) /\ UNCHANGED plan
       \/ Spend("fault") /\ ToReader(r, [at |-> "store", key |-> k, got |-> Failed(k)])
    /\ UNCHANGED <<rows, cache, request, configVars, breakerVars>>

\* The caller may be a login, which goes on with what it has read.
Store(r) ==
    /\ reader[r].at = "store"
    /\ cache' = [cache EXCEPT ![reader[r].key] = [val |-> reader[r].got, fresh |-> TRUE]]
    /\ \/ ToReader(r, IdleReader)
       \/ reader[r].key = "captcha" /\ reader[r].got = "on"
          /\ ToReader(r, [reader[r] EXCEPT !.at = "check"])
    /\ UNCHANGED <<rows, request, configVars, breakerVars, plan>>

\* The caches that a change of the setting empties; the captcha's has its TTL only.
Invalidated == {"extensions", "rateLimit"}

\* Mutant of CanExpire: a cache that is invalidated has no TTL.
CanExpireAlone(k) == cache[k].fresh /\ k \notin Invalidated
CanExpire(k) == cache[k].fresh
Expire(k) ==
    /\ CanExpire(k)
    /\ cache' = [cache EXCEPT ![k].fresh = FALSE]
    /\ UNCHANGED <<rows, reader, request, configVars, breakerVars, plan>>

-----------------------------------------------------------------------------
(* A login with the captcha on: the breaker, the service, and the record of    *)
(* the outcome, each under the lock on its own.                                *)

Login(r) ==
    /\ reader[r].at = "idle" /\ "captcha" \in plan.traffic
    /\ cache["captcha"] = [val |-> "on", fresh |-> TRUE]
    /\ ToReader(r, [at |-> "check", key |-> "captcha", got |-> "on"])
    /\ UNCHANGED <<rows, cache, request, configVars, breakerVars, plan>>

\* cbRecord.  Past the threshold the count no longer matters: it stops there.
Recorded(ok) ==
    IF ok THEN failures' = 0 /\ open' = FALSE
    ELSE /\ failures' = IF failures < Threshold THEN failures + 1 ELSE failures
         /\ open' = (open \/ failures' >= Threshold)

\* Mutant of Refused: being refused is recorded as one more failure.
RefusedCounts(r) == open /\ ToReader(r, [reader[r] EXCEPT !.at = "record", !.got = "bad"])
Refused(r) == open /\ ToReader(r, IdleReader)

CheckOpen(r) ==
    /\ reader[r].at = "check"
    /\ Refused(r) \/ (~open /\ ToReader(r, [reader[r] EXCEPT !.at = "verify"]))
    /\ UNCHANGED <<rows, cache, request, configVars, breakerVars, plan>>

\* The answer of siteverify, whatever it says of the token; or no answer: the service
\* is down, or the client has gone and its context with it.
Siteverify(r) ==
    /\ reader[r].at = "verify"
    /\ \/ up /\ ToReader(r, [reader[r] EXCEPT !.at = "record"]) /\ UNCHANGED plan
       \/ ~up /\ ToReader(r, [reader[r] EXCEPT !.at = "record", !.got = "bad"]) /\ UNCHANGED plan
       \/ up /\ Spend("fault") /\ ToReader(r, [reader[r] EXCEPT !.at = "record", !.got = "bad"])
    /\ UNCHANGED <<rows, cache, request, configVars, breakerVars>>

Record(r) ==
    /\ reader[r].at = "record"
    /\ Recorded(reader[r].got = "on")
    /\ ToReader(r, IdleReader)
    /\ UNCHANGED <<rows, cache, request, configVars, up, plan>>

Cooldown ==
    /\ open /\ open' = FALSE
    /\ UNCHANGED <<rows, cache, reader, request, configVars, up, failures, plan>>

Outage ==
    /\ "captcha" \in plan.traffic /\ up /\ Spend("fault") /\ up' = FALSE
    /\ UNCHANGED <<rows, cache, reader, request, configVars, failures, open>>

Back ==
    /\ ~up /\ up' = TRUE
    /\ UNCHANGED <<rows, cache, reader, request, configVars, failures, open, plan>>

-----------------------------------------------------------------------------
(* Changing a setting: UpdateSetting looks for the row, then updates or        *)
(* inserts it; the handler empties the cache afterwards.                       *)

UpdateSetting(a, k, v) ==
    /\ request[a].at = "idle" /\ k \in plan.traffic /\ Spend("setting")
    /\ ToRequest(a, [IdleRequest EXCEPT !.at = "write", !.key = k, !.val = v,
                                        !.found = rows[k] # None])
    /\ UNCHANGED <<rows, cache, reader, configVars, breakerVars>>

\* The UPDATE of a row that a restore has deleted meanwhile changes nothing and reports
\* no error; the INSERT of one that is there by now does.
WriteSetting(a) ==
    LET k == request[a].key IN
    /\ request[a].at = "write"
    /\ \/ /\ request[a].found \/ rows[k] = None
          /\ rows' = IF request[a].found /\ rows[k] = None THEN rows
                     ELSE [rows EXCEPT ![k] = request[a].val]
          /\ ToRequest(a, IF k \in Invalidated THEN [request[a] EXCEPT !.at = "invalidate"]
                          ELSE IdleRequest)
          /\ UNCHANGED plan
       \/ /\ ~request[a].found /\ rows[k] # None
          /\ ToRequest(a, IdleRequest) /\ UNCHANGED <<rows, plan>>
       \/ Spend("fault") /\ ToRequest(a, IdleRequest) /\ UNCHANGED rows
    /\ UNCHANGED <<cache, reader, configVars, breakerVars>>

Emptied(ks) == [k \in Key |-> IF k \in ks THEN [cache[k] EXCEPT !.fresh = FALSE] ELSE cache[k]]

InvalidateSetting(a) ==
    /\ request[a].at = "invalidate"
    /\ cache' = Emptied({request[a].key})
    /\ ToRequest(a, IdleRequest)
    /\ UNCHANGED <<rows, reader, configVars, breakerVars, plan>>

-----------------------------------------------------------------------------
(* The subtitle configuration.  A patch writes the fields in memory and then   *)
(* the rows, in one transaction, all under cfgMu.  (Checks of the request, and *)
(* the API key that comes back masked and counts as not sent, come before.)    *)

\* The patches that pass validateSubtitleUpdate.
Patches == UNION {[fs -> Text] : fs \in SUBSET Field \ {{}}}
Given(f, p, new, old) == IF f \in DOMAIN p THEN new ELSE old

Unlocked == cfgMu = NoAdmin

PatchConfig(a, p) ==
    /\ request[a].at = "idle" /\ Unlocked /\ Spend("patch")
    /\ cfgMu' = a
    /\ cfg' = [f \in Field |-> Given(f, p, Normal(f, p[f]), cfg[f])]
    /\ ToRequest(a, [IdleRequest EXCEPT !.at = "commit", !.patch = p])
    /\ UNCHANGED <<rows, cache, reader, torn, breakerVars>>

\* A transaction that fails leaves the fields changed in memory.
CommitPatch(a) ==
    LET p == request[a].patch IN
    /\ request[a].at = "commit"
    /\ \/ /\ rows' = [x \in Key \cup Field |-> Given(x, p, Normal(x, p[x]), rows[x])]
          /\ torn' = torn \ DOMAIN p
          /\ UNCHANGED plan
       \/ Spend("fault") /\ torn' = torn \cup DOMAIN p /\ UNCHANGED rows
    /\ cfgMu' = NoAdmin
    /\ ToRequest(a, IdleRequest)
    /\ UNCHANGED <<cache, reader, cfg, breakerVars>>

-----------------------------------------------------------------------------
(* A restore replaces the table in its transaction: the keys by what the       *)
(* archive holds of them, the subtitle fields by nothing, since the whitelist  *)
(* does not have them.  The caches are emptied at its end; the configuration   *)
(* is not read again.                                                          *)

Restore(a, archive) ==
    /\ request[a].at = "idle" /\ Spend("restore")
    /\ rows' = [x \in Key \cup Field |-> IF x \in DOMAIN archive THEN archive[x] ELSE None]
    /\ torn' = Field
    /\ ToRequest(a, [IdleRequest EXCEPT !.at = "restored"])
    /\ UNCHANGED <<cache, reader, cfg, cfgMu, breakerVars>>

Invalidators(a) ==
    /\ request[a].at = "restored"
    /\ cache' = Emptied(Invalidated)
    /\ ToRequest(a, IdleRequest)
    /\ UNCHANGED <<rows, reader, configVars, breakerVars, plan>>

\* A start: missing defaults are inserted, the configuration is read from the rows.
RestartSettings ==
    /\ Spend("restart")
    /\ rows' = [x \in Key \cup Field |-> IF x \in Key THEN Meaning(x) ELSE rows[x]]
    /\ cache' = Fresh
    /\ reader' = [r \in Reader |-> IdleReader]
    /\ request' = [a \in Admin |-> IdleRequest]
    /\ cfg' = [f \in Field |-> Effective(f)] /\ cfgMu' = NoAdmin /\ torn' = {}
    /\ failures' = 0 /\ open' = FALSE /\ UNCHANGED up

\* An archive has a value of every key or, an old one, of none.
Archives == {<<>>} \cup [Key -> Values]

ReaderStep(r) == Store(r) \/ CheckOpen(r) \/ Siteverify(r) \/ Record(r)

RequestStep(a) ==
    WriteSetting(a) \/ InvalidateSetting(a) \/ CommitPatch(a) \/ Invalidators(a)

SettingsNext ==
    \/ \E r \in Reader : ReaderStep(r) \/ Login(r) \/ \E k \in Key : Query(r, k)
    \/ \E k \in Key : Expire(k)
    \/ Cooldown \/ Outage \/ Back
    \/ \E a \in Admin : \/ RequestStep(a)
                        \/ \E k \in Key, v \in Values : UpdateSetting(a, k, v)
                        \/ \E p \in Patches : PatchConfig(a, p)
                        \/ \E archive \in Archives : Restore(a, archive)

\* Requests that read come to an end, time passes, the captcha service comes back.
SettingsFairness ==
    /\ \A r \in Reader : WF_settingsVars(ReaderStep(r))
    /\ \A k \in Key : WF_settingsVars(Expire(k))
    /\ WF_settingsVars(Cooldown) /\ WF_settingsVars(Back)

-----------------------------------------------------------------------------
\* The type invariant.
SettingsTypeOK ==
    /\ rows \in [Key \cup Field -> Values \cup {"default", "new", "", None}]
    /\ \A k \in Key : cache[k].val \in Values \cup {"failed", None}
    /\ \A r \in Reader : reader[r].at \in {"idle", "store", "check", "verify", "record"}
    /\ \A a \in Admin : request[a].at \in
           {"idle", "write", "invalidate", "commit", "restored"}
    /\ cfg \in [Field -> {"env", "default", "new", ""}]
    /\ cfgMu \in Admin \cup {NoAdmin} /\ torn \subseteq Field
    /\ up \in BOOLEAN /\ open \in BOOLEAN /\ failures \in 0..Threshold
    /\ DOMAIN plan = Kinds \cup {"traffic"}

\* Whatever patches overlap and wherever the process dies, a field that no patch is
\* changing is in memory what a start would read from its row, unless a transaction
\* failed or a restore replaced the row (UpdateSettings and LoadSubtitleOverrides).
ConfigFollowsRows == \A f \in Field : cfgMu = NoAdmin /\ f \notin torn => cfg[f] = Effective(f)

\* What a reader of a setting gets: the cached value while its TTL runs.
Served(k) == IF cache[k].fresh THEN cache[k].val ELSE Meaning(k)

\* An answer that was read before a change and stored after the invalidation, or a failed
\* query's default, is served for a while only: in the end readers get the stored value.
SettingsAreServed == \A k \in Key : <>[](Served(k) = Meaning(k))

\* Once the captcha service answers again logins are no longer refused: failures that
\* arrive late may open the breaker again, but refusals do not keep it open.
BreakerCloses == <>[]~open
=============================================================================
