------------------------------ MODULE Sessions ------------------------------
(* Users, their sessions and the requests that change them: service/auth.go,  *)
(* handler/auth.go, the user operations of service/admin.go, util/jwt.go,     *)
(* util/challenge.go.  The database has one connection, so a statement and a  *)
(* transaction are atomic; a request is several of them.                      *)
EXTENDS Integers, FiniteSets

CONSTANTS
    User, Admin,        \* names of accounts, and those that start as ADMIN
    Device,             \* browsers, each with its cookie
    Request,            \* requests in flight
    Challenge,          \* challenges the model issues, and the families they open
    MaxItems, PerIP, TTL, \* of ChallengeStore
    Changes,            \* what administrators send to UpdateUser
    Lifetime,           \* JWT_REFRESH_EXPIRES_IN, in seconds
    MaxTime, MaxEpoch, MaxDeleted, \* bounds of the model: seconds that pass, new
                        \* passwords of an account, accounts of a name that are deleted
    None

ASSUME SessionsAssumption ==
    /\ Admin \subseteq User /\ None \notin User \cup Device \cup Challenge
    /\ {MaxItems, PerIP, Lifetime} \subseteq Nat \ {0}
    /\ {TTL, MaxTime, MaxEpoch, MaxDeleted} \subseteq Nat

VARIABLES
    now,                \* the second
    user,               \* users: role, isActive and how often the password changed
    tokens,             \* refresh_tokens
    cookie, held,       \* each device's refreshToken cookie and challenge (external)
    store,              \* ChallengeStore: the entries
    request,
    raced,              \* history: families with a request in flight when the password changed
    twins               \* history: families whose token another session was given as well

vars == <<now, user, tokens, cookie, held, store, request, raced, twins>>

\* A JWT has no identifier of its own: two that are signed for a user in the same
\* second are the same string.  The request has read the user earlier.
Sign(req) == [user |-> req.user, id |-> req.id, role |-> req.role, iat |-> now]
Token == [user : User, id : Nat, role : {"ADMIN", "USER"}, iat : 0..MaxTime]
Verify(t) == t # None /\ now < t.iat + Lifetime

Row == [token : Token, family : Challenge, epoch : 0..MaxEpoch]
Account == [status : {"none", "active", "disabled"}, role : {"ADMIN", "USER"},
            epoch : 0..MaxEpoch, id : Nat]
Entry == [id : Challenge, ip : Device, issuedAt : 0..MaxTime]

NewUser(id, role) == [status |-> "active", role |-> role, epoch |-> 0, id |-> id]
NoUser(id) == [status |-> "none", role |-> "USER", epoch |-> 0, id |-> id]

\* The request fields of UpdateUser; None is a field that is not sent.
NoChange == [role |-> None, active |-> None]
ASSUME ChangesAssumption ==
    Changes \subseteq [role : {"ADMIN", "USER", None}, active : BOOLEAN \cup {None}] \ {NoChange}

\* What a request has read: the user with its role, and for one that issues tokens the
\* family and the epoch (the password it was let in with, a history of the model).
Idle == [at |-> "idle", user |-> None, id |-> 0, device |-> None, token |-> None, family |-> None,
         epoch |-> 0, role |-> None, change |-> NoChange]
Steps == {"idle", "create", "consume", "issue", "store", "update", "delete"}

Init == /\ now = 0
        /\ user = [u \in User |-> IF u \in Admin THEN NewUser(0, "ADMIN") ELSE NoUser(0)]
        /\ tokens = {} /\ store = {}
        /\ cookie = [d \in Device |-> None]
        /\ held = [d \in Device |-> None]
        /\ request = [r \in Request |-> Idle]
        /\ raced = {} /\ twins = {}

OfUser(u, id) == {row \in tokens : row.token.user = u /\ row.token.id = id}
OfFamily(f) == {row \in tokens : row.family = f}
WithToken(t) == {row \in tokens : row.token = t}
Exists(u) == user[u].status # "none"
MayLogin(u) == user[u].status = "active"

\* The account that the request read is still there.
Is(r) == Exists(request[r].user) /\ user[request[r].user].id = request[r].id

To(r, rec) == request' = [request EXCEPT ![r] = rec]
Answer(r, c) == /\ To(r, Idle)
                /\ cookie' = [cookie EXCEPT ![request[r].device] = c]

Tick == /\ now < MaxTime
        /\ now' = now + 1
        /\ UNCHANGED <<user, tokens, cookie, held, store, request, raced, twins>>

-----------------------------------------------------------------------------
(* ChallengeStore.                                                           *)

Live(entry) == now <= entry.issuedAt + TTL

\* Each accepted login opens a family, which the model names after its challenge.
Unused(c) == /\ \A d \in Device : held[d] # c
             /\ \A r \in Request : request[r].family # c
             /\ OfFamily(c) = {}

\* What is left of the entries when there must be room for one more: a full store
\* loses its oldest entry (of one second, any).
\* Mutant of Evicted: the store is not bounded.
EvictedNone(entries) == {entries}
Oldest(entries) == {e \in entries : \A other \in entries : e.issuedAt <= other.issuedAt}
Evicted(entries) == IF Cardinality(entries) >= MaxItems
                      THEN {entries \ {e} : e \in Oldest(entries)} ELSE {entries}

\* Expired entries go first; then a device with too many is refused.
Issue(d, c) ==
    LET swept == {e \in store : Live(e)} IN
    /\ Unused(c) /\ \A e \in store : e.id # c
    /\ Cardinality({e \in swept : e.ip = d}) < PerIP
    /\ \E kept \in Evicted(swept) :
           store' = kept \cup {[id |-> c, ip |-> d, issuedAt |-> now]}
    /\ held' = [held EXCEPT ![d] = c]
    /\ raced' = raced \ {c} /\ twins' = twins \ {c}
    /\ UNCHANGED <<now, user, tokens, cookie, request>>

Without(c) == {e \in store : e.id # c}

\* A challenge is good once, whatever becomes of the request that used it.
Consume(d) ==
    /\ held[d] # None
    /\ \E e \in store : e.id = held[d] /\ Live(e)
    /\ store' = Without(held[d])

-----------------------------------------------------------------------------
(* AuthService.  A request reads, takes its time over bcrypt, and writes.    *)

\* A name can be registered again after its account is deleted, with another id.
Register(r, d, u) ==
    /\ request[r] = Idle /\ Consume(d)
    /\ ~Exists(u) /\ user[u].id <= MaxDeleted
    /\ To(r, [Idle EXCEPT !.at = "create", !.user = u, !.device = d, !.family = held[d]])
    /\ UNCHANGED <<now, user, tokens, cookie, held, raced, twins>>

\* The name is unique in the table.
CreateUser(r) ==
    LET u == request[r].user IN
    /\ request[r].at = "create"
    /\ IF Exists(u)
         THEN To(r, Idle) /\ UNCHANGED user
         ELSE /\ user' = [user EXCEPT ![u] = NewUser(@.id, "USER")]
              /\ To(r, [request[r] EXCEPT !.at = "issue", !.id = user[u].id, !.role = "USER"])
    /\ UNCHANGED <<now, tokens, cookie, held, store, raced, twins>>

Login(r, d, u) ==
    /\ request[r] = Idle /\ Consume(d)
    /\ MayLogin(u)
    /\ To(r, [Idle EXCEPT !.at = "issue", !.user = u, !.device = d, !.family = held[d],
                          !.id = user[u].id, !.epoch = user[u].epoch, !.role = user[u].role])
    /\ UNCHANGED <<now, user, tokens, cookie, held, raced, twins>>

MayRefresh(t) == MayLogin(t.user) /\ user[t.user].id = t.id

\* A token that is not in the table has been used: every session of its user ends.
Refresh(r, d) ==
    LET t == cookie[d] IN
    /\ request[r] = Idle /\ Verify(t)
    /\ IF WithToken(t) = {}
         THEN /\ tokens' = tokens \ OfUser(t.user, t.id)
              /\ cookie' = [cookie EXCEPT ![d] = None]
              /\ UNCHANGED request
         ELSE LET row == CHOOSE row \in WithToken(t) : TRUE IN
              /\ MayRefresh(t)
              /\ To(r, [Idle EXCEPT !.at = "consume", !.user = t.user, !.id = t.id, !.device = d,
                                    !.role = user[t.user].role, !.token = t,
                                    !.family = row.family, !.epoch = row.epoch])
              /\ UNCHANGED <<tokens, cookie>>
    /\ UNCHANGED <<now, user, held, store, raced, twins>>

\* Refused: the token has expired, or its user is gone or disabled.
RefreshRefused(d) ==
    /\ cookie[d] # None
    /\ ~Verify(cookie[d]) \/ (WithToken(cookie[d]) # {} /\ ~MayRefresh(cookie[d]))
    /\ cookie' = [cookie EXCEPT ![d] = None]
    /\ UNCHANGED <<now, user, tokens, held, store, request, raced, twins>>

\* Mutant of WonRace: the number of rows deleted is not looked at.
WonRaceAlways(r) == TRUE
WonRace(r) == WithToken(request[r].token) # {}

ConsumeToken(r) ==
    /\ request[r].at = "consume"
    /\ IF WonRace(r)
         THEN /\ tokens' = tokens \ WithToken(request[r].token)
              /\ To(r, [request[r] EXCEPT !.at = "issue"])
              /\ UNCHANGED cookie
         ELSE /\ tokens' = tokens \ (OfFamily(request[r].family)
                                     \cap OfUser(request[r].user, request[r].id))
              /\ Answer(r, None)
    /\ UNCHANGED <<now, user, held, store, raced, twins>>

\* The requests of other sessions that will still look for the string that r signs.
Twins(r) == {q \in Request : /\ request[q].at = "consume"
                             /\ request[q].token = Sign(request[r])
                             /\ request[q].family # request[r].family}

\* The token column is unique and the user must exist.  A refresh that fails here
\* has lost its old token; a login that fails changes nothing.
issueTokens(r) ==
    LET req == request[r]
        t   == Sign(req)
    IN
    /\ request[r].at = "issue"
    /\ IF Is(r) /\ WithToken(t) = {}
         THEN /\ tokens' = tokens \cup {[token |-> t, family |-> req.family, epoch |-> req.epoch]}
              /\ twins' = twins \cup {request[q].family : q \in Twins(r)}
              /\ Answer(r, t)
         ELSE /\ Answer(r, IF req.token = None THEN cookie[req.device] ELSE None)
              /\ UNCHANGED <<tokens, twins>>
    /\ UNCHANGED <<now, user, held, store, raced>>

Logout(d) ==
    /\ cookie[d] # None
    /\ tokens' = tokens \ WithToken(cookie[d])
    /\ cookie' = [cookie EXCEPT ![d] = None]
    /\ UNCHANGED <<now, user, held, store, request, raced, twins>>

ChangePassword(r, d, u) ==
    /\ request[r] = Idle /\ Consume(d)
    /\ Exists(u) /\ user[u].epoch < MaxEpoch
    /\ To(r, [Idle EXCEPT !.at = "store", !.user = u, !.id = user[u].id, !.device = d])
    /\ UNCHANGED <<now, user, tokens, cookie, held, raced, twins>>

\* Mutant of Revoked: only the family of the device that asks.
RevokedHere(r) == WithToken(cookie[request[r].device])
Revoked(r) == OfUser(request[r].user, request[r].id)

InFlight(r) == {q \in Request : request[q].user = request[r].user /\ request[q].family # None}

StorePassword(r) ==
    LET u == request[r].user IN
    /\ request[r].at = "store"
    /\ user' = [user EXCEPT ![u].epoch = IF Is(r) /\ @ < MaxEpoch THEN @ + 1 ELSE @]
    /\ tokens' = tokens \ Revoked(r)
    /\ raced' = raced \cup {request[q].family : q \in InFlight(r)}
    /\ Answer(r, None)
    /\ UNCHANGED <<now, held, store, twins>>

-----------------------------------------------------------------------------
(* AdminService.  The access token names the role its bearer had.            *)

UpdateUser(r, actor, u, change) ==
    /\ request[r] = Idle
    /\ Exists(actor) /\ user[actor].role = "ADMIN"
    /\ Exists(u)
    /\ ~(u = actor /\ change.active = FALSE)
    /\ To(r, [Idle EXCEPT !.at = "update", !.user = u, !.id = user[u].id, !.role = user[u].role,
                          !.change = change])
    /\ UNCHANGED <<now, user, tokens, cookie, held, store, raced, twins>>

Demotes(r) == request[r].role = "ADMIN" /\ request[r].change.role = "USER"
ActiveAdmins == {u \in User : MayLogin(u) /\ user[u].role = "ADMIN"}

\* Mutant of MayDemote: any number of admins will do.
MayDemoteLast(r) == TRUE
MayDemote(r) == Demotes(r) => Cardinality(ActiveAdmins) > 1

Updated(acc, change) ==
    [acc EXCEPT !.role = IF change.role = None THEN @ ELSE change.role,
                !.status = CASE change.active = None -> @
                                  [] change.active = TRUE -> "active" [] OTHER -> "disabled"]

\* The count and the UPDATE are one transaction.
StoreUser(r) ==
    LET u == request[r].user IN
    /\ request[r].at = "update"
    /\ user' = IF MayDemote(r) /\ Is(r)
                 THEN [user EXCEPT ![u] = Updated(@, request[r].change)] ELSE user
    /\ To(r, Idle)
    /\ UNCHANGED <<now, tokens, cookie, held, store, raced, twins>>

DeleteUser(r, actor, u) ==
    /\ request[r] = Idle
    /\ Exists(actor) /\ user[actor].role = "ADMIN"
    /\ Exists(u) /\ user[u].role # "ADMIN" /\ user[u].id < MaxDeleted
    /\ To(r, [Idle EXCEPT !.at = "delete", !.user = u, !.id = user[u].id])
    /\ UNCHANGED <<now, user, tokens, cookie, held, store, raced, twins>>

\* The sessions of a user go with the row.
RemoveUser(r) ==
    LET u == request[r].user IN
    /\ request[r].at = "delete"
    /\ user' = [user EXCEPT ![u] = IF Is(r) THEN NoUser(@.id + 1) ELSE @]
    /\ tokens' = tokens \ OfUser(u, request[r].id)
    /\ To(r, Idle)
    /\ UNCHANGED <<now, cookie, held, store, raced, twins>>

-----------------------------------------------------------------------------
Begin(r) == \/ \E d \in Device : Refresh(r, d)
            \/ \E d \in Device, u \in User :
                   Register(r, d, u) \/ Login(r, d, u) \/ ChangePassword(r, d, u)
            \/ \E actor, u \in User : DeleteUser(r, actor, u)
            \/ \E actor, u \in User, change \in Changes : UpdateUser(r, actor, u, change)

Finish(r) == \/ CreateUser(r) \/ ConsumeToken(r) \/ issueTokens(r) \/ StorePassword(r)
             \/ StoreUser(r) \/ RemoveUser(r)

Next == \/ \E r \in Request : Begin(r) \/ Finish(r)
        \/ \E d \in Device : \/ Logout(d) \/ RefreshRefused(d)
                             \/ \E c \in Challenge : Issue(d, c)
        \/ Tick

Spec == Init /\ [][Next]_vars

-----------------------------------------------------------------------------
TypeOK ==
    /\ now \in 0..MaxTime
    /\ user \in [User -> Account]
    /\ tokens \subseteq Row
    /\ cookie \in [Device -> Token \cup {None}]
    /\ held \in [Device -> Challenge \cup {None}]
    /\ store \subseteq Entry /\ IsFiniteSet(store) /\ Cardinality(store) <= MaxItems
    /\ raced \subseteq Challenge /\ twins \subseteq Challenge
    /\ DOMAIN request = Request
    /\ \A r \in Request : /\ request[r].at \in Steps
                          /\ request[r].user \in User \cup {None}
                          /\ request[r].family \in Challenge \cup {None}
                          /\ request[r].change \in Changes \cup {NoChange}

\* What a family can still be used by: its tokens and the requests that will issue one.
Usable(f) == Cardinality(OfFamily(f))
             + Cardinality({r \in Request : /\ request[r].family = f
                                           /\ request[r].at \in {"create", "issue"}})

\* Rotation: however many requests present one token at once, or one login twice, a
\* family has one token that can still be used, or one request that will issue it,
\* unless another session was given the very string that a request of the family was
\* about to consume (auth.go:122-124, 161-180; challenge.go: an entry is consumed once).
OneTokenPerFamily == \A f \in Challenge \ twins : Usable(f) <= 1

\* One token is consumed once, whatever other sessions do (auth.go:124, 161-162).
RotatedOnce == \A f \in Challenge : Usable(f) <= 1

\* Of demotions that overlap, none takes the last active administrator away
\* (admin.go:168-169).
DemotionKeepsAnAdmin ==
    [][\A r \in Request : StoreUser(r) /\ Demotes(r) /\ user' # user
            => ActiveAdmins' # {}]_vars

\* ChangePassword ends the sessions of every device: one that outlives it has a
\* request that was between its read and its INSERT at that moment
\* (auth.go:207, 223-228).
SurvivorWasInFlight ==
    \A row \in tokens : /\ row.token.id = user[row.token.user].id
                       /\ row.epoch < user[row.token.user].epoch
                       => row.family \in raced

=============================================================================
