-------------------------- MODULE Sessions_proofs --------------------------
(***************************************************************************)
(* A session that outlives a change of the password was being issued when  *)
(* the password changed; a family has one token that can be used, unless   *)
(* its string has a twin; a demotion leaves an administrator: for any      *)
(* accounts, browsers and requests.                                        *)
(***************************************************************************)
EXTENDS Sessions, FiniteSetTheorems, TLAPS

Requests ==
    [at : Steps, user : User \cup {None}, id : Nat, device : Device \cup {None},
     token : Token \cup {None}, family : Challenge \cup {None}, epoch : 0..MaxEpoch,
     role : {"ADMIN", "USER", None}, change : Changes \cup {NoChange}]

\* A request that holds what a token is made of.
Issues(req) == req.at \in {"consume", "issue"}
Issuing(r) == Issues(request[r])

\* What a request knows at its step.
Knows(req) ==
    /\ req.at # "idle" => req.user \in User
    /\ req.at \in {"create", "consume", "issue"} => req.family \in Challenge
    /\ req.at = "create" => req.epoch = 0
    /\ Issues(req) => req.role \in {"ADMIN", "USER"}

TypeInv ==
    /\ now \in 0..MaxTime /\ user \in [User -> Account] /\ tokens \subseteq Row
    /\ cookie \in [Device -> Token \cup {None}] /\ held \in [Device -> Challenge \cup {None}]
    /\ request \in [Request -> Requests] /\ \A r \in Request : Knows(request[r])

\* No token and no request is of an account that is still to come.
Past == /\ \A row \in tokens : row.token.id <= user[row.token.user].id
        /\ \A r \in Request : Issuing(r) => request[r].id <= user[request[r].user].id

\* SurvivorWasInFlight, for the requests that will issue a token.
CarrierWasInFlight ==
    \A r \in Request : /\ Issuing(r)
                      /\ request[r].id = user[request[r].user].id
                      /\ request[r].epoch < user[request[r].user].epoch
                      => request[r].family \in raced

IInv == TypeInv /\ Past /\ SurvivorWasInFlight /\ CarrierWasInFlight

-----------------------------------------------------------------------------
LEMMA Constants ==
  /\ None \notin User /\ None \notin Device /\ None \notin Challenge
  /\ MaxTime \in Nat /\ MaxEpoch \in Nat /\ MaxDeleted \in Nat
  /\ 0 \in 0..MaxTime /\ 0 \in 0..MaxEpoch
  /\ Idle \in Requests /\ Idle.at = "idle" /\ Idle.epoch = 0
  BY SessionsAssumption DEF Idle, Requests, Steps

\* NoChange and a field that is not sent leave an account as it is.
LEMMA UpdatedAccount ==
  ASSUME NEW acc \in Account, NEW change \in Changes \cup {NoChange}
  PROVE  /\ Updated(acc, change) \in Account
         /\ Updated(acc, change).id = acc.id /\ Updated(acc, change).epoch = acc.epoch
<1>1. change.role \in {"ADMIN", "USER", None}
  BY ChangesAssumption DEF NoChange
<1> DEFINE role == IF change.role = None THEN acc.role ELSE change.role
           status == CASE change.active = None -> acc.status
                       [] change.active = TRUE -> "active" [] OTHER -> "disabled"
<1>2. role \in {"ADMIN", "USER"}
  BY <1>1 DEF Account
<1>3. status \in {"none", "active", "disabled"}
  BY DEF Account
<1>4. Updated(acc, change) = [acc EXCEPT !.role = role, !.status = status]
  BY DEF Updated
<1> HIDE DEF role, status
<1> QED BY <1>2, <1>3, <1>4 DEF Account

\* At the start there are administrators and no token, challenge or request.
THEOREM InitIInv == Init => IInv
<1> SUFFICES ASSUME Init PROVE IInv
  OBVIOUS
<1>1. \A u \in User : NewUser(0, "ADMIN") \in Account /\ NoUser(0) \in Account
  BY Constants DEF NewUser, NoUser, Account
<1>2. TypeInv
  BY <1>1, Constants DEF Init, TypeInv, Knows, Issues
<1>3. Past /\ SurvivorWasInFlight /\ CarrierWasInFlight
  BY Constants DEF Init, Past, SurvivorWasInFlight, CarrierWasInFlight, Issuing, Issues
<1> QED BY <1>2, <1>3 DEF IInv

-----------------------------------------------------------------------------
(* Types.                                                                  *)

LEMMA TypeTo ==
  ASSUME TypeInv, NEW r \in Request, NEW rec \in Requests, Knows(rec), To(r, rec)
  PROVE  request' \in [Request -> Requests] /\ \A q \in Request : Knows(request'[q])
  BY DEF TypeInv, To

LEMMA TypeIdle == Idle \in Requests /\ Knows(Idle)
  BY Constants DEF Knows, Issues, Idle

LEMMA BeginTypes ==
  ASSUME TypeInv, NEW r \in Request, Begin(r)
  PROVE  TypeInv'
<1>1. CASE \E d \in Device : Refresh(r, d)
  <2> PICK d \in Device : Refresh(r, d)
    BY <1>1
  <2>1. CASE WithToken(cookie[d]) = {}
    BY <2>1, Constants DEF Refresh, TypeInv, OfUser
  <2>2. CASE WithToken(cookie[d]) # {}
    <3> DEFINE t == cookie[d]
               row == CHOOSE row \in WithToken(t) : TRUE
               rec == [Idle EXCEPT !.at = "consume", !.user = t.user, !.id = t.id, !.device = d,
                                   !.role = user[t.user].role, !.token = t,
                                   !.family = row.family, !.epoch = row.epoch]
    <3>1. row \in tokens /\ t \in Token
      BY <2>2 DEF WithToken, Refresh, Verify, TypeInv
    <3>2. row \in Row /\ t.user \in User /\ t.id \in Nat /\ user[t.user] \in Account
      BY <3>1 DEF TypeInv, Token
    <3>3. row.family \in Challenge /\ row.epoch \in 0..MaxEpoch
          /\ user[t.user].role \in {"ADMIN", "USER"}
      BY <3>2 DEF Row, Account
    <3>4. To(r, rec) /\ UNCHANGED <<now, user, tokens, cookie, held>>
      BY <2>2 DEF Refresh
    <3> HIDE DEF t, row
    <3>5. rec \in Requests /\ Knows(rec)
      BY <3>1, <3>2, <3>3 DEF Idle, Requests, Steps, Knows, Issues
    <3> HIDE DEF rec
    <3> QED BY <3>4, <3>5, TypeTo DEF TypeInv
  <2> QED BY <2>1, <2>2
<1>2. CASE \E d \in Device, u \in User : Register(r, d, u)
  <2> PICK d \in Device, u \in User : Register(r, d, u)
    BY <1>2
  <2> DEFINE rec == [Idle EXCEPT !.at = "create", !.user = u, !.device = d, !.family = held[d]]
  <2>1. held[d] \in Challenge
    BY DEF Register, Consume, TypeInv
  <2>2. rec \in Requests /\ Knows(rec)
    BY <2>1, Constants DEF Idle, Requests, Steps, Knows, Issues
  <2>3. To(r, rec)
    BY DEF Register
  <2> HIDE DEF rec
  <2> QED BY <2>2, <2>3, TypeTo DEF TypeInv, Register
<1>3. CASE \E d \in Device, u \in User : Login(r, d, u)
  <2> PICK d \in Device, u \in User : Login(r, d, u)
    BY <1>3
  <2> DEFINE rec == [Idle EXCEPT !.at = "issue", !.user = u, !.device = d, !.family = held[d],
                                 !.id = user[u].id, !.epoch = user[u].epoch,
                                 !.role = user[u].role]
  <2>1. held[d] \in Challenge /\ user[u] \in Account
    BY DEF Login, Consume, TypeInv
  <2>2. rec \in Requests /\ Knows(rec)
    BY <2>1, Constants DEF Idle, Requests, Steps, Knows, Issues, Account
  <2>3. To(r, rec)
    BY DEF Login
  <2> HIDE DEF rec
  <2> QED BY <2>2, <2>3, TypeTo DEF TypeInv, Login
<1>4. CASE \E d \in Device, u \in User : ChangePassword(r, d, u)
  <2> PICK d \in Device, u \in User : ChangePassword(r, d, u)
    BY <1>4
  <2> DEFINE rec == [Idle EXCEPT !.at = "store", !.user = u, !.id = user[u].id, !.device = d]
  <2>1. user[u] \in Account
    BY DEF TypeInv
  <2>2. rec \in Requests /\ Knows(rec)
    BY <2>1, Constants DEF Idle, Requests, Steps, Knows, Issues, Account
  <2>3. To(r, rec)
    BY DEF ChangePassword
  <2> HIDE DEF rec
  <2> QED BY <2>2, <2>3, TypeTo DEF TypeInv, ChangePassword
<1>5. CASE \E actor, u \in User : DeleteUser(r, actor, u)
  <2> PICK actor \in User, u \in User : DeleteUser(r, actor, u)
    BY <1>5
  <2> DEFINE rec == [Idle EXCEPT !.at = "delete", !.user = u, !.id = user[u].id]
  <2>1. user[u] \in Account
    BY DEF TypeInv
  <2>2. rec \in Requests /\ Knows(rec)
    BY <2>1, Constants DEF Idle, Requests, Steps, Knows, Issues, Account
  <2>3. To(r, rec)
    BY DEF DeleteUser
  <2> HIDE DEF rec
  <2> QED BY <2>2, <2>3, TypeTo DEF TypeInv, DeleteUser
<1>6. CASE \E actor, u \in User, change \in Changes : UpdateUser(r, actor, u, change)
  <2> PICK actor \in User, u \in User, change \in Changes : UpdateUser(r, actor, u, change)
    BY <1>6
  <2> DEFINE rec == [Idle EXCEPT !.at = "update", !.user = u, !.id = user[u].id,
                                 !.role = user[u].role, !.change = change]
  <2>1. user[u] \in Account
    BY DEF TypeInv
  <2>2. rec \in Requests /\ Knows(rec)
    BY <2>1, Constants DEF Idle, Requests, Steps, Knows, Issues, Account
  <2>3. To(r, rec)
    BY DEF UpdateUser
  <2> HIDE DEF rec
  <2> QED BY <2>2, <2>3, TypeTo DEF TypeInv, UpdateUser
<1> QED BY <1>1, <1>2, <1>3, <1>4, <1>5, <1>6 DEF Begin

\* The answer of a request clears what it held; a cookie is a token or nothing.
LEMMA AnswerTypes ==
  ASSUME TypeInv, NEW r \in Request, NEW c \in Token \cup {None}, Answer(r, c)
  PROVE  /\ request' \in [Request -> Requests] /\ \A q \in Request : Knows(request'[q])
         /\ cookie' \in [Device -> Token \cup {None}]
  BY TypeIdle, TypeTo DEF Answer, TypeInv

LEMMA FinishTypes ==
  ASSUME TypeInv, NEW r \in Request, Finish(r)
  PROVE  TypeInv'
<1>1. request[r] \in Requests /\ Knows(request[r])
  BY DEF TypeInv
<1>2. CASE CreateUser(r)
  <2> DEFINE u == request[r].user
             rec == [request[r] EXCEPT !.at = "issue", !.id = user[u].id, !.role = "USER"]
  <2>1. u \in User /\ user[u] \in Account
    BY <1>1, <1>2 DEF CreateUser, Knows, TypeInv
  <2>2. rec \in Requests /\ Knows(rec)
    BY <1>1, <1>2, <2>1 DEF CreateUser, Requests, Steps, Knows, Issues, Account
  <2>3. NewUser(user[u].id, "USER") \in Account
    BY <2>1, Constants DEF NewUser, Account
  <2>4. CASE Exists(u)
    BY <1>2, <2>4, TypeIdle, TypeTo DEF CreateUser, TypeInv
  <2>5. CASE ~Exists(u)
    <3>1. To(r, rec) /\ user' \in [User -> Account]
      BY <1>2, <2>1, <2>3, <2>5 DEF CreateUser, TypeInv
    <3> HIDE DEF rec
    <3> QED BY <1>2, <2>2, <3>1, TypeTo DEF CreateUser, TypeInv
  <2> QED BY <2>4, <2>5
<1>3. CASE ConsumeToken(r)
  <2>1. [request[r] EXCEPT !.at = "issue"] \in Requests
        /\ Knows([request[r] EXCEPT !.at = "issue"])
    BY <1>1, <1>3 DEF ConsumeToken, Requests, Steps, Knows, Issues
  <2>2. CASE WonRace(r)
    BY <1>3, <2>1, <2>2, TypeTo DEF ConsumeToken, TypeInv, WithToken
  <2>3. CASE ~WonRace(r)
    BY <1>3, <2>3, AnswerTypes DEF ConsumeToken, TypeInv
  <2> QED BY <2>2, <2>3
<1>4. CASE issueTokens(r)
  <2> DEFINE t == Sign(request[r])
             row == [token |-> t, family |-> request[r].family, epoch |-> request[r].epoch]
  <2>1. t \in Token
    BY <1>1, <1>4 DEF issueTokens, Sign, Token, Knows, Issues, Requests, TypeInv
  <2>2. row \in Row
    BY <1>1, <1>4, <2>1 DEF issueTokens, Row, Knows, Issues, Requests
  <2>3. CASE Is(r) /\ WithToken(t) = {}
    BY <1>4, <2>1, <2>2, <2>3, AnswerTypes DEF issueTokens, TypeInv
  <2>4. CASE ~(Is(r) /\ WithToken(t) = {})
    <3>1. cookie[request[r].device] \in Token \cup {None} \/ request[r].device = None
      BY <1>1 DEF TypeInv, Requests
    <3>2. request' \in [Request -> Requests] /\ \A q \in Request : Knows(request'[q])
      BY <1>4, <2>4, TypeIdle, TypeTo DEF issueTokens, Answer
    <3>3. cookie' \in [Device -> Token \cup {None}]
      BY <1>4, <2>4, <3>1, Constants DEF issueTokens, Answer, TypeInv
    <3> QED BY <1>4, <2>4, <3>2, <3>3 DEF issueTokens, TypeInv
  <2> QED BY <2>3, <2>4
<1>5. CASE StorePassword(r)
  <2> DEFINE u == request[r].user
  <2>1. u \in User /\ user[u] \in Account
    BY <1>1, <1>5 DEF StorePassword, Knows, TypeInv
  <2>2. user' \in [User -> Account]
    <3>1. \A acc \in Account : acc.epoch < MaxEpoch => [acc EXCEPT !.epoch = @ + 1] \in Account
      BY Constants DEF Account
    <3> QED BY <1>5, <2>1, <3>1 DEF StorePassword, TypeInv, Account
  <2> QED BY <1>5, <2>2, AnswerTypes DEF StorePassword, TypeInv
<1>6. CASE StoreUser(r)
  <2>1. request[r].user \in User /\ request[r].change \in Changes \cup {NoChange}
    BY <1>1, <1>6 DEF StoreUser, Knows, Requests
  <2>2. Updated(user[request[r].user], request[r].change) \in Account
    BY <2>1, UpdatedAccount DEF TypeInv
  <2>3. user' \in [User -> Account]
    BY <1>6, <2>2 DEF StoreUser, TypeInv
  <2> QED BY <1>6, <2>3, TypeIdle, TypeTo DEF StoreUser, TypeInv
<1>7. CASE RemoveUser(r)
  <2>1. request[r].user \in User /\ NoUser(user[request[r].user].id + 1) \in Account
    BY <1>1, <1>7, Constants DEF RemoveUser, Knows, TypeInv, NoUser, Account
  <2>2. user' \in [User -> Account]
    BY <1>7, <2>1 DEF RemoveUser, TypeInv
  <2> QED BY <1>7, <2>2, TypeIdle, TypeTo DEF RemoveUser, TypeInv
<1> QED BY <1>2, <1>3, <1>4, <1>5, <1>6, <1>7 DEF Finish

\* What the browsers and the clock do.
Around == \/ \E d \in Device : \/ Logout(d) \/ RefreshRefused(d)
                              \/ \E c \in Challenge : Issue(d, c)
          \/ Tick

LEMMA AroundTypes == TypeInv /\ Around => TypeInv'
<1> SUFFICES ASSUME TypeInv, Around PROVE TypeInv'
  OBVIOUS
<1>1. CASE Tick
  BY <1>1, Constants DEF Tick, TypeInv
<1>2. CASE \E d \in Device : Logout(d) \/ RefreshRefused(d)
  <2> PICK d \in Device : Logout(d) \/ RefreshRefused(d)
    BY <1>2
  <2>1. cookie' = [cookie EXCEPT ![d] = None] /\ tokens' \subseteq tokens
    BY DEF Logout, RefreshRefused
  <2> QED BY <2>1 DEF Logout, RefreshRefused, TypeInv
<1>3. CASE \E d \in Device, c \in Challenge : Issue(d, c)
  <2> PICK d \in Device, c \in Challenge : Issue(d, c)
    BY <1>3
  <2>1. held' = [held EXCEPT ![d] = c] /\ UNCHANGED <<now, user, tokens, cookie, request>>
    BY DEF Issue
  <2> QED BY <2>1 DEF TypeInv
<1> QED BY <1>1, <1>2, <1>3 DEF Around

LEMMA TypeStep == TypeInv /\ [Next]_vars => TypeInv'
<1>1. TypeInv /\ UNCHANGED vars => TypeInv'
  BY DEF TypeInv, vars
<1> QED BY <1>1, BeginTypes, FinishTypes, AroundTypes DEF Next, Around

-----------------------------------------------------------------------------
(* The history.                                                            *)

\* A step that adds no token and starts no request that issues one.
LEMMA NothingNew ==
  ASSUME IInv, TypeInv', user' = user, raced' = raced, tokens' \subseteq tokens,
         \A r \in Request : Issuing(r)' => request'[r] = request[r]
  PROVE  IInv'
<1>1. \A r \in Request : Issuing(r)' => Issuing(r)
  BY DEF Issuing
<1>2. Past'
  BY <1>1 DEF IInv, Past
<1>3. SurvivorWasInFlight' /\ CarrierWasInFlight'
  BY <1>1 DEF IInv, SurvivorWasInFlight, CarrierWasInFlight
<1> QED BY <1>2, <1>3 DEF IInv

\* A request that issues tokens and has read what is true of the account now.
LEMMA NewCarrier ==
  ASSUME IInv, TypeInv', user' = user, raced' = raced, tokens' \subseteq tokens,
         NEW r \in Request,
         \A q \in Request : q # r => request'[q] = request[q],
         request'[r].id <= user[request'[r].user].id,
         /\ request'[r].id = user[request'[r].user].id
         /\ request'[r].epoch < user[request'[r].user].epoch
         => request'[r].family \in raced
  PROVE  IInv'
<1>1. Past'
  BY DEF IInv, Past, Issuing
<1>2. SurvivorWasInFlight' /\ CarrierWasInFlight'
  BY DEF IInv, SurvivorWasInFlight, CarrierWasInFlight, Issuing
<1> QED BY <1>1, <1>2 DEF IInv

LEMMA AroundStep == IInv /\ Around => IInv'
<1> SUFFICES ASSUME IInv, Around PROVE IInv'
  OBVIOUS
<1>1. TypeInv'
  BY AroundTypes DEF IInv
<1>2. CASE Tick \/ \E d \in Device : Logout(d) \/ RefreshRefused(d)
  BY <1>1, <1>2, NothingNew DEF Tick, Logout, RefreshRefused
\* A family that is opened has neither tokens nor requests.
<1>3. CASE \E d \in Device, c \in Challenge : Issue(d, c)
  <2> PICK d \in Device, c \in Challenge : Issue(d, c)
    BY <1>3
  <2>1. /\ \A row \in tokens : row.family # c
        /\ \A r \in Request : request[r].family # c
        /\ raced' = raced \ {c} /\ UNCHANGED <<user, tokens, request>>
    BY DEF Issue, Unused, OfFamily
  <2>2. Past'
    BY <2>1 DEF IInv, Past, Issuing
  <2>3. SurvivorWasInFlight' /\ CarrierWasInFlight'
    BY <2>1 DEF IInv, SurvivorWasInFlight, CarrierWasInFlight, Issuing
  <2> QED BY <1>1, <2>2, <2>3 DEF IInv
<1> QED BY <1>2, <1>3 DEF Around

LEMMA BeginStep ==
  ASSUME IInv, NEW r \in Request, Begin(r)
  PROVE  IInv'
<1>1. TypeInv' /\ TypeInv
  BY BeginTypes DEF IInv
<1>2. CASE \E d \in Device : Refresh(r, d)
  <2> PICK d \in Device : Refresh(r, d)
    BY <1>2
  <2>1. CASE WithToken(cookie[d]) = {}
    BY <1>1, <2>1, NothingNew DEF Refresh
  <2>2. CASE WithToken(cookie[d]) # {}
    <3> DEFINE t == cookie[d]
               row == CHOOSE row \in WithToken(t) : TRUE
    <3>1. row \in tokens /\ row.token = t /\ t.user \in User /\ t \in Token
      BY <1>1, <2>2 DEF WithToken, Refresh, Verify, TypeInv, Token
    <3>2. /\ UNCHANGED <<user, raced, tokens>>
          /\ user[t.user].id = t.id
          /\ To(r, [Idle EXCEPT !.at = "consume", !.user = t.user, !.id = t.id, !.device = d,
                                !.role = user[t.user].role, !.token = t,
                                !.family = row.family, !.epoch = row.epoch])
      BY <2>2 DEF Refresh, MayRefresh
    <3> HIDE DEF t, row
    <3>3. /\ request'[r].user = t.user /\ request'[r].id = t.id
          /\ request'[r].family = row.family /\ request'[r].epoch = row.epoch
          /\ \A q \in Request : q # r => request'[q] = request[q]
      BY <1>1, <3>2 DEF To, TypeInv, Idle
    <3>4. row.epoch < user[t.user].epoch => row.family \in raced
      BY <3>1, <3>2 DEF IInv, SurvivorWasInFlight
    <3>5. t.id <= user[t.user].id
      BY <3>1, <3>2 DEF IInv, Past
    <3> QED BY <1>1, <3>2, <3>3, <3>4, <3>5, NewCarrier
  <2> QED BY <2>1, <2>2
<1>3. CASE \E d \in Device, u \in User : Login(r, d, u)
  <2> PICK d \in Device, u \in User : Login(r, d, u)
    BY <1>3
  <2>1. /\ UNCHANGED <<user, raced, tokens>>
        /\ request'[r].user = u /\ request'[r].id = user[u].id
        /\ request'[r].epoch = user[u].epoch
        /\ \A q \in Request : q # r => request'[q] = request[q]
    BY <1>1 DEF Login, To, TypeInv, Idle
  <2>2. user[u].id \in Nat /\ user[u].epoch \in Nat
    BY <1>1, Constants DEF TypeInv, Account
  <2> QED BY <1>1, <2>1, <2>2, NewCarrier
<1>4. CASE \/ \E d \in Device, u \in User : Register(r, d, u) \/ ChangePassword(r, d, u)
           \/ \E actor, u \in User : DeleteUser(r, actor, u)
           \/ \E actor, u \in User, change \in Changes : UpdateUser(r, actor, u, change)
  <2>1. /\ UNCHANGED <<user, raced, tokens>>
        /\ request'[r].at \notin {"consume", "issue"}
        /\ \A q \in Request : q # r => request'[q] = request[q]
    <3>1. CASE \E d \in Device, u \in User : Register(r, d, u)
      BY <1>1, <3>1 DEF Register, To, TypeInv, Idle
    <3>2. CASE \E d \in Device, u \in User : ChangePassword(r, d, u)
      BY <1>1, <3>2 DEF ChangePassword, To, TypeInv, Idle
    <3>3. CASE \E actor, u \in User : DeleteUser(r, actor, u)
      BY <1>1, <3>3 DEF DeleteUser, To, TypeInv, Idle
    <3>4. CASE \E actor, u \in User, change \in Changes : UpdateUser(r, actor, u, change)
      BY <1>1, <3>4 DEF UpdateUser, To, TypeInv, Idle
    <3> QED BY <1>4, <3>1, <3>2, <3>3, <3>4
  <2>2. ~Issuing(r)' /\ \A q \in Request : q # r => request'[q] = request[q]
    BY <2>1 DEF Issuing, Issues
  <2> QED BY <1>1, <2>1, <2>2, NothingNew
<1> QED BY <1>2, <1>3, <1>4 DEF Begin

\* The requests that go on: what they issue is of the account as they read it.
LEMMA FinishStep ==
  ASSUME IInv, NEW r \in Request, Finish(r)
  PROVE  IInv'
<1> DEFINE u == request[r].user
<1>1. TypeInv' /\ TypeInv /\ request[r] \in Requests /\ Knows(request[r])
  BY FinishTypes DEF IInv, TypeInv
\* A new account has no token, and its password has not changed.
<1>2. CASE CreateUser(r)
  <2>1. CASE Exists(u)
    BY <1>1, <1>2, <2>1, NothingNew DEF CreateUser, To, TypeInv, Issuing, Issues, Idle
  <2>2. CASE ~Exists(u)
    <3>0. /\ UNCHANGED <<tokens, raced>> /\ u \in User
          /\ user' = [user EXCEPT ![u] = NewUser(@.id, "USER")]
          /\ To(r, [request[r] EXCEPT !.at = "issue", !.id = user[u].id, !.role = "USER"])
          /\ request[r].epoch = 0
      BY <1>1, <1>2, <2>2 DEF CreateUser, Knows
    <3>1. /\ UNCHANGED <<tokens, raced>> /\ u \in User
          /\ user' = [user EXCEPT ![u] = NewUser(@.id, "USER")]
          /\ request'[r].user = u /\ request'[r].id = user[u].id /\ request'[r].epoch = 0
          /\ \A q \in Request : q # r => request'[q] = request[q]
      <4> DEFINE rec == [request[r] EXCEPT !.at = "issue", !.id = user[u].id, !.role = "USER"]
      <4>1. rec.user = u /\ rec.id = user[u].id /\ rec.epoch = request[r].epoch
        BY <1>1 DEF Requests
      <4> HIDE DEF rec
      <4> QED BY <1>1, <3>0, <4>1 DEF To, TypeInv
    <3>2. \A v \in User : user'[v].id = user[v].id /\ user'[v].epoch <= user[v].epoch
      BY <1>1, <3>1, Constants DEF TypeInv, Account, NewUser
    <3>3. user'[u].epoch = 0 /\ user[u].id \in Nat
      BY <1>1, <3>1 DEF TypeInv, Account, NewUser
    <3>4. \A row \in tokens : row.token.user \in User
      BY <1>1 DEF TypeInv, Row, Token
    <3>5. \A q \in Request : Issuing(q) => request[q].user \in User
      BY <1>1 DEF TypeInv, Knows, Issuing, Issues
    <3>6. /\ \A v \in User : user[v].epoch \in Nat /\ user'[v].epoch \in Nat
          /\ \A row \in tokens : row.epoch \in Nat
          /\ \A q \in Request : request[q].epoch \in Nat
      BY <1>1, Constants DEF TypeInv, Account, Row, Requests
    <3>7. Past'
      BY <3>1, <3>2, <3>3, <3>4, <3>5 DEF IInv, Past, Issuing
    <3>8. SurvivorWasInFlight'
      BY <3>1, <3>2, <3>4, <3>6 DEF IInv, SurvivorWasInFlight
    <3>9. CarrierWasInFlight'
      BY <3>1, <3>2, <3>3, <3>5, <3>6 DEF IInv, CarrierWasInFlight, Issuing
    <3> QED BY <1>1, <3>7, <3>8, <3>9 DEF IInv
  <2> QED BY <2>1, <2>2
<1>3. CASE ConsumeToken(r)
  <2>1. CASE WonRace(r)
    <3>1. /\ UNCHANGED <<user, raced>> /\ tokens' \subseteq tokens /\ Issuing(r)
          /\ request'[r].user = u /\ request'[r].id = request[r].id
          /\ request'[r].family = request[r].family /\ request'[r].epoch = request[r].epoch
          /\ \A q \in Request : q # r => request'[q] = request[q]
      BY <1>1, <1>3, <2>1 DEF ConsumeToken, To, TypeInv, Requests, Issuing, Issues
    <3>2. request[r].id <= user[u].id
      BY <3>1 DEF IInv, Past
    <3>3. request[r].id = user[u].id /\ request[r].epoch < user[u].epoch
          => request[r].family \in raced
      BY <3>1 DEF IInv, CarrierWasInFlight
    <3> HIDE DEF u
    <3> QED BY <1>1, <3>1, <3>2, <3>3, NewCarrier
  <2>2. CASE ~WonRace(r)
    <3>1. /\ UNCHANGED <<user, raced>> /\ tokens' \subseteq tokens /\ To(r, Idle)
      BY <1>3, <2>2 DEF ConsumeToken, Answer
    <3> QED BY <1>1, <3>1, NothingNew DEF To, TypeInv, Issuing, Issues, Idle
  <2> QED BY <2>1, <2>2
<1>4. CASE issueTokens(r)
  <2>1. /\ UNCHANGED <<user, raced>> /\ To(r, Idle) /\ Issuing(r) /\ u \in User
    BY <1>1, <1>4 DEF issueTokens, Answer, Issuing, Issues, Knows
  <2>2. ~Issuing(r)' /\ \A q \in Request : q # r => request'[q] = request[q]
    BY <1>1, <2>1 DEF To, TypeInv, Issuing, Issues, Idle
  <2>3. CASE tokens' = tokens
    BY <1>1, <2>1, <2>2, <2>3, NothingNew
  <2>4. CASE tokens' # tokens
    <3> DEFINE row == [token |-> Sign(request[r]), family |-> request[r].family,
                       epoch |-> request[r].epoch]
    <3>1. tokens' = tokens \cup {row}
      BY <1>4, <2>4 DEF issueTokens
    <3>2. row.token.user = u /\ row.token.id = request[r].id
          /\ row.family = request[r].family /\ row.epoch = request[r].epoch
      BY DEF Sign
    <3> HIDE DEF row, u
    <3>3. row.token.id <= user[u].id
      BY <2>1, <3>2 DEF IInv, Past, u
    <3>4. row.token.id = user[u].id /\ row.epoch < user[u].epoch => row.family \in raced
      BY <2>1, <3>2 DEF IInv, CarrierWasInFlight, u
    <3>5. Past'
      BY <2>1, <2>2, <3>1, <3>2, <3>3 DEF IInv, Past, Issuing
    <3>6. SurvivorWasInFlight'
      BY <2>1, <3>1, <3>2, <3>4 DEF IInv, SurvivorWasInFlight
    <3>7. CarrierWasInFlight'
      BY <2>1, <2>2 DEF IInv, CarrierWasInFlight, Issuing
    <3> QED BY <1>1, <3>5, <3>6, <3>7 DEF IInv
  <2> QED BY <2>3, <2>4
\* The tokens that there are go; the requests in flight are noted.
<1>5. CASE StorePassword(r)
  <2>1. /\ user' = [user EXCEPT ![u].epoch = IF Is(r) /\ @ < MaxEpoch THEN @ + 1 ELSE @]
        /\ tokens' = tokens \ OfUser(u, request[r].id) /\ To(r, Idle) /\ u \in User
        /\ raced' = raced \cup {request[q].family : q \in InFlight(r)}
    BY <1>1, <1>5 DEF StorePassword, Answer, Revoked, Knows
  <2>2. ~Issuing(r)' /\ \A q \in Request : q # r => request'[q] = request[q]
    BY <1>1, <2>1 DEF To, TypeInv, Issuing, Issues, Idle
  <2>3. /\ \A v \in User : user'[v].id = user[v].id
        /\ \A v \in User : v # u \/ ~Is(r) => user'[v].epoch = user[v].epoch
        /\ Is(r) => user[u].id = request[r].id
    BY <1>1, <2>1 DEF TypeInv, Account, Is
  <2>4. \A row \in tokens : row.token.user \in User
    BY <1>1 DEF TypeInv, Row, Token
  <2>5. \A q \in Request : Issuing(q) => request[q].user \in User /\ request[q].family # None
    BY <1>1, Constants DEF TypeInv, Knows, Issuing, Issues
  <2>6. Past'
    BY <2>1, <2>2, <2>3, <2>4, <2>5 DEF IInv, Past, Issuing
  <2>7. SurvivorWasInFlight'
    BY <2>1, <2>3, <2>4 DEF IInv, SurvivorWasInFlight, OfUser
  <2>8. CarrierWasInFlight'
    <3> SUFFICES ASSUME NEW q \in Request, Issuing(q)', request'[q].id = user'[request'[q].user].id,
                        request'[q].epoch < user'[request'[q].user].epoch
                 PROVE  request'[q].family \in raced'
      BY DEF CarrierWasInFlight
    <3>1. q # r /\ request'[q] = request[q] /\ Issuing(q)
      BY <2>2 DEF Issuing
    <3>2. CASE request[q].user = u
      BY <2>1, <2>5, <3>1, <3>2 DEF InFlight
    <3>3. CASE request[q].user # u
      BY <2>1, <2>3, <2>5, <3>1, <3>3 DEF IInv, CarrierWasInFlight
    <3> QED BY <3>2, <3>3
  <2> QED BY <1>1, <2>6, <2>7, <2>8 DEF IInv
<1>6. CASE StoreUser(r)
  <2>1. /\ UNCHANGED <<tokens, raced>> /\ To(r, Idle) /\ u \in User
        /\ request[r].change \in Changes \cup {NoChange}
        /\ user' = user \/ user' = [user EXCEPT ![u] = Updated(@, request[r].change)]
    BY <1>1, <1>6 DEF StoreUser, Knows, Requests
  <2>2. \A v \in User : user'[v].id = user[v].id /\ user'[v].epoch = user[v].epoch
    BY <1>1, <2>1, UpdatedAccount DEF TypeInv
  <2>3. ~Issuing(r)' /\ \A q \in Request : q # r => request'[q] = request[q]
    BY <1>1, <2>1 DEF To, TypeInv, Issuing, Issues, Idle
  <2>4. \A row \in tokens : row.token.user \in User
    BY <1>1 DEF TypeInv, Row, Token
  <2>5. \A q \in Request : Issuing(q) => request[q].user \in User
    BY <1>1 DEF TypeInv, Knows, Issuing, Issues
  <2>6. Past'
    BY <2>1, <2>2, <2>3, <2>4, <2>5 DEF IInv, Past, Issuing
  <2>7. SurvivorWasInFlight' /\ CarrierWasInFlight'
    BY <2>1, <2>2, <2>3, <2>4, <2>5 DEF IInv, SurvivorWasInFlight, CarrierWasInFlight, Issuing
  <2> QED BY <1>1, <2>6, <2>7 DEF IInv
\* Nothing is of the account that takes the name next.
<1>7. CASE RemoveUser(r)
  <2>1. /\ user' = [user EXCEPT ![u] = IF Is(r) THEN NoUser(@.id + 1) ELSE @]
        /\ tokens' \subseteq tokens /\ raced' = raced /\ To(r, Idle) /\ u \in User
    BY <1>1, <1>7 DEF RemoveUser, Knows
  <2>2. ~Issuing(r)' /\ \A q \in Request : q # r => request'[q] = request[q]
    BY <1>1, <2>1 DEF To, TypeInv, Issuing, Issues, Idle
  <2>3. \A v \in User : /\ user[v].id \in Nat
                        /\ user'[v] = user[v] \/ user'[v].id = user[v].id + 1
    BY <1>1, <2>1 DEF TypeInv, Account, NoUser
  <2>4. \A row \in tokens : row.token.user \in User /\ row.token.id \in Nat
    BY <1>1 DEF TypeInv, Row, Token
  <2>5. \A q \in Request : request[q].id \in Nat /\ (Issuing(q) => request[q].user \in User)
    BY <1>1 DEF TypeInv, Knows, Issuing, Issues, Requests
  <2>6. Past'
    BY <2>1, <2>2, <2>3, <2>4, <2>5 DEF IInv, Past, Issuing
  <2>7. SurvivorWasInFlight'
    BY <2>1, <2>3, <2>4 DEF IInv, Past, SurvivorWasInFlight
  <2>8. CarrierWasInFlight'
    BY <2>1, <2>2, <2>3, <2>5 DEF IInv, Past, CarrierWasInFlight, Issuing
  <2> QED BY <1>1, <2>6, <2>7, <2>8 DEF IInv
<1> QED BY <1>2, <1>3, <1>4, <1>5, <1>6, <1>7 DEF Finish

-----------------------------------------------------------------------------
\* Every step of a request, a browser and the clock keeps it.
THEOREM Inductive == IInv /\ [Next]_vars => IInv'
<1>1. IInv /\ UNCHANGED vars => IInv'
  BY DEF IInv, TypeInv, Past, SurvivorWasInFlight, CarrierWasInFlight, Issuing, vars
<1> QED BY <1>1, BeginStep, FinishStep, AroundStep DEF Next, Around

\* A password change ends the sessions of all devices, save those whose request was
\* between its read and its INSERT at that moment, however many accounts, devices and
\* requests there are and however accounts come and go (auth.go:207, 223-228).
THEOREM Survivors == Spec => []SurvivorWasInFlight
<1>1. IInv => SurvivorWasInFlight
  BY DEF IInv
<1> QED BY <1>1, InitIInv, Inductive, PTL DEF Spec

-----------------------------------------------------------------------------
(* The types, with the challenges and the histories.                       *)

StoreInv == store \subseteq Entry /\ IsFiniteSet(store) /\ Cardinality(store) <= MaxItems
HistoryInv == raced \subseteq Challenge /\ twins \subseteq Challenge

\* A challenge is issued, one is consumed, or the store is left alone.
LEMMA StoreFrame ==
  ASSUME [Next]_vars
  PROVE  store' \subseteq store \/ \E d \in Device, c \in Challenge : Issue(d, c)
<1>1. ASSUME NEW r \in Request, Begin(r) PROVE store' \subseteq store
  BY <1>1 DEF Begin, Refresh, Register, Login, ChangePassword, DeleteUser, UpdateUser, Consume,
              Without
<1>2. ASSUME NEW r \in Request, Finish(r) PROVE store' \subseteq store
  BY <1>2 DEF Finish, CreateUser, ConsumeToken, issueTokens, StorePassword, StoreUser, RemoveUser
<1>3. CASE \E d \in Device : Logout(d) \/ RefreshRefused(d)
  BY <1>3 DEF Logout, RefreshRefused
<1>4. CASE Tick
  BY <1>4 DEF Tick
<1> QED BY <1>1, <1>2, <1>3, <1>4 DEF Next, vars

\* There is room for one more in what Evicted leaves.
LEMMA Room ==
  ASSUME NEW S \in SUBSET store, StoreInv, NEW kept \in Evicted(S)
  PROVE  kept \subseteq S /\ IsFiniteSet(kept) /\ Cardinality(kept) + 1 <= MaxItems
<1>1. IsFiniteSet(S) /\ Cardinality(S) <= Cardinality(store)
  BY FS_Subset DEF StoreInv
<1>2. Cardinality(S) \in Nat /\ Cardinality(store) \in Nat /\ MaxItems \in Nat
  BY <1>1, FS_CardinalityType, SessionsAssumption DEF StoreInv
<1>3. CASE Cardinality(S) >= MaxItems
  <2> PICK e \in S : kept = S \ {e}
    BY <1>3 DEF Evicted, Oldest
  <2>1. IsFiniteSet(kept) /\ Cardinality(kept) = Cardinality(S) - 1
    BY <1>1, FS_RemoveElement
  <2> QED BY <1>1, <1>2, <2>1 DEF StoreInv
<1>4. CASE ~(Cardinality(S) >= MaxItems)
  BY <1>1, <1>2, <1>4 DEF Evicted
<1> QED BY <1>3, <1>4

LEMMA StoreStep == TypeInv /\ StoreInv /\ [Next]_vars => StoreInv'
<1> SUFFICES ASSUME TypeInv, StoreInv, [Next]_vars PROVE StoreInv'
  OBVIOUS
<1>1. CASE store' \subseteq store
  <2>1. IsFiniteSet(store') /\ Cardinality(store') <= Cardinality(store)
    BY <1>1, FS_Subset DEF StoreInv
  <2>2. Cardinality(store') \in Nat /\ Cardinality(store) \in Nat /\ MaxItems \in Nat
    BY <2>1, FS_CardinalityType, SessionsAssumption DEF StoreInv
  <2> QED BY <1>1, <2>1, <2>2 DEF StoreInv
<1>2. CASE \E d \in Device, c \in Challenge : Issue(d, c)
  <2> PICK d \in Device, c \in Challenge : Issue(d, c)
    BY <1>2
  <2> DEFINE new == [id |-> c, ip |-> d, issuedAt |-> now]
             swept == {e \in store : Live(e)}
  <2>1. PICK kept \in Evicted(swept) : store' = kept \cup {new}
    BY DEF Issue
  <2>2. new \in Entry
    BY DEF TypeInv, Entry
  <2>3. swept \in SUBSET store
    OBVIOUS
  <2> HIDE DEF swept, new
  <2>4. kept \subseteq swept /\ IsFiniteSet(kept) /\ Cardinality(kept) + 1 <= MaxItems
    BY <2>3, Room
  <2>5. /\ IsFiniteSet(store')
        /\ Cardinality(store') = Cardinality(kept) \/ Cardinality(store') = Cardinality(kept) + 1
    BY <2>1, <2>4, FS_AddElement
  <2>6. Cardinality(kept) \in Nat /\ MaxItems \in Nat
    BY <2>4, FS_CardinalityType, SessionsAssumption
  <2>7. store' \subseteq Entry
    BY <2>1, <2>2, <2>3, <2>4 DEF StoreInv
  <2> QED BY <2>4, <2>5, <2>6, <2>7 DEF StoreInv
<1> QED BY <1>1, <1>2, StoreFrame

LEMMA HistoryStep == TypeInv /\ HistoryInv /\ [Next]_vars => HistoryInv'
<1> SUFFICES ASSUME TypeInv, HistoryInv, [Next]_vars PROVE HistoryInv'
  OBVIOUS
<1>1. \A q \in Request : request[q].family \in Challenge \cup {None}
  BY DEF TypeInv, Requests
<1>2. \A q \in Request : request[q].at = "consume" => request[q].family \in Challenge
  BY DEF TypeInv, Knows
<1>3. ASSUME NEW r \in Request, Begin(r) PROVE UNCHANGED <<raced, twins>>
  BY <1>3 DEF Begin, Refresh, Register, Login, ChangePassword, DeleteUser, UpdateUser
<1>4. ASSUME NEW r \in Request, issueTokens(r) PROVE HistoryInv'
  BY <1>2, <1>4 DEF issueTokens, Twins, HistoryInv
<1>5. ASSUME NEW r \in Request, StorePassword(r) PROVE HistoryInv'
  BY <1>1, <1>5 DEF StorePassword, InFlight, HistoryInv
<1>6. ASSUME NEW r \in Request,
             CreateUser(r) \/ ConsumeToken(r) \/ StoreUser(r) \/ RemoveUser(r)
      PROVE  UNCHANGED <<raced, twins>>
  BY <1>6 DEF CreateUser, ConsumeToken, StoreUser, RemoveUser
<1>7. CASE Around
  <2>1. raced' \subseteq raced /\ twins' \subseteq twins
    BY <1>7 DEF Around, Logout, RefreshRefused, Issue, Tick
  <2> QED BY <2>1 DEF HistoryInv
<1> QED BY <1>3, <1>4, <1>5, <1>6, <1>7 DEF Next, Finish, Around, HistoryInv, vars

\* Accounts, tokens, cookies, challenges and requests keep the shape of their tables, and
\* the challenge store its bound, for any accounts, browsers and requests (auth.go:54-281,
\* challenge.go:67-157).
THEOREM TypeCorrect == Spec => []TypeOK
<1> DEFINE Inv == TypeInv /\ StoreInv /\ HistoryInv
<1>1. Init => Inv
  <2>1. Init => TypeInv
    BY InitIInv DEF IInv
  <2>2. Init => StoreInv
    BY FS_EmptySet, SessionsAssumption DEF Init, StoreInv
  <2> QED BY <2>1, <2>2 DEF Init, HistoryInv
<1>2. Inv /\ [Next]_vars => Inv'
  BY TypeStep, StoreStep, HistoryStep
<1>3. Inv => TypeOK
  BY DEF TypeInv, StoreInv, HistoryInv, TypeOK, Requests
<1> HIDE DEF Inv
<1> QED BY <1>1, <1>2, <1>3, PTL DEF Spec

-----------------------------------------------------------------------------
(* Rotation.                                                               *)

\* A request that will issue a token of a family, and has used up what entitles it.
Bears(req, f) == req.family = f /\ req.at \in {"create", "issue"}
Consumes(req) == req.at = "consume"

UniqueStrings == \A x, y \in tokens : x.token = y.token => x = y

\* The row that a request will look for is of its own family, or there is a twin.
OwnStrings ==
    \A q \in Request, row \in tokens :
        Consumes(request[q]) /\ row.token = request[q].token /\ row.family # request[q].family
        => request[q].family \in twins

OneBearer(f) == /\ \A x, y \in OfFamily(f) : x = y
                /\ \A q, r \in Request : Bears(request[q], f) /\ Bears(request[r], f) => q = r
                /\ \A q \in Request : Bears(request[q], f) => OfFamily(f) = {}

\* No family has been opened with a challenge that is still in the store.
FreshChallenges == \A e \in store : /\ OfFamily(e.id) = {}
                                    /\ \A q \in Request : request[q].family # e.id

RotationInv == /\ UniqueStrings /\ OwnStrings /\ FreshChallenges
               /\ \A f \in Challenge \ twins : OneBearer(f)

LEMMA InitRotation == Init => RotationInv
  BY Constants DEF Init, RotationInv, UniqueStrings, OwnStrings, OneBearer, FreshChallenges,
                   OfFamily, Bears, Consumes, Idle

\* What a step makes of a request that opens no family and starts no refresh.
Follows(new, old) ==
    \/ new = old
    \/ /\ new.family \in {old.family, None} /\ ~Consumes(new)
       /\ \A f \in Challenge : Bears(new, f) => Bears(old, f)

\* A step that adds no token, opens no family and starts no refresh.
LEMMA NoBearer ==
  ASSUME TypeInv, StoreInv, RotationInv, tokens' \subseteq tokens, store' \subseteq store,
         twins' = twins, \A q \in Request : Follows(request'[q], request[q])
  PROVE  RotationInv'
<1>1. \A q \in Request : request'[q].family \in {request[q].family, None}
  BY DEF Follows
<1>2. \A q \in Request, f \in Challenge : Bears(request'[q], f) => Bears(request[q], f)
  BY Constants DEF Follows, Bears
<1>3. UniqueStrings'
  BY DEF RotationInv, UniqueStrings
<1>4. OwnStrings'
  <2> SUFFICES ASSUME NEW q \in Request, NEW row \in tokens', Consumes(request'[q]),
                      row.token = request'[q].token, row.family # request'[q].family
               PROVE  request'[q].family \in twins'
    BY DEF OwnStrings
  <2> QED BY DEF Follows, RotationInv, OwnStrings
<1>5. \A f : OfFamily(f)' \subseteq OfFamily(f)
  BY DEF OfFamily
<1>6. FreshChallenges'
  <2>1. \A e \in store : e.id \in Challenge
    BY DEF StoreInv, Entry
  <2> QED BY <1>1, <1>5, <2>1, Constants DEF RotationInv, FreshChallenges
<1>7. ASSUME NEW f \in Challenge \ twins' PROVE OneBearer(f)'
  <2>1. OneBearer(f)
    BY DEF RotationInv
  <2> QED BY <1>2, <1>5, <2>1 DEF OneBearer
<1> QED BY <1>3, <1>4, <1>6, <1>7 DEF RotationInv

\* A request that is over, or does something else, bears no token.
LEMMA Bearless ==
  ASSUME NEW r \in Request, TypeInv, NEW rec, To(r, rec),
         Follows(rec, request[r])
  PROVE  \A q \in Request : Follows(request'[q], request[q])
  BY DEF To, TypeInv, Follows

LEMMA FollowsIdle == ASSUME NEW req PROVE Follows(Idle, req)
  BY Constants DEF Follows, Bears, Consumes, Idle

\* A challenge that is in the store opens a family, and is there no more.
LEMMA Opens ==
  ASSUME TypeInv, StoreInv, RotationInv, NEW r \in Request, NEW d \in Device, Consume(d),
         NEW rec, To(r, rec), Bears(rec, held[d]), request[r] = Idle,
         UNCHANGED <<tokens, twins>>
  PROVE  RotationInv'
<1> DEFINE c == held[d]
<1>1. PICK e \in store : e.id = c
  BY DEF Consume
<1>2. c \in Challenge /\ OfFamily(c) = {} /\ \A q \in Request : request[q].family # c
  BY <1>1 DEF RotationInv, FreshChallenges, StoreInv, Entry
<1>3. store' = {x \in store : x.id # c}
  BY DEF Consume, Without
<1>4. request'[r] = rec /\ \A q \in Request : q # r => request'[q] = request[q]
  BY DEF To, TypeInv
<1>5. rec.family = c /\ ~Consumes(rec)
  BY DEF Bears, Consumes
<1> HIDE DEF c
<1>6. UniqueStrings' /\ OwnStrings'
  BY <1>4, <1>5 DEF RotationInv, UniqueStrings, OwnStrings
<1>7. FreshChallenges'
  BY <1>3, <1>4, <1>5 DEF RotationInv, FreshChallenges, OfFamily
<1>8. ASSUME NEW f \in Challenge \ twins' PROVE OneBearer(f)'
  <2>1. OneBearer(f) /\ OfFamily(f)' = OfFamily(f)
    BY DEF RotationInv, OfFamily
  <2>2. CASE f = c
    BY <1>2, <1>4, <2>1, <2>2 DEF OneBearer, Bears
  <2>3. CASE f # c
    BY <1>4, <1>5, <2>1, <2>3 DEF OneBearer, Bears
  <2> QED BY <2>2, <2>3
<1> QED BY <1>6, <1>7, <1>8 DEF RotationInv

\* A refresh reads a row of the token that it holds.
LEMMA RefreshRotates ==
  ASSUME TypeInv, StoreInv, RotationInv, NEW r \in Request, NEW d \in Device, Refresh(r, d)
  PROVE  RotationInv'
<1> DEFINE t == cookie[d]
           row == CHOOSE row \in WithToken(t) : TRUE
<1>1. CASE WithToken(t) = {}
  BY <1>1, NoBearer DEF Refresh, Follows
<1>2. CASE WithToken(t) # {}
  <2>1. row \in tokens /\ row.token = t
    BY <1>2 DEF WithToken
  <2>2. /\ request'[r].token = t /\ request'[r].family = row.family
        /\ request'[r].at = "consume"
        /\ \A q \in Request : q # r => request'[q] = request[q]
        /\ UNCHANGED <<tokens, store, twins>>
    BY <1>2 DEF Refresh, To, TypeInv, Idle
  <2> HIDE DEF t, row
  <2>3. \A q \in Request : \A f : Bears(request'[q], f) => Bears(request[q], f)
    BY <2>2 DEF Bears
  <2>4. UniqueStrings'
    BY <2>2 DEF RotationInv, UniqueStrings
  <2>5. OwnStrings'
    BY <2>1, <2>2 DEF RotationInv, OwnStrings, UniqueStrings
  <2>6. FreshChallenges'
    BY <2>1, <2>2 DEF RotationInv, FreshChallenges, OfFamily
  <2>7. ASSUME NEW f \in Challenge \ twins' PROVE OneBearer(f)'
    <3>1. OneBearer(f) /\ OfFamily(f)' = OfFamily(f)
      BY <2>2 DEF RotationInv, OfFamily
    <3> QED BY <2>3, <3>1 DEF OneBearer
  <2> QED BY <2>4, <2>5, <2>6, <2>7 DEF RotationInv
<1> QED BY <1>1, <1>2

LEMMA BeginRotates ==
  ASSUME TypeInv, StoreInv, RotationInv, NEW r \in Request, Begin(r)
  PROVE  RotationInv'
<1>1. CASE \E d \in Device, u \in User : Register(r, d, u)
  <2> PICK d \in Device, u \in User : Register(r, d, u)
    BY <1>1
  <2> DEFINE rec == [Idle EXCEPT !.at = "create", !.user = u, !.device = d, !.family = held[d]]
  <2>1. To(r, rec) /\ Bears(rec, held[d])
    BY DEF Register, Bears, Idle
  <2> HIDE DEF rec
  <2> QED BY <2>1, Opens DEF Register
<1>2. CASE \E d \in Device, u \in User : Login(r, d, u)
  <2> PICK d \in Device, u \in User : Login(r, d, u)
    BY <1>2
  <2> DEFINE rec == [Idle EXCEPT !.at = "issue", !.user = u, !.device = d, !.family = held[d],
                                 !.id = user[u].id, !.epoch = user[u].epoch,
                                 !.role = user[u].role]
  <2>1. To(r, rec) /\ Bears(rec, held[d])
    BY DEF Login, Bears, Idle
  <2> HIDE DEF rec
  <2> QED BY <2>1, Opens DEF Login
<1>3. CASE \/ \E d \in Device, u \in User : ChangePassword(r, d, u)
           \/ \E actor, u \in User : DeleteUser(r, actor, u)
           \/ \E actor, u \in User, change \in Changes : UpdateUser(r, actor, u, change)
  <2>1. /\ UNCHANGED <<tokens, twins>> /\ store' \subseteq store
        /\ request'[r].family = None /\ request'[r].at \in {"store", "delete", "update"}
        /\ \A q \in Request : q # r => request'[q] = request[q]
    <3>1. CASE \E d \in Device, u \in User : ChangePassword(r, d, u)
      BY <3>1 DEF ChangePassword, Consume, Without, To, TypeInv, Idle
    <3>2. CASE \E actor, u \in User : DeleteUser(r, actor, u)
      BY <3>2 DEF DeleteUser, To, TypeInv, Idle
    <3>3. CASE \E actor, u \in User, change \in Changes : UpdateUser(r, actor, u, change)
      BY <3>3 DEF UpdateUser, To, TypeInv, Idle
    <3> QED BY <1>3, <3>1, <3>2, <3>3
  <2>2. \A q \in Request : Follows(request'[q], request[q])
    BY <2>1 DEF Follows, Consumes, Bears
  <2> QED BY <2>1, <2>2, NoBearer
<1> QED BY <1>1, <1>2, <1>3, RefreshRotates DEF Begin

\* The row that is deleted is of the family of the request, or there is a twin.
LEMMA ConsumeRotates ==
  ASSUME TypeInv, StoreInv, RotationInv, NEW r \in Request, ConsumeToken(r)
  PROVE  RotationInv'
<1>1. CASE ~WonRace(r)
  <2>1. To(r, Idle) /\ tokens' \subseteq tokens /\ UNCHANGED <<store, twins>>
    BY <1>1 DEF ConsumeToken, Answer
  <2> QED BY <2>1, FollowsIdle, Bearless, NoBearer
<1>2. CASE WonRace(r)
  <2> DEFINE g == request[r].family
             t == request[r].token
  <2>1. /\ tokens' = tokens \ WithToken(t) /\ UNCHANGED <<store, twins>>
        /\ request[r].at = "consume" /\ WithToken(t) # {}
        /\ request'[r].at = "issue" /\ request'[r].family = g
        /\ \A q \in Request : q # r => request'[q] = request[q]
    BY <1>2 DEF ConsumeToken, WonRace, To, TypeInv, Requests
  <2> HIDE DEF t
  <2>2. UniqueStrings' /\ OwnStrings'
    BY <2>1 DEF RotationInv, UniqueStrings, OwnStrings, Consumes
  <2>3. FreshChallenges'
    BY <2>1 DEF RotationInv, FreshChallenges, OfFamily
  <2>4. ASSUME NEW f \in Challenge \ twins' PROVE OneBearer(f)'
    <3>1. OneBearer(f) /\ OfFamily(f)' \subseteq OfFamily(f)
      BY <2>1, <2>4 DEF RotationInv, OfFamily
    <3>2. CASE f # g
      <4>1. \A q \in Request : Bears(request'[q], f) => Bears(request[q], f)
        BY <2>1, <3>2 DEF Bears
      <4> QED BY <3>1, <4>1 DEF OneBearer
    <3>3. CASE f = g
      <4>1. PICK row \in tokens : row.token = t
        BY <2>1 DEF WithToken
      <4>2. row \in OfFamily(f)
        BY <2>1, <3>3, <4>1 DEF RotationInv, OwnStrings, Consumes, OfFamily, t
      <4>3. OfFamily(f)' = {}
        BY <2>1, <3>1, <4>1, <4>2 DEF OneBearer, OfFamily, WithToken
      <4>4. \A q \in Request : ~Bears(request[q], f)
        BY <3>1, <4>2 DEF OneBearer
      <4>5. \A q \in Request : Bears(request'[q], f) => q = r
        BY <2>1, <4>4
      <4> QED BY <3>1, <4>3, <4>5 DEF OneBearer
    <3> QED BY <3>2, <3>3
  <2> QED BY <2>2, <2>3, <2>4 DEF RotationInv
<1> QED BY <1>1, <1>2

\* The token takes the place of its request; who else holds the string is noted.
LEMMA IssueRotates ==
  ASSUME TypeInv, StoreInv, RotationInv, NEW r \in Request, issueTokens(r)
  PROVE  RotationInv'
<1>1. To(r, Idle) /\ store' = store /\ request[r].at = "issue"
  BY DEF issueTokens, Answer
<1>2. CASE UNCHANGED <<tokens, twins>>
  BY <1>1, <1>2, FollowsIdle, Bearless, NoBearer
<1>3. CASE ~UNCHANGED <<tokens, twins>>
  <2> DEFINE g == request[r].family
             row == [token |-> Sign(request[r]), family |-> g, epoch |-> request[r].epoch]
  <2>1. /\ tokens' = tokens \cup {row} /\ WithToken(row.token) = {}
        /\ twins' = twins \cup {request[q].family : q \in Twins(r)}
    BY <1>3 DEF issueTokens
  <2>2. row.family = g /\ row.token = Sign(request[r]) /\ g \in Challenge /\ Bears(request[r], g)
    BY <1>1 DEF TypeInv, Knows, Bears
  <2>3. request'[r] = Idle /\ \A q \in Request : q # r => request'[q] = request[q]
    BY <1>1 DEF To, TypeInv
  <2> HIDE DEF g, row
  <2>4. \A f : ~Bears(Idle, f) /\ ~Consumes(Idle) /\ Idle.family = None
    BY Constants DEF Bears, Consumes, Idle
  <2>5. UniqueStrings'
    BY <2>1 DEF RotationInv, UniqueStrings, WithToken
  <2>6. OwnStrings'
    <3> SUFFICES ASSUME NEW q \in Request, NEW x \in tokens', Consumes(request'[q]),
                        x.token = request'[q].token, x.family # request'[q].family
                 PROVE  request'[q].family \in twins'
      BY DEF OwnStrings
    <3>1. q # r /\ request'[q] = request[q]
      BY <2>3, <2>4
    <3>2. CASE x \in tokens
      BY <2>1, <3>1, <3>2 DEF RotationInv, OwnStrings
    <3>3. CASE x = row
      BY <2>1, <2>2, <3>1, <3>3 DEF Twins, Consumes, g
    <3> QED BY <2>1, <3>2, <3>3
  <2>7. FreshChallenges'
    <3>1. \A e \in store : e.id \in Challenge /\ e.id # g
      BY DEF RotationInv, FreshChallenges, StoreInv, Entry, g
    <3>2. \A e \in store : OfFamily(e.id)' = OfFamily(e.id)
      BY <2>1, <2>2, <3>1 DEF OfFamily
    <3>3. \A e \in store, q \in Request : request'[q].family # e.id
      BY <2>3, <2>4, <3>1, Constants DEF RotationInv, FreshChallenges
    <3> QED BY <1>1, <3>2, <3>3 DEF RotationInv, FreshChallenges
  <2>8. ASSUME NEW f \in Challenge \ twins' PROVE OneBearer(f)'
    <3>1. OneBearer(f)
      BY <2>1, <2>8 DEF RotationInv
    <3>2. \A q \in Request : Bears(request'[q], f) => Bears(request[q], f) /\ q # r
      BY <2>3, <2>4
    <3>3. CASE f # g
      <4>1. OfFamily(f)' = OfFamily(f)
        BY <2>1, <2>2, <3>3 DEF OfFamily
      <4> QED BY <3>1, <3>2, <4>1 DEF OneBearer
    <3>4. CASE f = g
      <4>1. OfFamily(f) = {} /\ OfFamily(f)' = {row}
        BY <2>1, <2>2, <3>1, <3>4 DEF OneBearer, OfFamily
      <4>2. \A q \in Request : ~Bears(request'[q], f)
        BY <2>2, <3>1, <3>2, <3>4 DEF OneBearer
      <4> QED BY <4>1, <4>2 DEF OneBearer
    <3> QED BY <3>3, <3>4
  <2> QED BY <2>5, <2>6, <2>7, <2>8 DEF RotationInv
<1> QED BY <1>2, <1>3

LEMMA FinishRotates ==
  ASSUME TypeInv, StoreInv, RotationInv, NEW r \in Request, Finish(r)
  PROVE  RotationInv'
<1>1. CASE CreateUser(r)
  <2> DEFINE rec == [request[r] EXCEPT !.at = "issue", !.id = user[request[r].user].id,
                                       !.role = "USER"]
  <2>1. rec.family = request[r].family /\ rec.at = "issue" /\ request[r].at = "create"
    BY <1>1 DEF CreateUser, TypeInv, Requests
  <2>2. UNCHANGED <<tokens, store, twins>> /\ (To(r, Idle) \/ To(r, rec))
    BY <1>1 DEF CreateUser
  <2> HIDE DEF rec
  <2>3. Follows(rec, request[r])
    BY <2>1 DEF Follows, Bears, Consumes
  <2> QED BY <2>2, <2>3, FollowsIdle, Bearless, NoBearer
<1>2. CASE StorePassword(r) \/ StoreUser(r) \/ RemoveUser(r)
  <2>1. To(r, Idle) /\ tokens' \subseteq tokens /\ UNCHANGED <<store, twins>>
    BY <1>2 DEF StorePassword, StoreUser, RemoveUser, Answer
  <2> QED BY <2>1, FollowsIdle, Bearless, NoBearer
<1> QED BY <1>1, <1>2, ConsumeRotates, IssueRotates DEF Finish

\* A challenge that is issued is of a family that nobody uses.
LEMMA AroundRotates ==
  ASSUME TypeInv, StoreInv, RotationInv, Around
  PROVE  RotationInv'
<1>1. CASE Tick \/ \E d \in Device : Logout(d) \/ RefreshRefused(d)
  <2>1. tokens' \subseteq tokens /\ UNCHANGED <<request, store, twins>>
    BY <1>1 DEF Tick, Logout, RefreshRefused
  <2> QED BY <2>1, NoBearer DEF Follows
<1>2. CASE \E d \in Device, c \in Challenge : Issue(d, c)
  <2> PICK d \in Device, c \in Challenge : Issue(d, c)
    BY <1>2
  <2>1. /\ UNCHANGED <<tokens, request>> /\ twins' = twins \ {c}
        /\ OfFamily(c) = {} /\ \A q \in Request : request[q].family # c
    BY DEF Issue, Unused
  <2>2. \A e \in store' : e \in store \/ e.id = c
    BY DEF Issue, Evicted
  <2>3. UniqueStrings' /\ OwnStrings'
    BY <2>1 DEF RotationInv, UniqueStrings, OwnStrings
  <2>4. FreshChallenges'
    BY <2>1, <2>2 DEF RotationInv, FreshChallenges, OfFamily
  <2>5. ASSUME NEW f \in Challenge \ twins' PROVE OneBearer(f)'
    <3>1. OneBearer(f)
      BY <2>1, <2>5 DEF RotationInv, OneBearer, Bears
    <3> QED BY <2>1, <3>1 DEF OneBearer, OfFamily
  <2> QED BY <2>3, <2>4, <2>5 DEF RotationInv
<1> QED BY <1>1, <1>2 DEF Around

LEMMA RotationStep == TypeInv /\ StoreInv /\ RotationInv /\ [Next]_vars => RotationInv'
<1>1. RotationInv /\ UNCHANGED vars => RotationInv'
  BY DEF RotationInv, UniqueStrings, OwnStrings, OneBearer, FreshChallenges, OfFamily, vars
<1> QED BY <1>1, BeginRotates, FinishRotates, AroundRotates DEF Next, Around

\* One bearer, counted.
LEMMA OneIsOne ==
  ASSUME NEW f \in Challenge, OneBearer(f)
  PROVE  Usable(f) <= 1
<1> DEFINE bearers == {r \in Request : Bears(request[r], f)}
<1>1. Usable(f) = Cardinality(OfFamily(f)) + Cardinality(bearers)
  BY DEF Usable, Bears
<1>2. Cardinality({}) = 0
  BY FS_EmptySet
<1>3. Cardinality(OfFamily(f)) = 0 \/ Cardinality(OfFamily(f)) = 1
  <2>1. CASE OfFamily(f) = {}
    BY <1>2, <2>1
  <2>2. CASE OfFamily(f) # {}
    <3> PICK x : OfFamily(f) = {x}
      BY <2>2 DEF OneBearer
    <3> QED BY FS_Singleton
  <2> QED BY <2>1, <2>2
<1>4. Cardinality(bearers) = 0 \/ (Cardinality(bearers) = 1 /\ Cardinality(OfFamily(f)) = 0)
  <2>1. CASE bearers = {}
    <3> HIDE DEF bearers
    <3> QED BY <1>2, <2>1
  <2>2. CASE bearers # {}
    <3>1. PICK q \in Request : Bears(request[q], f)
      BY <2>2
    <3>2. bearers = {q} /\ OfFamily(f) = {}
      BY <3>1 DEF OneBearer
    <3> HIDE DEF bearers
    <3>3. Cardinality(bearers) = 1
      BY <3>2, FS_Singleton
    <3>4. Cardinality(OfFamily(f)) = 0
      BY <1>2, <3>2
    <3> QED BY <3>3, <3>4
  <2> QED BY <2>1, <2>2
<1> HIDE DEF bearers
<1> QED BY <1>1, <1>3, <1>4

\* A family has one token that can be used or one request that will issue it, however many
\* requests present a token or a login at once, and whatever logouts, password changes and
\* changes of role fall between: unless a request was about to consume a string that
\* another session was given as well (auth.go:122-181, 258-281; challenge.go:117-130).
THEOREM Rotation == Spec => []OneTokenPerFamily
<1> DEFINE Inv == TypeInv /\ StoreInv /\ RotationInv
<1>1. Init => Inv
  BY InitIInv, InitRotation, FS_EmptySet, SessionsAssumption DEF IInv, Init, StoreInv
<1>2. Inv /\ [Next]_vars => Inv'
  BY TypeStep, StoreStep, RotationStep
<1>3. Inv => OneTokenPerFamily
  BY OneIsOne DEF RotationInv, OneTokenPerFamily
<1> HIDE DEF Inv
<1> QED BY <1>1, <1>2, <1>3, PTL DEF Spec

-----------------------------------------------------------------------------
(* The last administrator.                                                 *)

\* Of two administrators one is not the account that changes.
LEMMA Another ==
  ASSUME IsFiniteSet(User), Cardinality(ActiveAdmins) > 1, NEW u
  PROVE  \E v \in ActiveAdmins : v # u
<1>1. IsFiniteSet(ActiveAdmins)
  BY FS_Subset DEF ActiveAdmins
<1>2. SUFFICES ASSUME ActiveAdmins \subseteq {u} PROVE FALSE
  OBVIOUS
<1>3. Cardinality(ActiveAdmins) <= Cardinality({u}) /\ Cardinality({u}) = 1
  BY <1>2, FS_Subset, FS_Singleton
<1>4. Cardinality(ActiveAdmins) \in Nat
  BY <1>1, FS_CardinalityType
<1> QED BY <1>3, <1>4

\* However many demotions were accepted on an older reading, the one that is executed
\* leaves an active administrator, because it counts in its own transaction; there are
\* finitely many accounts (admin.go:168-169, 188-211).
THEOREM LastAdmin ==
  ASSUME IsFiniteSet(User)
  PROVE  Spec => DemotionKeepsAnAdmin
<1>1. ASSUME TypeInv, NEW r \in Request, StoreUser(r), Demotes(r), user' # user
      PROVE  ActiveAdmins' # {}
  <2> DEFINE u == request[r].user
  <2>1. Cardinality(ActiveAdmins) > 1 /\ user' = [user EXCEPT ![u] = user'[u]]
    BY <1>1 DEF StoreUser, MayDemote, TypeInv
  <2>2. PICK v \in ActiveAdmins : v # u
    BY <2>1, Another
  <2>3. v \in User /\ user'[v] = user[v]
    BY <1>1, <2>1, <2>2 DEF TypeInv, ActiveAdmins
  <2> QED BY <2>2, <2>3 DEF ActiveAdmins, MayLogin
<1>2. TypeInv => [\A r \in Request : StoreUser(r) /\ Demotes(r) /\ user' # user
                                   => ActiveAdmins' # {}]_vars
  BY <1>1
<1>3. Init => TypeInv
  BY InitIInv DEF IInv
<1> QED BY <1>2, <1>3, TypeStep, PTL DEF Spec, DemotionKeepsAnAdmin
=============================================================================
