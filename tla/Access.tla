------------------------------- MODULE Access -------------------------------
(***************************************************************************)
(* Who gets in: administrators exchange a Google token for a session, the  *)
(* middleware checks sessions and the key of the tasks, visitors' captchas *)
(* are verified with a secret. Each process keeps Google's keys and the    *)
(* consolidated secret in memory: both caches are read, filled from        *)
(* outside and written in separate steps, by the requests of the process.  *)
(* What a process read when it started, it keeps until it ends.            *)
(***************************************************************************)
EXTENDS Integers, Sequences, FiniteSets

CONSTANTS
  Procs,         \* processes: instances of the Lambda function, or the local server
  Workers,       \* requests in flight, of any process
  Kids,          \* keys that Google signs with
  FirstKids,     \* ... those published at the beginning
  Admins,        \* accounts in allowed_emails, or of allowed_domain
  Strangers,     \* all other accounts
  Ttl,           \* JwksCache.ttl
  SecretTtl,     \* time_to_live of the cache of secrets
  Life,          \* exp - iat of a session
  Leeway,        \* leeway of jsonwebtoken's Validation
  MaxRequest,    \* bound: the longest a request takes, the platform ends it then
  LastTime,      \* bound: the last moment that is looked at
  MaxChanges,    \* bound: changes of keys and secrets, and processes that started anew
  Mixed,         \* bound: captchas during exchanges and after them, although they share no cache
  MaxSessions,   \* bound: no exchange begins when there are as many sessions
  None

Accounts == Admins \cup Strangers
Time == 0..LastTime

ASSUME TimesAssumption ==
  /\ {Ttl, SecretTtl, Life, Leeway, MaxRequest, LastTime, MaxChanges, MaxSessions} \subseteq Nat
  /\ None \notin Int
ASSUME KidsAssumption == FirstKids \subseteq Kids /\ None \notin Kids
ASSUME WorkersAssumption == IsFiniteSet(Workers)

VARIABLES
  now,
  since,     \* for each of Google's keys the moment it was published, or None
  until,     \* ... and was withdrawn
  rotations, \* the moments at which the consolidated secret was changed
  boot,      \* AppState: the version of session_secret and task_api_key, since when
  jwks,      \* JwksCache of each process; asOf: when Google sent those keys
  cache,     \* cache of secrets of each process, or None
  req,       \* the request of each worker, or None
  sessions   \* the sessions that were issued, and what for

vars == <<now, since, until, rotations, boot, jwks, cache, req, sessions>>
outside == <<since, until, rotations>>

\* Secrets have no name but the number of rotations before them.
Stored == Len(rotations)

Published == {k \in Kids : since[k] # None /\ until[k] = None}

Changes == Stored + Cardinality({k \in Kids \ FirstKids : since[k] # None})
             + Cardinality({k \in Kids : until[k] # None}) + Cardinality({p \in Procs : boot[p].at > 0})

-----------------------------------------------------------------------------
(* The world outside                                                        *)

InFlight == {w \in Workers : req[w] # None}

Tick ==
  /\ now < LastTime
  /\ \A w \in InFlight : now - req[w].began < MaxRequest
  /\ now' = now + 1
  /\ UNCHANGED <<outside, boot, jwks, cache, req, sessions>>

PublishKey(k) ==
  /\ since[k] = None /\ Changes < MaxChanges
  /\ since' = [since EXCEPT ![k] = now]
  /\ UNCHANGED <<now, until, rotations, boot, jwks, cache, req, sessions>>

WithdrawKey(k) ==
  /\ k \in Published /\ Changes < MaxChanges
  /\ until' = [until EXCEPT ![k] = now]
  /\ UNCHANGED <<now, since, rotations, boot, jwks, cache, req, sessions>>

RotateSecret ==
  /\ Changes < MaxChanges
  /\ rotations' = Append(rotations, now)
  /\ UNCHANGED <<now, since, until, boot, jwks, cache, req, sessions>>

-----------------------------------------------------------------------------
(* A process                                                                *)

\* JwksCache::new: no keys, but as if they had just been read.
NewJwks(t) == [keys |-> {}, at |-> t, asOf |-> t]

\* A new process takes the place of p: init_pool loads the secret, and router takes
\* session_secret and task_api_key from the cache. What p was doing is lost.
Start(p) ==
  /\ boot[p].at < now /\ Changes < MaxChanges
  /\ boot' = [boot EXCEPT ![p] = [ver |-> Stored, at |-> now]]
  /\ jwks' = [jwks EXCEPT ![p] = NewJwks(now)]
  /\ cache' = [cache EXCEPT ![p] = [ver |-> Stored, at |-> now]]
  /\ req' = [w \in Workers |-> IF req[w] # None /\ req[w].proc = p THEN None ELSE req[w]]
  /\ UNCHANGED <<now, outside, sessions>>

\* A request is over: it was answered, it failed, or the platform ended it.
Done(w) == req' = [req EXCEPT ![w] = None]

Drop(w) ==
  /\ req[w] # None /\ req[w].pc # "lookup"
  /\ Done(w)
  /\ UNCHANGED <<now, outside, boot, jwks, cache, sessions>>

-----------------------------------------------------------------------------
(* The exchange of a Google token for a session                             *)

\* Mutant: a key that is not there is no reason to ask Google.
NeedsRefreshIfOld(j, k) == now - j.at > Ttl \/ j.keys = {}

\* Mutant: keys are kept as long as they are found.
NeedsRefreshIfMissing(j, k) == k \notin j.keys

\* is_expired() || !keys.contains_key(&kid)
NeedsRefresh(j, k) == now - j.at > Ttl \/ k \notin j.keys

NewRequest(p, pc, kid) ==
  [pc |-> pc, proc |-> p, kid |-> kid, began |-> now, keys |-> {}, asOf |-> now, ver |-> 0]

\* verify_google_token up to the read lock: a token that names a key, of any account.
BeginExchange(w) ==
  /\ req[w] = None /\ Cardinality(sessions) < MaxSessions
  /\ Mixed \/ \A v \in InFlight : req[v].kid # None
  /\ \E p \in Procs, k \in Kids :
       /\ since[k] # None
       /\ req' = [req EXCEPT ![w] = NewRequest(p, IF NeedsRefresh(jwks[p], k) THEN "fetch" ELSE "lookup", k)]
  /\ UNCHANGED <<now, outside, boot, jwks, cache, sessions>>

\* fetch_jwks, in no lock. A failure is a Drop: it leaves the cache as it is.
FetchJwks(w) ==
  /\ req[w] # None /\ req[w].pc = "fetch"
  /\ req' = [req EXCEPT ![w].pc = "write", ![w].keys = Published, ![w].asOf = now]
  /\ UNCHANGED <<now, outside, boot, jwks, cache, sessions>>

\* The answer replaces all keys, even those of a later answer.
Written(j, r) == [keys |-> r.keys, at |-> now, asOf |-> r.asOf]

WriteJwks(w) ==
  /\ req[w] # None /\ req[w].pc = "write"
  /\ jwks' = [jwks EXCEPT ![req[w].proc] = Written(@, req[w])]
  /\ req' = [req EXCEPT ![w].pc = "lookup", ![w].keys = {}]
  /\ UNCHANGED <<now, outside, boot, cache, sessions>>

Authorize(a) == a \in Admins

\* The second look, at what the cache holds now: "Unknown JWT key".
UnknownKey(w) ==
  /\ req[w] # None /\ req[w].pc = "lookup"
  /\ req[w].kid \notin jwks[req[w].proc].keys
  /\ Done(w)
  /\ UNCHANGED <<now, outside, boot, jwks, cache, sessions>>

\* The key is there, but the token is expired or not signed with it, or the account has no access.
Denied(w) ==
  /\ req[w] # None /\ req[w].pc = "lookup"
  /\ req[w].kid \in jwks[req[w].proc].keys
  /\ Done(w)
  /\ UNCHANGED <<now, outside, boot, jwks, cache, sessions>>

\* Mutant: sessions are issued under the newest secret.
MintedUnderNewest(p, k, a) == [who |-> a, ver |-> Stored, iat |-> now, kid |-> k, start |-> boot[p].at]

\* mint_session_jwt; kid is not in the token.
Minted(p, k, a) == [who |-> a, ver |-> boot[p].ver, iat |-> now, kid |-> k, start |-> boot[p].at]

ExchangeSession(w) ==
  /\ req[w] # None /\ req[w].pc = "lookup"
  /\ req[w].kid \in jwks[req[w].proc].keys
  /\ \E a \in Accounts :
       Authorize(a) /\ sessions' = sessions \cup {Minted(req[w].proc, req[w].kid, a)}
  /\ Done(w)
  /\ UNCHANGED <<now, outside, boot, jwks, cache>>

\* verify_session_jwt: jsonwebtoken refuses exp < now - leeway.
VerifySession(p, s) == s.ver = boot[p].ver /\ s.iat + Life >= now - Leeway

\* auth_middleware_fn lets the request through to /api/admin.
AuthMiddleware(p, s) == VerifySession(p, s) /\ Authorize(s.who)

-----------------------------------------------------------------------------
(* Captchas, and all other readers of secrets                               *)

\* Mutant: an entry is kept one moment longer.
CachedTooLong(p) == cache[p] # None /\ now - cache[p].at <= SecretTtl

\* mini_moka: an entry is gone time_to_live after it was inserted.
Cached(p) == cache[p] # None /\ now - cache[p].at < SecretTtl

\* validate_captcha: load_secrets answers from the cache, or goes on to ask AWS.
BeginCaptcha(w) ==
  /\ req[w] = None
  /\ Mixed \/ (sessions = {} /\ \A v \in InFlight : req[v].kid = None)
  /\ \E p \in Procs :
       req' = [req EXCEPT ![w] =
                IF Cached(p) THEN [NewRequest(p, "verify", None) EXCEPT !.ver = cache[p].ver]
                             ELSE NewRequest(p, "load", None)]
  /\ UNCHANGED <<now, outside, boot, jwks, cache, sessions>>

\* get_secret_value; a failure is a Drop.
GetSecretValue(w) ==
  /\ req[w] # None /\ req[w].pc = "load"
  /\ req' = [req EXCEPT ![w].pc = "insert", ![w].ver = Stored]
  /\ UNCHANGED <<now, outside, boot, jwks, cache, sessions>>

\* The answer goes to the cache, whatever was put there since, and to the caller.
InsertSecret(w) ==
  /\ req[w] # None /\ req[w].pc = "insert"
  /\ cache' = [cache EXCEPT ![req[w].proc] = [ver |-> req[w].ver, at |-> now]]
  /\ req' = [req EXCEPT ![w].pc = "verify"]
  /\ UNCHANGED <<now, outside, boot, jwks, sessions>>

\* hCaptcha accepts the token under this secret or refuses it.
VerifyCaptcha(w) ==
  /\ req[w] # None /\ req[w].pc = "verify"
  /\ Done(w)
  /\ UNCHANGED <<now, outside, boot, jwks, cache, sessions>>

-----------------------------------------------------------------------------
Init ==
  /\ now = 0
  /\ since = [k \in Kids |-> IF k \in FirstKids THEN 0 ELSE None]
  /\ until = [k \in Kids |-> None]
  /\ rotations = <<>>
  /\ boot = [p \in Procs |-> [ver |-> 0, at |-> 0]]
  /\ jwks = [p \in Procs |-> NewJwks(0)]
  /\ cache = [p \in Procs |-> [ver |-> 0, at |-> 0]]
  /\ req = [w \in Workers |-> None]
  /\ sessions = {}

Step(w) ==
  \/ BeginExchange(w) \/ FetchJwks(w) \/ WriteJwks(w)
  \/ UnknownKey(w) \/ Denied(w) \/ ExchangeSession(w)
  \/ BeginCaptcha(w) \/ GetSecretValue(w) \/ InsertSecret(w) \/ VerifyCaptcha(w)
  \/ Drop(w)

Next ==
  \/ Tick \/ RotateSecret
  \/ \E k \in Kids : PublishKey(k) \/ WithdrawKey(k)
  \/ \E p \in Procs : Start(p)
  \/ \E w \in Workers : Step(w)

Spec == Init /\ [][Next]_vars

-----------------------------------------------------------------------------
(* Properties                                                               *)

\* Until when a key was published, a version of the secret was the stored one.
LastPublished(k) == IF until[k] = None THEN now ELSE until[k]
LastStored(v) == IF v < Stored THEN rotations[v + 1] ELSE now

Request ==
  [pc : {"fetch", "write", "lookup", "load", "insert", "verify"}, proc : Procs,
   kid : Kids \cup {None}, began : Time,
   keys : SUBSET Kids, asOf : Time, ver : Nat]

\* The variables have their types.
TypeOK ==
  /\ now \in Time
  /\ since \in [Kids -> Time \cup {None}]
  /\ until \in [Kids -> Time \cup {None}]
  /\ rotations \in Seq(Time)
  /\ boot \in [Procs -> [ver : Nat, at : Time]]
  /\ jwks \in [Procs -> [keys : SUBSET Kids, at : Time, asOf : Time]]
  /\ cache \in [Procs -> [ver : Nat, at : Time] \cup {None}]
  /\ req \in [Workers -> Request \cup {None}]
  /\ sessions \subseteq [who : Accounts, ver : Nat, iat : Time, kid : Kids, start : Time]

\* A key that Google has withdrawn opens nothing for long: a session is issued for a
\* token signed with it at most the time-to-live of the cache and two requests later, and
\* the middleware lets that session through until its end and the leeway are over, whatever
\* process the requests come to, whatever answers of Google crossed each other.
WithdrawnKeysExpire ==
  \A s \in sessions :
    /\ s.iat <= LastPublished(s.kid) + Ttl + 2 * MaxRequest
    /\ \A p \in Procs : AuthMiddleware(p, s) =>
         now <= LastPublished(s.kid) + Ttl + 2 * MaxRequest + Life + Leeway

\* An administrator is signed out early only by a change of the secret between the starts of
\* the two processes: the one that issued the session and the one that refuses it.
SessionsHold ==
  \A s \in sessions, p \in Procs :
    (now <= s.iat + Life /\ ~AuthMiddleware(p, s)) =>
      \E i \in DOMAIN rotations :
        \/ s.start <= rotations[i] /\ rotations[i] <= boot[p].at
        \/ boot[p].at <= rotations[i] /\ rotations[i] <= s.start

\* A captcha is verified with a secret that was the stored one when the request began, or
\* less than the cache's time-to-live and one request before.
SecretsAreRecent ==
  \A w \in InFlight : req[w].pc = "verify" =>
    \/ LastStored(req[w].ver) >= req[w].began
    \/ req[w].began < LastStored(req[w].ver) + SecretTtl + MaxRequest

\* A token whose key was published before its request began and is published still is refused
\* as unknown only if meanwhile an answer that Google had sent before replaced a later one.
PublishedKeyIsKnown ==
  [][\A w \in Workers : UnknownKey(w) =>
        \/ req[w].kid \notin Published
        \/ since[req[w].kid] >= req[w].began
        \/ jwks[req[w].proc].asOf < req[w].began /\ req[w].began <= jwks[req[w].proc].at]_vars
=============================================================================
