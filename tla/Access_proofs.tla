---------------------------- MODULE Access_proofs ----------------------------
(***************************************************************************)
(* How old the keys, secrets and sessions can be that are still accepted,  *)
(* for any number of processes, requests, keys and accounts, and any times *)
(* to live.                                                                *)
(***************************************************************************)
EXTENDS Access, TLAPS

-----------------------------------------------------------------------------
(* The inductive invariant                                                  *)

At(w, step) == req[w] # None /\ req[w].pc = step

\* Nothing is from the future, and a request takes no longer than it may.
TimesOK ==
  /\ \A k \in Kids : (since[k] # None => since[k] <= now) /\ (until[k] # None => until[k] <= now)
  /\ \A i \in DOMAIN rotations : rotations[i] <= now
  /\ \A p \in Procs : /\ boot[p].at <= now
                      /\ jwks[p].at <= now /\ jwks[p].at <= jwks[p].asOf + MaxRequest
  /\ \A w \in InFlight : /\ req[w].began <= req[w].asOf /\ req[w].asOf <= now
                         /\ now <= req[w].began + MaxRequest
  /\ \A s \in sessions : s.iat <= now /\ s.start <= now

\* Keys in memory were published when Google sent them. An answer that is about to be
\* written has all keys that were there before it was sent.
KeysOK ==
  /\ \A p \in Procs : \A k \in jwks[p].keys : jwks[p].asOf <= LastPublished(k)
  /\ \A w \in Workers : At(w, "write") =>
       /\ \A k \in req[w].keys : req[w].asOf <= LastPublished(k)
       /\ \A k \in Published : since[k] < req[w].asOf => k \in req[w].keys

\* A request looks keys up that were not too old when it began. If its key is missing, an
\* answer from before has come in since.
LookupsOK ==
  \A w \in Workers : At(w, "lookup") =>
    LET j == jwks[req[w].proc] IN
    /\ req[w].began <= j.at + Ttl
    /\ (req[w].kid \in Published /\ since[req[w].kid] < req[w].began /\ req[w].kid \notin j.keys)
         => j.asOf < req[w].began /\ req[w].began <= j.at

SessionsOK ==
  \A s \in sessions :
    /\ s.who \in Admins
    /\ s.iat <= LastPublished(s.kid) + Ttl + 2 * MaxRequest

\* ver was the stored version at t.
StoredAt(ver, t) ==
  /\ ver <= Stored
  /\ \A i \in DOMAIN rotations : (i <= ver => rotations[i] <= t) /\ (ver < i => t <= rotations[i])

\* What a process took from the secret when it started, and with it the sessions.
StartsOK ==
  /\ \A p \in Procs : StoredAt(boot[p].ver, boot[p].at)
  /\ \A s \in sessions : StoredAt(s.ver, s.start)

\* A secret in memory was stored one request before it was put there.
SecretsOK ==
  /\ \A p \in Procs : cache[p] # None =>
       cache[p].ver <= Stored /\ cache[p].at <= LastStored(cache[p].ver) + MaxRequest
  /\ \A w \in Workers :
       /\ At(w, "insert") => req[w].ver <= Stored /\ req[w].began <= LastStored(req[w].ver)
       /\ At(w, "verify") => /\ req[w].ver <= Stored
                             /\ \/ LastStored(req[w].ver) >= req[w].began
                                \/ req[w].began < LastStored(req[w].ver) + SecretTtl + MaxRequest

IInv ==
  TypeOK /\ TimesOK /\ KeysOK /\ LookupsOK /\ SessionsOK /\ StartsOK /\ SecretsOK

-----------------------------------------------------------------------------
(* Types                                                                    *)

LEMMA Bounds ==
  /\ Ttl \in Nat /\ SecretTtl \in Nat /\ Life \in Nat /\ Leeway \in Nat
  /\ MaxRequest \in Nat /\ LastTime \in Nat /\ Time \subseteq Nat
  /\ None \notin Time /\ None \notin Kids
  BY TimesAssumption, KidsAssumption DEF Time

LEMMA Starting ==
  ASSUME Init
  PROVE  TypeOK
  <1>1. 0 \in Time /\ Stored = 0
    BY TimesAssumption DEF Time, Init, Stored
  <1> QED BY <1>1, KidsAssumption DEF Init, TypeOK, NewJwks

LEMMA RequestTyped ==
  ASSUME TypeOK, NEW p \in Procs, NEW k \in Kids \cup {None}, NEW s \in {"fetch", "lookup", "load", "verify"}
  PROVE  NewRequest(p, s, k) \in Request
  BY DEF TypeOK, NewRequest, Request

\* Requests that go on remain requests.
LEMMA Updated ==
  ASSUME TypeOK, NEW w \in Workers,
         FetchJwks(w) \/ WriteJwks(w) \/ GetSecretValue(w) \/ InsertSecret(w)
  PROVE  req' \in [Workers -> Request \cup {None}]
  <1>1. /\ req[w] \in Request /\ Published \in SUBSET Kids /\ now \in Time /\ Stored \in Nat
        /\ {} \in SUBSET Kids /\ req \in [Workers -> Request \cup {None}]
    <2>1. req[w] # None
      BY DEF FetchJwks, WriteJwks, GetSecretValue, InsertSecret
    <2>2. Published \in SUBSET Kids
      BY DEF Published
    <2>3. Stored \in Nat
      BY DEF Stored, TypeOK
    <2> QED BY <2>1, <2>2, <2>3 DEF TypeOK
  <1>2. ASSUME NEW r \in Request, req' = [req EXCEPT ![w] = r]
        PROVE  req' \in [Workers -> Request \cup {None}]
    BY <1>1, <1>2
  <1>3. /\ [req[w] EXCEPT !.pc = "write", !.keys = Published, !.asOf = now] \in Request
        /\ [req[w] EXCEPT !.pc = "lookup", !.keys = {}] \in Request
        /\ [req[w] EXCEPT !.pc = "insert", !.ver = Stored] \in Request
        /\ [req[w] EXCEPT !.pc = "verify"] \in Request
    BY <1>1 DEF Request
  <1>4. \/ req' = [req EXCEPT ![w] = [req[w] EXCEPT !.pc = "write", !.keys = Published, !.asOf = now]]
        \/ req' = [req EXCEPT ![w] = [req[w] EXCEPT !.pc = "lookup", !.keys = {}]]
        \/ req' = [req EXCEPT ![w] = [req[w] EXCEPT !.pc = "insert", !.ver = Stored]]
        \/ req' = [req EXCEPT ![w] = [req[w] EXCEPT !.pc = "verify"]]
    <2> USE <1>1
    <2>1. CASE FetchJwks(w) BY <2>1 DEF FetchJwks
    <2>2. CASE WriteJwks(w) BY <2>2 DEF WriteJwks
    <2>3. CASE GetSecretValue(w) BY <2>3 DEF GetSecretValue
    <2>4. CASE InsertSecret(w) BY <2>4 DEF InsertSecret
    <2> QED BY <2>1, <2>2, <2>3, <2>4
  <1> QED BY <1>2, <1>3, <1>4

LEMMA TypesKept ==
  ASSUME TypeOK, [Next]_vars
  PROVE  TypeOK'
  <1> USE DEF TypeOK
  <1>1. CASE Tick
    BY <1>1, Bounds DEF Tick, outside, Time
  <1>2. CASE RotateSecret
    BY <1>2 DEF RotateSecret
  <1>3. ASSUME NEW k \in Kids, PublishKey(k) \/ WithdrawKey(k) PROVE TypeOK'
    BY <1>3 DEF PublishKey, WithdrawKey
  <1>4. ASSUME NEW p \in Procs, Start(p) PROVE TypeOK'
    <2>1. Stored \in Nat
      BY DEF Stored
    <2> QED BY <1>4, <2>1 DEF Start, outside, NewJwks
  <1>5. ASSUME NEW w \in Workers, Step(w) PROVE TypeOK'
    <2>1. CASE Done(w) /\ UNCHANGED <<now, outside, boot, jwks, cache, sessions>>
      BY <2>1 DEF Done, outside
    <2>2. CASE BeginExchange(w)
      BY <2>2, RequestTyped DEF BeginExchange, outside
    <2>3. CASE FetchJwks(w)
      BY <2>3, Updated DEF FetchJwks, outside
    <2>4. CASE WriteJwks(w)
      <3>1. req[w].proc \in Procs /\ Written(jwks[req[w].proc], req[w]) \in [keys : SUBSET Kids, at : Time, asOf : Time]
        BY <2>4 DEF WriteJwks, Written, Request
      <3> QED BY <2>4, <3>1, Updated DEF WriteJwks, outside
    <2>5. CASE ExchangeSession(w)
      <3>1. req[w].proc \in Procs /\ req[w].kid \in Kids
        BY <2>5 DEF ExchangeSession, Request
      <3> QED BY <2>5, <3>1 DEF ExchangeSession, Done, outside, Minted, Accounts
    <2>6. CASE BeginCaptcha(w)
      <3> SUFFICES req' \in [Workers -> Request \cup {None}]
        BY <2>6 DEF BeginCaptcha, outside
      <3>1. PICK p \in Procs :
              req' = [req EXCEPT ![w] =
                IF Cached(p) THEN [NewRequest(p, "verify", None) EXCEPT !.ver = cache[p].ver]
                             ELSE NewRequest(p, "load", None)]
        BY <2>6 DEF BeginCaptcha
      <3>2. NewRequest(p, "load", None) \in Request /\ NewRequest(p, "verify", None) \in Request
        BY RequestTyped
      <3>3. ASSUME Cached(p)
            PROVE  [NewRequest(p, "verify", None) EXCEPT !.ver = cache[p].ver] \in Request
        <4>1. cache[p].ver \in Nat
          BY <3>3 DEF Cached
        <4> QED BY <3>2, <4>1 DEF Request
      <3> HIDE DEF TypeOK
      <3>4. req \in [Workers -> Request \cup {None}]
        BY DEF TypeOK
      <3> QED BY <3>1, <3>2, <3>3, <3>4
    <2>7. CASE GetSecretValue(w)
      BY <2>7, Updated DEF GetSecretValue, outside
    <2>8. CASE InsertSecret(w)
      <3>1. req[w].proc \in Procs /\ req[w].ver \in Nat
        BY <2>8 DEF InsertSecret, Request
      <3> QED BY <2>8, <3>1, Updated DEF InsertSecret, outside
    <2> QED BY <1>5, <2>1, <2>2, <2>3, <2>4, <2>5, <2>6, <2>7, <2>8
            DEF Step, Drop, UnknownKey, Denied, VerifyCaptcha
  <1>6. CASE UNCHANGED vars
    BY <1>6 DEF vars
  <1> QED BY <1>1, <1>2, <1>3, <1>4, <1>5, <1>6 DEF Next

-----------------------------------------------------------------------------
(* Steps                                                                    *)

\* The fields of a request, and those of the caches, are moments, keys and versions.
LEMMA Fields ==
  ASSUME TypeOK
  PROVE  /\ now \in Nat /\ Stored \in Nat
         /\ \A w \in InFlight : /\ req[w] \in Request /\ req[w].proc \in Procs
                                /\ req[w].began \in Nat /\ req[w].asOf \in Nat /\ req[w].ver \in Nat
                                /\ req[w].keys \subseteq Kids
         /\ \A p \in Procs : /\ boot[p].at \in Nat /\ boot[p].ver \in Nat
                             /\ jwks[p].at \in Nat /\ jwks[p].asOf \in Nat /\ jwks[p].keys \subseteq Kids
                             /\ cache[p] # None => cache[p].at \in Nat /\ cache[p].ver \in Nat
         /\ \A k \in Kids : (since[k] # None => since[k] \in Nat) /\ (until[k] # None => until[k] \in Nat)
         /\ \A i \in DOMAIN rotations : rotations[i] \in Nat
         /\ DOMAIN rotations = 1..Stored
         /\ \A s \in sessions : /\ s.iat \in Nat /\ s.ver \in Nat /\ s.kid \in Kids /\ s.start \in Nat
                                /\ s.who \in Accounts
  <1>1. now \in Nat /\ Stored \in Nat /\ DOMAIN rotations = 1..Stored
    BY Bounds DEF TypeOK, Stored
  <1>2. ASSUME NEW w \in InFlight
        PROVE  /\ req[w] \in Request /\ req[w].proc \in Procs
               /\ req[w].began \in Nat /\ req[w].asOf \in Nat /\ req[w].ver \in Nat
               /\ req[w].keys \subseteq Kids
    <2>1. req[w] \in Request
      BY DEF InFlight, TypeOK
    <2> QED BY <2>1, Bounds DEF Request
  <1>3. ASSUME NEW p \in Procs
        PROVE  /\ boot[p].at \in Nat /\ boot[p].ver \in Nat
               /\ jwks[p].at \in Nat /\ jwks[p].asOf \in Nat /\ jwks[p].keys \subseteq Kids
               /\ cache[p] # None => cache[p].at \in Nat /\ cache[p].ver \in Nat
    BY Bounds DEF TypeOK
  <1>4. \A k \in Kids : (since[k] # None => since[k] \in Nat) /\ (until[k] # None => until[k] \in Nat)
    BY Bounds DEF TypeOK
  <1>5. \A i \in DOMAIN rotations : rotations[i] \in Nat
    <2>1. rotations \in Seq(Time)
      BY DEF TypeOK
    <2>2. \A i \in 1..Len(rotations) : rotations[i] \in Time
      BY <2>1
    <2>3. DOMAIN rotations = 1..Len(rotations)
      BY <2>1
    <2> QED BY <2>2, <2>3, Bounds
  <1>6. \A s \in sessions : /\ s.iat \in Nat /\ s.ver \in Nat /\ s.kid \in Kids /\ s.start \in Nat
                             /\ s.who \in Accounts
    BY Bounds DEF TypeOK
  <1> QED BY <1>1, <1>2, <1>3, <1>4, <1>5, <1>6

\* A step of one request leaves the others alone, and the world as it is.
LEMMA OthersStay ==
  ASSUME TypeOK, NEW w \in Workers, Step(w)
  PROVE  /\ UNCHANGED <<now, outside, boot>>
         /\ \A v \in Workers \ {w} : req'[v] = req[v]
  <1> USE DEF TypeOK
  <1>1. UNCHANGED <<now, outside, boot>>
    BY DEF Step, BeginExchange, FetchJwks, WriteJwks, UnknownKey, Denied, ExchangeSession, BeginCaptcha,
           GetSecretValue, InsertSecret, VerifyCaptcha, Drop
  <1>2. \E r : req' = [req EXCEPT ![w] = r]
    BY DEF Step, BeginExchange, FetchJwks, WriteJwks, UnknownKey, Denied, ExchangeSession, BeginCaptcha,
           GetSecretValue, InsertSecret, VerifyCaptcha, Drop, Done
  <1> QED BY <1>1, <1>2

\* What the request of a worker becomes.
LEMMA Became ==
  ASSUME TypeOK, NEW w \in Workers, Step(w), req'[w] # None
  PROVE  \/ /\ req[w] = None /\ req'[w].began = now /\ req'[w].asOf = now
            /\ req'[w].pc \in {"fetch", "lookup", "load", "verify"}
         \/ /\ req[w] # None /\ req'[w].began = req[w].began
            /\ req'[w].proc = req[w].proc /\ req'[w].kid = req[w].kid
            /\ req'[w].asOf = (IF req[w].pc = "fetch" THEN now ELSE req[w].asOf)
            /\ <<req[w].pc, req'[w].pc>> \in {<<"fetch", "write">>, <<"write", "lookup">>,
                                              <<"load", "insert">>, <<"insert", "verify">>}
  <1> USE DEF TypeOK
  <1>1. CASE req'[w] = None
    BY <1>1
  <1>2. CASE BeginExchange(w)
    BY <1>2 DEF BeginExchange, NewRequest
  <1>3. CASE BeginCaptcha(w)
    <2>1. PICK p \in Procs :
            req' = [req EXCEPT ![w] =
              IF Cached(p) THEN [NewRequest(p, "verify", None) EXCEPT !.ver = cache[p].ver]
                           ELSE NewRequest(p, "load", None)]
      BY <1>3 DEF BeginCaptcha
    <2> QED BY <1>3, <2>1 DEF BeginCaptcha, NewRequest
  <1>4. CASE FetchJwks(w)
    BY <1>4 DEF FetchJwks, Request
  <1>5. CASE WriteJwks(w)
    BY <1>5 DEF WriteJwks, Request
  <1>6. CASE GetSecretValue(w)
    BY <1>6 DEF GetSecretValue, Request
  <1>7. CASE InsertSecret(w)
    BY <1>7 DEF InsertSecret, Request
  <1> QED BY <1>1, <1>2, <1>3, <1>4, <1>5, <1>6, <1>7
          DEF Step, UnknownKey, Denied, ExchangeSession, VerifyCaptcha, Drop, Done

\* The keys in memory change by WriteJwks only, the secret by InsertSecret, and sessions
\* are added by ExchangeSession.
LEMMA CachesStay ==
  ASSUME NEW w \in Workers, Step(w)
  PROVE  /\ WriteJwks(w) \/ UNCHANGED jwks
         /\ InsertSecret(w) \/ UNCHANGED cache
         /\ ExchangeSession(w) \/ UNCHANGED sessions
  BY DEF Step, BeginExchange, FetchJwks, WriteJwks, UnknownKey, Denied, ExchangeSession, BeginCaptcha,
         GetSecretValue, InsertSecret, VerifyCaptcha, Drop

\* The end of a key, or of a version of the secret, is never earlier than it looked before.
LEMMA LaterEnds ==
  ASSUME TypeOK, [Next]_vars
  PROVE  /\ now' \in Nat /\ now <= now' /\ Stored <= Stored'
         /\ \A k \in Kids : /\ LastPublished(k) \in Nat /\ LastPublished(k)' \in Nat
                            /\ TimesOK => LastPublished(k) <= LastPublished(k)'
         /\ \A v \in 0..Stored : /\ LastStored(v) \in Nat /\ LastStored(v)' \in Nat
                                 /\ LastStored(v) <= LastStored(v)'
  <1>1. /\ now' \in Nat /\ now \in Nat /\ Stored \in Nat
        /\ \A k \in Kids : LastPublished(k) \in Nat
        /\ \A v \in Nat : LastStored(v) \in Nat
    <2>1. TypeOK'
      BY TypesKept
    <2>2. \A v \in Nat : v < Stored => v + 1 \in DOMAIN rotations
      BY Fields
    <2> QED BY <2>1, <2>2, Fields, Bounds DEF LastPublished, LastStored, TypeOK
  <1> DEFINE Same == UNCHANGED <<until, rotations>>
  <1>2. CASE Same /\ now' \in {now, now + 1}
    BY <1>1, <1>2, Fields DEF LastPublished, LastStored, Stored, TimesOK
  <1>3. CASE RotateSecret
    <2>1. Stored' = Stored + 1 /\ \A i \in 1..Stored : rotations'[i] = rotations[i]
      BY <1>3, Fields DEF RotateSecret, Stored, TypeOK
    <2>2. rotations'[Stored + 1] = now
      BY <1>3, Fields DEF RotateSecret, Stored, TypeOK
    <2>3. UNCHANGED <<now, until>>
      BY <1>3 DEF RotateSecret
    <2>4. \A k \in Kids : LastPublished(k)' = LastPublished(k)
      BY <2>3 DEF LastPublished
    <2>5. \A v \in 0..Stored : LastStored(v)' = LastStored(v)
      BY <1>1, <2>1, <2>2, <2>3 DEF LastStored
    <2> QED BY <1>1, <2>1, <2>3, <2>4, <2>5
  <1>4. ASSUME NEW k \in Kids, WithdrawKey(k)
        PROVE  until' = [until EXCEPT ![k] = now] /\ until[k] = None /\ UNCHANGED <<now, rotations>>
    BY <1>4 DEF WithdrawKey, Published
  <1>5. CASE \E k \in Kids : WithdrawKey(k)
    BY <1>1, <1>4, <1>5, Fields, Bounds DEF LastPublished, LastStored, Stored, TypeOK
  <1>6. RotateSecret \/ (\E k \in Kids : WithdrawKey(k)) \/ (Same /\ now' \in {now, now + 1})
    <2>1. CASE \E w \in Workers : Step(w)
      BY <2>1, OthersStay DEF outside
    <2> QED BY <2>1 DEF Next, vars, Tick, PublishKey, Start, outside
  <1> QED BY <1>2, <1>3, <1>5, <1>6

-----------------------------------------------------------------------------
(* The parts of the invariant, step by step                                 *)

LEMMA StepKinds ==
  ASSUME [Next]_vars
  PROVE  \/ UNCHANGED <<boot, jwks, cache, req, sessions>>
         \/ \E p \in Procs : Start(p)
         \/ \E w \in Workers : Step(w)
  BY DEF Next, vars, Tick, RotateSecret, PublishKey, WithdrawKey

\* What a start leaves of the requests.
LEMMA AfterStart ==
  ASSUME NEW p \in Procs, Start(p), NEW w \in Workers, req'[w] # None
  PROVE  req'[w] = req[w] /\ req[w].proc # p
  BY DEF Start

\* The session that an exchange issues.
LEMMA Issued ==
  ASSUME TypeOK, NEW w \in Workers, ExchangeSession(w)
  PROVE  /\ w \in InFlight /\ At(w, "lookup") /\ req[w].proc \in Procs
         /\ req[w].kid \in jwks[req[w].proc].keys /\ req[w].kid \in Kids
         /\ \E s : /\ sessions' = sessions \cup {s}
                  /\ s.who \in Admins /\ s.ver = boot[req[w].proc].ver /\ s.iat = now
                  /\ s.kid = req[w].kid /\ s.start = boot[req[w].proc].at
  <1>1. w \in InFlight /\ At(w, "lookup") /\ req[w].kid \in jwks[req[w].proc].keys
    BY DEF ExchangeSession, InFlight, At
  <1>2. req[w].proc \in Procs
    BY <1>1, Fields
  <1>3. req[w].kid \in Kids
    BY <1>1, <1>2, Fields
  <1>4. PICK a \in Admins : sessions' = sessions \cup {Minted(req[w].proc, req[w].kid, a)}
    BY DEF ExchangeSession, Authorize
  <1> DEFINE s == Minted(req[w].proc, req[w].kid, a)
  <1>5. /\ s.who = a /\ s.ver = boot[req[w].proc].ver /\ s.iat = now
        /\ s.kid = req[w].kid /\ s.start = boot[req[w].proc].at
    BY DEF Minted
  <1>6. sessions' = sessions \cup {s}
    BY <1>4
  <1> HIDE DEF s
  <1>7. \E t : /\ sessions' = sessions \cup {t}
               /\ t.who \in Admins /\ t.ver = boot[req[w].proc].ver /\ t.iat = now
               /\ t.kid = req[w].kid /\ t.start = boot[req[w].proc].at
    BY <1>5, <1>6
  <1> QED BY <1>1, <1>2, <1>3, <1>7

LEMMA TimesKept ==
  ASSUME IInv, [Next]_vars
  PROVE  TimesOK'
  <1> USE Bounds, Fields, LaterEnds DEF IInv
  <1>1. \A k \in Kids : (since'[k] # None => since'[k] <= now') /\ (until'[k] # None => until'[k] <= now')
    <2>1. \A k \in Kids : since'[k] \in {since[k], now} /\ until'[k] \in {until[k], now}
      <3>1. CASE \E w \in Workers : Step(w)
        <4>1. UNCHANGED <<since, until>>
          BY <3>1, OthersStay DEF outside
        <4> QED BY <4>1
      <3>2. CASE \E k \in Kids : PublishKey(k) \/ WithdrawKey(k)
        BY <3>2 DEF PublishKey, WithdrawKey, TypeOK
      <3>3. CASE UNCHANGED <<since, until>>
        BY <3>3
      <3>4. CASE Tick \/ RotateSecret \/ (\E p \in Procs : Start(p)) \/ UNCHANGED vars
        BY <3>3, <3>4 DEF vars, Tick, RotateSecret, Start, outside
      <3> QED BY <3>1, <3>2, <3>4 DEF Next
    <2>2. \A k \in Kids : (since[k] # None => since[k] <= now) /\ (until[k] # None => until[k] <= now)
      BY DEF TimesOK
    <2>3. now \in Nat /\ now' \in Nat /\ now <= now'
      BY Fields, LaterEnds
    <2>4. \A k \in Kids : (since[k] # None => since[k] \in Nat) /\ (until[k] # None => until[k] \in Nat)
      BY Fields
    <2> HIDE DEF IInv
    <2> QED BY <2>1, <2>2, <2>3, <2>4
  <1>2. \A i \in DOMAIN rotations' : rotations'[i] <= now'
    <2>1. CASE RotateSecret
      <3>1. DOMAIN rotations' = 1..Stored + 1 /\ rotations'[Stored + 1] = now
            /\ \A i \in 1..Stored : rotations'[i] = rotations[i]
        BY <2>1 DEF RotateSecret, TypeOK, Stored
      <3> QED BY <2>1, <3>1 DEF RotateSecret, TimesOK
    <2>2. CASE UNCHANGED rotations
      BY <2>2 DEF TimesOK
    <2>3. CASE \E w \in Workers : Step(w)
      BY <2>3, <2>2, OthersStay DEF outside
    <2> QED BY <2>1, <2>2, <2>3 DEF Next, vars, Tick, PublishKey, WithdrawKey, Start, outside
  <1>3. ASSUME NEW p \in Procs
        PROVE  /\ boot'[p].at <= now'
               /\ jwks'[p].at <= now' /\ jwks'[p].at <= jwks'[p].asOf + MaxRequest
    <2> DEFINE InTime == /\ boot'[p].at <= now'
                         /\ jwks'[p].at <= now' /\ jwks'[p].at <= jwks'[p].asOf + MaxRequest
    <2>1. CASE UNCHANGED <<boot, jwks>>
      BY <2>1 DEF TimesOK
    <2>2. ASSUME NEW q \in Procs, Start(q) PROVE InTime
      BY <2>2 DEF Start, NewJwks, TimesOK, TypeOK
    <2>3. ASSUME NEW w \in Workers, WriteJwks(w) PROVE InTime
      <3>1. w \in InFlight
        BY <2>3 DEF WriteJwks, InFlight
      <3>2. boot'[p] = boot[p] /\ now' = now
        BY <2>3 DEF WriteJwks
      <3>3. \/ jwks'[p] = jwks[p]
            \/ jwks'[p].at = now /\ jwks'[p].asOf = req[w].asOf
        BY <2>3, <3>1 DEF WriteJwks, Written, TypeOK
      <3>4. now <= req[w].asOf + MaxRequest
        <4>1. req[w].began <= req[w].asOf /\ now <= req[w].began + MaxRequest
          BY <3>1 DEF TimesOK
        <4>2. req[w].began \in Nat /\ req[w].asOf \in Nat /\ now \in Nat /\ MaxRequest \in Nat
          BY <3>1
        <4> QED BY <4>1, <4>2
      <3>5. /\ boot[p].at <= now /\ jwks[p].at <= now
            /\ jwks[p].at <= jwks[p].asOf + MaxRequest
        BY DEF TimesOK
      <3> QED BY <3>2, <3>3, <3>4, <3>5
    <2>4. ASSUME NEW w \in Workers, Step(w), ~WriteJwks(w) PROVE InTime
      BY <2>1, <2>4, OthersStay, CachesStay
    <2> QED BY <2>1, <2>2, <2>3, <2>4, StepKinds
  <1>4. ASSUME NEW w \in InFlight'
        PROVE  /\ req'[w].began <= req'[w].asOf /\ req'[w].asOf <= now'
               /\ now' <= req'[w].began + MaxRequest
    <2>1. w \in Workers /\ req'[w] # None
      BY DEF InFlight
    <2>2. CASE req'[w] = req[w]
      <3>1. w \in InFlight
        BY <2>1, <2>2 DEF InFlight
      <3>2. Tick => now' = now + 1 /\ now - req[w].began < MaxRequest
        BY <3>1 DEF Tick
      <3>3. CASE Tick
        BY <2>2, <3>1, <3>2, <3>3 DEF TimesOK
      <3>4. ~Tick => now' = now
        <4>1. CASE \E v \in Workers : Step(v)
          BY <4>1, OthersStay
        <4> QED BY <4>1 DEF Next, vars, RotateSecret, PublishKey, WithdrawKey, Start
      <3> QED BY <2>2, <3>1, <3>3, <3>4 DEF TimesOK
    <2>3. CASE Step(w)
      <3>1. now' = now
        BY <2>1, <2>3, OthersStay
      <3>2. CASE req[w] = None
        BY <2>1, <2>3, <3>1, <3>2, Became
      <3>3. CASE req[w] # None
        <4>1. w \in InFlight
          BY <2>1, <3>3 DEF InFlight
        <4> QED BY <2>1, <2>3, <3>1, <3>3, <4>1, Became DEF TimesOK
      <3> QED BY <3>2, <3>3
    <2> QED BY <2>1, <2>2, <2>3, StepKinds, AfterStart, OthersStay
  <1>5. \A s \in sessions' : s.iat <= now' /\ s.start <= now'
    <2>1. CASE \E w \in Workers : ExchangeSession(w)
      <3>1. PICK w \in Workers : ExchangeSession(w)
        BY <2>1
      <3>2. PICK s : /\ sessions' = sessions \cup {s} /\ s.iat = now
                     /\ s.start = boot[req[w].proc].at /\ req[w].proc \in Procs
        BY <3>1, Issued
      <3>3. now' = now /\ boot[req[w].proc].at <= now
        BY <3>1, <3>2 DEF ExchangeSession, TimesOK
      <3> QED BY <3>2, <3>3 DEF TimesOK
    <2>2. CASE UNCHANGED sessions
      BY <2>2 DEF TimesOK
    <2> QED BY <2>1, <2>2, StepKinds, CachesStay DEF Start
  <1> QED BY <1>1, <1>2, <1>3, <1>4, <1>5 DEF TimesOK

\* Who is published and was before this moment, was published already.
LEMMA PublishedBefore ==
  ASSUME TypeOK, [Next]_vars, NEW k \in Published', since'[k] < now
  PROVE  k \in Published /\ since'[k] = since[k]
  <1>1. k \in Kids
    BY DEF Published
  <1>2. CASE \E i \in Kids : PublishKey(i)
    <2>1. PICK i \in Kids : PublishKey(i)
      BY <1>2
    <2>2. i # k
      BY <2>1, <1>1, Fields DEF PublishKey, TypeOK
    <2> QED BY <1>1, <2>1, <2>2 DEF PublishKey, TypeOK, Published
  <1>3. CASE \E i \in Kids : WithdrawKey(i)
    <2>1. PICK i \in Kids : WithdrawKey(i)
      BY <1>3
    <2>2. i # k
      BY <2>1, <1>1, Fields, Bounds DEF WithdrawKey, TypeOK, Published
    <2> QED BY <1>1, <2>1, <2>2 DEF WithdrawKey, TypeOK, Published
  <1>4. CASE UNCHANGED <<since, until>>
    BY <1>1, <1>4 DEF Published
  <1>5. CASE \E w \in Workers : Step(w)
    <2>1. UNCHANGED <<since, until>>
      BY <1>5, OthersStay DEF outside
    <2> QED BY <1>4, <2>1
  <1>6. CASE Tick \/ RotateSecret \/ (\E p \in Procs : Start(p)) \/ UNCHANGED vars
    BY <1>4, <1>6 DEF vars, Tick, RotateSecret, Start, outside
  <1> QED BY <1>2, <1>3, <1>5, <1>6 DEF Next

\* A request that waits to write either did so before, or has just asked Google.
LEMMA Writing ==
  ASSUME TypeOK, [Next]_vars, NEW w \in Workers, At(w, "write")'
  PROVE  req'[w] = req[w] \/ FetchJwks(w)
  <1>1. CASE Step(w)
    <2>1. req[w] # None /\ req[w].pc = "fetch"
      BY <1>1, Became DEF At
    <2> QED BY <1>1, <2>1 DEF At, Step, BeginExchange, FetchJwks, WriteJwks, UnknownKey, Denied,
              ExchangeSession, BeginCaptcha, GetSecretValue, InsertSecret, VerifyCaptcha, Drop, Done, TypeOK
  <1> QED BY <1>1, StepKinds, AfterStart, OthersStay DEF At

LEMMA KeysKept ==
  ASSUME IInv, [Next]_vars
  PROVE  KeysOK'
  <1>0. TypeOK /\ TimesOK /\ KeysOK
    BY DEF IInv
  <1> USE <1>0
  <1>1. ASSUME NEW p \in Procs, NEW k \in jwks'[p].keys
        PROVE  jwks'[p].asOf <= LastPublished(k)'
    <2> DEFINE Known == k \in Kids /\ jwks'[p].asOf \in Nat /\ jwks'[p].asOf <= LastPublished(k)
    <2>1. ASSUME jwks'[p] = jwks[p]
          PROVE  Known
      <3>1. k \in jwks[p].keys /\ jwks[p].keys \subseteq Kids /\ jwks[p].asOf \in Nat
        BY <2>1, Fields
      <3>2. jwks[p].asOf <= LastPublished(k)
        BY <3>1 DEF KeysOK
      <3> QED BY <2>1, <3>1, <3>2
    <2>2. ASSUME NEW w \in Workers, WriteJwks(w), jwks'[p] # jwks[p]
          PROVE  Known
      <3>1. w \in InFlight /\ At(w, "write")
        BY <2>2 DEF WriteJwks, InFlight, At
      <3>2. jwks'[p].keys = req[w].keys /\ jwks'[p].asOf = req[w].asOf
        BY <2>2 DEF WriteJwks, Written, TypeOK
      <3> QED BY <3>1, <3>2, Fields DEF KeysOK
    <2>3. ASSUME NEW q \in Procs, Start(q)
          PROVE  jwks'[p] = jwks[p]
      <3>1. jwks' = [jwks EXCEPT ![q] = NewJwks(now)] /\ NewJwks(now).keys = {}
        BY <2>3 DEF Start, NewJwks
      <3>2. p # q
        BY <1>1, <3>1 DEF TypeOK
      <3> QED BY <3>1, <3>2 DEF TypeOK
    <2>4. Known
      BY <2>1, <2>2, <2>3, StepKinds, CachesStay
    <2> QED BY <2>4, LaterEnds DEF TimesOK
  <1>2. ASSUME NEW w \in Workers, At(w, "write")'
        PROVE  /\ \A k \in req'[w].keys : req'[w].asOf <= LastPublished(k)'
               /\ \A k \in Published' : since'[k] < req'[w].asOf => k \in req'[w].keys
    <2>1. CASE req'[w] = req[w]
      <3>1. At(w, "write") /\ w \in InFlight
        BY <1>2, <2>1 DEF At, InFlight
      <3>2. /\ req[w].asOf \in Nat /\ req[w].keys \subseteq Kids /\ now \in Nat
            /\ req[w].asOf <= now
        BY <3>1, Fields DEF TimesOK
      <3>3. ASSUME NEW k \in req[w].keys
            PROVE  req[w].asOf <= LastPublished(k)'
        BY <3>1, <3>2, LaterEnds DEF KeysOK
      <3>4. ASSUME NEW k \in Published', since'[k] < req[w].asOf
            PROVE  k \in req[w].keys
        <4>1. since'[k] \in Nat
          BY TypesKept, Bounds DEF Published, TypeOK
        <4>2. k \in Published /\ since'[k] = since[k]
          BY <3>2, <3>4, <4>1, PublishedBefore
        <4> QED BY <3>1, <3>4, <4>2 DEF KeysOK
      <3> QED BY <2>1, <3>3, <3>4
    <2>2. CASE FetchJwks(w)
      <3>1. req'[w].keys = Published /\ req'[w].asOf = now
        BY <2>2 DEF FetchJwks, TypeOK
      <3>2. UNCHANGED <<now, since, until>>
        BY <2>2 DEF FetchJwks, outside
      <3>3. Published' = Published /\ \A k \in Published : LastPublished(k)' = now
        BY <3>2 DEF Published, LastPublished
      <3> QED BY <3>1, <3>3, Fields
    <2> QED BY <1>2, <2>1, <2>2, Writing
  <1> QED BY <1>1, <1>2 DEF KeysOK

LEMMA LookupsKept ==
  ASSUME IInv, [Next]_vars
  PROVE  LookupsOK'
  <1>0. TypeOK /\ TimesOK /\ KeysOK /\ LookupsOK
    BY DEF IInv
  <1> USE <1>0
  <1> SUFFICES ASSUME NEW w \in Workers, At(w, "lookup")'
               PROVE  LET r == req'[w]
                          j == jwks'[r.proc]
                      IN  /\ r.began <= j.at + Ttl
                          /\ (r.kid \in Published' /\ since'[r.kid] < r.began /\ r.kid \notin j.keys)
                               => j.asOf < r.began /\ r.began <= j.at
    BY DEF LookupsOK
  <1> DEFINE r == req'[w]
             j == jwks'[r.proc]
             Missing == r.kid \in Published' /\ since'[r.kid] < r.began /\ r.kid \notin j.keys
  <1>1. TypeOK'
    BY TypesKept
  <1>2. r.proc \in Procs /\ r.began \in Nat /\ j.at \in Nat /\ j.asOf \in Nat /\ now \in Nat /\ Ttl \in Nat
    <2>1. w \in InFlight'
      BY DEF At, InFlight
    <2> QED BY <1>1, <2>1, Fields, Bounds DEF TypeOK, InFlight, Request
  <1>3. ASSUME Missing, r.began <= now
        PROVE  r.kid \in Published /\ since[r.kid] = since'[r.kid] /\ since[r.kid] \in Nat
    <2>1. since'[r.kid] \in Nat
      BY <1>1, <1>3, Bounds DEF Published, TypeOK
    <2>2. since'[r.kid] < now
      BY <1>2, <1>3, <2>1
    <2> QED BY <1>3, <2>1, <2>2, PublishedBefore
  \* An answer that was written just now by a request v, maybe w itself.
  <1>4. ASSUME NEW v \in Workers, WriteJwks(v), req[v].proc = r.proc, r.began <= now
        PROVE  /\ r.began <= j.at + Ttl
               /\ Missing => j.asOf < r.began /\ r.began <= j.at /\ req[v].asOf < r.began
    <2>1. v \in InFlight /\ At(v, "write")
      BY <1>4 DEF WriteJwks, InFlight, At
    <2>2. j.at = now /\ j.asOf = req[v].asOf /\ j.keys = req[v].keys
      BY <1>2, <1>4 DEF WriteJwks, Written, TypeOK
    <2>3. ASSUME Missing
          PROVE  req[v].asOf < r.began
      <3>1. r.kid \in Published /\ since[r.kid] = since'[r.kid] /\ since[r.kid] \in Nat
        BY <1>3, <1>4, <2>3
      <3>2. ~(since[r.kid] < req[v].asOf)
        BY <2>1, <2>2, <2>3, <3>1 DEF KeysOK
      <3> QED BY <1>2, <2>2, <2>3, <3>1, <3>2
    <2> QED BY <1>2, <1>4, <2>2, <2>3
  <1>5. CASE req'[w] = req[w]
    <2>1. At(w, "lookup") /\ w \in InFlight
      BY <1>5 DEF At, InFlight
    <2>2. r.began <= now
      BY <1>2, <1>5, <2>1, Fields DEF TimesOK
    <2>3. CASE jwks'[r.proc] = jwks[r.proc]
      <3>1. r.began <= j.at + Ttl
        BY <1>5, <2>1, <2>3 DEF LookupsOK
      <3>2. ASSUME Missing
            PROVE  j.asOf < r.began /\ r.began <= j.at
        <4>1. r.kid \in Published /\ since[r.kid] = since'[r.kid]
          BY <1>3, <2>2, <3>2
        <4> QED BY <1>5, <2>1, <2>3, <3>2, <4>1 DEF LookupsOK
      <3> QED BY <3>1, <3>2
    <2>4. ASSUME jwks'[r.proc] # jwks[r.proc]
          PROVE  \E v \in Workers : WriteJwks(v) /\ req[v].proc = r.proc
      <3>1. ASSUME NEW q \in Procs, Start(q)
            PROVE  jwks'[r.proc] = jwks[r.proc]
        <4>1. r.proc # q
          BY <1>5, <3>1, AfterStart DEF At
        <4> QED BY <1>2, <3>1, <4>1 DEF Start, TypeOK
      <3>2. PICK v \in Workers : WriteJwks(v)
        BY <2>4, <3>1, StepKinds, CachesStay
      <3> QED BY <1>2, <2>4, <3>2 DEF WriteJwks, TypeOK
    <2> QED BY <1>4, <2>2, <2>3, <2>4
  <1>6. CASE Step(w) /\ req[w] = None
    <2>1. BeginExchange(w)
      <3>1. ASSUME BeginCaptcha(w)
            PROVE  r.pc \in {"verify", "load"}
        <4>1. PICK p \in Procs :
                req' = [req EXCEPT ![w] =
                  IF Cached(p) THEN [NewRequest(p, "verify", None) EXCEPT !.ver = cache[p].ver]
                               ELSE NewRequest(p, "load", None)]
          BY <3>1 DEF BeginCaptcha
        <4> QED BY <4>1 DEF NewRequest, TypeOK
      <3>2. BeginExchange(w) \/ BeginCaptcha(w)
        BY <1>6 DEF Step, FetchJwks, WriteJwks, UnknownKey, Denied, ExchangeSession, GetSecretValue,
                    InsertSecret, VerifyCaptcha, Drop
      <3> QED BY <3>1, <3>2 DEF At
    <2>2. PICK p \in Procs, k \in Kids :
            req' = [req EXCEPT ![w] = NewRequest(p, IF NeedsRefresh(jwks[p], k) THEN "fetch" ELSE "lookup", k)]
      BY <2>1 DEF BeginExchange
    <2>3. ~NeedsRefresh(jwks[p], k) /\ r.proc = p /\ r.kid = k /\ r.began = now
      BY <2>2 DEF NewRequest, At, TypeOK
    <2>4. jwks' = jwks
      BY <2>1 DEF BeginExchange
    <2> QED BY <1>2, <2>3, <2>4 DEF NeedsRefresh
  <1>7. CASE Step(w) /\ req[w] # None
    <2>1. WriteJwks(w) /\ w \in InFlight
      <3>1. At(w, "write") /\ req'[w] # None
        BY <1>7, Became DEF At
      <3> QED BY <1>7, <3>1 DEF At, InFlight, Step, BeginExchange, FetchJwks, UnknownKey, Denied,
                ExchangeSession, BeginCaptcha, GetSecretValue, InsertSecret, VerifyCaptcha, Drop, Done, TypeOK
    <2>2. r.proc = req[w].proc /\ r.began = req[w].began
      BY <1>7, Became DEF At
    <2>3. r.began <= req[w].asOf /\ req[w].asOf <= now /\ req[w].asOf \in Nat
      BY <2>1, <2>2, Fields DEF TimesOK
    <2>4. r.began <= now
      BY <1>2, <2>3
    <2> QED BY <1>2, <1>4, <2>1, <2>2, <2>3, <2>4
  <1> QED BY <1>5, <1>6, <1>7, StepKinds, AfterStart, OthersStay DEF At

LEMMA SessionsKept ==
  ASSUME IInv, [Next]_vars
  PROVE  SessionsOK'
  <1>0. TypeOK /\ TimesOK /\ KeysOK /\ LookupsOK /\ SessionsOK
    BY DEF IInv
  <1> USE <1>0
  <1> DEFINE Ok(s) == s.who \in Admins /\ s.iat <= LastPublished(s.kid)' + Ttl + 2 * MaxRequest
  <1>1. ASSUME NEW s \in sessions
        PROVE  Ok(s)
    <2>1. s.kid \in Kids /\ s.iat \in Nat
      BY Fields
    <2>2. s.who \in Admins /\ s.iat <= LastPublished(s.kid) + Ttl + 2 * MaxRequest
      BY DEF SessionsOK
    <2> QED BY <2>1, <2>2, LaterEnds, Bounds
  <1>2. ASSUME NEW w \in Workers, ExchangeSession(w), NEW s,
               s.who \in Admins, s.iat = now, s.kid = req[w].kid
        PROVE  Ok(s)
    <2>0. PICK p, k : p = req[w].proc /\ k = req[w].kid
      OBVIOUS
    <2>1. w \in InFlight /\ At(w, "lookup") /\ p \in Procs /\ k \in jwks[p].keys /\ k \in Kids
      BY <1>2, <2>0, Issued
    <2>2. /\ req[w].began \in Nat /\ jwks[p].at \in Nat /\ jwks[p].asOf \in Nat
          /\ LastPublished(k) \in Nat /\ LastPublished(k)' \in Nat /\ now \in Nat
      BY <2>1, Fields, LaterEnds
    <2>3. now <= req[w].began + MaxRequest
      BY <2>1 DEF TimesOK
    <2>4. req[w].began <= jwks[p].at + Ttl
      BY <2>0, <2>1 DEF LookupsOK
    <2>5. jwks[p].at <= jwks[p].asOf + MaxRequest
      BY <2>1 DEF TimesOK
    <2>6. jwks[p].asOf <= LastPublished(k)
      BY <2>1 DEF KeysOK
    <2>7. LastPublished(k) <= LastPublished(k)'
      BY <2>1, LaterEnds
    <2>8. now <= LastPublished(k)' + Ttl + 2 * MaxRequest
      BY <2>2, <2>3, <2>4, <2>5, <2>6, <2>7, Bounds
    <2> QED BY <1>2, <2>0, <2>8
  <1>3. ASSUME NEW w \in Workers, ExchangeSession(w)
        PROVE  \A s \in sessions' : Ok(s)
    <2>1. PICK t : sessions' = sessions \cup {t} /\ t.who \in Admins /\ t.iat = now /\ t.kid = req[w].kid
      BY <1>3, Issued
    <2>2. Ok(t)
      BY <1>2, <1>3, <2>1
    <2> HIDE DEF Ok
    <2> QED BY <1>1, <2>1, <2>2
  <1>4. CASE UNCHANGED sessions
    BY <1>1, <1>4 DEF SessionsOK, LastPublished
  <1> QED BY <1>3, <1>4, StepKinds, CachesStay DEF SessionsOK, Start, LastPublished

LEMMA StartsKept ==
  ASSUME IInv, [Next]_vars
  PROVE  StartsOK'
  <1>0. TypeOK /\ TimesOK /\ StartsOK
    BY DEF IInv
  <1> USE <1>0
  <1>1. Stored \in Nat /\ DOMAIN rotations = 1..Stored
    BY Fields
  <1>2. ASSUME NEW v \in Nat, NEW t \in Nat, StoredAt(v, t), t <= now
        PROVE  StoredAt(v, t)'
    <2>1. CASE UNCHANGED rotations
      BY <1>2, <2>1 DEF StoredAt, Stored
    <2>2. CASE RotateSecret
      <3>1. /\ Stored' = Stored + 1 /\ DOMAIN rotations' = 1..Stored + 1 /\ rotations'[Stored + 1] = now
            /\ \A i \in 1..Stored : rotations'[i] = rotations[i]
        BY <2>2 DEF RotateSecret, TypeOK, Stored
      <3> QED BY <1>1, <1>2, <3>1 DEF StoredAt
    <2>3. CASE \E w \in Workers : Step(w)
      BY <2>1, <2>3, OthersStay DEF outside
    <2> QED BY <2>1, <2>2, <2>3 DEF Next, vars, Tick, PublishKey, WithdrawKey, Start, outside
  <1>3. \A p \in Procs : StoredAt(boot[p].ver, boot[p].at)'
    <2>1. ASSUME NEW p \in Procs
          PROVE  /\ boot[p].ver \in Nat /\ boot[p].at \in Nat /\ boot[p].at <= now
                 /\ StoredAt(boot[p].ver, boot[p].at)
      BY Fields DEF TimesOK, StartsOK
    <2>2. CASE UNCHANGED boot
      <3> SUFFICES ASSUME NEW p \in Procs PROVE StoredAt(boot[p].ver, boot[p].at)'
        OBVIOUS
      <3> DEFINE v == boot[p].ver
                 t == boot[p].at
      <3>1. StoredAt(v, t) /\ v \in Nat /\ t \in Nat /\ t <= now
        BY <2>1
      <3>2. v' = v /\ t' = t
        BY <2>2
      <3> QED BY <1>2, <3>1, <3>2 DEF StoredAt
    <2>3. ASSUME NEW q \in Procs, Start(q)
          PROVE  \A p \in Procs : StoredAt(boot[p].ver, boot[p].at)'
      <3>1. boot' = [boot EXCEPT ![q] = [ver |-> Stored, at |-> now]] /\ UNCHANGED rotations
        BY <2>3 DEF Start, outside
      <3>2. StoredAt(Stored, now)
        BY <1>1 DEF StoredAt, TimesOK
      <3> QED BY <2>1, <3>1, <3>2 DEF StoredAt, Stored, TypeOK
    <2> QED BY <2>2, <2>3, StepKinds, OthersStay
  <1>4. \A s \in sessions' : StoredAt(s.ver, s.start)'
    <2>1. ASSUME NEW s \in sessions
          PROVE  StoredAt(s.ver, s.start)'
      <3>1. s.ver \in Nat /\ s.start \in Nat /\ s.start <= now /\ StoredAt(s.ver, s.start)
        BY Fields DEF TimesOK, StartsOK
      <3> QED BY <1>2, <3>1
    <2>2. CASE UNCHANGED sessions
      BY <2>1, <2>2
    <2>3. ASSUME NEW w \in Workers, ExchangeSession(w)
          PROVE  \A s \in sessions' : StoredAt(s.ver, s.start)'
      <3> DEFINE p == req[w].proc
      <3>1. PICK t : sessions' = sessions \cup {t} /\ t.ver = boot[p].ver /\ t.start = boot[p].at
        BY <2>3, Issued
      <3>2. p \in Procs
        BY <2>3, Issued
      <3>3. t.ver \in Nat /\ t.start \in Nat /\ t.start <= now /\ StoredAt(t.ver, t.start)
        BY <3>1, <3>2, Fields DEF TimesOK, StartsOK
      <3>4. StoredAt(t.ver, t.start)'
        BY <1>2, <3>3
      <3> QED BY <2>1, <3>1, <3>4
    <2> QED BY <2>2, <2>3, StepKinds, CachesStay DEF Start
  <1> QED BY <1>3, <1>4 DEF StartsOK

\* What a request has learned of the secret, and since when it has.
LEMMA Learned ==
  ASSUME TypeOK, NEW w \in Workers, Step(w), req'[w] # None
  PROVE  /\ req'[w].pc = "insert" => /\ req[w] # None /\ req'[w].began = req[w].began
                                     /\ req'[w].ver = Stored
         /\ req'[w].pc = "verify" =>
              \/ /\ InsertSecret(w) /\ At(w, "insert")
                 /\ req'[w].began = req[w].began /\ req'[w].ver = req[w].ver
              \/ \E p \in Procs : /\ Cached(p) /\ req'[w].ver = cache[p].ver
                                  /\ req'[w].began = now
  <1> USE DEF TypeOK
  <1>1. CASE req[w] = None
    <2>1. CASE BeginExchange(w)
      BY <2>1 DEF BeginExchange, NewRequest
    <2>2. CASE BeginCaptcha(w)
      <3>1. PICK p \in Procs :
              req' = [req EXCEPT ![w] =
                IF Cached(p) THEN [NewRequest(p, "verify", None) EXCEPT !.ver = cache[p].ver]
                             ELSE NewRequest(p, "load", None)]
        BY <2>2 DEF BeginCaptcha
      <3> QED BY <3>1 DEF NewRequest
    <2> QED BY <1>1, <2>1, <2>2 DEF Step, FetchJwks, WriteJwks, UnknownKey, Denied, ExchangeSession,
                GetSecretValue, InsertSecret, VerifyCaptcha, Drop
  <1>2. CASE GetSecretValue(w)
    BY <1>2 DEF GetSecretValue, Request
  <1>3. CASE InsertSecret(w)
    BY <1>3 DEF InsertSecret, At, Request
  <1>4. CASE req[w] # None /\ req'[w].pc \in {"insert", "verify"}
    <2>1. req[w].pc \in {"load", "insert"}
      BY <1>4, Became
    <2>2. GetSecretValue(w) \/ InsertSecret(w)
      BY <1>4, <2>1 DEF Step, BeginExchange, BeginCaptcha, FetchJwks, WriteJwks, UnknownKey, Denied,
            ExchangeSession, VerifyCaptcha, Drop, Done
    <2> QED BY <1>2, <1>3, <2>2
  <1> QED BY <1>1, <1>4

LEMMA SecretsKept ==
  ASSUME IInv, [Next]_vars
  PROVE  SecretsOK'
  <1>0. TypeOK /\ TimesOK /\ SecretsOK
    BY DEF IInv
  <1> USE <1>0
  <1>1. /\ Stored \in Nat /\ Stored' \in Nat /\ Stored <= Stored' /\ now \in Nat
        /\ LastStored(Stored) = now /\ MaxRequest \in Nat /\ SecretTtl \in Nat
    BY TypesKept, Fields, LaterEnds, Bounds DEF LastStored, Stored, TypeOK
  <1>2. ASSUME NEW v \in Nat, v <= Stored
        PROVE  /\ v <= Stored' /\ LastStored(v) \in Nat /\ LastStored(v)' \in Nat
               /\ LastStored(v) <= LastStored(v)'
    BY <1>1, <1>2, LaterEnds
  <1>3. ASSUME NEW p \in Procs, cache'[p] # None
        PROVE  (cache[p].ver <= Stored /\ cache[p].at <= LastStored(cache[p].ver) + MaxRequest)'
    <2>1. \E v, t \in Nat : /\ cache'[p].ver = v /\ cache'[p].at = t
                            /\ v <= Stored /\ t <= LastStored(v) + MaxRequest
      <3>1. CASE cache'[p] = cache[p]
        BY <1>3, <3>1, Fields DEF SecretsOK
      <3>2. ASSUME NEW q \in Procs, Start(q), cache'[p] # cache[p]
            PROVE  cache'[p].ver = Stored /\ cache'[p].at = now
        BY <3>2 DEF Start, TypeOK
      <3>3. CASE \E q \in Procs : Start(q)
        BY <1>1, <3>1, <3>2, <3>3
      <3>4. ASSUME NEW w \in Workers, InsertSecret(w), cache'[p] # cache[p]
            PROVE  <2>1
        <4>1. w \in InFlight /\ At(w, "insert")
          BY <3>4 DEF InsertSecret, InFlight, At
        <4>2. cache'[p].ver = req[w].ver /\ cache'[p].at = now
          BY <3>4 DEF InsertSecret, TypeOK
        <4>3. /\ req[w].ver \in Nat /\ req[w].ver <= Stored
              /\ req[w].began \in Nat /\ req[w].began <= LastStored(req[w].ver)
          BY <4>1, Fields DEF SecretsOK
        <4>4. now <= req[w].began + MaxRequest
          BY <4>1 DEF TimesOK
        <4>5. LastStored(req[w].ver) \in Nat
          BY <1>2, <4>3
        <4>6. now <= LastStored(req[w].ver) + MaxRequest
          BY <1>1, <4>3, <4>4, <4>5
        <4> QED BY <1>1, <4>2, <4>3, <4>6
      <3> QED BY <3>1, <3>3, <3>4, StepKinds, CachesStay
    <2>2. PICK v \in Nat, t \in Nat : /\ cache'[p].ver = v /\ cache'[p].at = t
                                      /\ v <= Stored /\ t <= LastStored(v) + MaxRequest
      BY <2>1
    <2>3. v <= Stored' /\ t <= LastStored(v)' + MaxRequest
      BY <1>1, <1>2, <2>2
    <2> QED BY <2>2, <2>3 DEF LastStored
  <1>4. ASSUME NEW w \in Workers, At(w, "insert")' \/ At(w, "verify")'
        PROVE  \E v, t \in Nat :
                 /\ req'[w].ver = v /\ req'[w].began = t /\ v <= Stored
                 /\ At(w, "insert")' => t <= LastStored(v)
                 /\ At(w, "verify")' => t <= LastStored(v) \/ t < LastStored(v) + SecretTtl + MaxRequest
    <2>1. CASE req'[w] = req[w]
      <3>1. w \in InFlight /\ (At(w, "insert")' => At(w, "insert")) /\ (At(w, "verify")' => At(w, "verify"))
        BY <1>4, <2>1 DEF At, InFlight
      <3>2. req[w].ver \in Nat /\ req[w].began \in Nat
        BY <3>1, Fields
      <3>3. LastStored(req[w].ver) \in Nat
        BY <1>2, <1>4, <3>1, <3>2 DEF SecretsOK
      <3> QED BY <1>4, <2>1, <3>1, <3>2, <3>3 DEF SecretsOK
    <2>2. CASE Step(w) /\ At(w, "insert")'
      <3>1. w \in InFlight /\ req'[w].began = req[w].began /\ req'[w].ver = Stored /\ ~At(w, "verify")'
        BY <2>2, Learned DEF At, InFlight
      <3>2. req[w].began \in Nat /\ req[w].began <= now
        BY <1>1, <3>1, Fields DEF TimesOK
      <3> QED BY <1>1, <3>1, <3>2
    <2>3. CASE Step(w) /\ At(w, "verify")'
      <3>1. CASE /\ InsertSecret(w) /\ At(w, "insert")
                 /\ req'[w].began = req[w].began /\ req'[w].ver = req[w].ver
        <4>1. w \in InFlight
          BY <3>1 DEF At, InFlight
        <4> QED BY <2>3, <3>1, <4>1, Fields DEF SecretsOK, At
      <3>2. CASE \E p \in Procs : Cached(p) /\ req'[w].ver = cache[p].ver /\ req'[w].began = now
        <4>1. PICK p \in Procs : Cached(p) /\ req'[w].ver = cache[p].ver /\ req'[w].began = now
          BY <3>2
        <4>2. cache[p] # None /\ now - cache[p].at < SecretTtl
          BY <4>1 DEF Cached
        <4>3. /\ cache[p].ver \in Nat /\ cache[p].at \in Nat
              /\ cache[p].ver <= Stored /\ cache[p].at <= LastStored(cache[p].ver) + MaxRequest
          BY <4>2, Fields DEF SecretsOK
        <4>4. LastStored(cache[p].ver) \in Nat
          BY <1>2, <4>3
        <4>5. now < LastStored(cache[p].ver) + SecretTtl + MaxRequest
          BY <1>1, <4>2, <4>3, <4>4
        <4> QED BY <1>1, <2>3, <4>1, <4>3, <4>5 DEF At
      <3>3. req'[w] # None /\ req'[w].pc = "verify"
        BY <2>3 DEF At
      <3> QED BY <2>3, <3>1, <3>2, <3>3, Learned
    <2> QED BY <1>4, <2>1, <2>2, <2>3, StepKinds, AfterStart, OthersStay DEF At
  <1>5. ASSUME NEW w \in Workers, At(w, "insert")' \/ At(w, "verify")'
        PROVE  (/\ req[w].ver <= Stored
                /\ At(w, "insert") => req[w].began <= LastStored(req[w].ver)
                /\ At(w, "verify") => \/ LastStored(req[w].ver) >= req[w].began
                                      \/ req[w].began < LastStored(req[w].ver) + SecretTtl + MaxRequest)'
    <2>1. PICK v \in Nat, t \in Nat :
            /\ req'[w].ver = v /\ req'[w].began = t /\ v <= Stored
            /\ At(w, "insert")' => t <= LastStored(v)
            /\ At(w, "verify")' => t <= LastStored(v) \/ t < LastStored(v) + SecretTtl + MaxRequest
      BY <1>4, <1>5
    <2>2. v <= Stored' /\ LastStored(v) \in Nat /\ LastStored(v)' \in Nat /\ LastStored(v) <= LastStored(v)'
      BY <1>2, <2>1
    <2>3. /\ At(w, "insert")' => t <= LastStored(v)'
          /\ At(w, "verify")' => t <= LastStored(v)' \/ t < LastStored(v)' + SecretTtl + MaxRequest
      BY <1>1, <2>1, <2>2
    <2> QED BY <2>1, <2>2, <2>3 DEF LastStored
  <1> QED BY <1>3, <1>5 DEF SecretsOK

-----------------------------------------------------------------------------
(* Theorems                                                                 *)

LEMMA InitIInv ==
  ASSUME Init
  PROVE  IInv
  <1> USE DEF Init
  <1>1. TypeOK /\ Stored = 0 /\ DOMAIN rotations = {}
    BY Starting DEF Stored
  <1>2. InFlight = {} /\ \A w \in Workers : req[w] = None
    BY DEF InFlight
  <1>3. TimesOK
    BY <1>1, <1>2, Bounds DEF TimesOK, NewJwks
  <1>4. KeysOK /\ LookupsOK /\ SessionsOK
    BY <1>2 DEF KeysOK, LookupsOK, SessionsOK, At, NewJwks
  <1>5. StartsOK
    BY <1>1 DEF StartsOK, StoredAt
  <1>6. SecretsOK
    BY <1>1, <1>2, Bounds DEF SecretsOK, At, LastStored
  <1> QED BY <1>1, <1>3, <1>4, <1>5, <1>6 DEF IInv

\* The types, and what keys, secrets and sessions in memory have to do with those outside.
THEOREM AccessInvariant == Spec => []IInv
  <1>1. Init => IInv
    BY InitIInv
  <1>2. IInv /\ [Next]_vars => IInv'
    BY TypesKept, TimesKept, KeysKept, LookupsKept, SessionsKept, StartsKept, SecretsKept DEF IInv
  <1> QED BY <1>1, <1>2, PTL DEF Spec

\* A key that Google has withdrawn opens nothing for longer than the cache keeps it, two
\* requests last, and a session lives.
THEOREM KeysExpire == Spec => []WithdrawnKeysExpire
  <1>1. ASSUME IInv
        PROVE  WithdrawnKeysExpire
    <2> SUFFICES ASSUME NEW s \in sessions
                 PROVE  /\ s.iat <= LastPublished(s.kid) + Ttl + 2 * MaxRequest
                        /\ \A p \in Procs : AuthMiddleware(p, s) =>
                             now <= LastPublished(s.kid) + Ttl + 2 * MaxRequest + Life + Leeway
      BY DEF WithdrawnKeysExpire
    <2>1. s.iat \in Nat /\ s.kid \in Kids /\ now \in Nat
      BY <1>1, Fields DEF IInv
    <2>2. LastPublished(s.kid) \in Nat
      BY <1>1, <2>1, Fields DEF IInv, LastPublished
    <2>3. s.iat <= LastPublished(s.kid) + Ttl + 2 * MaxRequest
      BY <1>1 DEF IInv, SessionsOK
    <2>4. ASSUME NEW p \in Procs, AuthMiddleware(p, s)
          PROVE  s.iat + Life >= now - Leeway
      BY <2>4 DEF AuthMiddleware, VerifySession
    <2> QED BY <2>1, <2>2, <2>3, <2>4, Bounds
  <1> QED BY <1>1, AccessInvariant, PTL

\* Nobody is signed out early but by a change of the secret between two starts.
THEOREM SessionsLast == Spec => []SessionsHold
  <1>1. ASSUME IInv
        PROVE  SessionsHold
    <2> SUFFICES ASSUME NEW s \in sessions, NEW p \in Procs, now <= s.iat + Life, ~AuthMiddleware(p, s)
                 PROVE  \E i \in DOMAIN rotations :
                          \/ s.start <= rotations[i] /\ rotations[i] <= boot[p].at
                          \/ boot[p].at <= rotations[i] /\ rotations[i] <= s.start
      BY DEF SessionsHold
    <2>1. /\ s.iat \in Nat /\ s.ver \in Nat /\ boot[p].ver \in Nat /\ now \in Nat
          /\ Stored \in Nat /\ DOMAIN rotations = 1..Stored
      BY <1>1, Fields DEF IInv
    <2>2. s.ver # boot[p].ver
      BY <1>1, <2>1, Bounds DEF IInv, SessionsOK, AuthMiddleware, VerifySession, Authorize
    <2>3. StoredAt(s.ver, s.start) /\ StoredAt(boot[p].ver, boot[p].at)
      BY <1>1 DEF IInv, StartsOK
    <2>4. CASE s.ver < boot[p].ver
      <3>1. boot[p].ver \in DOMAIN rotations
        BY <2>1, <2>3, <2>4 DEF StoredAt
      <3> QED BY <2>1, <2>3, <2>4, <3>1 DEF StoredAt
    <2>5. CASE boot[p].ver < s.ver
      <3>1. s.ver \in DOMAIN rotations
        BY <2>1, <2>3, <2>5 DEF StoredAt
      <3> QED BY <2>1, <2>3, <2>5, <3>1 DEF StoredAt
    <2> QED BY <2>1, <2>2, <2>4, <2>5
  <1> QED BY <1>1, AccessInvariant, PTL

\* Captchas are verified with a secret that is no older than the cache allows.
THEOREM RecentSecrets == Spec => []SecretsAreRecent
  <1>1. IInv => SecretsAreRecent
    BY DEF IInv, SecretsOK, SecretsAreRecent, InFlight, At
  <1> QED BY <1>1, AccessInvariant, PTL

\* A published key is refused only after an older answer of Google replaced a later one.
THEOREM KnownKeys == Spec => PublishedKeyIsKnown
  <1>1. ASSUME IInv, NEW w \in Workers, UnknownKey(w)
        PROVE  \/ req[w].kid \notin Published
               \/ since[req[w].kid] >= req[w].began
               \/ jwks[req[w].proc].asOf < req[w].began /\ req[w].began <= jwks[req[w].proc].at
    <2>1. At(w, "lookup") /\ w \in InFlight /\ req[w].kid \notin jwks[req[w].proc].keys
      BY <1>1 DEF UnknownKey, At, InFlight
    <2>2. ASSUME req[w].kid \in Published
          PROVE  since[req[w].kid] \in Nat
      BY <1>1, <2>2, Fields DEF IInv, Published
    <2>3. req[w].began \in Nat
      BY <1>1, <2>1, Fields DEF IInv
    <2> QED BY <1>1, <2>1, <2>2, <2>3 DEF IInv, LookupsOK
  <1>2. IInv /\ [Next]_vars =>
          [\A w \in Workers : UnknownKey(w) =>
             \/ req[w].kid \notin Published
             \/ since[req[w].kid] >= req[w].began
             \/ jwks[req[w].proc].asOf < req[w].began /\ req[w].began <= jwks[req[w].proc].at]_vars
    BY <1>1
  <1> QED BY <1>2, AccessInvariant, PTL DEF Spec, PublishedKeyIsKnown
=============================================================================
