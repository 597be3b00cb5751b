----------------------------- MODULE OidcDevice -----------------------------
(***************************************************************************)
(* The device login of backend/app/api/routes/oidc_device_auth.py and the  *)
(* parts of backend/app/api/oidc.py it uses: a command-line client starts  *)
(* a login, its user approves it at the identity provider, and the client  *)
(* polls until it is given a session.                                      *)
(*                                                                         *)
(* Every poll is a handler on the event loop that gives way to the others  *)
(* where it awaits the provider: variable pc says where it waits.  The     *)
(* device codes live in the memory of the one server process (variable     *)
(* store).                                                                 *)
(***************************************************************************)
EXTENDS Naturals, FiniteSets

CONSTANTS Codes,       \* the device codes the provider may issue
          Polls,       \* bound: how many polls are in progress at a time
          NoCode,      \* "the poll is about no code"
          CodeTTL,     \* expires_in of a code, as the provider said
          RestoreTTL,  \* the 300 seconds a code is stored again for
          JwksTTL,     \* JWKS_CACHE_TTL
          MaxTime,     \* bound: how far the clock runs
          MaxKeys,     \* bound: how many signing keys the provider goes through
          Faults       \* what may go wrong around the login

FaultKinds ==
  {"net",      \* a request to the provider or its response is lost or useless
   "http",     \* the token endpoint answers neither 200 nor a readable 400
   "db",       \* PostgreSQL refuses a statement
   "policy",   \* claims, domain filter or provisioning turn the user away
   "disable",  \* an administrator disables the provider
   "crash"}    \* the server process is killed

ASSUME CodesAssumption == NoCode \notin Codes
ASSUME TimesAssumption == /\ CodeTTL \in Nat /\ RestoreTTL \in Nat
                          /\ JwksTTL \in Nat /\ MaxTime \in Nat
ASSUME KeysAssumption == MaxKeys \in Nat \ {0}
ASSUME FaultsAssumption == Faults \subseteq FaultKinds

VARIABLES
  store,     \* _device_code_store: codes stored
  expires,   \* expires_at of each stored code
  idp,       \* what the provider knows of the code
  until,     \* when the code ends at the provider
  signer,    \* the key the provider signs with, keys are numbered
  jwks,      \* _jwks_cache: the newest key it holds, 0 when it is empty
  fetched,   \* when jwks was fetched
  enabled,   \* auth_providers.enabled
  pc,        \* where each poll waits
  on,        \* the code each poll is about
  resp,      \* the provider's response to the poll
  signed,    \* the key that signed the id_token of the response
  answered,  \* the last answer the client was given for the code
  sessions,  \* codes a session was issued for
  lost,      \* why the server has forgotten a code
  clock

vars == <<store, expires, idp, until, signer, jwks, fetched, enabled, pc, on,
          resp, signed, answered, sessions, lost, clock>>
storeVars == <<store, expires>>
idpVars == <<idp, until, signer>>
keyVars == <<jwks, fetched>>
pollVars == <<on, resp, signed>>
answerVars == <<answered, sessions, lost>>

Init == /\ store = {}
        /\ expires = [c \in Codes |-> 0]
        /\ idp = [c \in Codes |-> "unknown"]
        /\ until = [c \in Codes |-> 0]
        /\ signer = 1
        /\ jwks = 0 /\ fetched = 0
        /\ enabled = TRUE
        /\ pc = [p \in Polls |-> "idle"]
        /\ on = [p \in Polls |-> NoCode]
        /\ resp = [p \in Polls |-> "none"]
        /\ signed = [p \in Polls |-> 0]
        /\ answered = [c \in Codes |-> "none"]
        /\ sessions = {}
        /\ lost = [c \in Codes |-> "no"]
        /\ clock = 0

\* The provider would still go on with the code.
Live(c) == idp[c] \in {"pending", "approved"} /\ clock <= until[c]

\* A poll has taken the code out of the store and is not done with it.
Held(c) == \E p \in Polls : on[p] = c

-----------------------------------------------------------------------------
(* oidc_device_start, and what goes on at the provider.                    *)

\* The client learns of the code when it has been stored, so that what happens while
\* the start awaits the provider concerns nobody; a start that fails leaves nothing
\* behind.
StartLogin(c) ==
  /\ idp[c] = "unknown"
  /\ enabled
  /\ idp' = [idp EXCEPT ![c] = "pending"]
  /\ until' = [until EXCEPT ![c] = clock + CodeTTL]
  /\ store' = store \cup {c}
  /\ expires' = [expires EXCEPT ![c] = clock + CodeTTL]
  /\ UNCHANGED <<signer, keyVars, enabled, pc, pollVars, answerVars, clock>>

\* The user enters the code in a browser.
UserDecides(c, verdict) ==
  /\ idp[c] = "pending" /\ Live(c)
  /\ idp' = [idp EXCEPT ![c] = verdict]
  /\ UNCHANGED <<storeVars, until, signer, keyVars, enabled, pc, pollVars,
                 answerVars, clock>>

\* The provider signs with a new key; the old ones stay published.
KeyRotates ==
  /\ signer < MaxKeys
  /\ signer' = signer + 1
  /\ UNCHANGED <<storeVars, idp, until, keyVars, enabled, pc, pollVars,
                 answerVars, clock>>

\* An administrator disables or enables the provider.
ProviderToggles ==
  /\ "disable" \in Faults
  /\ enabled' = ~enabled
  /\ UNCHANGED <<storeVars, idpVars, keyVars, pc, pollVars, answerVars, clock>>

Tick ==
  /\ clock < MaxTime
  /\ clock' = clock + 1
  /\ UNCHANGED <<storeVars, idpVars, keyVars, enabled, pc, pollVars, answerVars>>

-----------------------------------------------------------------------------
(* oidc_device_callback.                                                   *)

\* Mutant: the code is read and left in the store.
ConsumeKeeps(c) == UNCHANGED store

\* get_and_consume_device_code takes the code out, expired or not.
Consume(c) == store' = store \ {c}

\* store_device_code.
StoreDeviceCode(c, ttl) == /\ store' = store \cup {c}
                           /\ expires' = [expires EXCEPT ![c] = clock + ttl]

\* The poll is over, and the client is given its answer.
Answer(p, c, what) ==
  /\ pc' = [pc EXCEPT ![p] = "idle"]
  /\ on' = [on EXCEPT ![p] = NoCode]
  /\ resp' = [resp EXCEPT ![p] = "none"]
  /\ signed' = [signed EXCEPT ![p] = 0]
  /\ answered' = [answered EXCEPT ![c] = what]

\* An error path that does not store the code again.
Lose(c, why) == lost' = [lost EXCEPT ![c] = why]

\* Nothing is stored for the code: 404 "Invalid or expired device code".
PollFindsNothing(p, c) ==
  /\ pc[p] = "idle" /\ idp[c] # "unknown"
  /\ c \notin store
  /\ Answer(p, c, "invalid")
  /\ UNCHANGED <<storeVars, idpVars, keyVars, enabled, sessions, lost, clock>>

\* What was stored has expired: it is gone, the answer is the same.
PollFindsExpired(p, c) ==
  /\ pc[p] = "idle" /\ idp[c] # "unknown"
  /\ c \in store /\ clock > expires[c]
  /\ Consume(c)
  /\ Lose(c, "expired")
  /\ Answer(p, c, "invalid")
  /\ UNCHANGED <<expires, idpVars, keyVars, enabled, sessions, clock>>

\* The code has been taken out when the provider turns out to be disabled or its
\* SELECT fails.
PollFindsNoProvider(p, c) ==
  /\ pc[p] = "idle"
  /\ c \in store /\ clock <= expires[c]
  /\ Consume(c)
  /\ \/ ~enabled /\ Lose(c, "disabled")
     \/ "db" \in Faults /\ Lose(c, "db")
  /\ Answer(p, c, "error")
  /\ UNCHANGED <<expires, idpVars, keyVars, enabled, sessions, clock>>

\* The code is taken out; discover_provider is awaited.
PollTakesCode(p, c) ==
  /\ pc[p] = "idle"
  /\ c \in store /\ clock <= expires[c]
  /\ enabled
  /\ Consume(c)
  /\ pc' = [pc EXCEPT ![p] = "discover"]
  /\ on' = [on EXCEPT ![p] = c]
  /\ UNCHANGED <<expires, idpVars, keyVars, enabled, resp, signed, answerVars,
                 clock>>

\* The metadata is known, the token request is sent.
PollSendsRequest(p) ==
  /\ pc[p] = "discover"
  /\ pc' = [pc EXCEPT ![p] = "request"]
  /\ UNCHANGED <<storeVars, idpVars, keyVars, enabled, pollVars, answerVars,
                 clock>>

\* What the provider answers for a code, RFC 8628: a code is redeemed once.
IdpResponses(c) ==
  CASE idp[c] = "redeemed" -> {"invalid_grant"}
    [] idp[c] = "denied" -> {"access_denied"}
    [] idp[c] = "pending" /\ Live(c) -> {"authorization_pending", "slow_down"}
    [] idp[c] = "approved" /\ Live(c) -> {"tokens"}
    [] OTHER -> {"expired_token"}

\* The request reaches the provider and is answered.
IdpAnswers(p) ==
  /\ pc[p] = "request"
  /\ \E r \in IdpResponses(on[p]) :
       /\ resp' = [resp EXCEPT ![p] = r]
       /\ IF r = "tokens"
          THEN /\ idp' = [idp EXCEPT ![on[p]] = "redeemed"]
               /\ signed' = [signed EXCEPT ![p] = signer]
          ELSE UNCHANGED <<idp, signed>>
  /\ pc' = [pc EXCEPT ![p] = "response"]
  /\ UNCHANGED <<storeVars, until, signer, keyVars, enabled, on, answerVars,
                 clock>>

\* The token endpoint is out of order.
IdpBreaks(p) ==
  /\ "http" \in Faults
  /\ pc[p] = "request"
  /\ resp' = [resp EXCEPT ![p] = "broken"]
  /\ pc' = [pc EXCEPT ![p] = "response"]
  /\ UNCHANGED <<storeVars, idpVars, keyVars, enabled, on, signed, answerVars,
                 clock>>

\* The handler of OIDCError: "Re-store so CLI can retry", answer 400.
OIDCError(p) ==
  /\ StoreDeviceCode(on[p], RestoreTTL)
  /\ Answer(p, on[p], "error")

\* httpx.RequestError: discovery, the token request, its response or the fetch of
\* the keys is lost; or there is no id_token, or its claims are not as required.
PollLosesNetwork(p) ==
  /\ "net" \in Faults
  /\ pc[p] \in {"discover", "request", "response", "keys"}
  /\ OIDCError(p)
  /\ UNCHANGED <<idpVars, keyVars, enabled, sessions, lost, clock>>

\* Mutant: only authorization_pending is stored again.
PollIsPendingForgets(p) ==
  /\ pc[p] = "response"
  /\ resp[p] \in {"authorization_pending", "slow_down"}
  /\ IF resp[p] = "slow_down" THEN UNCHANGED storeVars
                              ELSE StoreDeviceCode(on[p], RestoreTTL)
  /\ Answer(p, on[p], "pending")
  /\ UNCHANGED <<idpVars, keyVars, enabled, sessions, lost, clock>>

\* authorization_pending and slow_down: the code is stored again.
PollIsPending(p) ==
  /\ pc[p] = "response"
  /\ resp[p] \in {"authorization_pending", "slow_down"}
  /\ StoreDeviceCode(on[p], RestoreTTL)
  /\ Answer(p, on[p], "pending")
  /\ UNCHANGED <<idpVars, keyVars, enabled, sessions, lost, clock>>

\* Mutant: the client is told the provider's own word.
PollIsFinalVerbatim(p) ==
  /\ pc[p] = "response"
  /\ resp[p] \in {"expired_token", "access_denied"}
  /\ Answer(p, on[p], resp[p])
  /\ UNCHANGED <<storeVars, idpVars, keyVars, enabled, sessions, lost, clock>>

\* Mutant: the final answers store the code again as well.
PollIsFinalRestores(p) ==
  /\ pc[p] = "response"
  /\ resp[p] \in {"expired_token", "access_denied"}
  /\ StoreDeviceCode(on[p], RestoreTTL)
  /\ Answer(p, on[p], IF resp[p] = "expired_token" THEN "expired" ELSE "denied")
  /\ UNCHANGED <<idpVars, keyVars, enabled, sessions, lost, clock>>

\* expired_token and access_denied are final.
PollIsFinal(p) ==
  /\ pc[p] = "response"
  /\ resp[p] \in {"expired_token", "access_denied"}
  /\ Answer(p, on[p], IF resp[p] = "expired_token" THEN "expired" ELSE "denied")
  /\ UNCHANGED <<storeVars, idpVars, keyVars, enabled, sessions, lost, clock>>

\* Any other error of the provider is an OIDCError.
PollIsRefused(p) ==
  /\ pc[p] = "response"
  /\ resp[p] = "invalid_grant"
  /\ OIDCError(p)
  /\ UNCHANGED <<idpVars, keyVars, enabled, sessions, lost, clock>>

\* raise_for_status raises HTTPStatusError, which exchange_device_code does not
\* turn into an OIDCError: 500, and the code is not stored again.
PollFails(p) ==
  /\ pc[p] = "response"
  /\ resp[p] = "broken"
  /\ Lose(on[p], "http")
  /\ Answer(p, on[p], "error")
  /\ UNCHANGED <<storeVars, idpVars, keyVars, enabled, sessions, clock>>

\* The key set in the cache is used for some minutes.
CacheIsFresh == jwks # 0 /\ clock - fetched < JwksTTL

\* The body of the metadata or of the keys is no JSON: what json() raises is none
\* of the exceptions that discover_provider and get_jwks turn into an OIDCError.
PollReadsNoJson(p) ==
  /\ "http" \in Faults
  /\ pc[p] = "discover" \/ (pc[p] = "keys" /\ ~CacheIsFresh)
  /\ Lose(on[p], "http")
  /\ Answer(p, on[p], "error")
  /\ UNCHANGED <<storeVars, idpVars, keyVars, enabled, sessions, clock>>

\* Mutant: a response without "error" = pending is taken for tokens.
PollGetsAnything(p) ==
  /\ pc[p] = "response"
  /\ resp[p] \in {"tokens", "access_denied"}
  /\ pc' = [pc EXCEPT ![p] = "keys"]
  /\ UNCHANGED <<storeVars, idpVars, keyVars, enabled, pollVars, answerVars,
                 clock>>

\* The tokens have come; get_jwks is awaited.
PollGetsTokens(p) ==
  /\ pc[p] = "response"
  /\ resp[p] = "tokens"
  /\ pc' = [pc EXCEPT ![p] = "keys"]
  /\ UNCHANGED <<storeVars, idpVars, keyVars, enabled, pollVars, answerVars,
                 clock>>

\* get_jwks: the cached keys, or the published ones, which are then cached.
KnownKey == IF CacheIsFresh THEN jwks ELSE signer
GetJwks == /\ jwks' = KnownKey
           /\ fetched' = IF CacheIsFresh THEN fetched ELSE clock

\* No key of the set verifies the signature: OIDCError.
PollCannotVerify(p) ==
  /\ pc[p] = "keys"
  /\ GetJwks
  /\ signed[p] > KnownKey
  /\ OIDCError(p)
  /\ UNCHANGED <<idpVars, enabled, sessions, lost, clock>>

\* The user is looked up or provisioned, the session is issued.
PollCompletes(p) ==
  /\ pc[p] = "keys"
  /\ GetJwks
  /\ signed[p] <= KnownKey
  /\ sessions' = sessions \cup {on[p]}
  /\ Answer(p, on[p], "completed")
  /\ UNCHANGED <<storeVars, idpVars, enabled, lost, clock>>

\* The token is good, but the user is turned away or the database fails.
PollTurnsAway(p) ==
  /\ pc[p] = "keys"
  /\ GetJwks
  /\ signed[p] <= KnownKey
  /\ \E why \in {"policy", "db"} \cap Faults : Lose(on[p], why)
  /\ Answer(p, on[p], "error")
  /\ UNCHANGED <<storeVars, idpVars, enabled, sessions, clock>>

\* The store, the caches and the polls in progress are in memory.
Crash ==
  /\ "crash" \in Faults
  /\ lost' = [c \in Codes |-> IF c \in store \/ Held(c) THEN "crash" ELSE lost[c]]
  /\ store' = {}
  /\ jwks' = 0 /\ fetched' = 0
  /\ pc' = [p \in Polls |-> "idle"]
  /\ on' = [p \in Polls |-> NoCode]
  /\ resp' = [p \in Polls |-> "none"]
  /\ signed' = [p \in Polls |-> 0]
  /\ UNCHANGED <<expires, idpVars, enabled, answered, sessions, clock>>

-----------------------------------------------------------------------------
\* A client polls for a code.
Poll(p, c) == \/ PollFindsNothing(p, c) \/ PollFindsExpired(p, c)
              \/ PollFindsNoProvider(p, c) \/ PollTakesCode(p, c)

\* A poll that is waiting goes on.
PollContinues(p) ==
  \/ PollSendsRequest(p) \/ IdpAnswers(p) \/ IdpBreaks(p) \/ PollLosesNetwork(p)
  \/ PollIsPending(p) \/ PollIsFinal(p) \/ PollIsRefused(p) \/ PollFails(p)
  \/ PollReadsNoJson(p) \/ PollGetsTokens(p)
  \/ PollCannotVerify(p) \/ PollCompletes(p) \/ PollTurnsAway(p)

Next == \/ \E c \in Codes : StartLogin(c)
        \/ \E c \in Codes, v \in {"approved", "denied"} : UserDecides(c, v)
        \/ \E p \in Polls, c \in Codes : Poll(p, c)
        \/ \E p \in Polls : PollContinues(p)
        \/ KeyRotates \/ ProviderToggles \/ Tick \/ Crash

Spec == Init /\ [][Next]_vars

\* The handlers run on, the provider answers or the request times out, and a client
\* polls "repeatedly until status is completed, expired, or denied".  It is strong
\* fairness because the bound on the polls in progress is the model's alone.
FairSpec == /\ Spec
            /\ \A p \in Polls : WF_vars(PollContinues(p))
            /\ \A c \in Codes : SF_vars(\E p \in Polls : PollTakesCode(p, c))

-----------------------------------------------------------------------------
(* Properties.                                                             *)

Errors == {"authorization_pending", "slow_down", "expired_token",
           "access_denied", "invalid_grant", "broken"}

TypeOK ==
  /\ store \subseteq Codes
  /\ expires \in [Codes -> Nat]
  /\ idp \in [Codes -> {"unknown", "pending", "approved", "denied", "redeemed"}]
  /\ until \in [Codes -> Nat]
  /\ signer \in 1..MaxKeys
  /\ jwks \in 0..MaxKeys /\ fetched \in 0..MaxTime
  /\ enabled \in BOOLEAN
  /\ pc \in [Polls -> {"idle", "discover", "request", "response", "keys"}]
  /\ on \in [Polls -> Codes \cup {NoCode}]
  /\ resp \in [Polls -> {"none", "tokens"} \cup Errors]
  /\ signed \in [Polls -> 0..MaxKeys]
  /\ answered \in [Codes -> {"none", "pending", "invalid", "error", "expired",
                             "denied", "completed"}]
  /\ sessions \subseteq Codes
  /\ lost \in [Codes -> {"no", "expired", "disabled", "http", "policy", "db",
                         "crash"}]
  /\ clock \in 0..MaxTime

\* Two polls never work on the same code, and none works on a code that a third
\* could take out of the store, although every one of them gives way to the others
\* three times (oidc.py:692, oidc_device_auth.py:186-316).
OneHolder ==
  \A p \in Polls : on[p] # NoCode =>
    /\ on[p] \notin store
    /\ \A q \in Polls \ {p} : on[q] # on[p]

\* A login that the user can still complete, or has completed at the provider, is
\* in the store, with a poll, or has become a session; the server forgets it only by
\* its own clock, with a disabled provider, an HTTP or database error, a refused
\* user or the end of the process (oidc_device_auth.py:218-330).
CodeIsAccounted ==
  \A c \in Codes : Live(c) \/ idp[c] = "redeemed" =>
    \/ c \in store \/ Held(c)
    \/ c \in sessions
    \/ lost[c] # "no"

\* A session is issued only for a code that its user has approved and the provider
\* has redeemed, and only one poll can have issued it: the code is gone from the
\* store and from every poll (oidc_device_auth.py:247-317).
SessionIsEarned ==
  \A c \in sessions : idp[c] = "redeemed" /\ c \notin store /\ ~Held(c)

\* After a final answer nothing is left of the code, and no later poll can turn a
\* denied or expired login into a session (oidc_device_auth.py:242).
FinalIsForgotten ==
  \A c \in Codes : answered[c] \in {"denied", "expired", "completed"} =>
    /\ c \notin store /\ ~Held(c)
    /\ c \in sessions <=> answered[c] = "completed"

\* If nothing fails, a login that was approved ends with a session, however many
\* polls overlap (oidc_device_auth.py:218-245).
LoginCompletes == \A c \in Codes : idp[c] = "approved" ~> c \in sessions
=============================================================================
