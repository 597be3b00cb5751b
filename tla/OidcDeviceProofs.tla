-------------------------- MODULE OidcDeviceProofs --------------------------
(***************************************************************************)
(* Proofs about OidcDevice, for every set of codes, any number of polls in *)
(* progress, all lifetimes and every set of faults.                        *)
(***************************************************************************)
EXTENDS OidcDevice, TLAPS

-----------------------------------------------------------------------------
(* The inductive invariant.                                                *)

\* Only a login that was started leaves traces.
UnknownIsFresh ==
  \A c \in Codes : idp[c] = "unknown" =>
    c \notin store /\ ~Held(c) /\ c \notin sessions /\ answered[c] = "none"

\* A poll knows what it waits for, and a response is still true when it is read.
PollState ==
  \A p \in Polls :
    /\ pc[p] = "idle" <=> on[p] = NoCode
    /\ pc[p] \in {"idle", "discover", "request"} => resp[p] = "none"
    /\ pc[p] = "keys" => resp[p] = "tokens"
    /\ resp[p] = "tokens" => idp[on[p]] = "redeemed"
    /\ resp[p] = "access_denied" => idp[on[p]] = "denied"
    /\ resp[p] = "expired_token" =>
         idp[on[p]] \in {"pending", "approved"} /\ clock > until[on[p]]

IInv == /\ TypeOK /\ UnknownIsFresh /\ PollState
        /\ OneHolder /\ SessionIsEarned /\ FinalIsForgotten /\ CodeIsAccounted

-----------------------------------------------------------------------------
(* Every action preserves the invariant.                                   *)

\* The invariant holds when the server starts with an empty store.
LEMMA InitIInv == Init => IInv
<1> SUFFICES ASSUME Init PROVE IInv
  OBVIOUS
<1> USE CodesAssumption DEF Init
<1>1. TypeOK
  BY TimesAssumption, KeysAssumption DEF TypeOK
<1>2. UnknownIsFresh /\ PollState /\ OneHolder
  BY DEF UnknownIsFresh, PollState, OneHolder, Held
<1>3. SessionIsEarned /\ FinalIsForgotten /\ CodeIsAccounted
  BY DEF SessionIsEarned, FinalIsForgotten, CodeIsAccounted, Live, Held
<1> QED
  BY <1>1, <1>2, <1>3 DEF IInv

\* get_jwks keeps to the keys the provider has had, and to the time that has
\* passed.
LEMMA JwksType == ASSUME TypeOK, GetJwks
                  PROVE  jwks' \in 0..MaxKeys /\ fetched' \in 0..MaxTime
  BY KeysAssumption DEF TypeOK, GetJwks, KnownKey

\* Every step of a poll, a client, the provider or the environment keeps the
\* invariant.
LEMMA StepIInv == IInv /\ [Next]_vars => IInv'
<1> SUFFICES ASSUME IInv, [Next]_vars PROVE IInv'
  OBVIOUS
<1> USE CodesAssumption DEF IInv
<1>1. ASSUME NEW c \in Codes, StartLogin(c) PROVE IInv'
  <2>1. TypeOK'
    BY <1>1, TimesAssumption DEF StartLogin, keyVars, pollVars,
       answerVars, TypeOK
  <2>2. UnknownIsFresh' /\ PollState'
    BY <1>1 DEF StartLogin, keyVars, pollVars, answerVars, TypeOK, Live,
       UnknownIsFresh, PollState, OneHolder, Held
  <2>3. OneHolder' /\ SessionIsEarned'
    BY <1>1 DEF StartLogin, keyVars, pollVars, answerVars, TypeOK,
       UnknownIsFresh, PollState, OneHolder, SessionIsEarned, Held
  <2>4. FinalIsForgotten'
    BY <1>1 DEF StartLogin, keyVars, pollVars, answerVars, TypeOK,
       UnknownIsFresh, PollState, OneHolder, SessionIsEarned,
       FinalIsForgotten, Held
  <2>5. CodeIsAccounted'
    BY <1>1 DEF StartLogin, keyVars, pollVars, answerVars, TypeOK, Live,
       PollState, OneHolder, CodeIsAccounted, Held
  <2> QED
    BY <2>1, <2>2, <2>3, <2>4, <2>5
<1>2. ASSUME NEW c \in Codes, NEW v \in {"approved", "denied"}, UserDecides(c, v)
      PROVE  IInv'
  <2>1. TypeOK'
    BY <1>2 DEF UserDecides, storeVars, keyVars, pollVars, answerVars,
       TypeOK
  <2>2. UnknownIsFresh' /\ PollState'
    BY <1>2 DEF UserDecides, storeVars, keyVars, pollVars, answerVars,
       TypeOK, Live, UnknownIsFresh, PollState, OneHolder, Held
  <2>3. OneHolder' /\ SessionIsEarned'
    BY <1>2 DEF UserDecides, storeVars, keyVars, pollVars, answerVars,
       TypeOK, UnknownIsFresh, PollState, OneHolder, SessionIsEarned, Held
  <2>4. FinalIsForgotten'
    BY <1>2 DEF UserDecides, storeVars, keyVars, pollVars, answerVars,
       TypeOK, UnknownIsFresh, PollState, OneHolder, SessionIsEarned,
       FinalIsForgotten, Held
  <2>5. CodeIsAccounted'
    BY <1>2 DEF UserDecides, storeVars, keyVars, pollVars, answerVars,
       TypeOK, Live, PollState, OneHolder, CodeIsAccounted, Held
  <2> QED
    BY <2>1, <2>2, <2>3, <2>4, <2>5
<1>3. CASE KeyRotates
  <2>1. TypeOK'
    BY <1>3, KeysAssumption DEF KeyRotates, storeVars, keyVars, pollVars,
       answerVars, TypeOK
  <2>2. UnknownIsFresh' /\ PollState'
    BY <1>3 DEF KeyRotates, storeVars, keyVars, pollVars, answerVars,
       TypeOK, Live, UnknownIsFresh, PollState, OneHolder, Held
  <2>3. OneHolder' /\ SessionIsEarned'
    BY <1>3 DEF KeyRotates, storeVars, keyVars, pollVars, answerVars,
       TypeOK, UnknownIsFresh, PollState, OneHolder, SessionIsEarned, Held
  <2>4. FinalIsForgotten'
    BY <1>3 DEF KeyRotates, storeVars, keyVars, pollVars, answerVars,
       TypeOK, UnknownIsFresh, PollState, OneHolder, SessionIsEarned,
       FinalIsForgotten, Held
  <2>5. CodeIsAccounted'
    BY <1>3 DEF KeyRotates, storeVars, keyVars, pollVars, answerVars,
       TypeOK, Live, PollState, OneHolder, CodeIsAccounted, Held
  <2> QED
    BY <2>1, <2>2, <2>3, <2>4, <2>5
<1>4. CASE ProviderToggles
  <2>1. TypeOK'
    BY <1>4 DEF ProviderToggles, storeVars, idpVars, keyVars, pollVars,
       answerVars, TypeOK
  <2>2. UnknownIsFresh' /\ PollState'
    BY <1>4 DEF ProviderToggles, storeVars, idpVars, keyVars, pollVars,
       answerVars, TypeOK, Live, UnknownIsFresh, PollState, OneHolder,
       Held
  <2>3. OneHolder' /\ SessionIsEarned'
    BY <1>4 DEF ProviderToggles, storeVars, idpVars, keyVars, pollVars,
       answerVars, TypeOK, UnknownIsFresh, PollState, OneHolder,
       SessionIsEarned, Held
  <2>4. FinalIsForgotten'
    BY <1>4 DEF ProviderToggles, storeVars, idpVars, keyVars, pollVars,
       answerVars, TypeOK, UnknownIsFresh, PollState, OneHolder,
       SessionIsEarned, FinalIsForgotten, Held
  <2>5. CodeIsAccounted'
    BY <1>4 DEF ProviderToggles, storeVars, idpVars, keyVars, pollVars,
       answerVars, TypeOK, Live, PollState, OneHolder, CodeIsAccounted,
       Held
  <2> QED
    BY <2>1, <2>2, <2>3, <2>4, <2>5
<1>5. CASE Tick
  <2>1. TypeOK'
    BY <1>5, TimesAssumption DEF Tick, storeVars, idpVars, keyVars,
       pollVars, answerVars, TypeOK
  <2>2. UnknownIsFresh' /\ PollState'
    BY <1>5 DEF Tick, storeVars, idpVars, keyVars, pollVars, answerVars,
       TypeOK, Live, UnknownIsFresh, PollState, OneHolder, Held
  <2>3. OneHolder' /\ SessionIsEarned'
    BY <1>5 DEF Tick, storeVars, idpVars, keyVars, pollVars, answerVars,
       TypeOK, UnknownIsFresh, PollState, OneHolder, SessionIsEarned, Held
  <2>4. FinalIsForgotten'
    BY <1>5 DEF Tick, storeVars, idpVars, keyVars, pollVars, answerVars,
       TypeOK, UnknownIsFresh, PollState, OneHolder, SessionIsEarned,
       FinalIsForgotten, Held
  <2>5. CodeIsAccounted'
    BY <1>5 DEF Tick, storeVars, idpVars, keyVars, pollVars, answerVars,
       TypeOK, Live, PollState, OneHolder, CodeIsAccounted, Held
  <2> QED
    BY <2>1, <2>2, <2>3, <2>4, <2>5
<1>6. ASSUME NEW p \in Polls, NEW c \in Codes, PollFindsNothing(p, c)
      PROVE  IInv'
  <2>1. TypeOK'
    BY <1>6, KeysAssumption DEF PollFindsNothing, Answer, storeVars,
       idpVars, keyVars, TypeOK, Errors
  <2>2. UnknownIsFresh' /\ PollState'
    BY <1>6 DEF PollFindsNothing, Answer, storeVars, idpVars, keyVars,
       TypeOK, Live, UnknownIsFresh, PollState, OneHolder, Held
  <2>3. OneHolder' /\ SessionIsEarned'
    BY <1>6 DEF PollFindsNothing, Answer, storeVars, idpVars, keyVars,
       TypeOK, UnknownIsFresh, PollState, OneHolder, SessionIsEarned, Held
  <2>4. FinalIsForgotten'
    BY <1>6 DEF PollFindsNothing, Answer, storeVars, idpVars, keyVars,
       TypeOK, UnknownIsFresh, PollState, OneHolder, SessionIsEarned,
       FinalIsForgotten, Held
  <2>5. CodeIsAccounted'
    BY <1>6 DEF PollFindsNothing, Answer, storeVars, idpVars, keyVars,
       TypeOK, Live, PollState, OneHolder, CodeIsAccounted, Held
  <2> QED
    BY <2>1, <2>2, <2>3, <2>4, <2>5
<1>7. ASSUME NEW p \in Polls, NEW c \in Codes, PollFindsExpired(p, c)
      PROVE  IInv'
  <2>1. TypeOK'
    BY <1>7, KeysAssumption DEF PollFindsExpired, Answer, Consume, Lose,
       idpVars, keyVars, TypeOK, Errors
  <2>2. UnknownIsFresh' /\ PollState'
    BY <1>7 DEF PollFindsExpired, Answer, Consume, Lose, idpVars, keyVars,
       TypeOK, Live, UnknownIsFresh, PollState, OneHolder, Held
  <2>3. OneHolder' /\ SessionIsEarned'
    BY <1>7 DEF PollFindsExpired, Answer, Consume, Lose, idpVars, keyVars,
       TypeOK, UnknownIsFresh, PollState, OneHolder, SessionIsEarned, Held
  <2>4. FinalIsForgotten'
    BY <1>7 DEF PollFindsExpired, Answer, Consume, Lose, idpVars, keyVars,
       TypeOK, UnknownIsFresh, PollState, OneHolder, SessionIsEarned,
       FinalIsForgotten, Held
  <2>5. CodeIsAccounted'
    BY <1>7 DEF PollFindsExpired, Answer, Consume, Lose, idpVars, keyVars,
       TypeOK, Live, PollState, OneHolder, CodeIsAccounted, Held
  <2> QED
    BY <2>1, <2>2, <2>3, <2>4, <2>5
<1>8. ASSUME NEW p \in Polls, NEW c \in Codes, PollFindsNoProvider(p, c)
      PROVE  IInv'
  <2>1. TypeOK'
    BY <1>8, KeysAssumption DEF PollFindsNoProvider, Answer, Consume,
       Lose, idpVars, keyVars, TypeOK, Errors
  <2>2. UnknownIsFresh' /\ PollState'
    BY <1>8 DEF PollFindsNoProvider, Answer, Consume, Lose, idpVars,
       keyVars, TypeOK, Live, UnknownIsFresh, PollState, OneHolder, Held
  <2>3. OneHolder' /\ SessionIsEarned'
    BY <1>8 DEF PollFindsNoProvider, Answer, Consume, Lose, idpVars,
       keyVars, TypeOK, UnknownIsFresh, PollState, OneHolder,
       SessionIsEarned, Held
  <2>4. FinalIsForgotten'
    BY <1>8 DEF PollFindsNoProvider, Answer, Consume, Lose, idpVars,
       keyVars, TypeOK, UnknownIsFresh, PollState, OneHolder,
       SessionIsEarned, FinalIsForgotten, Held
  <2>5. CodeIsAccounted'
    BY <1>8 DEF PollFindsNoProvider, Answer, Consume, Lose, idpVars,
       keyVars, TypeOK, Live, PollState, OneHolder, CodeIsAccounted, Held
  <2> QED
    BY <2>1, <2>2, <2>3, <2>4, <2>5
<1>9. ASSUME NEW p \in Polls, NEW c \in Codes, PollTakesCode(p, c)
      PROVE  IInv'
  <2>1. TypeOK'
    BY <1>9 DEF PollTakesCode, Consume, idpVars, keyVars, answerVars,
       TypeOK
  <2>2. UnknownIsFresh' /\ PollState'
    BY <1>9 DEF PollTakesCode, Consume, idpVars, keyVars, answerVars,
       TypeOK, Live, UnknownIsFresh, PollState, OneHolder, Held
  <2>3. OneHolder' /\ SessionIsEarned'
    BY <1>9 DEF PollTakesCode, Consume, idpVars, keyVars, answerVars,
       TypeOK, UnknownIsFresh, PollState, OneHolder, SessionIsEarned, Held
  <2>4. FinalIsForgotten'
    BY <1>9 DEF PollTakesCode, Consume, idpVars, keyVars, answerVars,
       TypeOK, UnknownIsFresh, PollState, OneHolder, SessionIsEarned,
       FinalIsForgotten, Held
  <2>5. CodeIsAccounted'
    BY <1>9 DEF PollTakesCode, Consume, idpVars, keyVars, answerVars,
       TypeOK, Live, PollState, OneHolder, CodeIsAccounted, Held
  <2> QED
    BY <2>1, <2>2, <2>3, <2>4, <2>5
<1>10. ASSUME NEW p \in Polls, PollSendsRequest(p) PROVE IInv'
  <2>1. TypeOK'
    BY <1>10 DEF PollSendsRequest, storeVars, idpVars, keyVars, pollVars,
       answerVars, TypeOK, PollState
  <2>2. UnknownIsFresh' /\ PollState'
    BY <1>10 DEF PollSendsRequest, storeVars, idpVars, keyVars, pollVars,
       answerVars, TypeOK, Live, UnknownIsFresh, PollState, OneHolder,
       Held
  <2>3. OneHolder' /\ SessionIsEarned'
    BY <1>10 DEF PollSendsRequest, storeVars, idpVars, keyVars, pollVars,
       answerVars, TypeOK, UnknownIsFresh, PollState, OneHolder,
       SessionIsEarned, Held
  <2>4. FinalIsForgotten'
    BY <1>10 DEF PollSendsRequest, storeVars, idpVars, keyVars, pollVars,
       answerVars, TypeOK, UnknownIsFresh, PollState, OneHolder,
       SessionIsEarned, FinalIsForgotten, Held
  <2>5. CodeIsAccounted'
    BY <1>10 DEF PollSendsRequest, storeVars, idpVars, keyVars, pollVars,
       answerVars, TypeOK, Live, PollState, OneHolder, CodeIsAccounted,
       Held
  <2> QED
    BY <2>1, <2>2, <2>3, <2>4, <2>5
<1>11. ASSUME NEW p \in Polls, IdpAnswers(p) PROVE IInv'
  <2>1. TypeOK'
    BY <1>11, KeysAssumption DEF IdpAnswers, IdpResponses, storeVars,
       keyVars, answerVars, TypeOK, Errors, Live, PollState
  <2>2. UnknownIsFresh' /\ PollState'
    <3>1. PICK r \in IdpResponses(on[p]) :
            /\ resp' = [resp EXCEPT ![p] = r]
            /\ IF r = "tokens"
               THEN /\ idp' = [idp EXCEPT ![on[p]] = "redeemed"]
                    /\ signed' = [signed EXCEPT ![p] = signer]
               ELSE UNCHANGED <<idp, signed>>
      BY <1>11 DEF IdpAnswers
    <3>2. on[p] \in Codes /\ idp[on[p]] # "unknown"
      BY <1>11 DEF IdpAnswers, TypeOK, PollState, UnknownIsFresh, Held
    <3>3. /\ r = "tokens" => idp'[on[p]] = "redeemed"
          /\ r = "access_denied" => idp'[on[p]] = "denied"
          /\ r = "expired_token" => /\ idp'[on[p]] \in {"pending", "approved"}
                                   /\ clock > until[on[p]]
      BY <3>1, <3>2 DEF IdpResponses, Live, TypeOK
    <3>4. \A c \in Codes : c # on[p] => idp'[c] = idp[c]
      BY <3>1, <3>2 DEF TypeOK
    <3>5. UnknownIsFresh'
      BY <1>11, <3>1, <3>2, <3>4 DEF IdpAnswers, storeVars, answerVars, TypeOK,
         UnknownIsFresh, Held
    <3>6. PollState'
      BY <1>11, <3>1, <3>2, <3>3, <3>4 DEF IdpAnswers, TypeOK, PollState,
         OneHolder
    <3> QED
      BY <3>5, <3>6
  <2>3. OneHolder' /\ SessionIsEarned'
    BY <1>11 DEF IdpAnswers, IdpResponses, storeVars, keyVars, answerVars,
       TypeOK, UnknownIsFresh, PollState, OneHolder, SessionIsEarned, Held
  <2>4. FinalIsForgotten'
    BY <1>11 DEF IdpAnswers, IdpResponses, storeVars, keyVars, answerVars,
       TypeOK, UnknownIsFresh, PollState, OneHolder, SessionIsEarned,
       FinalIsForgotten, Held
  <2>5. CodeIsAccounted'
    BY <1>11 DEF IdpAnswers, IdpResponses, storeVars, keyVars, answerVars,
       TypeOK, Live, PollState, OneHolder, CodeIsAccounted, Held
  <2> QED
    BY <2>1, <2>2, <2>3, <2>4, <2>5
<1>12. ASSUME NEW p \in Polls, IdpBreaks(p) PROVE IInv'
  <2>1. TypeOK'
    BY <1>12 DEF IdpBreaks, storeVars, idpVars, keyVars, answerVars,
       TypeOK, Errors, PollState
  <2>2. UnknownIsFresh' /\ PollState'
    BY <1>12 DEF IdpBreaks, storeVars, idpVars, keyVars, answerVars,
       TypeOK, Live, UnknownIsFresh, PollState, OneHolder, Held
  <2>3. OneHolder' /\ SessionIsEarned'
    BY <1>12 DEF IdpBreaks, storeVars, idpVars, keyVars, answerVars,
       TypeOK, UnknownIsFresh, PollState, OneHolder, SessionIsEarned, Held
  <2>4. FinalIsForgotten'
    BY <1>12 DEF IdpBreaks, storeVars, idpVars, keyVars, answerVars,
       TypeOK, UnknownIsFresh, PollState, OneHolder, SessionIsEarned,
       FinalIsForgotten, Held
  <2>5. CodeIsAccounted'
    BY <1>12 DEF IdpBreaks, storeVars, idpVars, keyVars, answerVars,
       TypeOK, Live, PollState, OneHolder, CodeIsAccounted, Held
  <2> QED
    BY <2>1, <2>2, <2>3, <2>4, <2>5
<1>13. ASSUME NEW p \in Polls, PollLosesNetwork(p) PROVE IInv'
  <2>1. TypeOK'
    BY <1>13, TimesAssumption, KeysAssumption DEF PollLosesNetwork,
       OIDCError, StoreDeviceCode, Answer, idpVars, keyVars, TypeOK,
       Errors, PollState
  <2>2. UnknownIsFresh' /\ PollState'
    BY <1>13 DEF PollLosesNetwork, OIDCError, StoreDeviceCode, Answer,
       idpVars, keyVars, TypeOK, Live, UnknownIsFresh, PollState,
       OneHolder, Held
  <2>3. OneHolder' /\ SessionIsEarned'
    BY <1>13 DEF PollLosesNetwork, OIDCError, StoreDeviceCode, Answer,
       idpVars, keyVars, TypeOK, UnknownIsFresh, PollState, OneHolder,
       SessionIsEarned, Held
  <2>4. FinalIsForgotten'
    BY <1>13 DEF PollLosesNetwork, OIDCError, StoreDeviceCode, Answer,
       idpVars, keyVars, TypeOK, UnknownIsFresh, PollState, OneHolder,
       SessionIsEarned, FinalIsForgotten, Held
  <2>5. CodeIsAccounted'
    BY <1>13 DEF PollLosesNetwork, OIDCError, StoreDeviceCode, Answer,
       idpVars, keyVars, TypeOK, Live, PollState, OneHolder,
       CodeIsAccounted, Held
  <2> QED
    BY <2>1, <2>2, <2>3, <2>4, <2>5
<1>14. ASSUME NEW p \in Polls, PollIsPending(p) PROVE IInv'
  <2>1. TypeOK'
    BY <1>14, TimesAssumption, KeysAssumption DEF PollIsPending,
       StoreDeviceCode, Answer, idpVars, keyVars, TypeOK, Errors,
       PollState
  <2>2. UnknownIsFresh' /\ PollState'
    BY <1>14 DEF PollIsPending, StoreDeviceCode, Answer, idpVars, keyVars,
       TypeOK, Live, UnknownIsFresh, PollState, OneHolder, Held
  <2>3. OneHolder' /\ SessionIsEarned'
    BY <1>14 DEF PollIsPending, StoreDeviceCode, Answer, idpVars, keyVars,
       TypeOK, UnknownIsFresh, PollState, OneHolder, SessionIsEarned, Held
  <2>4. FinalIsForgotten'
    BY <1>14 DEF PollIsPending, StoreDeviceCode, Answer, idpVars, keyVars,
       TypeOK, UnknownIsFresh, PollState, OneHolder, SessionIsEarned,
       FinalIsForgotten, Held
  <2>5. CodeIsAccounted'
    BY <1>14 DEF PollIsPending, StoreDeviceCode, Answer, idpVars, keyVars,
       TypeOK, Live, PollState, OneHolder, CodeIsAccounted, Held
  <2> QED
    BY <2>1, <2>2, <2>3, <2>4, <2>5
<1>15. ASSUME NEW p \in Polls, PollIsFinal(p) PROVE IInv'
  <2>1. TypeOK'
    BY <1>15, KeysAssumption DEF PollIsFinal, Answer, storeVars, idpVars,
       keyVars, TypeOK, Errors, PollState
  <2>2. UnknownIsFresh' /\ PollState'
    BY <1>15 DEF PollIsFinal, Answer, storeVars, idpVars, keyVars, TypeOK,
       Live, UnknownIsFresh, PollState, OneHolder, Held
  <2>3. OneHolder' /\ SessionIsEarned'
    BY <1>15 DEF PollIsFinal, Answer, storeVars, idpVars, keyVars, TypeOK,
       UnknownIsFresh, PollState, OneHolder, SessionIsEarned, Held
  <2>4. FinalIsForgotten'
    BY <1>15 DEF PollIsFinal, Answer, storeVars, idpVars, keyVars, TypeOK,
       UnknownIsFresh, PollState, OneHolder, SessionIsEarned,
       FinalIsForgotten, Held
  <2>5. CodeIsAccounted'
    BY <1>15 DEF PollIsFinal, Answer, storeVars, idpVars, keyVars, TypeOK,
       Live, PollState, OneHolder, CodeIsAccounted, Held
  <2> QED
    BY <2>1, <2>2, <2>3, <2>4, <2>5
<1>16. ASSUME NEW p \in Polls, PollIsRefused(p) PROVE IInv'
  <2>1. TypeOK'
    BY <1>16, TimesAssumption, KeysAssumption DEF PollIsRefused,
       OIDCError, StoreDeviceCode, Answer, idpVars, keyVars, TypeOK,
       Errors, PollState
  <2>2. UnknownIsFresh' /\ PollState'
    BY <1>16 DEF PollIsRefused, OIDCError, StoreDeviceCode, Answer,
       idpVars, keyVars, TypeOK, Live, UnknownIsFresh, PollState,
       OneHolder, Held
  <2>3. OneHolder' /\ SessionIsEarned'
    BY <1>16 DEF PollIsRefused, OIDCError, StoreDeviceCode, Answer,
       idpVars, keyVars, TypeOK, UnknownIsFresh, PollState, OneHolder,
       SessionIsEarned, Held
  <2>4. FinalIsForgotten'
    BY <1>16 DEF PollIsRefused, OIDCError, StoreDeviceCode, Answer,
       idpVars, keyVars, TypeOK, UnknownIsFresh, PollState, OneHolder,
       SessionIsEarned, FinalIsForgotten, Held
  <2>5. CodeIsAccounted'
    BY <1>16 DEF PollIsRefused, OIDCError, StoreDeviceCode, Answer,
       idpVars, keyVars, TypeOK, Live, PollState, OneHolder,
       CodeIsAccounted, Held
  <2> QED
    BY <2>1, <2>2, <2>3, <2>4, <2>5
<1>17. ASSUME NEW p \in Polls, PollFails(p) PROVE IInv'
  <2>1. TypeOK'
    BY <1>17, KeysAssumption DEF PollFails, Lose, Answer, storeVars,
       idpVars, keyVars, TypeOK, Errors, PollState
  <2>2. UnknownIsFresh' /\ PollState'
    BY <1>17 DEF PollFails, Lose, Answer, storeVars, idpVars, keyVars,
       TypeOK, Live, UnknownIsFresh, PollState, OneHolder, Held
  <2>3. OneHolder' /\ SessionIsEarned'
    BY <1>17 DEF PollFails, Lose, Answer, storeVars, idpVars, keyVars,
       TypeOK, UnknownIsFresh, PollState, OneHolder, SessionIsEarned, Held
  <2>4. FinalIsForgotten'
    BY <1>17 DEF PollFails, Lose, Answer, storeVars, idpVars, keyVars,
       TypeOK, UnknownIsFresh, PollState, OneHolder, SessionIsEarned,
       FinalIsForgotten, Held
  <2>5. CodeIsAccounted'
    BY <1>17 DEF PollFails, Lose, Answer, storeVars, idpVars, keyVars,
       TypeOK, Live, PollState, OneHolder, CodeIsAccounted, Held
  <2> QED
    BY <2>1, <2>2, <2>3, <2>4, <2>5
<1>18. ASSUME NEW p \in Polls, PollGetsTokens(p) PROVE IInv'
  <2>1. TypeOK'
    BY <1>18 DEF PollGetsTokens, storeVars, idpVars, keyVars, pollVars,
       answerVars, TypeOK, PollState
  <2>2. UnknownIsFresh' /\ PollState'
    BY <1>18 DEF PollGetsTokens, storeVars, idpVars, keyVars, pollVars,
       answerVars, TypeOK, Live, UnknownIsFresh, PollState, OneHolder,
       Held
  <2>3. OneHolder' /\ SessionIsEarned'
    BY <1>18 DEF PollGetsTokens, storeVars, idpVars, keyVars, pollVars,
       answerVars, TypeOK, UnknownIsFresh, PollState, OneHolder,
       SessionIsEarned, Held
  <2>4. FinalIsForgotten'
    BY <1>18 DEF PollGetsTokens, storeVars, idpVars, keyVars, pollVars,
       answerVars, TypeOK, UnknownIsFresh, PollState, OneHolder,
       SessionIsEarned, FinalIsForgotten, Held
  <2>5. CodeIsAccounted'
    BY <1>18 DEF PollGetsTokens, storeVars, idpVars, keyVars, pollVars,
       answerVars, TypeOK, Live, PollState, OneHolder, CodeIsAccounted,
       Held
  <2> QED
    BY <2>1, <2>2, <2>3, <2>4, <2>5
<1>19. ASSUME NEW p \in Polls, PollCannotVerify(p) PROVE IInv'
  <2>1. TypeOK'
    BY <1>19, JwksType, TimesAssumption, KeysAssumption DEF
       PollCannotVerify, OIDCError, StoreDeviceCode, Answer, idpVars,
       TypeOK, Errors, PollState
  <2>2. UnknownIsFresh' /\ PollState'
    BY <1>19 DEF PollCannotVerify, OIDCError, StoreDeviceCode, Answer,
       idpVars, TypeOK, Live, UnknownIsFresh, PollState, OneHolder, Held
  <2>3. OneHolder' /\ SessionIsEarned'
    BY <1>19 DEF PollCannotVerify, OIDCError, StoreDeviceCode, Answer,
       idpVars, TypeOK, UnknownIsFresh, PollState, OneHolder,
       SessionIsEarned, Held
  <2>4. FinalIsForgotten'
    BY <1>19 DEF PollCannotVerify, OIDCError, StoreDeviceCode, Answer,
       idpVars, TypeOK, UnknownIsFresh, PollState, OneHolder,
       SessionIsEarned, FinalIsForgotten, Held
  <2>5. CodeIsAccounted'
    BY <1>19 DEF PollCannotVerify, OIDCError, StoreDeviceCode, Answer,
       idpVars, TypeOK, Live, PollState, OneHolder, CodeIsAccounted, Held
  <2> QED
    BY <2>1, <2>2, <2>3, <2>4, <2>5
<1>20. ASSUME NEW p \in Polls, PollCompletes(p) PROVE IInv'
  <2>1. TypeOK'
    BY <1>20, JwksType, KeysAssumption DEF PollCompletes, Answer,
       storeVars, idpVars, TypeOK, Errors, PollState
  <2>2. UnknownIsFresh' /\ PollState'
    BY <1>20 DEF PollCompletes, Answer, storeVars, idpVars, TypeOK, Live,
       UnknownIsFresh, PollState, OneHolder, Held
  <2>3. OneHolder' /\ SessionIsEarned'
    BY <1>20 DEF PollCompletes, Answer, storeVars, idpVars, TypeOK,
       UnknownIsFresh, PollState, OneHolder, SessionIsEarned, Held
  <2>4. FinalIsForgotten'
    BY <1>20 DEF PollCompletes, Answer, storeVars, idpVars, TypeOK,
       UnknownIsFresh, PollState, OneHolder, SessionIsEarned,
       FinalIsForgotten, Held
  <2>5. CodeIsAccounted'
    BY <1>20 DEF PollCompletes, Answer, storeVars, idpVars, TypeOK, Live,
       PollState, OneHolder, CodeIsAccounted, Held
  <2> QED
    BY <2>1, <2>2, <2>3, <2>4, <2>5
<1>21. ASSUME NEW p \in Polls, PollTurnsAway(p) PROVE IInv'
  <2>1. TypeOK'
    BY <1>21, JwksType, KeysAssumption DEF PollTurnsAway, Lose, Answer,
       storeVars, idpVars, TypeOK, Errors, PollState
  <2>2. UnknownIsFresh' /\ PollState'
    BY <1>21 DEF PollTurnsAway, Lose, Answer, storeVars, idpVars, TypeOK,
       Live, UnknownIsFresh, PollState, OneHolder, Held
  <2>3. OneHolder' /\ SessionIsEarned'
    BY <1>21 DEF PollTurnsAway, Lose, Answer, storeVars, idpVars, TypeOK,
       UnknownIsFresh, PollState, OneHolder, SessionIsEarned, Held
  <2>4. FinalIsForgotten'
    BY <1>21 DEF PollTurnsAway, Lose, Answer, storeVars, idpVars, TypeOK,
       UnknownIsFresh, PollState, OneHolder, SessionIsEarned,
       FinalIsForgotten, Held
  <2>5. CodeIsAccounted'
    BY <1>21 DEF PollTurnsAway, Lose, Answer, storeVars, idpVars, TypeOK,
       Live, PollState, OneHolder, CodeIsAccounted, Held
  <2> QED
    BY <2>1, <2>2, <2>3, <2>4, <2>5
<1>22. CASE Crash
  <2>1. TypeOK'
    BY <1>22, TimesAssumption, KeysAssumption DEF Crash, idpVars, TypeOK,
       Errors
  <2>2. UnknownIsFresh' /\ PollState'
    BY <1>22 DEF Crash, idpVars, TypeOK, Live, UnknownIsFresh, PollState,
       OneHolder, Held
  <2>3. OneHolder' /\ SessionIsEarned'
    BY <1>22 DEF Crash, idpVars, TypeOK, UnknownIsFresh, PollState,
       OneHolder, SessionIsEarned, Held
  <2>4. FinalIsForgotten'
    BY <1>22 DEF Crash, idpVars, TypeOK, UnknownIsFresh, PollState,
       OneHolder, SessionIsEarned, FinalIsForgotten, Held
  <2>5. CodeIsAccounted'
    BY <1>22 DEF Crash, idpVars, TypeOK, Live, PollState, OneHolder,
       CodeIsAccounted, Held
  <2> QED
    BY <2>1, <2>2, <2>3, <2>4, <2>5
<1>23. CASE UNCHANGED vars
  <2>1. TypeOK' /\ UnknownIsFresh' /\ PollState'
    BY <1>23 DEF vars, TypeOK, UnknownIsFresh, PollState, Held
  <2>2. OneHolder' /\ SessionIsEarned' /\ FinalIsForgotten' /\ CodeIsAccounted'
    BY <1>23 DEF vars, OneHolder, SessionIsEarned, FinalIsForgotten,
                 CodeIsAccounted, Held, Live
  <2> QED
    BY <2>1, <2>2
<1>24. ASSUME NEW p \in Polls, PollReadsNoJson(p) PROVE IInv'
  <2>1. TypeOK'
    BY <1>24, KeysAssumption DEF PollReadsNoJson, Lose, Answer, storeVars,
       idpVars, keyVars, TypeOK, Errors, PollState
  <2>2. UnknownIsFresh' /\ PollState'
    BY <1>24 DEF PollReadsNoJson, Lose, Answer, storeVars, idpVars, keyVars,
       TypeOK, Live, UnknownIsFresh, PollState, OneHolder, Held
  <2>3. OneHolder' /\ SessionIsEarned'
    BY <1>24 DEF PollReadsNoJson, Lose, Answer, storeVars, idpVars, keyVars,
       TypeOK, UnknownIsFresh, PollState, OneHolder, SessionIsEarned, Held
  <2>4. FinalIsForgotten'
    BY <1>24 DEF PollReadsNoJson, Lose, Answer, storeVars, idpVars, keyVars,
       TypeOK, UnknownIsFresh, PollState, OneHolder, SessionIsEarned,
       FinalIsForgotten, Held
  <2>5. CodeIsAccounted'
    BY <1>24 DEF PollReadsNoJson, Lose, Answer, storeVars, idpVars, keyVars,
       TypeOK, Live, PollState, OneHolder, CodeIsAccounted, Held
  <2> QED
    BY <2>1, <2>2, <2>3, <2>4, <2>5
<1> QED
  BY <1>1, <1>2, <1>3, <1>4, <1>5, <1>6, <1>7, <1>8, <1>9, <1>10, <1>11,
     <1>12, <1>13, <1>14, <1>15, <1>16, <1>17, <1>18, <1>19, <1>20, <1>21,
     <1>22, <1>23, <1>24 DEF Next, Poll, PollContinues

\* The invariant holds in every reachable state.
LEMMA Invariance == Spec => []IInv
  BY InitIInv, StepIInv, PTL DEF Spec

-----------------------------------------------------------------------------
(* The theorems.                                                           *)

\* The state stays well typed: the caches hold keys the provider has had, the clients
\* are given the answers the endpoint documents (oidc_device_auth.py:171-335).
THEOREM TypeCorrect == Spec => []TypeOK
<1>1. IInv => TypeOK
  BY DEF IInv
<1> QED
  BY Invariance, <1>1, PTL

\* However many polls overlap, a code is with one of them or in the store, never both
\* and never with two (oidc.py:692).
THEOREM CodeHasOneHolder == Spec => []OneHolder
<1>1. IInv => OneHolder
  BY DEF IInv
<1> QED
  BY Invariance, <1>1, PTL

\* A login is never forgotten but for the reasons that are known
\* (oidc_device_auth.py:218-330).
THEOREM CodeIsNeverMislaid == Spec => []CodeIsAccounted
<1>1. IInv => CodeIsAccounted
  BY DEF IInv
<1> QED
  BY Invariance, <1>1, PTL

\* A session belongs to a code that was approved and redeemed, and its code is used
\* up (oidc_device_auth.py:247-317).
THEOREM SessionIsSound == Spec => []SessionIsEarned
<1>1. IInv => SessionIsEarned
  BY DEF IInv
<1> QED
  BY Invariance, <1>1, PTL

\* A final answer leaves nothing behind that could change it
\* (oidc_device_auth.py:242).
THEOREM FinalIsFinal == Spec => []FinalIsForgotten
<1>1. IInv => FinalIsForgotten
  BY DEF IInv
<1> QED
  BY Invariance, <1>1, PTL
=============================================================================
