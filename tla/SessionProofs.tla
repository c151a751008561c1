----------------------------- MODULE SessionProofs -----------------------------
(***************************************************************************)
(* Proofs about sessions at both ends: Auth for any number of requests,    *)
(* seconds, secrets, sign-ins and failures, and in the second part the     *)
(* client of the browser (Storefront) for any number of calls, retries and *)
(* logins.                                                                 *)
(***************************************************************************)
EXTENDS Auth, Storefront, FiniteSetTheorems, TLAPS

(* A request that has signed a token it has not stored yet.                 *)

Signing(h) == requests[h].at \in {"swap", "store"}
Storing == {h \in Requests : requests[h].at = "store"}

(* Only tokens that were issued are sessions, ended, or asked for; a token   *)
(* was signed once for every request that will store it and once more if a   *)
(* client already has it.                                                    *)

TokensAreSigned ==
  /\ sessions \subseteq issued /\ ended \subseteq issued
  /\ \A h \in Requests :
       /\ requests[h].found \subseteq issued
       /\ requests[h].at = "delete" => requests[h].token \in issued
       /\ Signing(h) => signed[requests[h].fresh] > 0
       /\ Signing(h) /\ requests[h].fresh \in issued => signed[requests[h].fresh] > 1
       /\ \A g \in Requests :
            g # h /\ Signing(g) /\ Signing(h) /\ requests[g].fresh = requests[h].fresh
              => signed[requests[h].fresh] > 1
  /\ \A t \in issued : signed[t] > 0

(* Steady requests are logins MFA is on for; enableMFA enables after a code. *)

LoginsAreSteady ==
  \A h \in Requests :
    /\ requests[h].steady => requests[h].at \in {"mfa", "verify", "store"} /\ mfa.is_enabled
    /\ requests[h].at = "enable" => requests[h].code \in proved

SessionsArePaidFor == Cardinality(sessions) + Cardinality(Storing) <= signIns + raced

AuthIInv ==
  /\ TypeOK /\ TokensAreSigned /\ LoginsAreSteady /\ SessionsArePaidFor
  /\ EndedStaysEnded /\ EnabledSecretWasProved /\ MfaProtectsLogin

-----------------------------------------------------------------------------
(* Sets.                                                                    *)

LEMMA SetsAreFinite ==
  ASSUME TypeOK
  PROVE  /\ IsFiniteSet(sessions) /\ IsFiniteSet(Storing)
         /\ Cardinality(sessions) \in Nat /\ Cardinality(Storing) \in Nat
         /\ signIns \in Nat /\ raced \in Nat
<1>1. IsFiniteSet(0..MaxTime)
  BY AuthAssumption, FS_Interval
<1>2. IsFiniteSet(sessions)
  BY <1>1, FS_Subset DEF TypeOK, Token
<1>3. IsFiniteSet(Storing)
  BY AuthAssumption, FS_Subset DEF Storing
<1>4. QED
  BY <1>2, <1>3, FS_CardinalityType, AuthAssumption DEF TypeOK

LEMMA IdleTyped ==
  /\ Idle \in Request /\ Idle.at = "idle" /\ Idle.steady = FALSE
  /\ Idle.found = {} /\ Idle.code = "none"
BY AuthAssumption DEF Idle, Request, Token

(* What moving one request makes of those that store.                       *)

LEMMA StoringAfter ==
  ASSUME TypeOK, NEW h \in Requests, NEW state \in Request, Goto(h, state)
  PROVE  Storing' = IF state.at = "store" THEN Storing \cup {h} ELSE Storing \ {h}
BY DEF TypeOK, Goto, Storing

LEMMA InitIInv == Init => AuthIInv
<1> SUFFICES ASSUME Init PROVE AuthIInv
  OBVIOUS
<1>1. TypeOK
  <2>1. requests \in [Requests -> Request] /\ mfa \in MfaSecret /\ signed \in [Token -> 0..MaxSigned]
    BY IdleTyped DEF Init, MfaSecret, MaxSigned
  <2>2. now \in Token /\ signIns \in 0..MaxSignIns /\ raced \in 0..MaxRaces /\ faults \in 0..MaxFaults
    BY AuthAssumption DEF Init, Token
  <2>3. QED
    BY <2>1, <2>2 DEF Init, TypeOK
<1>2. \A h \in Requests : requests[h] = Idle
  BY DEF Init
<1>3. TokensAreSigned /\ LoginsAreSteady
  BY <1>2, IdleTyped DEF Init, TokensAreSigned, LoginsAreSteady, Signing
<1>4. SessionsArePaidFor
  <2>1. sessions = {} /\ Storing = {}
    BY <1>2, IdleTyped DEF Init, Storing
  <2>2. QED
    BY <2>1, FS_EmptySet DEF Init, SessionsArePaidFor
<1>5. QED
  BY <1>1, <1>2, <1>3, <1>4, IdleTyped
  DEF AuthIInv, Init, EndedStaysEnded, EnabledSecretWasProved, MfaProtectsLogin

-----------------------------------------------------------------------------
(* A request moves to a statement that stores nothing.                      *)

WellPlaced(state, shown) ==
  /\ state \in Request /\ state.at \notin {"swap", "store"}
  /\ state.found \subseteq issued
  /\ state.at = "delete" => state.token \in issued
  /\ state.steady => state.at \in {"mfa", "verify"} /\ mfa.is_enabled
  /\ state.at = "enable" => state.code \in shown

LEMMA MoveIInv ==
  ASSUME AuthIInv, NEW h \in Requests, NEW state, WellPlaced(state, proved'), Goto(h, state),
         UNCHANGED <<now, sessionVars, mfa, generated, swapped>>,
         registered' \in BOOLEAN, faults' \in 0..MaxFaults,
         proved \subseteq proved', proved' \subseteq Secrets
  PROVE  AuthIInv'
<1> USE DEF AuthIInv, sessionVars
<1>1. requests' = [requests EXCEPT ![h] = state] /\ requests \in [Requests -> Request]
  BY DEF Goto, TypeOK
<1>2. TypeOK'
  BY <1>1 DEF TypeOK, WellPlaced
<1>3. TokensAreSigned'
  BY <1>1 DEF TokensAreSigned, WellPlaced, Signing
<1>4. LoginsAreSteady'
  BY <1>1 DEF LoginsAreSteady, WellPlaced
<1>5. SessionsArePaidFor'
  <2>1. Storing' = Storing \ {h}
    BY StoringAfter DEF WellPlaced
  <2>2. Cardinality(Storing') <= Cardinality(Storing) /\ Cardinality(Storing') \in Nat
    BY <2>1, SetsAreFinite, FS_Subset, FS_CardinalityType
  <2>3. QED
    BY <2>2, SetsAreFinite DEF SessionsArePaidFor
<1>6. EndedStaysEnded' /\ EnabledSecretWasProved' /\ MfaProtectsLogin'
  BY <1>1 DEF EndedStaysEnded, EnabledSecretWasProved, MfaProtectsLogin, WellPlaced
<1>7. QED
  BY <1>2, <1>3, <1>4, <1>5, <1>6

LEMMA IdleWellPlaced == \A shown : WellPlaced(Idle, shown)
BY IdleTyped DEF WellPlaced

LEMMA RefuseIInv ==
  ASSUME AuthIInv, NEW h \in Requests, Refuse(h), UNCHANGED <<now, sessionVars, mfaVars>>,
         registered' \in BOOLEAN, faults' \in 0..MaxFaults
  PROVE  AuthIInv'
BY IdleWellPlaced, MoveIInv DEF Refuse, mfaVars, AuthIInv, TypeOK

-----------------------------------------------------------------------------
(* A request signs a token.                                                 *)

LEMMA SignIInv ==
  ASSUME AuthIInv, NEW h \in Requests, NEW at \in {"swap", "store"},
         ~Signing(h), GenerateRefreshToken(h, at),
         UNCHANGED <<now, sessions, issued, ended, raced, mfaVars, faults>>,
         registered' \in BOOLEAN, signIns' \in 0..MaxSignIns,
         at = "swap" => ~requests[h].steady /\ signIns' = signIns,
         at = "store" => signIns' = signIns + 1,
         requests[h].steady => requests[h].code = mfa.secret
  PROVE  AuthIInv'
<1> USE DEF AuthIInv, mfaVars
<1> DEFINE state == [requests[h] EXCEPT !.at = at, !.fresh = now]
<1>1. requests[h] \in Request /\ requests \in [Requests -> Request] /\ now \in Token
  BY DEF TypeOK
<1>2. /\ state \in Request /\ state.at = at /\ state.fresh = now
      /\ state.code = requests[h].code /\ state.steady = requests[h].steady
      /\ state.found = requests[h].found
  BY <1>1 DEF Request
<1>3. requests' = [requests EXCEPT ![h] = state]
  BY DEF GenerateRefreshToken, Goto
<1>4. /\ signed' \in [Token -> 0..MaxSigned]
      /\ \A t \in Token : signed'[t] >= signed[t]
      /\ signed'[now] > 0 /\ (signed[now] > 0 => signed'[now] > 1)
  BY <1>1 DEF GenerateRefreshToken, TypeOK, MaxSigned
<1> HIDE DEF state
<1>5. TypeOK'
  BY <1>1, <1>2, <1>3, <1>4 DEF TypeOK
<1>6. TokensAreSigned'
  <2>1. \A g \in Requests : g # h => requests'[g] = requests[g]
    BY <1>1, <1>3
  <2>2. requests'[h] = state
    BY <1>1, <1>3
  <2>3. \A g \in Requests : requests[g].fresh \in Token
    BY <1>1 DEF Request
  <2>4. \A t \in Token : signed[t] \in 0..2 /\ signed'[t] \in 0..2
    BY <1>4 DEF TypeOK, MaxSigned
  <2>5. issued \subseteq Token
    BY DEF TypeOK
  <2>6. \A t \in issued : signed'[t] > 0
    BY <1>4, <2>4, <2>5 DEF TokensAreSigned
  <2>7. ASSUME NEW g \in Requests
        PROVE  /\ requests'[g].found \subseteq issued
               /\ requests'[g].at = "delete" => requests'[g].token \in issued
               /\ Signing(g)' => signed'[requests'[g].fresh] > 0
               /\ Signing(g)' /\ requests'[g].fresh \in issued => signed'[requests'[g].fresh] > 1
    <3>1. CASE g = h
      BY <3>1, <1>1, <1>2, <1>4, <2>2 DEF TokensAreSigned, Signing
    <3>2. CASE g # h
      BY <3>2, <1>4, <2>1, <2>3, <2>4 DEF TokensAreSigned, Signing
    <3>3. QED
      BY <3>1, <3>2
  <2>8. ASSUME NEW f \in Requests, NEW g \in Requests, g # f, Signing(g)', Signing(f)',
               requests'[g].fresh = requests'[f].fresh
        PROVE  signed'[requests'[f].fresh] > 1
    <3>1. CASE f = h \/ g = h
      <4>1. PICK e \in {f, g} : e # h
        BY <2>8
      <4>2. /\ requests[e].fresh = now /\ Signing(e)
            /\ requests'[f].fresh = now
        BY <2>8, <3>1, <4>1, <2>1, <2>2, <1>2 DEF Signing
      <4>3. QED
        BY <4>1, <4>2, <1>4 DEF TokensAreSigned
    <3>2. CASE f # h /\ g # h
      BY <2>8, <3>2, <1>4, <2>1, <2>3, <2>4 DEF TokensAreSigned, Signing
    <3>3. QED
      BY <3>1, <3>2
  <2>9. QED
    BY <2>6, <2>7, <2>8 DEF TokensAreSigned
<1>7. LoginsAreSteady'
  BY <1>1, <1>2, <1>3 DEF LoginsAreSteady
<1>8. SessionsArePaidFor'
  <2>1. Storing' = IF at = "store" THEN Storing \cup {h} ELSE Storing \ {h}
    BY <1>2, <1>3, StoringAfter DEF Goto
  <2>2. h \notin Storing
    BY DEF Storing, Signing
  <2>3. CASE at = "swap"
    BY <2>1, <2>2, <2>3 DEF SessionsArePaidFor
  <2>4. CASE at = "store"
    <3>1. Cardinality(Storing') = Cardinality(Storing) + 1
      BY <2>1, <2>2, <2>4, SetsAreFinite, FS_AddElement
    <3>2. QED
      BY <2>4, <3>1, SetsAreFinite DEF SessionsArePaidFor
  <2>5. QED
    BY <2>3, <2>4
<1>9. EndedStaysEnded'
  BY <1>4 DEF EndedStaysEnded, TypeOK, MaxSigned
<1>10. EnabledSecretWasProved' /\ MfaProtectsLogin'
  BY <1>1, <1>2, <1>3 DEF EnabledSecretWasProved, MfaProtectsLogin
<1>11. QED
  BY <1>5, <1>6, <1>7, <1>8, <1>9, <1>10

-----------------------------------------------------------------------------
(* The statements on sessions.                                              *)

LEMMA CreateSessionIInv ==
  ASSUME AuthIInv, NEW h \in Requests, CreateSession(h)
  PROVE  AuthIInv'
<1> USE DEF AuthIInv, mfaVars
<1> DEFINE t == requests[h].fresh
<1>1. /\ requests' = [requests EXCEPT ![h] = Idle] /\ requests \in [Requests -> Request]
      /\ t \in Token /\ requests[h].at = "store"
  BY DEF CreateSession, Goto, TypeOK, Request
<1>2. sessions' = sessions \cup {t} /\ issued' = issued \cup {t}
  BY DEF CreateSession
<1>3. UNCHANGED <<now, registered, faults, mfa, generated, proved, swapped, ended, signed, signIns, raced>>
  BY DEF CreateSession
<1>4. TypeOK'
  BY <1>1, <1>2, <1>3, IdleTyped DEF TypeOK
<1>5. signed[t] > 0 /\ (t \in issued => signed[t] > 1)
  BY <1>1 DEF TokensAreSigned, Signing
<1>6. TokensAreSigned'
  BY <1>1, <1>2, <1>3, <1>5, IdleTyped DEF TokensAreSigned, Signing
<1>7. LoginsAreSteady'
  BY <1>1, <1>3, IdleTyped DEF LoginsAreSteady
<1>8. SessionsArePaidFor'
  <2>1. Storing' = Storing \ {h} /\ h \in Storing
    BY <1>1, IdleTyped, StoringAfter DEF Goto, Storing
  <2>2. Cardinality(Storing') = Cardinality(Storing) - 1
    BY <2>1, SetsAreFinite, FS_RemoveElement
  <2>3. Cardinality(sessions') <= Cardinality(sessions) + 1 /\ Cardinality(sessions') \in Nat
    <3>1. CASE requests[h].fresh \in sessions
      <4>1. sessions' = sessions
        BY <1>2, <3>1
      <4>2. QED
        BY <4>1, SetsAreFinite
    <3>2. CASE requests[h].fresh \notin sessions
      <4>1. Cardinality(sessions \cup {requests[h].fresh}) = Cardinality(sessions) + 1
        BY <3>2, SetsAreFinite, FS_AddElement
      <4>2. QED
        BY <1>2, <4>1, SetsAreFinite
    <3>3. QED
      BY <3>1, <3>2
  <2>4. QED
    BY <1>3, <2>2, <2>3, SetsAreFinite DEF SessionsArePaidFor
<1>9. EndedStaysEnded'
  BY <1>2, <1>3, <1>5 DEF EndedStaysEnded, TokensAreSigned
<1>10. EnabledSecretWasProved' /\ MfaProtectsLogin'
  BY <1>1, <1>3, IdleTyped DEF EnabledSecretWasProved, MfaProtectsLogin
<1>11. QED
  BY <1>4, <1>6, <1>7, <1>8, <1>9, <1>10

LEMMA DeleteOldSessionIInv ==
  ASSUME AuthIInv, NEW h \in Requests, DeleteOldSession(h)
  PROVE  AuthIInv'
<1> USE DEF AuthIInv, mfaVars
<1> DEFINE t == requests[h].token
           state == [requests[h] EXCEPT !.at = "store"]
<1>1. /\ requests' = [requests EXCEPT ![h] = state] /\ requests \in [Requests -> Request]
      /\ requests[h].at = "swap" /\ requests[h] \in Request
  BY DEF DeleteOldSession, Goto, TypeOK
<1>2. /\ state \in Request /\ state.at = "store" /\ state.fresh = requests[h].fresh
      /\ state.found = requests[h].found /\ state.steady = requests[h].steady
  BY <1>1 DEF Request
<1>3. /\ sessions' = sessions \ {t}
      /\ raced' = IF t \in sessions THEN raced ELSE raced + 1
      /\ t \notin sessions => raced < MaxRaces
      /\ UNCHANGED <<now, registered, faults, mfa, generated, proved, swapped, issued, ended, signed, signIns>>
  BY DEF DeleteOldSession
<1> HIDE DEF state
<1>4. ~requests[h].steady
  BY <1>1 DEF LoginsAreSteady
<1>5. TypeOK'
  BY <1>1, <1>2, <1>3, AuthAssumption DEF TypeOK
<1>6. TokensAreSigned'
  BY <1>1, <1>2, <1>3 DEF TokensAreSigned, Signing
<1>7. LoginsAreSteady' /\ MfaProtectsLogin'
  BY <1>1, <1>2, <1>3, <1>4 DEF LoginsAreSteady, MfaProtectsLogin
<1>8. SessionsArePaidFor'
  <2>1. Storing' = Storing \cup {h} /\ h \notin Storing
    BY <1>1, <1>2, StoringAfter DEF Goto, Storing
  <2>2. Cardinality(Storing') = Cardinality(Storing) + 1
    BY <2>1, SetsAreFinite, FS_AddElement
  <2>3. CASE t \in sessions
    <3>1. Cardinality(sessions') = Cardinality(sessions) - 1
      BY <1>3, <2>3, SetsAreFinite, FS_RemoveElement
    <3>2. QED
      BY <1>3, <2>2, <2>3, <3>1, SetsAreFinite DEF SessionsArePaidFor
  <2>4. CASE t \notin sessions
    <3>1. sessions' = sessions
      BY <1>3, <2>4
    <3>2. QED
      BY <1>3, <2>2, <2>4, <3>1, SetsAreFinite DEF SessionsArePaidFor
  <2>5. QED
    BY <2>3, <2>4
<1>9. EndedStaysEnded' /\ EnabledSecretWasProved'
  BY <1>3 DEF EndedStaysEnded, EnabledSecretWasProved
<1>10. QED
  BY <1>5, <1>6, <1>7, <1>8, <1>9

\* Sessions that go, and the request, if any, that ends with them.
LEMMA EndIInv ==
  ASSUME AuthIInv, NEW gone \in SUBSET Token, sessions' = sessions \ gone,
         ended' = ended \/ (ended' = ended \cup gone /\ gone \subseteq issued),
         \/ requests' = requests
         \/ \E h \in Requests : requests' = [requests EXCEPT ![h] = Idle],
         UNCHANGED <<now, registered, faults, mfaVars, issued, signed, signIns, raced>>
  PROVE  AuthIInv'
<1> USE DEF AuthIInv, mfaVars
<1>1. requests \in [Requests -> Request]
  BY DEF TypeOK
<1>2. \A g \in Requests : requests'[g] \in {requests[g], Idle}
  BY <1>1
<1>3. requests' \in [Requests -> Request]
  BY <1>1, IdleTyped
<1>4. TypeOK'
  BY <1>3 DEF TypeOK
<1>5. TokensAreSigned'
  BY <1>2, IdleTyped DEF TokensAreSigned, Signing
<1>6. LoginsAreSteady' /\ MfaProtectsLogin'
  BY <1>2, IdleTyped DEF LoginsAreSteady, MfaProtectsLogin
<1>7. SessionsArePaidFor'
  <2>1. Storing' \subseteq Storing
    BY <1>2, IdleTyped DEF Storing
  <2>2. Cardinality(Storing') <= Cardinality(Storing) /\ Cardinality(Storing') \in Nat
    BY <2>1, SetsAreFinite, FS_Subset, FS_CardinalityType
  <2>3. Cardinality(sessions') <= Cardinality(sessions) /\ Cardinality(sessions') \in Nat
    BY SetsAreFinite, FS_Subset, FS_CardinalityType
  <2>4. QED
    BY <2>2, <2>3, SetsAreFinite DEF SessionsArePaidFor
<1>8. EndedStaysEnded' /\ EnabledSecretWasProved'
  BY DEF EndedStaysEnded, EnabledSecretWasProved
<1>9. QED
  BY <1>4, <1>5, <1>6, <1>7, <1>8

-----------------------------------------------------------------------------
(* The statements on the MFA row.                                           *)

LEMMA MfaWriteIInv ==
  ASSUME AuthIInv, mfa' \in MfaSecret, generated' \subseteq Secrets, swapped' \in BOOLEAN,
         \/ requests' = Unsettled
         \/ \E h \in Requests : requests' = [Unsettled EXCEPT ![h] = Idle],
         UNCHANGED <<now, registered, faults, sessionVars, proved>>,
         EnabledSecretWasProved'
  PROVE  AuthIInv'
<1> USE DEF AuthIInv, sessionVars
<1>1. requests \in [Requests -> Request]
  BY DEF TypeOK
<1>2. \A g \in Requests : requests'[g] \in {[requests[g] EXCEPT !.steady = FALSE], Idle}
  BY DEF Unsettled
<1>3. \A g \in Requests : [requests[g] EXCEPT !.steady = FALSE] \in Request
  BY <1>1 DEF Request
<1>4. Unsettled \in [Requests -> Request]
  BY <1>3 DEF Unsettled
<1>5. requests' \in [Requests -> Request]
  BY <1>4, IdleTyped
<1>6. \A g \in Requests :
        /\ ~requests'[g].steady
        /\ \/ requests'[g].at = "idle" /\ requests'[g].found = {}
           \/ /\ requests'[g].at = requests[g].at /\ requests'[g].found = requests[g].found
              /\ requests'[g].token = requests[g].token /\ requests'[g].fresh = requests[g].fresh
              /\ requests'[g].code = requests[g].code
  BY <1>1, <1>2, IdleTyped DEF Request
<1>7. TypeOK'
  BY <1>5 DEF TypeOK
<1>8. TokensAreSigned'
  BY <1>6 DEF TokensAreSigned, Signing
<1>9. LoginsAreSteady' /\ MfaProtectsLogin'
  BY <1>6 DEF LoginsAreSteady, MfaProtectsLogin
<1>10. SessionsArePaidFor'
  <2>1. Storing' \subseteq Storing
    BY <1>6 DEF Storing
  <2>2. Cardinality(Storing') <= Cardinality(Storing) /\ Cardinality(Storing') \in Nat
    BY <2>1, SetsAreFinite, FS_Subset, FS_CardinalityType
  <2>3. QED
    BY <2>2, SetsAreFinite DEF SessionsArePaidFor
<1>11. EndedStaysEnded'
  BY DEF EndedStaysEnded
<1>12. QED
  BY <1>7, <1>8, <1>9, <1>10, <1>11

-----------------------------------------------------------------------------
(* Every step.                                                              *)

LEMMA BeginIInv ==
  ASSUME AuthIInv, NEW h \in Requests, Begin(h)
  PROVE  AuthIInv'
<1> USE DEF AuthIInv
<1>0. /\ registered \in BOOLEAN /\ faults \in 0..MaxFaults /\ generated \subseteq Secrets
      /\ issued \subseteq Token /\ sessions \subseteq Token /\ proved \subseteq Secrets
      /\ mfa \in MfaSecret /\ sessions \subseteq issued
  BY DEF TypeOK, TokensAreSigned
<1>1. ASSUME Register(h) PROVE AuthIInv'
  <2>1. WellPlaced([Idle EXCEPT !.at = "insert"], proved)
    BY IdleTyped DEF WellPlaced, Request
  <2>2. QED
    BY <1>0, <1>1, <2>1, MoveIInv DEF Register, mfaVars
<1>2. ASSUME NEW code \in generated \cup {"none"}, Login(h, code) PROVE AuthIInv'
  <2> DEFINE state == [Idle EXCEPT !.at = "mfa", !.code = code, !.steady = mfa.is_enabled]
  <2>1. mfa.is_enabled \in BOOLEAN /\ code \in Secrets \cup {"none"} /\ Idle \in Request
    BY <1>0, IdleTyped DEF MfaSecret
  <2>2. /\ state \in Request /\ state.at = "mfa" /\ state.found = Idle.found
        /\ state.steady = mfa.is_enabled
    BY <2>1 DEF Request
  <2>3. WellPlaced(state, proved)
    BY <2>2, IdleTyped DEF WellPlaced
  <2>4. QED
    BY <1>0, <1>2, <2>3, MoveIInv DEF Login, mfaVars
<1>3. ASSUME NEW t \in issued, RefreshTokens(h, t) PROVE AuthIInv'
  <2>1. WellPlaced([Idle EXCEPT !.at = "user", !.token = t], proved)
    BY <1>0, IdleTyped DEF WellPlaced, Request
  <2>2. QED
    BY <1>0, <1>3, <2>1, MoveIInv DEF RefreshTokens, mfaVars
<1>4. ASSUME NEW t \in issued, Logout(h, t) PROVE AuthIInv'
  <2>1. WellPlaced([Idle EXCEPT !.at = "delete", !.token = t], proved)
    BY <1>0, IdleTyped DEF WellPlaced, Request
  <2>2. QED
    BY <1>0, <1>4, <2>1, MoveIInv DEF Logout, mfaVars
<1>5. ASSUME LogoutAll(h) PROVE AuthIInv'
  <2>1. WellPlaced([Idle EXCEPT !.at = "deleteAll", !.found = sessions], proved)
    BY <1>0, IdleTyped DEF WellPlaced, Request
  <2>2. QED
    BY <1>0, <1>5, <2>1, MoveIInv DEF LogoutAll, mfaVars
<1>6. ASSUME EnableMfa(h) PROVE AuthIInv'
  <2>1. mfa.secret \in Secrets /\ proved' = proved \cup {mfa.secret}
    BY <1>0, <1>6 DEF EnableMfa, MfaSecret
  <2>2. WellPlaced([Idle EXCEPT !.at = "enable", !.code = mfa.secret], proved')
    BY <2>1, IdleTyped DEF WellPlaced, Request
  <2>3. QED
    BY <1>0, <1>6, <2>1, <2>2, MoveIInv DEF EnableMfa
<1>7. ASSUME DisableMfa(h) PROVE AuthIInv'
  <2>1. mfa' \in MfaSecret /\ ~mfa'.is_enabled
    BY <1>0, <1>7 DEF DisableMfa, MfaSecret
  <2>2. QED
    BY <1>0, <1>7, <2>1, MfaWriteIInv DEF DisableMfa, EnabledSecretWasProved, TypeOK
<1>8. ASSUME NEW s \in Secrets, SetupMfa(h, s) PROVE AuthIInv'
  <2>1. mfa' \in MfaSecret /\ ~mfa'.is_enabled
    BY <1>8 DEF SetupMfa, MfaSecret
  <2>2. QED
    BY <1>0, <1>8, <2>1, MfaWriteIInv DEF SetupMfa, EnabledSecretWasProved, TypeOK
<1>9. QED
  BY <1>1, <1>2, <1>3, <1>4, <1>5, <1>6, <1>7, <1>8 DEF Begin

LEMMA ContinueIInv ==
  ASSUME AuthIInv, NEW h \in Requests, Continue(h)
  PROVE  AuthIInv'
<1> USE DEF AuthIInv
<1>0. /\ registered \in BOOLEAN /\ faults \in 0..MaxFaults /\ signIns \in 0..MaxSignIns
      /\ sessions \subseteq Token /\ mfa \in MfaSecret /\ proved \subseteq Secrets
      /\ requests[h] \in Request /\ MaxSignIns \in Nat
  BY AuthAssumption DEF TypeOK
<1>1. ASSUME SignIn(h), UNCHANGED <<now, faults, mfaVars>>, registered' \in BOOLEAN, ~Signing(h),
             requests[h].steady => requests[h].code = mfa.secret
      PROVE  AuthIInv'
  BY <1>0, <1>1, SignIInv DEF SignIn
<1>2. ASSUME CreateUser(h) PROVE AuthIInv'
  BY <1>0, <1>1, <1>2, RefuseIInv DEF CreateUser, Signing, LoginsAreSteady
<1>3. ASSUME CheckMfa(h) PROVE AuthIInv'
  <2>1. CASE ~mfa.is_enabled
    BY <1>0, <1>1, <1>3, <2>1 DEF CheckMfa, Signing, LoginsAreSteady
  <2>2. CASE mfa.is_enabled /\ requests[h].code = "none"
    BY <1>0, <1>3, <2>2, RefuseIInv DEF CheckMfa
  <2>3. CASE mfa.is_enabled /\ requests[h].code # "none"
    <3>1. WellPlaced([requests[h] EXCEPT !.at = "verify"], proved)
      BY <1>0, <2>3 DEF WellPlaced, Request, TokensAreSigned
    <3>2. QED
      BY <1>0, <1>3, <2>3, <3>1, MoveIInv DEF CheckMfa, mfaVars
  <2>4. QED
    BY <1>0, <2>1, <2>2, <2>3 DEF MfaSecret
<1>4. ASSUME VerifyMfa(h) PROVE AuthIInv'
  BY <1>0, <1>1, <1>4, RefuseIInv DEF VerifyMfa, Signing
<1>5. ASSUME CreateSession(h) PROVE AuthIInv'
  BY <1>5, CreateSessionIInv
<1>6. ASSUME SignNext(h) PROVE AuthIInv'
  BY <1>0, <1>6, SignIInv DEF SignNext, Signing, LoginsAreSteady
<1>7. ASSUME DeleteOldSession(h) PROVE AuthIInv'
  BY <1>7, DeleteOldSessionIInv
<1>8. ASSUME DeleteSession(h) PROVE AuthIInv'
  <2>1. requests[h].token \in Token /\ requests[h].token \in issued
    BY <1>0, <1>8 DEF DeleteSession, Request, TokensAreSigned
  <2>2. QED
    <3> DEFINE gone == {requests[h].token}
    <3>1. gone \in SUBSET Token /\ gone \subseteq issued
      BY <2>1
    <3>2. sessions' = sessions \ gone /\ ended' = ended \cup gone
          /\ requests' = [requests EXCEPT ![h] = Idle]
          /\ UNCHANGED <<now, registered, faults, mfaVars, issued, signed, signIns, raced>>
      BY <1>8 DEF DeleteSession, Goto
    <3> HIDE DEF gone
    <3>3. QED
      BY <3>1, <3>2, EndIInv
<1>9. ASSUME DeleteAllUserSessions(h) PROVE AuthIInv'
  <2>1. requests[h].found \subseteq Token /\ requests[h].found \subseteq issued
    BY <1>0 DEF Request, TokensAreSigned
  <2>2. QED
    BY <1>9, <2>1, EndIInv DEF DeleteAllUserSessions, Goto
<1>10. ASSUME WriteEnabled(h) PROVE AuthIInv'
  <2>1. /\ mfa' \in MfaSecret /\ mfa'.secret = mfa.secret
        /\ requests[h].code \in proved /\ swapped \in BOOLEAN /\ generated \subseteq Secrets
    BY <1>0, <1>10 DEF WriteEnabled, MfaSecret, LoginsAreSteady, TypeOK
  <2>2. swapped' \in BOOLEAN
    BY <1>10, <2>1 DEF WriteEnabled
  <2>3. mfa.secret \in proved \/ swapped'
    BY <1>10, <2>1 DEF WriteEnabled
  <2>4. EnabledSecretWasProved'
    BY <1>10, <2>1, <2>3 DEF WriteEnabled, EnabledSecretWasProved
  <2>5. QED
    BY <1>10, <2>1, <2>2, <2>4, MfaWriteIInv DEF WriteEnabled
<1>11. QED
  BY <1>2, <1>3, <1>4, <1>5, <1>6, <1>7, <1>8, <1>9, <1>10 DEF Continue

LEMMA NextIInv == AuthIInv /\ [Next]_vars => AuthIInv'
<1> SUFFICES ASSUME AuthIInv, [Next]_vars PROVE AuthIInv'
  OBVIOUS
<1>1. ASSUME NEW h \in Requests, Begin(h) \/ Continue(h) PROVE AuthIInv'
  BY <1>1, BeginIInv, ContinueIInv
<1>2. ASSUME NEW h \in Requests, Abort(h) PROVE AuthIInv'
  BY <1>2, RefuseIInv, AuthAssumption DEF Abort, Refuse, AuthIInv, TypeOK
<1>3. ASSUME NEW t \in Token, Expire(t) PROVE AuthIInv'
  <2> DEFINE gone == {t}
  <2>1. gone \in SUBSET Token
    BY <1>3
  <2>2. /\ sessions' = sessions \ gone /\ ended' = ended /\ requests' = requests
        /\ UNCHANGED <<now, registered, faults, mfaVars, issued, signed, signIns, raced>>
    BY <1>3 DEF Expire
  <2> HIDE DEF gone
  <2>3. QED
    BY <2>1, <2>2, EndIInv
<1>4. ASSUME Tick PROVE AuthIInv'
  <2>1. now' \in Token
    BY <1>4, AuthAssumption DEF Tick, Token, AuthIInv, TypeOK
  <2>2. QED
    BY <1>4, <2>1 DEF Tick, sessionVars, mfaVars, AuthIInv, TypeOK, TokensAreSigned, Signing,
                      LoginsAreSteady, SessionsArePaidFor, Storing, EndedStaysEnded,
                      EnabledSecretWasProved, MfaProtectsLogin
<1>5. CASE UNCHANGED vars
  BY <1>5 DEF vars, sessionVars, mfaVars, AuthIInv, TypeOK, TokensAreSigned, Signing,
              LoginsAreSteady, SessionsArePaidFor, Storing, EndedStaysEnded,
              EnabledSecretWasProved, MfaProtectsLogin
<1>6. QED
  BY <1>1, <1>2, <1>3, <1>4, <1>5 DEF Next

(* The strengthened invariant holds for any number of requests, secrets and *)
(* seconds.                                                                 *)
THEOREM AuthInvariant == Spec => []AuthIInv
BY InitIInv, NextIInv, PTL DEF Spec

(* Every session, and every one about to be stored, descends from a sign-in *)
(* or from an exchange that raced, however many requests there are.         *)
THEOREM SessionsNeverMultiply == Spec => []SessionsDoNotMultiply
<1>1. AuthIInv => SessionsDoNotMultiply
  BY DEF AuthIInv, SessionsDoNotMultiply, SessionsArePaidFor, Storing
<1>2. QED
  BY <1>1, AuthInvariant, PTL

(* A session that was ended does not come back unless its token was signed  *)
(* twice within one second.                                                 *)
THEOREM SessionsStayEnded == Spec => []EndedStaysEnded
<1>1. AuthIInv => EndedStaysEnded
  BY DEF AuthIInv
<1>2. QED
  BY <1>1, AuthInvariant, PTL

(* MFA is enabled with a secret the user has shown a code of, unless it was *)
(* replaced while enableMFA ran.                                            *)
THEOREM EnabledSecretsAreProved == Spec => []EnabledSecretWasProved
<1>1. AuthIInv => EnabledSecretWasProved
  BY DEF AuthIInv
<1>2. QED
  BY <1>1, AuthInvariant, PTL

(* A login MFA is on for from start to end has shown a code of the secret.  *)
THEOREM LoginsAreProtected == Spec => []MfaProtectsLogin
<1>1. AuthIInv => MfaProtectsLogin
  BY DEF AuthIInv
<1>2. QED
  BY <1>1, AuthInvariant, PTL

-----------------------------------------------------------------------------
(***************************************************************************)
(* Storefront: the single refresh and those that wait for it, the stored   *)
(* tokens, calls that are carried out once and the list shown.             *)
(*                                                                         *)
(* A token being exchanged is the one stored unless somebody has stored or *)
(* cleared tokens since (RefreshIsStored); a write that may still be sent  *)
(* again has not run (WritesWait); and while the only fetch is under way,  *)
(* it asks for what the filter says (FetchFollowsFilter).                  *)
(***************************************************************************)

RefreshIsStored == refreshing # 0 => crossed \/ refresh = refreshing

\* A write is sent again only after a 401, of a server that has not done it.
WritesWait ==
  \A c \in Calls : ~IsIdempotentMethod(calls[c].kind) =>
    /\ calls[c].at # "sleeping"
    /\ calls[c].at \in {"sent", "waiting"} => calls[c].ran = 0

FetchFollowsFilter ==
  overlapped \/ unfetched \/
    \A c \in Calls : calls[c].kind = "list" /\ calls[c].at # "idle" => calls[c].for = filter

StorefrontIInv ==
  /\ WaitersHaveARefresh /\ RefreshIsStored /\ TokensAgree
  /\ WritesWait /\ WritesRunOnce
  /\ FetchFollowsFilter /\ ListAnswersTheFilter

\* The parts that speak of tokens, of writes and of the list.
TokensIInv == RefreshIsStored /\ TokensAgree
WritesIInv == WritesWait /\ WritesRunOnce
ListIInv == FetchFollowsFilter /\ ListAnswersTheFilter

Arguments == Queries \cup {"none"}
Waits == \E c \in Calls : calls[c].at = "waiting"

-----------------------------------------------------------------------------

LEMMA CallsTyped ==
  /\ NoCall \in Call(Arguments) /\ NoCall.at = "idle" /\ NoCall.kind = "me" /\ NoCall.ran = 0
  /\ \A kind \in Kind, arg \in Arguments :
       /\ Fresh(kind, arg) \in Call(Arguments)
       /\ Fresh(kind, arg).at = "sent" /\ Fresh(kind, arg).kind = kind
       /\ Fresh(kind, arg).for = arg /\ Fresh(kind, arg).ran = 0
<1>1. ASSUME NEW kind \in Kind, NEW arg \in Arguments
      PROVE  /\ Fresh(kind, arg) \in Call(Arguments)
             /\ Fresh(kind, arg).at = "sent" /\ Fresh(kind, arg).kind = kind
             /\ Fresh(kind, arg).for = arg /\ Fresh(kind, arg).ran = 0
  BY ApiClientAssumption DEF Fresh, Call
<1>2. "me" \in Kind /\ "none" \in Arguments
  BY DEF Kind, Arguments
<1>3. NoCall \in Call(Arguments) /\ NoCall.at = "idle" /\ NoCall.kind = "me" /\ NoCall.ran = 0
  BY <1>1, <1>2 DEF NoCall, Call, Fresh
<1>4. QED
  BY <1>1, <1>3

LEMMA InitStorefront == StorefrontInit => StorefrontIInv
<1> SUFFICES ASSUME StorefrontInit PROVE StorefrontIInv
  OBVIOUS
<1>1. \A c \in Calls : calls[c] = NoCall
  BY DEF StorefrontInit, ClientInit
<1>2. StorefrontTypeOK
  <2>1. calls \in [Calls -> Call(Queries \cup {"none"})]
    BY CallsTyped DEF StorefrontInit, ClientInit, Arguments
  <2>2. 0 \in 0..MaxLogins /\ 0 \in 0..MaxCalls /\ 0 \in 0..MaxReloads
    <3>1. MaxReloads \in Nat
      BY StorefrontAssumption
    <3>2. QED
      BY <3>1, ApiClientAssumption
  <2>3. "" \in Queries
    BY StorefrontAssumption
  <2>4. QED
    BY <2>1, <2>2, <2>3 DEF StorefrontInit, ClientInit, StorefrontTypeOK
<1>3. WaitersHaveARefresh /\ RefreshIsStored /\ TokensAgree
  BY <1>1, <1>2, CallsTyped DEF StorefrontInit, ClientInit, WaitersHaveARefresh, RefreshIsStored, TokensAgree
<1>4. WritesWait /\ WritesRunOnce
  BY <1>1, CallsTyped DEF WritesWait, WritesRunOnce
<1>5. FetchFollowsFilter /\ ListAnswersTheFilter
  BY DEF StorefrontInit, FetchFollowsFilter, ListAnswersTheFilter
<1>6. QED
  BY <1>3, <1>4, <1>5 DEF StorefrontIInv

-----------------------------------------------------------------------------
(* One call changes: what that means for those that wait, for writes and    *)
(* for the list.                                                            *)

\* A write stays well: it does not sleep, has not run while it may be sent.
WellBehaved(call) ==
  IsIdempotentMethod(call.kind) \/
    /\ call.at # "sleeping" /\ call.ran < 2
    /\ call.at \in {"sent", "waiting"} => call.ran = 0

LEMMA WritesAreWellBehaved == WritesIInv <=> \A c \in Calls : WellBehaved(calls[c])
BY DEF WritesIInv, WritesWait, WritesRunOnce, WellBehaved

LEMMA CallChanges ==
  ASSUME WritesIInv, calls \in [Calls -> Call(Arguments)],
         NEW c \in Calls, NEW call \in Call(Arguments), WellBehaved(call),
         calls' = [calls EXCEPT ![c] = call]
  PROVE  WritesIInv' /\ calls' \in [Calls -> Call(Arguments)]
<1>1. \A d \in Calls : WellBehaved(calls'[d])
  BY WritesAreWellBehaved
<1>2. WritesIInv'
  BY <1>1 DEF WritesIInv, WritesWait, WritesRunOnce, WellBehaved
<1>3. QED
  BY <1>2

\* A call that goes on, with the list and the filter as they are.
LEMMA ListWaitsOn ==
  ASSUME ListIInv, calls \in [Calls -> Call(Arguments)],
         NEW c \in Calls, NEW call \in Call(Arguments),
         calls' = [calls EXCEPT ![c] = call],
         call.kind = calls[c].kind, call.for = calls[c].for,
         call.kind = "list" => calls[c].at # "idle" /\ call.at # "idle",
         UNCHANGED <<filter, listed, error, overlapped, unfetched>>
  PROVE  ListIInv'
<1>1. \A d \in Calls : /\ calls'[d].kind = calls[d].kind /\ calls'[d].for = calls[d].for
                       /\ calls[d].kind = "list" => (calls'[d].at = "idle" <=> calls[d].at = "idle")
  OBVIOUS
<1>2. QED
  BY <1>1 DEF ListIInv, FetchFollowsFilter, ListAnswersTheFilter, InProgress

\* A call that is no fetch begins or ends.
LEMMA ListIgnoresOthers ==
  ASSUME ListIInv, calls \in [Calls -> Call(Arguments)],
         NEW c \in Calls, NEW call \in Call(Arguments),
         calls' = [calls EXCEPT ![c] = call],
         calls[c].kind # "list" \/ calls[c].at = "idle", call.kind # "list",
         UNCHANGED <<filter, listed, error, overlapped, unfetched>>
  PROVE  ListIInv'
<1>1. \A d \in Calls : calls'[d].kind = "list" /\ calls'[d].at # "idle"
                         <=> calls[d].kind = "list" /\ calls[d].at # "idle"
  OBVIOUS
<1>2. \A d \in Calls : calls'[d].kind = "list" => calls'[d].for = calls[d].for
  OBVIOUS
<1>3. QED
  BY <1>1, <1>2 DEF ListIInv, FetchFollowsFilter, ListAnswersTheFilter, InProgress

-----------------------------------------------------------------------------
(* What is left of a step besides the call it is about.                     *)

ScalarsTyped ==
  /\ access \in 0..MaxLogins /\ refresh \in 0..MaxLogins /\ refreshing \in 0..MaxLogins
  /\ logins \in 0..MaxLogins /\ made \in 0..MaxCalls /\ crossed \in BOOLEAN
  /\ filter \in Queries
  /\ listed \in [q : Queries \cup {"none"}, some : BOOLEAN]
  /\ cached \in BOOLEAN /\ loading \in BOOLEAN /\ error \in BOOLEAN
  /\ overlapped \in BOOLEAN /\ unfetched \in BOOLEAN
  /\ reloads \in 0..MaxReloads

LEMMA Parts ==
  StorefrontIInv <=>
    /\ ScalarsTyped /\ calls \in [Calls -> Call(Arguments)]
    /\ refreshing # 0 <=> Waits
    /\ TokensIInv /\ WritesIInv /\ ListIInv
BY DEF StorefrontIInv, WaitersHaveARefresh, StorefrontTypeOK, ScalarsTyped, Arguments, Waits,
       TokensIInv, WritesIInv, ListIInv

LEMMA PartsNext ==
  ASSUME ScalarsTyped', calls' \in [Calls -> Call(Arguments)], (refreshing # 0 <=> Waits)',
         TokensIInv', WritesIInv', ListIInv'
  PROVE  StorefrontIInv'
BY DEF StorefrontIInv, WaitersHaveARefresh, StorefrontTypeOK, ScalarsTyped, Arguments, Waits,
       TokensIInv, WritesIInv, ListIInv

LEMMA TokensStay ==
  ASSUME TokensIInv, UNCHANGED <<access, refresh, refreshing, crossed>>
  PROVE  TokensIInv'
BY DEF TokensIInv, RefreshIsStored, TokensAgree

LEMMA TokensAreStored ==
  ASSUME ScalarsTyped, NEW token \in 0..MaxLogins, Store(token)
  PROVE  TokensIInv' /\ crossed' \in BOOLEAN /\ access' = token /\ refresh' = token
BY DEF TokensIInv, RefreshIsStored, TokensAgree, Store

\* One call changes that neither waited nor waits now.
LEMMA OneCall ==
  ASSUME StorefrontIInv, NEW c \in Calls, NEW call \in Call(Arguments),
         calls' = [calls EXCEPT ![c] = call], WellBehaved(call),
         call.at # "waiting", calls[c].at # "waiting", refreshing' = refreshing,
         ScalarsTyped', TokensIInv', ListIInv'
  PROVE  StorefrontIInv'
<1>1. WritesIInv' /\ calls' \in [Calls -> Call(Arguments)]
  BY Parts, CallChanges
<1>2. Waits' <=> Waits
  <2>1. \A d \in Calls : calls'[d].at = "waiting" <=> calls[d].at = "waiting"
    BY Parts
  <2>2. QED
    BY <2>1 DEF Waits
<1>3. QED
  BY <1>1, <1>2, Parts, PartsNext

LEMMA IdleIsWellBehaved == WellBehaved(NoCall)
BY CallsTyped DEF WellBehaved, IsIdempotentMethod

LEMMA SendIsWellBehaved ==
  ASSUME NEW kind \in Kind, NEW arg \in Arguments
  PROVE  WellBehaved(Fresh(kind, arg))
BY CallsTyped DEF WellBehaved

-----------------------------------------------------------------------------
(* Calls that begin.                                                        *)

LEMMA FetchIInv ==
  ASSUME StorefrontIInv, NEW c \in Calls, filter' \in Queries, Fetch(c)
  PROVE  StorefrontIInv'
<1> DEFINE call == Fresh("list", filter')
<1>1. /\ ScalarsTyped /\ calls \in [Calls -> Call(Arguments)]
      /\ TokensIInv /\ WritesIInv /\ ListIInv
  BY Parts
<1>2. "list" \in Kind /\ filter' \in Arguments
  BY DEF Kind, Arguments
<1>3. call \in Call(Arguments) /\ call.at = "sent" /\ call.kind = "list" /\ call.for = filter'
  BY <1>2, CallsTyped
<1>4. calls[c] = NoCall /\ calls' = [calls EXCEPT ![c] = call] /\ UNCHANGED tokenVars
  BY DEF Fetch, Send
<1>5. ScalarsTyped'
  <2>1. overlapped' \in BOOLEAN /\ unfetched' \in BOOLEAN /\ loading' \in BOOLEAN /\ error' \in BOOLEAN
    BY DEF Fetch, InProgress
  <2>2. made' \in 0..MaxCalls /\ UNCHANGED <<tokenVars, listed, cached, reloads>>
    BY <1>1, ApiClientAssumption DEF Fetch, Send, ScalarsTyped
  <2>3. QED
    BY <1>1, <2>1, <2>2 DEF ScalarsTyped, tokenVars
<1>6. TokensIInv'
  BY <1>1, <1>4, TokensStay DEF tokenVars
<1>7. ListIInv'
  <2>1. calls'[c].kind = "list" /\ calls'[c].at = "sent" /\ calls'[c].for = filter'
    BY <1>1, <1>3, <1>4
  <2>2. ListAnswersTheFilter'
    BY <2>1 DEF ListAnswersTheFilter, InProgress
  <2>3. ASSUME ~overlapped', NEW d \in Calls, calls'[d].kind = "list", calls'[d].at # "idle"
        PROVE  calls'[d].for = filter'
    <3>1. ~(calls[d].at # "idle" /\ calls[d].kind = "list")
      BY <2>3 DEF Fetch, InProgress
    <3>2. d = c
      BY <1>1, <1>4, <2>3, <3>1
    <3>3. QED
      BY <2>1, <3>2
  <2>4. QED
    BY <2>2, <2>3 DEF ListIInv, FetchFollowsFilter
<1> HIDE DEF call
<1>8. WellBehaved(call)
  BY <1>2, SendIsWellBehaved DEF call
<1>9. QED
  BY <1>3, <1>4, <1>5, <1>6, <1>7, <1>8, OneCall, CallsTyped DEF tokenVars

LEMMA IssueIInv ==
  ASSUME StorefrontIInv, NEW c \in Calls, NEW kind \in {"me", "order", "login", "logout"},
         Issue(c, kind)
  PROVE  StorefrontIInv'
<1> DEFINE call == Fresh(kind, "none")
<1>1. /\ ScalarsTyped /\ calls \in [Calls -> Call(Arguments)]
      /\ TokensIInv /\ WritesIInv /\ ListIInv
  BY Parts
<1>2. kind \in Kind /\ kind # "list" /\ "none" \in Arguments
  BY DEF Kind, Arguments
<1>3. call \in Call(Arguments) /\ call.at = "sent" /\ call.kind = kind
  BY <1>2, CallsTyped
<1>4. calls[c] = NoCall /\ calls' = [calls EXCEPT ![c] = call] /\ UNCHANGED <<tokenVars, listVars>>
  BY DEF Issue, Send
<1>5. ScalarsTyped'
  BY <1>1, ApiClientAssumption DEF Issue, Send, tokenVars, listVars, ScalarsTyped
<1>6. TokensIInv'
  BY <1>1, <1>4, TokensStay DEF tokenVars
<1> HIDE DEF call
<1>7. WellBehaved(call)
  BY <1>2, SendIsWellBehaved DEF call
<1>8. ListIInv'
  BY <1>1, <1>2, <1>3, <1>4, ListIgnoresOthers, CallsTyped DEF listVars
<1>9. QED
  BY <1>3, <1>4, <1>5, <1>6, <1>7, <1>8, OneCall, CallsTyped DEF tokenVars

-----------------------------------------------------------------------------
(* Answers.                                                                 *)

LEMMA ResolveIInv ==
  ASSUME StorefrontIInv, NEW c \in Calls, Resolve(c), refreshing' = refreshing,
         ScalarsTyped', TokensIInv', ListIInv'
  PROVE  StorefrontIInv'
BY OneCall, CallsTyped, IdleIsWellBehaved DEF Resolve

LEMMA ArriveIInv ==
  ASSUME StorefrontIInv, NEW c \in Calls,
         ProductsArrive(c) \/ LoggedIn(c) \/ LoggedOut(c) \/ Arrives(c)
  PROVE  StorefrontIInv'
<1>1. /\ ScalarsTyped /\ calls \in [Calls -> Call(Arguments)]
      /\ TokensIInv /\ WritesIInv /\ ListIInv
  BY Parts
<1>2. calls[c] \in Call(Arguments)
  BY <1>1
<1>3. ASSUME Resolve(c), calls[c].kind # "list", UNCHANGED listVars PROVE ListIInv'
  BY <1>1, <1>3, ListIgnoresOthers, CallsTyped DEF Resolve, listVars
<1>4. ASSUME ProductsArrive(c) PROVE StorefrontIInv'
  <2>1. Resolve(c) /\ UNCHANGED <<tokenVars, filter, error, overlapped, unfetched, reloads>>
    BY <1>4 DEF ProductsArrive
  <2>2. calls[c].kind = "list" /\ calls[c].at = "sent" /\ listed'.q = calls[c].for
    BY <1>4 DEF ProductsArrive, Resolve
  <2>3. TokensIInv'
    BY <1>1, <2>1, TokensStay DEF tokenVars
  <2>4. ScalarsTyped'
    <3>1. calls[c].for \in Queries \cup {"none"}
      BY <1>2 DEF Call, Arguments
    <3>2. listed' \in [q : Queries \cup {"none"}, some : BOOLEAN]
      BY <1>4, <3>1 DEF ProductsArrive
    <3>3. QED
      BY <1>1, <1>4, <2>1, <3>2 DEF ProductsArrive, Resolve, tokenVars, ScalarsTyped
  <2>5. FetchFollowsFilter'
    <3>1. \A d \in Calls : calls'[d].kind = "list" /\ calls'[d].at # "idle" =>
            calls'[d] = calls[d]
      BY <1>1, <2>1, CallsTyped DEF Resolve
    <3>2. QED
      BY <1>1, <2>1, <3>1 DEF ListIInv, FetchFollowsFilter
  <2>6. ListAnswersTheFilter'
    BY <1>1, <2>1, <2>2 DEF ListIInv, FetchFollowsFilter, ListAnswersTheFilter
  <2>7. QED
    BY <2>1, <2>3, <2>4, <2>5, <2>6, ResolveIInv DEF ListIInv, tokenVars
<1>5. ASSUME LoggedIn(c) PROVE StorefrontIInv'
  <2>1. logins + 1 \in 0..MaxLogins /\ logins' = logins + 1
    BY <1>1, <1>5, ApiClientAssumption DEF LoggedIn, ScalarsTyped
  <2>2. /\ TokensIInv' /\ crossed' \in BOOLEAN /\ refreshing' = refreshing
        /\ access' \in 0..MaxLogins /\ refresh' \in 0..MaxLogins
    <3>1. CASE Store(logins + 1)
      BY <1>1, <2>1, <3>1, TokensAreStored DEF Store
    <3>2. CASE StoreSingly(logins + 1)
      BY <1>1, <2>1, <3>2 DEF StoreSingly, ScalarsTyped, TokensIInv, RefreshIsStored, TokensAgree
    <3>3. CASE UNCHANGED <<access, refresh, refreshing, crossed>>
      BY <1>1, <3>3, TokensStay DEF ScalarsTyped
    <3>4. QED
      BY <1>5, <3>1, <3>2, <3>3 DEF LoggedIn
  <2>3. ScalarsTyped'
    BY <1>1, <1>5, <2>1, <2>2 DEF LoggedIn, Resolve, listVars, ScalarsTyped
  <2>4. QED
    BY <1>3, <1>5, <2>2, <2>3, ResolveIInv DEF LoggedIn
<1>6. ASSUME LoggedOut(c) PROVE StorefrontIInv'
  <2>1. TokensIInv' /\ crossed' \in BOOLEAN /\ access' = 0 /\ refresh' = 0 /\ 0 \in 0..MaxLogins
        /\ refreshing' = refreshing
    BY <1>1, <1>6, TokensAreStored, ApiClientAssumption DEF LoggedOut, ClearTokens, Store
  <2>2. ScalarsTyped'
    BY <1>1, <1>6, <2>1 DEF LoggedOut, Resolve, listVars, ScalarsTyped
  <2>3. QED
    BY <1>3, <1>6, <2>1, <2>2, ResolveIInv DEF LoggedOut
<1>7. ASSUME Arrives(c) PROVE StorefrontIInv'
  <2>1. TokensIInv'
    BY <1>1, <1>7, TokensStay DEF Arrives, tokenVars
  <2>2. ScalarsTyped'
    BY <1>1, <1>7 DEF Arrives, Resolve, tokenVars, listVars, ScalarsTyped
  <2>3. QED
    BY <1>3, <1>7, <2>1, <2>2, ResolveIInv DEF Arrives, tokenVars
<1>8. QED
  BY <1>4, <1>5, <1>6, <1>7

-----------------------------------------------------------------------------
(* Failures, retries, and what waits for the refresh.                       *)

LEMMA FailIInv ==
  ASSUME StorefrontIInv, NEW c \in Calls,
         (Fails(c) \/ Wake(c)) /\ UNCHANGED listVars
  PROVE  StorefrontIInv'
<1>1. /\ ScalarsTyped /\ calls \in [Calls -> Call(Arguments)]
      /\ TokensIInv /\ WritesIInv /\ ListIInv /\ calls[c] \in Call(Arguments)
  BY Parts
<1>2. UNCHANGED <<tokenVars, made, listVars>>
  BY DEF Fails, Wake
<1>3. ScalarsTyped' /\ TokensIInv'
  BY <1>1, <1>2, TokensStay DEF tokenVars, listVars, ScalarsTyped
<1>4. WellBehaved(calls[c])
  BY <1>1, WritesAreWellBehaved
<1>5. PICK call \in Call(Arguments) :
        /\ calls' = [calls EXCEPT ![c] = call] /\ WellBehaved(call)
        /\ call.kind = calls[c].kind /\ call.for = calls[c].for
        /\ call.at \in {"sleeping", "failed", "sent"} /\ calls[c].at \in {"sent", "sleeping"}
  <2>1. CASE Wake(c)
    <3> DEFINE woken == [calls[c] EXCEPT !.at = "sent"]
    <3>1. woken \in Call(Arguments) /\ woken.kind = calls[c].kind /\ woken.for = calls[c].for
          /\ woken.at = "sent" /\ woken.ran = calls[c].ran
      BY <1>1 DEF Call
    <3>2. calls' = [calls EXCEPT ![c] = woken] /\ calls[c].at = "sleeping"
      BY <1>1, <2>1 DEF Wake
    <3>3. IsIdempotentMethod(woken.kind)
      BY <1>4, <3>1, <3>2 DEF WellBehaved
    <3> HIDE DEF woken
    <3>4. QED
      BY <3>1, <3>2, <3>3 DEF WellBehaved
  <2>2. CASE Fails(c)
    <3>1. calls[c].at = "sent"
      BY <2>2 DEF Fails
    <3>2. PICK known \in {calls[c], RunIt(calls[c])} :
            IF IsIdempotentMethod(calls[c].kind) /\ calls[c].retryCount < Retries
            THEN calls' = [calls EXCEPT ![c] = [known EXCEPT !.at = "sleeping", !.retryCount = @ + 1]]
            ELSE calls' = [calls EXCEPT ![c] = [known EXCEPT !.at = "failed"]]
      BY <2>2 DEF Fails
    <3>3. /\ known \in Call(Arguments) /\ known.kind = calls[c].kind /\ known.for = calls[c].for
          /\ known.retryCount = calls[c].retryCount
          /\ calls[c].ran = 0 => known.ran < 2
      BY <1>1, <3>2 DEF RunIt, Call
    <3>4. CASE IsIdempotentMethod(calls[c].kind) /\ calls[c].retryCount < Retries
      <4> DEFINE call == [known EXCEPT !.at = "sleeping", !.retryCount = @ + 1]
      <4>1. calls[c].retryCount + 1 \in 0..Retries
        BY <1>1, <3>4, ApiClientAssumption DEF Call
      <4>2. call \in Call(Arguments) /\ call.kind = calls[c].kind /\ call.for = calls[c].for
            /\ call.at = "sleeping"
        BY <3>3, <4>1 DEF Call
      <4>3. calls' = [calls EXCEPT ![c] = call]
        BY <3>2, <3>4
      <4> HIDE DEF call
      <4>4. QED
        BY <3>1, <3>4, <4>2, <4>3 DEF WellBehaved
    <3>5. CASE ~(IsIdempotentMethod(calls[c].kind) /\ calls[c].retryCount < Retries)
      <4> DEFINE call == [known EXCEPT !.at = "failed"]
      <4>1. call \in Call(Arguments) /\ call.kind = calls[c].kind /\ call.for = calls[c].for
            /\ call.at = "failed" /\ call.ran = known.ran
        BY <3>3 DEF Call
      <4>2. calls' = [calls EXCEPT ![c] = call]
        BY <3>2, <3>5
      <4>3. IsIdempotentMethod(call.kind) \/ call.ran < 2
        BY <1>4, <3>1, <3>3, <4>1 DEF WellBehaved
      <4> HIDE DEF call
      <4>4. QED
        BY <3>1, <4>1, <4>2, <4>3 DEF WellBehaved
    <3>6. QED
      BY <3>4, <3>5
  <2>3. QED
    BY <2>1, <2>2
<1>6. ListIInv'
  BY <1>1, <1>2, <1>5, ListWaitsOn DEF listVars
<1>7. QED
  BY <1>2, <1>3, <1>5, <1>6, OneCall DEF tokenVars

LEMMA UnauthorizedIInv ==
  ASSUME StorefrontIInv, NEW c \in Calls, Unauthorized(c), UNCHANGED listVars
  PROVE  StorefrontIInv'
<1>1. /\ ScalarsTyped /\ calls \in [Calls -> Call(Arguments)]
      /\ TokensIInv /\ WritesIInv /\ ListIInv /\ calls[c] \in Call(Arguments)
      /\ refreshing # 0 <=> Waits
  BY Parts
<1>2. calls[c].at = "sent" /\ made' = made /\ WellBehaved(calls[c])
  BY <1>1, WritesAreWellBehaved DEF Unauthorized
<1> DEFINE Gone(at, retry) == [calls[c] EXCEPT !.at = at, !.isRetry = retry]
<1>3. ASSUME NEW at \in {"failed", "waiting"}, NEW retry \in BOOLEAN
      PROVE  /\ Gone(at, retry) \in Call(Arguments) /\ WellBehaved(Gone(at, retry))
             /\ Gone(at, retry).kind = calls[c].kind /\ Gone(at, retry).for = calls[c].for
             /\ Gone(at, retry).at = at
  <2>1. /\ Gone(at, retry) \in Call(Arguments)
        /\ Gone(at, retry).kind = calls[c].kind /\ Gone(at, retry).for = calls[c].for
        /\ Gone(at, retry).at = at /\ Gone(at, retry).ran = calls[c].ran
    BY <1>1 DEF Call
  <2> HIDE DEF Gone
  <2>2. QED
    BY <1>2, <2>1 DEF WellBehaved
<1>4. CASE calls[c].isRetry
  <2>1. calls' = [calls EXCEPT ![c] = Gone("failed", TRUE)] /\ UNCHANGED tokenVars
    BY <1>1, <1>4 DEF Unauthorized, Reject, Call
  <2> HIDE DEF Gone
  <2>2. ScalarsTyped' /\ TokensIInv'
    BY <1>1, <1>2, <2>1, TokensStay DEF tokenVars, listVars, ScalarsTyped
  <2>3. ListIInv'
    BY <1>1, <1>2, <1>3, <2>1, ListWaitsOn DEF listVars
  <2>4. QED
    BY <1>2, <1>3, <2>1, <2>2, <2>3, OneCall DEF tokenVars
<1>5. CASE ~calls[c].isRetry /\ refreshing = 0 /\ refresh = 0
  <2>1. calls' = [calls EXCEPT ![c] = Gone("failed", TRUE)] /\ ClearTokens /\ logins' = logins
    BY <1>5 DEF Unauthorized
  <2> HIDE DEF Gone
  <2>2. TokensIInv' /\ crossed' \in BOOLEAN /\ access' = 0 /\ refresh' = 0 /\ 0 \in 0..MaxLogins
        /\ refreshing' = refreshing
    BY <1>1, <2>1, TokensAreStored, ApiClientAssumption DEF ClearTokens, Store
  <2>3. ScalarsTyped'
    BY <1>1, <1>2, <2>1, <2>2 DEF listVars, ScalarsTyped
  <2>4. ListIInv'
    BY <1>1, <1>2, <1>3, <2>1, ListWaitsOn DEF listVars
  <2>5. QED
    BY <1>2, <1>3, <2>1, <2>2, <2>3, <2>4, OneCall
<1>6. CASE ~calls[c].isRetry /\ (refreshing # 0 \/ refresh # 0)
  <2>1. /\ calls' = [calls EXCEPT ![c] = Gone("waiting", TRUE)]
        /\ refreshing' = IF refreshing = 0 THEN refresh ELSE refreshing
        /\ UNCHANGED <<access, refresh, logins, crossed>>
    BY <1>6 DEF Unauthorized
  <2> HIDE DEF Gone
  <2>2. refreshing' # 0 /\ Waits'
    BY <1>1, <1>3, <1>6, <2>1 DEF Waits
  <2>3. ScalarsTyped' /\ TokensIInv'
    BY <1>1, <1>2, <2>1 DEF listVars, ScalarsTyped, TokensIInv, RefreshIsStored, TokensAgree
  <2>4. ListIInv'
    BY <1>1, <1>2, <1>3, <2>1, ListWaitsOn DEF listVars
  <2>5. WritesIInv' /\ calls' \in [Calls -> Call(Arguments)]
    BY <1>1, <1>3, <2>1, CallChanges
  <2>6. QED
    BY <2>2, <2>3, <2>4, <2>5, PartsNext
<1>7. QED
  BY <1>4, <1>5, <1>6 DEF Unauthorized

LEMMA HandleFailureIInv ==
  ASSUME StorefrontIInv, NEW c \in Calls, HandleFailure(c)
  PROVE  StorefrontIInv'
<1>1. /\ ScalarsTyped /\ calls \in [Calls -> Call(Arguments)]
      /\ TokensIInv /\ WritesIInv /\ ListIInv /\ calls[c] \in Call(Arguments)
  BY Parts
<1>2. /\ calls[c].at = "failed" /\ calls' = [calls EXCEPT ![c] = NoCall]
      /\ UNCHANGED <<logins, made, filter, listed, cached, overlapped, unfetched, reloads>>
  BY DEF HandleFailure
<1>3. /\ TokensIInv' /\ refreshing' = refreshing /\ crossed' \in BOOLEAN
      /\ access' \in 0..MaxLogins /\ refresh' \in 0..MaxLogins
  <2>1. CASE calls[c].kind \in {"me", "logout"}
    BY <1>1, <2>1, TokensAreStored, ApiClientAssumption DEF HandleFailure, ClearTokens, Store
  <2>2. CASE calls[c].kind \notin {"me", "logout"}
    BY <1>1, <2>2, TokensStay DEF HandleFailure, ScalarsTyped
  <2>3. QED
    BY <2>1, <2>2
<1>4. loading' \in BOOLEAN /\ error' \in BOOLEAN /\ (error => error')
  BY <1>1 DEF HandleFailure, StopLoading, ScalarsTyped
<1>5. ScalarsTyped'
  BY <1>1, <1>2, <1>3, <1>4 DEF ScalarsTyped
<1>6. ListIInv'
  <2>1. CASE calls[c].kind # "list"
    <3>1. error' = error
      BY <2>1 DEF HandleFailure
    <3>2. QED
      BY <1>1, <1>2, <2>1, <3>1, CallsTyped, ListIgnoresOthers
  <2>2. CASE calls[c].kind = "list"
    <3>1. error' = TRUE
      BY <2>2 DEF HandleFailure, StopLoading
    <3>2. \A d \in Calls : calls'[d].kind = "list" /\ calls'[d].at # "idle" => calls'[d] = calls[d]
      BY <1>1, <1>2, CallsTyped
    <3>3. QED
      BY <1>1, <1>2, <3>1, <3>2 DEF ListIInv, FetchFollowsFilter, ListAnswersTheFilter
  <2>3. QED
    BY <2>1, <2>2
<1>7. QED
  BY <1>2, <1>3, <1>5, <1>6, OneCall, CallsTyped, IdleIsWellBehaved

LEMMA AnswerRefreshIInv ==
  ASSUME StorefrontIInv, AnswerRefresh
  PROVE  StorefrontIInv'
<1>1. /\ ScalarsTyped /\ calls \in [Calls -> Call(Arguments)]
      /\ TokensIInv /\ WritesIInv /\ ListIInv
  BY Parts
<1>2. PICK at \in {"sent", "failed"} : Release(at)
  BY DEF AnswerRefresh, Refreshed, RefreshedWithNothing, RefreshFails
<1>3. UNCHANGED <<listVars, logins, made>> /\ refreshing # 0 /\ refreshing' = 0
  BY DEF AnswerRefresh, Refreshed, RefreshedWithNothing, RefreshFails
<1>4. TokensIInv' /\ access' \in 0..MaxLogins /\ refresh' \in 0..MaxLogins /\ crossed' \in BOOLEAN
  <2>1. CASE Refreshed
    BY <1>1, <2>1 DEF Refreshed, ScalarsTyped, TokensIInv, RefreshIsStored, TokensAgree
  <2>2. CASE RefreshedWithNothing
    BY <1>1, <2>2 DEF RefreshedWithNothing, ScalarsTyped, TokensIInv, RefreshIsStored, TokensAgree
  <2>3. CASE RefreshFails
    <3>1. access' = 0 /\ refresh' = 0 /\ crossed' = FALSE /\ 0 \in 0..MaxLogins
      BY <2>3, ApiClientAssumption DEF RefreshFails
    <3>2. QED
      BY <1>3, <3>1 DEF TokensIInv, RefreshIsStored, TokensAgree
  <2>4. QED
    BY <2>1, <2>2, <2>3 DEF AnswerRefresh
<1>5. ScalarsTyped'
  BY <1>1, <1>3, <1>4, ApiClientAssumption DEF listVars, ScalarsTyped
<1>6. ASSUME NEW d \in Calls
      PROVE  /\ calls'[d] \in Call(Arguments)
             /\ calls'[d].at = IF calls[d].at = "waiting" THEN at ELSE calls[d].at
             /\ calls'[d].kind = calls[d].kind /\ calls'[d].for = calls[d].for
             /\ calls'[d].ran = calls[d].ran
  BY <1>1, <1>2 DEF Release, Call
<1>7. calls' \in [Calls -> Call(Arguments)] /\ ~Waits'
  BY <1>2, <1>6 DEF Release, Waits
<1>8. WritesIInv'
  BY <1>1, <1>6 DEF WritesIInv, WritesWait, WritesRunOnce
<1>9. ListIInv'
  BY <1>1, <1>3, <1>6 DEF listVars, ListIInv, FetchFollowsFilter, ListAnswersTheFilter, InProgress
<1>10. QED
  BY <1>3, <1>4, <1>5, <1>7, <1>8, <1>9, PartsNext

LEMMA ReloadIInv ==
  ASSUME StorefrontIInv, Reload
  PROVE  StorefrontIInv'
<1>1. ScalarsTyped /\ TokensIInv
  BY Parts
<1>2. ScalarsTyped'
  <2>1. "" \in Queries
    BY StorefrontAssumption
  <2>2. reloads' \in 0..MaxReloads
    <3>1. MaxReloads \in Nat
      BY StorefrontAssumption
    <3>2. reloads \in 0..MaxReloads /\ reloads < MaxReloads /\ reloads' = reloads + 1
      BY <1>1 DEF Reload, ScalarsTyped
    <3>3. QED
      BY <3>1, <3>2
  <2>3. 0 \in 0..MaxLogins
    BY ApiClientAssumption
  <2>4. QED
    BY <1>1, <2>1, <2>2, <2>3 DEF Reload, ScalarsTyped
<1>3. TokensIInv'
  BY <1>1 DEF Reload, TokensIInv, RefreshIsStored, TokensAgree
<1>4. calls' = [c \in Calls |-> NoCall] /\ refreshing' = 0 /\ unfetched' = TRUE
  BY DEF Reload
<1>5. calls' \in [Calls -> Call(Arguments)] /\ ~Waits' /\ WritesIInv'
  BY <1>4, CallsTyped DEF Waits, WritesIInv, WritesWait, WritesRunOnce
<1>6. ListIInv'
  BY <1>4 DEF ListIInv, FetchFollowsFilter, ListAnswersTheFilter
<1>7. QED
  BY <1>2, <1>3, <1>4, <1>5, <1>6, PartsNext

LEMMA ListVariablesIInv ==
  ASSUME StorefrontIInv, UNCHANGED <<clientVars, listed, error, overlapped, reloads>>,
         filter' \in Queries, unfetched' \in BOOLEAN, cached' \in BOOLEAN, loading' \in BOOLEAN,
         unfetched' \/ UNCHANGED <<filter, unfetched>>
  PROVE  StorefrontIInv'
<1>1. /\ ScalarsTyped /\ calls \in [Calls -> Call(Arguments)]
      /\ TokensIInv /\ WritesIInv /\ ListIInv /\ (refreshing # 0 <=> Waits)
  BY Parts
<1>2. ScalarsTyped' /\ calls' \in [Calls -> Call(Arguments)]
  BY <1>1 DEF clientVars, tokenVars, ScalarsTyped
<1>3. TokensIInv' /\ WritesIInv' /\ (refreshing # 0 <=> Waits)'
  BY <1>1 DEF clientVars, tokenVars, TokensIInv, RefreshIsStored, TokensAgree,
              WritesIInv, WritesWait, WritesRunOnce, Waits
<1>4. ListIInv'
  BY <1>1 DEF clientVars, ListIInv, FetchFollowsFilter, ListAnswersTheFilter, InProgress
<1>5. QED
  BY <1>2, <1>3, <1>4, PartsNext

LEMMA NextStorefront == StorefrontIInv /\ [StorefrontNext]_storefrontVars => StorefrontIInv'
<1> SUFFICES ASSUME StorefrontIInv, [StorefrontNext]_storefrontVars PROVE StorefrontIInv'
  OBVIOUS
<1>1. ScalarsTyped
  BY Parts
<1>2. ASSUME NEW c \in Calls, BeginCall(c) PROVE StorefrontIInv'
  <2>1. CASE FetchProducts(c)
    BY <1>1, <2>1, FetchIInv DEF FetchProducts, ScalarsTyped
  <2>2. ASSUME NEW q \in Queries, SearchProducts(c, q) PROVE StorefrontIInv'
    BY <2>2, FetchIInv DEF SearchProducts
  <2>3. QED
    BY <1>2, <2>1, <2>2, IssueIInv DEF BeginCall
<1>3. ASSUME NEW c \in Calls, Answer(c) PROVE StorefrontIInv'
  BY <1>3, ArriveIInv, UnauthorizedIInv, FailIInv DEF Answer
<1>4. ASSUME NEW c \in Calls, ContinueCall(c) PROVE StorefrontIInv'
  BY <1>4, HandleFailureIInv, FailIInv DEF ContinueCall
<1>5. ASSUME NEW q \in Queries, SetFilter(q) PROVE StorefrontIInv'
  BY <1>1, <1>5, ListVariablesIInv DEF SetFilter, ScalarsTyped
<1>6. ASSUME CacheExpires PROVE StorefrontIInv'
  BY <1>1, <1>6, ListVariablesIInv DEF CacheExpires, ScalarsTyped
<1>7. CASE UNCHANGED storefrontVars
  BY <1>1, <1>7, ListVariablesIInv DEF storefrontVars, listVars, ScalarsTyped
<1>8. QED
  BY <1>2, <1>3, <1>4, <1>5, <1>6, <1>7, AnswerRefreshIInv, ReloadIInv DEF StorefrontNext

-----------------------------------------------------------------------------

\* The strengthened invariant holds for any number of calls, retries and logins.
THEOREM StorefrontInvariant == StorefrontSpec => []StorefrontIInv
<1>1. StorefrontInit => StorefrontIInv
  BY InitStorefront
<1>2. StorefrontIInv /\ [StorefrontNext]_storefrontVars => StorefrontIInv'
  BY NextStorefront
<1>3. QED
  BY <1>1, <1>2, PTL DEF StorefrontSpec

\* A call waits only while there is a refresh to wake it, and there is no second
\* refresh (the response interceptor's isRefreshing and pendingQueue).
THEOREM NobodyWaitsInVain == StorefrontSpec => []WaitersHaveARefresh
<1>1. StorefrontIInv => WaitersHaveARefresh
  BY DEF StorefrontIInv
<1>2. QED
  BY <1>1, StorefrontInvariant, PTL

\* The stored tokens belong together unless a login or logout crossed a refresh.
THEOREM StoredTokensAgree == StorefrontSpec => []TokensAgree
<1>1. StorefrontIInv => TokensAgree
  BY DEF StorefrontIInv
<1>2. QED
  BY <1>1, StorefrontInvariant, PTL

\* No write is carried out twice, however often reads are tried again.
THEOREM WritesAreNotRepeated == StorefrontSpec => []WritesRunOnce
<1>1. StorefrontIInv => WritesRunOnce
  BY DEF StorefrontIInv
<1>2. QED
  BY <1>1, StorefrontInvariant, PTL

\* The list answers the filter unless fetches overlapped, failed or were not made.
THEOREM ListIsOfTheFilter == StorefrontSpec => []ListAnswersTheFilter
<1>1. StorefrontIInv => ListAnswersTheFilter
  BY DEF StorefrontIInv
<1>2. QED
  BY <1>1, StorefrontInvariant, PTL
================================================================================
