--------------------------------- MODULE Auth ---------------------------------
(***************************************************************************)
(* The auth service as one account sees it: registration, login, refresh   *)
(* and logout (AuthService over SessionService and UserService) and        *)
(* multi-factor authentication (MFAService).                               *)
(*                                                                         *)
(* The keys `session:<user>:<token>` of two accounts never meet, so one    *)
(* account stands for all.  A refresh token is a JWT over the user, the    *)
(* type and the second it is signed in, with no identifier of its own: two *)
(* tokens signed in one second are the same string.  A token is therefore  *)
(* modelled by its second, and a session by the token in its key.          *)
(*                                                                         *)
(* A request runs one controller; every `await` of PostgreSQL or Redis is  *)
(* a point where others run.  A refused request (an error thrown by the    *)
(* service) just ends: auth.routes.ts does not await the controllers, so   *)
(* the error never reaches errorHandler and the client is not answered.    *)
(***************************************************************************)
EXTENDS Naturals, FiniteSets

CONSTANTS
  Requests,    \* slots for concurrent requests
  Secrets,     \* what speakeasy.generateSecret can return
  MaxTime,     \* bound on the clock
  MaxSignIns,  \* bound on registrations and logins
  MaxRaces,    \* bound on exchanges that find their session deleted
  MaxFaults    \* bound on failed queries and crashes

ASSUME AuthAssumption ==
  /\ IsFiniteSet(Requests)
  /\ "none" \notin Secrets
  /\ MaxTime \in Nat /\ MaxSignIns \in Nat
  /\ MaxRaces \in Nat /\ MaxFaults \in Nat

VARIABLES
  now,        \* the clock, in seconds
  registered, \* the row of the account in `users`
  mfa,        \* its row in `mfa_secrets`; secret "none" is no row
  sessions,   \* the tokens whose key is in Redis
  issued,     \* the refresh tokens clients were answered with
  requests,   \* the requests in progress
  ended,      \* history: tokens a logout has deleted
  signed,     \* history: how often a token was signed, up to MaxSigned
  signIns,    \* history: registrations and logins that signed a token
  raced,      \* history: exchanges that found their session already deleted
  generated,  \* history: the secrets generateSecret has returned
  proved,     \* history: the secrets enableMFA has verified a code of
  swapped,    \* history: enableMFA enabled another secret than it verified
  faults      \* how many failures have happened

sessionVars == <<sessions, issued, ended, signed, signIns, raced>>
mfaVars == <<mfa, generated, proved, swapped>>
vars == <<now, registered, requests, faults, sessionVars, mfaVars>>

Token == 0..MaxTime
MaxSigned == 2

MfaSecret == [secret : Secrets \cup {"none"}, is_enabled : BOOLEAN]

\* at: the statement the request issues next; token: the refresh token it came
\* with; fresh: the one it has signed; code: the secret its TOTP code is of;
\* found: the keys logoutAll has listed; steady (history): a login since whose
\* start MFA is on and untouched.
Request == [at : {"idle", "insert", "mfa", "verify", "user", "swap", "store",
                  "delete", "deleteAll", "enable"},
            token : Token, fresh : Token, code : Secrets \cup {"none"},
            found : SUBSET Token, steady : BOOLEAN]

Idle == [at |-> "idle", token |-> 0, fresh |-> 0, code |-> "none",
         found |-> {}, steady |-> FALSE]

Init ==
  /\ now = 0
  /\ registered = FALSE
  /\ mfa = [secret |-> "none", is_enabled |-> FALSE]
  /\ sessions = {} /\ issued = {} /\ ended = {}
  /\ requests = [h \in Requests |-> Idle]
  /\ signed = [t \in Token |-> 0]
  /\ signIns = 0 /\ raced = 0
  /\ generated = {} /\ proved = {} /\ swapped = FALSE
  /\ faults = 0

Goto(h, state) == requests' = [requests EXCEPT ![h] = state]
Refuse(h) == Goto(h, Idle)

\* What a write of the MFA row makes of the requests in progress.
Unsettled == [h \in Requests |-> [requests[h] EXCEPT !.steady = FALSE]]

\* generateRefreshToken, and the statement the signed token goes to.
GenerateRefreshToken(h, at) ==
  /\ signed' = [signed EXCEPT ![now] = IF @ = MaxSigned THEN @ ELSE @ + 1]
  /\ Goto(h, [requests[h] EXCEPT !.at = at, !.fresh = now])

SignIn(h) ==
  /\ signIns < MaxSignIns /\ signIns' = signIns + 1
  /\ GenerateRefreshToken(h, "store")
  /\ UNCHANGED <<sessions, issued, ended, raced>>

-----------------------------------------------------------------------------
(* register: the email is looked up, then inserted under its UNIQUE.        *)

Register(h) ==
  /\ requests[h] = Idle
  /\ ~registered
  /\ Goto(h, [Idle EXCEPT !.at = "insert"])
  /\ UNCHANGED <<now, registered, faults, sessionVars, mfaVars>>

CreateUser(h) ==
  /\ requests[h].at = "insert"
  /\ \/ registered /\ Refuse(h) /\ UNCHANGED sessionVars
     \/ ~registered /\ SignIn(h)
  /\ registered' = TRUE
  /\ UNCHANGED <<now, faults, mfaVars>>

(* login, of someone who knows the password, with or without a code.        *)

Login(h, code) ==
  /\ requests[h] = Idle
  /\ registered
  /\ Goto(h, [Idle EXCEPT !.at = "mfa", !.code = code, !.steady = mfa.is_enabled])
  /\ UNCHANGED <<now, registered, faults, sessionVars, mfaVars>>

CheckMfa(h) ==
  /\ requests[h].at = "mfa"
  /\ \/ ~mfa.is_enabled /\ SignIn(h)
     \/ /\ mfa.is_enabled
        /\ IF requests[h].code = "none" THEN Refuse(h)
           ELSE Goto(h, [requests[h] EXCEPT !.at = "verify"])
        /\ UNCHANGED sessionVars
  /\ UNCHANGED <<now, registered, faults, mfaVars>>

\* Mutant: any code will do.
VerifyNothing(h) ==
  /\ requests[h].at = "verify"
  /\ \/ mfa.is_enabled /\ SignIn(h)
     \/ ~mfa.is_enabled /\ Refuse(h) /\ UNCHANGED sessionVars
  /\ UNCHANGED <<now, registered, faults, mfaVars>>

\* verifyMFA reads the row again: a code is refused when MFA was disabled, or
\* the secret replaced, since isMFAEnabled.
VerifyMfa(h) ==
  LET valid == mfa.is_enabled /\ mfa.secret = requests[h].code IN
  /\ requests[h].at = "verify"
  /\ \/ valid /\ SignIn(h)
     \/ ~valid /\ Refuse(h) /\ UNCHANGED sessionVars
  /\ UNCHANGED <<now, registered, faults, mfaVars>>

\* createSession, and the answer with the tokens.
CreateSession(h) ==
  LET t == requests[h].fresh IN
  /\ requests[h].at = "store"
  /\ sessions' = sessions \cup {t}
  /\ issued' = issued \cup {t}
  /\ Goto(h, Idle)
  /\ UNCHANGED <<now, registered, faults, mfaVars, ended, signed, signIns, raced>>

-----------------------------------------------------------------------------
(* refreshTokens: GET the session, SELECT the user, DEL the old session,    *)
(* SETEX the new one.                                                       *)

RefreshTokens(h, t) ==
  /\ requests[h] = Idle
  /\ t \in issued \cap sessions
  /\ Goto(h, [Idle EXCEPT !.at = "user", !.token = t])
  /\ UNCHANGED <<now, registered, faults, sessionVars, mfaVars>>

SignNext(h) ==
  /\ requests[h].at = "user"
  /\ GenerateRefreshToken(h, "swap")
  /\ UNCHANGED <<now, registered, faults, mfaVars, sessions, issued, ended, signIns, raced>>

\* Mutant: refreshSession only creates.
KeepOldSession(h) ==
  /\ requests[h].at = "swap"
  /\ Goto(h, [requests[h] EXCEPT !.at = "store"])
  /\ UNCHANGED <<now, registered, faults, sessionVars, mfaVars>>

\* Mutant: the arguments of refreshSession are swapped.
SwapArguments(h) ==
  LET r == requests[h] IN
  /\ r.at = "swap"
  /\ sessions' = sessions \ {r.fresh}
  /\ r.fresh \notin sessions => raced < MaxRaces
  /\ raced' = IF r.fresh \in sessions THEN raced ELSE raced + 1
  /\ Goto(h, [r EXCEPT !.at = "store", !.fresh = r.token])
  /\ UNCHANGED <<now, registered, faults, mfaVars, issued, ended, signed, signIns>>

DeleteOldSession(h) ==
  LET t == requests[h].token IN
  /\ requests[h].at = "swap"
  /\ sessions' = sessions \ {t}
  /\ t \notin sessions => raced < MaxRaces
  /\ raced' = IF t \in sessions THEN raced ELSE raced + 1
  /\ Goto(h, [requests[h] EXCEPT !.at = "store"])
  /\ UNCHANGED <<now, registered, faults, mfaVars, issued, ended, signed, signIns>>

(* logout deletes the token of the body; without one it deletes the key of  *)
(* the access token, which no session has, and changes nothing.             *)

Logout(h, t) ==
  /\ requests[h] = Idle
  /\ t \in issued
  /\ Goto(h, [Idle EXCEPT !.at = "delete", !.token = t])
  /\ UNCHANGED <<now, registered, faults, sessionVars, mfaVars>>

DeleteSession(h) ==
  /\ requests[h].at = "delete"
  /\ sessions' = sessions \ {requests[h].token}
  /\ ended' = ended \cup {requests[h].token}
  /\ Goto(h, Idle)
  /\ UNCHANGED <<now, registered, faults, mfaVars, issued, signed, signIns, raced>>

(* logoutAll: KEYS session:<user>:*, then one DEL of what it listed.        *)

LogoutAll(h) ==
  /\ requests[h] = Idle
  /\ sessions # {}
  /\ Goto(h, [Idle EXCEPT !.at = "deleteAll", !.found = sessions])
  /\ UNCHANGED <<now, registered, faults, sessionVars, mfaVars>>

DeleteAllUserSessions(h) ==
  /\ requests[h].at = "deleteAll"
  /\ sessions' = sessions \ requests[h].found
  /\ ended' = ended \cup requests[h].found
  /\ Goto(h, Idle)
  /\ UNCHANGED <<now, registered, faults, mfaVars, issued, signed, signIns, raced>>

-----------------------------------------------------------------------------
(* Multi-factor authentication.                                             *)

\* Mutant: the upsert replaces the secret and leaves is_enabled alone.
SetupKeepsEnabled(h, s) ==
  /\ requests[h] = Idle
  /\ registered
  /\ s \notin generated
  /\ mfa' = [mfa EXCEPT !.secret = s]
  /\ generated' = generated \cup {s}
  /\ requests' = Unsettled
  /\ UNCHANGED <<now, registered, faults, sessionVars, proved, swapped>>

\* setupMFA: one upsert, of a secret nobody has seen before.
SetupMfa(h, s) ==
  /\ requests[h] = Idle
  /\ registered
  /\ s \notin generated
  /\ mfa' = [secret |-> s, is_enabled |-> FALSE]
  /\ generated' = generated \cup {s}
  /\ requests' = Unsettled
  /\ UNCHANGED <<now, registered, faults, sessionVars, proved, swapped>>

\* enableMFA verifies a code of the secret it reads (a wrong code is refused) ...
EnableMfa(h) ==
  /\ requests[h] = Idle
  /\ mfa.secret # "none"
  /\ proved' = proved \cup {mfa.secret}
  /\ Goto(h, [Idle EXCEPT !.at = "enable", !.code = mfa.secret])
  /\ UNCHANGED <<now, registered, faults, sessionVars, mfa, generated, swapped>>

\* ... and enables whatever secret is stored when the UPDATE runs.
WriteEnabled(h) ==
  /\ requests[h].at = "enable"
  /\ mfa' = [mfa EXCEPT !.is_enabled = TRUE]
  /\ swapped' = (swapped \/ mfa.secret # requests[h].code)
  /\ requests' = [Unsettled EXCEPT ![h] = Idle]
  /\ UNCHANGED <<now, registered, faults, sessionVars, generated, proved>>

\* disableMFA asks for neither a code nor the password.
DisableMfa(h) ==
  /\ requests[h] = Idle
  /\ mfa.is_enabled
  /\ mfa' = [mfa EXCEPT !.is_enabled = FALSE]
  /\ requests' = Unsettled
  /\ UNCHANGED <<now, registered, faults, sessionVars, generated, proved, swapped>>

-----------------------------------------------------------------------------
(* The surroundings: time and failures.                                     *)

Tick ==
  /\ now < MaxTime /\ now' = now + 1
  /\ UNCHANGED <<registered, requests, faults, sessionVars, mfaVars>>

\* Redis drops a key at the end of its time to live, a day after it was set.
Expire(t) ==
  /\ t \in sessions /\ t < now
  /\ sessions' = sessions \ {t}
  /\ UNCHANGED <<now, registered, requests, faults, mfaVars, issued, ended, signed, signIns, raced>>

\* A query or a command fails, or the process dies under the request.
Abort(h) ==
  /\ faults < MaxFaults /\ faults' = faults + 1
  /\ requests[h] # Idle
  /\ Goto(h, Idle)
  /\ UNCHANGED <<now, registered, sessionVars, mfaVars>>

Begin(h) ==
  \/ Register(h) \/ LogoutAll(h) \/ EnableMfa(h) \/ DisableMfa(h)
  \/ \E code \in generated \cup {"none"} : Login(h, code)
  \/ \E t \in issued : RefreshTokens(h, t) \/ Logout(h, t)
  \/ \E s \in Secrets : SetupMfa(h, s)

Continue(h) ==
  \/ CreateUser(h) \/ CheckMfa(h) \/ VerifyMfa(h) \/ CreateSession(h)
  \/ SignNext(h) \/ DeleteOldSession(h) \/ DeleteSession(h)
  \/ DeleteAllUserSessions(h) \/ WriteEnabled(h)

Next ==
  \/ \E h \in Requests : Begin(h) \/ Continue(h) \/ Abort(h)
  \/ \E t \in Token : Expire(t)
  \/ Tick

Spec == Init /\ [][Next]_vars

-----------------------------------------------------------------------------
(* Properties                                                              *)

\* Every variable has its type.
TypeOK ==
  /\ now \in Token /\ registered \in BOOLEAN /\ mfa \in MfaSecret
  /\ sessions \subseteq Token /\ issued \subseteq Token /\ ended \subseteq Token
  /\ requests \in [Requests -> Request]
  /\ signed \in [Token -> 0..MaxSigned]
  /\ signIns \in 0..MaxSignIns /\ raced \in 0..MaxRaces
  /\ generated \subseteq Secrets /\ proved \subseteq Secrets
  /\ swapped \in BOOLEAN
  /\ faults \in 0..MaxFaults

\* Rotation keeps one session per sign-in: besides the sessions there are, every
\* session about to be stored was paid for by a sign-in, by the session its
\* exchange deleted, or by an exchange that raced with another request for the
\* same session (refreshTokens checks the session two awaits before the DEL).  The
\* variables have their types.
SessionsDoNotMultiply ==
  /\ TypeOK
  /\ Cardinality(sessions) + Cardinality({h \in Requests : requests[h].at = "store"})
       <= signIns + raced

\* A session that logout or logoutAll has deleted does not come back, whatever
\* refresh is under way, unless its token was signed twice within one second.
EndedStaysEnded == \A t \in ended \cap sessions : signed[t] > 1

\* The secret MFA is enabled with is one the user has shown a code of, unless a
\* setup replaced it between the verification and the UPDATE of enableMFA; a user
\* could not log in with any other.
EnabledSecretWasProved == mfa.is_enabled => mfa.secret \in proved \/ swapped

\* With MFA on from its start to its end, a login signs a token only for a code
\* of the stored secret, although the row is read twice.
MfaProtectsLogin ==
  \A h \in Requests :
    requests[h].steady /\ requests[h].at = "store" => requests[h].code = mfa.secret
==============================================================================
