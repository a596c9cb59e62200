----------------------------- MODULE SessionsProofs -----------------------------
(***************************************************************************)
(* Proofs about Sessions, for any number of pods, users, logins, secrets   *)
(* and lifetimes.  The inductive invariant Inv says of every pod, login    *)
(* and session what it owes to the last rotation and the last revocation.  *)
(***************************************************************************)
EXTENDS Sessions, TLAPS

USE SessionsAssumption

\* The recorded moments have passed, and no pod is ahead of the cluster.
PastOK ==
  /\ rotatedAt <= now /\ staleUntil <= now
  /\ \A u \in Users : revokedAt[u] <= now
  /\ \A p \in Pods : pod[p].secret <= secret

\* What a handler has found out by its stage, and the flag it may still believe in.
LoginOK(l) ==
  Running(l) =>
    /\ pod[login[l].pod].up
    /\ login[l].stage \in {"verified", "upserted"} =>
         /\ Genuine(login[l].token)
         /\ login[l].verified < login[l].token.exp /\ login[l].verified <= now
    /\ login[l].stage = "upserted" =>
         /\ login[l].verified <= login[l].read /\ login[l].read <= now
         /\ login[l].admin /\ ~isAdmin[login[l].token.sub] =>
              login[l].read <= revokedAt[login[l].token.sub]

\* A session and the secret that signed it.
SignedOK(s) ==
  /\ s.iat <= now
  /\ s.secret <= secret
  /\ s.secret = secret => s.iat >= rotatedAt
  /\ s.secret # secret =>
       \/ \E p \in Pods : pod[p].up /\ pod[p].secret # secret
       \/ s.iat <= staleUntil
       \/ s.iat <= rotatedAt

\* A session, whom it was issued to and the flag it carries.
HeldOK(s) ==
  /\ s.exp = s.iat + IF s.user = Operator THEN MintedLifetime ELSE SessionLifetime
  /\ s.user \in Users =>
       /\ s.token.sub = s.user /\ Genuine(s.token)
       /\ s.verified < s.token.exp /\ s.verified <= s.read /\ s.read <= s.iat
       /\ s.admin /\ ~isAdmin[s.user] => s.read <= revokedAt[s.user]

Inv ==
  /\ TypeOK
  /\ PastOK
  /\ \A l \in Logins : LoginOK(l)
  /\ \A s \in sessions : SignedOK(s)
  /\ \A s \in sessions : HeldOK(s)

-----------------------------------------------------------------------------

LEMMA InitInv == Init => Inv
  BY DEF Init, Inv, TypeOK, PastOK, LoginOK, Time, Login, Answered, Running, Stages

\* The fields of a login that runs.
LoginRecord == [stage : Stages, pod : Pods, token : IdTokens, admin : BOOLEAN,
                verified : Time, read : Time]

LEMMA RunningLogin ==
  ASSUME TypeOK, NEW l \in Logins, Running(l)
  PROVE  login[l] \in LoginRecord
  BY DEF TypeOK, Login, LoginRecord, Answered, Running, Stages

\* The moments of a session, and of a user's the history too.
LEMMA SessionFields ==
  ASSUME NEW s \in Session
  PROVE  /\ s.iat \in Nat /\ s.exp \in Nat /\ s.secret \in Nat
         /\ s.user \in Users =>
              s \in UserSession /\ s.token \in IdTokens /\ s.verified \in Nat /\ s.read \in Nat
<1>1. CASE s \in UserSession
  BY <1>1 DEF UserSession, Time
<1>2. CASE s \in MintedSession
  <2>1. s.user = Operator /\ s.iat \in Nat /\ s.exp \in Nat /\ s.secret \in Nat
    BY <1>2 DEF MintedSession, Time
  <2> QED
    BY <2>1
<1> QED
  BY <1>1, <1>2 DEF Session

\* What is left of Inv to show for a step of one login that issues nothing.
LEMMA LoginStep ==
  ASSUME Inv, OnlyLogins, NEW l \in Logins, NEW r \in Login,
         login' = [login EXCEPT ![l] = r], LoginOK(l)'
  PROVE  Inv'
<1>1. TypeOK'
  BY DEF Inv, TypeOK, OnlyLogins, podVars, userVars
<1>2. PastOK'
  BY DEF Inv, PastOK, OnlyLogins, podVars, userVars
<1>3. ASSUME NEW m \in Logins PROVE LoginOK(m)'
  <2>1. CASE m = l
    BY <2>1
  <2>2. CASE m # l
    <3>1. login'[m] = login[m]
      BY <2>2 DEF Inv, TypeOK
    <3> QED
      BY <3>1 DEF Inv, LoginOK, Running, OnlyLogins, podVars, userVars, Genuine, SignedByGoogle, SigningMethodRSA, Issuers
  <2> QED
    BY <2>1, <2>2
<1>4. \A s \in sessions : SignedOK(s) /\ HeldOK(s)
  BY DEF Inv
<1>5. ASSUME NEW s \in sessions' PROVE SignedOK(s)' /\ HeldOK(s)'
  BY <1>4 DEF OnlyLogins, podVars, userVars, SignedOK, HeldOK, Genuine, SignedByGoogle, SigningMethodRSA, Issuers
<1> QED
  BY <1>1, <1>2, <1>3, <1>5 DEF Inv

\* Logins do not depend on the secret.
LEMMA LoginsKept ==
  ASSUME Inv, UNCHANGED <<login, userVars>>, now' \in Time, now <= now',
         \A p \in Pods : pod[p].up => pod'[p].up
  PROVE  \A l \in Logins : LoginOK(l)'
<1> SUFFICES ASSUME NEW l \in Logins, Running(l) PROVE LoginOK(l)'
  BY DEF LoginOK, Running
<1>1. login[l] \in LoginRecord
  BY RunningLogin DEF Inv
<1>2. LoginOK(l) /\ now \in Nat /\ now' \in Nat
  BY DEF Inv, TypeOK, Time
<1>3. login[l].pod \in Pods /\ login[l].verified \in Nat /\ login[l].read \in Nat
  BY <1>1 DEF LoginRecord, Time
<1> QED
  BY <1>2, <1>3 DEF LoginOK, Running, userVars, Genuine, SignedByGoogle, SigningMethodRSA, Issuers

-----------------------------------------------------------------------------
(* The steps of a login.                                                   *)

LEMMA LoginWithGoogleInv ==
  ASSUME Inv, NEW l \in Logins, NEW p \in Pods, NEW token \in IdTokens, LoginWithGoogle(l, p, token)
  PROVE  Inv'
<1> DEFINE r == [stage |-> "fetching", pod |-> p, token |-> token, admin |-> FALSE,
                 verified |-> 0, read |-> 0]
<1>1. r \in Login
  BY DEF Inv, TypeOK, Login, Stages, Time
<1>2. login'[l] = r /\ pod' = pod /\ now' = now /\ pod[p].up /\ now \in Nat
  BY DEF Inv, TypeOK, LoginWithGoogle, OnlyLogins, podVars, Time
<1>3. LoginOK(l)'
  BY <1>2 DEF LoginOK
<1> QED
  BY <1>1, <1>3, LoginStep DEF LoginWithGoogle

LEMMA EndedLogin ==
  ASSUME Inv, NEW l \in Logins, Answer(l), OnlyLogins
  PROVE  Inv'
<1>1. Answered \in Login
  BY DEF Login
<1>2. LoginOK(l)'
  BY DEF Inv, TypeOK, Answer, LoginOK, Running, Answered, Stages
<1> QED
  BY <1>1, <1>2, LoginStep DEF Answer

LEMMA KeyServerInv ==
  ASSUME Inv, NEW l \in Logins, KeyServer(l)
  PROVE  Inv'
<1>1. CASE NoKey(l)
  BY <1>1, EndedLogin DEF NoKey
<1>2. CASE KeyArrives(l)
  <2> DEFINE r == [login[l] EXCEPT !.stage = "fetched"]
  <2>1. Running(l) /\ login[l] \in LoginRecord
    BY <1>2, RunningLogin DEF Inv, KeyArrives, Running, Stages
  <2>2. r \in Login /\ r.stage = "fetched" /\ r.pod = login[l].pod
    BY <2>1 DEF Login, LoginRecord, Stages
  <2>3. login' = [login EXCEPT ![l] = r] /\ OnlyLogins
    BY <1>2 DEF KeyArrives, Set
  <2>4. login'[l] = r
    BY <2>3 DEF Inv, TypeOK
  <2> HIDE DEF r
  <2>5. LoginOK(l)'
    BY <2>1, <2>2, <2>3, <2>4 DEF Inv, LoginOK, Running, OnlyLogins, podVars
  <2> QED
    BY <2>2, <2>3, <2>5, LoginStep
<1> QED
  BY <1>1, <1>2 DEF KeyServer

LEMMA VerifyInv ==
  ASSUME Inv, NEW l \in Logins, VerifyGoogleIDToken(l)
  PROVE  Inv'
<1>1. CASE ~(Genuine(login[l].token) /\ now < login[l].token.exp)
  BY <1>1, EndedLogin DEF VerifyGoogleIDToken, Refuse
<1>2. CASE Genuine(login[l].token) /\ now < login[l].token.exp
  <2> DEFINE r == [login[l] EXCEPT !.stage = "verified", !.verified = now]
  <2>1. Running(l) /\ login[l] \in LoginRecord
    BY RunningLogin DEF Inv, VerifyGoogleIDToken, Running, Stages
  <2>2. r \in Login /\ r.stage = "verified" /\ r.verified = now
         /\ r.token = login[l].token /\ r.pod = login[l].pod
    BY <2>1 DEF Inv, TypeOK, Login, LoginRecord, Stages
  <2>3. login' = [login EXCEPT ![l] = r] /\ OnlyLogins
    BY <1>2 DEF VerifyGoogleIDToken
  <2>4. login'[l] = r
    BY <2>3 DEF Inv, TypeOK
  <2>5. now \in Nat
    BY DEF Inv, TypeOK, Time
  <2> HIDE DEF r
  <2>6. LoginOK(l)'
    BY <1>2, <2>1, <2>2, <2>3, <2>4, <2>5 DEF Inv, LoginOK, Running, OnlyLogins, podVars, Genuine, SignedByGoogle, SigningMethodRSA, Issuers
  <2> QED
    BY <2>2, <2>3, <2>6, LoginStep
<1> QED
  BY <1>1, <1>2

LEMMA UpsertInv ==
  ASSUME Inv, NEW l \in Logins, UpsertUser(l) \/ UpsertFails(l)
  PROVE  Inv'
<1>1. CASE UpsertFails(l)
  BY <1>1, EndedLogin DEF UpsertFails
<1>2. CASE UpsertUser(l)
  <2> DEFINE r == [login[l] EXCEPT !.stage = "upserted", !.read = now,
                                  !.admin = isAdmin[login[l].token.sub]]
  <2>1. Running(l) /\ login[l] \in LoginRecord
    BY <1>2, RunningLogin DEF Inv, UpsertUser, Running, Stages
  <2>2. /\ r \in Login /\ r.stage = "upserted" /\ r.read = now
         /\ r.admin = isAdmin[login[l].token.sub]
         /\ r.token = login[l].token /\ r.pod = login[l].pod /\ r.verified = login[l].verified
    BY <2>1 DEF Inv, TypeOK, Login, LoginRecord, Stages
  <2>3. login' = [login EXCEPT ![l] = r] /\ OnlyLogins
    BY <1>2 DEF UpsertUser
  <2>4. login'[l] = r
    BY <2>3 DEF Inv, TypeOK
  <2>6. now \in Nat
    BY DEF Inv, TypeOK, Time
  <2> HIDE DEF r
  <2>5. LoginOK(l)'
    BY <1>2, <2>1, <2>2, <2>3, <2>4, <2>6 DEF Inv, UpsertUser, LoginOK, Running, OnlyLogins, podVars, userVars, Genuine, SignedByGoogle, SigningMethodRSA, Issuers
  <2> QED
    BY <2>2, <2>3, <2>5, LoginStep
<1> QED
  BY <1>1, <1>2

LEMMA IssueInv ==
  ASSUME Inv, NEW l \in Logins, IssueJWT(l)
  PROVE  Inv'
<1> DEFINE s0 == [user |-> login[l].token.sub, admin |-> login[l].admin, iat |-> now,
                  exp |-> ExpiryOf(now), secret |-> pod[login[l].pod].secret,
                  token |-> login[l].token, verified |-> login[l].verified, read |-> login[l].read]
<1>1. /\ Running(l)
      /\ login[l] \in LoginRecord
  BY RunningLogin DEF Inv, IssueJWT, Running, Stages
<1>2. /\ UNCHANGED <<now, podVars, userVars>>
      /\ login' = [login EXCEPT ![l] = Answered]
      /\ sessions' = sessions \cup {s0}
  BY DEF IssueJWT, Answer
<1>3. s0 \in UserSession /\ s0 \in Session
  BY <1>1 DEF Inv, TypeOK, LoginRecord, Session, UserSession, ExpiryOf, Time
<1>4. TypeOK'
  BY <1>2, <1>3 DEF Inv, TypeOK, Login, podVars, userVars
<1>5. PastOK'
  BY <1>2 DEF Inv, PastOK, podVars, userVars
<1>6. ASSUME NEW m \in Logins PROVE LoginOK(m)'
  <2>1. CASE m = l
    BY <1>2, <2>1 DEF Inv, TypeOK, LoginOK, Running, Answered, Stages
  <2>2. CASE m # l
    BY <1>2, <2>2 DEF Inv, TypeOK, LoginOK, Running, podVars, userVars, Genuine, SignedByGoogle, SigningMethodRSA, Issuers
  <2> QED
    BY <2>1, <2>2
<1>7. ASSUME NEW s \in sessions' PROVE SignedOK(s)' /\ HeldOK(s)'
  <2>1. CASE s \in sessions
    BY <1>2, <2>1 DEF Inv, SignedOK, HeldOK, podVars, userVars, Genuine, SignedByGoogle, SigningMethodRSA, Issuers
  <2>2. CASE s = s0
    <3>1. /\ pod[login[l].pod].up
          /\ Genuine(login[l].token) /\ login[l].verified < login[l].token.exp
          /\ login[l].verified <= login[l].read /\ login[l].read <= now
          /\ login[l].admin /\ ~isAdmin[login[l].token.sub] =>
               login[l].read <= revokedAt[login[l].token.sub]
      BY <1>1 DEF Inv, LoginOK, IssueJWT
    <3>2. /\ pod[login[l].pod].secret <= secret /\ rotatedAt <= now
          /\ now \in Nat /\ login[l].token.sub \in Users
      BY <1>1 DEF Inv, PastOK, TypeOK, LoginRecord, Time
    <3>3. SignedOK(s0)
      <4>1. login[l].pod \in Pods /\ s0.iat = now /\ s0.secret = pod[login[l].pod].secret
        BY <1>1 DEF LoginRecord
      <4> QED
        BY <3>1, <3>2, <4>1 DEF SignedOK
    <3>4. HeldOK(s0)
      BY <1>1, <2>2, <3>1, <3>2 DEF HeldOK, ExpiryOf
    <3> QED
      BY <1>2, <2>2, <3>3, <3>4 DEF SignedOK, HeldOK, podVars, userVars, Genuine, SignedByGoogle, SigningMethodRSA, Issuers
  <2> QED
    BY <1>2, <2>1, <2>2
<1> QED
  BY <1>4, <1>5, <1>6, <1>7 DEF Inv

-----------------------------------------------------------------------------
(* The steps of Kubernetes, the operator and the clock.                    *)

LEMMA StartPodInv ==
  ASSUME Inv, NEW p \in Pods, StartPod(p)
  PROVE  Inv'
<1> USE DEF StartPod
<1>1. TypeOK'
  BY DEF Inv, TypeOK, userVars
<1>2. PastOK'
  BY DEF Inv, PastOK, TypeOK, userVars
<1>3. \A l \in Logins : LoginOK(l)'
  BY LoginsKept DEF Inv, TypeOK, userVars, Time
<1>4. ASSUME NEW s \in sessions PROVE SignedOK(s)'
  <2>1. \A q \in Pods : pod[q].up /\ pod[q].secret # secret => pod'[q] = pod[q]
    BY DEF Inv, TypeOK
  <2> QED
    BY <2>1 DEF Inv, SignedOK
<1>5. ASSUME NEW s \in sessions PROVE HeldOK(s)'
  BY DEF Inv, HeldOK, userVars, Genuine, SignedByGoogle, SigningMethodRSA, Issuers
<1> QED
  BY <1>1, <1>2, <1>3, <1>4, <1>5 DEF Inv

LEMMA StopPodInv ==
  ASSUME Inv, NEW p \in Pods, StopPod(p)
  PROVE  Inv'
<1> USE DEF StopPod
<1>1. TypeOK'
  BY DEF Inv, TypeOK, userVars, Login
<1>2. PastOK'
  BY DEF Inv, PastOK, TypeOK, userVars, Time
<1>3. ASSUME NEW l \in Logins PROVE LoginOK(l)'
  <2>1. CASE Running(l) /\ login[l].pod = p
    BY <2>1 DEF LoginOK, Running, Answered, Stages
  <2>2. CASE ~Running(l)
    BY <2>2 DEF LoginOK, Running
  <2>3. CASE Running(l) /\ login[l].pod # p
    <3>1. login[l].pod \in Pods
      BY <2>3, RunningLogin DEF Inv, LoginRecord
    <3>2. login'[l] = login[l] /\ pod'[login[l].pod] = pod[login[l].pod]
      BY <2>3, <3>1 DEF Inv, TypeOK
    <3> QED
      BY <3>2 DEF Inv, LoginOK, Running, userVars, Genuine, SignedByGoogle, SigningMethodRSA, Issuers
  <2> QED
    BY <2>1, <2>2, <2>3
<1>4. ASSUME NEW s \in sessions PROVE SignedOK(s)'
  <2>1. /\ \A q \in Pods : q # p => pod'[q] = pod[q]
        /\ pod[p].secret # secret => staleUntil' = now
        /\ pod[p].secret = secret => staleUntil' = staleUntil
    BY DEF Inv, TypeOK
  <2> QED
    BY <2>1 DEF Inv, SignedOK
<1>5. ASSUME NEW s \in sessions PROVE HeldOK(s)'
  BY DEF Inv, HeldOK, userVars, Genuine, SignedByGoogle, SigningMethodRSA, Issuers
<1> QED
  BY <1>1, <1>2, <1>3, <1>4, <1>5 DEF Inv

LEMMA RotateSecretInv ==
  ASSUME Inv, RotateSecret
  PROVE  Inv'
<1> USE DEF RotateSecret
<1>1. TypeOK'
  BY DEF Inv, TypeOK, userVars
<1>2. PastOK'
  BY DEF Inv, PastOK, TypeOK, userVars, Time
<1>3. \A l \in Logins : LoginOK(l)'
  BY LoginsKept DEF Inv, TypeOK, userVars, Time
<1>4. ASSUME NEW s \in sessions PROVE SignedOK(s)'
  <2>1. s.secret \in Nat /\ secret \in Nat
    BY SessionFields DEF Inv, TypeOK
  <2> QED
    BY <2>1 DEF Inv, SignedOK
<1>5. ASSUME NEW s \in sessions PROVE HeldOK(s)'
  BY DEF Inv, HeldOK, userVars, Genuine, SignedByGoogle, SigningMethodRSA, Issuers
<1> QED
  BY <1>1, <1>2, <1>3, <1>4, <1>5 DEF Inv

LEMMA SetAdminInv ==
  ASSUME Inv, NEW u \in Users, NEW value \in BOOLEAN, SetAdmin(u, value)
  PROVE  Inv'
<1> USE DEF SetAdmin
<1>1. TypeOK'
  BY DEF Inv, TypeOK, podVars
<1>2. PastOK'
  BY DEF Inv, PastOK, TypeOK, podVars, Time
\* Whoever lost the flag lost it now or when it was recorded.
<1>3. /\ now \in Nat
      /\ \A v \in Users : revokedAt[v] \in Nat /\ revokedAt'[v] \in Nat /\ revokedAt[v] <= revokedAt'[v]
      /\ \A v \in Users : ~isAdmin'[v] => ~isAdmin[v] \/ revokedAt'[v] = now
  BY DEF Inv, TypeOK, PastOK, Time
<1>4. ASSUME NEW l \in Logins PROVE LoginOK(l)'
  <2>1. CASE ~Running(l)
    BY <2>1 DEF LoginOK, Running
  <2>2. CASE Running(l)
    <3>1. login[l].token.sub \in Users /\ login[l].read \in Nat
      BY <2>2, RunningLogin DEF Inv, LoginRecord, Time
    <3> QED
      BY <1>3, <2>2, <3>1 DEF Inv, LoginOK, Running, podVars, Genuine, SignedByGoogle, SigningMethodRSA, Issuers
  <2> QED
    BY <2>1, <2>2
<1>5. ASSUME NEW s \in sessions PROVE SignedOK(s)'
  BY DEF Inv, SignedOK, podVars
<1>6. ASSUME NEW s \in sessions PROVE HeldOK(s)'
  <2>1. s.iat \in Nat /\ s.iat <= now /\ (s.user \in Users => s.read \in Nat)
    BY SessionFields DEF Inv, TypeOK, SignedOK
  <2> QED
    BY <1>3, <2>1 DEF Inv, HeldOK, Genuine, SignedByGoogle, SigningMethodRSA, Issuers
<1> QED
  BY <1>1, <1>2, <1>4, <1>5, <1>6 DEF Inv

LEMMA MintInv ==
  ASSUME Inv, Mint
  PROVE  Inv'
<1> DEFINE s0 == [user |-> Operator, admin |-> TRUE, iat |-> now,
                  exp |-> now + MintedLifetime, secret |-> secret]
<1> USE DEF Mint
<1>1. s0 \in Session
  BY DEF Inv, TypeOK, Session, MintedSession, Time
<1>2. TypeOK'
  BY <1>1 DEF Inv, TypeOK, podVars, userVars
<1>3. PastOK'
  BY DEF Inv, PastOK, podVars, userVars
<1>4. \A l \in Logins : LoginOK(l)'
  BY LoginsKept DEF Inv, TypeOK, userVars, podVars, Time
<1>5. SignedOK(s0) /\ HeldOK(s0)
  BY DEF Inv, TypeOK, PastOK, SignedOK, HeldOK, Time
<1>6. ASSUME NEW s \in sessions' PROVE SignedOK(s)' /\ HeldOK(s)'
  BY <1>5 DEF Inv, SignedOK, HeldOK, podVars, userVars, Genuine, SignedByGoogle, SigningMethodRSA, Issuers
<1> QED
  BY <1>2, <1>3, <1>4, <1>6 DEF Inv

LEMMA TickInv ==
  ASSUME Inv, Tick
  PROVE  Inv'
<1> USE DEF Tick
<1>1. TypeOK'
  BY DEF Inv, TypeOK, podVars, userVars, Time
<1>2. PastOK'
  BY DEF Inv, PastOK, TypeOK, podVars, userVars, Time
<1>3. \A l \in Logins : LoginOK(l)'
  BY LoginsKept DEF Inv, TypeOK, userVars, podVars, Time
<1>4. ASSUME NEW s \in sessions PROVE SignedOK(s)'
  BY SessionFields DEF Inv, TypeOK, SignedOK, podVars, Time
<1>5. ASSUME NEW s \in sessions PROVE HeldOK(s)'
  BY DEF Inv, HeldOK, userVars, Genuine, SignedByGoogle, SigningMethodRSA, Issuers
<1> QED
  BY <1>1, <1>2, <1>3, <1>4, <1>5 DEF Inv

LEMMA NextInv ==
  ASSUME Inv, [Next]_vars
  PROVE  Inv'
<1>1. CASE UNCHANGED vars
  <2>1. TypeOK'
    BY <1>1 DEF Inv, TypeOK, vars, podVars, userVars
  <2>2. PastOK'
    BY <1>1 DEF Inv, PastOK, vars, podVars, userVars
  <2>3. \A l \in Logins : LoginOK(l)'
    BY <1>1, LoginsKept DEF Inv, TypeOK, vars, podVars, userVars, Time
  <2>4. ASSUME NEW s \in sessions PROVE SignedOK(s)' /\ HeldOK(s)'
    BY <1>1 DEF Inv, SignedOK, HeldOK, vars, podVars, userVars, Genuine, SignedByGoogle, SigningMethodRSA, Issuers
  <2> QED
    BY <1>1, <2>1, <2>2, <2>3, <2>4 DEF Inv, vars
<1>2. CASE \E l \in Logins, p \in Pods, token \in IdTokens : LoginWithGoogle(l, p, token)
  BY <1>2, LoginWithGoogleInv
<1>3. CASE \E l \in Logins : KeyServer(l) \/ Handler(l)
  BY <1>3, KeyServerInv, VerifyInv, UpsertInv, IssueInv DEF Handler
<1>4. CASE \E p \in Pods : StartPod(p) \/ StopPod(p)
  BY <1>4, StartPodInv, StopPodInv
<1>5. CASE RotateSecret
  BY <1>5, RotateSecretInv
<1>6. CASE \E u \in Users, value \in BOOLEAN : SetAdmin(u, value)
  BY <1>6, SetAdminInv
<1>7. CASE Mint
  BY <1>7, MintInv
<1>8. CASE Tick
  BY <1>8, TickInv
<1> QED
  BY <1>1, <1>2, <1>3, <1>4, <1>5, <1>6, <1>7, <1>8 DEF Next

-----------------------------------------------------------------------------

(* The invariant holds in every reachable state.                           *)
THEOREM Invariance == Spec => []Inv
  BY InitInv, NextInv, PTL DEF Spec

(* Every variable keeps its type.                                          *)
THEOREM TypeCorrect == Spec => []TypeOK
  BY Invariance, PTL DEF Inv

(* Whoever has ListUsers (interceptor.go:69) without the flag has it by a  *)
(* login that read the flag (service.go:77) before it was last taken away, *)
(* and for no longer than a session from when that login signed (:83).     *)
THEOREM RevocationIsTimely == Spec => []RevocationTakesEffect
<1>1. Inv => RevocationTakesEffect
  <2> SUFFICES ASSUME Inv, NEW s \in sessions, NEW p \in Pods,
                      s.user \in Users, Serves(p, "ListUsers", s), ~isAdmin[s.user]
               PROVE  s.read <= revokedAt[s.user] /\ now < s.iat + SessionLifetime
    BY DEF RevocationTakesEffect
  <2>1. now \in Nat /\ s.exp \in Nat
    BY SessionFields DEF Inv, TypeOK, Time
  <2>2. s.admin /\ now < s.exp
    BY <2>1 DEF Serves, UnaryAuthInterceptor, publicRPCs, adminRPCs, ValidateJWT, Expired
  <2>3. s.exp = s.iat + SessionLifetime /\ s.read <= revokedAt[s.user]
    BY <2>2 DEF Inv, HeldOK
  <2> QED
    BY <2>2, <2>3
<1> QED
  BY <1>1, Invariance, PTL

(* Once every pod runs with the rotated secret (interceptor.go:94) the     *)
(* sessions before the rotation are over.                                  *)
THEOREM RotationIsFinal == Spec => []RotationEndsOldSessions
<1>1. Inv => RotationEndsOldSessions
  BY DEF Inv, SignedOK, RotationEndsOldSessions, Settled, Serves, UnaryAuthInterceptor,
         publicRPCs, adminRPCs, ValidateJWT, Signed
<1> QED
  BY <1>1, Invariance, PTL

(* A session issued after the last rollout is good on every pod until it   *)
(* expires (auth.go:66-82 against auth.go:40-64).                          *)
THEOREM SessionsSurviveRestarts == Spec => []FreshSessionsLast
<1>1. Inv => FreshSessionsLast
  <2> SUFFICES ASSUME Inv, Settled, NEW s \in sessions, NEW p \in Pods,
                      pod[p].up, s.iat > rotatedAt, s.iat > staleUntil,
                      now < s.iat + IF s.user = Operator THEN MintedLifetime ELSE SessionLifetime
               PROVE  Serves(p, "GetCurrentUser", s)
    BY DEF FreshSessionsLast
  <2>1. s.iat \in Nat /\ rotatedAt \in Nat /\ staleUntil \in Nat /\ now \in Nat
    BY SessionFields DEF Inv, TypeOK, Time
  <2>2. s.secret = secret /\ pod[p].secret = secret
    BY <2>1 DEF Inv, SignedOK, Settled
  <2>3. ~(now >= s.exp)
    BY <2>1 DEF Inv, HeldOK
  <2> QED
    BY <2>2, <2>3 DEF Serves, UnaryAuthInterceptor, publicRPCs, adminRPCs, ValidateJWT, Signed, Expired
<1> QED
  BY <1>1, Invariance, PTL

(* No session of a user without an ID token of that user which Google      *)
(* signed, issued to this client and had not ended when it was checked     *)
(* (auth.go:92-164), before the flag was read and the session signed.      *)
THEOREM IdentityIsGoogles == Spec => []SessionsHaveAnIdentity
<1>1. Inv => SessionsHaveAnIdentity
  BY DEF Inv, HeldOK, SessionsHaveAnIdentity, Genuine, SignedByGoogle, SigningMethodRSA, Issuers
<1> QED
  BY <1>1, Invariance, PTL
===============================================================================
