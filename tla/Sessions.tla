-------------------------------- MODULE Sessions --------------------------------
(***************************************************************************)
(* Sessions over time: who may do what with a JWT that was issued earlier, *)
(* by another pod, under another secret or with a flag that has changed.   *)
(*                                                                         *)
(* The pods of the server read JWT_SECRET from their environment, which    *)
(* Kubernetes fills from the secret when it starts them.  A login fetches  *)
(* Google's keys, verifies the ID token, reads the flag is_admin with the  *)
(* user's row and signs a JWT; an operator changes the flag, rotates the   *)
(* secret and mints tokens.  Google, Kubernetes and psql are external.     *)
(* What a login does to the table is AuthService's subject.                *)
(*                                                                         *)
(* Nothing limits how long a login takes: the key server may be silent for *)
(* ever, and a client on the gRPC port waits as long as it likes.  So a    *)
(* session carries along, for the properties alone, which ID token it goes *)
(* back to (`token`), when that one was found valid (`verified`) and when  *)
(* the flag was read (`read`).                                             *)
(***************************************************************************)
EXTENDS Integers, FiniteSets

CONSTANTS Pods, Users, Logins,
          IdTokens,        \* the ID tokens the server is sent
          ClientID,        \* GOOGLE_CLIENT_ID, or Skip for the empty string
          Skip,
          Operator,        \* the user id "admin" of a minted token
          SessionLifetime, MintedLifetime,
          MaxTime, MaxRotations, MaxSessions    \* bounds

ASSUME SessionsAssumption ==
  /\ {SessionLifetime, MintedLifetime, MaxTime, MaxRotations, MaxSessions} \subseteq Nat
  /\ \A token \in IdTokens : token.sub \in Users /\ token.exp \in Nat
  /\ Operator \notin Users

VARIABLES now,
          secret,        \* how often the cluster's jwt-secret was rotated
          rotatedAt,     \* when it was rotated last
          pod,           \* of each pod: whether it runs, and the secret of its environment
          staleUntil,    \* when the last pod with an older secret stopped
          isAdmin,       \* the column of users
          revokedAt,     \* of each user: when the flag was last taken away
          login,         \* of each login: its progress
          sessions       \* the JWTs somebody holds

podVars == <<secret, rotatedAt, pod, staleUntil>>
userVars == <<isAdmin, revokedAt>>
vars == <<now, podVars, userVars, login, sessions>>

Time == 0 .. MaxTime
UserSession == [user : Users, admin : BOOLEAN, iat : Time, exp : Nat, secret : 0 .. MaxRotations,
                token : IdTokens, verified : Time, read : Time]
MintedSession == [user : {Operator}, admin : {TRUE}, iat : Time, exp : Nat, secret : 0 .. MaxRotations]
Session == UserSession \cup MintedSession

\* A slot for logins: one runs in a handler, or the last is over.
Answered == [stage |-> "answered"]
Stages == {"fetching", "fetched", "verified", "upserted"}
Login == {Answered}
           \cup [stage : Stages, pod : Pods, token : IdTokens, admin : BOOLEAN,
                 verified : Time, read : Time]
Running(l) == login[l].stage \in Stages

Init ==
  /\ now = 0
  /\ secret = 0
  /\ rotatedAt = 0
  /\ \E first \in Pods : pod = [p \in Pods |-> [up |-> p = first, secret |-> 0]]
  /\ staleUntil = 0
  /\ isAdmin \in [Users -> BOOLEAN]
  /\ revokedAt = [u \in Users |-> 0]
  /\ login = [l \in Logins |-> Answered]
  /\ sessions = {}

-----------------------------------------------------------------------------
(* The interceptor.  It keeps no state: what it answers is a function of   *)
(* the request, the environment of the pod and the time.                   *)

publicRPCs == {"LoginWithGoogle", "Echo", "Check"}
adminRPCs == {"ListUsers"}

\* jwt.WithExpirationRequired, and the mutant that does not look at the claim.
Expired_Never(s) == FALSE
Expired(s) == now >= s.exp

\* The signature, and the mutant that honours the secrets before as well.
Signed_OrOlder(p, s) == s.secret <= pod[p].secret
Signed(p, s) == s.secret = pod[p].secret

ValidateJWT(p, s) == Signed(p, s) /\ ~Expired(s)

\* The answer of pod p to a request with the Bearer token s.
UnaryAuthInterceptor(p, rpc, s) ==
  CASE rpc \in publicRPCs -> "handled"
    [] rpc \notin publicRPCs /\ ~ValidateJWT(p, s) -> "Unauthenticated"
    [] rpc \in adminRPCs /\ ValidateJWT(p, s) /\ ~s.admin -> "PermissionDenied"
    [] OTHER -> "handled"

Serves(p, rpc, s) == pod[p].up /\ UnaryAuthInterceptor(p, rpc, s) = "handled"

-----------------------------------------------------------------------------
(* A login, on one pod.                                                    *)

MayHoldMore == Cardinality(sessions) < MaxSessions
Set(l, stage) == login' = [login EXCEPT ![l].stage = stage]
Answer(l) == login' = [login EXCEPT ![l] = Answered]
OnlyLogins == UNCHANGED <<now, podVars, userVars, sessions>>

\* fetchRSAKey begins: http.Get, for this login alone.
LoginWithGoogle(l, p, token) ==
  /\ ~Running(l)
  /\ MayHoldMore
  /\ pod[p].up
  /\ login' = [login EXCEPT ![l] = [stage |-> "fetching", pod |-> p, token |-> token,
                                     admin |-> FALSE, verified |-> 0, read |-> 0]]
  /\ OnlyLogins

\* Google answers, whenever it likes.
KeyArrives(l) ==
  /\ login[l].stage = "fetching"
  /\ Set(l, "fetched")
  /\ OnlyLogins

\* The connection fails, or what came is no JWKS or one without the key: Unauthenticated.
NoKey(l) ==
  /\ login[l].stage = "fetching"
  /\ Answer(l)
  /\ OnlyLogins

\* The checks of VerifyGoogleIDToken once it has the key: any *jwt.SigningMethodRSA,
\* Google's signature, issuer, audience.  The mutants forget the audience, and fetch
\* the keys again when a check fails.
SigningMethodRSA == {"RS256", "RS384", "RS512"}
Issuers == {"accounts.google.com", "https://accounts.google.com"}

SignedByGoogle(token) == token.alg \in SigningMethodRSA /\ token.signer = "Google"

Genuine_AnyClient(token) == SignedByGoogle(token) /\ token.iss \in Issuers
Genuine(token) ==
  /\ SignedByGoogle(token)
  /\ token.iss \in Issuers
  /\ ClientID = Skip \/ ClientID \in token.aud

Refuse_Refetch(l) == Set(l, "fetching")
Refuse(l) == Answer(l)          \* Unauthenticated

\* A token without the claim exp has ended at 0: WithExpirationRequired.
VerifyGoogleIDToken(l) ==
  /\ login[l].stage = "fetched"
  /\ IF Genuine(login[l].token) /\ now < login[l].token.exp
     THEN login' = [login EXCEPT ![l].stage = "verified", ![l].verified = now]
     ELSE Refuse(l)
  /\ OnlyLogins

\* The row, as it was when the SELECT read it.
UpsertUser(l) ==
  /\ login[l].stage = "verified"
  /\ login' = [login EXCEPT ![l].stage = "upserted", ![l].read = now,
                              ![l].admin = isAdmin[login[l].token.sub]]
  /\ OnlyLogins

UpsertFails(l) ==
  /\ login[l].stage = "verified"
  /\ Answer(l)        \* Internal
  /\ OnlyLogins

\* iat plus the lifetime of a session, and the mutants that forget the lifetime or exp.
ExpiryOf_Now(t) == t
ExpiryOf_Missing(t) == -1
ExpiryOf(t) == t + SessionLifetime

IssueJWT(l) ==
  /\ login[l].stage = "upserted"
  /\ LET s == [user |-> login[l].token.sub, admin |-> login[l].admin, iat |-> now,
               exp |-> ExpiryOf(now), secret |-> pod[login[l].pod].secret,
               token |-> login[l].token, verified |-> login[l].verified, read |-> login[l].read]
     IN  sessions' = sessions \cup {s}
  /\ Answer(l)        \* OK
  /\ UNCHANGED <<now, podVars, userVars>>

KeyServer(l) == KeyArrives(l) \/ NoKey(l)
Handler(l) == VerifyGoogleIDToken(l) \/ UpsertUser(l) \/ UpsertFails(l) \/ IssueJWT(l)

-----------------------------------------------------------------------------
(* Kubernetes, the operator and the clock.                                 *)

StartPod(p) ==
  /\ ~pod[p].up
  /\ pod' = [pod EXCEPT ![p] = [up |-> TRUE, secret |-> secret]]
  /\ UNCHANGED <<now, secret, rotatedAt, staleUntil, userVars, login, sessions>>

\* The handlers of the pod end with it.
StopPod(p) ==
  /\ pod[p].up
  /\ pod' = [pod EXCEPT ![p].up = FALSE]
  /\ staleUntil' = IF pod[p].secret # secret THEN now ELSE staleUntil
  /\ login' = [l \in Logins |->
                 IF Running(l) /\ login[l].pod = p THEN Answered ELSE login[l]]
  /\ UNCHANGED <<now, secret, rotatedAt, userVars, sessions>>

RotateSecret ==
  /\ secret < MaxRotations
  /\ secret' = secret + 1
  /\ rotatedAt' = now
  /\ UNCHANGED <<now, pod, staleUntil, userVars, login, sessions>>

SetAdmin(u, value) ==
  /\ isAdmin[u] # value
  /\ isAdmin' = [isAdmin EXCEPT ![u] = value]
  /\ revokedAt' = IF value THEN revokedAt ELSE [revokedAt EXCEPT ![u] = now]
  /\ UNCHANGED <<now, podVars, login, sessions>>

\* mint-cluster-token.sh
Mint ==
  /\ MayHoldMore
  /\ sessions' = sessions \cup {[user |-> Operator, admin |-> TRUE, iat |-> now,
                                 exp |-> now + MintedLifetime, secret |-> secret]}
  /\ UNCHANGED <<now, podVars, userVars, login>>

Tick ==
  /\ now < MaxTime
  /\ now' = now + 1
  /\ UNCHANGED <<podVars, userVars, login, sessions>>

Next ==
  \/ \E l \in Logins, p \in Pods, token \in IdTokens : LoginWithGoogle(l, p, token)
  \/ \E l \in Logins : KeyServer(l) \/ Handler(l)
  \/ \E p \in Pods : StartPod(p) \/ StopPod(p)
  \/ RotateSecret
  \/ \E u \in Users, value \in BOOLEAN : SetAdmin(u, value)
  \/ Mint
  \/ Tick

(* A handler runs on while its pod does, with the statements of the        *)
(* database answered or failed.  Of the key server nothing is assumed:     *)
(* http.Get has no limit of its own and does not know the call's context.  *)
Fairness == \A l \in Logins : WF_vars(Handler(l))

Spec == Init /\ [][Next]_vars /\ Fairness

-----------------------------------------------------------------------------
(* Properties.                                                             *)

TypeOK ==
  /\ now \in Time
  /\ secret \in 0 .. MaxRotations
  /\ rotatedAt \in Time
  /\ pod \in [Pods -> [up : BOOLEAN, secret : 0 .. MaxRotations]]
  /\ staleUntil \in Time
  /\ isAdmin \in [Users -> BOOLEAN]
  /\ revokedAt \in [Users -> Time]
  /\ login \in [Logins -> Login]
  /\ sessions \subseteq Session

(* The interceptor believes the flag in the JWT.  It bounds what that can  *)
(* cost: whoever has no flag has ListUsers only by a login that read the   *)
(* flag before it was last taken away, and for one lifetime from when that *)
(* login signed, however often the flag came and went.  When no such login *)
(* is under way any more, one lifetime ends it on every pod.  How long a   *)
(* login may take between the two is bounded by nothing in the code.       *)
RevocationTakesEffect ==
  \A s \in sessions, p \in Pods :
    s.user \in Users /\ Serves(p, "ListUsers", s) /\ ~isAdmin[s.user]
      => s.read <= revokedAt[s.user] /\ now < s.iat + SessionLifetime

\* Every pod that runs was started with the current secret.
Settled == \A p \in Pods : pod[p].up => pod[p].secret = secret

(* A rotation ends the sessions before it, once the pods were replaced:    *)
(* k8s/README.md:145 says "rotating it invalidates every active session",  *)
(* which a pod that still runs with the old secret does not.               *)
RotationEndsOldSessions ==
  Settled => \A s \in sessions, p \in Pods : Serves(p, "GetCurrentUser", s) => s.iat >= rotatedAt

(* Sessions outlive the pods that issued them.  One that is issued after a *)
(* rotation, when the last pod with the old secret is gone, is good on     *)
(* every pod until it expires; those that the old pods hand out during a   *)
(* rollout are the ones that are lost.                                     *)
FreshSessionsLast ==
  Settled =>
    \A s \in sessions, p \in Pods :
      /\ pod[p].up
      /\ s.iat > rotatedAt /\ s.iat > staleUntil
      /\ now < s.iat + IF s.user = Operator THEN MintedLifetime ELSE SessionLifetime
      => Serves(p, "GetCurrentUser", s)

(* A JWT is signed for nobody but the subject of an ID token that Google   *)
(* signed and issued to this client, and that had not ended when it was    *)
(* checked, which is after the keys had come; the flag in the JWT is no    *)
(* older than that check.  The session itself may begin after the ID token *)
(* has ended.                                                              *)
SessionsHaveAnIdentity ==
  \A s \in sessions : s.user \in Users =>
    /\ s.token.sub = s.user /\ s.token.signer = "Google" /\ s.token.iss # "other"
    /\ s.token.alg \notin {"HS256", "none"}
    /\ ClientID = Skip \/ ClientID \in s.token.aud
    /\ s.verified < s.token.exp
    /\ s.verified <= s.read /\ s.read <= s.iat

(* What follows the fetch of the keys is bounded: a login whose keys have  *)
(* come is answered, and never fetches again.                              *)
LoginEndsOnceKeysCame ==
  \A l \in Logins : login[l].stage \in {"fetched", "verified", "upserted"} ~> ~Running(l)
===============================================================================
