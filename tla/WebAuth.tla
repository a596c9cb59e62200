------------------------------ MODULE WebAuth ------------------------------
(***************************************************************************)
(* The session of the web application (web/src/auth/AuthContext.tsx,       *)
(* AuthBar.tsx, web/src/api/auth.ts) in the tabs of one browser.  The tabs *)
(* share localStorage and nothing else: no tab listens to the writes of    *)
(* another.  A request is in flight from the call of fetch to the callback *)
(* that takes its answer; the server decides somewhere in between.  An     *)
(* action is one turn of a tab's event loop: one callback, one click.      *)
(*                                                                         *)
(* A JWT is a person and a number that tells the JWTs of a person apart.   *)
(* The server is external: it accepts a JWT while it is valid, and any     *)
(* request may fail otherwise (network, 404, 500).                         *)
(***************************************************************************)
EXTENDS Naturals

CONSTANTS
  Tabs,
  Persons,    \* who can sign in with Google in this browser
  EffectRuns, \* how often React runs the effect of a mount: 1, in a
              \* development build under StrictMode 2
  MaxLogins,  \* bound on the sign-ins started
  None        \* null, undefined

ASSUME WebAssumption ==
  /\ EffectRuns \in {1, 2}
  /\ MaxLogins \in Nat
  /\ None \notin Persons

Jwts == [person : Persons, nr : 1 .. MaxLogins]

ASSUME NoneIsNoJwt == None \notin Jwts

VARIABLES
  storage,   \* localStorage[STORAGE_KEY]
  valid,     \* the JWTs the server accepts now
  logins,    \* how many sign-ins were started
  tab,       \* the React state of each tab
  restore,   \* the getCurrentUser requests of the effect, by tab and run
  login      \* the loginWithGoogle requests, by number

vars == <<storage, valid, logins, tab, restore, login>>

Tab == [open : BOOLEAN, user : Persons \cup {None}, jwt : Jwts \cup {None},
        loading : BOOLEAN, sessionExpired : BOOLEAN]

\* State of a request: none, sent, or answered and not yet taken.
Answers == {"sent", "ok", "AuthError", "Error"}


Closed == [open |-> FALSE, user |-> None, jwt |-> None, loading |-> TRUE,
           sessionExpired |-> FALSE]

NoRestore == [jwt |-> None, answer |-> "none"]
NoLogin == [tab |-> None, person |-> None, answer |-> "none"]

Restore == [jwt : Jwts, answer : Answers] \cup {NoRestore}
Login == [tab : Tabs, person : Persons, answer : Answers \ {"AuthError"}] \cup {NoLogin}

Runs == 1 .. EffectRuns

-----------------------------------------------------------------------------
(* A tab.                                                                  *)

\* The requests of the effect, and the mutant without its early return.
Requested_Always(cached) == [r \in Runs |-> [jwt |-> cached, answer |-> "sent"]]
Requested(cached) ==
  [r \in Runs |-> IF cached = None THEN NoRestore
                  ELSE [jwt |-> cached, answer |-> "sent"]]

\* The state a mount begins with.
Mounted(cached) ==
  [open |-> TRUE, user |-> None, jwt |-> None, loading |-> cached # None,
   sessionExpired |-> FALSE]

\* The page is loaded: useState and the effect.
Mount(t) ==
  /\ ~tab[t].open
  /\ tab' = [tab EXCEPT ![t] = Mounted(storage)]
  /\ restore' = [restore EXCEPT ![t] = Requested(storage)]
  /\ UNCHANGED <<storage, valid, logins, login>>

\* The page is closed, or left by a reload: callbacks that have not run never do.
Unload(t) ==
  /\ tab[t].open
  /\ tab' = [tab EXCEPT ![t] = Closed]
  /\ restore' = [restore EXCEPT ![t] = [r \in Runs |-> NoRestore]]
  /\ login' = [n \in DOMAIN login |->
       IF login[n].tab = t THEN NoLogin ELSE login[n]]
  /\ UNCHANGED <<storage, valid, logins>>

\* `.finally(() => setLoading(false))`, and the mutant that has it in `.then`.
LoadingAfter_OnlyOk(answer) == answer # "ok"
LoadingAfter(answer) == FALSE

\* What localStorage holds after the answer to a restore.
StorageAfter(answer) == IF answer = "ok" THEN storage ELSE None

\* The state `.then` or `.catch`, and then `.finally`, leave of k: q is the
\* restore that was answered.
Restored(k, q) ==
  [open |-> k.open,
   user |-> IF q.answer = "ok" THEN q.jwt.person ELSE k.user,
   jwt |-> IF q.answer = "ok" THEN q.jwt ELSE k.jwt,
   loading |-> LoadingAfter(q.answer),
   sessionExpired |-> k.sessionExpired \/ q.answer = "AuthError"]

\* The answer of the run r of the effect is taken.
TakeRestore(t, r) ==
  LET q == restore[t][r] IN
  /\ q.answer \in {"ok", "AuthError", "Error"}
  /\ tab' = [tab EXCEPT ![t] = Restored(tab[t], q)]
  /\ storage' = StorageAfter(q.answer)
  /\ restore' = [restore EXCEPT ![t][r] = NoRestore]
  /\ UNCHANGED <<valid, logins, login>>

\* AuthBar renders the Google button.
ButtonShown_Always(t) == tab[t].open
ButtonShown(t) == tab[t].open /\ ~tab[t].loading /\ tab[t].user = None

\* The person p goes through Google's dialog and handleGoogleSuccess runs.  The
\* button stays, so a second sign-in may start before the first is answered.
ClickSignIn(t, p) ==
  /\ ButtonShown(t)
  /\ logins < MaxLogins
  /\ logins' = logins + 1
  /\ login' = [login EXCEPT ![logins + 1] =
                 [tab |-> t, person |-> p, answer |-> "sent"]]
  /\ UNCHANGED <<storage, valid, tab, restore>>

\* The state signIn leaves, and the mutants that forget a setter.
SignedIn_KeepExpired(k, j) == [k EXCEPT !.jwt = j, !.user = j.person]
SignedIn_KeepJwt(k, j) == [k EXCEPT !.user = j.person, !.sessionExpired = FALSE]
SignedIn(k, j) == [k EXCEPT !.jwt = j, !.user = j.person, !.sessionExpired = FALSE]

\* handleGoogleSuccess goes on: signIn, or the error is only logged.
TakeLogin(n) ==
  LET q == login[n]
      j == [person |-> q.person, nr |-> n]
  IN /\ q.answer \in {"ok", "Error"}
     /\ IF q.answer = "ok"
        THEN /\ storage' = j
             /\ tab' = [tab EXCEPT ![q.tab] = SignedIn(@, j)]
        ELSE UNCHANGED <<storage, tab>>
     /\ login' = [login EXCEPT ![n] = NoLogin]
     /\ UNCHANGED <<valid, logins, restore>>

SignOut(t) ==
  /\ tab[t].open /\ ~tab[t].loading /\ tab[t].user # None
  /\ storage' = None
  /\ tab' = [tab EXCEPT ![t].jwt = None, ![t].user = None]
  /\ UNCHANGED <<valid, logins, restore, login>>

-----------------------------------------------------------------------------
(* The server and the network.                                             *)

\* GET /auth/me is decided; request() turns 401 into AuthError and every other
\* failure into Error.
AnswerRestore(t, r) ==
  /\ restore[t][r].answer = "sent"
  /\ \E a \in {IF restore[t][r].jwt \in valid THEN "ok" ELSE "AuthError", "Error"} :
       restore' = [restore EXCEPT ![t][r].answer = a]
  /\ UNCHANGED <<storage, valid, logins, tab, login>>

\* POST /auth/login is decided; 401 is an error like the others here.
AnswerLogin(n) ==
  /\ login[n].answer = "sent"
  /\ \/ /\ valid' = valid \cup {[person |-> login[n].person, nr |-> n]}
        /\ login' = [login EXCEPT ![n].answer = "ok"]
     \/ /\ login' = [login EXCEPT ![n].answer = "Error"]
        /\ UNCHANGED valid
  /\ UNCHANGED <<storage, logins, tab, restore>>

\* A JWT is 24 hours old, or the server's secret is another one.
Expire(j) ==
  /\ valid' = valid \ {j}
  /\ UNCHANGED <<storage, logins, tab, restore, login>>

-----------------------------------------------------------------------------
Init ==
  /\ storage = None
  /\ valid = {}
  /\ logins = 0
  /\ tab = [t \in Tabs |-> Closed]
  /\ restore = [t \in Tabs |-> [r \in Runs |-> NoRestore]]
  /\ login = [n \in 1 .. MaxLogins |-> NoLogin]

Network ==
  \/ \E t \in Tabs, r \in Runs : AnswerRestore(t, r) \/ TakeRestore(t, r)
  \/ \E n \in 1 .. MaxLogins : AnswerLogin(n) \/ TakeLogin(n)

Person == \E t \in Tabs :
  Mount(t) \/ Unload(t) \/ SignOut(t) \/ \E p \in Persons : ClickSignIn(t, p)

Next == Network \/ Person \/ \E j \in valid : Expire(j)

Spec == Init /\ [][Next]_vars

\* Every request is answered or fails, and the event loop of an open tab runs
\* every callback.  People need not do anything.
FairSpec ==
  /\ Spec
  /\ \A t \in Tabs, r \in Runs : WF_vars(AnswerRestore(t, r))
                                   /\ WF_vars(TakeRestore(t, r))

-----------------------------------------------------------------------------
(* Properties.                                                             *)

\* Every variable has its type.
TypeOK ==
  /\ storage \in Jwts \cup {None}
  /\ valid \subseteq Jwts
  /\ logins \in 0 .. MaxLogins
  /\ tab \in [Tabs -> Tab]
  /\ restore \in [Tabs -> [Runs -> Restore]]
  /\ login \in [1 .. MaxLogins -> Login]

\* The user a tab shows is the one whose JWT it would send, in every order of
\* sign-ins, restores and sign-outs (AuthContext.tsx 43-44, 56-67).
ShownUserHoldsJwt ==
  \A t \in Tabs :
    /\ tab[t].user = None <=> tab[t].jwt = None
    /\ tab[t].user # None => tab[t].jwt.person = tab[t].user

\* "Session expired" is a prompt to sign in: whoever is signed in does not
\* carry it along to the next sign-out (AuthContext.tsx 60, AuthBar.tsx 41).
\* Only with one run of the effect: of two, one may restore the session and the
\* other find it expired.
ExpiredIsSignedOut ==
  \A t \in Tabs : tab[t].sessionExpired => tab[t].user = None

\* A tab that is not loading agrees with localStorage: what is shown survives
\* a reload, and after a sign-out a reload does not bring the session back.
\* With one tab and one run of the effect this holds because AuthBar shows no
\* button while the restore is under way (AuthBar.tsx 23-25).
InSyncWithStorage ==
  \A t \in Tabs : tab[t].open /\ ~tab[t].loading => storage = tab[t].jwt

\* Every page ends loading, whatever the answer (AuthContext.tsx 53).
LoadingEnds == \A t \in Tabs : tab[t].open /\ tab[t].loading ~> ~tab[t].open \/ ~tab[t].loading

-----------------------------------------------------------------------------
(* What comments of the code say and the code does not do.                 *)

\* The tab t takes the answer of a restore in this step.
TakesRestore(t, r) == restore[t][r].answer # "none" /\ restore'[t][r] = NoRestore /\ tab'[t].open

\* AuthContext.tsx 2-4: the effect restores a cached JWT and validates it; "on
\* AuthError, discard it".  So another error does not discard the session.
DiscardsOnlyOnAuthError ==
  [][\A t \in Tabs, r \in Runs :
       TakesRestore(t, r) /\ restore[t][r].answer = "Error" => storage' = storage]_vars
=============================================================================
