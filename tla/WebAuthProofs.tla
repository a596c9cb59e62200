----------------------------- MODULE WebAuthProofs -----------------------------
(***************************************************************************)
(* Proofs about WebAuth, for any number of tabs, persons and logins.  What *)
(* needs a single run of the effect (a production build), or a single tab, *)
(* says so.                                                                *)
(***************************************************************************)
EXTENDS WebAuth, TLAPS

USE WebAssumption, NoneIsNoJwt

Inv == TypeOK /\ ShownUserHoldsJwt

LEMMA InitInv == Init => Inv
<1> SUFFICES ASSUME Init PROVE Inv
  OBVIOUS
<1>1. Closed \in Tab /\ NoRestore \in Restore /\ NoLogin \in Login
  BY DEF Closed, Tab, Restore, Login
<1>2. TypeOK
  BY <1>1 DEF Init, TypeOK
<1>3. ShownUserHoldsJwt
  BY DEF Init, ShownUserHoldsJwt, Closed
<1> QED
  BY <1>2, <1>3 DEF Inv

\* A JWT is of a person, and no state of a tab confuses it with None.
LEMMA JwtOf ==
  ASSUME NEW j \in Jwts
  PROVE  j.person \in Persons /\ j # None /\ j.person # None
  BY DEF Jwts

\* A request that is under way, or answered, is a request.
LEMMA PendingRestore ==
  ASSUME TypeOK, NEW t \in Tabs, NEW r \in Runs, restore[t][r].answer # "none"
  PROVE  restore[t][r] \in [jwt : Jwts, answer : Answers]
  BY DEF TypeOK, Restore, NoRestore

LEMMA PendingLogin ==
  ASSUME TypeOK, NEW n \in 1 .. MaxLogins, login[n].answer # "none"
  PROVE  login[n] \in [tab : Tabs, person : Persons, answer : Answers \ {"AuthError"}]
  BY DEF TypeOK, Login, NoLogin

LEMMA MountInv == ASSUME Inv, NEW t \in Tabs, Mount(t) PROVE Inv'
<1>1. Requested(storage) \in [Runs -> Restore]
  BY DEF Inv, TypeOK, Requested, Restore, Answers
<1>2. Mounted(storage) \in Tab /\ Mounted(storage).user = None /\ Mounted(storage).jwt = None
  BY DEF Mounted, Tab
<1>3. /\ tab' \in [Tabs -> Tab] /\ tab'[t] = Mounted(storage)
      /\ \A u \in Tabs \ {t} : tab'[u] = tab[u]
  BY <1>2 DEF Inv, TypeOK, Mount
<1>4. TypeOK'
  BY <1>1, <1>3 DEF Inv, TypeOK, Mount
<1>5. ShownUserHoldsJwt'
  BY <1>2, <1>3 DEF Inv, ShownUserHoldsJwt
<1> QED
  BY <1>4, <1>5 DEF Inv

LEMMA UnloadInv == ASSUME Inv, NEW t \in Tabs, Unload(t) PROVE Inv'
<1>1. Closed \in Tab /\ NoRestore \in Restore /\ NoLogin \in Login
  BY DEF Closed, Tab, Restore, Login
<1>2. TypeOK'
  BY <1>1 DEF Inv, TypeOK, Unload
<1>3. tab' \in [Tabs -> Tab] /\ tab'[t] = Closed /\ \A u \in Tabs \ {t} : tab'[u] = tab[u]
  BY <1>2 DEF Inv, TypeOK, Unload
<1>4. ShownUserHoldsJwt'
  BY <1>3 DEF Inv, ShownUserHoldsJwt, Closed
<1> QED
  BY <1>2, <1>4 DEF Inv

LEMMA TakeRestoreInv ==
  ASSUME Inv, NEW t \in Tabs, NEW r \in Runs, TakeRestore(t, r)
  PROVE  Inv'
<1> DEFINE q == restore[t][r]
<1>1. q \in [jwt : Jwts, answer : Answers]
  BY PendingRestore DEF Inv, TakeRestore
<1>2. q.jwt \in Jwts /\ q.jwt.person \in Persons /\ q.jwt # None /\ q.jwt.person # None
  BY <1>1, JwtOf
<1>3. /\ Restored(tab[t], q) \in Tab
      /\ Restored(tab[t], q).user = None <=> Restored(tab[t], q).jwt = None
      /\ Restored(tab[t], q).user # None =>
           Restored(tab[t], q).jwt.person = Restored(tab[t], q).user
  BY <1>2 DEF Inv, TypeOK, ShownUserHoldsJwt, Restored, LoadingAfter, Tab
<1>4. /\ tab' \in [Tabs -> Tab] /\ tab'[t] = Restored(tab[t], q)
      /\ \A u \in Tabs \ {t} : tab'[u] = tab[u]
  BY <1>3 DEF Inv, TypeOK, TakeRestore
<1>5. restore' \in [Tabs -> [Runs -> Restore]]
  BY DEF Inv, TypeOK, TakeRestore, Restore
<1>6. TypeOK'
  BY <1>2, <1>4, <1>5 DEF Inv, TypeOK, TakeRestore, StorageAfter
<1>7. ShownUserHoldsJwt'
  BY <1>3, <1>4 DEF Inv, ShownUserHoldsJwt
<1> QED
  BY <1>6, <1>7 DEF Inv

LEMMA ClickInv ==
  ASSUME Inv, NEW t \in Tabs, NEW p \in Persons, ClickSignIn(t, p)
  PROVE  Inv'
<1>1. [tab |-> t, person |-> p, answer |-> "sent"] \in Login
  BY DEF Login, Answers
<1>2. logins + 1 \in 1 .. MaxLogins
  BY DEF Inv, TypeOK, ClickSignIn
<1>3. TypeOK'
  BY <1>1, <1>2 DEF Inv, TypeOK, ClickSignIn
<1> QED
  BY <1>3 DEF Inv, ShownUserHoldsJwt, ClickSignIn

LEMMA TakeLoginInv ==
  ASSUME Inv, NEW n \in 1 .. MaxLogins, TakeLogin(n)
  PROVE  Inv'
<1> DEFINE q == login[n]
           j == [person |-> q.person, nr |-> n]
<1>1. q.tab \in Tabs /\ q.person \in Persons
  BY PendingLogin DEF Inv, TakeLogin
<1>2. j \in Jwts /\ j # None /\ j.person = q.person /\ q.person # None
  BY <1>1, JwtOf DEF Jwts
<1>3. login' \in [1 .. MaxLogins -> Login]
  BY DEF Inv, TypeOK, TakeLogin, Login
<1>4. CASE q.answer = "ok"
  <2>1. /\ tab'[q.tab] = [tab[q.tab] EXCEPT !.jwt = j, !.user = q.person, !.sessionExpired = FALSE]
        /\ \A u \in Tabs \ {q.tab} : tab'[u] = tab[u]
        /\ tab[q.tab] \in Tab
    BY <1>1, <1>4 DEF Inv, TypeOK, TakeLogin, SignedIn
  <2>2. tab'[q.tab] \in Tab
    BY <1>1, <1>2, <2>1 DEF Tab
  <2>3. tab' \in [Tabs -> Tab]
    BY <1>4, <2>1, <2>2 DEF Inv, TypeOK, TakeLogin
  <2>4. TypeOK'
    BY <1>2, <1>3, <1>4, <2>3 DEF Inv, TypeOK, TakeLogin
  <2>5. tab'[q.tab].user = q.person /\ tab'[q.tab].jwt = j
    BY <2>1 DEF Tab
  <2>6. ShownUserHoldsJwt'
    BY <1>2, <2>1, <2>5 DEF Inv, ShownUserHoldsJwt
  <2> QED
    BY <2>4, <2>6 DEF Inv
<1>5. CASE q.answer # "ok"
  BY <1>3, <1>5 DEF Inv, TypeOK, ShownUserHoldsJwt, TakeLogin
<1> QED
  BY <1>4, <1>5

LEMMA SignOutInv == ASSUME Inv, NEW t \in Tabs, SignOut(t) PROVE Inv'
<1>1. /\ tab'[t] = [tab[t] EXCEPT !.jwt = None, !.user = None]
      /\ \A u \in Tabs \ {t} : tab'[u] = tab[u]
      /\ tab[t] \in Tab
  BY DEF Inv, TypeOK, SignOut
<1>2. tab'[t] \in Tab /\ tab'[t].user = None /\ tab'[t].jwt = None
  BY <1>1 DEF Tab
<1>3. TypeOK'
  BY <1>1, <1>2 DEF Inv, TypeOK, SignOut
<1>4. ShownUserHoldsJwt'
  BY <1>1, <1>2 DEF Inv, ShownUserHoldsJwt
<1> QED
  BY <1>3, <1>4 DEF Inv

LEMMA AnswerRestoreInv ==
  ASSUME Inv, NEW t \in Tabs, NEW r \in Runs, AnswerRestore(t, r)
  PROVE  Inv'
<1>1. restore[t][r] \in [jwt : Jwts, answer : Answers]
  BY PendingRestore DEF Inv, AnswerRestore
<1>2. PICK a \in {"ok", "AuthError", "Error"} : restore' = [restore EXCEPT ![t][r].answer = a]
  BY DEF AnswerRestore
<1>3. [restore[t][r] EXCEPT !.answer = a] \in Restore
  BY <1>1 DEF Restore, Answers
<1>4. restore' \in [Tabs -> [Runs -> Restore]]
  BY <1>2, <1>3 DEF Inv, TypeOK
<1> QED
  BY <1>4 DEF Inv, TypeOK, ShownUserHoldsJwt, AnswerRestore

LEMMA AnswerLoginInv ==
  ASSUME Inv, NEW n \in 1 .. MaxLogins, AnswerLogin(n)
  PROVE  Inv'
<1>1. login[n] \in [tab : Tabs, person : Persons, answer : Answers \ {"AuthError"}]
  BY PendingLogin DEF Inv, AnswerLogin
<1>2. [person |-> login[n].person, nr |-> n] \in Jwts
  BY <1>1 DEF Jwts
<1>3. \A a \in {"ok", "Error"} : [login[n] EXCEPT !.answer = a] \in Login
  BY <1>1 DEF Login, Answers
<1>4. login' \in [1 .. MaxLogins -> Login] /\ valid' \subseteq Jwts
  BY <1>2, <1>3 DEF Inv, TypeOK, AnswerLogin
<1> QED
  BY <1>4 DEF Inv, TypeOK, ShownUserHoldsJwt, AnswerLogin

LEMMA NextInv == Inv /\ [Next]_vars => Inv'
<1> SUFFICES ASSUME Inv, [Next]_vars PROVE Inv'
  OBVIOUS
<1>1. CASE Network
  BY <1>1, AnswerRestoreInv, TakeRestoreInv, AnswerLoginInv, TakeLoginInv DEF Network
<1>2. CASE Person
  BY <1>2, MountInv, UnloadInv, SignOutInv, ClickInv DEF Person
<1>3. ASSUME NEW j \in valid, Expire(j) PROVE Inv'
  BY <1>3 DEF Inv, TypeOK, ShownUserHoldsJwt, Expire
<1>4. CASE UNCHANGED vars
  BY <1>4 DEF vars, Inv, TypeOK, ShownUserHoldsJwt
<1> QED
  BY <1>1, <1>2, <1>3, <1>4 DEF Next

(* Types and the agreement of user and JWT, in any number of tabs and with *)
(* any number of runs of the effect (AuthContext.tsx 29-67).               *)
THEOREM Invariance == Spec => []Inv
  BY InitInv, NextInv, PTL DEF Spec

(* Every variable keeps its type.                                          *)
THEOREM TypeCorrect == Spec => []TypeOK
<1>1. Inv => TypeOK
  BY DEF Inv
<1> QED
  BY <1>1, Invariance, PTL

(* The user a tab shows is the one whose JWT it would send, whatever the   *)
(* other tabs do and in whatever order answers come (43-44, 56-67).        *)
THEOREM ShownUserIsTheHolder == Spec => []ShownUserHoldsJwt
<1>1. Inv => ShownUserHoldsJwt
  BY DEF Inv
<1> QED
  BY <1>1, Invariance, PTL

-----------------------------------------------------------------------------
(* A production build, where the effect of a mount runs once.  Then a page *)
(* loads exactly while its restore is under way, AuthBar shows no button   *)
(* meanwhile, and so a restore finds its tab as Mount has left it.         *)

\* A page that is closed or loads has nobody signed in and no expiry to tell.
LoadingOK ==
  \A t \in Tabs :
    /\ tab[t].loading => tab[t].user = None /\ ~tab[t].sessionExpired
    /\ ~tab[t].open => tab[t].loading

\* The restore of a page is under way exactly while the page loads.
RestoreOK ==
  \A t \in Tabs : restore[t][1].answer # "none" <=> tab[t].open /\ tab[t].loading

\* Only a page that has loaded has a sign-in under way.
LoginOK ==
  \A n \in 1 .. MaxLogins : login[n].answer # "none" => ~tab[login[n].tab].loading

OneRunInv == Inv /\ LoadingOK /\ RestoreOK /\ LoginOK /\ ExpiredIsSignedOut

LEMMA OneRunInit == ASSUME EffectRuns = 1, Init PROVE OneRunInv
<1>1. Inv
  BY InitInv
<1>2. LoadingOK /\ ExpiredIsSignedOut
  BY DEF Init, LoadingOK, ExpiredIsSignedOut, Closed
<1>3. RestoreOK /\ LoginOK
  BY DEF Init, RestoreOK, LoginOK, Closed, NoRestore, NoLogin, Runs
<1> QED
  BY <1>1, <1>2, <1>3 DEF OneRunInv

LEMMA OneRunMount ==
  ASSUME EffectRuns = 1, OneRunInv, NEW t \in Tabs, Mount(t)
  PROVE  LoadingOK' /\ RestoreOK' /\ LoginOK' /\ ExpiredIsSignedOut'
<1>1. /\ tab'[t] = Mounted(storage) /\ \A u \in Tabs \ {t} : tab'[u] = tab[u]
      /\ restore'[t] = Requested(storage)
      /\ \A u \in Tabs \ {t} : restore'[u] = restore[u]
      /\ login' = login /\ ~tab[t].open
  BY DEF OneRunInv, Inv, TypeOK, Mount
<1>2. /\ tab'[t].open /\ tab'[t].user = None /\ ~tab'[t].sessionExpired
      /\ tab'[t].loading <=> storage # None
  <2>1. /\ Mounted(storage).open = TRUE /\ Mounted(storage).user = None
        /\ Mounted(storage).sessionExpired = FALSE
        /\ Mounted(storage).loading = (storage # None)
    BY Zenon DEF Mounted
  <2> QED
    BY <1>1, <2>1
<1>3. restore'[t][1].answer # "none" <=> storage # None
  BY <1>1 DEF Requested, Runs, NoRestore
<1>4. tab[t].loading
  BY <1>1 DEF OneRunInv, LoadingOK
<1>5. LoadingOK' /\ ExpiredIsSignedOut'
  BY <1>1, <1>2 DEF OneRunInv, LoadingOK, ExpiredIsSignedOut
<1>6. RestoreOK'
  BY <1>1, <1>2, <1>3 DEF OneRunInv, RestoreOK
<1>7. LoginOK'
  <2> SUFFICES ASSUME NEW n \in 1 .. MaxLogins, login[n].answer # "none"
               PROVE  ~tab'[login[n].tab].loading
    BY <1>1 DEF LoginOK
  <2>1. login[n].tab \in Tabs /\ ~tab[login[n].tab].loading
    BY PendingLogin DEF OneRunInv, Inv, LoginOK
  <2> QED
    BY <1>1, <1>4, <2>1
<1> QED
  BY <1>5, <1>6, <1>7

LEMMA OneRunUnload ==
  ASSUME EffectRuns = 1, OneRunInv, NEW t \in Tabs, Unload(t)
  PROVE  LoadingOK' /\ RestoreOK' /\ LoginOK' /\ ExpiredIsSignedOut'
<1>1. /\ tab'[t] = Closed /\ \A u \in Tabs \ {t} : tab'[u] = tab[u]
      /\ restore'[t] = [r \in Runs |-> NoRestore]
      /\ \A u \in Tabs \ {t} : restore'[u] = restore[u]
  BY DEF OneRunInv, Inv, TypeOK, Unload
<1>2. LoadingOK' /\ ExpiredIsSignedOut'
  BY <1>1 DEF OneRunInv, LoadingOK, ExpiredIsSignedOut, Closed
<1>3. RestoreOK'
  BY <1>1 DEF OneRunInv, RestoreOK, Closed, Runs, NoRestore
<1>4. ASSUME NEW n \in 1 .. MaxLogins, login'[n].answer # "none"
      PROVE  login'[n] = login[n] /\ login[n].tab # t
  BY <1>4 DEF OneRunInv, Inv, TypeOK, Unload, NoLogin
<1>5. LoginOK'
  <2> SUFFICES ASSUME NEW n \in 1 .. MaxLogins, login'[n].answer # "none"
               PROVE  ~tab'[login'[n].tab].loading
    BY DEF LoginOK
  <2>1. login'[n] = login[n] /\ login[n].tab # t
    BY <1>4
  <2>2. login[n].tab \in Tabs /\ ~tab[login[n].tab].loading
    BY <2>1, PendingLogin DEF OneRunInv, Inv, LoginOK
  <2> QED
    BY <1>1, <2>1, <2>2
<1> QED
  BY <1>2, <1>3, <1>5

LEMMA OneRunTakeRestore ==
  ASSUME EffectRuns = 1, OneRunInv, NEW t \in Tabs, NEW r \in Runs, TakeRestore(t, r)
  PROVE  LoadingOK' /\ RestoreOK' /\ LoginOK' /\ ExpiredIsSignedOut'
<1> DEFINE q == restore[t][1]
<1>1. r = 1
  BY DEF Runs
<1>2. /\ q.answer \in {"ok", "AuthError", "Error"}
      /\ tab'[t] = Restored(tab[t], q) /\ \A u \in Tabs \ {t} : tab'[u] = tab[u]
      /\ restore'[t][1] = NoRestore /\ \A u \in Tabs \ {t} : restore'[u] = restore[u]
      /\ login' = login
  BY <1>1 DEF OneRunInv, Inv, TypeOK, TakeRestore
<1>3. tab[t].open /\ tab[t].loading /\ tab[t].user = None /\ ~tab[t].sessionExpired
  BY <1>2 DEF OneRunInv, RestoreOK, LoadingOK
<1>4. /\ tab'[t].open /\ ~tab'[t].loading
      /\ tab'[t].sessionExpired => tab'[t].user = None
  <2>1. /\ Restored(tab[t], q).open = tab[t].open
        /\ Restored(tab[t], q).loading = FALSE
        /\ Restored(tab[t], q).user = IF q.answer = "ok" THEN q.jwt.person ELSE tab[t].user
        /\ Restored(tab[t], q).sessionExpired = (tab[t].sessionExpired \/ q.answer = "AuthError")
    BY Zenon DEF Restored, LoadingAfter
  <2>2. CASE q.answer = "ok"
    BY <1>2, <1>3, <2>1, <2>2
  <2>3. CASE q.answer # "ok"
    BY <1>2, <1>3, <2>1, <2>3
  <2> QED
    BY <2>2, <2>3
<1>5. LoadingOK' /\ ExpiredIsSignedOut'
  BY <1>2, <1>4 DEF OneRunInv, LoadingOK, ExpiredIsSignedOut
<1>6. RestoreOK'
  BY <1>2, <1>4 DEF OneRunInv, RestoreOK, NoRestore
<1>7. LoginOK'
  <2> SUFFICES ASSUME NEW n \in 1 .. MaxLogins, login[n].answer # "none"
               PROVE  ~tab'[login[n].tab].loading
    BY <1>2 DEF LoginOK
  <2>1. login[n].tab \in Tabs /\ ~tab[login[n].tab].loading
    BY PendingLogin DEF OneRunInv, Inv, LoginOK
  <2> QED
    BY <1>2, <1>3, <2>1
<1> QED
  BY <1>5, <1>6, <1>7

LEMMA OneRunClick ==
  ASSUME EffectRuns = 1, OneRunInv, NEW t \in Tabs, NEW p \in Persons, ClickSignIn(t, p)
  PROVE  LoadingOK' /\ RestoreOK' /\ LoginOK' /\ ExpiredIsSignedOut'
<1>1. LoadingOK' /\ RestoreOK' /\ ExpiredIsSignedOut'
  BY DEF OneRunInv, LoadingOK, RestoreOK, ExpiredIsSignedOut, ClickSignIn
<1>2. \A n \in 1 .. MaxLogins : login'[n] = login[n] \/ login'[n].tab = t
  BY DEF OneRunInv, Inv, TypeOK, ClickSignIn
<1>3. LoginOK'
  BY <1>2 DEF OneRunInv, LoginOK, ClickSignIn, ButtonShown
<1> QED
  BY <1>1, <1>3

LEMMA OneRunTakeLogin ==
  ASSUME EffectRuns = 1, OneRunInv, NEW n \in 1 .. MaxLogins, TakeLogin(n)
  PROVE  LoadingOK' /\ RestoreOK' /\ LoginOK' /\ ExpiredIsSignedOut'
<1> DEFINE q == login[n]
           j == [person |-> q.person, nr |-> n]
<1>1. q.tab \in Tabs /\ ~tab[q.tab].loading /\ restore' = restore
  BY PendingLogin DEF OneRunInv, Inv, LoginOK, TakeLogin
<1>2. \A m \in 1 .. MaxLogins : login'[m].answer # "none" => login'[m] = login[m]
  BY DEF OneRunInv, Inv, TypeOK, TakeLogin, NoLogin
<1>3. \A m \in 1 .. MaxLogins : login[m].answer # "none" => login[m].tab \in Tabs
  BY PendingLogin DEF OneRunInv, Inv
<1>4. CASE q.answer = "ok"
  <2>1. /\ tab'[q.tab] = [tab[q.tab] EXCEPT !.jwt = j, !.user = q.person, !.sessionExpired = FALSE]
        /\ \A u \in Tabs \ {q.tab} : tab'[u] = tab[u]
        /\ tab[q.tab] \in Tab
    BY <1>1, <1>4 DEF OneRunInv, Inv, TypeOK, TakeLogin, SignedIn
  <2>2. /\ tab'[q.tab].loading = tab[q.tab].loading /\ tab'[q.tab].open = tab[q.tab].open
        /\ tab'[q.tab].sessionExpired = FALSE
    BY <2>1 DEF Tab
  <2>3. LoadingOK' /\ ExpiredIsSignedOut'
    BY <1>1, <2>1, <2>2 DEF OneRunInv, LoadingOK, ExpiredIsSignedOut
  <2>4. RestoreOK'
    BY <1>1, <2>1, <2>2 DEF OneRunInv, RestoreOK
  <2>5. \A u \in Tabs : tab'[u].loading = tab[u].loading
    BY <2>1, <2>2
  <2>6. LoginOK'
    BY <1>2, <1>3, <2>5 DEF OneRunInv, LoginOK
  <2> QED
    BY <2>3, <2>4, <2>6
<1>5. CASE q.answer # "ok"
  <2>1. tab' = tab
    BY <1>5 DEF TakeLogin
  <2> QED
    BY <1>1, <1>2, <2>1 DEF OneRunInv, LoadingOK, RestoreOK, LoginOK, ExpiredIsSignedOut
<1> QED
  BY <1>4, <1>5

LEMMA OneRunSignOut ==
  ASSUME EffectRuns = 1, OneRunInv, NEW t \in Tabs, SignOut(t)
  PROVE  LoadingOK' /\ RestoreOK' /\ LoginOK' /\ ExpiredIsSignedOut'
<1>1. /\ tab'[t] = [tab[t] EXCEPT !.jwt = None, !.user = None]
      /\ \A u \in Tabs \ {t} : tab'[u] = tab[u]
      /\ tab[t] \in Tab /\ login' = login /\ restore' = restore
  BY DEF OneRunInv, Inv, TypeOK, SignOut
<1>2. /\ tab'[t].loading = tab[t].loading /\ tab'[t].open = tab[t].open
      /\ tab'[t].sessionExpired = tab[t].sessionExpired /\ tab'[t].user = None
  BY <1>1 DEF Tab
<1>3. LoadingOK' /\ ExpiredIsSignedOut'
  BY <1>1, <1>2 DEF OneRunInv, LoadingOK, ExpiredIsSignedOut
<1>4. RestoreOK'
  BY <1>1, <1>2 DEF OneRunInv, RestoreOK
<1>5. \A m \in 1 .. MaxLogins : login[m].answer # "none" => login[m].tab \in Tabs
  BY PendingLogin DEF OneRunInv, Inv
<1>6. LoginOK'
  BY <1>1, <1>2, <1>5 DEF OneRunInv, LoginOK
<1> QED
  BY <1>3, <1>4, <1>6

LEMMA OneRunAnswerRestore ==
  ASSUME EffectRuns = 1, OneRunInv, NEW t \in Tabs, NEW r \in Runs, AnswerRestore(t, r)
  PROVE  LoadingOK' /\ RestoreOK' /\ LoginOK' /\ ExpiredIsSignedOut'
<1>1. restore[t][r] \in [jwt : Jwts, answer : Answers]
  BY PendingRestore DEF OneRunInv, Inv, AnswerRestore
<1>2. PICK a \in {"ok", "AuthError", "Error"} : restore' = [restore EXCEPT ![t][r].answer = a]
  BY DEF AnswerRestore
<1>3. \A u \in Tabs : restore'[u][1].answer # "none" <=> restore[u][1].answer # "none"
  BY <1>1, <1>2 DEF OneRunInv, Inv, TypeOK, AnswerRestore, Runs
<1> QED
  BY <1>3 DEF OneRunInv, LoadingOK, RestoreOK, LoginOK, ExpiredIsSignedOut, AnswerRestore

LEMMA OneRunAnswerLogin ==
  ASSUME EffectRuns = 1, OneRunInv, NEW n \in 1 .. MaxLogins, AnswerLogin(n)
  PROVE  LoadingOK' /\ RestoreOK' /\ LoginOK' /\ ExpiredIsSignedOut'
<1>1. login[n] \in [tab : Tabs, person : Persons, answer : Answers \ {"AuthError"}]
  BY PendingLogin DEF OneRunInv, Inv, AnswerLogin
<1>2. \A m \in 1 .. MaxLogins :
        /\ login'[m].answer # "none" => login[m].answer # "none"
        /\ login'[m].tab = login[m].tab
  <2>1. PICK a \in {"ok", "Error"} : login' = [login EXCEPT ![n].answer = a]
    BY DEF AnswerLogin
  <2>2. /\ login'[n] = [login[n] EXCEPT !.answer = a]
        /\ \A m \in (1 .. MaxLogins) \ {n} : login'[m] = login[m]
    BY <2>1 DEF OneRunInv, Inv, TypeOK
  <2>3. login'[n].tab = login[n].tab /\ login[n].answer # "none"
    BY <1>1, <2>2 DEF Answers
  <2> QED
    BY <2>2, <2>3
<1> QED
  BY <1>2 DEF OneRunInv, LoadingOK, RestoreOK, LoginOK, ExpiredIsSignedOut, AnswerLogin

LEMMA OneRunNext ==
  ASSUME EffectRuns = 1
  PROVE  OneRunInv /\ [Next]_vars => OneRunInv'
<1> SUFFICES ASSUME OneRunInv, [Next]_vars
             PROVE  LoadingOK' /\ RestoreOK' /\ LoginOK' /\ ExpiredIsSignedOut'
  BY NextInv DEF OneRunInv
<1>1. CASE Network
  BY <1>1, OneRunAnswerRestore, OneRunTakeRestore, OneRunAnswerLogin, OneRunTakeLogin DEF Network
<1>2. CASE Person
  BY <1>2, OneRunMount, OneRunUnload, OneRunSignOut, OneRunClick DEF Person
<1>3. ASSUME NEW j \in valid, Expire(j)
      PROVE  LoadingOK' /\ RestoreOK' /\ LoginOK' /\ ExpiredIsSignedOut'
  BY <1>3 DEF OneRunInv, LoadingOK, RestoreOK, LoginOK, ExpiredIsSignedOut, Expire
<1>4. CASE UNCHANGED vars
  BY <1>4 DEF vars, OneRunInv, LoadingOK, RestoreOK, LoginOK, ExpiredIsSignedOut
<1> QED
  BY <1>1, <1>2, <1>3, <1>4 DEF Next

(* In a production build nobody who is signed in carries the expiry of an  *)
(* earlier session along, in any number of tabs (AuthContext.tsx 46-53,    *)
(* 56-61).                                                                 *)
THEOREM ExpiryIsOfTheSignedOut ==
  ASSUME EffectRuns = 1
  PROVE  Spec => []ExpiredIsSignedOut
<1>1. OneRunInv => ExpiredIsSignedOut
  BY DEF OneRunInv
<1> QED
  BY OneRunInit, OneRunNext, <1>1, PTL DEF Spec

-----------------------------------------------------------------------------
(* One tab, too: nobody else writes localStorage while a restore is under  *)
(* way, so the JWT it was sent with is still the one that is stored.       *)

RestoredIsStored ==
  \A t \in Tabs : restore[t][1].answer # "none" => restore[t][1].jwt = storage

OneTabInv == OneRunInv /\ RestoredIsStored /\ InSyncWithStorage

LEMMA OneTabInit ==
  ASSUME EffectRuns = 1, Init
  PROVE  OneTabInv
<1>1. RestoredIsStored /\ InSyncWithStorage
  BY DEF Init, RestoredIsStored, InSyncWithStorage, Closed, NoRestore, Runs
<1> QED
  BY <1>1, OneRunInit DEF OneTabInv

LEMMA OneTabRestores ==
  ASSUME EffectRuns = 1, NEW t, Tabs = {t}, OneTabInv,
         NEW r \in Runs, TakeRestore(t, r) \/ AnswerRestore(t, r)
  PROVE  RestoredIsStored' /\ InSyncWithStorage'
<1> DEFINE q == restore[t][1]
<1>1. t \in Tabs /\ r = 1
  BY DEF Runs
<1>2. q.answer # "none" /\ q \in [jwt : Jwts, answer : Answers]
  BY <1>1, PendingRestore DEF OneTabInv, OneRunInv, Inv, TakeRestore, AnswerRestore
<1>3. q.jwt = storage /\ tab[t].open /\ tab[t].loading /\ tab[t].user = None /\ tab[t].jwt = None
  BY <1>1, <1>2 DEF OneTabInv, OneRunInv, Inv, RestoredIsStored, RestoreOK, LoadingOK,
                    ShownUserHoldsJwt
<1>4. CASE TakeRestore(t, r)
  <2>1. /\ tab'[t] = Restored(tab[t], q) /\ restore'[t][1] = NoRestore
        /\ storage' = IF q.answer = "ok" THEN storage ELSE None
    BY <1>1, <1>4 DEF OneTabInv, OneRunInv, Inv, TypeOK, TakeRestore, StorageAfter
  <2>2. tab'[t].jwt = IF q.answer = "ok" THEN q.jwt ELSE tab[t].jwt
    BY <2>1 DEF Restored
  <2>3. tab'[t].jwt = storage'
    BY <1>3, <2>1, <2>2
  <2> QED
    BY <2>1, <2>3 DEF RestoredIsStored, InSyncWithStorage, NoRestore
<1>5. CASE AnswerRestore(t, r)
  <2>1. PICK a \in {"ok", "AuthError", "Error"} : restore' = [restore EXCEPT ![t][r].answer = a]
    BY <1>5 DEF AnswerRestore
  <2>2. restore'[t][1] = [q EXCEPT !.answer = a]
    BY <1>1, <2>1 DEF OneTabInv, OneRunInv, Inv, TypeOK
  <2>3. restore'[t][1].jwt = q.jwt
    BY <1>2, <2>2
  <2> QED
    BY <1>3, <1>5, <2>3 DEF OneTabInv, RestoredIsStored, InSyncWithStorage, AnswerRestore
<1> QED
  BY <1>4, <1>5

LEMMA OneTabLogins ==
  ASSUME EffectRuns = 1, NEW t, Tabs = {t}, OneTabInv,
         NEW n \in 1 .. MaxLogins, TakeLogin(n) \/ AnswerLogin(n)
  PROVE  RestoredIsStored' /\ InSyncWithStorage'
<1>1. CASE AnswerLogin(n)
  BY <1>1 DEF OneTabInv, RestoredIsStored, InSyncWithStorage, AnswerLogin
<1>2. CASE TakeLogin(n) /\ login[n].answer # "ok"
  BY <1>2 DEF OneTabInv, RestoredIsStored, InSyncWithStorage, TakeLogin
<1>3. CASE TakeLogin(n) /\ login[n].answer = "ok"
  <2> DEFINE j == [person |-> login[n].person, nr |-> n]
  <2>1. login[n].tab = t /\ ~tab[t].loading /\ tab[t] \in Tab
    BY <1>3, PendingLogin DEF OneTabInv, OneRunInv, Inv, TypeOK, LoginOK, TakeLogin
  <2>2. /\ storage' = j /\ restore' = restore
        /\ tab'[t] = [tab[t] EXCEPT !.jwt = j, !.user = j.person, !.sessionExpired = FALSE]
    BY <1>3, <2>1 DEF OneTabInv, OneRunInv, Inv, TypeOK, TakeLogin, SignedIn
  <2>3. tab'[t].jwt = j
    BY <2>1, <2>2 DEF Tab
  <2>4. restore'[t][1].answer = "none"
    BY <2>1, <2>2 DEF OneTabInv, OneRunInv, RestoreOK
  <2> QED
    BY <2>2, <2>3, <2>4 DEF RestoredIsStored, InSyncWithStorage
<1> QED
  BY <1>1, <1>2, <1>3

LEMMA OneTabPerson ==
  ASSUME EffectRuns = 1, NEW t, Tabs = {t}, OneTabInv, Person
  PROVE  RestoredIsStored' /\ InSyncWithStorage'
<1>1. t \in Tabs
  OBVIOUS
<1>2. CASE Mount(t)
  <2>1. /\ tab'[t] = Mounted(storage) /\ restore'[t] = Requested(storage)
        /\ storage' = storage
    BY <1>1, <1>2 DEF OneTabInv, OneRunInv, Inv, TypeOK, Mount
  <2>2. Mounted(storage).jwt = None /\ Mounted(storage).loading = (storage # None)
    BY Zenon DEF Mounted
  <2>3. Requested(storage)[1].answer # "none" => Requested(storage)[1].jwt = storage
    BY DEF Requested, NoRestore, Runs
  <2> QED
    BY <2>1, <2>2, <2>3 DEF RestoredIsStored, InSyncWithStorage
<1>3. CASE Unload(t)
  <2>1. tab'[t] = Closed /\ restore'[t][1] = NoRestore
    BY <1>1, <1>3 DEF OneTabInv, OneRunInv, Inv, TypeOK, Unload, Runs
  <2> QED
    BY <2>1 DEF RestoredIsStored, InSyncWithStorage, Closed, NoRestore
<1>4. CASE SignOut(t)
  <2>1. /\ tab'[t] = [tab[t] EXCEPT !.jwt = None, !.user = None] /\ storage' = None
        /\ restore' = restore /\ tab[t] \in Tab /\ ~tab[t].loading
    BY <1>1, <1>4 DEF OneTabInv, OneRunInv, Inv, TypeOK, SignOut
  <2>2. tab'[t].jwt = None
    BY <2>1 DEF Tab
  <2> QED
    BY <2>1, <2>2 DEF OneTabInv, OneRunInv, RestoreOK, RestoredIsStored, InSyncWithStorage
<1>5. ASSUME NEW p \in Persons, ClickSignIn(t, p)
      PROVE  RestoredIsStored' /\ InSyncWithStorage'
  BY <1>5 DEF OneTabInv, RestoredIsStored, InSyncWithStorage, ClickSignIn
<1> QED
  BY <1>2, <1>3, <1>4, <1>5 DEF Person

LEMMA OneTabNext ==
  ASSUME EffectRuns = 1, NEW CONSTANT t, Tabs = {t}
  PROVE  OneTabInv /\ [Next]_vars => OneTabInv'
<1> SUFFICES ASSUME OneTabInv, [Next]_vars
             PROVE  RestoredIsStored' /\ InSyncWithStorage'
  BY OneRunNext DEF OneTabInv
<1>1. CASE Network
  BY <1>1, OneTabRestores, OneTabLogins DEF Network
<1>2. CASE Person
  BY <1>2, OneTabPerson
<1>3. ASSUME NEW j \in valid, Expire(j)
      PROVE  RestoredIsStored' /\ InSyncWithStorage'
  BY <1>3 DEF OneTabInv, RestoredIsStored, InSyncWithStorage, Expire
<1>4. CASE UNCHANGED vars
  BY <1>4 DEF vars, OneTabInv, RestoredIsStored, InSyncWithStorage
<1> QED
  BY <1>1, <1>2, <1>3, <1>4 DEF Next

(* In a production build and a browser with one tab, a page that has       *)
(* loaded agrees with localStorage, with any number of sign-ins under way  *)
(* at once (AuthContext.tsx 37-67, AuthBar.tsx 23-25).                     *)
THEOREM LoadedPageAgreesWithStorage ==
  ASSUME EffectRuns = 1, NEW CONSTANT t, Tabs = {t}
  PROVE  Spec => []InSyncWithStorage
<1>1. OneTabInv => InSyncWithStorage
  BY DEF OneTabInv
<1> QED
  BY OneTabInit, OneTabNext, <1>1, PTL DEF Spec
===============================================================================
