---------------------------- MODULE AuthService ----------------------------
(***************************************************************************)
(* The AuthService RPCs over the users table (internal/auth/service.go,    *)
(* internal/auth/interceptor.go, internal/db/db.go).  Handlers run         *)
(* concurrently and hold no lock and no transaction across statements, so  *)
(* an action is one SQL statement of one call together with what the       *)
(* handler does with its result.                                           *)
(*                                                                         *)
(* Abstractions.  Email and display name behave as the picture does and    *)
(* are left out.  An ID token is the verified subject and picture it       *)
(* carries, or one of the two ways it is refused.  A username is a model   *)
(* value: the elements of Names satisfy usernameRE, BadName stands for the *)
(* others.  A session JWT is the pair of claims that matter; expiry only   *)
(* takes tokens away, so tokens are kept for ever.  ListUsers answers with *)
(* OK alone: no property looks into the list.                              *)
(***************************************************************************)
EXTENDS Naturals

CONSTANTS
  Calls,      \* slots for RPCs in flight: a bound on concurrency
  Subs,       \* Google subjects
  Ids,        \* the uuids gen_random_uuid() may return
  Names,      \* usernames usernameRE accepts
  Pictures,   \* picture URLs Google may send
  Null,       \* SQL NULL, Go nil, and "no row"
  BadName,    \* any non-empty username usernameRE rejects
  Minted,     \* the user_id of a token made by mint-cluster-token.sh
  MaxTries,   \* attempts at an initial username: 10 in db.go
  MaxFaults   \* bound on statements that fail for reasons of their own

ASSUME BoundsAssumption == MaxTries \in Nat \ {0} /\ MaxFaults \in Nat

VARIABLES
  users,   \* the users table: a row, or Null, for each uuid
  tokens,  \* the claims of every session JWT somebody holds
  call,    \* the handler in each slot
  faults   \* how many statements have failed so far

vars == <<users, tokens, call, faults>>

-----------------------------------------------------------------------------
(* The state.                                                              *)

Row == [sub : Subs, username : Names \cup {Null},
        picture : Pictures \cup {Null}, admin : BOOLEAN]

\* A db.User in memory, without its subject.
User == [id : Ids, username : Names \cup {Null},
         picture : Pictures \cup {Null}, admin : BOOLEAN]

ASSUME DistinctAssumption ==
  /\ Null \notin Subs \cup Ids \cup Names \cup Pictures \cup {BadName, Minted}
  /\ Null \notin Row \cup User
  /\ Minted \notin Ids
  /\ BadName \notin Names

Claims == [id : Ids \cup {Minted}, admin : BOOLEAN]

Ops == {"None", "LoginWithGoogle", "UpdateProfile", "GetCurrentUser", "ListUsers"}

\* Where a handler is: the statement it sends next, or its answer.
Statements == {"find", "insert", "assign", "update", "reread", "giveup",
               "select", "list"}

Codes == {"OK", "InvalidArgument", "Unauthenticated", "PermissionDenied",
          "AlreadyExists", "NotFound", "Internal"}

Call == [op    : Ops,
         pc    : Statements \cup {"idle", "answer"},
         sub   : Subs \cup {Null},            \* gClaims.Sub
         pic   : Pictures \cup {Null},        \* gClaims.Picture
         id    : Ids \cup {Minted, Null},     \* u.ID, or claims.UserID
         name  : Names \cup {Null},           \* req.Username
         tries : 0 .. MaxTries,               \* failed turns of the claim loop
         user  : User \cup {Null},            \* u, and then the user answered
         code  : Codes]

Idle == [op |-> "None", pc |-> "idle", sub |-> Null, pic |-> Null, id |-> Null,
         name |-> Null, tries |-> 0, user |-> Null, code |-> "OK"]

Exists(i) == i \in Ids /\ users[i] # Null

\* WHERE google_sub = s, and the mutant that forgets the clause.
Matches_Any(i, s) == Exists(i)
Matches(i, s) == Exists(i) /\ users[i].sub = s

Registered(s) == \E i \in Ids : Matches(i, s)

\* What SELECT * WHERE id = i loads.
Loaded(i) == [id |-> i, username |-> users[i].username,
              picture |-> users[i].picture, admin |-> users[i].admin]

\* The unique index on google_sub rejects another row for s.
SubTaken_Never(s) == FALSE
SubTaken(s) == Registered(s)

\* The unique index on username rejects n for the row i; it admits many NULLs.
UsernameTaken_Never(n, i) == FALSE
UsernameTaken(n, i) ==
  n # Null /\ \E j \in Ids \ {i} : Exists(j) /\ users[j].username = n

-----------------------------------------------------------------------------
(* How a handler moves on.  Each of these gives call' and nothing else.    *)

Become(c, k) == call' = [call EXCEPT ![c] = k]

Goto(c, pc) == Become(c, [call[c] EXCEPT !.pc = pc])

\* The variables of UpsertUser end with it.
Answer(c, code, user) ==
  Become(c, [call[c] EXCEPT !.pc = "answer", !.code = code, !.user = user,
                            !.pic = Null, !.tries = 0])

\* The loop `for range 10` has another turn.
TriesLeft_OffByOne(c) == call[c].tries <= MaxTries
TriesLeft(c) == call[c].tries + 1 < MaxTries

\* A turn of the loop failed, whatever the error was: the next turn, or, after
\* the last, the account as it is.
Retry_Uncounted(c) == Goto(c, "update")
Retry(c) ==
  Become(c, [call[c] EXCEPT !.pc = IF TriesLeft(c) THEN "update" ELSE "giveup",
                            !.tries = @ + 1])

\* The statement of call c returns an error that is not a unique violation
\* (for the INSERT, any error).
Fail(c) ==
  CASE call[c].pc = "select" -> Answer(c, "NotFound", Null)
    [] call[c].pc \in {"update", "reread"} /\ call[c].op = "LoginWithGoogle"
         -> Retry(c)
    [] OTHER -> Answer(c, "Internal", Null)

\* The UPDATE of call c violates the unique index on username.
RefuseUsername_LostError(c) == Fail(c)
RefuseUsername(c) ==
  IF call[c].op = "LoginWithGoogle" THEN Retry(c)
                                    ELSE Answer(c, "AlreadyExists", Null)

-----------------------------------------------------------------------------
(* What the writes make of the table.                                      *)

\* INSERT INTO users, under the fresh id i.
Inserted(c, i) ==
  [users EXCEPT ![i] = [sub |-> call[c].sub, username |-> Null,
                        picture |-> call[c].pic, admin |-> FALSE]]

\* UPDATE users SET ... with the columns of Assign: GORM leaves out those that
\* are zero in the struct, so an absent picture changes nothing.
Refreshed_Unwritten(c) == users
Refreshed_WholeRow(c) ==
  [users EXCEPT ![call[c].id].picture = IF call[c].pic # Null THEN call[c].pic ELSE @,
                ![call[c].id].admin = call[c].user.admin]
Refreshed(c) ==
  [users EXCEPT ![call[c].id].picture =
                    IF call[c].pic # Null THEN call[c].pic ELSE @]

\* UPDATE users SET username = n WHERE id = call[c].id.
Renamed_IfUnset(c, n) ==
  [users EXCEPT ![call[c].id].username = IF @ = Null THEN n ELSE @]
Renamed(c, n) == [users EXCEPT ![call[c].id].username = n]

-----------------------------------------------------------------------------
(* Requests: what the interceptor and the first lines of the handlers do.  *)

Begin(c, new) ==
  /\ call[c] = Idle
  /\ Become(c, new)
  /\ UNCHANGED <<users, tokens, faults>>

Refused(op, code) == [Idle EXCEPT !.op = op, !.pc = "answer", !.code = code]

\* A Google ID token: none, one that fails verification, or a verified one.
LoginWithGoogle(c) ==
  \/ Begin(c, Refused("LoginWithGoogle", "InvalidArgument"))
  \/ Begin(c, Refused("LoginWithGoogle", "Unauthenticated"))
  \/ \E s \in Subs, p \in Pictures \cup {Null} :
       Begin(c, [Idle EXCEPT !.op = "LoginWithGoogle", !.pc = "find",
                             !.sub = s, !.pic = p])

\* The interceptor meets no valid session JWT on one of the other RPCs.
Unauthenticated(c) ==
  \E op \in Ops \ {"None", "LoginWithGoogle"} :
    Begin(c, Refused(op, "Unauthenticated"))

\* The empty string is stored as NULL.
UpdateProfile(c) ==
  \E t \in tokens, n \in Names \cup {Null, BadName} :
    Begin(c, IF n = BadName
             THEN Refused("UpdateProfile", "InvalidArgument")
             ELSE [Idle EXCEPT !.op = "UpdateProfile", !.pc = "update",
                               !.id = t.id, !.name = n])

GetCurrentUser(c) ==
  \E t \in tokens :
    Begin(c, [Idle EXCEPT !.op = "GetCurrentUser", !.pc = "select", !.id = t.id])

\* The admin bit is the one the token was issued with.
ListUsers(c) ==
  \E t \in tokens :
    Begin(c, IF t.admin
             THEN [Idle EXCEPT !.op = "ListUsers", !.pc = "list"]
             ELSE Refused("ListUsers", "PermissionDenied"))

-----------------------------------------------------------------------------
(* Statements.                                                             *)

\* SELECT of FirstOrCreate.
FindUser(c) ==
  /\ call[c].pc = "find"
  /\ \/ /\ ~Registered(call[c].sub)
        /\ Goto(c, "insert")
     \/ \E i \in Ids :
          /\ Matches(i, call[c].sub)
          /\ Become(c, [call[c] EXCEPT !.pc = "assign", !.id = i,
                                       !.user = Loaded(i)])
  /\ UNCHANGED <<users, tokens, faults>>

\* INSERT of FirstOrCreate.  Another call may have inserted the subject since
\* the SELECT: the violation of the index is an error like any other.
InsertUser(c) ==
  /\ call[c].pc = "insert"
  /\ \/ /\ SubTaken(call[c].sub)
        /\ Fail(c)
        /\ UNCHANGED users
     \/ \E i \in Ids :
          /\ ~SubTaken(call[c].sub)
          /\ ~Exists(i)
          /\ users' = Inserted(c, i)
          /\ Become(c, [call[c] EXCEPT !.pc = "update", !.id = i, !.pic = Null])
  /\ UNCHANGED <<tokens, faults>>

\* UpsertUser: `if u.Username == nil`.
NeedsHandle_Always(u) == TRUE
NeedsHandle(u) == u.username = Null

\* UPDATE of FirstOrCreate.  Afterwards u is the row as the SELECT saw it with
\* the assigned columns on top.
RefreshUser(c) ==
  LET u == [call[c].user EXCEPT !.picture =
              IF call[c].pic # Null THEN call[c].pic ELSE @]
  IN /\ call[c].pc = "assign"
     /\ users' = Refreshed(c)
     /\ IF NeedsHandle(u)
        THEN Become(c, [call[c] EXCEPT !.pc = "update", !.pic = Null,
                                       !.user = Null])
        ELSE Answer(c, "OK", u)
     /\ UNCHANGED <<tokens, faults>>

\* The names a call may send: a login draws one, a profile update has one.
Candidates(c) ==
  IF call[c].op = "LoginWithGoogle" THEN Names ELSE {call[c].name}

\* UPDATE of UpdateUsername.  The user_id of a minted token is no uuid: the
\* database refuses the statement.
UpdateUsername(c) ==
  /\ call[c].pc = "update"
  /\ \/ /\ call[c].id = Minted
        /\ Fail(c)
        /\ UNCHANGED users
     \/ /\ call[c].id # Minted
        /\ \E n \in Candidates(c) :
             \/ /\ UsernameTaken(n, call[c].id)
                /\ RefuseUsername(c)
                /\ UNCHANGED users
             \/ /\ ~UsernameTaken(n, call[c].id)
                /\ users' = Renamed(c, n)
                /\ Goto(c, "reread")
  /\ UNCHANGED <<tokens, faults>>

\* SELECT of GetUserByID, the whole of GetCurrentUser and the last statement
\* of UpdateUsername and of a login whose tries are spent.
GetUserByID(c) ==
  /\ call[c].pc \in {"select", "reread", "giveup"}
  /\ IF Exists(call[c].id) THEN Answer(c, "OK", Loaded(call[c].id)) ELSE Fail(c)
  /\ UNCHANGED <<users, tokens, faults>>

\* SELECT of ListUsers.
SelectUsers(c) ==
  /\ call[c].pc = "list"
  /\ Answer(c, "OK", Null)
  /\ UNCHANGED <<users, tokens, faults>>

\* The handler returns; a login hands out a JWT with the user's id and
\* privilege as the answer has them.
Reply(c) ==
  /\ call[c].pc = "answer"
  /\ tokens' = IF call[c].op = "LoginWithGoogle" /\ call[c].code = "OK"
               THEN tokens \cup {[id |-> call[c].user.id,
                                  admin |-> call[c].user.admin]}
               ELSE tokens
  /\ Become(c, Idle)
  /\ UNCHANGED <<users, faults>>

-----------------------------------------------------------------------------
(* What goes wrong, and what others do.                                    *)

\* A statement fails and changes nothing: connection lost, client gone, ...
StatementFault(c) ==
  /\ faults < MaxFaults
  /\ call[c].pc \in Statements
  /\ Fail(c)
  /\ faults' = faults + 1
  /\ UNCHANGED <<users, tokens>>

\* A write commits, and the connection is lost before the handler knows.
LostCommit(c) ==
  /\ faults < MaxFaults
  /\ \/ /\ call[c].pc = "insert" /\ ~SubTaken(call[c].sub)
        /\ \E i \in Ids : ~Exists(i) /\ users' = Inserted(c, i)
     \/ /\ call[c].pc = "assign"
        /\ users' = Refreshed(c)
     \/ /\ call[c].pc = "update" /\ call[c].id # Minted
        /\ \E n \in Candidates(c) :
             ~UsernameTaken(n, call[c].id) /\ users' = Renamed(c, n)
  /\ Fail(c)
  /\ faults' = faults + 1
  /\ UNCHANGED tokens

\* The pod restarts: every handler is gone, its client sees no answer.
Crash ==
  /\ call' = [c \in Calls |-> Idle]
  /\ UNCHANGED <<users, tokens, faults>>

\* An operator runs UPDATE users SET is_admin in psql.
SetAdmin(i, b) ==
  /\ Exists(i)
  /\ users' = [users EXCEPT ![i].admin = b]
  /\ UNCHANGED <<tokens, call, faults>>

-----------------------------------------------------------------------------
Init ==
  /\ users = [i \in Ids |-> Null]
  /\ tokens = {[id |-> Minted, admin |-> TRUE]}
  /\ call = [c \in Calls |-> Idle]
  /\ faults = 0

Request(c) ==
  \/ LoginWithGoogle(c) \/ Unauthenticated(c)
  \/ UpdateProfile(c) \/ GetCurrentUser(c) \/ ListUsers(c)

Serve(c) ==
  \/ FindUser(c) \/ InsertUser(c) \/ RefreshUser(c) \/ UpdateUsername(c)
  \/ GetUserByID(c) \/ SelectUsers(c) \/ Reply(c)

Next ==
  \/ \E c \in Calls : Request(c) \/ Serve(c) \/ StatementFault(c) \/ LostCommit(c)
  \/ Crash
  \/ \E i \in Ids, b \in BOOLEAN : SetAdmin(i, b)

Spec == Init /\ [][Next]_vars

\* The Go runtime runs every handler and the database answers every statement
\* or fails it; nobody has to send a request, nothing has to fail.
FairSpec == Spec /\ \A c \in Calls : WF_vars(Serve(c))

-----------------------------------------------------------------------------
(* Properties.                                                             *)

\* Every variable has its type; in particular the claim loop of UpsertUser
\* never takes more than MaxTries turns (db.go 103).
TypeOK ==
  /\ users \in [Ids -> Row \cup {Null}]
  /\ tokens \subseteq Claims
  /\ call \in [Calls -> Call]
  /\ faults \in 0 .. MaxFaults

\* Sign-ins of one Google subject, however they interleave, fail and restart,
\* leave one account for it (UpsertUser, db.go 77-115).
OneAccountPerSubject ==
  \A i, j \in Ids : Exists(i) /\ Exists(j) /\ users[i].sub = users[j].sub => i = j

\* What a handler relies on between two of its statements: where it stands
\* fits its RPC, it has an account exactly when it needs one, the account of a
\* login is that of its subject, the user in memory is that account, and the
\* claim loop has a turn left.  A JWT names an account that exists or "admin".
CallConsistent(k) ==
  /\ k.pc \in {"find", "insert", "assign", "giveup"} => k.op = "LoginWithGoogle"
  /\ k.pc \in {"update", "reread"} => k.op \in {"LoginWithGoogle", "UpdateProfile"}
  /\ k.pc = "select" => k.op = "GetCurrentUser"
  /\ k.pc = "list" => k.op = "ListUsers"
  /\ k.pc \in {"find", "insert"} => k.sub # Null /\ k.id = Null /\ k.user = Null
  /\ k.pc \in {"assign", "update", "reread", "giveup", "select"} => k.id # Null
  /\ k.op = "LoginWithGoogle" => k.id # Minted
  /\ k.id \in Ids => Exists(k.id)
  /\ k.id \in Ids /\ k.op = "LoginWithGoogle" => users[k.id].sub = k.sub
  /\ k.pc = "assign" => k.user # Null
  /\ k.user # Null => k.user.id = k.id
  /\ k.op = "LoginWithGoogle" /\ k.pc \in {"find", "insert", "assign", "update", "reread"}
       => k.tries < MaxTries
  /\ k.op = "LoginWithGoogle" /\ k.pc = "answer" /\ k.code = "OK" => k.user # Null

\* Handlers stay consistent although others write the table between their
\* statements (db.go 81-156): no account a handler has found ever goes away or
\* changes hands.
Consistent ==
  /\ \A c \in Calls : CallConsistent(call[c])
  /\ \A t \in tokens : t.id # Minted => Exists(t.id)

\* A login answers with the account of the Google subject that signed in, and
\* the other RPCs with the account their session JWT names (service.go 67-131):
\* no interleaving hands one person the account, or the JWT, of another.
AnswerIsOwnAccount ==
  \A c \in Calls :
    call[c].pc = "answer" /\ call[c].user # Null =>
      /\ Exists(call[c].user.id)
      /\ call[c].id = call[c].user.id
      /\ call[c].op = "LoginWithGoogle" =>
           users[call[c].user.id].sub = call[c].sub

\* As long as no statement has failed by itself, the error a client is given
\* is the true reason: Internal for a minted identity or for the loser of two
\* first sign-ins, NotFound for a minted identity, AlreadyExists for a profile
\* update to a username (service.go 78-81, 107-113, 125-128).
ErrorsExplained ==
  \A c \in Calls : call[c].pc = "answer" /\ faults = 0 =>
    /\ call[c].code = "Internal" =>
         \/ call[c].id = Minted
         \/ call[c].op = "LoginWithGoogle" /\ call[c].id = Null
              /\ Registered(call[c].sub)
    /\ call[c].code = "NotFound" => call[c].id = Minted
    /\ call[c].code = "AlreadyExists" =>
         call[c].op = "UpdateProfile" /\ call[c].name # Null

\* No step of a handler grants or takes the admin flag, and accounts begin
\* without it (db.go 34, 94-100): only the operator changes it.
PrivilegeOnlyByOperator ==
  [][call' # call =>
       \A i \in Ids : Exists(i)' =>
         users[i]'.admin = (Exists(i) /\ users[i].admin)]_vars

\* What the account of the subject s looks like from outside.
AccountOf(s) ==
  IF Registered(s) THEN Loaded(CHOOSE i \in Ids : Matches(i, s)) ELSE Null

Abstract == INSTANCE Accounts WITH accounts <- [s \in Subs |-> AccountOf(s)]

\* Through all faults, crashes and races the table does what Accounts says:
\* one account and one id per subject for good, never a username twice.
ImplementsAccounts == Abstract!Spec

\* Every call is answered, unless the pod restarts under it: the claim loop
\* and the retries end (db.go 102-112).
EveryCallAnswered ==
  \A c \in Calls : call[c] # Idle ~> call[c] = Idle
=============================================================================
