----------------------- MODULE AuthServiceHistoryProofs -----------------------
(***************************************************************************)
(* Proofs about what an answer is worth, for any number of calls, people,  *)
(* usernames, tries and faults, and any bound on the tables of a call.     *)
(* The inductive invariant says, for each place where a handler carries    *)
(* something from one statement to the next, in which table of the call it *)
(* was found.                                                              *)
(***************************************************************************)
EXTENDS AuthServiceHistory, AuthServiceProofs

\* The account i of the table t is what u says.
Holds(t, i, u) ==
  t[i] # Null /\ t[i].username = u.username /\ t[i].picture = u.picture /\ t[i].admin = u.admin

\* Between the two statements of FirstOrCreate: u was read during the call.
Found(c) ==
  call[c].pc = "assign" => \E t \in moments[c] : Holds(t, call[c].id, call[c].user)

\* In the claim loop: the account was met without a username.
Nameless(c) ==
  call[c].op = "LoginWithGoogle" /\ call[c].pc \in {"update", "reread"} =>
    \E t \in moments[c] : Column(t, call[c].id, "username") = Null

\* The account of c had the username that was asked for.
Took(c) == \E t \in moments[c] : t[call[c].id] # Null /\ t[call[c].id].username = call[c].name

\* Between the two statements of UpdateUsername, and when it is acknowledged.
TookEffect(c) ==
  call[c].op = "UpdateProfile" /\ (call[c].pc = "reread" \/ Answered(c, "OK")) => Took(c)

\* FreshAnswer for one call.
Fresh(c) ==
  Answered(c, "OK") /\ call[c].user # Null =>
    \A column \in {"username", "picture", "admin"} :
      \E t \in moments[c] :
        /\ t[call[c].user.id] # Null
        /\ t[call[c].user.id][column] = call[c].user[column]

HistoryOK(c) == Found(c) /\ Nameless(c) /\ TookEffect(c) /\ Fresh(c)

HInv == Inv /\ \A c \in Calls : HistoryOK(c)

-----------------------------------------------------------------------------
(* The history of a call only grows while it lasts.                        *)

LEMMA MomentsGrow ==
  ASSUME HNext, NEW c \in Calls, call'[c] # Idle
  PROVE  /\ moments[c] \subseteq moments'[c]
         /\ call[c].pc # "answer" => users' \in moments'[c]
<1>1. moments'[c] = CASE call'[c] = Idle -> {}
                      [] call'[c] # Idle /\ call[c].pc = "answer" -> moments[c]
                      [] OTHER -> moments[c] \cup {users'}
  BY DEF HNext
<1>2. CASE call[c].pc = "answer"
  BY <1>1, <1>2
<1>3. CASE call[c].pc # "answer"
  BY <1>1, <1>3
<1>4. QED
  BY <1>2, <1>3

LEMMA IdleHistory ==
  ASSUME NEW c \in Calls, call[c].pc \notin {"assign", "update", "reread", "answer"}
  PROVE  HistoryOK(c)
  BY DEF HistoryOK, Found, Nameless, TookEffect, Fresh, Answered

LEMMA HistoryStays ==
  ASSUME HNext, NEW d \in Calls, HistoryOK(d), call'[d] = call[d]
  PROVE  HistoryOK(d)'
<1>1. CASE call[d] = Idle
  BY <1>1 DEF HistoryOK, Found, Nameless, TookEffect, Fresh, Answered, Idle
<1>2. CASE call[d] # Idle
  <2>1. moments[d] \subseteq moments'[d]
    BY <1>2, MomentsGrow
  <2>2. Found(d)' /\ Nameless(d)' /\ TookEffect(d)'
    BY <2>1 DEF HistoryOK, Found, Nameless, TookEffect, Took, Answered, Holds, Column
  <2>3. Fresh(d)'
    BY <2>1 DEF HistoryOK, Fresh, Answered
  <2>4. QED
    BY <2>2, <2>3 DEF HistoryOK
<1>3. QED
  BY <1>1, <1>2

\* A statement that fails or is refused: nothing is claimed of an error, and
\* the claim loop still knows where the account had no username.
LEMMA GivenInHistory ==
  ASSUME HNext, NEW c \in Calls, HistoryOK(c), GivesIn(c)
  PROVE  HistoryOK(c)'
<1>1. call'[c].id = call[c].id /\ call'[c].op = call[c].op
  BY DEF GivesIn
<1>2. CASE call'[c].pc = "answer" /\ call'[c].code # "OK"
  BY <1>2 DEF HistoryOK, Found, Nameless, TookEffect, Fresh, Answered
<1>3. CASE /\ call[c].op = "LoginWithGoogle" /\ call[c].pc \in {"update", "reread"}
           /\ call'[c].pc \in {"update", "giveup"}
  <2>1. moments[c] \subseteq moments'[c]
    BY <1>3, MomentsGrow DEF Idle
  <2>2. Nameless(c)'
    BY <1>1, <1>3, <2>1 DEF HistoryOK, Nameless, Column
  <2>3. QED
    BY <1>1, <1>3, <2>2 DEF HistoryOK, Found, TookEffect, Fresh, Answered
<1>4. QED
  BY <1>2, <1>3 DEF GivesIn

-----------------------------------------------------------------------------
(* The statements.                                                         *)

LEMMA RequestHistory ==
  ASSUME Inv, HNext, NEW c \in Calls, Request(c)
  PROVE  HistoryOK(c)'
<1>1. ASSUME NEW k, Begin(c, k),
             \/ k.pc \in {"find", "select", "list"}
             \/ k.pc = "update" /\ k.op = "UpdateProfile"
             \/ k.pc = "answer" /\ k.code # "OK"
      PROVE  HistoryOK(c)'
  <2>1. call'[c] = k
    BY <1>1 DEF Begin, Become, Inv, TypeOK
  <2>2. QED
    BY <1>1, <2>1 DEF HistoryOK, Found, Nameless, TookEffect, Fresh, Answered
<1>2. ASSUME NEW op, NEW code, code # "OK", Begin(c, Refused(op, code))
      PROVE  HistoryOK(c)'
  <2>1. Refused(op, code).code = code /\ Refused(op, code).pc = "answer"
    BY DEF Refused, Idle
  <2>2. QED
    BY <1>1, <1>2, <2>1
<1>3. ASSUME LoginWithGoogle(c) PROVE HistoryOK(c)'
  <2>1. ASSUME NEW s \in Subs, NEW p \in Pictures \cup {Null},
               Begin(c, [Idle EXCEPT !.op = "LoginWithGoogle", !.pc = "find",
                                     !.sub = s, !.pic = p])
        PROVE  HistoryOK(c)'
    <3>1. [Idle EXCEPT !.op = "LoginWithGoogle", !.pc = "find",
                       !.sub = s, !.pic = p].pc = "find"
      BY DEF Idle
    <3>2. QED
      BY <1>1, <2>1, <3>1
  <2>2. QED
    BY <1>2, <1>3, <2>1 DEF LoginWithGoogle
<1>4. ASSUME UpdateProfile(c) PROVE HistoryOK(c)'
  <2>1. PICK t \in tokens, n \in Names \cup {Null, BadName} :
          Begin(c, IF n = BadName
                   THEN Refused("UpdateProfile", "InvalidArgument")
                   ELSE [Idle EXCEPT !.op = "UpdateProfile", !.pc = "update",
                                     !.id = t.id, !.name = n])
    BY <1>4 DEF UpdateProfile
  <2> DEFINE k == [Idle EXCEPT !.op = "UpdateProfile", !.pc = "update",
                               !.id = t.id, !.name = n]
  <2>2. k.pc = "update" /\ k.op = "UpdateProfile"
    BY DEF Idle
  <2>3. CASE n = BadName
    BY <1>2, <2>1, <2>3
  <2>4. CASE n # BadName
    BY <1>1, <2>1, <2>2, <2>4
  <2>5. QED
    BY <2>3, <2>4
<1>5. ASSUME GetCurrentUser(c) PROVE HistoryOK(c)'
  <2>1. PICK t \in tokens :
          Begin(c, [Idle EXCEPT !.op = "GetCurrentUser", !.pc = "select", !.id = t.id])
    BY <1>5 DEF GetCurrentUser
  <2>2. [Idle EXCEPT !.op = "GetCurrentUser", !.pc = "select", !.id = t.id].pc = "select"
    BY DEF Idle
  <2>3. QED
    BY <1>1, <2>1, <2>2
<1>6. ASSUME ListUsers(c) PROVE HistoryOK(c)'
  <2>1. \/ Begin(c, [Idle EXCEPT !.op = "ListUsers", !.pc = "list"])
        \/ Begin(c, Refused("ListUsers", "PermissionDenied"))
    BY <1>6 DEF ListUsers
  <2>2. [Idle EXCEPT !.op = "ListUsers", !.pc = "list"].pc = "list"
    BY DEF Idle
  <2>3. QED
    BY <1>1, <1>2, <2>1, <2>2
<1>7. QED
  BY <1>2, <1>3, <1>4, <1>5, <1>6 DEF Request, Unauthenticated

LEMMA FindUserHistory ==
  ASSUME Inv, HNext, NEW c \in Calls, FindUser(c)
  PROVE  HistoryOK(c)'
<1>1. call[c] \in Call /\ call[c].pc = "find" /\ UNCHANGED users
  BY DEF Inv, TypeOK, FindUser
<1>2. CASE Goto(c, "insert")
  <2>1. call'[c].pc = "insert"
    BY <1>1, <1>2, GotoFields DEF Inv, Statements, Call
  <2>2. QED
    BY <2>1 DEF HistoryOK, Found, Nameless, TookEffect, Fresh, Answered
<1>3. ASSUME NEW i \in Ids, Matches(i, call[c].sub),
             Become(c, [call[c] EXCEPT !.pc = "assign", !.id = i, !.user = Loaded(i)])
      PROVE  HistoryOK(c)'
  <2>1. call'[c].pc = "assign" /\ call'[c].id = i /\ call'[c].user = Loaded(i)
    BY <1>1, <1>3 DEF Become, Inv, TypeOK, Call
  <2>2. users' \in moments'[c]
    BY <1>1, <2>1, MomentsGrow DEF Idle
  <2>3. Holds(users', i, Loaded(i))
    BY <1>1, <1>3 DEF Holds, Loaded, Matches, Exists
  <2>4. Found(c)'
    BY <2>1, <2>2, <2>3 DEF Found, Holds
  <2>5. QED
    BY <2>1, <2>4 DEF HistoryOK, Nameless, TookEffect, Fresh, Answered
<1>4. QED
  BY <1>2, <1>3 DEF FindUser

LEMMA InsertUserHistory ==
  ASSUME Inv, HNext, NEW c \in Calls, HistoryOK(c), InsertUser(c)
  PROVE  HistoryOK(c)'
<1>1. call[c] \in Call /\ call[c].pc = "insert"
  BY DEF Inv, TypeOK, InsertUser
<1>2. CASE Fail(c)
  BY <1>2, FailFields, GivenInHistory DEF Inv
<1>3. ASSUME NEW i \in Ids, users' = Inserted(c, i),
             Become(c, [call[c] EXCEPT !.pc = "update", !.id = i, !.pic = Null])
      PROVE  HistoryOK(c)'
  <2>1. call'[c].pc = "update" /\ call'[c].id = i /\ call'[c].op = call[c].op
    BY <1>1, <1>3 DEF Become, Inv, TypeOK, Call
  <2>2. users' \in moments'[c]
    BY <1>1, <2>1, MomentsGrow DEF Idle
  <2>3. users'[i].username = Null
    BY <1>3 DEF Inserted, Inv, TypeOK
  <2>4. Column(users', i, "username") = Null
    BY <2>3 DEF Column
  <2>5. Nameless(c)'
    BY <2>1, <2>2, <2>4 DEF Nameless, Column
  <2>6. QED
    BY <2>1, <2>5 DEF HistoryOK, Found, TookEffect, Fresh, Answered
<1>4. QED
  BY <1>2, <1>3 DEF InsertUser

\* A login is answered with what the SELECT read and the picture just written.
LEMMA RefreshUserHistory ==
  ASSUME Inv, HNext, NEW c \in Calls, HistoryOK(c), RefreshUser(c)
  PROVE  HistoryOK(c)'
<1> DEFINE i == call[c].id
           u == [call[c].user EXCEPT !.picture =
                   IF call[c].pic # Null THEN call[c].pic ELSE @]
<1>1. /\ call[c] \in Call /\ CallConsistent(call[c]) /\ call[c].pc = "assign"
      /\ call[c].op = "LoginWithGoogle"
  BY DEF Inv, TypeOK, Consistent, RefreshUser, CallConsistent
<1>2. /\ i \in Ids /\ Exists(i) /\ call[c].user \in User /\ call[c].user.id = i
      /\ call[c].pic \in Pictures \cup {Null}
  BY <1>1 DEF CallConsistent, Call
<1>3. PICK t \in moments[c] : Holds(t, i, call[c].user)
  BY <1>1 DEF HistoryOK, Found
<1>4. /\ u \in User /\ u.id = i
      /\ u.username = call[c].user.username /\ u.admin = call[c].user.admin
      /\ u.picture = IF call[c].pic # Null THEN call[c].pic ELSE call[c].user.picture
  BY <1>2 DEF User
<1>5. /\ users'[i] # Null
      /\ call[c].pic # Null => users'[i].picture = call[c].pic
  BY <1>2, RefreshedTable DEF RefreshUser, Inv, Kept, Exists
<1>6. CASE /\ NeedsHandle(u)
           /\ Become(c, [call[c] EXCEPT !.pc = "update", !.pic = Null, !.user = Null])
  <2>1. call'[c].pc = "update" /\ call'[c].id = i /\ call'[c].op = "LoginWithGoogle"
    BY <1>1, <1>6 DEF Become, Inv, TypeOK, Call
  <2>2. moments[c] \subseteq moments'[c]
    BY <2>1, MomentsGrow DEF Idle
  <2>3. Column(t, i, "username") = Null
    BY <1>3, <1>4, <1>6 DEF Column, Holds, NeedsHandle
  <2>4. Nameless(c)'
    BY <2>1, <2>2, <2>3 DEF Nameless, Column
  <2>5. QED
    BY <2>1, <2>4 DEF HistoryOK, Found, TookEffect, Fresh, Answered
<1>7. CASE Answer(c, "OK", u)
  <2>1. /\ call'[c].op = "LoginWithGoogle" /\ call'[c].pc = "answer" /\ call'[c].user = u
    BY <1>1, <1>4, <1>7, AnswerFields DEF Inv, Codes
  <2>2. moments[c] \subseteq moments'[c] /\ users' \in moments'[c]
    BY <1>1, <2>1, MomentsGrow DEF Idle
  <2>3. /\ t[u.id] # Null /\ t[u.id]["username"] = u["username"] /\ t[u.id]["admin"] = u["admin"]
    BY <1>3, <1>4 DEF Holds
  <2>4. call[c].pic # Null => users'[u.id] # Null /\ users'[u.id]["picture"] = u["picture"]
    BY <1>4, <1>5
  <2>5. call[c].pic = Null => t[u.id]["picture"] = u["picture"]
    BY <1>3, <1>4 DEF Holds
  <2>6. \A column \in {"username", "picture", "admin"} :
          \E s \in moments'[c] : s[u.id] # Null /\ s[u.id][column] = u[column]
    <3> HIDE DEF u
    <3>1. \A column \in {"username", "picture", "admin"} :
            \/ column = "picture" /\ call[c].pic # Null
            \/ t[u.id][column] = u[column]
      BY <2>3, <2>5
    <3>2. t \in moments'[c]
      BY <1>3, <2>2
    <3>3. QED
      BY <2>2, <2>3, <2>4, <3>1, <3>2
  <2>7. Fresh(c)'
    BY <2>1, <2>6, Zenon DEF Fresh
  <2>8. QED
    BY <2>1, <2>7 DEF HistoryOK, Found, Nameless, TookEffect
<1>8. QED
  BY <1>6, <1>7 DEF RefreshUser

LEMMA UpdateUsernameHistory ==
  ASSUME Inv, HNext, NEW c \in Calls, HistoryOK(c), UpdateUsername(c)
  PROVE  HistoryOK(c)'
<1>1. call[c] \in Call /\ CallConsistent(call[c]) /\ call[c].pc = "update"
  BY DEF Inv, TypeOK, Consistent, UpdateUsername
<1>2. CASE Fail(c) \/ RefuseUsername(c)
  BY <1>1, <1>2, FailFields, RefuseFields, GivenInHistory DEF Inv
<1>3. ASSUME call[c].id # Minted, NEW n \in Candidates(c), users' = Renamed(c, n),
             Goto(c, "reread")
      PROVE  HistoryOK(c)'
  <2>1. call[c].id \in Ids /\ Exists(call[c].id)
    BY <1>1, <1>3 DEF CallConsistent, Call
  <2>2. users'[call[c].id] # Null /\ users'[call[c].id].username = n
    BY <1>3, <2>1, CandidateNames, RenamedTable DEF Inv, Kept, Exists
  <2>3. /\ call'[c].pc = "reread" /\ call'[c].op = call[c].op
        /\ call'[c].id = call[c].id /\ call'[c].name = call[c].name
    BY <1>1, <1>3, GotoFields DEF Inv, Statements, Call
  <2>4. moments[c] \subseteq moments'[c] /\ users' \in moments'[c]
    BY <1>1, <2>3, MomentsGrow DEF Idle
  <2>5. Nameless(c)'
    BY <1>1, <2>3, <2>4 DEF HistoryOK, Nameless, Column
  <2>6. TookEffect(c)'
    <3>1. call[c].op = "UpdateProfile" => n = call[c].name
      BY <1>3 DEF Candidates
    <3>2. QED
      BY <2>2, <2>3, <2>4, <3>1 DEF TookEffect, Took
  <2>7. QED
    BY <2>3, <2>5, <2>6 DEF HistoryOK, Found, Fresh, Answered
<1>4. QED
  BY <1>2, <1>3 DEF UpdateUsername

LEMMA GetUserByIDHistory ==
  ASSUME Inv, HNext, NEW c \in Calls, HistoryOK(c), GetUserByID(c)
  PROVE  HistoryOK(c)'
<1>1. /\ call[c] \in Call /\ CallConsistent(call[c])
      /\ call[c].pc \in {"select", "reread", "giveup"} /\ UNCHANGED users
  BY DEF Inv, TypeOK, Consistent, GetUserByID
<1>2. CASE Fail(c)
  BY <1>2, FailFields, GivenInHistory DEF Inv
<1>3. CASE Exists(call[c].id) /\ Answer(c, "OK", Loaded(call[c].id))
  <2> DEFINE i == call[c].id
             u == Loaded(i)
  <2>1. i \in Ids /\ u \in User /\ u.id = i
    BY <1>3, LoadedUser DEF Exists, Inv
  <2>2. /\ call'[c].pc = "answer" /\ call'[c].op = call[c].op /\ call'[c].id = i
        /\ call'[c].user = u /\ call'[c].name = call[c].name
    BY <1>3, <2>1, AnswerFields DEF Inv, Codes
  <2>3. moments[c] \subseteq moments'[c] /\ users' \in moments'[c]
    BY <1>1, <2>2, MomentsGrow DEF Idle
  <2>4. /\ users'[u.id] # Null /\ users'[u.id]["username"] = u["username"]
        /\ users'[u.id]["picture"] = u["picture"] /\ users'[u.id]["admin"] = u["admin"]
    BY <1>1, <1>3, <2>1 DEF Loaded, Exists
  <2>5. \A column \in {"username", "picture", "admin"} :
          \E s \in moments'[c] : s[u.id] # Null /\ s[u.id][column] = u[column]
    <3> HIDE DEF u
    <3>1. \A column \in {"username", "picture", "admin"} : users'[u.id][column] = u[column]
      BY <2>4
    <3>2. QED
      BY <2>3, <2>4, <3>1
  <2>6. Fresh(c)'
    BY <2>2, <2>5, Zenon DEF Fresh
  <2>7. TookEffect(c)'
    <3>1. call[c].op = "UpdateProfile" => call[c].pc = "reread"
      BY <1>1 DEF CallConsistent
    <3>2. QED
      BY <2>2, <2>3, <3>1 DEF HistoryOK, TookEffect, Took
  <2>8. QED
    BY <2>2, <2>6, <2>7 DEF HistoryOK, Found, Nameless
<1>4. QED
  BY <1>2, <1>3 DEF GetUserByID

LEMMA SelectUsersHistory ==
  ASSUME Inv, HNext, NEW c \in Calls, SelectUsers(c)
  PROVE  HistoryOK(c)'
<1>1. call[c].op = "ListUsers"
  BY DEF SelectUsers, Inv, Consistent, CallConsistent
<1>2. call'[c].pc = "answer" /\ call'[c].user = Null /\ call'[c].op = "ListUsers"
  BY <1>1, AnswerFields DEF SelectUsers, Inv, Codes
<1>3. QED
  BY <1>2 DEF HistoryOK, Found, Nameless, TookEffect, Fresh

LEMMA ReplyHistory ==
  ASSUME Inv, NEW c \in Calls, call'[c] = Idle
  PROVE  HistoryOK(c)'
  BY DEF HistoryOK, Found, Nameless, TookEffect, Fresh, Answered, Idle
-----------------------------------------------------------------------------
(* The invariant.                                                          *)

LEMMA ServeMovesOne ==
  ASSUME Inv, NEW c \in Calls, Request(c) \/ Serve(c) \/ StatementFault(c) \/ LostCommit(c)
  PROVE  Only(c)
<1>1. \A k : Become(c, k) => Only(c)
  BY DEF Become, Only, Inv, TypeOK
<1>2. \A pc, code, user : (Goto(c, pc) => Only(c)) /\ (Answer(c, code, user) => Only(c))
  BY <1>1 DEF Goto, Answer
<1>3. Fail(c) \/ RefuseUsername(c) => Only(c)
  <2>1. Retry(c) => Only(c)
    BY <1>1 DEF Retry
  <2>2. QED
    BY <1>2, <2>1 DEF Fail, RefuseUsername
<1>4. \A k : Begin(c, k) => Only(c)
  BY <1>1 DEF Begin
<1>5. CASE Request(c)
  BY <1>4, <1>5 DEF Request, LoginWithGoogle, Unauthenticated, UpdateProfile, GetCurrentUser, ListUsers
<1>6. CASE FindUser(c) \/ InsertUser(c) \/ RefreshUser(c) \/ UpdateUsername(c)
  BY <1>1, <1>2, <1>3, <1>6 DEF FindUser, InsertUser, RefreshUser, UpdateUsername
<1>7. CASE GetUserByID(c) \/ SelectUsers(c) \/ Reply(c) \/ StatementFault(c) \/ LostCommit(c)
  BY <1>1, <1>2, <1>3, <1>7 DEF GetUserByID, SelectUsers, Reply, StatementFault, LostCommit
<1>8. QED
  BY <1>5, <1>6, <1>7 DEF Serve

LEMMA InitHInv == HInit => HInv
<1> SUFFICES ASSUME HInit PROVE HInv
  OBVIOUS
<1>1. Inv
  BY InitInv DEF HInit
<1>2. \A c \in Calls : call[c].pc = "idle"
  BY DEF HInit, Init, Idle
<1>3. QED
  BY <1>1, <1>2, IdleHistory DEF HInv

LEMMA NextHInv == HInv /\ [HNext]_hvars => HInv'
<1> SUFFICES ASSUME HInv, [HNext]_hvars PROVE HInv'
  OBVIOUS
<1>1. Inv /\ \A c \in Calls : HistoryOK(c)
  BY DEF HInv
<1>2. Inv'
  BY <1>1, NextInv DEF HNext, hvars
<1>3. CASE UNCHANGED hvars
  <2>1. UNCHANGED <<call, moments>>
    BY <1>3 DEF hvars, vars
  <2>2. \A c \in Calls : HistoryOK(c)'
    BY <1>1, <2>1 DEF HistoryOK, Found, Nameless, TookEffect, Took, Fresh, Answered
  <2>3. QED
    BY <1>2, <2>2 DEF HInv
<1>4. ASSUME HNext, NEW c \in Calls, HistoryOK(c)', Only(c)
      PROVE  HInv'
  <2>1. \A d \in Calls \ {c} : HistoryOK(d)'
    BY <1>1, <1>4, HistoryStays DEF Only
  <2>2. QED
    BY <1>2, <1>4, <2>1 DEF HInv
<1>5. ASSUME HNext, NEW c \in Calls, Request(c) \/ Serve(c) \/ StatementFault(c) \/ LostCommit(c)
      PROVE  HInv'
  <2>1. HistoryOK(c)
    BY <1>1
  <2>2. CASE Request(c)
    BY <1>1, <1>4, <1>5, <2>2, RequestHistory, ServeMovesOne
  <2>3. CASE StatementFault(c) \/ LostCommit(c)
    BY <1>1, <1>4, <1>5, <2>1, <2>3, FailFields, GivenInHistory, ServeMovesOne
       DEF StatementFault, LostCommit, Inv
  <2>4. CASE Serve(c)
    <3>1. Reply(c) => HistoryOK(c)'
      BY <1>1, ReplyHistory DEF Reply, Become, Inv, TypeOK
    <3>2. HistoryOK(c)'
      BY <1>1, <1>5, <2>1, <2>4, <3>1, FindUserHistory, InsertUserHistory, RefreshUserHistory,
         UpdateUsernameHistory, GetUserByIDHistory, SelectUsersHistory DEF Serve
    <3>3. QED
      BY <1>1, <1>4, <1>5, <2>4, <3>2, ServeMovesOne
  <2>5. QED
    BY <1>5, <2>2, <2>3, <2>4
<1>6. CASE HNext /\ Crash
  <2>1. \A c \in Calls : HistoryOK(c)'
    BY <1>1, <1>6, ReplyHistory DEF Crash
  <2>2. QED
    BY <1>2, <2>1 DEF HInv
<1>7. ASSUME HNext, NEW i \in Ids, NEW b \in BOOLEAN, SetAdmin(i, b) PROVE HInv'
  <2>1. \A c \in Calls : HistoryOK(c)'
    BY <1>1, <1>7, HistoryStays DEF SetAdmin
  <2>2. QED
    BY <1>2, <2>1 DEF HInv
<1>8. QED
  BY <1>3, <1>5, <1>6, <1>7 DEF HNext, Next

\* What a handler knows of the table it has seen during its call.
THEOREM HistoryInvariance == HSpec => []HInv
  BY InitHInv, NextHInv, PTL DEF HSpec

\* Every column of a user that is answered was in the database at some moment
\* of the call: no answer is older than its request (db.go 94-114, 118-124).
THEOREM AnswersAreFresh == HSpec => []FreshAnswer
<1>1. HInv => FreshAnswer
  BY DEF HInv, HistoryOK, Fresh, FreshAnswer
<1>2. QED
  BY <1>1, HistoryInvariance, PTL

\* A profile update that was acknowledged took effect during the call, also
\* when another call has replaced the username since (service.go 107-115).
THEOREM RenamesTakeEffect == HSpec => []AcknowledgedRenameTookEffect
<1>1. HInv => AcknowledgedRenameTookEffect
  BY DEF HInv, HistoryOK, TookEffect, Took, AcknowledgedRenameTookEffect
<1>2. QED
  BY <1>1, HistoryInvariance, PTL

\* A login writes a username only if it has met its account without one
\* during the call (db.go 102).
THEOREM LoginsRenameOnlyNameless == HSpec => LoginRenamesOnlyNameless
<1>1. HInv /\ [HNext]_hvars =>
        [\A c \in Calls : call[c].op = "LoginWithGoogle" /\ Renames(c) =>
           \E t \in moments[c] : Column(t, call[c].id, "username") = Null]_hvars
  BY DEF HInv, HistoryOK, Nameless, Renames
<1>2. QED
  BY <1>1, HistoryInvariance, PTL DEF HSpec, LoginRenamesOnlyNameless
=============================================================================
