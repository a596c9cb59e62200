-------------------------- MODULE AuthServiceProofs --------------------------
(***************************************************************************)
(* Proofs about AuthService, for any number of calls, people, usernames,   *)
(* tries and faults.  The inductive invariant is Inv: TypeOK, Consistent   *)
(* and OneAccountPerSubject together; ErrorsExplained is inductive once    *)
(* Inv holds.  The last part is the refinement of Accounts.                *)
(***************************************************************************)
EXTENDS AuthService, TLAPS

Inv == TypeOK /\ Consistent /\ OneAccountPerSubject

\* In this step no handler but c's moves.
Only(c) == \A d \in Calls \ {c} : call'[d] = call[d]

\* What an unsuccessful statement makes of c: an error answered, or another
\* turn of the claim loop, or its end.
GivesIn(c) ==
  /\ call' \in [Calls -> Call]
  /\ Only(c)
  /\ call'[c].op = call[c].op
  /\ call'[c].sub = call[c].sub
  /\ call'[c].id = call[c].id
  /\ \/ call'[c].pc = "answer" /\ call'[c].code # "OK" /\ call'[c].user = Null
     \/ /\ call[c].op = "LoginWithGoogle"
        /\ call[c].pc \in {"update", "reread"}
        /\ call'[c].pc \in {"update", "giveup"}
        /\ call'[c].pc = "update" => call'[c].tries < MaxTries
        /\ call'[c].user = call[c].user

\* No account goes away or changes hands, and the table stays well typed.
Kept ==
  /\ users' \in [Ids -> Row \cup {Null}]
  /\ \A i \in Ids : Exists(i) => Exists(i)' /\ users'[i].sub = users[i].sub

NoneAdded == \A i \in Ids : Exists(i)' => Exists(i)

-----------------------------------------------------------------------------
(* How the helpers change the record of a call.                            *)

LEMMA BecomeFields ==
  ASSUME TypeOK, NEW c \in Calls, NEW k \in Call, Become(c, k)
  PROVE  call' \in [Calls -> Call] /\ Only(c) /\ call'[c] = k
  BY DEF TypeOK, Become, Only

LEMMA GotoFields ==
  ASSUME TypeOK, NEW c \in Calls, NEW pc \in Statements, Goto(c, pc)
  PROVE  /\ call' \in [Calls -> Call]
         /\ Only(c)
         /\ call'[c] = [call[c] EXCEPT !.pc = pc]
<1>1. [call[c] EXCEPT !.pc = pc] \in Call
  BY DEF TypeOK, Call
<1>2. QED
  BY <1>1, BecomeFields DEF Goto

LEMMA AnswerFields ==
  ASSUME TypeOK, NEW c \in Calls, NEW code \in Codes, NEW user \in User \cup {Null},
         Answer(c, code, user)
  PROVE  /\ call' \in [Calls -> Call]
         /\ Only(c)
         /\ call'[c].op = call[c].op /\ call'[c].pc = "answer"
         /\ call'[c].sub = call[c].sub /\ call'[c].id = call[c].id
         /\ call'[c].user = user /\ call'[c].code = code /\ call'[c].name = call[c].name
<1> DEFINE k == [call[c] EXCEPT !.pc = "answer", !.code = code, !.user = user,
                                !.pic = Null, !.tries = 0]
<1>1. k \in Call
  <2>1. call[c] \in Call /\ 0 \in 0 .. MaxTries
    BY BoundsAssumption DEF TypeOK
  <2>2. QED
    BY <2>1 DEF Call
<1>2. call' \in [Calls -> Call] /\ Only(c) /\ call'[c] = k
  BY <1>1, BecomeFields DEF Answer
<1>3. /\ k.op = call[c].op /\ k.pc = "answer" /\ k.sub = call[c].sub
      /\ k.id = call[c].id /\ k.user = user /\ k.code = code /\ k.name = call[c].name
  BY DEF TypeOK, Call
<1>4. QED
  BY <1>2, <1>3

LEMMA RetryFields ==
  ASSUME TypeOK, NEW c \in Calls, Retry(c), call[c].tries < MaxTries
  PROVE  /\ call' \in [Calls -> Call]
         /\ Only(c)
         /\ call'[c].op = call[c].op
         /\ call'[c].pc \in {"update", "giveup"}
         /\ call'[c].pc = "update" => call'[c].tries < MaxTries
         /\ call'[c].sub = call[c].sub /\ call'[c].id = call[c].id
         /\ call'[c].user = call[c].user
<1> DEFINE k == [call[c] EXCEPT !.pc = IF TriesLeft(c) THEN "update" ELSE "giveup",
                                !.tries = @ + 1]
<1>1. k \in Call
  <2>1. call[c] \in Call
    BY DEF TypeOK
  <2>2. call[c].tries + 1 \in 0 .. MaxTries
    BY <2>1, BoundsAssumption DEF Call
  <2>3. QED
    BY <2>1, <2>2 DEF Call, Statements
<1>2. call' \in [Calls -> Call] /\ Only(c) /\ call'[c] = k
  BY <1>1, BecomeFields DEF Retry
<1>3. /\ k.op = call[c].op /\ k.sub = call[c].sub
      /\ k.id = call[c].id /\ k.user = call[c].user
      /\ k.pc \in {"update", "giveup"}
      /\ k.pc = "update" => k.tries < MaxTries
  BY BoundsAssumption DEF TypeOK, Call, TriesLeft
<1>4. QED
  BY <1>2, <1>3

LEMMA FailFields ==
  ASSUME TypeOK, Consistent, NEW c \in Calls, Fail(c)
  PROVE  GivesIn(c)
<1>1. call[c].op = "LoginWithGoogle" /\ call[c].pc \in {"update", "reread"}
        => call[c].tries < MaxTries
  BY DEF Consistent, CallConsistent
<1>2. "NotFound" \in Codes /\ "Internal" \in Codes /\ Null \in User \cup {Null}
  BY DEF Codes
<1>3. CASE call[c].pc = "select"
  <2>1. Answer(c, "NotFound", Null)
    BY <1>3 DEF Fail
  <2>2. QED
    BY <2>1, <1>2, AnswerFields DEF GivesIn
<1>4. CASE call[c].pc \in {"update", "reread"} /\ call[c].op = "LoginWithGoogle"
  <2>1. Retry(c)
    BY <1>4 DEF Fail
  <2>2. QED
    BY <2>1, <1>1, <1>4, RetryFields DEF GivesIn
<1>5. CASE /\ call[c].pc # "select"
           /\ ~(call[c].pc \in {"update", "reread"} /\ call[c].op = "LoginWithGoogle")
  <2>1. Answer(c, "Internal", Null)
    BY <1>5 DEF Fail
  <2>2. QED
    BY <2>1, <1>2, AnswerFields DEF GivesIn
<1>6. QED
  BY <1>3, <1>4, <1>5

LEMMA RefuseFields ==
  ASSUME TypeOK, Consistent, NEW c \in Calls, call[c].pc = "update", RefuseUsername(c)
  PROVE  GivesIn(c)
<1>1. call[c].op = "LoginWithGoogle" => call[c].tries < MaxTries
  BY DEF Consistent, CallConsistent
<1>2. CASE call[c].op = "LoginWithGoogle"
  BY <1>1, <1>2, RetryFields DEF RefuseUsername, GivesIn
<1>3. CASE call[c].op # "LoginWithGoogle"
  <2>1. "AlreadyExists" \in Codes /\ Null \in User \cup {Null}
    BY DEF Codes
  <2>2. QED
    BY <1>3, <2>1, AnswerFields DEF RefuseUsername, GivesIn
<1>4. QED
  BY <1>2, <1>3

-----------------------------------------------------------------------------
(* What the writes do to the table.                                        *)

LEMMA UnchangedTable ==
  ASSUME TypeOK, UNCHANGED users
  PROVE  Kept /\ NoneAdded
  BY DEF TypeOK, Kept, NoneAdded, Exists

LEMMA InsertedTable ==
  ASSUME TypeOK, OneAccountPerSubject, NEW c \in Calls, NEW i \in Ids,
         call[c].sub \in Subs, ~SubTaken(call[c].sub), ~Exists(i),
         users' = Inserted(c, i)
  PROVE  /\ Kept /\ OneAccountPerSubject'
         /\ Exists(i)' /\ users'[i].sub = call[c].sub /\ users'[i].admin = FALSE
         /\ \A j \in Ids \ {i} : users'[j] = users[j]
<1> DEFINE row == [sub |-> call[c].sub, username |-> Null,
                   picture |-> call[c].pic, admin |-> FALSE]
<1>1. row \in Row
  BY DEF TypeOK, Call, Row
<1>2. row # Null
  BY <1>1, DistinctAssumption
<1>3. /\ users' \in [Ids -> Row \cup {Null}]
      /\ users'[i] = row
      /\ \A j \in Ids \ {i} : users'[j] = users[j]
  BY <1>1 DEF TypeOK, Inserted
<1>4. \A j \in Ids : Exists(j) => users[j].sub # call[c].sub
  BY DEF SubTaken, Registered, Matches
<1>5. \A j \in Ids : Exists(j)' => j = i \/ (Exists(j) /\ users'[j] = users[j])
  BY <1>3 DEF Exists
<1>6. OneAccountPerSubject'
  BY <1>3, <1>4, <1>5 DEF OneAccountPerSubject
<1>7. QED
  BY <1>2, <1>3, <1>6 DEF Kept, Exists

\* A write of one column keeps the table.
LEMMA WrittenTable ==
  ASSUME TypeOK, NEW i \in Ids, Exists(i), NEW row \in Row,
         row.sub = users[i].sub, users' = [users EXCEPT ![i] = row]
  PROVE  /\ Kept /\ NoneAdded
         /\ users'[i] = row /\ \A j \in Ids \ {i} : users'[j] = users[j]
<1>1. row # Null
  BY DistinctAssumption
<1>2. /\ users' \in [Ids -> Row \cup {Null}] /\ users'[i] = row
      /\ \A j \in Ids \ {i} : users'[j] = users[j]
  BY DEF TypeOK
<1>3. QED
  BY <1>1, <1>2 DEF Kept, NoneAdded, Exists

LEMMA RefreshedTable ==
  ASSUME TypeOK, NEW c \in Calls, call[c].id \in Ids, Exists(call[c].id),
         users' = Refreshed(c)
  PROVE  /\ Kept /\ NoneAdded
         /\ users'[call[c].id].admin = users[call[c].id].admin
         /\ users'[call[c].id].username = users[call[c].id].username
         /\ users'[call[c].id].picture = IF call[c].pic # Null THEN call[c].pic
                                         ELSE users[call[c].id].picture
         /\ \A j \in Ids \ {call[c].id} : users'[j] = users[j]
<1> DEFINE i == call[c].id
           row == [users[i] EXCEPT !.picture =
                     IF call[c].pic # Null THEN call[c].pic ELSE @]
<1>1. users[i] \in Row /\ call[c].pic \in Pictures \cup {Null}
  BY DEF TypeOK, Call, Exists
<1>2. row \in Row /\ row.sub = users[i].sub
  BY <1>1 DEF Row
<1>3. /\ row.admin = users[i].admin /\ row.username = users[i].username
      /\ row.picture = IF call[c].pic # Null THEN call[c].pic ELSE users[i].picture
  BY <1>1 DEF Row
<1>4. users' = [users EXCEPT ![i] = row]
  BY DEF Refreshed
<1>5. QED
  BY <1>2, <1>3, <1>4, WrittenTable

LEMMA RenamedTable ==
  ASSUME TypeOK, NEW c \in Calls, call[c].id \in Ids, Exists(call[c].id),
         NEW n \in Names \cup {Null}, users' = Renamed(c, n)
  PROVE  /\ Kept /\ NoneAdded
         /\ users'[call[c].id].admin = users[call[c].id].admin
         /\ users'[call[c].id].picture = users[call[c].id].picture
         /\ users'[call[c].id].username = n
         /\ \A j \in Ids \ {call[c].id} : users'[j] = users[j]
<1> DEFINE i == call[c].id
           row == [users[i] EXCEPT !.username = n]
<1>1. users[i] \in Row
  BY DEF TypeOK, Exists
<1>2. row \in Row /\ row.sub = users[i].sub
  BY <1>1 DEF Row
<1>3. row.admin = users[i].admin /\ row.picture = users[i].picture /\ row.username = n
  BY <1>1 DEF Row
<1>4. users' = [users EXCEPT ![i] = row]
  BY DEF Renamed
<1>5. QED
  BY <1>2, <1>3, <1>4, WrittenTable

LEMMA PromotedTable ==
  ASSUME TypeOK, NEW i \in Ids, NEW b \in BOOLEAN, SetAdmin(i, b)
  PROVE  /\ Kept /\ NoneAdded
         /\ users'[i] = [users[i] EXCEPT !.admin = b]
         /\ \A j \in Ids \ {i} : users'[j] = users[j]
<1> DEFINE row == [users[i] EXCEPT !.admin = b]
<1>1. users[i] \in Row /\ Exists(i)
  BY DEF TypeOK, Exists, SetAdmin
<1>2. row \in Row /\ row.sub = users[i].sub
  BY <1>1 DEF Row
<1>3. users' = [users EXCEPT ![i] = row]
  BY DEF SetAdmin
<1>4. QED
  BY <1>1, <1>2, <1>3, WrittenTable

LEMMA SameAccounts ==
  ASSUME TypeOK, OneAccountPerSubject, Kept, NoneAdded
  PROVE  OneAccountPerSubject'
  BY DEF OneAccountPerSubject, Kept, NoneAdded, Exists

-----------------------------------------------------------------------------
(* Consistency from one statement to the next.                             *)

\* What is left to show of a step in which only c moves.
LEMMA HandlerStep ==
  ASSUME Inv, NEW c \in Calls, Kept, OneAccountPerSubject',
         call' \in [Calls -> Call], Only(c), CallConsistent(call[c])',
         tokens' \subseteq Claims, faults' \in 0 .. MaxFaults,
         \A t \in tokens' : t \in tokens \/ (t.id \in Ids /\ Exists(t.id)')
  PROVE  Inv'
<1>1. \A d \in Calls \ {c} : CallConsistent(call[d])'
  <2> SUFFICES ASSUME NEW d \in Calls \ {c} PROVE CallConsistent(call[d])'
    OBVIOUS
  <2>1. call'[d] = call[d] /\ call[d] \in Call /\ CallConsistent(call[d])
    BY DEF Inv, TypeOK, Consistent, Only
  <2>2. QED
    BY <2>1 DEF CallConsistent, Kept
<1>2. \A t \in tokens' : t.id # Minted => Exists(t.id)'
  BY DEF Inv, TypeOK, Consistent, Kept, Claims
<1>3. QED
  BY <1>1, <1>2 DEF Inv, TypeOK, Consistent, Kept

\* The same when the step leaves the tokens alone.
LEMMA StatementStep ==
  ASSUME Inv, NEW c \in Calls, Kept, OneAccountPerSubject',
         call' \in [Calls -> Call], Only(c), CallConsistent(call[c])',
         UNCHANGED tokens, faults' \in 0 .. MaxFaults
  PROVE  Inv'
<1>1. tokens' \subseteq Claims
  BY DEF Inv, TypeOK
<1>2. QED
  BY <1>1, HandlerStep

LEMMA GivenIn ==
  ASSUME Inv, NEW c \in Calls, Kept, GivesIn(c)
  PROVE  CallConsistent(call[c])'
<1>1. call[c] \in Call /\ CallConsistent(call[c])
  BY DEF Inv, TypeOK, Consistent
<1>2. CASE call'[c].pc = "answer" /\ call'[c].code # "OK" /\ call'[c].user = Null
  BY <1>1, <1>2 DEF GivesIn, CallConsistent, Kept
<1>3. CASE /\ call[c].op = "LoginWithGoogle"
           /\ call[c].pc \in {"update", "reread"}
           /\ call'[c].pc \in {"update", "giveup"}
           /\ call'[c].pc = "update" => call'[c].tries < MaxTries
           /\ call'[c].user = call[c].user
  BY <1>1, <1>3 DEF GivesIn, CallConsistent, Kept
<1>4. QED
  BY <1>2, <1>3 DEF GivesIn

\* A statement that fails or is refused, whatever it wrote.
LEMMA GivingInStep ==
  ASSUME Inv, NEW c \in Calls, Kept, OneAccountPerSubject', GivesIn(c),
         UNCHANGED tokens, faults' \in 0 .. MaxFaults
  PROVE  Inv'
<1>1. CallConsistent(call[c])'
  BY GivenIn
<1>2. call' \in [Calls -> Call] /\ Only(c)
  BY DEF GivesIn
<1>3. QED
  BY <1>1, <1>2, StatementStep

LEMMA LoadedUser ==
  ASSUME TypeOK, NEW i \in Ids, Exists(i)
  PROVE  Loaded(i) \in User /\ Loaded(i).id = i
  BY DEF TypeOK, Loaded, User, Row, Exists

-----------------------------------------------------------------------------
(* The actions.                                                            *)

LEMMA BeginStep ==
  ASSUME Inv, NEW c \in Calls, NEW k \in Call, Begin(c, k),
         \/ k.pc = "answer" /\ k.code # "OK" /\ k.id = Null /\ k.user = Null
         \/ k.op = "LoginWithGoogle" /\ k.pc = "find" /\ k.sub # Null
              /\ k.id = Null /\ k.user = Null /\ k.tries = 0
         \/ k.op = "UpdateProfile" /\ k.pc = "update" /\ k.user = Null
              /\ \E t \in tokens : k.id = t.id
         \/ k.op = "GetCurrentUser" /\ k.pc = "select" /\ k.user = Null
              /\ \E t \in tokens : k.id = t.id
         \/ k.op = "ListUsers" /\ k.pc = "list" /\ k.id = Null /\ k.user = Null
  PROVE  Inv'
<1>1. call' \in [Calls -> Call] /\ Only(c) /\ call'[c] = k
  BY BecomeFields DEF Begin, Inv
<1>2. Kept /\ OneAccountPerSubject'
  BY UnchangedTable, SameAccounts DEF Begin, Inv
<1>3. \A t \in tokens : /\ t.id \in Ids \cup {Minted}
                        /\ t.id # Minted => Exists(t.id)
  BY DEF Inv, Consistent, TypeOK, Claims
<1>4. CallConsistent(k)
  BY <1>3, BoundsAssumption, DistinctAssumption DEF CallConsistent
<1>5. CallConsistent(call[c])'
  BY <1>1, <1>4 DEF Begin, CallConsistent, Exists
<1>6. QED
  BY <1>1, <1>2, <1>5, StatementStep DEF Begin, Inv, TypeOK

LEMMA RequestStep ==
  ASSUME Inv, NEW c \in Calls, Request(c)
  PROVE  Inv'
<1>0. 0 \in 0 .. MaxTries
  BY BoundsAssumption
<1>1. ASSUME NEW op \in Ops, NEW code \in Codes \ {"OK"}, Begin(c, Refused(op, code))
      PROVE  Inv'
  <2> DEFINE k == Refused(op, code)
  <2>1. k \in Call
    BY <1>0 DEF Refused, Idle, Call
  <2>2. k.pc = "answer" /\ k.code # "OK" /\ k.id = Null /\ k.user = Null
    BY DEF Refused, Idle
  <2>3. QED
    BY <1>1, <2>1, <2>2, BeginStep
<1>2. CASE LoginWithGoogle(c)
  <2>1. ASSUME NEW s \in Subs, NEW p \in Pictures \cup {Null},
               Begin(c, [Idle EXCEPT !.op = "LoginWithGoogle", !.pc = "find",
                                     !.sub = s, !.pic = p])
        PROVE  Inv'
    <3> DEFINE k == [Idle EXCEPT !.op = "LoginWithGoogle", !.pc = "find",
                                 !.sub = s, !.pic = p]
    <3>1. k \in Call
      BY <1>0 DEF Idle, Call, Ops, Statements, Codes
    <3>2. /\ k.op = "LoginWithGoogle" /\ k.pc = "find" /\ k.sub # Null
          /\ k.id = Null /\ k.user = Null /\ k.tries = 0
      BY DistinctAssumption DEF Idle
    <3>3. QED
      BY <2>1, <3>1, <3>2, BeginStep
  <2>2. /\ "LoginWithGoogle" \in Ops
        /\ {"InvalidArgument", "Unauthenticated"} \subseteq Codes \ {"OK"}
    BY DEF Ops, Codes
  <2>3. QED
    BY <1>1, <1>2, <2>1, <2>2 DEF LoginWithGoogle
<1>3. CASE Unauthenticated(c)
  <2>1. "Unauthenticated" \in Codes \ {"OK"}
    BY DEF Codes
  <2>2. QED
    BY <1>1, <1>3, <2>1 DEF Unauthenticated
<1>4. \A t \in tokens : t.id \in Ids \cup {Minted, Null}
  BY DEF Inv, TypeOK, Claims
<1>5. CASE UpdateProfile(c)
  <2>1. PICK t \in tokens, n \in Names \cup {Null, BadName} :
          Begin(c, IF n = BadName
                   THEN Refused("UpdateProfile", "InvalidArgument")
                   ELSE [Idle EXCEPT !.op = "UpdateProfile", !.pc = "update",
                                     !.id = t.id, !.name = n])
    BY <1>5 DEF UpdateProfile
  <2>2. CASE n = BadName
    <3>1. "UpdateProfile" \in Ops /\ "InvalidArgument" \in Codes \ {"OK"}
      BY DEF Ops, Codes
    <3>2. QED
      BY <1>1, <2>1, <2>2, <3>1
  <2>3. CASE n # BadName
    <3> DEFINE k == [Idle EXCEPT !.op = "UpdateProfile", !.pc = "update",
                                 !.id = t.id, !.name = n]
    <3>1. k \in Call
      BY <1>0, <1>4, <2>3 DEF Idle, Call, Ops, Statements, Codes
    <3>2. k.op = "UpdateProfile" /\ k.pc = "update" /\ k.user = Null /\ k.id = t.id
      BY DEF Idle
    <3>3. QED
      BY <2>1, <2>3, <3>1, <3>2, BeginStep
  <2>4. QED
    BY <2>2, <2>3
<1>6. CASE GetCurrentUser(c)
  <2>1. PICK t \in tokens :
          Begin(c, [Idle EXCEPT !.op = "GetCurrentUser", !.pc = "select", !.id = t.id])
    BY <1>6 DEF GetCurrentUser
  <2> DEFINE k == [Idle EXCEPT !.op = "GetCurrentUser", !.pc = "select", !.id = t.id]
  <2>2. k \in Call
    BY <1>0, <1>4 DEF Idle, Call, Ops, Statements, Codes
  <2>3. k.op = "GetCurrentUser" /\ k.pc = "select" /\ k.user = Null /\ k.id = t.id
    BY DEF Idle
  <2>4. QED
    BY <2>1, <2>2, <2>3, BeginStep
<1>7. CASE ListUsers(c)
  <2>1. PICK t \in tokens :
          Begin(c, IF t.admin
                   THEN [Idle EXCEPT !.op = "ListUsers", !.pc = "list"]
                   ELSE Refused("ListUsers", "PermissionDenied"))
    BY <1>7 DEF ListUsers
  <2> DEFINE k == [Idle EXCEPT !.op = "ListUsers", !.pc = "list"]
  <2>2. k \in Call
    BY <1>0 DEF Idle, Call, Ops, Statements, Codes
  <2>3. k.op = "ListUsers" /\ k.pc = "list" /\ k.id = Null /\ k.user = Null
    BY DEF Idle
  <2>4. Begin(c, k) => Inv'
    BY <2>2, <2>3, BeginStep
  <2>5. "ListUsers" \in Ops /\ "PermissionDenied" \in Codes \ {"OK"}
    BY DEF Ops, Codes
  <2>6. QED
    BY <1>1, <2>1, <2>4, <2>5
<1>8. QED
  BY <1>2, <1>3, <1>5, <1>6, <1>7 DEF Request

LEMMA FindUserStep ==
  ASSUME Inv, NEW c \in Calls, FindUser(c)
  PROVE  Inv'
<1>1. Kept /\ OneAccountPerSubject'
  BY UnchangedTable, SameAccounts DEF FindUser, Inv
<1>2. call[c] \in Call /\ CallConsistent(call[c]) /\ call[c].pc = "find"
  BY DEF Inv, TypeOK, Consistent, FindUser
<1>3. UNCHANGED <<tokens, users>> /\ faults' \in 0 .. MaxFaults
  BY DEF FindUser, Inv, TypeOK
<1>4. CASE Goto(c, "insert")
  <2>1. /\ call' \in [Calls -> Call] /\ Only(c)
        /\ call'[c] = [call[c] EXCEPT !.pc = "insert"]
    BY <1>4, GotoFields DEF Inv, Statements
  <2>2. CallConsistent(call'[c])
    BY <1>2, <2>1 DEF CallConsistent, Call
  <2>3. CallConsistent(call[c])'
    BY <1>3, <2>2 DEF CallConsistent, Exists
  <2>4. QED
    BY <1>1, <1>3, <2>1, <2>3, StatementStep
<1>5. ASSUME NEW i \in Ids, Matches(i, call[c].sub),
             Become(c, [call[c] EXCEPT !.pc = "assign", !.id = i, !.user = Loaded(i)])
      PROVE  Inv'
  <2> DEFINE k == [call[c] EXCEPT !.pc = "assign", !.id = i, !.user = Loaded(i)]
  <2>1. Exists(i) /\ users[i].sub = call[c].sub
    BY <1>5 DEF Matches
  <2>2. Loaded(i) \in User /\ Loaded(i).id = i
    BY <2>1, LoadedUser DEF Inv
  <2>3. k \in Call
    BY <1>2, <2>2 DEF Call, Statements
  <2>4. /\ k.op = call[c].op /\ k.pc = "assign" /\ k.id = i /\ k.user = Loaded(i)
        /\ k.sub = call[c].sub /\ k.tries = call[c].tries
    BY <1>2 DEF Call
  <2>5. i # Minted /\ i # Null
    BY DistinctAssumption
  <2>6. CallConsistent(k)
    <3>1. Loaded(i) # Null
      BY <2>2, DistinctAssumption
    <3>2. QED
      BY <1>2, <2>1, <2>2, <2>4, <2>5, <3>1 DEF CallConsistent
  <2>7. call' \in [Calls -> Call] /\ Only(c) /\ call'[c] = k
    BY <1>5, <2>3, BecomeFields DEF Inv
  <2>8. CallConsistent(call[c])'
    BY <1>3, <2>6, <2>7 DEF CallConsistent, Exists
  <2>9. QED
    BY <1>1, <1>3, <2>7, <2>8, StatementStep
<1>6. QED
  BY <1>4, <1>5 DEF FindUser

LEMMA InsertUserStep ==
  ASSUME Inv, NEW c \in Calls, InsertUser(c)
  PROVE  Inv'
<1>1. /\ call[c] \in Call /\ CallConsistent(call[c]) /\ call[c].pc = "insert"
      /\ call[c].op = "LoginWithGoogle" /\ call[c].sub \in Subs
  BY DEF Inv, TypeOK, Consistent, InsertUser, CallConsistent, Call
<1>2. UNCHANGED tokens /\ faults' \in 0 .. MaxFaults
  BY DEF InsertUser, Inv, TypeOK
<1>3. CASE Fail(c) /\ UNCHANGED users
  <2>1. Kept /\ OneAccountPerSubject'
    BY <1>3, UnchangedTable, SameAccounts DEF Inv
  <2>2. QED
    BY <1>2, <1>3, <2>1, FailFields, GivingInStep DEF Inv
<1>4. ASSUME NEW i \in Ids, ~SubTaken(call[c].sub), ~Exists(i), users' = Inserted(c, i),
             Become(c, [call[c] EXCEPT !.pc = "update", !.id = i, !.pic = Null])
      PROVE  Inv'
  <2> DEFINE k == [call[c] EXCEPT !.pc = "update", !.id = i, !.pic = Null]
  <2>1. /\ Kept /\ OneAccountPerSubject'
        /\ Exists(i)' /\ users'[i].sub = call[c].sub
    BY <1>1, <1>4, InsertedTable DEF Inv
  <2>2. /\ k \in Call
        /\ k.op = "LoginWithGoogle" /\ k.pc = "update" /\ k.id = i
        /\ k.sub = call[c].sub /\ k.tries = call[c].tries /\ k.user = call[c].user
    BY <1>1 DEF Call, Statements
  <2>3. call' \in [Calls -> Call] /\ Only(c) /\ call'[c] = k
    BY <1>4, <2>2, BecomeFields DEF Inv
  <2>4. call[c].user = Null /\ call[c].tries < MaxTries
    BY <1>1 DEF CallConsistent
  <2>5. CallConsistent(call[c])'
    BY <1>1, <2>1, <2>2, <2>3, <2>4, DistinctAssumption DEF CallConsistent
  <2>6. QED
    BY <1>2, <2>1, <2>3, <2>5, StatementStep
<1>5. QED
  BY <1>3, <1>4 DEF InsertUser

LEMMA RefreshUserStep ==
  ASSUME Inv, NEW c \in Calls, RefreshUser(c)
  PROVE  Inv'
<1> DEFINE u == [call[c].user EXCEPT !.picture =
                   IF call[c].pic # Null THEN call[c].pic ELSE @]
<1>1. /\ call[c] \in Call /\ CallConsistent(call[c]) /\ call[c].pc = "assign"
      /\ call[c].op = "LoginWithGoogle"
  BY DEF Inv, TypeOK, Consistent, RefreshUser, CallConsistent
<1>2. /\ call[c].id \in Ids /\ Exists(call[c].id)
      /\ call[c].user \in User /\ call[c].user.id = call[c].id
  BY <1>1 DEF CallConsistent, Call
<1>3. Kept /\ OneAccountPerSubject'
  BY <1>2, RefreshedTable, SameAccounts DEF RefreshUser, Inv
<1>4. UNCHANGED tokens /\ faults' \in 0 .. MaxFaults
  BY DEF RefreshUser, Inv, TypeOK
<1>5. u \in User /\ u.id = call[c].id /\ u # Null
  <2>1. u \in User /\ u.id = call[c].id
    BY <1>1, <1>2 DEF User, Call
  <2>2. QED
    BY <2>1, DistinctAssumption
<1>6. CASE Become(c, [call[c] EXCEPT !.pc = "update", !.pic = Null, !.user = Null])
  <2> DEFINE k == [call[c] EXCEPT !.pc = "update", !.pic = Null, !.user = Null]
  <2>1. /\ k \in Call
        /\ k.op = "LoginWithGoogle" /\ k.pc = "update" /\ k.id = call[c].id
        /\ k.sub = call[c].sub /\ k.tries = call[c].tries /\ k.user = Null
    BY <1>1 DEF Call, Statements
  <2>2. call' \in [Calls -> Call] /\ Only(c) /\ call'[c] = k
    BY <1>6, <2>1, BecomeFields DEF Inv
  <2>3. CallConsistent(call[c])'
    BY <1>1, <1>2, <1>3, <2>1, <2>2 DEF CallConsistent, Kept
  <2>4. QED
    BY <1>3, <1>4, <2>2, <2>3, StatementStep
<1>7. CASE Answer(c, "OK", u)
  <2>1. "OK" \in Codes
    BY DEF Codes
  <2>2. /\ call' \in [Calls -> Call] /\ Only(c)
        /\ call'[c].op = call[c].op /\ call'[c].pc = "answer"
        /\ call'[c].sub = call[c].sub /\ call'[c].id = call[c].id /\ call'[c].user = u
    BY <1>5, <1>7, <2>1, AnswerFields DEF Inv
  <2>3. CallConsistent(call[c])'
    BY <1>1, <1>2, <1>3, <1>5, <2>2 DEF CallConsistent, Kept
  <2>4. QED
    BY <1>3, <1>4, <2>2, <2>3, StatementStep
<1>8. QED
  BY <1>6, <1>7 DEF RefreshUser

LEMMA CandidateNames ==
  ASSUME TypeOK, NEW c \in Calls
  PROVE  Candidates(c) \subseteq Names \cup {Null}
  BY DEF TypeOK, Call, Candidates

LEMMA UpdateUsernameStep ==
  ASSUME Inv, NEW c \in Calls, UpdateUsername(c)
  PROVE  Inv'
<1>1. /\ call[c] \in Call /\ CallConsistent(call[c]) /\ call[c].pc = "update"
  BY DEF Inv, TypeOK, Consistent, UpdateUsername
<1>2. UNCHANGED tokens /\ faults' \in 0 .. MaxFaults
  BY DEF UpdateUsername, Inv, TypeOK
<1>3. CASE (Fail(c) \/ RefuseUsername(c)) /\ UNCHANGED users
  <2>1. Kept /\ OneAccountPerSubject'
    BY <1>3, UnchangedTable, SameAccounts DEF Inv
  <2>2. GivesIn(c)
    BY <1>1, <1>3, FailFields, RefuseFields DEF Inv
  <2>3. QED
    BY <1>2, <2>1, <2>2, GivingInStep
<1>4. ASSUME call[c].id # Minted, NEW n \in Candidates(c), users' = Renamed(c, n),
             Goto(c, "reread")
      PROVE  Inv'
  <2>1. call[c].id \in Ids /\ Exists(call[c].id)
    BY <1>1, <1>4 DEF CallConsistent, Call
  <2>2. Kept /\ OneAccountPerSubject'
    BY <1>4, <2>1, CandidateNames, RenamedTable, SameAccounts DEF Inv
  <2>3. /\ call' \in [Calls -> Call] /\ Only(c)
        /\ call'[c] = [call[c] EXCEPT !.pc = "reread"]
    BY <1>4, GotoFields DEF Inv, Statements
  <2> DEFINE k == [call[c] EXCEPT !.pc = "reread"]
  <2>4. /\ k.op = call[c].op /\ k.pc = "reread" /\ k.id = call[c].id
        /\ k.sub = call[c].sub /\ k.tries = call[c].tries /\ k.user = call[c].user
    BY <1>1 DEF Call
  <2>5. CallConsistent(call[c])'
    BY <1>1, <2>1, <2>2, <2>3, <2>4 DEF CallConsistent, Kept
  <2>6. QED
    BY <1>2, <2>2, <2>3, <2>5, StatementStep
<1>5. QED
  BY <1>3, <1>4 DEF UpdateUsername

LEMMA GetUserByIDStep ==
  ASSUME Inv, NEW c \in Calls, GetUserByID(c)
  PROVE  Inv'
<1>1. /\ call[c] \in Call /\ CallConsistent(call[c])
  BY DEF Inv, TypeOK, Consistent
<1>2. Kept /\ OneAccountPerSubject'
  BY UnchangedTable, SameAccounts DEF GetUserByID, Inv
<1>3. UNCHANGED tokens /\ faults' \in 0 .. MaxFaults
  BY DEF GetUserByID, Inv, TypeOK
<1>4. CASE Fail(c)
  BY <1>2, <1>3, <1>4, FailFields, GivingInStep DEF Inv
<1>5. CASE Exists(call[c].id) /\ Answer(c, "OK", Loaded(call[c].id))
  <2> DEFINE u == Loaded(call[c].id)
  <2>1. call[c].id \in Ids
    BY <1>5 DEF Exists
  <2>2. u \in User /\ u.id = call[c].id
    BY <1>5, <2>1, LoadedUser DEF Inv
  <2>3. u # Null
    BY <2>2, DistinctAssumption
  <2>4. "OK" \in Codes
    BY DEF Codes
  <2>5. /\ call' \in [Calls -> Call] /\ Only(c)
        /\ call'[c].op = call[c].op /\ call'[c].pc = "answer"
        /\ call'[c].sub = call[c].sub /\ call'[c].id = call[c].id /\ call'[c].user = u
    BY <1>5, <2>2, <2>4, AnswerFields DEF Inv
  <2>6. CallConsistent(call[c])'
    BY <1>1, <1>2, <2>1, <2>2, <2>3, <2>5 DEF CallConsistent, Kept
  <2>7. QED
    BY <1>2, <1>3, <2>5, <2>6, StatementStep
<1>6. QED
  BY <1>4, <1>5 DEF GetUserByID

LEMMA SelectUsersStep ==
  ASSUME Inv, NEW c \in Calls, SelectUsers(c)
  PROVE  Inv'
<1>1. call[c] \in Call /\ CallConsistent(call[c])
  BY DEF Inv, TypeOK, Consistent
<1>2. Kept /\ OneAccountPerSubject'
  BY UnchangedTable, SameAccounts DEF SelectUsers, Inv
<1>3. "OK" \in Codes /\ Null \in User \cup {Null}
  BY DEF Codes
<1>4. /\ call' \in [Calls -> Call] /\ Only(c)
      /\ call'[c].op = call[c].op /\ call'[c].pc = "answer"
      /\ call'[c].sub = call[c].sub /\ call'[c].id = call[c].id /\ call'[c].user = Null
  BY <1>3, AnswerFields DEF SelectUsers, Inv
<1>5. call[c].op # "LoginWithGoogle"
  BY <1>1 DEF SelectUsers, CallConsistent
<1>6. CallConsistent(call[c])'
  BY <1>1, <1>2, <1>4, <1>5 DEF CallConsistent, Kept
<1>7. QED
  BY <1>2, <1>4, <1>6, StatementStep DEF SelectUsers, Inv, TypeOK

LEMMA ReplyStep ==
  ASSUME Inv, NEW c \in Calls, Reply(c)
  PROVE  Inv'
<1>1. call[c] \in Call /\ CallConsistent(call[c]) /\ call[c].pc = "answer"
  BY DEF Inv, TypeOK, Consistent, Reply
<1>2. Kept /\ OneAccountPerSubject'
  BY UnchangedTable, SameAccounts DEF Reply, Inv
<1>3. Idle \in Call
  <2>1. 0 \in 0 .. MaxTries
    BY BoundsAssumption
  <2>2. QED
    BY <2>1 DEF Idle, Call, Ops, Codes
<1>4. call' \in [Calls -> Call] /\ Only(c) /\ call'[c] = Idle
  BY <1>3, BecomeFields DEF Reply, Inv
<1>5. CallConsistent(call[c])'
  BY <1>4, DistinctAssumption DEF CallConsistent, Idle
<1>6. CASE call[c].op = "LoginWithGoogle" /\ call[c].code = "OK"
  <2>1. call[c].user \in User /\ call[c].user.id = call[c].id
    BY <1>1, <1>6 DEF CallConsistent, Call
  <2>2. PICK i \in Ids, b \in BOOLEAN : i = call[c].user.id /\ b = call[c].user.admin
    BY <2>1 DEF User
  <2>3. Exists(i)
    BY <1>1, <2>1, <2>2 DEF CallConsistent
  <2>4. tokens' = tokens \cup {[id |-> i, admin |-> b]}
    BY <1>6, <2>2 DEF Reply
  <2>5. Exists(i)'
    BY <1>2, <2>3 DEF Kept
  <2>6. tokens' \subseteq Claims
    BY <2>2, <2>4 DEF Inv, TypeOK, Claims
  <2>7. \A x \in tokens' : x \in tokens \/ (x.id \in Ids /\ Exists(x.id)')
    <3> SUFFICES ASSUME NEW x \in tokens', x \notin tokens
                 PROVE  x.id \in Ids /\ Exists(x.id)'
      OBVIOUS
    <3>1. x.id = i
      BY <2>4
    <3>2. QED
      BY <2>5, <3>1
  <2>8. faults' \in 0 .. MaxFaults
    BY DEF Reply, Inv, TypeOK
  <2>9. QED
    BY <1>2, <1>4, <1>5, <2>6, <2>7, <2>8, HandlerStep
<1>7. CASE ~(call[c].op = "LoginWithGoogle" /\ call[c].code = "OK")
  <2>1. UNCHANGED tokens /\ faults' \in 0 .. MaxFaults
    BY <1>7 DEF Reply, Inv, TypeOK
  <2>2. QED
    BY <1>2, <1>4, <1>5, <2>1, StatementStep
<1>8. QED
  BY <1>6, <1>7

LEMMA OneMoreFault ==
  ASSUME TypeOK, faults < MaxFaults, faults' = faults + 1
  PROVE  faults' \in 0 .. MaxFaults
  BY BoundsAssumption DEF TypeOK

LEMMA StatementFaultStep ==
  ASSUME Inv, NEW c \in Calls, StatementFault(c)
  PROVE  Inv'
<1>1. Kept /\ OneAccountPerSubject'
  BY UnchangedTable, SameAccounts DEF StatementFault, Inv
<1>2. GivesIn(c)
  BY FailFields DEF StatementFault, Inv
<1>3. UNCHANGED tokens /\ faults' \in 0 .. MaxFaults
  BY OneMoreFault DEF StatementFault, Inv
<1>4. QED
  BY <1>1, <1>2, <1>3, GivingInStep

\* The write of LostCommit, by the statement it belongs to.
LEMMA LostCommitTable ==
  ASSUME Inv, NEW c \in Calls, LostCommit(c)
  PROVE  Kept /\ OneAccountPerSubject'
<1>1. call[c] \in Call /\ CallConsistent(call[c])
  BY DEF Inv, TypeOK, Consistent
<1>2. ASSUME call[c].pc = "insert", ~SubTaken(call[c].sub),
             NEW i \in Ids, ~Exists(i), users' = Inserted(c, i)
      PROVE  Kept /\ OneAccountPerSubject'
  <2>1. call[c].sub \in Subs
    BY <1>1, <1>2 DEF CallConsistent, Call
  <2>2. QED
    BY <1>2, <2>1, InsertedTable DEF Inv
<1>3. CASE call[c].pc = "assign" /\ users' = Refreshed(c)
  <2>1. call[c].id \in Ids /\ Exists(call[c].id)
    BY <1>1, <1>3 DEF CallConsistent, Call
  <2>2. QED
    BY <1>3, <2>1, RefreshedTable, SameAccounts DEF Inv
<1>4. ASSUME call[c].pc = "update", call[c].id # Minted,
             NEW n \in Candidates(c), users' = Renamed(c, n)
      PROVE  Kept /\ OneAccountPerSubject'
  <2>1. call[c].id \in Ids /\ Exists(call[c].id)
    BY <1>1, <1>4 DEF CallConsistent, Call
  <2>2. QED
    BY <1>4, <2>1, CandidateNames, RenamedTable, SameAccounts DEF Inv
<1>5. QED
  BY <1>2, <1>3, <1>4 DEF LostCommit

LEMMA LostCommitStep ==
  ASSUME Inv, NEW c \in Calls, LostCommit(c)
  PROVE  Inv'
<1>1. GivesIn(c)
  BY FailFields DEF LostCommit, Inv
<1>2. UNCHANGED tokens /\ faults' \in 0 .. MaxFaults
  BY OneMoreFault DEF LostCommit, Inv
<1>3. QED
  BY <1>1, <1>2, LostCommitTable, GivingInStep

LEMMA CrashStep ==
  ASSUME Inv, Crash
  PROVE  Inv'
<1>1. Idle \in Call
  <2>1. 0 \in 0 .. MaxTries
    BY BoundsAssumption
  <2>2. QED
    BY <2>1 DEF Idle, Call, Ops, Codes
<1>2. TypeOK'
  BY <1>1 DEF Crash, Inv, TypeOK
<1>3. OneAccountPerSubject'
  BY DEF Crash, Inv, OneAccountPerSubject, Exists
<1>4. CallConsistent(Idle)'
  BY DistinctAssumption DEF CallConsistent, Idle
<1>5. \A c \in Calls : CallConsistent(call[c])'
  BY <1>4 DEF Crash, CallConsistent
<1>6. \A t \in tokens' : t.id # Minted => Exists(t.id)'
  BY DEF Crash, Inv, Consistent, Exists
<1>7. QED
  BY <1>2, <1>3, <1>5, <1>6 DEF Inv, Consistent

LEMMA SetAdminStep ==
  ASSUME Inv, NEW i \in Ids, NEW b \in BOOLEAN, SetAdmin(i, b)
  PROVE  Inv'
<1>1. Kept /\ OneAccountPerSubject'
  BY PromotedTable, SameAccounts DEF Inv
<1>2. UNCHANGED <<tokens, call, faults>>
  BY DEF SetAdmin
<1>3. TypeOK'
  BY <1>1, <1>2 DEF Inv, TypeOK, Kept
<1>4. \A c \in Calls : CallConsistent(call[c])'
  <2> SUFFICES ASSUME NEW c \in Calls PROVE CallConsistent(call[c])'
    OBVIOUS
  <2>1. call[c] \in Call /\ CallConsistent(call[c])
    BY DEF Inv, TypeOK, Consistent
  <2>2. QED
    BY <1>1, <1>2, <2>1 DEF CallConsistent, Kept
<1>5. \A t \in tokens' : t.id # Minted => Exists(t.id)'
  BY <1>1, <1>2 DEF Inv, TypeOK, Consistent, Kept, Claims
<1>6. QED
  BY <1>1, <1>3, <1>4, <1>5, <1>2 DEF Inv, Consistent

-----------------------------------------------------------------------------
(* The invariant.                                                          *)

LEMMA InitInv == Init => Inv
<1> SUFFICES ASSUME Init PROVE Inv
  OBVIOUS
<1>1. 0 \in 0 .. MaxTries /\ 0 \in 0 .. MaxFaults
  BY BoundsAssumption
<1>2. Idle \in Call
  BY <1>1 DEF Idle, Call, Ops, Codes
<1>3. TypeOK
  BY <1>1, <1>2 DEF Init, TypeOK, Claims
<1>4. \A c \in Calls : CallConsistent(call[c])
  BY DistinctAssumption DEF Init, CallConsistent, Idle
<1>5. OneAccountPerSubject
  BY DEF Init, OneAccountPerSubject, Exists
<1>6. QED
  BY <1>3, <1>4, <1>5 DEF Init, Inv, Consistent

LEMMA NextInv == Inv /\ [Next]_vars => Inv'
<1> SUFFICES ASSUME Inv, [Next]_vars PROVE Inv'
  OBVIOUS
<1>1. ASSUME NEW c \in Calls, Serve(c) PROVE Inv'
  BY <1>1, FindUserStep, InsertUserStep, RefreshUserStep, UpdateUsernameStep,
     GetUserByIDStep, SelectUsersStep, ReplyStep DEF Serve
<1>2. CASE UNCHANGED vars
  BY <1>2 DEF vars, Inv, TypeOK, Consistent, CallConsistent, OneAccountPerSubject,
     Exists
<1>3. QED
  BY <1>1, <1>2, RequestStep, StatementFaultStep, LostCommitStep, CrashStep,
     SetAdminStep DEF Next

\* Inv holds in every reachable state, for every value of the constants.
THEOREM Invariance == Spec => []Inv
<1>1. Init => Inv
  BY InitInv
<1>2. Inv /\ [Next]_vars => Inv'
  BY NextInv
<1>3. QED
  BY <1>1, <1>2, PTL DEF Spec

\* Every variable keeps its type; in particular the claim loop of UpsertUser
\* never takes more than MaxTries turns (db.go 103).
THEOREM TypeCorrect == Spec => []TypeOK
<1>1. Inv => TypeOK
  BY DEF Inv
<1>2. QED
  BY <1>1, Invariance, PTL

\* However sign-ins interleave, fail and restart, a Google subject has one
\* account (UpsertUser, db.go 77-115).
THEOREM SubjectsHaveOneAccount == Spec => []OneAccountPerSubject
<1>1. Inv => OneAccountPerSubject
  BY DEF Inv
<1>2. QED
  BY <1>1, Invariance, PTL

\* Nobody is answered with the account of somebody else (service.go 67-131).
THEOREM AnswersAreOwn == Spec => []AnswerIsOwnAccount
<1>1. Inv => AnswerIsOwnAccount
  <2> SUFFICES ASSUME Inv, NEW c \in Calls, call[c].pc = "answer", call[c].user # Null
               PROVE  /\ Exists(call[c].user.id)
                      /\ call[c].id = call[c].user.id
                      /\ call[c].op = "LoginWithGoogle" =>
                           users[call[c].user.id].sub = call[c].sub
    BY DEF AnswerIsOwnAccount
  <2>1. call[c].user \in User /\ CallConsistent(call[c])
    BY DEF Inv, TypeOK, Call, Consistent
  <2>2. QED
    BY <2>1 DEF CallConsistent, User
<1>2. QED
  BY <1>1, Invariance, PTL

\* Handlers stay consistent with the table although others write it between
\* their statements (db.go 81-156).
THEOREM HandlersStayConsistent == Spec => []Consistent
<1>1. Inv => Consistent
  BY DEF Inv
<1>2. QED
  BY <1>1, Invariance, PTL

-----------------------------------------------------------------------------
(* Why a client is given an error.                                         *)

\* ErrorsExplained for one call.
Explained(k) ==
  k.pc = "answer" /\ faults = 0 =>
    /\ k.code = "Internal" =>
         \/ k.id = Minted
         \/ k.op = "LoginWithGoogle" /\ k.id = Null /\ Registered(k.sub)
    /\ k.code = "NotFound" => k.id = Minted
    /\ k.code = "AlreadyExists" => k.op = "UpdateProfile" /\ k.name # Null

\* An error that was explained remains so: accounts stay, faults are not forgotten.
LEMMA ExplainedStays ==
  ASSUME Inv, ErrorsExplained, Kept, NEW d \in Calls, call'[d] = call[d],
         faults' = faults \/ faults' = faults + 1
  PROVE  Explained(call[d])'
<1>1. Explained(call[d])
  BY DEF ErrorsExplained, Explained
<1>2. faults' = 0 => faults = 0
  BY BoundsAssumption DEF Inv, TypeOK
<1>3. Registered(call[d].sub) => Registered(call[d].sub)'
  BY DEF Registered, Matches, Kept, Inv, TypeOK
<1>4. QED
  BY <1>1, <1>2, <1>3 DEF Explained

\* What is left to show of a step in which only c moves.
LEMMA ExplainedStep ==
  ASSUME Inv, ErrorsExplained, Kept, NEW c \in Calls, Only(c), Explained(call[c])',
         faults' = faults \/ faults' = faults + 1
  PROVE  ErrorsExplained'
<1>1. \A d \in Calls : Explained(call[d])'
  BY ExplainedStays DEF Only
<1>2. QED
  BY <1>1 DEF ErrorsExplained, Explained

LEMMA RequestExplained ==
  ASSUME Inv, ErrorsExplained, NEW c \in Calls, Request(c)
  PROVE  ErrorsExplained'
<1>1. ASSUME NEW k, Begin(c, k),
             k.pc = "answer" => k.code \notin {"Internal", "NotFound", "AlreadyExists"}
      PROVE  ErrorsExplained'
  <2>1. call'[c] = k /\ Only(c)
    BY <1>1 DEF Begin, Become, Only, Inv, TypeOK
  <2>2. Kept /\ faults' = faults
    BY <1>1, UnchangedTable DEF Begin, Inv
  <2>3. Explained(call[c])'
    BY <1>1, <2>1 DEF Explained
  <2>4. QED
    BY <2>1, <2>2, <2>3, ExplainedStep
<1>2. ASSUME NEW op,
             NEW code \in {"InvalidArgument", "Unauthenticated", "PermissionDenied"},
             Begin(c, Refused(op, code))
      PROVE  ErrorsExplained'
  <2>1. Refused(op, code).code = code
    BY DEF Refused, Idle
  <2>2. QED
    BY <1>1, <1>2, <2>1
<1>3. ASSUME LoginWithGoogle(c) PROVE ErrorsExplained'
  <2>1. ASSUME NEW s \in Subs, NEW p \in Pictures \cup {Null},
               Begin(c, [Idle EXCEPT !.op = "LoginWithGoogle", !.pc = "find",
                                     !.sub = s, !.pic = p])
        PROVE  ErrorsExplained'
    <3>1. [Idle EXCEPT !.op = "LoginWithGoogle", !.pc = "find",
                       !.sub = s, !.pic = p].pc = "find"
      BY DEF Idle
    <3>2. QED
      BY <1>1, <2>1, <3>1
  <2>2. QED
    BY <1>2, <1>3, <2>1 DEF LoginWithGoogle
<1>4. ASSUME UpdateProfile(c) PROVE ErrorsExplained'
  <2>1. PICK t \in tokens, n \in Names \cup {Null, BadName} :
          Begin(c, IF n = BadName
                   THEN Refused("UpdateProfile", "InvalidArgument")
                   ELSE [Idle EXCEPT !.op = "UpdateProfile", !.pc = "update",
                                     !.id = t.id, !.name = n])
    BY <1>4 DEF UpdateProfile
  <2>2. [Idle EXCEPT !.op = "UpdateProfile", !.pc = "update",
                     !.id = t.id, !.name = n].pc = "update"
    BY DEF Idle
  <2>3. CASE n = BadName
    BY <1>2, <2>1, <2>3
  <2>4. CASE n # BadName
    BY <1>1, <2>1, <2>2, <2>4
  <2>5. QED
    BY <2>3, <2>4
<1>5. ASSUME GetCurrentUser(c) PROVE ErrorsExplained'
  <2>1. PICK t \in tokens :
          Begin(c, [Idle EXCEPT !.op = "GetCurrentUser", !.pc = "select", !.id = t.id])
    BY <1>5 DEF GetCurrentUser
  <2>2. [Idle EXCEPT !.op = "GetCurrentUser", !.pc = "select", !.id = t.id].pc = "select"
    BY DEF Idle
  <2>3. QED
    BY <1>1, <2>1, <2>2
<1>6. ASSUME ListUsers(c) PROVE ErrorsExplained'
  <2>1. \/ Begin(c, [Idle EXCEPT !.op = "ListUsers", !.pc = "list"])
        \/ Begin(c, Refused("ListUsers", "PermissionDenied"))
    BY <1>6 DEF ListUsers
  <2>2. [Idle EXCEPT !.op = "ListUsers", !.pc = "list"].pc = "list"
    BY DEF Idle
  <2>3. QED
    BY <1>1, <1>2, <2>1, <2>2
<1>7. QED
  BY <1>2, <1>3, <1>4, <1>5, <1>6 DEF Request, Unauthenticated

\* A handler that still has an account finds it: only a minted identity is missing.
LEMMA OnlyMintedIsMissing ==
  ASSUME Inv, NEW c \in Calls, call[c].pc \in {"select", "reread", "giveup", "update", "assign"}
  PROVE  /\ call[c].id = Minted \/ (call[c].id \in Ids /\ Exists(call[c].id))
         /\ call[c].op = "LoginWithGoogle" => call[c].id # Minted
<1>1. call[c] \in Call /\ CallConsistent(call[c])
  BY DEF Inv, TypeOK, Consistent
<1>2. QED
  BY <1>1 DEF CallConsistent, Call

LEMMA ServeExplained ==
  ASSUME Inv, ErrorsExplained, NEW c \in Calls, Serve(c), Kept
  PROVE  ErrorsExplained'
<1>1. call[c] \in Call /\ CallConsistent(call[c]) /\ TypeOK
  BY DEF Inv, TypeOK, Consistent
<1>2. UNCHANGED faults
  BY DEF Serve, FindUser, InsertUser, RefreshUser, UpdateUsername, GetUserByID, SelectUsers, Reply
<1>3. ASSUME NEW k, Become(c, k), k.pc # "answer"
      PROVE  ErrorsExplained'
  <2>1. call'[c] = k /\ Only(c)
    BY <1>1, <1>3 DEF Become, Only, TypeOK
  <2>2. Explained(call[c])'
    BY <1>3, <2>1 DEF Explained
  <2>3. QED
    BY <1>2, <2>1, <2>2, ExplainedStep
<1>4. ASSUME Retry(c) PROVE ErrorsExplained'
  <2> DEFINE k == [call[c] EXCEPT !.pc = IF TriesLeft(c) THEN "update" ELSE "giveup",
                                  !.tries = @ + 1]
  <2>1. k.pc \in {"update", "giveup"}
    BY <1>1 DEF Call
  <2>2. QED
    BY <1>3, <1>4, <2>1 DEF Retry
<1>5. ASSUME NEW pc \in Statements, Goto(c, pc) PROVE ErrorsExplained'
  <2>1. [call[c] EXCEPT !.pc = pc].pc = pc
    BY <1>1 DEF Call
  <2>2. QED
    BY <1>3, <1>5, <2>1 DEF Goto, Statements
<1>6. ASSUME NEW code \in Codes, NEW u \in User \cup {Null}, Answer(c, code, u),
             code = "Internal" =>
               \/ call[c].id = Minted
               \/ /\ call[c].op = "LoginWithGoogle" /\ call[c].id = Null
                  /\ Registered(call[c].sub) /\ UNCHANGED users,
             code = "NotFound" => call[c].id = Minted,
             code = "AlreadyExists" => call[c].op = "UpdateProfile" /\ call[c].name # Null
      PROVE  ErrorsExplained'
  <2>1. /\ Only(c)
        /\ call'[c].op = call[c].op /\ call'[c].sub = call[c].sub
        /\ call'[c].id = call[c].id /\ call'[c].code = code /\ call'[c].name = call[c].name
    BY <1>1, <1>6, AnswerFields
  <2>2. UNCHANGED users => (Registered(call[c].sub) => Registered(call[c].sub)')
    BY <2>1 DEF Registered, Matches, Exists
  <2>3. Explained(call[c])'
    BY <1>6, <2>1, <2>2 DEF Explained
  <2>4. QED
    BY <1>2, <2>1, <2>3, ExplainedStep
<1>7. {"OK", "Internal", "NotFound", "AlreadyExists"} \subseteq Codes /\ Null \in User \cup {Null}
  BY DEF Codes
<1>8. CASE FindUser(c)
  <2>1. ASSUME NEW i \in Ids,
               Become(c, [call[c] EXCEPT !.pc = "assign", !.id = i, !.user = Loaded(i)])
        PROVE  ErrorsExplained'
    <3>1. [call[c] EXCEPT !.pc = "assign", !.id = i, !.user = Loaded(i)].pc = "assign"
      BY <1>1 DEF Call
    <3>2. QED
      BY <1>3, <2>1, <3>1
  <2>2. QED
    BY <1>5, <1>8, <2>1 DEF FindUser, Statements
<1>9. CASE InsertUser(c)
  <2>1. call[c].op = "LoginWithGoogle" /\ call[c].id = Null /\ call[c].pc = "insert"
    BY <1>1, <1>9 DEF InsertUser, CallConsistent
  <2>2. ASSUME SubTaken(call[c].sub), Fail(c), UNCHANGED users
        PROVE  ErrorsExplained'
    <3>1. Answer(c, "Internal", Null)
      BY <2>1, <2>2 DEF Fail
    <3>2. QED
      BY <1>6, <1>7, <2>1, <2>2, <3>1 DEF SubTaken
  <2>3. ASSUME NEW i \in Ids,
               Become(c, [call[c] EXCEPT !.pc = "update", !.id = i, !.pic = Null])
        PROVE  ErrorsExplained'
    <3>1. [call[c] EXCEPT !.pc = "update", !.id = i, !.pic = Null].pc = "update"
      BY <1>1 DEF Call
    <3>2. QED
      BY <1>3, <2>3, <3>1
  <2>4. QED
    BY <1>9, <2>2, <2>3 DEF InsertUser
<1>10. CASE RefreshUser(c)
  <2> DEFINE u == [call[c].user EXCEPT !.picture =
                     IF call[c].pic # Null THEN call[c].pic ELSE @]
  <2>1. u \in User
    <3>1. call[c].user \in User
      BY <1>1, <1>10 DEF RefreshUser, CallConsistent, Call
    <3>2. QED
      BY <1>1, <3>1 DEF User, Call
  <2>2. ASSUME Answer(c, "OK", u) PROVE ErrorsExplained'
    BY <1>6, <1>7, <2>1, <2>2
  <2>3. ASSUME Become(c, [call[c] EXCEPT !.pc = "update", !.pic = Null, !.user = Null])
        PROVE  ErrorsExplained'
    <3>1. [call[c] EXCEPT !.pc = "update", !.pic = Null, !.user = Null].pc = "update"
      BY <1>1 DEF Call
    <3>2. QED
      BY <1>3, <2>3, <3>1
  <2>4. QED
    BY <1>10, <2>2, <2>3 DEF RefreshUser
<1>11. CASE UpdateUsername(c)
  <2>1. call[c].pc = "update" /\ call[c].op \in {"LoginWithGoogle", "UpdateProfile"}
    BY <1>1, <1>11 DEF UpdateUsername, CallConsistent
  <2>2. ASSUME call[c].id = Minted, Fail(c) PROVE ErrorsExplained'
    <3>1. Answer(c, "Internal", Null)
      BY <2>1, <2>2, OnlyMintedIsMissing DEF Fail
    <3>2. QED
      BY <1>6, <1>7, <2>2, <3>1
  <2>3. ASSUME NEW n \in Candidates(c), UsernameTaken(n, call[c].id), RefuseUsername(c)
        PROVE  ErrorsExplained'
    <3>1. CASE call[c].op = "LoginWithGoogle"
      BY <1>4, <2>3, <3>1 DEF RefuseUsername
    <3>2. CASE call[c].op = "UpdateProfile"
      <4>1. call[c].name # Null /\ Answer(c, "AlreadyExists", Null)
        BY <2>3, <3>2 DEF RefuseUsername, Candidates, UsernameTaken
      <4>2. QED
        BY <1>6, <1>7, <3>2, <4>1
    <3>3. QED
      BY <2>1, <3>1, <3>2
  <2>4. QED
    BY <1>5, <1>11, <2>2, <2>3 DEF UpdateUsername, Statements
<1>12. CASE GetUserByID(c)
  <2>1. CASE Exists(call[c].id) /\ Answer(c, "OK", Loaded(call[c].id))
    <3>1. Loaded(call[c].id) \in User
      BY <1>1, <2>1, LoadedUser DEF Exists
    <3>2. QED
      BY <1>6, <1>7, <2>1, <3>1
  <2>2. CASE ~Exists(call[c].id) /\ Fail(c)
    <3>1. call[c].id = Minted /\ call[c].op # "LoginWithGoogle"
      BY <1>12, <2>2, OnlyMintedIsMissing DEF GetUserByID
    <3>2. Answer(c, "NotFound", Null) \/ Answer(c, "Internal", Null)
      BY <2>2, <3>1 DEF Fail
    <3>3. QED
      BY <1>6, <1>7, <3>1, <3>2
  <2>3. QED
    BY <1>12, <2>1, <2>2 DEF GetUserByID
<1>13. CASE SelectUsers(c)
  BY <1>6, <1>7, <1>13 DEF SelectUsers
<1>14. CASE Reply(c)
  BY <1>3, <1>14 DEF Reply, Idle
<1>15. QED
  BY <1>8, <1>9, <1>10, <1>11, <1>12, <1>13, <1>14 DEF Serve

\* Every statement of a handler keeps the accounts there are.
LEMMA ServeKeeps ==
  ASSUME Inv, NEW c \in Calls, Serve(c)
  PROVE  Kept
<1>1. call[c] \in Call /\ CallConsistent(call[c])
  BY DEF Inv, TypeOK, Consistent
<1>2. UNCHANGED users => Kept
  BY UnchangedTable DEF Inv
<1>3. CASE FindUser(c) \/ GetUserByID(c) \/ SelectUsers(c) \/ Reply(c)
  BY <1>2, <1>3 DEF FindUser, GetUserByID, SelectUsers, Reply
<1>4. CASE InsertUser(c)
  <2>1. call[c].sub \in Subs
    BY <1>1, <1>4 DEF InsertUser, CallConsistent, Call
  <2>2. QED
    BY <1>2, <1>4, <2>1, InsertedTable DEF InsertUser, Inv
<1>5. CASE RefreshUser(c)
  <2>1. call[c].id \in Ids /\ Exists(call[c].id)
    BY <1>1, <1>5, OnlyMintedIsMissing DEF RefreshUser, CallConsistent
  <2>2. QED
    BY <1>5, <2>1, RefreshedTable DEF RefreshUser, Inv
<1>6. CASE UpdateUsername(c)
  <2>1. ASSUME call[c].id # Minted, NEW n \in Candidates(c), users' = Renamed(c, n)
        PROVE  Kept
    <3>1. call[c].id \in Ids /\ Exists(call[c].id)
      BY <1>6, <2>1, OnlyMintedIsMissing DEF UpdateUsername
    <3>2. QED
      BY <2>1, <3>1, CandidateNames, RenamedTable DEF Inv
  <2>2. QED
    BY <1>2, <1>6, <2>1 DEF UpdateUsername
<1>7. QED
  BY <1>3, <1>4, <1>5, <1>6 DEF Serve

\* A statement that failed by itself excuses every error.
LEMMA FaultExplained ==
  ASSUME Inv, faults' = faults + 1
  PROVE  ErrorsExplained'
  BY BoundsAssumption DEF Inv, TypeOK, ErrorsExplained

LEMMA NextExplained == Inv /\ ErrorsExplained /\ [Next]_vars => ErrorsExplained'
<1> SUFFICES ASSUME Inv, ErrorsExplained, [Next]_vars PROVE ErrorsExplained'
  OBVIOUS
<1>1. ASSUME NEW c \in Calls, Serve(c) PROVE ErrorsExplained'
  BY <1>1, ServeKeeps, ServeExplained
<1>2. ASSUME NEW c \in Calls, StatementFault(c) \/ LostCommit(c) PROVE ErrorsExplained'
  BY <1>2, FaultExplained DEF StatementFault, LostCommit
<1>3. CASE Crash
  BY <1>3 DEF Crash, ErrorsExplained, Idle
<1>4. ASSUME NEW i \in Ids, NEW b \in BOOLEAN, SetAdmin(i, b) PROVE ErrorsExplained'
  <2>1. Kept /\ UNCHANGED <<call, faults>>
    BY <1>4, PromotedTable DEF SetAdmin, Inv
  <2>2. \A d \in Calls : Explained(call[d])'
    BY <2>1, ExplainedStays
  <2>3. QED
    BY <2>2 DEF ErrorsExplained, Explained
<1>5. CASE UNCHANGED vars
  BY <1>5 DEF vars, ErrorsExplained, Registered, Matches, Exists
<1>6. QED
  BY <1>1, <1>2, <1>3, <1>4, <1>5, RequestExplained DEF Next

\* As long as no statement has failed by itself, the error a client is given
\* is the true reason (service.go 78-81, 107-113, 125-128).
THEOREM ErrorsAreTrue == Spec => []ErrorsExplained
<1>1. Init => Inv /\ ErrorsExplained
  BY InitInv DEF Init, ErrorsExplained, Idle
<1>2. (Inv /\ ErrorsExplained) /\ [Next]_vars => (Inv /\ ErrorsExplained)'
  BY NextInv, NextExplained
<1>3. QED
  BY <1>1, <1>2, PTL DEF Spec

-----------------------------------------------------------------------------
(* AuthService implements Accounts: every step that writes the table is    *)
(* one of Register, Refresh, Rename and SetAdmin for one subject, and      *)
(* every other step leaves all accounts as they are.  The theorem about    *)
(* privileges goes by the same writes.                                     *)

Acc == [s \in Subs |-> AccountOf(s)]

LEMMA RegisteredAccount ==
  ASSUME OneAccountPerSubject, NEW i \in Ids, Exists(i), NEW s, users[i].sub = s
  PROVE  AccountOf(s) = Loaded(i)
<1>1. Matches(i, s) /\ \A j \in Ids : Matches(j, s) => j = i
  BY DEF Matches, OneAccountPerSubject
<1>2. (CHOOSE j \in Ids : Matches(j, s)) = i
  BY <1>1
<1>3. Registered(s)
  BY <1>1 DEF Registered
<1>4. QED
  BY <1>2, <1>3 DEF AccountOf

\* The same of the next state.
LEMMA RegisteredAccountNext ==
  ASSUME OneAccountPerSubject', NEW i \in Ids, Exists(i)', NEW s, users'[i].sub = s
  PROVE  AccountOf(s)' = Loaded(i)'
<1>1. Matches(i, s)' /\ \A j \in Ids : Matches(j, s)' => j = i
  BY DEF Matches, OneAccountPerSubject
<1>2. (CHOOSE j \in Ids : Matches(j, s)') = i
  BY <1>1
<1>3. Registered(s)'
  BY <1>1 DEF Registered
<1>4. QED
  BY <1>2, <1>3 DEF AccountOf

LEMMA SameRowsSameAccounts ==
  ASSUME UNCHANGED users
  PROVE  Acc' = Acc
  BY DEF Acc, AccountOf, Registered, Matches, Loaded, Exists

\* The accounts of the subjects no changed row belongs to stay as they are.
LEMMA OtherAccounts ==
  ASSUME Inv, Inv', Kept, NEW i \in Ids, NEW s,
         Exists(i)', users'[i].sub = s, Exists(i) => users[i].sub = s,
         \A j \in Ids \ {i} : users'[j] = users[j]
  PROVE  \A t \in Subs \ {s} : AccountOf(t)' = AccountOf(t)
<1> SUFFICES ASSUME NEW t \in Subs \ {s} PROVE AccountOf(t)' = AccountOf(t)
  OBVIOUS
<1>1. CASE Registered(t)
  <2>1. PICK j \in Ids : Exists(j) /\ users[j].sub = t
    BY <1>1 DEF Registered, Matches
  <2>2. j # i /\ users'[j] = users[j] /\ Exists(j)'
    BY <2>1 DEF Exists
  <2>3. AccountOf(t) = Loaded(j)
    BY <2>1, RegisteredAccount DEF Inv
  <2>4. AccountOf(t)' = Loaded(j)'
    BY <2>1, <2>2, RegisteredAccountNext DEF Inv
  <2>5. QED
    BY <2>2, <2>3, <2>4 DEF Loaded
<1>2. CASE ~Registered(t)
  <2>1. ~Registered(t)'
    BY <1>2 DEF Registered, Matches, Exists
  <2>2. QED
    BY <1>2, <2>1 DEF AccountOf
<1>3. QED
  BY <1>1, <1>2

\* A step that writes one existing row changes the account of its subject alone.
LEMMA OneRowOneAccount ==
  ASSUME Inv, Inv', Kept, NEW i \in Ids, Exists(i), NEW s, users[i].sub = s,
         \A j \in Ids \ {i} : users'[j] = users[j]
  PROVE  /\ s \in Subs
         /\ Acc[s] = Loaded(i)
         /\ Acc' = [Acc EXCEPT ![s] = Loaded(i)']
<1>1. s \in Subs /\ Exists(i)' /\ users'[i].sub = s
  BY DEF Inv, TypeOK, Exists, Row, Kept
<1>2. AccountOf(s) = Loaded(i)
  BY RegisteredAccount DEF Inv
<1>3. AccountOf(s)' = Loaded(i)'
  BY <1>1, RegisteredAccountNext DEF Inv
<1>4. \A t \in Subs \ {s} : AccountOf(t)' = AccountOf(t)
  BY <1>1, OtherAccounts
<1>5. Acc' = [t \in Subs |-> AccountOf(t)']
  BY DEF Acc
<1>6. QED
  BY <1>1, <1>2, <1>3, <1>4, <1>5 DEF Acc

\* Whether a subject has an account, and what is in it.
LEMMA AccountExists ==
  ASSUME Inv, NEW t \in Subs, Acc[t] # Null
  PROVE  \E j \in Ids : Exists(j) /\ users[j].sub = t /\ Acc[t] = Loaded(j)
<1>1. Registered(t)
  BY DEF Acc, AccountOf
<1>2. PICK j \in Ids : Exists(j) /\ users[j].sub = t
  BY <1>1 DEF Registered, Matches
<1>3. Acc[t] = Loaded(j)
  BY <1>2, RegisteredAccount DEF Acc, Inv
<1>4. QED
  BY <1>2, <1>3

-----------------------------------------------------------------------------
(* The writes.                                                             *)

LEMMA InsertRegisters ==
  ASSUME Inv, Inv', NEW c \in Calls, call[c].sub \in Subs, ~SubTaken(call[c].sub),
         NEW i \in Ids, ~Exists(i), users' = Inserted(c, i)
  PROVE  Abstract!Register(call[c].sub, i, call[c].pic)
<1> DEFINE s == call[c].sub
           new == [id |-> i, username |-> Null, picture |-> call[c].pic,
                   admin |-> FALSE]
<1>1. PICK t \in Subs : t = s
  OBVIOUS
<1>2. /\ Kept /\ Exists(i)' /\ users'[i].sub = t
      /\ \A j \in Ids \ {i} : users'[j] = users[j]
  BY <1>1, InsertedTable DEF Inv
<1>3. Loaded(i)' = new
  BY DEF Loaded, Inserted, Inv, TypeOK
<1>4. AccountOf(t)' = new
  BY <1>2, <1>3, RegisteredAccountNext DEF Inv
<1>5. \A x \in Subs \ {t} : AccountOf(x)' = AccountOf(x)
  BY <1>2, OtherAccounts
<1>6. Acc' = [Acc EXCEPT ![s] = new]
  BY <1>1, <1>4, <1>5 DEF Acc
<1>7. Acc[s] = Null
  BY DEF SubTaken, Acc, AccountOf
<1>8. \A x \in Subs : Acc[x] # Null => Acc[x].id # i
  <2> SUFFICES ASSUME NEW x \in Subs, Acc[x] # Null PROVE Acc[x].id # i
    OBVIOUS
  <2>1. PICK j \in Ids : Exists(j) /\ Acc[x] = Loaded(j)
    BY AccountExists
  <2>2. QED
    BY <2>1 DEF Loaded
<1>9. QED
  BY <1>6, <1>7, <1>8 DEF Abstract!Register, Abstract!Owns, Acc

LEMMA RefreshRefreshes ==
  ASSUME Inv, Inv', NEW c \in Calls, call[c].id \in Ids, Exists(call[c].id),
         users' = Refreshed(c)
  PROVE  Abstract!Next \/ Acc' = Acc
<1>1. PICK i \in Ids, s \in Subs : i = call[c].id /\ s = users[i].sub
  BY DEF Inv, TypeOK, Row, Exists
<1>2. PICK p \in Pictures \cup {Null} : p = call[c].pic
  BY DEF Inv, TypeOK, Call
<1>3. /\ Kept /\ \A j \in Ids \ {i} : users'[j] = users[j]
      /\ users'[i].admin = users[i].admin
      /\ users'[i].username = users[i].username
      /\ users'[i].picture = IF p # Null THEN p ELSE users[i].picture
  BY <1>1, <1>2, RefreshedTable DEF Inv
<1>4. s \in Subs /\ Acc[s] = Loaded(i) /\ Acc' = [Acc EXCEPT ![s] = Loaded(i)']
  BY <1>1, <1>3, OneRowOneAccount
<1>5. CASE p = Null
  <2>1. Loaded(i)' = Loaded(i)
    BY <1>3, <1>5 DEF Loaded
  <2>2. Acc' = Acc
    BY <1>4, <2>1 DEF Acc
  <2>3. QED
    BY <2>2
<1>6. CASE p # Null
  <2>1. Loaded(i)' = [Loaded(i) EXCEPT !.picture = p]
    BY <1>3, <1>6 DEF Loaded
  <2>2. Acc' = [Acc EXCEPT ![s].picture = p]
    BY <1>4, <2>1
  <2>3. Acc[s] # Null
    BY <1>1, <1>4, LoadedUser, DistinctAssumption DEF Inv
  <2>4. Abstract!Refresh(s, p)
    BY <2>2, <2>3 DEF Abstract!Refresh, Abstract!Owns, Acc
  <2>5. QED
    BY <1>2, <1>4, <1>6, <2>4 DEF Abstract!Next
<1>7. QED
  BY <1>5, <1>6

LEMMA RenameRenames ==
  ASSUME Inv, Inv', NEW c \in Calls, call[c].id \in Ids, Exists(call[c].id),
         NEW n \in Names \cup {Null}, ~UsernameTaken(n, call[c].id),
         users' = Renamed(c, n)
  PROVE  Abstract!Next
<1>1. PICK i \in Ids, s \in Subs : i = call[c].id /\ s = users[i].sub
  BY DEF Inv, TypeOK, Row, Exists
<1>2. /\ Kept /\ \A j \in Ids \ {i} : users'[j] = users[j]
      /\ users'[i].admin = users[i].admin
      /\ users'[i].picture = users[i].picture
      /\ users'[i].username = n
  BY <1>1, RenamedTable DEF Inv
<1>3. s \in Subs /\ Acc[s] = Loaded(i) /\ Acc' = [Acc EXCEPT ![s] = Loaded(i)']
  BY <1>1, <1>2, OneRowOneAccount
<1>4. Loaded(i)' = [Loaded(i) EXCEPT !.username = n]
  BY <1>2 DEF Loaded
<1>5. Acc' = [Acc EXCEPT ![s].username = n]
  BY <1>3, <1>4
<1>6. Acc[s] # Null
  BY <1>1, <1>3, LoadedUser, DistinctAssumption DEF Inv
<1>7. ASSUME n # Null, NEW t \in Subs \ {s}, Acc[t] # Null
      PROVE  Acc[t].username # n
  <2>1. PICK j \in Ids : Exists(j) /\ users[j].sub = t /\ Acc[t] = Loaded(j)
    BY <1>7, AccountExists
  <2>2. j # i
    BY <1>1, <2>1
  <2>3. users[j].username # n
    BY <1>1, <1>7, <2>1, <2>2 DEF UsernameTaken
  <2>4. QED
    BY <2>1, <2>3 DEF Loaded
<1>8. Abstract!Rename(s, n)
  BY <1>5, <1>6, <1>7 DEF Abstract!Rename, Abstract!Owns, Acc
<1>9. QED
  BY <1>3, <1>8 DEF Abstract!Next

LEMMA PromotionPromotes ==
  ASSUME Inv, Inv', NEW i \in Ids, NEW b \in BOOLEAN, SetAdmin(i, b)
  PROVE  Abstract!Next
<1>1. PICK s \in Subs : s = users[i].sub
  BY DEF SetAdmin, Inv, TypeOK, Row, Exists
<1>2. Exists(i) /\ users[i] \in Row
  BY DEF SetAdmin, Inv, TypeOK, Exists
<1>3. /\ Kept /\ \A j \in Ids \ {i} : users'[j] = users[j]
      /\ users'[i] = [users[i] EXCEPT !.admin = b]
  BY PromotedTable DEF Inv
<1>4. s \in Subs /\ Acc[s] = Loaded(i) /\ Acc' = [Acc EXCEPT ![s] = Loaded(i)']
  BY <1>1, <1>2, <1>3, OneRowOneAccount
<1>5. Loaded(i)' = [Loaded(i) EXCEPT !.admin = b]
  BY <1>2, <1>3 DEF Loaded, Row
<1>6. Acc' = [Acc EXCEPT ![s].admin = b]
  BY <1>4, <1>5
<1>7. Acc[s] # Null
  BY <1>2, <1>4, LoadedUser, DistinctAssumption DEF Inv
<1>8. Abstract!SetAdmin(s, b)
  BY <1>6, <1>7 DEF Abstract!SetAdmin, Abstract!Owns, Acc
<1>9. QED
  BY <1>4, <1>8 DEF Abstract!Next

-----------------------------------------------------------------------------
(* Every step.                                                             *)

\* A call has the account it writes to.
LEMMA HasAccount ==
  ASSUME Inv, NEW c \in Calls, call[c].pc \in {"assign", "update"}, call[c].id # Minted
  PROVE  call[c].id \in Ids /\ Exists(call[c].id)
<1>1. call[c] \in Call /\ CallConsistent(call[c])
  BY DEF Inv, TypeOK, Consistent
<1>2. QED
  BY <1>1 DEF Call, CallConsistent

\* What a step of c can write.
LEMMA HandlerWrites ==
  ASSUME Inv, NEW c \in Calls, Serve(c) \/ LostCommit(c)
  PROVE  \/ UNCHANGED users
         \/ /\ call[c].sub \in Subs /\ ~SubTaken(call[c].sub)
            /\ \E i \in Ids : ~Exists(i) /\ users' = Inserted(c, i)
         \/ /\ call[c].id \in Ids /\ Exists(call[c].id)
            /\ users' = Refreshed(c)
         \/ /\ call[c].id \in Ids /\ Exists(call[c].id)
            /\ \E n \in Names \cup {Null} :
                 ~UsernameTaken(n, call[c].id) /\ users' = Renamed(c, n)
<1>1. call[c] \in Call /\ CallConsistent(call[c])
  BY DEF Inv, TypeOK, Consistent
<1>2. call[c].pc = "insert" => call[c].sub \in Subs
  BY <1>1 DEF Call, CallConsistent
<1>3. call[c].pc = "assign" => call[c].id # Minted
  BY <1>1 DEF CallConsistent
<1>4. Candidates(c) \subseteq Names \cup {Null}
  BY CandidateNames DEF Inv
<1>5. CASE InsertUser(c)
  BY <1>2, <1>5 DEF InsertUser
<1>6. CASE RefreshUser(c)
  BY <1>3, <1>6, HasAccount DEF RefreshUser
<1>7. CASE UpdateUsername(c)
  BY <1>4, <1>7, HasAccount DEF UpdateUsername
<1>8. CASE LostCommit(c)
  BY <1>2, <1>3, <1>4, <1>8, HasAccount DEF LostCommit
<1>9. CASE FindUser(c) \/ GetUserByID(c) \/ SelectUsers(c) \/ Reply(c)
  BY <1>9 DEF FindUser, GetUserByID, SelectUsers, Reply
<1>10. QED
  BY <1>5, <1>6, <1>7, <1>8, <1>9 DEF Serve

LEMMA OtherWrites ==
  ASSUME [Next]_vars
  PROVE  \/ UNCHANGED users
         \/ \E c \in Calls : Serve(c) \/ LostCommit(c)
         \/ \E i \in Ids, b \in BOOLEAN : SetAdmin(i, b)
<1>1. ASSUME NEW c \in Calls, Request(c) PROVE UNCHANGED users
  BY <1>1 DEF Request, LoginWithGoogle, Unauthenticated, UpdateProfile,
     GetCurrentUser, ListUsers, Begin
<1>2. ASSUME NEW c \in Calls, StatementFault(c) PROVE UNCHANGED users
  BY <1>2 DEF StatementFault
<1>3. QED
  BY <1>1, <1>2 DEF Next, Crash, vars

LEMMA StepRefines ==
  ASSUME Inv, Inv', [Next]_vars
  PROVE  Abstract!Next \/ Acc' = Acc
<1>1. CASE UNCHANGED users
  BY <1>1, SameRowsSameAccounts
<1>2. ASSUME NEW c \in Calls, Serve(c) \/ LostCommit(c)
      PROVE  Abstract!Next \/ Acc' = Acc
  <2>1. ASSUME call[c].sub \in Subs, ~SubTaken(call[c].sub),
               NEW i \in Ids, ~Exists(i), users' = Inserted(c, i)
        PROVE  Abstract!Next
    <3>1. Abstract!Register(call[c].sub, i, call[c].pic)
      BY <2>1, InsertRegisters
    <3>2. call[c].pic \in Pictures \cup {Null}
      BY DEF Inv, TypeOK, Call
    <3>3. QED
      BY <2>1, <3>1, <3>2 DEF Abstract!Next
  <2>2. QED
    BY <1>2, <2>1, HandlerWrites, SameRowsSameAccounts, RefreshRefreshes,
       RenameRenames
<1>3. QED
  BY <1>1, <1>2, OtherWrites, PromotionPromotes

\* The users table under all the interleavings, faults and crashes of
\* AuthService behaves as Accounts says (db.go 77-156).
THEOREM Refinement == Spec => ImplementsAccounts
<1>1. Init => Abstract!Init
  BY DEF Init, Abstract!Init, AccountOf, Registered, Matches, Exists
<1>2. Inv /\ Inv' /\ [Next]_vars => [Abstract!Next]_Acc
  BY StepRefines
<1>3. Inv /\ Inv' /\ [Next]_vars
        => [Abstract!Next]_([s \in Subs |-> AccountOf(s)])
  BY <1>2 DEF Acc
<1>4. QED
  BY <1>1, <1>3, Invariance, PTL DEF Spec, ImplementsAccounts, Abstract!Spec

\* No step of a handler changes who is an admin (db.go 34, 94-100).
THEOREM PrivilegeIsTheOperators == Spec => PrivilegeOnlyByOperator
<1> DEFINE Fine == call' # call =>
             \A i \in Ids : Exists(i)' =>
               users[i]'.admin = (Exists(i) /\ users[i].admin)
<1>1. Inv /\ [Next]_vars => Fine
  <2> SUFFICES ASSUME Inv, [Next]_vars, call' # call, NEW i \in Ids, Exists(i)'
               PROVE  users'[i].admin = (Exists(i) /\ users[i].admin)
    OBVIOUS
  <2>1. Exists(i) => users[i].admin \in BOOLEAN
    BY DEF Inv, TypeOK, Row, Exists
  <2>2. ASSUME Exists(i), users'[i].admin = users[i].admin
        PROVE  users'[i].admin = (Exists(i) /\ users[i].admin)
    BY <2>1, <2>2
  <2>3. CASE UNCHANGED users
    BY <2>2, <2>3 DEF Exists
  <2>4. ASSUME NEW c \in Calls, Serve(c) \/ LostCommit(c)
        PROVE  users'[i].admin = (Exists(i) /\ users[i].admin)
    <3>1. ASSUME call[c].sub \in Subs, ~SubTaken(call[c].sub),
                 NEW j \in Ids, ~Exists(j), users' = Inserted(c, j)
          PROVE  \/ ~Exists(i) /\ users'[i].admin = FALSE
                 \/ Exists(i) /\ users'[i].admin = users[i].admin
      BY <3>1, InsertedTable DEF Inv, Exists
    <3>2. ASSUME call[c].id \in Ids, Exists(call[c].id), users' = Refreshed(c)
          PROVE  Exists(i) /\ users'[i].admin = users[i].admin
      BY <3>2, RefreshedTable DEF Inv, Exists, NoneAdded
    <3>3. ASSUME call[c].id \in Ids, Exists(call[c].id),
                 NEW n \in Names \cup {Null}, users' = Renamed(c, n)
          PROVE  Exists(i) /\ users'[i].admin = users[i].admin
      BY <3>3, RenamedTable DEF Inv, Exists, NoneAdded
    <3>4. \/ ~Exists(i) /\ users'[i].admin = FALSE
          \/ Exists(i) /\ users'[i].admin = users[i].admin
      <4>1. CASE UNCHANGED users
        BY <4>1 DEF Exists
      <4>2. QED
        BY <2>4, <3>1, <3>2, <3>3, <4>1, HandlerWrites
    <3>5. QED
      BY <2>2, <3>4
  <2>5. QED
    BY <2>3, <2>4, OtherWrites DEF SetAdmin
<1>2. Inv /\ [Next]_vars => [Fine]_vars
  BY <1>1
<1>3. QED
  BY <1>2, Invariance, PTL DEF Spec, PrivilegeOnlyByOperator
=============================================================================
