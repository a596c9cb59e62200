------------------------ MODULE AuthServiceHistory ------------------------
(***************************************************************************)
(* AuthService with a history variable: the users table as it was at every *)
(* moment of each call.  With it one can say what an answer is worth to    *)
(* the client that gets it while other calls go on, and what the claim     *)
(* loop of UpsertUser does to a username.  A call sees at most MaxMoments  *)
(* tables, its own writes included: a bound on what the others do during   *)
(* one call.                                                               *)
(***************************************************************************)
EXTENDS AuthService, FiniteSets

CONSTANT MaxMoments

VARIABLE moments  \* for each call, the tables there were until it was answered

hvars == <<vars, moments>>

HInit == Init /\ moments = [c \in Calls |-> {}]

HNext ==
  /\ Next
  /\ moments' = [c \in Calls |->
       CASE call'[c] = Idle -> {}
         [] call'[c] # Idle /\ call[c].pc = "answer" -> moments[c]
         [] OTHER -> moments[c] \cup {users'}]
  /\ \A c \in Calls : Cardinality(moments'[c]) <= MaxMoments

HSpec == HInit /\ [][HNext]_hvars

Answered(c, code) == call[c].pc = "answer" /\ call[c].code = code

\* The column of the account i in the table t; Null where there is no account.
Column(t, i, column) == IF t[i] = Null THEN Null ELSE t[i][column]

-----------------------------------------------------------------------------
(* Properties.                                                             *)

\* Every column of a user that is answered was in the database at some moment
\* of the call: no answer is older than its request (db.go 94-114, 118-124).
FreshAnswer ==
  \A c \in Calls : Answered(c, "OK") /\ call[c].user # Null =>
    \A column \in {"username", "picture", "admin"} :
      \E t \in moments[c] :
        /\ t[call[c].user.id] # Null
        /\ t[call[c].user.id][column] = call[c].user[column]

\* A profile update that was acknowledged took effect during the call, also
\* when another call of the same account has already replaced the username
\* (service.go 107-115).
AcknowledgedRenameTookEffect ==
  \A c \in Calls : Answered(c, "OK") /\ call[c].op = "UpdateProfile" =>
    \E t \in moments[c] : t[call[c].id] # Null
                            /\ t[call[c].id].username = call[c].name

\* The account c works for changes its username in this step, by c's UPDATE.
Renames(c) ==
  /\ call[c].pc = "update"
  /\ call'[c] # call[c]
  /\ Column(users, call[c].id, "username") # Column(users', call[c].id, "username")

\* A login writes a username only if it has met its account without one: the
\* claim loop cannot reach an account that was named all along (db.go 102).
LoginRenamesOnlyNameless ==
  [][\A c \in Calls : call[c].op = "LoginWithGoogle" /\ Renames(c) =>
       \E t \in moments[c] : Column(t, call[c].id, "username") = Null]_hvars

-----------------------------------------------------------------------------
(* What comments of the code say and the code does not do.                 *)

\* db.go 78-80: on creation generateUsername assigns "an initial handle", and
\* "on existing rows" a login "updates the cached profile fields".  So no login
\* replaces the username of an UpdateProfile that is about to be acknowledged.
LoginKeepsChosenName ==
  [][\A c, d \in Calls :
       /\ call[c].op = "LoginWithGoogle" /\ Renames(c)
       /\ call[d].op = "UpdateProfile" /\ Answered(d, "OK")
       /\ call[d].id = call[c].id /\ call[d].name # Null
       => Column(users, call[c].id, "username") # call[d].name]_hvars
=============================================================================
