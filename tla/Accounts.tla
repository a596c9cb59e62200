------------------------------ MODULE Accounts ------------------------------
(***************************************************************************)
(* What the users table promises to the people behind it, with no          *)
(* statement, handler or interleaving in sight: every Google subject has   *)
(* at most one account, under one identity for good; an account is         *)
(* refreshed, renamed and promoted in place; two accounts never share a    *)
(* username.  AuthService, one action per SQL statement, implements it.    *)
(*                                                                         *)
(* Translated from internal/db/db.go (User, UpsertUser, UpdateUsername)    *)
(* and from README.md 134-141, the operator's UPDATE of is_admin.          *)
(***************************************************************************)
CONSTANTS Subs, Ids, Names, Pictures, Null

VARIABLE accounts  \* what each Google subject owns: an account, or Null

Account == [id : Ids, username : Names \cup {Null},
            picture : Pictures \cup {Null}, admin : BOOLEAN]

\* Whether the subject s has an account.
Owns(s) == accounts[s] # Null

-----------------------------------------------------------------------------
Init == accounts = [s \in Subs |-> Null]

\* A first sign-in creates the account, under an id nobody has, without a
\* username and without privileges.
Register(s, i, p) ==
  /\ ~Owns(s)
  /\ \A t \in Subs : Owns(t) => accounts[t].id # i
  /\ accounts' = [accounts EXCEPT ![s] =
       [id |-> i, username |-> Null, picture |-> p, admin |-> FALSE]]

\* A later sign-in refreshes the profile fields Google sent.
Refresh(s, p) ==
  /\ Owns(s)
  /\ accounts' = [accounts EXCEPT ![s].picture = p]

\* A username is set where no other account holds it; Null clears it.
Rename(s, n) ==
  /\ Owns(s)
  /\ n # Null => \A t \in Subs \ {s} : Owns(t) => accounts[t].username # n
  /\ accounts' = [accounts EXCEPT ![s].username = n]

\* An operator flips the is_admin column.
SetAdmin(s, b) ==
  /\ Owns(s)
  /\ accounts' = [accounts EXCEPT ![s].admin = b]

Next == \E s \in Subs :
  \/ \E i \in Ids, p \in Pictures \cup {Null} : Register(s, i, p)
  \/ \E p \in Pictures : Refresh(s, p)
  \/ \E n \in Names \cup {Null} : Rename(s, n)
  \/ \E b \in BOOLEAN : SetAdmin(s, b)

Spec == Init /\ [][Next]_accounts
=============================================================================
