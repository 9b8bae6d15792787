-------------------------- MODULE MCLdapConnection ---------------------------
(* LdapConnection for TLC. *)
EXTENDS LdapConnection, TLC

CONSTANTS u1, u2

Everyone == Users \cup {"admin", "anonymous"}

Group(members, readers, values) ==
    [members |-> members, readers |-> readers, values |-> values]

(***************************************************************************)
(* Closed: users see themselves, and only the admin account sees others    *)
(* and the second group.  Open: anonymous sees all, u2 is odd in turn.     *)
(***************************************************************************)
Closed ==
    [entry   |-> [u \in Users |-> "one"],
     reads   |-> [i \in Everyone |-> IF i = "admin" THEN Users ELSE {i} \cap Users],
     refuses |-> {"anonymous"},
     groups  |-> << Group({u1}, Everyone, << <<"on", "read">>, <<>>, <<"read">> >>),
                    Group({u1, u2}, {"admin"}, << <<"write", "on", "keys">> >>) >>]

Open(kind) ==
    [entry   |-> [u \in Users |-> IF u = u2 THEN kind ELSE "one"],
     reads   |-> [i \in Everyone |-> Users],
     refuses |-> {},
     groups  |-> << Group(Users, Everyone, << <<"read">> >>) >>]

SomeDirectories ==
    {Closed, [Closed EXCEPT !.refuses = {"admin"}]} \cup {Open(kind) : kind \in Kinds}

Symmetric == Permutations(Ops) \cup Permutations(Conns)
=============================================================================
