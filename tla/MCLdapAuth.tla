----------------------------- MODULE MCLdapAuth ------------------------------
(* LdapAuth for TLC. *)
EXTENDS LdapAuth, TLC

(* A grant with a selector, one that disables the user, one that SETUSER refuses. *)
SomeGrants == {{"read", "selector"}, {"write", "off"}, {"bad"}}

SymClients == Permutations(Clients)
=============================================================================
