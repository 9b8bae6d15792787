--------------------------- MODULE MCLdapContext -----------------------------
(* LdapContext for TLC. *)
EXTENDS LdapContext, TLC

CONSTANTS s1, s2

OnlyFirst   == <<s1>>
BothServers == <<s1, s2>>

(* Values of ldap.servers: another list of one, or also none and both. *)
NoLists   == {}
Shrunk    == {<<s2>>}
Several   == {<<>>, <<s2, s1>>}
ManyLists == {<<>>, <<s2>>, <<s2, s1>>}

SymAuthTasks == Permutations(AuthTasks)
=============================================================================
