--------------------------- MODULE LdapConnection ----------------------------
(***************************************************************************)
(* LDAP operations on pooled connections (connection.rs, and the closures  *)
(* of ldap_bind_and_group_rules and ldap_search_bind_and_group_rules in    *)
(* context.rs), one action per message to the LDAP server.  A connection   *)
(* keeps the identity that was bound on it last, through its stay in the   *)
(* pool: what an operation finds must not depend on who had the connection *)
(* before.                                                                 *)
(*                                                                         *)
(* The pools of all servers are one here, and its queue a set; waiting,    *)
(* epochs and failover are the subject of ConnectionPool and LdapContext.  *)
(* The detector's ping (WhoAmI) leaves the identity alone.                 *)
(***************************************************************************)
EXTENDS Naturals, FiniteSets, Sequences, SequencesExt

CONSTANTS
    Ops,          \* the LDAP operations that run side by side
    Conns,        \* the connections
    Users,
    Directories,  \* what the LDAP servers may hold, see below
    Accounts,     \* search_bind_dn and search_bind_passwd: "none" (one of them
                  \* is not set), "good", "bad" (the server rejects them)
    MaxErrors     \* bound: connection errors and timeouts

Identities == Users \cup {"admin", "anonymous"}

(***************************************************************************)
(* A directory has the fields                                              *)
(*   entry    entry[u]: what a search for u matches: "one" entry, "none",  *)
(*            "several", one without the dn attribute ("nodn") or with no  *)
(*            value of it ("novalue")                                      *)
(*   reads    reads[i]: the users whose entries identity i may see         *)
(*   refuses  the identities whose searches are refused                    *)
(*   groups   the group entries in the order of the answer: the members,   *)
(*            who may see it, and the values of groups_rules_attribute,    *)
(*            each a sequence of tokens                                    *)
(***************************************************************************)
Kinds == {"one", "none", "several", "nodn", "novalue"}

ASSUME ConnectionAssumption ==
    /\ \A d \in Directories :
         /\ d.entry \in [Users -> Kinds]
         /\ d.reads \in [Identities -> SUBSET Users]
         /\ d.refuses \subseteq Identities
         /\ \A g \in ToSet(d.groups) : g.members \subseteq Users
                                         /\ g.readers \subseteq Identities
    /\ Accounts \subseteq {"none", "good", "bad"}
    /\ Users # {} /\ MaxErrors \in Nat

VARIABLES
    directory,  \* one of Directories
    account,    \* the search account of the LDAP settings
    where,      \* where[k]: "free" in the pool, "lent", "returning", "dropped"
    stale,      \* connections lent before the last reset of the pool
    identity,   \* identity[k]: who is bound on connection k
    op,         \* op[t]: the operation of t
    errors      \* how many more connection errors there may be

vars == <<directory, account, where, stale, identity, op, errors>>

-----------------------------------------------------------------------------
NoConn == "none"

LdapSteps == {"search_bind", "search", "bind", "groups_bind", "groups"}

Ok(rules) == [err |-> "none", rules |-> rules]

Error(e) == [err |-> e, rules |-> <<>>]

Errors == {"LdapAdminBindError", "NoLdapEntryFound", "MultipleEntryFound",
           "InvalidDNAttribute", "LdapSearchError", "LdapBindError",
           "NoHealthyServerAvailable", "panic"}

(* No operation; the last one had this result. *)
NoOp(res) ==
    [at |-> "done", user |-> CHOOSE u \in Users : TRUE, right |-> FALSE,
     mode |-> "bind", account |-> "none", conn |-> NoConn, failed |-> FALSE, res |-> res]

(* search_groups_rules: the tokens in the order of the answer, each once. *)
MergeTokens(toks) ==
    FoldLeft(LAMBDA rules, tok : IF Contains(rules, tok) THEN rules
                                 ELSE Append(rules, tok),
             <<>>, toks)

(* The tokens of those groups of u that i may see. *)
GroupTokens(groups, i, u) ==
    LET seen == SelectSeq(groups, LAMBDA g : u \in g.members /\ i \in g.readers)
    IN  FlattenSeq(FlattenSeq([n \in DOMAIN seen |-> seen[n].values]))

Tokens(i, u) == GroupTokens(directory.groups, i, u)

(* What a search for u matches, for i. *)
Found(i, u) == IF u \in directory.reads[i] THEN directory.entry[u] ELSE "none"

-----------------------------------------------------------------------------
Init ==
    /\ directory \in Directories
    /\ account \in Accounts
    /\ where = [k \in Conns |-> "free"]
    /\ stale = {}
    /\ identity = [k \in Conns |-> "anonymous"]
    /\ op = [t \in Ops |-> NoOp(Ok(<<>>))]
    /\ errors = MaxErrors

(* The settings are read once, for the whole operation. *)
Start(t, u, right, mode) ==
    /\ op[t].at = "done"
    /\ op' = [op EXCEPT ![t] = [at |-> "take", user |-> u, right |-> right,
                                mode |-> mode, account |-> account, conn |-> NoConn,
                                failed |-> FALSE, res |-> Ok(<<>>)]]
    /\ UNCHANGED <<directory, account, where, stale, identity, errors>>

(* The connection stays in the pool. *)
Lends_Slip(k) == where[k] = "free" /\ UNCHANGED where

Lends(k) == where[k] = "free" /\ where' = [where EXCEPT ![k] = "lent"]

(* The admin bind is left out when the account is not complete. *)
Take(t, k) ==
    /\ op[t].at = "take"
    /\ Lends(k)
    /\ op' = [op EXCEPT ![t].conn = k,
                        ![t].at = IF op[t].mode = "bind" THEN "bind"
                                  ELSE IF op[t].account = "none" THEN "search"
                                  ELSE "search_bind"]
    /\ UNCHANGED <<directory, account, stale, identity, errors>>

(* find_server finds none, after servers were marked unhealthy. *)
NoServer(t) ==
    /\ op[t].at = "take"
    /\ op[t].failed
    /\ op' = [op EXCEPT ![t] = NoOp(Error("NoHealthyServerAvailable"))]
    /\ UNCHANGED <<directory, account, where, stale, identity, errors>>

(* The return of the connection is not spawned. *)
Gives_Slip(t, to) == where' = where

(* The connection leaves the operation: a task that returns it is spawned. *)
Gives(t, to) == where' = [where EXCEPT ![op[t].conn] = to]

Ends(t, res) ==
    /\ op' = [op EXCEPT ![t] = NoOp(res)]
    /\ Gives(t, IF res.err = "panic" THEN "dropped" ELSE "returning")

Continues(t, at) == op' = [op EXCEPT ![t].at = at] /\ UNCHANGED where

Binds(t, i) == identity' = [identity EXCEPT ![op[t].conn] = i]

(* Nobody is bound after a rejected bind. *)
AdminBind(t) ==
    /\ op[t].at \in {"search_bind", "groups_bind"}
    /\ \/ /\ op[t].account = "good"
          /\ Binds(t, "admin")
          /\ Continues(t, IF op[t].at = "search_bind" THEN "search" ELSE "groups")
       \/ /\ op[t].account = "bad"
          /\ Binds(t, "anonymous")
          /\ Ends(t, Error("LdapAdminBindError"))
    /\ UNCHANGED <<directory, account, stale, errors>>

(***************************************************************************)
(* search.  The value of the dn attribute is taken without a look at how   *)
(* many there are; without one it panics, and the connection is dropped    *)
(* with the task.                                                          *)
(***************************************************************************)
Search(t) ==
    LET i == identity[op[t].conn]
        found == Found(i, op[t].user)
    IN  /\ op[t].at = "search"
        /\ IF i \in directory.refuses THEN Ends(t, Error("LdapSearchError"))
           ELSE CASE found = "one"     -> Continues(t, "bind")
                  [] found = "none"    -> Ends(t, Error("NoLdapEntryFound"))
                  [] found = "several" -> Ends(t, Error("MultipleEntryFound"))
                  [] found = "nodn"    -> Ends(t, Error("InvalidDNAttribute"))
                  [] found = "novalue" -> Ends(t, Error("panic"))
        /\ UNCHANGED <<directory, account, stale, identity, errors>>

(* Without the admin bind. *)
PrepareGroupSearch_Slip(t) == Continues(t, "groups")

PrepareGroupSearch(t) ==
    Continues(t, IF op[t].account = "none" THEN "groups" ELSE "groups_bind")

Bind(t) ==
    /\ op[t].at = "bind"
    /\ \/ /\ op[t].right /\ directory.entry[op[t].user] # "none"
          /\ Binds(t, op[t].user)
          /\ PrepareGroupSearch(t)
       \/ /\ ~op[t].right \/ directory.entry[op[t].user] = "none"
          /\ Binds(t, "anonymous")
          /\ Ends(t, Error("LdapBindError"))
    /\ UNCHANGED <<directory, account, stale, errors>>

SearchGroupsRules(t) ==
    LET i == identity[op[t].conn]
    IN  /\ op[t].at = "groups"
        /\ Ends(t, IF i \in directory.refuses THEN Error("LdapSearchError")
                   ELSE Ok(MergeTokens(Tokens(i, op[t].user))))
        /\ UNCHANGED <<directory, account, stale, identity, errors>>

(* Who a bind that got no answer in time may have left bound. *)
AfterTimeout(t) ==
    CASE op[t].at \in {"search_bind", "groups_bind"} ->
           {identity[op[t].conn], IF op[t].account = "good" THEN "admin" ELSE "anonymous"}
      [] op[t].at = "bind" ->
           {identity[op[t].conn], IF op[t].right THEN op[t].user ELSE "anonymous"}
      [] OTHER -> {identity[op[t].conn]}

(***************************************************************************)
(* A connection error, a timeout included, at any message: the connection  *)
(* goes back to the pool and the operation starts over.                    *)
(***************************************************************************)
ConnectionError(t) ==
    /\ op[t].at \in LdapSteps
    /\ errors > 0
    /\ errors' = errors - 1
    /\ \E i \in AfterTimeout(t) : Binds(t, i)
    /\ op' = [op EXCEPT ![t].at = "take", ![t].conn = NoConn, ![t].failed = TRUE]
    /\ Gives(t, "returning")
    /\ UNCHANGED <<directory, account, stale>>

(* One that is stale is dropped: the new one in its place is nobody's yet. *)
Return(k) ==
    /\ where[k] = "returning" \/ (where[k] = "dropped" /\ k \in stale)
    /\ where' = [where EXCEPT ![k] = "free"]
    /\ stale' = stale \ {k}
    /\ identity' = [identity EXCEPT ![k] = IF k \in stale THEN "anonymous" ELSE @]
    /\ UNCHANGED <<directory, account, op, errors>>

(* Every connection in the pool is replaced, dropped ones too. *)
ResetPool ==
    /\ stale' = {k \in Conns : where[k] \in {"lent", "returning"}}
    /\ identity' = [k \in Conns |-> IF k \in stale' THEN identity[k] ELSE "anonymous"]
    /\ where' = [k \in Conns |-> IF k \in stale' THEN where[k] ELSE "free"]
    /\ UNCHANGED <<directory, account, op, errors>>

(* CONFIG SET ldap.search_bind_dn or ldap.search_bind_passwd *)
SetAccount(a) ==
    /\ account' = a
    /\ UNCHANGED <<directory, where, stale, identity, op, errors>>

Next ==
    \/ \E t \in Ops :
         \/ \E u \in Users, right \in BOOLEAN, mode \in {"bind", "search+bind"} :
              Start(t, u, right, mode)
         \/ \E k \in Conns : Take(t, k)
         \/ NoServer(t) \/ AdminBind(t) \/ Search(t) \/ Bind(t)
         \/ SearchGroupsRules(t) \/ ConnectionError(t)
    \/ \E k \in Conns : Return(k)
    \/ ResetPool
    \/ \E a \in Accounts : SetAccount(a)

Spec == Init /\ [][Next]_vars

-----------------------------------------------------------------------------
(***************************************************************************)
(* The types of the variables; an operation has a connection, lent to it,  *)
(* while it talks to the server.                                           *)
(***************************************************************************)
TypeOK ==
    /\ directory \in Directories /\ account \in Accounts
    /\ where \in [Conns -> {"free", "lent", "returning", "dropped"}]
    /\ stale \subseteq {k \in Conns : where[k] # "free"}
    /\ identity \in [Conns -> Identities]
    /\ \A t \in Ops :
         /\ op[t].at \in {"done", "take"} \cup LdapSteps
         /\ op[t].user \in Users /\ op[t].account \in Accounts \cup {"none"}
         /\ op[t].conn \in Conns \cup {NoConn}
         /\ op[t].res.err \in Errors \cup {"none"}
    /\ {k \in Conns : where[k] = "lent"}
         = {op[t].conn : t \in {t \in Ops : op[t].at \in LdapSteps}}
    /\ errors \in 0..MaxErrors

(***************************************************************************)
(* Rules are looked up, and with a search account users too, under the     *)
(* identity that this very operation has bound: never under that of the    *)
(* connection's last user, or of another operation.                        *)
(***************************************************************************)
OwnIdentity ==
    \A t \in Ops :
        /\ op[t].at = "groups" =>
             identity[op[t].conn] = IF op[t].account = "none" THEN op[t].user ELSE "admin"
        /\ op[t].at = "search" /\ op[t].account # "none" =>
             identity[op[t].conn] = "admin"

(* rules has the tokens of toks once each, by their first places in toks. *)
First(tok, toks) ==
    CHOOSE n \in DOMAIN toks : toks[n] = tok /\ \A m \in 1..(n - 1) : toks[m] # tok

IsMerge(rules, toks) ==
    /\ ToSet(rules) = ToSet(toks)
    /\ \A m, n \in DOMAIN rules : m < n => First(rules[m], toks) < First(rules[n], toks)

(* What o comes to on connections of its own. *)
Searcher(o) == IF o.account = "none" THEN o.user ELSE "admin"

SearchError(o) ==
    LET found == Found("admin", o.user)
    IN  IF o.account = "bad" THEN "LdapAdminBindError"
        ELSE IF "admin" \in directory.refuses THEN "LdapSearchError"
        ELSE CASE found = "none"    -> "NoLdapEntryFound"
               [] found = "several" -> "MultipleEntryFound"
               [] found = "nodn"    -> "InvalidDNAttribute"
               [] found = "novalue" -> "panic"
               [] OTHER             -> "none"

ExpectedError(o) ==
    IF o.mode = "search+bind" /\ SearchError(o) # "none" THEN SearchError(o)
    ELSE IF ~o.right \/ directory.entry[o.user] = "none" THEN "LdapBindError"
    ELSE IF o.account = "bad" THEN "LdapAdminBindError"
    ELSE IF Searcher(o) \in directory.refuses THEN "LdapSearchError"
    ELSE "none"

(***************************************************************************)
(* README.md, authentication modes and rule sync.  In bind mode, and with  *)
(* a search account in search+bind mode, the result of an operation is     *)
(* what the user, the password, the settings at its start and the          *)
(* directory make it: whoever used its connections before, whatever other  *)
(* operations do, however often it started over, and the rules are those   *)
(* of all the user's groups, "merged (duplicates deduplicated)".           *)
(***************************************************************************)
OutcomeSound ==
    [][\A t \in Ops :
         LET o == op[t]
             res == op'[t].res
         IN  /\ o.at # "done" /\ op'[t].at = "done"
             /\ o.mode = "bind" \/ o.account # "none"
             => \/ o.failed /\ res.err = "NoHealthyServerAvailable"
                \/ /\ res.err = ExpectedError(o)
                   /\ res.err = "none" => IsMerge(res.rules, Tokens(Searcher(o), o.user))
      ]_vars
=============================================================================
