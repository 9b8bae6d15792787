------------------------------ MODULE LdapAuth -------------------------------
(***************************************************************************)
(* AUTH as the module handles it (auth.rs): the callback on the main       *)
(* thread that blocks the client, the LDAP operation on the scheduler      *)
(* (context.rs, connection.rs), and the reply callback, back on the main   *)
(* thread, that turns the result into changes of the ACL.  Between the     *)
(* three the configuration, the LDAP directory and other clients move on.  *)
(*                                                                         *)
(* Of the LDAP context only this is kept: a server can be reached or not.  *)
(* How the operation finds one is the subject of LdapContext.              *)
(***************************************************************************)
EXTENDS Naturals, FiniteSets

CONSTANTS
    Clients,
    Users,
    Newest,         \* bound: LDAP passwords are 1..Newest, in the order of use
    Tokens,         \* ACL rule tokens of the groups_rules_attribute
    Selectors,      \* those that are selectors, "(...)"
    BadTokens,      \* those that ACL SETUSER refuses
    OffTokens,      \* those that disable the user, "off"
    Grants,         \* the sets of tokens that the directory may hold for a user
    AuthModes,      \* the values of ldap.auth_mode
    FirstExempt,    \* the users ldap.exempted_users_regex matches at the start
    MaxAuths,       \* bound: AUTH commands of each client
    MaxEvents       \* bound: CONFIG SETs, directory changes, outages and
                    \* search failures, all together

ASSUME AuthAssumption ==
    /\ {Selectors, BadTokens, OffTokens} \subseteq SUBSET Tokens
    /\ Grants \subseteq SUBSET Tokens
    /\ AuthModes \subseteq {"bind", "search+bind"} /\ AuthModes # {}
    /\ FirstExempt \subseteq Users /\ Users # {}
    /\ Newest \in Nat \ {0} /\ MaxAuths \in Nat /\ MaxEvents \in Nat

VARIABLES
    acl,         \* acl[u]: Valkey's ACL user
    directory,   \* directory[u]: the LDAP entry
    reachable,   \* some listed LDAP server answers
    searchable,  \* searches and the admin bind succeed
    config,      \* ldap.servers, auth_mode, exempted_users_regex, acl_fallback_enabled
    req,         \* req[c]: the AUTH command of client c
    was,         \* history: was[c], what held at some moment of that command
    gone,        \* history: gone[u], u was deleted while the directory lacks it
    events       \* how many more events there may be

vars == <<acl, directory, reachable, searchable, config, req, was, gone, events>>

-----------------------------------------------------------------------------
(* The ACL.  Password 0 is a local one, never an LDAP password.            *)

LocalPassword == 0

Passwords == 0..Newest

NoAclUser == [exists |-> FALSE, perms |-> {}, selectors |-> {}, passwords |-> {}]

AclUser(ps) == [exists |-> TRUE, perms |-> {}, selectors |-> {}, passwords |-> ps]

Enabled(tokens) == tokens \cap OffTokens = {}

(* Valkey's own password check, for AUTH_NOT_HANDLED. *)
LocalAuth(u, p) == acl[u].exists /\ Enabled(acl[u].perms) /\ p \in acl[u].passwords

(* Without resetpass; without resetkeys resetchannels -@all. *)
SetUserPasswords_Slip(a, tokens, cached) ==
    [exists |-> TRUE, perms |-> tokens \ Selectors,
     selectors |-> a.selectors \cup (tokens \cap Selectors),
     passwords |-> a.passwords \cup cached]

SetUserPerms_Slip(a, tokens, cached) ==
    [exists |-> TRUE, perms |-> a.perms \cup (tokens \ Selectors),
     selectors |-> a.selectors \cup (tokens \cap Selectors),
     passwords |-> cached]

(***************************************************************************)
(* ACL SETUSER resetkeys resetchannels -@all <default_acl_rules> <tokens>, *)
(* with the defaults "on resetpass", then resetpass >password when the     *)
(* fallback is enabled.  Selectors are added to the ones there are.        *)
(***************************************************************************)
SetUser(a, tokens, cached) ==
    [exists    |-> TRUE,
     perms     |-> tokens \ Selectors,
     selectors |-> a.selectors \cup (tokens \cap Selectors),
     passwords |-> cached]

-----------------------------------------------------------------------------
(* Results of the LDAP operation: Ok with the tokens, or a VkLdapError.    *)
(* LdapBindError comes in three sorts: 32, 49 with sub-code 525, other 49. *)
(* A task that panics drops the blocked client, which has no result then.  *)

Ok(tokens) == [err |-> "none", tokens |-> tokens]

Error(e) == [err |-> e, tokens |-> {}]

SearchErrors ==
    {"LdapAdminBindError", "LdapSearchError", "MultipleEntryFound",
     "InvalidDNAttribute"}

Panic == "panic"

GroupErrors == {"LdapAdminBindError", "LdapSearchError"}

BindErrors == {"LdapBindError32", "LdapBindError49_525", "LdapBindError49"}

IsUserNotFound(e) ==
    e \in {"NoLdapEntryFound", "LdapBindError32", "LdapBindError49_525"}

(* A rejected bind taken for an outage; an outage not taken for one. *)
UnavailableWide_Slip(e) ==
    e \in {"NoHealthyServerAvailable", "LdapConnectionError", "NoServerConfigured",
           "SchedulerNotReady", "LdapBindError49"}

UnavailableNarrow_Slip(e) ==
    e \in {"LdapConnectionError", "NoServerConfigured", "SchedulerNotReady"}

IsServerUnavailable(e) ==
    e \in {"NoHealthyServerAvailable", "LdapConnectionError",
           "NoServerConfigured", "SchedulerNotReady"}

Errors == SearchErrors \cup BindErrors
            \cup {"NoLdapEntryFound", "NoHealthyServerAvailable", "NoServerConfigured",
                  Panic}

-----------------------------------------------------------------------------
Idle == {"idle", "accepted", "refused"}

LdapSteps == {"search", "bind", "rules"}

Pending == {"find", "answered"} \cup LdapSteps

NoRequest ==
    [at |-> "idle", user |-> CHOOSE u \in Users : TRUE, pass |-> LocalPassword,
     mode |-> CHOOSE m \in AuthModes : TRUE, res |-> Ok({}), left |-> MaxAuths]

(* The command of c is over; how many are left stays. *)
Over(c, outcome) == [NoRequest EXCEPT !.at = outcome, !.left = req[c].left]

Init ==
    /\ directory \in [Users -> [exists : {TRUE}, password : {1}, rules : Grants]]
    /\ acl \in [Users -> {NoAclUser, AclUser({}), AclUser({LocalPassword})}]
    /\ reachable = TRUE
    /\ searchable = TRUE
    /\ config \in [servers : {"loaded"}, mode : AuthModes, exempt : {FirstExempt},
                   fallback : BOOLEAN]
    /\ req = [c \in Clients |-> NoRequest]
    /\ was = [c \in Clients |-> {}]
    /\ gone = [u \in Users |-> FALSE]
    /\ events = MaxEvents

Replies(c) == req[c].at = "answered" /\ req'[c].at \in {"accepted", "refused"}

(* History.  Facts: what holds for the AUTH command of c now.  Overtakes:  *)
(* the reply to d's, for the same user, comes while c's is under way.      *)
Facts(c) ==
    LET e == directory[req[c].user]
    IN  {f \in {"absent", "matches", "differs", "down", "disabled", "reloading",
                   "faulty", "exempt"} :
           \/ f = "absent"    /\ ~e.exists
           \/ f = "matches"   /\ e.exists /\ e.password = req[c].pass
           \/ f = "differs"   /\ e.exists /\ e.password # req[c].pass
           \/ f = "down"      /\ ~reachable
           \/ f = "disabled"  /\ config.servers = "none"
           \/ f = "reloading" /\ config.servers = "loading"
           \/ f = "faulty"    /\ ~searchable
           \/ f = "exempt"    /\ req[c].user \in config.exempt}

Overtakes(d, c) == d # c /\ req[d].user = req[c].user /\ Replies(d)

Observe ==
    was' = [c \in Clients |->
              IF req'[c].at \notin Pending THEN {}
              ELSE was[c] \cup Facts(c)'
                     \cup {f \in {"overtaken"} : \E d \in Clients : Overtakes(d, c)}]

envVars == <<directory, reachable, searchable, config, events>>
-----------------------------------------------------------------------------
(***************************************************************************)
(* While CONFIG SET ldap.servers waits for the pools of the new servers,   *)
(* "loading", nothing else runs on the main thread.                        *)
(***************************************************************************)
MainThreadFree == config.servers # "loading"

(***************************************************************************)
(* ldap_auth_blocking_callback: without servers, or for an exempted user,  *)
(* Valkey's own check decides.  The mode is read now, for the whole        *)
(* command.                                                                *)
(***************************************************************************)
AuthCommand(c, u, p) ==
    /\ MainThreadFree
    /\ req[c].at \in Idle
    /\ req[c].left > 0
    /\ LET local == config.servers = "none" \/ u \in config.exempt
           outcome == IF LocalAuth(u, p) THEN "accepted" ELSE "refused"
           blocked == [NoRequest EXCEPT !.at = "find", !.user = u, !.pass = p,
                                        !.mode = config.mode]
           next == IF local THEN Over(c, outcome) ELSE blocked
       IN  req' = [req EXCEPT ![c] = [next EXCEPT !.left = req[c].left - 1]]
    /\ UNCHANGED <<acl, gone, envVars>>
    /\ Observe

(***************************************************************************)
(* The LDAP operation.  find_server ends it when no server is there.       *)
(***************************************************************************)
Answer(c, res) == req' = [req EXCEPT ![c].at = "answered", ![c].res = res]

Find(c) ==
    /\ req[c].at = "find"
    /\ \/ config.servers # "loaded" /\ Answer(c, Error("NoServerConfigured"))
       \/ /\ config.servers # "none" /\ ~reachable
          /\ Answer(c, Error("NoHealthyServerAvailable"))
       \/ /\ config.servers # "none" /\ reachable
          /\ req' = [req EXCEPT ![c].at = IF req[c].mode = "bind" THEN "bind"
                                          ELSE "search"]
    /\ UNCHANGED <<acl, gone, envVars>>
    /\ Observe

(* The connection error is the result. *)
Failover_Slip(c) ==
    /\ req[c].at \in LdapSteps
    /\ ~reachable
    /\ Answer(c, Error("LdapConnectionError"))
    /\ UNCHANGED <<acl, gone, envVars>>
    /\ Observe

(* A connection error, a timeout included: the operation starts over. *)
Failover(c) ==
    /\ req[c].at \in LdapSteps
    /\ ~reachable
    /\ req' = [req EXCEPT ![c].at = "find"]
    /\ UNCHANGED <<acl, gone, envVars>>
    /\ Observe

Entry(c) == directory[req[c].user]

(* An entry whose dn attribute has no value makes the search panic. *)
Search(c) ==
    /\ req[c].at = "search"
    /\ reachable
    /\ \/ ~searchable /\ \E e \in SearchErrors \cup {Panic} : Answer(c, Error(e))
       \/ searchable /\ ~Entry(c).exists /\ Answer(c, Error("NoLdapEntryFound"))
       \/ /\ searchable /\ Entry(c).exists
          /\ req' = [req EXCEPT ![c].at = "bind"]
    /\ UNCHANGED <<acl, gone, envVars>>
    /\ Observe

(* The result of the bind is not looked at. *)
Bind_Slip(c) ==
    /\ req[c].at = "bind"
    /\ reachable
    /\ req' = [req EXCEPT ![c].at = "rules"]
    /\ UNCHANGED <<acl, gone, envVars>>
    /\ Observe

(***************************************************************************)
(* A wrong password is an invalidCredentials.  How a server answers for an *)
(* entry that does not exist is its choice.                                *)
(***************************************************************************)
Bind(c) ==
    /\ req[c].at = "bind"
    /\ reachable
    /\ \/ /\ Entry(c).exists /\ Entry(c).password = req[c].pass
          /\ req' = [req EXCEPT ![c].at = "rules"]
       \/ /\ Entry(c).exists /\ Entry(c).password # req[c].pass
          /\ Answer(c, Error("LdapBindError49"))
       \/ ~Entry(c).exists /\ \E e \in BindErrors : Answer(c, Error(e))
    /\ UNCHANGED <<acl, gone, envVars>>
    /\ Observe

SearchGroupsRules(c) ==
    /\ req[c].at = "rules"
    /\ reachable
    /\ \/ ~searchable /\ \E e \in GroupErrors : Answer(c, Error(e))
       \/ searchable /\ Answer(c, Ok(Entry(c).rules))
    /\ UNCHANGED <<acl, gone, envVars>>
    /\ Observe

-----------------------------------------------------------------------------
(* auth_reply_callback, by the result.  The configuration it reads is the  *)
(* one at the time of the reply.                                           *)

Answered(c) == MainThreadFree /\ req[c].at = "answered"

Reply(c, outcome) == req' = [req EXCEPT ![c] = Over(c, outcome)]

(***************************************************************************)
(* apply_ldap_user_acl.  The client is authenticated after the ACL has     *)
(* changed, which fails for a user that its tokens have just disabled: the *)
(* client is refused, and the password cached all the same.                *)
(***************************************************************************)
ApplyLdapUserAcl(c) ==
    LET u == req[c].user
        tokens == req[c].res.tokens
        cached == IF config.fallback THEN {req[c].pass} ELSE {}
    IN  /\ Answered(c)
        /\ req[c].res.err = "none"
        /\ \/ /\ tokens \cap BadTokens # {}
              /\ Reply(c, "refused")
              /\ UNCHANGED acl
           \/ /\ tokens \cap BadTokens = {}
              /\ Reply(c, IF Enabled(tokens) THEN "accepted" ELSE "refused")
              /\ acl' = [acl EXCEPT ![u] = SetUser(@, tokens, cached)]
        /\ UNCHANGED <<gone, envVars>>
        /\ Observe

(* ACL DELUSER *)
DelUser(u) ==
    /\ acl' = [acl EXCEPT ![u] = NoAclUser]
    /\ gone' = [gone EXCEPT ![u] = @ \/ ~directory[u].exists]

HandleUserNotFound(c) ==
    /\ Answered(c)
    /\ IsUserNotFound(req[c].res.err)
    /\ Reply(c, "refused")
    /\ \/ req[c].user \in config.exempt /\ UNCHANGED <<acl, gone>>
       \/ req[c].user \notin config.exempt /\ DelUser(req[c].user)
    /\ UNCHANGED envVars
    /\ Observe

HandleServerUnavailable(c) ==
    /\ Answered(c)
    /\ IsServerUnavailable(req[c].res.err)
    /\ Reply(c, IF config.fallback /\ LocalAuth(req[c].user, req[c].pass)
                THEN "accepted" ELSE "refused")
    /\ UNCHANGED <<acl, gone, envVars>>
    /\ Observe

(* The user is kept. *)
HandleCredentialRejection_Slip(c) ==
    /\ Answered(c)
    /\ req[c].res.err \notin {"none", Panic}
    /\ ~IsUserNotFound(req[c].res.err)
    /\ ~IsServerUnavailable(req[c].res.err)
    /\ Reply(c, "refused")
    /\ UNCHANGED <<acl, gone, envVars>>
    /\ Observe

HandleCredentialRejection(c) ==
    /\ Answered(c)
    /\ req[c].res.err \notin {"none", Panic}
    /\ ~IsUserNotFound(req[c].res.err)
    /\ ~IsServerUnavailable(req[c].res.err)
    /\ Reply(c, "refused")
    /\ DelUser(req[c].user)
    /\ UNCHANGED envVars
    /\ Observe

(* No result: the client is refused, and the ACL left alone. *)
HandleNoResult(c) ==
    /\ Answered(c)
    /\ req[c].res.err = Panic
    /\ Reply(c, "refused")
    /\ UNCHANGED <<acl, gone, envVars>>
    /\ Observe

AuthReplyCallback(c) ==
    \/ ApplyLdapUserAcl(c) \/ HandleUserNotFound(c)
    \/ HandleServerUnavailable(c) \/ HandleCredentialRejection(c)
    \/ HandleNoResult(c)

(* A client that goes away, or is killed, gets no reply. *)
Disconnect(c) ==
    /\ req[c].at \in Pending
    /\ req' = [req EXCEPT ![c] = Over(c, "idle")]
    /\ UNCHANGED <<acl, gone, envVars>>
    /\ Observe

-----------------------------------------------------------------------------
(* CONFIG SET, the directory and the network.                              *)

Event == events > 0 /\ events' = events - 1

SetConfig ==
    /\ Event
    /\ MainThreadFree
    /\ \/ \E s \in {"none", "loading"} : config' = [config EXCEPT !.servers = s]
       \/ \E m \in AuthModes : config' = [config EXCEPT !.mode = m]
       \/ \E S \in SUBSET Users : config' = [config EXCEPT !.exempt = S]
       \/ \E f \in BOOLEAN : config' = [config EXCEPT !.fallback = f]
    /\ UNCHANGED <<acl, directory, reachable, searchable, req, gone>>
    /\ Observe

ServersLoaded ==
    /\ config.servers = "loading"
    /\ config' = [config EXCEPT !.servers = "loaded"]
    /\ UNCHANGED <<acl, directory, reachable, searchable, req, gone, events>>
    /\ Observe

ChangeEntry(u) ==
    /\ Event
    /\ \/ /\ directory[u].password < Newest
          /\ directory' = [directory EXCEPT ![u].password = @ + 1]
       \/ \E g \in Grants : directory' = [directory EXCEPT ![u].rules = g]
       \/ directory' = [directory EXCEPT ![u].exists = ~@]
    /\ gone' = [gone EXCEPT ![u] = @ /\ ~directory'[u].exists]
    /\ UNCHANGED <<acl, reachable, searchable, config, req>>
    /\ Observe

GoDown ==
    /\ reachable /\ Event
    /\ reachable' = FALSE
    /\ UNCHANGED <<acl, directory, searchable, config, req, gone>>
    /\ Observe

ComeUp ==
    /\ ~reachable
    /\ reachable' = TRUE
    /\ UNCHANGED <<acl, directory, searchable, config, req, gone, events>>
    /\ Observe

SearchesFail ==
    /\ searchable /\ Event
    /\ searchable' = FALSE
    /\ UNCHANGED <<acl, directory, reachable, config, req, gone>>
    /\ Observe

SearchesWork ==
    /\ ~searchable
    /\ searchable' = TRUE
    /\ UNCHANGED <<acl, directory, reachable, config, req, gone, events>>
    /\ Observe

-----------------------------------------------------------------------------
ClientStep(c) ==
    \/ \E u \in Users, p \in Passwords : AuthCommand(c, u, p)
    \/ Find(c) \/ Failover(c) \/ Search(c) \/ Bind(c) \/ SearchGroupsRules(c)
    \/ AuthReplyCallback(c) \/ Disconnect(c)

Surroundings ==
    \/ SetConfig \/ ServersLoaded \/ \E u \in Users : ChangeEntry(u)
    \/ GoDown \/ ComeUp \/ SearchesFail \/ SearchesWork

Next == (\E c \in Clients : ClientStep(c)) \/ Surroundings

Spec == Init /\ [][Next]_vars

-----------------------------------------------------------------------------
Accepts(c) == Replies(c) /\ req'[c].at = "accepted"

(* The reply changes the ACL as the directory has it, and may still refuse. *)
Applies(c) == Replies(c) /\ req[c].res.err = "none"

Deletes(u) == acl[u].exists /\ ~acl'[u].exists

(***************************************************************************)
(* The types of the variables.                                             *)
(***************************************************************************)
TypeOK ==
    /\ acl \in [Users -> [exists : BOOLEAN, perms : SUBSET Tokens,
                          selectors : SUBSET Tokens, passwords : SUBSET Passwords]]
    /\ directory \in [Users -> [exists : BOOLEAN, password : 1..Newest, rules : Grants]]
    /\ reachable \in BOOLEAN /\ searchable \in BOOLEAN
    /\ config \in [servers : {"none", "loading", "loaded"}, mode : AuthModes,
                   exempt : SUBSET Users, fallback : BOOLEAN]
    /\ req \in [Clients -> [at : Idle \cup Pending, user : Users, pass : Passwords,
                            mode : AuthModes, left : 0..MaxAuths,
                            res : [err : Errors \cup {"none"}, tokens : SUBSET Tokens]]]
    /\ events \in 0..MaxEvents /\ gone \in [Users -> BOOLEAN]

(***************************************************************************)
(* README.md, ACL fallback: LDAP decides, and only without it the cached   *)
(* password.  Whatever happens between the command and its reply, a client *)
(* is let in only when the directory held its password at some moment of   *)
(* the command, or no server was to be had at some moment of it, the       *)
(* fallback is enabled, and the ACL knows the password.                    *)
(***************************************************************************)
LoginJustified ==
    [][\A c \in Clients : Accepts(c) =>
         \/ "matches" \in was[c]
         \/ /\ was[c] \cap {"down", "disabled", "reloading"} # {}
            /\ config.fallback
            /\ LocalAuth(req[c].user, req[c].pass)]_vars

(***************************************************************************)
(* What is cached for a user is one password, and one that the directory   *)
(* has held (they are numbered in the order of use) or the local one.      *)
(***************************************************************************)
CacheSound ==
    \A u \in Users :
        /\ Cardinality(acl[u].passwords) <= 1
        /\ \A p \in acl[u].passwords : p <= directory[u].password

(***************************************************************************)
(* README.md: a login with the new password puts it in the cache.  An      *)
(* older one comes back only by a reply that another one overtook.         *)
(***************************************************************************)
CacheMovesForward ==
    [][\A u \in Users : \A p \in acl[u].passwords, q \in acl'[u].passwords :
         q < p => \E c \in Clients : Applies(c) /\ req[c].user = u
                                       /\ "overtaken" \in was[c]]_vars

(***************************************************************************)
(* auth.rs resets the permissions "to avoid accumulation".  What a user    *)
(* may do, selectors aside, is what the directory granted at one time, not *)
(* a mixture of what it granted at several.                                *)
(***************************************************************************)
PermissionsOfOneGrant ==
    \A u \in Users : acl[u].perms \in {g \ Selectors : g \in Grants \cup {{}}}

(***************************************************************************)
(* An outage never costs a user its ACL entry: one is deleted only by the  *)
(* reply to an AUTH of that user during which the directory lacked the     *)
(* user, had another password, or refused to search.                       *)
(***************************************************************************)
DeletionJustified ==
    [][\A u \in Users : Deletes(u) =>
         \E c \in Clients : /\ Replies(c) /\ req[c].user = u
                            /\ was[c] \cap {"absent", "differs", "faulty"} # {}]_vars

(***************************************************************************)
(* README.md: "A user is deleted from ACL only when LDAP confirms the user *)
(* does not exist.  Wrong passwords or other transient failures will NOT   *)
(* trigger deletion".                                                      *)
(***************************************************************************)
DeletedOnlyWhenAbsent ==
    [][\A u \in Users : Deletes(u) =>
         \E c \in Clients : Replies(c) /\ req[c].user = u /\ "absent" \in was[c]]_vars

(***************************************************************************)
(* README.md, automatic cleanup: when the directory lacks a user all the   *)
(* time of an AUTH that nothing else got in the way of, the user is not in *)
(* the ACL after the reply, however the server worded its refusal.         *)
(***************************************************************************)
RemovedIsCleanedUp ==
    [][\A c \in Clients :
         Replies(c) /\ was[c] = {"absent"} => ~acl'[req[c].user].exists]_vars

(***************************************************************************)
(* README.md, automatic cleanup "prevents unauthorized access from stale   *)
(* user accounts".  A user that it deleted, and that the directory still   *)
(* lacks, comes back only by a reply that another one overtook.            *)
(***************************************************************************)
StaysDeleted ==
    [][\A u \in Users : gone[u] /\ ~acl[u].exists /\ acl'[u].exists
         => \E c \in Clients : Applies(c) /\ req[c].user = u
                                 /\ "overtaken" \in was[c]]_vars
=============================================================================
