-------------------------- MODULE LdapAuth_proofs ----------------------------
(***************************************************************************)
(* Proofs about LdapAuth, for every set of clients, of users and of        *)
(* grants, and for every number of AUTH commands and of other events.      *)
(***************************************************************************)
EXTENDS LdapAuth, FiniteSetTheorems, TLAPS

-----------------------------------------------------------------------------
(***************************************************************************)
(* The inductive invariant.                                                *)
(*                                                                         *)
(* What a reply does depends on a result that may be old by then.  So the  *)
(* invariant ties every result under way to what the command has seen:     *)
(* Observed says that was[c] has all that holds now, Explained that it     *)
(* has the reason for the result, and InOrder that a password which was    *)
(* verified is no older than the cached one unless a reply overtook it.    *)
(***************************************************************************)
Observed(c) == req[c].at \in Pending => Facts(c) \subseteq was[c]

Verified(c) == \/ req[c].at = "rules"
               \/ req[c].at = "answered" /\ req[c].res.err = "none"

Explained(c) ==
    /\ Verified(c) => "matches" \in was[c]
    /\ req[c].at = "answered" =>
         LET e == req[c].res.err
         IN  /\ e = "none" => req[c].res.tokens \in Grants
             /\ IsServerUnavailable(e)
                  => "down" \in was[c] \/ "disabled" \in was[c] \/ "reloading" \in was[c]
             /\ IsUserNotFound(e) => "absent" \in was[c]
             /\ e = "LdapBindError49" => "absent" \in was[c] \/ "differs" \in was[c]
             /\ e \in SearchErrors \cup {Panic} => "faulty" \in was[c]

InOrder(c) ==
    Verified(c) =>
      LET u == req[c].user
      IN  /\ req[c].pass <= directory[u].password
          /\ "overtaken" \notin was[c] =>
               /\ ~gone[u]
               /\ \A p \in acl[u].passwords : p <= req[c].pass

UserInv(u) ==
    /\ gone[u] => ~directory[u].exists
    /\ \A p, q \in acl[u].passwords : p = q
    /\ \A p \in acl[u].passwords : p <= directory[u].password
    /\ acl[u].perms \in {g \ Selectors : g \in Grants \cup {{}}}

IInv ==
    /\ TypeOK
    /\ \A c \in Clients : Observed(c)
    /\ \A c \in Clients : Explained(c)
    /\ \A c \in Clients : InOrder(c)
    /\ \A u \in Users : UserInv(u)

-----------------------------------------------------------------------------
(* What the parts of an action leave as they were.                         *)

Results == [err : Errors \cup {"none"}, tokens : SUBSET Tokens]

Requests == [at : Idle \cup Pending, user : Users, pass : Passwords,
             mode : AuthModes, left : 0..MaxAuths, res : Results]

(* The place of the chosen user and mode of a request that is none. *)
LEMMA NoRequestType == NoRequest \in Requests
<1>1. (CHOOSE u \in Users : TRUE) \in Users
  BY AuthAssumption
<1>2. (CHOOSE m \in AuthModes : TRUE) \in AuthModes
  BY AuthAssumption
<1>3. LocalPassword \in Passwords /\ MaxAuths \in 0..MaxAuths
  BY AuthAssumption DEF LocalPassword, Passwords
<1> QED BY <1>1, <1>2, <1>3 DEF NoRequest, Requests, Results, Ok, Idle

(* Observe adds what holds now to what was noted, and forgets nothing      *)
(* before the command is over.                                             *)
LEMMA ObserveFacts ==
    ASSUME Observe, NEW c \in Clients, req'[c].at \in Pending
    PROVE  /\ was[c] \subseteq was'[c]
           /\ Facts(c)' \subseteq was'[c]
           /\ (\E d \in Clients : Overtakes(d, c)) => "overtaken" \in was'[c]
BY DEF Observe

(* The facts of a command, one by one. *)
LEMMA FactsOf ==
    ASSUME NEW c \in Clients, TypeOK, Observed(c), req[c].at \in Pending
    PROVE  LET e == directory[req[c].user]
           IN  /\ ~e.exists => "absent" \in was[c]
               /\ e.exists /\ e.password = req[c].pass => "matches" \in was[c]
               /\ e.exists /\ e.password # req[c].pass => "differs" \in was[c]
               /\ ~reachable => "down" \in was[c]
               /\ config.servers = "none" => "disabled" \in was[c]
               /\ config.servers = "loading" => "reloading" \in was[c]
               /\ ~searchable => "faulty" \in was[c]
               /\ req[c].user \in config.exempt => "exempt" \in was[c]
<1>1. Facts(c) \subseteq was[c]
  BY DEF Observed
<1> QED BY <1>1 DEF Facts

(* So every command under way has noted what holds, after any step. *)
LEMMA ObservedNext ==
    ASSUME Observe
    PROVE  \A c \in Clients : Observed(c)'
BY ObserveFacts DEF Observed

(* The explanation of a result lasts. *)
LEMMA ExplainedStays ==
    ASSUME NEW c \in Clients, Observe, Explained(c), req'[c] = req[c]
    PROVE  Explained(c)'
<1>1. CASE req[c].at \in Pending
  <2>1. was[c] \subseteq was'[c]
    BY <1>1, ObserveFacts
  <2> QED BY <2>1 DEF Explained, Verified
<1>2. CASE req[c].at \notin Pending
  BY <1>2 DEF Explained, Verified, Pending, LdapSteps
<1> QED BY <1>1, <1>2

(* A verified password stays in order while the directory moves forward,   *)
(* and the ACL of its user only by replies that overtake the command.      *)
LEMMA InOrderStays ==
    ASSUME NEW c \in Clients, TypeOK, TypeOK', Observe, InOrder(c), req'[c] = req[c],
           directory[req[c].user].password <= directory'[req[c].user].password,
           \/ \E d \in Clients : Overtakes(d, c)
           \/ /\ acl'[req[c].user].passwords = acl[req[c].user].passwords
              /\ gone'[req[c].user] => gone[req[c].user]
    PROVE  InOrder(c)'
<1> SUFFICES ASSUME Verified(c)' PROVE InOrder(c)'
  BY DEF InOrder
<1> DEFINE u == req[c].user
<1>1. Verified(c) /\ req'[c].at \in Pending
  BY DEF Verified, Pending, LdapSteps
<1>2. /\ was[c] \subseteq was'[c]
      /\ (\E d \in Clients : Overtakes(d, c)) => "overtaken" \in was'[c]
  BY <1>1, ObserveFacts
<1>3. /\ req[c].pass \in Int /\ u \in Users
      /\ directory[u].password \in Int /\ directory'[u].password \in Int
  BY DEF TypeOK, Passwords
<1>4. req[c].pass <= directory'[u].password
  BY <1>1, <1>3 DEF InOrder
<1>5. ASSUME "overtaken" \notin was'[c]
      PROVE  ~gone'[u] /\ \A p \in acl'[u].passwords : p <= req[c].pass
  BY <1>1, <1>2, <1>5 DEF InOrder
<1> QED BY <1>4, <1>5 DEF InOrder

-----------------------------------------------------------------------------
(* Three sorts of steps.                                                   *)

(* The command of c goes on; the ACL, the directory and the configuration  *)
(* stay as they are.                                                       *)
LEMMA QuietStep ==
    ASSUME IInv, NEW c \in Clients, UNCHANGED <<acl, gone, envVars>>, Observe,
           NEW r \in Requests, req' = [req EXCEPT ![c] = r],
           Explained(c)', InOrder(c)'
    PROVE  IInv'
<1>1. TypeOK'
  BY DEF IInv, TypeOK, Requests, Results, envVars
<1>2. \A d \in Clients \ {c} : req'[d] = req[d]
  BY DEF IInv, TypeOK
<1>3. \A d \in Clients : Observed(d)'
  BY ObservedNext
<1>4. \A d \in Clients : Explained(d)'
  BY <1>2, ExplainedStays DEF IInv
<1>5. ASSUME NEW d \in Clients \ {c} PROVE InOrder(d)'
  <2>1. directory[req[d].user].password <= directory'[req[d].user].password
    BY DEF IInv, TypeOK, envVars
  <2> QED BY <1>1, <1>2, <2>1, InOrderStays DEF IInv
<1>6. \A u \in Users : UserInv(u)'
  BY DEF IInv, UserInv, envVars
<1> QED BY <1>1, <1>3, <1>4, <1>5, <1>6 DEF IInv

(* The command of c gets its reply, which may change the ACL of its user:  *)
(* every other command of that user is overtaken.                          *)
LEMMA ReplyStep ==
    ASSUME IInv, NEW c \in Clients, req[c].at = "answered", UNCHANGED envVars, Observe,
           NEW outcome \in {"accepted", "refused"}, Reply(c, outcome),
           NEW u, u = req[c].user,
           NEW a, acl' = [acl EXCEPT ![u] = a],
           a \in [exists : BOOLEAN, perms : SUBSET Tokens,
                  selectors : SUBSET Tokens, passwords : SUBSET Passwords],
           NEW g \in BOOLEAN, gone' = [gone EXCEPT ![u] = g],
           UserInv(u)'
    PROVE  IInv'
<1>1. /\ Over(c, outcome) \in Requests /\ Over(c, outcome).at = outcome
      /\ u \in Users
  BY NoRequestType DEF IInv, TypeOK, Over, Requests, Idle
<1>2. req'[c] = Over(c, outcome) /\ \A d \in Clients \ {c} : req'[d] = req[d]
  BY DEF IInv, TypeOK, Reply
<1>3. TypeOK'
  BY <1>1 DEF IInv, TypeOK, Requests, Results, envVars, Reply
<1>4. req'[c].at \in {"accepted", "refused"} /\ Replies(c)
  BY <1>1, <1>2 DEF Replies
<1>5. Explained(c)' /\ InOrder(c)'
  BY <1>4 DEF Explained, InOrder, Verified
<1>6. ASSUME NEW d \in Clients \ {c} PROVE Explained(d)' /\ InOrder(d)'
  <2>1. directory[req[d].user].password <= directory'[req[d].user].password
    BY DEF IInv, TypeOK, envVars
  <2>2. \/ Overtakes(c, d)
        \/ /\ acl'[req[d].user].passwords = acl[req[d].user].passwords
           /\ gone'[req[d].user] => gone[req[d].user]
    BY <1>4 DEF Overtakes, IInv, TypeOK
  <2>3. Explained(d)'
    BY <1>2, ExplainedStays DEF IInv
  <2>4. InOrder(d)'
    BY <1>2, <1>3, <2>1, <2>2, InOrderStays DEF IInv
  <2> QED BY <2>3, <2>4
<1>7. ASSUME NEW w \in Users \ {u} PROVE UserInv(w)'
  <2>1. acl'[w] = acl[w] /\ gone'[w] = gone[w] /\ directory'[w] = directory[w]
    BY DEF IInv, TypeOK, envVars
  <2> QED BY <2>1 DEF IInv, UserInv
<1>8. /\ \A d \in Clients : Explained(d)' /\ InOrder(d)'
      /\ \A w \in Users : UserInv(w)'
  BY <1>5, <1>6, <1>7
<1> QED BY <1>3, <1>8, ObservedNext DEF IInv

(* The surroundings change: a directory password only to a newer one.      *)
LEMMA SurroundingsStep ==
    ASSUME IInv, UNCHANGED <<acl, req>>, Observe, TypeOK',
           \A u \in Users : /\ directory[u].password <= directory'[u].password
                            /\ gone'[u] => gone[u] /\ ~directory'[u].exists
    PROVE  IInv'
<1>1. ASSUME NEW c \in Clients PROVE Explained(c)' /\ InOrder(c)'
  <2>1. req[c].user \in Users
    BY DEF IInv, TypeOK
  <2>2. Explained(c)'
    BY ExplainedStays DEF IInv
  <2>3. InOrder(c)'
    BY <2>1, InOrderStays DEF IInv
  <2> QED BY <2>2, <2>3
<1>2. ASSUME NEW u \in Users PROVE UserInv(u)'
  <2>1. /\ acl[u].passwords \subseteq Int
        /\ directory[u].password \in Int /\ directory'[u].password \in Int
    BY DEF IInv, TypeOK, Passwords
  <2>2. UserInv(u)
    BY DEF IInv
  <2>3. \A p \in acl[u].passwords : p <= directory'[u].password
    BY <2>1, <2>2 DEF UserInv
  <2> QED BY <2>2, <2>3 DEF UserInv
<1> QED BY <1>1, <1>2, ObservedNext DEF IInv

-----------------------------------------------------------------------------
(* The steps of the LDAP operation.                                        *)

(* A result has its reason in what the command has seen.  A good one comes *)
(* only after the bind.                                                    *)
Reason(c, res) ==
    LET e == res.err
    IN  /\ e = "none" => req[c].at = "rules" /\ res.tokens \in Grants
        /\ IsServerUnavailable(e)
             => "down" \in was[c] \/ "disabled" \in was[c] \/ "reloading" \in was[c]
        /\ IsUserNotFound(e) => "absent" \in was[c]
        /\ e = "LdapBindError49" => "absent" \in was[c] \/ "differs" \in was[c]
        /\ e \in SearchErrors \cup {Panic} => "faulty" \in was[c]

LEMMA AnswerStep ==
    ASSUME IInv, NEW c \in Clients, req[c].at \in Pending, NEW res \in Results,
           Answer(c, res), Reason(c, res), UNCHANGED <<acl, gone, envVars>>, Observe
    PROVE  IInv'
<1> DEFINE r == [req[c] EXCEPT !.at = "answered", !.res = res]
<1>1. req[c] \in Requests
  BY DEF IInv, TypeOK, Requests, Results
<1>2. /\ r \in Requests /\ r.at = "answered" /\ r.res = res
      /\ r.user = req[c].user /\ r.pass = req[c].pass
  BY <1>1 DEF Requests, Pending
<1> HIDE DEF r
<1>3. req' = [req EXCEPT ![c] = r]
  BY DEF IInv, TypeOK, Answer, r
<1>4. req'[c] = r
  BY <1>3 DEF IInv, TypeOK
<1>5. was[c] \subseteq was'[c]
  BY <1>2, <1>4, ObserveFacts DEF Pending
<1>6. ASSUME res.err = "none"
      PROVE  "matches" \in was'[c]
  BY <1>5, <1>6 DEF IInv, Explained, Verified, Reason
<1>7. Explained(c)'
  BY <1>2, <1>4, <1>5, <1>6 DEF Explained, Verified, Reason
<1>8. InOrder(c)'
  <2> SUFFICES ASSUME Verified(c)' PROVE InOrder(c)'
    BY DEF InOrder
  <2>1. Verified(c)
    BY <1>2, <1>4 DEF Verified, Reason
  <2>2. InOrder(c)
    BY DEF IInv
  <2> QED BY <1>2, <1>4, <1>5, <2>1, <2>2 DEF InOrder, envVars
<1> QED BY <1>2, <1>3, <1>7, <1>8, QuietStep

(* Going on to the next step needs no reason, but for the bind, after      *)
(* which the password counts as verified: it is the directory's then.      *)
LEMMA MoveStep ==
    ASSUME IInv, NEW c \in Clients, req[c].at \in Pending,
           NEW a \in {"find", "search", "bind", "rules"},
           req' = [req EXCEPT ![c].at = a],
           a = "rules" => Entry(c).exists /\ Entry(c).password = req[c].pass,
           UNCHANGED <<acl, gone, envVars>>, Observe
    PROVE  IInv'
<1> DEFINE r == [req[c] EXCEPT !.at = a]
<1>1. req[c] \in Requests
  BY DEF IInv, TypeOK, Requests, Results
<1>2. /\ r \in Requests /\ r.at = a
      /\ r.user = req[c].user /\ r.pass = req[c].pass
  BY <1>1 DEF Requests, Pending, LdapSteps
<1> HIDE DEF r
<1>3. req' = [req EXCEPT ![c] = r]
  BY DEF IInv, TypeOK, r
<1>4. req'[c] = r
  BY <1>3 DEF IInv, TypeOK
<1>5. was[c] \subseteq was'[c]
  BY <1>2, <1>4, ObserveFacts DEF Pending, LdapSteps
<1>6. a = "rules" => "matches" \in was[c]
  BY FactsOf DEF IInv, Entry
<1>7. Explained(c)'
  BY <1>2, <1>4, <1>5, <1>6 DEF Explained, Verified
<1>8. InOrder(c)'
  <2> SUFFICES ASSUME a = "rules" PROVE InOrder(c)'
    BY <1>2, <1>4 DEF InOrder, Verified
  <2> DEFINE u == req[c].user
  <2>1. u \in Users /\ directory[u].password \in Int /\ UserInv(u)
    BY DEF IInv, TypeOK
  <2>2. /\ req[c].pass <= directory[u].password /\ ~gone[u]
        /\ \A p \in acl[u].passwords : p <= req[c].pass
    BY <2>1 DEF UserInv, Entry
  <2> QED BY <1>2, <1>4, <2>2 DEF InOrder, envVars
<1> QED BY <1>2, <1>3, <1>7, <1>8, QuietStep

LEMMA FindIInv ==
    ASSUME IInv, NEW c \in Clients, Find(c)
    PROVE  IInv'
<1>1. req[c].at \in Pending /\ UNCHANGED <<acl, gone, envVars>> /\ Observe
  BY DEF Find, Pending
<1>2. /\ config.servers = "none" => "disabled" \in was[c]
      /\ config.servers = "loading" => "reloading" \in was[c]
      /\ ~reachable => "down" \in was[c]
      /\ config.servers \in {"none", "loading", "loaded"}
  BY <1>1, FactsOf DEF IInv, TypeOK
<1>3. CASE config.servers # "loaded" /\ Answer(c, Error("NoServerConfigured"))
  <2>1. /\ Error("NoServerConfigured") \in Results
        /\ Reason(c, Error("NoServerConfigured"))
    BY <1>2, <1>3 DEF Error, Results, Errors, Reason, IsServerUnavailable, IsUserNotFound,
                      SearchErrors, Panic
  <2> QED BY <1>1, <1>3, <2>1, AnswerStep
<1>4. CASE ~reachable /\ Answer(c, Error("NoHealthyServerAvailable"))
  <2>1. /\ Error("NoHealthyServerAvailable") \in Results
        /\ Reason(c, Error("NoHealthyServerAvailable"))
    BY <1>2, <1>4 DEF Error, Results, Errors, Reason, IsServerUnavailable, IsUserNotFound,
                      SearchErrors, Panic
  <2> QED BY <1>1, <1>4, <2>1, AnswerStep
<1>5. CASE req' = [req EXCEPT ![c].at = IF req[c].mode = "bind" THEN "bind"
                                        ELSE "search"]
  <2>1. PICK a \in {"bind", "search"} : req' = [req EXCEPT ![c].at = a]
    BY <1>5
  <2> QED BY <1>1, <2>1, MoveStep
<1> QED BY <1>3, <1>4, <1>5 DEF Find

LEMMA FailoverIInv ==
    ASSUME IInv, NEW c \in Clients, Failover(c)
    PROVE  IInv'
BY MoveStep DEF Failover, Pending

LEMMA SearchIInv ==
    ASSUME IInv, NEW c \in Clients, Search(c)
    PROVE  IInv'
<1>1. req[c].at \in Pending /\ UNCHANGED <<acl, gone, envVars>> /\ Observe
  BY DEF Search, Pending, LdapSteps
<1>2. (~searchable => "faulty" \in was[c]) /\ (~Entry(c).exists => "absent" \in was[c])
  BY <1>1, FactsOf DEF IInv, Entry
<1>3. ASSUME ~searchable, NEW e \in SearchErrors \cup {Panic}, Answer(c, Error(e))
      PROVE  IInv'
  <2>1. Error(e) \in Results /\ Reason(c, Error(e))
    BY <1>2, <1>3 DEF Error, Results, Errors, Reason, IsServerUnavailable, IsUserNotFound,
                      SearchErrors, Panic
  <2> QED BY <1>1, <1>3, <2>1, AnswerStep
<1>4. CASE ~Entry(c).exists /\ Answer(c, Error("NoLdapEntryFound"))
  <2>1. Error("NoLdapEntryFound") \in Results /\ Reason(c, Error("NoLdapEntryFound"))
    BY <1>2, <1>4 DEF Error, Results, Errors, Reason, IsServerUnavailable, IsUserNotFound,
                      SearchErrors, Panic
  <2> QED BY <1>1, <1>4, <2>1, AnswerStep
<1>5. CASE req' = [req EXCEPT ![c].at = "bind"]
  BY <1>1, <1>5, MoveStep
<1> QED BY <1>3, <1>4, <1>5 DEF Search

LEMMA BindIInv ==
    ASSUME IInv, NEW c \in Clients, Bind(c)
    PROVE  IInv'
<1>1. req[c].at \in Pending /\ UNCHANGED <<acl, gone, envVars>> /\ Observe
  BY DEF Bind, Pending, LdapSteps
<1>2. /\ ~Entry(c).exists => "absent" \in was[c]
      /\ Entry(c).exists /\ Entry(c).password # req[c].pass => "differs" \in was[c]
  BY <1>1, FactsOf DEF IInv, Entry
<1>3. CASE /\ Entry(c).exists /\ Entry(c).password = req[c].pass
           /\ req' = [req EXCEPT ![c].at = "rules"]
  BY <1>1, <1>3, MoveStep
<1>4. CASE /\ Entry(c).exists /\ Entry(c).password # req[c].pass
           /\ Answer(c, Error("LdapBindError49"))
  <2>1. Error("LdapBindError49") \in Results /\ Reason(c, Error("LdapBindError49"))
    BY <1>2, <1>4 DEF Error, Results, Errors, BindErrors, Reason, IsServerUnavailable,
                      IsUserNotFound, SearchErrors, Panic
  <2> QED BY <1>1, <1>4, <2>1, AnswerStep
<1>5. ASSUME ~Entry(c).exists, NEW e \in BindErrors, Answer(c, Error(e))
      PROVE  IInv'
  <2>1. Error(e) \in Results /\ Reason(c, Error(e))
    BY <1>2, <1>5 DEF Error, Results, Errors, BindErrors, Reason, IsServerUnavailable,
                      IsUserNotFound, SearchErrors, Panic
  <2> QED BY <1>1, <1>5, <2>1, AnswerStep
<1> QED BY <1>3, <1>4, <1>5 DEF Bind

LEMMA SearchGroupsRulesIInv ==
    ASSUME IInv, NEW c \in Clients, SearchGroupsRules(c)
    PROVE  IInv'
<1>1. /\ req[c].at \in Pending /\ req[c].at = "rules"
      /\ UNCHANGED <<acl, gone, envVars>> /\ Observe
  BY DEF SearchGroupsRules, Pending, LdapSteps
<1>2. ~searchable => "faulty" \in was[c]
  BY <1>1, FactsOf DEF IInv
<1>3. ASSUME ~searchable, NEW e \in GroupErrors, Answer(c, Error(e))
      PROVE  IInv'
  <2>1. Error(e) \in Results /\ Reason(c, Error(e))
    BY <1>2, <1>3 DEF Error, Results, Errors, Reason, IsServerUnavailable, IsUserNotFound,
                      SearchErrors, GroupErrors, Panic
  <2> QED BY <1>1, <1>3, <2>1, AnswerStep
<1>4. CASE Answer(c, Ok(Entry(c).rules))
  <2>1. Entry(c).rules \in Grants /\ Entry(c).rules \in SUBSET Tokens
    BY AuthAssumption DEF IInv, TypeOK, Entry
  <2>2. Ok(Entry(c).rules) \in Results /\ Reason(c, Ok(Entry(c).rules))
    BY <1>1, <2>1 DEF Ok, Results, Reason, IsServerUnavailable, IsUserNotFound,
                      SearchErrors, Panic
  <2> QED BY <1>1, <1>4, <2>2, AnswerStep
<1> QED BY <1>3, <1>4 DEF SearchGroupsRules

-----------------------------------------------------------------------------
(* The main thread: the callback that blocks the client, the reply, and a  *)
(* client that goes away.                                                  *)

(* A command that is over, or only starts, has verified nothing. *)
LEMMA UnverifiedStep ==
    ASSUME IInv, NEW c \in Clients, UNCHANGED <<acl, gone, envVars>>, Observe,
           NEW r \in Requests, req' = [req EXCEPT ![c] = r],
           r.at \in Idle \cup {"find"}
    PROVE  IInv'
<1>1. req'[c] = r
  BY DEF IInv, TypeOK
<1>2. Explained(c)' /\ InOrder(c)'
  BY <1>1 DEF Explained, InOrder, Verified, Idle
<1> QED BY <1>2, QuietStep

LEMMA AuthCommandIInv ==
    ASSUME IInv, NEW c \in Clients, NEW u \in Users, NEW p \in Passwords,
           AuthCommand(c, u, p)
    PROVE  IInv'
<1> DEFINE outcome == IF LocalAuth(u, p) THEN "accepted" ELSE "refused"
           blocked == [NoRequest EXCEPT !.at = "find", !.user = u, !.pass = p,
                                        !.mode = config.mode]
           next == IF config.servers = "none" \/ u \in config.exempt
                   THEN Over(c, outcome) ELSE blocked
           r == [next EXCEPT !.left = req[c].left - 1]
<1>1. /\ req[c].left \in 0..MaxAuths /\ req[c].left - 1 \in 0..MaxAuths
      /\ config.mode \in AuthModes
  BY AuthAssumption DEF AuthCommand, IInv, TypeOK
<1>2. blocked \in Requests /\ blocked.at = "find"
  BY <1>1, NoRequestType DEF Requests, Pending
<1>3. Over(c, outcome) \in Requests /\ Over(c, outcome).at \in Idle
  BY <1>1, NoRequestType DEF Over, Requests, Idle
<1>4. next \in Requests /\ next.at \in Idle \cup {"find"}
  BY <1>2, <1>3
<1> HIDE DEF next
<1>5. r \in Requests /\ r.at \in Idle \cup {"find"}
  BY <1>1, <1>4 DEF Requests
<1>6. req' = [req EXCEPT ![c] = r]
  BY DEF AuthCommand, next
<1>7. UNCHANGED <<acl, gone, envVars>> /\ Observe
  BY DEF AuthCommand
<1> HIDE DEF r
<1> QED BY <1>5, <1>6, <1>7, UnverifiedStep

LEMMA DisconnectIInv ==
    ASSUME IInv, NEW c \in Clients, Disconnect(c)
    PROVE  IInv'
<1>1. Over(c, "idle") \in Requests /\ Over(c, "idle").at = "idle"
  BY NoRequestType DEF IInv, TypeOK, Over, Requests, Idle
<1> QED BY <1>1, UnverifiedStep DEF Disconnect, Idle

(* A reply that leaves the ACL alone. *)
LEMMA PlainReply ==
    ASSUME IInv, NEW c \in Clients, Answered(c), UNCHANGED <<acl, gone, envVars>>,
           Observe, NEW outcome \in {"accepted", "refused"}, Reply(c, outcome)
    PROVE  IInv'
<1>1. Over(c, outcome) \in Requests /\ Over(c, outcome).at = outcome
  BY NoRequestType DEF IInv, TypeOK, Over, Requests, Idle
<1> QED BY <1>1, UnverifiedStep DEF Reply, Idle

(* A reply that deletes the user. *)
LEMMA DeletingReply ==
    ASSUME IInv, NEW c \in Clients, Answered(c), DelUser(req[c].user),
           UNCHANGED envVars, Observe, Reply(c, "refused")
    PROVE  IInv'
<1>0. PICK u \in Users : u = req[c].user
  BY DEF IInv, TypeOK
<1> DEFINE g == gone[u] \/ ~directory[u].exists
<1>1. g \in BOOLEAN
  BY DEF IInv, TypeOK
<1>2. NoAclUser \in [exists : BOOLEAN, perms : SUBSET Tokens,
                     selectors : SUBSET Tokens, passwords : SUBSET Passwords]
  BY DEF NoAclUser
<1>3. /\ acl' = [acl EXCEPT ![u] = NoAclUser]
      /\ gone' = [gone EXCEPT ![u] = g]
  BY <1>0 DEF DelUser
<1>4. acl'[u] = NoAclUser /\ gone'[u] = g /\ directory'[u] = directory[u]
  BY <1>3 DEF IInv, TypeOK, envVars
<1>5. NoAclUser.passwords = {} /\ NoAclUser.perms = {} \ Selectors
  BY DEF NoAclUser
<1>6. UserInv(u)
  BY DEF IInv
<1>7. (gone[u] \/ ~directory[u].exists) => ~directory[u].exists
  BY <1>6 DEF UserInv
<1>8. NoAclUser.perms \in {h \ Selectors : h \in Grants \cup {{}}}
  BY <1>5
<1>9. UserInv(u)'
  BY <1>4, <1>5, <1>7, <1>8 DEF UserInv
<1>10. req[c].at = "answered"
  BY DEF Answered
<1> HIDE DEF g
<1> QED BY <1>0, <1>1, <1>2, <1>3, <1>9, <1>10, ReplyStep

(* Success: the tokens are a grant of the directory, and what is cached is *)
(* a password that it has held.                                            *)
LEMMA ApplyLdapUserAclIInv ==
    ASSUME IInv, NEW c \in Clients, ApplyLdapUserAcl(c)
    PROVE  IInv'
<1>0. PICK u \in Users : u = req[c].user
  BY DEF IInv, TypeOK
<1> DEFINE cached == IF config.fallback THEN {req[c].pass} ELSE {}
           tokens == req[c].res.tokens
           a == SetUser(acl[u], tokens, cached)
<1>1. /\ Answered(c) /\ req[c].res.err = "none"
      /\ UNCHANGED <<gone, envVars>> /\ Observe
  BY DEF ApplyLdapUserAcl
<1>2. CASE Reply(c, "refused") /\ UNCHANGED acl
  BY <1>1, <1>2, PlainReply
<1>3. ASSUME NEW outcome \in {"accepted", "refused"}, Reply(c, outcome),
             acl' = [acl EXCEPT ![u] = SetUser(@, tokens, cached)]
      PROVE  IInv'
  <2>1. /\ tokens \in SUBSET Tokens /\ req[c].pass \in Passwords
        /\ acl[u] \in [exists : BOOLEAN, perms : SUBSET Tokens,
                       selectors : SUBSET Tokens, passwords : SUBSET Passwords]
        /\ gone[u] \in BOOLEAN
    BY DEF IInv, TypeOK
  <2>2. Verified(c) /\ Explained(c) /\ InOrder(c) /\ UserInv(u)
    BY <1>1 DEF Answered, Verified, IInv
  <2>3. tokens \in Grants
    BY <1>1, <2>2 DEF Answered, Explained
  <2>4. a \in [exists : BOOLEAN, perms : SUBSET Tokens,
               selectors : SUBSET Tokens, passwords : SUBSET Passwords]
    BY <2>1 DEF SetUser
  <2>5. a.passwords = cached /\ a.perms = tokens \ Selectors
    BY DEF SetUser
  <2>6. acl'[u] = a /\ gone'[u] = gone[u] /\ directory'[u] = directory[u]
    BY <1>1, <1>3 DEF IInv, TypeOK, envVars
  <2>7. /\ \A p, q \in cached : p = q
        /\ \A p \in cached : p <= directory[u].password
    BY <1>0, <2>2 DEF InOrder
  <2>8. req[c].at = "answered"
    BY <1>1 DEF Answered
  <2>9. acl' = [acl EXCEPT ![u] = a] /\ gone' = [gone EXCEPT ![u] = gone[u]]
    BY <1>1, <1>3 DEF IInv, TypeOK
  <2> HIDE DEF cached, tokens, a
  <2>10. UserInv(u)'
    BY <2>2, <2>3, <2>5, <2>6, <2>7 DEF UserInv
  <2> QED BY <1>0, <1>1, <1>3, <2>1, <2>4, <2>8, <2>9, <2>10, ReplyStep
<1>4. \/ Reply(c, "refused") /\ UNCHANGED acl
      \/ /\ Reply(c, IF Enabled(tokens) THEN "accepted" ELSE "refused")
         /\ acl' = [acl EXCEPT ![u] = SetUser(@, tokens, cached)]
  BY <1>0 DEF ApplyLdapUserAcl
<1> HIDE DEF cached, tokens
<1> QED BY <1>2, <1>3, <1>4

LEMMA AuthReplyCallbackIInv ==
    ASSUME IInv, NEW c \in Clients, AuthReplyCallback(c)
    PROVE  IInv'
<1>1. CASE ApplyLdapUserAcl(c)
  BY <1>1, ApplyLdapUserAclIInv
<1>2. CASE HandleUserNotFound(c)
  BY <1>2, PlainReply, DeletingReply DEF HandleUserNotFound
<1>3. CASE HandleServerUnavailable(c)
  BY <1>3, PlainReply DEF HandleServerUnavailable
<1>4. CASE HandleCredentialRejection(c)
  BY <1>4, DeletingReply DEF HandleCredentialRejection
<1>5. CASE HandleNoResult(c)
  BY <1>5, PlainReply DEF HandleNoResult
<1> QED BY <1>1, <1>2, <1>3, <1>4, <1>5 DEF AuthReplyCallback

-----------------------------------------------------------------------------
(* The configuration, the directory and the network.                       *)

LEMMA SurroundingsIInv ==
    ASSUME IInv, Surroundings
    PROVE  IInv'
<1>1. /\ UNCHANGED <<acl, req>> /\ Observe
  BY DEF Surroundings, SetConfig, ServersLoaded, ChangeEntry, GoDown, ComeUp,
         SearchesFail, SearchesWork
<1>2. ASSUME Event PROVE events' \in 0..MaxEvents
  BY <1>2, AuthAssumption DEF Event, IInv, TypeOK
<1>3. ASSUME UNCHANGED <<directory, gone>>, TypeOK' PROVE IInv'
  <2>1. ASSUME NEW u \in Users
        PROVE  /\ directory[u].password <= directory'[u].password
               /\ gone'[u] => gone[u] /\ ~directory'[u].exists
    BY <1>3 DEF IInv, TypeOK, UserInv
  <2> QED BY <1>1, <1>3, <2>1, SurroundingsStep
<1>4. CASE SetConfig
  <2>1. config' \in [servers : {"none", "loading", "loaded"}, mode : AuthModes,
                     exempt : SUBSET Users, fallback : BOOLEAN]
    BY <1>4 DEF SetConfig, IInv, TypeOK
  <2>2. TypeOK'
    BY <1>2, <1>4, <2>1 DEF SetConfig, IInv, TypeOK
  <2> QED BY <1>3, <1>4, <2>2 DEF SetConfig
<1>5. CASE ServersLoaded
  <2>1. TypeOK'
    BY <1>5 DEF ServersLoaded, IInv, TypeOK
  <2> QED BY <1>3, <1>5, <2>1 DEF ServersLoaded
<1>6. ASSUME NEW u \in Users, ChangeEntry(u) PROVE IInv'
  <2>1. /\ directory' \in [Users -> [exists : BOOLEAN, password : 1..Newest, rules : Grants]]
        /\ directory[u].password <= directory'[u].password
        /\ \A w \in Users \ {u} : directory'[w] = directory[w]
    <3> DEFINE Entries == [exists : BOOLEAN, password : 1..Newest, rules : Grants]
    <3>1. directory \in [Users -> Entries] /\ Newest \in Nat
      BY AuthAssumption DEF IInv, TypeOK
    <3>2. CASE /\ directory[u].password < Newest
               /\ directory' = [directory EXCEPT ![u].password = @ + 1]
      BY <3>1, <3>2
    <3>3. CASE \E g \in Grants : directory' = [directory EXCEPT ![u].rules = g]
      BY <3>1, <3>3
    <3>4. CASE directory' = [directory EXCEPT ![u].exists = ~@]
      <4>1. PICK b \in BOOLEAN : directory' = [directory EXCEPT ![u].exists = b]
        BY <3>4
      <4> QED BY <3>1, <4>1
    <3> QED BY <1>6, <3>2, <3>3, <3>4 DEF ChangeEntry
  <2>2. /\ gone' = [gone EXCEPT ![u] = @ /\ ~directory'[u].exists]
        /\ gone \in [Users -> BOOLEAN] /\ directory'[u].exists \in BOOLEAN
    BY <1>6, <2>1 DEF ChangeEntry, IInv, TypeOK
  <2>3. gone' \in [Users -> BOOLEAN]
    BY <2>2
  <2>4. TypeOK'
    BY <1>2, <1>6, <2>1, <2>3 DEF ChangeEntry, IInv, TypeOK
  <2>5. ASSUME NEW w \in Users
        PROVE  /\ directory[w].password <= directory'[w].password
               /\ gone'[w] => gone[w] /\ ~directory'[w].exists
    <3>1. CASE w = u
      BY <2>1, <2>2, <3>1
    <3>2. CASE w # u
      BY <2>1, <2>2, <3>2 DEF IInv, UserInv, TypeOK
    <3> QED BY <3>1, <3>2
  <2> QED BY <1>1, <2>4, <2>5, SurroundingsStep
<1>7. CASE GoDown \/ ComeUp \/ SearchesFail \/ SearchesWork
  <2>1. TypeOK'
    BY <1>2, <1>7 DEF GoDown, ComeUp, SearchesFail, SearchesWork, IInv, TypeOK
  <2> QED BY <1>3, <1>7, <2>1 DEF GoDown, ComeUp, SearchesFail, SearchesWork
<1> QED BY <1>4, <1>5, <1>6, <1>7 DEF Surroundings

-----------------------------------------------------------------------------
LEMMA InitIInv == Init => IInv
<1> SUFFICES ASSUME Init PROVE IInv
  OBVIOUS
<1>1. /\ NoAclUser \in [exists : BOOLEAN, perms : SUBSET Tokens,
                        selectors : SUBSET Tokens, passwords : SUBSET Passwords]
      /\ AclUser({}) \in [exists : BOOLEAN, perms : SUBSET Tokens,
                          selectors : SUBSET Tokens, passwords : SUBSET Passwords]
      /\ AclUser({LocalPassword}) \in
                         [exists : BOOLEAN, perms : SUBSET Tokens,
                          selectors : SUBSET Tokens, passwords : SUBSET Passwords]
  <2>1. {} \subseteq Passwords /\ {LocalPassword} \subseteq Passwords
    BY AuthAssumption DEF LocalPassword, Passwords
  <2> QED BY <2>1 DEF AclUser, NoAclUser
<1>2. directory \in [Users -> [exists : BOOLEAN, password : 1..Newest, rules : Grants]]
  <2>1. directory \in [Users -> [exists : {TRUE}, password : {1}, rules : Grants]]
    BY DEF Init
  <2>2. 1 \in 1..Newest
    BY AuthAssumption
  <2> QED BY <2>1, <2>2
<1>3. req \in [Clients -> Requests] /\ \A c \in Clients : req[c].at = "idle"
  BY NoRequestType DEF Init, NoRequest
<1>4. TypeOK
  <2>1. acl \in [Users -> [exists : BOOLEAN, perms : SUBSET Tokens,
                           selectors : SUBSET Tokens, passwords : SUBSET Passwords]]
    BY <1>1 DEF Init
  <2>2. /\ config \in [servers : {"none", "loading", "loaded"}, mode : AuthModes,
                       exempt : SUBSET Users, fallback : BOOLEAN]
        /\ events \in 0..MaxEvents /\ gone \in [Users -> BOOLEAN]
    BY AuthAssumption DEF Init
  <2> QED BY <1>2, <1>3, <2>1, <2>2 DEF Init, TypeOK, Requests, Results
<1>5. \A c \in Clients : Observed(c) /\ Explained(c) /\ InOrder(c)
  BY <1>3 DEF Observed, Explained, InOrder, Verified, Pending, LdapSteps
<1>6. ASSUME NEW u \in Users PROVE UserInv(u)
  <2>1. acl[u].perms = {} \ Selectors /\ acl[u].passwords \subseteq {0}
    <3>1. \/ acl[u] = NoAclUser
          \/ \E ps \in SUBSET {0} : acl[u] = AclUser(ps)
      BY DEF Init, LocalPassword
    <3>2. {} = {} \ Selectors
      OBVIOUS
    <3>3. acl[u].perms = {} /\ acl[u].passwords \subseteq {0}
      <4>1. CASE acl[u] = NoAclUser
        BY <4>1 DEF NoAclUser
      <4>2. ASSUME NEW ps \in SUBSET {0}, acl[u] = AclUser(ps)
            PROVE  acl[u].perms = {} /\ acl[u].passwords = ps
        BY <4>2 DEF AclUser
      <4> QED BY <3>1, <4>1, <4>2
    <3> QED BY <3>2, <3>3
  <2>2. directory[u].password = 1 /\ ~gone[u]
    BY DEF Init
  <2>3. {} \in Grants \cup {{}}
    OBVIOUS
  <2>4. acl[u].perms \in {g \ Selectors : g \in Grants \cup {{}}}
    BY <2>1, <2>3
  <2>5. \A p, q \in acl[u].passwords : p = q /\ p <= 1
    BY <2>1
  <2> QED BY <2>2, <2>4, <2>5 DEF UserInv
<1> QED BY <1>4, <1>5, <1>6 DEF IInv

LEMMA NextIInv == IInv /\ [Next]_vars => IInv'
<1> SUFFICES ASSUME IInv, [Next]_vars PROVE IInv'
  OBVIOUS
<1>1. ASSUME NEW c \in Clients, ClientStep(c) PROVE IInv'
  BY <1>1, AuthCommandIInv, FindIInv, FailoverIInv, SearchIInv, BindIInv,
     SearchGroupsRulesIInv, AuthReplyCallbackIInv, DisconnectIInv DEF ClientStep
<1>2. CASE Surroundings
  BY <1>2, SurroundingsIInv
<1>3. CASE UNCHANGED vars
  BY <1>3 DEF vars, IInv, TypeOK, Observed, Facts, Explained, InOrder, Verified, UserInv
<1> QED BY <1>1, <1>2, <1>3 DEF Next

LEMMA Invariant == Spec => []IInv
<1> QED BY InitIInv, NextIInv, PTL DEF Spec

-----------------------------------------------------------------------------
(* What a step does to the ACL.                                            *)

(* Only the reply callback replies. *)
LEMMA ReplyIsCallback ==
    ASSUME IInv, Next, NEW c \in Clients, Replies(c)
    PROVE  AuthReplyCallback(c)
<1>1. req[c].at = "answered" /\ req'[c].at \in {"accepted", "refused"}
  BY DEF Replies
<1>2. CASE Surroundings
  <2>1. UNCHANGED req
    BY <1>2 DEF Surroundings, SetConfig, ServersLoaded, ChangeEntry, GoDown, ComeUp,
                SearchesFail, SearchesWork
  <2> QED BY <1>1, <2>1
<1>3. ASSUME NEW d \in Clients, ClientStep(d)
      PROVE  AuthReplyCallback(c)
  <2>1. PICK r : req' = [req EXCEPT ![d] = r]
    BY <1>3 DEF ClientStep, AuthCommand, Find, Failover, Search, Bind, SearchGroupsRules,
                AuthReplyCallback, ApplyLdapUserAcl, HandleUserNotFound, HandleNoResult,
                HandleServerUnavailable, HandleCredentialRejection, Disconnect, Answer, Reply
  <2>2. d = c
    BY <1>1, <2>1 DEF IInv, TypeOK
  <2>3. \A u \in Users, p \in Passwords : ~AuthCommand(c, u, p)
    BY <1>1 DEF AuthCommand, Idle
  <2>4. ~Find(c) /\ ~Failover(c) /\ ~Search(c) /\ ~Bind(c) /\ ~SearchGroupsRules(c)
    BY <1>1 DEF Find, Failover, Search, Bind, SearchGroupsRules, LdapSteps
  <2>5. ~Disconnect(c)
    <3>1. req[c] \in Requests /\ Over(c, "idle").at = "idle"
      BY NoRequestType DEF IInv, TypeOK, Over, Requests, Results
    <3> QED BY <1>1, <3>1 DEF Disconnect, IInv, TypeOK
  <2> QED BY <1>3, <2>2, <2>3, <2>4, <2>5 DEF ClientStep
<1> QED BY <1>2, <1>3 DEF Next

(* How a reply leaves the ACL: as it was, with the user set as the result  *)
(* says, or without the user.                                              *)
Sets(c) ==
    /\ Applies(c) /\ Verified(c)
    /\ acl' = [acl EXCEPT ![req[c].user] =
                 SetUser(@, req[c].res.tokens,
                         IF config.fallback THEN {req[c].pass} ELSE {})]

Removes(c) ==
    /\ was[c] \cap {"absent", "differs", "faulty"} # {}
    /\ acl' = [acl EXCEPT ![req[c].user] = NoAclUser]

LEMMA CallbackEffect ==
    ASSUME IInv, NEW c \in Clients, AuthReplyCallback(c)
    PROVE  Replies(c) /\ (UNCHANGED acl \/ Sets(c) \/ Removes(c))
<1>1. req[c].at = "answered"
  BY DEF AuthReplyCallback, ApplyLdapUserAcl, HandleUserNotFound, HandleNoResult,
         HandleServerUnavailable, HandleCredentialRejection, Answered
<1>2. ASSUME NEW o \in {"accepted", "refused"}, Reply(c, o)
      PROVE  Replies(c)
  <2>1. Over(c, o).at = o
    BY NoRequestType DEF Over, Requests
  <2>2. req'[c].at = o
    BY <1>2, <2>1 DEF Reply, IInv, TypeOK
  <2> QED BY <1>1, <2>2 DEF Replies
<1>3. req[c].res.err \in Errors \cup {"none"} /\ Explained(c)
  BY DEF IInv, TypeOK
<1>4. CASE ApplyLdapUserAcl(c)
  <2>1. Replies(c)
    BY <1>2, <1>4 DEF ApplyLdapUserAcl
  <2>2. Applies(c)
    BY <1>4, <2>1 DEF ApplyLdapUserAcl, Applies
  <2>3. Verified(c)
    BY <1>1, <1>4 DEF ApplyLdapUserAcl, Verified
  <2> QED BY <1>4, <2>1, <2>2, <2>3 DEF ApplyLdapUserAcl, Sets
<1>5. CASE HandleUserNotFound(c)
  BY <1>1, <1>2, <1>3, <1>5 DEF HandleUserNotFound, Explained, DelUser, Removes
<1>6. CASE HandleServerUnavailable(c)
  BY <1>2, <1>6 DEF HandleServerUnavailable
<1>7. CASE HandleCredentialRejection(c)
  <2>1. req[c].res.err \in SearchErrors \cup {"LdapBindError49"}
    BY <1>3, <1>7 DEF HandleCredentialRejection, Errors, BindErrors, IsUserNotFound,
                      IsServerUnavailable
  <2>2. was[c] \cap {"absent", "differs", "faulty"} # {}
    BY <1>1, <1>3, <2>1 DEF Explained
  <2> QED BY <1>2, <1>7, <2>2 DEF HandleCredentialRejection, DelUser, Removes
<1>8. CASE HandleNoResult(c)
  BY <1>2, <1>8 DEF HandleNoResult
<1> QED BY <1>4, <1>5, <1>6, <1>7, <1>8 DEF AuthReplyCallback

(* Nothing but a reply changes the ACL. *)
LEMMA AclChange ==
    ASSUME IInv, Next
    PROVE  \/ UNCHANGED acl
           \/ \E c \in Clients : Replies(c) /\ (Sets(c) \/ Removes(c))
<1>1. CASE Surroundings
  BY <1>1 DEF Surroundings, SetConfig, ServersLoaded, ChangeEntry, GoDown, ComeUp,
              SearchesFail, SearchesWork
<1>2. ASSUME NEW c \in Clients, ClientStep(c)
      PROVE  \/ UNCHANGED acl
             \/ Replies(c) /\ (Sets(c) \/ Removes(c))
  <2>1. CASE AuthReplyCallback(c)
    BY <2>1, CallbackEffect
  <2>2. CASE ~AuthReplyCallback(c)
    BY <1>2, <2>2 DEF ClientStep, AuthCommand, Find, Failover, Search, Bind,
                      SearchGroupsRules, Disconnect
  <2> QED BY <2>1, <2>2
<1> QED BY <1>1, <1>2 DEF Next

(* What a reply that sets a user leaves for it, and for the others. *)
LEMMA SetsFacts ==
    ASSUME IInv, NEW c \in Clients, Sets(c), NEW u \in Users
    PROVE  IF u = req[c].user
           THEN acl'[u].exists /\ acl'[u].passwords \subseteq {req[c].pass}
           ELSE acl'[u] = acl[u]
BY DEF Sets, IInv, TypeOK, SetUser

LEMMA RemovesFacts ==
    ASSUME IInv, NEW c \in Clients, Removes(c), NEW u \in Users
    PROVE  IF u = req[c].user
           THEN ~acl'[u].exists /\ acl'[u].passwords = {}
           ELSE acl'[u] = acl[u]
BY DEF Removes, IInv, TypeOK, NoAclUser

-----------------------------------------------------------------------------
(* The theorems.                                                           *)

(***************************************************************************)
(* The ACL, the directory, the configuration and every AUTH command under  *)
(* way keep their types.                                                   *)
(***************************************************************************)
THEOREM TypeCorrect == Spec => []TypeOK
<1>1. IInv => TypeOK
  BY DEF IInv
<1> QED BY <1>1, Invariant, PTL

(***************************************************************************)
(* apply_ldap_user_acl caches one password, and one that the directory has *)
(* held: the reset before the password is added leaves no older one, and   *)
(* the password is not added before the bind with it.                      *)
(***************************************************************************)
THEOREM CacheIsSound == Spec => []CacheSound
<1>1. IInv => CacheSound
  <2> SUFFICES ASSUME IInv, NEW u \in Users
               PROVE  /\ Cardinality(acl[u].passwords) <= 1
                      /\ \A p \in acl[u].passwords : p <= directory[u].password
    BY DEF CacheSound
  <2>1. UserInv(u)
    BY DEF IInv
  <2>2. CASE acl[u].passwords = {}
    BY <2>2, FS_EmptySet
  <2>3. ASSUME NEW p \in acl[u].passwords
        PROVE  Cardinality(acl[u].passwords) = 1
    <3>1. acl[u].passwords = {p}
      BY <2>1 DEF UserInv
    <3> QED BY <3>1, FS_Singleton
  <2>4. Cardinality(acl[u].passwords) <= 1
    BY <2>2, <2>3
  <2> QED BY <2>1, <2>4 DEF UserInv
<1> QED BY <1>1, Invariant, PTL

(***************************************************************************)
(* apply_ldap_user_acl takes the permissions away before it gives those of *)
(* the directory: a user never has those of two grants.                    *)
(***************************************************************************)
THEOREM OneGrant == Spec => []PermissionsOfOneGrant
<1>1. IInv => PermissionsOfOneGrant
  BY DEF IInv, UserInv, PermissionsOfOneGrant
<1> QED BY <1>1, Invariant, PTL

(***************************************************************************)
(* Whatever happens between ldap_auth_blocking_callback and                *)
(* auth_reply_callback, a client is let in for a password that the         *)
(* directory held, or, without a server, for one that the ACL knows.       *)
(***************************************************************************)
THEOREM LoginsAreJustified == Spec => LoginJustified
<1> DEFINE A == \A c \in Clients : Accepts(c) =>
                  \/ "matches" \in was[c]
                  \/ /\ was[c] \cap {"down", "disabled", "reloading"} # {}
                     /\ config.fallback
                     /\ LocalAuth(req[c].user, req[c].pass)
<1>1. IInv /\ Next => A
  <2> SUFFICES ASSUME IInv, Next, NEW c \in Clients, Accepts(c)
               PROVE  \/ "matches" \in was[c]
                      \/ /\ was[c] \cap {"down", "disabled", "reloading"} # {}
                         /\ config.fallback
                         /\ LocalAuth(req[c].user, req[c].pass)
    OBVIOUS
  <2>1. AuthReplyCallback(c) /\ req'[c].at = "accepted" /\ req[c].at = "answered"
    BY ReplyIsCallback DEF Accepts, Replies
  <2>2. Explained(c)
    BY DEF IInv
  <2>3. ASSUME Reply(c, "refused") PROVE FALSE
    <3>1. Over(c, "refused").at = "refused"
      BY NoRequestType DEF Over, Requests
    <3> QED BY <2>1, <2>3, <3>1 DEF Reply, IInv, TypeOK
  <2>4. CASE ApplyLdapUserAcl(c)
    BY <2>1, <2>2, <2>4 DEF ApplyLdapUserAcl, Explained, Verified
  <2>5. CASE HandleServerUnavailable(c)
    BY <2>1, <2>2, <2>3, <2>5 DEF HandleServerUnavailable, Explained
  <2>6. ~HandleUserNotFound(c) /\ ~HandleCredentialRejection(c) /\ ~HandleNoResult(c)
    BY <2>3 DEF HandleUserNotFound, HandleCredentialRejection, HandleNoResult
  <2> QED BY <2>1, <2>4, <2>5, <2>6 DEF AuthReplyCallback
<1>2. IInv /\ [Next]_vars => [A]_vars
  BY <1>1
<1> QED BY <1>2, Invariant, PTL DEF Spec, LoginJustified

(***************************************************************************)
(* A reply puts a password back in the cache that is older than the cached *)
(* one only when another reply overtook it: the one hole, which the two    *)
(* callbacks leave open, and no other.                                     *)
(***************************************************************************)
THEOREM CacheMovesOn == Spec => CacheMovesForward
<1> DEFINE A == \A u \in Users : \A p \in acl[u].passwords, q \in acl'[u].passwords :
                  q < p => \E c \in Clients : Applies(c) /\ req[c].user = u
                                                /\ "overtaken" \in was[c]
<1>1. IInv /\ Next => A
  <2> SUFFICES ASSUME IInv, Next, NEW u \in Users, NEW p \in acl[u].passwords,
                      NEW q \in acl'[u].passwords, q < p
               PROVE  \E c \in Clients : Applies(c) /\ req[c].user = u
                                           /\ "overtaken" \in was[c]
    OBVIOUS
  <2>1. UserInv(u) /\ p \in Int
    BY DEF IInv, TypeOK, Passwords
  <2>2. acl'[u] # acl[u]
    BY <2>1 DEF UserInv
  <2>3. PICK c \in Clients : Replies(c) /\ (Sets(c) \/ Removes(c))
    BY <2>2, AclChange
  <2>4. Sets(c) /\ req[c].user = u /\ q = req[c].pass
    BY <2>2, <2>3, SetsFacts, RemovesFacts
  <2>5. InOrder(c) /\ req[c].pass \in Int
    BY DEF IInv, TypeOK, Passwords
  <2>6. "overtaken" \in was[c]
    BY <2>1, <2>4, <2>5 DEF InOrder, Sets
  <2> QED BY <2>4, <2>6 DEF Sets
<1>2. IInv /\ [Next]_vars => [A]_vars
  BY <1>1
<1> QED BY <1>2, Invariant, PTL DEF Spec, CacheMovesForward

(***************************************************************************)
(* handle_user_not_found and handle_credential_rejection delete a user     *)
(* only for what the directory said of it during the command: never for an *)
(* outage, and never for an answer meant for another user.                 *)
(***************************************************************************)
THEOREM DeletionsAreJustified == Spec => DeletionJustified
<1> DEFINE A == \A u \in Users : Deletes(u) =>
                  \E c \in Clients : /\ Replies(c) /\ req[c].user = u
                                     /\ was[c] \cap {"absent", "differs", "faulty"} # {}
<1>1. IInv /\ Next => A
  <2> SUFFICES ASSUME IInv, Next, NEW u \in Users, Deletes(u)
               PROVE  \E c \in Clients :
                        /\ Replies(c) /\ req[c].user = u
                        /\ was[c] \cap {"absent", "differs", "faulty"} # {}
    OBVIOUS
  <2>1. acl'[u] # acl[u] /\ ~acl'[u].exists
    BY DEF Deletes
  <2>2. PICK c \in Clients : Replies(c) /\ (Sets(c) \/ Removes(c))
    BY <2>1, AclChange
  <2>3. Removes(c) /\ req[c].user = u
    BY <2>1, <2>2, SetsFacts, RemovesFacts
  <2> QED BY <2>2, <2>3 DEF Removes
<1>2. IInv /\ [Next]_vars => [A]_vars
  BY <1>1
<1> QED BY <1>2, Invariant, PTL DEF Spec, DeletionJustified

(***************************************************************************)
(* is_user_not_found and the credential rejection between them cover every *)
(* way a server can word that a user is gone: an AUTH that saw nothing but *)
(* the missing entry leaves no ACL user.                                   *)
(***************************************************************************)
THEOREM RemovedUsersAreCleanedUp == Spec => RemovedIsCleanedUp
<1> DEFINE A == \A c \in Clients :
                  Replies(c) /\ was[c] = {"absent"} => ~acl'[req[c].user].exists
<1>1. IInv /\ Next => A
  <2> SUFFICES ASSUME IInv, Next, NEW c \in Clients, Replies(c), was[c] = {"absent"}
               PROVE  ~acl'[req[c].user].exists
    OBVIOUS
  <2>1. AuthReplyCallback(c) /\ req[c].at = "answered"
    BY ReplyIsCallback DEF Replies
  <2>2. req[c].user \notin config.exempt
    BY <2>1, FactsOf DEF IInv, Pending
  <2>3. ~ApplyLdapUserAcl(c) /\ ~HandleServerUnavailable(c) /\ ~HandleNoResult(c)
    BY <2>1 DEF IInv, Explained, Verified, ApplyLdapUserAcl, HandleServerUnavailable,
                HandleNoResult
  <2>4. DelUser(req[c].user)
    BY <2>1, <2>2, <2>3 DEF AuthReplyCallback, HandleUserNotFound,
                            HandleCredentialRejection
  <2> QED BY <2>4 DEF DelUser, NoAclUser, IInv, TypeOK
<1>2. IInv /\ [Next]_vars => [A]_vars
  BY <1>1
<1> QED BY <1>2, Invariant, PTL DEF Spec, RemovedIsCleanedUp

(***************************************************************************)
(* A deleted user that the directory still lacks comes back only by a      *)
(* reply that another one overtook: its bind succeeded before the user     *)
(* went, and its reply came after the one that deleted it.                 *)
(***************************************************************************)
THEOREM DeletedStaysDeleted == Spec => StaysDeleted
<1> DEFINE A == \A u \in Users : gone[u] /\ ~acl[u].exists /\ acl'[u].exists
                  => \E c \in Clients : Applies(c) /\ req[c].user = u
                                          /\ "overtaken" \in was[c]
<1>1. IInv /\ Next => A
  <2> SUFFICES ASSUME IInv, Next, NEW u \in Users, gone[u], ~acl[u].exists, acl'[u].exists
               PROVE  \E c \in Clients : Applies(c) /\ req[c].user = u
                                           /\ "overtaken" \in was[c]
    OBVIOUS
  <2>1. PICK c \in Clients : Replies(c) /\ (Sets(c) \/ Removes(c))
    BY AclChange
  <2>2. Sets(c) /\ req[c].user = u
    BY <2>1, SetsFacts, RemovesFacts
  <2>3. InOrder(c)
    BY DEF IInv
  <2>4. "overtaken" \in was[c]
    BY <2>2, <2>3 DEF InOrder, Sets
  <2> QED BY <2>2, <2>4 DEF Sets
<1>2. IInv /\ [Next]_vars => [A]_vars
  BY <1>1
<1> QED BY <1>2, Invariant, PTL DEF Spec, StaysDeleted
=============================================================================
