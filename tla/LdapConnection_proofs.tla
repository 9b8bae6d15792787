----------------------- MODULE LdapConnection_proofs -------------------------
(***************************************************************************)
(* Proofs about LdapConnection, for every set of operations, connections   *)
(* and users, for every directory, and for every number of connection      *)
(* errors.                                                                 *)
(***************************************************************************)
EXTENDS LdapConnection, TLAPS

-----------------------------------------------------------------------------
(***************************************************************************)
(* The inductive invariant.                                                *)
(*                                                                         *)
(* An identity is that of a connection, so an operation can count on what  *)
(* it has bound only because nobody else has the connection: Exclusive and *)
(* HasConn are what makes OwnIdentity inductive.  OnTheWay says what an    *)
(* operation that has come so far knows by now.                            *)
(***************************************************************************)
Rules == {MergeTokens(Tokens(i, u)) : i \in Identities, u \in Users} \cup {<<>>}

Results == [err : Errors \cup {"none"}, rules : Rules]

Operations ==
    [at : {"done", "take"} \cup LdapSteps, user : Users, right : BOOLEAN,
     mode : {"bind", "search+bind"}, account : Accounts \cup {"none"},
     conn : Conns \cup {NoConn}, failed : BOOLEAN, res : Results]

Types ==
    /\ directory \in Directories /\ account \in Accounts
    /\ where \in [Conns -> {"free", "lent", "returning", "dropped"}]
    /\ stale \subseteq {k \in Conns : where[k] # "free"}
    /\ identity \in [Conns -> Identities]
    /\ op \in [Ops -> Operations]
    /\ errors \in 0..MaxErrors

Active(t) == op[t].at \in LdapSteps

HasConn(t) == Active(t) => op[t].conn \in Conns /\ where[op[t].conn] = "lent"

Exclusive ==
    \A s, t \in Ops : Active(s) /\ Active(t) /\ op[s].conn = op[t].conn => s = t

LentToSomeone ==
    \A k \in Conns : where[k] = "lent" => \E t \in Ops : Active(t) /\ op[t].conn = k

OwnIdentityOf(t) ==
    /\ op[t].at = "groups" =>
         identity[op[t].conn] = IF op[t].account = "none" THEN op[t].user ELSE "admin"
    /\ op[t].at = "search" /\ op[t].account # "none" => identity[op[t].conn] = "admin"

OnTheWay(t) ==
    /\ op[t].at \in {"search_bind", "search"} => op[t].mode = "search+bind"
    /\ op[t].at \in {"search_bind", "groups_bind"} => op[t].account # "none"
    /\ op[t].at \in {"search", "groups"} => op[t].account # "bad"
    /\ op[t].at \in {"bind", "groups_bind", "groups"} /\ op[t].mode = "search+bind"
         /\ op[t].account # "none" => SearchError(op[t]) = "none"
    /\ op[t].at \in {"groups_bind", "groups"}
         => op[t].right /\ directory.entry[op[t].user] # "none"

IInv ==
    /\ Types
    /\ \A t \in Ops : HasConn(t)
    /\ Exclusive
    /\ LentToSomeone
    /\ \A t \in Ops : OwnIdentityOf(t)
    /\ \A t \in Ops : OnTheWay(t)

-----------------------------------------------------------------------------
(* The sorts of steps an operation takes.                                  *)

(* The rules that can be found, and the error of a search, are the         *)
(* directory's and do not change.                                          *)
LEMMA RulesStay ==
    ASSUME directory' = directory
    PROVE  Rules' = Rules /\ Operations' = Operations
<1>1. Rules' = Rules
  BY DEF Rules, Tokens
<1> QED BY <1>1 DEF Operations, Results

LEMMA SearchErrorStays ==
    ASSUME directory' = directory
    PROVE  \A o : SearchError(o)' = SearchError(o)
BY DEF SearchError, Found

LEMMA NoOpType ==
    ASSUME NEW res \in Results
    PROVE  NoOp(res) \in Operations /\ NoOp(res).at = "done" /\ NoOp(res).res = res
<1>1. (CHOOSE u \in Users : TRUE) \in Users
  BY ConnectionAssumption
<1> QED BY <1>1 DEF NoOp, Operations

LEMMA ErrorType ==
    ASSUME NEW e \in Errors
    PROVE  Error(e) \in Results /\ Error(e).err = e
BY DEF Error, Results, Rules

(* A step that leaves an operation alone leaves it what it knows, if its   *)
(* connection is left alone too.                                           *)
LEMMA OthersStay ==
    ASSUME IInv, directory' = directory, NEW s \in Ops, op'[s] = op[s],
           Active(s) => /\ where'[op[s].conn] = where[op[s].conn]
                        /\ identity'[op[s].conn] = identity[op[s].conn]
    PROVE  HasConn(s)' /\ OwnIdentityOf(s)' /\ OnTheWay(s)'
<1>1. HasConn(s) /\ OwnIdentityOf(s) /\ OnTheWay(s)
  BY DEF IInv
<1>2. HasConn(s)'
  BY <1>1 DEF HasConn, Active
<1>3. OwnIdentityOf(s)'
  BY <1>1 DEF OwnIdentityOf, Active, LdapSteps
<1>4. OnTheWay(s)'
  BY <1>1, SearchErrorStays DEF OnTheWay
<1> QED BY <1>2, <1>3, <1>4

(* The operation stays without a connection. *)
LEMMA IdleStep ==
    ASSUME IInv, NEW t \in Ops, ~Active(t), NEW o \in Operations,
           o.at \in {"done", "take"}, op' = [op EXCEPT ![t] = o],
           UNCHANGED <<directory, account, where, stale, identity, errors>>
    PROVE  IInv'
<1>1. op'[t] = o /\ \A s \in Ops \ {t} : op'[s] = op[s]
  BY DEF IInv, Types
<1>2. Types'
  BY RulesStay DEF IInv, Types
<1>3. \A s \in Ops : Active(s)' = Active(s)
  BY <1>1 DEF Active, LdapSteps
<1>4. HasConn(t)' /\ OwnIdentityOf(t)' /\ OnTheWay(t)'
  BY <1>1 DEF HasConn, Active, OwnIdentityOf, OnTheWay, LdapSteps
<1>5. ASSUME NEW s \in Ops \ {t} PROVE HasConn(s)' /\ OwnIdentityOf(s)' /\ OnTheWay(s)'
  BY <1>1, OthersStay
<1>6. Exclusive'
  BY <1>1, <1>3 DEF IInv, Exclusive
<1>7. LentToSomeone'
  BY <1>1, <1>3 DEF IInv, LentToSomeone
<1> QED BY <1>2, <1>4, <1>5, <1>6, <1>7 DEF IInv

(* The operation goes on, with a bind on its own connection or without. *)
LEMMA OnwardStep ==
    ASSUME IInv, NEW t \in Ops, Active(t), NEW at \in LdapSteps,
           op' = [op EXCEPT ![t].at = at], NEW i \in Identities,
           identity' = [identity EXCEPT ![op[t].conn] = i],
           UNCHANGED <<directory, account, where, stale, errors>>,
           at \in {"groups", "search"} /\ op[t].account # "none" => i = "admin",
           at = "groups" /\ op[t].account = "none" => i = op[t].user,
           OnTheWay(t)'
    PROVE  IInv'
<1> DEFINE k == op[t].conn
           o == [op[t] EXCEPT !.at = at]
<1>0. op[t] \in Operations /\ HasConn(t)
  BY DEF IInv, Types
<1>1. /\ o \in Operations /\ o.at = at /\ o.conn = k /\ o.user = op[t].user
      /\ o.account = op[t].account
  BY <1>0 DEF Operations
<1> HIDE DEF o
<1>2. op' = [op EXCEPT ![t] = o]
  BY DEF IInv, Types, o
<1>3. op'[t] = o /\ \A s \in Ops \ {t} : op'[s] = op[s]
  BY <1>2 DEF IInv, Types
<1>4. Types'
  BY <1>1, <1>2, RulesStay DEF IInv, Types
<1>5. \A s \in Ops : Active(s)' = Active(s) /\ op'[s].conn = op[s].conn
  BY <1>1, <1>3 DEF Active
<1>6. k \in Conns /\ where[k] = "lent" /\ identity'[k] = i
  BY <1>0 DEF HasConn, IInv, Types
<1>7. HasConn(t)'
  BY <1>5, <1>6 DEF HasConn
<1>8. OwnIdentityOf(t)'
  BY <1>1, <1>3, <1>6 DEF OwnIdentityOf
<1>9. ASSUME NEW s \in Ops \ {t} PROVE HasConn(s)' /\ OwnIdentityOf(s)' /\ OnTheWay(s)'
  <2>1. Active(s) => op[s].conn # k
    BY DEF IInv, Exclusive
  <2>2. Active(s) => identity'[op[s].conn] = identity[op[s].conn]
    BY <2>1 DEF IInv, HasConn, Types
  <2> QED BY <1>3, <2>2, OthersStay
<1>10. Exclusive'
  BY <1>5 DEF IInv, Exclusive
<1>11. LentToSomeone'
  BY <1>5 DEF IInv, LentToSomeone
<1> QED BY <1>4, <1>7, <1>8, <1>9, <1>10, <1>11 DEF IInv

(* The operation lets go of its connection, whoever is bound on it now. *)
LEMMA LeaveStep ==
    ASSUME IInv, NEW t \in Ops, Active(t), NEW o \in Operations,
           o.at \in {"done", "take"}, op' = [op EXCEPT ![t] = o],
           NEW w \in {"returning", "dropped"},
           where' = [where EXCEPT ![op[t].conn] = w], NEW i \in Identities,
           identity' = [identity EXCEPT ![op[t].conn] = i],
           UNCHANGED <<directory, account, stale>>, errors' \in 0..MaxErrors
    PROVE  IInv'
<1> DEFINE k == op[t].conn
<1>1. op'[t] = o /\ \A s \in Ops \ {t} : op'[s] = op[s]
  BY DEF IInv, Types
<1>2. k \in Conns /\ where[k] = "lent"
  BY DEF IInv, HasConn
<1>3. Types'
  <2>1. where' \in [Conns -> {"free", "lent", "returning", "dropped"}]
    BY DEF IInv, Types
  <2>2. stale' \subseteq {c \in Conns : where'[c] # "free"}
    BY <1>2 DEF IInv, Types
  <2>3. op' \in [Ops -> Operations']
    BY RulesStay DEF IInv, Types
  <2>4. identity' \in [Conns -> Identities]
    BY DEF IInv, Types
  <2> QED BY <2>1, <2>2, <2>3, <2>4 DEF IInv, Types
<1>4. ~Active(t)' /\ \A s \in Ops \ {t} : Active(s)' = Active(s)
  BY <1>1 DEF Active, LdapSteps
<1>5. HasConn(t)' /\ OwnIdentityOf(t)' /\ OnTheWay(t)'
  BY <1>1 DEF HasConn, Active, OwnIdentityOf, OnTheWay, LdapSteps
<1>6. ASSUME NEW s \in Ops \ {t} PROVE HasConn(s)' /\ OwnIdentityOf(s)' /\ OnTheWay(s)'
  <2>1. Active(s) => op[s].conn # k /\ op[s].conn \in Conns
    BY DEF IInv, Exclusive, HasConn
  <2>2. Active(s) => /\ where'[op[s].conn] = where[op[s].conn]
                     /\ identity'[op[s].conn] = identity[op[s].conn]
    BY <2>1 DEF IInv, Types
  <2> QED BY <1>1, <2>2, OthersStay
<1>7. Exclusive'
  BY <1>1, <1>4 DEF IInv, Exclusive
<1>8. ASSUME NEW c \in Conns, where'[c] = "lent"
      PROVE  \E s \in Ops : Active(s)' /\ op'[s].conn = c
  <2>1. c # k /\ where[c] = "lent"
    BY <1>2, <1>8 DEF IInv, Types
  <2>2. PICK s \in Ops : Active(s) /\ op[s].conn = c
    BY <2>1 DEF IInv, LentToSomeone
  <2> QED BY <1>1, <1>4, <2>1, <2>2
<1>9. LentToSomeone'
  BY <1>8 DEF LentToSomeone
<1> QED BY <1>3, <1>5, <1>6, <1>7, <1>9 DEF IInv

(* The end of an operation, with its result. *)
LEMMA EndStep ==
    ASSUME IInv, NEW t \in Ops, Active(t), NEW res \in Results, Ends(t, res),
           NEW i \in Identities, identity' = [identity EXCEPT ![op[t].conn] = i],
           UNCHANGED <<directory, account, stale, errors>>
    PROVE  IInv'
<1>1. NoOp(res) \in Operations /\ NoOp(res).at = "done"
  BY NoOpType
<1>2. PICK w \in {"returning", "dropped"} : where' = [where EXCEPT ![op[t].conn] = w]
  BY DEF Ends, Gives
<1>3. op' = [op EXCEPT ![t] = NoOp(res)]
  BY DEF Ends
<1>4. errors' \in 0..MaxErrors
  BY DEF IInv, Types
<1> QED BY <1>1, <1>2, <1>3, <1>4, LeaveStep

LEMMA AfterMove ==
    ASSUME IInv, NEW t \in Ops, NEW at, op' = [op EXCEPT ![t].at = at],
           directory' = directory
    PROVE  /\ op'[t].at = at /\ op'[t].user = op[t].user /\ op'[t].right = op[t].right
           /\ op'[t].mode = op[t].mode /\ op'[t].account = op[t].account
           /\ SearchError(op[t])' = SearchError(op[t])
<1>1. op[t] \in Operations /\ op'[t] = [op[t] EXCEPT !.at = at]
  BY DEF IInv, Types
<1>2. /\ op'[t].at = at /\ op'[t].user = op[t].user /\ op'[t].right = op[t].right
      /\ op'[t].mode = op[t].mode /\ op'[t].account = op[t].account
  BY <1>1 DEF Operations
<1> QED BY <1>2 DEF SearchError, Found

-----------------------------------------------------------------------------
(* The actions.                                                            *)

LEMMA StartIInv ==
    ASSUME IInv, NEW t \in Ops, NEW u \in Users, NEW right \in BOOLEAN,
           NEW mode \in {"bind", "search+bind"}, Start(t, u, right, mode)
    PROVE  IInv'
<1> DEFINE o == [at |-> "take", user |-> u, right |-> right, mode |-> mode,
                 account |-> account, conn |-> NoConn, failed |-> FALSE, res |-> Ok(<<>>)]
<1>1. Ok(<<>>) \in Results /\ account \in Accounts
  BY DEF Ok, Results, Rules, IInv, Types
<1>2. o \in Operations /\ o.at = "take"
  BY <1>1 DEF Operations
<1>3. ~Active(t)
  BY DEF Start, Active, LdapSteps
<1>4. op' = [op EXCEPT ![t] = o]
  BY DEF Start
<1> HIDE DEF o
<1> QED BY <1>2, <1>3, <1>4, IdleStep DEF Start

LEMMA NoServerIInv ==
    ASSUME IInv, NEW t \in Ops, NoServer(t)
    PROVE  IInv'
<1>1. Error("NoHealthyServerAvailable") \in Results
  BY ErrorType DEF Errors
<1>2. ~Active(t)
  BY DEF NoServer, Active, LdapSteps
<1> QED BY <1>1, <1>2, NoOpType, IdleStep DEF NoServer

LEMMA TakeIInv ==
    ASSUME IInv, NEW t \in Ops, NEW k \in Conns, Take(t, k)
    PROVE  IInv'
<1>1. PICK at \in {"bind", "search", "search_bind"} :
        /\ op' = [op EXCEPT ![t].conn = k, ![t].at = at]
        /\ at \in {"search_bind", "search"} => op[t].mode = "search+bind"
        /\ at = "bind" => op[t].mode = "bind"
        /\ at = "search_bind" => op[t].account # "none"
        /\ at = "search" => op[t].account = "none"
  <2>1. op[t].mode \in {"bind", "search+bind"}
    BY DEF IInv, Types, Operations
  <2> QED BY <2>1 DEF Take
<1> DEFINE o == [op[t] EXCEPT !.conn = k, !.at = at]
<1>2. op[t] \in Operations
  BY DEF IInv, Types
<1>3. /\ o \in Operations /\ o.at = at /\ o.conn = k /\ o.account = op[t].account
      /\ o.mode = op[t].mode /\ o.user = op[t].user
  BY <1>2 DEF Operations, LdapSteps
<1> HIDE DEF o
<1>4. op' = [op EXCEPT ![t] = o]
  BY <1>1 DEF IInv, Types, o
<1>5. op'[t] = o /\ \A s \in Ops \ {t} : op'[s] = op[s]
  BY <1>4 DEF IInv, Types
<1>6. /\ where[k] = "free" /\ where' = [where EXCEPT ![k] = "lent"]
      /\ UNCHANGED <<directory, account, stale, identity, errors>>
  BY DEF Take, Lends
<1>7. Types'
  <2>1. /\ where' \in [Conns -> {"free", "lent", "returning", "dropped"}]
        /\ stale' \subseteq {c \in Conns : where'[c] # "free"}
    BY <1>6 DEF IInv, Types
  <2>2. op' \in [Ops -> Operations']
    BY <1>3, <1>4, <1>6, RulesStay DEF IInv, Types
  <2> QED BY <1>6, <2>1, <2>2 DEF IInv, Types
<1>8. ~Active(t) /\ Active(t)' /\ \A s \in Ops \ {t} : Active(s)' = Active(s)
  BY <1>3, <1>5 DEF Active, Take, LdapSteps
<1>9. HasConn(t)' /\ OwnIdentityOf(t)'
  BY <1>1, <1>3, <1>5, <1>6 DEF IInv, Types, HasConn, OwnIdentityOf
<1>10. OnTheWay(t)'
  BY <1>1, <1>3, <1>5 DEF OnTheWay
<1>11. \A s \in Ops : Active(s) => op[s].conn # k /\ op[s].conn \in Conns
  BY <1>6 DEF IInv, HasConn
<1>12. ASSUME NEW s \in Ops \ {t} PROVE HasConn(s)' /\ OwnIdentityOf(s)' /\ OnTheWay(s)'
  <2>1. Active(s) => where'[op[s].conn] = where[op[s].conn]
    BY <1>6, <1>11 DEF IInv, Types
  <2> QED BY <1>5, <1>6, <2>1, OthersStay
<1>13. Exclusive'
  BY <1>3, <1>5, <1>8, <1>11 DEF IInv, Exclusive
<1>14. LentToSomeone'
  <2> SUFFICES ASSUME NEW c \in Conns, where'[c] = "lent"
               PROVE  \E s \in Ops : Active(s)' /\ op'[s].conn = c
    BY DEF LentToSomeone
  <2>1. CASE c = k
    BY <1>3, <1>5, <1>8, <2>1
  <2>2. CASE c # k
    <3>1. where[c] = "lent"
      BY <1>6, <2>2 DEF IInv, Types
    <3>2. PICK s \in Ops : Active(s) /\ op[s].conn = c
      BY <3>1 DEF IInv, LentToSomeone
    <3> QED BY <1>5, <1>8, <3>2
  <2> QED BY <2>1, <2>2
<1> QED BY <1>7, <1>9, <1>10, <1>12, <1>13, <1>14 DEF IInv

(* A bind that succeeds makes its account the identity the search needs. *)
LEMMA AdminBindIInv ==
    ASSUME IInv, NEW t \in Ops, AdminBind(t)
    PROVE  IInv'
<1>1. /\ Active(t) /\ OnTheWay(t) /\ UNCHANGED <<directory, account, stale, errors>>
      /\ op[t].at \in {"search_bind", "groups_bind"}
  BY DEF AdminBind, Active, LdapSteps, IInv
<1>2. {"admin", "anonymous"} \subseteq Identities
  BY DEF Identities
<1>3. CASE /\ op[t].account = "good" /\ Binds(t, "admin")
           /\ Continues(t, IF op[t].at = "search_bind" THEN "search" ELSE "groups")
  <2>1. PICK at \in {"search", "groups"} :
          /\ op' = [op EXCEPT ![t].at = at] /\ UNCHANGED where
          /\ at = IF op[t].at = "search_bind" THEN "search" ELSE "groups"
    BY <1>3 DEF Continues
  <2>2. OnTheWay(t)'
    <3>1. /\ op'[t].at = at /\ op'[t].user = op[t].user /\ op'[t].right = op[t].right
          /\ op'[t].mode = op[t].mode /\ op'[t].account = op[t].account
          /\ SearchError(op[t])' = SearchError(op[t]) /\ directory' = directory
      <4>1. op' = [op EXCEPT ![t].at = at] /\ directory' = directory
        BY <1>1, <2>1
      <4> QED BY <4>1, AfterMove, Zenon
    <3>2. op'[t].account = "good"
      BY <1>3, <3>1
    <3>3. CASE op[t].at = "search_bind"
      <4>1. op'[t].at = "search" /\ op'[t].mode = "search+bind"
        BY <1>1, <2>1, <3>1, <3>3 DEF OnTheWay
      <4> QED BY <3>2, <4>1 DEF OnTheWay
    <3>4. CASE op[t].at = "groups_bind"
      <4>1. op'[t].at = "groups"
        BY <2>1, <3>1, <3>4
      <4>2. /\ op[t].right /\ directory.entry[op[t].user] # "none"
            /\ op[t].mode = "search+bind" /\ op[t].account # "none"
                 => SearchError(op[t]) = "none"
        BY <1>1, <3>4 DEF OnTheWay
      <4> QED BY <3>1, <3>2, <4>1, <4>2 DEF OnTheWay
    <3> QED BY <1>1, <3>3, <3>4
  <2> QED BY <1>1, <1>2, <1>3, <2>1, <2>2, OnwardStep DEF Binds, LdapSteps
<1>4. CASE Binds(t, "anonymous") /\ Ends(t, Error("LdapAdminBindError"))
  BY <1>1, <1>2, <1>4, ErrorType, EndStep DEF Binds, Errors
<1> QED BY <1>3, <1>4 DEF AdminBind

LEMMA SearchIInv ==
    ASSUME IInv, NEW t \in Ops, Search(t)
    PROVE  IInv'
<1> DEFINE k == op[t].conn
           i == identity[k]
           found == Found(i, op[t].user)
<1>1. /\ Active(t) /\ OnTheWay(t) /\ OwnIdentityOf(t) /\ op[t].at = "search"
      /\ UNCHANGED <<directory, account, stale, identity, errors>>
  BY DEF Search, Active, LdapSteps, IInv
<1>2. k \in Conns /\ i \in Identities /\ identity' = [identity EXCEPT ![k] = i]
  BY <1>1 DEF IInv, HasConn, Types
<1>3. ASSUME NEW e \in Errors, Ends(t, Error(e)) PROVE IInv'
  BY <1>1, <1>2, <1>3, ErrorType, EndStep
<1>4. CASE i \notin directory.refuses /\ found = "one" /\ Continues(t, "bind")
  <2>1. op' = [op EXCEPT ![t].at = "bind"] /\ UNCHANGED where
    BY <1>4 DEF Continues
  <2>2. op[t].account # "none" => SearchError(op[t]) = "none"
    BY <1>1, <1>4 DEF OwnIdentityOf, OnTheWay, SearchError
  <2>3. /\ op'[t].at = "bind" /\ op'[t].user = op[t].user /\ op'[t].right = op[t].right
        /\ op'[t].mode = op[t].mode /\ op'[t].account = op[t].account
        /\ SearchError(op[t])' = SearchError(op[t])
    BY <1>1, <2>1, AfterMove
  <2>4. OnTheWay(t)'
    BY <1>1, <2>2, <2>3 DEF OnTheWay
  <2> QED BY <1>1, <1>2, <2>1, <2>4, OnwardStep DEF LdapSteps
<1>5. found \in Kinds
  BY <1>2, ConnectionAssumption DEF Found, Kinds, IInv, Types, Operations
<1>6. \/ i \notin directory.refuses /\ found = "one" /\ Continues(t, "bind")
      \/ \E e \in Errors : Ends(t, Error(e))
  BY <1>5 DEF Search, Kinds, Errors
<1> QED BY <1>3, <1>4, <1>6

LEMMA BindIInv ==
    ASSUME IInv, NEW t \in Ops, Bind(t)
    PROVE  IInv'
<1>1. /\ Active(t) /\ OnTheWay(t) /\ op[t].at = "bind"
      /\ UNCHANGED <<directory, account, stale, errors>>
  BY DEF Bind, Active, LdapSteps, IInv
<1>2. {op[t].user, "anonymous"} \subseteq Identities
  BY DEF Identities, IInv, Types, Operations
<1>3. CASE /\ op[t].right /\ directory.entry[op[t].user] # "none"
           /\ Binds(t, op[t].user) /\ PrepareGroupSearch(t)
  <2>1. PICK at \in {"groups", "groups_bind"} :
          /\ op' = [op EXCEPT ![t].at = at] /\ UNCHANGED where
          /\ at = "groups" <=> op[t].account = "none"
    BY <1>3 DEF PrepareGroupSearch, Continues
  <2>2. /\ op'[t].at = at /\ op'[t].user = op[t].user /\ op'[t].right = op[t].right
        /\ op'[t].mode = op[t].mode /\ op'[t].account = op[t].account
        /\ SearchError(op[t])' = SearchError(op[t])
    BY <1>1, <2>1, AfterMove
  <2>3. OnTheWay(t)'
    <3>1. op'[t].right /\ directory'.entry[op'[t].user] # "none"
      BY <1>1, <1>3, <2>2
    <3>2. /\ op'[t].at \in {"groups", "groups_bind"}
          /\ op'[t].at = "groups_bind" => op'[t].account # "none"
          /\ op'[t].at = "groups" => op'[t].account # "bad"
      BY <2>1, <2>2
    <3>3. op'[t].mode = "search+bind" /\ op'[t].account # "none"
            => SearchError(op[t])' = "none"
      BY <1>1, <2>2 DEF OnTheWay
    <3> QED BY <3>1, <3>2, <3>3 DEF OnTheWay
  <2> QED BY <1>1, <1>2, <1>3, <2>1, <2>3, OnwardStep DEF Binds, LdapSteps
<1>4. CASE Binds(t, "anonymous") /\ Ends(t, Error("LdapBindError"))
  BY <1>1, <1>2, <1>4, ErrorType, EndStep DEF Binds, Errors
<1> QED BY <1>3, <1>4 DEF Bind

LEMMA SearchGroupsRulesIInv ==
    ASSUME IInv, NEW t \in Ops, SearchGroupsRules(t)
    PROVE  IInv'
<1> DEFINE k == op[t].conn
           i == identity[k]
           found == Ok(MergeTokens(Tokens(i, op[t].user)))
<1>1. Active(t) /\ UNCHANGED <<directory, account, stale, identity, errors>>
  BY DEF SearchGroupsRules, Active, LdapSteps
<1>2. k \in Conns /\ i \in Identities /\ identity' = [identity EXCEPT ![k] = i]
  BY <1>1 DEF IInv, HasConn, Types
<1>3. CASE Ends(t, Error("LdapSearchError"))
  BY <1>1, <1>2, <1>3, ErrorType, EndStep DEF Errors
<1>4. CASE Ends(t, found)
  <2>1. op[t].user \in Users
    BY DEF IInv, Types, Operations
  <2>2. found \in Results
    BY <1>2, <2>1 DEF Results, Rules, Ok
  <2> QED BY <1>1, <1>2, <1>4, <2>2, EndStep
<1> QED BY <1>3, <1>4 DEF SearchGroupsRules

LEMMA ConnectionErrorIInv ==
    ASSUME IInv, NEW t \in Ops, ConnectionError(t)
    PROVE  IInv'
<1> DEFINE o == [op[t] EXCEPT !.at = "take", !.conn = NoConn, !.failed = TRUE]
<1>1. /\ Active(t) /\ op[t] \in Operations
      /\ UNCHANGED <<directory, account, stale>>
      /\ where' = [where EXCEPT ![op[t].conn] = "returning"]
      /\ errors' \in 0..MaxErrors
  BY ConnectionAssumption DEF ConnectionError, Active, Gives, IInv, Types
<1>2. op[t].conn \in Conns /\ identity[op[t].conn] \in Identities /\ op[t].user \in Users
  BY <1>1 DEF IInv, HasConn, Types, Operations
<1>3. AfterTimeout(t) \subseteq Identities
  BY <1>2 DEF AfterTimeout, Identities
<1>4. PICK i \in Identities : identity' = [identity EXCEPT ![op[t].conn] = i]
  BY <1>3 DEF ConnectionError, Binds
<1>5. o \in Operations /\ o.at = "take"
  BY <1>1 DEF Operations
<1>6. op' = [op EXCEPT ![t] = o]
  BY DEF ConnectionError, IInv, Types
<1> HIDE DEF o
<1> QED BY <1>1, <1>4, <1>5, <1>6, LeaveStep

(* The pool's side: a connection that an operation has is left alone. *)
LEMMA PoolStep ==
    ASSUME IInv, Types', UNCHANGED <<directory, op>>,
           \A k \in Conns : where[k] = "lent" => identity'[k] = identity[k],
           \A k \in Conns : where'[k] = "lent" <=> where[k] = "lent"
    PROVE  IInv'
<1>1. \A s \in Ops : Active(s)' = Active(s)
  BY DEF Active
<1>2. ASSUME NEW s \in Ops PROVE HasConn(s)' /\ OwnIdentityOf(s)' /\ OnTheWay(s)'
  <2>1. HasConn(s)
    BY DEF IInv
  <2>2. Active(s) => /\ where'[op[s].conn] = where[op[s].conn]
                     /\ identity'[op[s].conn] = identity[op[s].conn]
    BY <2>1 DEF HasConn
  <2> QED BY <2>2, OthersStay
<1>3. Exclusive' /\ LentToSomeone'
  BY <1>1 DEF IInv, Exclusive, LentToSomeone
<1> QED BY <1>2, <1>3 DEF IInv

LEMMA ReturnIInv ==
    ASSUME IInv, NEW k \in Conns, Return(k)
    PROVE  IInv'
<1>1. /\ where[k] # "lent" /\ where' = [where EXCEPT ![k] = "free"]
      /\ UNCHANGED <<directory, account, op, errors>> /\ stale' = stale \ {k}
  BY DEF Return
<1>2. PICK i \in Identities : identity' = [identity EXCEPT ![k] = i]
  <2>1. identity[k] \in Identities /\ "anonymous" \in Identities
    BY DEF IInv, Types, Identities
  <2> QED BY <2>1 DEF Return
<1>3. Types'
  <2>1. /\ where' \in [Conns -> {"free", "lent", "returning", "dropped"}]
        /\ identity' \in [Conns -> Identities]
    BY <1>1, <1>2 DEF IInv, Types
  <2>2. stale' \subseteq {c \in Conns : where'[c] # "free"}
    BY <1>1 DEF IInv, Types
  <2> QED BY <1>1, <2>1, <2>2, RulesStay DEF IInv, Types
<1>4. \A c \in Conns : where'[c] = "lent" <=> where[c] = "lent"
  BY <1>1 DEF IInv, Types
<1>5. \A c \in Conns : where[c] = "lent" => identity'[c] = identity[c]
  BY <1>1, <1>2 DEF IInv, Types
<1> QED BY <1>1, <1>3, <1>4, <1>5, PoolStep

LEMMA ResetPoolIInv ==
    ASSUME IInv, ResetPool
    PROVE  IInv'
<1>1. /\ stale' = {k \in Conns : where[k] \in {"lent", "returning"}}
      /\ identity' = [k \in Conns |-> IF k \in stale' THEN identity[k] ELSE "anonymous"]
      /\ where' = [k \in Conns |-> IF k \in stale' THEN where[k] ELSE "free"]
      /\ UNCHANGED <<directory, account, op, errors>>
  BY DEF ResetPool
<1>2. "anonymous" \in Identities
  BY DEF Identities
<1>3. Types'
  <2>1. identity' \in [Conns -> Identities]
    BY <1>1, <1>2 DEF IInv, Types
  <2>2. /\ where' \in [Conns -> {"free", "lent", "returning", "dropped"}]
        /\ stale' \subseteq {c \in Conns : where'[c] # "free"}
    BY <1>1 DEF IInv, Types
  <2> QED BY <1>1, <2>1, <2>2, RulesStay DEF IInv, Types
<1>4. /\ \A c \in Conns : where'[c] = "lent" <=> where[c] = "lent"
      /\ \A c \in Conns : where[c] = "lent" => identity'[c] = identity[c]
  BY <1>1
<1> QED BY <1>1, <1>3, <1>4, PoolStep

LEMMA SetAccountIInv ==
    ASSUME IInv, NEW a \in Accounts, SetAccount(a)
    PROVE  IInv'
<1>1. Types'
  BY RulesStay DEF SetAccount, IInv, Types
<1> QED BY <1>1, PoolStep DEF SetAccount

LEMMA InitIInv == Init => IInv
<1> SUFFICES ASSUME Init PROVE IInv
  OBVIOUS
<1>1. Ok(<<>>) \in Results
  BY DEF Ok, Results, Rules
<1>2. NoOp(Ok(<<>>)) \in Operations /\ NoOp(Ok(<<>>)).at = "done"
  BY <1>1, NoOpType
<1>3. op \in [Ops -> Operations] /\ \A t \in Ops : op[t].at = "done"
  BY <1>2 DEF Init
<1>4. Types
  BY <1>3, ConnectionAssumption DEF Init, Types, Identities
<1>5. \A t \in Ops : ~Active(t)
  BY <1>3 DEF Active, LdapSteps
<1>6. \A t \in Ops : HasConn(t) /\ OwnIdentityOf(t) /\ OnTheWay(t)
  BY <1>3, <1>5 DEF HasConn, OwnIdentityOf, OnTheWay
<1>7. Exclusive /\ LentToSomeone
  BY <1>5 DEF Init, Exclusive, LentToSomeone
<1> QED BY <1>4, <1>6, <1>7 DEF IInv

LEMMA NextIInv == IInv /\ [Next]_vars => IInv'
<1> SUFFICES ASSUME IInv, [Next]_vars PROVE IInv'
  OBVIOUS
<1>1. ASSUME NEW t \in Ops,
             \/ \E u \in Users, right \in BOOLEAN, mode \in {"bind", "search+bind"} :
                  Start(t, u, right, mode)
             \/ \E k \in Conns : Take(t, k)
             \/ NoServer(t) \/ AdminBind(t) \/ Search(t) \/ Bind(t)
             \/ SearchGroupsRules(t) \/ ConnectionError(t)
      PROVE  IInv'
  BY <1>1, StartIInv, TakeIInv, NoServerIInv, AdminBindIInv, SearchIInv, BindIInv,
     SearchGroupsRulesIInv, ConnectionErrorIInv
<1>2. ASSUME NEW k \in Conns, Return(k) PROVE IInv'
  BY <1>2, ReturnIInv
<1>3. CASE ResetPool
  BY <1>3, ResetPoolIInv
<1>4. ASSUME NEW a \in Accounts, SetAccount(a) PROVE IInv'
  BY <1>4, SetAccountIInv
<1>5. CASE UNCHANGED vars
  <2>1. Types'
    BY <1>5, RulesStay DEF vars, IInv, Types
  <2> QED BY <1>5, <2>1, PoolStep DEF vars
<1> QED BY <1>1, <1>2, <1>3, <1>4, <1>5 DEF Next

LEMMA Invariant == Spec => []IInv
<1> QED BY InitIInv, NextIInv, PTL DEF Spec

-----------------------------------------------------------------------------
(* The theorems.                                                           *)

(***************************************************************************)
(* The variables keep their types, and a connection is lent exactly while  *)
(* an operation talks to the server over it (take_connection, and the task *)
(* that returns it when the operation is over).                            *)
(***************************************************************************)
THEOREM TypeCorrect == Spec => []TypeOK
<1>1. IInv => TypeOK
  <2> SUFFICES ASSUME IInv PROVE TypeOK
    OBVIOUS
  <2>1. {k \in Conns : where[k] = "lent"}
          = {op[t].conn : t \in {t \in Ops : op[t].at \in LdapSteps}}
    BY DEF IInv, LentToSomeone, HasConn, Active
  <2>2. \A t \in Ops :
          /\ op[t].at \in {"done", "take"} \cup LdapSteps
          /\ op[t].user \in Users /\ op[t].account \in Accounts \cup {"none"}
          /\ op[t].conn \in Conns \cup {NoConn}
          /\ op[t].res.err \in Errors \cup {"none"}
    BY DEF IInv, Types, Operations, Results
  <2> QED BY <2>1, <2>2 DEF TypeOK, IInv, Types
<1> QED BY <1>1, Invariant, PTL

(***************************************************************************)
(* search and search_groups_rules run under the identity that this very    *)
(* operation bound: a pooled connection hands nobody's identity on.        *)
(***************************************************************************)
THEOREM IdentityIsOwn == Spec => []OwnIdentity
<1>1. IInv => OwnIdentity
  BY DEF IInv, OwnIdentityOf, OwnIdentity
<1> QED BY <1>1, Invariant, PTL

(***************************************************************************)
(* What ldap_bind_and_group_rules and ldap_search_bind_and_group_rules     *)
(* come to, in bind mode or with a search account.                         *)
(***************************************************************************)
Expected(o) ==
    IF ExpectedError(o) # "none" THEN Error(ExpectedError(o))
    ELSE Ok(MergeTokens(Tokens(Searcher(o), o.user)))

(* The operation of t is over, and its outcome is not left to whoever used *)
(* the connection before: only then, without an account in search+bind     *)
(* mode, is the search made under an identity that it did not bind.        *)
Decided(t) ==
    /\ op[t].at # "done" /\ op'[t].at = "done"
    /\ op[t].mode = "bind" \/ op[t].account # "none"

OutcomeDetermined ==
    [][\A t \in Ops : Decided(t) =>
         \/ op[t].failed /\ op'[t].res = Error("NoHealthyServerAvailable")
         \/ op'[t].res = Expected(op[t])]_vars

(* An operation ends by its own step. *)
LEMMA EndIsOwn ==
    ASSUME IInv, Next, NEW t \in Ops, Decided(t)
    PROVE  NoServer(t) \/ AdminBind(t) \/ Search(t) \/ Bind(t) \/ SearchGroupsRules(t)
<1>1. op[t].at # "done" /\ op'[t].at = "done" /\ op'[t] # op[t]
  BY DEF Decided
<1>2. ASSUME NEW s \in Ops, NEW o, op' = [op EXCEPT ![s] = o]
      PROVE  s = t /\ op'[t] = o
  BY <1>1, <1>2 DEF IInv, Types
<1>3. ~ResetPool /\ (\A k \in Conns : ~Return(k)) /\ (\A a \in Accounts : ~SetAccount(a))
  BY <1>1 DEF ResetPool, Return, SetAccount
<1>4. ASSUME NEW s \in Ops, NEW u \in Users, NEW right \in BOOLEAN,
             NEW mode \in {"bind", "search+bind"}
      PROVE  ~Start(s, u, right, mode)
  BY <1>1, <1>2 DEF Start
<1>5. ASSUME NEW s \in Ops, NEW k \in Conns, Take(s, k) PROVE FALSE
  <2>1. op[s] \in Operations /\ s = t
    BY <1>2, <1>5 DEF Take, IInv, Types
  <2>2. op'[t].at \in {"bind", "search", "search_bind"}
    BY <1>5, <2>1 DEF Take, IInv, Types, Operations
  <2> QED BY <1>1, <2>2
<1>6. ASSUME NEW s \in Ops, ConnectionError(s) PROVE FALSE
  <2>1. op[s] \in Operations /\ s = t
    BY <1>2, <1>6 DEF ConnectionError, IInv, Types
  <2>2. op'[t].at = "take"
    BY <1>6, <2>1 DEF ConnectionError, IInv, Types, Operations
  <2> QED BY <1>1, <2>2
<1>7. PICK s \in Ops : \/ NoServer(s) \/ AdminBind(s) \/ Search(s) \/ Bind(s)
                       \/ SearchGroupsRules(s)
  BY <1>3, <1>4, <1>5, <1>6 DEF Next
<1>8. \E o : op' = [op EXCEPT ![s] = o]
  <2>1. CASE NoServer(s)
    BY <2>1 DEF NoServer
  <2>2. CASE AdminBind(s)
    BY <2>2 DEF AdminBind, Continues, Ends
  <2>3. CASE Bind(s)
    BY <2>3 DEF Bind, PrepareGroupSearch, Continues, Ends
  <2>4. CASE SearchGroupsRules(s)
    BY <2>4 DEF SearchGroupsRules, Ends
  <2>5. CASE Search(s)
    <3>1. /\ identity[op[s].conn] \in Identities /\ op[s].user \in Users
      BY <2>5 DEF Search, IInv, HasConn, Active, LdapSteps, Types, Operations
    <3>2. Found(identity[op[s].conn], op[s].user) \in Kinds
      BY <3>1, ConnectionAssumption DEF Found, Kinds, IInv, Types
    <3>3. Continues(s, "bind") \/ \E e \in Errors : Ends(s, Error(e))
      BY <2>5, <3>2 DEF Search, Kinds, Errors
    <3> QED BY <3>3 DEF Continues, Ends
  <2> QED BY <1>7, <2>1, <2>2, <2>3, <2>4, <2>5
<1> QED BY <1>2, <1>7, <1>8

(***************************************************************************)
(* Whoever used its connections before, whatever other operations, resets  *)
(* and CONFIG SETs come in between, and however often it started over, an  *)
(* operation ends with the result that the user, the password, the         *)
(* settings at its start and the directory make it.  (That MergeTokens     *)
(* has each token once, in order, is OutcomeSound's remaining part.)       *)
(***************************************************************************)
THEOREM OutcomesDetermined == Spec => OutcomeDetermined
<1> DEFINE A == \A t \in Ops : Decided(t) =>
                  \/ op[t].failed /\ op'[t].res = Error("NoHealthyServerAvailable")
                  \/ op'[t].res = Expected(op[t])
<1>1. IInv /\ Next => A
  <2> SUFFICES ASSUME IInv, Next, NEW t \in Ops, Decided(t)
               PROVE  \/ op[t].failed /\ op'[t].res = Error("NoHealthyServerAvailable")
                      \/ op'[t].res = Expected(op[t])
    OBVIOUS
  <2>1. /\ OnTheWay(t) /\ OwnIdentityOf(t) /\ op[t] \in Operations
        /\ op'[t].at = "done" /\ (op[t].mode = "bind" \/ op[t].account # "none")
        /\ Accounts \subseteq {"none", "good", "bad"}
    BY ConnectionAssumption DEF Decided, IInv, Types
  <2>2. ASSUME NEW res, op' = [op EXCEPT ![t] = NoOp(res)]
        PROVE  op'[t].res = res
    BY <2>2 DEF IInv, Types, NoOp
  <2>3. ASSUME NEW at, Continues(t, at) PROVE op'[t].at = at
    BY <2>1, <2>3 DEF Continues, IInv, Types, Operations
  <2>4. ASSUME NEW e, e # "none", ExpectedError(op[t]) = e, Ends(t, Error(e))
        PROVE  op'[t].res = Expected(op[t])
    BY <2>2, <2>4 DEF Ends, Expected
  <2>5. CASE NoServer(t)
    BY <2>2, <2>5 DEF NoServer
  <2>6. CASE AdminBind(t)
    <3>1. op[t].account = "bad" /\ Ends(t, Error("LdapAdminBindError"))
      BY <2>1, <2>3, <2>6 DEF AdminBind
    <3>2. CASE op[t].at = "search_bind"
      <4>1. ExpectedError(op[t]) = "LdapAdminBindError"
        BY <2>1, <3>1, <3>2 DEF OnTheWay, ExpectedError, SearchError
      <4> QED BY <2>4, <3>1, <4>1
    <3>3. CASE op[t].at = "groups_bind"
      <4>1. op[t].mode = "bind"
        BY <2>1, <3>1, <3>3 DEF OnTheWay, SearchError, Operations
      <4>2. ExpectedError(op[t]) = "LdapAdminBindError"
        BY <2>1, <3>1, <3>3, <4>1 DEF OnTheWay, ExpectedError
      <4> QED BY <2>4, <3>1, <4>2
    <3> QED BY <2>6, <3>2, <3>3 DEF AdminBind
  <2>7. CASE Search(t)
    <3>1. /\ op[t].mode = "search+bind" /\ op[t].account = "good"
          /\ identity[op[t].conn] = "admin"
      BY <2>1, <2>7 DEF Search, OnTheWay, OwnIdentityOf, Operations
    <3>2. CASE "admin" \in directory.refuses
      <4>1. Ends(t, Error("LdapSearchError"))
        BY <2>7, <3>1, <3>2 DEF Search
      <4>2. ExpectedError(op[t]) = "LdapSearchError"
        BY <3>1, <3>2 DEF ExpectedError, SearchError
      <4> QED BY <2>4, <4>1, <4>2
    <3>3. CASE "admin" \notin directory.refuses
      <4>1. Found("admin", op[t].user) \in Kinds
        <5>1. "admin" \in Identities /\ op[t].user \in Users
          BY <2>1 DEF Identities, Operations
        <5> QED BY <5>1, ConnectionAssumption DEF Found, Kinds, IInv, Types
      <4>2. Found("admin", op[t].user) # "one"
        BY <2>1, <2>3, <2>7, <3>1, <3>3 DEF Search
      <4>3. Ends(t, Error(ExpectedError(op[t]))) /\ ExpectedError(op[t]) # "none"
        <5>1. CASE Found("admin", op[t].user) = "none"
          BY <2>7, <3>1, <3>3, <5>1 DEF Search, ExpectedError, SearchError
        <5>2. CASE Found("admin", op[t].user) = "several"
          BY <2>7, <3>1, <3>3, <5>2 DEF Search, ExpectedError, SearchError
        <5>3. CASE Found("admin", op[t].user) = "nodn"
          BY <2>7, <3>1, <3>3, <5>3 DEF Search, ExpectedError, SearchError
        <5>4. CASE Found("admin", op[t].user) = "novalue"
          BY <2>7, <3>1, <3>3, <5>4 DEF Search, ExpectedError, SearchError
        <5> QED BY <4>1, <4>2, <5>1, <5>2, <5>3, <5>4 DEF Kinds
      <4> QED BY <2>4, <4>3
    <3> QED BY <3>2, <3>3
  <2>8. CASE Bind(t)
    <3>1. /\ Ends(t, Error("LdapBindError"))
          /\ ~op[t].right \/ directory.entry[op[t].user] = "none"
      BY <2>1, <2>3, <2>8 DEF Bind, PrepareGroupSearch
    <3>2. ExpectedError(op[t]) = "LdapBindError"
      BY <2>1, <2>8, <3>1 DEF Bind, OnTheWay, ExpectedError
    <3> QED BY <2>4, <3>1, <3>2
  <2>9. CASE SearchGroupsRules(t)
    <3>1. identity[op[t].conn] = Searcher(op[t]) /\ op[t].at = "groups"
      BY <2>1, <2>9 DEF SearchGroupsRules, OwnIdentityOf, Searcher
    <3>2. ExpectedError(op[t]) = IF Searcher(op[t]) \in directory.refuses
                                 THEN "LdapSearchError" ELSE "none"
      BY <2>1, <3>1 DEF OnTheWay, ExpectedError
    <3>3. Ends(t, Expected(op[t]))
      BY <2>9, <3>1, <3>2 DEF SearchGroupsRules, Expected
    <3> QED BY <2>2, <3>3 DEF Ends
  <2> QED BY <2>5, <2>6, <2>7, <2>8, <2>9, EndIsOwn
<1>2. IInv /\ [Next]_vars => [A]_vars
  BY <1>1
<1> QED BY <1>2, Invariant, PTL DEF Spec, OutcomeDetermined
=============================================================================
