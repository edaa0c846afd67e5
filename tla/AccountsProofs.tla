---------------------------- MODULE AccountsProofs ----------------------------
(***************************************************************************)
(* Proofs about Accounts, for any number of users, addresses, links,       *)
(* requests, and any timing of the worker.                                 *)
(***************************************************************************)
EXTENDS Accounts, TLAPS, FiniteSetTheorems

USE AccountsAssumption

\* What a request of each kind has found.
LEMMA Found ==
    ASSUME TypeOK, NEW r \in Requests
    PROVE  /\ req[r].kind \in {"checkEmail", "insertUser"} =>
                req[r] \in [kind : {"checkEmail", "insertUser"}, name : Names, email : Emails]
           /\ req[r].kind = "saveEmail" =>
                req[r] \in [kind : {"saveEmail"}, user : User, email : Emails, version : Nat]
           /\ req[r].kind = "findPending" =>
                req[r] \in [kind : {"findPending"}, user : User]
           /\ req[r].kind \in {"saveLink", "findOwner"} =>
                req[r] \in [kind : {"saveLink", "findOwner"}, link : Link]
           /\ req[r].kind = "savePassword" =>
                req[r] \in [kind : {"savePassword"}, link : Link, user : User, version : Nat]
BY DEF TypeOK, Request, None

LEMMA FieldTypes ==
    ASSUME TypeOK, NEW r \in Requests
    PROVE  /\ req[r].kind \in {"saveEmail", "findPending", "savePassword"} =>
                /\ req[r].user \in User /\ req[r].user.id \in Ids
                /\ req[r].user.name \in Names /\ req[r].user.email \in Emails
           /\ req[r].kind \in {"saveLink", "findOwner", "savePassword"} =>
                /\ req[r].link \in Link /\ req[r].link.id \in Links
                /\ req[r].link.name \in Names /\ req[r].link.email \in Emails
           /\ req[r].kind \in {"saveEmail", "savePassword"} => req[r].version \in Nat
<1>1. PICK k : k = req[r].kind
  OBVIOUS
<1>2. CASE k = "saveEmail"
  BY <1>1, <1>2, Found DEF User
<1>3. CASE k = "findPending"
  BY <1>1, <1>3, Found DEF User
<1>4. CASE k \in {"saveLink", "findOwner"}
  BY <1>1, <1>4, Found DEF Link
<1>5. CASE k = "savePassword"
  BY <1>1, <1>5, Found DEF Link, User
<1> QED
  BY <1>1, <1>2, <1>3, <1>4, <1>5

LEMMA NextType ==
    ASSUME TypeOK, NEW r \in Requests, NEW next \in Request, Goes(r, next)
    PROVE  req' \in [Requests -> Request]
BY DEF TypeOK, Goes

\* Every step keeps the type invariant.
LEMMA TypeStep == ASSUME TypeOK, [Next]_vars PROVE TypeOK'
<1> USE DEF TypeOK
<1>1. ASSUME NEW r \in Requests, NEW found \in Request, Receive(r, found) PROVE TypeOK'
  BY <1>1 DEF Receive, tables, clock
<1>2. ASSUME NEW r \in Requests, NEW n \in Names, NEW e \in Emails, CheckName(r, n, e)
      PROVE  TypeOK'
  BY <1>1, <1>2 DEF CheckName, Request
<1>3. ASSUME NEW r \in Requests, NEW u \in users, NEW e \in Emails, LoadUser(r, u, e)
      PROVE  TypeOK'
  <2>1. u.id \in Ids
    BY DEF User
  <2> DEFINE found == [kind |-> "saveEmail", user |-> u, email |-> Lower[e],
                       version |-> version[u.id]]
  <2>2. found \in Request
    BY <2>1 DEF Request
  <2> QED
    BY <1>1, <1>3, <2>2 DEF LoadUser
<1>4. ASSUME NEW r \in Requests, NEW e \in Emails, FindUser(r, e) PROVE TypeOK'
  BY <1>1, <1>4 DEF FindUser, Request
<1>5. ASSUME NEW r \in Requests, NEW l \in links, FindLink(r, l) PROVE TypeOK'
  BY <1>1, <1>5 DEF FindLink, Request
<1>6. ASSUME NEW r \in Requests, CheckEmail(r) PROVE TypeOK'
  <2>1. [req[r] EXCEPT !.kind = "insertUser"] \in Request
    BY <1>6, Found DEF CheckEmail, Request
  <2> QED
    BY <1>6, <2>1, NextType DEF CheckEmail, tables, clock
<1>7. ASSUME NEW r \in Requests, InsertUser(r) PROVE TypeOK'
  <2>1. PICK i \in Ids : users' = users \cup {[id |-> i, name |-> req[r].name,
                                               email |-> req[r].email]}
    BY <1>7 DEF InsertUser
  <2>2. users' \subseteq User
    BY <1>7, <2>1, Found DEF InsertUser, User
  <2>3. None \in Request
    BY DEF Request
  <2> QED
    BY <1>7, <2>2, <2>3, NextType DEF InsertUser, clock
<1>8. ASSUME NEW r \in Requests, SaveEmail(r) PROVE TypeOK'
  <2>1. req[r].user \in User /\ req[r].email \in Emails
    BY <1>8, Found DEF SaveEmail
  <2>4. [req[r].user EXCEPT !.email = req[r].email] \in User
    BY <2>1 DEF User
  <2>5. version' \in [Ids -> Nat]
    BY <1>8, <2>1 DEF SaveEmail, User
  <2>6. users' \subseteq User
    <3>1. users' = (users \ {req[r].user}) \cup {[req[r].user EXCEPT !.email = req[r].email]}
      BY <1>8 DEF SaveEmail
    <3> QED
      BY <2>4, <3>1
  <2>2. users' \subseteq User /\ version' \in [Ids -> Nat]
    BY <2>5, <2>6
  <2>3. None \in Request
    BY DEF Request
  <2> QED
    BY <1>8, <2>2, <2>3, NextType DEF SaveEmail, clock
<1>9. ASSUME NEW r \in Requests, SendMail(r) PROVE TypeOK'
  <2>1. PICK l \in Links :
          /\ mailed' = mailed \cup {[link |-> l, account |-> req[r].user.id]}
          /\ Goes(r, [kind |-> "saveLink",
                      link |-> [id |-> l, name |-> req[r].user.name,
                                email |-> req[r].user.email]])
    BY <1>9 DEF SendMail, Fresh
  <2>2. [id |-> l, name |-> req[r].user.name, email |-> req[r].user.email] \in Link
    BY <1>9, FieldTypes DEF SendMail, Link
  <2> DEFINE next == [kind |-> "saveLink",
                      link |-> [id |-> l, name |-> req[r].user.name,
                                email |-> req[r].user.email]]
  <2>3. next \in Request
    BY <2>2 DEF Request
  <2>4. mailed' \subseteq [link : Links, account : Ids]
    BY <1>9, <2>1, FieldTypes DEF SendMail
  <2> QED
    BY <1>9, <2>1, <2>3, <2>4, NextType DEF SendMail, clock
<1>10. ASSUME NEW r \in Requests, SaveLink(r) PROVE TypeOK'
  <2>1. links' \subseteq Link
    BY <1>10, FieldTypes DEF SaveLink
  <2>2. None \in Request
    BY DEF Request
  <2> QED
    BY <1>10, <2>1, <2>2, NextType DEF SaveLink, clock
<1>11. ASSUME NEW r \in Requests, FindOwner(r) PROVE TypeOK'
  <2>1. PICK u \in users : Goes(r, [kind |-> "savePassword", link |-> req[r].link,
                                    user |-> u, version |-> version[u.id]])
    BY <1>11 DEF FindOwner
  <2>2. u.id \in Ids
    BY DEF User
  <2> DEFINE next == [kind |-> "savePassword", link |-> req[r].link,
                      user |-> u, version |-> version[u.id]]
  <2>3. next \in Request
    BY <1>11, <2>2, FieldTypes DEF FindOwner, Request
  <2> QED
    BY <1>11, <2>1, <2>3, NextType DEF FindOwner, tables, clock
<1>12. ASSUME NEW r \in Requests, SavePassword(r) PROVE TypeOK'
  <2>1. version' \in [Ids -> Nat] /\ changed' \in [Links -> [Ids -> Nat]]
    BY <1>12, FieldTypes DEF SavePassword
  <2>2. None \in Request
    BY DEF Request
  <2> QED
    BY <1>12, <2>1, <2>2, NextType DEF SavePassword, clock
<1>13. ASSUME NEW r \in Requests, Abort(r) PROVE TypeOK'
  <2>1. None \in Request
    BY DEF Request
  <2> QED
    BY <1>13, <2>1, NextType DEF Abort, tables, clock
<1>14. CASE WorkerLoads
  BY <1>14 DEF WorkerLoads, tables
<1>15. CASE WorkerSaves
  BY <1>15 DEF WorkerSaves, Sleep
<1>16. CASE WorkerFails
  BY <1>16 DEF WorkerFails, Sleep, tables
<1>17. CASE Tick
  BY <1>17 DEF Tick, tables
<1>18. CASE UNCHANGED vars
  BY <1>18 DEF vars
<1> QED
  BY <1>2, <1>3, <1>4, <1>5, <1>6, <1>7, <1>8, <1>9, <1>10, <1>11, <1>12, <1>13,
     <1>14, <1>15, <1>16, <1>17, <1>18 DEF Next, Handles

\* Rows, links and requests keep their types.
THEOREM TypeCorrect == Spec => []TypeOK
<1>1. Init => TypeOK
  BY DEF Init, TypeOK, Request
<1> QED
  BY <1>1, TypeStep, PTL DEF Spec

-----------------------------------------------------------------------------
(* A link is used once *)

Mailed(id) == \E m \in mailed : m.link = id
Unused(id) == \A i \in Ids : changed[id][i] = 0
Saving(r) == req[r].kind = "saveLink"

\* A link that is in the table, or about to be, is the only one of its identity
\* and has not been used.
LinkInv ==
    /\ \A l \in links : Unused(l.id) /\ Mailed(l.id)
    /\ \A k, l \in links : k.id = l.id => k = l
    /\ \A r \in Requests : Saving(r) =>
         /\ Unused(req[r].link.id) /\ Mailed(req[r].link.id)
         /\ \A l \in links : l.id # req[r].link.id
    /\ \A r, s \in Requests :
         Saving(r) /\ Saving(s) /\ req[r].link.id = req[s].link.id => r = s
    /\ \A l \in Links : ~Mailed(l) => Unused(l)

LEMMA OneGoes ==
    ASSUME TypeOK, NEW r \in Requests, NEW next, Goes(r, next)
    PROVE  req'[r] = next /\ \A s \in Requests \ {r} : req'[s] = req[s]
BY DEF TypeOK, Goes

\* No request begins to save a link, and none has been mailed or used.
NoNewLink ==
    /\ links' \subseteq links /\ mailed' = mailed /\ changed' = changed
    /\ \A r \in Requests : req'[r].kind = "saveLink" => req'[r] = req[r]

LEMMA NoNewLinkKeeps == ASSUME LinkInv, NoNewLink PROVE LinkInv'
<1>1. \A l \in links' : l \in links
  BY DEF NoNewLink
<1>2. \A r \in Requests : Saving(r)' => Saving(r) /\ req'[r] = req[r]
  BY DEF NoNewLink, Saving
<1>3. \A i : (Unused(i)' <=> Unused(i)) /\ (Mailed(i)' <=> Mailed(i))
  BY DEF NoNewLink, Unused, Mailed
<1> QED
  BY <1>1, <1>2, <1>3 DEF LinkInv

LEMMA QuietGoes ==
    ASSUME TypeOK, NEW r \in Requests, NEW next, next.kind # "saveLink", Goes(r, next),
           UNCHANGED <<links, mailed, changed>>
    PROVE  NoNewLink
BY OneGoes DEF NoNewLink

LEMMA LinkStep == ASSUME TypeOK, TypeOK', LinkInv, [Next]_vars PROVE LinkInv'
<1>1. ASSUME NEW r \in Requests, NEW n \in Names, NEW e \in Emails, CheckName(r, n, e)
      PROVE  NoNewLink
  BY <1>1, QuietGoes DEF CheckName, Receive, Goes, tables
<1>2. ASSUME NEW r \in Requests, NEW u \in users, NEW e \in Emails, LoadUser(r, u, e)
      PROVE  NoNewLink
  BY <1>2, QuietGoes DEF LoadUser, Receive, Goes, tables
<1>3. ASSUME NEW r \in Requests, NEW e \in Emails, FindUser(r, e) PROVE NoNewLink
  BY <1>3, QuietGoes DEF FindUser, Receive, Goes, tables
<1>4. ASSUME NEW r \in Requests, NEW l \in links, FindLink(r, l) PROVE NoNewLink
  BY <1>4, QuietGoes DEF FindLink, Receive, Goes, tables
<1>5. ASSUME NEW r \in Requests, CheckEmail(r) PROVE NoNewLink
  <2>1. [req[r] EXCEPT !.kind = "insertUser"].kind = "insertUser"
    BY <1>5, Found DEF CheckEmail
  <2> QED
    BY <1>5, <2>1, QuietGoes DEF CheckEmail, tables
<1>6. ASSUME NEW r \in Requests, InsertUser(r) \/ SaveEmail(r) \/ Abort(r)
      PROVE  NoNewLink
  BY <1>6, QuietGoes DEF InsertUser, SaveEmail, Abort, None, tables
<1>7. ASSUME NEW r \in Requests, FindOwner(r) PROVE NoNewLink
  BY <1>7, QuietGoes DEF FindOwner, tables
<1>8. ASSUME WorkerLoads \/ WorkerSaves \/ WorkerFails \/ Tick \/ UNCHANGED vars
      PROVE  NoNewLink
  BY <1>8 DEF WorkerLoads, WorkerSaves, WorkerFails, Tick, vars, tables, NoNewLink
<1>9. ASSUME NEW r \in Requests, SendMail(r) PROVE LinkInv'
  <2>1. PICK l \in Fresh :
          /\ mailed' = mailed \cup {[link |-> l, account |-> req[r].user.id]}
          /\ Goes(r, [kind |-> "saveLink",
                      link |-> [id |-> l, name |-> req[r].user.name,
                                email |-> req[r].user.email]])
    BY <1>9 DEF SendMail
  <2>2. l \in Links /\ ~Mailed(l) /\ Unused(l)
    BY <2>1 DEF Fresh, Mailed, LinkInv
  <2>3. links' = links /\ changed' = changed
    BY <1>9 DEF SendMail
  <2>4. \A i : Unused(i)' <=> Unused(i)
    BY <2>3 DEF Unused
  <2>5. \A i : Mailed(i)' <=> Mailed(i) \/ i = l
    <3>1. PICK a : a = req[r].user.id
      OBVIOUS
    <3>2. \A m : m \in mailed' <=> m \in mailed \/ m = [link |-> l, account |-> a]
      BY <2>1, <3>1
    <3>3. [link |-> l, account |-> a].link = l
      OBVIOUS
    <3> QED
      BY <3>2, <3>3 DEF Mailed
  <2>6. /\ req'[r].kind = "saveLink" /\ req'[r].link.id = l
        /\ \A s \in Requests \ {r} : req'[s] = req[s]
    BY <2>1, OneGoes
  <2>7. \A s \in Requests \ {r} : Saving(s)' =>
          /\ Saving(s) /\ req'[s] = req[s]
          /\ Mailed(req[s].link.id) /\ req[s].link.id # l
    BY <2>2, <2>6 DEF Saving, LinkInv
  <2>8. \A s \in Requests : Saving(s)' =>
          /\ Unused(req[s].link.id)' /\ Mailed(req[s].link.id)'
          /\ \A k \in links' : k.id # req'[s].link.id
    <3>1. ASSUME NEW s \in Requests, NEW i, req'[s].link.id = i, Unused(i), Mailed(i)',
                 \A k \in links : k.id # i
          PROVE  /\ Unused(req[s].link.id)' /\ Mailed(req[s].link.id)'
                 /\ \A k \in links' : k.id # req'[s].link.id
      <4>1. Unused(req[s].link.id)'
        BY <2>3, <3>1 DEF Unused
      <4>2. Mailed(req[s].link.id)'
        BY <3>1 DEF Mailed
      <4> QED
        BY <2>3, <3>1, <4>1, <4>2
    <3>2. \A k \in links : k.id # l
      BY <2>2 DEF LinkInv
    <3>3. Mailed(l)'
      BY <2>5
    <3>4. \A s \in Requests \ {r} : Saving(s)' =>
            /\ Unused(req[s].link.id) /\ \A k \in links : k.id # req[s].link.id
      BY <2>7 DEF LinkInv
    <3>5. \A i : \A s \in Requests \ {r} :
             Saving(s)' /\ i = req[s].link.id => req'[s].link.id = i /\ Mailed(i)'
      BY <2>5, <2>7
    <3>6. ASSUME NEW s \in Requests \ {r}, Saving(s)'
          PROVE  /\ Unused(req[s].link.id)' /\ Mailed(req[s].link.id)'
                 /\ \A k \in links' : k.id # req'[s].link.id
      <4>1. PICK i : i = req[s].link.id
        OBVIOUS
      <4>2. req'[s].link.id = i /\ Mailed(i)'
        BY <3>5, <3>6, <4>1
      <4>3. Unused(i) /\ \A k \in links : k.id # i
        BY <3>4, <3>6, <4>1
      <4> QED
        BY <3>1, <4>2, <4>3
    <3>7. /\ Unused(req[r].link.id)' /\ Mailed(req[r].link.id)'
          /\ \A k \in links' : k.id # req'[r].link.id
      BY <2>2, <2>6, <3>1, <3>2, <3>3
    <3> QED
      BY <3>6, <3>7
  <2>9. \A s, t \in Requests :
          Saving(s)' /\ Saving(t)' /\ req'[s].link.id = req'[t].link.id => s = t
    BY <2>6, <2>7 DEF LinkInv
  <2>10. \A k \in links' : Unused(k.id)' /\ Mailed(k.id)'
    BY <2>3, <2>4, <2>5 DEF LinkInv
  <2>11. \A k \in Links : ~Mailed(k)' => Unused(k)'
    BY <2>4, <2>5 DEF LinkInv
  <2>12. \A j, k \in links' : j.id = k.id => j = k
    BY <2>3 DEF LinkInv
  <2> QED
    BY <2>8, <2>9, <2>10, <2>11, <2>12 DEF LinkInv
<1>10. ASSUME NEW r \in Requests, SaveLink(r) PROVE LinkInv'
  <2>1. links' = links \cup {req[r].link} /\ changed' = changed /\ mailed' = mailed
    BY <1>10 DEF SaveLink
  <2>2. Saving(r)
    BY <1>10 DEF SaveLink, Saving
  <2>3. \A s \in Requests : Saving(s)' => s # r /\ Saving(s) /\ req'[s] = req[s]
    BY <1>10, OneGoes DEF SaveLink, Saving, None
  <2>4. \A i : (Unused(i)' <=> Unused(i)) /\ (Mailed(i)' <=> Mailed(i))
    BY <2>1 DEF Unused, Mailed
  <2> QED
    BY <2>1, <2>2, <2>3, <2>4 DEF LinkInv
<1>11. ASSUME NEW r \in Requests, SavePassword(r) PROVE LinkInv'
  <2> DEFINE used == req[r].link
  <2>1. /\ used \in links /\ links' = links \ {used} /\ mailed' = mailed
        /\ used.id \in Links
    BY <1>11, FieldTypes DEF SavePassword
  <2>2. \A i \in Links : i # used.id => (Unused(i)' <=> Unused(i))
    BY <1>11 DEF SavePassword, Unused, TypeOK
  <2>3. \A i : Mailed(i)' <=> Mailed(i)
    BY <2>1 DEF Mailed
  <2>4. \A s \in Requests : Saving(s)' => Saving(s) /\ req'[s] = req[s]
    BY <1>11, OneGoes DEF SavePassword, Saving, None
  <2>5. \A l \in links' : l \in links /\ l.id # used.id /\ l.id \in Links
    BY <2>1 DEF LinkInv, TypeOK, Link
  <2>6. \A s \in Requests : Saving(s) => req[s].link.id # used.id /\ req[s].link.id \in Links
    BY <2>1, FieldTypes DEF LinkInv, Saving
  <2>7. Mailed(used.id)
    BY <2>1 DEF LinkInv
  <2> HIDE DEF used
  <2> QED
    BY <2>2, <2>3, <2>4, <2>5, <2>6, <2>7 DEF LinkInv
<1> QED
  BY <1>1, <1>2, <1>3, <1>4, <1>5, <1>6, <1>7, <1>8, <1>9, <1>10, <1>11, NoNewLinkKeeps
     DEF Next, Handles

LEMMA LinkInvariant == Spec => []LinkInv
<1>1. Init => LinkInv
  BY DEF Init, LinkInv, Unused, Mailed, Saving, None
<1>2. TypeOK /\ TypeOK' /\ LinkInv /\ [Next]_vars => LinkInv'
  BY LinkStep
<1> QED
  BY <1>1, <1>2, TypeCorrect, PTL DEF Spec

\* SavePassword demands the row of the link, and a link with a row is unused.
LEMMA UsedStep ==
    ASSUME TypeOK, LinkInv, UsedAtMostOnce, [Next]_vars
    PROVE  UsedAtMostOnce'
<1>1. CASE changed' = changed
  BY <1>1 DEF UsedAtMostOnce
<1>2. ASSUME NEW r \in Requests, SavePassword(r) PROVE UsedAtMostOnce'
  <2>1. /\ req[r].link.id \in Links /\ req[r].user.id \in Ids
        /\ Unused(req[r].link.id)
    BY <1>2, FieldTypes DEF SavePassword, LinkInv
  <2>2. changed' = [changed EXCEPT ![req[r].link.id][req[r].user.id] = @ + 1]
    BY <1>2 DEF SavePassword
  <2> QED
    BY <2>1, <2>2 DEF UsedAtMostOnce, Unused, TypeOK
<1>3. ASSUME NEW r \in Requests,
             CheckEmail(r) \/ InsertUser(r) \/ SaveEmail(r) \/ SendMail(r) \/ SaveLink(r)
               \/ FindOwner(r) \/ Abort(r)
      PROVE  changed' = changed
  BY <1>3 DEF CheckEmail, InsertUser, SaveEmail, SendMail, SaveLink, FindOwner, Abort, tables
<1>4. ASSUME NEW r \in Requests, NEW found, Receive(r, found) PROVE changed' = changed
  BY <1>4 DEF Receive, tables
<1>5. ASSUME WorkerLoads \/ WorkerSaves \/ WorkerFails \/ Tick \/ UNCHANGED vars
      PROVE  changed' = changed
  BY <1>5 DEF WorkerLoads, WorkerSaves, WorkerFails, Tick, vars, tables
<1> QED
  BY <1>1, <1>2, <1>3, <1>4, <1>5
     DEF Next, Handles, CheckName, LoadUser, FindUser, FindLink

\* A reset link changes a password at most once (ResetPassword.cs 52-55).
THEOREM LinkUsedOnce == Spec => []UsedAtMostOnce
<1>1. Init => UsedAtMostOnce
  BY DEF Init, UsedAtMostOnce
<1>2. TypeOK /\ LinkInv /\ UsedAtMostOnce /\ [Next]_vars => UsedAtMostOnce'
  BY UsedStep
<1> QED
  BY <1>1, <1>2, TypeCorrect, LinkInvariant, PTL DEF Spec

-----------------------------------------------------------------------------
(* A link resets the account it was mailed for *)

Account(name, id) == \E u \in users : u.id = id /\ u.name = name
IsMailed(link, id) == [link |-> link, account |-> id] \in mailed

\* The link was mailed to an account that has the name the link carries.
MeantFor(link) == \E i \in Ids : Account(link.name, i) /\ IsMailed(link.id, i)

\* A copy of a user is the row as long as its token is: names never change, and
\* a name that was found once stays the name of that account.
RequestOK(r) ==
    /\ req[r].kind = "saveEmail" =>
         /\ req[r].version <= version[req[r].user.id]
         /\ req[r].version = version[req[r].user.id] => req[r].user \in users
    /\ req[r].kind = "findPending" => Account(req[r].user.name, req[r].user.id)
    /\ req[r].kind \in {"saveLink", "findOwner"} => MeantFor(req[r].link)
    /\ req[r].kind = "savePassword" => IsMailed(req[r].link.id, req[r].user.id)

OwnerInv ==
    /\ \A u, v \in users : u.id = v.id => u = v
    /\ \A r \in Requests : RequestOK(r)
    /\ \A l \in links : MeantFor(l)

\* Nothing that was found or mailed is taken back.
Kept ==
    /\ \A n, i : Account(n, i) => Account(n, i)'
    /\ mailed \subseteq mailed'

LEMMA MeantForKept == ASSUME Kept, NEW l, MeantFor(l) PROVE MeantFor(l)'
<1>1. PICK i \in Ids : Account(l.name, i) /\ IsMailed(l.id, i)
  BY DEF MeantFor
<1>2. Account(l.name, i)' /\ IsMailed(l.id, i)'
  BY <1>1 DEF Kept, IsMailed
<1> QED
  BY <1>2 DEF MeantFor

LEMMA UsersKept == ASSUME users \subseteq users', mailed \subseteq mailed' PROVE Kept
BY DEF Kept, Account

\* A request that does not move stays right when the rows of users are as before.
LEMMA RequestKept ==
    ASSUME TypeOK, OwnerInv, Kept, users \subseteq users', version' = version,
           NEW r \in Requests, req'[r] = req[r]
    PROVE  RequestOK(r)'
<1>1. RequestOK(r)
  BY DEF OwnerInv
<1>2. CASE req[r].kind = "saveEmail"
  BY <1>1, <1>2 DEF RequestOK
<1>3. CASE req[r].kind = "findPending"
  BY <1>1, <1>3 DEF RequestOK, Kept
<1>4. CASE req[r].kind \in {"saveLink", "findOwner"}
  <2>1. MeantFor(req[r].link)'
    <3>1. PICK l : l = req[r].link
      OBVIOUS
    <3>2. MeantFor(l)'
      BY <1>1, <1>4, <3>1, MeantForKept DEF RequestOK
    <3> QED
      BY <3>1, <3>2 DEF MeantFor
  <2> QED
    BY <1>4, <2>1 DEF RequestOK
<1>5. CASE req[r].kind = "savePassword"
  BY <1>1, <1>5 DEF RequestOK, Kept, IsMailed
<1>6. CASE req[r].kind \notin {"saveEmail", "findPending", "saveLink", "findOwner", "savePassword"}
  BY <1>6 DEF RequestOK
<1> QED
  BY <1>2, <1>3, <1>4, <1>5, <1>6

\* The rows of users are as they were, and one request moves.
LEMMA OneMoves ==
    ASSUME TypeOK, OwnerInv, users' = users, version' = version,
           mailed \subseteq mailed', links' \subseteq links,
           NEW r \in Requests, NEW next, Goes(r, next), RequestOK(r)'
    PROVE  OwnerInv'
<1>1. Kept
  BY UsersKept
<1>2. \A s \in Requests : RequestOK(s)'
  BY <1>1, OneGoes, RequestKept
<1>3. \A l \in links' : MeantFor(l)'
  BY <1>1, MeantForKept DEF OwnerInv
<1> QED
  BY <1>2, <1>3 DEF OwnerInv

\* The same for a request whose next step does not depend on what it found.
LEMMA FreeMoves ==
    ASSUME TypeOK, OwnerInv, users' = users, version' = version,
           mailed \subseteq mailed', links' \subseteq links,
           NEW r \in Requests, NEW next, Goes(r, next),
           next.kind \in {"idle", "checkEmail", "insertUser"}
    PROVE  OwnerInv'
<1>1. req'[r].kind \in {"idle", "checkEmail", "insertUser"}
  BY OneGoes
<1>2. RequestOK(r)'
  BY <1>1 DEF RequestOK
<1> QED
  BY <1>2, OneMoves

LEMMA StillMoves ==
    ASSUME TypeOK, OwnerInv, UNCHANGED <<users, version, mailed, req>>, links' \subseteq links
    PROVE  OwnerInv'
<1>1. Kept
  BY UsersKept
<1>2. \A s \in Requests : RequestOK(s)'
  BY <1>1, RequestKept
<1>3. \A l \in links' : MeantFor(l)'
  BY <1>1, MeantForKept DEF OwnerInv
<1> QED
  BY <1>2, <1>3 DEF OwnerInv

LEMMA OwnerInsert ==
    ASSUME TypeOK, OwnerInv, NEW r \in Requests, InsertUser(r) PROVE OwnerInv'
<1>1. PICK i \in Ids : /\ \A u \in users : u.id # i
                       /\ users' = users \cup {[id |-> i, name |-> req[r].name,
                                                email |-> req[r].email]}
  BY DEF InsertUser
<1>2. /\ version' = version /\ mailed' = mailed /\ links' = links
      /\ Goes(r, None)
  BY DEF InsertUser
<1>3. users \subseteq users'
  BY <1>1
<1>4. Kept
  BY <1>2, <1>3, UsersKept
<1>5. req'[r].kind = "idle" /\ \A s \in Requests \ {r} : req'[s] = req[s]
  BY <1>2, OneGoes DEF None
<1>6. \A s \in Requests : RequestOK(s)'
  <2>1. RequestOK(r)'
    BY <1>5 DEF RequestOK
  <2> QED
    BY <1>2, <1>3, <1>4, <1>5, <2>1, RequestKept
<1>7. \A l \in links' : MeantFor(l)'
  BY <1>2, <1>4, MeantForKept DEF OwnerInv
<1>8. \A u, v \in users' : u.id = v.id => u = v
  <2>1. PICK w : w = [id |-> i, name |-> req[r].name, email |-> req[r].email]
    OBVIOUS
  <2>2. w.id = i /\ users' = users \cup {w}
    BY <1>1, <2>1
  <2> QED
    BY <1>1, <2>2 DEF OwnerInv
<1> QED
  BY <1>6, <1>7, <1>8 DEF OwnerInv

\* The row is replaced by one with the same identity and name, and a new token.
LEMMA OwnerSaveEmail ==
    ASSUME TypeOK, OwnerInv, NEW r \in Requests, SaveEmail(r) PROVE OwnerInv'
<1>1. PICK u : u = req[r].user
  OBVIOUS
<1>2. /\ req[r].kind = "saveEmail" /\ version[u.id] = req[r].version
      /\ version' = [version EXCEPT ![u.id] = @ + 1]
      /\ mailed' = mailed /\ links' = links /\ Goes(r, None)
  BY <1>1 DEF SaveEmail
<1>3. u \in users /\ u \in User /\ u.id \in Ids
  BY <1>1, <1>2 DEF OwnerInv, RequestOK, TypeOK, User
<1>4. PICK w : w = [u EXCEPT !.email = req[r].email]
  OBVIOUS
<1>5. w.id = u.id /\ w.name = u.name
  BY <1>3, <1>4 DEF User
<1>6. users' = (users \ {u}) \cup {w}
  BY <1>1, <1>4 DEF SaveEmail
<1>7. Kept
  BY <1>2, <1>3, <1>5, <1>6 DEF Kept, Account
<1>8. req'[r].kind = "idle" /\ \A s \in Requests \ {r} : req'[s] = req[s]
  BY <1>2, OneGoes DEF None
<1>9. ASSUME NEW s \in Requests \ {r} PROVE RequestOK(s)'
  <2>1. CASE req[s].kind = "saveEmail"
    <3>1. req[s].user.id \in Ids /\ req[s].version \in Nat
      BY <2>1, FieldTypes
    <3>2. /\ req[s].version <= version[req[s].user.id]
          /\ req[s].version = version[req[s].user.id] => req[s].user \in users
      BY <2>1 DEF OwnerInv, RequestOK
    <3>3. \A i \in Ids : /\ version[i] \in Nat
                         /\ version'[i] = IF i = u.id THEN version[i] + 1 ELSE version[i]
      BY <1>2 DEF TypeOK
    <3>4. req[s].version <= version'[req[s].user.id]
      BY <3>1, <3>2, <3>3
    <3>5. ASSUME req[s].version = version'[req[s].user.id] PROVE req[s].user \in users'
      <4>1. req[s].user.id # u.id
        BY <3>1, <3>2, <3>3, <3>5
      <4> QED
        BY <1>6, <3>1, <3>2, <3>3, <3>5, <4>1
    <3> QED
      BY <1>8, <2>1, <3>4, <3>5 DEF RequestOK
  <2>2. CASE req[s].kind = "findPending"
    BY <1>7, <1>8, <2>2 DEF OwnerInv, RequestOK, Kept
  <2>3. CASE req[s].kind \in {"saveLink", "findOwner"}
    <3>1. PICK l : l = req[s].link
      OBVIOUS
    <3>2. MeantFor(l)'
      BY <1>7, <2>3, <3>1, MeantForKept DEF OwnerInv, RequestOK
    <3>3. MeantFor(req[s].link)'
      BY <1>8, <3>1, <3>2 DEF MeantFor
    <3> QED
      BY <1>8, <2>3, <3>3 DEF RequestOK
  <2>4. CASE req[s].kind = "savePassword"
    BY <1>7, <1>8, <2>4 DEF OwnerInv, RequestOK, Kept, IsMailed
  <2>5. CASE req[s].kind \notin {"saveEmail", "findPending", "saveLink", "findOwner", "savePassword"}
    BY <1>8, <2>5 DEF RequestOK
  <2> QED
    BY <2>1, <2>2, <2>3, <2>4, <2>5
<1>10. RequestOK(r)'
  BY <1>8 DEF RequestOK
<1>11. \A l \in links' : MeantFor(l)'
  BY <1>2, <1>7, MeantForKept DEF OwnerInv
<1>12. \A v, x \in users' : v.id = x.id => v = x
  BY <1>3, <1>5, <1>6 DEF OwnerInv
<1> QED
  BY <1>9, <1>10, <1>11, <1>12 DEF OwnerInv

\* The owner found by name is the account of the mail: that account has the name
\* as well, and the look-up found no other.
LEMMA OwnerFound ==
    ASSUME TypeOK, OwnerInv, NEW r \in Requests, FindOwner(r) PROVE OwnerInv'
<1>1. PICK l : l = req[r].link
  OBVIOUS
<1>2. PICK u \in users :
        /\ req[r].kind = "findOwner"
        /\ Named(l.name) = {u}
        /\ Goes(r, [kind |-> "savePassword", link |-> l, user |-> u,
                    version |-> version[u.id]])
        /\ UNCHANGED <<tables, clock, sent>>
  BY <1>1 DEF FindOwner
<1>3. MeantFor(l)
  BY <1>1, <1>2 DEF OwnerInv, RequestOK
<1>4. IsMailed(l.id, u.id)
  BY <1>2, <1>3 DEF MeantFor, Account, Named
<1> DEFINE next == [kind |-> "savePassword", link |-> l, user |-> u,
                    version |-> version[u.id]]
<1>5. req'[r] = next
  BY <1>2, OneGoes
<1>6. req'[r].kind = "savePassword" /\ req'[r].link = l /\ req'[r].user = u
  BY <1>5
<1>7. UNCHANGED <<users, version, mailed, links>>
  BY <1>2 DEF tables
<1>8. RequestOK(r)'
  BY <1>4, <1>6, <1>7 DEF RequestOK, IsMailed
<1>9. Goes(r, next)
  BY <1>2
<1> QED
  BY <1>7, <1>8, <1>9, OneMoves

LEMMA OwnerSendMail ==
    ASSUME TypeOK, OwnerInv, NEW r \in Requests, SendMail(r) PROVE OwnerInv'
<1>1. PICK u : u = req[r].user
  OBVIOUS
<1>2. PICK l : /\ mailed' = mailed \cup {[link |-> l, account |-> u.id]}
               /\ Goes(r, [kind |-> "saveLink",
                           link |-> [id |-> l, name |-> u.name, email |-> u.email]])
  BY <1>1 DEF SendMail
<1>3. UNCHANGED <<users, version, links>> /\ req[r].kind = "findPending"
  BY DEF SendMail
<1>4. Account(u.name, u.id) /\ u.id \in Ids
  BY <1>1, <1>3, FieldTypes DEF OwnerInv, RequestOK
<1> DEFINE link == [id |-> l, name |-> u.name, email |-> u.email]
           next == [kind |-> "saveLink", link |-> link]
<1>5. Account(u.name, u.id)' /\ IsMailed(l, u.id)'
  BY <1>2, <1>3, <1>4 DEF Account, IsMailed
<1>6. link.id = l /\ link.name = u.name
  OBVIOUS
<1>7. MeantFor(link)'
  BY <1>4, <1>5, <1>6 DEF MeantFor
<1>8. Goes(r, next) /\ mailed \subseteq mailed'
  BY <1>2
<1>9. req'[r].kind = "saveLink" /\ req'[r].link = link
  BY <1>8, OneGoes
<1>10. RequestOK(r)'
  <2> HIDE DEF link
  <2> QED
    BY <1>7, <1>9 DEF RequestOK, MeantFor
<1> QED
  BY <1>3, <1>8, <1>10, OneMoves

LEMMA OwnerSaveLink ==
    ASSUME TypeOK, OwnerInv, NEW r \in Requests, SaveLink(r) PROVE OwnerInv'
<1>1. PICK l : l = req[r].link
  OBVIOUS
<1>2. /\ links' = links \cup {l} /\ UNCHANGED <<users, version, mailed>>
      /\ Goes(r, None) /\ req[r].kind = "saveLink"
  BY <1>1 DEF SaveLink
<1>3. Kept
  BY <1>2, UsersKept
<1>4. MeantFor(l)
  BY <1>1, <1>2 DEF OwnerInv, RequestOK
<1>5. \A k \in links' : MeantFor(k)'
  BY <1>2, <1>3, <1>4, MeantForKept DEF OwnerInv
<1>6. req'[r].kind = "idle" /\ \A s \in Requests \ {r} : req'[s] = req[s]
  BY <1>2, OneGoes DEF None
<1>7. \A s \in Requests : RequestOK(s)'
  <2>1. RequestOK(r)'
    BY <1>6 DEF RequestOK
  <2> QED
    BY <1>2, <1>3, <1>6, <2>1, RequestKept
<1> QED
  BY <1>2, <1>5, <1>7 DEF OwnerInv

LEMMA OwnerSavePassword ==
    ASSUME TypeOK, OwnerInv, NEW r \in Requests, SavePassword(r) PROVE OwnerInv'
<1>1. PICK i : i = req[r].user.id
  OBVIOUS
<1>2. /\ req[r].kind = "savePassword"
      /\ version' = [version EXCEPT ![i] = @ + 1]
      /\ links' \subseteq links /\ UNCHANGED <<users, mailed>> /\ Goes(r, None)
  BY <1>1 DEF SavePassword
<1>3. Kept
  BY <1>2, UsersKept
<1>4. req'[r].kind = "idle" /\ \A s \in Requests \ {r} : req'[s] = req[s]
  BY <1>2, OneGoes DEF None
<1>5. ASSUME NEW s \in Requests \ {r} PROVE RequestOK(s)'
  <2>1. CASE req[s].kind = "saveEmail"
    <3>1. req[s].user.id \in Ids /\ req[s].version \in Nat
      BY <2>1, FieldTypes
    <3>2. /\ req[s].version <= version[req[s].user.id]
          /\ req[s].version = version[req[s].user.id] => req[s].user \in users
      BY <2>1 DEF OwnerInv, RequestOK
    <3>3. \A j \in Ids : /\ version[j] \in Nat
                         /\ version'[j] = IF j = i THEN version[j] + 1 ELSE version[j]
      BY <1>2 DEF TypeOK
    <3>4. /\ req[s].version <= version'[req[s].user.id]
          /\ req[s].version = version'[req[s].user.id] => req[s].user \in users
      BY <3>1, <3>2, <3>3
    <3> QED
      BY <1>2, <1>4, <2>1, <3>4 DEF RequestOK
  <2>2. CASE req[s].kind = "findPending"
    BY <1>3, <1>4, <2>2 DEF OwnerInv, RequestOK, Kept
  <2>3. CASE req[s].kind \in {"saveLink", "findOwner"}
    <3>1. PICK l : l = req[s].link
      OBVIOUS
    <3>2. MeantFor(l)'
      BY <1>3, <2>3, <3>1, MeantForKept DEF OwnerInv, RequestOK
    <3>3. MeantFor(req[s].link)'
      BY <1>4, <3>1, <3>2 DEF MeantFor
    <3> QED
      BY <1>4, <2>3, <3>3 DEF RequestOK
  <2>4. CASE req[s].kind = "savePassword"
    BY <1>3, <1>4, <2>4 DEF OwnerInv, RequestOK, Kept, IsMailed
  <2>5. CASE req[s].kind \notin {"saveEmail", "findPending", "saveLink", "findOwner", "savePassword"}
    BY <1>4, <2>5 DEF RequestOK
  <2> QED
    BY <2>1, <2>2, <2>3, <2>4, <2>5
<1>6. RequestOK(r)'
  BY <1>4 DEF RequestOK
<1>7. \A l \in links' : MeantFor(l)'
  BY <1>2, <1>3, MeantForKept DEF OwnerInv
<1> QED
  BY <1>2, <1>5, <1>6, <1>7 DEF OwnerInv

LEMMA OwnerStep == ASSUME TypeOK, OwnerInv, [Next]_vars PROVE OwnerInv'
<1>1. ASSUME NEW r \in Requests, NEW n \in Names, NEW e \in Emails, CheckName(r, n, e)
      PROVE  OwnerInv'
  BY <1>1, FreeMoves DEF CheckName, Receive, Goes, tables
<1>2. ASSUME NEW r \in Requests, NEW u \in users, NEW e \in Emails, LoadUser(r, u, e)
      PROVE  OwnerInv'
  <2> DEFINE next == [kind |-> "saveEmail", user |-> u, email |-> Lower[e],
                      version |-> version[u.id]]
  <2>1. Goes(r, next) /\ UNCHANGED <<users, version, mailed, links>>
    BY <1>2 DEF LoadUser, Receive, Goes, tables
  <2>2. req'[r] = next
    BY <2>1, OneGoes
  <2>3. /\ req'[r].kind = "saveEmail" /\ req'[r].user = u
        /\ req'[r].version = version[u.id]
    BY <2>2
  <2>4. version[u.id] \in Nat
    BY DEF TypeOK, User
  <2>5. RequestOK(r)'
    BY <2>1, <2>3, <2>4 DEF RequestOK
  <2> QED
    BY <2>1, <2>5, OneMoves
<1>3. ASSUME NEW r \in Requests, NEW e \in Emails, FindUser(r, e) PROVE OwnerInv'
  <2>1. PICK u \in users : Receive(r, [kind |-> "findPending", user |-> u])
    BY <1>3 DEF FindUser
  <2> DEFINE next == [kind |-> "findPending", user |-> u]
  <2>2. Goes(r, next) /\ UNCHANGED <<users, version, mailed, links>>
    BY <2>1 DEF Receive, Goes, tables
  <2>3. req'[r] = next
    BY <2>2, OneGoes
  <2>4. req'[r].kind = "findPending" /\ req'[r].user = u
    BY <2>3
  <2>5. RequestOK(r)'
    BY <2>2, <2>4 DEF RequestOK, Account
  <2> QED
    BY <2>2, <2>5, OneMoves
<1>4. ASSUME NEW r \in Requests, NEW l \in links, FindLink(r, l) PROVE OwnerInv'
  <2> DEFINE next == [kind |-> "findOwner", link |-> l]
  <2>1. Goes(r, next) /\ UNCHANGED <<users, version, mailed, links>>
    BY <1>4 DEF FindLink, Receive, Goes, tables
  <2>2. req'[r] = next
    BY <2>1, OneGoes
  <2>3. req'[r].kind = "findOwner" /\ req'[r].link = l
    BY <2>2
  <2>4. MeantFor(l)'
    BY <2>1, UsersKept, MeantForKept DEF OwnerInv
  <2>5. RequestOK(r)'
    BY <2>3, <2>4 DEF RequestOK, MeantFor
  <2> QED
    BY <2>1, <2>5, OneMoves
<1>5. ASSUME NEW r \in Requests, CheckEmail(r) PROVE OwnerInv'
  <2>1. [req[r] EXCEPT !.kind = "insertUser"].kind = "insertUser"
    BY <1>5, Found DEF CheckEmail
  <2> QED
    BY <1>5, <2>1, FreeMoves DEF CheckEmail, tables
<1>6. ASSUME NEW r \in Requests, Abort(r) PROVE OwnerInv'
  BY <1>6, FreeMoves DEF Abort, None, tables
<1>7. CASE WorkerLoads \/ WorkerSaves \/ WorkerFails \/ Tick \/ UNCHANGED vars
  BY <1>7, StillMoves DEF WorkerLoads, WorkerSaves, WorkerFails, Tick, vars, tables
<1> QED
  BY <1>1, <1>2, <1>3, <1>4, <1>5, <1>6, <1>7, OwnerInsert, OwnerSaveEmail,
     OwnerFound, OwnerSendMail, OwnerSaveLink, OwnerSavePassword DEF Next, Handles

LEMMA OwnerInvariant == Spec => []OwnerInv
<1>1. Init => OwnerInv
  BY DEF Init, OwnerInv, RequestOK, None
<1>2. TypeOK /\ OwnerInv /\ [Next]_vars => OwnerInv'
  BY OwnerStep
<1> QED
  BY <1>1, <1>2, TypeCorrect, PTL DEF Spec

LEMMA OwnAccountStep ==
    ASSUME TypeOK, OwnerInv, ResetsOwnAccount, [Next]_vars
    PROVE  ResetsOwnAccount'
<1>1. CASE changed' = changed /\ mailed \subseteq mailed'
  BY <1>1 DEF ResetsOwnAccount
<1>2. ASSUME NEW r \in Requests, SavePassword(r) PROVE ResetsOwnAccount'
  <2>1. PICK l, i : l = req[r].link.id /\ i = req[r].user.id
    OBVIOUS
  <2>2. l \in Links /\ i \in Ids /\ [link |-> l, account |-> i] \in mailed
    BY <1>2, <2>1, FieldTypes DEF SavePassword, OwnerInv, RequestOK, IsMailed
  <2>3. changed' = [changed EXCEPT ![l][i] = @ + 1] /\ mailed' = mailed
    BY <1>2, <2>1 DEF SavePassword
  <2>4. \A k \in Links, j \in Ids : changed'[k][j] = changed[k][j] \/ (k = l /\ j = i)
    BY <2>2, <2>3 DEF TypeOK
  <2> QED
    BY <2>2, <2>3, <2>4 DEF ResetsOwnAccount
<1>3. ASSUME NEW r \in Requests,
             CheckEmail(r) \/ InsertUser(r) \/ SaveEmail(r) \/ SendMail(r) \/ SaveLink(r)
               \/ FindOwner(r) \/ Abort(r)
      PROVE  changed' = changed /\ mailed \subseteq mailed'
  BY <1>3 DEF CheckEmail, InsertUser, SaveEmail, SendMail, SaveLink, FindOwner, Abort, tables
<1>4. ASSUME NEW r \in Requests, NEW found, Receive(r, found)
      PROVE  changed' = changed /\ mailed \subseteq mailed'
  BY <1>4 DEF Receive, tables
<1>5. ASSUME WorkerLoads \/ WorkerSaves \/ WorkerFails \/ Tick \/ UNCHANGED vars
      PROVE  changed' = changed /\ mailed \subseteq mailed'
  BY <1>5 DEF WorkerLoads, WorkerSaves, WorkerFails, Tick, vars, tables
<1> QED
  BY <1>1, <1>2, <1>3, <1>4, <1>5
     DEF Next, Handles, CheckName, LoadUser, FindUser, FindLink

\* The password a link changes is that of the account it was mailed to, though
\* the link carries only a name and an address (ResetPassword.cs 38-55).
THEOREM LinkResetsOwnAccount == Spec => []ResetsOwnAccount
<1>1. Init => ResetsOwnAccount
  BY DEF Init, ResetsOwnAccount
<1>2. TypeOK /\ OwnerInv /\ ResetsOwnAccount /\ [Next]_vars => ResetsOwnAccount'
  BY OwnAccountStep
<1> QED
  BY <1>1, <1>2, TypeCorrect, OwnerInvariant, PTL DEF Spec

-----------------------------------------------------------------------------
(* A link ends *)

\* The worker, when it is awake, knows every link that is past its lifetime, for
\* the clock waits for it; and a link has no age before it is in the table.
AgeInv ==
    /\ worker.awake => due = 0 /\ \A l \in links : Expired(l) => l \in worker.expired
    /\ \A l \in Links : ~Mailed(l) => age[l] = 0
    /\ \A r \in Requests : Saving(r) => age[req[r].link.id] = 0
    /\ LinksExpire

LEMMA NextPeriod ==
    ASSUME NEW n \in Nat
    PROVE  /\ Period * (n + 1) >= Period
           /\ Period * ((n + 1) + 1) = Period * (n + 1) + Period
<1>1. Period * ((n + 1) + 1) = Period * (n + 1) + Period
  OBVIOUS
<1>2. Period * (n + 1) = Period * n + Period
  OBVIOUS
<1>3. Period * n >= 0
  OBVIOUS
<1>4. Period * n \in Nat /\ Period \in Nat
  OBVIOUS
<1> QED
  BY <1>1, <1>2, <1>3, <1>4

LEMMA AgeQuiet ==
    ASSUME AgeInv, UNCHANGED <<age, worker, due, late>>, NoNewLink
    PROVE  AgeInv'
<1>1. \A l \in links' : l \in links
  BY DEF NoNewLink
<1>2. \A r \in Requests : Saving(r)' => Saving(r) /\ req'[r] = req[r]
  BY DEF NoNewLink, Saving
<1>3. \A i : Mailed(i)' <=> Mailed(i)
  BY DEF NoNewLink, Mailed
<1>4. \A l : Expired(l)' <=> Expired(l)
  BY DEF Expired
<1> QED
  BY <1>1, <1>2, <1>3, <1>4 DEF AgeInv, LinksExpire

LEMMA AgeStep == ASSUME TypeOK, LinkInv, AgeInv, [Next]_vars PROVE AgeInv'
<1>1. ASSUME NEW r \in Requests, NEW n \in Names, NEW e \in Emails, CheckName(r, n, e)
      PROVE  AgeInv'
  BY <1>1, QuietGoes, AgeQuiet DEF CheckName, Receive, Goes, tables, clock
<1>2. ASSUME NEW r \in Requests, NEW u \in users, NEW e \in Emails, LoadUser(r, u, e)
      PROVE  AgeInv'
  BY <1>2, QuietGoes, AgeQuiet DEF LoadUser, Receive, Goes, tables, clock
<1>3. ASSUME NEW r \in Requests, NEW e \in Emails, FindUser(r, e) PROVE AgeInv'
  BY <1>3, QuietGoes, AgeQuiet DEF FindUser, Receive, Goes, tables, clock
<1>4. ASSUME NEW r \in Requests, NEW l \in links, FindLink(r, l) PROVE AgeInv'
  BY <1>4, QuietGoes, AgeQuiet DEF FindLink, Receive, Goes, tables, clock
<1>5. ASSUME NEW r \in Requests, CheckEmail(r) PROVE AgeInv'
  <2>1. [req[r] EXCEPT !.kind = "insertUser"].kind = "insertUser"
    BY <1>5, Found DEF CheckEmail
  <2> QED
    BY <1>5, <2>1, QuietGoes, AgeQuiet DEF CheckEmail, tables, clock
<1>6. ASSUME NEW r \in Requests, InsertUser(r) \/ SaveEmail(r) \/ Abort(r) PROVE AgeInv'
  BY <1>6, QuietGoes, AgeQuiet DEF InsertUser, SaveEmail, Abort, None, tables, clock
<1>7. ASSUME NEW r \in Requests, FindOwner(r) PROVE AgeInv'
  BY <1>7, QuietGoes, AgeQuiet DEF FindOwner, tables, clock
<1>8. ASSUME NEW r \in Requests, SavePassword(r) PROVE AgeInv'
  <2>1. /\ links' \subseteq links /\ mailed' = mailed
        /\ UNCHANGED <<age, worker, due, late>>
    BY <1>8 DEF SavePassword, clock
  <2>2. \A s \in Requests : Saving(s)' => Saving(s) /\ req'[s] = req[s]
    BY <1>8, OneGoes DEF SavePassword, Saving, None
  <2>3. \A i : Mailed(i)' <=> Mailed(i)
    BY <2>1 DEF Mailed
  <2>4. \A l : Expired(l)' <=> Expired(l)
    BY <2>1 DEF Expired
  <2> QED
    BY <2>1, <2>2, <2>3, <2>4 DEF AgeInv, LinksExpire
<1>9. ASSUME NEW r \in Requests, SendMail(r) PROVE AgeInv'
  <2>1. PICK l \in Fresh :
          /\ mailed' = mailed \cup {[link |-> l, account |-> req[r].user.id]}
          /\ Goes(r, [kind |-> "saveLink",
                      link |-> [id |-> l, name |-> req[r].user.name,
                                email |-> req[r].user.email]])
    BY <1>9 DEF SendMail
  <2>2. age[l] = 0
    BY <2>1 DEF AgeInv, Fresh, Mailed
  <2>3. links' = links /\ UNCHANGED <<age, worker, due, late>>
    BY <1>9 DEF SendMail, clock
  <2>4. /\ req'[r].kind = "saveLink" /\ req'[r].link.id = l
        /\ \A s \in Requests \ {r} : req'[s] = req[s]
    BY <2>1, OneGoes
  <2>5. \A s \in Requests : Saving(s)' => age'[req'[s].link.id] = 0
    BY <2>2, <2>3, <2>4 DEF Saving, AgeInv
  <2>6. \A i : Mailed(i) => Mailed(i)'
    BY <2>1 DEF Mailed
  <2>7. \A k : Expired(k)' <=> Expired(k)
    BY <2>3 DEF Expired
  <2> QED
    BY <2>3, <2>5, <2>6, <2>7 DEF AgeInv, LinksExpire
<1>10. ASSUME NEW r \in Requests, SaveLink(r) PROVE AgeInv'
  <2>1. PICK l : l = req[r].link
    OBVIOUS
  <2>2. /\ links' = links \cup {l} /\ mailed' = mailed
        /\ UNCHANGED <<age, worker, due, late>>
    BY <1>10, <2>1 DEF SaveLink, clock
  <2>3. age[l.id] = 0
    BY <1>10, <2>1 DEF SaveLink, AgeInv, Saving
  <2>4. \A s \in Requests : Saving(s)' => Saving(s) /\ req'[s] = req[s]
    BY <1>10, OneGoes DEF SaveLink, Saving, None
  <2>5. \A i : Mailed(i)' <=> Mailed(i)
    BY <2>2 DEF Mailed
  <2>6. ~Expired(l)' /\ \A k : Expired(k)' <=> Expired(k)
    BY <2>2, <2>3 DEF Expired
  <2>7. age[l.id] + due <= Lifetime + Period * (late + 1)
    <3>1. late \in Nat /\ due \in 0..Period
      BY DEF TypeOK
    <3>2. PICK n \in Nat : n = Period * (late + 1) /\ n >= Period
      BY <3>1, NextPeriod
    <3> QED
      BY <2>3, <3>1, <3>2
  <2> QED
    BY <2>2, <2>4, <2>5, <2>6, <2>7 DEF AgeInv, LinksExpire
<1>11. CASE WorkerLoads
  <2>1. /\ UNCHANGED <<links, mailed, req, age, due, late>> /\ due = 0
        /\ worker' = [awake |-> TRUE, expired |-> {l \in links : Expired(l)}]
    BY <1>11 DEF WorkerLoads, tables
  <2>2. \A k : Expired(k)' <=> Expired(k)
    BY <2>1 DEF Expired
  <2> QED
    BY <2>1, <2>2 DEF AgeInv, LinksExpire, Saving, Mailed
<1>12. CASE WorkerSaves
  <2>1. /\ worker.awake /\ links' = links \ worker.expired
        /\ UNCHANGED <<mailed, req, age>>
        /\ late' = 0 /\ due' = Period /\ ~worker'.awake
    BY <1>12 DEF WorkerSaves, Sleep
  <2>2. \A l \in links' : age'[l.id] <= Lifetime /\ age'[l.id] \in Nat
    BY <2>1 DEF AgeInv, Expired, TypeOK, Link
  <2>3. Period * (late' + 1) = Period
    BY <2>1
  <2>4. LinksExpire'
    BY <2>1, <2>2, <2>3 DEF LinksExpire
  <2> QED
    BY <2>1, <2>4 DEF AgeInv, Saving, Mailed
<1>13. CASE WorkerFails
  <2>1. /\ worker.awake /\ UNCHANGED <<links, mailed, req, age>>
        /\ late' = late + 1 /\ due' = Period /\ ~worker'.awake
    BY <1>13 DEF WorkerFails, Sleep, tables
  <2>2. late \in Nat /\ due = 0
    BY <2>1 DEF AgeInv, TypeOK
  <2>3. Period * (late' + 1) = Period * (late + 1) + Period
    BY <2>1, <2>2, NextPeriod
  <2>4. PICK n \in Nat : n = Period * (late + 1)
    BY <2>2, NextPeriod
  <2>5. \A l \in links' : age'[l.id] \in Nat /\ age'[l.id] <= Lifetime + n
    BY <2>1, <2>2, <2>4 DEF AgeInv, LinksExpire, TypeOK, Link
  <2>6. LinksExpire'
    BY <2>1, <2>3, <2>4, <2>5 DEF LinksExpire
  <2> QED
    BY <2>1, <2>6 DEF AgeInv, Saving, Mailed
<1>14. CASE Tick
  <2>1. /\ ~worker.awake /\ due > 0 /\ due' = due - 1
        /\ UNCHANGED <<links, mailed, req, worker, late>>
        /\ \A r \in Requests : req[r] = None
        /\ age' = [l \in Links |-> IF Works(l) THEN age[l] + 1 ELSE age[l]]
    BY <1>14 DEF Tick, tables
  <2>2. \A l \in Links : ~Mailed(l) => ~Works(l)
    BY DEF LinkInv, Works
  <2>3. \A l \in links : l.id \in Links /\ age'[l.id] = age[l.id] + 1 /\ age[l.id] \in Nat
    BY <2>1 DEF Works, TypeOK, Link
  <2>4. due \in Nat
    BY DEF TypeOK
  <2>5. LinksExpire'
    <3>1. PICK n : n = Lifetime + Period * (late + 1)
      OBVIOUS
    <3>2. \A l \in links : age[l.id] + due <= n
      BY <3>1 DEF AgeInv, LinksExpire
    <3>3. \A l \in links : age'[l.id] + due' = age[l.id] + due
      BY <2>1, <2>3, <2>4
    <3> QED
      BY <2>1, <3>1, <3>2, <3>3 DEF LinksExpire
  <2>6. \A r \in Requests : ~Saving(r)'
    BY <2>1 DEF Saving, None
  <2>7. \A l \in Links : ~Mailed(l)' => age'[l] = 0
    BY <2>1, <2>2 DEF AgeInv, Mailed
  <2> QED
    BY <2>1, <2>5, <2>6, <2>7 DEF AgeInv
<1>15. CASE UNCHANGED vars
  BY <1>15, AgeQuiet DEF vars, NoNewLink
<1> QED
  BY <1>1, <1>2, <1>3, <1>4, <1>5, <1>6, <1>7, <1>8, <1>9, <1>10, <1>11, <1>12,
     <1>13, <1>14, <1>15 DEF Next, Handles

\* A link that still works is no older than its lifetime, an hour for the timer,
\* and one for each clean-up in a row that failed (ResetPasswordWorker.cs 30-49).
THEOREM LinkExpires == Spec => []LinksExpire
<1>1. Init => AgeInv
  BY DEF Init, AgeInv, Mailed, Saving, None, LinksExpire
<1>2. TypeOK /\ LinkInv /\ AgeInv /\ [Next]_vars => AgeInv'
  BY AgeStep
<1>3. AgeInv => LinksExpire
  BY DEF AgeInv
<1> QED
  BY <1>1, <1>2, <1>3, TypeCorrect, LinkInvariant, PTL DEF Spec

-----------------------------------------------------------------------------
(* How many rows of a kind a look-up without a unique index lets in.  The     *)
(* rows there are and the requests that looked when there were none are       *)
(* together never more than the requests.                                     *)

\* The requests that may still insert a user of the name, a link for the address.
Naming(n) == {r \in Requests : /\ req[r].kind \in {"checkEmail", "insertUser"}
                               /\ req[r].name = n}
Linking(e) == {r \in Requests : req[r].kind = "saveLink" /\ req[r].link.email = e}

Bounded(rows, askers) ==
    IsFiniteSet(rows) /\ Cardinality(rows) + Cardinality(askers) <= Cardinality(Requests)

\* A row more for an asker less, a row in the place of another, no row at all,
\* or nothing new.
Moves(rows, newRows, askers, newAskers) ==
    \/ newRows = {}
    \/ newRows \subseteq rows /\ newAskers \subseteq askers
    \/ \E x : newRows \subseteq rows \cup {x} /\ \E r \in askers : newAskers \subseteq askers \ {r}
    \/ /\ newAskers \subseteq askers
       /\ \E x \in rows : \E y : newRows \subseteq (rows \ {x}) \cup {y}

KindInv == /\ \A n \in Names : Bounded(Named(n), Naming(n))
           /\ \A e \in Emails : Bounded(Pending(e), Linking(e))

LEMMA Counting ==
    ASSUME NEW S, NEW T, NEW B \in SUBSET Requests, NEW C \in SUBSET Requests,
           Bounded(S, B), Moves(S, T, B, C)
    PROVE  Bounded(T, C)
<1>1. /\ IsFiniteSet(S) /\ Cardinality(S) \in Nat
      /\ IsFiniteSet(B) /\ Cardinality(B) \in Nat
      /\ IsFiniteSet(C) /\ Cardinality(C) \in Nat /\ Cardinality(C) <= Cardinality(Requests)
      /\ Cardinality(Requests) \in Nat
  BY FS_Subset, FS_CardinalityType DEF Bounded
<1>2. CASE T = {}
  <2>1. IsFiniteSet(T) /\ Cardinality(T) = 0
    BY <1>2, FS_EmptySet
  <2> QED
    BY <1>1, <2>1 DEF Bounded
<1>3. CASE T \subseteq S /\ C \subseteq B
  <2>1. IsFiniteSet(T) /\ Cardinality(T) <= Cardinality(S)
    BY <1>1, <1>3, FS_Subset
  <2>2. Cardinality(C) <= Cardinality(B) /\ Cardinality(T) \in Nat
    BY <1>1, <1>3, <2>1, FS_Subset, FS_CardinalityType
  <2> QED
    BY <1>1, <2>1, <2>2 DEF Bounded
<1>4. CASE \E x : T \subseteq S \cup {x} /\ \E r \in B : C \subseteq B \ {r}
  <2>1. PICK x : T \subseteq S \cup {x} /\ \E r \in B : C \subseteq B \ {r}
    BY <1>4
  <2>2. PICK r \in B : C \subseteq B \ {r}
    BY <2>1
  <2>3. /\ IsFiniteSet(S \cup {x}) /\ Cardinality(S \cup {x}) \in Nat
        /\ Cardinality(S \cup {x}) <= Cardinality(S) + 1
    <3>1. /\ IsFiniteSet(S \cup {x})
          /\ Cardinality(S \cup {x}) = IF x \in S THEN Cardinality(S) ELSE Cardinality(S) + 1
      BY <1>1, FS_AddElement
    <3> QED
      BY <1>1, <3>1
  <2>4. IsFiniteSet(B \ {r}) /\ Cardinality(B \ {r}) = Cardinality(B) - 1
    BY <1>1, FS_RemoveElement
  <2>5. IsFiniteSet(T) /\ Cardinality(T) <= Cardinality(S \cup {x})
    BY <2>1, <2>3, FS_Subset
  <2>6. Cardinality(C) <= Cardinality(B \ {r})
    BY <2>2, <2>4, FS_Subset
  <2>7. Cardinality(T) \in Nat
    BY <2>5, FS_CardinalityType
  <2> QED
    BY <1>1, <2>3, <2>4, <2>5, <2>6, <2>7 DEF Bounded
<1>5. CASE C \subseteq B /\ \E x \in S : \E y : T \subseteq (S \ {x}) \cup {y}
  <2>1. PICK x \in S : \E y : T \subseteq (S \ {x}) \cup {y}
    BY <1>5
  <2>6. PICK y : T \subseteq (S \ {x}) \cup {y}
    BY <2>1
  <2>2. IsFiniteSet(S \ {x}) /\ Cardinality(S \ {x}) = Cardinality(S) - 1
    BY <1>1, FS_RemoveElement
  <2>3. /\ IsFiniteSet((S \ {x}) \cup {y})
        /\ Cardinality((S \ {x}) \cup {y}) <= Cardinality(S)
    <3>1. /\ IsFiniteSet((S \ {x}) \cup {y})
          /\ Cardinality((S \ {x}) \cup {y})
               = IF y \in S \ {x} THEN Cardinality(S \ {x}) ELSE Cardinality(S \ {x}) + 1
      BY <2>2, FS_AddElement
    <3> QED
      BY <1>1, <2>2, <3>1
  <2>4. IsFiniteSet(T) /\ Cardinality(T) <= Cardinality((S \ {x}) \cup {y})
    BY <2>3, <2>6, FS_Subset
  <2>5. /\ Cardinality(C) <= Cardinality(B) /\ Cardinality(T) \in Nat
        /\ Cardinality((S \ {x}) \cup {y}) \in Nat
    BY <1>1, <1>5, <2>3, <2>4, FS_Subset, FS_CardinalityType
  <2> QED
    BY <1>1, <2>3, <2>4, <2>5 DEF Bounded
<1> QED
  BY <1>2, <1>3, <1>4, <1>5 DEF Moves

LEMMA KindStays ==
    ASSUME KindInv,
           \A n \in Names : Moves(Named(n), Named(n)', Naming(n), Naming(n)'),
           \A e \in Emails : Moves(Pending(e), Pending(e)', Linking(e), Linking(e)')
    PROVE  KindInv'
<1>1. ASSUME NEW n \in Names PROVE Bounded(Named(n), Naming(n))'
  <2>1. Naming(n) \in SUBSET Requests /\ Naming(n)' \in SUBSET Requests
    BY DEF Naming
  <2>2. Bounded(Named(n), Naming(n)) /\ Moves(Named(n), Named(n)', Naming(n), Naming(n)')
    BY DEF KindInv
  <2>3. Bounded(Named(n)', Naming(n)')
    BY <2>1, <2>2, Counting
  <2> QED
    BY <2>3 DEF Bounded
<1>2. ASSUME NEW e \in Emails PROVE Bounded(Pending(e), Linking(e))'
  <2>1. Linking(e) \in SUBSET Requests /\ Linking(e)' \in SUBSET Requests
    BY DEF Linking
  <2>2. Bounded(Pending(e), Linking(e)) /\ Moves(Pending(e), Pending(e)', Linking(e), Linking(e)')
    BY DEF KindInv
  <2>3. Bounded(Pending(e)', Linking(e)')
    BY <2>1, <2>2, Counting
  <2> QED
    BY <2>3 DEF Bounded
<1> QED
  BY <1>1, <1>2 DEF KindInv

\* A request that goes on to neither insert is an asker less, or none anyway.
LEMMA NamingQuiet ==
    ASSUME TypeOK, NEW r \in Requests, NEW next, Goes(r, next),
           next.kind \notin {"checkEmail", "insertUser"}, NEW n
    PROVE  Naming(n)' \subseteq Naming(n) \ {r}
BY OneGoes DEF Naming

LEMMA LinkingQuiet ==
    ASSUME TypeOK, NEW r \in Requests, NEW next, Goes(r, next),
           next.kind # "saveLink", NEW e
    PROVE  Linking(e)' \subseteq Linking(e) \ {r}
BY OneGoes DEF Linking

LEMMA KindQuiet ==
    ASSUME TypeOK, KindInv, NEW r \in Requests, NEW next, Goes(r, next),
           next.kind \notin {"checkEmail", "insertUser", "saveLink"},
           users' = users, links' \subseteq links
    PROVE  KindInv'
<1>1. ASSUME NEW n \in Names PROVE Moves(Named(n), Named(n)', Naming(n), Naming(n)')
  BY NamingQuiet DEF Moves, Named
<1>2. ASSUME NEW e \in Emails PROVE Moves(Pending(e), Pending(e)', Linking(e), Linking(e)')
  BY LinkingQuiet DEF Moves, Pending
<1> QED
  BY <1>1, <1>2, KindStays

LEMMA KindStep ==
    ASSUME TypeOK, OwnerInv, KindInv, [Next]_vars
    PROVE  KindInv'
<1>1. ASSUME NEW r \in Requests, NEW n \in Names, NEW e \in Emails, CheckName(r, n, e)
      PROVE  KindInv'
  <2> DEFINE x == [kind |-> "checkEmail", name |-> n, email |-> e]
  <2>1. Named(n) = {} /\ Goes(r, x) /\ users' = users /\ links' = links
    BY <1>1 DEF CheckName, Receive, Goes, tables
  <2>2. ASSUME NEW m \in Names PROVE Moves(Named(m), Named(m)', Naming(m), Naming(m)')
    <3>1. CASE m = n
      BY <2>1, <3>1 DEF Moves, Named
    <3>2. CASE m # n
      <4>1. Naming(m)' \subseteq Naming(m)
        BY <2>1, <3>2, OneGoes DEF Naming
      <4> QED
        BY <2>1, <4>1 DEF Moves, Named
    <3> QED
      BY <3>1, <3>2
  <2>3. ASSUME NEW f \in Emails PROVE Moves(Pending(f), Pending(f)', Linking(f), Linking(f)')
    <3>1. x.kind # "saveLink"
      OBVIOUS
    <3> HIDE DEF x
    <3> QED
      BY <2>1, <3>1, LinkingQuiet DEF Moves, Pending
  <2> QED
    BY <2>2, <2>3, KindStays
<1>2. ASSUME NEW r \in Requests, CheckEmail(r) PROVE KindInv'
  <2> DEFINE x == [req[r] EXCEPT !.kind = "insertUser"]
  <2>1. Goes(r, x) /\ users' = users /\ links' = links /\ req[r].kind = "checkEmail"
    BY <1>2 DEF CheckEmail, tables
  <2>2. x.kind = "insertUser" /\ x.name = req[r].name
    BY <2>1, Found
  <2> HIDE DEF x
  <2>3. ASSUME NEW m \in Names PROVE Moves(Named(m), Named(m)', Naming(m), Naming(m)')
    <3>1. Naming(m)' \subseteq Naming(m)
      BY <2>1, <2>2, OneGoes DEF Naming
    <3> QED
      BY <2>1, <3>1 DEF Moves, Named
  <2>4. ASSUME NEW f \in Emails PROVE Moves(Pending(f), Pending(f)', Linking(f), Linking(f)')
    BY <2>1, <2>2, LinkingQuiet DEF Moves, Pending
  <2> QED
    BY <2>3, <2>4, KindStays
<1>3. ASSUME NEW r \in Requests, InsertUser(r) PROVE KindInv'
  <2>1. PICK i : users' = users \cup {[id |-> i, name |-> req[r].name, email |-> req[r].email]}
    BY <1>3 DEF InsertUser
  <2>2. PICK u : u = [id |-> i, name |-> req[r].name, email |-> req[r].email]
    OBVIOUS
  <2>3. u.name = req[r].name /\ users' = users \cup {u}
    BY <2>1, <2>2
  <2>4. Goes(r, None) /\ None.kind = "idle" /\ links' = links /\ req[r].kind = "insertUser"
    BY <1>3 DEF InsertUser, None
  <2>5. ASSUME NEW m \in Names PROVE Moves(Named(m), Named(m)', Naming(m), Naming(m)')
    <3>1. Naming(m)' \subseteq Naming(m) \ {r}
      BY <2>4, NamingQuiet
    <3>2. CASE req[r].name = m
      <4>1. r \in Naming(m) /\ Named(m)' \subseteq Named(m) \cup {u}
        BY <2>3, <2>4, <3>2 DEF Naming, Named
      <4> QED
        BY <3>1, <4>1 DEF Moves
    <3>3. CASE req[r].name # m
      BY <2>3, <3>1, <3>3 DEF Moves, Named
    <3> QED
      BY <3>2, <3>3
  <2>6. ASSUME NEW f \in Emails PROVE Moves(Pending(f), Pending(f)', Linking(f), Linking(f)')
    BY <2>4, LinkingQuiet DEF Moves, Pending
  <2> QED
    BY <2>5, <2>6, KindStays
<1>4. ASSUME NEW r \in Requests, SaveEmail(r) PROVE KindInv'
  <2>1. PICK u : u = req[r].user
    OBVIOUS
  <2>2. u \in users /\ u \in User
    BY <1>4, <2>1 DEF SaveEmail, OwnerInv, RequestOK, TypeOK
  <2>3. PICK w : w = [u EXCEPT !.email = req[r].email]
    OBVIOUS
  <2>4. w.name = u.name /\ users' = (users \ {u}) \cup {w}
    BY <1>4, <2>1, <2>2, <2>3 DEF SaveEmail, User
  <2>5. Goes(r, None) /\ None.kind = "idle" /\ links' = links
    BY <1>4 DEF SaveEmail, None
  <2>6. ASSUME NEW m \in Names PROVE Moves(Named(m), Named(m)', Naming(m), Naming(m)')
    <3>1. Naming(m)' \subseteq Naming(m)
      BY <2>5, NamingQuiet
    <3>2. CASE u.name = m
      <4>1. u \in Named(m) /\ Named(m)' \subseteq (Named(m) \ {u}) \cup {w}
        BY <2>2, <2>4, <3>2 DEF Named
      <4> QED
        BY <3>1, <4>1 DEF Moves
    <3>3. CASE u.name # m
      BY <2>4, <3>1, <3>3 DEF Moves, Named
    <3> QED
      BY <3>2, <3>3
  <2>7. ASSUME NEW f \in Emails PROVE Moves(Pending(f), Pending(f)', Linking(f), Linking(f)')
    BY <2>5, LinkingQuiet DEF Moves, Pending
  <2> QED
    BY <2>6, <2>7, KindStays
<1>5. ASSUME NEW r \in Requests, SendMail(r) PROVE KindInv'
  <2>1. PICK u, l : u = req[r].user /\ l = CHOOSE i \in Fresh : TRUE
    OBVIOUS
  <2>2. PICK x : x = [kind |-> "saveLink", link |-> [id |-> l, name |-> u.name, email |-> u.email]]
    OBVIOUS
  <2>3. x.kind = "saveLink" /\ x.link.email = u.email
    BY <2>2
  <2>4. Goes(r, x) /\ users' = users /\ links' = links /\ Pending(u.email) = {}
    BY <1>5, <2>1, <2>2 DEF SendMail
  <2>5. ASSUME NEW m \in Names PROVE Moves(Named(m), Named(m)', Naming(m), Naming(m)')
    BY <2>3, <2>4, NamingQuiet DEF Moves, Named
  <2>6. ASSUME NEW f \in Emails PROVE Moves(Pending(f), Pending(f)', Linking(f), Linking(f)')
    <3>1. CASE f = u.email
      BY <2>4, <3>1 DEF Moves, Pending
    <3>2. CASE f # u.email
      <4>1. Linking(f)' \subseteq Linking(f)
        BY <2>3, <2>4, <3>2, OneGoes DEF Linking
      <4> QED
        BY <2>4, <4>1 DEF Moves, Pending
    <3> QED
      BY <3>1, <3>2
  <2> QED
    BY <2>5, <2>6, KindStays
<1>6. ASSUME NEW r \in Requests, SaveLink(r) PROVE KindInv'
  <2>1. PICK l : l = req[r].link
    OBVIOUS
  <2>2. /\ Goes(r, None) /\ None.kind = "idle" /\ req[r].kind = "saveLink"
        /\ links' = links \cup {l} /\ users' = users
    BY <1>6, <2>1 DEF SaveLink, None
  <2>3. ASSUME NEW m \in Names PROVE Moves(Named(m), Named(m)', Naming(m), Naming(m)')
    BY <2>2, NamingQuiet DEF Moves, Named
  <2>4. ASSUME NEW f \in Emails PROVE Moves(Pending(f), Pending(f)', Linking(f), Linking(f)')
    <3>1. Linking(f)' \subseteq Linking(f) \ {r}
      BY <2>2, LinkingQuiet
    <3>2. CASE l.email = f
      <4>1. r \in Linking(f) /\ Pending(f)' \subseteq Pending(f) \cup {l}
        BY <2>1, <2>2, <3>2 DEF Linking, Pending
      <4> QED
        BY <3>1, <4>1 DEF Moves
    <3>3. CASE l.email # f
      BY <2>2, <3>1, <3>3 DEF Moves, Pending
    <3> QED
      BY <3>2, <3>3
  <2> QED
    BY <2>3, <2>4, KindStays
<1>7. ASSUME NEW r \in Requests, FindOwner(r) \/ SavePassword(r) \/ Abort(r) PROVE KindInv'
  <2>1. PICK next : Goes(r, next) /\ next.kind \notin {"checkEmail", "insertUser", "saveLink"}
    <3>1. CASE FindOwner(r)
      <4>1. PICK u \in users :
              Goes(r, [kind |-> "savePassword", link |-> req[r].link, user |-> u,
                       version |-> version[u.id]])
        BY <3>1 DEF FindOwner
      <4>2. [kind |-> "savePassword", link |-> req[r].link, user |-> u,
             version |-> version[u.id]].kind = "savePassword"
        OBVIOUS
      <4> QED
        BY <4>1, <4>2
    <3>2. CASE SavePassword(r) \/ Abort(r)
      BY <3>2 DEF SavePassword, Abort, None
    <3> QED
      BY <1>7, <3>1, <3>2
  <2>2. users' = users /\ links' \subseteq links
    BY <1>7 DEF FindOwner, SavePassword, Abort, tables
  <2> QED
    BY <2>1, <2>2, KindQuiet
<1>8. ASSUME NEW r \in Requests, NEW u, NEW e, LoadUser(r, u, e) PROVE KindInv'
  BY <1>8, KindQuiet DEF LoadUser, Receive, Goes, tables
<1>9. ASSUME NEW r \in Requests, NEW e, FindUser(r, e) PROVE KindInv'
  BY <1>9, KindQuiet DEF FindUser, Receive, Goes, tables
<1>10. ASSUME NEW r \in Requests, NEW l, FindLink(r, l) PROVE KindInv'
  BY <1>10, KindQuiet DEF FindLink, Receive, Goes, tables
<1>11. CASE WorkerLoads \/ WorkerSaves \/ WorkerFails \/ Tick \/ UNCHANGED vars
  <2>1. req' = req /\ users' = users /\ links' \subseteq links
    BY <1>11 DEF WorkerLoads, WorkerSaves, WorkerFails, Tick, vars, tables
  <2>2. \A n \in Names : Moves(Named(n), Named(n)', Naming(n), Naming(n)')
    BY <2>1 DEF Moves, Named, Naming
  <2>3. \A e \in Emails : Moves(Pending(e), Pending(e)', Linking(e), Linking(e)')
    BY <2>1 DEF Moves, Pending, Linking
  <2> QED
    BY <2>2, <2>3, KindStays
<1> QED
  BY <1>1, <1>2, <1>3, <1>4, <1>5, <1>6, <1>7, <1>8, <1>9, <1>10, <1>11 DEF Next, Handles

\* A name, and an address with a pending reset, is there at most once per request
\* that can look at the same time, since nothing but the look-up keeps it unique
\* (CreateNewUserCommandValidator.cs 14-58, InitiatePasswordReset.cs 47-54).
THEOREM FewOfAName == Spec => []FewOfAKind
<1>1. Init => KindInv
  <2> SUFFICES ASSUME Init PROVE KindInv
    OBVIOUS
  <2>1. Cardinality(Requests) \in Nat /\ Cardinality(Requests) # 0
    BY FS_CardinalityType, FS_EmptySet
  <2>2. \A r \in Requests : req[r].kind = "idle"
    BY DEF Init, None
  <2>3. ASSUME NEW n \in Names PROVE Bounded(Named(n), Naming(n))
    <3>1. Naming(n) = {} /\ Cardinality({}) = 0
      BY <2>2, FS_EmptySet DEF Naming
    <3>2. Named(n) = {} \/ \E u \in Registered : Named(n) = {u}
      BY DEF Init, Named
    <3>3. CASE Named(n) = {}
      BY <2>1, <3>1, <3>3, FS_EmptySet DEF Bounded
    <3>4. ASSUME NEW u, Named(n) = {u} PROVE Bounded(Named(n), Naming(n))
      <4>1. IsFiniteSet({u}) /\ Cardinality({u}) = 1
        BY FS_Singleton
      <4> QED
        BY <2>1, <3>1, <3>4, <4>1 DEF Bounded
    <3> QED
      BY <3>2, <3>3, <3>4
  <2>4. ASSUME NEW e \in Emails PROVE Bounded(Pending(e), Linking(e))
    <3>1. Linking(e) = {} /\ Pending(e) = {}
      BY <2>2 DEF Linking, Pending, Init
    <3> QED
      BY <2>1, <3>1, FS_EmptySet DEF Bounded
  <2> QED
    BY <2>3, <2>4 DEF KindInv
<1>2. TypeOK /\ OwnerInv /\ KindInv /\ [Next]_vars => KindInv'
  BY KindStep
<1>3. KindInv => FewOfAKind
  <2>1. ASSUME NEW S, NEW B \in SUBSET Requests, Bounded(S, B)
        PROVE  Cardinality(S) <= Cardinality(Requests)
    <3>1. IsFiniteSet(B)
      BY FS_Subset
    <3>2. Cardinality(S) \in Nat /\ Cardinality(B) \in Nat /\ Cardinality(Requests) \in Nat
      BY <2>1, <3>1, FS_CardinalityType DEF Bounded
    <3> QED
      BY <2>1, <3>2 DEF Bounded
  <2>2. \A n : Naming(n) \in SUBSET Requests /\ Linking(n) \in SUBSET Requests
    BY DEF Naming, Linking
  <2> QED
    BY <2>1, <2>2 DEF KindInv, FewOfAKind
<1> QED
  BY <1>1, <1>2, <1>3, TypeCorrect, OwnerInvariant, PTL DEF Spec
=============================================================================
