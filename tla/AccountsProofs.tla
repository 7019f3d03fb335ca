--------------------------- MODULE AccountsProofs ---------------------------
(***************************************************************************)
(* Theorems about module Accounts, for any identities, addresses and       *)
(* tokens, and any number of requests and administrators at once.          *)
(***************************************************************************)
EXTENDS Accounts, TLAPS

-----------------------------------------------------------------------------
(* The inductive invariant *)

LoginStages == {"free", "refused", "bySub", "byEmail", "upsert", "backfill", "principal",
                "reconcile", "in"}

LoginRecords ==
  [stage : LoginStages, token : Tokens \union {<< None, None >>},
   user : Ids \union {None}, email : Emails \union {None}]

Tables ==
  /\ users \subseteq Ids
  /\ disabled \subseteq users /\ deleted \subseteq users /\ principals \subseteq users
  /\ email \in [Ids -> Emails \union {None}]
  /\ sub \in [Ids -> Subs \union {None}]
  /\ audit \in [Ids -> Seq({"disable", "enable", "delete"})]
  /\ admin \in [Admins -> [op : {"none", "disable", "enable", "delete"}, user : Ids \union {None}]]
  /\ \A a \in Admins : admin[a] = NoCall \/ admin[a].user \in users

\* The unique indexes; a row has an address from the start and no identity before.
Indexes ==
  /\ \A u \in users : email[u] # None
  /\ \A u \in Ids \ users : sub[u] = None
  /\ \A u, v \in users : email[u] = email[v] \/ (sub[u] = sub[v] /\ sub[u] # None) => u = v

\* An identity whose addresses no other claims, and the addresses that an identity claims.
Sole(s) == s \in Subs /\ ~Disputed(s)

Claims(s) == { e \in Emails : << s, e >> \in Tokens }

\* A row that is not deleted has an address of its identity, and an address that one
\* identity alone claims is on a row of that identity or of none; as far as identities go
\* whose addresses no other claims.
Owned ==
  \A s : Sole(s) =>
    \A u \in users \ deleted :
      /\ sub[u] = s => email[u] \in Claims(s)
      /\ email[u] \in Claims(s) => sub[u] \in {None, s}

\* An identity is replaced only where two claim the same address: neither the one that the
\* row had nor the one that it has is alone.
Replaced ==
  \A p \in overwritten :
    /\ p \in users \X Subs
    /\ p[1] \in deleted \/ (~Sole(p[2]) /\ sub[p[1]] # None /\ ~Sole(sub[p[1]]))

Rows == Indexes /\ Owned /\ Replaced

Shape ==
  /\ login \in [Clients -> LoginRecords]
  /\ wasLive \in [Clients -> SUBSET users]

\* A request has a token, an address to look for where it needs one, and a row from
\* the moment that it has found one; while it is under way it sees who is live.
Equipped(c) ==
  LET h == login[c]
  IN  /\ h.stage # "free" => h.token \in Tokens
      /\ h.stage \in {"byEmail", "upsert", "backfill", "reconcile"} => h.token[2] # None
      /\ h.stage \in {"backfill", "principal", "reconcile", "in"} => h.user \in users
      /\ h.user \in users \union {None}
      /\ h.stage \notin {"free", "refused", "in"} => Live \subseteq wasLive[c]

\* The row found by address has one that belongs to the token's identity, if it is not
\* deleted and if the address has one owner; and it was not deleted when it was found: if
\* it was not live then, it was disabled and is so for good once it is deleted.
Found(c) ==
  LET h == login[c]
  IN  h.stage = "backfill" =>
        /\ h.user \notin deleted =>
             \A s : Sole(s) => (email[h.user] \in Claims(s) <=> h.token[1] = s)
        /\ h.user \in deleted => h.user \in wasLive[c] \union disabled

\* Row u has identity s, or had it until another replaced it.
Bore(u, s) == sub[u] = s \/ << u, s >> \in overwritten

\* Who has been let in was live, and bears the token's identity until it is deleted.
LetIn(c) ==
  Admitted(c) =>
    /\ login[c].user \in wasLive[c]
    /\ login[c].user \in deleted \/ Bore(login[c].user, login[c].token[1])

LoginInv(c) == Equipped(c) /\ Found(c) /\ LetIn(c)

LoginsInv == \A c \in Clients : LoginInv(c)

Inv == Tables /\ Rows /\ Shape /\ LoginsInv

-----------------------------------------------------------------------------
(* What a step does to the requests *)

\* A token is an identity and an address.
LEMMA TokenParts ==
  \A t \in Tokens : /\ t = << t[1], t[2] >> /\ t[1] \in Subs /\ t[1] # None
                    /\ t[2] \in Emails \union {None}
<1>1. \A t \in Subs \X (Emails \union {None}) :
        t = << t[1], t[2] >> /\ t[1] \in Subs /\ t[2] \in Emails \union {None}
  OBVIOUS
<1> QED
  BY <1>1, AccountsAssumption

\* The address in a token is one that an identity alone claims, if the token is of that
\* identity, and only then.
LEMMA SoleClaims ==
  ASSUME NEW s, Sole(s), NEW t \in Tokens, t[2] # None
  PROVE  t[2] \in Claims(s) <=> t[1] = s
<1>1. t = << t[1], t[2] >> /\ t[1] \in Subs /\ t[2] \in Emails
  BY TokenParts
<1>2. ASSUME << s, t[2] >> \in Tokens, t[1] # s PROVE FALSE
  <2>1. {<< s, t[2] >>, << t[1], t[2] >>} \subseteq Tokens
    BY <1>1, <1>2
  <2> QED
    BY <1>1, <1>2, <2>1 DEF Sole, Disputed
<1> QED
  BY <1>1, <1>2 DEF Claims

\* What is added to the history of replaced identities.
LEMMA Overwrites ==
  ASSUME Observe
  PROVE  /\ overwritten \subseteq overwritten'
         /\ \A p \in overwritten' \ overwritten :
              \E v \in users : p = << v, sub[v] >> /\ sub[v] # None /\ sub'[v] \notin {None, sub[v]}
         /\ \A v \in users : sub[v] # None /\ sub'[v] # None =>
              sub'[v] = sub[v] \/ << v, sub[v] >> \in overwritten'
         /\ (\A v \in users : sub'[v] \in {None, sub[v]}) => overwritten' = overwritten
<1> DEFINE V == { v \in users : sub[v] # None /\ sub'[v] \notin {None, sub[v]} }
<1>1. overwritten' = overwritten \union { << v, sub[v] >> : v \in V }
  BY DEF Observe
<1>2. \A v \in V : << v, sub[v] >> \in overwritten'
  BY <1>1
<1>3. \A p \in overwritten' \ overwritten : \E v \in V : p = << v, sub[v] >>
  BY <1>1
<1>4. (\A v \in users : sub'[v] \in {None, sub[v]}) => V = {}
  OBVIOUS
<1> QED
  BY <1>1, <1>2, <1>3, <1>4

\* Observe adds who is live to what a request under way has seen.
LEMMA Observed ==
  ASSUME Shape, Observe, users \subseteq users', deleted' \subseteq users', NEW c \in Clients
  PROVE  /\ wasLive'[c] \in SUBSET users'
         /\ login'[c].stage \notin {"free", "refused", "in"} => Live' \subseteq wasLive'[c]
         /\ login'[c].stage # "bySub" \/ login[c].stage = "bySub" => wasLive[c] \subseteq wasLive'[c]
<1>1. Live' \subseteq users' /\ wasLive[c] \subseteq users'
  BY DEF Live, Shape
<1>2. wasLive'[c] = IF login'[c].stage \in {"free", "refused", "in"} THEN wasLive[c]
                    ELSE IF login'[c].stage = "bySub" /\ login[c].stage # "bySub" THEN Live'
                    ELSE wasLive[c] \union Live'
  BY DEF Observe
<1> QED
  BY <1>1, <1>2

\* What every step does to the rows: none goes, a deletion is for good and finds the
\* account as it was, and a row that is not deleted keeps its identity, or it is noted
\* which one was replaced, and an address of the same owner, if that has one.
Gentle ==
  /\ users \subseteq users' /\ deleted \subseteq deleted' /\ deleted' \subseteq users
  /\ deleted' \intersect disabled \subseteq disabled'
  /\ overwritten \subseteq overwritten'
  /\ \A u \in users \ deleted' :
       /\ \A s : Sole(s) => (email'[u] \in Claims(s) <=> email[u] \in Claims(s))
       /\ sub[u] # None => sub'[u] = sub[u] \/ << u, sub[u] >> \in overwritten'

LEMMA Bystander ==
  ASSUME Shape, Observe, Gentle, NEW c \in Clients, LoginInv(c), login'[c] = login[c]
  PROVE  LoginInv(c)'
<1> DEFINE h == login[c]
<1>1. /\ wasLive[c] \subseteq wasLive'[c]
      /\ login'[c].stage \notin {"free", "refused", "in"} => Live' \subseteq wasLive'[c]
  BY Observed DEF Gentle
<1>2. Equipped(c)'
  BY <1>1 DEF LoginInv, Equipped, Gentle
<1>3. ASSUME h.stage = "backfill"
      PROVE  /\ h.user \notin deleted' =>
                  \A s : Sole(s) => (email'[h.user] \in Claims(s) <=> h.token[1] = s)
             /\ h.user \in deleted' => h.user \in wasLive'[c] \union disabled'
  BY <1>1, <1>3 DEF LoginInv, Found, Equipped, Gentle, Live
<1>4. Found(c)'
  BY <1>3 DEF Found
<1>5. ASSUME Admitted(c)
      PROVE  h.user \in wasLive'[c] /\ (h.user \in deleted' \/ Bore(h.user, h.token[1])')
  <2>1. h.user \in users /\ h.token[1] # None
    BY <1>5, TokenParts DEF LoginInv, Equipped, Admitted
  <2> QED
    BY <1>1, <1>5, <2>1 DEF LoginInv, LetIn, Bore, Gentle
<1>6. LetIn(c)'
  BY <1>5 DEF LetIn, Admitted, Bore
<1> QED
  BY <1>2, <1>4, <1>6 DEF LoginInv

\* Every step is shown to keep the invariant in this form.
LEMMA Kept ==
  ASSUME Inv, Observe, Gentle, Tables', Rows',
         login' \in [Clients -> LoginRecords],
         \A c \in Clients : login'[c] = login[c] \/ LoginInv(c)'
  PROVE  Inv'
<1>1. \A c \in Clients : LoginInv(c)'
  BY Bystander DEF Inv, LoginsInv
<1>2. \A c \in Clients : wasLive'[c] \in SUBSET users'
  BY Observed DEF Inv, Gentle
<1>3. Shape'
  BY <1>2 DEF Shape, Observe
<1> QED
  BY <1>1, <1>3 DEF Inv, LoginsInv

\* A step that leaves the rows alone.
LEMMA QuietRows ==
  ASSUME Inv, Observe, UNCHANGED << users, email, sub, disabled, deleted >>
  PROVE  Gentle /\ Rows'
<1>1. overwritten' = overwritten
  BY Overwrites
<1> QED
  BY <1>1 DEF Inv, Tables, Gentle, Rows, Indexes, Owned, Replaced

LEMMA RefusedKeeps ==
  ASSUME Shape, Observe, NEW c \in Clients, Equipped(c), login[c].stage # "free",
         login'[c] = Refused(c)
  PROVE  Refused(c) \in LoginRecords /\ LoginInv(c)'
<1>1. login[c] \in LoginRecords
  BY DEF Shape
<1>2. /\ Refused(c) \in LoginRecords /\ Refused(c).stage = "refused"
      /\ Refused(c).user = None /\ Refused(c).token = login[c].token
  BY <1>1 DEF Refused, LoginRecords, LoginStages
<1> QED
  BY <1>2 DEF LoginInv, Equipped, Found, LetIn, Admitted

\* The gate on disabledAt: a row that was live, or is disabled by now.
LEMMA ResolvedKeeps ==
  ASSUME Inv, Observe, NEW c \in Clients, login[c].stage \in {"bySub", "backfill"},
         UNCHANGED << users, email, disabled, deleted >>, NEW u \in users,
         u \in deleted => u \in wasLive[c] \union disabled,
         u \in deleted \/ sub'[u] = login[c].token[1],
         login'[c] = Resolved(c, u)
  PROVE  Resolved(c, u) \in LoginRecords /\ LoginInv(c)'
<1>1. login[c] \in LoginRecords /\ Equipped(c) /\ LoginInv(c)
  BY DEF Inv, Shape, LoginsInv, LoginInv
<1>2. CASE u \in disabled
  BY <1>1, <1>2, RefusedKeeps DEF Resolved, Inv
<1>3. CASE u \notin disabled
  <2> DEFINE h == [login[c] EXCEPT !.stage = "principal", !.user = u, !.email = email[u]]
  <2>1. email[u] \in Emails \union {None} /\ u \in Ids
    BY DEF Inv, Tables
  <2>2. /\ h \in LoginRecords /\ h.stage = "principal" /\ h.user = u
        /\ h.token = login[c].token
    BY <1>1, <2>1 DEF LoginRecords, LoginStages
  <2>3. Resolved(c, u) = h
    BY <1>3 DEF Resolved
  <2> HIDE DEF h
  <2>4. /\ wasLive[c] \subseteq wasLive'[c] /\ Live' \subseteq wasLive'[c] /\ Live' = Live
    BY <2>2, <2>3, Observed DEF Inv, Tables, Live
  <2>5. u \in wasLive'[c]
    BY <1>3, <2>4 DEF Live
  <2>6. LoginInv(c)'
    BY <1>1, <2>2, <2>3, <2>4, <2>5 DEF LoginInv, Equipped, Found, LetIn, Bore, Admitted
  <2> QED
    BY <2>2, <2>3, <2>6
<1> QED
  BY <1>2, <1>3

\* Upsert finds the row of an address or makes one.
LEMMA UpsertRows ==
  ASSUME Inv, Observe, NEW e \in Emails, NEW u \in Ids, Upsert(e, u),
         UNCHANGED << sub, disabled, deleted, audit, admin >>,
         principals' \subseteq users'
  PROVE  /\ Gentle /\ Tables' /\ Rows'
         /\ u \in users' /\ email'[u] = e
<1>1. CASE u \in RowOf(e) /\ UNCHANGED << users, email >>
  BY <1>1, QuietRows DEF Inv, Tables, RowOf
<1>2. CASE /\ RowOf(e) = {} /\ u \in Ids \ users
           /\ users' = users \union {u} /\ email' = [email EXCEPT ![u] = e]
  <2>1. /\ email' \in [Ids -> Emails \union {None}] /\ email'[u] = e
        /\ \A v \in users : email'[v] = email[v] /\ email[v] # e /\ v # u
        /\ sub[u] = None /\ e # None
    BY <1>2, AccountsAssumption DEF Inv, Tables, Rows, Indexes, RowOf
  <2>2. Tables'
    BY <1>2, <2>1 DEF Inv, Tables
  <2>3. overwritten' = overwritten
    BY Overwrites
  <2>4. Gentle
    BY <1>2, <2>1, <2>3 DEF Inv, Tables, Gentle
  <2>5. Indexes'
    BY <1>2, <2>1 DEF Inv, Rows, Indexes
  <2>6. Owned'
    <3>1. /\ Owned /\ \A v \in users' : v = u \/ v \in users
          /\ sub' = sub /\ deleted' = deleted
      BY <1>2 DEF Inv, Rows
    <3>2. \A s : Sole(s) => s # None
      BY AccountsAssumption DEF Sole
    <3>3. ASSUME NEW s, Sole(s), NEW v \in users' \ deleted'
          PROVE  /\ sub'[v] = s => email'[v] \in Claims(s)
                 /\ email'[v] \in Claims(s) => sub'[v] \in {None, s}
      <4>1. CASE v = u
        BY <2>1, <3>1, <3>2, <3>3, <4>1
      <4>2. CASE v \in users
        BY <2>1, <3>1, <3>3, <4>2 DEF Owned
      <4> QED
        BY <3>1, <3>3, <4>1, <4>2
    <3> QED
      BY <3>3 DEF Owned
  <2>7. Replaced'
    BY <1>2, <2>3 DEF Inv, Rows, Replaced
  <2> QED
    BY <1>2, <2>1, <2>2, <2>4, <2>5, <2>6, <2>7 DEF Rows
<1> QED
  BY <1>1, <1>2 DEF Upsert

-----------------------------------------------------------------------------
(* The steps *)

LEMMA ProvisionStep == ASSUME Inv, NEW e \in Emails, Provision(e) PROVE Inv'
<1>1. PICK u \in Ids : Upsert(e, u) /\ principals' = principals \union {u}
  BY DEF Provision
<1>2. principals' \subseteq users'
  BY <1>1 DEF Upsert, RowOf, Inv, Tables
<1>3. Gentle /\ Tables' /\ Rows' /\ login' = login /\ Observe
  BY <1>1, <1>2, UpsertRows DEF Provision
<1> QED
  BY <1>3, Kept DEF Inv, Shape

\* What a step of a request may count on, and what it has to show.
LEMMA RequestOf ==
  ASSUME Inv, NEW c \in Clients
  PROVE  /\ login[c] \in LoginRecords /\ Equipped(c) /\ LoginInv(c) /\ Shape
         /\ \A h : Becomes(c, h) =>
              /\ login'[c] = h /\ \A d \in Clients \ {c} : login'[d] = login[d]
              /\ h \in LoginRecords => login' \in [Clients -> LoginRecords]
              /\ UNCHANGED << disabled, deleted, audit, admin >>
BY DEF Inv, Shape, LoginsInv, LoginInv, Becomes

LEMMA BeginStep == ASSUME Inv, NEW c \in Clients, NEW t \in Tokens, Begin(c, t) PROVE Inv'
<1> DEFINE h == [Fresh EXCEPT !.stage = "bySub", !.token = t]
<1>1. h \in LoginRecords /\ h.stage = "bySub" /\ h.token = t /\ h.user = None
  BY DEF Fresh, LoginRecords, LoginStages
<1> HIDE DEF h
<1>2. /\ Becomes(c, h) /\ UNCHANGED << users, email, sub, principals >> /\ Observe
  BY DEF Begin, h
<1>3. /\ login'[c] = h /\ UNCHANGED << disabled, deleted, audit, admin >>
      /\ login' \in [Clients -> LoginRecords]
      /\ \A d \in Clients \ {c} : login'[d] = login[d]
  BY <1>1, <1>2, RequestOf
<1>4. Gentle /\ Rows' /\ Tables'
  BY <1>2, <1>3, QuietRows DEF Inv, Tables
<1>5. Live' \subseteq wasLive'[c]
  BY <1>1, <1>2, <1>3, <1>4, Observed DEF Inv, Gentle
<1>6. LoginInv(c)'
  BY <1>1, <1>3, <1>5 DEF LoginInv, Equipped, Found, LetIn, Admitted
<1> QED
  BY <1>2, <1>3, <1>4, <1>6, Kept

\* A request that goes on to its next query; what it has found has yet to be shown.
LEMMA GoesOn ==
  ASSUME Inv, Observe, Gentle, NEW c \in Clients, login[c].stage # "free",
         NEW stage \in {"byEmail", "upsert", "backfill"}, NEW user \in users' \union {None},
         login[c].token[2] # None, stage = "backfill" => user \in users',
         login'[c] = [login[c] EXCEPT !.stage = stage, !.user = user],
         users' \subseteq Ids
  PROVE  /\ login'[c] \in LoginRecords /\ Equipped(c)' /\ LetIn(c)'
         /\ login'[c].stage = stage /\ login'[c].user = user /\ login'[c].token = login[c].token
<1>1. login[c] \in LoginRecords /\ Equipped(c)
  BY RequestOf
<1>2. /\ login'[c] \in LoginRecords /\ login'[c].stage = stage /\ login'[c].user = user
      /\ login'[c].token = login[c].token
  BY <1>1 DEF LoginRecords, LoginStages
<1>3. Live' \subseteq wasLive'[c]
  BY <1>2, Observed DEF Inv, Gentle
<1> QED
  BY <1>1, <1>2, <1>3 DEF Equipped, LetIn, Admitted

LEMMA FindBySubStep == ASSUME Inv, NEW c \in Clients, FindBySub(c) PROVE Inv'
<1> DEFINE t == login[c].token
           found == { u \in users \ deleted : sub[u] = t[1] }
<1>1. /\ login[c].stage = "bySub" /\ Observe /\ UNCHANGED << users, email, sub, principals >>
      /\ \E h : Becomes(c, h)
  BY DEF FindBySub
<1>2. UNCHANGED << disabled, deleted, audit, admin >>
  BY <1>1, RequestOf
<1>3. Gentle /\ Rows' /\ Tables'
  BY <1>1, <1>2, QuietRows DEF Inv, Tables
<1>4. login[c] \in LoginRecords /\ Equipped(c) /\ t \in Tokens
  BY <1>1, RequestOf DEF Equipped
<1>5. ASSUME NEW u \in found, Becomes(c, Resolved(c, u)) PROVE Inv'
  <2>1. login'[c] = Resolved(c, u)
    BY <1>5, RequestOf
  <2>2. Resolved(c, u) \in LoginRecords /\ LoginInv(c)'
    BY <1>1, <1>2, <2>1, ResolvedKeeps
  <2> QED
    BY <1>1, <1>3, <1>5, <2>2, RequestOf, Kept
<1>6. CASE Becomes(c, Refused(c))
  <2>1. login'[c] = Refused(c)
    BY <1>6, RequestOf
  <2>2. Refused(c) \in LoginRecords /\ LoginInv(c)'
    BY <1>1, <1>4, <2>1, RefusedKeeps DEF Inv
  <2> QED
    BY <1>1, <1>3, <1>6, <2>2, RequestOf, Kept
<1>7. CASE t[2] # None /\ Becomes(c, [login[c] EXCEPT !.stage = "byEmail"])
  <2>1. login[c].user \in users' \union {None} /\ users' \subseteq Ids
    BY <1>1, <1>4 DEF Equipped, Inv, Tables
  <2>2. login'[c] = [login[c] EXCEPT !.stage = "byEmail", !.user = login[c].user]
    BY <1>4, <1>7, RequestOf DEF LoginRecords
  <2>3. /\ login'[c] \in LoginRecords /\ Equipped(c)' /\ LetIn(c)'
        /\ login'[c].stage = "byEmail"
    BY <1>1, <1>3, <1>7, <2>1, <2>2, GoesOn
  <2>4. LoginInv(c)'
    BY <2>3 DEF LoginInv, Found
  <2> QED
    BY <1>1, <1>3, <1>7, <2>3, <2>4, RequestOf, Kept
<1> QED
  BY <1>5, <1>6, <1>7 DEF FindBySub

LEMMA FindByEmailStep == ASSUME Inv, NEW c \in Clients, FindByEmail(c) PROVE Inv'
<1> DEFINE t == login[c].token
           found == RowOf(t[2]) \ deleted
<1>1. /\ login[c].stage = "byEmail" /\ Observe
      /\ UNCHANGED << users, email, sub, principals >> /\ \E h : Becomes(c, h)
  BY DEF FindByEmail
<1>2. UNCHANGED << disabled, deleted, audit, admin >>
  BY <1>1, RequestOf
<1>3. Gentle /\ Rows' /\ Tables' /\ users' \subseteq Ids
  BY <1>1, <1>2, QuietRows DEF Inv, Tables
<1>4. /\ login[c] \in LoginRecords /\ t \in Tokens /\ t[2] # None
      /\ login[c].user \in users' \union {None}
  BY <1>1, RequestOf DEF Equipped
<1>5. ASSUME NEW u \in found, Becomes(c, [login[c] EXCEPT !.stage = "backfill", !.user = u])
      PROVE  Inv'
  <2>1. u \in users' /\ u \notin deleted' /\ email'[u] = t[2]
    BY <1>1, <1>2 DEF RowOf
  <2>2. login'[c] = [login[c] EXCEPT !.stage = "backfill", !.user = u]
    BY <1>5, RequestOf
  <2>3. /\ login'[c] \in LoginRecords /\ Equipped(c)' /\ LetIn(c)'
        /\ login'[c].user = u /\ login'[c].token = t
    BY <1>1, <1>3, <1>4, <2>1, <2>2, GoesOn
  <2>4. \A s : Sole(s) => (t[2] \in Claims(s) <=> t[1] = s)
    BY <1>4, SoleClaims
  <2>5. LoginInv(c)'
    BY <2>1, <2>3, <2>4 DEF LoginInv, Found
  <2> QED
    BY <1>1, <1>3, <1>5, <2>3, <2>5, RequestOf, Kept
<1>6. CASE Becomes(c, [login[c] EXCEPT !.stage = "upsert"])
  <2>1. login'[c] = [login[c] EXCEPT !.stage = "upsert", !.user = login[c].user]
    BY <1>4, <1>6, RequestOf DEF LoginRecords
  <2>2. /\ login'[c] \in LoginRecords /\ Equipped(c)' /\ LetIn(c)'
        /\ login'[c].stage = "upsert"
    BY <1>1, <1>3, <1>4, <2>1, GoesOn
  <2>3. LoginInv(c)'
    BY <2>2 DEF LoginInv, Found
  <2> QED
    BY <1>1, <1>3, <1>6, <2>2, <2>3, RequestOf, Kept
<1> QED
  BY <1>5, <1>6 DEF FindByEmail

\* The row that an upsert returns has the token's address; a deleted one is refused.
LEMMA UpsertRowStep == ASSUME Inv, NEW c \in Clients, UpsertRow(c) PROVE Inv'
<1> DEFINE t == login[c].token
<1>1. /\ login[c].stage = "upsert" /\ Observe /\ UNCHANGED << sub, principals >>
  BY DEF UpsertRow
<1>2. PICK u \in Ids :
        /\ Upsert(t[2], u)
        /\ Becomes(c, IF u \in deleted THEN Refused(c)
                      ELSE [login[c] EXCEPT !.stage = "backfill", !.user = u])
  BY DEF UpsertRow
<1>3. UNCHANGED << disabled, deleted, audit, admin >>
  BY <1>2, RequestOf
<1>4. /\ login[c] \in LoginRecords /\ t \in Tokens /\ t[2] # None /\ t[2] \in Emails
      /\ Equipped(c) /\ login[c].stage # "free"
  BY <1>1, RequestOf, TokenParts DEF Equipped
<1>5. principals' \subseteq users'
  BY <1>1, <1>2 DEF Upsert, Inv, Tables
<1>6. /\ Gentle /\ Tables' /\ Rows' /\ u \in users' /\ email'[u] = t[2]
  BY <1>1, <1>2, <1>3, <1>4, <1>5, UpsertRows
<1>7. CASE u \in deleted
  <2>1. Becomes(c, Refused(c))
    BY <1>2, <1>7
  <2>2. login'[c] = Refused(c)
    BY <2>1, RequestOf
  <2>3. Refused(c) \in LoginRecords /\ LoginInv(c)'
    BY <1>1, <1>4, <2>2, RefusedKeeps DEF Inv
  <2> QED
    BY <1>1, <1>6, <2>1, <2>3, RequestOf, Kept
<1>8. CASE u \notin deleted
  <2>1. Becomes(c, [login[c] EXCEPT !.stage = "backfill", !.user = u])
    BY <1>2, <1>8
  <2>2. login'[c] = [login[c] EXCEPT !.stage = "backfill", !.user = u] /\ users' \subseteq Ids
    BY <1>6, <2>1, RequestOf DEF Tables
  <2>3. /\ login'[c] \in LoginRecords /\ Equipped(c)' /\ LetIn(c)'
        /\ login'[c].user = u /\ login'[c].token = t
    BY <1>1, <1>4, <1>6, <2>2, GoesOn
  <2>4. \A s : Sole(s) => (t[2] \in Claims(s) <=> t[1] = s)
    BY <1>4, SoleClaims
  <2>5. LoginInv(c)'
    BY <1>3, <1>6, <1>8, <2>3, <2>4 DEF LoginInv, Found
  <2> QED
    BY <1>1, <1>6, <2>1, <2>3, <2>5, RequestOf, Kept
<1> QED
  BY <1>7, <1>8

\* The identity is written where no other row has it.  A row that is not deleted has it
\* already or none, if its address has one owner; what it replaces otherwise is noted.
LEMMA BackfillStep == ASSUME Inv, NEW c \in Clients, Backfill(c) PROVE Inv'
<1> DEFINE t == login[c].token
           u == login[c].user
<1>1. /\ login[c].stage = "backfill" /\ Observe /\ UNCHANGED << users, email, principals >>
      /\ \E h : Becomes(c, h)
  BY DEF Backfill
<1>2. UNCHANGED << disabled, deleted, audit, admin >>
  BY <1>1, RequestOf
<1>3. /\ login[c] \in LoginRecords /\ Equipped(c) /\ t \in Tokens /\ t[1] \in Subs
      /\ t[1] # None /\ u \in users
      /\ u \notin deleted => \A s : Sole(s) => (email[u] \in Claims(s) <=> t[1] = s)
      /\ u \in deleted => u \in wasLive[c] \union disabled
  BY <1>1, RequestOf, TokenParts DEF Equipped, LoginInv, Found
<1>4. CASE Becomes(c, Refused(c)) /\ UNCHANGED sub
  <2>1. Gentle /\ Rows' /\ Tables'
    BY <1>1, <1>2, <1>4, QuietRows DEF Inv, Tables
  <2>2. login'[c] = Refused(c)
    BY <1>4, RequestOf
  <2>3. Refused(c) \in LoginRecords /\ LoginInv(c)'
    BY <1>1, <1>3, <2>2, RefusedKeeps DEF Inv
  <2> QED
    BY <1>1, <1>4, <2>1, <2>3, RequestOf, Kept
<1>5. CASE /\ \A v \in users \ {u} : sub[v] # t[1]
           /\ sub' = [sub EXCEPT ![u] = t[1]]
           /\ Becomes(c, Resolved(c, u))
  <2>1. /\ sub' \in [Ids -> Subs \union {None}] /\ sub'[u] = t[1]
        /\ \A v \in Ids \ {u} : sub'[v] = sub[v]
        /\ users \subseteq Ids
    BY <1>3, <1>5 DEF Inv, Tables
  <2>2. Tables'
    BY <1>1, <1>2, <2>1 DEF Inv, Tables
  <2>3. Indexes'
    BY <1>1, <1>3, <1>5, <2>1 DEF Inv, Rows, Indexes
  <2>4. Owned'
    BY <1>1, <1>2, <1>3, <2>1 DEF Inv, Rows, Owned
  <2>5. u \notin deleted /\ sub[u] \notin {None, t[1]} => ~Sole(sub[u]) /\ ~Sole(t[1])
    BY <1>3 DEF Inv, Rows, Owned
  <2>6. Gentle
    <3>1. \A v \in users : sub[v] # None => sub'[v] = sub[v] \/ << v, sub[v] >> \in overwritten'
      BY <1>1, <1>3, <2>1, Overwrites
    <3> QED
      BY <1>1, <1>2, <3>1, Overwrites DEF Inv, Tables, Gentle
  <2>9. Replaced'
    <3> SUFFICES ASSUME NEW p \in overwritten'
                 PROVE  /\ p \in users \X Subs
                        /\ p[1] \in deleted \/ (~Sole(p[2]) /\ sub'[p[1]] # None /\ ~Sole(sub'[p[1]]))
      BY <1>1, <1>2 DEF Replaced
    <3>1. CASE p \in overwritten
      <4>1. /\ p \in users \X Subs /\ p[1] \in users
            /\ p[1] \in deleted \/ (~Sole(p[2]) /\ sub[p[1]] # None /\ ~Sole(sub[p[1]]))
        BY <3>1 DEF Inv, Rows, Replaced
      <4> QED
        BY <1>3, <2>1, <2>5, <4>1
    <3>2. CASE p \notin overwritten
      <4>1. PICK v \in users : p = << v, sub[v] >> /\ sub[v] # None /\ sub'[v] \notin {None, sub[v]}
        BY <1>1, <3>2, Overwrites
      <4>2. v = u /\ sub[u] \in Subs /\ p = << u, sub[u] >> /\ p[1] = u /\ p[2] = sub[u]
        BY <2>1, <4>1 DEF Inv, Tables
      <4> QED
        BY <1>3, <2>1, <2>5, <4>1, <4>2
    <3> QED
      BY <3>1, <3>2
  <2>7. login'[c] = Resolved(c, u)
    BY <1>5, RequestOf
  <2>8. Resolved(c, u) \in LoginRecords /\ LoginInv(c)'
    BY <1>1, <1>2, <1>3, <2>1, <2>7, ResolvedKeeps
  <2> QED
    BY <1>1, <1>5, <2>2, <2>3, <2>4, <2>6, <2>8, <2>9, RequestOf, Kept DEF Rows
<1> QED
  BY <1>4, <1>5 DEF Backfill

\* A request that has been let in, and goes on as the same user.
LEMMA StaysIn ==
  ASSUME Inv, Observe, Gentle, NEW c \in Clients, login[c].stage \in {"principal", "reconcile"},
         NEW stage \in {"reconcile", "in"}, stage = "reconcile" => login[c].token[2] # None,
         login'[c] = [login[c] EXCEPT !.stage = stage]
  PROVE  login'[c] \in LoginRecords /\ LoginInv(c)'
<1>1. /\ login[c] \in LoginRecords /\ Equipped(c) /\ LetIn(c)
      /\ login[c].user \in users /\ login[c].token \in Tokens /\ login[c].token[1] # None
  BY RequestOf, TokenParts DEF LoginInv, Equipped
<1>2. /\ login'[c] \in LoginRecords /\ login'[c].stage = stage
      /\ login'[c].user = login[c].user /\ login'[c].token = login[c].token
  BY <1>1 DEF LoginRecords, LoginStages
<1>3. /\ wasLive[c] \subseteq wasLive'[c]
      /\ stage # "in" => Live' \subseteq wasLive'[c]
  BY <1>2, Observed DEF Inv, Gentle
<1>4. /\ login[c].user \in wasLive[c]
      /\ login[c].user \in deleted \/ Bore(login[c].user, login[c].token[1])
  BY <1>1 DEF LetIn, Admitted
<1>5. login[c].user \in deleted' \/ Bore(login[c].user, login[c].token[1])'
  BY <1>1, <1>4 DEF Gentle, Bore
<1> QED
  BY <1>1, <1>2, <1>3, <1>4, <1>5 DEF LoginInv, Equipped, Found, LetIn, Bore, Admitted, Gentle

LEMMA EnsurePrincipalStep == ASSUME Inv, NEW c \in Clients, EnsurePrincipal(c) PROVE Inv'
<1> DEFINE stage == IF login[c].token[2] \in {None, login[c].email} THEN "in" ELSE "reconcile"
<1>1. /\ login[c].stage = "principal" /\ Observe /\ UNCHANGED << users, email, sub >>
      /\ Becomes(c, [login[c] EXCEPT !.stage = stage])
      /\ principals' = principals \union {login[c].user}
  BY DEF EnsurePrincipal
<1>2. UNCHANGED << disabled, deleted, audit, admin >> /\ login[c].user \in users
  BY <1>1, RequestOf DEF Equipped
<1>3. Gentle /\ Rows' /\ Tables'
  BY <1>1, <1>2, QuietRows DEF Inv, Tables
<1>4. login'[c] \in LoginRecords /\ LoginInv(c)'
  BY <1>1, <1>3, RequestOf, StaysIn
<1> QED
  BY <1>1, <1>3, <1>4, RequestOf, Kept

\* A new address has the owner of the old one, if either has one: the identity of the row.
LEMMA ReconcileStep == ASSUME Inv, NEW c \in Clients, Reconcile(c) PROVE Inv'
<1> DEFINE t == login[c].token
           u == login[c].user
<1>1. /\ login[c].stage = "reconcile" /\ Observe /\ UNCHANGED << users, sub, principals >>
      /\ Becomes(c, [login[c] EXCEPT !.stage = "in"])
      /\ email' = IF RowOf(t[2]) \subseteq {u} THEN [email EXCEPT ![u] = t[2]] ELSE email
  BY DEF Reconcile
<1>2. UNCHANGED << disabled, deleted, audit, admin >>
  BY <1>1, RequestOf
<1>3. /\ t \in Tokens /\ t[2] \in Emails /\ t[2] # None /\ u \in users /\ t[1] # None
      /\ \A s : Sole(s) => (t[2] \in Claims(s) <=> t[1] = s)
      /\ u \in deleted \/ Bore(u, t[1])
  BY <1>1, RequestOf, TokenParts, SoleClaims DEF Equipped, LoginInv, LetIn, Admitted
<1>4. CASE email' = email
  <2>1. Gentle /\ Rows' /\ Tables'
    BY <1>1, <1>2, <1>4, QuietRows DEF Inv, Tables
  <2>2. login'[c] \in LoginRecords /\ LoginInv(c)'
    BY <1>1, <2>1, RequestOf, StaysIn
  <2> QED
    BY <1>1, <2>1, <2>2, RequestOf, Kept
<1>5. CASE RowOf(t[2]) \subseteq {u} /\ email' = [email EXCEPT ![u] = t[2]]
  <2>1. /\ email' \in [Ids -> Emails \union {None}] /\ email'[u] = t[2]
        /\ \A v \in Ids \ {u} : email'[v] = email[v]
        /\ \A v \in users \ {u} : email[v] # t[2]
        /\ users \subseteq Ids
    BY <1>3, <1>5 DEF Inv, Tables, RowOf
  <2>2. Tables'
    BY <1>1, <1>2, <2>1 DEF Inv, Tables
  <2>3. Indexes' /\ overwritten' = overwritten
    BY <1>1, <1>3, <2>1, Overwrites DEF Inv, Rows, Indexes
  <2>4. ASSUME u \notin deleted, NEW s, Sole(s) PROVE email[u] \in Claims(s) <=> t[1] = s
    <3>1. CASE sub[u] = t[1]
      BY <1>3, <2>4, <3>1 DEF Inv, Rows, Owned
    <3>2. CASE << u, t[1] >> \in overwritten
      <4>1. ~Sole(t[1]) /\ sub[u] # None /\ ~Sole(sub[u])
        BY <2>4, <3>2 DEF Inv, Rows, Replaced
      <4> QED
        BY <1>3, <2>4, <4>1 DEF Inv, Rows, Owned
    <3> QED
      BY <1>3, <2>4, <3>1, <3>2 DEF Bore
  <2>5. \A v \in users \ deleted : \A s : Sole(s) => (email'[v] \in Claims(s) <=> email[v] \in Claims(s))
    BY <1>3, <2>1, <2>4
  <2>6. Gentle /\ Rows'
    BY <1>1, <1>2, <2>3, <2>5 DEF Inv, Tables, Gentle, Rows, Owned, Replaced
  <2>7. login'[c] \in LoginRecords /\ LoginInv(c)'
    BY <1>1, <2>6, RequestOf, StaysIn
  <2> QED
    BY <1>1, <2>2, <2>6, <2>7, RequestOf, Kept
<1> QED
  BY <1>1, <1>4, <1>5

-----------------------------------------------------------------------------
(* The users service *)

\* A call starts on a row that exists.
LEMMA CallStep ==
  ASSUME Inv, NEW a \in Admins, NEW op \in {"disable", "enable", "delete"}, NEW u \in Ids,
         Call(a, op, u)
  PROVE  Inv'
<1>1. /\ u \in users /\ admin' = [admin EXCEPT ![a] = [op |-> op, user |-> u]]
      /\ UNCHANGED << users, email, sub, disabled, deleted, principals, audit, login >> /\ Observe
  BY DEF Call, rowVars
<1>2. Tables'
  BY <1>1 DEF Inv, Tables
<1> QED
  BY <1>1, <1>2, QuietRows, Kept DEF Inv, Shape

\* A call that returns was about a row that exists.
LEMMA ReturnOf ==
  ASSUME Inv, NEW a \in Admins, admin[a].op # "none", Return(a)
  PROVE  /\ admin[a].user \in users /\ admin[a].user \in Ids
         /\ UNCHANGED << users, email, principals, login >>
         /\ admin' \in [Admins -> [op : {"none", "disable", "enable", "delete"},
                                   user : Ids \union {None}]]
         /\ \A b \in Admins : admin'[b] = NoCall \/ admin'[b].user \in users
<1>1. admin[a].user \in users /\ users \subseteq Ids
  BY DEF Inv, Tables, NoCall
<1>2. NoCall \in [op : {"none", "disable", "enable", "delete"}, user : Ids \union {None}]
  BY DEF NoCall
<1> QED
  BY <1>1, <1>2 DEF Inv, Tables, Return

LEMMA LogType ==
  ASSUME Inv, NEW u \in Ids, NEW action \in {"disable", "enable", "delete"}, Log(u, action)
  PROVE  audit' \in [Ids -> Seq({"disable", "enable", "delete"})]
<1>1. Append(audit[u], action) \in Seq({"disable", "enable", "delete"})
  BY DEF Inv, Tables
<1> QED
  BY <1>1 DEF Inv, Tables, Log

LEMMA DisableStep == ASSUME Inv, NEW a \in Admins, Disable(a) PROVE Inv'
<1> DEFINE u == admin[a].user
<1>1. /\ admin[a].op # "none" /\ Return(a) /\ UNCHANGED << sub, deleted >> /\ Observe
      /\ \/ disabled' = disabled \union {u} /\ Log(u, "disable")
         \/ UNCHANGED << disabled, audit >>
  BY DEF Disable
<1>2. disabled \subseteq disabled' /\ disabled' \subseteq users
  BY <1>1, ReturnOf DEF Inv, Tables
<1>3. audit' \in [Ids -> Seq({"disable", "enable", "delete"})]
  BY <1>1, ReturnOf, LogType DEF Inv, Tables
<1>4. Tables'
  BY <1>1, <1>2, <1>3, ReturnOf DEF Inv, Tables
<1>5. overwritten' = overwritten
  BY <1>1, Overwrites
<1>6. Gentle /\ Rows'
  BY <1>1, <1>2, <1>5, ReturnOf DEF Inv, Tables, Gentle, Rows, Indexes, Owned, Replaced
<1> QED
  BY <1>1, <1>4, <1>6, ReturnOf, Kept DEF Inv, Shape

\* Only an account that is not deleted is enabled.
LEMMA EnableStep == ASSUME Inv, NEW a \in Admins, Enable(a) PROVE Inv'
<1> DEFINE u == admin[a].user
<1>1. /\ admin[a].op # "none" /\ Return(a) /\ UNCHANGED << sub, deleted >> /\ Observe
      /\ \/ u \notin deleted /\ disabled' = disabled \ {u} /\ Log(u, "enable")
         \/ UNCHANGED << disabled, audit >>
  BY DEF Enable
<1>2. disabled \intersect deleted' \subseteq disabled' /\ disabled' \subseteq users
  BY <1>1 DEF Inv, Tables
<1>3. audit' \in [Ids -> Seq({"disable", "enable", "delete"})]
  BY <1>1, ReturnOf, LogType DEF Inv, Tables
<1>4. Tables'
  BY <1>1, <1>2, <1>3, ReturnOf DEF Inv, Tables
<1>5. overwritten' = overwritten
  BY <1>1, Overwrites
<1>6. Gentle /\ Rows'
  BY <1>1, <1>2, <1>5, ReturnOf DEF Inv, Tables, Gentle, Rows, Indexes, Owned, Replaced
<1> QED
  BY <1>1, <1>4, <1>6, ReturnOf, Kept DEF Inv, Shape

\* A deleted row gives its identity up, so that nothing is asked of its address.
LEMMA DeleteStep == ASSUME Inv, NEW a \in Admins, Delete(a) PROVE Inv'
<1> DEFINE u == admin[a].user
<1>1. /\ admin[a].op # "none" /\ Return(a) /\ UNCHANGED disabled /\ Observe
      /\ \/ /\ deleted' = deleted \union {u} /\ sub' = [sub EXCEPT ![u] = None]
            /\ Log(u, "delete")
         \/ UNCHANGED << deleted, sub, audit >>
  BY DEF Delete
<1>2. /\ deleted \subseteq deleted' /\ deleted' \subseteq users
      /\ sub' \in [Ids -> Subs \union {None}]
      /\ \A v \in Ids : sub'[v] = sub[v] \/ (sub'[v] = None /\ v \in deleted')
  <2>1. u \in users /\ u \in Ids /\ deleted \subseteq users /\ sub \in [Ids -> Subs \union {None}]
    BY <1>1, ReturnOf DEF Inv, Tables
  <2>2. users' = users
    BY <1>1 DEF Return
  <2> QED
    BY <1>1, <2>1, <2>2
<1>3. audit' \in [Ids -> Seq({"disable", "enable", "delete"})]
  BY <1>1, ReturnOf, LogType DEF Inv, Tables
<1>4. Tables'
  BY <1>1, <1>2, <1>3, ReturnOf DEF Inv, Tables
<1>5. overwritten' = overwritten
  BY <1>1, <1>2, Overwrites DEF Inv, Tables
<1>6. Gentle /\ Rows'
  <2>1. Gentle /\ Owned' /\ Replaced'
    BY <1>1, <1>2, <1>5, ReturnOf DEF Inv, Tables, Gentle, Rows, Owned, Replaced
  <2>2. Indexes'
    BY <1>1, <1>2, ReturnOf DEF Inv, Tables, Rows, Indexes
  <2> QED
    BY <2>1, <2>2 DEF Rows
<1> QED
  BY <1>1, <1>4, <1>6, ReturnOf, Kept DEF Inv, Shape

LEMMA BlockedStep == ASSUME Inv, NEW a \in Admins, Blocked(a) PROVE Inv'
<1>1. /\ admin[a].op # "none" /\ Return(a) /\ UNCHANGED << sub, disabled, deleted, audit >>
      /\ Observe
  BY DEF Blocked
<1>2. Tables'
  BY <1>1, ReturnOf DEF Inv, Tables
<1> QED
  BY <1>1, <1>2, ReturnOf, QuietRows, Kept DEF Inv, Shape

-----------------------------------------------------------------------------
(* The theorems *)

LEMMA InitInv == Init => Inv
<1> SUFFICES ASSUME Init PROVE Inv
  OBVIOUS
<1>1. Tables
  BY DEF Init, Tables, NoCall
<1>2. Rows
  BY DEF Init, Rows, Indexes, Owned, Replaced
<1>3. Fresh \in LoginRecords /\ Fresh.stage = "free" /\ Fresh.user = None
  BY DEF Fresh, LoginRecords, LoginStages
<1>4. Shape
  BY <1>3 DEF Init, Shape
<1>5. LoginsInv
  BY <1>3 DEF Init, LoginsInv, LoginInv, Equipped, Found, LetIn, Admitted
<1> QED
  BY <1>1, <1>2, <1>4, <1>5 DEF Inv

LEMMA StepInv == Inv /\ [Next]_vars => Inv'
<1> SUFFICES ASSUME Inv, [Next]_vars PROVE Inv'
  OBVIOUS
<1>1. ASSUME NEW e \in Emails, Provision(e) PROVE Inv'
  BY <1>1, ProvisionStep
<1>2. ASSUME NEW c \in Clients, LoginStep(c) PROVE Inv'
  BY <1>2, BeginStep, FindBySubStep, FindByEmailStep, UpsertRowStep, BackfillStep,
     EnsurePrincipalStep, ReconcileStep DEF LoginStep
<1>3. ASSUME NEW a \in Admins, AdminStep(a) PROVE Inv'
  BY <1>3, CallStep, DisableStep, EnableStep, DeleteStep, BlockedStep DEF AdminStep
<1>4. CASE UNCHANGED vars
  BY <1>4 DEF vars, rowVars, Inv, Tables, Rows, Indexes, Owned, Replaced, Shape, LoginsInv,
     LoginInv, Equipped, Found, LetIn, Bore, Admitted, Live
<1> QED
  BY <1>1, <1>2, <1>3, <1>4 DEF Next

LEMMA AlwaysInv == Spec => []Inv
BY InitInv, StepInv, PTL DEF Spec

\* Types, and the unique indexes of the users table, whatever the requests and the
\* administrators do at once.
THEOREM TypeCorrect == Spec => []TypeOK
<1>1. Inv => TypeOK
  <2> SUFFICES ASSUME Inv PROVE TypeOK
    OBVIOUS
  <2>1. ASSUME NEW c \in Clients
        PROVE  /\ login[c].user \in users \union {None}
               /\ login[c].token \in Tokens \union {<< None, None >>}
               /\ wasLive[c] \subseteq users
    BY RequestOf DEF Shape, LoginRecords, Equipped
  <2> QED
    BY <2>1 DEF Inv, Tables, Rows, Indexes, Replaced, TypeOK
<1> QED
  BY <1>1, AlwaysInv, PTL

\* Nobody is let in as a user that was disabled or deleted all the time that the request
\* took: the gates of authenticateJwt are enough although no transaction holds them
\* together, because a row that was seen live cannot be found disabled and go on.
THEOREM AdmittedWereLive == Spec => []LoginsWereLive
<1>1. Inv => LoginsWereLive
  BY DEF Inv, LoginsInv, LoginInv, LetIn, LoginsWereLive
<1> QED
  BY <1>1, AlwaysInv, PTL

\* Two requests with one identity are one user, whichever way each of them was found,
\* created or given its identity, or one of the users has been deleted, or an identity that
\* claims the same address has replaced this one on one of them.
THEOREM OneIdentityOneUser == Spec => []OneUserPerIdentity
<1>1. Inv => OneUserPerIdentity
  <2> SUFFICES ASSUME Inv, NEW c \in Clients, NEW d \in Clients, Admitted(c), Admitted(d),
                      login[c].token[1] = login[d].token[1],
                      login[c].user \notin deleted, login[d].user \notin deleted
               PROVE  LET s    == login[c].token[1]
                          both == {login[c].user, login[d].user}
                      IN  \/ login[c].user = login[d].user
                          \/ Disputed(s) /\ overwritten \intersect (both \X {s}) # {}
    BY DEF OneUserPerIdentity
  <2> DEFINE s == login[c].token[1]
  <2>1. /\ login[c].user \in users /\ login[d].user \in users /\ login[c].token \in Tokens
        /\ Bore(login[c].user, s) /\ Bore(login[d].user, s)
    BY DEF Inv, LoginsInv, LoginInv, Equipped, LetIn, Admitted
  <2>2. s # None /\ s \in Subs
    BY <2>1, TokenParts
  <2>3. CASE sub[login[c].user] = s /\ sub[login[d].user] = s
    BY <2>1, <2>2, <2>3 DEF Inv, Rows, Indexes
  <2>4. ASSUME NEW u \in {login[c].user, login[d].user}, << u, s >> \in overwritten
        PROVE  Disputed(s)
    BY <2>2, <2>4 DEF Inv, Rows, Replaced, Sole
  <2> QED
    BY <2>1, <2>3, <2>4 DEF Bore
<1> QED
  BY <1>1, AlwaysInv, PTL

-----------------------------------------------------------------------------
(* The audit log and the rows                                              *)

\* How many entries precede the deletion, if there is one.
Switches(u) == IF u \in deleted THEN Len(audit[u]) - 1 ELSE Len(audit[u])

Tells(u) ==
  /\ u \in deleted => audit[u] # << >> /\ audit[u][Len(audit[u])] = "delete"
  /\ \A i \in 1..Switches(u) : audit[u][i] = IF i % 2 = 1 THEN "disable" ELSE "enable"
  /\ u \in disabled <=> Switches(u) % 2 = 1

\* An id without a row has no entries.
AuditInv == \A u \in Ids : Tells(u) /\ (u \notin users => audit[u] = << >>)

\* An entry more: what is before it stays.
LEMMA Appended ==
  ASSUME NEW S, NEW s \in Seq(S), NEW x \in S
  PROVE  /\ Len(Append(s, x)) = Len(s) + 1 /\ Append(s, x)[Len(s) + 1] = x
         /\ Append(s, x) # << >> /\ Len(s) \in Nat
         /\ \A i \in 1..Len(s) : Append(s, x)[i] = s[i]
  OBVIOUS

\* Odd and even follow each other.
LEMMA Parity ==
  ASSUME NEW n \in Nat
  PROVE  (n + 1) % 2 = 1 <=> ~(n % 2 = 1)
  OBVIOUS

\* A step that writes no account and no entry.
LEMMA NothingLogged ==
  ASSUME AuditInv, UNCHANGED << audit, disabled, deleted >>, users \subseteq users'
  PROVE  AuditInv'
BY DEF AuditInv, Tells, Switches

\* One entry is written with the account it is about.
LEMMA OneLogged ==
  ASSUME Inv, AuditInv, NEW u \in users, NEW action \in {"disable", "enable", "delete"},
         Log(u, action), users' = users,
         \A v \in Ids \ {u} : (v \in disabled' <=> v \in disabled) /\ (v \in deleted' <=> v \in deleted),
         Tells(u)'
  PROVE  AuditInv'
<1>1. u \in Ids /\ audit' = [audit EXCEPT ![u] = Append(@, action)] /\ DOMAIN audit = Ids
  BY DEF Inv, Tables, Log
<1>2. ASSUME NEW v \in Ids \ {u} PROVE Tells(v)'
  <2>1. audit'[v] = audit[v]
    BY <1>1
  <2>2. Switches(v)' = Switches(v)
    BY <2>1 DEF Switches
  <2>3. Tells(v)
    BY DEF AuditInv
  <2> QED
    BY <2>1, <2>2, <2>3 DEF Tells
<1> QED
  BY <1>1, <1>2 DEF AuditInv

\* The log of u after an entry.
LEMMA LogAfter ==
  ASSUME Inv, AuditInv, NEW u \in users, NEW action \in {"disable", "enable", "delete"},
         Log(u, action)
  PROVE  /\ Len(audit[u]) \in Nat /\ Len(audit'[u]) = Len(audit[u]) + 1 /\ audit'[u] # << >>
         /\ audit'[u][Len(audit[u]) + 1] = action
         /\ \A i \in 1..Len(audit[u]) : audit'[u][i] = audit[u][i]
<1>1. /\ audit[u] \in Seq({"disable", "enable", "delete"})
      /\ audit'[u] = Append(audit[u], action)
  BY DEF Inv, Tables, Log
<1> QED
  BY <1>1, Appended

\* An account that is not deleted is switched and the switch logged: the entries alternate.
LEMMA SwitchLogged ==
  ASSUME Inv, AuditInv, NEW u \in users \ deleted, UNCHANGED << users, deleted >>,
         NEW action \in {"disable", "enable"}, Log(u, action),
         action = "disable" <=> u \notin disabled, u \in disabled' <=> u \notin disabled,
         \A v \in Ids \ {u} : v \in disabled' <=> v \in disabled
  PROVE  AuditInv'
<1> DEFINE n == Len(audit[u])
<1>1. /\ n \in Nat /\ Len(audit'[u]) = n + 1 /\ audit'[u][n + 1] = action
      /\ \A i \in 1..n : audit'[u][i] = audit[u][i]
  BY LogAfter
<1>2. /\ \A i \in 1..n : audit[u][i] = IF i % 2 = 1 THEN "disable" ELSE "enable"
      /\ u \in disabled <=> n % 2 = 1
  BY DEF AuditInv, Tells, Switches, Inv, Tables
<1>3. (n + 1) % 2 = 1 <=> ~(n % 2 = 1)
  BY <1>1, Parity
<1>4. Switches(u)' = n + 1
  BY <1>1 DEF Switches
<1> HIDE DEF n
<1>5. \A i \in 1..(n + 1) : i = n + 1 \/ i \in 1..n
  BY <1>1
<1>6. \A i \in 1..(n + 1) : audit'[u][i] = IF i % 2 = 1 THEN "disable" ELSE "enable"
  <2>1. audit'[u][n + 1] = IF (n + 1) % 2 = 1 THEN "disable" ELSE "enable"
    BY <1>1, <1>2, <1>3
  <2> QED
    BY <1>1, <1>2, <1>5, <2>1
<1>7. u \in disabled' <=> (n + 1) % 2 = 1
  BY <1>2, <1>3
<1>8. Tells(u)'
  BY <1>4, <1>6, <1>7 DEF Tells
<1> QED
  BY <1>8, OneLogged

LEMMA AuditStep == Inv /\ AuditInv /\ [Next]_vars => AuditInv'
<1> SUFFICES ASSUME Inv, AuditInv, [Next]_vars PROVE AuditInv'
  OBVIOUS
<1>1. ASSUME NEW a \in Admins, Disable(a) PROVE AuditInv'
  <2> DEFINE u == admin[a].user
  <2>1. Return(a) /\ u \in users /\ users' = users /\ deleted' = deleted
    BY <1>1, ReturnOf DEF Disable
  <2>2. CASE u \in Live /\ disabled' = disabled \union {u} /\ Log(u, "disable")
    BY <2>1, <2>2, SwitchLogged DEF Live
  <2>3. CASE UNCHANGED << disabled, audit >>
    BY <2>1, <2>3, NothingLogged
  <2> QED
    BY <1>1, <2>2, <2>3 DEF Disable
<1>2. ASSUME NEW a \in Admins, Enable(a) PROVE AuditInv'
  <2> DEFINE u == admin[a].user
  <2>1. Return(a) /\ u \in users /\ users' = users /\ deleted' = deleted
    BY <1>2, ReturnOf DEF Enable
  <2>2. CASE u \in disabled \ deleted /\ disabled' = disabled \ {u} /\ Log(u, "enable")
    BY <2>1, <2>2, SwitchLogged
  <2>3. CASE UNCHANGED << disabled, audit >>
    BY <2>1, <2>3, NothingLogged
  <2> QED
    BY <1>2, <2>2, <2>3 DEF Enable
<1>3. ASSUME NEW a \in Admins, Delete(a) PROVE AuditInv'
  <2>0. PICK u : u = admin[a].user
    OBVIOUS
  <2>1. Return(a) /\ u \in users /\ users' = users /\ disabled' = disabled
    BY <1>3, <2>0, ReturnOf DEF Delete
  <2>2. CASE u \notin deleted /\ deleted' = deleted \union {u} /\ Log(u, "delete")
    <3>1. /\ Len(audit[u]) \in Nat /\ Len(audit'[u]) = Len(audit[u]) + 1
          /\ audit'[u] # << >> /\ audit'[u][Len(audit[u]) + 1] = "delete"
          /\ \A i \in 1..Len(audit[u]) : audit'[u][i] = audit[u][i]
      BY <2>1, <2>2, LogAfter
    <3>2. Tells(u) /\ u \in Ids
      BY <2>1 DEF AuditInv, Inv, Tables
    <3>3. Switches(u) = Len(audit[u]) /\ Switches(u)' = Len(audit[u])
      BY <2>2, <3>1 DEF Switches
    <3>4. Tells(u)'
      BY <2>1, <2>2, <3>1, <3>2, <3>3 DEF Tells
    <3> QED
      BY <2>1, <2>2, <3>4, OneLogged
  <2>3. CASE UNCHANGED << deleted, sub, audit >>
    BY <2>1, <2>3, NothingLogged
  <2> QED
    BY <1>3, <2>0, <2>2, <2>3 DEF Delete
<1>4. ASSUME \/ \E e \in Emails : Provision(e)
             \/ \E c \in Clients : LoginStep(c)
             \/ \E a \in Admins : Blocked(a)
             \/ \E a \in Admins, op \in {"disable", "enable", "delete"}, u \in Ids : Call(a, op, u)
             \/ UNCHANGED vars
      PROVE  UNCHANGED << audit, disabled, deleted >> /\ users \subseteq users'
  BY <1>4 DEF Provision, LoginStep, Begin, FindBySub, FindByEmail, UpsertRow, Backfill,
     EnsurePrincipal, Reconcile, Becomes, Blocked, Call, Return, Upsert, rowVars, vars
<1> QED
  BY <1>1, <1>2, <1>3, <1>4, NothingLogged DEF Next, AdminStep

\* The audit log tells what became of an account, for any number of administrators at
\* once: each reads the row before it changes it, and the guard of the update decides.
THEOREM AuditIsTrue == Spec => []AuditTellsState
<1>1. Init => AuditInv
  <2> SUFFICES ASSUME Init, NEW u \in Ids PROVE Tells(u) /\ audit[u] = << >>
    BY DEF AuditInv
  <2>1. audit[u] = << >> /\ u \notin deleted /\ u \notin disabled
    BY DEF Init
  <2>2. Switches(u) = 0
    BY <2>1 DEF Switches
  <2>3. ~(0 % 2 = 1) /\ 1..0 = {}
    OBVIOUS
  <2> QED
    BY <2>1, <2>2, <2>3 DEF Tells
<1>2. Inv /\ AuditInv => AuditTellsState
  BY DEF Inv, Tables, AuditInv, Tells, Switches, AuditTellsState
<1> QED
  BY <1>1, <1>2, AlwaysInv, AuditStep, PTL DEF Spec
=============================================================================
