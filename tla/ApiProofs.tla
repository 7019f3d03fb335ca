------------------------------ MODULE ApiProofs ------------------------------
(***************************************************************************)
(* Theorems about module Api, for any tenants, rows and requests, any      *)
(* number of requests in flight at once and of changes around them.        *)
(***************************************************************************)
EXTENDS Api, TLAPS

-----------------------------------------------------------------------------
(* The inductive invariant *)

Elements(s) == { s[i] : i \in DOMAIN s }

RequestRecords ==
  [route : (UNION Files) \union {NoRoute}, on : Tenants \union Rows,
   cred : {"none", "key", "token", "both"}, stage : Stages, needs : SUBSET Tenants,
   who : Principals \union {"nobody"}, todo : Seq(Tenants), acted : BOOLEAN, code : Codes]

Shape ==
  /\ request \in [Requests -> RequestRecords]
  /\ seen \in [Requests -> [held : SUBSET Tenants, live : BOOLEAN]]

\* What is true of a request in flight has been seen.
Noted(q) ==
  q \in InFlight =>
    /\ \A t \in request[q].needs :
         << Speaks(request[q]), t, request[q].route.scope >> \in held => t \in seen[q].held
    /\ Speaks(request[q]) = "user" \/ keyLive => seen[q].live

\* Each tenant concerned has been asserted, or is yet to be.
Covered(q) ==
  LET h == request[q]
  IN  /\ h.stage \in {"validate", "auth", "load"} =>
           IF h.route.at = "row" THEN h.on \in Rows /\ h.needs = {RowTenant[h.on]}
           ELSE h.stage # "load" /\ h.needs \subseteq Elements(h.todo)
      /\ h.stage = "assert" => h.needs \subseteq seen[q].held \union Elements(h.todo)
      /\ h.stage \in {"act", "readBack", "reply"} => h.needs \subseteq seen[q].held

\* Past requireAuth, the request speaks for its credential, which has been good.
Known(q) ==
  request[q].stage \in {"load", "assert", "act", "readBack", "reply"} =>
    request[q].who = Speaks(request[q]) /\ seen[q].live

\* A change is made by the service call and answered after it.
Progress(q) ==
  LET h == request[q]
  IN  /\ h.stage \in {"validate", "auth", "load", "assert", "act"} => ~h.acted
      /\ h.stage \in {"readBack", "reply"} => h.acted
      /\ h.stage = "readBack" => h.route.op = "addScopes"
      /\ h.stage # "idle" => h.code = 0

Allowed(q) ==
  request[q].acted \/ request[q].code = 200 =>
    seen[q].live /\ request[q].needs \subseteq seen[q].held

Truthful(q) ==
  LET h == request[q]
  IN  /\ h.code = 200 /\ ~Reads(h) => h.acted
      /\ h.code \in {400, 401, 403, 404, 409} /\ h.acted =>
           h.route.op = "addScopes" /\ h.code = 404 /\ h.on \notin rows

RequestInv(q) ==
  Noted(q) /\ Covered(q) /\ Known(q) /\ Progress(q) /\ Allowed(q) /\ Truthful(q)

\* Nobody is cut off before the watchdog, and nobody is in flight behind app.close.
ServerInv ==
  /\ server # "exit1" => \A q \in Requests : request[q].stage # "cut"
  /\ server \in {"ending", "exit0"} => \A q \in Requests : request[q].stage = "idle"

Tables ==
  /\ file \in Files
  /\ Master \in tenants /\ tenants \subseteq Tenants
  /\ rows \subseteq { x \in Rows : RowTenant[x] \in tenants }
  /\ held \subseteq Principals \X Tenants \X Scopes
  /\ server \in {"up", "closing", "ending", "exit0", "exit1"}

RequestsInv == \A q \in Requests : RequestInv(q)

Inv == Tables /\ Shape /\ ServerInv /\ RequestsInv

-----------------------------------------------------------------------------
(* What a step does to a request *)

\* Observe keeps what was seen of a request in flight and adds what is true now.
LEMMA Observed ==
  ASSUME Shape, Observe, NEW q \in Requests, request'[q] \in RequestRecords
  PROVE  /\ seen'[q] \in [held : SUBSET Tenants, live : BOOLEAN]
         /\ q \notin InFlight' => seen'[q] = seen[q]
         /\ q \in InFlight => seen[q].held \subseteq seen'[q].held
                             /\ (seen[q].live => seen'[q].live)
         /\ Noted(q)'
<1> DEFINE h == request'[q]
           heldNow == { t \in h.needs : << Speaks(h), t, h.route.scope >> \in held' }
           liveNow == Speaks(h) = "user" \/ keyLive'
<1>1. seen'[q] = IF q \in InFlight'
                 THEN IF q \in InFlight
                      THEN [held |-> seen[q].held \union heldNow, live |-> seen[q].live \/ liveNow]
                      ELSE [held |-> heldNow, live |-> liveNow]
                 ELSE seen[q]
  BY DEF Observe, Watch
<1>2. heldNow \subseteq Tenants /\ liveNow \in BOOLEAN
  BY DEF RequestRecords
<1>3. ASSUME q \in InFlight' => heldNow \subseteq seen'[q].held /\ (liveNow => seen'[q].live)
      PROVE  Noted(q)'
  BY <1>3 DEF Noted
<1> HIDE DEF heldNow, liveNow
<1>4. CASE q \notin InFlight'
  BY <1>1, <1>3, <1>4 DEF Shape, InFlight
<1>5. CASE q \in InFlight' /\ q \in InFlight
  BY <1>1, <1>2, <1>3, <1>5 DEF Shape
<1>6. CASE q \in InFlight' /\ q \notin InFlight
  BY <1>1, <1>2, <1>3, <1>6
<1> QED
  BY <1>4, <1>5, <1>6

\* A request that does not step keeps its invariant, whatever others do.
LEMMA Bystander ==
  ASSUME Shape, Observe, rows' \subseteq rows, NEW q \in Requests, RequestInv(q),
         request'[q] = request[q]
  PROVE  RequestInv(q)'
<1>1. request'[q] \in RequestRecords
  BY DEF Shape
<1>2. /\ seen[q].held \subseteq seen'[q].held
      /\ seen[q].live => seen'[q].live
      /\ Noted(q)'
  BY <1>1, Observed DEF InFlight
<1> QED
  BY <1>2 DEF RequestInv, Covered, Known, Progress, Allowed, Truthful, Reads

\* A step of a request keeps the invariant of the others, and of the process.
LEMMA Turned ==
  ASSUME Shape, ServerInv, RequestsInv, NEW q \in Requests, NEW h \in RequestRecords,
         request' = [request EXCEPT ![q] = h], server' = server, Observe, rows' \subseteq rows,
         RequestInv(q)', h.stage # "cut", request[q].stage # "idle" \/ server = "up"
  PROVE  Shape' /\ ServerInv' /\ RequestsInv'
<1>1. request' \in [Requests -> RequestRecords]
  BY DEF Shape
<1>2. Shape'
  <2>1. \A p \in Requests : seen'[p] \in [held : SUBSET Tenants, live : BOOLEAN]
    BY <1>1, Observed
  <2> QED
    BY <1>1, <2>1 DEF Shape, Observe
<1>3. ServerInv'
  BY DEF Shape, ServerInv
<1>4. ASSUME NEW p \in Requests, p # q PROVE RequestInv(p)'
  BY <1>4, Bystander DEF Shape, RequestsInv
<1> QED
  BY <1>2, <1>3, <1>4 DEF RequestsInv

\* What an answer keeps of a request.
LEMMA AnswerShape ==
  ASSUME NEW q, request[q] \in RequestRecords, NEW code \in Codes
  PROVE  LET h == Answered(q, code)
         IN  /\ h \in RequestRecords /\ h.stage = "idle" /\ h.code = code
             /\ h.acted = request[q].acted /\ h.needs = request[q].needs
             /\ h.route = request[q].route /\ h.on = request[q].on
<1>1. << >> \in Seq(Tenants)
  OBVIOUS
<1> QED
  BY <1>1 DEF Answered, RequestRecords, Stages

\* An answer is as true as its code says, and keeps what is known of the request.
LEMMA AnswerKeeps ==
  ASSUME Shape, RequestsInv, Observe, rows' \subseteq rows, NEW q \in InFlight,
         NEW code \in Codes, request'[q] = Answered(q, code),
         code = 200 => /\ seen[q].live /\ request[q].needs \subseteq seen[q].held
                       /\ Reads(request[q]) \/ request[q].acted,
         request[q].acted /\ code \in {400, 401, 403, 404, 409} =>
           request[q].route.op = "addScopes" /\ code = 404 /\ request[q].on \notin rows
  PROVE  Answered(q, code) \in RequestRecords /\ RequestInv(q)'
<1>1. q \in Requests
  BY DEF InFlight
<1>2. /\ request[q] \in RequestRecords /\ RequestInv(q)
      /\ request[q].stage \notin {"idle", "cut"}
  BY <1>1 DEF Shape, RequestsInv, InFlight
<1>3. Answered(q, code) \in RequestRecords
  BY <1>2, AnswerShape
<1>4. /\ seen[q].held \subseteq seen'[q].held
      /\ seen[q].live => seen'[q].live
      /\ Noted(q)'
  BY <1>1, <1>3, Observed
<1>5. /\ request'[q].stage = "idle" /\ request'[q].code = code
      /\ request'[q].acted = request[q].acted /\ request'[q].needs = request[q].needs
      /\ request'[q].route = request[q].route /\ request'[q].on = request[q].on
  BY <1>2, AnswerShape
<1>6. Covered(q)' /\ Known(q)' /\ Progress(q)'
  BY <1>5 DEF Covered, Known, Progress
<1>7. Allowed(q)'
  BY <1>2, <1>4, <1>5 DEF RequestInv, Allowed
<1>8. Truthful(q)'
  BY <1>5 DEF Truthful, Reads
<1> QED
  BY <1>3, <1>4, <1>6, <1>7, <1>8 DEF RequestInv

\* A step that only reads.
LEMMA Moved ==
  ASSUME Inv, NEW q \in InFlight, NEW h \in RequestRecords, Moves(q, h), RequestInv(q)',
         h.stage # "cut"
  PROVE  Inv'
<1>1. Turns(q, h) /\ UNCHANGED << tenants, rows, held, keyLive, file, server >>
  BY DEF Moves, Turns, worldVars
<1>2. q \in Requests /\ request[q].stage # "idle"
  BY DEF InFlight
<1>3. Shape' /\ ServerInv' /\ RequestsInv'
  BY <1>1, <1>2, Turned DEF Inv, Turns
<1> QED
  BY <1>1, <1>3 DEF Inv, Tables

LEMMA MovedToAnswer ==
  ASSUME Inv, NEW q \in InFlight, NEW code \in Codes, Moves(q, Answered(q, code)),
         code = 200 => /\ seen[q].live /\ request[q].needs \subseteq seen[q].held
                       /\ Reads(request[q]) \/ request[q].acted,
         request[q].acted /\ code \in {400, 401, 403, 404, 409} =>
           request[q].route.op = "addScopes" /\ code = 404 /\ request[q].on \notin rows
  PROVE  Inv'
<1>1. /\ request' = [request EXCEPT ![q] = Answered(q, code)]
      /\ rows' = rows
      /\ Observe
  BY DEF Moves, Turns, worldVars
<1>2. request'[q] = Answered(q, code)
  BY <1>1 DEF Inv, Shape, InFlight
<1>3. Answered(q, code) \in RequestRecords /\ RequestInv(q)'
  BY <1>1, <1>2, AnswerKeeps DEF Inv
<1>4. Answered(q, code).stage # "cut"
  BY AnswerShape DEF Inv, Shape, InFlight
<1> QED
  BY <1>3, <1>4, Moved

\* A request that goes on, and changes nothing but its place, who it speaks for and
\* what it is to assert.
Same(q, h) ==
  /\ h.acted = request[q].acted /\ h.code = request[q].code /\ h.needs = request[q].needs
  /\ h.route = request[q].route /\ h.on = request[q].on /\ h.cred = request[q].cred

LEMMA GoesOn ==
  ASSUME Inv, NEW q \in InFlight, NEW h \in RequestRecords, h.stage # "cut", Same(q, h),
         Moves(q, h), Covered(q)', Known(q)', Progress(q)'
  PROVE  Inv'
<1>1. request[q] \in RequestRecords /\ RequestInv(q) /\ q \in Requests
  BY DEF Inv, Shape, InFlight, RequestsInv
<1>2. request'[q] = h /\ rows' = rows /\ Observe
  BY <1>1 DEF Moves, Turns, worldVars, Inv, Shape
<1>3. /\ seen[q].held \subseteq seen'[q].held
      /\ seen[q].live => seen'[q].live
      /\ Noted(q)'
  BY <1>1, <1>2, Observed DEF Inv
<1>4. Allowed(q)' /\ Truthful(q)'
  BY <1>1, <1>2, <1>3 DEF RequestInv, Allowed, Truthful, Reads, Same
<1>5. RequestInv(q)'
  BY <1>3, <1>4 DEF RequestInv
<1> QED
  BY <1>5, Moved

-----------------------------------------------------------------------------
(* The steps of a request *)

\* What a step of a request in flight may count on.
LEMMA AtStage ==
  ASSUME Inv, NEW q, NEW stage \in Stages \ {"idle", "cut"}, At(q, stage)
  PROVE  /\ q \in InFlight /\ q \in Requests /\ request[q].stage = stage
         /\ request[q] \in RequestRecords /\ RequestInv(q)
BY DEF At, InFlight, Inv, Shape, RequestsInv

LEMMA ValidateStep == ASSUME Inv, NEW q, Validate(q) PROVE Inv'
<1>1. /\ q \in InFlight /\ q \in Requests /\ request[q].stage = "validate"
      /\ request[q] \in RequestRecords /\ RequestInv(q)
  BY AtStage DEF Validate, Stages
<1>2. ~request[q].acted
  BY <1>1 DEF RequestInv, Progress
<1>3. CASE Moves(q, Answered(q, 400))
  BY <1>1, <1>2, <1>3, MovedToAnswer DEF Codes
<1> DEFINE h == [request[q] EXCEPT !.stage = "auth"]
<1>4. CASE Moves(q, h)
  <2>1. /\ h \in RequestRecords /\ Same(q, h)
        /\ h.stage = "auth" /\ h.todo = request[q].todo
    BY <1>1 DEF RequestRecords, Stages, Same
  <2> HIDE DEF h
  <2>2. request'[q] = h
    BY <1>1, <1>4 DEF Moves, Turns, Inv, Shape
  <2>3. Covered(q)' /\ Known(q)' /\ Progress(q)'
    BY <1>1, <2>1, <2>2 DEF RequestInv, Covered, Known, Progress, Same
  <2> QED
    BY <1>1, <1>4, <2>1, <2>3, GoesOn
<1> QED
  BY <1>3, <1>4 DEF Validate

LEMMA RequireAuthStep == ASSUME Inv, NEW q, RequireAuth(q) PROVE Inv'
<1>1. /\ q \in InFlight /\ q \in Requests /\ request[q].stage = "auth"
      /\ request[q] \in RequestRecords /\ RequestInv(q)
  BY AtStage DEF RequireAuth, Stages
<1>2. ~request[q].acted
  BY <1>1 DEF RequestInv, Progress
<1>3. CASE Moves(q, Answered(q, 401))
  BY <1>1, <1>2, <1>3, MovedToAnswer DEF Codes
<1>4. ASSUME NEW who \in Principals, who = Speaks(request[q]), who = "user" \/ keyLive,
             Moves(q, Accepted(q, who))
      PROVE  Inv'
  <2> DEFINE h == Accepted(q, who)
  <2>1. /\ h \in RequestRecords /\ Same(q, h)
        /\ h.stage = IF request[q].route.at = "row" THEN "load" ELSE "assert"
        /\ h.who = who /\ h.todo = request[q].todo
    BY <1>1 DEF RequestRecords, Stages, Same, Accepted
  <2> HIDE DEF h
  <2>2. request'[q] = h /\ Observe
    BY <1>1, <1>4 DEF Moves, Turns, Inv, Shape, h
  <2>3. seen'[q].live
    BY <1>1, <1>4, <2>1, <2>2, Observed DEF RequestInv, Noted, Inv
  <2>4. Covered(q)' /\ Progress(q)'
    BY <1>1, <2>1, <2>2 DEF RequestInv, Covered, Progress, Same
  <2>5. Known(q)'
    BY <1>4, <2>1, <2>2, <2>3 DEF Known, Speaks, Same
  <2> QED
    BY <1>1, <1>4, <2>1, <2>4, <2>5, GoesOn DEF h
<1>5. CASE request[q].cred \in {"key", "both"}
  BY <1>3, <1>4, <1>5 DEF RequireAuth, Speaks, Principals
<1>6. CASE request[q].cred \notin {"key", "both"}
  BY <1>3, <1>4, <1>6 DEF RequireAuth, Speaks, Principals
<1> QED
  BY <1>5, <1>6

\* The row's tenant is what is left to assert.
LEMMA LoadStep == ASSUME Inv, NEW q, Load(q) PROVE Inv'
<1> DEFINE x == request[q].on
           h == [request[q] EXCEPT !.stage = "assert", !.todo = << RowTenant[x] >>]
<1>1. /\ q \in InFlight /\ q \in Requests /\ request[q].stage = "load"
      /\ request[q] \in RequestRecords /\ RequestInv(q)
  BY AtStage DEF Load, Stages
<1>2. /\ ~request[q].acted
      /\ x \in Rows /\ request[q].needs = {RowTenant[x]}
  BY <1>1 DEF RequestInv, Progress, Covered
<1>3. CASE Moves(q, Answered(q, 404))
  BY <1>1, <1>2, <1>3, MovedToAnswer DEF Codes
<1>4. CASE Moves(q, h)
  <2>1. << RowTenant[x] >> \in Seq(Tenants) /\ RowTenant[x] \in Elements(<< RowTenant[x] >>)
    BY <1>2, ApiAssumption DEF Elements
  <2>2. /\ h \in RequestRecords /\ Same(q, h)
        /\ h.stage = "assert" /\ h.who = request[q].who /\ h.todo = << RowTenant[x] >>
    BY <1>1, <2>1 DEF RequestRecords, Stages, Same
  <2> HIDE DEF h
  <2>3. request'[q] = h /\ Observe
    BY <1>1, <1>4 DEF Moves, Turns, Inv, Shape
  <2>4. seen[q].live => seen'[q].live
    BY <1>1, <2>2, <2>3, Observed DEF Inv
  <2>5. Covered(q)' /\ Known(q)' /\ Progress(q)'
    BY <1>1, <1>2, <2>1, <2>2, <2>3, <2>4
    DEF RequestInv, Covered, Known, Progress, Speaks, Same
  <2> QED
    BY <1>1, <1>4, <2>2, <2>5, GoesOn
<1> QED
  BY <1>3, <1>4 DEF Load

\* Of a sequence, the head is asserted and the tail is left.
LEMMA HeadOrTail ==
  ASSUME NEW s \in Seq(Tenants), s # << >>
  PROVE  Tail(s) \in Seq(Tenants) /\ Elements(s) = {Head(s)} \union Elements(Tail(s))
<1>1. /\ Tail(s) \in Seq(Tenants) /\ Head(s) = s[1] /\ Len(s) \in Nat \ {0}
      /\ Len(Tail(s)) = Len(s) - 1
      /\ DOMAIN s = 1 .. Len(s) /\ DOMAIN Tail(s) = 1 .. Len(Tail(s))
      /\ \A i \in 1 .. Len(s) - 1 : Tail(s)[i] = s[i + 1]
  OBVIOUS
<1>2. Elements(Tail(s)) \subseteq Elements(s) /\ Head(s) \in Elements(s)
  BY <1>1 DEF Elements
<1>3. ASSUME NEW i \in DOMAIN s PROVE s[i] \in {Head(s)} \union Elements(Tail(s))
  <2>1. CASE i = 1
    BY <1>1, <2>1
  <2>2. CASE i # 1
    <3>1. i - 1 \in DOMAIN Tail(s) /\ Tail(s)[i - 1] = s[i]
      BY <1>1, <2>2
    <3> QED
      BY <3>1 DEF Elements
  <2> QED
    BY <2>1, <2>2
<1> QED
  BY <1>1, <1>2, <1>3 DEF Elements

\* A tenant that passes has been seen to hold the scope; when none is left, all have.
LEMMA AssertScopeStep == ASSUME Inv, NEW q, AssertScope(q) PROVE Inv'
<1>1. /\ q \in InFlight /\ q \in Requests /\ request[q].stage = "assert"
      /\ request[q] \in RequestRecords /\ RequestInv(q)
  BY AtStage DEF AssertScope, Stages
<1>2. /\ ~request[q].acted
      /\ request[q].needs \subseteq seen[q].held \union Elements(request[q].todo)
      /\ request[q].who = Speaks(request[q])
      /\ request[q].todo \in Seq(Tenants)
  BY <1>1 DEF RequestInv, Progress, Covered, Known, RequestRecords
<1>3. CASE Moves(q, Answered(q, 403))
  BY <1>1, <1>2, <1>3, MovedToAnswer DEF Codes
<1> DEFINE act  == [request[q] EXCEPT !.stage = "act"]
           next == [request[q] EXCEPT !.todo = Tail(@)]
<1>4. CASE request[q].todo = << >> /\ Moves(q, act)
  <2>1. /\ act \in RequestRecords /\ Same(q, act)
        /\ act.stage = "act" /\ act.who = request[q].who
    BY <1>1 DEF RequestRecords, Stages, Same
  <2> HIDE DEF act
  <2>2. request'[q] = act /\ Observe
    BY <1>1, <1>4 DEF Moves, Turns, Inv, Shape
  <2>3. seen[q].held \subseteq seen'[q].held /\ (seen[q].live => seen'[q].live)
    BY <1>1, <2>1, <2>2, Observed DEF Inv
  <2>4. Elements(request[q].todo) = {}
    BY <1>4 DEF Elements
  <2>5. Covered(q)' /\ Known(q)' /\ Progress(q)'
    BY <1>1, <1>2, <2>1, <2>2, <2>3, <2>4
    DEF RequestInv, Covered, Known, Progress, Speaks, Same
  <2> QED
    BY <1>1, <1>4, <2>1, <2>5, GoesOn
<1>5. CASE /\ request[q].todo # << >>
           /\ << request[q].who, Head(request[q].todo), request[q].route.scope >> \in held
           /\ Moves(q, next)
  <2>1. /\ Tail(request[q].todo) \in Seq(Tenants)
        /\ Elements(request[q].todo) =
             {Head(request[q].todo)} \union Elements(Tail(request[q].todo))
    BY <1>2, <1>5, HeadOrTail
  <2>2. /\ next \in RequestRecords /\ Same(q, next)
        /\ next.stage = "assert" /\ next.who = request[q].who
        /\ next.todo = Tail(request[q].todo)
    BY <1>1, <2>1 DEF RequestRecords, Same
  <2> HIDE DEF next
  <2>3. request'[q] = next /\ Observe
    BY <1>1, <1>5 DEF Moves, Turns, Inv, Shape
  <2>4. seen[q].held \subseteq seen'[q].held /\ (seen[q].live => seen'[q].live)
    BY <1>1, <2>2, <2>3, Observed DEF Inv
  <2>5. request[q].needs \ Elements(Tail(request[q].todo)) \subseteq seen[q].held
    BY <1>1, <1>2, <1>5, <2>1 DEF RequestInv, Noted
  <2>6. Covered(q)' /\ Known(q)' /\ Progress(q)'
    BY <1>1, <2>2, <2>3, <2>4, <2>5
    DEF RequestInv, Covered, Known, Progress, Speaks, Same
  <2> QED
    BY <1>1, <1>5, <2>2, <2>6, GoesOn
<1> QED
  BY <1>3, <1>4, <1>5 DEF AssertScope

LEMMA ReadStep == ASSUME Inv, NEW q, Read(q) PROVE Inv'
<1>1. /\ q \in InFlight /\ q \in Requests /\ request[q].stage = "act"
      /\ request[q] \in RequestRecords /\ RequestInv(q)
  BY AtStage DEF Read, Stages
<1>2. /\ ~request[q].acted /\ seen[q].live
      /\ request[q].needs \subseteq seen[q].held
  BY <1>1 DEF RequestInv, Progress, Covered, Known
<1>3. Reads(request[q]) /\ \E code \in {404, 200} : Moves(q, Answered(q, code))
  BY DEF Read
<1> QED
  BY <1>1, <1>2, <1>3, MovedToAnswer DEF Codes

\* The one answer that hides a change: the role went before it was read again.
LEMMA ReadBackStep == ASSUME Inv, NEW q, ReadBack(q) PROVE Inv'
<1> DEFINE h == [request[q] EXCEPT !.stage = "reply"]
<1>1. /\ q \in InFlight /\ q \in Requests /\ request[q].stage = "readBack"
      /\ request[q] \in RequestRecords /\ RequestInv(q)
  BY AtStage DEF ReadBack, Stages
<1>2. CASE request[q].on \notin rows /\ Moves(q, Answered(q, 404))
  <2>1. request[q].route.op = "addScopes"
    BY <1>1 DEF RequestInv, Progress
  <2> QED
    BY <1>1, <1>2, <2>1, MovedToAnswer DEF Codes
<1>3. CASE Moves(q, h)
  <2>1. h \in RequestRecords /\ Same(q, h) /\ h.stage = "reply" /\ h.who = request[q].who
    BY <1>1 DEF RequestRecords, Stages, Same
  <2> HIDE DEF h
  <2>2. request'[q] = h /\ Observe
    BY <1>1, <1>3 DEF Moves, Turns, Inv, Shape
  <2>3. seen[q].held \subseteq seen'[q].held /\ (seen[q].live => seen'[q].live)
    BY <1>1, <2>1, <2>2, Observed DEF Inv
  <2>4. Covered(q)' /\ Known(q)' /\ Progress(q)'
    BY <1>1, <2>1, <2>2, <2>3 DEF RequestInv, Covered, Known, Progress, Speaks, Same
  <2> QED
    BY <1>1, <1>3, <2>1, <2>4, GoesOn
<1> QED
  BY <1>2, <1>3 DEF ReadBack

LEMMA ReplyStep == ASSUME Inv, NEW q, Reply(q) PROVE Inv'
<1>1. /\ q \in InFlight /\ q \in Requests /\ request[q].stage = "reply"
      /\ request[q] \in RequestRecords /\ RequestInv(q)
  BY AtStage DEF Reply, Stages
<1>2. /\ request[q].acted /\ seen[q].live
      /\ request[q].needs \subseteq seen[q].held
  BY <1>1 DEF RequestInv, Progress, Covered, Known
<1> QED
  BY <1>1, <1>2, MovedToAnswer DEF Codes, Reply

\* A change is made by whoever has been allowed to make it.
LEMMA ActStep == ASSUME Inv, NEW q, Act(q) PROVE Inv'
<1> DEFINE h == Done(q)
<1>1. /\ q \in InFlight /\ q \in Requests /\ request[q].stage = "act"
      /\ request[q] \in RequestRecords /\ RequestInv(q)
  BY AtStage DEF Act, Stages
<1>2. /\ ~request[q].acted /\ seen[q].live
      /\ request[q].needs \subseteq seen[q].held
      /\ request[q].who = Speaks(request[q]) /\ request[q].code = 0
  BY <1>1 DEF RequestInv, Progress, Covered, Known
<1>3. ASSUME NEW code \in {400, 404, 409, 500}, Moves(q, Answered(q, code)) PROVE Inv'
  BY <1>1, <1>2, <1>3, MovedToAnswer DEF Codes
<1>4. ASSUME /\ tenants' = IF request[q].route.does = "drop"
                           THEN tenants \ ({request[q].on} \ {Master}) ELSE tenants
             /\ rows' = CASE request[q].route.does = "purge" -> rows \ {request[q].on}
                          [] OTHER -> { x \in rows : RowTenant[x] \in tenants' }
             /\ UNCHANGED << held, keyLive >>
             /\ Turns(q, h)
      PROVE  Inv'
  <2>1. /\ h \in RequestRecords /\ h.acted
        /\ h.stage = IF request[q].route.op = "addScopes" THEN "readBack" ELSE "reply"
        /\ h.code = 0 /\ h.needs = request[q].needs /\ h.route = request[q].route
        /\ h.who = request[q].who /\ h.cred = request[q].cred
    BY <1>1, <1>2 DEF RequestRecords, Stages, Done
  <2> HIDE DEF h
  <2>2. request'[q] = h /\ Observe /\ file' = file /\ server' = server
    BY <1>1, <1>4 DEF Turns, Inv, Shape
  <2>3. /\ seen[q].held \subseteq seen'[q].held /\ (seen[q].live => seen'[q].live)
        /\ Noted(q)'
    BY <1>1, <2>1, <2>2, Observed DEF Inv
  <2>4. RequestInv(q)'
    BY <1>1, <1>2, <2>1, <2>2, <2>3
    DEF RequestInv, Covered, Known, Progress, Allowed, Truthful, Speaks
  <2>5. Tables' /\ rows' \subseteq rows
    BY <1>4, <2>2 DEF Inv, Tables
  <2> QED
    BY <1>1, <1>4, <2>1, <2>4, <2>5, Turned DEF Inv, Turns
<1> QED
  BY <1>3, <1>4 DEF Act, RefusalCodes, worldVars

\* A failure is answered with 500, whether or not the commit went through.
LEMMA FailsStep == ASSUME Inv, NEW q, Fails(q) PROVE Inv'
<1>1. /\ q \in InFlight /\ q \in Requests
      /\ request[q] \in RequestRecords /\ RequestInv(q) /\ request[q].stage # "idle"
  BY DEF Fails, InFlight, Inv, Shape, RequestsInv
<1>2. /\ UNCHANGED << tenants, rows, held, keyLive >>
      /\ \/ Turns(q, Answered(q, 500))
         \/ request[q].stage = "act" /\ Turns(q, [Answered(q, 500) EXCEPT !.acted = TRUE])
  BY DEF Fails, worldVars, At
<1> DEFINE a == Answered(q, 500)
<1>3. /\ a \in RequestRecords /\ a.stage = "idle" /\ a.code = 500
      /\ a.needs = request[q].needs
  <2>1. 500 \in Codes
    BY DEF Codes
  <2> QED
    BY <1>1, <2>1, AnswerShape
<1>4. CASE Turns(q, Answered(q, 500))
  <2>1. /\ request' = [request EXCEPT ![q] = a] /\ request'[q] = a
        /\ Observe /\ UNCHANGED << file, server >>
    BY <1>1, <1>4 DEF Turns, Inv, Shape
  <2>3. Tables'
    BY <1>2, <2>1 DEF Inv, Tables
  <2>2. RequestInv(q)'
    BY <1>1, <1>2, <2>1, AnswerKeeps DEF Inv, Codes
  <2>4. Shape /\ ServerInv /\ RequestsInv /\ rows' \subseteq rows /\ server' = server
    BY <1>2, <2>1 DEF Inv
  <2>5. a.stage # "cut"
    BY <1>3
  <2> HIDE DEF a
  <2>6. Shape' /\ ServerInv' /\ RequestsInv'
    BY <1>1, <1>3, <2>1, <2>2, <2>4, <2>5, Turned
  <2> QED
    BY <2>3, <2>6 DEF Inv
<1>5. CASE request[q].stage = "act" /\ Turns(q, [Answered(q, 500) EXCEPT !.acted = TRUE])
  <2> DEFINE h == [a EXCEPT !.acted = TRUE]
  <2> HIDE DEF a
  <2>1. /\ h \in RequestRecords /\ h.stage = "idle" /\ h.code = 500
        /\ h.needs = request[q].needs
    BY <1>3 DEF RequestRecords
  <2>2. Turns(q, h)
    BY <1>5 DEF a
  <2> HIDE DEF h
  <2>3. /\ request' = [request EXCEPT ![q] = h] /\ request'[q] = h
        /\ Observe /\ UNCHANGED << file, server >>
    BY <1>1, <2>2 DEF Turns, Inv, Shape
  <2>4. /\ seen[q].held \subseteq seen'[q].held /\ (seen[q].live => seen'[q].live)
        /\ Noted(q)'
    BY <1>1, <2>1, <2>3, Observed DEF Inv
  <2>5. RequestInv(q)'
    BY <1>1, <1>5, <2>1, <2>3, <2>4
    DEF RequestInv, Covered, Known, Progress, Allowed, Truthful
  <2>6. Tables'
    BY <1>2, <2>3 DEF Inv, Tables
  <2> QED
    BY <1>1, <1>2, <2>1, <2>3, <2>5, <2>6, Turned DEF Inv
<1> QED
  BY <1>2, <1>4, <1>5

\* What a request asks for at tenants that it names is what it has to assert.
LEMMA TodosCover ==
  ASSUME NEW r, NEW x \in Targets(r), NEW todo \in Todos(r, x)
  PROVE  todo \in Seq(Tenants) /\ x \in Tenants \union Rows
<1>1. x \in Tenants \union Rows /\ (r.at = "given" => x \in Tenants)
  BY ApiAssumption DEF Targets
<1>2. \A a, b \in Tenants : /\ << >> \in Seq(Tenants) /\ <<a>> \in Seq(Tenants)
                            /\ <<a, b>> \in Seq(Tenants)
  OBVIOUS
<1>3. \/ r.at = "given" /\ todo = <<x>>
      \/ todo = << Master >> \/ todo = << >>
      \/ \E t \in Tenants : todo = <<t>>
      \/ todo \in Tenants \X Tenants
  BY DEF Todos
<1>4. todo \in Tenants \X Tenants => \E a, b \in Tenants : todo = <<a, b>>
  OBVIOUS
<1> QED
  BY <1>1, <1>2, <1>3, <1>4, ApiAssumption

LEMMA ArriveStep ==
  ASSUME Inv, NEW q \in Requests, NEW r \in file, NEW cred \in {"none", "key", "token", "both"},
         NEW x \in Targets(r), NEW todo \in Todos(r, x), Arrive(q, r, x, cred, todo)
  PROVE  Inv'
<1> DEFINE needs == IF r.at = "row" THEN {RowTenant[x]} ELSE { todo[i] : i \in DOMAIN todo }
           h == [Idle EXCEPT !.route = r, !.on = x, !.cred = cred, !.stage = "validate",
                             !.todo = todo, !.needs = needs]
<1>1. todo \in Seq(Tenants) /\ x \in Tenants \union Rows /\ (r.at = "row" => x \in Rows)
  BY TodosCover DEF Targets
<1>2. /\ Elements(todo) \subseteq Tenants
      /\ r.at = "row" => RowTenant[x] \in Tenants
  BY <1>1, ApiAssumption DEF Elements
<1>3. r \in (UNION Files) \union {NoRoute}
  BY DEF Inv, Tables
<1>4. /\ h.route = r /\ h.on = x /\ h.stage = "validate" /\ h.todo = todo
      /\ h.needs = IF r.at = "row" THEN {RowTenant[x]} ELSE Elements(todo)
      /\ ~h.acted /\ h.code = 0
  BY DEF Idle, Elements
<1>5. h \in RequestRecords
  <2>1. needs \in SUBSET Tenants
    BY <1>2 DEF Elements
  <2> HIDE DEF needs
  <2>2. Idle \in RequestRecords
    <3>1. << >> \in Seq(Tenants)
      OBVIOUS
    <3> QED
      BY <3>1, ApiAssumption DEF Idle, RequestRecords, Stages, Codes
  <2> QED
    BY <1>1, <1>3, <2>1, <2>2 DEF RequestRecords, Stages
<1>6. /\ request' = [request EXCEPT ![q] = h] /\ server' = server /\ server = "up"
      /\ UNCHANGED << file, tenants, rows, held, keyLive >> /\ Observe /\ q \notin InFlight
  BY DEF Arrive, worldVars
<1> HIDE DEF h
<1>7. request'[q] = h
  BY <1>6 DEF Inv, Shape
<1>8. Noted(q)'
  BY <1>5, <1>6, <1>7, Observed DEF Inv
<1>9. RequestInv(q)'
  BY <1>1, <1>4, <1>7, <1>8
  DEF RequestInv, Covered, Known, Progress, Allowed, Truthful
<1> QED
  BY <1>4, <1>5, <1>6, <1>9, Turned DEF Inv, Tables

\* Every step of a request.
LEMMA RequestKeeps == ASSUME Inv, NEW q \in Requests, RequestStep(q) PROVE Inv'
BY ArriveStep, ValidateStep, RequireAuthStep, LoadStep, AssertScopeStep, ReadStep, ActStep,
   ReadBackStep, ReplyStep, FailsStep DEF RequestStep

-----------------------------------------------------------------------------
(* The world and the process *)

\* Whatever others change, what has been seen of a request remains.
LEMMA WorldKeeps == ASSUME Inv, World PROVE Inv'
<1>1. /\ UNCHANGED << file, request, server >> /\ Observe /\ rows' \subseteq rows
  BY DEF World, Grant, Ungrant, KeyEnds, TenantGoes, RowGoes, Changes, Inv, Tables
<1>2. Tables'
  <2>1. ASSUME NEW g \in Principals \X Tenants \X { r.scope : r \in file }, Grant(g) \/ Ungrant(g)
        PROVE  Tables'
    <3>1. g \in Principals \X Tenants \X Scopes
      <4>1. { r.scope : r \in file } \subseteq Scopes
        BY DEF Scopes, Inv, Tables
      <4> QED
        BY <4>1
    <3> QED
      BY <1>1, <2>1, <3>1 DEF Grant, Ungrant, Inv, Tables
  <2>2. CASE KeyEnds
    BY <1>1, <2>2 DEF KeyEnds, Inv, Tables
  <2>3. ASSUME NEW t \in Tenants, TenantGoes(t) PROVE Tables'
    BY <1>1, <2>3 DEF TenantGoes, Inv, Tables
  <2>4. ASSUME NEW x \in Rows, RowGoes(x) PROVE Tables'
    BY <1>1, <2>4 DEF RowGoes, Inv, Tables
  <2> QED
    BY <2>1, <2>2, <2>3, <2>4 DEF World
<1>3. RequestsInv'
  BY <1>1, Bystander DEF Inv, RequestsInv
<1>4. Shape' /\ ServerInv'
  <2>1. \A p \in Requests : seen'[p] \in [held : SUBSET Tenants, live : BOOLEAN]
    BY <1>1, Observed DEF Inv, Shape
  <2> QED
    BY <1>1, <2>1 DEF Inv, Shape, Observe, ServerInv
<1> QED
  BY <1>2, <1>3, <1>4 DEF Inv

\* A request that is cut off keeps what is known of it, and has no answer.
LEMMA CutKeeps ==
  ASSUME Shape, RequestsInv, Observe, Cut, rows' = rows
  PROVE  Shape' /\ RequestsInv'
<1> DEFINE cut(q) == [request[q] EXCEPT !.stage = "cut"]
<1>1. ASSUME NEW q \in Requests
      PROVE  /\ request[q] \in RequestRecords /\ RequestInv(q)
             /\ cut(q) \in RequestRecords /\ cut(q).stage = "cut"
             /\ cut(q).acted = request[q].acted /\ cut(q).code = request[q].code
             /\ cut(q).needs = request[q].needs /\ cut(q).route = request[q].route
             /\ cut(q).on = request[q].on
  BY DEF Shape, RequestRecords, Stages, RequestsInv
<1>2. \A q \in Requests : request'[q] = IF q \in InFlight THEN cut(q) ELSE request[q]
  BY DEF Cut
<1> HIDE DEF cut
<1>3. request' \in [Requests -> RequestRecords]
  BY <1>1, <1>2 DEF Cut, Shape
<1>4. \A q \in Requests : seen'[q] \in [held : SUBSET Tenants, live : BOOLEAN]
  BY <1>3, Observed
<1>5. ASSUME NEW q \in Requests PROVE RequestInv(q)'
  <2>1. CASE q \notin InFlight
    BY <1>1, <1>2, <1>5, <2>1, Bystander
  <2>2. CASE q \in InFlight
    <3>1. request'[q] = cut(q) /\ RequestInv(q) /\ request[q].stage \notin {"idle", "cut"}
      BY <1>1, <1>2, <1>5, <2>2 DEF InFlight
    <3>2. /\ seen[q].held \subseteq seen'[q].held /\ (seen[q].live => seen'[q].live)
          /\ Noted(q)'
      BY <1>3, <1>5, <2>2, Observed
    <3>3. Covered(q)' /\ Known(q)' /\ Progress(q)'
      BY <1>1, <1>5, <3>1 DEF Covered, Known, Progress, RequestInv
    <3>4. Allowed(q)' /\ Truthful(q)'
      BY <1>1, <1>5, <3>1, <3>2 DEF Allowed, Truthful, RequestInv, Reads
    <3> QED
      BY <3>2, <3>3, <3>4 DEF RequestInv
  <2> QED
    BY <2>1, <2>2
<1> QED
  BY <1>3, <1>4, <1>5 DEF Shape, RequestsInv, Observe

\* Only the watchdog ends the process with requests in flight.
LEMMA ProcessKeeps == ASSUME Inv, Process PROVE Inv'
<1>1. /\ UNCHANGED << file, tenants, rows, held, keyLive >> /\ Observe
      /\ server' \in {"up", "closing", "ending", "exit0", "exit1"}
  BY DEF Process, Signal, Closed, Exit, Watchdog, Server, worldVars
<1>2. Tables'
  BY <1>1 DEF Inv, Tables
<1>3. CASE UNCHANGED request /\ (Signal \/ Closed \/ Exit)
  <2>1. RequestsInv'
    BY <1>1, <1>3, Bystander DEF Inv, RequestsInv
  <2>2. \A p \in Requests : seen'[p] \in [held : SUBSET Tenants, live : BOOLEAN]
    BY <1>1, <1>3, Observed DEF Inv, Shape
  <2>3. Shape'
    BY <1>1, <1>3, <2>2 DEF Inv, Shape, Observe
  <2>4. ServerInv'
    BY <1>3 DEF Inv, ServerInv, Shape, RequestRecords, Stages, Signal, Closed, Exit, Server,
                Drained, InFlight
  <2> QED
    BY <1>2, <2>1, <2>3, <2>4 DEF Inv
<1>4. CASE Watchdog
  <2>1. Shape' /\ RequestsInv'
    BY <1>1, <1>4, CutKeeps DEF Inv, Watchdog
  <2>2. ServerInv'
    BY <1>4 DEF ServerInv, Watchdog, Server
  <2> QED
    BY <1>2, <2>1, <2>2 DEF Inv
<1> QED
  BY <1>3, <1>4 DEF Process, Signal, Closed, Exit

-----------------------------------------------------------------------------
(* The theorems *)

LEMMA InitInv == Init => Inv
<1> SUFFICES ASSUME Init PROVE Inv
  OBVIOUS
<1>1. Tables
  <2>1. { r.scope : r \in file } \subseteq Scopes
    BY DEF Init, Scopes
  <2> QED
    BY <2>1, ApiAssumption DEF Init, Tables
<1>2. Idle \in RequestRecords
  <2>1. << >> \in Seq(Tenants)
    OBVIOUS
  <2> QED
    BY <2>1, ApiAssumption DEF Idle, RequestRecords, Stages, Codes
<1>3. Shape
  BY <1>2 DEF Init, Shape
<1>4. Idle.stage = "idle" /\ Idle.code = 0 /\ ~Idle.acted
  BY DEF Idle
<1>5. ServerInv
  BY <1>4 DEF Init, ServerInv
<1>6. ASSUME NEW q \in Requests PROVE RequestInv(q)
  BY <1>4, <1>6
  DEF Init, RequestInv, Noted, InFlight, Covered, Known, Progress, Allowed, Truthful
<1> QED
  BY <1>1, <1>3, <1>5, <1>6 DEF Inv, RequestsInv

LEMMA StepInv == Inv /\ [Next]_vars => Inv'
<1> SUFFICES ASSUME Inv, [Next]_vars PROVE Inv'
  OBVIOUS
<1>1. CASE UNCHANGED vars
  BY <1>1
  DEF vars, worldVars, Inv, Tables, Shape, ServerInv, RequestsInv, RequestInv, Noted, InFlight,
      Covered, Known, Progress, Allowed, Truthful, Reads
<1>2. CASE Next
  BY <1>2, RequestKeeps, WorldKeeps, ProcessKeeps DEF Next
<1> QED
  BY <1>1, <1>2

LEMMA AlwaysInv == Spec => []Inv
BY InitInv, StepInv, PTL DEF Spec

\* The tables and the requests keep their types: the rows of a tenant that is gone are
\* gone with it, and a request past requireAuth speaks for its credential.
THEOREM TypeCorrect == Spec => []TypeOK
<1>1. Inv => TypeOK
  BY DEF Inv, Tables, Shape, RequestRecords, RequestsInv, RequestInv, Known, TypeOK
<1> QED
  BY <1>1, AlwaysInv, PTL

\* No positive answer and no change without a live credential and the scope at every
\* tenant concerned, at some moment of the request, whatever others do between the
\* awaits of requireAuth, the load, assertScope and the service call.
THEOREM OnlyTheAllowedAct == Spec => []ActsWhereAllowed
<1>1. Inv => ActsWhereAllowed
  BY DEF Inv, RequestsInv, RequestInv, Allowed, ActsWhereAllowed
<1> QED
  BY <1>1, AlwaysInv, PTL

\* The codes tell whether a change was made; only addScopes may hide one.
THEOREM CodesAreTrue == Spec => []AnswersTellTruly
<1>1. Inv => AnswersTellTruly
  BY DEF Inv, RequestsInv, RequestInv, Truthful, AnswersTellTruly
<1> QED
  BY <1>1, AlwaysInv, PTL

\* withShutdownTimeout reports 0 only after every request has been answered.
THEOREM ZeroCutsNobodyOff == Spec => []CleanExit
<1>1. Inv => CleanExit
  BY DEF Inv, ServerInv, CleanExit
<1> QED
  BY <1>1, AlwaysInv, PTL
=============================================================================
