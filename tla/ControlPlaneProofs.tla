-------------------------- MODULE ControlPlaneProofs --------------------------
(***************************************************************************)
(* Proofs about the control plane: the request pipeline with its gate      *)
(* (ControlServer) and the inactivity job (InactivityJob), for any number  *)
(* of requests, any routes and step-up modes, any accounts and periods.    *)
(*                                                                         *)
(* The proof about requests does not look into the routes or the matrix:   *)
(* ServerInv follows a request through its phases (RequestOK), the spent   *)
(* proofs (ProofsOK) and the gate (GateOK), and an effect is entitled      *)
(* because every path to it passes authorizeRoute.                         *)
(***************************************************************************)
EXTENDS MCControlPlane, FiniteSetTheorems, TLAPS

AnyRoute == Routes \cup {Idle.route, RestoreCommit[1]}
AnyCaller == Callers \cup {RestoreCommit[2]}

Request ==
  [phase : Phases, op : {0} \cup Requests, route : AnyRoute, caller : AnyCaller,
   lease : BOOLEAN, handle : BOOLEAN, consumed : BOOLEAN, effect : BOOLEAN,
   records : 0..1, reply : Fate]

Maintains(x) == x.phase \in {"draining", "exclusive"}

\* What a request has shown by the phase it is in.
RequestOK(x) ==
  /\ (x.phase = "done") = (x.reply # "pending")
  /\ x.phase # "idle" => x.op \in Requests
  /\ x.phase \in {"idle", "received", "bound", "authorized"} =>
       ~x.effect /\ ~x.consumed /\ x.records = 0
  /\ x.phase = "bound" => IsPublic(x.route) \/ x.caller.method \in x.route.auth
  /\ x.phase \notin {"idle", "received", "bound", "done"} \/ x.effect =>
       Entitled(x.route, x.caller)
  /\ /\ x.caller.method = "api_key"
     /\ x.phase \notin {"idle", "received", "bound", "authorized", "done"} \/ x.effect
     => x.records = 1
  /\ x.lease = (x.phase \in {"entered", "handled"} /\ TakesLease(x.route))
  /\ x.phase \in {"claimed", "draining", "exclusive"} => x.route.id = "restores.commit"

\* Requests that consumed a proof consumed different ones, all of them spent.
ProofsOK(rq, used) ==
  /\ \A r \in Requests : rq[r].consumed => rq[r].op \in used
  /\ \A r, q \in Requests :
       r # q /\ rq[r].consumed /\ rq[q].consumed => rq[r].op # rq[q].op

Leases(rq) == {r \in Requests : rq[r].lease}

\* The count is exact; who drains or excludes is the one the gate is shut for; and
\* nobody has a lease while the gate is exclusive.
GateOK(rq, g, j) ==
  /\ g.active = Cardinality(Leases(rq)) + (IF j THEN 1 ELSE 0)
  /\ g.phase = "open" => \A r \in Requests : ~Maintains(rq[r])
  /\ g.phase # "open" => \E q \in Requests :
       /\ rq[q].phase = g.phase
       /\ \A r \in Requests : Maintains(rq[r]) => r = q
  /\ g.phase = "exclusive" => ~j /\ Leases(rq) = {}

ServerTyped ==
  /\ req \in [Requests -> Request]
  /\ gate \in [phase : {"open", "draining", "exclusive"}, active : Int]
  /\ spent \subseteq Requests
  /\ session \in BOOLEAN /\ job \in BOOLEAN /\ mode \in StepUpModes

ServerInv ==
  /\ ServerTyped
  /\ \A r \in Requests : RequestOK(req[r])
  /\ ProofsOK(req, spent)
  /\ GateOK(req, gate, job)

-----------------------------------------------------------------------------
(* Authorization.                                                          *)

\* A scope that is granted is the caller's: whoever is confined to some services
\* or users reaches only those (authorizeScope).
LEMMA ScopeIsTheCallers ==
  ASSUME NEW route, NEW caller, authorizeScope(route, caller),
         Outcome(route, caller) \in
           {"assigned_services", "scoped_service", "related_users", "related_users_step_up"},
         route.permission # "invite_ordinary_user"
  PROVE  caller.scoped
<1> DEFINE o == Outcome(route, caller)
<1>1. UserScope(route, caller, o)
  BY DEF authorizeScope, permissionNeedsScope
<1> HIDE DEF o
<1>2. o \in {"assigned_services", "scoped_service", "related_users", "related_users_step_up"}
  BY DEF o
<1>3. CASE o \in {"related_users", "related_users_step_up"}
  BY <1>1, <1>3 DEF UserScope
<1>4. CASE o \in {"assigned_services", "scoped_service"}
  <2>1. ServiceScope(route, caller, o)
    BY <1>1, <1>4 DEF UserScope
  <2> QED
    BY <2>1, <1>4 DEF ServiceScope
<1> QED
  BY <1>2, <1>3, <1>4

\* Whoever authorizeRoute lets on is entitled.
LEMMA AuthorizedIsEntitled ==
  ASSUME NEW route, NEW caller, NEW op,
         IsPublic(route) \/ caller.method \in route.auth,
         authorizeRoute(route, caller, op) = "ok"
  PROVE  Entitled(route, caller)
<1> DEFINE o == Outcome(route, caller)
<1>1. CASE IsPublic(route)
  BY <1>1 DEF Entitled
<1>2. CASE ~IsPublic(route)
  <2>1. /\ o \notin {"deny", "no_account"}
        /\ authorizeScope(route, caller)
    BY <1>2 DEF authorizeRoute
  <2>2. NeedsStepUp(route, caller) =>
          caller.method = "browser_session" /\ verifyStepUp(route, caller, op)
    BY <1>2 DEF authorizeRoute
  <2>3. NeedsStepUp(route, caller) =>
          caller.method = "browser_session" /\ caller.stepped # "none"
    BY <2>2 DEF verifyStepUp
  <2>4. caller.method = "browser_session" /\ route.stepUp # "none" => caller.stepped # "none"
    BY <2>3 DEF NeedsStepUp
  <2>5. permissionNeedsHumanStepUp(o) =>
          caller.method = "browser_session" /\ caller.stepped # "none"
    BY <2>3 DEF NeedsStepUp
  <2>6. o \in {"assigned_services", "scoped_service", "related_users",
               "related_users_step_up"}
          /\ route.permission # "invite_ordinary_user" => caller.scoped
    BY <2>1, ScopeIsTheCallers
  <2> QED
    BY <1>2, <2>1, <2>4, <2>5, <2>6 DEF Entitled
<1> QED
  BY <1>1, <1>2

-----------------------------------------------------------------------------
(* One request moves.                                                      *)

LEMMA RequestsFinite ==
  IsFiniteSet(Requests) /\ \A S \in SUBSET Requests : IsFiniteSet(S)
<1>1. IsFiniteSet(Requests)
  BY RequestsParameter, FS_Interval DEF Requests
<1> QED
  BY <1>1, FS_Subset

LEMMA RequestPut ==
  ASSUME ServerTyped, NEW r \in Requests, NEW x \in Request, req' = [req EXCEPT ![r] = x]
  PROVE  /\ req' \in [Requests -> Request]
         /\ \A q \in Requests : req'[q] = IF q = r THEN x ELSE req[q]
BY DEF ServerTyped

\* What a lease taken or given back adds to the count.
LeaseChange(old, new) ==
  IF new /\ ~old THEN 1 ELSE IF old /\ ~new THEN -1 ELSE 0

LEMMA LeasesChange ==
  ASSUME ServerTyped, NEW r \in Requests, NEW x \in Request, req' = [req EXCEPT ![r] = x]
  PROVE  /\ Leases(req') = IF x.lease THEN Leases(req) \cup {r} ELSE Leases(req) \ {r}
         /\ Cardinality(Leases(req'))
              = Cardinality(Leases(req)) + LeaseChange(req[r].lease, x.lease)
<1>1. \A q \in Requests : req'[q] = IF q = r THEN x ELSE req[q]
  BY RequestPut
<1>2. Leases(req') = IF x.lease THEN Leases(req) \cup {r} ELSE Leases(req) \ {r}
  BY <1>1 DEF Leases
<1>3. IsFiniteSet(Leases(req)) /\ Cardinality(Leases(req)) \in Nat
  BY RequestsFinite, FS_CardinalityType DEF Leases
<1>4. r \in Leases(req) <=> req[r].lease
  BY DEF Leases
<1>5. x.lease \in BOOLEAN /\ req[r].lease \in BOOLEAN
  BY DEF Request, ServerTyped
<1>6. CASE x.lease
  <2>1. Cardinality(Leases(req) \cup {r})
          = IF r \in Leases(req) THEN Cardinality(Leases(req)) ELSE Cardinality(Leases(req)) + 1
    BY <1>3, FS_AddElement
  <2>2. /\ Leases(req') = Leases(req) \cup {r}
        /\ Cardinality(Leases(req')) = Cardinality(Leases(req) \cup {r})
    BY <1>2, <1>6
  <2>3. LeaseChange(req[r].lease, x.lease) = IF r \in Leases(req) THEN 0 ELSE 1
    BY <1>4, <1>5, <1>6 DEF LeaseChange
  <2> QED
    <3>1. Cardinality(Leases(req'))
            = Cardinality(Leases(req)) + LeaseChange(req[r].lease, x.lease)
      BY <1>3, <2>1, <2>2, <2>3
    <3> QED
      BY <1>2, <3>1
<1>7. CASE ~x.lease
  <2>1. Cardinality(Leases(req) \ {r})
          = IF r \in Leases(req) THEN Cardinality(Leases(req)) - 1 ELSE Cardinality(Leases(req))
    BY <1>3, FS_RemoveElement
  <2>2. /\ Leases(req') = Leases(req) \ {r}
        /\ Cardinality(Leases(req')) = Cardinality(Leases(req) \ {r})
    BY <1>2, <1>7
  <2>3. LeaseChange(req[r].lease, x.lease) = IF r \in Leases(req) THEN -1 ELSE 0
    BY <1>4, <1>5, <1>7 DEF LeaseChange
  <2> QED
    <3>1. Cardinality(Leases(req'))
            = Cardinality(Leases(req)) + LeaseChange(req[r].lease, x.lease)
      BY <1>3, <2>1, <2>2, <2>3
    <3> QED
      BY <1>2, <3>1
<1> QED
  BY <1>2, <1>5, <1>6, <1>7

\* The request shows what its phase asks for and spends at most its own proof.
LEMMA RequestMoves ==
  ASSUME ServerInv, NEW r \in Requests, NEW x \in Request, req' = [req EXCEPT ![r] = x],
         RequestOK(x),
         \/ spent' = spent /\ (x.consumed => req[r].consumed /\ x.op = req[r].op)
         \/ spent' = spent \cup {x.op} /\ x.op \in Requests /\ x.op \notin spent
  PROVE  /\ req' \in [Requests -> Request]
         /\ \A q \in Requests : RequestOK(req'[q])
         /\ spent' \subseteq Requests
         /\ ProofsOK(req', spent')
<1>1. /\ req' \in [Requests -> Request]
      /\ \A q \in Requests : req'[q] = IF q = r THEN x ELSE req[q]
  BY RequestPut DEF ServerInv
<1>2. \A q \in Requests : RequestOK(req'[q])
  BY <1>1 DEF ServerInv
<1>3. CASE spent' = spent /\ (x.consumed => req[r].consumed /\ x.op = req[r].op)
  <2>1. ProofsOK(req', spent')
    BY <1>1, <1>3 DEF ServerInv, ProofsOK
  <2> QED
    BY <1>1, <1>2, <1>3, <2>1 DEF ServerInv, ServerTyped
<1>4. CASE spent' = spent \cup {x.op} /\ x.op \in Requests /\ x.op \notin spent
  <2>1. \A q \in Requests : req'[q].consumed => req'[q].op \in spent'
    BY <1>1, <1>4 DEF ServerInv, ProofsOK
  <2>2. \A q \in Requests : q # r /\ req'[q].consumed => req'[q].op # x.op
    BY <1>1, <1>4 DEF ServerInv, ProofsOK
  <2>3. \A p, q \in Requests :
          p # q /\ req'[p].consumed /\ req'[q].consumed => req'[p].op # req'[q].op
    BY <1>1, <2>2 DEF ServerInv, ProofsOK
  <2> QED
    BY <1>1, <1>2, <1>4, <2>1, <2>3 DEF ServerInv, ServerTyped, ProofsOK
<1> QED
  BY <1>3, <1>4

\* Outside maintenance a lease is taken at an open gate or given back.
LEMMA OrdinaryMove ==
  ASSUME ServerInv, NEW r \in Requests, NEW x \in Request, req' = [req EXCEPT ![r] = x],
         ~Maintains(x), ~Maintains(req[r]),
         gate' = [gate EXCEPT !.active = @ + LeaseChange(req[r].lease, x.lease)],
         x.lease /\ ~req[r].lease => gate.phase = "open",
         job' = job
  PROVE  /\ gate' \in [phase : {"open", "draining", "exclusive"}, active : Int]
         /\ GateOK(req', gate', job')
<1>1. \A q \in Requests : req'[q] = IF q = r THEN x ELSE req[q]
  BY RequestPut DEF ServerInv
<1>2. /\ Leases(req') = IF x.lease THEN Leases(req) \cup {r} ELSE Leases(req) \ {r}
      /\ Cardinality(Leases(req'))
           = Cardinality(Leases(req)) + LeaseChange(req[r].lease, x.lease)
  BY LeasesChange DEF ServerInv
<1>3. Cardinality(Leases(req)) \in Nat
  BY RequestsFinite, FS_CardinalityType DEF Leases
<1>4. /\ gate'.phase = gate.phase
      /\ gate'.active = gate.active + LeaseChange(req[r].lease, x.lease)
      /\ gate' \in [phase : {"open", "draining", "exclusive"}, active : Int]
  BY DEF ServerInv, ServerTyped, LeaseChange
<1>5. gate'.active = Cardinality(Leases(req')) + (IF job' THEN 1 ELSE 0)
  BY <1>2, <1>3, <1>4 DEF ServerInv, GateOK, LeaseChange
<1>6. gate'.phase = "open" => \A q \in Requests : ~Maintains(req'[q])
  BY <1>1, <1>4 DEF ServerInv, GateOK
<1>7. ASSUME gate'.phase # "open"
      PROVE  \E q \in Requests : /\ req'[q].phase = gate'.phase
                                 /\ \A p \in Requests : Maintains(req'[p]) => p = q
  <2>1. PICK q \in Requests : /\ req[q].phase = gate.phase
                              /\ \A p \in Requests : Maintains(req[p]) => p = q
    BY <1>4, <1>7 DEF ServerInv, GateOK
  <2>2. q # r
    BY <1>4, <1>7, <2>1 DEF ServerInv, ServerTyped, Maintains
  <2> QED
    BY <1>1, <1>4, <2>1, <2>2
<1>8. gate'.phase = "exclusive" => ~job' /\ Leases(req') = {}
  <2>1. r \in Leases(req) <=> req[r].lease
    BY DEF Leases
  <2> QED
    BY <1>2, <1>4, <2>1 DEF ServerInv, GateOK
<1> QED
  BY <1>4, <1>5, <1>6, <1>7, <1>8 DEF GateOK

-----------------------------------------------------------------------------
(* Every action keeps ServerInv.                                           *)

\* A request that has ended.
Ended(x, reply, n) ==
  [x EXCEPT !.phase = "done", !.reply = reply, !.lease = FALSE, !.records = n]

\* A move that is no part of maintenance, of a request and the proof it spends.
LEMMA OrdinaryStep ==
  ASSUME ServerInv, NEW r \in Requests, NEW x \in Request, req' = [req EXCEPT ![r] = x],
         RequestOK(x),
         \/ spent' = spent /\ (x.consumed => req[r].consumed /\ x.op = req[r].op)
         \/ spent' = spent \cup {x.op} /\ x.op \in Requests /\ x.op \notin spent,
         ~Maintains(x), ~Maintains(req[r]),
         gate' = [gate EXCEPT !.active = @ + LeaseChange(req[r].lease, x.lease)],
         x.lease /\ ~req[r].lease => gate.phase = "open",
         UNCHANGED <<session, job, mode>>
  PROVE  ServerInv'
<1>1. /\ req' \in [Requests -> Request]
      /\ \A q \in Requests : RequestOK(req'[q])
      /\ spent' \subseteq Requests
      /\ ProofsOK(req', spent')
  BY RequestMoves
<1>2. /\ gate' \in [phase : {"open", "draining", "exclusive"}, active : Int]
      /\ GateOK(req', gate', job')
  BY OrdinaryMove
<1>3. ServerTyped'
  BY <1>1, <1>2 DEF ServerInv, ServerTyped
<1> QED
  BY <1>1, <1>2, <1>3 DEF ServerInv

\* A lease that is neither taken nor given back leaves the gate as it is.
LEMMA GateUnchanged ==
  ASSUME ServerInv, gate' = gate, NEW l \in BOOLEAN
  PROVE  gate' = [gate EXCEPT !.active = @ + LeaseChange(l, l)]
BY DEF ServerInv, ServerTyped, LeaseChange

\* An answer, with or without one more record of an API key.
LEMMA AnswerKeeps ==
  ASSUME ServerInv, NEW r \in Requests, NEW reply \in Fate \ {"pending"}, NEW n \in 0..1,
         req[r].phase \notin {"idle", "done"}, ~Maintains(req[r]),
         req' = [req EXCEPT ![r] = Ended(req[r], reply, n)],
         req[r].effect => n = req[r].records,
         release(req[r].lease),
         UNCHANGED <<spent, session, job, mode>>
  PROVE  ServerInv'
<1> DEFINE x == Ended(req[r], reply, n)
<1>1. req[r] \in Request /\ RequestOK(req[r])
  BY DEF ServerInv, ServerTyped
<1>2. /\ x \in Request
      /\ x.phase = "done" /\ x.reply = reply /\ x.lease = FALSE /\ x.records = n
      /\ x.route = req[r].route /\ x.caller = req[r].caller /\ x.op = req[r].op
      /\ x.effect = req[r].effect /\ x.consumed = req[r].consumed
  BY <1>1 DEF Request, Ended, Phases
<1> HIDE DEF x
<1>3. RequestOK(x)
  BY <1>1, <1>2 DEF RequestOK
<1>4. ~Maintains(x)
  BY <1>2 DEF Maintains
<1>5. gate' = [gate EXCEPT !.active = @ + LeaseChange(req[r].lease, x.lease)]
  BY <1>1, <1>2 DEF release, LeaseChange, ServerInv, ServerTyped, Request
<1>6. req' = [req EXCEPT ![r] = x]
  BY DEF x
<1> QED
  BY <1>2, <1>3, <1>4, <1>5, <1>6, OrdinaryStep

LEMMA Answers ==
  ASSUME ServerInv, NEW r \in Requests, NEW reply \in Fate \ {"pending"},
         req[r].phase \notin {"idle", "done"}, ~Maintains(req[r]),
         UNCHANGED <<spent, session, job, mode>>,
         \/ Answer(r, reply)
         \/ AnswerRecorded(r, reply) /\ req[r].phase \in {"received", "bound", "authorized"}
  PROVE  ServerInv'
<1>1. req[r] \in Request /\ RequestOK(req[r])
  BY DEF ServerInv, ServerTyped
<1>2. ASSUME NEW answer \in Fate \ {"pending"}, Answer(r, answer)
      PROVE  ServerInv'
  <2>1. req' = [req EXCEPT ![r] = Ended(req[r], answer, req[r].records)]
    BY <1>1, <1>2 DEF Answer, Ended, Request, ServerInv, ServerTyped
  <2>2. release(req[r].lease)
    BY <1>2 DEF Answer
  <2>3. req[r].records \in 0..1
    BY <1>1 DEF Request
  <2> QED
    BY <2>1, <2>2, <2>3, AnswerKeeps
<1>3. CASE /\ req[r].phase \in {"received", "bound", "authorized"}
           /\ req' = [req EXCEPT ![r].phase = "done", ![r].reply = reply,
                                 ![r].lease = FALSE, ![r].records = @ + 1]
           /\ release(req[r].lease)
  <2>1. req[r].records = 0 /\ ~req[r].effect
    BY <1>1, <1>3 DEF RequestOK
  <2>2. req' = [req EXCEPT ![r] = Ended(req[r], reply, 1)]
    BY <1>1, <1>3, <2>1 DEF Ended, Request, ServerInv, ServerTyped
  <2>3. 1 \in 0..1
    OBVIOUS
  <2> QED
    BY <1>3, <2>1, <2>2, <2>3, AnswerKeeps
<1>4. "internal_error" \in Fate \ {"pending"}
  BY DEF Fate
<1> QED
  BY <1>2, <1>3, <1>4 DEF AnswerRecorded

LEMMA IdleTyped == Idle \in Request
<1>1. Idle.route \in AnyRoute /\ Anonymous \in AnyCaller
  BY DEF AnyRoute, AnyCaller, Callers
<1>2. "idle" \in Phases /\ "pending" \in Fate /\ 0 \in 0..1
  BY DEF Phases, Fate
<1>3. Idle.route = RouteNamed("control.health")
  BY DEF Idle
<1> QED
  BY <1>1, <1>2, <1>3 DEF Idle, Request

\* A request arrives: the first, the first again, or a restore commit.
LEMMA SubmitKeeps ==
  ASSUME ServerInv, NEW r \in Requests,
         SubmitFirst(r) \/ SubmitAgain(r) \/ SubmitCommit(r)
  PROVE  ServerInv'
<1>1. req[r] \in Request /\ RequestOK(req[r]) /\ req[r].phase = "idle"
  BY DEF ServerInv, ServerTyped, SubmitFirst, SubmitAgain, SubmitCommit
<1>2. UNCHANGED <<gate, spent, session, job, mode>>
  BY DEF SubmitFirst, SubmitAgain, SubmitCommit
<1>3. \E x \in Request :
        /\ req' = [req EXCEPT ![r] = x]
        /\ x.phase = "received" /\ x.op \in Requests
        /\ x.lease = FALSE /\ ~x.consumed /\ ~x.effect /\ x.records = 0
        /\ x.reply = "pending"
  <2>1. CASE SubmitFirst(r)
    <3>1. PICK call \in FirstRequests :
            req' = [req EXCEPT ![r].phase = "received", ![r].op = r,
                               ![r].route = call[1], ![r].caller = call[2]]
      BY <2>1 DEF SubmitFirst
    <3>2. call[1] \in AnyRoute /\ call[2] \in AnyCaller
      BY DEF FirstRequests, AnyRoute, AnyCaller
    <3> DEFINE x == [req[r] EXCEPT !.phase = "received", !.op = r,
                                   !.route = call[1], !.caller = call[2]]
    <3>3. req' = [req EXCEPT ![r] = x]
      BY <1>1, <3>1 DEF ServerInv, ServerTyped, Request
    <3>4. x \in Request
      BY <1>1, <3>2 DEF Request, Phases
    <3>5. /\ x.phase = "received" /\ x.op \in Requests
          /\ x.lease = FALSE /\ ~x.consumed /\ ~x.effect /\ x.records = 0
          /\ x.reply = "pending"
      BY <1>1 DEF Request, RequestOK
    <3> QED
      BY <3>3, <3>4, <3>5
  <2>2. CASE SubmitAgain(r)
    <3> DEFINE x == [Idle EXCEPT !.phase = "received", !.op = req[1].op,
                                 !.route = req[1].route, !.caller = req[1].caller]
    <3>1. 1 \in Requests
      BY <2>2, RequestsParameter DEF Requests
    <3>2. req[1] \in Request /\ req[1].op \in Requests
      BY <2>2, <3>1 DEF ServerInv, ServerTyped, RequestOK, SubmitAgain
    <3>3. /\ x.phase = "received" /\ x.op \in Requests
          /\ x.lease = FALSE /\ ~x.consumed /\ ~x.effect /\ x.records = 0
          /\ x.reply = "pending"
      BY <3>2 DEF Idle
    <3>4. x \in Request
      <4>1. Idle \in Request
        BY IdleTyped
      <4>2. /\ req[1].op \in {0} \cup Requests
            /\ req[1].route \in AnyRoute /\ req[1].caller \in AnyCaller
        BY <3>2 DEF Request
      <4> QED
        BY <4>1, <4>2 DEF Request, Phases
    <3> QED
      BY <2>2, <3>3, <3>4 DEF SubmitAgain
  <2>3. CASE SubmitCommit(r)
    <3> DEFINE x == [req[r] EXCEPT !.phase = "received", !.op = r,
                                   !.route = RestoreCommit[1],
                                   !.caller = RestoreCommit[2]]
    <3>2. RestoreCommit[1] \in AnyRoute /\ RestoreCommit[2] \in AnyCaller
      BY DEF AnyRoute, AnyCaller
    <3>3. req' = [req EXCEPT ![r] = x]
      BY <1>1, <2>3 DEF SubmitCommit, ServerInv, ServerTyped, Request
    <3>4. x \in Request
      BY <1>1, <3>2 DEF Request, Phases
    <3>5. /\ x.phase = "received" /\ x.op \in Requests
          /\ x.lease = FALSE /\ ~x.consumed /\ ~x.effect /\ x.records = 0
          /\ x.reply = "pending"
      BY <1>1 DEF Request, RequestOK
    <3> QED
      BY <3>3, <3>4, <3>5
  <2> QED
    BY <2>1, <2>2, <2>3
<1>4. PICK x \in Request :
        /\ req' = [req EXCEPT ![r] = x]
        /\ x.phase = "received" /\ x.op \in Requests
        /\ x.lease = FALSE /\ ~x.consumed /\ ~x.effect /\ x.records = 0
        /\ x.reply = "pending"
  BY <1>3
<1>5. RequestOK(x)
  BY <1>4 DEF RequestOK
<1>6. req[r].lease = FALSE /\ ~Maintains(req[r]) /\ ~Maintains(x)
  BY <1>1, <1>4 DEF RequestOK, Maintains
<1>7. gate' = [gate EXCEPT !.active = @ + LeaseChange(req[r].lease, x.lease)]
  BY <1>2, <1>4, <1>6, GateUnchanged
<1> QED
  BY <1>2, <1>4, <1>5, <1>6, <1>7, OrdinaryStep

\* A request that passes a hook, is authorized, enters its handler or commits:
\* its own fields move and the gate stays, but for the lease of Enter.
LEMMA PassesKeeps ==
  ASSUME ServerInv, NEW r \in Requests, OnRequestPasses(r)
  PROVE  ServerInv'
<1> DEFINE x == [req[r] EXCEPT !.phase = "bound"]
<1>1. req[r] \in Request /\ RequestOK(req[r]) /\ req[r].phase = "received"
  BY DEF ServerInv, ServerTyped, OnRequestPasses
<1>2. req' = [req EXCEPT ![r] = x] /\ x \in Request
  BY <1>1 DEF OnRequestPasses, ServerInv, ServerTyped, Request, Phases
<1>3. /\ x.phase = "bound"
      /\ x.lease = req[r].lease /\ x.route = req[r].route /\ x.caller = req[r].caller
      /\ x.op = req[r].op /\ x.records = req[r].records /\ x.reply = req[r].reply
      /\ x.effect = req[r].effect /\ x.consumed = req[r].consumed
  BY <1>1 DEF Request
<1>4. IsPublic(x.route) \/ x.caller.method \in x.route.auth
  BY <1>1 DEF OnRequestPasses, Request
<1> HIDE DEF x
<1>5. RequestOK(x)
  BY <1>1, <1>3, <1>4 DEF RequestOK
<1>6. ~Maintains(req[r]) /\ ~Maintains(x) /\ req[r].lease \in BOOLEAN
  BY <1>1, <1>3 DEF Maintains, Request
<1>7. gate' = [gate EXCEPT !.active = @ + LeaseChange(req[r].lease, x.lease)]
  BY <1>3, <1>6, GateUnchanged DEF OnRequestPasses
<1> QED
  BY <1>1, <1>2, <1>3, <1>5, <1>6, <1>7, OrdinaryStep DEF OnRequestPasses

LEMMA AuthorizeKeeps ==
  ASSUME ServerInv, NEW r \in Requests, Authorize(r)
  PROVE  ServerInv'
<1> DEFINE h == /\ ~IsPublic(req[r].route)
                /\ NeedsStepUp(req[r].route, req[r].caller)
                /\ AsksProof(req[r].route)
           x == [req[r] EXCEPT !.phase = "authorized", !.handle = h]
<1>1. req[r] \in Request /\ RequestOK(req[r]) /\ req[r].phase = "bound"
  BY DEF ServerInv, ServerTyped, Authorize
<1>2. h \in BOOLEAN /\ req' = [req EXCEPT ![r].phase = "authorized", ![r].handle = h]
  BY DEF Authorize
<1>3. Entitled(req[r].route, req[r].caller)
  <2>1. /\ IsPublic(req[r].route) \/ req[r].caller.method \in req[r].route.auth
        /\ authorizeRoute(req[r].route, req[r].caller, req[r].op) = "ok"
    BY <1>1 DEF Authorize, RequestOK
  <2> QED
    BY <2>1, AuthorizedIsEntitled
<1> HIDE DEF h
<1>4. req' = [req EXCEPT ![r] = x] /\ x \in Request
  BY <1>1, <1>2 DEF ServerInv, ServerTyped, Request, Phases
<1>5. /\ x.phase = "authorized"
      /\ x.lease = req[r].lease /\ x.route = req[r].route /\ x.caller = req[r].caller
      /\ x.op = req[r].op /\ x.records = req[r].records /\ x.reply = req[r].reply
      /\ x.effect = req[r].effect /\ x.consumed = req[r].consumed
  BY <1>1 DEF Request
<1> HIDE DEF x
<1>6. RequestOK(x)
  BY <1>1, <1>3, <1>5 DEF RequestOK
<1>7. ~Maintains(req[r]) /\ ~Maintains(x) /\ req[r].lease \in BOOLEAN
  BY <1>1, <1>5 DEF Maintains, Request
<1>8. gate' = [gate EXCEPT !.active = @ + LeaseChange(req[r].lease, x.lease)]
  BY <1>5, <1>7, GateUnchanged DEF Authorize
<1> QED
  BY <1>1, <1>4, <1>5, <1>6, <1>7, <1>8, OrdinaryStep DEF Authorize

LEMMA EnterKeeps ==
  ASSUME ServerInv, NEW r \in Requests, Enter(r)
  PROVE  ServerInv'
<1> DEFINE n == IF req[r].caller.method = "api_key" THEN req[r].records + 1
                ELSE req[r].records
           t == TakesLease(req[r].route)
           x == [req[r] EXCEPT !.phase = "entered", !.lease = t, !.records = n]
<1>1. req[r] \in Request /\ RequestOK(req[r]) /\ req[r].phase = "authorized"
  BY DEF ServerInv, ServerTyped, Enter
<1>2. /\ req[r].records = 0 /\ ~req[r].lease /\ ~req[r].effect /\ ~req[r].consumed
      /\ req[r].lease \in BOOLEAN
  BY <1>1 DEF RequestOK, Request
<1>3. n \in 0..1 /\ (req[r].caller.method = "api_key" => n = 1)
  BY <1>2
<1>4. t \in BOOLEAN
  BY DEF TakesLease
<1>5. req' = [req EXCEPT ![r] = x]
  BY <1>1 DEF Enter, ServerInv, ServerTyped, Request
<1>6. IF t THEN acquireOrdinary ELSE UNCHANGED gate
  BY DEF Enter
<1> HIDE DEF n
<1>7. /\ x \in Request
      /\ x.phase = "entered" /\ x.records = n /\ x.lease = t
      /\ x.route = req[r].route /\ x.caller = req[r].caller
      /\ x.op = req[r].op /\ x.reply = req[r].reply
      /\ x.effect = req[r].effect /\ x.consumed = req[r].consumed
  BY <1>1, <1>3, <1>4 DEF Request, Phases
<1> HIDE DEF x
<1>8. RequestOK(x)
  <2>1. x.reply = "pending" /\ x.op \in Requests /\ Entitled(x.route, x.caller)
    BY <1>1, <1>7 DEF RequestOK
  <2>2. x.lease = TakesLease(x.route) /\ TakesLease(x.route) \in BOOLEAN
    BY <1>4, <1>7
  <2> QED
    BY <1>2, <1>3, <1>7, <2>1, <2>2 DEF RequestOK
<1>9. ~Maintains(req[r]) /\ ~Maintains(x)
  BY <1>1, <1>7 DEF Maintains
<1>10. /\ x.lease => gate.phase = "open"
       /\ gate' = [gate EXCEPT !.active = @ + LeaseChange(req[r].lease, x.lease)]
  <2> HIDE DEF t
  <2>1. CASE t
    BY <1>2, <1>6, <1>7, <2>1 DEF acquireOrdinary, LeaseChange
  <2>2. CASE ~t
    <3>1. x.lease = req[r].lease
      BY <1>2, <1>4, <1>7, <2>2
    <3> QED
      BY <1>2, <1>6, <1>7, <2>2, <3>1, GateUnchanged
  <2> QED
    BY <2>1, <2>2
<1> QED
  BY <1>1, <1>2, <1>5, <1>7, <1>8, <1>9, <1>10, OrdinaryStep DEF Enter

\* The request with an effect, or a claim, and the proof it spends.
LEMMA HandleKeeps ==
  ASSUME ServerInv, NEW r \in Requests, Handle(r)
  PROVE  ServerInv'
<1> DEFINE s == Spends(r)
           x == [req[r] EXCEPT !.phase = "handled", !.effect = TRUE, !.consumed = s]
<1>1. req[r] \in Request /\ RequestOK(req[r]) /\ req[r].phase = "entered"
  BY DEF ServerInv, ServerTyped, Handle
<1>2. s \in BOOLEAN
  BY <1>1 DEF Spends, Request
<1>3. req' = [req EXCEPT ![r] = x]
  BY <1>1 DEF Handle, ServerInv, ServerTyped, Request
<1>4. \/ s /\ req[r].op \notin spent /\ spent' = spent \cup {req[r].op}
      \/ ~s /\ spent' = spent
  BY DEF Handle, Consumable
<1> HIDE DEF s
<1>5. /\ x \in Request
      /\ x.phase = "handled" /\ x.effect = TRUE /\ x.consumed = s
      /\ x.lease = req[r].lease /\ x.records = req[r].records
      /\ x.route = req[r].route /\ x.caller = req[r].caller
      /\ x.op = req[r].op /\ x.reply = req[r].reply
  BY <1>1, <1>2 DEF Request, Phases
<1> HIDE DEF x
<1>6. RequestOK(x)
  BY <1>1, <1>5 DEF RequestOK
<1>7. ~Maintains(req[r]) /\ ~Maintains(x) /\ req[r].lease \in BOOLEAN
  BY <1>1, <1>5 DEF Maintains, Request
<1>8. gate' = [gate EXCEPT !.active = @ + LeaseChange(req[r].lease, x.lease)]
  BY <1>5, <1>7, GateUnchanged DEF Handle
<1>9. \/ spent' = spent /\ (x.consumed => req[r].consumed /\ x.op = req[r].op)
      \/ spent' = spent \cup {x.op} /\ x.op \in Requests /\ x.op \notin spent
  BY <1>1, <1>4, <1>5 DEF RequestOK
<1> QED
  BY <1>3, <1>5, <1>6, <1>7, <1>8, <1>9, OrdinaryStep DEF Handle

LEMMA CommitClaimsKeeps ==
  ASSUME ServerInv, NEW r \in Requests, CommitClaims(r)
  PROVE  ServerInv'
<1> DEFINE x == [req[r] EXCEPT !.phase = "claimed", !.consumed = TRUE]
<1>1. req[r] \in Request /\ RequestOK(req[r]) /\ req[r].phase = "entered"
  BY DEF ServerInv, ServerTyped, CommitClaims
<1>2. req' = [req EXCEPT ![r] = x] /\ x \in Request
  BY <1>1 DEF CommitClaims, ServerInv, ServerTyped, Request, Phases
<1>3. /\ x.phase = "claimed" /\ x.consumed = TRUE /\ x.effect = req[r].effect
      /\ x.lease = req[r].lease /\ x.records = req[r].records
      /\ x.route = req[r].route /\ x.caller = req[r].caller
      /\ x.op = req[r].op /\ x.reply = req[r].reply
  BY <1>1 DEF Request
<1>4. req[r].route.id = "restores.commit"
  BY DEF CommitClaims
<1> HIDE DEF x
<1>5. x.lease = FALSE
  <2>1. ~TakesLease(req[r].route)
    BY <1>4 DEF TakesLease, RestoreMaintenanceExempt
  <2> QED
    BY <1>1, <1>3, <2>1 DEF RequestOK
<1>6. RequestOK(x)
  BY <1>1, <1>3, <1>4, <1>5 DEF RequestOK
<1>7. ~Maintains(req[r]) /\ ~Maintains(x) /\ req[r].lease \in BOOLEAN
  BY <1>1, <1>3 DEF Maintains, Request
<1>8. gate' = [gate EXCEPT !.active = @ + LeaseChange(req[r].lease, x.lease)]
  BY <1>3, <1>7, GateUnchanged DEF CommitClaims
<1>9. spent' = spent \cup {x.op} /\ x.op \in Requests /\ x.op \notin spent
  BY <1>1, <1>3 DEF CommitClaims, Consumable, RequestOK
<1> QED
  BY <1>2, <1>3, <1>6, <1>7, <1>8, <1>9, OrdinaryStep DEF CommitClaims

\* A move of the request the gate is shut for, or that shuts it.
LEMMA MaintenanceStep ==
  ASSUME ServerInv, NEW r \in Requests, NEW x \in Request, req' = [req EXCEPT ![r] = x],
         RequestOK(x), x.consumed => req[r].consumed /\ x.op = req[r].op,
         x.lease = req[r].lease,
         NEW p \in {"open", "draining", "exclusive"}, gate' = [gate EXCEPT !.phase = p],
         IF p = "open" THEN Maintains(req[r]) /\ ~Maintains(x)
         ELSE x.phase = p /\ (gate.phase = "open" \/ Maintains(req[r])),
         p = "exclusive" => gate.active = 0,
         UNCHANGED <<spent, session, job, mode>>
  PROVE  ServerInv'
<1>1. /\ req' \in [Requests -> Request]
      /\ \A q \in Requests : RequestOK(req'[q])
      /\ spent' \subseteq Requests
      /\ ProofsOK(req', spent')
  BY RequestMoves
<1>2. \A q \in Requests : req'[q] = IF q = r THEN x ELSE req[q]
  BY RequestPut DEF ServerInv
<1>3. Leases(req') = Leases(req)
  BY <1>2 DEF Leases
<1>4. /\ gate'.phase = p /\ gate'.active = gate.active
      /\ gate' \in [phase : {"open", "draining", "exclusive"}, active : Int]
  BY DEF ServerInv, ServerTyped
<1>5. ServerTyped'
  BY <1>1, <1>4 DEF ServerInv, ServerTyped
<1>6. gate'.active = Cardinality(Leases(req')) + (IF job' THEN 1 ELSE 0)
  BY <1>3, <1>4 DEF ServerInv, GateOK
<1>7. \A q \in Requests : q # r => (Maintains(req[q]) => p # "open") /\
                                   (p # "open" => ~Maintains(req[q]))
  BY DEF ServerInv, GateOK, ServerTyped
<1>8. p = "open" => \A q \in Requests : ~Maintains(req'[q])
  BY <1>2, <1>7
<1>9. p # "open" => /\ req'[r].phase = p
                    /\ \A q \in Requests : Maintains(req'[q]) => q = r
  BY <1>2, <1>7
<1>10. p = "exclusive" => ~job' /\ Leases(req') = {}
  <2>1. IsFiniteSet(Leases(req)) /\ Cardinality(Leases(req)) \in Nat
    BY RequestsFinite, FS_CardinalityType DEF Leases
  <2>2. ASSUME p = "exclusive"
        PROVE  ~job /\ Cardinality(Leases(req)) = 0
    BY <2>1, <2>2 DEF ServerInv, GateOK
  <2>3. p = "exclusive" => Leases(req) = {}
    BY <2>1, <2>2, FS_EmptySet
  <2> QED
    BY <1>3, <2>2, <2>3
<1>11. GateOK(req', gate', job')
  BY <1>4, <1>6, <1>8, <1>9, <1>10 DEF GateOK
<1> QED
  BY <1>1, <1>5, <1>11 DEF ServerInv

\* acquireExclusive, Exclude, ExcludeFails and CommitEnds are such moves.
LEMMA MaintenanceKeeps ==
  ASSUME ServerInv, NEW r \in Requests,
         acquireExclusive(r) \/ Exclude(r) \/ ExcludeFails(r) \/ CommitEnds(r)
  PROVE  ServerInv'
<1>1. req[r] \in Request /\ RequestOK(req[r])
  BY DEF ServerInv, ServerTyped
<1>2. req[r].phase \in {"claimed", "draining", "exclusive"}
  BY DEF acquireExclusive, Exclude, ExcludeFails, CommitEnds
<1>3. /\ req[r].route.id = "restores.commit" /\ ~TakesLease(req[r].route)
      /\ req[r].lease = FALSE
  BY <1>1, <1>2 DEF RequestOK, TakesLease, RestoreMaintenanceExempt, Request
<1>4. UNCHANGED <<spent, session, job, mode>>
  BY DEF acquireExclusive, Exclude, ExcludeFails, CommitEnds
<1>5. CASE acquireExclusive(r)
  <2> DEFINE x == [req[r] EXCEPT !.phase = "draining"]
  <2>1. req' = [req EXCEPT ![r] = x] /\ x \in Request
    BY <1>1, <1>5 DEF acquireExclusive, ServerInv, ServerTyped, Request, Phases
  <2>2. x.phase = "draining"
    BY <1>1 DEF Request
  <2>3. /\ x.lease = req[r].lease /\ x.op = req[r].op
        /\ x.consumed = req[r].consumed /\ RequestOK(x)
    BY <1>1, <1>3, <1>5 DEF Request, RequestOK, acquireExclusive
  <2> QED
    BY <1>4, <1>5, <2>1, <2>2, <2>3, MaintenanceStep DEF acquireExclusive
<1>6. CASE Exclude(r)
  <2> DEFINE x == [req[r] EXCEPT !.phase = "exclusive"]
  <2>1. req' = [req EXCEPT ![r] = x] /\ x \in Request
    BY <1>1, <1>6 DEF Exclude, ServerInv, ServerTyped, Request, Phases
  <2>2. x.phase = "exclusive" /\ Maintains(req[r])
    BY <1>1, <1>6 DEF Request, Exclude, Maintains
  <2>3. /\ x.lease = req[r].lease /\ x.op = req[r].op
        /\ x.consumed = req[r].consumed /\ RequestOK(x)
    BY <1>1, <1>3, <1>6 DEF Request, RequestOK, Exclude
  <2> QED
    BY <1>4, <1>6, <2>1, <2>2, <2>3, MaintenanceStep DEF Exclude, Drained
<1>7. ASSUME req[r].phase \in {"draining", "exclusive"}, gate' = [gate EXCEPT !.phase = "open"],
             req' = [req EXCEPT ![r].phase = "done", ![r].reply = "refused"]
      PROVE  ServerInv'
  <2> DEFINE x == [req[r] EXCEPT !.phase = "done", !.reply = "refused"]
  <2>1. req' = [req EXCEPT ![r] = x] /\ x \in Request
    BY <1>1, <1>7 DEF ServerInv, ServerTyped, Request, Phases, Fate
  <2>2. ~Maintains(x) /\ Maintains(req[r])
    BY <1>1, <1>7 DEF Request, Maintains
  <2>3. /\ x.lease = req[r].lease /\ x.op = req[r].op
        /\ x.consumed = req[r].consumed /\ RequestOK(x)
    BY <1>1, <1>3, <1>7 DEF Request, RequestOK
  <2> QED
    BY <1>4, <1>7, <2>1, <2>2, <2>3, MaintenanceStep
<1>8. ASSUME req[r].phase = "exclusive", gate' = [gate EXCEPT !.phase = "open"],
             req' = [req EXCEPT ![r].phase = "handled", ![r].effect = TRUE]
      PROVE  ServerInv'
  <2> DEFINE x == [req[r] EXCEPT !.phase = "handled", !.effect = TRUE]
  <2>1. req' = [req EXCEPT ![r] = x] /\ x \in Request
    BY <1>1, <1>8 DEF ServerInv, ServerTyped, Request, Phases
  <2>2. ~Maintains(x) /\ Maintains(req[r])
    BY <1>1, <1>8 DEF Request, Maintains
  <2>3. /\ x.phase = "handled" /\ x.effect = TRUE
        /\ x.lease = req[r].lease /\ x.records = req[r].records
        /\ x.route = req[r].route /\ x.caller = req[r].caller
        /\ x.op = req[r].op /\ x.reply = req[r].reply
        /\ x.consumed = req[r].consumed
    BY <1>1 DEF Request
  <2> HIDE DEF x
  <2>4. RequestOK(x)
    BY <1>1, <1>3, <1>8, <2>3 DEF RequestOK
  <2> QED
    BY <1>4, <1>8, <2>1, <2>2, <2>3, <2>4, MaintenanceStep
<1> QED
  BY <1>5, <1>6, <1>7, <1>8 DEF ExcludeFails, CommitEnds, acquireExclusive, Exclude

\* A job takes a lease of its own and gives it back.
LEMMA JobKeeps ==
  ASSUME ServerInv, JobStarts \/ JobEnds
  PROVE  ServerInv'
<1>1. Cardinality(Leases(req)) \in Nat
  BY RequestsFinite, FS_CardinalityType DEF Leases
<1>2. UNCHANGED <<req, spent, session, mode>> /\ job' \in BOOLEAN
  BY DEF JobStarts, JobEnds
<1>3. /\ gate'.phase = gate.phase
      /\ gate'.active = Cardinality(Leases(req)) + (IF job' THEN 1 ELSE 0)
      /\ gate' \in [phase : {"open", "draining", "exclusive"}, active : Int]
      /\ gate.phase = "exclusive" => ~job'
  <2>1. gate.active = Cardinality(Leases(req)) + (IF job THEN 1 ELSE 0)
    BY DEF ServerInv, GateOK
  <2>2. CASE JobStarts
    BY <1>1, <2>1, <2>2 DEF JobStarts, acquireOrdinary, ServerInv, ServerTyped
  <2>3. CASE JobEnds
    BY <1>1, <2>1, <2>3 DEF JobEnds, release, ServerInv, ServerTyped
  <2> QED
    BY <2>2, <2>3
<1>4. GateOK(req', gate', job')
  BY <1>2, <1>3 DEF ServerInv, GateOK
<1>5. ServerTyped' /\ ProofsOK(req', spent') /\ \A r \in Requests : RequestOK(req'[r])
  BY <1>2, <1>3 DEF ServerInv, ServerTyped
<1> QED
  BY <1>4, <1>5 DEF ServerInv

LEMMA StepKeeps ==
  ASSUME ServerInv, NEW r \in Requests, Step(r)
  PROVE  ServerInv'
<1>1. CASE OnRequestPasses(r)
  BY <1>1, PassesKeeps
<1>2. CASE Authorize(r)
  BY <1>2, AuthorizeKeeps
<1>3. CASE Enter(r)
  BY <1>3, EnterKeeps
<1>4. CASE Handle(r)
  BY <1>4, HandleKeeps
<1>5. CASE CommitClaims(r)
  BY <1>5, CommitClaimsKeeps
<1>6. CASE acquireExclusive(r) \/ Exclude(r) \/ ExcludeFails(r) \/ CommitEnds(r)
  BY <1>6, MaintenanceKeeps
<1>7. CASE \/ OnRequestMalformed(r) \/ OnRequestUnauthenticated(r) \/ OnRequestCsrf(r)
           \/ HandleRefuses(r) \/ AcquireConflict(r)
  <2>1. /\ req[r].phase \in {"received", "entered", "claimed"}
        /\ Answer(r, "refused") /\ UNCHANGED <<spent, session, job, mode>>
    BY <1>7 DEF OnRequestMalformed, OnRequestUnauthenticated, OnRequestCsrf,
                HandleRefuses, AcquireConflict
  <2>2. "refused" \in Fate \ {"pending"}
    BY DEF Fate
  <2> QED
    BY <2>1, <2>2, Answers DEF Maintains
<1>8. CASE EnterUnrecorded(r)
  <2>1. "internal_error" \in Fate \ {"pending"}
    BY DEF Fate
  <2> QED
    BY <1>8, <2>1, Answers DEF EnterUnrecorded, Maintains
<1>9. CASE \/ OnRequestWrongMethod(r) \/ OnRequestRateLimited(r) \/ ParseFails(r)
           \/ AuthorizeRefused(r) \/ EnterInMaintenance(r)
  <2>1. /\ req[r].phase \in {"received", "bound", "authorized"}
        /\ AnswerRecorded(r, "refused") /\ UNCHANGED <<spent, session, job, mode>>
    BY <1>9 DEF OnRequestWrongMethod, OnRequestRateLimited, ParseFails,
                AuthorizeRefused, EnterInMaintenance
  <2>2. "refused" \in Fate \ {"pending"}
    BY DEF Fate
  <2> QED
    BY <2>1, <2>2, Answers DEF Maintains
<1>10. CASE Reply(r)
  <2> DEFINE reply == IF req[r].handle /\ ~req[r].consumed THEN "internal_error" ELSE "ok"
  <2>1. reply \in Fate \ {"pending"}
    BY DEF Fate
  <2>2. Answer(r, reply)
    BY <1>10 DEF Reply
  <2> HIDE DEF reply
  <2> QED
    BY <1>10, <2>1, <2>2, Answers DEF Reply, Maintains
<1> QED
  BY <1>1, <1>2, <1>3, <1>4, <1>5, <1>6, <1>7, <1>8, <1>9, <1>10 DEF Step

LEMMA ServerInit == Init => ServerInv
<1> SUFFICES ASSUME Init PROVE ServerInv
  OBVIOUS
<1>1. /\ req \in [Requests -> Request] /\ \A r \in Requests : req[r] = Idle
  BY IdleTyped DEF Init
<1>2. RequestOK(Idle) /\ ~Maintains(Idle) /\ ~Idle.lease /\ ~Idle.consumed
  BY DEF Idle, RequestOK, Maintains, Anonymous, Caller
<1>3. Leases(req) = {} /\ Cardinality(Leases(req)) = 0
  BY <1>1, <1>2, FS_EmptySet DEF Leases
<1>4. GateOK(req, gate, job)
  BY <1>1, <1>2, <1>3 DEF Init, GateOK
<1>5. ServerTyped
  <2>1. gate \in [phase : {"open", "draining", "exclusive"}, active : Int]
    BY DEF Init
  <2>2. spent \subseteq Requests /\ session \in BOOLEAN /\ job \in BOOLEAN
          /\ mode \in StepUpModes
    BY DEF Init
  <2> QED
    BY <1>1, <2>1, <2>2 DEF ServerTyped
<1>6. ProofsOK(req, spent) /\ \A r \in Requests : RequestOK(req[r])
  BY <1>1, <1>2 DEF ProofsOK
<1> QED
  BY <1>4, <1>5, <1>6 DEF ServerInv

LEMMA ServerNext == ServerInv /\ [Next]_vars => ServerInv'
<1> SUFFICES ASSUME ServerInv, [Next]_vars PROVE ServerInv'
  OBVIOUS
<1>1. ASSUME NEW r \in Requests, SubmitFirst(r) \/ SubmitAgain(r) \/ SubmitCommit(r)
      PROVE  ServerInv'
  BY <1>1, SubmitKeeps
<1>2. ASSUME NEW r \in Requests, Step(r)
      PROVE  ServerInv'
  BY <1>2, StepKeeps
<1>3. CASE JobStarts \/ JobEnds
  BY <1>3, JobKeeps
<1>4. CASE SessionRevoked
  BY <1>4 DEF SessionRevoked, ServerInv, ServerTyped
<1>5. CASE UNCHANGED vars
  BY <1>5 DEF vars, ServerInv, ServerTyped
<1> QED
  BY <1>1, <1>2, <1>3, <1>4, <1>5 DEF Next

LEMMA ServerSafe == ServerInv => EffectsAreEntitled /\ RestoreRunsAlone
<1> SUFFICES ASSUME ServerInv PROVE EffectsAreEntitled /\ RestoreRunsAlone
  OBVIOUS
<1>1. \A r \in Requests : req[r] \in Request /\ RequestOK(req[r])
  BY DEF ServerInv, ServerTyped
<1>2. TypeOK
  <2>1. \A r \in Requests : /\ req[r].phase \in Phases /\ req[r].reply \in Fate
                            /\ req[r].records \in 0..1
                            /\ (req[r].phase = "done") = (req[r].reply # "pending")
    BY <1>1 DEF Request, RequestOK
  <2> QED
    BY <2>1 DEF TypeOK, ServerInv, ServerTyped
<1>3. \A r \in Requests : req[r].effect =>
        /\ Entitled(req[r].route, req[r].caller)
        /\ req[r].caller.method = "api_key" => req[r].records = 1
  BY <1>1 DEF RequestOK
<1>4. EffectsAreEntitled
  BY <1>2, <1>3 DEF EffectsAreEntitled, ServerInv, ProofsOK
<1> DEFINE M == {r \in Requests : req[r].phase \in {"draining", "exclusive"}}
<1>5. Cardinality(M) = IF gate.phase = "open" THEN 0 ELSE 1
  <2>1. CASE gate.phase = "open"
    <3>1. M = {}
      BY <2>1 DEF ServerInv, GateOK, Maintains
    <3> QED
      BY <2>1, <3>1, FS_EmptySet
  <2>2. CASE gate.phase # "open"
    <3>1. PICK q \in Requests : /\ req[q].phase = gate.phase
                                /\ \A r \in Requests : Maintains(req[r]) => r = q
      BY <2>2 DEF ServerInv, GateOK
    <3>2. gate.phase \in {"draining", "exclusive"}
      BY <2>2 DEF ServerInv, ServerTyped
    <3>3. M = {q}
      BY <3>1, <3>2 DEF Maintains
    <3> QED
      BY <2>2, <3>3, FS_Singleton
  <2> QED
    BY <2>1, <2>2
<1>6. ASSUME gate.phase = "exclusive", NEW r \in Requests,
             req[r].phase \in {"entered", "handled"}, ~IsPublic(req[r].route)
      PROVE  req[r].route.id \in RestoreMaintenanceExempt
  <2>1. ~req[r].lease
    BY <1>6 DEF ServerInv, GateOK, Leases
  <2>2. ~TakesLease(req[r].route)
    BY <1>1, <1>6, <2>1 DEF RequestOK
  <2> QED
    BY <1>6, <2>2 DEF TakesLease
<1>7. RestoreRunsAlone
  BY <1>5, <1>6 DEF RestoreRunsAlone, ServerInv, GateOK, Leases
<1> QED
  BY <1>4, <1>7

\* What is proved of the requests does not need their fairness.
ServerSafety == Init /\ [][Next]_vars

\* The strengthening that an effect and a restore rest on holds for any number of
\* requests, on any routes, at any interleaving with jobs, restores and the
\* revocation of the session (routeRegistry.ts, restoreMaintenance.ts).
THEOREM ServerInductive == ServerSafety => []ServerInv
BY ServerInit, ServerNext, PTL DEF ServerSafety

\* No effect without the right to it, none twice on one proof, one activity record
\* for an API key's (routeRegistry.ts authorizeRoute, stepUp.ts withConsumedProof).
THEOREM EffectsStayEntitled == ServerSafety => []EffectsAreEntitled
BY ServerInductive, ServerSafe, PTL

\* A restore commit has the database and the vault to itself, and the gate's count
\* of leases is exact (restoreMaintenance.ts acquireExclusive, acquireOrdinary).
THEOREM RestoreStaysAlone == ServerSafety => []RestoreRunsAlone
BY ServerInductive, ServerSafe, PTL

-----------------------------------------------------------------------------
(* The inactivity job.  A superadmin is left because whoever is moved out  *)
(* is not the last one (AnotherIsLeft); the store is the row between       *)
(* updates because the newest value is in it or still to come              *)
(* (VersionsOK).                                                           *)

LEMMA InactivityCardinality == ASSUME NEW S PROVE Inactivity!Cardinality(S) = Cardinality(S)
BY DEF Inactivity!Cardinality, Cardinality

JobBounds ==
  /\ IsFiniteSet(Superadmins) /\ Superadmins # {}
  /\ SuspendChoices \subseteq Nat /\ DeactivateChoices \subseteq Nat
  /\ \E d \in SuspendChoices \cup DeactivateChoices :
       \A e \in SuspendChoices \cup DeactivateChoices : e <= d
  /\ Wall \in Nat /\ Margin \in Nat /\ Interval \in Nat /\ MaxChanges \in Nat

Statuses == {"active", "suspended", "deactivated"}
Outcomes == {"none", "partial", "completed", "skipped", "protected", "error"}

AccountRow == [status : Statuses, idle : 0 .. Inactivity!AgeCap, held : 0 .. Inactivity!AgeCap]
Setting == [version : Nat, suspend : Nat, deactivate : Nat]
Working == [phase : {"working"}, taken : Setting, age : 0 .. Wall, moved : Nat]
Completing == [phase : {"completing"}, outcome : Outcomes]

JobTyped ==
  /\ account \in [Inactivity!Accounts -> AccountRow]
  /\ settings \in Setting /\ store \in Setting /\ committed \subseteq Setting
  /\ timer \in [next : 0 .. Interval, owned : BOOLEAN, lease : 0 .. Wall + Margin,
              outcome : Outcomes]
  /\ runner \in [Inactivity!Runners -> {Inactivity!Idle} \cup Working \cup Completing]
  /\ changes \in 0 .. MaxChanges

\* The row is the newest of the versions that are around, and it is in the store or
\* on its way there.
VersionsOK ==
  /\ settings \in committed \cup {store}
  /\ \A value \in committed \cup {store} :
       value.version <= settings.version /\ (value.version = settings.version => value = settings)

JobInv == JobTyped /\ VersionsOK /\ Inactivity!ActiveSuperadmins # {}

LEMMA AgeCapTyped ==
  ASSUME JobBounds
  PROVE  Inactivity!AgeCap \in Nat /\ Wall <= Inactivity!AgeCap
<1> DEFINE S == SuspendChoices \cup DeactivateChoices
           m == CHOOSE d \in S : \A e \in S : e <= d
<1>1. m \in S
  BY DEF JobBounds
<1>2. m \in Nat
  BY <1>1 DEF JobBounds
<1>3. Inactivity!AgeCap = Wall + m
  BY DEF Inactivity!AgeCap
<1> HIDE DEF m
<1> QED
  BY <1>2, <1>3 DEF JobBounds

LEMMA JobInit ==
  ASSUME JobBounds, Inactivity!Init
  PROVE  JobInv
<1>1. Inactivity!AgeCap \in Nat
  BY AgeCapTyped
<1>2. account \in [Inactivity!Accounts -> AccountRow]
  BY <1>1 DEF Inactivity!Init, AccountRow, Statuses
<1>3. Inactivity!Seed \in Setting
  BY DEF Inactivity!Seed, Setting
<1>4. timer \in [next : 0 .. Interval, owned : BOOLEAN, lease : 0 .. Wall + Margin,
               outcome : Outcomes]
  BY DEF Inactivity!Init, JobBounds, Outcomes
<1>5. runner \in [Inactivity!Runners -> {Inactivity!Idle} \cup Working \cup Completing]
  BY DEF Inactivity!Init
<1>6. JobTyped
  BY <1>2, <1>3, <1>4, <1>5 DEF JobTyped, Inactivity!Init, JobBounds
<1>7. VersionsOK
  BY <1>3 DEF VersionsOK, Inactivity!Init, Setting
<1>8. Inactivity!ActiveSuperadmins # {}
  BY DEF Inactivity!Init, Inactivity!ActiveSuperadmins, JobBounds, Inactivity!Accounts
<1> QED
  BY <1>6, <1>7, <1>8 DEF JobInv

\* Who is not the last active superadmin can go.
LEMMA AnotherIsLeft ==
  ASSUME JobBounds, JobInv, NEW u \in Inactivity!Accounts, ~Inactivity!LastSuperadmin(u), NEW row,
         account' = [account EXCEPT ![u] = row]
  PROVE  Inactivity!ActiveSuperadmins' # {}
<1>1. \A v \in Inactivity!Accounts : account'[v] = IF v = u THEN row ELSE account[v]
  BY DEF JobInv, JobTyped
<1>2. \A v \in Inactivity!ActiveSuperadmins : v # u => v \in Inactivity!ActiveSuperadmins'
  BY <1>1 DEF Inactivity!ActiveSuperadmins, Inactivity!Accounts
<1>3. IsFiniteSet(Inactivity!ActiveSuperadmins)
  BY FS_Subset DEF Inactivity!ActiveSuperadmins, JobBounds
<1>4. CASE u \notin Inactivity!ActiveSuperadmins
  BY <1>2, <1>4 DEF JobInv
<1>5. CASE u \in Inactivity!ActiveSuperadmins
  <2>1. ~(Cardinality(Inactivity!ActiveSuperadmins) <= 1)
    BY <1>5, InactivityCardinality DEF Inactivity!LastSuperadmin
  <2>2. ASSUME Inactivity!ActiveSuperadmins = {u}
        PROVE  FALSE
    <3>1. Cardinality({u}) = 1
      BY FS_Singleton
    <3> QED
      BY <2>1, <2>2, <3>1
  <2>3. \E v \in Inactivity!ActiveSuperadmins : v # u
    BY <1>5, <2>2
  <2> QED
    BY <1>2, <2>3
<1> QED
  BY <1>4, <1>5

\* An account's row changes, all else about the accounts being kept.
LEMMA RowPut ==
  ASSUME JobTyped, NEW u \in Inactivity!Accounts, NEW row \in AccountRow, account' = [account EXCEPT ![u] = row]
  PROVE  account' \in [Inactivity!Accounts -> AccountRow]
BY DEF JobTyped

\* A run moves on.
LEMMA RunnerPut ==
  ASSUME JobTyped, NEW r \in Inactivity!Runners, NEW x \in {Inactivity!Idle} \cup Working \cup Completing,
         runner' = [runner EXCEPT ![r] = x]
  PROVE  runner' \in [Inactivity!Runners -> {Inactivity!Idle} \cup Working \cup Completing]
BY DEF JobTyped

\* A run at work is one.
LEMMA AtWork ==
  ASSUME JobTyped, NEW r \in Inactivity!Runners, runner[r].phase = "working"
  PROVE  runner[r] \in Working
BY DEF JobTyped, Inactivity!Idle, Completing

LEMMA AcquireKeeps ==
  ASSUME JobBounds, JobInv, NEW r \in Inactivity!Runners, Inactivity!acquire(r)
  PROVE  JobInv'
<1>1. [phase |-> "working", taken |-> store, age |-> 0, moved |-> 0] \in Working
  BY DEF Working, JobInv, JobTyped, JobBounds
<1>2. runner' \in [Inactivity!Runners -> {Inactivity!Idle} \cup Working \cup Completing]
  BY <1>1, RunnerPut DEF Inactivity!acquire, JobInv
<1>3. timer' \in [next : 0 .. Interval, owned : BOOLEAN, lease : 0 .. Wall + Margin,
                outcome : Outcomes]
  <2>1. Wall + Margin \in 0 .. Wall + Margin /\ "none" \in Outcomes
    BY DEF JobBounds, Outcomes
  <2> QED
    BY <2>1 DEF Inactivity!acquire, JobInv, JobTyped
<1>4. changes' \in 0 .. MaxChanges
  BY DEF Inactivity!acquire, JobInv, JobTyped, JobBounds
<1>5. UNCHANGED <<account, settings, committed, store>>
  BY DEF Inactivity!acquire
<1> QED
  BY <1>2, <1>3, <1>4, <1>5 DEF JobInv, JobTyped, VersionsOK, Inactivity!ActiveSuperadmins

LEMMA TransitionKeeps ==
  ASSUME JobBounds, JobInv, NEW r \in Inactivity!Runners, Inactivity!transitionOne(r)
  PROVE  JobInv'
<1>1. runner[r] \in Working
  BY AtWork DEF Inactivity!transitionOne, Inactivity!Continues, JobInv
<1>2. PICK u \in Inactivity!Candidates(runner[r].taken, runner[r].age) :
        account' = [account EXCEPT ![u] = Inactivity!Moved(u, runner[r].age)]
  BY DEF Inactivity!transitionOne
<1>3. u \in Inactivity!Accounts /\ ~Inactivity!LastSuperadmin(u)
  BY DEF Inactivity!Candidates
<1>4. Inactivity!Moved(u, runner[r].age) \in AccountRow
  <2>1. runner[r].age \in 0 .. Inactivity!AgeCap /\ 0 \in 0 .. Inactivity!AgeCap
    <3>1. runner[r].age \in 0 .. Wall
      BY <1>1 DEF Working
    <3>2. Inactivity!AgeCap \in Nat /\ Wall <= Inactivity!AgeCap /\ Wall \in Nat
      BY AgeCapTyped DEF JobBounds
    <3> QED
      BY <3>1, <3>2
  <2>2. account[u] \in AccountRow
    BY <1>3 DEF JobInv, JobTyped
  <2> QED
    BY <2>1, <2>2 DEF Inactivity!Moved, AccountRow, Statuses
<1>5. account' \in [Inactivity!Accounts -> AccountRow]
  BY <1>2, <1>3, <1>4, RowPut DEF JobInv
<1>6. Inactivity!ActiveSuperadmins' # {}
  BY <1>2, <1>3, AnotherIsLeft
<1>7. runner' \in [Inactivity!Runners -> {Inactivity!Idle} \cup Working \cup Completing]
  <2>1. [runner[r] EXCEPT !.moved = @ + 1] \in Working
    BY <1>1 DEF Working
  <2>2. runner' = [runner EXCEPT ![r] = [runner[r] EXCEPT !.moved = @ + 1]]
    BY <1>1 DEF Inactivity!transitionOne, JobInv, JobTyped
  <2> QED
    BY <2>1, <2>2, RunnerPut DEF JobInv
<1>8. UNCHANGED <<settings, committed, store, timer, changes>>
  BY DEF Inactivity!transitionOne
<1> QED
  BY <1>5, <1>6, <1>7, <1>8 DEF JobInv, JobTyped, VersionsOK

LEMMA RunEnds ==
  ASSUME JobBounds, JobInv, NEW r \in Inactivity!Runners, Inactivity!LoopEnds(r) \/ Inactivity!Fails(r) \/ Inactivity!complete(r)
  PROVE  JobInv'
<1>1. \E x \in {Inactivity!Idle} \cup Completing : runner' = [runner EXCEPT ![r] = x]
  <2>1. CASE Inactivity!LoopEnds(r)
    <3>1. Inactivity!Outcome(r) \in Outcomes
      BY DEF Inactivity!Outcome, Outcomes
    <3> HIDE DEF Inactivity!Outcome
    <3> QED
      BY <2>1, <3>1 DEF Inactivity!LoopEnds, Completing
  <2>2. CASE Inactivity!Fails(r)
    BY <2>2 DEF Inactivity!Fails, Completing, Outcomes
  <2>3. CASE Inactivity!complete(r)
    BY <2>3 DEF Inactivity!complete
  <2> QED
    BY <2>1, <2>2, <2>3
<1>2. runner' \in [Inactivity!Runners -> {Inactivity!Idle} \cup Working \cup Completing]
  BY <1>1, RunnerPut DEF JobInv
<1>3. timer' \in [next : 0 .. Interval, owned : BOOLEAN, lease : 0 .. Wall + Margin,
                outcome : Outcomes]
  <2>1. CASE Inactivity!complete(r)
    <3>1. runner[r].outcome \in Outcomes
      BY <2>1 DEF Inactivity!complete, JobInv, JobTyped, Inactivity!Idle, Working,
           Completing
    <3> QED
      BY <2>1, <3>1 DEF Inactivity!complete, JobInv, JobTyped, JobBounds
  <2>2. CASE Inactivity!LoopEnds(r) \/ Inactivity!Fails(r)
    BY <2>2 DEF Inactivity!LoopEnds, Inactivity!Fails, JobInv, JobTyped
  <2> QED
    BY <2>1, <2>2
<1>4. changes' \in 0 .. MaxChanges
  BY DEF Inactivity!LoopEnds, Inactivity!Fails, Inactivity!complete, JobInv, JobTyped,
       JobBounds
<1>5. UNCHANGED <<account, settings, committed, store>>
  BY DEF Inactivity!LoopEnds, Inactivity!Fails, Inactivity!complete
<1> QED
  BY <1>2, <1>3, <1>4, <1>5 DEF JobInv, JobTyped, VersionsOK, Inactivity!ActiveSuperadmins

LEMMA UpdateKeeps ==
  ASSUME JobBounds, JobInv, Inactivity!update
  PROVE  JobInv'
<1>1. PICK s \in SuspendChoices, d \in DeactivateChoices :
        LET next == [version |-> settings.version + 1, suspend |-> s, deactivate |-> d] IN
        /\ changes < MaxChanges /\ changes' = changes + 1
        /\ settings' = next
        /\ committed' = committed \cup {next}
        /\ UNCHANGED <<account, store, timer, runner>>
  BY DEF Inactivity!update
<1> DEFINE next == [version |-> settings.version + 1, suspend |-> s, deactivate |-> d]
<1>2. next \in Setting /\ next.version = settings.version + 1 /\ settings.version \in Nat
  BY DEF Setting, JobInv, JobTyped, JobBounds
<1>3. settings' = next /\ committed' = committed \cup {next} /\ store' = store
  BY <1>1
<1> HIDE DEF next
<1>4. \A value \in committed \cup {store} :
        value.version \in Nat /\ value.version < next.version
  BY <1>2 DEF JobInv, JobTyped, VersionsOK, Setting
<1>5. VersionsOK'
  BY <1>2, <1>3, <1>4 DEF VersionsOK
<1>6. JobTyped'
  BY <1>1, <1>2, <1>3 DEF JobInv, JobTyped, JobBounds
<1> QED
  BY <1>1, <1>5, <1>6 DEF JobInv, Inactivity!ActiveSuperadmins

LEMMA ReplaceKeeps ==
  ASSUME JobInv, Inactivity!replace
  PROVE  JobInv'
<1>1. PICK value \in committed :
        /\ committed' = committed \ {value}
        /\ store' = IF Inactivity!Replaces(value) THEN value ELSE store
        /\ UNCHANGED <<account, settings, timer, runner, changes>>
  BY DEF Inactivity!replace
<1>2. \A v \in committed \cup {store} : v \in Setting /\ v.version \in Nat
  BY DEF JobInv, JobTyped, Setting
<1>3. CASE Inactivity!Replaces(value)
  <2>1. settings # store
    BY <1>2, <1>3 DEF Inactivity!Replaces, JobInv, VersionsOK
  <2> QED
    BY <1>1, <1>2, <1>3, <2>1 DEF JobInv, JobTyped, VersionsOK, Inactivity!ActiveSuperadmins
<1>4. CASE ~Inactivity!Replaces(value)
  <2>1. value = settings => store = settings
    BY <1>2, <1>4 DEF Inactivity!Replaces, JobInv, JobTyped, Setting, VersionsOK
  <2> QED
    BY <1>1, <1>2, <1>4, <2>1 DEF JobInv, JobTyped, VersionsOK, Inactivity!ActiveSuperadmins
<1> QED
  BY <1>3, <1>4

LEMMA AccountKeeps ==
  ASSUME JobBounds, JobInv, NEW u \in Inactivity!Accounts,
         Inactivity!recordQualifyingActivity(u) \/ Inactivity!suspend(u) \/ Inactivity!reactivate(u)
  PROVE  JobInv'
<1>1. 0 \in 0 .. Inactivity!AgeCap /\ account[u] \in AccountRow
  BY AgeCapTyped DEF JobInv, JobTyped
<1>2. \E row \in AccountRow : /\ account' = [account EXCEPT ![u] = row]
                              /\ row.status = "active" \/ ~Inactivity!LastSuperadmin(u)
  <2>1. CASE Inactivity!recordQualifyingActivity(u)
    <3>1. [account[u] EXCEPT !.idle = 0] \in AccountRow
      BY <1>1 DEF AccountRow
    <3>2. [account[u] EXCEPT !.idle = 0].status = "active"
      BY <1>1, <2>1 DEF AccountRow, Inactivity!recordQualifyingActivity
    <3> QED
      BY <2>1, <3>1, <3>2 DEF Inactivity!recordQualifyingActivity, Inactivity!Outside
  <2>2. CASE Inactivity!suspend(u)
    <3>1. [account[u] EXCEPT !.status = "suspended", !.held = 0] \in AccountRow
      BY <1>1 DEF AccountRow, Statuses
    <3> QED
      BY <2>2, <3>1 DEF Inactivity!suspend, Inactivity!Outside
  <2>3. CASE Inactivity!reactivate(u)
    <3>1. /\ [account[u] EXCEPT !.status = "active", !.held = 0] \in AccountRow
          /\ [account[u] EXCEPT !.status = "active", !.held = 0].status = "active"
      BY <1>1 DEF AccountRow, Statuses
    <3> QED
      BY <2>3, <3>1 DEF Inactivity!reactivate, Inactivity!Outside
  <2> QED
    BY <2>1, <2>2, <2>3
<1>3. PICK row \in AccountRow : /\ account' = [account EXCEPT ![u] = row]
                                /\ row.status = "active" \/ ~Inactivity!LastSuperadmin(u)
  BY <1>2
<1>4. account' \in [Inactivity!Accounts -> AccountRow]
  BY <1>3, RowPut DEF JobInv
<1>5. Inactivity!ActiveSuperadmins' # {}
  <2>1. CASE ~Inactivity!LastSuperadmin(u)
    BY <1>3, <2>1, AnotherIsLeft
  <2>2. CASE row.status = "active"
    <3>1. \A v \in Inactivity!Accounts : account'[v] = IF v = u THEN row ELSE account[v]
      BY <1>3 DEF JobInv, JobTyped
    <3>2. \A v \in Inactivity!ActiveSuperadmins : v \in Inactivity!ActiveSuperadmins'
      BY <2>2, <3>1 DEF Inactivity!ActiveSuperadmins, Inactivity!Accounts
    <3> QED
      BY <3>2 DEF JobInv
  <2> QED
    BY <1>3, <2>1, <2>2
<1>6. changes' \in 0 .. MaxChanges
  BY DEF Inactivity!recordQualifyingActivity, Inactivity!suspend, Inactivity!reactivate,
       Inactivity!Outside, JobInv, JobTyped, JobBounds
<1>7. UNCHANGED <<settings, committed, store, timer, runner>>
  BY DEF Inactivity!recordQualifyingActivity, Inactivity!suspend, Inactivity!reactivate,
       Inactivity!Outside
<1> QED
  BY <1>4, <1>5, <1>6, <1>7 DEF JobInv, JobTyped, VersionsOK

LEMMA TickKeeps ==
  ASSUME JobBounds, JobInv, Inactivity!Tick
  PROVE  JobInv'
<1>1. Inactivity!AgeCap \in Nat
  BY AgeCapTyped
<1>2. \A n \in 0 .. Inactivity!AgeCap : Inactivity!Older(n) \in 0 .. Inactivity!AgeCap
  BY <1>1 DEF Inactivity!Older
<1>3. ASSUME NEW u \in Inactivity!Accounts
      PROVE  account'[u] \in AccountRow /\ account'[u].status = account[u].status
  <2>1. account[u] \in AccountRow
    BY DEF JobInv, JobTyped
  <2>2. account'[u] = [account[u] EXCEPT
          !.idle = Inactivity!Older(@),
          !.held = IF account[u].status = "suspended" THEN Inactivity!Older(@) ELSE @]
    BY DEF Inactivity!Tick
  <2> QED
    BY <1>2, <2>1, <2>2 DEF AccountRow
<1>4. account' \in [Inactivity!Accounts -> AccountRow]
  BY <1>3 DEF Inactivity!Tick
<1>5. Inactivity!ActiveSuperadmins' = Inactivity!ActiveSuperadmins
  BY <1>3 DEF Inactivity!ActiveSuperadmins, Inactivity!Accounts
<1>6. timer' \in [next : 0 .. Interval, owned : BOOLEAN, lease : 0 .. Wall + Margin,
                outcome : Outcomes]
  <2>1. /\ \A n \in 0 .. Interval : Inactivity!Sooner(n) \in 0 .. Interval
        /\ \A n \in 0 .. Wall + Margin : Inactivity!Sooner(n) \in 0 .. Wall + Margin
    BY DEF Inactivity!Sooner, JobBounds
  <2> QED
    BY <2>1 DEF Inactivity!Tick, JobInv, JobTyped
<1>7. ASSUME NEW r \in Inactivity!Runners
      PROVE  runner'[r] \in {Inactivity!Idle} \cup Working \cup Completing
  <2>1. CASE runner[r].phase = "working" /\ runner[r].age < Wall
    <3>1. runner[r] \in Working
      BY <2>1, AtWork DEF JobInv
    <3>2. runner'[r] = [runner[r] EXCEPT !.age = @ + 1]
      BY <2>1 DEF Inactivity!Tick
    <3> QED
      BY <2>1, <3>1, <3>2 DEF Working, JobBounds
  <2>2. CASE ~(runner[r].phase = "working" /\ runner[r].age < Wall)
    BY <2>2 DEF Inactivity!Tick, JobInv, JobTyped
  <2> QED
    BY <2>1, <2>2
<1>8. runner' \in [Inactivity!Runners -> {Inactivity!Idle} \cup Working \cup Completing]
  BY <1>7 DEF Inactivity!Tick
<1>9. UNCHANGED <<settings, committed, store, changes>>
  BY DEF Inactivity!Tick
<1> QED
  BY <1>4, <1>5, <1>6, <1>8, <1>9 DEF JobInv, JobTyped, VersionsOK

LEMMA StopKeeps ==
  ASSUME JobBounds, JobInv, Inactivity!Stop
  PROVE  JobInv'
<1>1. runner' \in [Inactivity!Runners -> {Inactivity!Idle} \cup Working \cup Completing]
  BY DEF Inactivity!Stop
<1>2. changes' \in 0 .. MaxChanges
  BY DEF Inactivity!Stop, JobInv, JobTyped, JobBounds
<1>3. VersionsOK'
  BY DEF Inactivity!Stop, JobInv, JobTyped, Setting, VersionsOK
<1> QED
  BY <1>1, <1>2, <1>3 DEF Inactivity!Stop, JobInv, JobTyped, Inactivity!ActiveSuperadmins

LEMMA JobNext ==
  ASSUME JobBounds, JobInv, [Inactivity!Next]_(Inactivity!jobVars)
  PROVE  JobInv'
<1>1. ASSUME NEW r \in Inactivity!Runners, Inactivity!acquire(r)
      PROVE  JobInv'
  BY <1>1, AcquireKeeps
<1>2. ASSUME NEW r \in Inactivity!Runners, Inactivity!transitionOne(r)
      PROVE  JobInv'
  BY <1>2, TransitionKeeps
<1>3. ASSUME NEW r \in Inactivity!Runners, Inactivity!LoopEnds(r) \/ Inactivity!Fails(r) \/ Inactivity!complete(r)
      PROVE  JobInv'
  BY <1>3, RunEnds
<1>4. CASE Inactivity!update
  BY <1>4, UpdateKeeps
<1>5. CASE Inactivity!replace
  BY <1>5, ReplaceKeeps
<1>6. CASE Inactivity!Tick
  BY <1>6, TickKeeps
<1>7. CASE Inactivity!Stop
  BY <1>7, StopKeeps
<1>8. ASSUME NEW u \in Inactivity!Accounts, Inactivity!recordQualifyingActivity(u) \/ Inactivity!suspend(u) \/ Inactivity!reactivate(u)
      PROVE  JobInv'
  BY <1>8, AccountKeeps
<1>9. CASE UNCHANGED Inactivity!jobVars
  BY <1>9 DEF Inactivity!jobVars, JobInv, JobTyped, VersionsOK, Inactivity!ActiveSuperadmins
<1> QED
  BY <1>1, <1>2, <1>3, <1>4, <1>5, <1>6, <1>7, <1>8, <1>9 DEF Inactivity!Next,
       Inactivity!RunStep

LEMMA JobSafe ==
  ASSUME JobInv
  PROVE  Inactivity!SettingsAndSuperadminKept
<1>1. Inactivity!TypeOK
  BY DEF JobInv, JobTyped, Inactivity!TypeOK, AccountRow, Statuses
<1>2. committed = {} => store = settings
  BY DEF JobInv, VersionsOK
<1> QED
  BY <1>1, <1>2 DEF Inactivity!SettingsAndSuperadminKept, JobInv

\* What is proved of the job does not need its fairness.
JobSafety == Inactivity!Init /\ [][Inactivity!Next]_(Inactivity!jobVars)

\* The strengthening holds of the job for any accounts, periods, wall time and batch,
\* at any interleaving of its runs with updates, account changes and stops
\* (inactivityJob.ts, securitySettings.ts).
THEOREM JobInductive == JobBounds /\ JobSafety => []JobInv
<1> SUFFICES ASSUME JobBounds PROVE JobSafety => []JobInv
  OBVIOUS
<1>1. Inactivity!Init => JobInv
  BY JobInit
<1>2. JobInv /\ [Inactivity!Next]_(Inactivity!jobVars) => JobInv'
  BY JobNext
<1> QED
  BY <1>1, <1>2, PTL DEF JobSafety

\* The cached settings never fall behind the row between updates, and a superadmin
\* stays active whatever runs overlap (securitySettings.ts replace,
\* inactivityJob.ts transitionOne).
THEOREM JobKeepsSettingsAndSuperadmin ==
  JobBounds /\ JobSafety => []Inactivity!SettingsAndSuperadminKept
<1>1. JobInv => Inactivity!SettingsAndSuperadminKept
  BY JobSafe
<1> QED
  BY <1>1, JobInductive, PTL

-----------------------------------------------------------------------------
(* The control plane: a behaviour of MCControlPlane is one of each part,   *)
(* since a step belongs to the part in focus and leaves the other alone.   *)

LEMMA PlaneParts == PlaneSpec => ServerSafety /\ JobSafety
<1>1. PlaneInit => Init /\ Inactivity!Init
  BY DEF PlaneInit
<1>2. [PlaneNext]_planeVars => [Next]_vars /\ [Inactivity!Next]_(Inactivity!jobVars)
  BY DEF PlaneNext, planeVars, vars, jobVars, Inactivity!jobVars
<1> QED
  BY <1>1, <1>2, PTL DEF PlaneSpec, ServerSafety, JobSafety

\* No effect without the right to it and none twice on one proof
\* (routeRegistry.ts, stepUp.ts withConsumedProof).
THEOREM PlaneEffectsEntitled == PlaneSpec => []OnlyEntitledEffects
<1>1. EffectsAreEntitled => OnlyEntitledEffects
  BY DEF OnlyEntitledEffects
<1> QED
  BY <1>1, PlaneParts, EffectsStayEntitled, PTL

\* Ordinary work and a restore exclude each other (restoreMaintenance.ts).
THEOREM PlaneRestoresAlone == PlaneSpec => []OnlyRestoreRuns
<1>1. RestoreRunsAlone => OnlyRestoreRuns
  BY DEF OnlyRestoreRuns
<1> QED
  BY <1>1, PlaneParts, RestoreStaysAlone, PTL

\* The cached settings do not fall behind the row and a superadmin stays active
\* (securitySettings.ts replace, inactivityJob.ts transitionOne).
THEOREM PlaneKeepsSettings == PlaneSpec => []SettingsAndSuperadminKept
<1>1. JobBounds
  BY JobParameters DEF JobBounds
<1>2. Inactivity!SettingsAndSuperadminKept => SettingsAndSuperadminKept
  BY DEF SettingsAndSuperadminKept
<1> QED
  BY <1>1, <1>2, PlaneParts, JobKeepsSettingsAndSuperadmin, PTL
=============================================================================
