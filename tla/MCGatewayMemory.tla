--------------------------- MODULE MCGatewayMemory ---------------------------
(***************************************************************************)
(* What one process keeps in memory and at a limit, for TLC: opaque        *)
(* references, the places of requests and scans, and the caches and slots  *)
(* of sign-ins through a provider with their table of flows.  They share   *)
(* no state, so a behaviour is about one of them, its focus, and the       *)
(* others keep their initial state.  Focus "flows" uses one provider while  *)
(* time passes; focus "providers" has them compete for the places in the   *)
(* caches, in a process that restarts.                                     *)
(***************************************************************************)
EXTENDS TokenBroker, TLC

CONSTANTS
  f1, f2, f3, f4, u1, u2, s1, s2, b1, b2, r1,
  Jobs, MaxTotal, MaxPerSource, MaxPerService, PoolWorkers, QueueMax, SubjectActiveMax,
    SubjectQueueMax, MaxFailures,     \* of the requests and the scanner pool
  FlowStates, Providers, SoleProvider, FlowTtl, CacheTtl, Timeout, MaxFlows, MaxInflight,
    MaxPerProvider, MaxCacheRecords, MaxKey, LastMoment, MaxRestarts  \* of the sign-ins

VARIABLES
  focus,
  request, bySource, byService, requests, slot, queue, activeBySubject, closed, late,
    strays, failures,
  flow, cookie, call, discovery, jwks, outgoing, inflight, signing, withdrawn, posts,
    asserted, moment, restarts

Scanning == INSTANCE ScannerPool WITH
  ScanSubjects <- Subjects, ScanServices <- Bindings

SignIns == INSTANCE OidcFlow WITH
  now <- moment, total <- outgoing, Calls <- Subjects, Browsers <- Bindings,
  Flows <- FlowStates, MaxRecords <- MaxFlows, MaxTime <- LastMoment

ASSUME ScanParameters ==
  /\ IsFiniteSet(Jobs) /\ Scanning!NoJob \notin Jobs
  /\ {MaxTotal, MaxPerSource, MaxPerService, PoolWorkers, QueueMax, SubjectActiveMax,
      SubjectQueueMax, MaxFailures} \subseteq Nat

ASSUME SignInParameters ==
  /\ IsFiniteSet(Subjects) /\ IsFiniteSet(FlowStates) /\ FlowStates \subseteq Nat \ {0}
  /\ SoleProvider \in Providers
  /\ {FlowTtl, CacheTtl, Timeout, MaxKey} \subseteq Nat \ {0}
  /\ {MaxFlows, MaxInflight, MaxPerProvider, MaxCacheRecords, LastMoment,
      MaxRestarts} \subseteq Nat

scanVars == <<request, bySource, byService, requests, slot, queue, activeBySubject, closed,
              late, strays, failures>>
flowVars == <<flow, cookie, call, discovery, jwks, outgoing, inflight, signing, withdrawn,
              posts, asserted, moment, restarts>>
memoryVars == <<focus, vars, scanVars, flowVars>>

MemoryInit ==
  /\ focus \in {"references", "scans", "flows", "providers"}
  /\ Init /\ Scanning!Init /\ SignIns!Init

MemoryNext ==
  \/ focus = "references" /\ Next /\ UNCHANGED <<focus, scanVars, flowVars>>
  \/ focus = "scans" /\ Scanning!Next /\ UNCHANGED <<focus, vars, flowVars>>
  \/ /\ \/ focus = "flows" /\ (SignIns!SignsIn({SoleProvider}) \/ SignIns!Tick)
        \/ focus = "providers" /\ (SignIns!SignsIn(Providers) \/ SignIns!Restart)
     /\ UNCHANGED <<focus, vars, scanVars>>

MemorySpec == MemoryInit /\ [][MemoryNext]_memoryVars

Symmetric == Permutations(References) \cup Permutations(Subjects)
             \cup Permutations(Bindings)

-----------------------------------------------------------------------------
(* What is checked besides TableKept.                                      *)

\* Limiter and scanner pool count exactly what is under way and keep no
\* request waiting without reason (serviceRequestLimiter.ts,
\* secretScannerPool.ts).
CapacityKept == focus = "scans" => Scanning!CapacityKept

\* A flow is used once, by the browser that began it, the table and the
\* limiter keep their limits, and a withdrawn key is trusted no longer than the
\* caches reach (oidcFlow.ts, oidcTrust.ts).
FlowsKept ==
  [](focus \in {"flows", "providers"} => SignIns!FlowsUsedOnce) /\ SignIns!TrustEnds
=============================================================================
