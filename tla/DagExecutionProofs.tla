------------------------- MODULE DagExecutionProofs -------------------------
(***************************************************************************)
(* Proofs about DagExecution, for any runs, plans, tenants and limits.     *)
(*                                                                         *)
(* Capacity: every counter of DagWorkerCapacity is the number of the       *)
(* coroutines at the places of acquire() that it stands for, so that it    *)
(* changes with each of their moves.                                       *)
(*                                                                         *)
(* Results: a node starts on collected dependencies, whose results do not  *)
(* change any more in its round.  A cached result may be reused in a later *)
(* round on the versions of its inputs alone because versions are never    *)
(* given twice: whatever has the version of one of its inputs ended well.  *)
(***************************************************************************)
EXTENDS DagExecution, FiniteSetTheorems, TLAPS

PcState == {"none", "finished", "error", "collected"} \cup Pending
PhaseState == {"idle", "execute", "unwind", "synthesize", "critique", "revise"} \cup Ended

-----------------------------------------------------------------------------
(* Capacity *)

\* Inside acquire().
Held == {"running"} \cup Waiting

Workers(S) == {w \in Run \X Node : pc[w[1]][w[2]] \in S}
WorkersOf(t, S) == {w \in Run \X Node : tenant[w[1]] = t /\ pc[w[1]][w[2]] \in S}

Count(S) == Cardinality(Workers(S))
CountOf(t, S) == Cardinality(WorkersOf(t, S))

CountersAreExact ==
  /\ IsFiniteSet(Workers(Held))
  /\ \A t \in Tenant :
       /\ users[t] = CountOf(t, Held)
       /\ free[t] + CountOf(t, {"running", "waitGlobal"}) = per_tenant
  /\ inflight = Count(Held)
  /\ freeGlobal + Count({"running"}) = total

-----------------------------------------------------------------------------
(* Runs *)

\* The results of run r that are kept anywhere.
Kept(r) == ({result[r][n] : n \in Node} \cup {cache[r][n] : n \in Node}) \ {NoResult}

\* No version is given twice, and none is zero.
VersionsAreUnique(r) ==
  /\ \A x \in Kept(r) : x.version \in 1 .. versions[r] /\ \A d \in Node : x.inputs[d] <= versions[r]
  /\ \A x, y \in Kept(r) : x.version = y.version => x.stop = y.stop

\* What is cached ended well, and so did all it was made from.
CacheIsSound(r) ==
  \A n \in Node : cache[r][n] # NoResult =>
    /\ cache[r][n].stop = "DONE"
    /\ \A d \in Node, x \in Kept(r) : cache[r][n].inputs[d] = x.version => x.stop = "DONE"

\* Nodes are started on collected dependencies, and what has a result has the right one.
NodesAreSound(r) ==
  \A n \in Node :
    /\ pc[r][n] # "none" =>
         n \in plan[r].tasks /\ \A d \in plan[r].deps[n] : pc[r][d] = "collected"
    /\ pc[r][n] \in {"running"} \cup Waiting => ~UpstreamFailed(r, n)
    /\ pc[r][n] \in {"finished", "collected"} =>
         /\ result[r][n] # NoResult
         /\ result[r][n].desc = plan[r].desc[n]
         /\ result[r][n].inputs = InputVersions(r, n)
         /\ result[r][n].stop = "SKIPPED" <=> UpstreamFailed(r, n)

\* The rounds and the end of a run.
RunIsSound(r) ==
  /\ phase[r] = "idle" => pc[r] = NoNodes
  /\ phase[r] \notin {"execute", "unwind"} => Nodes(r, Pending) = {}
  /\ phase[r] \in {"synthesize", "critique", "revise", "replied"} =>
       \A n \in plan[r].tasks : pc[r][n] = "collected"
  /\ phase[r] = "critique" /\ synthesis[r] = "DONE" => AllDone(r)
  /\ phase[r] = "revise" => attempt[r] <= max_replans
  /\ phase[r] = "replied" => ~exhausted[r] /\ (accepted[r] => AllDone(r))
  /\ calls[r] <= max_model_calls[r]

RunInv(r) == VersionsAreUnique(r) /\ CacheIsSound(r) /\ NodesAreSound(r) /\ RunIsSound(r)


-----------------------------------------------------------------------------
(* Moves of the coroutines and what they do to the counters *)

\* The limits, in the form the steps use them.
LEMMA Limits ==
  /\ max_tasks \in Nat /\ total \in Nat /\ per_tenant \in Nat /\ per_tenant # 0
  /\ max_replans \in Nat /\ threshold \in Nat
  /\ \A r \in Run : max_model_calls[r] \in Nat /\ tenant[r] \in Tenant
  BY DagAssumption DEF DagAssumption, Tenant

\* Sets of workers are parts of those in acquire().
LEMMA WorkersFinite ==
  ASSUME IsFiniteSet(Workers(Held)), NEW S \in SUBSET Held
  PROVE  /\ IsFiniteSet(Workers(S)) /\ Count(S) \in Nat
         /\ \A t : IsFiniteSet(WorkersOf(t, S)) /\ CountOf(t, S) \in Nat
  <1>1. Workers(S) \subseteq Workers(Held) /\ \A t : WorkersOf(t, S) \subseteq Workers(Held)
    BY DEF Workers, WorkersOf
  <1>2. IsFiniteSet(Workers(S)) /\ \A t : IsFiniteSet(WorkersOf(t, S))
    BY <1>1, FS_Subset
  <1> QED  BY <1>2, FS_CardinalityType DEF Count, CountOf

\* Coroutine n of run r goes to place b.
Goes(r, n, b) ==
  /\ pc'[r][n] = b
  /\ \A p \in Run, m \in Node : <<p, m>> # <<r, n>> => pc'[p][m] = pc[p][m]

\* How the number of workers at some places of acquire() follows a move.
LEMMA Recount ==
  ASSUME IsFiniteSet(Workers(Held)), NEW r \in Run, NEW n \in Node, NEW b, Goes(r, n, b),
         NEW S \in SUBSET Held
  PROVE  /\ IsFiniteSet(Workers(S)')
         /\ pc[r][n] \notin S /\ b \in S =>
              /\ Count(S)' = Count(S) + 1
              /\ CountOf(tenant[r], S)' = CountOf(tenant[r], S) + 1
         /\ pc[r][n] \in S /\ b \notin S =>
              /\ Count(S)' = Count(S) - 1 /\ Count(S) # 0
              /\ CountOf(tenant[r], S)' = CountOf(tenant[r], S) - 1
              /\ CountOf(tenant[r], S) # 0
         /\ (pc[r][n] \in S <=> b \in S) =>
              /\ Count(S)' = Count(S)
              /\ CountOf(tenant[r], S)' = CountOf(tenant[r], S)
         /\ \A t : t # tenant[r] => CountOf(t, S)' = CountOf(t, S)
  <1> DEFINE w == <<r, n>>
             A == Workers(S)
             B == WorkersOf(tenant[r], S)
  <1>0. IsFiniteSet(A) /\ IsFiniteSet(B)
    BY WorkersFinite
  <1>1. w \in Run \X Node /\ \A v \in Run \X Node : \E p \in Run, m \in Node : v = <<p, m>>
    OBVIOUS
  <1>2. \A v \in Run \X Node : v # w => (pc'[v[1]][v[2]] \in S <=> pc[v[1]][v[2]] \in S)
    BY <1>1 DEF Goes
  <1>3. pc'[w[1]][w[2]] = b /\ pc[w[1]][w[2]] = pc[r][n] /\ w[1] = r
    BY DEF Goes
  <1> HIDE DEF w
  <1>4. \A t : t # tenant[r] => CountOf(t, S)' = CountOf(t, S)
    <2> SUFFICES ASSUME NEW t, t # tenant[r]  PROVE WorkersOf(t, S)' = WorkersOf(t, S)
      BY DEF CountOf
    <2> QED  BY <1>2, <1>3 DEF WorkersOf
  <1>5. ASSUME pc[r][n] \notin S, b \in S
        PROVE  /\ IsFiniteSet(A') /\ Count(S)' = Count(S) + 1
               /\ CountOf(tenant[r], S)' = CountOf(tenant[r], S) + 1
    <2>1. A' = A \cup {w} /\ w \notin A
      BY <1>1, <1>2, <1>3, <1>5 DEF Workers
    <2>2. B' = B \cup {w} /\ w \notin B
      BY <1>1, <1>2, <1>3, <1>5 DEF WorkersOf
    <2>3. IsFiniteSet(A') /\ Cardinality(A') = Cardinality(A) + 1
      BY <2>1, <1>0, FS_AddElement
    <2>4. Cardinality(B') = Cardinality(B) + 1
      BY <2>2, <1>0, FS_AddElement
    <2> QED  BY <2>3, <2>4 DEF Count, CountOf
  <1>6. ASSUME pc[r][n] \in S, b \notin S
        PROVE  /\ IsFiniteSet(A') /\ Count(S)' = Count(S) - 1 /\ Count(S) # 0
               /\ CountOf(tenant[r], S)' = CountOf(tenant[r], S) - 1
               /\ CountOf(tenant[r], S) # 0
    <2>1. A' = A \ {w} /\ w \in A
      BY <1>1, <1>2, <1>3, <1>6 DEF Workers
    <2>2. B' = B \ {w} /\ w \in B
      BY <1>1, <1>2, <1>3, <1>6 DEF WorkersOf
    <2>3. Cardinality(A) # 0 /\ Cardinality(B) # 0
      BY <2>1, <2>2, <1>0, FS_EmptySet
    <2> HIDE DEF A, B
    <2>4. IsFiniteSet(A') /\ Cardinality(A') = Cardinality(A) - 1
      BY <2>1, <1>0, FS_RemoveElement
    <2>5. Cardinality(B') = Cardinality(B) - 1
      BY <2>2, <1>0, FS_RemoveElement
    <2> QED  BY <2>3, <2>4, <2>5 DEF A, B, Count, CountOf
  <1>7. ASSUME pc[r][n] \in S <=> b \in S
        PROVE  /\ IsFiniteSet(A') /\ Count(S)' = Count(S)
               /\ CountOf(tenant[r], S)' = CountOf(tenant[r], S)
    <2>1. A' = A
      BY <1>1, <1>2, <1>3, <1>7 DEF Workers
    <2>2. B' = B
      BY <1>1, <1>2, <1>3, <1>7 DEF WorkersOf
    <2> QED  BY <2>1, <2>2, <1>0 DEF Count, CountOf
  <1> QED  BY <1>4, <1>5, <1>6, <1>7

CapacityTypes ==
  users \in [Tenant -> Nat] /\ inflight \in Nat /\ free \in [Tenant -> Nat] /\ freeGlobal \in Nat

CapacityInv == CapacityTypes /\ CountersAreExact

\* Nobody enters, leaves or moves in acquire().
Unmoved ==
  \A p \in Run, m \in Node :
    pc[p][m] \in Held \/ pc'[p][m] \in Held => pc'[p][m] = pc[p][m]

\* The places the counters tell apart.
LEMMA Places ==
  /\ Held = {"running", "waitTenant", "waitGlobal"}
  /\ Held \in SUBSET Held /\ {"running", "waitGlobal"} \in SUBSET Held /\ {"running"} \in SUBSET Held
  BY DEF Held, Waiting

\* Without a move, and without a step of the capacity, its invariant stays.
LEMMA CapacityKept ==
  ASSUME CapacityInv, Unmoved, UNCHANGED capacityVars
  PROVE  CapacityInv'
  <1>1. ASSUME NEW S \in SUBSET Held
        PROVE  Workers(S)' = Workers(S) /\ \A t : WorkersOf(t, S)' = WorkersOf(t, S)
    <2>1. \A w \in Run \X Node : pc'[w[1]][w[2]] \in S <=> pc[w[1]][w[2]] \in S
      BY DEF Unmoved
    <2> QED  BY <2>1 DEF Workers, WorkersOf
  <1>2. \A S \in SUBSET Held : Count(S)' = Count(S) /\ \A t : CountOf(t, S)' = CountOf(t, S)
    BY <1>1 DEF Count, CountOf
  <1>3. IsFiniteSet(Workers(Held)')
    BY <1>1, Places DEF CapacityInv, CountersAreExact
  <1>4. UNCHANGED <<users, inflight, free, freeGlobal>>
    BY DEF capacityVars
  <1>5. CapacityTypes'
    BY <1>4 DEF CapacityInv, CapacityTypes
  <1>6. CountersAreExact'
    BY <1>2, <1>3, <1>4, Places DEF CapacityInv, CountersAreExact
  <1> QED  BY <1>5, <1>6 DEF CapacityInv

\* acquire() admits a worker.
LEMMA CapacityQueued ==
  ASSUME CapacityInv, NEW r \in Run, NEW n \in Node, pc[r][n] = "submitted",
         Goes(r, n, "waitTenant"),
         users' = [users EXCEPT ![tenant[r]] = @ + 1], inflight' = inflight + 1,
         UNCHANGED <<free, freeGlobal>>
  PROVE  CapacityInv'
  <1>0. tenant[r] \in Tenant /\ users \in [Tenant -> Nat] /\ inflight \in Nat
        /\ CountersAreExact /\ IsFiniteSet(Workers(Held))
    BY Limits DEF CapacityInv, CapacityTypes, CountersAreExact
  <1>1. /\ IsFiniteSet(Workers(Held)')
        /\ Count(Held)' = Count(Held) + 1
        /\ CountOf(tenant[r], Held)' = CountOf(tenant[r], Held) + 1
        /\ \A t : t # tenant[r] => CountOf(t, Held)' = CountOf(t, Held)
    BY <1>0, Recount, Places
  <1>2. \A t : CountOf(t, {"running", "waitGlobal"})' = CountOf(t, {"running", "waitGlobal"})
    <2> DEFINE S == {"running", "waitGlobal"}
    <2>1. "waitTenant" \notin S /\ pc[r][n] \notin S /\ S \in SUBSET Held
      BY Places
    <2> HIDE DEF S
    <2>2. \A t : CountOf(t, S)' = CountOf(t, S)
      BY <2>1, <1>0, Recount
    <2> QED  BY <2>2 DEF S
  <1>3. Count({"running"})' = Count({"running"})
    BY <1>0, Recount, Places
  <1>4. /\ users' \in [Tenant -> Nat] /\ users'[tenant[r]] = users[tenant[r]] + 1
        /\ \A t \in Tenant : t # tenant[r] => users'[t] = users[t]
    BY <1>0
  <1>5. \A t \in Tenant : users'[t] = CountOf(t, Held)'
    BY <1>0, <1>1, <1>4 DEF CountersAreExact
  <1>6. CountersAreExact'
    BY <1>0, <1>1, <1>2, <1>3, <1>5 DEF CountersAreExact
  <1>7. CapacityTypes'
    BY <1>0, <1>4 DEF CapacityInv, CapacityTypes
  <1> QED  BY <1>6, <1>7 DEF CapacityInv

\* It gets the tenant's semaphore.
LEMMA CapacityTenant ==
  ASSUME CapacityInv, NEW r \in Run, NEW n \in Node, pc[r][n] = "waitTenant",
         Goes(r, n, "waitGlobal"), free[tenant[r]] > 0,
         free' = [free EXCEPT ![tenant[r]] = @ - 1],
         UNCHANGED <<users, inflight, freeGlobal>>
  PROVE  CapacityInv'
  <1> DEFINE S == {"running", "waitGlobal"}
  <1>0. tenant[r] \in Tenant /\ free \in [Tenant -> Nat] /\ per_tenant \in Nat
        /\ CountersAreExact /\ IsFiniteSet(Workers(Held))
    BY Limits DEF CapacityInv, CapacityTypes, CountersAreExact
  <1>1. /\ CountOf(tenant[r], S)' = CountOf(tenant[r], S) + 1
        /\ \A t : t # tenant[r] => CountOf(t, S)' = CountOf(t, S)
    BY <1>0, Recount, Places
  <1>2. /\ IsFiniteSet(Workers(Held)') /\ Count(Held)' = Count(Held)
        /\ \A t : CountOf(t, Held)' = CountOf(t, Held)
    BY <1>0, Recount, Places
  <1>3. Count({"running"})' = Count({"running"})
    BY <1>0, Recount, Places
  <1>n. \A t : CountOf(t, S) \in Nat
    BY <1>0, WorkersFinite, Places
  <1> HIDE DEF S
  <1>4. /\ free' \in [Tenant -> Nat] /\ free'[tenant[r]] = free[tenant[r]] - 1
        /\ \A t \in Tenant : t # tenant[r] => free'[t] = free[t]
    BY <1>0
  <1>5. free'[tenant[r]] + CountOf(tenant[r], S)' = free[tenant[r]] + CountOf(tenant[r], S)
    BY <1>0, <1>1, <1>4, <1>n
  <1>6. \A t \in Tenant : free'[t] + CountOf(t, S)' = per_tenant
    BY <1>0, <1>1, <1>4, <1>5 DEF CountersAreExact, S
  <1>7. CountersAreExact'
    BY <1>0, <1>2, <1>3, <1>6 DEF CountersAreExact, S
  <1>8. CapacityTypes'
    BY <1>4 DEF CapacityInv, CapacityTypes
  <1> QED  BY <1>7, <1>8 DEF CapacityInv

\* It gets the global one.
LEMMA CapacityGlobal ==
  ASSUME CapacityInv, NEW r \in Run, NEW n \in Node, pc[r][n] = "waitGlobal",
         Goes(r, n, "running"), freeGlobal > 0,
         freeGlobal' = freeGlobal - 1,
         UNCHANGED <<users, inflight, free>>
  PROVE  CapacityInv'
  <1>0. freeGlobal \in Nat /\ total \in Nat
        /\ CountersAreExact /\ IsFiniteSet(Workers(Held))
    BY Limits DEF CapacityInv, CapacityTypes, CountersAreExact
  <1>1. /\ IsFiniteSet(Workers(Held)') /\ Count(Held)' = Count(Held)
        /\ \A t : CountOf(t, Held)' = CountOf(t, Held)
    BY <1>0, Recount, Places
  <1>2. \A t : CountOf(t, {"running", "waitGlobal"})' = CountOf(t, {"running", "waitGlobal"})
    BY <1>0, Recount, Places
  <1>3. Count({"running"})' = Count({"running"}) + 1 /\ Count({"running"}) \in Nat
    BY <1>0, Recount, WorkersFinite, Places
  <1>4. freeGlobal' + Count({"running"})' = total /\ freeGlobal' \in Nat
    BY <1>0, <1>3 DEF CountersAreExact
  <1>5. CountersAreExact'
    BY <1>0, <1>1, <1>2, <1>4 DEF CountersAreExact
  <1>6. CapacityTypes'
    BY <1>4 DEF CapacityInv, CapacityTypes
  <1> QED  BY <1>5, <1>6 DEF CapacityInv

\* It leaves, from wherever it is in acquire(): the last user of a tenant leaves nobody
\* behind that holds the semaphore which is dropped.
LEMMA CapacityLeft ==
  ASSUME CapacityInv, NEW r \in Run, NEW n \in Node, pc[r][n] \in Held,
         NEW b \in {"finished", "error"}, Goes(r, n, b), LeavesCapacity(r, n)
  PROVE  CapacityInv'
  <1> DEFINE S == {"running", "waitGlobal"}
             t == tenant[r]
             c == CountOf(t, S)
             f == IF users[t] = 1 THEN per_tenant
                  ELSE IF pc[r][n] = "waitTenant" THEN free[t] ELSE free[t] + 1
  <1>0. /\ tenant[r] \in Tenant /\ users \in [Tenant -> Nat] /\ free \in [Tenant -> Nat]
        /\ inflight \in Nat /\ freeGlobal \in Nat /\ per_tenant \in Nat /\ total \in Nat
        /\ CountersAreExact /\ IsFiniteSet(Workers(Held))
    BY Limits DEF CapacityInv, CapacityTypes, CountersAreExact
  <1>1. /\ IsFiniteSet(Workers(Held)')
        /\ Count(Held)' = Count(Held) - 1 /\ Count(Held) # 0
        /\ CountOf(t, Held)' = CountOf(t, Held) - 1 /\ CountOf(t, Held) # 0
        /\ \A u : u # t => CountOf(u, Held)' = CountOf(u, Held)
    BY <1>0, Recount, Places
  <1>2. /\ pc[r][n] # "waitTenant" => CountOf(t, S)' = c - 1
        /\ pc[r][n] = "waitTenant" => CountOf(t, S)' = c
        /\ \A u : u # t => CountOf(u, S)' = CountOf(u, S)
    <2>1. (pc[r][n] \in S <=> pc[r][n] # "waitTenant") /\ b \notin S /\ S \in SUBSET Held
      BY Places
    <2> HIDE DEF S
    <2> QED  BY <2>1, <1>0, Recount
  <1>3. /\ pc[r][n] = "running" => Count({"running"})' = Count({"running"}) - 1
        /\ pc[r][n] # "running" => Count({"running"})' = Count({"running"})
    BY <1>0, Recount, Places
  <1>n. c \in Nat /\ Count({"running"}) \in Nat /\ CountOf(t, Held) \in Nat /\ Count(Held) \in Nat
        /\ CountOf(t, S)' \in Nat
    <2>1. c \in Nat /\ Count({"running"}) \in Nat /\ CountOf(t, Held) \in Nat /\ Count(Held) \in Nat
      BY <1>0, WorkersFinite, Places
    <2>2. WorkersOf(t, S)' \subseteq Workers(Held)'
      BY Places DEF WorkersOf, Workers
    <2>3. CountOf(t, S)' \in Nat
      BY <2>2, <1>1, FS_Subset, FS_CardinalityType DEF CountOf
    <2> QED  BY <2>1, <2>3
  \* The last user of the tenant leaves.
  <1>l. users[t] = 1 => CountOf(t, S)' = 0
    <2> SUFFICES ASSUME users[t] = 1  PROVE CountOf(t, S)' = 0
      OBVIOUS
    <2>1. CountOf(t, Held)' = 0
      BY <1>0, <1>1 DEF CountersAreExact
    <2>2. IsFiniteSet(WorkersOf(t, Held)')
      <3>1. WorkersOf(t, Held)' \subseteq Workers(Held)'
        BY DEF WorkersOf, Workers
      <3> QED  BY <3>1, <1>1, FS_Subset
    <2>3. WorkersOf(t, Held)' = {}
      BY <2>1, <2>2, FS_EmptySet DEF CountOf
    <2>4. WorkersOf(t, S)' = {}
      BY <2>3, Places DEF WorkersOf
    <2> QED  BY <2>4, FS_EmptySet DEF CountOf
  <1>4. /\ users' = [users EXCEPT ![t] = users[t] - 1] /\ inflight' = inflight - 1
        /\ free' = [free EXCEPT ![t] = f]
        /\ freeGlobal' = IF pc[r][n] = "running" THEN freeGlobal + 1 ELSE freeGlobal
    BY <1>0 DEF LeavesCapacity
  <1>5. users[t] = CountOf(t, Held) /\ free[t] + c = per_tenant /\ inflight = Count(Held)
        /\ freeGlobal + Count({"running"}) = total /\ users[t] \in Nat /\ free[t] \in Nat
    BY <1>0 DEF CountersAreExact
  <1>6. f \in Nat /\ f + CountOf(t, S)' = per_tenant
    <2>1. CASE users[t] = 1
      BY <2>1, <1>0, <1>l
    <2>2. CASE users[t] # 1 /\ pc[r][n] = "waitTenant"
      BY <2>2, <1>2, <1>5
    <2>3. CASE users[t] # 1 /\ pc[r][n] # "waitTenant"
      BY <2>3, <1>0, <1>2, <1>5, <1>n
    <2> QED  BY <2>1, <2>2, <2>3
  <1> HIDE DEF f, S, c
  <1>7. users[t] - 1 \in Nat /\ users[t] - 1 = CountOf(t, Held)'
        /\ inflight' \in Nat /\ inflight' = Count(Held)'
    BY <1>1, <1>4, <1>5, <1>n
  <1>8. freeGlobal' \in Nat /\ freeGlobal' + Count({"running"})' = total
    <2>1. CASE pc[r][n] = "running"
      BY <2>1, <1>0, <1>3, <1>4, <1>5, <1>n
    <2>2. CASE pc[r][n] # "running"
      BY <2>2, <1>0, <1>3, <1>4, <1>5, <1>n
    <2> QED  BY <2>1, <2>2
  <1>9. /\ users' \in [Tenant -> Nat] /\ users'[t] = CountOf(t, Held)'
        /\ \A u \in Tenant : u # t => users'[u] = users[u]
    BY <1>0, <1>4, <1>7
  <1>10. /\ free' \in [Tenant -> Nat] /\ free'[t] = f
         /\ \A u \in Tenant : u # t => free'[u] = free[u]
    BY <1>0, <1>4, <1>6
  <1>11. CountersAreExact'
    <2>1. \A u \in Tenant : users'[u] = CountOf(u, Held)'
      BY <1>0, <1>1, <1>9 DEF CountersAreExact
    <2>2. \A u \in Tenant : free'[u] + CountOf(u, S)' = per_tenant
      BY <1>0, <1>2, <1>6, <1>10 DEF CountersAreExact, S
    <2> QED  BY <2>1, <2>2, <1>1, <1>7, <1>8 DEF CountersAreExact, S
  <1>12. CapacityTypes'
    BY <1>7, <1>8, <1>9, <1>10 DEF CapacityTypes
  <1> QED  BY <1>11, <1>12 DEF CapacityInv

-----------------------------------------------------------------------------
(* One run at a time *)

Kinds == Result \cup {NoResult}

RunTypes(r) ==
  /\ phase[r] \in PhaseState
  /\ attempt[r] \in 0 .. max_replans + 1
  /\ plan[r] \in Plan
  /\ pc[r] \in [Node -> PcState]
  /\ result[r] \in [Node -> Kinds]
  /\ cache[r] \in [Node -> Kinds]
  /\ versions[r] \in Nat
  /\ synthesis[r] \in {"none", "DONE", "PARTIAL"}
  /\ accepted[r] \in BOOLEAN
  /\ calls[r] \in Nat
  /\ exhausted[r] \in BOOLEAN

RunGood(r) == RunTypes(r) /\ RunInv(r)

Shape ==
  /\ phase = [r \in Run |-> phase[r]] /\ attempt = [r \in Run |-> attempt[r]]
  /\ plan = [r \in Run |-> plan[r]] /\ pc = [r \in Run |-> pc[r]]
  /\ result = [r \in Run |-> result[r]] /\ cache = [r \in Run |-> cache[r]]
  /\ versions = [r \in Run |-> versions[r]] /\ synthesis = [r \in Run |-> synthesis[r]]
  /\ accepted = [r \in Run |-> accepted[r]] /\ calls = [r \in Run |-> calls[r]]
  /\ exhausted = [r \in Run |-> exhausted[r]]

Same(r) ==
  /\ phase'[r] = phase[r] /\ attempt'[r] = attempt[r] /\ plan'[r] = plan[r] /\ pc'[r] = pc[r]
  /\ result'[r] = result[r] /\ cache'[r] = cache[r] /\ versions'[r] = versions[r]
  /\ synthesis'[r] = synthesis[r] /\ accepted'[r] = accepted[r]
  /\ calls'[r] = calls[r] /\ exhausted'[r] = exhausted[r]

DagInv == Shape /\ CapacityInv /\ \A r \in Run : RunGood(r)

\* What the invariant says run by run is the type invariant, and more.
LEMMA InvTypes == DagInv => DagTypeOK
  <1> SUFFICES ASSUME Shape, CapacityInv, \A r \in Run : RunGood(r)  PROVE DagTypeOK
    BY DEF DagInv
  <1>1. \A r \in Run : RunTypes(r) /\ RunInv(r)
    BY DEF RunGood
  <1>2. \A r \in Run, n \in Node :
          pc[r][n] \in {"finished", "collected"} => result[r][n] # NoResult
    BY <1>1 DEF RunInv, NodesAreSound
  <1>3. phase \in [Run -> PhaseState] /\ synthesis \in [Run -> {"none", "DONE", "PARTIAL"}]
        /\ pc \in [Run -> [Node -> PcState]]
    BY <1>1 DEF Shape, RunTypes
  <1>4. attempt \in [Run -> 0 .. max_replans + 1]
    BY <1>1 DEF Shape, RunTypes
  <1>4a. versions \in [Run -> Nat] /\ calls \in [Run -> Nat]
    BY <1>1 DEF Shape, RunTypes
  <1>5. plan \in [Run -> Plan] /\ result \in [Run -> [Node -> Kinds]]
        /\ cache \in [Run -> [Node -> Kinds]]
    BY <1>1 DEF Shape, RunTypes
  <1>6. accepted \in [Run -> BOOLEAN] /\ exhausted \in [Run -> BOOLEAN]
    BY <1>1 DEF Shape, RunTypes
  <1>7. CapacityTypes /\ CountersAreExact
    BY DEF CapacityInv
  <1> QED  BY <1>2, <1>3, <1>4, <1>4a, <1>5, <1>6, <1>7
       DEF DagTypeOK, CapacityTypes, PhaseState, PcState, Kinds

\* A run that a step does not touch stays good.
LEMMA SameGood ==
  ASSUME NEW r \in Run, RunGood(r), Same(r)
  PROVE  RunGood(r)'
  <1>1. RunTypes(r)'
    BY DEF RunGood, RunTypes, Same
  <1>2. VersionsAreUnique(r)' /\ CacheIsSound(r)'
    <2>1. Kept(r)' = Kept(r)
      BY DEF Kept, Same
    <2> QED  BY <2>1 DEF RunGood, RunInv, VersionsAreUnique, CacheIsSound, Same
  <1>3. NodesAreSound(r)'
    BY DEF RunGood, RunInv, NodesAreSound, UpstreamFailed, InputVersions, Same
  <1>4. RunIsSound(r)'
    BY DEF RunGood, RunInv, RunIsSound, Nodes, AllDone, Same
  <1> QED  BY <1>1, <1>2, <1>3, <1>4 DEF RunGood, RunInv

\* A run whose plan, nodes and results are left alone.
LEMMA NodesKept ==
  ASSUME NEW r \in Run, RunGood(r), plan'[r] = plan[r], pc'[r] = pc[r],
         result'[r] = result[r], cache'[r] = cache[r], versions'[r] = versions[r]
  PROVE  /\ VersionsAreUnique(r)' /\ CacheIsSound(r)' /\ NodesAreSound(r)'
         /\ Nodes(r, Pending)' = Nodes(r, Pending) /\ AllDone(r)' = AllDone(r)
  <1>1. Kept(r)' = Kept(r)
    BY DEF Kept
  <1>2. VersionsAreUnique(r)' /\ CacheIsSound(r)'
    BY <1>1 DEF RunGood, RunInv, VersionsAreUnique, CacheIsSound
  <1>3. NodesAreSound(r)'
    BY DEF RunGood, RunInv, NodesAreSound, UpstreamFailed, InputVersions
  <1> QED  BY <1>2, <1>3 DEF Nodes, AllDone

\* A node that has not ended gets place b and result x: the others see no difference,
\* since those that were started have collected dependencies.
LEMMA NodeSet ==
  ASSUME NEW r \in Run, RunGood(r), plan'[r] = plan[r], NEW n \in Node, pc[r][n] \in Pending,
         NEW b \in PcState \ {"none", "submitted", "collected"}, NEW x \in Kinds,
         pc'[r] = [pc[r] EXCEPT ![n] = b], result'[r] = [result[r] EXCEPT ![n] = x],
         b \in Held => ~UpstreamFailed(r, n),
         b = "finished" =>
           /\ x # NoResult /\ x.desc = plan[r].desc[n] /\ x.inputs = InputVersions(r, n)
           /\ x.stop = "SKIPPED" <=> UpstreamFailed(r, n)
  PROVE  NodesAreSound(r)'
  <1>1. pc[r] \in [Node -> PcState] /\ result[r] \in [Node -> Kinds] /\ NodesAreSound(r)
        /\ plan[r] \in Plan
    BY DEF RunGood, RunTypes, RunInv
  <1>2. /\ pc'[r][n] = b /\ result'[r][n] = x
        /\ \A m \in Node \ {n} : pc'[r][m] = pc[r][m] /\ result'[r][m] = result[r][m]
    BY <1>1
  <1>3. pc[r][n] \notin {"none", "finished", "collected"} /\ b # "none"
    BY DEF Pending, Waiting
  <1>4. \A m \in Node : plan[r].deps[m] \subseteq Node
    BY <1>1 DEF Plan
  <1>5. \A m \in Node : pc[r][m] # "none" =>
          /\ n \notin plan[r].deps[m]
          /\ \A d \in plan[r].deps[m] : pc[r][d] = "collected"
    BY <1>1, <1>3 DEF NodesAreSound
  <1>6. \A m \in Node : pc[r][m] # "none" =>
          /\ UpstreamFailed(r, m)' <=> UpstreamFailed(r, m)
          /\ InputVersions(r, m)' = InputVersions(r, m)
    <2> SUFFICES ASSUME NEW m \in Node, pc[r][m] # "none"
                 PROVE  /\ UpstreamFailed(r, m)' <=> UpstreamFailed(r, m)
                        /\ InputVersions(r, m)' = InputVersions(r, m)
      OBVIOUS
    <2>1. \A d \in plan[r].deps[m] : d \in Node /\ result'[r][d] = result[r][d]
      BY <1>2, <1>4, <1>5
    <2> QED  BY <2>1 DEF UpstreamFailed, InputVersions
  <1> SUFFICES ASSUME NEW m \in Node
               PROVE  /\ pc'[r][m] # "none" =>
                           /\ m \in plan'[r].tasks
                           /\ \A d \in plan'[r].deps[m] : pc'[r][d] = "collected"
                      /\ pc'[r][m] \in {"running"} \cup Waiting => ~UpstreamFailed(r, m)'
                      /\ pc'[r][m] \in {"finished", "collected"} =>
                           /\ result'[r][m] # NoResult
                           /\ result'[r][m].desc = plan'[r].desc[m]
                           /\ result'[r][m].inputs = InputVersions(r, m)'
                           /\ result'[r][m].stop = "SKIPPED" <=> UpstreamFailed(r, m)'
    BY DEF NodesAreSound
  <1>7. pc'[r][m] # "none" => pc[r][m] # "none"
    BY <1>2, <1>3
  <1>8. pc'[r][m] # "none" => m \in plan[r].tasks /\ \A d \in plan[r].deps[m] : pc'[r][d] = "collected"
    <2> SUFFICES ASSUME pc[r][m] # "none"
                 PROVE  m \in plan[r].tasks /\ \A d \in plan[r].deps[m] : pc'[r][d] = "collected"
      BY <1>7
    <2>1. m \in plan[r].tasks
      BY <1>1 DEF NodesAreSound
    <2>2. \A d \in plan[r].deps[m] : d \in Node /\ d # n /\ pc[r][d] = "collected"
      BY <1>4, <1>5
    <2> QED  BY <2>1, <2>2, <1>2
  <1>9. CASE m = n
    <2>1. /\ UpstreamFailed(r, m)' <=> UpstreamFailed(r, m)
          /\ InputVersions(r, m)' = InputVersions(r, m)
      BY <1>9, <1>3, <1>6
    <2>2. pc'[r][m] \in {"running"} \cup Waiting => ~UpstreamFailed(r, m)
      BY <1>9, <1>2 DEF Held
    <2>3. pc'[r][m] \in {"finished", "collected"} => b = "finished"
      BY <1>9, <1>2
    <2> QED  BY <2>1, <2>2, <2>3, <1>2, <1>8, <1>9
  <1>10. CASE m # n
    <2>0. pc'[r][m] = pc[r][m] /\ result'[r][m] = result[r][m]
      BY <1>10, <1>2
    <2>1. CASE pc[r][m] = "none"
      BY <2>0, <2>1 DEF Waiting
    <2>2. CASE pc[r][m] # "none"
      <3>1. /\ UpstreamFailed(r, m)' <=> UpstreamFailed(r, m)
            /\ InputVersions(r, m)' = InputVersions(r, m)
        BY <2>2, <1>6
      <3> QED  BY <3>1, <2>0, <1>1, <1>8 DEF NodesAreSound
    <2> QED  BY <2>1, <2>2
  <1> QED  BY <1>9, <1>10

\* A step of run r keeps the invariant if it keeps r's part and the capacity's.
LEMMA StepOfOne ==
  ASSUME DagInv, NEW r \in Run, Shape', \A q \in Run \ {r} : Same(q), RunGood(r)', CapacityInv'
  PROVE  DagInv'
  <1>1. \A q \in Run : RunGood(q)
    BY DEF DagInv
  <1>2. \A q \in Run \ {r} : RunGood(q)'
    BY <1>1, SameGood
  <1>3. \A q \in Run : RunGood(q)'
    BY <1>2
  <1> QED  BY <1>3 DEF DagInv

\* Results that are forgotten break nothing.
LEMMA KeptShrinks ==
  ASSUME NEW r \in Run, RunGood(r), Kept(r)' \subseteq Kept(r), versions'[r] = versions[r],
         \A n \in Node : cache'[r][n] \in {cache[r][n], NoResult}
  PROVE  VersionsAreUnique(r)' /\ CacheIsSound(r)'
  <1>1. VersionsAreUnique(r) /\ CacheIsSound(r)
    BY DEF RunGood, RunInv
  <1>2. VersionsAreUnique(r)'
    BY <1>1 DEF VersionsAreUnique
  <1>3. CacheIsSound(r)'
    BY <1>1 DEF CacheIsSound
  <1> QED  BY <1>2, <1>3

\* The inputs of a node that was started are results.
LEMMA InputsAreResults ==
  ASSUME NEW r \in Run, RunGood(r), NEW n \in Node, pc[r][n] # "none"
  PROVE  /\ \A d \in plan[r].deps[n] :
              d \in Node /\ result[r][d] \in Result /\ result[r][d] \in Kept(r)
         /\ InputVersions(r, n) \in [Node -> Nat]
         /\ \A d \in Node : InputVersions(r, n)[d] <= versions[r]
  <1>1. NodesAreSound(r) /\ VersionsAreUnique(r) /\ plan[r] \in Plan /\ versions[r] \in Nat
        /\ result[r] \in [Node -> Kinds]
    BY DEF RunGood, RunInv, RunTypes
  <1>2. \A d \in plan[r].deps[n] : d \in Node
    BY <1>1 DEF Plan
  <1>3. \A d \in plan[r].deps[n] : result[r][d] \in Kinds /\ result[r][d] # NoResult
    BY <1>1, <1>2 DEF NodesAreSound
  <1>4. \A d \in plan[r].deps[n] : result[r][d] \in Result /\ result[r][d] \in Kept(r)
    BY <1>2, <1>3 DEF Kept, Kinds
  <1>5. \A d \in plan[r].deps[n] : result[r][d].version \in 1 .. versions[r]
    BY <1>1, <1>4 DEF VersionsAreUnique
  <1>6. \A d \in Node : InputVersions(r, n)[d] \in Nat /\ InputVersions(r, n)[d] <= versions[r]
    BY <1>1, <1>5 DEF InputVersions
  <1>7. InputVersions(r, n) \in [Node -> Nat]
    BY <1>6 DEF InputVersions
  <1> QED  BY <1>2, <1>4, <1>6, <1>7

\* record(): the new version is one that nothing kept has, as its own or as an input's.
LEMMA RecordSound ==
  ASSUME DagInv, NEW r \in Run, NEW n \in Node, pc[r][n] \in Pending,
         NEW stop \in {"DONE", "ERROR", "SKIPPED"}, NEW reusable \in BOOLEAN,
         stop = "SKIPPED" <=> UpstreamFailed(r, n), Record(r, n, stop, reusable), UNCHANGED plan
  PROVE  /\ VersionsAreUnique(r)' /\ CacheIsSound(r)' /\ NodesAreSound(r)'
         /\ result'[r] \in [Node -> Kinds] /\ cache'[r] \in [Node -> Kinds]
         /\ versions'[r] \in Nat /\ pc'[r] \in [Node -> PcState]
  <1>g. RunGood(r) /\ Shape
    BY DEF DagInv
  <1>t. /\ pc[r] \in [Node -> PcState] /\ result[r] \in [Node -> Kinds]
        /\ cache[r] \in [Node -> Kinds] /\ versions[r] \in Nat /\ plan[r] \in Plan
        /\ VersionsAreUnique(r) /\ CacheIsSound(r)
    BY <1>g DEF RunGood, RunTypes, RunInv
  <1>p. pc[r][n] # "none"
    BY DEF Pending, Waiting
  <1> DEFINE made == [stop |-> stop, version |-> versions[r] + 1, desc |-> plan[r].desc[n],
                      inputs |-> InputVersions(r, n)]
             c == IF stop = "DONE" /\ reusable THEN made ELSE NoResult
  <1>i. /\ \A d \in plan[r].deps[n] :
             d \in Node /\ result[r][d] \in Result /\ result[r][d] \in Kept(r)
        /\ InputVersions(r, n) \in [Node -> Nat]
        /\ \A d \in Node : InputVersions(r, n)[d] <= versions[r]
    BY <1>g, <1>p, InputsAreResults
  <1>1. plan[r].desc[n] \in Desc
    BY <1>t DEF Plan
  <1>2. made \in Result
    BY <1>t, <1>i, <1>1 DEF Result
  <1>3. /\ made.stop = stop /\ made.version = versions[r] + 1 /\ made.desc = plan[r].desc[n]
        /\ made.inputs = InputVersions(r, n)
    OBVIOUS
  <1>4. /\ versions' = [versions EXCEPT ![r] = @ + 1]
        /\ result' = [result EXCEPT ![r][n] = made]
        /\ cache' = [cache EXCEPT ![r][n] = c]
        /\ pc' = [pc EXCEPT ![r][n] = "finished"]
    BY DEF Record
  <1> HIDE DEF made
  <1>5. c \in Kinds /\ made \in Kinds /\ made # NoResult
    BY <1>2, NoResultAssumption DEF Kinds, NoResultAssumption
  <1>c. c # NoResult => c = made /\ stop = "DONE"
    OBVIOUS
  <1> HIDE DEF c
  <1>6. /\ versions'[r] = versions[r] + 1
        /\ result'[r] = [result[r] EXCEPT ![n] = made]
        /\ cache'[r] = [cache[r] EXCEPT ![n] = c]
        /\ pc'[r] = [pc[r] EXCEPT ![n] = "finished"]
    BY <1>4, <1>g DEF Shape
  <1>7. /\ result'[r] \in [Node -> Kinds] /\ cache'[r] \in [Node -> Kinds]
        /\ versions'[r] \in Nat /\ pc'[r] \in [Node -> PcState]
    BY <1>5, <1>6, <1>t DEF PcState
  <1>8. \A x \in Kept(r)' : x \in Kept(r) \/ x = made
    <2>1. \A m \in Node : /\ result'[r][m] = result[r][m] \/ result'[r][m] = made
                          /\ cache'[r][m] = cache[r][m] \/ cache'[r][m] = c
      BY <1>6, <1>t
    <2> QED  BY <2>1, <1>c DEF Kept
  <1>9. /\ \A x \in Kept(r) : x.version \in 1 .. versions[r] /\ \A d \in Node : x.inputs[d] <= versions[r]
        /\ \A x, y \in Kept(r) : x.version = y.version => x.stop = y.stop
    BY <1>t DEF VersionsAreUnique
  <1>k. \A x \in Kept(r) : \A d \in Node : x.inputs[d] \in Nat
    <2>1. \A x \in Kept(r) : x \in Result
      BY <1>t DEF Kept, Kinds
    <2> QED  BY <2>1 DEF Result
  <1>10. \A x \in Kept(r) : x.version # versions[r] + 1 /\ x.version \in 1 .. (versions[r] + 1)
    BY <1>9, <1>t
  <1>11. VersionsAreUnique(r)'
    <2>1. \A x \in Kept(r)' : /\ x.version \in 1 .. (versions[r] + 1)
                              /\ \A d \in Node : x.inputs[d] <= versions[r] + 1
      <3> SUFFICES ASSUME NEW x \in Kept(r)'
                   PROVE  /\ x.version \in 1 .. (versions[r] + 1)
                          /\ \A d \in Node : x.inputs[d] <= versions[r] + 1
        OBVIOUS
      <3>1. CASE x = made
        <4>1. versions[r] + 1 \in 1 .. (versions[r] + 1)
          BY <1>t
        <4>2. \A d \in Node : InputVersions(r, n)[d] <= versions[r] + 1
          BY <1>t, <1>i
        <4> QED  BY <3>1, <4>1, <4>2, <1>3
      <3>2. CASE x \in Kept(r)
        <4>1. \A d \in Node : x.inputs[d] <= versions[r] /\ x.inputs[d] \in Nat
          BY <3>2, <1>9, <1>k
        <4>2. \A d \in Node : x.inputs[d] <= versions[r] + 1
          BY <4>1, <1>t
        <4> QED  BY <3>2, <4>2, <1>10
      <3> QED  BY <3>1, <3>2, <1>8
    <2>2. \A x, y \in Kept(r)' : x.version = y.version => x.stop = y.stop
      BY <1>3, <1>8, <1>9, <1>10
    <2> QED  BY <2>1, <2>2, <1>6 DEF VersionsAreUnique
  <1>12. CacheIsSound(r)'
    <2> SUFFICES ASSUME NEW m \in Node, cache'[r][m] # NoResult
                 PROVE  /\ cache'[r][m].stop = "DONE"
                        /\ \A d \in Node, x \in Kept(r)' :
                             cache'[r][m].inputs[d] = x.version => x.stop = "DONE"
      BY DEF CacheIsSound
    <2>1. CASE m = n
      <3>1. cache'[r][m] = made /\ made.stop = "DONE"
        BY <2>1, <1>c, <1>3, <1>6, <1>t
      <3>2. ~UpstreamFailed(r, n)
        BY <3>1, <1>3
      <3>3. \A d \in Node : made.inputs[d] = IF d \in plan[r].deps[n] THEN result[r][d].version ELSE 0
        BY <1>3 DEF InputVersions
      <3>4. ASSUME NEW d \in Node, NEW x \in Kept(r)', made.inputs[d] = x.version
            PROVE  x.stop = "DONE"
        <4>1. CASE x = made
          BY <3>1, <4>1
        <4>2. CASE x \in Kept(r)
          <5>1. x.version \in 1 .. versions[r]
            BY <4>2, <1>9
          <5>2. d \in plan[r].deps[n]
            BY <5>1, <3>3, <3>4, <1>t
          <5>3. result[r][d] \in Kept(r) /\ result[r][d].version = x.version
            BY <5>2, <3>3, <3>4, <1>i
          <5>4. result[r][d].stop = "DONE"
            BY <5>2, <3>2 DEF UpstreamFailed
          <5> QED  BY <5>3, <5>4, <4>2, <1>9
        <4> QED  BY <4>1, <4>2, <1>8
      <3> QED  BY <3>1, <3>4
    <2>2. CASE m # n
      <3>1. cache'[r][m] = cache[r][m] /\ cache[r][m] \in Kept(r)
        BY <2>2, <1>6, <1>t DEF Kept
      <3>2. \A d \in Node : cache[r][m].inputs[d] # versions[r] + 1
        <4>1. \A d \in Node : cache[r][m].inputs[d] <= versions[r] /\ cache[r][m].inputs[d] \in Nat
          BY <3>1, <1>9, <1>k
        <4> QED  BY <4>1, <1>t
      <3>3. CacheIsSound(r)
        BY <1>t
      <3> QED  BY <3>1, <3>2, <3>3, <1>3, <1>8 DEF CacheIsSound
    <2> QED  BY <2>1, <2>2
  <1>13. NodesAreSound(r)'
    <2>1. plan'[r] = plan[r] /\ "finished" \in PcState \ {"none", "submitted", "collected"}
          /\ "finished" \notin Held
      BY Places DEF PcState
    <2>2. /\ made # NoResult /\ made.desc = plan[r].desc[n] /\ made.inputs = InputVersions(r, n)
          /\ made.stop = "SKIPPED" <=> UpstreamFailed(r, n)
      BY <1>3, <1>5
    <2> QED  BY <2>1, <2>2, <1>5, <1>6, <1>g, NodeSet
  <1> QED  BY <1>7, <1>11, <1>12, <1>13

-----------------------------------------------------------------------------
(* The steps of a node *)

\* A run whose nodes are at work is sound whatever they do.
LEMMA AtWork ==
  ASSUME NEW r \in Run, RunGood(r), phase[r] \in {"execute", "unwind"}, phase'[r] = phase[r],
         calls'[r] = calls[r]
  PROVE  RunIsSound(r)'
  BY DEF RunGood, RunInv, RunIsSound

\* The run where only the place of node n changes.
LEMMA PlaceSet ==
  ASSUME DagInv, NEW r \in Run, NEW n \in Node, phase[r] \in {"execute", "unwind"},
         pc[r][n] \in Pending, NEW b \in Held \cup {"error"}, b \in Held => ~UpstreamFailed(r, n),
         pc' = [pc EXCEPT ![r][n] = b],
         UNCHANGED <<phase, roundVars, result, cache, versions, synthesis, accepted, budgetVars>>
  PROVE  Shape' /\ (\A q \in Run \ {r} : Same(q)) /\ RunGood(r)' /\ Goes(r, n, b)
  <1>g. RunGood(r) /\ Shape /\ \A q \in Run : pc[q] \in [Node -> PcState]
    BY DEF DagInv, RunGood, RunTypes
  <1>t. RunTypes(r)
    BY <1>g DEF RunGood
  <1>u. UNCHANGED <<phase, attempt, plan, result, cache, versions, synthesis, accepted, calls,
                    exhausted>>
    BY DEF roundVars, budgetVars
  <1>b. b \in PcState \ {"none", "submitted", "collected"} /\ b # "finished"
    BY Places DEF PcState, Pending, Waiting
  <1>1. /\ pc'[r] = [pc[r] EXCEPT ![n] = b] /\ pc'[r] \in [Node -> PcState]
        /\ \A q \in Run \ {r} : pc'[q] = pc[q]
        /\ pc' = [q \in Run |-> pc'[q]]
    BY <1>g, <1>b DEF Shape
  <1>2. Goes(r, n, b)
    BY <1>1, <1>g DEF Goes
  <1>3. Shape' /\ \A q \in Run \ {r} : Same(q)
    BY <1>g, <1>u, <1>1 DEF Shape, Same
  <1>4. result[r][n] \in Kinds /\ result'[r] = [result[r] EXCEPT ![n] = result[r][n]]
    BY <1>t, <1>u DEF RunTypes
  <1>5. NodesAreSound(r)'
    BY <1>g, <1>u, <1>b, <1>1, <1>4, NodeSet
  <1>6. Kept(r)' \subseteq Kept(r)
    BY <1>u DEF Kept
  <1>7. VersionsAreUnique(r)' /\ CacheIsSound(r)'
    BY <1>g, <1>u, <1>6, KeptShrinks
  <1>8. RunIsSound(r)'
    BY <1>g, <1>u, AtWork
  <1>9. RunTypes(r)'
    BY <1>t, <1>u, <1>1 DEF RunTypes
  <1> QED  BY <1>2, <1>3, <1>5, <1>7, <1>8, <1>9 DEF RunGood, RunInv

\* The moves of a coroutine through acquire(), and its failures, keep the invariant.
LEMMA MoveSteps ==
  ASSUME DagInv, NEW r \in Run, NEW n \in Node,
         \/ NodeQueued(r, n) \/ NodeRefused(r, n) \/ NodeTakesTenantSlot(r, n)
         \/ NodeTakesSlot(r, n) \/ NodeRaises(r, n) \/ NodeDropped(r, n)
  PROVE  DagInv'
  <1>0. CapacityInv /\ NodesAreSound(r)
    BY DEF DagInv, RunGood, RunInv
  <1>1. CASE NodeQueued(r, n)
    <2>1. /\ phase[r] \in {"execute", "unwind"} /\ pc[r][n] = "submitted" /\ pc[r][n] \in Pending
          /\ ~UpstreamFailed(r, n) /\ "waitTenant" \in Held
          /\ pc' = [pc EXCEPT ![r][n] = "waitTenant"]
          /\ UNCHANGED <<phase, roundVars, result, cache, versions, synthesis, accepted, budgetVars>>
      BY <1>1, Places DEF NodeQueued, Enters, Pending
    <2>2. Shape' /\ (\A q \in Run \ {r} : Same(q)) /\ RunGood(r)' /\ Goes(r, n, "waitTenant")
      BY <2>1, PlaceSet
    <2>3. CapacityInv'
      BY <1>0, <1>1, <2>1, <2>2, CapacityQueued DEF NodeQueued
    <2> QED  BY <2>2, <2>3, StepOfOne
  <1>2. CASE NodeTakesTenantSlot(r, n)
    <2>1. /\ phase[r] \in {"execute", "unwind"} /\ pc[r][n] = "waitTenant" /\ pc[r][n] \in Pending
          /\ ~UpstreamFailed(r, n) /\ "waitGlobal" \in Held
          /\ pc' = [pc EXCEPT ![r][n] = "waitGlobal"]
          /\ UNCHANGED <<phase, roundVars, result, cache, versions, synthesis, accepted, budgetVars>>
      BY <1>0, <1>2, Places DEF NodeTakesTenantSlot, NodesAreSound, Pending, Waiting
    <2>2. Shape' /\ (\A q \in Run \ {r} : Same(q)) /\ RunGood(r)' /\ Goes(r, n, "waitGlobal")
      BY <2>1, PlaceSet
    <2>3. CapacityInv'
      BY <1>0, <1>2, <2>1, <2>2, CapacityTenant DEF NodeTakesTenantSlot
    <2> QED  BY <2>2, <2>3, StepOfOne
  <1>3. CASE NodeTakesSlot(r, n)
    <2>1. /\ phase[r] \in {"execute", "unwind"} /\ pc[r][n] = "waitGlobal" /\ pc[r][n] \in Pending
          /\ ~UpstreamFailed(r, n) /\ "running" \in Held
          /\ pc' = [pc EXCEPT ![r][n] = "running"]
          /\ UNCHANGED <<phase, roundVars, result, cache, versions, synthesis, accepted, budgetVars>>
      BY <1>0, <1>3, Places DEF NodeTakesSlot, NodesAreSound, Pending, Waiting
    <2>2. Shape' /\ (\A q \in Run \ {r} : Same(q)) /\ RunGood(r)' /\ Goes(r, n, "running")
      BY <2>1, PlaceSet
    <2>3. CapacityInv'
      BY <1>0, <1>3, <2>1, <2>2, CapacityGlobal DEF NodeTakesSlot
    <2> QED  BY <2>2, <2>3, StepOfOne
  <1>4. CASE NodeRaises(r, n)
    <2>1. /\ phase[r] \in {"execute", "unwind"} /\ pc[r][n] \in Held /\ pc[r][n] \in Pending
          /\ pc' = [pc EXCEPT ![r][n] = "error"] /\ "error" \notin Held
          /\ UNCHANGED <<phase, roundVars, result, cache, versions, synthesis, accepted, budgetVars>>
      BY <1>4, Places DEF NodeRaises, Pending, Waiting
    <2>2. Shape' /\ (\A q \in Run \ {r} : Same(q)) /\ RunGood(r)' /\ Goes(r, n, "error")
      BY <2>1, PlaceSet
    <2>3. CapacityInv'
      BY <1>0, <1>4, <2>1, <2>2, CapacityLeft DEF NodeRaises
    <2> QED  BY <2>2, <2>3, StepOfOne
  <1>5. CASE NodeRefused(r, n) \/ NodeDropped(r, n)
    <2>1. /\ phase[r] \in {"execute", "unwind"} /\ pc[r][n] = "submitted" /\ pc[r][n] \in Pending
          /\ pc' = [pc EXCEPT ![r][n] = "error"] /\ "error" \notin Held /\ "submitted" \notin Held
          /\ UNCHANGED <<phase, roundVars, result, cache, versions, synthesis, accepted, budgetVars>>
          /\ UNCHANGED capacityVars
      BY <1>5, Places DEF NodeRefused, NodeDropped, Enters, Pending
    <2>2. Shape' /\ (\A q \in Run \ {r} : Same(q)) /\ RunGood(r)' /\ Goes(r, n, "error")
      BY <2>1, PlaceSet
    <2>3. Unmoved
      BY <2>1, <2>2 DEF Unmoved, Goes
    <2>4. CapacityInv'
      BY <1>0, <2>1, <2>3, CapacityKept
    <2> QED  BY <2>2, <2>4, StepOfOne
  <1> QED  BY <1>1, <1>2, <1>3, <1>4, <1>5

\* A cached result is taken: its inputs have the versions of the present results, and
\* whatever has those versions ended well.
LEMMA ReuseStep ==
  ASSUME DagInv, NEW r \in Run, NEW n \in Node, NodeReused(r, n)
  PROVE  DagInv'
  <1>g. RunGood(r) /\ RunTypes(r) /\ Shape /\ CapacityInv /\ \A q \in Run : pc[q] \in [Node -> PcState]
    BY DEF DagInv, RunGood, RunTypes
  <1> DEFINE x == cache[r][n]
  <1>1. /\ phase[r] \in {"execute", "unwind"} /\ pc[r][n] = "submitted"
        /\ x # NoResult /\ x.desc = plan[r].desc[n] /\ x.inputs = InputVersions(r, n)
        /\ pc' = [pc EXCEPT ![r][n] = "finished"]
        /\ result' = [result EXCEPT ![r][n] = x]
        /\ UNCHANGED <<phase, attempt, plan, cache, versions, synthesis, accepted, calls,
                       exhausted, capacityVars>>
    BY DEF NodeReused, Enters, SameInputs, roundVars, budgetVars
  <1>2. x \in Kinds
    BY <1>g DEF RunTypes
  <1>3. x.stop = "DONE" /\ \A d \in Node, y \in Kept(r) : x.inputs[d] = y.version => y.stop = "DONE"
    BY <1>g, <1>1 DEF RunGood, RunInv, CacheIsSound
  <1>4. ~UpstreamFailed(r, n)
    <2> SUFFICES ASSUME NEW d \in plan[r].deps[n]  PROVE result[r][d].stop = "DONE"
      BY DEF UpstreamFailed
    <2>1. d \in Node /\ result[r][d] \in Kept(r)
      BY <1>g, <1>1, InputsAreResults
    <2>2. x.inputs[d] = result[r][d].version
      BY <2>1, <1>1 DEF InputVersions
    <2> QED  BY <2>1, <2>2, <1>3
  <1> HIDE DEF x
  <1>5. /\ pc'[r] = [pc[r] EXCEPT ![n] = "finished"] /\ pc'[r] \in [Node -> PcState]
        /\ result'[r] = [result[r] EXCEPT ![n] = x] /\ result'[r] \in [Node -> Kinds]
        /\ \A q \in Run \ {r} : pc'[q] = pc[q] /\ result'[q] = result[q]
        /\ pc' = [q \in Run |-> pc'[q]] /\ result' = [q \in Run |-> result'[q]]
    BY <1>g, <1>1, <1>2 DEF Shape, PcState, RunTypes
  <1>6. NodesAreSound(r)'
    <2>1. "finished" \in PcState \ {"none", "submitted", "collected"} /\ "finished" \notin Held
          /\ pc[r][n] \in Pending
      BY <1>1, Places DEF PcState, Pending
    <2>2. x.stop = "SKIPPED" <=> UpstreamFailed(r, n)
      BY <1>3, <1>4
    <2> QED  BY <2>1, <2>2, <1>g, <1>1, <1>2, <1>5, NodeSet
  <1>7. Kept(r)' \subseteq Kept(r)
    <2>1. \A m \in Node : result'[r][m] = result[r][m] \/ result'[r][m] = cache[r][n]
      BY <1>5, <1>g DEF x, RunTypes
    <2> QED  BY <2>1, <1>1 DEF Kept
  <1>8. VersionsAreUnique(r)' /\ CacheIsSound(r)'
    BY <1>g, <1>1, <1>7, KeptShrinks
  <1>9. RunIsSound(r)'
    BY <1>g, <1>1, AtWork
  <1>10. RunTypes(r)'
    BY <1>g, <1>1, <1>5 DEF RunTypes
  <1>11. Shape' /\ \A q \in Run \ {r} : Same(q)
    BY <1>g, <1>1, <1>5 DEF Shape, Same
  <1>12. Unmoved
    <2>1. Goes(r, n, "finished")
      BY <1>g, <1>1 DEF Goes, Shape
    <2> QED  BY <2>1, <1>1, Places DEF Unmoved, Goes
  <1>13. CapacityInv'
    BY <1>g, <1>1, <1>12, CapacityKept
  <1> QED  BY <1>6, <1>8, <1>9, <1>10, <1>11, <1>13, StepOfOne DEF RunGood, RunInv

\* A node that is skipped, or whose agent returns, keeps the invariant.
LEMMA RecordSteps ==
  ASSUME DagInv, NEW r \in Run, NEW n \in Node, NodeSkipped(r, n) \/ NodeReturns(r, n)
  PROVE  DagInv'
  <1>g. RunGood(r) /\ RunTypes(r) /\ Shape /\ CapacityInv /\ NodesAreSound(r)
        /\ \A q \in Run : pc[q] \in [Node -> PcState]
    BY DEF DagInv, RunGood, RunTypes, RunInv
  <1>1. PICK stop \in {"DONE", "ERROR", "SKIPPED"}, reusable \in BOOLEAN :
          /\ Record(r, n, stop, reusable)
          /\ stop = "SKIPPED" <=> UpstreamFailed(r, n)
    <2>1. CASE NodeSkipped(r, n)
      BY <2>1 DEF NodeSkipped
    <2>2. CASE NodeReturns(r, n)
      <3>1. ~UpstreamFailed(r, n)
        BY <2>2, <1>g DEF NodeReturns, NodesAreSound
      <3> QED  BY <3>1, <2>2 DEF NodeReturns
    <2> QED  BY <2>1, <2>2
  <1>2. /\ phase[r] \in {"execute", "unwind"} /\ pc[r][n] \in Pending
        /\ UNCHANGED <<phase, attempt, plan, synthesis, accepted, calls, exhausted>>
    BY DEF NodeSkipped, NodeReturns, Enters, Runnable, Pending, roundVars, budgetVars
  <1>3. /\ VersionsAreUnique(r)' /\ CacheIsSound(r)' /\ NodesAreSound(r)'
        /\ result'[r] \in [Node -> Kinds] /\ cache'[r] \in [Node -> Kinds]
        /\ versions'[r] \in Nat /\ pc'[r] \in [Node -> PcState]
    BY <1>1, <1>2, RecordSound
  <1>4. RunIsSound(r)'
    BY <1>g, <1>2, AtWork
  <1>5. RunTypes(r)'
    BY <1>g, <1>2, <1>3 DEF RunTypes
  <1>6. Shape' /\ \A q \in Run \ {r} : Same(q)
    BY <1>g, <1>1, <1>2 DEF Shape, Same, Record
  <1>7. Goes(r, n, "finished")
    BY <1>g, <1>1 DEF Goes, Shape, Record
  <1>8. CapacityInv'
    <2>1. CASE NodeSkipped(r, n)
      <3>1. pc[r][n] = "submitted" /\ UNCHANGED capacityVars
        BY <2>1 DEF NodeSkipped, Enters
      <3>2. Unmoved
        BY <3>1, <1>7, Places DEF Unmoved, Goes
      <3> QED  BY <3>1, <3>2, <1>g, CapacityKept
    <2>2. CASE NodeReturns(r, n)
      BY <2>2, <1>g, <1>7, CapacityLeft, Places DEF NodeReturns
    <2> QED  BY <2>1, <2>2
  <1> QED  BY <1>3, <1>4, <1>5, <1>6, <1>8, StepOfOne DEF RunGood, RunInv

\* A cached result expires.
LEMMA ExpiryStep ==
  ASSUME DagInv, NEW r \in Run, NEW n \in Node, EntryExpires(r, n)
  PROVE  DagInv'
  <1>g. RunGood(r) /\ RunTypes(r) /\ Shape /\ CapacityInv
    BY DEF DagInv, RunGood
  <1>1. /\ cache' = [cache EXCEPT ![r][n] = NoResult]
        /\ UNCHANGED <<phase, attempt, plan, pc, result, versions, synthesis, accepted, calls,
                       exhausted, capacityVars>>
    BY DEF EntryExpires, roundVars, budgetVars
  <1>2. /\ cache'[r] = [cache[r] EXCEPT ![n] = NoResult] /\ cache'[r] \in [Node -> Kinds]
        /\ \A q \in Run \ {r} : cache'[q] = cache[q]
        /\ cache' = [q \in Run |-> cache'[q]]
    BY <1>g, <1>1 DEF Shape, RunTypes, Kinds
  <1>3. \A m \in Node : cache'[r][m] \in {cache[r][m], NoResult}
    BY <1>g, <1>2 DEF RunTypes
  <1>4. Kept(r)' \subseteq Kept(r)
    BY <1>1, <1>3 DEF Kept
  <1>5. VersionsAreUnique(r)' /\ CacheIsSound(r)'
    BY <1>g, <1>1, <1>3, <1>4, KeptShrinks
  <1>6. NodesAreSound(r)'
    BY <1>g, <1>1 DEF RunGood, RunInv, NodesAreSound, UpstreamFailed, InputVersions
  <1>7. RunIsSound(r)'
    BY <1>g, <1>1 DEF RunGood, RunInv, RunIsSound, Nodes, AllDone
  <1>8. RunTypes(r)'
    BY <1>g, <1>1, <1>2 DEF RunTypes
  <1>9. Shape' /\ \A q \in Run \ {r} : Same(q)
    BY <1>g, <1>1, <1>2 DEF Shape, Same
  <1>10. CapacityInv'
    BY <1>g, <1>1, CapacityKept DEF Unmoved
  <1> QED  BY <1>5, <1>6, <1>7, <1>8, <1>9, <1>10, StepOfOne DEF RunGood, RunInv

-----------------------------------------------------------------------------
(* The steps of a run *)

\* What the budget allows of run r.
BudgetMoves(r) ==
  /\ calls' = [q \in Run |-> calls'[q]] /\ exhausted' = [q \in Run |-> exhausted'[q]]
  /\ \A q \in Run \ {r} : calls'[q] = calls[q] /\ exhausted'[q] = exhausted[q]
  /\ calls'[r] \in Nat /\ calls'[r] <= max_model_calls[r]
  /\ exhausted'[r] \in BOOLEAN

\* A reserved, a refused and no call are such moves.
LEMMA BudgetSteps ==
  ASSUME DagInv, NEW r \in Run, Reserve(r) \/ ReserveFails(r) \/ UNCHANGED budgetVars
  PROVE  BudgetMoves(r)
  <1>1. /\ Shape /\ calls[r] \in Nat /\ calls[r] <= max_model_calls[r] /\ exhausted[r] \in BOOLEAN
        /\ max_model_calls[r] \in Nat
    BY Limits DEF DagInv, RunGood, RunTypes, RunInv, RunIsSound
  <1>2. CASE Reserve(r)
    <2>1. calls[r] + 1 \in Nat /\ calls[r] + 1 <= max_model_calls[r]
      BY <1>1, <1>2 DEF Reserve
    <2> QED  BY <2>1, <1>1, <1>2 DEF Reserve, BudgetMoves, Shape
  <1>3. CASE ReserveFails(r)
    BY <1>1, <1>3 DEF ReserveFails, BudgetMoves, Shape
  <1>4. CASE UNCHANGED budgetVars
    BY <1>1, <1>4 DEF budgetVars, BudgetMoves, Shape
  <1> QED  BY <1>2, <1>3, <1>4

\* A step that leaves the plan and the nodes alone keeps the invariant, if it keeps what
\* RunIsSound says of phases.
LEMMA PhaseSet ==
  ASSUME DagInv, NEW r \in Run, BudgetMoves(r), NEW p \in PhaseState,
         phase' = [phase EXCEPT ![r] = p],
         NEW z \in {"none", "DONE", "PARTIAL"}, synthesis' = [synthesis EXCEPT ![r] = z],
         NEW yes \in BOOLEAN, accepted' = [accepted EXCEPT ![r] = yes],
         UNCHANGED <<roundVars, nodeVars, capacityVars>>,
         p # "idle",
         p \notin {"execute", "unwind"} => Nodes(r, Pending) = {},
         p \in {"synthesize", "critique", "revise", "replied"} =>
           \A n \in plan[r].tasks : pc[r][n] = "collected",
         p = "critique" /\ z = "DONE" => AllDone(r),
         p = "revise" => attempt[r] <= max_replans,
         p = "replied" => ~exhausted'[r] /\ (yes => AllDone(r))
  PROVE  DagInv'
  <1>g. RunGood(r) /\ RunTypes(r) /\ Shape /\ CapacityInv
    BY DEF DagInv, RunGood
  <1>1. UNCHANGED <<attempt, plan, pc, result, cache, versions>>
    BY DEF roundVars, nodeVars
  <1>2. /\ phase'[r] = p /\ synthesis'[r] = z /\ accepted'[r] = yes
        /\ \A q \in Run \ {r} : /\ phase'[q] = phase[q] /\ synthesis'[q] = synthesis[q]
                                /\ accepted'[q] = accepted[q]
    BY <1>g DEF Shape
  <1>3. Shape' /\ \A q \in Run \ {r} : Same(q)
    BY <1>g, <1>1, <1>2 DEF Shape, Same, BudgetMoves
  <1>4. RunTypes(r)'
    BY <1>g, <1>1, <1>2 DEF RunTypes, BudgetMoves
  <1>5. /\ VersionsAreUnique(r)' /\ CacheIsSound(r)' /\ NodesAreSound(r)'
        /\ Nodes(r, Pending)' = Nodes(r, Pending) /\ AllDone(r)' = AllDone(r)
    BY <1>g, <1>1, NodesKept
  <1>6. RunIsSound(r)'
    <2>1. phase'[r] # "idle" /\ calls'[r] <= max_model_calls[r]
      BY <1>2 DEF BudgetMoves
    <2>2. phase'[r] = "revise" => attempt'[r] <= max_replans
      BY <1>1, <1>2
    <2>3. phase'[r] \notin {"execute", "unwind"} => Nodes(r, Pending)' = {}
      BY <1>2, <1>5
    <2>4. phase'[r] \in {"synthesize", "critique", "revise", "replied"} =>
            \A n \in plan'[r].tasks : pc'[r][n] = "collected"
      BY <1>1, <1>2
    <2>5. phase'[r] = "critique" /\ synthesis'[r] = "DONE" => AllDone(r)'
      BY <1>2, <1>5
    <2>6. phase'[r] = "replied" => ~exhausted'[r] /\ (accepted'[r] => AllDone(r)')
      BY <1>2, <1>5
    <2> QED  BY <2>1, <2>2, <2>3, <2>4, <2>5, <2>6 DEF RunIsSound
  <1>7. CapacityInv'
    BY <1>g, <1>1, CapacityKept DEF Unmoved
  <1> QED  BY <1>3, <1>4, <1>5, <1>6, <1>7, StepOfOne DEF RunGood, RunInv

\* The steps that do not touch plans and nodes.
LEMMA PhaseSteps ==
  ASSUME DagInv, NEW r \in Run,
         \/ Unwind(r) \/ UnwindEnds(r) \/ Synthesize(r) \/ Critique(r) \/ SynthesisFails(r)
         \/ ReviewFails(r) \/ \E n \in Node : NodeCalls(r, n)
  PROVE  DagInv'
  <1>g. RunTypes(r) /\ RunIsSound(r) /\ Shape
    BY DEF DagInv, RunGood, RunInv
  <1>s. /\ synthesis[r] \in {"none", "DONE", "PARTIAL"} /\ accepted[r] \in BOOLEAN
        /\ phase[r] \in PhaseState
        /\ synthesis = [synthesis EXCEPT ![r] = synthesis[r]]
        /\ accepted = [accepted EXCEPT ![r] = accepted[r]]
        /\ phase = [phase EXCEPT ![r] = phase[r]]
    BY <1>g DEF RunTypes, Shape
  <1>p. \A p \in {"execute", "unwind", "synthesize", "critique", "revise", "replied", "raised"} :
          p \in PhaseState
    BY DEF PhaseState, Ended
  <1>1. CASE Unwind(r)
    <2>1. BudgetMoves(r)
      BY <1>1, BudgetSteps DEF Unwind
    <2> QED  BY <2>1, <1>1, <1>s, <1>p, PhaseSet DEF Unwind
  <1>2. CASE UnwindEnds(r)
    <2>1. BudgetMoves(r)
      BY <1>2, BudgetSteps DEF UnwindEnds
    <2>2. Nodes(r, Pending) = {}
      BY <1>2 DEF UnwindEnds, Converged
    <2> QED  BY <2>1, <2>2, <1>2, <1>s, <1>p, PhaseSet DEF UnwindEnds
  <1>3. CASE SynthesisFails(r) \/ ReviewFails(r)
    <2>1. /\ BudgetMoves(r) /\ phase' = [phase EXCEPT ![r] = "raised"]
          /\ UNCHANGED <<synthesis, accepted>> /\ UNCHANGED <<roundVars, nodeVars, capacityVars>>
          /\ phase[r] \in {"synthesize", "critique", "revise"}
      BY <1>3, BudgetSteps DEF SynthesisFails, ReviewFails, StepFails
    <2>2. Nodes(r, Pending) = {}
      BY <2>1, <1>g DEF RunIsSound
    <2> QED  BY <2>1, <2>2, <1>s, <1>p, PhaseSet
  <1>4. CASE \E n \in Node : NodeCalls(r, n)
    <2>1. /\ BudgetMoves(r) /\ UNCHANGED <<phase, synthesis, accepted>>
          /\ UNCHANGED <<roundVars, nodeVars, capacityVars>>
          /\ phase[r] \in {"execute", "unwind"}
      BY <1>4, BudgetSteps DEF NodeCalls, Runnable
    <2> QED  BY <2>1, <1>s, <1>p, PhaseSet
  <1>5. CASE Synthesize(r)
    <2>1. /\ BudgetMoves(r) /\ phase[r] = "synthesize" /\ ~exhausted[r] /\ exhausted' = exhausted
          /\ UNCHANGED <<roundVars, nodeVars, capacityVars>>
      BY <1>5, BudgetSteps DEF Synthesize, Reserve, Available
    <2>2. /\ Nodes(r, Pending) = {} /\ \A n \in plan[r].tasks : pc[r][n] = "collected"
      BY <2>1, <1>g DEF RunIsSound
    <2>3. PICK z \in {"DONE", "PARTIAL"} :
            /\ z = "DONE" => AllDone(r)
            /\ z = SynthesisStop(r)
      BY DEF SynthesisStop
    <2>4. synthesis' = [synthesis EXCEPT ![r] = z]
      BY <1>5, <2>3 DEF Synthesize
    <2>5. CASE r \in Reviewed
      <3>1. phase' = [phase EXCEPT ![r] = "critique"] /\ UNCHANGED accepted
        BY <1>5, <2>5 DEF Synthesize
      <3> QED  BY <3>1, <2>1, <2>2, <2>3, <2>4, <1>s, <1>p, PhaseSet
    <2>6. CASE r \notin Reviewed
      <3>1. PICK yes \in BOOLEAN : yes <=> z = "DONE"
        OBVIOUS
      <3>2. phase' = [phase EXCEPT ![r] = "replied"] /\ accepted' = [accepted EXCEPT ![r] = yes]
        BY <1>5, <2>1, <2>3, <2>6, <3>1 DEF Synthesize, Replies, Available
      <3>3. yes => AllDone(r)
        BY <2>3, <3>1
      <3> QED  BY <3>2, <3>3, <2>1, <2>2, <2>3, <2>4, <1>p, PhaseSet
    <2> QED  BY <2>5, <2>6
  <1>6. CASE Critique(r)
    <2>1. /\ BudgetMoves(r) /\ phase[r] = "critique" /\ exhausted' = exhausted
          /\ UNCHANGED <<roundVars, nodeVars, capacityVars>> /\ UNCHANGED synthesis
      BY <1>6, BudgetSteps DEF Critique, AsksReviewer, Reserve, budgetVars
    <2>2. /\ Nodes(r, Pending) = {} /\ \A n \in plan[r].tasks : pc[r][n] = "collected"
          /\ synthesis[r] = "DONE" => AllDone(r)
      BY <2>1, <1>g DEF RunIsSound
    <2>3. PICK p \in {"replied", "raised"}, yes \in BOOLEAN :
               \/ /\ p = "replied" => ~exhausted[r]
                  /\ phase' = [phase EXCEPT ![r] = p] /\ accepted' = [accepted EXCEPT ![r] = yes]
                  /\ yes => synthesis[r] = "DONE"
               \/ /\ MayReplan(r)
                  /\ phase' = [phase EXCEPT ![r] = "revise"] /\ UNCHANGED accepted
      BY <1>6 DEF Critique, Replies, Available, Passes
    <2>4. CASE /\ p = "replied" => ~exhausted[r]
               /\ phase' = [phase EXCEPT ![r] = p] /\ accepted' = [accepted EXCEPT ![r] = yes]
               /\ yes => synthesis[r] = "DONE"
      <3>1. p = "replied" => ~exhausted'[r] /\ (yes => AllDone(r))
        BY <2>1, <2>2, <2>4
      <3>2. p \in PhaseState /\ p \notin {"idle", "execute", "unwind", "critique", "revise"}
        BY <1>p
      <3> QED  BY <3>1, <3>2, <2>1, <2>2, <2>4, <1>s, PhaseSet
    <2>5. CASE MayReplan(r) /\ phase' = [phase EXCEPT ![r] = "revise"] /\ UNCHANGED accepted
      <3>1. attempt[r] <= max_replans
        BY <2>5 DEF MayReplan
      <3>2. /\ synthesis' = [synthesis EXCEPT ![r] = synthesis[r]]
            /\ accepted' = [accepted EXCEPT ![r] = accepted[r]]
        BY <2>1, <2>5, <1>s
      <3>3. "revise" \in PhaseState
        BY <1>p
      <3>4. synthesis[r] \in {"none", "DONE", "PARTIAL"} /\ accepted[r] \in BOOLEAN
        BY <1>s
      <3> QED  BY <3>1, <3>2, <3>3, <3>4, <2>1, <2>2, <2>5, PhaseSet
    <2> QED  BY <2>3, <2>4, <2>5
  <1> QED  BY <1>1, <1>2, <1>3, <1>4, <1>5, <1>6

\* A round starts with the tasks that depend on nothing.
FirstOf(p) == [n \in Node |-> IF n \in p.tasks /\ p.deps[n] = {} THEN "submitted" ELSE "none"]

\* So it does at the beginning, where nothing is collected.
LEMMA SubmittedFirst ==
  ASSUME NEW r \in Run, NEW p \in Plan, pc[r] = NoNodes
  PROVE  Submitted(r, p, {}) = FirstOf(p)
  <1>1. \A n \in Node : p.deps[n] \subseteq Node
    BY DEF Plan
  <1>2. \A n \in Node : Ready(p, [m \in Node |-> IF m \in {} THEN result[r][m] ELSE NoResult], n)
                          <=> n \in p.tasks /\ p.deps[n] = {}
    BY <1>1 DEF Ready
  <1> QED  BY <1>2 DEF Submitted, FirstOf, NoNodes

\* The first nodes of a round are sound: they depend on nothing.
LEMMA FirstSound ==
  ASSUME NEW r \in Run, NEW p \in Plan, plan'[r] = p, pc'[r] = FirstOf(p)
  PROVE  NodesAreSound(r)' /\ pc'[r] \in [Node -> PcState]
  <1>1. \A n \in Node : /\ pc'[r][n] \in {"none", "submitted"}
                        /\ pc'[r][n] # "none" => n \in p.tasks /\ p.deps[n] = {}
    BY DEF FirstOf
  <1>2. pc'[r] \in [Node -> PcState]
    BY DEF FirstOf, PcState, Pending
  <1>3. \A n \in Node : pc'[r][n] \notin {"running"} \cup Waiting /\ pc'[r][n] \notin {"finished", "collected"}
    BY <1>1 DEF Waiting
  <1> QED  BY <1>1, <1>2, <1>3 DEF NodesAreSound

\* The run begins.
LEMMA BeginStep ==
  ASSUME DagInv, NEW r \in Run, Begin(r)
  PROVE  DagInv'
  <1>g. RunGood(r) /\ RunTypes(r) /\ RunIsSound(r) /\ Shape /\ CapacityInv /\ plan[r] \in Plan
    BY DEF DagInv, RunGood, RunTypes, RunInv
  <1>0. phase[r] = "idle" /\ pc[r] = NoNodes /\ Nodes(r, Pending) = {}
    BY <1>g DEF Begin, RunIsSound
  <1>1. CASE Valid(plan[r])
    <2>1. /\ phase' = [phase EXCEPT ![r] = "execute"]
          /\ attempt' = [attempt EXCEPT ![r] = 1]
          /\ pc' = [pc EXCEPT ![r] = FirstOf(plan[r])]
          /\ UNCHANGED <<plan, result, cache, versions, synthesis, accepted, calls, exhausted>>
          /\ UNCHANGED capacityVars
      BY <1>1, <1>g, <1>0, SubmittedFirst DEF Begin, budgetVars
    <2>2. /\ phase'[r] = "execute" /\ attempt'[r] = 1 /\ pc'[r] = FirstOf(plan[r])
          /\ \A q \in Run \ {r} : Same(q)
      BY <2>1, <1>g DEF Shape, Same
    <2>3. Shape'
      BY <2>1, <1>g DEF Shape
    <2>4. NodesAreSound(r)' /\ pc'[r] \in [Node -> PcState]
      BY <2>1, <2>2, <1>g, FirstSound
    <2>5. 1 \in 0 .. max_replans + 1
      BY Limits
    <2>6. RunTypes(r)'
      BY <2>1, <2>2, <2>4, <2>5, <1>g DEF RunTypes, PhaseState
    <2>7. VersionsAreUnique(r)' /\ CacheIsSound(r)'
      <3>1. Kept(r)' \subseteq Kept(r)
        BY <2>1 DEF Kept
      <3> QED  BY <3>1, <2>1, <1>g, KeptShrinks
    <2>8. RunIsSound(r)'
      BY <2>1, <2>2, <1>g DEF RunIsSound
    <2>9. Unmoved
      <3>1. \A m \in Node : pc[r][m] \notin Held /\ pc'[r][m] \notin Held
        BY <2>2, <1>0, Places DEF NoNodes, FirstOf
      <3> QED  BY <3>1, <2>2 DEF Unmoved, Same
    <2>10. CapacityInv'
      BY <2>1, <2>9, <1>g, CapacityKept
    <2> QED  BY <2>2, <2>3, <2>4, <2>6, <2>7, <2>8, <2>10, StepOfOne DEF RunGood, RunInv
  <1>2. CASE ~Valid(plan[r])
    <2>1. /\ phase' = [phase EXCEPT ![r] = "raised"]
          /\ UNCHANGED <<roundVars, nodeVars, capacityVars>>
          /\ UNCHANGED budgetVars /\ UNCHANGED <<synthesis, accepted>>
      BY <1>2 DEF Begin, roundVars, nodeVars
    <2>2. BudgetMoves(r)
      BY <2>1, BudgetSteps
    <2>3. /\ synthesis[r] \in {"none", "DONE", "PARTIAL"} /\ accepted[r] \in BOOLEAN
          /\ synthesis = [synthesis EXCEPT ![r] = synthesis[r]]
          /\ accepted = [accepted EXCEPT ![r] = accepted[r]]
          /\ "raised" \in PhaseState
      BY <1>g DEF RunTypes, Shape, PhaseState, Ended
    <2> QED  BY <2>1, <2>2, <2>3, <1>0, PhaseSet
  <1> QED  BY <1>1, <1>2

\* run_ready collects and submits: what it submits has all its dependencies collected.
LEMMA CollectStep ==
  ASSUME DagInv, NEW r \in Run, Collect(r)
  PROVE  DagInv'
  <1>g. /\ RunGood(r) /\ RunTypes(r) /\ RunIsSound(r) /\ NodesAreSound(r) /\ Shape /\ CapacityInv
        /\ plan[r] \in Plan /\ pc[r] \in [Node -> PcState]
    BY DEF DagInv, RunGood, RunTypes, RunInv
  <1> DEFINE got == Nodes(r, {"finished", "collected"})
             new == Submitted(r, plan[r], got)
             p == IF got = plan[r].tasks THEN "synthesize" ELSE phase[r]
  <1>1. /\ phase[r] = "execute"
        /\ pc' = [pc EXCEPT ![r] = new]
        /\ phase' = [phase EXCEPT ![r] = p]
        /\ UNCHANGED <<attempt, plan, result, cache, versions, synthesis, accepted, calls, exhausted>>
        /\ UNCHANGED capacityVars
    BY DEF Collect, roundVars, budgetVars
  <1>2. \A n \in Node :
          /\ n \in got => new[n] = "collected"
          /\ n \notin got =>
               \/ new[n] = pc[r][n]
               \/ /\ new[n] = "submitted" /\ pc[r][n] = "none" /\ n \in plan[r].tasks
                  /\ plan[r].deps[n] \subseteq got
    <2>1. \A n \in Node : plan[r].deps[n] \subseteq Node
      BY <1>g DEF Plan
    <2>2. \A n \in Node :
            Ready(plan[r], [m \in Node |-> IF m \in got THEN result[r][m] ELSE NoResult], n)
              => n \in plan[r].tasks /\ plan[r].deps[n] \subseteq got
      BY <2>1 DEF Ready
    <2> HIDE DEF got
    <2> QED  BY <2>2 DEF Submitted
  <1>3. new \in [Node -> PcState]
    <2>1. \A n \in Node : new[n] \in PcState
      BY <1>2, <1>g DEF PcState, Pending
    <2>2. new = [n \in Node |-> new[n]]
      BY DEF Submitted
    <2> HIDE DEF new
    <2> QED  BY <2>1, <2>2
  <1>m. \A n \in Node : n \in got <=> pc[r][n] \in {"finished", "collected"}
    BY DEF Nodes
  <1>s. got \subseteq Node
    BY DEF Nodes
  <1> HIDE DEF new, got
  <1>4. /\ pc'[r] = new /\ phase'[r] = p /\ \A q \in Run \ {r} : Same(q)
    BY <1>1, <1>g DEF Shape, Same
  <1>5. Shape'
    BY <1>1, <1>g DEF Shape
  <1>6. \A n \in Node : pc[r][n] = "collected" => pc'[r][n] = "collected"
    BY <1>2, <1>4, <1>m
  <1>7. NodesAreSound(r)'
    <2> SUFFICES ASSUME NEW n \in Node
                 PROVE  /\ pc'[r][n] # "none" =>
                             /\ n \in plan'[r].tasks
                             /\ \A d \in plan'[r].deps[n] : pc'[r][d] = "collected"
                        /\ pc'[r][n] \in {"running"} \cup Waiting => ~UpstreamFailed(r, n)'
                        /\ pc'[r][n] \in {"finished", "collected"} =>
                             /\ result'[r][n] # NoResult
                             /\ result'[r][n].desc = plan'[r].desc[n]
                             /\ result'[r][n].inputs = InputVersions(r, n)'
                             /\ result'[r][n].stop = "SKIPPED" <=> UpstreamFailed(r, n)'
      BY DEF NodesAreSound
    <2>0. /\ UpstreamFailed(r, n)' <=> UpstreamFailed(r, n)
          /\ InputVersions(r, n)' = InputVersions(r, n)
      BY <1>1 DEF UpstreamFailed, InputVersions
    <2>d. plan[r].deps[n] \subseteq Node
      BY <1>g DEF Plan
    <2>1. CASE pc'[r][n] = pc[r][n] \/ n \in got
      <3>1. /\ pc'[r][n] # "none" => pc[r][n] # "none"
            /\ pc'[r][n] \in {"running"} \cup Waiting => pc[r][n] \in {"running"} \cup Waiting
            /\ pc'[r][n] \in {"finished", "collected"} => pc[r][n] \in {"finished", "collected"}
        BY <2>1, <1>2, <1>4, <1>m DEF Waiting
      <3>2. pc[r][n] # "none" =>
              n \in plan[r].tasks /\ \A d \in plan[r].deps[n] : pc[r][d] = "collected"
        BY <1>g DEF NodesAreSound
      <3>3. pc[r][n] # "none" => \A d \in plan[r].deps[n] : pc'[r][d] = "collected"
        BY <3>2, <2>d, <1>6
      <3> QED  BY <3>1, <3>2, <3>3, <2>0, <1>1, <1>g DEF NodesAreSound
    <2>2. CASE ~(pc'[r][n] = pc[r][n] \/ n \in got)
      <3>1. /\ pc'[r][n] = "submitted" /\ n \in plan[r].tasks /\ plan[r].deps[n] \subseteq got
        BY <2>2, <1>2, <1>4
      <3>2. \A d \in plan[r].deps[n] : pc'[r][d] = "collected"
        BY <3>1, <1>2, <1>4, <1>s
      <3> QED  BY <3>1, <3>2, <1>1 DEF Waiting
    <2> QED  BY <2>1, <2>2
  <1>8. VersionsAreUnique(r)' /\ CacheIsSound(r)'
    <2>1. Kept(r)' \subseteq Kept(r)
      BY <1>1 DEF Kept
    <2> QED  BY <2>1, <1>1, <1>g, KeptShrinks
  <1>9. RunIsSound(r)'
    <2>0. calls'[r] <= max_model_calls[r]
      BY <1>1, <1>g DEF RunIsSound
    <2>1. CASE got # plan[r].tasks
      <3>1. phase'[r] = "execute"
        BY <2>1, <1>1, <1>4
      <3> QED  BY <3>1, <2>0 DEF RunIsSound
    <2>2. CASE got = plan[r].tasks
      <3>1. phase'[r] = "synthesize"
        BY <2>2, <1>4
      <3>2. \A n \in plan'[r].tasks : pc'[r][n] = "collected"
        BY <2>2, <1>1, <1>2, <1>4, <1>s
      <3>3. \A n \in Node : pc[r][n] # "none" => n \in got
        BY <2>2, <1>g DEF NodesAreSound
      <3>4. \A n \in Node : pc'[r][n] \in {"none", "collected"}
        BY <3>3, <2>2, <1>2, <1>4
      <3>5. Nodes(r, Pending)' = {}
        BY <3>4 DEF Nodes, Pending, Waiting
      <3> QED  BY <3>1, <3>2, <3>5, <2>0 DEF RunIsSound
    <2> QED  BY <2>1, <2>2
  <1>10. RunTypes(r)'
    <2>1. phase'[r] \in PhaseState
      BY <1>1, <1>4 DEF PhaseState
    <2> QED  BY <2>1, <1>1, <1>3, <1>4, <1>g DEF RunTypes
  <1>11. Unmoved
    <2>1. \A m \in Node : pc[r][m] \in Held \/ pc'[r][m] \in Held => pc'[r][m] = pc[r][m]
      BY <1>2, <1>4, <1>m, Places
    <2> QED  BY <2>1, <1>4 DEF Unmoved, Same
  <1>12. CapacityInv'
    BY <1>1, <1>11, <1>g, CapacityKept
  <1> QED  BY <1>4, <1>5, <1>7, <1>8, <1>9, <1>10, <1>12, StepOfOne DEF RunGood, RunInv

\* A new plan starts a new round, while the cache stays.
LEMMA ReviseStep ==
  ASSUME DagInv, NEW r \in Run, Revise(r)
  PROVE  DagInv'
  <1>g. RunGood(r) /\ RunTypes(r) /\ RunIsSound(r) /\ Shape /\ CapacityInv
    BY DEF DagInv, RunGood, RunTypes, RunInv
  <1>0. /\ phase[r] = "revise" /\ Nodes(r, Pending) = {} /\ attempt[r] <= max_replans
        /\ BudgetMoves(r)
    BY <1>g, BudgetSteps DEF Revise, RunIsSound, AsksReviewer
  <1>u. UNCHANGED <<cache, versions, synthesis, accepted, capacityVars>>
    BY DEF Revise
  <1>1. PICK p \in Revised[r] :
          IF Valid(p)
            THEN /\ phase' = [phase EXCEPT ![r] = "execute"]
                 /\ attempt' = [attempt EXCEPT ![r] = @ + 1]
                 /\ plan' = [plan EXCEPT ![r] = p]
                 /\ result' = [result EXCEPT ![r] = NoResults]
                 /\ pc' = [pc EXCEPT ![r] = FirstOf(p)]
            ELSE /\ phase' = [phase EXCEPT ![r] = "raised"]
                 /\ UNCHANGED <<attempt, plan, result, pc>>
    BY DEF Revise, FirstOf
  <1>2. p \in Plan
    BY DagAssumption DEF DagAssumption
  <1>3. CASE Valid(p)
    <2>1. /\ phase'[r] = "execute" /\ attempt'[r] = attempt[r] + 1 /\ plan'[r] = p
          /\ result'[r] = NoResults /\ pc'[r] = FirstOf(p)
          /\ \A q \in Run \ {r} : Same(q)
      BY <1>1, <1>3, <1>0, <1>u, <1>g DEF Shape, Same, BudgetMoves
    <2>2. Shape'
      BY <1>1, <1>3, <1>0, <1>u, <1>g DEF Shape, BudgetMoves
    <2>3. NodesAreSound(r)' /\ pc'[r] \in [Node -> PcState]
      BY <2>1, <1>2, FirstSound
    <2>4. attempt[r] + 1 \in 0 .. max_replans + 1
      <3>1. attempt[r] \in Nat /\ max_replans \in Nat
        BY <1>g, Limits DEF RunTypes
      <3> QED  BY <3>1, <1>0
    <2>5. NoResults \in [Node -> Kinds]
      BY DEF NoResults, Kinds
    <2>6. RunTypes(r)'
      BY <2>1, <2>3, <2>4, <2>5, <1>0, <1>2, <1>u, <1>g DEF RunTypes, PhaseState, BudgetMoves
    <2>7. VersionsAreUnique(r)' /\ CacheIsSound(r)'
      <3>1. Kept(r)' \subseteq Kept(r)
        BY <2>1, <1>u DEF Kept, NoResults
      <3> QED  BY <3>1, <1>u, <1>g, KeptShrinks
    <2>8. RunIsSound(r)'
      BY <2>1, <1>0 DEF RunIsSound, BudgetMoves
    <2>9. Unmoved
      <3>1. \A m \in Node : pc[r][m] \notin Held /\ pc'[r][m] \notin Held
        BY <2>1, <1>0, Places DEF Nodes, Pending, Waiting, FirstOf
      <3> QED  BY <3>1, <2>1 DEF Unmoved, Same
    <2>10. CapacityInv'
      BY <2>9, <1>u, <1>g, CapacityKept
    <2> QED  BY <2>1, <2>2, <2>3, <2>6, <2>7, <2>8, <2>10, StepOfOne DEF RunGood, RunInv
  <1>4. CASE ~Valid(p)
    <2>1. /\ phase' = [phase EXCEPT ![r] = "raised"]
          /\ UNCHANGED <<roundVars, nodeVars, capacityVars>>
          /\ UNCHANGED <<synthesis, accepted>>
      BY <1>1, <1>4, <1>u DEF roundVars, nodeVars
    <2>3. /\ synthesis[r] \in {"none", "DONE", "PARTIAL"} /\ accepted[r] \in BOOLEAN
          /\ synthesis = [synthesis EXCEPT ![r] = synthesis[r]]
          /\ accepted = [accepted EXCEPT ![r] = accepted[r]]
          /\ "raised" \in PhaseState
      BY <1>g DEF RunTypes, Shape, PhaseState, Ended
    <2> QED  BY <2>1, <2>3, <1>0, PhaseSet
  <1> QED  BY <1>3, <1>4

-----------------------------------------------------------------------------
(* The theorems *)

\* Before the runs begin, nothing is kept and nobody is in acquire().
LEMMA DagStarts ==
  ASSUME Init
  PROVE  DagInv
  <1>1. plan \in [Run -> Plan]
    BY DagAssumption DEF Init, DagAssumption
  <1>2. Shape
    BY <1>1 DEF Init, Shape
  <1>3. ASSUME NEW r \in Run  PROVE RunGood(r)
    <2>1. /\ phase[r] = "idle" /\ attempt[r] = 0 /\ pc[r] = NoNodes /\ result[r] = NoResults
          /\ cache[r] = NoResults /\ versions[r] = 0 /\ synthesis[r] = "none"
          /\ accepted[r] = FALSE /\ calls[r] = 0 /\ exhausted[r] = FALSE /\ plan[r] \in Plan
      BY <1>1 DEF Init
    <2>2. pc[r] \in [Node -> PcState] /\ \A n \in Node : pc[r][n] = "none"
      BY <2>1 DEF NoNodes, PcState
    <2>3. NoResults \in [Node -> Kinds] /\ Kept(r) = {} /\ \A n \in Node : cache[r][n] = NoResult
      BY <2>1 DEF NoResults, Kinds, Kept
    <2>4. 0 \in 0 .. max_replans + 1 /\ 0 <= max_model_calls[r]
      BY Limits
    <2>5. RunTypes(r)
      <3>1. accepted[r] \in BOOLEAN /\ exhausted[r] \in BOOLEAN
        BY <2>1
      <3>2. attempt[r] \in 0 .. max_replans + 1 /\ versions[r] \in Nat /\ calls[r] \in Nat
        BY <2>1, <2>4
      <3>3. phase[r] \in PhaseState /\ synthesis[r] \in {"none", "DONE", "PARTIAL"}
        BY <2>1 DEF PhaseState
      <3> QED  BY <3>1, <3>2, <3>3, <2>1, <2>2, <2>3 DEF RunTypes
    <2>6. VersionsAreUnique(r) /\ CacheIsSound(r)
      BY <2>3 DEF VersionsAreUnique, CacheIsSound
    <2>7. NodesAreSound(r)
      BY <2>2 DEF NodesAreSound, Waiting
    <2>8. Nodes(r, Pending) = {}
      BY <2>2 DEF Nodes, Pending, Waiting
    <2>9. RunIsSound(r)
      BY <2>1, <2>4, <2>8 DEF RunIsSound
    <2> QED  BY <2>5, <2>6, <2>7, <2>9 DEF RunGood, RunInv
  <1>4. CapacityInv
    <2>1. \A r \in Run, n \in Node : pc[r][n] = "none"
      BY DEF Init, NoNodes
    <2>2. ASSUME NEW S \in SUBSET Held  PROVE Workers(S) = {} /\ \A t : WorkersOf(t, S) = {}
      BY <2>1, Places DEF Workers, WorkersOf
    <2>3. \A S \in SUBSET Held : Count(S) = 0 /\ \A t : CountOf(t, S) = 0
      BY <2>2, FS_EmptySet DEF Count, CountOf
    <2>4. IsFiniteSet(Workers(Held))
      BY <2>2, Places, FS_EmptySet
    <2>5. /\ \A t \in Tenant : users[t] = 0 /\ free[t] = per_tenant
          /\ inflight = 0 /\ freeGlobal = total
      BY DEF Init
    <2>6. CapacityTypes
      <3>1. users \in [Tenant -> Nat] /\ inflight \in Nat
        BY DEF Init
      <3>2. free \in [Tenant -> Nat] /\ freeGlobal \in Nat
        BY Limits DEF Init
      <3> QED  BY <3>1, <3>2 DEF CapacityTypes
    <2>7. CountersAreExact
      BY <2>3, <2>4, <2>5, Places, Limits DEF CountersAreExact
    <2> QED  BY <2>6, <2>7 DEF CapacityInv
  <1> QED  BY <1>2, <1>3, <1>4 DEF DagInv

\* Nothing happens.
LEMMA DagStutters ==
  ASSUME DagInv, UNCHANGED vars
  PROVE  DagInv'
  <1>1. UNCHANGED <<phase, attempt, plan, pc, result, cache, versions, synthesis, accepted, calls,
                    exhausted, capacityVars>>
    BY DEF vars, roundVars, nodeVars, budgetVars
  <1>2. Shape' /\ \A r \in Run : Same(r)
    BY <1>1 DEF DagInv, Shape, Same
  <1>3. \A r \in Run : RunGood(r)'
    BY <1>2, SameGood DEF DagInv
  <1>4. CapacityInv'
    BY <1>1, CapacityKept DEF DagInv, Unmoved
  <1> QED  BY <1>2, <1>3, <1>4 DEF DagInv

\* The invariant of optimized DAGs: for any plans and replans, tenants and limits, and
\* any interleaving of runs, nodes, cancellations and expiries.
THEOREM DagInvariant == Spec => []DagInv
  <1>1. Init => DagInv
    BY DagStarts
  <1>2. DagInv /\ [Next]_vars => DagInv'
    <2> SUFFICES ASSUME DagInv, [Next]_vars  PROVE DagInv'
      OBVIOUS
    <2>1. ASSUME NEW r \in Run, RunSteps(r)  PROVE DagInv'
      BY <2>1, BeginStep, CollectStep, ReviseStep, PhaseSteps DEF RunSteps
    <2>2. ASSUME NEW r \in Run, NEW n \in Node, NodeSteps(r, n) \/ EntryExpires(r, n)
          PROVE  DagInv'
      <3>1. CASE EntryExpires(r, n)
        BY <3>1, ExpiryStep
      <3>2. CASE NodeReused(r, n)
        BY <3>2, ReuseStep
      <3>3. CASE NodeSkipped(r, n) \/ NodeReturns(r, n)
        BY <3>3, RecordSteps
      <3>4. CASE NodeCalls(r, n)
        BY <3>4, PhaseSteps
      <3>5. CASE \/ NodeQueued(r, n) \/ NodeRefused(r, n) \/ NodeTakesTenantSlot(r, n)
                 \/ NodeTakesSlot(r, n) \/ NodeRaises(r, n) \/ NodeDropped(r, n)
        BY <3>5, MoveSteps
      <3> QED  BY <2>2, <3>1, <3>2, <3>3, <3>4, <3>5 DEF NodeSteps
    <2>3. CASE UNCHANGED vars
      BY <2>3, DagStutters
    <2> QED  BY <2>1, <2>2, <2>3 DEF Next
  <1> QED  BY <1>1, <1>2, PTL DEF Spec

\* Type correctness, with a result for every node that has finished.
THEOREM DagTypes == Spec => []DagTypeOK
  BY DagInvariant, InvTypes, PTL

\* The counters and semaphores of DagWorkerCapacity are exact, over cancellations at any
\* point and semaphores that are dropped and made anew, and run_ready leaves no
\* coroutine behind.
THEOREM CapacityExact == Spec => []CapacityIsExact
  <1>1. DagInv => CapacityIsExact
    <2> SUFFICES ASSUME DagInv  PROVE CapacityIsExact
      OBVIOUS
    <2>1. CountersAreExact
      BY DEF DagInv, CapacityInv
    <2>2. \A r \in Run : phase[r] \notin {"execute", "unwind"} => Nodes(r, Pending) = {}
      BY DEF DagInv, RunGood, RunInv, RunIsSound
    <2> QED  BY <2>1, <2>2 DEF CountersAreExact, CapacityIsExact, Count, CountOf, Workers,
                               WorkersOf, Held
  <1> QED  BY <1>1, DagInvariant, PTL

\* A run stays within its calls and rounds and does not reply once a call was refused.
THEOREM BudgetsFailClosed == Spec => []BudgetFailsClosed
  <1>1. DagInv => BudgetFailsClosed
    <2> SUFFICES ASSUME DagInv, NEW r \in Run
                 PROVE  /\ calls[r] <= max_model_calls[r] /\ attempt[r] <= max_replans + 1
                        /\ phase[r] = "replied" => ~exhausted[r]
      BY DEF BudgetFailsClosed
    <2>1. RunTypes(r) /\ RunIsSound(r)
      BY DEF DagInv, RunGood, RunInv
    <2>2. attempt[r] <= max_replans + 1
      BY <2>1, Limits DEF RunTypes
    <2> QED  BY <2>1, <2>2 DEF RunIsSound
  <1> QED  BY <1>1, DagInvariant, PTL

\* What a run synthesizes, reviews and returns is consistent, although DagResultReuse
\* compares nothing but descriptions and versions.
THEOREM ResultsConsistent == Spec => []ResultsAreConsistent
  <1>1. DagInv => ResultsAreConsistent
    <2> SUFFICES ASSUME DagInv, NEW r \in Run
                 PROVE  /\ phase[r] \in {"synthesize", "critique", "revise", "replied"} =>
                             \A n \in plan[r].tasks :
                               /\ result[r][n].desc = plan[r].desc[n]
                               /\ \A d \in plan[r].deps[n] : result[r][n].inputs[d] = result[r][d].version
                               /\ result[r][n].stop = "SKIPPED" <=> UpstreamFailed(r, n)
                        /\ phase[r] = "replied" /\ accepted[r] => AllDone(r)
      BY DEF ResultsAreConsistent
    <2>1. plan[r] \in Plan /\ RunIsSound(r) /\ NodesAreSound(r)
      BY DEF DagInv, RunGood, RunTypes, RunInv
    <2>2. plan[r].tasks \subseteq Node /\ \A n \in Node : plan[r].deps[n] \subseteq Node
      BY <2>1 DEF Plan
    <2>3. ASSUME NEW n \in plan[r].tasks, pc[r][n] = "collected"
          PROVE  /\ result[r][n].desc = plan[r].desc[n]
                 /\ \A d \in plan[r].deps[n] : result[r][n].inputs[d] = result[r][d].version
                 /\ result[r][n].stop = "SKIPPED" <=> UpstreamFailed(r, n)
      <3>1. /\ n \in Node /\ result[r][n].desc = plan[r].desc[n]
            /\ result[r][n].inputs = InputVersions(r, n)
            /\ result[r][n].stop = "SKIPPED" <=> UpstreamFailed(r, n)
        BY <2>1, <2>2, <2>3 DEF NodesAreSound
      <3>2. \A d \in plan[r].deps[n] : InputVersions(r, n)[d] = result[r][d].version
        BY <3>1, <2>2 DEF InputVersions
      <3> QED  BY <3>1, <3>2
    <2> QED  BY <2>1, <2>3 DEF RunIsSound
  <1> QED  BY <1>1, DagInvariant, PTL
-----------------------------------------------------------------------------
(***************************************************************************)
(* Runs cannot stall and cannot go round in circles: what RunsEnd needs    *)
(* besides fairness.                                                       *)
(***************************************************************************)

\* In a round that goes on the plan is valid, a task is left to collect, and each task that
\* is not submitted has a dependency that is not collected.
NothingIsOverlooked(r) ==
  phase[r] = "execute" =>
    /\ Valid(plan[r])
    /\ \E n \in plan[r].tasks : pc[r][n] # "collected"
    /\ \A n \in plan[r].tasks :
         pc[r][n] = "none" => \E d \in plan[r].deps[n] : pc[r][d] # "collected"

\* A round that goes on has a coroutine to wait for, and a coroutine that waits for a slot
\* waits for one that has it and does not itself wait for the first.
RoundsCannotStall ==
  /\ \A r \in Run :
       phase[r] = "execute" => \E n \in plan[r].tasks : pc[r][n] \in Pending \cup {"finished", "error"}
  /\ \A r \in Run, n \in Node :
       /\ pc[r][n] = "waitTenant" /\ free[tenant[r]] = 0 =>
            \E q \in Run, m \in Node : tenant[q] = tenant[r] /\ pc[q][m] \in {"waitGlobal", "running"}
       /\ pc[r][n] = "waitGlobal" /\ freeGlobal = 0 =>
            \E q \in Run, m \in Node : pc[q][m] = "running"

\* How far a run is in its round, and a coroutine in its node.
Stage(x) ==
  CASE x = "idle" -> 0
    [] x = "execute" -> 1
    [] x \in {"unwind", "synthesize"} -> 2
    [] x = "critique" -> 3
    [] x = "revise" -> 4
    [] x \in Ended -> 5

Place(x) ==
  CASE x = "none" -> 0
    [] x = "submitted" -> 1
    [] x = "waitTenant" -> 2
    [] x = "waitGlobal" -> 3
    [] x = "running" -> 4
    [] x \in {"finished", "error"} -> 5
    [] x = "collected" -> 6

\* Run r begins a round; or goes on in its round; or its coroutines do; or all stay where
\* they are and a call is counted or refused, or a cached result is lost.
BeginsRound(r) == attempt'[r] = attempt[r] + 1 /\ phase'[r] = "execute"
GoesOn(r) == attempt'[r] = attempt[r] /\ Stage(phase'[r]) > Stage(phase[r])
StaysIn(r) == attempt'[r] = attempt[r] /\ phase'[r] = phase[r] /\ plan'[r] = plan[r]
NodesGoOn(r) ==
  /\ StaysIn(r)
  /\ \A n \in Node : Place(pc'[r][n]) >= Place(pc[r][n])
  /\ \E n \in plan[r].tasks : Place(pc'[r][n]) > Place(pc[r][n])
Spends(r) ==
  /\ StaysIn(r) /\ pc'[r] = pc[r]
  /\ \/ calls'[r] = calls[r] + 1 /\ exhausted'[r] = exhausted[r] /\ cache'[r] = cache[r]
     \/ calls'[r] = calls[r] /\ ~exhausted[r] /\ exhausted'[r] /\ cache'[r] = cache[r]
     \/ /\ calls'[r] = calls[r] /\ exhausted'[r] = exhausted[r]
        /\ \E n \in Node : cache[r][n] # NoResult /\ cache'[r] = [cache[r] EXCEPT ![n] = NoResult]

GoesForward(r) == BeginsRound(r) \/ GoesOn(r) \/ NodesGoOn(r) \/ Spends(r)

\* Every step is one of a single run, and takes it forward.
RunsGoForward == \E r \in Run : GoesForward(r) /\ \A q \in Run \ {r} : Same(q)

\* A coroutine of run r moves on to place b, and nothing else of the runs but what it made.
Advances(r, n, b) ==
  /\ StaysIn(r) /\ pc[r][n] \in Pending
  /\ pc'[r] = [pc[r] EXCEPT ![n] = b]
  /\ b \in {"waitTenant", "waitGlobal", "running", "finished", "error"}
  /\ Place(b) > Place(pc[r][n])
  /\ \A q \in Run \ {r} : Same(q)

\* The places in numbers.
LEMMA PlaceIs ==
  /\ Place("none") = 0 /\ Place("submitted") = 1 /\ Place("waitTenant") = 2
  /\ Place("waitGlobal") = 3 /\ Place("running") = 4 /\ Place("finished") = 5
  /\ Place("error") = 5 /\ Place("collected") = 6
  BY DEF Place

\* The stages in numbers.
LEMMA StageIs ==
  /\ Stage("idle") = 0 /\ Stage("execute") = 1 /\ Stage("unwind") = 2 /\ Stage("synthesize") = 2
  /\ Stage("critique") = 3 /\ Stage("revise") = 4 /\ Stage("replied") = 5 /\ Stage("raised") = 5
  BY DEF Stage, Ended

\* Every step of a node but a model call takes its coroutine on.
LEMMA NodeAdvances ==
  ASSUME DagInv, NEW r \in Run, NEW n \in Node,
         \/ NodeReused(r, n) \/ NodeSkipped(r, n) \/ NodeQueued(r, n) \/ NodeRefused(r, n)
         \/ NodeTakesTenantSlot(r, n) \/ NodeTakesSlot(r, n) \/ NodeReturns(r, n)
         \/ NodeRaises(r, n) \/ NodeDropped(r, n)
  PROVE  \E b : Advances(r, n, b)
  <1>s. Shape
    BY DEF DagInv
  <1> DEFINE Moves(a, b) ==
        /\ pc[r][n] = a /\ pc' = [pc EXCEPT ![r][n] = b]
        /\ UNCHANGED <<phase, attempt, plan, synthesis, accepted, calls, exhausted>>
        /\ \A q \in Run \ {r} : /\ result'[q] = result[q] /\ cache'[q] = cache[q]
                                /\ versions'[q] = versions[q]
  <1>1. ASSUME NodeReused(r, n)  PROVE Moves("submitted", "finished")
    BY <1>1, <1>s DEF NodeReused, Enters, Shape, roundVars, budgetVars
  <1>2. ASSUME NodeSkipped(r, n)  PROVE Moves("submitted", "finished")
    BY <1>2, <1>s DEF NodeSkipped, Record, Enters, Shape, roundVars, budgetVars
  <1>3. ASSUME NodeQueued(r, n)  PROVE Moves("submitted", "waitTenant")
    BY <1>3 DEF NodeQueued, Enters, roundVars, budgetVars
  <1>4. ASSUME NodeRefused(r, n)  PROVE Moves("submitted", "error")
    BY <1>4 DEF NodeRefused, Enters, roundVars, budgetVars
  <1>5. ASSUME NodeTakesTenantSlot(r, n)  PROVE Moves("waitTenant", "waitGlobal")
    BY <1>5 DEF NodeTakesTenantSlot, roundVars, budgetVars
  <1>6. ASSUME NodeTakesSlot(r, n)  PROVE Moves("waitGlobal", "running")
    BY <1>6 DEF NodeTakesSlot, roundVars, budgetVars
  <1>7. ASSUME NodeReturns(r, n)  PROVE Moves("running", "finished")
    BY <1>7, <1>s DEF NodeReturns, Record, Shape, roundVars, budgetVars
  <1>8. ASSUME NodeRaises(r, n)
        PROVE  Moves("running", "error") \/ Moves("waitTenant", "error") \/ Moves("waitGlobal", "error")
    BY <1>8 DEF NodeRaises, Waiting, roundVars, budgetVars
  <1>9. ASSUME NodeDropped(r, n)  PROVE Moves("submitted", "error")
    BY <1>9 DEF NodeDropped, roundVars, budgetVars
  <1>10. PICK a \in Pending, b \in {"waitTenant", "waitGlobal", "running", "finished", "error"} :
           Moves(a, b) /\ Place(b) > Place(a)
    <2> HIDE DEF Moves
    <2>1. {"submitted", "waitTenant", "waitGlobal", "running"} \subseteq Pending
      BY DEF Pending, Waiting
    <2> QED  BY <2>1, <1>1, <1>2, <1>3, <1>4, <1>5, <1>6, <1>7, <1>8, <1>9, PlaceIs
  <1>11. pc'[r] = [pc[r] EXCEPT ![n] = b] /\ \A q \in Run \ {r} : pc'[q] = pc[q]
    BY <1>10, <1>s DEF Shape
  <1> QED  BY <1>10, <1>11 DEF Advances, StaysIn, Same

\* Such a step takes the run forward, and submits and collects nothing.
LEMMA AdvanceForward ==
  ASSUME DagInv, NEW r \in Run, NEW n \in Node, NEW b, Advances(r, n, b)
  PROVE  NodesGoOn(r) /\ (NothingIsOverlooked(r) => NothingIsOverlooked(r)')
  <1>1. pc[r] \in [Node -> PcState] /\ NodesAreSound(r) /\ plan[r] \in Plan
    BY DEF DagInv, RunGood, RunTypes, RunInv
  <1>2. pc'[r][n] = b /\ \A m \in Node \ {n} : pc'[r][m] = pc[r][m]
    BY <1>1 DEF Advances
  <1>3. pc[r][n] \notin {"none", "collected"} /\ b \notin {"none", "collected"}
    BY DEF Advances, Pending, Waiting
  <1>4. n \in plan[r].tasks /\ plan[r].tasks \subseteq Node
        /\ \A m \in Node : plan[r].deps[m] \subseteq Node
    BY <1>1, <1>3 DEF NodesAreSound, Plan
  <1>5. NodesGoOn(r)
    <2>1. \A m \in Node : Place(pc[r][m]) \in Nat
      <3> SUFFICES ASSUME NEW m \in Node  PROVE Place(pc[r][m]) \in Nat
        OBVIOUS
      <3>1. pc[r][m] \in PcState
        BY <1>1
      <3> QED  BY <3>1, PlaceIs DEF PcState, Pending, Waiting
    <2>2. Place(b) \in Nat /\ Place(b) > Place(pc[r][n]) /\ StaysIn(r)
      BY PlaceIs DEF Advances
    <2> QED  BY <1>2, <1>4, <2>1, <2>2 DEF NodesGoOn
  <1>6. ASSUME NothingIsOverlooked(r)  PROVE NothingIsOverlooked(r)'
    <2>1. phase'[r] = phase[r] /\ plan'[r] = plan[r]
      BY DEF Advances, StaysIn
    <2> SUFFICES ASSUME phase[r] = "execute"
                 PROVE  /\ Valid(plan'[r])
                        /\ \E m \in plan[r].tasks : pc'[r][m] # "collected"
                        /\ \A m \in plan[r].tasks :
                             pc'[r][m] = "none" => \E d \in plan[r].deps[m] : pc'[r][d] # "collected"
      BY <2>1 DEF NothingIsOverlooked, Valid, HasLevels
    <2>2. Valid(plan'[r])
      BY <1>6, <2>1 DEF NothingIsOverlooked
    <2>3. pc'[r][n] # "collected"
      BY <1>2, <1>3
    <2>4. ASSUME NEW m \in plan[r].tasks, pc'[r][m] = "none"
          PROVE  \E d \in plan[r].deps[m] : pc'[r][d] # "collected"
      <3>1. m \in Node /\ pc[r][m] = "none"
        BY <1>2, <1>3, <1>4, <2>4
      <3>2. PICK d \in plan[r].deps[m] : pc[r][d] # "collected"
        BY <1>6, <3>1 DEF NothingIsOverlooked
      <3>3. d \in Node /\ pc'[r][d] # "collected"
        BY <1>2, <1>3, <1>4, <3>1, <3>2
      <3> QED  BY <3>3
    <2> QED  BY <1>4, <2>2, <2>3, <2>4
  <1> QED  BY <1>5, <1>6

\* A round begins with the tasks that depend on nothing.
LEMMA RoundBegins ==
  ASSUME NEW r \in Run, plan'[r] \in Plan, Valid(plan'[r]), pc'[r] = FirstOf(plan'[r])
  PROVE  NothingIsOverlooked(r)'
  <1>1. /\ plan'[r].tasks \subseteq Node /\ plan'[r].tasks # {}
        /\ \A n \in Node : plan'[r].deps[n] \subseteq Node
    BY DEF Plan, Valid
  <1>2. \A n \in Node : pc'[r][n] # "collected"
    BY DEF FirstOf
  <1>3. \A n \in plan'[r].tasks : pc'[r][n] = "none" => plan'[r].deps[n] # {}
    BY <1>1 DEF FirstOf
  <1> QED  BY <1>1, <1>2, <1>3 DEF NothingIsOverlooked, Valid, HasLevels

\* What run_ready does with the nodes that have finished.
LEMMA CollectForward ==
  ASSUME DagInv, NEW r \in Run, Collect(r)
  PROVE  /\ GoesForward(r) /\ \A q \in Run \ {r} : Same(q)
         /\ NothingIsOverlooked(r) => NothingIsOverlooked(r)'
  <1> DEFINE S == Nodes(r, {"finished", "collected"})
             got == [n \in Node |-> IF n \in S THEN result[r][n] ELSE NoResult]
  <1>s. Shape /\ pc[r] \in [Node -> PcState] /\ NodesAreSound(r) /\ plan[r] \in Plan
    BY DEF DagInv, RunGood, RunTypes, RunInv
  <1>1. /\ phase[r] = "execute" /\ Nodes(r, {"finished"}) # {}
        /\ pc' = [pc EXCEPT ![r] = Submitted(r, plan[r], S)]
        /\ phase' = [phase EXCEPT ![r] = IF S = plan[r].tasks THEN "synthesize" ELSE @]
        /\ UNCHANGED <<attempt, plan, result, cache, versions, synthesis, accepted, calls, exhausted>>
    BY DEF Collect, roundVars, budgetVars
  <1>2. /\ pc'[r] = Submitted(r, plan[r], S)
        /\ phase'[r] = IF S = plan[r].tasks THEN "synthesize" ELSE "execute"
        /\ \A q \in Run \ {r} : pc'[q] = pc[q] /\ phase'[q] = phase[q]
    BY <1>s, <1>1 DEF Shape
  <1>3. \A n \in Node : pc'[r][n] = IF n \in S THEN "collected"
                                    ELSE IF pc[r][n] = "none" /\ Ready(plan[r], got, n) THEN "submitted"
                                    ELSE pc[r][n]
    BY <1>2 DEF Submitted
  <1>4. \A n \in Node : n \in S <=> pc[r][n] \in {"finished", "collected"}
    BY DEF Nodes
  <1>5. \A n \in S : n \in Node /\ n \in plan[r].tasks /\ result[r][n] # NoResult
    BY <1>s DEF Nodes, NodesAreSound
  <1>6. plan[r].tasks \subseteq Node /\ \A n \in Node : plan[r].deps[n] \subseteq Node
    BY <1>s DEF Plan
  <1>7. \A q \in Run \ {r} : Same(q)
    BY <1>1, <1>2 DEF Same
  <1>8. GoesForward(r)
    <2>1. CASE S = plan[r].tasks
      BY <2>1, <1>1, <1>2, StageIs DEF GoesForward, GoesOn
    <2>2. CASE S # plan[r].tasks
      <3>1. StaysIn(r)
        BY <2>2, <1>1, <1>2 DEF StaysIn
      <3>2. \A n \in Node : Place(pc'[r][n]) >= Place(pc[r][n])
        <4> SUFFICES ASSUME NEW n \in Node  PROVE Place(pc'[r][n]) >= Place(pc[r][n])
          OBVIOUS
        <4>1. pc[r][n] \in PcState
          BY <1>s
        <4>2. \/ pc[r][n] \in {"finished", "collected"} /\ pc'[r][n] = "collected"
              \/ pc[r][n] = "none" /\ pc'[r][n] = "submitted"
              \/ pc'[r][n] = pc[r][n]
          BY <1>3, <1>4
        <4> HIDE DEF S, got
        <4> QED  BY <4>1, <4>2, PlaceIs DEF PcState, Pending, Waiting
      <3>3. PICK n \in Node : pc[r][n] = "finished"
        BY <1>1 DEF Nodes
      <3>4. n \in plan[r].tasks /\ Place(pc'[r][n]) > Place(pc[r][n])
        <4>1. n \in S
          BY <3>3, <1>4
        <4>2. n \in plan[r].tasks /\ pc'[r][n] = "collected"
          BY <4>1, <1>3, <1>5
        <4> QED  BY <4>2, <3>3, PlaceIs
      <3> QED  BY <3>1, <3>2, <3>4 DEF GoesForward, NodesGoOn
    <2> QED  BY <2>1, <2>2
  <1>9. ASSUME NothingIsOverlooked(r)  PROVE NothingIsOverlooked(r)'
    <2> SUFFICES ASSUME phase'[r] = "execute"
                 PROVE  /\ Valid(plan'[r])
                        /\ \E n \in plan[r].tasks : pc'[r][n] # "collected"
                        /\ \A n \in plan[r].tasks :
                             pc'[r][n] = "none" => \E d \in plan[r].deps[n] : pc'[r][d] # "collected"
      BY <1>1 DEF NothingIsOverlooked, Valid, HasLevels
    <2>1. S # plan[r].tasks
      BY <1>2
    <2>2. PICK n \in plan[r].tasks : n \notin S
      BY <2>1, <1>5
    <2>3. n \in Node /\ pc'[r][n] # "collected"
      BY <2>2, <1>3, <1>4, <1>6
    <2>4. ASSUME NEW m \in plan[r].tasks, pc'[r][m] = "none"
          PROVE  \E d \in plan[r].deps[m] : pc'[r][d] # "collected"
      <3>1. m \in Node /\ ~Ready(plan[r], got, m)
        BY <2>4, <1>3, <1>4, <1>6
      <3>2. PICK d \in plan[r].deps[m] : got[d] = NoResult
        BY <3>1 DEF Ready
      <3>3. d \in Node /\ d \notin S
        BY <3>1, <3>2, <1>5, <1>6
      <3> QED  BY <3>2, <3>3, <1>3, <1>4
    <2>5. Valid(plan'[r])
      BY <1>1, <1>9 DEF NothingIsOverlooked
    <2> QED  BY <2>2, <2>3, <2>4, <2>5
  <1> QED  BY <1>7, <1>8, <1>9

\* The other steps of a run begin a round or bring the run to a later stage.
LEMMA RunForward ==
  ASSUME DagInv, NEW r \in Run, RunSteps(r), ~Collect(r), phase[r] = "idle" => attempt[r] = 0
  PROVE  /\ GoesForward(r) /\ \A q \in Run \ {r} : Same(q)
         /\ NothingIsOverlooked(r)'
  <1>s. Shape /\ plan[r] \in Plan /\ attempt[r] \in Nat /\ (phase[r] = "idle" => pc[r] = NoNodes)
    BY Limits DEF DagInv, RunGood, RunTypes, RunInv, RunIsSound
  <1> DEFINE Ends(a, b) ==
        /\ phase[r] = a /\ phase' = [phase EXCEPT ![r] = b]
        /\ UNCHANGED <<attempt, plan, pc, result, cache, versions>>
        /\ \A q \in Run \ {r} : /\ synthesis'[q] = synthesis[q] /\ accepted'[q] = accepted[q]
                                /\ calls'[q] = calls[q] /\ exhausted'[q] = exhausted[q]
  <1>1. ASSUME NEW a \in PhaseState, NEW b \in PhaseState, Ends(a, b), Stage(b) > Stage(a), b # "execute"
        PROVE  /\ GoesForward(r) /\ \A q \in Run \ {r} : Same(q)
               /\ NothingIsOverlooked(r)'
    <2>1. phase'[r] = b /\ \A q \in Run \ {r} : phase'[q] = phase[q]
      BY <1>1, <1>s DEF Shape
    <2> QED  BY <1>1, <2>1 DEF GoesForward, GoesOn, Same, NothingIsOverlooked
  <1>b. Reserve(r) \/ ReserveFails(r) \/ UNCHANGED budgetVars
          => \A q \in Run \ {r} : calls'[q] = calls[q] /\ exhausted'[q] = exhausted[q]
    BY <1>s DEF Reserve, ReserveFails, budgetVars, Shape
  <1>2. ASSUME Unwind(r)  PROVE Ends("execute", "unwind")
    BY <1>2 DEF Unwind, roundVars, nodeVars, budgetVars
  <1>3. ASSUME UnwindEnds(r)  PROVE Ends("unwind", "raised")
    BY <1>3 DEF UnwindEnds, roundVars, nodeVars, budgetVars
  <1>4. ASSUME Synthesize(r)
        PROVE  \E b \in {"critique", "replied", "raised"} : Ends("synthesize", b)
    <2>1. UNCHANGED <<attempt, plan, pc, result, cache, versions>> /\ Reserve(r) /\ phase[r] = "synthesize"
      BY <1>4 DEF Synthesize, roundVars, nodeVars
    <2>2. \A q \in Run \ {r} : synthesis'[q] = synthesis[q] /\ accepted'[q] = accepted[q]
      BY <1>4, <1>s DEF Synthesize, Replies, Shape
    <2>3. \E b \in {"critique", "replied", "raised"} : phase' = [phase EXCEPT ![r] = b]
      BY <1>4 DEF Synthesize, Replies
    <2> QED  BY <1>b, <2>1, <2>2, <2>3
  <1>5. ASSUME Critique(r)
        PROVE  \E b \in {"revise", "replied", "raised"} : Ends("critique", b)
    <2>1. UNCHANGED <<attempt, plan, pc, result, cache, versions, synthesis>> /\ phase[r] = "critique"
          /\ (Reserve(r) \/ UNCHANGED budgetVars)
      BY <1>5 DEF Critique, AsksReviewer, roundVars, nodeVars
    <2>2. \A q \in Run \ {r} : accepted'[q] = accepted[q]
      BY <1>5, <1>s DEF Critique, Replies, Shape
    <2>3. \E b \in {"revise", "replied", "raised"} : phase' = [phase EXCEPT ![r] = b]
      BY <1>5 DEF Critique, Replies
    <2> QED  BY <1>b, <2>1, <2>2, <2>3
  <1>6. ASSUME SynthesisFails(r) \/ ReviewFails(r)
        PROVE  \E a \in {"synthesize", "critique", "revise"} : Ends(a, "raised")
    BY <1>6, <1>b DEF SynthesisFails, ReviewFails, StepFails, roundVars, nodeVars
  <1>7. ASSUME Begin(r), ~Valid(plan[r])  PROVE Ends("idle", "raised")
    BY <1>7 DEF Begin, budgetVars
  <1>8. ASSUME NEW p, Revise(r), p \in Revised[r], ~Valid(p), phase' = [phase EXCEPT ![r] = "raised"],
               UNCHANGED <<attempt, plan, result, pc>>
        PROVE  Ends("revise", "raised")
    BY <1>8, <1>b DEF Revise, AsksReviewer
  <1>9. {"idle", "execute", "unwind", "synthesize", "critique", "revise", "replied", "raised"} \subseteq PhaseState
    BY DEF PhaseState, Ended
  <1> HIDE DEF Ends
  <1>10. CASE Begin(r) /\ Valid(plan[r])
    <2>1. /\ phase' = [phase EXCEPT ![r] = "execute"] /\ attempt' = [attempt EXCEPT ![r] = 1]
          /\ pc' = [pc EXCEPT ![r] = FirstOf(plan[r])]
          /\ UNCHANGED <<plan, result, cache, versions, synthesis, accepted, calls, exhausted>>
          /\ phase[r] = "idle"
      BY <1>10, <1>s, SubmittedFirst DEF Begin, budgetVars
    <2>2. attempt[r] = 0
      BY <2>1
    <2>3. plan'[r] \in Plan /\ Valid(plan'[r]) /\ pc'[r] = FirstOf(plan'[r])
      BY <2>1, <1>10, <1>s DEF Shape
    <2>4. attempt'[r] = attempt[r] + 1 /\ phase'[r] = "execute" /\ \A q \in Run \ {r} : Same(q)
      BY <2>1, <2>2, <1>s DEF Same, Shape
    <2> QED  BY <2>3, <2>4, RoundBegins DEF GoesForward, BeginsRound
  <1>11. CASE Revise(r)
    <2>1. PICK p \in Revised[r] :
            IF Valid(p)
              THEN /\ phase' = [phase EXCEPT ![r] = "execute"]
                   /\ attempt' = [attempt EXCEPT ![r] = @ + 1]
                   /\ plan' = [plan EXCEPT ![r] = p]
                   /\ result' = [result EXCEPT ![r] = NoResults]
                   /\ pc' = [pc EXCEPT ![r] = FirstOf(p)]
              ELSE /\ phase' = [phase EXCEPT ![r] = "raised"]
                   /\ UNCHANGED <<attempt, plan, result, pc>>
      BY <1>11 DEF Revise, FirstOf
    <2>2. CASE Valid(p)
      <3>1. p \in Plan
        BY DagAssumption DEF DagAssumption
      <3>2. UNCHANGED <<cache, versions, synthesis, accepted>> /\ Reserve(r)
        BY <1>11 DEF Revise, AsksReviewer
      <3>3. plan'[r] = p /\ pc'[r] = FirstOf(p) /\ attempt'[r] = attempt[r] + 1
            /\ phase'[r] = "execute"
        BY <2>1, <2>2, <1>s DEF Shape
      <3>4. \A q \in Run \ {r} : Same(q)
        BY <2>1, <2>2, <3>2, <1>b, <1>s DEF Same, Shape
      <3> QED  BY <2>2, <3>1, <3>3, <3>4, RoundBegins DEF GoesForward, BeginsRound
    <2>3. CASE ~Valid(p)
      <3>1. Ends("revise", "raised")
        BY <2>1, <2>3, <1>11, <1>8
      <3> QED  BY <3>1, <1>1, <1>9, StageIs
    <2> QED  BY <2>2, <2>3
  <1>12. CASE Unwind(r) \/ UnwindEnds(r) \/ SynthesisFails(r) \/ ReviewFails(r) \/ (Begin(r) /\ ~Valid(plan[r]))
    BY <1>12, <1>1, <1>2, <1>3, <1>6, <1>7, <1>9, StageIs
  <1>13. CASE Synthesize(r) \/ Critique(r)
    BY <1>13, <1>1, <1>4, <1>5, <1>9, StageIs
  <1> QED  BY <1>10, <1>11, <1>12, <1>13 DEF RunSteps

\* A run that has not begun is in no round.
RunsAreFresh == \A r \in Run : phase[r] = "idle" => attempt[r] = 0

ProgressInv == RunsAreFresh /\ \A r \in Run : NothingIsOverlooked(r)

\* Each step is of one run, which it takes forward.
LEMMA StepForward ==
  ASSUME DagInv, ProgressInv, [Next]_vars
  PROVE  /\ RunsGoForward \/ UNCHANGED vars
         /\ \A r \in Run : NothingIsOverlooked(r)'
  <1>1. ASSUME NEW r \in Run, NothingIsOverlooked(r), Same(r)  PROVE NothingIsOverlooked(r)'
    BY <1>1 DEF NothingIsOverlooked, Same, Valid, HasLevels
  <1>2. ASSUME NEW r \in Run, GoesForward(r), \A q \in Run \ {r} : Same(q), NothingIsOverlooked(r)'
        PROVE  RunsGoForward /\ \A q \in Run : NothingIsOverlooked(q)'
    BY <1>1, <1>2 DEF RunsGoForward, ProgressInv
  <1>3. ASSUME NEW r \in Run, RunSteps(r)
        PROVE  RunsGoForward /\ \A q \in Run : NothingIsOverlooked(q)'
    <2>1. NothingIsOverlooked(r) /\ (phase[r] = "idle" => attempt[r] = 0)
      BY DEF ProgressInv, RunsAreFresh
    <2>2. GoesForward(r) /\ (\A q \in Run \ {r} : Same(q)) /\ NothingIsOverlooked(r)'
      BY <1>3, <2>1, CollectForward, RunForward
    <2> QED  BY <2>2, <1>2
  <1>4. ASSUME NEW r \in Run, NEW n \in Node, NodeSteps(r, n), ~NodeCalls(r, n)
        PROVE  RunsGoForward /\ \A q \in Run : NothingIsOverlooked(q)'
    <2>1. PICK b : Advances(r, n, b)
      BY <1>4, NodeAdvances DEF NodeSteps
    <2>2. NodesGoOn(r) /\ NothingIsOverlooked(r)'
      BY <2>1, AdvanceForward DEF ProgressInv
    <2> QED  BY <2>1, <2>2, <1>2 DEF Advances, GoesForward
  <1>5. ASSUME NEW r \in Run, StaysIn(r), pc'[r] = pc[r], Spends(r), \A q \in Run \ {r} : Same(q)
        PROVE  RunsGoForward /\ \A q \in Run : NothingIsOverlooked(q)'
    <2>1. phase'[r] = phase[r] /\ plan'[r] = plan[r] /\ pc'[r] = pc[r] /\ NothingIsOverlooked(r)
      BY <1>5 DEF ProgressInv, StaysIn
    <2>2. NothingIsOverlooked(r)'
      BY <2>1 DEF NothingIsOverlooked, Valid, HasLevels
    <2> QED  BY <2>2, <1>2, <1>5 DEF GoesForward
  <1>6. ASSUME UNCHANGED vars  PROVE \A q \in Run : NothingIsOverlooked(q)'
    BY <1>1, <1>6 DEF ProgressInv, vars, roundVars, nodeVars, budgetVars, Same
  <1>7. ASSUME NEW r \in Run, NEW n \in Node, NodeCalls(r, n)
        PROVE  /\ RunsGoForward \/ UNCHANGED vars
               /\ \A q \in Run : NothingIsOverlooked(q)'
    <2>1. UNCHANGED <<phase, attempt, plan, pc, result, cache, versions, synthesis, accepted>>
          /\ UNCHANGED capacityVars
      BY <1>7 DEF NodeCalls, roundVars, nodeVars
    <2>s. Shape /\ exhausted[r] \in BOOLEAN /\ calls[r] \in Nat
      BY DEF DagInv, RunGood, RunTypes
    <2>2. CASE Reserve(r) \/ (ReserveFails(r) /\ ~exhausted[r])
      <3>1. StaysIn(r) /\ pc'[r] = pc[r]
        BY <2>1 DEF StaysIn
      <3>2. \/ calls'[r] = calls[r] + 1 /\ exhausted'[r] = exhausted[r] /\ cache'[r] = cache[r]
            \/ calls'[r] = calls[r] /\ ~exhausted[r] /\ exhausted'[r] /\ cache'[r] = cache[r]
        BY <2>1, <2>2, <2>s DEF Reserve, ReserveFails, Shape
      <3>3. \A q \in Run \ {r} : Same(q)
        BY <2>1, <2>2, <2>s DEF Reserve, ReserveFails, Shape, Same
      <3>4. Spends(r)
        BY <3>1, <3>2 DEF Spends
      <3> QED  BY <3>1, <3>3, <3>4, <1>5
    <2>3. CASE ReserveFails(r) /\ exhausted[r]
      <3>1. exhausted' = exhausted /\ calls' = calls
        BY <2>3, <2>s DEF ReserveFails, Shape
      <3>2. UNCHANGED vars
        BY <2>1, <3>1 DEF vars, roundVars, nodeVars, budgetVars
      <3> QED  BY <3>2, <1>6
    <2> QED  BY <1>7, <2>s, <2>2, <2>3 DEF NodeCalls
  <1>8. ASSUME NEW r \in Run, NEW n \in Node, EntryExpires(r, n)
        PROVE  RunsGoForward /\ \A q \in Run : NothingIsOverlooked(q)'
    <2>s. Shape
      BY DEF DagInv
    <2>1. /\ UNCHANGED <<phase, attempt, plan, pc, result, versions, synthesis, accepted, calls, exhausted>>
          /\ cache[r][n] # NoResult /\ cache' = [cache EXCEPT ![r][n] = NoResult]
      BY <1>8 DEF EntryExpires, roundVars, budgetVars
    <2>2. cache'[r] = [cache[r] EXCEPT ![n] = NoResult] /\ \A q \in Run \ {r} : cache'[q] = cache[q]
      BY <2>s, <2>1 DEF Shape
    <2>3. StaysIn(r) /\ pc'[r] = pc[r] /\ \A q \in Run \ {r} : Same(q)
      BY <2>1, <2>2 DEF StaysIn, Same
    <2>4. Spends(r)
      BY <2>1, <2>2, <2>3 DEF Spends
    <2> QED  BY <2>3, <2>4, <1>5
  <1> QED  BY <1>3, <1>4, <1>6, <1>7, <1>8 DEF Next

\* The scheduler overlooks nothing, in any state.
LEMMA ProgressInvariant == Spec => []ProgressInv
  <1>1. Init => ProgressInv
    BY DEF Init, ProgressInv, RunsAreFresh, NothingIsOverlooked
  <1>2. DagInv /\ DagInv' /\ ProgressInv /\ [Next]_vars => ProgressInv'
    <2> SUFFICES ASSUME DagInv, DagInv', ProgressInv, [Next]_vars  PROVE RunsAreFresh'
      BY StepForward DEF ProgressInv
    <2>1. CASE UNCHANGED vars
      BY <2>1 DEF ProgressInv, RunsAreFresh, vars, roundVars
    <2>2. CASE RunsGoForward
      <3>1. PICK r \in Run : GoesForward(r) /\ \A q \in Run \ {r} : Same(q)
        BY <2>2 DEF RunsGoForward
      <3>2. phase'[r] = "idle" => phase[r] = "idle" /\ attempt'[r] = attempt[r]
        <4>1. CASE BeginsRound(r)
          BY <4>1 DEF BeginsRound
        <4>2. CASE GoesOn(r)
          <5>1. phase[r] \in PhaseState
            BY DEF DagInv, RunGood, RunTypes
          <5>2. Stage(phase[r]) \in Nat
            BY <5>1, StageIs DEF PhaseState, Ended
          <5> QED  BY <4>2, <5>2, StageIs DEF GoesOn
        <4>3. CASE NodesGoOn(r) \/ Spends(r)
          BY <4>3 DEF NodesGoOn, Spends, StaysIn
        <4> QED  BY <3>1, <4>1, <4>2, <4>3 DEF GoesForward
      <3> QED  BY <3>1, <3>2 DEF ProgressInv, RunsAreFresh, Same
    <2> QED  BY <2>1, <2>2, StepForward
  <1> QED  BY <1>1, <1>2, DagInvariant, PTL DEF Spec

\* Workers that are all gone leave all slots.
LEMMA SomeoneHolds ==
  ASSUME CapacityInv, NEW t \in Tenant
  PROVE  /\ free[t] = 0 => WorkersOf(t, {"running", "waitGlobal"}) # {}
         /\ freeGlobal = 0 => Workers({"running"}) # {}
  <1>1. /\ free[t] + CountOf(t, {"running", "waitGlobal"}) = per_tenant
        /\ freeGlobal + Count({"running"}) = total
        /\ per_tenant # 0 /\ total # 0
    BY DagAssumption DEF CapacityInv, CountersAreExact, DagAssumption
  <1>2. Cardinality({}) = 0
    BY FS_EmptySet
  <1> QED  BY <1>1, <1>2 DEF Count, CountOf

\* Deadlock freedom of run_ready and DagWorkerCapacity, for any plans without a cycle and any
\* limits: a round that goes on has a coroutine that it waits for, and whoever waits for a slot
\* waits for a worker that has it and is itself further on.
THEOREM RoundsNeverStall == Spec => []RoundsCannotStall
  <1>1. DagInv /\ ProgressInv => RoundsCannotStall
    <2> SUFFICES ASSUME DagInv, ProgressInv  PROVE RoundsCannotStall
      OBVIOUS
    <2>1. ASSUME NEW r \in Run, phase[r] = "execute",
                 \A n \in plan[r].tasks : pc[r][n] \notin Pending \cup {"finished", "error"}
          PROVE  FALSE
      <3>1. /\ pc[r] \in [Node -> PcState] /\ plan[r] \in Plan
            /\ Valid(plan[r])
            /\ \E n \in plan[r].tasks : pc[r][n] # "collected"
            /\ \A n \in plan[r].tasks :
                 pc[r][n] = "none" => \E d \in plan[r].deps[n] : pc[r][d] # "collected"
        BY <2>1 DEF DagInv, RunGood, RunTypes, ProgressInv, NothingIsOverlooked
      <3>2. \A n \in plan[r].tasks : pc[r][n] \in {"none", "collected"}
        BY <2>1, <3>1 DEF Plan, PcState
      <3> DEFINE rest == {n \in plan[r].tasks : pc[r][n] = "none"}
      <3>3. rest # {} /\ rest \in SUBSET plan[r].tasks
        BY <3>1, <3>2
      <3>4. PICK n \in rest : plan[r].deps[n] \cap rest = {}
        BY <3>1, <3>3 DEF Valid, HasLevels
      <3>5. plan[r].deps[n] \subseteq plan[r].tasks
        BY <3>1, <3>4 DEF Valid
      <3> QED  BY <3>1, <3>2, <3>4, <3>5
    <2>2. ASSUME NEW r \in Run, NEW n \in Node, free[tenant[r]] = 0
          PROVE  \E q \in Run, m \in Node : tenant[q] = tenant[r] /\ pc[q][m] \in {"waitGlobal", "running"}
      <3>1. WorkersOf(tenant[r], {"running", "waitGlobal"}) # {}
        BY <2>2, SomeoneHolds DEF DagInv, Tenant
      <3> QED  BY <3>1 DEF WorkersOf
    <2>3. ASSUME NEW r \in Run, NEW n \in Node, freeGlobal = 0
          PROVE  \E q \in Run, m \in Node : pc[q][m] = "running"
      <3>1. Workers({"running"}) # {}
        BY <2>3, SomeoneHolds DEF DagInv, Tenant
      <3> QED  BY <3>1 DEF Workers
    <2> QED  BY <2>1, <2>2, <2>3 DEF RoundsCannotStall
  <1> QED  BY <1>1, DagInvariant, ProgressInvariant, PTL

\* No run goes round in circles: a step takes one run to a later round, a later stage of its
\* round or a coroutine of it to a later place, or spends a call or a cached result, and leaves
\* the other runs alone.  Rounds, stages, places and calls are bounded (BudgetsFailClosed), so
\* that a run over finitely many tasks takes finitely many steps.
THEOREM RunsOnlyGoForward == Spec => [][RunsGoForward]_vars
  <1>1. DagInv /\ ProgressInv /\ [Next]_vars => [RunsGoForward]_vars
    BY StepForward
  <1> QED  BY <1>1, DagInvariant, ProgressInvariant, PTL DEF Spec
=============================================================================
