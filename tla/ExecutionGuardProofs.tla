------------------------ MODULE ExecutionGuardProofs ------------------------
(***************************************************************************)
(* What the execution guard guarantees for every number of users,          *)
(* executions and slots, while leases outlive their executions.            *)
(***************************************************************************)
EXTENDS ExecutionGuard, FiniteSetTheorems, TLAPS

\* Every step keeps the types.
LEMMA GuardTypeStep ==
  ASSUME TypeOK, [Next]_vars
  PROVE  TypeOK'
<1> USE DEF TypeOK, Keys, Slots, Steps, Goto
<1>1. ASSUME NEW x \in Executions, NEW u \in Users, Request(x, u) PROVE TypeOK'
  BY <1>1, ConcurrencyAssumption DEF Request
<1>2. ASSUME NEW x \in Executions, AddUser(x) PROVE TypeOK'
  BY <1>2 DEF AddUser, Add, Key
<1>3. ASSUME NEW x \in Executions, AddSlot(x) PROVE TypeOK'
  BY <1>3, ConcurrencyAssumption DEF AddSlot, Add, Key
<1>4. ASSUME NEW x \in Executions, AddRaises(x) PROVE TypeOK'
  BY <1>4 DEF AddRaises, Add, Key
<1>5. ASSUME NEW x \in Executions, Finish(x) \/ ReleaseRaises(x) \/ Crash(x) PROVE TypeOK'
  BY <1>5 DEF Finish, ReleaseRaises, Crash, NextRelease
<1>6. ASSUME NEW x \in Executions, CheckOwner(x) \/ Delete(x) PROVE TypeOK'
  BY <1>6 DEF CheckOwner, Delete, NextRelease, Key
<1>7. ASSUME NEW k \in Keys, Expire(k) PROVE TypeOK'
  BY <1>7 DEF Expire
<1>8. ASSUME UNCHANGED vars PROVE TypeOK'
  BY <1>8 DEF vars
<1> QED
  BY <1>1, <1>2, <1>3, <1>4, <1>5, <1>6, <1>7, <1>8 DEF Next

\* Type correctness of the guard.
THEOREM GuardTypeCorrect == Spec => []TypeOK
<1>1. Init => TypeOK
  BY ConcurrencyAssumption DEF Init, TypeOK, Keys, Slots, Steps
<1> QED
  BY <1>1, GuardTypeStep, PTL DEF Spec

\* A user key and a slot key are different keys.
LEMMA KeysDisjoint == ASSUME NEW u \in Users, NEW s \in Slots PROVE u # s
BY KeysAssumption DEF Slots

\* An add takes a free key, hence no lease of anybody else's.
LEMMA AddKeepsLeases ==
  ASSUME TypeOK, NEW x \in Executions, Add(x)
  PROVE  /\ lease'[Key(x)] = x
         /\ \A k \in Keys : lease[k] \in Executions => lease'[k] = lease[k]
BY FreeAssumption DEF Add, Key, TypeOK, Keys, Slots

\* While leases outlive executions, every step leaves each execution its own leases.
LEMMA LeasesHeldStep ==
  ASSUME LeaseOutlives, TypeOK, LeasesHeld, [Next]_vars
  PROVE  LeasesHeld'
<1> USE DEF TypeOK, Goto
<1>1. ASSUME NEW x \in Executions, NEW u \in Users, Request(x, u) PROVE LeasesHeld'
  BY <1>1 DEF Request, LeasesHeld
<1>2. ASSUME NEW x \in Executions, AddUser(x) PROVE LeasesHeld'
  <2>1. CASE Add(x) /\ Goto(x, "addSlot")
    BY <1>2, <2>1, AddKeepsLeases DEF AddUser, Key, Keys, LeasesHeld
  <2>2. CASE Goto(x, "idle") /\ UNCHANGED lease
    BY <1>2, <2>2 DEF AddUser, LeasesHeld
  <2> QED
    BY <1>2, <2>1, <2>2 DEF AddUser
<1>3. ASSUME NEW x \in Executions, AddSlot(x) PROVE LeasesHeld'
  <2>1. CASE Add(x)
    <3>1. /\ pc[x] = "addSlot" /\ Key(x) = slot[x] /\ Key(x) \in Keys
          /\ lease[Key(x)] = Free /\ lease'[Key(x)] = x
      BY <1>3, <2>1, AddKeepsLeases DEF AddSlot, Add, Key, Keys
    <3>2. Goto(x, "run") /\ UNCHANGED <<user, slot>>
      BY <1>3, <3>1, FreeAssumption DEF AddSlot
    <3> QED
      BY <2>1, <3>1, <3>2, AddKeepsLeases DEF Keys, LeasesHeld
  <2>2. CASE ~Add(x)
    <3>1. /\ pc[x] = "addSlot" /\ UNCHANGED <<lease, user>>
          /\ pc' = pc \/ pc' = [pc EXCEPT ![x] = "checkUser"]
          /\ \A y \in Executions : y # x => slot'[y] = slot[y]
      BY <1>3, <2>2 DEF AddSlot
    <3> QED
      BY <3>1 DEF LeasesHeld
  <2> QED
    BY <2>1, <2>2
<1>4. ASSUME NEW x \in Executions, AddRaises(x) PROVE LeasesHeld'
  <2>1. CASE Add(x)
    BY <1>4, <2>1, AddKeepsLeases DEF AddRaises, Keys, LeasesHeld
  <2>2. CASE UNCHANGED lease
    BY <1>4, <2>2 DEF AddRaises, LeasesHeld
  <2> QED
    BY <1>4, <2>1, <2>2 DEF AddRaises
<1>5. ASSUME NEW x \in Executions, Finish(x) \/ ReleaseRaises(x) \/ Crash(x) PROVE LeasesHeld'
  BY <1>5 DEF Finish, ReleaseRaises, Crash, NextRelease, LeasesHeld
<1>6. ASSUME NEW x \in Executions, CheckOwner(x) PROVE LeasesHeld'
  BY <1>6 DEF CheckOwner, OwnsKey, NextRelease, Key, LeasesHeld
<1>7. ASSUME NEW x \in Executions, Delete(x) PROVE LeasesHeld'
  BY <1>7, KeysDisjoint DEF Delete, NextRelease, Key, LeasesHeld
<1>8. ASSUME NEW k \in Keys, Expire(k) PROVE LeasesHeld'
  BY <1>8 DEF Expire, LeasesHeld
<1>9. ASSUME UNCHANGED vars PROVE LeasesHeld'
  BY <1>9 DEF vars, LeasesHeld
<1> QED
  BY <1>1, <1>2, <1>3, <1>4, <1>5, <1>6, <1>7, <1>8, <1>9 DEF Next

\* Two executions that run hold different keys, and slots are few.
LEMMA LeasesCap ==
  ASSUME TypeOK, LeasesHeld
  PROVE  ExecutionsCapped
<1>1. \A x, y \in Running : user[x] = user[y] \/ slot[x] = slot[y] => x = y
  BY DEF Running, LeasesHeld
<1> DEFINE f == [x \in Running |-> slot[x]]
<1>2. f \in Injection(Running, Slots)
  BY <1>1 DEF Injection, IsInjective, Running, TypeOK
<1>3. IsFiniteSet(Slots) /\ Cardinality(Slots) = MaxConcurrency
  BY FS_Interval, ConcurrencyAssumption DEF Slots
<1>4. Cardinality(Running) <= MaxConcurrency
  BY <1>2, <1>3, FS_Injection DEF ExistsInjection
<1> QED
  BY <1>1, <1>4 DEF ExecutionsCapped

\* While leases outlive executions, an execution that runs holds both its keys.
LEMMA LeasesAreHeld ==
  ASSUME LeaseOutlives PROVE Spec => []LeasesHeld
<1>1. Init => LeasesHeld
  BY DEF Init, LeasesHeld
<1>2. TypeOK /\ LeasesHeld /\ [Next]_vars => LeasesHeld'
  BY LeasesHeldStep
<1> QED
  BY <1>1, <1>2, GuardTypeCorrect, PTL DEF Spec

\* While no lease expires before its execution is over, no user has two Agents
\* executing and no more than max_concurrency execute, whatever cache calls fail.
\* The configuration does not guarantee the premise: a lease is kept 90 seconds, a
\* worker may execute for 120.
THEOREM GuardCaps ==
  ASSUME LeaseOutlives PROVE Spec => []ExecutionsCapped
<1>1. TypeOK /\ LeasesHeld => ExecutionsCapped
  BY LeasesCap
<1> QED
  BY <1>1, LeasesAreHeld, GuardTypeCorrect, PTL
=============================================================================
