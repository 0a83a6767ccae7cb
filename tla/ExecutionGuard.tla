--------------------------- MODULE ExecutionGuard ---------------------------
(***************************************************************************)
(* CacheTerminalAgentExecutionGuard: an Agent executes only while it holds *)
(* a cache lease for its user and one of the global slots.  Leases expire; *)
(* release is a get followed by a delete, and every cache call may fail.   *)
(***************************************************************************)
EXTENDS Integers, FiniteSets

CONSTANTS
  Users,           \* digests of the requesting users
  Executions,      \* tokens (uuid4), one per execution
  Free,            \* the key is not in the cache
  MaxConcurrency,  \* max_concurrency: the number of slots
  LeaseOutlives    \* TRUE when no lease expires before its execution is over

ASSUME ConcurrencyAssumption == MaxConcurrency \in Nat \ {0}
ASSUME FreeAssumption == Free \notin Executions
ASSUME KeysAssumption == Users \cap (1..MaxConcurrency) = {}
ASSUME OutlivesAssumption == LeaseOutlives \in BOOLEAN

VARIABLES
  lease,   \* the cache: a token or Free for every key
  pc,      \* where each execution is in acquire
  user,    \* its user
  slot     \* the slot it tries or holds

vars == <<lease, pc, user, slot>>

Slots == 1..MaxConcurrency
Keys  == Users \cup Slots
Steps == {"idle", "addUser", "addSlot", "run",
          "checkSlot", "deleteSlot", "checkUser", "deleteUser"}

TypeOK ==
  /\ lease \in [Keys -> Executions \cup {Free}]
  /\ pc \in [Executions -> Steps]
  /\ user \in [Executions -> Users]
  /\ slot \in [Executions -> Slots]

Init ==
  /\ lease = [k \in Keys |-> Free]
  /\ pc = [x \in Executions |-> "idle"]
  /\ user \in [Executions -> Users]
  /\ slot = [x \in Executions |-> 1]

Goto(x, step) == pc' = [pc EXCEPT ![x] = step]

\* The key the execution is working on.
Key(x) == IF pc[x] \in {"addUser", "checkUser", "deleteUser"} THEN user[x] ELSE slot[x]

\* cache.add: atomic set-if-absent.
Add(x) == lease[Key(x)] = Free /\ lease' = [lease EXCEPT ![Key(x)] = x]

\* A token is fresh: the execution that used it last has left no lease.
Request(x, u) ==
  /\ pc[x] = "idle"
  /\ \A k \in Keys : lease[k] # x
  /\ user' = [user EXCEPT ![x] = u]
  /\ slot' = [slot EXCEPT ![x] = 1]
  /\ Goto(x, "addUser")
  /\ UNCHANGED lease

AddUser(x) ==
  /\ pc[x] = "addUser"
  /\ \/ Add(x) /\ Goto(x, "addSlot")
     \/ lease[user[x]] # Free /\ Goto(x, "idle") /\ UNCHANGED lease    \* busy
  /\ UNCHANGED <<user, slot>>

\* The slots are tried once, in order; without one the user lease is given back.
AddSlot(x) ==
  /\ pc[x] = "addSlot"
  /\ \/ Add(x) /\ Goto(x, "run") /\ UNCHANGED slot
     \/ /\ lease[slot[x]] # Free
        /\ IF slot[x] < MaxConcurrency
           THEN slot' = [slot EXCEPT ![x] = @ + 1] /\ UNCHANGED pc
           ELSE Goto(x, "checkUser") /\ UNCHANGED slot
        /\ UNCHANGED lease
  /\ UNCHANGED user

\* An add raises, before or after it took effect: only the user lease is
\* given back, a slot lease taken that way waits for its expiry.
AddRaises(x) ==
  /\ pc[x] \in {"addUser", "addSlot"}
  /\ Add(x) \/ UNCHANGED lease
  /\ Goto(x, "checkUser")
  /\ UNCHANGED <<user, slot>>

Finish(x) == pc[x] = "run" /\ Goto(x, "checkSlot") /\ UNCHANGED <<lease, user, slot>>

\* get and delete, two calls.  Mutant: the key is deleted whoever holds it.
OwnsKey_Unchecked(x) == TRUE
OwnsKey(x) == lease[Key(x)] = x

\* After the slot lease comes the user lease, then the execution is over.
NextRelease(x) == IF pc[x] \in {"checkSlot", "deleteSlot"} THEN "checkUser" ELSE "idle"

\* _release_if_owned, first call: cache.get.
CheckOwner(x) ==
  /\ pc[x] \in {"checkSlot", "checkUser"}
  /\ \/ OwnsKey(x) /\ Goto(x, IF pc[x] = "checkSlot" THEN "deleteSlot" ELSE "deleteUser")
     \/ ~OwnsKey(x) /\ Goto(x, NextRelease(x))
  /\ UNCHANGED <<lease, user, slot>>

\* Second call: cache.delete, whoever holds the key by now.
Delete(x) ==
  /\ pc[x] \in {"deleteSlot", "deleteUser"}
  /\ lease' = [lease EXCEPT ![Key(x)] = Free]
  /\ Goto(x, NextRelease(x))
  /\ UNCHANGED <<user, slot>>

\* Either call raises and is swallowed: the lease stays until it expires.
ReleaseRaises(x) ==
  /\ pc[x] \in {"checkSlot", "deleteSlot", "checkUser", "deleteUser"}
  /\ Goto(x, NextRelease(x))
  /\ UNCHANGED <<lease, user, slot>>

Crash(x) == pc[x] # "idle" /\ Goto(x, "idle") /\ UNCHANGED <<lease, user, slot>>

\* lease_timeout_seconds have passed.
Expire(k) ==
  /\ lease[k] # Free
  /\ LeaseOutlives => pc[lease[k]] = "idle"
  /\ lease' = [lease EXCEPT ![k] = Free]
  /\ UNCHANGED <<pc, user, slot>>

Next ==
  \/ \E x \in Executions :
       \/ \E u \in Users : Request(x, u)
       \/ AddUser(x) \/ AddSlot(x) \/ AddRaises(x) \/ Finish(x)
       \/ CheckOwner(x) \/ Delete(x) \/ ReleaseRaises(x) \/ Crash(x)
  \/ \E k \in Keys : Expire(k)

Spec == Init /\ [][Next]_vars

----------------------------------------------------------------------------
Running == {x \in Executions : pc[x] = "run"}

\* While leases outlive their executions, no user has two Agents executing and
\* no more than max_concurrency execute at all, whatever cache calls fail.
ExecutionsCapped ==
  /\ \A x, y \in Running : user[x] = user[y] => x = y
  /\ Cardinality(Running) <= MaxConcurrency

\* Why: the leases an execution believes it holds are its own.
LeasesHeld ==
  \A x \in Executions :
    /\ pc[x] \in {"addSlot", "run", "checkSlot", "deleteSlot", "deleteUser"} => lease[user[x]] = x
    /\ pc[x] \in {"run", "deleteSlot"} => lease[slot[x]] = x

\* An owner whose lease has expired does not delete the lease of the next one: not
\* so, as the key may change hands between the get and the delete.
OnlyOwnLeaseDeleted ==
  [][\A x \in Executions : Delete(x) => lease[Key(x)] \in {x, Free}]_vars
=============================================================================
