---------------------------- MODULE MarketBridge ----------------------------
(***************************************************************************)
(* One binding of the QMT market bridge: the server that pairs, authorises *)
(* and stores (QmtBridgeRepository), the worker that reads the market and  *)
(* uploads batches from its SQLite outbox (BridgeWorker), and the requests *)
(* between them, which may be lost, answered in vain or handled late.      *)
(*                                                                         *)
(* A batch is known by its place in the order it was made.                 *)
(***************************************************************************)
EXTENDS Naturals, Sequences, FiniteSets

CONSTANTS
  Keys,        \* identities of facts: asset and time of observation
  Values,      \* what may have been observed
  None,        \* no fact
  ObservedAt,  \* the time of each identity
  Payloads,    \* [kind, facts, latest, valid]: what a batch may carry, the time
               \* of its newest quote, and whether validate accepts it: "always",
               \* "never", or only "later" than a collection time in the future
  Readings,    \* sequences of payloads: what one reading of the source yields
  MaxBatches,  \* bound: batches made
  MaxTokens,   \* bound: credentials issued
  MaxLate      \* bound: requests on the way that nobody waits for

ASSUME NoneAssumption == None \notin Values
ASSUME TimeAssumption == ObservedAt \in [Keys -> Nat \ {0}]
ASSUME PayloadAssumption ==
  \A p \in Payloads :
    /\ p.kind \in {"quote", "bar", "daily_status"}
    /\ p.valid \in {"always", "later", "never"}
    /\ DOMAIN p.facts \subseteq Keys
    /\ \A k \in DOMAIN p.facts : p.facts[k] \in Values
    /\ p.kind = "quote" =>
         /\ \E k \in DOMAIN p.facts : p.latest = ObservedAt[k]
         /\ \A k \in DOMAIN p.facts : ObservedAt[k] <= p.latest
ASSUME ReadingAssumption == Readings \subseteq Seq(Payloads) \ {<<>>}
ASSUME LimitsAssumption == MaxBatches \in Nat /\ MaxTokens \in Nat /\ MaxLate \in Nat

VARIABLES
  \* the binding
  pairing,   \* a pairing code is open
  token,     \* the credential that is accepted, 0 for none
  provider,  \* its market data source: none yet, active or inactive
  enabled, revoked,
  \* what the server stored
  received,  \* batches with a receipt
  facts,     \* quotes and bars
  newest,    \* last_observed_at
  \* the Agent
  saved,     \* the credential in bridge.json
  used,      \* the credential the running worker has loaded
  paused,    \* the file PAUSE_MARKET
  pc,
  made,      \* the payload of every batch made
  outbox,    \* batches in the outbox, oldest first
  issued,    \* credentials issued so far
  net        \* uploads on the way

binding == <<pairing, token, provider, enabled, revoked>>
archive == <<received, facts, newest>>
agent == <<saved, used, paused, pc, made, outbox>>
vars == <<binding, archive, agent, issued, net>>

PCs == {"off", "plan", "collect", "send", "wait", "receipt"}
Tokens == 0..MaxTokens
Requests == [token : Tokens, batch : 1..MaxBatches, authed : BOOLEAN, late : BOOLEAN]

\* The row that create makes, and an Agent that was never paired.
Init ==
  /\ pairing = TRUE /\ token = 0 /\ provider = "none"
  /\ enabled = FALSE /\ revoked = FALSE
  /\ received = {} /\ facts = [k \in Keys |-> None] /\ newest = 0
  /\ saved = 0 /\ used = 0 /\ paused = FALSE /\ pc = "off"
  /\ made = <<>> /\ outbox = <<>>
  /\ issued = 0 /\ net = {}

----------------------------------------------------------------------------
\* Pairing and control.

\* pair: the code is used up although the answer may not reach bridge.json.
Pair ==
  /\ pairing /\ ~revoked
  /\ issued < MaxTokens
  /\ issued' = issued + 1
  /\ token' = issued'
  /\ pairing' = FALSE
  /\ saved' \in {saved, issued'}
  /\ UNCHANGED <<provider, enabled, revoked, archive, used, paused, pc, made, outbox, net>>

CodeExpires ==
  /\ pairing
  /\ pairing' = FALSE
  /\ UNCHANGED <<token, provider, enabled, revoked, archive, agent, issued, net>>

\* After 90 days authenticate refuses the token.
TokenExpires ==
  /\ token # 0
  /\ token' = 0
  /\ UNCHANGED <<pairing, provider, enabled, revoked, archive, agent, issued, net>>

Approve ==
  /\ ~revoked
  /\ provider \in {"none", "active"}
  /\ provider' = "active"
  /\ enabled' = TRUE
  /\ UNCHANGED <<pairing, token, revoked, archive, agent, issued, net>>

Resume ==
  /\ ~revoked
  /\ provider # "none"
  /\ enabled' = TRUE
  /\ UNCHANGED <<pairing, token, provider, revoked, archive, agent, issued, net>>

Pause ==
  /\ ~revoked
  /\ enabled' = FALSE
  /\ UNCHANGED <<pairing, token, provider, revoked, archive, agent, issued, net>>

Revoke ==
  /\ enabled' = FALSE /\ revoked' = TRUE
  /\ token' = 0 /\ pairing' = FALSE
  /\ UNCHANGED <<provider, archive, agent, issued, net>>

\* repair switches collection off and asks for a new pairing.
Repair ==
  /\ ~revoked
  /\ enabled' = FALSE
  /\ token' = 0 /\ pairing' = TRUE
  /\ UNCHANGED <<provider, revoked, archive, agent, issued, net>>

\* The administration of data sources, outside the bridge.
SwitchProvider ==
  /\ provider # "none"
  /\ provider' = IF provider = "active" THEN "inactive" ELSE "active"
  /\ UNCHANGED <<pairing, token, enabled, revoked, archive, agent, issued, net>>

----------------------------------------------------------------------------
\* The machine requests.

Authentic(t) == t # 0 /\ t = token /\ ~revoked

\* What plan tells the worker and ingest asks again.
Open == enabled /\ ~revoked /\ provider = "active"

Agrees(p) == \A k \in DOMAIN p.facts : facts[k] \in {None, p.facts[k]}

\* The clock of the server decides about a batch that is valid later.
Sound(i) == made[i].valid # "never"

\* Mutants: ingest relies on the authentication; a batch that was stored is
\* refused as a duplicate; what get_or_create found is not compared.
Accepts_Unchecked(i) == Sound(i) /\ (i \in received \/ Agrees(made[i]))
Accepts_Once(i)      == Open /\ Sound(i) /\ i \notin received /\ Agrees(made[i])
Accepts_Trusting(i)  == Open /\ Sound(i)

\* A batch that may be answered with a receipt: the old one when it has one.
Accepts(i) == Open /\ Sound(i) /\ (i \in received \/ Agrees(made[i]))
TooEarly(i) == made[i].valid = "later" /\ i \notin received

\* get_or_create of every sample.
Merged(p) ==
  [k \in Keys |-> IF k \in DOMAIN p.facts /\ facts[k] = None THEN p.facts[k] ELSE facts[k]]

\* last_observed_at.  Mutant: the last upload wins.
Newest_Last(p) == IF p.kind = "quote" THEN p.latest ELSE newest
Newest(p) == IF p.kind = "quote" /\ p.latest > newest THEN p.latest ELSE newest

\* A request is over.  Only a worker that still waits can learn how.
Answer(r, next) ==
  /\ net' = net \ {r}
  /\ pc' \in (IF r.late THEN {pc} ELSE {pc, next})
  /\ UNCHANGED <<binding, saved, used, paused, made, outbox, issued>>

Authenticate(r) ==
  /\ ~r.authed /\ Authentic(r.token)
  /\ net' = (net \ {r}) \cup {[r EXCEPT !.authed = TRUE]}
  /\ UNCHANGED <<binding, archive, agent, issued>>

\* A batch that has its receipt gets the same receipt again.
Repeat(r) ==
  /\ r.authed /\ Accepts(r.batch)
  /\ r.batch \in received
  /\ Answer(r, "receipt")
  /\ UNCHANGED archive

\* The batch, its facts and its receipt in one transaction.
Ingest(r) ==
  /\ r.authed /\ Accepts(r.batch)
  /\ r.batch \notin received
  /\ received' = received \cup {r.batch}
  /\ facts' = Merged(made[r.batch])
  /\ newest' = Newest(made[r.batch])
  /\ Answer(r, "receipt")

\* Mutant: the worker takes any answer for an acknowledgement.
AfterRefusal_Acknowledged == "receipt"

\* 403, 409 or 400: the worker keeps the batch.
AfterRefusal == "plan"
Refuse(r) ==
  /\ IF r.authed THEN ~Accepts(r.batch) \/ TooEarly(r.batch) ELSE ~Authentic(r.token)
  /\ Answer(r, AfterRefusal)
  /\ UNCHANGED archive

Lose(r) ==
  /\ net' = net \ {r}
  /\ UNCHANGED <<binding, archive, agent, issued>>

----------------------------------------------------------------------------
\* The worker.

\* The request that is waited for is lost, or stays on the way.
Abandoned(r) == [r EXCEPT !.late = TRUE]
LateRequests == {r \in net : r.late}
Abandon ==
  \/ net' = LateRequests
  \/ /\ Cardinality(LateRequests) < MaxLate
     /\ net' = {Abandoned(r) : r \in net}

\* BridgeClient.load and the lease on the state directory.
Start ==
  /\ pc = "off" /\ saved # 0
  /\ used' = saved
  /\ pc' = "plan"
  /\ UNCHANGED <<binding, archive, saved, paused, made, outbox, issued, net>>

\* The backlog goes first.
AskPlan ==
  /\ pc = "plan"
  /\ Authentic(used) /\ Open /\ ~paused
  /\ pc' = IF outbox = <<>> THEN "collect" ELSE "send"
  /\ UNCHANGED <<binding, archive, saved, used, paused, made, outbox, issued, net>>

NewBatches(s) == [i \in DOMAIN s |-> Len(made) + i]

\* All batches of a reading enter the outbox in one transaction.
Collect ==
  /\ pc = "collect"
  /\ \E s \in Readings :
       /\ Len(made) + Len(s) <= MaxBatches
       /\ made' = made \o s
       /\ outbox' = outbox \o NewBatches(s)
  /\ pc' = "send"
  /\ UNCHANGED <<binding, archive, saved, used, paused, issued, net>>

\* The source had nothing, or raised.
CollectNothing ==
  /\ pc = "collect"
  /\ pc' = "plan"
  /\ UNCHANGED <<binding, archive, saved, used, paused, made, outbox, issued, net>>

Upload == [token |-> used, batch |-> Head(outbox), authed |-> FALSE, late |-> FALSE]

Send ==
  /\ pc = "send"
  /\ net' = net \cup {Upload}
  /\ pc' = "wait"
  /\ UNCHANGED <<binding, archive, saved, used, paused, made, outbox, issued>>

TimeOut ==
  /\ pc = "wait"
  /\ pc' = "plan"
  /\ Abandon
  /\ UNCHANGED <<binding, archive, saved, used, paused, made, outbox, issued>>

Delete ==
  /\ pc = "receipt"
  /\ outbox' = Tail(outbox)
  /\ pc' = "plan"
  /\ UNCHANGED <<binding, archive, saved, used, paused, made, issued, net>>

\* The process ends, at any step.
Crash ==
  /\ pc # "off"
  /\ pc' = "off" /\ used' = 0
  /\ Abandon
  /\ UNCHANGED <<binding, archive, saved, paused, made, outbox, issued>>

SwitchMarket ==
  /\ paused' = ~paused
  /\ UNCHANGED <<binding, archive, saved, used, pc, made, outbox, issued, net>>

----------------------------------------------------------------------------
Control ==
  \/ Pair \/ CodeExpires \/ TokenExpires
  \/ Approve \/ Resume \/ Pause \/ Revoke \/ Repair \/ SwitchProvider

Server == \E r \in net : Authenticate(r) \/ Repeat(r) \/ Ingest(r) \/ Refuse(r) \/ Lose(r)

Worker ==
  \/ Start \/ AskPlan \/ Collect \/ CollectNothing \/ Send \/ TimeOut \/ Delete
  \/ Crash \/ SwitchMarket

Next == Control \/ Server \/ Worker

Spec == Init /\ [][Next]_vars

\* The worker goes on, and what it waits for is not lost again and again.
Awaited(A(_)) == \E r \in net : ~r.late /\ A(r)
Heard(r) == (Repeat(r) \/ Ingest(r)) /\ pc' = "receipt"
Fairness ==
  /\ WF_vars(AskPlan) /\ WF_vars(Send) /\ WF_vars(TimeOut) /\ WF_vars(Delete)
  /\ SF_vars(Awaited(Authenticate)) /\ SF_vars(Awaited(Heard))

FairSpec == Spec /\ Fairness

----------------------------------------------------------------------------
\* Types.
TypeOK ==
  /\ pairing \in BOOLEAN /\ token \in 0..issued
  /\ provider \in {"none", "active", "inactive"}
  /\ enabled \in BOOLEAN /\ revoked \in BOOLEAN
  /\ made \in Seq(Payloads) /\ Len(made) <= MaxBatches
  /\ received \subseteq 1..Len(made)
  /\ facts \in [Keys -> Values \cup {None}] /\ newest \in Nat
  /\ issued \in Tokens /\ saved \in 0..issued /\ used \in 0..issued
  /\ paused \in BOOLEAN /\ pc \in PCs
  /\ outbox \in Seq(1..Len(made))
  /\ net \subseteq Requests

\* "remove only after an exact durable receipt": a batch that was made is in
\* the outbox or stored, whatever is lost and whenever the worker dies.
NoBatchLost ==
  \A i \in 1..Len(made) : i \in received \/ \E j \in DOMAIN outbox : outbox[j] = i

\* The stored facts are those of the stored batches: none is missing, changed
\* or left over from a batch that was refused.
FactsMatchReceipts ==
  \A k \in Keys :
    /\ \A i \in received : k \in DOMAIN made[i].facts => facts[k] = made[i].facts[k]
    /\ facts[k] # None => \E i \in received : k \in DOMAIN made[i].facts

\* Freshness speaks of the newest quote that is stored: an old batch or a
\* repeated one does not turn it back, and bars do not touch it.
FreshnessHonest ==
  LET seen == {ObservedAt[k] : k \in UNION {DOMAIN made[i].facts :
                                            i \in {j \in received : made[j].kind = "quote"}}}
  IN  (\A t \in seen : t <= newest) /\ newest \in seen \cup {0}

\* Batches are stored in the order they were made, once and as a whole, only
\* while collection is on, and never again after the binding was revoked.
On == enabled /\ ~revoked /\ provider = "active"
Promise == INSTANCE BridgePromise WITH stored <- received, on <- On
KeepsBridgePromise == Promise!Spec

\* Once the binding stays open, the source active and the worker up with the
\* right credential, every batch leaves the outbox, unless the server refuses
\* the content of the first one for ever.
Stable ==
  /\ enabled /\ provider = "active" /\ ~revoked /\ ~paused
  /\ token # 0 /\ used = token
Blocked ==
  /\ outbox # <<>> /\ Head(outbox) \notin received
  /\ Sound(Head(outbox)) => ~Agrees(made[Head(outbox)])
Queued(i) == \E j \in DOMAIN outbox : outbox[j] = i
OutboxDrains ==
  <>[]Stable => \A i \in 1..MaxBatches : Queued(i) ~> (~Queued(i) \/ Blocked)
=============================================================================
