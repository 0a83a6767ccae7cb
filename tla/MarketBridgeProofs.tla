------------------------- MODULE MarketBridgeProofs -------------------------
(***************************************************************************)
(* The outbox holds the batches made last, the server has all older ones   *)
(* and at most the first of them, and every request on the way is about a  *)
(* batch up to that one.  Everything the bridge promises rests on this.    *)
(***************************************************************************)
EXTENDS MarketBridge, TLAPS, SequenceTheorems

\* The oldest batch that is not acknowledged.
First == Len(made) - Len(outbox) + 1

OutboxInv ==
  /\ Len(outbox) <= Len(made)
  /\ \A j \in 1..Len(outbox) : outbox[j] = First + j - 1
  /\ 1..First-1 \subseteq received /\ received \subseteq 1..First
  /\ pc \in {"send", "wait", "receipt"} => outbox # <<>>
  /\ pc = "receipt" => First \in received

\* At most one request is waited for, and it uploads the first batch.
NetInv ==
  /\ \A r \in net : r.batch \in 1..First /\ r.batch <= Len(made)
  /\ \A r \in net : ~r.late => pc = "wait" /\ r.batch = First
  /\ \A r, s \in net : ~r.late /\ ~s.late => r = s

BridgeInv == TypeOK /\ OutboxInv /\ NetInv

----------------------------------------------------------------------------
\* Steps that leave batches and requests alone.

LEMMA ControlKeeps == ASSUME BridgeInv, Control PROVE BridgeInv'
<1>1. UNCHANGED <<pc, made, outbox, net, received>> /\ UNCHANGED <<facts, newest, paused, used>>
  BY DEF Control, Pair, CodeExpires, TokenExpires, Approve, Resume, Pause, Revoke, Repair,
     SwitchProvider, archive, agent
<1>2. TypeOK'
  <2>1. issued \in Nat /\ MaxTokens \in Nat
    BY LimitsAssumption DEF BridgeInv, TypeOK, Tokens
  <2>2. /\ issued' \in 0..MaxTokens /\ issued <= issued'
        /\ token' \in 0..issued' /\ saved' \in 0..issued' /\ used' \in 0..issued'
    BY <1>1, <2>1 DEF Control, Pair, CodeExpires, TokenExpires, Approve, Resume, Pause, Revoke,
       Repair, SwitchProvider, archive, agent, BridgeInv, TypeOK, Tokens
  <2>3. /\ pairing' \in BOOLEAN /\ enabled' \in BOOLEAN /\ revoked' \in BOOLEAN
        /\ provider' \in {"none", "active", "inactive"}
    BY DEF Control, Pair, CodeExpires, TokenExpires, Approve, Resume, Pause, Revoke,
       Repair, SwitchProvider, archive, agent, BridgeInv, TypeOK
  <2> QED
    BY <1>1, <2>2, <2>3 DEF BridgeInv, TypeOK, Tokens
<1>3. OutboxInv' /\ NetInv'
  BY <1>1 DEF BridgeInv, OutboxInv, NetInv, First
<1> QED
  BY <1>2, <1>3 DEF BridgeInv

LEMMA QuietKeeps ==
  ASSUME BridgeInv, Start \/ AskPlan \/ CollectNothing \/ SwitchMarket PROVE BridgeInv'
<1>1. UNCHANGED <<binding, archive, made, outbox, net, issued, saved>>
  BY DEF Start, AskPlan, CollectNothing, SwitchMarket
<1>2. /\ used' \in 0..issued /\ paused' \in BOOLEAN
      /\ pc' \in PCs /\ (pc' # "receipt" \/ UNCHANGED pc)
      /\ pc' = pc \/ (pc # "wait" /\ pc' # "wait")
      /\ pc' \in {"send", "wait", "receipt"} => UNCHANGED pc \/ outbox # <<>>
  BY DEF Start, AskPlan, CollectNothing, SwitchMarket, BridgeInv, TypeOK, PCs
<1>3. TypeOK'
  BY <1>1, <1>2 DEF BridgeInv, TypeOK, binding, archive
<1>4. OutboxInv' /\ NetInv'
  BY <1>1, <1>2 DEF BridgeInv, OutboxInv, NetInv, First, archive
<1> QED
  BY <1>3, <1>4 DEF BridgeInv

----------------------------------------------------------------------------
\* Requests.

LEMMA RequestTypes ==
  ASSUME BridgeInv, NEW r \in net
  PROVE  /\ [r EXCEPT !.authed = TRUE] \in Requests
         /\ Abandoned(r) \in Requests /\ Abandoned(r).late /\ Abandoned(r).batch = r.batch
         /\ [r EXCEPT !.authed = TRUE].late = r.late
         /\ [r EXCEPT !.authed = TRUE].batch = r.batch
<1>1. r \in Requests
  BY DEF BridgeInv, TypeOK
<1> QED
  BY <1>1 DEF Requests, Abandoned

LEMMA RequestKeeps ==
  ASSUME BridgeInv, NEW r \in net, Authenticate(r) \/ Lose(r) PROVE BridgeInv'
<1>1. /\ UNCHANGED <<binding, archive, agent, issued>>
      /\ net' \subseteq (net \ {r}) \cup {[r EXCEPT !.authed = TRUE]}
  BY DEF Authenticate, Lose
<1>2. TypeOK'
  BY <1>1, RequestTypes DEF BridgeInv, TypeOK, binding, archive, agent
<1>3. OutboxInv'
  BY <1>1 DEF BridgeInv, OutboxInv, First, archive, agent
<1>4. NetInv'
  <2> DEFINE new == [r EXCEPT !.authed = TRUE]
  <2>1. new.late = r.late /\ new.batch = r.batch
    BY RequestTypes
  <2> HIDE DEF new
  <2>2. \A s \in net' : s \in net \ {r} \/ s = new
    BY <1>1 DEF new
  <2>3. ASSUME NEW s \in net' PROVE \E t \in net : t.late = s.late /\ t.batch = s.batch
    BY <2>1, <2>2
  <2>4. ASSUME NEW s \in net', NEW t \in net', ~s.late, ~t.late PROVE s = t
    BY <2>1, <2>2, <2>4 DEF BridgeInv, NetInv
  <2> QED
    BY <1>1, <2>3, <2>4 DEF BridgeInv, NetInv, First, agent
<1> QED
  BY <1>2, <1>3, <1>4 DEF BridgeInv

\* A batch on the way that is not stored yet is the first of the outbox.
LEMMA NextIsFirst ==
  ASSUME BridgeInv, NEW r \in net, r.batch \notin received
  PROVE  r.batch = First
<1>1. /\ r.batch \in 1..First /\ 1..First-1 \subseteq received
      /\ Len(made) \in Nat /\ Len(outbox) \in Nat
  BY DEF BridgeInv, TypeOK, OutboxInv, NetInv
<1> QED
  BY <1>1 DEF First

LEMMA StoreTypes ==
  ASSUME BridgeInv, NEW i \in 1..Len(made)
  PROVE  /\ Merged(made[i]) \in [Keys -> Values \cup {None}]
         /\ Newest(made[i]) \in Nat
<1>1. made[i] \in Payloads /\ DOMAIN made[i].facts \subseteq Keys
      /\ \A k \in DOMAIN made[i].facts : made[i].facts[k] \in Values
  BY PayloadAssumption DEF BridgeInv, TypeOK
<1>2. Merged(made[i]) \in [Keys -> Values \cup {None}]
  BY <1>1 DEF BridgeInv, TypeOK, Merged
<1>3. Newest(made[i]) \in Nat
  <2>1. CASE made[i].kind = "quote"
    <3>1. PICK k \in DOMAIN made[i].facts : made[i].latest = ObservedAt[k]
      BY <1>1, <2>1, PayloadAssumption
    <3> QED
      BY <1>1, <3>1, TimeAssumption DEF BridgeInv, TypeOK, Newest
  <2> QED
    BY <2>1 DEF BridgeInv, TypeOK, Newest
<1> QED
  BY <1>2, <1>3

LEMMA AnswerKeeps ==
  ASSUME BridgeInv, NEW r \in net, NEW next \in {"plan", "receipt"}, Answer(r, next),
         received' \in {received, received \cup {r.batch}},
         next = "receipt" => r.batch \in received',
         facts' \in [Keys -> Values \cup {None}], newest' \in Nat
  PROVE  BridgeInv'
<1>1. /\ net' = net \ {r} /\ pc' \in {pc, next} /\ (r.late => pc' = pc)
      /\ UNCHANGED <<binding, saved, used, paused, made, outbox, issued>>
  BY DEF Answer
<1>2. /\ r.batch \in 1..First /\ r.batch <= Len(made)
      /\ Len(made) \in Nat /\ Len(outbox) \in Nat
      /\ ~r.late => pc = "wait" /\ r.batch = First
      /\ r.late => pc' = pc
  BY <1>1 DEF BridgeInv, TypeOK, NetInv
<1>3. received' \subseteq 1..Len(made)
  BY <1>2 DEF BridgeInv, TypeOK
<1>4. TypeOK'
  BY <1>1, <1>3 DEF BridgeInv, TypeOK, binding, PCs
<1>5. OutboxInv'
  <2>1. received \subseteq received' /\ received' \subseteq 1..First
    BY <1>2 DEF BridgeInv, OutboxInv
  <2>2. pc' = "receipt" => First \in received'
    BY <1>1, <1>2, <2>1 DEF BridgeInv, OutboxInv
  <2>3. pc' \in {"send", "wait", "receipt"} => outbox # <<>>
    BY <1>1, <1>2 DEF BridgeInv, OutboxInv
  <2> QED
    BY <1>1, <2>1, <2>2, <2>3 DEF BridgeInv, OutboxInv, First
<1>6. NetInv'
  <2>1. ASSUME NEW s \in net', ~s.late PROVE pc' = "wait"
    <3>1. s # r /\ s \in net
      BY <1>1, <2>1
    <3> QED
      BY <1>1, <2>1, <3>1 DEF BridgeInv, NetInv
  <2> QED
    BY <1>1, <2>1 DEF BridgeInv, NetInv, First
<1> QED
  BY <1>4, <1>5, <1>6 DEF BridgeInv

LEMMA ServerKeeps == ASSUME BridgeInv, Server PROVE BridgeInv'
<1> PICK r \in net : Authenticate(r) \/ Repeat(r) \/ Ingest(r) \/ Refuse(r) \/ Lose(r)
  BY DEF Server
<1>1. r.batch \in 1..Len(made)
  BY DEF BridgeInv, TypeOK, NetInv, First
<1>2. facts \in [Keys -> Values \cup {None}] /\ newest \in Nat
  BY DEF BridgeInv, TypeOK
<1>3. CASE Authenticate(r) \/ Lose(r)
  BY <1>3, RequestKeeps
<1>4. CASE Repeat(r)
  BY <1>2, <1>4, AnswerKeeps DEF Repeat, archive
<1>5. CASE Refuse(r)
  BY <1>2, <1>5, AnswerKeeps DEF Refuse, AfterRefusal, archive
<1>6. CASE Ingest(r)
  BY <1>1, <1>6, StoreTypes, AnswerKeeps DEF Ingest
<1> QED
  BY <1>3, <1>4, <1>5, <1>6

\* A worker that stops waiting leaves only requests nobody waits for.
LEMMA AbandonKeeps == ASSUME BridgeInv, TimeOut \/ Crash PROVE BridgeInv'
<1>1. /\ UNCHANGED <<binding, archive, saved, paused, made, outbox, issued>>
      /\ pc' \in {"plan", "off"} /\ used' \in {used, 0} /\ Abandon
  BY DEF TimeOut, Crash
<1>2. \A s \in net' : /\ s \in Requests /\ s.late
                      /\ \E r \in net : s.batch = r.batch
  <2>1. CASE net' = LateRequests
    BY <2>1 DEF LateRequests, BridgeInv, TypeOK
  <2>2. CASE net' = {Abandoned(r) : r \in net}
    <3> SUFFICES ASSUME NEW s \in net'
                 PROVE  s \in Requests /\ s.late /\ \E r \in net : s.batch = r.batch
      OBVIOUS
    <3>1. PICK r \in net : s = Abandoned(r)
      BY <2>2
    <3>2. Abandoned(r) \in Requests /\ Abandoned(r).late /\ Abandoned(r).batch = r.batch
      BY RequestTypes
    <3> QED
      BY <3>1, <3>2
  <2> QED
    BY <1>1, <2>1, <2>2 DEF Abandon
<1>3. TypeOK'
  <2>1. used' \in 0..issued' /\ pc' \in PCs /\ net' \subseteq Requests
    <3>1. issued \in Nat /\ used \in 0..issued /\ UNCHANGED issued
      BY <1>1, LimitsAssumption DEF BridgeInv, TypeOK, Tokens
    <3>2. used' \in 0..issued'
      BY <1>1, <3>1
    <3> QED
      BY <1>1, <1>2, <3>2 DEF PCs
  <2> QED
    BY <1>1, <2>1 DEF BridgeInv, TypeOK, binding, archive
<1>4. OutboxInv'
  BY <1>1 DEF BridgeInv, OutboxInv, First, archive
<1>5. NetInv'
  BY <1>1, <1>2 DEF BridgeInv, NetInv, First
<1> QED
  BY <1>3, <1>4, <1>5 DEF BridgeInv

----------------------------------------------------------------------------
\* The outbox.

LEMMA Widen ==
  ASSUME NEW m \in Nat, NEW n \in Nat, m <= n, NEW q \in Seq(1..m)
  PROVE  q \in Seq(1..n)
<1>1. \A i \in 1..Len(q) : q[i] \in 1..n
  BY ElementOfSeq
<1> QED
  BY <1>1, IsASeq

LEMMA CollectKeeps == ASSUME BridgeInv, Collect PROVE BridgeInv'
<1>1. PICK s \in Readings :
        /\ Len(made) + Len(s) <= MaxBatches
        /\ made' = made \o s
        /\ outbox' = outbox \o NewBatches(s)
  BY DEF Collect
<1>2. /\ UNCHANGED <<binding, archive, saved, used, paused, issued, net>>
      /\ pc = "collect" /\ pc' = "send"
  BY DEF Collect
<1>3. /\ s \in Seq(Payloads) /\ s # <<>> /\ made \in Seq(Payloads) /\ outbox \in Seq(1..Len(made))
      /\ Len(made) \in Nat /\ Len(s) \in Nat /\ Len(outbox) \in Nat
  BY ReadingAssumption DEF BridgeInv, TypeOK
<1>4. Len(s) >= 1
  BY <1>3, EmptySeq
<1> DEFINE n == Len(made) + Len(s)
           new == NewBatches(s)
<1>5. /\ made' \in Seq(Payloads) /\ Len(made') = n
      /\ \A i \in 1..Len(made) : made'[i] = made[i]
  BY <1>1, <1>3, ConcatProperties
<1>6. new \in Seq(1..n) /\ Len(new) = Len(s) /\ \A i \in 1..Len(s) : new[i] = Len(made) + i
  <2>1. DOMAIN s = 1..Len(s)
    BY <1>3
  <2>2. \A i \in 1..Len(s) : Len(made) + i \in 1..n
    BY <1>3
  <2>3. new = [i \in 1..Len(s) |-> Len(made) + i]
    BY <2>1 DEF NewBatches
  <2> QED
    BY <1>3, <2>2, <2>3, IsASeq
<1>7. outbox \in Seq(1..n)
  BY <1>3, Widen
<1>8. /\ outbox' \in Seq(1..n) /\ Len(outbox') = Len(outbox) + Len(s)
      /\ \A j \in 1..Len(outbox') :
           outbox'[j] = IF j <= Len(outbox) THEN outbox[j] ELSE new[j - Len(outbox)]
  <2> HIDE DEF new, n
  <2>1. outbox' = outbox \o new
    BY <1>1 DEF new
  <2>2. /\ outbox' \in Seq(1..n) /\ Len(outbox') = Len(outbox) + Len(new)
        /\ \A j \in 1..Len(outbox) + Len(new) :
             outbox'[j] = IF j <= Len(outbox) THEN outbox[j] ELSE new[j - Len(outbox)]
    BY <1>6, <1>7, <2>1, ConcatProperties
  <2> QED
    BY <1>6, <2>2
<1>9. First' = First /\ First \in Nat /\ First = Len(made) - Len(outbox) + 1 /\ First <= Len(made) + 1
  BY <1>3, <1>5, <1>8 DEF First, BridgeInv, OutboxInv
<1>10. TypeOK'
  <2>1. received' \subseteq 1..Len(made')
    BY <1>2, <1>3, <1>5 DEF BridgeInv, TypeOK, archive
  <2> QED
    BY <1>1, <1>2, <1>5, <1>8, <2>1 DEF BridgeInv, TypeOK, binding, archive, PCs
<1>11. OutboxInv'
  <2>1. \A j \in 1..Len(outbox') : outbox'[j] = First + j - 1
    <3> SUFFICES ASSUME NEW j \in 1..Len(outbox') PROVE outbox'[j] = First + j - 1
      OBVIOUS
    <3>1. CASE j <= Len(outbox)
      <4>1. j \in 1..Len(outbox) /\ outbox'[j] = outbox[j]
        BY <1>3, <1>8, <3>1
      <4> QED
        BY <4>1 DEF BridgeInv, OutboxInv
    <3>2. CASE j > Len(outbox)
      <4>1. j - Len(outbox) \in 1..Len(s)
        BY <1>3, <1>8, <3>2
      <4>2. outbox'[j] = new[j - Len(outbox)] /\ new[j - Len(outbox)] = Len(made) + (j - Len(outbox))
        BY <1>6, <1>8, <3>2, <4>1
      <4> QED
        BY <1>3, <1>9, <4>2
    <3> QED
      BY <1>3, <1>8, <3>1, <3>2
  <2>2. outbox' # <<>> /\ Len(outbox') <= Len(made')
    BY <1>3, <1>4, <1>5, <1>8 DEF BridgeInv, OutboxInv
  <2> QED
    BY <1>2, <1>9, <2>1, <2>2 DEF BridgeInv, OutboxInv, archive
<1>12. NetInv'
  BY <1>2, <1>3, <1>5, <1>9 DEF BridgeInv, NetInv
<1> QED
  BY <1>10, <1>11, <1>12 DEF BridgeInv

LEMMA SendKeeps == ASSUME BridgeInv, Send PROVE BridgeInv'
<1>1. /\ UNCHANGED <<binding, archive, saved, used, paused, made, outbox, issued>>
      /\ pc = "send" /\ pc' = "wait" /\ net' = net \cup {Upload}
  BY DEF Send
<1>2. /\ outbox # <<>> /\ outbox \in Seq(1..Len(made)) /\ Len(made) \in Nat
      /\ Len(made) <= MaxBatches /\ used \in Tokens
  <2>1. issued \in 0..MaxTokens /\ used \in 0..issued
    BY DEF BridgeInv, TypeOK, Tokens
  <2>2. used \in Tokens
    BY <2>1, LimitsAssumption DEF Tokens
  <2> QED
    BY <1>1, <2>2 DEF BridgeInv, TypeOK, OutboxInv
<1>3. Head(outbox) = First /\ First \in 1..Len(made)
  <2>1. Len(outbox) \in Nat /\ Len(outbox) >= 1
    BY <1>2, EmptySeq
  <2>2. Head(outbox) = outbox[1] /\ outbox[1] = First + 1 - 1 /\ Len(outbox) <= Len(made)
    BY <1>2, <2>1 DEF BridgeInv, OutboxInv
  <2> QED
    BY <1>2, <2>1, <2>2 DEF First
<1>4. Upload \in Requests /\ ~Upload.late /\ Upload.batch = First
  BY <1>2, <1>3, LimitsAssumption DEF Upload, Requests
<1>5. \A r \in net : r.late
  BY <1>1 DEF BridgeInv, NetInv
<1>6. TypeOK'
  BY <1>1, <1>4 DEF BridgeInv, TypeOK, binding, archive, PCs
<1>7. OutboxInv'
  BY <1>1, <1>2 DEF BridgeInv, OutboxInv, First, archive
<1>8. NetInv'
  BY <1>1, <1>3, <1>4, <1>5 DEF BridgeInv, NetInv, First
<1> QED
  BY <1>6, <1>7, <1>8 DEF BridgeInv

LEMMA DeleteKeeps == ASSUME BridgeInv, Delete PROVE BridgeInv'
<1>1. /\ UNCHANGED <<binding, archive, saved, used, paused, made, issued, net>>
      /\ pc = "receipt" /\ pc' = "plan" /\ outbox' = Tail(outbox)
  BY DEF Delete
<1>2. /\ outbox # <<>> /\ outbox \in Seq(1..Len(made)) /\ Len(made) \in Nat
      /\ Len(outbox) \in Nat /\ Len(outbox) <= Len(made) /\ First \in received
  BY <1>1 DEF BridgeInv, TypeOK, OutboxInv
<1>3. /\ outbox' \in Seq(1..Len(made)) /\ Len(outbox') = Len(outbox) - 1
      /\ \A j \in 1..Len(outbox') : outbox'[j] = outbox[j + 1]
  BY <1>1, <1>2, HeadTailProperties
<1>4. First' = First + 1 /\ First \in Nat
  BY <1>1, <1>2, <1>3 DEF First
<1>5. TypeOK'
  BY <1>1, <1>3 DEF BridgeInv, TypeOK, binding, archive, PCs
<1>6. OutboxInv'
  <2>1. \A j \in 1..Len(outbox') : outbox'[j] = First' + j - 1
    BY <1>2, <1>3, <1>4 DEF BridgeInv, OutboxInv
  <2>2. 1..First'-1 \subseteq received
    BY <1>2, <1>4 DEF BridgeInv, OutboxInv
  <2> QED
    BY <1>1, <1>2, <1>3, <1>4, <2>1, <2>2 DEF BridgeInv, OutboxInv, archive
<1>7. NetInv'
  BY <1>1, <1>4 DEF BridgeInv, NetInv
<1> QED
  BY <1>5, <1>6, <1>7 DEF BridgeInv

----------------------------------------------------------------------------
\* The state of the bridge keeps its types, and its invariant holds.
THEOREM BridgeInvariant == Spec => []BridgeInv
<1>1. Init => BridgeInv
  <2> SUFFICES ASSUME Init PROVE BridgeInv
    OBVIOUS
  <2>1. made = <<>> /\ outbox = <<>> /\ Len(made) = 0 /\ Len(outbox) = 0
    BY DEF Init
  <2>2. TypeOK
    <3>1. made \in Seq(Payloads) /\ outbox \in Seq(1..Len(made)) /\ Len(made) <= MaxBatches
      BY <2>1, EmptySeq, LimitsAssumption
    <3>2. /\ issued = 0 /\ issued \in Tokens /\ token \in 0..issued
          /\ saved \in 0..issued /\ used \in 0..issued
      BY LimitsAssumption DEF Init, Tokens
    <3> QED
      BY <3>1, <3>2 DEF Init, TypeOK, PCs
  <2>3. First = 1 /\ OutboxInv
    BY <2>1 DEF Init, OutboxInv, First
  <2>4. NetInv
    BY DEF Init, NetInv
  <2> QED
    BY <2>2, <2>3, <2>4 DEF BridgeInv
<1>2. BridgeInv /\ Next => BridgeInv'
  BY ControlKeeps, QuietKeeps, ServerKeeps, AbandonKeeps, CollectKeeps, SendKeeps, DeleteKeeps
  DEF Next, Worker
<1>3. BridgeInv /\ UNCHANGED vars => BridgeInv'
  BY DEF BridgeInv, TypeOK, OutboxInv, NetInv, First, vars, binding, archive, agent
<1> QED
  BY <1>1, <1>2, <1>3, PTL DEF Spec

\* Every variable keeps its type.
THEOREM BridgeTypeCorrect == Spec => []TypeOK
<1>1. BridgeInv => TypeOK
  BY DEF BridgeInv
<1> QED
  BY <1>1, BridgeInvariant, PTL

\* A batch that was made is in the outbox until the server has stored it,
\* whatever requests and answers are lost and whenever the worker dies.
THEOREM BatchesSurvive == Spec => []NoBatchLost
<1>1. ASSUME BridgeInv PROVE NoBatchLost
  <2> SUFFICES ASSUME NEW i \in 1..Len(made), i \notin received
               PROVE  \E j \in DOMAIN outbox : outbox[j] = i
    BY DEF NoBatchLost
  <2>1. /\ Len(made) \in Nat /\ Len(outbox) \in Nat /\ DOMAIN outbox = 1..Len(outbox)
        /\ 1..First-1 \subseteq received
    BY <1>1 DEF BridgeInv, TypeOK, OutboxInv
  <2>2. i - First + 1 \in 1..Len(outbox)
    BY <2>1 DEF First
  <2> QED
    <3> DEFINE j == i - First + 1
    <3>1. outbox[j] = First + j - 1 /\ First \in Int
      BY <1>1, <2>1, <2>2 DEF BridgeInv, OutboxInv, First
    <3>2. outbox[j] = i
      BY <3>1
    <3> QED
      BY <2>1, <2>2, <3>2
<1> QED
  BY <1>1, BridgeInvariant, PTL

----------------------------------------------------------------------------
\* What is stored.

ArchiveInv == FactsMatchReceipts /\ FreshnessHonest

LEMMA IngestKeepsFacts ==
  ASSUME BridgeInv, FactsMatchReceipts, NEW r \in net, Ingest(r) PROVE FactsMatchReceipts'
<1> DEFINE i == r.batch
           p == made[i]
<1>1. /\ UNCHANGED made /\ received' = received \cup {i} /\ facts' = Merged(p)
      /\ i \notin received
  BY DEF Ingest, Answer
<1>2. Agrees(p)
  BY DEF Ingest, Accepts
<1>3. i \in 1..Len(made) /\ p \in Payloads
  BY DEF BridgeInv, TypeOK, NetInv, First
<1>4. \A k \in DOMAIN p.facts : p.facts[k] # None
  BY <1>3, PayloadAssumption, NoneAssumption
<1> HIDE DEF i, p
<1>5. \A k \in Keys : facts'[k] = IF k \in DOMAIN p.facts THEN p.facts[k] ELSE facts[k]
  BY <1>1, <1>2 DEF Merged, Agrees
<1>6. ASSUME NEW k \in Keys, NEW j \in received', k \in DOMAIN made[j].facts
      PROVE  facts'[k] = made[j].facts[k]
  <2>1. CASE j = i
    BY <1>5, <1>6, <2>1 DEF p
  <2>2. CASE j \in received /\ k \notin DOMAIN p.facts
    BY <1>5, <1>6, <2>2 DEF FactsMatchReceipts
  <2>3. CASE j \in received /\ k \in DOMAIN p.facts
    <3>1. facts[k] = made[j].facts[k] /\ made[j] \in Payloads
      BY <1>6, <2>3 DEF FactsMatchReceipts, BridgeInv, TypeOK
    <3>2. facts[k] # None
      BY <1>6, <3>1, PayloadAssumption, NoneAssumption
    <3> QED
      BY <1>2, <1>5, <2>3, <3>1, <3>2 DEF Agrees
  <2> QED
    BY <1>1, <2>1, <2>2, <2>3
<1>7. ASSUME NEW k \in Keys, facts'[k] # None
      PROVE  \E j \in received' : k \in DOMAIN made[j].facts
  BY <1>1, <1>5, <1>7 DEF FactsMatchReceipts, p
<1> QED
  BY <1>1, <1>6, <1>7 DEF FactsMatchReceipts

\* The times of the quotes that are stored.
Seen == {ObservedAt[k] : k \in UNION {DOMAIN made[i].facts :
                                       i \in {j \in received : made[j].kind = "quote"}}}

LEMMA SeenFacts ==
  /\ \A t \in Seen : \E j \in received : \E k \in DOMAIN made[j].facts :
       made[j].kind = "quote" /\ t = ObservedAt[k]
  /\ \A j \in received : made[j].kind = "quote" =>
       \A k \in DOMAIN made[j].facts : ObservedAt[k] \in Seen
BY DEF Seen

LEMMA IngestKeepsFreshness ==
  ASSUME BridgeInv, FreshnessHonest, NEW r \in net, Ingest(r) PROVE FreshnessHonest'
<1> DEFINE i == r.batch
           p == made[i]
<1>1. /\ UNCHANGED made /\ received' = received \cup {i} /\ newest' = Newest(p)
  BY DEF Ingest, Answer
<1>2. i \in 1..Len(made) /\ p \in Payloads /\ newest \in Nat /\ DOMAIN p.facts \subseteq Keys
  BY PayloadAssumption DEF BridgeInv, TypeOK, NetInv, First
<1> HIDE DEF i, p
<1>3. /\ \A t \in Seen' : \E j \in received' : \E k \in DOMAIN made[j].facts :
             made[j].kind = "quote" /\ t = ObservedAt[k]
      /\ \A j \in received' : made[j].kind = "quote" =>
             \A k \in DOMAIN made[j].facts : ObservedAt[k] \in Seen'
  BY <1>1 DEF Seen
<1>4. (\A t \in Seen : t <= newest) /\ newest \in Seen \cup {0}
  BY DEF FreshnessHonest, Seen
<1>5. Seen \subseteq Seen'
  BY <1>1 DEF Seen
<1>6. CASE p.kind # "quote"
  <2>1. newest' = newest /\ Seen' \subseteq Seen
    <3>1. ASSUME NEW t \in Seen' PROVE t \in Seen
      BY <1>1, <1>3, <1>6, SeenFacts DEF p
    <3> QED
      BY <1>1, <1>6, <3>1 DEF Newest
  <2> QED
    BY <1>4, <1>5, <2>1 DEF FreshnessHonest, Seen
<1>7. CASE p.kind = "quote"
  <2>1. PICK k \in DOMAIN p.facts : p.latest = ObservedAt[k]
    BY <1>2, <1>7, PayloadAssumption
  <2>2. p.latest \in Nat /\ p.latest \in Seen' /\ newest' \in {newest, p.latest}
        /\ newest <= newest' /\ p.latest <= newest'
    <3>1. p.latest \in Nat
      BY <1>2, <2>1, TimeAssumption
    <3>2. p.latest \in Seen'
      BY <1>1, <1>3, <1>7, <2>1 DEF p
    <3> QED
      BY <1>1, <1>2, <1>7, <3>1, <3>2 DEF Newest
  <2>3. ASSUME NEW t \in Seen' PROVE t <= newest'
    <3> PICK j \in received' : \E k2 \in DOMAIN made[j].facts :
            made[j].kind = "quote" /\ t = ObservedAt[k2]
      BY <1>3
    <3>1. PICK k2 \in DOMAIN made[j].facts : made[j].kind = "quote" /\ t = ObservedAt[k2]
      OBVIOUS
    <3>2. CASE j \in received
      <4>1. t \in Seen /\ t <= newest
        BY <1>4, <3>1, <3>2, SeenFacts
      <4>2. made[j] \in Payloads /\ t \in Nat
        <5>1. made[j] \in Payloads
          BY <3>2 DEF BridgeInv, TypeOK
        <5> QED
          BY <3>1, <5>1, PayloadAssumption, TimeAssumption
      <4> QED
        BY <1>2, <2>2, <4>1, <4>2
    <3>3. CASE j = i
      <4>1. t <= p.latest /\ t \in Nat
        BY <1>2, <1>7, <3>1, <3>3, PayloadAssumption, TimeAssumption DEF p
      <4> QED
        BY <1>2, <2>2, <4>1
    <3> QED
      BY <1>1, <3>2, <3>3
  <2>4. newest' \in Seen' \cup {0}
    BY <1>4, <1>5, <2>2
  <2> QED
    BY <2>3, <2>4 DEF FreshnessHonest, Seen
<1> QED
  BY <1>6, <1>7

\* What does not store a batch leaves the archive and the batches stored alone.
LEMMA ArchiveKeeps ==
  ASSUME BridgeInv, ArchiveInv, [Next]_vars PROVE ArchiveInv'
<1>1. CASE \E r \in net : Ingest(r)
  BY <1>1, IngestKeepsFacts, IngestKeepsFreshness DEF ArchiveInv
<1>2. CASE UNCHANGED archive /\ \A i \in received : made'[i] = made[i]
  BY <1>2 DEF ArchiveInv, FactsMatchReceipts, FreshnessHonest, archive
<1>3. CASE Collect
  <2>1. PICK s \in Readings : made' = made \o s
    BY <1>3 DEF Collect
  <2>2. s \in Seq(Payloads) /\ made \in Seq(Payloads) /\ received \subseteq 1..Len(made)
    BY ReadingAssumption DEF BridgeInv, TypeOK
  <2>3. \A i \in received : made'[i] = made[i]
    BY <2>1, <2>2, ConcatProperties
  <2> QED
    BY <1>2, <1>3, <2>3 DEF Collect
<1>4. CASE \/ Control \/ UNCHANGED vars
           \/ Start \/ AskPlan \/ CollectNothing \/ Send \/ TimeOut \/ Delete \/ Crash
           \/ SwitchMarket
           \/ \E r \in net : Authenticate(r) \/ Repeat(r) \/ Refuse(r) \/ Lose(r)
  <2>1. UNCHANGED <<archive, made>>
    BY <1>4 DEF Control, Pair, CodeExpires, TokenExpires, Approve, Resume, Pause, Revoke, Repair,
       SwitchProvider, Start, AskPlan, CollectNothing, Send, TimeOut, Delete, Crash, SwitchMarket,
       Authenticate, Repeat, Refuse, Lose, Answer, agent, vars
  <2> QED
    BY <1>2, <2>1
<1> QED
  BY <1>1, <1>3, <1>4 DEF Next, Server, Worker

LEMMA ArchiveInvariant == Spec => []ArchiveInv
<1>1. Init => ArchiveInv
  BY DEF Init, ArchiveInv, FactsMatchReceipts, FreshnessHonest
<1> QED
  BY <1>1, ArchiveKeeps, BridgeInvariant, PTL DEF Spec

\* The stored facts are exactly those of the batches with a receipt.
THEOREM FactsAreReceipted == Spec => []FactsMatchReceipts
<1>1. ArchiveInv => FactsMatchReceipts
  BY DEF ArchiveInv
<1> QED
  BY <1>1, ArchiveInvariant, PTL

\* last_observed_at is the time of the newest quote stored.
THEOREM FreshnessIsHonest == Spec => []FreshnessHonest
<1>1. ArchiveInv => FreshnessHonest
  BY DEF ArchiveInv
<1> QED
  BY <1>1, ArchiveInvariant, PTL

----------------------------------------------------------------------------
\* The bridge implements its promise.

LEMMA IngestIsStore ==
  ASSUME BridgeInv, NEW r \in net, Ingest(r) PROVE Promise!Store(r.batch)
<1> DEFINE i == r.batch
           p == made[i]
<1>1. /\ UNCHANGED <<made, binding>> /\ received' = received \cup {i} /\ facts' = Merged(p)
      /\ i \notin received /\ Open /\ Agrees(p)
  BY DEF Ingest, Answer, Accepts
<1>2. i = First
  BY <1>1, NextIsFirst
<1>3. On /\ UNCHANGED <<On, revoked>>
  BY <1>1 DEF On, Open, binding
<1>4. 1..i-1 \subseteq received
  BY <1>2 DEF BridgeInv, OutboxInv
<1>5. facts' = [k \in Keys |-> IF k \in DOMAIN p.facts THEN p.facts[k] ELSE facts[k]]
  BY <1>1 DEF Merged, Agrees
<1> QED
  BY <1>1, <1>3, <1>4, <1>5 DEF Promise!Store, Agrees

\* Batches are stored in order, once and as a whole, only while collection is
\* on, and never again after a revocation.
THEOREM BridgeKeepsPromise == Spec => KeepsBridgePromise
<1>1. Init => Promise!Init
  BY DEF Init, Promise!Init, On
<1>2. ASSUME BridgeInv, [Next]_vars PROVE [Promise!Next]_(Promise!vars)
  <2>1. CASE \E r \in net : Ingest(r)
    <3>1. PICK r \in net : Ingest(r)
      BY <2>1
    <3>2. r.batch \in DOMAIN made
      BY <1>2 DEF BridgeInv, TypeOK, NetInv, First
    <3> QED
      BY <1>2, <3>1, <3>2, IngestIsStore DEF Promise!Next
  <2>2. CASE Collect
    <3>1. PICK s \in Readings : made' = made \o s
      BY <2>2 DEF Collect
    <3>2. s \in Seq(Payloads) /\ s # <<>> /\ made \in Seq(Payloads) /\ Len(made) \in Nat
      BY <1>2, ReadingAssumption DEF BridgeInv, TypeOK
    <3>3. Len(made') > Len(made) /\ \A i \in DOMAIN made : made'[i] = made[i]
      BY <3>1, <3>2, ConcatProperties, EmptySeq
    <3>4. UNCHANGED <<received, facts, On, revoked>>
      BY <2>2 DEF Collect, archive, binding, On
    <3> QED
      BY <3>3, <3>4 DEF Promise!Next, Promise!Make
  <2>3. CASE Control
    <3>1. UNCHANGED <<made, received, facts>>
      BY <2>3 DEF Control, Pair, CodeExpires, TokenExpires, Approve, Resume, Pause, Revoke,
         Repair, SwitchProvider, archive, agent
    <3>2. revoked => UNCHANGED <<On, revoked>>
      BY <2>3 DEF Control, Pair, CodeExpires, TokenExpires, Approve, Resume, Pause, Revoke,
         Repair, SwitchProvider, On
    <3>3. On \in BOOLEAN /\ On' \in BOOLEAN /\ revoked' \in BOOLEAN /\ (revoked' => ~On')
      BY <1>2, <2>3, ControlKeeps DEF BridgeInv, TypeOK, On
    <3> QED
      BY <3>1, <3>2, <3>3 DEF Promise!Next, Promise!Switch, Promise!vars
  <2>4. CASE \/ UNCHANGED vars
             \/ Start \/ AskPlan \/ CollectNothing \/ Send \/ TimeOut \/ Delete \/ Crash
             \/ SwitchMarket
             \/ \E r \in net : Authenticate(r) \/ Repeat(r) \/ Refuse(r) \/ Lose(r)
    <3>1. UNCHANGED <<made, received, facts, On, revoked>>
      BY <2>4 DEF Start, AskPlan, CollectNothing, Send, TimeOut, Delete, Crash, SwitchMarket,
         Authenticate, Repeat, Refuse, Lose, Answer, agent, vars, archive, binding, On
    <3> QED
      BY <3>1 DEF Promise!vars
  <2> QED
    BY <1>2, <2>1, <2>2, <2>3, <2>4 DEF Next, Server, Worker
<1> QED
  BY <1>1, <1>2, BridgeInvariant, PTL DEF Spec, KeepsBridgePromise, Promise!Spec
=============================================================================
