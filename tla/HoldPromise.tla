----------------------------- MODULE HoldPromise -----------------------------
(***************************************************************************)
(* What an order reservation promises to its owner: the money it holds is  *)
(* spent by its own fills only, whatever is left comes back exactly once,  *)
(* and nobody ever spends more than what is free.                          *)
(***************************************************************************)
EXTENDS Integers

CONSTANT Keys, InitialCash

VARIABLES
  free,   \* cash no order holds
  held,   \* cash each order holds
  stage   \* "fresh", "open" or "closed", for each key

vars == <<free, held, stage>>

Init ==
  /\ free = InitialCash
  /\ held = [k \in Keys |-> 0]
  /\ stage = [k \in Keys |-> "fresh"]

\* An order opens with money that was free.
Open(k) ==
  /\ stage[k] = "fresh"
  /\ stage' = [stage EXCEPT ![k] = "open"]
  /\ \E n \in 0 .. free : free' = free - n /\ held' = [held EXCEPT ![k] = n]

\* A fill spends from its own order's money and may bring in more; the order
\* stays open, or closes and gives the rest back.
Fill(k) ==
  /\ stage[k] = "open"
  /\ \E spent \in 0 .. held[k] :
       \/ /\ UNCHANGED stage
          /\ held' = [held EXCEPT ![k] = @ - spent]
          /\ free' >= free
       \/ /\ stage' = [stage EXCEPT ![k] = "closed"]
          /\ held' = [held EXCEPT ![k] = 0]
          /\ free' >= free + held[k] - spent

\* A cancelled order gives back exactly what it still holds.
Close(k) ==
  /\ stage[k] = "open"
  /\ stage' = [stage EXCEPT ![k] = "closed"]
  /\ held' = [held EXCEPT ![k] = 0]
  /\ free' = free + held[k]

\* Direct trades, corrections and resets move free money only.
Move ==
  /\ free' \in Nat
  /\ UNCHANGED <<held, stage>>

Next == Move \/ \E k \in Keys : Open(k) \/ Fill(k) \/ Close(k)

Spec == Init /\ [][Next]_vars
=============================================================================
