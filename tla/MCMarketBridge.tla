-------------------------- MODULE MCMarketBridge ---------------------------
(* MarketBridge for TLC: one asset quoted at two times, one daily bar. *)
EXTENDS MarketBridge, TLC

CONSTANTS q1, q2, b1, x, y

MCKeys == {q1, q2, b1}
MCObservedAt == (q1 :> 1) @@ (q2 :> 2) @@ (b1 :> 1)

Latest(kind, fs) ==
  IF kind = "quote"
  THEN CHOOSE t \in {MCObservedAt[k] : k \in DOMAIN fs} : \A k \in DOMAIN fs : MCObservedAt[k] <= t
  ELSE 0
Batch(kind, fs, valid) ==
  [kind |-> kind, facts |-> fs, latest |-> Latest(kind, fs), valid |-> valid]

Early    == Batch("quote", (q1 :> x) @@ (q2 :> x), "always")
Older    == Batch("quote", q1 :> x, "always")
Differs  == Batch("quote", q2 :> y, "always")
Future   == Batch("quote", q2 :> x, "later")
Crossed  == Batch("quote", q2 :> x, "never")
Bar      == Batch("bar", b1 :> x, "always")
Status   == Batch("daily_status", <<>>, "always")

MCPayloads == {Early, Older, Differs, Future, Crossed, Bar, Status}
MCReadings == {<<Early>>, <<Older>>, <<Differs>>, <<Future>>, <<Crossed>>, <<Bar, Status>>}
=============================================================================
