---------------------------- MODULE MCRateLimit ----------------------------
(* Instances of RateLimit for TLC: an address budget before an account's.   *)
EXTENDS RateLimit

CONSTANTS c1, address, account, x, y, victim, hidden

Ask(o)   == <<[policy |-> address, subject |-> o], [policy |-> account, subject |-> victim]>>
Alone(o) == <<[policy |-> address, subject |-> o]>>
SignIns  == {Ask(x), Ask(hidden), Alone(y)}
OneEach  == [p \in Policies |-> 1]
TwoEach  == [p \in Policies |-> 2]
=============================================================================
