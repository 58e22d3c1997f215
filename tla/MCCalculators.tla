--------------------------- MODULE MCCalculators ---------------------------
(* Instances of Calculators for TLC: the demo's option and IV requests     *)
(* (lines 900-1000) around one expiry, with timestamps before, within five *)
(* minutes of, and at expiry.                                              *)
EXTENDS Calculators

MCExpiry == 400

(* The demo's surface a = 1, b = 1, rho = 0, m = 0, sigma = 1 (positive  *)
(* total variance at every strike), and one with a = -1, whose total      *)
(* variance may be negative, zero or positive depending on the strike.    *)
MCSVICoefficients == {<<1, 1, 0, 0, 1>>, <<-1, 1, 0, 0, 1>>}

(* Strike 5 below spot and forward 10, the forward itself (no strike), and *)
(* a zero strike; calls and puts, vanilla and digital.                     *)
MCOptionRequests ==
  [expiry : {MCExpiry}, strike : {5, Absent}, isCall : {TRUE, FALSE},
   isDigital : {TRUE, Absent}]
  \cup {[expiry |-> MCExpiry, strike |-> 0, isCall |-> TRUE, isDigital |-> FALSE]}

MCIVRequests ==
  [expiry : {MCExpiry}, strike : {5, 0, Absent}, isCall : {Absent},
   isDigital : {Absent}]

(* main()'s adds, all observed at time 0.                                  *)
MCInitialObs ==
  [SPOT |-> [value |-> 10, timestamp |-> 0],
   FORWARD |-> [value |-> 10, timestamp |-> 0],
   RATE |-> [value |-> 0, timestamp |-> 0],
   SVI |-> [value |-> <<1, 1, 0, 0, 1>>, timestamp |-> 0]]
=============================================================================
