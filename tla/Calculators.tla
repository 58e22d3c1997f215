----------------------------- MODULE Calculators -----------------------------
(***************************************************************************)
(* The calculate methods of SVIImpliedVolCalculator and                    *)
(* OptionPriceCalculator (lines 568-684) and the guards and premium of      *)
(* compute_option_price (lines 445-508), on the inputs a resolution hands  *)
(* them.  obs holds the latest observation of each input feed as producers *)
(* update it (update_data_for_feed, with producer-defined timestamps); a  *)
(* request is calculated on the values of obs at the minimum of their     *)
(* timestamps, which is what get_latest_feed_data passes (Router proves   *)
(* it: TimestampIsMinOfReads).  IV is derived: an OPTION_PRICE request    *)
(* resolves it by the recursive call of line 389, which runs              *)
(* SVIImpliedVolCalculator.calculate with the option's own parameters      *)
(* (get_input_feed_parameters, line 696) at the minimum of FORWARD's and   *)
(* the SVI coefficients' timestamps; its ValueError aborts the request.   *)
(*                                                                         *)
(* Data abstraction.  Prices and strikes are integers, so the intrinsic    *)
(* value of the near-expiry branch is exact.  Times are integer seconds:   *)
(* compute_time_to_expiry divides both sides of each comparison by the     *)
(* same positive SECONDS_IN_YEAR, and a correctly rounded division keeps   *)
(* the order of integers of this size, so t <= 0 and t < FIVE_MIN_IN_YEARS *)
(* are decided on expiry - timestamp against 0 and 300.  Black-Scholes     *)
(* premiums involve log, exp and N(.): they are symbolic terms that record *)
(* what they are computed from.  The SVI volatility is kept by its sign   *)
(* (0 or positive), the only thing the option calculator tests of it, and *)
(* the sign of the total variance is decided only where the coefficients  *)
(* decide it.                                                              *)
(***************************************************************************)
EXTENDS Integers, Sequences

CONSTANTS
  Spots, Forwards, Rates,       \* values of the stored option inputs
  SVICoefficients,              \* (a, b, rho, m, sigma) tuples of the surface
  Timestamps,                   \* observation timestamps (Unix seconds)
  OptionRequests,               \* parameters of OPTION_PRICE requests
  IVRequests,                   \* parameters of IV requests
  Absent,                       \* a key missing from parameters.other
  InitialObs                    \* the observations main() adds


VARIABLES obs, last

vars == <<obs, last>>

(* The stored inputs; IV is derived and never stored.                     *)
Inputs == {"SPOT", "FORWARD", "RATE", "SVI"}

ValuesOf(i) == CASE i = "SPOT" -> Spots [] i = "FORWARD" -> Forwards
                [] i = "RATE" -> Rates [] i = "SVI" -> SVICoefficients

Obs(i) == [value : ValuesOf(i), timestamp : Timestamps]

(* Values and timestamps are integers; expiry_timestamp goes through int() *)
(* (lines 602 and 653), so a request's expiry is an integer or absent;     *)
(* main() adds one observation of each input.                              *)
ASSUME CalculatorsAssumption ==
  /\ Spots \cup Forwards \cup Rates \cup Timestamps \subseteq Int
  /\ SVICoefficients \subseteq [1..5 -> Int]
  /\ Absent \notin Int \cup BOOLEAN
  /\ \A p \in OptionRequests \cup IVRequests : p.expiry \in Int \cup {Absent}
  /\ \A i \in Inputs : InitialObs[i] \in Obs(i)

(* parameters.other.get(key, default).                                     *)
Get(v, default) == IF v = Absent THEN default ELSE v

Exact(n) == [kind |-> "exact", n |-> n, style |-> "none"]
Symbolic(k, s) == [kind |-> k, n |-> 0, style |-> s]
Out(st, v) == [status |-> st, value |-> v]
Raised == Out("ValueError", Symbolic("none", "none"))
(* sqrt(total_var / time_to_expiry), by its sign: 0 or positive.          *)
Vol(sign) == [kind |-> "vol", n |-> sign, style |-> "svi"]

SECONDS_IN_FIVE_MIN == 300

(* compute_time_to_expiry, in seconds: its sign and its comparison with    *)
(* five minutes are those of the year fraction.                            *)
ComputeTimeToExpiry(timestamp, expiry) == expiry - timestamp

PyMax0(x) == IF x > 0 THEN x ELSE 0

(* compute_option_price, its input checks and the premium it returns.     *)
(* The vanilla premium is floored at 0; the digital one is                 *)
(* e^(-r_d t) N(phi d-).                                                   *)
ComputeOptionPrice(spot, forward, strike, vol, t, rd, isCall, isDigital) ==
  IF spot <= 0 \/ forward <= 0 \/ t <= 0 THEN Raised
  ELSE IF strike <= 0 \/ vol <= 0 THEN Raised
  ELSE Out("ok", Symbolic(IF isCall THEN "call" ELSE "put",
                          IF isDigital THEN "digital" ELSE "vanilla"))

(* Mutant: the volatility check ahead of the near-expiry branch.           *)
OptionCalculateVolFirst(ts, in, p) ==
  LET spot == in[1]
      forward == in[2]
      iv == in[3]
      rd == in[4]
      expiry == Get(p.expiry, 0)
      strike == Get(p.strike, forward)
      isCall == Get(p.isCall, TRUE)
      isDigital == Get(p.isDigital, FALSE)
      t == ComputeTimeToExpiry(ts, expiry)
  IN IF Len(in) # 4 THEN Raised
     ELSE IF t <= 0 THEN Out("ok", Exact(0))
     ELSE IF iv <= 0 THEN Out("ok", Exact(0))
     ELSE IF t < SECONDS_IN_FIVE_MIN
          THEN Out("ok", Exact(IF isCall THEN PyMax0(spot - strike)
                                         ELSE PyMax0(strike - spot)))
     ELSE ComputeOptionPrice(spot, forward, strike, iv, t, rd, isCall, isDigital)

(* OptionPriceCalculator.calculate.                                        *)
OptionCalculate(ts, in, p) ==
  LET spot == in[1]
      forward == in[2]
      iv == in[3]
      rd == in[4]
      expiry == Get(p.expiry, 0)
      strike == Get(p.strike, forward)
      isCall == Get(p.isCall, TRUE)
      isDigital == Get(p.isDigital, FALSE)
      t == ComputeTimeToExpiry(ts, expiry)
  IN IF Len(in) # 4 THEN Raised
     ELSE IF t <= 0 THEN Out("ok", Exact(0))
     ELSE IF t < SECONDS_IN_FIVE_MIN
          THEN Out("ok", Exact(IF isCall THEN PyMax0(spot - strike)
                                         ELSE PyMax0(strike - spot)))
     ELSE IF iv <= 0 THEN Out("ok", Exact(0))
     ELSE ComputeOptionPrice(spot, forward, strike, iv, t, rd, isCall, isDigital)

(* The signs total_var = a + b (rho (k - m) + sqrt((k - m)^2 + sigma^2))    *)
(* can have.  The bracket is at least 0 when |rho| <= 1, so a > 0 and     *)
(* b >= 0 make the variance positive, a = 0 and b >= 0 make it at least 0; *)
(* any other surface can give any sign.                                   *)
VarianceSigns(c) ==
  IF c[2] >= 0 /\ -1 <= c[3] /\ c[3] <= 1 /\ c[1] >= 0
  THEN IF c[1] > 0 THEN {1} ELSE {0, 1}
  ELSE {-1, 0, 1}

(* SVIImpliedVolCalculator.calculate: the outcomes it can have.  log of a  *)
(* non-positive strike over a positive forward raises; sqrt of a negative  *)
(* total variance raises.                                                  *)
SVIOutcomes(ts, in, p) ==
  LET forward == in[1]
      coeffs == [k \in 1..5 |-> in[k + 1]]
      expiry == Get(p.expiry, 0)
      strike == Get(p.strike, forward)
      t == ComputeTimeToExpiry(ts, expiry)
  IN IF Len(in) # 6 THEN {Raised}
     ELSE IF t <= 0 THEN {Out("ok", Exact(0))}
     ELSE IF forward > 0 /\ strike <= 0 THEN {Raised}
     ELSE {IF v < 0 THEN Raised ELSE Out("ok", Vol(v)) : v \in VarianceSigns(coeffs)}

-----------------------------------------------------------------------------
(* The reference timestamp get_latest_feed_data passes for the stored      *)
(* inputs S it reads: the minimum of their timestamps.                     *)
Stalest(S) == CHOOSE t \in {obs[i].timestamp : i \in S} :
                \A j \in S : t <= obs[j].timestamp

(* The stored feeds an OPTION_PRICE resolution reads, IV's included.       *)
OptionInputSet == {"SPOT", "FORWARD", "SVI", "RATE"}

(* The inputs of the IV resolution: FORWARD and the five coefficients.     *)
IVInputs == <<obs["FORWARD"].value>> \o obs["SVI"].value

Last(what, p, in, ts, o) ==
  [what |-> what, req |-> p, in |-> in, ts |-> ts, out |-> o]

Init ==
  /\ obs = InitialObs
  /\ last = Last("none", Absent, <<>>, 0, Out("ok", Exact(0)))

(* A producer's update_data_for_feed on one input (lines 249-258).         *)
UpdateInput(i, o) ==
  /\ obs' = [obs EXCEPT ![i] = o]
  /\ UNCHANGED last

(* An OPTION_PRICE request (lines 379-400).  SPOT and FORWARD are read,    *)
(* then IV is computed by the recursive call with the option's parameters, *)
(* at the stalest of FORWARD's and the coefficients' timestamps; its       *)
(* ValueError propagates out of the request.  Otherwise RATE is read and   *)
(* the calculator gets the four values in declared order and the stalest  *)
(* of all the timestamps read.                                             *)
PriceOption(p) ==
  LET ts == Stalest(OptionInputSet)
      ivTs == Stalest({"FORWARD", "SVI"})
  IN /\ \E iv \in SVIOutcomes(ivTs, IVInputs, p) :
          \/ /\ iv.status = "ok"
             /\ LET in == <<obs["SPOT"].value, obs["FORWARD"].value, iv.value.n,
                            obs["RATE"].value>>
                IN last' = Last("option", p, in, ts, OptionCalculate(ts, in, p))
          \/ /\ iv.status = "ValueError"
             /\ last' = Last("option", p, <<>>, ivTs, iv)
     /\ UNCHANGED obs

(* An IV request: FORWARD and the five surface coefficients.               *)
PriceIV(p) ==
  LET ts == Stalest({"FORWARD", "SVI"})
  IN /\ \E o \in SVIOutcomes(ts, IVInputs, p) :
          last' = Last("iv", p, IVInputs, ts, o)
     /\ UNCHANGED obs

Next ==
  \/ \E i \in Inputs : \E o \in Obs(i) : UpdateInput(i, o)
  \/ \E p \in OptionRequests : PriceOption(p)
  \/ \E p \in IVRequests : PriceIV(p)

Spec == Init /\ [][Next]_vars

-----------------------------------------------------------------------------
(* The type of the state.                                                  *)
TypeOK ==
  /\ \A i \in Inputs : obs[i] \in Obs(i)
  /\ last.what \in {"none", "option", "iv"}
  /\ last.out.status \in {"ok", "ValueError"}

LastExpiry == Get(last.req.expiry, 0)
LastStrike == Get(last.req.strike, last.in[2])

(* Near-expiry floor (spec section 8): a vanilla OPTION_PRICE request that *)
(* reaches the option calculator less than five minutes before expiry, as *)
(* seen from its reference timestamp, returns exactly max(spot - strike,  *)
(* 0) for a call and max(strike - spot, 0) for a put, whatever volatility *)
(* the IV resolution produced, including 0 from an IV computed at fresher *)
(* timestamps that already lie past expiry.                               *)
NearExpiryFloor ==
  (/\ last.what = "option" /\ last.out.status = "ok"
   /\ ~Get(last.req.isDigital, FALSE)
   /\ 0 < LastExpiry - last.ts /\ LastExpiry - last.ts < 300) =>
    last.out = Out("ok", Exact(IF Get(last.req.isCall, TRUE)
                               THEN PyMax0(last.in[1] - LastStrike)
                               ELSE PyMax0(LastStrike - last.in[1])))

(* A digital option pays one unit, so its price is at most the discount    *)
(* factor e^(-r_d t), at most 1 for a non-negative domestic rate (spec     *)
(* section 4.4): every digital price is the discounted probability term or *)
(* a number in [0, 1].                                                     *)
DigitalPremiumWithinDiscount ==
  (/\ last.what = "option" /\ last.out.status = "ok"
   /\ Get(last.req.isDigital, FALSE) /\ last.in[4] >= 0) =>
    \/ last.out.value.style = "digital"
    \/ last.out.value.kind = "exact" /\ last.out.value.n \in 0..1
=============================================================================
