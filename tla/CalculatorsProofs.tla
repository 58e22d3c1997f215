-------------------------- MODULE CalculatorsProofs --------------------------
(***************************************************************************)
(* Proof that OptionPriceCalculator honours the near-expiry floor of spec *)
(* section 8 (module Calculators, NearExpiryFloor) for every set of input  *)
(* values, timestamps and requests that satisfies CalculatorsAssumption.   *)
(***************************************************************************)
EXTENDS Calculators, TLAPS

USE CalculatorsAssumption

(* Every stored input holds an observation of its kind.                    *)
ObsOK == \A i \in Inputs : obs[i] \in Obs(i)

(* Four integers have a least one.                                         *)
LEMMA LeastOfFour ==
  ASSUME NEW a \in Int, NEW b \in Int, NEW c \in Int, NEW d \in Int
  PROVE  \E t \in {a, b, c, d} : t <= a /\ t <= b /\ t <= c /\ t <= d
<1>1. CASE a <= b /\ a <= c /\ a <= d
  BY <1>1
<1>2. CASE b <= a /\ b <= c /\ b <= d
  BY <1>2
<1>3. CASE c <= a /\ c <= b /\ c <= d
  BY <1>3
<1>4. CASE d <= a /\ d <= b /\ d <= c
  BY <1>4
<1>. QED
  BY <1>1, <1>2, <1>3, <1>4

(* The reference timestamp of an OPTION_PRICE request is an integer: the   *)
(* stalest of the four stored timestamps exists.                           *)
LEMMA StalestOptionInt ==
  ASSUME ObsOK
  PROVE  Stalest(OptionInputSet) \in Int
<1> DEFINE ts(i) == obs[i].timestamp
<1>1. \A i \in OptionInputSet : ts(i) \in Int
  BY DEF ObsOK, Obs, Inputs, OptionInputSet
<1>2. PICK t \in {ts("SPOT"), ts("FORWARD"), ts("SVI"), ts("RATE")} :
        t <= ts("SPOT") /\ t <= ts("FORWARD") /\ t <= ts("SVI") /\ t <= ts("RATE")
  BY <1>1, LeastOfFour DEF OptionInputSet
<1>3. /\ t \in {ts(i) : i \in OptionInputSet}
      /\ \A j \in OptionInputSet : t <= ts(j)
  BY <1>2 DEF OptionInputSet
<1>4. Stalest(OptionInputSet) \in {ts(i) : i \in OptionInputSet}
  BY <1>3 DEF Stalest
<1>. QED
  BY <1>1, <1>4

-----------------------------------------------------------------------------
(* The inductive invariant: typed observations and the floor itself.       *)
FInv == ObsOK /\ NearExpiryFloor

LEMMA FInvInit == Init => FInv
BY DEF Init, FInv, ObsOK, NearExpiryFloor, Last

(* A vanilla option request that reaches the calculator inside the         *)
(* five-minute window returns the intrinsic value; one whose IV            *)
(* resolution raised returns nothing.                                      *)
LEMMA PriceOptionFloor ==
  ASSUME ObsOK, NEW p \in OptionRequests, PriceOption(p)
  PROVE  NearExpiryFloor'
<1> DEFINE ts == Stalest(OptionInputSet)
           ivTs == Stalest({"FORWARD", "SVI"})
<1>1. PICK iv \in SVIOutcomes(ivTs, IVInputs, p) :
        \/ /\ iv.status = "ok"
           /\ LET in == <<obs["SPOT"].value, obs["FORWARD"].value, iv.value.n,
                          obs["RATE"].value>>
              IN last' = Last("option", p, in, ts, OptionCalculate(ts, in, p))
        \/ /\ iv.status = "ValueError"
           /\ last' = Last("option", p, <<>>, ivTs, iv)
  BY DEF PriceOption
<1> DEFINE in == <<obs["SPOT"].value, obs["FORWARD"].value, iv.value.n,
                   obs["RATE"].value>>
<1>2. CASE iv.status = "ValueError" /\ last' = Last("option", p, <<>>, ivTs, iv)
  BY <1>2 DEF NearExpiryFloor, Last
<1>3. CASE iv.status = "ok" /\ last' = Last("option", p, in, ts, OptionCalculate(ts, in, p))
  <2>1. ts \in Int /\ Get(p.expiry, 0) \in Int
    BY StalestOptionInt DEF Get
  <2>2. Len(in) = 4
    OBVIOUS
  <2>. SUFFICES ASSUME 0 < Get(p.expiry, 0) - ts, Get(p.expiry, 0) - ts < 300
                PROVE  OptionCalculate(ts, in, p) =
                         Out("ok", Exact(IF Get(p.isCall, TRUE)
                                         THEN PyMax0(in[1] - Get(p.strike, in[2]))
                                         ELSE PyMax0(Get(p.strike, in[2]) - in[1])))
    BY <1>3 DEF NearExpiryFloor, LastExpiry, LastStrike, Last
  <2>3. ~(ComputeTimeToExpiry(ts, Get(p.expiry, 0)) <= 0)
        /\ ComputeTimeToExpiry(ts, Get(p.expiry, 0)) < SECONDS_IN_FIVE_MIN
    BY <2>1 DEF ComputeTimeToExpiry, SECONDS_IN_FIVE_MIN
  <2>. QED
    BY <2>2, <2>3 DEF OptionCalculate
<1>. QED
  BY <1>1, <1>2, <1>3

LEMMA FInvStep == FInv /\ [Next]_vars => FInv'
<1> SUFFICES ASSUME FInv, [Next]_vars PROVE FInv'
  OBVIOUS
<1>1. CASE \E i \in Inputs : \E o \in Obs(i) : UpdateInput(i, o)
  <2> PICK i \in Inputs : \E o \in Obs(i) : UpdateInput(i, o)
    BY <1>1
  <2> PICK o \in Obs(i) : UpdateInput(i, o)
    OBVIOUS
  <2>1. ObsOK'
    BY DEF UpdateInput, FInv, ObsOK
  <2>2. NearExpiryFloor'
    BY DEF UpdateInput, FInv, NearExpiryFloor, LastExpiry, LastStrike
  <2>. QED
    BY <2>1, <2>2 DEF FInv
<1>2. CASE \E p \in OptionRequests : PriceOption(p)
  <2> PICK p \in OptionRequests : PriceOption(p)
    BY <1>2
  <2>1. ObsOK'
    BY DEF PriceOption, FInv, ObsOK
  <2>2. NearExpiryFloor'
    BY PriceOptionFloor DEF FInv
  <2>. QED
    BY <2>1, <2>2 DEF FInv
<1>3. CASE \E p \in IVRequests : PriceIV(p)
  <2> PICK p \in IVRequests : PriceIV(p)
    BY <1>3
  <2>1. ObsOK'
    BY DEF PriceIV, FInv, ObsOK
  <2>2. last'.what = "iv"
    BY DEF PriceIV, Last
  <2>3. NearExpiryFloor'
    BY <2>2 DEF NearExpiryFloor
  <2>. QED
    BY <2>1, <2>3 DEF FInv
<1>4. CASE UNCHANGED vars
  BY <1>4 DEF vars, FInv, ObsOK, NearExpiryFloor, LastExpiry, LastStrike
<1>. QED
  BY <1>1, <1>2, <1>3, <1>4 DEF Next

(* For every instance, a vanilla OPTION_PRICE request whose IV resolution  *)
(* succeeds, priced less than five minutes before expiry measured from the *)
(* stalest input timestamp, returns exactly its intrinsic value whatever   *)
(* volatility the IV resolution produced (spec section 8; module           *)
(* Calculators, NearExpiryFloor).                                          *)
THEOREM NearExpiryFloorThm == Spec => []NearExpiryFloor
<1>1. FInv => NearExpiryFloor
  BY DEF FInv
<1>. QED
  BY <1>1, FInvInit, FInvStep, PTL DEF Spec
=============================================================================
