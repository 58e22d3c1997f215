------------------------------ MODULE MCRouter ------------------------------
(* Instances of Router for TLC: the demo's feeds and registrations          *)
(* (main(), lines 827-883 and 900-935, 1147-1153).                         *)
EXTENDS Router

(* Feed ids of FeedType (lines 144-150) and the demo's BASIS_FEED_ID.      *)
IV == 0
FORWARD == 1
SVI_PARAMS == 2
OPTION_PRICE == 3
SPOT == 4
DOMESTIC_RATE == 5
BASIS == 100

PyBool(b) == [val |-> b, repr |-> "bool"]

Base == <<PyInt(0), PyInt(1)>>
Expiry == <<"expiry_timestamp", PyInt(7)>>
Strike == <<"strike", PyInt(9)>>

SpotFeed == [id |-> SPOT, enumerable |-> Base, other |-> <<>>]
RateFeed == [id |-> DOMESTIC_RATE, enumerable |-> Base, other |-> <<>>]
ForwardFeed == [id |-> FORWARD, enumerable |-> Base, other |-> <<Expiry>>]
SviFeed(k) == [id |-> SVI_PARAMS, enumerable |-> Base \o <<SVIMember(k)>>, other |-> <<>>]

(* The observations main() adds, in its order; FORWARD is the stalest.     *)
MCInitialFeeds ==
  <<<<SpotFeed, [value |-> 10, timestamp |-> 2]>>,
    <<RateFeed, [value |-> 10, timestamp |-> 2]>>,
    <<ForwardFeed, [value |-> 10, timestamp |-> 1]>>,
    <<SviFeed(0), [value |-> 10, timestamp |-> 2]>>,
    <<SviFeed(1), [value |-> 10, timestamp |-> 2]>>,
    <<SviFeed(2), [value |-> 10, timestamp |-> 2]>>,
    <<SviFeed(3), [value |-> 10, timestamp |-> 2]>>,
    <<SviFeed(4), [value |-> 10, timestamp |-> 2]>>>>

(* Feeds the producer keeps writing after start-up (as main() does for     *)
(* SPOT and FORWARD, lines 1046-1057), and one SVI coefficient.            *)
MCWriterFeeds == {ForwardFeed, SviFeed(0)}
MCAddTargets == {NoTarget}

RegIV == [out |-> IV, ins |-> <<FORWARD, SVI_PARAMS, SVI_PARAMS, SVI_PARAMS,
                                  SVI_PARAMS, SVI_PARAMS>>, h |-> "SVIImpliedVol"]
RegOption == [out |-> OPTION_PRICE, ins |-> <<SPOT, FORWARD, IV, DOMESTIC_RATE>>,
              h |-> "OptionPrice"]
RegBasis == [out |-> BASIS, ins |-> <<FORWARD, SPOT>>, h |-> "Basis"]
(* IV registered with OPTION_PRICE where FORWARD belongs.                  *)
RegIVMiswired == [RegIV EXCEPT !.ins = <<OPTION_PRICE, SVI_PARAMS, SVI_PARAMS,
                                           SVI_PARAMS, SVI_PARAMS, SVI_PARAMS>>]
(* IV registered with one SVI coefficient fewer than its handler asks for. *)
RegIVShort == [RegIV EXCEPT !.ins = <<FORWARD, SVI_PARAMS, SVI_PARAMS, SVI_PARAMS,
                                        SVI_PARAMS>>]

MCRegistrations == {RegIV, RegIVMiswired, RegIVShort, RegOption, RegBasis}
MCCyclicRegistrations == {RegIVMiswired, RegOption}

(* IV at the money (line 910-915) and a call price (lines 934-944).       *)
IvFeed == [id |-> IV, enumerable |-> Base, other |-> <<Expiry, Strike>>]
OptionFeed == [id |-> OPTION_PRICE, enumerable |-> Base,
               other |-> <<Expiry, Strike, <<"is_call", PyBool(TRUE)>>,
                           <<"is_digital", PyBool(FALSE)>>>>]
BasisFeed == [id |-> BASIS, enumerable |-> Base, other |-> <<Expiry>>]
MCRequests == {IvFeed, OptionFeed, BasisFeed}

=============================================================================
