---------------------------- MODULE RouterProofs ----------------------------
(***************************************************************************)
(* Proof that a derived result's timestamp is the oldest timestamp among   *)
(* the observations its resolution read (ResultTimestampIsMinOfReads), for *)
(* every value of the constants, provided no timestamp exceeds the         *)
(* starting value of min_timestamp (line 380).  Run                        *)
(* router_timestamp_past_sentinel shows the property fails without that    *)
(* hypothesis.                                                             *)
(***************************************************************************)
EXTENDS Router, SequenceTheorems, TLAPS

USE RouterAssumption

(* Every observation timestamp is an integer no larger than 2**31 - 1.     *)
TimestampsBelowSentinel ==
  /\ Timestamps \subseteq Int
  /\ \A t \in Timestamps : t <= TsSentinel

Rng(s) == {s[j] : j \in 1..Len(s)}

(* What a frame knows about its min_timestamp: it is the least of the       *)
(* timestamps read so far, or the sentinel while nothing has been read;    *)
(* once an input is consumed something has been read.                      *)
FrameMin(fr) ==
  /\ DOMAIN fr = {"feed", "ins", "h", "params", "i", "vals", "minTs", "leafTs"}
  /\ fr.i \in Nat \ {0}
  /\ Len(fr.ins) \in Nat \ {0}
  /\ fr.leafTs \subseteq Timestamps
  /\ fr.minTs \in Int
  /\ fr.leafTs = {} => fr.minTs = TsSentinel
  /\ fr.leafTs # {} => fr.minTs \in fr.leafTs
  /\ \A t \in fr.leafTs : fr.minTs <= t
  /\ fr.i > 1 => fr.leafTs # {}

StackOKOf(s) ==
  /\ s \in Seq(Rng(s))
  /\ \A j \in 1..Len(s) : FrameMin(s[j])

StackOK == StackOKOf(stack)

RretOK ==
  rret.status = "ok" =>
    /\ rret.leafTs # {}
    /\ rret.leafTs \subseteq Int
    /\ rret.ts \in rret.leafTs
    /\ \A t \in rret.leafTs : rret.ts <= t

DataOK ==
  /\ data \in Seq(St!Obs)
  /\ feedIndexes \in [DOMAIN feedIndexes -> Int]

CalcOK == \A o \in DOMAIN calculators : calculators[o].h \in Handlers

RInv == DataOK /\ CalcOK /\ StackOK /\ RretOK

-----------------------------------------------------------------------------
(* MinOf picks the element that is below all others.                       *)
LEMMA MinOfIsMin ==
  ASSUME NEW S \in SUBSET Int, NEW x \in S, \A u \in S : x <= u
  PROVE  MinOf(S) = x
<1>1. \E y \in S : \A u \in S : y <= u
  OBVIOUS
<1>2. MinOf(S) \in S /\ \A u \in S : MinOf(S) <= u
  BY <1>1 DEF MinOf
<1>3. MinOf(S) \in Int /\ MinOf(S) <= x /\ x <= MinOf(S)
  BY <1>2
<1>. QED
  BY <1>3

(* Every handler declares at least one input.                              *)
LEMMA InputParamsLen ==
  ASSUME NEW h \in Handlers, NEW p
  PROVE  Len(InputParams(h, p)) \in Nat \ {0}
<1>1. CASE h = "SVIImpliedVol"
  <2>. DEFINE svi == [k \in 1..5 |-> [enumerable |-> FirstTwo(p.enumerable) \o <<SVIMember(k - 1)>>,
                                      other |-> <<>>]]
  <2>1. svi \in Seq(Rng(svi))
    BY DEF Rng
  <2>2. <<ForwardParams(p)>> \in Seq({ForwardParams(p)})
    OBVIOUS
  <2>3. Len(<<ForwardParams(p)>> \o svi) = 6
    BY <2>1, <2>2
  <2>. QED
    BY <1>1, <2>3 DEF InputParams, SVIInputParams
<1>2. CASE h = "OptionPrice"
  BY <1>2 DEF InputParams, OptionInputParams, Handlers
<1>3. CASE h = "Basis"
  BY <1>3 DEF InputParams, BasisInputParams, Handlers
<1>. QED
  BY <1>1, <1>2, <1>3 DEF Handlers

(* A read that finds an observation returns an element of _data.           *)
LEMMA LookupObsType ==
  ASSUME DataOK, NEW f, St!LookupObs(f) # NoObs
  PROVE  St!LookupObs(f) \in St!Obs
<1>. DEFINE k == <<f.id, version, f.enumerable, f.other>>
<1>1. k \in DOMAIN feedIndexes /\ St!PyValid(data, feedIndexes[k] - 1)
  BY DEF St!LookupObs, St!FeedKey, St!Missing
<1>2. feedIndexes[k] - 1 \in Int
  BY <1>1 DEF DataOK
<1>3. St!PyPos(data, feedIndexes[k] - 1) \in 1..Len(data)
  BY <1>1, <1>2 DEF DataOK, St!PyValid, St!PyPos
<1>4. St!LookupObs(f) = data[St!PyPos(data, feedIndexes[k] - 1)]
  BY <1>1 DEF St!LookupObs, St!FeedKey, St!Missing
<1>. QED
  BY <1>3, <1>4 DEF DataOK

(* Every DataStorage method keeps _data a list of observations and the      *)
(* slots integers.                                                          *)
LEMMA StorageStep ==
  ASSUME DataOK, St!Next
  PROVE  DataOK'
<1>. USE DEF DataOK
<1>1. ASSUME NEW f, NEW o \in St!Obs, NEW ti \in St!CallerTargets,
             St!AddFeedWithValue(f, o, ti)
      PROVE  DataOK'
  <2>. DEFINE k == St!FeedKey(f)
  <2>0. ti \in Int \cup {NoTarget}
    BY DEF St!CallerTargets
  <2>1. CASE k \in DOMAIN feedIndexes /\ UNCHANGED <<data, feedIndexes>>
    BY <2>1
  <2>2. CASE /\ ti # NoTarget
             /\ St!PyValid(data, ti)
             /\ data' = [data EXCEPT ![St!PyPos(data, ti)] = o]
             /\ feedIndexes' = St!SetIndex(feedIndexes, k, ti + 1)
    <3>1. ti \in Int
      BY <2>0, <2>2
    <3>2. St!PyPos(data, ti) \in 1..Len(data)
      BY <2>2, <3>1 DEF St!PyValid, St!PyPos
    <3>3. data' \in Seq(St!Obs)
      BY <2>2, <3>2
    <3>. QED
      BY <2>2, <3>1, <3>3 DEF St!SetIndex
  <2>3. CASE UNCHANGED <<data, feedIndexes>>
    BY <2>3
  <2>4. CASE /\ data' = Append(data, o)
             /\ feedIndexes' = St!SetIndex(feedIndexes, k, Len(data) + 1)
    BY <2>4 DEF St!SetIndex
  <2>. QED
    BY <1>1, <2>1, <2>2, <2>3, <2>4 DEF St!AddFeedWithValue
<1>2. ASSUME NEW f, NEW o \in St!Obs, St!UpdateDataForFeed(f, o)
      PROVE  DataOK'
  <2>. DEFINE k == St!FeedKey(f)
              ok == St!PyValid(data, feedIndexes[k] - 1)
  <2>1. CASE St!Missing(k)
    BY <1>2, <2>1 DEF St!UpdateDataForFeed
  <2>2. CASE ~St!Missing(k) /\ ok
    <3>1. k \in DOMAIN feedIndexes
      BY <2>2 DEF St!Missing
    <3>2. St!PyPos(data, feedIndexes[k] - 1) \in 1..Len(data)
      BY <2>2, <3>1 DEF St!PyValid, St!PyPos
    <3>3. data' = [data EXCEPT ![St!PyPos(data, feedIndexes[k] - 1)] = o]
          /\ feedIndexes' = feedIndexes
      BY <1>2, <2>2 DEF St!UpdateDataForFeed
    <3>. QED
      BY <3>2, <3>3
  <2>3. CASE ~St!Missing(k) /\ ~ok
    BY <1>2, <2>3 DEF St!UpdateDataForFeed
  <2>. QED
    BY <2>1, <2>2, <2>3
<1>3. ASSUME NEW f, St!GetLatestFeedData(f) \/ St!RemoveFeed(f)
      PROVE  DataOK'
  BY <1>3 DEF St!GetLatestFeedData, St!RemoveFeed
<1>4. CASE St!ResetAllData \/ St!FeedCount
  <2>1. CASE St!ResetAllData
    <3>1. data' = <<>> /\ feedIndexes' = [x \in {} |-> 0]
      BY <2>1 DEF St!ResetAllData, St!NoKeys
    <3>. QED
      BY <3>1
  <2>2. CASE St!FeedCount
    BY <2>2 DEF St!FeedCount
  <2>. QED
    BY <1>4, <2>1, <2>2
<1>5. CASE \E f \in Feeds, o \in St!Obs :
             \/ \E ti \in St!CallerTargets : St!AddFeedWithValue(f, o, ti)
             \/ St!UpdateDataForFeed(f, o)
  BY <1>1, <1>2, <1>5
<1>6. CASE \E f \in Feeds : St!GetLatestFeedData(f) \/ St!RemoveFeed(f)
  BY <1>3, <1>6
<1>. QED
  BY <1>4, <1>5, <1>6 DEF St!Next

-----------------------------------------------------------------------------
(* A fresh frame (lines 379-380) satisfies FrameMin.                       *)
LEMMA FrameFresh ==
  ASSUME CalcOK, NEW f, f.id \in DOMAIN calculators,
         Len(InputParams(calculators[f.id].h, Params(f))) = Len(calculators[f.id].ins)
  PROVE  FrameMin(Frame(f))
<1>1. Len(calculators[f.id].ins) \in Nat \ {0}
  BY InputParamsLen DEF CalcOK
<1>. QED
  BY <1>1 DEF FrameMin, Frame

(* Consuming an input read from storage (lines 386, 394-395).              *)
LEMMA FrameRead ==
  ASSUME TimestampsBelowSentinel, NEW fr, FrameMin(fr), NEW t \in Timestamps, NEW v
  PROVE  FrameMin([fr EXCEPT !.i = @ + 1, !.vals = Append(@, v),
                             !.minTs = MinTs(@, t), !.leafTs = @ \cup {t}])
<1>1. t \in Int /\ t <= TsSentinel
  BY DEF TimestampsBelowSentinel
<1>. QED
  BY <1>1 DEF FrameMin, MinTs, TimestampsBelowSentinel

(* Consuming the value a finished derived input returned (lines 389,       *)
(* 394-395).                                                               *)
LEMMA FrameReturn ==
  ASSUME TimestampsBelowSentinel, NEW p, NEW c, FrameMin(p), FrameMin(c),
         c.i > Len(c.ins), NEW v
  PROVE  FrameMin([p EXCEPT !.i = @ + 1, !.vals = Append(@, v),
                            !.minTs = MinTs(@, c.minTs), !.leafTs = @ \cup c.leafTs])
<1>1. c.leafTs # {} /\ c.minTs \in c.leafTs
  BY DEF FrameMin
<1>2. c.minTs <= TsSentinel
  BY <1>1 DEF FrameMin, TimestampsBelowSentinel
<1>. QED
  BY <1>1, <1>2 DEF FrameMin, MinTs, TimestampsBelowSentinel

(* Stack operations keep every frame satisfying FrameMin.                  *)
LEMMA SeqOfRng ==
  ASSUME NEW T, NEW s \in Seq(T)
  PROVE  s \in Seq(Rng(s))
BY DEF Rng

LEMMA StackPush ==
  ASSUME NEW s, StackOKOf(s), NEW x, FrameMin(x)
  PROVE  StackOKOf(Append(s, x))
<1>1. s \in Seq(Rng(s)) /\ \A j \in 1..Len(s) : FrameMin(s[j])
  BY DEF StackOKOf
<1>2. Append(s, x) \in Seq(Rng(s) \cup {x})
  BY <1>1
<1>3. Append(s, x) \in Seq(Rng(Append(s, x)))
  BY <1>2, SeqOfRng
<1>4. \A j \in 1..Len(Append(s, x)) : FrameMin(Append(s, x)[j])
  BY <1>1
<1>. QED
  BY <1>3, <1>4 DEF StackOKOf

LEMMA StackReplaceTop ==
  ASSUME NEW s, StackOKOf(s), s # <<>>, NEW x, FrameMin(x)
  PROVE  StackOKOf([s EXCEPT ![Len(s)] = x])
<1>. DEFINE r == [s EXCEPT ![Len(s)] = x]
<1>1. s \in Seq(Rng(s)) /\ \A j \in 1..Len(s) : FrameMin(s[j])
  BY DEF StackOKOf
<1>2. r \in Seq(Rng(s) \cup {x}) /\ Len(r) = Len(s)
  BY <1>1
<1>3. r \in Seq(Rng(r))
  BY <1>2, SeqOfRng
<1>4. \A j \in 1..Len(r) : FrameMin(r[j])
  BY <1>1, <1>2
<1>. QED
  BY <1>3, <1>4 DEF StackOKOf

LEMMA StackPop ==
  ASSUME NEW s, StackOKOf(s), s # <<>>
  PROVE  StackOKOf(SubSeq(s, 1, Len(s) - 1))
<1>. DEFINE r == SubSeq(s, 1, Len(s) - 1)
<1>1. s \in Seq(Rng(s)) /\ \A j \in 1..Len(s) : FrameMin(s[j])
  BY DEF StackOKOf
<1>2. Len(s) \in Nat \ {0}
  BY <1>1, EmptySeq
<1>3. \A i \in 1..Len(s) - 1 : s[i] \in Rng(s)
  BY <1>2 DEF Rng
<1>4. /\ r \in Seq(Rng(s))
      /\ Len(r) = IF 1 <= Len(s) - 1 THEN Len(s) - 1 ELSE 0
      /\ \A i \in 1..Len(s) - 1 : r[i] = s[i]
  BY <1>2, <1>3, SubSeqProperties
<1>5. r \in Seq(Rng(r))
  BY <1>4, SeqOfRng
<1>6. \A j \in 1..Len(r) : FrameMin(r[j])
  BY <1>1, <1>2, <1>4
<1>. QED
  BY <1>5, <1>6 DEF StackOKOf

LEMMA StackEmpty == StackOKOf(<<>>)
BY DEF StackOKOf, Rng

-----------------------------------------------------------------------------
(* The state main() leaves (lines 827-897) satisfies RInv.                 *)
LEMMA InitRInv == Init => RInv
<1> SUFFICES ASSUME Init PROVE RInv
  OBVIOUS
<1>. DEFINE n == Len(InitialFeeds)
            key(i) == <<InitialFeeds[i][1].id, 0, InitialFeeds[i][1].enumerable,
                        InitialFeeds[i][1].other>>
<1>1. n \in Nat /\ DOMAIN InitialFeeds = 1..n
  BY LenProperties
<1>2. data \in Seq(St!Obs)
  BY <1>1 DEF Init
<1>3. feedIndexes \in [DOMAIN feedIndexes -> Int]
  <2>. DEFINE KS == {key(i) : i \in 1..n}
              F == [k \in KS |-> CHOOSE i \in 1..n : k = key(i)]
  <2>1. feedIndexes = F
    BY DEF Init
  <2>2. \A k \in KS : F[k] \in 1..n
    <3>. TAKE k \in KS
    <3>1. \E i \in 1..n : k = key(i)
      OBVIOUS
    <3>2. (CHOOSE i \in 1..n : k = key(i)) \in 1..n
      BY <3>1, Zenon
    <3>. QED
      BY <3>2
  <2>3. F \in [KS -> Int]
    BY <1>1, <2>2
  <2>. QED
    BY <2>1, <2>3
<1>4. CalcOK /\ StackOK /\ RretOK
  BY StackEmpty DEF Init, CalcOK, StackOK, RretOK, RResult
<1>. QED
  BY <1>2, <1>3, <1>4 DEF RInv, DataOK

(* The checks and frame set-up of lines 372-381 keep the stack and the     *)
(* result invariant.                                                       *)
LEMMA CallStep ==
  ASSUME CalcOK, StackOK, RretOK, NEW f, f.id \in DOMAIN calculators, Call(f)
  PROVE  StackOK' /\ RretOK'
<1>. DEFINE c == calculators[f.id]
<1>1. CASE Len(InputParams(c.h, Params(f))) # Len(c.ins)
  <2>1. stack' = <<>> /\ rret'.status = "ArityMismatch"
    BY <1>1 DEF Call, RResult
  <2>. QED
    BY <2>1, StackEmpty DEF StackOK, RretOK
<1>2. CASE Len(InputParams(c.h, Params(f))) = Len(c.ins)
  <2>1. stack' = Append(stack, Frame(f)) /\ rret' = rret
    BY <1>2 DEF Call
  <2>2. FrameMin(Frame(f))
    BY <1>2, FrameFresh
  <2>. QED
    BY <2>1, <2>2, StackPush DEF StackOK, RretOK
<1>. QED
  BY <1>1, <1>2

(* One loop pass of lines 382-395 keeps RInv.                              *)
LEMMA ResolveInputStep ==
  ASSUME TimestampsBelowSentinel, RInv, ResolveInput
  PROVE  RInv'
<1>. DEFINE top == stack[Len(stack)]
            fid == top.ins[top.i]
            in == MkFeed(fid, top.params[top.i])
            obs == St!LookupObs(in)
<1>1. stack # <<>> /\ StackOK /\ CalcOK /\ RretOK /\ DataOK
  BY DEF ResolveInput, RInv
<1>2. Len(stack) \in Nat \ {0} /\ FrameMin(top)
  BY <1>1, EmptySeq DEF StackOK, StackOKOf
<1>3. UNCHANGED <<data, feedIndexes, calculators>>
  BY DEF ResolveInput, storageVars
<1>4. DataOK' /\ CalcOK'
  BY <1>1, <1>3 DEF DataOK, CalcOK
<1>5. CASE obs # NoObs
  <2>1. stack' = [stack EXCEPT ![Len(stack)] =
                    [top EXCEPT !.i = @ + 1, !.vals = Append(@, obs.value),
                                !.minTs = MinTs(@, obs.timestamp),
                                !.leafTs = @ \cup {obs.timestamp}]]
        /\ rret' = rret
    BY <1>5 DEF ResolveInput
  <2>2. obs \in St!Obs
    BY <1>1, <1>5, LookupObsType
  <2>3. FrameMin([top EXCEPT !.i = @ + 1, !.vals = Append(@, obs.value),
                             !.minTs = MinTs(@, obs.timestamp),
                             !.leafTs = @ \cup {obs.timestamp}])
    BY <1>2, <2>2, FrameRead DEF St!Obs
  <2>. QED
    BY <1>1, <1>4, <2>1, <2>3, StackReplaceTop DEF RInv, StackOK, RretOK
<1>6. CASE obs = NoObs /\ fid \in DOMAIN calculators
  <2>1. CASE Len(stack) >= RecursionLimit
    <3>1. stack' = <<>> /\ rret'.status = "RecursionError"
      BY <1>6, <2>1 DEF ResolveInput, RResult
    <3>. QED
      BY <1>4, <3>1, StackEmpty DEF RInv, StackOK, RretOK
  <2>2. CASE Len(stack) < RecursionLimit
    <3>1. Call(in)
      BY <1>6, <2>2 DEF ResolveInput
    <3>2. in.id \in DOMAIN calculators
      BY <1>6 DEF MkFeed
    <3>. QED
      BY <1>1, <1>4, <3>1, <3>2, CallStep DEF RInv
  <2>. QED
    BY <2>1, <2>2, <1>2 DEF RouterAssumption
<1>7. CASE obs = NoObs /\ fid \notin DOMAIN calculators
  <2>1. stack' = <<>> /\ rret'.status = "NotFound"
    BY <1>7 DEF ResolveInput, RResult
  <2>. QED
    BY <1>4, <2>1, StackEmpty DEF RInv, StackOK, RretOK
<1>. QED
  BY <1>5, <1>6, <1>7

(* Lines 397-400, calculate and return to the caller, keep RInv.           *)
LEMMA ReturnStep ==
  ASSUME TimestampsBelowSentinel, RInv, Return
  PROVE  RInv'
<1>. DEFINE top == stack[Len(stack)]
            v == Calc(top.h, top.minTs, top.vals, Params(top.feed))
            rest == SubSeq(stack, 1, Len(stack) - 1)
<1>1. stack # <<>> /\ StackOK /\ CalcOK /\ RretOK /\ DataOK
  BY DEF Return, RInv
<1>2. Len(stack) \in Nat \ {0} /\ FrameMin(top)
  BY <1>1, EmptySeq DEF StackOK, StackOKOf
<1>3. top.i > Len(top.ins)
  BY DEF Return
<1>4. top.leafTs # {} /\ top.minTs \in top.leafTs /\ \A t \in top.leafTs : top.minTs <= t
  BY <1>2, <1>3 DEF FrameMin
<1>5. DataOK' /\ CalcOK'
  <2>1. UNCHANGED <<data, feedIndexes, calculators>>
    BY DEF Return, storageVars
  <2>. QED
    BY <1>1, <2>1 DEF DataOK, CalcOK
<1>6. StackOKOf(rest)
  BY <1>1, StackPop DEF StackOK
<1>7. CASE rest = <<>>
  <2>1. stack' = <<>> /\ rret' = RResult(top.feed, "ok", v, top.minTs, top.leafTs)
    BY <1>7 DEF Return
  <2>2. RretOK'
    BY <1>2, <1>4, <2>1 DEF RretOK, RResult, FrameMin, TimestampsBelowSentinel
  <2>. QED
    BY <1>5, <2>1, <2>2, StackEmpty DEF RInv, StackOK
<1>8. CASE rest # <<>>
  <2>. DEFINE p == rest[Len(rest)]
              p2 == [p EXCEPT !.i = @ + 1, !.vals = Append(@, v),
                              !.minTs = MinTs(@, top.minTs), !.leafTs = @ \cup top.leafTs]
  <2>1. stack' = [rest EXCEPT ![Len(rest)] = p2] /\ rret' = rret
    BY <1>8 DEF Return
  <2>2. Len(rest) \in Nat \ {0} /\ FrameMin(p)
    <3>1. rest \in Seq(Rng(rest)) /\ \A j \in 1..Len(rest) : FrameMin(rest[j])
      BY <1>6 DEF StackOKOf
    <3>2. Len(rest) \in Nat /\ Len(rest) # 0
      BY <3>1, <1>8, EmptySeq, LenProperties
    <3>. QED
      BY <3>1, <3>2
  <2>3. FrameMin(p2)
    BY <1>2, <1>3, <2>2, FrameReturn
  <2>. QED
    BY <1>1, <1>5, <1>6, <1>8, <2>1, <2>3, StackReplaceTop DEF RInv, StackOK, RretOK
<1>. QED
  BY <1>7, <1>8

(* Every step of the router, of the registry and of the storage keeps RInv. *)
LEMMA RStep ==
  ASSUME TimestampsBelowSentinel, RInv, [Next]_vars
  PROVE  RInv'
<1>1. ASSUME NEW r \in Registrations, AddCalculator(r)
      PROVE  RInv'
  <2>1. UNCHANGED <<data, feedIndexes, stack, rret>>
    BY <1>1 DEF AddCalculator, storageVars
  <2>2. CalcOK'
    BY <1>1 DEF AddCalculator, CalcOK, RInv
  <2>. QED
    BY <2>1, <2>2 DEF RInv, DataOK, StackOK, RretOK
<1>2. ASSUME NEW r \in Registrations, RemoveCalculator(r.out)
      PROVE  RInv'
  <2>1. UNCHANGED <<data, feedIndexes, stack>> /\ rret'.status # "ok"
    BY <1>2 DEF RemoveCalculator, storageVars, RResult
  <2>2. CalcOK'
    BY <1>2 DEF RemoveCalculator, CalcOK, RInv
  <2>. QED
    BY <2>1, <2>2 DEF RInv, DataOK, StackOK, RretOK
<1>3. ASSUME NEW f \in Requests, Request(f)
      PROVE  RInv'
  <2>1. UNCHANGED <<data, feedIndexes, calculators>> /\ stack = <<>>
    BY <1>3 DEF Request, storageVars
  <2>2. DataOK' /\ CalcOK'
    BY <2>1 DEF RInv, DataOK, CalcOK
  <2>3. CASE f.id \notin DOMAIN calculators
    <3>1. stack' = stack /\ rret'.status = "NoCalculator"
      BY <1>3, <2>3 DEF Request, RResult
    <3>. QED
      BY <2>2, <3>1 DEF RInv, StackOK, RretOK
  <2>4. CASE f.id \in DOMAIN calculators
    <3>1. Call(f)
      BY <1>3, <2>4 DEF Request
    <3>. QED
      BY <2>2, <2>4, <3>1, CallStep DEF RInv
  <2>. QED
    BY <2>3, <2>4
<1>4. CASE ResolveInput
  BY <1>4, ResolveInputStep
<1>5. CASE Return
  BY <1>5, ReturnStep
<1>6. CASE StorageCall
  <2>1. St!Next /\ UNCHANGED <<calculators, stack, rret>>
    BY <1>6 DEF StorageCall
  <2>. QED
    BY <2>1, StorageStep DEF RInv, CalcOK, StackOK, RretOK
<1>7. CASE UNCHANGED vars
  BY <1>7 DEF vars, RInv, DataOK, CalcOK, StackOK, StackOKOf, Rng, RretOK
<1>. QED
  BY <1>1, <1>2, <1>3, <1>4, <1>5, <1>6, <1>7 DEF Next

(* For every value of the constants in which no observation timestamp      *)
(* exceeds 2**31 - 1, every result get_latest_feed_data returns carries    *)
(* the oldest timestamp among the observations its resolution read.        *)
THEOREM TimestampIsMinOfReads ==
  ASSUME TimestampsBelowSentinel
  PROVE  Spec => []ResultTimestampIsMinOfReads
<1>1. Init => RInv
  BY InitRInv
<1>2. RInv /\ [Next]_vars => RInv'
  BY RStep
<1>3. RInv => ResultTimestampIsMinOfReads
  <2>. SUFFICES ASSUME RInv, rret.status = "ok"
                PROVE  rret.leafTs # {} /\ rret.ts = MinOf(rret.leafTs)
    BY DEF ResultTimestampIsMinOfReads
  <2>1. rret.leafTs # {} /\ rret.ts \in rret.leafTs /\ \A t \in rret.leafTs : rret.ts <= t
    BY DEF RInv, RretOK
  <2>2. rret.leafTs \subseteq Int
    BY DEF RInv, RretOK
  <2>. QED
    BY <2>1, <2>2, MinOfIsMin
<1>. QED
  BY <1>1, <1>2, <1>3, PTL DEF Spec
=============================================================================
