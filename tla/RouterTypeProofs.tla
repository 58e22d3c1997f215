-------------------------- MODULE RouterTypeProofs --------------------------
(***************************************************************************)
(* Type correctness of DerivedDataProvider (module Router, TypeOK) for    *)
(* every value of the constants that satisfies RouterAssumption: at most   *)
(* RecursionLimit frames are active, each is a well-formed call of         *)
(* get_latest_feed_data, and every result is well formed.                  *)
(***************************************************************************)
EXTENDS RouterProofs

USE RouterAssumption

(* The frames below the innermost one are each waiting on the input they   *)
(* are at: a caller is suspended inside its loop (line 390), never past    *)
(* its last input.                                                         *)
CallersInLoop(s) == \A j \in 1..Len(s) - 1 : s[j].i <= Len(s[j].ins)

(* A frame is the record Frame builds, and input_data is a list.           *)
FrameShape(fr) ==
  /\ DOMAIN fr = {"feed", "ins", "h", "params", "i", "vals", "minTs", "leafTs"}
  /\ fr.vals \in Seq(Rng(fr.vals))

FrameTyped(fr) == FrameShape(fr) /\ FrameOK(fr)

StackTyped(s) ==
  /\ s \in Seq(Rng(s))
  /\ Len(s) <= RecursionLimit
  /\ \A j \in 1..Len(s) : FrameTyped(s[j])
  /\ CallersInLoop(s)

(* The registry holds only registered output ids with typed declarations. *)
CalcTyped ==
  /\ DOMAIN calculators \subseteq {r.out : r \in Registrations}
  /\ \A o \in DOMAIN calculators :
       calculators[o].ins \in Seq(Int) /\ calculators[o].h \in Handlers

RretTyped ==
  /\ rret.status \in RStatuses
  /\ rret.ts \in Int
  /\ rret.leafTs \subseteq Timestamps

(* The inductive invariant behind TypeOK.                                  *)
TInv ==
  /\ DataOK
  /\ version \in 0..MaxVersion
  /\ CalcTyped
  /\ StackTyped(stack)
  /\ RretTyped

-----------------------------------------------------------------------------
(* The frame of a call whose parameter count matched (lines 372-381).      *)
LEMMA FrameFreshTyped ==
  ASSUME CalcTyped, NEW f, f.id \in DOMAIN calculators,
         Len(InputParams(calculators[f.id].h, Params(f))) = Len(calculators[f.id].ins)
  PROVE  FrameTyped(Frame(f))
<1>. DEFINE c == calculators[f.id]
<1>1. c.ins \in Seq(Int) /\ c.h \in Handlers /\ f.id \in Int
  BY DEF CalcTyped
<1>2. Len(c.ins) \in Nat
  BY <1>1, LenProperties
<1>3. <<>> \in Seq(Rng(<<>>)) /\ Len(<<>>) = 0
  BY EmptySeq DEF Rng
<1>. QED
  BY <1>1, <1>2, <1>3 DEF FrameTyped, FrameShape, FrameOK, Frame

(* Appending one element to a list.                                        *)
LEMMA AppendRng ==
  ASSUME NEW v, v \in Seq(Rng(v)), NEW x
  PROVE  /\ Append(v, x) \in Seq(Rng(Append(v, x)))
         /\ Len(Append(v, x)) = Len(v) + 1
<1>1. Append(v, x) \in Seq(Rng(v) \cup {x}) /\ Len(Append(v, x)) = Len(v) + 1
  OBVIOUS
<1>. QED
  BY <1>1, SeqOfRng

(* input_data.append(value) and the min with a timestamp (lines 394-395),  *)
(* for an input the loop is at.                                            *)
LEMMA FrameStepTyped ==
  ASSUME NEW fr, FrameTyped(fr), fr.i <= Len(fr.ins), NEW t \in Int,
         NEW L \in SUBSET Timestamps, NEW v
  PROVE  FrameTyped([fr EXCEPT !.i = @ + 1, !.vals = Append(@, v),
                               !.minTs = MinTs(@, t), !.leafTs = @ \cup L])
<1>1. fr.vals \in Seq(Rng(fr.vals)) /\ Len(fr.vals) = fr.i - 1 /\ fr.i \in Int
  BY DEF FrameTyped, FrameShape, FrameOK
<1>2. Append(fr.vals, v) \in Seq(Rng(Append(fr.vals, v)))
      /\ Len(Append(fr.vals, v)) = fr.i
  BY <1>1, AppendRng
<1>3. MinTs(fr.minTs, t) \in Int
  BY DEF FrameTyped, FrameOK, MinTs
<1>. QED
  BY <1>2, <1>3 DEF FrameTyped, FrameShape, FrameOK

(* Stack operations keep every frame typed and every caller in its loop.   *)
LEMMA StackEmptyTyped == StackTyped(<<>>)
BY EmptySeq DEF StackTyped, CallersInLoop, Rng

LEMMA StackPushTyped ==
  ASSUME NEW s, StackTyped(s), Len(s) < RecursionLimit, NEW x, FrameTyped(x),
         s # <<>> => s[Len(s)].i <= Len(s[Len(s)].ins)
  PROVE  StackTyped(Append(s, x))
<1>1. s \in Seq(Rng(s)) /\ Len(s) \in Nat
  BY LenProperties DEF StackTyped
<1>2. Append(s, x) \in Seq(Rng(Append(s, x))) /\ Len(Append(s, x)) = Len(s) + 1
  BY <1>1, AppendRng
<1>3. \A j \in 1..Len(s) + 1 : FrameTyped(Append(s, x)[j])
  BY <1>1 DEF StackTyped
<1>4. CallersInLoop(Append(s, x))
  BY <1>1 DEF StackTyped, CallersInLoop
<1>. QED
  BY <1>2, <1>3, <1>4 DEF StackTyped

LEMMA StackReplaceTopTyped ==
  ASSUME NEW s, StackTyped(s), s # <<>>, NEW x, FrameTyped(x)
  PROVE  StackTyped([s EXCEPT ![Len(s)] = x])
<1>. DEFINE r == [s EXCEPT ![Len(s)] = x]
<1>1. s \in Seq(Rng(s)) /\ Len(s) \in Nat \ {0}
  BY EmptySeq, LenProperties DEF StackTyped
<1>2. r \in Seq(Rng(s) \cup {x}) /\ Len(r) = Len(s)
  BY <1>1
<1>3. r \in Seq(Rng(r))
  BY <1>2, SeqOfRng
<1>. QED
  BY <1>1, <1>2, <1>3 DEF StackTyped, CallersInLoop

LEMMA StackPopTyped ==
  ASSUME NEW s, StackTyped(s), s # <<>>
  PROVE  LET r == SubSeq(s, 1, Len(s) - 1)
         IN  /\ StackTyped(r)
             /\ r # <<>> => r[Len(r)].i <= Len(r[Len(r)].ins)
<1>. DEFINE r == SubSeq(s, 1, Len(s) - 1)
<1>1. s \in Seq(Rng(s)) /\ Len(s) \in Nat \ {0}
  BY EmptySeq, LenProperties DEF StackTyped
<1>2. \A i \in 1..Len(s) - 1 : s[i] \in Rng(s)
  BY <1>1 DEF Rng
<1>3. /\ r \in Seq(Rng(s))
      /\ Len(r) = IF 1 <= Len(s) - 1 THEN Len(s) - 1 ELSE 0
      /\ \A i \in 1..Len(s) - 1 : r[i] = s[i]
  BY <1>1, <1>2, SubSeqProperties
<1>6. Len(r) = Len(s) - 1
  <2>1. PICK n \in Nat \ {0} : n = Len(s)
    BY <1>1
  <2>. QED
    BY <1>3, <2>1
<1>4. r \in Seq(Rng(r))
  BY <1>3, SeqOfRng
<1>5. r # <<>> => Len(r) \in 1..Len(s) - 1
  BY <1>3, <1>4, <1>6, EmptySeq, LenProperties
<1>7. \A j \in 1..Len(r) : FrameTyped(r[j])
  BY <1>1, <1>3, <1>6 DEF StackTyped
<1>8. CallersInLoop(r)
  BY <1>1, <1>3, <1>6 DEF StackTyped, CallersInLoop
<1>9. r # <<>> => r[Len(r)].i <= Len(r[Len(r)].ins)
  BY <1>1, <1>3, <1>5, <1>6 DEF StackTyped, CallersInLoop
<1>. QED
  BY <1>1, <1>4, <1>6, <1>7, <1>8, <1>9 DEF StackTyped
-----------------------------------------------------------------------------
(* TInv is stronger than TypeOK.                                           *)
LEMMA TInvTypeOK == TInv => TypeOK
<1> SUFFICES ASSUME TInv PROVE TypeOK
  OBVIOUS
<1>1. stack \in Seq(Rng(stack)) /\ Len(stack) <= RecursionLimit
      /\ \A j \in 1..Len(stack) : FrameOK(stack[j])
  BY DEF TInv, StackTyped, FrameTyped
<1>2. Len(stack) \in 0..RecursionLimit /\ DOMAIN stack = 1..Len(stack)
  BY <1>1, LenProperties
<1>3. stack \in [1..Len(stack) ->
                 {fr \in {stack[j] : j \in DOMAIN stack} : FrameOK(fr)}]
  BY <1>1, <1>2, LenProperties
<1>4. \E n \in 0..RecursionLimit :
        stack \in [1..n -> {fr \in {stack[j] : j \in DOMAIN stack} : FrameOK(fr)}]
  BY <1>2, <1>3
<1>. QED
  BY <1>4 DEF TInv, DataOK, CalcTyped, RretTyped, TypeOK

LEMMA InitTInv == Init => TInv
<1> SUFFICES ASSUME Init PROVE TInv
  OBVIOUS
<1>1. DataOK
  BY InitRInv DEF RInv
<1>2. CalcTyped /\ RretTyped /\ version \in 0..MaxVersion
  BY DEF Init, CalcTyped, RretTyped, RResult, RStatuses
<1>3. StackTyped(stack)
  BY StackEmptyTyped DEF Init
<1>. QED
  BY <1>1, <1>2, <1>3 DEF TInv

(* Only reset_all_data moves the version, and never past MaxVersion.       *)
LEMMA VersionStep ==
  ASSUME version \in 0..MaxVersion, St!Next
  PROVE  version' \in 0..MaxVersion
<1>1. CASE St!ResetAllData
  BY <1>1 DEF St!ResetAllData
<1>2. CASE ~St!ResetAllData
  <2>1. version' = version
    BY <1>2 DEF St!Next, St!AddFeedWithValue, St!UpdateDataForFeed,
                St!GetLatestFeedData, St!RemoveFeed, St!FeedCount
  <2>. QED
    BY <2>1
<1>. QED
  BY <1>1, <1>2

(* The checks and frame set-up of lines 372-381, called with room for one  *)
(* more frame and with the caller, if any, inside its loop.                *)
LEMMA CallTyped ==
  ASSUME CalcTyped, StackTyped(stack), RretTyped, Len(stack) < RecursionLimit,
         stack # <<>> => stack[Len(stack)].i <= Len(stack[Len(stack)].ins),
         NEW f, f.id \in DOMAIN calculators, Call(f)
  PROVE  StackTyped(stack') /\ RretTyped'
<1>. DEFINE c == calculators[f.id]
<1>1. CASE Len(InputParams(c.h, Params(f))) # Len(c.ins)
  <2>1. stack' = <<>> /\ rret' = RResult(f, "ArityMismatch", NoValue, 0, {})
    BY <1>1 DEF Call
  <2>. QED
    BY <2>1, StackEmptyTyped DEF RretTyped, RResult, RStatuses
<1>2. CASE Len(InputParams(c.h, Params(f))) = Len(c.ins)
  <2>1. stack' = Append(stack, Frame(f)) /\ rret' = rret
    BY <1>2 DEF Call
  <2>2. FrameTyped(Frame(f))
    BY <1>2, FrameFreshTyped
  <2>. QED
    BY <2>1, <2>2, StackPushTyped DEF RretTyped
<1>. QED
  BY <1>1, <1>2

(* One loop pass of lines 382-395 keeps TInv.                              *)
LEMMA ResolveInputTyped ==
  ASSUME TInv, ResolveInput
  PROVE  TInv'
<1>. DEFINE top == stack[Len(stack)]
            fid == top.ins[top.i]
            in == MkFeed(fid, top.params[top.i])
            obs == St!LookupObs(in)
<1>1. stack # <<>> /\ StackTyped(stack) /\ CalcTyped /\ RretTyped /\ DataOK
      /\ version \in 0..MaxVersion
  BY DEF ResolveInput, TInv
<1>2. Len(stack) \in Nat \ {0} /\ FrameTyped(top)
  BY <1>1, EmptySeq, LenProperties DEF StackTyped
<1>3. top.i <= Len(top.ins)
  BY DEF ResolveInput
<1>4. UNCHANGED <<data, feedIndexes, version, calculators>>
  BY DEF ResolveInput, storageVars
<1>5. DataOK' /\ CalcTyped' /\ version' \in 0..MaxVersion
  BY <1>1, <1>4 DEF DataOK, CalcTyped
<1>6. CASE obs # NoObs
  <2>. DEFINE top2 == [top EXCEPT !.i = @ + 1, !.vals = Append(@, obs.value),
                                  !.minTs = MinTs(@, obs.timestamp),
                                  !.leafTs = @ \cup {obs.timestamp}]
  <2>1. stack' = [stack EXCEPT ![Len(stack)] = top2] /\ rret' = rret
    BY <1>6 DEF ResolveInput
  <2>2. obs.timestamp \in Timestamps
    BY <1>1, <1>6, LookupObsType DEF St!Obs
  <2>3. FrameTyped(top2)
    BY <1>2, <1>3, <2>2, FrameStepTyped
  <2>. QED
    BY <1>1, <1>5, <2>1, <2>3, StackReplaceTopTyped DEF TInv, RretTyped
<1>7. CASE obs = NoObs /\ fid \in DOMAIN calculators
  <2>1. CASE Len(stack) >= RecursionLimit
    <3>1. stack' = <<>> /\ rret' = RResult(in, "RecursionError", NoValue, 0, {})
      BY <1>7, <2>1 DEF ResolveInput
    <3>. QED
      BY <1>5, <3>1, StackEmptyTyped DEF TInv, RretTyped, RResult, RStatuses
  <2>2. CASE Len(stack) < RecursionLimit
    <3>1. Call(in)
      BY <1>7, <2>2 DEF ResolveInput
    <3>2. in.id \in DOMAIN calculators
      BY <1>7 DEF MkFeed
    <3>. QED
      BY <1>1, <1>3, <1>5, <2>2, <3>1, <3>2, CallTyped DEF TInv
  <2>. QED
    BY <2>1, <2>2, <1>2
<1>8. CASE obs = NoObs /\ fid \notin DOMAIN calculators
  <2>1. stack' = <<>> /\ rret' = RResult(in, "NotFound", NoValue, 0, {})
    BY <1>8 DEF ResolveInput
  <2>. QED
    BY <1>5, <2>1, StackEmptyTyped DEF TInv, RretTyped, RResult, RStatuses
<1>. QED
  BY <1>6, <1>7, <1>8

(* Lines 397-400, calculate and return to the caller, keep TInv.           *)
LEMMA ReturnTyped ==
  ASSUME TInv, Return
  PROVE  TInv'
<1>. DEFINE top == stack[Len(stack)]
            v == Calc(top.h, top.minTs, top.vals, Params(top.feed))
            rest == SubSeq(stack, 1, Len(stack) - 1)
<1>1. stack # <<>> /\ StackTyped(stack) /\ CalcTyped /\ RretTyped /\ DataOK
      /\ version \in 0..MaxVersion
  BY DEF Return, TInv
<1>2. Len(stack) \in Nat \ {0} /\ FrameTyped(top)
  BY <1>1, EmptySeq, LenProperties DEF StackTyped
<1>3. UNCHANGED <<data, feedIndexes, version, calculators>>
  BY DEF Return, storageVars
<1>4. DataOK' /\ CalcTyped' /\ version' \in 0..MaxVersion
  BY <1>1, <1>3 DEF DataOK, CalcTyped
<1>5. StackTyped(rest) /\ (rest # <<>> => rest[Len(rest)].i <= Len(rest[Len(rest)].ins))
  BY <1>1, StackPopTyped
<1>6. CASE rest = <<>>
  <2>1. stack' = <<>> /\ rret' = RResult(top.feed, "ok", v, top.minTs, top.leafTs)
    BY <1>6 DEF Return
  <2>2. RretTyped'
    BY <1>2, <2>1 DEF RretTyped, RResult, RStatuses, FrameTyped, FrameOK
  <2>. QED
    BY <1>4, <2>1, <2>2, StackEmptyTyped DEF TInv
<1>7. CASE rest # <<>>
  <2>. DEFINE p == rest[Len(rest)]
              p2 == [p EXCEPT !.i = @ + 1, !.vals = Append(@, v),
                              !.minTs = MinTs(@, top.minTs), !.leafTs = @ \cup top.leafTs]
  <2>1. stack' = [rest EXCEPT ![Len(rest)] = p2] /\ rret' = rret
    BY <1>7 DEF Return
  <2>2. Len(rest) \in Nat \ {0} /\ FrameTyped(p) /\ p.i <= Len(p.ins)
    <3>1. rest \in Seq(Rng(rest)) /\ \A j \in 1..Len(rest) : FrameTyped(rest[j])
      BY <1>5 DEF StackTyped
    <3>2. Len(rest) \in Nat /\ Len(rest) # 0
      BY <3>1, <1>7, EmptySeq, LenProperties
    <3>. QED
      BY <1>5, <1>7, <3>1, <3>2
  <2>3. top.minTs \in Int /\ top.leafTs \subseteq Timestamps
    BY <1>2 DEF FrameTyped, FrameOK
  <2>4. FrameTyped(p2)
    BY <2>2, <2>3, FrameStepTyped
  <2>5. StackTyped(stack')
    BY <1>5, <1>7, <2>1, <2>4, StackReplaceTopTyped
  <2>. QED
    BY <1>1, <1>4, <2>1, <2>5 DEF TInv, RretTyped
<1>. QED
  BY <1>6, <1>7

(* Every step of the router, of the registry and of the storage keeps TInv. *)
LEMMA TStep == TInv /\ [Next]_vars => TInv'
<1> SUFFICES ASSUME TInv, [Next]_vars PROVE TInv'
  OBVIOUS
<1>1. ASSUME NEW r \in Registrations, AddCalculator(r)
      PROVE  TInv'
  <2>1. UNCHANGED <<data, feedIndexes, version, stack, rret>>
    BY <1>1 DEF AddCalculator, storageVars
  <2>2. CalcTyped'
    BY <1>1 DEF AddCalculator, CalcTyped, TInv
  <2>. QED
    BY <2>1, <2>2 DEF TInv, DataOK, RretTyped
<1>2. ASSUME NEW r \in Registrations, RemoveCalculator(r.out)
      PROVE  TInv'
  <2>1. UNCHANGED <<data, feedIndexes, version, stack>>
    BY <1>2 DEF RemoveCalculator, storageVars
  <2>2. RretTyped'
    BY <1>2 DEF RemoveCalculator, RretTyped, RResult, RStatuses
  <2>3. CalcTyped'
    BY <1>2 DEF RemoveCalculator, CalcTyped, TInv
  <2>. QED
    BY <2>1, <2>2, <2>3 DEF TInv, DataOK
<1>3. ASSUME NEW f \in Requests, Request(f)
      PROVE  TInv'
  <2>1. UNCHANGED <<data, feedIndexes, version, calculators>> /\ stack = <<>>
    BY <1>3 DEF Request, storageVars
  <2>2. DataOK' /\ CalcTyped' /\ version' \in 0..MaxVersion
    BY <2>1 DEF TInv, DataOK, CalcTyped
  <2>3. CASE f.id \notin DOMAIN calculators
    <3>1. stack' = stack /\ rret' = RResult(f, "NoCalculator", NoValue, 0, {})
      BY <1>3, <2>3 DEF Request
    <3>. QED
      BY <2>2, <3>1 DEF TInv, RretTyped, RResult, RStatuses
  <2>4. CASE f.id \in DOMAIN calculators
    <3>1. Call(f)
      BY <1>3, <2>4 DEF Request
    <3>2. Len(stack) < RecursionLimit
      BY <2>1
    <3>. QED
      BY <2>1, <2>2, <2>4, <3>1, <3>2, CallTyped DEF TInv
  <2>. QED
    BY <2>3, <2>4
<1>4. CASE ResolveInput
  BY <1>4, ResolveInputTyped
<1>5. CASE Return
  BY <1>5, ReturnTyped
<1>6. CASE StorageCall
  <2>1. St!Next /\ UNCHANGED <<calculators, stack, rret>>
    BY <1>6 DEF StorageCall
  <2>2. DataOK' /\ version' \in 0..MaxVersion
    BY <2>1, StorageStep, VersionStep DEF TInv
  <2>. QED
    BY <2>1, <2>2 DEF TInv, CalcTyped, RretTyped
<1>7. CASE UNCHANGED vars
  <2>1. StackTyped(stack')
    BY <1>7 DEF vars, TInv
  <2>. QED
    BY <1>7, <2>1 DEF vars, TInv, DataOK, CalcTyped, RretTyped
<1>. QED
  BY <1>1, <1>2, <1>3, <1>4, <1>5, <1>6, <1>7 DEF Next

(* For every value of the constants, the router is well typed in every    *)
(* reachable state: the registry holds typed add_calculator declarations,  *)
(* at most RecursionLimit get_latest_feed_data frames are active and each  *)
(* has consumed one value per input it passed, and every result and error  *)
(* is one of the statuses of the code (module Router, TypeOK).             *)
THEOREM RouterTypeCorrect == Spec => []TypeOK
BY InitTInv, TStep, TInvTypeOK, PTL DEF Spec
=============================================================================
