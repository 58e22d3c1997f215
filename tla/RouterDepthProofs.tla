-------------------------- MODULE RouterDepthProofs --------------------------
(***************************************************************************)
(* When is get_latest_feed_data free of RecursionError?  The recursion of *)
(* line 389 has no cycle guard (run router_cyclic_registration), but if    *)
(* the feed types the admin registers can be ranked so that every derived  *)
(* input ranks below the output it feeds, and no rank reaches the         *)
(* recursion limit, no resolution ever goes RecursionLimit frames deep.   *)
(***************************************************************************)
EXTENDS RouterTypeProofs

USE RouterAssumption

(* A ranking of the registered outputs: a calculator's derived inputs rank *)
(* below its output, and every rank is below the recursion limit.          *)
RankedRegistry(rank) ==
  /\ rank \in [{r.out : r \in Registrations} -> 0..RecursionLimit - 1]
  /\ \A r \in Registrations : \A j \in 1..Len(r.ins) :
       r.ins[j] \in DOMAIN rank => rank[r.ins[j]] < rank[r.out]

(* Every registry entry is one of the add_calculator calls.                *)
RegistryFromCalls ==
  \A o \in DOMAIN calculators :
    \E r \in Registrations : r.out = o /\ calculators[o] = [ins |-> r.ins, h |-> r.h]

(* Each frame is a call for a registered output, with that output's inputs *)
(* (the registry does not change during a resolution).                     *)
FramesCalled ==
  \A j \in 1..Len(stack) :
    /\ stack[j].feed.id \in DOMAIN calculators
    /\ stack[j].ins = calculators[stack[j].feed.id].ins

(* The frame at depth j computes an output of rank at most RecursionLimit-j. *)
FramesRanked(rank) ==
  \A j \in 1..Len(stack) : rank[stack[j].feed.id] + j <= RecursionLimit

(* The inductive invariant behind NoRecursionError.                        *)
DInv(rank) ==
  /\ TInv
  /\ RegistryFromCalls
  /\ FramesCalled
  /\ FramesRanked(rank)
  /\ ResolutionErrorsInTaxonomy

-----------------------------------------------------------------------------
(* Frames whose output and inputs stay put keep both properties.           *)
LEMMA FramesKept ==
  ASSUME NEW rank, calculators' = calculators, FramesCalled, FramesRanked(rank),
         \A j \in 1..Len(stack') :
           /\ j \in 1..Len(stack)
           /\ stack'[j].feed.id = stack[j].feed.id
           /\ stack'[j].ins = stack[j].ins
  PROVE  FramesCalled' /\ FramesRanked(rank)'
BY DEF FramesCalled, FramesRanked

LEMMA FramesEmpty ==
  ASSUME NEW rank, stack' = <<>>
  PROVE  FramesCalled' /\ FramesRanked(rank)'
BY DEF FramesCalled, FramesRanked

(* A call pushed on top of the stack, for an output ranked low enough.     *)
LEMMA FramesPush ==
  ASSUME NEW rank, calculators' = calculators, FramesCalled, FramesRanked(rank),
         stack \in Seq(Rng(stack)), NEW x,
         x.feed.id \in DOMAIN calculators, x.ins = calculators[x.feed.id].ins,
         rank[x.feed.id] \in Int, rank[x.feed.id] + Len(stack) + 1 <= RecursionLimit,
         stack' = Append(stack, x)
  PROVE  FramesCalled' /\ FramesRanked(rank)'
<1>1. Len(stack) \in Nat /\ Len(stack') = Len(stack) + 1
      /\ stack'[Len(stack) + 1] = x
      /\ \A j \in 1..Len(stack) : stack'[j] = stack[j]
  BY LenProperties, AppendProperties
<1>2. ASSUME NEW j \in 1..Len(stack')
      PROVE  /\ stack'[j].feed.id \in DOMAIN calculators'
             /\ stack'[j].ins = calculators'[stack'[j].feed.id].ins
             /\ rank[stack'[j].feed.id] + j <= RecursionLimit
  <2>1. CASE j \in 1..Len(stack)
    <3>1. stack'[j] = stack[j]
      BY <1>1, <2>1
    <3>2. /\ stack[j].feed.id \in DOMAIN calculators
          /\ stack[j].ins = calculators[stack[j].feed.id].ins
          /\ rank[stack[j].feed.id] + j <= RecursionLimit
      BY <2>1 DEF FramesCalled, FramesRanked
    <3>. QED
      BY <3>1, <3>2
  <2>2. CASE j = Len(stack) + 1
    <3>1. stack'[j] = x
      BY <1>1, <2>2
    <3>. QED
      BY <3>1, <2>2
  <2>. QED
    BY <1>1, <2>1, <2>2
<1>. QED
  BY <1>2 DEF FramesCalled, FramesRanked

(* The frame set-up of lines 372-381 for a registered output ranked so     *)
(* that one more frame fits under the limit.                               *)
LEMMA CallDepth ==
  ASSUME NEW rank, FramesCalled, FramesRanked(rank), stack \in Seq(Rng(stack)),
         NEW f, f.id \in DOMAIN calculators,
         rank[f.id] \in Int, rank[f.id] + Len(stack) + 1 <= RecursionLimit,
         Call(f), UNCHANGED calculators, ResolutionErrorsInTaxonomy
  PROVE  FramesCalled' /\ FramesRanked(rank)' /\ ResolutionErrorsInTaxonomy'
<1>. DEFINE c == calculators[f.id]
<1>1. CASE Len(InputParams(c.h, Params(f))) # Len(c.ins)
  <2>1. stack' = <<>> /\ rret' = RResult(f, "ArityMismatch", NoValue, 0, {})
    BY <1>1 DEF Call
  <2>. QED
    BY <2>1, FramesEmpty DEF ResolutionErrorsInTaxonomy, RResult
<1>2. CASE Len(InputParams(c.h, Params(f))) = Len(c.ins)
  <2>1. stack' = Append(stack, Frame(f)) /\ rret' = rret
    BY <1>2 DEF Call
  <2>2. Frame(f).feed.id = f.id /\ Frame(f).ins = calculators[f.id].ins
    BY DEF Frame
  <2>. QED
    BY <2>1, <2>2, FramesPush DEF ResolutionErrorsInTaxonomy
<1>. QED
  BY <1>1, <1>2

(* A frame replaced on top of a prefix of the stack, keeping its output    *)
(* and inputs (input_data.append of lines 394 and 399).                    *)
LEMMA FramesReplace ==
  ASSUME NEW rank, calculators' = calculators, FramesCalled, FramesRanked(rank),
         NEW s, s \in Seq(Rng(s)), Len(s) \in 1..Len(stack),
         \A j \in 1..Len(s) : s[j] = stack[j],
         NEW y, y.feed = s[Len(s)].feed, y.ins = s[Len(s)].ins,
         stack' = [s EXCEPT ![Len(s)] = y]
  PROVE  FramesCalled' /\ FramesRanked(rank)'
<1>1. /\ Len(stack') = Len(s)
      /\ \A j \in 1..Len(s) : stack'[j] = IF j = Len(s) THEN y ELSE s[j]
  BY LenProperties
<1>2. \A j \in 1..Len(stack') :
        /\ j \in 1..Len(stack)
        /\ stack'[j].feed.id = stack[j].feed.id
        /\ stack'[j].ins = stack[j].ins
  BY <1>1
<1>. QED
  BY <1>2, FramesKept

(* The frames below the top, as SubSeq(stack, 1, Len(stack) - 1).         *)
LEMMA PopPrefix ==
  ASSUME NEW s, s \in Seq(Rng(s)), s # <<>>
  PROVE  LET r == SubSeq(s, 1, Len(s) - 1)
         IN  /\ r \in Seq(Rng(r))
             /\ Len(r) = Len(s) - 1
             /\ \A i \in 1..Len(r) : r[i] = s[i]
<1>. DEFINE r == SubSeq(s, 1, Len(s) - 1)
<1>1. Len(s) \in Nat \ {0}
  BY EmptySeq, LenProperties
<1>2. \A i \in 1..Len(s) - 1 : s[i] \in Rng(s)
  BY <1>1 DEF Rng
<1>3. /\ r \in Seq(Rng(s))
      /\ Len(r) = IF 1 <= Len(s) - 1 THEN Len(s) - 1 ELSE 0
      /\ \A i \in 1..Len(s) - 1 : r[i] = s[i]
  BY <1>1, <1>2, SubSeqProperties
<1>4. Len(r) = Len(s) - 1
  <2>1. PICK n \in Nat \ {0} : n = Len(s)
    BY <1>1
  <2>. QED
    BY <1>3, <2>1
<1>. QED
  BY <1>3, <1>4, SeqOfRng

-----------------------------------------------------------------------------
(* One loop pass of lines 382-395.  A derived input ranks below the frame  *)
(* that asks for it, so the recursive call of line 389 always fits under   *)
(* the limit and the RecursionError branch is never taken.                 *)
LEMMA DResolve ==
  ASSUME NEW rank, RankedRegistry(rank), DInv(rank), ResolveInput
  PROVE  /\ RegistryFromCalls' /\ FramesCalled' /\ FramesRanked(rank)'
         /\ ResolutionErrorsInTaxonomy'
<1>. DEFINE top == stack[Len(stack)]
            fid == top.ins[top.i]
            in == MkFeed(fid, top.params[top.i])
            obs == St!LookupObs(in)
<1>1. /\ stack # <<>> /\ StackTyped(stack) /\ CalcTyped /\ RegistryFromCalls
      /\ FramesCalled /\ FramesRanked(rank) /\ ResolutionErrorsInTaxonomy
  BY DEF ResolveInput, DInv, TInv
<1>2. Len(stack) \in Nat \ {0} /\ FrameTyped(top) /\ stack \in Seq(Rng(stack))
  BY <1>1, EmptySeq, LenProperties DEF StackTyped
<1>3. top.i \in 1..Len(top.ins)
  BY <1>2 DEF ResolveInput, FrameTyped, FrameOK
<1>4. calculators' = calculators
  BY DEF ResolveInput
<1>5. RegistryFromCalls'
  BY <1>1, <1>4 DEF RegistryFromCalls
<1>6. fid \in DOMAIN calculators =>
        rank[fid] \in 0..RecursionLimit - 1 /\ rank[fid] + Len(stack) + 1 <= RecursionLimit
  <2>. SUFFICES ASSUME fid \in DOMAIN calculators
               PROVE  rank[fid] \in 0..RecursionLimit - 1
                      /\ rank[fid] + Len(stack) + 1 <= RecursionLimit
    OBVIOUS
  <2>1. /\ top.feed.id \in DOMAIN calculators
        /\ top.ins = calculators[top.feed.id].ins
        /\ rank[top.feed.id] + Len(stack) <= RecursionLimit
    BY <1>1, <1>2 DEF FramesCalled, FramesRanked
  <2>2. PICK r \in Registrations :
          r.out = top.feed.id /\ calculators[top.feed.id] = [ins |-> r.ins, h |-> r.h]
    BY <1>1, <2>1 DEF RegistryFromCalls
  <2>3. top.ins = r.ins
    BY <2>1, <2>2
  <2>4. fid \in DOMAIN rank /\ top.feed.id \in DOMAIN rank
    BY <1>1, <2>1 DEF CalcTyped, RankedRegistry
  <2>5. rank[fid] < rank[r.out]
    BY <1>3, <2>3, <2>4 DEF RankedRegistry
  <2>6. rank[fid] \in 0..RecursionLimit - 1 /\ rank[top.feed.id] \in 0..RecursionLimit - 1
    BY <2>4 DEF RankedRegistry
  <2>7. rank[fid] + 1 <= rank[top.feed.id]
    BY <2>2, <2>5, <2>6
  <2>8. rank[top.feed.id] \in Int /\ rank[fid] \in Int /\ Len(stack) \in Nat
    BY <1>2, <2>6
  <2>9. rank[fid] + Len(stack) + 1 <= RecursionLimit
    BY <2>1, <2>7, <2>8, SMTT(30)
  <2>. QED
    BY <2>6, <2>9
<1>7. CASE obs # NoObs
  <2>. DEFINE top2 == [top EXCEPT !.i = @ + 1, !.vals = Append(@, obs.value),
                                  !.minTs = MinTs(@, obs.timestamp),
                                  !.leafTs = @ \cup {obs.timestamp}]
  <2>1. stack' = [stack EXCEPT ![Len(stack)] = top2] /\ rret' = rret
    BY <1>7 DEF ResolveInput
  <2>2. top2.feed = top.feed /\ top2.ins = top.ins
    BY <1>2 DEF FrameTyped, FrameShape
  <2>3. Len(stack) \in 1..Len(stack) /\ \A j \in 1..Len(stack) : stack[j] = stack[j]
    BY <1>2
  <2>4. FramesCalled' /\ FramesRanked(rank)'
    BY <1>1, <1>2, <1>4, <2>1, <2>2, <2>3, FramesReplace
  <2>. QED
    BY <1>1, <1>5, <2>1, <2>4 DEF ResolutionErrorsInTaxonomy
<1>8. CASE obs = NoObs /\ fid \in DOMAIN calculators
  <2>1. Len(stack) < RecursionLimit
    BY <1>2, <1>6, <1>8
  <2>2. Call(in)
    BY <1>8, <2>1 DEF ResolveInput
  <2>3. in.id = fid
    BY DEF MkFeed
  <2>4. in.id \in DOMAIN calculators /\ rank[in.id] \in Int
        /\ rank[in.id] + Len(stack) + 1 <= RecursionLimit
    BY <1>6, <1>8, <2>3
  <2>. QED
    BY <1>1, <1>2, <1>4, <1>5, <2>2, <2>4, CallDepth
<1>9. CASE obs = NoObs /\ fid \notin DOMAIN calculators
  <2>1. stack' = <<>> /\ rret' = RResult(in, "NotFound", NoValue, 0, {})
    BY <1>9 DEF ResolveInput
  <2>. QED
    BY <1>5, <2>1, FramesEmpty DEF ResolutionErrorsInTaxonomy, RResult
<1>. QED
  BY <1>7, <1>8, <1>9

(* Lines 397-400: the top frame returns to its caller, or to the consumer. *)
LEMMA DReturn ==
  ASSUME NEW rank, DInv(rank), Return
  PROVE  /\ RegistryFromCalls' /\ FramesCalled' /\ FramesRanked(rank)'
         /\ ResolutionErrorsInTaxonomy'
<1>. DEFINE top == stack[Len(stack)]
            v == Calc(top.h, top.minTs, top.vals, Params(top.feed))
            rest == SubSeq(stack, 1, Len(stack) - 1)
<1>1. /\ stack # <<>> /\ StackTyped(stack) /\ RegistryFromCalls
      /\ FramesCalled /\ FramesRanked(rank) /\ ResolutionErrorsInTaxonomy
  BY DEF Return, DInv, TInv
<1>2. Len(stack) \in Nat \ {0} /\ stack \in Seq(Rng(stack))
  BY <1>1, EmptySeq, LenProperties DEF StackTyped
<1>3. calculators' = calculators
  BY DEF Return
<1>4. RegistryFromCalls'
  BY <1>1, <1>3 DEF RegistryFromCalls
<1>5. /\ rest \in Seq(Rng(rest))
      /\ Len(rest) = Len(stack) - 1
      /\ \A i \in 1..Len(rest) : rest[i] = stack[i]
  BY <1>1, <1>2, PopPrefix
<1>6. CASE rest = <<>>
  <2>1. stack' = <<>> /\ rret' = RResult(top.feed, "ok", v, top.minTs, top.leafTs)
    BY <1>6 DEF Return
  <2>. QED
    BY <1>4, <2>1, FramesEmpty DEF ResolutionErrorsInTaxonomy, RResult
<1>7. CASE rest # <<>>
  <2>. DEFINE p == rest[Len(rest)]
              p2 == [p EXCEPT !.i = @ + 1, !.vals = Append(@, v),
                              !.minTs = MinTs(@, top.minTs), !.leafTs = @ \cup top.leafTs]
  <2>1. stack' = [rest EXCEPT ![Len(rest)] = p2] /\ rret' = rret
    BY <1>7 DEF Return
  <2>2. Len(rest) \in 1..Len(stack)
    BY <1>2, <1>5, <1>7, EmptySeq, LenProperties
  <2>3. FrameTyped(p)
    BY <1>1, <1>5, <2>2 DEF StackTyped
  <2>4. p2.feed = p.feed /\ p2.ins = p.ins
    BY <2>3 DEF FrameTyped, FrameShape
  <2>5. FramesCalled' /\ FramesRanked(rank)'
    BY <1>1, <1>3, <1>5, <2>1, <2>2, <2>4, FramesReplace
  <2>. QED
    BY <1>1, <1>4, <2>1, <2>5 DEF ResolutionErrorsInTaxonomy
<1>. QED
  BY <1>6, <1>7

-----------------------------------------------------------------------------
LEMMA DInvInit ==
  ASSUME NEW rank
  PROVE  Init => DInv(rank)
<1> SUFFICES ASSUME Init PROVE DInv(rank)
  OBVIOUS
<1>1. TInv
  BY InitTInv
<1>2. stack = <<>> /\ DOMAIN calculators = {} /\ rret.status = "none"
  BY DEF Init, RResult
<1>3. FramesCalled /\ FramesRanked(rank)
  BY <1>2 DEF FramesCalled, FramesRanked
<1>. QED
  BY <1>1, <1>2, <1>3 DEF DInv, RegistryFromCalls, ResolutionErrorsInTaxonomy

(* Every step of the registry, of a resolution and of the storage keeps    *)
(* DInv under a ranked registry.                                           *)
LEMMA DStep ==
  ASSUME NEW rank, RankedRegistry(rank)
  PROVE  DInv(rank) /\ [Next]_vars => DInv(rank)'
<1> SUFFICES ASSUME DInv(rank), [Next]_vars PROVE DInv(rank)'
  OBVIOUS
<1>0. TInv'
  BY TStep DEF DInv
<1>1. ASSUME NEW r \in Registrations, AddCalculator(r)
      PROVE  DInv(rank)'
  <2>1. stack = <<>> /\ stack' = <<>> /\ rret' = rret
    BY <1>1 DEF AddCalculator
  <2>2. RegistryFromCalls'
    BY <1>1 DEF AddCalculator, RegistryFromCalls, DInv
  <2>. QED
    BY <1>0, <2>1, <2>2, FramesEmpty DEF DInv, ResolutionErrorsInTaxonomy
<1>2. ASSUME NEW r \in Registrations, RemoveCalculator(r.out)
      PROVE  DInv(rank)'
  <2>1. stack = <<>> /\ stack' = <<>>
    BY <1>2 DEF RemoveCalculator
  <2>2. RegistryFromCalls'
    BY <1>2 DEF RemoveCalculator, RegistryFromCalls, DInv
  <2>3. ResolutionErrorsInTaxonomy'
    BY <1>2 DEF RemoveCalculator, ResolutionErrorsInTaxonomy, RResult
  <2>. QED
    BY <1>0, <2>1, <2>2, <2>3, FramesEmpty DEF DInv
<1>3. ASSUME NEW f \in Requests, Request(f)
      PROVE  DInv(rank)'
  <2>1. stack = <<>> /\ calculators' = calculators
    BY <1>3 DEF Request
  <2>2. RegistryFromCalls'
    BY <2>1 DEF RegistryFromCalls, DInv
  <2>3. CASE f.id \notin DOMAIN calculators
    <3>1. stack' = <<>> /\ rret' = RResult(f, "NoCalculator", NoValue, 0, {})
      BY <1>3, <2>1, <2>3 DEF Request
    <3>. QED
      BY <1>0, <2>2, <3>1, FramesEmpty DEF DInv, ResolutionErrorsInTaxonomy, RResult
  <2>4. CASE f.id \in DOMAIN calculators
    <3>1. Call(f)
      BY <1>3, <2>4 DEF Request
    <3>2. Len(stack) = 0 /\ stack \in Seq(Rng(stack))
      BY <2>1, EmptySeq DEF Rng
    <3>3. rank[f.id] \in 0..RecursionLimit - 1
      BY <2>4 DEF DInv, TInv, CalcTyped, RankedRegistry
    <3>4. FramesCalled' /\ FramesRanked(rank)' /\ ResolutionErrorsInTaxonomy'
      BY <2>1, <2>4, <3>1, <3>2, <3>3, CallDepth DEF DInv
    <3>. QED
      BY <1>0, <2>2, <3>4 DEF DInv
  <2>. QED
    BY <2>3, <2>4
<1>4. CASE ResolveInput
  BY <1>0, <1>4, DResolve DEF DInv
<1>5. CASE Return
  BY <1>0, <1>5, DReturn DEF DInv
<1>6. CASE StorageCall
  <2>1. stack = <<>> /\ UNCHANGED <<calculators, stack, rret>>
    BY <1>6 DEF StorageCall
  <2>. QED
    BY <1>0, <2>1, FramesEmpty DEF DInv, RegistryFromCalls, ResolutionErrorsInTaxonomy
<1>7. CASE UNCHANGED vars
  BY <1>0, <1>7 DEF vars, DInv, RegistryFromCalls, FramesCalled, FramesRanked,
                    ResolutionErrorsInTaxonomy
<1>. QED
  BY <1>1, <1>2, <1>3, <1>4, <1>5, <1>6, <1>7 DEF Next

(* For every value of the constants: if the feed types of the possible     *)
(* add_calculator calls can be ranked so that every input of a calculator  *)
(* ranks below its output, with every rank below the recursion limit, then *)
(* get_latest_feed_data never raises RecursionError (module Router,        *)
(* ResolutionErrorsInTaxonomy); run router_cyclic_registration shows that  *)
(* without the ranking, a cyclic registration does raise it.               *)
THEOREM NoRecursionError ==
  ASSUME NEW rank, RankedRegistry(rank)
  PROVE  Spec => []ResolutionErrorsInTaxonomy
<1>1. DInv(rank) => ResolutionErrorsInTaxonomy
  BY DEF DInv
<1>. QED
  BY <1>1, DInvInit, DStep, PTL DEF Spec
=============================================================================
