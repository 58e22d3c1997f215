------------------------------- MODULE Router -------------------------------
(***************************************************************************)
(* DerivedDataProvider (blockscholes_oracle_deepbook_demo.py, lines        *)
(* 347-403) over DataStorage, with the input declarations of the three     *)
(* calculators the file defines (lines 616-631, 686-696, 1141-1145).       *)
(*                                                                         *)
(* get_latest_feed_data recurses; here its Python frames are an explicit   *)
(* stack, one element per active call, so that a resolution is a sequence  *)
(* of steps: look up one input, call into a derived input, return.  The    *)
(* program is single-threaded, so storage writes and registry changes      *)
(* happen only between resolutions (stack empty).  No exception is caught  *)
(* between frames (the recursive call sits inside the except block), so an *)
(* error ends the whole resolution at once.                                *)
(*                                                                         *)
(* handler.calculate is left uninterpreted: its result is the term         *)
(* Calc(h, ts, inputs, params), so that what a value was computed from is  *)
(* visible; module Calculators gives calculate its numbers.                *)
(***************************************************************************)
EXTENDS Integers, Sequences, FiniteSets

CONSTANTS
  Feeds, Values, Timestamps, AddTargets, NoTarget, NoFeed, NoObs,
  MaxSlots, MaxVersion, ReuseFreeSlotsOnly,   \* as in Storage
  InitialFeeds,    \* <<feed, obs>> pairs main() adds, in order (l. 827-883)
  Registrations,   \* add_calculator calls the admin makes: [out, ins, h]
  Requests,        \* derived feeds consumers ask for
  TsSentinel,      \* 2**31 - 1, the initial min_timestamp (l. 380)
  RecursionLimit,  \* Python frames before RecursionError
  NoValue          \* "no value" in rret

VARIABLES
  data, feedIndexes, version, ret,   \* DataStorage
  calculators,     \* _calculators: output feed id -> [ins, h]
  stack,           \* the active get_latest_feed_data frames, innermost last
  rret             \* what the last resolution returned or raised

St == INSTANCE Storage

storageVars == <<data, feedIndexes, version, ret>>
vars == <<data, feedIndexes, version, ret, calculators, stack, rret>>

Handlers == {"SVIImpliedVol", "OptionPrice", "Basis"}

(* add_calculator takes output_feed_id: int and input_feed_ids: list[int]  *)
(* (lines 352-357); timestamps are Unix seconds.                           *)
ASSUME RouterAssumption ==
  /\ AddTargets \subseteq Int \cup {NoTarget}
  /\ NoTarget \notin Int
  /\ InitialFeeds \in Seq({InitialFeeds[i] : i \in DOMAIN InitialFeeds})
  /\ \A i \in DOMAIN InitialFeeds : InitialFeeds[i][2] \in St!Obs
  /\ TsSentinel \in Int
  /\ RecursionLimit \in Nat \ {0}
  /\ MaxVersion \in Nat
  /\ Timestamps \subseteq Int
  /\ \A r \in Registrations :
       r.out \in Int /\ r.ins \in Seq(Int) /\ r.h \in Handlers

-----------------------------------------------------------------------------
(* FeedParameters and Feed.                                                *)
Params(f) == [enumerable |-> f.enumerable, other |-> f.other]
MkFeed(id, p) == [id |-> id, enumerable |-> p.enumerable, other |-> p.other]

PyInt(v) == [val |-> v, repr |-> "int"]
SVIMember(v) == [val |-> v, repr |-> "SVIParam"]

(* parameters.other.get(name, default), keeping the value's Python type.   *)
OtherGet(o, name, default) ==
  IF \E i \in DOMAIN o : o[i][1] = name
  THEN o[CHOOSE i \in DOMAIN o : o[i][1] = name][2]
  ELSE default

(* parameters.enumerable[:2]                                               *)
FirstTwo(e) == SubSeq(e, 1, IF Len(e) < 2 THEN Len(e) ELSE 2)

(* FeedParameters(enumerable=e[:2], other={"expiry_timestamp": ...})       *)
ForwardParams(p) ==
  [enumerable |-> FirstTwo(p.enumerable),
   other |-> <<<<"expiry_timestamp", OtherGet(p.other, "expiry_timestamp", PyInt(0))>>>>]

(* SVIImpliedVolCalculator.get_input_feed_parameters: FORWARD, then the   *)
(* five SVI coefficients A, B, RHO, M, SIGMA as SVIParam members.          *)
SVIInputParams(p) ==
  <<ForwardParams(p)>> \o
  [k \in 1..5 |-> [enumerable |-> FirstTwo(p.enumerable) \o <<SVIMember(k - 1)>>,
                   other |-> <<>>]]

(* OptionPriceCalculator.get_input_feed_parameters: SPOT, FORWARD, IV,     *)
(* DOMESTIC_RATE.                                                          *)
OptionInputParams(p) ==
  LET base == [enumerable |-> FirstTwo(p.enumerable), other |-> <<>>]
  IN  <<base, ForwardParams(p), p, base>>

(* BasisCalculator.get_input_feed_parameters: FORWARD, SPOT.               *)
BasisInputParams(p) == <<p, [enumerable |-> p.enumerable, other |-> <<>>]>>

(* handler.get_input_feed_parameters(parameters).                          *)
InputParams(h, p) ==
  CASE h = "SVIImpliedVol" -> SVIInputParams(p)
    [] h = "OptionPrice"   -> OptionInputParams(p)
    [] h = "Basis"         -> BasisInputParams(p)

(* handler.calculate(min_timestamp, input_data, parameters), unevaluated.  *)
Calc(h, ts, in, p) == [h |-> h, ts |-> ts, in |-> in, p |-> p]

MinTs(a, b) == IF a <= b THEN a ELSE b

(* A new frame for get_latest_feed_data(feed), after its checks passed.    *)
(* leafTs is a history: the timestamps of every storage read made by this  *)
(* call and the calls it made.                                             *)
Frame(f) ==
  LET c == calculators[f.id] IN
  [feed |-> f, ins |-> c.ins, h |-> c.h, params |-> InputParams(c.h, Params(f)),
   i |-> 1, vals |-> <<>>, minTs |-> TsSentinel, leafTs |-> {}]

RResult(f, st, v, ts, leaves) == [feed |-> f, status |-> st, value |-> v, ts |-> ts, leafTs |-> leaves]

(* Mutant: the parameter-count check of lines 373-377 left out.           *)
CallNoArityCheck(f) ==
  /\ stack' = Append(stack, Frame(f))
  /\ UNCHANGED rret

(* get_latest_feed_data(f) once its calculator is found (lines 372-381):   *)
(* the ValueError on a parameter-count mismatch, or a new frame.           *)
Call(f) ==
  LET c == calculators[f.id] IN
  \/ /\ Len(InputParams(c.h, Params(f))) # Len(c.ins)
     /\ stack' = <<>>
     /\ rret' = RResult(f, "ArityMismatch", NoValue, 0, {})
  \/ /\ Len(InputParams(c.h, Params(f))) = Len(c.ins)
     /\ stack' = Append(stack, Frame(f))
     /\ UNCHANGED rret

-----------------------------------------------------------------------------
Init ==
  /\ data = [i \in 1..Len(InitialFeeds) |-> InitialFeeds[i][2]]
  /\ feedIndexes = [k \in {<<InitialFeeds[i][1].id, 0, InitialFeeds[i][1].enumerable,
                             InitialFeeds[i][1].other>> : i \in 1..Len(InitialFeeds)} |->
                      CHOOSE i \in 1..Len(InitialFeeds) :
                        k = <<InitialFeeds[i][1].id, 0, InitialFeeds[i][1].enumerable,
                              InitialFeeds[i][1].other>>]
  /\ version = 0
  /\ ret = St!Result("none", NoFeed, "ok", NoObs, 0)
  /\ calculators = [o \in {} |-> 0]
  /\ stack = <<>>
  /\ rret = RResult(NoFeed, "none", NoValue, 0, {})

(* add_calculator (lines 352-360): replaces any previous registration.     *)
AddCalculator(r) ==
  /\ stack = <<>>
  /\ calculators' = [o \in DOMAIN calculators \cup {r.out} |->
                       IF o = r.out THEN [ins |-> r.ins, h |-> r.h] ELSE calculators[o]]
  /\ UNCHANGED <<storageVars, stack, rret>>

(* remove_calculator (lines 362-365): ValueError when absent.              *)
RemoveCalculator(out) ==
  /\ stack = <<>>
  /\ \/ /\ out \in DOMAIN calculators
        /\ calculators' = [o \in DOMAIN calculators \ {out} |-> calculators[o]]
        /\ rret' = RResult(NoFeed, "removed", NoValue, 0, {})
     \/ /\ out \notin DOMAIN calculators
        /\ rret' = RResult(NoFeed, "NoCalculator", NoValue, 0, {})
        /\ UNCHANGED calculators
  /\ UNCHANGED <<storageVars, stack>>

(* A consumer calls get_latest_feed_data(f) (lines 367-370).               *)
Request(f) ==
  /\ stack = <<>>
  /\ \/ /\ f.id \notin DOMAIN calculators
        /\ rret' = RResult(f, "NoCalculator", NoValue, 0, {})
        /\ UNCHANGED stack
     \/ /\ f.id \in DOMAIN calculators
        /\ Call(f)
  /\ UNCHANGED <<storageVars, calculators>>

(* One pass of the loop of lines 382-395 in the innermost call: the input  *)
(* is read from storage, or, on KeyError, computed by a recursive call if  *)
(* its type has a calculator, or the KeyError propagates.                  *)
ResolveInput ==
  /\ stack # <<>>
  /\ LET top == stack[Len(stack)]
         fid == top.ins[top.i]
         in == MkFeed(fid, top.params[top.i])
         obs == St!LookupObs(in)
     IN /\ top.i <= Len(top.ins)
        /\ \/ /\ obs # NoObs
              /\ stack' = [stack EXCEPT ![Len(stack)] =
                             [top EXCEPT !.i = @ + 1,
                                         !.vals = Append(@, obs.value),
                                         !.minTs = MinTs(@, obs.timestamp),
                                         !.leafTs = @ \cup {obs.timestamp}]]
              /\ UNCHANGED rret
           \/ /\ obs = NoObs
              /\ fid \in DOMAIN calculators
              /\ \/ /\ Len(stack) >= RecursionLimit
                    /\ stack' = <<>>
                    /\ rret' = RResult(in, "RecursionError", NoValue, 0, {})
                 \/ /\ Len(stack) < RecursionLimit
                    /\ Call(in)
           \/ /\ obs = NoObs
              /\ fid \notin DOMAIN calculators
              /\ stack' = <<>>
              /\ rret' = RResult(in, "NotFound", NoValue, 0, {})
  /\ UNCHANGED <<storageVars, calculators>>

(* Mutant: a derived input's timestamp not folded into min_timestamp.      *)
ReturnNoMinPropagation ==
  /\ stack # <<>>
  /\ LET top == stack[Len(stack)]
         v == Calc(top.h, top.minTs, top.vals, Params(top.feed))
         rest == SubSeq(stack, 1, Len(stack) - 1)
         caller == rest[Len(rest)]
     IN /\ top.i > Len(top.ins)
        /\ \/ /\ rest = <<>>
              /\ stack' = <<>>
              /\ rret' = RResult(top.feed, "ok", v, top.minTs, top.leafTs)
           \/ /\ rest # <<>>
              /\ stack' = [rest EXCEPT ![Len(rest)] =
                             [caller EXCEPT !.i = @ + 1,
                                            !.vals = Append(@, v),
                                            !.leafTs = @ \cup top.leafTs]]
              /\ UNCHANGED rret
  /\ UNCHANGED <<storageVars, calculators>>

(* Lines 397-400: the innermost call has all its inputs; it calculates and *)
(* returns FeedData(result, min_timestamp) to its caller, or to the        *)
(* consumer.                                                               *)
Return ==
  /\ stack # <<>>
  /\ LET top == stack[Len(stack)]
         v == Calc(top.h, top.minTs, top.vals, Params(top.feed))
         rest == SubSeq(stack, 1, Len(stack) - 1)
         caller == rest[Len(rest)]
     IN /\ top.i > Len(top.ins)
        /\ \/ /\ rest = <<>>
              /\ stack' = <<>>
              /\ rret' = RResult(top.feed, "ok", v, top.minTs, top.leafTs)
           \/ /\ rest # <<>>
              /\ stack' = [rest EXCEPT ![Len(rest)] =
                             [caller EXCEPT !.i = @ + 1,
                                            !.vals = Append(@, v),
                                            !.minTs = MinTs(@, top.minTs),
                                            !.leafTs = @ \cup top.leafTs]]
              /\ UNCHANGED rret
  /\ UNCHANGED <<storageVars, calculators>>

(* A producer's call on DataStorage, between resolutions.                  *)
StorageCall ==
  /\ stack = <<>>
  /\ St!Next
  /\ UNCHANGED <<calculators, stack, rret>>

Next ==
  \/ \E r \in Registrations : AddCalculator(r)
  \/ \E r \in Registrations : RemoveCalculator(r.out)
  \/ \E f \in Requests : Request(f)
  \/ ResolveInput
  \/ Return
  \/ StorageCall

Spec == Init /\ [][Next]_vars

-----------------------------------------------------------------------------
RStatuses == {"none", "ok", "removed", "NotFound", "NoCalculator",
              "ArityMismatch", "RecursionError"}

FrameOK(fr) ==
  /\ fr.ins \in Seq(Int)
  /\ fr.feed.id \in Int
  /\ fr.h \in Handlers
  /\ Len(fr.params) = Len(fr.ins)
  /\ fr.i \in 1..Len(fr.ins) + 1
  /\ Len(fr.vals) = fr.i - 1
  /\ fr.minTs \in Int
  /\ fr.leafTs \subseteq Timestamps

(* Type invariant; frames are well formed: one value per input consumed.   *)
TypeOK ==
  /\ data \in Seq(St!Obs)
  /\ version \in 0..MaxVersion
  /\ DOMAIN calculators \subseteq {r.out : r \in Registrations}
  /\ \A o \in DOMAIN calculators : calculators[o].ins \in Seq(Int) /\ calculators[o].h \in Handlers
  /\ \E n \in 0..RecursionLimit : stack \in [1..n -> {fr \in {stack[j] : j \in DOMAIN stack} : FrameOK(fr)}]
  /\ rret.status \in RStatuses
  /\ rret.ts \in Int
  /\ rret.leafTs \subseteq Timestamps

MinOf(S) == CHOOSE t \in S : \A u \in S : t <= u

(* The timestamp a resolution returns is the oldest timestamp among the     *)
(* storage observations it read, directly or through the calls it made     *)
(* (lines 380 and 395: min_timestamp starts at 2**31 - 1 and is lowered by  *)
(* each input, derived inputs bringing their own minimum).                  *)
ResultTimestampIsMinOfReads ==
  rret.status = "ok" => rret.leafTs # {} /\ rret.ts = MinOf(rret.leafTs)

(* Every resolution ends with a value or one of the errors of the spec's    *)
(* taxonomy (NotFound, no calculator, parameter count): the recursion of    *)
(* line 389 never runs into Python's recursion limit.                       *)
ResolutionErrorsInTaxonomy == rret.status # "RecursionError"
=============================================================================
