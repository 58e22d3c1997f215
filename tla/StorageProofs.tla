---------------------------- MODULE StorageProofs ----------------------------
(***************************************************************************)
(* Proofs about DataStorage (module Storage), for every value of the      *)
(* constants that satisfies StorageAssumption.                             *)
(***************************************************************************)
EXTENDS Storage, FiniteSetTheorems, TLAPS

USE StorageAssumption

(* Python indexing lands inside the list whenever the index is valid.      *)
LEMMA PyPosInRange ==
  ASSUME NEW s, NEW i \in Int, PyValid(s, i), Len(s) \in Nat
  PROVE  PyPos(s, i) \in 1..Len(s)
BY DEF PyValid, PyPos

(* The result of a call is well typed whatever it returned.                *)
LEMMA ResultType ==
  ASSUME NEW op \in Ops, NEW f \in Feeds \cup {NoFeed}, NEW st \in Statuses,
         NEW o \in Obs \cup {NoObs}, NEW n \in Int
  PROVE  Result(op, f, st, o, n) \in
           [op : Ops, feed : Feeds \cup {NoFeed}, status : Statuses,
            obs : Obs \cup {NoObs}, n : Int]
BY DEF Result

(* The type invariant, with the finiteness of _feed_indexes that makes     *)
(* feed_count an integer.                                                  *)
TypeInv == TypeOK /\ IsFiniteSet(DOMAIN feedIndexes)

(* Each action preserves the type invariant.                               *)
LEMMA TypeStep == TypeInv /\ [Next]_vars => TypeInv'
<1> SUFFICES ASSUME TypeInv, [Next]_vars PROVE TypeInv'
  OBVIOUS
<1>1. CASE \E f \in Feeds, o \in Obs, ti \in CallerTargets :
             AddFeedWithValue(f, o, ti)
  <2> PICK f \in Feeds, o \in Obs, ti \in CallerTargets :
             AddFeedWithValue(f, o, ti)
    BY <1>1
  <2> DEFINE k == FeedKey(f)
  <2>1. k \in AllKeys
    BY DEF TypeInv, TypeOK, FeedKey, AllKeys
  <2>2. ti \in Int \cup {NoTarget}
    BY DEF CallerTargets
  <2>3. CASE k \in DOMAIN feedIndexes
    <3>1. /\ ret' = Result("add", f, "AlreadyExists", NoObs, 0)
          /\ UNCHANGED <<data, feedIndexes, version>>
      BY <2>3 DEF AddFeedWithValue
    <3>2. QED
      BY <3>1, ResultType DEF TypeInv, TypeOK, Ops, Statuses
  <2>4. CASE k \notin DOMAIN feedIndexes /\ ti # NoTarget /\ ti < Len(data)
    <3>1. ti \in Int
      BY <2>2, <2>4
    <3>2. CASE PyValid(data, ti)
      <4>1. PyPos(data, ti) \in 1..Len(data)
        BY <3>1, <3>2, PyPosInRange DEF TypeInv, TypeOK
      <4>2. /\ data' = [data EXCEPT ![PyPos(data, ti)] = o]
            /\ feedIndexes' = SetIndex(feedIndexes, k, ti + 1)
            /\ ret' = Result("add", f, "ok", NoObs, ti + 1)
            /\ version' = version
        BY <2>4, <3>1, <3>2 DEF AddFeedWithValue
      <4>3. DOMAIN feedIndexes' = DOMAIN feedIndexes \cup {k}
        BY <4>2 DEF SetIndex
      <4>4. IsFiniteSet(DOMAIN feedIndexes')
        BY <4>3, FS_AddElement DEF TypeInv
      <4>5. ret' \in [op : Ops, feed : Feeds \cup {NoFeed}, status : Statuses,
                      obs : Obs \cup {NoObs}, n : Int]
        BY <4>2, <3>1 DEF Result, Ops, Statuses
      <4>6. feedIndexes' \in [DOMAIN feedIndexes' -> Int]
        BY <4>2, <4>3, <3>1 DEF SetIndex, TypeInv, TypeOK
      <4>7. QED
        BY <4>1, <4>2, <4>3, <4>4, <4>5, <4>6, <2>1 DEF TypeInv, TypeOK
    <3>3. CASE ~PyValid(data, ti)
      <4>1. /\ ret' = Result("add", f, "IndexError", NoObs, 0)
            /\ UNCHANGED <<data, feedIndexes, version>>
        BY <2>4, <3>1, <3>3 DEF AddFeedWithValue
      <4>2. QED
        BY <4>1, ResultType DEF TypeInv, TypeOK, Ops, Statuses
    <3>4. QED
      BY <3>2, <3>3
  <2>5. CASE k \notin DOMAIN feedIndexes /\ (ti # NoTarget => ti >= Len(data))
    <3>1. /\ Len(data) < MaxSlots
          /\ data' = Append(data, o)
          /\ feedIndexes' = SetIndex(feedIndexes, k, Len(data) + 1)
          /\ ret' = Result("add", f, "ok", NoObs, Len(data) + 1)
          /\ version' = version
      BY <2>2, <2>5 DEF AddFeedWithValue
    <3>2. DOMAIN feedIndexes' = DOMAIN feedIndexes \cup {k}
      BY <3>1 DEF SetIndex
    <3>3. IsFiniteSet(DOMAIN feedIndexes')
      BY <3>2, FS_AddElement DEF TypeInv
    <3>4. ret' \in [op : Ops, feed : Feeds \cup {NoFeed}, status : Statuses,
                    obs : Obs \cup {NoObs}, n : Int]
      BY <3>1, ResultType DEF Ops, Statuses, TypeInv, TypeOK
    <3>5. feedIndexes' \in [DOMAIN feedIndexes' -> Int]
      BY <3>1, <3>2 DEF SetIndex, TypeInv, TypeOK
    <3>6. QED
      BY <3>1, <3>2, <3>3, <3>4, <3>5, <2>1 DEF TypeInv, TypeOK
  <2>6. QED
    BY <2>2, <2>3, <2>4, <2>5
<1>2. CASE \E f \in Feeds, o \in Obs : UpdateDataForFeed(f, o)
  <2> PICK f \in Feeds, o \in Obs : UpdateDataForFeed(f, o)
    BY <1>2
  <2> DEFINE k == FeedKey(f)
  <2>1. CASE ~Missing(k) /\ PyValid(data, feedIndexes[k] - 1)
    <3>1. k \in DOMAIN feedIndexes
      BY <2>1 DEF Missing
    <3>2. feedIndexes[k] - 1 \in Int
      BY <3>1 DEF TypeInv, TypeOK
    <3>3. PyPos(data, feedIndexes[k] - 1) \in 1..Len(data)
      BY <2>1, <3>2, PyPosInRange DEF TypeInv, TypeOK
    <3>4. QED
      BY <2>1, <3>3, ResultType DEF UpdateDataForFeed, TypeInv, TypeOK, Ops, Statuses
  <2>2. CASE Missing(k) \/ ~PyValid(data, feedIndexes[k] - 1)
    BY <2>2, ResultType DEF UpdateDataForFeed, TypeInv, TypeOK, Ops, Statuses
  <2>3. QED
    BY <2>1, <2>2
<1>3. CASE \E f \in Feeds : GetLatestFeedData(f)
  <2> PICK f \in Feeds : GetLatestFeedData(f)
    BY <1>3
  <2> DEFINE k == FeedKey(f)
  <2>1. CASE ~Missing(k) /\ PyValid(data, feedIndexes[k] - 1)
    <3>1. k \in DOMAIN feedIndexes
      BY <2>1 DEF Missing
    <3>2. feedIndexes[k] - 1 \in Int
      BY <3>1 DEF TypeInv, TypeOK
    <3>3. PyPos(data, feedIndexes[k] - 1) \in 1..Len(data)
      BY <2>1, <3>2, PyPosInRange DEF TypeInv, TypeOK
    <3>4. data[PyPos(data, feedIndexes[k] - 1)] \in Obs
      BY <3>3 DEF TypeInv, TypeOK
    <3>5. QED
      BY <2>1, <3>4, ResultType DEF GetLatestFeedData, TypeInv, TypeOK, Ops, Statuses
  <2>2. CASE Missing(k) \/ ~PyValid(data, feedIndexes[k] - 1)
    BY <2>2, ResultType DEF GetLatestFeedData, TypeInv, TypeOK, Ops, Statuses
  <2>3. QED
    BY <2>1, <2>2
<1>4. CASE \E f \in Feeds : RemoveFeed(f)
  <2> PICK f \in Feeds : RemoveFeed(f)
    BY <1>4
  <2>1. DOMAIN feedIndexes' \subseteq DOMAIN feedIndexes
    BY DEF RemoveFeed
  <2>2. IsFiniteSet(DOMAIN feedIndexes')
    BY <2>1, FS_Subset DEF TypeInv
  <2>3. QED
    BY <2>1, <2>2, ResultType DEF RemoveFeed, TypeInv, TypeOK, Ops, Statuses
<1>5. CASE ResetAllData
  <2>1. IsFiniteSet(DOMAIN feedIndexes')
    BY <1>5, FS_EmptySet DEF ResetAllData, NoKeys
  <2>2. QED
    BY <1>5, <2>1, ResultType DEF ResetAllData, NoKeys, TypeInv, TypeOK, Ops, Statuses
<1>6. CASE FeedCount
  <2>1. Cardinality(DOMAIN feedIndexes) \in Nat
    BY FS_CardinalityType DEF TypeInv
  <2>2. QED
    BY <1>6, <2>1, ResultType DEF FeedCount, TypeInv, TypeOK, Ops, Statuses
<1>7. CASE UNCHANGED vars
  BY <1>7 DEF vars, TypeInv, TypeOK
<1>8. QED
  BY <1>1, <1>2, <1>3, <1>4, <1>5, <1>6, <1>7 DEF Next

(* DataStorage is well typed in every reachable state (module Storage,     *)
(* TypeOK): slots hold observations, _feed_indexes maps keys of the feeds  *)
(* in use to integers, every call returns a well-formed result.            *)
THEOREM TypeCorrect == Spec => []TypeOK
<1>1. Init => TypeInv
  <2> SUFFICES ASSUME Init PROVE TypeInv
    OBVIOUS
  <2>1. IsFiniteSet(DOMAIN feedIndexes)
    BY FS_EmptySet DEF Init, NoKeys
  <2>2. QED
    BY <2>1 DEF Init, NoKeys, TypeInv, TypeOK, Result, Ops, Statuses
<1>2. TypeInv => TypeOK
  BY DEF TypeInv
<1>3. QED
  BY <1>1, <1>2, TypeStep, PTL DEF Spec
-----------------------------------------------------------------------------
(* The inductive invariant behind SlotsWellFormed: the type invariant and  *)
(* SlotsWellFormed itself, which is inductive once slots are typed.        *)
IInv == TypeInv /\ SlotsWellFormed

(* With the caller discipline, each action preserves IInv.                 *)
LEMMA SlotsStep ==
  ASSUME ReuseFreeSlotsOnly = TRUE
  PROVE  IInv /\ [Next]_vars => IInv'
<1> SUFFICES ASSUME IInv, [Next]_vars PROVE SlotsWellFormed'
  BY TypeStep DEF IInv
<1> USE DEF IInv, TypeInv, TypeOK
<1>1. CASE \E f \in Feeds, o \in Obs, ti \in CallerTargets :
             AddFeedWithValue(f, o, ti)
  <2> PICK f \in Feeds, o \in Obs, ti \in CallerTargets :
             AddFeedWithValue(f, o, ti)
    BY <1>1
  <2> DEFINE k == FeedKey(f)
  <2>1. ti \in Int \cup {NoTarget}
    BY DEF CallerTargets
  <2>2. CASE k \in DOMAIN feedIndexes
    BY <2>2 DEF AddFeedWithValue, SlotsWellFormed
  <2>3. CASE k \notin DOMAIN feedIndexes /\ ti # NoTarget /\ ti < Len(data)
    <3>1. ti \in 0..Len(data) - 1 /\ ti + 1 \notin Range(feedIndexes)
      BY <2>1, <2>3 DEF CallerTargets
    <3>2. PyValid(data, ti) /\ PyPos(data, ti) = ti + 1
      BY <3>1 DEF PyValid, PyPos
    <3>3. /\ Len(data') = Len(data)
          /\ feedIndexes' = SetIndex(feedIndexes, k, ti + 1)
      BY <2>3, <3>1, <3>2 DEF AddFeedWithValue
    <3>4. \A x \in DOMAIN feedIndexes : feedIndexes[x] # ti + 1
      BY <3>1 DEF Range
    <3>5. QED
      BY <2>3, <3>1, <3>3, <3>4 DEF SetIndex, SlotsWellFormed
  <2>4. CASE k \notin DOMAIN feedIndexes /\ (ti # NoTarget => ti >= Len(data))
    <3>1. /\ Len(data') = Len(data) + 1
          /\ feedIndexes' = SetIndex(feedIndexes, k, Len(data) + 1)
      BY <2>1, <2>4 DEF AddFeedWithValue
    <3>2. QED
      BY <2>4, <3>1 DEF SetIndex, SlotsWellFormed
  <2>5. QED
    BY <2>1, <2>2, <2>3, <2>4
<1>2. CASE \E f \in Feeds, o \in Obs : UpdateDataForFeed(f, o)
  <2> PICK f \in Feeds, o \in Obs : UpdateDataForFeed(f, o)
    BY <1>2
  <2>1. Len(data') = Len(data) /\ feedIndexes' = feedIndexes
    BY DEF UpdateDataForFeed
  <2>2. QED
    BY <2>1 DEF SlotsWellFormed
<1>3. CASE \E f \in Feeds : GetLatestFeedData(f)
  BY <1>3 DEF GetLatestFeedData, SlotsWellFormed
<1>4. CASE \E f \in Feeds : RemoveFeed(f)
  <2> PICK f \in Feeds : RemoveFeed(f)
    BY <1>4
  <2>1. /\ data' = data
        /\ DOMAIN feedIndexes' \subseteq DOMAIN feedIndexes
        /\ \A x \in DOMAIN feedIndexes' : feedIndexes'[x] = feedIndexes[x]
    BY DEF RemoveFeed
  <2>2. QED
    BY <2>1 DEF SlotsWellFormed
<1>5. CASE ResetAllData
  BY <1>5 DEF ResetAllData, NoKeys, SlotsWellFormed
<1>6. CASE FeedCount
  BY <1>6 DEF FeedCount, SlotsWellFormed
<1>7. CASE UNCHANGED vars
  BY <1>7 DEF vars, SlotsWellFormed
<1>8. QED
  BY <1>1, <1>2, <1>3, <1>4, <1>5, <1>6, <1>7 DEF Next

(* When callers reuse only free slots, every key of _feed_indexes names a  *)
(* slot of its own inside _data (module Storage, SlotsWellFormed): no      *)
(* sequence of add_feed_with_value, update_data_for_feed, remove_feed and  *)
(* reset_all_data makes two feeds share a slot or a key read as missing.   *)
THEOREM SlotsWellFormedThm ==
  ASSUME ReuseFreeSlotsOnly = TRUE
  PROVE  Spec => []SlotsWellFormed
<1>1. Init => IInv
  <2> SUFFICES ASSUME Init PROVE IInv
    OBVIOUS
  <2>1. TypeInv
    <3>1. IsFiniteSet(DOMAIN feedIndexes)
      BY FS_EmptySet DEF Init, NoKeys
    <3>2. QED
      BY <3>1 DEF Init, NoKeys, TypeInv, TypeOK, Result, Ops, Statuses
  <2>2. SlotsWellFormed
    BY DEF Init, NoKeys, SlotsWellFormed
  <2>3. QED
    BY <2>1, <2>2 DEF IInv
<1>2. IInv => SlotsWellFormed
  BY DEF IInv
<1>3. QED
  BY <1>1, <1>2, SlotsStep, PTL DEF Spec

-----------------------------------------------------------------------------
(* Python's index validity survives the list growing: an index valid for   *)
(* s is valid for any longer list.                                         *)
LEMMA PyValidGrows ==
  ASSUME NEW s, NEW t, NEW i \in Int, Len(s) \in Nat, Len(t) \in Nat,
         Len(s) <= Len(t), PyValid(s, i)
  PROVE  PyValid(t, i)
BY DEF PyValid

(* The inductive invariant behind ReadsInBounds: the type invariant and    *)
(* ReadsInBounds itself, which every call keeps for any target_index.      *)
RInv == TypeInv /\ ReadsInBounds

(* Each action preserves RInv, whatever target_index callers pass.         *)
LEMMA ReadsStep == RInv /\ [Next]_vars => RInv'
<1> SUFFICES ASSUME RInv, [Next]_vars PROVE ReadsInBounds'
  BY TypeStep DEF RInv
<1> USE DEF RInv, TypeInv, TypeOK
<1>0. TypeInv'
  BY TypeStep
<1>1. CASE \E f \in Feeds, o \in Obs, ti \in CallerTargets :
             AddFeedWithValue(f, o, ti)
  <2> PICK f \in Feeds, o \in Obs, ti \in CallerTargets :
             AddFeedWithValue(f, o, ti)
    BY <1>1
  <2> DEFINE k == FeedKey(f)
  <2>1. ti \in Int \cup {NoTarget}
    BY DEF CallerTargets
  <2>2. CASE k \in DOMAIN feedIndexes
    BY <2>2 DEF AddFeedWithValue, ReadsInBounds
  <2>3. CASE k \notin DOMAIN feedIndexes /\ ti # NoTarget /\ ti < Len(data)
          /\ PyValid(data, ti)
    <3>1. ti \in Int
      BY <2>1, <2>3
    <3>2. /\ data' = [data EXCEPT ![PyPos(data, ti)] = o]
          /\ feedIndexes' = SetIndex(feedIndexes, k, ti + 1)
      BY <2>3, <3>1 DEF AddFeedWithValue
    <3>3. Len(data') = Len(data)
      BY <3>2
    <3>4. QED
      BY <2>3, <3>1, <3>2, <3>3 DEF SetIndex, ReadsInBounds, PyValid
  <2>4. CASE k \notin DOMAIN feedIndexes /\ ti # NoTarget /\ ti < Len(data)
          /\ ~PyValid(data, ti)
    <3>1. ti \in Int
      BY <2>1, <2>4
    <3>2. data' = data /\ feedIndexes' = feedIndexes
      BY <2>4, <3>1 DEF AddFeedWithValue
    <3>3. QED
      BY <3>2 DEF ReadsInBounds
  <2>5. CASE k \notin DOMAIN feedIndexes /\ (ti # NoTarget => ti >= Len(data))
    <3>1. /\ data' = Append(data, o)
          /\ feedIndexes' = SetIndex(feedIndexes, k, Len(data) + 1)
      BY <2>1, <2>5 DEF AddFeedWithValue
    <3>2. Len(data') = Len(data) + 1
      BY <3>1
    <3>3. \A x \in DOMAIN feedIndexes : feedIndexes[x] # 0 =>
            PyValid(data', feedIndexes[x] - 1)
      BY <3>2, PyValidGrows DEF ReadsInBounds
    <3>4. PyValid(data', Len(data))
      BY <3>2 DEF PyValid
    <3>5. QED
      BY <3>1, <3>3, <3>4 DEF SetIndex, ReadsInBounds
  <2>6. QED
    BY <2>1, <2>2, <2>3, <2>4, <2>5
<1>2. CASE \E f \in Feeds, o \in Obs : UpdateDataForFeed(f, o)
  <2> PICK f \in Feeds, o \in Obs : UpdateDataForFeed(f, o)
    BY <1>2
  <2>1. Len(data') = Len(data) /\ feedIndexes' = feedIndexes
    BY DEF UpdateDataForFeed
  <2>2. QED
    BY <2>1 DEF ReadsInBounds, PyValid
<1>3. CASE \E f \in Feeds : GetLatestFeedData(f)
  BY <1>3 DEF GetLatestFeedData, ReadsInBounds
<1>4. CASE \E f \in Feeds : RemoveFeed(f)
  <2> PICK f \in Feeds : RemoveFeed(f)
    BY <1>4
  <2>1. /\ data' = data
        /\ DOMAIN feedIndexes' \subseteq DOMAIN feedIndexes
        /\ \A x \in DOMAIN feedIndexes' : feedIndexes'[x] = feedIndexes[x]
    BY DEF RemoveFeed
  <2>2. QED
    BY <2>1 DEF ReadsInBounds
<1>5. CASE ResetAllData
  BY <1>5 DEF ResetAllData, NoKeys, ReadsInBounds
<1>6. CASE FeedCount
  BY <1>6 DEF FeedCount, ReadsInBounds
<1>7. CASE UNCHANGED vars
  BY <1>7 DEF vars, ReadsInBounds
<1>8. QED
  BY <1>1, <1>2, <1>3, <1>4, <1>5, <1>6, <1>7 DEF Next

(* Whatever target_index callers pass to add_feed_with_value, negative     *)
(* ones and live slots included, every read and update through a key of    *)
(* _feed_indexes stays inside _data (module Storage, ReadsInBounds):       *)
(* get_latest_feed_data and update_data_for_feed never raise IndexError.   *)
THEOREM ReadsInBoundsThm == Spec => []ReadsInBounds
<1>1. Init => RInv
  <2> SUFFICES ASSUME Init PROVE RInv
    OBVIOUS
  <2>1. IsFiniteSet(DOMAIN feedIndexes)
    BY FS_EmptySet DEF Init, NoKeys
  <2>2. TypeInv
    BY <2>1 DEF Init, NoKeys, TypeInv, TypeOK, Result, Ops, Statuses
  <2>3. ReadsInBounds
    BY DEF Init, NoKeys, ReadsInBounds
  <2>4. QED
    BY <2>2, <2>3 DEF RInv
<1>2. RInv => ReadsInBounds
  BY DEF RInv
<1>3. QED
  BY <1>1, <1>2, ReadsStep, PTL DEF Spec
=============================================================================
