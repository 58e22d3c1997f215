-------------------------- MODULE StorageRefinement --------------------------
(***************************************************************************)
(* Proof that DataStorage implements the storage contract of spec section  *)
(* 4.1 (module Storage, ImplementsStorageSpec) for every value of the      *)
(* constants, under the two conditions the negative runs show it needs:    *)
(*   - callers pass add_feed_with_value a target_index only for a free     *)
(*     slot (ReuseFreeSlotsOnly; run storage_target_index_aliasing);       *)
(*   - no two feed representations in use are equal under                 *)
(*     FeedParameters.__eq__ (IdentInjective; run storage_key_spelling).   *)
(***************************************************************************)
EXTENDS StorageProofs, SequenceTheorems

USE StorageAssumption

(* Callers never use two spellings of one feed identity.                   *)
IdentInjective == \A f, g \in Feeds : Ident(f) = Ident(g) => f = g

(* Every key of _feed_indexes is the key of a feed at the current version: *)
(* reset_all_data clears the dict in the call that moves the version.      *)
KeysOfFeeds == \A k \in DOMAIN feedIndexes : \E f \in Feeds : k = FeedKey(f)

(* The inductive invariant behind the refinement.                          *)
RefInv == TypeInv /\ SlotsWellFormed /\ KeysOfFeeds

(* What a lookup through key k sees once slots are well formed.            *)
Look(k) == IF k \in DOMAIN feedIndexes THEN data[feedIndexes[k]] ELSE NoObs

-----------------------------------------------------------------------------
(* Two feeds with one key string are one feed.                             *)
LEMMA FeedKeyInjective ==
  ASSUME IdentInjective, NEW f \in Feeds, NEW g \in Feeds, FeedKey(f) = FeedKey(g)
  PROVE  f = g
<1>1. f.id = g.id /\ f.enumerable = g.enumerable /\ f.other = g.other
  BY DEF FeedKey
<1>2. Ident(f) = Ident(g)
  BY <1>1 DEF Ident
<1>. QED
  BY <1>2 DEF IdentInjective

(* With well-formed slots, get_latest_feed_data finds exactly what the     *)
(* key's slot holds, and a present key never reads as missing.             *)
LEMMA LookupIsLook ==
  ASSUME RefInv, NEW f
  PROVE  /\ LookupObs(f) = Look(FeedKey(f))
         /\ LookupObs(f) = NoObs <=> FeedKey(f) \notin DOMAIN feedIndexes
<1>. DEFINE k == FeedKey(f)
<1>1. CASE k \in DOMAIN feedIndexes
  <2>1. feedIndexes[k] \in 1..Len(data) /\ Len(data) \in Nat
    BY <1>1, LenProperties DEF RefInv, SlotsWellFormed, TypeInv, TypeOK
  <2>2. ~Missing(k) /\ PyValid(data, feedIndexes[k] - 1)
        /\ PyPos(data, feedIndexes[k] - 1) = feedIndexes[k]
    BY <1>1, <2>1 DEF Missing, PyValid, PyPos
  <2>3. data[feedIndexes[k]] \in Obs
    BY <2>1 DEF RefInv, TypeInv, TypeOK
  <2>. QED
    BY <1>1, <2>2, <2>3 DEF LookupObs, Look
<1>2. CASE k \notin DOMAIN feedIndexes
  BY <1>2 DEF LookupObs, Look, Missing
<1>. QED
  BY <1>1, <1>2

LEMMA LookupIsLookPrimed ==
  ASSUME RefInv', NEW f
  PROVE  /\ LookupObs(f)' = Look(FeedKey(f))'
         /\ LookupObs(f)' = NoObs <=> FeedKey(f)' \notin DOMAIN feedIndexes'
<1>1. CASE FeedKey(f)' \in DOMAIN feedIndexes'
  <2>1. (feedIndexes[FeedKey(f)] \in 1..Len(data) /\ Len(data) \in Nat)'
    BY <1>1, LenProperties DEF RefInv, SlotsWellFormed, TypeInv, TypeOK
  <2>2. (/\ ~Missing(FeedKey(f))
         /\ PyValid(data, feedIndexes[FeedKey(f)] - 1)
         /\ PyPos(data, feedIndexes[FeedKey(f)] - 1) = feedIndexes[FeedKey(f)])'
    BY <1>1, <2>1 DEF Missing, PyValid, PyPos
  <2>3. (data[feedIndexes[FeedKey(f)]] \in Obs)'
    BY <2>1 DEF RefInv, TypeInv, TypeOK
  <2>. QED
    BY <1>1, <2>2, <2>3 DEF LookupObs, Look
<1>2. CASE FeedKey(f)' \notin DOMAIN feedIndexes'
  BY <1>2 DEF LookupObs, Look, Missing
<1>. QED
  BY <1>1, <1>2

(* With one spelling per identity, the abstract store of an identity is    *)
(* what a lookup of its one feed returns.                                  *)
LEMMA StoreBarIs ==
  ASSUME IdentInjective, NEW f \in Feeds
  PROVE  /\ storeBar[Ident(f)] = LookupObs(f)
         /\ storeBar'[Ident(f)] = LookupObs(f)'
<1>1. Ident(f) \in IdentSet
  BY DEF IdentSet
<1>2. \A g \in Feeds : Ident(g) = Ident(f) <=> g = f
  BY DEF IdentInjective
<1>3. storeBar[Ident(f)] = LookupObs(f)
  <2>1. {g \in Feeds : Ident(g) = Ident(f) /\ LookupObs(g) # NoObs}
          = IF LookupObs(f) # NoObs THEN {f} ELSE {}
    BY <1>2
  <2>. QED
    BY <1>1, <2>1 DEF storeBar
<1>4. storeBar'[Ident(f)] = LookupObs(f)'
  <2>1. {g \in Feeds : Ident(g) = Ident(f) /\ LookupObs(g)' # NoObs}
          = IF LookupObs(f)' # NoObs THEN {f} ELSE {}
    BY <1>2
  <2>. QED
    BY <1>1, <2>1 DEF storeBar
<1>. QED
  BY <1>3, <1>4
-----------------------------------------------------------------------------
(* Keys are only added for a feed at the current version, and the version  *)
(* moves only when the dict is emptied.                                    *)
LEMMA KeysStep ==
  ASSUME KeysOfFeeds, [Next]_vars
  PROVE  KeysOfFeeds'
<1>1. CASE \E f \in Feeds, o \in Obs, ti \in CallerTargets :
             AddFeedWithValue(f, o, ti)
  <2> PICK f \in Feeds, o \in Obs, ti \in CallerTargets :
             AddFeedWithValue(f, o, ti)
    BY <1>1
  <2>1. version' = version
        /\ \/ feedIndexes' = feedIndexes
           \/ feedIndexes' = SetIndex(feedIndexes, FeedKey(f), ti + 1)
           \/ feedIndexes' = SetIndex(feedIndexes, FeedKey(f), Len(data) + 1)
    BY DEF AddFeedWithValue
  <2>. QED
    BY <2>1 DEF KeysOfFeeds, SetIndex, FeedKey
<1>2. CASE \/ \E f \in Feeds, o \in Obs : UpdateDataForFeed(f, o)
           \/ \E f \in Feeds : GetLatestFeedData(f)
           \/ FeedCount
           \/ UNCHANGED vars
  <2>1. version' = version /\ feedIndexes' = feedIndexes
    BY <1>2 DEF UpdateDataForFeed, GetLatestFeedData, FeedCount, vars
  <2>. QED
    BY <2>1 DEF KeysOfFeeds, FeedKey
<1>3. CASE \E f \in Feeds : RemoveFeed(f)
  <2>1. version' = version /\ DOMAIN feedIndexes' \subseteq DOMAIN feedIndexes
    BY <1>3 DEF RemoveFeed
  <2>. QED
    BY <2>1 DEF KeysOfFeeds, FeedKey
<1>4. CASE ResetAllData
  BY <1>4 DEF ResetAllData, NoKeys, KeysOfFeeds
<1>. QED
  BY <1>1, <1>2, <1>3, <1>4 DEF Next

LEMMA RefInvInit == Init => RefInv
<1> SUFFICES ASSUME Init PROVE RefInv
  OBVIOUS
<1>1. IsFiniteSet(DOMAIN feedIndexes)
  BY FS_EmptySet DEF Init, NoKeys
<1>. QED
  BY <1>1 DEF Init, NoKeys, RefInv, TypeInv, TypeOK, Result, Ops, Statuses,
              SlotsWellFormed, KeysOfFeeds

LEMMA RefInvStep ==
  ASSUME ReuseFreeSlotsOnly = TRUE
  PROVE  RefInv /\ [Next]_vars => RefInv'
<1> SUFFICES ASSUME RefInv, [Next]_vars PROVE RefInv'
  OBVIOUS
<1>1. IInv'
  BY SlotsStep DEF RefInv, IInv
<1>2. KeysOfFeeds'
  BY KeysStep DEF RefInv
<1>. QED
  BY <1>1, <1>2 DEF RefInv, IInv
-----------------------------------------------------------------------------
(* How a step moves the abstract store, read off what lookups see.        *)
LEMMA StoreBarUpdate ==
  ASSUME IdentInjective, NEW f \in Feeds, NEW x,
         \A g \in Feeds : LookupObs(g)' = IF g = f THEN x ELSE LookupObs(g)
  PROVE  storeBar' = [storeBar EXCEPT ![Ident(f)] = x]
<1>1. /\ storeBar' = [i \in IdentSet |-> storeBar'[i]]
      /\ [storeBar EXCEPT ![Ident(f)] = x] =
           [i \in IdentSet |-> IF i = Ident(f) THEN x ELSE storeBar[i]]
  BY DEF storeBar
<1>2. ASSUME NEW i \in IdentSet
      PROVE  storeBar'[i] = IF i = Ident(f) THEN x ELSE storeBar[i]
  <2>1. PICK g \in Feeds : i = Ident(g)
    BY DEF IdentSet
  <2>2. storeBar'[i] = LookupObs(g)' /\ storeBar[i] = LookupObs(g)
    BY <2>1, StoreBarIs
  <2>3. i = Ident(f) <=> g = f
    BY <2>1 DEF IdentInjective
  <2>. QED
    BY <2>2, <2>3
<1>. QED
  BY <1>1, <1>2

LEMMA StoreBarSame ==
  ASSUME IdentInjective, \A g \in Feeds : LookupObs(g)' = LookupObs(g)
  PROVE  storeBar' = storeBar
<1>1. /\ storeBar' = [i \in IdentSet |-> storeBar'[i]]
      /\ storeBar = [i \in IdentSet |-> storeBar[i]]
  BY DEF storeBar
<1>2. ASSUME NEW i \in IdentSet
      PROVE  storeBar'[i] = storeBar[i]
  <2>1. PICK g \in Feeds : i = Ident(g)
    BY DEF IdentSet
  <2>. QED
    BY <2>1, StoreBarIs
<1>. QED
  BY <1>1, <1>2

LEMMA StoreBarEmpty ==
  ASSUME \A g \in Feeds : LookupObs(g)' = NoObs
  PROVE  storeBar' = [i \in IdentSet |-> NoObs]
BY DEF storeBar

(* feed_count counts keys; the contract counts present identities.  The    *)
(* two agree because each key is the key of one feed and each feed has one *)
(* identity.                                                               *)
LEMMA CountPresent ==
  ASSUME IdentInjective, RefInv
  PROVE  Cardinality(DOMAIN feedIndexes) =
           Cardinality({i \in IdentSet : storeBar[i] # NoObs})
<1>. DEFINE D == DOMAIN feedIndexes
            P == {i \in IdentSet : storeBar[i] # NoObs}
            FeedOf(k) == CHOOSE g \in Feeds : FeedKey(g) = k
            h == [k \in D |-> Ident(FeedOf(k))]
<1>1. \A k \in D : FeedOf(k) \in Feeds /\ FeedKey(FeedOf(k)) = k
  BY DEF RefInv, KeysOfFeeds
<1>2. \A g \in Feeds : storeBar[Ident(g)] # NoObs <=> FeedKey(g) \in D
  BY StoreBarIs, LookupIsLook
<1>3. h \in [D -> P]
  BY <1>1, <1>2 DEF IdentSet
<1>4. \A k1, k2 \in D : h[k1] = h[k2] => k1 = k2
  BY <1>1 DEF IdentInjective
<1>5. \A i \in P : \E k \in D : h[k] = i
  <2> TAKE i \in P
  <2>1. PICK g \in Feeds : i = Ident(g)
    BY DEF IdentSet
  <2>2. FeedKey(g) \in D
    BY <1>2, <2>1
  <2>3. FeedOf(FeedKey(g)) = g
    BY <1>1, <2>2, FeedKeyInjective
  <2>. QED
    BY <2>1, <2>2, <2>3
<1>6. ExistsBijection(D, P)
  BY <1>3, <1>4, <1>5 DEF ExistsBijection, Bijection, Injection, Surjection, IsInjective
<1>. QED
  BY <1>6, FS_Bijection DEF RefInv, TypeInv
-----------------------------------------------------------------------------
(* A call that writes neither _data, _feed_indexes nor the version leaves  *)
(* the abstract store alone.                                               *)
LEMMA StoreBarStutter ==
  ASSUME UNCHANGED <<data, feedIndexes, version>>
  PROVE  storeBar' = storeBar
BY DEF storeBar, LookupObs, FeedKey, Missing, PyValid, PyPos

(* add_feed_with_value (lines 227-247) is the contract's add.              *)
LEMMA RefAdd ==
  ASSUME ReuseFreeSlotsOnly = TRUE, IdentInjective, RefInv, RefInv',
         NEW f \in Feeds, NEW o \in Obs, NEW ti \in CallerTargets,
         AddFeedWithValue(f, o, ti)
  PROVE  AbstractStorage!Add(Ident(f), o)
<1>. DEFINE k == FeedKey(f)
<1>1. /\ ti \in Int \cup {NoTarget}
      /\ data \in Seq(Obs) /\ Len(data) \in Nat /\ DOMAIN data = 1..Len(data)
      /\ version' = version
  BY LenProperties DEF CallerTargets, AddFeedWithValue, RefInv, TypeInv, TypeOK
<1>2. \A g \in Feeds : FeedKey(g)' = FeedKey(g)
  BY <1>1 DEF FeedKey
<1>3. \A g \in Feeds : /\ LookupObs(g) = Look(FeedKey(g))
                       /\ LookupObs(g)' = Look(FeedKey(g))'
  BY LookupIsLook, LookupIsLookPrimed
<1>4. \A g \in Feeds : storeBar[Ident(g)] = LookupObs(g)
  BY StoreBarIs
<1>5. CASE k \in DOMAIN feedIndexes
  <2>1. /\ ret' = Result("add", f, "AlreadyExists", NoObs, 0)
        /\ UNCHANGED <<data, feedIndexes, version>>
    BY <1>5 DEF AddFeedWithValue
  <2>2. storeBar[Ident(f)] # NoObs
    BY <1>4, <1>5, LookupIsLook
  <2>3. storeBar' = storeBar
    BY <2>1, StoreBarStutter
  <2>4. aretBar' = AbstractStorage!Result("add", Ident(f), "AlreadyExists", NoObs, 0)
    BY <2>1 DEF aretBar, Result, AbstractStorage!Result
  <2>. QED
    BY <2>2, <2>3, <2>4 DEF AbstractStorage!Add, AbstractStorage!Present
<1>6. CASE k \notin DOMAIN feedIndexes
  <2>1. storeBar[Ident(f)] = NoObs
    BY <1>4, <1>6, LookupIsLook
  <2>. SUFFICES ASSUME NEW x, NEW n \in Nat \ {0},
                      /\ ret' = Result("add", f, "ok", NoObs, n)
                      /\ feedIndexes' = SetIndex(feedIndexes, k, n)
                      /\ \A g \in Feeds : LookupObs(g)' = IF g = f THEN x ELSE LookupObs(g)
                      /\ x = o
               PROVE  AbstractStorage!Add(Ident(f), o)
    <3>1. CASE ti # NoTarget /\ ti < Len(data)
      <4>1. ti \in 0..Len(data) - 1 /\ ti + 1 \notin Range(feedIndexes)
        BY <1>1, <3>1 DEF CallerTargets
      <4>2. PyValid(data, ti) /\ PyPos(data, ti) = ti + 1
        BY <1>1, <4>1 DEF PyValid, PyPos
      <4>3. /\ data' = [data EXCEPT ![ti + 1] = o]
            /\ feedIndexes' = SetIndex(feedIndexes, k, ti + 1)
            /\ ret' = Result("add", f, "ok", NoObs, ti + 1)
        BY <1>1, <1>6, <3>1, <4>2 DEF AddFeedWithValue
      <4>4. ASSUME NEW g \in Feeds
            PROVE  LookupObs(g)' = IF g = f THEN o ELSE LookupObs(g)
        <5>1. CASE g = f
          <6>1. data'[ti + 1] = o
            BY <1>1, <4>1, <4>3
          <6>2. k \in DOMAIN feedIndexes' /\ feedIndexes'[k] = ti + 1
            BY <4>3 DEF SetIndex
          <6>3. LookupObs(f)' = IF k \in DOMAIN feedIndexes'
                                THEN data'[feedIndexes'[k]] ELSE NoObs
            BY <1>2, <1>3 DEF Look
          <6>. QED
            BY <5>1, <6>1, <6>2, <6>3
        <5>2. CASE g # f /\ FeedKey(g) \in DOMAIN feedIndexes
          <6>1. FeedKey(g) # k
            BY <5>2, FeedKeyInjective
          <6>2. feedIndexes[FeedKey(g)] \in 1..Len(data)
                /\ feedIndexes[FeedKey(g)] # ti + 1
            BY <4>1, <5>2 DEF RefInv, SlotsWellFormed, Range
          <6>. QED
            BY <1>1, <1>2, <1>3, <4>3, <5>2, <6>1, <6>2 DEF Look, SetIndex
        <5>3. CASE g # f /\ FeedKey(g) \notin DOMAIN feedIndexes
          <6>1. FeedKey(g) # k
            BY <5>3, FeedKeyInjective
          <6>. QED
            BY <1>2, <1>3, <4>3, <5>3, <6>1 DEF Look, SetIndex
        <5>. QED
          BY <5>1, <5>2, <5>3
      <4>. QED
        BY <1>1, <4>1, <4>3, <4>4
    <3>2. CASE ti # NoTarget => ti >= Len(data)
      <4>1. /\ data' = Append(data, o)
            /\ feedIndexes' = SetIndex(feedIndexes, k, Len(data) + 1)
            /\ ret' = Result("add", f, "ok", NoObs, Len(data) + 1)
        BY <1>1, <1>6, <3>2 DEF AddFeedWithValue
      <4>2. ASSUME NEW g \in Feeds
            PROVE  LookupObs(g)' = IF g = f THEN o ELSE LookupObs(g)
        <5>1. CASE g = f
          <6>1. Append(data, o)[Len(data) + 1] = o
            BY <1>1, AppendProperties
          <6>. QED
            BY <1>2, <1>3, <4>1, <5>1, <6>1 DEF Look, SetIndex
        <5>2. CASE g # f /\ FeedKey(g) \in DOMAIN feedIndexes
          <6>1. FeedKey(g) # k
            BY <5>2, FeedKeyInjective
          <6>2. feedIndexes[FeedKey(g)] \in 1..Len(data)
            BY <5>2 DEF RefInv, SlotsWellFormed
          <6>3. Append(data, o)[feedIndexes[FeedKey(g)]] = data[feedIndexes[FeedKey(g)]]
            BY <1>1, <6>2, AppendProperties
          <6>. QED
            BY <1>2, <1>3, <4>1, <5>2, <6>1, <6>3 DEF Look, SetIndex
        <5>3. CASE g # f /\ FeedKey(g) \notin DOMAIN feedIndexes
          <6>1. FeedKey(g) # k
            BY <5>3, FeedKeyInjective
          <6>. QED
            BY <1>2, <1>3, <4>1, <5>3, <6>1 DEF Look, SetIndex
        <5>. QED
          BY <5>1, <5>2, <5>3
      <4>. QED
        BY <1>1, <4>1, <4>2
    <3>. QED
      BY <1>1, <3>1, <3>2
  <2>2. storeBar' = [storeBar EXCEPT ![Ident(f)] = o]
    BY StoreBarUpdate
  <2>3. aretBar' = AbstractStorage!Result("add", Ident(f), "ok", NoObs, 0)
    BY DEF aretBar, Result, AbstractStorage!Result
  <2>. QED
    BY <2>1, <2>2, <2>3 DEF AbstractStorage!Add, AbstractStorage!Present
<1>. QED
  BY <1>5, <1>6

(* update_data_for_feed (lines 249-258) is the contract's update.          *)
LEMMA RefUpdate ==
  ASSUME IdentInjective, RefInv, RefInv', NEW f \in Feeds, NEW o \in Obs,
         UpdateDataForFeed(f, o)
  PROVE  AbstractStorage!Update(Ident(f), o)
<1>. DEFINE k == FeedKey(f)
<1>1. /\ data \in Seq(Obs) /\ Len(data) \in Nat /\ DOMAIN data = 1..Len(data)
      /\ version' = version /\ feedIndexes' = feedIndexes
  BY LenProperties DEF UpdateDataForFeed, RefInv, TypeInv, TypeOK
<1>2. \A g \in Feeds : FeedKey(g)' = FeedKey(g)
  BY <1>1 DEF FeedKey
<1>3. \A g \in Feeds : /\ LookupObs(g) = Look(FeedKey(g))
                       /\ LookupObs(g)' = Look(FeedKey(g))'
  BY LookupIsLook, LookupIsLookPrimed
<1>4. \A g \in Feeds : storeBar[Ident(g)] = LookupObs(g)
  BY StoreBarIs
<1>5. CASE k \in DOMAIN feedIndexes
  <2>1. /\ feedIndexes[k] \in 1..Len(data)
        /\ ~Missing(k)
        /\ PyValid(data, feedIndexes[k] - 1)
        /\ PyPos(data, feedIndexes[k] - 1) = feedIndexes[k]
    BY <1>1, <1>5 DEF RefInv, SlotsWellFormed, Missing, PyValid, PyPos
  <2>2. /\ data' = [data EXCEPT ![feedIndexes[k]] = o]
        /\ ret' = Result("update", f, "ok", NoObs, 0)
    BY <2>1 DEF UpdateDataForFeed
  <2>3. ASSUME NEW g \in Feeds
        PROVE  LookupObs(g)' = IF g = f THEN o ELSE LookupObs(g)
    <3>1. CASE g = f
      <4>1. data'[feedIndexes[k]] = o
        BY <1>1, <2>1, <2>2
      <4>2. LookupObs(f)' = IF k \in DOMAIN feedIndexes'
                            THEN data'[feedIndexes'[k]] ELSE NoObs
        BY <1>2, <1>3 DEF Look
      <4>. QED
        BY <1>1, <1>5, <3>1, <4>1, <4>2
    <3>2. CASE g # f /\ FeedKey(g) \in DOMAIN feedIndexes
      <4>1. FeedKey(g) # k
        BY <3>2, FeedKeyInjective
      <4>2. /\ feedIndexes[FeedKey(g)] \in 1..Len(data)
            /\ feedIndexes[FeedKey(g)] # feedIndexes[k]
        BY <1>5, <3>2, <4>1 DEF RefInv, SlotsWellFormed
      <4>3. data'[feedIndexes[FeedKey(g)]] = data[feedIndexes[FeedKey(g)]]
        BY <1>1, <2>2, <4>2
      <4>. QED
        BY <1>1, <1>2, <1>3, <3>2, <4>3 DEF Look
    <3>3. CASE g # f /\ FeedKey(g) \notin DOMAIN feedIndexes
      BY <1>1, <1>2, <1>3, <3>3 DEF Look
    <3>. QED
      BY <3>1, <3>2, <3>3
  <2>4. storeBar' = [storeBar EXCEPT ![Ident(f)] = o]
    BY <2>3, StoreBarUpdate
  <2>5. storeBar[Ident(f)] # NoObs
    BY <1>4, <1>5, LookupIsLook
  <2>6. aretBar' = AbstractStorage!Result("update", Ident(f), "ok", NoObs, 0)
    BY <2>2 DEF aretBar, Result, AbstractStorage!Result
  <2>. QED
    BY <2>4, <2>5, <2>6 DEF AbstractStorage!Update, AbstractStorage!Present
<1>6. CASE k \notin DOMAIN feedIndexes
  <2>1. /\ ret' = Result("update", f, "NotFound", NoObs, 0)
        /\ UNCHANGED <<data, feedIndexes, version>>
    BY <1>1, <1>6 DEF UpdateDataForFeed, Missing
  <2>2. storeBar' = storeBar
    BY <2>1, StoreBarStutter
  <2>3. storeBar[Ident(f)] = NoObs
    BY <1>4, <1>6, LookupIsLook
  <2>4. aretBar' = AbstractStorage!Result("update", Ident(f), "NotFound", NoObs, 0)
    BY <2>1 DEF aretBar, Result, AbstractStorage!Result
  <2>. QED
    BY <2>2, <2>3, <2>4 DEF AbstractStorage!Update, AbstractStorage!Present
<1>. QED
  BY <1>5, <1>6

(* get_latest_feed_data (lines 219-225) is the contract's get: it returns  *)
(* the identity's observation or raises KeyError, never IndexError.        *)
LEMMA RefGet ==
  ASSUME IdentInjective, RefInv, NEW f \in Feeds, GetLatestFeedData(f)
  PROVE  AbstractStorage!Get(Ident(f))
<1>. DEFINE k == FeedKey(f)
<1>1. UNCHANGED <<data, feedIndexes, version>>
  BY DEF GetLatestFeedData
<1>2. storeBar' = storeBar
  BY <1>1, StoreBarStutter
<1>3. storeBar[Ident(f)] = LookupObs(f)
  BY StoreBarIs
<1>4. CASE k \in DOMAIN feedIndexes
  <2>1. /\ feedIndexes[k] \in 1..Len(data)
        /\ ~Missing(k)
        /\ PyValid(data, feedIndexes[k] - 1)
    BY <1>4 DEF RefInv, SlotsWellFormed, Missing, PyValid
  <2>2. ret' = Result("get", f, "ok", LookupObs(f), 0)
    BY <2>1 DEF GetLatestFeedData, LookupObs
  <2>3. LookupObs(f) # NoObs
    BY <1>4, LookupIsLook
  <2>4. aretBar' = AbstractStorage!Result("get", Ident(f), "ok", storeBar[Ident(f)], 0)
    BY <1>3, <2>2 DEF aretBar, Result, AbstractStorage!Result
  <2>. QED
    BY <1>2, <1>3, <2>3, <2>4 DEF AbstractStorage!Get, AbstractStorage!Present
<1>5. CASE k \notin DOMAIN feedIndexes
  <2>1. ret' = Result("get", f, "NotFound", NoObs, 0)
    BY <1>5 DEF GetLatestFeedData, Missing
  <2>2. LookupObs(f) = NoObs
    BY <1>5, LookupIsLook
  <2>3. aretBar' = AbstractStorage!Result("get", Ident(f), "NotFound", NoObs, 0)
    BY <2>1 DEF aretBar, Result, AbstractStorage!Result
  <2>. QED
    BY <1>2, <1>3, <2>2, <2>3 DEF AbstractStorage!Get, AbstractStorage!Present
<1>. QED
  BY <1>4, <1>5

(* remove_feed (lines 260-264) is the contract's remove: the key goes and  *)
(* the slot it leaves behind is read by no other key.                      *)
LEMMA RefRemove ==
  ASSUME IdentInjective, RefInv, RefInv', NEW f \in Feeds, RemoveFeed(f)
  PROVE  AbstractStorage!Remove(Ident(f))
<1>. DEFINE k == FeedKey(f)
<1>1. UNCHANGED <<data, version>>
  BY DEF RemoveFeed
<1>2. \A g \in Feeds : FeedKey(g)' = FeedKey(g)
  BY <1>1 DEF FeedKey
<1>3. \A g \in Feeds : /\ LookupObs(g) = Look(FeedKey(g))
                       /\ LookupObs(g)' = Look(FeedKey(g))'
  BY LookupIsLook, LookupIsLookPrimed
<1>4. \A g \in Feeds : storeBar[Ident(g)] = LookupObs(g)
  BY StoreBarIs
<1>5. CASE k \in DOMAIN feedIndexes
  <2>1. /\ feedIndexes' = [x \in DOMAIN feedIndexes \ {k} |-> feedIndexes[x]]
        /\ ret' = Result("remove", f, "ok", NoObs, 0)
    BY <1>5 DEF RemoveFeed
  <2>2. ASSUME NEW g \in Feeds
        PROVE  LookupObs(g)' = IF g = f THEN NoObs ELSE LookupObs(g)
    <3>1. CASE g = f
      BY <1>2, <1>3, <2>1, <3>1 DEF Look
    <3>2. CASE g # f
      <4>1. FeedKey(g) # k
        BY <3>2, FeedKeyInjective
      <4>. QED
        BY <1>1, <1>2, <1>3, <2>1, <3>2, <4>1 DEF Look
    <3>. QED
      BY <3>1, <3>2
  <2>3. storeBar' = [storeBar EXCEPT ![Ident(f)] = NoObs]
    BY <2>2, StoreBarUpdate
  <2>4. storeBar[Ident(f)] # NoObs
    BY <1>4, <1>5, LookupIsLook
  <2>5. aretBar' = AbstractStorage!Result("remove", Ident(f), "ok", NoObs, 0)
    BY <2>1 DEF aretBar, Result, AbstractStorage!Result
  <2>. QED
    BY <2>3, <2>4, <2>5 DEF AbstractStorage!Remove, AbstractStorage!Present
<1>6. CASE k \notin DOMAIN feedIndexes
  <2>1. /\ ret' = Result("remove", f, "NotFound", NoObs, 0)
        /\ UNCHANGED <<data, feedIndexes, version>>
    BY <1>6 DEF RemoveFeed
  <2>2. storeBar' = storeBar
    BY <2>1, StoreBarStutter
  <2>3. storeBar[Ident(f)] = NoObs
    BY <1>4, <1>6, LookupIsLook
  <2>4. aretBar' = AbstractStorage!Result("remove", Ident(f), "NotFound", NoObs, 0)
    BY <2>1 DEF aretBar, Result, AbstractStorage!Result
  <2>. QED
    BY <2>2, <2>3, <2>4 DEF AbstractStorage!Remove, AbstractStorage!Present
<1>. QED
  BY <1>5, <1>6

(* reset_all_data (lines 266-270) is the contract's reset.                 *)
LEMMA RefReset ==
  ASSUME ResetAllData
  PROVE  AbstractStorage!Reset
<1>1. \A g \in Feeds : LookupObs(g)' = NoObs
  BY DEF ResetAllData, NoKeys, LookupObs, Missing
<1>2. storeBar' = [i \in IdentSet |-> NoObs]
  BY <1>1, StoreBarEmpty
<1>3. aretBar' = AbstractStorage!Result("reset", NoFeed, "ok", NoObs, 0)
  BY DEF ResetAllData, aretBar, Result, AbstractStorage!Result
<1>. QED
  BY <1>2, <1>3 DEF AbstractStorage!Reset

(* feed_count (lines 272-273) is the contract's count.                     *)
LEMMA RefCount ==
  ASSUME IdentInjective, RefInv, FeedCount
  PROVE  AbstractStorage!Count
<1>1. storeBar' = storeBar
  BY StoreBarStutter DEF FeedCount
<1>2. Cardinality(DOMAIN feedIndexes) =
        Cardinality({i \in IdentSet : storeBar[i] # NoObs})
  BY CountPresent
<1>3. aretBar' = AbstractStorage!Result("count", NoFeed, "ok", NoObs,
                   Cardinality({i \in IdentSet : storeBar[i] # NoObs}))
  BY <1>2 DEF FeedCount, aretBar, Result, AbstractStorage!Result
<1>4. {i \in IdentSet : storeBar[i] # NoObs} = {i \in IdentSet : AbstractStorage!Present(i)}
  BY DEF AbstractStorage!Present
<1>5. AbstractStorage!Cardinality({i \in IdentSet : storeBar[i] # NoObs}) =
        Cardinality({i \in IdentSet : storeBar[i] # NoObs})
  BY DEF AbstractStorage!Cardinality, Cardinality
<1>. QED
  BY <1>1, <1>3, <1>4, <1>5 DEF AbstractStorage!Count
-----------------------------------------------------------------------------
(* An empty DataStorage is the empty map.                                  *)
LEMMA RefInit == Init => AbstractStorage!Init
<1> SUFFICES ASSUME Init PROVE AbstractStorage!Init
  OBVIOUS
<1>1. storeBar = [i \in IdentSet |-> NoObs]
  BY DEF Init, NoKeys, storeBar, LookupObs, Missing
<1>2. aretBar = AbstractStorage!Result("none", NoFeed, "ok", NoObs, 0)
  BY DEF Init, aretBar, Result, AbstractStorage!Result
<1>. QED
  BY <1>1, <1>2 DEF AbstractStorage!Init

(* Every step of DataStorage is a step of the contract or leaves its state *)
(* and answer unchanged.                                                   *)
LEMMA RefStep ==
  ASSUME ReuseFreeSlotsOnly = TRUE, IdentInjective, RefInv, RefInv', [Next]_vars
  PROVE  [AbstractStorage!Next]_AbstractStorage!vars
<1>1. CASE \E f \in Feeds, o \in Obs, ti \in CallerTargets :
             AddFeedWithValue(f, o, ti)
  <2> PICK f \in Feeds, o \in Obs, ti \in CallerTargets : AddFeedWithValue(f, o, ti)
    BY <1>1
  <2>1. AbstractStorage!Add(Ident(f), o) /\ Ident(f) \in IdentSet
    BY RefAdd DEF IdentSet
  <2>. QED
    BY <2>1 DEF AbstractStorage!Next, AbstractStorage!Obs, Obs
<1>2. CASE \E f \in Feeds, o \in Obs : UpdateDataForFeed(f, o)
  <2> PICK f \in Feeds, o \in Obs : UpdateDataForFeed(f, o)
    BY <1>2
  <2>1. AbstractStorage!Update(Ident(f), o) /\ Ident(f) \in IdentSet
    BY RefUpdate DEF IdentSet
  <2>. QED
    BY <2>1 DEF AbstractStorage!Next, AbstractStorage!Obs, Obs
<1>3. CASE \E f \in Feeds : GetLatestFeedData(f)
  <2> PICK f \in Feeds : GetLatestFeedData(f)
    BY <1>3
  <2>1. AbstractStorage!Get(Ident(f)) /\ Ident(f) \in IdentSet
    BY RefGet DEF IdentSet
  <2>. QED
    BY <2>1 DEF AbstractStorage!Next
<1>4. CASE \E f \in Feeds : RemoveFeed(f)
  <2> PICK f \in Feeds : RemoveFeed(f)
    BY <1>4
  <2>1. AbstractStorage!Remove(Ident(f)) /\ Ident(f) \in IdentSet
    BY RefRemove DEF IdentSet
  <2>. QED
    BY <2>1 DEF AbstractStorage!Next
<1>5. CASE ResetAllData
  BY <1>5, RefReset DEF AbstractStorage!Next
<1>6. CASE FeedCount
  BY <1>6, RefCount DEF AbstractStorage!Next
<1>7. CASE UNCHANGED vars
  <2>1. storeBar' = storeBar
    BY <1>7, StoreBarStutter DEF vars
  <2>2. aretBar' = aretBar
    BY <1>7 DEF vars, aretBar
  <2>. QED
    BY <2>1, <2>2 DEF AbstractStorage!vars
<1>. QED
  BY <1>1, <1>2, <1>3, <1>4, <1>5, <1>6, <1>7 DEF Next

(* For every set of feeds, values, timestamps, target indices, slot bound  *)
(* and number of resets, DataStorage implements the storage contract of    *)
(* spec section 4.1 (module Storage, ImplementsStorageSpec), answers        *)
(* included, provided callers give add_feed_with_value only free slots and *)
(* never use two spellings of one feed identity.                           *)
THEOREM StorageRefinementThm ==
  ASSUME ReuseFreeSlotsOnly = TRUE, IdentInjective
  PROVE  Spec => ImplementsStorageSpec
<1>1. Spec => []RefInv
  BY RefInvInit, RefInvStep, PTL DEF Spec
<1>2. RefInv /\ RefInv' /\ [Next]_vars => [AbstractStorage!Next]_AbstractStorage!vars
  BY RefStep
<1>. QED
  BY <1>1, <1>2, RefInit, PTL DEF Spec, ImplementsStorageSpec, AbstractStorage!Spec
=============================================================================
