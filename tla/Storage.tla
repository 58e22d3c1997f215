------------------------------- MODULE Storage -------------------------------
(***************************************************************************)
(* DataStorage (blockscholes_oracle_deepbook_demo.py, lines 208-273).      *)
(*                                                                         *)
(* Python keeps two parallel lists _data and _timestamps that are always   *)
(* written at the same index, a dict _feed_indexes from feed key to a      *)
(* 1-based slot (0 reads as "missing") and an integer version.  Here the   *)
(* two lists are one sequence "data" of observations, the dict is the      *)
(* function feedIndexes, and ret records what the last call returned or    *)
(* raised.                                                                 *)
(*                                                                         *)
(* A feed is given by its representation: the integer id, the enumerable   *)
(* tuple whose elements carry the type they were written with (a plain int *)
(* or an IntEnum member such as SVIParam.A) and the "other" dict as the    *)
(* sequence of its (name, value) entries in insertion order, each value    *)
(* carrying its Python type.  FeedParameters.__eq__ ignores both the types *)
(* (0 == SVIParam.A, 1 == 1.0 == True) and the dict order; the key string  *)
(* f"{id}:{version}:{enumerable}:{other}" does not, since str() of a tuple *)
(* or dict uses repr() of its members.  sha256 is taken to be injective on *)
(* those strings, so a key is the tuple of what the string spells out.     *)
(***************************************************************************)
EXTENDS Integers, Sequences, FiniteSets, Functions

CONSTANTS
  Feeds,        \* feed representations the callers use
  Values,       \* observation values
  Timestamps,   \* observation timestamps
  AddTargets,   \* target_index arguments callers pass to add (NoTarget = None)
  NoTarget,     \* target_index=None
  NoFeed,       \* the feed slot of ret for calls without a feed argument
  NoObs,        \* "no observation" in ret
  MaxSlots,     \* bound on Len(data): remove leaves slots behind, so
                \* add/remove cycles grow _data without limit
  MaxVersion,   \* bound on the number of resets
  ReuseFreeSlotsOnly  \* TRUE: callers pass a target_index only for a slot no
                      \* live key points to (the code does not check this)

Obs == [value : Values, timestamp : Timestamps]

ASSUME StorageAssumption ==
  /\ MaxSlots \in Nat \ {0}
  /\ MaxVersion \in Nat
  /\ AddTargets \subseteq Int \cup {NoTarget}
  /\ NoTarget \notin Int
  /\ NoFeed \notin Feeds
  /\ NoObs \notin Obs
  /\ ReuseFreeSlotsOnly \in BOOLEAN

VARIABLES
  data,         \* _data and _timestamps: sequence of observations
  feedIndexes,  \* _feed_indexes: feed key -> 1-based slot
  version,      \* version
  ret           \* what the last call returned or raised

vars == <<data, feedIndexes, version, ret>>

(* Mutant: a key string that leaves the version out.                      *)
FeedKeyNoVersion(f) == <<f.id, f.enumerable, f.other>>

(* The feed key (lines 215-217): everything the formatted string shows.    *)
FeedKey(f) == <<f.id, version, f.enumerable, f.other>>

(* The identity FeedParameters.__eq__ and Feed.__eq__ compare.             *)
Ident(f) ==
  [id         |-> f.id,
   enumerable |-> [i \in DOMAIN f.enumerable |-> f.enumerable[i].val],
   other      |-> {<<e[1], e[2].val>> : e \in Range(f.other)}]

(* Python list indexing s[i]: position of i in 1..Len(s), negative i       *)
(* counting from the end; valid only for -Len(s) <= i < Len(s).            *)
PyValid(s, i) == -Len(s) <= i /\ i < Len(s)
PyPos(s, i) == IF i >= 0 THEN i + 1 ELSE Len(s) + i + 1

Result(op, f, st, o, n) == [op |-> op, feed |-> f, status |-> st, obs |-> o, n |-> n]

(* _feed_indexes.get(key) as "index is None or index == 0" sees it.        *)
Missing(k) == IF k \in DOMAIN feedIndexes THEN feedIndexes[k] = 0 ELSE TRUE

(* _feed_indexes[key] = index.                                            *)
SetIndex(fi, k, i) == [x \in DOMAIN fi \cup {k} |-> IF x = k THEN i ELSE fi[x]]

(* An empty _feed_indexes dict.                                           *)
NoKeys == [k \in {} |-> 0]

Init ==
  /\ data = <<>>
  /\ feedIndexes = NoKeys
  /\ version = 0
  /\ ret = Result("none", NoFeed, "ok", NoObs, 0)

(* Mutant: add stores the 0-based target_index instead of target_index+1.  *)
AddFeedWithValueZeroBased(f, o, ti) ==
  LET k == FeedKey(f) IN
  \/ /\ k \in DOMAIN feedIndexes
     /\ ret' = Result("add", f, "AlreadyExists", NoObs, 0)
     /\ UNCHANGED <<data, feedIndexes, version>>
  \/ /\ k \notin DOMAIN feedIndexes
     /\ ti # NoTarget /\ ti < Len(data)
     /\ \/ /\ PyValid(data, ti)
           /\ data' = [data EXCEPT ![PyPos(data, ti)] = o]
           /\ feedIndexes' = SetIndex(feedIndexes, k, ti)
           /\ ret' = Result("add", f, "ok", NoObs, ti)
        \/ /\ ~PyValid(data, ti)
           /\ ret' = Result("add", f, "IndexError", NoObs, 0)
           /\ UNCHANGED <<data, feedIndexes>>
     /\ UNCHANGED version
  \/ /\ k \notin DOMAIN feedIndexes
     /\ ti # NoTarget => ti >= Len(data)
     /\ Len(data) < MaxSlots
     /\ data' = Append(data, o)
     /\ feedIndexes' = SetIndex(feedIndexes, k, Len(data) + 1)
     /\ ret' = Result("add", f, "ok", NoObs, Len(data) + 1)
     /\ UNCHANGED version

(* add_feed_with_value (lines 227-247).                                    *)
AddFeedWithValue(f, o, ti) ==
  LET k == FeedKey(f) IN
  \/ /\ k \in DOMAIN feedIndexes
     /\ ret' = Result("add", f, "AlreadyExists", NoObs, 0)
     /\ UNCHANGED <<data, feedIndexes, version>>
  \/ /\ k \notin DOMAIN feedIndexes
     /\ ti # NoTarget /\ ti < Len(data)
     /\ \/ /\ PyValid(data, ti)
           /\ data' = [data EXCEPT ![PyPos(data, ti)] = o]
           /\ feedIndexes' = SetIndex(feedIndexes, k, ti + 1)
           /\ ret' = Result("add", f, "ok", NoObs, ti + 1)
        \/ /\ ~PyValid(data, ti)
           /\ ret' = Result("add", f, "IndexError", NoObs, 0)
           /\ UNCHANGED <<data, feedIndexes>>
     /\ UNCHANGED version
  \/ /\ k \notin DOMAIN feedIndexes
     /\ ti # NoTarget => ti >= Len(data)
     /\ Len(data) < MaxSlots
     /\ data' = Append(data, o)
     /\ feedIndexes' = SetIndex(feedIndexes, k, Len(data) + 1)
     /\ ret' = Result("add", f, "ok", NoObs, Len(data) + 1)
     /\ UNCHANGED version

(* Mutant: get reads the 1-based index without converting it.             *)
GetLatestFeedDataNoOffset(f) ==
  LET k == FeedKey(f) IN
  /\ ret' = IF Missing(k) THEN Result("get", f, "NotFound", NoObs, 0)
            ELSE IF ~PyValid(data, feedIndexes[k])
                 THEN Result("get", f, "IndexError", NoObs, 0)
            ELSE Result("get", f, "ok", data[PyPos(data, feedIndexes[k])], 0)
  /\ UNCHANGED <<data, feedIndexes, version>>

(* get_latest_feed_data (lines 219-225).                                   *)
GetLatestFeedData(f) ==
  LET k == FeedKey(f) IN
  /\ ret' = IF Missing(k) THEN Result("get", f, "NotFound", NoObs, 0)
            ELSE IF ~PyValid(data, feedIndexes[k] - 1)
                 THEN Result("get", f, "IndexError", NoObs, 0)
            ELSE Result("get", f, "ok", data[PyPos(data, feedIndexes[k] - 1)], 0)
  /\ UNCHANGED <<data, feedIndexes, version>>

(* update_data_for_feed (lines 249-258).                                   *)
UpdateDataForFeed(f, o) ==
  LET k == FeedKey(f) IN
  /\ \/ /\ Missing(k)
        /\ ret' = Result("update", f, "NotFound", NoObs, 0)
        /\ UNCHANGED data
     \/ /\ ~Missing(k)
        /\ LET ok == PyValid(data, feedIndexes[k] - 1) IN
           /\ data' = IF ok THEN [data EXCEPT ![PyPos(data, feedIndexes[k] - 1)] = o]
                     ELSE data
           /\ ret' = Result("update", f, IF ok THEN "ok" ELSE "IndexError", NoObs, 0)
  /\ UNCHANGED <<feedIndexes, version>>

(* Mutant: remove_feed also deletes the slot from _data, shifting the     *)
(* slots after it.                                                          *)
RemoveFeedHardDelete(f) ==
  LET k == FeedKey(f) IN
  /\ \/ /\ k \notin DOMAIN feedIndexes
        /\ ret' = Result("remove", f, "NotFound", NoObs, 0)
        /\ UNCHANGED <<feedIndexes, data>>
     \/ /\ k \in DOMAIN feedIndexes
        /\ feedIndexes' = [x \in DOMAIN feedIndexes \ {k} |-> feedIndexes[x]]
        /\ data' = IF PyValid(data, feedIndexes[k] - 1)
                   THEN LET p == PyPos(data, feedIndexes[k] - 1)
                        IN  SubSeq(data, 1, p - 1) \o SubSeq(data, p + 1, Len(data))
                   ELSE data
        /\ ret' = Result("remove", f, "ok", NoObs, 0)
  /\ UNCHANGED version

(* remove_feed (lines 260-264): only the key goes, the slot stays.         *)
RemoveFeed(f) ==
  LET k == FeedKey(f) IN
  /\ \/ /\ k \notin DOMAIN feedIndexes
        /\ ret' = Result("remove", f, "NotFound", NoObs, 0)
        /\ UNCHANGED feedIndexes
     \/ /\ k \in DOMAIN feedIndexes
        /\ feedIndexes' = [x \in DOMAIN feedIndexes \ {k} |-> feedIndexes[x]]
        /\ ret' = Result("remove", f, "ok", NoObs, 0)
  /\ UNCHANGED <<data, version>>

(* reset_all_data (lines 266-270).                                         *)
ResetAllData ==
  /\ version < MaxVersion
  /\ data' = <<>>
  /\ feedIndexes' = NoKeys
  /\ version' = version + 1
  /\ ret' = Result("reset", NoFeed, "ok", NoObs, 0)

(* feed_count (lines 272-273).                                             *)
FeedCount ==
  /\ ret' = Result("count", NoFeed, "ok", NoObs, Cardinality(DOMAIN feedIndexes))
  /\ UNCHANGED <<data, feedIndexes, version>>

(* The target_index values callers pass.  With ReuseFreeSlotsOnly they     *)
(* only name a slot that no key points to, or one past the end.            *)
CallerTargets ==
  IF ReuseFreeSlotsOnly
  THEN {t \in AddTargets :
          t = NoTarget \/ t >= Len(data)
          \/ (t \in 0..Len(data) - 1 /\ t + 1 \notin Range(feedIndexes))}
  ELSE AddTargets

Next ==
  \/ \E f \in Feeds, o \in Obs :
       \/ \E ti \in CallerTargets : AddFeedWithValue(f, o, ti)
       \/ UpdateDataForFeed(f, o)
  \/ \E f \in Feeds : GetLatestFeedData(f) \/ RemoveFeed(f)
  \/ ResetAllData
  \/ FeedCount

Spec == Init /\ [][Next]_vars

-----------------------------------------------------------------------------
(* Keys any reachable state can hold.                                      *)
AllKeys == {<<f.id, v, f.enumerable, f.other>> : f \in Feeds, v \in 0..MaxVersion}

Ops == {"none", "add", "get", "update", "remove", "reset", "count"}

Statuses == {"ok", "NotFound", "AlreadyExists", "IndexError"}

TypeOK ==
  /\ data \in Seq(Obs)
  /\ version \in 0..MaxVersion
  /\ DOMAIN feedIndexes \subseteq AllKeys
  /\ feedIndexes \in [DOMAIN feedIndexes -> Int]
  /\ ret \in [op : Ops, feed : Feeds \cup {NoFeed}, status : Statuses,
              obs : Obs \cup {NoObs}, n : Int]

(* Every key in _feed_indexes names a slot of _data of its own: no index   *)
(* is the "missing" 0, negative or past the end, and no two keys share a   *)
(* slot, so an update through one feed never shows through another.  It   *)
(* rests on add_feed_with_value (lines 238-245) being given only a free    *)
(* target_index; the code itself checks nothing.                           *)
SlotsWellFormed ==
  /\ \A k \in DOMAIN feedIndexes : feedIndexes[k] \in 1..Len(data)
  /\ \A k1, k2 \in DOMAIN feedIndexes :
       k1 # k2 => feedIndexes[k1] # feedIndexes[k2]

(* Whatever target_index callers pass, a read through any key of           *)
(* _feed_indexes stays inside _data: get_latest_feed_data and               *)
(* update_data_for_feed (lines 224-225, 256-258) never raise IndexError.    *)
(* It holds because _data only shrinks in reset_all_data, which clears the  *)
(* dict in the same call, and an add at a negative target_index is range    *)
(* checked by the list assignment before the key is stored.                 *)
ReadsInBounds ==
  \A k \in DOMAIN feedIndexes :
     feedIndexes[k] # 0 => PyValid(data, feedIndexes[k] - 1)

-----------------------------------------------------------------------------
(* Refinement mapping onto the storage contract StorageSpec.               *)

IdentSet == {Ident(f) : f \in Feeds}

(* What get_latest_feed_data would return for f now, NoObs if it raises.   *)
LookupObs(f) ==
  LET k == FeedKey(f) IN
  IF Missing(k) \/ ~PyValid(data, feedIndexes[k] - 1) THEN NoObs
  ELSE data[PyPos(data, feedIndexes[k] - 1)]

storeBar ==
  [i \in IdentSet |->
     LET live == {f \in Feeds : Ident(f) = i /\ LookupObs(f) # NoObs}
     IN  IF live = {} THEN NoObs ELSE LookupObs(CHOOSE f \in live : TRUE)]

(* An add that returns a slot below 1 returns the "missing" sentinel.      *)
aretBar ==
  [op     |-> ret.op,
   ident  |-> IF ret.feed = NoFeed THEN NoFeed ELSE Ident(ret.feed),
   status |-> IF ret.op = "add" /\ ret.status = "ok" /\ ret.n < 1
              THEN "BadSlot" ELSE ret.status,
   obs    |-> ret.obs,
   n      |-> IF ret.op = "count" THEN ret.n ELSE 0]

AbstractStorage == INSTANCE StorageSpec
  WITH Idents <- IdentSet, NoIdent <- NoFeed, store <- storeBar, aret <- aretBar

(* DataStorage implements the storage contract of spec section 4.1: every  *)
(* add, get, update, remove, reset and feed_count, answers included, is a  *)
(* step of the abstract map from feed identities to observations.  It can  *)
(* fail through a target_index that aliases a live slot or is negative,    *)
(* and through two representations of one identity getting two keys.      *)
ImplementsStorageSpec == AbstractStorage!Spec
=============================================================================
