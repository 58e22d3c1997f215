# Verification of the oracle feed engine (blockscholes_oracle_deepbook_demo.py)

TLA+ models of `src/packages/predict/blockscholes_oracle_deepbook_demo.py`.
Each module names the source lines it translates. Inventory, plan and status
are below.

## 1. Inventory

The file holds one program. It has five parts that interact, plus I/O and a demo.

| Component | State | Operations | Interacts with |
|---|---|---|---|
| Feed identity / key scheme (`Feed`, `FeedParameters`, `_get_feed_key`, l. 161-217) | none | `_get_feed_key(feed)`: sha256 of `f"{id}:{version}:{enumerable}:{other}"` | used by every storage method |
| `DataStorage` (l. 208-273) | `_data`, `_timestamps` (parallel lists), `_feed_indexes` (key -> 1-based slot, 0 = missing), `version` | `add_feed_with_value(feed, value, ts, target_index=None)`, `get_latest_feed_data`, `update_data_for_feed`, `remove_feed` (drops the key only), `reset_all_data` (clears everything, `version += 1`), `feed_count` | written by producers; read by the router |
| `DerivedDataProvider` (l. 347-403) | `_calculators`: output type -> (input types, handler) | `add_calculator` (replaces), `remove_calculator` (ValueError if absent), `get_latest_feed_data` (recursive resolution, l. 367-400), `is_derived` | reads `DataStorage`, calls handlers, calls itself |
| Calculators (l. 564-696) | stateless | `get_input_feed_parameters(params)`, `calculate(ts, inputs, params)` for `SVIImpliedVolCalculator` and `OptionPriceCalculator` | called by the router; the option calculator calls the pricing engine |
| Pricing engine (l. 437-532) | stateless | `get_foreign_rate`, `compute_option_price` (vanilla/digital premium and six Greeks) | called by `OptionPriceCalculator` |
| `PermissionManager` (l. 721-755) | `permissions`: address -> feed id -> list of bitmasks | `grant` (replaces), `revoke` (no-op if absent), `check_access` (AND over enumerable positions) | consulted by callers before reads; no call from the core |
| API client (l. 35-124) | none | HTTP POSTs | produces (value, timestamp) pairs; not modelled |
| `main` (l. 763-1176) | locals | the demo sequence | not modelled; its feeds are the MC feeds |

Interaction: producers `add`/`update` observations. A consumer first asks
`check_access`. For a base feed it then calls `DataStorage.get_latest_feed_data`.
For a derived feed it calls `DerivedDataProvider.get_latest_feed_data`. That call
resolves each declared input, tries storage first, and recurses when the input
type has a calculator. It returns the handler's value with the minimum input
timestamp. The code is single-threaded. Spec section 5 asks that concurrent use
be possible: many readers and serialized writers.

What is hard, and where:
- *Key spelling* (l. 216). The key is built from `str()` of the tuple and the
  dict, which uses `repr()` of their members. Equal `FeedParameters` can
  therefore get different keys: `SVIParam.A` vs `0`, `1` vs `1.0` vs `True`,
  and dicts whose keys were inserted in another order.
- *Slot management* (l. 238-245). `target_index` is not checked against live
  slots. Negative indexes are accepted by Python list indexing. Index 0 means
  "missing". `remove_feed` leaves its slot behind.
- *Recursive resolution* (l. 382-395). There is no cycle guard. The `2**31-1` sentinel is the starting value of the minimum.
  Errors propagate part-way through a chain.
- *Calculators* (l. 584-684). Branches on the time to expiry, measured from the
  stale minimum timestamp. There is a near-expiry intrinsic shortcut, which also
  applies to digital options, and domain errors in `sqrt`/`log`.
- *Permissions* (l. 721-755). Bits are tested on unbounded Python ints.
  Negative values and masks behave unusually. Enumerable positions past the
  mask list deny.
- *Concurrency* (spec section 5). A resolution reads one input at a time.

Properties that make each part correct:
- **Storage**: it implements the contract of spec section 4.1, a map from
  identities to observations, with `add`/`get`/`update`/`remove`/`reset`/`count`
  answers. No two live keys share a slot. Reads never leave `_data`.
- **Router**: the result timestamp is the minimum over the storage reads the
  resolution made. Resolution terminates iff the reachable registry is acyclic.
  The result equals a recursive reference evaluation. The error taxonomy is as
  in spec section 7.
- **Calculators**: the premium is 0 when expired. It is intrinsic within 5 minutes.
  A digital premium lies in [0, 1]. Input declaration has the registered arity.
- **Permissions**: `check_access` equals the AND-of-positions, deny-by-default
  policy of spec section 4.2 after any sequence of grants and revokes.
- **Service**: a derived value is computed from observations of one storage state.

## 2. Plan

Modules are listed in order, the most important behaviour first:

1. `StorageSpec` (abstract contract) and `Storage` (DataStorage and the key
   scheme), with `MCStorage`. **Done.**
2. `Router` with `MCRouter`, and `RouterProofs`. **Done** (see section 3).
3. `Calculators`: `get_input_feed_parameters` exactly, and `calculate`'s branch
   structure over integer seconds (threshold 300 s). Premiums are abstracted to
   the interval the Black-Scholes formula guarantees. Run: the digital-premium
   bound near expiry, expected as a violation. **Done** (see section 3).
4. `Permission` with `PermissionSpec`, the policy of spec section 4.2. The bit
   test is written as `(mask \div 2^v) % 2 = 1`, which matches Python's
   infinite two's complement and keeps the module provable. **Done**, with
   `PermissionProofs`.
5. `Service`: resolution steps interleaved with storage writers under
   per-call atomicity (spec section 5). It checks snapshot consistency of a
   derived value.

Theorems, all **done** (section 3 gives the arguments):
- Storage: type correctness, `SlotsWellFormed`, `ReadsInBounds`, and the
  refinement `Spec => AbstractStorage!Spec` under the free-slot and
  one-spelling hypotheses.
- Router: type correctness, `ResultTimestampIsMinOfReads`, and the absence of
  RecursionError under a ranked registry.
- Calculators: `NearExpiryFloor`.
- Permission: `check_access` equals the policy.

## 3. What is modelled now

### Storage (`Storage.tla`, `StorageSpec.tla`, `MCStorage.tla`)

- Variables: `data` holds both parallel lists as one sequence of `[value,
  timestamp]`; they are always written at the same index. `feedIndexes` is the
  dict and `version` the version. `ret` records the last call's return value or
  the exception it raised.
- A feed is a representation: an integer id, the enumerable tuple with each
  element's Python type (`int` or `SVIParam`), and the `other` dict as its
  ordered entries, each value typed. `Ident` is what dataclass equality compares.
  `FeedKey` is what the key string spells out. sha256 is assumed injective on
  those strings.
- `PyValid`/`PyPos` give Python list indexing, including negative indexes.
- One action per method: `AddFeedWithValue` (its three outcomes, including
  `IndexError` from a negative `target_index`), `GetLatestFeedData`,
  `UpdateDataForFeed`, `RemoveFeed`, `ResetAllData` and `FeedCount`.
- `CallerTargets` is the caller side. With `ReuseFreeSlotsOnly` callers pass a
  `target_index` only for a slot no key uses, or one past the end. The code
  checks nothing itself.
- `StorageSpec` is spec section 4.1 as a map `store : Idents -> Obs ∪ {NoObs}`
  with its own `aret`. `AbstractStorage == INSTANCE StorageSpec WITH ...` maps
  each identity to what `get` would return for any of its spellings. An `add`
  that returns a slot below 1 maps to the abstract status `BadSlot`.

Runs (bounds: 3 feeds, values {10, 20}, one timestamp, `MaxSlots` = 3,
`MaxVersion` = 1, target indexes {None, -1, 0, 1, 3} or {None, -2, -1, 0, 3}).
Three slots let remove-then-reuse happen with a third feed still live. One
reset is enough to reach every post-reset state, because reset empties
everything.

| Run | Result | What it shows |
|---|---|---|
| `storage_refines_contract` | pass, 8,582 states | With disciplined callers and one spelling per identity, DataStorage refines the contract, answers included. `SlotsWellFormed` holds. |
| `storage_any_target_index` | pass, 50,140 states | With any `target_index`, no read or update through a stored key leaves `_data` (`ReadsInBounds`), so the IndexError paths of get/update are dead. |
| `storage_target_index_aliasing` | violation | Adding the SVI `a` feed with `target_index=0` overwrites FORWARD's live observation (finding, l. 238). |
| `storage_negative_target_index` | violation | `target_index=-1` is below `len(_data)`, so add takes it: on empty storage `_data[-1]` raises IndexError out of add, and with a feed stored it overwrites the last slot and records index 0, the "missing" sentinel. The new feed then blocks a second add while get raises KeyError (finding, l. 238). |
| `storage_key_spelling` | violation | `(0,1,SVIParam.A)` and `(0,1,0)` are one identity with two keys, so the second add succeeds and update through one misses the other (finding, l. 216). |

### Proved (`StorageProofs.tla`)

- `TypeCorrect`: `Spec => []TypeOK` for all constants satisfying
  `StorageAssumption`. The inductive form `TypeInv` adds
  `IsFiniteSet(DOMAIN feedIndexes)`. `feed_count` is an integer only because
  the dict is finite, and `FS_AddElement`, `FS_Subset` and `FS_EmptySet`
  carry finiteness through add, remove and reset.
- `SlotsWellFormedThm`: under `ReuseFreeSlotsOnly`,
  `Spec => []SlotsWellFormed`. The inductive invariant is
  `TypeInv /\ SlotsWellFormed`. Slots are typed integers, which makes the
  bound and injectivity argument go through. Each action is one case:
  - a reused slot is outside `Range(feedIndexes)`;
  - an appended slot is `Len(data)+1`, above every existing index;
  - remove restricts the dict, and reset empties it.
- `ReadsInBoundsThm`: `Spec => []ReadsInBounds`, with no hypothesis on the
  callers. The inductive invariant is `RInv == TypeInv /\ ReadsInBounds`.
  An add that overwrites a slot writes inside `_data`, an append grows it,
  and remove and reset only shrink the dict.
- The lemmas are `PyPosInRange` (a valid Python index lands in `1..Len`) and
  `ResultType`.

### Proved (`StorageRefinement.tla`)

`StorageRefinementThm`: under `ReuseFreeSlotsOnly` and `IdentInjective`,
`Spec => ImplementsStorageSpec`, for all constants satisfying
`StorageAssumption`. `IdentInjective` says no two feeds in use are equal under
`FeedParameters.__eq__`. Each hypothesis is needed: dropping one gives the run
`storage_target_index_aliasing` or the run `storage_key_spelling`.

- The inductive invariant is `RefInv == TypeInv /\ SlotsWellFormed /\
  KeysOfFeeds`. `KeysOfFeeds` says every key is the key of some feed. Reset
  clears the dict when it moves the version, so there are no stale keys.
- `FeedKeyInjective`: under `IdentInjective`, two feeds with one key are one
  feed. So the mapped `store` at an identity is `Look(FeedKey(f))`.
- There is one lemma per action (`RefAdd`, `RefUpdate`, `RefGet`,
  `RefRemove`, `RefReset`, `RefCount`). Each maps to the abstract action of
  the same name with the same answer.
- `CountPresent`: `feed_count` is `len(_feed_indexes)`, which equals the
  number of identities the contract stores. The proof is a bijection between
  keys and present identities (`FS_Bijection`).

### Router (`Router.tla`, `MCRouter.tla`)

- Variables: the four Storage variables (the module composes `Storage` with
  `St == INSTANCE Storage`), `calculators` (`_calculators`, output id ->
  `[ins, h]`), `stack` and `rret`.
- `stack` holds the active Python frames of `get_latest_feed_data`, innermost
  last. A frame holds the requested feed, its configuration, the input
  parameters the handler declared, the loop position `i`, `input_data` as
  `vals`, `min_timestamp` as `minTs`, and a history field `leafTs`: the
  timestamps of every storage read made by this call and the calls it made.
- Actions:
  - `Request` is the consumer's call. It raises "no calculator" or enters
    `Call`.
  - `Call` is the parameter-count check and the new frame.
  - `ResolveInput` is one loop pass. It reads from storage; on `KeyError` it
    recurses when the type is registered (RecursionError past
    `RecursionLimit` frames) or propagates `KeyError`.
  - `Return` is `calculate` plus the return to the caller frame.
  - `AddCalculator`, `RemoveCalculator` and `StorageCall` are any Storage
    method.
- No exception is caught between frames: the recursive call sits inside the
  `except` block. So every error empties the stack at once.
- The code is single-threaded. Registry changes and storage calls therefore
  happen only while no resolution is running.
- `get_input_feed_parameters` of the three handlers is modelled exactly:
  `[:2]` slices, `other.get("expiry_timestamp", 0)` keeping the Python type,
  and SVIParam members.
- `calculate` is an uninterpreted term `Calc(h, ts, inputs, params)`, so a
  result shows exactly what it was computed from.
- `Init` is the demo's storage after `main()`'s eight adds, in its order, with
  an empty registry.

Runs. The producer writes FORWARD and SVI `a`. Timestamps are {1, 2} and
`RecursionLimit` is 4; Python's 1000 only scales the depth, and the demo's
chains are 2 deep. The registrations are the demo's IV, OPTION_PRICE and
BASIS, plus an IV miswired to OPTION_PRICE (a cycle) and an IV with five input
ids (a parameter-count error at depth 2). The requests are IV at the money, a
vanilla call, and BASIS.

| Run | Result | What it shows |
|---|---|---|
| `router_demo_registry` | pass, 833,297 states | Every result's timestamp is the minimum of all observations it read transitively (`ResultTimestampIsMinOfReads`). Frames are well formed (`TypeOK`). |
| `router_cyclic_registration` | violation | With IV registered on OPTION_PRICE, a request recurses until RecursionError, which is outside the spec's error taxonomy (finding, l. 389). |
| `router_timestamp_past_sentinel` | violation | When every input is newer than `2**31-1`, the result carries the sentinel, not the oldest input (finding, l. 380). This run scales the sentinel to 1 below timestamps 2; the comparison is order-only. |

### Proved (`RouterProofs.tla`)

- `TimestampIsMinOfReads`: `Spec => []ResultTimestampIsMinOfReads`, for all
  constants satisfying `RouterAssumption` and the hypothesis
  `TimestampsBelowSentinel` (every timestamp is an integer no larger than
  `TsSentinel`). Without that hypothesis the theorem is false: that is the
  run `router_timestamp_past_sentinel`.
- The invariant alone is not inductive. It speaks only of the finished
  result, while the minimum is built up in the open frames. The inductive
  invariant `RInv` therefore also constrains every frame on the stack
  (`FrameMin`):
  - `leafTs` holds timestamps;
  - `minTs` is the sentinel while nothing was read;
  - otherwise `minTs` is a member of `leafTs` and below all of them;
  - a frame past its first input has read something (`i > 1 => leafTs # {}`),
    so a returning frame always brings a real timestamp to its caller.
- `RInv` also types storage (`DataOK`, so a storage hit yields an integer
  timestamp) and the registry (`CalcOK`, so every handler declares at least
  one input, `InputParamsLen`).
- The step proof has one lemma per action: `CallStep`, `ResolveInputStep`,
  `ReturnStep`, and `StorageStep` for every DataStorage method. The frame
  updates are `FrameFresh`, `FrameRead` and `FrameReturn`. The stack
  operations are `StackPush`, `StackPop` and `StackReplaceTop`.

### Proved (`RouterTypeProofs.tla`)

`RouterTypeCorrect`: `Spec => []TypeOK` for all constants satisfying
`RouterAssumption`. The inductive invariant `TInv` adds the following to
`TypeOK`:
- `StackTyped`: the stack is a sequence of at most `RecursionLimit` frames,
  each with the record shape `Frame` builds.
- `CallersInLoop`: every frame below the top is suspended inside its loop
  (`i <= Len(ins)`). Without it, a `Return` could step a caller past its last
  input.
- `CalcTyped` and `RretTyped`.

The per-action lemmas are `CallTyped`, `ResolveInputTyped`, `ReturnTyped` and
`VersionStep`. The stack lemmas are `StackPushTyped`,
`StackReplaceTopTyped` and `StackPopTyped`.

### Proved (`RouterDepthProofs.tla`)

`NoRecursionError`: suppose some `rank` satisfies `RankedRegistry(rank)`. That
is, it maps each registrable output to `0..RecursionLimit-1`, and each input of
a registration that is itself an output ranks below that registration's
output. Then `Spec => []ResolutionErrorsInTaxonomy`: line 389 never raises
RecursionError. Without a ranking the theorem is false: that is the run
`router_cyclic_registration`, whose IV depends on OPTION_PRICE. The demo's
registry (OPTION_PRICE 2, IV and BASIS 1) is ranked for any limit above 2.

The inductive invariant `DInv(rank)` is `TInv` plus three conjuncts:
- `RegistryFromCalls`: every registry entry is one of the registrations.
- `FramesCalled`: every frame's output is registered with that frame's inputs.
- `FramesRanked(rank)`: the frame at depth `j` has rank at most
  `RecursionLimit - j`.

The key step is `DResolve`. The input a frame recurses on ranks strictly below
the frame's output. So the new frame also satisfies `FramesRanked`, and the
depth test `Len(stack) >= RecursionLimit` is always false there. `FramesPush`,
`FramesReplace` and `FramesKept` carry the frame conjuncts through push,
`input_data.append` and return.

### Permission (`Permission.tla`, `PermissionSpec.tla`, `MCPermission.tla`)

`PermissionSpec` is the policy of spec section 4.2 in its own words. `records`
maps each (principal, feed type) pair either to `NoRecord` or to a sequence of
value sets. `Grant` replaces a record and `Revoke` removes one. `Check` answers
`Allowed`: a record exists, it covers every position, and every value is in its
position's set.

`Permission` is `PermissionManager` (lines 721-756). Its state is:
- `permissions`: the nested dict, address -> feed id -> bitmask list. The
  address's inner dict survives a revoke, as in the code.
- `pret`: what the last call returned.

Its actions are:
- `Grant` creates the inner dict if it is missing and stores the list.
- `Revoke` pops the feed id.
- `CheckAccess` covers the two early `False` returns and the loop.
  - `LoopAllows` says every position has a bitmask and a set bit.
  - `LoopRaises` says the first position that does not pass has a bitmask and
    a negative value. `1 << value` raises there.

`IsAuthorizedForParameter(m, v)` is `(m \div 2^v) % 2 = 1`. This is bit `v` of
the two's complement `m` for `v >= 0`, so a negative bitmask grants every
value, as in Python.

The refinement mapping reads each bitmask as the set of `EnumValues` whose bit
is set (`MaskBits`). A missing address or feed id reads as `NoRecord`.

Runs:
- `permission_refines_policy` (pass, 16,225 states). The instance has two
  principals and two feed ids. The granted lists include a negative bitmask and
  an empty list. The requests are shorter than, equal to and longer than the
  grants. The property is `ImplementsPermissionSpec` (`AbstractPermission!Spec`).
  The mutant `GrantMerging` keeps the old bitmasks past the end of a shorter
  regrant, and it is caught.
- `permission_negative_value` (violation). This run adds requests with a
  negative value. `check_access` raises `ValueError`, where the policy denies.

### Proved (`PermissionProofs.tla`)

`PermissionRefinement`: `Spec => ImplementsPermissionSpec`, for all constants
that satisfy `PermissionAssumption`. It also needs the hypothesis
`EnumerablesInPolicy`: every requested value lies in `EnumValues` (non-negative
bit positions). Without that hypothesis the theorem is false, as the negative
run shows.

The argument follows the usual refinement layout:
- `TableOK` is an invariant (`InitTable`, `TableStep`). It says the table is a
  function of functions that holds granted lists, which the mapping needs.
- `InitMaps`: the empty dict maps to the all-`NoRecord` initial state.
- `StepMaps`: each action maps to the abstract action of the same name.
  - For `Grant` and `Revoke`, the mapped table is first shown equal pointwise,
    then as an `EXCEPT`.
  - For `CheckAccess`, `LoopIsPolicy` shows that on granted lists the loop
    never raises and allows exactly what `Allowed` allows of `RecordOf(m)`.
    `LoopIsPolicy` rests on `RecordOfType` and the bit reading of
    `IsAuthorizedForParameter`.
- The temporal step combines these three facts with PTL.

### Calculators (`Calculators.tla`, `MCCalculators.tla`)

The model covers `OptionPriceCalculator.calculate` (lines 637-684),
`SVIImpliedVolCalculator.calculate` (584-614), and the guards and premium form
of `compute_option_price` (445-509).

The calculators are fed as the router feeds them:
- `obs` holds the latest observation of SPOT, FORWARD, RATE and the SVI
  coefficients. Producers update them with their own timestamps
  (`UpdateInput`).
- A request is calculated at the minimum timestamp of the stored feeds its
  resolution reads (`Stalest`). Router proves that this is the timestamp
  `get_latest_feed_data` passes.
- IV is never stored. An OPTION_PRICE request resolves it inside the request
  (l. 389) with the option's own parameters (l. 696), at the stalest of
  FORWARD's and SVI's timestamps (`IVInputs`, `SVIOutcomes`). The option is
  then priced at the stalest of all four timestamps. A ValueError of the IV
  resolution aborts the request (`PriceOption`). The two timestamps can
  differ, so IV can already be past expiry (vol 0) while the option is still
  inside the five-minute window.

Times are integer seconds. Dividing by `SECONDS_IN_YEAR` keeps their order, so
the comparisons with 0 and with `FIVE_MIN_IN_YEARS` are taken against 0 and
300. Prices are integers. Black-Scholes premiums and the SVI volatility are
symbolic terms. The SVI volatility `Vol(sign)` keeps only the sign of the
total variance. `VarianceSigns` gives the signs the coefficients allow: with
`a >= 0`, `b >= 0` and `|rho| <= 1` the variance is not negative, and it is
positive when `a > 0`. Otherwise any sign is possible, and a negative one
raises ValueError in `sqrt`.

The instance uses expiry 400 and timestamps 0, 200 and 400. These put the
reference time before the window, inside the five-minute window, and at
expiry. Spot is 0 or 10, and strikes are 5, 0 or absent. There are two SVI
surfaces: the demo's (`a = 1`, positive variance) and one with `a = -1`,
whose variance may have any sign, so the IV ValueError path is reached. Calls,
puts, vanilla and digital options are all included.

Runs:
- `calculators_near_expiry_floor` (pass, 42,444 states). The property is
  `NearExpiryFloor`, the spec section 8 test. A vanilla option request that
  reaches the calculator less than five minutes before expiry is priced at
  its intrinsic value, whatever vol the IV resolution gave. That includes 0
  from an IV computed at fresher timestamps that already lie past expiry.
  Digital options are the subject of the next run. The mutant `OptionCalculateVolFirst` moves
  the `iv <= 0` check ahead of the shortcut, and it is caught.
- `calculators_digital_near_expiry` (violation). The property is
  `DigitalPremiumWithinDiscount`. A digital put near expiry is priced
  `max(strike - spot, 0) = 5`, above its unit payoff.

### Proved (`CalculatorsProofs.tla`)

`NearExpiryFloorThm`: `Spec => []NearExpiryFloor` for all constants
satisfying `CalculatorsAssumption`: prices, spots and timestamps are integers,
SVI surfaces are 5-tuples of integers, and the expiries are integers or
absent. The inductive invariant is
`FInv == ObsOK /\ NearExpiryFloor`, where `ObsOK` types the stored
observations. With `ObsOK`, the stalest of the four timestamps is an integer
(`StalestOptionInt`). Inside the window, `calculate` takes the intrinsic-value
branch before it looks at the volatility (`PriceOptionFloor`). This holds
whichever outcome the IV sub-resolution had: a ValueError leaves no `ok`
option result, and any `ok` vol is passed over by the shortcut.

### Not modelled, and why

- The HTTP client and `main`: I/O and printing.
- Black-Scholes arithmetic, the Greeks and `get_foreign_rate`: real numbers
  are out of TLC's and the provers' reach. Only the guards and the premium's
  form are modelled (`ComputeOptionPrice`).
- Concurrent writers between a resolution's reads (spec section 5): the code
  is single-threaded and takes no lock, and no module interleaves them yet.
- Python reference aliasing of the `param_bitmasks` list in `grant`: the models
  have value semantics.

### What stays with TLC

TLAPS proves safety (`[]Inv` and refinement of safety specifications) from an
inductive invariant. The following stay with the TLC runs:
- **Liveness and ENABLED.** The prover's temporal backend does not reason
  about fairness or `ENABLED`. Termination of resolution is not stated as a
  liveness property anyway: Python's recursion limit ends every resolution,
  and the runs state how it ends.
- **RECURSIVE operators.** No module declares one. The router models the
  recursion of `get_latest_feed_data` as an explicit stack of frames, which
  keeps the proof modules within the SMT backend's reach.
- **Induction over data.** What a recursive definition computes for every
  input needs the library's induction theorems with an operator parameter.
  The installed provers cannot instantiate those.
- **The violation runs** (`storage_target_index_aliasing`,
  `storage_key_spelling`, `storage_negative_target_index`,
  `router_cyclic_registration`, `router_timestamp_past_sentinel`,
  `permission_negative_value`, `calculators_digital_near_expiry`). They show
  properties that are false. Where a theorem proves the property under a
  hypothesis, the violation run shows that the hypothesis is needed.
