------------------------------ MODULE Permission ------------------------------
(***************************************************************************)
(* PermissionManager and is_authorized_for_parameter (lines 721-760).      *)
(* permissions is the dict address -> feed id -> list of bitmasks; a       *)
(* principal keeps its (possibly empty) inner dict after revokes, as in    *)
(* the code.  Enumerable values are the integers Python shifts by (an      *)
(* IntEnum or bool member shifts as its integer value).  pret records what *)
(* the last call returned: None for grant and revoke, the bool of          *)
(* check_access, or the ValueError a negative shift count raises.          *)
(***************************************************************************)
EXTENDS Integers, Sequences

CONSTANTS
  Principals,   \* addresses
  FeedIds,      \* feed ids
  MaskLists,    \* param_bitmasks lists an admin passes to grant
  Enumerables,  \* feed.parameters.enumerable tuples passed to check_access
  EnumValues,   \* the values a bit position stands for (the policy's domain)
  NoRecord      \* the abstract "no record", and "no argument" in pret

ASSUME PermissionAssumption ==
  /\ MaskLists \subseteq Seq(Int)
  /\ Enumerables \subseteq Seq(Int)
  /\ EnumValues \subseteq Nat
  /\ NoRecord \notin Seq(SUBSET EnumValues)

VARIABLES permissions, pret

vars == <<permissions, pret>>

PResult(op, a, f, e, r, x) ==
  [op |-> op, who |-> a, fid |-> f, enum |-> e, result |-> r, raised |-> x]

(* PermissionManager(): an empty dict.                                     *)
Init ==
  /\ permissions = [a \in {} |-> <<>>]
  /\ pret = PResult("none", NoRecord, NoRecord, <<>>, "none", "none")

(* ((1 << value) & bitmask) != 0 for value >= 0: bit value of the          *)
(* two's-complement bitmask, so a negative bitmask has all high bits set.  *)
IsAuthorizedForParameter(bitmask, value) == (bitmask \div 2^value) % 2 = 1

(* The feed ids the address has a dict for (permissions.get(address)).     *)
FeedsOf(a) == IF a \in DOMAIN permissions THEN DOMAIN permissions[a] ELSE {}

(* Mutant: grant merges into an existing record, keeping the old bitmasks  *)
(* past the end of the new list.                                          *)
GrantMerging(a, f, masks) ==
  /\ permissions' =
       [x \in DOMAIN permissions \cup {a} |->
          IF x = a THEN [g \in FeedsOf(a) \cup {f} |->
                           IF g # f THEN permissions[a][g]
                           ELSE IF g \in FeedsOf(a) /\ Len(permissions[a][g]) > Len(masks)
                                THEN masks \o SubSeq(permissions[a][g], Len(masks) + 1,
                                                     Len(permissions[a][g]))
                                ELSE masks]
                   ELSE permissions[x]]
  /\ pret' = PResult("grant", a, f, <<>>, "none", "none")

(* grant: create the address's dict if absent, then store the list.        *)
Grant(a, f, masks) ==
  /\ permissions' =
       [x \in DOMAIN permissions \cup {a} |->
          IF x = a THEN [g \in FeedsOf(a) \cup {f} |->
                           IF g = f THEN masks ELSE permissions[a][g]]
                   ELSE permissions[x]]
  /\ pret' = PResult("grant", a, f, <<>>, "none", "none")

(* revoke: pop(feed_id, None) in the address's dict, if it has one.        *)
Revoke(a, f) ==
  /\ permissions' =
       IF a \in DOMAIN permissions
       THEN [permissions EXCEPT ![a] = [g \in DOMAIN @ \ {f} |-> @[g]]]
       ELSE permissions
  /\ pret' = PResult("revoke", a, f, <<>>, "none", "none")

(* Loop position k of check_access passes: a bitmask exists for it and its *)
(* bit for the value is set.                                               *)
Passes(masks, e, k) ==
  /\ k <= Len(masks)
  /\ e[k] >= 0
  /\ IsAuthorizedForParameter(masks[k], e[k])

(* The loop of lines 750-754 returns True when every position passes.      *)
LoopAllows(masks, e) == \A k \in 1..Len(e) : Passes(masks, e, k)

(* It raises ValueError when the first position that does not pass has a  *)
(* bitmask and a negative value (1 << value raises).                       *)
LoopRaises(masks, e) ==
  \E j \in 1..Len(e) : /\ j <= Len(masks)
                       /\ e[j] < 0
                       /\ \A k \in 1..(j - 1) : Passes(masks, e, k)

(* check_access: deny when the address or the feed id has no record, else *)
(* the loop's outcome.                                                     *)
CheckAccess(a, f, e) ==
  /\ pret' = IF f \in FeedsOf(a) /\ LoopRaises(permissions[a][f], e)
             THEN PResult("check", a, f, e, FALSE, "ValueError")
             ELSE PResult("check", a, f, e,
                          f \in FeedsOf(a) /\ LoopAllows(permissions[a][f], e), "none")
  /\ UNCHANGED permissions

Next ==
  \E a \in Principals, f \in FeedIds :
    \/ \E m \in MaskLists : Grant(a, f, m)
    \/ Revoke(a, f)
    \/ \E e \in Enumerables : CheckAccess(a, f, e)

Spec == Init /\ [][Next]_vars

-----------------------------------------------------------------------------
(* The table holds only granted lists under known addresses and feed ids,  *)
(* and check_access answers a bool or raises ValueError.                  *)
TypeOK ==
  /\ DOMAIN permissions \subseteq Principals
  /\ \A a \in DOMAIN permissions :
       /\ DOMAIN permissions[a] \subseteq FeedIds
       /\ \A f \in DOMAIN permissions[a] : permissions[a][f] \in MaskLists
  /\ pret.result \in BOOLEAN \cup {"none"}
  /\ pret.raised \in {"none", "ValueError"}

(* Refinement mapping: a bitmask stands for the values whose bit is set,   *)
(* a missing address or feed id for "no record".                           *)
MaskBits(m) == {v \in EnumValues : (m \div 2^v) % 2 = 1}
RecordOf(masks) == [i \in 1..Len(masks) |-> MaskBits(masks[i])]
recordsBar ==
  [a \in Principals |-> [f \in FeedIds |->
     IF f \in FeedsOf(a) THEN RecordOf(permissions[a][f]) ELSE NoRecord]]

AbstractPermission == INSTANCE PermissionSpec
  WITH Grants <- {RecordOf(m) : m \in MaskLists}, records <- recordsBar,
       answer <- pret

(* PermissionManager enforces the policy of spec section 4.2: grant        *)
(* replaces a record, revoke removes it, and every check_access answer is *)
(* the deny-by-default AND over the enumerable positions.                  *)
ImplementsPermissionSpec == AbstractPermission!Spec
=============================================================================
