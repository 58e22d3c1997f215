----------------------------- MODULE StorageSpec -----------------------------
(***************************************************************************)
(* The contract of the storage layer (spec section 4.1): a map from feed   *)
(* identities to at most one observation each.  add refuses an identity   *)
(* that is present, get/update/remove refuse one that is absent, reset     *)
(* empties the map, count is the number of present identities.  aret       *)
(* records what the last operation returned, so that an implementation is  *)
(* held to its answers as well as to its state.                            *)
(***************************************************************************)
EXTENDS Naturals, FiniteSets

CONSTANTS
  Idents,      \* feed identities, compared the way FeedParameters.__eq__ does
  Values,      \* observation values
  Timestamps,  \* observation timestamps
  NoIdent,     \* the identity slot of an operation without a feed argument
  NoObs        \* "no observation"

Obs == [value : Values, timestamp : Timestamps]

(* What the constants are meant to satisfy; Storage's mapping meets it.   *)
StorageSpecAssumption ==
  /\ NoIdent \notin Idents
  /\ NoObs \notin Obs

Ops == {"none", "add", "get", "update", "remove", "reset", "count"}

Statuses == {"ok", "NotFound", "AlreadyExists", "IndexError", "BadSlot"}

VARIABLES store, aret

vars == <<store, aret>>

Result(op, i, st, o, n) == [op |-> op, ident |-> i, status |-> st, obs |-> o, n |-> n]

Present(i) == store[i] # NoObs

Init ==
  /\ store = [i \in Idents |-> NoObs]
  /\ aret = Result("none", NoIdent, "ok", NoObs, 0)

Add(i, o) ==
  \/ /\ ~Present(i)
     /\ store' = [store EXCEPT ![i] = o]
     /\ aret' = Result("add", i, "ok", NoObs, 0)
  \/ /\ Present(i)
     /\ aret' = Result("add", i, "AlreadyExists", NoObs, 0)
     /\ UNCHANGED store

Get(i) ==
  /\ aret' = IF Present(i) THEN Result("get", i, "ok", store[i], 0)
                           ELSE Result("get", i, "NotFound", NoObs, 0)
  /\ UNCHANGED store

Update(i, o) ==
  \/ /\ Present(i)
     /\ store' = [store EXCEPT ![i] = o]
     /\ aret' = Result("update", i, "ok", NoObs, 0)
  \/ /\ ~Present(i)
     /\ aret' = Result("update", i, "NotFound", NoObs, 0)
     /\ UNCHANGED store

Remove(i) ==
  \/ /\ Present(i)
     /\ store' = [store EXCEPT ![i] = NoObs]
     /\ aret' = Result("remove", i, "ok", NoObs, 0)
  \/ /\ ~Present(i)
     /\ aret' = Result("remove", i, "NotFound", NoObs, 0)
     /\ UNCHANGED store

Reset ==
  /\ store' = [i \in Idents |-> NoObs]
  /\ aret' = Result("reset", NoIdent, "ok", NoObs, 0)

Count ==
  /\ aret' = Result("count", NoIdent, "ok", NoObs,
                    Cardinality({i \in Idents : Present(i)}))
  /\ UNCHANGED store

Next ==
  \/ \E i \in Idents, o \in Obs : Add(i, o) \/ Update(i, o)
  \/ \E i \in Idents : Get(i) \/ Remove(i)
  \/ Reset
  \/ Count

Spec == Init /\ [][Next]_vars
=============================================================================
