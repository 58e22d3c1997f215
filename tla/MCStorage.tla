------------------------------ MODULE MCStorage ------------------------------
(* Small instances of Storage for TLC.                                     *)
EXTENDS Storage

(* Enumerable elements and "other" values as Python sees their type.       *)
PyInt(v) == [val |-> v, repr |-> "int"]
SVIMember(v) == [val |-> v, repr |-> "SVIParam"]

(* FeedType.SPOT with enumerable (0, 1), as the demo adds it.              *)
SpotFeed == [id |-> 4, enumerable |-> <<PyInt(0), PyInt(1)>>, other |-> <<>>]
(* FeedType.FORWARD with an expiry, as the demo adds it.                   *)
ForwardFeed == [id |-> 1, enumerable |-> <<PyInt(0), PyInt(1)>>,
                other |-> <<<<"expiry_timestamp", PyInt(7)>>>>]
(* FeedType.SVI_PARAMS, enumerable (0, 1, SVIParam.A) as the demo and      *)
(* SVIImpliedVolCalculator write it, and (0, 1, 0), an equal tuple.        *)
SviAFeed == [id |-> 2, enumerable |-> <<PyInt(0), PyInt(1), SVIMember(0)>>,
             other |-> <<>>]
SviAPlainFeed == [id |-> 2, enumerable |-> <<PyInt(0), PyInt(1), PyInt(0)>>,
                  other |-> <<>>]

MCFeeds == {SpotFeed, ForwardFeed, SviAFeed}

(* target_index values: None, a negative one, slots and past the end.   *)
MCAddTargets == {NoTarget, -1, 0, 1, 3}
(* target_index values the demo-style caller of the alias run passes.     *)
MCAliasTargets == {NoTarget, 0}
(* target_index values of the run without caller discipline.            *)
MCAnyTargets == {NoTarget, -2, -1, 0, 3}
(* target_index values of a caller passing -1, Python's last element.     *)
MCNegativeTargets == {NoTarget, -1}
MCFeedsTwoSpellings == {SpotFeed, SviAFeed, SviAPlainFeed}
=============================================================================
