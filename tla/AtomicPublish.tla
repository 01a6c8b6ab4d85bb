---------------------------- MODULE AtomicPublish ----------------------------
(***************************************************************************)
(* What the release bundle promises to whoever looks at the release         *)
(* directory: the archive is absent or whole, a run replaces it in one step *)
(* and at most once, and a run that ends without that leaves it alone.      *)
(***************************************************************************)
CONSTANTS Runs, Archives, None

VARIABLES asset, fate

Init == asset = None /\ fate = [r \in Runs |-> "idle"]

Move(r, from, to) == fate[r] \in from /\ fate' = [fate EXCEPT ![r] = to]

Begin(r)   == Move(r, {"idle"}, "running") /\ UNCHANGED asset
Publish(r) == Move(r, {"running"}, "published") /\ asset' \in Archives
End(r)     == Move(r, {"running", "published"}, "ended") /\ UNCHANGED asset

Next == \E r \in Runs : Begin(r) \/ Publish(r) \/ End(r)

Spec == Init /\ [][Next]_<<asset, fate>>
==============================================================================
