----------------------------- MODULE Membership -----------------------------
(***************************************************************************)
(* What the workspace store promises of its membership lists: a manifest   *)
(* joins a workspace under an idempotency key nobody uses there, leaves    *)
(* under all of its keys at once, and no update of one request is lost to  *)
(* another (webapp/src/workspaces/store.rs:26-30, 370-371).                *)
(***************************************************************************)
CONSTANTS Workspaces, Manifests, Keys

VARIABLE members   \* members[w]: the entries [key, manifest] of workspace w

Init == members = [w \in Workspaces |-> {}]

Join(w, k, m) ==
    /\ \A e \in members[w] : e.key # k
    /\ members' = [members EXCEPT ![w] = @ \cup {[key |-> k, manifest |-> m]}]

Leave(w, m) ==
    members' = [members EXCEPT ![w] = {e \in @ : e.manifest # m}]

Clear(w) == members' = [members EXCEPT ![w] = {}]

Next ==
    \E w \in Workspaces :
        \/ \E k \in Keys, m \in Manifests : Join(w, k, m)
        \/ \E m \in Manifests : Leave(w, m)
        \/ Clear(w)

Spec == Init /\ [][Next]_members
=============================================================================
