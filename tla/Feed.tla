-------------------------------- MODULE Feed --------------------------------
(***************************************************************************)
(* What a controller promises its load balancer: for each group and each   *)
(* address of a machine, ADD comes first, DELETE last, REJ only between    *)
(* them, and after DELETE the machine may be added again.  Controller      *)
(* implements this specification; Balancer relies on it.                   *)
(***************************************************************************)
CONSTANTS Group,   \* the services
          IP       \* addresses of machines

VARIABLE feed      \* per group and address, the last operation notified

Operation == {"ADD", "DELETE", "REJ"}

Init == feed = [g \in Group |-> [ip \in IP |-> "DELETE"]]

\* A machine the load balancer does not have can only be added, and one it has
\* cannot be added again.
MayFollow(old, new) == IF old = "DELETE" THEN new = "ADD" ELSE new # "ADD"

Notify(g, ip, op) ==
    /\ MayFollow(feed[g][ip], op)
    /\ feed' = [feed EXCEPT ![g][ip] = op]

Next == \E g \in Group, ip \in IP, op \in Operation : Notify(g, ip, op)

Spec == Init /\ [][Next]_feed
=============================================================================
