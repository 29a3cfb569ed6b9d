----------------------------- MODULE MCWorkers -----------------------------
(***************************************************************************)
(* Small deployments of servers and activity workers, for TLC.             *)
(***************************************************************************)
EXTENDS ActivityWorker, TLC

CONSTANTS s1, s2, w1, w2

Policy(attempts, initial, coeff, max, types) ==
    [given |-> TRUE, maxAttempts |-> attempts, initial |-> initial, coeff |-> coeff,
     maxInterval |-> max, nonRetryable |-> types]
NoPolicy == [Policy(0, 0, <<0, 1>>, 0, {}) EXCEPT !.given = FALSE]

Activity(can, policy) == [can |-> can, policy |-> policy, hash |-> 0]
Twice == Policy(2, 1, <<0, 1>>, 0, {"panic"})

Deploy(servers, env, partitions, capacity, tasks, f) ==
    [servers |-> servers, env |-> env, workers |-> DOMAIN partitions, numPartitions |-> 2,
     partitions |-> partitions @@ [w \in Worker |-> {}], capacity |-> capacity,
     tasks |-> tasks, faults |-> f]

\* One server without a key; one of its activities returns too much.
Single == Deploy({s1}, "", [w \in {w1} |-> {}], 2,
                 <<Activity({"ok", "error", "panic"}, Twice), Activity({"big"}, NoPolicy)>>, 3)

\* Two servers that share a key, two workers with a slot each.
Replicated == Deploy({s1, s2}, "c0ffee", [w \in {w1, w2} |-> IF w = w1 THEN {0} ELSE {}], 1,
                     <<[Activity({"ok", "unregistered"}, Twice) EXCEPT !.hash = 3]>>, 3)

\* Two servers that make a key each.
Unkeyed == Deploy({s1, s2}, "", [w \in {w1} |-> {}], 1, <<Activity({"ok", "error"}, Twice)>>, 1)

\* Policies at their limits: delays that no longer fit, a fraction that is
\* lost, no error types listed; and a partition nobody serves.
Policies == Deploy({s1}, "not hex", [w \in {w1} |-> {0}], 1,
                   <<Activity({"error"}, Policy(8, 1, <<2, 1>>, 3, {"badInput"})),
                     Activity({"ok", "error"}, Policy(4, 3, <<3, 2>>, 0, {"panic"})),
                     Activity({"ok"}, Policy(3, 1, <<2, 1>>, 0, {})),
                     [Activity({"ok"}, NoPolicy) EXCEPT !.hash = 1]>>, 0)

\* Plain exponential retries: whole factors, no fault.
Doubling == Deploy({s1}, "c0ffee", [w \in {w1} |-> {}], 1,
                   <<Activity({"error"}, Policy(4, 1, <<2, 1>>, 3, {"badInput"})),
                     Activity({"error", "ok"}, Policy(3, 1, <<2, 1>>, 0, {"badInput"}))>>, 0)

InstanceDeployments == {Single, Replicated, Unkeyed, Policies}
DocumentedDeployments == {Doubling}
=============================================================================
