--------------------------- MODULE RecordingRules ---------------------------
(***************************************************************************)
(* The recording rules of internal/rules and what Prometheus records when  *)
(* it evaluates them: the group `openbao.recording`, one rule after the    *)
(* other, over what each target exposed when it was last scraped.  Targets *)
(* are scraped at different times, keep exposing gauges of a state they    *)
(* left, restart their counters and go missing.                            *)
(*                                                                         *)
(* A rule is a record name, here the pair of what it names and its suffix, *)
(* and the vector its expression yields.  A sample is of a metric and, for *)
(* a summary, of its sum or its count.  The canonical identity labels are  *)
(* abstracted to `cluster` and `instance`; source_prefix, equal on every   *)
(* record of a variant, and the namespace of a mount are left out.         *)
(***************************************************************************)
EXTENDS Integers, Sequences, FiniteSets, SequencesExt, TLC

CONSTANTS Targets,  \* the scrape targets: records of cluster and instance
          Focuses,  \* the families of metrics to look at, one per behaviour
          Rounds    \* the evaluations whose records lie in a range of five minutes

ASSUME RulesAssumption ==
    /\ IsFiniteSet(Targets) /\ Targets \subseteq [cluster : STRING, instance : STRING]
    /\ Focuses \subseteq {"seal", "backlog", "latency", "cache", "mounts", "raft"}
    /\ Rounds \in Nat /\ Rounds >= 1

VARIABLES focus,    \* the family the targets expose in this behaviour
          now,      \* the samples of each target's last scrape
          before,   \* and of the scrape before, where rules reach back that far
          records,  \* what the last evaluation recorded
          current,  \* no target has been scraped since
          recent,   \* the backlog records in range, with the round they are of
          led       \* history: the backlogs of the nodes that led in those rounds

vars == <<focus, now, before, records, current, recent, led>>

(* -------------------------------- PromQL -------------------------------- *)

By(s, labels) == Restrict(s.labels, labels \cap DOMAIN s.labels)
Groups(labels, V) == {By(s, labels) : s \in V}
Members(g, labels, V) == {s \in V : By(s, labels) = g}
SumOf(S) == MapThenSumSet(LAMBDA s : s.value, S)
SumBy(labels, V) ==
    {[labels |-> g, value |-> SumOf(Members(g, labels, V))] : g \in Groups(labels, V)}
MaxBy(labels, V) ==
    {[labels |-> g, value |-> Max({s.value : s \in Members(g, labels, V)})] : g \in Groups(labels, V)}
MinBy(labels, V) ==
    {[labels |-> g, value |-> Min({s.value : s \in Members(g, labels, V)})] : g \in Groups(labels, V)}
CountBy(labels, V) ==
    {[labels |-> g, value |-> Cardinality(Members(g, labels, V))] : g \in Groups(labels, V)}

Or(V, W) == V \cup {w \in W : \A v \in V : v.labels # w.labels}
And(V, labels, W) == {v \in V : \E w \in W : By(v, labels) = By(w, labels)}
Matched(V, W) == {p \in V \X W : p[1].labels = p[2].labels}
Minus(V, W) == {[labels |-> p[1].labels, value |-> p[1].value - p[2].value] : p \in Matched(V, W)}
Plus(V, W) == {[labels |-> p[1].labels, value |-> p[1].value + p[2].value] : p \in Matched(V, W)}
\* A quotient is kept in thousandths; by zero it is not a number.
NaN == 0 - 1
Quotient(n, d) == IF d = 0 THEN NaN ELSE (1000 * n) \div d
Over(V, W) == {[labels |-> p[1].labels, value |-> Quotient(p[1].value, p[2].value)] : p \in Matched(V, W)}
ClampMin(V, least) == {[labels |-> s.labels, value |-> Max({s.value, least})] : s \in V}

Whole == "whole"
Selected(samples, metric, part) == {s \in samples : s.metric = metric /\ s.part = part}
Now(metric) == Selected(now, metric, Whole)
Before(metric) == Selected(before, metric, Whole)
\* rate() and increase() need a series twice and take a drop for a restart.
\* Both count events of the window here, in tenths: clamp_min(rate, 0.001)
\* lies between none and one event in five minutes.
Tenths == 10
IncreaseOf(metric, part) ==
    {[labels |-> p[1].labels,
      value |-> Tenths * (IF p[1].value >= p[2].value THEN p[1].value - p[2].value ELSE p[1].value)] :
        p \in Matched(Selected(now, metric, part), Selected(before, metric, part))}
Increase(metric) == IncreaseOf(metric, Whole)
MaxOverTime(metric) ==
    {[labels |-> l, value |-> Max({s.value : s \in {s \in Now(metric) \cup Before(metric) : s.labels = l}})] :
        l \in {s.labels : s \in Now(metric) \cup Before(metric)}}

(* A range over recorded series: samples with their age in rounds, 1 for those
   of the newest evaluation.  A series that stopped stays until it is too old. *)
Aged(range, V) ==
    {[labels |-> s.labels, value |-> s.value, age |-> 1] : s \in V}
    \cup {[s EXCEPT !.age = @ + 1] : s \in {s \in range : s.age < Rounds}}

(* deriv() needs two samples of a series and yields the slope of the line of
   least squares, here in thousandths a round: the mean of the slopes between
   every two samples, each weighted by the square of its distance. *)
Apart(range) == {p \in range \X range : p[1].labels = p[2].labels /\ p[1].age < p[2].age}
Rise(p) == [of |-> p, value |-> (p[2].age - p[1].age) * (p[1].value - p[2].value)]
Run(p) == [of |-> p, value |-> (p[2].age - p[1].age) * (p[2].age - p[1].age)]
Slope(pairs) == (1000 * SumOf({Rise(p) : p \in pairs})) \div SumOf({Run(p) : p \in pairs})
Deriv(range) ==
    {[labels |-> l, value |-> Slope({p \in Apart(range) : p[1].labels = l})] :
        l \in {p[1].labels : p \in Apart(range)}}

(* -------------------- the expressions of the generator ------------------- *)

ClusterGrouping == {"cluster"}
TargetGrouping == ClusterGrouping \cup {"instance"}

ClusterMax(metric) == MaxBy(ClusterGrouping, Now(metric))
TargetMax(metric) == MaxBy(TargetGrouping, Now(metric))
ClusterIncrease(metric) == SumBy(ClusterGrouping, Increase(metric))
IncreaseBy(label, metric) == SumBy(ClusterGrouping \cup {label}, Increase(metric))

RaftPeerCount ==
    LET autopilot == CountBy(ClusterGrouping, Now("autopilot_node_healthy"))
        storage == CountBy(ClusterGrouping,
                           CountBy(ClusterGrouping \cup {"peer_id"}, Now("raft_storage_stats_commit_index")))
    IN Or(Or(ClusterMax("raft_peers"), autopilot), storage)

\* Mutated form of SecretKVCount: every node's count of a mount is added up.
SecretKVCount_PerTarget ==
    SumBy(ClusterGrouping, MaxBy(TargetGrouping \cup {"mount_point"}, MaxOverTime("secret_kv_count")))
SecretKVCount ==
    SumBy(ClusterGrouping, MaxBy(ClusterGrouping \cup {"mount_point"}, MaxOverTime("secret_kv_count")))

RaftStorageMax(metric) == MaxBy(TargetGrouping \cup {"peer_id"}, Now(metric))
RaftStorageApplyGap ==
    ClampMin(MaxBy(TargetGrouping \cup {"peer_id"},
                   Minus(Now("raft_storage_stats_commit_index"), Now("raft_storage_stats_applied_index"))), 0)

SummaryRate(id) == SumBy(ClusterGrouping, IncreaseOf(id, "count"))
SummaryAverage(id) ==
    Over(SumBy(ClusterGrouping, IncreaseOf(id, "sum")), ClampMin(SummaryRate(id), 3))
\* Mutated form of TargetSummaryAverage: an idle node counts as one with a latency of zero.
TargetSummaryAverage_Clamped(id) ==
    Over(SumBy(TargetGrouping, IncreaseOf(id, "sum")),
         ClampMin(SumBy(TargetGrouping, IncreaseOf(id, "count")), 3))
TargetSummaryAverage(id) ==
    LET sum == SumBy(TargetGrouping, IncreaseOf(id, "sum"))
        count == SumBy(TargetGrouping, IncreaseOf(id, "count"))
    IN And(Over(sum, count), TargetGrouping, {s \in count : s.value > 0})

\* Mutated form of CacheHitRatio: hits over misses.
CacheHitRatio_MissesOnly ==
    Over(ClusterIncrease("cache_hit"), ClampMin(ClusterIncrease("cache_miss"), 3))
CacheHitRatio ==
    LET hits == ClusterIncrease("cache_hit")
    IN Over(hits, ClampMin(Plus(hits, ClusterIncrease("cache_miss")), 3))

FromSource(sources) ==
    {s \in Now("core_unsealed") :
        "cluster" \in DOMAIN s.labels
        /\ (IF "seal_state_source" \in DOMAIN s.labels THEN s.labels.seal_state_source ELSE "") \in sources}
\* Mutated form of UnsealedState: the startup gauge counts beside that of the cluster.
UnsealedState_Worst == MinBy(TargetGrouping, FromSource({"", "cluster", "startup"}))
UnsealedState ==
    Or(MinBy(TargetGrouping, FromSource({"", "cluster"})), MinBy(TargetGrouping, FromSource({"startup"})))

Active == {s \in Now("core_active") : s.value = 1}
\* Mutated form of OfActive: joined on the cluster alone.
OfActive_Cluster(metric) == And(Now(metric), ClusterGrouping, Active)
OfActive(metric) == And(Now(metric), TargetGrouping, Active)

(* ------------------------------ the rules -------------------------------- *)

Samples == <<"samples", "none">>
Rule(record, vector) == [record |-> record, vector |-> vector, reads |-> Samples]
\* A rule over what an earlier rule of the group recorded.
Reading(record, source) == [record |-> record, vector |-> {}, reads |-> source]

Rate(id, metric) == Rule(<<id, "rate5m">>, SummaryRate(metric))
Average(id, metric) == Rule(<<id, "avg5m">>, SummaryAverage(metric))
PairAs(id, metric) == <<Rate(id, metric), Average(id, metric)>>
\* The pairs of all ids, one after the other.
Pairs(ids) ==
    [i \in 1 .. 2 * Len(ids) |->
        LET id == ids[(i + 1) \div 2] IN IF i % 2 = 1 THEN Rate(id, id) ELSE Average(id, id)]
ClusterGauges(ids) == [i \in DOMAIN ids |-> Rule(<<ids[i], "max">>, ClusterMax(ids[i]))]
TargetGauges(ids) == [i \in DOMAIN ids |-> Rule(<<ids[i], "max">>, TargetMax(ids[i]))]
Increases(ids) == [i \in DOMAIN ids |-> Rule(<<ids[i], "increase15m">>, ClusterIncrease(ids[i]))]

\* Mutated form of CoreRules: the sum comes before the rule it reads.
CoreRules_SumFirst ==
    << Reading(<<"core_unsealed", "sum">>, <<"core_unsealed", "min">>),
       Rule(<<"core_unsealed", "min">>, UnsealedState) >>
CoreRules ==
    << Rule(<<"core_active", "sum">>, SumBy(ClusterGrouping, Now("core_active"))),
       Rule(<<"core_unsealed", "min">>, UnsealedState),
       Reading(<<"core_unsealed", "sum">>, <<"core_unsealed", "min">>) >>
    \o Pairs(<<"core_handle_request", "core_handle_login_request", "core_check_token">>)
    \o TargetGauges(<<"core_in_flight_requests">>)
MountTableRules ==
    LET Table(id) == Rule(<<id, "max">>, MaxBy(ClusterGrouping \cup {"local", "type"}, Now(id)))
    IN << Table("core_mount_table_num_entries"), Table("core_mount_table_size") >>

RaftRules ==
    << Rule(<<"raft_peers", "max">>, RaftPeerCount) >>
    \o ClusterGauges(<<"autopilot_healthy", "autopilot_failure_tolerance">>)
    \o << Rule(<<"autopilot_node_healthy", "min">>,
               MinBy(TargetGrouping \cup {"node_id"}, Now("autopilot_node_healthy"))),
          Rule(<<"raft_storage_commit_index", "max">>, RaftStorageMax("raft_storage_stats_commit_index")),
          Rule(<<"raft_storage_applied_index", "max">>, RaftStorageMax("raft_storage_stats_applied_index")),
          Rule(<<"raft_storage_apply_gap", "max">>, RaftStorageApplyGap),
          Rule(<<"raft_storage_fsm_pending", "max">>, RaftStorageMax("raft_storage_stats_fsm_pending")) >>

AuditRules ==
    << Rule(<<"audit_log_request_failure", "increase5m">>, ClusterIncrease("audit_log_request_failure")),
       Rule(<<"audit_log_response_failure", "increase5m">>, ClusterIncrease("audit_log_response_failure")),
       Rate("audit_log_request", "audit_log_request"), Rate("audit_log_response", "audit_log_response"),
       Average("audit_log_request", "audit_log_request"),
       Average("audit_log_response", "audit_log_response") >>

LeaseRules ==
    ClusterGauges(<<"expire_num_leases", "expire_num_irrevocable_leases">>)
    \o Pairs(<<"expire_revoke", "expire_register_auth">>)

TokenRules ==
    << Rule(<<"token_count", "max30m">>, MaxBy(ClusterGrouping, MaxOverTime("token_count"))),
       Rule(<<"token_creation", "increase15m">>, ClusterIncrease("token_creation")),
       Rule(<<"token_creation_by_auth", "increase15m">>, IncreaseBy("auth_method", "token_creation")),
       Rule(<<"token_creation_by_namespace", "increase15m">>, ClusterIncrease("token_creation")),
       Rule(<<"token_creation_by_auth_namespace", "increase15m">>, IncreaseBy("auth_method", "token_creation")) >>
    \o Pairs(<<"token_create", "token_lookup", "token_store", "token_revoke_tree">>)

RuntimeRules ==
    TargetGauges(<<"runtime_num_goroutines", "runtime_alloc_bytes", "runtime_heap_objects",
                        "runtime_sys_bytes">>)
    \o << Average("runtime_gc_pause_ns", "runtime_gc_pause_ns") >>
    \o TargetGauges(<<"runtime_total_gc_pause_ns", "runtime_total_gc_runs">>)

BarrierRules ==
    Pairs(<<"barrier_get", "barrier_put", "barrier_list", "barrier_list_page", "barrier_delete">>)
    \o << Rule(<<"barrier_estimated_encryptions", "increase15m">>,
               IncreaseBy("term", "barrier_estimated_encryptions")) >>

CacheRules ==
    << Rule(<<"cache_hit", "rate5m">>, ClusterIncrease("cache_hit")),
       Rule(<<"cache_miss", "rate5m">>, ClusterIncrease("cache_miss")),
       Rule(<<"cache_write", "rate5m">>, ClusterIncrease("cache_write")),
       Rule(<<"cache_hit_ratio", "ratio5m">>, CacheHitRatio) >>

SecretRules ==
    << Rule(<<"secret_lease_creation", "increase15m">>, ClusterIncrease("secret_lease_creation")),
       Rule(<<"secret_lease_creation_by_engine", "increase15m">>,
            IncreaseBy("secret_engine", "secret_lease_creation")),
       Rule(<<"secret_lease_creation_by_engine_namespace", "increase15m">>,
            IncreaseBy("secret_engine", "secret_lease_creation")),
       Rule(<<"secret_kv_count", "max30m">>, SecretKVCount),
       Rule(<<"secret_kv_count_by_namespace", "max30m">>, SecretKVCount) >>

RouteRules ==
    PairAs("route_create_kv_v1", "route_create_kv_v1_") \o PairAs("route_read_kv_v1", "route_read_kv_v1_")
    \o PairAs("route_list_kv_v1", "route_list_kv_v1_") \o PairAs("route_delete_kv_v1", "route_delete_kv_v1_")
    \o PairAs("route_create_kv_v2", "route_create_secret_") \o PairAs("route_read_kv_v2", "route_read_secret_")
    \o PairAs("route_list_kv_v2", "route_list_secret_") \o PairAs("route_delete_kv_v2", "route_delete_secret_")

PKIRules == Pairs(<<"pki_issue", "pki_revoke">>) \o Increases(<<"pki_issue_failure", "pki_revoke_failure">>)

DatabaseRules ==
    PairAs("database_initialize", "database_Initialize") \o PairAs("database_close", "database_Close")
    \o PairAs("database_new_user", "database_NewUser") \o PairAs("database_update_user", "database_UpdateUser")
    \o PairAs("database_delete_user", "database_DeleteUser")
DatabaseErrorRules ==
    LET Errors(id, metric) == Rule(<<id, "increase15m">>, ClusterIncrease(metric))
    IN << Errors("database_initialize_error", "database_Initialize_error"),
          Errors("database_close_error", "database_Close_error"),
          Errors("database_new_user_error", "database_NewUser_error"),
          Errors("database_update_user_error", "database_UpdateUser_error"),
          Errors("database_delete_user_error", "database_DeleteUser_error") >>

TargetAverage(id, metric) == Rule(<<id, "avg5m">>, TargetSummaryAverage(metric))
StoragePressureRules ==
    << Rule(<<"expire_job_manager_total_jobs", "max">>,
            MaxBy(TargetGrouping, OfActive("expire_job_manager_total_jobs"))),
       Rule(<<"expire_job_manager_queue_length", "max">>,
            MaxBy(TargetGrouping \cup {"queue_id"}, OfActive("expire_job_manager_queue_length"))),
       Reading(<<"expire_job_manager_backlog", "net_change_per_second5m">>, <<"expire_job_manager_total_jobs", "max">>) >>
    \o << TargetAverage("expire_lease_expiration_time_in_queue", "expire_lease_expiration_time_in_queue"),
          TargetAverage("raft_storage_put", "raft_storage_put"),
          TargetAverage("raft_storage_delete", "raft_storage_delete"),
          TargetAverage("raft_commit_time", "raft_commitTime"),
          TargetAverage("raft_fsm_apply_batch", "raft_fsm_applyBatch"),
          TargetAverage("raft_fsm_apply_batch_logs", "raft_fsm_applyBatchNum"),
          TargetAverage("core_handle_request_by_target", "core_handle_request"),
          TargetAverage("core_handle_login_request_by_target", "core_handle_login_request"),
          Rule(<<"raft_thread_fsm_saturation", "ratio5m">>, TargetSummaryAverage("raft_thread_fsm_saturation")) >>

RecordingGroup ==
    CoreRules \o MountTableRules \o RaftRules \o AuditRules \o LeaseRules \o TokenRules
    \o RuntimeRules \o BarrierRules \o CacheRules \o SecretRules \o RouteRules \o PKIRules
    \o DatabaseRules \o DatabaseErrorRules \o StoragePressureRules

(* ------------------------------ evaluation ------------------------------- *)

Recorded(record, result) == {[labels |-> r.labels, value |-> r.value] : r \in {r \in result : r.record = record}}

(* Rules are evaluated in order: one that reads a record sees this round's
   samples if the rule that writes it comes first, and else the last round's. *)
Evaluated ==
    LET group == RecordingGroup
        Write(i, V) == {[record |-> group[i].record, labels |-> s.labels, value |-> s.value] : s \in V}
        written == UNION {Write(i, group[i].vector) : i \in DOMAIN group}
        First(i) == \E j \in 1..(i - 1) : group[j].record = group[i].reads
        Seen(i) == Recorded(group[i].reads, IF First(i) THEN written ELSE records)
        InRange(i) == Aged(recent, IF First(i) THEN Recorded(group[i].reads, written) ELSE {})
        Derived(i) ==
            IF group[i].reads = <<"core_unsealed", "min">> THEN SumBy(ClusterGrouping, Seen(i))
            ELSE MaxBy(TargetGrouping, Deriv(InRange(i)))
    IN written \cup UNION {Write(i, Derived(i)) : i \in {i \in DOMAIN group : group[i].reads # Samples}}

\* The backlogs of the nodes that were active when last scraped, from what they exposed.
Leads(t) == \E s \in Now("core_active") : s.labels = t /\ s.value = 1
Leading ==
    {[labels |-> s.labels, value |-> s.value] :
        s \in {s \in Now("expire_job_manager_total_jobs") : Leads(s.labels)}}

Evaluate ==
    /\ records' = Evaluated
    /\ current' = TRUE
    /\ recent' = Aged(recent, Recorded(<<"expire_job_manager_total_jobs", "max">>, records'))
    /\ led' = Aged(led, Leading)
    /\ UNCHANGED <<focus, now, before>>

(* ------------------------- what OpenBao exposes -------------------------- *)

Sample(metric, labels, value) ==
    [metric |-> metric, part |-> Whole, labels |-> labels, value |-> value]
Plain(metric, value) == Sample(metric, <<>>, value)
Summary(metric, sum, count) ==
    {[Plain(metric, sum) EXCEPT !.part = "sum"], [Plain(metric, count) EXCEPT !.part = "count"]}

Startup == Sample("core_unsealed", [seal_state_source |-> "startup"], 0)
Cluster(value) == Sample("core_unsealed", [seal_state_source |-> "cluster"], value)
\* The startup zero lingers after the unseal; adapters of old leave the source out.
UnsealedExpositions == {{Cluster(1)}, {Cluster(1), Startup}, {Plain("core_unsealed", 1)}}
SealedExpositions == {{Startup}, {Cluster(0)}, {Cluster(0), Startup}, {Plain("core_unsealed", 0)}}

\* The gauge of a former leader lingers.
BacklogExpositions ==
    {{Plain("core_active", a), Plain("expire_job_manager_total_jobs", n)} : a \in 0..1, n \in {3, 5}}
    \cup {{Plain("core_active", 0)}}

LatencyExpositions ==
    {Summary("core_handle_request", p[1], p[2]) : p \in {<<0, 0>>, <<2, 1>>, <<9, 2>>}}

\* A counter is not exposed before its first event.
CacheExpositions ==
    {{Plain("cache_hit", 1)}, {Plain("cache_miss", 1)}, {Plain("cache_hit", 3), Plain("cache_miss", 3)}}

Mount(m, value) == Sample("secret_kv_count", [mount_point |-> m], value)
MountExpositions == {{Mount("a", 1)}, {Mount("a", 2), Mount("b", 1)}}

\* A node exposes its own indexes, read one after the other; Autopilot gauges
\* name the other nodes.
Index(t, metric, value) == Sample(metric, [peer_id |-> t.instance], value)
Indexes(t) ==
    {{}} \cup {{Index(t, "raft_storage_stats_commit_index", c),
               Index(t, "raft_storage_stats_applied_index", 3 - c)} : c \in 1..2}
Healthy(t) == Sample("autopilot_node_healthy", [node_id |-> t.instance], 1)
NodesHealthy(t) == {{}, {Healthy(u) : u \in {u \in Targets : u.cluster = t.cluster}}}
PeersGauge == {{}, {Plain("raft_peers", 2)}}
RaftExpositions(t) ==
    {own \cup peers \cup nodes : own \in Indexes(t), peers \in PeersGauge, nodes \in NodesHealthy(t)}

Expositions(t) ==
    CASE focus = "seal" -> {{}} \cup UnsealedExpositions \cup SealedExpositions
      [] focus = "backlog" -> {{}} \cup BacklogExpositions
      [] focus = "latency" -> LatencyExpositions
      [] focus = "cache" -> {{}} \cup CacheExpositions
      [] focus = "mounts" -> {{}} \cup MountExpositions
      [] focus = "raft" -> RaftExpositions(t)
ReachBack == focus \in {"latency", "cache", "mounts"}

Of(t, samples) == {s \in samples : By(s, TargetGrouping) = t}
Joined(own, t) == [l \in DOMAIN own \cup DOMAIN t |-> IF l \in DOMAIN own THEN own[l] ELSE t[l]]
Attach(t, samples) == {[s EXCEPT !.labels = Joined(@, t)] : s \in samples}

\* A scrape replaces what the target exposed; what it no longer exposes is gone.
Scrape(t) ==
    /\ \E samples \in Expositions(t) : now' = (now \ Of(t, now)) \cup Attach(t, samples)
    /\ before' = IF ReachBack THEN (before \ Of(t, before)) \cup Of(t, now) ELSE {}
    /\ current' = FALSE
    /\ UNCHANGED <<focus, records, recent, led>>

Init ==
    /\ focus \in Focuses
    /\ now = {} /\ before = {}
    /\ records = {} /\ current = FALSE
    /\ recent = {} /\ led = {}

Next == Evaluate \/ \E t \in Targets : Scrape(t)

Spec == Init /\ [][Next]_vars

\* What a property or a next step can depend on: after a scrape, of the
\* records only those that are still in range at the next evaluation.
InView(range) == IF current THEN range ELSE {s \in range : s.age < Rounds}
RulesView == <<focus, now, before, current, InView(recent), InView(led)>>

(* ------------------------------ properties ------------------------------- *)

Exposes(t, sets) == \E samples \in sets : Of(t, now) = Attach(t, samples)
Values(record, labels) == {s.value : s \in {s \in Recorded(record, records) : s.labels = labels}}

(* A node that was unsealed when it was scraped is recorded unsealed, however
   long its startup zero lingers; a sealed one is recorded sealed from its
   start on; of a node that exposes neither nothing is recorded. *)
SealStateOfTheNode ==
    current /\ focus = "seal" =>
        \A t \in Targets :
            Values(<<"core_unsealed", "min">>, t) = (IF Exposes(t, UnsealedExpositions) THEN {1}
                                              ELSE IF Exposes(t, SealedExpositions) THEN {0} ELSE {})

(* core_unsealed:sum counts the nodes core_unsealed:min records as unsealed in
   the same round: no panel shows a count of the round before. *)
CountOfThisRound ==
    current => \A c \in {t.cluster : t \in Targets} :
        LET mine == {s \in Recorded(<<"core_unsealed", "min">>, records) : s.labels.cluster = c}
        IN Values(<<"core_unsealed", "sum">>, [cluster |-> c]) =
             (IF mine = {} THEN {} ELSE {Cardinality({s \in mine : s.value = 1})})

(* A backlog is recorded of every node that was active when it was last scraped,
   with the value it exposed, and of no other: never from the lingering gauge of
   a former leader or of a node of the same name in another cluster.  A net
   change is recorded of the nodes that led in two of the rounds in range, so
   also of one that has lost the lead since; it is growth only if that node's
   own backlog, while it led, grew between two of them, and decline only if it
   shrank: never the step from one leader's backlog to the next one's. *)
BacklogOfLeaders ==
    current =>
        LET changes == Recorded(<<"expire_job_manager_backlog", "net_change_per_second5m">>, records)
            Twice(t) == {p \in led \X led : p[1].labels = t /\ p[2].labels = t /\ p[1].age < p[2].age}
        IN /\ Recorded(<<"expire_job_manager_total_jobs", "max">>, records) = Leading
           /\ {s.labels : s \in changes} = {t \in Targets : Twice(t) # {}}
           /\ \A s \in changes :
                /\ s.value > 0 => \E p \in Twice(s.labels) : p[1].value > p[2].value
                /\ s.value < 0 => \E p \in Twice(s.labels) : p[1].value < p[2].value

(* Every node that handled requests in the window has its own latency, not
   averaged with that of idle or busy others, and an idle node has none rather
   than zero. *)
LatencyOfTheNode ==
    current /\ focus = "latency" =>
        \A t \in Targets :
            LET Grown(part) == {s.value : s \in {s \in IncreaseOf("core_handle_request", part) : s.labels = t}}
            IN Values(<<"core_handle_request_by_target", "avg5m">>, t) =
                 (IF \E n \in Grown("count") : n > 0
                  THEN {Quotient(sum, n) : sum \in Grown("sum"), n \in Grown("count")} ELSE {})

(* A secret mount counts once per cluster, however many nodes expose it: never
   more than the largest count any node had for each mount. *)
MountsCountedOnce ==
    current => \A r \in records : r.record = <<"secret_kv_count", "max30m">> =>
        r.value <= 2 + 1   \* the most of mount a and of mount b

(* What is recorded stays in range through restarts, idle windows and indexes
   read one after the other: a cache hit ratio lies between 0 and 1, the gap of
   a node that applied since its commit index was read is zero, and no round
   records two samples for one series, which Prometheus would reject. *)
RecordsInRange ==
    current =>
        /\ \A r \in records :
            /\ r.record = <<"cache_hit_ratio", "ratio5m">> => r.value \in 0..1000
            /\ r.record = <<"raft_storage_apply_gap", "max">> => r.value >= 0
        /\ \A r, s \in records : r.record = s.record /\ r.labels = s.labels => r = s

(* docs/contracts/metric-prefix.md, docs/metrics/ha-raft-metrics.md: where all
   nodes are scraped and none exposes raft_peers, the peer count is the number
   of peer_id values of the commit indexes. *)
PeersOfStorageStats ==
    current =>
        \A c \in {t.cluster : t \in Targets} :
            LET Mine(metric) == {s \in Now(metric) : s.labels.cluster = c}
                indexed == {s.labels.peer_id : s \in Mine("raft_storage_stats_commit_index")}
            IN (Mine("raft_peers") = {} /\ indexed = {t.instance : t \in {t \in Targets : t.cluster = c}}) =>
                 Values(<<"raft_peers", "max">>, [cluster |-> c]) = {Cardinality(indexed)}

=============================================================================
