# Formal models of the Global Capacity Orchestrator

TLA+ modules kept beside the code: what its concurrent core does, model-checked
with TLC on small instances and, for the central safety properties, proved with
TLAPS for every value of the constants. Source paths below are relative to the
repository.

- [The system](#the-system)
- [The global job queue](#the-global-job-queue)
- [Leader election and webhooks](#leader-election-and-webhooks)
- [The SQS path](#the-sqs-path)
- [Inference endpoints](#inference-endpoints)
- [The backend's certificates](#the-backends-certificates)
- [Signing keys](#signing-keys)
- [The swarm](#the-swarm)
- [The traffic dial](#the-traffic-dial)
- [What each run checks](#what-each-run-checks)
- [What is proved](#what-is-proved)
- [What the code does that its documents do not say](#what-the-code-does-that-its-documents-do-not-say)
- [What is not modelled, and the plan](#what-is-not-modelled-and-the-plan)

## The system

GCO runs jobs and inference endpoints on EKS clusters in several AWS regions.
A user submits a manifest to a global API; a DynamoDB table holds the job; a
worker in the target region claims it, creates a Kubernetes Job under a name
derived from the queue id, and reports its end back into the table.

| Part | State it keeps | Operations | What is hard about it |
|---|---|---|---|
| Jobs table (`gco/services/template_store.py`, `JobStore`) | one item per job: status, claim (owner, token, lease, generation), Kubernetes identity | submit, record failure, claim, renew, transition, requeue, cancel | every write is conditional on a read made earlier; SDK retries hide lost replies |
| Queue worker (`central_queue_worker.py`) | the pass in progress | recover, fetch, claim, apply, record, reconcile | several per region, killed at any line, stalled past a lease |
| Manifest processor (`manifest_processor.py`) | none of its own | apply a queued job, apply and delete manifests | Kubernetes calls with unknown outcome |
| Spot price gate (`spot_price_gate.py`) | TTL cache of prices | decide, record observation | a stale or missing price defers a job |
| Queue routes (`api_routes/queue.py`, `manifest_api.py`) | none | submit, cancel, poll | a poll request works beside the loop |
| Leader lease (`leader_lease.py`) | one `Lease` object | read, replace | races, late replies, expiry |
| Webhook dispatcher (`webhook_dispatcher.py`) | leadership flag, Job state cache | elect, seed, watch, deliver | leadership is believed, not known; failover |
| Health monitor (`health_monitor.py`) | samples | publish the load balancer's name under a lease | the lease and the write are two calls |
| SQS processor (`queue_processor.py`) | none of its own | receive, apply, delete | at-least-once delivery, redelivery during an apply |
| Inference store and monitor (`inference_store.py`, `inference_monitor.py`) | endpoint record with lifecycle, region and deletion generations; a lease with an epoch | create, change, scale, delete, acknowledge, reconcile | regions come and go while others acknowledge |
| Cost monitor, Grafana rotator, metrics, tracing | little | periodic output | order of two writes (rotator) |
| TLS proxy, middleware, APIs, Slurm backends | per request | validate and forward | little across requests |
| Traffic dial (`lambda/traffic-dial-controller`, `cli/capacity/traffic_dial.py`) | the accelerator's dials, override parameters | a pass decides and writes; an operator sets and clears | acts on samples; a set is two calls; passes may overlap |
| TLS certificates (`lambda/tls-certificate-manager`, `tls-shared`) | root generations, leaf registry; each proxy's bundle | roll over, renew, adopt, retire, clean up | trust must overlap; every call of an invocation may fail |
| Signing keys (`lambda/secret-rotation`, `proxy-shared`, `auth_middleware.py`) | version stages; each process's keys | create, test, finish; refresh | every step may be repeated, a refresh reads while labels move |
| Other Lambdas, CDK stacks, CLI | per call | one-shot | little across calls |
| Mission engine and swarm (`gco_mcp/mission`) | session files; a runner's registry and tasks | iterate, spawn, respawn, abort, adopt, cascade | a registry that lags its files, whole-file saves, resumption |

Workers and dispatchers never talk to one another: they meet in the table, in
the cluster and in the lease. That is why each model has one module with the
shared object and the local state of every process, and one action for every
call that leaves a process.

What would make each part correct: of the table and its workers, that a claim
has one owner, a job one workload and a true verdict, and that every job ends;
of the lease, one leader; of the dispatcher, at most one delivery per
transition and, faults aside, at least one; of the SQS processor, that no
submission disappears without having been applied or recorded as failed; of the endpoint store, that nothing of an
endpoint's former life acts on its next; of the certificate manager, that whatever
is served is trusted and registered; of the rotation, that a key is accepted for
as long as it may be signed with and not for longer; of the swarm, that the
children stay within the pool and that none is lost or left behind; of the traffic dial, that some region stays
fully dialed, a healthy one returns, and an operator's setting holds.

## The global job queue

`CentralQueue` models the table, the workers and the Kubernetes Jobs.

| Variable | Code |
|---|---|
| `rec[j]` | the item: `status`; `owner` for `claimed_by` and `claim_token`; `gen` for `claim_generation`; `ver` for `updated_at`; `lease` for `claim_expires_at`; `uid` for `k8s_uid`; `notCreated` for `workload_not_created` |
| `wk[w]` | the locals of a pass of `CentralQueueWorker.run`, and in `pc` the call it is about to make |
| `k8s[j]` | the Job under the deterministic name: how many were made, whether the newest is present, its phase, which completed |
| `faults`, `deletes` | bounds |

| Actions | Code |
|---|---|
| `QueryExpired`, `RequeueExpired` | `JobStore.requeue_expired_jobs` |
| `QueryQueued`, `DeferGated`, `ClaimRead`, `ClaimWrite` | the candidate loop of `process_queued_jobs_once` and `JobStore.claim_job` |
| `ReadForTransition`, `StartWrite`, `PendWrite`, `FailWrite` | the three uses of `JobStore.transition_job` under a claim |
| `K8sRead`, `K8sCreate`, `K8sAdopt` | `ManifestProcessor.apply_queued_job` |
| `Heartbeat` | `_lease_heartbeat` and `JobStore.renew_claim` |
| `EndBatch`, `ReconcileRead`, `ReadForReconcile`, `ReconcileWrite`, `EndPass` | `reconcile_active_jobs_once` |
| `Submit`, `RecordJobFailure`, `Cancel` | the `JobStore` methods of those names |
| `LeaseRunsOut`, `Crash`, `Restart` | time and the pods' lives |
| `K8sPods`, `K8sFinish`, `K8sDelete` | the cluster (external) |

`Cas` is one DynamoDB write: it takes effect and the worker learns so, its
condition fails, it is lost, or it takes effect and its reply is lost; in the
last case the worker sees an error or, when the client library retried and met
its own item, a failed condition. Time is not a number: a lease is live until it
runs out, and the comparison with a clock belongs to the read, where the code
makes it. A poll request is a worker in `Pollers` that neither recovers nor
reconciles.

`JobLifecycle` is what a client may rely on, without workers, claims or faults:
a job waits, is dispatched, may be put back, and ends; its workload starts only
after a first dispatch, and again only after a removal; `active`, `succeeded`
and a failure while active are true of the workload. `CentralQueueRefinement`
maps the queue to it, and `ImplementsLifecycle` is checked as a property. What
the queue does not promise is in the abstract module as well: a job put back may
be cancelled, and a dispatched one fail, while its workload exists or is about
to.

Abstractions: the sort order of expired leases (any page may be returned), the
price itself (a capped job is claimed or deferred), the manifest (a policy is the
set of jobs it rejects), listings and counters. Equality of a generation stands
for equality of owner and token, since a generation is never given twice, which
is `ClaimFence`, checked and proved. A restarted worker keeps its name in the
model and has a new one in the code; `AtRest` forgets everything, and the new
claim has a new generation.

## Leader election and webhooks

`LeaderLease` models `try_acquire_lease`, which the webhook dispatcher and the
health monitor's load-balancer sync share. `lease` is the `Lease` object; `call`
is a replica's call, and whether the version it read is still current; `term` is
what the last True is worth. Versions need no numbers: a successful replace makes
every other read stale. A caller may still see a lease as live that has just run
out, because it reads its clock first. A lease that runs out under a replica
that relies on it is an overrun, counted and bounded.

`WebhookDispatcher` extends it with the dispatcher's loop: `CallLease` and
`AcquireLeadership` (`_acquire_leadership`, cache seeding included), `OpenWatch`
and `CloseWatch` (`_sync_watch_jobs`: a watch starts with what exists, then sees
changes, until a batch is full or time is up), `ProcessEvent`
(`_process_job_event`: the cache moves first, then the delivery, which may fail).
`job[j].turns` counts the changes of status that deserve an announcement;
`posted` counts the deliveries; `sent` those of one process. A Job between two
attempts looks failed, as `_compute_job_status` has it, and one of several completions
(`Several`) succeeded between two of them (`Follows`). The Jobs of a listing come in
any order (`Listings`).

## The SQS path

`SqsProcessor` models the pods that KEDA starts while a region's queue is not
empty. `msg` is the queue, with each message's place and receive count; `hand` is
a pod's message and the call it is about to make; `obj` the cluster's resources;
`rec` the FAILED records; `applied` and `cut` are history.

| Actions | Code |
|---|---|
| `ProcessMessage` | `process_one_message` up to the verdict on the whole batch |
| `LookUp`, `DeleteFinished`, `Create`, `Patch` | the calls of `apply_manifest`, each of which may fail or lose its reply |
| `Ack` | `delete_message` after complete success |
| `RecordFailure` | `_record_failure_on_final_receive` |
| `DrainReceive`, `DrainRecord`, `DrainAck` | `drain_one_message_after_config_failure` |
| `Crash`, `Send`, `TimesOut`, `Redrive`, `JobFinishes`, `JobExpires` | pods, submitters, the queue and the cluster |

With `Overlap` a message may become visible while its pod still works on it, as
SQS allows. A body that is no JSON object, or holds no manifests, is a member of
`Unreadable` or has an empty batch: it returns to the queue, and dead-letters
with nothing recorded. So does an object without a `job_id` (`Nameless`), which a drain
leaves in the queue (`queue_processor.py:1106`); what is recorded of it otherwise has
the id `unknown`, which tells nobody, so the properties about telling are of the other
messages. `Unreadable` and `Nameless` are empty in the run and covered by the proofs.
Validation is a verdict (`Invalid`); the delay after a
deletion and the two attributes of a message that only reach the record are left
out. `FINAL_RECEIVE_COUNT` and the queue's `max_receive_count` are two settings
in the code, both 3, and one constant here.

## Inference endpoints

`InferenceEndpoint` models one endpoint's name: its record in the global table
and what the monitors of the regions make of it. A Deployment with two replicas
runs the monitor in every region; a Lease says which of them works.

| Variable | Code |
|---|---|
| `ep` | the item: `desired_state`, `lifecycle_id`, `target_regions`, `cleanup_regions`, `deletion_regions` (`doomed`), `region_generations`, `region_status` |
| `lease[r]` | the region's `Lease`: its holder and the epoch in its annotation |
| `obj[r]` | the object in the region's cluster: its three provenance annotations, and whether its deletion is accepted |
| `mon[m]` | a pass of `InferenceMonitor.reconcile`: the call it is about to make (`pc`), the snapshot it works from (`ReconcileAuthority` and the observations it counts from), the object it has seen |

| Actions | Code |
|---|---|
| `Deploy`, `StopEndpoint`, `StartEndpoint`, `UpdateSpec`, `DeleteEndpoint`, `AddRegion`, `RemoveRegion` | `InferenceEndpointStore`, as `gco inference` calls it |
| `Acquire`, `Lapse` | `_try_acquire_lease`, and a renewal that does not come |
| `List` | the snapshot, and what it obliges this region to (`Duty`) |
| `ReadObject`, `ClaimObject`, `HandOff` | `_authorize_resource`: an object of another life or generation is handed off (deleted), one of another epoch claimed |
| `DeleteObject`, `Observe` | `_delete_and_confirm`, `_record_cleanup_observation` |
| `CreateObject`, `ConfirmCreated`, `UndoCreate` | `_create_deployment`, `_confirm_created_resource` |
| `Report`, `Note`, `Promote`, `Purge` | status writes, `_promote_deploying_endpoint`, the purge of a pass |

A pass reads the record once and then acts call by call; the conditions of
every write are evaluated in the table or the cluster when it arrives. The
store's own methods are one step each: a read, and a write refused if what it
depends on has changed. Tokens are numbers here and random in the code; they are
only compared for equality, within a life, and an epoch within a region.

Abstractions: one object stands for the inventory of an endpoint in a region;
its specification, replicas, autoscalers, canaries and roles are left out, so
created, stopped and failed are one status, `pending`; readiness is a choice;
a listing shows the table as it is; the version of an object changes only with
what the model keeps of it. A deletion that is repeated changes nothing.

## The backend's certificates

The proxies call the regional load balancers over TLS under a private root. A
Lambda, run by a schedule and by CloudFormation and never twice at a time
(`api_gateway_global_stack.py:408`), keeps the root, publishes the trust bundle
and imports a leaf into each region. It is modelled twice, once for what the
certificates say and once for which certificate is whose: an import under a known
ARN changes nothing for the second, and the second gives every region the ARN that
the first takes for granted.

`TlsRollover`:

| Variable | Code |
|---|---|
| `secret` | the root state in Secrets Manager: `current`, `pending` with `activate_after` (`wait`) and `trust_bundle_published_at` (`marked`), `previous` with `retire_after` (`keep`) |
| `published` | the SSM parameter with the bundle |
| `life`, `leaf` | time to the expiry of each root, and of each region's leaf with its signer |
| `run` | an invocation: its next call and its copy of the root state |
| `cache` | each proxy's bundle and its age (`get_backend_http_pool`) |
| `wanted` | `root_generation` of the deployed configuration |
| `since`, `late` | whether the schedule has kept its pace |

`LoadRoot`, `SaveRoot`, `PublishBundle`, `MarkPublished` are `_ensure_root`, call by
call; `KeepLeaf`, `RenewLeaf`, `RefuseLeaf`, `Finish` the loop of `_reconcile`;
`Disturbed` ends an invocation at any call, before or after its effect;
`Configure` is a deployment, `Refresh` a proxy. Time is what is left of each
deadline, and a tick is longer than an invocation.

`TlsRegistry`:

| Variable | Code |
|---|---|
| `acm`, `registry`, `attached` | the managed certificates of a region, its SSM parameter, what its listener serves |
| `retired` | `retired_regions` in the Secret |
| `stack`, `env` | where CloudFormation is, and the regions in the function's environment |
| `call` | an invocation |
| `issued`, `retries`, `bounds` | ARNs handed out; imports sent twice by the client library; bounds |

`KeepCertificate`, `Adopt` (`_recover_unregistered_certificate`), `Import`, `Register`,
`Compensate` are `_ensure_certificate`; `Retire`, `Drop`, `Unregister`, `SaveRetired`
`_retry_retired_region_cleanup`; `BeginCleanup` `_cleanup`; `Deploy`, `Abandon`,
`Destroy`, `Told`, `Scheduled` CloudFormation and the schedule; `Attach`, `Detach` the
regional stacks.

Between CloudFormation and the function stands the provider framework of the CDK
(`api_gateway_global_stack.py:422`, external). It marks a creation that failed, and
answers the deletion that follows itself: the function is not asked, nothing is
cleaned, and the stack is `gone`. A failed update is rolled back (`rolling`), and a
stack whose rollback fails too may still be deleted, with the properties of the
regions before the update.

Abstractions: keys, signatures and serialization (a leaf is the generation that
signed it); the ownership tags (a managed certificate has them); metrics; the
adoption of untagged certificates of earlier releases.

## Signing keys

`SigningKeys` models the key that signs the proxies' requests: `secret` holds the
key under each staging label, `rotation` the rotation that Secrets Manager drives,
`signer` what a proxy caches (`get_secret_token`), `cache` and `read` what a
service's auth middleware accepts and the refresh it is in the middle of. Each
call of `_refresh_cache` is an action (`ReadCurrent`, `ReadPending`,
`ReadPrevious`, `ReadDate`), so labels may move between any two; so is each call
of the rotation (`CreateSecret`, `TestSecret`, `FinishReads`, `FinishMoves`), and
`Complete` is Secrets Manager's, which sets `LastRotatedDate` afterwards.
`StepFails` has the effect or not, and the steps run again from the first.
`Cancel` is what `docs/RUNBOOKS.md` does to a stuck rotation. `set_secret` does
nothing. Left out: request signatures and nonces, and what a malformed value in
the Secret does.

## The swarm

`Swarm` models an orchestrator session, its children and the process that drives
them (`SwarmRunner`).

| Variable | Code |
|---|---|
| `sessions` | the children's files: state, recorded iterations, budget |
| `disk`, `ended`, `turns` | the orchestrator's file: `children`, terminal or not, iterations |
| `abort` | an `abort_swarm` under way, with the `children` it loaded |
| `runner`, `held` | where `run_to_completion` is, and the session its iteration loaded |
| `registry`, `dirty` | the runner's own registry, and whether it is to be flushed |
| `tasks` | the driver of each slot |

| Actions | Code |
|---|---|
| `Start`, `Proceed`, `Turn`, `SaveTurn`, `FinaliseTurn`, `Flush` | `run_to_completion` and the orchestrator's `run_iteration`; adoption of orphans is part of `Start` |
| `StandDown`, `RefuseTurn`, `Detach`, `FailTurn`, `Crash` | its ends: with a cascade only where the top of the loop finds the orchestrator ended; `RefuseTurn` is `session_terminal` |
| `Spawn`, `AbortChild` | the supervisor tools, during an iteration of the orchestrator |
| `Queue`, `BeginIteration`, `SaveIteration`, `FinaliseIteration`, `FailIteration` | `_drive_child` and `MissionEngine.run_iteration`, up to its two saves |
| `EndDriver`, `Revise` | settlement and `_maybe_respawn` |
| `CascadeChild`, `EndCascade` | `_cascade_shutdown` |
| `AbortBegins`, `AbortCloses`, `AbortEnds`, `AbortDies` | `abort_swarm`, from another process: the load, each child, the last save; or its end before that |

The runner is one asyncio loop, so what lies between two awaits is one step: the look
for an ended orchestrator (`swarm_runner.py:746`) and the iteration after the wait for
the fleet (760) are two, and an abort may land between them. A file is saved as a
whole, as it was loaded: the orchestrator's by the engine and by an abort, with the
runner's saves in between. An iteration's phases are a choice of its verdict, with the
iteration cap first, as in `decide_verdict`. One runner at a time is assumed, which
is what its guard intends, and one abort at a time.

Abstractions: directives, criteria, tools and their overlap rules; heartbeats and
audit events; the order in which the fleet's progress wakes the orchestrator (it
may always take a turn, the wait has a timeout); pauses. `AbortCloses` loads and saves
one child's file in one step: a driver's save between the two would lose an iteration
to the abort's count or reopen the file, and `SaveIteration` after `AbortCloses` does
the second; the first can only leave a slot charged with more than it should be.
A runner's flush that loaded the file before the abort's last save and writes it
after undoes that save, which is an abort that died before it (`AbortDies`).

## The traffic dial

`TrafficDial` models the scheduled Lambda that drains and restores regions, and the
operator who overrides it.

| Variable | Code |
|---|---|
| `dial`, `deployed` | `TrafficDialPercentage` of each endpoint group, the accelerator's status |
| `override` | the `override-{region}` parameters |
| `health` | what the look-back window of a region averages to, or nothing |
| `pass` | an invocation: its next call, the dials it listed or decided, the updates left |
| `manual` | a `traffic-dial set` between its two calls |
| `calm`, `firm` | history: nothing disturbed the last pass; overrides set with no pass in flight |

`Begin`, `List`, `Decide`, `Apply`, `Finish` are the phases of `lambda_handler`, with
`Target`, `Step` and `Guarded` its arithmetic; an update that is refused is skipped,
any other error ends the invocation (`Abandon`, and the last case of `Apply`).
`SetDial` and `RecordOverride` are `set_dial`, `ClearOverride` is `clear_override`;
`Deploy` and `HealthChanges` are the world. An invocation may take five minutes
(`gco/stacks/global_stack.py:404`), the interval is configured (`:333`), EventBridge
delivers at least once and nothing reserves concurrency, so two overlap in the
model.

Abstractions: `enforce` mode only (`monitor` writes no dial); every region has an
endpoint group; percents are whole; metrics, the `state` parameter, which nothing
decides on, and the purge after `destroy-all` are left out.

## What each run checks

| Run | Instance | Shows |
|---|---|---|
| `queue_race` | 2 jobs (1 rejected, 1 price-capped), 2 workers, batches of 1 from 2 fetched, 2 faults, 1 removal | claims, workloads and verdicts through every race, whatever a pass remembers of the other job, and that the queue implements `JobLifecycle` |
| `queue_live` | 2 jobs of which 1 is price-capped, a worker and a poller, batches of 1 from 2 fetched, samples of 1 per status, 1 fault | a job ends and a completion is recorded: neither a gated job nor the other status takes its place in a pass |
| `webhooks` | 2 replicas, 1 Job, batches of 2, 1 fault, 1 overrun | one live term, no repetition, completions announced |
| `sqs` | 2 pods, 2 messages (1 refused), a Job and a service, 2 receives each, overlapping | no submission is lost, applied in part when refused, or dead-lettered untold |
| `endpoints` | 2 replicas in one of 2 regions, 2 lives, 2 changes of membership, 1 fault, 1 overrun | nothing left behind, true acknowledgements, final deletion, no harm from late passes |
| `endpoints_regions` | a monitor in each of 2 regions, 1 life, 1 change of membership, 1 fault | a deleted endpoint is purged, under fairness |
| `tls_rollover` | 2 regions, 1 proxy, 2 root generations, an activation delay of 2, leaves of 3 and roots of 9 ticks | trust overlaps, no leaf lapses, the rollover completes |
| `tls_registry` | 2 regions, 3 changes of the configuration, 3 faults | one registered certificate per region, clean retirement and deletion |
| `signing_keys` | 1 proxy, 1 service, 3 keys, a window of 2 ticks, 1 fault | a key is accepted while it is signed with, and not for longer |
| `traffic_dial` | 2 regions, 2 overlapping passes, steps of 50, 1 set to 0, 1 fault | a region stays fully dialed, overrides hold, healthy regions return |
| `swarm` | 2 slots, one of which revises, 3 sessions of 2 iterations, a pool of 4, 2 turns, 1 fault, 1 abort from another process | pool, fleet cap, accounts, a clean end, whatever the abort overtakes or overwrites |
| `docs_respawn` | as `swarm`, no abort | a respawned child is never driven |

Some instances are kept beside the runs for what they refute; `tlc -config` the
configuration with the module named, and the counterexample is the one described
[below](#what-the-code-does-that-its-documents-do-not-say).

| Configuration | Module | Instance | Refutes |
|---|---|---|---|
| `MCDocsAbort.cfg` | `MCSwarm` | as `swarm`, no fault | `AbortIsThorough` |
| `MCDocsOverride.cfg` | `MCTrafficDial` | 2 regions, 1 pass, 1 set, no fault | `OverridesAlwaysWin` |
| `MCDocsPurge.cfg` | `MCInferenceEndpoint` | as `endpoints_regions`, no fault | `AlwaysPurged` |
| `MCDocsOverrun.cfg`, `MCDocsSeeding.cfg` | `MCWebhookDispatcher` | as `webhooks`, 1 turn; with no fault, or with 2 and no overrun | `OncePerTransition` |
| `MCDocsFlag.cfg` | `MCWebhookDispatcher` | as `webhooks`, 1 turn | `TakeoversReseed` |
| `MCDocsBatch.cfg` | `MCWebhookDispatcher` | 1 replica, 2 Jobs, batches of 1, no fault | `CompletionAnnounced` |
| `MCDocsRetry.cfg` | `MCWebhookDispatcher` | 1 replica, 1 Job, no fault | `OnlyFailoversDrop` |

The properties, in a sentence each. `ClaimComplete`: owner and lease are present
exactly in the two claimed statuses. `ClaimFence`: no process holds a later
generation than the table, no two hold the same, the next is fresh.
`OnlyOwnerMoves`: only the holder of the current claim moves a claimed record,
recovery of an expired one excepted. `LegalMoves`: the transition matrix, terminal
records frozen, a new `ver` for every change. `SingleWorkload`: one workload per
job, and another only per removal. `SucceededIsReal`, `FailedIsReal`,
`NotCreatedProof`: what a record says of its workload is true. `EveryJobEnds`,
`CompletionRecorded`: liveness. `OneLeader`: at
most one unexpired True. `AtMostOnce`: no more deliveries than transitions, unless
a leader outlived its lease or could not list the Jobs on taking over.
`NeverRepeats`: one process never repeats itself, even then.
`CompletionAnnounced`: once faults and overruns are over, the leader announces
the completion of a Job it remembers unfinished, unless the Job is deleted first
or looked failed before. What the documents promise beyond that is refuted:
`OncePerTransition` (at most one delivery whatever lapses), `TakeoversReseed` (whoever
takes the Lease from another seeds its cache), `OnlyFailoversDrop` (a completion is
announced also of a Job that was seen between two attempts), and `CompletionAnnounced`
itself where a batch is smaller than the number of Jobs.

`NothingLost`: acknowledged means applied, drained means recorded.
`RejectedTouchNothing`: a batch that is refused touches nothing, over all its
receives. `DeadIsTold`: a dead letter was applied or recorded, unless the answer
to its last receive was cut off. `EventuallyTold`: and one of these happens.

`NothingLeftBehind`: whatever a cluster has under the name is of the record's life
and within the reach of its deletion. `AckedIsEmpty`: a region that has
acknowledged a removal or a deletion has nothing, also after it was added and
removed again. Both hold while no monitor outlives its lease in the middle of a
pass; the code checks the lease before each mutation, and between the check and
the call a lease may still lapse. `DeletionIsFinal` and `ServingSurvives` hold
even then: no late writer revives a deleted record or takes back an
acknowledgement, and what the leader has claimed for the present generation is
not deleted by anyone else's late call. `DeletedIsPurged`: a deleted endpoint is
purged, provided no region had acknowledged its removal before; `AlwaysPurged`, without
that condition, is refuted.

`ClientsTrust`: a proxy that still uses its bundle verifies every leaf that is
served, through a root that has not expired, whichever calls failed. `NeverLapses`:
no leaf expires while it is served, as long as an invocation gets through in
every period (and the policy leaves room, as the run's does: `RoomyPolicy`). `RolloverCompletes`: the generation an operator asks for signs every
leaf in the end. `ServedIsRegistered`: what a load balancer serves is what the
registry names, and exists, so that renewals reach it. `OneCertificate`: nothing
is imported while another certificate waits to be adopted. `NothingLeft`: a
deletion that the function acknowledged leaves no parameter, and of the regions it
was told of no certificate but those of imports sent twice, also when it follows a
failed rollback. `RegionsSettle`: a retired region is cleaned once it is free, a
configured one gets its certificate; both unless some region is in a state the
manager refuses to judge (`Blocked`).

`DisplacedEnds`: a key that lost its labels is accepted nowhere once the window
after that, and after the last completed rotation, has passed, whichever reads
fell between which steps. `OverlapCovers`: until then every service accepts what
a warm proxy signs with, if rotations are further apart than the window, the key
is not newer than the refresh, and the refresh missed no stage. `RotationEnds`: a
rotation ends, whatever was lost.

`AbsorberKept`: a pass that ran alone and without a fault leaves some region fully
dialed, whatever state it found, unless all are overridden. `OverridesHold`: an
override holds its region's dial until it is cleared, if no pass was in flight
when it was set; `OverridesAlwaysWin`, without that condition, is refuted. `RegionReturns`: a region that stays healthy and is not overridden
is fully dialed in the end.

`LimitsHold`: what the children have recorded and may still record never
exceeds the pool, nor their number the cap, in the files, whatever was lost with
a runner. `AccountsAgree`: a runner owns every session in exactly one slot and
charges a slot for what its closed sessions recorded. `CleanEnd`: after a runner's
cascade no child is open and no slot unsettled, in its registry and in the file.
`AbortIsThorough`, refuted: an abort that came to its end, and no fault, leave nothing
open once the runner is gone. `LiveIsDriven`, refuted: a live slot has a driver.

`TypeOK` is proved for every component, and is no run's property.
`JobLifecycle` is checked as `ImplementsLifecycle`.

**Bounds.** Two workers are what a race takes, since every conditional write
compares one item with what one process read. The two faults of `queue_race` let a
stalled worker meet a lost reply, or a recovered claim be recovered again; the one of
`queue_live` is a crash, a stall or a lost reply, anywhere. There, the second job is a
neighbour, gated or in the other status, and one attempt per batch and one record
per sample are where it would be in the way. One removal suffices for a second
workload. Symmetry of the workers is
used in the safety run of the queue only. For webhooks, a batch of two lets a
watch both start with a Job and see it change; one turn of each kind suffices to
repeat it; one overrun lets two replicas deliver at once. `Several` is empty, and covered by the proofs. On the SQS path two receives are the
first and the last, and between them are all the differences the code makes;
every call may fail any number of times. For endpoints, two lives are a former
and a present one, and two changes of membership bring a region out and in again;
in `endpoints` the second region has no monitor, which is how a region that lags
for ever looks to the first; `endpoints_regions` has both.

For the rollover, two generations make one complete rollover by expiry or by
wish, and `NeverLapses` is sharp: with `RootBefore` one smaller it fails, and with
three generations it takes two more, because a higher `root_generation` during a
rollover replaces the pending root and starts the delay again. A region
after the first shows what a refused leaf keeps from happening; a bundle is good
for one tick less than the delay, which is what the configuration guarantees. In
the registry, three deployments are a region leaving, coming back and leaving,
or an abandoned attempt between; three faults let an import, its registration
and its compensation fail. Three keys are two rotations, so a previous key has a
successor; the window of two ticks has an inside, an edge and an outside. The
swarm's pool of four holds two children and pays a third only from what is
refunded; the fault is a crash, after which a runner resumes, and the abort meets
every step of the loop, of the wait, of the cascade and of the resumed runner.

With steps of 50, a dial at 0, 50 or 100 tells a drain that is under way from one
that is complete, and the guard's lift from a step; two regions are the smallest
fleet in which the guard chooses; the set to 0 is the override that a test for
truth would overlook, and the fault falls at any call of a pass or of the set.

**Fairness.** `CentralQueueWorker.run` polls for ever and a Deployment restarts
its pods, so a worker's steps and its restart are weakly fair; a poll request
only goes on while it is under way. A lease that nobody renews runs out, and the
cluster ends every Job it was given: both weakly fair. Nothing makes a gate open,
a client cancel or a fault happen. The dispatchers' loops, their restart and the
expiry of a lease nobody relies on are fair for the same reasons. On the SQS path
a pod ends (its Job has a deadline), the queue returns and redrives messages,
and KEDA starts pods while there are messages. Monitors poll for ever and the
cluster collects what it has accepted for deletion; no client is fair. The
certificate manager is invoked for ever and no outage lasts, hence strong fairness
of the calls of an invocation, and none of proxies and operators; CloudFormation
tells the function what it has begun. Secrets Manager goes on with a rotation it
started. The schedule begins passes of the dial
controller, those in flight go on unless they fail, and the accelerator ends its
deployments; the operator owes nothing. The swarm has no liveness property here: an operator decides whether a
runner is started again. The runs check deadlock too, except on the SQS path, which
ends when every message has been answered; in `swarm`, which ends with its runner;
and in the two runs on certificates, where deployments and generations are used
up or a deleted stack remains.

Definitions introduced by a comment "Faulty:" are not used by the models. Each
is a plausible mistake in the definition after it, and with it in place the
property that PROJECT.json pairs it with fails.

## What is proved

Every theorem is proved for all values of the constants that satisfy the
assumptions of its component's module: any jobs, workers, replicas, messages,
regions, keys and bounds on faults. The assumptions say what kind of value a
constant is, that the value for "nobody" names nobody, and what the code's own
checks of its configuration demand (a window is no shorter than a refresh, a leaf
lives longer than its renewal threshold, and so on); TLC evaluates them in every
run. Where TLC can enumerate it, an inductive invariant was checked on its run's
instance before it was proved; `Ledger` quantifies over functions and was not.
Two assumptions say more than that. A swarm has finitely many slot names (the code
allows 64 characters of a small alphabet, `swarm.py:109`), and the name that
`_reconcile_orphans` gives an adopted slot (`swarm_runner.py:312`) is none that an
orchestrator asks for. `LeavesNeverLapse` has a hypothesis of its own, `RoomyPolicy`,
which the configuration does not check; the run's policy satisfies it (an ASSUME of
its module), and so do the defaults (`config_loader.py:1931`).

| Module | Theorems | Properties |
|---|---|---|
| `CentralQueueProofs` | `TypeCorrect`, `ClaimsFenced`, `ClaimsComplete`, `OwnersMove`, `MovesLegal` | `TypeOK`, `ClaimFence`, `ClaimComplete`, `OnlyOwnerMoves`, `LegalMoves` |
| | `OneWorkload`, `SuccessIsReal`, `FailureIsReal`, `ProofIsReal` | `SingleWorkload`, `SucceededIsReal`, `FailedIsReal`, `NotCreatedProof` |
| | `QueueImplements` | `ImplementsLifecycle` |
| `LeaderLeaseProofs` | `ElectsOneLeader`, `DispatcherElects`, `OneDeliverer` | `OneLeader`, and that the dispatcher implements the election |
| | `DispatcherTyped`, `NoProcessRepeats`, `DeliversAtMostOnce` | `TypeOK`, `NeverRepeats`, `AtMostOnce` |
| `SqsProcessorProofs` | `TypeCorrect`, `NoSubmissionLost`, `BatchesRejectedWhole`, `DeadLettersTold` | `TypeOK`, `NothingLost`, `RejectedTouchNothing`, `DeadIsTold` |
| `InferenceEndpointProofs` | `TypeCorrect`, `PassesFollow`, `DeletionStays`, `LeaderUndisturbed` | `TypeOK`, `Inv`, `DeletionIsFinal`, `ServingSurvives` |
| | `DeletionReachesAll`, `AcksAreTrue` | `NothingLeftBehind`, `AckedIsEmpty` |
| `TlsProofs` | `RolloverTypeCorrect`, `ClientsAlwaysTrust`, `LeavesNeverLapse` | `TypeOK`, `ClientsTrust`, `NeverLapses` (the last under `RoomyPolicy`) |
| | `RegistryTypeCorrect`, `RenewalsReachIt`, `NoCertificateTooMany`, `DeletionIsThorough` | `RegistryTypeOK`, `ServedIsRegistered`, `OneCertificate`, `NothingLeft` |
| `SigningKeysProofs` | `TypeCorrect`, `DisplacedKeysEnd`, `OverlapHolds` | `TypeOK`, `DisplacedEnds`, `OverlapCovers` |
| `TrafficDialProofs` | `TypeCorrect`, `OverridesKept`, `AbsorberStays` | `TypeOK`, `OverridesHold`, `AbsorberKept` |
| `SwarmProofs` | `SwarmInvariant`, `SwarmTypeCorrect`, `SwarmLimits`, `SwarmAccounts`, `SwarmCleanEnd` | `SwarmInv`, `TypeOK`, `LimitsHold`, `AccountsAgree`, `CleanEnd` |

None of the properties is inductive alone. What makes it so, in each case:

**Claims.** A stalled process keeps the generation of a claim that was recovered
long ago, and a process about to claim holds a number it computed from a read.
`FenceInv` adds what makes both harmless: a record is complete in its claim
attributes; what a process remembers of an item, it read (its version is not
later than the table's, and with an equal version everything else is equal); the
local state has the shape its place in the loop gives it; and the numbers of two
processes on one job are distinct, also between one that has claimed and one that
is about to. A conditional write that succeeds then meets the item as it was
read, so the new generation is fresh; one that fails leaves the table alone. The
step lemmas have one case per action and, for every write, one per outcome of
`Cas`.

**Workloads.** What a worker learned from the cluster may be out of date by the
time it writes it. `WorkInv` therefore states everything in terms that no later
event in the cluster makes false: an identity names a Job that was made, a
success names one that completed, a failure one that failed or is gone
(`Broken`). `Tracks` says so of the records, `Follows` of the workers between
their read and their write, `Counted` bounds the Jobs of a name by the removals,
and `Judges` and `Judged` tie a proof that nothing was created, and a creation, to
the policy each was made under. `Grows` is what all steps do to the Jobs, so
that a worker's claims survive the steps of the others. `QueueImplements` uses the
same invariant: each action is a step of `JobLifecycle`, or changes nothing of
what a client sees.

**Election and deliveries.** `OneLeader` follows from two facts: a live term names
the holder of a live lease, and a read that is still fresh found the lease
takeable, which it still is. For the deliveries, a replica's memory of a Job lags
behind the Job by the events it has not processed, and an event announces
something only relative to that memory. `Ledger` says that there is an account of
those events, a view and a number of turns before and after each, that begins
with what the replica remembers and has announced, grows with each event that
would be announced, and ends within the turns of the Job. One such account per
process gives `NeverRepeats`. One for the deliveries of all, held by the leader
as long as no lease was overrun (`Elected`) and no take-over was blind, gives
`AtMostOnce`; a new leader begins its account with the Jobs as it lists them, in
whatever order.

**The SQS path.** A pod's own view is true: what it holds was received, the
manifests behind its place in the batch were applied unless it remembers a
failure, it acknowledges only a complete batch, and a message at its last receive
is in a pod's hand, recorded, complete or cut off.

**Endpoints, whatever lapses.** Lives, generations and epochs only grow, so what a
pass remembers is never ahead of the record (`SnapshotOK`) or of its region's
lease (`TermOK`); and the object it has seen is, at each of the three calls that
delete, of another life, of a generation that is past or no longer a member, or
created under an authority that has gone (`SeenOK`). A delete takes effect only on
the object as seen, which is therefore none that the leader serves. `PassKept`
says once for all steps that a pass stays so while others move the record and the
lease forward; the step lemmas only have to show that they do.

**Endpoints, while no lease lapses under a pass.** `Tidy` adds that a region has one
pass at a time, that the endpoint it works for lives and its region has not been
given up there, that an observation is finished only over an empty cluster, and
that a status which says deleted is of the present generation or a past one. So
whatever a cluster has was created by a pass whose region still owes its
deletion, and an acknowledgement finds nothing that a colleague could still
create.

**Certificates.** `Sound` says of a root state that its current and previous roots
are known to the bundle and to every client whose bundle is still in use, that a
marked pending root is known to clients younger than its mark, and that each leaf
was signed by the current root or by a previous one that is kept for longer than
the leaf lives. It holds of the Secret, and of the copy an invocation is about to
save (`Running`); promoting a pending root keeps it because the delay is longer
than a bundle is used. The registry's invariant is what an invocation relies on
between two calls: the certificate it has imported is registered by nobody else,
the one it has dropped is gone, and a cleanup has emptied every region that is
not on its list any more.

**Leaves that never lapse.** `RoomyPolicy` says that a leaf's renewal threshold
covers a period of the schedule; that `RootBefore` covers a last leaf and one
`Turnover` (the delay and what the schedule may add to it) for each root that may
still be staged; and that a new root outlasts its own. `LapseInv` then keeps a
budget, in ticks since the last undisturbed invocation: the current root's life
covers the turnover under way and those that may follow (`CurrentLasts`, with
`Room` and `Further`), the pending root is not near its end when it becomes the
current (`PendingLasts`), and every leaf's life covers what is left of the period
(`LeavesLast`). Staging a later root spends one turnover and makes one less possible;
a tick takes one from every life and gives one to `since`; and an invocation that
reaches its end has met what is due (`Ready`, `Renewing`), so `since` may begin
again. No leaf is ever refused on the way (`NeverTooSoon`). In hours the defaults
leave room for more than a hundred root generations asked for one upon the other.
`RoomyPolicy` is sufficient and not always necessary: a leaf that is refused because
its root is near its end may still outlast the replacement.

**Signing keys.** The labels move forward only (`Labels`): the key of a rotation is
new or newest, and a displaced key never returns. From there, a validator's
cache is bounded both ways: what it accepts is no older than the labels it read
(`Follows`, for `DisplacedEnds`), and what a proxy signs with has a label, or lost
it within the window, at every point of a refresh, which reads the stages in
another order than a rotation moves them (`Covers`, `Reads`, `Warm`, for
`OverlapCovers`).

**The dial.** An override that is firm is on no pass's list of updates (`Held`). For
the absorber, what a pass that is alone still means to write is determined when it
decides, and leaves a region fully dialed (`CalmPass`, by way of `Goal`); that
there is a best region for the guard to lift is the one proof by well-founded
induction.

**The swarm.** A runner's registry lags the files, the file of the registry lags the
runner, and an iteration of the orchestrator saves what it loaded: any of the three
may become the one that counts. `SwarmInv` says the same of all of them (`Booked`):
an entry owns sessions that exist, none is owned twice, a live entry reserves its
session's budget, and what an entry has consumed is the sum over the sessions it has
closed. An abort's copy of the registry is one more that may become the file. Those
sessions are past (`Past`): nothing touches their files any more, so a settlement
that was lost with a runner comes out the same when a resumed one repeats it. `Within`
is the limit, for sessions that are open or that a driver is about to save as open
(`Up`), as an abort from outside may have closed one in between. `Written` bounds the
lag: what is settled in memory is so in the file, unless the registry is to be
flushed. Adding up is done in the module: a fold is shown to satisfy its equation,
and the sums to have the properties of sums, by induction over sets of sets in
place of predicates (`SubsetInduction`, from the well-foundedness of the numbers).
A step is then a fact about one entry and one session.

Only model-checked:

- Liveness (`EveryJobEnds`, `CompletionRecorded`, `CompletionAnnounced`,
  `EventuallyTold`, `DeletedIsPurged`, `RolloverCompletes`, `RegionsSettle`,
  `RotationEnds`, `RegionReturns`), which needs ENABLED and is beyond this prover.
- The refutations (`docs_respawn` and the `MCDocs` configurations), and that `NeverLapses` fails without room.

## What the code does that its documents do not say

`docs_respawn`: `_schedule_child` (`gco_mcp/mission/swarm_runner.py:578`) leaves a
slot alone whose task is not done, and `_maybe_respawn` runs inside that task. The
replacement of a child is admitted, saved and registered, holds its reservation of
the pool, and is never iterated by this runner; the cascade terminates it with
nothing recorded. The docstring of `spawn` (line 414) has it scheduled, and
`docs/SWARM.md:171` respawned. A later runner schedules it.

`MCDocsAbort.cfg`: `run_to_completion` looks for an ended orchestrator, waits for its fleet,
and iterates (`swarm_runner.py:746-762`). An abort during the wait makes the engine
refuse (`engine.py:280`): the runner leaves by the exception, flushes its registry over
the abort's and runs no cascade, so that a child the abort did not know of, because
it was spawned after the last flush that the abort loaded, stays open under a terminal
orchestrator, which nobody resumes or aborts again. The comment in `abort_swarm`
(917) and the tool's description (`tools/swarm.py:367`) have the runner stand down.

`MCDocsOverride.cfg`: a manual set moves the dial first and records the override second
(`traffic_dial.py:235`, `:247`). A pass that read the overrides before writes its own
dial after, and the override then keeps that one: the region stays at a dial nobody
asked for until it is set again or cleared. `lambda/traffic-dial-controller/README.md:100`
says "Manual overrides always win". The condition in `OverridesHold` is this one.

`MCDocsPurge.cfg`: `update_region_status` takes a status that says deleted for final, also
when it acknowledges the region's removal and not the deletion that came later
(`inference_store.py:479`); the acknowledgement of the deletion is refused, and the
purge, which needs it, never happens (`docs/INFERENCE.md:860`, `:881`). The condition in
`DeletedIsPurged` is this one.

`MCDocsOverrun.cfg`, `MCDocsSeeding.cfg`: a batch is processed without another look at the Lease
(`webhook_dispatcher.py:781`), and a listing that fails when a new leader seeds its
cache is only logged (`:861`): either way a transition is announced twice, where the
module's own description (`:17-22`) and `docs/API.md:1861` have it at most once.

`MCDocsFlag.cfg`: `_is_leader` is the last answer, not the last leader
(`webhook_dispatcher.py:766`): a replica too busy to notice that it lost the Lease, and
which takes it again after another has led, does not seed its cache anew, though
`:753` and `:20` say so. `AtMostOnce` excludes overruns for this reason too.

`MCDocsBatch.cfg`: every watch begins with all Jobs and returns after ten events
(`webhook_dispatcher.py:734`); with more Jobs than that the rest may never be looked
at. `MCDocsRetry.cfg`: a Job between two attempts is announced as failed
(`:379`), and if it then completes before a watch sees it run, its completion is not
announced; `docs/API.md:1861-1863` has transitions dropped during a failover only.

Seen in the models, and not stated as a run of their own.

Queue:

- A full window of closed price gates hides every job behind it, for as long as they
  stay closed (`central_queue_worker.py:197`); `docs/COST_MONITORING.md:419` says
  they never block. `EveryJobEnds` is stated of jobs without a cap, and
  checked where the window has room for one more, for that reason.
- A failed record may carry neither an identity nor the no-workload proof, though
  its workload runs (`central_queue_worker.py:344`);
  `docs/LIVE_RELEASE_VALIDATION.md:255` excludes it.
- `docs/API.md:1366` lets a claimed job be cancelled, `cancel_job` accepts queued ones
  only.
- A claim that took effect, lost its reply and was retried by the SDK returns None,
  which the worker takes for a loss and does not count, so a pass can claim more
  than its batch.
- A Job that finishes and is removed by its TTL before its record left APPLYING is
  created again by the next claim (`SingleWorkload` counts removals for that
  reason).
- After a change of policy the no-workload proof may be written for a job whose
  earlier attempt created its workload (`NotCreatedProof` is checked with one
  policy).

Webhooks:

- A Job of several completions may look succeeded between two of them
  (`webhook_dispatcher.py:376`) and is announced as completed then; what it does
  afterwards is not announced.

SQS:

- A failed look-up of a finished Job is logged and forgotten (`queue_processor.py:826`);
  the create meets the finished Job, the patch changes nothing and the message is
  acknowledged, though `queue_processor.py:811` has it deleted first "so
  re-submission works".
- A message delivered again after its Job finished deletes that Job and runs it once
  more; a drained message whose deletion is lost may still be applied by a later
  pod, beside its FAILED record.

Endpoints:

- `_confirm_created_resource` undoes a creation under the version it read, so a status
  update of the new object in between leaves it, and if the record is purged by
  then nothing removes it.
- An endpoint whose specification changes between a snapshot and its promotion is
  promoted on the readiness of the old one.

Certificates:

- A registry entry whose certificate is gone, as a crash between `delete_certificate`
  and `_delete_parameter` leaves it, stops every cleanup of that region, and the
  deletion of the deployment: `_registered_certificate` reads its tags first, which
  raises (`Dangling` in `TlsRegistry`). The test at
  `tests/test_tls_certificate_manager.py:2359` has "ResourceNotFound from ACM still
  completes the parameter cleanup" of the call after it.
- A creation that fails leaves what it had registered: the provider framework answers
  the deletion without asking the function, so `_cleanup` never runs and parameters and
  certificates stay until somebody removes them (phase `gone`). After a rollback that failed, the deletion cleans every registered region and
  those of the properties it is given, and not an unregistered orphan in a region that
  only the failed update had.
- An import that the client library sends twice makes two certificates; the second
  is registered and nothing removes the first. Two that nobody registered are
  refused as ambiguous, and the regions after that one are not reached.
- The configuration checks ranges and pairs of settings (`config_loader.py:623-664`),
  and not that they leave room together (`RoomyPolicy`). At the edges of what it
  accepts a leaf can lapse: with `leaf_rotate_before_days` of one day and a schedule
  of 24 hours an invocation that comes a little late finds the leaf expired that the
  one before had kept; and a generation asked for while another is pending starts
  the delay anew, so that a few of them, a delay of a week and a
  `root_rotate_before_days` of 30 outlast the root. Both are counterexamples to
  `NeverLapses` under other constants than the run's.

Signing keys:

- A new key signs seconds after it was made, and a validator that refreshed just
  before rejects it until its TTL passes, since a bad signature does not force a
  refresh; `auth_middleware.py:16-20` and `lambda/secret-rotation/README.md:25` speak
  of zero downtime.
- Between the move of the labels and `LastRotatedDate` the previous key has the date
  of the rotation before: a refresh just there drops it (`missed` in
  `OverlapCovers`), and one that reads the stages before a rotation and the date
  after it gives a key a new window (which is why `DisplacedEnds` counts from the
  last rotation too). Two rotations within a window refuse a warm signer (`hasty`).

Traffic dial:

- Updates go in the order of names, so a drain may precede the lift of another
  region; in between, after a lift that was refused or cut off, and with
  overlapping passes, no region is fully dialed, though `handler.py:40` has the guard
  keep one "at all times" and `docs/CUSTOMIZATION.md:952` speaks of never. The next
  undisturbed pass repairs it, which is `AbsorberKept`.

Swarm:

- A child whose last iteration is cut off between its two saves is open with its
  budget used up, and records one iteration more when it is driven again; the
  docstring of `settle_entry` excludes it, and its clamp keeps the accounts right.
- A child that ends by an exception is never respawned, though `docs/SWARM.md:171`
  names `failed`, and its snapshot goes on to say that it will be; so does that of a
  slot whose respawn was denied. A detachment while a directive is being revised
  loses the respawn.
- An orphan of a respawn is adopted as a slot of its own, and its old slot may be
  respawned again: `max_respawns` bounds a slot, not what comes after a crash.
- `abort_swarm` during an iteration of the orchestrator is overwritten by the engine's
  save, and one during a child's iteration by that child's.
- A crash between the orchestrator's last save and the cascade, or a failed iteration
  of the orchestrator, leaves children open that no runner and no abort will take
  up, both being refused for a terminal orchestrator; an abort after a crash leaves
  the orphans that no runner had adopted.
- The guard reads the heartbeat and then writes it, and does not see a second runner
  in its own process.

## What is not modelled, and the plan

Not modelled in the parts above: migration of records of earlier releases (a
no-op on records of this one), the idempotent answer to a repeated submission,
listings; in the dispatcher, the attempts and metrics of one delivery and the
address checks; in the endpoints, autoscalers, canaries, roles and the single kinds
of objects; in the mission engine, the phases of an iteration. PROJECT.json lists
every component with the reason where it is left out: request parsing, one-shot
deployment code, output, and adapters to services that hold the state themselves.
Most of the repository's lines are of these kinds (CDK stacks, the command line,
validation harnesses, the checks of configuration and requests), have no state
that outlives a call and no concurrency, and are better served by their tests;
the models stand for a small share of the lines and for most of the places where
two processes meet.

In order:

1. `GrafanaRotator` (two writes in order), submission with its idempotency key.
2. The health monitor's load-balancer sync over `LeaderLease`; delivery attempts.
