# TLA+ models of cluster-api-provider-cloudsigma

The repository holds three programs that share one CloudSigma account: the
Cluster API infrastructure provider (`controllers/`, `pkg/cloud/`), the cloud
controller manager of the tenant clusters (`ccm/`) and the CSI driver (`csi/`).
All three are reconcilers over two stores that know nothing of each other: the
Kubernetes API (optimistic concurrency, caches, finalizers) and the CloudSigma
API (no transactions, no conditional writes, whole-object PUT).  What is hard
in them is what happens between two requests.  That is what is modelled here.

## Inventory

| Component | State | Operations | Hard behaviour | Correct when |
|---|---|---|---|---|
| CloudSigmaMachine controller (`controllers/cloudsigmamachine_controller.go`) | finalizer, `status.instanceID`, `spec.providerID`, `ready`; nothing in memory | Reconcile, reconcileNormal, reconcileDelete | stale cache, update conflicts, lost answers, crash between creation and status update, user deletes at any time, account changes, servers changed by hand | one server per machine and account, its own; finalizer first; what is recorded is deleted; a machine gets a running server; deletion ends |
| Server operations (`pkg/cloud/servers.go`, `drives.go`) | none | Get, Find, Create, Start, Stop, Delete | errors told apart by their text; drives cloned first and deleted last | 404, 403 and failures are told apart; nothing is left over |
| LoadBalancer controller (`ccm/controllers/loadbalancer_controller.go`) | `staticIPs`, `dynamicIPs`, `ipAssignments`, `serviceIPs`, `manualModeNodes` in memory; service status, lb-ip pods, `service:*` tags outside | Start, discovery, sync (release, allocate, tag, configure, status), failover, shutdown | memory lost in a restart, tags shared by clusters, node failure in the middle of a sync, failed single steps | an IP serves one service; a service keeps its IP; it moves off failed nodes; it is given back |
| Node controller (`ccm/controllers/node_controller.go`) | `staleNodeFailures` in memory; taint and addresses of nodes | syncNodes, reconcileNode, handleStaleNode | two writes with one resource version, 403 answers that count up | nodes get initialized; only nodes of somebody else's VM are deleted |
| CSI controller service (`csi/driver/controller.go`) | one mutex per server | Create, Delete, Publish, Unpublish (concurrent gRPC calls) | read-modify-write of a server's drive list, partly without the mutex; repeated calls | what is reported attached is attached there; one drive per name; calls return |
| CSI node service (`csi/driver/node.go`) | `nodeDeviceMu` in memory; the mounts of the node | Stage, Unstage, Publish, Unpublish (concurrent gRPC calls) | the device is guessed while others are plugged in; calls kubelet gave up go on; restarts and reboots | one staging path per device, the volume's own; a pod sees its volume; calls return |
| Impersonation client (`pkg/auth/impersonation.go`) | `saToken`, `rptToken`, `tokenCache` with their expiry | GetImpersonatedToken and its three requests | expiry during a fetch, concurrent misses, late answers | no expired token is sent or handed out |
| CSI token controller (`ccm/controllers/csi_token_controller.go`) | the secret of the tenant cluster, a ticker | provisioningLoop, refreshLoop, ensureCSIToken | the refresh period against the life left in a cached token; failed writes; restarts | the secret is expired for a bounded time only, and recovers |
| CloudSigmaCluster controller | status | reconcile | — | ready once the VLAN is known |

The parts meet in four places: the machine controller creates the servers
whose UUIDs the CCM and the CSI driver use as node IDs; the LoadBalancer
controllers of several clusters meet in the tags of the account; the CSI driver
and the machine controller both write servers (the driver with a PUT of the
drive list); the controllers of one CCM share an impersonation client, whose
token the token controller hands to the CSI driver.  `PROJECT.json` lists, under `hazards`, where in the code each of
these can go wrong.

## Modules

| Module | What it is |
|---|---|
| `MachineController` | the machine controller over the server operations |
| `MachineControllerProofs` | type correctness of it (TLAPS) |
| `MachineSafetyProofs` | its safety theorems, and the proof of the refinement (TLAPS) |
| `ServerLifecycle` | abstract: what the machine controller promises |
| `MachineRefinement` | `MachineController` implements `ServerLifecycle`: the mapping |
| `LoadBalancerController` | the LoadBalancer controllers of the clusters of one account |
| `LoadBalancerProofs`, `LoadBalancerSafetyProofs` | type correctness of it, and its safety theorems (TLAPS) |
| `CSIController`, `CSIControllerProofs` | the CSI controller service, its safety theorems (TLAPS) |
| `NodeController`, `NodeControllerProofs` | the node controller of the CCM, its safety theorems (TLAPS) |
| `CSINode`, `CSINodeProofs` | the CSI node service on one node, its safety theorems (TLAPS) |
| `ImpersonationClient` | the token caches and the callers of one process, as actions for a composition |
| `CSIToken`, `CSITokenProofs` | the CSI token controller composed with the client, safety theorems of both (TLAPS) |
| `MCMachine`, `MCLoadBalancer`, `MCCSI`, `MCNode`, `MCCSINode`, `MCCSIToken` | the same for TLC: constants for the configurations |

### MachineController

`job` is the single worker (`MaxConcurrentReconciles: 1`): its program counter,
the copy of the object it works on and what it has read.  Each call to the API
server or to CloudSigma is a step; the steps have the names of the functions or
of the branch of `reconcileNormal`/`reconcileDelete` they model.  `obj` is the
API server, `cache` the informer.  A resource version answers one question, "has
anybody written since?", so it is reduced to `job.fresh` and `cacheFresh`.
`Write` is a Kubernetes update: done, refused because of a conflict, failed, or
done with the answer lost.  `GetServer` classifies: found, missing (404), denied
(403), error; `MisreadAs` says what a *failed* request for a server is taken for,
as `servers.go:206` looks for "404" in the text of the error, URL included.
`srv` and `listed` are CloudSigma; with `ListLag` a new server may be absent
from the list for a while.  `abandoned` is a history variable: servers the
controller left behind on a path where it says so in its log.

Left out: tags, addresses, conditions and the reason strings of the status; the
drives and IPs of a server; the retries of the status update, which are one
write here.

### ServerLifecycle and MachineRefinement

The machine controller without caches, versions, retries or program points: a
machine is new, held by the finalizer, leaving or gone; a server is created for
a machine that is held or leaving and, if the list of servers is complete
(`Exclusive`), has none in the account; a record names a server of that machine;
a server that is gone stays gone.  `MachineRefinement` maps the stored objects
to `claim` and `record` and the servers to `vm` (the four states CloudSigma
reports are all `"alive"`); what the worker and the cache hold is invisible.
That creation is allowed while the machine is leaving is the code's: the worker
may be on its way to `CreateServer` when the machine is deleted.

### LoadBalancerController

`mem[c]` is the memory of the CCM of cluster `c`, `job[c]` its sync, which works
on the services and nodes listed at its beginning (`snap`, `first`, `uuids`;
`first` is the UUID of `healthyNodes[0]`, or `None` if it has no providerID).
`svc`, `up`, `named`, `pod` are the tenant cluster, `nic` and `tags` CloudSigma.
One action stands for one call or for a group of calls nobody else can get in
between to notice: listing a tag and writing it back is one step, and so are the
GET and PUT that switch a NIC.  `Shutdown` is the graceful end, which removes
the tags of the IPs (as many as it gets to); `Crash` is the other one.  Of the
three kinds of tags only `service:*` is ever read.  A discovery either finds all IPs
of the cluster or fails: the code rebuilds the pool from whatever the API lists
(`loadbalancer_controller.go:156`), so that an IP that leaves the account leaves the
pool, and a service that shows it is given another one once a restart has emptied
`serviceIPs`; this is not modelled, and `IPNeverChanges` is about pools that do not
shrink.

### CSIController

The calls of a run are a constant (`Request`), with the order the sidecars keep
(`After`).  `SidecarAssumption` says which order that is at least: the calls for one
volume name, those for one volume and node, and the attaches of one volume, which is
ReadWriteOnce, come one after the other; a detach from the old node may run beside the
attach to the new one, and calls for different volumes run in any order.  A call a
sidecar gives up has its context cancelled, and its further requests with it.

`attached[n]` is the drive list of a server, with the channel of each drive; a GET and
the PUT after it are two steps.  `mounted[d]` is `mounted_on`: a PUT that takes a drive
off the list is accepted at once, the drive is unmounted later (`Unmount`), and the
unpublish polls for it, `MaxPolls` times (30 in the code), then succeeds either way.
`Misread` are the UUIDs that contain "404": `controller.go:178`, `275`, `356`, `393` and
`426` look for it in the text of the error, URL included, so a *failed* GET of such a
server or drive counts as "not found", which is mostly success.  `published` is what
Kubernetes was told last.  `crossed` is a history variable: the servers on which a PUT
came between the GET and the PUT of another call, one of the two without the lock.

External assumptions: CloudSigma refuses a PUT that names a drive which does not exist
or is mounted elsewhere (that is why the code detaches from the old server first), and
completes the detachments it accepted.  Servers do not disappear.

### NodeController

`job` is the sync; `vm[n]` is what CloudSigma answers when asked for the VM of
node `n`; `fails` is `staleNodeFailures`.  An update or a deletion that fails may
have been done with its answer lost; a deletion that fails, done or not, keeps the
count of the node.  The providerID of a node is set by the kubelet and not modelled.

### CSINode

`call[k]` is a goroutine in `NodeStageVolume`: before `nodeDeviceMu` (`lock`), in
the rounds of waiting for a new disk (`wait`), about to format or to mount.
`findDeviceByPath` does not use the channel of the publish context but takes the
disk that is not mounted, the newest if there are several, or waits for one that
was not there; so a device is identified with the volume it belongs to, `plugged`
gives the order in which the devices appeared, and `mnt`, `tgt` say whose device
is mounted where.  `kube[v]` is what kubelet and the attacher believe.  Kubelet
makes one call at a time for a volume but may stop waiting (`GiveUp`), after
which the call runs on beside the next one; unstage, publish and unpublish take
no lock.  `Restart` ends the calls and leaves the mounts, `Reboot` ends both and
brings the disks back in any order.  `crowded` is a history variable: two
volumes have waited for their device at once.  So is `blind`: the volumes that were
staged while the mounts could not be listed, which is only logged, so that no disk
counts as mounted (`node.go:526`).  Names of devices, file systems
and the output of `lsblk` and `mount` are left out.

### ImpersonationClient and CSIToken

`cache` holds the three tokens, `call[k]` a goroutine in `GetImpersonatedToken`:
which token it needs next, whether the request is under way, what it holds.  A
token has two clocks, `real` (until CloudSigma refuses it; runs from the issue)
and `ttl` (until `expiresAt`; runs from the answer), both counted down by the
ticks.  The asymmetries are the code's: `IsExpired` of the user's token is not
strict where the two other checks are, and a token without `expires_in` is taken
to live 15 minutes if it is a user's and not at all otherwise.
`CSIToken` adds the two loops of the token controller, its ticker with a channel
of one, the secret, and the other callers of the same client.  A failed write may
or may not have happened.  `stale` and `missed` are history variables for the
bound.  `Tick` waits for what is ready to run (`Prompt`) and for a fetch that has
used up its timeouts.

## Runs

Fault budgets are named constants of the MC modules: how often a request may
fail (`Errors`, `Kube`, `Tag`, `Cloud`), how many foreign writes, crashes, stops,
node failures, deletions there are; in the LoadBalancer runs `Failed` also limits the
failed requests of all kinds together.  One or two of each are enough for the cases
the properties are about: every counterexample met during the work needed at
most two.

Passing:

| Run | Instance | Shows |
|---|---|---|
| `machine_live` | 1 machine, 3 servers, 2 accounts, 1 failed request, 1 manual change, 1 change of account | `NoDuplicateServers`, `RecordedServerDeleted`, `ImplementsLifecycle` (the refinement), and under fairness `EventuallyProvisioned`, `DeletionCompletes` |
| `machine_pair` | 2 machines, 2 servers, lagging list, 1 conflict, 1 failed request, 1 crash | `RecordsOwnServer`, `ServersHoldFinalizer`, `OnlyDeletesDeleted`: none touches the other's server |
| `lb_crash` | 3 services, 2 IPs, 1 node, 2 crashes, 2 deletions, 1 failed request to Kubernetes and 1 to CloudSigma, none for a tag | `UniqueIPs`, `ShownIPsTagged`, `ServiceIPsExclusive`: after a crash the tags protect the IPs |
| `lb_chaos` | 2 clusters with a tag in common, 3 IPs in both pools, a node without providerID, 1 failed tag request, 1 graceful stop, 1 crash, 1 deletion | `IPNeverChanges`: a service keeps the IP it shows |
| `lb_release` | 2 services, 2 nodes, 2 IPs, 1 node failure, 1 deletion, 1 failed request of any kind, for a tag included (they hold with 2 as well); no restart | `PodsOnManualNodes`, `EventuallyReleased`, `EventuallyServed`: IPs leave a failed node and are given back, but for one IP per failed request for a tag |
| `csi_calls` | a drive moves from n2 to n1 while it is being detached from n2; another is attached to n1 meanwhile, detached and deleted, and its name asked for again, with two UUIDs left for it; 2 failed requests, n2 and the second drive misread as 404 | `AttachedUnlessCrossed`, `ChannelsExclusive`, `OneDrivePerName`, `UnpublishedIsDetached`, `CallsReturn` |
| `node_init` | 2 nodes, every answer about their VMs, conflict, failure, crash, removal | `AddressedIsInitialized`: addresses come after the taint is off; `EventuallyInitialized`, `StaleEventuallyDeleted` |
| `csi_node` | 2 volumes, 2 calls at a time, 1 failed command or list of mounts, 1 call given up, 1 restart of the driver, 1 reboot | `OneMountPerDevice`, `OwnUnlessCrowded`, `PodSeesStaged`, `StageReturns` |
| `tokens` | the token controller and 1 other caller, 1 failed request, 1 restart | `CredentialsLive`, `ReturnsLive`, `SecretGapBounded`, `SecretRecovers` |

Two machines are enough to confuse one with the other, one suffices for what
concerns a machine and its own servers; three services for two IPs make the pool
run dry; `MaxPolls` is 2 instead of 12 (machines) and 30 (detachments) since
a round of the wait differs from the next in the counter only; three server UUIDs cover the first server, one
after a change of account or a manual deletion, and one more.  Two volumes are
enough to confuse their devices, and two calls for one kubelet gave up and the
next; `MaxRetries` is 2 instead of 20 for the same reason as `MaxPolls`.  In
`tokens` a tick is 100 seconds: the buffer of five minutes is 3, the refresh
interval of ten minutes 6, the life of a user's token of 15 minutes 9, and a fetch
takes up to 1 (three HTTP timeouts of 30 seconds); the service account's and the
RPT token live 4 and 5, so that they expire within the life of a user's token.

`EventuallyServed` has two exceptions.  `Stranded`: after the deletion of a service, or a
failed request to Kubernetes, a pod may be left on the dead node although the IP was
assigned to another one, and `ensureIPConfigured` takes any existing pod for a working
one, so that nothing moves it any more.  And where an untag has failed, the IP it left
tagged (`Leaked`) may be the one a waiting service would need.

Where the code contradicts a document or a comment:

| Run | Property | What happens |
|---|---|---|
| `machine_orphan` | `NoOrphanedVMs` | the machine is deleted after CreateServer; the status update is refused, `reconcileDelete` finds no instanceID, the finalizer goes, the server stays |
| `lb_restart` | `UniqueIPs` | after a graceful stop neither `ipAssignments` nor the tags know the IPs in use, and a new service is given one of them |
| `csi_detach` | `PublishedIsAttached` | an unpublish, which does not take the lock, writes back a drive list from before an attach |

The same models give further counterexamples when a constant of a passing
configuration is changed; they are limits of what the passing runs say:

- `ListLag = TRUE` in `machine_live`: a lost status update, then a list without
  the new server, gives a second server (against the comment at
  `cloudsigmamachine_controller.go:654`).
- `Misread = "missing"` in `machine_live`: a failed GET read as 404 removes the
  finalizer while the server runs (`RecordedServerDeleted`).
- `Unnamed = {n1}` in `lb_crash`: an IP is published that is neither tracked
  nor tagged, and then given away again (`UniqueIPs`).
- a second cluster in `lb_crash`: both find an IP free before either tags it.
- `Tag = 1` in `lb_crash`: when the tags cannot be read, an IP that only they
  protect counts as available (`UniqueIPs`).
- `Crashes = 1` in `lb_release`: the recovered assignment names the first
  healthy node while the pod stays on a failed one (`EventuallyServed`); the
  recovery skips manual mode (`PodsOnManualNodes`), and an IP tagged for a
  service that was deleted meanwhile is never untagged (`EventuallyReleased`).
- `Scenario = "migrate"` in the CSI configurations: detaching from the old
  server happens without that server's lock, so that it can undo an attach there
  (`PublishedIsAttached`; `AttachedUnlessCrossed` excepts the server).

Some properties name such cases themselves, so the passing runs reach them:

- `EventuallyReleased`: a release whose untag fails (`loadbalancer_controller.go:313`)
  logs it and forgets the service and the IP, which stays tagged, and so unavailable, for
  good; `docs/loadbalancer-implementation.md:129` says "When a service is deleted, the IP
  is removed from these tags".  One IP per failed request is what can be lost, and
  no more.
- `UnpublishedIsDetached` excepts servers whose UUID contains "404", where a failed GET
  is success without a detach, and servers where writers crossed.
- `CallsReturn` excepts a `DeleteVolume` whose drive was left attached in one of these
  two ways: Kubernetes believes it detached, so nobody detaches it, and the deletion is
  refused forever.
- `OneMountPerDevice` and `OwnUnlessCrowded` except the volumes staged without a list of
  the mounts (`blind`): with another volume's device mounted and the own one not there
  yet, the other's is mounted a second time.

Further observations, made while reading the code for the models:

- `OwnUnlessCrowded` does not hold without `crowded`: with two volumes attached
  before either is staged, the newest disk is taken for whichever is staged first,
  and after a reboot every disk is a candidate.  The mutex orders the calls, not
  the volumes, so `docs/csi.md:413` ("Wrong device mounted ... Fixed in v1.2.4 with
  mutex serialization") claims too much.  So does the comment "NO FALLBACKS - either
  we find the correct device or we fail" at `node.go:491`: a mount list that could not be
  read is taken for an empty one.
- An unpublish returns success after 30 rounds with the drive still mounted
  (`controller.go:447`), where `docs/csi.md:157` says that the polling prevents "volume
  still mounted" errors during deletion.  The deletion is refused then and repeated; it
  succeeds once the drive is unmounted (`CallsReturn`).
- `staleNodeFailures` is never reset by a successful lookup, though the comment at
  `node_controller.go:270` speaks of three consecutive failures: three 403
  answers in the life of the process delete a node.
- The secret may hold an expired token between two refreshes: a cached token with
  no more than five minutes left is written and replaced ten minutes later
  (`SecretGapBounded` is the bound that does hold;
  `docs/prd-ccm-impersonation.md:271` says "auto-refreshed by CCM before expiry").
- The CSI controller reads its token file once, at its start
  (`csi/cmd/controller/main.go:49`), where `docs/prd-ccm-impersonation.md:345`
  says that it re-reads it on each call; a refreshed secret reaches it only with a
  restart of its pod.
- `DeleteServer` deletes every drive that is attached, CSI volumes that are not
  yet detached included (`servers.go:354`); a drive cloned for a server whose
  wait for readiness fails is not cleaned up (`servers.go:58`).
- A tag is listed and written back with nothing to detect a write in between
  (`loadbalancer_controller.go:968`); the model has this in one step.

### Fairness

`MachineController`: the worker's calls have deadlines (WF of `Step`), the
workqueue is first in first out and every return requeues (SF of `Reconcile` per
machine), the watch delivers, CloudSigma finishes starts and stops.
`LoadBalancerController`: the Deployment restarts the process, the two tickers
fire, a sync's calls return, a running kubelet finishes terminations; the
discovery ticker competes with syncs in one select loop, hence SF, and it is a
discovery that succeeds which is fair, as failures are bounded.  Nodes are
not assumed to recover.  `CSIController`: goroutines run, Go mutexes do not
starve, sidecars repeat failed calls (SF per call), CloudSigma completes the
detachments it accepted (WF of `Unmount`).  `NodeController`: the
ticker fires and calls return.  `CSINode`: goroutines run and a Go mutex is
handed on in order (SF of the steps of each call); kubelet, CloudSigma and the
kernel owe nothing, as the rounds of waiting are limited.  `CSIToken`: goroutines
run, requests end by their timeout, time passes.  Faults are never fair: they are
bounded.

Deadlock is checked in the LoadBalancer, node service and token runs.  It is not an
error elsewhere: a machine controller without machines, calls that have all
returned and a cluster without nodes have nothing left to do.

## Proofs

Every theorem holds for any values of the constants that satisfy the module's
named assumption; what a theorem needs beyond that is said with it.

`MachineController` (any machines, servers, accounts, `MaxPolls`, fault budget):

- `TypeCorrect` (`TypeOK`), from the inductive `TypeInv`: `TypeOK` alone is not
  inductive, since a step uses what the worker holds. `JobOK` says what it
  holds at each program point (a machine, an account, a server where one is
  used), `CacheOK` that a fresh cache equals the stored objects.
- `NoDuplicates` (`NoDuplicateServers`), if `ListLag = FALSE`.  `DupInv` adds that
  the list shows every server (`ListComplete`) and that a worker about to create
  has no server in its account (`NothingToDuplicate`), which holds from the
  search to the creation because nobody else creates servers for the machine.
- `FinalizersHeld` (`ServersHoldFinalizer`).  `FinInv` follows the finalizer
  from the stored object to the cache and the worker's copy: the finalizer
  is never taken off an object that still exists, so a copy that has it, however
  stale, proves that the object has it.
- `OwnServers` (`RecordsOwnServer`) and `DeletesOnlyDeleted`
  (`OnlyDeletesDeleted`), if names are unique (`NamesUnique`): `OwnInv` says that
  every server a stored object, a cached one, or the worker names was created for
  that machine, and that a worker in `reconcileDelete` has a deleted machine.
- `RecordedServersDeleted` (`RecordedServerDeleted`), if names are unique and a failed
  request is never read as 404 (`NeverMisreadMissing`).  `RecInv` adds that an object
  with a recorded server has the finalizer, that a worker in `reconcileDelete` whose
  version is fresh holds the stored record, and that once it is about to remove the
  finalizer that server is gone or was left behind.
- `Implements` (`ImplementsLifecycle`), if names are unique: every step is a step of
  `ServerLifecycle` or changes nothing of it.  The simulation rests on `SimInv`,
  the conjunction of the invariants above (`DupInv` where the list is complete):
  that a write of the status records the machine's own server is `OwnInv`, that a
  creation finds the machine held is `FinInv`, that it finds no other server is
  `DupInv`.

`CSINode` (any finite set of volumes, any calls, any `MaxRetries` and fault budget):

- `TypeCorrect` (`TypeOK`), with the discipline of the mutex: the call past
  `nodeDeviceMu` is the one that holds it, whatever restarts.
- `MountsExclusive` (`OneMountPerDevice`, with its exception for volumes in `blind`).
  `MountInv` adds that the device a call has found is mounted nowhere from the search to
  the mount, unless the call searched without a list of the mounts, and that what is
  mounted while a call waits was there when it began to: only the holder of the
  mutex mounts, and unstaging takes mounts away only.
- `PodsSeeTheirMount` (`PodSeesStaged`).  `PodInv` adds that the call kubelet waits
  for is the only such call of its volume, which is not staged before it answers,
  and that a call, given up or not, mounts only at a path without a mount, which
  a staged volume has.
- `OwnDevices` (`OwnUnlessCrowded`).  `DeviceInv` adds that a disk is plugged in only
  for a volume kubelet or the attacher wants, and that, until `crowded` is set, at most
  one volume is unsettled.  A call for a volume not in `blind` mounts at an
  empty path a device that is mounted nowhere (`MountInv`): both volumes are then unsettled, so they are the same.  The
  comment "This works because CSI processes volumes sequentially" is thus true of what
  it assumes, and only of that.

`NodeController` (any nodes, threshold and fault budget):

- `TypeCorrect` (`TypeOK`).  `FailsBounded`: the count of a node passes the threshold
  only by deletions that failed, since every other way to it ends in a deletion that
  drops the count.
- `AddressesLast` (`AddressedIsInitialized`).  `AddressInv` adds that a listed copy of a
  node whose version is still current equals the stored node (`SnapFresh`), and that a
  status update that can succeed has a copy without the taint (`StatusUntainted`): the
  removal of the taint makes the copy stale, so the update right after it is refused,
  also when the removal was done and its answer lost.

`CSIToken` over `ImpersonationClient` (any callers, lifetimes, buffer, interval and
duration of a fetch, if `Buffer > 2 * MaxAge` and every token outlives a fetch):

- `TypeCorrect` (`TypeOK`).
- `CredentialsOutlastFetch` (`CredentialsLive`) and `ReturnedTokensLive`
  (`ReturnsLive`).  `LiveInv` relates the two clocks: a token lives at least as
  long as `expiresAt` says less the duration of its fetch, and what a call took
  from a cache had the buffer left when it was taken, less the age of the call.
- `ExpiredSecretBounded` (`SecretGapBounded`).  `UserLeft` says what a user's token
  has left while it is carried to the secret, `GapInv` how much of it, of the
  ticker's interval and of the failed refreshes is used up at any time.

`LoadBalancerController`:

- `TypeCorrect` (`TypeOK`), for any clusters, services, nodes, IPs and faults.
  `TypeInv` says what a sync holds at each of its program points.
- `IPsUnique` (`UniqueIPs`), `TagsCoverShown` (`ShownIPsTagged`) and
  `AssignmentsExclusive` (`ServiceIPsExclusive`), if `CrashOnly`: one cluster, every
  node has a providerID, no request for a tag fails and the CCM ends by crashing,
  never gracefully.  Each of the four is needed (see the list of
  limits above and `lb_restart`); crashes, failed requests to Kubernetes and for NICs,
  node failures, deletions and additions may happen in any number.  `PoolInv` collects who
  claims an IP: the status of a service, `serviceIPs`, and what the sync in progress
  has read or allocated.  The claims of two services are disjoint
  (`ClaimsExclusive`), and what a service shows or the memory knows is tagged
  (`ShownTagged`, `KnownTagged`), so that `isIPAvailable` refuses an IP somebody
  claims even after a crash has emptied the memory.
- `IPsStable` (`IPNeverChanges`), for any clusters and any faults.  `KeepInv`: the pool
  is whole or empty (a failed discovery empties it), and the status of a service agrees
  with `serviceIPs` and with what the sync has read of it, unless the service was
  deleted since; so a service whose IP is not in the pool is not given another one.
- `PodsManual` (`PodsOnManualNodes`), for any clusters, node failures and failed requests,
  if `NoRestart`: the CCMs neither crash nor stop and every node has a providerID.
  `TrackInv`: `ipAssignments` has manual nodes only and every IP of `serviceIPs`, and
  `serviceIPs` every IP a service shows or showed when the sync listed it; so
  reconcileService, which trusts a shown IP, always finds it tracked, and a pod is
  placed only where the mode was switched before.  After a restart a shown IP is not
  tracked, and the recovery assigns the first healthy node without the switch (see the
  limits above); with a first node without UUID nothing is tracked at all.

`CSIController` (any drives, servers and failures, any calls in an order that satisfies
`SidecarAssumption`; nothing else is asked of the callers):

- `TypeCorrect` (`TypeOK`), with the discipline of the locks: the call past a
  server's lock is the one that holds it.
- `OneDrivePerChannel` (`ChannelsExclusive`), if there are no more drives than
  channels.  `ListInv` says the same of every drive list a call has read, as each may
  be written back.  The bound is exact: with all channels in use
  `findNextDeviceChannel` hands out the last one again (`controller.go:662`).
- `NamesHaveOneDrive` (`OneDrivePerName`).  `NameInv` adds that a call about to create
  still finds no drive of its name, as the provisioner makes one call for a name at a
  time.
- `ReportsHold` (`AttachedUnlessCrossed`).  `Current` says of a call on its way from GET
  to PUT that the list it read is still the server's, unless writers have crossed there:
  a PUT in between either comes from a call under the same lock, which is impossible, or
  makes the server crossed.  It also says that the drive of a publish under way is
  reported nowhere else, and that of an unpublish not at all.  So a PUT on a server that
  is not crossed changes the entry of one drive, which is not reported (`PutsOne`).
  `IssueInv` carries the order of the sidecars: of two calls that come one after the
  other, one has returned or not begun.
- `DetachesStay` (`UnpublishedIsDetached`, with its exceptions).  `SettledInv`: once an
  unpublish has returned and no publish of the drive there is to come, the drive is not on
  the list; a call that polls has taken it off, and by `PutsOne` only a publish of the
  same drive to the same server could put it back, which came before (`StaysOff`).  The
  check after a failed PUT (`UnpublishVerify`) is what makes it hold when the answer of
  the PUT is lost.
- `AttachesKept`: where drives are only attached, each to one server, in any order and
  any number, `PublishedIsAttached` holds without exception.  `OriginInv`: a drive is only
  where some call publishes it, so that no publish takes it away from anywhere and no
  server is ever crossed.  This is what the mutex is for; with detaches the property fails
  (`csi_detach`).

Only model-checked: the liveness properties, as fairness is out of the prover's reach
(`EventuallyProvisioned`, `DeletionCompletes`, `EventuallyReleased`, `EventuallyServed`,
`CallsReturn`, `EventuallyInitialized`, `StaleEventuallyDeleted`, `StageReturns`,
`SecretRecovers`).  Every other property a passing run checks is a theorem.

## Not modelled

The cluster controller (a finalizer, a lookup and a flag: nothing in it depends on
the order of two steps); drives and IPs in the server operations; `NodeExpandVolume`,
`NodeGetVolumeStats`, `ControllerExpandVolume` and `ValidateVolumeCapabilities`
(they change nothing the properties are about); block volumes (they get no further
than `NodePublishVolume`, which wants a `devicePath` nobody sends); `ClearCache`,
`ClearUserToken`, `UpdateServerNICs`, `AttachStaticIP`, `DetachStaticIP` (no caller);
API types, generated code, binaries, flag parsing, set-up of gRPC servers and manual
test programs (no behaviour of their own).  Two managers at once are not modelled:
leader election is a matter of deployment.

## Plan

Modelled in this order: machine controller, LoadBalancer controller, CSI
controller, node controller, refinement of the machine controller, CSI node
service, tokens.  What would come next:

1. `CloudServers`: drives of CreateServer and DeleteServer, with what is left
   over after each failure.
2. Tags as list and PUT in two steps, for two clusters with a tag in common.
3. `UniqueIPs` for several clusters with disjoint pools, where `IPsUnique` has one.
4. The safety part of the liveness properties: what a sync or a call has achieved when
   it ends without a fault.
