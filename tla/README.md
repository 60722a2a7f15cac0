# Verification of cloudflare-tunnel-operator

TLA+ models of the operator's two controllers and of what they do to the
Cloudflare account, TLC configurations that check them on small instances, and
TLAPS proofs of their safety properties for every value of the constants. Paths below are relative to the repository.

## 1. The system

| Component | Code | State | Operations |
|---|---|---|---|
| CloudflareTunnel controller | `internal/controller/cloudflaretunnel_controller.go` | none of its own; the object's finalizer, `Status.TunnelID` and conditions; Secret, Deployment, Service, ServiceMonitor, PDB | `Reconcile`: live branch (finalizer, tunnel, Secret, status, four children, status), deletion branch (`DeleteAllDNS`, `DeleteTunnel`, finalizer) |
| Ingress controller | `internal/controller/ingress_watcher.go` | a mutex; the finalizer of Ingresses; the tunnel's remote configuration; CNAME records | `Reconcile`, `finalizeIngress` |
| Cloudflare client | `pkg/external/cloudflare.go`, `pkg/domain/entity.go` | none; tunnels, tokens, configurations and records live at Cloudflare | one request per method, except `DeleteAllDNS`: a list and a deletion per record |
| Webhook | `internal/webhook/v1beta1/` | the label that marks a default tunnel | `Default`, `ValidateCreate`, `ValidateUpdate` (`checkDefaultTunnel`) |
| API types | `api/v1beta1/` | | declarations, apply configurations |
| Manager | `cmd/main.go` | leader lease | one active process, one worker per controller, shared cache |
| Others | `pkg/domain/origin_request_config.go`, `pkg/utils/random`, test helpers, chart | | stateless |

How they interact. Both controllers read Kubernetes objects from an informer cache
that trails the API server, and write to the server: `Update` and
`Status().Update` carry the version that was read and conflict with any newer one;
server-side apply does not. The CloudflareTunnel controller is woken by its objects and
by their children (`Owns`), the Ingress controller by Ingresses only. They share
no lock and communicate through `Status.TunnelID`, which the Ingress controller
reads to know where to publish, and through the DNS zone, which the deletion of a
tunnel purges. An error, or `Requeue`, puts a request back into its queue.

What is hard. Every request can fail, or succeed and lose its reply; the process may
die between any two; users edit and delete objects, people delete tunnels at the
dashboard, and the garbage collector and Deployment controller act at their own pace;
all of it is seen late. A tunnel is created in one place and recorded in another.
Deletion touches three systems in order. The remote configuration is read and
written back as a whole.

What makes each component correct:

- CloudflareTunnel controller: a tunnel that was ever recorded is not leaked and not
  deleted before its time; deletion completes; a live object ends up served, and the
  controller never goes quiet on unfinished work.
- Ingress controller: an Ingress with a live tunnel has a rule and a record for
  each host; entries never outlive the Ingress that answers for them; nobody else's
  entries are touched; a deleted Ingress goes away.
- Cloudflare client: `DeleteAllDNS` leaves no record of the tunnel; a missing tunnel is
  told apart from a failed request.
- Children: each one says what the specification does, or the API server refuses it;
  the specification stays what its user wrote.
- The list of rules: cloudflared accepts it and sends each published host where its Ingress
  is; nobody else's host is lost.
- Webhook: at most one default tunnel, or a warning.

## 2. The plan

Written, in this order:

1. `TunnelController`, `TunnelLifecycle`: the controller that creates and deletes
   tunnels, with its abstract specification.
2. `TunnelControllerProofs`: type correctness, the inductive invariant, the safety
   properties, refinement.
3. `IngressController`.
4. `TunnelConfig`, `HostTable`: the list of rules, and the table of hosts it implements.
5. `ManagedResources`: the content of children under edits of the specification, with the
   webhook that admits them.
6. `IngressController` with two tunnels (`IngressMoves`).

7. `ManagedResourcesProofs`: the inductive invariant behind `SettledIsApplied`,
   `UsersSpecIsKept` and the webhook's warning.
8. `TunnelConfigProofs`: the sort, the rewrite of the list, and the table it implements.
9. `SettledIsConverged` in `TunnelControllerProofs`; `VersionLogs`, the lemmas about logs that
   the proofs share.
10. `IngressControllerProofs`, `IngressEntriesProofs`: the inductive invariant of the
    Ingress controller and every safety property the runs check.

Left:

11. A composite of both controllers over one account and zone, with the steps that
    `IngressController` reduces today replaced by the full ones, and the rules of
    `TunnelConfig` in the place of the table.

## 3. The modules

### TunnelController

One CloudflareTunnel name, one worker, the account, the zone. Each request to
Cloudflare or the API server is an action; reading the cache is part of the action
that uses what was read.

- `crs` is the log of the object's versions from the cached to the stored one. A
  write appends, a watch event (`ObserveCR`) drops the head and queues the request. The
  `resourceVersion` check is `fresh`: it is TRUE from the `Get` of the stored version
  until somebody else writes. `kids` holds such a log for every child.
- `Call` is a request and its outcomes: done and answered, done and the answer lost,
  failed, refused. `Put` is an update with the version check, `Apply` a forced apply.
  `UpdateStatus` may store a new version that differs in nothing but a timestamp
  (`Restamped`): `SetStatusCondition` says Available and takes it back.
- `Get`, `AddFinalizer`, `ReconcileTunnel` (reuse, look up or create), `LookupToken`,
  `CreateTunnel`, `FetchToken`, `ReconcileSecret`, `RecordTunnel`, `ReconcileChildren`,
  `UpdateStatus` are the live branch; `ListRecords`, `DeleteRecord` (`DeleteAllDNS`),
  `DeleteTunnel`, `RemoveFinalizer` the deletion. `pc` names the next one. `DeleteAllDNS`
  deletes by record id, so a listed record that is withdrawn meanwhile stays in `todo` as
  `NoID`, and its deletion fails even if the host has another record by then.
- Environment: users (`CreateCR`, `EditCR`, `DeleteCR`, `LoseKid`), watches, the garbage
  collector (`CollectKid`), cloudflared and the Deployment controller
  (`DeploymentUp`, `DeploymentDown`), the dashboard (`LoseTunnel`), the Ingress controller
  (`Publish`, `Withdraw`) and `Restart`.
- What Cloudflare does is not in the repository and is a parameter: `UniqueNames` (a second
  tunnel of a name is refused), `Refuses` (the deletions that are refused),
  `ReportsNotFound` (the interface's `ErrTunnelNotFound`; the client of this commit
  wraps errors with `%v` and never returns it, which is FALSE).
- `recorded` is a history variable.

Left out: the content of children (see `ManagedResources`), `GetTunnel` and `DeleteToken`
(never called), errors of cache reads other than NotFound, edits that change `Optional`.

### TunnelLifecycle

What the operator promises about the tunnel of an object: three variables, eight
actions. `TunnelController` implements it with `phase` and `recorded` read off the
stored version of the object (`Lifecycle`).

### IngressController

Ingresses and CloudflareTunnels by name, one worker with a queue. Objects are logs
as above. `Resolve` is `detectCloudflareTunnelName`, `getCloudflareTunnel` and the
checks after it, for both branches of Reconcile; `GetTunnelConfiguration`,
`UpdateTunnelConfiguration` are the two requests of append and remove, with `snap` in
between; `GetDNS`, `PutDNS` those of the records. The hosts are visited in any
order. The CloudflareTunnel controller is reduced to `RecordTunnel`, `ListRecords`,
`DeleteRecord`, `DeleteTunnel`: enough to interleave a purge with a publication.
`RecordTunnel` is one step, because nothing of `CreateTunnel`, the token and the Secret
shows to the Ingress controller before the id is stored; that it may fail for ever is
expressed by the lack of fairness. `LoseTunnel` is a tunnel deleted at the dashboard, whose id
the object keeps. Users edit an Ingress also while it is being deleted (`EditIngress`, the
fault `lateEdit`).

Left out: the order of rules, paths, origin settings, the catch-all rule (all in
`TunnelConfig`), rules without host, proxied flags, the label (the default tunnels are the
constant `DefaultTunnels`; see `ManagedResources`).

### TunnelConfig and HostTable

`HostTable` is what a tunnel's configuration is to `IngressController`: a table from hosts
to services, of which an Ingress changes its own entries. `TunnelConfig` is what it really is: a
sequence of rules, each with host, path, service and origin settings. `AppendConfig` and
`RemoveConfig` are `appendCloudflareTunnelConfig` and `removeCloudflareTunnelConfig`: `KeptRule`,
`OwnRule` and `CatchAllRule` are the three ways a rule gets into the map from host to rule,
`LastRule` the one of several with the same host that the map keeps, `SortsBefore` the comparison
given to `SortedFunc`, `Sorted` its result. `ToOriginRequestConfig` copies the settings and
puts the host into the Host header. Reading and writing the configuration is one step: what happens
between the two requests is in `IngressController`. `AddRule` and `DropRule` are people
at the dashboard, who keep the rule that catches all, as Cloudflare requires; `EditSettings`
changes `Spec.Settings`. `Matches` and `FirstMatch` are cloudflared's reading of the list
(external): first match, wildcards, empty path for all.

`IngressController`'s table is `Table`, by `LastRule`; `ImplementsTable` says that every write
changes the table as `HostTable` does.

Left out: the syntax of names (`Rank` and `Covers` give the order and the wildcards; a
wildcard sorts before what it covers), IPv6 addresses in endpoints, the fields of the origin
settings one by one, `WarpRouting` and other fields the functions hand through.

### ManagedResources

CloudflareTunnels by name, one worker with a queue, objects and children as logs from the
cached to the stored version. A child is its content. `Default` and `Warns` are the webhook,
applied to every write of the object by `Admit` (users) and `AddFinalizer`; the warning is against
the cache. `Redefaulted` is what happens to an object the controller sends as a whole:
`replicas` and `enableServiceMonitor` are `omitempty`, so a zero is left out and the API server
fills in the default of the CRD. `Template` and `Quantities` make the Deployment,
`ReconcileDeployment` compares it with the cached one and applies it; `CreateOrUpdate` is the
function of controller-runtime, used by `ReconcileServiceMonitor` and `ReconcilePDB`;
`MergedBudget` sets the fields that are given and clears none. `monitoring` says whether the
CRD of ServiceMonitors is installed; it stays as it is. `wrote` and `warned` record what
the user last wrote and was answered. The webhook counts the object it validates, if the
cache has that as a default tunnel already. `Drift` is somebody who changes or deletes a child.
`ValidTemplate` and `ValidBudget` are the API server's rules; among others they refuse negative
numbers, which the schema of the custom resource lets through (`IsSpec`).

Left out: the tunnel, the Secret, the deletion and owners (`TunnelController`); the Service,
whose content never changes; writes of conditions, whose failure costs a retry and nothing
else; the other fields of the Deployment, which are copied or have one default each;
`ENABLE_WEBHOOKS=false`.

## 4. The runs

Deadlock is not checked: with all work done, all faults spent and every object
created as often as the bound allows, the system really stops.

| Run | Question | Instance |
|---|---|---|
| `TunnelSafety` | Is a recorded tunnel ever leaked, or deleted too early? Does the controller go quiet on unfinished work? Is every step one of the life cycle? | object created twice, 2 tunnel ids, one fault: failed or lost request, restart, edit, tunnel deleted at the dashboard |
| `TunnelLiveness` | Does a live object end up served? | object created twice, 2 ids, caches at most one version behind; one fault: failed or lost request, restart, edit, child deleted, pods dead |
| `TunnelDeletion` | Does a deletion complete, records included? | 1 id, 1 host that is published and withdrawn meanwhile, PDB asked for, one fault: failed or lost request, restart, edit, child deleted, record withdrawn; deletion with an empty id refused |
| `TunnelOrphan` | Does deleting the object remove its tunnel? (no) | no fault at all, deletion with an empty id refused |
| `TunnelStaleToken` | Do the pods of a live object come up? (no) | object created twice, 2 ids, no fault at all |
| `IngressSafety` | Do Ingresses that share a configuration get and lose exactly their own entries? | 2 Ingresses with a host each, edits of TLS, ignore and a malformed annotation, also during deletion, one fault, the tunnel deleted with its object or at the dashboard |
| `IngressLiveness` | Does an Ingress end up published, a deleted one go away? | 1 Ingress with 2 hosts, created twice, moved between default and named, also during deletion, two faults, the tunnel never recorded, deleted with its object or at the dashboard |
| `IngressMoves` | Is an Ingress redirected as a whole when it is moved? Does a record ever lead where its host is unknown? | 1 Ingress with 2 hosts, moved between the default tunnel and another one, two faults, either tunnel deleted with its object or at the dashboard, records that were there before |
| `TunnelConfig` | Does cloudflared accept each list and answer as published? Is the list a table of hosts? | a wildcard, a host below it, another host; Ingresses with a wildcard, TLS, a repeated and an empty host, no rules; 2 settings, lists of at most 4 rules |
| `ManagedResources` | Do children follow the specification, and does it stay the user's? Are second defaults warned of? | 2 tunnels, 3 specifications for one (default with a budget of either kind; not default, with no ServiceMonitor and 0 replicas), a refused one for the other; one fault: failed or lost request, restart, edit, drift |
| `IngressDangling` | Do records go with their tunnel? (no) | tunnel deleted |
| `IngressStuck` | Does an Ingress go away whose tunnel is gone? (no) | named tunnel deleted first |

Properties. `NoRecordedLeak` and `DeletesOnlyItsOwn` are about crashes, conflicts and stale
copies around the tunnel; `Invariant` is their inductive strengthening (each
controller's module has one, and a run checks it); `SettledIsConverged` says that silence
means success, and `QuietInvariant` strengthens it; `DeletionCompletes` and
`LiveIsServed` that silence comes. `SettledIsRouted`, `LiveIsRouted` and
`CleanupCompletes` are the same for Ingresses; `EntriesGoWithIngress` says that the
finalizer brackets every entry; `TouchesOnlyItsHosts` that writing back the whole
configuration loses nothing; `MovedIsRouted` and `RecordsHaveRules` are about two tunnels.

What the new boundaries say. Several properties hold only up to an exception in their
statement, and the exception is what the code does:

- `PublishedHostIsReached`: a host below a wildcard in the list is answered by the wildcard's
  rule, with the pattern as Host header.
- `OthersKeepTheirRule`: of several rules of one host, made at the dashboard for different
  paths, only the last survives the next write, and its origin settings are replaced.
- `WarnsOfSecondDefault`: with a cache that is up to date, the user of a default tunnel is
  warned if there is another one, and so is the user who edits the only one: the webhook
  finds the object itself, although the comment at `cloudflaretunnel_webhook.go:90` is about
  "multiple default tunnels". With a cache that is not, two users who make their tunnels
  default at the same time are both not warned.
- `UsersSpecIsKept`: `enableServiceMonitor: false` and `replicas: 0`, written when the object is
  created, are undone by the update that adds the finalizer; written later, they stay.
- `ChildrenFollow`: a limit for one resource beside a request for the other (filled in as a
  limit of 0), a budget switched from `minAvailable` to `maxUnavailable` (both stay set), and a
  missing CRD of ServiceMonitors each make Reconcile fail for ever at that child; those after
  it are not reached (`Refused`, `Reachable`). The last is at odds with the comment at
  `cloudflaretunnel_controller.go:757`, which wants the operator to work without the
  Prometheus Operator, the default of `enableServiceMonitor` being true.
- `MovedIsRouted`, `LiveIsRouted`: the purge of a deleted tunnel may take a record that has
  been redirected to another tunnel since it was listed (`RedirectedTo`). `IngressLiveness` has
  one tunnel, where the exception never applies; with the two of `IngressMoves` it does.
- `LiveIsServed`: two exceptions. When names are unique, an object whose tunnel was created
  and never recorded is stuck (`Orphaned`). And an object that was deleted and created again may
  take the token of its predecessor's Secret, as long as the cache has that, apply it over its
  own and find it there ever after (`Misled`, see `TunnelStaleToken`).
- `CleanupCompletes`: an Ingress stays in deletion for ever if its annotation is malformed,
  if the tunnel it names is gone (`IngressStuck`), if its tunnel's object is live and has
  no id (which may be for ever, see `Orphaned`), or if the tunnel was deleted at the dashboard. A
  default tunnel that is missing or in deletion is no obstacle.

More that TLC shows and no run states. With two
default tunnels, an Ingress is withdrawn from another tunnel than the one it was published
through (`RecordsHaveRules` fails with `DefaultTunnels = {c1, c2}`). With names that
are not unique, a stale cached object makes the controller create a second tunnel and store its
token; the status write conflicts, the token is reused with the first tunnel's id, and all
is quiet with pods that serve a tunnel nobody publishes to. An Ingress reconciled before the
default tunnel is in the cache returns with neither error nor requeue
(`ingress_watcher.go:89`), and the tunnel's creation wakes nobody: it stays unpublished until it
changes, the operator restarts or the cache resyncs, although `README.md:39` has all Ingresses
set up. And `removeDNSRecord` looks a record up by host name alone, so an ignored Ingress
has a record deleted that somebody else made, which is not what the comment of
`ingress_watcher.go:117` speaks of.

Bounds and why they are enough. One fault already separates any two adjacent requests
of Reconcile; the two of `IngressLiveness` let a fault hit the retry of the first, and those
of `IngressMoves` let an edit meet a deletion. Two creations let an old
copy or child meet a new object; two ids let a tunnel be replaced. `TunnelLiveness` needs both,
since what goes wrong with an old Secret needs two objects with a tunnel each; it has caches
one version behind, and no record or PDB, which `TunnelDeletion` has with a single
object. `MaxLag` bounds the
versions a cache may trail: at 2 a cache can miss the event in between. It is
needed because the Secret of two incarnations can be re-applied with alternating
tokens for as long as its cache lags. In `ManagedResources` it stops the controller, not the
others, from writing while its cache trails by more. `MaxRules` of 4 lets two rules of one
host stand among others. Model values for ids and hosts are
interchangeable, so `TunnelSafety` uses symmetry; the runs with liveness do not.

Fairness. Worker: weak fairness of the disjunction of its steps, since a
controller-runtime worker takes the next request whenever the queue holds one and runs
Reconcile to its end. `SF(Get(i))` per Ingress: the queue is first in, first out, so a
queued Ingress is not overtaken for ever. Watches and the garbage collector: weak
fairness. `DeploymentUp`: a Deployment whose token opens a connection becomes
available. In `IngressController`, `AssignIP` (the cluster gives an Ingress an address), and
nothing of the CloudflareTunnel controller or of the dashboard (`TunnelSteps`): it may
never record an id and never finish a deletion. `ManagedResources` has the same for its
worker, its queue and its watches. Faults and users have no
fairness. The bound on faults stands for "eventually requests succeed".

Settled properties speak of the time until the next resync: controller-runtime lists
all objects again after its default period of hours, and a restart of the idle operator
does the same. `DeploymentRuns` does not depend on that: its counterexample is a controller that
requeues itself for ever, and what a resync makes it do it does all the time.

What the violations show is quoted with its document in `PROJECT.json`, `findings`:

- `TunnelOrphan`: the object is deleted after `CreateTunnel` and before the status
  write. The write conflicts, the next Reconcile deletes the tunnel with the empty id. The
  run has that refused: the object never goes, and neither does the tunnel. With `Refuses = {}`
  TLC finds the other half: the object goes and the tunnel stays.
- `TunnelStaleToken`: the object is deleted and created again before its Secret has been
  collected. The new id is recorded; the next Reconcile finds the old Secret in its cache, takes that
  token with the new id (lines 198-204) and applies it. The tunnel of that token is
  gone, no pod becomes available, and each retry reads the same Secret again.
- `IngressDangling`: `PutDNS` between `ListRecords` and `DeleteTunnel`, or after.
- `IngressStuck`: `finalizeIngress` accepts a tunnel being deleted and a default tunnel
  that is gone, but not a named tunnel that is gone.

## 5. The proofs

Every safety property that a passing run checks is proved for all values of the constants, from
the named assumptions of the modules (`ConstantsAssumption` and its like: sets are not
empty, marks differ from what they mark, bounds are numbers). TLC checks each
inductive invariant as an invariant of a run. The proofs are in six modules.

### VersionLogs

What `Append`, `Tail` and the last element do to a log of versions.

### TunnelControllerProofs

`TypeCorrect`; `Invariance`, with `RecordedTunnelsAreKept` (`NoRecordedLeak`) and
`DeletionIsDue` (`DeletesOnlyItsOwn`); `Refinement` (`ImplementsLifecycle`); `QuietInvariance`,
with `QuietIsConverged` (`SettledIsConverged`).

`NoRecordedLeak` is not inductive: a stale copy in the deletion branch could
delete any tunnel, and a write of the status could overwrite any id. `Invariant`
adds (`VersionsOK`) that every version of the object in flight, cached or stored, names
only recorded ids, and none without the finalizer; (`DeletingOK`) that an old version
being deleted names the stored object's tunnel only if the stored object is being
deleted as well; (`CopyOK`) that a fresh copy is the stored version, and in which branch
a copy may be; (`TunnelStepOK`) that when a new id is about to be recorded, the old one no
longer exists. Lemmas `Unwritten` and `Rewritten` treat the two outcomes of an
update, `KeepVersions` and `WriteVersions` the effect on the set of versions; the
step lemmas go through the actions in groups: reads, writes, tunnel steps, environment.

`SettledIsConverged` says nothing of a running Reconcile, so `QuietInvariant` says what one
has behind it: each child it has passed belongs to the copy's object, or its cache is about to
change, or the request is queued again (`PassedOK`). The uid (`UidsOK`) tells a child of
this object from one of its predecessor, which the garbage collector is still to take. The
step that matters is `UpdateStatus`: it goes quiet only on a copy without a newer version.

### IngressControllerProofs, IngressEntriesProofs

The invariant has layers, by what has to be assumed of users. Each layer's theorem cites
the ones below it.

| Layer | Assumed | What it says | Gives |
|---|---|---|---|
| `BaseInvariant` | nothing | copies in hand are of objects that keep their finalizer meanwhile (`IngressVersions`, `CopyIsGuarded`); the configuration that was read is still the tunnel's (`SnapIsCurrent`); a tunnel id belongs to one object and one stretch of its versions (`TunnelVersions`); nothing leads to a tunnel the cache has not reached (`UnreachedAreUntouched`) | `TypeCorrect`, `OnlyItsHosts` (`TouchesOnlyItsHosts`) |
| `CleanInvariant` | `OneTunnel` | Reconcile writes to no other tunnel than the one that serves the Ingress, and has cleaned that one when it removes a finalizer | |
| `OwnedInvariant` | `StaysPut` | each entry has an Ingress of that tunnel with the finalizer | `EntriesGo` (`EntriesGoWithIngress`) |
| `PublishedInvariant` | `SharesNoHost`, `CreatesOnce` | an Ingress that is neither queued nor in hand is published as it says, unless its tunnel is being deleted or was lost at the dashboard (`Astray`) | `MovedWhenSettled` (`MovedIsRouted`); with `StaysPut`, `RoutedWhenSettled` (`SettledIsRouted`) |
| `LeavingInvariant` | `OneTunnel`, `SharesNoHost`, `EditsOnlyLive` | of what an old copy without a finalizer could withdraw, nothing is there | |
| `WithdrawalInvariant` | and `KeepsIgnoring` | a record without a rule has an Ingress in deletion | `RecordsLead` (`RecordsHaveRules`) |

`InvariantHolds` puts them together: `Invariant` holds, each part under its hypotheses. The
hypotheses restrict what users write, not the controller, and each is met by a run that checks
the property (`StaysPut` by `IngressSafety`, `KeepsIgnoring` and `EditsOnlyLive` by
`IngressMoves`, the others by both). They are there because the properties fail without them:

- `OneTunnel` (one default tunnel): with two, an Ingress is withdrawn from another
  tunnel than it was published through.
- `SharesNoHost`: of two Ingresses with the same host, the one that is deleted or ignored
  takes the other's rule and record along.
- `CreatesOnce`: a tunnel deleted and created again wakes no Ingress.
- `StaysPut` (hosts and tunnel are not edited): the entries of the old hosts, and the
  rules in the old tunnel, stay behind. `MovedIsRouted` does without it, up to the
  records a purge takes along; `SettledIsRouted` is what is left when there are none.
- `EditsOnlyLive` (an Ingress is not edited while it is being deleted): the withdrawal of
  an old copy may follow another specification than the stored one's.
- `KeepsIgnoring`: an Ingress to be ignored and then published again may be
  found with its rules off and its records still on.

The arguments that are not plain case analysis: why an old copy does no harm (its
object keeps the finalizer until the cache has caught up with the deletion, because the
update that removes it conflicts otherwise); why a new tunnel starts clean (Reconcile
takes ids from the cache alone, and `UnreachedAreUntouched` covers those that are not there yet); why a
withdrawal meets the tunnel that was published to (`StaleIsUntouched`: if the cache still
shows no or another tunnel, nothing was published to the stored one).

### TunnelConfigProofs

`TypeCorrect`; `ValidLists` (`WritesValidList`), `OthersAreKept` (`OthersKeepTheirRule`),
`PublishedHosts` (`PublishedHostIsReached`); `Refinement` (`ImplementsTable`).

`Sorted` gives each host the place that the number of hosts before it says. `SortOrder`
says that the comparison is a strict total order; `Places`, by induction-free counting of
initial segments, that places are the numbers from 1 to the number of hosts, each taken
once; `SortedList` that the list has each host once, in order, the empty name last.
`AppendRewrites` and `RemoveRewrites` say what both functions make of a list: the
sorted list of a map from hosts to rules, from which the properties follow. What
cloudflared answers needs the first match of a sorted list, which is the wildcard or the
host's own rule. The dashboard's steps (`InsertKeepsOthers`, `DropKeepsOthers`) change the
last rule of one host at most, so they are edits of the table.

### ManagedResourcesProofs

`InvariantHolds` (types and `Invariant` together: that what is stored of a child is valid takes
both), `TypeCorrect`, `QuietIsApplied` (`SettledIsApplied`), `SpecsAreKept`
(`UsersSpecIsKept`), `SecondDefault` (`WarnsOfSecondDefault`).

`SecondDefault` says both halves: whoever makes or keeps a tunnel the default one beside another
is warned, and a warning has another default tunnel as its reason, or the object itself.

`SettledIsApplied` needs to know what a running Reconcile has behind it
(`PassedIsApplied`) and what it left when it returned (`LeftIsApplied`), for every child whose
cache is up to date and unless the object is queued again; `UsersSpecIsKept` needs that a
fresh copy is the stored version and that the finalizer stays (`CopyIsCurrent`), the warning that the
label follows the specification in every version (`LabelsFollow`).

### Only model-checked

Liveness (`LiveIsServed`, `DeletionCompletes`, `LiveIsRouted`, `CleanupCompletes`,
`ChildrenFollow`): fairness and `ENABLED` are out of the prover's reach. The violations are
TLC's.

Not modelled: `pkg/utils/random` (the tunnel secret is never read back), the test helpers and
mocks, flags, logging and metrics of `cmd/main.go`, generated copies; the record an empty host
name finds in `GetDNS`; page sizes of list calls; writers of a configuration outside of the
operator between its two requests (the mutex does not bind them, and nothing promises to keep
their changes).

## 6. Running

    tlc -config TunnelSafety.cfg MCTunnelController.tla
    tlc -config IngressSafety.cfg MCIngressController.tla
    tlc -config TunnelConfig.cfg MCTunnelConfig.tla
    tlc -config ManagedResources.cfg MCManagedResources.tla
    tlapm TunnelControllerProofs.tla
    tlapm IngressControllerProofs.tla
    tlapm IngressEntriesProofs.tla
    tlapm TunnelConfigProofs.tla
    tlapm ManagedResourcesProofs.tla
    tlapm VersionLogs.tla

The modules `MC...` hold the values of constants that a
configuration cannot write. Operators named `...Mutant` are faulty versions of the definition
that follows them; each property is violated when one of them takes its place.
